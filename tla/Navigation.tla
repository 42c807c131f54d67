----------------------------- MODULE Navigation -----------------------------
(***************************************************************************)
(* The navigations of one session: NavSession and the threads that share   *)
(* it without a lock.  A graph thread drives GDS2 and asks the user to     *)
(* choose; HTTP requests start a navigation, answer and abort; readers of  *)
(* the event stream copy what they read back into the NavSession; a timer  *)
(* forgets it.  Two graph threads exist: the page walker of                *)
(* runtime/navigation_runtime.py and the registry runtime's of             *)
(* gds2/registry_navigation_runtime.py.  They differ in when they look at  *)
(* the cancellation and in their last step.                                *)
(*                                                                         *)
(* An action is what one thread does between two accesses that another     *)
(* thread can come between.  Progress events, history and the selections   *)
(* of a navigation's result are left out; a question is its number.        *)
(***************************************************************************)
EXTENDS Integers, Sequences, FiniteSets

CONSTANTS
    Navs,         \* navigation ids, each given out once
    Clients,      \* threads that serve HTTP requests
    Aborters,     \* those of them that may be asked to abort
    Readers,      \* threads that serve an event stream
    None,         \* no navigation
    MaxQuestions  \* bound on the decisions one navigation asks for

ASSUME NavigationAssumption ==
    /\ None \notin Navs
    /\ Aborters \subseteq Clients
    /\ MaxQuestions \in Nat

VARIABLES
    graph,       \* the graph thread of each navigation: its kind, place and question
    status,      \* NavSession.status
    pending,     \* NavSession.pending_decision_id (0: none)
    cancelled,   \* the navigations whose cancel_event is set
    decisions,   \* NavSession.decision_queue, of one place: the questions answered (0: empty)
    events,      \* NavSession.event_queue
    registered,  \* WorkerRuntime.navigation_sessions
    timers,      \* WorkerRuntime.navigation_cleanup_timers
    binding,     \* the navigation_session_id of the session's binding
    client,      \* the request of each HTTP thread and where it is
    reader,      \* where each reader is
    raced,       \* history: navigations where an answer was let in that may miss its question
    astray       \* history: navigations where another answer missed its question

session == <<status, pending, cancelled, decisions, events>>
worker == <<registered, timers, binding>>
vars == <<graph, session, worker, client, reader, raced, astray>>

Questions == 1..MaxQuestions
Terminal == {"completed", "failed", "aborted"}
Decision(q) == [type |-> "decision", question |-> q]
Done == [type |-> "done", question |-> 0]
Error == [type |-> "error", question |-> 0]
Events == {Decision(q) : q \in Questions} \cup {Done, Error}

Rest == [at |-> "idle", nav |-> None, question |-> 0]
Away == [at |-> "away", nav |-> None, event |-> Done]

ClientPlaces == {"idle", "spawn", "bind", "accepted", "put", "checked", "unbind"}
GraphPlaces == {"none", "drive", "ask", "announce", "wait", "took", "select",
                "done", "close", "complete", "fail", "cancel", "last", "over"}

TypeOK ==
    /\ graph \in [Navs -> [kind: {"pages", "registry"}, at: GraphPlaces,
                           asked: 0..MaxQuestions]]
    /\ status \in [Navs -> {"running", "awaiting"} \cup Terminal]
    /\ pending \in [Navs -> 0..MaxQuestions]
    /\ cancelled \subseteq Navs
    /\ \A n \in Navs : decisions[n] \in Seq(0..MaxQuestions) /\ Len(decisions[n]) <= 1
    /\ \A n \in Navs : events[n] \in Seq(Events)
    /\ registered \subseteq Navs /\ timers \subseteq Navs
    /\ binding \in Navs \cup {None}
    /\ client \in [Clients -> [at: ClientPlaces, nav: Navs \cup {None}, question: 0..MaxQuestions]]
    /\ reader \in [Readers -> [at: {"away", "reading", "starved", "holding"},
                               nav: Navs \cup {None}, event: Events]]
    /\ raced \subseteq Navs /\ astray \subseteq Navs

Init ==
    /\ graph = [n \in Navs |-> [kind |-> "pages", at |-> "none", asked |-> 0]]
    /\ status = [n \in Navs |-> "running"]
    /\ pending = [n \in Navs |-> 0]
    /\ cancelled = {}
    /\ decisions = [n \in Navs |-> <<>>]
    /\ events = [n \in Navs |-> <<>>]
    /\ registered = {} /\ timers = {}
    /\ binding = None
    /\ client = [c \in Clients |-> Rest]
    /\ reader = [r \in Readers |-> Away]
    /\ raced = {} /\ astray = {}

-----------------------------------------------------------------------------
(* The graph thread.  It drives GDS2 until it needs a decision, is there,  *)
(* or fails: an unsupported page, a failed action, too many steps, or      *)
(* nothing to choose from.                                                 *)

At(n, place) == graph[n].at = place
GoTo(n, place) == graph' = [graph EXCEPT ![n].at = place]

Outcomes(n) == {"done", "fail"} \cup IF graph[n].asked < MaxQuestions THEN {"ask"} ELSE {}

CancelledOr(n, places) ==
    IF n \in cancelled THEN GoTo(n, "cancel") ELSE \E next \in places : GoTo(n, next)

(* The page walker looks at the cancellation between two actions.          *)
WalksPages(n) ==
    /\ At(n, "drive") /\ graph[n].kind = "pages"
    /\ CancelledOr(n, Outcomes(n))
    /\ UNCHANGED <<session, worker, client, reader, raced, astray>>

(* So does the registry on its route to a page or to its first question,   *)
FollowsRoute(n) ==
    /\ At(n, "drive") /\ graph[n].kind = "registry"
    /\ CancelledOr(n, Outcomes(n))
    /\ UNCHANGED <<session, worker, client, reader, raced, astray>>

(* but not in its actions after an answer.                                 *)
Selects(n) ==
    /\ At(n, "select")
    /\ \E next \in Outcomes(n) : GoTo(n, next)
    /\ UNCHANGED <<session, worker, client, reader, raced, astray>>

(* _await_navigation_decision: the status, then the decision and its event. *)
Asks(n) ==
    /\ At(n, "ask")
    /\ status' = [status EXCEPT ![n] = "awaiting"]
    /\ GoTo(n, "announce")
    /\ UNCHANGED <<pending, cancelled, decisions, events, worker, client, reader, raced, astray>>

Announces(n) ==
    /\ At(n, "announce")
    /\ LET q == graph[n].asked + 1 IN
         /\ pending' = [pending EXCEPT ![n] = q]
         /\ events' = [events EXCEPT ![n] = Append(@, Decision(q))]
         /\ graph' = [graph EXCEPT ![n].at = "wait", ![n].asked = q]
    /\ UNCHANGED <<status, cancelled, decisions, worker, client, reader, raced, astray>>

SeesAbortedStatus(n) ==   \* variant: a look at the status, which others overwrite
    /\ At(n, "wait") /\ status[n] = "aborted"
    /\ GoTo(n, "cancel")
    /\ UNCHANGED <<session, worker, client, reader, raced, astray>>

SeesCancellation(n) ==
    /\ At(n, "wait") /\ n \in cancelled
    /\ GoTo(n, "cancel")
    /\ UNCHANGED <<session, worker, client, reader, raced, astray>>

(* An empty selection wakes the thread up and is no answer.                *)
TakesDecision(n) ==
    /\ At(n, "wait") /\ decisions[n] # <<>>
    /\ decisions' = [decisions EXCEPT ![n] = <<>>]
    /\ LET q == Head(decisions[n]) IN
         IF q = 0 THEN UNCHANGED <<graph, astray>>
         ELSE /\ GoTo(n, "took")
              /\ astray' = IF q = graph[n].asked \/ n \in raced THEN astray ELSE astray \cup {n}
    /\ UNCHANGED <<status, pending, cancelled, events, worker, client, reader, raced>>

Resumes(n) ==
    /\ At(n, "took")
    /\ status' = [status EXCEPT ![n] = "running"]
    /\ pending' = [pending EXCEPT ![n] = 0]
    /\ GoTo(n, IF graph[n].kind = "registry" THEN "select" ELSE "drive")
    /\ UNCHANGED <<cancelled, decisions, events, worker, client, reader, raced, astray>>

ReachesGoal(n) ==
    /\ At(n, "done")
    /\ events' = [events EXCEPT ![n] = Append(@, Done)]
    /\ GoTo(n, "close")
    /\ UNCHANGED <<status, pending, cancelled, decisions, worker, client, reader, raced, astray>>

(* The status is read, and written a moment later.                         *)
ChecksStatus(n) ==
    /\ At(n, "close")
    /\ GoTo(n, IF status[n] = "aborted" THEN "last" ELSE "complete")
    /\ UNCHANGED <<session, worker, client, reader, raced, astray>>

Ends(n, place, final, event) ==
    /\ At(n, place)
    /\ status' = [status EXCEPT ![n] = final]
    /\ events' = [events EXCEPT ![n] = @ \o event]
    /\ GoTo(n, "last")
    /\ UNCHANGED <<pending, cancelled, decisions, worker, client, reader, raced, astray>>

Completes(n) == Ends(n, "complete", "completed", <<>>)
Fails(n) == Ends(n, "fail", "failed", <<Error>>)
IsCancelled(n) == Ends(n, "cancel", "aborted", <<>>)

(* finally: the registry's thread always has itself forgotten, the page    *)
(* walker only when the status it finds is a final one.                    *)
ForgettableWhenFinal(n) == status[n] \in Terminal   \* variant: the registry looks too
Forgettable(n) == graph[n].kind = "registry" \/ status[n] \in Terminal

ScheduleCleanup(n) == timers' = timers \cup {n}

IsOver(n) ==
    /\ At(n, "last")
    /\ GoTo(n, "over")
    /\ IF Forgettable(n) THEN ScheduleCleanup(n) ELSE UNCHANGED timers
    /\ UNCHANGED <<session, registered, binding, client, reader, raced, astray>>

(* 30 seconds after the last schedule_navigation_session_cleanup.          *)
IsForgotten(n) ==
    /\ n \in timers
    /\ timers' = timers \ {n}
    /\ registered' = registered \ {n}
    /\ UNCHANGED <<graph, session, binding, client, reader, raced, astray>>

GraphStep(n) ==
    \/ WalksPages(n) \/ FollowsRoute(n) \/ Selects(n) \/ Asks(n) \/ Announces(n)
    \/ SeesCancellation(n) \/ TakesDecision(n) \/ Resumes(n)
    \/ ReachesGoal(n) \/ ChecksStatus(n)
    \/ Completes(n) \/ Fails(n) \/ IsCancelled(n) \/ IsOver(n)

-----------------------------------------------------------------------------
(* POST navigate/start: a look at the binding, a new thread, the binding.  *)

StartRequest(c) ==
    /\ client[c] = Rest
    /\ binding = None /\ \E n \in Navs : At(n, "none")
    /\ client' = [client EXCEPT ![c].at = "spawn"]
    /\ UNCHANGED <<graph, session, worker, reader, raced, astray>>

Spawns(c, n, kind) ==
    /\ client[c].at = "spawn" /\ At(n, "none")
    /\ graph' = [graph EXCEPT ![n].at = "drive", ![n].kind = kind]
    /\ registered' = registered \cup {n}
    /\ client' = [client EXCEPT ![c] = [at |-> "bind", nav |-> n, question |-> 0]]
    /\ UNCHANGED <<session, timers, binding, reader, raced, astray>>

Binds(c) ==
    /\ client[c].at = "bind"
    /\ binding' = client[c].nav
    /\ client' = [client EXCEPT ![c] = Rest]
    /\ UNCHANGED <<graph, session, registered, timers, reader, raced, astray>>

(* resolve_navigation: the session's navigation, if it is still kept.      *)
Resolved(n) == binding = n /\ n \in registered

-----------------------------------------------------------------------------
(* POST navigate/decision: the user has seen question q and answers it,    *)
(* with or without its decision_id.                                        *)

Submitting(c, n) == client[c].nav = n /\ client[c].at \in {"accepted", "put"}

MatchesAnything(n, q, named) == TRUE   \* variant: without the look at decision_id
Matches(n, q, named) == named /\ pending[n] # 0 => q = pending[n]

SubmitRequest(c, n, q, named) ==
    /\ client[c] = Rest /\ Resolved(n)
    /\ q \in 1..graph[n].asked
    /\ status[n] = "awaiting" /\ Matches(n, q, named)
    /\ client' = [client EXCEPT ![c] = [at |-> "accepted", nav |-> n, question |-> q]]
    /\ raced' = IF /\ named /\ pending[n] = graph[n].asked /\ At(n, "wait")
                   /\ decisions[n] = <<>> /\ ~\E d \in Clients : Submitting(d, n)
                THEN raced ELSE raced \cup {n}
    /\ UNCHANGED <<graph, session, worker, reader, astray>>

MarksAnswered(c) ==
    /\ client[c].at = "accepted"
    /\ status' = [status EXCEPT ![client[c].nav] = "running"]
    /\ pending' = [pending EXCEPT ![client[c].nav] = 0]
    /\ client' = [client EXCEPT ![c].at = "put"]
    /\ UNCHANGED <<graph, cancelled, decisions, events, worker, reader, raced, astray>>

PutsAnswerAnyway(c) ==   \* variant: a queue without a limit
    LET n == client[c].nav IN
    /\ client[c].at = "put"
    /\ decisions' = [decisions EXCEPT ![n] = Append(@, client[c].question)]
    /\ client' = [client EXCEPT ![c] = Rest]
    /\ UNCHANGED <<graph, status, pending, cancelled, events, worker, reader, raced, astray>>

(* queue.put blocks while the queue is full.                               *)
PutsAnswer(c) ==
    LET n == client[c].nav IN
    /\ client[c].at = "put" /\ decisions[n] = <<>>
    /\ decisions' = [decisions EXCEPT ![n] = <<client[c].question>>]
    /\ client' = [client EXCEPT ![c] = Rest]
    /\ UNCHANGED <<graph, status, pending, cancelled, events, worker, reader, raced, astray>>

-----------------------------------------------------------------------------
(* POST navigate/abort, and the session's abort, which calls it.           *)

AbortRequest(c, n) ==
    /\ client[c] = Rest /\ c \in Aborters /\ Resolved(n)
    /\ status[n] \notin Terminal
    /\ client' = [client EXCEPT ![c] = [at |-> "checked", nav |-> n, question |-> 0]]
    /\ UNCHANGED <<graph, session, worker, reader, raced, astray>>

Cancel(n) == cancelled' = cancelled \cup {n}

(* The status, the event that cancels, and, where there is room, an empty  *)
(* decision for a thread that waits.                                       *)
CancelsNavigation(c) ==
    LET n == client[c].nav IN
    /\ client[c].at = "checked"
    /\ status' = [status EXCEPT ![n] = "aborted"]
    /\ Cancel(n)
    /\ decisions' = [decisions EXCEPT ![n] = IF @ = <<>> THEN <<0>> ELSE @]
    /\ events' = [events EXCEPT ![n] = Append(@, Error)]
    /\ ScheduleCleanup(n)
    /\ client' = [client EXCEPT ![c].at = "unbind"]
    /\ UNCHANGED <<graph, pending, registered, binding, reader, raced, astray>>

UnbindsNavigation(c) ==
    /\ client[c].at = "unbind"
    /\ binding' = None
    /\ client' = [client EXCEPT ![c] = Rest]
    /\ UNCHANGED <<graph, session, registered, timers, reader, raced, astray>>

ClientStep(c) ==
    \/ \E n \in Navs, kind \in {"pages", "registry"} : Spawns(c, n, kind)
    \/ Binds(c) \/ MarksAnswered(c) \/ PutsAnswer(c)
    \/ CancelsNavigation(c) \/ UnbindsNavigation(c)

-----------------------------------------------------------------------------
(* GET navigate/events: a reader takes an event and applies it to the      *)
(* session, until it has read the end or its client goes away.             *)

Attaches(r, n) ==
    /\ reader[r].at = "away" /\ Resolved(n)
    /\ reader' = [reader EXCEPT ![r].at = "reading", ![r].nav = n]
    /\ UNCHANGED <<graph, session, worker, client, raced, astray>>

Detaches(r) ==
    /\ reader[r].at = "reading"
    /\ reader' = [reader EXCEPT ![r] = Away]
    /\ UNCHANGED <<graph, session, worker, client, raced, astray>>

TakesEvent(r) ==
    LET n == reader[r].nav IN
    /\ reader[r].at = "reading" /\ events[n] # <<>>
    /\ events' = [events EXCEPT ![n] = Tail(@)]
    /\ reader' = [reader EXCEPT ![r].at = "holding", ![r].event = Head(events[n])]
    /\ UNCHANGED <<graph, status, pending, cancelled, decisions, worker, client, raced, astray>>

(* apply_navigation_event writes what the event says, however old it is.   *)
AppliesDecision(r) ==
    LET n == reader[r].nav
        q == reader[r].event.question
    IN /\ reader[r].at = "holding" /\ reader[r].event.type = "decision"
       /\ status' = [status EXCEPT ![n] = "awaiting"]
       /\ pending' = [pending EXCEPT ![n] = q]
       /\ reader' = [reader EXCEPT ![r].at = "reading", ![r].event = Done]
       /\ raced' = IF q = graph[n].asked /\ At(n, "wait") THEN raced ELSE raced \cup {n}
       /\ UNCHANGED <<graph, cancelled, decisions, events, worker, client, astray>>

AppliesEnd(r) ==
    /\ reader[r].at = "holding" /\ reader[r].event.type \in {"done", "error"}
    /\ binding' = None
    /\ reader' = [reader EXCEPT ![r] = Away]
    /\ UNCHANGED <<graph, session, registered, timers, client, raced, astray>>

(* A second without an event.                                              *)
Starves(r) ==
    /\ reader[r].at = "reading" /\ events[reader[r].nav] = <<>>
    /\ reader' = [reader EXCEPT ![r].at = "starved"]
    /\ UNCHANGED <<graph, session, worker, client, raced, astray>>

FinalWhenCompleted(n) == status[n] = "completed"   \* variant: only a success is final
Final(n) == status[n] \in Terminal

(* With the thread over, what came meanwhile is passed on without being    *)
(* applied, and the end is told from the status.                           *)
Concludes(r) ==
    LET n == reader[r].nav IN
    /\ reader[r].at = "starved"
    /\ IF ~At(n, "over")
       THEN /\ reader' = [reader EXCEPT ![r].at = "reading"]
            /\ UNCHANGED <<events, binding>>
       ELSE /\ events' = [events EXCEPT ![n] = <<>>]
            /\ IF Final(n)
               THEN binding' = None /\ reader' = [reader EXCEPT ![r] = Away]
               ELSE reader' = [reader EXCEPT ![r].at = "reading"] /\ UNCHANGED binding
    /\ UNCHANGED <<graph, status, pending, cancelled, decisions, registered, timers,
                   client, raced, astray>>

ReaderStep(r) == TakesEvent(r) \/ AppliesDecision(r) \/ AppliesEnd(r) \/ Starves(r) \/ Concludes(r)

-----------------------------------------------------------------------------
Next ==
    \/ \E n \in Navs : GraphStep(n) \/ IsForgotten(n)
    \/ \E c \in Clients :
         \/ StartRequest(c) \/ ClientStep(c)
         \/ \E n \in Navs : AbortRequest(c, n)
         \/ \E n \in Navs, q \in Questions, named \in BOOLEAN : SubmitRequest(c, n, q, named)
    \/ \E r \in Readers : ReaderStep(r) \/ Detaches(r) \/ \E n \in Navs : Attaches(r, n)

Spec == Init /\ [][Next]_vars

(* Threads run, timers fire; nobody has to ask, answer, abort or listen.   *)
FairSpec ==
    /\ Spec
    /\ \A n \in Navs : WF_vars(GraphStep(n)) /\ WF_vars(IsForgotten(n))
    /\ \A c \in Clients : WF_vars(ClientStep(c))
    /\ \A r \in Readers : WF_vars(ReaderStep(r))

-----------------------------------------------------------------------------
(* Properties.                                                             *)

(* While a graph thread waits for a decision, with none on its way, the    *)
(* status lets an answer in: neither a submission nor a reader leaves a    *)
(* question that submit_navigation_decision refuses.  And a selection is   *)
(* used for the question it was made for, unless it named none, two        *)
(* submissions overlapped, or a reader had put an old question back: the   *)
(* check of decision_id covers everything else.                            *)
AnswersReachTheirQuestion ==
    /\ \A n \in Navs :
        /\ At(n, "wait") /\ decisions[n] = <<>> /\ n \notin cancelled
        /\ \A c \in Clients : ~Submitting(c, n)
        => status[n] = "awaiting"
    /\ astray = {}

(* What began with a navigation ends with it.  A cancelled thread ends,    *)
(* wherever the cancellation found it: waiting for a decision, driving, or *)
(* about to ask.  A navigation that is over is forgotten, even when a late *)
(* submission or reader has put its status back; the page walker's needs a *)
(* final status.  A reader of one that is over with a final status comes   *)
(* to its end (or its client leaves).                                      *)
NavigationsEnd ==
    /\ \A n \in Navs : n \in cancelled ~> At(n, "over")
    /\ \A n \in Navs :
        At(n, "over") /\ (graph[n].kind = "registry" \/ status[n] \in Terminal)
            ~> n \notin registered
    /\ \A r \in Readers, n \in Navs :
        reader[r].nav = n /\ At(n, "over") ~> reader[r].nav # n \/ status[n] \notin Terminal

(* agent_docs/core/runtime_flows.md:200: when a navigation reaches its     *)
(* goal "the navigation binding is cleared".                               *)
GoalClearsBinding ==
    \A n \in Navs : At(n, "over") /\ status[n] = "completed" /\ binding = n ~> binding # n
=============================================================================
