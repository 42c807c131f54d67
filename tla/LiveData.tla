------------------------------ MODULE LiveData ------------------------------
(***************************************************************************)
(* What a session does with GDS2's Data Display page: live data streaming  *)
(* and the collection of data for an AI diagnosis (backends/gds2/backend.py*)
(* over src/streaming/agent_data_collector.py), and the diagnosis itself   *)
(* (src/diagnosis/ai_engine.py), under the requests of one session         *)
(* (runtime/session_actions.py) and its abort (session_lifecycle.py).      *)
(*                                                                         *)
(* A collector has two threads: one polls the file that the agent in GDS2  *)
(* writes, one guards the page and drives GDS2 back to it.  Nothing keeps  *)
(* two guards, or a guard and a request, from driving GDS2 at once.        *)
(***************************************************************************)
EXTENDS Naturals, Sequences, FiniteSets

CONSTANTS
    Threads,      \* HTTP threads
    Settings,     \* what they are asked to do, sequences of "start", "stop",
                  \* "ai", "retry", "abort", and what may happen meanwhile:
                  \* pages seen in place of Data Display, writes of the agent, faults, subscriptions
    MaxMade,      \* bound: the collectors and diagnoses this comes to
    MaxChunks,    \* bound: pieces of an answer of the model
    MaxRestarts,  \* _max_loading_restarts
    QueueSize     \* 200 events of live data, 500 of a diagnosis

Pages == {"display", "away", "disconnect", "loading"}

Making == {"start", "ai", "retry"}
Ending == {"stop", "abort"}

ASSUME LiveDataAssumption ==
    /\ {MaxMade, MaxChunks, MaxRestarts} \subseteq Nat
    /\ QueueSize \in Nat \ {0, 1}
    /\ \A s \in Settings :
        /\ s.plans \in [Threads -> Seq(Making \cup Ending)] /\ s.pages \subseteq Pages
        /\ {s.drifts, s.writes, s.faults, s.views} \subseteq Nat

VARIABLES
    gds,         \* the page GDS2 shows; how often its connection was made anew
    file,        \* latest.json: extraction count, connection it was read under
    collectors,  \* every collector made, in order
    active,      \* _active_collector, 0 for None
    status,      \* the session's
    live,        \* live_data_active of the binding
    bound,       \* ai_session_id of the binding, 0 for None
    thread,      \* per HTTP thread: its plan and where it is
    viewer,      \* the reader of live data
    analyses,    \* every AI session, in order
    engine,      \* _active_session of the engine, 0 for None
    reader,      \* the reader of the diagnosis
    left,        \* what may still happen: drifts, writes, faults
    raced,       \* history: two requests got in each other's way
    misled       \* history: a reader cleared what was not over

vars == <<gds, file, collectors, active, status, live, bound, thread, viewer,
          analyses, engine, reader, left, raced, misled>>

\* What a guard finds: nothing, that it has to wait, that it failed, or how
\* Data Display was recovered (in place, or by the route, both "kept").  The
\* vehicle is connected anew by all of Anew, but not all of it is taken so.
Recoveries == {"kept", "device", "backtrack", "restart"}
Anew == {"device", "backtrack", "restart"}
TakenForAnew == {"backtrack", "restart"}
Results == {"none", "waiting", "failed"} \cup Recoveries

Collector(for) ==
    [for |-> for, run |-> TRUE, guard |-> "waits",
     looked |-> "display", result |-> "none", slot |-> "none", signature |-> "none",
     since |-> FALSE, restarts |-> 0, seen |-> 0,
     error |-> FALSE, event |-> "none", buffer |-> {}, torn |-> FALSE]

Init ==
    /\ gds = [page |-> "away", link |-> 1]
    /\ file = [count |-> 0, link |-> 0]
    /\ collectors = <<>> /\ active = 0
    /\ status = "running" /\ live = FALSE /\ bound = 0
    /\ \E s \in Settings :
        /\ thread = [t \in Threads |-> [at |-> "idle", op |-> "none", c |-> 0, plan |-> s.plans[t]]]
        /\ left = [pages |-> s.pages, drifts |-> s.drifts, writes |-> s.writes, faults |-> s.faults]
        /\ viewer = [at |-> "off", queue |-> <<>>, left |-> s.views]
        /\ reader = [at |-> "off", of |-> 0, left |-> s.views]
    /\ analyses = <<>> /\ engine = 0
    /\ raced = FALSE /\ misled = FALSE

Running(c) == c \in DOMAIN collectors /\ collectors[c].run

---------------------------------------------------------------------------
(* GDS2 and its agent.                                                     *)

\* Nothing is lost or written, for what follows, but while somebody collects.
Collecting == \E c \in DOMAIN collectors : collectors[c].run

\* The page is lost: somebody clicks, or the device is gone, or GDS2 loads.
Drifts ==
    /\ gds.page = "display" /\ left.drifts > 0 /\ Collecting
    /\ \E p \in left.pages : gds' = [gds EXCEPT !.page = p]
    /\ left' = [left EXCEPT !.drifts = @ - 1]
    /\ UNCHANGED <<file, collectors, active, status, live, bound, thread, viewer,
                   analyses, engine, reader, raced, misled>>

\* Loading comes to an end, on Data Display or elsewhere.
Loaded ==
    /\ gds.page = "loading"
    /\ \E p \in {"display", "away"} : gds' = [gds EXCEPT !.page = p]
    /\ UNCHANGED <<file, collectors, active, status, live, bound, thread, viewer,
                   analyses, engine, reader, left, raced, misled>>

\* The agent writes what the page shows: no parameters but on Data Display.
AgentWrites ==
    /\ left.writes > 0 /\ Collecting
    /\ left' = [left EXCEPT !.writes = @ - 1]
    /\ file' = [count |-> file.count + 1,
                link |-> IF gds.page = "display" THEN gds.link ELSE 0]
    /\ UNCHANGED <<gds, collectors, active, status, live, bound, thread, viewer,
                   analyses, engine, reader, raced, misled>>

---------------------------------------------------------------------------
(* Events of live data.                                                    *)

\* ScopedEventHub.broadcast: a subscriber whose queue is full is taken off
\* the list, and not told.
Broadcast(message) ==
    IF viewer.at # "on" THEN viewer
    ELSE IF Len(viewer.queue) = QueueSize THEN [viewer EXCEPT !.at = "dropped"]
    ELSE [viewer EXCEPT !.queue = Append(@, message)]

\* on_error of a collector, for live data and for a diagnosis.
Told(c) == IF collectors[c].for = "live" THEN Broadcast("error") ELSE viewer

---------------------------------------------------------------------------
(* The guard of a collector.                                               *)

Guards(c) ==
    /\ c \in DOMAIN collectors
    /\ UNCHANGED <<active, status, live, bound, thread, analyses, engine, reader, raced, misled>>

\* guard: the page is looked at.  (The poll and the collection pick up an
\* event within a second, the guard looks every five.)
Looks(c) ==
    /\ Guards(c) /\ collectors[c].guard = "waits" /\ collectors[c].run
    /\ collectors[c].slot = "none" /\ collectors[c].event = "none"
    /\ gds.page # "display"
    /\ collectors' = [collectors EXCEPT ![c].guard = "drifted", ![c].looked = gds.page]
    /\ UNCHANGED <<gds, file, viewer, left>>

\* What the guard says when nothing was recovered: it goes by the page it saw.
Unrecovered(page) == IF page = "loading" THEN "waiting" ELSE "failed"

\* Mutant: the watchdog's time starts over with every look.
RecoversPatiently(c) ==
    /\ Guards(c) /\ collectors[c].guard = "drifted"
    /\ LET ends(place, result, since) == [collectors[c] EXCEPT !.looked = "display",
                !.guard = place, !.result = result, !.since = FALSE]
       IN  collectors' = [collectors EXCEPT ![c] =
              CASE gds.page = "display" -> ends("reports", Unrecovered(collectors[c].looked), FALSE)
                [] gds.page = "loading" -> ends("reports", "waiting", TRUE)
                [] OTHER -> ends("routes", "none", FALSE)]
    /\ UNCHANGED <<gds, file, viewer, left>>

\* recover_data_display looks again.  On Data Display it has nothing to do,
\* while GDS2 loads the watchdog has its time, else the route is driven.
Recovers(c) ==
    /\ Guards(c) /\ collectors[c].guard = "drifted"
    /\ LET ends(place, result, since) == [collectors[c] EXCEPT !.looked = "display",
                !.guard = place, !.result = result, !.since = @ \/ since]
       IN  collectors' = [collectors EXCEPT ![c] =
              CASE gds.page = "display" -> ends("reports", Unrecovered(collectors[c].looked), FALSE)
                [] gds.page = "loading" -> ends("reports", "waiting", TRUE)
                [] OTHER -> ends("routes", "none", FALSE)]
    /\ UNCHANGED <<gds, file, viewer, left>>

\* GDS2 has been loading for too long: it is restarted, a few times.  The time
\* counts from the first page of loading the watchdog saw, whatever came since.
LoadsTooLong(c) ==
    /\ Guards(c) /\ collectors[c].guard = "drifted"
    /\ gds.page = "loading" /\ collectors[c].since
    /\ IF collectors[c].restarts = MaxRestarts
       THEN /\ collectors' = [collectors EXCEPT ![c].guard = "reports", ![c].result = "failed",
                                  ![c].looked = "display"]
            /\ UNCHANGED <<gds, file>>
       ELSE /\ collectors' = [collectors EXCEPT ![c].guard = "restarted", ![c].since = FALSE,
                                  ![c].restarts = @ + 1, ![c].looked = "display"]
            /\ gds' = [gds EXCEPT !.page = "away"]
    /\ UNCHANGED <<file, viewer, left>>

\* Whoever else collects for a diagnosis does not learn of a new connection.
Tear(cs, c) == [d \in DOMAIN cs |-> [cs[d] EXCEPT !.torn = @ \/ (d # c /\ cs[d].for = "ai")]]

\* The route has led to Data Display, or it has failed somewhere.  To fetch
\* Data Display back over the list, by another choice of the device, or by a
\* restart of GDS2 (its agent counts from the start again), is to connect anew.
RouteEnds(c) ==
    /\ Guards(c) /\ collectors[c].guard \in {"routes", "restarted"}
    /\ \E r \in Recoveries \cup {"failed"} :
        /\ collectors[c].guard = "restarted" => r \in {"restart", "failed"}
        /\ LET done == [collectors EXCEPT ![c].guard = "reports", ![c].result = r]
               anew == r \in Anew
           IN  /\ collectors' = IF anew THEN Tear([done EXCEPT ![c].torn = @ \/ r \notin TakenForAnew], c)
                               ELSE done
               /\ gds' = [page |-> IF r = "failed" THEN "away" ELSE "display",
                          link |-> IF anew THEN gds.link + 1 ELSE gds.link]
               /\ file' = IF r = "restart" /\ collectors[c].guard = "routes"
                          THEN [file EXCEPT !.count = 0] ELSE file
    /\ UNCHANGED <<viewer, left>>

\* _run_page_guard: a failure ends the collector, then its owner is told.
\* Every other result has a message, so that the signature is never reset.
Reports(c) ==
    /\ Guards(c) /\ collectors[c].guard = "reports"
    /\ LET failed == collectors[c].result = "failed" IN
        /\ collectors' = [collectors EXCEPT
              ![c].guard = "waits", ![c].slot = collectors[c].result, ![c].result = "none",
              ![c].run = @ /\ ~failed,
              ![c].error = @ \/ failed]
        /\ viewer' = IF failed THEN Told(c) ELSE viewer
    /\ UNCHANGED <<gds, file, left>>

---------------------------------------------------------------------------
(* The poll of a collector.  It goes with run.                             *)

\* One round: the guard's result, unless it is the last one again, then what
\* the agent has written, unless it counts less than it did.
Poll(c) ==
    /\ Guards(c) /\ collectors[c].run
    /\ LET me == collectors[c]
           new == me.slot # "none" /\ me.slot # me.signature
           read == file.count > me.seen
           after == [me EXCEPT
              !.slot = "none",
              !.signature = IF me.slot # "none" THEN me.slot ELSE @,
              !.event = IF new /\ me.for = "ai" THEN me.slot ELSE @,
              !.seen = IF read THEN file.count ELSE @,
              !.buffer = IF read /\ me.for = "ai" THEN (@ \cup {file.link}) \ {0} ELSE @,
              !.torn = @ \/ (me.slot \in TakenForAnew /\ ~new)]
       IN  /\ me.slot # "none" \/ read
           /\ collectors' = [collectors EXCEPT ![c] = after]
           /\ viewer' = IF me.for = "live" /\ (read \/ (new /\ me.slot # "failed"))
                        THEN Broadcast("data") ELSE viewer
    /\ UNCHANGED <<gds, file, left>>

\* A callback raises: the owner is told, the collector goes on.
PollFails(c) ==
    /\ Guards(c) /\ collectors[c].run /\ left.faults > 0
    /\ collectors' = [collectors EXCEPT ![c].error = TRUE]
    /\ viewer' = Told(c)
    /\ left' = [left EXCEPT !.faults = @ - 1]
    /\ UNCHANGED <<gds, file>>

GuardTurn(c) == Looks(c) \/ Recovers(c) \/ LoadsTooLong(c) \/ RouteEnds(c) \/ Reports(c)

---------------------------------------------------------------------------
(* Requests.                                                               *)

At(t, place) == thread[t].at = place

Moves(t, place) == thread' = [thread EXCEPT ![t].at = place]

MovesWith(t, place, c) == thread' = [thread EXCEPT ![t].at = place, ![t].c = c]

Returns(t) == thread' = [thread EXCEPT ![t].at = "idle", ![t].op = "none", ![t].c = 0]

\* What a request finds first; one that is refused is over.
Admits(op) ==
    /\ status = "running" \/ op = "abort"
    /\ op \in {"ai", "retry"} => engine = 0
    /\ op = "retry" => \E k \in DOMAIN analyses : analyses[k].cached

\* Where it goes.
First(op) ==
    CASE op = "start" -> IF Running(active) THEN "flags" ELSE "enters"
      [] op = "ai" -> "enters"
      [] op = "retry" -> "analyses"
      [] op = "stop" -> "stops"
      [] op = "abort" -> IF live THEN "stops" ELSE "cancels"

\* Nothing orders requests: one makes what the other ends, or makes too.
Clash(op, other) ==
    \/ op \in Making /\ other \in Ending
    \/ op \in Ending /\ other \in Making
    \/ op = "start" /\ other = "start"
    \/ {op, other} \subseteq {"ai", "retry"}

Begins(t) ==
    /\ At(t, "idle") /\ thread[t].plan # <<>>
    /\ LET op == Head(thread[t].plan)
           rest == Tail(thread[t].plan)
       IN  /\ thread' = [thread EXCEPT ![t] =
                IF Admits(op) THEN [at |-> First(op), op |-> op, c |-> 0, plan |-> rest]
                ELSE [@ EXCEPT !.plan = rest]]
           /\ raced' = (raced \/ (Admits(op) /\ \E u \in Threads \ {t} : Clash(op, thread[u].op)))
    /\ UNCHANGED <<gds, file, collectors, active, status, live, bound, viewer,
                   analyses, engine, reader, left, misled>>

Asks(t) == UNCHANGED <<file, status, reader, raced, misled>>

\* _ensure_data_display: select_data_category leads there or raises.
Enters(t) ==
    /\ At(t, "enters")
    /\ \/ gds' = [gds EXCEPT !.page = "display"] /\ Moves(t, "creates") /\ UNCHANGED left
       \/ /\ gds.page # "display" /\ left.faults > 0 /\ left' = [left EXCEPT !.faults = @ - 1]
          /\ gds' = [gds EXCEPT !.page = "away"] /\ Returns(t)
    /\ Asks(t) /\ UNCHANGED <<collectors, active, live, bound, viewer, analyses, engine>>

\* A collector is made and started.
Creates(t) ==
    /\ At(t, "creates") /\ Len(collectors) < MaxMade
    /\ LET c == Len(collectors) + 1 IN
        IF thread[t].op = "start"
        THEN /\ collectors' = Append(collectors, Collector("live"))
             /\ active' = c /\ MovesWith(t, "flags", c)
        ELSE /\ collectors' = Append(collectors,
                    [Collector("ai") EXCEPT !.torn = file.link \notin {0, gds.link}])
             /\ MovesWith(t, "collects", c) /\ UNCHANGED active
    /\ Asks(t) /\ UNCHANGED <<gds, live, bound, viewer, analyses, engine, left>>

\* The agent has not written for ten seconds: no diagnosis.
NoAgent(t) ==
    /\ At(t, "creates") /\ thread[t].op = "ai" /\ left.faults > 0
    /\ left' = [left EXCEPT !.faults = @ - 1]
    /\ Returns(t)
    /\ Asks(t) /\ UNCHANGED <<gds, collectors, active, live, bound, viewer, analyses, engine>>

\* set_live_data_active, after the collector was started.
Flags(t) ==
    /\ At(t, "flags") /\ live' = TRUE /\ Returns(t)
    /\ Asks(t) /\ UNCHANGED <<gds, collectors, active, bound, viewer, analyses, engine, left>>

\* Mutant: only a restart of GDS2 starts the collection over.
StartsOverOnRestart(t) ==
    /\ At(t, "collects")
    /\ LET c == thread[t].c IN
        /\ collectors[c].event # "none" /\ ~collectors[c].error
        /\ collectors' = [collectors EXCEPT
              ![c].buffer = IF collectors[c].event = "restart" THEN {} ELSE @,
              ![c].event = "none"]
    /\ Asks(t) /\ UNCHANGED <<thread, gds, active, live, bound, viewer, analyses, engine, left>>

\* collect_ai_payload: an event starts the collection over, ...
StartsOver(t) ==
    /\ At(t, "collects")
    /\ LET c == thread[t].c IN
        /\ collectors[c].event # "none" /\ ~collectors[c].error
        /\ collectors' = [collectors EXCEPT
              ![c].buffer = IF collectors[c].event \in TakenForAnew THEN {} ELSE @,
              ![c].event = "none"]
    /\ Asks(t) /\ UNCHANGED <<thread, gds, active, live, bound, viewer, analyses, engine, left>>

\* ... an error or the end of the window ends it.  An event that comes with
\* the end of the window is not seen any more.
StopsCollecting(t) ==
    /\ At(t, "collects")
    /\ LET c == thread[t].c IN
        /\ collectors' = [collectors EXCEPT ![c].run = FALSE,
              ![c].torn = @ \/ ~(collectors[c].guard = "waits" /\ collectors[c].slot = "none"
                                  /\ collectors[c].event = "none")]
    /\ Moves(t, "joins")
    /\ Asks(t) /\ UNCHANGED <<gds, active, live, bound, viewer, analyses, engine, left>>

\* stop_live_data_session: whatever collector is the active one by now.
Stops(t) ==
    /\ At(t, "stops")
    /\ collectors' = IF active = 0 THEN collectors ELSE [collectors EXCEPT ![active].run = FALSE]
    /\ MovesWith(t, "joins", active)
    /\ Asks(t) /\ UNCHANGED <<gds, active, live, bound, viewer, analyses, engine, left>>

\* Its threads have ended, or five seconds each have passed: a guard that
\* sleeps or drives GDS2 for longer is left to it.
Joins(t) ==
    /\ At(t, "joins")
    /\ IF thread[t].op # "ai" THEN active' = 0 /\ Moves(t, "leaves")
       ELSE UNCHANGED active
            /\ IF collectors[thread[t].c].error THEN Returns(t) ELSE Moves(t, "analyses")
    /\ Asks(t) /\ UNCHANGED <<gds, collectors, live, bound, viewer, analyses, engine, left>>

\* Data Display is left.  What goes wrong here is the answer of a stop, which
\* keeps its flag; an abort goes on.
Leaves(t) ==
    /\ At(t, "leaves")
    /\ IF thread[t].op = "stop" THEN Returns(t) ELSE Moves(t, "cancels")
    /\ \/ /\ gds' = [gds EXCEPT !.page = IF @ = "display" THEN "away" ELSE @]
          /\ live' = FALSE /\ UNCHANGED left
       \/ /\ left.faults > 0 /\ left' = [left EXCEPT !.faults = @ - 1]
          /\ live' = IF thread[t].op = "stop" THEN live ELSE FALSE
          /\ UNCHANGED gds
    /\ Asks(t) /\ UNCHANGED <<collectors, active, bound, viewer, analyses, engine>>

---------------------------------------------------------------------------
(* The AI engine.                                                          *)

\* _emit: what does not fit is dropped, but for what a reader waits for, which
\* takes the place of the oldest.
Essential == {"result", "error", "done"}

\* Mutant: what a reader waits for is put whatever the queue holds.
EmittedAnyway(queue, event) ==
    IF Len(queue) < QueueSize \/ event \in Essential THEN Append(queue, event) ELSE queue

Emitted(queue, event) ==
    IF Len(queue) < QueueSize THEN Append(queue, event)
    ELSE IF event \in Essential THEN Append(Tail(queue), event)
    ELSE queue

Emits(a, event) ==
    IF analyses[a].known THEN [analyses EXCEPT ![a].queue = Emitted(@, event)] ELSE analyses

\* start_session_from_payload and retry_with_cached: one session at a time.
Analyses(t) ==
    /\ At(t, "analyses")
    /\ IF engine # 0 THEN Returns(t) /\ UNCHANGED <<analyses, engine>>
       ELSE /\ Len(analyses) < MaxMade
            /\ engine' = Len(analyses) + 1
            /\ analyses' = Append(analyses,
                  [at |-> "starts", queue |-> <<>>, known |-> TRUE, cancelled |-> FALSE,
                   cached |-> FALSE, chunks |-> 0,
                   payload |-> IF thread[t].op = "ai" THEN thread[t].c ELSE 0])
            /\ MovesWith(t, "binds", Len(analyses) + 1)
    /\ Asks(t) /\ UNCHANGED <<gds, collectors, active, live, bound, viewer, left>>

Binds(t) ==
    /\ At(t, "binds") /\ bound' = thread[t].c /\ Returns(t)
    /\ Asks(t) /\ UNCHANGED <<gds, collectors, active, live, viewer, analyses, engine, left>>

\* Mutant: the reader is told, the worker is not.
CancelsTheReader(t) ==
    /\ At(t, "cancels")
    /\ analyses' = IF bound # 0 /\ (analyses[bound].known \/ engine = bound)
                   THEN Emits(bound, "error")
                   ELSE analyses
    /\ bound' = 0 /\ Moves(t, "aborts")
    /\ Asks(t) /\ UNCHANGED <<gds, collectors, active, live, viewer, engine, left>>

\* abort_active_ai.
Cancels(t) ==
    /\ At(t, "cancels")
    /\ analyses' = IF bound # 0 /\ (analyses[bound].known \/ engine = bound)
                   THEN [Emits(bound, "error") EXCEPT ![bound].cancelled = TRUE]
                   ELSE analyses
    /\ bound' = 0 /\ Moves(t, "aborts")
    /\ Asks(t) /\ UNCHANGED <<gds, collectors, active, live, viewer, engine, left>>

\* The orchestrator ends the session, then the bindings are cleared.
Aborts(t) ==
    /\ At(t, "aborts") /\ status' = "aborted" /\ live' = FALSE /\ bound' = 0 /\ Returns(t)
    /\ UNCHANGED <<gds, file, collectors, active, viewer, analyses, engine,
                   reader, left, raced, misled>>

Works(a) ==
    /\ a \in DOMAIN analyses
    /\ UNCHANGED <<gds, file, collectors, active, status, live, bound, thread, viewer,
                   reader, left, raced, misled>>

Goes(as, a, place) == [as EXCEPT ![a].at = place]

\* _payload_worker: nothing is done for a session cancelled before.
StartsAnalysis(a) ==
    /\ Works(a) /\ analyses[a].at = "starts" /\ UNCHANGED engine
    /\ analyses' = IF analyses[a].cancelled THEN Goes(analyses, a, "cleans")
                   ELSE [Goes(Emits(a, "progress"), a, "streams") EXCEPT ![a].cached = TRUE]

\* _stream_llm: each piece of the answer is a chance to be cancelled; the model
\* may fail; a whole answer is a result, cancelled or not.
Streams(a) ==
    /\ Works(a) /\ analyses[a].at = "streams" /\ UNCHANGED engine
    /\ \/ /\ analyses[a].chunks < MaxChunks
          /\ analyses' = IF analyses[a].cancelled THEN Goes(analyses, a, "cleans")
                         ELSE [Emits(a, "chunk") EXCEPT ![a].chunks = @ + 1]
       \/ \E event \in {"result", "error"} :
            analyses' = Goes(Emits(a, event), a, "cleans")

\* _cleanup_session: the end is told, then the engine is free.
Cleans(a) ==
    /\ Works(a) /\ analyses[a].at = "cleans" /\ UNCHANGED engine
    /\ analyses' = Goes(Emits(a, "done"), a, "frees")

Frees(a) ==
    /\ Works(a) /\ analyses[a].at = "frees"
    /\ engine' = IF engine = a THEN 0 ELSE engine
    /\ analyses' = [Goes(analyses, a, "over") EXCEPT ![a].cancelled = FALSE]

\* Half a minute later its events are gone, but for who reads them.
Forgets(a) ==
    /\ Works(a) /\ analyses[a].at = "over" /\ analyses[a].known /\ UNCHANGED engine
    /\ analyses' = [analyses EXCEPT ![a].known = FALSE]

WorkerTurn(a) == StartsAnalysis(a) \/ Streams(a) \/ Cleans(a) \/ Frees(a)

---------------------------------------------------------------------------
(* The readers.                                                            *)

Reads == UNCHANGED <<gds, file, collectors, active, status, thread, engine, left, raced>>

\* stream_live_data_events looks at the flag and subscribes.
Views ==
    /\ viewer.at = "off" /\ viewer.left > 0 /\ status = "running" /\ live
    /\ viewer' = [at |-> "on", queue |-> <<>>, left |-> viewer.left - 1]
    /\ Reads /\ UNCHANGED <<live, bound, analyses, reader, misled>>

\* An event is read; an error ends the reader, and for it the stream.
Sees ==
    /\ viewer.at \in {"on", "dropped"} /\ viewer.queue # <<>>
    /\ IF Head(viewer.queue) = "error"
       THEN /\ viewer' = [viewer EXCEPT !.at = "off", !.queue = <<>>]
            /\ live' = FALSE
            /\ misled' = (misled \/ \E c \in DOMAIN collectors :
                              collectors[c].for = "live" /\ collectors[c].run)
       ELSE viewer' = [viewer EXCEPT !.queue = Tail(@)] /\ UNCHANGED <<live, misled>>
    /\ Reads /\ UNCHANGED <<bound, analyses, reader>>

\* Its client goes.
LeavesView ==
    /\ viewer.at \in {"on", "dropped"}
    /\ viewer' = [viewer EXCEPT !.at = "off", !.queue = <<>>]
    /\ Reads /\ UNCHANGED <<live, bound, analyses, reader, misled>>

\* resolve_ai_event_stream.
Follows ==
    /\ reader.at = "off" /\ reader.left > 0 /\ status = "running" /\ bound # 0
    /\ IF analyses[bound].known
       THEN reader' = [at |-> "on", of |-> bound, left |-> reader.left - 1] /\ UNCHANGED bound
       ELSE bound' = 0 /\ UNCHANGED reader
    /\ Reads /\ UNCHANGED <<live, viewer, analyses, misled>>

\* The end of a diagnosis clears whatever diagnosis the session has.
Hears ==
    /\ reader.at = "on" /\ analyses[reader.of].queue # <<>>
    /\ LET event == Head(analyses[reader.of].queue) IN
        IF event \in {"error", "done"}
        THEN /\ reader' = [reader EXCEPT !.at = "off", !.of = 0]
             /\ bound' = 0 /\ misled' = (misled \/ bound \notin {0, reader.of})
        ELSE UNCHANGED <<reader, bound, misled>>
    /\ analyses' = [analyses EXCEPT ![reader.of].queue = Tail(@)]
    /\ Reads /\ UNCHANGED <<live, viewer>>

---------------------------------------------------------------------------
RequestTurn(t) ==
    \/ Begins(t) \/ Enters(t) \/ Creates(t) \/ NoAgent(t) \/ Flags(t)
    \/ StartsOver(t) \/ StopsCollecting(t) \/ Stops(t) \/ Joins(t) \/ Leaves(t)
    \/ Analyses(t) \/ Binds(t) \/ Cancels(t) \/ Aborts(t)

Next ==
    \/ Drifts \/ Loaded \/ AgentWrites
    \/ \E c \in DOMAIN collectors : GuardTurn(c) \/ Poll(c) \/ PollFails(c)
    \/ \E t \in Threads : RequestTurn(t)
    \/ \E a \in DOMAIN analyses : WorkerTurn(a) \/ Forgets(a)
    \/ Views \/ Sees \/ LeavesView \/ Follows \/ Hears

\* Threads of the process run, GDS2's routes and the model's answers end, and a
\* page that loads for long enough is found to.
Fairness ==
    /\ \A c \in 1..MaxMade :
        WF_vars(GuardTurn(c)) /\ WF_vars(Poll(c)) /\ SF_vars(LoadsTooLong(c))
    /\ \A t \in Threads : WF_vars(RequestTurn(t))
    /\ \A a \in 1..MaxMade : WF_vars(WorkerTurn(a))
    /\ WF_vars(Hears)

Spec == Init /\ [][Next]_vars /\ Fairness

---------------------------------------------------------------------------
(* Properties.                                                             *)

Places == {"idle", "enters", "creates", "flags", "collects", "joins", "stops",
           "leaves", "analyses", "binds", "cancels", "aborts"}

TypeOK ==
    /\ gds.page \in Pages /\ gds.link \in Nat \ {0}
    /\ file.count \in Nat /\ file.link \in 0..gds.link
    /\ active \in 0..Len(collectors) /\ Len(collectors) <= MaxMade
    /\ \A c \in DOMAIN collectors : LET me == collectors[c] IN
        /\ me.for \in {"live", "ai"} /\ {me.run, me.since, me.error, me.torn} \subseteq BOOLEAN
        /\ me.guard \in {"waits", "drifted", "routes", "restarted", "reports"}
        /\ {me.result, me.slot, me.signature, me.event} \subseteq Results
        /\ me.restarts \in 0..MaxRestarts /\ me.buffer \subseteq 1..gds.link
    /\ status \in {"running", "aborted"} /\ live \in BOOLEAN
    /\ {bound, engine, reader.of} \subseteq 0..Len(analyses)
    /\ \A t \in Threads : thread[t].at \in Places
    /\ viewer.at \in {"off", "on", "dropped"} /\ Len(viewer.queue) <= QueueSize
    /\ \A a \in DOMAIN analyses :
        /\ analyses[a].at \in {"starts", "streams", "cleans", "frees", "over"}
        /\ Len(analyses[a].queue) <= QueueSize /\ analyses[a].chunks <= MaxChunks
    /\ (reader.at = "on") <=> (reader.of # 0)

(* When a session has been aborted nothing of it goes on: no collector, and*)
(* no diagnosis but one that knows it is cancelled.  The exceptions are a  *)
(* request that makes one while another ends or makes one too (raced), and *)
(* a reader that had taken one for over (misled): both leave behind what no*)
(* request of the session can reach any more.                              *)
AbortLeavesNothing ==
    status = "aborted" /\ ~raced /\ ~misled =>
        /\ \A c \in DOMAIN collectors : ~collectors[c].run
        /\ \A a \in DOMAIN analyses :
            analyses[a].at \in {"starts", "streams"} => analyses[a].cancelled

(* What is sent to the model was read over one connection of GDS2 to the   *)
(* vehicle: a recovery that connects anew starts the collection over.  The *)
(* ways around it are kept in torn: a recovery that chose the device again,*)
(* a second one that reads like the last, one at the end of the window, one*)
(* by the guard of another collector, and a file that was written before   *)
(* the collection began.                                                   *)
PayloadIsOfOneConnection ==
    \A a \in DOMAIN analyses :
        LET c == analyses[a].payload IN
            c # 0 => collectors[c].torn \/ Cardinality(collectors[c].buffer) <= 1

(* A lost page is settled: it is recovered, or the collector has ended and *)
(* said so, even while GDS2 loads.  A diagnosis ends, frees the engine for *)
(* the next one, and its reader is told, however full its queue is.        *)
StreamsSettle ==
    /\ \A c \in 1..MaxMade :
        Running(c) /\ gds.page # "display"
            ~> ~Running(c) \/ gds.page = "display"
    /\ \A a \in 1..MaxMade : engine = a ~> engine # a
    /\ reader.at = "on" ~> reader.at = "off"
=============================================================================
