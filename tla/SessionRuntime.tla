--------------------------- MODULE SessionRuntime ---------------------------
(***************************************************************************)
(* Diagnostic sessions on one worker: the orchestrator's sessions and      *)
(* decisions (diagnostic_platform/session_orchestrator.py) and the         *)
(* worker's binding, operation slot and navigations                        *)
(* (runtime/worker_runtime.py), as the HTTP requests of the session API    *)
(* use them.  A request runs in a thread of its own and holds a lock for   *)
(* one call only, so an action is what one thread does between two calls   *)
(* that another thread can come between.  An exception ends the request.   *)
(*                                                                         *)
(* The requests: start, abort, start_diagnostics, decision, clear_dtcs,    *)
(* navigate/start, navigate/abort, and the polls of the network quality by *)
(* status and events.  Live data, AI diagnosis, branch decisions, and what *)
(* goes on inside a navigation are not part of this module.                *)
(***************************************************************************)
EXTENDS Integers, FiniteSets

CONSTANTS
    Threads,   \* threads that serve HTTP requests; each serves one after another
    Sessions,  \* business session ids, each given out once
    Navs,      \* navigation session ids, each given out once
    None,      \* no session, navigation or operation
    MaxEpoch,  \* bound on the tunnels of a behaviour
    MaxGates   \* bound on the decisions raised in a behaviour

Operations == [thread: Threads, session: Sessions, cancelled: BOOLEAN]

ASSUME SessionsAssumption ==
    /\ None \notin Threads \cup Sessions \cup Navs \cup Operations
    /\ MaxEpoch \in Nat \ {0} /\ MaxGates \in Nat

VARIABLES
    status,      \* Session.status; "new": not created, "gone": no longer kept
    backend,     \* the session has a runnable backend_name
    gate,        \* Session.pending_decision
    gates,       \* decisions raised so far
    override,    \* the connection_epoch of Session.network_override (0: none)
    binding,     \* WorkerRuntime.business_session_binding
    operation,   \* WorkerRuntime.active_operation
    navigation,  \* the navigation sessions, each with the session it was started for
    tunnel,      \* what preflight() reports: the connection epoch, and grade "block"
    task,        \* the request each thread serves and where it is
    granted      \* history: the epochs the user let each session start in anyway

orchestrator == <<status, backend, gate, gates, override, granted>>
worker == <<binding, operation, navigation>>
vars == <<orchestrator, worker, tunnel, task>>

Unbound == [session |-> None, nav |-> None]
NoGate == [id |-> 0, kind |-> "none"]
Idle == [req |-> "none", at |-> "idle", s |-> None, arg |-> None, epoch |-> 0, blocked |-> FALSE]

Active == {"running", "awaiting"}
Alive == {"running", "awaiting", "aborted"}

Kinds == {"none", "start", "abort", "diag", "decide", "clear", "nav", "navabort", "poll"}
Places ==
    {"idle", "stale", "judge", "drop", "bind", "unclear", "discard",
     "cancel", "navid", "navstop", "navclear", "end", "unbind",
     "backend", "answer", "refuse", "look", "quality", "override", "grant",
     "verdict", "operation", "work", "reset", "live", "finish",
     "busy", "free", "spawn", "attach"}
Args == Sessions \cup Navs \cup 0..MaxGates \cup {None}
Tasks == [req: Kinds, at: Places, s: Sessions \cup {None}, arg: Args,
          epoch: 0..MaxEpoch, blocked: BOOLEAN]

TypeOK ==
    /\ status \in [Sessions -> Alive \cup {"new", "gone"}]
    /\ backend \in [Sessions -> BOOLEAN]
    /\ gate \in [Sessions -> [id: 0..MaxGates, kind: {"none", "backend", "network"}]]
    /\ gates \in 0..MaxGates
    /\ override \in [Sessions -> 0..MaxEpoch]
    /\ binding \in [session: Sessions \cup {None}, nav: Navs \cup {None}]
    /\ operation \in Operations \cup {None}
    /\ navigation \in [Navs -> [of: Sessions \cup {None},
                                state: {"unborn", "running", "aborted", "over"}]]
    /\ tunnel \in [epoch: 1..MaxEpoch, blocked: BOOLEAN]
    /\ task \in [Threads -> Tasks]
    /\ granted \in [Sessions -> SUBSET (1..MaxEpoch)]

Init ==
    /\ status = [s \in Sessions |-> "new"]
    /\ backend = [s \in Sessions |-> FALSE]
    /\ gate = [s \in Sessions |-> NoGate]
    /\ gates = 0
    /\ override = [s \in Sessions |-> 0]
    /\ binding = Unbound
    /\ operation = None
    /\ navigation = [n \in Navs |-> [of |-> None, state |-> "unborn"]]
    /\ tunnel = [epoch |-> 1, blocked |-> FALSE]
    /\ task = [t \in Threads |-> Idle]
    /\ granted = [s \in Sessions |-> {}]

-----------------------------------------------------------------------------
(* Requests and their threads.                                             *)

Begin(t, req, s, at, arg) ==
    task' = [task EXCEPT ![t] = [req |-> req, at |-> at, s |-> s, arg |-> arg,
                                 epoch |-> 0, blocked |-> FALSE]]

At(t, at) == task[t].at = at
GoTo(t, at) == task' = [task EXCEPT ![t].at = at]
GoWith(t, at, arg) == task' = [task EXCEPT ![t].at = at, ![t].arg = arg]
Ends(t) == task' = [task EXCEPT ![t] = Idle]

(* The orchestrator finds the session (get_session raises KeyError).       *)
Kept(s) == status[s] \in Alive

(* ensure_session_capability: a session without a backend has none.        *)
Capable(s) == status[s] = "running" /\ backend[s]

-----------------------------------------------------------------------------
(* The worker's binding and operation slot, each call under state_lock.    *)

CanBind(s) == binding.session \in {None, s}
Bound(s) == IF binding.session = s THEN binding ELSE [session |-> s, nav |-> None]
ClearBusinessSessionAnyway(s) == binding' = Unbound   \* variant: no look at whose binding it is
ClearBusinessSession(s) ==
    binding' = IF binding.session = s THEN Unbound ELSE binding
NavigationOf(s) == IF binding.session = s THEN binding.nav ELSE None
ClearNavigation(s) ==
    binding' = IF binding.session = s THEN [binding EXCEPT !.nav = None] ELSE binding

StartOperationAnyway(t, s) ==   \* variant: without the busy check
    operation' = [thread |-> t, session |-> s, cancelled |-> FALSE]

StartOperation(t, s) ==
    /\ operation = None
    /\ operation' = [thread |-> t, session |-> s, cancelled |-> FALSE]

-----------------------------------------------------------------------------
(* POST /api/session/start.  The conflict answer names the active session, *)
(* so its id is known to other clients too.                                *)

RaiseGate(s, kind) ==
    /\ gates < MaxGates
    /\ gates' = gates + 1
    /\ gate' = [gate EXCEPT ![s] = [id |-> gates + 1, kind |-> kind]]
    /\ status' = [status EXCEPT ![s] = "awaiting"]

StartSession(t, s) ==
    /\ At(t, "idle") /\ status[s] = "new"
    /\ \A r \in Sessions : status[r] \notin Active
    /\ \/ /\ status' = [status EXCEPT ![s] = "running"]
          /\ backend' = [backend EXCEPT ![s] = TRUE]
          /\ UNCHANGED <<gate, gates>>
       \/ /\ RaiseGate(s, "backend")
          /\ UNCHANGED backend
    /\ Begin(t, "start", s, "stale", None)
    /\ UNCHANGED <<override, granted, worker, tunnel>>

(* _clear_stale_worker_binding: read, judge, clear are three calls.        *)
ReadsOldBinding(t) ==
    /\ At(t, "stale")
    /\ LET old == binding.session
       IN IF CanBind(task[t].s) THEN GoTo(t, "bind")
          ELSE GoWith(t, "judge", old)
    /\ UNCHANGED <<orchestrator, worker, tunnel>>

JudgesOldBinding(t) ==
    /\ At(t, "judge")
    /\ IF status[task[t].arg] \in Active
       THEN Begin(t, "start", task[t].s, "bind", None) ELSE GoTo(t, "drop")
    /\ UNCHANGED <<orchestrator, worker, tunnel>>

DropsOldBinding(t) ==
    /\ At(t, "drop")
    /\ ClearBusinessSession(task[t].arg)
    /\ Begin(t, "start", task[t].s, "bind", None)
    /\ UNCHANGED <<orchestrator, operation, navigation, tunnel>>

BindsSession(t) ==
    /\ At(t, "bind")
    /\ IF CanBind(task[t].s)
       THEN binding' = Bound(task[t].s) /\ Ends(t)
       ELSE GoTo(t, "unclear") /\ UNCHANGED binding
    /\ UNCHANGED <<orchestrator, operation, navigation, tunnel>>

(* _rollback_failed_session_start *)
RollsBackBinding(t) ==
    /\ At(t, "unclear")
    /\ ClearBusinessSession(task[t].s)
    /\ GoTo(t, "discard")
    /\ UNCHANGED <<orchestrator, operation, navigation, tunnel>>

DiscardsSession(t) ==
    /\ At(t, "discard")
    /\ LET s == task[t].s
       IN /\ status' = [status EXCEPT ![s] = "gone"]
          /\ gate' = [gate EXCEPT ![s] = NoGate]
          /\ override' = [override EXCEPT ![s] = 0]
    /\ Ends(t)
    /\ UNCHANGED <<backend, gates, granted, worker, tunnel>>

-----------------------------------------------------------------------------
(* POST /api/session/abort and navigate/abort.                             *)

AbortRequest(t, s) ==
    /\ At(t, "idle") /\ Kept(s)
    /\ Begin(t, "abort", s, "cancel", None)
    /\ UNCHANGED <<orchestrator, worker, tunnel>>

CancelsOperation(t) ==
    /\ At(t, "cancel")
    /\ operation' = IF operation # None /\ operation.session = task[t].s
                    THEN [operation EXCEPT !.cancelled = TRUE] ELSE operation
    /\ GoTo(t, "navid")
    /\ UNCHANGED <<orchestrator, binding, navigation, tunnel>>

NavAbortRequest(t, s) ==
    /\ At(t, "idle") /\ Capable(s)
    /\ Begin(t, "navabort", s, "navid", None)
    /\ UNCHANGED <<orchestrator, worker, tunnel>>

(* abort_active_execution swallows what abort_navigation raises.           *)
AfterNavigation(t) == IF task[t].req = "abort" THEN GoTo(t, "end") ELSE Ends(t)

ResolvesNavigation(t) ==
    /\ At(t, "navid")
    /\ LET n == NavigationOf(task[t].s)
       IN IF n = None THEN AfterNavigation(t)
          ELSE GoWith(t, "navstop", n)
    /\ UNCHANGED <<orchestrator, worker, tunnel>>

StopsNavigation(t) ==
    /\ At(t, "navstop")
    /\ LET n == task[t].arg
       IN IF navigation[n].state = "running"
          THEN /\ navigation' = [navigation EXCEPT ![n].state = "aborted"]
               /\ GoTo(t, "navclear")
          ELSE AfterNavigation(t) /\ UNCHANGED navigation
    /\ UNCHANGED <<orchestrator, binding, operation, tunnel>>

UnbindsNavigation(t) ==
    /\ At(t, "navclear")
    /\ ClearNavigation(task[t].s)
    /\ AfterNavigation(t)
    /\ UNCHANGED <<orchestrator, operation, navigation, tunnel>>

(* abort_session raises for a session that is over or no longer kept, and  *)
(* the worker's binding is then left as it is.                             *)
AbortsSession(t) ==
    /\ At(t, "end")
    /\ LET s == task[t].s
       IN IF status[s] \in Active
          THEN /\ status' = [status EXCEPT ![s] = "aborted"]
               /\ gate' = [gate EXCEPT ![s] = NoGate]
               /\ override' = [override EXCEPT ![s] = 0]
               /\ GoTo(t, "unbind")
          ELSE Ends(t) /\ UNCHANGED <<status, gate, override>>
    /\ UNCHANGED <<backend, gates, granted, worker, tunnel>>

UnbindsSession(t) ==
    /\ At(t, "unbind")
    /\ ClearBusinessSession(task[t].s)
    /\ Ends(t)
    /\ UNCHANGED <<orchestrator, operation, navigation, tunnel>>

(* The timer of _schedule_terminal_cleanup. *)
Cleanup(s) ==
    /\ status[s] = "aborted"
    /\ status' = [status EXCEPT ![s] = "gone"]
    /\ UNCHANGED <<backend, gate, gates, override, granted, worker, tunnel, task>>

-----------------------------------------------------------------------------
(* get_backend(session_id): the session is found and bound (again), and    *)
(* only then asked for its backend.  Whether it is still active is not.    *)

Wanting(t) == IF task[t].req = "decide" THEN "answer"
              ELSE IF task[t].req = "diag" THEN "look"
              ELSE IF task[t].req = "nav" THEN "busy" ELSE "free"

GetsBackend(t) ==
    /\ At(t, "backend")
    /\ LET s == task[t].s
       IN IF Kept(s) /\ CanBind(s)
          THEN /\ binding' = Bound(s)
               /\ IF backend[s] \/ task[t].req = "decide" THEN GoTo(t, Wanting(t)) ELSE Ends(t)
          ELSE Ends(t) /\ UNCHANGED binding
    /\ UNCHANGED <<orchestrator, operation, navigation, tunnel>>

-----------------------------------------------------------------------------
(* POST /api/session/navigate/start and clear_dtcs.                        *)

NavigateRequest(t, s) ==
    /\ At(t, "idle") /\ Capable(s)
    /\ Begin(t, "nav", s, "backend", None)
    /\ UNCHANGED <<orchestrator, worker, tunnel>>

ClearDtcsRequest(t, s) ==
    /\ At(t, "idle") /\ Capable(s)
    /\ Begin(t, "clear", s, "backend", None)
    /\ UNCHANGED <<orchestrator, worker, tunnel>>

LooksForOperation(t) ==
    /\ At(t, "busy")
    /\ IF operation = None THEN GoTo(t, "free") ELSE Ends(t)
    /\ UNCHANGED <<orchestrator, worker, tunnel>>

LooksForNavigation(t) ==
    /\ At(t, "free")
    /\ IF NavigationOf(task[t].s) # None THEN Ends(t)
       ELSE GoTo(t, IF task[t].req = "nav" THEN "spawn" ELSE "operation")
    /\ UNCHANGED <<orchestrator, worker, tunnel>>

SpawnsNavigation(t, n) ==
    /\ At(t, "spawn") /\ navigation[n].state = "unborn"
    /\ navigation' = [navigation EXCEPT ![n] = [of |-> task[t].s, state |-> "running"]]
    /\ GoWith(t, "attach", n)
    /\ UNCHANGED <<orchestrator, binding, operation, tunnel>>

BindsNavigationAnyway(t) ==   \* variant: to whatever session is bound
    /\ At(t, "attach")
    /\ binding' = [binding EXCEPT !.nav = task[t].arg]
    /\ Ends(t)
    /\ UNCHANGED <<orchestrator, operation, navigation, tunnel>>

BindsNavigation(t) ==
    /\ At(t, "attach")
    /\ LET s == task[t].s
       IN binding' = IF CanBind(s) THEN [session |-> s, nav |-> task[t].arg] ELSE binding
    /\ Ends(t)
    /\ UNCHANGED <<orchestrator, operation, navigation, tunnel>>

(* The thread of a navigation completes or fails; its status does not      *)
(* change any more once it is aborted.                                     *)
NavigationEnds(n) ==
    /\ navigation[n].state = "running"
    /\ navigation' = [navigation EXCEPT ![n].state = "over"]
    /\ UNCHANGED <<orchestrator, binding, operation, tunnel, task>>

(* A reader of the navigation's events is told its end.  There may be      *)
(* several, and they clear the session's binding, whatever it names.       *)
NavigationReported(n) ==
    /\ navigation[n].state \in {"aborted", "over"}
    /\ ClearNavigation(navigation[n].of)
    /\ UNCHANGED <<orchestrator, operation, navigation, tunnel, task>>

-----------------------------------------------------------------------------
(* POST /api/session/start_diagnostics and decision.                       *)

StartDiagnosticsRequest(t, s) ==
    /\ At(t, "idle") /\ Kept(s)
    /\ Begin(t, "diag", s, "backend", None)
    /\ UNCHANGED <<orchestrator, worker, tunnel>>

DecisionRequest(t, s) ==
    /\ At(t, "idle") /\ gate[s].id # 0
    /\ Begin(t, "decide", s, "backend", gate[s].id)
    /\ UNCHANGED <<orchestrator, worker, tunnel>>

(* status, and the loop of the event stream, take a snapshot of their own. *)
PollRequest(t, s) ==
    /\ At(t, "idle") /\ Kept(s)
    /\ Begin(t, "poll", s, "quality", None)
    /\ UNCHANGED <<orchestrator, worker, tunnel>>

(* submit_decision under the orchestrator's lock: any option of the gate.  *)
Resolve(s) ==
    /\ status' = [status EXCEPT ![s] = "running"]
    /\ gate' = [gate EXCEPT ![s] = NoGate]

Pending(t) == LET s == task[t].s IN status[s] = "awaiting" /\ gate[s].id = task[t].arg

ChoosesBackend(t) ==
    /\ At(t, "answer") /\ Pending(t) /\ gate[task[t].s].kind = "backend"
    /\ Resolve(task[t].s)
    /\ \E runnable \in BOOLEAN : backend' = [backend EXCEPT ![task[t].s] = runnable]
    /\ Ends(t)
    /\ UNCHANGED <<gates, override, granted, worker, tunnel>>

AnswersNetworkGate(t) ==
    /\ At(t, "answer") /\ Pending(t) /\ gate[task[t].s].kind = "network"
    /\ Resolve(task[t].s)
    /\ \/ GoTo(t, "quality")  \* continue_anyway
       \/ GoTo(t, "refuse")   \* cancel
    /\ UNCHANGED <<backend, gates, override, granted, worker, tunnel>>

DecisionTooLate(t) ==
    /\ At(t, "answer") /\ ~Pending(t)
    /\ Ends(t)
    /\ UNCHANGED <<orchestrator, worker, tunnel>>

(* clear_network_override, then the snapshot of the answer.                *)
CancelsStart(t) ==
    /\ At(t, "refuse")
    /\ override' = [override EXCEPT ![task[t].s] = 0]
    /\ Begin(t, "poll", task[t].s, "quality", None)
    /\ UNCHANGED <<status, backend, gate, gates, granted, worker, tunnel>>

(* check_decision_timeout applies the fallback: manual, or cancel.         *)
DecisionTimesOut(s) ==
    /\ status[s] = "awaiting"
    /\ Resolve(s)
    /\ UNCHANGED <<backend, gates, override, granted, worker, tunnel, task>>

ReadsQualityWithoutEpoch(t) ==   \* variant: the connection epoch is left out
    /\ At(t, "quality")
    /\ IF Kept(task[t].s)
       THEN task' = [task EXCEPT ![t].at = "override", ![t].blocked = tunnel.blocked]
       ELSE Ends(t)
    /\ UNCHANGED <<orchestrator, worker, tunnel>>

(* get_session_network_snapshot: preflight(), then the override, which is  *)
(* dropped when it is of another epoch.                                    *)
ReadsQuality(t) ==
    /\ At(t, "quality")
    /\ IF Kept(task[t].s)
       THEN task' = [task EXCEPT ![t].at = "override", ![t].epoch = tunnel.epoch,
                                 ![t].blocked = tunnel.blocked]
       ELSE Ends(t)
    /\ UNCHANGED <<orchestrator, worker, tunnel>>

EffectiveForEver(s, epoch) == override[s] # 0   \* variant: not bound to the epoch
Effective(s, epoch) == override[s] # 0 /\ override[s] = epoch

ReadsOverride(t) ==
    /\ At(t, "override")
    /\ LET s == task[t].s
           effective == Effective(s, task[t].epoch)
       IN /\ override' = IF effective THEN override ELSE [override EXCEPT ![s] = 0]
          /\ CASE task[t].req = "poll"   -> Ends(t)
               [] task[t].req = "decide" -> GoTo(t, "grant")
               [] OTHER -> GoTo(t, IF task[t].blocked /\ ~effective THEN "verdict" ELSE "operation")
    /\ UNCHANGED <<status, backend, gate, gates, granted, worker, tunnel>>

(* set_network_override, then run_start_diagnostics again.                 *)
SetsOverride(t) ==
    /\ At(t, "grant")
    /\ LET s == task[t].s
           epoch == task[t].epoch
       IN IF Kept(s)
          THEN /\ override' = [override EXCEPT ![s] = epoch]
               /\ granted' = [granted EXCEPT ![s] = @ \cup {epoch}]
               /\ Begin(t, "diag", s, "look", None)
          ELSE Ends(t) /\ UNCHANGED <<override, granted>>
    /\ UNCHANGED <<status, backend, gate, gates, worker, tunnel>>

LooksAtSession(t) ==
    /\ At(t, "look")
    /\ IF Capable(task[t].s) THEN GoTo(t, "quality") ELSE Ends(t)
    /\ UNCHANGED <<orchestrator, worker, tunnel>>

RaisesNetworkGateAnyway(t) ==   \* variant: without the check of the status
    /\ At(t, "verdict")
    /\ RaiseGate(task[t].s, "network")
    /\ Ends(t)
    /\ UNCHANGED <<backend, override, granted, worker, tunnel>>

RaisesNetworkGate(t) ==
    /\ At(t, "verdict")
    /\ LET s == task[t].s
       IN IF status[s] = "running" THEN RaiseGate(s, "network")
          ELSE UNCHANGED <<status, gate, gates>>
    /\ Ends(t)
    /\ UNCHANGED <<backend, override, granted, worker, tunnel>>

-----------------------------------------------------------------------------
(* The exclusive operations start_diagnostics and clear_dtcs.              *)

AcquiresOperation(t) ==
    /\ At(t, "operation")
    /\ StartOperation(t, task[t].s)
    /\ GoTo(t, "work")
    /\ UNCHANGED <<orchestrator, binding, navigation, tunnel>>

FindsWorkerBusy(t) ==
    /\ At(t, "operation") /\ operation # None
    /\ Ends(t)
    /\ UNCHANGED <<orchestrator, worker, tunnel>>

(* The backend has started; a cancelled operation never gets past its last *)
(* check.                                                                  *)
BackendStarted(t) ==
    /\ At(t, "work") /\ task[t].req = "diag" /\ Kept(task[t].s) /\ ~operation.cancelled
    /\ GoTo(t, "reset")
    /\ UNCHANGED <<orchestrator, worker, tunnel>>

(* The operation is done, fails or notices that it is cancelled.           *)
LeavesWork(t) ==
    /\ At(t, "work")
    /\ GoTo(t, "finish")
    /\ UNCHANGED <<orchestrator, worker, tunnel>>

(* _reset_session_runtime_state: set_live_data_active binds, or raises.    *)
ResetsNavigation(t) ==
    /\ At(t, "reset")
    /\ ClearNavigation(task[t].s)
    /\ GoTo(t, "live")
    /\ UNCHANGED <<orchestrator, operation, navigation, tunnel>>

ResetsLiveData(t) ==
    /\ At(t, "live")
    /\ binding' = IF CanBind(task[t].s) THEN Bound(task[t].s) ELSE binding
    /\ GoTo(t, "finish")
    /\ UNCHANGED <<orchestrator, operation, navigation, tunnel>>

FinishesOperation(t) ==
    /\ At(t, "finish")
    /\ operation' = IF operation # None /\ operation.thread = t THEN None ELSE operation
    /\ Ends(t)
    /\ UNCHANGED <<orchestrator, binding, navigation, tunnel>>

-----------------------------------------------------------------------------
(* The tunnel reconnects, and its grade changes.                           *)

NewTunnel ==
    /\ tunnel.epoch < MaxEpoch
    /\ \E blocked \in BOOLEAN : tunnel' = [epoch |-> tunnel.epoch + 1, blocked |-> blocked]
    /\ UNCHANGED <<orchestrator, worker, task>>

GradeChanges ==
    /\ tunnel' = [tunnel EXCEPT !.blocked = ~@]
    /\ UNCHANGED <<orchestrator, worker, task>>

Starting(t) ==
    \/ ReadsOldBinding(t) \/ JudgesOldBinding(t) \/ DropsOldBinding(t)
    \/ BindsSession(t) \/ RollsBackBinding(t) \/ DiscardsSession(t)

Aborting(t) ==
    \/ CancelsOperation(t) \/ ResolvesNavigation(t) \/ StopsNavigation(t)
    \/ UnbindsNavigation(t) \/ AbortsSession(t) \/ UnbindsSession(t)

Navigating(t) ==
    \/ LooksForOperation(t) \/ LooksForNavigation(t)
    \/ (\E n \in Navs : SpawnsNavigation(t, n)) \/ BindsNavigation(t)

Deciding(t) ==
    \/ ChoosesBackend(t) \/ AnswersNetworkGate(t) \/ DecisionTooLate(t) \/ CancelsStart(t)
    \/ ReadsQuality(t) \/ ReadsOverride(t) \/ SetsOverride(t)
    \/ LooksAtSession(t) \/ RaisesNetworkGate(t)

Operating(t) ==
    \/ AcquiresOperation(t) \/ FindsWorkerBusy(t) \/ BackendStarted(t) \/ LeavesWork(t)
    \/ ResetsNavigation(t) \/ ResetsLiveData(t) \/ FinishesOperation(t)

Serve(t) == Starting(t) \/ Aborting(t) \/ GetsBackend(t) \/ Navigating(t) \/ Deciding(t) \/ Operating(t)

Request(t, s) ==
    \/ StartSession(t, s) \/ AbortRequest(t, s) \/ NavAbortRequest(t, s)
    \/ NavigateRequest(t, s) \/ ClearDtcsRequest(t, s)
    \/ StartDiagnosticsRequest(t, s) \/ DecisionRequest(t, s) \/ PollRequest(t, s)

Next ==
    \/ \E t \in Threads : Serve(t)
    \/ \E t \in Threads, s \in Sessions : Request(t, s)
    \/ \E s \in Sessions : Cleanup(s) \/ DecisionTimesOut(s)
    \/ \E n \in Navs : NavigationEnds(n) \/ NavigationReported(n)
    \/ NewTunnel \/ GradeChanges

Spec == Init /\ [][Next]_vars

-----------------------------------------------------------------------------
(* Properties.                                                             *)

(* A session that runs or awaits a decision, and whose start is over, is   *)
(* the one the worker is bound to: no request that is late for an earlier  *)
(* session, and no clearing of a stale binding, takes the worker from it   *)
(* (bind_business_session, clear_business_session and the rollback of a    *)
(* start in session_lifecycle.py).                                         *)
StartedSessionStaysBound ==
    \A s \in Sessions :
        status[s] \in Active /\ (\A t \in Threads : task[t].req = "start" => task[t].s # s)
            => binding.session = s

(* The navigation the worker is bound to was started for the session it is *)
(* bound to: a new binding starts empty (bind_business_session), and a     *)
(* navigation is bound in the same hold of the lock as its session.        *)
NavigationBelongsToItsSession ==
    binding.nav # None =>
        /\ binding.session # None
        /\ navigation[binding.nav].of = binding.session

(* Both: whom the worker works for.                                        *)
BindingFollowsSessions == StartedSessionStaysBound /\ NavigationBelongsToItsSession

(* A session has a pending decision exactly while it awaits one: answers,  *)
(* time-outs, aborts and rollbacks leave neither a gate that nobody can    *)
(* answer nor a wait that nothing ends (session_orchestrator.py).          *)
GateMatchesStatus ==
    \A s \in Sessions : (gate[s].id # 0) <=> (status[s] = "awaiting")

(* The operation slot is held by the one request that is inside its        *)
(* operation, and freed on every way out of it, cancellation included      *)
(* (start_operation and the finally clauses of run_start_diagnostics and   *)
(* clear_dtcs).                                                            *)
InOperation(t) == task[t].at \in {"work", "reset", "live", "finish"}

OperationHasRunner ==
    \A t \in Threads : InOperation(t) <=> operation # None /\ operation.thread = t

(* Both: neither a decision nor the slot is left behind by who took it.    *)
NothingDangles == GateMatchesStatus /\ OperationHasRunner

(* Diagnostics start through a blocked tunnel only in an epoch for which   *)
(* the user has answered "continue" in that session: an override does not  *)
(* outlive its epoch, whatever polls, answers and reconnections come in    *)
(* between (get_effective_network_override).                               *)
BlockedStartIsConfirmed ==
    \A t \in Threads :
        InOperation(t) /\ task[t].req = "diag" /\ task[t].blocked
            => task[t].epoch \in granted[task[t].s]

(* An aborted session stays so: no request that is still in flight, no     *)
(* decision raised or answered late and no time-out brings it back.        *)
SessionsEndForGood ==
    [][\A s \in Sessions :
          /\ status[s] = "aborted" => status'[s] \in {"aborted", "gone"}
          /\ status[s] = "gone" => status'[s] = "gone"]_vars

(* agent_docs/core/runtime_flows.md, Clear-DTC Flow: "Reject the operation *)
(* if live-data, navigation, or AI execution is still active for the       *)
(* session."  Both requests look before they leap, at different things.    *)
ClearDtcsExclusive ==
    \A t \in Threads, n \in Navs :
        ~(At(t, "work") /\ task[t].req = "clear"
          /\ navigation[n].state = "running" /\ navigation[n].of = task[t].s)
=============================================================================
