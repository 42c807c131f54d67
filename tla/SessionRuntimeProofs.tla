------------------------ MODULE SessionRuntimeProofs ------------------------
(***************************************************************************)
(* Proofs about SessionRuntime, for any number of threads, sessions and    *)
(* navigations and any bounds.                                             *)
(***************************************************************************)
EXTENDS SessionRuntime, TLAPS

-----------------------------------------------------------------------------
(* The place of a request says which of its fields are set.                *)

WithSession == {"judge", "drop"}
WithNav == {"navstop", "attach"}
WithEpoch == {"override", "grant", "verdict"}
Plain == Places \ ({"idle"} \cup WithSession \cup WithNav \cup WithEpoch)

FieldsSet(k) ==
    /\ k.at # "idle" => k.s \in Sessions
    /\ k.at \in WithSession => k.arg \in Sessions
    /\ k.at \in WithNav => k.arg \in Navs
    /\ k.at \in WithEpoch => k.epoch # 0

TasksOK ==
    /\ task \in [Threads -> Tasks]
    /\ \A t \in Threads : FieldsSet(task[t])

Statuses == Alive \cup {"new", "gone"}
Gates == [id: 0..MaxGates, kind: {"none", "backend", "network"}]

OrchestratorOK ==
    /\ status \in [Sessions -> Statuses]
    /\ backend \in [Sessions -> BOOLEAN]
    /\ gate \in [Sessions -> Gates]
    /\ gates \in 0..MaxGates
    /\ override \in [Sessions -> 0..MaxEpoch]
    /\ granted \in [Sessions -> SUBSET (1..MaxEpoch)]

WorkerOK ==
    /\ binding \in [session: Sessions \cup {None}, nav: Navs \cup {None}]
    /\ operation \in Operations \cup {None}
    /\ navigation \in [Navs -> [of: Sessions \cup {None},
                                state: {"unborn", "running", "aborted", "over"}]]
    /\ tunnel \in [epoch: 1..MaxEpoch, blocked: BOOLEAN]

DataOK == OrchestratorOK /\ WorkerOK
Shape == DataOK /\ TasksOK

LEMMA ShapeIsTyped == Shape => TypeOK
  BY DEF Shape, DataOK, OrchestratorOK, WorkerOK, Statuses, Gates, TasksOK, TypeOK

LEMMA Serving ==
  ASSUME TasksOK, NEW t \in Threads, NEW p, At(t, p), p # "idle"
  PROVE  task[t].s \in Sessions
  BY DEF TasksOK, FieldsSet, At

LEMMA IdleShape == Idle \in Tasks /\ FieldsSet(Idle)
<1>1. /\ Idle.at = "idle"
      /\ "idle" \notin WithSession \cup WithNav \cup WithEpoch
  BY DEF Idle, WithSession, WithNav, WithEpoch
<1>2. None \in Args /\ "none" \in Kinds /\ "idle" \in Places /\ 0 \in 0..MaxEpoch
  BY SessionsAssumption DEF Args, Kinds, Places
<1> QED
  BY <1>1, <1>2 DEF Idle, FieldsSet, Tasks

LEMMA Ending ==
  ASSUME TasksOK, NEW t \in Threads, Ends(t)
  PROVE  TasksOK'
  BY IdleShape DEF TasksOK, Ends

LEMMA PlainPlaces ==
  /\ "stale" \in Plain /\ "bind" \in Plain /\ "unclear" \in Plain /\ "discard" \in Plain
  /\ "cancel" \in Plain /\ "navid" \in Plain /\ "navclear" \in Plain
  /\ "end" \in Plain /\ "unbind" \in Plain /\ "backend" \in Plain /\ "answer" \in Plain
  /\ "refuse" \in Plain /\ "look" \in Plain /\ "quality" \in Plain
  /\ "operation" \in Plain /\ "work" \in Plain /\ "reset" \in Plain /\ "live" \in Plain
  /\ "finish" \in Plain /\ "busy" \in Plain /\ "free" \in Plain /\ "spawn" \in Plain
  BY DEF Plain, Places, WithSession, WithNav, WithEpoch

LEMMA Moving ==
  ASSUME TasksOK, NEW t \in Threads, task[t].at # "idle", NEW p \in Places, GoTo(t, p),
         p \in WithSession => task[t].arg \in Sessions,
         p \in WithNav => task[t].arg \in Navs,
         p \in WithEpoch => task[t].epoch # 0
  PROVE  TasksOK'
<1> DEFINE k == [task[t] EXCEPT !.at = p]
<1>1. task[t] \in Tasks /\ FieldsSet(task[t])
  BY DEF TasksOK
<1>2. k = [req |-> task[t].req, at |-> p, s |-> task[t].s, arg |-> task[t].arg,
           epoch |-> task[t].epoch, blocked |-> task[t].blocked]
  BY <1>1 DEF Tasks
<1>3. k \in Tasks
  BY <1>1, <1>2 DEF Tasks
<1>4. FieldsSet(k)
  BY <1>1, <1>2 DEF FieldsSet
<1>5. task' = [task EXCEPT ![t] = k]
  BY DEF GoTo
<1> HIDE DEF k
<1> QED
  BY <1>3, <1>4, <1>5 DEF TasksOK

LEMMA MovingPlainly ==
  ASSUME TasksOK, NEW t \in Threads, task[t].at # "idle", NEW p \in Plain, GoTo(t, p)
  PROVE  TasksOK'
<1>1. p \in Places /\ p \notin WithSession \cup WithNav \cup WithEpoch
  BY DEF Plain
<1> QED
  BY <1>1, Moving

LEMMA Pointing ==
  ASSUME TasksOK, NEW t \in Threads, task[t].at # "idle", NEW p \in Places, NEW x \in Args,
         p \in WithSession => x \in Sessions,
         p \in WithNav => x \in Navs,
         p \notin WithEpoch,
         GoWith(t, p, x)
  PROVE  TasksOK'
<1> DEFINE j == [task[t] EXCEPT !.at = p]
           k == [j EXCEPT !.arg = x]
<1>1. task[t] \in Tasks /\ FieldsSet(task[t])
  BY DEF TasksOK
<1>2. k = [req |-> task[t].req, at |-> p, s |-> task[t].s, arg |-> x,
           epoch |-> task[t].epoch, blocked |-> task[t].blocked]
  <2>1. j = [req |-> task[t].req, at |-> p, s |-> task[t].s, arg |-> task[t].arg,
             epoch |-> task[t].epoch, blocked |-> task[t].blocked]
    BY <1>1 DEF Tasks
  <2>2. j \in Tasks
    BY <1>1, <2>1 DEF Tasks
  <2> HIDE DEF j
  <2> QED
    BY <2>1, <2>2 DEF Tasks
<1>3. k \in Tasks
  BY <1>1, <1>2 DEF Tasks
<1>4. FieldsSet(k)
  BY <1>1, <1>2 DEF FieldsSet
<1>5. task' = [task EXCEPT ![t] = k]
  BY <1>1 DEF TasksOK, GoWith
<1> HIDE DEF k
<1> QED
  BY <1>3, <1>4, <1>5 DEF TasksOK

LEMMA Beginning ==
  ASSUME TasksOK, NEW t \in Threads, NEW q \in Kinds, NEW r \in Sessions,
         NEW p \in Plain, NEW x \in Args, Begin(t, q, r, p, x)
  PROVE  TasksOK'
<1> DEFINE k == [req |-> q, at |-> p, s |-> r, arg |-> x, epoch |-> 0, blocked |-> FALSE]
<1>1. k \in Tasks
  BY SessionsAssumption DEF Tasks, Plain
<1>2. p \notin WithSession \cup WithNav \cup WithEpoch
  BY DEF Plain
<1>3. FieldsSet(k)
  BY <1>2 DEF FieldsSet
<1>4. task' = [task EXCEPT ![t] = k]
  BY DEF Begin
<1> HIDE DEF k
<1> QED
  BY <1>1, <1>3, <1>4 DEF TasksOK

LEMMA Setting ==
  ASSUME TasksOK, NEW t \in Threads, NEW k \in Tasks, FieldsSet(k),
         task' = [task EXCEPT ![t] = k]
  PROVE  TasksOK'
  BY DEF TasksOK

-----------------------------------------------------------------------------
(* Requests keep their shape.                                              *)

LEMMA RequestTasks ==
  ASSUME Shape, NEW t \in Threads, NEW s \in Sessions, Request(t, s)
  PROVE  TasksOK'
<1>1. TasksOK /\ gate[s].id \in Args /\ None \in Args
  BY DEF Shape, DataOK, OrchestratorOK, Gates, Args
<1>2. {"start", "abort", "navabort", "nav", "clear", "diag", "decide", "poll"} \subseteq Kinds
  BY DEF Kinds
<1>3. \E q \in Kinds, p \in Plain, x \in Args : Begin(t, q, s, p, x)
  BY <1>1, <1>2, PlainPlaces
  DEF Request, StartSession, AbortRequest, NavAbortRequest, NavigateRequest,
      ClearDtcsRequest, StartDiagnosticsRequest, DecisionRequest, PollRequest
<1> QED
  BY <1>1, <1>3, Beginning

LEMMA StartingTasks ==
  ASSUME Shape, NEW t \in Threads, Starting(t)
  PROVE  TasksOK'
<1>1. TasksOK /\ task[t].at # "idle" /\ task[t].s \in Sessions
  BY Serving DEF Shape, Starting, ReadsOldBinding, JudgesOldBinding, DropsOldBinding,
                 BindsSession, RollsBackBinding, DiscardsSession, At
<1>2. "start" \in Kinds /\ None \in Args
  BY DEF Kinds, Args
<1>3. CASE ReadsOldBinding(t)
  <2>1. CASE GoTo(t, "bind")
    BY <1>1, <2>1, MovingPlainly, PlainPlaces
  <2>2. CASE /\ ~CanBind(task[t].s)
             /\ GoWith(t, "judge", binding.session)
    <3>1. binding.session \in Sessions /\ binding.session \in Args
      BY <2>2 DEF CanBind, Shape, DataOK, WorkerOK, Args
    <3>2. "judge" \in Places /\ "judge" \notin WithNav /\ "judge" \notin WithEpoch
      BY DEF Places, WithNav, WithEpoch
    <3> QED
      BY <1>1, <2>2, <3>1, <3>2, Pointing
  <2> QED
    BY <1>3, <2>1, <2>2 DEF ReadsOldBinding
<1>4. CASE JudgesOldBinding(t)
  <2>1. CASE GoTo(t, "drop")
    <3>1. task[t].arg \in Sessions
      BY <1>1, <1>4 DEF JudgesOldBinding, At, TasksOK, FieldsSet, WithSession
    <3>2. "drop" \in Places /\ "drop" \notin WithNav /\ "drop" \notin WithEpoch
      BY DEF Places, WithNav, WithEpoch
    <3> QED
      BY <1>1, <2>1, <3>1, <3>2, Moving
  <2>2. CASE Begin(t, "start", task[t].s, "bind", None)
    BY <1>1, <1>2, <2>2, Beginning, PlainPlaces
  <2> QED
    BY <1>4, <2>1, <2>2 DEF JudgesOldBinding
<1>5. CASE DropsOldBinding(t)
  BY <1>1, <1>2, <1>5, Beginning, PlainPlaces DEF DropsOldBinding
<1>6. CASE BindsSession(t)
  BY <1>1, <1>6, Ending, MovingPlainly, PlainPlaces DEF BindsSession
<1>7. CASE RollsBackBinding(t)
  BY <1>1, <1>7, MovingPlainly, PlainPlaces DEF RollsBackBinding
<1>8. CASE DiscardsSession(t)
  BY <1>1, <1>8, Ending DEF DiscardsSession
<1> QED
  BY <1>3, <1>4, <1>5, <1>6, <1>7, <1>8 DEF Starting

LEMMA AbortingTasks ==
  ASSUME Shape, NEW t \in Threads, Aborting(t)
  PROVE  TasksOK'
<1>1. TasksOK /\ task[t].at # "idle" /\ task[t].s \in Sessions
  BY Serving DEF Shape, Aborting, CancelsOperation, ResolvesNavigation, StopsNavigation,
                 UnbindsNavigation, AbortsSession, UnbindsSession, At
<1>2. AfterNavigation(t) => TasksOK'
  BY <1>1, Ending, MovingPlainly, PlainPlaces DEF AfterNavigation
<1>3. CASE CancelsOperation(t)
  BY <1>1, <1>3, MovingPlainly, PlainPlaces DEF CancelsOperation
<1>4. CASE ResolvesNavigation(t)
  <2> DEFINE n == NavigationOf(task[t].s)
  <2>1. CASE AfterNavigation(t)
    BY <1>2, <2>1
  <2>2. CASE n # None /\ GoWith(t, "navstop", n)
    <3>1. n \in Navs /\ n \in Args
      BY <2>2 DEF NavigationOf, Shape, DataOK, WorkerOK, Args
    <3>2. "navstop" \in Places /\ "navstop" \notin WithSession /\ "navstop" \notin WithEpoch
      BY DEF Places, WithSession, WithEpoch
    <3> QED
      BY <1>1, <2>2, <3>1, <3>2, Pointing
  <2> QED
    BY <1>4, <2>1, <2>2 DEF ResolvesNavigation
<1>5. CASE StopsNavigation(t)
  BY <1>1, <1>2, <1>5, MovingPlainly, PlainPlaces DEF StopsNavigation
<1>6. CASE UnbindsNavigation(t)
  BY <1>2, <1>6 DEF UnbindsNavigation
<1>7. CASE AbortsSession(t)
  BY <1>1, <1>7, Ending, MovingPlainly, PlainPlaces DEF AbortsSession
<1>8. CASE UnbindsSession(t)
  BY <1>1, <1>8, Ending DEF UnbindsSession
<1> QED
  BY <1>3, <1>4, <1>5, <1>6, <1>7, <1>8 DEF Aborting

LEMMA NavigatingTasks ==
  ASSUME Shape, NEW t \in Threads, Navigating(t)
  PROVE  TasksOK'
<1>1. TasksOK /\ task[t].at # "idle"
  BY DEF Shape, Navigating, LooksForOperation, LooksForNavigation, SpawnsNavigation,
         BindsNavigation, At
<1>2. CASE LooksForOperation(t)
  BY <1>1, <1>2, Ending, MovingPlainly, PlainPlaces DEF LooksForOperation
<1>3. CASE LooksForNavigation(t)
  BY <1>1, <1>3, Ending, MovingPlainly, PlainPlaces DEF LooksForNavigation
<1>4. ASSUME NEW n \in Navs, SpawnsNavigation(t, n)
      PROVE  TasksOK'
  <2>1. "attach" \in Places /\ "attach" \notin WithSession /\ "attach" \notin WithEpoch
    BY DEF Places, WithSession, WithEpoch
  <2>2. n \in Args
    BY DEF Args
  <2> QED
    BY <1>1, <1>4, <2>1, <2>2, Pointing DEF SpawnsNavigation
<1>5. CASE BindsNavigation(t)
  BY <1>1, <1>5, Ending DEF BindsNavigation
<1> QED
  BY <1>2, <1>3, <1>4, <1>5 DEF Navigating

LEMMA GettingTasks ==
  ASSUME Shape, NEW t \in Threads, GetsBackend(t)
  PROVE  TasksOK'
<1>1. TasksOK /\ task[t].at # "idle"
  BY DEF Shape, GetsBackend, At
<1>2. Wanting(t) \in Plain
  BY PlainPlaces DEF Wanting
<1> QED
  BY <1>1, <1>2, Ending, MovingPlainly DEF GetsBackend

LEMMA OperatingTasks ==
  ASSUME Shape, NEW t \in Threads, Operating(t)
  PROVE  TasksOK'
<1>1. TasksOK /\ task[t].at # "idle"
  BY DEF Shape, Operating, AcquiresOperation, FindsWorkerBusy, BackendStarted, LeavesWork,
         ResetsNavigation, ResetsLiveData, FinishesOperation, At
<1> QED
  BY <1>1, Ending, MovingPlainly, PlainPlaces
  DEF Operating, AcquiresOperation, FindsWorkerBusy, BackendStarted, LeavesWork,
      ResetsNavigation, ResetsLiveData, FinishesOperation

LEMMA ReadingTasks ==
  ASSUME Shape, NEW t \in Threads, ReadsQuality(t)
  PROVE  TasksOK'
<1>1. TasksOK /\ task[t].at # "idle" /\ task[t] \in Tasks /\ FieldsSet(task[t])
  BY DEF Shape, TasksOK, ReadsQuality, At
<1>2. tunnel.epoch \in 1..MaxEpoch /\ tunnel.blocked \in BOOLEAN
  BY DEF Shape, DataOK, WorkerOK
<1>3. CASE Ends(t)
  BY <1>1, <1>3, Ending
<1>4. CASE task' = [task EXCEPT ![t].at = "override", ![t].epoch = tunnel.epoch,
                                ![t].blocked = tunnel.blocked]
  <2> DEFINE i == [task[t] EXCEPT !.at = "override"]
             j == [i EXCEPT !.epoch = tunnel.epoch]
             k == [j EXCEPT !.blocked = tunnel.blocked]
  <2>1. /\ i \in Tasks /\ i.at = "override" /\ i.s = task[t].s
    <3>1. "override" \in Places
      BY DEF Places
    <3> QED
      BY <1>1, <3>1 DEF Tasks
  <2>2. j \in Tasks /\ j.at = "override" /\ j.s = task[t].s /\ j.epoch = tunnel.epoch
    <3>1. tunnel.epoch \in 0..MaxEpoch
      BY <1>2, SessionsAssumption
    <3> HIDE DEF i
    <3> QED
      BY <2>1, <3>1 DEF Tasks
  <2>3. k \in Tasks /\ k.at = "override" /\ k.s = task[t].s /\ k.epoch = tunnel.epoch
    <3> HIDE DEF j
    <3> QED
      BY <1>2, <2>2 DEF Tasks
  <2>4. FieldsSet(k)
    <3>1. k.at # "idle" /\ k.at \notin WithSession /\ k.at \notin WithNav
      BY <2>3 DEF WithSession, WithNav
    <3>2. k.s \in Sessions
      BY <1>1, <2>3 DEF FieldsSet
    <3>3. k.epoch # 0
      BY <1>2, <2>3
    <3> HIDE DEF k
    <3> QED
      BY <3>1, <3>2, <3>3 DEF FieldsSet
  <2>5. task' = [task EXCEPT ![t] = k]
    BY <1>1, <1>4 DEF TasksOK
  <2> HIDE DEF k
  <2> QED
    BY <1>1, <2>3, <2>4, <2>5, Setting
<1> QED
  BY <1>3, <1>4 DEF ReadsQuality

LEMMA DecidingTasks ==
  ASSUME Shape, NEW t \in Threads, Deciding(t)
  PROVE  TasksOK'
<1>1. TasksOK /\ task[t].at # "idle" /\ task[t].s \in Sessions
  BY Serving DEF Shape, Deciding, ChoosesBackend, AnswersNetworkGate, DecisionTooLate,
                 CancelsStart, ReadsQuality, ReadsOverride, SetsOverride, LooksAtSession,
                 RaisesNetworkGate, At
<1>2. "diag" \in Kinds /\ "poll" \in Kinds /\ None \in Args
  BY DEF Kinds, Args
<1>3. CASE ChoosesBackend(t) \/ DecisionTooLate(t) \/ RaisesNetworkGate(t)
  BY <1>1, <1>3, Ending DEF ChoosesBackend, DecisionTooLate, RaisesNetworkGate
<1>4. CASE AnswersNetworkGate(t) \/ LooksAtSession(t)
  BY <1>1, <1>4, Ending, MovingPlainly, PlainPlaces DEF AnswersNetworkGate, LooksAtSession
<1>5. CASE CancelsStart(t) \/ SetsOverride(t)
  BY <1>1, <1>2, <1>5, Beginning, Ending, PlainPlaces DEF CancelsStart, SetsOverride
<1>6. CASE ReadsQuality(t)
  BY <1>6, ReadingTasks
<1>7. CASE ReadsOverride(t)
  <2>1. task[t].epoch # 0
    BY <1>1, <1>7 DEF ReadsOverride, At, TasksOK, FieldsSet, WithEpoch
  <2>2. \A p \in {"grant", "verdict"} : p \in Places \ (WithSession \cup WithNav)
    BY DEF Places, WithSession, WithNav
  <2>3. GoTo(t, "grant") => TasksOK'
    BY <1>1, <2>1, <2>2, Moving
  <2>4. GoTo(t, "verdict") => TasksOK'
    BY <1>1, <2>1, <2>2, Moving
  <2>5. GoTo(t, "operation") => TasksOK'
    BY <1>1, MovingPlainly, PlainPlaces
  <2>6. Ends(t) => TasksOK'
    BY <1>1, Ending
  <2> QED
    BY <1>7, <2>3, <2>4, <2>5, <2>6 DEF ReadsOverride
<1> QED
  BY <1>3, <1>4, <1>5, <1>6, <1>7 DEF Deciding

(* No step but a thread's own changes its request.                         *)
Environment ==
  \/ \E s \in Sessions : Cleanup(s) \/ DecisionTimesOut(s)
  \/ \E n \in Navs : NavigationEnds(n) \/ NavigationReported(n)
  \/ NewTunnel \/ GradeChanges

LEMMA EnvironmentTasks ==
  ASSUME Environment
  PROVE  UNCHANGED task
  BY DEF Environment, Cleanup, DecisionTimesOut, NavigationEnds, NavigationReported,
         NewTunnel, GradeChanges

LEMMA TasksStep ==
  ASSUME Shape, [Next]_vars
  PROVE  TasksOK'
<1>1. TasksOK
  BY DEF Shape
<1>2. ASSUME NEW t \in Threads, Serve(t) PROVE TasksOK'
  BY <1>2, StartingTasks, AbortingTasks, GettingTasks, NavigatingTasks, DecidingTasks,
     OperatingTasks DEF Serve
<1>3. ASSUME NEW t \in Threads, NEW s \in Sessions, Request(t, s) PROVE TasksOK'
  BY <1>3, RequestTasks
<1>4. CASE UNCHANGED task
  BY <1>1, <1>4 DEF TasksOK
<1> QED
  BY <1>2, <1>3, <1>4, EnvironmentTasks DEF Next, Environment, vars

-----------------------------------------------------------------------------
(* Which steps change which variable.                                      *)

Recording(t) ==
    \/ DiscardsSession(t) \/ AbortsSession(t) \/ ChoosesBackend(t) \/ AnswersNetworkGate(t)
    \/ CancelsStart(t) \/ ReadsOverride(t) \/ SetsOverride(t) \/ RaisesNetworkGate(t)

Rebinding(t) ==
    \/ DropsOldBinding(t) \/ BindsSession(t) \/ RollsBackBinding(t) \/ UnbindsNavigation(t)
    \/ UnbindsSession(t) \/ GetsBackend(t) \/ BindsNavigation(t) \/ ResetsNavigation(t)
    \/ ResetsLiveData(t)

Slotting(t) == CancelsOperation(t) \/ AcquiresOperation(t) \/ FinishesOperation(t)

Flying(t) == StopsNavigation(t) \/ \E n \in Navs : SpawnsNavigation(t, n)

LEMMA ServeFootprint ==
  ASSUME NEW t \in Threads, Serve(t)
  PROVE  /\ Recording(t) \/ UNCHANGED orchestrator
         /\ Rebinding(t) \/ UNCHANGED binding
         /\ Slotting(t) \/ UNCHANGED operation
         /\ Flying(t) \/ UNCHANGED navigation
         /\ UNCHANGED tunnel
<1> USE DEF orchestrator, worker, Recording, Rebinding, Slotting, Flying
<1>1. CASE Starting(t)
  BY <1>1 DEF Starting, ReadsOldBinding, JudgesOldBinding, DropsOldBinding,
              BindsSession, RollsBackBinding, DiscardsSession
<1>2. CASE Aborting(t)
  BY <1>2 DEF Aborting, CancelsOperation, ResolvesNavigation, StopsNavigation,
              UnbindsNavigation, AbortsSession, UnbindsSession
<1>3. CASE GetsBackend(t)
  BY <1>3 DEF GetsBackend
<1>4. CASE Navigating(t)
  BY <1>4 DEF Navigating, LooksForOperation, LooksForNavigation, SpawnsNavigation,
              BindsNavigation
<1>5. CASE Deciding(t)
  BY <1>5 DEF Deciding, ChoosesBackend, AnswersNetworkGate, DecisionTooLate, CancelsStart,
              ReadsQuality, ReadsOverride, SetsOverride, LooksAtSession, RaisesNetworkGate
<1>6. CASE Operating(t)
  BY <1>6 DEF Operating, AcquiresOperation, FindsWorkerBusy, BackendStarted, LeavesWork,
              ResetsNavigation, ResetsLiveData, FinishesOperation
<1> QED
  BY <1>1, <1>2, <1>3, <1>4, <1>5, <1>6 DEF Serve

LEMMA RequestFootprint ==
  ASSUME NEW t \in Threads, NEW s \in Sessions, Request(t, s)
  PROVE  /\ StartSession(t, s) \/ UNCHANGED orchestrator
         /\ UNCHANGED <<worker, tunnel>>
         /\ At(t, "idle")
  BY DEF Request, StartSession, AbortRequest, NavAbortRequest, NavigateRequest,
         ClearDtcsRequest, StartDiagnosticsRequest, DecisionRequest, PollRequest,
         orchestrator, worker

LEMMA Footprint ==
  ASSUME [Next]_vars
  PROVE  /\ \/ UNCHANGED orchestrator
            \/ \E t \in Threads : Recording(t)
            \/ \E t \in Threads, s \in Sessions : StartSession(t, s)
            \/ \E s \in Sessions : Cleanup(s) \/ DecisionTimesOut(s)
         /\ \/ UNCHANGED binding
            \/ \E t \in Threads : Rebinding(t)
            \/ \E n \in Navs : NavigationReported(n)
         /\ UNCHANGED operation \/ \E t \in Threads : Slotting(t)
         /\ \/ UNCHANGED navigation
            \/ \E t \in Threads : Flying(t)
            \/ \E n \in Navs : NavigationEnds(n)
         /\ UNCHANGED tunnel \/ NewTunnel \/ GradeChanges
<1>1. ASSUME NEW t \in Threads, Serve(t)
      PROVE  /\ Recording(t) \/ UNCHANGED orchestrator
             /\ Rebinding(t) \/ UNCHANGED binding
             /\ Slotting(t) \/ UNCHANGED operation
             /\ Flying(t) \/ UNCHANGED navigation
             /\ UNCHANGED tunnel
  BY <1>1, ServeFootprint
<1>2. ASSUME NEW t \in Threads, NEW s \in Sessions, Request(t, s)
      PROVE  /\ StartSession(t, s) \/ UNCHANGED orchestrator
             /\ UNCHANGED <<binding, operation, navigation, tunnel>>
  BY <1>2, RequestFootprint DEF worker
<1>3. ASSUME NEW s \in Sessions, Cleanup(s) \/ DecisionTimesOut(s)
      PROVE  UNCHANGED <<binding, operation, navigation, tunnel>>
  BY <1>3 DEF Cleanup, DecisionTimesOut, worker
<1>4. ASSUME NEW n \in Navs, NavigationEnds(n)
      PROVE  UNCHANGED <<orchestrator, binding, operation, tunnel>>
  BY <1>4 DEF NavigationEnds
<1>5. ASSUME NEW n \in Navs, NavigationReported(n)
      PROVE  UNCHANGED <<orchestrator, operation, navigation, tunnel>>
  BY <1>5 DEF NavigationReported
<1>6. NewTunnel \/ GradeChanges => UNCHANGED <<orchestrator, worker>>
  BY DEF NewTunnel, GradeChanges
<1>7. CASE \E t \in Threads : Serve(t)
  BY <1>1, <1>7
<1>8. CASE \E t \in Threads, s \in Sessions : Request(t, s)
  BY <1>2, <1>8
<1>9. CASE \E s \in Sessions : Cleanup(s) \/ DecisionTimesOut(s)
  BY <1>3, <1>9
<1>10. CASE \E n \in Navs : NavigationEnds(n) \/ NavigationReported(n)
  BY <1>4, <1>5, <1>10
<1>11. CASE NewTunnel \/ GradeChanges
  BY <1>6, <1>11 DEF worker
<1>12. CASE UNCHANGED vars
  BY <1>12 DEF vars, worker
<1> QED
  BY <1>7, <1>8, <1>9, <1>10, <1>11, <1>12 DEF Next

-----------------------------------------------------------------------------
(* Type correctness.                                                       *)

LEMMA GateValues ==
  /\ NoGate \in Gates
  /\ gates \in 0..MaxGates /\ gates < MaxGates =>
       /\ gates + 1 \in 0..MaxGates
       /\ [id |-> gates + 1, kind |-> "backend"] \in Gates
       /\ [id |-> gates + 1, kind |-> "network"] \in Gates
  BY SessionsAssumption DEF Gates, NoGate

LEMMA Raising ==
  ASSUME OrchestratorOK, NEW s \in Sessions, NEW kind \in {"backend", "network"},
         RaiseGate(s, kind)
  PROVE  /\ status' \in [Sessions -> Statuses]
         /\ gate' \in [Sessions -> Gates]
         /\ gates' \in 0..MaxGates
<1>1. [id |-> gates + 1, kind |-> kind] \in Gates /\ gates + 1 \in 0..MaxGates
  BY GateValues DEF OrchestratorOK, RaiseGate
<1>2. "awaiting" \in Statuses
  BY DEF Statuses, Alive
<1> QED
  BY <1>1, <1>2 DEF OrchestratorOK, RaiseGate

LEMMA OrchestratorStep ==
  ASSUME Shape, [Next]_vars
  PROVE  OrchestratorOK'
<1>1. OrchestratorOK /\ TasksOK /\ NoGate \in Gates
  BY GateValues DEF Shape, DataOK
<1>2. {"running", "aborted", "gone"} \subseteq Statuses /\ 0 \in 0..MaxEpoch
  BY SessionsAssumption DEF Statuses, Alive
<1>3. CASE UNCHANGED orchestrator
  BY <1>1, <1>3 DEF OrchestratorOK, orchestrator
<1>4. ASSUME NEW t \in Threads, Recording(t) PROVE OrchestratorOK'
  <2>1. task[t].s \in Sessions /\ task[t].epoch \in 0..MaxEpoch
    BY <1>1, <1>4, Serving
    DEF Recording, DiscardsSession, AbortsSession, ChoosesBackend, AnswersNetworkGate,
        CancelsStart, ReadsOverride, SetsOverride, RaisesNetworkGate, At, TasksOK, Tasks
  <2>2. CASE DiscardsSession(t)
    BY <1>1, <1>2, <2>1, <2>2 DEF DiscardsSession, OrchestratorOK
  <2>3. CASE AbortsSession(t)
    BY <1>1, <1>2, <2>1, <2>3 DEF AbortsSession, OrchestratorOK
  <2>4. CASE ChoosesBackend(t)
    BY <1>1, <1>2, <2>1, <2>4 DEF ChoosesBackend, Resolve, OrchestratorOK
  <2>5. CASE AnswersNetworkGate(t)
    BY <1>1, <1>2, <2>1, <2>5 DEF AnswersNetworkGate, Resolve, OrchestratorOK
  <2>6. CASE CancelsStart(t)
    BY <1>1, <1>2, <2>1, <2>6 DEF CancelsStart, OrchestratorOK
  <2>7. CASE ReadsOverride(t)
    BY <1>1, <1>2, <2>1, <2>7 DEF ReadsOverride, OrchestratorOK
  <2>8. CASE SetsOverride(t)
    <3>1. task[t].epoch \in 1..MaxEpoch
      <4>1. task[t].epoch # 0
        BY <1>1, <2>8 DEF SetsOverride, At, TasksOK, FieldsSet, WithEpoch
      <4> QED
        BY <2>1, <4>1, SessionsAssumption
    <3> QED
      BY <1>1, <2>1, <2>8, <3>1 DEF SetsOverride, OrchestratorOK
  <2>9. CASE RaisesNetworkGate(t)
    BY <1>1, <2>1, <2>9, Raising DEF RaisesNetworkGate, OrchestratorOK
  <2> QED
    BY <1>4, <2>2, <2>3, <2>4, <2>5, <2>6, <2>7, <2>8, <2>9 DEF Recording
<1>5. ASSUME NEW t \in Threads, NEW s \in Sessions, StartSession(t, s)
      PROVE  OrchestratorOK'
  <2>1. CASE RaiseGate(s, "backend") /\ UNCHANGED backend
    BY <1>1, <1>5, <2>1, Raising DEF StartSession, OrchestratorOK
  <2>2. CASE /\ status' = [status EXCEPT ![s] = "running"]
             /\ backend' = [backend EXCEPT ![s] = TRUE]
             /\ UNCHANGED <<gate, gates>>
    BY <1>1, <1>2, <1>5, <2>2 DEF StartSession, OrchestratorOK
  <2> QED
    BY <1>5, <2>1, <2>2 DEF StartSession
<1>6. ASSUME NEW s \in Sessions, Cleanup(s) \/ DecisionTimesOut(s)
      PROVE  OrchestratorOK'
  BY <1>1, <1>2, <1>6 DEF Cleanup, DecisionTimesOut, Resolve, OrchestratorOK
<1> QED
  BY <1>3, <1>4, <1>5, <1>6, Footprint

LEMMA WorkerStep ==
  ASSUME Shape, [Next]_vars
  PROVE  WorkerOK'
<1> DEFINE Bindings == [session: Sessions \cup {None}, nav: Navs \cup {None}]
           Slots == Operations \cup {None}
           Flights == [of: Sessions \cup {None}, state: {"unborn", "running", "aborted", "over"}]
<1>1. TasksOK /\ WorkerOK
  BY DEF Shape, DataOK
<1>2. binding' \in Bindings
  <2>1. binding \in Bindings /\ Unbound \in Bindings
    BY <1>1 DEF WorkerOK, Unbound
  <2>2. \A s \in Sessions : Bound(s) \in Bindings
    BY <2>1 DEF Bound
  <2>3. \A s : ClearBusinessSession(s) => binding' \in Bindings
    BY <2>1 DEF ClearBusinessSession
  <2>4. \A s : ClearNavigation(s) => binding' \in Bindings
    BY <2>1 DEF ClearNavigation
  <2>5. ASSUME NEW t \in Threads, Rebinding(t) PROVE binding' \in Bindings
    <3>1. task[t].s \in Sessions
      BY <1>1, <2>5, Serving
      DEF Rebinding, DropsOldBinding, BindsSession, RollsBackBinding, UnbindsNavigation,
          UnbindsSession, GetsBackend, BindsNavigation, ResetsNavigation, ResetsLiveData, At
    <3>2. CASE BindsNavigation(t)
      <4>1. task[t].arg \in Navs
        BY <1>1, <3>2 DEF BindsNavigation, At, TasksOK, FieldsSet, WithNav
      <4> QED
        BY <2>1, <3>1, <3>2, <4>1 DEF BindsNavigation
    <3>3. CASE BindsSession(t) \/ GetsBackend(t) \/ ResetsLiveData(t)
      BY <2>1, <2>2, <3>1, <3>3 DEF BindsSession, GetsBackend, ResetsLiveData
    <3>4. CASE DropsOldBinding(t) \/ RollsBackBinding(t) \/ UnbindsSession(t)
      BY <2>3, <3>4 DEF DropsOldBinding, RollsBackBinding, UnbindsSession
    <3>5. CASE UnbindsNavigation(t) \/ ResetsNavigation(t)
      BY <2>4, <3>5 DEF UnbindsNavigation, ResetsNavigation
    <3> QED
      BY <2>5, <3>2, <3>3, <3>4, <3>5 DEF Rebinding
  <2>6. \A n \in Navs : NavigationReported(n) => binding' \in Bindings
    BY <2>4 DEF NavigationReported
  <2> QED
    BY <2>1, <2>5, <2>6, Footprint
<1>3. operation' \in Slots
  <2>1. operation \in Slots
    BY <1>1 DEF WorkerOK
  <2>2. ASSUME NEW t \in Threads, CancelsOperation(t) PROVE operation' \in Slots
    <3>1. CASE operation # None
      <4>1. operation \in Operations
        BY <2>1, <3>1
      <4>2. [operation EXCEPT !.cancelled = TRUE] \in Operations
        BY <4>1 DEF Operations
      <4> QED
        BY <2>1, <2>2, <4>2 DEF CancelsOperation
    <3>2. CASE operation = None
      BY <2>2, <3>2 DEF CancelsOperation
    <3> QED
      BY <3>1, <3>2
  <2>3. ASSUME NEW t \in Threads, AcquiresOperation(t) PROVE operation' \in Slots
    <3>1. task[t].s \in Sessions
      BY <1>1, <2>3, Serving DEF AcquiresOperation, At
    <3> QED
      BY <2>3, <3>1 DEF AcquiresOperation, StartOperation, Operations
  <2>4. ASSUME NEW t \in Threads, FinishesOperation(t) PROVE operation' \in Slots
    BY <2>1, <2>4 DEF FinishesOperation
  <2> QED
    BY <2>1, <2>2, <2>3, <2>4, Footprint DEF Slotting
<1>4. navigation' \in [Navs -> Flights]
  <2>1. navigation \in [Navs -> Flights]
    BY <1>1 DEF WorkerOK
  <2>2. ASSUME NEW t \in Threads, StopsNavigation(t) PROVE navigation' \in [Navs -> Flights]
    <3>1. task[t].arg \in Navs
      BY <1>1, <2>2 DEF StopsNavigation, At, TasksOK, FieldsSet, WithNav
    <3> QED
      BY <2>1, <2>2, <3>1 DEF StopsNavigation
  <2>3. ASSUME NEW t \in Threads, NEW n \in Navs, SpawnsNavigation(t, n)
        PROVE  navigation' \in [Navs -> Flights]
    <3>1. task[t].s \in Sessions
      BY <1>1, <2>3, Serving DEF SpawnsNavigation, At
    <3> QED
      BY <2>1, <2>3, <3>1 DEF SpawnsNavigation
  <2>4. ASSUME NEW n \in Navs, NavigationEnds(n) PROVE navigation' \in [Navs -> Flights]
    BY <2>1, <2>4 DEF NavigationEnds
  <2> QED
    BY <2>1, <2>2, <2>3, <2>4, Footprint DEF Flying
<1>5. tunnel' \in [epoch: 1..MaxEpoch, blocked: BOOLEAN]
  <2>1. tunnel \in [epoch: 1..MaxEpoch, blocked: BOOLEAN]
    BY <1>1 DEF WorkerOK
  <2>2. CASE NewTunnel
    <3>1. tunnel.epoch + 1 \in 1..MaxEpoch
      BY <2>1, <2>2, SessionsAssumption DEF NewTunnel
    <3> QED
      BY <2>2, <3>1 DEF NewTunnel
  <2>3. CASE GradeChanges
    <3>1. (~tunnel.blocked) \in BOOLEAN
      OBVIOUS
    <3> QED
      BY <2>1, <2>3, <3>1 DEF GradeChanges
  <2> QED
    BY <2>1, <2>2, <2>3, Footprint
<1> QED
  BY <1>2, <1>3, <1>4, <1>5 DEF WorkerOK

LEMMA ShapeInit == Init => Shape
<1> SUFFICES ASSUME Init PROVE Shape
  OBVIOUS
<1>1. OrchestratorOK
  BY GateValues, SessionsAssumption DEF Init, OrchestratorOK, Statuses
<1>2. WorkerOK
  BY SessionsAssumption DEF Init, WorkerOK, Unbound
<1>3. TasksOK
  BY IdleShape DEF Init, TasksOK
<1> QED
  BY <1>1, <1>2, <1>3 DEF Shape, DataOK

LEMMA ShapeStep ==
  ASSUME Shape, [Next]_vars
  PROVE  Shape'
  BY TasksStep, OrchestratorStep, WorkerStep DEF Shape, DataOK

(* Every reachable state has its shape: the types, and the fields that the *)
(* place of a request says are set.                                        *)
THEOREM ShapeCorrect == Spec => []Shape
<1>1. Shape /\ [Next]_vars => Shape'
  BY ShapeStep
<1> QED
  BY ShapeInit, <1>1, PTL DEF Spec

(* Every variable of SessionRuntime keeps its type, in particular an       *)
(* override and the epoch it was read with are epochs the tunnel has had.  *)
THEOREM TypeCorrect == Spec => []TypeOK
  BY ShapeCorrect, ShapeIsTyped, PTL

-----------------------------------------------------------------------------
(* Decisions and the end of sessions.                                      *)

LEMMA GateStep ==
  ASSUME Shape, GateMatchesStatus, [Next]_vars
  PROVE  GateMatchesStatus'
<1>1. OrchestratorOK /\ TasksOK
  BY DEF Shape, DataOK
<1>2. NoGate.id = 0 /\ \A k : [id |-> gates + 1, kind |-> k].id # 0
  BY <1>1, SessionsAssumption DEF NoGate, OrchestratorOK
<1>3. CASE UNCHANGED <<status, gate>>
  BY <1>3 DEF GateMatchesStatus
<1>4. ASSUME NEW s \in Sessions, Resolve(s) PROVE GateMatchesStatus'
  BY <1>1, <1>2, <1>4 DEF Resolve, GateMatchesStatus, OrchestratorOK
<1>5. ASSUME NEW s \in Sessions, NEW kind, RaiseGate(s, kind) PROVE GateMatchesStatus'
  BY <1>1, <1>2, <1>5 DEF RaiseGate, GateMatchesStatus, OrchestratorOK
<1>6. ASSUME NEW t \in Threads, Recording(t) PROVE GateMatchesStatus'
  <2>1. task[t].s \in Sessions
    BY <1>1, <1>6, Serving
    DEF Recording, DiscardsSession, AbortsSession, ChoosesBackend, AnswersNetworkGate,
        CancelsStart, ReadsOverride, SetsOverride, RaisesNetworkGate, At
  <2>2. CASE DiscardsSession(t)
    BY <1>1, <1>2, <2>1, <2>2 DEF DiscardsSession, GateMatchesStatus, OrchestratorOK
  <2>3. CASE AbortsSession(t)
    BY <1>1, <1>2, <1>3, <2>1, <2>3 DEF AbortsSession, GateMatchesStatus, OrchestratorOK
  <2>4. CASE ChoosesBackend(t) \/ AnswersNetworkGate(t)
    BY <1>4, <2>1, <2>4 DEF ChoosesBackend, AnswersNetworkGate
  <2>5. CASE CancelsStart(t) \/ ReadsOverride(t) \/ SetsOverride(t)
    BY <1>3, <2>5 DEF CancelsStart, ReadsOverride, SetsOverride
  <2>6. CASE RaisesNetworkGate(t)
    BY <1>3, <1>5, <2>1, <2>6 DEF RaisesNetworkGate
  <2> QED
    BY <1>6, <2>2, <2>3, <2>4, <2>5, <2>6 DEF Recording
<1>7. ASSUME NEW t \in Threads, NEW s \in Sessions, StartSession(t, s)
      PROVE  GateMatchesStatus'
  <2>1. CASE status' = [status EXCEPT ![s] = "running"] /\ UNCHANGED gate
    BY <1>1, <1>7, <2>1 DEF StartSession, GateMatchesStatus, OrchestratorOK
  <2> QED
    BY <1>5, <1>7, <2>1 DEF StartSession
<1>8. ASSUME NEW s \in Sessions, Cleanup(s) \/ DecisionTimesOut(s)
      PROVE  GateMatchesStatus'
  <2>1. CASE Cleanup(s)
    BY <1>1, <2>1 DEF Cleanup, GateMatchesStatus, OrchestratorOK
  <2>2. CASE DecisionTimesOut(s)
    BY <1>4, <2>2 DEF DecisionTimesOut
  <2> QED
    BY <1>8, <2>1, <2>2
<1> QED
  BY <1>3, <1>6, <1>7, <1>8, Footprint DEF orchestrator

(* A session has a pending decision exactly while it awaits one, whatever  *)
(* answers, time-outs, aborts and rollbacks do to it at the same time.     *)
THEOREM GatesMatch == Spec => []GateMatchesStatus
<1>1. Init => GateMatchesStatus
  BY DEF Init, GateMatchesStatus, NoGate
<1>2. Shape /\ GateMatchesStatus /\ [Next]_vars => GateMatchesStatus'
  BY GateStep
<1> QED
  BY <1>1, <1>2, ShapeCorrect, PTL DEF Spec

StatusMoves(s) ==
    /\ status[s] = "aborted" => status'[s] \in {"aborted", "gone"}
    /\ status[s] = "gone" => status'[s] = "gone"
    /\ status[s] # "new" => status'[s] # "new"
    /\ status'[s] \in Active => status[s] \in Active \cup {"new"}

LEMMA StatusStep ==
  ASSUME Shape, [Next]_vars
  PROVE  \A s \in Sessions : StatusMoves(s)
<1>1. OrchestratorOK /\ TasksOK
  BY DEF Shape, DataOK
<1>2. CASE UNCHANGED status
  BY <1>2 DEF StatusMoves
<1>3. ASSUME NEW r \in Sessions, status[r] \in Active,
             status' = [status EXCEPT ![r] = "running"]
             \/ status' = [status EXCEPT ![r] = "awaiting"]
             \/ status' = [status EXCEPT ![r] = "aborted"]
      PROVE  \A s \in Sessions : StatusMoves(s)
  BY <1>1, <1>3 DEF StatusMoves, Active, OrchestratorOK
<1>4. ASSUME NEW r \in Sessions, status' = [status EXCEPT ![r] = "gone"]
      PROVE  \A s \in Sessions : StatusMoves(s)
  BY <1>1, <1>4 DEF StatusMoves, Active, OrchestratorOK
<1>5. ASSUME NEW t \in Threads, Recording(t) PROVE \A s \in Sessions : StatusMoves(s)
  <2>1. task[t].s \in Sessions
    BY <1>1, <1>5, Serving
    DEF Recording, DiscardsSession, AbortsSession, ChoosesBackend, AnswersNetworkGate,
        CancelsStart, ReadsOverride, SetsOverride, RaisesNetworkGate, At
  <2>2. CASE DiscardsSession(t)
    BY <1>4, <2>1, <2>2 DEF DiscardsSession
  <2>3. CASE AbortsSession(t)
    BY <1>2, <1>3, <2>1, <2>3 DEF AbortsSession
  <2>4. CASE ChoosesBackend(t) \/ AnswersNetworkGate(t)
    BY <1>3, <2>1, <2>4 DEF ChoosesBackend, AnswersNetworkGate, Pending, Resolve, Active
  <2>5. CASE CancelsStart(t) \/ ReadsOverride(t) \/ SetsOverride(t)
    BY <1>2, <2>5 DEF CancelsStart, ReadsOverride, SetsOverride
  <2>6. CASE RaisesNetworkGate(t)
    BY <1>2, <1>3, <2>1, <2>6 DEF RaisesNetworkGate, RaiseGate, Active
  <2> QED
    BY <1>5, <2>2, <2>3, <2>4, <2>5, <2>6 DEF Recording
<1>6. ASSUME NEW t \in Threads, NEW r \in Sessions, StartSession(t, r)
      PROVE  \A s \in Sessions : StatusMoves(s)
  <2>1. status[r] = "new" /\ (\/ status' = [status EXCEPT ![r] = "running"]
                              \/ status' = [status EXCEPT ![r] = "awaiting"])
    BY <1>6 DEF StartSession, RaiseGate
  <2> QED
    BY <1>1, <2>1 DEF StatusMoves, Active, OrchestratorOK
<1>7. ASSUME NEW r \in Sessions, Cleanup(r) \/ DecisionTimesOut(r)
      PROVE  \A s \in Sessions : StatusMoves(s)
  BY <1>3, <1>4, <1>7 DEF Cleanup, DecisionTimesOut, Resolve, Active
<1> QED
  BY <1>2, <1>5, <1>6, <1>7, Footprint DEF orchestrator

(* No step brings back a session that was aborted, nor one that is no      *)
(* longer kept.                                                            *)
THEOREM EndsForGood == Spec => SessionsEndForGood
<1>1. ASSUME Shape, [Next]_vars
      PROVE  [\A s \in Sessions :
                /\ status[s] = "aborted" => status'[s] \in {"aborted", "gone"}
                /\ status[s] = "gone" => status'[s] = "gone"]_vars
  BY <1>1, StatusStep DEF StatusMoves
<1> QED
  BY <1>1, ShapeCorrect, PTL DEF Spec, SessionsEndForGood

-----------------------------------------------------------------------------
(* A step is one thread's, and moves that thread's request as it says.     *)

LEMMA Moved ==
  ASSUME TasksOK, NEW t \in Threads, NEW p, GoTo(t, p)
  PROVE  /\ task'[t].at = p /\ task'[t].req = task[t].req /\ task'[t].s = task[t].s
         /\ task'[t].arg = task[t].arg /\ task'[t].epoch = task[t].epoch
         /\ task'[t].blocked = task[t].blocked
<1>1. task[t] \in Tasks /\ task'[t] = [task[t] EXCEPT !.at = p]
  BY DEF TasksOK, GoTo
<1> QED
  BY <1>1 DEF Tasks

LEMMA Pointed ==
  ASSUME TasksOK, NEW t \in Threads, NEW p, NEW x,
         GoWith(t, p, x)
  PROVE  /\ task'[t].at = p /\ task'[t].arg = x
         /\ task'[t].req = task[t].req /\ task'[t].s = task[t].s
<1> DEFINE j == [task[t] EXCEPT !.at = p]
           k == [j EXCEPT !.arg = x]
<1>1. task[t] \in Tasks /\ task'[t] = k
  BY DEF TasksOK, GoWith
<1>2. j = [req |-> task[t].req, at |-> p, s |-> task[t].s, arg |-> task[t].arg,
           epoch |-> task[t].epoch, blocked |-> task[t].blocked]
  BY <1>1 DEF Tasks
<1> HIDE DEF j
<1>3. k = [req |-> task[t].req, at |-> p, s |-> task[t].s, arg |-> x,
           epoch |-> task[t].epoch, blocked |-> task[t].blocked]
  BY <1>2
<1> QED
  BY <1>1, <1>3

LEMMA Ended ==
  ASSUME TasksOK, NEW t \in Threads, Ends(t)
  PROVE  task'[t].at = "idle" /\ task'[t].req = "none"
  BY DEF TasksOK, Ends, Idle

LEMMA Begun ==
  ASSUME TasksOK, NEW t \in Threads, NEW q, NEW r, NEW p, NEW x, Begin(t, q, r, p, x)
  PROVE  task'[t] = [req |-> q, at |-> p, s |-> r, arg |-> x, epoch |-> 0, blocked |-> FALSE]
  BY DEF TasksOK, Begin

LEMMA ReadQuality ==
  ASSUME Shape, NEW t \in Threads, ReadsQuality(t)
  PROVE  \/ Ends(t)
         \/ task'[t].at = "override" /\ task'[t].req = task[t].req /\ task'[t].s = task[t].s
<1>1. task[t] \in Tasks
  BY DEF Shape, TasksOK
<1>2. CASE task' = [task EXCEPT ![t].at = "override", ![t].epoch = tunnel.epoch,
                                ![t].blocked = tunnel.blocked]
  <2> DEFINE i == [task[t] EXCEPT !.at = "override"]
             j == [i EXCEPT !.epoch = tunnel.epoch]
             k == [j EXCEPT !.blocked = tunnel.blocked]
  <2>1. task'[t] = k
    BY <1>1, <1>2 DEF Shape, TasksOK
  <2>2. i = [req |-> task[t].req, at |-> "override", s |-> task[t].s, arg |-> task[t].arg,
             epoch |-> task[t].epoch, blocked |-> task[t].blocked]
    BY <1>1 DEF Tasks
  <2>3. j = [req |-> task[t].req, at |-> "override", s |-> task[t].s, arg |-> task[t].arg,
             epoch |-> tunnel.epoch, blocked |-> task[t].blocked]
    <3> HIDE DEF i
    <3> QED
      BY <2>2
  <2>4. k = [req |-> task[t].req, at |-> "override", s |-> task[t].s, arg |-> task[t].arg,
             epoch |-> tunnel.epoch, blocked |-> tunnel.blocked]
    <3> HIDE DEF j
    <3> QED
      BY <2>3
  <2> QED
    BY <2>1, <2>4
<1> QED
  BY <1>2 DEF ReadsQuality

Acts(t) == Serve(t) \/ \E s \in Sessions : Request(t, s)

LEMMA OtherThreads ==
  ASSUME TasksOK, NEW t \in Threads, Acts(t)
  PROVE  \A u \in Threads \ {t} : task'[u] = task[u]
<1> USE DEF TasksOK, GoTo, GoWith, Ends, Begin
<1>1. CASE Starting(t)
  BY <1>1 DEF Starting, ReadsOldBinding, JudgesOldBinding, DropsOldBinding,
              BindsSession, RollsBackBinding, DiscardsSession
<1>2. CASE Aborting(t)
  BY <1>2 DEF Aborting, CancelsOperation, ResolvesNavigation, StopsNavigation,
              UnbindsNavigation, AbortsSession, UnbindsSession, AfterNavigation
<1>3. CASE GetsBackend(t)
  BY <1>3 DEF GetsBackend
<1>4. CASE Navigating(t)
  BY <1>4 DEF Navigating, LooksForOperation, LooksForNavigation, SpawnsNavigation,
              BindsNavigation
<1>5. CASE Deciding(t)
  <2>1. CASE ReadsOverride(t)
    BY <2>1 DEF ReadsOverride
  <2>2. CASE ReadsQuality(t)
    BY <2>2 DEF ReadsQuality
  <2> QED
    BY <1>5, <2>1, <2>2
    DEF Deciding, ChoosesBackend, AnswersNetworkGate, DecisionTooLate, CancelsStart,
        SetsOverride, LooksAtSession, RaisesNetworkGate
<1>6. CASE Operating(t)
  BY <1>6 DEF Operating, AcquiresOperation, FindsWorkerBusy, BackendStarted, LeavesWork,
              ResetsNavigation, ResetsLiveData, FinishesOperation
<1>7. ASSUME NEW s \in Sessions, Request(t, s)
      PROVE  \A u \in Threads \ {t} : task'[u] = task[u]
  BY <1>7 DEF Request, StartSession, AbortRequest, NavAbortRequest, NavigateRequest,
              ClearDtcsRequest, StartDiagnosticsRequest, DecisionRequest, PollRequest
<1> QED
  BY <1>1, <1>2, <1>3, <1>4, <1>5, <1>6, <1>7 DEF Acts, Serve

LEMMA StepOfOne ==
  ASSUME [Next]_vars
  PROVE  UNCHANGED task \/ \E t \in Threads : Acts(t)
  BY EnvironmentTasks DEF Next, Acts, Environment, vars

-----------------------------------------------------------------------------
(* Where each kind of step is found, and where it leads.                   *)

StartPlaces == {"stale", "judge", "drop", "bind", "unclear", "discard"}
AbortPlaces == {"cancel", "navid", "navstop", "navclear", "end", "unbind"}
NavPlaces == {"busy", "free", "spawn", "attach"}
DecidePlaces == {"answer", "refuse", "quality", "override", "grant", "look", "verdict"}
Inside == {"work", "reset", "live", "finish"}

Onward(t, places) ==
    \/ Ends(t)
    \/ task'[t].at \in places /\ task'[t].req = task[t].req /\ task'[t].s = task[t].s

LEMMA StartingCourse ==
  ASSUME Shape, NEW t \in Threads, Starting(t)
  PROVE  /\ task[t].at \in StartPlaces
         /\ \/ Onward(t, StartPlaces \ {"stale"})
            \/ task'[t].at = "bind" /\ task'[t].req = "start" /\ task'[t].s = task[t].s
<1>1. TasksOK
  BY DEF Shape
<1>2. CASE ReadsOldBinding(t)
  <2>1. \/ GoTo(t, "bind")
        \/ GoWith(t, "judge", binding.session)
    BY <1>2 DEF ReadsOldBinding
  <2>2. \/ task'[t].at \in {"bind", "judge"} /\ task'[t].req = task[t].req
           /\ task'[t].s = task[t].s
    BY <1>1, <2>1, Moved, Pointed
  <2> QED
    BY <1>2, <2>2 DEF ReadsOldBinding, At, Onward, StartPlaces
<1>3. CASE JudgesOldBinding(t) \/ DropsOldBinding(t)
  <2>1. GoTo(t, "drop") \/ Begin(t, "start", task[t].s, "bind", None)
    BY <1>3 DEF JudgesOldBinding, DropsOldBinding
  <2>2. Begin(t, "start", task[t].s, "bind", None) =>
          task'[t].at = "bind" /\ task'[t].req = "start" /\ task'[t].s = task[t].s
    BY <1>1 DEF TasksOK, Begin
  <2> QED
    BY <1>1, <1>3, <2>1, <2>2, Moved
    DEF JudgesOldBinding, DropsOldBinding, At, Onward, StartPlaces
<1>4. CASE BindsSession(t) \/ RollsBackBinding(t) \/ DiscardsSession(t)
  BY <1>1, <1>4, Moved DEF BindsSession, RollsBackBinding, DiscardsSession, At, Onward, StartPlaces
<1> QED
  BY <1>2, <1>3, <1>4 DEF Starting

LEMMA AbortingCourse ==
  ASSUME Shape, NEW t \in Threads, Aborting(t)
  PROVE  /\ task[t].at \in AbortPlaces
         /\ Onward(t, AbortPlaces \ {"cancel", "unbind"}) \/ (AbortsSession(t) /\ GoTo(t, "unbind"))
<1>1. TasksOK
  BY DEF Shape
<1>2. CASE ResolvesNavigation(t)
  <2>1. \/ AfterNavigation(t)
        \/ GoWith(t, "navstop", NavigationOf(task[t].s))
    BY <1>2 DEF ResolvesNavigation
  <2>2. CASE AfterNavigation(t)
    BY <1>1, <1>2, <2>2, Moved DEF ResolvesNavigation, AfterNavigation, At, Onward, AbortPlaces
  <2>3. CASE GoWith(t, "navstop", NavigationOf(task[t].s))
    <3>1. task'[t].at = "navstop" /\ task'[t].req = task[t].req /\ task'[t].s = task[t].s
      BY <1>1, <2>3, Pointed
    <3> QED
      BY <1>2, <3>1 DEF ResolvesNavigation, At, Onward, AbortPlaces
  <2> QED
    BY <2>1, <2>2, <2>3
<1>3. CASE CancelsOperation(t) \/ StopsNavigation(t) \/ UnbindsNavigation(t)
  BY <1>1, <1>3, Moved
  DEF CancelsOperation, StopsNavigation, UnbindsNavigation, AfterNavigation, At, Onward, AbortPlaces
<1>4. CASE AbortsSession(t) \/ UnbindsSession(t)
  BY <1>1, <1>4, Moved DEF AbortsSession, UnbindsSession, At, Onward, AbortPlaces
<1> QED
  BY <1>2, <1>3, <1>4 DEF Aborting

LEMMA GettingCourse ==
  ASSUME Shape, NEW t \in Threads, GetsBackend(t)
  PROVE  task[t].at = "backend" /\ (Ends(t) \/ GoTo(t, Wanting(t)))
  BY DEF GetsBackend, At

LEMMA NavigatingCourse ==
  ASSUME Shape, NEW t \in Threads, Navigating(t)
  PROVE  task[t].at \in NavPlaces /\ Onward(t, NavPlaces \cup {"operation"})
<1>1. TasksOK
  BY DEF Shape
<1>2. ASSUME NEW n \in Navs, SpawnsNavigation(t, n)
      PROVE  task[t].at \in NavPlaces /\ Onward(t, NavPlaces)
  BY <1>1, <1>2, Pointed DEF SpawnsNavigation, At, Onward, NavPlaces
<1>3. CASE LooksForOperation(t) \/ LooksForNavigation(t) \/ BindsNavigation(t)
  BY <1>1, <1>3, Moved
  DEF LooksForOperation, LooksForNavigation, BindsNavigation, At, Onward, NavPlaces
<1> QED
  BY <1>2, <1>3 DEF Navigating, Onward

LEMMA DecidingCourse ==
  ASSUME Shape, NEW t \in Threads, Deciding(t)
  PROVE  /\ task[t].at \in DecidePlaces
         /\ \/ Onward(t, DecidePlaces \cup {"operation"})
            \/ task'[t].at = "quality" /\ task'[t].req = "poll" /\ task'[t].s = task[t].s
            \/ task'[t].at = "look" /\ task'[t].req = "diag" /\ task'[t].s = task[t].s
<1>1. TasksOK
  BY DEF Shape
<1>2. CASE ReadsOverride(t)
  <2>1. \/ Ends(t) \/ GoTo(t, "grant") \/ GoTo(t, "verdict") \/ GoTo(t, "operation")
    BY <1>2 DEF ReadsOverride
  <2> QED
    BY <1>1, <1>2, <2>1, Moved DEF ReadsOverride, At, Onward, DecidePlaces
<1>3. CASE ReadsQuality(t)
  BY <1>3, ReadQuality DEF ReadsQuality, At, Onward, DecidePlaces
<1>4. CASE ChoosesBackend(t) \/ AnswersNetworkGate(t) \/ DecisionTooLate(t) \/ LooksAtSession(t)
           \/ RaisesNetworkGate(t)
  BY <1>1, <1>4, Moved
  DEF ChoosesBackend, AnswersNetworkGate, DecisionTooLate, LooksAtSession, RaisesNetworkGate,
      At, Onward, DecidePlaces
<1>5. CASE CancelsStart(t)
  <2>1. task'[t] = [req |-> "poll", at |-> "quality", s |-> task[t].s, arg |-> None,
                    epoch |-> 0, blocked |-> FALSE]
    BY <1>1, <1>5, Begun DEF CancelsStart
  <2> QED
    BY <1>5, <2>1 DEF CancelsStart, At, DecidePlaces
<1>6. CASE SetsOverride(t)
  <2>1. \/ Ends(t)
        \/ task'[t] = [req |-> "diag", at |-> "look", s |-> task[t].s, arg |-> None,
                       epoch |-> 0, blocked |-> FALSE]
    BY <1>1, <1>6, Begun DEF SetsOverride
  <2> QED
    BY <1>6, <2>1 DEF SetsOverride, At, Onward, DecidePlaces
<1> QED
  BY <1>2, <1>3, <1>4, <1>5, <1>6 DEF Deciding

LEMMA OperatingCourse ==
  ASSUME Shape, NEW t \in Threads, Operating(t)
  PROVE  /\ task[t].at \in Inside \cup {"operation"}
         /\ Onward(t, Inside)
<1>1. TasksOK
  BY DEF Shape
<1> QED
  BY <1>1, Moved
  DEF Operating, AcquiresOperation, FindsWorkerBusy, BackendStarted, LeavesWork,
      ResetsNavigation, ResetsLiveData, FinishesOperation, At, Onward, Inside

LEMMA RequestCourse ==
  ASSUME Shape, NEW t \in Threads, NEW s \in Sessions, Request(t, s)
  PROVE  /\ task[t].at = "idle"
         /\ task'[t].s = s
         /\ \/ task'[t].at = "stale" /\ task'[t].req = "start" /\ StartSession(t, s)
            \/ task'[t].at = "cancel" /\ task'[t].req = "abort" /\ Kept(s)
            \/ task'[t].at = "navid" /\ task'[t].req = "navabort" /\ Kept(s)
            \/ /\ task'[t].at = "backend" /\ task'[t].req \in {"nav", "clear", "diag", "decide"}
               /\ Kept(s) \/ gate[s].id # 0
            \/ task'[t].at = "quality" /\ task'[t].req = "poll" /\ Kept(s)
<1>1. TasksOK
  BY DEF Shape
<1>2. Capable(s) => Kept(s)
  BY DEF Capable, Kept, Alive
<1>3. \A q, p, x : Begin(t, q, s, p, x) =>
        task'[t].req = q /\ task'[t].at = p /\ task'[t].s = s
  BY <1>1 DEF TasksOK, Begin
<1>4. CASE StartSession(t, s)
  BY <1>3, <1>4 DEF StartSession, At
<1>5. CASE AbortRequest(t, s) \/ NavAbortRequest(t, s)
  BY <1>2, <1>3, <1>5 DEF AbortRequest, NavAbortRequest, At
<1>6. CASE NavigateRequest(t, s) \/ ClearDtcsRequest(t, s)
  BY <1>2, <1>3, <1>6 DEF NavigateRequest, ClearDtcsRequest, At
<1>7. CASE StartDiagnosticsRequest(t, s) \/ DecisionRequest(t, s)
  BY <1>3, <1>7 DEF StartDiagnosticsRequest, DecisionRequest, At
<1>8. CASE PollRequest(t, s)
  BY <1>3, <1>8 DEF PollRequest, At
<1> QED
  BY <1>4, <1>5, <1>6, <1>7, <1>8 DEF Request

-----------------------------------------------------------------------------
(* The operation slot.                                                     *)

LEMMA InsideStays ==
  ASSUME Shape, NEW t \in Threads, Acts(t), ~Slotting(t)
  PROVE  task'[t].at \in Inside <=> task[t].at \in Inside
<1>1. TasksOK
  BY DEF Shape
<1>2. Ends(t) => task'[t].at \notin Inside
  BY <1>1, Ended DEF Inside
<1>3. CASE Starting(t)
  BY <1>2, <1>3, StartingCourse DEF Onward, StartPlaces, Inside
<1>4. CASE Aborting(t)
  BY <1>1, <1>2, <1>4, AbortingCourse, Moved DEF Onward, AbortPlaces, Inside
<1>5. CASE GetsBackend(t)
  BY <1>1, <1>2, <1>5, Moved, GettingCourse DEF Wanting, Inside
<1>6. CASE Navigating(t)
  BY <1>2, <1>6, NavigatingCourse DEF Onward, NavPlaces, Inside
<1>7. CASE Deciding(t)
  BY <1>2, <1>7, DecidingCourse DEF Onward, DecidePlaces, Inside
<1>8. CASE Operating(t)
  <2>1. CASE FindsWorkerBusy(t)
    BY <1>1, <1>2, <2>1 DEF FindsWorkerBusy, At, Inside
  <2>2. CASE BackendStarted(t) \/ LeavesWork(t) \/ ResetsNavigation(t) \/ ResetsLiveData(t)
    BY <1>1, <2>2, Moved
    DEF BackendStarted, LeavesWork, ResetsNavigation, ResetsLiveData, At, Inside
  <2> QED
    BY <1>8, <2>1, <2>2 DEF Operating, Slotting
<1>9. ASSUME NEW s \in Sessions, Request(t, s)
      PROVE  task'[t].at \in Inside <=> task[t].at \in Inside
  BY <1>9, RequestCourse DEF Inside
<1> QED
  BY <1>3, <1>4, <1>5, <1>6, <1>7, <1>8, <1>9 DEF Acts, Serve

LEMMA RunnerStep ==
  ASSUME Shape, OperationHasRunner, [Next]_vars
  PROVE  OperationHasRunner'
<1>1. TasksOK /\ operation \in Operations \cup {None} /\ None \notin Operations
  BY SessionsAssumption DEF Shape, DataOK, WorkerOK
<1>2. ASSUME NEW t \in Threads, Slotting(t) PROVE task'[t].at # task[t].at /\ Acts(t)
  BY <1>1, <1>2, Moved, Ended
  DEF Slotting, CancelsOperation, AcquiresOperation, FinishesOperation, At, Acts, Serve,
      Aborting, Operating
<1>3. CASE UNCHANGED task
  <2>1. UNCHANGED operation
    BY <1>2, <1>3, Footprint
  <2> QED
    BY <1>3, <2>1 DEF OperationHasRunner, InOperation
<1>4. ASSUME NEW t \in Threads, Acts(t) PROVE OperationHasRunner'
  <2>1. \A u \in Threads \ {t} : task'[u] = task[u]
    BY <1>1, <1>4, OtherThreads
  <2>2. CASE AcquiresOperation(t)
    <3>1. /\ operation = None
          /\ operation' = [thread |-> t, session |-> task[t].s, cancelled |-> FALSE]
      BY <2>2 DEF AcquiresOperation, StartOperation
    <3>2. operation' \in Operations
      BY <1>1, <2>2, <3>1, Serving DEF AcquiresOperation, At, Operations
    <3>3. operation' # None /\ operation'.thread = t
      BY <1>1, <3>1, <3>2
    <3>4. task'[t].at = "work"
      BY <1>1, <2>2, Moved DEF AcquiresOperation
    <3> QED
      BY <2>1, <3>1, <3>3, <3>4 DEF OperationHasRunner, InOperation
  <2>3. CASE FinishesOperation(t)
    <3>1. operation # None /\ operation.thread = t
      BY <2>3 DEF FinishesOperation, At, OperationHasRunner, InOperation
    <3>2. operation' = None
      BY <2>3, <3>1 DEF FinishesOperation
    <3>3. task'[t].at = "idle"
      BY <1>1, <2>3, Ended DEF FinishesOperation
    <3> QED
      BY <2>1, <3>1, <3>2, <3>3 DEF OperationHasRunner, InOperation
  <2>4. CASE CancelsOperation(t)
    <3>1. (operation' # None) <=> (operation # None)
      <4>1. CASE operation # None
        <5>1. operation \in Operations
          BY <1>1, <4>1
        <5>2. [operation EXCEPT !.cancelled = TRUE] \in Operations
          BY <5>1 DEF Operations
        <5> QED
          BY <1>1, <2>4, <4>1, <5>2 DEF CancelsOperation
      <4>2. CASE operation = None
        BY <2>4, <4>2 DEF CancelsOperation
      <4> QED
        BY <4>1, <4>2
    <3>2. operation # None => operation'.thread = operation.thread
      BY <1>1, <2>4 DEF CancelsOperation, Operations
    <3>3. task[t].at = "cancel" /\ task'[t].at = "navid"
      BY <1>1, <2>4, Moved DEF CancelsOperation, At
    <3> QED
      BY <2>1, <3>1, <3>2, <3>3 DEF OperationHasRunner, InOperation
  <2>5. CASE ~Slotting(t)
    <3>1. UNCHANGED operation
      BY <1>4, <2>5, ServeFootprint, RequestFootprint DEF Acts, worker
    <3>2. task'[t].at \in Inside <=> task[t].at \in Inside
      BY <1>1, <1>4, <2>5, InsideStays
    <3> QED
      BY <2>1, <3>1, <3>2 DEF OperationHasRunner, InOperation, Inside
  <2> QED
    BY <2>2, <2>3, <2>4, <2>5 DEF Slotting
<1> QED
  BY <1>3, <1>4, StepOfOne

(* The operation slot is held by the one request inside its operation, for *)
(* any number of threads, and is free when no request is inside.           *)
THEOREM SlotHasRunner == Spec => []OperationHasRunner
<1>1. Init => OperationHasRunner
  BY DEF Init, OperationHasRunner, InOperation, Idle
<1>2. Shape /\ OperationHasRunner /\ [Next]_vars => OperationHasRunner'
  BY RunnerStep
<1> QED
  BY <1>1, <1>2, ShapeCorrect, PTL DEF Spec

-----------------------------------------------------------------------------
(* The network gate: overrides are granted, and a start that a blocked     *)
(* tunnel does not stop has found its own epoch among them.                *)

Confirmed(t) ==
    task[t].at \in Inside \cup {"operation"} /\ task[t].req = "diag" /\ task[t].blocked
        => task[t].epoch \in granted[task[t].s]

Confirmation ==
    /\ \A s \in Sessions : override[s] # 0 => override[s] \in granted[s]
    /\ \A t \in Threads : Confirmed(t)
    /\ \A t \in Threads : task[t].req = "diag" => task[t].at \notin NavPlaces

LEMMA GrantsStep ==
  ASSUME Shape, Confirmation, [Next]_vars
  PROVE  \A s \in Sessions : /\ granted[s] \subseteq granted'[s]
                             /\ override'[s] # 0 => override'[s] \in granted'[s]
<1>1. OrchestratorOK /\ TasksOK
  BY DEF Shape, DataOK
<1>2. CASE UNCHANGED <<override, granted>>
  BY <1>2 DEF Confirmation
<1>3. ASSUME NEW r \in Sessions, override' = [override EXCEPT ![r] = 0], UNCHANGED granted
      PROVE  \A s \in Sessions : /\ granted[s] \subseteq granted'[s]
                                 /\ override'[s] # 0 => override'[s] \in granted'[s]
  BY <1>1, <1>3 DEF Confirmation, OrchestratorOK
<1>4. ASSUME NEW t \in Threads, Recording(t)
      PROVE  \A s \in Sessions : /\ granted[s] \subseteq granted'[s]
                                 /\ override'[s] # 0 => override'[s] \in granted'[s]
  <2>1. task[t].s \in Sessions
    BY <1>1, <1>4, Serving
    DEF Recording, DiscardsSession, AbortsSession, ChoosesBackend, AnswersNetworkGate,
        CancelsStart, ReadsOverride, SetsOverride, RaisesNetworkGate, At
  <2>2. CASE DiscardsSession(t) \/ CancelsStart(t)
    BY <1>3, <2>1, <2>2 DEF DiscardsSession, CancelsStart
  <2>3. CASE AbortsSession(t)
    BY <1>2, <1>3, <2>1, <2>3 DEF AbortsSession
  <2>4. CASE ReadsOverride(t)
    BY <1>2, <1>3, <2>1, <2>4 DEF ReadsOverride
  <2>5. CASE SetsOverride(t)
    BY <1>1, <1>2, <2>1, <2>5 DEF SetsOverride, Confirmation, OrchestratorOK
  <2>6. CASE ChoosesBackend(t) \/ AnswersNetworkGate(t) \/ RaisesNetworkGate(t)
    BY <1>2, <2>6 DEF ChoosesBackend, AnswersNetworkGate, RaisesNetworkGate
  <2> QED
    BY <1>4, <2>2, <2>3, <2>4, <2>5, <2>6 DEF Recording
<1>5. ASSUME NEW t \in Threads, NEW s \in Sessions, StartSession(t, s)
      PROVE  UNCHANGED <<override, granted>>
  BY <1>5 DEF StartSession
<1>6. ASSUME NEW s \in Sessions, Cleanup(s) \/ DecisionTimesOut(s)
      PROVE  UNCHANGED <<override, granted>>
  BY <1>6 DEF Cleanup, DecisionTimesOut
<1>7. UNCHANGED orchestrator => UNCHANGED <<override, granted>>
  BY DEF orchestrator
<1> QED
  BY <1>2, <1>4, <1>5, <1>6, <1>7, Footprint

LEMMA ConfirmationStep ==
  ASSUME Shape, Confirmation, [Next]_vars
  PROVE  Confirmation'
<1>1. TasksOK /\ OrchestratorOK
  BY DEF Shape, DataOK
<1>2. \A s \in Sessions : /\ granted[s] \subseteq granted'[s]
                          /\ override'[s] # 0 => override'[s] \in granted'[s]
  BY GrantsStep
<1>3. ASSUME NEW u \in Threads, task'[u] = task[u]
      PROVE  Confirmed(u)' /\ (task'[u].req = "diag" => task'[u].at \notin NavPlaces)
  <2>1. task[u].at # "idle" => task[u].s \in Sessions
    BY <1>1 DEF TasksOK, FieldsSet
  <2>2. task[u].at \in Inside \cup {"operation"} => task[u].at # "idle"
    BY DEF Inside
  <2>3. Confirmed(u)
    BY DEF Confirmation
  <2>4. ASSUME task[u].at \in Inside \cup {"operation"}, task[u].req = "diag", task[u].blocked
        PROVE  task[u].epoch \in granted'[task[u].s]
    <3>1. task[u].epoch \in granted[task[u].s]
      BY <2>3, <2>4, Zenon DEF Confirmed
    <3>2. granted[task[u].s] \subseteq granted'[task[u].s]
      BY <1>2, <2>1, <2>2, <2>4
    <3> QED
      BY <3>1, <3>2
  <2>5. Confirmed(u)'
    BY <1>3, <2>4 DEF Confirmed
  <2> QED
    BY <1>3, <2>5 DEF Confirmation
<1>4. ASSUME NEW t \in Threads, Acts(t)
      PROVE  Confirmed(t)' /\ (task'[t].req = "diag" => task'[t].at \notin NavPlaces)
  <2>1. Ends(t) => task'[t].req # "diag"
    BY <1>1, Ended
  <2>2. CASE Starting(t)
    BY <2>1, <2>2, StartingCourse DEF Onward, StartPlaces, Inside, NavPlaces, Confirmed
  <2>3. CASE Aborting(t)
    BY <1>1, <2>1, <2>3, AbortingCourse, Moved DEF Onward, AbortPlaces, Inside, NavPlaces, Confirmed
  <2>4. CASE GetsBackend(t)
    BY <1>1, <2>1, <2>4, GettingCourse, Moved DEF Wanting, Inside, NavPlaces, Confirmed
  <2>5. CASE Navigating(t)
    BY <2>1, <2>5, NavigatingCourse DEF Onward, Confirmation, Confirmed
  <2>6. CASE Deciding(t)
    <3>1. CASE task'[t].at # "operation"
      BY <2>1, <2>6, <3>1, DecidingCourse DEF Onward, DecidePlaces, Inside, NavPlaces, Confirmed
    <3>2. CASE task'[t].at = "operation" /\ ReadsOverride(t)
      <4>1. CASE GoTo(t, "operation") /\ (task[t].blocked => Effective(task[t].s, task[t].epoch))
        <5>1. task[t].s \in Sessions
          BY <1>1, <3>2, Serving DEF ReadsOverride, At
        <5>2. task[t].blocked => task[t].epoch \in granted[task[t].s]
          BY <4>1, <5>1 DEF Effective, Confirmation
        <5>3. /\ task'[t].s = task[t].s /\ task'[t].epoch = task[t].epoch
              /\ task'[t].blocked = task[t].blocked
          BY <1>1, <4>1, Moved
        <5> QED
          BY <1>2, <3>2, <5>1, <5>2, <5>3 DEF Confirmed, NavPlaces
      <4>2. CASE GoTo(t, "verdict") \/ GoTo(t, "grant")
        BY <1>1, <3>2, <4>2, Moved
      <4> QED
        BY <2>1, <3>2, <4>1, <4>2 DEF ReadsOverride, Confirmed, Ends
    <3>3. CASE task'[t].at = "operation" /\ ~ReadsOverride(t)
      <4>1. CASE ReadsQuality(t)
        BY <1>1, <2>1, <3>3, <4>1, ReadQuality, Ended
      <4>2. CASE GoTo(t, "quality") \/ GoTo(t, "refuse") \/ Ends(t)
        BY <1>1, <3>3, <4>2, Moved, Ended
      <4>3. CASE CancelsStart(t) \/ SetsOverride(t)
        <5>1. Begin(t, "poll", task[t].s, "quality", None) \/ Ends(t)
              \/ Begin(t, "diag", task[t].s, "look", None)
          BY <4>3 DEF CancelsStart, SetsOverride
        <5>2. task'[t].at # "operation"
          BY <1>1, <5>1, Ended DEF TasksOK, Begin
        <5> QED
          BY <3>3, <5>2
      <4> QED
        BY <2>6, <3>3, <4>1, <4>2, <4>3
        DEF Deciding, ChoosesBackend, AnswersNetworkGate, DecisionTooLate, LooksAtSession,
            RaisesNetworkGate
    <3> QED
      BY <3>1, <3>2, <3>3
  <2>7. CASE Operating(t)
    <3>1. CASE Ends(t)
      BY <2>1, <3>1 DEF Confirmed
    <3>2. CASE ~Ends(t)
      <4>1. \E p \in Inside : GoTo(t, p)
        BY <2>7, <3>2
        DEF Operating, AcquiresOperation, FindsWorkerBusy, BackendStarted, LeavesWork,
            ResetsNavigation, ResetsLiveData, FinishesOperation, Inside
      <4>2. /\ task'[t].at \in Inside /\ task'[t].req = task[t].req /\ task'[t].s = task[t].s
            /\ task'[t].epoch = task[t].epoch /\ task'[t].blocked = task[t].blocked
        BY <1>1, <4>1, Moved
      <4>3. task[t].at \in Inside \cup {"operation"} /\ task[t].s \in Sessions
        <5>1. task[t].at \in Inside \cup {"operation"} /\ task[t].at # "idle"
          BY <2>7, OperatingCourse DEF Inside
        <5> QED
          BY <1>1, <5>1 DEF TasksOK, FieldsSet
      <4> QED
        BY <1>2, <4>2, <4>3 DEF Confirmed, Confirmation, Inside, NavPlaces
    <3> QED
      BY <3>1, <3>2
  <2>8. ASSUME NEW s \in Sessions, Request(t, s)
        PROVE  Confirmed(t)' /\ (task'[t].req = "diag" => task'[t].at \notin NavPlaces)
    BY <2>8, RequestCourse DEF Inside, NavPlaces, Confirmed
  <2> QED
    BY <1>4, <2>2, <2>3, <2>4, <2>5, <2>6, <2>7, <2>8 DEF Acts, Serve
<1>5. \A t \in Threads : Confirmed(t)' /\ (task'[t].req = "diag" => task'[t].at \notin NavPlaces)
  BY <1>1, <1>3, <1>4, StepOfOne, OtherThreads
<1>6. \A s \in Sessions : override'[s] # 0 => override'[s] \in granted'[s]
  BY <1>2
<1> QED
  BY <1>5, <1>6, Zenon DEF Confirmation

(* Diagnostics start through a blocked tunnel only in an epoch for which   *)
(* the user has answered "continue" in that session.                       *)
THEOREM StartsConfirmed == Spec => []BlockedStartIsConfirmed
<1>1. Init => Confirmation
  BY DEF Init, Confirmation, Confirmed, Idle, Inside
<1>2. Shape /\ Confirmation /\ [Next]_vars => Confirmation'
  BY ConfirmationStep
<1>3. Confirmation => BlockedStartIsConfirmed
  BY DEF Confirmation, Confirmed, BlockedStartIsConfirmed, InOperation, Inside
<1> QED
  BY <1>1, <1>2, <1>3, ShapeCorrect, PTL DEF Spec

-----------------------------------------------------------------------------
(* The navigation the worker is bound to.                                  *)

Attaching(t) ==
    task[t].at = "attach" =>
        /\ navigation[task[t].arg].of = task[t].s
        /\ navigation[task[t].arg].state # "unborn"

NavigationKept ==
    /\ NavigationBelongsToItsSession
    /\ binding.nav # None => navigation[binding.nav].state # "unborn"
    /\ \A t \in Threads : Attaching(t)

LEMMA FlightStep ==
  ASSUME Shape, [Next]_vars, NEW n \in Navs, navigation[n].state # "unborn"
  PROVE  navigation'[n].state # "unborn" /\ navigation'[n].of = navigation[n].of
<1> DEFINE Flights == [of: Sessions \cup {None}, state: {"unborn", "running", "aborted", "over"}]
<1>1. TasksOK /\ navigation \in [Navs -> Flights]
  BY DEF Shape, DataOK, WorkerOK
<1>2. ASSUME NEW t \in Threads, StopsNavigation(t)
      PROVE  navigation'[n].state # "unborn" /\ navigation'[n].of = navigation[n].of
  <2>1. task[t].arg \in Navs
    BY <1>1, <1>2 DEF StopsNavigation, At, TasksOK, FieldsSet, WithNav
  <2> QED
    BY <1>1, <1>2, <2>1 DEF StopsNavigation
<1>3. ASSUME NEW t \in Threads, NEW m \in Navs, SpawnsNavigation(t, m)
      PROVE  navigation'[n] = navigation[n]
  BY <1>1, <1>3 DEF SpawnsNavigation
<1>4. ASSUME NEW m \in Navs, NavigationEnds(m)
      PROVE  navigation'[n].state # "unborn" /\ navigation'[n].of = navigation[n].of
  BY <1>1, <1>4 DEF NavigationEnds
<1> QED
  BY <1>2, <1>3, <1>4, Footprint DEF Flying

LEMMA AttachingStep ==
  ASSUME Shape, NavigationKept, [Next]_vars
  PROVE  \A t \in Threads : Attaching(t)'
<1>1. TasksOK
  BY DEF Shape
<1>2. ASSUME NEW u \in Threads, task'[u] = task[u] PROVE Attaching(u)'
  <2>1. task[u].at = "attach" => task[u].arg \in Navs
    BY <1>1 DEF TasksOK, FieldsSet, WithNav
  <2> QED
    BY <1>2, <2>1, FlightStep DEF NavigationKept, Attaching
<1>3. ASSUME NEW t \in Threads, Acts(t) PROVE Attaching(t)'
  <2>1. Ends(t) => task'[t].at # "attach"
    BY <1>1, Ended
  <2>2. CASE Starting(t)
    BY <2>1, <2>2, StartingCourse DEF Onward, StartPlaces, Attaching
  <2>3. CASE Aborting(t)
    BY <1>1, <2>1, <2>3, AbortingCourse, Moved DEF Onward, AbortPlaces, Attaching
  <2>4. CASE GetsBackend(t)
    BY <1>1, <2>1, <2>4, GettingCourse, Moved DEF Wanting, Attaching
  <2>5. CASE Navigating(t)
    <3>1. CASE LooksForOperation(t) \/ LooksForNavigation(t) \/ BindsNavigation(t)
      BY <1>1, <2>1, <3>1, Moved
      DEF LooksForOperation, LooksForNavigation, BindsNavigation, Attaching
    <3>2. ASSUME NEW n \in Navs, SpawnsNavigation(t, n) PROVE Attaching(t)'
      <4>1. task'[t].at = "attach" /\ task'[t].arg = n /\ task'[t].s = task[t].s
        BY <1>1, <3>2, Pointed DEF SpawnsNavigation
      <4>2. navigation'[n] = [of |-> task[t].s, state |-> "running"]
        BY <3>2 DEF SpawnsNavigation, Shape, DataOK, WorkerOK
      <4> QED
        BY <4>1, <4>2 DEF Attaching
    <3> QED
      BY <2>5, <3>1, <3>2 DEF Navigating
  <2>6. CASE Deciding(t)
    BY <2>1, <2>6, DecidingCourse DEF Onward, DecidePlaces, Attaching
  <2>7. CASE Operating(t)
    BY <2>1, <2>7, OperatingCourse DEF Onward, Inside, Attaching
  <2>8. ASSUME NEW s \in Sessions, Request(t, s) PROVE Attaching(t)'
    BY <2>8, RequestCourse DEF Attaching
  <2> QED
    BY <1>3, <2>2, <2>3, <2>4, <2>5, <2>6, <2>7, <2>8 DEF Acts, Serve
<1> QED
  BY <1>1, <1>2, <1>3, StepOfOne, OtherThreads

(* What a step makes of the binding.                                       *)
LEMMA BindingStep ==
  ASSUME Shape, [Next]_vars
  PROVE  \/ binding' = binding
         \/ binding' = [binding EXCEPT !.nav = None]
         \/ \E t \in Threads :
              /\ task[t].at \in {"bind", "backend", "live", "attach"}
              /\ binding.session \in {None, task[t].s}
              /\ binding'.session = task[t].s
              /\ \/ binding'.nav \in {None, binding.nav} /\ binding.session = task[t].s
                 \/ binding'.nav = None
                 \/ task[t].at = "attach" /\ binding'.nav = task[t].arg
         \/ /\ binding' = Unbound
            /\ \E t \in Threads :
                 \/ task[t].at = "drop" /\ binding.session = task[t].arg
                 \/ task[t].at \in {"unclear", "unbind"} /\ binding.session = task[t].s
<1>1. ASSUME NEW s \in Sessions \cup {None}, ClearNavigation(s)
      PROVE  binding' = binding \/ binding' = [binding EXCEPT !.nav = None]
  BY <1>1 DEF ClearNavigation
<1>2. ASSUME NEW s \in Sessions, ClearBusinessSession(s)
      PROVE  binding' = binding \/ (binding' = Unbound /\ binding.session = s)
  BY <1>2 DEF ClearBusinessSession
<1>3. ASSUME NEW s \in Sessions, CanBind(s), binding' = Bound(s)
      PROVE  /\ binding.session \in {None, s} /\ binding'.session = s
             /\ (binding.session = s /\ binding'.nav = binding.nav) \/ binding'.nav = None
  BY <1>3 DEF CanBind, Bound
<1>4. ASSUME NEW n \in Navs, NavigationReported(n)
      PROVE  binding' = binding \/ binding' = [binding EXCEPT !.nav = None]
  <2>1. navigation[n].of \in Sessions \cup {None}
    BY DEF Shape, DataOK, WorkerOK
  <2> QED
    BY <1>1, <1>4, <2>1 DEF NavigationReported
<1>5. ASSUME NEW t \in Threads, UnbindsNavigation(t) \/ ResetsNavigation(t)
      PROVE  binding' = binding \/ binding' = [binding EXCEPT !.nav = None]
  <2>1. task[t].s \in Sessions
    BY <1>5, Serving DEF UnbindsNavigation, ResetsNavigation, At, Shape
  <2> QED
    BY <1>1, <1>5, <2>1 DEF UnbindsNavigation, ResetsNavigation
<1>6. ASSUME NEW t \in Threads, DropsOldBinding(t)
      PROVE  \/ binding' = binding
             \/ binding' = Unbound /\ task[t].at = "drop" /\ binding.session = task[t].arg
  <2>1. task[t].arg \in Sessions
    BY <1>6 DEF DropsOldBinding, At, Shape, TasksOK, FieldsSet, WithSession
  <2> QED
    BY <1>2, <1>6, <2>1 DEF DropsOldBinding, At
<1>7. ASSUME NEW t \in Threads, RollsBackBinding(t) \/ UnbindsSession(t)
      PROVE  \/ binding' = binding
             \/ /\ binding' = Unbound
                /\ task[t].at \in {"unclear", "unbind"} /\ binding.session = task[t].s
  <2>1. task[t].s \in Sessions
    BY <1>7, Serving DEF RollsBackBinding, UnbindsSession, At, Shape
  <2> QED
    BY <1>2, <1>7, <2>1 DEF RollsBackBinding, UnbindsSession, At
<1>8. ASSUME NEW t \in Threads, BindsSession(t) \/ GetsBackend(t) \/ ResetsLiveData(t)
      PROVE  \/ binding' = binding
             \/ /\ task[t].at \in {"bind", "backend", "live"}
                /\ binding.session \in {None, task[t].s} /\ binding'.session = task[t].s
                /\ \/ binding.session = task[t].s /\ binding'.nav = binding.nav
                   \/ binding'.nav = None
  <2>1. task[t].s \in Sessions
    BY <1>8, Serving DEF BindsSession, GetsBackend, ResetsLiveData, At, Shape
  <2>2. task[t].at \in {"bind", "backend", "live"}
    BY <1>8 DEF BindsSession, GetsBackend, ResetsLiveData, At
  <2>3. binding' = binding \/ (CanBind(task[t].s) /\ binding' = Bound(task[t].s))
    BY <1>8 DEF BindsSession, GetsBackend, ResetsLiveData
  <2> QED
    BY <1>3, <2>1, <2>2, <2>3
<1>9. ASSUME NEW t \in Threads, BindsNavigation(t)
      PROVE  \/ binding' = binding
             \/ /\ task[t].at = "attach" /\ binding'.nav = task[t].arg
                /\ binding.session \in {None, task[t].s} /\ binding'.session = task[t].s
  BY <1>9 DEF BindsNavigation, CanBind, At
<1> QED
  BY <1>4, <1>5, <1>6, <1>7, <1>8, <1>9, Footprint DEF Rebinding

LEMMA NavigationKeptStep ==
  ASSUME Shape, NavigationKept, [Next]_vars
  PROVE  NavigationKept'
<1>1. /\ binding \in [session: Sessions \cup {None}, nav: Navs \cup {None}]
      /\ binding' \in [session: Sessions \cup {None}, nav: Navs \cup {None}]
  BY WorkerStep DEF Shape, DataOK, WorkerOK
<1>2. \A n \in Navs : navigation[n].state # "unborn" =>
        navigation'[n].state # "unborn" /\ navigation'[n].of = navigation[n].of
  BY FlightStep
<1>3. CASE binding'.nav = None
  BY <1>3, AttachingStep DEF NavigationKept, NavigationBelongsToItsSession
<1>4. CASE binding'.nav = binding.nav /\ binding'.session = binding.session
  BY <1>1, <1>2, <1>4, AttachingStep DEF NavigationKept, NavigationBelongsToItsSession
<1>5. ASSUME NEW t \in Threads, task[t].at = "attach", binding'.session = task[t].s,
             binding'.nav = task[t].arg
      PROVE  NavigationKept'
  <2>1. task[t].arg \in Navs /\ task[t].s \in Sessions
    BY <1>5 DEF Shape, TasksOK, FieldsSet, WithNav
  <2>2. /\ navigation'[task[t].arg].of = task[t].s
        /\ navigation'[task[t].arg].state # "unborn"
    BY <1>2, <1>5, <2>1 DEF NavigationKept, Attaching
  <2> QED
    BY <1>5, <2>1, <2>2, AttachingStep, SessionsAssumption
    DEF NavigationKept, NavigationBelongsToItsSession
<1>6. Unbound.nav = None
  BY DEF Unbound
<1> QED
  BY <1>1, <1>3, <1>4, <1>5, <1>6, BindingStep

(* The navigation the worker is bound to was started for the session it is *)
(* bound to, though navigations are started and bound in two calls and     *)
(* reported by readers that look at neither.                               *)
THEOREM NavigationsBelong == Spec => []NavigationBelongsToItsSession
<1>1. Init => NavigationKept
  BY DEF Init, NavigationKept, NavigationBelongsToItsSession, Attaching, Idle, Unbound
<1>2. Shape /\ NavigationKept /\ [Next]_vars => NavigationKept'
  BY NavigationKeptStep
<1>3. NavigationKept => NavigationBelongsToItsSession
  BY DEF NavigationKept
<1> QED
  BY <1>1, <1>2, <1>3, ShapeCorrect, PTL DEF Spec

-----------------------------------------------------------------------------
(* The session the worker is bound to.                                     *)

Over == {"aborted", "gone"}

Bearing(t) ==
    /\ task[t].at # "idle" => status[task[t].s] # "new"
    /\ task[t].at \in {"judge", "drop"} => status[task[t].arg] # "new"
    /\ task[t].at = "drop" => status[task[t].arg] \in Over
    /\ task[t].at = "unbind" => status[task[t].s] \in Over
    /\ task[t].req = "start" <=> task[t].at \in StartPlaces

BindingKept ==
    /\ StartedSessionStaysBound
    /\ binding.session # None => status[binding.session] # "new"
    /\ \A t \in Threads : Bearing(t)

LEMMA OverStays ==
  ASSUME Shape, [Next]_vars, NEW s \in Sessions
  PROVE  /\ status[s] # "new" => status'[s] # "new"
         /\ status[s] \in Over => status'[s] \in Over
  BY StatusStep DEF StatusMoves, Over

LEMMA BearingStep ==
  ASSUME Shape, GateMatchesStatus, BindingKept, [Next]_vars
  PROVE  \A t \in Threads : Bearing(t)'
<1>1. TasksOK /\ OrchestratorOK
  BY DEF Shape, DataOK
<1>2. ASSUME NEW u \in Threads, task'[u] = task[u] PROVE Bearing(u)'
  <2>1. /\ task[u].at # "idle" => task[u].s \in Sessions
        /\ task[u].at \in {"judge", "drop"} => task[u].arg \in Sessions
    BY <1>1 DEF TasksOK, FieldsSet, WithSession
  <2>2. Bearing(u)
    BY DEF BindingKept
  <2> QED
    BY <1>2, <2>1, <2>2, OverStays DEF Bearing
<1>3. ASSUME NEW t \in Threads, Acts(t) PROVE Bearing(t)'
  <2>1. CASE Ends(t)
    BY <1>1, <2>1, Ended DEF Bearing, StartPlaces
  <2>2. Bearing(t)
    BY DEF BindingKept
  <2>3. ASSUME NEW places, places \cap (StartPlaces \cup {"unbind"}) = {}, "idle" \notin places,
               task[t].at # "idle", task[t].at \notin StartPlaces,
               task'[t].at \in places, task'[t].req = task[t].req, task'[t].s = task[t].s
        PROVE  Bearing(t)'
    <3>1. task[t].s \in Sessions
      BY <1>1, <2>3 DEF TasksOK, FieldsSet
    <3>2. task'[t].at \notin {"judge", "drop", "unbind"} /\ task'[t].at \notin StartPlaces
      BY <2>3 DEF StartPlaces
    <3>3. task[t].req # "start" /\ status'[task[t].s] # "new"
      BY <2>2, <2>3, <3>1, OverStays DEF Bearing
    <3> QED
      BY <2>3, <3>2, <3>3 DEF Bearing
  <2>4. CASE Starting(t)
    <3>1. task[t].at \in StartPlaces /\ task[t].req = "start" /\ task[t].s \in Sessions
      BY <1>1, <2>2, <2>4, StartingCourse DEF Bearing, StartPlaces, TasksOK, FieldsSet
    <3>2. status'[task[t].s] # "new"
      BY <2>2, <3>1, OverStays DEF Bearing, StartPlaces
    <3>3. ASSUME task'[t].at \in {"bind", "unclear", "discard"}, task'[t].req = "start",
                 task'[t].s = task[t].s
          PROVE  Bearing(t)'
      BY <3>2, <3>3 DEF Bearing, StartPlaces
    <3>4. Begin(t, "start", task[t].s, "bind", None) => Bearing(t)'
      BY <1>1, <3>3 DEF TasksOK, Begin
    <3>5. GoTo(t, "bind") \/ GoTo(t, "unclear") \/ GoTo(t, "discard") => Bearing(t)'
      BY <1>1, <3>1, <3>3, Moved
    <3>6. CASE ReadsOldBinding(t)
      <4>1. CASE /\ ~CanBind(task[t].s)
                 /\ GoWith(t, "judge", binding.session)
        <5>1. binding.session \in Sessions /\ status'[binding.session] # "new"
          <6>1. binding.session \in Sessions
            BY <4>1 DEF CanBind, Shape, DataOK, WorkerOK
          <6>2. status[binding.session] # "new"
            BY <4>1 DEF CanBind, BindingKept
          <6> QED
            BY <6>1, <6>2, OverStays
        <5>2. /\ task'[t].at = "judge" /\ task'[t].arg = binding.session
              /\ task'[t].req = task[t].req /\ task'[t].s = task[t].s
          BY <1>1, <4>1, Pointed
        <5> QED
          BY <3>1, <3>2, <5>1, <5>2 DEF Bearing, StartPlaces
      <4> QED
        BY <3>5, <3>6, <4>1 DEF ReadsOldBinding
    <3>7. CASE JudgesOldBinding(t)
      <4>1. CASE GoTo(t, "drop") /\ status[task[t].arg] \notin Active
        <5>1. task[t].arg \in Sessions
          BY <1>1, <3>7 DEF JudgesOldBinding, At, TasksOK, FieldsSet, WithSession
        <5>2. status[task[t].arg] \in Over
          BY <1>1, <2>2, <3>7, <4>1, <5>1
          DEF JudgesOldBinding, At, Bearing, OrchestratorOK, Statuses, Alive, Active, Over
        <5>3. status'[task[t].arg] \in Over /\ status'[task[t].arg] # "new"
          BY <5>1, <5>2, OverStays DEF Over
        <5>4. /\ task'[t].at = "drop" /\ task'[t].arg = task[t].arg
              /\ task'[t].req = task[t].req /\ task'[t].s = task[t].s
          BY <1>1, <4>1, Moved
        <5> QED
          BY <3>1, <3>2, <5>3, <5>4 DEF Bearing, StartPlaces
      <4> QED
        BY <3>4, <3>7, <4>1 DEF JudgesOldBinding
    <3>8. CASE DropsOldBinding(t) \/ BindsSession(t) \/ RollsBackBinding(t) \/ DiscardsSession(t)
      BY <2>1, <3>4, <3>5, <3>8
      DEF DropsOldBinding, BindsSession, RollsBackBinding, DiscardsSession
    <3> QED
      BY <2>4, <3>6, <3>7, <3>8 DEF Starting
  <2>5. CASE Aborting(t)
    <3>1. CASE Onward(t, AbortPlaces \ {"cancel", "unbind"})
      <4>1. AbortPlaces \cap StartPlaces = {} /\ "idle" \notin AbortPlaces
        BY DEF AbortPlaces, StartPlaces
      <4>2. task[t].at \in AbortPlaces
        BY <2>5, AbortingCourse
      <4> QED
        BY <2>1, <2>3, <3>1, <4>1, <4>2 DEF Onward
    <3>2. CASE AbortsSession(t) /\ GoTo(t, "unbind")
      <4>1. task[t].s \in Sessions /\ task[t].at = "end"
        BY <1>1, <3>2, Serving DEF AbortsSession, At
      <4>2. task'[t].at = "unbind" /\ task'[t].req = task[t].req /\ task'[t].s = task[t].s
        BY <1>1, <3>2, Moved
      <4>3. status'[task[t].s] = "aborted"
        <5>1. ~Ends(t)
          BY <1>1, <4>2, Ended
        <5> QED
          BY <1>1, <3>2, <4>1, <5>1 DEF AbortsSession, OrchestratorOK
      <4> QED
        BY <2>2, <4>1, <4>2, <4>3 DEF Bearing, StartPlaces, Over
    <3> QED
      BY <2>5, <3>1, <3>2, AbortingCourse
  <2>6. CASE GetsBackend(t)
    <3>1. (GoTo(t, Wanting(t)) /\ task[t].at = "backend") \/ Ends(t)
      BY <2>6, GettingCourse
    <3>2. CASE GoTo(t, Wanting(t)) /\ task[t].at = "backend"
      <4> DEFINE places == {"answer", "look", "busy", "free"}
      <4>1. places \cap (StartPlaces \cup {"unbind"}) = {} /\ "idle" \notin places
        BY DEF StartPlaces
      <4>2. Wanting(t) \in places
        BY DEF Wanting
      <4>3. task'[t].at \in places /\ task'[t].req = task[t].req /\ task'[t].s = task[t].s
        BY <1>1, <3>2, <4>2, Moved
      <4>4. task[t].at # "idle" /\ task[t].at \notin StartPlaces
        BY <3>2 DEF StartPlaces
      <4> HIDE DEF places
      <4> QED
        BY <2>3, <4>1, <4>3, <4>4
    <3> QED
      BY <2>1, <3>1, <3>2
  <2>7. CASE Navigating(t)
    BY <2>1, <2>3, <2>7, NavigatingCourse DEF Onward, NavPlaces, StartPlaces
  <2>8. CASE Deciding(t)
    <3>1. CASE Onward(t, DecidePlaces \cup {"operation"})
      BY <2>1, <2>3, <2>8, <3>1, DecidingCourse DEF Onward, DecidePlaces, StartPlaces
    <3>2. CASE /\ task'[t].at \in {"quality", "look"} /\ task'[t].req \in {"poll", "diag"}
               /\ task'[t].s = task[t].s
      <4>1. task[t].s \in Sessions /\ status[task[t].s] # "new"
        BY <1>1, <2>2, <2>8, DecidingCourse DEF DecidePlaces, TasksOK, FieldsSet, Bearing
      <4> QED
        BY <3>2, <4>1, OverStays DEF Bearing, StartPlaces
    <3> QED
      BY <2>8, <3>1, <3>2, DecidingCourse
  <2>9. CASE Operating(t)
    BY <2>1, <2>3, <2>9, OperatingCourse DEF Onward, Inside, StartPlaces
  <2>10. ASSUME NEW s \in Sessions, Request(t, s) PROVE Bearing(t)'
    <3>1. CASE StartSession(t, s)
      <4>1. status'[s] # "new"
        BY <1>1, <3>1 DEF StartSession, RaiseGate, OrchestratorOK
      <4>2. task'[t].at = "stale" /\ task'[t].req = "start" /\ task'[t].s = s
        BY <1>1, <3>1 DEF StartSession, TasksOK, Begin
      <4> QED
        BY <4>1, <4>2 DEF Bearing, StartPlaces
    <3>2. CASE ~StartSession(t, s)
      <4>1. status[s] # "new"
        BY <2>10, <3>2, RequestCourse DEF Kept, Alive, GateMatchesStatus
      <4>2. status'[s] # "new"
        BY <4>1, OverStays
      <4> QED
        BY <2>10, <3>2, <4>2, RequestCourse DEF Bearing, StartPlaces
    <3> QED
      BY <3>1, <3>2
  <2> QED
    BY <1>3, <2>4, <2>5, <2>6, <2>7, <2>8, <2>9, <2>10 DEF Acts, Serve
<1> QED
  BY <1>1, <1>2, <1>3, StepOfOne, OtherThreads

(* A session becomes active by its start only.                             *)
LEMMA Activation ==
  ASSUME Shape, [Next]_vars, NEW r \in Sessions, status'[r] \in Active
  PROVE  status[r] \in Active \/ \E t \in Threads : StartSession(t, r)
<1>1. OrchestratorOK /\ TasksOK
  BY DEF Shape, DataOK
<1>2. CASE status[r] = "new"
  <2>1. status'[r] # status[r]
    BY <1>2 DEF Active
  <2>2. ASSUME NEW t \in Threads, Recording(t) PROVE status'[r] = status[r]
    <3>1. task[t].s \in Sessions
      BY <1>1, <2>2, Serving
      DEF Recording, DiscardsSession, AbortsSession, ChoosesBackend, AnswersNetworkGate,
          CancelsStart, ReadsOverride, SetsOverride, RaisesNetworkGate, At
    <3>2. CASE DiscardsSession(t)
      BY <1>1, <1>2, <3>1, <3>2 DEF DiscardsSession, OrchestratorOK, Active
    <3>3. CASE AbortsSession(t)
      BY <1>1, <1>2, <3>1, <3>3 DEF AbortsSession, OrchestratorOK, Active
    <3>4. CASE ChoosesBackend(t) \/ AnswersNetworkGate(t)
      BY <1>1, <1>2, <3>1, <3>4 DEF ChoosesBackend, AnswersNetworkGate, Pending, Resolve,
                                    OrchestratorOK
    <3>5. CASE CancelsStart(t) \/ ReadsOverride(t) \/ SetsOverride(t)
      BY <3>5 DEF CancelsStart, ReadsOverride, SetsOverride
    <3>6. CASE RaisesNetworkGate(t)
      BY <1>1, <1>2, <3>1, <3>6 DEF RaisesNetworkGate, RaiseGate, OrchestratorOK
    <3> QED
      BY <2>2, <3>2, <3>3, <3>4, <3>5, <3>6 DEF Recording
  <2>3. ASSUME NEW t \in Threads, NEW s \in Sessions, StartSession(t, s), s # r
        PROVE  status'[r] = status[r]
    BY <1>1, <2>3 DEF StartSession, RaiseGate, OrchestratorOK
  <2>4. ASSUME NEW s \in Sessions, Cleanup(s) \/ DecisionTimesOut(s)
        PROVE  status'[r] = status[r]
    BY <1>1, <1>2, <2>4 DEF Cleanup, DecisionTimesOut, Resolve, OrchestratorOK
  <2>5. UNCHANGED orchestrator => status'[r] = status[r]
    BY DEF orchestrator
  <2> QED
    BY <2>1, <2>2, <2>3, <2>4, <2>5, Footprint
<1>3. CASE status[r] # "new"
  BY <1>3, StatusStep DEF StatusMoves
<1> QED
  BY <1>2, <1>3

LEMMA StaysBoundStep ==
  ASSUME Shape, GateMatchesStatus, BindingKept, [Next]_vars
  PROVE  StartedSessionStaysBound'
<1>1. TasksOK /\ OrchestratorOK /\ None \notin Sessions
  BY SessionsAssumption DEF Shape, DataOK
<1> SUFFICES ASSUME NEW r \in Sessions, status'[r] \in Active,
                    \A t \in Threads : task'[t].req = "start" => task'[t].s # r
             PROVE  binding'.session = r
  BY DEF StartedSessionStaysBound
<1>2. status[r] \in Active
  <2>1. ASSUME NEW t \in Threads, StartSession(t, r) PROVE FALSE
    BY <1>1, <2>1 DEF StartSession, TasksOK, Begin
  <2> QED
    BY <2>1, Activation
<1>3. ASSUME NEW u \in Threads, task[u].req = "start", task[u].s = r
      PROVE  binding'.session = r
  <2>1. task[u].at \in StartPlaces /\ task[u].at # "idle"
    BY <1>3 DEF BindingKept, Bearing, StartPlaces
  <2>2. task'[u] # task[u] /\ Acts(u)
    BY <1>1, <1>3, StepOfOne, OtherThreads
  <2>3. Starting(u)
    <3>1. ~Aborting(u) /\ ~GetsBackend(u) /\ ~Navigating(u) /\ ~Deciding(u) /\ ~Operating(u)
      BY <2>1, AbortingCourse, GettingCourse, NavigatingCourse, DecidingCourse, OperatingCourse
      DEF StartPlaces, AbortPlaces, NavPlaces, DecidePlaces, Inside
    <3>2. \A s \in Sessions : ~Request(u, s)
      BY <2>1, RequestCourse
    <3> QED
      BY <2>2, <3>1, <3>2 DEF Acts, Serve
  <2>4. Ends(u)
    BY <1>3, <2>3, StartingCourse DEF Onward
  <2>5. task'[u].at = "idle"
    BY <1>1, <2>4, Ended
  <2>6. BindsSession(u) \/ DiscardsSession(u)
    <3>1. ~RollsBackBinding(u)
      BY <1>1, <2>5, Moved DEF RollsBackBinding
    <3>2. ~DropsOldBinding(u) /\ ~JudgesOldBinding(u)
      <4>1. ~GoTo(u, "drop") /\ ~Begin(u, "start", task[u].s, "bind", None)
        BY <1>1, <2>5, Moved DEF TasksOK, Begin
      <4> QED
        BY <4>1 DEF DropsOldBinding, JudgesOldBinding
    <3>3. ~ReadsOldBinding(u)
      <4>1. ~GoTo(u, "bind")
        BY <1>1, <2>5, Moved
      <4>2. ~GoWith(u, "judge", binding.session)
        BY <1>1, <2>5, Pointed
      <4> QED
        BY <4>1, <4>2 DEF ReadsOldBinding
    <3> QED
      BY <2>3, <3>1, <3>2, <3>3 DEF Starting
  <2>7. ~DiscardsSession(u)
    BY <1>1, <1>3 DEF DiscardsSession, OrchestratorOK, Active
  <2>8. CASE BindsSession(u)
    <3>1. ~GoTo(u, "unclear")
      BY <1>1, <2>5, Moved
    <3>2. binding' = Bound(r)
      BY <1>3, <2>8, <3>1 DEF BindsSession
    <3> QED
      BY <3>2 DEF Bound
  <2> QED
    BY <2>6, <2>7, <2>8
<1>4. CASE \A u \in Threads : task[u].req = "start" => task[u].s # r
  <2>1. binding.session = r
    BY <1>2, <1>4 DEF BindingKept, StartedSessionStaysBound
  <2>2. status[r] \notin Over
    BY <1>2 DEF Active, Over
  <2>3. ASSUME NEW t \in Threads, task[t].at = "drop", binding.session = task[t].arg
        PROVE  FALSE
    BY <2>1, <2>2, <2>3 DEF BindingKept, Bearing
  <2>4. ASSUME NEW t \in Threads, task[t].at = "unbind", binding.session = task[t].s
        PROVE  FALSE
    BY <2>1, <2>2, <2>4 DEF BindingKept, Bearing
  <2>5. ASSUME NEW t \in Threads, task[t].at = "unclear", binding.session = task[t].s
        PROVE  FALSE
    BY <1>4, <2>1, <2>5 DEF BindingKept, Bearing, StartPlaces
  <2>6. binding' = binding \/ binding' = [binding EXCEPT !.nav = None] => binding'.session = r
    BY <2>1 DEF Shape, DataOK, WorkerOK
  <2> QED
    BY <1>1, <2>1, <2>3, <2>4, <2>5, <2>6, BindingStep
<1> QED
  BY <1>3, <1>4

LEMMA BindingKeptStep ==
  ASSUME Shape, GateMatchesStatus, BindingKept, [Next]_vars
  PROVE  BindingKept'
<1>1. binding'.session # None => status'[binding'.session] # "new"
  <2>1. binding.session \in Sessions \cup {None} /\ binding'.session \in Sessions \cup {None}
    BY WorkerStep DEF Shape, DataOK, WorkerOK
  <2>2. CASE binding'.session = binding.session
    BY <2>1, <2>2, OverStays DEF BindingKept
  <2>3. ASSUME NEW t \in Threads, task[t].at # "idle", binding'.session = task[t].s
        PROVE  status'[binding'.session] # "new"
    <3>1. task[t].s \in Sessions /\ status[task[t].s] # "new"
      BY <2>3 DEF BindingKept, Bearing, Shape, TasksOK, FieldsSet
    <3> QED
      BY <2>3, <3>1, OverStays
  <2>4. binding' = [binding EXCEPT !.nav = None] => binding'.session = binding.session
    BY DEF Shape, DataOK, WorkerOK
  <2>5. binding' = Unbound => binding'.session = None
    BY DEF Unbound
  <2> QED
    BY <2>2, <2>3, <2>4, <2>5, BindingStep
<1> QED
  BY <1>1, BearingStep, StaysBoundStep DEF BindingKept

(* A session that is active and whose start is over is the one the worker  *)
(* is bound to, whatever late requests, aborts and rollbacks of other      *)
(* sessions do at the same time.                                           *)
THEOREM StartedStaysBound == Spec => []StartedSessionStaysBound
<1>1. Init => BindingKept
  BY DEF Init, BindingKept, StartedSessionStaysBound, Bearing, Idle, Unbound, Active, StartPlaces
<1>2. Shape /\ GateMatchesStatus /\ BindingKept /\ [Next]_vars => BindingKept'
  BY BindingKeptStep
<1>3. BindingKept => StartedSessionStaysBound
  BY DEF BindingKept
<1> QED
  BY <1>1, <1>2, <1>3, ShapeCorrect, GatesMatch, PTL DEF Spec

(* The worker is bound to the session that was started last, and to a      *)
(* navigation of that session, whatever requests are late.                 *)
THEOREM BindingFollows == Spec => []BindingFollowsSessions
  BY StartedStaysBound, NavigationsBelong, PTL DEF BindingFollowsSessions


(* A pending decision has a session that awaits it, and the operation slot *)
(* a request inside its operation, and the reverse, on every way out.      *)
THEOREM NothingLeftDangling == Spec => []NothingDangles
  BY GatesMatch, SlotHasRunner, PTL DEF NothingDangles
=============================================================================
