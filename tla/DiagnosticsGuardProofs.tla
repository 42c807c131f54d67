------------------------ MODULE DiagnosticsGuardProofs ------------------------
(***************************************************************************)
(* Proofs about DiagnosticsGuard, for any sessions and leases and any      *)
(* number of windows, guarded actions and clicks.                          *)
(*                                                                         *)
(* Shape is the type, and who a message is about.  Sound says what the     *)
(* window, the guard, its threads and the cloud know of each other; a      *)
(* session that is to end (Hunted) stays known to whoever may end it.      *)
(*                                                                         *)
(* What an action leaves of the window's and the guard's records is a      *)
(* lemma about the action (OpensRecords, ...); the parts of Sound are then *)
(* kept by kinds of steps (StepKinds).                                     *)
(***************************************************************************)
EXTENDS DiagnosticsGuard, TLAPS

(***************************************************************************)
(* The shape of the state: its types, and who a message is about.          *)

WindowStates == [sid: Session, final: BOOLEAN, term: Session, lease: Lease, start: BOOLEAN,
                 abort: BOOLEAN, refresh: BOOLEAN, retried: BOOLEAN, boot: BOOLEAN,
                 events: Session, open: BOOLEAN]
GuardStates == [sid: Session, final: BOOLEAN, term: Session, lease: Lease,
                pending: Actions \cup {None}, timer: BOOLEAN]
CallRecords == [kind: {"boot", "start", "abort", "status", "release"},
                s: Session \cup Lease, w: 0..MaxWindows, n: 0..MaxStarts]
MsgRecords == [kind: {"boot", "start", "abort", "status", "done"}, s: Session \cup Lease,
               res: {"ok", "no", "down", "active", "direct", "later", "gone", "aborted"}]
Threads == [at: {"none", "begun", "aborted", "polls"}, s: Session]

\* A record of an abort names the session it is about, which is the current one.
Consistent(r) ==
    /\ r.final => r.term # None
    /\ r.term # None => r.final /\ r.term = r.sid

NamesItsOwn(m) ==
    /\ m.kind = "boot" /\ m.res = "ok" => m.s \in Leases
    /\ m.kind = "start" /\ m.res \in {"ok", "active"} => m.s \in Sessions
    /\ m.kind \in {"abort", "status", "done"} => m.s \in Sessions

ShapeRecords ==
    /\ win \in WindowStates /\ ctl \in GuardStates
    /\ Consistent(win) /\ Consistent(ctl)

ShapeTraffic ==
    /\ calls \subseteq CallRecords
    /\ \A c \in calls : c.kind \in {"abort", "status"} => c.s \in Sessions
    /\ \A c \in calls : c.w \in 0..windows
    /\ results \subseteq MsgRecords
    /\ \A m \in results : NamesItsOwn(m)
    /\ ~win.open => results = {}

ShapeThreads ==
    /\ headless \in [1..MaxActions -> Threads]
    /\ \A n \in 1..MaxActions : headless[n].at \in {"aborted", "polls"} => headless[n].s \in Sessions

ShapeRest ==
    /\ {todo, quit, overlap, mixed} \subseteq BOOLEAN
    /\ dialogs \subseteq Actions
    /\ server \in [Sessions -> {"new", "running", "aborted", "gone"}]
    /\ held \subseteq Leases /\ target \in Session
    /\ windows \in 0..MaxWindows /\ asked \in 0..MaxActions
    /\ starts \in 0..MaxStarts /\ aborts \in 0..MaxAborts

Shape == ShapeRecords /\ ShapeTraffic /\ ShapeThreads /\ ShapeRest

-----------------------------------------------------------------------------
(* The guard knows what the window knows.                                  *)

Busy(n) == headless[n].at # "none"

Mirrors ==
    win.open /\ ~overlap =>
        /\ ctl.sid = win.sid /\ ctl.final = win.final /\ ctl.lease = win.lease
        /\ \A n \in 1..MaxActions : ~Busy(n)

-----------------------------------------------------------------------------
(* What is told of a session is true, and only one runs.                   *)

HasEnded(s) == server[s] \in {"aborted", "gone"}
TellsOfTheEnd(m) ==
    \/ m.kind = "done"
    \/ m.kind = "status" /\ m.res \in {"aborted", "gone"}

Told == \A m \in results : TellsOfTheEnd(m) => HasEnded(m.s)
OneRuns == \A s, r \in Sessions : server[s] = "running" /\ server[r] = "running" => s = r

\* A session that somebody knows of was begun.
Began(s) == s \in Sessions => server[s] # "new"
NamesASession(m) ==
    \/ m.kind \in {"abort", "status", "done"}
    \/ m.kind = "start" /\ m.res \in {"ok", "active"}

Known ==
    /\ win.open => Began(win.sid)
    /\ Began(ctl.sid) /\ Began(target)
    /\ \A n \in 1..MaxActions : Began(headless[n].s)
    /\ \A c \in calls : c.kind \in {"abort", "status"} => Began(c.s)
    /\ \A m \in results : NamesASession(m) => Began(m.s)

-----------------------------------------------------------------------------
(* A window starts one session at a time.                                  *)

StartsOf(set) == {x \in set : x.kind \in {"boot", "start"}}
OwnCalls == {c \in calls : c.w = windows}
Starting == StartsOf(OwnCalls) # {} \/ StartsOf(results) # {}

OneStart ==
    ~mixed /\ win.open =>
        /\ win.start \/ win.sid # None => ~Starting
        /\ win.start => win.sid = None
        /\ \A x, y \in StartsOf(OwnCalls) : x = y
        /\ \A x, y \in StartsOf(results) : x = y
        /\ StartsOf(OwnCalls) = {} \/ StartsOf(results) = {}

-----------------------------------------------------------------------------
(* The session that a pending action is to end: the window's, or one that  *)
(* a new window has nothing to tell of; without a window, the guard's and  *)
(* that of its threads.                                                    *)

ThreadsAgree ==
    ~overlap => \A n \in 1..MaxActions : headless[n].at \in {"aborted", "polls"} =>
        /\ ctl.sid \in {None, headless[n].s}
        /\ \A k \in 1..MaxActions : headless[k].at \in {"aborted", "polls"} => headless[k].s = headless[n].s

KnowsNothing ==
    /\ win.sid = None /\ ~todo
    /\ \A c \in OwnCalls : c.kind \notin {"abort", "status"}
    /\ \A m \in results : m.kind \notin {"abort", "status", "done"}
    /\ \A m \in results : m.kind = "start" /\ m.res \in {"ok", "active"} => m.s = target

Targeted ==
    /\ target # None => ctl.pending # None
    /\ target # None /\ ~overlap /\ ~mixed /\ server[target] = "running" =>
         IF win.open THEN win.sid = target \/ KnowsNothing ELSE ctl.sid = target

-----------------------------------------------------------------------------
(* The guard's and the window's operators.                                 *)

(* A click, an answer or the end of a session leaves a window's record.    *)
LEMMA RefreshedWindow ==
    ASSUME NEW w \in WindowStates
    PROVE  /\ Refreshed(w) \in WindowStates
           /\ Consistent(w) => Consistent(Refreshed(w))
           /\ Refreshed(w).sid = w.sid /\ Refreshed(w).final = w.final /\ Refreshed(w).term = w.term
           /\ Refreshed(w).lease = w.lease /\ Refreshed(w).start = w.start /\ Refreshed(w).open = w.open
  BY DEF Refreshed, WindowStates, Consistent

LEMMA EndedWindow ==
    ASSUME win \in WindowStates
    PROVE  /\ Ended \in WindowStates /\ Consistent(Ended)
           /\ Ended.sid = None /\ Ended.final = FALSE /\ Ended.term = None
           /\ Ended.lease = None /\ Ended.start = TRUE /\ Ended.open = win.open
  BY DEF Ended, Released, WindowStates, Consistent, Session, Lease

LEMMA DestroyedWindow ==
    ASSUME NEW w
    PROVE  /\ Destroys(w) \in WindowStates /\ Consistent(Destroys(w))
           /\ Destroys(w).open = FALSE
  BY DEF Destroys, Fresh, WindowStates, Consistent, Session, Lease

(* What the guard's setters leave.                                         *)
LEMMA ActiveGuard ==
    ASSUME NEW c \in GuardStates, NEW s \in Session
    PROVE  /\ SetSessionActive(c, s) \in GuardStates /\ Consistent(SetSessionActive(c, s))
           /\ SetSessionActive(c, s).sid = s /\ SetSessionActive(c, s).final = FALSE
           /\ SetSessionActive(c, s).lease = c.lease /\ SetSessionActive(c, s).pending = c.pending
  BY DEF SetSessionActive, GuardStates, Consistent, Session, Lease

LEMMA ClearedGuard ==
    ASSUME NEW c \in GuardStates
    PROVE  /\ ClearSessionState(c) \in GuardStates /\ Consistent(ClearSessionState(c))
           /\ ClearSessionState(c).sid = None /\ ClearSessionState(c).final = FALSE
           /\ ClearSessionState(c).lease = c.lease /\ ClearSessionState(c).pending = c.pending
  BY None \in Session, ActiveGuard DEF ClearSessionState, Session

LEMMA FinalGuard ==
    ASSUME NEW c \in GuardStates, NEW s \in Session, s # None
    PROVE  /\ BeginsFinal(c, s) \in GuardStates /\ Consistent(BeginsFinal(c, s))
           /\ BeginsFinal(c, s).sid = s /\ BeginsFinal(c, s).final = TRUE
           /\ BeginsFinal(c, s).lease = c.lease /\ BeginsFinal(c, s).pending = c.pending
  BY DEF BeginsFinal, GuardStates, Consistent, Session, Lease

LEMMA ReleasedGuard ==
    ASSUME NEW c \in GuardStates
    PROVE  /\ Released(c) \in GuardStates /\ (Consistent(c) => Consistent(Released(c)))
           /\ Released(c).sid = c.sid /\ Released(c).final = c.final
           /\ Released(c).lease = None /\ Released(c).pending = c.pending
  BY DEF Released, GuardStates, Consistent, Session, Lease

LEMMA ReleasedWindow ==
    ASSUME NEW w \in WindowStates
    PROVE  /\ Released(w) \in WindowStates /\ (Consistent(w) => Consistent(Released(w)))
           /\ Released(w).sid = w.sid /\ Released(w).final = w.final
           /\ Released(w).lease = None /\ Released(w).open = w.open
  BY DEF Released, WindowStates, Consistent, Session, Lease

LEMMA ConsumedGuard ==
    ASSUME NEW c \in GuardStates
    PROVE  /\ Consume(c) \in GuardStates /\ (Consistent(c) => Consistent(Consume(c)))
           /\ Consume(c).sid = c.sid /\ Consume(c).final = c.final
           /\ Consume(c).lease = c.lease /\ Consume(c).pending = None
  BY DEF Consume, GuardStates, Consistent

(* What the guard does when it lets its action go.                         *)
LEMMA CompletesRecords ==
    ASSUME NEW w \in WindowStates, NEW c \in GuardStates, Consistent(w), Consistent(c), Completes(w, c)
    PROVE  /\ win' \in WindowStates /\ ctl' \in GuardStates
           /\ Consistent(win') /\ Consistent(ctl')
           /\ ctl'.sid = c.sid /\ ctl'.final = c.final /\ ctl'.lease = c.lease /\ ctl'.pending = None
           /\ win' = w \/ ~win'.open
           /\ target' = IF c.pending = None THEN target ELSE None
           /\ quit \in BOOLEAN => quit' \in BOOLEAN
<1>1. /\ Consume(c) \in GuardStates /\ Consistent(Consume(c))
      /\ Consume(c).sid = c.sid /\ Consume(c).final = c.final
      /\ Consume(c).lease = c.lease /\ Consume(c).pending = None
  BY ConsumedGuard
<1>2. ctl' = Consume(c)
  BY DEF Completes
<1>3. /\ win' \in WindowStates /\ Consistent(win')
      /\ win' = w \/ ~win'.open
  BY DestroyedWindow DEF Completes
<1>4. target' = IF c.pending = None THEN target ELSE None
  BY DEF Completes
<1>5. quit \in BOOLEAN => quit' \in BOOLEAN
  BY DEF Completes
<1>. QED  BY <1>1, <1>2, <1>3, <1>4, <1>5

-----------------------------------------------------------------------------
(* What each action leaves of the window's and the guard's records.        *)

Leaves(q, r) == r.sid = q.sid /\ r.final = q.final /\ r.lease = q.lease
Idle(r) == r.sid = None /\ r.final = FALSE

LEMMA OpensRecords ==
    ASSUME ShapeRecords, Opens
    PROVE  /\ ShapeRecords'
           /\ Idle(win') /\ win'.lease = None /\ win'.start /\ win'.open
           /\ Idle(ctl') /\ ctl'.lease = None /\ ctl'.pending = ctl.pending
<1>1. /\ Fresh \in WindowStates /\ Consistent(Fresh) /\ Idle(Fresh)
      /\ Fresh.lease = None /\ Fresh.start /\ Fresh.open
  BY DEF Fresh, WindowStates, Consistent, Idle, Session, Lease
<1>2. win' = Fresh /\ ctl' = Released(SetSessionActive(ctl, None))
  BY DEF Opens, Released
<1>3. None \in Session /\ ctl \in GuardStates
  BY DEF Session, ShapeRecords
<1>4. /\ SetSessionActive(ctl, None) \in GuardStates /\ Consistent(SetSessionActive(ctl, None))
      /\ SetSessionActive(ctl, None).sid = None /\ SetSessionActive(ctl, None).final = FALSE
      /\ SetSessionActive(ctl, None).pending = ctl.pending
  BY <1>3, ActiveGuard
<1>5. ctl' \in GuardStates /\ Consistent(ctl') /\ Idle(ctl') /\ ctl'.lease = None /\ ctl'.pending = ctl.pending
  BY <1>2, <1>3, <1>4, ReleasedGuard DEF Idle
<1>. QED  BY <1>1, <1>2, <1>5 DEF ShapeRecords

LEMMA StartClickedRecords ==
    ASSUME ShapeRecords, StartClicked
    PROVE  /\ ShapeRecords' /\ UNCHANGED ctl
           /\ Leaves(win, win') /\ win'.open /\ ~win'.start
  BY DEF ShapeRecords, WindowStates, Consistent, Leaves, StartClicked

LEMMA AbortClickedRecords ==
    ASSUME ShapeRecords, AbortClicked
    PROVE  /\ ShapeRecords' /\ UNCHANGED ctl
           /\ Leaves(win, win') /\ win'.open /\ ~win'.start
  BY DEF ShapeRecords, WindowStates, Consistent, Leaves, AbortClicked

LEMMA PollsStatusRecords ==
    ASSUME ShapeRecords, PollsStatus
    PROVE  /\ ShapeRecords' /\ UNCHANGED ctl
           /\ Leaves(win, win') /\ win'.open /\ win'.start = win.start
  BY RefreshedWindow DEF ShapeRecords, Leaves, PollsStatus

LEMMA BeginsShutdownRecords ==
    ASSUME ShapeRecords, quit \in BOOLEAN, BeginsShutdown
    PROVE  /\ ShapeRecords' /\ quit' \in BOOLEAN
           /\ \/ /\ win.final \/ win.sid # None
                 /\ Leaves(win, win') /\ win'.open /\ (win'.start => win.start)
                 /\ UNCHANGED <<ctl, target>>
              \/ /\ Idle(win) /\ Idle(ctl') /\ ctl'.lease = ctl.lease
                 /\ win' = win \/ ~win'.open
                 /\ ctl'.pending = None
                 /\ target' = IF ctl.pending = None THEN target ELSE None
                 /\ UNCHANGED calls
<1>1. CASE win.final
  <2>1. win' = Refreshed(win) /\ UNCHANGED <<ctl, target, quit>>
    BY <1>1 DEF BeginsShutdown
  <2>. QED  BY <1>1, <2>1, RefreshedWindow DEF ShapeRecords, Leaves, BeginsShutdown
<1>2. CASE ~win.final /\ win.sid # None
  <2>1. /\ win' = [win EXCEPT !.start = FALSE, !.abort = FALSE]
        /\ UNCHANGED <<ctl, target, quit>>
    BY <1>2 DEF BeginsShutdown
  <2>. QED  BY <1>2, <2>1 DEF ShapeRecords, Leaves, WindowStates, Consistent, BeginsShutdown
<1>3. CASE ~win.final /\ win.sid = None
  <2>1. Completes(win, ClearSessionState(ctl)) /\ UNCHANGED calls
    BY <1>3 DEF BeginsShutdown
  <2>2. /\ ClearSessionState(ctl) \in GuardStates /\ Consistent(ClearSessionState(ctl))
        /\ Idle(ClearSessionState(ctl)) /\ ClearSessionState(ctl).lease = ctl.lease
        /\ ClearSessionState(ctl).pending = ctl.pending
    BY ClearedGuard DEF ShapeRecords, Idle
  <2>3. win.final \in BOOLEAN
    BY DEF ShapeRecords, WindowStates
  <2>. QED  BY <1>3, <2>1, <2>2, <2>3, CompletesRecords DEF ShapeRecords, Idle
<1>. QED  BY <1>1, <1>2, <1>3 DEF ShapeRecords, WindowStates

LEMMA RequestsRecords ==
    ASSUME ShapeRecords, quit \in BOOLEAN, target \in Session, NEW a \in Actions, Requests(a)
    PROVE  /\ ShapeRecords' /\ quit' \in BOOLEAN
           /\ Leaves(ctl, ctl')
           /\ win' = win \/ ~win'.open
           /\ \/ /\ ctl.pending # None
                 /\ UNCHANGED <<win, ctl, todo, headless, target>>
              \/ /\ ctl.pending = None /\ ctl'.pending = None /\ target' = None
                 /\ UNCHANGED <<todo, headless>>
              \/ /\ ctl.pending = None /\ ctl'.pending = a /\ UNCHANGED win
                 /\ target' = ctl.sid /\ ctl.sid # None
                 /\ \/ win.open /\ todo' /\ UNCHANGED headless
                    \/ /\ ~win.open /\ UNCHANGED todo
                       /\ headless' = [headless EXCEPT ![asked'] = [at |-> "begun", s |-> None]]
<1>1. CASE ctl.pending # None
  BY <1>1 DEF Requests, ShapeRecords, Leaves
<1>2. CASE ctl.pending = None /\ ~HasActiveSession
  <2>1. Completes(win, [ctl EXCEPT !.pending = a]) /\ UNCHANGED <<todo, headless>>
    BY <1>2 DEF Requests
  <2>2. PICK c \in GuardStates : c = [ctl EXCEPT !.pending = a]
    BY DEF ShapeRecords, GuardStates
  <2>3. Consistent(c) /\ Leaves(ctl, c) /\ c.pending = a
    BY <2>2 DEF ShapeRecords, GuardStates, Consistent, Leaves
  <2>4. a # None
    BY DiagnosticsGuardAssumption
  <2>. QED  BY <1>2, <2>1, <2>2, <2>3, <2>4, CompletesRecords DEF ShapeRecords, Leaves
<1>3. CASE ctl.pending = None /\ HasActiveSession
  <2>1. /\ ctl' = [ctl EXCEPT !.pending = a, !.timer = TRUE]
        /\ target' = IF ctl.term # None THEN ctl.term ELSE ctl.sid
        /\ \/ win.open /\ todo' /\ UNCHANGED headless
           \/ /\ ~win.open /\ UNCHANGED todo
              /\ headless' = [headless EXCEPT ![asked'] = [at |-> "begun", s |-> None]]
        /\ UNCHANGED <<win, quit>>
    BY <1>3 DEF Requests
  <2>2. ctl' \in GuardStates /\ Consistent(ctl') /\ Leaves(ctl, ctl') /\ ctl'.pending = a
    BY <2>1 DEF ShapeRecords, GuardStates, Consistent, Leaves
  <2>3. target' = ctl.sid /\ ctl.sid # None
    BY <1>3, <2>1 DEF ShapeRecords, Consistent, HasActiveSession
  <2>. QED  BY <1>3, <2>1, <2>2, <2>3 DEF ShapeRecords
<1>. QED  BY <1>1, <1>2, <1>3

LEMMA TimesOutRecords ==
    ASSUME ShapeRecords, TimesOut
    PROVE  /\ ShapeRecords' /\ UNCHANGED win
           /\ Leaves(ctl, ctl') /\ ctl'.pending = ctl.pending
<1>1. ctl' = [ctl EXCEPT !.timer = FALSE] /\ UNCHANGED win
  BY DEF TimesOut
<1>. QED  BY <1>1 DEF ShapeRecords, GuardStates, Consistent, Leaves

LEMMA ForcesRecords ==
    ASSUME ShapeRecords, quit \in BOOLEAN, NEW a \in Actions, Forces(a)
    PROVE  /\ ShapeRecords' /\ quit' \in BOOLEAN
           /\ Leaves(ctl, ctl') /\ (win' = win \/ ~win'.open)
           /\ ctl'.pending = None /\ target' = IF ctl.pending = None THEN target ELSE None
  BY CompletesRecords DEF Forces, ShapeRecords, Leaves

LEMMA GivesRecords ==
    ASSUME ShapeRecords, NEW a \in Actions, Gives(a)
    PROVE  /\ ShapeRecords' /\ UNCHANGED win
           /\ Leaves(ctl, ctl') /\ ctl'.pending = None
<1>1. ctl' = Consume(ctl) /\ UNCHANGED win
  BY DEF Gives
<1>. QED  BY <1>1, ConsumedGuard DEF ShapeRecords, Leaves

(* A thread without a window.                                              *)
LEMMA HeadlessBeginsRecords ==
    ASSUME ShapeRecords, quit \in BOOLEAN, NEW n \in 1..MaxActions, HeadlessBegins(n)
    PROVE  /\ ShapeRecords' /\ quit' \in BOOLEAN
           /\ Leaves(ctl, ctl') /\ (win' = win \/ ~win'.open)
           /\ \/ /\ ctl.sid = None /\ ctl'.pending = None
                 /\ target' = IF ctl.pending = None THEN target ELSE None
                 /\ headless' = [headless EXCEPT ![n] = NoThread] /\ UNCHANGED server
              \/ /\ ctl.sid # None /\ UNCHANGED <<win, ctl, target>>
                 /\ \E at \in {"aborted", "polls"} : headless' = [headless EXCEPT ![n] = [at |-> at, s |-> ctl.sid]]
                 /\ \/ UNCHANGED server
                    \/ server' = [server EXCEPT ![ctl.sid] = IF @ = "running" THEN "aborted" ELSE @]
<1>. DEFINE s == IF ctl.term # None THEN ctl.term ELSE ctl.sid
<1>1. s = ctl.sid
  BY DEF ShapeRecords, Consistent
<1>2. CASE ctl.sid = None
  <2>1. /\ Completes(win, ctl) /\ headless' = [headless EXCEPT ![n] = NoThread]
        /\ UNCHANGED server
    BY <1>1, <1>2 DEF HeadlessBegins
  <2>. QED  BY <1>2, <2>1, CompletesRecords DEF ShapeRecords, Leaves
<1>3. CASE ctl.sid # None
  BY <1>1, <1>3 DEF HeadlessBegins, ShapeRecords, Leaves
<1>. QED  BY <1>2, <1>3

LEMMA HeadlessNotesRecords ==
    ASSUME ShapeRecords, ShapeThreads, NEW n \in 1..MaxActions, HeadlessNotes(n)
    PROVE  /\ ShapeRecords' /\ UNCHANGED win
           /\ ctl'.lease = ctl.lease /\ ctl'.pending = ctl.pending
           /\ \/ /\ server[headless[n].s] = "aborted" /\ ctl'.sid = headless[n].s
                 /\ headless' = [headless EXCEPT ![n].at = "polls"]
              \/ /\ UNCHANGED ctl /\ headless' = [headless EXCEPT ![n] = NoThread]
<1>1. headless[n].s \in Session /\ headless[n].s # None
  BY DiagnosticsGuardAssumption DEF HeadlessNotes, ShapeThreads, Session
<1>2. \/ /\ server[headless[n].s] = "aborted" /\ ctl' = BeginsFinal(ctl, headless[n].s)
         /\ headless' = [headless EXCEPT ![n].at = "polls"] /\ UNCHANGED win
      \/ UNCHANGED <<win, ctl>> /\ headless' = [headless EXCEPT ![n] = NoThread]
  BY DEF HeadlessNotes
<1>3. ASSUME ctl' = BeginsFinal(ctl, headless[n].s)
      PROVE  /\ ctl' \in GuardStates /\ Consistent(ctl') /\ ctl'.sid = headless[n].s
             /\ ctl'.lease = ctl.lease /\ ctl'.pending = ctl.pending
  BY <1>1, <1>3, FinalGuard DEF ShapeRecords
<1>4. UNCHANGED win
  BY DEF HeadlessNotes
<1>. QED  BY <1>2, <1>3, <1>4 DEF ShapeRecords

LEMMA HeadlessEndsRecords ==
    ASSUME ShapeRecords, quit \in BOOLEAN, NEW n \in 1..MaxActions, HeadlessEnds(n)
    PROVE  /\ ShapeRecords' /\ quit' \in BOOLEAN
           /\ Idle(ctl') /\ (win' = win \/ ~win'.open)
           /\ ctl'.pending = None /\ target' = IF ctl.pending = None THEN target ELSE None
<1>1. Completes(win, ClearSessionState(Released(ctl)))
  BY DEF HeadlessEnds, Released
<1>2. Released(ctl) \in GuardStates /\ Released(ctl).pending = ctl.pending
  BY ReleasedGuard DEF ShapeRecords
<1>3. /\ ClearSessionState(Released(ctl)) \in GuardStates
      /\ Consistent(ClearSessionState(Released(ctl))) /\ Idle(ClearSessionState(Released(ctl)))
      /\ ClearSessionState(Released(ctl)).pending = ctl.pending
  BY <1>2, ClearedGuard DEF Idle
<1>. QED  BY <1>1, <1>3, CompletesRecords DEF ShapeRecords, Idle

LEMMA HeadlessGivesUpRecords ==
    ASSUME ShapeRecords, NEW n \in 1..MaxActions, HeadlessGivesUp(n)
    PROVE  ShapeRecords' /\ UNCHANGED <<win, ctl>>
  BY DEF HeadlessGivesUp, ShapeRecords

(* An answer.                                                              *)
LeaseMoves ==
    \/ win'.lease = ctl'.lease
    \/ win'.lease = win.lease /\ ctl'.lease = ctl.lease
SessionStays ==
    /\ win'.sid = win.sid /\ win'.final = win.final /\ win'.open = win.open
    /\ ctl'.sid = ctl.sid /\ ctl'.final = ctl.final /\ ctl'.pending = ctl.pending

LEMMA StartFailsRecords ==
    ASSUME ShapeRecords, NEW down, StartFails(down)
    PROVE  ShapeRecords' /\ SessionStays /\ LeaseMoves
<1>1. /\ Released(win) \in WindowStates /\ Consistent(Released(win))
      /\ Released(win).sid = win.sid /\ Released(win).final = win.final
      /\ Released(win).lease = None /\ Released(win).open = win.open
  BY ReleasedWindow DEF ShapeRecords
<1>2. /\ Released(ctl) \in GuardStates /\ Consistent(Released(ctl))
      /\ Released(ctl).sid = ctl.sid /\ Released(ctl).final = ctl.final
      /\ Released(ctl).lease = None /\ Released(ctl).pending = ctl.pending
  BY ReleasedGuard DEF ShapeRecords
<1>3. \/ win' = [Released(win) EXCEPT !.start = FALSE, !.retried = TRUE] /\ ctl' = Released(ctl)
      \/ /\ win' = [Released(win) EXCEPT !.start = TRUE]
         /\ \/ ctl' = Released(ctl)
            \/ ctl' = ctl /\ win.lease = None
  BY DEF StartFails
<1>4. /\ win' \in WindowStates /\ Consistent(win')
      /\ win'.sid = win.sid /\ win'.final = win.final /\ win'.lease = None /\ win'.open = win.open
  BY <1>1, <1>3 DEF WindowStates, Consistent
<1>5. /\ ctl' \in GuardStates /\ Consistent(ctl')
      /\ ctl'.sid = ctl.sid /\ ctl'.final = ctl.final /\ ctl'.pending = ctl.pending
      /\ \/ ctl'.lease = None
         \/ ctl'.lease = ctl.lease /\ win.lease = None
  BY <1>2, <1>3 DEF ShapeRecords
<1>. QED  BY <1>4, <1>5 DEF ShapeRecords, SessionStays, LeaseMoves

LEMMA HandleBootRecords ==
    ASSUME ShapeRecords, NEW m \in results, NamesItsOwn(m), HandleBoot(m)
    PROVE  ShapeRecords' /\ SessionStays /\ LeaseMoves
<1>1. CASE m.res = "ok"
  <2>1. /\ win' = [win EXCEPT !.lease = m.s] /\ ctl' = [ctl EXCEPT !.lease = m.s] /\ m.s \in Lease
    BY <1>1 DEF HandleBoot, NamesItsOwn, Lease
  <2>2. win' \in WindowStates /\ Consistent(win') /\ win'.sid = win.sid /\ win'.final = win.final
        /\ win'.open = win.open /\ win'.lease = m.s
    BY <2>1 DEF ShapeRecords, WindowStates, Consistent
  <2>3. ctl' \in GuardStates /\ Consistent(ctl') /\ ctl'.sid = ctl.sid /\ ctl'.final = ctl.final
        /\ ctl'.pending = ctl.pending /\ ctl'.lease = m.s
    BY <2>1 DEF ShapeRecords, GuardStates, Consistent
  <2>. QED  BY <2>2, <2>3 DEF ShapeRecords, SessionStays, LeaseMoves
<1>2. ASSUME \/ win' = [win EXCEPT !.boot = FALSE]
             \/ win' = [win EXCEPT !.start = TRUE],
             UNCHANGED ctl
      PROVE  ShapeRecords' /\ SessionStays /\ LeaseMoves
  BY <1>2 DEF ShapeRecords, WindowStates, Consistent, SessionStays, LeaseMoves
<1>3. \/ m.res = "ok"
      \/ win' = [win EXCEPT !.boot = FALSE] /\ UNCHANGED ctl
      \/ win' = [win EXCEPT !.start = TRUE] /\ UNCHANGED ctl
      \/ StartFails(m.res = "down")
  BY DEF HandleBoot
<1>. QED  BY <1>1, <1>2, <1>3, StartFailsRecords

LEMMA HandleStartRecords ==
    ASSUME ShapeRecords, NEW m \in results, NamesItsOwn(m), HandleStart(m)
    PROVE  /\ ShapeRecords'
           /\ \/ /\ m.res \in {"ok", "active"} /\ m.s \in Sessions
                 /\ win'.sid = m.s /\ win'.final = FALSE /\ win'.lease = win.lease
                 /\ win'.open = win.open /\ ~win'.start
                 /\ ctl'.sid = m.s /\ ctl'.final = FALSE /\ ctl'.lease = ctl.lease
                 /\ ctl'.pending = ctl.pending
              \/ StartFails(m.res = "down") /\ SessionStays /\ LeaseMoves
<1>1. CASE m.res \in {"ok", "active"} /\ Activates(m.s)
  <2>1. m.s \in Sessions /\ m.s \in Session
    BY <1>1 DEF HandleStart, NamesItsOwn, Session
  <2>2. PICK w \in WindowStates :
            w = [win EXCEPT !.sid = m.s, !.final = FALSE, !.term = None, !.start = FALSE,
                            !.abort = TRUE, !.events = m.s]
    BY <2>1 DEF ShapeRecords, WindowStates, Session
  <2>3. Consistent(w) /\ w.sid = m.s /\ w.final = FALSE /\ w.lease = win.lease /\ w.open = win.open /\ ~w.start
    BY <2>2 DEF ShapeRecords, WindowStates, Consistent
  <2>4. win' = Refreshed(w) /\ ctl' = SetSessionActive(ctl, m.s)
    BY <1>1, <2>2 DEF Activates
  <2>. QED  BY <1>1, <2>1, <2>3, <2>4, RefreshedWindow, ActiveGuard DEF ShapeRecords
<1>2. CASE StartFails(m.res = "down")
  BY <1>2, StartFailsRecords
<1>. QED  BY <1>1, <1>2 DEF HandleStart

LEMMA HandleAbortRecords ==
    ASSUME ShapeRecords, NEW m \in results, NamesItsOwn(m), HandleAbort(m)
    PROVE  /\ ShapeRecords' /\ win'.open = win.open
           /\ win'.lease = win.lease /\ ctl'.lease = ctl.lease /\ ctl'.pending = ctl.pending
           /\ \/ /\ m.s \in Sessions /\ Mixes(m) /\ ~win'.start
                 /\ win'.sid = m.s /\ win'.final = TRUE
                 /\ ctl'.sid = m.s /\ ctl'.final = TRUE
              \/ /\ Leaves(win, win') /\ win'.start = win.start /\ UNCHANGED <<ctl, mixed>>
<1>1. CASE m.res = "ok"
  <2>1. m.s \in Sessions /\ m.s \in Session /\ m.s # None
    BY DiagnosticsGuardAssumption DEF HandleAbort, NamesItsOwn, Session
  <2>2. PICK w \in WindowStates :
            w = [win EXCEPT !.sid = m.s, !.final = TRUE, !.term = m.s, !.start = FALSE,
                            !.abort = FALSE]
    BY <2>1 DEF ShapeRecords, WindowStates
  <2>3. Consistent(w) /\ w.sid = m.s /\ w.final = TRUE /\ w.lease = win.lease /\ w.open = win.open /\ ~w.start
    BY <2>1, <2>2 DEF ShapeRecords, WindowStates, Consistent
  <2>4. win' = Refreshed(w) /\ ctl' = BeginsFinal(ctl, m.s) /\ Mixes(m)
    BY <1>1, <2>2 DEF HandleAbort
  <2>. QED  BY <1>1, <2>1, <2>3, <2>4, RefreshedWindow, FinalGuard DEF ShapeRecords
<1>2. CASE m.res # "ok"
  <2>1. win' = [win EXCEPT !.abort = TRUE] /\ UNCHANGED <<ctl, mixed>>
    BY <1>2 DEF HandleAbort
  <2>. QED  BY <2>1 DEF ShapeRecords, WindowStates, Consistent, Leaves
<1>. QED  BY <1>1, <1>2

LEMMA FinalizesRecords ==
    ASSUME ShapeRecords, quit \in BOOLEAN, Finalizes
    PROVE  /\ ShapeRecords' /\ quit' \in BOOLEAN
           /\ \/ Idle(win') /\ win'.lease = None /\ win'.start /\ win'.open = win.open
              \/ ~win'.open
           /\ Idle(ctl') /\ ctl'.lease = (IF win.lease = None THEN ctl.lease ELSE None)
           /\ ctl'.pending = None /\ target' = IF ctl.pending = None THEN target ELSE None
<1>1. PICK c \in GuardStates : c = IF win.lease = None THEN ctl ELSE Released(ctl)
  BY ReleasedGuard DEF ShapeRecords
<1>2. c.pending = ctl.pending /\ c.lease = (IF win.lease = None THEN ctl.lease ELSE None)
  BY <1>1, ReleasedGuard DEF ShapeRecords
<1>3. Completes(Ended, ClearSessionState(c))
  BY <1>1 DEF Finalizes
<1>4. /\ ClearSessionState(c) \in GuardStates /\ Consistent(ClearSessionState(c))
      /\ Idle(ClearSessionState(c)) /\ ClearSessionState(c).lease = c.lease
      /\ ClearSessionState(c).pending = ctl.pending
  BY <1>1, <1>2, ClearedGuard DEF Idle
<1>5. Ended \in WindowStates /\ Consistent(Ended) /\ Idle(Ended) /\ Ended.lease = None /\ Ended.start
      /\ Ended.open = win.open
  BY EndedWindow DEF ShapeRecords, Idle
<1>. QED  BY <1>2, <1>3, <1>4, <1>5, CompletesRecords DEF ShapeRecords, Idle

EndsHere ==
    /\ \/ Idle(win') /\ win'.lease = None /\ win'.start /\ win'.open = win.open
       \/ ~win'.open
    /\ Idle(ctl') /\ ctl'.lease = (IF win.lease = None THEN ctl.lease ELSE None)
    /\ ctl'.pending = None /\ target' = IF ctl.pending = None THEN target ELSE None

LEMMA HandleStatusRecords ==
    ASSUME ShapeRecords, quit \in BOOLEAN, NEW m \in results, HandleStatus(m)
    PROVE  /\ ShapeRecords' /\ quit' \in BOOLEAN
           /\ \/ m.res \in {"gone", "aborted"} /\ Mixes(m) /\ EndsHere
              \/ /\ m.res = "gone" /\ Mixes(m) /\ UNCHANGED <<target, calls>>
                 /\ Idle(win') /\ win'.lease = win.lease /\ win'.open = win.open /\ win'.start
                 /\ Idle(ctl') /\ ctl'.lease = ctl.lease /\ ctl'.pending = ctl.pending
              \/ /\ Leaves(win, win') /\ win'.open = win.open /\ (win'.start => win.start)
                 /\ UNCHANGED <<ctl, target, calls, mixed>>
<1>1. CASE m.res \in {"gone", "aborted"} /\ Mixes(m) /\ Finalizes
  BY <1>1, FinalizesRecords DEF EndsHere
<1>2. CASE m.res = "gone" /\ Mixes(m) /\ ~win.final /\ Forgets
  <2>1. /\ win' = [win EXCEPT !.sid = None, !.start = TRUE, !.abort = FALSE, !.refresh = FALSE,
                              !.events = None]
        /\ ctl' = ClearSessionState(ctl) /\ UNCHANGED <<calls, target, quit>>
    BY <1>2 DEF Forgets
  <2>2. win' \in WindowStates /\ Consistent(win') /\ Idle(win') /\ win'.lease = win.lease
        /\ win'.open = win.open /\ win'.start
    BY <1>2, <2>1 DEF ShapeRecords, WindowStates, Consistent, Idle, Session
  <2>. QED  BY <1>2, <2>1, <2>2, ClearedGuard DEF ShapeRecords, Idle
<1>3. CASE /\ UNCHANGED <<ctl, calls, target, quit, mixed>>
           /\ \/ win' = [win EXCEPT !.refresh = FALSE]
              \/ win' = [[win EXCEPT !.refresh = FALSE] EXCEPT !.start = FALSE, !.abort = FALSE]
  BY <1>3 DEF ShapeRecords, WindowStates, Consistent, Leaves
<1>. QED  BY <1>1, <1>2, <1>3 DEF HandleStatus, Forgets

LEMMA HandleDoneRecords ==
    ASSUME ShapeRecords, quit \in BOOLEAN, NEW m \in results, NamesItsOwn(m), HandleDone(m)
    PROVE  /\ ShapeRecords' /\ quit' \in BOOLEAN
           /\ \/ m.s = win.sid /\ EndsHere
              \/ UNCHANGED <<win, ctl, calls, target>>
<1>1. m.s # None
  BY DiagnosticsGuardAssumption DEF HandleDone, NamesItsOwn
<1>2. CASE m.s \in {win.sid, win.term}
  <2>1. m.s = win.sid
    BY <1>1, <1>2 DEF ShapeRecords, Consistent
  <2>2. Finalizes
    BY <1>2 DEF HandleDone
  <2>. QED  BY <2>1, <2>2, FinalizesRecords DEF EndsHere
<1>3. CASE m.s \notin {win.sid, win.term}
  BY <1>3 DEF HandleDone, ShapeRecords
<1>. QED  BY <1>2, <1>3

-----------------------------------------------------------------------------
(* Every action keeps the shape.                                           *)

LEMMA ThreadMoves ==
    ASSUME ShapeThreads, NEW n \in 1..MaxActions, NEW h \in Threads,
           h.at \in {"aborted", "polls"} => h.s \in Sessions,
           headless' = [headless EXCEPT ![n] = h]
    PROVE  ShapeThreads'
  BY DEF ShapeThreads

LEMMA OpensShape ==
    ASSUME Shape, Opens
    PROVE  Shape'
<1>1. ShapeRecords'
  BY OpensRecords DEF Shape, ShapeRest
<1>2. ShapeTraffic'
  BY DEF Shape, ShapeRecords, ShapeTraffic, ShapeRest, WindowStates, GuardStates, CallRecords,
            MsgRecords, NamesItsOwn, Session, Lease, Opens, Fresh, SetSessionActive, counters,
            cloud
<1>3. ShapeThreads'
  BY DEF Shape, ShapeRecords, ShapeThreads, ShapeRest, GuardStates, Threads, Session, Opens,
            Fresh, SetSessionActive, counters, cloud
<1>4. ShapeRest'
  <2>1. overlap' \in BOOLEAN
    BY DEF Opens
  <2>2. windows' \in 0..MaxWindows
    BY DiagnosticsGuardAssumption DEF Opens, Shape, ShapeRest
  <2>. QED  BY <2>1, <2>2 DEF Opens, Shape, ShapeRest, cloud
<1>. QED  BY <1>1, <1>2, <1>3, <1>4 DEF Shape

LEMMA StartClickedShape ==
    ASSUME Shape, StartClicked
    PROVE  Shape'
<1>1. ShapeRecords'
  BY StartClickedRecords DEF Shape, ShapeRest
<1>2. ShapeTraffic'
  <2>1. PICK k \in {"boot", "start"} : calls' \subseteq calls \cup {Call(k, None)}
    BY DEF StartClicked, Sends
  <2>2. Call(k, None) \in CallRecords
    BY DEF Shape, ShapeRest, Call, CallRecords, Session
  <2>3. Call(k, None).kind = k /\ Call(k, None).w = windows
    BY DEF Call
  <2>4. UNCHANGED <<results, windows>> /\ win.open
    BY DEF StartClicked
  <2>5. windows \in 0..windows
    BY DEF Shape, ShapeRest
  <2>6. ~win'.open => results' = {}
    BY <2>4, StartClickedRecords DEF Shape
  <2>. QED  BY <2>1, <2>2, <2>3, <2>4, <2>5, <2>6 DEF Shape, ShapeTraffic, NamesItsOwn
<1>3. ShapeThreads'
  BY DEF Shape, ShapeRecords, ShapeThreads, ShapeRest, GuardStates, Threads, Session,
            StartClicked, Sends, Call, cloud, counters
<1>4. ShapeRest'
  BY DiagnosticsGuardAssumption
     DEF Shape, ShapeRecords, ShapeThreads, ShapeRest, GuardStates, Session, Lease,
         StartClicked, Sends, Call, cloud, counters
<1>. QED  BY <1>1, <1>2, <1>3, <1>4 DEF Shape

LEMMA AbortClickedShape ==
    ASSUME Shape, AbortClicked
    PROVE  Shape'
<1>1. ShapeRecords'
  BY AbortClickedRecords DEF Shape, ShapeRest
<1>2. ShapeTraffic'
  BY DEF Shape, ShapeRecords, ShapeTraffic, ShapeRest, WindowStates, GuardStates, CallRecords,
            MsgRecords, NamesItsOwn, Session, Lease, AbortClicked, Sends, Call, cloud,
            counters
<1>3. ShapeThreads'
  BY DEF Shape, ShapeRecords, ShapeThreads, ShapeRest, GuardStates, Threads, Session,
            AbortClicked, Sends, Call, cloud, counters
<1>4. ShapeRest'
  BY DiagnosticsGuardAssumption
     DEF Shape, ShapeRecords, ShapeThreads, ShapeRest, GuardStates, Session, Lease,
         AbortClicked, Sends, Call, cloud, counters
<1>. QED  BY <1>1, <1>2, <1>3, <1>4 DEF Shape

LEMMA PollsStatusShape ==
    ASSUME Shape, PollsStatus
    PROVE  Shape'
<1>1. ShapeRecords'
  BY PollsStatusRecords DEF Shape, ShapeRest
<1>2. ShapeTraffic'
  BY DEF Shape, ShapeRecords, ShapeTraffic, ShapeRest, WindowStates, GuardStates, CallRecords,
            MsgRecords, NamesItsOwn, Session, Lease, PollsStatus, Refresh, Refreshed, Sends,
            Call, rest, counters
<1>3. ShapeThreads'
  BY DEF Shape, ShapeRecords, ShapeThreads, ShapeRest, GuardStates, Threads, Session,
            PollsStatus, Refresh, Refreshed, Sends, Call, rest, counters
<1>4. ShapeRest'
  BY DiagnosticsGuardAssumption
     DEF Shape, ShapeRecords, ShapeThreads, ShapeRest, GuardStates, Session, Lease,
         PollsStatus, Refresh, Refreshed, Sends, Call, rest, counters
<1>. QED  BY <1>1, <1>2, <1>3, <1>4 DEF Shape

LEMMA BeginsShutdownShape ==
    ASSUME Shape, BeginsShutdown
    PROVE  Shape'
<1>1. ShapeRecords'
  BY BeginsShutdownRecords DEF Shape, ShapeRest
<1>2. ShapeTraffic'
  BY DEF Shape, ShapeRecords, ShapeTraffic, ShapeRest, WindowStates, GuardStates, CallRecords,
            MsgRecords, NamesItsOwn, Session, Lease, BeginsShutdown, Refresh, Refreshed,
            Sends, Call, Completes, Consume, Destroys, Fresh, ClearSessionState,
            SetSessionActive, rest, counters
<1>3. ShapeThreads'
  BY DEF Shape, ShapeRecords, ShapeThreads, ShapeRest, GuardStates, Threads, Session,
            BeginsShutdown, Refresh, Refreshed, Sends, Call, Completes, Consume, Destroys,
            Fresh, ClearSessionState, SetSessionActive, rest, counters
<1>4. ShapeRest'
  BY DiagnosticsGuardAssumption
     DEF Shape, ShapeRecords, ShapeThreads, ShapeRest, GuardStates, Session, Lease,
         BeginsShutdown, Refresh, Refreshed, Sends, Call, Completes, Consume, Destroys, Fresh,
         ClearSessionState, SetSessionActive, rest, counters
<1>. QED  BY <1>1, <1>2, <1>3, <1>4 DEF Shape

LEMMA RequestsShape ==
    ASSUME Shape, NEW a \in Actions, Requests(a)
    PROVE  Shape'
<1>1. ShapeRecords'
  BY RequestsRecords DEF Shape, ShapeRest
<1>2. ShapeTraffic'
  BY DEF Shape, ShapeRecords, ShapeTraffic, ShapeRest, WindowStates, GuardStates, CallRecords,
            MsgRecords, NamesItsOwn, Session, Lease, Requests, HasActiveSession, Completes,
            Consume, Destroys, Fresh, cloud
<1>3. ShapeThreads'
  <2>1. asked' \in 1..MaxActions
    BY DiagnosticsGuardAssumption DEF Requests, Shape, ShapeRest
  <2>2. \/ UNCHANGED headless
        \/ headless' = [headless EXCEPT ![asked'] = [at |-> "begun", s |-> None]]
    BY RequestsRecords DEF Shape, ShapeRest
  <2>3. /\ [at |-> "begun", s |-> None] \in Threads
        /\ [at |-> "begun", s |-> None].at = "begun"
    BY DEF Threads, Session
  <2>. QED  BY <2>1, <2>2, <2>3, ThreadMoves DEF Shape, ShapeThreads
<1>4. ShapeRest'
  <2>1. target' \in Session /\ quit' \in BOOLEAN /\ todo' \in BOOLEAN
    BY RequestsRecords DEF Shape, ShapeRecords, GuardStates, ShapeRest, Session
  <2>2. asked' \in 0..MaxActions
    BY DiagnosticsGuardAssumption DEF Requests, Shape, ShapeRest
  <2>. QED  BY <2>1, <2>2 DEF Requests, Shape, ShapeRest, cloud
<1>. QED  BY <1>1, <1>2, <1>3, <1>4 DEF Shape

LEMMA TimesOutShape ==
    ASSUME Shape, TimesOut
    PROVE  Shape'
<1>1. ShapeRecords'
  BY TimesOutRecords DEF Shape, ShapeRest
<1>2. ShapeTraffic'
  BY DEF Shape, ShapeRecords, ShapeTraffic, ShapeRest, WindowStates, GuardStates, CallRecords,
            MsgRecords, NamesItsOwn, Session, Lease, TimesOut, Fails, rest, counters
<1>3. ShapeThreads'
  BY DEF Shape, ShapeRecords, ShapeThreads, ShapeRest, GuardStates, Threads, Session,
            TimesOut, Fails, rest, counters
<1>4. ShapeRest'
  BY DiagnosticsGuardAssumption
     DEF Shape, ShapeRecords, ShapeThreads, ShapeRest, GuardStates, Session, Lease, TimesOut,
         Fails, rest, counters
<1>. QED  BY <1>1, <1>2, <1>3, <1>4 DEF Shape

LEMMA ForcesShape ==
    ASSUME Shape, NEW a \in Actions, Forces(a)
    PROVE  Shape'
<1>1. ShapeRecords'
  BY ForcesRecords DEF Shape, ShapeRest
<1>2. ShapeTraffic'
  BY DEF Shape, ShapeRecords, ShapeTraffic, ShapeRest, WindowStates, GuardStates, CallRecords,
            MsgRecords, NamesItsOwn, Session, Lease, Forces, Completes, Consume, Destroys,
            Fresh, rest, counters
<1>3. ShapeThreads'
  BY DEF Shape, ShapeRecords, ShapeThreads, ShapeRest, GuardStates, Threads, Session, Forces,
            Completes, Consume, Destroys, Fresh, rest, counters
<1>4. ShapeRest'
  BY DiagnosticsGuardAssumption
     DEF Shape, ShapeRecords, ShapeThreads, ShapeRest, GuardStates, Session, Lease, Forces,
         Completes, Consume, Destroys, Fresh, rest, counters
<1>. QED  BY <1>1, <1>2, <1>3, <1>4 DEF Shape

LEMMA GivesShape ==
    ASSUME Shape, NEW a \in Actions, Gives(a)
    PROVE  Shape'
<1>1. ShapeRecords'
  BY GivesRecords DEF Shape, ShapeRest
<1>2. ShapeTraffic'
  BY DEF Shape, ShapeRecords, ShapeTraffic, ShapeRest, WindowStates, GuardStates, CallRecords,
            MsgRecords, NamesItsOwn, Session, Lease, Gives, Consume, rest, counters
<1>3. ShapeThreads'
  BY DEF Shape, ShapeRecords, ShapeThreads, ShapeRest, GuardStates, Threads, Session, Gives,
            Consume, rest, counters
<1>4. ShapeRest'
  BY DiagnosticsGuardAssumption
     DEF Shape, ShapeRecords, ShapeThreads, ShapeRest, GuardStates, Session, Lease, Gives,
         Consume, rest, counters
<1>. QED  BY <1>1, <1>2, <1>3, <1>4 DEF Shape

LEMMA HeadlessBeginsShape ==
    ASSUME Shape, NEW n \in 1..MaxActions, HeadlessBegins(n)
    PROVE  Shape'
<1>1. ShapeRecords'
  BY HeadlessBeginsRecords DEF Shape, ShapeRest
<1>2. ShapeTraffic'
  BY DEF Shape, ShapeRecords, ShapeTraffic, ShapeRest, WindowStates, GuardStates, CallRecords,
            MsgRecords, NamesItsOwn, Session, Lease, HeadlessBegins, Completes, Consume,
            Destroys, Fresh, NoThread, counters
<1>3. ShapeThreads'
  <2>1. \/ headless' = [headless EXCEPT ![n] = NoThread]
        \/ /\ ctl.sid # None
           /\ \E at \in {"aborted", "polls"} : headless' = [headless EXCEPT ![n] = [at |-> at, s |-> ctl.sid]]
    BY HeadlessBeginsRecords DEF Shape, ShapeRest
  <2>2. ctl.sid \in Session
    BY DEF Shape, ShapeRecords, GuardStates
  <2>3. NoThread \in Threads /\ NoThread.at = "none"
    BY DEF NoThread, Threads, Session
  <2>4. ASSUME ctl.sid # None, NEW at \in {"aborted", "polls"}
        PROVE  /\ [at |-> at, s |-> ctl.sid] \in Threads
               /\ [at |-> at, s |-> ctl.sid].s \in Sessions
    BY <2>2, <2>4 DEF Threads, Session
  <2>5. CASE headless' = [headless EXCEPT ![n] = NoThread]
    BY <2>3, <2>5, ThreadMoves DEF Shape
  <2>6. ASSUME ctl.sid # None, NEW at \in {"aborted", "polls"},
               headless' = [headless EXCEPT ![n] = [at |-> at, s |-> ctl.sid]]
        PROVE  ShapeThreads'
    <3> DEFINE h == [at |-> at, s |-> ctl.sid]
    <3>1. h \in Threads /\ h.s \in Sessions /\ headless' = [headless EXCEPT ![n] = h]
      <4>1. headless' = [headless EXCEPT ![n] = h]
        BY <2>6
      <4>2. h \in Threads /\ h.s \in Sessions
        BY <2>6, <2>4
      <4>. QED  BY <4>1, <4>2
    <3> HIDE DEF h
    <3>. QED  BY <3>1, ThreadMoves DEF Shape
  <2>. QED  BY <2>1, <2>5, <2>6
<1>4. ShapeRest'
  BY DiagnosticsGuardAssumption
     DEF Shape, ShapeRecords, ShapeThreads, ShapeRest, GuardStates, Session, Lease,
         HeadlessBegins, Completes, Consume, Destroys, Fresh, NoThread, counters
<1>. QED  BY <1>1, <1>2, <1>3, <1>4 DEF Shape

LEMMA HeadlessNotesShape ==
    ASSUME Shape, NEW n \in 1..MaxActions, HeadlessNotes(n)
    PROVE  Shape'
<1>1. ShapeRecords'
  BY HeadlessNotesRecords DEF Shape, ShapeRest
<1>2. ShapeTraffic'
  BY DEF Shape, ShapeRecords, ShapeTraffic, ShapeRest, WindowStates, GuardStates, CallRecords,
            MsgRecords, NamesItsOwn, Session, Lease, HeadlessNotes, BeginsFinal, Fails,
            NoThread, counters, cloud
<1>3. ShapeThreads'
  <2>1. \/ headless' = [headless EXCEPT ![n] = NoThread]
        \/ headless' = [headless EXCEPT ![n].at = "polls"]
    BY HeadlessNotesRecords DEF Shape
  <2>2. headless[n].s \in Sessions
    BY DEF HeadlessNotes, Shape, ShapeThreads
  <2>3. NoThread \in Threads /\ NoThread.at = "none"
    BY DEF NoThread, Threads, Session
  <2>4. /\ [headless[n] EXCEPT !.at = "polls"] \in Threads
        /\ [headless[n] EXCEPT !.at = "polls"].s = headless[n].s
    BY DEF Shape, ShapeThreads, Threads
  <2>. QED  BY <2>1, <2>2, <2>3, <2>4, ThreadMoves DEF Shape
<1>4. ShapeRest'
  BY DiagnosticsGuardAssumption
     DEF Shape, ShapeRecords, ShapeThreads, ShapeRest, GuardStates, Session, Lease,
         HeadlessNotes, BeginsFinal, Fails, NoThread, counters, cloud
<1>. QED  BY <1>1, <1>2, <1>3, <1>4 DEF Shape

LEMMA HeadlessEndsShape ==
    ASSUME Shape, NEW n \in 1..MaxActions, HeadlessEnds(n)
    PROVE  Shape'
<1>1. ShapeRecords'
  BY HeadlessEndsRecords DEF Shape, ShapeRest
<1>2. ShapeTraffic'
  BY DEF Shape, ShapeRecords, ShapeTraffic, ShapeRest, WindowStates, GuardStates, CallRecords,
            MsgRecords, NamesItsOwn, Session, Lease, HeadlessEnds, Sends, Call,
            ClearSessionState, SetSessionActive, Completes, Consume, Destroys, Fresh,
            NoThread, counters, cloud
<1>3. ShapeThreads'
  BY DEF Shape, ShapeRecords, ShapeThreads, ShapeRest, GuardStates, Threads, Session,
            HeadlessEnds, Sends, Call, ClearSessionState, SetSessionActive, Completes,
            Consume, Destroys, Fresh, NoThread, counters, cloud
<1>4. ShapeRest'
  BY DiagnosticsGuardAssumption
     DEF Shape, ShapeRecords, ShapeThreads, ShapeRest, GuardStates, Session, Lease,
         HeadlessEnds, Sends, Call, ClearSessionState, SetSessionActive, Completes, Consume,
         Destroys, Fresh, NoThread, counters, cloud
<1>. QED  BY <1>1, <1>2, <1>3, <1>4 DEF Shape

LEMMA HeadlessGivesUpShape ==
    ASSUME Shape, NEW n \in 1..MaxActions, HeadlessGivesUp(n)
    PROVE  Shape'
<1>1. ShapeRecords'
  BY HeadlessGivesUpRecords DEF Shape, ShapeRest
<1>2. ShapeTraffic'
  BY DEF Shape, ShapeRecords, ShapeTraffic, ShapeRest, WindowStates, GuardStates, CallRecords,
            MsgRecords, NamesItsOwn, Session, Lease, HeadlessGivesUp, Fails, NoThread,
            counters, cloud
<1>3. ShapeThreads'
  BY DEF Shape, ShapeRecords, ShapeThreads, ShapeRest, GuardStates, Threads, Session,
            HeadlessGivesUp, Fails, NoThread, counters, cloud
<1>4. ShapeRest'
  BY DiagnosticsGuardAssumption
     DEF Shape, ShapeRecords, ShapeThreads, ShapeRest, GuardStates, Session, Lease,
         HeadlessGivesUp, Fails, NoThread, counters, cloud
<1>. QED  BY <1>1, <1>2, <1>3, <1>4 DEF Shape

LEMMA HandleBootShape ==
    ASSUME Shape, NEW m \in results, HandleBoot(m)
    PROVE  Shape'
<1>1. ShapeRecords'
  BY HandleBootRecords DEF Shape, ShapeTraffic, ShapeRest
<1>2. ShapeTraffic'
  BY DEF Shape, ShapeRecords, ShapeTraffic, ShapeRest, WindowStates, GuardStates, CallRecords,
            MsgRecords, NamesItsOwn, Session, Lease, HandleBoot, Takes, Sends, Call,
            StartFails, Release, Released, rest, counters
<1>3. ShapeThreads'
  BY DEF Shape, ShapeRecords, ShapeThreads, ShapeRest, GuardStates, Threads, Session,
            HandleBoot, Takes, Sends, Call, StartFails, Release, Released, rest, counters
<1>4. ShapeRest'
  BY DiagnosticsGuardAssumption
     DEF Shape, ShapeRecords, ShapeThreads, ShapeRest, GuardStates, Session, Lease,
         HandleBoot, Takes, Sends, Call, StartFails, Release, Released, rest, counters
<1>. QED  BY <1>1, <1>2, <1>3, <1>4 DEF Shape

LEMMA HandleStartShape ==
    ASSUME Shape, NEW m \in results, HandleStart(m)
    PROVE  Shape'
<1>1. ShapeRecords'
  BY HandleStartRecords DEF Shape, ShapeTraffic, ShapeRest
<1>2. ShapeTraffic'
  BY DEF Shape, ShapeRecords, ShapeTraffic, ShapeRest, WindowStates, GuardStates, CallRecords,
            MsgRecords, NamesItsOwn, Session, Lease, HandleStart, Takes, Sends, Call,
            Activates, Refresh, Refreshed, SetSessionActive, StartFails, Release, Released,
            rest, counters
<1>3. ShapeThreads'
  BY DEF Shape, ShapeRecords, ShapeThreads, ShapeRest, GuardStates, Threads, Session,
            HandleStart, Takes, Sends, Call, Activates, Refresh, Refreshed, SetSessionActive,
            StartFails, Release, Released, rest, counters
<1>4. ShapeRest'
  BY DiagnosticsGuardAssumption
     DEF Shape, ShapeRecords, ShapeThreads, ShapeRest, GuardStates, Session, Lease,
         HandleStart, Takes, Sends, Call, Activates, Refresh, Refreshed, SetSessionActive,
         StartFails, Release, Released, rest, counters
<1>. QED  BY <1>1, <1>2, <1>3, <1>4 DEF Shape

LEMMA HandleAbortShape ==
    ASSUME Shape, NEW m \in results, HandleAbort(m)
    PROVE  Shape'
<1>1. ShapeRecords'
  BY HandleAbortRecords DEF Shape, ShapeTraffic, ShapeRest
<1>2. ShapeTraffic'
  BY DEF Shape, ShapeRecords, ShapeTraffic, ShapeRest, WindowStates, GuardStates, CallRecords,
            MsgRecords, NamesItsOwn, Session, Lease, HandleAbort, Takes, Sends, Call, Refresh,
            Refreshed, BeginsFinal, Fails, Mixes, unmixed, counters
<1>3. ShapeThreads'
  BY DEF Shape, ShapeRecords, ShapeThreads, ShapeRest, GuardStates, Threads, Session,
            HandleAbort, Takes, Sends, Call, Refresh, Refreshed, BeginsFinal, Fails, Mixes,
            unmixed, counters
<1>4. ShapeRest'
  <2>1. mixed' \in BOOLEAN
    BY DEF HandleAbort, Mixes, Shape, ShapeRest
  <2>2. dialogs' \subseteq Actions
    BY DEF HandleAbort, Fails, Shape, ShapeRecords, GuardStates, ShapeRest
  <2>. QED  BY <2>1, <2>2 DEF HandleAbort, Shape, ShapeRest, unmixed, counters
<1>. QED  BY <1>1, <1>2, <1>3, <1>4 DEF Shape

LEMMA HandleStatusShape ==
    ASSUME Shape, NEW m \in results, HandleStatus(m)
    PROVE  Shape'
<1>1. ShapeRecords'
  BY HandleStatusRecords DEF Shape, ShapeTraffic, ShapeRest
<1>2. ShapeTraffic'
  BY DEF Shape, ShapeRecords, ShapeTraffic, ShapeRest, WindowStates, GuardStates, CallRecords,
            MsgRecords, NamesItsOwn, Session, Lease, HandleStatus, Takes, Sends, Call,
            Forgets, Finalizes, Ended, ClearSessionState, SetSessionActive, Release, Released,
            Completes, Consume, Destroys, Fresh, Mixes, unmixed, counters
<1>3. ShapeThreads'
  BY DEF Shape, ShapeRecords, ShapeThreads, ShapeRest, GuardStates, Threads, Session,
            HandleStatus, Takes, Sends, Call, Forgets, Finalizes, Ended, ClearSessionState,
            SetSessionActive, Release, Released, Completes, Consume, Destroys, Fresh, Mixes,
            unmixed, counters
<1>4. ShapeRest'
  BY DiagnosticsGuardAssumption
     DEF Shape, ShapeRecords, ShapeThreads, ShapeRest, GuardStates, Session, Lease,
         HandleStatus, Takes, Sends, Call, Forgets, Finalizes, Ended, ClearSessionState,
         SetSessionActive, Release, Released, Completes, Consume, Destroys, Fresh, Mixes,
         unmixed, counters
<1>. QED  BY <1>1, <1>2, <1>3, <1>4 DEF Shape

LEMMA HandleDoneShape ==
    ASSUME Shape, NEW m \in results, HandleDone(m)
    PROVE  Shape'
<1>1. ShapeRecords'
  BY HandleDoneRecords DEF Shape, ShapeTraffic, ShapeRest
<1>2. ShapeTraffic'
  BY DEF Shape, ShapeRecords, ShapeTraffic, ShapeRest, WindowStates, GuardStates, CallRecords,
            MsgRecords, NamesItsOwn, Session, Lease, HandleDone, Takes, Sends, Call,
            Finalizes, Ended, ClearSessionState, SetSessionActive, Release, Released,
            Completes, Consume, Destroys, Fresh, rest, counters
<1>3. ShapeThreads'
  BY DEF Shape, ShapeRecords, ShapeThreads, ShapeRest, GuardStates, Threads, Session,
            HandleDone, Takes, Sends, Call, Finalizes, Ended, ClearSessionState,
            SetSessionActive, Release, Released, Completes, Consume, Destroys, Fresh, rest,
            counters
<1>4. ShapeRest'
  BY DiagnosticsGuardAssumption
     DEF Shape, ShapeRecords, ShapeThreads, ShapeRest, GuardStates, Session, Lease,
         HandleDone, Takes, Sends, Call, Finalizes, Ended, ClearSessionState,
         SetSessionActive, Release, Released, Completes, Consume, Destroys, Fresh, rest,
         counters
<1>. QED  BY <1>1, <1>2, <1>3, <1>4 DEF Shape

LEMMA ServesShape ==
    ASSUME Shape, Serves
    PROVE  Shape'
<1>1. ShapeRecords'
  BY DEF Shape, ShapeRecords, Serves
<1>2. ShapeTraffic'
  BY DEF Shape, ShapeRecords, ShapeTraffic, ShapeRest, WindowStates, GuardStates, CallRecords,
            MsgRecords, NamesItsOwn, Session, Lease, Serves, ServesBoot, ServesStart,
            ServesAbort, ServesStatus, ServesRelease, Answers, Msg, Event, Running, cloud,
            counters
<1>3. ShapeThreads'
  BY DEF Shape, ShapeRecords, ShapeThreads, ShapeRest, GuardStates, Threads, Session, Serves,
            ServesBoot, ServesStart, ServesAbort, ServesStatus, ServesRelease, Answers, Msg,
            Event, Running, cloud, counters
<1>4. ShapeRest'
  BY DiagnosticsGuardAssumption
     DEF Shape, ShapeRecords, ShapeThreads, ShapeRest, GuardStates, Session, Lease, Serves,
         ServesBoot, ServesStart, ServesAbort, ServesStatus, ServesRelease, Answers, Msg,
         Event, Running, cloud, counters
<1>. QED  BY <1>1, <1>2, <1>3, <1>4 DEF Shape

LEMMA UnreachableShape ==
    ASSUME Shape, Unreachable
    PROVE  Shape'
<1>1. ShapeRecords'
  BY DEF Shape, ShapeRecords, Unreachable
<1>2. ShapeTraffic'
  BY DEF Shape, ShapeRecords, ShapeTraffic, ShapeRest, WindowStates, GuardStates, CallRecords,
            MsgRecords, NamesItsOwn, Session, Lease, Unreachable, Answers, Msg, cloud,
            counters
<1>3. ShapeThreads'
  BY DEF Shape, ShapeRecords, ShapeThreads, ShapeRest, GuardStates, Threads, Session,
            Unreachable, Answers, Msg, cloud, counters
<1>4. ShapeRest'
  BY DiagnosticsGuardAssumption
     DEF Shape, ShapeRecords, ShapeThreads, ShapeRest, GuardStates, Session, Lease,
         Unreachable, Answers, Msg, cloud, counters
<1>. QED  BY <1>1, <1>2, <1>3, <1>4 DEF Shape

LEMMA CleanupShape ==
    ASSUME Shape, Cleanup
    PROVE  Shape'
<1>1. ShapeRecords'
  BY DEF Shape, ShapeRecords, Cleanup
<1>2. ShapeTraffic'
  BY DEF Shape, ShapeRecords, ShapeTraffic, ShapeRest, WindowStates, GuardStates, CallRecords,
            MsgRecords, NamesItsOwn, Session, Lease, Cleanup, counters
<1>3. ShapeThreads'
  BY DEF Shape, ShapeRecords, ShapeThreads, ShapeRest, GuardStates, Threads, Session, Cleanup,
            counters
<1>4. ShapeRest'
  BY DiagnosticsGuardAssumption
     DEF Shape, ShapeRecords, ShapeThreads, ShapeRest, GuardStates, Session, Lease, Cleanup,
         counters
<1>. QED  BY <1>1, <1>2, <1>3, <1>4 DEF Shape

-----------------------------------------------------------------------------
(* What a step leaves alone.                                               *)

Headlong(n) == HeadlessNotes(n) \/ HeadlessEnds(n) \/ HeadlessGivesUp(n)
Asking(a) == Requests(a) \/ Forces(a) \/ Gives(a)
Clicks == StartClicked \/ AbortClicked \/ PollsStatus \/ BeginsShutdown

LEMMA ClicksFrame ==
    ASSUME Clicks
    PROVE  /\ UNCHANGED <<headless, server, overlap, mixed, windows>> /\ results' \subseteq results
           /\ win.open /\ (~todo => ~todo')
<1>1. CASE StartClicked
  BY <1>1 DEF StartClicked, cloud
<1>2. CASE AbortClicked
  BY <1>2 DEF AbortClicked, cloud
<1>3. CASE PollsStatus
  BY <1>3 DEF PollsStatus, rest, counters
<1>4. CASE BeginsShutdown
  BY <1>4 DEF BeginsShutdown, rest, counters
<1>. QED  BY <1>1, <1>2, <1>3, <1>4 DEF Clicks

LEMMA AskingFrame ==
    ASSUME NEW a \in Actions, Asking(a) \/ TimesOut
    PROVE  /\ UNCHANGED <<calls, server, overlap, mixed, windows>> /\ results' \subseteq results
<1>1. CASE Requests(a)
  BY <1>1 DEF Requests, cloud
<1>2. CASE Forces(a)
  BY <1>2 DEF Forces, rest, counters
<1>3. CASE Gives(a)
  BY <1>3 DEF Gives, rest, counters
<1>4. CASE TimesOut
  BY <1>4 DEF TimesOut, rest, counters
<1>. QED  BY <1>1, <1>2, <1>3, <1>4 DEF Asking

LEMMA HeadlongFrame ==
    ASSUME NEW n \in 1..MaxActions, Headlong(n)
    PROVE  /\ UNCHANGED <<todo, server, overlap, mixed, windows>> /\ results' \subseteq results
<1>1. CASE HeadlessNotes(n)
  BY <1>1 DEF HeadlessNotes, cloud, counters
<1>2. CASE HeadlessEnds(n)
  BY <1>2 DEF HeadlessEnds, cloud, counters
<1>3. CASE HeadlessGivesUp(n)
  BY <1>3 DEF HeadlessGivesUp, cloud, counters
<1>. QED  BY <1>1, <1>2, <1>3 DEF Headlong

LEMMA HandleFrame ==
    ASSUME NEW m \in results, Handle(m)
    PROVE  /\ UNCHANGED <<headless, todo, server, overlap, windows>> /\ results' \subseteq results \ {m}
           /\ win.open /\ (UNCHANGED mixed \/ Mixes(m))
<1>1. CASE HandleBoot(m)
  BY <1>1 DEF HandleBoot, Takes, rest, counters
<1>2. CASE HandleStart(m)
  BY <1>2 DEF HandleStart, Takes, rest, counters
<1>3. CASE HandleAbort(m)
  BY <1>3 DEF HandleAbort, Takes, unmixed, counters
<1>4. CASE HandleStatus(m)
  BY <1>4 DEF HandleStatus, Takes, unmixed, counters
<1>5. CASE HandleDone(m)
  BY <1>5 DEF HandleDone, Takes, rest, counters
<1>. QED  BY <1>1, <1>2, <1>3, <1>4, <1>5 DEF Handle

-----------------------------------------------------------------------------
(* The kinds of step.                                                      *)

LEMMA StepKinds ==
    ASSUME [Next]_vars
    PROVE  \/ Opens \/ Clicks \/ TimesOut
           \/ \E a \in Actions : Asking(a)
           \/ \E n \in 1..MaxActions : HeadlessBegins(n) \/ Headlong(n)
           \/ \E m \in results : Handle(m)
           \/ Serves \/ Unreachable \/ Cleanup
           \/ UNCHANGED vars
  BY DEF Next, Clicks, Asking, Headless, Headlong

THEOREM ShapeKept ==
    ASSUME Shape, [Next]_vars
    PROVE  Shape'
<1>1. CASE Clicks
  BY <1>1, StartClickedShape, AbortClickedShape, PollsStatusShape, BeginsShutdownShape
     DEF Clicks
<1>2. ASSUME NEW a \in Actions, Asking(a)
      PROVE  Shape'
  BY <1>2, RequestsShape, ForcesShape, GivesShape DEF Asking
<1>3. ASSUME NEW n \in 1..MaxActions, HeadlessBegins(n) \/ Headlong(n)
      PROVE  Shape'
  BY <1>3, HeadlessBeginsShape, HeadlessNotesShape, HeadlessEndsShape, HeadlessGivesUpShape
     DEF Headlong
<1>4. ASSUME NEW m \in results, Handle(m)
      PROVE  Shape'
  BY <1>4, HandleBootShape, HandleStartShape, HandleAbortShape, HandleStatusShape,
     HandleDoneShape
     DEF Handle
<1>5. CASE UNCHANGED vars
  BY <1>5 DEF vars, Shape, ShapeRecords, ShapeTraffic, ShapeThreads, ShapeRest
<1>. QED  BY <1>1, <1>2, <1>3, <1>4, <1>5, StepKinds, OpensShape, TimesOutShape, ServesShape,
             UnreachableShape, CleanupShape

LEMMA ShapeInit == Init => Shape
<1>. SUFFICES ASSUME Init PROVE Shape
  OBVIOUS
<1>1. ShapeRecords
  BY DEF Init, Fresh, ShapeRecords, WindowStates, GuardStates, Consistent, Session, Lease
<1>2. ShapeTraffic
  BY DEF Init, ShapeTraffic
<1>3. ShapeThreads
  BY DEF Init, ShapeThreads, Threads, NoThread, Session
<1>4. ShapeRest
  <2>1. /\ 0 \in 0..MaxWindows /\ 0 \in 0..MaxActions /\ 0 \in 0..MaxStarts /\ 0 \in 0..MaxAborts
    BY DiagnosticsGuardAssumption
  <2>2. server \in [Sessions -> {"new", "running", "aborted", "gone"}]
    BY DEF Init
  <2>3. dialogs \subseteq Actions /\ held \subseteq Leases
    BY DEF Init
  <2>. QED  BY <2>1, <2>2, <2>3 DEF Init, ShapeRest, Session
<1>. QED  BY <1>1, <1>2, <1>3, <1>4 DEF Shape

LEMMA ShapeTypes == Shape => TypeOK
  BY DEF Shape, ShapeRecords, ShapeTraffic, ShapeThreads, ShapeRest, WindowStates, GuardStates,
         CallRecords, MsgRecords, Threads, TypeOK

(* Every variable keeps its type, for any sessions, leases and bounds.     *)
THEOREM TypeCorrect == Spec => []TypeOK
<1>1. Shape /\ [Next]_vars => Shape'
  BY ShapeKept
<1>. QED  BY <1>1, ShapeInit, ShapeTypes, PTL DEF Spec

-----------------------------------------------------------------------------
(* The guard mirrors the window.                                           *)

LEMMA MirrorsKept ==
    ASSUME Shape, Mirrors, [Next]_vars
    PROVE  Mirrors'
<1>1. CASE Opens
  BY <1>1, OpensRecords DEF Shape, Mirrors, Busy, Idle, Opens
<1>2. CASE Clicks
  BY <1>2, ClicksFrame, StartClickedRecords, AbortClickedRecords, PollsStatusRecords,
     BeginsShutdownRecords DEF Clicks, Shape, ShapeRest, Mirrors, Busy, Leaves, Idle
<1>3. CASE TimesOut
  BY <1>3, TimesOutRecords DEF Shape, Mirrors, Busy, Leaves, TimesOut, rest
<1>4. ASSUME NEW a \in Actions, Asking(a)
      PROVE  Mirrors'
  <2>1. CASE Requests(a)
    BY <2>1, RequestsRecords DEF Shape, ShapeRest, Mirrors, Busy, Leaves, Requests
  <2>2. CASE Forces(a)
    BY <2>2, ForcesRecords DEF Shape, ShapeRest, Mirrors, Busy, Leaves, Forces, rest
  <2>3. CASE Gives(a)
    BY <2>3, GivesRecords DEF Shape, ShapeRest, Mirrors, Busy, Leaves, Gives, rest
  <2>. QED  BY <1>4, <2>1, <2>2, <2>3 DEF Asking
<1>5. ASSUME NEW n \in 1..MaxActions, HeadlessBegins(n) \/ Headlong(n)
      PROVE  Mirrors'
  <2>1. Busy(n) /\ overlap' = overlap
    BY <1>5 DEF Busy, Headlong, HeadlessBegins, HeadlessNotes, HeadlessEnds, HeadlessGivesUp
  <2>2. win' = win \/ ~win'.open
    BY <1>5, HeadlessBeginsRecords, HeadlessNotesRecords, HeadlessEndsRecords,
       HeadlessGivesUpRecords
       DEF Headlong, Shape, ShapeRest
  <2>. QED  BY <2>1, <2>2 DEF Mirrors
<1>6. ASSUME NEW m \in results, Handle(m)
      PROVE  Mirrors'
  <2>1. NamesItsOwn(m)
    BY DEF Shape, ShapeTraffic
  <2>2. CASE HandleBoot(m)
    BY <1>6, <2>1, <2>2, HandleFrame, HandleBootRecords
       DEF Shape, Mirrors, Busy, SessionStays, LeaseMoves
  <2>3. CASE HandleStart(m)
    BY <1>6, <2>1, <2>3, HandleFrame, HandleStartRecords
       DEF Shape, Mirrors, Busy, SessionStays, LeaseMoves
  <2>4. CASE HandleAbort(m)
    BY <1>6, <2>1, <2>4, HandleFrame, HandleAbortRecords DEF Shape, Mirrors, Busy, Leaves
  <2>5. CASE HandleStatus(m)
    <3>1. UNCHANGED <<headless, overlap>> /\ win.open
      BY <1>6, HandleFrame
    <3>2. CASE EndsHere
      BY <3>1, <3>2 DEF Mirrors, Busy, Idle, EndsHere
    <3>3. CASE /\ Idle(win') /\ win'.lease = win.lease
               /\ Idle(ctl') /\ ctl'.lease = ctl.lease
      BY <3>1, <3>3 DEF Mirrors, Busy, Idle
    <3>4. CASE Leaves(win, win') /\ UNCHANGED ctl
      BY <3>1, <3>4 DEF Mirrors, Busy, Leaves
    <3>. QED  BY <2>5, <3>2, <3>3, <3>4, HandleStatusRecords DEF Shape, ShapeRest
  <2>6. CASE HandleDone(m)
    BY <1>6, <2>1, <2>6, HandleFrame, HandleDoneRecords
       DEF Shape, ShapeRest, Mirrors, Busy, Idle, EndsHere
  <2>. QED  BY <1>6, <2>2, <2>3, <2>4, <2>5, <2>6 DEF Handle
<1>7. CASE Serves \/ Unreachable \/ Cleanup \/ UNCHANGED vars
  BY <1>7 DEF Serves, Unreachable, Cleanup, vars, Mirrors, Busy
<1>. QED  BY <1>1, <1>2, <1>3, <1>4, <1>5, <1>6, <1>7, StepKinds

-----------------------------------------------------------------------------
(* The worker's sessions, and what is told of them.                        *)

LEMMA OthersLeaveTheCloud ==
    ASSUME [Next]_vars, ~Serves, ~Unreachable, ~Cleanup,
           ~\E n \in 1..MaxActions : HeadlessBegins(n)
    PROVE  UNCHANGED server /\ results' \subseteq results
<1>1. CASE Opens
  BY <1>1 DEF Opens, cloud
<1>2. CASE UNCHANGED vars
  BY <1>2 DEF vars
<1>3. CASE Clicks
  BY <1>3, ClicksFrame
<1>4. ASSUME NEW a \in Actions, Asking(a) \/ TimesOut
      PROVE  UNCHANGED server /\ results' \subseteq results
  BY <1>4, AskingFrame
<1>5. ASSUME NEW n \in 1..MaxActions, Headlong(n)
      PROVE  UNCHANGED server /\ results' \subseteq results
  BY <1>5, HeadlongFrame
<1>6. ASSUME NEW m \in results, Handle(m)
      PROVE  UNCHANGED server /\ results' \subseteq results
  BY <1>6, HandleFrame
<1>7. CASE TimesOut
  BY <1>7 DEF TimesOut, rest
<1>. QED  BY <1>1, <1>2, <1>3, <1>4, <1>5, <1>6, <1>7, StepKinds

(* A session runs once, and one session at a time.                         *)
SessionsMove ==
    /\ \A s \in Sessions : HasEnded(s) => HasEnded(s)'
    /\ \A s \in Sessions : server[s] # "new" => server'[s] # "new"
    /\ \A s \in Sessions : server'[s] = "running" =>
         \/ server[s] = "running"
         \/ /\ server[s] = "new" /\ Running = {}
            /\ \A r \in Sessions : r # s => server'[r] = server[r]

LEMMA ServerMoves ==
    ASSUME Shape, [Next]_vars
    PROVE  SessionsMove
<1>1. server \in [Sessions -> {"new", "running", "aborted", "gone"}]
  BY DEF Shape, ShapeRest
<1>2. CASE UNCHANGED server
  BY <1>2 DEF SessionsMove, HasEnded
<1>3. ASSUME NEW n \in 1..MaxActions, HeadlessBegins(n)
      PROVE  SessionsMove
  <2>1. \/ UNCHANGED server
        \/ server' = [server EXCEPT ![ctl.sid] = IF @ = "running" THEN "aborted" ELSE @]
    BY <1>3, HeadlessBeginsRecords DEF Shape, ShapeRest
  <2>. QED  BY <1>1, <1>2, <2>1 DEF SessionsMove, HasEnded
<1>4. CASE Serves
  <2>. SUFFICES ASSUME NEW c \in calls, ServesBoot(c) \/ ServesStart(c) \/ ServesAbort(c) \/ ServesStatus(c) \/ ServesRelease(c)
                PROVE  SessionsMove
    BY <1>4 DEF Serves
  <2>1. \/ UNCHANGED server
        \/ \E s \in Sessions : Running = {} /\ server[s] = "new" /\ server' = [server EXCEPT ![s] = "running"]
        \/ server[c.s] = "running" /\ server' = [server EXCEPT ![c.s] = "aborted"]
    BY DEF ServesBoot, ServesStart, ServesAbort, ServesStatus, ServesRelease, cloud
  <2>2. CASE \E s \in Sessions : Running = {} /\ server[s] = "new" /\ server' = [server EXCEPT ![s] = "running"]
    BY <1>1, <2>2 DEF SessionsMove, HasEnded
  <2>3. CASE server[c.s] = "running" /\ server' = [server EXCEPT ![c.s] = "aborted"]
    BY <1>1, <2>3 DEF SessionsMove, HasEnded
  <2>. QED  BY <1>2, <2>1, <2>2, <2>3
<1>5. CASE Unreachable
  BY <1>2, <1>5 DEF Unreachable, cloud
<1>6. CASE Cleanup
  BY <1>1, <1>6 DEF Cleanup, SessionsMove, HasEnded
<1>. QED  BY <1>2, <1>3, <1>4, <1>5, <1>6, OthersLeaveTheCloud

LEMMA OneRunsKept ==
    ASSUME Shape, OneRuns, [Next]_vars
    PROVE  OneRuns'
  BY ServerMoves DEF OneRuns, SessionsMove, Running

(* An answer or event that is new.                                         *)
LEMMA NewResults ==
    ASSUME Shape, [Next]_vars, NEW m \in results', m \notin results
    PROVE  \E c \in calls :
             /\ calls' = calls \ {c} /\ c.w = windows /\ win.open
             /\ UNCHANGED <<win, ctl, todo, headless, target, overlap, mixed, windows>>
             /\ \/ /\ m.kind = c.kind /\ m.s = c.s /\ m.res = "down" /\ Unreachable
                \/ m.kind = "boot" /\ ServesBoot(c) /\ UNCHANGED server
                \/ /\ m.kind = "start" /\ ServesStart(c)
                   /\ m.res \in {"ok", "active"} => m.s \in Sessions /\ server'[m.s] = "running"
                \/ /\ m.kind = "status" /\ ServesStatus(c) /\ m.s = c.s /\ UNCHANGED server
                   /\ m.res \in {"gone", "aborted"} => HasEnded(m.s)
                \/ m.kind = "abort" /\ ServesAbort(c) /\ m.s = c.s
                \/ m.kind = "done" /\ ServesAbort(c) /\ m.s = c.s /\ HasEnded(m.s)'
<1>1. server \in [Sessions -> {"new", "running", "aborted", "gone"}]
  BY DEF Shape, ShapeRest
<1>2. CASE Unreachable
  <2>1. PICK c \in calls : Answers(c, IF c.kind = "release" THEN {} ELSE {Msg(c.kind, c.s, "down")})
    BY <1>2 DEF Unreachable
  <2>2. UNCHANGED <<win, ctl, todo, headless, target, overlap, mixed, windows>>
    BY <1>2 DEF Unreachable, counters
  <2>3. /\ calls' = calls \ {c} /\ c.w = windows /\ win.open
        /\ m = Msg(c.kind, c.s, "down")
    BY <2>1 DEF Answers
  <2>4. m.kind = c.kind /\ m.s = c.s /\ m.res = "down"
    BY <2>3 DEF Msg
  <2>. QED  BY <1>2, <2>2, <2>3, <2>4
<1>3. CASE Serves
  <2>1. UNCHANGED <<win, ctl, todo, headless, target, overlap, mixed, windows>>
    BY <1>3 DEF Serves, counters
  <2>2. PICK c \in calls : ServesBoot(c) \/ ServesStart(c) \/ ServesAbort(c) \/ ServesStatus(c) \/ ServesRelease(c)
    BY <1>3 DEF Serves
  <2>3. CASE ServesBoot(c)
    BY <2>1, <2>3 DEF ServesBoot, Answers, Msg
  <2>4. CASE ServesStart(c)
    BY <1>1, <2>1, <2>4 DEF ServesStart, Answers, Msg, Running
  <2>5. CASE ServesAbort(c)
    <3>1. c.s \in Sessions
      BY <2>5 DEF ServesAbort, Shape, ShapeTraffic
    <3>. QED  BY <1>1, <2>1, <2>5, <3>1 DEF ServesAbort, Answers, Msg, Event, HasEnded
  <2>6. CASE ServesStatus(c)
    <3>1. /\ calls' = calls \ {c} /\ c.w = windows /\ win.open /\ UNCHANGED server
          /\ m = Msg("status", c.s, CASE server[c.s] = "gone" -> "gone"
                                     [] server[c.s] = "aborted" -> "aborted" [] OTHER -> "ok")
      BY <2>6 DEF ServesStatus, Answers, cloud
    <3>2. m.kind = "status" /\ m.s = c.s /\ (m.res \in {"gone", "aborted"} => HasEnded(m.s))
      BY <3>1 DEF Msg, HasEnded
    <3>. QED  BY <2>1, <2>6, <3>1, <3>2
  <2>7. CASE ServesRelease(c)
    BY <2>7 DEF ServesRelease, Answers
  <2>. QED  BY <2>2, <2>3, <2>4, <2>5, <2>6, <2>7
<1>4. ASSUME NEW n \in 1..MaxActions, HeadlessBegins(n)
      PROVE  FALSE
  BY <1>4 DEF HeadlessBegins
<1>5. ~Cleanup
  BY DEF Cleanup
<1>. QED  BY <1>2, <1>3, <1>4, <1>5, OthersLeaveTheCloud

LEMMA ToldKept ==
    ASSUME Shape, Told, [Next]_vars
    PROVE  Told'
<1>. SUFFICES ASSUME NEW m \in results', TellsOfTheEnd(m)
              PROVE  HasEnded(m.s)'
  BY DEF Told, TellsOfTheEnd
<1>1. m.s \in Sessions
  BY ShapeKept DEF Shape, ShapeTraffic, NamesItsOwn, TellsOfTheEnd
<1>2. CASE m \in results
  BY <1>1, <1>2, ServerMoves DEF Told, SessionsMove
<1>3. CASE m \notin results
  <2>1. \/ HasEnded(m.s)'
        \/ HasEnded(m.s) /\ UNCHANGED server
    <3>1. calls \subseteq CallRecords
      BY DEF Shape, ShapeTraffic
    <3>. QED  BY <1>3, <3>1, NewResults DEF TellsOfTheEnd, CallRecords
  <2>. QED  BY <2>1 DEF HasEnded
<1>. QED  BY <1>2, <1>3

-----------------------------------------------------------------------------
(* Whoever is named was named before, and what is asked anew.              *)

IsNamed(s) ==
    \/ s = None \/ s = ctl.sid \/ s = target
    \/ win.open /\ s = win.sid
    \/ \E n \in 1..MaxActions : s = headless[n].s
    \/ \E m \in results : NamesASession(m) /\ s = m.s

LEMMA Names ==
    /\ IsNamed(None) /\ IsNamed(ctl.sid) /\ IsNamed(target)
    /\ win.open => IsNamed(win.sid)
    /\ \A n \in 1..MaxActions : IsNamed(headless[n].s)
    /\ \A m \in results : NamesASession(m) => IsNamed(m.s)
<1>1. IsNamed(None)
  BY Zenon DEF IsNamed
<1>5. IsNamed(ctl.sid)
  BY Zenon DEF IsNamed
<1>6. IsNamed(target)
  BY Zenon DEF IsNamed
<1>4. win.open => IsNamed(win.sid)
  BY Zenon DEF IsNamed
<1>2. ASSUME NEW n \in 1..MaxActions
      PROVE  IsNamed(headless[n].s)
  BY DEF IsNamed
<1>3. ASSUME NEW m \in results, NamesASession(m)
      PROVE  IsNamed(m.s)
  BY <1>3 DEF IsNamed
<1>. QED  BY <1>1, <1>2, <1>3, <1>4, <1>5, <1>6

LEMMA ThreadBecomes ==
    ASSUME ShapeThreads, NEW n, NEW h, headless' = [headless EXCEPT ![n] = h],
           NEW k \in 1..MaxActions
    PROVE  headless'[k] = IF k = n THEN h ELSE headless[k]
  BY DEF ShapeThreads

NamesStay ==
    /\ win'.open => IsNamed(win'.sid)
    /\ IsNamed(ctl'.sid) /\ IsNamed(target')
    /\ \A n \in 1..MaxActions : IsNamed(headless'[n].s)

LEMMA NamesMove ==
    ASSUME Shape, [Next]_vars
    PROVE  NamesStay
<1>1. CASE UNCHANGED <<win, ctl, target, headless>>
  BY Names, <1>1 DEF NamesStay
<1>2. CASE Opens
  BY Names, <1>2, OpensRecords DEF Shape, Opens, Idle, NamesStay
<1>3. CASE Clicks
  <2>1. UNCHANGED headless /\ win.open
    BY <1>3, ClicksFrame
  <2>2. CASE StartClicked \/ AbortClicked \/ PollsStatus
    <3>1. UNCHANGED <<ctl, target>> /\ win'.sid = win.sid
      BY <2>2, StartClickedRecords, AbortClickedRecords, PollsStatusRecords
         DEF Shape, Leaves, StartClicked, AbortClicked, PollsStatus
    <3>. QED  BY Names, <2>1, <3>1 DEF NamesStay
  <2>3. CASE BeginsShutdown
    BY Names, <2>1, <2>3, BeginsShutdownRecords DEF Shape, ShapeRest, Leaves, Idle, NamesStay
  <2>. QED  BY <1>3, <2>2, <2>3 DEF Clicks
<1>4. CASE TimesOut
  BY Names, <1>4, TimesOutRecords DEF Shape, Leaves, TimesOut, rest, NamesStay
<1>5. ASSUME NEW a \in Actions, Asking(a)
      PROVE  NamesStay
  <2>1. CASE Requests(a)
    <3>1. /\ win'.open => win.open /\ win'.sid = win.sid
          /\ ctl'.sid = ctl.sid /\ target' \in {None, target, ctl.sid}
      BY <2>1, RequestsRecords DEF Shape, ShapeRest, Leaves
    <3>2. ASSUME NEW n \in 1..MaxActions
          PROVE  headless'[n].s \in {headless[n].s, None}
      <4>1. \/ UNCHANGED headless
            \/ headless' = [headless EXCEPT ![asked'] = [at |-> "begun", s |-> None]]
        BY <2>1, RequestsRecords DEF Shape, ShapeRest
      <4>2. [at |-> "begun", s |-> None].s = None
        OBVIOUS
      <4>. QED  BY <4>1, <4>2, ThreadBecomes DEF Shape
    <3>. QED  BY Names, <3>1, <3>2 DEF NamesStay
  <2>2. CASE Forces(a)
    BY Names, <2>2, ForcesRecords DEF Shape, ShapeRest, Leaves, Forces, rest, NamesStay
  <2>3. CASE Gives(a)
    BY Names, <2>3, GivesRecords DEF Shape, Leaves, Gives, rest, NamesStay
  <2>. QED  BY <1>5, <2>1, <2>2, <2>3 DEF Asking
<1>6. ASSUME NEW n \in 1..MaxActions, HeadlessBegins(n) \/ Headlong(n)
      PROVE  NamesStay
  <2>1. CASE HeadlessBegins(n)
    <3>1. /\ win'.open => win.open /\ win'.sid = win.sid
          /\ ctl'.sid = ctl.sid /\ target' \in {None, target}
      BY <2>1, HeadlessBeginsRecords DEF Shape, ShapeRest, Leaves
    <3>2. ASSUME NEW k \in 1..MaxActions
          PROVE  headless'[k].s \in {headless[k].s, None, ctl.sid}
      <4>1. \/ headless' = [headless EXCEPT ![n] = NoThread]
            \/ \E at \in {"aborted", "polls"} : headless' = [headless EXCEPT ![n] = [at |-> at, s |-> ctl.sid]]
        BY <2>1, HeadlessBeginsRecords DEF Shape, ShapeRest
      <4>2. ASSUME NEW h, headless' = [headless EXCEPT ![n] = h], h.s \in {None, ctl.sid}
            PROVE  headless'[k].s \in {headless[k].s, None, ctl.sid}
        BY <4>2, ThreadBecomes DEF Shape
      <4>3. NoThread.s = None
        BY DEF NoThread
      <4>4. ASSUME NEW at
            PROVE  [at |-> at, s |-> ctl.sid].s = ctl.sid
        OBVIOUS
      <4>. QED  BY <4>1, <4>2, <4>3, <4>4
    <3>. QED  BY Names, <3>1, <3>2 DEF NamesStay
  <2>2. CASE Headlong(n)
    <3>1. /\ win'.open => win.open /\ win'.sid = win.sid
          /\ ctl'.sid \in {ctl.sid, None, headless[n].s} /\ target' \in {None, target}
      BY <2>2, HeadlessNotesRecords, HeadlessEndsRecords, HeadlessGivesUpRecords
         DEF Headlong, HeadlessNotes, HeadlessGivesUp, Shape, ShapeRest, Idle
    <3>2. \/ headless' = [headless EXCEPT ![n] = NoThread]
          \/ headless' = [headless EXCEPT ![n].at = "polls"]
      BY <2>2 DEF Headlong, HeadlessNotes, HeadlessEnds, HeadlessGivesUp
    <3>3. ASSUME NEW k \in 1..MaxActions
          PROVE  headless'[k].s \in {headless[k].s, None}
      <4>1. PICK h \in Threads : headless' = [headless EXCEPT ![n] = h] /\ h.s \in {None, headless[n].s}
        BY <3>2 DEF Shape, ShapeThreads, Threads, NoThread, Session
      <4>. QED  BY <4>1, ThreadBecomes DEF Shape
    <3>. QED  BY Names, <3>1, <3>3 DEF NamesStay
  <2>. QED  BY <1>6, <2>1, <2>2
<1>7. ASSUME NEW m \in results, Handle(m)
      PROVE  NamesStay
  <2>1. NamesItsOwn(m) /\ UNCHANGED headless /\ win.open
    BY <1>7, HandleFrame DEF Shape, ShapeTraffic
  <2>2. CASE HandleBoot(m)
    BY Names, <2>1, <2>2, HandleBootRecords DEF Shape, HandleBoot, SessionStays, NamesStay
  <2>3. CASE HandleStart(m)
    <3>1. UNCHANGED target /\ m.kind = "start"
      BY <2>3 DEF HandleStart
    <3>. QED  BY Names, <2>1, <2>3, <3>1, HandleStartRecords
                 DEF Shape, SessionStays, NamesASession, NamesStay
  <2>4. CASE HandleAbort(m)
    <3>1. UNCHANGED target /\ m.kind = "abort"
      BY <2>4 DEF HandleAbort
    <3>. QED  BY Names, <2>1, <2>4, <3>1, HandleAbortRecords
                 DEF Shape, Leaves, NamesASession, NamesStay
  <2>5. CASE HandleStatus(m)
    BY Names, <2>1, <2>5, HandleStatusRecords
       DEF Shape, ShapeRest, Leaves, Idle, EndsHere, NamesStay
  <2>6. CASE HandleDone(m)
    BY Names, <2>1, <2>6, HandleDoneRecords DEF Shape, ShapeRest, Idle, EndsHere, NamesStay
  <2>. QED  BY <1>7, <2>2, <2>3, <2>4, <2>5, <2>6 DEF Handle
<1>8. CASE Serves \/ Unreachable \/ Cleanup \/ UNCHANGED vars
  BY <1>1, <1>8 DEF Serves, Unreachable, Cleanup, vars
<1>. QED  BY <1>2, <1>3, <1>4, <1>5, <1>6, <1>7, <1>8, StepKinds

(* What a failed start asks for.                                           *)
LEMMA StartFailsCalls ==
    ASSUME ShapeRecords, NEW down, StartFails(down), NEW c \in calls', c \notin calls
    PROVE  \/ c.kind = "release"
           \/ c = Call("boot", None) /\ ~win'.start
<1>1. Released(win) \in WindowStates
  BY ReleasedWindow DEF ShapeRecords
<1>2. \A d \in Release(win) : d.kind = "release"
  BY DEF Release, Call
<1>3. \/ /\ win' = [Released(win) EXCEPT !.start = FALSE, !.retried = TRUE]
         /\ Sends(Release(win) \cup {Call("boot", None)})
      \/ Sends(Release(win))
  BY DEF StartFails
<1>. QED  BY <1>1, <1>2, <1>3 DEF Sends, WindowStates

AsksToStart(c) == c = Call("boot", None) \/ c = Call("start", None)

(* Every call is one of the window about its session, one that starts a    *)
(* session, or one that gives a lease back.                                *)
LEMMA NewCalls ==
    ASSUME Shape, [Next]_vars, NEW c \in calls', c \notin calls
    PROVE  \/ c.kind = "release"
           \/ /\ c.kind \in {"abort", "status"} /\ c.s = win'.sid /\ c.s # None
              /\ win.open /\ win'.open
           \/ /\ AsksToStart(c) /\ win.open
              /\ StartClicked \/ \E m \in results : HandleBoot(m) \/ HandleStart(m)
<1>1. CASE StartClicked
  BY <1>1 DEF StartClicked, Sends, AsksToStart
<1>2. CASE AbortClicked \/ PollsStatus \/ BeginsShutdown
  <2>1. \/ c = Call("abort", win.sid) \/ c \in Refresh(win)
    BY <1>2 DEF AbortClicked, PollsStatus, BeginsShutdown, Sends
  <2>2. \/ c = Call("abort", win.sid) /\ win.sid # None
        \/ c = Call("status", win.sid) /\ win.sid # None
    BY <1>2, <2>1 DEF AbortClicked, PollsStatus, BeginsShutdown, Sends, Refresh
  <2>3. win'.sid = win.sid /\ win.open /\ win'.open
    BY <1>2, <2>2, AbortClickedRecords, PollsStatusRecords, BeginsShutdownRecords
       DEF Shape, ShapeRest, Leaves, AbortClicked, PollsStatus, BeginsShutdown
  <2>. QED  BY <2>2, <2>3 DEF Call
<1>3. ASSUME NEW n \in 1..MaxActions, HeadlessBegins(n) \/ Headlong(n)
      PROVE  c.kind = "release"
  BY <1>3
     DEF HeadlessBegins, Headlong, HeadlessNotes, HeadlessEnds, HeadlessGivesUp, Sends, Call
<1>4. ASSUME NEW m \in results, HandleBoot(m)
      PROVE  c.kind = "release" \/ AsksToStart(c)
  BY <1>4, StartFailsCalls DEF Shape, HandleBoot, Sends, AsksToStart
<1>5. ASSUME NEW m \in results, HandleStart(m)
      PROVE  \/ c.kind = "release" \/ AsksToStart(c)
             \/ c.kind = "status" /\ c.s = win'.sid /\ c.s # None /\ win'.open = win.open
  <2>1. CASE Activates(m.s)
    <3>1. PICK w : /\ w = [win EXCEPT !.sid = m.s, !.final = FALSE, !.term = None, !.start = FALSE,
                                       !.abort = TRUE, !.events = m.s]
                   /\ win' = Refreshed(w) /\ Sends(Refresh(w))
      BY <2>1 DEF Activates
    <3>2. w.sid = m.s /\ win'.sid = w.sid /\ win'.open = win.open
      BY <3>1 DEF Shape, ShapeRecords, WindowStates, Refreshed
    <3>. QED  BY <3>1, <3>2 DEF Sends, Refresh, Call
  <2>2. CASE StartFails(m.res = "down")
    BY <2>2, StartFailsCalls DEF Shape, AsksToStart
  <2>. QED  BY <1>5, <2>1, <2>2 DEF HandleStart
<1>6. ASSUME NEW m \in results, HandleAbort(m)
      PROVE  c.kind = "status" /\ c.s = win'.sid /\ c.s # None /\ win'.open = win.open
  <2>1. PICK w : /\ w = [win EXCEPT !.sid = m.s, !.final = TRUE, !.term = m.s, !.start = FALSE,
                                     !.abort = FALSE]
                 /\ win' = Refreshed(w) /\ Sends(Refresh(w))
    BY <1>6 DEF HandleAbort
  <2>2. w.sid = m.s /\ win'.sid = w.sid /\ win'.open = win.open
    BY <2>1 DEF Shape, ShapeRecords, WindowStates, Refreshed
  <2>. QED  BY <2>1, <2>2 DEF Sends, Refresh, Call
<1>7. ASSUME NEW m \in results, HandleStatus(m) \/ HandleDone(m)
      PROVE  c.kind = "release"
  BY <1>7 DEF HandleStatus, HandleDone, Forgets, Finalizes, Sends, Release, Call
<1>8. ~Serves /\ ~Unreachable
  BY DEF Serves, ServesBoot, ServesStart, ServesAbort, ServesStatus, ServesRelease,
            Unreachable, Answers
<1>9. ~UNCHANGED calls
  OBVIOUS
<1>10. ASSUME NEW m \in results, Handle(m)
       PROVE  win.open
  BY <1>10, HandleFrame
<1>11. ~Opens /\ ~Cleanup /\ ~TimesOut /\ ~UNCHANGED vars /\ \A a \in Actions : ~Asking(a)
  <2>1. \A a \in Actions : ~Asking(a)
    BY AskingFrame
  <2>. QED  BY <2>1 DEF Opens, Cleanup, TimesOut, vars, rest
<1>12. StartClicked => win.open
  BY DEF StartClicked
<1>. QED  BY <1>1, <1>2, <1>3, <1>4, <1>5, <1>6, <1>7, <1>8, <1>10, <1>11, <1>12, StepKinds
             DEF Clicks, Handle

LEMMA KnownKept ==
    ASSUME Shape, Known, [Next]_vars
    PROVE  Known'
<1>1. Shape' /\ SessionsMove /\ NamesStay
  BY ShapeKept, ServerMoves, NamesMove
<1>2. ASSUME NEW s, IsNamed(s)
      PROVE  Began(s)
  BY <1>2, DiagnosticsGuardAssumption DEF IsNamed, Known, Began
<1>3. ASSUME NEW s, Began(s)
      PROVE  s \in Sessions => server'[s] # "new"
  BY <1>1, <1>3 DEF Began, SessionsMove
<1>4. ASSUME NEW c \in calls', c.kind \in {"abort", "status"}
      PROVE  c.s \in Sessions => server'[c.s] # "new"
  <2>1. CASE c \in calls
    BY <1>3, <1>4, <2>1 DEF Known
  <2>2. CASE c \notin calls
    <3>1. c.s = win'.sid /\ win'.open
      BY <1>4, <2>2, NewCalls DEF AsksToStart, Call
    <3>. QED  BY <1>1, <1>2, <1>3, <3>1 DEF NamesStay
  <2>. QED  BY <2>1, <2>2
<1>5. ASSUME NEW m \in results', NamesASession(m)
      PROVE  m.s \in Sessions => server'[m.s] # "new"
  <2>1. CASE m \in results
    BY <1>3, <1>5, <2>1 DEF Known
  <2>2. CASE m \notin results
    <3>1. PICK c \in calls :
             \/ m.kind = c.kind /\ m.s = c.s /\ m.res = "down"
             \/ m.kind = "start" /\ (m.res \in {"ok", "active"} => server'[m.s] = "running")
             \/ m.kind = "status" /\ ServesStatus(c) /\ m.s = c.s
             \/ m.kind = "abort" /\ ServesAbort(c) /\ m.s = c.s
             \/ m.kind = "done" /\ ServesAbort(c) /\ m.s = c.s
      BY <1>5, <2>2, NewResults DEF NamesASession
    <3>2. CASE m.s = c.s /\ c.kind \in {"abort", "status"}
      BY <1>3, <3>2 DEF Known
    <3>3. c.kind # "done"
      BY DEF Shape, ShapeTraffic, CallRecords
    <3>. QED  BY <1>5, <3>1, <3>2, <3>3 DEF NamesASession, ServesStatus, ServesAbort
  <2>. QED  BY <2>1, <2>2
<1>6. /\ win'.open => Began(win.sid)'
      /\ Began(ctl.sid)' /\ Began(target)'
  BY <1>1, <1>2, <1>3 DEF NamesStay, Began
<1>7. \A n \in 1..MaxActions : Began(headless[n].s)'
  BY <1>1, <1>2, <1>3 DEF NamesStay, Began
<1>. QED  BY <1>4, <1>5, <1>6, <1>7 DEF Known, Began

-----------------------------------------------------------------------------
(* One start at a time.                                                    *)

Starts(c) == c.kind \in {"boot", "start"}
NoNewStart == \A c \in calls' : Starts(c) => c \in calls

LEMMA OneStartUnlessMoved ==
    ASSUME OneStart, UNCHANGED windows, mixed => mixed', results' \subseteq results, NoNewStart,
           win'.open => win.open /\ win'.sid = win.sid /\ (win'.start => win.start)
    PROVE  OneStart'
<1>. SUFFICES ASSUME ~mixed', win'.open
              PROVE  /\ (win.start \/ win.sid # None => ~Starting)'
                     /\ (win.start => win.sid = None)'
                     /\ (\A x, y \in StartsOf(OwnCalls) : x = y)'
                     /\ (\A x, y \in StartsOf(results) : x = y)'
                     /\ (StartsOf(OwnCalls) = {} \/ StartsOf(results) = {})'
  BY DEF OneStart
<1>1. StartsOf(OwnCalls)' \subseteq StartsOf(OwnCalls) /\ StartsOf(results)' \subseteq StartsOf(results)
  BY DEF StartsOf, OwnCalls, NoNewStart, Starts
<1>. QED  BY <1>1 DEF OneStart, Starting

\* The only start is over, and perhaps the next one is asked for.
LEMMA NextStart ==
    ASSUME UNCHANGED windows, win.open, ~mixed => StartsOf(OwnCalls) = {} /\ StartsOf(results)' = {},
           mixed => mixed', win'.start => win'.sid = None,
           NEW x, \A c \in calls' : Starts(c) => c \in calls \/ c = x,
           win'.start \/ win'.sid # None => NoNewStart
    PROVE  OneStart'
<1>. SUFFICES ASSUME ~mixed', win'.open
              PROVE  /\ (win.start \/ win.sid # None => ~Starting)'
                     /\ (\A y, z \in StartsOf(OwnCalls) : y = z)'
                     /\ (\A y, z \in StartsOf(results) : y = z)'
                     /\ (StartsOf(OwnCalls) = {} \/ StartsOf(results) = {})'
  BY DEF OneStart
<1>1. StartsOf(OwnCalls)' \subseteq {x} /\ StartsOf(results)' = {}
  BY DEF StartsOf, OwnCalls, Starts
<1>2. win'.start \/ win'.sid # None => StartsOf(OwnCalls)' = {}
  BY DEF StartsOf, OwnCalls, Starts, NoNewStart
<1>. QED  BY <1>1, <1>2 DEF Starting

LEMMA StartFailsStarts ==
    ASSUME ShapeRecords, NEW down, StartFails(down)
    PROVE  /\ \A c \in calls' : Starts(c) => c \in calls \/ c = Call("boot", None)
           /\ win'.start => NoNewStart
  BY StartFailsCalls DEF Starts, NoNewStart

\* An answer to a start that is under way.
LEMMA OneStartUnderWay ==
    ASSUME OneStart, NEW m \in results, Starts(m), ~mixed, win.open
    PROVE  /\ win.sid = None /\ ~win.start
           /\ StartsOf(OwnCalls) = {} /\ \A r \in results \ {m} : ~Starts(r)
<1>1. m \in StartsOf(results)
  BY DEF StartsOf, Starts
<1>2. Starting /\ StartsOf(OwnCalls) = {}
  BY <1>1 DEF OneStart, Starting
<1>3. \A r \in results \ {m} : ~Starts(r)
  BY <1>1 DEF OneStart, StartsOf, Starts
<1>. QED  BY <1>2, <1>3 DEF OneStart

LEMMA StartAnswered ==
    ASSUME Shape, OneStart, NEW m \in results, HandleBoot(m) \/ HandleStart(m)
    PROVE  OneStart'
<1>1. /\ UNCHANGED <<windows, mixed>> /\ win.open /\ results' \subseteq results \ {m}
      /\ Starts(m) /\ NamesItsOwn(m)
  BY HandleFrame
     DEF Handle, HandleBoot, HandleStart, rest, counters, Takes, Starts, Shape, ShapeTraffic
<1>2. CASE mixed
  BY <1>1, <1>2 DEF OneStart
<1>3. CASE ~mixed
  <2>1. /\ win.sid = None /\ ~win.start
        /\ StartsOf(OwnCalls) = {} /\ StartsOf(results)' = {}
    BY <1>1, <1>3, OneStartUnderWay DEF StartsOf, Starts
  <2>2. CASE StartFails(m.res = "down")
    <3>1. win'.sid = None
      BY <2>1, <2>2, StartFailsRecords DEF Shape, SessionStays
    <3>. QED  BY <1>1, <2>1, <2>2, <3>1, NextStart, StartFailsStarts DEF Shape
  <2>3. CASE HandleStart(m) /\ Activates(m.s)
    <3>1. NoNewStart
      BY <2>3 DEF Activates, Sends, Refresh, Call, NoNewStart, Starts
    <3>2. ~win'.start
      <4>1. PICK w : /\ w = [win EXCEPT !.sid = m.s, !.final = FALSE, !.term = None, !.start = FALSE,
                                        !.abort = TRUE, !.events = m.s]
                     /\ win' = Refreshed(w)
        BY <2>3 DEF Activates
      <4>. QED  BY <4>1 DEF Shape, ShapeRecords, WindowStates, Refreshed
    <3>3. \A c \in calls' : Starts(c) => c \in calls \/ c = None
      BY <3>1 DEF NoNewStart
    <3>. QED  BY <1>1, <2>1, <3>1, <3>2, <3>3, NextStart
  <2>4. CASE HandleBoot(m) /\ ~StartFails(m.res = "down")
    <3>1. win'.sid = None
      BY <2>1, <2>4, <1>1, HandleBootRecords DEF Shape, SessionStays
    <3>2. \/ Sends({Call("start", None)}) /\ win'.start = win.start
          \/ UNCHANGED calls
      BY <2>4 DEF HandleBoot, Shape, ShapeRecords, WindowStates
    <3>3. \A c \in calls' : Starts(c) => c \in calls \/ c = Call("start", None)
      BY <3>2 DEF Sends
    <3>4. win'.start => NoNewStart
      BY <2>1, <3>2 DEF NoNewStart
    <3>. QED  BY <1>1, <2>1, <3>1, <3>3, <3>4, NextStart
  <2>. QED  BY <2>2, <2>3, <2>4 DEF HandleStart
<1>. QED  BY <1>2, <1>3

\* An answer that is no start's: if it is not mixed up, none is under way.
LEMMA AnsweredWithoutStart ==
    ASSUME Shape, OneStart, NEW m \in results, HandleAbort(m) \/ HandleStatus(m) \/ HandleDone(m)
    PROVE  OneStart'
<1>1. /\ UNCHANGED windows /\ win.open /\ results' \subseteq results
      /\ mixed => mixed'
  BY HandleFrame DEF Handle, Mixes
<1>2. m.s \in Sessions /\ NamesItsOwn(m)
  BY DEF HandleAbort, HandleStatus, HandleDone, Shape, ShapeTraffic, NamesItsOwn
<1>3. NoNewStart
  <2>1. CASE HandleAbort(m)
    BY <2>1 DEF HandleAbort, Sends, Refresh, Call, NoNewStart, Starts
  <2>2. CASE HandleStatus(m)
    BY <2>2 DEF HandleStatus, Forgets, Finalizes, Sends, Release, Call, NoNewStart, Starts
  <2>3. CASE HandleDone(m)
    BY <2>3 DEF HandleDone, Finalizes, Sends, Release, Call, NoNewStart, Starts
  <2>. QED  BY <2>1, <2>2, <2>3
<1>4. CASE /\ win'.open => win'.sid = win.sid /\ (win'.start => win.start)
  BY <1>1, <1>3, <1>4, OneStartUnlessMoved
<1>5. ASSUME ~mixed' => m.s = win.sid \/ (win.sid = None /\ win.start),
             win'.start /\ win'.open => win'.sid = None
      PROVE  OneStart'
  <2>1. ASSUME ~mixed'
        PROVE  ~Starting
    BY <1>1, <1>2, <1>5, <2>1, DiagnosticsGuardAssumption DEF OneStart
  <2>2. ASSUME ~mixed'
        PROVE  StartsOf(OwnCalls)' = {} /\ StartsOf(results)' = {}
    BY <1>1, <1>3, <2>1, <2>2 DEF Starting, StartsOf, OwnCalls, NoNewStart, Starts
  <2>. QED  BY <1>5, <2>2 DEF OneStart, Starting
<1>6. ASSUME Mixes(m), ~mixed'
      PROVE  m.s = win.sid \/ (win.sid = None /\ win.start)
  BY <1>6 DEF Mixes
<1>7. CASE HandleAbort(m)
  BY <1>2, <1>4, <1>5, <1>6, <1>7, HandleAbortRecords DEF Shape, Leaves
<1>8. CASE HandleStatus(m)
  BY <1>4, <1>5, <1>6, <1>8, HandleStatusRecords DEF Shape, ShapeRest, Leaves, Idle, EndsHere
<1>9. CASE HandleDone(m)
  <2>1. CASE m.s = win.sid /\ EndsHere
    BY <1>5, <2>1 DEF Idle, EndsHere
  <2>2. CASE UNCHANGED win
    BY <1>1, <1>4, <2>2
  <2>. QED  BY <1>2, <1>9, <2>1, <2>2, HandleDoneRecords DEF Shape, ShapeRest
<1>. QED  BY <1>7, <1>8, <1>9

\* The cloud answers, or does not.
LEMMA OneStartAnswers ==
    ASSUME Shape, OneStart, NEW c \in calls, NEW set, Answers(c, set),
           UNCHANGED <<win, windows, mixed>>,
           \A m \in set : Starts(m) => Starts(c),
           \A x, y \in StartsOf(set) : x = y
    PROVE  OneStart'
<1>1. CASE StartsOf(results') \subseteq StartsOf(results)
  BY <1>1 DEF OneStart, Answers, StartsOf, OwnCalls, Starting
<1>2. CASE ~mixed /\ win.open /\ c.w = windows /\ Starts(c)
  <2>1. c \in StartsOf(OwnCalls)
    BY <1>2 DEF StartsOf, OwnCalls, Starts
  <2>2. ~win.start /\ win.sid = None /\ StartsOf(results) = {} /\ \A d \in StartsOf(OwnCalls) : d = c
    BY <1>2, <2>1 DEF OneStart, Starting
  <2>3. StartsOf(OwnCalls)' = {}
    BY <2>2 DEF Answers, StartsOf, OwnCalls
  <2>4. StartsOf(results)' \subseteq StartsOf(set)
    BY <2>2 DEF Answers, StartsOf
  <2>. QED  BY <2>2, <2>3, <2>4 DEF OneStart, Starting
<1>3. CASE ~(win.open /\ c.w = windows)
  BY <1>1, <1>3 DEF Answers
<1>4. CASE ~Starts(c)
  BY <1>1, <1>4 DEF Answers, StartsOf, Starts
<1>5. CASE mixed
  BY <1>5 DEF OneStart
<1>. QED  BY <1>2, <1>3, <1>4, <1>5

LEMMA OneStartKept ==
    ASSUME Shape, OneStart, [Next]_vars
    PROVE  OneStart'
<1>1. CASE Opens
  <2>1. OwnCalls' = {} /\ results' = {}
    BY <1>1 DEF Opens, OwnCalls, Shape, ShapeTraffic, ShapeRest
  <2>2. win'.sid = None
    BY <1>1, OpensRecords DEF Shape, Idle
  <2>. QED  BY <2>1, <2>2 DEF OneStart, Starting, StartsOf
<1>2. CASE StartClicked
  <2>1. UNCHANGED <<windows, mixed, results>> /\ win.open /\ win.start
    BY <1>2 DEF StartClicked
  <2>2. ~mixed => win.sid = None /\ StartsOf(OwnCalls) = {} /\ StartsOf(results)' = {}
    BY <2>1 DEF OneStart, Starting, StartsOf
  <2>3. win'.sid = win.sid /\ ~win'.start
    BY <1>2, StartClickedRecords DEF Shape, Leaves
  <2>4. PICK x : \A c \in calls' : Starts(c) => c \in calls \/ c = x
    BY <1>2 DEF StartClicked, Sends
  <2>5. CASE mixed
    BY <2>1, <2>5 DEF OneStart
  <2>6. CASE ~mixed
    BY <2>1, <2>2, <2>3, <2>4, <2>6, NextStart
  <2>. QED  BY <2>5, <2>6
<1>3. CASE AbortClicked \/ PollsStatus \/ BeginsShutdown
  <2>1. Clicks /\ NoNewStart
    BY <1>3
       DEF Clicks, NoNewStart, Starts, AbortClicked, PollsStatus, BeginsShutdown, Sends,
           Refresh, Call
  <2>2. win'.open => win'.sid = win.sid /\ (win'.start => win.start)
    BY <1>3, AbortClickedRecords, PollsStatusRecords, BeginsShutdownRecords
       DEF Shape, ShapeRest, Leaves
  <2>. QED  BY <2>1, <2>2, ClicksFrame, OneStartUnlessMoved
<1>4. ASSUME NEW a \in Actions, Asking(a) \/ TimesOut
      PROVE  OneStart'
  <2>1. win' = win \/ ~win'.open
    BY <1>4, RequestsRecords, ForcesRecords, GivesRecords, TimesOutRecords
       DEF Asking, Shape, ShapeRest
  <2>. QED  BY <1>4, <2>1, AskingFrame, OneStartUnlessMoved DEF NoNewStart
<1>5. ASSUME NEW n \in 1..MaxActions, HeadlessBegins(n) \/ Headlong(n)
      PROVE  OneStart'
  <2>1. win' = win \/ ~win'.open
    BY <1>5, HeadlessBeginsRecords, HeadlessNotesRecords, HeadlessEndsRecords,
       HeadlessGivesUpRecords
       DEF Headlong, Shape, ShapeRest
  <2>2. UNCHANGED <<windows, mixed>> /\ results' \subseteq results
    BY <1>5, HeadlongFrame DEF HeadlessBegins, counters
  <2>3. NoNewStart
    BY <1>5
       DEF NoNewStart, Starts, Headlong, HeadlessBegins, HeadlessNotes, HeadlessEnds,
           HeadlessGivesUp, Sends, Call
  <2>. QED  BY <2>1, <2>2, <2>3, OneStartUnlessMoved
<1>6. ASSUME NEW m \in results, Handle(m)
      PROVE  OneStart'
  BY <1>6, StartAnswered, AnsweredWithoutStart DEF Handle
<1>7. CASE Serves
  <2>1. UNCHANGED <<win, windows, mixed>>
    BY <1>7 DEF Serves, counters
  <2>2. PICK c \in calls : ServesBoot(c) \/ ServesStart(c) \/ ServesAbort(c) \/ ServesStatus(c) \/ ServesRelease(c)
    BY <1>7 DEF Serves
  <2>3. ASSUME NEW m
        PROVE  \A x, y \in StartsOf({m}) : x = y
    BY DEF StartsOf
  <2>4. CASE ServesBoot(c) \/ ServesStart(c)
    <3>1. PICK m : Answers(c, {m}) /\ Starts(c)
      BY <2>4 DEF ServesBoot, ServesStart, Starts
    <3>. QED  BY <2>1, <2>3, <3>1, OneStartAnswers
  <2>5. CASE ServesAbort(c) \/ ServesStatus(c) \/ ServesRelease(c)
    <3>1. PICK set : Answers(c, set) /\ \A m \in set : ~Starts(m)
      BY <2>5 DEF ServesAbort, ServesStatus, ServesRelease, Event, Msg, Starts
    <3>. QED  BY <2>1, <3>1, OneStartAnswers DEF StartsOf, Starts
  <2>. QED  BY <2>2, <2>4, <2>5
<1>8. CASE Unreachable
  <2>1. PICK c \in calls : Answers(c, IF c.kind = "release" THEN {} ELSE {Msg(c.kind, c.s, "down")})
    BY <1>8 DEF Unreachable
  <2>2. UNCHANGED <<win, windows, mixed>>
    BY <1>8 DEF Unreachable, counters
  <2>. QED  BY <2>1, <2>2, OneStartAnswers DEF StartsOf, Starts, Msg
<1>9. CASE Cleanup \/ UNCHANGED vars
  BY <1>9 DEF Cleanup, counters, vars, OneStart, StartsOf, OwnCalls, Starting
<1>10. CASE TimesOut
  <2>1. "close" \in Actions
    BY DEF Actions
  <2>. QED  BY <1>4, <1>10, <2>1
<1>. QED  BY <1>1, <1>2, <1>3, <1>4, <1>5, <1>6, <1>7, <1>8, <1>9, <1>10, StepKinds DEF Clicks

-----------------------------------------------------------------------------
(* The threads end the session the guard knows of.                         *)

HasSession(n) == headless[n].at \in {"aborted", "polls"}

\* The threads stay, and the guard's session stays or is gone.
LEMMA ThreadsAgreeUnlessMoved ==
    ASSUME ThreadsAgree, overlap => overlap', ctl'.sid \in {ctl.sid, None},
           ~overlap' => \A n \in 1..MaxActions : HasSession(n)' => HasSession(n) /\ headless'[n].s = headless[n].s
    PROVE  ThreadsAgree'
  BY DEF ThreadsAgree, HasSession

LEMMA ThreadsAgreeKept ==
    ASSUME Shape, Mirrors, ThreadsAgree, [Next]_vars
    PROVE  ThreadsAgree'
<1>0. headless \in [1..MaxActions -> Threads]
  BY DEF Shape, ShapeThreads
<1>1. CASE Opens
  <2>1. ~overlap' => ~overlap /\ \A n \in 1..MaxActions : ~Busy(n)
    BY <1>1 DEF Opens, Busy
  <2>2. UNCHANGED headless
    BY <1>1 DEF Opens
  <2>. QED  BY <2>1, <2>2 DEF ThreadsAgree, Busy
<1>2. ASSUME win.open, UNCHANGED <<headless, overlap>>
      PROVE  ThreadsAgree'
  BY <1>2 DEF Mirrors, ThreadsAgree, Busy
<1>3. CASE TimesOut
  <2>1. ctl'.sid = ctl.sid /\ UNCHANGED <<headless, overlap>>
    BY <1>3, TimesOutRecords DEF Shape, Leaves, TimesOut, rest
  <2>. QED  BY <2>1, ThreadsAgreeUnlessMoved DEF HasSession
<1>4. ASSUME NEW a \in Actions, Asking(a)
      PROVE  ThreadsAgree'
  <2>1. ctl'.sid = ctl.sid /\ overlap' = overlap
    BY <1>4, RequestsRecords, ForcesRecords, GivesRecords, AskingFrame
       DEF Asking, Shape, ShapeRest, Leaves
  <2>2. ASSUME NEW n \in 1..MaxActions, HasSession(n)'
        PROVE  HasSession(n) /\ headless'[n].s = headless[n].s
    <3> DEFINE b == [at |-> "begun", s |-> None]
    <3>1. UNCHANGED headless \/ headless' = [headless EXCEPT ![asked'] = b]
      BY <1>4, RequestsRecords DEF Asking, Shape, ShapeRest, Forces, Gives, rest
    <3>3. b.at = "begun"
      OBVIOUS
    <3> HIDE DEF b
    <3>2. headless'[n] = headless[n] \/ headless'[n].at = "begun"
      BY <1>0, <3>1, <3>3
    <3>. QED  BY <2>2, <3>2 DEF HasSession
  <2>. QED  BY <2>1, <2>2, ThreadsAgreeUnlessMoved
<1>5. ASSUME NEW n \in 1..MaxActions, HeadlessBegins(n)
      PROVE  ThreadsAgree'
  <2>1. ctl'.sid = ctl.sid /\ overlap' = overlap
    BY <1>5, HeadlessBeginsRecords DEF Shape, ShapeRest, Leaves, HeadlessBegins
  <2>2. CASE headless' = [headless EXCEPT ![n] = NoThread]
    <3>1. NoThread.at = "none"
      BY DEF NoThread
    <3>2. \A k \in 1..MaxActions : HasSession(k)' => HasSession(k) /\ headless'[k].s = headless[k].s
      <4>1. \A k \in 1..MaxActions : headless'[k] = IF k = n THEN NoThread ELSE headless[k]
        BY <1>0, <2>2
      <4>. QED  BY <3>1, <4>1 DEF HasSession
    <3>. QED  BY <2>1, <3>2, ThreadsAgreeUnlessMoved
  <2>3. CASE /\ ctl.sid # None
             /\ \E at \in {"aborted", "polls"} : headless' = [headless EXCEPT ![n] = [at |-> at, s |-> ctl.sid]]
    <3>1. PICK h : headless' = [headless EXCEPT ![n] = h] /\ h.s = ctl.sid
      <4>1. PICK at : headless' = [headless EXCEPT ![n] = [at |-> at, s |-> ctl.sid]]
        BY <2>3
      <4>2. [at |-> at, s |-> ctl.sid].s = ctl.sid
        OBVIOUS
      <4>. QED  BY <4>1, <4>2
    <3>2. \A k \in 1..MaxActions : headless'[k] = IF k = n THEN h ELSE headless[k]
      BY <1>0, <3>1
    <3>3. ASSUME ~overlap', NEW k \in 1..MaxActions, HasSession(k)'
          PROVE  headless'[k].s = ctl.sid
      BY <2>1, <2>3, <3>1, <3>2, <3>3 DEF ThreadsAgree, HasSession
    <3>. QED  BY <2>1, <3>3 DEF ThreadsAgree, HasSession
  <2>. QED  BY <1>5, <2>2, <2>3, HeadlessBeginsRecords DEF Shape, ShapeRest
<1>6. ASSUME NEW n \in 1..MaxActions, HeadlessNotes(n)
      PROVE  ThreadsAgree'
  <2>1. overlap' = overlap /\ HasSession(n)
    BY <1>6 DEF HeadlessNotes, HasSession
  <2>2. CASE UNCHANGED ctl /\ headless' = [headless EXCEPT ![n] = NoThread]
    <3>1. NoThread.at = "none"
      BY DEF NoThread
    <3>2. \A k \in 1..MaxActions : HasSession(k)' => HasSession(k) /\ headless'[k].s = headless[k].s
      <4>1. \A k \in 1..MaxActions : headless'[k] = IF k = n THEN NoThread ELSE headless[k]
        BY <1>0, <2>2
      <4>. QED  BY <3>1, <4>1 DEF HasSession
    <3>. QED  BY <2>1, <2>2, <3>2, ThreadsAgreeUnlessMoved
  <2>3. CASE ctl'.sid = headless[n].s /\ headless' = [headless EXCEPT ![n].at = "polls"]
    <3>1. PICK h : headless' = [headless EXCEPT ![n] = h] /\ h.s = headless[n].s
      <4>1. [headless[n] EXCEPT !.at = "polls"].s = headless[n].s
        BY DEF Shape, ShapeThreads, Threads
      <4>2. headless' = [headless EXCEPT ![n] = [headless[n] EXCEPT !.at = "polls"]]
        BY <2>3
      <4>. QED  BY <4>1, <4>2
    <3>2. \A k \in 1..MaxActions : headless'[k] = IF k = n THEN h ELSE headless[k]
      BY <1>0, <3>1
    <3>3. ASSUME ~overlap', NEW k \in 1..MaxActions, HasSession(k)'
          PROVE  headless'[k].s = headless[n].s
      BY <2>1, <3>1, <3>2, <3>3 DEF ThreadsAgree, HasSession
    <3>. QED  BY <2>3, <3>3 DEF ThreadsAgree, HasSession
  <2>. QED  BY <1>6, <2>2, <2>3, HeadlessNotesRecords DEF Shape
<1>7. ASSUME NEW n \in 1..MaxActions, HeadlessEnds(n) \/ HeadlessGivesUp(n)
      PROVE  ThreadsAgree'
  <2>1. overlap' = overlap /\ ctl'.sid \in {ctl.sid, None}
    BY <1>7, HeadlongFrame, HeadlessEndsRecords, HeadlessGivesUpRecords
       DEF Headlong, Shape, ShapeRest, Idle
  <2>2. headless' = [headless EXCEPT ![n] = NoThread]
    BY <1>7 DEF HeadlessEnds, HeadlessGivesUp
  <2>3. NoThread.at = "none"
    BY DEF NoThread
  <2>4. \A k \in 1..MaxActions : HasSession(k)' => HasSession(k) /\ headless'[k].s = headless[k].s
    <3>1. \A k \in 1..MaxActions : headless'[k] = IF k = n THEN NoThread ELSE headless[k]
      BY <1>0, <2>2
    <3>. QED  BY <2>3, <3>1 DEF HasSession
  <2>. QED  BY <2>1, <2>4, ThreadsAgreeUnlessMoved
<1>8. CASE Serves \/ Unreachable \/ Cleanup \/ UNCHANGED vars
  BY <1>8 DEF Serves, Unreachable, Cleanup, counters, vars, ThreadsAgree
<1>. QED  BY <1>1, <1>2, <1>3, <1>4, <1>5, <1>6, <1>7, <1>8, StepKinds, ClicksFrame,
             HandleFrame
             DEF Headlong

-----------------------------------------------------------------------------
(* The session that a pending action is to end.                            *)

Hunted == target # None /\ ~overlap /\ ~mixed /\ server[target] = "running"
IsKnown == IF win.open THEN win.sid = target \/ KnowsNothing ELSE ctl.sid = target
Sound == Mirrors /\ Told /\ OneRuns /\ Known /\ OneStart /\ ThreadsAgree /\ Targeted

LEMMA HuntedIsKnown ==
    ASSUME Targeted, Hunted
    PROVE  IsKnown /\ ctl.pending # None
  BY DEF Targeted, Hunted, IsKnown

LEMMA FlagsStay ==
    ASSUME Shape, [Next]_vars
    PROVE  (overlap => overlap') /\ (mixed => mixed')
<1>1. CASE Opens
  BY <1>1 DEF Opens
<1>2. CASE Clicks
  BY <1>2, ClicksFrame
<1>3. CASE TimesOut
  BY <1>3 DEF TimesOut, rest
<1>4. ASSUME NEW a \in Actions, Asking(a)
      PROVE  UNCHANGED <<overlap, mixed>>
  BY <1>4, AskingFrame
<1>5. ASSUME NEW n \in 1..MaxActions, HeadlessBegins(n) \/ Headlong(n)
      PROVE  UNCHANGED <<overlap, mixed>>
  BY <1>5, HeadlongFrame DEF HeadlessBegins
<1>6. ASSUME NEW m \in results, Handle(m)
      PROVE  UNCHANGED overlap /\ (mixed => mixed')
  BY <1>6, HandleFrame DEF Mixes
<1>7. CASE Serves \/ Unreachable \/ Cleanup \/ UNCHANGED vars
  BY <1>7 DEF Serves, Unreachable, Cleanup, vars
<1>. QED  BY <1>1, <1>2, <1>3, <1>4, <1>5, <1>6, <1>7, StepKinds

LEMMA HuntedBefore ==
    ASSUME Shape, Known, [Next]_vars, Hunted', UNCHANGED target
    PROVE  Hunted
<1>1. target \in Sessions
  BY DEF Hunted, Shape, ShapeRest, Session
<1>2. server[target] # "new"
  BY <1>1 DEF Known, Began
<1>. QED  BY <1>1, <1>2, FlagsStay, ServerMoves DEF Hunted, SessionsMove

\* An answer that would end the hunted session in the window's eyes is one
\* about another session.
LEMMA HuntedIsNotEnded ==
    ASSUME Shape, Told, Targeted, Hunted, ~mixed', NEW m \in results, HandleStatus(m) \/ HandleDone(m)
    PROVE  Leaves(win, win') /\ win'.open = win.open /\ UNCHANGED <<ctl, calls>>
<1>1. NamesItsOwn(m) /\ m.s # None /\ win.open /\ m.kind \in {"status", "done"}
  BY DiagnosticsGuardAssumption, HandleFrame
     DEF Handle, HandleStatus, HandleDone, Shape, ShapeTraffic, NamesItsOwn
<1>2. win.sid = target
  BY <1>1, HuntedIsKnown DEF IsKnown, KnowsNothing
<1>3. TellsOfTheEnd(m) => m.s # target
  BY DEF Told, HasEnded, Hunted
<1>4. CASE HandleStatus(m)
  <2>1. Mixes(m) => m.s = win.sid
    BY <1>2 DEF Mixes, Hunted
  <2>2. m.res \in {"gone", "aborted"} => ~Mixes(m)
    BY <1>2, <1>3, <1>4, <2>1 DEF TellsOfTheEnd, HandleStatus
  <2>. QED  BY <1>4, <2>2, HandleStatusRecords DEF Shape, ShapeRest
<1>5. CASE HandleDone(m)
  <2>1. m.s # win.sid
    BY <1>2, <1>3, <1>5 DEF TellsOfTheEnd, HandleDone
  <2>. QED  BY <1>1, <1>5, <2>1, HandleDoneRecords DEF Shape, ShapeRest, Leaves
<1>. QED  BY <1>4, <1>5

\* A thread meets the hunted session only without a window.
LEMMA HuntedByThread ==
    ASSUME Shape, Mirrors, ThreadsAgree, Targeted, Hunted, NEW n \in 1..MaxActions, Busy(n)
    PROVE  /\ ~win.open /\ ctl.sid = target
           /\ HasSession(n) => headless[n].s = target
<1>1. ~win.open /\ ctl.sid = target
  BY HuntedIsKnown DEF Mirrors, IsKnown, Hunted
<1>. QED  BY <1>1 DEF ThreadsAgree, HasSession, Hunted

LEMMA KnowsNothingUnlessMoved ==
    ASSUME KnowsNothing, UNCHANGED <<windows, target>>, win'.sid = None, ~todo', results' \subseteq results,
           \A c \in calls' : c.kind \in {"abort", "status"} => c \in calls
    PROVE  KnowsNothing'
  BY DEF KnowsNothing, OwnCalls

\* An action is pending for as long as its session is remembered.
LEMMA PendingKept ==
    ASSUME Shape, Targeted, [Next]_vars
    PROVE  /\ target' # None => ctl'.pending # None
           /\ \/ UNCHANGED target \/ target' = None
              \/ /\ target' = ctl.sid /\ ctl'.sid = ctl.sid /\ UNCHANGED win
                 /\ \E a \in Actions : Requests(a)
<1>. DEFINE Stays == UNCHANGED target /\ ctl'.pending = ctl.pending
            Over == ctl'.pending = None /\ target' = IF ctl.pending = None THEN target ELSE None
<1>1. CASE Stays \/ Over \/ target' = None
  BY <1>1 DEF Targeted
<1>2. CASE Opens
  BY <1>1, <1>2, OpensRecords DEF Shape, Opens
<1>3. CASE Clicks
  <2>1. CASE StartClicked \/ AbortClicked \/ PollsStatus
    BY <1>1, <2>1 DEF StartClicked, AbortClicked, PollsStatus
  <2>2. CASE BeginsShutdown
    BY <1>1, <2>2, BeginsShutdownRecords DEF Shape, ShapeRest
  <2>. QED  BY <1>3, <2>1, <2>2 DEF Clicks
<1>4. CASE TimesOut
  BY <1>1, <1>4, TimesOutRecords DEF Shape, TimesOut
<1>5. ASSUME NEW a \in Actions, Asking(a)
      PROVE  \/ Stays \/ Over \/ target' = None
             \/ /\ target' = ctl.sid /\ ctl'.sid = ctl.sid /\ UNCHANGED win /\ ctl'.pending # None
                /\ Requests(a)
  <2>1. a # None
    BY DiagnosticsGuardAssumption
  <2>2. CASE Requests(a)
    BY <2>1, <2>2, RequestsRecords DEF Shape, ShapeRest, Leaves
  <2>3. CASE Forces(a)
    BY <2>3, ForcesRecords DEF Shape, ShapeRest
  <2>4. CASE Gives(a)
    BY <2>4 DEF Gives
  <2>. QED  BY <1>5, <2>2, <2>3, <2>4 DEF Asking
<1>6. ASSUME NEW n \in 1..MaxActions, HeadlessBegins(n) \/ Headlong(n)
      PROVE  Stays \/ Over
  <2>1. CASE HeadlessBegins(n)
    BY <2>1, HeadlessBeginsRecords DEF Shape, ShapeRest
  <2>2. CASE HeadlessNotes(n)
    BY <2>2, HeadlessNotesRecords DEF Shape, HeadlessNotes
  <2>3. CASE HeadlessEnds(n)
    BY <2>3, HeadlessEndsRecords DEF Shape, ShapeRest
  <2>4. CASE HeadlessGivesUp(n)
    BY <2>4 DEF HeadlessGivesUp
  <2>. QED  BY <1>6, <2>1, <2>2, <2>3, <2>4 DEF Headlong
<1>7. ASSUME NEW m \in results, Handle(m)
      PROVE  Stays \/ Over
  <2>1. NamesItsOwn(m)
    BY DEF Shape, ShapeTraffic
  <2>2. CASE HandleBoot(m) \/ HandleStart(m)
    BY <2>1, <2>2, HandleBootRecords, HandleStartRecords
       DEF Shape, SessionStays, HandleBoot, HandleStart
  <2>3. CASE HandleAbort(m)
    BY <2>1, <2>3, HandleAbortRecords DEF Shape, HandleAbort
  <2>4. CASE HandleStatus(m)
    BY <2>4, HandleStatusRecords DEF Shape, ShapeRest, EndsHere
  <2>5. CASE HandleDone(m)
    BY <2>1, <2>5, HandleDoneRecords DEF Shape, ShapeRest, EndsHere
  <2>. QED  BY <1>7, <2>2, <2>3, <2>4, <2>5 DEF Handle
<1>8. CASE Serves \/ Unreachable \/ Cleanup \/ UNCHANGED vars
  BY <1>1, <1>8 DEF Serves, Unreachable, Cleanup, vars
<1>9. ASSUME NEW a \in Actions, Asking(a)
      PROVE  /\ target' # None => ctl'.pending # None
             /\ \/ UNCHANGED target \/ target' = None
                \/ /\ target' = ctl.sid /\ ctl'.sid = ctl.sid /\ UNCHANGED win
                   /\ \E b \in Actions : Requests(b)
  BY <1>1, <1>5, <1>9
<1>10. ASSUME Stays \/ Over
       PROVE  /\ target' # None => ctl'.pending # None
              /\ UNCHANGED target \/ target' = None
  BY <1>10 DEF Targeted
<1>. QED  BY <1>2, <1>3, <1>4, <1>6, <1>7, <1>8, <1>9, <1>10, StepKinds

LEMMA TargetedKept ==
    ASSUME Shape, Sound, [Next]_vars
    PROVE  Targeted'
<1>. SUFFICES ASSUME Hunted'
              PROVE  IsKnown'
  BY PendingKept DEF Sound, Targeted, Hunted, IsKnown
<1>. USE DEF Sound
<1>1. CASE target' # target
  <2>1. target' = ctl.sid /\ ctl'.sid = ctl.sid /\ UNCHANGED win /\ ~overlap
    BY <1>1, PendingKept, FlagsStay DEF Hunted
  <2>. QED  BY <2>1 DEF Mirrors, IsKnown
<1>. SUFFICES ASSUME UNCHANGED target
              PROVE  IsKnown'
  BY <1>1
<1>2. Hunted /\ IsKnown /\ ctl.pending # None /\ ctl'.pending # None /\ ~mixed' /\ ~overlap
  BY HuntedBefore, HuntedIsKnown, PendingKept DEF Hunted
<1>3. target # None
  BY <1>2 DEF Hunted
<1>4. CASE Opens
  <2>1. OwnCalls' = {} /\ results' = {} /\ ~todo'
    BY <1>4 DEF Opens, OwnCalls, Shape, ShapeTraffic, ShapeRest
  <2>2. win'.sid = None /\ win'.open
    BY <1>4, OpensRecords DEF Shape, Idle
  <2>. QED  BY <2>1, <2>2 DEF IsKnown, KnowsNothing
<1>5. CASE Clicks
  <2>1. win.open /\ UNCHANGED <<windows, mixed>> /\ results' \subseteq results /\ (~todo => ~todo')
    BY <1>5, ClicksFrame
  <2>2. win'.sid = win.sid /\ win'.open /\ (win.sid = None => StartClicked)
    <3>1. CASE StartClicked
      BY <3>1, StartClickedRecords DEF Shape, Leaves
    <3>2. CASE AbortClicked
      BY <3>2, AbortClickedRecords DEF Shape, Leaves, AbortClicked
    <3>3. CASE PollsStatus
      BY <3>3, PollsStatusRecords DEF Shape, Leaves, PollsStatus, Refresh
    <3>4. CASE BeginsShutdown
      <4>1. todo
        BY <3>4 DEF BeginsShutdown
      <4>. QED  BY <1>2, <1>3, <2>1, <3>4, <4>1, BeginsShutdownRecords
                DEF Shape, ShapeRest, Leaves, Idle, IsKnown, KnowsNothing
    <3>. QED  BY <1>5, <3>1, <3>2, <3>3, <3>4 DEF Clicks
  <2>3. CASE KnowsNothing
    <3>1. StartClicked /\ ~todo'
      BY <2>1, <2>2, <2>3 DEF KnowsNothing
    <3>2. \A c \in calls' : c.kind \in {"abort", "status"} => c \in calls
      BY <3>1 DEF StartClicked, Sends, Call
    <3>. QED  BY <2>1, <2>2, <2>3, <3>1, <3>2, KnowsNothingUnlessMoved DEF IsKnown, KnowsNothing
  <2>. QED  BY <1>2, <2>1, <2>2, <2>3 DEF IsKnown
<1>6. ASSUME NEW a \in Actions, Asking(a) \/ TimesOut
      PROVE  IsKnown'
  <2>1. UNCHANGED <<win, todo>> /\ ctl'.sid = ctl.sid
    BY <1>2, <1>3, <1>6, RequestsRecords, ForcesRecords, GivesRecords, TimesOutRecords
       DEF Asking, Shape, ShapeRest, Leaves, TimesOut, Forces, Gives
  <2>2. UNCHANGED <<calls, windows>> /\ results' \subseteq results
    BY <1>6, AskingFrame
  <2>3. KnowsNothing => KnowsNothing'
    BY <2>1, <2>2 DEF KnowsNothing, OwnCalls
  <2>. QED  BY <1>2, <2>1, <2>3 DEF IsKnown
<1>7. ASSUME NEW n \in 1..MaxActions, HeadlessBegins(n) \/ Headlong(n)
      PROVE  IsKnown'
  <2>1. Busy(n)
    BY <1>7 DEF Busy, Headlong, HeadlessBegins, HeadlessNotes, HeadlessEnds, HeadlessGivesUp
  <2>2. /\ ~win.open /\ ctl.sid = target
        /\ HasSession(n) => headless[n].s = target
    BY <1>2, <2>1, HuntedByThread
  <2>3. CASE HeadlessBegins(n) \/ HeadlessGivesUp(n)
    <3>1. UNCHANGED <<win, ctl>>
      BY <1>3, <2>2, <2>3, HeadlessBeginsRecords, HeadlessGivesUpRecords DEF Shape, ShapeRest
    <3>. QED  BY <2>2, <3>1 DEF IsKnown
  <2>4. CASE HeadlessNotes(n)
    <3>1. server[headless[n].s] # "aborted"
      BY <1>2, <2>2, <2>4 DEF HeadlessNotes, HasSession, Hunted
    <3>2. UNCHANGED <<win, ctl>>
      BY <2>4, <3>1, HeadlessNotesRecords DEF Shape
    <3>. QED  BY <2>2, <3>2 DEF IsKnown
  <2>5. ~HeadlessEnds(n)
    BY <1>2, HeadlessEndsRecords DEF Shape, ShapeRest
  <2>. QED  BY <1>7, <2>3, <2>4, <2>5 DEF Headlong
<1>8. ASSUME NEW m \in results, Handle(m)
      PROVE  IsKnown'
  <2>1. /\ win.open /\ UNCHANGED <<todo, windows>> /\ results' \subseteq results
        /\ NamesItsOwn(m)
    BY <1>8, HandleFrame DEF Shape, ShapeTraffic
  <2>2. CASE HandleBoot(m) \/ HandleStart(m)
    <3>1. Starts(m) /\ win.sid = None
      BY <1>2, <2>1, <2>2, OneStartUnderWay DEF HandleBoot, HandleStart, Starts, Hunted
    <3>2. KnowsNothing
      BY <1>2, <1>3, <2>1, <3>1 DEF IsKnown
    <3>3. CASE win'.sid = None
      <4>1. \A c \in calls' : c.kind \in {"abort", "status"} => c \in calls
        BY <3>3, NewCalls DEF AsksToStart, Call
      <4>2. win'.open
        BY <2>1, <2>2, HandleBootRecords, HandleStartRecords DEF Shape, SessionStays
      <4>. QED  BY <2>1, <3>2, <3>3, <4>1, <4>2, KnowsNothingUnlessMoved
                   DEF IsKnown, KnowsNothing
    <3>4. CASE win'.sid # None
      <4>1. m.kind = "start" /\ m.res \in {"ok", "active"} /\ win'.sid = m.s /\ win'.open
        BY <2>1, <2>2, <3>1, <3>4, HandleBootRecords, HandleStartRecords
           DEF Shape, SessionStays, HandleStart
      <4>. QED  BY <3>2, <4>1 DEF KnowsNothing, IsKnown
    <3>. QED  BY <3>3, <3>4
  <2>3. CASE HandleAbort(m)
    <3>1. win.sid = target
      BY <1>2, <2>1, <2>3 DEF HandleAbort, IsKnown, KnowsNothing
    <3>2. Mixes(m) => m.s = win.sid
      BY <1>2, <1>3, <3>1 DEF Mixes
    <3>. QED  BY <2>1, <2>3, <3>1, <3>2, HandleAbortRecords DEF Shape, Leaves, IsKnown
  <2>4. CASE HandleStatus(m) \/ HandleDone(m)
    <3>1. Leaves(win, win') /\ win'.open = win.open
      BY <1>2, <2>4, HuntedIsNotEnded
    <3>2. win.sid = target
      BY <1>2, <2>1, <2>4 DEF HandleStatus, HandleDone, IsKnown, KnowsNothing
    <3>. QED  BY <2>1, <3>1, <3>2 DEF Leaves, IsKnown
  <2>. QED  BY <1>8, <2>2, <2>3, <2>4 DEF Handle
<1>9. CASE Serves \/ Unreachable
  <2>1. UNCHANGED <<win, ctl, todo, windows>>
    BY <1>9 DEF Serves, Unreachable, counters
  <2>2. calls' \subseteq calls
    BY <1>9
       DEF Serves, ServesBoot, ServesStart, ServesAbort, ServesStatus, ServesRelease,
           Unreachable, Answers
  <2>3. ASSUME KnowsNothing, NEW m \in results', m \notin results
        PROVE  /\ m.kind \notin {"abort", "status", "done"}
               /\ m.kind = "start" /\ m.res \in {"ok", "active"} => m.s = target
    <3>1. /\ OneRuns' /\ target \in Sessions /\ server'[target] = "running" /\ calls \subseteq CallRecords
      BY OneRunsKept DEF Hunted, Shape, ShapeTraffic, ShapeRest, Session
    <3>2. PICK c \in calls :
             /\ c.w = windows
             /\ \/ m.kind = c.kind /\ m.res = "down"
                \/ m.kind = "boot"
                \/ m.kind = "start" /\ (m.res \in {"ok", "active"} => m.s \in Sessions /\ server'[m.s] = "running")
                \/ m.kind = "status" /\ ServesStatus(c)
                \/ m.kind \in {"abort", "done"} /\ ServesAbort(c)
      BY <2>3, NewResults
    <3>3. c.kind \notin {"abort", "status", "done"}
      BY <2>3, <3>1, <3>2 DEF KnowsNothing, OwnCalls, CallRecords
    <3>. QED  BY <3>1, <3>2, <3>3 DEF OneRuns, ServesStatus, ServesAbort
  <2>4. KnowsNothing => KnowsNothing'
    BY <2>1, <2>2, <2>3 DEF KnowsNothing, OwnCalls
  <2>. QED  BY <1>2, <2>1, <2>4 DEF IsKnown
<1>10. CASE Cleanup \/ UNCHANGED vars
  BY <1>2, <1>10 DEF Cleanup, counters, vars, IsKnown, KnowsNothing, OwnCalls
<1>11. "close" \in Actions
  BY DEF Actions
<1>. QED  BY <1>4, <1>5, <1>6, <1>7, <1>8, <1>9, <1>10, <1>11, StepKinds

-----------------------------------------------------------------------------
(* The invariant, and what follows from it.                                *)

LEMMA SoundInit == Init => Sound
<1>. SUFFICES ASSUME Init PROVE Sound
  OBVIOUS
<1>1. ~win.open /\ ctl.sid = None /\ target = None /\ calls = {} /\ results = {}
  BY DEF Init, Fresh
<1>2. \A n \in 1..MaxActions : headless[n].at = "none" /\ headless[n].s = None
  BY DEF Init, NoThread
<1>3. \A s \in Sessions : server[s] = "new"
  BY DEF Init
<1>4. Began(None)
  BY DiagnosticsGuardAssumption DEF Began
<1>5. Mirrors /\ Told /\ OneStart /\ Targeted
  BY <1>1 DEF Mirrors, Told, OneStart, Targeted
<1>6. OneRuns /\ ThreadsAgree
  BY <1>2, <1>3 DEF OneRuns, ThreadsAgree
<1>7. Known
  BY <1>1, <1>2, <1>4 DEF Known
<1>. QED  BY <1>5, <1>6, <1>7 DEF Sound

LEMMA SoundKept ==
    ASSUME Shape, Sound, [Next]_vars
    PROVE  Sound'
<1>1. Mirrors' /\ Told' /\ OneRuns'
  BY MirrorsKept, ToldKept, OneRunsKept DEF Sound
<1>2. Known' /\ OneStart' /\ ThreadsAgree'
  BY KnownKept, OneStartKept, ThreadsAgreeKept DEF Sound
<1>. QED  BY <1>1, <1>2, TargetedKept DEF Sound

LEMMA Invariance == Spec => [](Shape /\ Sound)
<1>1. Shape /\ Sound /\ [Next]_vars => (Shape /\ Sound)'
  BY ShapeKept, SoundKept
<1>. QED  BY <1>1, ShapeInit, SoundInit, PTL DEF Spec

(* While a window is open the guard knows of its session, of its abort and *)
(* of its lease (_activate_session, _handle_abort_result and               *)
(* _finalize_terminal_session tell it), whatever comes late or not at all. *)
THEOREM GuardMirrors == Spec => []GuardMirrorsWindow
<1>1. Shape /\ Sound => GuardMirrorsWindow
  BY DEF Shape, ShapeRecords, Consistent, Sound, Mirrors, GuardMirrorsWindow
<1>. QED  BY <1>1, Invariance, PTL

LEMMA HuntedStays ==
    ASSUME Shape, Sound, [Next]_vars, Hunted, ~mixed', dialogs' = dialogs
    PROVE  ctl'.pending # None
<1>1. IsKnown /\ ctl.pending # None
  BY HuntedIsKnown DEF Sound
<1>2. target # None
  BY DEF Hunted
<1>3. CASE Opens
  BY <1>1, <1>3, OpensRecords DEF Shape
<1>4. CASE Clicks
  <2>1. CASE StartClicked \/ AbortClicked \/ PollsStatus
    BY <1>1, <2>1 DEF StartClicked, AbortClicked, PollsStatus
  <2>2. CASE BeginsShutdown
    <3>1. todo /\ win.open
      BY <2>2 DEF BeginsShutdown
    <3>. QED  BY <1>1, <1>2, <2>2, <3>1, BeginsShutdownRecords
                 DEF Shape, ShapeRest, Idle, IsKnown, KnowsNothing
  <2>. QED  BY <1>4, <2>1, <2>2 DEF Clicks
<1>5. CASE TimesOut
  BY <1>1, <1>5, TimesOutRecords DEF Shape
<1>6. ASSUME NEW a \in Actions, Asking(a)
      PROVE  ctl'.pending # None
  <2>1. ~Forces(a) /\ ~Gives(a)
    BY DEF Forces, Gives
  <2>. QED  BY <1>1, <1>6, <2>1, RequestsRecords DEF Asking, Shape, ShapeRest
<1>7. ASSUME NEW n \in 1..MaxActions, HeadlessBegins(n) \/ Headlong(n)
      PROVE  ctl'.pending # None
  <2>1. Busy(n)
    BY <1>7 DEF Busy, Headlong, HeadlessBegins, HeadlessNotes, HeadlessEnds, HeadlessGivesUp
  <2>2. /\ ~win.open /\ ctl.sid = target
        /\ HasSession(n) => headless[n].s = target
    BY <2>1, HuntedByThread DEF Sound
  <2>3. ~HeadlessEnds(n)
    BY <2>2 DEF HeadlessEnds, HasSession, Hunted
  <2>4. CASE HeadlessBegins(n)
    BY <1>1, <1>2, <2>2, <2>4, HeadlessBeginsRecords DEF Shape, ShapeRest
  <2>5. CASE HeadlessNotes(n) \/ HeadlessGivesUp(n)
    BY <1>1, <2>5, HeadlessNotesRecords, HeadlessGivesUpRecords DEF Shape
  <2>. QED  BY <1>7, <2>3, <2>4, <2>5 DEF Headlong
<1>8. ASSUME NEW m \in results, Handle(m)
      PROVE  ctl'.pending # None
  <2>1. NamesItsOwn(m)
    BY DEF Shape, ShapeTraffic
  <2>2. CASE HandleBoot(m) \/ HandleStart(m)
    BY <1>1, <2>1, <2>2, HandleBootRecords, HandleStartRecords DEF Shape, SessionStays
  <2>3. CASE HandleAbort(m)
    BY <1>1, <2>1, <2>3, HandleAbortRecords DEF Shape
  <2>4. CASE HandleStatus(m) \/ HandleDone(m)
    BY <1>1, <2>4, HuntedIsNotEnded DEF Sound
  <2>. QED  BY <1>8, <2>2, <2>3, <2>4 DEF Handle
<1>9. CASE Serves \/ Unreachable \/ Cleanup \/ UNCHANGED vars
  BY <1>1, <1>9 DEF Serves, Unreachable, Cleanup, vars
<1>. QED  BY <1>3, <1>4, <1>5, <1>6, <1>7, <1>8, <1>9, StepKinds

(* The dialogs' promise (diagnostics_window.py:603, client_gui.py): what   *)
(* the guard lets go as safe finds the session ended that was active when  *)
(* it was asked for, unless answers were mixed up or a window was opened   *)
(* while a thread was ending its session.                                  *)
THEOREM SafeActions == Spec => SafeActionEndsItsSession
<1>1. Shape /\ Sound /\ [Next]_vars => [LetsGo /\ ~overlap /\ ~mixed' => ~LeavesSession]_vars
  <2>. SUFFICES ASSUME Shape, Sound, [Next]_vars, LetsGo, ~overlap, ~mixed', LeavesSession
                PROVE  FALSE
    OBVIOUS
  <2>1. Hunted
    BY FlagsStay DEF LeavesSession, Hunted
  <2>2. ctl'.pending # None
    BY <2>1, HuntedStays DEF LetsGo
  <2>. QED  BY <2>2 DEF LetsGo
<1>. QED  BY <1>1, Invariance, PTL DEF Spec, SafeActionEndsItsSession

=============================================================================
