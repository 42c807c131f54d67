-------------------------- MODULE DiagnosticsGuard --------------------------
(***************************************************************************)
(* The diagnostics window of the tray program and the guard that ends its  *)
(* session before the window closes, the program quits or the client       *)
(* restarts with other settings (vci_proxy/diagnostics_window.py; the tray *)
(* menu is vci_proxy/client_gui.py).                                       *)
(*                                                                         *)
(* The window calls the cloud in threads and handles what they put in its  *)
(* queue.  The guard is shared by the window, the threads of the tray menu,*)
(* a timer and, when there is no window, a thread that ends the session.   *)
(*                                                                         *)
(* Left out: what a session does (SessionRuntime), decisions, navigation,  *)
(* live data and AI; the binding of a lease (NodePool); every node answers *)
(* as one worker.  A call is known by its kind, its session or lease, the  *)
(* window and the click on Start it goes back to: two that agree are one.  *)
(***************************************************************************)
EXTENDS Naturals, FiniteSets

CONSTANTS
    Sessions,    \* ids the worker gives to sessions
    Leases,      \* assignment ids the allocator gives
    None,
    MaxWindows,  \* bound on the windows opened
    MaxActions,  \* bound on the guarded actions asked for
    MaxStarts,   \* bound on the clicks on Start
    MaxAborts    \* bound on the clicks on Abort

Actions == {"close", "quit", "restart"}

ASSUME DiagnosticsGuardAssumption ==
    /\ None \notin Sessions \cup Leases \cup Actions
    /\ {MaxWindows, MaxActions, MaxStarts, MaxAborts} \subseteq Nat

VARIABLES
    win,      \* the window: its session, its lease and its buttons
    ctl,      \* the guard
    todo,     \* the window has been asked to begin a guarded shutdown
    headless, \* per guarded action: the thread that ends its session without a window
    dialogs,  \* actions whose failure the user is being asked about
    calls,    \* calls of the cloud that were not yet served
    results,  \* what is in the window's queue, or on the way there
    server,   \* the worker's sessions
    held,     \* leases held at the allocator
    target,   \* history: the session that the pending action is to end first
    overlap,  \* history: a window was opened while such a thread was at work
    mixed,    \* history: an answer about one session ended, or aborted, another
    quit,     \* the program was quit
    windows, asked, starts, aborts

vars == <<win, ctl, todo, headless, dialogs, calls, results, server, held, target,
          overlap, mixed, quit, windows, asked, starts, aborts>>

Session == Sessions \cup {None}
Lease == Leases \cup {None}
Fresh == [sid |-> None, final |-> FALSE, term |-> None, lease |-> None, start |-> TRUE,
          abort |-> FALSE, refresh |-> FALSE,
          retried |-> FALSE, boot |-> TRUE, events |-> None, open |-> TRUE]
NoThread == [at |-> "none", s |-> None]
Call(kind, s) == [kind |-> kind, s |-> s, w |-> windows, n |-> starts]
Msg(kind, s, res) == [kind |-> kind, s |-> s, res |-> res]

TypeOK ==
    /\ win \in [sid: Session, final: BOOLEAN, term: Session, lease: Lease, start: BOOLEAN,
                abort: BOOLEAN, refresh: BOOLEAN, retried: BOOLEAN, boot: BOOLEAN,
                events: Session, open: BOOLEAN]
    /\ ctl \in [sid: Session, final: BOOLEAN, term: Session, lease: Lease,
                pending: Actions \cup {None}, timer: BOOLEAN]
    /\ {todo, quit, overlap, mixed} \subseteq BOOLEAN
    /\ headless \in [1..MaxActions -> [at: {"none", "begun", "aborted", "polls"}, s: Session]]
    /\ dialogs \subseteq Actions
    /\ calls \subseteq [kind: {"boot", "start", "abort", "status", "release"},
                        s: Session \cup Lease, w: 0..MaxWindows, n: 0..MaxStarts]
    /\ \A c \in calls : c.kind \in {"abort", "status"} => c.s \in Sessions
    /\ results \subseteq [kind: {"boot", "start", "abort", "status", "done"},
                          s: Session \cup Lease,
                          res: {"ok", "no", "down", "active", "direct", "later", "gone", "aborted"}]
    /\ server \in [Sessions -> {"new", "running", "aborted", "gone"}]
    /\ held \subseteq Leases /\ target \in Session
    /\ windows \in 0..MaxWindows /\ asked \in 0..MaxActions /\ starts \in 0..MaxStarts /\ aborts \in 0..MaxAborts

Init ==
    /\ win = [Fresh EXCEPT !.open = FALSE]
    /\ ctl = [sid |-> None, final |-> FALSE, term |-> None, lease |-> None,
              pending |-> None, timer |-> FALSE]
    /\ todo = FALSE /\ headless = [a \in 1..MaxActions |-> NoThread] /\ dialogs = {} /\ calls = {} /\ results = {}
    /\ server = [s \in Sessions |-> "new"] /\ held = {} /\ target = None
    /\ quit = FALSE /\ overlap = FALSE /\ mixed = FALSE /\ windows = 0 /\ asked = 0 /\ starts = 0 /\ aborts = 0

cloud == <<server, held>>
counters == <<windows, asked, starts, aborts>>
rest == <<headless, server, held, overlap, mixed, counters>>

-----------------------------------------------------------------------------
(* The guard.                                                              *)

HasActiveSession == ctl.sid # None \/ ctl.final \/ ctl.term # None

SetSessionActive(c, s) == [c EXCEPT !.sid = s, !.final = FALSE, !.term = None]
BeginsFinal(c, s) == [c EXCEPT !.sid = s, !.final = TRUE, !.term = s]
ClearSessionState(c) == SetSessionActive(c, None)
Consume(c) == [c EXCEPT !.pending = None, !.timer = FALSE]

\* What the tray or the window does once the guard lets it.  The window goes
\* with its queue; a call that is under way is still served.
Destroys(w) == [Fresh EXCEPT !.open = FALSE]

(* _complete_pending_action, given the window and the guard of before.     *)
Completes(w, c) ==
    /\ ctl' = Consume(c)
    /\ IF c.pending = None THEN win' = w /\ UNCHANGED <<quit, target>>
       ELSE /\ target' = None
            /\ quit' = (quit \/ c.pending = "quit")
            /\ win' = IF c.pending = "restart" THEN w ELSE Destroys(w)

(* notify_guarded_shutdown_failure, _handle_guard_timeout: ask the user.   *)
Fails == dialogs' = dialogs \cup ({ctl.pending} \ {None})

\* A call is put on its way; what the window waits for no longer is dropped.
Sends(msgs) == calls' = calls \cup msgs
Takes(m) == win.open /\ m \in results /\ results' = IF win'.open THEN results \ {m} ELSE {}

(* _request_session_status_refresh.                                        *)
Refreshed(w) == [w EXCEPT !.refresh = @ \/ w.sid # None]
Refresh(w) == IF w.sid # None /\ ~w.refresh THEN {Call("status", w.sid)} ELSE {}

(* request_guarded_action.  Asking twice is asking once; another action is *)
(* refused.                                                                *)
Requests(a) ==
    /\ ~quit /\ asked < MaxActions /\ asked' = asked + 1
    /\ a = "close" => win.open
    /\ IF ctl.pending # None THEN UNCHANGED <<win, ctl, todo, headless, target, quit>>
       ELSE IF ~HasActiveSession
       THEN Completes(win, [ctl EXCEPT !.pending = a]) /\ UNCHANGED <<todo, headless>>
       ELSE /\ ctl' = [ctl EXCEPT !.pending = a, !.timer = TRUE]
            /\ target' = IF ctl.term # None THEN ctl.term ELSE ctl.sid
            /\ IF win.open THEN todo' = TRUE /\ UNCHANGED headless
               ELSE headless' = [headless EXCEPT ![asked'] = [at |-> "begun", s |-> None]]
                    /\ UNCHANGED todo
            /\ UNCHANGED <<win, quit>>
    /\ results' = IF win'.open THEN results ELSE {}
    /\ UNCHANGED <<dialogs, calls, cloud, overlap, mixed, windows, starts, aborts>>

TimesOutAfterAbort ==  \* mutant
    /\ ctl.timer /\ ctl.final /\ ctl' = [ctl EXCEPT !.timer = FALSE]
    /\ Fails
    /\ UNCHANGED <<win, todo, calls, results, target, quit, rest>>

TimesOut ==
    /\ ctl.timer /\ ctl' = [ctl EXCEPT !.timer = FALSE]
    /\ Fails
    /\ UNCHANGED <<win, todo, calls, results, target, quit, rest>>

(* force_pending_action, cancel_pending_action: the answer to a dialog     *)
(* goes to whatever is pending by then.                                    *)
Forces(a) ==
    /\ a \in dialogs /\ dialogs' = dialogs \ {a}
    /\ Completes(win, ctl)
    /\ results' = IF win'.open THEN results ELSE {}
    /\ UNCHANGED <<todo, calls, rest>>

Gives(a) ==
    /\ a \in dialogs /\ dialogs' = dialogs \ {a}
    /\ ctl' = Consume(ctl) /\ target' = None
    /\ UNCHANGED <<win, todo, calls, results, quit, rest>>

-----------------------------------------------------------------------------
(* The thread of the nth guarded action, asked for without a window.       *)

HeadlessBegins(n) ==
    LET s == IF ctl.term # None THEN ctl.term ELSE ctl.sid IN
    /\ headless[n].at = "begun"
    /\ IF s = None
       THEN Completes(win, ctl) /\ headless' = [headless EXCEPT ![n] = NoThread] /\ UNCHANGED server
       ELSE /\ UNCHANGED <<win, ctl, target, quit>>
            /\ IF ctl.final
               THEN headless' = [headless EXCEPT ![n] = [at |-> "polls", s |-> s]] /\ UNCHANGED server
               ELSE /\ headless' = [headless EXCEPT ![n] = [at |-> "aborted", s |-> s]]
                    /\ server' = [server EXCEPT ![s] = IF @ = "running" THEN "aborted" ELSE @]
    /\ results' = IF win'.open THEN results ELSE {}
    /\ UNCHANGED <<todo, dialogs, calls, held, overlap, mixed, counters>>

\* The answer to the abort; a session the worker does not know is a failure.
HeadlessNotes(n) ==
    /\ headless[n].at = "aborted"
    /\ IF server[headless[n].s] = "aborted"
       THEN /\ headless' = [headless EXCEPT ![n].at = "polls"]
            /\ ctl' = BeginsFinal(ctl, headless[n].s) /\ UNCHANGED dialogs
       ELSE headless' = [headless EXCEPT ![n] = NoThread] /\ Fails /\ UNCHANGED ctl
    /\ UNCHANGED <<win, todo, calls, results, target, quit, cloud, overlap, mixed, counters>>

HeadlessEnds(n) ==
    /\ headless[n].at = "polls" /\ server[headless[n].s] \in {"aborted", "gone"}
    /\ headless' = [headless EXCEPT ![n] = NoThread]
    /\ Sends(IF ctl.lease = None THEN {} ELSE {Call("release", ctl.lease)})
    /\ Completes(win, ClearSessionState([ctl EXCEPT !.lease = None]))
    /\ results' = IF win'.open THEN results ELSE {}
    /\ UNCHANGED <<todo, dialogs, cloud, overlap, mixed, counters>>

HeadlessGivesUp(n) ==
    /\ headless[n].at \in {"aborted", "polls"}
    /\ headless' = [headless EXCEPT ![n] = NoThread] /\ Fails
    /\ UNCHANGED <<win, ctl, todo, calls, results, target, quit, cloud, overlap, mixed, counters>>

-----------------------------------------------------------------------------
(* The window.                                                             *)

(* set_guard_controller: the guard takes the state of the new window.  What*)
(* the old one was asked is lost with its queue.                           *)
Opens ==
    /\ ~win.open /\ ~quit /\ windows < MaxWindows /\ windows' = windows + 1
    /\ win' = Fresh /\ todo' = FALSE
    /\ overlap' = (overlap \/ \E n \in 1..MaxActions : headless[n].at # "none")
    /\ ctl' = [SetSessionActive(ctl, None) EXCEPT !.lease = None]
    /\ UNCHANGED <<headless, dialogs, calls, results, cloud, target, mixed, quit, asked, starts, aborts>>

StartClicked ==
    /\ win.open /\ win.start
    /\ starts < MaxStarts /\ starts' = starts + 1
    /\ IF win.final THEN win' = [win EXCEPT !.start = FALSE] /\ UNCHANGED calls
       ELSE /\ win' = [win EXCEPT !.start = FALSE, !.retried = FALSE]
            /\ Sends({Call(IF win.boot THEN "boot" ELSE "start", None)})
    /\ UNCHANGED <<ctl, todo, headless, dialogs, results, cloud, target, overlap, mixed, quit, windows, asked, aborts>>

AbortClickedAnyway ==  \* mutant
    /\ win.open /\ win.abort
    /\ aborts < MaxAborts /\ aborts' = aborts + 1
    /\ win' = [win EXCEPT !.start = FALSE, !.abort = FALSE]
    /\ Sends({Call("abort", win.sid)})
    /\ UNCHANGED <<ctl, todo, headless, dialogs, results, cloud, target, overlap, mixed, quit, windows, asked, starts>>

AbortClicked ==
    /\ win.open /\ win.abort /\ win.sid # None
    /\ aborts < MaxAborts /\ aborts' = aborts + 1
    /\ win' = [win EXCEPT !.start = FALSE, !.abort = FALSE]
    /\ Sends({Call("abort", win.sid)})
    /\ UNCHANGED <<ctl, todo, headless, dialogs, results, cloud, target, overlap, mixed, quit, windows, asked, starts>>

PollsStatus ==
    /\ win.open /\ Refresh(win) # {}
    /\ win' = Refreshed(win) /\ Sends(Refresh(win))
    /\ UNCHANGED <<ctl, todo, dialogs, results, target, quit, rest>>

(* _start_guarded_shutdown_from_controller.                                *)
BeginsShutdown ==
    /\ win.open /\ todo /\ todo' = FALSE
    /\ CASE win.final ->
              win' = Refreshed(win) /\ Sends(Refresh(win)) /\ UNCHANGED <<ctl, target, quit>>
         [] ~win.final /\ win.sid # None ->
              /\ win' = [win EXCEPT !.start = FALSE, !.abort = FALSE]
              /\ Sends({Call("abort", win.sid)}) /\ UNCHANGED <<ctl, target, quit>>
         [] OTHER -> Completes(win, ClearSessionState(ctl)) /\ UNCHANGED calls
    /\ results' = IF win'.open THEN results ELSE {}
    /\ UNCHANGED <<dialogs, rest>>

\* The lease goes back, and with it the client to the default node.
Release(w) == IF w.lease = None THEN {} ELSE {Call("release", w.lease)}
Released(r) == [r EXCEPT !.lease = None]

(* _activate_session.                                                      *)
ActivatesAlone(s) ==  \* mutant
    LET w == [win EXCEPT !.sid = s, !.final = FALSE, !.term = None, !.start = FALSE,
                         !.abort = TRUE, !.events = s] IN
    win' = Refreshed(w) /\ Sends(Refresh(w)) /\ UNCHANGED ctl

Activates(s) ==
    LET w == [win EXCEPT !.sid = s, !.final = FALSE, !.term = None, !.start = FALSE,
                         !.abort = TRUE, !.events = s] IN
    win' = Refreshed(w) /\ Sends(Refresh(w)) /\ ctl' = SetSessionActive(ctl, s)

(* _handle_session_start_result of a failure.                              *)
StartFails(down) ==
    IF down /\ win.lease # None /\ ~win.retried
    THEN /\ win' = [Released(win) EXCEPT !.start = FALSE, !.retried = TRUE]
         /\ Sends(Release(win) \cup {Call("boot", None)})
         /\ ctl' = Released(ctl)
    ELSE /\ win' = [Released(win) EXCEPT !.start = TRUE] /\ Sends(Release(win))
         /\ ctl' = IF win.lease = None THEN ctl ELSE Released(ctl)

(* _handle_session_bootstrap_result.  Without an allocator the session is  *)
(* started directly, from then on.                                         *)
HandleBoot(m) ==
    /\ m.kind = "boot"
    /\ CASE m.res = "ok" -> /\ win' = [win EXCEPT !.lease = m.s] /\ ctl' = [ctl EXCEPT !.lease = m.s]
                            /\ Sends({Call("start", None)})
         [] m.res = "direct" /\ win.lease = None ->
              win' = [win EXCEPT !.boot = FALSE] /\ Sends({Call("start", None)}) /\ UNCHANGED ctl
         [] m.res = "later" -> win' = [win EXCEPT !.start = TRUE] /\ UNCHANGED <<ctl, calls>>
         [] OTHER -> StartFails(m.res = "down")
    /\ Takes(m)
    /\ UNCHANGED <<todo, dialogs, target, quit, rest>>

HandleStart(m) ==
    /\ m.kind = "start"
    /\ IF m.res = "ok" \/ (m.res = "active" /\ ~win.final) THEN Activates(m.s)
       ELSE StartFails(m.res = "down")
    /\ Takes(m)
    /\ UNCHANGED <<todo, dialogs, target, quit, rest>>

\* An answer is handled as one about the window's session, whichever it is about.
Mixes(m) == mixed' = (mixed \/ (m.s # win.sid /\ ~(win.sid = None /\ win.start)))
unmixed == <<headless, server, held, overlap, counters>>

(* _finalize_terminal_session: the guard may let its action go.            *)
Ended == [Released(win) EXCEPT !.sid = None, !.final = FALSE, !.term = None, !.start = TRUE,
                               !.abort = FALSE, !.refresh = FALSE, !.events = None]
Finalizes ==
    /\ Sends(Release(win))
    /\ Completes(Ended, ClearSessionState(IF win.lease = None THEN ctl ELSE Released(ctl)))

(* _handle_missing_session.                                                *)
Forgets ==
    IF win.final THEN Finalizes
    ELSE /\ win' = [win EXCEPT !.sid = None, !.start = TRUE, !.abort = FALSE, !.refresh = FALSE,
                               !.events = None]
         /\ ctl' = ClearSessionState(ctl) /\ UNCHANGED <<calls, target, quit>>

HandleAbortLoosely(m) ==  \* mutant
    /\ m.kind = "abort"
    /\ LET w == [win EXCEPT !.sid = m.s, !.final = TRUE, !.term = m.s, !.start = FALSE,
                             !.abort = FALSE] IN
       win' = Refreshed(w) /\ Sends(Refresh(w))
    /\ ctl' = BeginsFinal(ctl, m.s)
    /\ Takes(m) /\ Mixes(m)
    /\ UNCHANGED <<todo, dialogs, target, quit, unmixed>>

HandleAbortAsEnd(m) ==  \* mutant
    /\ m.kind = "abort"
    /\ Finalizes
    /\ Takes(m) /\ Mixes(m)
    /\ UNCHANGED <<todo, dialogs, unmixed>>

HandleAbort(m) ==
    /\ m.kind = "abort"
    /\ IF m.res = "ok"
       THEN LET w == [win EXCEPT !.sid = m.s, !.final = TRUE, !.term = m.s, !.start = FALSE,
                                 !.abort = FALSE] IN
            /\ win' = Refreshed(w) /\ Sends(Refresh(w))
            /\ ctl' = BeginsFinal(ctl, m.s) /\ Mixes(m) /\ UNCHANGED dialogs
       ELSE win' = [win EXCEPT !.abort = TRUE] /\ Fails /\ UNCHANGED <<ctl, calls, mixed>>
    /\ Takes(m)
    /\ UNCHANGED <<todo, target, quit, unmixed>>

(* _handle_session_status_result: of whichever session the answer is.      *)
HandleStatus(m) ==
    LET w == [win EXCEPT !.refresh = FALSE] IN
    /\ m.kind = "status"
    /\ CASE m.res = "gone" -> Forgets /\ Mixes(m)
         [] m.res = "aborted" -> Finalizes /\ Mixes(m)
         [] OTHER -> /\ win' = IF win.final THEN [w EXCEPT !.start = FALSE, !.abort = FALSE] ELSE w
                     /\ UNCHANGED <<ctl, calls, target, quit, mixed>>
    /\ Takes(m)
    /\ UNCHANGED <<todo, dialogs, unmixed>>

(* _handle_session_done.                                                   *)
HandleDone(m) ==
    /\ m.kind = "done"
    /\ IF m.s \in {win.sid, win.term} THEN Finalizes
       ELSE UNCHANGED <<win, ctl, calls, target, quit>>
    /\ Takes(m)
    /\ UNCHANGED <<todo, dialogs, rest>>

-----------------------------------------------------------------------------
(* The cloud.                                                              *)

Answers(c, m) ==
    /\ calls' = calls \ {c}
    /\ results' = IF win.open /\ c.w = windows THEN results \cup m ELSE results

\* What the window's connection for events is told of an abort.
Event(s) == IF win.open /\ win.events = s THEN {Msg("done", s, "aborted")} ELSE {}
Running == {s \in Sessions : server[s] = "running"}

ServesBoot(c) ==
    /\ c.kind = "boot"
    /\ \/ \E l \in Leases \ held : held' = held \cup {l} /\ Answers(c, {Msg("boot", l, "ok")})
       \/ \E r \in {"no", "later", "direct"} : Answers(c, {Msg("boot", None, r)}) /\ UNCHANGED held
    /\ UNCHANGED server

ServesStart(c) ==
    /\ c.kind = "start"
    /\ \/ \E s \in Sessions : /\ Running = {} /\ server[s] = "new"
                              /\ server' = [server EXCEPT ![s] = "running"]
                              /\ Answers(c, {Msg("start", s, "ok")})
       \/ \E s \in Running : Answers(c, {Msg("start", s, "active")}) /\ UNCHANGED server
       \/ \E r \in {"no", "down"} : Answers(c, {Msg("start", None, r)}) /\ UNCHANGED server
    /\ UNCHANGED held

ServesAbort(c) ==
    /\ c.kind = "abort"
    /\ IF server[c.s] = "running"
       THEN server' = [server EXCEPT ![c.s] = "aborted"] /\ Answers(c, {Msg("abort", c.s, "ok")} \cup Event(c.s))
       ELSE Answers(c, {Msg("abort", c.s, "no")}) /\ UNCHANGED server
    /\ UNCHANGED held

ServesStatus(c) ==
    /\ c.kind = "status"
    /\ Answers(c, {Msg("status", c.s, CASE server[c.s] = "gone" -> "gone"
                                        [] server[c.s] = "aborted" -> "aborted" [] OTHER -> "ok")})
    /\ UNCHANGED cloud

ServesRelease(c) ==
    /\ c.kind = "release" /\ held' = held \ {c.s}
    /\ Answers(c, {}) /\ UNCHANGED server

Serves ==
    /\ \E c \in calls : ServesBoot(c) \/ ServesStart(c) \/ ServesAbort(c) \/ ServesStatus(c) \/ ServesRelease(c)
    /\ UNCHANGED <<win, ctl, todo, headless, dialogs, target, overlap, mixed, quit, counters>>

\* The call does not get through.
Unreachable ==
    /\ \E c \in calls :
         Answers(c, IF c.kind = "release" THEN {} ELSE {Msg(c.kind, c.s, "down")})
    /\ UNCHANGED <<win, ctl, todo, headless, dialogs, cloud, target, overlap, mixed, quit, counters>>

\* The worker forgets an aborted session after a while.
Cleanup ==
    /\ \E s \in Sessions : server[s] = "aborted" /\ server' = [server EXCEPT ![s] = "gone"]
    /\ UNCHANGED <<win, ctl, todo, headless, dialogs, calls, results, held, target, overlap, mixed, quit, counters>>

Handle(m) == HandleBoot(m) \/ HandleStart(m) \/ HandleAbort(m) \/ HandleStatus(m) \/ HandleDone(m)
Headless(n) == HeadlessBegins(n) \/ HeadlessNotes(n) \/ HeadlessEnds(n) \/ HeadlessGivesUp(n)

Next ==
    \/ Opens \/ StartClicked \/ AbortClicked \/ PollsStatus \/ BeginsShutdown
    \/ \E m \in results : Handle(m)
    \/ \E a \in Actions : Requests(a) \/ Forces(a) \/ Gives(a)
    \/ TimesOut \/ (\E n \in 1..MaxActions : Headless(n)) \/ Serves \/ Unreachable \/ Cleanup

\* The queue is handled in turn, the timers run, the user answers a dialog,
\* and the cloud answers when it is asked again and again.
HandlesKind(k) == \E m \in results : m.kind = k /\ Handle(m)
ServesStatuses ==
    /\ \E c \in calls : ServesStatus(c)
    /\ UNCHANGED <<win, ctl, todo, headless, dialogs, target, overlap, mixed, quit, counters>>
Fairness ==
    /\ WF_vars(PollsStatus) /\ WF_vars(BeginsShutdown) /\ WF_vars(TimesOut)
    /\ \A n \in 1..MaxActions : WF_vars(Headless(n))
    /\ \A k \in {"boot", "start", "abort", "status", "done"} : WF_vars(HandlesKind(k))
    /\ \A a \in Actions : WF_vars(Forces(a) \/ Gives(a))
    /\ SF_vars(ServesStatuses)

Spec == Init /\ [][Next]_vars
FairSpec == Spec /\ Fairness

-----------------------------------------------------------------------------
(* Properties.                                                             *)

(* While a window is open the guard knows of its session, of its abort and *)
(* of its lease, unless the window was opened while the thread of a        *)
(* headless shutdown, which goes on, was at work.                          *)
GuardMirrorsWindow ==
    win.open /\ ~overlap =>
        /\ ctl.sid = win.sid /\ ctl.final = win.final /\ ctl.lease = win.lease
        /\ win.final => ctl.term = win.term

(* The action that is done as a safe one finds the session still running   *)
(* that was active when it was asked for.                                  *)
LetsGo == ctl.pending # None /\ ctl'.pending = None /\ dialogs' = dialogs
LeavesSession == target # None /\ server[target] = "running"

(* What the dialogs promise: an action that the guard lets go as safe finds*)
(* the session ended that was active when it was asked for, unless a late  *)
(* answer about another session was taken for an answer about this one, or *)
(* a window had been opened while a thread was ending its session.         *)
SafeActionEndsItsSession == [][LetsGo /\ ~overlap /\ ~mixed' => ~LeavesSession]_vars

(* "Closing this window will first end the session safely."                *)
(* (vci_proxy/diagnostics_window.py:603)                                   *)
ClosingEndsSession == [][LetsGo /\ ctl.pending = "close" => ~LeavesSession]_vars

(* Nothing stays half done: an abort is finalized, so that the window does *)
(* not wait for ever with its buttons disabled, and a guarded action is    *)
(* done, forced or given up, so that no other is refused for ever.         *)
GuardSettles ==
    /\ win.final ~> ~win.final
    /\ ctl.pending # None ~> ctl.pending = None
=============================================================================
