--------------------------- MODULE ReverseClient ---------------------------
(***************************************************************************)
(* The reverse client (vci_proxy/reverse_client.py) and the worker process *)
(* it keeps (vci_proxy/j2534_worker.py).                                   *)
(*                                                                         *)
(* On one event loop run the coroutine connect_and_serve, the task that    *)
(* opens the device ahead of the first request, and the shutdown that      *)
(* stop schedules from another thread.  Each of them calls the driver in a *)
(* thread of the executor, through one connection to the worker that a     *)
(* lock gives to one call at a time; cancelling a task does not stop the   *)
(* call it waits for.                                                      *)
(*                                                                         *)
(* Left out: the framing, the registration dialogue, channels and filters, *)
(* and a second call of stop.                                              *)
(***************************************************************************)
EXTENDS Naturals, FiniteSets

CONSTANTS
    Devices,      \* handles the driver gives out
    NoDevice,
    MaxLinks,     \* bound on the connections made
    MaxRequests,  \* bound on the requests of the cloud
    MaxCrashes    \* bound on the crashes of the worker

ASSUME ReverseClientAssumption ==
    /\ NoDevice \notin Devices
    /\ MaxLinks \in Nat /\ MaxRequests \in Nat /\ MaxCrashes \in Nat

VARIABLES
    at,        \* where connect_and_serve ("main") and the shutdown of stop ("quit") are
    running,   \* self.running
    leaving,   \* main is past its loop, or on its way out with an exception
    link,      \* the tunnel: "none", "up", or "lost" and not noticed
    task,      \* the pre-warm task
    held,      \* self._prewarm_task refers to it
    prewarm,   \* self._prewarm_device_id
    cached,    \* the IOCTL cache holds an answer
    driver,    \* self.driver is set
    call,      \* the call of the driver that main, quit and the task wait for
    orphans,   \* opens whose task was cancelled and that are still under way
    worker,    \* the worker process
    open,      \* handles open in the driver
    given,     \* handles that requests of the cloud were given
    lost,      \* history: handles nobody knows any more
    links, requests, crashes

vars == <<at, running, leaving, link, task, held, prewarm, cached, driver, call,
          orphans, worker, open, given, lost, links, requests, crashes>>

Who == {"main", "quit", "task"}
Ops == {"open", "close", "ioctl"}
Handle == Devices \cup {NoDevice}
Quiet == [at |-> "none", op |-> "ioctl", dev |-> NoDevice, ok |-> TRUE]
NoCalls == [w \in Who |-> Quiet]

\* The steps of the cleanup that main runs after each connection and that
\* shutdown runs as well.
Cleaning == {"cancel", "await_cancel", "release", "await_release", "close"}

TypeOK ==
    /\ at["main"] \in {"made", "loading", "top", "connecting", "registering", "serving",
                       "await_prewarm", "calling", "backoff", "block", "blocked", "ended", "no_token"} \cup Cleaning
    /\ at["quit"] \in {"none", "asked", "missed", "block", "blocked", "done"} \cup Cleaning
    /\ running \in BOOLEAN /\ held \in BOOLEAN /\ cached \in BOOLEAN /\ driver \in BOOLEAN
    /\ leaving \in {"no", "raised", "final"}
    /\ link \in {"none", "up", "lost"}
    /\ task \in {"none", "made", "opens", "cut", "over", "done"}
    /\ prewarm \in Handle
    /\ call \in [Who -> [at: {"none", "sent", "answered", "raised"}, op: Ops,
                         dev: Handle, ok: BOOLEAN]]
    /\ orphans \in 0..MaxLinks /\ worker \in {"none", "up", "gone"}
    /\ open \subseteq Devices /\ given \subseteq Devices /\ lost \subseteq Devices
    /\ links \in 0..MaxLinks /\ requests \in 0..MaxRequests /\ crashes \in 0..MaxCrashes

Init ==
    /\ at = [main |-> "made", quit |-> "none"]
    /\ running = FALSE /\ leaving = "no" /\ link = "none"
    /\ task = "none" /\ held = FALSE /\ prewarm = NoDevice /\ cached = FALSE
    /\ driver = FALSE /\ call = NoCalls /\ orphans = 0 /\ worker = "none"
    /\ open = {} /\ given = {} /\ lost = {}
    /\ links = 0 /\ requests = 0 /\ crashes = 0

counters == <<links, requests, crashes>>
handles == <<open, given, lost>>
warm == <<task, held, prewarm>>

\* The loop runs until main has ended, and is held up while a cleanup waits
\* for the worker to stop.
HasEnded == at["main"] \in {"ended", "no_token"}
LoopIsFree == ~HasEnded /\ "blocked" \notin {at["main"], at["quit"]}
Moves(who, place) == at' = [at EXCEPT ![who] = place]
IsUp == at["main"] \notin {"made", "loading"} /\ ~HasEnded

-----------------------------------------------------------------------------
(* Calls of the driver.                                                    *)

\* A call of a driver that is gone raises.
Sends(who, op, dev) ==
    call' = [call EXCEPT ![who] = [Quiet EXCEPT !.op = op, !.dev = dev,
                 !.at = IF driver /\ worker = "up" THEN "sent" ELSE "raised"]]

Answers(who, dev, ok) ==
    call' = [call EXCEPT ![who].at = "answered", ![who].dev = dev, ![who].ok = ok]

(* serve_worker: one call, whichever thread had the lock.                  *)
Serves(who) ==
    /\ worker = "up" /\ call[who].at = "sent"
    /\ \/ /\ call[who].op = "open"
          /\ \E d \in Devices \ open : open' = open \cup {d} /\ Answers(who, d, TRUE)
       \/ /\ call[who].op = "close" /\ call[who].dev \in open
          /\ open' = open \ {call[who].dev} /\ Answers(who, call[who].dev, TRUE)
       \/ /\ call[who].op = "ioctl"
          /\ Answers(who, NoDevice, TRUE) /\ UNCHANGED open
       \/ /\ call[who].op = "close" => call[who].dev \notin open
          /\ Answers(who, call[who].dev, FALSE) /\ UNCHANGED open
       \/ call' = [call EXCEPT ![who].at = "raised"] /\ UNCHANGED open
    /\ UNCHANGED <<at, running, leaving, link, warm, cached, driver, orphans, worker,
                   given, lost, counters>>

\* The answer has nowhere to go.
ServesOrphan ==
    /\ worker = "up" /\ orphans > 0
    /\ orphans' = orphans - 1
    /\ \E opened \in {{}} \cup {{d} : d \in Devices \ open} :
         open' = open \cup opened /\ lost' = lost \cup opened
    /\ UNCHANGED <<at, running, leaving, link, warm, cached, driver, call, worker,
                   given, counters>>

\* With its process go the handles; the calls that are under way raise.
WorkerGoes ==
    /\ worker' = "gone" /\ open' = {} /\ lost' = {} /\ orphans' = 0
    /\ call' = [w \in Who |-> IF call[w].at = "sent" THEN [call[w] EXCEPT !.at = "raised"]
                                                     ELSE call[w]]

WorkerCrashes ==
    /\ worker = "up" /\ crashes < MaxCrashes
    /\ crashes' = crashes + 1
    /\ WorkerGoes
    /\ UNCHANGED <<at, running, leaving, link, warm, cached, driver, given, links, requests>>

-----------------------------------------------------------------------------
(* The pre-warm task.                                                      *)

(* _prewarm_open: at its first step, and when the driver has answered.     *)
TaskRuns ==
    /\ LoopIsFree /\ task = "made"
    /\ IF driver THEN task' = "opens" /\ Sends("task", "open", NoDevice)
                 ELSE task' = "done" /\ UNCHANGED call
    /\ UNCHANGED <<at, running, leaving, link, held, prewarm, cached, driver, orphans,
                   worker, handles, counters>>

TaskEnds ==
    /\ LoopIsFree /\ task = "opens" /\ call["task"].at \in {"answered", "raised"}
    /\ task' = "done"
    /\ prewarm' = IF call["task"].at = "answered" /\ call["task"].ok
                  THEN call["task"].dev ELSE NoDevice
    /\ call' = [call EXCEPT !["task"] = Quiet]
    /\ UNCHANGED <<at, running, leaving, link, held, cached, driver, orphans, worker,
                   handles, counters>>

CutTaskEnds ==
    /\ LoopIsFree /\ task = "cut" /\ task' = "over"
    /\ UNCHANGED <<at, running, leaving, link, held, prewarm, cached, driver, call,
                   orphans, worker, handles, counters>>

-----------------------------------------------------------------------------
(* The cleanup of a connection, and shutdown.                              *)

(* _cancel_prewarm_task.  The call the task waits for goes on, and an      *)
(* answer that came before the task could take it is dropped.              *)
Cancels(who) ==
    /\ LoopIsFree /\ at[who] = "cancel"
    /\ held' = FALSE
    /\ Moves(who, IF held THEN "await_cancel" ELSE "release")
    /\ IF held /\ task \in {"made", "opens"}
       THEN /\ task' = "cut"
            /\ call' = [call EXCEPT !["task"] = Quiet]
            /\ orphans' = orphans + (IF call["task"].at = "sent" THEN 1 ELSE 0)
            /\ lost' = lost \cup (IF call["task"].at = "answered" /\ call["task"].ok
                                  THEN {call["task"].dev} ELSE {})
       ELSE UNCHANGED <<task, call, orphans, lost>>
    /\ UNCHANGED <<running, leaving, link, prewarm, cached, driver, worker, open, given, counters>>

IsCancelled(who) ==
    /\ LoopIsFree /\ at[who] = "await_cancel" /\ task \in {"done", "over"}
    /\ Moves(who, "release")
    /\ UNCHANGED <<running, leaving, link, warm, cached, driver, call, orphans, worker,
                   handles, counters>>

(* _release_prewarmed_device.                                              *)
ReleasesAtEnd(who) ==  \* mutant
    /\ LoopIsFree /\ at[who] = "release"
    /\ UNCHANGED prewarm
    /\ IF prewarm # NoDevice /\ driver
       THEN Moves(who, "await_release") /\ Sends(who, "close", prewarm)
       ELSE Moves(who, "close") /\ UNCHANGED call
    /\ UNCHANGED <<running, leaving, link, task, held, cached, driver, orphans, worker,
                   handles, counters>>

Releases(who) ==
    /\ LoopIsFree /\ at[who] = "release"
    /\ prewarm' = NoDevice
    /\ IF prewarm # NoDevice /\ driver
       THEN Moves(who, "await_release") /\ Sends(who, "close", prewarm)
       ELSE Moves(who, "close") /\ UNCHANGED call
    /\ UNCHANGED <<running, leaving, link, task, held, cached, driver, orphans, worker,
                   handles, counters>>

IsReleased(who) ==
    /\ LoopIsFree /\ at[who] = "await_release" /\ call[who].at \in {"answered", "raised"}
    /\ call' = [call EXCEPT ![who] = Quiet]
    /\ lost' = IF call[who].at = "answered" /\ call[who].ok THEN lost
               ELSE lost \cup ({call[who].dev} \cap open)
    /\ Moves(who, "close")
    /\ UNCHANGED <<running, leaving, link, warm, cached, driver, orphans, worker,
                   open, given, counters>>

(* The end of the cleanup after a connection: sleep, or leave the loop.    *)
CleansUp ==
    /\ LoopIsFree /\ at["main"] = "close" /\ leaving # "final"
    /\ link' = "none" /\ cached' = FALSE
    /\ IF leaving = "raised"
       THEN Moves("main", "cancel") /\ leaving' = "final" /\ running' = FALSE
       ELSE /\ Moves("main", IF running THEN "backoff" ELSE "top")
            /\ UNCHANGED <<running, leaving>>
    /\ UNCHANGED <<warm, driver, call, orphans, worker, handles, counters>>

(* shutdown after it has closed the tunnel: the cleanup of the driver holds*)
(* up the loop until the worker has stopped.                               *)
ShutsDown(who) == who = "quit" \/ leaving = "final"
Finished(who) == IF who = "quit" THEN "done" ELSE "ended"

ClosesTunnel(who) ==
    /\ LoopIsFree /\ at[who] = "close" /\ ShutsDown(who)
    /\ link' = IF who = "main" \/ link = "none" THEN "none" ELSE "lost"
    /\ Moves(who, "block")
    /\ UNCHANGED <<running, leaving, warm, cached, driver, call, orphans, worker,
                   handles, counters>>

StopsWorkerAsMain(who) ==  \* mutant
    /\ LoopIsFree /\ at[who] = "block"
    /\ driver' = FALSE /\ cached' = (cached /\ driver)
    /\ Moves(who, IF driver /\ who = "quit" THEN "blocked" ELSE Finished(who))
    /\ UNCHANGED <<running, leaving, link, warm, call, orphans, worker, handles, counters>>

StopsWorker(who) ==
    /\ LoopIsFree /\ at[who] = "block"
    /\ driver' = FALSE /\ cached' = (cached /\ driver)
    /\ Moves(who, IF driver THEN "blocked" ELSE Finished(who))
    /\ UNCHANGED <<running, leaving, link, warm, call, orphans, worker, handles, counters>>

WorkerStops(who) ==
    /\ at[who] = "blocked"
    /\ WorkerGoes
    /\ cached' = FALSE
    /\ Moves(who, Finished(who))
    /\ UNCHANGED <<running, leaving, link, warm, driver, given, counters>>

(* stop, from another thread: it schedules shutdown on the loop, when there*)
(* is one.                                                                 *)
Stop ==
    /\ at["quit"] = "none"
    /\ Moves("quit", IF IsUp THEN "asked" ELSE "missed")
    /\ running' = (IsUp /\ running)
    /\ UNCHANGED <<leaving, link, warm, cached, driver, call, orphans, worker, handles, counters>>

QuitBegins ==
    /\ LoopIsFree /\ at["quit"] = "asked" /\ IsUp
    /\ running' = FALSE
    /\ Moves("quit", "cancel")
    /\ UNCHANGED <<leaving, link, warm, cached, driver, call, orphans, worker, handles, counters>>

-----------------------------------------------------------------------------
(* connect_and_serve.                                                      *)

Starts ==
    /\ at["main"] = "made" /\ Moves("main", "loading")
    /\ UNCHANGED <<running, leaving, link, warm, cached, driver, call, orphans, worker,
                   handles, counters>>

FailsToLoad ==
    /\ at["main"] = "loading" /\ Moves("main", "ended")
    /\ UNCHANGED <<running, leaving, link, warm, cached, driver, call, orphans, worker,
                   handles, counters>>

(* The worker is left behind when authentication is on and there is no     *)
(* token.                                                                  *)
LacksToken ==
    /\ at["main"] = "loading" /\ Moves("main", "no_token")
    /\ driver' = TRUE /\ worker' = "up"
    /\ UNCHANGED <<running, leaving, link, warm, cached, call, orphans, handles, counters>>

(* The driver is loaded, whatever stop has said in the meantime.           *)
ComesUp ==
    /\ at["main"] = "loading" /\ Moves("main", "top")
    /\ driver' = TRUE /\ worker' = "up" /\ running' = TRUE
    /\ UNCHANGED <<leaving, link, warm, cached, call, orphans, handles, counters>>

\* A step of main on its loop that touches nothing but what is named.
Turns(from, to) == LoopIsFree /\ at["main"] = from /\ Moves("main", to)
OnlyMain == UNCHANGED <<running, link, warm, cached, driver, call, orphans, worker,
                        handles, counters>>

Connects == running /\ Turns("top", "connecting") /\ UNCHANGED leaving /\ OnlyMain
LeavesLoop == ~running /\ Turns("top", "cancel") /\ leaving' = "final" /\ OnlyMain
Refused == Turns("connecting", "cancel") /\ UNCHANGED leaving /\ OnlyMain

Connected ==
    /\ links < MaxLinks /\ links' = links + 1
    /\ Turns("connecting", "registering") /\ link' = "up"
    /\ UNCHANGED <<running, leaving, warm, cached, driver, call, orphans, worker,
                   handles, requests, crashes>>

NotRegisteredEnds == Turns("registering", "stopped") /\ UNCHANGED leaving /\ OnlyMain  \* mutant
NotRegistered == Turns("registering", "cancel") /\ UNCHANGED leaving /\ OnlyMain

Registered ==
    /\ Turns("registering", "serving")
    /\ task' = "made" /\ held' = TRUE
    /\ UNCHANGED <<running, leaving, link, prewarm, cached, driver, call, orphans, worker,
                   handles, counters>>

TunnelBreaks ==
    /\ link = "up" /\ link' = "lost"
    /\ UNCHANGED <<at, running, leaving, warm, cached, driver, call, orphans, worker,
                   handles, counters>>

(* _handle_requests: stopped, or the tunnel is found closed.               *)
StopsServing == ~running \/ link = "lost"
EndsService == StopsServing /\ Turns("serving", "cancel") /\ UNCHANGED leaving /\ OnlyMain

Requested ==
    /\ LoopIsFree /\ at["main"] = "serving" /\ running /\ link = "up"
    /\ requests < MaxRequests /\ requests' = requests + 1

\* The handle opened ahead is given away, or the device is opened.
OpensKeepingHandle ==  \* mutant
    /\ IF prewarm # NoDevice
       THEN /\ given' = given \cup {prewarm} /\ held' = FALSE
            /\ Moves("main", "serving") /\ UNCHANGED <<call, prewarm>>
       ELSE /\ Sends("main", "open", NoDevice) /\ Moves("main", "calling")
            /\ UNCHANGED <<given, prewarm, held>>
    /\ UNCHANGED task

Opens ==
    /\ IF prewarm # NoDevice
       THEN /\ given' = given \cup {prewarm} /\ prewarm' = NoDevice /\ held' = FALSE
            /\ Moves("main", "serving") /\ UNCHANGED call
       ELSE /\ Sends("main", "open", NoDevice) /\ Moves("main", "calling")
            /\ UNCHANGED <<given, prewarm, held>>
    /\ UNCHANGED task

(* _handle_open.                                                           *)
HandleOpen ==
    /\ Requested
    /\ IF held /\ task \in {"made", "opens"}
       THEN Moves("main", "await_prewarm") /\ UNCHANGED <<warm, call, given>>
       ELSE Opens
    /\ UNCHANGED <<running, leaving, link, cached, driver, orphans, worker, open, lost,
                   links, crashes>>

\* The task has ended, or was cancelled and main with it.
PrewarmAwaited ==
    /\ LoopIsFree /\ at["main"] = "await_prewarm" /\ task \in {"done", "over"}
    /\ IF task = "over"
       THEN /\ leaving' = "raised" /\ Moves("main", "cancel")
            /\ UNCHANGED <<warm, call, given>>
       ELSE Opens /\ UNCHANGED leaving
    /\ UNCHANGED <<running, link, cached, driver, orphans, worker, open, lost, counters>>

(* _handle_close, _handle_ioctl.                                           *)
HandleClose ==
    /\ Requested
    /\ \E d \in given : Sends("main", "close", d)
    /\ Moves("main", "calling")
    /\ UNCHANGED <<running, leaving, link, warm, cached, driver, orphans, worker, handles,
                   links, crashes>>

HandleIoctl ==
    /\ Requested
    /\ IF cached THEN UNCHANGED <<at, call>>
       ELSE Sends("main", "ioctl", NoDevice) /\ Moves("main", "calling")
    /\ UNCHANGED <<running, leaving, link, warm, cached, driver, orphans, worker, handles,
                   links, crashes>>

\* What a request does with the answer of the driver.
Answered ==
    LET c == call["main"] IN
    /\ LoopIsFree /\ at["main"] = "calling" /\ c.at = "answered"
    /\ Moves("main", "serving")
    /\ call' = [call EXCEPT !["main"] = Quiet]
    /\ given' = CASE c.op = "open" /\ c.ok -> given \cup {c.dev}
                  [] c.op = "close" /\ c.ok -> given \ {c.dev}
                  [] OTHER -> given
    /\ cached' = (c.op # "close" /\ (cached \/ (c.op = "ioctl" /\ c.ok)))
    /\ prewarm' = IF c.op = "close" THEN NoDevice ELSE prewarm
    /\ lost' = lost \cup (IF c.op = "close" THEN {prewarm} \cap open ELSE {})
    /\ UNCHANGED <<running, leaving, link, task, held, driver, orphans, worker, open, counters>>

CallRaises ==
    /\ LoopIsFree /\ at["main"] = "calling" /\ call["main"].at = "raised"
    /\ Moves("main", "cancel")
    /\ call' = [call EXCEPT !["main"] = Quiet]
    /\ UNCHANGED <<running, leaving, link, warm, cached, driver, orphans, worker, handles, counters>>

\* The time is over, or shutdown cancelled the sleep.
WakesForGood == running /\ Turns("backoff", "top") /\ UNCHANGED leaving /\ OnlyMain  \* mutant
Wakes == Turns("backoff", "top") /\ UNCHANGED leaving /\ OnlyMain

-----------------------------------------------------------------------------
Main ==
    \/ Starts \/ FailsToLoad \/ LacksToken \/ ComesUp \/ Connects \/ LeavesLoop
    \/ NotRegistered \/ Registered \/ EndsService \/ PrewarmAwaited
    \/ Answered \/ CallRaises \/ Wakes \/ CleansUp

Cleanup(who) ==
    \/ Cancels(who) \/ IsCancelled(who) \/ Releases(who) \/ IsReleased(who)
    \/ ClosesTunnel(who) \/ StopsWorker(who) \/ WorkerStops(who)

Task == TaskRuns \/ TaskEnds \/ CutTaskEnds

Next ==
    \/ Main \/ Task \/ QuitBegins
    \/ \E who \in {"main", "quit"} : Cleanup(who)
    \/ Refused \/ Connected \/ TunnelBreaks \/ HandleOpen \/ HandleClose \/ HandleIoctl
    \/ \E who \in Who : Serves(who)
    \/ ServesOrphan \/ WorkerCrashes \/ Stop

\* The loop and the worker run; a connection attempt comes to an end.
Fairness ==
    /\ WF_vars(Main) /\ WF_vars(Task) /\ WF_vars(QuitBegins)
    /\ WF_vars(Cleanup("main")) /\ WF_vars(Cleanup("quit"))
    /\ WF_vars(Refused \/ Connected)
    /\ WF_vars(\E who \in Who : Serves(who))

Spec == Init /\ [][Next]_vars /\ Fairness

-----------------------------------------------------------------------------
(* Properties.                                                             *)

\* The handles that the cloud has and that main is not closing.
Kept == {d \in given : ~(call["main"].op = "close" /\ call["main"].dev = d)}

(* A handle that a request was given stays open until a request closes it: *)
(* no release of a pre-warmed handle, of whichever connection or coroutine,*)
(* takes it away.  The pre-warmed handle is open and nobody has it, so that*)
(* it is given once, and released only as long as it was not.  A handle    *)
(* gets out of sight in three ways only: the pre-warm was cancelled while  *)
(* the driver opened it, its release failed, or a request to close another *)
(* one dropped it.                                                         *)
HandlesAreKept ==
    /\ worker = "up" =>
        /\ Kept \subseteq open
        /\ prewarm # NoDevice => prewarm \in open \ Kept
    /\ open \subseteq given \cup {prewarm} \cup lost \cup {call[w].dev : w \in Who}

(* Between two connections nothing of the last one is left: no pre-warmed  *)
(* handle, no task, no cached answer, although shutdown may run in between.*)
(* When a client that was up has ended, its worker has, with every handle, *)
(* whichever of the two shutdowns was first.                               *)
NothingIsLeft ==
    /\ at["main"] \in {"top", "backoff", "connecting"} => prewarm = NoDevice /\ ~held /\ ~cached
    /\ at["main"] = "ended" => worker # "up" /\ open = {}

(* The client is what the tray program takes it for: up until it was told  *)
(* to stop, and then it ends, whatever it waits for.                       *)
Life == INSTANCE ClientLife WITH
    phase <- IF IsUp THEN "up" ELSE IF HasEnded THEN "ended" ELSE at["main"],
    told <- CASE at["quit"] = "none" -> "no" [] at["quit"] = "missed" -> "missed"
              [] OTHER -> "heard"
IsAClient == Life!Spec

(* What _release_prewarmed_device says: a handle that was only opened to   *)
(* pre-warm is closed with its connection.  One that the driver was opening*)
(* when the task was cancelled is not.                                     *)
PrewarmIsReleased == at["main"] = "backoff" => open \subseteq given

(* What stop says: when its future is completed the client has shut down.  *)
(* A stop while the driver is loaded completes at once, and the client     *)
(* comes up.                                                               *)
StopIsHeard == at["quit"] = "missed" => ~IsUp
=============================================================================
