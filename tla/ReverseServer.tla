--------------------------- MODULE ReverseServer ---------------------------
(***************************************************************************)
(* The cloud end of the reverse tunnel (vci_proxy/reverse_server.py): one  *)
(* asyncio event loop that runs                                            *)
(*   - one handler task per inbound VCI connection (_handle_vci_connection)*)
(*   - one probe task per installed tunnel        (_probe_loop)            *)
(*   - one handler task per DLL connection        (_handle_proxy_connection)*)
(* all sharing vci_writer, vci_connected, response_futures, vci_lock, the  *)
(* probe task handle and the tunnel-quality tracker without any lock but   *)
(* vci_lock.  An action is the code a task runs between two awaits: that   *)
(* is what the event loop executes atomically.  The response caches, which *)
(* no decision below depends on, are the subject of module ProxyCaches.    *)
(***************************************************************************)
EXTENDS Integers, Sequences, FiniteSets

CONSTANTS
    Conns,      \* inbound VCI connections, each with the handler and the probe task it may start
    Proxies,    \* DLL connections accepted on the local proxy port
    NoConn,     \* None, for vci_writer, _probe_task and local variables
    MaxSeq      \* bound on the forwarding sequence (2^32 in the code)

ASSUME ServerAssumption ==
    /\ NoConn \notin Conns
    /\ Conns \cap Proxies = {}
    /\ MaxSeq \in Nat

VARIABLES
    pc,              \* where the handler task of each VCI connection is
    link,            \* the transport under each VCI connection
    oldWriter,       \* old_writer, the local of a replacing handler
    awaited,         \* the probe task a handler waits for in _cancel_probe_task_async
    localEpoch,      \* local_epoch of each handler (0: None)
    vciWriter,       \* self.vci_writer
    vciConnected,    \* self.vci_connected
    epoch,           \* self._connection_counter, which numbers self._connection_epoch
    quality,         \* what admission reads of self._tunnel_quality
    probeTask,       \* self._probe_task, named by the connection that started it
    probe,           \* where each probe task is
    cancelled,       \* probe tasks with a cancellation requested and not yet raised
    proxy,           \* where the handler task of each DLL connection is
    sequence,        \* self.sequence
    wseq,            \* new_seq / sequence: the number the waiter's request carries
    responseFutures, \* self.response_futures, as the waiters registered in it
    fut,             \* the state of the future each waiter created
    writtenTo,       \* the connection a waiter's request was written to
    outbox           \* requests written to a connection and not answered, oldest first

handlerVars == <<pc, oldWriter, awaited, localEpoch>>
tunnelVars  == <<vciWriter, vciConnected, epoch, quality>>
probeVars   == <<probeTask, probe, cancelled>>
futureVars  == <<responseFutures, fut>>
requestVars == <<sequence, wseq, writtenTo, outbox>>
vars == <<handlerVars, link, tunnelVars, probeVars, proxy, futureVars, requestVars>>

(* A waiter is a task that forwards requests and waits for their futures:  *)
(* a DLL connection, or the probe task of a VCI connection.                *)
Waiters == Conns \cup Proxies

Served == {"serving", "acklock", "acking"}

TypeOK ==
    /\ pc \in [Conns -> {"idle", "auth", "replacing", "closing", "done"} \cup Served]
    /\ link \in [Conns -> {"up", "eof", "lost", "closed"}]
    /\ oldWriter \in [Conns -> Conns \cup {NoConn}]
    /\ awaited \in [Conns -> Conns \cup {NoConn}]
    /\ localEpoch \in [Conns -> Nat]
    /\ vciWriter \in Conns \cup {NoConn}
    /\ vciConnected \in BOOLEAN
    /\ epoch \in Nat
    /\ quality \in [connected: BOOLEAN, fresh: BOOLEAN, failed: BOOLEAN, epoch: Nat]
    /\ probeTask \in Conns \cup {NoConn}
    /\ probe \in [Conns -> {"none", "new", "sleeping", "locking", "draining", "waiting", "done"}]
    /\ cancelled \in SUBSET Conns
    /\ proxy \in [Proxies -> {"idle", "gate", "woken", "reading", "locking",
                              "draining", "waiting", "closed"}]
    /\ sequence \in Nat
    /\ wseq \in [Waiters -> Nat]
    /\ responseFutures \in SUBSET Waiters
    /\ fut \in [Waiters -> {"none", "pending", "result", "failed", "cancelled"}]
    /\ writtenTo \in [Waiters -> Conns \cup {NoConn}]
    /\ outbox \in [Conns -> Seq([seq: Nat, by: Waiters])]

Init ==
    /\ pc = [c \in Conns |-> "idle"]
    /\ link = [c \in Conns |-> "up"]
    /\ oldWriter = [c \in Conns |-> NoConn]
    /\ awaited = [c \in Conns |-> NoConn]
    /\ localEpoch = [c \in Conns |-> 0]
    /\ vciWriter = NoConn
    /\ vciConnected = FALSE
    /\ epoch = 0
    /\ quality = [connected |-> FALSE, fresh |-> FALSE, failed |-> FALSE, epoch |-> 0]
    /\ probeTask = NoConn
    /\ probe = [c \in Conns |-> "none"]
    /\ cancelled = {}
    /\ proxy = [p \in Proxies |-> "idle"]
    /\ sequence = 0
    /\ wseq = [w \in Waiters |-> 0]
    /\ responseFutures = {}
    /\ fut = [w \in Waiters |-> "none"]
    /\ writtenTo = [w \in Waiters |-> NoConn]
    /\ outbox = [c \in Conns |-> <<>>]

-----------------------------------------------------------------------------
(* Shared pieces of the handlers.                                          *)

(* vci_lock is held exactly while some task drains under it; a task takes  *)
(* it without suspending when it is free and nobody queues for it.         *)
LockFree ==
    /\ \A c \in Conns : probe[c] # "draining" /\ pc[c] # "acking"
    /\ \A p \in Proxies : proxy[p] # "draining"
LockIdle ==
    /\ LockFree
    /\ \A c \in Conns : probe[c] # "locking" /\ pc[c] # "acklock"
    /\ \A p \in Proxies : proxy[p] # "locking"

(* Variant: the registry is emptied and the futures are left as they are.  *)
FailPendingClearsOnly(registered, futures) == futures

(* _cancel_pending_futures: every registered future that is not done fails *)
(* and the registry is emptied.                                            *)
FailPending(registered, futures) ==
    [w \in Waiters |-> IF w \in registered /\ futures[w] = "pending"
                       THEN "failed" ELSE futures[w]]

(* _cancel_probe_task_async suspends its caller only when the task it has  *)
(* just cancelled is still running.                                        *)
ProbeRunning == probeTask # NoConn /\ probe[probeTask] # "done"

(* task.cancel() on a probe task waiting for its future: asyncio.wait_for   *)
(* cancels the future at once (Python 3.12) or leaves it as it is until    *)
(* the task runs (3.10, 3.11).                                             *)
CancelAwaitedFuture(futures) ==
    IF probe[probeTask] = "waiting" /\ futures[probeTask] = "pending"
    THEN {futures, [futures EXCEPT ![probeTask] = "cancelled"]} ELSE {futures}

(* Variant: the sequence is not advanced.                                  *)
NewRequestSameSequence(w) ==
    /\ sequence < MaxSeq
    /\ sequence' = sequence
    /\ wseq' = [wseq EXCEPT ![w] = sequence + 1]
    /\ responseFutures' = responseFutures \cup {w}
    /\ fut' = [fut EXCEPT ![w] = "pending"]

(* A waiter takes the next sequence number and registers its future.       *)
NewRequest(w) ==
    /\ sequence < MaxSeq
    /\ sequence' = sequence + 1
    /\ wseq' = [wseq EXCEPT ![w] = sequence + 1]
    /\ responseFutures' = responseFutures \cup {w}
    /\ fut' = [fut EXCEPT ![w] = "pending"]

(* The waiter's request (number n) is written to the current tunnel.  It   *)
(* can be answered only if both directions of the transport are up.        *)
Write(w, n) ==
    /\ writtenTo' = [writtenTo EXCEPT ![w] = vciWriter]
    /\ outbox' = IF link[vciWriter] = "up"
                 THEN [outbox EXCEPT ![vciWriter] = Append(@, [seq |-> n, by |-> w])]
                 ELSE outbox

(* The waiter drops its future, and its entry in response_futures if any.  *)
Forget(w) ==
    /\ responseFutures' = responseFutures \ {w}
    /\ fut' = [fut EXCEPT ![w] = "none"]
    /\ wseq' = [wseq EXCEPT ![w] = 0]
    /\ writtenTo' = [writtenTo EXCEPT ![w] = NoConn]
    /\ UNCHANGED outbox

(* The number of a request that could not even be written is spent.        *)
SpendSequence ==
    /\ sequence < MaxSeq
    /\ sequence' = sequence + 1
    /\ UNCHANGED <<futureVars, wseq, writtenTo, outbox>>

IsClosing(c) == link[c] \in {"lost", "closed"}

(* A write on the current tunnel goes through, or else raises (no writer,   *)
(* or drain on a closing transport).                                       *)
Writable == vciWriter # NoConn /\ ~IsClosing(vciWriter)

(* What _should_accept_new_vci_connection calls a healthy tunnel.          *)
HealthyTunnel ==
    /\ Writable
    /\ vciConnected
    /\ quality.connected /\ quality.fresh /\ ~quality.failed

-----------------------------------------------------------------------------
(* Transport of the VCI connections (environment).                         *)

(* The peer shuts down its sending side, or its machine goes away cleanly. *)
LinkEof(c) ==
    /\ pc[c] \notin {"idle", "done"}
    /\ link[c] = "up"
    /\ link' = [link EXCEPT ![c] = "eof"]
    /\ UNCHANGED <<handlerVars, tunnelVars, probeVars, proxy, futureVars, requestVars>>

(* The connection is reset: the transport starts closing.                  *)
LinkLost(c) ==
    /\ pc[c] \notin {"idle", "done"}
    /\ link[c] \in {"up", "eof"}
    /\ link' = [link EXCEPT ![c] = "lost"]
    /\ UNCHANGED <<handlerVars, tunnelVars, probeVars, proxy, futureVars, requestVars>>

(* More than freshness_seconds pass without a sample.                      *)
QualityAges ==
    /\ quality.connected /\ quality.fresh
    /\ quality' = [quality EXCEPT !.fresh = FALSE]
    /\ UNCHANGED <<handlerVars, link, vciWriter, vciConnected, epoch, probeVars, proxy,
                   futureVars, requestVars>>

-----------------------------------------------------------------------------
(* _handle_vci_connection: authentication and admission.                   *)

VciConnect(c) ==
    /\ pc[c] = "idle"
    /\ pc' = [pc EXCEPT ![c] = "auth"]
    /\ UNCHANGED <<link, oldWriter, awaited, localEpoch, tunnelVars, probeVars, proxy,
                   futureVars, requestVars>>

Leave(c) ==
    /\ pc' = [pc EXCEPT ![c] = "done"]
    /\ UNCHANGED <<oldWriter, awaited, localEpoch>>

AuthFails(c) ==
    /\ pc[c] = "auth"
    /\ Leave(c)
    /\ link' = [link EXCEPT ![c] = "closed"]
    /\ UNCHANGED <<tunnelVars, probeVars, proxy, futureVars, requestVars>>

(* Admission runs in the same step as the end of authentication.           *)
RejectTunnel(c) ==
    /\ pc[c] = "auth"
    /\ HealthyTunnel
    /\ Leave(c)
    /\ link' = [link EXCEPT ![c] = "closed"]
    /\ UNCHANGED <<tunnelVars, probeVars, proxy, futureVars, requestVars>>

(* Ownership passes to c: a new epoch, a tracker reset, the event set      *)
(* (waking every DLL handler that waits for it) and a new probe task.      *)
Install(c) ==
    /\ pc' = [pc EXCEPT ![c] = "serving"]
    /\ oldWriter' = [oldWriter EXCEPT ![c] = NoConn]
    /\ awaited' = [awaited EXCEPT ![c] = NoConn]
    /\ vciWriter' = c
    /\ vciConnected' = TRUE
    /\ epoch' = epoch + 1
    /\ localEpoch' = [localEpoch EXCEPT ![c] = epoch + 1]
    /\ quality' = [connected |-> TRUE, fresh |-> TRUE, failed |-> FALSE, epoch |-> epoch + 1]
    /\ probeTask' = c
    /\ probe' = [probe EXCEPT ![c] = "new"]
    /\ proxy' = [p \in Proxies |-> IF proxy[p] = "gate" THEN "woken" ELSE proxy[p]]

AcceptFirstTunnel(c) ==
    /\ pc[c] = "auth"
    /\ vciWriter = NoConn
    /\ Install(c)
    /\ UNCHANGED <<link, cancelled, futureVars, requestVars>>

(* The replacement of a tunnel that is not healthy, when no probe task has *)
(* to be waited for: old tunnel closed and new one installed in one step.  *)
ReplaceTunnel(c) ==
    /\ pc[c] = "auth"
    /\ vciWriter # NoConn /\ ~HealthyTunnel
    /\ ~ProbeRunning
    /\ responseFutures' = {}
    /\ fut' = FailPending(responseFutures, fut)
    /\ link' = [link EXCEPT ![vciWriter] = "closed"]
    /\ Install(c)
    /\ UNCHANGED <<cancelled, requestVars>>

(* The same, up to the await of the probe task it cancels.                 *)
ReplaceBegins(c) ==
    /\ pc[c] = "auth"
    /\ vciWriter # NoConn /\ ~HealthyTunnel
    /\ ProbeRunning
    /\ oldWriter' = [oldWriter EXCEPT ![c] = vciWriter]
    /\ vciConnected' = FALSE
    /\ awaited' = [awaited EXCEPT ![c] = probeTask]
    /\ cancelled' = cancelled \cup {probeTask}
    /\ fut' \in CancelAwaitedFuture(fut)
    /\ probeTask' = NoConn
    /\ pc' = [pc EXCEPT ![c] = "replacing"]
    /\ UNCHANGED <<link, localEpoch, vciWriter, epoch, quality, probe, proxy, responseFutures,
                   requestVars>>

(* ... and after it: nothing is looked at again before taking over.        *)
ReplaceResumes(c) ==
    /\ pc[c] = "replacing"
    /\ probe[awaited[c]] = "done"
    /\ responseFutures' = {}
    /\ fut' = FailPending(responseFutures, fut)
    /\ link' = [link EXCEPT ![oldWriter[c]] = "closed"]
    /\ Install(c)
    /\ UNCHANGED <<cancelled, requestVars>>

-----------------------------------------------------------------------------
(* _handle_vci_connection: the finally clause, from any of its exits.      *)

(* Variant: vci_connected is cleared only after the probe task has ended.  *)
TeardownBeginsConnected(c, registered, futures) ==
    /\ vciWriter = c
    /\ ProbeRunning
    /\ responseFutures' = {}
    /\ fut' \in CancelAwaitedFuture(FailPending(registered, futures))
    /\ awaited' = [awaited EXCEPT ![c] = probeTask]
    /\ cancelled' = cancelled \cup {probeTask}
    /\ probeTask' = NoConn
    /\ pc' = [pc EXCEPT ![c] = "closing"]
    /\ UNCHANGED <<link, oldWriter, localEpoch, vciWriter, vciConnected, epoch, quality, probe>>

(* The registry and the futures are those left by the exit itself.         *)
TeardownBegins(c, registered, futures) ==
    /\ vciWriter = c
    /\ ProbeRunning
    /\ vciConnected' = FALSE
    /\ responseFutures' = {}
    /\ fut' \in CancelAwaitedFuture(FailPending(registered, futures))
    /\ awaited' = [awaited EXCEPT ![c] = probeTask]
    /\ cancelled' = cancelled \cup {probeTask}
    /\ probeTask' = NoConn
    /\ pc' = [pc EXCEPT ![c] = "closing"]
    /\ UNCHANGED <<link, oldWriter, localEpoch, vciWriter, epoch, quality, probe>>

(* Variant: the tracker is told an epoch the handler no longer knows.      *)
MarkDisconnectedNoEpoch(c) ==
    quality' = [connected |-> FALSE, fresh |-> FALSE, failed |-> FALSE, epoch |-> NoConn]

MarkDisconnected(c) ==
    quality' = [connected |-> FALSE, fresh |-> FALSE, failed |-> FALSE, epoch |-> localEpoch[c]]

TeardownAtOnce(c, registered, futures) ==
    /\ vciWriter = c
    /\ ~ProbeRunning
    /\ vciConnected' = FALSE
    /\ responseFutures' = {}
    /\ fut' = FailPending(registered, futures)
    /\ probeTask' = NoConn
    /\ MarkDisconnected(c)
    /\ vciWriter' = NoConn
    /\ link' = [link EXCEPT ![c] = "closed"]
    /\ Leave(c)
    /\ UNCHANGED <<epoch, probe, cancelled>>

(* Ownership has changed: the handler only closes its own writer.          *)
LeaveToNewOwner(c, registered, futures) ==
    /\ vciWriter # c
    /\ Leave(c)
    /\ link' = [link EXCEPT ![c] = "closed"]
    /\ responseFutures' = registered
    /\ fut' = futures
    /\ UNCHANGED <<tunnelVars, probeVars>>

Exit(c, registered, futures) ==
    /\ \/ TeardownBegins(c, registered, futures)
       \/ TeardownAtOnce(c, registered, futures)
       \/ LeaveToNewOwner(c, registered, futures)
    /\ UNCHANGED proxy

(* Variant: the writer is not given up after the await.                    *)
TeardownResumesKeepsWriter(c) ==
    /\ pc[c] = "closing"
    /\ probe[awaited[c]] = "done"
    /\ pc' = [pc EXCEPT ![c] = "done"]
    /\ awaited' = [awaited EXCEPT ![c] = NoConn]
    /\ MarkDisconnected(c)
    /\ link' = [link EXCEPT ![c] = "closed"]
    /\ UNCHANGED <<oldWriter, localEpoch, vciWriter, vciConnected, epoch, probeVars, proxy,
                   futureVars, requestVars>>

(* The tail of the finally clause, after the await of the probe task.      *)
TeardownResumes(c) ==
    /\ pc[c] = "closing"
    /\ probe[awaited[c]] = "done"
    /\ pc' = [pc EXCEPT ![c] = "done"]
    /\ awaited' = [awaited EXCEPT ![c] = NoConn]
    /\ MarkDisconnected(c)
    /\ vciWriter' = NoConn
    /\ link' = [link EXCEPT ![c] = "closed"]
    /\ UNCHANGED <<oldWriter, localEpoch, vciConnected, epoch, probeVars, proxy, futureVars,
                   requestVars>>

-----------------------------------------------------------------------------
(* _handle_vci_connection: the read loop.                                  *)

(* EOF, a reset or an unusable frame ends the loop.                        *)
ReadFails(c) ==
    /\ pc[c] = "serving"
    /\ link[c] # "up"
    /\ Exit(c, responseFutures, fut)
    /\ UNCHANGED requestVars

(* A response arrives (the peer answers in order).  Bytes received before  *)
(* a reset are discarded with it; those received before an EOF are not.    *)
Registered(m) == {w \in responseFutures : wseq[w] = m.seq}

TakeResponse(c) ==
    /\ pc[c] = "serving"
    /\ link[c] # "lost"
    /\ outbox[c] # <<>>
    /\ outbox' = [outbox EXCEPT ![c] = Tail(@)]
    /\ UNCHANGED <<sequence, wseq, writtenTo>>

ResponseResolves(c) ==
    /\ TakeResponse(c)
    /\ \E w \in Registered(Head(outbox[c])) :
          /\ fut[w] = "pending"
          /\ responseFutures' = responseFutures \ {w}
          /\ fut' = [fut EXCEPT ![w] = "result"]
    /\ UNCHANGED <<handlerVars, link, tunnelVars, probeVars, proxy>>

ResponseUnknown(c) ==
    /\ TakeResponse(c)
    /\ Registered(Head(outbox[c])) = {}
    /\ UNCHANGED <<handlerVars, link, tunnelVars, probeVars, proxy, futureVars>>

(* set_result on a future whose waiter has just timed out or is being      *)
(* cancelled raises InvalidStateError, which ends the loop.                *)
ResponseTooLate(c) ==
    /\ TakeResponse(c)
    /\ \E w \in Registered(Head(outbox[c])) :
          /\ fut[w] # "pending"
          /\ Exit(c, responseFutures \ {w}, fut)

(* A heartbeat whose acknowledgement queues for vci_lock or suspends in    *)
(* drain (one that does neither changes nothing).                          *)
HeartbeatBlocks(c) ==
    /\ pc[c] = "serving"
    /\ link[c] = "up"
    /\ pc' = [pc EXCEPT ![c] = IF LockIdle THEN "acking" ELSE "acklock"]
    /\ UNCHANGED <<link, oldWriter, awaited, localEpoch, tunnelVars, probeVars, proxy,
                   futureVars, requestVars>>

AckWritten(c) ==
    /\ pc[c] = "acklock"
    /\ LockFree
    /\ ~IsClosing(c)
    /\ pc' = [pc EXCEPT ![c] = "acking"]
    /\ UNCHANGED <<link, oldWriter, awaited, localEpoch, tunnelVars, probeVars, proxy,
                   futureVars, requestVars>>

AckDrained(c) ==
    /\ pc[c] = "acking"
    /\ ~IsClosing(c)
    /\ pc' = [pc EXCEPT ![c] = "serving"]
    /\ UNCHANGED <<link, oldWriter, awaited, localEpoch, tunnelVars, probeVars, proxy,
                   futureVars, requestVars>>

(* drain on a closing transport raises, and the loop ends.                 *)
AckFails(c) ==
    /\ \/ pc[c] = "acking"
       \/ pc[c] = "acklock" /\ LockFree
    /\ IsClosing(c)
    /\ Exit(c, responseFutures, fut)
    /\ UNCHANGED requestVars

-----------------------------------------------------------------------------
(* What probe tasks and DLL handlers do alike once their request is        *)
(* registered: queue for vci_lock, write, drain, wait for the future.      *)

Stage(w) == IF w \in Conns THEN probe[w] ELSE proxy[w]

MoveTo(w, stage) ==
    IF w \in Conns THEN probe' = [probe EXCEPT ![w] = stage] /\ UNCHANGED proxy
                   ELSE proxy' = [proxy EXCEPT ![w] = stage] /\ UNCHANGED probe

(* A free lock is taken and the request written in the step that created   *)
(* it; drain may or may not suspend.  A taken lock is queued for.          *)
Sends(w) ==
    /\ NewRequest(w)
    /\ \/ /\ LockIdle /\ Writable
          /\ Write(w, sequence + 1)
          /\ MoveTo(w, "waiting") \/ MoveTo(w, "draining")
       \/ /\ ~LockIdle
          /\ MoveTo(w, "locking")
          /\ UNCHANGED <<writtenTo, outbox>>
    /\ UNCHANGED <<handlerVars, link, tunnelVars, probeTask, cancelled>>

Forward(w) ==
    /\ Stage(w) = "locking" /\ w \notin cancelled
    /\ LockFree /\ Writable
    /\ Write(w, wseq[w])
    /\ MoveTo(w, "waiting") \/ MoveTo(w, "draining")
    /\ UNCHANGED <<handlerVars, link, tunnelVars, probeTask, cancelled, futureVars,
                   sequence, wseq>>

Drained(w) ==
    /\ Stage(w) = "draining" /\ w \notin cancelled
    /\ ~IsClosing(writtenTo[w])
    /\ MoveTo(w, "waiting")
    /\ UNCHANGED <<handlerVars, link, tunnelVars, probeTask, cancelled, futureVars, requestVars>>

(* The timer of wait_for fires: the future is cancelled, and the waiter    *)
(* runs only later.                                                        *)
TimesOut(w) ==
    /\ Stage(w) = "waiting"
    /\ fut[w] = "pending"
    /\ fut' = [fut EXCEPT ![w] = "cancelled"]
    /\ UNCHANGED <<handlerVars, link, tunnelVars, probeVars, proxy, responseFutures, requestVars>>

(* The write of a registered request raises.                               *)
ForwardRaises(w) ==
    /\ w \notin cancelled
    /\ \/ Stage(w) = "locking" /\ LockFree /\ ~Writable
       \/ Stage(w) = "draining" /\ IsClosing(writtenTo[w])

-----------------------------------------------------------------------------
(* _probe_loop and _run_probe of the tunnel that connection c installed.   *)

(* Variant: while True.                                                    *)
LoopForever(c) == TRUE

LoopCondition(c) == vciConnected /\ vciWriter # NoConn /\ epoch = localEpoch[c]

AtLoopTop(c) == probe[c] \in {"new", "sleeping"} /\ c \notin cancelled

ProbeSends(c) ==
    /\ AtLoopTop(c) /\ LoopCondition(c)
    /\ Sends(c)

ProbeLoopEnds(c) ==
    /\ AtLoopTop(c) /\ ~LoopCondition(c)
    /\ probe' = [probe EXCEPT ![c] = "done"]
    /\ UNCHANGED <<handlerVars, link, tunnelVars, probeTask, cancelled, proxy, futureVars,
                   requestVars>>

ProbeSleeps(c) ==
    /\ probe' = [probe EXCEPT ![c] = "sleeping"]
    /\ UNCHANGED <<handlerVars, link, vciWriter, vciConnected, epoch, probeTask, cancelled,
                   proxy>>

RecordProbe == quality' = [quality EXCEPT !.connected = TRUE, !.fresh = TRUE, !.failed = FALSE]
RecordProbeFailure == quality' = [quality EXCEPT !.fresh = TRUE, !.failed = TRUE]

(* The probe fails before it is written.                                   *)
ProbeFailsAtOnce(c) ==
    /\ AtLoopTop(c) /\ LoopCondition(c)
    /\ LockIdle /\ ~Writable
    /\ SpendSequence
    /\ RecordProbeFailure
    /\ ProbeSleeps(c)

ProbeForwardFails(c) ==
    /\ ForwardRaises(c)
    /\ Forget(c)
    /\ RecordProbeFailure
    /\ ProbeSleeps(c)
    /\ UNCHANGED sequence

(* The future is done: a pong records a sample, anything else a failure.   *)
ProbeEnds(c) ==
    /\ probe[c] = "waiting" /\ c \notin cancelled
    /\ fut[c] # "pending"
    /\ IF fut[c] = "result" THEN RecordProbe ELSE RecordProbeFailure
    /\ Forget(c)
    /\ ProbeSleeps(c)
    /\ UNCHANGED sequence

ProbeCancelled(c) ==
    /\ c \in cancelled
    /\ probe[c] # "done"
    /\ Forget(c)
    /\ probe' = [probe EXCEPT ![c] = "done"]
    /\ cancelled' = cancelled \ {c}
    /\ UNCHANGED <<handlerVars, link, tunnelVars, probeTask, proxy, sequence>>

(* Before Python 3.12 wait_for returns the outcome of a future that is     *)
(* done when the cancellation arrives, and the cancellation is lost.       *)
CancellationLost(c) ==
    /\ c \in cancelled
    /\ probe[c] = "waiting" /\ fut[c] \in {"result", "failed"}
    /\ cancelled' = cancelled \ {c}
    /\ UNCHANGED <<handlerVars, link, tunnelVars, probeTask, probe, proxy, futureVars, requestVars>>

ProbeStep(c) ==
    \/ ProbeSends(c) \/ ProbeLoopEnds(c) \/ ProbeFailsAtOnce(c) \/ ProbeForwardFails(c)
    \/ ProbeEnds(c) \/ ProbeCancelled(c) \/ CancellationLost(c)

-----------------------------------------------------------------------------
(* _handle_proxy_connection.                                               *)

(* The top of the loop: wait for a tunnel, give up if it is gone already.  *)
TopOfLoop ==
    IF ~vciConnected THEN "gate" ELSE IF vciWriter = NoConn THEN "closed" ELSE "reading"

ProxyMoves(p, stage) ==
    /\ proxy' = [proxy EXCEPT ![p] = stage]
    /\ UNCHANGED <<handlerVars, link, tunnelVars, probeVars>>

ProxyConnect(p) ==
    /\ proxy[p] = "idle"
    /\ ProxyMoves(p, TopOfLoop)
    /\ UNCHANGED <<futureVars, requestVars>>

(* The event was set; whether it still is, is not looked at again.         *)
ProxyWakes(p) ==
    /\ proxy[p] = "woken"
    /\ ProxyMoves(p, IF vciWriter = NoConn THEN "closed" ELSE "reading")
    /\ UNCHANGED <<futureVars, requestVars>>

(* The DLL closes its connection, or sends an unusable frame.              *)
ProxyEof(p) ==
    /\ proxy[p] = "reading"
    /\ ProxyMoves(p, "closed")
    /\ UNCHANGED <<futureVars, requestVars>>

(* A request no cache answers arrives.                                     *)
ProxySends(p) ==
    /\ proxy[p] = "reading"
    /\ Sends(p)

ProxyFailsAtOnce(p) ==
    /\ proxy[p] = "reading"
    /\ LockIdle /\ ~Writable
    /\ SpendSequence
    /\ ProxyMoves(p, "closed")

ProxyForwardFails(p) ==
    /\ ForwardRaises(p)
    /\ Forget(p)
    /\ ProxyMoves(p, "closed")
    /\ UNCHANGED sequence

(* The response is relayed; the DLL may have gone meanwhile.               *)
ProxyReplies(p) ==
    /\ proxy[p] = "waiting"
    /\ fut[p] = "result"
    /\ Forget(p)
    /\ ProxyMoves(p, TopOfLoop) \/ ProxyMoves(p, "closed")
    /\ UNCHANGED sequence

(* Variant: only the timeout is handled.                                   *)
ProxyGivesUpOnTimeout(p) ==
    /\ proxy[p] = "waiting"
    /\ fut[p] = "cancelled"
    /\ Forget(p)
    /\ ProxyMoves(p, "closed")
    /\ UNCHANGED sequence

(* Timeout or lost tunnel: the DLL's connection is closed without a reply. *)
ProxyGivesUp(p) ==
    /\ proxy[p] = "waiting"
    /\ fut[p] \in {"failed", "cancelled"}
    /\ Forget(p)
    /\ ProxyMoves(p, "closed")
    /\ UNCHANGED sequence

ProxyStep(p) ==
    \/ ProxyConnect(p) \/ ProxyWakes(p) \/ ProxyEof(p) \/ ProxySends(p)
    \/ ProxyFailsAtOnce(p) \/ ProxyForwardFails(p) \/ ProxyReplies(p) \/ ProxyGivesUp(p)

WaiterStep(w) == Forward(w) \/ Drained(w) \/ TimesOut(w)

HandlerStep(c) ==
    \/ VciConnect(c) \/ AuthFails(c) \/ RejectTunnel(c) \/ AcceptFirstTunnel(c)
    \/ ReplaceTunnel(c) \/ ReplaceBegins(c) \/ ReplaceResumes(c) \/ TeardownResumes(c)
    \/ ReadFails(c) \/ ResponseResolves(c) \/ ResponseUnknown(c) \/ ResponseTooLate(c)
    \/ HeartbeatBlocks(c) \/ AckWritten(c) \/ AckDrained(c) \/ AckFails(c)

Environment == QualityAges \/ \E c \in Conns : LinkEof(c) \/ LinkLost(c)

Next ==
    \/ Environment
    \/ \E c \in Conns : HandlerStep(c) \/ ProbeStep(c)
    \/ \E w \in Waiters : WaiterStep(w)
    \/ \E p \in Proxies : ProxyStep(p)

Spec == Init /\ [][Next]_vars

-----------------------------------------------------------------------------
(* Safety.                                                                 *)

InFlight == {"locking", "draining", "waiting"}

(* No future is lost: one that is still pending is registered in           *)
(* response_futures, so that an answer or a disconnection can complete it, *)
(* and whatever is registered belongs to a task still in its request.      *)
FuturesReachable ==
    /\ \A w \in Waiters : fut[w] = "pending" => w \in responseFutures
    /\ \A w \in responseFutures : fut[w] \in {"pending", "cancelled"} /\ Stage(w) \in InFlight
    /\ \A w \in Waiters : Stage(w) \notin InFlight => fut[w] = "none"

(* An answer in transit can only complete the future of the task whose     *)
(* request it answers, whatever timeouts, replacements and retries did     *)
(* since that request was written.                                         *)
AnswersAreRouted ==
    \A c \in Conns : \A i \in DOMAIN outbox[c] :
        Registered(outbox[c][i]) \subseteq {outbox[c][i].by}

(* While vci_connected is set, the writer requests go to is that of the    *)
(* newest epoch and its read loop runs: somebody can take the answers.     *)
(* And a handler that has left leaves no tunnel behind: the current writer *)
(* always has a live handler that will, at its end, give it up.            *)
ConnectedTunnelIsServed ==
    vciWriter # NoConn =>
        /\ pc[vciWriter] \in Served \cup {"closing"}
        /\ vciConnected => pc[vciWriter] \in Served
        /\ localEpoch[vciWriter] = epoch

-----------------------------------------------------------------------------
(* What the code's comments and tests say and concurrent handlers break.   *)

(* A tunnel that admission would call healthy is never replaced.           *)
HealthyTunnelNotReplaced ==
    [][HealthyTunnel /\ vciWriter' # vciWriter => vciWriter' = NoConn]_vars

(* A handler's teardown clears vci_writer only if it is its own.           *)
TeardownIsOwn ==
    [][vciWriter # NoConn /\ vciWriter' = NoConn => pc'[vciWriter] = "done"]_vars

(* Once the handler of a VCI connection has left, no request written to it *)
(* is still pending: all were failed when it disconnected.                 *)
NoOrphanedRequest ==
    \A w \in Waiters :
        Stage(w) = "waiting" /\ fut[w] = "pending" => pc[writtenTo[w]] # "done"

-----------------------------------------------------------------------------
(* Liveness.  The event loop gives every task that can go on its turn, and *)
(* fires every due timer; drain ends because TCP delivers or gives up; a   *)
(* task queued for vci_lock, which is FIFO, cannot be overtaken for ever.  *)
HandlerTurn(c) ==
    ReplaceResumes(c) \/ TeardownResumes(c) \/ AckWritten(c) \/ AckDrained(c) \/ AckFails(c)

ProbeTurn(c) ==
    \/ Forward(c) \/ Drained(c) \/ TimesOut(c)
    \/ ProbeForwardFails(c) \/ ProbeEnds(c) \/ ProbeCancelled(c) \/ ProbeLoopEnds(c)

ProxyTurn(p) ==
    \/ Forward(p) \/ Drained(p) \/ TimesOut(p)
    \/ ProxyForwardFails(p) \/ ProxyReplies(p) \/ ProxyGivesUp(p)

Fairness ==
    /\ \A c \in Conns : SF_vars(HandlerTurn(c)) /\ SF_vars(ProbeTurn(c))
    /\ \A p \in Proxies : SF_vars(ProxyTurn(p))

FairSpec == Spec /\ Fairness

(* Whoever waits is let go: a DLL whose request was taken gets an answer or *)
(* loses its connection, and a handler that waits for a probe task it       *)
(* cancelled finishes its replacement or its teardown.                      *)
WaitsEnd ==
    /\ \A p \in Proxies : proxy[p] \in InFlight ~> proxy[p] \notin InFlight
    /\ \A c \in Conns :
        pc[c] \in {"replacing", "closing"} ~> pc[c] \notin {"replacing", "closing"}

=============================================================================
