------------------------ MODULE ReverseServerProofs ------------------------
(***************************************************************************)
(* Proofs about ReverseServer, for any number of VCI connections and DLL   *)
(* connections and any bound on the sequence, and about the worker's       *)
(* launch in PassThru, for any machines and programs.                      *)
(***************************************************************************)
EXTENDS ReverseServer, PassThru, TLAPS

FutureStates == {"none", "pending", "result", "failed", "cancelled"}

-----------------------------------------------------------------------------
(* What the shared pieces of the handlers keep typed.                      *)

LEMMA FailPendingType ==
  ASSUME NEW R, NEW f \in [Waiters -> FutureStates]
  PROVE  FailPending(R, f) \in [Waiters -> FutureStates]
  BY DEF FailPending, FutureStates

LEMMA CancelAwaitedType ==
  ASSUME NEW f \in [Waiters -> FutureStates],
         NEW g \in CancelAwaitedFuture(f)
  PROVE  g \in [Waiters -> FutureStates]
  BY DEF CancelAwaitedFuture, FutureStates

(* Whatever exit a handler takes from its read loop.                       *)
LEMMA ExitType ==
  ASSUME TypeOK, NEW c \in Conns, NEW R \in SUBSET Waiters,
         NEW f \in [Waiters -> FutureStates],
         Exit(c, R, f), sequence' \in Nat, wseq' = wseq, writtenTo' = writtenTo,
         outbox' \in [Conns -> Seq([seq: Nat, by: Waiters])]
  PROVE  TypeOK'
<1> USE ServerAssumption DEF TypeOK, Served, tunnelVars, probeVars
<1>0. FailPending(R, f) \in [Waiters -> FutureStates]
  BY FailPendingType
<1>1. CASE TeardownBegins(c, R, f)
  <2>1. fut' \in [Waiters -> FutureStates]
    BY <1>0, <1>1, CancelAwaitedType DEF TeardownBegins
  <2> QED
    BY <1>1, <2>1 DEF TeardownBegins, ProbeRunning, Exit, FutureStates
<1>2. CASE TeardownAtOnce(c, R, f)
  <2>1. /\ pc' = [pc EXCEPT ![c] = "done"] /\ link' = [link EXCEPT ![c] = "closed"]
        /\ oldWriter' = oldWriter /\ awaited' = awaited /\ localEpoch' = localEpoch
        /\ proxy' = proxy
    BY <1>2 DEF TeardownAtOnce, Leave, Exit
  <2>2. /\ vciWriter' = NoConn /\ vciConnected' = FALSE /\ epoch' = epoch
        /\ probeTask' = NoConn /\ probe' = probe /\ cancelled' = cancelled
        /\ responseFutures' = {} /\ fut' = FailPending(R, f)
    BY <1>2 DEF TeardownAtOnce
  <2>3. quality' \in [connected: BOOLEAN, fresh: BOOLEAN, failed: BOOLEAN, epoch: Nat]
    BY <1>2 DEF TeardownAtOnce, MarkDisconnected
  <2> QED
    BY <1>0, <2>1, <2>2, <2>3 DEF FutureStates
<1>3. CASE LeaveToNewOwner(c, R, f)
  BY <1>3 DEF LeaveToNewOwner, Leave, Exit, FutureStates
<1> QED
  BY <1>1, <1>2, <1>3 DEF Exit

(* Ownership passes to a new handler.                                      *)
LEMMA InstallType ==
  ASSUME TypeOK, NEW c \in Conns, Install(c),
         link' \in [Conns -> {"up", "eof", "lost", "closed"}],
         cancelled' \in SUBSET Conns, responseFutures' \in SUBSET Waiters,
         fut' \in [Waiters -> FutureStates], UNCHANGED requestVars
  PROVE  TypeOK'
<1> USE ServerAssumption DEF TypeOK, Served, requestVars, FutureStates, Install
<1>1. /\ pc' \in [Conns -> {"idle", "auth", "replacing", "closing", "done"} \cup Served]
      /\ oldWriter' \in [Conns -> Conns \cup {NoConn}]
      /\ awaited' \in [Conns -> Conns \cup {NoConn}]
      /\ localEpoch' \in [Conns -> Nat]
  OBVIOUS
<1>2. /\ vciWriter' \in Conns \cup {NoConn}
      /\ vciConnected' \in BOOLEAN
      /\ epoch' \in Nat
      /\ quality' \in [connected: BOOLEAN, fresh: BOOLEAN, failed: BOOLEAN, epoch: Nat]
      /\ probeTask' \in Conns \cup {NoConn}
  OBVIOUS
<1>3. /\ probe' \in [Conns -> {"none", "new", "sleeping", "locking", "draining", "waiting", "done"}]
      /\ proxy' \in [Proxies -> {"idle", "gate", "woken", "reading", "locking",
                              "draining", "waiting", "closed"}]
  OBVIOUS
<1> QED
  BY <1>1, <1>2, <1>3 DEF Waiters

LEMMA WriteType ==
  ASSUME TypeOK, Writable, NEW w \in Waiters, NEW n \in Nat, Write(w, n)
  PROVE  /\ writtenTo' \in [Waiters -> Conns \cup {NoConn}]
         /\ outbox' \in [Conns -> Seq([seq: Nat, by: Waiters])]
<1>1. vciWriter \in Conns
  BY DEF TypeOK, Writable
<1>2. outbox[vciWriter] \in Seq([seq: Nat, by: Waiters])
  BY <1>1 DEF TypeOK
<1>3. PICK q : q = Append(outbox[vciWriter], [seq |-> n, by |-> w])
  OBVIOUS
<1>4. q \in Seq([seq: Nat, by: Waiters])
  <2>1. [seq |-> n, by |-> w] \in [seq: Nat, by: Waiters]
    OBVIOUS
  <2> QED
    BY <1>2, <1>3, <2>1
<1>5. writtenTo' \in [Waiters -> Conns \cup {NoConn}]
  BY <1>1 DEF TypeOK, Write
<1>6. outbox' = outbox \/ outbox' = [outbox EXCEPT ![vciWriter] = q]
  BY <1>3 DEF Write
<1>7. outbox \in [Conns -> Seq([seq: Nat, by: Waiters])]
  BY DEF TypeOK
<1>8. outbox' \in [Conns -> Seq([seq: Nat, by: Waiters])]
  BY <1>1, <1>4, <1>6, <1>7
<1> QED
  BY <1>5, <1>8

LEMMA MoveToType ==
  ASSUME TypeOK, NEW w \in Waiters, NEW s \in {"locking", "draining", "waiting"}, MoveTo(w, s)
  PROVE  /\ probe' \in [Conns -> {"none", "new", "sleeping", "locking", "draining", "waiting", "done"}]
         /\ proxy' \in [Proxies -> {"idle", "gate", "woken", "reading", "locking",
                              "draining", "waiting", "closed"}]
<1>1. /\ probe \in [Conns -> {"none", "new", "sleeping", "locking", "draining", "waiting", "done"}]
      /\ proxy \in [Proxies -> {"idle", "gate", "woken", "reading", "locking",
                                "draining", "waiting", "closed"}]
  BY DEF TypeOK
<1>2. \/ probe' = [probe EXCEPT ![w] = s] /\ proxy' = proxy
      \/ proxy' = [proxy EXCEPT ![w] = s] /\ probe' = probe
  BY DEF MoveTo
<1>3. probe' \in [Conns -> {"none", "new", "sleeping", "locking", "draining", "waiting", "done"}]
  BY <1>1, <1>2
<1>4. proxy' \in [Proxies -> {"idle", "gate", "woken", "reading", "locking",
                             "draining", "waiting", "closed"}]
  BY <1>1, <1>2
<1> QED
  BY <1>3, <1>4

LEMMA NewRequestType ==
  ASSUME TypeOK, NEW w \in Waiters, NewRequest(w)
  PROVE  /\ sequence' \in Nat
         /\ wseq' \in [Waiters -> Nat]
         /\ responseFutures' \in SUBSET Waiters
         /\ fut' \in [Waiters -> FutureStates]
  BY DEF TypeOK, NewRequest, FutureStates

LEMMA ForgetType ==
  ASSUME TypeOK, NEW w \in Waiters, Forget(w)
  PROVE  /\ wseq' \in [Waiters -> Nat]
         /\ responseFutures' \in SUBSET Waiters
         /\ fut' \in [Waiters -> FutureStates]
         /\ writtenTo' \in [Waiters -> Conns \cup {NoConn}]
         /\ outbox' \in [Conns -> Seq([seq: Nat, by: Waiters])]
  BY DEF TypeOK, Forget, FutureStates

LEMMA SendsType ==
  ASSUME TypeOK, NEW w \in Waiters, Sends(w)
  PROVE  TypeOK'
<1>1. NewRequest(w) /\ UNCHANGED <<handlerVars, link, tunnelVars, probeTask, cancelled>>
  BY DEF Sends
<1>2. sequence + 1 \in Nat
  BY DEF TypeOK
<1>3. /\ writtenTo' \in [Waiters -> Conns \cup {NoConn}]
      /\ outbox' \in [Conns -> Seq([seq: Nat, by: Waiters])]
  BY <1>2, WriteType DEF Sends, TypeOK
<1>4. /\ probe' \in [Conns -> {"none", "new", "sleeping", "locking", "draining", "waiting", "done"}]
      /\ proxy' \in [Proxies -> {"idle", "gate", "woken", "reading", "locking",
                              "draining", "waiting", "closed"}]
  BY MoveToType DEF Sends
<1> QED
  BY <1>1, <1>3, <1>4, NewRequestType DEF TypeOK, handlerVars, tunnelVars, FutureStates

LEMMA SpendSequenceType ==
  ASSUME TypeOK, SpendSequence
  PROVE  /\ sequence' \in Nat
         /\ wseq' \in [Waiters -> Nat]
         /\ responseFutures' \in SUBSET Waiters
         /\ fut' \in [Waiters -> FutureStates]
         /\ writtenTo' \in [Waiters -> Conns \cup {NoConn}]
         /\ outbox' \in [Conns -> Seq([seq: Nat, by: Waiters])]
<1>1. sequence' \in Nat
  BY DEF TypeOK, SpendSequence
<1>2. UNCHANGED <<responseFutures, fut, wseq, writtenTo, outbox>>
  BY DEF SpendSequence, futureVars
<1> QED
  BY <1>1, <1>2 DEF TypeOK, FutureStates

LEMMA TakeResponseType ==
  ASSUME TypeOK, NEW c \in Conns, TakeResponse(c)
  PROVE  /\ sequence' \in Nat /\ wseq' = wseq /\ writtenTo' = writtenTo
         /\ outbox' \in [Conns -> Seq([seq: Nat, by: Waiters])]
<1> DEFINE Entries == [seq: Nat, by: Waiters]
<1>1. outbox[c] \in Seq(Entries) /\ outbox[c] # <<>>
  BY DEF TypeOK, TakeResponse
<1>2. Tail(outbox[c]) \in Seq(Entries)
  <2> HIDE DEF Entries
  <2> QED
    BY <1>1
<1> QED
  BY <1>2 DEF TypeOK, TakeResponse

(* The moves of a DLL connection that touch nothing but itself.            *)
LEMMA ProxyMovesType ==
  ASSUME TypeOK, NEW p \in Proxies,
         NEW s \in {"idle", "gate", "woken", "reading", "locking", "draining", "waiting", "closed"},
         ProxyMoves(p, s), sequence' \in Nat, wseq' \in [Waiters -> Nat],
         responseFutures' \in SUBSET Waiters, fut' \in [Waiters -> FutureStates],
         writtenTo' \in [Waiters -> Conns \cup {NoConn}],
         outbox' \in [Conns -> Seq([seq: Nat, by: Waiters])]
  PROVE  TypeOK'
  BY DEF TypeOK, ProxyMoves, handlerVars, tunnelVars, probeVars, FutureStates

LEMMA TopOfLoopType == TopOfLoop \in {"gate", "closed", "reading"}
  BY DEF TopOfLoop

LEMMA ProbeSleepsType ==
  ASSUME TypeOK, NEW c \in Conns, ProbeSleeps(c), RecordProbe \/ RecordProbeFailure,
         sequence' \in Nat, wseq' \in [Waiters -> Nat],
         responseFutures' \in SUBSET Waiters, fut' \in [Waiters -> FutureStates],
         writtenTo' \in [Waiters -> Conns \cup {NoConn}],
         outbox' \in [Conns -> Seq([seq: Nat, by: Waiters])]
  PROVE  TypeOK'
<1>1. quality' \in [connected: BOOLEAN, fresh: BOOLEAN, failed: BOOLEAN, epoch: Nat]
  BY DEF TypeOK, RecordProbe, RecordProbeFailure
<1>2. probe' \in [Conns -> {"none", "new", "sleeping", "locking", "draining", "waiting", "done"}]
  BY DEF TypeOK, ProbeSleeps
<1> QED
  BY <1>1, <1>2 DEF TypeOK, ProbeSleeps, handlerVars, FutureStates

-----------------------------------------------------------------------------
(* Type correctness.                                                       *)

LEMMA HandlerTypeStep ==
  ASSUME TypeOK, NEW c \in Conns, HandlerStep(c)
  PROVE  TypeOK'
<1> USE ServerAssumption
<1>0. /\ fut \in [Waiters -> FutureStates]
      /\ responseFutures \in SUBSET Waiters
      /\ outbox \in [Conns -> Seq([seq: Nat, by: Waiters])]
  BY DEF TypeOK, FutureStates
<1>1. CASE VciConnect(c) \/ AuthFails(c) \/ RejectTunnel(c)
  <2>1. CASE VciConnect(c)
    BY <2>1 DEF VciConnect, TypeOK, tunnelVars, probeVars, futureVars, requestVars
  <2>2. CASE AuthFails(c)
    BY <2>2 DEF AuthFails, Leave, TypeOK, tunnelVars, probeVars, futureVars, requestVars
  <2>3. CASE RejectTunnel(c)
    BY <2>3 DEF RejectTunnel, Leave, TypeOK, tunnelVars, probeVars, futureVars, requestVars
  <2> QED
    BY <1>1, <2>1, <2>2, <2>3
<1>2. CASE AcceptFirstTunnel(c)
  <2>1. Install(c) /\ UNCHANGED <<link, cancelled, futureVars, requestVars>>
    BY <1>2 DEF AcceptFirstTunnel
  <2>2. link' \in [Conns -> {"up", "eof", "lost", "closed"}] /\ cancelled' \in SUBSET Conns
    BY <2>1 DEF TypeOK
  <2>3. responseFutures' \in SUBSET Waiters /\ fut' \in [Waiters -> FutureStates]
    BY <1>0, <2>1 DEF futureVars
  <2> QED
    BY <2>1, <2>2, <2>3, InstallType
<1>3. CASE ReplaceTunnel(c)
  <2>1. fut' \in [Waiters -> FutureStates]
    BY <1>0, <1>3, FailPendingType DEF ReplaceTunnel
  <2>2. link' \in [Conns -> {"up", "eof", "lost", "closed"}] /\ cancelled' \in SUBSET Conns
    BY <1>3 DEF ReplaceTunnel, TypeOK
  <2> QED
    BY <1>3, <2>1, <2>2, InstallType DEF ReplaceTunnel
<1>4. CASE ReplaceBegins(c)
  <2>1. fut' \in [Waiters -> FutureStates]
    BY <1>0, <1>4, CancelAwaitedType DEF ReplaceBegins
  <2> QED
    BY <1>4, <2>1 DEF ReplaceBegins, ProbeRunning, TypeOK, requestVars, FutureStates
<1>5. CASE ReplaceResumes(c)
  <2>1. fut' \in [Waiters -> FutureStates]
    BY <1>0, <1>5, FailPendingType DEF ReplaceResumes
  <2>2. link' \in [Conns -> {"up", "eof", "lost", "closed"}] /\ cancelled' \in SUBSET Conns
    BY <1>5 DEF ReplaceResumes, TypeOK
  <2> QED
    BY <1>5, <2>1, <2>2, InstallType DEF ReplaceResumes
<1>6. CASE TeardownResumes(c)
  BY <1>6 DEF TeardownResumes, MarkDisconnected, TypeOK, probeVars, futureVars, requestVars
<1>7. CASE ReadFails(c)
  <2>1. sequence' \in Nat /\ wseq' = wseq /\ writtenTo' = writtenTo
        /\ outbox' \in [Conns -> Seq([seq: Nat, by: Waiters])]
    BY <1>7 DEF ReadFails, TypeOK, requestVars
  <2> QED
    BY <1>0, <1>7, <2>1, ExitType DEF ReadFails
<1>8. CASE ResponseResolves(c) \/ ResponseUnknown(c)
  <2>1. responseFutures' \in SUBSET Waiters /\ fut' \in [Waiters -> FutureStates]
    <3>1. CASE ResponseUnknown(c)
      BY <1>0, <3>1 DEF ResponseUnknown, futureVars
    <3>2. CASE ResponseResolves(c)
      <4>1. PICK w : responseFutures' = responseFutures \ {w} /\ fut' = [fut EXCEPT ![w] = "result"]
        BY <3>2 DEF ResponseResolves
      <4>2. "result" \in FutureStates
        BY DEF FutureStates
      <4> QED
        BY <1>0, <4>1, <4>2
    <3> QED
      BY <1>8, <3>1, <3>2
  <2>2. TakeResponse(c) /\ UNCHANGED <<handlerVars, link, tunnelVars, probeVars, proxy>>
    BY <1>8 DEF ResponseResolves, ResponseUnknown
  <2> QED
    <3>1. /\ sequence' \in Nat /\ wseq' = wseq /\ writtenTo' = writtenTo
          /\ outbox' \in [Conns -> Seq([seq: Nat, by: Waiters])]
      BY <2>2, TakeResponseType
    <3> QED
      BY <2>1, <2>2, <3>1 DEF TypeOK, handlerVars, tunnelVars, probeVars, FutureStates
<1>9. CASE ResponseTooLate(c)
  <2>1. TakeResponse(c)
    BY <1>9 DEF ResponseTooLate
  <2>2. PICK w \in Waiters : Exit(c, responseFutures \ {w}, fut)
    BY <1>0, <1>9 DEF ResponseTooLate, Registered
  <2>3. responseFutures \ {w} \in SUBSET Waiters
    BY <1>0
  <2> QED
    BY <1>0, <2>1, <2>2, <2>3, TakeResponseType, ExitType
<1>10. CASE HeartbeatBlocks(c) \/ AckWritten(c) \/ AckDrained(c)
  <2>1. CASE HeartbeatBlocks(c)
    BY <2>1 DEF HeartbeatBlocks, TypeOK, Served, tunnelVars, probeVars, futureVars, requestVars
  <2>2. CASE AckWritten(c)
    BY <2>2 DEF AckWritten, TypeOK, Served, tunnelVars, probeVars, futureVars, requestVars
  <2>3. CASE AckDrained(c)
    BY <2>3 DEF AckDrained, TypeOK, Served, tunnelVars, probeVars, futureVars, requestVars
  <2> QED
    BY <1>10, <2>1, <2>2, <2>3
<1>11. CASE AckFails(c)
  <2>1. sequence' \in Nat /\ wseq' = wseq /\ writtenTo' = writtenTo
        /\ outbox' \in [Conns -> Seq([seq: Nat, by: Waiters])]
    BY <1>11 DEF AckFails, TypeOK, requestVars
  <2> QED
    BY <1>0, <1>11, <2>1, ExitType DEF AckFails
<1> QED
  BY <1>1, <1>2, <1>3, <1>4, <1>5, <1>6, <1>7, <1>8, <1>9, <1>10, <1>11 DEF HandlerStep

LEMMA ProbeTypeStep ==
  ASSUME TypeOK, NEW c \in Conns, ProbeStep(c)
  PROVE  TypeOK'
<1>0. c \in Waiters
  BY DEF Waiters
<1>1. CASE ProbeSends(c)
  BY <1>0, <1>1, SendsType DEF ProbeSends
<1>2. CASE ProbeLoopEnds(c) \/ CancellationLost(c)
  BY <1>2 DEF ProbeLoopEnds, CancellationLost, TypeOK, handlerVars, tunnelVars, futureVars,
              requestVars
<1>3. CASE ProbeFailsAtOnce(c)
  BY <1>3, SpendSequenceType, ProbeSleepsType DEF ProbeFailsAtOnce
<1>4. CASE ProbeForwardFails(c) \/ ProbeEnds(c)
  <2>1. /\ Forget(c) /\ ProbeSleeps(c) /\ sequence' \in Nat
        /\ RecordProbe \/ RecordProbeFailure
    BY <1>4 DEF ProbeForwardFails, ProbeEnds, TypeOK
  <2> QED
    BY <1>0, <2>1, ForgetType, ProbeSleepsType
<1>5. CASE ProbeCancelled(c)
  <2>1. /\ wseq' \in [Waiters -> Nat]
        /\ responseFutures' \in SUBSET Waiters
        /\ fut' \in [Waiters -> FutureStates]
        /\ writtenTo' \in [Waiters -> Conns \cup {NoConn}]
        /\ outbox' \in [Conns -> Seq([seq: Nat, by: Waiters])]
    BY <1>0, <1>5, ForgetType DEF ProbeCancelled
  <2>2. /\ probe' \in [Conns -> {"none", "new", "sleeping", "locking", "draining", "waiting", "done"}]
        /\ cancelled' \in SUBSET Conns
    BY <1>5 DEF ProbeCancelled, TypeOK
  <2>3. UNCHANGED <<pc, oldWriter, awaited, localEpoch, link, vciWriter, vciConnected, epoch,
                    quality, probeTask, proxy, sequence>>
    BY <1>5 DEF ProbeCancelled, handlerVars, tunnelVars
  <2> QED
    BY <2>1, <2>2, <2>3 DEF TypeOK, FutureStates
<1> QED
  BY <1>1, <1>2, <1>3, <1>4, <1>5 DEF ProbeStep

LEMMA WaiterTypeStep ==
  ASSUME TypeOK, NEW w \in Waiters, WaiterStep(w)
  PROVE  TypeOK'
<1>1. CASE Forward(w)
  <2>1. /\ writtenTo' \in [Waiters -> Conns \cup {NoConn}]
        /\ outbox' \in [Conns -> Seq([seq: Nat, by: Waiters])]
    BY <1>1, WriteType DEF Forward, TypeOK
  <2>2. /\ probe' \in [Conns -> {"none", "new", "sleeping", "locking", "draining", "waiting", "done"}]
        /\ proxy' \in [Proxies -> {"idle", "gate", "woken", "reading", "locking",
                              "draining", "waiting", "closed"}]
    BY <1>1, MoveToType DEF Forward
  <2> QED
    BY <1>1, <2>1, <2>2 DEF Forward, TypeOK, handlerVars, tunnelVars, futureVars
<1>2. CASE Drained(w)
  <2>1. /\ probe' \in [Conns -> {"none", "new", "sleeping", "locking", "draining", "waiting", "done"}]
        /\ proxy' \in [Proxies -> {"idle", "gate", "woken", "reading", "locking",
                              "draining", "waiting", "closed"}]
    BY <1>2, MoveToType DEF Drained
  <2> QED
    BY <1>2, <2>1 DEF Drained, TypeOK, handlerVars, tunnelVars, futureVars, requestVars
<1>3. CASE TimesOut(w)
  BY <1>3 DEF TimesOut, TypeOK, handlerVars, tunnelVars, probeVars, requestVars
<1> QED
  BY <1>1, <1>2, <1>3 DEF WaiterStep

LEMMA ProxyTypeStep ==
  ASSUME TypeOK, NEW p \in Proxies, ProxyStep(p)
  PROVE  TypeOK'
<1>0. p \in Waiters
  BY DEF Waiters
<1>1. CASE ProxySends(p)
  BY <1>0, <1>1, SendsType DEF ProxySends
<1>2. CASE ProxyConnect(p) \/ ProxyWakes(p) \/ ProxyEof(p) \/ ProxyFailsAtOnce(p)
  <2>1. \E s \in {"gate", "closed", "reading"} : ProxyMoves(p, s)
    BY <1>2, TopOfLoopType DEF ProxyConnect, ProxyWakes, ProxyEof, ProxyFailsAtOnce
  <2>2. SpendSequence \/ UNCHANGED <<futureVars, requestVars>>
    BY <1>2 DEF ProxyConnect, ProxyWakes, ProxyEof, ProxyFailsAtOnce
  <2>3. /\ sequence' \in Nat /\ wseq' \in [Waiters -> Nat]
        /\ responseFutures' \in SUBSET Waiters /\ fut' \in [Waiters -> FutureStates]
        /\ writtenTo' \in [Waiters -> Conns \cup {NoConn}]
        /\ outbox' \in [Conns -> Seq([seq: Nat, by: Waiters])]
    BY <2>2, SpendSequenceType DEF TypeOK, futureVars, requestVars, FutureStates
  <2> QED
    BY <2>1, <2>3, ProxyMovesType
<1>3. CASE ProxyForwardFails(p) \/ ProxyReplies(p) \/ ProxyGivesUp(p)
  <2>1. \E s \in {"gate", "closed", "reading"} : ProxyMoves(p, s)
    BY <1>3, TopOfLoopType DEF ProxyForwardFails, ProxyReplies, ProxyGivesUp
  <2>2. Forget(p) /\ sequence' \in Nat
    BY <1>3 DEF ProxyForwardFails, ProxyReplies, ProxyGivesUp, TypeOK
  <2> QED
    BY <1>0, <2>1, <2>2, ForgetType, ProxyMovesType
<1> QED
  BY <1>1, <1>2, <1>3 DEF ProxyStep

LEMMA TypeInit == Init => TypeOK
<1> SUFFICES ASSUME Init PROVE TypeOK
  OBVIOUS
<1>1. <<>> \in Seq([seq: Nat, by: Waiters])
  OBVIOUS
<1>2. outbox \in [Conns -> Seq([seq: Nat, by: Waiters])]
  BY <1>1 DEF Init
<1>3. /\ quality \in [connected: BOOLEAN, fresh: BOOLEAN, failed: BOOLEAN, epoch: Nat]
      /\ vciWriter \in Conns \cup {NoConn} /\ vciConnected \in BOOLEAN /\ epoch \in Nat
      /\ probeTask \in Conns \cup {NoConn} /\ cancelled \in SUBSET Conns /\ sequence \in Nat
      /\ responseFutures \in SUBSET Waiters
  BY DEF Init
<1>4. /\ pc \in [Conns -> {"idle", "auth", "replacing", "closing", "done"} \cup Served]
      /\ link \in [Conns -> {"up", "eof", "lost", "closed"}]
  BY DEF Init
<1>5. /\ oldWriter \in [Conns -> Conns \cup {NoConn}]
      /\ awaited \in [Conns -> Conns \cup {NoConn}]
      /\ localEpoch \in [Conns -> Nat]
  BY DEF Init
<1>6. /\ probe \in [Conns -> {"none", "new", "sleeping", "locking", "draining", "waiting", "done"}]
      /\ proxy \in [Proxies -> {"idle", "gate", "woken", "reading", "locking",
                                "draining", "waiting", "closed"}]
  BY DEF Init
<1>7. /\ wseq \in [Waiters -> Nat]
      /\ fut \in [Waiters -> {"none", "pending", "result", "failed", "cancelled"}]
      /\ writtenTo \in [Waiters -> Conns \cup {NoConn}]
  BY DEF Init
<1> QED
  BY <1>2, <1>3, <1>4, <1>5, <1>6, <1>7 DEF TypeOK

LEMMA TypeStep == TypeOK /\ [Next]_vars => TypeOK'
<1> SUFFICES ASSUME TypeOK, [Next]_vars PROVE TypeOK'
  OBVIOUS
<1>1. CASE UNCHANGED vars
  BY <1>1 DEF vars, TypeOK, handlerVars, tunnelVars, probeVars, futureVars, requestVars
<1>2. CASE Environment
  <2>1. CASE QualityAges
    BY <2>1 DEF QualityAges, TypeOK, handlerVars, tunnelVars, probeVars, futureVars, requestVars
  <2>2. CASE \E c \in Conns : LinkEof(c) \/ LinkLost(c)
    <3>0. PICK c \in Conns : LinkEof(c) \/ LinkLost(c)
      BY <2>2
    <3>1. link' \in [Conns -> {"up", "eof", "lost", "closed"}]
      <4>1. PICK s \in {"eof", "lost"} : link' = [link EXCEPT ![c] = s]
        BY <3>0 DEF LinkEof, LinkLost
      <4> QED
        BY <4>1 DEF TypeOK
    <3>2. UNCHANGED <<handlerVars, tunnelVars, probeVars, proxy, futureVars, requestVars>>
      BY <3>0 DEF LinkEof, LinkLost
    <3> QED
      BY <3>1, <3>2 DEF TypeOK, handlerVars, tunnelVars, probeVars, futureVars, requestVars
  <2> QED
    BY <1>2, <2>1, <2>2 DEF Environment
<1> QED
  BY <1>1, <1>2, HandlerTypeStep, ProbeTypeStep, WaiterTypeStep, ProxyTypeStep DEF Next

(* Every state of the server is typed.                                     *)
THEOREM TypeCorrect == Spec => []TypeOK
  BY TypeInit, TypeStep, PTL DEF Spec

-----------------------------------------------------------------------------
(* Ownership of the tunnel.                                                *)

(* The current writer's handler is in its read loop, at the newest epoch,  *)
(* or is tearing the tunnel down, and then vci_connected is cleared.       *)
OwnerInv ==
    vciWriter # NoConn =>
        /\ pc[vciWriter] \in Served \cup {"closing"}
        /\ localEpoch[vciWriter] = epoch
        /\ pc[vciWriter] = "closing" => ~vciConnected

LEMMA OwnerGives == OwnerInv => ConnectedTunnelIsServed
  BY DEF OwnerInv, ConnectedTunnelIsServed

LEMMA InstallOwner ==
  ASSUME TypeOK, NEW c \in Conns, Install(c)
  PROVE  OwnerInv'
  BY DEF TypeOK, Install, OwnerInv, Served

(* Leaving the read loop gives the tunnel up or keeps it as "closing".     *)
LEMMA ExitOwner ==
  ASSUME TypeOK, OwnerInv, NEW c \in Conns, NEW R, NEW f, Exit(c, R, f)
  PROVE  OwnerInv'
<1>1. CASE TeardownBegins(c, R, f)
  BY <1>1 DEF TeardownBegins, TypeOK, OwnerInv
<1>2. CASE TeardownAtOnce(c, R, f)
  BY <1>2 DEF TeardownAtOnce, OwnerInv
<1>3. CASE LeaveToNewOwner(c, R, f)
  BY <1>3 DEF LeaveToNewOwner, Leave, tunnelVars, TypeOK, OwnerInv
<1> QED
  BY <1>1, <1>2, <1>3 DEF Exit

(* A step that leaves the handlers and the tunnel alone.                   *)
LEMMA OwnerStable ==
  ASSUME OwnerInv, UNCHANGED <<pc, localEpoch, vciWriter, vciConnected, epoch>>
  PROVE  OwnerInv'
  BY DEF OwnerInv

LEMMA HandlerOwner ==
  ASSUME TypeOK, OwnerInv, NEW c \in Conns, HandlerStep(c)
  PROVE  OwnerInv'
<1>1. CASE VciConnect(c) \/ AuthFails(c) \/ RejectTunnel(c)
  <2>1. pc[c] \in {"idle", "auth"} /\ UNCHANGED <<localEpoch, vciWriter, vciConnected, epoch>>
    BY <1>1 DEF VciConnect, AuthFails, RejectTunnel, Leave, tunnelVars
  <2>2. \A d \in Conns \ {c} : pc'[d] = pc[d]
    BY <1>1 DEF VciConnect, AuthFails, RejectTunnel, Leave, TypeOK
  <2> QED
    BY <2>1, <2>2 DEF OwnerInv, Served, TypeOK
<1>2. CASE AcceptFirstTunnel(c) \/ ReplaceTunnel(c) \/ ReplaceResumes(c)
  BY <1>2, InstallOwner DEF AcceptFirstTunnel, ReplaceTunnel, ReplaceResumes
<1>3. CASE ReplaceBegins(c)
  BY <1>3 DEF ReplaceBegins, OwnerInv, Served, TypeOK
<1>4. CASE TeardownResumes(c)
  BY <1>4 DEF TeardownResumes, OwnerInv
<1>5. CASE ReadFails(c) \/ ResponseTooLate(c) \/ AckFails(c)
  <2>1. \E R, f : Exit(c, R, f)
    BY <1>5 DEF ReadFails, ResponseTooLate, AckFails
  <2> QED
    BY <2>1, ExitOwner
<1>6. CASE ResponseResolves(c) \/ ResponseUnknown(c)
  BY <1>6, OwnerStable DEF ResponseResolves, ResponseUnknown, handlerVars, tunnelVars
<1>7. CASE HeartbeatBlocks(c) \/ AckWritten(c) \/ AckDrained(c)
  <2>1. pc[c] \in Served /\ UNCHANGED <<localEpoch, vciWriter, vciConnected, epoch>>
    BY <1>7 DEF HeartbeatBlocks, AckWritten, AckDrained, Served, tunnelVars
  <2>2. pc'[c] \in Served /\ \A d \in Conns \ {c} : pc'[d] = pc[d]
    BY <1>7 DEF HeartbeatBlocks, AckWritten, AckDrained, Served, TypeOK
  <2> QED
    BY <2>1, <2>2 DEF OwnerInv, Served, TypeOK
<1> QED
  BY <1>1, <1>2, <1>3, <1>4, <1>5, <1>6, <1>7 DEF HandlerStep

LEMMA OwnerStep == TypeOK /\ OwnerInv /\ [Next]_vars => OwnerInv'
<1> SUFFICES ASSUME TypeOK, OwnerInv, [Next]_vars PROVE OwnerInv'
  OBVIOUS
<1>1. CASE UNCHANGED vars
  BY <1>1, OwnerStable DEF vars, handlerVars, tunnelVars
<1>2. CASE Environment
  BY <1>2, OwnerStable DEF Environment, QualityAges, LinkEof, LinkLost, handlerVars, tunnelVars
<1>3. ASSUME NEW c \in Conns, ProbeStep(c)
      PROVE  OwnerInv'
  BY <1>3, OwnerStable
     DEF ProbeStep, ProbeSends, ProbeLoopEnds, ProbeFailsAtOnce, ProbeForwardFails, ProbeEnds,
         ProbeCancelled, CancellationLost, Sends, ProbeSleeps, handlerVars, tunnelVars
<1>4. ASSUME NEW w \in Waiters, WaiterStep(w)
      PROVE  OwnerInv'
  BY <1>4, OwnerStable DEF WaiterStep, Forward, Drained, TimesOut, handlerVars, tunnelVars
<1>5. ASSUME NEW p \in Proxies, ProxyStep(p)
      PROVE  OwnerInv'
  BY <1>5, OwnerStable
     DEF ProxyStep, ProxyConnect, ProxyWakes, ProxyEof, ProxySends, ProxyFailsAtOnce,
         ProxyForwardFails, ProxyReplies, ProxyGivesUp, Sends, ProxyMoves, handlerVars, tunnelVars
<1> QED
  BY <1>1, <1>2, <1>3, <1>4, <1>5, HandlerOwner DEF Next

LEMMA OwnerAlways == Spec => []OwnerInv
<1>1. Init => OwnerInv
  BY DEF Init, OwnerInv
<1> QED
  BY <1>1, OwnerStep, TypeCorrect, PTL DEF Spec

(* The current writer has the newest epoch and a live handler, which reads *)
(* answers while vci_connected is set, however handlers overtake each other.*)
THEOREM TunnelServed == Spec => []ConnectedTunnelIsServed
  BY OwnerAlways, OwnerGives, PTL

-----------------------------------------------------------------------------
(* Futures: none is lost, and every answer goes to the task that asked.    *)

(* Exactly the tasks in a request hold a future; a pending one is in the   *)
(* registry; a connection without a tunnel of its own runs no probe.       *)
FutureInv ==
    /\ \A w \in Waiters : Stage(w) \in InFlight <=> fut[w] # "none"
    /\ \A w \in Waiters : fut[w] = "pending" => w \in responseFutures
    /\ \A w \in responseFutures : fut[w] \in {"pending", "cancelled"}
    /\ \A c \in Conns : pc[c] \in {"idle", "auth", "replacing"} => probe[c] \in {"none", "done"}

LEMMA FutureGives == TypeOK /\ FutureInv => FuturesReachable
  BY DEF TypeOK, FutureInv, FuturesReachable

(* The futures and the registry a disconnection leaves.                    *)
Sound(R, f) ==
    /\ \A w \in Waiters : f[w] # "none" <=> fut[w] # "none"
    /\ \A w \in Waiters : f[w] = "pending" => w \in R
    /\ \A w \in R : f[w] \in {"pending", "cancelled"}

LEMMA FailPendingSound ==
  ASSUME NEW R, NEW f,
         \A w \in Waiters : f[w] # "none" <=> fut[w] # "none",
         \A w \in Waiters : f[w] = "pending" => w \in R
  PROVE  Sound({}, FailPending(R, f))
  BY DEF Sound, FailPending

LEMMA CancelAwaitedSound ==
  ASSUME TypeOK, probeTask \in Conns, NEW R, NEW f \in [Waiters -> FutureStates], Sound(R, f),
         NEW g \in CancelAwaitedFuture(f)
  PROVE  Sound(R, g)
<1>1. CASE g = f
  BY <1>1
<1>2. CASE f[probeTask] = "pending" /\ g = [f EXCEPT ![probeTask] = "cancelled"]
  <2>1. probeTask \in Waiters
    BY DEF Waiters
  <2>2. \A w \in Waiters : g[w] = IF w = probeTask THEN "cancelled" ELSE f[w]
    BY <1>2
  <2>3. \A w \in R : g[w] = f[w] \/ (w = probeTask /\ g[w] = "cancelled") \/ w \notin Waiters
    BY <2>2
  <2>4. \A w \in R : w \notin Waiters => g[w] = f[w]
    BY <1>2, <2>1
  <2> QED
    BY <1>2, <2>1, <2>2, <2>3, <2>4 DEF Sound
<1> QED
  BY <1>1, <1>2 DEF CancelAwaitedFuture

(* A handler leaves its read loop.                                         *)
LEMMA ExitSound ==
  ASSUME TypeOK, NEW c \in Conns, NEW R \in SUBSET Waiters,
         NEW f \in [Waiters -> FutureStates], Sound(R, f), Exit(c, R, f)
  PROVE  Sound(responseFutures', fut')
<1>1. Sound({}, FailPending(R, f)) /\ FailPending(R, f) \in [Waiters -> FutureStates]
  BY FailPendingSound, FailPendingType DEF Sound
<1>2. CASE TeardownBegins(c, R, f)
  <2>1. probeTask \in Conns
    BY <1>2 DEF TeardownBegins, ProbeRunning, TypeOK
  <2> QED
    BY <1>1, <1>2, <2>1, CancelAwaitedSound DEF TeardownBegins
<1>3. CASE TeardownAtOnce(c, R, f)
  BY <1>1, <1>3 DEF TeardownAtOnce
<1>4. CASE LeaveToNewOwner(c, R, f)
  BY <1>4 DEF LeaveToNewOwner
<1> QED
  BY <1>2, <1>3, <1>4 DEF Exit

LEMMA ExitFutures ==
  ASSUME TypeOK, FutureInv, NEW c \in Conns, pc[c] \in Served,
         NEW R \in SUBSET Waiters, NEW f \in [Waiters -> FutureStates], Sound(R, f),
         Exit(c, R, f)
  PROVE  FutureInv'
<1>1. UNCHANGED <<probe, proxy>>
  BY DEF Exit, TeardownBegins, TeardownAtOnce, LeaveToNewOwner, probeVars
<1>2. pc'[c] \in {"closing", "done"} /\ \A d \in Conns \ {c} : pc'[d] = pc[d]
  BY DEF Exit, TeardownBegins, TeardownAtOnce, LeaveToNewOwner, Leave, TypeOK
<1>3. \A w \in Waiters : Stage(w)' = Stage(w)
  BY <1>1 DEF Stage
<1> QED
  BY <1>1, <1>2, <1>3, ExitSound DEF FutureInv, Sound

(* A new owner takes over.                                                 *)
LEMMA InstallFutures ==
  ASSUME TypeOK, FutureInv, NEW c \in Conns, pc[c] \in {"auth", "replacing"}, Install(c),
         Sound(responseFutures', fut')
  PROVE  FutureInv'
<1> USE ServerAssumption
<1>1. probe[c] \in {"none", "done"} /\ fut[c] = "none"
  BY DEF FutureInv, Stage, InFlight, Waiters
<1>2. \A w \in Waiters : Stage(w)' \in InFlight <=> Stage(w) \in InFlight
  BY <1>1 DEF Stage, Install, TypeOK, InFlight, Waiters
<1>3. \A d \in Conns : pc'[d] \in {"idle", "auth", "replacing"} => probe'[d] \in {"none", "done"}
  BY <1>1 DEF Install, TypeOK, FutureInv
<1> QED
  BY <1>2, <1>3 DEF FutureInv, Sound

LEMMA FutureStable ==
  ASSUME FutureInv, UNCHANGED <<pc, probe, proxy, fut, responseFutures>>
  PROVE  FutureInv'
  BY DEF FutureInv, Stage

LEMMA HandlerFutures ==
  ASSUME TypeOK, FutureInv, NEW c \in Conns, HandlerStep(c)
  PROVE  FutureInv'
<1>0. /\ Sound(responseFutures, fut)
      /\ responseFutures \in SUBSET Waiters /\ fut \in [Waiters -> FutureStates]
  BY DEF FutureInv, Sound, TypeOK, FutureStates
<1>1. CASE VciConnect(c) \/ AuthFails(c) \/ RejectTunnel(c)
  <2>1. pc[c] \in {"idle", "auth"} /\ UNCHANGED <<probe, proxy, fut, responseFutures>>
    BY <1>1 DEF VciConnect, AuthFails, RejectTunnel, probeVars, futureVars
  <2>2. \A d \in Conns : pc'[d] \in {"idle", "auth", "replacing"} => pc[d] \in {"idle", "auth", "replacing"}
    BY <1>1 DEF VciConnect, AuthFails, RejectTunnel, Leave, TypeOK
  <2> QED
    BY <2>1, <2>2 DEF FutureInv, Stage
<1>2. CASE AcceptFirstTunnel(c)
  BY <1>0, <1>2, InstallFutures DEF AcceptFirstTunnel, futureVars, Sound
<1>3. CASE ReplaceTunnel(c) \/ ReplaceResumes(c)
  <2>1. Sound({}, FailPending(responseFutures, fut))
    BY <1>0, FailPendingSound DEF Sound
  <2>2. Sound(responseFutures', fut')
    BY <1>3, <2>1 DEF ReplaceTunnel, ReplaceResumes, Sound, FailPending
  <2> QED
    BY <1>3, <2>2, InstallFutures DEF ReplaceTunnel, ReplaceResumes
<1>4. CASE ReplaceBegins(c)
  <2>1. probeTask \in Conns
    BY <1>4 DEF ReplaceBegins, ProbeRunning, TypeOK
  <2>2. Sound(responseFutures, fut')
    BY <1>0, <1>4, <2>1, CancelAwaitedSound DEF ReplaceBegins
  <2>3. UNCHANGED <<probe, proxy, responseFutures>> /\ pc[c] = "auth"
        /\ \A d \in Conns \ {c} : pc'[d] = pc[d]
    BY <1>4 DEF ReplaceBegins, TypeOK
  <2> QED
    BY <2>2, <2>3 DEF FutureInv, Stage, Sound
<1>5. CASE TeardownResumes(c)
  <2>1. /\ UNCHANGED <<probe, proxy, fut, responseFutures>>
        /\ pc'[c] = "done" /\ \A d \in Conns \ {c} : pc'[d] = pc[d]
    BY <1>5 DEF TeardownResumes, TypeOK, probeVars, futureVars
  <2> QED
    BY <2>1 DEF FutureInv, Stage
<1>6. CASE ReadFails(c) \/ AckFails(c)
  BY <1>0, <1>6, ExitFutures DEF ReadFails, AckFails, Served
<1>7. CASE ResponseResolves(c)
  <2>1. PICK w \in Waiters :
           /\ w \in responseFutures /\ fut[w] = "pending"
           /\ responseFutures' = responseFutures \ {w}
           /\ fut' = [fut EXCEPT ![w] = "result"]
    BY <1>0, <1>7 DEF ResponseResolves, Registered
  <2>2. UNCHANGED <<pc, probe, proxy>>
    BY <1>7 DEF ResponseResolves, handlerVars, probeVars
  <2> QED
    BY <1>0, <2>1, <2>2 DEF FutureInv, Stage, Sound
<1>8. CASE ResponseUnknown(c)
  BY <1>8, FutureStable DEF ResponseUnknown, handlerVars, probeVars, futureVars
<1>9. CASE ResponseTooLate(c)
  <2>1. PICK w \in Waiters : fut[w] # "pending" /\ Exit(c, responseFutures \ {w}, fut)
    BY <1>0, <1>9 DEF ResponseTooLate, Registered
  <2>2. Sound(responseFutures \ {w}, fut) /\ responseFutures \ {w} \in SUBSET Waiters
    BY <1>0, <2>1 DEF Sound
  <2> QED
    BY <1>0, <1>9, <2>1, <2>2, ExitFutures DEF ResponseTooLate, TakeResponse, Served
<1>10. CASE HeartbeatBlocks(c) \/ AckWritten(c) \/ AckDrained(c)
  <2>1. /\ UNCHANGED <<probe, proxy, fut, responseFutures>>
        /\ pc'[c] \in Served /\ \A d \in Conns \ {c} : pc'[d] = pc[d]
    BY <1>10 DEF HeartbeatBlocks, AckWritten, AckDrained, TypeOK, Served, probeVars, futureVars
  <2> QED
    BY <2>1 DEF FutureInv, Stage, Served
<1> QED
  BY <1>1, <1>2, <1>3, <1>4, <1>5, <1>6, <1>7, <1>8, <1>9, <1>10 DEF HandlerStep

(* A task moves to another stage of its request.                           *)
LEMMA MoveToStage ==
  ASSUME TypeOK, NEW w \in Waiters, NEW s, MoveTo(w, s)
  PROVE  /\ Stage(w)' = s
         /\ \A v \in Waiters \ {w} : Stage(v)' = Stage(v)
         /\ w \in Conns => probe' = [probe EXCEPT ![w] = s]
         /\ w \notin Conns => UNCHANGED probe
  BY DEF TypeOK, MoveTo, Stage, Waiters

(* No probe starts on a connection without a tunnel of its own.            *)
NoneStarted == \A c \in Conns : probe[c] \in {"none", "done"} => probe'[c] \in {"none", "done"}

(* A task leaves its request, and its future with it.                      *)
LEMMA ForgetFutures ==
  ASSUME TypeOK, FutureInv, NEW w \in Waiters, Forget(w), UNCHANGED pc,
         Stage(w)' \notin InFlight, \A v \in Waiters \ {w} : Stage(v)' = Stage(v),
         NoneStarted
  PROVE  FutureInv'
<1>1. /\ fut'[w] = "none" /\ \A v \in Waiters \ {w} : fut'[v] = fut[v]
      /\ responseFutures' = responseFutures \ {w} /\ responseFutures \subseteq Waiters
  BY DEF Forget, TypeOK
<1>2. \A v \in Waiters : Stage(v)' \in InFlight <=> fut'[v] # "none"
  BY <1>1 DEF FutureInv
<1>3. /\ \A v \in Waiters : fut'[v] = "pending" => v \in responseFutures'
      /\ \A v \in responseFutures' : fut'[v] \in {"pending", "cancelled"}
  BY <1>1 DEF FutureInv
<1>4. \A c \in Conns : pc'[c] \in {"idle", "auth", "replacing"} => probe'[c] \in {"none", "done"}
  BY DEF FutureInv, NoneStarted
<1> QED
  BY <1>2, <1>3, <1>4 DEF FutureInv

LEMMA SendsFutures ==
  ASSUME TypeOK, FutureInv, NEW w \in Waiters, Sends(w),
         w \in Conns => probe[w] \notin {"none", "done"}
  PROVE  FutureInv'
<1>1. NewRequest(w) /\ UNCHANGED pc
  BY DEF Sends, handlerVars
<1>2. PICK s \in InFlight : MoveTo(w, s)
  BY DEF Sends, InFlight
<1>3. /\ fut'[w] = "pending" /\ \A v \in Waiters \ {w} : fut'[v] = fut[v]
      /\ responseFutures' = responseFutures \cup {w} /\ responseFutures \subseteq Waiters
  BY <1>1 DEF NewRequest, TypeOK
<1>4. NoneStarted
  <2>1. CASE w \in Conns
    <3>1. probe' = [probe EXCEPT ![w] = s]
      BY <1>2, <2>1, MoveToStage
    <3> QED
      BY <3>1 DEF NoneStarted
  <2>2. CASE w \notin Conns
    <3>1. UNCHANGED probe
      BY <1>2, <2>2, MoveToStage
    <3> QED
      BY <3>1 DEF NoneStarted
  <2> QED
    BY <2>1, <2>2
<1>5. Stage(w)' \in InFlight /\ \A v \in Waiters \ {w} : Stage(v)' = Stage(v)
  BY <1>2, MoveToStage
<1>6. \A v \in Waiters : Stage(v)' \in InFlight <=> fut'[v] # "none"
  BY <1>3, <1>5 DEF FutureInv
<1>7. /\ \A v \in Waiters : fut'[v] = "pending" => v \in responseFutures'
      /\ \A v \in responseFutures' : fut'[v] \in {"pending", "cancelled"}
  BY <1>3 DEF FutureInv
<1>8. \A c \in Conns : pc'[c] \in {"idle", "auth", "replacing"} => probe'[c] \in {"none", "done"}
  BY <1>1, <1>4 DEF FutureInv, NoneStarted
<1> QED
  BY <1>6, <1>7, <1>8 DEF FutureInv

LEMMA ProbeFutures ==
  ASSUME TypeOK, FutureInv, NEW c \in Conns, ProbeStep(c)
  PROVE  FutureInv'
<1> USE ServerAssumption
<1>0. c \in Waiters /\ \A p \in Proxies : p \notin Conns
  BY DEF Waiters
<1>1. CASE ProbeSends(c)
  BY <1>0, <1>1, SendsFutures DEF ProbeSends, AtLoopTop
<1>2. CASE ProbeLoopEnds(c) \/ ProbeFailsAtOnce(c)
  <2>1. PICK s \in {"done", "sleeping"} : probe' = [probe EXCEPT ![c] = s]
    BY <1>2 DEF ProbeLoopEnds, ProbeFailsAtOnce, ProbeSleeps
  <2>2. UNCHANGED <<pc, proxy, fut, responseFutures>> /\ probe[c] \in {"new", "sleeping"}
    BY <1>2 DEF ProbeLoopEnds, ProbeFailsAtOnce, ProbeSleeps, SpendSequence, AtLoopTop,
                handlerVars, futureVars
  <2>3. \A w \in Waiters : Stage(w)' \in InFlight <=> Stage(w) \in InFlight
    BY <1>0, <2>1, <2>2 DEF Stage, InFlight, TypeOK, Waiters
  <2> QED
    BY <2>1, <2>2, <2>3 DEF FutureInv, TypeOK
<1>3. CASE ProbeForwardFails(c) \/ ProbeEnds(c) \/ ProbeCancelled(c)
  <2>1. PICK s \in {"done", "sleeping"} : probe' = [probe EXCEPT ![c] = s]
    BY <1>3 DEF ProbeForwardFails, ProbeEnds, ProbeCancelled, ProbeSleeps
  <2>2. UNCHANGED <<pc, proxy>> /\ Forget(c)
    BY <1>3 DEF ProbeForwardFails, ProbeEnds, ProbeCancelled, ProbeSleeps, handlerVars
  <2>3. Stage(c)' \notin InFlight /\ \A v \in Waiters \ {c} : Stage(v)' = Stage(v)
    BY <1>0, <2>1, <2>2 DEF Stage, InFlight, TypeOK, Waiters
  <2>4. NoneStarted
    <3>1. probe[c] \in {"none", "done"} => s = "done"
      BY <1>0, <1>3, <2>1 DEF ProbeForwardFails, ProbeEnds, ProbeCancelled, ForwardRaises, Stage,
                              ProbeSleeps, TypeOK
    <3> QED
      BY <2>1, <3>1 DEF NoneStarted, TypeOK
  <2> QED
    BY <1>0, <2>2, <2>3, <2>4, ForgetFutures
<1>4. CASE CancellationLost(c)
  BY <1>4, FutureStable DEF CancellationLost, handlerVars, futureVars
<1> QED
  BY <1>1, <1>2, <1>3, <1>4 DEF ProbeStep

LEMMA WaiterFutures ==
  ASSUME TypeOK, FutureInv, NEW w \in Waiters, WaiterStep(w)
  PROVE  FutureInv'
<1>1. CASE Forward(w) \/ Drained(w)
  <2>1. PICK s \in InFlight : MoveTo(w, s)
    BY <1>1 DEF Forward, Drained, InFlight
  <2>2. UNCHANGED <<pc, fut, responseFutures>> /\ Stage(w) \in {"locking", "draining"}
    BY <1>1 DEF Forward, Drained, handlerVars, futureVars
  <2>3. \A v \in Waiters : Stage(v)' \in InFlight <=> Stage(v) \in InFlight
    BY <2>1, <2>2, MoveToStage DEF InFlight
  <2>4. NoneStarted
    <3>1. CASE w \in Conns
      <4>1. probe' = [probe EXCEPT ![w] = s] /\ probe[w] \notin {"none", "done"}
        BY <2>1, <2>2, <3>1, MoveToStage DEF Stage
      <4> QED
        BY <4>1 DEF NoneStarted
    <3>2. CASE w \notin Conns
      <4>1. UNCHANGED probe
        BY <2>1, <3>2, MoveToStage
      <4> QED
        BY <4>1 DEF NoneStarted
    <3> QED
      BY <3>1, <3>2
  <2> QED
    BY <2>2, <2>3, <2>4 DEF FutureInv, NoneStarted
<1>2. CASE TimesOut(w)
  <2>1. UNCHANGED <<pc, probe, proxy, responseFutures>> /\ fut[w] = "pending"
        /\ fut' = [fut EXCEPT ![w] = "cancelled"]
    BY <1>2 DEF TimesOut, handlerVars, probeVars
  <2>2. fut'[w] = "cancelled" /\ \A v \in Waiters \ {w} : fut'[v] = fut[v]
    BY <2>1 DEF TypeOK
  <2> QED
    BY <2>1, <2>2 DEF FutureInv, Stage, TypeOK
<1> QED
  BY <1>1, <1>2 DEF WaiterStep

LEMMA ProxyFutures ==
  ASSUME TypeOK, FutureInv, NEW p \in Proxies, ProxyStep(p)
  PROVE  FutureInv'
<1> USE ServerAssumption
<1>0. p \in Waiters /\ p \notin Conns
  BY DEF Waiters
<1>1. CASE ProxySends(p)
  BY <1>0, <1>1, SendsFutures DEF ProxySends
<1>2. CASE ProxyConnect(p) \/ ProxyWakes(p) \/ ProxyEof(p) \/ ProxyFailsAtOnce(p)
  <2>1. PICK s \in {"gate", "closed", "reading"} : ProxyMoves(p, s)
    BY <1>2, TopOfLoopType DEF ProxyConnect, ProxyWakes, ProxyEof, ProxyFailsAtOnce
  <2>2. /\ proxy[p] \in {"idle", "woken", "reading"}
        /\ UNCHANGED <<pc, probe, fut, responseFutures>> /\ proxy' = [proxy EXCEPT ![p] = s]
    BY <1>2, <2>1 DEF ProxyConnect, ProxyWakes, ProxyEof, ProxyFailsAtOnce, SpendSequence,
                      ProxyMoves, handlerVars, probeVars, futureVars
  <2>3. \A w \in Waiters : Stage(w)' \in InFlight <=> Stage(w) \in InFlight
    BY <1>0, <2>2 DEF Stage, InFlight, TypeOK, Waiters
  <2> QED
    BY <2>2, <2>3 DEF FutureInv
<1>3. CASE ProxyForwardFails(p) \/ ProxyReplies(p) \/ ProxyGivesUp(p)
  <2>1. PICK s \in {"gate", "closed", "reading"} : ProxyMoves(p, s)
    BY <1>3, TopOfLoopType DEF ProxyForwardFails, ProxyReplies, ProxyGivesUp
  <2>2. Forget(p) /\ UNCHANGED <<pc, probe>> /\ proxy' = [proxy EXCEPT ![p] = s]
    BY <1>3, <2>1 DEF ProxyForwardFails, ProxyReplies, ProxyGivesUp, ProxyMoves, handlerVars,
                      probeVars
  <2>3. Stage(p)' \notin InFlight /\ \A v \in Waiters \ {p} : Stage(v)' = Stage(v)
    BY <1>0, <2>2 DEF Stage, InFlight, TypeOK, Waiters
  <2>4. NoneStarted
    BY <2>2 DEF NoneStarted
  <2> QED
    BY <1>0, <2>2, <2>3, <2>4, ForgetFutures
<1> QED
  BY <1>1, <1>2, <1>3 DEF ProxyStep

LEMMA FutureStep == TypeOK /\ FutureInv /\ [Next]_vars => FutureInv'
<1> SUFFICES ASSUME TypeOK, FutureInv, [Next]_vars PROVE FutureInv'
  OBVIOUS
<1>1. CASE UNCHANGED vars
  BY <1>1, FutureStable DEF vars, handlerVars, probeVars, futureVars
<1>2. CASE Environment
  BY <1>2, FutureStable DEF Environment, QualityAges, LinkEof, LinkLost, handlerVars, probeVars,
                            futureVars
<1> QED
  BY <1>1, <1>2, HandlerFutures, ProbeFutures, WaiterFutures, ProxyFutures DEF Next

LEMMA FutureAlways == Spec => []FutureInv
<1>1. Init => FutureInv
  BY DEF Init, FutureInv, Stage, InFlight, Waiters
<1> QED
  BY <1>1, FutureStep, TypeCorrect, PTL DEF Spec

(* No future is lost: a pending one is in the registry, where an answer or *)
(* a disconnection finds it, and only tasks in a request hold one.         *)
THEOREM FuturesAreReachable == Spec => []FuturesReachable
  BY FutureAlways, FutureGives, TypeCorrect, PTL

-----------------------------------------------------------------------------
(* Routing of the answers.                                                 *)

Entries == [seq: Nat, by: Waiters]

(* Request e is on some connection and not answered.                       *)
InTransit(e) == \E c \in Conns : \E i \in DOMAIN outbox[c] : outbox[c][i] = e

(* Numbers in use are not above the sequence, no two tasks hold the same   *)
(* one, and a request in transit has the number of no task but its own.    *)
RoutingInv ==
    /\ \A w \in Waiters : fut[w] # "none" => wseq[w] <= sequence
    /\ \A v, w \in Waiters : fut[v] # "none" /\ fut[w] # "none" /\ wseq[v] = wseq[w] => v = w
    /\ \A e \in Entries : InTransit(e) =>
          /\ e.seq <= sequence
          /\ \A w \in Waiters : fut[w] # "none" /\ wseq[w] = e.seq => w = e.by

LEMMA RoutingGives == TypeOK /\ FutureInv /\ RoutingInv => AnswersAreRouted
<1> SUFFICES ASSUME TypeOK, FutureInv, RoutingInv,
                    NEW c \in Conns, NEW i \in DOMAIN outbox[c], NEW w \in Registered(outbox[c][i])
             PROVE  w = outbox[c][i].by
  BY DEF AnswersAreRouted
<1>1. outbox[c] \in Seq(Entries)
  BY DEF TypeOK, Entries
<1>2. outbox[c][i] \in Entries
  BY <1>1
<1>3. InTransit(outbox[c][i])
  BY DEF InTransit
<1>4. w \in Waiters /\ fut[w] # "none" /\ wseq[w] = outbox[c][i].seq
  BY DEF Registered, TypeOK, FutureInv
<1> QED
  BY <1>2, <1>3, <1>4 DEF RoutingInv

(* What is in transit after a request is written, and after one is read.   *)
LEMMA TransitOfWrite ==
  ASSUME TypeOK, Writable, NEW w \in Waiters, NEW n \in Nat, Write(w, n),
         NEW e \in Entries, InTransit(e)'
  PROVE  InTransit(e) \/ e = [seq |-> n, by |-> w]
<1>0. PICK c \in Conns : \E i \in DOMAIN outbox'[c] : outbox'[c][i] = e
  BY DEF InTransit
<1>1. PICK i \in DOMAIN outbox'[c] : outbox'[c][i] = e
  BY <1>0
<1>2. CASE outbox'[c] = outbox[c]
  BY <1>1, <1>2 DEF InTransit
<1>3. CASE outbox'[c] = Append(outbox[c], [seq |-> n, by |-> w])
  <2>1. outbox[c] \in Seq(Entries) /\ [seq |-> n, by |-> w] \in Entries
    BY DEF TypeOK, Entries
  <2>2. \/ i \in DOMAIN outbox[c] /\ outbox'[c][i] = outbox[c][i]
        \/ outbox'[c][i] = [seq |-> n, by |-> w]
    <3> HIDE DEF Entries
    <3> QED
      BY <1>1, <1>3, <2>1
  <2> QED
    BY <1>1, <2>2 DEF InTransit
<1> QED
  BY <1>2, <1>3 DEF Write, TypeOK

LEMMA TransitOfRead ==
  ASSUME TypeOK, NEW c \in Conns, TakeResponse(c), NEW e \in Entries, InTransit(e)'
  PROVE  InTransit(e)
<1>0. PICK d \in Conns : \E i \in DOMAIN outbox'[d] : outbox'[d][i] = e
  BY DEF InTransit
<1>1. PICK i \in DOMAIN outbox'[d] : outbox'[d][i] = e
  BY <1>0
<1>2. CASE outbox'[d] = outbox[d]
  BY <1>1, <1>2 DEF InTransit
<1>3. CASE outbox'[d] = Tail(outbox[d]) /\ outbox[d] # <<>>
  <2>1. outbox[d] \in Seq(Entries)
    BY DEF TypeOK, Entries
  <2>2. i + 1 \in DOMAIN outbox[d] /\ outbox'[d][i] = outbox[d][i + 1]
    BY <1>1, <1>3, <2>1
  <2> QED
    BY <1>1, <2>2 DEF InTransit
<1> QED
  BY <1>2, <1>3 DEF TakeResponse, TypeOK

(* Nothing new is registered or written.                                   *)
LEMMA RoutingShrinks ==
  ASSUME TypeOK, RoutingInv, sequence' \in Nat, sequence <= sequence',
         \A w \in Waiters : fut'[w] # "none" => fut[w] # "none" /\ wseq'[w] = wseq[w],
         \A e \in Entries : InTransit(e)' => InTransit(e)
  PROVE  RoutingInv'
<1>1. sequence \in Nat /\ \A w \in Waiters : wseq[w] \in Nat
  BY DEF TypeOK
<1>2. \A e \in Entries : e.seq \in Nat
  BY DEF Entries
<1>3. \A w \in Waiters : fut'[w] # "none" => wseq'[w] <= sequence'
  BY <1>1 DEF RoutingInv
<1>4. \A v, w \in Waiters : fut'[v] # "none" /\ fut'[w] # "none" /\ wseq'[v] = wseq'[w] => v = w
  BY DEF RoutingInv
<1>5. ASSUME NEW e \in Entries, InTransit(e)'
      PROVE  /\ e.seq <= sequence'
             /\ \A w \in Waiters : fut'[w] # "none" /\ wseq'[w] = e.seq => w = e.by
  BY <1>1, <1>2, <1>5 DEF RoutingInv
<1> QED
  BY <1>3, <1>4, <1>5 DEF RoutingInv

LEMMA HandlerRouting ==
  ASSUME TypeOK, FutureInv, RoutingInv, NEW c \in Conns, HandlerStep(c)
  PROVE  RoutingInv'
<1>0. /\ Sound(responseFutures, fut) /\ sequence \in Nat
      /\ responseFutures \in SUBSET Waiters /\ fut \in [Waiters -> FutureStates]
  BY DEF FutureInv, Sound, TypeOK, FutureStates
<1>1. UNCHANGED <<sequence, wseq>>
  BY DEF HandlerStep, VciConnect, AuthFails, RejectTunnel, AcceptFirstTunnel, ReplaceTunnel,
         ReplaceBegins, ReplaceResumes, TeardownResumes, ReadFails, ResponseResolves,
         ResponseUnknown, ResponseTooLate, HeartbeatBlocks, AckWritten, AckDrained, AckFails,
         TakeResponse, requestVars
<1>2. outbox' = outbox \/ TakeResponse(c)
  BY DEF HandlerStep, VciConnect, AuthFails, RejectTunnel, AcceptFirstTunnel, ReplaceTunnel,
         ReplaceBegins, ReplaceResumes, TeardownResumes, ReadFails, ResponseResolves,
         ResponseUnknown, ResponseTooLate, HeartbeatBlocks, AckWritten, AckDrained, AckFails,
         requestVars
<1>3. \A e \in Entries : InTransit(e)' => InTransit(e)
  <2>1. CASE outbox' = outbox
    BY <2>1 DEF InTransit
  <2> QED
    BY <1>2, <2>1, TransitOfRead
<1>4. \A w \in Waiters : fut'[w] # "none" => fut[w] # "none"
  <2>1. CASE ReadFails(c) \/ AckFails(c)
    BY <1>0, <2>1, ExitSound DEF ReadFails, AckFails, Sound
  <2>2. CASE ResponseTooLate(c)
    <3>1. PICK w \in Waiters : fut[w] # "pending" /\ Exit(c, responseFutures \ {w}, fut)
      BY <1>0, <2>2 DEF ResponseTooLate, Registered
    <3>2. Sound(responseFutures \ {w}, fut) /\ responseFutures \ {w} \in SUBSET Waiters
      BY <1>0, <3>1 DEF Sound
    <3> QED
      BY <1>0, <3>1, <3>2, ExitSound DEF Sound
  <2>3. CASE ResponseResolves(c)
    <3>1. PICK w \in Waiters : fut[w] = "pending" /\ fut' = [fut EXCEPT ![w] = "result"]
      BY <1>0, <2>3 DEF ResponseResolves, Registered
    <3> QED
      BY <1>0, <3>1
  <2>4. CASE ReplaceTunnel(c) \/ ReplaceResumes(c)
    BY <2>4 DEF ReplaceTunnel, ReplaceResumes, FailPending
  <2>5. CASE ReplaceBegins(c)
    <3>1. probeTask \in Conns
      BY <2>5 DEF ReplaceBegins, ProbeRunning, TypeOK
    <3> QED
      BY <1>0, <2>5, <3>1, CancelAwaitedSound DEF ReplaceBegins, Sound
  <2>6. CASE fut' = fut
    BY <2>6
  <2> QED
    BY <2>1, <2>2, <2>3, <2>4, <2>5, <2>6
       DEF HandlerStep, VciConnect, AuthFails, RejectTunnel, AcceptFirstTunnel, TeardownResumes,
           ResponseUnknown, HeartbeatBlocks, AckWritten, AckDrained, futureVars
<1> QED
  BY <1>0, <1>1, <1>3, <1>4, RoutingShrinks

(* A task that leaves its request, or loses only the number it would have  *)
(* given to one.                                                           *)
LEMMA ForgetRouting ==
  ASSUME TypeOK, RoutingInv, NEW w \in Waiters, Forget(w), UNCHANGED sequence
  PROVE  RoutingInv'
<1>1. /\ \A v \in Waiters : fut'[v] # "none" => fut[v] # "none" /\ wseq'[v] = wseq[v]
      /\ outbox' = outbox /\ sequence \in Nat /\ sequence' = sequence
  BY DEF Forget, TypeOK
<1>2. \A e \in Entries : InTransit(e)' => InTransit(e)
  BY <1>1 DEF InTransit
<1> QED
  BY <1>1, <1>2, RoutingShrinks

LEMMA SpendRouting ==
  ASSUME TypeOK, RoutingInv, SpendSequence
  PROVE  RoutingInv'
<1>1. /\ UNCHANGED <<fut, wseq, outbox>> /\ sequence \in Nat /\ sequence' = sequence + 1
  BY DEF SpendSequence, TypeOK, futureVars
<1>2. \A e \in Entries : InTransit(e)' => InTransit(e)
  BY <1>1 DEF InTransit
<1> QED
  BY <1>1, <1>2, RoutingShrinks

(* A step that touches neither numbers nor futures nor the connections.    *)
LEMMA RoutingStable ==
  ASSUME RoutingInv, UNCHANGED <<fut, sequence, wseq, outbox>>
  PROVE  RoutingInv'
  BY DEF RoutingInv, InTransit

(* The number of a new request is above every number in use.               *)
LEMMA SendsRouting ==
  ASSUME TypeOK, RoutingInv, NEW w \in Waiters, Sends(w)
  PROVE  RoutingInv'
<1> DEFINE n == sequence + 1
<1>1. /\ sequence \in Nat /\ sequence' = n /\ n \in Nat
      /\ fut'[w] = "pending" /\ wseq'[w] = n
      /\ \A v \in Waiters \ {w} : fut'[v] = fut[v] /\ wseq'[v] = wseq[v]
      /\ \A v \in Waiters : wseq[v] \in Nat
  BY DEF Sends, NewRequest, TypeOK
<1>2. \A e \in Entries : e.seq \in Nat
  BY DEF Entries
<1>3. \A e \in Entries : InTransit(e)' => InTransit(e) \/ e = [seq |-> n, by |-> w]
  <2>1. CASE Writable /\ Write(w, n)
    BY <1>1, <2>1, TransitOfWrite
  <2>2. CASE outbox' = outbox
    BY <2>2 DEF InTransit
  <2> QED
    BY <2>1, <2>2 DEF Sends
<1> HIDE DEF n
<1>4. \A v \in Waiters : fut'[v] # "none" => wseq'[v] <= sequence'
  BY <1>1 DEF RoutingInv, n
<1>5. \A v \in Waiters \ {w} : fut[v] # "none" => wseq[v] < n
  BY <1>1 DEF RoutingInv, n
<1>6. \A v, u \in Waiters : fut'[v] # "none" /\ fut'[u] # "none" /\ wseq'[v] = wseq'[u] => v = u
  BY <1>1, <1>5 DEF RoutingInv
<1>7. ASSUME NEW e \in Entries, InTransit(e)'
      PROVE  /\ e.seq <= sequence'
             /\ \A v \in Waiters : fut'[v] # "none" /\ wseq'[v] = e.seq => v = e.by
  <2>1. CASE InTransit(e)
    <3>1. /\ e.seq < n
          /\ \A v \in Waiters : fut[v] # "none" /\ wseq[v] = e.seq => v = e.by
      BY <1>1, <1>2, <2>1 DEF RoutingInv, n
    <3> QED
      BY <1>1, <1>2, <3>1
  <2>2. CASE e = [seq |-> n, by |-> w]
    BY <1>1, <1>5, <2>2
  <2> QED
    BY <1>3, <1>7, <2>1, <2>2
<1> QED
  BY <1>4, <1>6, <1>7 DEF RoutingInv

(* A request that waited for vci_lock is written under its own number.     *)
LEMMA ForwardRouting ==
  ASSUME TypeOK, FutureInv, RoutingInv, NEW w \in Waiters, Forward(w)
  PROVE  RoutingInv'
<1>1. /\ UNCHANGED <<sequence, wseq, fut>> /\ Writable /\ Write(w, wseq[w])
      /\ fut[w] # "none" /\ wseq[w] \in Nat
  BY DEF Forward, FutureInv, InFlight, TypeOK, futureVars
<1>2. \A e \in Entries : InTransit(e)' => InTransit(e) \/ e = [seq |-> wseq[w], by |-> w]
  BY <1>1, TransitOfWrite
<1>3. ASSUME NEW e \in Entries, InTransit(e)'
      PROVE  /\ e.seq <= sequence
             /\ \A v \in Waiters : fut[v] # "none" /\ wseq[v] = e.seq => v = e.by
  <2>1. CASE InTransit(e)
    BY <2>1 DEF RoutingInv
  <2>2. CASE e = [seq |-> wseq[w], by |-> w]
    BY <1>1, <2>2 DEF RoutingInv
  <2> QED
    BY <1>2, <1>3, <2>1, <2>2
<1> QED
  BY <1>1, <1>3 DEF RoutingInv

LEMMA RoutingStep == TypeOK /\ FutureInv /\ RoutingInv /\ [Next]_vars => RoutingInv'
<1> SUFFICES ASSUME TypeOK, FutureInv, RoutingInv, [Next]_vars PROVE RoutingInv'
  OBVIOUS
<1>1. CASE UNCHANGED vars
  BY <1>1, RoutingStable DEF vars, futureVars, requestVars
<1>2. CASE Environment
  BY <1>2, RoutingStable DEF Environment, QualityAges, LinkEof, LinkLost, futureVars, requestVars
<1>3. ASSUME NEW c \in Conns, ProbeStep(c)
      PROVE  RoutingInv'
  <2>0. c \in Waiters
    BY DEF Waiters
  <2>1. CASE ProbeSends(c)
    BY <2>0, <2>1, SendsRouting DEF ProbeSends
  <2>2. CASE ProbeFailsAtOnce(c)
    BY <2>2, SpendRouting DEF ProbeFailsAtOnce
  <2>3. CASE ProbeForwardFails(c) \/ ProbeEnds(c) \/ ProbeCancelled(c)
    BY <2>0, <2>3, ForgetRouting DEF ProbeForwardFails, ProbeEnds, ProbeCancelled
  <2>4. CASE ProbeLoopEnds(c) \/ CancellationLost(c)
    BY <2>4, RoutingStable DEF ProbeLoopEnds, CancellationLost, futureVars, requestVars
  <2> QED
    BY <1>3, <2>1, <2>2, <2>3, <2>4 DEF ProbeStep
<1>4. ASSUME NEW w \in Waiters, WaiterStep(w)
      PROVE  RoutingInv'
  <2>1. CASE Drained(w)
    BY <2>1, RoutingStable DEF Drained, futureVars, requestVars
  <2>2. CASE TimesOut(w)
    <3>1. /\ UNCHANGED <<sequence, wseq, outbox>> /\ sequence \in Nat
          /\ \A v \in Waiters : fut'[v] # "none" => fut[v] # "none"
      BY <2>2 DEF TimesOut, requestVars, TypeOK
    <3>2. \A e \in Entries : InTransit(e)' => InTransit(e)
      BY <3>1 DEF InTransit
    <3> QED
      BY <3>1, <3>2, RoutingShrinks
  <2> QED
    BY <1>4, <2>1, <2>2, ForwardRouting DEF WaiterStep
<1>5. ASSUME NEW p \in Proxies, ProxyStep(p)
      PROVE  RoutingInv'
  <2>0. p \in Waiters
    BY DEF Waiters
  <2>1. CASE ProxySends(p)
    BY <2>0, <2>1, SendsRouting DEF ProxySends
  <2>2. CASE ProxyFailsAtOnce(p)
    BY <2>2, SpendRouting DEF ProxyFailsAtOnce
  <2>3. CASE ProxyForwardFails(p) \/ ProxyReplies(p) \/ ProxyGivesUp(p)
    BY <2>0, <2>3, ForgetRouting DEF ProxyForwardFails, ProxyReplies, ProxyGivesUp
  <2>4. CASE ProxyConnect(p) \/ ProxyWakes(p) \/ ProxyEof(p)
    BY <2>4, RoutingStable DEF ProxyConnect, ProxyWakes, ProxyEof, futureVars, requestVars
  <2> QED
    BY <1>5, <2>1, <2>2, <2>3, <2>4 DEF ProxyStep
<1> QED
  BY <1>1, <1>2, <1>3, <1>4, <1>5, HandlerRouting DEF Next

LEMMA RoutingAlways == Spec => []RoutingInv
<1>1. Init => RoutingInv
  BY DEF Init, RoutingInv, InTransit
<1> QED
  BY <1>1, RoutingStep, TypeCorrect, FutureAlways, PTL DEF Spec

(* An answer in transit completes the future of the task that asked for it *)
(* or of nobody, whatever timeouts and replacements happened meanwhile.    *)
THEOREM AnswersRouted == Spec => []AnswersAreRouted
  BY RoutingAlways, FutureAlways, TypeCorrect, RoutingGives, PTL

-----------------------------------------------------------------------------
(* The launch of the worker (PassThru), for any machines and programs.     *)
(*                                                                         *)
(* InLine is what makes LaunchFailsForCause inductive: as long as nothing  *)
(* has been slow, the architecture that loads the DLL is being tried or is *)
(* still to come.                                                          *)

Real == Selected(machine).real
Lists == {<<>>} \cup {<<a>> : a \in Arches} \cup {<<a, b>> : a \in Arches, b \in Arches}
Comes(a, list) == \E i \in 1..Len(list) : list[i] = a

Processes == [arch: Arches \cup {"none"}, state: {"loads", "listens", "serves", "gone"}]
Workers == [pc: {"idle", "spawns", "connects", "up", "failed", "dead"}, left: Lists,
            process: Processes, slow: BOOLEAN]

\* nothing is loaded by what is not of its architecture
Fitted == worker.process.state \in {"listens", "serves"} => worker.process.arch = Real
\* where the controller is says what there is of a process
Followed ==
    /\ worker.pc = "up" => worker.process.state = "serves"
    /\ worker.pc \in {"idle", "spawns", "failed"} => worker.process.state = "gone"
InLine ==
    Selected(machine) # NoDll /\ Real \in Runnable(machine) /\ ~worker.slow =>
       /\ worker.pc = "spawns" => Comes(Real, worker.left)
       /\ worker.pc = "connects" =>
             \/ worker.process.arch = Real /\ worker.process.state # "gone"
             \/ Comes(Real, worker.left)
       /\ worker.pc # "failed"

Installed == \E s \in Settings : machine = s.machine
Launching == Installed /\ worker \in Workers /\ Fitted /\ Followed /\ InLine

LEMMA WhatIsInstalled ==
    ASSUME Installed
    PROVE  /\ machine.python \in Arches
           /\ Selected(machine) # NoDll =>
                Real \in Arches /\ Selected(machine).arch \in {Real, "unknown"}
BY DllAssumption DEF Installed, Real

LEMMA Joined ==
    ASSUME NEW a \in Arches, NEW b \in Arches
    PROVE  <<a>> \o <<b>> = <<a, b>> /\ <<a>> \o <<>> = <<a>>
<1>1. <<a>> \in Seq(Arches) /\ <<b>> \in Seq(Arches) /\ <<a, b>> \in Seq(Arches)
  OBVIOUS
<1> DEFINE j == <<a>> \o <<b>>
<1>2. Len(j) = 2 /\ j[1] = a /\ j[2] = b /\ j \in Seq(Arches)
  BY <1>1
<1> HIDE DEF j
<1>3. j = <<a, b>>
  BY <1>1, <1>2
<1>4. <<a>> \o <<>> = <<a>>
  BY <1>1
<1> QED
  BY <1>3, <1>4 DEF j

LEMMA OtherIs ==
    ASSUME NEW a \in Arches
    PROVE  Other(a) \in Arches /\ Other(a) # a
<1>1. \E b \in Arches : b # a
  BY DEF Arches
<1> QED
  BY <1>1 DEF Other

LEMMA TriedIs ==
    ASSUME NEW m, NEW a \in Arches
    PROVE  Tried(m, a) = (IF a \in Runnable(m) THEN <<a>> ELSE <<>>)
BY DEF Tried

(* What is tried holds the architecture of the DLL if that can be run:     *)
(* _candidate_architectures tries both when the header says nothing.       *)
LEMMA CandidatesHold ==
    ASSUME Installed, Selected(machine) # NoDll
    PROVE  /\ Candidates(machine) \in Lists
           /\ Real \in Runnable(machine) =>
                Candidates(machine) # <<>> /\ Comes(Real, Candidates(machine))
<1> DEFINE m == machine
           p == machine.python
<1>1. p \in Arches /\ Real \in Arches /\ Selected(m).arch \in {Real, "unknown"}
  BY WhatIsInstalled
<1>2. Real # "unknown"
  BY <1>1 DEF Arches
<1>3. CASE Selected(m).arch = Real
  <2>1. Candidates(m) = Tried(m, Real)
    BY <1>2, <1>3 DEF Candidates
  <2>2. Candidates(m) = (IF Real \in Runnable(m) THEN <<Real>> ELSE <<>>)
    BY <2>1 DEF Tried
  <2> QED
    BY <1>1, <2>2 DEF Lists, Comes
<1>4. CASE Selected(m).arch = "unknown"
  <2> DEFINE o == Other(p)
  <2>1. o \in Arches /\ o # p
    BY <1>1, OtherIs
  <2>2. Candidates(m) = Tried(m, p) \o Tried(m, o)
    BY <1>4 DEF Candidates
  <2>3. Tried(m, p) = <<p>>
    BY DEF Tried, Runnable
  <2> HIDE DEF o
  <2>4. Tried(m, o) = <<o>> \/ (o \notin Runnable(m) /\ Tried(m, o) = <<>>)
    BY DEF Tried
  <2>5. Real \in {p, o}
    BY <1>1, <2>1 DEF Arches
  <2>6. CASE Tried(m, o) = <<o>>
    <3>1. Candidates(m) = <<p, o>>
      BY <1>1, <2>1, <2>2, <2>3, <2>6, Joined, Zenon
    <3> QED
      BY <1>1, <2>1, <2>5, <3>1 DEF Lists, Comes
  <2>7. CASE o \notin Runnable(m) /\ Tried(m, o) = <<>>
    <3>1. Candidates(m) = <<p>>
      BY <1>1, <2>1, <2>2, <2>3, <2>7, Joined, Zenon
    <3> QED
      BY <1>1, <2>5, <2>7, <3>1 DEF Lists, Comes
  <2> QED
    BY <2>4, <2>6, <2>7
<1> QED
  BY <1>1, <1>3, <1>4

LEMMA TailOfList ==
    ASSUME NEW l \in Lists, l # <<>>
    PROVE  /\ Tail(l) \in Lists /\ Head(l) \in Arches
           /\ \A a : Comes(a, l) => a = Head(l) \/ Comes(a, Tail(l))
<1>1. CASE \E a \in Arches : l = <<a>>
  <2>1. PICK a \in Arches : l = <<a>>
    BY <1>1
  <2>2. Tail(l) = <<>> /\ Head(l) = a
    BY <2>1
  <2>3. \A b : Comes(b, l) => b = a
    BY <2>1 DEF Comes
  <2> QED
    BY <2>2, <2>3 DEF Lists
<1>2. CASE \E a, b \in Arches : l = <<a, b>>
  <2>1. PICK a \in Arches, b \in Arches : l = <<a, b>>
    BY <1>2
  <2>2. Tail(l) = <<b>> /\ Head(l) = a
    BY <2>1
  <2>3. \A c : Comes(c, l) => c = a \/ c = b
    BY <2>1 DEF Comes
  <2>4. Comes(b, <<b>>)
    BY DEF Comes
  <2>5. Tail(l) \in Lists
    BY <2>2 DEF Lists
  <2> QED
    BY <2>2, <2>3, <2>4, <2>5
<1> QED
  BY <1>1, <1>2 DEF Lists

LEMMA NothingComes == \A a : ~Comes(a, <<>>)
BY DEF Comes

(* The controller's half: J2534WorkerController.start.                     *)
LEMMA LaunchKeeps ==
    ASSUME Launching, Launch
    PROVE  Launching'
<1>0. /\ worker \in Workers /\ machine' = machine
      /\ Runnable(machine') = Runnable(machine) /\ Selected(machine') = Selected(machine)
      /\ Real' = Real /\ Installed'
  BY DEF Launching, Launch, Resolves, Spawns, SpawnFails, Loads, Reaches, SeesExit, GivesUp,
         Apart, Installed, Real
<1>1. CASE Resolves
  <2>1. CASE Selected(machine) = NoDll \/ Candidates(machine) = <<>>
    <3>1. worker' = [worker EXCEPT !.pc = "failed"]
      BY <1>1, <2>1 DEF Resolves
    <3>2. worker' \in Workers /\ worker'.pc = "failed" /\ worker'.process = worker.process
          /\ worker.process.state = "gone" /\ worker'.slow = worker.slow
      BY <1>0, <1>1, <3>1 DEF Workers, Resolves, Launching, Followed
    <3>3. Selected(machine) # NoDll => Real \notin Runnable(machine)
      BY <2>1, CandidatesHold DEF Launching
    <3> QED
      BY <1>0, <3>2, <3>3 DEF Launching, Fitted, Followed, InLine
  <2>2. CASE ~(Selected(machine) = NoDll \/ Candidates(machine) = <<>>)
    <3>1. worker' = [worker EXCEPT !.pc = "spawns", !.left = Candidates(machine)]
      BY <1>1, <2>2 DEF Resolves
    <3>2. Candidates(machine) \in Lists
          /\ (Real \in Runnable(machine) => Comes(Real, Candidates(machine)))
      BY <2>2, CandidatesHold DEF Launching
    <3>3. worker' \in Workers /\ worker'.pc = "spawns" /\ worker'.process = worker.process
          /\ worker'.left = Candidates(machine)
      BY <1>0, <3>1, <3>2 DEF Workers
    <3>4. worker.process.state = "gone"
      BY <1>1 DEF Resolves, Launching, Followed
    <3> QED
      BY <1>0, <3>2, <3>3, <3>4 DEF Launching, Fitted, Followed, InLine
  <2> QED
    BY <2>1, <2>2
<1>2. CASE Spawns
  <2>1. CASE worker.left = <<>>
    <3>1. worker' = [worker EXCEPT !.pc = "failed"]
      BY <1>2, <2>1 DEF Spawns
    <3>2. worker' \in Workers /\ worker'.pc = "failed" /\ worker'.process = worker.process
          /\ worker'.slow = worker.slow
      BY <1>0, <3>1 DEF Workers
    <3>3. worker.pc = "spawns" /\ worker.process.state = "gone" /\ ~Comes(Real, worker.left)
      BY <1>2, <2>1, NothingComes DEF Spawns, Launching, Followed
    <3> QED
      BY <1>0, <3>2, <3>3 DEF Launching, Fitted, Followed, InLine
  <2>2. CASE worker.left # <<>>
    <3> DEFINE l == worker.left
               p == [arch |-> Head(l), state |-> "loads"]
    <3>0. l \in Lists
      BY <1>0 DEF Workers
    <3>1. worker' = [worker EXCEPT !.pc = "connects", !.left = Tail(l), !.process = p]
      BY <1>2, <2>2 DEF Spawns
    <3> HIDE DEF l
    <3>2. Tail(l) \in Lists /\ p \in Processes /\ p.arch = Head(l) /\ p.state = "loads"
          /\ \A a : Comes(a, l) => a = Head(l) \/ Comes(a, Tail(l))
      BY <2>2, <3>0, TailOfList DEF l, Processes
    <3> HIDE DEF p
    <3>3. worker' \in Workers /\ worker'.pc = "connects" /\ worker'.process = p
          /\ worker'.left = Tail(l) /\ worker'.slow = worker.slow
      BY <1>0, <3>1, <3>2 DEF Workers
    <3>4. worker.pc = "spawns"
      BY <1>2 DEF Spawns
    <3> QED
      BY <1>0, <3>2, <3>3, <3>4 DEF l, Launching, Fitted, Followed, InLine
  <2> QED
    BY <2>1, <2>2
<1>3. CASE SpawnFails
  <2>1. worker' = [worker EXCEPT !.left = Tail(@), !.slow = TRUE] /\ worker.left # <<>>
    BY <1>3 DEF SpawnFails
  <2>2. Tail(worker.left) \in Lists
    BY <1>0, <2>1, TailOfList DEF Workers
  <2>3. worker' \in Workers /\ worker'.slow /\ worker'.pc = worker.pc
        /\ worker'.process = worker.process
    BY <1>0, <2>1, <2>2 DEF Workers
  <2> QED
    BY <1>0, <2>3 DEF Launching, Fitted, Followed, InLine
<1>4. CASE Loads
  <2> DEFINE st == IF worker.process.arch = Real THEN "listens" ELSE "gone"
  <2>1. worker' = [worker EXCEPT !.process.state = st] /\ worker.process.state = "loads"
    BY <1>4 DEF Loads, Real
  <2>2. st \in {"listens", "gone"} /\ (st = "listens" <=> worker.process.arch = Real)
    OBVIOUS
  <2> HIDE DEF st
  <2>3. worker' \in Workers /\ worker'.slow = worker.slow /\ worker'.pc = worker.pc
        /\ worker'.left = worker.left
        /\ worker'.process.arch = worker.process.arch /\ worker'.process.state = st
    BY <1>0, <2>1, <2>2 DEF Workers, Processes
  <2>4. worker.pc \notin {"up", "idle", "spawns", "failed"}
    BY <2>1 DEF Launching, Followed
  <2> QED
    BY <1>0, <2>2, <2>3, <2>4 DEF Launching, Fitted, Followed, InLine
<1>5. CASE Reaches
  <2>1. worker' = [worker EXCEPT !.pc = "up", !.process.state = "serves"]
        /\ worker.process.state = "listens"
    BY <1>5 DEF Reaches
  <2>2. worker' \in Workers /\ worker'.pc = "up" /\ worker'.process.state = "serves"
        /\ worker'.process.arch = worker.process.arch
    BY <1>0, <2>1 DEF Workers, Processes
  <2> QED
    BY <1>0, <2>1, <2>2 DEF Launching, Fitted, Followed, InLine
<1>6. CASE SeesExit
  <2>1. worker' = [worker EXCEPT !.pc = "spawns"] /\ worker.process.state = "gone"
        /\ worker.pc = "connects"
    BY <1>6 DEF SeesExit
  <2>2. worker' \in Workers /\ worker'.pc = "spawns" /\ worker'.process = worker.process
        /\ worker'.left = worker.left /\ worker'.slow = worker.slow
    BY <1>0, <2>1 DEF Workers
  <2> QED
    BY <1>0, <2>1, <2>2 DEF Launching, Fitted, Followed, InLine
<1>7. CASE GivesUp
  <2>1. worker' = [worker EXCEPT !.pc = "spawns", !.slow = TRUE, !.process.state = "gone"]
    BY <1>7 DEF GivesUp
  <2>2. worker' \in Workers /\ worker'.pc = "spawns" /\ worker'.slow
        /\ worker'.process.state = "gone"
    BY <1>0, <2>1 DEF Workers, Processes
  <2> QED
    BY <1>0, <2>2 DEF Launching, Fitted, Followed, InLine
<1> QED
  BY <1>1, <1>2, <1>3, <1>4, <1>5, <1>6, <1>7 DEF Launch

LEMMA LaunchingStays ==
    ASSUME Launching, [PassThruNext]_passThruVars
    PROVE  Launching'
<1>1. CASE Launch
  BY <1>1, LaunchKeeps
<1>2. CASE UNCHANGED <<machine, worker>>
  BY <1>2 DEF Launching, Installed, Fitted, Followed, InLine, Comes, Real, Selected, Runnable
<1>3. CASE WorkerCrashes
  <2>1. worker' = [worker EXCEPT !.pc = "dead", !.process.state = "gone"] /\ machine' = machine
    BY <1>3 DEF WorkerCrashes
  <2>2. worker \in Workers
    BY DEF Launching
  <2>3. worker' \in Workers /\ worker'.pc = "dead" /\ worker'.process.state = "gone"
    BY <2>1, <2>2 DEF Workers, Processes
  <2> QED
    BY <2>1, <2>3 DEF Launching, Installed, Fitted, Followed, InLine
<1>4. CASE \E t \in Threads : Dll(t)
  BY <1>2, <1>4 DEF Dll, Begins, Enters, SendsRequest, SendFails, Receives, SeesClosed, ReceiveTimesOut,
        ReceiveFails, Elsewhere
<1>5. CASE \E i \in DOMAIN attempts : Serve(i)
  BY <1>2, <1>5 DEF Serve, Forwards, Refuses, ServerGivesUp, Relayed
<1>6. CASE TunnelRises \/ TunnelDrops \/ Answers \/ AnswerIsLost \/ RequestBreaks
  BY <1>2, <1>6 DEF TunnelRises, TunnelDrops, Answers, AnswerIsLost, RequestBreaks, Relayed
<1>7. CASE UNCHANGED passThruVars
  BY <1>2, <1>7 DEF passThruVars
<1> QED
  BY <1>1, <1>3, <1>4, <1>5, <1>6, <1>7 DEF PassThruNext, Driver

(* A worker that serves has loaded its DLL, and a launch fails only for    *)
(* want of a DLL or of something that can run it, or because a process     *)
(* could not be started in time (_candidate_architectures and              *)
(* J2534WorkerController.start), on any machine.                           *)
THEOREM LaunchFailsOnlyForCause == PassThruSpec => []LaunchFailsForCause
<1>1. PassThruInit => Launching
  <2> SUFFICES ASSUME PassThruInit
               PROVE  Launching
    OBVIOUS
  <2>1. Installed
    BY DEF PassThruInit, Installed
  <2>2. worker = [pc |-> "idle", left |-> <<>>, process |-> NoProcess, slow |-> FALSE]
    BY DEF PassThruInit
  <2>3. worker \in Workers
    BY <2>2 DEF Workers, Processes, NoProcess, Lists
  <2> QED
    BY <2>1, <2>2, <2>3 DEF Launching, Fitted, Followed, InLine, NoProcess
<1>2. Launching /\ [PassThruNext]_passThruVars => Launching'
  BY LaunchingStays
<1>3. Launching => LaunchFailsForCause
  <2> SUFFICES ASSUME Launching
               PROVE  LaunchFailsForCause
    OBVIOUS
  <2>1. worker.pc = "up" => worker.process.arch = Selected(machine).real
    BY DEF Launching, Fitted, Followed, Real
  <2>2. worker.pc = "failed" => worker.process.state = "gone"
    BY DEF Launching, Followed
  <2>3. worker.pc = "failed" =>
          \/ worker.slow \/ Selected(machine) = NoDll
          \/ Selected(machine).real \notin machine.runtimes \cup {machine.python}
    BY DEF Launching, InLine, Real, Runnable
  <2> QED
    BY <2>1, <2>2, <2>3 DEF LaunchFailsForCause
<1> QED
  BY <1>1, <1>2, <1>3, PTL DEF PassThruSpec

=============================================================================
