--------------------------- MODULE LiveDataProofs ---------------------------
(***************************************************************************)
(* Proofs about LiveData, for any threads, settings and bounds: its types, *)
(* what an abort leaves, what a diagnosis is made of.                      *)
(*                                                                         *)
(* Types and References are the shape of the state.  OneLink follows what  *)
(* a guard has to say to who collects (Pipe), and what was gathered until  *)
(* it is heard (Whole).  EngineInv is one diagnosis at a time.  While no   *)
(* two requests get in each other's way (Apart), what runs is Known to a   *)
(* request that may end it.                                                *)
(*                                                                         *)
(* A lemma ...Records says what a step leaves of the record it changes, of *)
(* the others, and of threads; ...Shape, ...Whole and ...Known keep the    *)
(* parts of the invariant.                                                 *)
(***************************************************************************)
EXTENDS LiveData, FiniteSetTheorems, TLAPS

(***************************************************************************)
(* The shape of the state: types, and what a request, a diagnosis and a    *)
(* guard refer to.                                                         *)

Ops == Making \cup Ending
Events == {"progress", "chunk", "result", "error", "done"}

CollectorStates ==
    [for: {"live", "ai"}, run: BOOLEAN,
     guard: {"waits", "drifted", "routes", "restarted", "reports"},
     looked: Pages, result: Results, slot: Results, signature: Results,
     since: BOOLEAN, restarts: 0..MaxRestarts, seen: Nat,
     error: BOOLEAN, event: Results, buffer: SUBSET Nat, torn: BOOLEAN]

Queues(S) == {q \in Seq(S) : Len(q) <= QueueSize}

AnalysisStates ==
    [at: {"starts", "streams", "cleans", "frees", "over"}, queue: Queues(Events),
     known: BOOLEAN, cancelled: BOOLEAN, cached: BOOLEAN, chunks: 0..MaxChunks, payload: Nat]

ThreadStates == [at: Places, op: Ops \cup {"none"}, c: Nat, plan: Seq(Ops)]

PageTypes ==
    /\ gds \in [page: Pages, link: Nat \ {0}]
    /\ file \in [count: Nat, link: Nat] /\ file.link <= gds.link
    /\ left \in [pages: SUBSET Pages, drifts: Nat, writes: Nat, faults: Nat]

CollectorTypes ==
    /\ collectors \in Seq(CollectorStates) /\ Len(collectors) <= MaxMade
    /\ \A c \in DOMAIN collectors : collectors[c].buffer \subseteq 1..gds.link
    /\ active \in 0..Len(collectors)

SessionTypes ==
    /\ status \in {"running", "aborted"} /\ {live, raced, misled} \subseteq BOOLEAN
    /\ thread \in [Threads -> ThreadStates]
    /\ viewer \in [at: {"off", "on", "dropped"}, queue: Queues({"data", "error"}), left: Nat]

EngineTypes ==
    /\ analyses \in Seq(AnalysisStates)
    /\ bound \in 0..Len(analyses) /\ engine \in 0..Len(analyses)
    /\ reader \in [at: {"off", "on"}, of: 0..Len(analyses), left: Nat]
    /\ (reader.at = "on") <=> (reader.of # 0)

Types == PageTypes /\ CollectorTypes /\ SessionTypes /\ EngineTypes

\* What a request is about where it is.
Stays(t) ==
    /\ thread[t].at = "idle" <=> thread[t].op = "none"
    /\ thread[t].at \in {"enters", "creates"} => thread[t].op \in {"start", "ai"}
    /\ thread[t].at = "flags" => thread[t].op = "start"
    /\ thread[t].at = "collects" => thread[t].op = "ai"
    /\ thread[t].at \in {"stops", "leaves"} => thread[t].op \in Ending
    /\ thread[t].at = "joins" => thread[t].op \in Ending \cup {"ai"}
    /\ thread[t].at \in {"analyses", "binds"} => thread[t].op \in {"ai", "retry"}
    /\ thread[t].at \in {"cancels", "aborts"} => thread[t].op = "abort"

Gathers(t) == thread[t].op = "ai" /\ thread[t].at \in {"collects", "joins", "analyses"}

\* A collector of a diagnosis, that has ended if it is a payload.
ForDiagnosis(c) == c \in DOMAIN collectors /\ collectors[c].for = "ai"
IsPayload(c) == ForDiagnosis(c) /\ ~collectors[c].run

Refers(t) ==
    /\ Gathers(t) => ForDiagnosis(thread[t].c)
    /\ Gathers(t) /\ thread[t].at # "collects" => IsPayload(thread[t].c)
    /\ thread[t].at = "binds" => thread[t].c \in DOMAIN analyses

References ==
    /\ \A t \in Threads : Stays(t) /\ Refers(t)
    /\ active # 0 => collectors[active].for = "live"
    /\ \A a \in DOMAIN analyses : analyses[a].payload # 0 => IsPayload(analyses[a].payload)

-----------------------------------------------------------------------------
(* One connection: what a recovery has to say is on its way to who collects*)

\* A result of the guard is not taken over by the next one.
Pipe(c) == LET me == collectors[c] IN
    /\ me.guard # "waits" => me.slot = "none" /\ me.event = "none"
    /\ me.slot # "none" => me.event = "none"
    /\ me.result # "none" => me.guard = "reports"

\* The file is of the present connection, or has been read.
Fresh(c) == file.link \in {0, gds.link} \/ file.count <= collectors[c].seen

Whole(c) == LET me == collectors[c] IN
    me.for = "ai" /\ ~me.torn =>
        /\ me.run /\ {me.result, me.slot} \cap TakenForAnew = {} => Fresh(c)
        /\ me.run /\ {me.result, me.slot, me.event} \cap TakenForAnew = {} =>
             me.buffer \subseteq {gds.link}
        /\ ~me.run => \A link, other \in me.buffer : link = other

OneLink == \A c \in DOMAIN collectors : Pipe(c) /\ Whole(c)

-----------------------------------------------------------------------------
(* The engine: one diagnosis at a time, the last one.                      *)

Going(a) == analyses[a].at \in {"starts", "streams"} /\ ~analyses[a].cancelled

\* Nothing in it ends a reader.
Quiet(queue) == \A i \in DOMAIN queue : queue[i] \notin {"error", "done"}

EngineInv ==
    /\ engine # 0 => engine = Len(analyses)
    /\ \A a \in DOMAIN analyses :
        /\ analyses[a].at # "over" => engine = a /\ analyses[a].known
        /\ Going(a) => Quiet(analyses[a].queue)

-----------------------------------------------------------------------------
(* What a session runs is known to it, but for the races.                  *)

Apart == \A t, u \in Threads : t # u => ~Clash(thread[t].op, thread[u].op)

LiveRuns == Running(active)

\* Whatever runs is known to who may end it.
CollectorsKnown ==
    /\ \A c \in DOMAIN collectors : collectors[c].run =>
         \/ collectors[c].for = "live" /\ active = c
         \/ \E t \in Threads : thread[t].at = "collects" /\ thread[t].c = c
    /\ LiveRuns => live \/ \E t \in Threads : thread[t].at = "flags"
    /\ \A t \in Threads :
        /\ thread[t].op = "start" /\ thread[t].at \in {"enters", "creates"} => ~LiveRuns
        /\ thread[t].op \in Ending /\ thread[t].at \in {"joins", "leaves", "cancels", "aborts"} => ~LiveRuns
    /\ status = "aborted" => ~LiveRuns

NoneGoes == \A a \in DOMAIN analyses : ~Going(a)

DiagnosesKnown ==
    /\ \A a \in DOMAIN analyses : Going(a) =>
         bound = a \/ \E t \in Threads : thread[t].at = "binds" /\ thread[t].c = a
    /\ \A t \in Threads :
        /\ thread[t].at = "binds" => thread[t].c = Len(analyses)
        /\ thread[t].at = "aborts" => NoneGoes
    /\ status = "aborted" => NoneGoes

MakesNone == status = "aborted" => \A t \in Threads : thread[t].op \notin Making

Known == CollectorsKnown /\ DiagnosesKnown /\ MakesNone

NothingHidden ==
    /\ ~raced => Apart
    /\ ~raced /\ ~misled => Known

-----------------------------------------------------------------------------
(* Sequences of records.                                                   *)

LEMMA Replaced ==
    ASSUME NEW S, NEW s \in Seq(S), NEW i \in DOMAIN s, NEW e \in S
    PROVE  LET new == [s EXCEPT ![i] = e] IN
           /\ new \in Seq(S) /\ DOMAIN new = DOMAIN s /\ Len(new) = Len(s)
           /\ new[i] = e /\ \A j \in DOMAIN s : j # i => new[j] = s[j]
  OBVIOUS

LEMMA AddedTo ==
    ASSUME NEW S, NEW s \in Seq(S), NEW e \in S
    PROVE  LET new == Append(s, e) IN
           /\ new \in Seq(S) /\ Len(new) = Len(s) + 1 /\ Len(s) \in Nat
           /\ DOMAIN new = DOMAIN s \cup {Len(s) + 1} /\ Len(s) + 1 \notin DOMAIN s
           /\ new[Len(s) + 1] = e /\ \A j \in DOMAIN s : new[j] = s[j]
  OBVIOUS

-----------------------------------------------------------------------------
(* The turns of a collector.                                               *)

\* What c has to say, and has gathered, stays; it may be found torn.
Keeps(c) == LET me == collectors[c] new == collectors'[c] IN
    /\ new.slot = me.slot /\ new.event = me.event /\ new.seen = me.seen
    /\ new.buffer = me.buffer /\ new.run = me.run /\ (me.torn => new.torn)

Alike(c) == Keeps(c) /\ collectors'[c].guard = collectors[c].guard /\ collectors'[c].result = collectors[c].result

\* The collectors stay what they are for, and none starts again; only c takes a turn.
SameCollectors ==
    /\ collectors' \in Seq(CollectorStates)
    /\ DOMAIN collectors' = DOMAIN collectors /\ Len(collectors') = Len(collectors)
    /\ \A d \in DOMAIN collectors :
         collectors'[d].for = collectors[d].for /\ (collectors'[d].run => collectors[d].run)

Alters(c) ==
    /\ SameCollectors /\ c \in DOMAIN collectors
    /\ \A d \in DOMAIN collectors : d # c => Alike(d)

LEMMA Altered ==
    ASSUME collectors \in Seq(CollectorStates), NEW c \in DOMAIN collectors, NEW e \in CollectorStates,
           collectors' = [collectors EXCEPT ![c] = e],
           e.for = collectors[c].for, e.run => collectors[c].run
    PROVE  Alters(c) /\ collectors'[c] = e
<1>1. /\ collectors' \in Seq(CollectorStates)
      /\ DOMAIN collectors' = DOMAIN collectors /\ Len(collectors') = Len(collectors)
      /\ collectors'[c] = e
      /\ \A d \in DOMAIN collectors : d # c => collectors'[d] = collectors[d]
  BY Replaced
<1>. QED  BY <1>1 DEF Alters, SameCollectors, Alike, Keeps

LEMMA CollectorAt ==
    ASSUME Types, NEW c \in DOMAIN collectors
    PROVE  collectors[c] \in CollectorStates /\ collectors \in Seq(CollectorStates)
  BY DEF Types, CollectorTypes

LEMMA LooksRecords ==
    ASSUME Types, NEW c, Looks(c)
    PROVE  /\ Alters(c) /\ Keeps(c)
           /\ collectors[c].guard = "waits" /\ collectors[c].slot = "none" /\ collectors[c].event = "none"
           /\ collectors'[c].guard = "drifted" /\ collectors'[c].result = collectors[c].result
<1>1. c \in DOMAIN collectors /\ gds.page \in Pages
  BY DEF Looks, Guards, Types, PageTypes
<1>2. PICK e : e = [collectors[c] EXCEPT !.guard = "drifted", !.looked = gds.page]
  OBVIOUS
<1>3. e \in CollectorStates /\ e.for = collectors[c].for /\ e.run = collectors[c].run
  BY <1>1, <1>2, CollectorAt DEF CollectorStates
<1>4. collectors' = [collectors EXCEPT ![c] = e]
  BY <1>1, <1>2, CollectorAt DEF Looks
<1>5. Alters(c) /\ collectors'[c] = e
  BY <1>1, <1>3, <1>4, CollectorAt, Altered
<1>. QED  BY <1>1, <1>2, <1>5, CollectorAt DEF Looks, Keeps, CollectorStates

LEMMA RecoversRecords ==
    ASSUME Types, NEW c, Recovers(c)
    PROVE  /\ Alters(c) /\ Keeps(c)
           /\ collectors[c].guard = "drifted"
           /\ \/ collectors'[c].guard = "routes" /\ collectors'[c].result = "none"
              \/ collectors'[c].guard = "reports" /\ collectors'[c].result \in {"waiting", "failed"}
<1>1. c \in DOMAIN collectors /\ collectors[c].guard = "drifted"
  BY DEF Recovers, Guards
<1>2. collectors[c] \in CollectorStates
  BY <1>1, CollectorAt
<1>3. PICK place \in {"reports", "routes"}, result \in {"none", "waiting", "failed"}, since \in BOOLEAN :
        /\ place = "routes" <=> result = "none"
        /\ collectors' = [collectors EXCEPT ![c] =
             [collectors[c] EXCEPT !.looked = "display", !.guard = place, !.result = result, !.since = since]]
  <2>1. collectors[c].since \in BOOLEAN
    BY <1>2 DEF CollectorStates
  <2>2. CASE gds.page = "display"
    <3>1. Unrecovered(collectors[c].looked) \in {"waiting", "failed"}
      BY DEF Unrecovered
    <3>. QED  BY <2>1, <2>2, <3>1 DEF Recovers
  <2>3. CASE gds.page = "loading"
    BY <2>1, <2>3 DEF Recovers
  <2>4. CASE gds.page # "display" /\ gds.page # "loading"
    BY <2>1, <2>4 DEF Recovers
  <2>. QED  BY <2>2, <2>3, <2>4
<1>4. PICK e : e = [collectors[c] EXCEPT !.looked = "display", !.guard = place, !.result = result, !.since = since]
  OBVIOUS
<1>5. e \in CollectorStates /\ e.for = collectors[c].for /\ e.run = collectors[c].run
  BY <1>2, <1>4 DEF CollectorStates, Pages, Results
<1>6. Alters(c) /\ collectors'[c] = e
  BY <1>1, <1>3, <1>4, <1>5, CollectorAt, Altered
<1>. QED  BY <1>1, <1>2, <1>3, <1>4, <1>6 DEF Keeps, CollectorStates

LEMMA LoadsTooLongRecords ==
    ASSUME Types, NEW c, LoadsTooLong(c)
    PROVE  /\ Alters(c) /\ Keeps(c)
           /\ collectors[c].guard = "drifted"
           /\ collectors'[c].guard \in {"reports", "restarted"}
           /\ \/ collectors'[c].guard = "reports" /\ collectors'[c].result = "failed"
              \/ collectors'[c].result = collectors[c].result
           /\ gds' \in [page: Pages, link: Nat \ {0}] /\ gds'.link = gds.link
<1>1. c \in DOMAIN collectors /\ collectors[c].guard = "drifted"
  BY DEF LoadsTooLong, Guards
<1>2. collectors[c] \in CollectorStates /\ MaxRestarts \in Nat
  BY <1>1, CollectorAt, LiveDataAssumption
<1>3. collectors[c].restarts \in 0..MaxRestarts
  BY <1>2 DEF CollectorStates
<1>4. gds' \in [page: Pages, link: Nat \ {0}] /\ gds'.link = gds.link
  BY DEF LoadsTooLong, Types, PageTypes, Pages
<1>5. CASE collectors[c].restarts = MaxRestarts
  <2>1. PICK e : e = [collectors[c] EXCEPT !.looked = "display", !.guard = "reports", !.result = "failed"]
    OBVIOUS
  <2>2. e \in CollectorStates /\ e.for = collectors[c].for /\ e.run = collectors[c].run
    BY <1>2, <2>1 DEF CollectorStates, Pages, Results
  <2>3. collectors' = [collectors EXCEPT ![c] = e]
    BY <1>1, <1>5, <2>1, CollectorAt DEF LoadsTooLong
  <2>4. Alters(c) /\ collectors'[c] = e
    BY <1>1, <2>2, <2>3, CollectorAt, Altered
  <2>. QED  BY <1>1, <1>2, <1>4, <2>1, <2>4 DEF Keeps, CollectorStates
<1>6. CASE collectors[c].restarts # MaxRestarts
  <2>1. PICK e : e = [collectors[c] EXCEPT !.looked = "display", !.guard = "restarted", !.since = FALSE, !.restarts = @ + 1]
    OBVIOUS
  <2>2. collectors[c].restarts + 1 \in 0..MaxRestarts
    BY <1>2, <1>3, <1>6
  <2>3. e \in CollectorStates /\ e.for = collectors[c].for /\ e.run = collectors[c].run
    BY <1>2, <2>1, <2>2 DEF CollectorStates, Pages, Results
  <2>4. collectors' = [collectors EXCEPT ![c] = e]
    <3>1. collectors' = [collectors EXCEPT ![c].guard = "restarted", ![c].since = FALSE,
                                    ![c].restarts = @ + 1, ![c].looked = "display"]
      BY <1>6 DEF LoadsTooLong
    <3>2. e = [collectors[c] EXCEPT !.guard = "restarted", !.since = FALSE,
                                    !.restarts = @ + 1, !.looked = "display"]
      BY <1>2, <2>1 DEF CollectorStates
    <3>. QED  BY <1>1, <3>1, <3>2
  <2>5. Alters(c) /\ collectors'[c] = e
    <3>1. collectors \in Seq(CollectorStates)
      BY <1>1, CollectorAt
    <3>. QED  BY <1>1, <2>3, <2>4, <3>1, Altered
  <2>. QED  BY <1>1, <1>2, <1>4, <2>1, <2>5 DEF Keeps, CollectorStates
<1>. QED  BY <1>5, <1>6

LEMMA ReportsRecords ==
    ASSUME Types, NEW c, Reports(c)
    PROVE  /\ Alters(c) /\ collectors[c].guard = "reports"
           /\ LET me == collectors[c] new == collectors'[c] IN
              /\ new.guard = "waits" /\ new.slot = me.result /\ new.result = "none"
              /\ new.event = me.event /\ new.seen = me.seen /\ new.buffer = me.buffer /\ new.torn = me.torn
              /\ new.run <=> me.run /\ me.result # "failed"
<1>1. c \in DOMAIN collectors /\ collectors[c].guard = "reports"
  BY DEF Reports, Guards
<1>2. collectors[c] \in CollectorStates
  BY <1>1, CollectorAt
<1>3. PICK run \in BOOLEAN, error \in BOOLEAN :
        /\ run = (collectors[c].run /\ collectors[c].result # "failed")
        /\ error = (collectors[c].error \/ collectors[c].result = "failed")
  BY <1>2 DEF CollectorStates
<1>4. PICK e : e = [collectors[c] EXCEPT !.guard = "waits", !.slot = collectors[c].result,
                                       !.result = "none", !.run = run, !.error = error]
  OBVIOUS
<1>5. e \in CollectorStates /\ e.for = collectors[c].for /\ e.run = run
  BY <1>2, <1>4 DEF CollectorStates, Results
<1>6. collectors' = [collectors EXCEPT ![c] = e]
  BY <1>1, <1>2, <1>3, <1>4, CollectorAt DEF Reports, CollectorStates
<1>7. Alters(c) /\ collectors'[c] = e
  BY <1>1, <1>3, <1>5, <1>6, CollectorAt, Altered
<1>8. LET me == collectors[c] IN
      /\ e.guard = "waits" /\ e.slot = me.result /\ e.result = "none" /\ e.run = run
      /\ e.event = me.event /\ e.seen = me.seen /\ e.buffer = me.buffer /\ e.torn = me.torn
  BY <1>2, <1>4 DEF CollectorStates
<1>9. e.run <=> collectors[c].run /\ collectors[c].result # "failed"
  BY <1>3, <1>8
<1>. QED  BY <1>1, <1>7, <1>8, <1>9

LEMMA PollRecords ==
    ASSUME Types, NEW c, Poll(c)
    PROVE  /\ Alters(c) /\ collectors[c].run
           /\ LET me == collectors[c]
                  new == collectors'[c]
                  fresh == me.slot # "none" /\ me.slot # me.signature
                  read == file.count > me.seen IN
              /\ new.run = me.run /\ new.guard = me.guard /\ new.result = me.result /\ new.slot = "none"
              /\ new.event = IF fresh /\ me.for = "ai" THEN me.slot ELSE me.event
              /\ new.seen = IF read THEN file.count ELSE me.seen
              /\ new.buffer = IF read /\ me.for = "ai" THEN (me.buffer \cup {file.link}) \ {0} ELSE me.buffer
              /\ new.torn <=> me.torn \/ (me.slot \in TakenForAnew /\ ~fresh)
<1>1. c \in DOMAIN collectors /\ collectors[c].run
  BY DEF Poll, Guards
<1>2. PICK me \in CollectorStates : me = collectors[c]
  BY <1>1, CollectorAt
<1>. DEFINE fresh == me.slot # "none" /\ me.slot # me.signature
            read == file.count > me.seen
<1>3. PICK event \in Results : event = IF fresh /\ me.for = "ai" THEN me.slot ELSE me.event
  BY <1>2 DEF CollectorStates
<1>4. PICK seen \in Nat : seen = IF read THEN file.count ELSE me.seen
  BY <1>2 DEF CollectorStates, Types, PageTypes
<1>5. PICK buffer \in SUBSET Nat :
        buffer = IF read /\ me.for = "ai" THEN (me.buffer \cup {file.link}) \ {0} ELSE me.buffer
  <2>1. file.link \in Nat /\ me.buffer \subseteq Nat
    BY DEF Types, PageTypes, CollectorStates
  <2>. QED  BY <2>1
<1>6. PICK torn \in BOOLEAN : torn = (me.torn \/ (me.slot \in TakenForAnew /\ ~fresh))
  BY <1>2 DEF CollectorStates
<1>7. PICK signature \in Results : signature = IF me.slot # "none" THEN me.slot ELSE me.signature
  BY <1>2 DEF CollectorStates
<1>8. PICK e : e = [me EXCEPT !.slot = "none", !.signature = signature, !.event = event,
                              !.seen = seen, !.buffer = buffer, !.torn = torn]
  OBVIOUS
<1>9. e \in CollectorStates /\ e.for = me.for /\ e.run = me.run
  BY <1>8 DEF CollectorStates, Results
<1>10. collectors' = [collectors EXCEPT ![c] = e]
  BY <1>1, <1>2, <1>3, <1>4, <1>5, <1>6, <1>7, <1>8, CollectorAt DEF Poll, CollectorStates
<1>11. Alters(c) /\ collectors'[c] = e
  BY <1>1, <1>2, <1>9, <1>10, CollectorAt, Altered
<1>12. /\ e.run = me.run /\ e.guard = me.guard /\ e.result = me.result /\ e.slot = "none"
       /\ e.event = event /\ e.seen = seen /\ e.buffer = buffer /\ e.torn = torn
  BY <1>8 DEF CollectorStates
<1>. HIDE DEF fresh, read
<1>13. /\ e.event = IF fresh /\ me.for = "ai" THEN me.slot ELSE me.event
       /\ e.seen = IF read THEN file.count ELSE me.seen
       /\ e.buffer = IF read /\ me.for = "ai" THEN (me.buffer \cup {file.link}) \ {0} ELSE me.buffer
       /\ e.torn <=> me.torn \/ (me.slot \in TakenForAnew /\ ~fresh)
  BY <1>3, <1>4, <1>5, <1>6, <1>12
<1>. QED  BY <1>1, <1>2, <1>11, <1>12, <1>13 DEF fresh, read

LEMMA PollFailsRecords ==
    ASSUME Types, NEW c, PollFails(c)
    PROVE  Alters(c) /\ Alike(c)
<1>1. c \in DOMAIN collectors
  BY DEF PollFails, Guards
<1>2. PICK e : e = [collectors[c] EXCEPT !.error = TRUE]
  OBVIOUS
<1>3. e \in CollectorStates /\ e.for = collectors[c].for /\ e.run = collectors[c].run
  BY <1>1, <1>2, CollectorAt DEF CollectorStates
<1>4. collectors' = [collectors EXCEPT ![c] = e]
  BY <1>1, <1>2, CollectorAt DEF PollFails
<1>5. Alters(c) /\ collectors'[c] = e
  BY <1>1, <1>3, <1>4, CollectorAt, Altered
<1>. QED  BY <1>1, <1>2, <1>5, CollectorAt DEF Alike, Keeps, CollectorStates

LEMMA StartsOverRecords ==
    ASSUME Types, NEW t \in Threads, thread[t].c \in DOMAIN collectors, StartsOver(t)
    PROVE  LET c == thread[t].c me == collectors[c] new == collectors'[c] IN
           /\ Alters(c) /\ me.event # "none"
           /\ new.run = me.run /\ new.guard = me.guard /\ new.result = me.result /\ new.slot = me.slot
           /\ new.event = "none" /\ new.seen = me.seen /\ new.torn = me.torn
           /\ new.buffer = IF me.event \in TakenForAnew THEN {} ELSE me.buffer
<1>1. PICK c \in DOMAIN collectors : c = thread[t].c
  OBVIOUS
<1>2. collectors[c] \in CollectorStates
  BY <1>1, CollectorAt
<1>3. PICK buffer \in SUBSET Nat : buffer = IF collectors[c].event \in TakenForAnew THEN {} ELSE collectors[c].buffer
  BY <1>2 DEF CollectorStates
<1>4. PICK e : e = [collectors[c] EXCEPT !.buffer = buffer, !.event = "none"]
  OBVIOUS
<1>5. e \in CollectorStates /\ e.for = collectors[c].for /\ e.run = collectors[c].run
  BY <1>2, <1>4 DEF CollectorStates, Results
<1>6. collectors' = [collectors EXCEPT ![c] = e] /\ collectors[c].event # "none"
  BY <1>1, <1>2, <1>3, <1>4, CollectorAt DEF StartsOver, CollectorStates
<1>7. Alters(c) /\ collectors'[c] = e
  BY <1>1, <1>5, <1>6, CollectorAt, Altered
<1>. QED  BY <1>1, <1>2, <1>3, <1>4, <1>6, <1>7 DEF CollectorStates

LEMMA StopsCollectingRecords ==
    ASSUME Types, NEW t \in Threads, thread[t].c \in DOMAIN collectors, StopsCollecting(t)
    PROVE  LET c == thread[t].c me == collectors[c] new == collectors'[c] IN
           /\ Alters(c) /\ ~new.run
           /\ new.guard = me.guard /\ new.result = me.result /\ new.slot = me.slot
           /\ new.event = me.event /\ new.seen = me.seen /\ new.buffer = me.buffer
           /\ ~new.torn => ~me.torn /\ me.guard = "waits" /\ me.slot = "none" /\ me.event = "none"
<1>1. PICK c \in DOMAIN collectors : c = thread[t].c
  OBVIOUS
<1>2. collectors[c] \in CollectorStates
  BY <1>1, CollectorAt
<1>3. PICK torn \in BOOLEAN : torn = (collectors[c].torn \/ ~(collectors[c].guard = "waits"
                                        /\ collectors[c].slot = "none" /\ collectors[c].event = "none"))
  BY <1>2 DEF CollectorStates
<1>4. PICK e : e = [collectors[c] EXCEPT !.run = FALSE, !.torn = torn]
  OBVIOUS
<1>5. e \in CollectorStates /\ e.for = collectors[c].for /\ e.run = FALSE
  BY <1>2, <1>4 DEF CollectorStates
<1>6. collectors' = [collectors EXCEPT ![c] = e]
  BY <1>1, <1>2, <1>3, <1>4, CollectorAt DEF StopsCollecting, CollectorStates
<1>7. Alters(c) /\ collectors'[c] = e
  BY <1>1, <1>5, <1>6, CollectorAt, Altered
<1>8. LET me == collectors[c] IN
      /\ e.run = FALSE /\ e.guard = me.guard /\ e.result = me.result /\ e.slot = me.slot
      /\ e.event = me.event /\ e.seen = me.seen /\ e.buffer = me.buffer /\ e.torn = torn
  BY <1>2, <1>4 DEF CollectorStates
<1>9. ~e.torn => LET me == collectors[c] IN
        ~me.torn /\ me.guard = "waits" /\ me.slot = "none" /\ me.event = "none"
  BY <1>3, <1>8
<1>. QED  BY <1>1, <1>7, <1>8, <1>9

\* A stop leaves what was gathered as it is.
LEMMA StopsRecords ==
    ASSUME Types, NEW t \in Threads, Stops(t)
    PROVE  /\ SameCollectors /\ (active # 0 => ~collectors'[active].run)
           /\ \A d \in DOMAIN collectors : LET me == collectors[d] new == collectors'[d] IN
                /\ new.guard = me.guard /\ new.result = me.result /\ new.slot = me.slot
                /\ new.event = me.event /\ new.buffer = me.buffer
           /\ \A d \in DOMAIN collectors : d # active => Alike(d)
<1>1. collectors \in Seq(CollectorStates) /\ active \in 0..Len(collectors) /\ DOMAIN collectors = 1..Len(collectors)
  BY DEF Types, CollectorTypes
<1>2. CASE active = 0
  BY <1>1, <1>2 DEF Stops, SameCollectors, Alike, Keeps
<1>3. CASE active # 0
  <2>1. active \in DOMAIN collectors
    BY <1>1, <1>3
  <2>2. PICK e : e = [collectors[active] EXCEPT !.run = FALSE]
    OBVIOUS
  <2>3. /\ e \in CollectorStates /\ e.for = collectors[active].for /\ e.run = FALSE
        /\ e.buffer = collectors[active].buffer /\ e.guard = collectors[active].guard
        /\ e.result = collectors[active].result /\ e.slot = collectors[active].slot
        /\ e.event = collectors[active].event
    BY <2>1, <2>2, CollectorAt DEF CollectorStates
  <2>4. collectors' = [collectors EXCEPT ![active] = e]
    BY <1>3, <2>1, <2>2, CollectorAt DEF Stops
  <2>5. Alters(active) /\ collectors'[active] = e
    BY <2>1, <2>3, <2>4, CollectorAt, Altered
  <2>. QED  BY <2>3, <2>5 DEF Alters, Alike, Keeps
<1>. QED  BY <1>2, <1>3

\* The new collector gathers over the present connection, or is torn from the start.
LEMMA CreatesRecords ==
    ASSUME Types, NEW t \in Threads, Creates(t)
    PROVE  LET c == Len(collectors) + 1 new == collectors'[c] IN
           /\ collectors' \in Seq(CollectorStates) /\ Len(collectors') = c /\ c <= MaxMade
           /\ DOMAIN collectors' = DOMAIN collectors \cup {c} /\ c \notin DOMAIN collectors
           /\ \A d \in DOMAIN collectors : collectors'[d] = collectors[d]
           /\ new.for = IF thread[t].op = "start" THEN "live" ELSE "ai"
           /\ new.run /\ new.guard = "waits" /\ new.result = "none" /\ new.slot = "none"
           /\ new.event = "none" /\ new.seen = 0 /\ new.buffer = {}
           /\ new.for = "ai" /\ ~new.torn => file.link \in {0, gds.link}
<1>1. collectors \in Seq(CollectorStates) /\ Len(collectors) \in Nat /\ MaxMade \in Nat /\ MaxRestarts \in Nat
  BY LiveDataAssumption DEF Types, CollectorTypes
<1>2. 0 \in 0..MaxRestarts /\ {} \in SUBSET Nat
  BY <1>1
<1>3. \A for \in {"live", "ai"} : Collector(for) \in CollectorStates
  BY <1>2 DEF Collector, CollectorStates, Pages, Results
<1>4. PICK torn \in BOOLEAN : torn = (file.link \notin {0, gds.link})
  OBVIOUS
<1>5. [Collector("ai") EXCEPT !.torn = torn] \in CollectorStates
  BY <1>3 DEF CollectorStates
<1>6. PICK e \in CollectorStates :
        /\ collectors' = Append(collectors, e)
        /\ e = IF thread[t].op = "start" THEN Collector("live") ELSE [Collector("ai") EXCEPT !.torn = torn]
  BY <1>3, <1>4, <1>5 DEF Creates
<1>7. /\ e.for = IF thread[t].op = "start" THEN "live" ELSE "ai"
      /\ e.run /\ e.guard = "waits" /\ e.result = "none" /\ e.slot = "none"
      /\ e.event = "none" /\ e.seen = 0 /\ e.buffer = {}
      /\ e.for = "ai" => e.torn = torn
  BY <1>6 DEF Collector
<1>8. /\ collectors' \in Seq(CollectorStates) /\ Len(collectors') = Len(collectors) + 1
      /\ DOMAIN collectors' = DOMAIN collectors \cup {Len(collectors) + 1} /\ Len(collectors) + 1 \notin DOMAIN collectors
      /\ \A d \in DOMAIN collectors : collectors'[d] = collectors[d]
      /\ collectors'[Len(collectors) + 1] = e
  BY <1>1, <1>6, AddedTo
<1>9. Len(collectors) < MaxMade
  BY DEF Creates
<1>10. e.for = "ai" /\ ~e.torn => file.link \in {0, gds.link}
  BY <1>7, <1>4
<1>. QED  BY <1>1, <1>7, <1>8, <1>9, <1>10

LEMMA Torn ==
    ASSUME NEW cs \in Seq(CollectorStates), NEW c
    PROVE  /\ Tear(cs, c) \in Seq(CollectorStates)
           /\ DOMAIN Tear(cs, c) = DOMAIN cs /\ Len(Tear(cs, c)) = Len(cs)
           /\ \A d \in DOMAIN cs : LET me == cs[d] new == Tear(cs, c)[d] IN
              /\ new.for = me.for /\ new.run = me.run /\ new.guard = me.guard /\ new.result = me.result
              /\ new.slot = me.slot /\ new.event = me.event /\ new.seen = me.seen /\ new.buffer = me.buffer
              /\ new.torn <=> me.torn \/ (d # c /\ me.for = "ai")
<1>. DEFINE new == Tear(cs, c)
<1>1. DOMAIN new = 1..Len(cs) /\ DOMAIN cs = 1..Len(cs) /\ Len(cs) \in Nat
  BY DEF Tear
<1>2. ASSUME NEW d \in DOMAIN cs
      PROVE  /\ new[d] \in CollectorStates
             /\ LET me == cs[d] it == new[d] IN
                /\ it.for = me.for /\ it.run = me.run /\ it.guard = me.guard /\ it.result = me.result
                /\ it.slot = me.slot /\ it.event = me.event /\ it.seen = me.seen /\ it.buffer = me.buffer
                /\ it.torn <=> me.torn \/ (d # c /\ me.for = "ai")
  <2>1. cs[d] \in CollectorStates
    BY <1>2
  <2>2. PICK torn \in BOOLEAN : torn = (cs[d].torn \/ (d # c /\ cs[d].for = "ai"))
    OBVIOUS
  <2>3. new[d] = [cs[d] EXCEPT !.torn = torn]
    BY <1>2, <2>2 DEF Tear
  <2>4. /\ new[d] \in CollectorStates
        /\ LET me == cs[d] it == new[d] IN
           /\ it.for = me.for /\ it.run = me.run /\ it.guard = me.guard /\ it.result = me.result
           /\ it.slot = me.slot /\ it.event = me.event /\ it.seen = me.seen /\ it.buffer = me.buffer
           /\ it.torn = torn
    BY <2>1, <2>3 DEF CollectorStates
  <2>5. new[d].torn <=> cs[d].torn \/ (d # c /\ cs[d].for = "ai")
    BY <2>2, <2>4
  <2>. QED  BY <2>4, <2>5
<1>3. new = [d \in 1..Len(cs) |-> new[d]]
  BY <1>1 DEF Tear
<1>. HIDE DEF new
<1>4. new \in Seq(CollectorStates) /\ Len(new) = Len(cs)
  BY <1>1, <1>2, <1>3
<1>5. /\ new \in Seq(CollectorStates) /\ DOMAIN new = DOMAIN cs /\ Len(new) = Len(cs)
      /\ \A d \in DOMAIN cs : LET me == cs[d] it == new[d] IN
         /\ it.for = me.for /\ it.run = me.run /\ it.guard = me.guard /\ it.result = me.result
         /\ it.slot = me.slot /\ it.event = me.event /\ it.seen = me.seen /\ it.buffer = me.buffer
         /\ it.torn <=> me.torn \/ (d # c /\ me.for = "ai")
  BY <1>1, <1>2, <1>4
<1>. QED  BY <1>5 DEF new

\* The route is taken with the connection it found, or makes it anew: then it
\* is told to who collects by c, and nobody else who collects is whole.
RouteTaken(c) == LET new == collectors'[c] IN
    /\ new.guard = "reports" /\ new.result \in Recoveries \cup {"failed"}
    /\ \/ gds'.link = gds.link /\ file' = file
       \/ /\ gds'.link = gds.link + 1
          /\ ~new.torn => new.result \in TakenForAnew
          /\ \A d \in DOMAIN collectors : d # c /\ collectors[d].for = "ai" => collectors'[d].torn

LEMMA RouteEndsRecords ==
    ASSUME Types, NEW c, RouteEnds(c)
    PROVE  /\ Alters(c) /\ Keeps(c) /\ RouteTaken(c)
           /\ collectors[c].guard \in {"routes", "restarted"}
           /\ gds' \in [page: Pages, link: Nat \ {0}]
           /\ file' \in [count: Nat, link: Nat] /\ file'.link = file.link
<1>1. c \in DOMAIN collectors /\ collectors[c].guard \in {"routes", "restarted"}
  BY DEF RouteEnds, Guards
<1>2. collectors \in Seq(CollectorStates) /\ collectors[c] \in CollectorStates
  BY <1>1, CollectorAt
<1>3. gds \in [page: Pages, link: Nat \ {0}] /\ file \in [count: Nat, link: Nat]
  BY DEF Types, PageTypes
<1>. DEFINE done(r) == [collectors EXCEPT ![c].guard = "reports", ![c].result = r]
            anew(r) == r \in Anew
<1>4. PICK r \in Recoveries \cup {"failed"} :
        /\ collectors' = IF anew(r) THEN Tear([done(r) EXCEPT ![c].torn = @ \/ r \notin TakenForAnew], c)
                         ELSE done(r)
        /\ gds' = [page |-> IF r = "failed" THEN "away" ELSE "display",
                   link |-> IF anew(r) THEN gds.link + 1 ELSE gds.link]
        /\ file' = IF r = "restart" /\ collectors[c].guard = "routes" THEN [file EXCEPT !.count = 0] ELSE file
  BY DEF RouteEnds
<1>5. gds' \in [page: Pages, link: Nat \ {0}] /\ file' \in [count: Nat, link: Nat] /\ file'.link = file.link
  <2>1. gds'.link \in Nat \ {0}
    BY <1>3, <1>4
  <2>2. gds'.page \in Pages
    BY <1>4 DEF Pages
  <2>3. gds' = [page |-> gds'.page, link |-> gds'.link]
    BY <1>4
  <2>4. file' \in [count: Nat, link: Nat] /\ file'.link = file.link
    BY <1>3, <1>4
  <2>. QED  BY <2>1, <2>2, <2>3, <2>4
<1>6. CASE r \notin Anew
  <2>1. PICK e : e = [collectors[c] EXCEPT !.guard = "reports", !.result = r]
    OBVIOUS
  <2>2. e \in CollectorStates /\ e.for = collectors[c].for /\ e.run = collectors[c].run
    BY <1>2, <2>1 DEF CollectorStates, Results
  <2>3. collectors' = [collectors EXCEPT ![c] = e]
    BY <1>1, <1>2, <1>4, <1>6, <2>1
  <2>4. Alters(c) /\ collectors'[c] = e
    BY <1>1, <2>2, <2>3, CollectorAt, Altered
  <2>5. gds'.link = gds.link /\ file' = file
    BY <1>3, <1>4, <1>6 DEF Anew
  <2>. QED  BY <1>1, <1>2, <1>5, <2>1, <2>4, <2>5 DEF Keeps, RouteTaken, CollectorStates
<1>7. CASE r \in Anew
  <2>1. PICK torn \in BOOLEAN : torn = (collectors[c].torn \/ r \notin TakenForAnew)
    OBVIOUS
  <2>2. PICK e : e = [collectors[c] EXCEPT !.guard = "reports", !.result = r, !.torn = torn]
    OBVIOUS
  <2>3. /\ e \in CollectorStates /\ e.for = collectors[c].for /\ e.run = collectors[c].run
        /\ e.guard = "reports" /\ e.result = r /\ e.slot = collectors[c].slot /\ e.event = collectors[c].event
        /\ e.seen = collectors[c].seen /\ e.buffer = collectors[c].buffer /\ e.torn = torn
    BY <1>2, <2>2 DEF CollectorStates, Results
  <2>4. PICK cs : cs = [collectors EXCEPT ![c] = e]
    OBVIOUS
  <2>5. /\ cs \in Seq(CollectorStates) /\ DOMAIN cs = DOMAIN collectors /\ Len(cs) = Len(collectors)
        /\ cs[c] = e /\ \A d \in DOMAIN collectors : d # c => cs[d] = collectors[d]
    BY <1>1, <1>2, <2>3, <2>4, Replaced
  <2>6. cs = [done(r) EXCEPT ![c].torn = @ \/ r \notin TakenForAnew]
    <3>1. done(r)[c] = [collectors[c] EXCEPT !.guard = "reports", !.result = r] /\ DOMAIN done(r) = DOMAIN collectors
      BY <1>1, <1>2
    <3>2. done(r)[c].torn = collectors[c].torn
      BY <1>2, <3>1 DEF CollectorStates
    <3>. QED  BY <1>1, <1>2, <2>1, <2>2, <2>4, <3>2
  <2>7. collectors' = Tear(cs, c)
    BY <1>4, <1>7, <2>6
  <2>8. SameCollectors /\ \A d \in DOMAIN collectors : d # c => Alike(d)
    BY <2>3, <2>5, <2>7, Torn DEF SameCollectors, Alike, Keeps
  <2>9. \A d \in DOMAIN collectors : d # c /\ collectors[d].for = "ai" => collectors'[d].torn
    BY <2>5, <2>7, Torn
  <2>10. LET me == collectors[c] new == collectors'[c] IN
        /\ new.guard = "reports" /\ new.result = r /\ new.slot = me.slot /\ new.event = me.event
        /\ new.seen = me.seen /\ new.buffer = me.buffer /\ new.run = me.run
        /\ new.torn <=> torn
    BY <1>1, <2>3, <2>5, <2>7, Torn
  <2>11. gds'.link = gds.link + 1
    BY <1>4, <1>7
  <2>. QED  BY <1>1, <1>5, <2>1, <2>8, <2>9, <2>10, <2>11 DEF Alters, Keeps, RouteTaken
<1>. QED  BY <1>6, <1>7

-----------------------------------------------------------------------------
(* Threads and queues.                                                     *)

\* One thread goes on to a place, for op, with c.
Takes(t, at, op, c) ==
    /\ thread' \in [Threads -> ThreadStates]
    /\ thread'[t].at = at /\ thread'[t].op = op /\ thread'[t].c = c
    /\ \A u \in Threads : u # t => thread'[u] = thread[u]

LEMMA ThreadAt ==
    ASSUME Types, NEW t \in Threads
    PROVE  thread \in [Threads -> ThreadStates] /\ thread[t] \in ThreadStates
  BY DEF Types, SessionTypes

LEMMA ThreadTakes ==
    ASSUME Types, NEW t \in Threads, NEW at \in Places, NEW op \in Ops \cup {"none"}, NEW c \in Nat,
           NEW plan \in Seq(Ops), NEW new,
           new.at = at, new.op = op, new.c = c, new.plan = plan,
           new = [at |-> at, op |-> op, c |-> c, plan |-> plan],
           thread' = [thread EXCEPT ![t] = new]
    PROVE  Takes(t, at, op, c)
<1>1. new \in ThreadStates
  BY DEF ThreadStates
<1>. QED  BY <1>1, ThreadAt DEF Takes

LEMMA ThreadMovesWith ==
    ASSUME Types, NEW t \in Threads, NEW at \in Places, NEW c \in Nat, MovesWith(t, at, c)
    PROVE  Takes(t, at, thread[t].op, c)
<1>1. thread[t] \in ThreadStates /\ thread \in [Threads -> ThreadStates]
  BY ThreadAt
<1>2. PICK new : new = [thread[t] EXCEPT !.at = at, !.c = c]
  OBVIOUS
<1>3. thread' = [thread EXCEPT ![t] = new]
  BY <1>1, <1>2 DEF MovesWith
<1>4. new = [at |-> at, op |-> thread[t].op, c |-> c, plan |-> thread[t].plan]
  BY <1>1, <1>2 DEF ThreadStates
<1>5. thread[t].op \in Ops \cup {"none"} /\ thread[t].plan \in Seq(Ops)
  BY <1>1 DEF ThreadStates
<1>. QED  BY <1>3, <1>5, <1>4, ThreadTakes

LEMMA ThreadMoves ==
    ASSUME Types, NEW t \in Threads, NEW at \in Places, Moves(t, at)
    PROVE  Takes(t, at, thread[t].op, thread[t].c)
<1>1. thread[t] \in ThreadStates /\ thread \in [Threads -> ThreadStates]
  BY ThreadAt
<1>2. PICK new : new = [thread[t] EXCEPT !.at = at]
  OBVIOUS
<1>3. thread' = [thread EXCEPT ![t] = new]
  BY <1>1, <1>2 DEF Moves
<1>4. new = [at |-> at, op |-> thread[t].op, c |-> thread[t].c, plan |-> thread[t].plan]
  BY <1>1, <1>2 DEF ThreadStates
<1>5. thread[t].op \in Ops \cup {"none"} /\ thread[t].plan \in Seq(Ops) /\ thread[t].c \in Nat
  BY <1>1 DEF ThreadStates
<1>. QED  BY <1>3, <1>5, <1>4, ThreadTakes

LEMMA ThreadReturns ==
    ASSUME Types, NEW t \in Threads, Returns(t)
    PROVE  Takes(t, "idle", "none", 0)
<1>1. thread[t] \in ThreadStates /\ thread \in [Threads -> ThreadStates]
  BY ThreadAt
<1>2. PICK new : new = [thread[t] EXCEPT !.at = "idle", !.op = "none", !.c = 0]
  OBVIOUS
<1>3. thread' = [thread EXCEPT ![t] = new]
  BY <1>1, <1>2 DEF Returns
<1>4. new = [at |-> "idle", op |-> "none", c |-> 0, plan |-> thread[t].plan]
  BY <1>1, <1>2 DEF ThreadStates
<1>5. thread[t].plan \in Seq(Ops) /\ "idle" \in Places
  BY <1>1 DEF ThreadStates, Places
<1>. QED  BY <1>3, <1>5, <1>4, ThreadTakes

\* What a request does next is from its plan.
LEMMA BeginsRecords ==
    ASSUME Types, NEW t \in Threads, Begins(t)
    PROVE  \/ /\ Takes(t, thread[t].at, thread[t].op, thread[t].c) /\ (raced' <=> raced)
           \/ \E op \in Ops :
                /\ Takes(t, First(op), op, 0) /\ Admits(op)
                /\ raced' <=> raced \/ \E u \in Threads \ {t} : Clash(op, thread[u].op)
<1>1. thread[t] \in ThreadStates /\ thread \in [Threads -> ThreadStates]
  BY ThreadAt
<1>2. thread[t].plan \in Seq(Ops) /\ thread[t].plan # <<>>
  BY <1>1 DEF ThreadStates, Begins
<1>3. PICK op, rest : op = Head(thread[t].plan) /\ rest = Tail(thread[t].plan)
  OBVIOUS
<1>4. op \in Ops /\ rest \in Seq(Ops)
  BY <1>2, <1>3
<1>5. CASE Admits(op)
  <2>1. First(op) \in Places
    BY <1>4 DEF First, Places, Ops, Making, Ending
  <2>2. PICK new : new = [at |-> First(op), op |-> op, c |-> 0, plan |-> rest]
    OBVIOUS
  <2>3. thread' = [thread EXCEPT ![t] = new]
    BY <1>3, <1>5, <2>2 DEF Begins
  <2>4. Takes(t, First(op), op, 0)
    BY <1>4, <2>1, <2>2, <2>3, ThreadTakes
  <2>5. raced' <=> raced \/ \E u \in Threads \ {t} : Clash(op, thread[u].op)
    BY <1>3, <1>5 DEF Begins
  <2>. QED  BY <1>4, <1>5, <2>4, <2>5
<1>6. CASE ~Admits(op)
  <2>1. PICK new : new = [thread[t] EXCEPT !.plan = rest]
    OBVIOUS
  <2>2. thread' = [thread EXCEPT ![t] = new]
    BY <1>3, <1>6, <2>1 DEF Begins
  <2>3. new = [at |-> thread[t].at, op |-> thread[t].op, c |-> thread[t].c, plan |-> rest]
    BY <1>1, <2>1 DEF ThreadStates
  <2>4. thread[t].at \in Places /\ thread[t].op \in Ops \cup {"none"} /\ thread[t].c \in Nat
    BY <1>1 DEF ThreadStates
  <2>5. Takes(t, thread[t].at, thread[t].op, thread[t].c)
    BY <1>4, <2>2, <2>4, <2>3, ThreadTakes
  <2>6. raced' <=> raced
    BY <1>3, <1>6 DEF Begins
  <2>. QED  BY <2>5, <2>6
<1>. QED  BY <1>5, <1>6

LEMMA QueueGrows ==
    ASSUME NEW S, NEW q \in Queues(S), NEW e \in S
    PROVE  /\ Len(q) \in Nat /\ Len(q) <= QueueSize
           /\ Len(q) < QueueSize => Append(q, e) \in Queues(S)
           /\ Len(q) >= QueueSize => Append(Tail(q), e) \in Queues(S)
           /\ q # <<>> => Tail(q) \in Queues(S)
<1>1. q \in Seq(S) /\ Len(q) \in Nat /\ Len(q) <= QueueSize /\ QueueSize \in Nat \ {0, 1}
  BY LiveDataAssumption DEF Queues
<1>2. Append(q, e) \in Seq(S) /\ Len(Append(q, e)) = Len(q) + 1
  BY <1>1
<1>3. ASSUME q # <<>>
      PROVE  /\ Tail(q) \in Seq(S) /\ Len(Tail(q)) = Len(q) - 1
             /\ Append(Tail(q), e) \in Seq(S) /\ Len(Append(Tail(q), e)) = Len(q)
  BY <1>1, <1>3
<1>4. Len(q) >= QueueSize => q # <<>>
  BY <1>1
<1>. QED  BY <1>1, <1>2, <1>3, <1>4 DEF Queues

Viewers == [at: {"off", "on", "dropped"}, queue: Queues({"data", "error"}), left: Nat]

LEMMA BroadcastTypes ==
    ASSUME Types, NEW m \in {"data", "error"}
    PROVE  Broadcast(m) \in Viewers
<1>1. viewer \in Viewers
  BY DEF Types, SessionTypes, Viewers
<1>2. viewer.queue \in Queues({"data", "error"})
  BY <1>1 DEF Viewers
<1>3. Len(viewer.queue) # QueueSize => Append(viewer.queue, m) \in Queues({"data", "error"})
  <2>1. Len(viewer.queue) \in Nat /\ Len(viewer.queue) <= QueueSize /\ QueueSize \in Nat
    BY <1>2, LiveDataAssumption DEF Queues
  <2>2. Len(viewer.queue) # QueueSize => Len(viewer.queue) < QueueSize
    BY <2>1
  <2>. QED  BY <1>2, <2>2, QueueGrows
<1>. QED  BY <1>1, <1>3 DEF Broadcast, Viewers

LEMMA EmittedTypes ==
    ASSUME NEW q \in Queues(Events), NEW e \in Events
    PROVE  Emitted(q, e) \in Queues(Events)
<1>1. Len(q) \in Nat /\ QueueSize \in Nat
  BY LiveDataAssumption DEF Queues
<1>. QED  BY <1>1, QueueGrows DEF Emitted

-----------------------------------------------------------------------------
(* The turns of a diagnosis.                                               *)

\* Only a takes a turn.  One that does not go does not go again.
AltersAnalysis(a) ==
    /\ analyses' \in Seq(AnalysisStates) /\ a \in DOMAIN analyses
    /\ DOMAIN analyses' = DOMAIN analyses /\ Len(analyses') = Len(analyses)
    /\ \A b \in DOMAIN analyses : b # a => analyses'[b] = analyses[b]
    /\ LET me == analyses[a] new == analyses'[a] IN
       /\ new.payload = me.payload
       /\ new.at \in {"starts", "streams"} /\ ~new.cancelled =>
            /\ me.at \in {"starts", "streams"} /\ ~me.cancelled
            /\ Quiet(me.queue) => Quiet(new.queue)

LEMMA AnalysisAt ==
    ASSUME Types, NEW a \in DOMAIN analyses
    PROVE  analyses[a] \in AnalysisStates /\ analyses \in Seq(AnalysisStates)
  BY DEF Types, EngineTypes

LEMMA AlteredAnalysis ==
    ASSUME Types, NEW a \in DOMAIN analyses, NEW e \in AnalysisStates,
           analyses' = [analyses EXCEPT ![a] = e], e.payload = analyses[a].payload,
           e.at \in {"starts", "streams"} /\ ~e.cancelled =>
              /\ analyses[a].at \in {"starts", "streams"} /\ ~analyses[a].cancelled
              /\ Quiet(analyses[a].queue) => Quiet(e.queue)
    PROVE  AltersAnalysis(a) /\ analyses'[a] = e
<1>1. /\ analyses' \in Seq(AnalysisStates)
      /\ DOMAIN analyses' = DOMAIN analyses /\ Len(analyses') = Len(analyses)
      /\ analyses'[a] = e
      /\ \A d \in DOMAIN analyses : d # a => analyses'[d] = analyses[d]
  BY AnalysisAt, Replaced
<1>. QED  BY <1>1 DEF AltersAnalysis

LEMMA QuietAppend ==
    ASSUME NEW q \in Seq(Events), NEW e \in {"progress", "chunk", "result"}, Quiet(q)
    PROVE  Quiet(Append(q, e))
<1>1. \A i \in DOMAIN Append(q, e) : (i \in DOMAIN q /\ Append(q, e)[i] = q[i]) \/ Append(q, e)[i] = e
  OBVIOUS
<1>. QED  BY <1>1 DEF Quiet

LEMMA QuietTail ==
    ASSUME NEW q \in Seq(Events), q # <<>>, Quiet(q)
    PROVE  Quiet(Tail(q))
<1>1. \A i \in DOMAIN Tail(q) : i + 1 \in DOMAIN q /\ Tail(q)[i] = q[i + 1]
  OBVIOUS
<1>. QED  BY <1>1 DEF Quiet

LEMMA QuietEmitted ==
    ASSUME NEW q \in Queues(Events), NEW e \in {"progress", "chunk"}, Quiet(q)
    PROVE  Quiet(Emitted(q, e))
  BY QuietAppend DEF Emitted, Essential, Queues

\* What is emitted is put into the queue of a diagnosis that is known.
LEMMA EmitsRecords ==
    ASSUME Types, NEW a \in DOMAIN analyses, NEW event \in Events
    PROVE  \E q \in Queues(Events) :
             /\ q = IF analyses[a].known THEN Emitted(analyses[a].queue, event) ELSE analyses[a].queue
             /\ Emits(a, event) = [analyses EXCEPT ![a] = [analyses[a] EXCEPT !.queue = q]]
             /\ [analyses[a] EXCEPT !.queue = q] \in AnalysisStates
             /\ event \in {"progress", "chunk"} /\ Quiet(analyses[a].queue) => Quiet(q)
<1>1. analyses[a] \in AnalysisStates /\ analyses \in Seq(AnalysisStates)
  BY AnalysisAt
<1>2. analyses[a].queue \in Queues(Events)
  BY <1>1 DEF AnalysisStates
<1>3. PICK q \in Queues(Events) :
        q = IF analyses[a].known THEN Emitted(analyses[a].queue, event) ELSE analyses[a].queue
  BY <1>2, EmittedTypes
<1>4. Emits(a, event) = [analyses EXCEPT ![a] = [analyses[a] EXCEPT !.queue = q]]
  <2>1. CASE analyses[a].known
    BY <1>3, <2>1 DEF Emits
  <2>2. CASE ~analyses[a].known
    <3>1. [analyses[a] EXCEPT !.queue = q] = analyses[a]
      BY <1>1, <1>3, <2>2 DEF AnalysisStates
    <3>2. [analyses EXCEPT ![a] = analyses[a]] = analyses
      BY <1>1
    <3>. QED  BY <2>2, <3>1, <3>2 DEF Emits
  <2>. QED  BY <2>1, <2>2
<1>5. [analyses[a] EXCEPT !.queue = q] \in AnalysisStates
  BY <1>1, <1>3 DEF AnalysisStates
<1>6. event \in {"progress", "chunk"} /\ Quiet(analyses[a].queue) => Quiet(q)
  BY <1>2, <1>3, QuietEmitted
<1>. QED  BY <1>3, <1>4, <1>5, <1>6

LEMMA EmitsQueue ==
    ASSUME Types
    PROVE  \A a \in DOMAIN analyses, event \in Events : \E q \in Queues(Events) :
             Emits(a, event) = [analyses EXCEPT ![a] = [analyses[a] EXCEPT !.queue = q]]
  BY EmitsRecords, Zenon

LEMMA StartsAnalysisRecords ==
    ASSUME Types, NEW a, StartsAnalysis(a)
    PROVE  /\ AltersAnalysis(a) /\ analyses[a].at = "starts"
           /\ analyses'[a].at # "over" /\ analyses'[a].known = analyses[a].known
<1>1. a \in DOMAIN analyses /\ analyses[a].at = "starts"
  BY DEF StartsAnalysis, Works
<1>2. analyses[a] \in AnalysisStates
  BY <1>1, AnalysisAt
<1>3. CASE analyses[a].cancelled
  <2>1. PICK e : e = [analyses[a] EXCEPT !.at = "cleans"]
    OBVIOUS
  <2>2. /\ e \in AnalysisStates /\ e.payload = analyses[a].payload /\ e.at = "cleans"
        /\ e.known = analyses[a].known
    BY <1>2, <2>1 DEF AnalysisStates
  <2>3. analyses' = [analyses EXCEPT ![a] = e]
    BY <1>3, <2>1 DEF StartsAnalysis, Goes
  <2>4. AltersAnalysis(a) /\ analyses'[a] = e
    BY <1>1, <2>2, <2>3, AlteredAnalysis
  <2>. QED  BY <1>1, <2>2, <2>4
<1>4. CASE ~analyses[a].cancelled
  <2>1. PICK q \in Queues(Events) :
          /\ Emits(a, "progress") = [analyses EXCEPT ![a] = [analyses[a] EXCEPT !.queue = q]]
          /\ Quiet(analyses[a].queue) => Quiet(q)
    BY <1>1, EmitsRecords DEF Events
  <2>2. PICK e : e = [analyses[a] EXCEPT !.queue = q, !.at = "streams", !.cached = TRUE]
    OBVIOUS
  <2>3. /\ e \in AnalysisStates /\ e.payload = analyses[a].payload /\ e.at = "streams"
        /\ e.known = analyses[a].known /\ e.cancelled = analyses[a].cancelled /\ e.queue = q
    BY <1>2, <2>2 DEF AnalysisStates
  <2>4. analyses' = [analyses EXCEPT ![a] = e]
    <3>1. analyses' = [Goes(Emits(a, "progress"), a, "streams") EXCEPT ![a].cached = TRUE]
      BY <1>4 DEF StartsAnalysis
    <3>. QED  BY <1>1, <2>1, <2>2, <3>1, AnalysisAt DEF Goes
  <2>5. AltersAnalysis(a) /\ analyses'[a] = e
    BY <1>1, <2>1, <2>3, <2>4, AlteredAnalysis
  <2>. QED  BY <1>1, <2>3, <2>5
<1>. QED  BY <1>3, <1>4

LEMMA StreamsRecords ==
    ASSUME Types, NEW a, Streams(a)
    PROVE  /\ AltersAnalysis(a) /\ analyses[a].at = "streams"
           /\ analyses'[a].at # "over" /\ analyses'[a].known = analyses[a].known
<1>1. a \in DOMAIN analyses /\ analyses[a].at = "streams"
  BY DEF Streams, Works
<1>2. analyses[a] \in AnalysisStates /\ MaxChunks \in Nat
  BY <1>1, AnalysisAt, LiveDataAssumption
<1>3. CASE analyses[a].chunks < MaxChunks /\ analyses[a].cancelled /\ analyses' = Goes(analyses, a, "cleans")
  <2>1. PICK e : e = [analyses[a] EXCEPT !.at = "cleans"]
    OBVIOUS
  <2>2. /\ e \in AnalysisStates /\ e.payload = analyses[a].payload /\ e.at = "cleans"
        /\ e.known = analyses[a].known
    BY <1>2, <2>1 DEF AnalysisStates
  <2>3. analyses' = [analyses EXCEPT ![a] = e]
    BY <1>3, <2>1 DEF Goes
  <2>4. AltersAnalysis(a) /\ analyses'[a] = e
    BY <1>1, <2>2, <2>3, AlteredAnalysis
  <2>. QED  BY <1>1, <2>2, <2>4
<1>4. CASE /\ analyses[a].chunks < MaxChunks /\ ~analyses[a].cancelled
           /\ analyses' = [Emits(a, "chunk") EXCEPT ![a].chunks = @ + 1]
  <2>1. PICK q \in Queues(Events) :
          /\ Emits(a, "chunk") = [analyses EXCEPT ![a] = [analyses[a] EXCEPT !.queue = q]]
          /\ [analyses[a] EXCEPT !.queue = q] \in AnalysisStates
          /\ Quiet(analyses[a].queue) => Quiet(q)
    BY <1>1, EmitsRecords DEF Events
  <2>2. PICK e : e = [analyses[a] EXCEPT !.queue = q, !.chunks = @ + 1]
    OBVIOUS
  <2>3. analyses[a].chunks + 1 \in 0..MaxChunks
    <3>1. analyses[a].chunks \in 0..MaxChunks
      BY <1>2 DEF AnalysisStates
    <3>. QED  BY <1>2, <1>4, <3>1
  <2>4. /\ e \in AnalysisStates /\ e.payload = analyses[a].payload /\ e.at = "streams"
        /\ e.known = analyses[a].known /\ e.cancelled = analyses[a].cancelled /\ e.queue = q
    BY <1>1, <1>2, <2>2, <2>3 DEF AnalysisStates
  <2>5. analyses' = [analyses EXCEPT ![a] = e]
    BY <1>1, <1>2, <1>4, <2>1, <2>2, AnalysisAt DEF AnalysisStates
  <2>6. AltersAnalysis(a) /\ analyses'[a] = e
    BY <1>1, <2>1, <2>4, <2>5, AlteredAnalysis
  <2>. QED  BY <1>1, <2>4, <2>6
<1>5. CASE \E event \in {"result", "error"} : analyses' = Goes(Emits(a, event), a, "cleans")
  <2>1. PICK event \in {"result", "error"} : analyses' = Goes(Emits(a, event), a, "cleans")
    BY <1>5
  <2>2. PICK q \in Queues(Events) : Emits(a, event) = [analyses EXCEPT ![a] = [analyses[a] EXCEPT !.queue = q]]
    <3>1. event \in Events
      BY DEF Events
    <3>. QED  BY <1>1, <3>1, EmitsQueue
  <2>3. PICK e : e = [analyses[a] EXCEPT !.queue = q, !.at = "cleans"]
    OBVIOUS
  <2>4. /\ e \in AnalysisStates /\ e.payload = analyses[a].payload /\ e.at = "cleans"
        /\ e.known = analyses[a].known
    BY <1>2, <2>3 DEF AnalysisStates
  <2>5. analyses' = [analyses EXCEPT ![a] = e]
    BY <1>1, <2>1, <2>2, <2>3, AnalysisAt DEF Goes
  <2>6. AltersAnalysis(a) /\ analyses'[a] = e
    BY <1>1, <2>4, <2>5, AlteredAnalysis
  <2>. QED  BY <1>1, <2>4, <2>6
<1>. QED  BY <1>3, <1>4, <1>5 DEF Streams

LEMMA CleansRecords ==
    ASSUME Types, NEW a, Cleans(a)
    PROVE  /\ AltersAnalysis(a) /\ analyses[a].at = "cleans"
           /\ analyses'[a].at = "frees" /\ analyses'[a].known = analyses[a].known
<1>1. a \in DOMAIN analyses /\ analyses[a].at = "cleans"
  BY DEF Cleans, Works
<1>2. analyses[a] \in AnalysisStates
  BY <1>1, AnalysisAt
<1>3. PICK q \in Queues(Events) : Emits(a, "done") = [analyses EXCEPT ![a] = [analyses[a] EXCEPT !.queue = q]]
  BY <1>1, EmitsRecords DEF Events
<1>4. PICK e : e = [analyses[a] EXCEPT !.queue = q, !.at = "frees"]
  OBVIOUS
<1>5. /\ e \in AnalysisStates /\ e.payload = analyses[a].payload /\ e.at = "frees"
      /\ e.known = analyses[a].known
  BY <1>2, <1>4 DEF AnalysisStates
<1>6. analyses' = [analyses EXCEPT ![a] = e]
  BY <1>1, <1>3, <1>4, AnalysisAt DEF Cleans, Goes
<1>7. AltersAnalysis(a) /\ analyses'[a] = e
  BY <1>1, <1>5, <1>6, AlteredAnalysis
<1>. QED  BY <1>1, <1>5, <1>7

LEMMA FreesRecords ==
    ASSUME Types, NEW a, Frees(a)
    PROVE  /\ AltersAnalysis(a) /\ analyses[a].at = "frees" /\ analyses'[a].at = "over"
<1>1. a \in DOMAIN analyses /\ analyses[a].at = "frees"
  BY DEF Frees, Works
<1>2. analyses[a] \in AnalysisStates
  BY <1>1, AnalysisAt
<1>3. PICK e : e = [analyses[a] EXCEPT !.at = "over", !.cancelled = FALSE]
  OBVIOUS
<1>4. e \in AnalysisStates /\ e.payload = analyses[a].payload /\ e.at = "over"
  BY <1>2, <1>3 DEF AnalysisStates
<1>5. analyses' = [analyses EXCEPT ![a] = e]
  BY <1>1, <1>3, AnalysisAt DEF Frees, Goes
<1>6. AltersAnalysis(a) /\ analyses'[a] = e
  BY <1>1, <1>4, <1>5, AlteredAnalysis
<1>. QED  BY <1>1, <1>4, <1>6

LEMMA ForgetsRecords ==
    ASSUME Types, NEW a, Forgets(a)
    PROVE  /\ AltersAnalysis(a) /\ analyses[a].at = "over" /\ analyses'[a].at = "over"
<1>1. a \in DOMAIN analyses /\ analyses[a].at = "over"
  BY DEF Forgets, Works
<1>2. analyses[a] \in AnalysisStates
  BY <1>1, AnalysisAt
<1>3. PICK e : e = [analyses[a] EXCEPT !.known = FALSE]
  OBVIOUS
<1>4. e \in AnalysisStates /\ e.payload = analyses[a].payload /\ e.at = "over"
  BY <1>1, <1>2, <1>3 DEF AnalysisStates
<1>5. analyses' = [analyses EXCEPT ![a] = e]
  BY <1>1, <1>3, AnalysisAt DEF Forgets
<1>6. AltersAnalysis(a) /\ analyses'[a] = e
  BY <1>1, <1>4, <1>5, AlteredAnalysis
<1>. QED  BY <1>1, <1>4, <1>6

\* A diagnosis that is cancelled is where it was.
LEMMA CancelsRecords ==
    ASSUME Types, NEW t \in Threads, Cancels(t)
    PROVE  \/ analyses' = analyses /\ (bound = 0 \/ (~analyses[bound].known /\ engine # bound))
           \/ /\ AltersAnalysis(bound) /\ analyses'[bound].cancelled
              /\ analyses'[bound].at = analyses[bound].at
              /\ analyses'[bound].known = analyses[bound].known
<1>1. CASE ~(bound # 0 /\ (analyses[bound].known \/ engine = bound))
  BY <1>1 DEF Cancels
<1>2. CASE bound # 0 /\ (analyses[bound].known \/ engine = bound)
  <2>1. bound \in DOMAIN analyses
    BY <1>2 DEF Types, EngineTypes
  <2>2. analyses[bound] \in AnalysisStates
    BY <2>1, AnalysisAt
  <2>3. PICK q \in Queues(Events) :
          Emits(bound, "error") = [analyses EXCEPT ![bound] = [analyses[bound] EXCEPT !.queue = q]]
    BY <2>1, EmitsRecords DEF Events
  <2>4. PICK e : e = [analyses[bound] EXCEPT !.queue = q, !.cancelled = TRUE]
    OBVIOUS
  <2>5. /\ e \in AnalysisStates /\ e.payload = analyses[bound].payload /\ e.at = analyses[bound].at
        /\ e.known = analyses[bound].known /\ e.cancelled = TRUE
    BY <2>2, <2>4 DEF AnalysisStates
  <2>6. analyses' = [analyses EXCEPT ![bound] = e]
    BY <1>2, <2>1, <2>3, <2>4, AnalysisAt DEF Cancels
  <2>7. AltersAnalysis(bound) /\ analyses'[bound] = e
    BY <2>1, <2>5, <2>6, AlteredAnalysis
  <2>. QED  BY <2>5, <2>7
<1>. QED  BY <1>1, <1>2

LEMMA HearsRecords ==
    ASSUME Types, Hears
    PROVE  /\ AltersAnalysis(reader.of)
           /\ LET me == analyses[reader.of] new == analyses'[reader.of] IN
              /\ new.at = me.at /\ new.known = me.known /\ new.cancelled = me.cancelled
              /\ me.queue # <<>>
<1>1. reader.of \in DOMAIN analyses /\ analyses[reader.of].queue # <<>>
  BY DEF Hears, Types, EngineTypes
<1>2. PICK a \in DOMAIN analyses : a = reader.of
  BY <1>1
<1>3. analyses[a] \in AnalysisStates
  BY AnalysisAt
<1>4. analyses[a].queue \in Queues(Events) /\ analyses[a].queue \in Seq(Events)
  BY <1>3 DEF AnalysisStates, Queues
<1>5. PICK q \in Queues(Events) : q = Tail(analyses[a].queue)
  <2>1. "done" \in Events
    BY DEF Events
  <2>. QED  BY <1>1, <1>2, <1>4, <2>1, QueueGrows
<1>6. PICK e : e = [analyses[a] EXCEPT !.queue = q]
  OBVIOUS
<1>7. /\ e \in AnalysisStates /\ e.payload = analyses[a].payload /\ e.at = analyses[a].at /\ e.queue = q
      /\ e.known = analyses[a].known /\ e.cancelled = analyses[a].cancelled
  BY <1>3, <1>6 DEF AnalysisStates
<1>8. analyses' = [analyses EXCEPT ![a] = e]
  BY <1>2, <1>5, <1>6, AnalysisAt DEF Hears
<1>9. Quiet(analyses[a].queue) => Quiet(q)
  BY <1>1, <1>2, <1>4, <1>5, QuietTail
<1>10. AltersAnalysis(a) /\ analyses'[a] = e
  BY <1>7, <1>8, <1>9, AlteredAnalysis
<1>. QED  BY <1>1, <1>2, <1>7, <1>10

LEMMA AnalysesRecords ==
    ASSUME Types, NEW t \in Threads, Analyses(t)
    PROVE  \/ /\ engine # 0 /\ engine' = engine /\ analyses' = analyses
              /\ Takes(t, "idle", "none", 0)
           \/ LET a == Len(analyses) + 1 new == analyses'[a] IN
              /\ engine = 0 /\ engine' = a /\ a \in Nat
              /\ analyses' \in Seq(AnalysisStates) /\ Len(analyses') = a
              /\ DOMAIN analyses' = DOMAIN analyses \cup {a} /\ a \notin DOMAIN analyses
              /\ \A b \in DOMAIN analyses : analyses'[b] = analyses[b]
              /\ new.at = "starts" /\ new.known /\ Quiet(new.queue)
              /\ new.payload = IF thread[t].op = "ai" THEN thread[t].c ELSE 0
              /\ Takes(t, "binds", thread[t].op, a)
<1>1. thread[t] \in ThreadStates
  BY ThreadAt
<1>2. CASE engine # 0
  BY <1>2, ThreadReturns DEF Analyses
<1>3. CASE engine = 0
  <2>1. analyses \in Seq(AnalysisStates) /\ Len(analyses) \in Nat /\ MaxChunks \in Nat /\ QueueSize \in Nat
    BY LiveDataAssumption DEF Types, EngineTypes
  <2>2. PICK payload \in Nat : payload = IF thread[t].op = "ai" THEN thread[t].c ELSE 0
    BY <1>1 DEF ThreadStates
  <2>3. PICK e : e = [at |-> "starts", queue |-> <<>>, known |-> TRUE, cancelled |-> FALSE,
                      cached |-> FALSE, chunks |-> 0, payload |-> payload]
    OBVIOUS
  <2>4. <<>> \in Seq(Events)
    OBVIOUS
  <2>5. <<>> \in Queues(Events) /\ 0 \in 0..MaxChunks
    BY <2>1, <2>4 DEF Queues
  <2>6. e \in AnalysisStates
    BY <2>3, <2>5 DEF AnalysisStates
  <2>7. analyses' = Append(analyses, e) /\ engine' = Len(analyses) + 1 /\ MovesWith(t, "binds", Len(analyses) + 1)
    BY <1>3, <2>2, <2>3 DEF Analyses
  <2>8. /\ analyses' \in Seq(AnalysisStates) /\ Len(analyses') = Len(analyses) + 1
        /\ DOMAIN analyses' = DOMAIN analyses \cup {Len(analyses) + 1} /\ Len(analyses) + 1 \notin DOMAIN analyses
        /\ \A b \in DOMAIN analyses : analyses'[b] = analyses[b]
        /\ analyses'[Len(analyses) + 1] = e
    BY <2>1, <2>6, <2>7, AddedTo
  <2>9. Takes(t, "binds", thread[t].op, Len(analyses) + 1)
    <3>1. "binds" \in Places /\ Len(analyses) + 1 \in Nat
      BY <2>1 DEF Places
    <3>. QED  BY <2>7, <3>1, ThreadMovesWith
  <2>10. Quiet(<<>>)
    BY DEF Quiet
  <2>11. /\ e.at = "starts" /\ e.known /\ e.queue = <<>>
         /\ e.payload = IF thread[t].op = "ai" THEN thread[t].c ELSE 0
    BY <2>2, <2>3
  <2>. QED  BY <1>3, <2>1, <2>7, <2>8, <2>9, <2>10, <2>11
<1>. QED  BY <1>2, <1>3

-----------------------------------------------------------------------------
(* What a step has to keep for the shape of the state to be kept.          *)

\* Collectors are what they are for, and one that has ended stays so.
Grows ==
    /\ DOMAIN collectors \subseteq DOMAIN collectors'
    /\ \A c \in DOMAIN collectors :
         collectors'[c].for = collectors[c].for /\ (collectors'[c].run => collectors[c].run)

LEMMA SameGrows ==
    ASSUME SameCollectors PROVE Grows
  BY DEF SameCollectors, Grows

\* Who is where he was refers to what he referred to.
LEMMA ReferencesKept ==
    ASSUME Types, References, Grows, DOMAIN analyses \subseteq DOMAIN analyses',
           \A t \in Threads : thread'[t] = thread[t] \/ (Stays(t) /\ Refers(t))',
           active' # 0 => active' = active \/ collectors'[active'].for = "live",
           \A a \in DOMAIN analyses' :
              \/ a \in DOMAIN analyses /\ analyses'[a].payload = analyses[a].payload
              \/ analyses'[a].payload # 0 => (IsPayload(analyses[a].payload))'
    PROVE  References'
<1>1. ASSUME NEW c, ForDiagnosis(c) PROVE (ForDiagnosis(c))'
  BY <1>1 DEF Grows, ForDiagnosis
<1>2. ASSUME NEW c, IsPayload(c) PROVE (IsPayload(c))'
  BY <1>2, <1>1 DEF Grows, IsPayload, ForDiagnosis
<1>3. ASSUME NEW t \in Threads, thread'[t] = thread[t] PROVE (Stays(t) /\ Refers(t))'
  <2>1. Stays(t) /\ Refers(t)
    BY DEF References
  <2>2. (Stays(t))'
    BY <1>3, <2>1 DEF Stays
  <2>3. Gathers(t) <=> (Gathers(t))'
    BY <1>3 DEF Gathers
  <2>4. (Refers(t))'
    BY <1>1, <1>2, <1>3, <2>1, <2>3 DEF Refers
  <2>. QED  BY <2>2, <2>4
<1>4. active' # 0 => collectors'[active'].for = "live"
  <2>1. active \in 0..Len(collectors) /\ DOMAIN collectors = 1..Len(collectors)
    BY DEF Types, CollectorTypes
  <2>. QED  BY <2>1 DEF References, Grows
<1>5. ASSUME NEW a \in DOMAIN analyses', analyses'[a].payload # 0
      PROVE  (IsPayload(analyses[a].payload))'
  <2>1. CASE a \in DOMAIN analyses /\ analyses'[a].payload = analyses[a].payload
    <3>1. PICK c : c = analyses[a].payload
      OBVIOUS
    <3>2. IsPayload(c)
      BY <1>5, <2>1, <3>1 DEF References
    <3>3. (IsPayload(c))'
      BY <1>2, <3>2
    <3>. QED  BY <2>1, <3>1, <3>3 DEF IsPayload, ForDiagnosis
  <2>. QED  BY <1>5, <2>1
<1>6. \A t \in Threads : (Stays(t) /\ Refers(t))'
  BY <1>3
<1>. QED  BY <1>4, <1>5, <1>6 DEF References

LEMMA CollectorTypesKept ==
    ASSUME Types, SameCollectors, gds'.link \in Nat, gds.link <= gds'.link, active' \in {0, active},
           \A c \in DOMAIN collectors : collectors'[c].buffer = collectors[c].buffer
                                        \/ collectors'[c].buffer \subseteq 1..gds'.link
    PROVE  CollectorTypes'
<1>1. gds.link \in Nat /\ Len(collectors) \in Nat
  BY DEF Types, PageTypes, CollectorTypes
<1>2. ASSUME NEW c \in DOMAIN collectors' PROVE collectors'[c].buffer \subseteq 1..gds'.link
  <2>1. c \in DOMAIN collectors
    BY DEF SameCollectors
  <2>2. collectors[c].buffer \subseteq 1..gds.link
    BY <2>1 DEF Types, CollectorTypes
  <2>3. 1..gds.link \subseteq 1..gds'.link
    BY <1>1
  <2>. QED  BY <2>1, <2>2, <2>3
<1>3. collectors' \in Seq(CollectorStates) /\ Len(collectors') = Len(collectors)
  BY DEF SameCollectors
<1>4. Len(collectors') <= MaxMade /\ active' \in 0..Len(collectors')
  BY <1>1, <1>3 DEF Types, CollectorTypes
<1>. QED  BY <1>2, <1>3, <1>4 DEF CollectorTypes

LEMMA PageTypesKept ==
    ASSUME Types, UNCHANGED <<gds, file, left>> PROVE PageTypes'
  BY DEF Types, PageTypes

LEMMA EngineTypesKept ==
    ASSUME Types, UNCHANGED <<analyses, bound, engine, reader>> PROVE EngineTypes'
  BY DEF Types, EngineTypes

LEMMA FaultSpent ==
    ASSUME Types, left.faults > 0, left' = [left EXCEPT !.faults = @ - 1]
    PROVE  left' \in [pages: SUBSET Pages, drifts: Nat, writes: Nat, faults: Nat]
<1>1. left \in [pages: SUBSET Pages, drifts: Nat, writes: Nat, faults: Nat]
  BY DEF Types, PageTypes
<1>2. left.faults - 1 \in Nat
  BY <1>1
<1>. QED  BY <1>1, <1>2

\* A turn of a collector leaves alone what is not about collectors.
LEMMA CollectorTurn ==
    ASSUME Types, References, NEW c, Guards(c), SameCollectors, viewer' \in Viewers,
           PageTypes', gds.link <= gds'.link,
           \A d \in DOMAIN collectors : collectors'[d].buffer = collectors[d].buffer
                                        \/ collectors'[d].buffer \subseteq 1..gds'.link
    PROVE  Types' /\ References'
<1>1. UNCHANGED <<active, status, live, bound, thread, analyses, engine, reader, raced, misled>>
  BY DEF Guards
<1>2. gds'.link \in Nat
  BY DEF PageTypes
<1>3. CollectorTypes'
  BY <1>1, <1>2, CollectorTypesKept
<1>4. EngineTypes'
  BY <1>1, EngineTypesKept
<1>5. SessionTypes'
  BY <1>1 DEF Types, SessionTypes, Viewers
<1>6. Types'
  BY <1>3, <1>4, <1>5 DEF Types
<1>7. References'
  BY <1>1, ReferencesKept, SameGrows
<1>. QED  BY <1>6, <1>7

LEMMA CollectorStepsKeepShape ==
    ASSUME Types, References, NEW c, GuardTurn(c) \/ Poll(c) \/ PollFails(c)
    PROVE  Types' /\ References'
<1>1. viewer \in Viewers /\ gds.link \in Nat
  BY DEF Types, SessionTypes, PageTypes, Viewers
<1>2. CASE Looks(c)
  <2>1. UNCHANGED <<gds, file, viewer, left>> /\ Guards(c)
    BY <1>2 DEF Looks
  <2>. QED  BY <1>1, <1>2, <2>1, LooksRecords, PageTypesKept, CollectorTurn
               DEF Alters, Alike, Keeps
<1>3. CASE Recovers(c)
  <2>1. UNCHANGED <<gds, file, viewer, left>> /\ Guards(c)
    BY <1>3 DEF Recovers
  <2>. QED  BY <1>1, <1>3, <2>1, RecoversRecords, PageTypesKept, CollectorTurn
               DEF Alters, Alike, Keeps
<1>4. CASE LoadsTooLong(c)
  <2>1. UNCHANGED <<file, viewer, left>> /\ Guards(c)
    BY <1>4 DEF LoadsTooLong
  <2>2. PageTypes' /\ gds.link <= gds'.link
    BY <1>1, <1>4, <2>1, LoadsTooLongRecords DEF Types, PageTypes
  <2>. QED  BY <1>1, <1>4, <2>1, <2>2, LoadsTooLongRecords, CollectorTurn
               DEF Alters, Alike, Keeps
<1>5. CASE RouteEnds(c)
  <2>1. UNCHANGED <<viewer, left>> /\ Guards(c)
    BY <1>5 DEF RouteEnds
  <2>2. RouteTaken(c) /\ gds' \in [page: Pages, link: Nat \ {0}]
        /\ file' \in [count: Nat, link: Nat] /\ file'.link = file.link
    BY <1>5, RouteEndsRecords
  <2>3. gds.link <= gds'.link
    BY <1>1, <2>2 DEF RouteTaken
  <2>4. PageTypes'
    BY <1>1, <2>1, <2>2, <2>3 DEF Types, PageTypes
  <2>. QED  BY <1>1, <1>5, <2>1, <2>3, <2>4, RouteEndsRecords, CollectorTurn
               DEF Alters, Alike, Keeps
<1>6. CASE Reports(c)
  <2>1. UNCHANGED <<gds, file, left>> /\ Guards(c) /\ viewer' \in Viewers
    BY <1>1, <1>6, BroadcastTypes DEF Reports, Told
  <2>. QED  BY <1>1, <1>6, <2>1, ReportsRecords, PageTypesKept, CollectorTurn
               DEF Alters, Alike, Keeps
<1>7. CASE Poll(c)
  <2>1. UNCHANGED <<gds, file, left>> /\ Guards(c) /\ viewer' \in Viewers
    BY <1>1, <1>7, BroadcastTypes DEF Poll
  <2>2. c \in DOMAIN collectors
    BY <2>1 DEF Guards
  <2>3. collectors'[c].buffer = collectors[c].buffer \/ collectors'[c].buffer \subseteq 1..gds'.link
    <3>1. collectors[c].buffer \subseteq 1..gds.link /\ file.link \in Nat /\ file.link <= gds.link
      BY <2>2 DEF Types, CollectorTypes, PageTypes
    <3>2. collectors'[c].buffer \subseteq (collectors[c].buffer \cup {file.link}) \ {0}
          \/ collectors'[c].buffer = collectors[c].buffer
      BY <1>7, PollRecords
    <3>. QED  BY <1>1, <2>1, <3>1, <3>2
  <2>4. Alters(c)
    BY <1>7, PollRecords
  <2>5. PageTypes' /\ gds.link <= gds'.link
    BY <1>1, <2>1, PageTypesKept
  <2>6. SameCollectors /\ \A d \in DOMAIN collectors : d # c => collectors'[d].buffer = collectors[d].buffer
    BY <2>4 DEF Alters, Alike, Keeps
  <2>. QED  BY <2>1, <2>3, <2>5, <2>6, CollectorTurn
<1>8. CASE PollFails(c)
  <2>1. UNCHANGED <<gds, file>> /\ Guards(c) /\ viewer' \in Viewers
    BY <1>1, <1>8, BroadcastTypes DEF PollFails, Told
  <2>2. left' \in [pages: SUBSET Pages, drifts: Nat, writes: Nat, faults: Nat]
    BY <1>8, FaultSpent DEF PollFails
  <2>3. PageTypes'
    BY <2>1, <2>2 DEF Types, PageTypes
  <2>. QED  BY <1>1, <1>8, <2>1, <2>3, PollFailsRecords, CollectorTurn DEF Alters, Alike, Keeps
<1>. QED  BY <1>2, <1>3, <1>4, <1>5, <1>6, <1>7, <1>8 DEF GuardTurn

-----------------------------------------------------------------------------
(* Requests keep the shape.                                                *)

\* A request that leaves the collectors and the diagnoses as they are.
LEMMA RequestTurns ==
    ASSUME Types, References, NEW t \in Threads, NEW at, NEW op, NEW c, Takes(t, at, op, c),
           (Stays(t) /\ Refers(t))',
           UNCHANGED <<file, viewer, reader, collectors, analyses, engine>>,
           gds' \in [page: Pages, link: {gds.link}],
           left' \in [pages: SUBSET Pages, drifts: Nat, writes: Nat, faults: Nat],
           active' \in {0, active}, bound' \in 0..Len(analyses), status' \in {"running", "aborted"},
           {live', raced', misled'} \subseteq BOOLEAN
    PROVE  Types' /\ References'
<1>1. gds.link \in Nat \ {0} /\ collectors \in Seq(CollectorStates)
  BY DEF Types, PageTypes, CollectorTypes
<1>2. PageTypes'
  <2>1. gds' \in [page: Pages, link: Nat \ {0}] /\ gds'.link = gds.link
    BY <1>1
  <2>. QED  BY <2>1 DEF Types, PageTypes
<1>3. SameCollectors
  BY <1>1 DEF SameCollectors
<1>4. CollectorTypes'
  <2>1. gds'.link = gds.link
    OBVIOUS
  <2>. QED  BY <1>1, <1>3, <2>1, CollectorTypesKept
<1>5. SessionTypes'
  BY DEF Types, SessionTypes, Takes
<1>6. EngineTypes'
  BY DEF Types, EngineTypes
<1>7. References'
  BY <1>3, ReferencesKept, SameGrows DEF Takes
<1>. QED  BY <1>2, <1>4, <1>5, <1>6, <1>7 DEF Types

LEMMA OwnPlace ==
    ASSUME NEW t \in Threads, NEW at, NEW op, NEW c, Takes(t, at, op, c)
    PROVE  thread'[t].at = at /\ thread'[t].op = op /\ thread'[t].c = c
  BY DEF Takes

\* Who is idle refers to nothing.
LEMMA IdleRefers ==
    ASSUME NEW t \in Threads, Takes(t, "idle", "none", 0)
    PROVE  (Stays(t) /\ Refers(t))'
  BY OwnPlace DEF Stays, Refers, Gathers

LEMMA BeginsShape ==
    ASSUME Types, References, NEW t \in Threads, Begins(t)
    PROVE  Types' /\ References'
<1>1. UNCHANGED <<gds, file, collectors, active, status, live, bound, viewer, analyses, engine, reader, left, misled>>
  BY DEF Begins
<1>2. /\ gds' \in [page: Pages, link: {gds.link}] /\ active' \in {0, active} /\ bound' \in 0..Len(analyses)
      /\ left' \in [pages: SUBSET Pages, drifts: Nat, writes: Nat, faults: Nat]
      /\ status' \in {"running", "aborted"} /\ {live', misled'} \subseteq BOOLEAN
  BY <1>1 DEF Types, PageTypes, SessionTypes, EngineTypes
<1>3. raced' \in BOOLEAN
  BY DEF Begins, Types, SessionTypes
<1>4. ASSUME Takes(t, thread[t].at, thread[t].op, thread[t].c)
      PROVE  Types' /\ References'
  <2>1. thread'[t].at = thread[t].at /\ thread'[t].op = thread[t].op /\ thread'[t].c = thread[t].c
    BY <1>4, OwnPlace
  <2>2. (Stays(t) /\ Refers(t))'
    BY <1>1, <2>1 DEF References, Stays, Refers, Gathers, ForDiagnosis, IsPayload
  <2>. QED  BY <1>1, <1>2, <1>3, <1>4, <2>2, RequestTurns
<1>5. ASSUME NEW op \in Ops, Takes(t, First(op), op, 0)
      PROVE  Types' /\ References'
  <2>1. thread'[t].at = First(op) /\ thread'[t].op = op
    BY <1>5, OwnPlace
  <2>2. (Stays(t) /\ Refers(t))'
    BY <2>1 DEF First, Stays, Refers, Gathers, Ops, Making, Ending
  <2>. QED  BY <1>1, <1>2, <1>3, <1>5, <2>2, RequestTurns
<1>. QED  BY <1>4, <1>5, BeginsRecords

LEMMA EntersShape ==
    ASSUME Types, References, NEW t \in Threads, Enters(t)
    PROVE  Types' /\ References'
<1>1. UNCHANGED <<file, status, reader, raced, misled, collectors, active, live, bound, viewer, analyses, engine>>
  BY DEF Enters, Asks
<1>2. /\ active' \in {0, active} /\ bound' \in 0..Len(analyses)
      /\ status' \in {"running", "aborted"} /\ {live', raced', misled'} \subseteq BOOLEAN
  BY <1>1 DEF Types, SessionTypes, EngineTypes
<1>3. /\ gds \in [page: Pages, link: Nat \ {0}]
      /\ left \in [pages: SUBSET Pages, drifts: Nat, writes: Nat, faults: Nat]
  BY DEF Types, PageTypes
<1>4. thread[t].at = "enters" /\ thread[t].op \in {"start", "ai"}
  BY DEF Enters, At, References, Stays
<1>5. CASE gds' = [gds EXCEPT !.page = "display"] /\ Moves(t, "creates") /\ UNCHANGED left
  <2>1. Takes(t, "creates", thread[t].op, thread[t].c)
    BY <1>5, ThreadMoves DEF Places
  <2>2. (Stays(t) /\ Refers(t))'
    BY <1>4, <2>1, OwnPlace DEF Stays, Refers, Gathers
  <2>3. gds' \in [page: Pages, link: {gds.link}]
    BY <1>3, <1>5 DEF Pages
  <2>. QED  BY <1>1, <1>2, <1>3, <1>5, <2>1, <2>2, <2>3, RequestTurns
<1>6. CASE /\ left.faults > 0 /\ left' = [left EXCEPT !.faults = @ - 1]
           /\ gds' = [gds EXCEPT !.page = "away"] /\ Returns(t)
  <2>1. Takes(t, "idle", "none", 0)
    BY <1>6, ThreadReturns
  <2>2. (Stays(t) /\ Refers(t))'
    BY <2>1, IdleRefers
  <2>3. gds' \in [page: Pages, link: {gds.link}]
    BY <1>3, <1>6 DEF Pages
  <2>4. left' \in [pages: SUBSET Pages, drifts: Nat, writes: Nat, faults: Nat]
    BY <1>6, FaultSpent
  <2>. QED  BY <1>1, <1>2, <2>1, <2>2, <2>3, <2>4, RequestTurns
<1>. QED  BY <1>5, <1>6 DEF Enters

LEMMA CreatesShape ==
    ASSUME Types, References, NEW t \in Threads, Creates(t)
    PROVE  Types' /\ References'
<1>. DEFINE new == Len(collectors) + 1
<1>1. UNCHANGED <<gds, file, status, live, bound, viewer, analyses, engine, reader, left, raced, misled>>
  BY DEF Creates, Asks
<1>2. /\ collectors' \in Seq(CollectorStates) /\ Len(collectors') = new /\ new <= MaxMade
      /\ DOMAIN collectors' = DOMAIN collectors \cup {new} /\ new \notin DOMAIN collectors
      /\ \A d \in DOMAIN collectors : collectors'[d] = collectors[d]
      /\ collectors'[new].for = IF thread[t].op = "start" THEN "live" ELSE "ai"
      /\ collectors'[new].buffer = {}
  BY CreatesRecords
<1>3. thread[t].at = "creates" /\ thread[t].op \in {"start", "ai"}
  BY DEF Creates, At, References, Stays
<1>4. new \in Nat /\ new # 0 /\ active \in 0..Len(collectors)
  BY DEF Types, CollectorTypes
<1>5. \/ thread[t].op = "start" /\ active' = new /\ Takes(t, "flags", "start", new)
      \/ thread[t].op = "ai" /\ active' = active /\ Takes(t, "collects", "ai", new)
  BY <1>3, <1>4, ThreadMovesWith DEF Creates, Places
<1>6. PageTypes' /\ EngineTypes'
  BY <1>1, PageTypesKept, EngineTypesKept
<1>7. SessionTypes'
  BY <1>1, <1>5 DEF Types, SessionTypes, Takes
<1>8. CollectorTypes'
  <2>1. active' \in 0..new
    BY <1>4, <1>5
  <2>2. \A c \in DOMAIN collectors' : collectors'[c].buffer \subseteq 1..gds'.link
    BY <1>1, <1>2 DEF Types, CollectorTypes
  <2>. QED  BY <1>2, <2>1, <2>2 DEF CollectorTypes
<1>9. (Stays(t) /\ Refers(t))'
  <2>1. CASE thread'[t].at = "flags" /\ thread'[t].op = "start"
    BY <2>1 DEF Stays, Refers, Gathers
  <2>2. CASE thread'[t].at = "collects" /\ thread'[t].op = "ai" /\ thread'[t].c = new /\ thread[t].op = "ai"
    <3>1. collectors'[new].for = "ai" /\ new \in DOMAIN collectors'
      BY <1>2, <2>2
    <3>2. (ForDiagnosis(thread[t].c))'
      BY <2>2, <3>1 DEF ForDiagnosis
    <3>. QED  BY <2>2, <3>2 DEF Stays, Refers, Gathers
  <2>. QED  BY <1>5, <2>1, <2>2, OwnPlace
<1>10. Grows
  BY <1>2 DEF Grows
<1>11. active' # 0 => active' = active \/ collectors'[active'].for = "live"
  BY <1>2, <1>5
<1>12. \A u \in Threads : u # t => thread'[u] = thread[u]
  BY <1>5 DEF Takes
<1>13. References'
  BY <1>1, <1>9, <1>10, <1>11, <1>12, ReferencesKept
<1>. QED  BY <1>6, <1>7, <1>8, <1>13 DEF Types

\* What RequestTurns asks of what a request leaves alone.
LEMMA Untouched ==
    ASSUME Types
    PROVE  /\ gds \in [page: Pages, link: {gds.link}] /\ bound \in 0..Len(analyses)
           /\ left \in [pages: SUBSET Pages, drifts: Nat, writes: Nat, faults: Nat]
           /\ status \in {"running", "aborted"} /\ {live, raced, misled} \subseteq BOOLEAN
           /\ 0 \in 0..Len(analyses)
<1>1. gds \in [page: Pages, link: Nat \ {0}] /\ Len(analyses) \in Nat
  BY DEF Types, PageTypes, EngineTypes
<1>. QED  BY <1>1 DEF Types, PageTypes, SessionTypes, EngineTypes

LEMMA NoAgentShape ==
    ASSUME Types, References, NEW t \in Threads, NoAgent(t)
    PROVE  Types' /\ References'
<1>1. UNCHANGED <<gds, file, status, reader, raced, misled, collectors, active, live, bound, viewer, analyses, engine>>
  BY DEF NoAgent, Asks
<1>2. Takes(t, "idle", "none", 0)
  BY ThreadReturns DEF NoAgent
<1>3. left' \in [pages: SUBSET Pages, drifts: Nat, writes: Nat, faults: Nat]
  BY FaultSpent DEF NoAgent
<1>. QED  BY <1>1, <1>2, <1>3, IdleRefers, Untouched, RequestTurns

LEMMA FlagsShape ==
    ASSUME Types, References, NEW t \in Threads, Flags(t)
    PROVE  Types' /\ References'
<1>1. UNCHANGED <<gds, file, status, reader, raced, misled, collectors, active, bound, viewer, analyses, engine, left>>
  BY DEF Flags, Asks
<1>2. Takes(t, "idle", "none", 0) /\ live' = TRUE
  BY ThreadReturns DEF Flags
<1>. QED  BY <1>1, <1>2, IdleRefers, Untouched, RequestTurns

\* Who collects does so with a collector of a diagnosis.
LEMMA Collects ==
    ASSUME Types, References, NEW t \in Threads, At(t, "collects")
    PROVE  /\ thread[t].at = "collects" /\ thread[t].op = "ai"
           /\ ForDiagnosis(thread[t].c) /\ thread[t].c \in DOMAIN collectors
  BY DEF At, References, Stays, Refers, Gathers, ForDiagnosis

LEMMA StartsOverShape ==
    ASSUME Types, References, NEW t \in Threads, StartsOver(t)
    PROVE  Types' /\ References'
<1>1. UNCHANGED <<file, status, reader, raced, misled, thread, gds, active, live, bound, viewer, analyses, engine, left>>
  BY DEF StartsOver, Asks
<1>2. thread[t].c \in DOMAIN collectors
  BY Collects DEF StartsOver
<1>3. Alters(thread[t].c)
  BY <1>2, StartsOverRecords
<1>4. \/ collectors'[thread[t].c].buffer = {}
      \/ collectors'[thread[t].c].buffer = collectors[thread[t].c].buffer
  BY <1>2, StartsOverRecords
<1>5. CollectorTypes'
  <2>1. gds.link \in Nat /\ gds' = gds
    BY <1>1 DEF Types, PageTypes
  <2>2. \A c \in DOMAIN collectors :
          collectors'[c].buffer = collectors[c].buffer \/ collectors'[c].buffer \subseteq 1..gds'.link
    BY <1>3, <1>4 DEF Alters, Alike, Keeps
  <2>. QED  BY <1>1, <1>3, <2>1, <2>2, CollectorTypesKept DEF Alters
<1>6. PageTypes' /\ EngineTypes'
  BY <1>1, PageTypesKept, EngineTypesKept
<1>7. SessionTypes'
  BY <1>1 DEF Types, SessionTypes
<1>8. References'
  BY <1>1, <1>3, SameGrows, ReferencesKept DEF Alters
<1>. QED  BY <1>5, <1>6, <1>7, <1>8 DEF Types

LEMMA StopsCollectingShape ==
    ASSUME Types, References, NEW t \in Threads, StopsCollecting(t)
    PROVE  Types' /\ References'
<1>1. UNCHANGED <<file, status, reader, raced, misled, gds, active, live, bound, viewer, analyses, engine, left>>
  BY DEF StopsCollecting, Asks
<1>2. /\ thread[t].c \in DOMAIN collectors /\ thread[t].op = "ai" /\ ForDiagnosis(thread[t].c)
  BY Collects DEF StopsCollecting
<1>3. Alters(thread[t].c) /\ ~collectors'[thread[t].c].run
      /\ collectors'[thread[t].c].buffer = collectors[thread[t].c].buffer
  BY <1>2, StopsCollectingRecords
<1>4. Takes(t, "joins", "ai", thread[t].c)
  BY <1>2, ThreadMoves DEF StopsCollecting, Places
<1>5. CollectorTypes'
  <2>1. gds.link \in Nat /\ gds' = gds
    BY <1>1 DEF Types, PageTypes
  <2>2. \A c \in DOMAIN collectors : collectors'[c].buffer = collectors[c].buffer
    BY <1>3 DEF Alters, Alike, Keeps
  <2>. QED  BY <1>1, <1>3, <2>1, <2>2, CollectorTypesKept DEF Alters
<1>6. PageTypes' /\ EngineTypes'
  BY <1>1, PageTypesKept, EngineTypesKept
<1>7. SessionTypes'
  BY <1>1, <1>4 DEF Types, SessionTypes, Takes
<1>8. (Stays(t) /\ Refers(t))'
  <2>1. (IsPayload(thread[t].c))'
    BY <1>2, <1>3, <1>4, OwnPlace DEF IsPayload, ForDiagnosis, Alters, SameCollectors
  <2>. QED  BY <1>4, <2>1, OwnPlace DEF Stays, Refers, Gathers, IsPayload
<1>9. \A u \in Threads : u # t => thread'[u] = thread[u]
  BY <1>4 DEF Takes
<1>10. References'
  BY <1>1, <1>3, <1>8, <1>9, SameGrows, ReferencesKept DEF Alters
<1>. QED  BY <1>5, <1>6, <1>7, <1>10 DEF Types

LEMMA StopsShape ==
    ASSUME Types, References, NEW t \in Threads, Stops(t)
    PROVE  Types' /\ References'
<1>1. UNCHANGED <<file, status, reader, raced, misled, gds, active, live, bound, viewer, analyses, engine, left>>
  BY DEF Stops, Asks
<1>2. thread[t].at = "stops" /\ thread[t].op \in Ending
  BY DEF Stops, At, References, Stays
<1>3. SameCollectors /\ \A d \in DOMAIN collectors : collectors'[d].buffer = collectors[d].buffer
  BY StopsRecords DEF Alike, Keeps
<1>4. Takes(t, "joins", thread[t].op, active)
  <2>1. active \in Nat
    BY DEF Types, CollectorTypes
  <2>. QED  BY <2>1, ThreadMovesWith DEF Stops, Places
<1>5. CollectorTypes'
  <2>1. gds.link \in Nat /\ gds' = gds
    BY <1>1 DEF Types, PageTypes
  <2>. QED  BY <1>1, <1>3, <2>1, CollectorTypesKept
<1>6. PageTypes' /\ EngineTypes'
  BY <1>1, PageTypesKept, EngineTypesKept
<1>7. SessionTypes'
  BY <1>1, <1>4 DEF Types, SessionTypes, Takes
<1>8. (Stays(t) /\ Refers(t))'
  BY <1>2, <1>4, OwnPlace DEF Stays, Refers, Gathers, Ending
<1>9. \A u \in Threads : u # t => thread'[u] = thread[u]
  BY <1>4 DEF Takes
<1>10. References'
  BY <1>1, <1>3, <1>8, <1>9, SameGrows, ReferencesKept
<1>. QED  BY <1>5, <1>6, <1>7, <1>10 DEF Types

LEMMA JoinsShape ==
    ASSUME Types, References, NEW t \in Threads, Joins(t)
    PROVE  Types' /\ References'
<1>1. UNCHANGED <<file, status, reader, raced, misled, gds, collectors, live, bound, viewer, analyses, engine, left>>
  BY DEF Joins, Asks
<1>2. thread[t].at = "joins" /\ thread[t].op \in Ending \cup {"ai"}
  BY DEF Joins, At, References, Stays
<1>3. CASE thread[t].op # "ai"
  <2>1. Takes(t, "leaves", thread[t].op, thread[t].c) /\ active' = 0
    BY <1>3, ThreadMoves DEF Joins, Places
  <2>2. (Stays(t) /\ Refers(t))'
    BY <1>2, <1>3, <2>1, OwnPlace DEF Stays, Refers, Gathers, Ending
  <2>. QED  BY <1>1, <2>1, <2>2, Untouched, RequestTurns
<1>4. CASE thread[t].op = "ai" /\ Returns(t) /\ UNCHANGED active
  <2>1. Takes(t, "idle", "none", 0)
    BY <1>4, ThreadReturns
  <2>. QED  BY <1>1, <1>4, <2>1, IdleRefers, Untouched, RequestTurns
<1>5. CASE thread[t].op = "ai" /\ Moves(t, "analyses") /\ UNCHANGED active
  <2>1. Takes(t, "analyses", "ai", thread[t].c)
    BY <1>5, ThreadMoves DEF Places
  <2>2. IsPayload(thread[t].c)
    BY <1>2, <1>5 DEF References, Refers, Gathers
  <2>3. (Stays(t) /\ Refers(t))'
    BY <1>1, <2>1, <2>2, OwnPlace DEF Stays, Refers, Gathers, IsPayload, ForDiagnosis
  <2>. QED  BY <1>1, <1>5, <2>1, <2>3, Untouched, RequestTurns
<1>. QED  BY <1>3, <1>4, <1>5 DEF Joins

LEMMA LeavesShape ==
    ASSUME Types, References, NEW t \in Threads, Leaves(t)
    PROVE  Types' /\ References'
<1>1. UNCHANGED <<file, status, reader, raced, misled, collectors, active, bound, viewer, analyses, engine>>
  BY DEF Leaves, Asks
<1>2. thread[t].at = "leaves" /\ thread[t].op \in Ending
  BY DEF Leaves, At, References, Stays
<1>3. gds' \in [page: Pages, link: {gds.link}] /\ live' \in BOOLEAN
  <2>1. gds \in [page: Pages, link: Nat \ {0}] /\ live \in BOOLEAN
    BY DEF Types, PageTypes, SessionTypes
  <2>. QED  BY <2>1 DEF Leaves, Pages
<1>4. left' \in [pages: SUBSET Pages, drifts: Nat, writes: Nat, faults: Nat]
  BY FaultSpent, Untouched DEF Leaves
<1>5. CASE thread[t].op = "stop"
  <2>1. Takes(t, "idle", "none", 0)
    BY <1>5, ThreadReturns DEF Leaves
  <2>. QED  BY <1>1, <1>3, <1>4, <2>1, IdleRefers, Untouched, RequestTurns
<1>6. CASE thread[t].op = "abort"
  <2>1. Takes(t, "cancels", "abort", thread[t].c)
    BY <1>6, ThreadMoves DEF Leaves, Places
  <2>2. (Stays(t) /\ Refers(t))'
    BY <2>1, OwnPlace DEF Stays, Refers, Gathers
  <2>. QED  BY <1>1, <1>3, <1>4, <2>1, <2>2, Untouched, RequestTurns
<1>. QED  BY <1>2, <1>5, <1>6 DEF Ending

LEMMA AnalysesShape ==
    ASSUME Types, References, NEW t \in Threads, Analyses(t)
    PROVE  Types' /\ References'
<1>1. UNCHANGED <<file, status, reader, raced, misled, gds, collectors, active, live, bound, viewer, left>>
  BY DEF Analyses, Asks
<1>2. thread[t].at = "analyses" /\ thread[t].op \in {"ai", "retry"}
  BY DEF Analyses, At, References, Stays
<1>3. Len(analyses) \in Nat
  BY DEF Types, EngineTypes
<1>4. PICK a \in Nat : a = Len(analyses) + 1
  BY <1>3
<1>5. CASE engine' = engine /\ analyses' = analyses /\ Takes(t, "idle", "none", 0)
  BY <1>1, <1>5, IdleRefers, Untouched, RequestTurns
<1>6. CASE /\ engine' = a /\ a \in Nat
           /\ analyses' \in Seq(AnalysisStates) /\ Len(analyses') = a
           /\ DOMAIN analyses' = DOMAIN analyses \cup {a} /\ a \notin DOMAIN analyses
           /\ \A b \in DOMAIN analyses : analyses'[b] = analyses[b]
           /\ analyses'[a].payload = IF thread[t].op = "ai" THEN thread[t].c ELSE 0
           /\ Takes(t, "binds", thread[t].op, a)
  <2>1. PageTypes' /\ CollectorTypes'
    BY <1>1, PageTypesKept DEF Types, CollectorTypes
  <2>2. SessionTypes'
    BY <1>1, <1>6 DEF Types, SessionTypes, Takes
  <2>3. EngineTypes'
    <3>1. Len(analyses) \in Nat
      BY DEF Types, EngineTypes
    <3>2. \A i \in 0..Len(analyses) : i \in 0..a
      BY <1>4, <3>1
    <3>3. bound' \in 0..a /\ engine' \in 0..a
      BY <1>1, <1>6, <3>1, <3>2 DEF Types, EngineTypes
    <3>4. reader \in [at: {"off", "on"}, of: 0..Len(analyses), left: Nat] /\ reader.of \in 0..a
      BY <3>2 DEF Types, EngineTypes
    <3>5. reader' \in [at: {"off", "on"}, of: 0..a, left: Nat]
      BY <1>1, <3>4
    <3>. QED  BY <1>1, <1>6, <3>3, <3>5 DEF Types, EngineTypes
  <2>4. (Stays(t) /\ Refers(t))'
    BY <1>2, <1>6, OwnPlace DEF Stays, Refers, Gathers
  <2>5. thread[t].op = "ai" => (IsPayload(thread[t].c))
    BY <1>2 DEF References, Refers, Gathers
  <2>6. analyses'[a].payload # 0 => (IsPayload(analyses[a].payload))'
    BY <1>1, <1>6, <2>5 DEF IsPayload, ForDiagnosis
  <2>7. Grows
    BY <1>1 DEF Grows
  <2>8. \A u \in Threads : u # t => thread'[u] = thread[u]
    BY <1>6 DEF Takes
  <2>9. References'
    BY <1>1, <1>6, <2>4, <2>6, <2>7, <2>8, ReferencesKept
  <2>. QED  BY <2>1, <2>2, <2>3, <2>9 DEF Types
<1>. QED  BY <1>5, <1>6, <1>4, AnalysesRecords

LEMMA BindsShape ==
    ASSUME Types, References, NEW t \in Threads, Binds(t)
    PROVE  Types' /\ References'
<1>1. UNCHANGED <<gds, file, status, reader, raced, misled, collectors, active, live, viewer, analyses, engine, left>>
  BY DEF Binds, Asks
<1>2. Takes(t, "idle", "none", 0)
  BY ThreadReturns DEF Binds
<1>3. bound' \in 0..Len(analyses)
  <2>1. thread[t].c \in DOMAIN analyses
    BY DEF Binds, At, References, Refers
  <2>. QED  BY <2>1 DEF Binds, Types, EngineTypes
<1>. QED  BY <1>1, <1>2, <1>3, IdleRefers, Untouched, RequestTurns

\* The diagnoses change, but not what they were made of.
LEMMA DiagnosisTurn ==
    ASSUME Types, References, NEW a, AltersAnalysis(a), UNCHANGED <<gds, file, left, collectors, active>>,
           SessionTypes', bound' \in 0..Len(analyses), engine' \in {0, engine},
           reader' \in [at: {"off", "on"}, of: {0, reader.of}, left: Nat],
           reader'.at = "on" <=> reader'.of # 0,
           \A t \in Threads : thread'[t] = thread[t] \/ (Stays(t) /\ Refers(t))'
    PROVE  Types' /\ References'
<1>1. PageTypes' /\ CollectorTypes'
  BY PageTypesKept DEF Types, CollectorTypes
<1>2. EngineTypes'
  <2>1. Len(analyses') = Len(analyses) /\ Len(analyses) \in Nat
    BY DEF AltersAnalysis, Types, EngineTypes
  <2>2. 0 \in 0..Len(analyses) /\ engine \in 0..Len(analyses) /\ reader.of \in 0..Len(analyses)
    BY <2>1 DEF Types, EngineTypes
  <2>3. reader'.of \in 0..Len(analyses)
    BY <2>2
  <2>4. reader' \in [at: {"off", "on"}, of: 0..Len(analyses), left: Nat]
    BY <2>3
  <2>. QED  BY <2>1, <2>2, <2>4 DEF EngineTypes, AltersAnalysis
<1>3. Grows
  BY DEF Grows
<1>4. References'
  BY <1>3, ReferencesKept DEF AltersAnalysis
<1>. QED  BY <1>1, <1>2, <1>4 DEF Types

LEMMA CancelsShape ==
    ASSUME Types, References, NEW t \in Threads, Cancels(t)
    PROVE  Types' /\ References'
<1>1. UNCHANGED <<file, status, reader, raced, misled, gds, collectors, active, live, viewer, engine, left>> /\ bound' = 0
  BY DEF Cancels, Asks
<1>2. thread[t].at = "cancels" /\ thread[t].op = "abort"
  BY DEF Cancels, At, References, Stays
<1>3. Takes(t, "aborts", "abort", thread[t].c)
  BY <1>2, ThreadMoves DEF Cancels, Places
<1>4. (Stays(t) /\ Refers(t))'
  BY <1>3, OwnPlace DEF Stays, Refers, Gathers
<1>5. CASE analyses' = analyses
  BY <1>1, <1>3, <1>4, <1>5, Untouched, RequestTurns
<1>6. CASE AltersAnalysis(bound)
  <2>1. SessionTypes'
    BY <1>1, <1>3 DEF Types, SessionTypes, Takes
  <2>2. reader' \in [at: {"off", "on"}, of: {0, reader.of}, left: Nat] /\ (reader'.at = "on" <=> reader'.of # 0)
    BY <1>1 DEF Types, EngineTypes
  <2>3. \A u \in Threads : thread'[u] = thread[u] \/ (Stays(u) /\ Refers(u))'
    BY <1>3, <1>4 DEF Takes
  <2>4. bound' \in 0..Len(analyses)
    BY <1>1, Untouched
  <2>. QED  BY <1>1, <1>6, <2>1, <2>2, <2>3, <2>4, DiagnosisTurn
<1>. QED  BY <1>5, <1>6, CancelsRecords

LEMMA AbortsShape ==
    ASSUME Types, References, NEW t \in Threads, Aborts(t)
    PROVE  Types' /\ References'
<1>1. /\ UNCHANGED <<gds, file, reader, raced, misled, collectors, active, viewer, analyses, engine, left>>
      /\ status' = "aborted" /\ live' = FALSE /\ bound' = 0
  BY DEF Aborts
<1>2. Takes(t, "idle", "none", 0)
  BY ThreadReturns DEF Aborts
<1>. QED  BY <1>1, <1>2, IdleRefers, Untouched, RequestTurns

LEMMA RequestStepsKeepShape ==
    ASSUME Types, References, NEW t \in Threads, RequestTurn(t)
    PROVE  Types' /\ References'
  BY BeginsShape, EntersShape, CreatesShape, NoAgentShape, FlagsShape, StartsOverShape,
     StopsCollectingShape,
     StopsShape, JoinsShape, LeavesShape, AnalysesShape, BindsShape, CancelsShape, AbortsShape
     DEF RequestTurn

LEMMA WorkerStepsKeepShape ==
    ASSUME Types, References, NEW a, WorkerTurn(a) \/ Forgets(a)
    PROVE  Types' /\ References'
<1>1. /\ UNCHANGED <<gds, file, collectors, active, status, live, bound, thread, viewer, reader, left, raced, misled>>
      /\ engine' \in {0, engine}
  BY DEF WorkerTurn, StartsAnalysis, Streams, Cleans, Frees, Forgets, Works
<1>2. AltersAnalysis(a)
  BY StartsAnalysisRecords, StreamsRecords, CleansRecords, FreesRecords, ForgetsRecords
     DEF WorkerTurn
<1>3. SessionTypes'
  BY <1>1 DEF Types, SessionTypes
<1>4. reader' \in [at: {"off", "on"}, of: {0, reader.of}, left: Nat] /\ (reader'.at = "on" <=> reader'.of # 0)
  BY <1>1 DEF Types, EngineTypes
<1>. QED  BY <1>1, <1>2, <1>3, <1>4, Untouched, DiagnosisTurn

-----------------------------------------------------------------------------
(* GDS2 and the readers keep the shape.                                    *)

\* Collectors, diagnoses and requests are left alone.
LEMMA OthersKept ==
    ASSUME Types, References, UNCHANGED <<collectors, active, thread, analyses, engine, status, raced>>,
           PageTypes', gds'.link = gds.link, {live', misled'} \subseteq BOOLEAN, viewer' \in Viewers,
           bound' \in {0, bound}, reader' \in [at: {"off", "on"}, of: 0..Len(analyses), left: Nat],
           reader'.at = "on" <=> reader'.of # 0
    PROVE  Types' /\ References'
<1>1. SessionTypes'
  BY DEF Types, SessionTypes, Viewers
<1>2. CollectorTypes'
  BY DEF Types, CollectorTypes
<1>3. EngineTypes'
  BY Untouched DEF Types, EngineTypes
<1>4. Grows
  BY DEF Grows
<1>5. References'
  BY <1>4, ReferencesKept
<1>. QED  BY <1>1, <1>2, <1>3, <1>5 DEF Types

LEMMA OtherStepsKeepShape ==
    ASSUME Types, References,
           Drifts \/ Loaded \/ AgentWrites \/ Views \/ Sees \/ LeavesView \/ Follows \/ Hears
    PROVE  Types' /\ References'
<1>1. /\ {live, misled} \subseteq BOOLEAN /\ viewer \in Viewers /\ (reader.at = "on" <=> reader.of # 0)
      /\ reader \in [at: {"off", "on"}, of: 0..Len(analyses), left: Nat]
      /\ viewer.queue \in Queues({"data", "error"})
  BY DEF Types, SessionTypes, EngineTypes, Viewers
<1>2. /\ gds \in [page: Pages, link: Nat \ {0}] /\ file \in [count: Nat, link: Nat] /\ file.link <= gds.link
      /\ left \in [pages: SUBSET Pages, drifts: Nat, writes: Nat, faults: Nat]
  BY DEF Types, PageTypes
<1>3. ASSUME Drifts \/ Loaded PROVE Types' /\ References'
  <2>1. /\ UNCHANGED <<file, collectors, active, status, live, bound, thread, viewer,
                       analyses, engine, reader, raced, misled>>
        /\ \E p \in Pages : gds' = [gds EXCEPT !.page = p]
    BY <1>2, <1>3 DEF Drifts, Loaded, Pages
  <2>2. left' \in [pages: SUBSET Pages, drifts: Nat, writes: Nat, faults: Nat]
    <3>1. CASE UNCHANGED left
      BY <1>2, <3>1
    <3>2. CASE left.drifts > 0 /\ left' = [left EXCEPT !.drifts = @ - 1]
      <4>1. left.drifts - 1 \in Nat
        BY <1>2, <3>2
      <4>. QED  BY <1>2, <3>2, <4>1
    <3>. QED  BY <1>3, <3>1, <3>2 DEF Drifts, Loaded
  <2>3. gds' \in [page: Pages, link: Nat \ {0}] /\ gds'.link = gds.link
    BY <1>2, <2>1
  <2>4. PageTypes'
    BY <1>2, <2>1, <2>2, <2>3 DEF PageTypes
  <2>. QED  BY <1>1, <2>1, <2>3, <2>4, OthersKept
<1>4. ASSUME AgentWrites PROVE Types' /\ References'
  <2>1. UNCHANGED <<gds, collectors, active, status, live, bound, thread, viewer,
                    analyses, engine, reader, raced, misled>>
    BY <1>4 DEF AgentWrites
  <2>2. left' \in [pages: SUBSET Pages, drifts: Nat, writes: Nat, faults: Nat]
    <3>1. left.writes - 1 \in Nat
      BY <1>2, <1>4 DEF AgentWrites
    <3>. QED  BY <1>2, <1>4, <3>1 DEF AgentWrites
  <2>3. file' \in [count: Nat, link: Nat] /\ file'.link <= gds.link
    <3>1. file.count + 1 \in Nat /\ gds.link \in Nat /\ 0 <= gds.link
      BY <1>2
    <3>2. file' = [count |-> file.count + 1, link |-> IF gds.page = "display" THEN gds.link ELSE 0]
      BY <1>4 DEF AgentWrites
    <3>. QED  BY <3>1, <3>2
  <2>4. PageTypes'
    BY <1>2, <2>1, <2>2, <2>3 DEF PageTypes
  <2>. QED  BY <1>1, <2>1, <2>4, OthersKept
<1>5. ASSUME Views \/ Sees \/ LeavesView PROVE Types' /\ References'
  <2>1. /\ UNCHANGED <<gds, file, left, collectors, active, status, bound, thread, analyses, engine, reader, raced>>
        /\ {live', misled'} \subseteq BOOLEAN
    BY <1>1, <1>5 DEF Views, Sees, LeavesView, Reads
  <2>2. viewer' \in Viewers
    <3>1. <<>> \in Queues({"data", "error"})
      <4>1. <<>> \in Seq({"data", "error"})
        OBVIOUS
      <4>. QED  BY <4>1, LiveDataAssumption DEF Queues
    <3>2. viewer.queue # <<>> => Tail(viewer.queue) \in Queues({"data", "error"})
      <4>1. "data" \in {"data", "error"}
        OBVIOUS
      <4>. QED  BY <1>1, <4>1, QueueGrows
    <3>3. viewer.left > 0 => viewer.left - 1 \in Nat
      BY <1>1 DEF Viewers
    <3>4. CASE Views
      BY <3>1, <3>3, <3>4 DEF Views, Viewers
    <3>5. CASE Sees
      BY <1>1, <3>1, <3>2, <3>5 DEF Sees, Viewers
    <3>6. CASE LeavesView
      BY <1>1, <3>1, <3>6 DEF LeavesView, Viewers
    <3>. QED  BY <1>5, <3>4, <3>5, <3>6
  <2>3. PageTypes'
    BY <2>1, PageTypesKept
  <2>. QED  BY <1>1, <2>1, <2>2, <2>3, OthersKept
<1>6. ASSUME Follows PROVE Types' /\ References'
  <2>1. /\ UNCHANGED <<gds, file, left, collectors, active, status, live, misled, viewer, thread, analyses, engine, raced>>
        /\ bound' \in {0, bound}
    BY <1>6 DEF Follows, Reads
  <2>2. reader' \in [at: {"off", "on"}, of: 0..Len(analyses), left: Nat] /\ (reader'.at = "on" <=> reader'.of # 0)
    <3>1. bound # 0 /\ bound \in 0..Len(analyses) /\ reader.left - 1 \in Nat
      BY <1>1, <1>6, Untouched DEF Follows
    <3>. QED  BY <1>1, <1>6, <3>1 DEF Follows
  <2>3. PageTypes'
    BY <2>1, PageTypesKept
  <2>. QED  BY <1>1, <2>1, <2>2, <2>3, OthersKept
<1>7. ASSUME Hears PROVE Types' /\ References'
  <2>1. UNCHANGED <<gds, file, left, collectors, active, status, live, viewer, thread, engine, raced>>
    BY <1>7 DEF Hears, Reads
  <2>2. AltersAnalysis(reader.of)
    BY <1>7, HearsRecords
  <2>3. /\ reader' \in [at: {"off", "on"}, of: {0, reader.of}, left: Nat]
        /\ reader'.at = "on" <=> reader'.of # 0
    BY <1>1, <1>7 DEF Hears
  <2>4. bound' \in 0..Len(analyses) /\ misled' \in BOOLEAN
    BY <1>1, <1>7, Untouched DEF Hears
  <2>5. SessionTypes'
    BY <2>1, <2>4 DEF Types, SessionTypes
  <2>. QED  BY <2>1, <2>2, <2>3, <2>4, <2>5, DiagnosisTurn
<1>. QED  BY <1>3, <1>4, <1>5, <1>6, <1>7

-----------------------------------------------------------------------------
(* One connection.                                                         *)

LEMMA AlikeWhole ==
    ASSUME OneLink, NEW d \in DOMAIN collectors, Alike(d), collectors'[d].for = collectors[d].for,
           collectors'[d].run => collectors[d].run, collectors[d].run \in BOOLEAN,
           collectors'[d].run \in BOOLEAN, gds'.link = gds.link, file' = file
    PROVE  (Pipe(d) /\ Whole(d))'
  BY DEF OneLink, Pipe, Whole, Fresh, Alike, Keeps

\* One that is torn has to be in order only.
LEMMA TornWhole ==
    ASSUME OneLink, NEW d \in DOMAIN collectors, Alike(d), collectors'[d].for = "ai" => collectors'[d].torn
    PROVE  (Pipe(d) /\ Whole(d))'
  BY DEF OneLink, Pipe, Whole, Alike, Keeps

\* A turn of c: the others are as they were.
LEMMA WholeByTurn ==
    ASSUME OneLink, NEW c, Alters(c), gds'.link = gds.link, file' = file, (Pipe(c) /\ Whole(c))'
    PROVE  OneLink'
<1>1. ASSUME NEW d \in DOMAIN collectors, d # c PROVE (Pipe(d) /\ Whole(d))'
  <2>1. Alike(d) /\ collectors'[d].for = collectors[d].for
    BY <1>1 DEF Alters, SameCollectors
  <2>. QED  BY <2>1, AlikeWhole DEF Alike, Keeps, OneLink, Pipe, Whole, Fresh
<1>. QED  BY <1>1 DEF OneLink, Alters, SameCollectors

LEMMA LooksWhole ==
    ASSUME Types, OneLink, NEW c, Looks(c)
    PROVE  OneLink'
<1>1. c \in DOMAIN collectors /\ UNCHANGED <<gds, file>>
  BY DEF Looks, Guards
<1>2. Alters(c) /\ Keeps(c) /\ collectors'[c].for = collectors[c].for
  BY LooksRecords DEF Alters, SameCollectors
<1>3. Pipe(c) /\ Whole(c)
  BY <1>1 DEF OneLink
<1>4. (Pipe(c))' /\ collectors'[c].result = collectors[c].result
  BY <1>2, <1>3, LooksRecords DEF Pipe, Keeps
<1>5. (Whole(c))'
  BY <1>1, <1>2, <1>3, <1>4 DEF Whole, Fresh, Keeps
<1>. QED  BY <1>1, <1>2, <1>4, <1>5, WholeByTurn

LEMMA RecoversWhole ==
    ASSUME Types, OneLink, NEW c, Recovers(c)
    PROVE  OneLink'
<1>1. c \in DOMAIN collectors /\ UNCHANGED <<gds, file>>
  BY DEF Recovers, Guards
<1>2. Alters(c) /\ Keeps(c) /\ collectors'[c].for = collectors[c].for /\ collectors[c].guard = "drifted"
  BY RecoversRecords DEF Alters, SameCollectors
<1>3. Pipe(c) /\ Whole(c)
  BY <1>1 DEF OneLink
<1>4. (Pipe(c))'
  BY <1>2, <1>3, RecoversRecords DEF Pipe, Keeps
<1>5. collectors'[c].result \notin TakenForAnew /\ collectors[c].result = "none"
  BY <1>2, <1>3, RecoversRecords DEF TakenForAnew, Pipe
<1>6. (Whole(c))'
  BY <1>1, <1>2, <1>3, <1>5 DEF Whole, Fresh, Keeps, TakenForAnew
<1>. QED  BY <1>1, <1>2, <1>4, <1>6, WholeByTurn

LEMMA LoadsTooLongWhole ==
    ASSUME Types, OneLink, NEW c, LoadsTooLong(c)
    PROVE  OneLink'
<1>1. c \in DOMAIN collectors /\ UNCHANGED file /\ gds'.link = gds.link
  BY LoadsTooLongRecords DEF LoadsTooLong, Guards
<1>2. Alters(c) /\ Keeps(c) /\ collectors'[c].for = collectors[c].for /\ collectors[c].guard = "drifted"
  BY LoadsTooLongRecords DEF Alters, SameCollectors
<1>3. Pipe(c) /\ Whole(c)
  BY <1>1 DEF OneLink
<1>4. collectors[c].result = "none"
  BY <1>2, <1>3 DEF Pipe
<1>5. (Pipe(c))'
  BY <1>2, <1>3, <1>4, LoadsTooLongRecords DEF Pipe, Keeps
<1>6. collectors'[c].result \notin TakenForAnew
  BY <1>4, LoadsTooLongRecords DEF TakenForAnew
<1>7. (Whole(c))'
  BY <1>1, <1>2, <1>3, <1>4, <1>6 DEF Whole, Fresh, Keeps, TakenForAnew
<1>. QED  BY <1>1, <1>2, <1>5, <1>7, WholeByTurn

LEMMA RouteEndsWhole ==
    ASSUME Types, OneLink, NEW c, RouteEnds(c)
    PROVE  OneLink'
<1>1. c \in DOMAIN collectors
  BY DEF RouteEnds, Guards
<1>2. /\ Alters(c) /\ Keeps(c) /\ RouteTaken(c) /\ collectors'[c].for = collectors[c].for
      /\ collectors[c].guard \in {"routes", "restarted"}
  BY <1>1, RouteEndsRecords DEF Alters, SameCollectors
<1>3. Pipe(c) /\ Whole(c)
  BY <1>1 DEF OneLink
<1>4. (Pipe(c))'
  BY <1>2, <1>3 DEF Pipe, Keeps, RouteTaken
<1>5. CASE gds'.link = gds.link /\ file' = file
  <2>1. collectors[c].result = "none"
    BY <1>2, <1>3 DEF Pipe
  <2>2. (Whole(c))'
    BY <1>2, <1>3, <1>5, <2>1 DEF Whole, Fresh, Keeps, TakenForAnew
  <2>. QED  BY <1>2, <1>4, <1>5, <2>2, WholeByTurn
<1>6. CASE /\ ~collectors'[c].torn => collectors'[c].result \in TakenForAnew
           /\ \A d \in DOMAIN collectors : d # c /\ collectors[d].for = "ai" => collectors'[d].torn
  <2>1. (Whole(c))'
    BY <1>2, <1>3, <1>6 DEF Whole, Keeps
  <2>2. ASSUME NEW d \in DOMAIN collectors, d # c PROVE (Pipe(d) /\ Whole(d))'
    <3>1. Alike(d) /\ collectors'[d].for = collectors[d].for
      BY <1>2, <2>2 DEF Alters, SameCollectors
    <3>. QED  BY <1>6, <2>2, <3>1, TornWhole
  <2>. QED  BY <1>2, <1>4, <2>1, <2>2 DEF OneLink, Alters, SameCollectors
<1>. QED  BY <1>2, <1>5, <1>6 DEF RouteTaken

\* What the guard reports is on its way still; a failure is no new connection.
LEMMA ReportsWhole ==
    ASSUME Types, OneLink, NEW c, Reports(c)
    PROVE  OneLink'
<1>1. c \in DOMAIN collectors /\ UNCHANGED <<gds, file>>
  BY DEF Reports, Guards
<1>2. /\ Alters(c) /\ collectors'[c].for = collectors[c].for /\ collectors[c].guard = "reports"
  BY <1>1, ReportsRecords DEF Alters, SameCollectors
<1>3. PICK me, new : me = collectors[c] /\ new = collectors'[c]
  OBVIOUS
<1>4. /\ new.guard = "waits" /\ new.slot = me.result /\ new.result = "none" /\ new.for = me.for
      /\ new.event = me.event /\ new.seen = me.seen /\ new.buffer = me.buffer /\ new.torn = me.torn
      /\ new.run <=> me.run /\ me.result # "failed"
  BY <1>2, <1>3, ReportsRecords
<1>5. Pipe(c) /\ Whole(c) /\ me.slot = "none" /\ me.event = "none"
  BY <1>1, <1>2, <1>3 DEF OneLink, Pipe
<1>6. (Pipe(c))'
  BY <1>3, <1>4, <1>5 DEF Pipe
<1>7. (Whole(c))'
  <2>1. me.run /\ me.result = "failed" /\ me.for = "ai" /\ ~me.torn => me.buffer \subseteq {gds.link}
    BY <1>3, <1>5 DEF Whole, TakenForAnew
  <2>. QED  BY <1>1, <1>3, <1>4, <1>5, <2>1 DEF Whole, Fresh, TakenForAnew
<1>. QED  BY <1>1, <1>2, <1>6, <1>7, WholeByTurn

\* The poll reads the file: whatever it finds is of the present connection,
\* and an event it takes up was not read over before.
LEMMA PollWhole ==
    ASSUME Types, OneLink, NEW c, Poll(c)
    PROVE  OneLink'
<1>1. c \in DOMAIN collectors /\ UNCHANGED <<gds, file>>
  BY DEF Poll, Guards
<1>2. Alters(c) /\ collectors'[c].for = collectors[c].for
  BY <1>1, PollRecords DEF Alters, SameCollectors
<1>3. PICK me, new : me = collectors[c] /\ new = collectors'[c]
  OBVIOUS
<1>. DEFINE fresh == me.slot # "none" /\ me.slot # me.signature
            read == file.count > me.seen
<1>4. /\ new.for = me.for /\ me.run /\ new.run = me.run /\ new.guard = me.guard
      /\ new.result = me.result /\ new.slot = "none"
      /\ new.event = IF fresh /\ me.for = "ai" THEN me.slot ELSE me.event
      /\ new.seen = IF read THEN file.count ELSE me.seen
      /\ new.buffer = IF read /\ me.for = "ai" THEN (me.buffer \cup {file.link}) \ {0} ELSE me.buffer
      /\ new.torn <=> me.torn \/ (me.slot \in TakenForAnew /\ ~fresh)
  BY <1>2, <1>3, PollRecords
<1>5. Pipe(c) /\ Whole(c)
  BY <1>1 DEF OneLink
<1>6. /\ me.guard # "waits" => me.slot = "none" /\ me.event = "none"
      /\ me.slot # "none" => me.event = "none"
      /\ me.result # "none" => me.guard = "reports"
  BY <1>3, <1>5 DEF Pipe
<1>7. file.count \in Nat /\ me.seen \in Nat /\ new.seen \in Nat
  <2>1. me \in CollectorStates /\ file \in [count: Nat, link: Nat]
    BY <1>1, <1>3, CollectorAt DEF Types, PageTypes
  <2>. QED  BY <1>4, <2>1 DEF CollectorStates
<1>8. file.count <= new.seen
  BY <1>4, <1>7
<1>9. (Pipe(c))'
  <2>1. /\ new.guard # "waits" => new.slot = "none" /\ new.event = "none"
        /\ new.slot # "none" => new.event = "none"
        /\ new.result # "none" => new.guard = "reports"
    BY <1>4, <1>6
  <2>. QED  BY <1>3, <2>1 DEF Pipe
<1>10. ASSUME new.for = "ai", ~new.torn, {new.result, new.slot, new.event} \cap TakenForAnew = {}
       PROVE  new.buffer \subseteq {gds.link}
  <2>1. me.slot \notin TakenForAnew
    <3>1. me.slot \in TakenForAnew => fresh
      BY <1>4, <1>10
    <3>2. fresh => new.event = me.slot
      BY <1>4, <1>10
    <3>. QED  BY <1>10, <3>1, <3>2
  <2>2. me.event \notin TakenForAnew
    <3>1. "none" \notin TakenForAnew
      BY DEF TakenForAnew
    <3>. QED  BY <1>4, <1>6, <1>10, <3>1
  <2>3. {me.result, me.slot, me.event} \cap TakenForAnew = {} /\ {me.result, me.slot} \cap TakenForAnew = {}
    BY <1>4, <1>10, <2>1, <2>2
  <2>4. me.for = "ai" /\ ~me.torn /\ me.run
    BY <1>4, <1>10
  <2>5. me.buffer \subseteq {gds.link} /\ Fresh(c)
    BY <1>3, <1>5, <2>3, <2>4 DEF Whole
  <2>6. read => file.link \in {0, gds.link}
    BY <1>3, <1>7, <2>5 DEF Fresh
  <2>. QED  BY <1>4, <2>5, <2>6
<1>11. (Whole(c))'
  <2>1. (Fresh(c))'
    BY <1>1, <1>3, <1>8 DEF Fresh
  <2>2. new.run
    BY <1>4
  <2>. HIDE DEF fresh, read
  <2>3. new.for = "ai" /\ ~new.torn /\ {new.result, new.slot, new.event} \cap TakenForAnew = {} =>
          new.buffer \subseteq {gds'.link}
    BY <1>1, <1>10
  <2>. QED  BY <1>3, <2>1, <2>2, <2>3 DEF Whole
<1>. QED  BY <1>1, <1>2, <1>9, <1>11, WholeByTurn

LEMMA StartsOverWhole ==
    ASSUME Types, References, OneLink, NEW t \in Threads, StartsOver(t)
    PROVE  OneLink'
<1>1. PICK c \in DOMAIN collectors : c = thread[t].c
  BY Collects DEF StartsOver
<1>2. UNCHANGED <<gds, file>>
  BY DEF StartsOver, Asks
<1>3. PICK me, new : me = collectors[c] /\ new = collectors'[c]
  OBVIOUS
<1>4. Alters(c) /\ new.for = me.for
  BY <1>1, <1>3, StartsOverRecords DEF Alters, SameCollectors
<1>5. /\ new.run = me.run /\ new.guard = me.guard /\ new.result = me.result /\ new.slot = me.slot
      /\ new.event = "none" /\ new.seen = me.seen /\ new.torn = me.torn
      /\ new.buffer = IF me.event \in TakenForAnew THEN {} ELSE me.buffer
  BY <1>1, <1>3, StartsOverRecords
<1>6. Pipe(c) /\ Whole(c)
  BY DEF OneLink
<1>7. (Pipe(c))'
  BY <1>3, <1>5, <1>6 DEF Pipe
<1>8. (Whole(c))'
  BY <1>2, <1>3, <1>4, <1>5, <1>6 DEF Whole, Fresh
<1>. QED  BY <1>2, <1>4, <1>7, <1>8, WholeByTurn

LEMMA StopsCollectingWhole ==
    ASSUME Types, References, OneLink, NEW t \in Threads, StopsCollecting(t)
    PROVE  OneLink'
<1>1. PICK c \in DOMAIN collectors : c = thread[t].c
  BY Collects DEF StopsCollecting
<1>2. UNCHANGED <<gds, file>>
  BY DEF StopsCollecting, Asks
<1>3. PICK me, new : me = collectors[c] /\ new = collectors'[c]
  OBVIOUS
<1>4. Alters(c) /\ new.for = me.for
  BY <1>1, <1>3, StopsCollectingRecords DEF Alters, SameCollectors
<1>5. /\ ~new.run /\ new.guard = me.guard /\ new.result = me.result /\ new.slot = me.slot
      /\ new.event = me.event /\ new.seen = me.seen /\ new.buffer = me.buffer
      /\ ~new.torn => ~me.torn /\ me.guard = "waits" /\ me.slot = "none" /\ me.event = "none"
  BY <1>1, <1>3, StopsCollectingRecords
<1>6. Pipe(c) /\ Whole(c)
  BY DEF OneLink
<1>7. (Pipe(c))'
  BY <1>3, <1>5, <1>6 DEF Pipe
<1>8. ~new.torn => me.result = "none"
  BY <1>3, <1>5, <1>6 DEF Pipe
<1>9. (Whole(c))'
  BY <1>2, <1>3, <1>4, <1>5, <1>6, <1>8 DEF Whole, Fresh, TakenForAnew
<1>. QED  BY <1>2, <1>4, <1>7, <1>9, WholeByTurn

LEMMA StopsWhole ==
    ASSUME Types, References, OneLink, NEW t \in Threads, Stops(t)
    PROVE  OneLink'
<1>1. UNCHANGED <<gds, file>>
  BY DEF Stops, Asks
<1>2. SameCollectors /\ \A d \in DOMAIN collectors : d # active => Alike(d)
  BY StopsRecords
<1>3. ASSUME NEW d \in DOMAIN collectors PROVE (Pipe(d) /\ Whole(d))'
  <2>1. /\ collectors'[d].guard = collectors[d].guard /\ collectors'[d].result = collectors[d].result
        /\ collectors'[d].slot = collectors[d].slot /\ collectors'[d].event = collectors[d].event
    BY StopsRecords
  <2>2. (Pipe(d))'
    BY <2>1 DEF OneLink, Pipe
  <2>3. CASE d = active
    <3>1. active # 0
      BY <2>3 DEF Types, CollectorTypes
    <3>2. collectors'[d].for = "live"
      BY <1>2, <2>3, <3>1 DEF References, SameCollectors
    <3>. QED  BY <2>2, <3>2 DEF Whole
  <2>4. CASE d # active
    BY <1>1, <1>2, <2>4, AlikeWhole
       DEF SameCollectors, Alike, Keeps, OneLink, Pipe, Whole, Fresh
  <2>. QED  BY <2>3, <2>4
<1>. QED  BY <1>2, <1>3 DEF OneLink, SameCollectors

LEMMA CreatesWhole ==
    ASSUME Types, OneLink, NEW t \in Threads, Creates(t)
    PROVE  OneLink'
<1>1. UNCHANGED <<gds, file>>
  BY DEF Creates, Asks
<1>2. PICK c : c = Len(collectors) + 1
  OBVIOUS
<1>3. /\ DOMAIN collectors' = DOMAIN collectors \cup {c}
      /\ \A d \in DOMAIN collectors : collectors'[d] = collectors[d]
      /\ collectors'[c].run /\ collectors'[c].guard = "waits" /\ collectors'[c].result = "none"
      /\ collectors'[c].slot = "none" /\ collectors'[c].event = "none" /\ collectors'[c].buffer = {}
      /\ collectors'[c].for = "ai" /\ ~collectors'[c].torn => file.link \in {0, gds.link}
  BY <1>2, CreatesRecords
<1>4. (Pipe(c) /\ Whole(c))'
  BY <1>1, <1>3 DEF Pipe, Whole, Fresh
<1>5. ASSUME NEW d \in DOMAIN collectors PROVE (Pipe(d) /\ Whole(d))'
  BY <1>1, <1>3 DEF OneLink, Pipe, Whole, Fresh
<1>. QED  BY <1>3, <1>4, <1>5 DEF OneLink

LEMMA AgentWritesWhole ==
    ASSUME Types, OneLink, AgentWrites
    PROVE  OneLink'
<1>1. UNCHANGED <<gds, collectors>> /\ file'.link \in {0, gds.link}
  BY DEF AgentWrites
<1>. QED  BY <1>1 DEF OneLink, Pipe, Whole, Fresh

\* No other step is about a connection, or about what was gathered over it.
LEMMA NextWhole ==
    ASSUME Types, References, OneLink, [Next]_vars
    PROVE  OneLink'
<1>1. ASSUME UNCHANGED <<file, collectors>>, gds'.link = gds.link PROVE OneLink'
  BY <1>1 DEF OneLink, Pipe, Whole, Fresh
<1>2. CASE UNCHANGED vars
  BY <1>1, <1>2 DEF vars
<1>3. ASSUME NEW c, GuardTurn(c) \/ Poll(c) \/ PollFails(c) PROVE OneLink'
  <2>1. CASE PollFails(c)
    <3>1. c \in DOMAIN collectors /\ UNCHANGED <<gds, file>>
      BY <2>1 DEF PollFails, Guards
    <3>2. Alters(c) /\ Alike(c)
      BY <2>1, PollFailsRecords
    <3>3. (Pipe(c) /\ Whole(c))'
      BY <3>1, <3>2 DEF Alters, SameCollectors, Alike, Keeps, OneLink, Pipe, Whole, Fresh
    <3>. QED  BY <3>1, <3>2, <3>3, WholeByTurn
  <2>. QED  BY <1>3, <2>1, LooksWhole, RecoversWhole, LoadsTooLongWhole, RouteEndsWhole,
               ReportsWhole, PollWhole
            DEF GuardTurn
<1>4. ASSUME NEW t \in Threads, RequestTurn(t) PROVE OneLink'
  <2>1. CASE Enters(t) \/ Leaves(t)
    <3>1. UNCHANGED <<file, collectors>>
      BY <2>1 DEF Enters, Leaves, Asks
    <3>2. gds'.link = gds.link
      BY <2>1 DEF Enters, Leaves, Types, PageTypes
    <3>. QED  BY <1>1, <3>1, <3>2
  <2>2. CASE \/ Begins(t) \/ NoAgent(t) \/ Flags(t) \/ Joins(t) \/ Analyses(t)
             \/ Binds(t) \/ Cancels(t) \/ Aborts(t)
    <3>1. UNCHANGED <<file, collectors, gds>>
      BY <2>2 DEF Begins, NoAgent, Flags, Joins, Analyses, Binds, Cancels, Aborts, Asks
    <3>. QED  BY <1>1, <3>1
  <2>. QED  BY <1>4, <2>1, <2>2, CreatesWhole, StartsOverWhole, StopsCollectingWhole,
               StopsWhole
               DEF RequestTurn
<1>5. CASE \/ Drifts \/ Loaded
  <2>1. UNCHANGED <<file, collectors>> /\ gds'.link = gds.link
    BY <1>5 DEF Drifts, Loaded, Types, PageTypes
  <2>. QED  BY <1>1, <2>1
<1>6. CASE \/ \E a \in DOMAIN analyses : WorkerTurn(a) \/ Forgets(a)
           \/ Views \/ Sees \/ LeavesView \/ Follows \/ Hears
  <2>1. UNCHANGED <<file, collectors, gds>>
    BY <1>6 DEF WorkerTurn, StartsAnalysis, Streams, Cleans, Frees, Forgets, Works,
                Views, Sees, LeavesView, Follows, Hears, Reads
  <2>. QED  BY <1>1, <2>1
<1>. QED  BY <1>2, <1>3, <1>4, <1>5, <1>6, AgentWritesWhole DEF Next

-----------------------------------------------------------------------------
(* The engine.                                                             *)

LEMMA EngineKept ==
    ASSUME Types, EngineInv, NEW a, AltersAnalysis(a), engine' = engine,
           analyses'[a].at # "over" => analyses[a].at # "over" /\ analyses'[a].known = analyses[a].known
    PROVE  EngineInv'
<1>1. /\ DOMAIN analyses' = DOMAIN analyses /\ Len(analyses') = Len(analyses)
      /\ \A b \in DOMAIN analyses : b # a => analyses'[b] = analyses[b]
  BY DEF AltersAnalysis
<1>2. (Going(a))' => Quiet(analyses'[a].queue)
  BY DEF AltersAnalysis, EngineInv, Going
<1>3. ASSUME NEW b \in DOMAIN analyses', b # a
      PROVE  /\ analyses'[b].at # "over" => engine' = b /\ analyses'[b].known
             /\ (Going(b))' => Quiet(analyses'[b].queue)
  BY <1>1, <1>3 DEF EngineInv, Going
<1>4. a \in DOMAIN analyses /\ (analyses'[a].at # "over" => engine' = a /\ analyses'[a].known)
  BY DEF EngineInv, AltersAnalysis
<1>. QED  BY <1>1, <1>2, <1>3, <1>4 DEF EngineInv

LEMMA FreesEngine ==
    ASSUME Types, EngineInv, NEW a, Frees(a)
    PROVE  EngineInv'
<1>1. AltersAnalysis(a) /\ analyses[a].at = "frees" /\ analyses'[a].at = "over"
  BY FreesRecords
<1>2. engine = a /\ engine' = 0
  BY <1>1 DEF EngineInv, Frees, AltersAnalysis
<1>3. ASSUME NEW b \in DOMAIN analyses' PROVE analyses'[b].at = "over"
  BY <1>1, <1>2, <1>3 DEF EngineInv, AltersAnalysis
<1>. QED  BY <1>2, <1>3 DEF EngineInv, Going

\* A diagnosis is made when there is none that is not over.
LEMMA AnalysesEngine ==
    ASSUME Types, EngineInv, NEW t \in Threads, Analyses(t)
    PROVE  EngineInv'
<1>1. CASE engine' = engine /\ analyses' = analyses
  BY <1>1 DEF EngineInv, Going
<1>2. CASE engine = 0 /\ ~(engine' = engine /\ analyses' = analyses)
  <2>1. PICK a : a = Len(analyses) + 1
    OBVIOUS
  <2>2. /\ engine' = a /\ Len(analyses') = a
        /\ DOMAIN analyses' = DOMAIN analyses \cup {a}
        /\ \A b \in DOMAIN analyses : analyses'[b] = analyses[b]
        /\ analyses'[a].known /\ Quiet(analyses'[a].queue)
    BY <1>2, <2>1, AnalysesRecords
  <2>3. ASSUME NEW b \in DOMAIN analyses PROVE analyses'[b].at = "over" /\ ~(Going(b))'
    <3>1. b # 0
      BY DEF Types, EngineTypes
    <3>. QED  BY <1>2, <2>2, <3>1 DEF EngineInv, Going
  <2>. QED  BY <2>2, <2>3 DEF EngineInv
<1>. QED  BY <1>1, <1>2, AnalysesRecords

LEMMA NextEngine ==
    ASSUME Types, References, EngineInv, [Next]_vars
    PROVE  EngineInv'
<1>1. ASSUME UNCHANGED <<analyses, engine>> PROVE EngineInv'
  BY <1>1 DEF EngineInv, Going
<1>2. CASE \/ UNCHANGED vars \/ Drifts \/ Loaded \/ AgentWrites \/ Views \/ Sees \/ LeavesView \/ Follows
  <2>1. UNCHANGED <<analyses, engine>>
    BY <1>2 DEF vars, Drifts, Loaded, AgentWrites, Views, Sees, LeavesView, Follows, Reads
  <2>. QED  BY <1>1, <2>1
<1>3. ASSUME NEW c, GuardTurn(c) \/ Poll(c) \/ PollFails(c) PROVE EngineInv'
  <2>1. UNCHANGED <<analyses, engine>>
    BY <1>3
       DEF GuardTurn, Looks, Recovers, LoadsTooLong, RouteEnds, Reports, Poll, PollFails,
           Guards
  <2>. QED  BY <1>1, <2>1
<1>4. ASSUME NEW t \in Threads, RequestTurn(t) PROVE EngineInv'
  <2>1. CASE \/ Begins(t) \/ Enters(t) \/ Creates(t) \/ NoAgent(t) \/ Flags(t) \/ StartsOver(t)
             \/ StopsCollecting(t) \/ Stops(t) \/ Joins(t) \/ Leaves(t) \/ Binds(t) \/ Aborts(t)
    <3>1. UNCHANGED <<analyses, engine>>
      BY <2>1
         DEF Begins, Enters, Creates, NoAgent, Flags, StartsOver, StopsCollecting, Stops,
             Joins,
                  Leaves, Binds, Aborts
    <3>. QED  BY <1>1, <3>1
  <2>2. CASE Cancels(t)
    <3>1. engine' = engine
      BY <2>2 DEF Cancels
    <3>2. CASE analyses' = analyses
      BY <1>1, <3>1, <3>2
    <3>3. CASE /\ AltersAnalysis(bound) /\ analyses'[bound].at = analyses[bound].at
               /\ analyses'[bound].known = analyses[bound].known
      BY <3>1, <3>3, EngineKept
    <3>. QED  BY <2>2, <3>2, <3>3, CancelsRecords
  <2>. QED  BY <1>4, <2>1, <2>2, AnalysesEngine DEF RequestTurn
<1>5. ASSUME NEW a, WorkerTurn(a) \/ Forgets(a) PROVE EngineInv'
  <2>1. CASE StartsAnalysis(a)
    <3>1. engine' = engine
      BY <2>1 DEF StartsAnalysis
    <3>. QED  BY <2>1, <3>1, StartsAnalysisRecords, EngineKept
  <2>2. CASE Streams(a)
    <3>1. engine' = engine
      BY <2>2 DEF Streams
    <3>. QED  BY <2>2, <3>1, StreamsRecords, EngineKept
  <2>3. CASE Cleans(a)
    <3>1. engine' = engine
      BY <2>3 DEF Cleans
    <3>. QED  BY <2>3, <3>1, CleansRecords, EngineKept
  <2>4. CASE Forgets(a)
    <3>1. engine' = engine
      BY <2>4 DEF Forgets
    <3>. QED  BY <2>4, <3>1, ForgetsRecords, EngineKept
  <2>. QED  BY <1>5, <2>1, <2>2, <2>3, <2>4, FreesEngine DEF WorkerTurn
<1>6. CASE Hears
  <2>1. engine' = engine
    BY <1>6 DEF Hears, Reads
  <2>. QED  BY <1>6, <2>1, HearsRecords, EngineKept
<1>. QED  BY <1>2, <1>3, <1>4, <1>5, <1>6 DEF Next

-----------------------------------------------------------------------------
(* What runs is known.                                                     *)

LEMMA ApartKept ==
    ASSUME Apart, \A t \in Threads : thread'[t].op \in {thread[t].op, "none"}
    PROVE  Apart'
  BY DEF Apart, Clash, Making, Ending

\* Who gets in another's way says so.
LEMMA BeginsApart ==
    ASSUME Types, Apart, NEW t \in Threads, Begins(t), ~raced'
    PROVE  Apart'
<1>1. CASE Takes(t, thread[t].at, thread[t].op, thread[t].c)
  BY <1>1, ApartKept DEF Takes
<1>2. ASSUME NEW op \in Ops, Takes(t, First(op), op, 0),
             raced' <=> raced \/ \E u \in Threads \ {t} : Clash(op, thread[u].op)
      PROVE  Apart'
  <2>1. \A u \in Threads \ {t} : ~Clash(op, thread[u].op) /\ ~Clash(thread[u].op, op)
    BY <1>2 DEF Clash, Making, Ending
  <2>. QED  BY <1>2, <2>1 DEF Apart, Takes
<1>. QED  BY <1>1, <1>2, BeginsRecords

LEMMA NextApart ==
    ASSUME Types, References, Apart, [Next]_vars, ~raced'
    PROVE  Apart'
<1>1. ASSUME UNCHANGED thread PROVE Apart'
  BY <1>1, ApartKept
<1>2. CASE \/ UNCHANGED vars \/ Drifts \/ Loaded \/ AgentWrites \/ Views \/ Sees \/ LeavesView \/ Follows \/ Hears
  <2>1. UNCHANGED thread
    BY <1>2
       DEF vars, Drifts, Loaded, AgentWrites, Views, Sees, LeavesView, Follows, Hears, Reads
  <2>. QED  BY <1>1, <2>1
<1>3. ASSUME NEW c, GuardTurn(c) \/ Poll(c) \/ PollFails(c) PROVE Apart'
  <2>1. UNCHANGED thread
    BY <1>3
       DEF GuardTurn, Looks, Recovers, LoadsTooLong, RouteEnds, Reports, Poll, PollFails,
           Guards
  <2>. QED  BY <1>1, <2>1
<1>4. ASSUME NEW a, WorkerTurn(a) \/ Forgets(a) PROVE Apart'
  <2>1. UNCHANGED thread
    BY <1>4 DEF WorkerTurn, StartsAnalysis, Streams, Cleans, Frees, Forgets, Works
  <2>. QED  BY <1>1, <2>1
<1>5. ASSUME NEW t \in Threads, RequestTurn(t) PROVE Apart'
  <2>1. ASSUME NEW at, NEW op \in {thread[t].op, "none"}, NEW c, Takes(t, at, op, c) PROVE Apart'
    BY <2>1, ApartKept DEF Takes
  <2>2. ASSUME Returns(t) PROVE Apart'
    BY <2>1, <2>2, ThreadReturns
  <2>3. ASSUME NEW at \in Places, Moves(t, at) PROVE Apart'
    BY <2>1, <2>3, ThreadMoves
  <2>4. ASSUME NEW at \in Places, NEW c \in Nat, MovesWith(t, at, c) PROVE Apart'
    BY <2>1, <2>4, ThreadMovesWith
  <2>5. active \in Nat /\ Len(collectors) + 1 \in Nat /\ Len(analyses) + 1 \in Nat
    BY DEF Types, CollectorTypes, EngineTypes
  <2>6. CASE Enters(t) \/ NoAgent(t) \/ Flags(t) \/ Joins(t) \/ Leaves(t) \/ Binds(t) \/ Cancels(t) \/ Aborts(t)
    BY <2>2, <2>3, <2>6
       DEF Enters, NoAgent, Flags, Joins, Leaves, Binds, Cancels, Aborts, Places
  <2>7. CASE Creates(t) \/ Stops(t) \/ Analyses(t) \/ StopsCollecting(t)
    BY <2>2, <2>3, <2>4, <2>5, <2>7 DEF Creates, Stops, Analyses, StopsCollecting, Places
  <2>8. CASE StartsOver(t)
    BY <1>1, <2>8 DEF StartsOver
  <2>. QED  BY <1>5, <2>6, <2>7, <2>8, BeginsApart DEF RequestTurn
<1>. QED  BY <1>2, <1>3, <1>4, <1>5 DEF Next

\* What keeps the collectors known: who collects or flags goes on, or has done
\* so, and who ends a stream, or is about to make one, does so with none on.
LEMMA CollectorsKept ==
    ASSUME Types, CollectorsKnown, SameCollectors, active' = active,
           live' = live \/ live' = TRUE \/ ~LiveRuns,
           status' = "aborted" => status = "aborted" \/ ~LiveRuns,
           \A t \in Threads :
              /\ thread[t].at = "collects" =>
                   (thread'[t].at = "collects" /\ thread'[t].c = thread[t].c) \/ ~collectors'[thread[t].c].run
              /\ thread[t].at = "flags" => thread'[t].at = "flags" \/ live' = TRUE
              /\ thread'[t].op = "start" /\ thread'[t].at \in {"enters", "creates"} =>
                   (thread[t].op = "start" /\ thread[t].at \in {"enters", "creates"}) \/ ~LiveRuns
              /\ thread'[t].op \in Ending /\ thread'[t].at \in {"joins", "leaves", "cancels", "aborts"} =>
                   \/ thread[t].op \in Ending /\ thread[t].at \in {"joins", "leaves", "cancels", "aborts"}
                   \/ ~LiveRuns \/ ~(LiveRuns')
    PROVE  CollectorsKnown'
<1>1. LiveRuns' => LiveRuns
  BY DEF LiveRuns, Running, SameCollectors
<1>2. ASSUME NEW c \in DOMAIN collectors', collectors'[c].run
      PROVE  \/ collectors'[c].for = "live" /\ active' = c
             \/ \E t \in Threads : thread'[t].at = "collects" /\ thread'[t].c = c
  <2>1. c \in DOMAIN collectors /\ collectors[c].run /\ collectors'[c].for = collectors[c].for
    BY <1>2 DEF SameCollectors
  <2>2. CASE collectors[c].for = "live" /\ active = c
    BY <2>1, <2>2
  <2>3. CASE \E t \in Threads : thread[t].at = "collects" /\ thread[t].c = c
    BY <1>2, <2>3
  <2>. QED  BY <2>1, <2>2, <2>3 DEF CollectorsKnown
<1>3. LiveRuns' => live' \/ \E t \in Threads : thread'[t].at = "flags"
  BY <1>1 DEF CollectorsKnown
<1>4. ASSUME NEW t \in Threads
      PROVE  /\ thread'[t].op = "start" /\ thread'[t].at \in {"enters", "creates"} => ~(LiveRuns')
             /\ thread'[t].op \in Ending /\ thread'[t].at \in {"joins", "leaves", "cancels", "aborts"} => ~(LiveRuns')
  BY <1>1 DEF CollectorsKnown
<1>5. status' = "aborted" => ~(LiveRuns')
  BY <1>1 DEF CollectorsKnown
<1>. QED  BY <1>2, <1>3, <1>4, <1>5 DEF CollectorsKnown

\* A request that takes part in no collection and no stream.
LEMMA RequestKeepsCollectors ==
    ASSUME Types, CollectorsKnown, NEW t \in Threads, NEW at, NEW op, NEW c, Takes(t, at, op, c),
           UNCHANGED <<collectors, active>>, live' = live \/ live' = TRUE \/ ~LiveRuns,
           status' = "aborted" => status = "aborted" \/ ~LiveRuns,
           thread[t].at # "collects", thread[t].at = "flags" => live' = TRUE,
           op = "start" /\ at \in {"enters", "creates"} =>
              (thread[t].op = "start" /\ thread[t].at \in {"enters", "creates"}) \/ ~LiveRuns,
           op \in Ending /\ at \in {"joins", "leaves", "cancels", "aborts"} =>
              \/ thread[t].op \in Ending /\ thread[t].at \in {"joins", "leaves", "cancels", "aborts"}
              \/ ~LiveRuns
    PROVE  CollectorsKnown'
<1>1. SameCollectors
  BY DEF SameCollectors, Types, CollectorTypes
<1>2. thread'[t].at = at /\ thread'[t].op = op
  BY OwnPlace
<1>. QED  BY <1>1, <1>2, CollectorsKept DEF Takes

LEMMA DiagnosesKept ==
    ASSUME Types, DiagnosesKnown, DOMAIN analyses' = DOMAIN analyses, Len(analyses') = Len(analyses),
           \A a \in DOMAIN analyses : (Going(a))' => Going(a) /\ (bound' = a \/ bound # a),
           status' = "aborted" => status = "aborted" \/ (NoneGoes'),
           \A t \in Threads :
              /\ thread[t].at = "binds" => (thread'[t].at = "binds" /\ thread'[t].c = thread[t].c)
                                           \/ \A a \in DOMAIN analyses : (Going(a))' => bound' = a
              /\ thread'[t].at = "binds" => thread[t].at = "binds" /\ thread'[t].c = thread[t].c
              /\ thread'[t].at = "aborts" => thread[t].at = "aborts" \/ (NoneGoes')
    PROVE  DiagnosesKnown'
<1>1. NoneGoes => (NoneGoes')
  BY DEF NoneGoes
<1>2. ASSUME NEW a \in DOMAIN analyses', (Going(a))'
      PROVE  bound' = a \/ \E t \in Threads : thread'[t].at = "binds" /\ thread'[t].c = a
  BY <1>2 DEF DiagnosesKnown
<1>3. ASSUME NEW t \in Threads
      PROVE  /\ thread'[t].at = "binds" => thread'[t].c = Len(analyses')
             /\ thread'[t].at = "aborts" => (NoneGoes')
  BY <1>1 DEF DiagnosesKnown
<1>4. status' = "aborted" => (NoneGoes')
  BY <1>1 DEF DiagnosesKnown
<1>. QED  BY <1>2, <1>3, <1>4 DEF DiagnosesKnown

\* A request that takes part in no diagnosis.
LEMMA RequestKeepsDiagnoses ==
    ASSUME Types, DiagnosesKnown, NEW t \in Threads, NEW at, NEW op, NEW c, Takes(t, at, op, c),
           UNCHANGED <<analyses, bound, status>>, thread[t].at # "binds", at \notin {"binds", "aborts"}
    PROVE  DiagnosesKnown'
<1>1. thread'[t].at = at
  BY OwnPlace
<1>2. \A a \in DOMAIN analyses : (Going(a))' <=> Going(a)
  BY DEF Going
<1>. QED  BY <1>1, <1>2, DiagnosesKept DEF Takes

LEMMA MakesNoneKept ==
    ASSUME MakesNone, UNCHANGED status, \A t \in Threads : thread'[t].op \in {thread[t].op, "none"}
    PROVE  MakesNone'
  BY DEF MakesNone, Making

LEMMA BeginsKnown ==
    ASSUME Types, References, Known, NEW t \in Threads, Begins(t), ~raced'
    PROVE  Known'
<1>1. UNCHANGED <<gds, file, collectors, active, status, live, bound, analyses>> /\ thread[t].at = "idle"
  BY DEF Begins, At
<1>2. ASSUME Takes(t, "idle", thread[t].op, thread[t].c) PROVE Known'
  <2>1. CollectorsKnown'
    BY <1>1, <1>2, RequestKeepsCollectors DEF Known
  <2>2. DiagnosesKnown'
    BY <1>1, <1>2, RequestKeepsDiagnoses DEF Known
  <2>3. MakesNone'
    BY <1>1, <1>2, MakesNoneKept DEF Known, Takes
  <2>. QED  BY <2>1, <2>2, <2>3 DEF Known
<1>3. ASSUME NEW op \in Ops, Takes(t, First(op), op, 0), Admits(op),
             raced' <=> raced \/ \E u \in Threads \ {t} : Clash(op, thread[u].op)
      PROVE  Known'
  <2>1. op = "start" /\ First(op) \in {"enters", "creates"} => ~LiveRuns
    BY DEF First, LiveRuns
  <2>2. op \in Ending /\ First(op) \in {"joins", "leaves", "cancels", "aborts"} => ~LiveRuns
    <3>1. op \in Ending => ~\E u \in Threads : thread[u].at = "flags"
      <4>1. \A u \in Threads : thread[u].at = "flags" => thread[u].op = "start" /\ u # t
        BY <1>1 DEF References, Stays
      <4>. QED  BY <1>3, <4>1 DEF Clash, Making
    <3>2. op \in Ending /\ First(op) \in {"joins", "leaves", "cancels", "aborts"} => ~live
      BY DEF First, Ending
    <3>. QED  BY <3>1, <3>2 DEF Known, CollectorsKnown
  <2>3. CollectorsKnown'
    BY <1>1, <1>3, <2>1, <2>2, RequestKeepsCollectors DEF Known
  <2>4. First(op) \notin {"binds", "aborts"}
    BY <1>3 DEF First, Ops, Making, Ending
  <2>5. DiagnosesKnown'
    BY <1>1, <1>3, <2>4, RequestKeepsDiagnoses DEF Known
  <2>6. status = "aborted" => op \notin Making
    BY <1>3 DEF Admits, Making
  <2>7. MakesNone'
    BY <1>1, <1>3, <2>6 DEF Known, MakesNone, Takes
  <2>. QED  BY <2>3, <2>5, <2>7 DEF Known
<1>. QED  BY <1>1, <1>2, <1>3, BeginsRecords

\* No stream runs beside who is about to make one, or is ending one.
LEMMA NoStreamBeside ==
    ASSUME CollectorsKnown, NEW t \in Threads,
           \/ thread[t].op = "start" /\ thread[t].at \in {"enters", "creates"}
           \/ thread[t].op \in Ending /\ thread[t].at \in {"joins", "leaves", "cancels", "aborts"}
    PROVE  ~LiveRuns
  BY DEF CollectorsKnown

LEMMA EntersKnown ==
    ASSUME Types, References, Known, NEW t \in Threads, Enters(t)
    PROVE  Known'
<1>1. UNCHANGED <<collectors, active, status, live, bound, analyses>> /\ thread[t].at = "enters"
  BY DEF Enters, Asks, At
<1>2. PICK at \in {"creates", "idle"}, op \in {thread[t].op, "none"}, c \in {thread[t].c, 0} : Takes(t, at, op, c)
  BY ThreadMoves, ThreadReturns DEF Enters, Places
<1>3. thread[t].op \in {"start", "ai"}
  BY <1>1 DEF References, Stays
<1>4. CollectorsKnown'
  BY <1>1, <1>2, <1>3, RequestKeepsCollectors DEF Known, Ending
<1>5. DiagnosesKnown'
  BY <1>1, <1>2, RequestKeepsDiagnoses DEF Known
<1>6. MakesNone'
  BY <1>1, <1>2, MakesNoneKept DEF Known, Takes
<1>. QED  BY <1>4, <1>5, <1>6 DEF Known

LEMMA NoAgentKnown ==
    ASSUME Types, References, Known, NEW t \in Threads, NoAgent(t)
    PROVE  Known'
<1>1. UNCHANGED <<collectors, active, status, live, bound, analyses>> /\ thread[t].at = "creates"
  BY DEF NoAgent, Asks, At
<1>2. Takes(t, "idle", "none", 0)
  BY ThreadReturns DEF NoAgent
<1>3. CollectorsKnown'
  BY <1>1, <1>2, RequestKeepsCollectors DEF Known, Ending
<1>4. DiagnosesKnown'
  BY <1>1, <1>2, RequestKeepsDiagnoses DEF Known
<1>5. MakesNone'
  BY <1>1, <1>2, MakesNoneKept DEF Known, Takes
<1>. QED  BY <1>3, <1>4, <1>5 DEF Known

LEMMA FlagsKnown ==
    ASSUME Types, References, Known, NEW t \in Threads, Flags(t)
    PROVE  Known'
<1>1. UNCHANGED <<collectors, active, status, bound, analyses>> /\ thread[t].at = "flags" /\ live' = TRUE
  BY DEF Flags, Asks, At
<1>2. Takes(t, "idle", "none", 0)
  BY ThreadReturns DEF Flags
<1>3. CollectorsKnown'
  BY <1>1, <1>2, RequestKeepsCollectors DEF Known, Ending
<1>4. DiagnosesKnown'
  BY <1>1, <1>2, RequestKeepsDiagnoses DEF Known
<1>5. MakesNone'
  BY <1>1, <1>2, MakesNoneKept DEF Known, Takes
<1>. QED  BY <1>3, <1>4, <1>5 DEF Known

\* A stream is made by the only start there is, and no stop or abort is under way.
LEMMA CreatesKnown ==
    ASSUME Types, References, Apart, Known, NEW t \in Threads, Creates(t)
    PROVE  Known'
<1>1. UNCHANGED <<status, live, bound, analyses>> /\ thread[t].at = "creates" /\ thread[t].op \in {"start", "ai"}
  BY DEF Creates, Asks, At, References, Stays
<1>2. PICK new \in Nat : new = Len(collectors) + 1
  BY DEF Types, CollectorTypes
<1>3. /\ DOMAIN collectors' = DOMAIN collectors \cup {new} /\ new \notin DOMAIN collectors
      /\ \A d \in DOMAIN collectors : collectors'[d] = collectors[d]
      /\ collectors'[new].for = IF thread[t].op = "start" THEN "live" ELSE "ai"
  BY <1>2, CreatesRecords
<1>4. CASE thread[t].op = "start"
  <2>1. Takes(t, "flags", "start", new) /\ active' = new /\ collectors'[new].for = "live"
    BY <1>2, <1>3, <1>4, ThreadMovesWith DEF Creates, Places
  <2>2. ~LiveRuns
    BY <1>1, <1>4, NoStreamBeside DEF Known
  <2>3. \A u \in Threads \ {t} : thread[u].op \notin Ending \cup {"start"}
    BY <1>4 DEF Apart, Clash, Making
  <2>4. status # "aborted"
    BY <1>4 DEF Known, MakesNone, Making
  <2>5. ASSUME NEW c \in DOMAIN collectors', collectors'[c].run, c # new
        PROVE  \E u \in Threads : thread'[u].at = "collects" /\ thread'[u].c = c
    <3>1. c \in DOMAIN collectors /\ collectors[c].run
      BY <1>3, <2>5
    <3>2. active # c
      BY <2>2, <3>1 DEF LiveRuns, Running
    <3>3. PICK u \in Threads : thread[u].at = "collects" /\ thread[u].c = c
      BY <3>1, <3>2 DEF Known, CollectorsKnown
    <3>. QED  BY <1>1, <2>1, <3>3 DEF Takes
  <2>6. thread'[t].at = "flags" /\ thread'[t].op = "start"
    BY <2>1, OwnPlace
  <2>7. CollectorsKnown'
    BY <1>1, <2>1, <2>3, <2>4, <2>5, <2>6 DEF CollectorsKnown, Takes, Ending
  <2>8. DiagnosesKnown'
    BY <1>1, <2>1, RequestKeepsDiagnoses DEF Known
  <2>9. MakesNone'
    BY <1>1, <1>4, <2>1, <2>6, MakesNoneKept DEF Known, Takes
  <2>. QED  BY <2>7, <2>8, <2>9 DEF Known
<1>5. CASE thread[t].op = "ai"
  <2>1. Takes(t, "collects", "ai", new) /\ active' = active
    BY <1>2, <1>5, ThreadMovesWith DEF Creates, Places
  <2>2. thread'[t].at = "collects" /\ thread'[t].op = "ai" /\ thread'[t].c = new
    BY <2>1, OwnPlace
  <2>3. LiveRuns' <=> LiveRuns
    <3>1. active \in DOMAIN collectors \/ active = 0
      BY DEF Types, CollectorTypes
    <3>2. new # 0
      BY <1>2 DEF Types, CollectorTypes
    <3>3. active \in DOMAIN collectors' <=> active \in DOMAIN collectors
      BY <1>2, <1>3, <3>1, <3>2 DEF Types, CollectorTypes
    <3>. QED  BY <1>3, <2>1, <3>3 DEF LiveRuns, Running
  <2>4. ASSUME NEW c \in DOMAIN collectors, collectors'[c].run
        PROVE  \/ collectors'[c].for = "live" /\ active' = c
               \/ \E u \in Threads : thread'[u].at = "collects" /\ thread'[u].c = c
    <3>1. collectors'[c] = collectors[c]
      BY <1>3
    <3>2. CASE \E u \in Threads : thread[u].at = "collects" /\ thread[u].c = c
      BY <1>1, <2>1, <3>2 DEF Takes
    <3>. QED  BY <2>1, <2>4, <3>1, <3>2 DEF Known, CollectorsKnown
  <2>5. \A c \in DOMAIN collectors' : collectors'[c].run =>
          \/ collectors'[c].for = "live" /\ active' = c
          \/ \E u \in Threads : thread'[u].at = "collects" /\ thread'[u].c = c
    BY <1>3, <2>2, <2>4
  <2>6. LiveRuns' => live' \/ \E u \in Threads : thread'[u].at = "flags"
    BY <1>1, <2>1, <2>3 DEF Known, CollectorsKnown, Takes
  <2>7. \A u \in Threads :
          /\ thread'[u].op = "start" /\ thread'[u].at \in {"enters", "creates"} => ~(LiveRuns')
          /\ thread'[u].op \in Ending /\ thread'[u].at \in {"joins", "leaves", "cancels", "aborts"} => ~(LiveRuns')
    BY <2>1, <2>2, <2>3 DEF Known, CollectorsKnown, Takes, Ending
  <2>8. status' = "aborted" => ~(LiveRuns')
    BY <1>1, <2>3 DEF Known, CollectorsKnown
  <2>9. CollectorsKnown'
    BY <2>5, <2>6, <2>7, <2>8 DEF CollectorsKnown
  <2>10. DiagnosesKnown'
    BY <1>1, <2>1, RequestKeepsDiagnoses DEF Known
  <2>11. MakesNone'
    BY <1>1, <1>5, <2>1, <2>2, MakesNoneKept DEF Known, Takes
  <2>. QED  BY <2>9, <2>10, <2>11 DEF Known
<1>. QED  BY <1>1, <1>4, <1>5

LEMMA StartsOverKnown ==
    ASSUME Types, References, Known, NEW t \in Threads, StartsOver(t)
    PROVE  Known'
<1>1. UNCHANGED <<thread, active, status, live, bound, analyses>>
  BY DEF StartsOver, Asks
<1>2. SameCollectors
  BY Collects, StartsOverRecords DEF StartsOver, Alters
<1>3. CollectorsKnown'
  BY <1>1, <1>2, CollectorsKept DEF Known
<1>4. DiagnosesKnown' /\ MakesNone'
  BY <1>1 DEF Known, DiagnosesKnown, NoneGoes, Going, MakesNone
<1>. QED  BY <1>3, <1>4 DEF Known

LEMMA StopsCollectingKnown ==
    ASSUME Types, References, Known, NEW t \in Threads, StopsCollecting(t)
    PROVE  Known'
<1>1. UNCHANGED <<active, status, live, bound, analyses>>
  BY DEF StopsCollecting, Asks
<1>2. /\ thread[t].c \in DOMAIN collectors /\ thread[t].op = "ai" /\ thread[t].at = "collects"
  BY Collects DEF StopsCollecting
<1>3. SameCollectors /\ ~collectors'[thread[t].c].run
  BY <1>2, StopsCollectingRecords DEF Alters
<1>4. Takes(t, "joins", "ai", thread[t].c)
  BY <1>2, ThreadMoves DEF StopsCollecting, Places
<1>5. thread'[t].at = "joins" /\ thread'[t].op = "ai"
  BY <1>4, OwnPlace
<1>6. CollectorsKnown'
  BY <1>1, <1>2, <1>3, <1>4, <1>5, CollectorsKept DEF Known, Takes, Ending
<1>7. DiagnosesKnown'
  BY <1>1, <1>2, <1>4, RequestKeepsDiagnoses DEF Known
<1>8. MakesNone'
  BY <1>1, <1>2, <1>4, <1>5, MakesNoneKept DEF Known, Takes
<1>. QED  BY <1>6, <1>7, <1>8 DEF Known

LEMMA StopsKnown ==
    ASSUME Types, References, Known, NEW t \in Threads, Stops(t)
    PROVE  Known'
<1>1. UNCHANGED <<active, status, live, bound, analyses>> /\ thread[t].at = "stops" /\ thread[t].op \in Ending
  BY DEF Stops, Asks, At, References, Stays
<1>2. SameCollectors /\ ~(LiveRuns')
  <2>1. active # 0 => ~collectors'[active].run
    BY StopsRecords
  <2>2. active = 0 => active \notin DOMAIN collectors'
    BY StopsRecords DEF SameCollectors, Types, CollectorTypes
  <2>. QED  BY <1>1, <2>1, <2>2, StopsRecords DEF LiveRuns, Running
<1>3. Takes(t, "joins", thread[t].op, active)
  <2>1. active \in Nat
    BY DEF Types, CollectorTypes
  <2>. QED  BY <2>1, ThreadMovesWith DEF Stops, Places
<1>4. thread'[t].at = "joins" /\ thread'[t].op = thread[t].op
  BY <1>3, OwnPlace
<1>5. CollectorsKnown'
  BY <1>1, <1>2, <1>3, <1>4, CollectorsKept DEF Known, Takes
<1>6. DiagnosesKnown'
  BY <1>1, <1>3, RequestKeepsDiagnoses DEF Known
<1>7. MakesNone'
  BY <1>1, <1>3, <1>4, MakesNoneKept DEF Known, Takes
<1>. QED  BY <1>5, <1>6, <1>7 DEF Known

LEMMA JoinsKnown ==
    ASSUME Types, References, Known, NEW t \in Threads, Joins(t)
    PROVE  Known'
<1>1. UNCHANGED <<collectors, status, live, bound, analyses>> /\ thread[t].at = "joins" /\ thread[t].op \in Ending \cup {"ai"}
  BY DEF Joins, Asks, At, References, Stays
<1>2. PICK at \in {"leaves", "idle", "analyses"}, op \in {thread[t].op, "none"}, c \in {thread[t].c, 0} :
        /\ Takes(t, at, op, c)
        /\ \/ thread[t].op \in Ending /\ op = thread[t].op /\ at = "leaves" /\ active' = 0
           \/ thread[t].op = "ai" /\ active' = active
  <2>1. CASE thread[t].op # "ai"
    BY <1>1, <2>1, ThreadMoves DEF Joins, Places
  <2>2. CASE thread[t].op = "ai"
    BY <1>1, <2>2, ThreadMoves, ThreadReturns DEF Joins, Places
  <2>. QED  BY <2>1, <2>2
<1>3. thread'[t].at = at /\ thread'[t].op = op
  BY <1>2, OwnPlace
<1>4. DiagnosesKnown'
  BY <1>1, <1>2, RequestKeepsDiagnoses DEF Known
<1>5. MakesNone'
  BY <1>1, <1>2, <1>3, MakesNoneKept DEF Known, Takes
<1>6. CASE thread[t].op = "ai" /\ active' = active
  <2>1. CollectorsKnown'
    BY <1>1, <1>2, <1>6, RequestKeepsCollectors DEF Known, Ending
  <2>. QED  BY <1>4, <1>5, <2>1 DEF Known
<1>7. CASE thread[t].op \in Ending /\ active' = 0
  <2>1. ~LiveRuns /\ ~(LiveRuns')
    <3>1. ~LiveRuns
      BY <1>1, <1>7, NoStreamBeside DEF Known
    <3>2. 0 \notin DOMAIN collectors
      BY DEF Types, CollectorTypes
    <3>. QED  BY <1>1, <1>7, <3>1, <3>2 DEF LiveRuns, Running
  <2>2. ASSUME NEW d \in DOMAIN collectors, collectors[d].run
        PROVE  \E u \in Threads : thread'[u].at = "collects" /\ thread'[u].c = d
    <3>1. active # d
      BY <2>1, <2>2 DEF LiveRuns, Running
    <3>2. PICK u \in Threads : thread[u].at = "collects" /\ thread[u].c = d
      BY <2>2, <3>1 DEF Known, CollectorsKnown
    <3>. QED  BY <1>1, <1>2, <3>2 DEF Takes
  <2>3. CollectorsKnown'
    BY <1>1, <2>1, <2>2 DEF CollectorsKnown
  <2>. QED  BY <1>4, <1>5, <2>3 DEF Known
<1>. QED  BY <1>2, <1>6, <1>7

LEMMA LeavesKnown ==
    ASSUME Types, References, Known, NEW t \in Threads, Leaves(t)
    PROVE  Known'
<1>1. UNCHANGED <<collectors, active, status, bound, analyses>> /\ thread[t].at = "leaves" /\ thread[t].op \in Ending
  BY DEF Leaves, Asks, At, References, Stays
<1>2. PICK at \in {"cancels", "idle"}, op \in {thread[t].op, "none"}, c \in {thread[t].c, 0} : Takes(t, at, op, c)
  <2>1. CASE thread[t].op = "stop"
    BY <2>1, ThreadReturns DEF Leaves
  <2>2. CASE thread[t].op # "stop"
    BY <2>2, ThreadMoves DEF Leaves, Places
  <2>. QED  BY <2>1, <2>2
<1>3. ~LiveRuns
  BY <1>1, NoStreamBeside DEF Known
<1>4. CollectorsKnown'
  BY <1>1, <1>2, <1>3, RequestKeepsCollectors DEF Known, Ending
<1>5. DiagnosesKnown'
  BY <1>1, <1>2, RequestKeepsDiagnoses DEF Known
<1>6. MakesNone'
  BY <1>1, <1>2, MakesNoneKept DEF Known, Takes
<1>. QED  BY <1>4, <1>5, <1>6 DEF Known

\* Beside a request for a diagnosis there is neither another one nor an abort.
LEMMA AloneForDiagnosis ==
    ASSUME References, Apart, NEW t \in Threads, thread[t].op \in {"ai", "retry"}
    PROVE  \A u \in Threads \ {t} : thread[u].at \notin {"binds", "aborts"}
  BY DEF References, Stays, Apart, Clash, Making, Ending

LEMMA AnalysesKnown ==
    ASSUME Types, References, EngineInv, Apart, Known, NEW t \in Threads, Analyses(t)
    PROVE  Known'
<1>1. /\ UNCHANGED <<collectors, active, status, live, bound>>
      /\ thread[t].at = "analyses" /\ thread[t].op \in {"ai", "retry"}
  BY DEF Analyses, Asks, At, References, Stays
<1>2. PICK at \in {"binds", "idle"}, op \in {thread[t].op, "none"}, c \in Nat : Takes(t, at, op, c)
  BY AnalysesRecords
<1>3. CollectorsKnown'
  BY <1>1, <1>2, RequestKeepsCollectors DEF Known, Ending
<1>4. MakesNone'
  BY <1>1, <1>2, MakesNoneKept DEF Known, Takes
<1>5. CASE analyses' = analyses /\ Takes(t, "idle", "none", 0)
  <2>1. DiagnosesKnown'
    BY <1>1, <1>5, RequestKeepsDiagnoses DEF Known
  <2>. QED  BY <1>3, <1>4, <2>1 DEF Known
<1>6. CASE engine = 0 /\ ~(analyses' = analyses /\ Takes(t, "idle", "none", 0))
  <2>1. PICK a : a = Len(analyses) + 1
    OBVIOUS
  <2>2. /\ Len(analyses') = a /\ DOMAIN analyses' = DOMAIN analyses \cup {a}
        /\ \A b \in DOMAIN analyses : analyses'[b] = analyses[b]
        /\ Takes(t, "binds", thread[t].op, a)
    BY <1>6, <2>1, AnalysesRecords
  <2>3. ASSUME NEW b \in DOMAIN analyses PROVE ~(Going(b))'
    <3>1. b # 0
      BY DEF Types, EngineTypes
    <3>. QED  BY <1>6, <2>2, <3>1 DEF EngineInv, Going
  <2>4. \A u \in Threads \ {t} : thread'[u].at \notin {"binds", "aborts"}
    BY <1>1, <2>2, AloneForDiagnosis DEF Takes
  <2>5. thread'[t].at = "binds" /\ thread'[t].c = a
    BY <2>2, OwnPlace
  <2>6. status' # "aborted"
    BY <1>1 DEF Known, MakesNone, Making
  <2>7. DiagnosesKnown'
    BY <2>2, <2>3, <2>4, <2>5, <2>6 DEF DiagnosesKnown
  <2>. QED  BY <1>3, <1>4, <2>7 DEF Known
<1>. QED  BY <1>5, <1>6, AnalysesRecords

\* The diagnosis that is bound is the last one, and no other goes on.
LEMMA BindsKnown ==
    ASSUME Types, References, EngineInv, Known, NEW t \in Threads, Binds(t)
    PROVE  Known'
<1>1. /\ UNCHANGED <<collectors, active, status, live, analyses>> /\ bound' = thread[t].c
      /\ thread[t].at = "binds" /\ thread[t].op \in {"ai", "retry"}
  BY DEF Binds, Asks, At, References, Stays
<1>2. Takes(t, "idle", "none", 0)
  BY ThreadReturns DEF Binds
<1>3. CollectorsKnown'
  BY <1>1, <1>2, RequestKeepsCollectors DEF Known, Ending
<1>4. MakesNone'
  BY <1>1, <1>2, MakesNoneKept DEF Known, Takes
<1>5. ASSUME NEW a \in DOMAIN analyses, Going(a) PROVE bound' = a
  <2>1. a # 0 /\ engine = a
    BY <1>5 DEF EngineInv, Going, Types, EngineTypes
  <2>. QED  BY <1>1, <2>1 DEF EngineInv, Known, DiagnosesKnown
<1>6. \A a \in DOMAIN analyses : (Going(a))' <=> Going(a)
  BY <1>1 DEF Going
<1>7. thread'[t].at = "idle"
  BY <1>2, OwnPlace
<1>8. DiagnosesKnown'
  BY <1>1, <1>2, <1>5, <1>6, <1>7, DiagnosesKept DEF Known, Takes
<1>. QED  BY <1>3, <1>4, <1>8 DEF Known

\* An abort cancels what the session has, and nothing is being bound to it.
LEMMA CancelsKnown ==
    ASSUME Types, References, EngineInv, Apart, Known, NEW t \in Threads, Cancels(t)
    PROVE  Known'
<1>1. UNCHANGED <<collectors, active, status, live>> /\ thread[t].at = "cancels" /\ thread[t].op = "abort"
  BY DEF Cancels, Asks, At, References, Stays
<1>2. Takes(t, "aborts", "abort", thread[t].c)
  BY <1>1, ThreadMoves DEF Cancels, Places
<1>3. CollectorsKnown'
  BY <1>1, <1>2, RequestKeepsCollectors DEF Known, Ending
<1>4. MakesNone'
  BY <1>1, <1>2, OwnPlace, MakesNoneKept DEF Known, Takes
<1>5. \A u \in Threads : thread[u].at # "binds"
  BY <1>1 DEF References, Stays, Apart, Clash, Making, Ending
<1>6. \A a \in DOMAIN analyses : Going(a) => bound = a
  BY <1>5 DEF Known, DiagnosesKnown
<1>7. DOMAIN analyses' = DOMAIN analyses /\ Len(analyses') = Len(analyses) /\ NoneGoes'
  <2>1. CASE analyses' = analyses /\ (bound = 0 \/ (~analyses[bound].known /\ engine # bound))
    <3>1. ASSUME NEW a \in DOMAIN analyses PROVE ~Going(a)
      <4>1. a # 0
        BY DEF Types, EngineTypes
      <4>. QED  BY <1>6, <2>1, <4>1 DEF EngineInv, Going
    <3>. QED  BY <2>1, <3>1 DEF NoneGoes, Going
  <2>2. CASE AltersAnalysis(bound) /\ analyses'[bound].cancelled
    <3>1. ASSUME NEW a \in DOMAIN analyses PROVE ~(Going(a))'
      BY <1>6, <2>2 DEF AltersAnalysis, Going
    <3>. QED  BY <2>2, <3>1 DEF NoneGoes, AltersAnalysis
  <2>. QED  BY <2>1, <2>2, CancelsRecords
<1>8. DiagnosesKnown'
  <2>1. thread'[t].at = "aborts"
    BY <1>2, OwnPlace
  <2>. QED  BY <1>2, <1>5, <1>7, <2>1 DEF DiagnosesKnown, NoneGoes, Takes
<1>. QED  BY <1>3, <1>4, <1>8 DEF Known

LEMMA AbortsKnown ==
    ASSUME Types, References, Apart, Known, NEW t \in Threads, Aborts(t)
    PROVE  Known'
<1>1. /\ UNCHANGED <<collectors, active, analyses>> /\ bound' = 0 /\ live' = FALSE
      /\ thread[t].at = "aborts" /\ thread[t].op = "abort"
  BY DEF Aborts, At, References, Stays
<1>2. Takes(t, "idle", "none", 0)
  BY ThreadReturns DEF Aborts
<1>3. thread'[t].at = "idle" /\ thread'[t].op = "none"
  BY <1>2, OwnPlace
<1>4. ~LiveRuns /\ NoneGoes
  BY <1>1, NoStreamBeside DEF Known, DiagnosesKnown, Ending
<1>5. \A u \in Threads \ {t} : thread[u].op \notin Making /\ thread[u].at \notin {"flags", "binds"}
  BY <1>1 DEF References, Stays, Apart, Clash, Making, Ending
<1>6. CollectorsKnown'
  BY <1>1, <1>2, <1>4, RequestKeepsCollectors DEF Known, Ending
<1>7. DiagnosesKnown'
  BY <1>1, <1>2, <1>3, <1>4, <1>5 DEF DiagnosesKnown, NoneGoes, Going, Takes
<1>8. MakesNone'
  BY <1>2, <1>3, <1>5 DEF MakesNone, Takes, Making
<1>. QED  BY <1>6, <1>7, <1>8 DEF Known

LEMMA CollectorStepsKnown ==
    ASSUME Types, Known, NEW c, GuardTurn(c) \/ Poll(c) \/ PollFails(c)
    PROVE  Known'
<1>1. UNCHANGED <<active, status, live, thread, bound, analyses>>
  BY DEF GuardTurn, Looks, Recovers, LoadsTooLong, RouteEnds, Reports, Poll, PollFails, Guards
<1>2. SameCollectors
  <2>1. CASE Poll(c)
    BY <2>1, PollRecords DEF Alters
  <2>2. CASE Reports(c)
    BY <2>2, ReportsRecords DEF Alters
  <2>. QED  BY <2>1, <2>2, LooksRecords, RecoversRecords, LoadsTooLongRecords,
               RouteEndsRecords, PollFailsRecords
            DEF GuardTurn, Alters
<1>3. CollectorsKnown'
  BY <1>1, <1>2, CollectorsKept DEF Known
<1>4. DiagnosesKnown' /\ MakesNone'
  BY <1>1 DEF Known, DiagnosesKnown, NoneGoes, Going, MakesNone
<1>. QED  BY <1>3, <1>4 DEF Known

\* Nothing but bound, live and the diagnoses changes, and none of those starts again.
LEMMA OthersKnown ==
    ASSUME Types, Known, UNCHANGED <<collectors, active, status, thread>>,
           live' = live \/ live' = TRUE \/ ~LiveRuns,
           DOMAIN analyses' = DOMAIN analyses, Len(analyses') = Len(analyses),
           \A a \in DOMAIN analyses : (Going(a))' => Going(a) /\ (bound' = a \/ bound # a)
    PROVE  Known'
<1>1. SameCollectors
  BY DEF SameCollectors, Types, CollectorTypes
<1>2. CollectorsKnown'
  BY <1>1, CollectorsKept DEF Known
<1>3. DiagnosesKnown'
  BY DiagnosesKept DEF Known
<1>4. MakesNone'
  BY DEF Known, MakesNone
<1>. QED  BY <1>2, <1>3, <1>4 DEF Known

LEMMA WorkerStepsKnown ==
    ASSUME Types, Known, NEW a, WorkerTurn(a) \/ Forgets(a)
    PROVE  Known'
<1>1. UNCHANGED <<collectors, active, status, live, thread, bound>>
  BY DEF WorkerTurn, StartsAnalysis, Streams, Cleans, Frees, Forgets, Works
<1>2. AltersAnalysis(a)
  BY StartsAnalysisRecords, StreamsRecords, CleansRecords, FreesRecords, ForgetsRecords
     DEF WorkerTurn
<1>3. \A b \in DOMAIN analyses : (Going(b))' => Going(b)
  BY <1>2 DEF AltersAnalysis, Going
<1>. QED  BY <1>1, <1>2, <1>3, OthersKnown DEF AltersAnalysis

\* A reader clears the flag, or the diagnosis, when there is nothing to clear.
LEMMA SeesKnown ==
    ASSUME Types, References, Known, Sees, ~misled'
    PROVE  Known'
<1>1. UNCHANGED <<collectors, active, status, thread, bound, analyses>>
  BY DEF Sees, Reads
<1>2. live' = live \/ ~LiveRuns
  <2>1. LiveRuns => collectors[active].for = "live" /\ active \in DOMAIN collectors /\ collectors[active].run
    <3>1. 0 \notin DOMAIN collectors
      BY DEF Types, CollectorTypes
    <3>. QED  BY <3>1 DEF LiveRuns, Running, References
  <2>. QED  BY <2>1 DEF Sees
<1>3. \A b \in DOMAIN analyses : (Going(b))' => Going(b)
  BY <1>1 DEF Going
<1>. QED  BY <1>1, <1>2, <1>3, OthersKnown

LEMMA FollowsKnown ==
    ASSUME Types, References, EngineInv, Known, Follows
    PROVE  Known'
<1>1. UNCHANGED <<collectors, active, status, live, thread, analyses>>
  BY DEF Follows, Reads
<1>2. ASSUME NEW b \in DOMAIN analyses, Going(b) PROVE bound' = b \/ bound # b
  BY <1>2 DEF Follows, EngineInv, Going
<1>3. \A b \in DOMAIN analyses : (Going(b))' => Going(b)
  BY <1>1 DEF Going
<1>. QED  BY <1>1, <1>2, <1>3, OthersKnown

LEMMA HearsKnown ==
    ASSUME Types, References, EngineInv, Known, Hears, ~misled'
    PROVE  Known'
<1>1. UNCHANGED <<collectors, active, status, live, thread>>
  BY DEF Hears, Reads
<1>2. AltersAnalysis(reader.of) /\ analyses[reader.of].queue # <<>>
  BY HearsRecords
<1>3. \A b \in DOMAIN analyses : (Going(b))' => Going(b)
  BY <1>2 DEF AltersAnalysis, Going
<1>4. ASSUME NEW b \in DOMAIN analyses, Going(b) PROVE bound' = b \/ bound # b
  <2>1. CASE Head(analyses[reader.of].queue) \in {"error", "done"}
    <3>1. ~Going(reader.of)
      <4>1. analyses[reader.of].queue \in Seq(Events)
        BY <1>2, AnalysisAt DEF AltersAnalysis, AnalysisStates, Queues
      <4>2. 1 \in DOMAIN analyses[reader.of].queue
            /\ analyses[reader.of].queue[1] = Head(analyses[reader.of].queue)
        BY <1>2, <4>1
      <4>3. ~Quiet(analyses[reader.of].queue)
        BY <2>1, <4>2 DEF Quiet
      <4>. QED  BY <1>2, <4>3 DEF EngineInv, AltersAnalysis
    <3>2. bound \in {0, reader.of}
      BY <2>1 DEF Hears
    <3>3. b # 0
      BY DEF Types, EngineTypes
    <3>. QED  BY <1>4, <3>1, <3>2, <3>3
  <2>2. CASE Head(analyses[reader.of].queue) \notin {"error", "done"}
    BY <2>2 DEF Hears
  <2>. QED  BY <2>1, <2>2
<1>. QED  BY <1>1, <1>2, <1>3, <1>4, OthersKnown DEF AltersAnalysis

LEMMA NextKnown ==
    ASSUME Types, References, EngineInv, Apart, Known, [Next]_vars, ~raced', ~misled'
    PROVE  Known'
<1>1. CASE \/ UNCHANGED vars \/ Drifts \/ Loaded \/ AgentWrites \/ Views \/ LeavesView
  <2>1. UNCHANGED <<collectors, active, status, live, thread, bound, analyses>>
    BY <1>1 DEF vars, Drifts, Loaded, AgentWrites, Views, LeavesView, Reads
  <2>2. \A b \in DOMAIN analyses : (Going(b))' => Going(b)
    BY <2>1 DEF Going
  <2>. QED  BY <2>1, <2>2, OthersKnown
<1>2. ASSUME NEW t \in Threads, RequestTurn(t) PROVE Known'
  BY <1>2, BeginsKnown, EntersKnown, CreatesKnown, NoAgentKnown, FlagsKnown, StartsOverKnown,
     StopsCollectingKnown, StopsKnown, JoinsKnown, LeavesKnown, AnalysesKnown, BindsKnown,
     CancelsKnown, AbortsKnown DEF RequestTurn
<1>. QED  BY <1>1, <1>2, CollectorStepsKnown, WorkerStepsKnown, SeesKnown, FollowsKnown,
             HearsKnown
             DEF Next

\* The races are not forgotten.
LEMMA RacesStay ==
    ASSUME Types, [Next]_vars
    PROVE  (raced => raced') /\ (misled => misled')
<1>1. ASSUME NEW t \in Threads, RequestTurn(t) PROVE (raced => raced') /\ (misled => misled')
  <2>1. CASE Begins(t)
    <3>1. UNCHANGED misled
      BY <2>1 DEF Begins
    <3>. QED  BY <2>1, <3>1, BeginsRecords
  <2>2. CASE ~Begins(t)
    <3>1. UNCHANGED <<raced, misled>>
      BY <1>1, <2>2
         DEF RequestTurn, Enters, Creates, NoAgent, Flags, StartsOver, StopsCollecting, Stops,
                        Joins, Leaves, Analyses, Binds, Cancels, Aborts, Asks
    <3>. QED  BY <3>1
  <2>. QED  BY <2>1, <2>2
<1>2. ASSUME NEW c, GuardTurn(c) \/ Poll(c) \/ PollFails(c) PROVE UNCHANGED <<raced, misled>>
  BY <1>2
     DEF GuardTurn, Looks, Recovers, LoadsTooLong, RouteEnds, Reports, Poll, PollFails, Guards
<1>3. ASSUME NEW a, WorkerTurn(a) \/ Forgets(a) PROVE UNCHANGED <<raced, misled>>
  BY <1>3 DEF WorkerTurn, StartsAnalysis, Streams, Cleans, Frees, Forgets, Works
<1>4. CASE \/ UNCHANGED vars \/ Drifts \/ Loaded \/ AgentWrites \/ Views \/ LeavesView \/ Follows
  <2>1. UNCHANGED <<raced, misled>>
    BY <1>4 DEF vars, Drifts, Loaded, AgentWrites, Views, LeavesView, Follows, Reads
  <2>. QED  BY <2>1
<1>5. ASSUME Sees \/ Hears PROVE (raced => raced') /\ (misled => misled')
  <2>1. UNCHANGED raced
    BY <1>5 DEF Sees, Hears, Reads
  <2>2. misled => misled'
    BY <1>5, Zenon DEF Sees, Hears
  <2>. QED  BY <2>1, <2>2
<1>. QED  BY <1>1, <1>2, <1>3, <1>4, <1>5 DEF Next

LEMMA NextHidden ==
    ASSUME Types, References, EngineInv, NothingHidden, [Next]_vars
    PROVE  NothingHidden'
  BY NextApart, NextKnown, RacesStay DEF NothingHidden

LEMMA NextShape ==
    ASSUME Types, References, [Next]_vars
    PROVE  Types' /\ References'
<1>1. CASE UNCHANGED vars
  <2>1. UNCHANGED <<gds, file, collectors, active, status, live, bound, thread, viewer, analyses, engine,
                    reader, left, raced, misled>>
    BY <1>1 DEF vars
  <2>2. Types'
    BY <2>1 DEF Types, PageTypes, CollectorTypes, SessionTypes, EngineTypes
  <2>3. References'
    BY <2>1 DEF References, Stays, Refers, Gathers, ForDiagnosis, IsPayload
  <2>. QED  BY <2>2, <2>3
<1>. QED  BY <1>1, CollectorStepsKeepShape, RequestStepsKeepShape, WorkerStepsKeepShape,
             OtherStepsKeepShape
             DEF Next

-----------------------------------------------------------------------------
(* The invariants.                                                         *)

Inv == Types /\ References /\ OneLink /\ EngineInv /\ NothingHidden

LEMMA InitInv ==
    ASSUME Init PROVE Inv
<1>1. PICK s \in Settings :
        /\ thread = [t \in Threads |-> [at |-> "idle", op |-> "none", c |-> 0, plan |-> s.plans[t]]]
        /\ left = [pages |-> s.pages, drifts |-> s.drifts, writes |-> s.writes, faults |-> s.faults]
        /\ viewer = [at |-> "off", queue |-> <<>>, left |-> s.views]
        /\ reader = [at |-> "off", of |-> 0, left |-> s.views]
  BY DEF Init
<1>2. /\ s.plans \in [Threads -> Seq(Ops)] /\ s.pages \in SUBSET Pages
      /\ s.drifts \in Nat /\ s.writes \in Nat /\ s.faults \in Nat /\ s.views \in Nat
      /\ MaxMade \in Nat /\ QueueSize \in Nat
  BY LiveDataAssumption DEF Ops
<1>3. /\ gds = [page |-> "away", link |-> 1] /\ file = [count |-> 0, link |-> 0]
      /\ collectors = <<>> /\ active = 0 /\ status = "running" /\ live = FALSE /\ bound = 0
      /\ analyses = <<>> /\ engine = 0 /\ raced = FALSE /\ misled = FALSE
  BY DEF Init
<1>4. DOMAIN collectors = {} /\ DOMAIN analyses = {} /\ Len(collectors) = 0 /\ Len(analyses) = 0
  BY <1>3
<1>5. PageTypes
  BY <1>1, <1>2, <1>3 DEF PageTypes, Pages
<1>6. CollectorTypes
  <2>1. collectors \in Seq(CollectorStates)
    BY <1>3
  <2>. QED  BY <1>2, <1>3, <1>4, <2>1 DEF CollectorTypes
<1>7. SessionTypes
  <2>1. thread \in [Threads -> ThreadStates]
    BY <1>1, <1>2 DEF ThreadStates, Places
  <2>2. <<>> \in Seq({"data", "error"})
    OBVIOUS
  <2>3. <<>> \in Queues({"data", "error"})
    BY <1>2, <2>2 DEF Queues
  <2>. QED  BY <1>1, <1>2, <1>3, <2>1, <2>3 DEF SessionTypes
<1>8. EngineTypes
  <2>1. analyses \in Seq(AnalysisStates)
    BY <1>3
  <2>. QED  BY <1>1, <1>2, <1>3, <1>4, <2>1 DEF EngineTypes
<1>9. References
  BY <1>1, <1>3, <1>4 DEF References, Stays, Refers, Gathers
<1>10. OneLink /\ EngineInv
  BY <1>3, <1>4 DEF OneLink, EngineInv
<1>11. Apart
  BY <1>1 DEF Apart, Clash, Making, Ending
<1>12. Known
  BY <1>1, <1>3, <1>4 DEF Known, CollectorsKnown, DiagnosesKnown, MakesNone, LiveRuns, Running
<1>. QED  BY <1>5, <1>6, <1>7, <1>8, <1>9, <1>10, <1>11, <1>12 DEF Inv, Types, NothingHidden

LEMMA NextInv ==
    ASSUME Inv, [Next]_vars PROVE Inv'
  BY NextShape, NextWhole, NextEngine, NextHidden DEF Inv

LEMMA Invariance == Spec => []Inv
<1>1. Init => Inv
  BY InitInv
<1>2. Inv /\ [Next]_vars => Inv'
  BY NextInv
<1>. QED  BY <1>1, <1>2, PTL DEF Spec

(* Every variable has its type, of however many threads, collectors and    *)
(* diagnoses: a request's references are to collectors and diagnoses there *)
(* are, no queue is longer than it may be, and nothing is gathered over a  *)
(* connection there was not.                                               *)
THEOREM TypeCorrect == Spec => []TypeOK
<1>1. ASSUME Inv PROVE TypeOK
  <2>1. /\ gds \in [page: Pages, link: Nat \ {0}] /\ file \in [count: Nat, link: Nat] /\ file.link <= gds.link
    BY <1>1 DEF Inv, Types, PageTypes
  <2>2. gds.page \in Pages /\ gds.link \in Nat \ {0} /\ file.count \in Nat /\ file.link \in 0..gds.link
    BY <2>1
  <2>3. active \in 0..Len(collectors) /\ Len(collectors) <= MaxMade
    BY <1>1 DEF Inv, Types, CollectorTypes
  <2>4. ASSUME NEW c \in DOMAIN collectors
        PROVE  LET me == collectors[c] IN
               /\ me.for \in {"live", "ai"} /\ {me.run, me.since, me.error, me.torn} \subseteq BOOLEAN
               /\ me.guard \in {"waits", "drifted", "routes", "restarted", "reports"}
               /\ {me.result, me.slot, me.signature, me.event} \subseteq Results
               /\ me.restarts \in 0..MaxRestarts /\ me.buffer \subseteq 1..gds.link
    <3>1. collectors[c] \in CollectorStates /\ collectors[c].buffer \subseteq 1..gds.link
      BY <1>1, CollectorAt DEF Inv, Types, CollectorTypes
    <3>. QED  BY <3>1 DEF CollectorStates
  <2>5. status \in {"running", "aborted"} /\ live \in BOOLEAN
    BY <1>1 DEF Inv, Types, SessionTypes
  <2>6. {bound, engine, reader.of} \subseteq 0..Len(analyses) /\ ((reader.at = "on") <=> (reader.of # 0))
    BY <1>1 DEF Inv, Types, EngineTypes
  <2>7. \A t \in Threads : thread[t].at \in Places
    BY <1>1, ThreadAt DEF Inv, ThreadStates
  <2>8. viewer.at \in {"off", "on", "dropped"} /\ Len(viewer.queue) <= QueueSize
    BY <1>1 DEF Inv, Types, SessionTypes, Queues
  <2>9. ASSUME NEW a \in DOMAIN analyses
        PROVE  /\ analyses[a].at \in {"starts", "streams", "cleans", "frees", "over"}
               /\ Len(analyses[a].queue) <= QueueSize /\ analyses[a].chunks <= MaxChunks
    <3>1. analyses[a] \in AnalysisStates
      BY <1>1, AnalysisAt DEF Inv
    <3>2. analyses[a].chunks \in 0..MaxChunks /\ MaxChunks \in Nat
      BY <3>1, LiveDataAssumption DEF AnalysisStates
    <3>. QED  BY <3>1, <3>2 DEF AnalysisStates, Queues
  <2>. QED  BY <2>2, <2>3, <2>4, <2>5, <2>6, <2>7, <2>8, <2>9 DEF TypeOK
<1>. QED  BY <1>1, Invariance, PTL

(* What an aborted session leaves behind it never knew of: but for a race  *)
(* of two requests, or a reader that took one stream or diagnosis for      *)
(* another, no collector runs after an abort, and no diagnosis goes on that*)
(* was not told to stop, whatever pages are lost and whatever fails.       *)
THEOREM AbortLeaves == Spec => []AbortLeavesNothing
<1>1. ASSUME Inv, status = "aborted", ~raced, ~misled
      PROVE  /\ \A c \in DOMAIN collectors : ~collectors[c].run
             /\ \A a \in DOMAIN analyses : ~Going(a)
  <2>1. Known
    BY <1>1 DEF Inv, NothingHidden
  <2>2. ASSUME NEW c \in DOMAIN collectors, collectors[c].run PROVE FALSE
    <3>1. active # c
      BY <1>1, <2>1, <2>2 DEF Known, CollectorsKnown, LiveRuns, Running
    <3>2. PICK t \in Threads : thread[t].at = "collects"
      BY <2>1, <2>2, <3>1 DEF Known, CollectorsKnown
    <3>3. thread[t].op = "ai"
      BY <1>1, <3>2 DEF Inv, References, Stays
    <3>. QED  BY <1>1, <2>1, <3>3 DEF Known, MakesNone, Making
  <2>. QED  BY <1>1, <2>1, <2>2 DEF Known, DiagnosesKnown, NoneGoes
<1>2. Inv => AbortLeavesNothing
  BY <1>1 DEF AbortLeavesNothing, Going
<1>. QED  BY <1>2, Invariance, PTL

(* What a diagnosis is made of was read over one connection of GDS2 to the *)
(* vehicle, unless torn says by which of the ways around it was not: with  *)
(* any number of collections, of losses of the page and of recoveries,     *)
(* there is no other way.                                                  *)
THEOREM PayloadOneConnection == Spec => []PayloadIsOfOneConnection
<1>1. ASSUME Inv, NEW a \in DOMAIN analyses, analyses[a].payload # 0, ~collectors[analyses[a].payload].torn
      PROVE  Cardinality(collectors[analyses[a].payload].buffer) <= 1
  <2>1. PICK c : c = analyses[a].payload
    OBVIOUS
  <2>2. IsPayload(c) /\ c \in DOMAIN collectors
    BY <1>1, <2>1 DEF Inv, References, IsPayload, ForDiagnosis
  <2>3. \A link, other \in collectors[c].buffer : link = other
    BY <1>1, <2>1, <2>2 DEF Inv, OneLink, Whole, IsPayload, ForDiagnosis
  <2>4. CASE collectors[c].buffer = {}
    BY <2>1, <2>4, FS_EmptySet
  <2>5. CASE collectors[c].buffer # {}
    <3>1. PICK link \in collectors[c].buffer : collectors[c].buffer = {link}
      BY <2>3, <2>5
    <3>2. Cardinality({link}) = 1
      BY FS_Singleton
    <3>. QED  BY <2>1, <3>1, <3>2
  <2>. QED  BY <2>4, <2>5
<1>2. Inv => PayloadIsOfOneConnection
  BY <1>1 DEF PayloadIsOfOneConnection
<1>. QED  BY <1>2, Invariance, PTL
=============================================================================
