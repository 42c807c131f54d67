-------------------------- MODULE NavigationProofs --------------------------
(***************************************************************************)
(* Proofs about Navigation, for any navigations, HTTP threads and readers  *)
(* and any number of questions, and, in the second part, about WindowFlow, *)
(* the window that follows a navigation, for any modules, categories,      *)
(* settings and bounds.                                                    *)
(*                                                                         *)
(* Shape is the type with what the place of a thread says of its fields.   *)
(* LetIn and Answered, the two halves of AnswersReachTheirQuestion made    *)
(* inductive, speak of one navigation; a step concerns one navigation at   *)
(* most, and the lemma of each kind of thread says what it leaves of one.  *)
(***************************************************************************)
EXTENDS Navigation, WindowFlow, FiniteSetTheorems, TLAPS

Known == {"bind", "accepted", "put", "checked", "unbind"}

GraphShape ==
    /\ graph \in [Navs -> [kind: {"pages", "registry"}, at: GraphPlaces,
                           asked: 0..MaxQuestions]]
    /\ \A n \in Navs : graph[n].at \in {"ask", "announce"} => graph[n].asked < MaxQuestions

SessionShape ==
    /\ status \in [Navs -> {"running", "awaiting"} \cup Terminal]
    /\ pending \in [Navs -> 0..MaxQuestions]
    /\ cancelled \subseteq Navs
    /\ decisions \in [Navs -> {<<>>} \cup {<<q>> : q \in 0..MaxQuestions}]
    /\ events \in [Navs -> Seq(Events)]

WorkerShape ==
    /\ registered \subseteq Navs /\ timers \subseteq Navs
    /\ binding \in Navs \cup {None}

ClientShape ==
    /\ client \in [Clients -> [at: ClientPlaces, nav: Navs \cup {None}, question: 0..MaxQuestions]]
    /\ \A c \in Clients : client[c].at \in Known => client[c].nav \in Navs

ReaderShape ==
    /\ reader \in [Readers -> [at: {"away", "reading", "starved", "holding"},
                               nav: Navs \cup {None}, event: Events]]
    /\ \A r \in Readers : reader[r].at # "away" => reader[r].nav \in Navs

HistoryShape == raced \subseteq Navs /\ astray \subseteq Navs

Shape == /\ GraphShape /\ SessionShape /\ WorkerShape
         /\ ClientShape /\ ReaderShape /\ HistoryShape

(* From the moment it sets the status to the end of its wait a thread      *)
(* finds it "awaiting", unless an answer is there or on its way.  Only an  *)
(* abort puts an answer that is none.                                      *)
LetIn(n) ==
    /\ /\ graph[n].at \in {"announce", "wait"} /\ decisions[n] = <<>> /\ n \notin cancelled
       /\ \A c \in Clients : ~Submitting(c, n)
       => status[n] = "awaiting"
    /\ decisions[n] = <<0>> => n \in cancelled
    /\ \A c \in Clients : Submitting(c, n) => client[c].question # 0

(* The thread waits for the answer, or was cancelled while it did.         *)
Waits(n) == graph[n].at \in {"wait", "cancel", "last", "over"}

(* An answer that was let in properly is the only one, for the question    *)
(* the thread waits with; so is the one in the queue.                      *)
Answered(n) ==
    n \notin raced =>
        /\ \A c \in Clients : Submitting(c, n) =>
            /\ client[c].question = graph[n].asked /\ Waits(n)
            /\ decisions[n] \in {<<>>, <<0>>}
            /\ \A d \in Clients \ {c} : ~Submitting(d, n)
        /\ decisions[n] \in {<<>>, <<0>>} \/ (decisions[n] = <<graph[n].asked>> /\ Waits(n))

IInv == Shape /\ (\A n \in Navs : LetIn(n) /\ Answered(n)) /\ astray = {}

-----------------------------------------------------------------------------
(* Type correctness.                                                       *)

(* A thread that goes on changes its place and nothing else.               *)
LEMMA Goes ==
  ASSUME GraphShape, NEW n \in Navs, NEW p \in GraphPlaces, GoTo(n, p)
  PROVE  /\ graph' = [graph EXCEPT ![n] = [graph[n] EXCEPT !.at = p]]
         /\ graph'[n] = [graph[n] EXCEPT !.at = p]
         /\ graph'[n] \in [kind: {"pages", "registry"}, at: GraphPlaces, asked: 0..MaxQuestions]
         /\ graph'[n].at = p /\ graph'[n].asked = graph[n].asked
         /\ \A m \in Navs \ {n} : graph'[m] = graph[m]
         /\ DOMAIN graph' = Navs
<1>1. graph[n] \in [kind: {"pages", "registry"}, at: GraphPlaces, asked: 0..MaxQuestions]
  BY DEF GraphShape
<1>2. graph \in [Navs -> [kind: {"pages", "registry"}, at: GraphPlaces, asked: 0..MaxQuestions]]
  BY DEF GraphShape
<1> QED  BY <1>1, <1>2 DEF GoTo

(* The places a thread can go to from another, and that it asks no         *)
(* question too many.                                                      *)
LEMMA GoesFit ==
  ASSUME GraphShape, NEW n \in Navs, NEW p \in GraphPlaces, GoTo(n, p),
         p \in {"ask", "announce"} => graph[n].asked < MaxQuestions
  PROVE  GraphShape'
<1>1. /\ graph' \in [Navs -> [kind: {"pages", "registry"}, at: GraphPlaces, asked: 0..MaxQuestions]]
  <2> DEFINE States == [kind: {"pages", "registry"}, at: GraphPlaces, asked: 0..MaxQuestions]
             x == [graph[n] EXCEPT !.at = p]
  <2>1. graph \in [Navs -> States]
    BY DEF GraphShape
  <2>2. graph' = [graph EXCEPT ![n] = x] /\ x \in States
    BY Goes
  <2> HIDE DEF x
  <2> QED  BY <2>1, <2>2
<1>2. \A m \in Navs : graph'[m].at \in {"ask", "announce"} => graph'[m].asked < MaxQuestions
  <2>1. graph'[n].at = p /\ graph'[n].asked = graph[n].asked /\ \A m \in Navs \ {n} : graph'[m] = graph[m]
    BY Goes
  <2> QED  BY <2>1 DEF GraphShape
<1> QED  BY <1>1, <1>2 DEF GraphShape

(* The rest of the state has its type when it is untouched.                *)
LEMMA Rests ==
  /\ GraphShape /\ UNCHANGED graph => GraphShape'
  /\ SessionShape /\ UNCHANGED session => SessionShape'
  /\ WorkerShape /\ UNCHANGED worker => WorkerShape'
  /\ ClientShape /\ UNCHANGED client => ClientShape'
  /\ ReaderShape /\ UNCHANGED reader => ReaderShape'
  /\ HistoryShape /\ UNCHANGED <<raced, astray>> => HistoryShape'
BY DEF GraphShape, SessionShape, WorkerShape, ClientShape, ReaderShape, HistoryShape, session, worker

(* Each write keeps the type of the session's state.                       *)
LEMMA Writes ==
  ASSUME SessionShape, NEW n \in Navs
  PROVE  /\ \A s \in {"running", "awaiting"} \cup Terminal :
              status' = [status EXCEPT ![n] = s] =>
                status' \in [Navs -> {"running", "awaiting"} \cup Terminal]
         /\ \A q \in 0..MaxQuestions :
              pending' = [pending EXCEPT ![n] = q] => pending' \in [Navs -> 0..MaxQuestions]
         /\ \A q \in 0..MaxQuestions :
              decisions' = [decisions EXCEPT ![n] = <<q>>] =>
                decisions' \in [Navs -> {<<>>} \cup {<<p>> : p \in 0..MaxQuestions}]
         /\ decisions' = [decisions EXCEPT ![n] = <<>>] =>
                decisions' \in [Navs -> {<<>>} \cup {<<p>> : p \in 0..MaxQuestions}]
         /\ \A e \in Events :
              events' = [events EXCEPT ![n] = Append(@, e)] => events' \in [Navs -> Seq(Events)]
         /\ \A e \in Seq(Events) :
              events' = [events EXCEPT ![n] = @ \o e] => events' \in [Navs -> Seq(Events)]
         /\ events[n] # <<>> /\ events' = [events EXCEPT ![n] = Tail(@)] =>
              events' \in [Navs -> Seq(Events)]
         /\ events' = [events EXCEPT ![n] = <<>>] => events' \in [Navs -> Seq(Events)]
<1>1. /\ status \in [Navs -> {"running", "awaiting"} \cup Terminal]
      /\ pending \in [Navs -> 0..MaxQuestions]
      /\ decisions \in [Navs -> {<<>>} \cup {<<q>> : q \in 0..MaxQuestions}]
      /\ events \in [Navs -> Seq(Events)]
  BY DEF SessionShape
<1>2. \A s \in {"running", "awaiting"} \cup Terminal :
        status' = [status EXCEPT ![n] = s] =>
          status' \in [Navs -> {"running", "awaiting"} \cup Terminal]
  BY <1>1
<1>3. \A q \in 0..MaxQuestions :
        pending' = [pending EXCEPT ![n] = q] => pending' \in [Navs -> 0..MaxQuestions]
  BY <1>1
<1>4. \A q \in 0..MaxQuestions :
        decisions' = [decisions EXCEPT ![n] = <<q>>] =>
          decisions' \in [Navs -> {<<>>} \cup {<<p>> : p \in 0..MaxQuestions}]
  <2>1. TAKE q \in 0..MaxQuestions
  <2> DEFINE D == {<<>>} \cup {<<p>> : p \in 0..MaxQuestions}
  <2>2. <<q>> \in D
    OBVIOUS
  <2>3. decisions \in [Navs -> D]
    BY <1>1
  <2> HIDE DEF D
  <2>4. decisions' = [decisions EXCEPT ![n] = <<q>>] => decisions' \in [Navs -> D]
    BY <2>2, <2>3
  <2> QED  BY <2>4 DEF D
<1>5. decisions' = [decisions EXCEPT ![n] = <<>>] =>
        decisions' \in [Navs -> {<<>>} \cup {<<p>> : p \in 0..MaxQuestions}]
  BY <1>1
<1>6. \A e \in Events :
        events' = [events EXCEPT ![n] = Append(@, e)] => events' \in [Navs -> Seq(Events)]
  BY <1>1
<1>7. \A e \in Seq(Events) :
        events' = [events EXCEPT ![n] = @ \o e] => events' \in [Navs -> Seq(Events)]
  BY <1>1
<1>8. events[n] # <<>> /\ events' = [events EXCEPT ![n] = Tail(@)] =>
        events' \in [Navs -> Seq(Events)]
  BY <1>1
<1>9. events' = [events EXCEPT ![n] = <<>>] => events' \in [Navs -> Seq(Events)]
  BY <1>1
<1> QED  BY <1>2, <1>3, <1>4, <1>5, <1>6, <1>7, <1>8, <1>9

(* What a request of a thread, and a reader, becomes.                      *)
LEMMA ClientBecomes ==
  ASSUME ClientShape, NEW c \in Clients,
         NEW r \in [at: ClientPlaces, nav: Navs \cup {None}, question: 0..MaxQuestions],
         client' = [client EXCEPT ![c] = r]
  PROVE  /\ client'[c] = r
         /\ \A d \in Clients \ {c} : client'[d] = client[d]
         /\ (r.at \in Known => r.nav \in Navs) => ClientShape'
<1>1. client \in [Clients -> [at: ClientPlaces, nav: Navs \cup {None}, question: 0..MaxQuestions]]
  BY DEF ClientShape
<1>2. /\ client'[c] = r
      /\ \A d \in Clients \ {c} : client'[d] = client[d]
      /\ client' \in [Clients -> [at: ClientPlaces, nav: Navs \cup {None}, question: 0..MaxQuestions]]
  BY <1>1
<1>3. \A d \in Clients \ {c} : client[d].at \in Known => client[d].nav \in Navs
  BY DEF ClientShape
<1> QED  BY <1>2, <1>3 DEF ClientShape

LEMMA ReaderBecomes ==
  ASSUME ReaderShape, NEW r \in Readers,
         NEW x \in [at: {"away", "reading", "starved", "holding"}, nav: Navs \cup {None},
                    event: Events],
         reader' = [reader EXCEPT ![r] = x], x.at # "away" => x.nav \in Navs
  PROVE  ReaderShape'
<1>1. reader \in [Readers -> [at: {"away", "reading", "starved", "holding"},
                              nav: Navs \cup {None}, event: Events]]
  BY DEF ReaderShape
<1>2. /\ reader'[r] = x
      /\ \A s \in Readers \ {r} : reader'[s] = reader[s]
      /\ reader' \in [Readers -> [at: {"away", "reading", "starved", "holding"},
                                  nav: Navs \cup {None}, event: Events]]
  BY <1>1
<1>3. \A s \in Readers \ {r} : reader[s].at # "away" => reader[s].nav \in Navs
  BY DEF ReaderShape
<1> QED  BY <1>2, <1>3 DEF ReaderShape

(* The two fields that a step of a reader writes beside its place.         *)
LEMMA ReaderWithNav ==
  ASSUME ReaderShape, NEW r \in Readers, NEW p \in {"reading", "starved", "holding"}, NEW n \in Navs,
         reader' = [reader EXCEPT ![r].at = p, ![r].nav = n]
  PROVE  ReaderShape'
<1> DEFINE Streaming == [at: {"away", "reading", "starved", "holding"}, nav: Navs \cup {None},
                       event: Events]
           x == [reader[r] EXCEPT !.at = p, !.nav = n]
<1>1. reader \in [Readers -> Streaming] /\ reader[r] \in Streaming
  BY DEF ReaderShape
<1>2. x \in Streaming /\ x.nav \in Navs
  BY <1>1
<1>3. reader' = [reader EXCEPT ![r] = x]
  BY <1>1
<1> HIDE DEF x
<1> QED  BY <1>2, <1>3, ReaderBecomes

LEMMA ReaderWithEvent ==
  ASSUME ReaderShape, NEW r \in Readers, NEW p \in {"reading", "starved", "holding"}, NEW e \in Events,
         reader[r].nav \in Navs,
         reader' = [reader EXCEPT ![r].at = p, ![r].event = e]
  PROVE  ReaderShape'
<1> DEFINE Streaming == [at: {"away", "reading", "starved", "holding"}, nav: Navs \cup {None},
                       event: Events]
           x == [reader[r] EXCEPT !.at = p, !.event = e]
<1>1. reader \in [Readers -> Streaming] /\ reader[r] \in Streaming
  BY DEF ReaderShape
<1>2. x \in Streaming /\ x.nav \in Navs
  BY <1>1
<1>3. reader' = [reader EXCEPT ![r] = x]
  BY <1>1
<1> HIDE DEF x
<1> QED  BY <1>2, <1>3, ReaderBecomes

LEMMA GraphShapeKept ==
  ASSUME Shape, NEW n \in Navs, GraphStep(n) \/ IsForgotten(n)
  PROVE  Shape'
<1> USE DEF Shape
<1>0. /\ graph \in [Navs -> [kind: {"pages", "registry"}, at: GraphPlaces, asked: 0..MaxQuestions]]
      /\ graph[n] \in [kind: {"pages", "registry"}, at: GraphPlaces, asked: 0..MaxQuestions]
      /\ MaxQuestions \in Nat
      /\ graph[n].asked \in 0..MaxQuestions
  BY NavigationAssumption DEF GraphShape

<1>1. ASSUME \E p \in Outcomes(n) \cup {"cancel"} : GoTo(n, p),
             UNCHANGED <<session, worker, client, reader, raced, astray>>
      PROVE  Shape'
  <2>1. PICK p \in Outcomes(n) \cup {"cancel"} : GoTo(n, p)
    BY <1>1
  <2>2. p \in GraphPlaces /\ (p \in {"ask", "announce"} => graph[n].asked < MaxQuestions)
    BY DEF Outcomes, GraphPlaces
  <2>3. GraphShape'
    BY <2>1, <2>2, GoesFit
  <2> QED  BY <1>1, <2>3, Rests
<1>2. ASSUME WalksPages(n) \/ FollowsRoute(n) \/ Selects(n)
      PROVE  Shape'
  <2>1. \E p \in Outcomes(n) \cup {"cancel"} : GoTo(n, p)
    BY <1>2 DEF WalksPages, FollowsRoute, Selects, CancelledOr
  <2>2. UNCHANGED <<session, worker, client, reader, raced, astray>>
    BY <1>2 DEF WalksPages, FollowsRoute, Selects
  <2> QED  BY <1>1, <2>1, <2>2
<1>3. ASSUME SeesCancellation(n) \/ ChecksStatus(n)
      PROVE  Shape'
  <2>1. PICK p \in {"cancel", "last", "complete"} : GoTo(n, p)
    BY <1>3 DEF SeesCancellation, ChecksStatus
  <2>2. GraphShape'
    BY <2>1, GoesFit DEF GraphPlaces
  <2>3. UNCHANGED <<session, worker, client, reader, raced, astray>>
    BY <1>3 DEF SeesCancellation, ChecksStatus
  <2> QED  BY <2>2, <2>3, Rests
<1>4. ASSUME Asks(n)
      PROVE  Shape'
  <2>1. GraphShape'
    <3>1. graph[n].at = "ask" /\ GoTo(n, "announce")
      BY <1>4 DEF Asks, At
    <3>2. graph[n].asked < MaxQuestions
      BY <3>1 DEF GraphShape
    <3> QED  BY <3>1, <3>2, GoesFit DEF GraphPlaces
  <2>2. SessionShape'
    BY <1>4, Writes DEF Asks, SessionShape
  <2> QED  BY <1>4, <2>1, <2>2, Rests DEF Asks
<1>5. ASSUME Announces(n)
      PROVE  Shape'
  <2> DEFINE q == graph[n].asked + 1
             x == [graph[n] EXCEPT !.at = "wait", !.asked = q]
  <2>1. graph[n].at = "announce" /\ q \in Questions /\ q \in 0..MaxQuestions
    <3>1. graph[n].at = "announce"
      BY <1>5 DEF Announces, At
    <3>2. graph[n].asked < MaxQuestions
      BY <3>1 DEF GraphShape
    <3> QED  BY <3>1, <3>2, <1>0 DEF Questions
  <2>2. /\ graph' = [graph EXCEPT ![n] = x]
        /\ pending' = [pending EXCEPT ![n] = q]
        /\ events' = [events EXCEPT ![n] = Append(@, Decision(q))]
    BY <1>5, <1>0 DEF Announces
  <2>3. GraphShape'
    <3>1. x \in [kind: {"pages", "registry"}, at: GraphPlaces, asked: 0..MaxQuestions] /\ x.at = "wait"
      BY <1>0, <2>1 DEF GraphPlaces
    <3> HIDE DEF x
    <3> QED  BY <2>2, <3>1 DEF GraphShape
  <2> HIDE DEF q
  <2>4. Decision(q) \in Events
    BY <2>1 DEF Events
  <2>5. SessionShape'
    BY <1>5, <2>1, <2>2, <2>4, Writes DEF Announces, SessionShape
  <2> QED  BY <1>5, <2>3, <2>5, Rests DEF Announces
<1>6. ASSUME TakesDecision(n)
      PROVE  Shape'
  <2>1. GraphShape'
    <3>1. CASE graph' = graph
      BY <3>1, Rests
    <3>2. CASE GoTo(n, "took")
      BY <3>2, GoesFit DEF GraphPlaces
    <3> QED  BY <1>6, <3>1, <3>2 DEF TakesDecision
  <2>2. SessionShape'
    BY <1>6, Writes DEF TakesDecision, SessionShape
  <2>3. HistoryShape'
    BY <1>6 DEF TakesDecision, HistoryShape
  <2> QED  BY <1>6, <2>1, <2>2, <2>3, Rests DEF TakesDecision
<1>7. ASSUME Resumes(n)
      PROVE  Shape'
  <2>1. GraphShape'
    <3>1. PICK p \in {"select", "drive"} : GoTo(n, p)
      BY <1>7 DEF Resumes
    <3> QED  BY <3>1, GoesFit DEF GraphPlaces
  <2>2. SessionShape'
    <3>1. 0 \in 0..MaxQuestions
      BY <1>0
    <3> QED  BY <1>7, <3>1, Writes DEF Resumes, SessionShape
  <2> QED  BY <1>7, <2>1, <2>2, Rests DEF Resumes
<1>8. ASSUME ReachesGoal(n)
      PROVE  Shape'
  <2>1. GraphShape'
    BY <1>8, GoesFit DEF GraphPlaces, ReachesGoal
  <2>2. SessionShape'
    BY <1>8, Writes DEF ReachesGoal, SessionShape, Events
  <2> QED  BY <1>8, <2>1, <2>2, Rests DEF ReachesGoal
<1>9. ASSUME Completes(n) \/ Fails(n) \/ IsCancelled(n)
      PROVE  Shape'
  <2>1. PICK p \in GraphPlaces, s \in Terminal, e \in {<<>>, <<Error>>} : Ends(n, p, s, e)
    BY <1>9 DEF Completes, Fails, IsCancelled, GraphPlaces, Terminal
  <2>2. GraphShape'
    BY <2>1, GoesFit DEF GraphPlaces, Ends
  <2>3. e \in Seq(Events)
    <3>1. Error \in Events
      BY DEF Events
    <3>2. <<Error>> \in Seq(Events) /\ <<>> \in Seq(Events)
      BY <3>1
    <3> QED  BY <2>1, <3>2
  <2>4. SessionShape'
    BY <2>1, <2>3, Writes DEF Ends, SessionShape
  <2> QED  BY <2>1, <2>2, <2>4, Rests DEF Ends
<1>10. ASSUME IsOver(n)
      PROVE  Shape'
  <2>1. GraphShape'
    BY <1>10, GoesFit DEF GraphPlaces, IsOver
  <2>2. WorkerShape'
    BY <1>10 DEF IsOver, WorkerShape, ScheduleCleanup
  <2> QED  BY <1>10, <2>1, <2>2, Rests DEF IsOver
<1>11. ASSUME IsForgotten(n)
      PROVE  Shape'
  <2>1. WorkerShape'
    BY <1>11 DEF IsForgotten, WorkerShape
  <2> QED  BY <1>11, <2>1, Rests DEF IsForgotten
<1> QED
  BY <1>1, <1>2, <1>3, <1>4, <1>5, <1>6, <1>7, <1>8, <1>9, <1>10, <1>11 DEF GraphStep

LEMMA ClientShapeKept ==
  ASSUME Shape, NEW c \in Clients,
         \/ StartRequest(c) \/ ClientStep(c)
         \/ \E n \in Navs : AbortRequest(c, n)
         \/ \E n \in Navs, q \in Questions, named \in BOOLEAN : SubmitRequest(c, n, q, named)
  PROVE  Shape'
<1> USE DEF Shape
<1> DEFINE Requests == [at: ClientPlaces, nav: Navs \cup {None}, question: 0..MaxQuestions]
<1>0. /\ client \in [Clients -> Requests] /\ client[c] \in Requests
      /\ MaxQuestions \in Nat /\ Rest \in Requests
      /\ \A p \in ClientPlaces : [client[c] EXCEPT !.at = p] \in Requests
      /\ \A p \in ClientPlaces, n \in Navs, q \in 0..MaxQuestions :
           [at |-> p, nav |-> n, question |-> q] \in Requests
      /\ client[c].at \in Known => client[c].nav \in Navs
  BY NavigationAssumption DEF ClientShape, Rest, ClientPlaces
<1>1. ASSUME StartRequest(c)
      PROVE  Shape'
  <2>1. client' = [client EXCEPT ![c] = [client[c] EXCEPT !.at = "spawn"]]
    BY <1>1, <1>0 DEF StartRequest
  <2>2. ClientShape'
    <3> DEFINE x == [client[c] EXCEPT !.at = "spawn"]
    <3>1. x \in Requests /\ x.at \notin Known /\ client' = [client EXCEPT ![c] = x]
      BY <2>1, <1>0 DEF Known, ClientPlaces
    <3> HIDE DEF x
    <3> QED  BY <3>1, ClientBecomes
  <2> QED  BY <1>1, <2>2, Rests DEF StartRequest
<1>2. ASSUME NEW n \in Navs, NEW kind \in {"pages", "registry"}, Spawns(c, n, kind)
      PROVE  Shape'
  <2>1. client' = [client EXCEPT ![c] = [at |-> "bind", nav |-> n, question |-> 0]]
    BY <1>2 DEF Spawns
  <2>2. ClientShape'
    <3> DEFINE x == [at |-> "bind", nav |-> n, question |-> 0]
    <3>1. x \in Requests /\ x.nav \in Navs /\ client' = [client EXCEPT ![c] = x]
      BY <2>1, <1>0 DEF Known, ClientPlaces
    <3> HIDE DEF x
    <3> QED  BY <3>1, ClientBecomes
  <2>3. GraphShape'
    <3> DEFINE x == [graph[n] EXCEPT !.at = "drive", !.kind = kind]
    <3>1. graph' = [graph EXCEPT ![n] = x]
      BY <1>2 DEF Spawns, GraphShape
    <3>2. x \in [kind: {"pages", "registry"}, at: GraphPlaces, asked: 0..MaxQuestions] /\ x.at = "drive"
      BY DEF GraphPlaces, GraphShape
    <3> HIDE DEF x
    <3> QED  BY <3>1, <3>2 DEF GraphShape
  <2>4. WorkerShape'
    BY <1>2 DEF Spawns, WorkerShape
  <2> QED  BY <1>2, <2>2, <2>3, <2>4, Rests DEF Spawns, session
<1>3. ASSUME Binds(c) \/ UnbindsNavigation(c)
      PROVE  Shape'
  <2>1. /\ client[c].at \in Known /\ client' = [client EXCEPT ![c] = Rest]
        /\ binding' \in {client[c].nav, None}
    BY <1>3 DEF Binds, UnbindsNavigation, Known
  <2>2. ClientShape'
    BY <2>1, <1>0, ClientBecomes DEF Rest, Known
  <2>3. WorkerShape'
    BY <1>3, <2>1, <1>0 DEF Binds, UnbindsNavigation, WorkerShape
  <2> QED  BY <1>3, <2>2, <2>3, Rests DEF Binds, UnbindsNavigation
<1>4. ASSUME NEW n \in Navs, NEW q \in Questions, NEW named \in BOOLEAN,
             SubmitRequest(c, n, q, named)
      PROVE  Shape'
  <2>1. client' = [client EXCEPT ![c] = [at |-> "accepted", nav |-> n, question |-> q]]
    BY <1>4 DEF SubmitRequest
  <2>2. q \in 0..MaxQuestions
    BY <1>0 DEF Questions
  <2>3. ClientShape'
    <3> DEFINE x == [at |-> "accepted", nav |-> n, question |-> q]
    <3>1. x \in Requests /\ x.nav \in Navs /\ client' = [client EXCEPT ![c] = x]
      BY <2>1, <2>2, <1>0 DEF Known, ClientPlaces
    <3> HIDE DEF x
    <3> QED  BY <3>1, ClientBecomes
  <2>4. HistoryShape'
    BY <1>4 DEF SubmitRequest, HistoryShape
  <2> QED  BY <1>4, <2>3, <2>4, Rests DEF SubmitRequest
<1>5. ASSUME NEW n \in Navs, AbortRequest(c, n)
      PROVE  Shape'
  <2>1. client' = [client EXCEPT ![c] = [at |-> "checked", nav |-> n, question |-> 0]]
    BY <1>5 DEF AbortRequest
  <2>2. ClientShape'
    <3> DEFINE x == [at |-> "checked", nav |-> n, question |-> 0]
    <3>1. x \in Requests /\ x.nav \in Navs /\ client' = [client EXCEPT ![c] = x]
      BY <2>1, <1>0 DEF Known, ClientPlaces
    <3> HIDE DEF x
    <3> QED  BY <3>1, ClientBecomes
  <2> QED  BY <1>5, <2>2, Rests DEF AbortRequest
<1>6. ASSUME MarksAnswered(c)
      PROVE  Shape'
  <2>1. client' = [client EXCEPT ![c] = [client[c] EXCEPT !.at = "put"]] /\ client[c].nav \in Navs
    BY <1>6, <1>0 DEF MarksAnswered, Known
  <2>2. ClientShape'
    <3> DEFINE x == [client[c] EXCEPT !.at = "put"]
    <3>1. x \in Requests /\ x.nav \in Navs /\ client' = [client EXCEPT ![c] = x]
      BY <2>1, <1>0 DEF Known, ClientPlaces
    <3> HIDE DEF x
    <3> QED  BY <3>1, ClientBecomes
  <2>3. SessionShape'
    BY <1>6, <2>1, <1>0, Writes DEF MarksAnswered, SessionShape
  <2> QED  BY <1>6, <2>2, <2>3, Rests DEF MarksAnswered
<1>7. ASSUME PutsAnswer(c)
      PROVE  Shape'
  <2>1. client' = [client EXCEPT ![c] = Rest] /\ client[c].nav \in Navs
        /\ client[c].question \in 0..MaxQuestions
    BY <1>7, <1>0 DEF PutsAnswer, Known
  <2>2. ClientShape'
    BY <2>1, <1>0, ClientBecomes DEF Rest, Known
  <2>3. SessionShape'
    BY <1>7, <2>1, Writes DEF PutsAnswer, SessionShape
  <2> QED  BY <1>7, <2>2, <2>3, Rests DEF PutsAnswer
<1>8. ASSUME CancelsNavigation(c)
      PROVE  Shape'
  <2> DEFINE n == client[c].nav
  <2>1. client' = [client EXCEPT ![c] = [client[c] EXCEPT !.at = "unbind"]] /\ n \in Navs
    BY <1>8, <1>0 DEF CancelsNavigation, Known
  <2>2. ClientShape'
    <3> DEFINE x == [client[c] EXCEPT !.at = "unbind"]
    <3>1. x \in Requests /\ x.nav \in Navs /\ client' = [client EXCEPT ![c] = x]
      BY <2>1, <1>0 DEF Known, ClientPlaces
    <3> HIDE DEF x
    <3> QED  BY <3>1, ClientBecomes
  <2> HIDE DEF n
  <2>3. /\ status' = [status EXCEPT ![n] = "aborted"]
        /\ cancelled' = cancelled \cup {n}
        /\ events' = [events EXCEPT ![n] = Append(@, Error)]
        /\ decisions' = decisions \/ decisions' = [decisions EXCEPT ![n] = <<0>>]
        /\ pending' = pending /\ timers' = timers \cup {n}
        /\ UNCHANGED <<graph, registered, binding, reader, raced, astray>>
    <3>1. decisions' = [decisions EXCEPT ![n] = IF @ = <<>> THEN <<0>> ELSE @]
      BY <1>8 DEF CancelsNavigation, n
    <3>2. CASE decisions[n] = <<>>
      BY <3>1, <3>2, <1>8 DEF CancelsNavigation, n, Cancel, ScheduleCleanup
    <3>3. CASE decisions[n] # <<>>
      <4>1. decisions' = decisions
        BY <3>1, <3>3 DEF SessionShape
      <4> QED  BY <4>1, <1>8 DEF CancelsNavigation, n, Cancel, ScheduleCleanup
    <3> QED  BY <3>2, <3>3
  <2>4. SessionShape'
    <3>1. Error \in Events /\ 0 \in 0..MaxQuestions
      BY <1>0 DEF Events
    <3> QED  BY <2>1, <2>3, <3>1, Writes DEF SessionShape, Terminal
  <2>5. WorkerShape'
    BY <2>1, <2>3 DEF WorkerShape
  <2> QED  BY <2>2, <2>3, <2>4, <2>5, Rests
<1> QED
  BY <1>1, <1>2, <1>3, <1>4, <1>5, <1>6, <1>7, <1>8 DEF ClientStep

LEMMA ReaderShapeKept ==
  ASSUME Shape, NEW r \in Readers,
         ReaderStep(r) \/ Detaches(r) \/ \E n \in Navs : Attaches(r, n)
  PROVE  Shape'
<1> USE DEF Shape
<1> DEFINE Streaming == [at: {"away", "reading", "starved", "holding"}, nav: Navs \cup {None},
                       event: Events]
<1>0. /\ reader \in [Readers -> Streaming] /\ reader[r] \in Streaming
      /\ Done \in Events /\ Away \in Streaming /\ Away.at = "away"
      /\ \A p \in {"reading", "starved", "holding"} :
           [reader[r] EXCEPT !.at = p] \in Streaming
      /\ \A p \in {"reading", "starved", "holding"}, e \in Events :
           [reader[r] EXCEPT !.at = p, !.event = e] \in Streaming
      /\ \A p \in {"reading", "starved", "holding"}, n \in Navs :
           [reader[r] EXCEPT !.at = p, !.nav = n] \in Streaming
      /\ reader[r].at # "away" => reader[r].nav \in Navs
  BY DEF ReaderShape, Away, Events
<1>1. ASSUME NEW n \in Navs, Attaches(r, n)
      PROVE  Shape'
  <2>1. reader' = [reader EXCEPT ![r].at = "reading", ![r].nav = n]
    BY <1>1 DEF Attaches
  <2>2. ReaderShape'
    BY <2>1, ReaderWithNav
  <2> QED  BY <1>1, <2>2, Rests DEF Attaches
<1>2. ASSUME Detaches(r)
      PROVE  Shape'
  <2>1. ReaderShape'
    BY <1>2, <1>0, ReaderBecomes DEF Detaches
  <2> QED  BY <1>2, <2>1, Rests DEF Detaches
<1>3. ASSUME TakesEvent(r)
      PROVE  Shape'
  <2> DEFINE n == reader[r].nav
             e == Head(events[n])
  <2>1. n \in Navs /\ events[n] # <<>>
    BY <1>3, <1>0 DEF TakesEvent
  <2>2. e \in Events
    BY <2>1 DEF SessionShape
  <2>3. reader' = [reader EXCEPT ![r].at = "holding", ![r].event = e]
    BY <1>3 DEF TakesEvent
  <2>4. events' = [events EXCEPT ![n] = Tail(@)]
    BY <1>3 DEF TakesEvent
  <2> HIDE DEF n, e
  <2>5. ReaderShape'
    <3>1. reader[r].nav \in Navs
      BY <1>3, <1>0 DEF TakesEvent
    <3> QED  BY <2>2, <2>3, <3>1, ReaderWithEvent
  <2>6. SessionShape'
    BY <1>3, <2>1, <2>4, Writes DEF TakesEvent, SessionShape
  <2> QED  BY <1>3, <2>5, <2>6, Rests DEF TakesEvent
<1>4. ASSUME AppliesDecision(r)
      PROVE  Shape'
  <2> DEFINE n == reader[r].nav
             q == reader[r].event.question
  <2>1. n \in Navs /\ q \in 0..MaxQuestions
    <3>1. reader[r].event \in Events /\ n \in Navs /\ MaxQuestions \in Nat
      BY <1>4, <1>0, NavigationAssumption DEF AppliesDecision
    <3>2. q \in Questions \cup {0}
      BY <3>1 DEF Events, Decision, Done, Error
    <3> QED  BY <3>1, <3>2 DEF Questions
  <2>2. reader' = [reader EXCEPT ![r].at = "reading", ![r].event = Done]
    BY <1>4 DEF AppliesDecision
  <2>3. ReaderShape'
    BY <2>1, <2>2, <1>0, ReaderWithEvent
  <2>4. SessionShape'
    BY <1>4, <2>1, Writes DEF AppliesDecision, SessionShape
  <2>5. HistoryShape'
    BY <1>4, <2>1 DEF AppliesDecision, HistoryShape
  <2> QED  BY <1>4, <2>3, <2>4, <2>5, Rests DEF AppliesDecision
<1>5. ASSUME AppliesEnd(r)
      PROVE  Shape'
  <2>1. ReaderShape'
    BY <1>5, <1>0, ReaderBecomes DEF AppliesEnd
  <2>2. WorkerShape'
    BY <1>5 DEF AppliesEnd, WorkerShape
  <2> QED  BY <1>5, <2>1, <2>2, Rests DEF AppliesEnd
<1>6. ASSUME Starves(r)
      PROVE  Shape'
  <2>1. reader' = [reader EXCEPT ![r] = [reader[r] EXCEPT !.at = "starved"]] /\ reader[r].nav \in Navs
    BY <1>6, <1>0 DEF Starves
  <2>2. ReaderShape'
    <3> DEFINE x == [reader[r] EXCEPT !.at = "starved"]
    <3>1. x \in Streaming /\ x.nav \in Navs /\ reader' = [reader EXCEPT ![r] = x]
      BY <2>1, <1>0
    <3> HIDE DEF x
    <3> QED  BY <3>1, ReaderBecomes
  <2> QED  BY <1>6, <2>2, Rests DEF Starves
<1>7. ASSUME Concludes(r)
      PROVE  Shape'
  <2> DEFINE n == reader[r].nav
  <2>1. /\ n \in Navs /\ binding' \in {binding, None}
        /\ events' = events \/ events' = [events EXCEPT ![n] = <<>>]
        /\ \/ reader' = [reader EXCEPT ![r] = [reader[r] EXCEPT !.at = "reading"]]
           \/ reader' = [reader EXCEPT ![r] = Away]
    BY <1>7, <1>0 DEF Concludes
  <2>2. ReaderShape'
    <3>1. CASE reader' = [reader EXCEPT ![r] = Away]
      BY <3>1, <1>0, ReaderBecomes
    <3>2. CASE reader' = [reader EXCEPT ![r] = [reader[r] EXCEPT !.at = "reading"]]
      <4> DEFINE x == [reader[r] EXCEPT !.at = "reading"]
      <4>1. x \in Streaming /\ x.nav \in Navs /\ reader' = [reader EXCEPT ![r] = x]
        BY <2>1, <1>0, <3>2
      <4> HIDE DEF x
      <4> QED  BY <4>1, ReaderBecomes
    <3> QED  BY <2>1, <3>1, <3>2
  <2>3. SessionShape'
    BY <1>7, <2>1, Writes DEF Concludes, SessionShape
  <2>4. WorkerShape'
    BY <1>7, <2>1 DEF Concludes, WorkerShape
  <2> QED  BY <1>7, <2>2, <2>3, <2>4, Rests DEF Concludes
<1> QED
  BY <1>1, <1>2, <1>3, <1>4, <1>5, <1>6, <1>7 DEF ReaderStep

-----------------------------------------------------------------------------
(* The invariant.  First what a step leaves of one navigation when it is   *)
(* not its own, then the steps that are.                                   *)

AnswersAsBefore(n) ==
    \A c \in Clients :
        /\ Submitting(c, n)' <=> Submitting(c, n)
        /\ Submitting(c, n) => client'[c].question = client[c].question

MarksAsBefore(n) ==
    /\ n \in cancelled' <=> n \in cancelled
    /\ n \in raced => n \in raced'

Undisturbed(n) ==
    /\ graph'[n] = graph[n] /\ decisions'[n] = decisions[n]
    /\ status'[n] \in {status[n], "awaiting"}
    /\ MarksAsBefore(n) /\ AnswersAsBefore(n)

LEMMA Others ==
  ASSUME NEW n \in Navs, LetIn(n), Answered(n), Undisturbed(n)
  PROVE  LetIn(n)' /\ Answered(n)'
<1>1. LetIn(n)'
  BY DEF LetIn, Undisturbed, MarksAsBefore, AnswersAsBefore
<1>2. Answered(n)'
  BY DEF Answered, Waits, Undisturbed, MarksAsBefore, AnswersAsBefore
<1> QED  BY <1>1, <1>2

(* A thread that does not begin to wait, and leaves a wait for good only.  *)
LEMMA ThreadGoesOn ==
  ASSUME NEW n \in Navs, LetIn(n), Answered(n),
         graph'[n].at \notin {"announce", "wait"}, Waits(n) => Waits(n)',
         graph'[n].asked = graph[n].asked, decisions'[n] = decisions[n],
         MarksAsBefore(n), AnswersAsBefore(n)
  PROVE  LetIn(n)' /\ Answered(n)'
<1>1. LetIn(n)'
  BY DEF LetIn, MarksAsBefore, AnswersAsBefore
<1>2. Answered(n)'
  BY DEF Answered, MarksAsBefore, AnswersAsBefore
<1> QED  BY <1>1, <1>2

LEMMA ClientsRest ==
  ASSUME UNCHANGED client, NEW n \in Navs
  PROVE  AnswersAsBefore(n)
BY DEF AnswersAsBefore, Submitting

(* A graph thread disturbs no other navigation.                            *)
LEMMA ThreadsOwn ==
  ASSUME Shape, NEW n \in Navs, GraphStep(n) \/ IsForgotten(n), NEW m \in Navs \ {n}
  PROVE  Undisturbed(m)
<1>1. AnswersAsBefore(m)
  <2>1. UNCHANGED client
    BY DEF GraphStep, IsForgotten, WalksPages, FollowsRoute, Selects, Asks, Announces,
       SeesCancellation, TakesDecision, Resumes, ReachesGoal, ChecksStatus, Completes, Fails,
       IsCancelled, Ends, IsOver
  <2> QED  BY <2>1, ClientsRest
<1>2. MarksAsBefore(m)
  BY DEF MarksAsBefore, session, GraphStep, IsForgotten, WalksPages, FollowsRoute, Selects, Asks, Announces,
     SeesCancellation, TakesDecision, Resumes, ReachesGoal, ChecksStatus, Completes, Fails,
     IsCancelled, Ends, IsOver
<1>3. decisions'[m] = decisions[m] /\ status'[m] = status[m]
  BY DEF Shape, SessionShape, session, GraphStep, IsForgotten, WalksPages, FollowsRoute, Selects,
     Asks, Announces,
     SeesCancellation, TakesDecision, Resumes, ReachesGoal, ChecksStatus, Completes, Fails,
     IsCancelled, Ends, IsOver
<1>4. graph'[m] = graph[m]
  BY DEF Shape, GraphShape, GoTo, CancelledOr, GraphStep, IsForgotten, WalksPages, FollowsRoute,
     Selects, Asks, Announces,
     SeesCancellation, TakesDecision, Resumes, ReachesGoal, ChecksStatus, Completes, Fails,
     IsCancelled, Ends, IsOver
<1> QED  BY <1>1, <1>2, <1>3, <1>4 DEF Undisturbed

LEMMA ThreadKeeps ==
  ASSUME Shape, NEW n \in Navs, LetIn(n), Answered(n), GraphStep(n) \/ IsForgotten(n)
  PROVE  LetIn(n)' /\ Answered(n)'
<1> DEFINE Goal == LetIn(n)' /\ Answered(n)'
<1>0. GraphShape /\ graph[n].asked \in 0..MaxQuestions /\ MaxQuestions \in Nat
  BY NavigationAssumption DEF Shape, GraphShape
<1>1. ASSUME NEW p \in GraphPlaces \ {"announce", "wait"}, GoTo(n, p),
             Waits(n) => p \in {"cancel", "last", "over"},
             UNCHANGED <<cancelled, decisions, client, raced>>
      PROVE  Goal
  <2>1. AnswersAsBefore(n) /\ MarksAsBefore(n) /\ decisions'[n] = decisions[n]
    BY <1>1, ClientsRest DEF MarksAsBefore
  <2>2. graph'[n].at = p /\ graph'[n].asked = graph[n].asked
    BY <1>0, <1>1, Goes
  <2>3. Waits(n) => Waits(n)'
    BY <1>1, <2>2 DEF Waits
  <2> QED  BY <1>1, <2>1, <2>2, <2>3, ThreadGoesOn
<1>2. ASSUME WalksPages(n) \/ FollowsRoute(n) \/ Selects(n)
      PROVE  Goal
  <2>1. /\ ~Waits(n)
        /\ UNCHANGED <<cancelled, decisions, client, raced>>
    BY <1>2 DEF WalksPages, FollowsRoute, Selects, At, Waits, session
  <2>2. PICK p \in {"done", "fail", "ask", "cancel"} : GoTo(n, p)
    <3>1. Outcomes(n) \subseteq {"done", "fail", "ask"}
      BY DEF Outcomes
    <3> QED  BY <1>2, <3>1 DEF WalksPages, FollowsRoute, Selects, CancelledOr
  <2> QED  BY <1>1, <2>1, <2>2 DEF GraphPlaces
<1>3. ASSUME SeesCancellation(n) \/ ChecksStatus(n) \/ IsOver(n) \/ ReachesGoal(n) \/ Resumes(n)
             \/ Completes(n) \/ Fails(n) \/ IsCancelled(n)
      PROVE  Goal
  <2>1. UNCHANGED <<cancelled, decisions, client, raced>>
    BY <1>3 DEF SeesCancellation, ChecksStatus, IsOver, ReachesGoal, Resumes, Completes, Fails,
                IsCancelled, Ends, session
  <2>2. \E p \in GraphPlaces \ {"announce", "wait"} :
          GoTo(n, p) /\ (Waits(n) => p \in {"cancel", "last", "over"})
    BY <1>3 DEF SeesCancellation, ChecksStatus, IsOver, ReachesGoal, Resumes, Completes, Fails,
                IsCancelled, Ends, At, Waits, GraphPlaces
  <2> QED  BY <1>1, <2>1, <2>2
<1>4. ASSUME Asks(n)
      PROVE  Goal
  <2>1. /\ graph[n].at = "ask" /\ status'[n] = "awaiting" /\ GoTo(n, "announce")
        /\ UNCHANGED <<cancelled, decisions, client, raced>>
    BY <1>4 DEF Asks, At, Shape, SessionShape
  <2>2. graph'[n].at = "announce" /\ graph'[n].asked = graph[n].asked
    BY <1>0, <2>1, Goes DEF GraphPlaces
  <2>3. AnswersAsBefore(n)
    BY <2>1, ClientsRest
  <2>4. LetIn(n)'
    BY <2>1, <2>2, <2>3 DEF LetIn, AnswersAsBefore
  <2>5. Answered(n)'
    BY <2>1, <2>2, <2>3 DEF Answered, Waits, AnswersAsBefore
  <2> QED  BY <2>4, <2>5
<1>5. ASSUME Announces(n)
      PROVE  Goal
  <2>1. /\ graph[n].at = "announce"
        /\ UNCHANGED <<status, cancelled, decisions, client, raced>>
    BY <1>5 DEF Announces, At
  <2>2. graph'[n].at = "wait"
    BY <1>0, <1>5 DEF Announces, GraphShape
  <2>3. AnswersAsBefore(n)
    BY <2>1, ClientsRest
  <2>4. LetIn(n)'
    BY <2>1, <2>2, <2>3 DEF LetIn, AnswersAsBefore
  <2>5. Answered(n)'
    BY <2>1, <2>2, <2>3 DEF Answered, Waits, AnswersAsBefore
  <2> QED  BY <2>4, <2>5
<1>6. ASSUME TakesDecision(n)
      PROVE  Goal
  <2>1. /\ graph[n].at = "wait" /\ decisions[n] # <<>> /\ decisions'[n] = <<>>
        /\ UNCHANGED <<status, cancelled, client, raced>>
    BY <1>6 DEF TakesDecision, At, Shape, SessionShape
  <2>2. AnswersAsBefore(n)
    BY <2>1, ClientsRest
  <2>3. CASE Head(decisions[n]) = 0
    <3>1. graph' = graph
      BY <1>6, <2>3 DEF TakesDecision
    <3>2. decisions[n] = <<0>>
      BY <2>1, <2>3 DEF Shape, SessionShape
    <3>3. n \in cancelled
      BY <3>2 DEF LetIn
    <3>4. LetIn(n)'
      BY <2>1, <2>2, <3>3 DEF LetIn, AnswersAsBefore
    <3>5. Answered(n)'
      BY <2>1, <2>2, <3>1 DEF Answered, Waits, AnswersAsBefore
    <3> QED  BY <3>4, <3>5
  <2>4. CASE Head(decisions[n]) # 0
    <3>1. graph'[n].at = "took" /\ graph'[n].asked = graph[n].asked
      <4>1. GoTo(n, "took")
        BY <1>6, <2>4 DEF TakesDecision
      <4> QED  BY <1>0, <4>1, Goes DEF GraphPlaces
    <3>2. LetIn(n)'
      BY <2>1, <2>2, <3>1 DEF LetIn, AnswersAsBefore
    <3>3. n \notin raced => \A c \in Clients : ~Submitting(c, n)
      <4>1. decisions[n] \notin {<<>>, <<0>>}
        BY <2>1, <2>4
      <4> QED  BY <4>1 DEF Answered
    <3>4. Answered(n)'
      BY <2>1, <2>2, <3>3 DEF Answered, AnswersAsBefore
    <3> QED  BY <3>2, <3>4
  <2> QED  BY <2>3, <2>4
<1>7. ASSUME IsForgotten(n)
      PROVE  Goal
  <2>1. UNCHANGED <<graph, status, cancelled, decisions, client, raced>>
    BY <1>7 DEF IsForgotten, session
  <2>2. Undisturbed(n)
    BY <2>1, ClientsRest DEF Undisturbed, MarksAsBefore
  <2> QED  BY <2>2, Others
<1> QED
  BY <1>2, <1>3, <1>4, <1>5, <1>6, <1>7 DEF GraphStep

(* The thread takes no answer to another question than its own.            *)
LEMMA NobodyAstray ==
  ASSUME Shape, NEW n \in Navs, Answered(n), GraphStep(n) \/ IsForgotten(n)
  PROVE  astray' = astray
<1>1. CASE TakesDecision(n)
  <2> DEFINE q == Head(decisions[n])
  <2>1. decisions[n] # <<>> /\ (q = 0 => astray' = astray)
        /\ (q # 0 => astray' = IF q = graph[n].asked \/ n \in raced THEN astray ELSE astray \cup {n})
    BY <1>1 DEF TakesDecision
  <2>2. n \in raced \/ q = 0 \/ q = graph[n].asked
    <3>1. decisions[n] \in {<<>>, <<0>>} \/ decisions[n] = <<graph[n].asked>> \/ n \in raced
      BY DEF Answered
    <3> QED  BY <2>1, <3>1
  <2> HIDE DEF q
  <2> QED  BY <2>1, <2>2
<1>2. CASE ~TakesDecision(n)
  BY <1>2 DEF GraphStep, IsForgotten, WalksPages, FollowsRoute, Selects, Asks, Announces,
     SeesCancellation, Resumes, ReachesGoal, ChecksStatus, Completes, Fails,
     IsCancelled, Ends, IsOver
<1> QED  BY <1>1, <1>2

(* A request that does not submit leaves every navigation's answers.       *)
LEMMA Silent ==
  ASSUME Shape, NEW c \in Clients, client[c].at \notin {"accepted", "put"},
         NEW x \in [at: ClientPlaces, nav: Navs \cup {None}, question: 0..MaxQuestions],
         x.at \notin {"accepted", "put"}, client' = [client EXCEPT ![c] = x]
  PROVE  \A n \in Navs : AnswersAsBefore(n)
<1>1. client'[c] = x /\ \A d \in Clients \ {c} : client'[d] = client[d]
  BY ClientBecomes DEF Shape
<1> QED  BY <1>1 DEF AnswersAsBefore, Submitting

(* The requests that only look, and those that begin and end.              *)
LEMMA LookersKeep ==
  ASSUME Shape, \A n \in Navs : LetIn(n) /\ Answered(n), NEW c \in Clients,
         \/ StartRequest(c) \/ Binds(c) \/ UnbindsNavigation(c)
         \/ \E n \in Navs : AbortRequest(c, n)
         \/ \E n \in Navs, kind \in {"pages", "registry"} : Spawns(c, n, kind)
  PROVE  /\ \A n \in Navs : LetIn(n)' /\ Answered(n)'
         /\ astray' = astray
<1> DEFINE Requests == [at: ClientPlaces, nav: Navs \cup {None}, question: 0..MaxQuestions]
<1>0. client \in [Clients -> Requests] /\ client[c] \in Requests /\ Rest \in Requests
      /\ MaxQuestions \in Nat
  BY NavigationAssumption DEF Shape, ClientShape, Rest, ClientPlaces
<1>1. \A n \in Navs : AnswersAsBefore(n)
  <2>1. client[c].at \notin {"accepted", "put"}
    <3>1. client[c] = Rest \/ client[c].at \in {"bind", "unbind", "spawn"}
      BY DEF StartRequest, Binds, UnbindsNavigation, AbortRequest, Spawns
    <3> QED  BY <3>1 DEF Rest
  <2>2. \E x \in Requests : x.at \notin {"accepted", "put"} /\ client' = [client EXCEPT ![c] = x]
    <3>1. CASE StartRequest(c)
      <4>1. [client[c] EXCEPT !.at = "spawn"] \in Requests
        BY <1>0 DEF ClientPlaces
      <4>2. client' = [client EXCEPT ![c] = [client[c] EXCEPT !.at = "spawn"]]
        BY <3>1, <1>0 DEF StartRequest
      <4>3. [client[c] EXCEPT !.at = "spawn"].at = "spawn"
        BY <1>0
      <4> QED  BY <4>1, <4>2, <4>3
    <3>2. CASE Binds(c) \/ UnbindsNavigation(c)
      <4>1. client' = [client EXCEPT ![c] = Rest] /\ Rest.at = "idle"
        BY <3>2 DEF Binds, UnbindsNavigation, Rest
      <4> QED  BY <4>1, <1>0
    <3>3. CASE \E n \in Navs : AbortRequest(c, n)
      <4>1. PICK n \in Navs : client' = [client EXCEPT ![c] = [at |-> "checked", nav |-> n, question |-> 0]]
        BY <3>3 DEF AbortRequest
      <4>2. [at |-> "checked", nav |-> n, question |-> 0] \in Requests
        BY <1>0 DEF ClientPlaces
      <4> QED  BY <4>1, <4>2
    <3>4. CASE \E n \in Navs, kind \in {"pages", "registry"} : Spawns(c, n, kind)
      <4>1. PICK n \in Navs : client' = [client EXCEPT ![c] = [at |-> "bind", nav |-> n, question |-> 0]]
        BY <3>4 DEF Spawns
      <4>2. [at |-> "bind", nav |-> n, question |-> 0] \in Requests
        BY <1>0 DEF ClientPlaces
      <4> QED  BY <4>1, <4>2
    <3> QED  BY <3>1, <3>2, <3>3, <3>4
  <2> HIDE DEF Requests
  <2>3. PICK x \in Requests : x.at \notin {"accepted", "put"} /\ client' = [client EXCEPT ![c] = x]
    BY <2>2
  <2> USE DEF Requests
  <2> QED  BY <2>1, <2>3, Silent
<1>2. UNCHANGED <<session, raced, astray>>
  BY DEF StartRequest, Binds, UnbindsNavigation, AbortRequest, Spawns
<1>3. ASSUME NEW n \in Navs
      PROVE  LetIn(n)' /\ Answered(n)'
  <2>1. MarksAsBefore(n) /\ decisions' = decisions /\ status' = status
    BY <1>2 DEF MarksAsBefore, session
  <2>2. CASE graph'[n] = graph[n]
    <3>1. Undisturbed(n)
      BY <1>1, <2>1, <2>2 DEF Undisturbed
    <3> QED  BY <3>1, Others
  <2>3. CASE graph'[n] # graph[n]
    <3>1. \E kind \in {"pages", "registry"} : Spawns(c, n, kind)
      BY <2>3 DEF Shape, GraphShape, StartRequest, Binds, UnbindsNavigation, AbortRequest, Spawns
    <3>2. /\ graph[n].at = "none" /\ graph'[n].at = "drive" /\ graph'[n].asked = graph[n].asked
      BY <3>1 DEF Spawns, At, Shape, GraphShape
    <3> QED  BY <1>1, <2>1, <3>2, ThreadGoesOn DEF Waits
  <2> QED  BY <2>2, <2>3
<1> QED  BY <1>2, <1>3

LEMMA ClientKeeps ==
  ASSUME Shape, \A n \in Navs : LetIn(n) /\ Answered(n), NEW c \in Clients,
         \/ StartRequest(c) \/ ClientStep(c)
         \/ \E n \in Navs : AbortRequest(c, n)
         \/ \E n \in Navs, q \in Questions, named \in BOOLEAN : SubmitRequest(c, n, q, named)
  PROVE  /\ \A n \in Navs : LetIn(n)' /\ Answered(n)'
         /\ astray' = astray
<1> DEFINE Requests == [at: ClientPlaces, nav: Navs \cup {None}, question: 0..MaxQuestions]
           Goal == (\A n \in Navs : LetIn(n)' /\ Answered(n)') /\ astray' = astray
<1>0. client \in [Clients -> Requests] /\ client[c] \in Requests
      /\ MaxQuestions \in Nat
      /\ status \in [Navs -> {"running", "awaiting"} \cup Terminal]
      /\ DOMAIN decisions = Navs
      /\ client[c].at \in Known => client[c].nav \in Navs
  BY NavigationAssumption DEF Shape, ClientShape, SessionShape
<1>1. ASSUME NEW n \in Navs, NEW q \in Questions, NEW named \in BOOLEAN,
             SubmitRequest(c, n, q, named)
      PROVE  Goal
  <2> DEFINE x == [at |-> "accepted", nav |-> n, question |-> q]
  <2>1. /\ client[c] = Rest /\ client' = [client EXCEPT ![c] = x] /\ q \in 1..graph[n].asked
        /\ raced' = IF /\ named /\ pending[n] = graph[n].asked /\ At(n, "wait")
                       /\ decisions[n] = <<>> /\ ~\E d \in Clients : Submitting(d, n)
                    THEN raced ELSE raced \cup {n}
        /\ Matches(n, q, named)
        /\ UNCHANGED <<graph, session, worker, reader, astray>>
    BY <1>1 DEF SubmitRequest
  <2>2. client'[c] = x /\ \A d \in Clients \ {c} : client'[d] = client[d]
    <3>1. x \in Requests /\ client' = [client EXCEPT ![c] = x]
      BY <2>1, <1>0 DEF ClientPlaces, Questions
    <3> HIDE DEF x
    <3> QED  BY <3>1, ClientBecomes DEF Shape
  <2>3. ASSUME NEW m \in Navs \ {n}
        PROVE  Undisturbed(m)
    <3>1. AnswersAsBefore(m)
      BY <2>1, <2>2 DEF AnswersAsBefore, Submitting, Rest
    <3>2. MarksAsBefore(m)
      BY <2>1 DEF MarksAsBefore, session
    <3> QED  BY <2>1, <3>1, <3>2 DEF Undisturbed, session
  <2>4. LetIn(n)'
    <3>1. Submitting(c, n)'
      BY <2>2 DEF Submitting
    <3>2. q # 0 /\ UNCHANGED <<decisions, cancelled>> /\ LetIn(n)
      BY <2>1, <1>0 DEF session, Questions
    <3>3. \A d \in Clients : Submitting(d, n)' => client'[d].question # 0
      BY <2>2, <3>2 DEF LetIn, Submitting
    <3> QED  BY <3>1, <3>2, <3>3 DEF LetIn
  <2>5. Answered(n)'
    <3> SUFFICES ASSUME n \notin raced' PROVE Answered(n)'
      BY DEF Answered
    <3>1. /\ named /\ pending[n] = graph[n].asked /\ graph[n].at = "wait"
          /\ decisions[n] = <<>> /\ \A d \in Clients : ~Submitting(d, n)
      BY <2>1 DEF At
    <3>2. q = graph[n].asked
      BY <2>1, <3>1, <1>0 DEF Matches, Shape, GraphShape
    <3>3. \A d \in Clients : Submitting(d, n)' => d = c
      BY <2>2, <3>1 DEF Submitting
    <3>4. client'[c].question = graph[n].asked
      BY <2>2, <3>2
    <3>5. graph' = graph /\ decisions' = decisions
      BY <2>1 DEF session
    <3> QED  BY <3>1, <3>3, <3>4, <3>5 DEF Answered, Waits
  <2> QED  BY <2>1, <2>3, <2>4, <2>5, Others
<1>2. ASSUME MarksAnswered(c)
      PROVE  Goal
  <2>0. PICK n \in Navs : client[c].nav = n
    <3>1. client[c].at \in Known
      BY <1>2 DEF MarksAnswered, Known
    <3> QED  BY <3>1 DEF Shape, ClientShape
  <2>1. /\ client[c].at = "accepted"
        /\ status' = [status EXCEPT ![n] = "running"]
        /\ client' = [client EXCEPT ![c] = [client[c] EXCEPT !.at = "put"]]
        /\ UNCHANGED <<graph, cancelled, decisions, raced, astray>>
    BY <1>2, <2>0, <1>0 DEF MarksAnswered
  <2>2. /\ client'[c].at = "put" /\ client'[c].nav = n /\ client'[c].question = client[c].question
        /\ \A d \in Clients \ {c} : client'[d] = client[d]
    BY <2>0, <2>1 DEF Shape, ClientShape
  <2>3. \A m \in Navs : AnswersAsBefore(m)
    BY <2>0, <2>1, <2>2 DEF AnswersAsBefore, Submitting
  <2>4. ASSUME NEW m \in Navs, m # n
        PROVE  Undisturbed(m)
    BY <2>1, <2>3, <2>4, <1>0 DEF Undisturbed, MarksAsBefore
  <2>5. LetIn(n)'
    <3>1. Submitting(c, n)'
      BY <2>2 DEF Submitting
    <3>2. decisions[n] = <<0>> => n \in cancelled
      BY DEF LetIn
    <3>3. \A d \in Clients : Submitting(d, n)' => client'[d].question # 0
      BY <2>3 DEF LetIn, AnswersAsBefore
    <3> QED  BY <2>1, <3>1, <3>2, <3>3 DEF LetIn
  <2>6. Answered(n)'
    <3>1. Answered(n) /\ AnswersAsBefore(n)
      BY <2>1, <2>3
    <3> QED  BY <2>1, <3>1 DEF Answered, AnswersAsBefore, Waits
  <2> QED  BY <2>1, <2>4, <2>5, <2>6, Others
<1>3. ASSUME PutsAnswer(c)
      PROVE  Goal
  <2>0. PICK n \in Navs, q \in 0..MaxQuestions : client[c].nav = n /\ client[c].question = q
    <3>1. client[c].at \in Known
      BY <1>3 DEF PutsAnswer, Known
    <3>2. client[c].nav \in Navs
      BY <3>1 DEF Shape, ClientShape
    <3>3. client[c].question \in 0..MaxQuestions
      BY DEF Shape, ClientShape
    <3> QED  BY <3>2, <3>3
  <2>1. /\ client[c].at = "put"
        /\ decisions[n] = <<>> /\ decisions' = [decisions EXCEPT ![n] = <<q>>]
        /\ client' = [client EXCEPT ![c] = Rest]
        /\ UNCHANGED <<graph, status, cancelled, raced, astray>>
    BY <1>3, <2>0 DEF PutsAnswer
  <2>2. client'[c] = Rest /\ \A d \in Clients \ {c} : client'[d] = client[d]
    BY <2>1 DEF Shape, ClientShape
  <2>3. ASSUME NEW m \in Navs, m # n
        PROVE  Undisturbed(m)
    <3>1. AnswersAsBefore(m)
      BY <2>0, <2>1, <2>2, <2>3 DEF AnswersAsBefore, Submitting, Rest
    <3> QED  BY <2>1, <2>3, <3>1, <1>0 DEF Undisturbed, MarksAsBefore
  <2>4. Submitting(c, n) /\ ~Submitting(c, n)' /\ decisions'[n] = <<q>>
    <3>1. decisions'[n] = <<q>>
      BY <2>1 DEF Shape, SessionShape
    <3> QED  BY <2>0, <2>1, <2>2, <3>1 DEF Submitting, Rest
  <2>5. LetIn(n)'
    <3>1. q # 0
      BY <2>0, <2>4 DEF LetIn
    <3>2. \A d \in Clients : Submitting(d, n)' => client'[d].question # 0
      BY <2>2, <2>4 DEF LetIn, Submitting
    <3> QED  BY <2>4, <3>1, <3>2 DEF LetIn
  <2>6. Answered(n)'
    <3>1. Answered(n)
      BY <2>1
    <3>2. \A d \in Clients : Submitting(d, n)' => Submitting(d, n) /\ d # c
      BY <2>2, <2>4 DEF Submitting
    <3>3. n \notin raced => /\ q = graph[n].asked /\ Waits(n)
                            /\ \A d \in Clients \ {c} : ~Submitting(d, n)
      BY <2>0, <2>4, <3>1 DEF Answered
    <3> QED  BY <2>1, <2>4, <3>2, <3>3 DEF Answered, Waits
  <2> QED  BY <2>1, <2>3, <2>5, <2>6, Others
<1>4. ASSUME CancelsNavigation(c)
      PROVE  Goal
  <2>0. PICK n \in Navs : client[c].nav = n
    <3>1. client[c].at \in Known
      BY <1>4 DEF CancelsNavigation, Known
    <3> QED  BY <3>1 DEF Shape, ClientShape
  <2>1. /\ client[c].at = "checked"
        /\ status' = [status EXCEPT ![n] = "aborted"] /\ cancelled' = cancelled \cup {n}
        /\ decisions' = [decisions EXCEPT ![n] = IF @ = <<>> THEN <<0>> ELSE @]
        /\ client' = [client EXCEPT ![c] = [client[c] EXCEPT !.at = "unbind"]]
        /\ UNCHANGED <<graph, raced, astray>>
    BY <1>4, <2>0 DEF CancelsNavigation, Cancel
  <2>2. \A m \in Navs : AnswersAsBefore(m)
    <3> DEFINE x == [client[c] EXCEPT !.at = "unbind"]
    <3>1. x \in Requests /\ x.at \notin {"accepted", "put"}
      <4>1. x \in Requests
        BY DEF Shape, ClientShape, ClientPlaces
      <4> QED  BY <4>1, <1>0
    <3>2. client[c].at \notin {"accepted", "put"}
      BY <2>1
    <3>3. client' = [client EXCEPT ![c] = x]
      BY <2>1
    <3> HIDE DEF x
    <3> QED  BY <3>1, <3>2, <3>3, Silent
  <2>3. decisions'[n] = IF decisions[n] = <<>> THEN <<0>> ELSE decisions[n]
    BY <2>1 DEF Shape, SessionShape
  <2>4. ASSUME NEW m \in Navs, m # n
        PROVE  Undisturbed(m)
    BY <2>1, <2>2, <2>4, <1>0 DEF Undisturbed, MarksAsBefore
  <2>5. LetIn(n)'
    <3>1. n \in cancelled' /\ AnswersAsBefore(n)
      BY <2>1, <2>2
    <3> QED  BY <3>1 DEF LetIn, AnswersAsBefore
  <2>6. Answered(n)'
    BY <2>1, <2>2, <2>3 DEF Answered, AnswersAsBefore, Waits
  <2> QED  BY <2>1, <2>4, <2>5, <2>6, Others
<1>5. CASE \/ StartRequest(c) \/ Binds(c) \/ UnbindsNavigation(c)
           \/ \E n \in Navs : AbortRequest(c, n)
           \/ \E n \in Navs, kind \in {"pages", "registry"} : Spawns(c, n, kind)
  BY <1>5, LookersKeep
<1> QED
  BY <1>1, <1>2, <1>3, <1>4, <1>5 DEF ClientStep

(* Readers touch no answer, and set no status but "awaiting".              *)
LEMMA ReaderKeeps ==
  ASSUME Shape, \A n \in Navs : LetIn(n) /\ Answered(n), NEW r \in Readers,
         ReaderStep(r) \/ Detaches(r) \/ \E n \in Navs : Attaches(r, n)
  PROVE  /\ \A n \in Navs : LetIn(n)' /\ Answered(n)'
         /\ astray' = astray
<1>1. UNCHANGED <<graph, cancelled, decisions, client, astray>> /\ raced \subseteq raced'
  BY DEF ReaderStep, Detaches, Attaches, TakesEvent, AppliesDecision, AppliesEnd, Starves,
     Concludes, session
<1>2. ASSUME NEW n \in Navs
      PROVE  status'[n] \in {status[n], "awaiting"}
  BY DEF ReaderStep, Detaches, Attaches, TakesEvent, AppliesDecision, AppliesEnd, Starves,
     Concludes, session, Shape, SessionShape
<1>3. ASSUME NEW n \in Navs
      PROVE  Undisturbed(n)
  BY <1>1, <1>2, ClientsRest DEF Undisturbed, MarksAsBefore
<1> QED  BY <1>1, <1>3, Others

LEMMA Start == Init => IInv
<1> SUFFICES ASSUME Init PROVE IInv
  OBVIOUS
<1>0. MaxQuestions \in Nat
  BY NavigationAssumption
<1>1. GraphShape
  BY <1>0 DEF Init, GraphShape, GraphPlaces
<1>2. SessionShape
  BY <1>0 DEF Init, SessionShape
<1>3. WorkerShape /\ HistoryShape
  BY DEF Init, WorkerShape, HistoryShape
<1>4. ClientShape
  BY <1>0 DEF Init, ClientShape, Rest, ClientPlaces, Known
<1>5. ReaderShape
  BY DEF Init, ReaderShape, Away, Events
<1>6. \A n \in Navs : LetIn(n) /\ Answered(n)
  BY DEF Init, LetIn, Answered, Submitting, Rest
<1> QED  BY <1>1, <1>2, <1>3, <1>4, <1>5, <1>6 DEF IInv, Shape, Init

LEMMA Step == IInv /\ [Next]_vars => IInv'
<1> SUFFICES ASSUME IInv, [Next]_vars PROVE IInv'
  OBVIOUS
<1>0. Shape /\ (\A n \in Navs : LetIn(n) /\ Answered(n)) /\ astray = {}
  BY DEF IInv
<1>1. ASSUME NEW n \in Navs, GraphStep(n) \/ IsForgotten(n)
      PROVE  IInv'
  <2>1. Shape'
    BY <1>0, <1>1, GraphShapeKept
  <2>2. astray' = {}
    BY <1>0, <1>1, NobodyAstray
  <2>3. LetIn(n)' /\ Answered(n)'
    BY <1>0, <1>1, ThreadKeeps
  <2>4. \A m \in Navs \ {n} : LetIn(m)' /\ Answered(m)'
    BY <1>0, <1>1, ThreadsOwn, Others
  <2> QED  BY <2>1, <2>2, <2>3, <2>4 DEF IInv
<1>2. ASSUME NEW c \in Clients,
             \/ StartRequest(c) \/ ClientStep(c)
             \/ \E n \in Navs : AbortRequest(c, n)
             \/ \E n \in Navs, q \in Questions, named \in BOOLEAN : SubmitRequest(c, n, q, named)
      PROVE  IInv'
  BY <1>0, <1>2, ClientShapeKept, ClientKeeps DEF IInv
<1>3. ASSUME NEW r \in Readers, ReaderStep(r) \/ Detaches(r) \/ \E n \in Navs : Attaches(r, n)
      PROVE  IInv'
  BY <1>0, <1>3, ReaderShapeKept, ReaderKeeps DEF IInv
<1>4. CASE UNCHANGED vars
  <2>1. Shape' /\ astray' = {}
    BY <1>0, <1>4, Rests DEF Shape, vars
  <2>2. ASSUME NEW n \in Navs
        PROVE  Undisturbed(n)
    BY <1>4, ClientsRest DEF Undisturbed, MarksAsBefore, vars, session
  <2> QED  BY <1>0, <2>1, <2>2, Others DEF IInv
<1> QED  BY <1>1, <1>2, <1>3, <1>4 DEF Next

LEMMA Invariance == Spec => []IInv
BY Start, Step, PTL DEF Spec

(* Every variable of the navigations keeps its type, for any threads and   *)
(* readers and whatever is answered late, twice or never.                  *)
THEOREM TypeCorrect == Spec => []TypeOK
<1>1. IInv => TypeOK
  <2> SUFFICES ASSUME IInv PROVE TypeOK
    OBVIOUS
  <2>1. \A n \in Navs : decisions[n] \in Seq(0..MaxQuestions) /\ Len(decisions[n]) <= 1
    <3>1. TAKE n \in Navs
    <3>2. CASE decisions[n] = <<>>
      BY <3>2
    <3>3. CASE decisions[n] # <<>>
      <4>1. PICK q \in 0..MaxQuestions : decisions[n] = <<q>>
        BY <3>3 DEF IInv, Shape, SessionShape
      <4> QED  BY <4>1
    <3> QED  BY <3>2, <3>3
  <2> QED
    BY <2>1 DEF IInv, Shape, GraphShape, SessionShape, WorkerShape, ClientShape, ReaderShape,
       HistoryShape, TypeOK
<1> QED  BY <1>1, Invariance, PTL

(* An answer that names its question is used for that question, and a      *)
(* thread that waits can be answered (submit_navigation_decision and       *)
(* _await_navigation_decision), unless an answer raced with another or a   *)
(* reader put an old question back.                                        *)
THEOREM AnswersFound == Spec => []AnswersReachTheirQuestion
<1>1. IInv => AnswersReachTheirQuestion
  BY DEF IInv, LetIn, At, AnswersReachTheirQuestion
<1> QED  BY <1>1, Invariance, PTL


-----------------------------------------------------------------------------
(***************************************************************************)
(* The window.  WindowFlow has constants and variables of its own, and     *)
(* nothing that follows depends on Navigation.                             *)
(*                                                                         *)
(* State is the type with which buttons are offered and how calls are      *)
(* numbered.  Patient says whom the window follows, and, as long as the    *)
(* technician has not hurried, where the one call that waits leads and     *)
(* that what it asks for is what the window shows (Orderly).               *)
(***************************************************************************)
Happenings ==
    {e \in [ev: {"ask", "done", "error"}, n: Numbers, item: Items \cup {Nothing}] :
        e.ev = "done" => e.item \in Items}

Journeys ==
    [at: {"none", "driving", "asked", "chosen", "ended"}, item: Items \cup {Nothing},
     events: Seq(Happenings)]

Endings == {"no", "over", "retryable"}
Tidings == [ev: {"required", "resolved"}, id: 0..MaxClicks]

(* How far the events of a navigation have got; the last one is the end.   *)
Progress(j) ==
    /\ j.at \in {"none", "driving"} => j.events = <<>>
    /\ j.at \in {"asked", "chosen"} =>
          Len(j.events) <= 1 /\ \A i \in 1..Len(j.events) : j.events[i].ev # "done"
    /\ j.at = "chosen" => j.item \in Items
    /\ Len(j.events) <= 2
    /\ \A i \in 1..Len(j.events) : j.events[i].ev = "done" => i = Len(j.events)
    /\ j.at = "ended" =>
          \A i \in 1..Len(j.events) : i = Len(j.events) => j.events[i].ev # "ask"

ShapeServer ==
    /\ gds \in Displays
    /\ selected \in Selections
    /\ navs \in [Numbers -> Journeys]
    /\ \A n \in Numbers : Progress(navs[n])
    /\ engine \in [run: 0..MaxClicks, ended: [Numbers -> Endings]]
    /\ news \in Seq(Tidings)

ShapeBounds ==
    /\ wire \in Seq(Happenings)
    /\ clicks \in 0..MaxClicks /\ faults \in Nat
    /\ may \subseteq Chances /\ hurried \in BOOLEAN

ShapeCalls ==
    /\ IsFiniteSet(calls) /\ calls \subseteq Calls

Formed == win \in Windows /\ ShapeCalls /\ ShapeServer /\ ShapeBounds

Undone(c) == c.at # "done"
Clicked == Ops \ {"status", "answer"}

(* A click has a number of its own; so has the navigation it starts.       *)
Numbered ==
    /\ \A n \in Numbers : n <= clicks => navs[n].at = "none"
    /\ \A c \in calls : c.op \in Clicked => clicks < c.n
    /\ \A c \in calls : c.op = "answer" => c.category \in Items
    /\ \A c \in calls : c.op = "status" => c.at = "done"
    /\ \A c \in calls : c.op = "navigate" /\ Undone(c) => navs[c.n].at = "none"
    /\ \A c, d \in calls :
          c.op = "navigate" /\ d.op = "navigate" /\ Undone(c) /\ Undone(d) /\ c.n = d.n => c = d
    /\ \A c, d \in calls :
          c.op \in {"ai", "read", "clear"} /\ c.at = "sent" /\ d.op = c.op /\ d.n = c.n => c = d

(* What the buttons and the comboboxes that are offered say of the window. *)
OffersOf(w) ==
    /\ w.branch # "module" => w.module = Nothing /\ w.listed = {}
    /\ {"ai", "category", "module", "combos"} \cap w.enabled # {} => w.branch = "module"
    /\ {"read", "clear"} \cap w.enabled # {} =>
          \/ w.branch = "module" /\ w.module # Nothing
          \/ w.branch = "vehicle" /\ w.category # Nothing

-----------------------------------------------------------------------------
(* The window.                                                             *)

LEMMA Zero ==
    ASSUME WindowAssumption
    PROVE  MaxClicks \in Nat /\ 0 \in 0..MaxClicks
<1>1. MaxClicks \in Nat
  BY DEF WindowAssumption
<1> QED
  BY <1>1

(* Refreshing sets the buttons and nothing else.                           *)
LEMMA RefreshedIs ==
    ASSUME NEW w \in Windows
    PROVE  /\ View(w) \subseteq Buttons
           /\ Refreshed(w) \in Windows
           /\ Refreshed(w) = [w EXCEPT !.enabled = View(w)]
<1>1. View(w) \subseteq Buttons
  BY DEF View, Buttons
<1>2. Refreshed(w) = [w EXCEPT !.enabled = View(w)]
  BY DEF Refreshed
<1> QED
  BY <1>1, <1>2 DEF Windows

LEMMA RefreshedOffers ==
    ASSUME NEW w \in Windows, w.branch # "module" => w.module = Nothing /\ w.listed = {}
    PROVE  OffersOf(Refreshed(w))
<1> DEFINE v == Refreshed(w)
<1>1. /\ v \in Windows /\ v.enabled = View(w)
      /\ v.branch = w.branch /\ v.module = w.module /\ v.listed = w.listed
      /\ v.category = w.category
  BY RefreshedIs DEF Windows
<1>2. {"ai", "category", "module", "combos"} \cap View(w) # {} => w.branch = "module"
  BY DEF View, ModuleReady
<1>3. {"read", "clear"} \cap View(w) # {} =>
          \/ w.branch = "module" /\ w.module # Nothing
          \/ w.branch = "vehicle" /\ w.category # Nothing
  BY DEF View, ModuleReady, VehicleReady
<1> HIDE DEF v
<1>4. OffersOf(v)
  BY <1>1, <1>2, <1>3 DEF OffersOf
<1> QED
  BY <1>4 DEF v

(* What an answer or an event that chooses nothing leaves of the window.   *)
Steady(w, v) ==
    /\ v.branch = w.branch /\ v.listed = w.listed /\ v.module = w.module
    /\ v.offered = w.offered /\ v.category = w.category /\ v.confirmed = w.confirmed
    /\ v.prompt.kind = "category" => w.prompt.kind = "category"

Offering(w) == w \in Windows /\ OffersOf(w)
Keeps(w, v) == Offering(v) /\ Steady(w, v)

LEMMA SteadyOffers ==
    ASSUME NEW w \in Windows, NEW v \in Windows, OffersOf(w), Steady(w, v),
           v.enabled \subseteq w.enabled \cup {"start"}
    PROVE  Keeps(w, v)
<1>1. OffersOf(v)
  BY DEF OffersOf, Steady
<1> QED
  BY <1>1 DEF Keeps, Offering

LEMMA SteadyRefreshed ==
    ASSUME NEW w \in Windows, NEW v \in Windows, OffersOf(w), Steady(w, v)
    PROVE  Keeps(w, Refreshed(v))
<1>1. v.branch # "module" => v.module = Nothing /\ v.listed = {}
  BY DEF OffersOf, Steady
<1>3. OffersOf(Refreshed(v))
  BY <1>1, RefreshedOffers
<1>4. Refreshed(v) \in Windows /\ Refreshed(v) = [v EXCEPT !.enabled = View(v)]
  BY RefreshedIs
<1>5. Steady(w, Refreshed(v))
  BY <1>4 DEF Steady, Windows
<1> QED
  BY <1>3, <1>4, <1>5 DEF Keeps, Offering

LEMMA SteadyEnables ==
    ASSUME NEW w, Offering(w)
    PROVE  Keeps(w, Enables(w, {"start"}))
<1>1. /\ w \in Windows /\ OffersOf(w)
      /\ Enables(w, {"start"}) = [w EXCEPT !.enabled = @ \cup {"start"}]
  BY DEF Offering, Enables
<1>2. "start" \in Buttons
  BY DEF Buttons
<1>3. /\ Enables(w, {"start"}) \in Windows /\ Steady(w, Enables(w, {"start"}))
      /\ Enables(w, {"start"}).enabled = w.enabled \cup {"start"}
  BY <1>1, <1>2 DEF Steady, Windows
<1> QED
  BY <1>1, <1>3, SteadyOffers

LEMMA SteadyDisables ==
    ASSUME NEW w, Offering(w), NEW B
    PROVE  Keeps(w, Disables(w, B))
<1>1. /\ w \in Windows /\ OffersOf(w)
      /\ Disables(w, B) = [w EXCEPT !.enabled = @ \ B]
  BY DEF Offering, Disables
<1>2. /\ Disables(w, B) \in Windows /\ Steady(w, Disables(w, B))
      /\ Disables(w, B).enabled = w.enabled \ B
  BY <1>1 DEF Steady, Windows
<1> QED
  BY <1>1, <1>2, SteadyOffers

LEMMA KeepsSelf ==
    ASSUME NEW w, Offering(w)
    PROVE  Keeps(w, w)
BY DEF Keeps, Steady

LEMMA KeepsAgain ==
    ASSUME NEW u, NEW w, NEW v, Keeps(u, w), Keeps(w, v)
    PROVE  Keeps(u, v)
BY DEF Keeps, Steady

(* The technician's clicks that choose nothing.                            *)
LEMMA ClicksKeep ==
    ASSUME WindowAssumption, Formed, Offering(win),
           \/ ClickSelectCategory \/ ClickAiDiagnose \/ ClickAiRetry
           \/ ClickReadDtcs \/ ClickClearDtcs
           \/ \E o \in {"override", "cancel"} : SubmitDecision(o)
           \/ AnswerDialog \/ CloseDialog
    PROVE  Keeps(win, win')
<1>0. win \in Windows /\ OffersOf(win)
  BY DEF Offering
<1> DEFINE p == [win EXCEPT !.pending = TRUE, !.retry = FALSE]
           q == [win EXCEPT !.prompt = NoPrompt]
           d == [win EXCEPT !.modal.on = FALSE]
           e == [win EXCEPT !.modal = NoModal]
<1>p. p \in Windows /\ Steady(win, p)
  BY <1>0 DEF Windows, Steady
<1>q. q \in Windows /\ Steady(win, q) /\ q.enabled = win.enabled
  BY <1>0 DEF Windows, Steady, NoPrompt, WindowAssumption
<1>d. d \in Windows /\ Steady(win, d) /\ d.enabled = win.enabled
  BY <1>0 DEF Windows, Steady
<1>e. e \in Windows /\ Steady(win, e) /\ e.enabled = win.enabled
  <2>1. NoModal \in [q: 0..MaxClicks, on: BOOLEAN]
    BY DEF NoModal, WindowAssumption
  <2> QED
    BY <1>0, <2>1 DEF Windows, Steady
<1>1. CASE ClickSelectCategory
  <2>1. win' = Disables(win, {"category", "read", "ai"})
    BY <1>1 DEF ClickSelectCategory, SelectsCategory, ClicksAs
  <2>2. Keeps(win, Disables(win, {"category", "read", "ai"}))
    BY SteadyDisables, Zenon
  <2> QED
    BY <2>1, <2>2
<1>2. CASE ClickAiDiagnose \/ ClickAiRetry
  <2>1. win' = Refreshed(p)
    BY <1>2 DEF ClickAiDiagnose, ClickAiRetry, ClicksAs
  <2> HIDE DEF p
  <2> QED
    BY <2>1, <1>0, <1>p, SteadyRefreshed
<1>3. CASE ClickReadDtcs \/ ClickClearDtcs
  <2>1. win' = Disables(win, {"read"}) \/ win' = Disables(win, {"clear"})
    BY <1>3 DEF ClickReadDtcs, ClickClearDtcs, ClicksAs
  <2>2. Keeps(win, Disables(win, {"read"})) /\ Keeps(win, Disables(win, {"clear"}))
    BY SteadyDisables, Zenon
  <2> QED
    BY <2>1, <2>2
<1>4. CASE \E o \in {"override", "cancel"} : SubmitDecision(o)
  <2>1. win' = q
    BY <1>4 DEF SubmitDecision, Clicks, ClicksAs
  <2> HIDE DEF q
  <2> QED
    BY <2>1, <1>0, <1>q, SteadyOffers
<1>5. CASE AnswerDialog
  <2>1. win' = d
    BY <1>5 DEF AnswerDialog
  <2> HIDE DEF d
  <2> QED
    BY <2>1, <1>0, <1>d, SteadyOffers
<1>6. CASE CloseDialog
  <2>1. win' = e
    BY <1>6 DEF CloseDialog
  <2> HIDE DEF e
  <2> QED
    BY <2>1, <1>0, <1>e, SteadyOffers
<1> QED
  BY <1>1, <1>2, <1>3, <1>4, <1>5, <1>6

(* The handler of each kind of answer.                                     *)
LEMMA HandlerOf ==
    ASSUME NEW c \in Calls, Handle(c)
    PROVE  /\ c.at = "done"
           /\ c.op = "start" => HandleStart(c)
           /\ c.op = "connect" => HandleConnect(c)
           /\ c.op = "decide" => HandleDecide(c)
           /\ c.op = "navigate" => HandleNavigate(c)
           /\ c.op = "answer" => Handled(c, win)
           /\ c.op = "module" => HandleModule(c)
           /\ c.op = "category" => HandleCategory(c)
           /\ c.op \in {"ai", "retry"} => HandleAi(c)
           /\ c.op \in {"read", "clear"} => HandleDtcs(c)
           /\ c.op = "status" => HandleStatus(c)
           /\ c.op \in Ops
<1>1. Handles(c) /\ c.at = "done" /\ c.op \in Ops
  BY DEF Handle, Calls
<1> QED
  BY <1>1 DEF Handles, Ops

Fills(w) == \E u : Keeps(w, u) /\ win' = Populated(u)

LEMMA StartedWindow ==
    ASSUME WindowAssumption, NEW c \in Calls, NEW w, Offering(w), HandleStarted(c, w)
    PROVE  (c.out # "modules" /\ Keeps(w, win')) \/ (c.out = "modules" /\ win' = Populated(w))
<1>0. w \in Windows /\ OffersOf(w) /\ c.n \in 0..MaxClicks
  BY DEF Offering, Calls
<1> DEFINE v == [w EXCEPT !.prompt = [kind |-> "decision", id |-> c.n]]
<1>v. v \in Windows /\ Steady(w, v) /\ v.enabled = w.enabled
  BY <1>0 DEF Windows, Steady
<1>1. \/ c.out = "modules" /\ win' = Populated(w)
      \/ c.out # "modules" /\ (win' = w \/ win' = v \/ win' = Refreshed(w))
  BY DEF HandleStarted, Handled, ThenAsks, PromptsDecision
<1> HIDE DEF v
<1>2. Keeps(w, v)
  BY <1>0, <1>v, SteadyOffers
<1>3. Keeps(w, w)
  BY KeepsSelf
<1>4. Keeps(w, Refreshed(w))
  BY <1>0, SteadyRefreshed DEF Steady
<1> QED
  BY <1>1, <1>2, <1>3, <1>4

Loads(c) == c.op \in {"start", "connect", "decide"} /\ c.out = "modules"

(* The answers to start_diagnostics, its device and its gate.              *)
LEMMA StartsWindow ==
    ASSUME WindowAssumption, Offering(win), NEW c \in Calls, Handle(c),
           c.op \in {"start", "connect", "decide"}
    PROVE  (~Loads(c) /\ Keeps(win, win')) \/ (Loads(c) /\ Fills(win))
<1>0. win \in Windows /\ OffersOf(win)
  BY DEF Offering
<1> DEFINE n == [win EXCEPT !.nav = FALSE]
           s == Enables(n, {"start"})
           t == Enables(win, {"start"})
<1>1. Keeps(win, n)
  <2>1. n \in Windows /\ Steady(win, n) /\ n.enabled = win.enabled
    BY <1>0 DEF Windows, Steady
  <2> HIDE DEF n
  <2> QED
    BY <1>0, <2>1, SteadyOffers
<1>2. Keeps(win, s)
  <2>1. Offering(n)
    BY <1>1 DEF Keeps
  <2> HIDE DEF n
  <2> QED
    BY <1>1, <2>1, SteadyEnables, KeepsAgain
<1>3. Keeps(win, t)
  BY SteadyEnables
<1>4. Offering(s) /\ Offering(t)
  BY <1>2, <1>3 DEF Keeps
<1>5. \/ Keeps(win, win') /\ ~Loads(c)
      \/ HandleStarted(c, s)
      \/ HandleStarted(c, t)
  <2>1. CASE c.op = "start"
    BY <2>1, HandlerOf DEF HandleStart
  <2>2. CASE c.op = "connect"
    BY <2>2, HandlerOf DEF HandleConnect
  <2>3. CASE c.op = "decide"
    <3>1. HandleDecide(c)
      BY <2>3, HandlerOf
    <3>2. \/ c.out # "modules" /\ win' = win
          \/ c.out # "modules" /\ win' = Refreshed(t)
          \/ HandleStarted(c, t)
      BY <3>1 DEF HandleDecide, Handled, ThenAsks
    <3>3. Keeps(win, win)
      BY KeepsSelf
    <3>4. Keeps(win, Refreshed(t))
      <4>1. t \in Windows /\ Steady(win, t)
        BY <1>3 DEF Keeps, Offering
      <4> HIDE DEF t
      <4> QED
        BY <1>0, <4>1, SteadyRefreshed
    <3> QED
      BY <3>2, <3>3, <3>4 DEF Loads
  <2> QED
    BY <2>1, <2>2, <2>3
<1> HIDE DEF n, s, t
<1>6. CASE HandleStarted(c, s)
  <2>1. \/ c.out # "modules" /\ Keeps(s, win')
        \/ c.out = "modules" /\ win' = Populated(s)
    BY <1>6, <1>4, StartedWindow
  <2> QED
    BY <2>1, <1>2, KeepsAgain DEF Loads, Fills
<1>7. CASE HandleStarted(c, t)
  <2>1. \/ c.out # "modules" /\ Keeps(t, win')
        \/ c.out = "modules" /\ win' = Populated(t)
    BY <1>7, <1>4, StartedWindow
  <2> QED
    BY <2>1, <1>3, KeepsAgain DEF Loads, Fills
<1> QED
  BY <1>5, <1>6, <1>7

ModuleTaken ==
    Refreshed([win EXCEPT !.offered = Categories, !.category = Nothing,
                            !.confirmed = FALSE, !.prompt = [kind |-> "category", id |-> 0]])
CategoryTaken == Refreshed([win EXCEPT !.confirmed = TRUE])

Takes(c) == c.op \in {"module", "category"} /\ c.out # "fail"

(* The answers of the calls that choose a module or a category.            *)
LEMMA ChoicesWindow ==
    ASSUME WindowAssumption, Offering(win), NEW c \in Calls, Handle(c),
           c.op \in {"module", "category"}
    PROVE  \/ ~Takes(c) /\ Keeps(win, win')
           \/ Takes(c) /\ c.op = "module" /\ win' = ModuleTaken
           \/ Takes(c) /\ c.op = "category" /\ win' = CategoryTaken
<1>1. CASE c.op = "module"
  BY <1>1, HandlerOf, SteadyRefreshed
     DEF HandleModule, Handled, Takes, ModuleTaken, Offering, Steady
<1>2. CASE c.op = "category"
  BY <1>2, HandlerOf, SteadyRefreshed
     DEF HandleCategory, Handled, Takes, CategoryTaken, Offering, Steady
<1> QED
  BY <1>1, <1>2

(* The answers that choose nothing.                                        *)
LEMMA RestWindow ==
    ASSUME WindowAssumption, Formed, Offering(win), NEW c \in calls, Handle(c),
           c.op \notin {"start", "connect", "decide", "module", "category"}
    PROVE  Keeps(win, win')
<1>0. win \in Windows /\ OffersOf(win) /\ c \in Calls /\ MaxClicks \in Nat
  BY DEF Offering, Formed, ShapeCalls, WindowAssumption
<1>1. CASE c.op = "navigate"
  <2> DEFINE t == Enables(win, {"start"})
             u == [t EXCEPT !.nav = FALSE]
             v == [t EXCEPT !.navid = TRUE, !.following = selected.nav]
  <2>1. Keeps(win, t) /\ t \in Windows /\ OffersOf(t)
    BY SteadyEnables DEF Keeps, Offering
  <2>2. selected.nav \in 0..MaxClicks
    BY DEF Formed, ShapeServer, Selections
  <2>3. win' = u \/ win' = v
    BY <1>1, <1>0, HandlerOf DEF HandleNavigate, Handled
  <2> HIDE DEF t
  <2>4. u \in Windows /\ Steady(t, u) /\ u.enabled = t.enabled
    BY <2>1 DEF Windows, Steady
  <2>5. v \in Windows /\ Steady(t, v) /\ v.enabled = t.enabled
    BY <2>1, <2>2 DEF Windows, Steady
  <2> HIDE DEF u, v
  <2>6. Keeps(t, u) /\ Keeps(t, v)
    BY <2>1, <2>4, <2>5, SteadyOffers
  <2> QED
    BY <2>1, <2>3, <2>6, KeepsAgain
<1>2. CASE c.op \in {"answer"}
  BY <1>2, <1>0, HandlerOf, KeepsSelf DEF Handled
<1>3. CASE c.op \in {"ai", "retry"}
  <2> DEFINE w == [win EXCEPT !.pending = FALSE]
             u == [w EXCEPT !.reading = 0, !.pending = FALSE, !.ai = FALSE]
             v == [w EXCEPT !.ai = TRUE, !.reading = selected.ai]
  <2>1. w \in Windows /\ Steady(win, w)
    BY <1>0 DEF Windows, Steady
  <2>2. selected.ai \in 0..MaxClicks /\ 0 \in 0..MaxClicks
    BY <1>0 DEF Formed, ShapeServer, Selections
  <2>3. win' = Refreshed(w) \/ win' = Refreshed(u) \/ win' = Refreshed(v)
    BY <1>3, <1>0, HandlerOf DEF HandleAi, Handled, AiDone
  <2> HIDE DEF w
  <2>4. u \in Windows /\ Steady(win, u)
    BY <2>1, <2>2 DEF Windows, Steady
  <2>5. v \in Windows /\ Steady(win, v)
    BY <2>1, <2>2 DEF Windows, Steady
  <2> HIDE DEF u, v
  <2> QED
    BY <1>0, <2>1, <2>3, <2>4, <2>5, SteadyRefreshed
<1>4. CASE c.op \in {"read", "clear"}
  <2> DEFINE w == IF c.out = "fail" THEN win ELSE [win EXCEPT !.page = "data"]
             r == Refreshed(w)
             v == [r EXCEPT !.refresh = TRUE]
  <2>1. w \in Windows /\ Steady(win, w)
    BY <1>0 DEF Windows, Steady, Pages
  <2>2. win' = r \/ win' = v
    BY <1>4, <1>0, HandlerOf DEF HandleDtcs, Handled
  <2> HIDE DEF w
  <2>3. Keeps(win, r) /\ r \in Windows /\ OffersOf(r)
    BY <1>0, <2>1, SteadyRefreshed DEF Keeps, Offering
  <2> HIDE DEF r
  <2>4. v \in Windows /\ Steady(r, v) /\ v.enabled = r.enabled
    BY <2>3 DEF Windows, Steady
  <2> HIDE DEF v
  <2>5. Keeps(r, v)
    BY <2>3, <2>4, SteadyOffers
  <2> QED
    BY <2>2, <2>3, <2>5, KeepsAgain
<1>5. CASE c.op = "status"
  <2> DEFINE s == c.status
             w == [win EXCEPT !.refresh = FALSE, !.ai = s.ai, !.nav = s.nav, !.page = s.page,
                              !.ready = s.ready]
             u == [w EXCEPT !.prompt = [kind |-> "decision", id |-> s.gate]]
             v == [win EXCEPT !.refresh = FALSE]
  <2>1. win' = v \/ win' = Refreshed(w) \/ win' = Refreshed(u)
    BY <1>5, <1>0, HandlerOf DEF HandleStatus, Handled, PromptsDecision
  <2>2. s \in Snapshots
    BY <1>0 DEF Calls
  <2>3. /\ s.ai \in BOOLEAN /\ s.nav \in BOOLEAN /\ s.ready \in BOOLEAN
        /\ s.page \in Pages /\ s.gate \in 0..MaxClicks
    BY <2>2 DEF Snapshots
  <2> HIDE DEF s
  <2>4. w \in Windows /\ Steady(win, w)
    <3>1. w \in Windows
      BY <1>0, <2>3 DEF Windows
    <3> QED
      BY <1>0, <3>1 DEF Windows, Steady
  <2> HIDE DEF w
  <2>5. u \in Windows /\ Steady(win, u)
    BY <2>3, <2>4 DEF Windows, Steady
  <2>6. v \in Windows /\ Steady(win, v) /\ v.enabled = win.enabled
    BY <1>0 DEF Windows, Steady
  <2> HIDE DEF u, v
  <2> QED
    BY <1>0, <2>1, <2>4, <2>5, <2>6, SteadyRefreshed, SteadyOffers
<1> QED
  BY <1>0, <1>1, <1>2, <1>3, <1>4, <1>5, HandlerOf DEF Ops

LandedOn(item) ==
    Refreshed([Cleared(win) EXCEPT
        !.following = 0, !.nav = FALSE, !.navid = FALSE, !.branch = "vehicle",
        !.page = "data", !.category = item, !.offered = {item},
        !.confirmed = TRUE, !.ready = FALSE])

Lands == \E e \in Happenings : e.ev = "done" /\ wire # <<>> /\ e = Head(wire)
                               /\ win' = LandedOn(e.item)

LEMMA HeadOfWire ==
    ASSUME Formed, wire # <<>>
    PROVE  Head(wire) \in Happenings
BY DEF Formed, ShapeBounds

LEMMA HeadOfJourney ==
    ASSUME Formed, NEW n \in Numbers, navs[n].events # <<>>
    PROVE  Head(navs[n].events) \in Happenings
<1>1. navs[n].events \in Seq(Happenings)
  BY DEF Formed, ShapeServer, Journeys
<1> QED
  BY <1>1

(* The readers of the streams, and the streams that are lost.              *)
LEMMA StreamsWindow ==
    ASSUME WindowAssumption, Formed, Offering(win),
           \/ ReadNavigation \/ LoseNavigation \/ ReadDiagnosis \/ LoseDiagnosis
           \/ ReadSession \/ LoseSession \/ Poll
    PROVE  Keeps(win, win')
<1>0. /\ win \in Windows /\ OffersOf(win) /\ 0 \in 0..MaxClicks
  BY DEF Offering, WindowAssumption
<1>1. CASE ReadNavigation \/ LoseNavigation
  <2> DEFINE w == [win EXCEPT !.following = 0]
  <2>1. w \in Windows /\ Steady(win, w) /\ w.enabled = win.enabled
    BY <1>0 DEF Windows, Steady
  <2>2. win' = w \/ win' = win
    BY <1>1 DEF ReadNavigation, LoseNavigation
  <2> HIDE DEF w
  <2> QED
    BY <1>0, <2>1, <2>2, SteadyOffers, KeepsSelf
<1>2. CASE ReadDiagnosis \/ LoseDiagnosis
  <2>1. PICK b \in BOOLEAN :
           win' = Refreshed([[win EXCEPT !.retry = b] EXCEPT
                                  !.reading = 0, !.pending = FALSE, !.ai = FALSE])
    <3>1. CASE ReadDiagnosis
      <4>1. PICK h : win' = AiDone([win EXCEPT !.retry = @ \/ h = "retryable"])
        BY <3>1 DEF ReadDiagnosis
      <4>2. (win.retry \/ h = "retryable") \in BOOLEAN
        OBVIOUS
      <4>3. PICK b \in BOOLEAN : b = (win.retry \/ h = "retryable")
        BY <4>2
      <4>4. win' = AiDone([win EXCEPT !.retry = b])
        BY <4>1, <4>3, Zenon
      <4> QED
        BY <4>4, Zenon DEF AiDone
    <3>2. CASE LoseDiagnosis
      <4>1. win' = AiDone(win) /\ win.retry \in BOOLEAN
        BY <3>2, <1>0 DEF LoseDiagnosis, Windows
      <4>2. win = [win EXCEPT !.retry = win.retry]
        BY <1>0 DEF Windows
      <4>3. win' = AiDone([win EXCEPT !.retry = win.retry])
        BY <4>1, <4>2, Zenon
      <4> QED
        BY <4>1, <4>3, Zenon DEF AiDone
    <3> QED
      BY <1>2, <3>1, <3>2
  <2> DEFINE w == [[win EXCEPT !.retry = b] EXCEPT
                     !.reading = 0, !.pending = FALSE, !.ai = FALSE]
  <2>2. w \in Windows /\ Steady(win, w)
    <3> DEFINE u == [win EXCEPT !.retry = b]
    <3>1. u \in Windows /\ Steady(win, u)
      BY <1>0 DEF Windows, Steady
    <3> HIDE DEF u
    <3> DEFINE v == [u EXCEPT !.reading = 0, !.pending = FALSE, !.ai = FALSE]
    <3>z. u \in Windows /\ 0 \in 0..MaxClicks
      BY <1>0, <3>1
    <3>2. v \in Windows
      BY <3>z DEF Windows
    <3>3. Steady(u, v)
      BY <3>z DEF Windows, Steady
    <3>4. Steady(win, v)
      BY <3>1, <3>3 DEF Steady
    <3> QED
      BY <3>2, <3>4, Zenon DEF u
  <2>3. win' = Refreshed(w)
    BY <2>1
  <2> HIDE DEF w
  <2> QED
    BY <1>0, <2>2, <2>3, SteadyRefreshed
<1>3. CASE ReadSession
  <2>1. news # <<>> /\ news \in Seq(Tidings)
    BY <1>3 DEF ReadSession, Formed, ShapeServer
  <2>2. PICK e \in Tidings : e = Head(news)
    BY <2>1
  <2>e. e.id \in 0..MaxClicks
    BY <2>2 DEF Tidings
  <2> DEFINE u == [win EXCEPT !.prompt = [kind |-> "decision", id |-> e.id]]
             v == [win EXCEPT !.modal = NoModal, !.prompt = NoPrompt]
  <2>3. win' = u \/ win' = Enables(v, {"start"}) \/ win' = win
    BY <1>3, <2>2 DEF ReadSession, PromptsDecision
  <2>4. u \in Windows /\ Steady(win, u) /\ u.enabled = win.enabled
    BY <1>0, <2>e DEF Windows, Steady
  <2>5. v \in Windows /\ Steady(win, v) /\ v.enabled = win.enabled
    <3>1. NoModal \in [q: 0..MaxClicks, on: BOOLEAN]
      BY DEF NoModal, WindowAssumption
    <3>2. NoPrompt \in [kind: {"none", "category", "decision"}, id: 0..MaxClicks]
          /\ NoPrompt.kind # "category"
      BY DEF NoPrompt, WindowAssumption
    <3> QED
      BY <1>0, <3>1, <3>2 DEF Windows, Steady
  <2> HIDE DEF u, v
  <2>6. Keeps(win, u) /\ Keeps(win, v)
    BY <1>0, <2>4, <2>5, SteadyOffers
  <2>7. Keeps(v, Enables(v, {"start"}))
    BY <2>6, SteadyEnables DEF Keeps
  <2> QED
    BY <2>3, <2>6, <2>7, KeepsAgain, KeepsSelf
<1>4. CASE LoseSession
  <2> DEFINE w == [win EXCEPT !.listening = FALSE]
  <2>1. w \in Windows /\ Steady(win, w) /\ w.enabled = win.enabled
    BY <1>0 DEF Windows, Steady
  <2>2. win' = Disables(w, {"start"})
    BY <1>4 DEF LoseSession
  <2> HIDE DEF w
  <2>3. Keeps(win, w) /\ Offering(w)
    BY <1>0, <2>1, SteadyOffers DEF Keeps
  <2>4. Keeps(w, Disables(w, {"start"}))
    BY <2>3, SteadyDisables, Zenon
  <2> QED
    BY <2>2, <2>3, <2>4, KeepsAgain
<1>5. CASE Poll
  <2> DEFINE w == [win EXCEPT !.refresh = TRUE]
  <2>1. w \in Windows /\ Steady(win, w) /\ w.enabled = win.enabled
    BY <1>0 DEF Windows, Steady
  <2>2. win' = w
    BY <1>5 DEF Poll
  <2> HIDE DEF w
  <2> QED
    BY <1>0, <2>1, <2>2, SteadyOffers
<1> QED
  BY <1>1, <1>2, <1>3, <1>4, <1>5

LEMMA EventWindow ==
    ASSUME WindowAssumption, Formed, Offering(win), HandleNavigationEvent
    PROVE  \/ Head(wire).ev # "done" /\ Keeps(win, win')
           \/ Lands
<1>0. /\ win \in Windows /\ OffersOf(win) /\ 0 \in 0..MaxClicks
  BY DEF Offering, WindowAssumption
<1>1. wire # <<>>
  BY DEF HandleNavigationEvent
<1>2. PICK e \in Happenings : e = Head(wire)
  BY <1>1, HeadOfWire
<1>a. e.ev \in {"ask", "done", "error"} /\ e.n \in 0..MaxClicks
  BY DEF Happenings, Numbers
<1>b. (CASE e.ev = "ask" -> Asked(e)
         [] e.ev = "done" -> Arrived(e)
         [] e.ev = "error" -> Failed)
  BY <1>2, Zenon DEF HandleNavigationEvent
<1>3. /\ e.ev \in {"ask", "done", "error"} /\ e.n \in 0..MaxClicks
      /\ e.ev = "ask" => Asked(e)
      /\ e.ev = "done" => Arrived(e)
      /\ e.ev = "error" => Failed
  BY <1>a, <1>b
<1>4. CASE e.ev = "ask"
  <2> DEFINE w == [win EXCEPT !.modal = [q |-> e.n, on |-> TRUE]]
  <2>1. w \in Windows /\ Steady(win, w) /\ w.enabled = win.enabled
    BY <1>0, <1>3 DEF Windows, Steady
  <2>2. win' = win \/ win' = w
    BY <1>3, <1>4 DEF Asked
  <2> HIDE DEF w
  <2> QED
    BY <1>0, <1>2, <1>4, <2>1, <2>2, SteadyOffers, KeepsSelf
<1>5. CASE e.ev = "done"
  BY <1>1, <1>2, <1>3, <1>5 DEF Arrived, Lands, LandedOn
<1>6. CASE e.ev = "error"
  <2> DEFINE w == [win EXCEPT !.following = 0, !.nav = FALSE, !.navid = FALSE, !.refresh = TRUE]
  <2>a. win \in Windows /\ 0 \in 0..MaxClicks
    BY <1>0
  <2>b. w \in Windows
    BY <2>a DEF Windows
  <2>c. Steady(win, w) /\ w.enabled = win.enabled
    BY <2>a DEF Windows, Steady
  <2>1. w \in Windows /\ Steady(win, w) /\ w.enabled = win.enabled
    BY <2>b, <2>c
  <2>2. win' = Enables(w, {"start"})
    BY <1>3, <1>6 DEF Failed
  <2> HIDE DEF w
  <2>3. Keeps(win, w) /\ Offering(w)
    BY <1>0, <2>1, SteadyOffers DEF Keeps
  <2>4. Keeps(w, Enables(w, {"start"}))
    BY <2>3, SteadyEnables
  <2> QED
    BY <1>2, <1>6, <2>2, <2>3, <2>4, KeepsAgain
<1> QED
  BY <1>3, <1>4, <1>5, <1>6

Blank(w) == w.listed = {} /\ w.offered = {} /\ w.category = Nothing /\ w.module = Nothing
            /\ w.confirmed = FALSE

LEMMA ClearedIs ==
    ASSUME WindowAssumption, NEW w \in Windows
    PROVE  Cleared(w) \in Windows /\ Blank(Cleared(w)) /\ Cleared(w).prompt = w.prompt
BY DEF Cleared, Windows, Blank

(* What a refreshed window is like, but for its buttons.                   *)
LEMMA RefreshedLike ==
    ASSUME NEW v \in Windows, v.branch # "module" => v.module = Nothing /\ v.listed = {}
    PROVE  /\ Offering(Refreshed(v))
           /\ \A w : w = Refreshed(v) =>
                 /\ w.branch = v.branch /\ w.listed = v.listed /\ w.module = v.module
                 /\ w.offered = v.offered /\ w.category = v.category
                 /\ w.confirmed = v.confirmed /\ w.prompt = v.prompt
<1>1. OffersOf(Refreshed(v))
  BY RefreshedOffers
<1>2. Refreshed(v) \in Windows /\ Refreshed(v) = [v EXCEPT !.enabled = View(v)]
  BY RefreshedIs
<1> QED
  BY <1>1, <1>2 DEF Offering, Windows

LEMMA ClickModuleWindow ==
    ASSUME WindowAssumption, Offering(win), ClickModuleDiagnostics
    PROVE  Offering(win') /\ Blank(win') /\ win'.branch = "module" /\ win'.prompt = NoPrompt
<1> DEFINE u == Cleared(win)
           v == [u EXCEPT !.branch = "module", !.nav = TRUE, !.prompt = NoPrompt]
<1>1. u \in Windows /\ Blank(u)
  BY ClearedIs DEF Offering
<1>2. win' = Refreshed(v)
  BY Zenon DEF ClickModuleDiagnostics, Clicks, ClicksAs
<1>3. NoPrompt \in [kind: {"none", "category", "decision"}, id: 0..MaxClicks]
  BY DEF NoPrompt, WindowAssumption
<1> HIDE DEF u
<1>4. v \in Windows /\ Blank(v) /\ v.branch = "module" /\ v.prompt = NoPrompt
  BY <1>1, <1>3 DEF Windows, Blank
<1> HIDE DEF v
<1> QED
  BY <1>2, <1>4, RefreshedLike DEF Blank

LEMMA ClickVehicleWindow ==
    ASSUME WindowAssumption, Offering(win), ClickVehicleDiagnostics
    PROVE  Offering(win') /\ Blank(win') /\ win'.branch = "vehicle" /\ win'.prompt = win.prompt
<1> DEFINE u == Cleared(win)
           v == [u EXCEPT !.branch = "vehicle", !.nav = TRUE, !.page = "none"]
<1>1. u \in Windows /\ Blank(u) /\ u.prompt = win.prompt
  BY ClearedIs DEF Offering
<1>2. win' = Refreshed(v)
  BY Zenon DEF ClickVehicleDiagnostics, Clicks, ClicksAs
<1> HIDE DEF u
<1>4. v \in Windows /\ Blank(v) /\ v.branch = "vehicle" /\ v.prompt = win.prompt
  BY <1>1 DEF Windows, Blank, Pages
<1> HIDE DEF v
<1> QED
  BY <1>2, <1>4, RefreshedLike DEF Blank

LEMMA PopulatedWindow ==
    ASSUME WindowAssumption, Offering(win), Fills(win)
    PROVE  /\ Offering(win') /\ win'.branch = "module" /\ win'.listed = Modules
           /\ win'.category = Nothing /\ win'.confirmed = FALSE /\ win'.offered = {}
           /\ win'.prompt.kind = "category" => win.prompt.kind = "category"
<1>1. PICK w : Keeps(win, w) /\ win' = Populated(w)
  BY DEF Fills
<1> DEFINE u == Cleared(w)
           v == [u EXCEPT !.branch = "module", !.listed = Modules, !.module = FirstModule,
                          !.page = "list"]
<1>2. u \in Windows /\ Blank(u) /\ u.prompt = w.prompt
  BY <1>1, ClearedIs DEF Offering, Keeps
<1>3. win' = Refreshed(v)
  BY <1>1, Zenon DEF Populated
<1>4. FirstModule \in Modules
  BY DEF WindowAssumption
<1> HIDE DEF u
<1>5. /\ v \in Windows /\ v.branch = "module" /\ v.listed = Modules
      /\ v.category = Nothing /\ v.confirmed = FALSE /\ v.offered = {} /\ v.prompt = w.prompt
  BY <1>2, <1>4 DEF Windows, Blank, Pages
<1> HIDE DEF v
<1>6. /\ Offering(win') /\ win'.branch = "module" /\ win'.listed = Modules
      /\ win'.category = Nothing /\ win'.confirmed = FALSE /\ win'.offered = {}
      /\ win'.prompt = w.prompt
  BY <1>3, <1>5, RefreshedLike
<1> QED
  BY <1>1, <1>6 DEF Keeps, Steady

LEMMA ChooseModuleWindow ==
    ASSUME WindowAssumption, Offering(win), NEW m \in Modules, ChooseModule(m)
    PROVE  /\ Offering(win') /\ win.branch = "module" /\ win.listed # {}
           /\ win' = [win EXCEPT !.module = m]
<1>1. win \in Windows /\ OffersOf(win) /\ win' = [win EXCEPT !.module = m]
  BY DEF Offering, ChooseModule
<1>2. win.branch = "module" /\ win.listed # {}
  BY <1>1 DEF ChooseModule, Can, OffersOf
<1>3. m # Nothing
  BY DEF WindowAssumption
<1> DEFINE v == [win EXCEPT !.module = m]
<1>4. /\ v \in Windows /\ v.branch = win.branch /\ v.module = m /\ v.listed = win.listed
      /\ v.category = win.category /\ v.enabled = win.enabled
  BY <1>1 DEF Windows
<1> HIDE DEF v
<1>5. OffersOf(v)
  BY <1>1, <1>2, <1>3, <1>4 DEF OffersOf
<1> QED
  BY <1>1, <1>2, <1>4, <1>5 DEF Offering, v

LEMMA SelectModuleWindow ==
    ASSUME WindowAssumption, Offering(win), ClickSelectModule
    PROVE  /\ Offering(win') /\ win.branch = "module" /\ win.module # Nothing
           /\ win'.branch = "module" /\ win'.module = win.module /\ win'.listed = win.listed
           /\ win'.category = Nothing /\ win'.offered = {} /\ win'.prompt = win.prompt
           /\ win'.confirmed = win.confirmed
<1>1. /\ win \in Windows /\ OffersOf(win) /\ win.module # Nothing
      /\ win.branch = "module"
  BY DEF Offering, ClickSelectModule, OffersOf, Can
<1> DEFINE v == [win EXCEPT !.offered = {}, !.category = Nothing]
<1>2. win' = Disables(v, {"module", "read"})
  BY Zenon DEF ClickSelectModule, Clicks, ClicksAs
<1>3. /\ v \in Windows /\ v.branch = win.branch /\ v.module = win.module
      /\ v.listed = win.listed /\ v.category = Nothing /\ v.enabled = win.enabled
      /\ v.offered = {} /\ v.prompt = win.prompt /\ v.confirmed = win.confirmed
  BY <1>1 DEF Windows
<1> HIDE DEF v
<1>4. Offering(v)
  BY <1>1, <1>3 DEF OffersOf, Offering
<1>5. win' = [v EXCEPT !.enabled = @ \ {"module", "read"}]
  BY <1>2 DEF Disables
<1>6. Offering(win')
  BY <1>2, <1>4, SteadyDisables, Zenon DEF Keeps
<1> QED
  BY <1>1, <1>3, <1>5, <1>6 DEF Windows

LEMMA ChooseCategoryWindow ==
    ASSUME WindowAssumption, Offering(win), NEW g \in Categories, ChooseCategory(g)
    PROVE  /\ Offering(win') /\ win.branch = "module" /\ win'.branch = "module"
           /\ win.offered # {}
           /\ win'.listed = win.listed /\ win'.module = win.module
           /\ win'.offered = win.offered /\ win'.prompt = win.prompt
           /\ win'.category = g /\ win'.confirmed = FALSE
<1>1. /\ win \in Windows /\ OffersOf(win) /\ win.branch = "module" /\ win.offered # {}
  BY DEF Offering, ChooseCategory, OffersOf, Can
<1> DEFINE v == [win EXCEPT !.category = g, !.confirmed = FALSE]
<1>2. win' = Refreshed(v)
  BY Zenon DEF ChooseCategory, OnDataCategorySelected
<1>3. /\ v \in Windows /\ v.branch = win.branch /\ v.module = win.module
      /\ v.listed = win.listed /\ v.category = g /\ v.offered = win.offered
      /\ v.prompt = win.prompt /\ v.confirmed = FALSE
  BY <1>1 DEF Windows
<1> HIDE DEF v
<1> QED
  BY <1>1, <1>2, <1>3, RefreshedLike

LEMMA SubmitCategoryWindow ==
    ASSUME WindowAssumption, Offering(win), NEW g \in Categories, SubmitCategoryPrompt(g)
    PROVE  /\ win.prompt.kind = "category"
           /\ Offering(win')
           /\ win \in Windows /\ win' \in Windows
           /\ win'.branch = win.branch
           /\ win'.listed = win.listed /\ win'.module = win.module
           /\ win'.offered = win.offered /\ win'.prompt = NoPrompt
           /\ win'.category = g /\ win'.confirmed = win.confirmed
           /\ win'.enabled = win.enabled \ {"category", "read", "ai"}
<1>1. win \in Windows /\ OffersOf(win) /\ win.prompt.kind = "category"
  BY DEF Offering, SubmitCategoryPrompt
<1> DEFINE v == [win EXCEPT !.category = g, !.prompt = NoPrompt]
<1>2. win' = Disables(v, {"category", "read", "ai"})
  BY Zenon DEF SubmitCategoryPrompt, SelectsCategory, ClicksAs
<1>3. NoPrompt \in [kind: {"none", "category", "decision"}, id: 0..MaxClicks]
  BY DEF NoPrompt, WindowAssumption
<1>4. /\ v \in Windows /\ v.branch = win.branch /\ v.module = win.module
      /\ v.listed = win.listed /\ v.category = g /\ v.enabled = win.enabled
      /\ v.offered = win.offered /\ v.prompt = NoPrompt /\ v.confirmed = win.confirmed
  BY <1>1, <1>3 DEF Windows
<1> HIDE DEF v
<1>5. win' = [v EXCEPT !.enabled = @ \ {"category", "read", "ai"}]
  BY <1>2 DEF Disables
<1>6. /\ win' \in Windows
      /\ win'.branch = win.branch
      /\ win'.listed = win.listed /\ win'.module = win.module
      /\ win'.offered = win.offered /\ win'.prompt = NoPrompt
      /\ win'.category = g /\ win'.confirmed = win.confirmed
      /\ win'.enabled = win.enabled \ {"category", "read", "ai"}
  BY <1>4, <1>5 DEF Windows
<1>7. g # Nothing
  BY DEF WindowAssumption
<1>8. OffersOf(win')
  BY <1>1, <1>6, <1>7 DEF OffersOf
<1> QED
  BY <1>1, <1>6, <1>8 DEF Offering

LEMMA ModuleTakenIs ==
    ASSUME WindowAssumption, Offering(win)
    PROVE  /\ Offering(ModuleTaken)
           /\ \A w : w = ModuleTaken =>
                /\ w.branch = win.branch /\ w.listed = win.listed /\ w.module = win.module
                /\ w.offered = Categories /\ w.category = Nothing /\ w.confirmed = FALSE
                /\ w.prompt = [kind |-> "category", id |-> 0]
<1> DEFINE v == [win EXCEPT !.offered = Categories, !.category = Nothing, !.confirmed = FALSE,
                            !.prompt = [kind |-> "category", id |-> 0]]
<1>1. win \in Windows /\ OffersOf(win) /\ 0 \in 0..MaxClicks
  BY DEF Offering, WindowAssumption
<1>2. /\ v \in Windows /\ v.branch = win.branch /\ v.listed = win.listed
      /\ v.module = win.module /\ v.offered = Categories /\ v.category = Nothing
      /\ v.confirmed = FALSE /\ v.prompt = [kind |-> "category", id |-> 0]
  BY <1>1 DEF Windows
<1>3. ModuleTaken = Refreshed(v)
  BY Zenon DEF ModuleTaken
<1> HIDE DEF v
<1>4. v.branch # "module" => v.module = Nothing /\ v.listed = {}
  BY <1>1, <1>2 DEF OffersOf
<1> QED
  BY <1>2, <1>3, <1>4, RefreshedLike

LEMMA CategoryTakenIs ==
    ASSUME WindowAssumption, Offering(win)
    PROVE  /\ Offering(CategoryTaken)
           /\ \A w : w = CategoryTaken =>
                /\ w.branch = win.branch /\ w.listed = win.listed /\ w.module = win.module
                /\ w.offered = win.offered /\ w.category = win.category /\ w.confirmed = TRUE
                /\ w.prompt = win.prompt
<1> DEFINE v == [win EXCEPT !.confirmed = TRUE]
<1>1. win \in Windows /\ OffersOf(win)
  BY DEF Offering
<1>2. /\ v \in Windows /\ v.branch = win.branch /\ v.listed = win.listed
      /\ v.module = win.module /\ v.offered = win.offered /\ v.category = win.category
      /\ v.confirmed = TRUE /\ v.prompt = win.prompt
  BY <1>1 DEF Windows
<1>3. CategoryTaken = Refreshed(v)
  BY Zenon DEF CategoryTaken
<1> HIDE DEF v
<1>4. v.branch # "module" => v.module = Nothing /\ v.listed = {}
  BY <1>1, <1>2 DEF OffersOf
<1> QED
  BY <1>2, <1>3, <1>4, RefreshedLike

LEMMA LandedOnIs ==
    ASSUME WindowAssumption, Offering(win), NEW item \in Items
    PROVE  /\ Offering(LandedOn(item))
           /\ \A w : w = LandedOn(item) =>
                /\ w.branch = "vehicle" /\ w.listed = {} /\ w.module = Nothing
                /\ w.offered = {item} /\ w.category = item /\ w.confirmed = TRUE
                /\ w.prompt = win.prompt /\ w.following = 0
<1> DEFINE u == Cleared(win)
           v == [u EXCEPT !.following = 0, !.nav = FALSE, !.navid = FALSE, !.branch = "vehicle",
                          !.page = "data", !.category = item, !.offered = {item},
                          !.confirmed = TRUE, !.ready = FALSE]
<1>1. u \in Windows /\ Blank(u) /\ u.prompt = win.prompt /\ 0 \in 0..MaxClicks
  BY ClearedIs DEF Offering, WindowAssumption
<1>2. LandedOn(item) = Refreshed(v)
  BY Zenon DEF LandedOn
<1> HIDE DEF u
<1> DEFINE x == [u EXCEPT !.following = 0, !.nav = FALSE, !.navid = FALSE, !.branch = "vehicle"]
<1>3. x \in Windows
  BY <1>1 DEF Windows
<1>4. x.branch = "vehicle" /\ x.listed = {} /\ x.module = Nothing /\ x.prompt = win.prompt
      /\ x.following = 0
  BY <1>1 DEF Windows, Blank
<1> DEFINE y == [x EXCEPT !.page = "data", !.confirmed = TRUE, !.ready = FALSE]
<1>5. v = [y EXCEPT !.category = item, !.offered = {item}]
  OBVIOUS
<1> HIDE DEF x, v
<1>6. y \in Windows
  BY <1>3 DEF Windows, Pages
<1>7. /\ y.branch = "vehicle" /\ y.listed = {} /\ y.module = Nothing
      /\ y.prompt = win.prompt /\ y.confirmed = TRUE /\ y.following = 0
  BY <1>3, <1>4 DEF Windows
<1> HIDE DEF y
<1>8. v \in Windows
  BY <1>5, <1>6 DEF Windows
<1>9. /\ v.branch = "vehicle" /\ v.listed = {} /\ v.module = Nothing
      /\ v.offered = {item} /\ v.category = item /\ v.confirmed = TRUE
      /\ v.prompt = win.prompt /\ v.following = 0
  BY <1>5, <1>6, <1>7 DEF Windows
<1>10. Refreshed(v).following = v.following
  BY <1>8 DEF Refreshed, Windows
<1> QED
  BY <1>2, <1>8, <1>9, <1>10, RefreshedLike

LEMMA LandsWindow ==
    ASSUME WindowAssumption, Offering(win), Lands
    PROVE  \E e \in Happenings :
             /\ e.ev = "done" /\ wire # <<>> /\ e = Head(wire) /\ e.item \in Items
             /\ Offering(win') /\ win'.branch = "vehicle" /\ win'.listed = {}
             /\ win'.module = Nothing /\ win'.offered = {e.item} /\ win'.category = e.item
             /\ win'.confirmed = TRUE /\ win'.prompt = win.prompt /\ win'.following = 0
<1>1. PICK e \in Happenings :
         e.ev = "done" /\ wire # <<>> /\ e = Head(wire) /\ win' = LandedOn(e.item)
  BY DEF Lands
<1>2. e.item \in Items
  BY <1>1 DEF Happenings
<1> QED
  BY <1>1, <1>2, LandedOnIs

(* What a handler leaves of the window.                                    *)
LEMMA HandleWindow ==
    ASSUME WindowAssumption, Formed, Offering(win), NEW c \in calls, Handle(c)
    PROVE  \/ ~Loads(c) /\ ~Takes(c) /\ Keeps(win, win')
           \/ Loads(c) /\ Fills(win)
           \/ Takes(c) /\ c.op = "module" /\ win' = ModuleTaken
           \/ Takes(c) /\ c.op = "category" /\ win' = CategoryTaken
<1>0. c \in Calls
  BY DEF Formed, ShapeCalls
<1>1. CASE c.op \in {"start", "connect", "decide"}
  BY <1>0, <1>1, StartsWindow DEF Takes
<1>2. CASE c.op \in {"module", "category"}
  BY <1>0, <1>2, ChoicesWindow DEF Loads
<1>3. CASE c.op \notin {"start", "connect", "decide", "module", "category"}
  <2>1. Keeps(win, win')
    BY <1>3, RestWindow
  <2> QED
    BY <1>3, <2>1 DEF Loads, Takes
<1> QED
  BY <1>1, <1>2, <1>3

LEMMA WindowStays ==
    ASSUME WindowAssumption, Formed, Offering(win), [WindowNext]_windowVars
    PROVE  Offering(win')
<1>1. CASE UNCHANGED win
  BY <1>1 DEF Offering, OffersOf
<1>2. CASE Technician
  <2>1. ASSUME ClickModuleDiagnostics \/ ClickVehicleDiagnostics \/ ClickSelectModule
        PROVE  Offering(win')
    BY <2>1, ClickModuleWindow, ClickVehicleWindow, SelectModuleWindow
  <2>2. ASSUME NEW m \in Modules, ChooseModule(m)
        PROVE  Offering(win')
    BY <2>2, ChooseModuleWindow
  <2>3. ASSUME NEW g \in Categories, ChooseCategory(g) \/ SubmitCategoryPrompt(g)
        PROVE  Offering(win')
    BY <2>3, ChooseCategoryWindow, SubmitCategoryWindow
  <2>4. ASSUME \/ ClickSelectCategory \/ ClickAiDiagnose \/ ClickAiRetry
               \/ ClickReadDtcs \/ ClickClearDtcs
               \/ \E o \in {"override", "cancel"} : SubmitDecision(o)
               \/ AnswerDialog \/ CloseDialog
        PROVE  Offering(win')
    BY <2>4, ClicksKeep DEF Keeps
  <2> QED
    BY <1>2, <2>1, <2>2, <2>3, <2>4, Zenon DEF Technician
<1>3. CASE Streams
  <2>1. CASE HandleNavigationEvent
    BY <2>1, EventWindow, LandsWindow DEF Keeps
  <2>2. CASE ReadNavigation \/ ReadDiagnosis \/ ReadSession
    BY <2>2, StreamsWindow DEF Keeps
  <2> QED
    BY <1>3, <2>1, <2>2 DEF Streams
<1>4. CASE Losses
  <2>1. CASE \E c \in calls : GiveUp(c)
    BY <2>1, <1>1 DEF GiveUp
  <2>2. CASE LoseNavigation \/ LoseDiagnosis \/ LoseSession
    BY <2>2, StreamsWindow DEF Keeps
  <2> QED
    BY <1>4, <2>1, <2>2 DEF Losses
<1>5. CASE Server
  <2>1. UNCHANGED win
    BY <1>5, Zenon DEF Server, Serve, Drives, EngineEnds, GateExpires
  <2> QED
    BY <1>1, <2>1
<1>6. CASE Window
  <2>1. CASE Poll
    BY <2>1, StreamsWindow DEF Keeps
  <2>2. ASSUME NEW c \in calls, Handle(c)
        PROVE  Offering(win')
    BY <2>2, HandleWindow, PopulatedWindow, ModuleTakenIs, CategoryTakenIs DEF Keeps
  <2> QED
    BY <1>6, <2>1, <2>2 DEF Window
<1>7. CASE UNCHANGED windowVars
  <2>1. UNCHANGED win
    BY <1>7 DEF windowVars
  <2> QED
    BY <1>1, <2>1
<1> QED
  BY <1>2, <1>3, <1>4, <1>5, <1>6, <1>7 DEF WindowNext

-----------------------------------------------------------------------------
(* The server.                                                             *)

LEMMA ServerOf ==
    ASSUME NEW c \in Calls, Serve(c)
    PROVE  /\ Undone(c)
           /\ UNCHANGED <<win, wire, clicks, may, hurried>>
           /\ c.op = "start" => ServeStart(c)
           /\ c.op = "connect" => ServeConnect(c)
           /\ c.op = "decide" => ServeDecide(c)
           /\ c.op = "navigate" => ServeNavigate(c)
           /\ c.op = "answer" => ServeAnswer(c)
           /\ c.op = "module" => ServeModule(c)
           /\ c.op = "category" => ServeCategory(c)
           /\ c.op \in {"ai", "retry"} => ServeAi(c)
           /\ c.op = "read" => ServeRead(c)
           /\ c.op = "clear" => ServeClear(c)
           /\ c.op \in Ops
<1>1. /\ CASE c.op = "start" -> ServeStart(c)
           [] c.op = "connect" -> ServeConnect(c)
           [] c.op = "decide" -> ServeDecide(c)
           [] c.op = "navigate" -> ServeNavigate(c)
           [] c.op = "answer" -> ServeAnswer(c)
           [] c.op = "module" -> ServeModule(c)
           [] c.op = "category" -> ServeCategory(c)
           [] c.op \in {"ai", "retry"} -> ServeAi(c)
           [] c.op = "read" -> ServeRead(c)
           [] c.op = "clear" -> ServeClear(c)
      /\ UNCHANGED <<win, wire, clicks, may, hurried>>
      /\ Undone(c)
  BY Zenon DEF Serve, Undone
<1>2. c.op \in Ops
  BY DEF Calls
<1> QED
  BY <1>1, <1>2 DEF Ops

(* A request is answered, once.                                            *)
Outs == {"fail", "modules", "devices", "selection", "gate", "cancelled", "ok"}
Answers(c) == \E out \in Outs : CallAnswered(c, out)

LEMMA FailsAnswers ==
    ASSUME NEW c, CallFails(c)
    PROVE  Answers(c)
BY DEF CallFails, Answers, Outs

LEMMA StartsAnswers ==
    ASSUME NEW c, NEW s, Starts(c, s)
    PROVE  Answers(c)
BY DEF Starts, Answers, Outs

LEMMA ReadsAnswers ==
    ASSUME NEW c, NEW m, NEW g, ReadsAs(c, m, g)
    PROVE  Answers(c)
BY DEF ReadsAs, Answers, Outs

LEMMA ServeAnswers ==
    ASSUME NEW c \in Calls, c.op # "status", Serve(c)
    PROVE  Undone(c) /\ Answers(c)
<1>1. CASE c.op = "start"
  BY <1>1, ServerOf, FailsAnswers, StartsAnswers DEF ServeStart, RaisesGate, Answers, Outs
<1>2. CASE c.op = "connect"
  BY <1>2, ServerOf DEF ServeConnect, Answers, Outs
<1>3. CASE c.op = "decide"
  <2>1. ServeDecide(c)
    BY <1>3, ServerOf
  <2>2. CallFails(c) \/ CancelsStart(c) \/ Starts(c, [selected EXCEPT !.gate = 0])
    BY <2>1, Zenon DEF ServeDecide
  <2> QED
    BY <1>3, <2>2, ServerOf, FailsAnswers, StartsAnswers DEF CancelsStart, Answers, Outs
<1>4. CASE c.op = "navigate"
  BY <1>4, ServerOf, FailsAnswers DEF ServeNavigate, Answers, Outs
<1>5. CASE c.op = "answer"
  BY <1>5, ServerOf, FailsAnswers DEF ServeAnswer, Answers, Outs
<1>6. CASE c.op = "module"
  BY <1>6, ServerOf, FailsAnswers DEF ServeModule, Answers, Outs
<1>7. CASE c.op = "category"
  BY <1>7, ServerOf, FailsAnswers DEF ServeCategory, Answers, Outs
<1>8. CASE c.op \in {"ai", "retry"}
  BY <1>8, ServerOf, FailsAnswers DEF ServeAi, Answers, Outs
<1>9. CASE c.op = "read"
  BY <1>9, ServerOf, ReadsAnswers DEF ServeRead
<1>10. CASE c.op = "clear"
  BY <1>10, ServerOf, ReadsAnswers, FailsAnswers DEF ServeClear
<1> QED
  BY <1>1, <1>2, <1>3, <1>4, <1>5, <1>6, <1>7, <1>8, <1>9, <1>10, ServerOf DEF Ops

LEMMA StrayShape ==
    ASSUME WindowAssumption, gds \in Displays, GoesAstray
    PROVE  /\ gds' \in Displays
           /\ \/ gds' = gds
              \/ gds' = [page |-> "other", module |-> Nothing, category |-> Nothing]
BY DEF GoesAstray, Shows, Displays, Pages

LEMMA FaultShape ==
    ASSUME faults \in Nat, Fault
    PROVE  faults' \in Nat
BY DEF Fault

LEMMA ResetsIs ==
    ASSUME WindowAssumption, NEW s \in Selections
    PROVE  /\ Resets(s) \in Selections
           /\ Resets(s) = [s EXCEPT !.module = Nothing, !.category = Nothing, !.nav = 0, !.ai = 0]
<1>1. 0 \in 0..MaxClicks
  BY DEF WindowAssumption
<1>2. Resets(s) = [s EXCEPT !.module = Nothing, !.category = Nothing, !.nav = 0, !.ai = 0]
  BY DEF Resets
<1> QED
  BY <1>1, <1>2 DEF Selections

(* start_diagnostics resets the selection and leaves GDS2 on the modules   *)
(* or on the devices, or leaves the selection and GDS2 astray.             *)
LEMMA StartsShape ==
    ASSUME WindowAssumption, gds \in Displays, faults \in Nat,
           NEW c, NEW s \in Selections, Starts(c, s)
    PROVE  /\ gds' \in Displays /\ selected' \in Selections /\ faults' \in Nat
           /\ navs' = navs /\ engine' = engine
           /\ \/ /\ gds'.module = Nothing /\ gds'.page # "data"
                 /\ selected' = Resets(s)
                 /\ CallAnswered(c, "modules") \/ CallAnswered(c, "devices")
              \/ /\ selected' = s
                 /\ gds' = gds \/ (gds'.module = Nothing /\ gds'.page # "data")
                 /\ CallAnswered(c, "fail")
<1>1. navs' = navs /\ engine' = engine
  BY DEF Starts
<1>2. Resets(s) \in Selections
  BY ResetsIs
<1>3. CASE /\ Shows("list", Nothing, Nothing) /\ selected' = Resets(s)
           /\ CallAnswered(c, "modules") /\ UNCHANGED faults
  BY <1>1, <1>2, <1>3 DEF Shows, Displays, Pages
<1>4. CASE /\ Shows("other", Nothing, Nothing) /\ selected' = Resets(s)
           /\ CallAnswered(c, "devices") /\ UNCHANGED faults
  BY <1>1, <1>2, <1>4 DEF Shows, Displays, Pages
<1>5. CASE Fault /\ GoesAstray /\ selected' = s /\ CallAnswered(c, "fail")
  BY <1>1, <1>5, StrayShape, FaultShape
<1> QED
  BY <1>3, <1>4, <1>5 DEF Starts

LEMMA ForIs ==
    ASSUME WindowAssumption, gds \in Displays, selected \in Selections,
           NEW m \in Modules \cup {Nothing}, NEW g \in Categories \cup Items \cup {Nothing}
    PROVE  /\ ModuleFor(m) \in Modules \cup {Nothing}
           /\ CategoryFor(g) \in Categories \cup Items \cup {Nothing}
           /\ m # Nothing => ModuleFor(m) = m
           /\ g # Nothing => CategoryFor(g) = g
           /\ ModuleFor(Nothing) =
                IF selected.module # Nothing THEN selected.module ELSE gds.module
           /\ CategoryFor(Nothing) =
                IF selected.category # Nothing THEN selected.category ELSE gds.category
BY DEF ModuleFor, CategoryFor, Else, Displays, Selections

(* What a read or a clear does.                                            *)
LEMMA ReadsShape ==
    ASSUME WindowAssumption, gds \in Displays, selected \in Selections, faults \in Nat,
           NEW c, NEW m \in Modules \cup {Nothing},
           NEW g \in Categories \cup Items \cup {Nothing}, ReadsAs(c, m, g)
    PROVE  /\ gds' \in Displays /\ selected' \in Selections /\ faults' \in Nat
           /\ navs' = navs /\ engine' = engine /\ news' = news
           /\ \/ /\ gds.page = "data" /\ gds' = gds /\ selected' = selected
                 /\ CallAnswered(c, "ok")
              \/ /\ gds.page # "data"
                 /\ ModuleFor(m) # Nothing /\ CategoryFor(g) \in Categories
                 /\ gds' = [page |-> "data", module |-> ModuleFor(m),
                            category |-> CategoryFor(g)]
                 /\ selected' = [selected EXCEPT !.module = ModuleFor(m),
                                                 !.category = CategoryFor(g)]
                 /\ CallAnswered(c, "ok")
              \/ /\ gds.page # "data"
                 /\ gds' = gds \/ (gds'.module = Nothing /\ gds'.page # "data")
                 /\ selected' = selected /\ CallAnswered(c, "fail")
<1>1. navs' = navs /\ engine' = engine /\ news' = news
  BY DEF ReadsAs
<1>2. /\ ModuleFor(m) \in Modules \cup {Nothing}
      /\ CategoryFor(g) \in Categories \cup Items \cup {Nothing}
  BY ForIs
<1>3. CASE gds.page = "data"
  BY <1>1, <1>3 DEF ReadsAs
<1>4. CASE /\ gds.page # "data" /\ ModuleFor(m) # Nothing /\ CategoryFor(g) \in Categories
           /\ Shows("data", ModuleFor(m), CategoryFor(g))
           /\ selected' = [selected EXCEPT !.module = ModuleFor(m),
                                           !.category = CategoryFor(g)]
           /\ CallAnswered(c, "ok") /\ UNCHANGED faults
  BY <1>1, <1>2, <1>4 DEF Shows, Displays, Selections, Pages
<1>5. CASE /\ gds.page # "data"
           /\ GoesAstray /\ CallAnswered(c, "fail") /\ UNCHANGED <<selected, faults>>
  BY <1>1, <1>5, StrayShape
<1> QED
  BY <1>3, <1>4, <1>5 DEF ReadsAs

(* What the server does with each request.                                 *)
Astray == gds' = gds \/ (gds'.module = Nothing /\ gds'.page # "data")
StartsOver(c, s) ==
    \/ /\ gds'.module = Nothing /\ gds'.page # "data" /\ selected' = Resets(s)
       /\ CallAnswered(c, "modules") \/ CallAnswered(c, "devices")
    \/ selected' = s /\ Astray /\ CallAnswered(c, "fail")

Refuses(c) == CallAnswered(c, "fail") /\ gds' = gds /\ selected' = selected /\ navs' = navs

LEMMA FailsShape ==
    ASSUME Formed, NEW c, CallFails(c)
    PROVE  Refuses(c) /\ ShapeServer' /\ faults' \in Nat
<1>1. UNCHANGED <<gds, selected, navs, engine, news, faults>> /\ CallAnswered(c, "fail")
  BY DEF CallFails, server
<1> QED
  BY <1>1 DEF Formed, ShapeServer, ShapeBounds, Refuses

LEMMA NewsGrows ==
    ASSUME NEW q \in Seq(Tidings), NEW i \in 0..MaxClicks
    PROVE  /\ Append(q, [ev |-> "required", id |-> i]) \in Seq(Tidings)
           /\ Append(q, [ev |-> "resolved", id |-> i]) \in Seq(Tidings)
<1>1. [ev |-> "required", id |-> i] \in Tidings /\ [ev |-> "resolved", id |-> i] \in Tidings
  BY DEF Tidings
<1>2. \A e \in Tidings : Append(q, e) \in Seq(Tidings)
  OBVIOUS
<1> QED
  BY <1>1, <1>2

LEMMA ServeStartShape ==
    ASSUME WindowAssumption, Formed, NEW c \in calls, ServeStart(c)
    PROVE  /\ ShapeServer' /\ faults' \in Nat /\ navs' = navs
           /\ \/ Refuses(c)
              \/ selected.gate = 0 /\ StartsOver(c, selected)
              \/ selected.gate = 0 /\ CallAnswered(c, "selection") /\ gds' = gds
                 /\ selected' = selected
              \/ selected.gate = 0 /\ CallAnswered(c, "gate") /\ gds' = gds
                 /\ selected' = [selected EXCEPT !.gate = c.n]
<1>0. /\ gds \in Displays /\ selected \in Selections /\ faults \in Nat
      /\ navs \in [Numbers -> Journeys] /\ \A n \in Numbers : Progress(navs[n])
      /\ engine \in [run: 0..MaxClicks, ended: [Numbers -> Endings]]
      /\ news \in Seq(Tidings) /\ c.n \in 0..MaxClicks
  BY DEF Formed, ShapeServer, ShapeBounds, ShapeCalls, Calls
<1>1. CASE CallFails(c)
  BY <1>1, FailsShape DEF Refuses
<1>2. CASE selected.gate = 0 /\ Starts(c, selected) /\ UNCHANGED news
  <2>1. /\ gds' \in Displays /\ selected' \in Selections /\ faults' \in Nat
        /\ navs' = navs /\ engine' = engine /\ StartsOver(c, selected)
    BY <1>0, <1>2, StartsShape, Zenon DEF StartsOver, Astray
  <2>2. ShapeServer'
    BY <1>0, <1>2, <2>1 DEF ShapeServer
  <2> QED
    BY <1>2, <2>1, <2>2
<1>3. CASE selected.gate = 0 /\ CallAnswered(c, "selection") /\ UNCHANGED <<server, faults>>
  <2>1. UNCHANGED <<gds, selected, navs, engine, news, faults>>
    BY <1>3 DEF server
  <2> QED
    BY <1>0, <1>3, <2>1 DEF ShapeServer
<1>4. CASE selected.gate = 0 /\ RaisesGate(c)
  <2>1. /\ selected' = [selected EXCEPT !.gate = c.n] /\ CallAnswered(c, "gate")
        /\ news' = Append(news, [ev |-> "required", id |-> c.n])
        /\ UNCHANGED <<gds, navs, engine, faults>>
    BY <1>4 DEF RaisesGate
  <2>2. news' \in Seq(Tidings)
    BY <1>0, <2>1, NewsGrows
  <2>3. selected' \in Selections
    BY <1>0, <2>1 DEF Selections
  <2>4. ShapeServer'
    BY <1>0, <2>1, <2>2, <2>3 DEF ShapeServer
  <2> QED
    BY <1>0, <1>4, <2>1, <2>4
<1> QED
  BY <1>1, <1>2, <1>3, <1>4, Zenon DEF ServeStart

LEMMA ServeConnectShape ==
    ASSUME WindowAssumption, Formed, NEW c \in calls, ServeConnect(c)
    PROVE  /\ ShapeServer' /\ faults' \in Nat /\ navs' = navs /\ selected' = selected
           /\ \/ gds'.module = Nothing /\ gds'.page # "data" /\ CallAnswered(c, "modules")
              \/ Astray /\ CallAnswered(c, "fail")
<1>0. /\ gds \in Displays /\ faults \in Nat
      /\ UNCHANGED <<selected, navs, engine, news>>
  BY DEF Formed, ShapeServer, ShapeBounds, ServeConnect
<1>1. CASE Shows("list", Nothing, Nothing) /\ CallAnswered(c, "modules") /\ UNCHANGED faults
  <2>1. gds' \in Displays /\ gds'.module = Nothing /\ gds'.page # "data" /\ faults' \in Nat
    BY <1>0, <1>1 DEF Shows, Displays, Pages
  <2>2. ShapeServer'
    BY <1>0, <2>1 DEF Formed, ShapeServer
  <2> QED
    BY <1>0, <1>1, <2>1, <2>2
<1>2. CASE Fault /\ GoesAstray /\ CallAnswered(c, "fail")
  <2>1. gds' \in Displays /\ Astray /\ faults' \in Nat
    BY <1>0, <1>2, StrayShape, FaultShape DEF Astray
  <2>2. ShapeServer'
    BY <1>0, <2>1 DEF Formed, ShapeServer
  <2> QED
    BY <1>0, <1>2, <2>1, <2>2
<1> QED
  BY <1>1, <1>2 DEF ServeConnect, ConnectsDevice

LEMMA ServeDecideShape ==
    ASSUME WindowAssumption, Formed, NEW c \in calls, ServeDecide(c)
    PROVE  /\ ShapeServer' /\ faults' \in Nat /\ navs' = navs
           /\ \/ Refuses(c)
              \/ selected.gate # 0 /\ StartsOver(c, [selected EXCEPT !.gate = 0])
              \/ selected.gate # 0 /\ CallAnswered(c, "cancelled") /\ gds' = gds
                 /\ selected' = [selected EXCEPT !.gate = 0]
<1>0. /\ gds \in Displays /\ selected \in Selections /\ faults \in Nat
      /\ navs \in [Numbers -> Journeys] /\ \A n \in Numbers : Progress(navs[n])
      /\ engine \in [run: 0..MaxClicks, ended: [Numbers -> Endings]]
      /\ news \in Seq(Tidings) /\ c.q \in 0..MaxClicks
  BY DEF Formed, ShapeServer, ShapeBounds, ShapeCalls, Calls
<1> DEFINE s == [selected EXCEPT !.gate = 0]
<1>s. s \in Selections
  BY <1>0, Zero DEF Selections
<1>1. CASE CallFails(c)
  BY <1>1, FailsShape DEF Refuses
<1>2. CASE /\ selected.gate # 0
           /\ news' = Append(news, [ev |-> "resolved", id |-> c.q])
           /\ CancelsStart(c) \/ Starts(c, s)
  <2>1. news' \in Seq(Tidings)
    BY <1>0, <1>2, NewsGrows
  <2>2. CASE CancelsStart(c)
    <3>1. /\ selected' = s /\ CallAnswered(c, "cancelled")
          /\ UNCHANGED <<gds, navs, engine, faults>>
      BY <2>2 DEF CancelsStart
    <3>2. ShapeServer'
      BY <1>0, <1>s, <2>1, <3>1 DEF ShapeServer
    <3> QED
      BY <1>0, <1>2, <3>1, <3>2
  <2>3. CASE Starts(c, s)
    <3> HIDE DEF s
    <3>1. /\ gds' \in Displays /\ selected' \in Selections /\ faults' \in Nat
          /\ navs' = navs /\ engine' = engine /\ StartsOver(c, s)
      BY <1>0, <1>s, <2>3, StartsShape, Zenon DEF StartsOver, Astray
    <3>2. ShapeServer'
      BY <1>0, <2>1, <3>1 DEF ShapeServer
    <3> QED
      BY <1>2, <3>1, <3>2 DEF s
  <2> QED
    BY <1>2, <2>2, <2>3
<1> QED
  BY <1>1, <1>2, Zenon DEF ServeDecide

LEMMA ServeNavigateShape ==
    ASSUME WindowAssumption, Formed, Numbered, NEW c \in calls, ServeNavigate(c),
           c.op = "navigate", Undone(c)
    PROVE  /\ ShapeServer' /\ faults' \in Nat /\ c.n \in Numbers /\ navs[c.n].at = "none"
           /\ \/ Refuses(c)
              \/ /\ selected.gate = 0 /\ selected.nav = 0 /\ CallAnswered(c, "ok") /\ gds' = gds
                 /\ navs' = [navs EXCEPT ![c.n].at = "driving"]
                 /\ selected' = [selected EXCEPT !.nav = c.n]
<1>0. /\ gds \in Displays /\ selected \in Selections /\ faults \in Nat
      /\ navs \in [Numbers -> Journeys] /\ \A n \in Numbers : Progress(navs[n])
      /\ engine \in [run: 0..MaxClicks, ended: [Numbers -> Endings]]
      /\ news \in Seq(Tidings) /\ c.n \in 0..MaxClicks
  BY DEF Formed, ShapeServer, ShapeBounds, ShapeCalls, Calls
<1>1. c.n \in Numbers
  <2>1. clicks < c.n /\ clicks \in 0..MaxClicks /\ MaxClicks \in Nat
    BY Zero DEF Numbered, Clicked, Ops, Formed, ShapeBounds
  <2> QED
    BY <1>0, <2>1 DEF Numbers
<1>2. navs[c.n].at = "none"
  BY DEF Numbered
<1>3. CASE CallFails(c)
  BY <1>1, <1>2, <1>3, FailsShape
<1>4. CASE /\ selected.gate = 0 /\ selected.nav = 0
           /\ selected' = [selected EXCEPT !.nav = c.n]
           /\ navs' = [navs EXCEPT ![c.n].at = "driving"]
           /\ CallAnswered(c, "ok")
           /\ UNCHANGED <<gds, engine, news, faults>>
  <2>1. selected' \in Selections
    BY <1>0, <1>4 DEF Selections
  <2>2. navs' \in [Numbers -> Journeys]
    <3>0. navs[c.n] \in Journeys
      BY <1>0, <1>1
    <3>1. [navs[c.n] EXCEPT !.at = "driving"] \in Journeys
      BY <3>0 DEF Journeys
    <3> QED
      BY <1>0, <1>1, <1>4, <3>1
  <2>3. \A n \in Numbers : Progress(navs'[n])
    <3>1. Progress([navs[c.n] EXCEPT !.at = "driving"])
      <4>1. navs[c.n] \in Journeys /\ Progress(navs[c.n])
        BY <1>0, <1>1
      <4> QED
        BY <4>1, <1>2 DEF Journeys, Progress
    <3> QED
      BY <1>0, <1>1, <1>4, <3>1
  <2> QED
    BY <1>0, <1>1, <1>2, <1>4, <2>1, <2>2, <2>3 DEF ShapeServer
<1> QED
  BY <1>3, <1>4 DEF ServeNavigate

LEMMA ServeAnswerShape ==
    ASSUME WindowAssumption, Formed, Numbered, NEW c \in calls, ServeAnswer(c),
           c.op = "answer"
    PROVE  /\ ShapeServer' /\ faults' \in Nat /\ selected' = selected /\ gds' = gds
           /\ \/ CallAnswered(c, "fail") /\ navs' = navs
              \/ /\ CallAnswered(c, "ok") /\ c.q \in Numbers /\ navs[c.q].at = "asked"
                 /\ navs' = [navs EXCEPT ![c.q].at = "chosen", ![c.q].item = c.category]
<1>0. /\ gds \in Displays /\ selected \in Selections /\ faults \in Nat
      /\ navs \in [Numbers -> Journeys] /\ \A n \in Numbers : Progress(navs[n])
      /\ engine \in [run: 0..MaxClicks, ended: [Numbers -> Endings]]
      /\ news \in Seq(Tidings) /\ c.q \in 0..MaxClicks /\ c.category \in Items
      /\ MaxClicks \in Nat
  BY Zero DEF Formed, ShapeServer, ShapeBounds, ShapeCalls, Calls, Numbered
<1>1. CASE CallFails(c)
  BY <1>1, FailsShape DEF Refuses
<1>2. CASE /\ selected.nav # 0 /\ selected.nav = c.q /\ navs[c.q].at = "asked"
           /\ navs' = [navs EXCEPT ![c.q].at = "chosen", ![c.q].item = c.category]
           /\ CallAnswered(c, "ok")
           /\ UNCHANGED <<gds, selected, engine, news, faults>>
  <2>1. c.q \in Numbers
    BY <1>0, <1>2 DEF Numbers
  <2> DEFINE j == [navs[c.q] EXCEPT !.at = "chosen", !.item = c.category]
  <2>2. navs[c.q] \in Journeys /\ Progress(navs[c.q])
    BY <1>0, <2>1
  <2>3. j \in Journeys /\ Progress(j)
    BY <1>0, <1>2, <2>2 DEF Journeys, Progress
  <2>4. navs' = [navs EXCEPT ![c.q] = j]
    BY <1>0, <1>2, <2>1 DEF Journeys
  <2> HIDE DEF j
  <2>5. navs' \in [Numbers -> Journeys] /\ \A n \in Numbers : Progress(navs'[n])
    BY <1>0, <2>1, <2>3, <2>4
  <2> QED
    BY <1>0, <1>2, <2>1, <2>5 DEF ShapeServer
<1> QED
  BY <1>1, <1>2 DEF ServeAnswer

LEMMA ServeModuleShape ==
    ASSUME WindowAssumption, Formed, NEW c \in calls, ServeModule(c)
    PROVE  /\ ShapeServer' /\ faults' \in Nat /\ navs' = navs
           /\ \/ Refuses(c)
              \/ selected' = selected /\ Astray /\ CallAnswered(c, "fail")
              \/ /\ gds' = [page |-> "other", module |-> c.module, category |-> Nothing]
                 /\ selected' = [selected EXCEPT !.module = c.module, !.category = Nothing]
                 /\ CallAnswered(c, "ok")
<1>0. /\ gds \in Displays /\ selected \in Selections /\ faults \in Nat
      /\ c.module \in Modules \cup {Nothing}
  BY DEF Formed, ShapeServer, ShapeBounds, ShapeCalls, Calls
<1>1. CASE CallFails(c)
  BY <1>1, FailsShape DEF Refuses
<1>2. CASE /\ UNCHANGED <<navs, engine, news>>
           /\ SelectModule(c.module) /\ CallAnswered(c, "ok") /\ UNCHANGED faults
  <2>1. /\ gds' = [page |-> "other", module |-> c.module, category |-> Nothing]
        /\ selected' = [selected EXCEPT !.module = c.module, !.category = Nothing]
    BY <1>2 DEF SelectModule, ReachesModule, Shows
  <2>2. gds' \in Displays /\ selected' \in Selections
    BY <1>0, <2>1 DEF Displays, Selections, Pages
  <2>3. ShapeServer'
    BY <1>2, <2>2 DEF Formed, ShapeServer
  <2> QED
    BY <1>0, <1>2, <2>1, <2>3
<1>3. CASE /\ UNCHANGED <<navs, engine, news>>
           /\ Fault /\ GoesAstray /\ CallAnswered(c, "fail") /\ UNCHANGED selected
  <2>1. gds' \in Displays /\ Astray /\ faults' \in Nat
    BY <1>0, <1>3, StrayShape, FaultShape DEF Astray
  <2>2. ShapeServer'
    BY <1>3, <2>1 DEF Formed, ShapeServer
  <2> QED
    BY <1>3, <2>1, <2>2
<1> QED
  BY <1>1, <1>2, <1>3 DEF ServeModule

LEMMA ServeCategoryShape ==
    ASSUME WindowAssumption, Formed, NEW c \in calls, ServeCategory(c)
    PROVE  /\ ShapeServer' /\ faults' \in Nat /\ navs' = navs
           /\ \/ Refuses(c)
              \/ selected' = selected /\ Astray /\ CallAnswered(c, "fail")
              \/ /\ gds.module # Nothing
                 /\ gds' = [page |-> "data", module |-> gds.module, category |-> c.category]
                 /\ selected' = [selected EXCEPT !.category = c.category]
                 /\ CallAnswered(c, "ok")
<1>0. /\ gds \in Displays /\ selected \in Selections /\ faults \in Nat
      /\ c.category \in Categories \cup Items \cup {Nothing}
  BY DEF Formed, ShapeServer, ShapeBounds, ShapeCalls, Calls
<1>1. CASE CallFails(c)
  BY <1>1, FailsShape DEF Refuses
<1>2. CASE /\ UNCHANGED <<navs, engine, news>> /\ gds.module # Nothing
           /\ SelectDataCategory(c.category) /\ CallAnswered(c, "ok") /\ UNCHANGED faults
  <2>1. /\ gds' = [page |-> "data", module |-> gds.module, category |-> c.category]
        /\ selected' = [selected EXCEPT !.category = c.category]
    BY <1>2 DEF SelectDataCategory, ReachesCategory, Shows
  <2>2. gds' \in Displays /\ selected' \in Selections
    BY <1>0, <2>1 DEF Displays, Selections, Pages
  <2>3. ShapeServer'
    BY <1>2, <2>2 DEF Formed, ShapeServer
  <2> QED
    BY <1>0, <1>2, <2>1, <2>3
<1>3. CASE /\ UNCHANGED <<navs, engine, news>>
           /\ Fault /\ GoesAstray /\ CallAnswered(c, "fail") /\ UNCHANGED selected
  <2>1. gds' \in Displays /\ Astray /\ faults' \in Nat
    BY <1>0, <1>3, StrayShape, FaultShape DEF Astray
  <2>2. ShapeServer'
    BY <1>3, <2>1 DEF Formed, ShapeServer
  <2> QED
    BY <1>3, <2>1, <2>2
<1> QED
  BY <1>1, <1>2, <1>3 DEF ServeCategory

LEMMA ServeAiShape ==
    ASSUME WindowAssumption, Formed, NEW c \in calls, ServeAi(c)
    PROVE  /\ ShapeServer' /\ faults' \in Nat /\ navs' = navs /\ gds' = gds
           /\ \/ Refuses(c)
              \/ /\ c.op = "ai" => gds.page = "data"
                 /\ selected' = [selected EXCEPT !.ai = c.n, !.module = ModuleFor(c.module),
                                                 !.category = CategoryFor(c.category)]
                 /\ CallAnswered(c, "ok")
<1>0. /\ gds \in Displays /\ selected \in Selections /\ faults \in Nat
      /\ c.category \in Categories \cup Items \cup {Nothing}
      /\ c.module \in Modules \cup {Nothing} /\ c.n \in 0..MaxClicks
      /\ engine \in [run: 0..MaxClicks, ended: [Numbers -> Endings]]
  BY DEF Formed, ShapeServer, ShapeBounds, ShapeCalls, Calls
<1>1. CASE CallFails(c)
  BY <1>1, FailsShape DEF Refuses
<1>2. CASE /\ c.op = "ai" => gds.page = "data"
           /\ engine' = [engine EXCEPT !.run = c.n]
           /\ selected' = [selected EXCEPT !.ai = c.n, !.module = ModuleFor(c.module),
                                           !.category = CategoryFor(c.category)]
           /\ CallAnswered(c, "ok")
           /\ UNCHANGED <<gds, navs, news, faults>>
  <2>1. /\ ModuleFor(c.module) \in Modules \cup {Nothing}
        /\ CategoryFor(c.category) \in Categories \cup Items \cup {Nothing}
    BY <1>0, ForIs
  <2>2. selected' \in Selections
    BY <1>0, <1>2, <2>1 DEF Selections
  <2>3. engine' \in [run: 0..MaxClicks, ended: [Numbers -> Endings]]
    BY <1>0, <1>2
  <2>4. ShapeServer'
    BY <1>2, <2>2, <2>3 DEF Formed, ShapeServer
  <2> QED
    BY <1>0, <1>2, <2>4
<1>3. CASE Fault /\ CallAnswered(c, "fail") /\ UNCHANGED server
  <2>1. UNCHANGED <<gds, selected, navs, engine, news>> /\ faults' \in Nat
    BY <1>0, <1>3, FaultShape DEF server
  <2>2. ShapeServer'
    BY <2>1 DEF Formed, ShapeServer
  <2> QED
    BY <1>3, <2>1, <2>2 DEF Refuses
<1> QED
  BY <1>1, <1>2, <1>3, Zenon DEF ServeAi

LEMMA ReadOrClearShape ==
    ASSUME WindowAssumption, Formed, NEW c \in calls, NEW m \in Modules \cup {Nothing},
           NEW g \in Categories \cup Items \cup {Nothing}, ReadsAs(c, m, g)
    PROVE  ShapeServer' /\ faults' \in Nat
<1>1. gds \in Displays /\ selected \in Selections /\ faults \in Nat
  BY DEF Formed, ShapeServer, ShapeBounds
<1>2. /\ gds' \in Displays /\ selected' \in Selections /\ faults' \in Nat
      /\ navs' = navs /\ engine' = engine /\ news' = news
  BY <1>1, ReadsShape, Zenon
<1> QED
  BY <1>2 DEF Formed, ShapeServer

LEMMA ServeShape ==
    ASSUME WindowAssumption, Formed, Numbered, NEW c \in calls, Serve(c)
    PROVE  ShapeServer' /\ faults' \in Nat /\ UNCHANGED <<win, wire, clicks, may, hurried>>
<1>1. /\ c \in Calls /\ c.module \in Modules \cup {Nothing}
      /\ c.category \in Categories \cup Items \cup {Nothing}
  BY DEF Formed, ShapeCalls, Calls
<1>2. Undone(c) /\ c.op # "status" /\ UNCHANGED <<win, wire, clicks, may, hurried>>
  BY <1>1, ServerOf DEF Numbered, Undone
<1>3. CASE c.op = "start"
  BY <1>1, <1>2, <1>3, ServerOf, ServeStartShape
<1>4. CASE c.op = "connect"
  BY <1>1, <1>2, <1>4, ServerOf, ServeConnectShape
<1>5. CASE c.op = "decide"
  BY <1>1, <1>2, <1>5, ServerOf, ServeDecideShape
<1>6. CASE c.op = "navigate"
  BY <1>1, <1>2, <1>6, ServerOf, ServeNavigateShape
<1>7. CASE c.op = "answer"
  BY <1>1, <1>2, <1>7, ServerOf, ServeAnswerShape
<1>8. CASE c.op = "module"
  BY <1>1, <1>2, <1>8, ServerOf, ServeModuleShape
<1>9. CASE c.op = "category"
  BY <1>1, <1>2, <1>9, ServerOf, ServeCategoryShape
<1>10. CASE c.op \in {"ai", "retry"}
  BY <1>1, <1>2, <1>10, ServerOf, ServeAiShape
<1>11. CASE c.op = "read"
  <2>1. ReadsAs(c, c.module, IF c.module = Nothing THEN Nothing ELSE c.category)
    BY <1>1, <1>11, ServerOf DEF ServeRead
  <2> QED
    BY <1>1, <1>2, <2>1, ReadOrClearShape
<1>12. CASE c.op = "clear"
  <2>1. ReadsAs(c, Nothing, Nothing) \/ CallFails(c)
    BY <1>1, <1>12, ServerOf DEF ServeClear
  <2> QED
    BY <1>2, <2>1, ReadOrClearShape, FailsShape
<1>13. c.op \in Ops
  BY <1>1 DEF Calls
<1> QED
  BY <1>2, <1>3, <1>4, <1>5, <1>6, <1>7, <1>8, <1>9, <1>10, <1>11, <1>12, <1>13 DEF Ops

(* What goes on at the server meanwhile.                                   *)
Event(ev, n, item) == [ev |-> ev, n |-> n, item |-> item]
Emitted(n, at, e) ==
    navs' = [navs EXCEPT ![n] = [at |-> at, item |-> navs[n].item,
                                 events |-> Append(navs[n].events, e)]]

LEMMA EmitsIs ==
    ASSUME Formed, NEW n \in Numbers, NEW at \in {"asked", "ended"}, NEW ev, NEW item,
           Event(ev, n, item) \in Happenings, Emits(n, at, ev, item)
    PROVE  Emitted(n, at, Event(ev, n, item))
<1> DEFINE e == Event(ev, n, item)
           f == [navs EXCEPT ![n].at = at]
           q == Append(navs[n].events, e)
<1>1. navs \in [Numbers -> Journeys] /\ e \in Happenings
  BY DEF Formed, ShapeServer
<1>2. navs[n] \in Journeys
  BY <1>1
<1>3. navs' = [navs EXCEPT ![n].at = at, ![n].events = Append(@, e)]
  BY Zenon DEF Emits, Event
<1> HIDE DEF e
<1>4. navs' = [f EXCEPT ![n].events = Append(@, e)]
  BY <1>3, Zenon
<1>5. /\ f[n].events = navs[n].events /\ f[n].item = navs[n].item /\ f[n].at = at
      /\ f[n] \in Journeys /\ f = [navs EXCEPT ![n] = f[n]]
  BY <1>1, <1>2 DEF Journeys
<1> HIDE DEF f
<1>6. navs' = [f EXCEPT ![n] = [f[n] EXCEPT !.events = Append(f[n].events, e)]]
  BY <1>4, Zenon
<1>7. q \in Seq(Happenings)
  BY <1>1, <1>2 DEF Journeys
<1>8. navs' = [f EXCEPT ![n] = [f[n] EXCEPT !.events = q]]
  BY <1>5, <1>6
<1> HIDE DEF q
<1>9. [f[n] EXCEPT !.events = q] = [at |-> at, item |-> navs[n].item, events |-> q]
  BY <1>5, <1>7 DEF Journeys
<1>10. navs' = [navs EXCEPT ![n] = [at |-> at, item |-> navs[n].item, events |-> q]]
  BY <1>1, <1>5, <1>8, <1>9
<1> QED
  BY <1>10 DEF Emitted, q, e

(* A navigation asks, or ends: on the item it chose, or with an error.     *)
DrivesOn(n) ==
    \E e \in Happenings :
       /\ e.n = n
       /\ \/ /\ e.ev = "ask" /\ navs[n].at = "driving" /\ Emitted(n, "asked", e)
             /\ gds' = [page |-> "other", module |-> Nothing, category |-> Nothing]
          \/ /\ e.ev = "done" /\ navs[n].at = "chosen" /\ Emitted(n, "ended", e)
             /\ gds' = [page |-> "data", module |-> Nothing, category |-> e.item]
          \/ /\ e.ev = "error" /\ navs[n].at \in {"driving", "chosen"} /\ Emitted(n, "ended", e)
             /\ Astray

LEMMA DrivesIs ==
    ASSUME WindowAssumption, Formed, NEW n \in Numbers, Drives(n)
    PROVE  /\ DrivesOn(n) /\ gds' \in Displays /\ faults' \in Nat
           /\ UNCHANGED <<win, calls, selected, engine, news, wire, clicks, may, hurried>>
<1>0. /\ UNCHANGED <<win, calls, selected, engine, news, wire, clicks, may, hurried>>
      /\ gds \in Displays /\ faults \in Nat
  BY DEF Drives, Formed, ShapeServer, ShapeBounds
<1>n. navs \in [Numbers -> Journeys] /\ Progress(navs[n])
  BY DEF Formed, ShapeServer
<1>j. navs[n] \in Journeys
  BY <1>n
<1>1. ASSUME NEW item \in Items, navs[n].at = "driving",
             Shows("other", Nothing, Nothing), UNCHANGED faults,
             Emits(n, "asked", "ask", item)
      PROVE  DrivesOn(n) /\ gds' \in Displays /\ faults' \in Nat
  <2> DEFINE e == Event("ask", n, item)
  <2>1. e \in Happenings /\ e.n = n /\ e.ev = "ask"
    BY DEF Event, Happenings
  <2>2. Emitted(n, "asked", e)
    BY <1>1, <2>1, EmitsIs
  <2>3. /\ gds' = [page |-> "other", module |-> Nothing, category |-> Nothing]
        /\ gds' \in Displays
    BY <1>1 DEF Shows, Displays, Pages
  <2> HIDE DEF e
  <2> QED
    BY <1>0, <1>1, <2>1, <2>2, <2>3 DEF DrivesOn
<1>2. ASSUME navs[n].at = "chosen", Shows("data", Nothing, navs[n].item), UNCHANGED faults,
             Emits(n, "ended", "done", navs[n].item)
      PROVE  DrivesOn(n) /\ gds' \in Displays /\ faults' \in Nat
  <2> DEFINE e == Event("done", n, navs[n].item)
  <2>0. navs[n].item \in Items
    BY <1>2, <1>n DEF Progress
  <2>1. e \in Happenings /\ e.n = n /\ e.ev = "done" /\ e.item = navs[n].item
    BY <2>0 DEF Event, Happenings
  <2>2. Emitted(n, "ended", e)
    BY <1>2, <2>1, EmitsIs
  <2>3. /\ gds' = [page |-> "data", module |-> Nothing, category |-> navs[n].item]
        /\ gds' \in Displays
    BY <1>2, <2>0 DEF Shows, Displays, Pages
  <2> HIDE DEF e
  <2> QED
    BY <1>0, <1>2, <2>1, <2>2, <2>3 DEF DrivesOn
<1>3. ASSUME navs[n].at \in {"driving", "chosen"}, Fault, GoesAstray,
             Emits(n, "ended", "error", Nothing)
      PROVE  DrivesOn(n) /\ gds' \in Displays /\ faults' \in Nat
  <2> DEFINE e == Event("error", n, Nothing)
  <2>1. e \in Happenings /\ e.n = n /\ e.ev = "error"
    BY DEF Event, Happenings
  <2>2. Emitted(n, "ended", e)
    BY <1>3, <2>1, EmitsIs
  <2>3. gds' \in Displays /\ Astray /\ faults' \in Nat
    BY <1>0, <1>3, StrayShape, FaultShape DEF Astray
  <2> HIDE DEF e
  <2> QED
    BY <1>3, <2>1, <2>2, <2>3 DEF DrivesOn
<1> QED
  BY <1>0, <1>1, <1>2, <1>3, Zenon DEF Drives

LEMMA EmittedShape ==
    ASSUME Formed, NEW n \in Numbers, NEW e \in Happenings,
           NEW at \in {"asked", "ended"}, Emitted(n, at, e),
           \/ e.ev = "ask" /\ at = "asked" /\ navs[n].at = "driving"
           \/ e.ev \in {"done", "error"} /\ at = "ended" /\ navs[n].at \in {"driving", "chosen"}
    PROVE  navs' \in [Numbers -> Journeys] /\ \A m \in Numbers : Progress(navs'[m])
<1>1. navs \in [Numbers -> Journeys] /\ \A m \in Numbers : Progress(navs[m])
  BY DEF Formed, ShapeServer
<1>2. navs[n] \in Journeys /\ Progress(navs[n])
  BY <1>1
<1> DEFINE q == navs[n].events
           j == [at |-> at, item |-> navs[n].item, events |-> Append(q, e)]
<1>3. q \in Seq(Happenings) /\ navs[n].item \in Items \cup {Nothing}
  BY <1>2 DEF Journeys
<1>4. Append(q, e) \in Seq(Happenings) /\ Len(Append(q, e)) = Len(q) + 1 /\ Len(q) \in Nat
      /\ (\A i \in 1..Len(q) : Append(q, e)[i] = q[i]) /\ Append(q, e)[Len(q) + 1] = e
  BY <1>3
<1>5. (navs[n].at = "driving" => Len(q) = 0) /\ Len(q) <= 1
      /\ \A i \in 1..Len(q) : q[i].ev # "done"
  BY <1>2, <1>3 DEF Progress
<1>6. j \in Journeys
  BY <1>3, <1>4 DEF Journeys
<1>7. Progress(j)
  BY <1>4, <1>5 DEF Progress
<1>8. navs' = [navs EXCEPT ![n] = j]
  BY DEF Emitted
<1> HIDE DEF j
<1> QED
  BY <1>1, <1>6, <1>7, <1>8

LEMMA DrivesShape ==
    ASSUME WindowAssumption, Formed, NEW n \in Numbers, Drives(n)
    PROVE  ShapeServer' /\ ShapeBounds'
<1>1. /\ DrivesOn(n) /\ gds' \in Displays /\ faults' \in Nat
      /\ UNCHANGED <<win, calls, selected, engine, news, wire, clicks, may, hurried>>
  BY DrivesIs
<1>2. navs' \in [Numbers -> Journeys] /\ \A m \in Numbers : Progress(navs'[m])
  BY <1>1, EmittedShape DEF DrivesOn
<1> QED
  BY <1>1, <1>2 DEF Formed, ShapeServer, ShapeBounds

(* A reader takes the first event of the navigation it follows.            *)
ReadOn(n, e) ==
    /\ navs[n].events # <<>> /\ e = Head(navs[n].events)
    /\ wire' = Append(wire, e)
    /\ navs' = [navs EXCEPT ![n] = [at |-> navs[n].at, item |-> navs[n].item,
                                    events |-> Tail(navs[n].events)]]
    /\ e.ev = "done" => selected' = [selected EXCEPT !.nav = 0, !.category = e.item]
    /\ e.ev = "error" => selected' = [selected EXCEPT !.nav = 0]
    /\ e.ev = "ask" => selected' = selected
    /\ UNCHANGED <<calls, gds, engine, news, clicks, faults, may, hurried>>

LEMMA ReadNavigationIs ==
    ASSUME WindowAssumption, Formed, ReadNavigation
    PROVE  \E n \in Numbers, e \in Happenings :
              /\ ReadOn(n, e) /\ n = win.following
              /\ e.ev = "ask" => win' = win
              /\ e.ev # "ask" => win' = [win EXCEPT !.following = 0]
<1> DEFINE n == win.following
           e == Head(navs[n].events)
<1>1. /\ n # 0 /\ navs[n].events # <<>> /\ wire' = Append(wire, e)
      /\ navs' = [navs EXCEPT ![n].events = Tail(@)]
      /\ selected' = (CASE e.ev = "done" -> [selected EXCEPT !.nav = 0, !.category = e.item]
                        [] e.ev = "error" -> [selected EXCEPT !.nav = 0]
                        [] OTHER -> selected)
      /\ win' = (IF e.ev = "ask" THEN win ELSE [win EXCEPT !.following = 0])
      /\ UNCHANGED <<calls, gds, engine, news, clicks, faults, may, hurried>>
  BY Zenon DEF ReadNavigation
<1>2. n \in Numbers
  BY <1>1, Zero DEF Formed, Windows, Numbers
<1>n. n = win.following
  OBVIOUS
<1> HIDE DEF n
<1>3. e \in Happenings
  BY <1>1, <1>2, HeadOfJourney
<1>4. navs \in [Numbers -> Journeys]
  BY DEF Formed, ShapeServer
<1>5. navs[n] \in Journeys
  BY <1>2, <1>4
<1> DEFINE q == Tail(navs[n].events)
<1>6. q \in Seq(Happenings)
  BY <1>1, <1>5 DEF Journeys
<1>7. navs' = [navs EXCEPT ![n] = [navs[n] EXCEPT !.events = q]]
  BY <1>1, Zenon
<1> HIDE DEF q, e
<1>8. [navs[n] EXCEPT !.events = q] = [at |-> navs[n].at, item |-> navs[n].item, events |-> q]
  BY <1>5, <1>6 DEF Journeys
<1>9. navs' = [navs EXCEPT ![n] = [at |-> navs[n].at, item |-> navs[n].item, events |-> q]]
  BY <1>7, <1>8
<1>10. /\ e.ev = "done" => selected' = [selected EXCEPT !.nav = 0, !.category = e.item]
       /\ e.ev = "error" => selected' = [selected EXCEPT !.nav = 0]
       /\ e.ev = "ask" => selected' = selected
  BY <1>1, <1>3 DEF Happenings
<1>11. e = Head(navs[n].events) /\ q = Tail(navs[n].events)
  BY DEF e, q
<1>12. ReadOn(n, e)
  BY <1>1, <1>9, <1>10, <1>11 DEF ReadOn
<1> QED
  BY <1>1, <1>2, <1>3, <1>12, <1>n

LEMMA ReadNavigationShape ==
    ASSUME WindowAssumption, Formed, NEW n \in Numbers, NEW e \in Happenings, ReadOn(n, e)
    PROVE  ShapeServer' /\ ShapeBounds'
<1>1. /\ navs \in [Numbers -> Journeys] /\ (\A i \in Numbers : Progress(navs[i]))
      /\ wire \in Seq(Happenings) /\ selected \in Selections /\ 0 \in 0..MaxClicks
  BY Zero DEF Formed, ShapeServer, ShapeBounds
<1>2. navs[n] \in Journeys /\ Progress(navs[n])
  BY <1>1
<1> DEFINE q == navs[n].events
           j == [at |-> navs[n].at, item |-> navs[n].item, events |-> Tail(q)]
<1>3. q \in Seq(Happenings) /\ q # <<>>
  BY <1>2 DEF Journeys, ReadOn
<1>4. /\ Tail(q) \in Seq(Happenings) /\ Len(Tail(q)) = Len(q) - 1 /\ Len(q) \in Nat
      /\ \A i \in 1..Len(Tail(q)) : Tail(q)[i] = q[i + 1]
  BY <1>3
<1>5. j \in Journeys
  BY <1>2, <1>4 DEF Journeys
<1>6. Progress(j)
  <2>1. /\ navs[n].at \notin {"none", "driving"} /\ (navs[n].at = "chosen" => navs[n].item \in Items)
        /\ (navs[n].at \in {"asked", "chosen"} =>
               Len(q) <= 1 /\ \A i \in 1..Len(q) : q[i].ev # "done")
        /\ Len(q) <= 2 /\ \A i \in 1..Len(q) : q[i].ev = "done" => i = Len(q)
        /\ navs[n].at = "ended" => \A i \in 1..Len(q) : i = Len(q) => q[i].ev # "ask"
    BY <1>2, <1>3 DEF Progress
  <2>2. \A i \in 1..Len(Tail(q)) : i + 1 \in 1..Len(q) /\ Tail(q)[i].ev = q[i + 1].ev
    BY <1>4
  <2>3. \A i \in 1..Len(Tail(q)) : Tail(q)[i].ev = "done" => i = Len(Tail(q))
    BY <1>4, <2>1, <2>2
  <2>a. navs[n].at = "ended" =>
           \A i \in 1..Len(Tail(q)) : i = Len(Tail(q)) => Tail(q)[i].ev # "ask"
    BY <1>4, <2>1, <2>2
  <2>6. Len(q) <= 2 /\ (navs[n].at \in {"asked", "chosen"} => Len(q) <= 1)
    BY <2>1
  <2>7. Len(Tail(q)) \in Nat
    BY <1>4
  <2> HIDE DEF q
  <2>8. Len(q) \in Nat /\ Len(Tail(q)) = Len(q) - 1
    BY <1>4
  <2> DEFINE k == Len(Tail(q))
             l == Len(q)
  <2>9. k \in Nat /\ l \in Nat /\ k = l - 1
    BY <2>7, <2>8
  <2>10. l <= 2 /\ (navs[n].at \in {"asked", "chosen"} => l <= 1)
    BY <2>6
  <2> HIDE DEF k, l
  <2>11. k <= 1 /\ (navs[n].at \in {"asked", "chosen"} => k = 0)
    BY <2>9, <2>10
  <2>4. Len(Tail(q)) <= 1 /\ (navs[n].at \in {"asked", "chosen"} => Len(Tail(q)) = 0)
    BY <2>11 DEF k
  <2>5. navs[n].at \in {"asked", "chosen"} => \A i \in 1..Len(Tail(q)) : Tail(q)[i].ev # "done"
    BY <2>4
  <2> QED
    BY <1>2, <2>1, <2>3, <2>4, <2>5, <2>a DEF Progress
<1>7. navs' = [navs EXCEPT ![n] = j]
  BY DEF ReadOn
<1> HIDE DEF j
<1>8. navs' \in [Numbers -> Journeys] /\ \A i \in Numbers : Progress(navs'[i])
  BY <1>1, <1>5, <1>6, <1>7
<1>9. wire' \in Seq(Happenings)
  BY <1>1 DEF ReadOn
<1>10. selected' \in Selections
  BY <1>1 DEF ReadOn, Selections, Happenings
<1> QED
  BY <1>8, <1>9, <1>10 DEF Formed, ShapeServer, ShapeBounds, ReadOn

LEMMA RestShape ==
    ASSUME WindowAssumption, Formed,
           EngineEnds \/ GateExpires \/ ReadDiagnosis \/ ReadSession
    PROVE  ShapeServer' /\ ShapeBounds' /\ UNCHANGED <<calls, gds, navs, wire, clicks, may, hurried>>
<1>0. /\ selected \in Selections /\ engine \in [run: 0..MaxClicks, ended: [Numbers -> Endings]]
      /\ news \in Seq(Tidings) /\ 0 \in 0..MaxClicks /\ MaxClicks \in Nat /\ win \in Windows
  BY Zero DEF Formed, ShapeServer
<1>1. CASE EngineEnds
  <2>2. PICK how \in {"over", "retryable"} :
              engine' = [engine EXCEPT !.run = 0, !.ended[engine.run] = how]
    BY <1>1 DEF EngineEnds
  <2>3. how \in Endings
    BY DEF Endings
  <2>1. engine' \in [run: 0..MaxClicks, ended: [Numbers -> Endings]]
    BY <1>0, <2>2, <2>3
  <2> QED
    BY <1>1, <2>1 DEF EngineEnds, Formed, ShapeServer, ShapeBounds
<1>2. CASE GateExpires
  <2>1. selected' = [selected EXCEPT !.gate = 0] /\ selected.gate \in 0..MaxClicks
        /\ news' = Append(news, [ev |-> "resolved", id |-> selected.gate])
    BY <1>0, <1>2 DEF GateExpires, Selections
  <2>2. selected' \in Selections /\ news' \in Seq(Tidings)
    BY <1>0, <2>1, NewsGrows DEF Selections
  <2> QED
    BY <1>2, <2>2 DEF GateExpires, Formed, ShapeServer, ShapeBounds
<1>3. CASE ReadDiagnosis
  <2>1. engine' = [engine EXCEPT !.ended[win.reading] = "no"] /\ win.reading \in Numbers
        /\ selected' = [selected EXCEPT !.ai = 0]
    BY <1>0, <1>3 DEF ReadDiagnosis, Windows, Numbers
  <2>2. engine' \in [run: 0..MaxClicks, ended: [Numbers -> Endings]]
    BY <1>0, <2>1 DEF Endings
  <2>3. selected' \in Selections
    BY <1>0, <2>1 DEF Selections
  <2> QED
    BY <1>3, <2>2, <2>3 DEF ReadDiagnosis, Formed, ShapeServer, ShapeBounds
<1>4. CASE ReadSession
  <2>1. news' \in Seq(Tidings)
    BY <1>0, <1>4 DEF ReadSession
  <2> QED
    BY <1>4, <2>1 DEF ReadSession, Formed, ShapeServer, ShapeBounds
<1> QED
  BY <1>1, <1>2, <1>3, <1>4

-----------------------------------------------------------------------------
(* The calls.                                                              *)

LEMMA CallIs ==
    ASSUME WindowAssumption, NEW op \in Ops, NEW i \in 0..MaxClicks, NEW q \in 0..MaxClicks,
           NEW m \in Modules \cup {Nothing}, NEW g \in Categories \cup Items \cup {Nothing}
    PROVE  /\ Call(op, i, m, g, q) \in Calls
           /\ \A c : c = Call(op, i, m, g, q) =>
                /\ c.op = op /\ c.n = i /\ c.module = m /\ c.category = g /\ c.q = q
                /\ c.at = "sent" /\ c.out = "none"
<1>1. NoSnapshot \in Snapshots
  BY Zero DEF NoSnapshot, Snapshots, Pages
<1>2. "none" \in CallOutcomes
  BY DEF CallOutcomes
<1> QED
  BY <1>1, <1>2 DEF Call, Calls

LEMMA AsksIs ==
    ASSUME WindowAssumption, NEW op \in Ops, NEW i \in 0..MaxClicks
    PROVE  /\ PlainCall(op, i) \in Calls
           /\ \A c : c = PlainCall(op, i) =>
                /\ c.op = op /\ c.n = i /\ c.module = Nothing /\ c.category = Nothing /\ c.q = 0
                /\ c.at = "sent" /\ c.out = "none"
<1>1. PlainCall(op, i) = Call(op, i, Nothing, Nothing, 0)
  BY DEF PlainCall
<1> QED
  BY <1>1, CallIs, Zero

LEMMA StatusIs ==
    ASSUME WindowAssumption, Formed, NEW loaded \in BOOLEAN
    PROVE  /\ [PlainCall("status", 0) EXCEPT !.at = "done", !.status = StatusNow(loaded)] \in Calls
           /\ \A c : c = [PlainCall("status", 0) EXCEPT !.at = "done", !.status = StatusNow(loaded)]
                => c.op = "status" /\ c.at = "done"
<1>1. PlainCall("status", 0) \in Calls /\ PlainCall("status", 0).op = "status"
  BY AsksIs, Zero DEF Ops
<1>2. StatusNow(loaded) \in Snapshots
  <2>1. gds \in Displays /\ selected \in Selections
    BY DEF Formed, ShapeServer
  <2> DEFINE r == loaded /\ gds.category = DtcInfo /\ gds.page = "data"
             a == selected.ai # 0
             v == selected.nav # 0
  <2>2. r \in BOOLEAN /\ a \in BOOLEAN /\ v \in BOOLEAN
    BY Zenon
  <2>3. StatusNow(loaded) = [ai |-> a, nav |-> v, page |-> gds.page, gate |-> selected.gate,
                               ready |-> r]
    BY DEF StatusNow
  <2> HIDE DEF r, a, v
  <2> QED
    BY <2>1, <2>2, <2>3 DEF Snapshots, Displays, Selections
<1> DEFINE s == StatusNow(loaded)
           k == PlainCall("status", 0)
<1> HIDE DEF s, k
<1>3. ASSUME k \in Calls, k.op = "status", s \in Snapshots
      PROVE  /\ [k EXCEPT !.at = "done", !.status = s] \in Calls
             /\ [k EXCEPT !.at = "done", !.status = s].op = "status"
             /\ [k EXCEPT !.at = "done", !.status = s].at = "done"
  BY <1>3 DEF Calls
<1> QED
  BY <1>1, <1>2, <1>3, Zenon DEF s, k

LEMMA CallsGrow ==
    ASSUME ShapeCalls, NEW D, IsFiniteSet(D), D \subseteq Calls, calls' \subseteq calls \cup D
    PROVE  ShapeCalls'
<1>1. IsFiniteSet(calls \cup D)
  BY FS_Union DEF ShapeCalls
<1>2. IsFiniteSet(calls')
  BY <1>1, FS_Subset
<1> QED
  BY <1>2 DEF ShapeCalls

LEMMA CallsGrowByOne ==
    ASSUME ShapeCalls, NEW d \in Calls, calls' \subseteq calls \cup {d}
    PROVE  ShapeCalls'
<1>1. IsFiniteSet({d}) /\ {d} \subseteq Calls
  BY FS_Singleton
<1> QED
  BY <1>1, CallsGrow

(* A poll's answer is a snapshot.                                          *)
LEMMA PollsCalls ==
    ASSUME WindowAssumption, Formed, NEW w, NEW cs \in SUBSET calls, Polls(w, cs)
    PROVE  /\ ShapeCalls' /\ cs \subseteq calls'
           /\ \A d \in calls' : d \in cs \/ (d.op = "status" /\ d.at = "done")
<1>0. ShapeCalls
  BY DEF Formed
<1>1. CASE calls' = cs
  <2>1. IsFiniteSet(calls')
    BY <1>0, <1>1, FS_Subset DEF ShapeCalls
  <2> QED
    BY <1>0, <1>1, <2>1 DEF ShapeCalls
<1>2. ASSUME NEW loaded \in BOOLEAN,
             calls' = cs \cup {[PlainCall("status", 0) EXCEPT !.at = "done",
                                                          !.status = StatusNow(loaded)]}
      PROVE  /\ ShapeCalls' /\ cs \subseteq calls'
             /\ \A d \in calls' : d \in cs \/ (d.op = "status" /\ d.at = "done")
  <2> DEFINE d == [PlainCall("status", 0) EXCEPT !.at = "done", !.status = StatusNow(loaded)]
  <2>1. d \in Calls /\ d.op = "status" /\ d.at = "done"
    BY StatusIs, Zenon
  <2>2. calls' = cs \cup {d}
    BY <1>2
  <2> HIDE DEF d
  <2>3. ShapeCalls'
    BY <1>0, <2>1, <2>2, CallsGrowByOne
  <2> QED
    BY <2>1, <2>2, <2>3
<1> QED
  BY <1>1, <1>2, Zenon DEF Polls

(* An answer takes the place of its call, and one given up the place of    *)
(* both; of a call given up before nothing is left.                        *)
Becomes(c, d) ==
    /\ d.op = c.op /\ d.n = c.n /\ d.module = c.module /\ d.category = c.category /\ d.q = c.q
    /\ d.at # "sent"

Replaces(c, D) ==
    /\ Undone(c) \/ c.op = "status"
    /\ calls' = (calls \ {c}) \cup D
    /\ \A d \in D : Becomes(c, d)
    /\ \A d, e \in D : (Undone(d) <=> Undone(e)) => d = e
    /\ c.op # "status" /\ c.at = "late" => D = {}
    /\ c.op = "status" => \A d \in D : ~Undone(d)

LEMMA AnswerIs ==
    ASSUME NEW c \in Calls, NEW o \in CallOutcomes
    PROVE  /\ [c EXCEPT !.at = "done", !.out = o] \in Calls
           /\ Becomes(c, [c EXCEPT !.at = "done", !.out = o])
           /\ [c EXCEPT !.at = "done", !.out = o].at = "done"
           /\ [c EXCEPT !.at = "done", !.out = o].out = o
BY DEF Calls, Becomes

AnsweredBy(c, o) ==
    \E D \in SUBSET Calls : Replaces(c, D) /\ \A d \in D : d.at = "done" /\ d.out = o

LEMMA AnsweredIs ==
    ASSUME Formed, NEW c \in calls, c.op # "status", Undone(c), NEW o \in Outs, CallAnswered(c, o)
    PROVE  ShapeCalls' /\ AnsweredBy(c, o)
<1>1. c \in Calls /\ ShapeCalls /\ o \in CallOutcomes
  BY DEF Formed, ShapeCalls, Outs, CallOutcomes
<1> DEFINE d == [c EXCEPT !.at = "done", !.out = o]
           D == IF c.at = "late" THEN {} ELSE {d}
<1>2. d \in Calls /\ Becomes(c, d) /\ d.at = "done" /\ d.out = o
  BY <1>1, AnswerIs, Zenon
<1>3. calls' = (calls \ {c}) \cup D
  BY Zenon DEF CallAnswered
<1> HIDE DEF d
<1>4. D \subseteq Calls /\ Replaces(c, D) /\ \A e \in D : e.at = "done" /\ e.out = o
  BY <1>2, <1>3 DEF Replaces, Undone
<1>5. calls' \subseteq calls \cup {d}
  BY <1>3
<1>6. ShapeCalls'
  BY <1>1, <1>2, <1>5, CallsGrowByOne
<1> QED
  BY <1>4, <1>6 DEF AnsweredBy

LEMMA GiveUpIs ==
    ASSUME Formed, NEW c \in calls, GiveUp(c)
    PROVE  /\ ShapeCalls' /\ faults' \in Nat
           /\ UNCHANGED <<win, gds, selected, navs, engine, news, wire, clicks, may, hurried>>
           /\ c.at = "sent" \/ c.op = "status"
           /\ \E D \in SUBSET Calls :
                 Replaces(c, D) /\ \A d \in D : Undone(d) \/ (d.at = "done" /\ d.out = "fail")
<1>1. c \in Calls /\ ShapeCalls /\ "fail" \in CallOutcomes /\ c.out \in CallOutcomes
  BY DEF Formed, ShapeCalls, CallOutcomes, Calls
<1> DEFINE d == [c EXCEPT !.at = "done", !.out = "fail"]
           l == [c EXCEPT !.at = "late"]
           D == {d} \cup {e \in {l} : c.op # "status"}
<1>2. d \in Calls /\ Becomes(c, d) /\ d.at = "done" /\ d.out = "fail"
  BY <1>1, AnswerIs, Zenon
<1>3. l \in Calls /\ Becomes(c, l) /\ l.at = "late"
  BY <1>1 DEF Calls, Becomes
<1>4. /\ calls' = ((calls \ {c}) \cup {d}) \cup {e \in {l} : c.op # "status"}
  BY Zenon DEF GiveUp
<1>0. /\ c.at = "sent" \/ c.op = "status"
      /\ Fault /\ UNCHANGED <<win, server, wire, clicks, may, hurried>>
  BY Zenon DEF GiveUp
<1>5. /\ UNCHANGED <<win, gds, selected, navs, engine, news, wire, clicks, may, hurried>>
      /\ faults' \in Nat
  BY <1>0, FaultShape DEF server, Formed, ShapeBounds
<1> HIDE DEF d, l
<1>9. calls' = (calls \ {c}) \cup D
  BY <1>4
<1>6. D \subseteq Calls /\ Replaces(c, D)
      /\ \A e \in D : Undone(e) \/ (e.at = "done" /\ e.out = "fail")
  BY <1>0, <1>2, <1>3, <1>9 DEF Replaces, Becomes, Undone
<1>7. IsFiniteSet({d, l}) /\ {d, l} \subseteq Calls /\ calls' \subseteq calls \cup {d, l}
  <2>1. {d, l} = {d} \cup {l}
    OBVIOUS
  <2>2. IsFiniteSet({d}) /\ IsFiniteSet({l})
    BY FS_Singleton
  <2>3. IsFiniteSet({d} \cup {l})
    BY <2>2, FS_Union
  <2> QED
    BY <1>2, <1>3, <1>9, <2>1, <2>3
<1>8. ShapeCalls'
  BY <1>1, <1>7, CallsGrow
<1> QED
  BY <1>0, <1>5, <1>6, <1>8

(* A click posts a call of its own.                                        *)
Clicking(c) ==
    /\ c \in Calls /\ c.op \in Clicked /\ c.n = clicks /\ c.at = "sent" /\ c.out # "fail"
    /\ clicks > 0 /\ clicks' = clicks - 1 /\ calls' = calls \cup {c}
    /\ hurried' \in BOOLEAN /\ (~hurried' => ~hurried /\ ~Unsettled)
    /\ UNCHANGED <<gds, selected, navs, engine, news, wire, faults, may>>

LEMMA ClickIs ==
    ASSUME NEW v, NEW c \in Calls, NEW hasty, ClicksAs(v, c, hasty),
           c.op \in Clicked, c.n = clicks, c.at = "sent", c.out # "fail"
    PROVE  Clicking(c) /\ win' = v /\ (~hurried' => ~hasty)
<1>1. /\ clicks > 0 /\ clicks' = clicks - 1 /\ calls' = calls \cup {c} /\ win' = v
      /\ Acts(Unsettled \/ hasty) /\ UNCHANGED <<server, wire, faults>>
  BY Zenon DEF ClicksAs
<1>2. hurried' = (hurried \/ Unsettled \/ hasty) /\ UNCHANGED may
  BY <1>1, Zenon DEF Acts
<1>3. hurried' \in BOOLEAN /\ (~hurried' => ~hurried /\ ~Unsettled /\ ~hasty)
  BY <1>2, Zenon
<1> QED
  BY <1>1, <1>2, <1>3 DEF Clicking, server

LEMMA NumberIs ==
    ASSUME WindowAssumption, Formed
    PROVE  /\ clicks \in 0..MaxClicks /\ 0 \in 0..MaxClicks
           /\ win \in Windows
           /\ win.module \in Modules \cup {Nothing}
           /\ win.category \in Categories \cup Items \cup {Nothing}
           /\ win.prompt.id \in 0..MaxClicks
BY Zero DEF Formed, ShapeBounds, Windows

LEMMA ClickModuleIs ==
    ASSUME WindowAssumption, Formed, ClickModuleDiagnostics
    PROVE  \E c : Clicking(c) /\ c.op = "start"
<1>1. clicks \in 0..MaxClicks /\ "start" \in Ops
  BY NumberIs DEF Ops
<1>2. PICK v : ClicksAs(v, PlainCall("start", clicks), FALSE)
  BY Zenon DEF ClickModuleDiagnostics, Clicks, Number
<1>3. PlainCall("start", clicks) \in Calls
  BY <1>1, AsksIs
<1> DEFINE c == PlainCall("start", clicks)
<1>4. c.op = "start" /\ c.n = clicks /\ c.at = "sent" /\ c.out = "none"
  BY <1>1, AsksIs
<1> HIDE DEF c
<1>5. Clicking(c)
  BY <1>2, <1>3, <1>4, ClickIs DEF Clicked, Ops, c
<1> QED
  BY <1>4, <1>5

LEMMA ClickVehicleIs ==
    ASSUME WindowAssumption, Formed, ClickVehicleDiagnostics
    PROVE  \E c : Clicking(c) /\ c.op = "navigate"
<1>1. clicks \in 0..MaxClicks /\ "navigate" \in Ops
  BY NumberIs DEF Ops
<1>2. PICK v : ClicksAs(v, PlainCall("navigate", clicks), FALSE)
  BY Zenon DEF ClickVehicleDiagnostics, Clicks, Number
<1>3. PlainCall("navigate", clicks) \in Calls
  BY <1>1, AsksIs
<1> DEFINE c == PlainCall("navigate", clicks)
<1>4. c.op = "navigate" /\ c.n = clicks /\ c.at = "sent" /\ c.out = "none"
  BY <1>1, AsksIs
<1> HIDE DEF c
<1>5. Clicking(c)
  BY <1>2, <1>3, <1>4, ClickIs DEF Clicked, Ops, c
<1> QED
  BY <1>4, <1>5

(* A call with a module and a category.                                    *)
LEMMA ClickCallIs ==
    ASSUME WindowAssumption, Formed, NEW v, NEW hasty, NEW op \in Clicked,
           NEW m \in Modules \cup {Nothing}, NEW g \in Categories \cup Items \cup {Nothing},
           ClicksAs(v, Call(op, Number, m, g, 0), hasty)
    PROVE  /\ win' = v /\ (~hurried' => ~hasty)
           /\ \E c : Clicking(c) /\ c.op = op /\ c.module = m /\ c.category = g
<1>1. clicks \in 0..MaxClicks /\ op \in Ops /\ 0 \in 0..MaxClicks
  BY NumberIs DEF Clicked
<1> DEFINE c == Call(op, clicks, m, g, 0)
<1>2. c \in Calls
  BY <1>1, CallIs
<1>3. c.op = op /\ c.n = clicks /\ c.at = "sent" /\ c.out = "none" /\ c.module = m /\ c.category = g
  BY <1>1, CallIs
<1>4. ClicksAs(v, c, hasty)
  BY Zenon DEF Number
<1> HIDE DEF c
<1>5. Clicking(c) /\ win' = v /\ (~hurried' => ~hasty)
  BY <1>2, <1>3, <1>4, ClickIs
<1> QED
  BY <1>3, <1>5

LEMMA SelectModuleIs ==
    ASSUME WindowAssumption, Formed, ClickSelectModule
    PROVE  \E c : Clicking(c) /\ c.op = "module"
<1>1. PICK v, h : ClicksAs(v, Call("module", Number, win.module, Nothing, 0), h)
  BY Zenon DEF ClickSelectModule, Clicks
<1>2. /\ "module" \in Clicked /\ win.module \in Modules \cup {Nothing}
      /\ Nothing \in Categories \cup Items \cup {Nothing}
  BY NumberIs DEF Clicked, Ops
<1> QED
  BY <1>1, <1>2, ClickCallIs

LEMMA SelectsCategoryIs ==
    ASSUME WindowAssumption, Formed, NEW w \in Windows, NEW hasty,
           SelectsCategory(w, hasty)
    PROVE  /\ ~hurried' => ~hasty
           /\ \E c : Clicking(c) /\ c.op = "category" /\ c.category = w.category
<1>1. PICK v : ClicksAs(v, Call("category", Number, Nothing, w.category, 0), hasty)
  BY Zenon DEF SelectsCategory
<1>2. /\ w.category \in Categories \cup Items \cup {Nothing} /\ "category" \in Clicked
      /\ Nothing \in Modules \cup {Nothing}
  BY DEF Windows, Clicked, Ops
<1> QED
  BY <1>1, <1>2, ClickCallIs

(* A diagnosis, a read or a clear.                                         *)
LEMMA AsksAsShown ==
    ASSUME WindowAssumption, Formed,
           ClickAiDiagnose \/ ClickAiRetry \/ ClickReadDtcs \/ ClickClearDtcs
    PROVE  /\ ~hurried' => ~Unsubmitted
           /\ \E c : /\ Clicking(c) /\ c.module = win.module /\ c.category = win.category
                     /\ \/ c.op = "ai" /\ ClickAiDiagnose
                        \/ c.op = "retry" /\ ClickAiRetry
                        \/ c.op = "read" /\ ClickReadDtcs
                        \/ c.op = "clear" /\ ClickClearDtcs
<1>0. win.module \in Modules \cup {Nothing}
      /\ win.category \in Categories \cup Items \cup {Nothing}
  BY NumberIs
<1>1. ASSUME NEW op \in {"ai", "retry", "read", "clear"}, NEW v,
             ClicksAs(v, AskedOf(op), Unsubmitted)
      PROVE  /\ ~hurried' => ~Unsubmitted
             /\ \E c : Clicking(c) /\ c.op = op /\ c.module = win.module /\ c.category = win.category
  <2>1. ClicksAs(v, Call(op, Number, win.module, win.category, 0), Unsubmitted)
    BY <1>1, Zenon DEF AskedOf
  <2>2. op \in Clicked
    BY DEF Clicked, Ops
  <2> QED
    BY <1>0, <2>1, <2>2, ClickCallIs
<1>2. ASSUME ClickAiDiagnose
      PROVE  \E v : ClicksAs(v, AskedOf("ai"), Unsubmitted)
  BY <1>2, Zenon DEF ClickAiDiagnose
<1>3. ASSUME ClickAiRetry
      PROVE  \E v : ClicksAs(v, AskedOf("retry"), Unsubmitted)
  BY <1>3, Zenon DEF ClickAiRetry
<1>4. ASSUME ClickReadDtcs
      PROVE  \E v : ClicksAs(v, AskedOf("read"), Unsubmitted)
  BY <1>4, Zenon DEF ClickReadDtcs
<1>5. ASSUME ClickClearDtcs
      PROVE  \E v : ClicksAs(v, AskedOf("clear"), Unsubmitted)
  BY <1>5, Zenon DEF ClickClearDtcs
<1> QED
  BY <1>1, <1>2, <1>3, <1>4, <1>5

LEMMA SubmitDecisionIs ==
    ASSUME WindowAssumption, Formed, NEW option \in {"override", "cancel"},
           SubmitDecision(option)
    PROVE  \E c : Clicking(c) /\ c.op = "decide"
<1>0. clicks \in 0..MaxClicks /\ win.prompt.id \in 0..MaxClicks
  BY NumberIs
<1>1. PICK v : ClicksAs(v, [PlainCall("decide", clicks) EXCEPT !.q = win.prompt.id, !.out = option],
                          FALSE)
  BY Zenon DEF SubmitDecision, Clicks, Number
<1> DEFINE k == PlainCall("decide", clicks)
           c == [k EXCEPT !.q = win.prompt.id, !.out = option]
<1>2. k \in Calls /\ k.op = "decide" /\ k.n = clicks /\ k.at = "sent"
  BY <1>0, AsksIs DEF Ops
<1> HIDE DEF k
<1>3. c \in Calls /\ c.op = "decide" /\ c.n = clicks /\ c.at = "sent" /\ c.out = option
  BY <1>0, <1>2 DEF Calls, CallOutcomes
<1>4. ClicksAs(v, c, FALSE)
  BY <1>1 DEF k
<1> HIDE DEF c
<1>5. Clicking(c)
  BY <1>3, <1>4, ClickIs DEF Clicked, Ops
<1> QED
  BY <1>3, <1>5

(* Numbers stay distinct.                                                  *)
LEMMA NumberedMore ==
    ASSUME Numbered, clicks' = clicks,
           \A n \in Numbers : navs[n].at = "none" => navs'[n].at = "none",
           \A c \in calls : c.op = "navigate" => c.n \in Numbers,
           \A d \in calls' : \/ d \in calls
                             \/ d.op = "answer" /\ d.category \in Items
                             \/ d.op = "status" /\ d.at = "done"
                             \/ d.op = "connect" /\ clicks < d.n
    PROVE  Numbered'
<1>1. \A n \in Numbers : n <= clicks' => navs'[n].at = "none"
  BY DEF Numbered
<1>2. \A c \in calls' : c.op \in Clicked => clicks' < c.n
  BY DEF Numbered, Clicked
<1>3. \A c \in calls' : c.op = "answer" => c.category \in Items
  BY DEF Numbered
<1>4. \A c \in calls' : c.op = "status" => c.at = "done"
  BY DEF Numbered
<1>5. \A c \in calls' : c.op = "navigate" \/ c.op \in {"ai", "read", "clear"} => c \in calls
  OBVIOUS
<1>6. \A c \in calls' : c.op = "navigate" /\ Undone(c) => navs'[c.n].at = "none"
  BY <1>5 DEF Numbered
<1>7. \A c, d \in calls' :
          c.op = "navigate" /\ d.op = "navigate" /\ Undone(c) /\ Undone(d) /\ c.n = d.n => c = d
  BY <1>5 DEF Numbered
<1>8. \A c, d \in calls' :
          c.op \in {"ai", "read", "clear"} /\ c.at = "sent" /\ d.op = c.op /\ d.n = c.n => c = d
  BY <1>5 DEF Numbered
<1> QED
  BY <1>1, <1>2, <1>3, <1>4, <1>6, <1>7, <1>8 DEF Numbered, Undone

LEMMA NumberedReplace ==
    ASSUME WindowAssumption, Formed, Numbered, clicks' = clicks, NEW c \in calls, NEW D, Replaces(c, D),
           \A n \in Numbers : navs[n].at = "none" => navs'[n].at = "none" \/ n = c.n,
           \A d \in calls : d.op = "navigate" => d.n \in Numbers,
           \/ \A n \in Numbers : navs[n].at = "none" => navs'[n].at = "none"
           \/ c.op = "navigate" /\ Undone(c) /\ \A d \in D : ~Undone(d)
    PROVE  Numbered'
<1>0. /\ \A d \in calls' : (d \in calls /\ d # c) \/ d \in D
      /\ \A d \in D : Becomes(c, d)
      /\ \A d, e \in D : Undone(d) /\ Undone(e) => d = e
      /\ c.op = "status" => \A d \in D : ~Undone(d)
      /\ Undone(c) \/ c.op = "status"
  BY DEF Replaces
<1>1. \A n \in Numbers : n <= clicks' => navs'[n].at = "none"
  <2>1. \A n \in Numbers : n <= clicks => navs[n].at = "none"
    BY DEF Numbered
  <2>2. c.op = "navigate" => clicks < c.n /\ c.n \in Numbers
    BY DEF Numbered, Clicked, Ops
  <2>3. CASE \A n \in Numbers : navs[n].at = "none" => navs'[n].at = "none"
    BY <2>1, <2>3
  <2>4. CASE c.op = "navigate"
    <3>1. \A n \in Numbers : n <= clicks => n # c.n
      BY <2>2, <2>4, Zero DEF Numbers, Formed, ShapeBounds
    <3> QED
      BY <2>1, <3>1
  <2> QED
    BY <2>3, <2>4
<1>2. \A d \in calls' : d.op \in Clicked => clicks' < d.n
  BY <1>0 DEF Numbered, Becomes
<1>3. \A d \in calls' : d.op = "answer" => d.category \in Items
  BY <1>0 DEF Numbered, Becomes
<1>4. \A d \in calls' : d.op = "status" => d.at = "done"
  BY <1>0 DEF Numbered, Becomes, Undone
<1>6. \A d \in calls' : d.op = "navigate" /\ Undone(d) => navs'[d.n].at = "none"
  <2> SUFFICES ASSUME NEW d \in calls', d.op = "navigate", Undone(d)
               PROVE  navs'[d.n].at = "none"
    OBVIOUS
  <2>1. CASE d \in calls /\ d # c
    <3>1. navs[d.n].at = "none" /\ d.n \in Numbers
      BY <2>1 DEF Numbered
    <3>2. c.op = "navigate" /\ Undone(c) => d.n # c.n
      BY <2>1 DEF Numbered
    <3> QED
      BY <3>1, <3>2
  <2>2. CASE d \in D
    <3>1. c.op = "navigate" /\ c.n = d.n
      BY <1>0, <2>2 DEF Becomes
    <3>2. Undone(c)
      BY <1>0, <3>1
    <3>3. \A n \in Numbers : navs[n].at = "none" => navs'[n].at = "none"
      BY <2>2
    <3>4. d.n \in Numbers
      BY <3>1
    <3>5. navs[c.n].at = "none"
      BY <3>1, <3>2 DEF Numbered
    <3> QED
      BY <3>1, <3>3, <3>4, <3>5
  <2> QED
    BY <1>0, <2>1, <2>2
<1>7. \A d, e \in calls' :
          d.op = "navigate" /\ e.op = "navigate" /\ Undone(d) /\ Undone(e) /\ d.n = e.n => d = e
  <2>1. \A d \in D : d.op = "navigate" /\ Undone(d) => c.op = "navigate" /\ Undone(c) /\ d.n = c.n
    BY <1>0 DEF Becomes
  <2>2. \A d \in D : \A e \in calls \ {c} :
          ~(d.op = "navigate" /\ e.op = "navigate" /\ Undone(d) /\ Undone(e) /\ d.n = e.n)
    BY <2>1 DEF Numbered
  <2> QED
    BY <1>0, <2>2 DEF Numbered
<1>8. \A d, e \in calls' :
          d.op \in {"ai", "read", "clear"} /\ d.at = "sent" /\ e.op = d.op /\ e.n = d.n => d = e
  BY <1>0 DEF Numbered, Becomes
<1> QED
  BY <1>1, <1>2, <1>3, <1>4, <1>6, <1>7, <1>8 DEF Numbered, Undone

LEMMA NumberedClick ==
    ASSUME WindowAssumption, Formed, Numbered, NEW c, Clicking(c)
    PROVE  Numbered' /\ ShapeCalls' /\ ShapeServer' /\ ShapeBounds'
<1>0. /\ c.op \in Clicked /\ c.n = clicks /\ c.at = "sent" /\ c \in Calls
      /\ clicks > 0 /\ clicks' = clicks - 1 /\ calls' = calls \cup {c}
      /\ hurried' \in BOOLEAN
      /\ UNCHANGED <<gds, selected, navs, engine, news, wire, faults, may>>
  BY DEF Clicking
<1>1. clicks \in 0..MaxClicks /\ MaxClicks \in Nat
  BY Zero DEF Formed, ShapeBounds
<1>2. clicks \in Numbers /\ clicks' \in 0..MaxClicks /\ clicks' < clicks
  BY <1>0, <1>1 DEF Numbers
<1>3. ShapeCalls' /\ ShapeServer' /\ ShapeBounds'
  BY <1>0, <1>2, CallsGrowByOne DEF Formed, ShapeServer, ShapeBounds
<1>4. \A n \in Numbers : n <= clicks' => n <= clicks
  BY <1>1, <1>2 DEF Numbers
<1>5. \A n \in Numbers : n <= clicks' => navs'[n].at = "none"
  BY <1>0, <1>4 DEF Numbered
<1>6. \A d \in calls : d.op \in Clicked => clicks < d.n /\ d.n # c.n /\ clicks' < d.n
  <2> SUFFICES ASSUME NEW d \in calls, d.op \in Clicked
               PROVE  clicks < d.n /\ d.n # c.n /\ clicks' < d.n
    OBVIOUS
  <2>1. d.n \in 0..MaxClicks
    BY DEF Formed, ShapeCalls, Calls
  <2>2. clicks < d.n
    BY DEF Numbered
  <2> QED
    BY <1>0, <1>1, <1>2, <2>1, <2>2
<1>7. c.op # "answer" /\ c.op # "status"
  BY <1>0 DEF Clicked
<1>8. \A d \in calls' : d.op \in Clicked => clicks' < d.n
  BY <1>0, <1>2, <1>6
<1>9. \A d \in calls' : d.op = "navigate" /\ Undone(d) => navs'[d.n].at = "none"
  <2>1. navs[clicks].at = "none"
    BY <1>1, <1>2 DEF Numbered
  <2> QED
    BY <1>0, <2>1 DEF Numbered
<1>10. \A d, e \in calls' :
          d.op = "navigate" /\ e.op = "navigate" /\ Undone(d) /\ Undone(e) /\ d.n = e.n => d = e
  BY <1>0, <1>6 DEF Numbered, Clicked, Ops
<1>11. \A d, e \in calls' :
          d.op \in {"ai", "read", "clear"} /\ d.at = "sent" /\ e.op = d.op /\ e.n = d.n => d = e
  BY <1>0, <1>6 DEF Numbered, Clicked, Ops
<1>12. (\A d \in calls' : d.op = "answer" => d.category \in Items)
       /\ \A d \in calls' : d.op = "status" => d.at = "done"
  BY <1>0, <1>7 DEF Numbered
<1>13. Numbered'
  BY <1>5, <1>8, <1>9, <1>10, <1>11, <1>12 DEF Numbered, Undone
<1> QED
  BY <1>3, <1>13

LEMMA ServeNavs ==
    ASSUME WindowAssumption, Formed, Numbered, NEW c \in calls, Serve(c)
    PROVE  \/ navs' = navs
           \/ /\ c.op = "navigate" /\ c.n \in Numbers
              /\ navs' = [navs EXCEPT ![c.n].at = "driving"]
           \/ /\ c.op = "answer" /\ c.q \in Numbers /\ navs[c.q].at = "asked"
              /\ navs' = [navs EXCEPT ![c.q].at = "chosen", ![c.q].item = c.category]
<1>0. /\ c \in Calls /\ c.module \in Modules \cup {Nothing}
      /\ c.category \in Categories \cup Items \cup {Nothing}
      /\ gds \in Displays /\ selected \in Selections /\ faults \in Nat
  BY DEF Formed, ShapeCalls, ShapeServer, ShapeBounds, Calls
<1>1. Undone(c) /\ c.op # "status"
  BY <1>0, ServerOf DEF Numbered, Undone
<1>2. CASE c.op = "navigate"
  BY <1>0, <1>1, <1>2, ServerOf, ServeNavigateShape DEF Refuses
<1>3. CASE c.op = "answer"
  BY <1>0, <1>1, <1>3, ServerOf, ServeAnswerShape
<1>4. CASE c.op = "start" \/ c.op = "connect" \/ c.op = "decide"
  BY <1>0, <1>4, ServerOf, ServeStartShape, ServeConnectShape, ServeDecideShape
<1>5. CASE c.op = "module" \/ c.op = "category" \/ c.op \in {"ai", "retry"}
  BY <1>0, <1>5, ServerOf, ServeModuleShape, ServeCategoryShape, ServeAiShape
<1>6. CASE c.op = "read"
  <2>1. ReadsAs(c, c.module, IF c.module = Nothing THEN Nothing ELSE c.category)
    BY <1>0, <1>6, ServerOf DEF ServeRead
  <2> QED
    BY <1>0, <2>1, ReadsShape
<1>7. CASE c.op = "clear"
  <2>1. ReadsAs(c, Nothing, Nothing) \/ CallFails(c)
    BY <1>0, <1>7, ServerOf DEF ServeClear
  <2> QED
    BY <1>0, <2>1, ReadsShape, FailsShape DEF Refuses
<1>8. c.op \in Ops
  BY <1>0 DEF Calls
<1> QED
  BY <1>1, <1>2, <1>3, <1>4, <1>5, <1>6, <1>7, <1>8 DEF Ops

LEMMA ServeNumbers ==
    ASSUME WindowAssumption, Formed, Numbered, NEW c \in calls, Serve(c)
    PROVE  /\ Numbered' /\ ShapeCalls' /\ ShapeServer' /\ ShapeBounds'
           /\ Undone(c) /\ c.op # "status"
           /\ \E D \in SUBSET Calls : Replaces(c, D) /\ \A d \in D : d.at = "done"
<1>0. c \in Calls /\ navs \in [Numbers -> Journeys]
      /\ \A d \in calls : d.op = "navigate" => d.n \in Numbers
  <2>1. /\ c \in Calls /\ navs \in [Numbers -> Journeys] /\ calls \subseteq Calls
        /\ clicks \in 0..MaxClicks /\ MaxClicks \in Nat
    BY Zero DEF Formed, ShapeCalls, ShapeServer, ShapeBounds
  <2>2. \A d \in calls : d.n \in 0..MaxClicks /\ (d.op = "navigate" => clicks < d.n)
    BY <2>1 DEF Numbered, Clicked, Ops, Calls
  <2> QED
    BY <2>1, <2>2 DEF Numbers
<1>1. Undone(c) /\ c.op # "status"
  BY <1>0, ServerOf DEF Numbered, Undone
<1>2. PICK o \in Outs : CallAnswered(c, o)
  BY <1>0, <1>1, ServeAnswers DEF Answers
<1>a. AnsweredBy(c, o)
  BY <1>1, <1>2, AnsweredIs
<1>3. PICK D \in SUBSET Calls : Replaces(c, D) /\ \A d \in D : d.at = "done"
  BY <1>a, Zenon DEF AnsweredBy
<1>4. ShapeServer' /\ faults' \in Nat /\ UNCHANGED <<win, wire, clicks, may, hurried>>
  BY ServeShape
<1>5. ShapeCalls'
  BY <1>1, <1>2, AnsweredIs
<1>6. ShapeBounds'
  BY <1>4 DEF Formed, ShapeBounds
<1>7. /\ \A n \in Numbers : navs[n].at = "none" => navs'[n].at = "none" \/ n = c.n
      /\ \/ \A n \in Numbers : navs[n].at = "none" => navs'[n].at = "none"
         \/ c.op = "navigate"
  <2>1. \A n \in Numbers : navs[n] \in Journeys
    BY <1>0
  <2>2. CASE navs' = navs
    BY <2>2
  <2>3. CASE /\ c.op = "navigate" /\ c.n \in Numbers
             /\ navs' = [navs EXCEPT ![c.n].at = "driving"]
    <3>1. \A n \in Numbers : n # c.n => navs'[n] = navs[n]
      BY <1>0, <2>3
    <3> QED
      BY <2>3, <3>1
  <2>4. CASE /\ c.op = "answer" /\ c.q \in Numbers /\ navs[c.q].at = "asked"
             /\ navs' = [navs EXCEPT ![c.q].at = "chosen", ![c.q].item = c.category]
    <3>1. \A n \in Numbers : n # c.q => navs'[n] = navs[n]
      BY <1>0, <2>4
    <3> QED
      BY <2>4, <3>1
  <2> QED
    BY <2>2, <2>3, <2>4, ServeNavs
<1>8. \A d \in D : ~Undone(d)
  BY <1>3 DEF Undone
<1>9. Numbered'
  BY <1>0, <1>1, <1>3, <1>4, <1>7, <1>8, NumberedReplace
<1> QED
  BY <1>1, <1>3, <1>4, <1>5, <1>6, <1>9

(* Handling an answer drops it, and perhaps asks the device to connect.    *)
Drops(c) ==
    /\ ShapeCalls'
    /\ \A d \in calls' :
          \/ d \in calls /\ d # c
          \/ d.op = "status" /\ d.at = "done"
          \/ /\ d = PlainCall("connect", c.n) /\ d.op = "connect" /\ d.n = c.n /\ d.at = "sent"
             /\ c.op \in {"start", "connect", "decide"} /\ c.out \in {"devices", "selection"}

LEMMA HandledDrops ==
    ASSUME Formed, NEW c \in calls, calls' = calls \ {c}
    PROVE  Drops(c)
<1>1. IsFiniteSet(calls') /\ calls' \subseteq Calls
  BY FS_Subset DEF Formed, ShapeCalls
<1> QED
  BY <1>1 DEF Drops, ShapeCalls

LEMMA StartedDrops ==
    ASSUME WindowAssumption, Formed, NEW c \in calls, NEW w,
           c.op \in {"start", "connect", "decide"},
           \/ HandleStarted(c, w)
           \/ c.out = "devices" /\ ThenAsks(c, w, "connect")
    PROVE  Drops(c)
<1>1. \/ calls' = calls \ {c}
      \/ /\ c.out \in {"devices", "selection"}
         /\ calls' = (calls \ {c}) \cup {PlainCall("connect", c.n)}
  BY DEF HandleStarted, Handled, ThenAsks
<1>2. CASE /\ c.out \in {"devices", "selection"}
           /\ calls' = (calls \ {c}) \cup {PlainCall("connect", c.n)}
  <2> DEFINE d == PlainCall("connect", c.n)
  <2>1. c.n \in 0..MaxClicks /\ "connect" \in Ops
    BY DEF Formed, ShapeCalls, Calls, Ops
  <2>2. d \in Calls /\ d.op = "connect" /\ d.n = c.n /\ d.at = "sent"
    BY <2>1, AsksIs
  <2>3. calls' = (calls \ {c}) \cup {d} /\ d = PlainCall("connect", c.n)
    BY <1>2
  <2> HIDE DEF d
  <2>4. ShapeCalls'
    BY <2>2, <2>3, CallsGrowByOne DEF Formed
  <2> QED
    BY <1>2, <2>2, <2>3, <2>4 DEF Drops
<1> QED
  BY <1>1, <1>2, HandledDrops

LEMMA HandleDrops ==
    ASSUME WindowAssumption, Formed, NEW c \in calls, Handle(c)
    PROVE  Drops(c)
<1>0. c \in Calls /\ c.op \in Ops
  BY DEF Formed, ShapeCalls, Calls
<1>1. CASE c.op \in {"start", "connect", "decide"}
  BY <1>0, <1>1, HandlerOf, StartedDrops, HandledDrops
     DEF HandleStart, HandleConnect, HandleDecide, Handled
<1>2. CASE c.op \in {"navigate", "answer", "module", "category", "ai", "retry"}
  BY <1>0, <1>2, HandlerOf, HandledDrops
     DEF HandleNavigate, HandleModule, HandleCategory, HandleAi, Handled
<1>3. CASE c.op \in {"read", "clear"}
  <2>1. calls' = calls \ {c} \/ \E w : Polls(w, calls \ {c})
    BY <1>0, <1>3, HandlerOf, Zenon DEF HandleDtcs, Handled
  <2>2. calls \ {c} \in SUBSET calls
    OBVIOUS
  <2>3. ASSUME NEW w, Polls(w, calls \ {c})
        PROVE  Drops(c)
    BY <2>2, <2>3, PollsCalls DEF Drops
  <2> QED
    BY <2>1, <2>3, HandledDrops
<1>4. CASE c.op = "status"
  BY <1>0, <1>4, HandlerOf, HandledDrops DEF HandleStatus, Handled
<1> QED
  BY <1>0, <1>1, <1>2, <1>3, <1>4 DEF Ops

LEMMA WireGrows ==
    ASSUME WindowAssumption, wire \in Seq(Happenings), NEW n \in Numbers
    PROVE  /\ Event("error", n, Nothing) \in Happenings
           /\ Append(wire, Event("error", n, Nothing)) \in Seq(Happenings)
<1>1. Event("error", n, Nothing) \in Happenings
  BY DEF Event, Happenings
<1>2. \A e \in Happenings : Append(wire, e) \in Seq(Happenings)
  OBVIOUS
<1> QED
  BY <1>1, <1>2

LEMMA CallNumbers ==
    ASSUME WindowAssumption, Formed, Numbered
    PROVE  \A c \in calls : c.op \in Clicked => c.n \in Numbers /\ clicks < c.n
<1>1. calls \subseteq Calls /\ clicks \in 0..MaxClicks /\ MaxClicks \in Nat
  BY Zero DEF Formed, ShapeCalls, ShapeBounds
<1>2. \A c \in calls : c.n \in 0..MaxClicks /\ (c.op \in Clicked => clicks < c.n)
  BY <1>1 DEF Numbered, Calls
<1> QED
  BY <1>1, <1>2 DEF Numbers

LEMMA HandleWire ==
    ASSUME WindowAssumption, Formed, Numbered, NEW c \in calls, Handle(c)
    PROVE  /\ c.at = "done"
           /\ \/ wire' = wire
              \/ /\ c.op = "navigate" /\ c.out # "fail" /\ c.n \in Numbers
                 /\ wire' = Append(wire, Event("error", c.n, Nothing))
           /\ wire' \in Seq(Happenings)
           /\ UNCHANGED <<gds, selected, navs, engine, news, clicks, faults, may, hurried>>
<1>0. c \in Calls /\ wire \in Seq(Happenings)
  BY DEF Formed, ShapeCalls, ShapeBounds
<1>1. c.at = "done" /\ UNCHANGED <<gds, selected, navs, engine, news, clicks, faults, may, hurried>>
  BY DEF Handle, server
<1>2. CASE c.op = "navigate"
  <2>1. \/ wire' = wire
        \/ c.out # "fail" /\ wire' = Append(wire, Event("error", c.n, Nothing))
    BY <1>0, <1>2, HandlerOf, Zenon DEF HandleNavigate, Event
  <2>2. c.n \in Numbers
    BY <1>2, CallNumbers DEF Clicked, Ops
  <2> QED
    BY <1>0, <1>1, <1>2, <2>1, <2>2, WireGrows
<1>3. CASE c.op # "navigate"
  <2>1. wire' = wire
    BY <1>3, Zenon DEF Handle, Handles
  <2> QED
    BY <1>0, <1>1, <2>1
<1> QED
  BY <1>2, <1>3

LEMMA HandleNumbers ==
    ASSUME WindowAssumption, Formed, Numbered, NEW c \in calls, Handle(c)
    PROVE  Numbered' /\ ShapeCalls' /\ ShapeServer' /\ ShapeBounds'
<1>1. /\ wire' \in Seq(Happenings)
      /\ UNCHANGED <<gds, selected, navs, engine, news, clicks, faults, may, hurried>>
  BY HandleWire
<1>2. Drops(c)
  BY HandleDrops
<1>3. \A d \in calls : d.op \in Clicked => d.n \in Numbers /\ clicks < d.n
  BY CallNumbers
<1>4. Numbered'
  BY <1>1, <1>2, <1>3, NumberedMore DEF Drops, Clicked, Ops
<1> QED
  BY <1>1, <1>2, <1>4 DEF Formed, ShapeServer, ShapeBounds, Drops

(* The events of a navigation, at the window.                              *)
LEMMA EventCalls ==
    ASSUME WindowAssumption, Formed, HandleNavigationEvent
    PROVE  /\ wire # <<>> /\ wire' = Tail(wire)
           /\ UNCHANGED <<gds, selected, navs, engine, news, clicks, faults, may, hurried>>
           /\ ShapeCalls' /\ calls \subseteq calls'
           /\ \A d \in calls' : \/ d \in calls
                                \/ d.op = "status" /\ d.at = "done"
                                \/ d.op = "answer" /\ d.category \in Items
<1>1. /\ wire # <<>> /\ wire' = Tail(wire)
      /\ UNCHANGED <<gds, selected, navs, engine, news, clicks, faults, may, hurried>>
  BY DEF HandleNavigationEvent, server
<1>2. PICK e \in Happenings : e = Head(wire)
  BY <1>1, HeadOfWire
<1>3. e.ev \in {"ask", "done", "error"} /\ e.n \in 0..MaxClicks
  BY DEF Happenings, Numbers
<1>4. (CASE e.ev = "ask" -> Asked(e)
         [] e.ev = "done" -> Arrived(e)
         [] e.ev = "error" -> Failed)
  BY <1>2, Zenon DEF HandleNavigationEvent
<1>5. (e.ev = "ask" /\ Asked(e)) \/ (e.ev = "done" /\ Arrived(e))
      \/ (e.ev = "error" /\ Failed)
  BY <1>3, <1>4
<1>6. CASE calls' = calls
  BY <1>1, <1>6 DEF Formed, ShapeCalls
<1>7. CASE calls' = calls \cup {Call("answer", 0, Nothing, DtcInfo, e.n)}
  <2> DEFINE d == Call("answer", 0, Nothing, DtcInfo, e.n)
  <2>1. /\ "answer" \in Ops /\ DtcInfo \in Items /\ 0 \in 0..MaxClicks
        /\ DtcInfo \in Categories \cup Items \cup {Nothing}
    BY Zero DEF Ops, Items
  <2>2. d \in Calls /\ d.op = "answer" /\ d.category = DtcInfo
    BY <1>3, <2>1, CallIs
  <2>3. calls' = calls \cup {d}
    BY <1>7
  <2> HIDE DEF d
  <2>4. ShapeCalls'
    BY <2>2, <2>3, CallsGrowByOne DEF Formed
  <2> QED
    BY <1>1, <2>1, <2>2, <2>3, <2>4
<1>8. CASE Failed
  <2>1. Polls(win, calls) /\ calls \in SUBSET calls
    BY <1>8 DEF Failed
  <2> QED
    BY <1>1, <2>1, PollsCalls
<1> QED
  BY <1>5, <1>6, <1>7, <1>8 DEF Asked, Arrived

LEMMA AnswerDialogCalls ==
    ASSUME WindowAssumption, Formed, AnswerDialog
    PROVE  /\ ShapeCalls' /\ calls \subseteq calls'
           /\ \A d \in calls' : d \in calls \/ (d.op = "answer" /\ d.category \in Items)
           /\ UNCHANGED <<gds, selected, navs, engine, news, wire, clicks, faults, may, hurried>>
<1>1. UNCHANGED <<gds, selected, navs, engine, news, wire, clicks, faults, may, hurried>>
  BY DEF AnswerDialog, server
<1>2. CASE calls' = calls
  BY <1>1, <1>2 DEF Formed, ShapeCalls
<1>3. CASE calls' = calls \cup {Call("answer", 0, Nothing, OtherItem, win.modal.q)}
  <2> DEFINE d == Call("answer", 0, Nothing, OtherItem, win.modal.q)
  <2>1. /\ "answer" \in Ops /\ OtherItem \in Items /\ 0 \in 0..MaxClicks
        /\ win.modal.q \in 0..MaxClicks
        /\ OtherItem \in Categories \cup Items \cup {Nothing}
    BY Zero DEF Ops, Items, Formed, Windows
  <2>2. d \in Calls /\ d.op = "answer" /\ d.category = OtherItem
    BY <2>1, CallIs
  <2>3. calls' = calls \cup {d}
    BY <1>3
  <2> HIDE DEF d
  <2>4. ShapeCalls'
    BY <2>2, <2>3, CallsGrowByOne DEF Formed
  <2> QED
    BY <1>1, <2>1, <2>2, <2>3, <2>4
<1> QED
  BY <1>2, <1>3 DEF AnswerDialog

-----------------------------------------------------------------------------
(* The types, the buttons offered and the numbers together.                *)
State == Formed /\ Offering(win) /\ Numbered

LEMMA ShapesRest ==
    ASSUME WindowAssumption, Formed, Numbered,
           UNCHANGED <<calls, gds, navs, selected, engine, news, wire, clicks, may>>,
           faults' \in Nat, hurried' \in BOOLEAN
    PROVE  Numbered' /\ ShapeCalls' /\ ShapeServer' /\ ShapeBounds'
<1>1. ShapeCalls' /\ ShapeServer' /\ ShapeBounds'
  BY DEF Formed, ShapeCalls, ShapeServer, ShapeBounds
<1> QED
  BY <1>1 DEF Numbered, Undone

LEMMA TechnicianNumbers ==
    ASSUME WindowAssumption, Formed, Numbered, Technician
    PROVE  Numbered' /\ ShapeCalls' /\ ShapeServer' /\ ShapeBounds'
<1>0. faults \in Nat /\ hurried \in BOOLEAN /\ win \in Windows
  BY DEF Formed, ShapeBounds
<1>1. ASSUME NEW c, Clicking(c)
      PROVE  Numbered' /\ ShapeCalls' /\ ShapeServer' /\ ShapeBounds'
  BY <1>1, NumberedClick
<1>2. CASE ClickModuleDiagnostics
  BY <1>1, <1>2, ClickModuleIs
<1>3. CASE ClickVehicleDiagnostics
  BY <1>1, <1>3, ClickVehicleIs
<1>4. CASE ClickSelectModule
  BY <1>1, <1>4, SelectModuleIs
<1>5. CASE ClickSelectCategory
  <2>1. SelectsCategory(win, Unsubmitted)
    BY <1>5 DEF ClickSelectCategory
  <2> QED
    BY <1>0, <1>1, <2>1, SelectsCategoryIs
<1>6. CASE \E g \in Categories : SubmitCategoryPrompt(g)
  <2>1. PICK g \in Categories : SubmitCategoryPrompt(g)
    BY <1>6
  <2> DEFINE w == [win EXCEPT !.category = g, !.prompt = NoPrompt]
  <2>2. \E hasty : SelectsCategory(w, hasty)
    BY <2>1, Zenon DEF SubmitCategoryPrompt
  <2>3. w \in Windows
    BY <1>0, Zero DEF Windows, NoPrompt
  <2> HIDE DEF w
  <2> QED
    BY <1>1, <2>2, <2>3, SelectsCategoryIs
<1>7. CASE ClickAiDiagnose \/ ClickAiRetry \/ ClickReadDtcs \/ ClickClearDtcs
  <2>1. \E c : Clicking(c)
    BY <1>7, AsksAsShown
  <2> QED
    BY <1>1, <2>1
<1>8. CASE \E option \in {"override", "cancel"} : SubmitDecision(option)
  BY <1>1, <1>8, SubmitDecisionIs
<1>9. CASE AnswerDialog
  <2>1. /\ ShapeCalls' /\ calls \subseteq calls'
        /\ \A d \in calls' : d \in calls \/ (d.op = "answer" /\ d.category \in Items)
        /\ UNCHANGED <<gds, selected, navs, engine, news, wire, clicks, faults, may, hurried>>
    BY <1>9, AnswerDialogCalls
  <2>2. \A c \in calls : c.op = "navigate" => c.n \in Numbers
    BY CallNumbers DEF Clicked, Ops
  <2>3. Numbered'
    BY <2>1, <2>2, NumberedMore
  <2> QED
    BY <2>1, <2>3 DEF Formed, ShapeServer, ShapeBounds
<1>10. CASE CloseDialog \/ (\E m \in Modules : ChooseModule(m))
            \/ (\E g \in Categories : ChooseCategory(g))
  <2>1. /\ UNCHANGED <<calls, server, wire, clicks, faults>>
        /\ (UNCHANGED <<may, hurried>>) \/ Acts(Unsettled)
    BY <1>10, Zenon DEF CloseDialog, ChooseModule, ChooseCategory
  <2>2. UNCHANGED may /\ hurried' \in BOOLEAN
    <3>1. CASE UNCHANGED <<may, hurried>>
      BY <1>0, <3>1
    <3>2. CASE Acts(Unsettled)
      BY <3>2, Zenon DEF Acts
    <3> QED
      BY <2>1, <3>1, <3>2
  <2> QED
    BY <1>0, <2>1, <2>2, ShapesRest DEF server
<1> QED
  BY <1>2, <1>3, <1>4, <1>5, <1>6, <1>7, <1>8, <1>9, <1>10, Zenon DEF Technician

LEMMA NavsNumbers ==
    ASSUME WindowAssumption, Formed, Numbered, calls' = calls, clicks' = clicks,
           NEW n \in Numbers, NEW j, navs[n].at # "none", navs' = [navs EXCEPT ![n] = j]
    PROVE  Numbered' /\ ShapeCalls'
<1>1. navs \in [Numbers -> Journeys]
  BY DEF Formed, ShapeServer
<1>2. \A i \in Numbers : navs[i].at = "none" => navs'[i].at = "none"
  <2>1. \A i \in Numbers : i # n => navs'[i] = navs[i]
    BY <1>1
  <2> QED
    BY <2>1
<1>3. \A c \in calls : c.op = "navigate" => c.n \in Numbers
  BY CallNumbers DEF Clicked, Ops
<1>4. Numbered'
  BY <1>2, <1>3, NumberedMore
<1> QED
  BY <1>4 DEF Formed, ShapeCalls

LEMMA RestNumbers ==
    ASSUME WindowAssumption, Formed, Numbered, Streams \/ Losses \/ Server
    PROVE  Numbered' /\ ShapeCalls' /\ ShapeServer' /\ ShapeBounds'
<1>0. /\ faults \in Nat /\ hurried \in BOOLEAN /\ win \in Windows /\ wire \in Seq(Happenings)
      /\ navs \in [Numbers -> Journeys]
  BY DEF Formed, ShapeBounds, ShapeServer
<1>c. \A c \in calls : c.op = "navigate" => c.n \in Numbers
  BY CallNumbers DEF Clicked, Ops
<1>1. CASE ReadNavigation
  <2>1. PICK n \in Numbers, e \in Happenings : ReadOn(n, e)
    BY <1>1, ReadNavigationIs
  <2>2. ShapeServer' /\ ShapeBounds'
    BY <2>1, ReadNavigationShape
  <2>3. /\ calls' = calls /\ clicks' = clicks /\ navs[n].events # <<>>
        /\ navs' = [navs EXCEPT ![n] = [at |-> navs[n].at, item |-> navs[n].item,
                                        events |-> Tail(navs[n].events)]]
    BY <2>1 DEF ReadOn
  <2>4. navs[n].at # "none"
    BY <2>3 DEF Formed, ShapeServer, Progress
  <2>5. \E j : navs' = [navs EXCEPT ![n] = j]
    BY <2>3
  <2> QED
    BY <2>2, <2>3, <2>4, <2>5, NavsNumbers
<1>2. CASE HandleNavigationEvent
  <2>1. /\ wire # <<>> /\ wire' = Tail(wire)
        /\ UNCHANGED <<gds, selected, navs, engine, news, clicks, faults, may, hurried>>
        /\ ShapeCalls'
        /\ \A d \in calls' : \/ d \in calls
                             \/ d.op = "status" /\ d.at = "done"
                             \/ d.op = "answer" /\ d.category \in Items
    BY <1>2, EventCalls
  <2>2. Numbered'
    BY <1>c, <2>1, NumberedMore
  <2>3. wire' \in Seq(Happenings)
    BY <1>0, <2>1
  <2> QED
    BY <2>1, <2>2, <2>3 DEF Formed, ShapeServer, ShapeBounds
<1>3. CASE ReadDiagnosis \/ ReadSession \/ EngineEnds \/ GateExpires
  <2>1. ShapeServer' /\ ShapeBounds' /\ UNCHANGED <<calls, gds, navs, wire, clicks, may, hurried>>
    BY <1>3, RestShape
  <2>2. Numbered'
    BY <2>1 DEF Numbered, Undone
  <2> QED
    BY <2>1, <2>2 DEF Formed, ShapeCalls
<1>4. CASE LoseNavigation
  <2>1. /\ win.following # 0 /\ wire' = Append(wire, Event("error", win.following, Nothing))
        /\ UNCHANGED <<calls, gds, navs, selected, engine, news, clicks, may, hurried>>
    BY <1>4, Zenon DEF LoseNavigation, server, Event
  <2>2. win.following \in Numbers /\ faults' \in Nat
    BY <1>0, <1>4, <2>1, Zero, FaultShape DEF Windows, Numbers, LoseNavigation
  <2>3. wire' \in Seq(Happenings)
    BY <1>0, <2>1, <2>2, WireGrows
  <2>4. Numbered'
    BY <2>1 DEF Numbered, Undone
  <2> QED
    BY <2>1, <2>2, <2>3, <2>4 DEF Formed, ShapeServer, ShapeBounds, ShapeCalls
<1>5. CASE LoseDiagnosis \/ LoseSession
  <2>1. /\ UNCHANGED <<calls, gds, navs, selected, engine, news, wire, clicks, may, hurried>>
        /\ Fault
    BY <1>5 DEF LoseDiagnosis, LoseSession, server
  <2> QED
    BY <1>0, <2>1, FaultShape, ShapesRest
<1>6. ASSUME NEW c \in calls, GiveUp(c)
      PROVE  Numbered' /\ ShapeCalls' /\ ShapeServer' /\ ShapeBounds'
  <2>1. /\ ShapeCalls' /\ faults' \in Nat
        /\ UNCHANGED <<win, gds, selected, navs, engine, news, wire, clicks, may, hurried>>
    BY <1>6, GiveUpIs
  <2>2. PICK D \in SUBSET Calls : Replaces(c, D)
    BY <1>6, GiveUpIs
  <2>3. Numbered'
    BY <1>c, <2>1, <2>2, NumberedReplace
  <2> QED
    BY <2>1, <2>3 DEF Formed, ShapeServer, ShapeBounds
<1>7. ASSUME NEW c \in calls, Serve(c)
      PROVE  Numbered' /\ ShapeCalls' /\ ShapeServer' /\ ShapeBounds'
  BY <1>7, ServeNumbers
<1>8. ASSUME NEW n \in Numbers, Drives(n)
      PROVE  Numbered' /\ ShapeCalls' /\ ShapeServer' /\ ShapeBounds'
  <2>1. /\ DrivesOn(n) /\ calls' = calls /\ clicks' = clicks
    BY <1>8, DrivesIs
  <2>2. ShapeServer' /\ ShapeBounds'
    BY <1>8, DrivesShape
  <2>3. navs[n].at # "none" /\ \E j : navs' = [navs EXCEPT ![n] = j]
    BY <2>1 DEF DrivesOn, Emitted
  <2> QED
    BY <2>1, <2>2, <2>3, NavsNumbers
<1> QED
  BY <1>1, <1>2, <1>3, <1>4, <1>5, <1>6, <1>7, <1>8, Zenon DEF Streams, Losses, Server

LEMMA StateStays ==
    ASSUME WindowAssumption, State, [WindowNext]_windowVars
    PROVE  State'
<1>0. Formed /\ Offering(win) /\ Numbered
  BY DEF State
<1>1. Offering(win') /\ win' \in Windows
  BY <1>0, WindowStays DEF Offering
<1>2. CASE Technician
  BY <1>0, <1>1, <1>2, TechnicianNumbers DEF State, Formed, Offering, OffersOf
<1>3. CASE Streams \/ Losses \/ Server
  BY <1>0, <1>1, <1>3, RestNumbers DEF State, Formed, Offering, OffersOf
<1>4. CASE Poll
  <2>1. /\ Polls(win, calls)
        /\ UNCHANGED <<gds, selected, navs, engine, news, wire, clicks, faults, may, hurried>>
    BY <1>4 DEF Poll, server
  <2>2. /\ ShapeCalls' /\ \A d \in calls' : d \in calls \/ (d.op = "status" /\ d.at = "done")
    <3>1. calls \in SUBSET calls
      OBVIOUS
    <3> QED
      BY <1>0, <2>1, <3>1, PollsCalls
  <2>3. \A c \in calls : c.op = "navigate" => c.n \in Numbers
    BY <1>0, CallNumbers DEF Clicked, Ops
  <2>4. Numbered'
    BY <1>0, <2>1, <2>2, <2>3, NumberedMore
  <2>5. Formed'
    BY <1>0, <1>1, <2>1, <2>2 DEF Formed, ShapeServer, ShapeBounds
  <2> QED
    BY <1>1, <2>4, <2>5 DEF State, Offering, OffersOf
<1>5. ASSUME NEW c \in calls, Handle(c)
      PROVE  State'
  BY <1>0, <1>1, <1>5, HandleNumbers DEF State, Formed, Offering, OffersOf
<1>6. CASE UNCHANGED windowVars
  <2>1. UNCHANGED <<win, calls, gds, selected, navs, engine, news, wire, clicks, faults, may, hurried>>
    BY <1>6 DEF windowVars, server
  <2>2. ShapeCalls' /\ ShapeServer' /\ ShapeBounds' /\ Numbered'
    BY <1>0, <2>1, ShapesRest DEF Formed, ShapeBounds
  <2> QED
    BY <1>1, <2>2 DEF State, Formed, Offering, OffersOf
<1> QED
  BY <1>2, <1>3, <1>4, <1>5, <1>6, Zenon DEF WindowNext, Window

LEMMA ActivatedIs ==
    ASSUME WindowAssumption
    PROVE  /\ Offering(Activated)
           /\ \A w : w = Activated =>
                 /\ w.branch = "none" /\ w.listed = {} /\ w.module = Nothing /\ w.offered = {}
                 /\ w.category = Nothing /\ w.confirmed = FALSE /\ w.prompt = NoPrompt
<1> DEFINE v == [branch |-> "none", page |-> "none", listed |-> {}, module |-> Nothing,
                 offered |-> {}, category |-> Nothing, confirmed |-> FALSE, ready |-> FALSE,
                 nav |-> FALSE, ai |-> FALSE, pending |-> FALSE, reading |-> 0,
                 retry |-> FALSE, following |-> 0, navid |-> FALSE, prompt |-> NoPrompt,
                 modal |-> NoModal, refresh |-> FALSE, listening |-> TRUE, enabled |-> {}]
<1>1. /\ NoPrompt \in [kind: {"none", "category", "decision"}, id: 0..MaxClicks]
      /\ NoModal \in [q: 0..MaxClicks, on: BOOLEAN]
  BY Zero DEF NoPrompt, NoModal
<1>2. v \in Windows
  BY <1>1, Zero DEF Windows, Pages
<1>3. /\ v.branch = "none" /\ v.listed = {} /\ v.module = Nothing /\ v.offered = {}
      /\ v.category = Nothing /\ v.confirmed = FALSE /\ v.prompt = NoPrompt
  OBVIOUS
<1>4. Activated = Refreshed(v)
  BY Zenon DEF Activated
<1> HIDE DEF v
<1> QED
  BY <1>2, <1>3, <1>4, RefreshedLike

LEMMA PopulatedIs ==
    ASSUME WindowAssumption, NEW u, Offering(u)
    PROVE  /\ Offering(Populated(u))
           /\ \A w : w = Populated(u) =>
                 /\ w.branch = "module" /\ w.listed = Modules /\ w.module = FirstModule
                 /\ w.offered = {} /\ w.category = Nothing /\ w.confirmed = FALSE
                 /\ w.prompt = u.prompt
<1> DEFINE b == Cleared(u)
           v == [b EXCEPT !.branch = "module", !.listed = Modules, !.module = FirstModule,
                          !.page = "list"]
<1>1. b \in Windows /\ Blank(b) /\ b.prompt = u.prompt
  BY ClearedIs DEF Offering
<1>2. Populated(u) = Refreshed(v)
  BY Zenon DEF Populated
<1> HIDE DEF b
<1>3. FirstModule \in Modules
  BY DEF WindowAssumption
<1>4. /\ v \in Windows /\ v.branch = "module" /\ v.listed = Modules /\ v.module = FirstModule
      /\ v.offered = {} /\ v.category = Nothing /\ v.confirmed = FALSE /\ v.prompt = u.prompt
  BY <1>1, <1>3 DEF Windows, Pages, Blank
<1> HIDE DEF v
<1> QED
  BY <1>2, <1>4, RefreshedLike

LEMMA UnselectedIs ==
    ASSUME WindowAssumption
    PROVE  /\ Unselected \in Selections
           /\ Unselected.module = Nothing /\ Unselected.category = Nothing
           /\ Unselected.gate = 0
BY Zero DEF Unselected, Selections

(* Where a behaviour begins.                                               *)
Begun(category) ==
    /\ Offering(win) /\ win.prompt = NoPrompt
    /\ gds \in Displays /\ selected \in Selections /\ selected.gate = 0
    /\ win.branch # "vehicle"
    /\ win.branch = "none" => win.category = Nothing
    /\ \/ win.confirmed = FALSE /\ selected.module = Nothing /\ gds.module = Nothing
       \/ /\ win.module = FirstModule /\ win.category = category
          /\ selected.module = FirstModule /\ selected.category = category
          /\ gds = [page |-> "data", module |-> FirstModule, category |-> category]

LEMMA SettledIs ==
    ASSUME WindowAssumption, NEW at \in {"fresh", "listed", "shown"}, NEW category \in Categories,
           Settled(at, category)
    PROVE  Begun(category)
<1>0. FirstModule \in Modules /\ Offering(Activated) /\ Activated \in Windows
  BY ActivatedIs DEF WindowAssumption, Offering
<1> DEFINE p == Populated(Activated)
           v == [p EXCEPT !.offered = Categories, !.category = category, !.confirmed = TRUE,
                          !.page = "data"]
<1>1. /\ Offering(p) /\ p.branch = "module" /\ p.module = FirstModule /\ p.prompt = NoPrompt
      /\ p.confirmed = FALSE /\ p.category = Nothing
  <2>1. Activated.prompt = NoPrompt
    BY ActivatedIs
  <2>2. Offering(p)
    BY <1>0, PopulatedIs
  <2>3. /\ p.branch = "module" /\ p.module = FirstModule /\ p.prompt = Activated.prompt
        /\ p.confirmed = FALSE /\ p.category = Nothing
    BY <1>0, PopulatedIs, Zenon
  <2> QED
    BY <2>1, <2>2, <2>3
<1>2. \/ /\ at = "fresh" /\ win = Activated /\ selected = Unselected
         /\ gds = [page |-> "other", module |-> Nothing, category |-> Nothing]
      \/ /\ at = "listed" /\ win = p /\ selected = Unselected
         /\ gds = [page |-> "list", module |-> Nothing, category |-> Nothing]
      \/ /\ at = "shown" /\ win = Refreshed(v)
         /\ selected = [Unselected EXCEPT !.module = FirstModule, !.category = category]
         /\ gds = [page |-> "data", module |-> FirstModule, category |-> category]
  BY DEF Settled
<1>3. CASE /\ at = "fresh" /\ win = Activated /\ selected = Unselected
           /\ gds = [page |-> "other", module |-> Nothing, category |-> Nothing]
  BY <1>3, ActivatedIs, UnselectedIs DEF Begun, Displays, Pages
<1>4. CASE /\ at = "listed" /\ win = p /\ selected = Unselected
           /\ gds = [page |-> "list", module |-> Nothing, category |-> Nothing]
  BY <1>1, <1>4, UnselectedIs DEF Begun, Displays, Pages
<1>5. CASE /\ at = "shown" /\ win = Refreshed(v)
           /\ selected = [Unselected EXCEPT !.module = FirstModule, !.category = category]
           /\ gds = [page |-> "data", module |-> FirstModule, category |-> category]
  <2> HIDE DEF p
  <2>a. p \in Windows
    BY <1>1 DEF Offering
  <2>b. v \in Windows
    BY <2>a DEF Windows, Pages
  <2>c. v.branch = p.branch /\ v.module = p.module /\ v.category = category /\ v.prompt = p.prompt
    BY <2>a DEF Windows
  <2>1. /\ v \in Windows /\ v.branch = "module" /\ v.module = FirstModule
        /\ v.category = category /\ v.prompt = NoPrompt
    BY <1>1, <2>b, <2>c
  <2> HIDE DEF v
  <2>2. /\ Offering(win) /\ win.branch = "module" /\ win.module = FirstModule
        /\ win.category = category /\ win.prompt = NoPrompt
    BY <1>5, <2>1, RefreshedLike
  <2>3. /\ selected \in Selections /\ selected.gate = 0 /\ selected.module = FirstModule
        /\ selected.category = category
    BY <1>0, <1>5, UnselectedIs DEF Selections
  <2>4. gds \in Displays
    BY <1>0, <1>5 DEF Displays, Pages
  <2> QED
    BY <1>5, <2>2, <2>3, <2>4 DEF Begun
<1> QED
  BY <1>2, <1>3, <1>4, <1>5

LEMMA InitIs ==
    ASSUME WindowAssumption, WindowInit
    PROVE  /\ \E category \in Categories : Begun(category)
           /\ calls = {} /\ wire = <<>> /\ State
           /\ \A n \in Numbers : navs[n].at = "none" /\ navs[n].events = <<>>
<1>1. PICK setting \in Settings, category \in Categories :
         /\ Settled(setting.at, category)
         /\ clicks = setting.clicks /\ faults = setting.faults /\ may = setting.may
  BY DEF WindowInit
<1>2. /\ setting.at \in {"fresh", "listed", "shown"} /\ clicks \in 0..MaxClicks /\ faults \in Nat
      /\ may \subseteq Chances
  BY <1>1 DEF WindowAssumption
<1>3. Begun(category)
  BY <1>1, <1>2, SettledIs
<1>4. /\ calls = {} /\ wire = <<>> /\ news = <<>>
      /\ navs = [n \in Numbers |-> [at |-> "none", item |-> Nothing, events |-> <<>>]]
      /\ engine = [run |-> 0, ended |-> [n \in Numbers |-> "no"]]
      /\ hurried = FALSE
  BY DEF WindowInit
<1>5. navs \in [Numbers -> Journeys] /\ \A n \in Numbers : Progress(navs[n])
  BY <1>4 DEF Journeys, Progress
<1>6. engine \in [run: 0..MaxClicks, ended: [Numbers -> Endings]]
  BY <1>4, Zero DEF Endings
<1>7. IsFiniteSet(calls)
  BY <1>4, FS_EmptySet
<1>10. calls \subseteq Calls /\ wire \in Seq(Happenings) /\ news \in Seq(Tidings)
  BY <1>4
<1>12. hurried \in BOOLEAN
  BY <1>4, Zenon
<1>11. win \in Windows /\ Offering(win) /\ gds \in Displays /\ selected \in Selections
  BY <1>3 DEF Begun, Offering
<1>8. Formed /\ Offering(win)
  BY <1>2, <1>5, <1>6, <1>7, <1>10, <1>11, <1>12 DEF Formed, ShapeCalls, ShapeServer, ShapeBounds
<1>9. Numbered
  BY <1>4 DEF Numbered
<1> QED
  BY <1>3, <1>4, <1>8, <1>9 DEF State

LEMMA StateTypes ==
    ASSUME State
    PROVE  WindowTypeOK
<1>1. /\ win \in Windows /\ ShapeCalls /\ ShapeServer /\ hurried \in BOOLEAN
  BY DEF State, Formed, ShapeBounds
<1>2. \A n \in Numbers :
          /\ navs[n].at \in {"none", "driving", "asked", "chosen", "ended"}
          /\ navs[n].item \in Items \cup {Nothing}
          /\ Len(navs[n].events) <= 2
  <2> SUFFICES ASSUME NEW n \in Numbers
               PROVE  /\ navs[n].at \in {"none", "driving", "asked", "chosen", "ended"}
                      /\ navs[n].item \in Items \cup {Nothing}
                      /\ Len(navs[n].events) <= 2
    OBVIOUS
  <2>1. navs[n] \in Journeys /\ Progress(navs[n])
    BY <1>1 DEF ShapeServer
  <2> QED
    BY <2>1 DEF Journeys, Progress
<1>3. engine.run \in 0..MaxClicks
  BY <1>1 DEF ShapeServer
<1>4. IsFiniteSet(calls) /\ calls \subseteq Calls /\ gds \in Displays /\ selected \in Selections
  BY <1>1 DEF ShapeCalls, ShapeServer
<1> QED
  BY <1>1, <1>2, <1>3, <1>4, Zenon DEF WindowTypeOK

(* Every variable of the window, of its calls and of what the server keeps *)
(* has its type, whatever calls cross one another: the answers and events  *)
(* of diagnostics_window.py never leave a record half made.                *)
THEOREM WindowTypeCorrect == WindowSpec => []WindowTypeOK
<1>1. WindowInit => State
  BY WindowAssumption, InitIs
<1>2. State /\ [WindowNext]_windowVars => State'
  BY WindowAssumption, StateStays
<1>3. State => WindowTypeOK
  BY StateTypes
<1> QED
  BY <1>1, <1>2, <1>3, PTL DEF WindowSpec

-----------------------------------------------------------------------------
(* Whom the window follows.                                                *)

LEMMA FollowingOf ==
    ASSUME NEW w \in Windows
    PROVE  /\ Refreshed(w).following = w.following
           /\ \A B \in SUBSET Buttons : Enables(w, B).following = w.following
           /\ \A B \in SUBSET Buttons : Disables(w, B).following = w.following
           /\ Cleared(w) \in Windows /\ Cleared(w).following = w.following
BY DEF Refreshed, Enables, Disables, Cleared, Windows

(* A window made from another by any of these follows whom that one does.  *)
Alike(w, v) == v \in Windows /\ v.following = w.following

LEMMA AlikeMade ==
    ASSUME WindowAssumption, NEW w \in Windows
    PROVE  /\ Alike(w, w) /\ Alike(w, Refreshed(w)) /\ Alike(w, Cleared(w))
           /\ \A B \in SUBSET Buttons : Alike(w, Enables(w, B)) /\ Alike(w, Disables(w, B))
<1>1. Refreshed(w) \in Windows
  BY RefreshedIs
<1>2. \A B \in SUBSET Buttons : Enables(w, B) \in Windows /\ Disables(w, B) \in Windows
  BY DEF Enables, Disables, Windows
<1> QED
  BY <1>1, <1>2, FollowingOf DEF Alike

LEMMA TechnicianFollows ==
    ASSUME WindowAssumption, Formed, Technician
    PROVE  win'.following = win.following
<1>0. win \in Windows /\ Cleared(win) \in Windows
      /\ Cleared(win).following = win.following
  BY AlikeMade DEF Formed, Alike
<1>b. /\ {"module", "read"} \in SUBSET Buttons /\ {"category", "read", "ai"} \in SUBSET Buttons
      /\ {"read"} \in SUBSET Buttons /\ {"clear"} \in SUBSET Buttons
  BY DEF Buttons
<1>1. CASE ClickModuleDiagnostics
  <2> DEFINE b == Cleared(win)
             v == [b EXCEPT !.branch = "module", !.nav = TRUE, !.prompt = NoPrompt]
  <2>1. win' = Refreshed(v)
    BY <1>1, Zenon DEF ClickModuleDiagnostics, Clicks, ClicksAs
  <2>3. b \in Windows /\ b.following = win.following
    BY <1>0
  <2> HIDE DEF b
  <2>2. v \in Windows /\ v.following = b.following
    BY <2>3, Zero DEF Windows, NoPrompt
  <2> QED
    BY <2>1, <2>2, <2>3, FollowingOf
<1>2. CASE ClickVehicleDiagnostics
  <2> DEFINE b == Cleared(win)
             v == [b EXCEPT !.branch = "vehicle", !.nav = TRUE, !.page = "none"]
  <2>1. win' = Refreshed(v)
    BY <1>2, Zenon DEF ClickVehicleDiagnostics, Clicks, ClicksAs
  <2>3. b \in Windows /\ b.following = win.following
    BY <1>0
  <2> HIDE DEF b
  <2>2. v \in Windows /\ v.following = b.following
    BY <2>3 DEF Windows, Pages
  <2> QED
    BY <2>1, <2>2, <2>3, FollowingOf
<1>3. ASSUME NEW m \in Modules, ChooseModule(m)
      PROVE  win'.following = win.following
  BY <1>0, <1>3 DEF ChooseModule, Windows
<1>4. ASSUME NEW g \in Categories, ChooseCategory(g)
      PROVE  win'.following = win.following
  <2> DEFINE v == [win EXCEPT !.category = g, !.confirmed = FALSE]
  <2>1. win' = Refreshed(v)
    BY <1>4, Zenon DEF ChooseCategory, OnDataCategorySelected
  <2>w. win \in Windows
    BY <1>0
  <2>a. v \in Windows
    BY <2>w DEF Windows
  <2>b. v.following = win.following
    BY <2>w DEF Windows
  <2>2. v \in Windows /\ v.following = win.following
    BY <2>a, <2>b
  <2> HIDE DEF v
  <2> QED
    BY <2>1, <2>2, FollowingOf
<1>5. ASSUME NEW w \in Windows, NEW hasty, SelectsCategory(w, hasty)
      PROVE  win'.following = w.following
  <2>1. win' = Disables(w, {"category", "read", "ai"})
    BY <1>5, Zenon DEF SelectsCategory, ClicksAs
  <2> QED
    BY <1>b, <2>1, FollowingOf
<1>6. ASSUME NEW g \in Categories, SubmitCategoryPrompt(g)
      PROVE  win'.following = win.following
  <2> DEFINE v == [win EXCEPT !.category = g, !.prompt = NoPrompt]
  <2>1. \E hasty : SelectsCategory(v, hasty)
    BY <1>6, Zenon DEF SubmitCategoryPrompt
  <2>2. v \in Windows /\ v.following = win.following
    BY <1>0, Zero DEF Windows, NoPrompt
  <2> HIDE DEF v
  <2> QED
    BY <1>5, <2>1, <2>2
<1>7. CASE ClickSelectModule
  <2> DEFINE v == [win EXCEPT !.offered = {}, !.category = Nothing]
  <2>1. win' = Disables(v, {"module", "read"})
    BY <1>7, Zenon DEF ClickSelectModule, Clicks, ClicksAs
  <2>w. win \in Windows
    BY <1>0
  <2>a. v \in Windows
    BY <2>w DEF Windows
  <2>b. v.following = win.following
    BY <2>w DEF Windows
  <2>2. v \in Windows /\ v.following = win.following
    BY <2>a, <2>b
  <2> HIDE DEF v
  <2> QED
    BY <1>b, <2>1, <2>2, FollowingOf
<1>8. CASE ClickSelectCategory
  BY <1>0, <1>5, <1>8 DEF ClickSelectCategory
<1>9. CASE ClickAiDiagnose \/ ClickAiRetry
  <2> DEFINE v == [win EXCEPT !.pending = TRUE, !.retry = FALSE]
  <2>1. win' = Refreshed(v)
    BY <1>9, Zenon DEF ClickAiDiagnose, ClickAiRetry, ClicksAs
  <2>w. win \in Windows
    BY <1>0
  <2>a. v \in Windows
    BY <2>w DEF Windows
  <2>b. v.following = win.following
    BY <2>w DEF Windows
  <2>2. v \in Windows /\ v.following = win.following
    BY <2>a, <2>b
  <2> HIDE DEF v
  <2> QED
    BY <2>1, <2>2, FollowingOf
<1>10. CASE ClickReadDtcs
  <2>1. win' = Disables(win, {"read"})
    BY <1>10, Zenon DEF ClickReadDtcs, ClicksAs
  <2> QED
    BY <1>0, <1>b, <2>1, FollowingOf
<1>11. CASE ClickClearDtcs
  <2>1. win' = Disables(win, {"clear"})
    BY <1>11, Zenon DEF ClickClearDtcs, ClicksAs
  <2> QED
    BY <1>0, <1>b, <2>1, FollowingOf
<1>12. CASE \E option \in {"override", "cancel"} : SubmitDecision(option)
  <2>1. win' = [win EXCEPT !.prompt = NoPrompt]
    BY <1>12, Zenon DEF SubmitDecision, Clicks, ClicksAs
  <2> QED
    BY <1>0, <2>1 DEF Windows
<1>13. CASE AnswerDialog \/ CloseDialog
  <2>1. win' = [win EXCEPT !.modal.on = FALSE] \/ win' = [win EXCEPT !.modal = NoModal]
    BY <1>13 DEF AnswerDialog, CloseDialog
  <2> QED
    BY <1>0, <2>1 DEF Windows
<1> QED
  BY <1>1, <1>2, <1>3, <1>4, <1>6, <1>7, <1>8, <1>9, <1>10, <1>11, <1>12, <1>13, Zenon
     DEF Technician

LEMMA AlikeAgain ==
    ASSUME NEW u, NEW w, NEW v, Alike(u, w), Alike(w, v)
    PROVE  Alike(u, v)
BY DEF Alike

LEMMA PopulatedAlike ==
    ASSUME WindowAssumption, NEW w \in Windows
    PROVE  Alike(w, Populated(w))
<1> DEFINE b == Cleared(w)
           v == [b EXCEPT !.branch = "module", !.listed = Modules, !.module = FirstModule,
                          !.page = "list"]
<1>1. Populated(w) = Refreshed(v)
  BY Zenon DEF Populated
<1>2. b \in Windows /\ b.following = w.following
  BY AlikeMade DEF Alike
<1> HIDE DEF b
<1>3. FirstModule \in Modules
  BY DEF WindowAssumption
<1>b. b \in Windows
  BY <1>2
<1>p. "list" \in Pages
  BY DEF Pages
<1> DEFINE u == [b EXCEPT !.branch = "module", !.listed = Modules]
<1>u. u \in Windows
  BY <1>b DEF Windows
<1>f. u.following = b.following
  BY <1>b DEF Windows
<1>e. v = [u EXCEPT !.module = FirstModule, !.page = "list"]
  OBVIOUS
<1> HIDE DEF u, v
<1>m. v \in Windows
  BY <1>e, <1>u, <1>3, <1>p DEF Windows
<1>g. v.following = u.following
  BY <1>e, <1>u DEF Windows
<1>4. v \in Windows /\ v.following = b.following
  BY <1>m, <1>g, <1>f
<1> QED
  BY <1>1, <1>2, <1>4, AlikeMade DEF Alike

LEMMA StartedAlike ==
    ASSUME WindowAssumption, NEW c \in Calls, NEW w \in Windows,
           HandleStarted(c, w) \/ ThenAsks(c, w, "connect")
    PROVE  Alike(w, win')
<1> DEFINE v == [w EXCEPT !.prompt = [kind |-> "decision", id |-> c.n]]
<1>1. c.n \in 0..MaxClicks
  BY DEF Calls
<1>2. v \in Windows /\ v.following = w.following
  BY <1>1 DEF Windows
<1>3. win' = Populated(w) \/ win' = w \/ win' = v \/ win' = Refreshed(w)
  BY DEF HandleStarted, Handled, ThenAsks, PromptsDecision
<1> HIDE DEF v
<1> QED
  BY <1>2, <1>3, PopulatedAlike, AlikeMade DEF Alike

LEMMA HandleFollows ==
    ASSUME WindowAssumption, Formed, NEW c \in calls, Handle(c)
    PROVE  \/ win'.following = win.following
           \/ c.op = "navigate" /\ c.out # "fail" /\ win'.following = selected.nav
<1>0. /\ c \in Calls /\ c.op \in Ops /\ win \in Windows /\ {"start"} \in SUBSET Buttons
      /\ selected.ai \in 0..MaxClicks /\ selected.nav \in 0..MaxClicks
  BY DEF Formed, ShapeCalls, ShapeServer, Calls, Buttons, Selections
<1> DEFINE t == Enables(win, {"start"})
<1>t. Alike(win, t) /\ t \in Windows
  BY <1>0, AlikeMade DEF Alike
<1>1. CASE c.op = "start"
  <2> DEFINE w == [win EXCEPT !.nav = FALSE]
  <2>1. Alike(win, w)
    BY <1>0 DEF Alike, Windows
  <2>2. HandleStarted(c, Enables(w, {"start"}))
    BY <1>0, <1>1, HandlerOf, Zenon DEF HandleStart
  <2> HIDE DEF w
  <2>3. Alike(w, Enables(w, {"start"}))
    BY <1>0, <2>1, AlikeMade DEF Alike
  <2>4. Alike(Enables(w, {"start"}), win')
    BY <1>0, <2>2, <2>3, StartedAlike DEF Alike
  <2> QED
    BY <2>1, <2>3, <2>4 DEF Alike
<1>2. CASE c.op = "connect"
  <2>1. HandleStarted(c, t)
    BY <1>0, <1>2, HandlerOf, Zenon DEF HandleConnect
  <2> HIDE DEF t
  <2> QED
    BY <1>0, <1>t, <2>1, StartedAlike DEF Alike
<1>3. CASE c.op = "decide"
  <2>1. \/ win' = win
        \/ ThenAsks(c, Refreshed(t), "connect")
        \/ HandleStarted(c, t)
    BY <1>0, <1>3, HandlerOf DEF HandleDecide, Handled
  <2> HIDE DEF t
  <2>2. Alike(t, Refreshed(t))
    BY <1>t, AlikeMade
  <2>3. HandleStarted(c, t) => Alike(t, win')
    BY <1>0, <1>t, StartedAlike
  <2>4. ThenAsks(c, Refreshed(t), "connect") => win' = Refreshed(t)
    BY DEF ThenAsks
  <2> QED
    BY <1>t, <2>1, <2>2, <2>3, <2>4 DEF Alike
<1>4. CASE c.op = "navigate"
  <2>1. \/ win' = [t EXCEPT !.nav = FALSE]
        \/ c.out # "fail" /\ win' = [t EXCEPT !.navid = TRUE, !.following = selected.nav]
    BY <1>0, <1>4, HandlerOf, Zenon DEF HandleNavigate, Handled
  <2> HIDE DEF t
  <2> DEFINE s == [t EXCEPT !.nav = FALSE]
             f == [t EXCEPT !.navid = TRUE, !.following = selected.nav]
  <2>2. t \in Windows
    BY <1>t
  <2>3. s.following = t.following
    BY <2>2 DEF Windows
  <2>4. f.following = selected.nav
    BY <2>2 DEF Windows
  <2>5. win' = s \/ (c.out # "fail" /\ win' = f)
    BY <2>1
  <2>6. t.following = win.following
    BY <1>t DEF Alike
  <2> HIDE DEF s, f
  <2> QED
    BY <1>4, <2>3, <2>4, <2>5, <2>6
<1>5. CASE c.op = "answer"
  BY <1>0, <1>5, HandlerOf DEF Handled
<1>6. CASE c.op \in {"module", "category"}
  <2> DEFINE m == [win EXCEPT !.offered = Categories, !.category = Nothing,
                              !.confirmed = FALSE, !.prompt = [kind |-> "category", id |-> 0]]
             g == [win EXCEPT !.confirmed = TRUE]
  <2>w. win \in Windows
    BY <1>0
  <2>g. g \in Windows /\ g.following = win.following
    BY <2>w DEF Windows
  <2> DEFINE k == [win EXCEPT !.offered = Categories, !.category = Nothing]
  <2>k. k \in Windows
    BY <2>w DEF Windows
  <2>j. k.following = win.following
    BY <2>w DEF Windows
  <2>e. m = [k EXCEPT !.confirmed = FALSE, !.prompt = [kind |-> "category", id |-> 0]]
    OBVIOUS
  <2>2. win' = Refreshed(win) \/ win' = Refreshed(m) \/ win' = Refreshed(g)
    BY <1>0, <1>6, HandlerOf DEF HandleModule, HandleCategory, Handled
  <2> HIDE DEF k, m, g
  <2>z. 0 \in 0..MaxClicks
    BY Zero
  <2>m. m \in Windows
    BY <2>e, <2>k, <2>z DEF Windows
  <2>f. m.following = k.following
    BY <2>e, <2>k DEF Windows
  <2> QED
    BY <2>w, <2>g, <2>j, <2>m, <2>f, <2>2, FollowingOf
<1>7. CASE c.op \in {"ai", "retry"}
  <2> DEFINE w == [win EXCEPT !.pending = FALSE]
             r == [w EXCEPT !.ai = TRUE, !.reading = selected.ai]
             d == [w EXCEPT !.reading = 0, !.pending = FALSE, !.ai = FALSE]
  <2>1. Alike(win, w)
    BY <1>0 DEF Alike, Windows
  <2>2. win' = Refreshed(w) \/ win' = Refreshed(r) \/ win' = Refreshed(d)
    BY <1>0, <1>7, HandlerOf DEF HandleAi, Handled, AiDone
  <2> HIDE DEF w
  <2>3. w \in Windows /\ w.following = win.following /\ 0 \in 0..MaxClicks
    BY <2>1, Zero DEF Alike
  <2>r. selected.ai \in 0..MaxClicks
    BY <1>0
  <2>4. r \in Windows /\ r.following = w.following
    BY <2>3, <2>r DEF Windows
  <2>5. d \in Windows /\ d.following = w.following
    BY <2>3 DEF Windows
  <2> HIDE DEF r, d
  <2> QED
    BY <2>2, <2>3, <2>4, <2>5, FollowingOf
<1>8. CASE c.op \in {"read", "clear"}
  <2> DEFINE p == [win EXCEPT !.page = "data"]
  <2>1. Alike(win, p)
    BY <1>0 DEF Alike, Windows, Pages
  <2>2. \E u \in {win, p} : win' = Refreshed(u) \/ win' = [Refreshed(u) EXCEPT !.refresh = TRUE]
    BY <1>0, <1>8, HandlerOf, Zenon DEF HandleDtcs, Handled
  <2>3. PICK u \in {win, p} : win' = Refreshed(u) \/ win' = [Refreshed(u) EXCEPT !.refresh = TRUE]
    BY <2>2
  <2> DEFINE s == Refreshed(u)
  <2>4. Alike(win, s)
    BY <1>0, <2>1, <2>3, AlikeMade DEF Alike
  <2> HIDE DEF s, p
  <2>5. win' = s \/ win' = [s EXCEPT !.refresh = TRUE]
    BY <2>3 DEF s
  <2> QED
    BY <2>4, <2>5 DEF Alike, Windows
<1>9. CASE c.op = "status"
  <2> DEFINE s == c.status
             w == [win EXCEPT !.refresh = FALSE, !.ai = s.ai, !.nav = s.nav, !.page = s.page,
                              !.ready = s.ready]
             p == [w EXCEPT !.prompt = [kind |-> "decision", id |-> s.gate]]
             f == [win EXCEPT !.refresh = FALSE]
  <2>1. s \in Snapshots
    BY <1>0 DEF Calls
  <2>2. win' = f \/ win' = Refreshed(w) \/ win' = Refreshed(p)
    BY <1>0, <1>9, HandlerOf DEF HandleStatus, Handled, PromptsDecision
  <2>4. /\ s.ai \in BOOLEAN /\ s.nav \in BOOLEAN /\ s.page \in Pages /\ s.ready \in BOOLEAN
        /\ s.gate \in 0..MaxClicks
    BY <2>1 DEF Snapshots
  <2> HIDE DEF s
  <2>w. win \in Windows
    BY <1>0
  <2> DEFINE k == [win EXCEPT !.refresh = FALSE, !.ai = s.ai, !.nav = s.nav]
  <2>i. s.ai \in BOOLEAN /\ s.nav \in BOOLEAN
    BY <2>4
  <2>j. k \in Windows
    BY <2>w, <2>i DEF Windows
  <2>l. k.following = win.following
    BY <2>w DEF Windows
  <2>k. k \in Windows /\ k.following = win.following
    BY <2>j, <2>l
  <2>e. w = [k EXCEPT !.page = s.page, !.ready = s.ready]
    OBVIOUS
  <2> HIDE DEF k, w
  <2>3. w \in Windows /\ w.following = win.following
    BY <2>e, <2>k, <2>4 DEF Windows
  <2>5. f \in Windows /\ f.following = win.following
    BY <1>0 DEF Windows
  <2> HIDE DEF w
  <2>6. p \in Windows /\ p.following = w.following
    BY <2>3, <2>4 DEF Windows
  <2> HIDE DEF p, f
  <2> QED
    BY <2>2, <2>3, <2>5, <2>6, FollowingOf
<1> QED
  BY <1>0, <1>1, <1>2, <1>3, <1>4, <1>5, <1>6, <1>7, <1>8, <1>9 DEF Ops

-----------------------------------------------------------------------------
(* What holds while the technician has not hurried.  A click waits until   *)
(* nothing is under way, so that at most one call waits, and alone: what   *)
(* the window shows then is what was asked for last, and GDS2 is there or  *)
(* on its way.                                                             *)

\* a call that has not been served, or moves GDS2 and has not been handled
Waiting(c) == c.op \notin {"status", "answer"} /\ (Undone(c) \/ c.op \in Navigating)

\* a call the window gave up, and the failure that was posted for it
Twins(c, d) == c.at = "late" /\ d.at = "done" /\ d.out = "fail" /\ d.op = c.op

OneAtATime ==
    \A c, d \in calls : Waiting(c) /\ Waiting(d) => c = d \/ Twins(c, d) \/ Twins(d, c)

Active(n) == navs[n].at \in {"driving", "asked", "chosen"} \/ navs[n].events # <<>>
Underways == \E n \in Numbers : Active(n)
DoneInWire == \E i \in 1..Len(wire) : wire[i].ev = "done"
Roaming == Underways \/ wire # <<>>

(* Nothing of a navigation is about while a call waits, but for the one    *)
(* that started it; and nobody follows one before that call is handled.    *)
Alone == \A c \in calls : Waiting(c) /\ (c.op # "navigate" \/ Undone(c)) => ~Roaming
Unfollowed == \A c \in calls : Waiting(c) /\ c.op = "navigate" => win.following = 0 /\ wire = <<>>

OneRoute == \A n, m \in Numbers : Active(n) /\ Active(m) => n = m
OneDone == \A i, j \in 1..Len(wire) : wire[i].ev = "done" /\ wire[j].ev = "done" => i = j

There(item) == gds = [page |-> "data", module |-> Nothing, category |-> item]

(* GDS2 stays where a navigation has ended until the window hears of it.   *)
Landing ==
    /\ \A n \in Numbers : \A i \in 1..Len(navs[n].events) :
          navs[n].events[i].ev = "done" => There(navs[n].events[i].item)
    /\ \A i \in 1..Len(wire) : wire[i].ev = "done" =>
          There(wire[i].item) /\ selected.category = wire[i].item /\ ~Underways

\* the window shows the vehicle branch, and nothing in it, as long
Guided ==
    Underways \/ DoneInWire \/ (\E c \in calls : Waiting(c) /\ c.op = "navigate")
        => win.branch = "vehicle" /\ win.category = Nothing

Bare == /\ win.listed = {} /\ win.offered = {} /\ win.category = Nothing /\ win.module = Nothing
        /\ win.prompt.kind # "category"

(* The network gate is up, or its call is about, before anything is        *)
(* listed.                                                                 *)
Gated ==
    /\ selected.gate # 0 => Bare /\ ~Underways /\ ~DoneInWire
    /\ \A c \in calls : Waiting(c) =>
         /\ c.op \in {"start", "connect"} => Bare
         /\ c.op = "decide" /\ c.at = "done" /\ c.out # "fail" => Bare
         /\ c.op \in {"connect", "module"} => selected.gate = 0
         /\ c.op \in {"start", "decide"} /\ c.at = "done"
            /\ c.out \in {"modules", "devices", "selection"} => selected.gate = 0

\* GDS2 is in the session's module, or in none
Belongs == gds.module \in {Nothing, selected.module}

Displayed(g) == selected.category = g
                /\ (gds.page = "data" => gds.category = g /\ gds.module = selected.module)

Choosing ==
    \A c \in calls : Waiting(c) =>
      /\ c.op = "module" => win.category = Nothing
      /\ c.op = "category" => win.branch = "module" /\ c.category = win.category
                              /\ c.category # Nothing
      /\ c.op = "category" /\ c.at = "done" /\ c.out # "fail" => Displayed(c.category)

(* A diagnosis, a read or a clear on its way says what the window shows,   *)
(* and its module is the session's.                                        *)
Asking ==
    \A c \in calls : Undone(c) /\ c.op \in {"ai", "retry", "read", "clear"} =>
      /\ c.module = win.module /\ c.category = win.category
      /\ win.branch = "module" => c.module = selected.module
      /\ c.op = "ai" => win.branch = "module"
      /\ c.op \in {"ai", "read", "clear"} =>
            \/ win.branch = "module" /\ win.confirmed /\ c.module # Nothing /\ c.category # Nothing
            \/ win.branch = "vehicle" /\ c.category # Nothing

(* What the window takes for confirmed is what the session has, and what   *)
(* GDS2 shows if it shows data.                                            *)
Agreed ==
    /\ win.branch = "module" /\ win.confirmed /\ win.category # Nothing => Displayed(win.category)
    /\ win.branch = "vehicle" /\ win.category # Nothing =>
          /\ win.category \in Items /\ selected.category = win.category
          /\ gds.page = "data" => There(win.category)

Routes == OneAtATime /\ Alone /\ Unfollowed /\ OneRoute /\ OneDone /\ Landing /\ Guided
Targets == Gated /\ Belongs /\ Choosing /\ Asking /\ Agreed
Orderly == Routes /\ Targets

(* Whom the window follows, or the session is bound to, is on its way or   *)
(* has something to tell, whoever hurried.                                 *)
Followed == /\ win.following # 0 => win.following \in Numbers /\ Active(win.following)
            /\ selected.nav # 0 => selected.nav \in Numbers /\ Active(selected.nav)

Patient == Followed /\ (~hurried => Orderly)

(* The window shows what it showed, and the calls that wait are those that *)
(* waited, or were given up or refused.                                    *)
Inherits(d) ==
    \E c \in calls :
       \/ d = c
       \/ /\ Undone(c) /\ d.op = c.op /\ d.module = c.module /\ d.category = c.category
          /\ d.at = "late" \/ (d.at = "done" /\ d.out = "fail")

Quieter ==
    /\ Steady(win, win')
    /\ gds' = gds /\ selected'.module = selected.module /\ selected'.category = selected.category
    /\ selected'.gate \in {selected.gate, 0}
    /\ \A d \in calls' : Waiting(d) => Inherits(d)
    /\ \A n \in Numbers : Active(n)' => Active(n)
    /\ \A n \in Numbers : navs'[n].events = navs[n].events
    /\ \A i \in 1..Len(wire') : wire'[i].ev = "done" =>
          \E j \in 1..Len(wire) : wire[j] = wire'[i]
    /\ \A d \in calls' : Waiting(d) =>
          /\ d.op # "navigate" \/ Undone(d) => (Roaming' => Roaming)
          /\ d.op = "navigate" => (wire' # <<>> => wire # <<>>)
                                  /\ win'.following \in {win.following, 0}
    /\ OneAtATime' /\ OneDone'

LEMMA QuieterRoutes ==
    ASSUME Routes, Quieter
    PROVE  Routes'
<1>0. /\ win'.branch = win.branch /\ win'.category = win.category
      /\ gds' = gds /\ selected'.category = selected.category
      /\ \A d \in calls' : Waiting(d) => Inherits(d)
      /\ \A n \in Numbers : Active(n)' => Active(n)
      /\ \A n \in Numbers : navs'[n].events = navs[n].events
      /\ OneAtATime' /\ OneDone'
  BY DEF Quieter, Steady
<1>u. Underways' => Underways
  BY <1>0 DEF Underways
<1>d. DoneInWire' => DoneInWire
  BY DEF Quieter, DoneInWire
<1>w. ASSUME NEW d \in calls', Waiting(d)
      PROVE  \E c \in calls : /\ Waiting(c) /\ c.op = d.op /\ (Undone(d) => Undone(c))
  BY <1>0, <1>w DEF Inherits, Waiting, Undone
<1>1. Alone'
  <2> SUFFICES ASSUME NEW d \in calls', Waiting(d), d.op # "navigate" \/ Undone(d)
               PROVE  ~Roaming'
    BY DEF Alone
  <2>1. Roaming' => Roaming
    BY DEF Quieter
  <2>2. PICK c \in calls : Waiting(c) /\ c.op = d.op /\ (Undone(d) => Undone(c))
    BY <1>w
  <2> QED
    BY <2>1, <2>2 DEF Routes, Alone
<1>2. Unfollowed'
  <2> SUFFICES ASSUME NEW d \in calls', Waiting(d), d.op = "navigate"
               PROVE  win'.following = 0 /\ wire' = <<>>
    BY DEF Unfollowed
  <2>1. (wire' # <<>> => wire # <<>>) /\ win'.following \in {win.following, 0}
    BY DEF Quieter
  <2>2. PICK c \in calls : Waiting(c) /\ c.op = d.op
    BY <1>w
  <2> QED
    BY <2>1, <2>2 DEF Routes, Unfollowed
<1>3. OneRoute'
  BY <1>0 DEF Routes, OneRoute
<1>4. Landing'
  <2>1. \A i \in 1..Len(wire') : wire'[i].ev = "done" =>
           \E j \in 1..Len(wire) : wire[j] = wire'[i]
    BY DEF Quieter
  <2>2. \A n \in Numbers : \A i \in 1..Len(navs'[n].events) :
           navs'[n].events[i].ev = "done" =>
              gds' = [page |-> "data", module |-> Nothing, category |-> navs'[n].events[i].item]
    BY <1>0 DEF Routes, Landing, There
  <2>3. ASSUME NEW i \in 1..Len(wire'), wire'[i].ev = "done"
        PROVE  /\ gds' = [page |-> "data", module |-> Nothing, category |-> wire'[i].item]
               /\ selected'.category = wire'[i].item /\ ~Underways'
    BY <1>0, <1>u, <2>1, <2>3 DEF Routes, Landing, There
  <2> QED
    BY <2>2, <2>3 DEF Landing, There
<1>5. Guided'
  BY <1>0, <1>u, <1>d, <1>w DEF Routes, Guided
<1> QED
  BY <1>0, <1>1, <1>2, <1>3, <1>4, <1>5 DEF Routes

LEMMA QuieterTargets ==
    ASSUME Orderly, Quieter
    PROVE  Targets'
<1>0. /\ win'.branch = win.branch /\ win'.listed = win.listed /\ win'.module = win.module
      /\ win'.offered = win.offered /\ win'.category = win.category
      /\ win'.confirmed = win.confirmed
      /\ win'.prompt.kind = "category" => win.prompt.kind = "category"
      /\ gds' = gds /\ selected'.module = selected.module /\ selected'.category = selected.category
      /\ selected'.gate \in {selected.gate, 0}
      /\ \A d \in calls' : Waiting(d) => Inherits(d)
  BY DEF Quieter, Steady
<1>u. Underways' => Underways
  BY DEF Underways, Quieter
<1>d. DoneInWire' => DoneInWire
  BY DEF Quieter, DoneInWire
<1>b. Bare => Bare'
  BY <1>0 DEF Bare
<1>g. \A x : Displayed(x)' <=> Displayed(x)
  BY <1>0 DEF Displayed
<1>w. ASSUME NEW d \in calls', Waiting(d)
      PROVE  \E c \in calls : /\ Waiting(c) /\ c.op = d.op /\ (Undone(d) => Undone(c))
                              /\ c.module = d.module /\ c.category = d.category
                              /\ d = c \/ d.at = "late" \/ (d.at = "done" /\ d.out = "fail")
  BY <1>0, <1>w DEF Inherits, Waiting, Undone
<1>1. Gated'
  <2>1. selected'.gate # 0 => Bare' /\ ~Underways' /\ ~DoneInWire'
    BY <1>0, <1>u, <1>d, <1>b DEF Orderly, Targets, Gated
  <2>2. ASSUME NEW d \in calls', Waiting(d)
        PROVE  /\ d.op \in {"start", "connect"} => Bare'
               /\ d.op = "decide" /\ d.at = "done" /\ d.out # "fail" => Bare'
               /\ d.op \in {"connect", "module"} => selected'.gate = 0
               /\ d.op \in {"start", "decide"} /\ d.at = "done"
                  /\ d.out \in {"modules", "devices", "selection"} => selected'.gate = 0
    <3>1. PICK c \in calls : /\ Waiting(c) /\ c.op = d.op
                             /\ d = c \/ d.at = "late" \/ (d.at = "done" /\ d.out = "fail")
      BY <1>w, <2>2
    <3> QED
      BY <1>0, <1>b, <3>1 DEF Orderly, Targets, Gated
  <2> QED
    BY <2>1, <2>2 DEF Gated
<1>2. Belongs'
  BY <1>0 DEF Orderly, Targets, Belongs
<1>3. Choosing'
  <2> SUFFICES ASSUME NEW d \in calls', Waiting(d)
               PROVE  /\ d.op = "module" => win'.category = Nothing
                      /\ d.op = "category" => win'.branch = "module" /\ d.category = win'.category
                                              /\ d.category # Nothing
                      /\ d.op = "category" /\ d.at = "done" /\ d.out # "fail"
                            => Displayed(d.category)'
    BY DEF Choosing
  <2>1. PICK c \in calls : /\ Waiting(c) /\ c.op = d.op /\ c.category = d.category
                           /\ d = c \/ d.at = "late" \/ (d.at = "done" /\ d.out = "fail")
    BY <1>w
  <2> QED
    BY <1>0, <1>g, <2>1 DEF Orderly, Targets, Choosing
<1>4. Asking'
  <2> SUFFICES ASSUME NEW d \in calls', Undone(d), d.op \in {"ai", "retry", "read", "clear"}
               PROVE  /\ d.module = win'.module /\ d.category = win'.category
                      /\ win'.branch = "module" => d.module = selected'.module
                      /\ d.op = "ai" => win'.branch = "module"
                      /\ d.op \in {"ai", "read", "clear"} =>
                           \/ /\ win'.branch = "module" /\ win'.confirmed
                              /\ d.module # Nothing /\ d.category # Nothing
                           \/ win'.branch = "vehicle" /\ d.category # Nothing
    BY DEF Asking
  <2>1. Waiting(d)
    BY DEF Waiting
  <2>2. PICK c \in calls : /\ Undone(c) /\ c.op = d.op /\ c.category = d.category
                           /\ c.module = d.module
    BY <1>w, <2>1
  <2> QED
    BY <1>0, <2>2 DEF Orderly, Targets, Asking
<1>5. Agreed'
  <2>1. \A x : There(x)' <=> There(x)
    BY <1>0 DEF There
  <2> QED
    BY <1>0, <1>g, <2>1 DEF Orderly, Targets, Agreed
<1> QED
  BY <1>1, <1>2, <1>3, <1>4, <1>5 DEF Targets

LEMMA Fades ==
    ASSUME Orderly, Quieter
    PROVE  Orderly'
BY QuieterRoutes, QuieterTargets DEF Orderly

\* nothing else waits beside a call that was answered with more than a failure
LEMMA WaitsAlone ==
    ASSUME OneAtATime, NEW c \in calls, Waiting(c), c.at = "done", c.out # "fail"
    PROVE  \A d \in calls : Waiting(d) => d = c
BY DEF OneAtATime, Twins

\* the calls that wait after a step were waiting before
LEMMA FewerWait ==
    ASSUME OneAtATime, \A d \in calls' : Waiting(d) => d \in calls
    PROVE  OneAtATime'
BY DEF OneAtATime

LEMMA ReplacedWait ==
    ASSUME OneAtATime, NEW c \in calls, NEW D \in SUBSET Calls, Replaces(c, D),
           c.op # "answer",
           \A d \in D : Undone(d) \/ (d.at = "done" /\ d.out = "fail") \/ \A e \in D : ~Undone(e)
    PROVE  OneAtATime'
<1>0. /\ Undone(c) \/ c.op = "status"
      /\ \A d \in calls' : (d \in calls /\ d # c) \/ d \in D
      /\ \A d \in D : Becomes(c, d) /\ d.op = c.op
      /\ \A d, e \in D : (Undone(d) <=> Undone(e)) => d = e
      /\ c.op # "status" /\ c.at = "late" => D = {}
  BY DEF Replaces, Becomes
<1> SUFFICES ASSUME NEW d \in calls', NEW e \in calls', Waiting(d), Waiting(e)
             PROVE  d = e \/ Twins(d, e) \/ Twins(e, d)
  BY DEF OneAtATime
<1>1. CASE d \in calls /\ e \in calls
  BY <1>1 DEF OneAtATime
<1>2. ASSUME NEW x \in calls, x # c, Waiting(x), NEW y \in D, Waiting(y)
      PROVE  FALSE
  <2>1. c.op \notin {"status", "answer"} /\ Undone(c) /\ c.at # "late"
    BY <1>0, <1>2 DEF Waiting
  <2>2. Waiting(c)
    BY <2>1 DEF Waiting
  <2>3. Twins(c, x) \/ Twins(x, c)
    BY <1>2, <2>2 DEF OneAtATime
  <2> QED
    BY <2>1, <2>3 DEF Twins, Undone
<1>3. CASE d \in D /\ e \in D
  <2>1. d.op = e.op /\ d.at # "sent" /\ e.at # "sent"
    BY <1>0, <1>3 DEF Becomes
  <2>2. CASE Undone(d) <=> Undone(e)
    BY <1>0, <1>3, <2>2
  <2>3. CASE ~(Undone(d) <=> Undone(e))
    <3>1. d.at \in {"late", "done"} /\ e.at \in {"late", "done"}
      BY <1>3, <2>1 DEF Calls
    <3> QED
      BY <1>3, <2>1, <2>3, <3>1 DEF Twins, Undone
  <2> QED
    BY <2>2, <2>3
<1> QED
  BY <1>0, <1>1, <1>2, <1>3

(* A call is served: what waits then are answers to it, and failures it    *)
(* was given up with.                                                      *)
Lone(c, o) ==
    \A d \in calls' : Waiting(d) =>
       /\ d.op = c.op /\ d.at = "done"
       /\ \/ d.out = "fail" /\ d \in calls
          \/ d.out = o /\ d.category = c.category /\ d.module = c.module

LEMMA AnsweredLone ==
    ASSUME Formed, OneAtATime, NEW c \in calls, c.op \notin {"status", "answer"}, Undone(c),
           NEW o \in Outs, CallAnswered(c, o)
    PROVE  Lone(c, o) /\ OneAtATime'
<1>0. AnsweredBy(c, o)
  BY AnsweredIs
<1>1. PICK D \in SUBSET Calls : Replaces(c, D) /\ \A d \in D : d.at = "done" /\ d.out = o
  BY <1>0, Zenon DEF AnsweredBy
<1>2. OneAtATime'
  BY <1>1, ReplacedWait DEF Undone
<1>3. Waiting(c)
  BY DEF Waiting
<1>4. Lone(c, o)
  <2> SUFFICES ASSUME NEW d \in calls', Waiting(d)
               PROVE  /\ d.op = c.op /\ d.at = "done"
                      /\ \/ d.out = "fail" /\ d \in calls
                         \/ d.out = o /\ d.category = c.category /\ d.module = c.module
    BY DEF Lone
  <2>1. CASE d \in D
    BY <1>1, <2>1 DEF Replaces, Becomes
  <2>2. CASE d \notin D
    <3>1. d \in calls /\ d # c
      BY <1>1, <2>2 DEF Replaces
    <3>2. Twins(c, d) \/ Twins(d, c)
      BY <1>3, <3>1 DEF OneAtATime
    <3> QED
      BY <3>1, <3>2 DEF Twins, Undone
  <2> QED
    BY <2>1, <2>2
<1> QED
  BY <1>2, <1>4

(* All that waited has been settled.                                       *)
LEMMA Restful ==
    ASSUME \A d \in calls' : ~Waiting(d), ~Underways', ~DoneInWire',
           selected'.gate # 0 => Bare', Belongs', Agreed'
    PROVE  Orderly'
<1>1. OneAtATime' /\ Alone' /\ Unfollowed' /\ Guided' /\ Choosing'
  BY DEF OneAtATime, Alone, Unfollowed, Guided, Choosing
<1>2. \A n \in Numbers : ~Active(n)'
  BY DEF Underways
<1>3. OneRoute' /\ OneDone'
  BY <1>2 DEF OneRoute, OneDone, DoneInWire
<1>4. \A n \in Numbers : navs'[n].events = <<>>
  BY <1>2 DEF Active
<1>5. Landing'
  BY <1>4 DEF Landing, DoneInWire
<1>6. Asking'
  BY DEF Asking, Waiting
<1>7. Gated'
  BY DEF Gated
<1> QED
  BY <1>1, <1>3, <1>5, <1>6, <1>7 DEF Orderly, Routes, Targets

(* A call that was waiting alone has been served.                          *)
LEMMA Settles ==
    ASSUME Orderly, NEW c \in calls, Undone(c), c.op \notin {"status", "answer", "navigate"},
           NEW o, Lone(c, o), OneAtATime', win' = win, navs' = navs, wire' = wire,
           Gated', Belongs', Choosing', Agreed'
    PROVE  Orderly'
<1>0. Waiting(c)
  BY DEF Waiting
<1>1. ~Roaming /\ ~Roaming' /\ ~Underways' /\ wire' = <<>>
  <2>1. ~Roaming
    BY <1>0 DEF Orderly, Routes, Alone
  <2> QED
    BY <2>1 DEF Roaming, Underways, Active
<1>2. \A d \in calls' : Waiting(d) => d.op # "navigate" /\ d.at = "done"
  BY DEF Lone
<1>3. Alone' /\ Unfollowed'
  BY <1>1, <1>2 DEF Alone, Unfollowed
<1>4. \A n \in Numbers : ~Active(n)'
  BY <1>1 DEF Underways
<1>5. ~DoneInWire'
  BY <1>1 DEF DoneInWire
<1>6. Guided'
  BY <1>1, <1>2, <1>5 DEF Guided
<1>7. OneRoute' /\ OneDone'
  BY <1>4, <1>5 DEF OneRoute, OneDone, DoneInWire
<1>8. \A n \in Numbers : navs'[n].events = <<>>
  BY <1>4 DEF Active
<1>9. Landing'
  BY <1>5, <1>8 DEF Landing, DoneInWire
<1>10. Asking'
  BY <1>2 DEF Asking, Waiting, Undone
<1> QED
  BY <1>3, <1>6, <1>7, <1>9, <1>10 DEF Orderly, Routes, Targets

LEMMA ReplacedQuiet ==
    ASSUME Formed, Orderly, NEW c \in calls, NEW D \in SUBSET Calls, Replaces(c, D),
           \A d \in D : Undone(d) \/ (d.at = "done" /\ d.out = "fail"),
           UNCHANGED <<win, gds, selected, navs, wire>>
    PROVE  Orderly'
<1>0. /\ Undone(c) \/ c.op = "status"
      /\ \A d \in calls' : (d \in calls /\ d # c) \/ d \in D
      /\ \A d \in D : /\ d.op = c.op /\ d.module = c.module /\ d.category = c.category
                      /\ d.at # "sent" /\ d.at \in {"sent", "late", "done"}
  BY DEF Replaces, Becomes, Calls
<1>1. \A d \in calls' : Waiting(d) => Inherits(d)
  <2> SUFFICES ASSUME NEW d \in calls', Waiting(d)
               PROVE  Inherits(d)
    OBVIOUS
  <2>1. CASE d \in calls
    BY <2>1 DEF Inherits
  <2>2. CASE d \in D
    <3>1. Undone(c) /\ (d.at = "late" \/ (d.at = "done" /\ d.out = "fail"))
      BY <1>0, <2>2 DEF Waiting, Undone
    <3> QED
      BY <1>0, <2>2, <3>1 DEF Inherits
  <2> QED
    BY <1>0, <2>1, <2>2
<1>2. OneAtATime'
  <2>1. CASE c.op = "answer"
    <3>1. \A d \in calls' : Waiting(d) => d \in calls
      BY <1>0, <2>1 DEF Waiting
    <3> QED
      BY <3>1, FewerWait DEF Orderly, Routes
  <2>2. CASE c.op # "answer"
    BY <2>2, ReplacedWait DEF Orderly, Routes
  <2> QED
    BY <2>1, <2>2
<1>3. Steady(win, win')
  BY DEF Steady
<1>4. \A n \in Numbers : Active(n)' => Active(n)
  BY DEF Active
<1>5. Roaming' => Roaming
  BY DEF Roaming, Underways, Active
<1>6. OneDone'
  BY DEF Orderly, Routes, OneDone
<1>7. Quieter
  BY <1>1, <1>2, <1>3, <1>4, <1>5, <1>6 DEF Quieter
<1> QED
  BY <1>7, Fades

LEMMA RefusedQuiet ==
    ASSUME Formed, Orderly, NEW c \in calls, c.op # "status", Undone(c), CallAnswered(c, "fail"),
           UNCHANGED <<win, gds, selected, navs, wire>>
    PROVE  Orderly'
<1>1. "fail" \in Outs
  BY DEF Outs
<1>a. AnsweredBy(c, "fail")
  BY <1>1, AnsweredIs
<1>2. PICK D \in SUBSET Calls :
         Replaces(c, D) /\ \A d \in D : d.at = "done" /\ d.out = "fail"
  BY <1>a, Zenon DEF AnsweredBy
<1> QED
  BY <1>2, ReplacedQuiet

LEMMA AnswerOrderly ==
    ASSUME WindowAssumption, Formed, Numbered, Orderly, NEW c \in calls, Serve(c),
           c.op = "answer"
    PROVE  Orderly'
<1>0. /\ c \in Calls /\ Undone(c) /\ win' = win /\ wire' = wire /\ ServeAnswer(c)
  BY ServerOf DEF Formed, ShapeCalls
<1>1. /\ selected' = selected /\ gds' = gds
      /\ \/ CallAnswered(c, "fail") /\ navs' = navs
         \/ /\ CallAnswered(c, "ok") /\ c.q \in Numbers /\ navs[c.q].at = "asked"
            /\ navs' = [navs EXCEPT ![c.q].at = "chosen", ![c.q].item = c.category]
  BY <1>0, ServeAnswerShape
<1>2. CASE CallAnswered(c, "fail") /\ navs' = navs
  BY <1>0, <1>1, <1>2, RefusedQuiet
<1>3. CASE /\ CallAnswered(c, "ok") /\ c.q \in Numbers /\ navs[c.q].at = "asked"
           /\ navs' = [navs EXCEPT ![c.q].at = "chosen", ![c.q].item = c.category]
  <2>1. "ok" \in Outs
    BY DEF Outs
  <2>a. AnsweredBy(c, "ok")
    BY <1>0, <1>3, <2>1, AnsweredIs
  <2>2. PICK D \in SUBSET Calls : Replaces(c, D)
    BY <2>a, Zenon DEF AnsweredBy
  <2>3. \A d \in calls' : Waiting(d) => d \in calls
    BY <2>2 DEF Replaces, Becomes, Waiting
  <2>4. navs \in [Numbers -> Journeys]
    BY DEF Formed, ShapeServer
  <2>5. \A n \in Numbers : /\ navs'[n].events = navs[n].events
                             /\ navs'[n].at = IF n = c.q THEN "chosen" ELSE navs[n].at
    BY <1>3, <2>4 DEF Journeys
  <2>6. \A n \in Numbers : Active(n)' => Active(n)
    BY <1>3, <2>5 DEF Active
  <2>7. Roaming' => Roaming
    BY <1>0, <2>6 DEF Roaming, Underways
  <2>8. OneAtATime' /\ OneDone' /\ Steady(win, win')
    BY <1>0, <2>3, FewerWait DEF Orderly, Routes, OneDone, Steady
  <2>9. Quieter
    BY <1>0, <1>1, <2>3, <2>5, <2>6, <2>7, <2>8 DEF Quieter, Inherits
  <2> QED
    BY <2>9, Fades
<1> QED
  BY <1>1, <1>2, <1>3

LEMMA StartsSettle ==
    ASSUME Formed, Orderly, NEW c \in calls, Undone(c), c.op \in {"start", "connect", "decide"},
           NEW o \in Outs, CallAnswered(c, o), win' = win, wire' = wire, navs' = navs,
           Bare, Belongs',
           selected'.gate # 0 => o \notin {"modules", "devices", "selection"} /\ c.op # "connect"
    PROVE  Orderly'
<1>1. Lone(c, o) /\ OneAtATime'
  BY AnsweredLone DEF Orderly, Routes
<1>2. Waiting(c)
  BY DEF Waiting
<1>3. ~Underways' /\ ~DoneInWire'
  <2>1. ~Roaming
    BY <1>2 DEF Orderly, Routes, Alone
  <2> QED
    BY <2>1 DEF Roaming, Underways, Active, DoneInWire
<1>4. Bare' /\ win'.category = Nothing
  BY DEF Bare
<1>5. Gated'
  <2>1. \A d \in calls' : Waiting(d) => d.op = c.op /\ d.at = "done" /\ d.out \in {"fail", o}
    BY <1>1 DEF Lone
  <2> QED
    BY <1>3, <1>4, <2>1 DEF Gated
<1>6. Choosing' /\ Agreed'
  BY <1>1, <1>4 DEF Choosing, Agreed, Lone
<1> QED
  BY <1>1, <1>5, <1>6, Settles

LEMMA BelongsStill ==
    ASSUME Belongs, Astray, selected'.module = selected.module
    PROVE  Belongs'
BY DEF Belongs, Astray

LEMMA StartsOverSettles ==
    ASSUME WindowAssumption, Formed, Orderly, NEW c \in calls, Undone(c),
           c.op \in {"start", "decide"}, NEW s \in Selections, StartsOver(c, s),
           s.gate = 0, s.module = selected.module,
           win' = win, wire' = wire, navs' = navs, Bare
    PROVE  Orderly'
<1>1. Resets(s).gate = 0
  <2> DEFINE r == [s EXCEPT !.module = Nothing, !.category = Nothing, !.nav = 0, !.ai = 0]
  <2>1. Resets(s) = r
    BY ResetsIs
  <2>2. r.gate = 0
    BY DEF Selections
  <2> HIDE DEF r
  <2> QED
    BY <2>1, <2>2
<1>2. CASE /\ gds'.module = Nothing /\ selected' = Resets(s)
           /\ CallAnswered(c, "modules") \/ CallAnswered(c, "devices")
  <2>1. Belongs' /\ selected'.gate = 0 /\ "modules" \in Outs /\ "devices" \in Outs
    BY <1>1, <1>2 DEF Belongs, Outs
  <2> QED
    BY <1>2, <2>1, StartsSettle
<1>3. CASE selected' = s /\ Astray /\ CallAnswered(c, "fail")
  <2>1. Belongs' /\ selected'.gate = 0 /\ "fail" \in Outs
    BY <1>3, BelongsStill DEF Orderly, Targets, Outs
  <2> QED
    BY <1>3, <2>1, StartsSettle
<1> QED
  BY <1>2, <1>3 DEF StartsOver

LEMMA StartOrderly ==
    ASSUME WindowAssumption, Formed, Orderly, NEW c \in calls, Serve(c), c.op = "start"
    PROVE  Orderly'
<1>0. /\ c \in Calls /\ Undone(c) /\ win' = win /\ wire' = wire /\ ServeStart(c)
      /\ selected \in Selections
  BY ServerOf DEF Formed, ShapeCalls, ShapeServer
<1>1. /\ navs' = navs
      /\ \/ Refuses(c)
         \/ selected.gate = 0 /\ StartsOver(c, selected)
         \/ selected.gate = 0 /\ CallAnswered(c, "selection") /\ gds' = gds
            /\ selected' = selected
         \/ selected.gate = 0 /\ CallAnswered(c, "gate") /\ gds' = gds
            /\ selected' = [selected EXCEPT !.gate = c.n]
  BY <1>0, ServeStartShape
<1>2. Bare
  BY <1>0 DEF Orderly, Targets, Gated, Waiting
<1>3. CASE Refuses(c)
  BY <1>0, <1>3, RefusedQuiet DEF Refuses
<1>4. CASE selected.gate = 0 /\ StartsOver(c, selected)
  BY <1>0, <1>1, <1>2, <1>4, StartsOverSettles
<1>5. CASE selected.gate = 0 /\ CallAnswered(c, "selection") /\ gds' = gds /\ selected' = selected
  <2>1. Belongs' /\ "selection" \in Outs
    BY <1>5 DEF Orderly, Targets, Belongs, Outs
  <2> QED
    BY <1>0, <1>1, <1>2, <1>5, <2>1, StartsSettle
<1>6. CASE selected.gate = 0 /\ CallAnswered(c, "gate") /\ gds' = gds
           /\ selected' = [selected EXCEPT !.gate = c.n]
  <2>1. Belongs' /\ "gate" \in Outs
    BY <1>0, <1>6 DEF Orderly, Targets, Belongs, Outs, Selections
  <2> QED
    BY <1>0, <1>1, <1>2, <1>6, <2>1, StartsSettle
<1> QED
  BY <1>1, <1>3, <1>4, <1>5, <1>6

LEMMA ConnectOrderly ==
    ASSUME WindowAssumption, Formed, Orderly, NEW c \in calls, Serve(c), c.op = "connect"
    PROVE  Orderly'
<1>0. /\ c \in Calls /\ Undone(c) /\ win' = win /\ wire' = wire /\ ServeConnect(c)
  BY ServerOf DEF Formed, ShapeCalls
<1>1. /\ navs' = navs /\ selected' = selected
      /\ \/ gds'.module = Nothing /\ CallAnswered(c, "modules")
         \/ Astray /\ CallAnswered(c, "fail")
  BY <1>0, ServeConnectShape
<1>2. Bare /\ selected.gate = 0
  BY <1>0 DEF Orderly, Targets, Gated, Waiting
<1>3. Belongs' /\ "modules" \in Outs /\ "fail" \in Outs
  BY <1>1, BelongsStill DEF Orderly, Targets, Belongs, Outs
<1> QED
  BY <1>0, <1>1, <1>2, <1>3, StartsSettle

LEMMA DecideOrderly ==
    ASSUME WindowAssumption, Formed, Orderly, NEW c \in calls, Serve(c), c.op = "decide"
    PROVE  Orderly'
<1>0. /\ c \in Calls /\ Undone(c) /\ win' = win /\ wire' = wire /\ ServeDecide(c)
      /\ selected \in Selections
  BY ServerOf DEF Formed, ShapeCalls, ShapeServer
<1> DEFINE s == [selected EXCEPT !.gate = 0]
<1>1. /\ navs' = navs
      /\ \/ Refuses(c)
         \/ selected.gate # 0 /\ StartsOver(c, s)
         \/ selected.gate # 0 /\ CallAnswered(c, "cancelled") /\ gds' = gds /\ selected' = s
  BY <1>0, ServeDecideShape
<1>2. s \in Selections /\ s.gate = 0 /\ s.module = selected.module
  BY <1>0, Zero DEF Selections
<1> HIDE DEF s
<1>3. selected.gate # 0 => Bare
  BY DEF Orderly, Targets, Gated
<1>4. CASE Refuses(c)
  BY <1>0, <1>4, RefusedQuiet DEF Refuses
<1>5. CASE selected.gate # 0 /\ StartsOver(c, s)
  BY <1>0, <1>1, <1>2, <1>3, <1>5, StartsOverSettles
<1>6. CASE selected.gate # 0 /\ CallAnswered(c, "cancelled") /\ gds' = gds /\ selected' = s
  <2>1. Belongs' /\ "cancelled" \in Outs
    BY <1>2, <1>6 DEF Orderly, Targets, Belongs, Outs
  <2> QED
    BY <1>0, <1>1, <1>2, <1>3, <1>6, <2>1, StartsSettle
<1> QED
  BY <1>1, <1>4, <1>5, <1>6

LEMMA AgreedStill ==
    ASSUME Agreed, Astray, selected'.module = selected.module,
           selected'.category = selected.category, win' = win
    PROVE  Agreed'
BY DEF Agreed, Astray, Displayed, There

LEMMA ModuleOrderly ==
    ASSUME WindowAssumption, Formed, Orderly, NEW c \in calls, Serve(c), c.op = "module"
    PROVE  Orderly'
<1>0. /\ c \in Calls /\ Undone(c) /\ win' = win /\ wire' = wire /\ ServeModule(c)
      /\ selected \in Selections /\ Waiting(c)
  BY ServerOf DEF Formed, ShapeCalls, ShapeServer, Waiting
<1>1. /\ navs' = navs
      /\ \/ Refuses(c)
         \/ selected' = selected /\ Astray /\ CallAnswered(c, "fail")
         \/ /\ gds' = [page |-> "other", module |-> c.module, category |-> Nothing]
            /\ selected' = [selected EXCEPT !.module = c.module, !.category = Nothing]
            /\ CallAnswered(c, "ok")
  BY <1>0, ServeModuleShape
<1>2. win.category = Nothing /\ selected.gate = 0
  BY <1>0 DEF Orderly, Targets, Choosing, Gated
<1>3. CASE Refuses(c)
  BY <1>0, <1>3, RefusedQuiet DEF Refuses
<1>4. ASSUME NEW o \in Outs, CallAnswered(c, o), selected'.gate = 0, Belongs'
      PROVE  Orderly'
  <2>1. Lone(c, o) /\ OneAtATime'
    BY <1>0, <1>4, AnsweredLone DEF Orderly, Routes
  <2>2. Gated' /\ Choosing' /\ Agreed'
    BY <1>0, <1>2, <1>4, <2>1 DEF Gated, Choosing, Agreed, Lone
  <2> QED
    BY <1>0, <1>1, <1>4, <2>1, <2>2, Settles
<1>5. CASE selected' = selected /\ Astray /\ CallAnswered(c, "fail")
  <2>1. Belongs' /\ selected'.gate = 0 /\ "fail" \in Outs
    BY <1>2, <1>5, BelongsStill DEF Orderly, Targets, Outs
  <2> QED
    BY <1>4, <1>5, <2>1
<1>6. CASE /\ gds' = [page |-> "other", module |-> c.module, category |-> Nothing]
           /\ selected' = [selected EXCEPT !.module = c.module, !.category = Nothing]
           /\ CallAnswered(c, "ok")
  <2>1. Belongs' /\ selected'.gate = 0 /\ "ok" \in Outs
    BY <1>0, <1>2, <1>6 DEF Selections, Belongs, Outs
  <2> QED
    BY <1>4, <1>6, <2>1
<1> QED
  BY <1>1, <1>3, <1>5, <1>6

LEMMA CategoryOrderly ==
    ASSUME WindowAssumption, Formed, Orderly, NEW c \in calls, Serve(c), c.op = "category"
    PROVE  Orderly'
<1>0. /\ c \in Calls /\ Undone(c) /\ win' = win /\ wire' = wire /\ ServeCategory(c)
      /\ selected \in Selections /\ Waiting(c)
  BY ServerOf DEF Formed, ShapeCalls, ShapeServer, Waiting
<1>1. /\ navs' = navs
      /\ \/ Refuses(c)
         \/ selected' = selected /\ Astray /\ CallAnswered(c, "fail")
         \/ /\ gds.module # Nothing
            /\ gds' = [page |-> "data", module |-> gds.module, category |-> c.category]
            /\ selected' = [selected EXCEPT !.category = c.category]
            /\ CallAnswered(c, "ok")
  BY <1>0, ServeCategoryShape
<1>2. win.branch = "module" /\ c.category = win.category /\ win.category # Nothing
  BY <1>0 DEF Orderly, Targets, Choosing
<1>3. selected.gate = 0
  BY <1>2 DEF Orderly, Targets, Gated, Bare
<1>4. CASE Refuses(c)
  BY <1>0, <1>4, RefusedQuiet DEF Refuses
<1>5. ASSUME NEW o \in Outs, CallAnswered(c, o), selected'.gate = 0, Belongs', Agreed',
             o = "fail" \/ Displayed(c.category)'
      PROVE  Orderly'
  <2>1. Lone(c, o) /\ OneAtATime'
    BY <1>0, <1>5, AnsweredLone DEF Orderly, Routes
  <2>2. Gated'
    BY <1>5, <2>1 DEF Gated, Lone
  <2>3. Choosing'
    <3> SUFFICES ASSUME NEW d \in calls', Waiting(d)
                 PROVE  /\ d.op = "category" /\ win'.branch = "module"
                        /\ d.category = win'.category /\ d.category # Nothing
                        /\ d.out # "fail" => Displayed(d.category)'
      BY DEF Choosing
    <3>1. /\ d.op = "category"
          /\ (d.out = "fail" /\ d \in calls) \/ (d.out = o /\ d.category = c.category)
      BY <2>1 DEF Lone
    <3>2. CASE d.out = "fail" /\ d \in calls
      BY <1>0, <3>1, <3>2 DEF Orderly, Targets, Choosing
    <3>3. CASE d.out = o /\ d.category = c.category
      BY <1>0, <1>2, <1>5, <3>1, <3>3
    <3> QED
      BY <3>1, <3>2, <3>3
  <2> QED
    BY <1>0, <1>1, <1>5, <2>1, <2>2, <2>3, Settles
<1>6. CASE selected' = selected /\ Astray /\ CallAnswered(c, "fail")
  <2>1. Belongs' /\ Agreed' /\ selected'.gate = 0 /\ "fail" \in Outs
    BY <1>0, <1>3, <1>6, BelongsStill, AgreedStill DEF Orderly, Targets, Outs
  <2> QED
    BY <1>5, <1>6, <2>1
<1>7. CASE /\ gds.module # Nothing
           /\ gds' = [page |-> "data", module |-> gds.module, category |-> c.category]
           /\ selected' = [selected EXCEPT !.category = c.category]
           /\ CallAnswered(c, "ok")
  <2>1. gds.module = selected.module
    BY <1>7 DEF Orderly, Targets, Belongs
  <2>2. selected'.category = c.category /\ selected'.module = selected.module /\ selected'.gate = 0
    BY <1>0, <1>3, <1>7 DEF Selections
  <2>3. Belongs' /\ Displayed(c.category)' /\ "ok" \in Outs
    BY <1>7, <2>1, <2>2 DEF Belongs, Displayed, Outs
  <2>4. Agreed'
    BY <1>0, <1>2, <2>3 DEF Agreed
  <2> QED
    BY <1>5, <1>7, <2>2, <2>3, <2>4
<1> QED
  BY <1>1, <1>4, <1>6, <1>7

LEMMA NavigateOrderly ==
    ASSUME WindowAssumption, Formed, Numbered, Orderly, NEW c \in calls, Serve(c),
           c.op = "navigate"
    PROVE  Orderly'
<1>0. /\ c \in Calls /\ Undone(c) /\ win' = win /\ wire' = wire /\ ServeNavigate(c)
      /\ selected \in Selections /\ Waiting(c) /\ navs \in [Numbers -> Journeys]
  BY ServerOf DEF Formed, ShapeCalls, ShapeServer, Waiting
<1>1. /\ c.n \in Numbers
      /\ \/ Refuses(c)
         \/ /\ selected.gate = 0 /\ selected.nav = 0 /\ CallAnswered(c, "ok") /\ gds' = gds
            /\ navs' = [navs EXCEPT ![c.n].at = "driving"]
            /\ selected' = [selected EXCEPT !.nav = c.n]
  BY <1>0, ServeNavigateShape
<1>2. CASE Refuses(c)
  BY <1>0, <1>2, RefusedQuiet DEF Refuses
<1>3. CASE /\ selected.gate = 0 /\ selected.nav = 0 /\ CallAnswered(c, "ok") /\ gds' = gds
           /\ navs' = [navs EXCEPT ![c.n].at = "driving"]
           /\ selected' = [selected EXCEPT !.nav = c.n]
  <2>1. /\ ~Roaming /\ win.following = 0 /\ wire = <<>>
        /\ win.branch = "vehicle" /\ win.category = Nothing
    BY <1>0 DEF Orderly, Routes, Alone, Unfollowed, Guided
  <2>2. "ok" \in Outs
    BY DEF Outs
  <2>3. Lone(c, "ok") /\ OneAtATime'
    BY <1>0, <1>3, <2>2, AnsweredLone DEF Orderly, Routes
  <2>4. \A d \in calls' : Waiting(d) => d.op = "navigate" /\ d.at = "done"
    BY <2>3 DEF Lone
  <2>5. \A n \in Numbers : navs[n].events = <<>> /\ ~Active(n)
    BY <2>1 DEF Roaming, Underways, Active
  <2>n. \A n \in Numbers : n # c.n => navs'[n] = navs[n]
    BY <1>0, <1>3
  <2>s. \A n \in Numbers : navs'[n].events = navs[n].events
    BY <1>0, <1>1, <1>3 DEF Journeys
  <2>6. selected'.module = selected.module /\ selected'.gate = 0
    BY <1>0, <1>3 DEF Selections
  <2>7. Alone' /\ Unfollowed' /\ Guided'
    BY <1>0, <2>1, <2>4 DEF Alone, Unfollowed, Guided, Undone
  <2>w. wire' = <<>> /\ 1..Len(wire') = {}
    BY <1>0, <2>1
  <2>z. 1..Len(<<>>) = {}
    OBVIOUS
  <2>e. \A n \in Numbers : navs'[n].events = <<>> /\ 1..Len(navs'[n].events) = {}
    BY <2>5, <2>s, <2>z
  <2>a. ASSUME NEW n \in Numbers, n # c.n
        PROVE  ~(navs'[n].at \in {"driving", "asked", "chosen"} \/ navs'[n].events # <<>>)
    <3>1. navs'[n] = navs[n] /\ ~Active(n)
      BY <2>a, <2>5, <2>n
    <3> QED
      BY <3>1 DEF Active
  <2>o. OneRoute'
    BY <2>a DEF OneRoute, Active
  <2>d. OneDone'
    BY <2>w DEF OneDone
  <2>8. OneRoute' /\ OneDone'
    BY <2>o, <2>d
  <2>9. Landing'
    BY <2>w, <2>e DEF Landing
  <2>10. Gated' /\ Belongs' /\ Choosing' /\ Agreed'
    BY <1>0, <1>3, <2>1, <2>4, <2>6 DEF Gated, Belongs, Choosing, Agreed, Orderly, Targets
  <2>11. Asking'
    BY <2>4 DEF Asking, Waiting, Undone
  <2> QED
    BY <2>3, <2>7, <2>8, <2>9, <2>10, <2>11 DEF Orderly, Routes, Targets
<1> QED
  BY <1>1, <1>2, <1>3

LEMMA AiOrderly ==
    ASSUME WindowAssumption, Formed, Offering(win), Orderly, NEW c \in calls, Serve(c),
           c.op \in {"ai", "retry"}
    PROVE  Orderly'
<1>0. /\ c \in Calls /\ Undone(c) /\ win' = win /\ wire' = wire /\ ServeAi(c)
      /\ selected \in Selections /\ Waiting(c) /\ gds \in Displays
      /\ c.module \in Modules \cup {Nothing}
      /\ c.category \in Categories \cup Items \cup {Nothing}
  BY ServerOf DEF Formed, ShapeCalls, ShapeServer, Waiting, Calls
<1>1. /\ navs' = navs /\ gds' = gds
      /\ \/ Refuses(c)
         \/ /\ selected' = [selected EXCEPT !.ai = c.n, !.module = ModuleFor(c.module),
                                            !.category = CategoryFor(c.category)]
            /\ CallAnswered(c, "ok")
  BY <1>0, ServeAiShape
<1>2. /\ c.module = win.module /\ c.category = win.category
      /\ win.branch = "module" => c.module = selected.module
  BY <1>0 DEF Orderly, Targets, Asking
<1>3. CASE Refuses(c)
  BY <1>0, <1>3, RefusedQuiet DEF Refuses
<1>4. CASE /\ selected' = [selected EXCEPT !.ai = c.n, !.module = ModuleFor(c.module),
                                           !.category = CategoryFor(c.category)]
           /\ CallAnswered(c, "ok")
  <2>1. win.branch # "module" => win.module = Nothing
    BY DEF Offering, OffersOf
  <2>2. /\ c.module # Nothing => ModuleFor(c.module) = c.module
        /\ c.category # Nothing => CategoryFor(c.category) = c.category
        /\ ModuleFor(Nothing) =
             IF selected.module # Nothing THEN selected.module ELSE gds.module
    BY <1>0, ForIs
  <2>3. ModuleFor(c.module) = selected.module
    BY <1>2, <2>1, <2>2 DEF Orderly, Targets, Belongs
  <2> DEFINE g == CategoryFor(c.category)
  <2>4. win.category # Nothing => g = win.category
    BY <1>2, <2>2
  <2> HIDE DEF g
  <2>5. selected' = [selected EXCEPT !.ai = c.n, !.module = selected.module, !.category = g]
    BY <1>4, <2>3 DEF g
  <2>6. /\ selected'.module = selected.module /\ selected'.gate = selected.gate
        /\ selected'.category = g
    BY <1>0, <2>5 DEF Selections
  <2>7. "ok" \in Outs
    BY DEF Outs
  <2>8. Lone(c, "ok") /\ OneAtATime'
    BY <1>0, <1>4, <2>7, AnsweredLone DEF Orderly, Routes
  <2>9. Belongs' /\ Choosing'
    BY <1>1, <2>6, <2>8 DEF Belongs, Choosing, Lone, Orderly, Targets
  <2>10. Agreed'
    BY <1>0, <1>1, <2>4, <2>6 DEF Orderly, Targets, Agreed, Displayed, There
  <2>11. ~Underways' /\ ~DoneInWire'
    <3>1. ~Roaming
      BY <1>0 DEF Orderly, Routes, Alone
    <3> QED
      BY <1>0, <1>1, <3>1 DEF Roaming, Underways, Active, DoneInWire
  <2>12. Gated'
    BY <1>0, <2>6, <2>8, <2>11 DEF Orderly, Targets, Gated, Lone, Bare
  <2> QED
    BY <1>0, <1>1, <2>8, <2>9, <2>10, <2>12, Settles
<1> QED
  BY <1>1, <1>3, <1>4

(* What a call is to read or clear: what the window showed, and that is    *)
(* where GDS2 is when it succeeds.                                         *)
Target(c) == [page |-> "data", module |-> c.module, category |-> c.category]

LEMMA ReadsTarget ==
    ASSUME WindowAssumption, Formed, Offering(win), Orderly, NEW c \in calls, Undone(c),
           c.op \in {"read", "clear"}, NEW m, NEW g, ReadsAs(c, m, g),
           \/ m = Nothing /\ g = Nothing
           \/ m = c.module /\ g = IF c.module = Nothing THEN Nothing ELSE c.category
    PROVE  /\ navs' = navs /\ selected' = selected
           /\ \/ gds' = Target(c) /\ CallAnswered(c, "ok")
              \/ Astray /\ CallAnswered(c, "fail")
<1>0. /\ gds \in Displays /\ selected \in Selections /\ faults \in Nat
      /\ c.module \in Modules \cup {Nothing}
      /\ c.category \in Categories \cup Items \cup {Nothing}
      /\ Nothing \notin Modules \cup Categories \cup Items
      /\ Categories \cap Items = {}
  BY DEF Formed, ShapeCalls, ShapeServer, ShapeBounds, Calls, WindowAssumption
<1>1. /\ c.module = win.module /\ c.category = win.category
      /\ win.branch = "module" => c.module = selected.module
      /\ \/ win.branch = "module" /\ win.confirmed /\ c.module # Nothing /\ c.category # Nothing
         \/ win.branch = "vehicle" /\ c.category # Nothing
  BY DEF Orderly, Targets, Asking
<1>2. m \in Modules \cup {Nothing} /\ g \in Categories \cup Items \cup {Nothing}
  BY <1>0
<1>3. /\ navs' = navs
      /\ \/ gds.page = "data" /\ gds' = gds /\ selected' = selected /\ CallAnswered(c, "ok")
         \/ /\ gds.page # "data"
            /\ ModuleFor(m) # Nothing /\ CategoryFor(g) \in Categories
            /\ gds' = [page |-> "data", module |-> ModuleFor(m),
                       category |-> CategoryFor(g)]
            /\ selected' = [selected EXCEPT !.module = ModuleFor(m),
                                            !.category = CategoryFor(g)]
            /\ CallAnswered(c, "ok")
         \/ selected' = selected /\ Astray /\ CallAnswered(c, "fail")
  BY <1>0, <1>2, ReadsShape DEF Astray
<1>4. /\ c.module # Nothing => ModuleFor(c.module) = c.module
      /\ c.category # Nothing => CategoryFor(c.category) = c.category
      /\ selected.module # Nothing => ModuleFor(Nothing) = selected.module
      /\ selected.category # Nothing => CategoryFor(Nothing) = selected.category
  <2>1. /\ ModuleFor(Nothing) =
             IF selected.module # Nothing THEN selected.module ELSE gds.module
        /\ CategoryFor(Nothing) =
             IF selected.category # Nothing THEN selected.category ELSE gds.category
    BY <1>0, ForIs
  <2> QED
    BY <1>0, <2>1, ForIs
<1>5. CASE gds.page = "data" /\ gds' = gds /\ selected' = selected /\ CallAnswered(c, "ok")
  <2>1. gds = [page |-> gds.page, module |-> gds.module, category |-> gds.category]
    BY <1>0 DEF Displays
  <2>2. win.branch = "module" => gds.category = c.category /\ gds.module = c.module
    BY <1>1, <1>5 DEF Orderly, Targets, Agreed, Displayed
  <2>3. win.branch = "vehicle" => gds.category = c.category /\ gds.module = c.module
    <3>1. win.branch = "vehicle" => win.module = Nothing
      BY DEF Offering, OffersOf
    <3> QED
      BY <1>1, <1>5, <3>1 DEF Orderly, Targets, Agreed, There
  <2> QED
    BY <1>1, <1>3, <1>5, <2>1, <2>2, <2>3 DEF Target
<1>6. CASE /\ CategoryFor(g) \in Categories
           /\ gds' = [page |-> "data", module |-> ModuleFor(m),
                      category |-> CategoryFor(g)]
           /\ selected' = [selected EXCEPT !.module = ModuleFor(m),
                                           !.category = CategoryFor(g)]
           /\ CallAnswered(c, "ok")
  <2>1. CASE win.branch = "module"
    <3>1. selected.category = c.category /\ c.module = selected.module
          /\ c.module # Nothing /\ c.category # Nothing
      BY <1>1, <2>1 DEF Orderly, Targets, Agreed, Displayed
    <3>2. ModuleFor(m) = c.module /\ CategoryFor(g) = c.category
      BY <1>4, <3>1
    <3>3. selected' = [selected EXCEPT !.module = selected.module,
                                       !.category = selected.category]
      BY <1>6, <3>1, <3>2
    <3>4. selected' = selected
      BY <1>0, <3>3 DEF Selections
    <3> QED
      BY <1>3, <1>6, <3>2, <3>4 DEF Target
  <2>2. CASE win.branch = "vehicle"
    <3>1. win.module = Nothing
      BY <2>2 DEF Offering, OffersOf
    <3>2. selected.category = c.category /\ c.category \in Items
      BY <1>1, <2>2 DEF Orderly, Targets, Agreed
    <3>3. g = Nothing
      BY <1>1, <3>1
    <3>4. CategoryFor(g) = selected.category
      BY <1>0, <1>4, <3>2, <3>3
    <3> QED
      BY <1>0, <1>6, <3>2, <3>4
  <2> QED
    BY <1>1, <2>1, <2>2
<1> QED
  BY <1>3, <1>5, <1>6

LEMMA ServesTarget ==
    ASSUME WindowAssumption, Formed, Offering(win), Orderly, NEW c \in calls, Serve(c),
           c.op \in {"read", "clear"}
    PROVE  \/ Refuses(c)
           \/ /\ navs' = navs /\ selected' = selected
              /\ \/ gds' = Target(c) /\ CallAnswered(c, "ok")
                 \/ Astray /\ CallAnswered(c, "fail")
<1>0. /\ c \in Calls /\ Undone(c)
      /\ c.op = "read" => ServeRead(c)
      /\ c.op = "clear" => ServeClear(c)
  BY ServerOf DEF Formed, ShapeCalls
<1>1. CASE c.op = "read"
  <2> DEFINE g == IF c.module = Nothing THEN Nothing ELSE c.category
  <2>1. ReadsAs(c, c.module, g)
    BY <1>0, <1>1, Zenon DEF ServeRead
  <2>2. g = IF c.module = Nothing THEN Nothing ELSE c.category
    OBVIOUS
  <2> HIDE DEF g
  <2> QED
    BY <1>0, <2>1, <2>2, ReadsTarget
<1>2. CASE c.op = "clear"
  <2>1. ReadsAs(c, Nothing, Nothing) \/ CallFails(c)
    BY <1>0, <1>2, Zenon DEF ServeClear
  <2>2. CallFails(c) => Refuses(c)
    BY FailsShape
  <2>3. ReadsAs(c, Nothing, Nothing) =>
           /\ navs' = navs /\ selected' = selected
           /\ \/ gds' = Target(c) /\ CallAnswered(c, "ok")
              \/ Astray /\ CallAnswered(c, "fail")
    BY <1>0, <1>2, ReadsTarget
  <2> QED
    BY <2>1, <2>2, <2>3
<1> QED
  BY <1>1, <1>2

LEMMA TargetOrderly ==
    ASSUME WindowAssumption, Formed, Offering(win), Orderly, NEW c \in calls, Serve(c),
           c.op \in {"read", "clear"}
    PROVE  Orderly'
<1>0. /\ c \in Calls /\ Undone(c) /\ win' = win /\ wire' = wire /\ Waiting(c)
  BY ServerOf DEF Formed, ShapeCalls, Waiting
<1>1. CASE Refuses(c)
  BY <1>0, <1>1, RefusedQuiet DEF Refuses
<1>2. ASSUME NEW o \in Outs, CallAnswered(c, o), navs' = navs, selected' = selected,
             Belongs', Agreed'
      PROVE  Orderly'
  <2>1. Lone(c, o) /\ OneAtATime'
    BY <1>0, <1>2, AnsweredLone DEF Orderly, Routes
  <2>2. ~Underways' /\ ~DoneInWire'
    <3>1. ~Roaming
      BY <1>0 DEF Orderly, Routes, Alone
    <3> QED
      BY <1>0, <1>2, <3>1 DEF Roaming, Underways, Active, DoneInWire
  <2>3. Gated' /\ Choosing'
    BY <1>0, <1>2, <2>1, <2>2 DEF Orderly, Targets, Gated, Choosing, Lone, Bare
  <2> QED
    BY <1>0, <1>2, <2>1, <2>3, Settles
<1>3. CASE navs' = navs /\ selected' = selected /\ Astray /\ CallAnswered(c, "fail")
  <2>1. Belongs' /\ Agreed' /\ "fail" \in Outs
    BY <1>0, <1>3, BelongsStill, AgreedStill DEF Orderly, Targets, Outs
  <2> QED
    BY <1>2, <1>3, <2>1
<1>4. CASE navs' = navs /\ selected' = selected /\ gds' = Target(c) /\ CallAnswered(c, "ok")
  <2>1. /\ c.module = win.module /\ c.category = win.category
        /\ win.branch = "module" => c.module = selected.module
        /\ win.branch = "module" \/ win.branch = "vehicle"
    BY <1>0 DEF Orderly, Targets, Asking
  <2>2. win.branch = "vehicle" => win.module = Nothing
    BY DEF Offering, OffersOf
  <2>3. Belongs'
    BY <1>4, <2>1, <2>2 DEF Belongs, Target
  <2>4. Agreed'
    BY <1>0, <1>4, <2>1, <2>2 DEF Orderly, Targets, Agreed, Displayed, There, Target
  <2>5. "ok" \in Outs
    BY DEF Outs
  <2> QED
    BY <1>2, <1>4, <2>3, <2>4, <2>5
<1> QED
  BY <1>1, <1>3, <1>4, ServesTarget

LEMMA ServeOrderly ==
    ASSUME WindowAssumption, State, Orderly, NEW c \in calls, Serve(c)
    PROVE  Orderly'
<1>0. /\ c \in Calls /\ c.op \in Ops /\ Formed /\ Offering(win) /\ Numbered
      /\ Undone(c)
  BY ServerOf DEF State, Formed, ShapeCalls, Calls
<1>1. c.op # "status"
  BY <1>0 DEF Numbered, Undone
<1> QED
  BY <1>0, <1>1, StartOrderly, ConnectOrderly, DecideOrderly, NavigateOrderly, AnswerOrderly,
     ModuleOrderly, CategoryOrderly, AiOrderly, TargetOrderly DEF Ops

LEMMA GiveUpOrderly ==
    ASSUME Formed, Orderly, NEW c \in calls, GiveUp(c)
    PROVE  Orderly'
<1>1. /\ UNCHANGED <<win, gds, selected, navs, wire>>
      /\ \E D \in SUBSET Calls :
            Replaces(c, D) /\ \A d \in D : Undone(d) \/ (d.at = "done" /\ d.out = "fail")
  BY GiveUpIs
<1> QED
  BY <1>1, ReplacedQuiet

(* The device is asked to connect, once the call that showed it is         *)
(* handled.                                                                *)
LEMMA ConnectsOrderly ==
    ASSUME WindowAssumption, Formed, Numbered, Orderly, NEW c \in calls, Handle(c),
           Keeps(win, win'), c.op \in {"start", "connect", "decide"},
           c.out \in {"devices", "selection"}
    PROVE  Orderly'
<1>0. /\ c.at = "done" /\ wire' = wire
      /\ UNCHANGED <<gds, selected, navs>>
  BY HandleWire
<1>1. /\ win'.branch = win.branch /\ win'.listed = win.listed /\ win'.module = win.module
      /\ win'.offered = win.offered /\ win'.category = win.category
      /\ win'.prompt.kind = "category" => win.prompt.kind = "category"
  BY DEF Keeps, Steady
<1>2. Waiting(c)
  BY DEF Waiting, Navigating
<1>3. \A d \in calls : Waiting(d) => d = c
  BY <1>0, <1>2, WaitsAlone DEF Orderly, Routes
<1>4. \A d \in calls' : Waiting(d) => d = PlainCall("connect", c.n) /\ d.op = "connect"
                                      /\ d.at = "sent"
  BY <1>3, HandleDrops DEF Drops, Waiting
<1>5. Bare /\ selected.gate = 0
  BY <1>0, <1>2 DEF Orderly, Targets, Gated
<1>6. ~Roaming
  BY <1>2 DEF Orderly, Routes, Alone
<1>7. Bare'
  BY <1>1, <1>5 DEF Bare
<1>8. ~Roaming' /\ ~Underways' /\ ~DoneInWire'
  BY <1>0, <1>6 DEF Roaming, Underways, Active, DoneInWire
<1>9. OneAtATime' /\ Alone' /\ Unfollowed' /\ Guided'
  BY <1>4, <1>8 DEF OneAtATime, Alone, Unfollowed, Guided
<1>10. OneRoute' /\ OneDone'
  BY <1>8 DEF OneRoute, OneDone, Underways, DoneInWire
<1>11. Landing'
  <2>1. \A n \in Numbers : navs'[n].events = <<>>
    BY <1>8 DEF Underways, Active
  <2> QED
    BY <1>8, <2>1 DEF Landing, DoneInWire
<1>12. Gated'
  BY <1>0, <1>4, <1>5, <1>7, <1>8 DEF Gated
<1>13. Belongs' /\ Choosing' /\ Agreed'
  BY <1>0, <1>4, <1>7 DEF Belongs, Choosing, Agreed, Bare, Orderly, Targets
<1>14. Asking'
  BY <1>4 DEF Asking, Waiting
<1> QED
  BY <1>9, <1>10, <1>11, <1>12, <1>13, <1>14 DEF Orderly, Routes, Targets

LEMMA WireMore ==
    ASSUME wire \in Seq(Happenings), NEW e \in Happenings, e.ev = "error",
           wire' = Append(wire, e), OneDone
    PROVE  /\ OneDone'
           /\ \A i \in 1..Len(wire') : wire'[i].ev = "done" =>
                 \E j \in 1..Len(wire) : wire[j] = wire'[i]
<1>1. \A i \in 1..Len(wire') : wire'[i].ev = "done" => i \in 1..Len(wire) /\ wire'[i] = wire[i]
  OBVIOUS
<1> QED
  BY <1>1 DEF OneDone

LEMMA HandleQuiet ==
    ASSUME WindowAssumption, Formed, Numbered, Orderly, NEW c \in calls, Handle(c),
           Keeps(win, win'),
           ~(c.op \in {"start", "connect", "decide"} /\ c.out \in {"devices", "selection"})
    PROVE  Orderly'
<1>0. /\ c.at = "done"
      /\ \/ wire' = wire
         \/ /\ c.op = "navigate" /\ c.out # "fail" /\ c.n \in Numbers
            /\ wire' = Append(wire, Event("error", c.n, Nothing))
      /\ UNCHANGED <<gds, selected, navs>>
  BY HandleWire
<1>1. Steady(win, win')
  BY DEF Keeps
<1>2. \A d \in calls' : Waiting(d) => d \in calls /\ d # c
  BY HandleDrops DEF Drops, Waiting
<1>3. OneAtATime'
  BY <1>2, FewerWait DEF Orderly, Routes
<1>4. \A n \in Numbers : Active(n)' <=> Active(n)
  BY <1>0 DEF Active
<1>5. ASSUME c.op = "navigate", c.out # "fail"
      PROVE  \A d \in calls' : ~Waiting(d)
  <2>1. Waiting(c)
    BY <1>5 DEF Waiting, Navigating
  <2> QED
    BY <1>0, <1>2, <1>5, <2>1, WaitsAlone DEF Orderly, Routes
<1>6. CASE wire' = wire
  <2>1. Roaming' => Roaming
    BY <1>4, <1>6 DEF Roaming, Underways
  <2>2. OneDone'
    BY <1>6 DEF Orderly, Routes, OneDone
  <2>3. \/ win'.following = win.following
        \/ \A d \in calls' : ~Waiting(d)
    BY <1>5, HandleFollows
  <2>4. Quieter
    BY <1>0, <1>1, <1>2, <1>3, <1>4, <1>6, <2>1, <2>2, <2>3 DEF Quieter, Inherits
  <2> QED
    BY <2>4, Fades
<1>7. CASE /\ c.op = "navigate" /\ c.out # "fail" /\ c.n \in Numbers
           /\ wire' = Append(wire, Event("error", c.n, Nothing))
  <2> DEFINE e == Event("error", c.n, Nothing)
  <2>1. wire \in Seq(Happenings) /\ e \in Happenings /\ e.ev = "error"
    BY <1>7, WireGrows DEF Formed, ShapeBounds, Event
  <2>2. wire' = Append(wire, e)
    BY <1>7
  <2> HIDE DEF e
  <2>3. /\ OneDone'
        /\ \A i \in 1..Len(wire') : wire'[i].ev = "done" =>
              \E j \in 1..Len(wire) : wire[j] = wire'[i]
    BY <2>1, <2>2, WireMore DEF Orderly, Routes
  <2>4. Quieter
    BY <1>0, <1>1, <1>3, <1>4, <1>5, <1>7, <2>3 DEF Quieter
  <2> QED
    BY <2>4, Fades
<1> QED
  BY <1>0, <1>6, <1>7

(* The list of modules, or what was chosen, is shown.                      *)
LEMMA LoadsOrderly ==
    ASSUME WindowAssumption, Formed, Offering(win), Numbered, Orderly, NEW c \in calls,
           Handle(c), Loads(c), Fills(win)
    PROVE  Orderly'
<1>0. /\ c.at = "done" /\ wire' = wire /\ UNCHANGED <<gds, selected, navs>>
      /\ c.op \in {"start", "connect", "decide"} /\ c.out = "modules"
  BY HandleWire DEF Loads
<1>1. win'.branch = "module" /\ win'.category = Nothing
  BY PopulatedWindow
<1>2. Waiting(c)
  BY <1>0 DEF Waiting, Navigating
<1>3. \A d \in calls' : ~Waiting(d)
  BY <1>0, <1>2, WaitsAlone, HandleDrops DEF Drops, Waiting, Orderly, Routes
<1>4. ~Roaming /\ selected.gate = 0
  BY <1>0, <1>2 DEF Orderly, Routes, Alone, Targets, Gated
<1>5. ~Underways' /\ ~DoneInWire'
  BY <1>0, <1>4 DEF Roaming, Underways, Active, DoneInWire
<1>6. Belongs' /\ Agreed'
  BY <1>0, <1>1 DEF Belongs, Agreed, Orderly, Targets
<1> QED
  BY <1>0, <1>3, <1>4, <1>5, <1>6, Restful

LEMMA TakesOrderly ==
    ASSUME WindowAssumption, Formed, Offering(win), Numbered, Orderly, NEW c \in calls,
           Handle(c), Takes(c),
           \/ c.op = "module" /\ win' = ModuleTaken
           \/ c.op = "category" /\ win' = CategoryTaken
    PROVE  Orderly'
<1>0. /\ c.at = "done" /\ wire' = wire /\ UNCHANGED <<gds, selected, navs>>
      /\ c.op \in {"module", "category"} /\ c.out # "fail"
  BY HandleWire DEF Takes
<1>1. Waiting(c)
  BY <1>0 DEF Waiting, Navigating
<1>2. \A d \in calls' : ~Waiting(d)
  BY <1>0, <1>1, WaitsAlone, HandleDrops DEF Drops, Waiting, Orderly, Routes
<1>3. ~Roaming
  BY <1>0, <1>1 DEF Orderly, Routes, Alone
<1>4. ~Underways' /\ ~DoneInWire'
  BY <1>0, <1>3 DEF Roaming, Underways, Active, DoneInWire
<1>5. Belongs'
  BY <1>0 DEF Belongs, Orderly, Targets
<1>6. CASE c.op = "module" /\ win' = ModuleTaken
  <2>1. win'.category = Nothing
    BY <1>6, ModuleTakenIs
  <2>2. selected.gate = 0
    BY <1>1, <1>6 DEF Orderly, Targets, Gated
  <2>3. Agreed'
    BY <2>1 DEF Agreed
  <2> QED
    BY <1>0, <1>2, <1>4, <1>5, <2>2, <2>3, Restful
<1>7. CASE c.op = "category" /\ win' = CategoryTaken
  <2>1. win'.branch = win.branch /\ win'.category = win.category
    BY <1>7, CategoryTakenIs
  <2>2. win.branch = "module" /\ win.category # Nothing /\ Displayed(win.category)
    BY <1>0, <1>1, <1>7 DEF Orderly, Targets, Choosing
  <2>3. selected.gate = 0
    BY <2>2 DEF Orderly, Targets, Gated, Bare
  <2>4. Agreed'
    BY <1>0, <2>1, <2>2 DEF Agreed, Displayed
  <2> QED
    BY <1>0, <1>2, <1>4, <1>5, <2>3, <2>4, Restful
<1> QED
  BY <1>6, <1>7

LEMMA HandleOrderly ==
    ASSUME WindowAssumption, State, Orderly, NEW c \in calls, Handle(c)
    PROVE  Orderly'
<1>1. Formed /\ Offering(win) /\ Numbered
  BY DEF State
<1>2. \/ Keeps(win, win')
      \/ Loads(c) /\ Fills(win)
      \/ Takes(c) /\ c.op = "module" /\ win' = ModuleTaken
      \/ Takes(c) /\ c.op = "category" /\ win' = CategoryTaken
  BY <1>1, HandleWindow
<1> QED
  BY <1>1, <1>2, ConnectsOrderly, HandleQuiet, LoadsOrderly, TakesOrderly

LEMMA DoneFollows ==
    ASSUME WindowAssumption, NEW w \in Windows
    PROVE  AiDone(w).following = w.following
<1> DEFINE v == [w EXCEPT !.reading = 0, !.pending = FALSE, !.ai = FALSE]
<1>1. AiDone(w) = Refreshed(v)
  BY Zenon DEF AiDone
<1>2. v \in Windows /\ v.following = w.following
  BY Zero DEF Windows
<1> HIDE DEF v
<1> QED
  BY <1>1, <1>2, FollowingOf

LEMMA StreamsFollow ==
    ASSUME WindowAssumption, Formed,
           \/ ReadNavigation \/ LoseNavigation \/ ReadDiagnosis \/ LoseDiagnosis
           \/ ReadSession \/ LoseSession \/ Poll
    PROVE  win'.following \in {win.following, 0}
<1>0. win \in Windows /\ {"start"} \in SUBSET Buttons
  BY DEF Formed, Buttons
<1>1. CASE ReadNavigation \/ LoseNavigation \/ Poll
  <2>1. win' = win \/ win' = [win EXCEPT !.following = 0] \/ win' = [win EXCEPT !.refresh = TRUE]
    BY <1>1 DEF ReadNavigation, LoseNavigation, Poll
  <2> QED
    BY <1>0, <2>1 DEF Windows
<1>2. CASE ReadDiagnosis
  <2>1. PICK h : win' = AiDone([win EXCEPT !.retry = @ \/ h = "retryable"])
    BY <1>2 DEF ReadDiagnosis
  <2>2. (win.retry \/ h = "retryable") \in BOOLEAN
    OBVIOUS
  <2>3. PICK b \in BOOLEAN : b = (win.retry \/ h = "retryable")
    BY <2>2
  <2> DEFINE v == [win EXCEPT !.retry = b]
  <2>4. win' = AiDone(v)
    BY <2>1, <2>3, Zenon
  <2>5. v \in Windows /\ v.following = win.following
    BY <1>0 DEF Windows
  <2> HIDE DEF v
  <2> QED
    BY <2>4, <2>5, DoneFollows
<1>3. CASE LoseDiagnosis
  <2>1. win' = AiDone(win)
    BY <1>3 DEF LoseDiagnosis
  <2> QED
    BY <1>0, <2>1, DoneFollows
<1>4. CASE ReadSession
  <2>1. news # <<>> /\ news \in Seq(Tidings)
    BY <1>4 DEF ReadSession, Formed, ShapeServer
  <2>2. PICK e \in Tidings : e = Head(news)
    BY <2>1
  <2> DEFINE u == [win EXCEPT !.prompt = [kind |-> "decision", id |-> e.id]]
             v == [win EXCEPT !.modal = NoModal, !.prompt = NoPrompt]
  <2>3. win' = u \/ win' = Enables(v, {"start"}) \/ win' = win
    BY <1>4, <2>2 DEF ReadSession, PromptsDecision
  <2>4. u.following = win.following
    BY <1>0 DEF Windows
  <2>5. v \in Windows /\ v.following = win.following
    <3>1. NoModal \in [q: 0..MaxClicks, on: BOOLEAN]
      BY Zero DEF NoModal
    <3>2. NoPrompt \in [kind: {"none", "category", "decision"}, id: 0..MaxClicks]
      BY Zero DEF NoPrompt
    <3> QED
      BY <1>0, <3>1, <3>2 DEF Windows
  <2> HIDE DEF u, v
  <2> QED
    BY <1>0, <2>3, <2>4, <2>5, FollowingOf
<1>5. CASE LoseSession
  <2> DEFINE v == [win EXCEPT !.listening = FALSE]
  <2>1. win' = Disables(v, {"start"})
    BY <1>5 DEF LoseSession
  <2>2. v \in Windows /\ v.following = win.following
    BY <1>0 DEF Windows
  <2> HIDE DEF v
  <2> QED
    BY <1>0, <2>1, <2>2, FollowingOf
<1> QED
  BY <1>1, <1>2, <1>3, <1>4, <1>5

LEMMA EventFollows ==
    ASSUME WindowAssumption, Formed, Offering(win), HandleNavigationEvent
    PROVE  win'.following \in {win.following, 0}
<1>0. /\ win \in Windows /\ {"start"} \in SUBSET Buttons /\ 0 \in 0..MaxClicks
  BY Zero DEF Formed, Buttons
<1>1. wire # <<>>
  BY DEF HandleNavigationEvent
<1>2. PICK e \in Happenings : e = Head(wire)
  BY <1>1, HeadOfWire
<1>a. e.ev \in {"ask", "done", "error"} /\ e.n \in 0..MaxClicks
      /\ (e.ev = "done" => e.item \in Items)
  BY DEF Happenings, Numbers
<1>b. (CASE e.ev = "ask" -> Asked(e)
         [] e.ev = "done" -> Arrived(e)
         [] e.ev = "error" -> Failed)
  BY <1>2, Zenon DEF HandleNavigationEvent
<1>3. CASE e.ev = "ask"
  <2>1. Asked(e)
    BY <1>b, <1>3
  <2>2. win' = win \/ win' = [win EXCEPT !.modal = [q |-> e.n, on |-> TRUE]]
    BY <2>1 DEF Asked
  <2> QED
    BY <1>0, <2>2 DEF Windows
<1>4. CASE e.ev = "done"
  <2>1. Lands
    BY <1>2, <1>4, EventWindow
  <2> QED
    BY <2>1, LandsWindow
<1>5. CASE e.ev = "error"
  <2>1. Failed
    BY <1>b, <1>5
  <2> DEFINE v == [win EXCEPT !.following = 0, !.nav = FALSE, !.navid = FALSE, !.refresh = TRUE]
  <2>2. win' = Enables(v, {"start"})
    BY <2>1 DEF Failed
  <2>3. v \in Windows /\ v.following = 0
    BY <1>0 DEF Windows
  <2> HIDE DEF v
  <2> QED
    BY <1>0, <2>2, <2>3, FollowingOf
<1> QED
  BY <1>a, <1>3, <1>4, <1>5

(* Steps that leave the navigations, their events and GDS2 alone.          *)
LEMMA StillOrderly ==
    ASSUME Orderly, Steady(win, win'), win'.following \in {win.following, 0},
           UNCHANGED <<gds, navs, wire>>,
           selected'.module = selected.module, selected'.category = selected.category,
           selected'.gate \in {selected.gate, 0},
           \A d \in calls' : Waiting(d) => d \in calls
    PROVE  Orderly'
<1>1. OneAtATime' /\ OneDone'
  BY FewerWait DEF Orderly, Routes, OneDone
<1>2. \A n \in Numbers : Active(n)' => Active(n)
  BY DEF Active
<1>3. Roaming' => Roaming
  BY <1>2 DEF Roaming, Underways
<1>4. Quieter
  BY <1>1, <1>2, <1>3 DEF Quieter, Inherits
<1> QED
  BY <1>4, Fades

LEMMA RestOrderly ==
    ASSUME WindowAssumption, State, Orderly,
           \/ ReadDiagnosis \/ LoseDiagnosis \/ ReadSession \/ LoseSession
           \/ Poll \/ EngineEnds \/ GateExpires
    PROVE  Orderly'
<1>0. Formed /\ Offering(win) /\ selected \in Selections
  BY DEF State, Formed, ShapeServer
<1>1. UNCHANGED <<gds, navs, wire>>
  BY DEF ReadDiagnosis, LoseDiagnosis, ReadSession, LoseSession, Poll,
         EngineEnds, GateExpires, server
<1>2. /\ selected'.module = selected.module /\ selected'.category = selected.category
      /\ selected'.gate \in {selected.gate, 0}
  <2>1. \/ selected' = selected
        \/ selected' = [selected EXCEPT !.ai = 0]
        \/ selected' = [selected EXCEPT !.gate = 0]
    BY DEF ReadDiagnosis, LoseDiagnosis, ReadSession, LoseSession, Poll,
           EngineEnds, GateExpires, server
  <2> QED
    BY <1>0, <2>1 DEF Selections
<1>3. Steady(win, win') /\ win'.following \in {win.following, 0}
  <2>1. CASE EngineEnds \/ GateExpires
    BY <2>1 DEF EngineEnds, GateExpires, Steady
  <2>2. CASE ~(EngineEnds \/ GateExpires)
    BY <1>0, <2>2, StreamsWindow, StreamsFollow DEF Keeps
  <2> QED
    BY <2>1, <2>2
<1>4. \A d \in calls' : Waiting(d) => d \in calls
  <2>1. CASE Poll
    <3>1. Polls(win, calls) /\ calls \in SUBSET calls
      BY <2>1 DEF Poll
    <3> QED
      BY <1>0, <3>1, PollsCalls DEF Waiting
  <2>2. CASE ~Poll
    BY <2>2 DEF ReadDiagnosis, LoseDiagnosis, ReadSession, LoseSession,
                EngineEnds, GateExpires
  <2> QED
    BY <2>1, <2>2
<1> QED
  BY <1>1, <1>2, <1>3, <1>4, StillOrderly

LEMMA DialogOrderly ==
    ASSUME WindowAssumption, State, Orderly, AnswerDialog \/ CloseDialog
    PROVE  Orderly'
<1>0. Formed /\ Offering(win)
  BY DEF State
<1>1. UNCHANGED <<gds, navs, wire, selected>>
  BY DEF AnswerDialog, CloseDialog, server
<1>2. \A d \in calls' : Waiting(d) => d \in calls
  <2>1. CASE AnswerDialog
    BY <1>0, <2>1, AnswerDialogCalls DEF Waiting
  <2>2. CASE CloseDialog
    BY <2>2 DEF CloseDialog
  <2> QED
    BY <2>1, <2>2
<1>3. Steady(win, win')
  BY <1>0, ClicksKeep DEF Keeps
<1>4. win'.following = win.following
  <2>1. win' = [win EXCEPT !.modal.on = FALSE] \/ win' = [win EXCEPT !.modal = NoModal]
    BY DEF AnswerDialog, CloseDialog
  <2> QED
    BY <1>0, <2>1 DEF Windows, Formed
<1> QED
  BY <1>1, <1>2, <1>3, <1>4, StillOrderly

(* The window handles an event.                                            *)
LEMMA TailWire ==
    ASSUME Formed, wire # <<>>, wire' = Tail(wire)
    PROVE  /\ \A i \in 1..Len(wire') : i + 1 \in 1..Len(wire) /\ wire'[i] = wire[i + 1]
           /\ Head(wire) = wire[1] /\ 1 \in 1..Len(wire)
<1>1. wire \in Seq(Happenings)
  BY DEF Formed, ShapeBounds
<1> QED
  BY <1>1

LEMMA EventQuiet ==
    ASSUME WindowAssumption, State, Orderly, HandleNavigationEvent, Keeps(win, win')
    PROVE  Orderly'
<1>0. Formed /\ Offering(win) /\ Steady(win, win')
  BY DEF State, Keeps
<1>1. /\ wire # <<>> /\ wire' = Tail(wire) /\ UNCHANGED <<gds, selected, navs>>
      /\ \A d \in calls' : Waiting(d) => d \in calls
  BY <1>0, EventCalls DEF Waiting, Undone
<1>2. \A i \in 1..Len(wire') : i + 1 \in 1..Len(wire) /\ wire'[i] = wire[i + 1]
  BY <1>0, <1>1, TailWire
<1>3. OneDone'
  BY <1>2 DEF OneDone, Orderly, Routes
<1>4. OneAtATime'
  BY <1>1, FewerWait DEF Orderly, Routes
<1>5. \A n \in Numbers : Active(n)' => Active(n)
  BY <1>1 DEF Active
<1>6. Roaming
  BY <1>1 DEF Roaming
<1>7. win'.following \in {win.following, 0}
  BY <1>0, EventFollows
<1>8. \A i \in 1..Len(wire') : wire'[i].ev = "done" =>
         \E j \in 1..Len(wire) : wire[j] = wire'[i]
  BY <1>2
<1>9. Quieter
  BY <1>0, <1>1, <1>3, <1>4, <1>5, <1>6, <1>7, <1>8 DEF Quieter, Inherits
<1> QED
  BY <1>9, Fades

LEMMA LandsOrderly ==
    ASSUME WindowAssumption, State, Orderly, HandleNavigationEvent, Lands
    PROVE  Orderly'
<1>0. Formed /\ Offering(win)
  BY DEF State
<1>1. /\ wire # <<>> /\ wire' = Tail(wire) /\ UNCHANGED <<gds, selected, navs>>
      /\ \A d \in calls' : Waiting(d) => d \in calls
  BY <1>0, EventCalls DEF Waiting, Undone
<1>2. /\ \A i \in 1..Len(wire') : i + 1 \in 1..Len(wire) /\ wire'[i] = wire[i + 1]
      /\ Head(wire) = wire[1] /\ 1 \in 1..Len(wire)
  BY <1>0, <1>1, TailWire
<1>3. PICK e \in Happenings :
         /\ e.ev = "done" /\ e = Head(wire) /\ e.item \in Items
         /\ win'.branch = "vehicle" /\ win'.category = e.item
  BY <1>0, LandsWindow
<1>4. There(e.item) /\ selected.category = e.item /\ ~Underways /\ DoneInWire
  BY <1>2, <1>3 DEF Orderly, Routes, Landing, DoneInWire
<1>5. \A d \in calls' : ~Waiting(d)
  BY <1>1 DEF Orderly, Routes, Alone, Unfollowed, Roaming
<1>6. ~Underways'
  BY <1>1, <1>4 DEF Underways, Active
<1>7. ~DoneInWire'
  <2> SUFFICES ASSUME NEW i \in 1..Len(wire'), wire'[i].ev = "done"
               PROVE  FALSE
    BY DEF DoneInWire
  <2>1. i + 1 = 1
    BY <1>2, <1>3 DEF Orderly, Routes, OneDone
  <2> QED
    BY <2>1
<1>8. selected'.gate = 0 /\ Belongs'
  BY <1>1, <1>4 DEF Orderly, Targets, Gated, Belongs
<1>9. Agreed'
  <2>1. gds' = [page |-> "data", module |-> Nothing, category |-> e.item]
    BY <1>1, <1>4 DEF There
  <2> QED
    BY <1>1, <1>3, <1>4, <2>1 DEF Agreed, There
<1> QED
  BY <1>5, <1>6, <1>7, <1>8, <1>9, Restful

LEMMA EventOrderly ==
    ASSUME WindowAssumption, State, Orderly, HandleNavigationEvent
    PROVE  Orderly'
<1>1. Formed /\ Offering(win)
  BY DEF State
<1> QED
  BY <1>1, EventWindow, EventQuiet, LandsOrderly

(* While a navigation is about only its own call may wait.                 *)
LEMMA Travelling ==
    ASSUME Orderly, Underways
    PROVE  /\ \A d \in calls : Waiting(d) => d.op = "navigate" /\ d.at = "done"
           /\ ~DoneInWire /\ selected.gate = 0
           /\ win.branch = "vehicle" /\ win.category = Nothing
           /\ \A n, m \in Numbers : Active(n) /\ Active(m) => n = m
BY DEF Orderly, Routes, Targets, Alone, Roaming, Undone, Landing, DoneInWire, Gated, Guided,
       OneRoute

LEMMA Travels ==
    ASSUME Orderly, Underways, calls' = calls,
           win'.branch = win.branch, win'.category = win.category,
           win'.following \in {win.following, 0},
           wire' = wire \/ (\A d \in calls : ~Waiting(d)),
           selected'.module = selected.module, selected'.gate = selected.gate,
           gds'.module \in {Nothing, gds.module}, OneRoute', OneDone', Landing'
    PROVE  Orderly'
<1>1. /\ \A d \in calls : Waiting(d) => d.op = "navigate" /\ d.at = "done"
      /\ selected.gate = 0 /\ win.branch = "vehicle" /\ win.category = Nothing
  BY Travelling
<1>2. OneAtATime' /\ Alone' /\ Unfollowed' /\ Guided'
  BY <1>1 DEF Orderly, Routes, OneAtATime, Alone, Unfollowed, Guided, Undone
<1>3. Gated' /\ Belongs' /\ Choosing' /\ Agreed'
  BY <1>1 DEF Orderly, Targets, Gated, Belongs, Choosing, Agreed
<1>4. Asking'
  BY <1>1 DEF Asking, Waiting, Undone
<1> QED
  BY <1>2, <1>3, <1>4 DEF Orderly, Routes, Targets

LEMMA LoseNavigationOrderly ==
    ASSUME WindowAssumption, State, Orderly, Followed, LoseNavigation
    PROVE  Orderly'
<1>0. Formed /\ Offering(win) /\ wire \in Seq(Happenings)
  BY DEF State, Formed, ShapeBounds
<1>1. /\ win.following # 0 /\ win' = [win EXCEPT !.following = 0]
      /\ wire' = Append(wire, Event("error", win.following, Nothing))
      /\ UNCHANGED <<calls, gds, selected, navs>>
  BY DEF LoseNavigation, Event, server
<1>2. win.following \in Numbers /\ Active(win.following)
  BY <1>1 DEF Followed
<1>3. Roaming /\ \A d \in calls : Waiting(d) => d.op # "navigate"
  BY <1>1, <1>2 DEF Roaming, Underways, Orderly, Routes, Unfollowed
<1>4. Event("error", win.following, Nothing) \in Happenings
  BY <1>0, <1>2, WireGrows
<1>5. Event("error", win.following, Nothing).ev = "error"
  BY DEF Event
<1>6. /\ OneDone'
      /\ \A i \in 1..Len(wire') : wire'[i].ev = "done" =>
            \E j \in 1..Len(wire) : wire[j] = wire'[i]
  BY <1>0, <1>1, <1>4, <1>5, WireMore DEF Orderly, Routes
<1>7. OneAtATime'
  BY <1>1, FewerWait DEF Orderly, Routes
<1>8. Steady(win, win')
  BY <1>0, StreamsWindow DEF Keeps
<1>9. \A n \in Numbers : Active(n)' => Active(n)
  BY <1>1 DEF Active
<1>10. Quieter
  BY <1>1, <1>3, <1>6, <1>7, <1>8, <1>9 DEF Quieter, Inherits
<1> QED
  BY <1>10, Fades

(* A navigation goes on.                                                   *)
LEMMA DrivesOrderly ==
    ASSUME WindowAssumption, State, Orderly, NEW n \in Numbers, Drives(n)
    PROVE  Orderly'
<1>0. Formed /\ navs \in [Numbers -> Journeys] /\ Progress(navs[n])
  BY DEF State, Formed, ShapeServer
<1>1. DrivesOn(n) /\ UNCHANGED <<win, calls, selected, wire>>
  BY <1>0, DrivesIs
<1>2. PICK e \in Happenings, at \in {"asked", "ended"} :
         /\ navs[n].at \in {"driving", "chosen"} /\ Emitted(n, at, e)
         /\ gds'.module \in {Nothing, gds.module}
         /\ e.ev = "done" => gds' = [page |-> "data", module |-> Nothing, category |-> e.item]
  BY <1>1 DEF DrivesOn, Astray, Happenings
<1> DEFINE q == navs[n].events
<1>3. q \in Seq(Happenings)
  <2>1. navs[n] \in Journeys
    BY <1>0
  <2> QED
    BY <2>1 DEF Journeys
<1>4. \A i \in 1..Len(q) : q[i].ev # "done"
  BY <1>0, <1>2, <1>3 DEF Progress
<1>5. Underways /\ Active(n)
  BY <1>2 DEF Underways, Active
<1>6. /\ ~DoneInWire /\ \A m \in Numbers : Active(m) => m = n
      /\ \A d \in calls : Waiting(d) => d.op = "navigate" /\ d.at = "done"
  BY <1>5, Travelling
<1>7. /\ navs'[n].events = Append(q, e)
      /\ \A m \in Numbers : m # n => navs'[m] = navs[m]
  BY <1>0, <1>2 DEF Emitted
<1>8. \A m \in Numbers : m # n => ~Active(m)' /\ navs'[m].events = <<>>
  BY <1>6, <1>7 DEF Active
<1>9. OneRoute' /\ OneDone'
  BY <1>1, <1>6, <1>8 DEF OneRoute, OneDone, DoneInWire
<1>10. Landing'
  <2>1. ASSUME NEW i \in 1..Len(navs'[n].events), navs'[n].events[i].ev = "done"
        PROVE  gds' = [page |-> "data", module |-> Nothing, category |-> navs'[n].events[i].item]
    <3>1. Append(q, e)[i].ev = "done" /\ i \in 1..(Len(q) + 1)
      BY <1>3, <1>7, <2>1
    <3>2. i = Len(q) + 1 /\ Append(q, e)[i] = e
      BY <1>3, <1>4, <3>1
    <3>3. navs'[n].events[i] = e /\ e.ev = "done"
      BY <1>7, <2>1, <3>2
    <3> QED
      BY <1>2, <3>3
  <2>2. \A m \in Numbers : \A i \in 1..Len(navs'[m].events) :
           navs'[m].events[i].ev = "done" =>
              gds' = [page |-> "data", module |-> Nothing, category |-> navs'[m].events[i].item]
    BY <1>8, <2>1
  <2>3. ~DoneInWire'
    BY <1>1, <1>6 DEF DoneInWire
  <2> QED
    BY <2>2, <2>3 DEF Landing, There, DoneInWire
<1> QED
  BY <1>1, <1>2, <1>5, <1>9, <1>10, Travels

(* The reader takes an event from it.                                      *)
LEMMA ReadNavigationOrderly ==
    ASSUME WindowAssumption, State, Orderly, ReadNavigation
    PROVE  Orderly'
<1>0. Formed /\ wire \in Seq(Happenings) /\ selected \in Selections /\ win \in Windows
      /\ navs \in [Numbers -> Journeys]
  BY DEF State, Formed, ShapeServer, ShapeBounds
<1>1. PICK n \in Numbers, e \in Happenings :
         /\ ReadOn(n, e) /\ n = win.following
         /\ win' = win \/ win' = [win EXCEPT !.following = 0]
  BY <1>0, ReadNavigationIs
<1> DEFINE q == navs[n].events
<1>2. /\ q # <<>> /\ e = Head(q) /\ wire' = Append(wire, e) /\ calls' = calls /\ gds' = gds
      /\ navs' = [navs EXCEPT ![n] = [at |-> navs[n].at, item |-> navs[n].item,
                                      events |-> Tail(q)]]
  BY <1>1 DEF ReadOn
<1>3. /\ navs[n] \in Journeys /\ Progress(navs[n])
  BY <1>0 DEF Formed, ShapeServer
<1>4. q \in Seq(Happenings)
  BY <1>3 DEF Journeys
<1>5. Active(n) /\ Underways /\ n # 0
  BY <1>2, Zero DEF Active, Underways, Numbers
<1>6. /\ ~DoneInWire /\ \A m \in Numbers : Active(m) => m = n
      /\ \A d \in calls : ~Waiting(d)
  BY <1>1, <1>5, Travelling DEF Orderly, Routes, Unfollowed
<1>7. /\ navs'[n] = [at |-> navs[n].at, item |-> navs[n].item, events |-> Tail(q)]
      /\ \A m \in Numbers : m # n => navs'[m] = navs[m]
  BY <1>0, <1>2
<1>8. \A m \in Numbers : m # n => ~Active(m)' /\ navs'[m].events = <<>>
  BY <1>6, <1>7 DEF Active
<1>9. \A i \in 1..Len(wire') : wire'[i].ev = "done" => i = Len(wire) + 1 /\ wire'[i] = e
  BY <1>0, <1>2, <1>6 DEF DoneInWire
<1>10. OneRoute' /\ OneDone'
  BY <1>8, <1>9 DEF OneRoute, OneDone
<1>11. \A i \in 1..Len(q) : q[i].ev = "done" => There(q[i].item)
  BY DEF Orderly, Routes, Landing
<1>12. \A i \in 1..Len(Tail(q)) : i + 1 \in 1..Len(q) /\ Tail(q)[i] = q[i + 1]
  BY <1>2, <1>4
<1>13. q[1] = e /\ 1 \in 1..Len(q)
  BY <1>2, <1>4
<1>14. ASSUME e.ev = "done"
       PROVE  There(e.item) /\ selected'.category = e.item /\ ~Active(n)'
  <2>1. There(e.item)
    BY <1>11, <1>13, <1>14
  <2>2. selected'.category = e.item
    <3>1. selected' = [selected EXCEPT !.nav = 0, !.category = e.item]
      BY <1>1, <1>14 DEF ReadOn
    <3> QED
      BY <1>0, <3>1 DEF Selections
  <2>3. navs[n].at = "ended" /\ 1 = Len(q)
    BY <1>2, <1>3, <1>13, <1>14 DEF Progress, Journeys
  <2>4. Tail(q) = <<>>
    <3>1. Tail(q) \in Seq(Happenings) /\ Len(Tail(q)) = Len(q) - 1
      BY <1>2, <1>4
    <3> DEFINE r == Tail(q)
    <3>2. r \in Seq(Happenings) /\ Len(r) = 0
      BY <2>3, <3>1
    <3> HIDE DEF r
    <3>3. r = <<>>
      BY <3>2
    <3> QED
      BY <3>3 DEF r
  <2> QED
    BY <1>7, <2>1, <2>2, <2>3, <2>4 DEF Active
<1>15. Landing'
  <2>n. \A i \in 1..Len(navs'[n].events) :
           navs'[n].events[i].ev = "done" => There(navs'[n].events[i].item)
    <3>1. navs'[n].events = Tail(q)
      BY <1>7
    <3>2. \A i \in 1..Len(Tail(q)) : Tail(q)[i].ev = "done" => There(Tail(q)[i].item)
      BY <1>11, <1>12
    <3> QED
      BY <3>1, <3>2
  <2>1. \A m \in Numbers : \A i \in 1..Len(navs'[m].events) :
           navs'[m].events[i].ev = "done" => There(navs'[m].events[i].item)
    BY <1>8, <2>n
  <2>2. ASSUME NEW i \in 1..Len(wire'), wire'[i].ev = "done"
        PROVE  There(wire'[i].item) /\ selected'.category = wire'[i].item /\ ~Underways'
    <3>1. wire'[i] = e /\ e.ev = "done"
      BY <1>9, <2>2
    <3>2. ~Active(n)'
      BY <1>14, <3>1
    <3> QED
      BY <1>8, <1>14, <3>1, <3>2 DEF Underways
  <2>3. \A x : There(x)' <=> There(x)
    BY <1>2 DEF There
  <2> QED
    BY <2>1, <2>2, <2>3 DEF Landing
<1>16. /\ win'.branch = win.branch /\ win'.category = win.category
       /\ win'.following \in {win.following, 0}
  BY <1>0, <1>1 DEF Windows
<1>17. selected'.module = selected.module /\ selected'.gate = selected.gate
  BY <1>0, <1>1 DEF ReadOn, Selections, Happenings
<1> QED
  BY <1>2, <1>5, <1>6, <1>10, <1>15, <1>16, <1>17, Travels

(* The technician acts when nothing is under way.                          *)
LEMMA Quiet ==
    ASSUME ~Unsettled
    PROVE  (\A d \in calls : ~Waiting(d)) /\ ~Underways /\ wire = <<>>
BY DEF Unsettled, Waiting, Undone, Underways, Active

(* What a click may ask for, in the window it leaves.                      *)
Fits(c) ==
    /\ c.op \in {"start", "connect"} => Bare'
    /\ c.op \in {"connect", "module"} => selected.gate = 0
    /\ c.op = "module" => win'.category = Nothing
    /\ c.op = "category" => win'.branch = "module" /\ c.category = win'.category
                            /\ c.category # Nothing
    /\ c.op = "navigate" => win'.branch = "vehicle" /\ win'.category = Nothing
                            /\ win'.following = 0
    /\ c.op \in {"ai", "retry", "read", "clear"} =>
         /\ c.module = win'.module /\ c.category = win'.category
         /\ win'.branch = "module" => c.module = selected.module
    /\ c.op = "ai" => win'.branch = "module"
    /\ c.op \in {"ai", "read", "clear"} =>
         \/ win'.branch = "module" /\ win'.confirmed /\ c.module # Nothing /\ c.category # Nothing
         \/ win'.branch = "vehicle" /\ c.category # Nothing

LEMMA ClickOrderly ==
    ASSUME Orderly, NEW c, Clicking(c), ~hurried', Fits(c),
           selected.gate # 0 => Bare', Agreed'
    PROVE  Orderly'
<1>0. /\ c.at = "sent" /\ c.out # "fail" /\ calls' = calls \cup {c}
      /\ UNCHANGED <<gds, selected, navs, wire>>
  BY DEF Clicking
<1>1. (\A d \in calls : ~Waiting(d)) /\ ~Underways /\ wire = <<>>
  BY Quiet DEF Clicking
<1>2. \A d \in calls' : Waiting(d) => d = c
  BY <1>0, <1>1
<1>3. OneAtATime'
  BY <1>2 DEF OneAtATime
<1>4. \A n \in Numbers : ~Active(n)' /\ navs'[n].events = <<>>
  BY <1>0, <1>1 DEF Underways, Active
<1>5. ~Underways' /\ wire' = <<>> /\ ~Roaming' /\ ~DoneInWire'
  BY <1>0, <1>1, <1>4 DEF Underways, Roaming, DoneInWire
<1>6. Alone' /\ Unfollowed' /\ OneRoute' /\ OneDone'
  BY <1>2, <1>4, <1>5 DEF Alone, Unfollowed, OneRoute, OneDone, DoneInWire, Fits
<1>7. Landing'
  BY <1>4, <1>5 DEF Landing, DoneInWire
<1>8. Guided'
  BY <1>2, <1>5 DEF Guided, Fits
<1>9. Gated' /\ Belongs' /\ Choosing'
  BY <1>0, <1>2, <1>5 DEF Gated, Belongs, Choosing, Fits, Orderly, Targets
<1>10. Asking'
  BY <1>0, <1>2 DEF Asking, Waiting, Fits
<1> QED
  BY <1>3, <1>6, <1>7, <1>8, <1>9, <1>10 DEF Orderly, Routes, Targets

(* A window that is steady keeps what was agreed, and is as bare.          *)
LEMMA SteadyAgreed ==
    ASSUME Orderly, Steady(win, win'), UNCHANGED <<gds, selected>>
    PROVE  Agreed' /\ (selected.gate # 0 => Bare')
<1>1. /\ win'.branch = win.branch /\ win'.listed = win.listed /\ win'.module = win.module
      /\ win'.offered = win.offered /\ win'.category = win.category
      /\ win'.confirmed = win.confirmed
      /\ win'.prompt.kind = "category" => win.prompt.kind = "category"
  BY DEF Steady
<1>2. Agreed'
  BY <1>1 DEF Orderly, Targets, Agreed, Displayed, There
<1> QED
  BY <1>1, <1>2 DEF Orderly, Targets, Gated, Bare

LEMMA BranchOrderly ==
    ASSUME WindowAssumption, State, Orderly, Followed, ~hurried',
           ClickModuleDiagnostics \/ ClickVehicleDiagnostics
    PROVE  Orderly'
<1>0. Formed /\ Offering(win)
  BY DEF State
<1>1. CASE ClickModuleDiagnostics
  <2>1. Blank(win') /\ win'.branch = "module" /\ win'.prompt.kind # "category"
    BY <1>0, <1>1, ClickModuleWindow DEF NoPrompt
  <2>2. PICK c : Clicking(c) /\ c.op = "start"
    BY <1>0, <1>1, ClickModuleIs
  <2>3. Bare' /\ Agreed'
    BY <2>1 DEF Blank, Bare, Agreed
  <2>4. Fits(c)
    BY <2>2, <2>3 DEF Fits
  <2> QED
    BY <2>2, <2>3, <2>4, ClickOrderly
<1>2. CASE ClickVehicleDiagnostics
  <2>1. Blank(win') /\ win'.branch = "vehicle" /\ win'.prompt = win.prompt
    BY <1>0, <1>2, ClickVehicleWindow
  <2>2. PICK c : Clicking(c) /\ c.op = "navigate"
    BY <1>0, <1>2, ClickVehicleIs
  <2>3. win'.following = win.following
    BY <1>0, <1>2, TechnicianFollows DEF Technician
  <2>4. ~Underways
    BY <2>2, Quiet DEF Clicking
  <2>5. win.following = 0
    BY <2>4 DEF Followed, Underways
  <2>6. Agreed' /\ (selected.gate # 0 => Bare')
    BY <2>1 DEF Blank, Bare, Agreed, Orderly, Targets, Gated
  <2>7. Fits(c)
    BY <2>1, <2>2, <2>3, <2>5 DEF Fits, Blank
  <2> QED
    BY <2>2, <2>6, <2>7, ClickOrderly
<1> QED
  BY <1>1, <1>2

LEMMA SelectModuleOrderly ==
    ASSUME WindowAssumption, State, Orderly, ~hurried', ClickSelectModule
    PROVE  Orderly'
<1>0. Formed /\ Offering(win)
  BY DEF State
<1>1. win.module # Nothing /\ win'.category = Nothing
  BY <1>0, SelectModuleWindow
<1>2. PICK c : Clicking(c) /\ c.op = "module"
  BY <1>0, SelectModuleIs
<1>3. selected.gate = 0
  BY <1>1 DEF Orderly, Targets, Gated, Bare
<1>4. Agreed'
  BY <1>1 DEF Agreed
<1>5. Fits(c)
  BY <1>1, <1>2, <1>3 DEF Fits
<1> QED
  BY <1>2, <1>3, <1>4, <1>5, ClickOrderly

LEMMA ChooseOrderly ==
    ASSUME WindowAssumption, State, Orderly, ~hurried',
           \/ \E m \in Modules : ChooseModule(m)
           \/ \E g \in Categories : ChooseCategory(g)
    PROVE  Orderly'
<1>0. Formed /\ Offering(win) /\ win \in Windows
  BY DEF State, Formed
<1>1. UNCHANGED <<calls, gds, selected, navs, wire>> /\ ~Unsettled
  BY DEF ChooseModule, ChooseCategory, Acts, server
<1>2. (\A d \in calls' : ~Waiting(d)) /\ ~Underways' /\ ~DoneInWire'
  BY <1>1, Quiet DEF Underways, Active, DoneInWire
<1>3. Belongs'
  BY <1>1 DEF Belongs, Orderly, Targets
<1>4. ASSUME NEW m \in Modules, ChooseModule(m)
      PROVE  selected'.gate = 0 /\ Agreed'
  <2>1. win.listed # {} /\ win' = [win EXCEPT !.module = m]
    BY <1>0, <1>4, ChooseModuleWindow
  <2>2. win'.branch = win.branch /\ win'.category = win.category /\ win'.confirmed = win.confirmed
    BY <1>0, <2>1 DEF Windows
  <2>3. Agreed'
    BY <1>1, <2>2 DEF Orderly, Targets, Agreed, Displayed, There
  <2> QED
    BY <1>1, <2>1, <2>3 DEF Orderly, Targets, Gated, Bare
<1>5. ASSUME NEW g \in Categories, ChooseCategory(g)
      PROVE  selected'.gate = 0 /\ Agreed'
  <2>1. win.offered # {} /\ win'.branch = "module" /\ win'.confirmed = FALSE
    BY <1>0, <1>5, ChooseCategoryWindow
  <2>2. Agreed'
    BY <2>1 DEF Agreed
  <2> QED
    BY <1>1, <2>1, <2>2 DEF Orderly, Targets, Gated, Bare
<1>6. selected'.gate = 0 /\ Agreed'
  BY <1>4, <1>5
<1> QED
  BY <1>2, <1>3, <1>6, Restful

LEMMA SelectCategoryOrderly ==
    ASSUME WindowAssumption, State, Orderly, ~hurried', ClickSelectCategory
    PROVE  Orderly'
<1>0. Formed /\ Offering(win) /\ win \in Windows
  BY DEF State, Formed
<1>1. "category" \in win.enabled /\ win.category # Nothing
  BY DEF ClickSelectCategory, Can
<1>2. win.branch = "module"
  BY <1>0, <1>1 DEF Offering, OffersOf
<1>3. \E c : Clicking(c) /\ c.op = "category" /\ c.category = win.category
  <2>1. SelectsCategory(win, Unsubmitted)
    BY DEF ClickSelectCategory
  <2> QED
    BY <1>0, <2>1, SelectsCategoryIs
<1>4. PICK c : Clicking(c) /\ c.op = "category" /\ c.category = win.category
  BY <1>3
<1>5. Steady(win, win')
  BY <1>0, ClicksKeep DEF Keeps
<1>6. UNCHANGED <<gds, selected>>
  BY <1>4 DEF Clicking
<1>7. Agreed' /\ (selected.gate # 0 => Bare')
  BY <1>5, <1>6, SteadyAgreed
<1>8. Fits(c)
  BY <1>1, <1>2, <1>4, <1>5 DEF Fits, Steady
<1> QED
  BY <1>4, <1>7, <1>8, ClickOrderly

LEMMA SubmitCategoryOrderly ==
    ASSUME WindowAssumption, State, Orderly, ~hurried', NEW g \in Categories,
           SubmitCategoryPrompt(g)
    PROVE  Orderly'
<1>0. Formed /\ Offering(win) /\ win \in Windows
  BY DEF State, Formed
<1>1. /\ win.prompt.kind = "category" /\ win'.category = g
      /\ win'.branch = win.branch /\ win'.confirmed = win.confirmed
  BY <1>0, SubmitCategoryWindow
<1> DEFINE w == [win EXCEPT !.category = g, !.prompt = NoPrompt]
           hasty == Unsubmitted \/ win.confirmed \/ win.branch # "module"
<1>2. SelectsCategory(w, hasty)
  BY Zenon DEF SubmitCategoryPrompt
<1>3. w \in Windows /\ w.category = g
  <2>1. NoPrompt \in [kind: {"none", "category", "decision"}, id: 0..MaxClicks]
    BY Zero DEF NoPrompt
  <2> QED
    BY <1>0, <2>1 DEF Windows
<1> HIDE DEF w
<1>4. /\ ~hurried' => ~hasty
      /\ \E c : Clicking(c) /\ c.op = "category" /\ c.category = w.category
  BY <1>0, <1>2, <1>3, SelectsCategoryIs
<1>5. PICK c : Clicking(c) /\ c.op = "category" /\ c.category = g
  BY <1>3, <1>4
<1>6. win.branch = "module" /\ ~win.confirmed
  BY <1>4
<1>7. g # Nothing
  BY DEF WindowAssumption
<1>8. Agreed'
  BY <1>1, <1>6 DEF Agreed
<1>9. selected.gate = 0
  BY <1>1 DEF Orderly, Targets, Gated, Bare
<1>10. Fits(c)
  BY <1>1, <1>5, <1>6, <1>7 DEF Fits
<1> QED
  BY <1>5, <1>8, <1>9, <1>10, ClickOrderly

LEMMA AskOrderly ==
    ASSUME WindowAssumption, State, Orderly, ~hurried',
           ClickAiDiagnose \/ ClickAiRetry \/ ClickReadDtcs \/ ClickClearDtcs
    PROVE  Orderly'
<1>0. Formed /\ Offering(win) /\ win \in Windows
  BY DEF State, Formed
<1>1. PICK c : /\ Clicking(c) /\ c.module = win.module /\ c.category = win.category
               /\ \/ c.op = "ai" /\ ClickAiDiagnose
                  \/ c.op = "retry" /\ ClickAiRetry
                  \/ c.op = "read" /\ ClickReadDtcs
                  \/ c.op = "clear" /\ ClickClearDtcs
  BY <1>0, AsksAsShown
<1>2. win.branch = "module" => win.module = selected.module
  BY <1>0, AsksAsShown DEF Unsubmitted
<1>3. Keeps(win, win') /\ UNCHANGED <<gds, selected>>
  BY <1>0, <1>1, ClicksKeep DEF Clicking
<1>4. /\ win'.branch = win.branch /\ win'.module = win.module
      /\ win'.category = win.category /\ win'.confirmed = win.confirmed
  BY <1>3 DEF Keeps, Steady
<1>5. Agreed' /\ (selected.gate # 0 => Bare')
  BY <1>3, SteadyAgreed DEF Keeps
<1>s. /\ c.module = win'.module /\ c.category = win'.category
      /\ win'.branch = "module" => c.module = selected.module
  BY <1>1, <1>2, <1>4
<1>6. ASSUME c.op = "ai", ClickAiDiagnose
      PROVE  Fits(c)
  <2>1. /\ "ai" \in win.enabled /\ win.module # Nothing /\ win.category # Nothing
        /\ win.confirmed
    BY <1>6 DEF ClickAiDiagnose, Can
  <2>2. win.branch = "module"
    BY <1>0, <2>1 DEF Offering, OffersOf
  <2> QED
    BY <1>4, <1>6, <1>s, <2>1, <2>2 DEF Fits
<1>7. ASSUME c.op = "retry"
      PROVE  Fits(c)
  BY <1>7, <1>s DEF Fits
<1>8. ASSUME c.op \in {"read", "clear"}, ClickReadDtcs \/ ClickClearDtcs
      PROVE  Fits(c)
  <2>1. {"read", "clear"} \cap win.enabled # {} /\ MayAct
    BY <1>8 DEF ClickReadDtcs, ClickClearDtcs, Can
  <2>2. \/ win.branch = "module" /\ win.module # Nothing /\ win.category # Nothing /\ win.confirmed
        \/ win.branch = "vehicle" /\ win.category # Nothing
    BY <1>0, <2>1 DEF Offering, OffersOf, MayAct
  <2> QED
    BY <1>4, <1>8, <1>s, <2>2 DEF Fits
<1>9. Fits(c)
  BY <1>1, <1>6, <1>7, <1>8
<1> QED
  BY <1>1, <1>5, <1>9, ClickOrderly

LEMMA TechnicianOrderly ==
    ASSUME WindowAssumption, State, Orderly, Followed, ~hurried', Technician
    PROVE  Orderly'
<1>0. Formed /\ Offering(win)
  BY DEF State
<1>1. ASSUME NEW option \in {"override", "cancel"}, SubmitDecision(option)
      PROVE  Orderly'
  <2>1. PICK c : Clicking(c) /\ c.op = "decide"
    BY <1>0, <1>1, SubmitDecisionIs
  <2>2. Keeps(win, win') /\ UNCHANGED <<gds, selected>>
    BY <1>0, <1>1, <2>1, ClicksKeep DEF Clicking
  <2>3. Agreed' /\ (selected.gate # 0 => Bare')
    BY <2>2, SteadyAgreed DEF Keeps
  <2>4. Fits(c)
    BY <2>1 DEF Fits
  <2> QED
    BY <2>1, <2>3, <2>4, ClickOrderly
<1>2. CASE ClickModuleDiagnostics \/ ClickVehicleDiagnostics
  BY <1>2, BranchOrderly
<1>3. CASE \/ \E m \in Modules : ChooseModule(m)
           \/ \E g \in Categories : ChooseCategory(g)
  BY <1>3, ChooseOrderly
<1>4. CASE \E g \in Categories : SubmitCategoryPrompt(g)
  BY <1>4, SubmitCategoryOrderly
<1>5. CASE ClickSelectModule \/ ClickSelectCategory
  BY <1>5, SelectModuleOrderly, SelectCategoryOrderly
<1>6. CASE ClickAiDiagnose \/ ClickAiRetry \/ ClickReadDtcs \/ ClickClearDtcs
  BY <1>6, AskOrderly
<1>7. CASE AnswerDialog \/ CloseDialog
  BY <1>7, DialogOrderly
<1> QED
  BY <1>1, <1>2, <1>3, <1>4, <1>5, <1>6, <1>7, Zenon DEF Technician

-----------------------------------------------------------------------------
(* Whom the window follows, or the session is bound to, is about: each     *)
(* step keeps what is about so, or the reader that takes its last event    *)
(* lets go of it.                                                          *)
LEMMA FollowedStill ==
    ASSUME Followed, \A m \in Numbers : Active(m) => Active(m)',
           win'.following \in {win.following, 0, selected.nav},
           selected'.nav \in {selected.nav, 0}
    PROVE  Followed'
BY DEF Followed

LEMMA ActiveStill ==
    ASSUME navs' = navs
    PROVE  \A m \in Numbers : Active(m) => Active(m)'
BY DEF Active

LEMMA TechnicianServer ==
    ASSUME Technician
    PROVE  UNCHANGED <<selected, navs>> /\ (hurried => hurried')
<1>1. CASE AnswerDialog \/ CloseDialog
  BY <1>1 DEF AnswerDialog, CloseDialog, server
<1>2. ASSUME NEW m \in Modules, ChooseModule(m)
      PROVE  UNCHANGED <<selected, navs>> /\ (hurried => hurried')
  BY <1>2 DEF ChooseModule, Acts, server
<1>3. ASSUME NEW c \in Categories, ChooseCategory(c)
      PROVE  UNCHANGED <<selected, navs>> /\ (hurried => hurried')
  BY <1>3 DEF ChooseCategory, Acts, server
<1>4. ASSUME NEW w, NEW c, NEW hasty, ClicksAs(w, c, hasty)
      PROVE  UNCHANGED <<selected, navs>> /\ (hurried => hurried')
  BY <1>4 DEF ClicksAs, Acts, server
<1>5. CASE ClickModuleDiagnostics \/ ClickVehicleDiagnostics \/ ClickSelectModule
  BY <1>4, <1>5, Zenon DEF ClickModuleDiagnostics, ClickVehicleDiagnostics,
                           ClickSelectModule, Clicks
<1>6. CASE ClickSelectCategory \/ ClickAiDiagnose \/ ClickAiRetry
  BY <1>4, <1>6, Zenon DEF ClickSelectCategory, SelectsCategory, ClickAiDiagnose,
                           ClickAiRetry
<1>7. CASE ClickReadDtcs \/ ClickClearDtcs
  BY <1>4, <1>7, Zenon DEF ClickReadDtcs, ClickClearDtcs
<1>8. ASSUME NEW c \in Categories, SubmitCategoryPrompt(c)
      PROVE  UNCHANGED <<selected, navs>> /\ (hurried => hurried')
  BY <1>4, <1>8, Zenon DEF SubmitCategoryPrompt, SelectsCategory
<1>9. ASSUME NEW option \in {"override", "cancel"}, SubmitDecision(option)
      PROVE  UNCHANGED <<selected, navs>> /\ (hurried => hurried')
  BY <1>4, <1>9, Zenon DEF SubmitDecision, Clicks
<1> QED
  BY <1>1, <1>2, <1>3, <1>5, <1>6, <1>7, <1>8, <1>9, Zenon DEF Technician

LEMMA StartsOverNav ==
    ASSUME WindowAssumption, NEW c, NEW s \in Selections, StartsOver(c, s)
    PROVE  selected'.nav \in {s.nav, 0}
<1> DEFINE r == Resets(s)
<1>1. r = [s EXCEPT !.module = Nothing, !.category = Nothing, !.nav = 0, !.ai = 0]
  BY ResetsIs
<1>2. r.nav = 0
  BY <1>1 DEF Selections
<1>3. selected' = r \/ selected' = s
  BY DEF StartsOver
<1> HIDE DEF r
<1> QED
  BY <1>2, <1>3

LEMMA ServeNav ==
    ASSUME WindowAssumption, State, NEW c \in calls, Serve(c)
    PROVE  \/ selected'.nav \in {selected.nav, 0}
           \/ c.op = "navigate" /\ selected'.nav = c.n /\ navs'[c.n].at = "driving"
<1>0. /\ Formed /\ Numbered /\ Undone(c) /\ c \in Calls /\ c.op \in Ops
      /\ selected \in Selections /\ navs \in [Numbers -> Journeys]
      /\ 0 \in 0..MaxClicks
  BY Zero, ServerOf DEF State, Formed, ShapeCalls, ShapeServer
<1>1. CASE c.op = "start"
  <2>1. \/ Refuses(c)
        \/ StartsOver(c, selected)
        \/ selected' = selected
        \/ selected' = [selected EXCEPT !.gate = c.n]
    BY <1>0, <1>1, ServerOf, ServeStartShape
  <2> QED
    BY <1>0, <2>1, StartsOverNav DEF Refuses, Selections
<1>2. CASE c.op = "decide"
  <2> DEFINE s == [selected EXCEPT !.gate = 0]
  <2>1. Refuses(c) \/ StartsOver(c, s) \/ selected' = s
    BY <1>0, <1>2, ServerOf, ServeDecideShape
  <2>2. s \in Selections /\ s.nav = selected.nav
    BY <1>0 DEF Selections
  <2> HIDE DEF s
  <2> QED
    BY <2>1, <2>2, StartsOverNav DEF Refuses
<1>3. CASE c.op \in {"connect", "answer"}
  <2>1. selected' = selected
    BY <1>0, <1>3, ServerOf, ServeConnectShape, ServeAnswerShape
  <2> QED
    BY <2>1
<1>4. CASE c.op = "navigate"
  <2>1. \/ Refuses(c)
        \/ /\ c.n \in Numbers /\ navs' = [navs EXCEPT ![c.n].at = "driving"]
           /\ selected' = [selected EXCEPT !.nav = c.n]
    BY <1>0, <1>4, ServerOf, ServeNavigateShape
  <2>2. CASE Refuses(c)
    BY <2>2 DEF Refuses
  <2>3. CASE /\ c.n \in Numbers /\ navs' = [navs EXCEPT ![c.n].at = "driving"]
             /\ selected' = [selected EXCEPT !.nav = c.n]
    <3>1. navs[c.n] \in Journeys
      BY <1>0, <2>3
    <3> QED
      BY <1>0, <1>4, <2>3, <3>1 DEF Selections, Journeys
  <2> QED
    BY <2>1, <2>2, <2>3
<1>5. CASE c.op = "module"
  <2>1. \/ Refuses(c) \/ selected' = selected
        \/ selected' = [selected EXCEPT !.module = c.module, !.category = Nothing]
    BY <1>0, <1>5, ServerOf, ServeModuleShape
  <2> QED
    BY <1>0, <2>1 DEF Refuses, Selections
<1>6. CASE c.op = "category"
  <2>1. \/ Refuses(c) \/ selected' = selected
        \/ selected' = [selected EXCEPT !.category = c.category]
    BY <1>0, <1>6, ServerOf, ServeCategoryShape
  <2> QED
    BY <1>0, <2>1 DEF Refuses, Selections
<1>7. CASE c.op \in {"ai", "retry"}
  <2>1. \/ Refuses(c)
        \/ \E m, g : selected' = [selected EXCEPT !.ai = c.n, !.module = m, !.category = g]
    BY <1>0, <1>7, ServerOf, ServeAiShape
  <2> QED
    BY <1>0, <2>1 DEF Refuses, Selections
<1>8. CASE c.op \in {"read", "clear"}
  <2>1. Refuses(c) \/ \E m, g : \E d : ReadsAs(d, m, g)
    BY <1>0, <1>8, ServerOf, FailsShape DEF ServeRead, ServeClear
  <2>2. selected' = selected \/ \E m, g : selected' = [selected EXCEPT !.module = m, !.category = g]
    BY <2>1 DEF Refuses, ReadsAs
  <2> QED
    BY <1>0, <2>2 DEF Selections
<1>9. c.op # "status"
  BY <1>0 DEF Numbered, Undone
<1> QED
  BY <1>0, <1>1, <1>2, <1>3, <1>4, <1>5, <1>6, <1>7, <1>8, <1>9 DEF Ops

LEMMA ServeActive ==
    ASSUME WindowAssumption, State, NEW c \in calls, Serve(c)
    PROVE  \A m \in Numbers : Active(m) => Active(m)'
<1>0. Formed /\ Numbered /\ navs \in [Numbers -> Journeys]
  BY DEF State, Formed, ShapeServer
<1>1. \/ navs' = navs
      \/ c.n \in Numbers /\ navs' = [navs EXCEPT ![c.n].at = "driving"]
      \/ c.q \in Numbers /\ navs' = [navs EXCEPT ![c.q].at = "chosen", ![c.q].item = c.category]
  BY <1>0, ServeNavs
<1>2. CASE navs' = navs
  BY <1>2, ActiveStill
<1>3. CASE c.n \in Numbers /\ navs' = [navs EXCEPT ![c.n].at = "driving"]
  <2>1. \A m \in Numbers : navs[m] \in Journeys
    BY <1>0
  <2>2. \A m \in Numbers : navs'[m] = navs[m] \/ navs'[m].at = "driving"
    BY <1>0, <1>3, <2>1 DEF Journeys
  <2> QED
    BY <2>2 DEF Active
<1>4. CASE /\ c.q \in Numbers
           /\ navs' = [navs EXCEPT ![c.q].at = "chosen", ![c.q].item = c.category]
  <2>1. \A m \in Numbers : navs[m] \in Journeys
    BY <1>0
  <2>2. \A m \in Numbers : navs'[m] = navs[m] \/ navs'[m].at = "chosen"
    BY <1>0, <1>4, <2>1 DEF Journeys
  <2> QED
    BY <2>2 DEF Active
<1> QED
  BY <1>1, <1>2, <1>3, <1>4

LEMMA ServeFollowed ==
    ASSUME WindowAssumption, State, Followed, NEW c \in calls, Serve(c)
    PROVE  Followed'
<1>0. Formed /\ Numbered /\ c \in Calls
  BY DEF State, Formed, ShapeCalls
<1>1. win' = win
  BY <1>0, ServerOf
<1>2. \A m \in Numbers : Active(m) => Active(m)'
  BY ServeActive
<1>3. CASE selected'.nav \in {selected.nav, 0}
  BY <1>1, <1>2, <1>3, FollowedStill
<1>4. CASE c.op = "navigate" /\ selected'.nav = c.n /\ navs'[c.n].at = "driving"
  <2>1. c.n \in Numbers
    BY <1>0, <1>4, CallNumbers DEF Clicked, Ops
  <2> QED
    BY <1>1, <1>2, <1>4, <2>1 DEF Followed, Active
<1> QED
  BY <1>3, <1>4, ServeNav

LEMMA DrivesFollowed ==
    ASSUME WindowAssumption, State, Followed, NEW n \in Numbers, Drives(n)
    PROVE  Followed'
<1>0. Formed /\ navs \in [Numbers -> Journeys]
  BY DEF State, Formed, ShapeServer
<1>1. DrivesOn(n) /\ UNCHANGED <<win, selected>>
  BY <1>0, DrivesIs
<1>2. PICK e \in Happenings, at \in {"asked", "ended"} : Emitted(n, at, e)
  BY <1>1 DEF DrivesOn
<1> DEFINE q == navs[n].events
<1>3. q \in Seq(Happenings)
  <2>1. navs[n] \in Journeys
    BY <1>0
  <2> QED
    BY <2>1 DEF Journeys
<1>4. navs'[n].events = Append(q, e) /\ \A m \in Numbers : m # n => navs'[m] = navs[m]
  BY <1>0, <1>2 DEF Emitted
<1>5. Append(q, e) # <<>>
  BY <1>3
<1>6. \A m \in Numbers : Active(m) => Active(m)'
  BY <1>4, <1>5 DEF Active
<1> QED
  BY <1>1, <1>6, FollowedStill

LEMMA ReadNavigationFollowed ==
    ASSUME WindowAssumption, State, Followed, ReadNavigation
    PROVE  Followed'
<1>0. Formed /\ selected \in Selections /\ win \in Windows /\ 0 \in 0..MaxClicks
      /\ navs \in [Numbers -> Journeys]
  BY Zero DEF State, Formed, ShapeServer
<1>1. PICK n \in Numbers, e \in Happenings :
         /\ ReadOn(n, e) /\ n = win.following
         /\ e.ev = "ask" => win' = win
         /\ e.ev # "ask" => win' = [win EXCEPT !.following = 0]
  BY <1>0, ReadNavigationIs
<1> DEFINE q == navs[n].events
<1>2. /\ q # <<>> /\ e = Head(q)
      /\ navs' = [navs EXCEPT ![n] = [at |-> navs[n].at, item |-> navs[n].item,
                                      events |-> Tail(q)]]
  BY <1>1 DEF ReadOn
<1>3. navs[n] \in Journeys /\ Progress(navs[n])
  BY <1>0 DEF Formed, ShapeServer
<1>4. q \in Seq(Happenings)
  BY <1>3 DEF Journeys
<1>5. /\ navs'[n] = [at |-> navs[n].at, item |-> navs[n].item, events |-> Tail(q)]
      /\ \A m \in Numbers : m # n => navs'[m] = navs[m]
  BY <1>0, <1>2
<1>6. CASE e.ev = "ask"
  <2>1. q[1] = e /\ 1 \in 1..Len(q)
    BY <1>2, <1>4
  <2>2. navs[n].at = "ended" => 1 # Len(q)
    BY <1>3, <1>6, <2>1 DEF Progress
  <2>3. navs[n].at \in {"asked", "chosen", "ended"}
    BY <1>2, <1>3 DEF Progress, Journeys
  <2>4. Len(q) # 1 => Tail(q) # <<>>
    <3> DEFINE r == Tail(q)
               l == Len(q)
    <3>1. Len(r) = l - 1 /\ l \in Nat
      BY <1>2, <1>4
    <3> HIDE DEF r, l
    <3>2. l # 1 => Len(r) # 0
      BY <3>1
    <3>3. l # 1 => r # <<>>
      BY <3>2
    <3> QED
      BY <3>3 DEF r, l
  <2>5. Active(n)'
    BY <1>5, <2>2, <2>3, <2>4 DEF Active
  <2>6. \A m \in Numbers : Active(m) => Active(m)'
    BY <1>5, <2>5 DEF Active
  <2> QED
    BY <1>1, <1>6, <2>6, FollowedStill DEF ReadOn
<1>7. CASE e.ev \in {"done", "error"}
  <2>1. win'.following = 0
    BY <1>0, <1>1, <1>7 DEF Windows
  <2>2. selected'.nav = 0
    BY <1>0, <1>1, <1>7 DEF ReadOn, Selections
  <2> QED
    BY <2>1, <2>2 DEF Followed
<1> QED
  BY <1>6, <1>7 DEF Happenings

LEMMA RestFollowed ==
    ASSUME WindowAssumption, State, Followed,
           \/ LoseNavigation \/ ReadDiagnosis \/ LoseDiagnosis \/ ReadSession
           \/ LoseSession \/ Poll \/ EngineEnds \/ GateExpires
    PROVE  Followed'
<1>0. Formed /\ selected \in Selections
  BY DEF State, Formed, ShapeServer
<1>1. navs' = navs
  BY DEF LoseNavigation, ReadDiagnosis, LoseDiagnosis, ReadSession, LoseSession,
         Poll, EngineEnds, GateExpires, server
<1>2. \/ selected' = selected
      \/ selected' = [selected EXCEPT !.ai = 0]
      \/ selected' = [selected EXCEPT !.gate = 0]
  BY DEF LoseNavigation, ReadDiagnosis, LoseDiagnosis, ReadSession, LoseSession,
         Poll, EngineEnds, GateExpires, server
<1>3. selected'.nav = selected.nav
  BY <1>0, <1>2 DEF Selections
<1>4. CASE EngineEnds \/ GateExpires
  <2>1. win' = win
    BY <1>4 DEF EngineEnds, GateExpires
  <2> QED
    BY <1>1, <1>3, <2>1, ActiveStill, FollowedStill
<1>5. CASE ~(EngineEnds \/ GateExpires)
  <2>1. win'.following \in {win.following, 0}
    BY <1>0, <1>5, StreamsFollow
  <2> QED
    BY <1>1, <1>3, <2>1, ActiveStill, FollowedStill
<1> QED
  BY <1>4, <1>5

LEMMA FollowedStays ==
    ASSUME WindowAssumption, State, Followed, [WindowNext]_windowVars
    PROVE  Followed'
<1>0. Formed /\ Offering(win) /\ Numbered
  BY DEF State
<1>1. CASE Technician
  BY <1>0, <1>1, TechnicianServer, TechnicianFollows, ActiveStill, FollowedStill
<1>2. CASE HandleNavigationEvent
  BY <1>0, <1>2, EventCalls, EventFollows, ActiveStill, FollowedStill
<1>3. ASSUME NEW c \in calls, GiveUp(c)
      PROVE  Followed'
  BY <1>0, <1>3, GiveUpIs, ActiveStill, FollowedStill
<1>4. ASSUME NEW c \in calls, Handle(c)
      PROVE  Followed'
  BY <1>0, <1>4, HandleWire, HandleFollows, ActiveStill, FollowedStill
<1>5. CASE UNCHANGED windowVars
  <2>1. UNCHANGED <<win, selected, navs>>
    BY <1>5 DEF windowVars, server
  <2> QED
    BY <2>1, ActiveStill, FollowedStill
<1>6. CASE Streams
  BY <1>2, <1>6, ReadNavigationFollowed, RestFollowed DEF Streams
<1>7. CASE Losses
  BY <1>3, <1>7, RestFollowed DEF Losses
<1>8. CASE Server
  BY <1>8, ServeFollowed, DrivesFollowed, RestFollowed DEF Server
<1>9. CASE Window
  BY <1>4, <1>9, RestFollowed DEF Window
<1> QED
  BY <1>1, <1>5, <1>6, <1>7, <1>8, <1>9 DEF WindowNext

-----------------------------------------------------------------------------
(* What holds until the technician hurries.                                *)
LEMMA InitFollows ==
    ASSUME WindowAssumption, WindowInit
    PROVE  win.following = 0 /\ selected.nav = 0
<1>1. PICK at \in {"fresh", "listed", "shown"}, category \in Categories : Settled(at, category)
  BY DEF WindowInit, WindowAssumption
<1> DEFINE a == Activated
           p == Populated(a)
           v == [p EXCEPT !.offered = Categories, !.category = category, !.confirmed = TRUE,
                          !.page = "data"]
<1>2. a \in Windows /\ Offering(a)
  BY ActivatedIs DEF Offering
<1>3. a.following = 0
  BY DEF Activated, Refreshed
<1>4. win = a \/ win = p \/ win = Refreshed(v)
  BY <1>1 DEF Settled
<1>5. \/ selected = Unselected
      \/ selected = [Unselected EXCEPT !.module = FirstModule, !.category = category]
  BY <1>1 DEF Settled
<1>6. selected.nav = 0
  <2>1. Unselected \in Selections
    BY UnselectedIs
  <2>2. Unselected.nav = 0
    BY DEF Unselected
  <2> QED
    BY <1>5, <2>1, <2>2 DEF Selections
<1> HIDE DEF a
<1>7. p \in Windows /\ p.following = a.following
  BY <1>2, PopulatedAlike DEF Alike
<1> HIDE DEF p
<1>8. v \in Windows /\ v.following = p.following
  BY <1>7 DEF Windows, Pages
<1> HIDE DEF v
<1> QED
  BY <1>3, <1>4, <1>6, <1>7, <1>8, FollowingOf

LEMMA PatientInit ==
    ASSUME WindowAssumption, WindowInit
    PROVE  Patient
<1>1. PICK category \in Categories : Begun(category)
  BY InitIs
<1>2. /\ calls = {} /\ wire = <<>>
      /\ \A n \in Numbers : navs[n].at = "none" /\ navs[n].events = <<>>
  BY InitIs
<1>3. /\ win.branch # "vehicle" /\ selected.gate = 0
      /\ \/ win.confirmed = FALSE /\ gds.module = Nothing
         \/ /\ win.category = category
            /\ selected.module = FirstModule /\ selected.category = category
            /\ gds = [page |-> "data", module |-> FirstModule, category |-> category]
  BY <1>1 DEF Begun
<1>4. \A n \in Numbers : ~Active(n)
  BY <1>2 DEF Active
<1>5. ~Underways /\ ~DoneInWire
  BY <1>2, <1>4 DEF Underways, DoneInWire
<1>6. OneAtATime /\ Alone /\ Unfollowed /\ OneRoute /\ OneDone /\ Guided
  BY <1>2, <1>4, <1>5 DEF OneAtATime, Alone, Unfollowed, OneRoute, OneDone, Guided
<1>7. Landing
  BY <1>2 DEF Landing
<1>8. Gated /\ Belongs /\ Choosing /\ Asking
  BY <1>2, <1>3 DEF Gated, Belongs, Choosing, Asking
<1>9. Agreed
  BY <1>3 DEF Agreed, Displayed
<1>10. win.following = 0 /\ selected.nav = 0
  BY InitFollows
<1> QED
  BY <1>6, <1>7, <1>8, <1>9, <1>10 DEF Patient, Followed, Orderly, Routes, Targets

LEMMA HurriedStays ==
    ASSUME WindowAssumption, State, [WindowNext]_windowVars, hurried
    PROVE  hurried'
<1>0. Formed
  BY DEF State
<1>1. CASE Technician
  BY <1>1, TechnicianServer
<1>2. ASSUME NEW c \in calls, Serve(c)
      PROVE  hurried'
  BY <1>2 DEF Serve
<1>3. CASE Streams
  BY <1>3 DEF Streams, ReadNavigation, HandleNavigationEvent, ReadDiagnosis,
              ReadSession
<1>4. CASE Losses
  BY <1>4 DEF Losses, LoseNavigation, LoseDiagnosis, LoseSession, GiveUp
<1>5. CASE Server
  BY <1>2, <1>5 DEF Server, Drives, EngineEnds, GateExpires
<1>6. CASE Window
  BY <1>6 DEF Window, Poll, Handle
<1>7. CASE UNCHANGED windowVars
  BY <1>7 DEF windowVars
<1> QED
  BY <1>1, <1>3, <1>4, <1>5, <1>6, <1>7 DEF WindowNext

LEMMA PatientStays ==
    ASSUME WindowAssumption, State, Patient, [WindowNext]_windowVars
    PROVE  Patient'
<1>1. Followed /\ Followed'
  BY FollowedStays DEF Patient
<1> SUFFICES ASSUME ~hurried'
             PROVE  Orderly'
  BY <1>1 DEF Patient
<1>2. Orderly
  BY HurriedStays DEF Patient
<1>3. CASE Technician
  BY <1>1, <1>2, <1>3, TechnicianOrderly
<1>4. CASE Streams
  BY <1>2, <1>4, ReadNavigationOrderly, EventOrderly, RestOrderly DEF Streams
<1>5. CASE Losses
  <2>1. Formed
    BY DEF State
  <2> QED
    BY <1>1, <1>2, <1>5, <2>1, LoseNavigationOrderly, RestOrderly, GiveUpOrderly DEF Losses
<1>6. CASE Server
  BY <1>2, <1>6, ServeOrderly, DrivesOrderly, RestOrderly DEF Server
<1>7. CASE Window
  BY <1>2, <1>7, HandleOrderly, RestOrderly DEF Window
<1>8. CASE UNCHANGED windowVars
  <2>1. UNCHANGED <<win, calls, gds, selected, navs, wire>>
    BY <1>8 DEF windowVars, server
  <2>2. Steady(win, win')
    BY <2>1 DEF Steady
  <2> QED
    BY <1>2, <2>1, <2>2, StillOrderly
<1> QED
  BY <1>3, <1>4, <1>5, <1>6, <1>7, <1>8 DEF WindowNext

-----------------------------------------------------------------------------
(* An answer that appears is that of the call just served.                 *)
LEMMA TechnicianCalls ==
    ASSUME WindowAssumption, State, Technician
    PROVE  \A d \in calls' : d \in calls \/ d.at = "sent" \/ d.op = "answer"
<1>0. Formed
  BY DEF State
<1>1. ASSUME NEW c, Clicking(c)
      PROVE  \A d \in calls' : d \in calls \/ d.at = "sent"
  BY <1>1 DEF Clicking
<1>2. CASE ClickModuleDiagnostics \/ ClickVehicleDiagnostics \/ ClickSelectModule
  BY <1>0, <1>1, <1>2, ClickModuleIs, ClickVehicleIs, SelectModuleIs
<1>3. CASE ClickSelectCategory
  <2>1. win \in Windows /\ SelectsCategory(win, Unsubmitted)
    BY <1>0, <1>3 DEF ClickSelectCategory, Formed
  <2> QED
    BY <1>0, <1>1, <2>1, SelectsCategoryIs
<1>4. CASE ClickAiDiagnose \/ ClickAiRetry \/ ClickReadDtcs \/ ClickClearDtcs
  BY <1>0, <1>1, <1>4, AsksAsShown
<1>5. ASSUME NEW g \in Categories, SubmitCategoryPrompt(g)
      PROVE  \A d \in calls' : d \in calls \/ d.at = "sent"
  <2> DEFINE w == [win EXCEPT !.category = g, !.prompt = NoPrompt]
             hasty == Unsubmitted \/ win.confirmed \/ win.branch # "module"
  <2>1. SelectsCategory(w, hasty)
    BY <1>5, Zenon DEF SubmitCategoryPrompt
  <2>2. w \in Windows
    <3>1. NoPrompt \in [kind: {"none", "category", "decision"}, id: 0..MaxClicks]
      BY Zero DEF NoPrompt
    <3> QED
      BY <1>0, <3>1 DEF Formed, Windows
  <2> HIDE DEF w, hasty
  <2> QED
    BY <1>0, <1>1, <2>1, <2>2, SelectsCategoryIs
<1>6. ASSUME NEW option \in {"override", "cancel"}, SubmitDecision(option)
      PROVE  \A d \in calls' : d \in calls \/ d.at = "sent"
  BY <1>0, <1>1, <1>6, SubmitDecisionIs
<1>7. ASSUME NEW m \in Modules, ChooseModule(m)
      PROVE  calls' = calls
  BY <1>7 DEF ChooseModule
<1>8. ASSUME NEW g \in Categories, ChooseCategory(g)
      PROVE  calls' = calls
  BY <1>8 DEF ChooseCategory
<1>9. CASE AnswerDialog
  BY <1>0, <1>9, AnswerDialogCalls
<1>10. CASE CloseDialog
  BY <1>10 DEF CloseDialog
<1>11. ASSUME \E g \in Categories : ChooseCategory(g) \/ SubmitCategoryPrompt(g)
       PROVE  \A d \in calls' : d \in calls \/ d.at = "sent" \/ d.op = "answer"
  BY <1>5, <1>8, <1>11
<1> QED
  BY <1>2, <1>3, <1>4, <1>6, <1>7, <1>9, <1>10, <1>11, Zenon DEF Technician

LEMMA Appears ==
    ASSUME WindowAssumption, State, [WindowNext]_windowVars, NEW x \in calls', x \notin calls,
           x.op \in {"ai", "read", "clear"}, x.at = "done", x.out = "ok"
    PROVE  \E c \in calls : /\ Serve(c) /\ c.op = x.op /\ c.n = x.n
                            /\ ~CallAnswered(c, "fail")
<1>0. Formed /\ Numbered
  BY DEF State
<1>1. ~Technician
  BY TechnicianCalls
<1>2. ~HandleNavigationEvent
  BY <1>0, EventCalls
<1>3. ~Poll
  <2> SUFFICES ASSUME Poll
               PROVE  FALSE
    OBVIOUS
  <2>1. Polls(win, calls) /\ calls \in SUBSET calls
    BY DEF Poll
  <2> QED
    BY <1>0, <2>1, PollsCalls
<1>4. ASSUME NEW c \in calls, Handle(c)
      PROVE  FALSE
  BY <1>0, <1>4, HandleDrops DEF Drops
<1>5. ASSUME NEW c \in calls, GiveUp(c)
      PROVE  FALSE
  BY <1>0, <1>5, GiveUpIs DEF Replaces, Undone
<1>6. ~(ReadNavigation \/ LoseNavigation \/ ReadDiagnosis \/ LoseDiagnosis
        \/ ReadSession \/ LoseSession \/ EngineEnds \/ GateExpires)
  BY DEF ReadNavigation, LoseNavigation, ReadDiagnosis, LoseDiagnosis,
         ReadSession, LoseSession, EngineEnds, GateExpires
<1>7. ASSUME NEW n \in Numbers, Drives(n)
      PROVE  FALSE
  BY <1>7 DEF Drives
<1>8. ~UNCHANGED windowVars
  BY DEF windowVars
<1>9. \E c \in calls : Serve(c)
  BY <1>1, <1>2, <1>3, <1>4, <1>5, <1>6, <1>7, <1>8
     DEF WindowNext, Streams, Losses, Server, Window
<1>10. PICK c \in calls : Serve(c)
  BY <1>9
<1>11. c.op # "status" /\ Undone(c) /\ \E D \in SUBSET Calls : Replaces(c, D)
  BY <1>0, <1>10, ServeNumbers
<1>12. c.op = x.op /\ c.n = x.n
  BY <1>11 DEF Replaces, Becomes
<1>13. ~CallAnswered(c, "fail")
  <2> SUFFICES ASSUME CallAnswered(c, "fail")
               PROVE  FALSE
    OBVIOUS
  <2>1. "fail" \in Outs
    BY DEF Outs
  <2>a. AnsweredBy(c, "fail")
    BY <1>0, <1>11, <2>1, AnsweredIs
  <2>2. PICK D \in SUBSET Calls : Replaces(c, D) /\ \A d \in D : d.at = "done" /\ d.out = "fail"
    BY <2>a, Zenon DEF AnsweredBy
  <2> QED
    BY <2>2 DEF Replaces
<1> QED
  BY <1>10, <1>12, <1>13

(* It finds GDS2 at its target.                                            *)
LEMMA ServedMeets ==
    ASSUME WindowAssumption, State, Orderly, NEW c \in calls, c.op \in {"ai", "read", "clear"},
           Serve(c), ~CallAnswered(c, "fail")
    PROVE  gds' = Target(c)
<1>0. /\ Formed /\ Offering(win) /\ c \in Calls /\ Undone(c) /\ gds \in Displays
  BY ServerOf DEF State, Formed, ShapeCalls, ShapeServer
<1>1. CASE c.op \in {"read", "clear"}
  BY <1>0, <1>1, ServesTarget DEF Refuses
<1>2. CASE c.op = "ai"
  <2>1. gds' = gds /\ gds.page = "data"
    BY <1>0, <1>2, ServerOf, ServeAiShape DEF Refuses
  <2>2. /\ c.module = win.module /\ c.category = win.category
        /\ win.branch = "module" /\ c.module = selected.module
        /\ win.confirmed /\ c.category # Nothing
    BY <1>0, <1>2 DEF Orderly, Targets, Asking
  <2>3. gds.category = c.category /\ gds.module = c.module
    BY <2>1, <2>2 DEF Orderly, Targets, Agreed, Displayed
  <2> QED
    BY <1>0, <2>1, <2>3 DEF Target, Displays
<1> QED
  BY <1>1, <1>2

LEMMA StepMeets ==
    ASSUME WindowAssumption, State, Patient, [WindowNext]_windowVars, ~hurried,
           NEW c \in calls, c.op \in {"ai", "read", "clear"}, c.at = "sent", Succeeds(c)
    PROVE  Meets(c)'
<1>0. Formed /\ Numbered /\ c \in Calls /\ Orderly
  BY DEF State, Formed, ShapeCalls, Patient
<1> DEFINE x == [c EXCEPT !.at = "done", !.out = "ok"]
<1>1. x.op = c.op /\ x.n = c.n /\ x.at = "done" /\ x.out = "ok"
  BY <1>0 DEF Calls
<1>2. x \in calls'
  BY DEF Succeeds
<1> HIDE DEF x
<1>3. x \notin calls
  BY <1>0, <1>1 DEF Numbered
<1>4. PICK d \in calls : Serve(d) /\ d.op = c.op /\ d.n = c.n /\ ~CallAnswered(d, "fail")
  BY <1>1, <1>2, <1>3, Appears
<1>5. d = c
  BY <1>0, <1>4 DEF Numbered
<1>6. gds' = Target(c)
  BY <1>0, <1>4, <1>5, ServedMeets
<1> QED
  BY <1>6 DEF Meets, Target

(* Unless the technician hurried, a diagnosis, a read or a clear that      *)
(* succeeds finds GDS2 on the module and the category its click showed     *)
(* (_on_ai_diagnose_clicked, _on_read_dtcs_clicked and                     *)
(* _on_clear_dtcs_clicked of diagnostics_window.py; read_dtcs and          *)
(* clear_dtcs of session_actions.py): however answers, events and polls    *)
(* cross.                                                                  *)
THEOREM WindowMeetsTarget == WindowSpec => ActionsMeetTarget
<1>1. WindowInit => State /\ Patient
  BY WindowAssumption, InitIs, PatientInit
<1>2. State /\ Patient /\ [WindowNext]_windowVars => (State /\ Patient)'
  BY WindowAssumption, StateStays, PatientStays
<1>3. State /\ Patient /\ [WindowNext]_windowVars =>
         (~hurried => \A c \in calls :
             c.op \in {"ai", "read", "clear"} /\ c.at = "sent" /\ Succeeds(c) => Meets(c)')
  BY WindowAssumption, StepMeets
<1> QED
  BY <1>1, <1>2, <1>3, PTL DEF WindowSpec, ActionsMeetTarget

=============================================================================
