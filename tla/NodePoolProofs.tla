--------------------------- MODULE NodePoolProofs ---------------------------
(***************************************************************************)
(* Proofs about NodePool, for any nodes, windows, assignments and threads  *)
(* and any number of calls and crashes.                                    *)
(*                                                                         *)
(* Shape says which fields of a request, call or window mean something at  *)
(* its place.  The rest, Sound, holds until an access overlaps another     *)
(* (raced).  What an action does to its thread is a lemma about the        *)
(* action.  From these follow the few ways in which a step changes who has *)
(* a node (HolderStep), the calls of requests (RequestStep), the windows,  *)
(* the calls under way, the leases and the files; every part of Sound is   *)
(* kept along each of them.                                                *)
(***************************************************************************)
EXTENDS NodePool, TLAPS

(* What the place of a request says of its fields.                         *)
Asking == {"select", "check", "take", "took", "full", "launch", "launched", "put"}
Bound == {"bind", "bound", "putback"}
Ended == {"release", "deleted", "freeing", "freed"}
Named == {"check", "take", "took", "put", "bound", "putback", "deleted", "freeing"}

Request == [at: ThreadPlaces, call: Calls \cup {NoCall}, n: Nodes \cup {None},
            nodes: Inventory \cup {<<>>}, leases: Store \cup {<<>>}]

Objects ==
    /\ node \in Inventory /\ nodeFile \in Inventory
    /\ lease \in Store /\ leaseFile \in Store
    /\ issued \subseteq Leases

FieldsFit(r) ==
    /\ r.at \in Asking => r.call.op = "bootstrap"
    /\ r.at \in Bound => r.call.op = "bind"
    /\ r.at \in Ended => r.call.op = "release"
    /\ r.at \in Bound \cup Ended \cup {"put"} => r.call.l \in Leases
    /\ r.at \in Named => r.n \in Nodes
    /\ r.at \in {"took", "launched", "bound", "freed"} => r.nodes \in Inventory
    /\ r.at = "deleted" => r.leases \in Store
    /\ r.at \in {"free", "select", "check", "take", "took"} => r.leases = <<>>

ThreadShape ==
    /\ thread \in [Threads -> Request]
    /\ \A t \in Threads : FieldsFit(thread[t])

CallShape ==
    /\ calls \subseteq Calls
    /\ \A c \in calls : c.op # "bootstrap" => c.l \in Leases

MonitorShape ==
    /\ monitor \in [at: {"rest", "probing", "writing"}, n: Nodes \cup {None},
                    nodes: Inventory \cup {<<>>}]
    /\ monitor.at = "probing" => monitor.n \in Nodes
    /\ monitor.at = "writing" => monitor.nodes \in Inventory

WindowShape ==
    /\ window \in [Windows -> [at: {"closed", "asking", "starting", "running"},
                               l: Leases \cup {None}, n: Nodes \cup {None},
                               tries: 0..RetryLimit]]
    /\ \A w \in Windows :
        /\ window[w].at \in {"starting", "running"} => window[w].l \in Leases
        /\ window[w].at \notin {"starting", "running"} => window[w].l = None
        /\ window[w].l = None => window[w].n = None

Counted == crashes \in 0..MaxCrashes /\ raced \in BOOLEAN

Shape == Objects /\ ThreadShape /\ CallShape /\ MonitorShape /\ WindowShape /\ Counted

(* The requests that have a node to themselves: between its claim and its  *)
(* lease, and between the end of its lease and its being given back.       *)
Holding(t) ==
    \/ thread[t].at = "took"
    \/ thread[t].at = "put" /\ lease[thread[t].call.l] = None
    \/ thread[t].at \in {"deleted", "freeing"}

Leased(n) == \E l \in Leases : lease[l] = n

(* A node in use has one lease or one request.                             *)
Exclusive ==
    /\ OneLeaseEach(node, lease)
    /\ \A t \in Threads : Holding(t) =>
        /\ node[thread[t].n] = "in_use"
        /\ \A l \in Leases : lease[l] # thread[t].n
        /\ \A u \in Threads \ {t} : Holding(u) => thread[u].n # thread[t].n

(* The node that is probed boots.                                          *)
Probed == monitor.at = "probing" => node[monitor.n] = "booting"

(* Whatever names a lease names one that was given out.                    *)
Given ==
    /\ \A l \in Leases : lease[l] # None \/ leaseFile[l] # None => l \in issued
    /\ \A t \in Threads : thread[t].call.l # None => thread[t].call.l \in issued
    /\ \A w \in Windows : window[w].l # None => window[w].l \in issued
    /\ \A c \in calls : c.l # None => c.l \in issued

(* A lease that is being made is known to its request only; one that is    *)
(* being bound does not change but by its end.                             *)
Fresh ==
    /\ \A t \in Threads : thread[t].at = "put" =>
        /\ lease[thread[t].call.l] \in {None, thread[t].n}
        /\ thread[t].leases # <<>> => lease[thread[t].call.l] # None
        /\ \A u \in Threads \ {t} : thread[u].call.l # thread[t].call.l
        /\ \A w \in Windows : window[w].l # thread[t].call.l
        /\ \A c \in calls : c.l # thread[t].call.l
    /\ \A t \in Threads : thread[t].at \in {"bound", "putback"} =>
        lease[thread[t].call.l] \in {None, thread[t].n}

(* The files never say that a node is free that is leased, in a file or in *)
(* memory.                                                                 *)
Filed ==
    /\ OneLeaseEach(nodeFile, leaseFile)
    /\ \A l \in Leases : leaseFile[l] # None => node[leaseFile[l]] = "in_use"
    /\ \A l \in Leases : lease[l] # None => nodeFile[lease[l]] = "in_use"
    /\ \A t \in Threads : thread[t].at = "freeing" => \A l \in Leases : leaseFile[l] # thread[t].n
    /\ \A t \in Threads : thread[t].at = "put" => nodeFile[thread[t].n] = "in_use"

(* The assignment of a window is a lease in memory and file, nobody else   *)
(* has it, and nobody is about to end it.                                  *)
Assigned ==
    \A w \in Windows : window[w].l # None =>
        /\ lease[window[w].l] = window[w].n /\ leaseFile[window[w].l] = window[w].n
        /\ window[w].n # None
        /\ \A v \in Windows \ {w} : window[v].l # window[w].l
        /\ \A c \in calls : c.op = "release" => c.l # window[w].l
        /\ \A t \in Threads : thread[t].at \in Ended => thread[t].call.l # window[w].l

(* Without a crash nothing else is in use.                                 *)
Accounted ==
    crashes = 0 => \A n \in Nodes : node[n] = "in_use" =>
        Leased(n) \/ \E t \in Threads : Holding(t) /\ thread[t].n = n

(* What holds until an access overlaps another.                            *)
Sound == Exclusive /\ Probed /\ Given /\ Fresh /\ Filed /\ Assigned /\ Accounted

-----------------------------------------------------------------------------
(* What the actions do to the requests: the others stay as they are.       *)

Others(t) == \A u \in Threads : u # t => thread'[u] = thread[u]
Becomes(t, p, c, n) ==
    /\ Others(t)
    /\ thread'[t].at = p /\ thread'[t].call = c /\ thread'[t].n = n

LEMMA Requests ==
  ASSUME Shape, NEW t \in Threads
  PROVE  /\ thread[t] \in Request /\ FieldsFit(thread[t])
         /\ Free \in Request /\ FieldsFit(Free)
         /\ None \notin Nodes /\ None \notin Leases
  BY NodePoolAssumption DEF Shape, ThreadShape, Request, Free, FieldsFit,
     NoCall, ThreadPlaces,
     Asking, Bound, Ended, Named

LEMMA Turned ==
  ASSUME ThreadShape, NEW t \in Threads, NEW r, r \in Request, FieldsFit(r),
         thread' = [thread EXCEPT ![t] = r]
  PROVE  ThreadShape' /\ Others(t) /\ thread'[t] = r
  BY DEF ThreadShape, Others

LEMMA Answering ==
  ASSUME Shape, NEW t \in Threads, Answered(t)
  PROVE  ThreadShape' /\ Becomes(t, "free", NoCall, None)
<1>1. ThreadShape' /\ Others(t) /\ thread'[t] = Free
  BY Requests, Turned DEF Answered, Shape
<1> QED  BY <1>1 DEF Becomes, Free

LEMMA Accepting ==
  ASSUME Shape, NEW t \in Threads, NEW c \in calls, Accept(t, c)
  PROVE  /\ ThreadShape' /\ thread[t].at = "free" /\ thread'[t].at \in {"select", "bind", "release"}
         /\ Becomes(t, IF c.op = "bootstrap" THEN "select" ELSE c.op, c, thread[t].n)
<1> DEFINE p == IF c.op = "bootstrap" THEN "select" ELSE c.op
           r == [thread[t] EXCEPT !.call = c, !.at = p]
<1>1. c \in Calls /\ c.op \in {"bootstrap", "bind", "release"}
  BY DEF Shape, CallShape, Calls
<1>2. /\ r \in Request /\ r.at = p /\ r.call = c /\ r.n = thread[t].n
      /\ r.leases = thread[t].leases /\ thread[t].at = "free"
  BY <1>1, Requests DEF Request, ThreadPlaces, Accept, At
<1>3. c.op # "bootstrap" => c.l \in Leases
  BY DEF Shape, CallShape
<1>4. thread' = [thread EXCEPT ![t] = r]
  BY DEF Accept, Shape, ThreadShape, At
<1> HIDE DEF r
<1>5. FieldsFit(r)
  BY <1>1, <1>2, <1>3, Requests DEF FieldsFit, Asking, Bound, Ended, Named
<1>6. ThreadShape' /\ Others(t) /\ thread'[t] = r
  BY <1>2, <1>4, <1>5, Turned DEF Shape
<1> QED  BY <1>1, <1>2, <1>6 DEF Becomes, Accept, At

LEMMA Selecting ==
  ASSUME Shape, NEW t \in Threads, NEW n \in Nodes,
         At(t, "select"), GoWith(t, "check", n)
  PROVE  /\ ThreadShape' /\ thread[t].at = "select"
         /\ Becomes(t, "check", thread[t].call, n)
         /\ thread'[t].leases = thread[t].leases
<1> DEFINE r == [thread[t] EXCEPT !.at = "check", !.n = n]
<1>1. thread[t].at = "select"
  BY Requests DEF At
<1>2. thread' = [thread EXCEPT ![t] = r]
  BY DEF GoWith, GoTo, GoWith, HoldsNodes, HoldsLeases, Puts, Shape,
     ThreadShape, Request
<1>3. /\ r \in Request /\ r.at = "check" /\ r.call = thread[t].call /\ r.n = n
      /\ r.leases = thread[t].leases
  BY <1>1, Requests DEF Request, ThreadPlaces, Calls
<1> HIDE DEF r
<1>4. FieldsFit(r)
  BY <1>1, <1>3, Requests DEF FieldsFit, Asking, Bound, Ended, Named
<1>5. ThreadShape' /\ Others(t) /\ thread'[t] = r
  BY <1>2, <1>3, <1>4, Turned DEF Shape
<1> QED  BY <1>1, <1>3, <1>5 DEF Becomes

LEMMA Going ==
  ASSUME Shape, NEW t \in Threads, NEW p, GoTo(t, p),
         \/ thread[t].at \in {"select", "check"} /\ p = "full"
         \/ thread[t].at = "check" /\ p = "take"
         \/ thread[t].at = "full" /\ p = "launch"
  PROVE  ThreadShape' /\ Becomes(t, p, thread[t].call, thread[t].n)
<1> DEFINE r == [thread[t] EXCEPT !.at = p]
<1>1. /\ r \in Request /\ r.at = p /\ r.call = thread[t].call /\ r.n = thread[t].n
      /\ r.leases = thread[t].leases
  BY Requests DEF Request, ThreadPlaces
<1>2. thread' = [thread EXCEPT ![t] = r]
  BY DEF GoTo, Shape, ThreadShape, Request
<1> HIDE DEF r
<1>3. FieldsFit(r)
  BY <1>1, Requests DEF FieldsFit, Asking, Bound, Ended, Named
<1>4. ThreadShape' /\ Others(t) /\ thread'[t] = r
  BY <1>1, <1>2, <1>3, Turned DEF Shape
<1> QED  BY <1>1, <1>4 DEF Becomes

LEMMA Taking ==
  ASSUME Shape, NEW t \in Threads, Takes(t)
  PROVE  /\ ThreadShape' /\ thread[t].at = "take"
         /\ Becomes(t, "took", thread[t].call, thread[t].n)
         /\ thread'[t].nodes = node' /\ thread'[t].leases = thread[t].leases
<1> DEFINE r == [thread[t] EXCEPT !.at = "took", !.n = thread[t].n, !.nodes = node']
<1>1. /\ thread[t].at = "take" /\ thread[t].n \in Nodes
      /\ thread[t].call.op = "bootstrap" /\ node' \in Inventory
  BY Requests DEF Takes, At, Shape, Objects, Inventory, States, Store,
     FieldsFit, Named, Asking
<1>2. thread' = [thread EXCEPT ![t] = r]
  BY DEF Takes, GoTo, GoWith, HoldsNodes, HoldsLeases, Puts, Shape, ThreadShape, Request
<1>3. /\ r \in Request /\ r.at = "took" /\ r.call = thread[t].call
      /\ r.n = thread[t].n /\ r.nodes = node' /\ r.leases = thread[t].leases
  BY <1>1, Requests DEF Request, ThreadPlaces, Calls
<1> HIDE DEF r
<1>4. FieldsFit(r)
  BY <1>1, <1>3, Requests DEF FieldsFit, Asking, Bound, Ended, Named
<1>5. ThreadShape' /\ Others(t) /\ thread'[t] = r
  BY <1>2, <1>3, <1>4, Turned DEF Shape
<1> QED  BY <1>1, <1>3, <1>5 DEF Becomes

LEMMA WritingClaim ==
  ASSUME Shape, NEW t \in Threads, NEW l \in Leases, At(t, "took"),
         thread' = [thread EXCEPT ![t].at = "put", ![t].nodes = <<>>, ![t].call.l = l]
  PROVE  /\ ThreadShape' /\ thread[t].at = "took"
         /\ Becomes(t, "put", [thread[t].call EXCEPT !.l = l], thread[t].n)
         /\ thread'[t].leases = thread[t].leases
<1> DEFINE r == [thread[t] EXCEPT !.at = "put", !.nodes = <<>>, !.call = [thread[t].call EXCEPT !.l = l]]
<1>1. /\ thread[t].at = "took" /\ thread[t].call \in Calls /\ thread[t].n \in Nodes
      /\ thread[t].call.op = "bootstrap"
  BY Requests DEF At, FieldsFit, Named, Asking, Request, NoCall
<1>2. thread' = [thread EXCEPT ![t] = r]
  BY DEF Shape, ThreadShape, Request
<1>3. /\ r \in Request /\ r.at = "put" /\ r.call = [thread[t].call EXCEPT !.l = l]
      /\ r.n = thread[t].n /\ r.leases = thread[t].leases
  <2> DEFINE c == [thread[t].call EXCEPT !.l = l]
  <2>1. c \in Calls
    BY <1>1 DEF Calls
  <2>2. thread[t] \in Request
    BY Requests
  <2> HIDE DEF c
  <2>3. [thread[t] EXCEPT !.at = "put", !.nodes = <<>>, !.call = c] \in Request
    BY <2>1, <2>2 DEF Request, ThreadPlaces
  <2> QED  BY <2>2, <2>3 DEF Request, c
<1> HIDE DEF r
<1>4. FieldsFit(r)
  BY <1>1, <1>3, Requests DEF FieldsFit, Asking, Bound, Ended, Named, Calls
<1>5. ThreadShape' /\ Others(t) /\ thread'[t] = r
  BY <1>2, <1>3, <1>4, Turned DEF Shape
<1> QED  BY <1>1, <1>3, <1>5 DEF Becomes

LEMMA Putting ==
  ASSUME Shape, NEW t \in Threads, PutsLease(t)
  PROVE  /\ ThreadShape' /\ thread[t].at = "put"
         /\ Becomes(t, "put", thread[t].call, thread[t].n)
         /\ thread'[t].leases = lease'
<1> DEFINE r == [thread[t] EXCEPT !.at = "put", !.leases = lease']
<1>1. /\ thread[t].at = "put" /\ thread[t].call.op = "bootstrap"
      /\ thread[t].call.l \in Leases /\ thread[t].n \in Nodes /\ lease' \in Store
  BY Requests DEF PutsLease, At, Shape, Objects, Inventory, States, Store, Puts,
     FieldsFit, Named, Asking
<1>2. thread' = [thread EXCEPT ![t] = r]
  BY DEF PutsLease, GoTo, GoWith, HoldsNodes, HoldsLeases, Puts, Shape,
     ThreadShape, Request
<1>3. /\ r \in Request /\ r.at = "put" /\ r.call = thread[t].call
      /\ r.n = thread[t].n /\ r.leases = lease'
  BY <1>1, Requests DEF Request, ThreadPlaces, Calls
<1> HIDE DEF r
<1>4. FieldsFit(r)
  BY <1>1, <1>3, Requests DEF FieldsFit, Asking, Bound, Ended, Named
<1>5. ThreadShape' /\ Others(t) /\ thread'[t] = r
  BY <1>2, <1>3, <1>4, Turned DEF Shape
<1> QED  BY <1>1, <1>3, <1>5 DEF Becomes

LEMMA Launching ==
  ASSUME Shape, NEW t \in Threads, NEW n \in Nodes, At(t, "launch"),
         node' \in Inventory, HoldsNodes(t, "launched", n)
  PROVE  /\ ThreadShape' /\ thread[t].at = "launch"
         /\ Becomes(t, "launched", thread[t].call, n)
         /\ thread'[t].nodes = node'
<1> DEFINE r == [thread[t] EXCEPT !.at = "launched", !.n = n, !.nodes = node']
<1>1. thread[t].at = "launch" /\ node' \in Inventory
  BY Requests DEF At
<1>2. thread' = [thread EXCEPT ![t] = r]
  BY DEF HoldsNodes, GoTo, GoWith, HoldsNodes, HoldsLeases, Puts, Shape,
     ThreadShape, Request
<1>3. /\ r \in Request /\ r.at = "launched" /\ r.call = thread[t].call /\ r.n = n
      /\ r.nodes = node'
  BY <1>1, Requests DEF Request, ThreadPlaces, Calls
<1> HIDE DEF r
<1>4. FieldsFit(r)
  BY <1>1, <1>3, Requests DEF FieldsFit, Asking, Bound, Ended, Named
<1>5. ThreadShape' /\ Others(t) /\ thread'[t] = r
  BY <1>2, <1>3, <1>4, Turned DEF Shape
<1> QED  BY <1>1, <1>3, <1>5 DEF Becomes

LEMMA Reading ==
  ASSUME Shape, NEW t \in Threads, lease[thread[t].call.l] # None, ReadsLease(t)
  PROVE  /\ ThreadShape' /\ thread[t].at = "bind"
         /\ Becomes(t, "bound", thread[t].call, lease[thread[t].call.l])
         /\ thread'[t].nodes = node
<1> DEFINE r == [thread[t] EXCEPT !.at = "bound", !.n = lease[thread[t].call.l], !.nodes = node]
<1>1. /\ thread[t].at = "bind" /\ thread[t].call.op = "bind"
      /\ thread[t].call.l \in Leases /\ lease[thread[t].call.l] \in Nodes
      /\ node \in Inventory
  BY Requests DEF ReadsLease, At, Shape, Objects, Inventory, States, Store,
     FieldsFit, Bound
<1>2. thread' = [thread EXCEPT ![t] = r]
  BY DEF ReadsLease, GoTo, GoWith, HoldsNodes, HoldsLeases, Puts, Shape,
     ThreadShape, Request
<1>3. /\ r \in Request /\ r.at = "bound" /\ r.call = thread[t].call
      /\ r.n = lease[thread[t].call.l] /\ r.nodes = node
  BY <1>1, Requests DEF Request, ThreadPlaces, Calls
<1> HIDE DEF r
<1>4. FieldsFit(r)
  BY <1>1, <1>3, Requests DEF FieldsFit, Asking, Bound, Ended, Named
<1>5. ThreadShape' /\ Others(t) /\ thread'[t] = r
  BY <1>2, <1>3, <1>4, Turned DEF Shape
<1> QED  BY <1>1, <1>3, <1>5 DEF Becomes

LEMMA WritingBinding ==
  ASSUME Shape, NEW t \in Threads, WritesBinding(t)
  PROVE  /\ ThreadShape' /\ thread[t].at = "bound"
         /\ Becomes(t, "putback", thread[t].call, thread[t].n)
<1> DEFINE r == [thread[t] EXCEPT !.at = "putback", !.nodes = <<>>]
<1>1. /\ thread[t].at = "bound" /\ thread[t].n \in Nodes
      /\ thread[t].call.op = "bind" /\ thread[t].call.l \in Leases
  BY Requests DEF WritesBinding, At, FieldsFit, Bound, Named
<1>2. thread' = [thread EXCEPT ![t] = r]
  BY DEF WritesBinding, GoTo, GoWith, HoldsNodes, HoldsLeases, Puts, Shape,
     ThreadShape, Request
<1>3. r \in Request /\ r.at = "putback" /\ r.call = thread[t].call /\ r.n = thread[t].n
  BY <1>1, Requests DEF Request, ThreadPlaces, Calls
<1> HIDE DEF r
<1>4. FieldsFit(r)
  BY <1>1, <1>3, Requests DEF FieldsFit, Asking, Bound, Ended, Named
<1>5. ThreadShape' /\ Others(t) /\ thread'[t] = r
  BY <1>2, <1>3, <1>4, Turned DEF Shape
<1> QED  BY <1>1, <1>3, <1>5 DEF Becomes

LEMMA PuttingBack ==
  ASSUME Shape, NEW t \in Threads, PutsLeaseBack(t)
  PROVE  /\ ThreadShape' /\ thread[t].at = "putback"
         /\ Becomes(t, "putback", thread[t].call, thread[t].n)
         /\ thread'[t].leases = lease'
<1> DEFINE r == [thread[t] EXCEPT !.at = "putback", !.leases = lease']
<1>1. /\ thread[t].at = "putback" /\ thread[t].n \in Nodes
      /\ thread[t].call.op = "bind" /\ thread[t].call.l \in Leases
      /\ lease' \in Store
  BY Requests DEF PutsLeaseBack, At, Shape, Objects, Inventory, States, Store,
     Puts, FieldsFit, Bound, Named
<1>2. thread' = [thread EXCEPT ![t] = r]
  BY DEF PutsLeaseBack, GoTo, GoWith, HoldsNodes, HoldsLeases, Puts, Shape,
     ThreadShape, Request
<1>3. /\ r \in Request /\ r.at = "putback" /\ r.call = thread[t].call
      /\ r.n = thread[t].n /\ r.leases = lease'
  BY <1>1, Requests DEF Request, ThreadPlaces, Calls
<1> HIDE DEF r
<1>4. FieldsFit(r)
  BY <1>1, <1>3, Requests DEF FieldsFit, Asking, Bound, Ended, Named
<1>5. ThreadShape' /\ Others(t) /\ thread'[t] = r
  BY <1>2, <1>3, <1>4, Turned DEF Shape
<1> QED  BY <1>1, <1>3, <1>5 DEF Becomes

LEMMA Deleting ==
  ASSUME Shape, NEW t \in Threads, lease[thread[t].call.l] # None, DeletesLease(t)
  PROVE  /\ ThreadShape' /\ thread[t].at = "release"
         /\ Becomes(t, "deleted", thread[t].call, lease[thread[t].call.l])
         /\ thread'[t].leases = lease'
<1> DEFINE r == [thread[t] EXCEPT !.at = "deleted", !.n = lease[thread[t].call.l], !.leases = lease']
<1>1. /\ thread[t].at = "release" /\ thread[t].call.op = "release"
      /\ thread[t].call.l \in Leases /\ lease[thread[t].call.l] \in Nodes
      /\ lease' \in Store
  BY Requests DEF DeletesLease, At, Shape, Objects, Inventory, States, Store,
     FieldsFit, Ended
<1>2. thread' = [thread EXCEPT ![t] = r]
  BY DEF DeletesLease, GoTo, GoWith, HoldsNodes, HoldsLeases, Puts, Shape,
     ThreadShape, Request
<1>3. /\ r \in Request /\ r.at = "deleted" /\ r.call = thread[t].call
      /\ r.n = lease[thread[t].call.l] /\ r.leases = lease'
  BY <1>1, Requests DEF Request, ThreadPlaces, Calls
<1> HIDE DEF r
<1>4. FieldsFit(r)
  BY <1>1, <1>3, Requests DEF FieldsFit, Asking, Bound, Ended, Named
<1>5. ThreadShape' /\ Others(t) /\ thread'[t] = r
  BY <1>2, <1>3, <1>4, Turned DEF Shape
<1> QED  BY <1>1, <1>3, <1>5 DEF Becomes

LEMMA WritingDeletion ==
  ASSUME Shape, NEW t \in Threads, WritesDeletion(t)
  PROVE  /\ ThreadShape' /\ thread[t].at = "deleted"
         /\ Becomes(t, "freeing", thread[t].call, thread[t].n)
<1> DEFINE r == [thread[t] EXCEPT !.at = "freeing", !.leases = <<>>]
<1>1. /\ thread[t].at = "deleted" /\ thread[t].n \in Nodes
      /\ thread[t].call.op = "release" /\ thread[t].call.l \in Leases
  BY Requests DEF WritesDeletion, At, FieldsFit, Ended, Named
<1>2. thread' = [thread EXCEPT ![t] = r]
  BY DEF WritesDeletion, GoTo, GoWith, HoldsNodes, HoldsLeases, Puts, Shape,
     ThreadShape, Request
<1>3. r \in Request /\ r.at = "freeing" /\ r.call = thread[t].call /\ r.n = thread[t].n
  BY <1>1, Requests DEF Request, ThreadPlaces, Calls
<1> HIDE DEF r
<1>4. FieldsFit(r)
  BY <1>1, <1>3, Requests DEF FieldsFit, Asking, Bound, Ended, Named
<1>5. ThreadShape' /\ Others(t) /\ thread'[t] = r
  BY <1>2, <1>3, <1>4, Turned DEF Shape
<1> QED  BY <1>1, <1>3, <1>5 DEF Becomes

LEMMA Freeing ==
  ASSUME Shape, NEW t \in Threads, FreesNode(t)
  PROVE  /\ ThreadShape' /\ thread[t].at = "freeing"
         /\ Becomes(t, "freed", thread[t].call, thread[t].n)
         /\ thread'[t].nodes = node'
<1> DEFINE r == [thread[t] EXCEPT !.at = "freed", !.n = thread[t].n, !.nodes = node']
<1>1. /\ thread[t].at = "freeing" /\ thread[t].n \in Nodes
      /\ thread[t].call.op = "release" /\ thread[t].call.l \in Leases
      /\ thread[t].call.to \in States /\ node' \in Inventory
  BY Requests DEF FreesNode, At, Shape, Objects, Inventory, States, Store,
     FieldsFit, Ended, Named, Request, Calls, NoCall
<1>2. thread' = [thread EXCEPT ![t] = r]
  BY DEF FreesNode, GoTo, GoWith, HoldsNodes, HoldsLeases, Puts, Shape,
     ThreadShape, Request
<1>3. /\ r \in Request /\ r.at = "freed" /\ r.call = thread[t].call
      /\ r.n = thread[t].n /\ r.nodes = node'
  BY <1>1, Requests DEF Request, ThreadPlaces, Calls
<1> HIDE DEF r
<1>4. FieldsFit(r)
  BY <1>1, <1>3, Requests DEF FieldsFit, Asking, Bound, Ended, Named
<1>5. ThreadShape' /\ Others(t) /\ thread'[t] = r
  BY <1>2, <1>3, <1>4, Turned DEF Shape
<1> QED  BY <1>1, <1>3, <1>5 DEF Becomes

LEMMA Closing ==
  /\ Closed.at = "closed" /\ Closed.l = None /\ Closed.n = None
  /\ Closed \in [at: {"closed", "asking", "starting", "running"}, l: Leases \cup {None},
                 n: Nodes \cup {None}, tries: 0..RetryLimit]
  BY NodePoolAssumption DEF Closed

LEMMA Calling ==
  ASSUME NEW w \in Windows
  PROVE  /\ Bootstrap(w) \in Calls /\ Bootstrap(w).op = "bootstrap" /\ Bootstrap(w).l = None
         /\ \A l \in Leases : Bind(w, l) \in Calls /\ Bind(w, l).op = "bind" /\ Bind(w, l).l = l
         /\ \A l \in Leases, to \in {"idle", "booting"} :
              /\ Release(w, l, to) \in Calls
              /\ Release(w, l, to).op = "release" /\ Release(w, l, to).l = l
  BY DEF Calls, Bootstrap, Bind, Release

(* The window hears its assignment when it still asks.                     *)
LEMMA Assigning ==
  ASSUME Shape, NEW t \in Threads, AnswersAssignment(t)
  PROVE  LET w == thread[t].call.w IN
         /\ thread[t].at = "put" /\ w \in Windows
         /\ thread[t].call.l \in Leases /\ thread[t].n \in Nodes
         /\ ThreadShape' /\ Becomes(t, "free", NoCall, None)
         /\ window[w].at # "asking" => window' = window
         /\ window[w].at = "asking" =>
              /\ WindowShape'
              /\ window'[w].l = thread[t].call.l /\ window'[w].n = thread[t].n
              /\ \A v \in Windows : v # w => window'[v] = window[v]
<1> DEFINE w == thread[t].call.w
           r == [window[w] EXCEPT !.at = "starting", !.l = thread[t].call.l, !.n = thread[t].n]
<1>1. thread[t].at = "put" /\ thread[t].call.l \in Leases /\ thread[t].n \in Nodes
  BY Requests DEF AnswersAssignment, At, FieldsFit, Named
<1>2. w \in Windows
  BY <1>1, Requests DEF FieldsFit, Asking, Request, Calls, NoCall
<1>3. ThreadShape' /\ Becomes(t, "free", NoCall, None)
  BY Answering DEF AnswersAssignment
<1>4. window[w].at # "asking" => window' = window
  BY DEF AnswersAssignment
<1>5. CASE window[w].at = "asking"
  <2>1. window' = [window EXCEPT ![w] = r]
    BY <1>2, <1>5 DEF AnswersAssignment, Shape, WindowShape
  <2>2. /\ r \in [at: {"closed", "asking", "starting", "running"}, l: Leases \cup {None},
                 n: Nodes \cup {None}, tries: 0..RetryLimit]
        /\ r.at = "starting" /\ r.l = thread[t].call.l /\ r.n = thread[t].n
    <3>1. window[w] \in [at: {"closed", "asking", "starting", "running"}, l: Leases \cup {None},
                         n: Nodes \cup {None}, tries: 0..RetryLimit]
      BY <1>2 DEF Shape, WindowShape
    <3> HIDE DEF w
    <3> QED  BY <1>1, <3>1
  <2> HIDE DEF r
  <2>3. WindowShape'
    BY <1>1, <1>2, <2>1, <2>2, Requests DEF Shape, WindowShape
  <2> QED
    BY <1>1, <1>2, <1>3, <1>5, <2>1, <2>2, <2>3 DEF Shape, WindowShape
<1> QED  BY <1>1, <1>2, <1>3, <1>4, <1>5

-----------------------------------------------------------------------------
(* Every step keeps the shape of requests, calls and windows.              *)
LEMMA ShapeStep ==
  ASSUME Shape, [Next]_vars
  PROVE  Shape'
<1>1. ASSUME NEW t \in Threads, Selects(t)  PROVE Shape'
  <2>1. ThreadShape'
    <3>1. CASE Idle = {}
      BY <1>1, <3>1, Going DEF Selects, At
    <3>2. ASSUME NEW n \in Best(thread[t].call.w), GoWith(t, "check", n)
          PROVE  ThreadShape'
      BY <1>1, <3>2, Selecting DEF Selects, Best, Idle
    <3> QED
      BY <1>1, <3>1, <3>2 DEF Selects
  <2> QED
    BY <1>1, <2>1 DEF Selects, server, Shape, Objects, CallShape, MonitorShape,
       WindowShape, Counted
<1>2. ASSUME NEW t \in Threads, ChecksClaim(t)  PROVE Shape'
  <2>1. ThreadShape'
    BY <1>2, Going DEF ChecksClaim, At
  <2> QED
    BY <1>2, <2>1 DEF ChecksClaim, server, Shape, Objects, CallShape,
       MonitorShape, WindowShape, Counted
<1>3. ASSUME NEW t \in Threads, Takes(t)  PROVE Shape'
  <2>1. ThreadShape'
    BY <1>3, Taking
  <2>2. node' \in Inventory /\ raced' \in BOOLEAN
    BY <1>3, Requests DEF Takes, Shape, Objects, Counted, Inventory, States
  <2> QED
    BY <1>3, <2>1, <2>2 DEF Takes, Shape, Objects, CallShape, MonitorShape,
       WindowShape, Counted
<1>4. ASSUME NEW t \in Threads, WritesClaim(t)  PROVE Shape'
  <2>1. ThreadShape' /\ issued' \subseteq Leases
    BY <1>4, WritingClaim DEF WritesClaim, Shape, Objects
  <2>2. nodeFile' \in Inventory /\ raced' \in BOOLEAN
    BY <1>4, Requests DEF WritesClaim, WriteNodes, At, FieldsFit, Shape, Counted
  <2> QED
    BY <1>4, <2>1, <2>2 DEF WritesClaim, Shape, Objects, CallShape, MonitorShape,
       WindowShape, Counted
<1>5. ASSUME NEW t \in Threads, PutsLease(t)  PROVE Shape'
  <2>1. ThreadShape'
    BY <1>5, Putting
  <2>2. lease' \in Store
    BY <1>5, Requests DEF PutsLease, Puts, At, FieldsFit, Bound, Named, Shape,
       Objects, Store
  <2> QED
    BY <1>5, <2>1, <2>2 DEF PutsLease, Shape, Objects, CallShape, MonitorShape,
       WindowShape, Counted
<1>6. ASSUME NEW t \in Threads, AnswersAssignment(t)  PROVE Shape'
  <2>1. ThreadShape'
    BY <1>6, Answering DEF AnswersAssignment
  <2>2. leaseFile' \in Store /\ raced' \in BOOLEAN
    BY <1>6, Requests DEF AnswersAssignment, WriteLeases, Request, Shape, Counted
  <2>3. WindowShape'
    BY <1>6, Assigning, Requests DEF AnswersAssignment, At, Shape, WindowShape
  <2> QED
    BY <1>6, <2>1, <2>2, <2>3 DEF AnswersAssignment, Shape, Objects, CallShape,
       MonitorShape, WindowShape, Counted
<1>7. ASSUME NEW t \in Threads, NoCapacity(t)  PROVE Shape'
  <2>1. ThreadShape'
    BY <1>7, Answering, Going DEF NoCapacity, Refuse, At
  <2>2. WindowShape'
    BY <1>7, Closing DEF NoCapacity, Refuse, Shape, WindowShape
  <2> QED
    BY <1>7, <2>1, <2>2 DEF NoCapacity, server, Shape, Objects, CallShape,
       MonitorShape, WindowShape, Counted
<1>8. ASSUME NEW t \in Threads, Launches(t)  PROVE Shape'
  <2>1. node' \in Inventory
    BY <1>8 DEF Launches, Shape, Objects, Inventory, States
  <2>2. ThreadShape'
    BY <1>8, <2>1, Launching DEF Launches
  <2> QED
    BY <1>8, <2>1, <2>2 DEF Launches, Shape, Objects, CallShape, MonitorShape,
       WindowShape, Counted
<1>9. ASSUME NEW t \in Threads, WritesLaunch(t)  PROVE Shape'
  <2>1. ThreadShape'
    BY <1>9, Answering DEF WritesLaunch, Refuse
  <2>2. nodeFile' \in Inventory /\ raced' \in BOOLEAN
    BY <1>9, Requests DEF WritesLaunch, WriteNodes, At, FieldsFit, Shape, Counted
  <2>3. WindowShape'
    BY <1>9, Closing DEF WritesLaunch, Refuse, Shape, WindowShape
  <2> QED
    BY <1>9, <2>1, <2>2, <2>3 DEF WritesLaunch, Shape, Objects, CallShape,
       MonitorShape, WindowShape, Counted
<1>10. ASSUME NEW t \in Threads, ReadsLease(t)  PROVE Shape'
  <2>1. ThreadShape'
    BY <1>10, Answering, Reading DEF ReadsLease
  <2> QED
    BY <1>10, <2>1 DEF ReadsLease, server, Shape, Objects, CallShape,
       MonitorShape, WindowShape, Counted
<1>11. ASSUME NEW t \in Threads, WritesBinding(t)  PROVE Shape'
  <2>1. ThreadShape'
    BY <1>11, WritingBinding
  <2>2. nodeFile' \in Inventory /\ raced' \in BOOLEAN
    BY <1>11, Requests DEF WritesBinding, WriteNodes, At, FieldsFit, Shape,
       Counted
  <2> QED
    BY <1>11, <2>1, <2>2 DEF WritesBinding, Shape, Objects, CallShape,
       MonitorShape, WindowShape, Counted
<1>12. ASSUME NEW t \in Threads, PutsLeaseBack(t)  PROVE Shape'
  <2>1. ThreadShape'
    BY <1>12, PuttingBack
  <2>2. lease' \in Store /\ raced' \in BOOLEAN
    BY <1>12, Requests DEF PutsLeaseBack, Puts, At, FieldsFit, Bound, Named,
       Shape, Objects, Counted, Store
  <2> QED
    BY <1>12, <2>1, <2>2 DEF PutsLeaseBack, Shape, Objects, CallShape,
       MonitorShape, WindowShape, Counted
<1>13. ASSUME NEW t \in Threads, AnswersBinding(t)  PROVE Shape'
  <2>1. ThreadShape'
    BY <1>13, Answering DEF AnswersBinding
  <2>2. leaseFile' \in Store /\ raced' \in BOOLEAN
    BY <1>13, Requests DEF AnswersBinding, WriteLeases, Request, Shape, Counted
  <2> QED
    BY <1>13, <2>1, <2>2 DEF AnswersBinding, Shape, Objects, CallShape,
       MonitorShape, WindowShape, Counted
<1>14. ASSUME NEW t \in Threads, DeletesLease(t)  PROVE Shape'
  <2>1. ThreadShape'
    BY <1>14, Answering, Deleting DEF DeletesLease
  <2>2. lease' \in Store
    BY <1>14, Requests DEF DeletesLease, Shape, Objects, Store
  <2> QED
    BY <1>14, <2>1, <2>2 DEF DeletesLease, Shape, Objects, CallShape,
       MonitorShape, WindowShape, Counted
<1>15. ASSUME NEW t \in Threads, WritesDeletion(t)  PROVE Shape'
  <2>1. ThreadShape'
    BY <1>15, WritingDeletion
  <2>2. leaseFile' \in Store /\ raced' \in BOOLEAN
    BY <1>15, Requests DEF WritesDeletion, WriteLeases, At, FieldsFit, Shape,
       Counted
  <2> QED
    BY <1>15, <2>1, <2>2 DEF WritesDeletion, Shape, Objects, CallShape,
       MonitorShape, WindowShape, Counted
<1>16. ASSUME NEW t \in Threads, FreesNode(t)  PROVE Shape'
  <2>1. ThreadShape'
    BY <1>16, Freeing
  <2>2. node' \in Inventory
    BY <1>16, Requests DEF FreesNode, At, FieldsFit, Ended, Named, Request, Calls,
       NoCall, Shape, Objects, Inventory, States
  <2> QED
    BY <1>16, <2>1, <2>2 DEF FreesNode, Shape, Objects, CallShape, MonitorShape,
       WindowShape, Counted
<1>17. ASSUME NEW t \in Threads, AnswersRelease(t)  PROVE Shape'
  <2>1. ThreadShape'
    BY <1>17, Answering DEF AnswersRelease
  <2>2. nodeFile' \in Inventory /\ raced' \in BOOLEAN
    BY <1>17, Requests DEF AnswersRelease, WriteNodes, At, FieldsFit, Shape,
       Counted
  <2> QED
    BY <1>17, <2>1, <2>2 DEF AnswersRelease, Shape, Objects, CallShape,
       MonitorShape, WindowShape, Counted
<1>18. ASSUME NEW t \in Threads, NEW c \in calls, Accept(t, c)  PROVE Shape'
  <2>1. ThreadShape'
    BY <1>18, Accepting
  <2>2. CallShape'
    BY <1>18 DEF Accept, Shape, CallShape
  <2> QED
    BY <1>18, <2>1, <2>2 DEF Accept, server, Shape, Objects, MonitorShape,
       WindowShape, Counted
<1>19. ASSUME NEW n \in Nodes, Probes(n)  PROVE Shape'
  <2>1. MonitorShape'
    BY <1>19 DEF Probes, Shape, MonitorShape
  <2> QED
    BY <1>19, <2>1 DEF Probes, server, Shape, Objects, ThreadShape, CallShape,
       WindowShape, Counted
<1>20. CASE IsNotReady
  <2>1. MonitorShape'
    BY <1>20 DEF IsNotReady, Resting, MonitorShape
  <2> QED
    BY <1>20, <2>1 DEF IsNotReady, server, Shape, Objects, ThreadShape, CallShape,
       WindowShape, Counted
<1>21. CASE MarksReady
  <2>1. node' \in Inventory
    BY <1>21 DEF MarksReady, Shape, Objects, MonitorShape, Inventory, States
  <2>2. MonitorShape'
    BY <1>21, <2>1 DEF MarksReady, Shape, MonitorShape
  <2> QED
    BY <1>21, <2>1, <2>2 DEF MarksReady, Shape, Objects, ThreadShape, CallShape,
       WindowShape, Counted
<1>22. CASE WritesReady
  <2>1. nodeFile' \in Inventory /\ raced' \in BOOLEAN
    BY <1>22 DEF WritesReady, WriteNodes, Shape, MonitorShape, Counted
  <2>2. MonitorShape'
    BY <1>22 DEF WritesReady, Resting, MonitorShape
  <2> QED
    BY <1>22, <2>1, <2>2 DEF WritesReady, Shape, Objects, ThreadShape, CallShape,
       WindowShape, Counted
<1>23. ASSUME NEW w \in Windows, AsksForNode(w)  PROVE Shape'
  <2>1. CallShape'
    BY <1>23, Calling DEF AsksForNode, Shape, WindowShape, CallShape
  <2>2. WindowShape'
    BY <1>23 DEF AsksForNode, Shape, WindowShape
  <2> QED
    BY <1>23, <2>1, <2>2 DEF AsksForNode, server, Shape, Objects, ThreadShape,
       MonitorShape, Counted
<1>24. ASSUME NEW w \in Windows, HearsNothing(w)  PROVE Shape'
  <2>1. WindowShape'
    BY <1>24, Closing DEF HearsNothing, Shape, WindowShape
  <2> QED
    BY <1>24, <2>1 DEF HearsNothing, server, Shape, Objects, ThreadShape,
       MonitorShape, Counted, CallShape
<1>25. ASSUME NEW w \in Windows, StartsSession(w)  PROVE Shape'
  <2>1. CallShape'
    BY <1>25, Calling DEF StartsSession, Shape, WindowShape, CallShape
  <2>2. WindowShape'
    BY <1>25 DEF StartsSession, Shape, WindowShape
  <2> QED
    BY <1>25, <2>1, <2>2 DEF StartsSession, server, Shape, Objects, ThreadShape,
       MonitorShape, Counted
<1>26. ASSUME NEW w \in Windows, RetriesBootstrap(w)  PROVE Shape'
  <2>1. CallShape'
    BY <1>26, Calling DEF RetriesBootstrap, Shape, WindowShape, CallShape
  <2>2. WindowShape'
    <3>1. window[w].tries + 1 \in 0..RetryLimit
      BY <1>26, NodePoolAssumption DEF RetriesBootstrap, Shape, WindowShape
    <3> QED
      BY <1>26, <3>1 DEF RetriesBootstrap, Shape, WindowShape
  <2> QED
    BY <1>26, <2>1, <2>2 DEF RetriesBootstrap, server, Shape, Objects,
       ThreadShape, MonitorShape, Counted
<1>27. ASSUME NEW w \in Windows, ReleasesNode(w)  PROVE Shape'
  <2>1. CallShape'
    BY <1>27, Calling DEF ReleasesNode, Shape, WindowShape, CallShape
  <2>2. WindowShape'
    BY <1>27, Closing DEF ReleasesNode, Shape, WindowShape
  <2> QED
    BY <1>27, <2>1, <2>2 DEF ReleasesNode, server, Shape, Objects, ThreadShape,
       MonitorShape, Counted
<1>28. ASSUME NEW c \in calls, IsLost(c)  PROVE Shape'
  <2>1. CallShape'
    BY <1>28 DEF IsLost, Shape, CallShape
  <2> QED
    BY <1>28, <2>1 DEF IsLost, server, Shape, Objects, ThreadShape, MonitorShape,
       Counted, WindowShape
<1>29. CASE Crash
  <2>1. ThreadShape'
    BY <1>29, Requests DEF Crash, ThreadShape
  <2>2. MonitorShape'
    BY <1>29 DEF Crash, Resting, MonitorShape
  <2>3. crashes' \in 0..MaxCrashes
    BY <1>29, NodePoolAssumption DEF Crash, Shape, Counted
  <2> QED
    BY <1>29, <2>1, <2>2, <2>3 DEF Crash, Shape, Objects, CallShape, WindowShape,
       Counted
<1>30. CASE UNCHANGED vars
  BY <1>30 DEF vars, server, Shape, Objects, ThreadShape, CallShape, MonitorShape,
     WindowShape, Counted
<1> QED
  BY <1>1, <1>2, <1>3, <1>4, <1>5, <1>6, <1>7, <1>8, <1>9, <1>10, <1>11,
     <1>12, <1>13, <1>14, <1>15, <1>16, <1>17, <1>18, <1>19, <1>20, <1>21,
     <1>22, <1>23, <1>24, <1>25, <1>26, <1>27, <1>28, <1>29, <1>30 DEF Next,
     ThreadStep

-----------------------------------------------------------------------------
(* Once an access has overlapped another, it has for good.                 *)
LEMMA RacedStays ==
  ASSUME [Next]_vars, ~raced'
  PROVE  ~raced
<1>1. ASSUME NEW t \in Threads,
             \/ Selects(t) \/ ChecksClaim(t) \/ Takes(t) \/ WritesClaim(t) \/ PutsLease(t)
             \/ AnswersAssignment(t) \/ NoCapacity(t) \/ Launches(t) \/ WritesLaunch(t)
      PROVE  ~raced
  BY <1>1 DEF Selects, ChecksClaim, Takes, WritesClaim, PutsLease, AnswersAssignment,
     NoCapacity, Launches, WritesLaunch, WriteNodes, WriteLeases, vars
<1>2. ASSUME NEW t \in Threads,
             \/ ReadsLease(t) \/ WritesBinding(t) \/ PutsLeaseBack(t) \/ AnswersBinding(t)
             \/ DeletesLease(t) \/ WritesDeletion(t) \/ FreesNode(t) \/ AnswersRelease(t)
             \/ \E c \in calls : Accept(t, c)
      PROVE  ~raced
  BY <1>2 DEF ReadsLease, WritesBinding, PutsLeaseBack, AnswersBinding, DeletesLease,
     WritesDeletion, FreesNode, AnswersRelease, Accept, WriteNodes, WriteLeases, vars
<1>3. ASSUME \/ (\E n \in Nodes : Probes(n)) \/ IsNotReady \/ MarksReady \/ WritesReady
             \/ \E w \in Windows : AsksForNode(w) \/ HearsNothing(w) \/ StartsSession(w)
                                   \/ RetriesBootstrap(w) \/ ReleasesNode(w)
             \/ \E c \in calls : IsLost(c)
             \/ Crash \/ UNCHANGED vars
      PROVE  ~raced
  BY <1>3 DEF Probes, IsNotReady, MarksReady, WritesReady, AsksForNode, HearsNothing,
     StartsSession, RetriesBootstrap, ReleasesNode, IsLost, Crash, WriteNodes, WriteLeases, vars
<1> QED  BY <1>1, <1>2, <1>3 DEF Next, ThreadStep

(* The steps that leave what is in use to who has it, and the others.      *)
Stays ==
    /\ lease' = lease /\ crashes' = crashes
    /\ \A n \in Nodes : node'[n] = "in_use" <=> node[n] = "in_use"
    /\ \A u \in Threads :
        /\ Holding(u)' <=> Holding(u)
        /\ Holding(u) => thread'[u].n = thread[u].n
Passes(t) ==
    \/ Takes(t) \/ PutsLease(t) \/ FreesNode(t)
    \/ DeletesLease(t) /\ lease[thread[t].call.l] # None
HolderStep == Stays \/ Crash \/ \E t \in Threads : Passes(t)

LEMMA Selected ==
  ASSUME Shape, NEW t \in Threads, Selects(t)
  PROVE  /\ thread[t].at = "select" /\ Others(t)
         /\ thread'[t].at \in {"full", "check"} /\ thread'[t].call = thread[t].call
<1>1. CASE Idle = {}
  BY <1>1, Going DEF Selects, At, Becomes
<1>2. ASSUME NEW n \in Best(thread[t].call.w), GoWith(t, "check", n)
      PROVE  Others(t) /\ thread'[t].at = "check" /\ thread'[t].call = thread[t].call
  BY <1>2, Selecting DEF Selects, Best, Idle, Becomes
<1> QED  BY <1>1, <1>2 DEF Selects, At

(* Most steps stay.                                                        *)
LEMMA StepsOfHolders ==
  ASSUME Shape, Probed, Given, Fresh, [Next]_vars, ~raced'
  PROVE  HolderStep
<1>1. ASSUME NEW t \in Threads, Selects(t)  PROVE HolderStep
  BY <1>1, Selected DEF Selects, server, HolderStep, Stays, Holding, Becomes,
     Others
<1>2. ASSUME NEW t \in Threads, ChecksClaim(t)  PROVE HolderStep
  BY <1>2, Going DEF ChecksClaim, server, HolderStep, Stays, Holding, Becomes,
     Others, At
<1>3. ASSUME NEW t \in Threads, Takes(t)  PROVE HolderStep
  BY <1>3 DEF HolderStep, Passes
<1>4. ASSUME NEW t \in Threads, WritesClaim(t)  PROVE HolderStep
  <2>1. PICK l \in Leases \ issued :
             thread' = [thread EXCEPT ![t].at = "put", ![t].nodes = <<>>, ![t].call.l = l]
    BY <1>4 DEF WritesClaim
  <2>2. /\ thread[t].at = "took"
        /\ Becomes(t, "put", [thread[t].call EXCEPT !.l = l], thread[t].n)
    BY <1>4, <2>1, WritingClaim DEF WritesClaim
  <2>3. thread'[t].call.l = l /\ lease[l] = None
    <3>1. thread[t].call \in Calls
      BY <2>2, Requests DEF Request, FieldsFit, Asking, NoCall
    <3> QED
      BY <2>1, <2>2, <3>1 DEF Becomes, Given, Calls
  <2> QED
    BY <1>4, <2>2, <2>3 DEF WritesClaim, HolderStep, Stays, Holding, Becomes, Others
<1>5. ASSUME NEW t \in Threads, PutsLease(t)  PROVE HolderStep
  BY <1>5 DEF HolderStep, Passes
<1>6. ASSUME NEW t \in Threads, AnswersAssignment(t)  PROVE HolderStep
  <2>1. thread[t].at = "put" /\ Becomes(t, "free", NoCall, None)
    BY <1>6, Assigning
  <2>2. UNCHANGED <<node, lease, crashes>>
    BY <1>6 DEF AnswersAssignment
  <2>3. \A u \in Threads : /\ Holding(u)' <=> Holding(u)
                           /\ Holding(u) => thread'[u].n = thread[u].n
    <3>1. ~Holding(t)
      BY <1>6, <2>1 DEF AnswersAssignment, Fresh, Holding
    <3>2. ~Holding(t)'
      BY <2>1 DEF Becomes, Holding
    <3>3. \A u \in Threads \ {t} : thread'[u] = thread[u]
      BY <2>1 DEF Becomes, Others
    <3>4. \A u \in Threads \ {t} : Holding(u)' <=> Holding(u)
      BY <2>2, <3>3 DEF Holding
    <3> QED  BY <3>1, <3>2, <3>3, <3>4
  <2> QED
    BY <2>2, <2>3 DEF HolderStep, Stays
<1>7. ASSUME NEW t \in Threads, NoCapacity(t)  PROVE HolderStep
  BY <1>7, Answering, Going DEF NoCapacity, server, Refuse, HolderStep, Stays,
     Holding, Becomes, Others, At
<1>8. ASSUME NEW t \in Threads, Launches(t)  PROVE HolderStep
  <2>1. node' \in Inventory /\ \A n \in Nodes : node'[n] = "in_use" <=> node[n] = "in_use"
    BY <1>8 DEF Launches, Shape, Objects, Inventory, States
  <2> QED
    BY <1>8, <2>1, Launching DEF Launches, HolderStep, Stays, Holding, Becomes, Others
<1>9. ASSUME NEW t \in Threads, WritesLaunch(t)  PROVE HolderStep
  BY <1>9, Answering DEF WritesLaunch, Refuse, HolderStep, Stays, Holding,
     Becomes, Others, At
<1>10. ASSUME NEW t \in Threads, ReadsLease(t)  PROVE HolderStep
  BY <1>10, Answering, Reading DEF ReadsLease, server, HolderStep, Stays, Holding,
     Becomes, Others, At
<1>11. ASSUME NEW t \in Threads, WritesBinding(t)  PROVE HolderStep
  BY <1>11, WritingBinding DEF WritesBinding, HolderStep, Stays, Holding, Becomes,
     Others
<1>12. ASSUME NEW t \in Threads, PutsLeaseBack(t)  PROVE HolderStep
  <2>1. lease' = lease
    BY <1>12 DEF PutsLeaseBack, Puts, Shape, Objects, Store, Fresh, At
  <2> QED
    BY <1>12, <2>1, PuttingBack DEF PutsLeaseBack, HolderStep, Stays, Holding,
       Becomes, Others
<1>13. ASSUME NEW t \in Threads, AnswersBinding(t)  PROVE HolderStep
  BY <1>13, Answering DEF AnswersBinding, HolderStep, Stays, Holding, Becomes,
     Others, At
<1>14. ASSUME NEW t \in Threads, DeletesLease(t)  PROVE HolderStep
  <2>1. CASE lease[thread[t].call.l] = None
    BY <1>14, <2>1, Answering DEF DeletesLease, HolderStep, Stays, Holding,
       Becomes, Others, At
  <2> QED
    BY <1>14, <2>1 DEF HolderStep, Passes
<1>15. ASSUME NEW t \in Threads, WritesDeletion(t)  PROVE HolderStep
  BY <1>15, WritingDeletion DEF WritesDeletion, HolderStep, Stays, Holding,
     Becomes, Others
<1>16. ASSUME NEW t \in Threads, FreesNode(t)  PROVE HolderStep
  BY <1>16 DEF HolderStep, Passes
<1>17. ASSUME NEW t \in Threads, AnswersRelease(t)  PROVE HolderStep
  BY <1>17, Answering DEF AnswersRelease, HolderStep, Stays, Holding, Becomes,
     Others, At
<1>18. ASSUME NEW t \in Threads, NEW c \in calls, Accept(t, c)  PROVE HolderStep
  BY <1>18, Accepting DEF Accept, server, HolderStep, Stays, Holding, Becomes,
     Others
<1>19. ASSUME NEW n \in Nodes, Probes(n)  PROVE HolderStep
  BY <1>19 DEF Probes, server, HolderStep, Stays, Holding
<1>20. CASE IsNotReady
  BY <1>20 DEF IsNotReady, server, HolderStep, Stays, Holding
<1>21. CASE MarksReady
  <2>1. \A n \in Nodes : node'[n] = "in_use" <=> node[n] = "in_use"
    BY <1>21 DEF MarksReady, Probed, Shape, Objects, Inventory
  <2> QED
    BY <1>21, <2>1 DEF MarksReady, HolderStep, Stays, Holding
<1>22. CASE WritesReady
  BY <1>22 DEF WritesReady, HolderStep, Stays, Holding
<1>23. ASSUME NEW w \in Windows, AsksForNode(w)  PROVE HolderStep
  BY <1>23 DEF AsksForNode, server, HolderStep, Stays, Holding
<1>24. ASSUME NEW w \in Windows, HearsNothing(w)  PROVE HolderStep
  BY <1>24 DEF HearsNothing, server, HolderStep, Stays, Holding
<1>25. ASSUME NEW w \in Windows, StartsSession(w)  PROVE HolderStep
  BY <1>25 DEF StartsSession, server, HolderStep, Stays, Holding
<1>26. ASSUME NEW w \in Windows, RetriesBootstrap(w)  PROVE HolderStep
  BY <1>26 DEF RetriesBootstrap, server, HolderStep, Stays, Holding
<1>27. ASSUME NEW w \in Windows, ReleasesNode(w)  PROVE HolderStep
  BY <1>27 DEF ReleasesNode, server, HolderStep, Stays, Holding
<1>28. ASSUME NEW c \in calls, IsLost(c)  PROVE HolderStep
  BY <1>28 DEF IsLost, server, HolderStep, Stays, Holding
<1>29. CASE Crash
  BY <1>29 DEF HolderStep
<1>30. CASE UNCHANGED vars
  BY <1>30 DEF vars, server, HolderStep, Stays, Holding
<1> QED
  BY <1>1, <1>2, <1>3, <1>4, <1>5, <1>6, <1>7, <1>8, <1>9, <1>10, <1>11,
     <1>12, <1>13, <1>14, <1>15, <1>16, <1>17, <1>18, <1>19, <1>20, <1>21,
     <1>22, <1>23, <1>24, <1>25, <1>26, <1>27, <1>28, <1>29, <1>30 DEF Next,
     ThreadStep

LEMMA HolderNamesNode ==
  ASSUME Shape, NEW t \in Threads, Holding(t)
  PROVE  thread[t].n \in Nodes /\ thread[t].at # "free"
  BY Requests DEF Holding, FieldsFit, Named

(* A node passes to a request when it is claimed, from it to a lease, back *)
(* to a request when the lease ends, and to the pool.                      *)
LEMMA Taken ==
  ASSUME Shape, ~raced', NEW t \in Threads, Takes(t)
  PROVE  LET n == thread[t].n IN
         /\ n \in Nodes /\ node[n] = "idle" /\ node' = [node EXCEPT ![n] = "in_use"]
         /\ lease' = lease /\ Holding(t)' /\ ~Holding(t) /\ thread'[t].n = n
         /\ \A u \in Threads : u # t => thread'[u] = thread[u] /\ (Holding(u)' <=> Holding(u))
<1>1. /\ thread[t].n \in Nodes /\ node[thread[t].n] = "idle" /\ lease' = lease
      /\ node' = [node EXCEPT ![thread[t].n] = "in_use"]
  BY Requests DEF Takes, At, FieldsFit, Named
<1> QED  BY <1>1, Taking DEF Holding, Becomes, Others

LEMMA MadeLease ==
  ASSUME Shape, Fresh, NEW t \in Threads, PutsLease(t)
  PROVE  LET n == thread[t].n
             l == thread[t].call.l
         IN
         /\ n \in Nodes /\ l \in Leases /\ thread[t].at = "put"
         /\ node' = node /\ lease' = [lease EXCEPT ![l] = n] /\ lease[l] \in {None, n}
         /\ ~Holding(t)' /\ (Holding(t) <=> lease[l] = None)
         /\ \A u \in Threads : u # t => thread'[u] = thread[u] /\ (Holding(u)' <=> Holding(u))
<1> DEFINE n == thread[t].n
           l == thread[t].call.l
<1>1. /\ n \in Nodes /\ l \in Leases /\ node' = node /\ lease' = [lease EXCEPT ![l] = n]
      /\ lease[l] \in {None, n} /\ thread[t].at = "put"
  BY Requests DEF PutsLease, Puts, At, FieldsFit, Named, Fresh
<1>2. lease \in Store /\ None \notin Nodes
  BY NodePoolAssumption DEF Shape, Objects
<1> QED  BY <1>1, <1>2, Putting DEF Holding, Becomes, Others, Fresh, Store

LEMMA Freed ==
  ASSUME Shape, NEW t \in Threads, FreesNode(t)
  PROVE  LET n == thread[t].n IN
         /\ n \in Nodes /\ Holding(t) /\ ~Holding(t)' /\ lease' = lease
         /\ node'[n] \in {"idle", "booting"} /\ \A m \in Nodes : m # n => node'[m] = node[m]
         /\ \A u \in Threads : u # t => thread'[u] = thread[u] /\ (Holding(u)' <=> Holding(u))
<1> DEFINE n == thread[t].n
<1>1. n \in Nodes /\ Holding(t) /\ lease' = lease /\ \A m \in Nodes : m # n => node'[m] = node[m]
  BY HolderNamesNode DEF FreesNode, At, Holding, Shape, Objects, Inventory
<1>2. node'[n] \in {"idle", "booting"}
  BY <1>1, Requests DEF FreesNode, At, FieldsFit, Ended, Request, Calls, NoCall,
     Shape, Objects, Inventory
<1> QED  BY <1>1, <1>2, Freeing DEF Holding, Becomes, Others

LEMMA EndedLease ==
  ASSUME Shape, Fresh, NEW t \in Threads, DeletesLease(t),
         lease[thread[t].call.l] # None
  PROVE  LET l == thread[t].call.l
             n == lease[l]
         IN
         /\ l \in Leases /\ n \in Nodes /\ thread[t].at = "release" /\ node' = node
         /\ \A k \in Leases : lease'[k] = IF k = l THEN None ELSE lease[k]
         /\ Holding(t)' /\ ~Holding(t) /\ thread'[t].n = n
         /\ \A u \in Threads : u # t => thread'[u] = thread[u] /\ (Holding(u)' <=> Holding(u))
<1> DEFINE l == thread[t].call.l
           n == lease[l]
<1>1. /\ /\ l \in Leases /\ n \in Nodes /\ node' = node
      /\ lease' = [lease EXCEPT ![l] = None]
      /\ thread[t].at = "release"
  BY Requests DEF DeletesLease, At, FieldsFit, Ended, Shape, Objects, Store
<1>2. lease \in Store /\ None \notin Nodes
  BY NodePoolAssumption DEF Shape, Objects
<1>3. \A k \in Leases : lease'[k] = IF k = l THEN None ELSE lease[k]
  BY <1>1, <1>2 DEF Store
<1> QED  BY <1>1, <1>2, <1>3, Deleting DEF Holding, Becomes, Others, Fresh, Store

(* A step of each kind keeps every node in use to itself.                  *)
LEMMA ExclusiveStep ==
  ASSUME Shape, Sound, [Next]_vars, ~raced'
  PROVE  Exclusive'
<1>0. ~raced /\ (Stays \/ Crash \/ \E t \in Threads : Passes(t))
  BY RacedStays, StepsOfHolders DEF Sound, HolderStep
<1> USE DEF Sound
<1>1. /\ node \in Inventory /\ lease \in Store /\ None \notin Nodes
      /\ \A u \in Threads : Holding(u) => thread[u].n \in Nodes
  BY NodePoolAssumption, HolderNamesNode DEF Shape, Objects
<1>2. CASE Stays
  BY <1>1, <1>2 DEF Stays, Exclusive, OneLeaseEach, Store
<1>3. CASE Crash
  BY <1>3 DEF Crash, Filed, Exclusive, OneLeaseEach, Holding, Free
<1>4. ASSUME NEW t \in Threads, Takes(t)  PROVE Exclusive'
  <2>1. \A l \in Leases : lease[l] # thread[t].n
    BY <1>1, <1>4, Taken DEF Exclusive, OneLeaseEach
  <2>2. \A u \in Threads : Holding(u) => thread[u].n # thread[t].n
    BY <1>4, Taken DEF Exclusive
  <2> QED
    BY <1>1, <1>4, <2>1, <2>2, Taken DEF Exclusive, OneLeaseEach, Inventory, Store
<1>5. ASSUME NEW t \in Threads, PutsLease(t)  PROVE Exclusive'
  <2> DEFINE n == thread[t].n
             l == thread[t].call.l
  <2>1. CASE lease[l] = n
    <3>1. lease' = lease
      BY <1>1, <1>5, <2>1, MadeLease DEF Store
    <3> QED
      BY <1>5, <3>1, MadeLease DEF Exclusive, OneLeaseEach
  <2>2. CASE lease[l] = None
    BY <1>1, <1>5, <2>2, MadeLease DEF Exclusive, OneLeaseEach, Store
  <2> QED
    BY <1>5, <2>1, <2>2, MadeLease
<1>6. ASSUME NEW t \in Threads, FreesNode(t)  PROVE Exclusive'
  BY <1>1, <1>6, Freed DEF Exclusive, OneLeaseEach, Store
<1>7. ASSUME NEW t \in Threads, DeletesLease(t), lease[thread[t].call.l] # None
      PROVE  Exclusive'
  <2> DEFINE l == thread[t].call.l
             n == lease[l]
  <2>1. /\ node[n] = "in_use" /\ OneLeaseEach(node, lease')
        /\ \A k \in Leases : lease'[k] # n
    BY <1>1, <1>7, EndedLease DEF Exclusive, OneLeaseEach
  <2>2. \A u \in Threads : Holding(u) => thread[u].n # n /\ \A k \in Leases : lease'[k] # thread[u].n
    BY <1>1, <1>7, EndedLease DEF Exclusive
  <2> QED
    BY <1>1, <1>7, <2>1, <2>2, EndedLease DEF Exclusive, OneLeaseEach
<1> QED  BY <1>0, <1>2, <1>3, <1>4, <1>5, <1>6, <1>7 DEF Passes

(* And, before a crash, to somebody.                                       *)
LEMMA AccountedStep ==
  ASSUME Shape, Sound, [Next]_vars, ~raced'
  PROVE  Accounted'
<1>0. ~raced /\ (Stays \/ Crash \/ \E t \in Threads : Passes(t))
  BY RacedStays, StepsOfHolders DEF Sound, HolderStep
<1> USE DEF Sound
<1>1. /\ node \in Inventory /\ lease \in Store /\ None \notin Nodes
      /\ \A u \in Threads : Holding(u) => thread[u].n \in Nodes
  BY NodePoolAssumption, HolderNamesNode DEF Shape, Objects
<1>2. CASE Stays
  BY <1>1, <1>2 DEF Stays, Accounted, Leased
<1>3. CASE Crash
  BY <1>3 DEF Crash, Accounted, Shape, Counted
<1>4. ASSUME NEW t \in Threads, Takes(t)  PROVE Accounted'
  <2>1. crashes' = crashes
    BY <1>4 DEF Takes
  <2> QED
    BY <1>1, <1>4, <2>1, Taken DEF Accounted, Leased, Inventory
<1>5. ASSUME NEW t \in Threads, PutsLease(t)  PROVE Accounted'
  <2>1. crashes' = crashes
    BY <1>5 DEF PutsLease
  <2>2. \A n \in Nodes : Leased(n) => Leased(n)'
    BY <1>1, <1>5, MadeLease DEF Leased, Store
  <2>3. \A n \in Nodes : n = thread[t].n => Leased(n)'
    BY <1>1, <1>5, MadeLease DEF Leased, Store
  <2> QED
    BY <1>1, <1>5, <2>1, <2>2, <2>3, MadeLease DEF Accounted
<1>6. ASSUME NEW t \in Threads, FreesNode(t)  PROVE Accounted'
  <2>1. crashes' = crashes
    BY <1>6 DEF FreesNode
  <2> QED
    BY <1>1, <1>6, <2>1, Freed DEF Accounted, Leased
<1>7. ASSUME NEW t \in Threads, DeletesLease(t), lease[thread[t].call.l] # None
      PROVE  Accounted'
  <2>1. crashes' = crashes
    BY <1>7 DEF DeletesLease
  <2> QED
    BY <1>1, <1>7, <2>1, EndedLease DEF Accounted, Leased
<1> QED  BY <1>0, <1>2, <1>3, <1>4, <1>5, <1>6, <1>7 DEF Passes

(* What boots stays so until the monitor says otherwise.                   *)
LEMMA ProbedStep ==
  ASSUME Shape, Sound, [Next]_vars, ~raced'
  PROVE  Probed'
<1> USE DEF Sound
<1>1. node \in Inventory /\ (monitor.at = "probing" => monitor.n \in Nodes)
  BY DEF Shape, Objects, MonitorShape
<1>2. ASSUME NEW t \in Threads, Takes(t)  PROVE Probed'
  BY <1>1, <1>2, Taken DEF Takes, Probed, Inventory
<1>3. ASSUME NEW t \in Threads, FreesNode(t)  PROVE Probed'
  BY <1>1, <1>3, Freed DEF FreesNode, Probed, Exclusive
<1>4. ASSUME NEW t \in Threads, Launches(t)  PROVE Probed'
  BY <1>1, <1>4 DEF Launches, Probed, Inventory
<1>5. ASSUME NEW n \in Nodes, Probes(n)  PROVE Probed'
  BY <1>1, <1>5 DEF Probes, server, Probed, Shape, MonitorShape
<1>6. CASE MarksReady
  BY <1>6 DEF MarksReady, Probed, Shape, MonitorShape
<1>7. CASE Crash \/ IsNotReady \/ WritesReady
  BY <1>7 DEF Crash, IsNotReady, WritesReady, Resting, Probed
<1>8. CASE node' = node /\ monitor' = monitor
  BY <1>8 DEF Probed
<1>9. ASSUME NEW t \in Threads, ThreadStep(t), ~Takes(t), ~FreesNode(t), ~Launches(t)
      PROVE  node' = node /\ monitor' = monitor
  BY <1>9 DEF ThreadStep, Selects, ChecksClaim, WritesClaim, PutsLease,
     AnswersAssignment,
     NoCapacity, WritesLaunch, ReadsLease, WritesBinding, PutsLeaseBack, AnswersBinding,
     DeletesLease, WritesDeletion, AnswersRelease, server
<1>10. ASSUME \/ \E t \in Threads, c \in calls : Accept(t, c)
              \/ \E w \in Windows : AsksForNode(w) \/ HearsNothing(w) \/ StartsSession(w)
                                    \/ RetriesBootstrap(w) \/ ReleasesNode(w)
              \/ \E c \in calls : IsLost(c)
              \/ UNCHANGED vars
       PROVE  node' = node /\ monitor' = monitor
  BY <1>10 DEF Accept, AsksForNode, HearsNothing, StartsSession, RetriesBootstrap,
     ReleasesNode, IsLost, vars, server
<1> QED  BY <1>2, <1>3, <1>4, <1>5, <1>6, <1>7, <1>8, <1>9, <1>10 DEF Next

-----------------------------------------------------------------------------
(* What a step does to the names of assignments.  The call of a request is *)
(* the same, over, a call that waited, or a claim that got its assignment. *)

SameCall(u) ==
    /\ thread'[u].call = thread[u].call
    /\ thread'[u].at \in Ended => thread[u].at \in Ended
    /\ thread'[u].at \in {"put", "bound", "putback"} =>
        \/ thread'[u].at = thread[u].at /\ thread'[u].n = thread[u].n
        \/ /\ thread'[u].at = "bound" /\ thread[u].at = "bind"
           /\ thread'[u].n = lease[thread[u].call.l]
        \/ /\ thread'[u].at = "putback" /\ thread[u].at = "bound"
           /\ thread'[u].n = thread[u].n
    /\ thread'[u].at = "put" => thread'[u].leases = thread[u].leases \/ PutsLease(u)
    /\ thread'[u].at = "freeing" =>
        thread'[u].n = thread[u].n /\ (thread[u].at = "freeing" \/ WritesDeletion(u))
CallEnds(u) == thread'[u].at = "free" /\ thread'[u].call.l = None
CallBegins(u) ==
    /\ thread[u].at = "free" /\ thread'[u].at \in {"select", "bind", "release"}
    /\ thread'[u].call \in calls
    /\ thread'[u].at = "release" => thread'[u].call.op = "release"
GetsAssignment(u) ==
    /\ WritesClaim(u) /\ thread[u].at = "took" /\ Others(u)
    /\ thread'[u].at = "put" /\ thread'[u].n = thread[u].n /\ thread'[u].leases = <<>>
    /\ thread'[u].call.l \in Leases \ issued /\ issued' = issued \cup {thread'[u].call.l}
RequestStep ==
    \A u \in Threads : SameCall(u) \/ CallEnds(u) \/ CallBegins(u) \/ GetsAssignment(u)

(* Every request goes one of these ways.                                   *)
LEMMA CallsOfSteps ==
  ASSUME Shape, Sound, [Next]_vars, ~raced'
  PROVE  RequestStep
<1>1. ASSUME NEW t \in Threads, Selects(t)  PROVE RequestStep
  <2>1. SameCall(t) /\ Others(t)
    BY <1>1, Selected DEF Becomes, SameCall, Ended
  <2> QED
    BY <2>1 DEF Others, RequestStep, SameCall
<1>2. ASSUME NEW t \in Threads, ChecksClaim(t)  PROVE RequestStep
  <2>1. SameCall(t) /\ Others(t)
    BY <1>2, Going DEF ChecksClaim, At, Becomes, SameCall, Ended
  <2> QED
    BY <2>1 DEF Others, RequestStep, SameCall
<1>3. ASSUME NEW t \in Threads, Takes(t)  PROVE RequestStep
  <2>1. SameCall(t) /\ Others(t)
    BY <1>3, Taking DEF Becomes, SameCall, Ended
  <2> QED
    BY <2>1 DEF Others, RequestStep, SameCall
<1>4. ASSUME NEW t \in Threads, WritesClaim(t)  PROVE RequestStep
  <2>1. PICK l \in Leases \ issued :
             /\ thread' = [thread EXCEPT ![t].at = "put", ![t].nodes = <<>>, ![t].call.l = l]
             /\ issued' = issued \cup {l}
    BY <1>4 DEF WritesClaim
  <2>2. /\ Becomes(t, "put", [thread[t].call EXCEPT !.l = l], thread[t].n)
        /\ thread[t].at = "took" /\ thread'[t].leases = <<>>
    BY <1>4, <2>1, WritingClaim, Requests DEF WritesClaim, FieldsFit
  <2>3. thread[t].call \in Calls
    BY <2>2, Requests DEF Request, FieldsFit, Asking, NoCall
  <2>4. GetsAssignment(t) /\ Others(t)
    <3>1. [thread[t].call EXCEPT !.l = l].l = l
      BY <2>3 DEF Calls
    <3> QED
      BY <1>4, <2>1, <2>2, <3>1 DEF Becomes, GetsAssignment
  <2> QED
    BY <2>4 DEF Others, RequestStep, SameCall
<1>5. ASSUME NEW t \in Threads, PutsLease(t)  PROVE RequestStep
  <2>1. SameCall(t) /\ Others(t)
    BY <1>5, Putting DEF Becomes, SameCall, Ended
  <2> QED
    BY <2>1 DEF Others, RequestStep, SameCall
<1>6. ASSUME NEW t \in Threads, AnswersAssignment(t)  PROVE RequestStep
  <2>1. CallEnds(t) /\ Others(t)
    BY <1>6, Assigning DEF Becomes, CallEnds, NoCall
  <2> QED
    BY <2>1 DEF Others, RequestStep, SameCall
<1>7. ASSUME NEW t \in Threads, NoCapacity(t)  PROVE RequestStep
  <2>1. CASE Answered(t)
    <3>1. CallEnds(t) /\ Others(t)
      BY <2>1, Answering DEF Becomes, CallEnds, NoCall
    <3> QED
      BY <3>1 DEF Others, RequestStep, SameCall
  <2>2. CASE GoTo(t, "launch")
    <3>1. SameCall(t) /\ Others(t)
      BY <1>7, <2>2, Going DEF NoCapacity, At, Becomes, SameCall, Ended
    <3> QED
      BY <3>1 DEF Others, RequestStep, SameCall
  <2> QED
    BY <1>7, <2>1, <2>2 DEF NoCapacity, Refuse
<1>8. ASSUME NEW t \in Threads, Launches(t)  PROVE RequestStep
  <2>1. node' \in Inventory
    BY <1>8 DEF Launches, Shape, Objects, Inventory, States
  <2>2. SameCall(t) /\ Others(t)
    BY <1>8, <2>1, Launching DEF Launches, Becomes, SameCall, Ended
  <2> QED
    BY <2>2 DEF Others, RequestStep, SameCall
<1>9. ASSUME NEW t \in Threads, WritesLaunch(t)  PROVE RequestStep
  <2>1. CallEnds(t) /\ Others(t)
    BY <1>9, Answering DEF WritesLaunch, Refuse, Becomes, CallEnds, NoCall
  <2> QED
    BY <2>1 DEF Others, RequestStep, SameCall
<1>10. ASSUME NEW t \in Threads, ReadsLease(t)  PROVE RequestStep
  <2>1. CASE Answered(t)
    <3>1. CallEnds(t) /\ Others(t)
      BY <2>1, Answering DEF Becomes, CallEnds, NoCall
    <3> QED
      BY <3>1 DEF Others, RequestStep, SameCall
  <2>2. CASE lease[thread[t].call.l] # None
    <3>1. SameCall(t) /\ Others(t)
      BY <1>10, <2>2, Reading DEF ReadsLease, At, Becomes, SameCall, Ended
    <3> QED
      BY <3>1 DEF Others, RequestStep, SameCall
  <2> QED
    BY <1>10, <2>1, <2>2 DEF ReadsLease
<1>11. ASSUME NEW t \in Threads, WritesBinding(t)  PROVE RequestStep
  <2>1. SameCall(t) /\ Others(t)
    BY <1>11, WritingBinding DEF Becomes, SameCall, Ended
  <2> QED
    BY <2>1 DEF Others, RequestStep, SameCall
<1>12. ASSUME NEW t \in Threads, PutsLeaseBack(t)  PROVE RequestStep
  <2>1. SameCall(t) /\ Others(t)
    BY <1>12, PuttingBack DEF Becomes, SameCall, Ended
  <2> QED
    BY <2>1 DEF Others, RequestStep, SameCall
<1>13. ASSUME NEW t \in Threads, AnswersBinding(t)  PROVE RequestStep
  <2>1. CallEnds(t) /\ Others(t)
    BY <1>13, Answering DEF AnswersBinding, Becomes, CallEnds, NoCall
  <2> QED
    BY <2>1 DEF Others, RequestStep, SameCall
<1>14. ASSUME NEW t \in Threads, DeletesLease(t)  PROVE RequestStep
  <2>1. CASE Answered(t)
    <3>1. CallEnds(t) /\ Others(t)
      BY <2>1, Answering DEF Becomes, CallEnds, NoCall
    <3> QED
      BY <3>1 DEF Others, RequestStep, SameCall
  <2>2. CASE lease[thread[t].call.l] # None
    <3>1. SameCall(t) /\ Others(t)
      BY <1>14, <2>2, Deleting DEF DeletesLease, At, Becomes, SameCall, Ended
    <3> QED
      BY <3>1 DEF Others, RequestStep, SameCall
  <2> QED
    BY <1>14, <2>1, <2>2 DEF DeletesLease
<1>15. ASSUME NEW t \in Threads, WritesDeletion(t)  PROVE RequestStep
  <2>1. SameCall(t) /\ Others(t)
    BY <1>15, WritingDeletion DEF Becomes, SameCall, Ended
  <2> QED
    BY <2>1 DEF Others, RequestStep, SameCall
<1>16. ASSUME NEW t \in Threads, FreesNode(t)  PROVE RequestStep
  <2>1. SameCall(t) /\ Others(t)
    BY <1>16, Freeing DEF Becomes, SameCall, Ended
  <2> QED
    BY <2>1 DEF Others, RequestStep, SameCall
<1>17. ASSUME NEW t \in Threads, AnswersRelease(t)  PROVE RequestStep
  <2>1. CallEnds(t) /\ Others(t)
    BY <1>17, Answering DEF AnswersRelease, Becomes, CallEnds, NoCall
  <2> QED
    BY <2>1 DEF Others, RequestStep, SameCall
<1>18. ASSUME NEW t \in Threads, NEW c \in calls, Accept(t, c)  PROVE RequestStep
  <2>1. c.op \in {"bootstrap", "bind", "release"}
    BY DEF Shape, CallShape, Calls
  <2>2. CallBegins(t) /\ Others(t)
    BY <1>18, <2>1, Accepting DEF Becomes, CallBegins
  <2> QED
    BY <2>2 DEF Others, RequestStep, SameCall
<1>19. ASSUME NEW n \in Nodes, Probes(n)  PROVE RequestStep
  BY <1>19 DEF Probes, RequestStep, SameCall
<1>20. CASE IsNotReady
  BY <1>20 DEF IsNotReady, RequestStep, SameCall
<1>21. CASE MarksReady
  BY <1>21 DEF MarksReady, RequestStep, SameCall
<1>22. CASE WritesReady
  BY <1>22 DEF WritesReady, RequestStep, SameCall
<1>23. ASSUME NEW w \in Windows, AsksForNode(w)  PROVE RequestStep
  BY <1>23 DEF AsksForNode, RequestStep, SameCall
<1>24. ASSUME NEW w \in Windows, HearsNothing(w)  PROVE RequestStep
  BY <1>24 DEF HearsNothing, RequestStep, SameCall
<1>25. ASSUME NEW w \in Windows, StartsSession(w)  PROVE RequestStep
  BY <1>25 DEF StartsSession, RequestStep, SameCall
<1>26. ASSUME NEW w \in Windows, RetriesBootstrap(w)  PROVE RequestStep
  BY <1>26 DEF RetriesBootstrap, RequestStep, SameCall
<1>27. ASSUME NEW w \in Windows, ReleasesNode(w)  PROVE RequestStep
  BY <1>27 DEF ReleasesNode, RequestStep, SameCall
<1>28. ASSUME NEW c \in calls, IsLost(c)  PROVE RequestStep
  BY <1>28 DEF IsLost, RequestStep, SameCall
<1>29. CASE Crash
  BY <1>29 DEF Crash, Free, NoCall, RequestStep, CallEnds
<1>30. CASE UNCHANGED vars
  BY <1>30 DEF vars, RequestStep, SameCall
<1> QED
  BY <1>1, <1>2, <1>3, <1>4, <1>5, <1>6, <1>7, <1>8, <1>9, <1>10, <1>11,
     <1>12, <1>13, <1>14, <1>15, <1>16, <1>17, <1>18, <1>19, <1>20, <1>21,
     <1>22, <1>23, <1>24, <1>25, <1>26, <1>27, <1>28, <1>29, <1>30 DEF Next,
     ThreadStep

(* A window keeps its assignment, gives it up or is told a new one.        *)
LEMMA WindowsOfSteps ==
  ASSUME Shape, [Next]_vars
  PROVE  \A w \in Windows :
            \/ window'[w].l = None
            \/ window'[w].l = window[w].l /\ window'[w].n = window[w].n
            \/ \E u \in Threads : /\ AnswersAssignment(u) /\ w = thread[u].call.w
                                  /\ window'[w].l = thread[u].call.l
                                  /\ window'[w].n = thread[u].n
<1> DEFINE Goal == \A w \in Windows :
            \/ window'[w].l = None
            \/ window'[w].l = window[w].l /\ window'[w].n = window[w].n
            \/ \E u \in Threads : /\ AnswersAssignment(u) /\ w = thread[u].call.w
                                  /\ window'[w].l = thread[u].call.l
                                  /\ window'[w].n = thread[u].n
<1>1. ASSUME NEW t \in Threads, AnswersAssignment(t)  PROVE Goal
  <2>1. CASE window[thread[t].call.w].at = "asking"
    BY <1>1, <2>1, Assigning
  <2> QED
    BY <1>1, <2>1, Assigning
<1>2. ASSUME NEW t \in Threads, NoCapacity(t) \/ WritesLaunch(t)  PROVE Goal
  BY <1>2, Closing DEF NoCapacity, WritesLaunch, Refuse, Shape, WindowShape
<1>3. ASSUME NEW t \in Threads, ThreadStep(t), ~AnswersAssignment(t), ~NoCapacity(t), ~WritesLaunch(t)
      PROVE  window' = window
  BY <1>3 DEF ThreadStep, Selects, ChecksClaim, Takes, WritesClaim, PutsLease, Launches,
     ReadsLease, WritesBinding, PutsLeaseBack, AnswersBinding, DeletesLease, WritesDeletion,
     FreesNode, AnswersRelease
<1>4. ASSUME NEW v \in Windows, HearsNothing(v) \/ ReleasesNode(v)  PROVE Goal
  BY <1>4, Closing DEF HearsNothing, ReleasesNode, Shape, WindowShape
<1>5. ASSUME NEW v \in Windows, AsksForNode(v) \/ StartsSession(v) \/ RetriesBootstrap(v)
      PROVE  Goal
  BY <1>5 DEF AsksForNode, StartsSession, RetriesBootstrap, Shape, WindowShape
<1>6. ASSUME \/ \E t \in Threads, c \in calls : Accept(t, c)
             \/ (\E n \in Nodes : Probes(n)) \/ IsNotReady \/ MarksReady \/ WritesReady
             \/ (\E c \in calls : IsLost(c)) \/ Crash \/ UNCHANGED vars
      PROVE  window' = window
  BY <1>6 DEF Accept, Probes, IsNotReady, MarksReady, WritesReady, IsLost, Crash, vars
<1>7. ASSUME window' = window  PROVE Goal
  BY <1>7
<1> HIDE DEF Goal
<1>8. ASSUME NEW t \in Threads, ThreadStep(t)  PROVE Goal
  BY <1>1, <1>2, <1>3, <1>7, <1>8
<1>9. Goal
  BY <1>4, <1>5, <1>6, <1>7, <1>8 DEF Next
<1> QED  BY <1>9 DEF Goal

(* A new call names the assignment of its window, which gives it up when   *)
(* the call is its release.                                                *)
LEMMA NamesOfCalls ==
  ASSUME Shape, [Next]_vars
  PROVE  \A c \in calls' :
            \/ c \in calls
            \/ c.l = None
            \/ \E w \in Windows : /\ window[w].l = c.l /\ window[w].l # None
                                  /\ c.op = "release" => window'[w].l = None
<1> DEFINE Goal == \A c \in calls' :
            \/ c \in calls
            \/ c.l = None
            \/ \E w \in Windows : /\ window[w].l = c.l /\ window[w].l # None
                                  /\ c.op = "release" => window'[w].l = None
<1>1. ASSUME NEW v \in Windows, AsksForNode(v) \/ StartsSession(v)  PROVE Goal
  BY <1>1, Calling, NodePoolAssumption DEF AsksForNode, StartsSession, Shape,
     WindowShape
<1>2. ASSUME NEW v \in Windows, RetriesBootstrap(v) \/ ReleasesNode(v)  PROVE Goal
  BY <1>2, Calling, Closing, NodePoolAssumption
     DEF RetriesBootstrap, ReleasesNode, Shape, WindowShape
<1>3. ASSUME NEW t \in Threads, ThreadStep(t)  PROVE calls' = calls
  BY <1>3 DEF ThreadStep, Selects, ChecksClaim, Takes, WritesClaim, PutsLease,
     AnswersAssignment, NoCapacity, Launches, WritesLaunch, ReadsLease, WritesBinding,
     PutsLeaseBack, AnswersBinding, DeletesLease, WritesDeletion, FreesNode, AnswersRelease
<1>4. ASSUME \/ \E t \in Threads, c \in calls : Accept(t, c)
             \/ (\E n \in Nodes : Probes(n)) \/ IsNotReady \/ MarksReady \/ WritesReady
             \/ (\E v \in Windows : HearsNothing(v))
             \/ (\E c \in calls : IsLost(c)) \/ Crash \/ UNCHANGED vars
      PROVE  calls' \subseteq calls
  BY <1>4 DEF Accept, Probes, IsNotReady, MarksReady, WritesReady, HearsNothing,
     IsLost, Crash,
     vars
<1>5. ASSUME calls' \subseteq calls  PROVE Goal
  BY <1>5
<1> HIDE DEF Goal
<1>6. ASSUME NEW t \in Threads, ThreadStep(t)  PROVE Goal
  BY <1>3, <1>5, <1>6
<1>7. Goal
  BY <1>1, <1>2, <1>4, <1>5, <1>6 DEF Next
<1> QED  BY <1>7 DEF Goal

(* A file is written from an object that has not changed since.            *)
LEMMA FilesOfSteps ==
  ASSUME [Next]_vars, ~raced'
  PROVE  /\ \/ leaseFile' = leaseFile
            \/ leaseFile' = lease /\ lease' = lease
         /\ \/ nodeFile' = nodeFile
            \/ nodeFile' = node /\ node' = node
<1>1. ASSUME NEW t \in Threads, WritesClaim(t) \/ WritesLaunch(t) \/ WritesBinding(t) \/ AnswersRelease(t)
      PROVE  nodeFile' = node /\ node' = node /\ leaseFile' = leaseFile
  BY <1>1 DEF WritesClaim, WritesLaunch, WritesBinding, AnswersRelease, WriteNodes
<1>2. ASSUME NEW t \in Threads, AnswersAssignment(t) \/ AnswersBinding(t) \/ WritesDeletion(t)
      PROVE  leaseFile' = lease /\ lease' = lease /\ nodeFile' = nodeFile
  BY <1>2 DEF AnswersAssignment, AnswersBinding, WritesDeletion, WriteLeases
<1>3. CASE WritesReady
  BY <1>3 DEF WritesReady, WriteNodes
<1>4. ASSUME NEW t \in Threads,
             \/ Selects(t) \/ ChecksClaim(t) \/ Takes(t) \/ PutsLease(t) \/ NoCapacity(t)
             \/ Launches(t) \/ ReadsLease(t) \/ PutsLeaseBack(t) \/ DeletesLease(t) \/ FreesNode(t)
      PROVE  UNCHANGED <<nodeFile, leaseFile>>
  BY <1>4 DEF Selects, ChecksClaim, Takes, PutsLease, NoCapacity, Launches, ReadsLease,
     PutsLeaseBack, DeletesLease, FreesNode, server
<1>5. ASSUME \/ \E t \in Threads, c \in calls : Accept(t, c)
             \/ (\E n \in Nodes : Probes(n)) \/ IsNotReady \/ MarksReady
             \/ \E w \in Windows : AsksForNode(w) \/ HearsNothing(w) \/ StartsSession(w)
                                   \/ RetriesBootstrap(w) \/ ReleasesNode(w)
             \/ \E c \in calls : IsLost(c)
             \/ Crash \/ UNCHANGED vars
      PROVE  UNCHANGED <<nodeFile, leaseFile>>
  BY <1>5 DEF Accept, Probes, IsNotReady, MarksReady, AsksForNode, HearsNothing,
     StartsSession,
     RetriesBootstrap, ReleasesNode, IsLost, Crash, vars, server
<1>6. ASSUME NEW t \in Threads, ThreadStep(t)
      PROVE  \/ UNCHANGED <<nodeFile, leaseFile>>
             \/ leaseFile' = lease /\ lease' = lease /\ nodeFile' = nodeFile
             \/ nodeFile' = node /\ node' = node /\ leaseFile' = leaseFile
  BY <1>1, <1>2, <1>4, <1>6 DEF ThreadStep
<1> QED  BY <1>3, <1>5, <1>6 DEF Next

LEMMA IssuedGrows ==
  ASSUME [Next]_vars
  PROVE  issued \subseteq issued'
<1>1. ASSUME NEW t \in Threads, WritesClaim(t)
      PROVE  issued \subseteq issued'
  BY <1>1 DEF WritesClaim
<1>2. ASSUME NEW t \in Threads,
             \/ Selects(t) \/ ChecksClaim(t) \/ Takes(t) \/ PutsLease(t) \/ AnswersAssignment(t)
             \/ NoCapacity(t) \/ Launches(t) \/ WritesLaunch(t) \/ ReadsLease(t) \/ WritesBinding(t)
      PROVE  issued' = issued
  BY <1>2 DEF Selects, ChecksClaim, Takes, PutsLease, AnswersAssignment, NoCapacity, Launches,
     WritesLaunch, ReadsLease, WritesBinding, server
<1>3. ASSUME NEW t \in Threads,
             \/ PutsLeaseBack(t) \/ AnswersBinding(t) \/ DeletesLease(t) \/ WritesDeletion(t)
             \/ FreesNode(t) \/ AnswersRelease(t) \/ \E c \in calls : Accept(t, c)
      PROVE  issued' = issued
  BY <1>3 DEF PutsLeaseBack, AnswersBinding, DeletesLease, WritesDeletion, FreesNode,
     AnswersRelease, Accept, server
<1>4. ASSUME \/ (\E n \in Nodes : Probes(n)) \/ IsNotReady \/ MarksReady \/ WritesReady
             \/ \E w \in Windows : AsksForNode(w) \/ HearsNothing(w) \/ StartsSession(w)
                                   \/ RetriesBootstrap(w) \/ ReleasesNode(w)
             \/ \E c \in calls : IsLost(c)
             \/ Crash \/ UNCHANGED vars
      PROVE  issued' = issued
  BY <1>4 DEF Probes, IsNotReady, MarksReady, WritesReady, AsksForNode, HearsNothing,
     StartsSession, RetriesBootstrap, ReleasesNode, IsLost, Crash, vars, server
<1> QED  BY <1>1, <1>2, <1>3, <1>4 DEF Next, ThreadStep

(* Assignment ids are given out before anybody has them.                   *)
LEMMA GivenStep ==
  ASSUME Shape, Sound, [Next]_vars, ~raced'
  PROVE  Given'
<1>1. /\ issued \subseteq issued' /\ Given
      /\ \A l \in Leases : leaseFile'[l] \in {leaseFile[l], lease[l]}
  BY IssuedGrows, FilesOfSteps DEF Sound
<1>2. \A l \in Leases : lease'[l] # None => l \in issued
  <2>1. CASE Stays \/ \E t \in Threads : Takes(t) \/ FreesNode(t)
    BY <1>1, <2>1 DEF Stays, Takes, FreesNode, Given
  <2>2. CASE Crash
    BY <1>1, <2>2 DEF Crash, Given
  <2>3. ASSUME NEW t \in Threads, PutsLease(t)
        PROVE  \A l \in Leases : lease'[l] # None => l \in issued
    <3>1. thread[t].call.l \in issued
      BY <1>1, <2>3, MadeLease, NodePoolAssumption DEF Given, Sound
    <3> QED
      BY <1>1, <2>3, <3>1, MadeLease DEF Given, Sound, Shape, Objects, Store
  <2>4. ASSUME NEW t \in Threads, DeletesLease(t), lease[thread[t].call.l] # None
        PROVE  \A l \in Leases : lease'[l] # None => l \in issued
    BY <1>1, <2>4, EndedLease DEF Given, Sound
  <2> QED
    BY <2>1, <2>2, <2>3, <2>4, StepsOfHolders DEF HolderStep, Passes, Sound
<1>3. \A u \in Threads : thread'[u].call.l # None => thread'[u].call.l \in issued'
  BY <1>1, CallsOfSteps DEF RequestStep, SameCall, CallEnds, CallBegins,
     GetsAssignment, Given
<1>4. \A w \in Windows : window'[w].l # None => window'[w].l \in issued
  BY <1>1, WindowsOfSteps DEF Given
<1>5. \A c \in calls' : c.l # None => c.l \in issued
  <2>1. /\ \A w \in Windows : window[w].l # None => window[w].l \in issued
        /\ \A c \in calls : c.l # None => c.l \in issued
    BY <1>1 DEF Given
  <2>2. ASSUME NEW c \in calls', c.l # None
        PROVE  c \in calls \/ \E w \in Windows : window[w].l = c.l
    BY <2>2, NamesOfCalls
  <2> QED
    BY <2>1, <2>2
<1> QED  BY <1>1, <1>2, <1>3, <1>4, <1>5 DEF Given

(* A lease changes only when it is made, ended, or read back.              *)
LEMMA LeasesOfSteps ==
  ASSUME Shape, Sound, [Next]_vars, ~raced', ~Crash
  PROVE  \A l \in Leases :
            \/ lease'[l] = lease[l]
            \/ \E u \in Threads : /\ thread[u].at = "put" /\ l = thread[u].call.l
                                  /\ lease'[l] = thread[u].n /\ thread[u].n \in Nodes
            \/ \E u \in Threads : /\ thread[u].at = "release" /\ l = thread[u].call.l
                                  /\ lease'[l] = None
<1>1. CASE Stays \/ \E t \in Threads : Takes(t) \/ FreesNode(t)
  BY <1>1 DEF Stays, Takes, FreesNode
<1>2. ASSUME NEW t \in Threads, PutsLease(t), NEW l \in Leases
      PROVE  \/ lease'[l] = lease[l]
             \/ /\ thread[t].at = "put" /\ l = thread[t].call.l
                /\ lease'[l] = thread[t].n /\ thread[t].n \in Nodes
  <2>1. lease \in Store
    BY DEF Shape, Objects
  <2> QED
    BY <1>2, <2>1, MadeLease DEF Store, Sound
<1>3. ASSUME NEW t \in Threads, DeletesLease(t), lease[thread[t].call.l] # None, NEW l \in Leases
      PROVE  \/ lease'[l] = lease[l]
             \/ thread[t].at = "release" /\ l = thread[t].call.l /\ lease'[l] = None
  BY <1>3, EndedLease DEF Sound
<1> QED  BY <1>1, <1>2, <1>3, StepsOfHolders DEF HolderStep, Passes, Sound

(* A node in use stays so but for its release.                             *)
LEMMA UseOfSteps ==
  ASSUME Shape, Sound, [Next]_vars, ~raced', ~Crash, NEW n \in Nodes, node[n] = "in_use"
  PROVE  \/ node'[n] = "in_use"
         \/ \E u \in Threads : Holding(u) /\ thread[u].at = "freeing" /\ thread[u].n = n
<1>1. CASE Stays
  BY <1>1 DEF Stays
<1>2. ASSUME NEW t \in Threads, Takes(t)
      PROVE  node'[n] = "in_use"
  BY <1>2, Taken DEF Shape, Objects, Inventory
<1>3. ASSUME NEW t \in Threads, PutsLease(t) \/ (DeletesLease(t) /\ lease[thread[t].call.l] # None)
      PROVE  node'[n] = "in_use"
  BY <1>3 DEF PutsLease, DeletesLease
<1>4. ASSUME NEW t \in Threads, FreesNode(t), node'[n] # "in_use"
      PROVE  Holding(t) /\ thread[t].at = "freeing" /\ thread[t].n = n
  BY <1>4, Freed, Freeing
<1> QED  BY <1>1, <1>2, <1>3, <1>4, StepsOfHolders DEF HolderStep, Passes, Sound

(* The assignment a request makes stays its own.                           *)
LEMMA FreshStep ==
  ASSUME Shape, Sound, [Next]_vars, ~raced'
  PROVE  Fresh'
<1>1. CASE Crash
  BY <1>1 DEF Crash, Free, Fresh
<1>2. CASE ~Crash
  <2>1. Given /\ Fresh /\ None \notin Nodes /\ None \notin Leases
    BY NodePoolAssumption DEF Sound
  <2>2. ASSUME NEW t \in Threads, thread[t].at = "put", thread'[t].at = "put", SameCall(t)
        PROVE  /\ lease'[thread'[t].call.l] \in {None, thread'[t].n}
               /\ thread'[t].leases # <<>> => lease'[thread'[t].call.l] # None
               /\ \A u \in Threads \ {t} : thread'[u].call.l # thread'[t].call.l
               /\ \A w \in Windows : window'[w].l # thread'[t].call.l
               /\ \A c \in calls' : c.l # thread'[t].call.l
    <3> DEFINE l == thread[t].call.l
    <3>1. l \in Leases /\ thread[t].n \in Nodes /\ l \in issued
      BY <2>1, <2>2, Requests DEF FieldsFit, Named, Given
    <3>2. thread'[t].call.l = l /\ thread'[t].n = thread[t].n
      BY <2>2 DEF SameCall
    <3>3. /\ lease[l] \in {None, thread[t].n}
          /\ thread[t].leases # <<>> => lease[l] # None
          /\ \A u \in Threads \ {t} : thread[u].call.l # l
          /\ \A w \in Windows : window[w].l # l
          /\ \A c \in calls : c.l # l
      BY <2>1, <2>2 DEF Fresh
    <3>4. lease'[l] = lease[l] \/ lease'[l] = thread[t].n
      BY <1>2, <2>2, <3>1, <3>3, LeasesOfSteps
    <3>5. PutsLease(t) => lease'[l] = thread[t].n
      BY <2>1, <2>2, <3>1, MadeLease DEF Shape, Objects, Store
    <3>6. thread'[t].leases # <<>> => lease'[l] # None
      BY <2>1, <2>2, <3>1, <3>3, <3>4, <3>5 DEF SameCall
    <3>7. \A u \in Threads \ {t} : thread'[u].call.l # l
      BY <2>1, <3>1, <3>3, CallsOfSteps DEF RequestStep, SameCall, CallEnds,
         CallBegins, GetsAssignment
    <3>8. ~AnswersAssignment(t)
      BY <2>2, Assigning DEF Becomes
    <3>9. \A w \in Windows : window'[w].l # l
      BY <2>1, <3>1, <3>3, <3>8, WindowsOfSteps
    <3>10. \A c \in calls' : c.l # l
      BY <2>1, <3>1, <3>3, NamesOfCalls
    <3> HIDE DEF l
    <3> QED
      BY <3>2, <3>3, <3>4, <3>6, <3>7, <3>9, <3>10
  <2>3. ASSUME NEW t \in Threads, GetsAssignment(t)
        PROVE  /\ lease'[thread'[t].call.l] \in {None, thread'[t].n}
               /\ thread'[t].leases = <<>>
               /\ \A u \in Threads \ {t} : thread'[u].call.l # thread'[t].call.l
               /\ \A w \in Windows : window'[w].l # thread'[t].call.l
               /\ \A c \in calls' : c.l # thread'[t].call.l
    <3> DEFINE l == thread'[t].call.l
    <3>1. l \in Leases /\ l \notin issued /\ l # None /\ Others(t) /\ thread'[t].leases = <<>>
      BY <2>1, <2>3 DEF GetsAssignment
    <3>2. lease' = lease /\ window' = window /\ calls' = calls
      BY <2>3 DEF GetsAssignment, WritesClaim
    <3> HIDE DEF l
    <3>3. /\ lease[l] = None
          /\ \A u \in Threads : thread[u].call.l # l
          /\ \A w \in Windows : window[w].l # l
          /\ \A c \in calls : c.l # l
      BY <2>1, <3>1 DEF Given
    <3> QED
      BY <3>1, <3>2, <3>3 DEF l, Others
  <2>4. ASSUME NEW t \in Threads, thread'[t].at \in {"bound", "putback"}, SameCall(t)
        PROVE  lease'[thread'[t].call.l] \in {None, thread'[t].n}
    <3> DEFINE l == thread[t].call.l
    <3>1. thread'[t].call.l = l /\ l \in Leases /\ thread[t].at \in Bound
      BY <2>4, Requests DEF SameCall, FieldsFit, Bound
    <3>2. lease[l] \in {None, thread'[t].n}
      BY <2>1, <2>4 DEF SameCall, Fresh
    <3>3. lease'[l] = lease[l] \/ lease'[l] = None
      BY <1>2, <2>1, <3>1, LeasesOfSteps DEF Fresh, Bound
    <3> QED
      BY <3>1, <3>2, <3>3
  <2>5. \A t \in Threads :
          /\ thread'[t].at = "put" =>
               GetsAssignment(t) \/ (SameCall(t) /\ thread[t].at = "put")
          /\ thread'[t].at \in {"bound", "putback"} => SameCall(t)
    BY CallsOfSteps DEF RequestStep, SameCall, CallEnds, CallBegins, GetsAssignment
  <2> QED
    BY <2>2, <2>3, <2>4, <2>5 DEF Fresh
<1> QED  BY <1>1, <1>2

(* The files stay safe to restart from.                                    *)
LEMMA FiledStep ==
  ASSUME Shape, Sound, [Next]_vars, ~raced'
  PROVE  Filed'
<1>1. CASE Crash
  BY <1>1 DEF Crash, Free, Filed, OneLeaseEach, Sound
<1>2. CASE ~Crash
  <2>1. /\ Filed /\ Exclusive /\ None \notin Nodes
        /\ lease \in Store /\ leaseFile \in Store /\ leaseFile' \in Store
    BY NodePoolAssumption, ShapeStep DEF Sound, Shape, Objects
  <2>2. /\ leaseFile' \in {leaseFile, lease} /\ nodeFile' \in {nodeFile, node}
    BY FilesOfSteps
  <2>3. OneLeaseEach(nodeFile', leaseFile')
    BY <2>1, <2>2 DEF Filed, Exclusive, OneLeaseEach
  <2>4. ASSUME NEW l \in Leases, leaseFile'[l] # None
        PROVE  node'[leaseFile'[l]] = "in_use"
    <3>1. leaseFile'[l] \in Nodes /\ node[leaseFile'[l]] = "in_use"
      BY <2>1, <2>2, <2>4 DEF Filed, Exclusive, OneLeaseEach, Store
    <3>2. ASSUME NEW u \in Threads, Holding(u), thread[u].at = "freeing"
          PROVE  thread[u].n # leaseFile'[l]
      BY <2>1, <2>2, <3>2 DEF Filed, Exclusive
    <3> QED
      BY <1>2, <3>1, <3>2, UseOfSteps
  <2>5. ASSUME NEW n \in Nodes, nodeFile[n] = "in_use", node[n] = "in_use"
        PROVE  nodeFile'[n] = "in_use"
    BY <2>2, <2>5
  <2>6. ASSUME NEW t \in Threads, thread[t].at = "put"
        PROVE  /\ thread[t].n \in Nodes
               /\ nodeFile[thread[t].n] = "in_use" /\ node[thread[t].n] = "in_use"
    <3>1. thread[t].n \in Nodes /\ thread[t].call.l \in Leases
      BY <2>6, Requests DEF FieldsFit, Named
    <3>2. Holding(t) \/ lease[thread[t].call.l] = thread[t].n
      BY <2>6 DEF Holding, Fresh, Sound
    <3> QED
      BY <2>1, <2>6, <3>1, <3>2 DEF Filed, Exclusive, OneLeaseEach
  <2>7. ASSUME NEW l \in Leases, lease'[l] # None
        PROVE  nodeFile'[lease'[l]] = "in_use"
    <3>1. CASE lease'[l] = lease[l]
      BY <2>1, <2>5, <2>7, <3>1 DEF Filed, Exclusive, OneLeaseEach, Store
    <3>2. ASSUME NEW u \in Threads, thread[u].at = "put", lease'[l] = thread[u].n
          PROVE  nodeFile'[lease'[l]] = "in_use"
      BY <2>5, <2>6, <3>2
    <3> QED
      BY <1>2, <2>7, <3>1, <3>2, LeasesOfSteps
  <2>8. ASSUME NEW t \in Threads, thread'[t].at = "freeing", NEW l \in Leases
        PROVE  leaseFile'[l] # thread'[t].n
    <3>1. thread'[t].n = thread[t].n /\ (thread[t].at = "freeing" \/ WritesDeletion(t))
      BY <2>8, CallsOfSteps DEF RequestStep, SameCall, CallEnds, CallBegins,
         GetsAssignment
    <3>2. CASE thread[t].at = "freeing"
      BY <2>1, <2>2, <3>1, <3>2 DEF Filed, Exclusive, Holding
    <3>3. CASE WritesDeletion(t)
      <4>1. leaseFile' = lease /\ thread[t].at = "deleted"
        BY <3>3 DEF WritesDeletion, WriteLeases, At
      <4> QED
        BY <2>1, <3>1, <4>1 DEF Exclusive, Holding
    <3> QED
      BY <3>1, <3>2, <3>3
  <2>9. ASSUME NEW t \in Threads, thread'[t].at = "put"
        PROVE  nodeFile'[thread'[t].n] = "in_use"
    <3>1. CASE SameCall(t)
      BY <2>5, <2>6, <2>9, <3>1 DEF SameCall
    <3>2. CASE GetsAssignment(t)
      <4>1. nodeFile' = node /\ thread[t].at = "took" /\ thread'[t].n = thread[t].n
        BY <3>2 DEF GetsAssignment, WritesClaim, WriteNodes
      <4> QED
        BY <2>1, <4>1 DEF Exclusive, Holding
    <3> QED
      BY <2>9, <3>1, <3>2, CallsOfSteps DEF RequestStep, CallEnds, CallBegins
  <2> QED
    BY <2>3, <2>4, <2>7, <2>8, <2>9 DEF Filed
<1> QED  BY <1>1, <1>2

(* The assignment of a window stays its own.                               *)
LEMMA AssignedStep ==
  ASSUME Shape, Sound, [Next]_vars, ~raced'
  PROVE  Assigned'
<1>1. CASE Crash
  BY <1>1, NodePoolAssumption DEF Crash, Free, NoCall, Assigned, Sound
<1>2. CASE ~Crash
  <2>1. Fresh /\ Given /\ Assigned /\ WindowShape /\ None \notin Nodes
    BY NodePoolAssumption DEF Sound, Shape
  <2>2. ASSUME NEW w \in Windows, window[w].l # None,
               window'[w].l = window[w].l, window'[w].n = window[w].n
        PROVE  /\ lease'[window'[w].l] = window'[w].n /\ leaseFile'[window'[w].l] = window'[w].n
               /\ window'[w].n # None
               /\ \A v \in Windows \ {w} : window'[v].l # window'[w].l
               /\ \A c \in calls' : c.op = "release" => c.l # window'[w].l
               /\ \A t \in Threads : thread'[t].at \in Ended => thread'[t].call.l # window'[w].l
    <3> DEFINE l == window[w].l
               n == window[w].n
    <3>1. /\ l \in Leases /\ lease[l] = n /\ leaseFile[l] = n /\ n # None
          /\ \A v \in Windows \ {w} : window[v].l # l
          /\ \A c \in calls : c.op = "release" => c.l # l
          /\ \A t \in Threads : thread[t].at \in Ended => thread[t].call.l # l
      BY <2>1, <2>2 DEF Assigned, WindowShape
    <3>2. \A t \in Threads : thread[t].at = "put" => thread[t].call.l # l
      BY <2>1 DEF Fresh
    <3>3. lease'[l] = n
      BY <1>2, <3>1, <3>2, LeasesOfSteps DEF Ended
    <3>4. leaseFile'[l] = n
      BY <3>1, FilesOfSteps
    <3>5. \A v \in Windows \ {w} : window'[v].l # l
      BY <2>2, <3>1, <3>2, WindowsOfSteps, Assigning
    <3>6. \A c \in calls' : c.op = "release" => c.l # l
      BY <2>2, <3>1, NamesOfCalls
    <3>7. \A t \in Threads : thread'[t].at \in Ended => thread'[t].call.l # l
      BY <2>2, <3>1, CallsOfSteps DEF RequestStep, SameCall, CallEnds,
         CallBegins, GetsAssignment, Ended
    <3> QED
      BY <2>2, <3>1, <3>3, <3>4, <3>5, <3>6, <3>7
  <2>3. ASSUME NEW w \in Windows, NEW u \in Threads, AnswersAssignment(u), w = thread[u].call.w,
               window'[w].l = thread[u].call.l, window'[w].n = thread[u].n, window'[w].l # window[w].l
        PROVE  /\ lease'[window'[w].l] = window'[w].n /\ leaseFile'[window'[w].l] = window'[w].n
               /\ window'[w].n # None
               /\ \A v \in Windows \ {w} : window'[v].l # window'[w].l
               /\ \A c \in calls' : c.op = "release" => c.l # window'[w].l
               /\ \A t \in Threads : thread'[t].at \in Ended => thread'[t].call.l # window'[w].l
    <3> DEFINE l == thread[u].call.l
    <3>1. /\ thread[u].at = "put" /\ thread[u].n \in Nodes /\ l \in Leases
          /\ Others(u) /\ thread'[u].at = "free"
      BY <2>3, Assigning DEF Becomes
    <3>2. /\ lease[l] \in {None, thread[u].n}
          /\ thread[u].leases # <<>> => lease[l] # None
          /\ \A t \in Threads \ {u} : thread[t].call.l # l
          /\ \A v \in Windows : window[v].l # l
          /\ \A c \in calls : c.l # l
      BY <2>1, <3>1 DEF Fresh
    <3>3. thread[u].leases # <<>> /\ lease' = lease /\ leaseFile' = lease /\ calls' = calls
      BY <2>3 DEF AnswersAssignment, WriteLeases
    <3>4. \A v \in Windows \ {w} : window'[v] = window[v]
      BY <2>3, Assigning
    <3> QED
      BY <2>1, <2>3, <3>1, <3>2, <3>3, <3>4 DEF Others, Ended
  <2>4. ASSUME NEW w \in Windows, window'[w].l # None
        PROVE  \/ window[w].l # None /\ window'[w].l = window[w].l /\ window'[w].n = window[w].n
               \/ \E u \in Threads : /\ AnswersAssignment(u) /\ w = thread[u].call.w
                                     /\ window'[w].l = thread[u].call.l
                                     /\ window'[w].n = thread[u].n
                                     /\ window'[w].l # window[w].l
    <3>1. \A u \in Threads : AnswersAssignment(u) => window[w].l # thread[u].call.l
      BY <2>1, Assigning DEF Fresh
    <3> QED
      BY <2>4, <3>1, WindowsOfSteps
  <2> QED
    BY <2>2, <2>3, <2>4 DEF Assigned
<1> QED  BY <1>1, <1>2

-----------------------------------------------------------------------------
IInv == Shape /\ (~raced => Sound)

LEMMA InitIInv ==
  ASSUME Init
  PROVE  IInv
<1>1. /\ /\ node \in Inventory /\ nodeFile \in Inventory /\ lease \in Store
      /\ leaseFile \in Store
      /\ issued = {} /\ calls = {}
  BY DEF Init, Inventory, States, Store, NoLeases
<1>2. Free \in Request /\ FieldsFit(Free)
  BY DEF Request, FieldsFit, Free, NoCall, ThreadPlaces, Asking, Bound, Ended, Named
<1>3. ThreadShape /\ MonitorShape
  BY <1>2 DEF Init, ThreadShape, MonitorShape, Resting
<1>4. WindowShape /\ crashes \in 0..MaxCrashes /\ raced = FALSE
  BY NodePoolAssumption, Closing DEF Init, WindowShape
<1>5. Shape
  BY <1>1, <1>3, <1>4 DEF Shape, Objects, CallShape, Counted
<1>6. Sound
  BY NodePoolAssumption DEF Init, Sound, Exclusive, OneLeaseEach, Holding,
     Probed, Given, Fresh,
     Filed, Assigned, Accounted, NoLeases, Free, NoCall, Resting, Closed, Ended
<1> QED  BY <1>5, <1>6 DEF IInv

LEMMA NextIInv ==
  ASSUME IInv, [Next]_vars
  PROVE  IInv'
<1>1. Shape /\ Shape'
  BY ShapeStep DEF IInv
<1>2. ASSUME ~raced'
      PROVE  Sound'
  <2>1. Sound
    BY <1>2, RacedStays DEF IInv
  <2>2. Exclusive' /\ Probed' /\ Given' /\ Fresh'
    BY <1>1, <1>2, <2>1, ExclusiveStep, ProbedStep, GivenStep, FreshStep
  <2>3. Filed' /\ Assigned' /\ Accounted'
    BY <1>1, <1>2, <2>1, FiledStep, AssignedStep, AccountedStep
  <2> QED
    BY <2>2, <2>3 DEF Sound
<1> QED  BY <1>1, <1>2 DEF IInv

LEMMA Invariance == Spec => []IInv
  BY InitIInv, NextIInv, PTL DEF Spec

(* Every place of a request, of the monitor and of a window goes with the  *)
(* fields it needs, whatever is lost, overtaken or raced.                  *)
THEOREM TypeCorrect == Spec => []TypeOK
<1>1. IInv => TypeOK
  BY DEF IInv, Shape, Objects, ThreadShape, CallShape, MonitorShape,
     WindowShape, Counted,
     Request, TypeOK
<1> QED  BY <1>1, Invariance, PTL

(* A leased node is in use under one lease, in memory and in the files     *)
(* alike, and no two windows have it (HotPoolAllocator, LeaseStore and the *)
(* bootstrap requests), as long as no access has overlapped another.       *)
THEOREM NodesExclusive == Spec => []NodesAreExclusive
<1>1. IInv => NodesAreExclusive
  <2> SUFFICES ASSUME IInv, ~raced
               PROVE  /\ OneLeaseEach(node, lease) /\ OneLeaseEach(nodeFile, leaseFile)
                      /\ \A w, v \in Windows :
                           w # v /\ window[w].n # None => window[w].n # window[v].n
    BY DEF NodesAreExclusive
  <2>1. /\ OneLeaseEach(node, lease) /\ OneLeaseEach(nodeFile, leaseFile)
        /\ Assigned /\ WindowShape
    BY DEF IInv, Sound, Exclusive, Filed, Shape
  <2>2. \A w \in Windows : window[w].n # None =>
          window[w].l \in Leases /\ window[w].l # None /\ lease[window[w].l] = window[w].n
    BY <2>1, NodePoolAssumption DEF Assigned, WindowShape
  <2>3. \A w, v \in Windows : w # v /\ window[w].l # None => window[w].l # window[v].l
    BY <2>1 DEF Assigned
  <2> QED
    BY <2>1, <2>2, <2>3 DEF OneLeaseEach
<1> QED  BY <1>1, Invariance, PTL

(* Without a crash a node in use is leased or in the hands of a request    *)
(* that is under way: no order of claims, releases, probes, retries and    *)
(* lost calls leaks one.                                                   *)
THEOREM OnlyCrashLeaks == Spec => []OnlyCrashLeaksNode
<1>1. IInv => OnlyCrashLeaksNode
  BY HolderNamesNode DEF IInv, Sound, Accounted, Leased, OnlyCrashLeaksNode
<1> QED  BY <1>1, Invariance, PTL

=============================================================================
