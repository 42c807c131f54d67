------------------------------ MODULE NodePool ------------------------------
(***************************************************************************)
(* The pool of worker nodes (diagnostic_platform/node_allocation.py), the  *)
(* bootstrap requests of the control plane that claim, bind and release    *)
(* its nodes (runtime/session_bootstrap.py, server/api/session.py), the    *)
(* monitor that promotes booting nodes, and the diagnostics windows that   *)
(* ask for nodes (vci_proxy/diagnostics_window.py).                        *)
(*                                                                         *)
(* The inventory and the leases are objects without a lock, each with a    *)
(* file that a request writes after it changed the object.  A request runs *)
(* in a thread; an action is one access, or one change with the snapshot   *)
(* that is then written.  The control plane may crash between any two and  *)
(* starts again from the files; a call or its answer may be lost.          *)
(*                                                                         *)
(* Left out: a file torn by a crash in the middle of a write, nodes that   *)
(* are unhealthy or draining (no code puts a node there), the fields of a  *)
(* node that describe it.  Rank stands for the zones and metros.           *)
(***************************************************************************)
EXTENDS Integers, FiniteSets

CONSTANTS
    Nodes,       \* node ids
    Hot,         \* the nodes in the inventory at first; others can be launched
    Windows,     \* diagnostics windows
    Rank,        \* how well a node fits a window: 0 its zone, 1 its metro, 2 neither
    Leases,      \* assignment ids, each given out once
    Threads,     \* threads of the control plane
    None,        \* no node, lease or window
    RetryLimit,  \* BOOTSTRAP_ASSIGNMENT_RETRY_LIMIT
    MaxCalls,    \* bound: windows call only while fewer calls wait
    MaxCrashes   \* bound on the crashes of the control plane

ASSUME NodePoolAssumption ==
    /\ None \notin Nodes \cup Leases \cup Windows
    /\ Hot \subseteq Nodes
    /\ Rank \in [Windows -> [Nodes -> 0..2]]
    /\ RetryLimit \in Nat /\ MaxCalls \in Nat /\ MaxCrashes \in Nat

VARIABLES
    node,       \* the inventory: the state of each node
    lease,      \* the lease store: the node of each lease
    nodeFile,   \* the file of the inventory
    leaseFile,  \* the file of the lease store
    issued,     \* assignment ids given out
    calls,      \* HTTP calls under way and not yet handled
    thread,     \* the request of each thread, where it is, and what it will write
    monitor,    \* the readiness monitor: where it is, its node, what it will write
    window,     \* what each window does, with which assignment
    crashes,
    raced       \* history: an access that assumed what had changed meanwhile

server == <<node, lease, nodeFile, leaseFile, issued>>
vars == <<server, calls, thread, monitor, window, crashes, raced>>

States == {"absent", "idle", "booting", "in_use"}
Inventory == [Nodes -> States]
Store == [Leases -> Nodes \cup {None}]
NoLeases == [l \in Leases |-> None]

Bootstrap(w) == [op |-> "bootstrap", w |-> w, l |-> None, to |-> "idle"]
Bind(w, l) == [op |-> "bind", w |-> w, l |-> l, to |-> "idle"]
Release(w, l, to) == [op |-> "release", w |-> w, l |-> l, to |-> to]
Calls == [op: {"bootstrap", "bind", "release"}, w: Windows, l: Leases \cup {None},
          to: {"idle", "booting"}]
NoCall == [op |-> "none", w |-> None, l |-> None, to |-> "idle"]

Free == [at |-> "free", call |-> NoCall, n |-> None, nodes |-> <<>>, leases |-> <<>>]
Resting == [at |-> "rest", n |-> None, nodes |-> <<>>]
Closed == [at |-> "closed", l |-> None, n |-> None, tries |-> 0]

ThreadPlaces == {"free", "select", "check", "take", "took", "full", "launch", "launched", "put",
                 "bind", "bound", "putback", "release", "deleted", "freeing", "freed"}

TypeOK ==
    /\ node \in Inventory /\ nodeFile \in Inventory
    /\ lease \in Store /\ leaseFile \in Store
    /\ issued \subseteq Leases
    /\ calls \subseteq Calls
    /\ \A t \in Threads :
        /\ thread[t].at \in ThreadPlaces /\ thread[t].call \in Calls \cup {NoCall}
        /\ thread[t].n \in Nodes \cup {None}
        /\ thread[t].nodes \in Inventory \cup {<<>>} /\ thread[t].leases \in Store \cup {<<>>}
    /\ monitor \in [at: {"rest", "probing", "writing"}, n: Nodes \cup {None},
                    nodes: Inventory \cup {<<>>}]
    /\ window \in [Windows -> [at: {"closed", "asking", "starting", "running"},
                               l: Leases \cup {None}, n: Nodes \cup {None},
                               tries: 0..RetryLimit]]
    /\ crashes \in 0..MaxCrashes /\ raced \in BOOLEAN

Init ==
    /\ node = [n \in Nodes |-> IF n \in Hot THEN "idle" ELSE "absent"]
    /\ nodeFile = node
    /\ lease = NoLeases /\ leaseFile = NoLeases
    /\ issued = {} /\ calls = {}
    /\ thread = [t \in Threads |-> Free]
    /\ monitor = Resting
    /\ window = [w \in Windows |-> Closed]
    /\ crashes = 0 /\ raced = FALSE

-----------------------------------------------------------------------------
(* Threads of the control plane.                                           *)

At(t, place) == thread[t].at = place
GoTo(t, place) == thread' = [thread EXCEPT ![t].at = place]
GoWith(t, place, n) == thread' = [thread EXCEPT ![t].at = place, ![t].n = n]
Answered(t) == thread' = [thread EXCEPT ![t] = Free]
HoldsNodes(t, place, n) ==
    thread' = [thread EXCEPT ![t].at = place, ![t].n = n, ![t].nodes = node']
HoldsLeases(t, place) ==
    thread' = [thread EXCEPT ![t].at = place, ![t].leases = lease']

(* A file that is written from a snapshot the object has left behind.      *)
WriteNodes(snapshot) ==
    /\ nodeFile' = snapshot
    /\ raced' = (raced \/ snapshot # node)
WriteLeases(snapshot) ==
    /\ leaseFile' = snapshot
    /\ raced' = (raced \/ snapshot # lease)

Accept(t, c) ==
    /\ At(t, "free") /\ c \in calls
    /\ calls' = calls \ {c}
    /\ thread' = [thread EXCEPT ![t].call = c,
           ![t].at = CASE c.op = "bootstrap" -> "select" [] OTHER -> c.op]
    /\ UNCHANGED <<server, monitor, window, crashes, raced>>

(* HotPoolAllocator.allocate: the idle node that fits best.                *)
Idle == {n \in Nodes : node[n] = "idle"}
Best(w) == {n \in Idle : \A m \in Idle : Rank[w][n] <= Rank[w][m]}

Selects(t) ==
    /\ At(t, "select")
    /\ IF Idle = {} THEN GoTo(t, "full")
       ELSE \E n \in Best(thread[t].call.w) : GoWith(t, "check", n)
    /\ UNCHANGED <<server, calls, monitor, window, crashes, raced>>

(* claim: the state is looked at, then set.                                *)
Claimable(n) == node[n] = "idle"

ChecksClaim(t) ==
    /\ At(t, "check")
    /\ GoTo(t, IF Claimable(thread[t].n) THEN "take" ELSE "full")
    /\ UNCHANGED <<server, calls, monitor, window, crashes, raced>>

Takes(t) ==
    LET n == thread[t].n IN
    /\ At(t, "take")
    /\ node' = [node EXCEPT ![n] = "in_use"]
    /\ raced' = (raced \/ node[n] # "idle")
    /\ HoldsNodes(t, "took", n)
    /\ UNCHANGED <<lease, nodeFile, leaseFile, issued, calls, monitor, window, crashes>>

WritesClaim(t) ==
    /\ At(t, "took")
    /\ WriteNodes(thread[t].nodes)
    /\ \E l \in Leases \ issued :
         /\ issued' = issued \cup {l}
         /\ thread' = [thread EXCEPT ![t].at = "put", ![t].nodes = <<>>, ![t].call.l = l]
    /\ UNCHANGED <<node, lease, leaseFile, calls, monitor, window, crashes>>

Puts(t, place) ==
    /\ lease' = [lease EXCEPT ![thread[t].call.l] = thread[t].n]
    /\ HoldsLeases(t, place)

PutsLease(t) ==
    /\ At(t, "put") /\ thread[t].leases = <<>>
    /\ Puts(t, "put")
    /\ UNCHANGED <<node, nodeFile, leaseFile, issued, calls, monitor, window, crashes, raced>>

(* The answer reaches the window, or its call has failed meanwhile.        *)
AnswersAssignment(t) ==
    LET w == thread[t].call.w IN
    /\ At(t, "put") /\ thread[t].leases # <<>>
    /\ WriteLeases(thread[t].leases)
    /\ Answered(t)
    /\ window' = IF window[w].at = "asking"
                 THEN [window EXCEPT ![w].at = "starting", ![w].l = thread[t].call.l,
                                     ![w].n = thread[t].n]
                 ELSE window
    /\ UNCHANGED <<node, lease, nodeFile, issued, calls, monitor, crashes>>

(* No idle node: wait for one that boots, launch one, or give up.          *)
Refuse(t) ==
    LET w == thread[t].call.w IN
    /\ Answered(t)
    /\ window' = IF window[w].at = "asking" THEN [window EXCEPT ![w] = Closed] ELSE window

NoCapacity(t) ==
    /\ At(t, "full")
    /\ \/ /\ (\E n \in Nodes : node[n] = "booting") \/ ~(\E n \in Nodes : node[n] = "absent")
          /\ Refuse(t)
       \/ /\ ~\E n \in Nodes : node[n] = "booting"
          /\ GoTo(t, "launch")
          /\ UNCHANGED window
    /\ UNCHANGED <<server, calls, monitor, crashes, raced>>

(* The cloud is asked for an instance, which takes a while.                *)
Launches(t) ==
    /\ At(t, "launch")
    /\ \E n \in Nodes :
         /\ node[n] = "absent"
         /\ node' = [node EXCEPT ![n] = "booting"]
         /\ HoldsNodes(t, "launched", n)
    /\ UNCHANGED <<lease, nodeFile, leaseFile, issued, calls, monitor, window, crashes, raced>>

WritesLaunch(t) ==
    /\ At(t, "launched")
    /\ WriteNodes(thread[t].nodes)
    /\ Refuse(t)
    /\ UNCHANGED <<node, lease, leaseFile, issued, calls, monitor, crashes>>

(* bind: the lease is read, its node written, the lease put back.          *)
ReadsLease(t) ==
    LET l == thread[t].call.l IN
    /\ At(t, "bind")
    /\ IF lease[l] = None THEN Answered(t)
       ELSE thread' = [thread EXCEPT ![t].at = "bound", ![t].n = lease[l], ![t].nodes = node]
    /\ UNCHANGED <<server, calls, monitor, window, crashes, raced>>

WritesBinding(t) ==
    /\ At(t, "bound")
    /\ WriteNodes(thread[t].nodes)
    /\ thread' = [thread EXCEPT ![t].at = "putback", ![t].nodes = <<>>]
    /\ UNCHANGED <<node, lease, leaseFile, issued, calls, monitor, window, crashes>>

PutsLeaseBack(t) ==
    /\ At(t, "putback") /\ thread[t].leases = <<>>
    /\ raced' = (raced \/ lease[thread[t].call.l] = None)
    /\ Puts(t, "putback")
    /\ UNCHANGED <<node, nodeFile, leaseFile, issued, calls, monitor, window, crashes>>

AnswersBinding(t) ==
    /\ At(t, "putback") /\ thread[t].leases # <<>>
    /\ WriteLeases(thread[t].leases)
    /\ Answered(t)
    /\ UNCHANGED <<node, lease, nodeFile, issued, calls, monitor, window, crashes>>

(* release: the lease goes first, then the node is given back.             *)
DeletesLease(t) ==
    LET l == thread[t].call.l IN
    /\ At(t, "release")
    /\ IF lease[l] = None THEN Answered(t) /\ UNCHANGED lease
       ELSE /\ lease' = [lease EXCEPT ![l] = None]
            /\ thread' = [thread EXCEPT ![t].at = "deleted", ![t].n = lease[l],
                                        ![t].leases = lease']
    /\ UNCHANGED <<node, nodeFile, leaseFile, issued, calls, monitor, window, crashes, raced>>

\* Variant: the deletion is not saved.
ForgetsDeletion(t) ==
    /\ At(t, "deleted")
    /\ thread' = [thread EXCEPT ![t].at = "freeing", ![t].leases = <<>>]
    /\ UNCHANGED <<server, calls, monitor, window, crashes, raced>>

WritesDeletion(t) ==
    /\ At(t, "deleted")
    /\ WriteLeases(thread[t].leases)
    /\ thread' = [thread EXCEPT ![t].at = "freeing", ![t].leases = <<>>]
    /\ UNCHANGED <<node, lease, nodeFile, issued, calls, monitor, window, crashes>>

\* Variant: the node stays as it is.
FreesNothing(t) ==
    /\ At(t, "freeing")
    /\ thread' = [thread EXCEPT ![t].at = "freed", ![t].nodes = node]
    /\ UNCHANGED <<server, calls, monitor, window, crashes, raced>>

FreesNode(t) ==
    /\ At(t, "freeing")
    /\ node' = [node EXCEPT ![thread[t].n] = thread[t].call.to]
    /\ HoldsNodes(t, "freed", thread[t].n)
    /\ UNCHANGED <<lease, nodeFile, leaseFile, issued, calls, monitor, window, crashes, raced>>

AnswersRelease(t) ==
    /\ At(t, "freed")
    /\ WriteNodes(thread[t].nodes)
    /\ Answered(t)
    /\ UNCHANGED <<node, lease, leaseFile, issued, calls, monitor, window, crashes>>

ThreadStep(t) ==
    \/ Selects(t) \/ ChecksClaim(t) \/ Takes(t) \/ WritesClaim(t) \/ PutsLease(t)
    \/ AnswersAssignment(t) \/ NoCapacity(t)
    \/ Launches(t) \/ WritesLaunch(t)
    \/ ReadsLease(t) \/ WritesBinding(t) \/ PutsLeaseBack(t) \/ AnswersBinding(t)
    \/ DeletesLease(t) \/ WritesDeletion(t) \/ FreesNode(t) \/ AnswersRelease(t)

-----------------------------------------------------------------------------
(* BootingNodeReadinessMonitor: a booting node, its probe, mark_ready.     *)

\* Variant: any node is probed.
ProbesAny(n) ==
    /\ monitor.at = "rest" /\ node[n] # "absent"
    /\ monitor' = [monitor EXCEPT !.at = "probing", !.n = n]
    /\ UNCHANGED <<server, calls, thread, window, crashes, raced>>

Probes(n) ==
    /\ monitor.at = "rest" /\ node[n] = "booting"
    /\ monitor' = [monitor EXCEPT !.at = "probing", !.n = n]
    /\ UNCHANGED <<server, calls, thread, window, crashes, raced>>

IsNotReady ==
    /\ monitor.at = "probing"
    /\ monitor' = Resting
    /\ UNCHANGED <<server, calls, thread, window, crashes, raced>>

MarksReady ==
    /\ monitor.at = "probing"
    /\ node' = [node EXCEPT ![monitor.n] = "idle"]
    /\ monitor' = [monitor EXCEPT !.at = "writing", !.nodes = node']
    /\ UNCHANGED <<lease, nodeFile, leaseFile, issued, calls, thread, window, crashes, raced>>

WritesReady ==
    /\ monitor.at = "writing"
    /\ WriteNodes(monitor.nodes)
    /\ monitor' = Resting
    /\ UNCHANGED <<node, lease, leaseFile, issued, calls, thread, window, crashes>>

-----------------------------------------------------------------------------
(* The windows.  Each call is made by a thread of its own.                 *)

MayCall == Cardinality(calls) < MaxCalls

AsksForNode(w) ==
    /\ MayCall /\ window[w].at = "closed"
    /\ window' = [window EXCEPT ![w].at = "asking"]
    /\ calls' = calls \cup {Bootstrap(w)}
    /\ UNCHANGED <<server, thread, monitor, crashes, raced>>

(* No answer in time, or none at all.                                      *)
HearsNothing(w) ==
    /\ window[w].at = "asking"
    /\ window' = [window EXCEPT ![w] = Closed]
    /\ UNCHANGED <<server, calls, thread, monitor, crashes, raced>>

StartsSession(w) ==
    /\ MayCall /\ window[w].at = "starting"
    /\ window' = [window EXCEPT ![w].at = "running"]
    /\ calls' = calls \cup {Bind(w, window[w].l)}
    /\ UNCHANGED <<server, thread, monitor, crashes, raced>>

(* The assigned node does not respond: it is given back to be probed and   *)
(* another is asked for; the two calls may overtake each other.            *)
\* Variant: the retries are not counted down.
RetriesAgain(w) ==
    /\ MayCall /\ window[w].at = "starting"
    /\ window' = [window EXCEPT ![w] = [at |-> "asking", l |-> None, n |-> None,
                                        tries |-> window[w].tries + 1]]
    /\ calls' = calls \cup {Release(w, window[w].l, "booting"), Bootstrap(w)}
    /\ UNCHANGED <<server, thread, monitor, crashes, raced>>

RetriesBootstrap(w) ==
    /\ MayCall /\ window[w].at = "starting" /\ window[w].tries < RetryLimit
    /\ window' = [window EXCEPT ![w] = [at |-> "asking", l |-> None, n |-> None,
                                        tries |-> window[w].tries + 1]]
    /\ calls' = calls \cup {Release(w, window[w].l, "booting"), Bootstrap(w)}
    /\ UNCHANGED <<server, thread, monitor, crashes, raced>>

(* The session could not be started, or is over.                           *)
ReleasesNode(w) ==
    /\ MayCall /\ window[w].at \in {"starting", "running"}
    /\ window' = [window EXCEPT ![w] = Closed]
    /\ calls' = calls \cup {Release(w, window[w].l, "idle")}
    /\ UNCHANGED <<server, thread, monitor, crashes, raced>>

IsLost(c) ==
    /\ c \in calls
    /\ calls' = calls \ {c}
    /\ UNCHANGED <<server, thread, monitor, window, crashes, raced>>

(* The control plane restarts from its files.                              *)
Crash ==
    /\ crashes < MaxCrashes
    /\ crashes' = crashes + 1
    /\ node' = nodeFile /\ lease' = leaseFile
    /\ thread' = [t \in Threads |-> Free]
    /\ monitor' = Resting
    /\ UNCHANGED <<nodeFile, leaseFile, issued, calls, window, raced>>

Next ==
    \/ \E t \in Threads : ThreadStep(t) \/ \E c \in calls : Accept(t, c)
    \/ (\E n \in Nodes : Probes(n)) \/ IsNotReady \/ MarksReady \/ WritesReady
    \/ \E w \in Windows : AsksForNode(w) \/ HearsNothing(w) \/ StartsSession(w)
                          \/ RetriesBootstrap(w) \/ ReleasesNode(w)
    \/ \E c \in calls : IsLost(c)
    \/ Crash

Spec == Init /\ [][Next]_vars

-----------------------------------------------------------------------------
(* Properties.                                                             *)

OneLeaseEach(nodes, leases) ==
    \A l \in Leases : leases[l] # None =>
        /\ nodes[leases[l]] = "in_use"
        /\ \A k \in Leases \ {l} : leases[k] # leases[l]

(* A leased node is in use and has no other lease, so no allocation takes  *)
(* it, and two windows never run sessions on one node: before and after a  *)
(* crash, whatever calls are lost or overtaken.  The two files, written one*)
(* after the other, say the same at any moment: claim writes the node      *)
(* before its lease, release the lease first.  The one exception is an     *)
(* access that overlapped another (raced).                                 *)
NodesAreExclusive ==
    ~raced =>
        /\ OneLeaseEach(node, lease) /\ OneLeaseEach(nodeFile, leaseFile)
        /\ \A w, v \in Windows :
               w # v /\ window[w].n # None => window[w].n # window[v].n

(* A node in use that no lease names is being claimed or given back, or a  *)
(* crash has left it so.                                                   *)
OnlyCrashLeaksNode ==
    ~raced /\ crashes = 0 => \A n \in Nodes :
        node[n] = "in_use" =>
            \/ \E l \in Leases : lease[l] = n
            \/ \E t \in Threads : thread[t].n = n /\ thread[t].at # "free"

(* agent_docs/ops/aws_local_zone_node_allocation.md has the allocator find *)
(* an idle node and "Lock node as allocating": it has one lease at most.   *)
LeaseIsExclusive ==
    \A l, k \in Leases : l # k /\ lease[l] # None => lease[l] # lease[k]
=============================================================================
