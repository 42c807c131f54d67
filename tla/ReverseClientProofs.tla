------------------------ MODULE ReverseClientProofs ------------------------
(***************************************************************************)
(* Proofs about ReverseClient, for any handles and any number of           *)
(* connections, requests and crashes.                                      *)
(*                                                                         *)
(* The inductive invariant has named parts: Shape (places, types, counts,  *)
(* calls), Fresh, Cleaned, Stopped, Told, Closes and Safe.  Each has a     *)
(* lemma with one step per action.  Handles come last: Owned says who has  *)
(* which, and every action passes them on, obtains, gives up or loses one. *)
(***************************************************************************)
EXTENDS ReverseClient, TLAPS

Two == {"main", "quit"}
Heard == {"asked", "block", "blocked", "done"} \cup Cleaning
Young == {"made", "loading"}
Working == {"serving", "calling", "await_prewarm"}
Between == {"top", "connecting", "registering", "backoff"}
Warming == task \in {"made", "opens"}

MainPlaces ==
    Young \cup Between \cup Working \cup Cleaning \cup {"block", "blocked", "ended", "no_token"}
QuitPlaces == Heard \cup {"none", "missed"}

(* The places of main and of shutdown.                                     *)
Placed ==
    /\ DOMAIN at = Two
    /\ at["main"] \in MainPlaces
    /\ at["quit"] \in QuitPlaces

(* The types of the rest.                                                  *)
Typed ==
    /\ running \in BOOLEAN /\ held \in BOOLEAN /\ cached \in BOOLEAN /\ driver \in BOOLEAN
    /\ leaving \in {"no", "raised", "final"}
    /\ link \in {"none", "up", "lost"}
    /\ task \in {"none", "made", "opens", "cut", "over", "done"}
    /\ prewarm \in Handle
    /\ worker \in {"none", "up", "gone"}
    /\ open \subseteq Devices /\ given \subseteq Devices /\ lost \subseteq Devices
    /\ links \in 0..MaxLinks /\ requests \in 0..MaxRequests /\ crashes \in 0..MaxCrashes

(* Every connection makes one task, so that one open at most is orphaned   *)
(* by each.                                                                *)
Bounded ==
    /\ orphans \in Nat
    /\ orphans + (IF Warming THEN 1 ELSE 0)
               + (IF at["main"] = "registering" THEN 1 ELSE 0) <= links

(* Who waits for the driver: nobody but main and shutdown at the places    *)
(* where they call it, and the task that opens.                            *)
CallTyped ==
    call \in [Who -> [at: {"none", "sent", "answered", "raised"}, op: Ops,
                      dev: Handle, ok: BOOLEAN]]

HasHandle(c) ==
    \/ c.op = "close"
    \/ c.at = "answered" /\ c.op = "open" /\ c.ok
    => c.dev # NoDevice

Calling ==
    /\ call["main"].at # "none" <=> at["main"] \in {"calling", "await_release"}
    /\ call["quit"].at # "none" <=> at["quit"] = "await_release"
    /\ call["task"].at # "none" <=> task = "opens"
    /\ task = "opens" => call["task"].op = "open"
    /\ at["main"] = "await_release" => call["main"].op = "close"
    /\ at["quit"] = "await_release" => call["quit"].op = "close"
    /\ call["main"].at = "none" => call["main"].op = "ioctl"
    /\ \A w \in Who : HasHandle(call[w])

Shape == Placed /\ Typed /\ Bounded /\ CallTyped /\ Calling

(* Nothing has happened before the driver is loaded.                       *)
Fresh ==
    at["main"] \in Young =>
        /\ at["quit"] \in {"none", "missed"} /\ worker = "none" /\ task = "none"
        /\ given = {} /\ leaving = "no" /\ ~running /\ ~held /\ ~cached
        /\ ~driver /\ prewarm = NoDevice

(* A task and a pre-warmed handle are gone when main has cleaned up, and   *)
(* the cache is empty between connections.                                 *)
Cleaned ==
    /\ Warming => held /\ prewarm = NoDevice
    /\ held => at["main"] \in Working \cup {"cancel"}
    /\ at["main"] \in Between \cup {"close", "block", "blocked", "await_release"}
         => prewarm = NoDevice
    /\ at["main"] \in Between => ~cached

(* Whoever takes the driver stops its worker before main ends.             *)
Stopped ==
    /\ worker # "up" => open = {}
    /\ at["main"] # "blocked" \/ at["quit"] # "blocked"
    /\ at["main"] = "blocked" \/ at["quit"] = "blocked" => ~driver
    /\ IsUp /\ ~driver /\ at["main"] # "blocked" /\ at["quit"] # "blocked" => worker = "gone"
    /\ IsUp => worker # "none"
    /\ at["main"] = "ended" => worker # "up"

(* Nothing but a stop that is heard ends a client that is up.              *)
Told ==
    /\ at["main"] = "no_token" => at["quit"] \in {"none", "missed"}
    /\ IsUp /\ (~running \/ leaving # "no") => at["quit"] \in Heard
    /\ at["main"] = "await_prewarm" /\ task \in {"cut", "over"} => at["quit"] \in Heard
    /\ at["main"] \in {"block", "blocked"} => leaving = "final"

(* The call has its handle to itself: it closes it, or has just opened it. *)
Grip(c) ==
    \/ c.op = "close" /\ c.at \in {"sent", "raised"}
    \/ c.op = "open" /\ c.at = "answered" /\ c.ok

(* Who has handles: the cloud, the pre-warm, and the calls.                *)
Owners == Who \cup {"kept", "prewarm"}
Holds(o) ==
    CASE o = "kept" -> Kept
      [] o = "prewarm" -> {prewarm} \ {NoDevice}
      [] OTHER -> IF Grip(call[o]) THEN {call[o].dev} ELSE {}

(* Every handle that somebody has is open, nobody else has it, and what is *)
(* open somebody has, unless it was lost in a way that has a name.         *)
Owned ==
    /\ \A o \in Owners : Holds(o) \subseteq open
    /\ \A o, q \in Owners : o # q => Holds(o) \cap Holds(q) = {}
    /\ \A d \in open : d \in lost \/ \E o \in Owners : d \in Holds(o)

(* What main closes is closed, and a pre-warmed handle was not given.      *)
MainCloses ==
    /\ at["main"] = "calling" /\ call["main"].op = "close" /\ call["main"].at = "answered"
        => call["main"].ok
    /\ at["main"] = "await_release" => call["main"].dev \notin given

(* What the cloud asks to close it was given.                              *)
Closes ==
    at["main"] = "calling" /\ call["main"].op = "close" => call["main"].dev \in given

(* A step that leaves the handles and the calls alone.                     *)
Still ==
    /\ UNCHANGED <<call, worker, open, given, lost, prewarm>>
    /\ at'["main"] \in {"calling", "await_release"} => at'["main"] = at["main"]

(* What is proved of a worker that is up; the others have nothing open.    *)
Safe == worker = "up" => Owned /\ MainCloses

-----------------------------------------------------------------------------
(* What the shared pieces of the actions do.                               *)

LEMMA Moved ==
  ASSUME Placed, NEW w \in Two, NEW p, Moves(w, p)
  PROVE  /\ DOMAIN at' = Two /\ at'[w] = p
         /\ \A v \in Two : v # w => at'[v] = at[v]
  BY DEF Placed, Moves

LEMMA Names ==
  {"open", "close", "ioctl"} \subseteq Ops /\ NoDevice \in Handle /\ Devices \subseteq Handle
  BY DEF Ops, Handle

LEMMA Quieted ==
  ASSUME CallTyped, NEW w \in Who, call' = [call EXCEPT ![w] = Quiet]
  PROVE  /\ CallTyped' /\ call'[w].at = "none" /\ call'[w].op = "ioctl" /\ HasHandle(call'[w])
         /\ \A v \in Who : v # w => call'[v] = call[v]
<1>1. Quiet \in [at: {"none", "sent", "answered", "raised"}, op: Ops, dev: Handle, ok: BOOLEAN]
  BY DEF Quiet, Ops, Handle
<1> QED  BY <1>1 DEF CallTyped, Quiet, HasHandle

LEMMA Sending ==
  ASSUME CallTyped, NEW w \in Who, NEW op \in Ops, NEW d \in Handle, Sends(w, op, d)
  PROVE  /\ CallTyped' /\ call'[w].at = IF driver /\ worker = "up" THEN "sent" ELSE "raised"
         /\ call'[w].op = op /\ call'[w].dev = d
         /\ (op = "close" => d # NoDevice) => HasHandle(call'[w])
         /\ \A v \in Who : v # w => call'[v] = call[v]
<1> DEFINE c == [Quiet EXCEPT !.op = op, !.dev = d,
                 !.at = IF driver /\ worker = "up" THEN "sent" ELSE "raised"]
<1>1. /\ c.op = op /\ c.dev = d
      /\ c.at = IF driver /\ worker = "up" THEN "sent" ELSE "raised"
  BY DEF Quiet
<1>2. c \in [at: {"none", "sent", "answered", "raised"}, op: Ops, dev: Handle, ok: BOOLEAN]
  BY DEF Quiet
<1>3. call' = [call EXCEPT ![w] = c]
  BY DEF Sends
<1> HIDE DEF c
<1> QED  BY <1>1, <1>2, <1>3 DEF CallTyped, HasHandle

LEMMA Answering ==
  ASSUME CallTyped, NEW w \in Who, NEW d \in Handle, NEW ok \in BOOLEAN, Answers(w, d, ok)
  PROVE  /\ CallTyped' /\ call'[w].at = "answered" /\ call'[w].op = call[w].op
         /\ call'[w].dev = d /\ call'[w].ok = ok
         /\ \A v \in Who : v # w => call'[v] = call[v]
  BY DEF CallTyped, Answers

LEMMA Raising ==
  ASSUME CallTyped, NEW w \in Who, call' = [call EXCEPT ![w].at = "raised"]
  PROVE  /\ CallTyped' /\ call'[w].at = "raised" /\ call'[w].op = call[w].op
         /\ call'[w].dev = call[w].dev
         /\ \A v \in Who : v # w => call'[v] = call[v]
  BY DEF CallTyped

LEMMA Going ==
  ASSUME CallTyped, WorkerGoes
  PROVE  /\ CallTyped'
         /\ \A w \in Who : /\ call'[w].op = call[w].op /\ call'[w].dev = call[w].dev
                           /\ call'[w].ok = call[w].ok
                           /\ call[w].at # "sent" => call'[w].at = call[w].at
                           /\ call[w].at = "sent" => call'[w].at = "raised"
  BY DEF CallTyped, WorkerGoes


LEMMA Served ==
  ASSUME CallTyped, NEW w \in Who, Serves(w)
  PROVE  /\ CallTyped' /\ call[w].at = "sent" /\ worker = "up"
         /\ call'[w].op = call[w].op
         /\ \A v \in Who : v # w => call'[v] = call[v]
         /\ \/ /\ call[w].op = "open" /\ call'[w].at = "answered" /\ call'[w].ok
               /\ call'[w].dev \in Devices \ open /\ open' = open \cup {call'[w].dev}
            \/ /\ call[w].op = "close" /\ call'[w].at = "answered" /\ call'[w].ok
               /\ call'[w].dev = call[w].dev /\ open' = open \ {call[w].dev}
            \/ /\ call[w].op = "ioctl" /\ call'[w].at = "answered" /\ open' = open
            \/ /\ call[w].op = "close" => call[w].dev \notin open
               /\ call'[w].at = "answered" /\ ~call'[w].ok
               /\ call'[w].dev = call[w].dev /\ open' = open
            \/ call'[w].at = "raised" /\ call'[w].dev = call[w].dev /\ open' = open
<1>1. call[w].dev \in Handle /\ NoDevice \in Handle /\ Devices \subseteq Handle
  BY DEF CallTyped, Handle
<1>2. CASE /\ call[w].op = "open"
           /\ \E d \in Devices \ open : open' = open \cup {d} /\ Answers(w, d, TRUE)
  BY <1>1, <1>2, Answering DEF Serves
<1>3. CASE /\ call[w].op = "close" /\ call[w].dev \in open
           /\ open' = open \ {call[w].dev} /\ Answers(w, call[w].dev, TRUE)
  BY <1>1, <1>3, Answering DEF Serves
<1>4. CASE call[w].op = "ioctl" /\ Answers(w, NoDevice, TRUE) /\ open' = open
  BY <1>1, <1>4, Answering DEF Serves
<1>5. CASE /\ call[w].op = "close" => call[w].dev \notin open
           /\ Answers(w, call[w].dev, FALSE) /\ open' = open
  BY <1>1, <1>5, Answering DEF Serves
<1>6. CASE call' = [call EXCEPT ![w].at = "raised"] /\ open' = open
  BY <1>6, Raising DEF Serves
<1> QED
  BY <1>2, <1>3, <1>4, <1>5, <1>6 DEF Serves


-----------------------------------------------------------------------------

(* Every step leads to a place.                                            *)
LEMMA PlacedStep ==
  ASSUME Placed, [Next]_vars
  PROVE  Placed'
<1> USE DEF Placed, Two, MainPlaces, QuitPlaces, Cleaning, Heard, Young, Working,
      Between, Moves
<1>1. CASE Starts
  BY <1>1 DEF Starts
<1>2. CASE FailsToLoad
  BY <1>2 DEF FailsToLoad
<1>3. CASE LacksToken
  BY <1>3 DEF LacksToken
<1>4. CASE ComesUp
  BY <1>4 DEF ComesUp
<1>5. CASE Connects
  BY <1>5 DEF Connects, Turns, OnlyMain
<1>6. CASE LeavesLoop
  BY <1>6 DEF LeavesLoop, Turns, OnlyMain
<1>7. CASE NotRegistered
  BY <1>7 DEF NotRegistered, Turns, OnlyMain
<1>8. CASE Registered
  BY <1>8 DEF Registered, Turns
<1>9. CASE EndsService
  BY <1>9 DEF EndsService, Turns, OnlyMain
<1>10. CASE PrewarmAwaited
  BY <1>10 DEF PrewarmAwaited, Opens
<1>11. CASE Answered
  BY <1>11 DEF Answered, Quiet
<1>12. CASE CallRaises
  BY <1>12 DEF CallRaises, Quiet
<1>13. CASE Wakes
  BY <1>13 DEF Wakes, Turns, OnlyMain
<1>14. CASE CleansUp
  BY <1>14 DEF CleansUp
<1>15. CASE TaskRuns
  BY <1>15 DEF TaskRuns
<1>16. CASE TaskEnds
  BY <1>16 DEF TaskEnds, Quiet
<1>17. CASE CutTaskEnds
  BY <1>17 DEF CutTaskEnds
<1>18. CASE QuitBegins
  BY <1>18 DEF QuitBegins
<1>19. CASE Refused
  BY <1>19 DEF Refused, Turns, OnlyMain
<1>20. CASE Connected
  BY <1>20 DEF Connected, Turns
<1>21. CASE TunnelBreaks
  BY <1>21 DEF TunnelBreaks
<1>22. CASE HandleOpen
  BY <1>22 DEF HandleOpen, Requested, Opens
<1>23. CASE HandleClose
  BY <1>23 DEF HandleClose, Requested
<1>24. CASE HandleIoctl
  BY <1>24 DEF HandleIoctl, Requested
<1>25. CASE ServesOrphan
  BY <1>25 DEF ServesOrphan
<1>26. CASE WorkerCrashes
  BY <1>26 DEF WorkerCrashes, WorkerGoes
<1>27. CASE Stop
  BY <1>27 DEF Stop
<1>28. ASSUME NEW who \in Two, Cancels(who)
      PROVE  Placed'
  BY <1>28 DEF Cancels, Quiet
<1>29. ASSUME NEW who \in Two, IsCancelled(who)
      PROVE  Placed'
  BY <1>29 DEF IsCancelled
<1>30. ASSUME NEW who \in Two, Releases(who)
      PROVE  Placed'
  BY <1>30 DEF Releases
<1>31. ASSUME NEW who \in Two, IsReleased(who)
      PROVE  Placed'
  BY <1>31 DEF IsReleased, Quiet
<1>32. ASSUME NEW who \in Two, ClosesTunnel(who)
      PROVE  Placed'
  BY <1>32 DEF ClosesTunnel
<1>33. ASSUME NEW who \in Two, StopsWorker(who)
      PROVE  Placed'
  BY <1>33 DEF StopsWorker, Finished
<1>34. ASSUME NEW who \in Two, WorkerStops(who)
      PROVE  Placed'
  BY <1>34 DEF WorkerStops, WorkerGoes, Finished
<1>35. ASSUME NEW who \in Who, Serves(who)
      PROVE  Placed'
  BY <1>35 DEF Serves
<1>36. CASE UNCHANGED vars
  BY <1>36 DEF vars
<1> QED
  BY <1>1, <1>2, <1>3, <1>4, <1>5, <1>6, <1>7, <1>8, <1>9, <1>10, <1>11,
     <1>12, <1>13, <1>14, <1>15, <1>16, <1>17, <1>18, <1>19, <1>20, <1>21,
     <1>22, <1>23, <1>24, <1>25, <1>26, <1>27, <1>28, <1>29, <1>30, <1>31,
     <1>32, <1>33, <1>34, <1>35, <1>36 DEF Next, Main, Task, Cleanup, Two

(* Every step keeps the types.                                             *)
LEMMA TypedStep ==
  ASSUME Shape, [Next]_vars
  PROVE  Typed'
<1> USE ReverseClientAssumption DEF Shape, Typed, CallTyped, Two, Who, Handle,
        counters, handles, warm
<1>1. CASE Starts
  BY <1>1 DEF Starts
<1>2. CASE FailsToLoad
  BY <1>2 DEF FailsToLoad
<1>3. CASE LacksToken
  BY <1>3 DEF LacksToken
<1>4. CASE ComesUp
  BY <1>4 DEF ComesUp
<1>5. CASE Connects
  BY <1>5 DEF Connects, Turns, OnlyMain
<1>6. CASE LeavesLoop
  BY <1>6 DEF LeavesLoop, Turns, OnlyMain
<1>7. CASE NotRegistered
  BY <1>7 DEF NotRegistered, Turns, OnlyMain
<1>8. CASE Registered
  BY <1>8 DEF Registered, Turns
<1>9. CASE EndsService
  BY <1>9 DEF EndsService, Turns, OnlyMain
<1>10. CASE PrewarmAwaited
  BY <1>10 DEF PrewarmAwaited, Opens
<1>11. CASE Answered
  <2>1. call["main"].dev \in Devices \/ call["main"].op # "open" \/ ~call["main"].ok
    BY <1>11 DEF Answered, CallTyped, Calling, HasHandle, Handle
  <2>2. given' \subseteq Devices
    BY <1>11, <2>1 DEF Answered
  <2> QED
    BY <1>11, <2>2 DEF Answered
<1>12. CASE CallRaises
  BY <1>12 DEF CallRaises, Quiet
<1>13. CASE Wakes
  BY <1>13 DEF Wakes, Turns, OnlyMain
<1>14. CASE CleansUp
  BY <1>14 DEF CleansUp
<1>15. CASE TaskRuns
  BY <1>15 DEF TaskRuns
<1>16. CASE TaskEnds
  BY <1>16 DEF TaskEnds, Quiet
<1>17. CASE CutTaskEnds
  BY <1>17 DEF CutTaskEnds
<1>18. CASE QuitBegins
  <2>1. /\ running' = FALSE
        /\ UNCHANGED <<leaving, link, warm, cached, driver, worker, handles, counters>>
    BY <1>18 DEF QuitBegins
  <2> HIDE DEF Shape, Typed, CallTyped
  <2>2. /\ running' \in BOOLEAN /\ held' \in BOOLEAN /\ cached' \in BOOLEAN /\ driver' \in BOOLEAN
        /\ leaving' = leaving /\ link' = link /\ task' = task /\ prewarm' = prewarm
        /\ worker' = worker /\ open' = open /\ given' = given /\ lost' = lost
        /\ links' = links /\ requests' = requests /\ crashes' = crashes
    BY <2>1 DEF Shape, Typed
  <2> QED
    BY <2>2 DEF Shape, Typed
<1>19. CASE Refused
  BY <1>19 DEF Refused, Turns, OnlyMain
<1>20. CASE Connected
  BY <1>20 DEF Connected, Turns
<1>21. CASE TunnelBreaks
  BY <1>21 DEF TunnelBreaks
<1>22. CASE HandleOpen
  <2>1. given' \subseteq Devices
    BY <1>22 DEF HandleOpen, Opens
  <2>2. prewarm' \in Handle /\ held' \in BOOLEAN /\ task' = task
    BY <1>22 DEF HandleOpen, Opens
  <2>3. requests' \in 0..MaxRequests /\ links' = links /\ crashes' = crashes
    <3>1. requests < MaxRequests /\ requests' = requests + 1
      BY <1>22 DEF HandleOpen, Requested
    <3>2. links' = links /\ crashes' = crashes
      BY <1>22 DEF HandleOpen
    <3> QED
      BY <3>1, <3>2
  <2> QED
    BY <1>22, <2>1, <2>2, <2>3 DEF HandleOpen
<1>23. CASE HandleClose
  BY <1>23 DEF HandleClose, Requested
<1>24. CASE HandleIoctl
  BY <1>24 DEF HandleIoctl, Requested
<1>25. CASE ServesOrphan
  BY <1>25 DEF ServesOrphan
<1>26. CASE WorkerCrashes
  BY <1>26 DEF WorkerCrashes, WorkerGoes
<1>27. CASE Stop
  BY <1>27 DEF Stop
<1>28. ASSUME NEW who \in Two, Cancels(who)
      PROVE  Typed'
  <2>1. lost' \subseteq Devices
    BY <1>28 DEF Cancels, Calling, CallTyped, HasHandle
  <2>2. task' \in {"none", "made", "opens", "cut", "over", "done"}
    BY <1>28 DEF Cancels
  <2> QED
    BY <1>28, <2>1, <2>2 DEF Cancels
<1>29. ASSUME NEW who \in Two, IsCancelled(who)
      PROVE  Typed'
  BY <1>29 DEF IsCancelled
<1>30. ASSUME NEW who \in Two, Releases(who)
      PROVE  Typed'
  BY <1>30 DEF Releases
<1>31. ASSUME NEW who \in Two, IsReleased(who)
      PROVE  Typed'
  BY <1>31 DEF IsReleased, Quiet
<1>32. ASSUME NEW who \in Two, ClosesTunnel(who)
      PROVE  Typed'
  BY <1>32 DEF ClosesTunnel
<1>33. ASSUME NEW who \in Two, StopsWorker(who)
      PROVE  Typed'
  BY <1>33 DEF StopsWorker, Finished
<1>34. ASSUME NEW who \in Two, WorkerStops(who)
      PROVE  Typed'
  BY <1>34 DEF WorkerStops, WorkerGoes, Finished
<1>35. ASSUME NEW who \in Who, Serves(who)
      PROVE  Typed'
  <2>1. open' \subseteq Devices
    BY <1>35, Served
  <2> QED
    BY <1>35, <2>1 DEF Serves
<1>36. CASE UNCHANGED vars
  BY <1>36 DEF vars
<1> QED
  BY <1>1, <1>2, <1>3, <1>4, <1>5, <1>6, <1>7, <1>8, <1>9, <1>10, <1>11,
     <1>12, <1>13, <1>14, <1>15, <1>16, <1>17, <1>18, <1>19, <1>20, <1>21,
     <1>22, <1>23, <1>24, <1>25, <1>26, <1>27, <1>28, <1>29, <1>30, <1>31,
     <1>32, <1>33, <1>34, <1>35, <1>36 DEF Next, Main, Task, Cleanup, Two

(* Every open is counted.                                                  *)
LEMMA BoundedStep ==
  ASSUME Shape, [Next]_vars
  PROVE  Bounded'
<1>0. Placed /\ Typed /\ Bounded /\ Calling /\ MaxLinks \in Nat
  BY ReverseClientAssumption DEF Shape
<1>1. CASE Starts
  <2>1. at'["main"] = "registering" => at["main"] = "registering"
    BY <1>1, <1>0, Moved DEF Two, Starts
  <2> QED
    BY <1>1, <1>0, <2>1 DEF Starts, Typed, Bounded, Warming, counters, handles,
     warm
<1>2. CASE FailsToLoad
  <2>1. at'["main"] = "registering" => at["main"] = "registering"
    BY <1>2, <1>0, Moved DEF Two, FailsToLoad
  <2> QED
    BY <1>2, <1>0, <2>1 DEF FailsToLoad, Typed, Bounded, Warming, counters,
     handles, warm
<1>3. CASE LacksToken
  <2>1. at'["main"] # "registering"
    BY <1>3, <1>0 DEF Placed, Moves, Two, LacksToken
  <2>2. task' = task /\ orphans' = orphans /\ links' = links
    BY <1>3 DEF LacksToken, warm, counters
  <2> QED
    BY <1>0, <2>1, <2>2 DEF Typed, Bounded, Warming
<1>4. CASE ComesUp
  <2>1. at'["main"] = "registering" => at["main"] = "registering"
    BY <1>4, <1>0, Moved DEF Two, ComesUp
  <2> QED
    BY <1>4, <1>0, <2>1 DEF ComesUp, Typed, Bounded, Warming, counters, handles,
     warm
<1>5. CASE Connects
  <2>1. at'["main"] = "registering" => at["main"] = "registering"
    BY <1>5, <1>0, Moved DEF Two, Connects, Turns
  <2> QED
    BY <1>5, <1>0, <2>1 DEF Connects, Turns, OnlyMain, Typed, Bounded, Warming,
     counters, handles, warm
<1>6. CASE LeavesLoop
  <2>1. at'["main"] = "registering" => at["main"] = "registering"
    BY <1>6, <1>0, Moved DEF Two, LeavesLoop, Turns
  <2> QED
    BY <1>6, <1>0, <2>1 DEF LeavesLoop, Turns, OnlyMain, Typed, Bounded, Warming,
     counters, handles, warm
<1>7. CASE NotRegistered
  <2>1. at["main"] = "registering" /\ at'["main"] # "registering"
    BY <1>7, <1>0, Moved DEF Two, NotRegistered, Turns
  <2> QED
    BY <1>7, <1>0, <2>1 DEF NotRegistered, Turns, OnlyMain, Typed, Bounded,
     Warming, counters, handles, warm
<1>8. CASE Registered
  <2>1. at["main"] = "registering" /\ at'["main"] # "registering"
    BY <1>8, <1>0, Moved DEF Two, Registered, Turns
  <2> QED
    BY <1>8, <1>0, <2>1 DEF Registered, Turns, Typed, Bounded, Warming, counters,
     handles, warm
<1>9. CASE EndsService
  <2>1. at'["main"] = "registering" => at["main"] = "registering"
    BY <1>9, <1>0, Moved DEF Two, EndsService, Turns
  <2> QED
    BY <1>9, <1>0, <2>1 DEF EndsService, Turns, OnlyMain, Typed, Bounded, Warming,
     counters, handles, warm
<1>10. CASE PrewarmAwaited
  <2>1. at'["main"] # "registering"
    BY <1>10, <1>0 DEF Placed, Moves, Two, PrewarmAwaited, Opens
  <2>2. task' = task /\ orphans' = orphans /\ links' = links
    BY <1>10 DEF PrewarmAwaited, Opens, warm, counters
  <2> QED
    BY <1>0, <2>1, <2>2 DEF Typed, Bounded, Warming
<1>11. CASE Answered
  <2>1. at'["main"] = "registering" => at["main"] = "registering"
    BY <1>11, <1>0, Moved DEF Two, Answered
  <2> QED
    BY <1>11, <1>0, <2>1 DEF Answered, Typed, Bounded, Warming, counters, handles,
     warm
<1>12. CASE CallRaises
  <2>1. at'["main"] = "registering" => at["main"] = "registering"
    BY <1>12, <1>0, Moved DEF Two, CallRaises
  <2> QED
    BY <1>12, <1>0, <2>1 DEF CallRaises, Typed, Bounded, Warming, counters, handles,
     warm
<1>13. CASE Wakes
  <2>1. at'["main"] = "registering" => at["main"] = "registering"
    BY <1>13, <1>0, Moved DEF Two, Wakes, Turns
  <2> QED
    BY <1>13, <1>0, <2>1 DEF Wakes, Turns, OnlyMain, Typed, Bounded, Warming,
     counters, handles, warm
<1>14. CASE CleansUp
  <2>1. at'["main"] = "registering" => at["main"] = "registering"
    BY <1>14, <1>0, Moved DEF Two, CleansUp
  <2> QED
    BY <1>14, <1>0, <2>1 DEF CleansUp, Typed, Bounded, Warming, counters, handles,
     warm
<1>15. CASE TaskRuns
  BY <1>15, <1>0 DEF TaskRuns, Typed, Bounded, Warming, counters, handles, warm
<1>16. CASE TaskEnds
  BY <1>16, <1>0 DEF TaskEnds, Typed, Bounded, Warming, counters, handles, warm
<1>17. CASE CutTaskEnds
  BY <1>17, <1>0 DEF CutTaskEnds, Typed, Bounded, Warming, counters, handles, warm
<1>18. CASE QuitBegins
  <2>1. at'["main"] = "registering" => at["main"] = "registering"
    BY <1>18, <1>0, Moved DEF Two, QuitBegins
  <2> QED
    BY <1>18, <1>0, <2>1 DEF QuitBegins, Typed, Bounded, Warming, counters, handles,
     warm
<1>19. CASE Refused
  <2>1. at'["main"] = "registering" => at["main"] = "registering"
    BY <1>19, <1>0, Moved DEF Two, Refused, Turns
  <2> QED
    BY <1>19, <1>0, <2>1 DEF Refused, Turns, OnlyMain, Typed, Bounded, Warming,
     counters, handles, warm
<1>20. CASE Connected
  <2>1. at["main"] # "registering"
    BY <1>20, <1>0, Moved DEF Two, Connected, Turns
  <2> QED
    BY <1>20, <1>0, <2>1 DEF Connected, Turns, Typed, Bounded, Warming, counters,
     handles, warm
<1>21. CASE TunnelBreaks
  BY <1>21, <1>0 DEF TunnelBreaks, Typed, Bounded, Warming, counters, handles,
     warm
<1>22. CASE HandleOpen
  <2>1. at'["main"] # "registering"
    BY <1>22, <1>0 DEF Placed, Moves, Two, HandleOpen, Requested, Opens
  <2>2. task' = task /\ orphans' = orphans /\ links' = links
    BY <1>22 DEF HandleOpen, Requested, Opens, warm, counters
  <2> QED
    BY <1>0, <2>1, <2>2 DEF Typed, Bounded, Warming
<1>23. CASE HandleClose
  <2>1. at'["main"] = "registering" => at["main"] = "registering"
    BY <1>23, <1>0, Moved DEF Two, HandleClose, Requested
  <2> QED
    BY <1>23, <1>0, <2>1 DEF HandleClose, Requested, Typed, Bounded, Warming,
     counters, handles, warm
<1>24. CASE HandleIoctl
  <2>1. at'["main"] = "registering" => at["main"] = "registering"
    BY <1>24, <1>0, Moved DEF Two, HandleIoctl, Requested
  <2> QED
    BY <1>24, <1>0, <2>1 DEF HandleIoctl, Requested, Typed, Bounded, Warming,
     counters, handles, warm
<1>25. CASE ServesOrphan
  <2>1. orphans' \in Nat /\ orphans' <= orphans
    BY <1>25, <1>0 DEF ServesOrphan, Bounded
  <2> QED
    BY <1>25, <1>0, <2>1 DEF ServesOrphan, Typed, Bounded, Warming, counters, handles, warm
<1>26. CASE WorkerCrashes
  BY <1>26, <1>0 DEF WorkerCrashes, WorkerGoes, Typed, Bounded, Warming, counters,
     handles, warm
<1>27. CASE Stop
  <2>1. at'["main"] = "registering" => at["main"] = "registering"
    BY <1>27, <1>0, Moved DEF Two, Stop
  <2> QED
    BY <1>27, <1>0, <2>1 DEF Stop, Typed, Bounded, Warming, counters, handles, warm
<1>28. ASSUME NEW who \in Two, Cancels(who)
      PROVE  Bounded'
  <2>1. at'["main"] = "registering" => at["main"] = "registering"
    BY <1>28, <1>0, Moved DEF Two, Cancels
  <2>2. links' = links
    BY <1>28 DEF Cancels, counters
  <2>3. CASE held /\ task \in {"made", "opens"}
    <3>1. orphans' \in Nat /\ orphans' <= orphans + 1
      <4>1. orphans \in Nat /\ orphans' = orphans + (IF call["task"].at = "sent" THEN 1 ELSE 0)
        BY <1>28, <1>0, <2>3 DEF Cancels, Bounded
      <4> QED
        BY <4>1
    <3>2. Warming /\ ~Warming'
      BY <1>28, <2>3 DEF Cancels, Warming
    <3>3. links \in Nat
      BY <1>0 DEF Typed
    <3>4. (IF Warming THEN 1 ELSE 0) = 1 /\ (IF Warming' THEN 1 ELSE 0) = 0
      BY <3>2
    <3> DEFINE new(place) == IF place = "registering" THEN 1 ELSE 0
    <3>5. new(at["main"]) \in Nat /\ new(at'["main"]) \in Nat /\ new(at'["main"]) <= new(at["main"])
      BY <2>1
    <3>6. orphans \in Nat /\ orphans + 1 + new(at["main"]) <= links
      BY <1>0, <3>4 DEF Bounded
    <3>7. orphans' + 0 + new(at'["main"]) <= links
      <4> HIDE DEF new
      <4> QED  BY <3>1, <3>3, <3>5, <3>6
    <3> QED
      BY <2>2, <3>1, <3>4, <3>7 DEF Bounded
  <2>4. CASE ~(held /\ task \in {"made", "opens"})
    <3>1. orphans' = orphans /\ task' = task
      BY <1>28, <2>4 DEF Cancels
    <3> QED
      BY <1>0, <2>1, <2>2, <3>1 DEF Typed, Bounded, Warming
  <2> QED
    BY <2>3, <2>4
<1>29. ASSUME NEW who \in Two, IsCancelled(who)
      PROVE  Bounded'
  <2>1. at'["main"] = "registering" => at["main"] = "registering"
    <3>1. CASE who = "main"
      BY <1>29, <1>0, <3>1, Moved DEF Two, IsCancelled
    <3>2. CASE who = "quit"
      BY <1>29, <1>0, <3>2, Moved DEF Two, IsCancelled
    <3> QED
      BY <3>1, <3>2 DEF Two
  <2>2. task' = task /\ orphans' = orphans /\ links' = links
    BY <1>29 DEF IsCancelled, warm, counters
  <2> QED
    BY <1>0, <2>1, <2>2 DEF Typed, Bounded, Warming
<1>30. ASSUME NEW who \in Two, Releases(who)
      PROVE  Bounded'
  <2>1. at'["main"] = "registering" => at["main"] = "registering"
    <3>1. CASE who = "main"
      BY <1>30, <1>0, <3>1, Moved DEF Two, Releases
    <3>2. CASE who = "quit"
      BY <1>30, <1>0, <3>2, Moved DEF Two, Releases
    <3> QED
      BY <3>1, <3>2 DEF Two
  <2>2. task' = task /\ orphans' = orphans /\ links' = links
    BY <1>30 DEF Releases, warm, counters
  <2> QED
    BY <1>0, <2>1, <2>2 DEF Typed, Bounded, Warming
<1>31. ASSUME NEW who \in Two, IsReleased(who)
      PROVE  Bounded'
  <2>1. at'["main"] = "registering" => at["main"] = "registering"
    <3>1. CASE who = "main"
      BY <1>31, <1>0, <3>1, Moved DEF Two, IsReleased
    <3>2. CASE who = "quit"
      BY <1>31, <1>0, <3>2, Moved DEF Two, IsReleased
    <3> QED
      BY <3>1, <3>2 DEF Two
  <2>2. task' = task /\ orphans' = orphans /\ links' = links
    BY <1>31 DEF IsReleased, warm, counters
  <2> QED
    BY <1>0, <2>1, <2>2 DEF Typed, Bounded, Warming
<1>32. ASSUME NEW who \in Two, ClosesTunnel(who)
      PROVE  Bounded'
  <2>1. at'["main"] = "registering" => at["main"] = "registering"
    BY <1>32, <1>0, Moved DEF Two, ClosesTunnel
  <2> QED
    BY <1>32, <1>0, <2>1 DEF ClosesTunnel, Typed, Bounded, Warming, counters,
     handles, warm
<1>33. ASSUME NEW who \in Two, StopsWorker(who)
      PROVE  Bounded'
  <2>1. at'["main"] = "registering" => at["main"] = "registering"
    BY <1>33, <1>0, Moved DEF Two, StopsWorker, Finished
  <2> QED
    BY <1>33, <1>0, <2>1 DEF StopsWorker, Finished, Typed, Bounded, Warming,
     counters, handles, warm
<1>34. ASSUME NEW who \in Two, WorkerStops(who)
      PROVE  Bounded'
  <2>1. at'["main"] = "registering" => at["main"] = "registering"
    BY <1>34, <1>0, Moved DEF Two, WorkerStops, Finished
  <2> QED
    BY <1>34, <1>0, <2>1 DEF WorkerStops, WorkerGoes, Typed, Bounded, Warming,
     counters, handles, warm
<1>35. ASSUME NEW who \in Who, Serves(who)
      PROVE  Bounded'
  BY <1>35, <1>0 DEF Serves, Typed, Bounded, Warming, counters, handles, warm
<1>36. CASE UNCHANGED vars
  BY <1>36, <1>0 DEF vars, Typed, Bounded, Warming, counters, handles, warm
<1> QED
  BY <1>1, <1>2, <1>3, <1>4, <1>5, <1>6, <1>7, <1>8, <1>9, <1>10, <1>11,
     <1>12, <1>13, <1>14, <1>15, <1>16, <1>17, <1>18, <1>19, <1>20, <1>21,
     <1>22, <1>23, <1>24, <1>25, <1>26, <1>27, <1>28, <1>29, <1>30, <1>31,
     <1>32, <1>33, <1>34, <1>35, <1>36 DEF Next, Main, Task, Cleanup, Two

(* Every step keeps the types of the calls.                                *)
LEMMA CallTypedStep ==
  ASSUME Shape, [Next]_vars
  PROVE  CallTyped'
<1> USE DEF Shape, Typed, CallTyped, Two, Who, handles, warm
<1>1. CASE Starts
  BY <1>1 DEF Starts
<1>2. CASE FailsToLoad
  BY <1>2 DEF FailsToLoad
<1>3. CASE LacksToken
  BY <1>3 DEF LacksToken
<1>4. CASE ComesUp
  BY <1>4 DEF ComesUp
<1>5. CASE Connects
  BY <1>5 DEF Connects, Turns, OnlyMain
<1>6. CASE LeavesLoop
  BY <1>6 DEF LeavesLoop, Turns, OnlyMain
<1>7. CASE NotRegistered
  BY <1>7 DEF NotRegistered, Turns, OnlyMain
<1>8. CASE Registered
  BY <1>8 DEF Registered, Turns
<1>9. CASE EndsService
  BY <1>9 DEF EndsService, Turns, OnlyMain
<1>10. CASE PrewarmAwaited
  BY <1>10, Sending, Names DEF PrewarmAwaited, Opens
<1>11. CASE Answered
  BY <1>11, Quieted DEF Answered
<1>12. CASE CallRaises
  BY <1>12, Quieted DEF CallRaises
<1>13. CASE Wakes
  BY <1>13 DEF Wakes, Turns, OnlyMain
<1>14. CASE CleansUp
  BY <1>14 DEF CleansUp
<1>15. CASE TaskRuns
  BY <1>15, Sending, Names DEF TaskRuns
<1>16. CASE TaskEnds
  BY <1>16, Quieted DEF TaskEnds
<1>17. CASE CutTaskEnds
  BY <1>17 DEF CutTaskEnds
<1>18. CASE QuitBegins
  BY <1>18 DEF QuitBegins
<1>19. CASE Refused
  BY <1>19 DEF Refused, Turns, OnlyMain
<1>20. CASE Connected
  BY <1>20 DEF Connected, Turns
<1>21. CASE TunnelBreaks
  BY <1>21 DEF TunnelBreaks
<1>22. CASE HandleOpen
  BY <1>22, Sending, Names DEF HandleOpen, Requested, Opens
<1>23. CASE HandleClose
  BY <1>23, Sending, Names DEF HandleClose, Requested
<1>24. CASE HandleIoctl
  BY <1>24, Sending, Names DEF HandleIoctl, Requested
<1>25. CASE ServesOrphan
  BY <1>25 DEF ServesOrphan
<1>26. CASE WorkerCrashes
  BY <1>26, Going DEF WorkerCrashes
<1>27. CASE Stop
  BY <1>27 DEF Stop
<1>28. ASSUME NEW who \in Two, Cancels(who)
      PROVE  CallTyped'
  BY <1>28, Quieted DEF Cancels
<1>29. ASSUME NEW who \in Two, IsCancelled(who)
      PROVE  CallTyped'
  BY <1>29 DEF IsCancelled
<1>30. ASSUME NEW who \in Two, Releases(who)
      PROVE  CallTyped'
  BY <1>30, Sending, Names DEF Releases
<1>31. ASSUME NEW who \in Two, IsReleased(who)
      PROVE  CallTyped'
  BY <1>31, Quieted DEF IsReleased
<1>32. ASSUME NEW who \in Two, ClosesTunnel(who)
      PROVE  CallTyped'
  BY <1>32 DEF ClosesTunnel
<1>33. ASSUME NEW who \in Two, StopsWorker(who)
      PROVE  CallTyped'
  BY <1>33 DEF StopsWorker, Finished
<1>34. ASSUME NEW who \in Two, WorkerStops(who)
      PROVE  CallTyped'
  BY <1>34, Going DEF WorkerStops, Finished
<1>35. ASSUME NEW who \in Who, Serves(who)
      PROVE  CallTyped'
  BY <1>35, Served DEF Serves
<1>36. CASE UNCHANGED vars
  BY <1>36 DEF vars
<1> QED
  BY <1>1, <1>2, <1>3, <1>4, <1>5, <1>6, <1>7, <1>8, <1>9, <1>10, <1>11,
     <1>12, <1>13, <1>14, <1>15, <1>16, <1>17, <1>18, <1>19, <1>20, <1>21,
     <1>22, <1>23, <1>24, <1>25, <1>26, <1>27, <1>28, <1>29, <1>30, <1>31,
     <1>32, <1>33, <1>34, <1>35, <1>36 DEF Next, Main, Task, Cleanup, Two

(* Who waits for the driver is kept where nobody begins or ends a call.    *)
Waiting == {"calling", "await_release"}

LEMMA CallsStay ==
  ASSUME Calling, call' = call, (task' = "opens") <=> (task = "opens"),
         \A w \in Two : at'[w] = at[w] \/ (at[w] \notin Waiting /\ at'[w] \notin Waiting)
  PROVE  Calling'
<1>1. \A w \in Who : HasHandle(call'[w])
  BY DEF Calling
<1>2. /\ at'["main"] = at["main"] \/ (at["main"] \notin Waiting /\ at'["main"] \notin Waiting)
      /\ at'["quit"] = at["quit"] \/ (at["quit"] \notin Waiting /\ at'["quit"] \notin Waiting)
  BY DEF Two
<1> QED  BY <1>1, <1>2 DEF Calling, Waiting

(* ... where main or shutdown begins one, ...                              *)
LEMMA CallsOut ==
  ASSUME Placed, CallTyped, Calling, task' = task,
         NEW w \in Two, NEW op \in Ops, NEW d \in Handle, NEW p \in Waiting,
         Sends(w, op, d), Moves(w, p), op = "close" => d # NoDevice,
         p = "calling" => w = "main", p = "await_release" => op = "close"
  PROVE  Calling'
<1>1. w \in Who
  BY DEF Two, Who
<1>2. /\ call'[w].at # "none" /\ call'[w].op = op /\ HasHandle(call'[w])
      /\ \A v \in Who : v # w => call'[v] = call[v]
  BY <1>1, Sending
<1>3. at'[w] = p /\ \A v \in Two : v # w => at'[v] = at[v]
  BY Moved
<1>4. \A v \in Who : HasHandle(call'[v])
  BY <1>2 DEF Calling
<1>5. CASE w = "main"
  BY <1>2, <1>3, <1>4, <1>5 DEF Calling, Waiting, Two, Who
<1>6. CASE w = "quit"
  BY <1>2, <1>3, <1>4, <1>6 DEF Calling, Waiting, Two, Who
<1> QED  BY <1>5, <1>6 DEF Two

(* ... where it takes the answer, ...                                      *)
LEMMA CallsBack ==
  ASSUME Placed, CallTyped, Calling, task' = task, NEW w \in Two, NEW p,
         p \notin Waiting, call' = [call EXCEPT ![w] = Quiet], Moves(w, p)
  PROVE  Calling'
<1>1. w \in Who
  BY DEF Two, Who
<1>2. /\ call'[w].at = "none" /\ call'[w].op = "ioctl" /\ HasHandle(call'[w])
      /\ \A v \in Who : v # w => call'[v] = call[v]
  BY <1>1, Quieted
<1>3. at'[w] = p /\ \A v \in Two : v # w => at'[v] = at[v]
  BY Moved
<1>4. \A v \in Who : HasHandle(call'[v])
  BY <1>2 DEF Calling
<1>5. CASE w = "main"
  BY <1>2, <1>3, <1>4, <1>5 DEF Calling, Waiting, Two, Who
<1>6. CASE w = "quit"
  BY <1>2, <1>3, <1>4, <1>6 DEF Calling, Waiting, Two, Who
<1> QED  BY <1>5, <1>6 DEF Two

(* ... where the call of the task changes, ...                             *)
LEMMA TaskCalls ==
  ASSUME Calling,
         \A v \in Who : v # "task" => call'[v] = call[v],
         call'["task"].at # "none" <=> task' = "opens",
         task' = "opens" => call'["task"].op = "open",
         HasHandle(call'["task"]),
         \A w \in Two : at'[w] = at[w] \/ (at[w] \notin Waiting /\ at'[w] \notin Waiting)
  PROVE  Calling'
<1>1. call'["main"] = call["main"] /\ call'["quit"] = call["quit"]
  BY DEF Who
<1>2. \A w \in Who : HasHandle(call'[w])
  BY DEF Calling
<1>3. /\ at'["main"] = at["main"] \/ (at["main"] \notin Waiting /\ at'["main"] \notin Waiting)
      /\ at'["quit"] = at["quit"] \/ (at["quit"] \notin Waiting /\ at'["quit"] \notin Waiting)
  BY DEF Two
<1> QED  BY <1>1, <1>2, <1>3 DEF Calling, Waiting

(* ... and where the worker answers or goes.                               *)
LEMMA CallsGoOn ==
  ASSUME Calling, task' = task,
         \A v \in Who : call'[v].op = call[v].op /\ HasHandle(call'[v])
                        /\ (call'[v].at = "none" <=> call[v].at = "none"),
         \A w \in Two : at'[w] = at[w] \/ (at[w] \notin Waiting /\ at'[w] \notin Waiting)
  PROVE  Calling'
<1>1. /\ call'["main"].op = call["main"].op /\ (call'["main"].at = "none" <=> call["main"].at = "none")
      /\ call'["quit"].op = call["quit"].op /\ (call'["quit"].at = "none" <=> call["quit"].at = "none")
      /\ call'["task"].op = call["task"].op /\ (call'["task"].at = "none" <=> call["task"].at = "none")
  BY DEF Who
<1>2. \A w \in Who : HasHandle(call'[w])
  OBVIOUS
<1>3. /\ at'["main"] = at["main"] \/ (at["main"] \notin Waiting /\ at'["main"] \notin Waiting)
      /\ at'["quit"] = at["quit"] \/ (at["quit"] \notin Waiting /\ at'["quit"] \notin Waiting)
  BY DEF Two
<1> QED  BY <1>1, <1>2, <1>3 DEF Calling, Waiting

LEMMA CallsRaise ==
  ASSUME CallTyped, Calling, WorkerGoes
  PROVE  \A v \in Who : call'[v].op = call[v].op /\ HasHandle(call'[v])
                        /\ (call'[v].at = "none" <=> call[v].at = "none")
<1> SUFFICES ASSUME NEW v \in Who
             PROVE  call'[v].op = call[v].op /\ HasHandle(call'[v])
                    /\ (call'[v].at = "none" <=> call[v].at = "none")
  OBVIOUS
<1>1. /\ call'[v].op = call[v].op /\ call'[v].dev = call[v].dev /\ call'[v].ok = call[v].ok
      /\ call[v].at # "sent" => call'[v].at = call[v].at
      /\ call[v].at = "sent" => call'[v].at = "raised"
  BY Going
<1>2. HasHandle(call[v])
  BY DEF Calling
<1> QED  BY <1>1, <1>2 DEF HasHandle

(* Every step keeps who waits for the driver.                              *)
LEMMA CallingStep ==
  ASSUME Shape, Cleaned, [Next]_vars
  PROVE  Calling'
<1>0. /\ Placed /\ CallTyped /\ Calling /\ prewarm \in Handle /\ given \subseteq Devices
      /\ Warming => held /\ prewarm = NoDevice
  BY DEF Shape, Cleaned, Typed
<1>1. CASE Starts
  BY <1>0, <1>1, CallsStay, Moved DEF Starts, Waiting, Two, warm
<1>2. CASE FailsToLoad
  BY <1>0, <1>2, CallsStay, Moved DEF FailsToLoad, Waiting, Two, warm
<1>3. CASE LacksToken
  BY <1>0, <1>3, CallsStay, Moved DEF LacksToken, Waiting, Two, warm
<1>4. CASE ComesUp
  BY <1>0, <1>4, CallsStay, Moved DEF ComesUp, Waiting, Two, warm
<1>5. CASE Connects
  BY <1>0, <1>5, CallsStay, Moved DEF Connects, Turns, OnlyMain, Waiting, Two, warm
<1>6. CASE LeavesLoop
  BY <1>0, <1>6, CallsStay, Moved DEF LeavesLoop, Turns, OnlyMain, Waiting, Two, warm
<1>7. CASE NotRegistered
  BY <1>0, <1>7, CallsStay, Moved DEF NotRegistered, Turns, OnlyMain, Waiting, Two, warm
<1>8. CASE Registered
  BY <1>0, <1>8, CallsStay, Moved DEF Registered, Turns, Waiting, Two, Cleaned, Warming, Working
<1>9. CASE EndsService
  BY <1>0, <1>9, CallsStay, Moved DEF EndsService, Turns, OnlyMain, Waiting, Two, warm
<1>10. CASE PrewarmAwaited
  <2>1. CASE task = "over" \/ prewarm # NoDevice
    BY <1>0, <1>10, <2>1, CallsStay, Moved DEF PrewarmAwaited, Opens, Waiting, Two, warm
  <2>2. CASE ~(task = "over" \/ prewarm # NoDevice)
    <3>1. Sends("main", "open", NoDevice) /\ Moves("main", "calling") /\ task' = task
      BY <1>10, <2>2 DEF PrewarmAwaited, Opens
    <3> QED
      BY <1>0, <3>1, CallsOut, Names DEF Waiting, Two
  <2> QED
    BY <2>1, <2>2
<1>11. CASE Answered
  <2>1. call' = [call EXCEPT !["main"] = Quiet] /\ Moves("main", "serving") /\ task' = task
    BY <1>11 DEF Answered
  <2> QED
    BY <1>0, <2>1, CallsBack DEF Waiting, Two
<1>12. CASE CallRaises
  <2>1. call' = [call EXCEPT !["main"] = Quiet] /\ Moves("main", "cancel") /\ task' = task
    BY <1>12 DEF CallRaises, warm
  <2> QED
    BY <1>0, <2>1, CallsBack DEF Waiting, Two
<1>13. CASE Wakes
  BY <1>0, <1>13, CallsStay, Moved DEF Wakes, Turns, OnlyMain, Waiting, Two, warm
<1>14. CASE CleansUp
  BY <1>0, <1>14, CallsStay, Moved DEF CleansUp, Waiting, Two, warm
<1>15. CASE TaskRuns
  <2>1. CASE driver
    <3>1. at' = at /\ task' = "opens" /\ Sends("task", "open", NoDevice)
      BY <1>15, <2>1 DEF TaskRuns
    <3>2. /\ call'["task"].at # "none" /\ call'["task"].op = "open" /\ HasHandle(call'["task"])
          /\ \A v \in Who : v # "task" => call'[v] = call[v]
      BY <1>0, <3>1, Sending, Names DEF Who
    <3> QED
      BY <1>0, <3>1, <3>2, TaskCalls
  <2>2. CASE ~driver
    BY <1>0, <1>15, <2>2, CallsStay DEF TaskRuns
  <2> QED
    BY <2>1, <2>2
<1>16. CASE TaskEnds
  <2>1. at' = at /\ task' = "done" /\ call' = [call EXCEPT !["task"] = Quiet]
    BY <1>16 DEF TaskEnds
  <2>2. /\ call'["task"].at = "none" /\ HasHandle(call'["task"])
        /\ \A v \in Who : v # "task" => call'[v] = call[v]
    BY <1>0, <2>1, Quieted DEF Who
  <2> QED
    BY <1>0, <2>1, <2>2, TaskCalls
<1>17. CASE CutTaskEnds
  BY <1>0, <1>17, CallsStay, Moved DEF CutTaskEnds, Waiting, Two, warm
<1>18. CASE QuitBegins
  BY <1>0, <1>18, CallsStay, Moved DEF QuitBegins, Waiting, Two, warm
<1>19. CASE Refused
  BY <1>0, <1>19, CallsStay, Moved DEF Refused, Turns, OnlyMain, Waiting, Two, warm
<1>20. CASE Connected
  BY <1>0, <1>20, CallsStay, Moved DEF Connected, Turns, Waiting, Two, warm
<1>21. CASE TunnelBreaks
  BY <1>0, <1>21, CallsStay, Moved DEF TunnelBreaks, Waiting, Two, warm
<1>22. CASE HandleOpen
  <2>0. at["main"] = "serving"
    BY <1>22 DEF HandleOpen, Requested
  <2>1. CASE (held /\ task \in {"made", "opens"}) \/ prewarm # NoDevice
    BY <1>0, <1>22, <2>0, <2>1, CallsStay, Moved DEF HandleOpen, Opens, Waiting, Two, warm
  <2>2. CASE ~((held /\ task \in {"made", "opens"}) \/ prewarm # NoDevice)
    <3>1. Sends("main", "open", NoDevice) /\ Moves("main", "calling") /\ task' = task
      BY <1>22, <2>2 DEF HandleOpen, Opens
    <3> QED
      BY <1>0, <3>1, CallsOut, Names DEF Waiting, Two
  <2> QED
    BY <2>1, <2>2
<1>23. CASE HandleClose
  <2>1. PICK d \in given : Sends("main", "close", d)
    BY <1>23 DEF HandleClose
  <2>2. d \in Handle /\ d # NoDevice
    BY <1>0, ReverseClientAssumption DEF Handle
  <2>3. Moves("main", "calling") /\ task' = task
    BY <1>23 DEF HandleClose, warm
  <2> QED
    BY <1>0, <2>1, <2>2, <2>3, CallsOut, Names DEF Waiting, Two
<1>24. CASE HandleIoctl
  <2>1. CASE cached
    BY <1>0, <1>24, <2>1, CallsStay DEF HandleIoctl, warm
  <2>2. CASE ~cached
    <3>1. Sends("main", "ioctl", NoDevice) /\ Moves("main", "calling") /\ task' = task
      BY <1>24, <2>2 DEF HandleIoctl, warm
    <3> QED
      BY <1>0, <3>1, CallsOut, Names DEF Waiting, Two
  <2> QED
    BY <2>1, <2>2
<1>25. CASE ServesOrphan
  BY <1>0, <1>25, CallsStay, Moved DEF ServesOrphan, Waiting, Two, warm
<1>26. CASE WorkerCrashes
  <2>1. WorkerGoes /\ at' = at /\ task' = task
    BY <1>26 DEF WorkerCrashes, warm
  <2> QED
    BY <1>0, <2>1, CallsRaise, CallsGoOn
<1>27. CASE Stop
  BY <1>0, <1>27, CallsStay, Moved DEF Stop, Waiting, Two, warm
<1>28. ASSUME NEW who \in Two, Cancels(who)
      PROVE  Calling'
  <2>1. \A w \in Two : at'[w] = at[w] \/ (at[w] \notin Waiting /\ at'[w] \notin Waiting)
    BY <1>0, <1>28, Moved DEF Cancels, Waiting
  <2>2. CASE held /\ task \in {"made", "opens"}
    <3>1. task' = "cut" /\ call' = [call EXCEPT !["task"] = Quiet]
      BY <1>28, <2>2 DEF Cancels
    <3>2. /\ call'["task"].at = "none" /\ HasHandle(call'["task"])
          /\ \A v \in Who : v # "task" => call'[v] = call[v]
      BY <1>0, <3>1, Quieted DEF Who
    <3> QED
      BY <1>0, <2>1, <3>1, <3>2, TaskCalls
  <2>3. CASE ~(held /\ task \in {"made", "opens"})
    BY <1>0, <1>28, <2>1, <2>3, CallsStay DEF Cancels
  <2> QED
    BY <2>2, <2>3
<1>29. ASSUME NEW who \in Two, IsCancelled(who)
      PROVE  Calling'
  BY <1>0, <1>29, CallsStay, Moved DEF IsCancelled, Waiting, warm
<1>30. ASSUME NEW who \in Two, Releases(who)
      PROVE  Calling'
  <2>1. CASE prewarm # NoDevice /\ driver
    <3>1. Sends(who, "close", prewarm) /\ Moves(who, "await_release") /\ task' = task
      BY <1>30, <2>1 DEF Releases
    <3> QED
      BY <1>0, <2>1, <3>1, CallsOut, Names DEF Waiting
  <2>2. CASE ~(prewarm # NoDevice /\ driver)
    BY <1>0, <1>30, <2>2, CallsStay, Moved DEF Releases, Waiting
  <2> QED
    BY <2>1, <2>2
<1>31. ASSUME NEW who \in Two, IsReleased(who)
      PROVE  Calling'
  <2>1. call' = [call EXCEPT ![who] = Quiet] /\ Moves(who, "close") /\ task' = task
    BY <1>31 DEF IsReleased, warm
  <2> QED
    BY <1>0, <2>1, CallsBack DEF Waiting
<1>32. ASSUME NEW who \in Two, ClosesTunnel(who)
      PROVE  Calling'
  BY <1>0, <1>32, CallsStay, Moved DEF ClosesTunnel, Waiting, warm
<1>33. ASSUME NEW who \in Two, StopsWorker(who)
      PROVE  Calling'
  BY <1>0, <1>33, CallsStay, Moved DEF StopsWorker, Finished, Waiting, warm
<1>34. ASSUME NEW who \in Two, WorkerStops(who)
      PROVE  Calling'
  <2>1. WorkerGoes /\ task' = task
    BY <1>34 DEF WorkerStops, warm
  <2>2. \A w \in Two : at'[w] = at[w] \/ (at[w] \notin Waiting /\ at'[w] \notin Waiting)
    BY <1>0, <1>34, Moved DEF WorkerStops, Finished, Waiting
  <2> QED
    BY <1>0, <2>1, <2>2, CallsRaise, CallsGoOn
<1>35. ASSUME NEW who \in Who, Serves(who)
      PROVE  Calling'
  <2>1. HasHandle(call'[who])
    <3>1. HasHandle(call[who])
      BY <1>0 DEF Calling
    <3> QED
      BY <1>0, <1>35, <3>1, Served, ReverseClientAssumption DEF HasHandle
  <2>2. /\ call[who].at = "sent" /\ call'[who].at # "none" /\ call'[who].op = call[who].op
        /\ \A v \in Who : v # who => call'[v] = call[v]
    BY <1>0, <1>35, Served
  <2>3. \A v \in Who : call'[v].op = call[v].op /\ HasHandle(call'[v])
                       /\ (call'[v].at = "none" <=> call[v].at = "none")
    BY <1>0, <2>1, <2>2 DEF Calling
  <2>4. at' = at /\ task' = task
    BY <1>35 DEF Serves, warm
  <2> QED
    BY <1>0, <2>3, <2>4, CallsGoOn
<1>36. CASE UNCHANGED vars
  BY <1>0, <1>36, CallsStay DEF vars
<1> QED
  BY <1>1, <1>2, <1>3, <1>4, <1>5, <1>6, <1>7, <1>8, <1>9, <1>10, <1>11,
     <1>12, <1>13, <1>14, <1>15, <1>16, <1>17, <1>18, <1>19, <1>20, <1>21,
     <1>22, <1>23, <1>24, <1>25, <1>26, <1>27, <1>28, <1>29, <1>30, <1>31,
     <1>32, <1>33, <1>34, <1>35, <1>36 DEF Next, Main, Task, Cleanup, Two

(* The start is kept.                                                      *)
LEMMA FreshStep ==
  ASSUME Placed, Fresh, [Next]_vars
  PROVE  Fresh'
<1> USE DEF Fresh, Two, Moves, warm, handles, counters, Placed, Young, Between,
        Working, IsUp, HasEnded, LoopIsFree
<1>1. CASE Starts
  BY <1>1 DEF Starts
<1>2. CASE FailsToLoad
  BY <1>2 DEF FailsToLoad
<1>3. CASE LacksToken
  BY <1>3 DEF LacksToken
<1>4. CASE ComesUp
  BY <1>4 DEF ComesUp
<1>5. CASE Connects
  BY <1>5 DEF Connects, Turns, OnlyMain
<1>6. CASE LeavesLoop
  BY <1>6 DEF LeavesLoop, Turns, OnlyMain
<1>7. CASE NotRegistered
  BY <1>7 DEF NotRegistered, Turns, OnlyMain
<1>8. CASE Registered
  BY <1>8 DEF Registered, Turns
<1>9. CASE EndsService
  BY <1>9 DEF EndsService, Turns, OnlyMain
<1>10. CASE PrewarmAwaited
  BY <1>10 DEF PrewarmAwaited, Opens
<1>11. CASE Answered
  BY <1>11 DEF Answered, Quiet
<1>12. CASE CallRaises
  BY <1>12 DEF CallRaises, Quiet
<1>13. CASE Wakes
  BY <1>13 DEF Wakes, Turns, OnlyMain
<1>14. CASE CleansUp
  BY <1>14 DEF CleansUp
<1>15. CASE TaskRuns
  BY <1>15 DEF TaskRuns
<1>16. CASE TaskEnds
  BY <1>16 DEF TaskEnds, Quiet
<1>17. CASE CutTaskEnds
  BY <1>17 DEF CutTaskEnds
<1>18. CASE QuitBegins
  BY <1>18 DEF QuitBegins
<1>19. CASE Refused
  BY <1>19 DEF Refused, Turns, OnlyMain
<1>20. CASE Connected
  BY <1>20 DEF Connected, Turns
<1>21. CASE TunnelBreaks
  BY <1>21 DEF TunnelBreaks
<1>22. CASE HandleOpen
  BY <1>22 DEF HandleOpen, Requested, Opens
<1>23. CASE HandleClose
  BY <1>23 DEF HandleClose, Requested
<1>24. CASE HandleIoctl
  BY <1>24 DEF HandleIoctl, Requested
<1>25. CASE ServesOrphan
  BY <1>25 DEF ServesOrphan
<1>26. CASE WorkerCrashes
  BY <1>26 DEF WorkerCrashes, WorkerGoes
<1>27. CASE Stop
  BY <1>27 DEF Stop
<1>28. ASSUME NEW who \in Two, Cancels(who)
      PROVE  Fresh'
  BY <1>28 DEF Cancels, Quiet
<1>29. ASSUME NEW who \in Two, IsCancelled(who)
      PROVE  Fresh'
  BY <1>29 DEF IsCancelled
<1>30. ASSUME NEW who \in Two, Releases(who)
      PROVE  Fresh'
  BY <1>30 DEF Releases
<1>31. ASSUME NEW who \in Two, IsReleased(who)
      PROVE  Fresh'
  BY <1>31 DEF IsReleased, Quiet
<1>32. ASSUME NEW who \in Two, ClosesTunnel(who)
      PROVE  Fresh'
  BY <1>32 DEF ClosesTunnel
<1>33. ASSUME NEW who \in Two, StopsWorker(who)
      PROVE  Fresh'
  BY <1>33 DEF StopsWorker, Finished
<1>34. ASSUME NEW who \in Two, WorkerStops(who)
      PROVE  Fresh'
  BY <1>34 DEF WorkerStops, WorkerGoes, Finished
<1>35. ASSUME NEW who \in Who, Serves(who)
      PROVE  Fresh'
  BY <1>35 DEF Serves
<1>36. CASE UNCHANGED vars
  BY <1>36 DEF vars
<1> QED
  BY <1>1, <1>2, <1>3, <1>4, <1>5, <1>6, <1>7, <1>8, <1>9, <1>10, <1>11,
     <1>12, <1>13, <1>14, <1>15, <1>16, <1>17, <1>18, <1>19, <1>20, <1>21,
     <1>22, <1>23, <1>24, <1>25, <1>26, <1>27, <1>28, <1>29, <1>30, <1>31,
     <1>32, <1>33, <1>34, <1>35, <1>36 DEF Next, Main, Task, Cleanup, Two

(* Every step leaves a connection cleaned up.                              *)
LEMMA CleanedStep ==
  ASSUME Placed, Fresh, Cleaned, [Next]_vars
  PROVE  Cleaned'
<1> USE DEF Fresh, Cleaned, Warming, Two, Moves, warm, handles, counters, Placed,
        Young, Between, Working, IsUp, HasEnded, LoopIsFree
<1>1. CASE Starts
  BY <1>1 DEF Starts
<1>2. CASE FailsToLoad
  BY <1>2 DEF FailsToLoad
<1>3. CASE LacksToken
  BY <1>3 DEF LacksToken
<1>4. CASE ComesUp
  BY <1>4 DEF ComesUp
<1>5. CASE Connects
  BY <1>5 DEF Connects, Turns, OnlyMain
<1>6. CASE LeavesLoop
  BY <1>6 DEF LeavesLoop, Turns, OnlyMain
<1>7. CASE NotRegistered
  BY <1>7 DEF NotRegistered, Turns, OnlyMain
<1>8. CASE Registered
  BY <1>8 DEF Registered, Turns
<1>9. CASE EndsService
  BY <1>9 DEF EndsService, Turns, OnlyMain
<1>10. CASE PrewarmAwaited
  BY <1>10 DEF PrewarmAwaited, Opens
<1>11. CASE Answered
  BY <1>11 DEF Answered, Quiet
<1>12. CASE CallRaises
  BY <1>12 DEF CallRaises, Quiet
<1>13. CASE Wakes
  BY <1>13 DEF Wakes, Turns, OnlyMain
<1>14. CASE CleansUp
  BY <1>14 DEF CleansUp
<1>15. CASE TaskRuns
  BY <1>15 DEF TaskRuns
<1>16. CASE TaskEnds
  BY <1>16 DEF TaskEnds, Quiet
<1>17. CASE CutTaskEnds
  BY <1>17 DEF CutTaskEnds
<1>18. CASE QuitBegins
  BY <1>18 DEF QuitBegins
<1>19. CASE Refused
  BY <1>19 DEF Refused, Turns, OnlyMain
<1>20. CASE Connected
  BY <1>20 DEF Connected, Turns
<1>21. CASE TunnelBreaks
  BY <1>21 DEF TunnelBreaks
<1>22. CASE HandleOpen
  BY <1>22 DEF HandleOpen, Requested, Opens
<1>23. CASE HandleClose
  BY <1>23 DEF HandleClose, Requested
<1>24. CASE HandleIoctl
  BY <1>24 DEF HandleIoctl, Requested
<1>25. CASE ServesOrphan
  BY <1>25 DEF ServesOrphan
<1>26. CASE WorkerCrashes
  BY <1>26 DEF WorkerCrashes, WorkerGoes
<1>27. CASE Stop
  BY <1>27 DEF Stop
<1>28. ASSUME NEW who \in Two, Cancels(who)
      PROVE  Cleaned'
  BY <1>28 DEF Cancels, Quiet
<1>29. ASSUME NEW who \in Two, IsCancelled(who)
      PROVE  Cleaned'
  BY <1>29 DEF IsCancelled
<1>30. ASSUME NEW who \in Two, Releases(who)
      PROVE  Cleaned'
  BY <1>30 DEF Releases
<1>31. ASSUME NEW who \in Two, IsReleased(who)
      PROVE  Cleaned'
  BY <1>31 DEF IsReleased, Quiet
<1>32. ASSUME NEW who \in Two, ClosesTunnel(who)
      PROVE  Cleaned'
  BY <1>32 DEF ClosesTunnel
<1>33. ASSUME NEW who \in Two, StopsWorker(who)
      PROVE  Cleaned'
  BY <1>33 DEF StopsWorker, Finished
<1>34. ASSUME NEW who \in Two, WorkerStops(who)
      PROVE  Cleaned'
  BY <1>34 DEF WorkerStops, WorkerGoes, Finished
<1>35. ASSUME NEW who \in Who, Serves(who)
      PROVE  Cleaned'
  BY <1>35 DEF Serves
<1>36. CASE UNCHANGED vars
  BY <1>36 DEF vars
<1> QED
  BY <1>1, <1>2, <1>3, <1>4, <1>5, <1>6, <1>7, <1>8, <1>9, <1>10, <1>11,
     <1>12, <1>13, <1>14, <1>15, <1>16, <1>17, <1>18, <1>19, <1>20, <1>21,
     <1>22, <1>23, <1>24, <1>25, <1>26, <1>27, <1>28, <1>29, <1>30, <1>31,
     <1>32, <1>33, <1>34, <1>35, <1>36 DEF Next, Main, Task, Cleanup, Two

(* Every step leaves the worker owned or stopped.                          *)
LEMMA StoppedStep ==
  ASSUME Placed, Fresh, Stopped, [Next]_vars
  PROVE  Stopped'
<1> USE DEF Fresh, Stopped, Cleaning, Two, Moves, warm, handles, counters, Placed,
        Young, Between, Working, IsUp, HasEnded, LoopIsFree
<1>1. CASE Starts
  BY <1>1 DEF Starts
<1>2. CASE FailsToLoad
  BY <1>2 DEF FailsToLoad
<1>3. CASE LacksToken
  BY <1>3 DEF LacksToken
<1>4. CASE ComesUp
  BY <1>4 DEF ComesUp
<1>5. CASE Connects
  BY <1>5 DEF Connects, Turns, OnlyMain
<1>6. CASE LeavesLoop
  BY <1>6 DEF LeavesLoop, Turns, OnlyMain
<1>7. CASE NotRegistered
  BY <1>7 DEF NotRegistered, Turns, OnlyMain
<1>8. CASE Registered
  BY <1>8 DEF Registered, Turns
<1>9. CASE EndsService
  BY <1>9 DEF EndsService, Turns, OnlyMain
<1>10. CASE PrewarmAwaited
  BY <1>10 DEF PrewarmAwaited, Opens
<1>11. CASE Answered
  BY <1>11 DEF Answered, Quiet
<1>12. CASE CallRaises
  BY <1>12 DEF CallRaises, Quiet
<1>13. CASE Wakes
  BY <1>13 DEF Wakes, Turns, OnlyMain
<1>14. CASE CleansUp
  BY <1>14 DEF CleansUp
<1>15. CASE TaskRuns
  BY <1>15 DEF TaskRuns
<1>16. CASE TaskEnds
  BY <1>16 DEF TaskEnds, Quiet
<1>17. CASE CutTaskEnds
  BY <1>17 DEF CutTaskEnds
<1>18. CASE QuitBegins
  BY <1>18 DEF QuitBegins
<1>19. CASE Refused
  BY <1>19 DEF Refused, Turns, OnlyMain
<1>20. CASE Connected
  BY <1>20 DEF Connected, Turns
<1>21. CASE TunnelBreaks
  BY <1>21 DEF TunnelBreaks
<1>22. CASE HandleOpen
  BY <1>22 DEF HandleOpen, Requested, Opens
<1>23. CASE HandleClose
  BY <1>23 DEF HandleClose, Requested
<1>24. CASE HandleIoctl
  BY <1>24 DEF HandleIoctl, Requested
<1>25. CASE ServesOrphan
  BY <1>25 DEF ServesOrphan
<1>26. CASE WorkerCrashes
  BY <1>26 DEF WorkerCrashes, WorkerGoes
<1>27. CASE Stop
  BY <1>27 DEF Stop
<1>28. ASSUME NEW who \in Two, Cancels(who)
      PROVE  Stopped'
  BY <1>28 DEF Cancels, Quiet
<1>29. ASSUME NEW who \in Two, IsCancelled(who)
      PROVE  Stopped'
  BY <1>29 DEF IsCancelled
<1>30. ASSUME NEW who \in Two, Releases(who)
      PROVE  Stopped'
  BY <1>30 DEF Releases
<1>31. ASSUME NEW who \in Two, IsReleased(who)
      PROVE  Stopped'
  BY <1>31 DEF IsReleased, Quiet
<1>32. ASSUME NEW who \in Two, ClosesTunnel(who)
      PROVE  Stopped'
  BY <1>32 DEF ClosesTunnel
<1>33. ASSUME NEW who \in Two, StopsWorker(who)
      PROVE  Stopped'
  BY <1>33 DEF StopsWorker, Finished
<1>34. ASSUME NEW who \in Two, WorkerStops(who)
      PROVE  Stopped'
  BY <1>34 DEF WorkerStops, WorkerGoes, Finished
<1>35. ASSUME NEW who \in Who, Serves(who)
      PROVE  Stopped'
  BY <1>35 DEF Serves
<1>36. CASE UNCHANGED vars
  BY <1>36 DEF vars
<1> QED
  BY <1>1, <1>2, <1>3, <1>4, <1>5, <1>6, <1>7, <1>8, <1>9, <1>10, <1>11,
     <1>12, <1>13, <1>14, <1>15, <1>16, <1>17, <1>18, <1>19, <1>20, <1>21,
     <1>22, <1>23, <1>24, <1>25, <1>26, <1>27, <1>28, <1>29, <1>30, <1>31,
     <1>32, <1>33, <1>34, <1>35, <1>36 DEF Next, Main, Task, Cleanup, Two

(* Every step leaves the client told before it ends.                       *)
LEMMA ToldStep ==
  ASSUME Placed, Fresh, Told, [Next]_vars
  PROVE  Told'
<1> USE DEF Fresh, Told, Heard, Cleaning, QuitPlaces, Warming, Two, Moves, warm,
        handles, counters, Placed, Young, Between, Working, IsUp, HasEnded,
        LoopIsFree
<1>1. CASE Starts
  BY <1>1 DEF Starts
<1>2. CASE FailsToLoad
  BY <1>2 DEF FailsToLoad
<1>3. CASE LacksToken
  BY <1>3 DEF LacksToken
<1>4. CASE ComesUp
  BY <1>4 DEF ComesUp
<1>5. CASE Connects
  BY <1>5 DEF Connects, Turns, OnlyMain
<1>6. CASE LeavesLoop
  BY <1>6 DEF LeavesLoop, Turns, OnlyMain
<1>7. CASE NotRegistered
  BY <1>7 DEF NotRegistered, Turns, OnlyMain
<1>8. CASE Registered
  BY <1>8 DEF Registered, Turns
<1>9. CASE EndsService
  BY <1>9 DEF EndsService, Turns, OnlyMain
<1>10. CASE PrewarmAwaited
  BY <1>10 DEF PrewarmAwaited, Opens
<1>11. CASE Answered
  BY <1>11 DEF Answered, Quiet
<1>12. CASE CallRaises
  BY <1>12 DEF CallRaises, Quiet
<1>13. CASE Wakes
  BY <1>13 DEF Wakes, Turns, OnlyMain
<1>14. CASE CleansUp
  BY <1>14 DEF CleansUp
<1>15. CASE TaskRuns
  BY <1>15 DEF TaskRuns
<1>16. CASE TaskEnds
  BY <1>16 DEF TaskEnds, Quiet
<1>17. CASE CutTaskEnds
  BY <1>17 DEF CutTaskEnds
<1>18. CASE QuitBegins
  BY <1>18 DEF QuitBegins
<1>19. CASE Refused
  BY <1>19 DEF Refused, Turns, OnlyMain
<1>20. CASE Connected
  BY <1>20 DEF Connected, Turns
<1>21. CASE TunnelBreaks
  BY <1>21 DEF TunnelBreaks
<1>22. CASE HandleOpen
  BY <1>22 DEF HandleOpen, Requested, Opens
<1>23. CASE HandleClose
  BY <1>23 DEF HandleClose, Requested
<1>24. CASE HandleIoctl
  BY <1>24 DEF HandleIoctl, Requested
<1>25. CASE ServesOrphan
  BY <1>25 DEF ServesOrphan
<1>26. CASE WorkerCrashes
  BY <1>26 DEF WorkerCrashes, WorkerGoes
<1>27. CASE Stop
  BY <1>27 DEF Stop
<1>28. ASSUME NEW who \in Two, Cancels(who)
      PROVE  Told'
  BY <1>28 DEF Cancels, Quiet
<1>29. ASSUME NEW who \in Two, IsCancelled(who)
      PROVE  Told'
  BY <1>29 DEF IsCancelled
<1>30. ASSUME NEW who \in Two, Releases(who)
      PROVE  Told'
  BY <1>30 DEF Releases
<1>31. ASSUME NEW who \in Two, IsReleased(who)
      PROVE  Told'
  BY <1>31 DEF IsReleased, Quiet
<1>32. ASSUME NEW who \in Two, ClosesTunnel(who)
      PROVE  Told'
  BY <1>32 DEF ClosesTunnel, ShutsDown
<1>33. ASSUME NEW who \in Two, StopsWorker(who)
      PROVE  Told'
  BY <1>33 DEF StopsWorker, Finished
<1>34. ASSUME NEW who \in Two, WorkerStops(who)
      PROVE  Told'
  BY <1>34 DEF WorkerStops, WorkerGoes, Finished
<1>35. ASSUME NEW who \in Who, Serves(who)
      PROVE  Told'
  BY <1>35 DEF Serves
<1>36. CASE UNCHANGED vars
  BY <1>36 DEF vars
<1> QED
  BY <1>1, <1>2, <1>3, <1>4, <1>5, <1>6, <1>7, <1>8, <1>9, <1>10, <1>11,
     <1>12, <1>13, <1>14, <1>15, <1>16, <1>17, <1>18, <1>19, <1>20, <1>21,
     <1>22, <1>23, <1>24, <1>25, <1>26, <1>27, <1>28, <1>29, <1>30, <1>31,
     <1>32, <1>33, <1>34, <1>35, <1>36 DEF Next, Main, Task, Cleanup, Two

(* Every step is one of ClientLife, or none.                               *)
LEMMA LifeStep ==
  ASSUME Placed, Fresh, Told, [Next]_vars
  PROVE  [Life!Next]_(Life!vars)
<1> USE DEF Life!Next, Life!vars, Life!Starts, Life!FailsToLoad, Life!ComesUp,
        Life!Stop, Life!Ends, Fresh, Told, Heard, Cleaning, MainPlaces,
        QuitPlaces, Two, Moves, warm, handles, counters, Placed, Young, Between,
        Working, IsUp, HasEnded, LoopIsFree
<1>1. CASE Starts
  BY <1>1 DEF Starts
<1>2. CASE FailsToLoad
  BY <1>2 DEF FailsToLoad
<1>3. CASE LacksToken
  BY <1>3 DEF LacksToken
<1>4. CASE ComesUp
  BY <1>4 DEF ComesUp
<1>5. CASE Connects
  BY <1>5 DEF Connects, Turns, OnlyMain
<1>6. CASE LeavesLoop
  BY <1>6 DEF LeavesLoop, Turns, OnlyMain
<1>7. CASE NotRegistered
  BY <1>7 DEF NotRegistered, Turns, OnlyMain
<1>8. CASE Registered
  BY <1>8 DEF Registered, Turns
<1>9. CASE EndsService
  BY <1>9 DEF EndsService, Turns, OnlyMain
<1>10. CASE PrewarmAwaited
  BY <1>10 DEF PrewarmAwaited, Opens
<1>11. CASE Answered
  BY <1>11 DEF Answered, Quiet
<1>12. CASE CallRaises
  BY <1>12 DEF CallRaises, Quiet
<1>13. CASE Wakes
  BY <1>13 DEF Wakes, Turns, OnlyMain
<1>14. CASE CleansUp
  BY <1>14 DEF CleansUp
<1>15. CASE TaskRuns
  BY <1>15 DEF TaskRuns
<1>16. CASE TaskEnds
  BY <1>16 DEF TaskEnds, Quiet
<1>17. CASE CutTaskEnds
  BY <1>17 DEF CutTaskEnds
<1>18. CASE QuitBegins
  BY <1>18 DEF QuitBegins
<1>19. CASE Refused
  BY <1>19 DEF Refused, Turns, OnlyMain
<1>20. CASE Connected
  BY <1>20 DEF Connected, Turns
<1>21. CASE TunnelBreaks
  BY <1>21 DEF TunnelBreaks
<1>22. CASE HandleOpen
  BY <1>22 DEF HandleOpen, Requested, Opens
<1>23. CASE HandleClose
  BY <1>23 DEF HandleClose, Requested
<1>24. CASE HandleIoctl
  BY <1>24 DEF HandleIoctl, Requested
<1>25. CASE ServesOrphan
  BY <1>25 DEF ServesOrphan
<1>26. CASE WorkerCrashes
  BY <1>26 DEF WorkerCrashes, WorkerGoes
<1>27. CASE Stop
  BY <1>27 DEF Stop
<1>28. ASSUME NEW who \in Two, Cancels(who)
      PROVE  [Life!Next]_(Life!vars)
  BY <1>28 DEF Cancels, Quiet
<1>29. ASSUME NEW who \in Two, IsCancelled(who)
      PROVE  [Life!Next]_(Life!vars)
  BY <1>29 DEF IsCancelled
<1>30. ASSUME NEW who \in Two, Releases(who)
      PROVE  [Life!Next]_(Life!vars)
  BY <1>30 DEF Releases
<1>31. ASSUME NEW who \in Two, IsReleased(who)
      PROVE  [Life!Next]_(Life!vars)
  BY <1>31 DEF IsReleased, Quiet
<1>32. ASSUME NEW who \in Two, ClosesTunnel(who)
      PROVE  [Life!Next]_(Life!vars)
  BY <1>32 DEF ClosesTunnel
<1>33. ASSUME NEW who \in Two, StopsWorker(who)
      PROVE  [Life!Next]_(Life!vars)
  BY <1>33 DEF StopsWorker, Finished
<1>34. ASSUME NEW who \in Two, WorkerStops(who)
      PROVE  [Life!Next]_(Life!vars)
  BY <1>34 DEF WorkerStops, WorkerGoes, Finished
<1>35. ASSUME NEW who \in Who, Serves(who)
      PROVE  [Life!Next]_(Life!vars)
  BY <1>35 DEF Serves
<1>36. CASE UNCHANGED vars
  BY <1>36 DEF vars
<1> QED
  BY <1>1, <1>2, <1>3, <1>4, <1>5, <1>6, <1>7, <1>8, <1>9, <1>10, <1>11,
     <1>12, <1>13, <1>14, <1>15, <1>16, <1>17, <1>18, <1>19, <1>20, <1>21,
     <1>22, <1>23, <1>24, <1>25, <1>26, <1>27, <1>28, <1>29, <1>30, <1>31,
     <1>32, <1>33, <1>34, <1>35, <1>36 DEF Next, Main, Task, Cleanup, Two

(* The steps that move handles or calls.                                   *)
Moving ==
    \/ LacksToken \/ ComesUp \/ PrewarmAwaited \/ Answered \/ CallRaises \/ TaskRuns
    \/ TaskEnds \/ HandleOpen \/ HandleClose \/ HandleIoctl \/ ServesOrphan \/ WorkerCrashes
    \/ \E who \in Two : Cancels(who) \/ Releases(who) \/ IsReleased(who) \/ WorkerStops(who)
    \/ \E who \in Who : Serves(who)

(* The others leave them alone.                                            *)
LEMMA StillOrMoving ==
  ASSUME Placed, [Next]_vars
  PROVE  Still \/ Moving
<1> USE DEF Still, Two, Moves, warm, handles, Placed
<1>1. CASE Starts
  BY <1>1 DEF Starts
<1>2. CASE FailsToLoad
  BY <1>2 DEF FailsToLoad
<1>3. CASE LacksToken
  BY <1>3 DEF Moving
<1>4. CASE ComesUp
  BY <1>4 DEF Moving
<1>5. CASE Connects
  BY <1>5 DEF Connects, Turns, OnlyMain
<1>6. CASE LeavesLoop
  BY <1>6 DEF LeavesLoop, Turns, OnlyMain
<1>7. CASE NotRegistered
  BY <1>7 DEF NotRegistered, Turns, OnlyMain
<1>8. CASE Registered
  BY <1>8 DEF Registered, Turns
<1>9. CASE EndsService
  BY <1>9 DEF EndsService, Turns, OnlyMain
<1>10. CASE PrewarmAwaited
  BY <1>10 DEF Moving
<1>11. CASE Answered
  BY <1>11 DEF Moving
<1>12. CASE CallRaises
  BY <1>12 DEF Moving
<1>13. CASE Wakes
  BY <1>13 DEF Wakes, Turns, OnlyMain
<1>14. CASE CleansUp
  BY <1>14 DEF CleansUp
<1>15. CASE TaskRuns
  BY <1>15 DEF Moving
<1>16. CASE TaskEnds
  BY <1>16 DEF Moving
<1>17. CASE CutTaskEnds
  BY <1>17 DEF CutTaskEnds
<1>18. CASE QuitBegins
  BY <1>18 DEF QuitBegins
<1>19. CASE Refused
  BY <1>19 DEF Refused, Turns, OnlyMain
<1>20. CASE Connected
  BY <1>20 DEF Connected, Turns
<1>21. CASE TunnelBreaks
  BY <1>21 DEF TunnelBreaks
<1>22. CASE HandleOpen
  BY <1>22 DEF Moving
<1>23. CASE HandleClose
  BY <1>23 DEF Moving
<1>24. CASE HandleIoctl
  BY <1>24 DEF Moving
<1>25. CASE ServesOrphan
  BY <1>25 DEF Moving
<1>26. CASE WorkerCrashes
  BY <1>26 DEF Moving
<1>27. CASE Stop
  BY <1>27 DEF Stop
<1>28. ASSUME NEW who \in Two, Cancels(who)
      PROVE  Still \/ Moving
  BY <1>28 DEF Moving
<1>29. ASSUME NEW who \in Two, IsCancelled(who)
      PROVE  Still \/ Moving
  BY <1>29 DEF IsCancelled
<1>30. ASSUME NEW who \in Two, Releases(who)
      PROVE  Still \/ Moving
  BY <1>30 DEF Moving
<1>31. ASSUME NEW who \in Two, IsReleased(who)
      PROVE  Still \/ Moving
  BY <1>31 DEF Moving
<1>32. ASSUME NEW who \in Two, ClosesTunnel(who)
      PROVE  Still \/ Moving
  BY <1>32 DEF ClosesTunnel
<1>33. ASSUME NEW who \in Two, StopsWorker(who)
      PROVE  Still \/ Moving
  BY <1>33 DEF StopsWorker, Finished
<1>34. ASSUME NEW who \in Two, WorkerStops(who)
      PROVE  Still \/ Moving
  BY <1>34 DEF Moving
<1>35. ASSUME NEW who \in Who, Serves(who)
      PROVE  Still \/ Moving
  BY <1>35 DEF Moving
<1>36. CASE UNCHANGED vars
  BY <1>36 DEF vars
<1> QED
  BY <1>1, <1>2, <1>3, <1>4, <1>5, <1>6, <1>7, <1>8, <1>9, <1>10, <1>11,
     <1>12, <1>13, <1>14, <1>15, <1>16, <1>17, <1>18, <1>19, <1>20, <1>21,
     <1>22, <1>23, <1>24, <1>25, <1>26, <1>27, <1>28, <1>29, <1>30, <1>31,
     <1>32, <1>33, <1>34, <1>35, <1>36 DEF Next, Main, Task, Cleanup, Two

(* Every step keeps what main closes given.                                *)
LEMMA ClosesStep ==
  ASSUME Shape, Closes, [Next]_vars
  PROVE  Closes'
<1> USE DEF Shape, Placed, Calling, Closes, Who, Two, Moves, handles, warm
<1>1. CASE Still
  BY <1>1 DEF Still
<1>2. CASE LacksToken
  BY <1>2 DEF LacksToken
<1>3. CASE ComesUp
  BY <1>3 DEF ComesUp
<1>4. CASE PrewarmAwaited
  BY <1>4, Sending, Names DEF PrewarmAwaited, Opens
<1>5. CASE Answered
  BY <1>5, Quieted DEF Answered
<1>6. CASE CallRaises
  BY <1>6, Quieted DEF CallRaises
<1>7. CASE TaskRuns
  BY <1>7, Sending, Names DEF TaskRuns
<1>8. CASE TaskEnds
  <2>1. call'["main"] = call["main"]
    BY <1>8, Quieted DEF TaskEnds
  <2>2. at' = at /\ given' = given
    BY <1>8 DEF TaskEnds
  <2> QED
    BY <2>1, <2>2
<1>9. CASE HandleOpen
  BY <1>9, Sending, Names DEF HandleOpen, Opens, Requested
<1>10. CASE HandleClose
  <2>1. PICK d \in given : Sends("main", "close", d)
    BY <1>10 DEF HandleClose
  <2>2. d \in Handle /\ d # NoDevice
    BY ReverseClientAssumption DEF Typed, Handle
  <2> QED
    BY <1>10, <2>1, <2>2, Sending, Names DEF HandleClose, Requested
<1>11. CASE HandleIoctl
  BY <1>11, Sending, Names DEF HandleIoctl, Requested
<1>12. CASE ServesOrphan
  BY <1>12 DEF ServesOrphan
<1>13. CASE WorkerCrashes
  BY <1>13, Going DEF WorkerCrashes
<1>14. ASSUME NEW who \in Two, Cancels(who)
      PROVE  Closes'
  BY <1>14, Quieted DEF Cancels
<1>15. ASSUME NEW who \in Two, Releases(who)
      PROVE  Closes'
  <2>1. prewarm \in Handle
    BY DEF Typed
  <2>2. CASE prewarm # NoDevice /\ driver
    <3>1. Sends(who, "close", prewarm)
      BY <1>15, <2>2 DEF Releases
    <3>2. CASE who = "main"
      BY <1>15, <2>1, <2>2, <3>1, <3>2, Sending, Names DEF Releases
    <3>3. CASE who = "quit"
      BY <1>15, <2>1, <2>2, <3>1, <3>3, Sending, Names DEF Releases
    <3> QED
      BY <3>2, <3>3
  <2>3. CASE ~(prewarm # NoDevice /\ driver)
    BY <1>15, <2>3 DEF Releases
  <2> QED
    BY <2>2, <2>3
<1>16. ASSUME NEW who \in Two, IsReleased(who)
      PROVE  Closes'
  <2>1. CASE who = "main"
    BY <1>16, <2>1, Quieted DEF IsReleased
  <2>2. CASE who = "quit"
    <3>1. call'["main"] = call["main"]
      BY <1>16, <2>2, Quieted DEF IsReleased
    <3>2. at'["main"] = at["main"] /\ given' = given
      BY <1>16, <2>2 DEF IsReleased
    <3> QED
      BY <3>1, <3>2
  <2> QED
    BY <2>1, <2>2
<1>17. ASSUME NEW who \in Two, WorkerStops(who)
      PROVE  Closes'
  BY <1>17, Going DEF WorkerStops, Finished
<1>18. ASSUME NEW who \in Who, Serves(who)
      PROVE  Closes'
  BY <1>18, Served DEF Serves
<1> QED
  BY StillOrMoving, <1>1, <1>2, <1>3, <1>4, <1>5, <1>6, <1>7, <1>8, <1>9,
     <1>10, <1>11, <1>12, <1>13, <1>14, <1>15, <1>16, <1>17, <1>18 DEF Moving,
     Shape

-----------------------------------------------------------------------------
(* Handles change hands.                                                   *)

LEMMA Holdings ==
  /\ Holds("kept") = Kept /\ Holds("prewarm") = {prewarm} \ {NoDevice}
  /\ \A w \in Who : Holds(w) = IF Grip(call[w]) THEN {call[w].dev} ELSE {}
  BY DEF Holds, Who

LEMMA HoldingsNext ==
  /\ Holds("kept")' = Kept' /\ Holds("prewarm")' = {prewarm'} \ {NoDevice}
  /\ \A w \in Who : Holds(w)' = IF Grip(call'[w]) THEN {call'[w].dev} ELSE {}
  BY DEF Holds, Who, Grip

(* From one owner to another.                                              *)
LEMMA Passes ==
  ASSUME Owned, NEW from \in Owners, NEW to \in Owners, from # to,
         Holds(from)' = {}, Holds(to)' = Holds(to) \cup Holds(from),
         \A o \in Owners \ {from, to} : Holds(o)' = Holds(o),
         open' = open, lost \subseteq lost'
  PROVE  Owned'
  BY DEF Owned

(* A handle of one owner, of which it has more.                            *)
LEMMA PassesOne ==
  ASSUME Owned, NEW from \in Owners, NEW to \in Owners, from # to,
         NEW d \in Holds(from),
         Holds(from)' = Holds(from) \ {d}, Holds(to)' = Holds(to) \cup {d},
         \A o \in Owners \ {from, to} : Holds(o)' = Holds(o),
         open' = open, lost \subseteq lost'
  PROVE  Owned'
  BY DEF Owned

LEMMA Stays ==
  ASSUME Owned, \A o \in Owners : Holds(o)' = Holds(o), open' = open, lost \subseteq lost'
  PROVE  Owned'
  BY DEF Owned

LEMMA Loses ==
  ASSUME Owned, NEW from \in Owners, Holds(from)' = {},
         \A o \in Owners \ {from} : Holds(o)' = Holds(o),
         open' = open, Holds(from) \cup lost \subseteq lost'
  PROVE  Owned'
  BY DEF Owned

LEMMA Obtains ==
  ASSUME Owned, NEW to \in Owners, NEW d, d \notin open,
         Holds(to) = {}, Holds(to)' = {d},
         \A o \in Owners \ {to} : Holds(o)' = Holds(o),
         open' = open \cup {d}, lost' = lost
  PROVE  Owned'
  BY DEF Owned

LEMMA GivesUp ==
  ASSUME Owned, NEW from \in Owners, Holds(from)' = {},
         \A o \in Owners \ {from} : Holds(o)' = Holds(o),
         open' = open \ Holds(from), lost' = lost
  PROVE  Owned'
  BY DEF Owned

LEMMA OthersHold ==
  ASSUME NEW w \in Who, \A v \in Who \ {w} : call'[v] = call[v]
  PROVE  \A v \in Who \ {w} : Holds(v)' = Holds(v)
  BY Holdings, HoldingsNext

LEMMA KeptStays ==
  ASSUME given' = given, call'["main"].op = call["main"].op,
         call'["main"].dev = call["main"].dev
  PROVE  Holds("kept")' = Holds("kept")
  BY Holdings, HoldingsNext DEF Kept

LEMMA KeptIsGiven ==
  /\ call["main"].op # "close" => Holds("kept") = given
  /\ call'["main"].op # "close" => Holds("kept")' = given'
  BY Holdings, HoldingsNext DEF Kept

LEMMA PrewarmStays ==
  ASSUME prewarm' = prewarm
  PROVE  Holds("prewarm")' = Holds("prewarm")
  BY Holdings, HoldingsNext

(* Main takes the pre-warmed handle, or opens another.                     *)
LEMMA OpensOwned ==
  ASSUME Owned, CallTyped, call["main"].op = "ioctl", Opens,
         open' = open, lost' = lost
  PROVE  Owned'
<1>0. "main" \in Who /\ Owners = {"main", "quit", "task", "kept", "prewarm"}
  BY DEF Owners, Who
<1>1. CASE prewarm # NoDevice
  <2>1. call' = call /\ given' = given \cup {prewarm} /\ prewarm' = NoDevice
    BY <1>1 DEF Opens
  <2>2. /\ Holds("prewarm")' = {}
        /\ Holds("kept")' = Holds("kept") \cup Holds("prewarm")
    BY <1>1, <2>1, Holdings, HoldingsNext, KeptIsGiven
  <2>3. \A v \in Who : Holds(v)' = Holds(v)
    BY <2>1, Holdings, HoldingsNext
  <2> QED
    BY <1>0, <2>2, <2>3, Passes DEF Who
<1>2. CASE prewarm = NoDevice
  <2>1. Sends("main", "open", NoDevice) /\ given' = given /\ prewarm' = prewarm
    BY <1>2 DEF Opens
  <2>2. call'["main"].op = "open" /\ call'["main"].at # "answered"
        /\ \A v \in Who \ {"main"} : call'[v] = call[v]
    BY <1>0, <2>1, Sending, Names
  <2>3. Holds("main")' = Holds("main")
    BY <1>0, <2>2, Holdings, HoldingsNext DEF Grip
  <2>4. Holds("kept")' = Holds("kept")
    BY <2>1, <2>2, KeptIsGiven
  <2> QED
    BY <1>0, <2>1, <2>2, <2>3, <2>4, OthersHold, PrewarmStays, Stays DEF Who
<1> QED
  BY <1>1, <1>2

(* The driver answers a call.                                              *)
LEMMA ServesOwned ==
  ASSUME Owned, CallTyped, NEW w \in Who, HasHandle(call[w]), Serves(w)
  PROVE  Owned'
<1>0. /\ w \in Owners /\ Owners = {"main", "quit", "task", "kept", "prewarm"}
      /\ NoDevice \notin Devices
  BY ReverseClientAssumption DEF Owners, Who
<1>1. /\ call[w].at = "sent" /\ call'[w].op = call[w].op
      /\ \A v \in Who \ {w} : call'[v] = call[v]
  BY Served
<1>2. prewarm' = prewarm /\ given' = given /\ lost' = lost
  BY DEF Serves, warm
<1>3. \A v \in Who \ {w} : Holds(v)' = Holds(v)
  BY <1>1, OthersHold
<1>4. Holds("prewarm")' = Holds("prewarm")
  BY <1>2, PrewarmStays
<1>5. call[w].op = "close" => call'[w].dev = call[w].dev
  BY Served
<1>6. Holds("kept")' = Holds("kept")
  <2>1. CASE call["main"].op # "close"
    <3>1. call'["main"].op # "close"
      BY <1>1, <2>1 DEF Who
    <3> QED
      BY <1>2, <2>1, <3>1, KeptIsGiven
  <2>2. CASE call["main"].op = "close"
    BY <1>1, <1>2, <1>5, <2>2, KeptStays DEF Who
  <2> QED
    BY <2>1, <2>2
<1>7. \A o \in Owners \ {w} : Holds(o)' = Holds(o)
  BY <1>0, <1>3, <1>4, <1>6 DEF Who
<1>8. CASE /\ call[w].op = "open" /\ call'[w].at = "answered" /\ call'[w].ok
           /\ call'[w].dev \in Devices \ open /\ open' = open \cup {call'[w].dev}
  <2>1. Holds(w) = {} /\ Holds(w)' = {call'[w].dev}
    BY <1>1, <1>8, Holdings, HoldingsNext DEF Grip
  <2> QED
    BY <1>0, <1>2, <1>7, <1>8, <2>1, Obtains
<1>9. CASE /\ call[w].op = "close" /\ call'[w].at = "answered" /\ call'[w].ok
           /\ call'[w].dev = call[w].dev /\ open' = open \ {call[w].dev}
  <2>1. Holds(w) = {call[w].dev} /\ Holds(w)' = {}
    BY <1>1, <1>9, Holdings, HoldingsNext DEF Grip
  <2> QED
    BY <1>0, <1>2, <1>7, <1>9, <2>1, GivesUp
<1>10. CASE call[w].op = "ioctl" /\ call'[w].at = "answered" /\ open' = open
  <2>1. Holds(w)' = Holds(w)
    BY <1>1, <1>10, Holdings, HoldingsNext DEF Grip
  <2> QED
    BY <1>0, <1>2, <1>7, <1>10, <2>1, Stays
<1>11. CASE /\ call[w].op = "close" => call[w].dev \notin open
            /\ call'[w].at = "answered" /\ ~call'[w].ok
            /\ call'[w].dev = call[w].dev /\ open' = open
  <2>1. call[w].op # "close"
    <3>1. call[w].op = "close" => Holds(w) = {call[w].dev}
      BY <1>1, Holdings DEF Grip
    <3> QED
      BY <1>0, <1>11, <3>1 DEF Owned
  <2>2. Holds(w)' = Holds(w)
    BY <1>1, <1>11, <2>1, Holdings, HoldingsNext DEF Grip
  <2> QED
    BY <1>0, <1>2, <1>7, <1>11, <2>2, Stays
<1>12. CASE call'[w].at = "raised" /\ call'[w].dev = call[w].dev /\ open' = open
  <2>1. Holds(w)' = Holds(w)
    BY <1>1, <1>12, Holdings, HoldingsNext DEF Grip
  <2> QED
    BY <1>0, <1>2, <1>7, <1>12, <2>1, Stays
<1> QED
  BY <1>8, <1>9, <1>10, <1>11, <1>12, Served

(* Every step passes handles on, opens, closes or loses one.               *)
LEMMA OwnedStep ==
  ASSUME Shape, Fresh, Cleaned, Stopped, Closes, Owned, MainCloses,
         worker = "up", worker' = "up", [Next]_vars
  PROVE  Owned'
<1>0. /\ CallTyped /\ Calling /\ Placed /\ \A w \in Who : HasHandle(call[w])
      /\ Two \subseteq Who /\ Who \subseteq Owners /\ at["main"] \notin Young
      /\ Owners = {"main", "quit", "task", "kept", "prewarm"}
  BY DEF Shape, Calling, Two, Who, Owners, Fresh
<1>1. CASE Still
  <2>1. Kept' = Kept
    BY <1>1 DEF Still, Kept
  <2>2. \A o \in Owners : Holds(o)' = Holds(o)
    BY <1>0, <1>1, <2>1, Holdings, HoldingsNext DEF Still, Who
  <2> QED
    BY <1>1, <2>2, Stays DEF Still
<1>2. CASE LacksToken
  BY <1>0, <1>2 DEF LacksToken, Young
<1>3. CASE ComesUp
  BY <1>0, <1>3 DEF ComesUp, Young
<1>4. CASE PrewarmAwaited
  <2>1. CASE task = "over"
    <3>1. call' = call /\ given' = given /\ prewarm' = prewarm
      BY <1>4, <2>1 DEF PrewarmAwaited, warm
    <3>2. Kept' = Kept
      BY <3>1 DEF Kept
    <3>3. \A o \in Owners : Holds(o)' = Holds(o)
      BY <1>0, <3>1, <3>2, Holdings, HoldingsNext DEF Who
    <3> QED
      BY <1>4, <3>3, Stays DEF PrewarmAwaited
  <2>2. CASE task # "over"
    <3>1. call["main"].op = "ioctl"
      BY <1>0, <1>4 DEF PrewarmAwaited, Calling
    <3>2. Opens /\ open' = open /\ lost' = lost
      BY <1>4, <2>2 DEF PrewarmAwaited
    <3> QED
      BY <1>0, <3>1, <3>2, OpensOwned
  <2> QED
    BY <2>1, <2>2
<1>5. CASE Answered
  <2>1. /\ call["main"].at = "answered" /\ open' = open
        /\ call' = [call EXCEPT !["main"] = Quiet]
    BY <1>5 DEF Answered
  <2>2. /\ call'["main"].op = "ioctl"
        /\ \A v \in Who \ {"main"} : call'[v] = call[v]
    BY <1>0, <2>1, Quieted DEF Two
  <2>3. Holds("main")' = {} /\ Holds("kept")' = given'
    BY <1>0, <2>2, Holdings, HoldingsNext, KeptIsGiven DEF Grip, Two
  <2>4. Holds("quit")' = Holds("quit") /\ Holds("task")' = Holds("task")
    BY <1>0, <2>2, OthersHold DEF Who
  <2>5. CASE call["main"].op = "close"
    <3>1. given' = given \ {call["main"].dev} /\ prewarm' = NoDevice
          /\ lost' = lost \cup ({prewarm} \cap open)
      <4>1. call["main"].ok
        BY <1>5, <2>1, <2>5 DEF MainCloses, Answered
      <4> QED
        BY <1>5, <2>5, <4>1 DEF Answered
    <3>2. Holds("kept")' = Holds("kept")
      BY <2>3, <2>5, <3>1, Holdings DEF Kept
    <3>3. Holds("main") = {}
      BY <1>0, <2>1, <2>5, Holdings DEF Grip, Two
    <3>4. Holds("prewarm")' = {} /\ Holds("prewarm") \cup lost \subseteq lost'
      BY <1>0, <3>1, Holdings, HoldingsNext DEF Owned
    <3> QED
      BY <1>0, <2>1, <2>3, <2>4, <3>2, <3>3, <3>4, Loses
  <2>6. CASE call["main"].op # "close"
    <3>1. prewarm' = prewarm /\ lost' = lost
      BY <1>5, <2>6 DEF Answered
    <3>2. Holds("kept") = given /\ Holds("prewarm")' = Holds("prewarm")
      BY <2>6, <3>1, KeptIsGiven, PrewarmStays
    <3>3. given' = given \cup Holds("main")
      BY <1>0, <1>5, <2>1, <2>6, Holdings DEF Answered, Grip, Two
    <3> QED
      BY <1>0, <2>1, <2>3, <2>4, <3>1, <3>2, <3>3, Passes
  <2> QED
    BY <2>5, <2>6
<1>6. CASE CallRaises
  <2>1. /\ call["main"].at = "raised" /\ open' = open /\ lost' = lost
        /\ prewarm' = prewarm /\ given' = given
        /\ call' = [call EXCEPT !["main"] = Quiet] /\ at["main"] = "calling"
    BY <1>6 DEF CallRaises, handles, warm
  <2>2. /\ call'["main"].op = "ioctl"
        /\ \A v \in Who \ {"main"} : call'[v] = call[v]
    BY <1>0, <2>1, Quieted DEF Two
  <2>3. Holds("main")' = {} /\ Holds("kept")' = given
    BY <1>0, <2>1, <2>2, Holdings, HoldingsNext, KeptIsGiven DEF Grip, Two
  <2>4. /\ Holds("quit")' = Holds("quit") /\ Holds("task")' = Holds("task")
        /\ Holds("prewarm")' = Holds("prewarm")
    BY <1>0, <2>1, <2>2, OthersHold, PrewarmStays DEF Who
  <2>5. given = Holds("kept") \cup Holds("main")
    <3>1. CASE call["main"].op = "close"
      <4>1. Holds("main") = {call["main"].dev} /\ Holds("kept") = given \ {call["main"].dev}
        BY <1>0, <2>1, <3>1, Holdings DEF Grip, Two, Kept
      <4>2. call["main"].dev \in given
        BY <2>1, <3>1 DEF Closes
      <4> QED
        BY <4>1, <4>2
    <3>2. CASE call["main"].op # "close"
      BY <1>0, <2>1, <3>2, Holdings, KeptIsGiven DEF Grip, Two
    <3> QED
      BY <3>1, <3>2
  <2> QED
    BY <1>0, <2>1, <2>3, <2>4, <2>5, Passes
<1>7. CASE TaskRuns
  <2>1. /\ open' = open /\ lost' = lost /\ prewarm' = prewarm /\ given' = given
        /\ call["task"].at = "none"
    BY <1>0, <1>7 DEF TaskRuns, handles, Calling
  <2>2. /\ Holds("task")' = {} /\ Holds("task") = {}
        /\ \A v \in Who \ {"task"} : call'[v] = call[v]
    <3>1. CASE driver
      <4>1. /\ call'["task"].op = "open" /\ call'["task"].at # "answered"
            /\ \A v \in Who \ {"task"} : call'[v] = call[v]
        BY <1>0, <1>7, <3>1, Sending, Names DEF TaskRuns, Who
      <4> QED
        BY <2>1, <4>1, Holdings, HoldingsNext DEF Grip, Who
    <3>2. CASE ~driver
      BY <1>7, <2>1, <3>2, Holdings, HoldingsNext DEF TaskRuns, Grip, Who
    <3> QED
      BY <3>1, <3>2
  <2>3. Holds("kept")' = Holds("kept") /\ Holds("prewarm")' = Holds("prewarm")
    BY <2>1, <2>2, KeptStays, PrewarmStays DEF Who
  <2>4. Holds("quit")' = Holds("quit") /\ Holds("main")' = Holds("main")
    BY <2>2, OthersHold DEF Who
  <2> QED
    BY <1>0, <2>1, <2>2, <2>3, <2>4, Stays
<1>8. CASE TaskEnds
  <2>1. /\ open' = open /\ lost' = lost /\ given' = given
        /\ call["task"].op = "open" /\ prewarm = NoDevice
        /\ call' = [call EXCEPT !["task"] = Quiet]
        /\ prewarm' = IF call["task"].at = "answered" /\ call["task"].ok
                      THEN call["task"].dev ELSE NoDevice
    BY <1>0, <1>8 DEF TaskEnds, handles, Calling, Cleaned, Warming
  <2>2. /\ call'["task"].op = "ioctl"
        /\ \A v \in Who \ {"task"} : call'[v] = call[v]
    BY <1>0, <2>1, Quieted DEF Who
  <2>3. Holds("task")' = {} /\ Holds("prewarm") = {}
    BY <2>1, <2>2, Holdings, HoldingsNext DEF Grip, Who
  <2>4. Holds("prewarm")' = Holds("task")
    BY <1>0, <2>1, Holdings, HoldingsNext DEF Grip, HasHandle, Who
  <2>5. Holds("kept")' = Holds("kept") /\ Holds("quit")' = Holds("quit")
        /\ Holds("main")' = Holds("main")
    BY <2>1, <2>2, KeptStays, OthersHold DEF Who
  <2> QED
    BY <1>0, <2>1, <2>3, <2>4, <2>5, Passes
<1>9. CASE HandleOpen
  <2>1. CASE held /\ task \in {"made", "opens"}
    <3>1. call' = call /\ given' = given /\ prewarm' = prewarm
      BY <1>9, <2>1 DEF HandleOpen, warm
    <3>2. Kept' = Kept
      BY <3>1 DEF Kept
    <3>3. \A o \in Owners : Holds(o)' = Holds(o)
      BY <1>0, <3>1, <3>2, Holdings, HoldingsNext DEF Who
    <3> QED
      BY <1>9, <3>3, Stays DEF HandleOpen
  <2>2. CASE ~(held /\ task \in {"made", "opens"})
    <3>1. call["main"].op = "ioctl"
      BY <1>0, <1>9 DEF HandleOpen, Requested, Calling
    <3>2. Opens /\ open' = open /\ lost' = lost
      BY <1>9, <2>2 DEF HandleOpen
    <3> QED
      BY <1>0, <3>1, <3>2, OpensOwned
  <2> QED
    BY <2>1, <2>2
<1>10. CASE HandleClose
  <2>1. /\ open' = open /\ lost' = lost /\ prewarm' = prewarm /\ given' = given
        /\ call["main"].op = "ioctl"
    BY <1>0, <1>10 DEF HandleClose, Requested, handles, warm, Calling
  <2>2. PICK d \in given : Sends("main", "close", d)
    BY <1>10 DEF HandleClose
  <2>3. d \in Handle
    BY <2>2 DEF Shape, Typed, Handle
  <2>4. /\ call'["main"].op = "close" /\ call'["main"].dev = d
        /\ call'["main"].at \in {"sent", "raised"}
        /\ \A v \in Who \ {"main"} : call'[v] = call[v]
    <3>1. "main" \in Who /\ "close" \in Ops
      BY DEF Who, Ops
    <3> QED
      BY <1>0, <2>2, <2>3, <3>1, Sending
  <2>5. Holds("main") = {} /\ Holds("main")' = {d}
    BY <1>0, <2>1, <2>4, Holdings, HoldingsNext DEF Grip, Two
  <2>6. Holds("kept") = given /\ Holds("kept")' = given \ {d}
    BY <2>1, <2>4, Holdings, HoldingsNext DEF Kept
  <2>7. Holds("quit")' = Holds("quit") /\ Holds("task")' = Holds("task")
        /\ Holds("prewarm")' = Holds("prewarm")
    BY <2>1, <2>4, OthersHold, PrewarmStays DEF Who
  <2> QED
    BY <1>0, <2>1, <2>2, <2>5, <2>6, <2>7, PassesOne
<1>11. CASE HandleIoctl
  <2>1. /\ open' = open /\ lost' = lost /\ prewarm' = prewarm /\ given' = given
        /\ call["main"].op = "ioctl"
    BY <1>0, <1>11 DEF HandleIoctl, Requested, handles, warm, Calling
  <2>2. call'["main"].op = "ioctl" /\ \A v \in Who \ {"main"} : call'[v] = call[v]
    <3>1. CASE cached
      BY <1>11, <2>1, <3>1 DEF HandleIoctl
    <3>2. CASE ~cached
      BY <1>0, <1>11, <3>2, Sending, Names DEF HandleIoctl, Two
    <3> QED
      BY <3>1, <3>2
  <2>3. Holds("main") = {} /\ Holds("main")' = {}
    BY <1>0, <2>1, <2>2, Holdings, HoldingsNext DEF Grip, Two
  <2>4. Holds("kept")' = Holds("kept") /\ Holds("prewarm")' = Holds("prewarm")
    BY <2>1, <2>2, KeptIsGiven, PrewarmStays
  <2>5. Holds("quit")' = Holds("quit") /\ Holds("task")' = Holds("task")
    BY <1>0, <2>2, OthersHold DEF Who
  <2> QED
    BY <1>0, <2>1, <2>3, <2>4, <2>5, Stays
<1>12. CASE ServesOrphan
  <2>1. PICK opened \in {{}} \cup {{d} : d \in Devices \ open} :
          open' = open \cup opened /\ lost' = lost \cup opened
    BY <1>12 DEF ServesOrphan
  <2>2. call' = call /\ given' = given /\ prewarm' = prewarm
    BY <1>12 DEF ServesOrphan, warm
  <2>3. Kept' = Kept
    BY <2>2 DEF Kept
  <2>4. \A o \in Owners : Holds(o)' = Holds(o)
    BY <1>0, <2>2, <2>3, Holdings, HoldingsNext DEF Who
  <2> QED
    BY <2>1, <2>4 DEF Owned
<1>13. CASE WorkerCrashes
  BY <1>13 DEF WorkerCrashes, WorkerGoes
<1>14. ASSUME NEW who \in Two, Cancels(who)
       PROVE  Owned'
  <2>1. /\ open' = open /\ prewarm' = prewarm /\ given' = given
    BY <1>14 DEF Cancels
  <2>2. CASE held /\ task \in {"made", "opens"}
    <3>1. /\ call' = [call EXCEPT !["task"] = Quiet]
          /\ lost' = lost \cup (IF call["task"].at = "answered" /\ call["task"].ok
                                THEN {call["task"].dev} ELSE {})
      BY <1>14, <2>2 DEF Cancels
    <3>2. /\ call'["task"].op = "ioctl"
          /\ \A v \in Who \ {"task"} : call'[v] = call[v]
      BY <1>0, <3>1, Quieted DEF Who
    <3>3. Holds("task")' = {}
      BY <3>2, HoldingsNext DEF Grip, Who
    <3>4. Holds("task") \cup lost \subseteq lost'
      <4>1. call["task"].at = "none" \/ call["task"].op = "open"
        BY <1>0 DEF Calling
      <4> QED
        BY <3>1, <4>1, Holdings DEF Grip, Who
    <3>5. Holds("kept")' = Holds("kept") /\ Holds("prewarm")' = Holds("prewarm")
      BY <2>1, <3>2, KeptStays, PrewarmStays DEF Who
    <3>6. Holds("quit")' = Holds("quit") /\ Holds("main")' = Holds("main")
      BY <3>2, OthersHold DEF Who
    <3> QED
      BY <1>0, <2>1, <3>3, <3>4, <3>5, <3>6, Loses
  <2>3. CASE ~(held /\ task \in {"made", "opens"})
    <3>1. call' = call /\ lost' = lost
      BY <1>14, <2>3 DEF Cancels
    <3>2. Kept' = Kept
      BY <2>1, <3>1 DEF Kept
    <3>3. \A o \in Owners : Holds(o)' = Holds(o)
      BY <1>0, <2>1, <3>1, <3>2, Holdings, HoldingsNext DEF Who
    <3> QED
      BY <2>1, <3>1, <3>3, Stays
  <2> QED
    BY <2>2, <2>3
<1>15. ASSUME NEW who \in Two, Releases(who)
       PROVE  Owned'
  <2>1. /\ open' = open /\ lost' = lost /\ given' = given /\ prewarm' = NoDevice
        /\ LoopIsFree /\ at[who] = "release"
    BY <1>15 DEF Releases, handles
  <2>2. IsUp /\ at["main"] # "blocked" /\ at["quit"] # "blocked"
    BY <1>0, <2>1 DEF LoopIsFree, IsUp, Fresh, Young, Two
  <2>3. driver
    BY <2>2 DEF Stopped
  <2>4. call[who].at = "none"
    BY <1>0, <2>1 DEF Calling, Two
  <2>5. CASE prewarm = NoDevice
    <3>1. call' = call
      BY <1>15, <2>5 DEF Releases
    <3>2. Kept' = Kept
      BY <2>1, <3>1 DEF Kept
    <3>3. \A o \in Owners : Holds(o)' = Holds(o)
      BY <1>0, <2>1, <2>5, <3>1, <3>2, Holdings, HoldingsNext DEF Who
    <3> QED
      BY <2>1, <3>3, Stays
  <2>6. CASE prewarm # NoDevice
    <3>1. Sends(who, "close", prewarm)
      BY <1>15, <2>3, <2>6 DEF Releases
    <3>2. prewarm \in Handle /\ who \in Who
      BY <1>0 DEF Shape, Typed
    <3>3. /\ call'[who].op = "close" /\ call'[who].dev = prewarm
          /\ call'[who].at \in {"sent", "raised"}
          /\ \A v \in Who \ {who} : call'[v] = call[v]
      BY <1>0, <3>1, <3>2, Sending, Names
    <3>4. Holds("prewarm") = {prewarm} /\ Holds("prewarm")' = {}
      BY <2>1, <2>6, Holdings, HoldingsNext
    <3>5. Holds(who) = {} /\ Holds(who)' = {prewarm}
      BY <2>4, <3>2, <3>3, Holdings, HoldingsNext DEF Grip
    <3>6. \A v \in Who \ {who} : Holds(v)' = Holds(v)
      BY <3>2, <3>3, OthersHold
    <3>7. Holds("kept")' = Holds("kept")
      <4>1. CASE who = "main"
        <5>1. Holds("kept") = given
          BY <1>0, <2>4, <4>1, KeptIsGiven DEF Calling
        <5>2. prewarm \notin given
          BY <1>0, <3>4, <5>1 DEF Owned
        <5> QED
          BY <2>1, <3>3, <4>1, <5>1, <5>2, HoldingsNext DEF Kept
      <4>2. CASE who # "main"
        BY <1>0, <2>1, <3>3, <4>2, KeptStays DEF Two
      <4> QED
        BY <4>1, <4>2
    <3> QED
      BY <1>0, <2>1, <3>2, <3>4, <3>5, <3>6, <3>7, Passes DEF Who
  <2> QED
    BY <2>5, <2>6
<1>16. ASSUME NEW who \in Two, IsReleased(who)
       PROVE  Owned'
  <2>1. /\ open' = open /\ prewarm' = prewarm /\ given' = given
        /\ at[who] = "await_release" /\ call[who].at \in {"answered", "raised"}
        /\ call' = [call EXCEPT ![who] = Quiet]
        /\ lost' = IF call[who].at = "answered" /\ call[who].ok THEN lost
                   ELSE lost \cup ({call[who].dev} \cap open)
    BY <1>16 DEF IsReleased, warm
  <2>2. who \in Who /\ call[who].op = "close"
    BY <1>0, <2>1 DEF Calling, Two
  <2>3. call'[who].op = "ioctl" /\ \A v \in Who \ {who} : call'[v] = call[v]
    BY <1>0, <2>1, <2>2, Quieted
  <2>4. Holds(who)' = {}
    BY <2>2, <2>3, HoldingsNext DEF Grip
  <2>5. Holds(who) \cup lost \subseteq lost'
    <3>1. Holds(who) = IF call[who].at = "raised" THEN {call[who].dev} ELSE {}
      BY <2>1, <2>2, Holdings DEF Grip
    <3>2. Holds(who) \subseteq open
      BY <1>0, <2>2 DEF Owned
    <3> QED
      BY <2>1, <3>1, <3>2
  <2>6. \A v \in Who \ {who} : Holds(v)' = Holds(v)
    BY <2>2, <2>3, OthersHold
  <2>7. Holds("prewarm")' = Holds("prewarm")
    BY <2>1, PrewarmStays
  <2>8. Holds("kept")' = Holds("kept")
    <3>1. CASE who = "main"
      <4>1. call["main"].dev \notin given
        BY <2>1, <3>1 DEF MainCloses
      <4>2. Kept = given /\ Kept' = given
        <5>1. Kept' = given'
          BY <2>3, <3>1 DEF Kept
        <5>2. Kept = given
          BY <4>1 DEF Kept
        <5> QED
          BY <2>1, <5>1, <5>2
      <4> QED
        BY <4>2, Holdings, HoldingsNext
    <3>2. CASE who # "main"
      BY <1>0, <2>1, <2>3, <3>2, KeptStays DEF Two
    <3> QED
      BY <3>1, <3>2
  <2>9. who \in Owners /\ \A o \in Owners \ {who} : Holds(o)' = Holds(o)
    BY <1>0, <2>2, <2>6, <2>7, <2>8 DEF Who
  <2> QED
    BY <2>1, <2>4, <2>5, <2>9, Loses
<1>17. ASSUME NEW who \in Two, WorkerStops(who)
       PROVE  Owned'
  BY <1>17 DEF WorkerStops, WorkerGoes
<1>18. ASSUME NEW who \in Who, Serves(who)
       PROVE  Owned'
  BY <1>0, <1>18, ServesOwned
<1> QED
  BY <1>0, <1>1, <1>2, <1>3, <1>4, <1>5, <1>6, <1>7, <1>8, <1>9, <1>10, <1>11, <1>12,
     <1>13, <1>14, <1>15, <1>16, <1>17, <1>18, StillOrMoving DEF Moving

(* Every step keeps what main closes.                                      *)
LEMMA MainClosesStep ==
  ASSUME Shape, Fresh, Owned, MainCloses,
         worker = "up", worker' = "up", [Next]_vars
  PROVE  MainCloses'
<1> USE DEF Shape, Placed, Fresh, Calling, MainCloses, Who, Two, Moves, handles,
        warm
<1>1. CASE Still
  BY <1>1 DEF Still
<1>2. CASE LacksToken
  BY <1>2 DEF LacksToken, Young
<1>3. CASE ComesUp
  BY <1>3 DEF ComesUp, Young
<1>4. CASE PrewarmAwaited
  <2>1. CASE at'["main"] = "cancel" \/ at'["main"] = "serving"
    BY <2>1
  <2>2. CASE ~(at'["main"] = "cancel" \/ at'["main"] = "serving")
    <3>1. at'["main"] = "calling" /\ Sends("main", "open", NoDevice)
      BY <1>4, <2>2 DEF PrewarmAwaited, Opens
    <3> QED
      BY <3>1, Sending, Names
  <2> QED
    BY <2>1, <2>2
<1>5. CASE Answered
  BY <1>5 DEF Answered
<1>6. CASE CallRaises
  BY <1>6 DEF CallRaises
<1>7. CASE TaskRuns
  <2>1. at' = at /\ given' = given /\ call'["main"] = call["main"]
    BY <1>7, Sending, Names DEF TaskRuns
  <2> QED
    BY <2>1
<1>8. CASE TaskEnds
  <2>1. at' = at /\ given' = given /\ call'["main"] = call["main"]
    BY <1>8, Quieted DEF TaskEnds
  <2> QED
    BY <2>1
<1>9. CASE HandleOpen
  <2>1. CASE at'["main"] \in {"await_prewarm", "serving"}
    BY <2>1
  <2>2. CASE at'["main"] \notin {"await_prewarm", "serving"}
    <3>1. at'["main"] = "calling" /\ Sends("main", "open", NoDevice)
      BY <1>9, <2>2 DEF HandleOpen, Opens
    <3> QED
      BY <3>1, Sending, Names
  <2> QED
    BY <2>1, <2>2
<1>10. CASE HandleClose
  <2>1. PICK d \in given : Sends("main", "close", d)
    BY <1>10 DEF HandleClose
  <2>2. d \in Handle /\ d # NoDevice
    BY ReverseClientAssumption DEF Typed, Handle
  <2> QED
    BY <1>10, <2>1, <2>2, Sending, Names DEF HandleClose, Requested
<1>11. CASE HandleIoctl
  <2>1. at'["main"] # "await_release" /\ at["main"] = "serving"
    BY <1>11 DEF HandleIoctl, Requested
  <2>2. CASE cached
    BY <1>11, <2>1, <2>2 DEF HandleIoctl
  <2>3. CASE ~cached
    BY <1>11, <2>1, <2>3, Sending, Names DEF HandleIoctl
  <2> QED
    BY <2>2, <2>3
<1>12. CASE ServesOrphan
  BY <1>12 DEF ServesOrphan
<1>13. CASE WorkerCrashes
  BY <1>13 DEF WorkerCrashes, WorkerGoes
<1>14. ASSUME NEW who \in Two, Cancels(who)
      PROVE  MainCloses'
  <2>1. at'["main"] # "calling" \/ at'["main"] = at["main"]
    BY <1>14 DEF Cancels
  <2>2. at'["main"] # "await_release" \/ at'["main"] = at["main"]
    BY <1>14 DEF Cancels
  <2>3. call'["main"] = call["main"] /\ given' = given
    BY <1>14, Quieted DEF Cancels
  <2> QED
    BY <2>1, <2>2, <2>3
<1>15. ASSUME NEW who \in Two, Releases(who)
      PROVE  MainCloses'
  <2>1. given' = given /\ at[who] = "release"
    BY <1>15 DEF Releases
  <2>2. CASE who = "quit"
    <3>1. at'["main"] = at["main"]
      BY <1>15, <2>2 DEF Releases
    <3>2. call'["main"] = call["main"]
      <4>1. CASE prewarm # NoDevice /\ driver
        <5>1. Sends(who, "close", prewarm) /\ prewarm \in Handle
          BY <1>15, <4>1 DEF Releases, Shape, Typed
        <5> QED
          BY <2>2, <5>1, Sending, Names
      <4>2. CASE ~(prewarm # NoDevice /\ driver)
        BY <1>15, <4>2 DEF Releases
      <4> QED
        BY <4>1, <4>2
    <3> QED
      BY <2>1, <3>1, <3>2
  <2>3. CASE who = "main"
    <3>1. CASE prewarm # NoDevice /\ driver
      <4>1. Sends("main", "close", prewarm) /\ prewarm \in Handle /\ at'["main"] = "await_release"
        BY <1>15, <2>3, <3>1 DEF Releases, Shape, Typed
      <4>2. call'["main"].dev = prewarm
        BY <4>1, Sending, Names
      <4>3. call["main"].op = "ioctl"
        BY <2>1, <2>3
      <4>4. Holds("kept") = given /\ Holds("prewarm") = {prewarm}
        BY <3>1, <4>3, Holdings, KeptIsGiven
      <4>5. prewarm \notin given
        BY <4>4 DEF Owned, Owners
      <4> QED
        BY <2>1, <4>1, <4>2, <4>5
    <3>2. CASE ~(prewarm # NoDevice /\ driver)
      BY <1>15, <2>3, <3>2 DEF Releases
    <3> QED
      BY <3>1, <3>2
  <2> QED
    BY <2>2, <2>3
<1>16. ASSUME NEW who \in Two, IsReleased(who)
      PROVE  MainCloses'
  <2>1. CASE who = "main"
    BY <1>16, <2>1 DEF IsReleased
  <2>2. CASE who = "quit"
    <3>1. at'["main"] = at["main"] /\ given' = given /\ call'["main"] = call["main"]
      BY <1>16, <2>2, Quieted DEF IsReleased
    <3> QED
      BY <3>1
  <2> QED
    BY <2>1, <2>2
<1>17. ASSUME NEW who \in Two, WorkerStops(who)
      PROVE  MainCloses'
  BY <1>17 DEF WorkerStops, WorkerGoes
<1>18. ASSUME NEW who \in Who, Serves(who)
      PROVE  MainCloses'
  <2>1. at' = at /\ given' = given
    BY <1>18 DEF Serves
  <2>2. CASE who # "main"
    BY <1>18, <2>1, <2>2, Served
  <2>3. CASE who = "main"
    <3>1. call["main"].at = "sent" /\ call'["main"].op = call["main"].op
      BY <1>18, <2>3, Served
    <3>2. at'["main"] = "await_release" => call'["main"].dev = call["main"].dev
      BY <1>18, <2>1, <2>3, Served
    <3>3. ASSUME call["main"].op = "close", call'["main"].at = "answered"
          PROVE  call'["main"].ok
      <4>1. call["main"].dev \in open
        <5>1. Holds("main") = {call["main"].dev}
          BY <3>1, <3>3, Holdings DEF Grip
        <5> QED
          BY <5>1 DEF Owned, Owners
      <4> QED
        BY <1>18, <2>3, <3>3, <4>1, Served
    <3> QED
      BY <2>1, <3>1, <3>2, <3>3
  <2> QED
    BY <2>2, <2>3
<1> QED
  BY StillOrMoving, <1>1, <1>2, <1>3, <1>4, <1>5, <1>6, <1>7, <1>8, <1>9,
     <1>10, <1>11, <1>12, <1>13, <1>14, <1>15, <1>16, <1>17, <1>18 DEF Moving,
     Shape

(* A worker that comes up has nothing open.                                *)
LEMMA Loads ==
  ASSUME Shape, Fresh, Stopped, worker # "up", worker' = "up", [Next]_vars
  PROVE  Owned' /\ MainCloses'
<1>1. LacksToken \/ ComesUp
  BY StillOrMoving DEF Shape, Still, Moving, PrewarmAwaited, Answered, CallRaises,
     TaskRuns, TaskEnds, HandleOpen, HandleClose, HandleIoctl, ServesOrphan,
     WorkerCrashes, WorkerGoes, Cancels, Releases, IsReleased, WorkerStops, Serves
<1>2. /\ at["main"] = "loading" /\ at'["main"] \notin {"calling", "await_release"}
      /\ call' = call /\ open' = open /\ given' = given /\ prewarm' = prewarm
  BY <1>1 DEF LacksToken, ComesUp, handles, warm, Shape, Placed, Two, Moves
<1>3. open = {} /\ given = {} /\ prewarm = NoDevice
  BY <1>2 DEF Stopped, Fresh, Young
<1>4. at["quit"] \in {"none", "missed"} /\ task = "none"
  BY <1>2 DEF Fresh, Young
<1>5. \A w \in Who : call[w].at = "none"
  BY <1>2, <1>4 DEF Shape, Calling, Who
<1>6. \A o \in Owners : Holds(o)' = {}
  <2>1. Kept' = {}
    BY <1>2, <1>3 DEF Kept
  <2>2. \A w \in Who : Holds(w)' = {}
    BY <1>2, <1>5, HoldingsNext DEF Grip
  <2> QED
    BY <1>2, <1>3, <2>1, <2>2, HoldingsNext DEF Owners
<1> QED
  BY <1>2, <1>3, <1>6 DEF Owned, MainCloses

-----------------------------------------------------------------------------
(* The inductive invariant, and what it gives.                             *)

ClientInv == Shape /\ Fresh /\ Cleaned /\ Stopped /\ Told /\ Closes /\ Safe

LEMMA InvInit == Init => ClientInv
<1> SUFFICES ASSUME Init PROVE ClientInv
  OBVIOUS
<1>1. at["main"] = "made" /\ at["quit"] = "none" /\ DOMAIN at = Two
  BY DEF Init, Two
<1>2. Placed
  BY <1>1 DEF Placed, MainPlaces, QuitPlaces, Young
<1>3. Typed
  <2>1. links \in 0..MaxLinks /\ requests \in 0..MaxRequests /\ crashes \in 0..MaxCrashes
    BY ReverseClientAssumption DEF Init
  <2>2. running \in BOOLEAN /\ held \in BOOLEAN /\ cached \in BOOLEAN /\ driver \in BOOLEAN
    BY DEF Init
  <2>3. leaving = "no" /\ link = "none" /\ task = "none" /\ worker = "none"
        /\ prewarm = NoDevice /\ open = {} /\ given = {} /\ lost = {}
    BY DEF Init
  <2> QED
    BY <2>1, <2>2, <2>3 DEF Typed, Handle
<1>4. Bounded
  BY <1>1 DEF Init, Bounded, Warming
<1>5. /\ call = NoCalls
      /\ \A w \in Who : call[w].at = "none" /\ call[w].op = "ioctl" /\ HasHandle(call[w])
  BY DEF Init, NoCalls, Quiet, HasHandle
<1>6. CallTyped
  <2>1. Quiet \in [at: {"none", "sent", "answered", "raised"}, op: Ops, dev: Handle, ok: BOOLEAN]
    BY DEF Quiet, Ops, Handle
  <2> QED
    BY <1>5, <2>1 DEF CallTyped, NoCalls
<1>7. Calling
  BY <1>1, <1>5 DEF Init, Calling, Who
<1>8. Fresh /\ Told /\ Closes
  BY <1>1 DEF Init, Fresh, Told, Closes, IsUp, HasEnded, Young, Cleaning
<1>9. Cleaned
  BY <1>1 DEF Init, Cleaned, Warming
<1>10. Stopped
  BY <1>1 DEF Init, Stopped, IsUp
<1>11. Safe
  BY DEF Init, Safe
<1> QED
  BY <1>2, <1>3, <1>4, <1>6, <1>7, <1>8, <1>9, <1>10, <1>11 DEF ClientInv, Shape

LEMMA InvStep == ClientInv /\ [Next]_vars => ClientInv'
<1> SUFFICES ASSUME ClientInv, [Next]_vars PROVE ClientInv'
  OBVIOUS
<1>0. Shape /\ Fresh /\ Cleaned /\ Stopped /\ Told /\ Closes /\ Safe /\ Placed
  BY DEF ClientInv, Shape
<1>1. Shape'
  BY <1>0, PlacedStep, TypedStep, BoundedStep, CallTypedStep, CallingStep DEF Shape
<1>2. Fresh' /\ Cleaned' /\ Stopped' /\ Told' /\ Closes'
  BY <1>0, FreshStep, CleanedStep, StoppedStep, ToldStep, ClosesStep
<1>3. Safe'
  <2>1. CASE worker = "up" /\ worker' = "up"
    BY <1>0, <2>1, OwnedStep, MainClosesStep DEF Safe
  <2>2. CASE worker # "up" /\ worker' = "up"
    BY <1>0, <2>2, Loads DEF Safe
  <2>3. CASE worker' # "up"
    BY <2>3 DEF Safe
  <2> QED
    BY <2>1, <2>2, <2>3
<1> QED
  BY <1>1, <1>2, <1>3 DEF ClientInv

LEMMA InvAlways == Spec => []ClientInv
  BY InvInit, InvStep, PTL DEF Spec

LEMMA InvGivesTypes == ClientInv => TypeOK
<1> SUFFICES ASSUME ClientInv PROVE TypeOK
  OBVIOUS
<1>1. Placed /\ Typed /\ Bounded /\ CallTyped
  BY DEF ClientInv, Shape
<1>2. orphans \in 0..MaxLinks
  <2>1. orphans \in Nat /\ links \in Nat /\ links <= MaxLinks
    BY <1>1, ReverseClientAssumption DEF Typed, Bounded
  <2>2. orphans <= links
    BY <1>1, <2>1 DEF Bounded
  <2> QED
    BY <2>1, <2>2, ReverseClientAssumption
<1>3. /\ at["main"] \in {"made", "loading", "top", "connecting", "registering", "serving",
                         "await_prewarm", "calling", "backoff", "block", "blocked", "ended",
                         "no_token"} \cup Cleaning
      /\ at["quit"] \in {"none", "asked", "missed", "block", "blocked", "done"} \cup Cleaning
  BY <1>1 DEF Placed, MainPlaces, QuitPlaces, Young, Between, Working, Heard
<1> QED
  BY <1>1, <1>2, <1>3 DEF TypeOK, Typed, CallTyped

(* The client's variables have their types, and of each connection one     *)
(* open of the device at most is left under way (connect_and_serve,        *)
(* _prewarm_open, shutdown, and the driver's calls).                       *)
THEOREM TypeCorrect == Spec => []TypeOK
  BY InvAlways, InvGivesTypes, PTL

LEMMA InvGivesHandles == ClientInv => HandlesAreKept
<1> SUFFICES ASSUME ClientInv PROVE HandlesAreKept
  OBVIOUS
<1>1. Safe /\ Stopped
  BY DEF ClientInv
<1>2. CASE worker = "up"
  <2>1. Owned
    BY <1>1, <1>2 DEF Safe
  <2>2. Kept \subseteq open /\ (prewarm # NoDevice => prewarm \in open \ Kept)
    BY <2>1, Holdings DEF Owned, Owners
  <2>3. ASSUME NEW d \in open
        PROVE  d \in given \cup {prewarm} \cup lost \cup {call[w].dev : w \in Who}
    <3>1. d \in lost \/ \E o \in Owners : d \in Holds(o)
      BY <2>1 DEF Owned
    <3>2. ASSUME NEW w \in Who, d \in Holds(w)
          PROVE  d = call[w].dev
      BY <3>2, Holdings
    <3> QED
      BY <3>1, <3>2, Holdings DEF Owners, Kept
  <2> QED
    BY <2>2, <2>3 DEF HandlesAreKept
<1>3. CASE worker # "up"
  BY <1>1, <1>3 DEF Stopped, HandlesAreKept
<1> QED
  BY <1>2, <1>3

(* No clean-up of whichever connection or coroutine takes away a handle    *)
(* that the cloud was given; the pre-warmed one is nobody's; and a handle  *)
(* gets out of sight in the named ways only (_release_prewarmed_device,    *)
(* _cancel_prewarm_task, _handle_open, _handle_close).                     *)
THEOREM HandlesKept == Spec => []HandlesAreKept
  BY InvAlways, InvGivesHandles, PTL

LEMMA InvGivesLeft == ClientInv => NothingIsLeft
<1> SUFFICES ASSUME ClientInv PROVE NothingIsLeft
  OBVIOUS
<1>1. Cleaned /\ Stopped
  BY DEF ClientInv
<1> QED
  BY <1>1 DEF Cleaned, Stopped, NothingIsLeft, Between, Working

(* Between two connections nothing of the last is left, and a client that  *)
(* has ended has no worker, whichever of the two shutdowns was first       *)
(* (connect_and_serve's finally, shutdown).                                *)
THEOREM NothingLeft == Spec => []NothingIsLeft
  BY InvAlways, InvGivesLeft, PTL

LEMMA LifeInit == Init => Life!Init
  BY DEF Init, Life!Init, IsUp, HasEnded

(* The client implements the life that the tray program counts on: every   *)
(* step of connect_and_serve, of shutdown, of the pre-warm and of the      *)
(* worker is a step of that life or none.                                  *)
THEOREM ImplementsLife == Spec => Life!Init /\ [][Life!Next]_(Life!vars)
<1>1. ClientInv /\ [Next]_vars => [Life!Next]_(Life!vars)
  BY LifeStep DEF ClientInv, Shape
<1> QED
  BY <1>1, LifeInit, InvAlways, PTL DEF Spec
=============================================================================
