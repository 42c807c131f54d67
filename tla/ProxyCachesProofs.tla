-------------------------- MODULE ProxyCachesProofs --------------------------
(***************************************************************************)
(* Proofs about ProxyCaches, for any channels, filters, times to live and  *)
(* bounds: its types for any number of DLL connections, the agreement of   *)
(* the caches with the driver for one.                                     *)
(*                                                                         *)
(* Shape is the types and the request that is under way.  Settled adds     *)
(* that this request is the last one under way (Last), that an answer on   *)
(* its way back is true of the driver (Confirmed), and that no request on  *)
(* its way there will end what is cached (Agree).                          *)
(***************************************************************************)
EXTENDS ProxyCaches, TLAPS

(***************************************************************************)
(* The shape of the state: types, and that a request is under way once.    *)

Wired == [by: Proxies \cup {None}, req: Requests]
Replied == [by: Proxies \cup {None}, resp: Responses]

Awaits(p) == at[p] = "waiting" /\ answer[p] = None

\* What the driver's answer to r may hold.
Fits(r, a) ==
    /\ r.kind = "start" /\ a.ok => a.val \in FilterIds
    /\ r.kind = "get" /\ a.ok => a.val \in Params

Waiting ==
    /\ \A p \in Proxies : at[p] = "waiting" => req[p] \in Requests
    /\ \A p \in Proxies : answer[p] # None => at[p] = "waiting" /\ Fits(req[p], answer[p])

UnderWay ==
    /\ \A i \in DOMAIN wire : wire[i].by # None =>
         Awaits(wire[i].by) /\ req[wire[i].by] = wire[i].req
    /\ \A i \in DOMAIN replies : replies[i].by # None =>
         Awaits(replies[i].by) /\ Fits(req[replies[i].by], replies[i].resp)

Once ==
    /\ \A i, j \in DOMAIN wire : wire[i].by # None /\ wire[i].by = wire[j].by => i = j
    /\ \A i, j \in DOMAIN replies : replies[i].by # None /\ replies[i].by = replies[j].by => i = j
    /\ \A i \in DOMAIN wire, j \in DOMAIN replies : wire[i].by # None => wire[i].by # replies[j].by

\* TypeOK, one part for each component of the state.
HandlerTypes ==
    /\ at \in [Proxies -> {"gate", "reading", "waiting"}]
    /\ req \in [Proxies -> Requests \cup {None}]
    /\ answer \in [Proxies -> Responses \cup {None}]
    /\ late \subseteq Proxies

TunnelTypes ==
    /\ up \in BOOLEAN
    /\ tunnels \in 0..MaxTunnels
    /\ wire \in Seq(Wired)
    /\ replies \in Seq(Replied)

ByChannel == \A c \in Channels : \A k \in channelFilters[c] : k.ch = c

CacheTypes ==
    /\ filters \in [Keys -> FilterIds \cup {None}]
    /\ channelFilters \in [Channels -> SUBSET Keys]
    /\ idToKey \in [FilterIds -> Keys \cup {None}]
    /\ readAge \in [Channels -> 0..ReadTTL + 1]
    /\ config \in [Channels -> [param: Params \cup {None}, age: 0..IoctlTTL + 1]]
    /\ relic \in BOOLEAN
    /\ ByChannel

Filtering == [ch: Channels, f: Filters, id: FilterIds]
DriverTypes == open \subseteq Channels /\ active \subseteq Filtering /\ buffered \subseteq open

Types == HandlerTypes /\ TunnelTypes /\ CacheTypes /\ DriverTypes

Shape == Types /\ Waiting /\ UnderWay /\ Once

LEMMA Typed == Types <=> TypeOK /\ ByChannel
  BY DEF Types, TypeOK, HandlerTypes, TunnelTypes, CacheTypes, DriverTypes, Wired, Replied,
            Filtering

-----------------------------------------------------------------------------
(* One DLL connection: its request is the last one under way.              *)

OneConnection == \A p, q \in Proxies : p = q

Answers(p) == answer[p] # None /\ p \notin late

Last ==
    /\ \A i \in DOMAIN wire : wire[i].by # None => i = Len(wire)
    /\ \A i \in DOMAIN replies : replies[i].by # None => i = Len(replies) /\ wire = <<>>
    /\ \A p \in Proxies : Answers(p) => wire = <<>> /\ replies = <<>> /\ up
    /\ ~up => wire = <<>> /\ replies = <<>>

-----------------------------------------------------------------------------
(* What is cached, or about to be, is so in the driver.                    *)

Holds(r, a) ==
    /\ r.kind = "start" /\ a.ok => [ch |-> r.ch, f |-> r.f, id |-> a.val] \in active
    /\ r.kind = "read" /\ a.val = "empty" => r.ch \in open
    /\ r.kind = "get" /\ a.ok => r.ch \in open

Confirmed ==
    /\ \A i \in DOMAIN replies : replies[i].by # None => Holds(req[replies[i].by], replies[i].resp)
    /\ \A p \in Proxies : Answers(p) => Holds(req[p], answer[p])

\* No cached filter has the id of a filter that is about to be cached.
IsNew(r, a) == r.kind = "start" /\ a.ok => \A k \in Keys : filters[k] # a.val

Distinct ==
    /\ \A i \in DOMAIN replies : replies[i].by # None => IsNew(req[replies[i].by], replies[i].resp)
    /\ \A p \in Proxies : Answers(p) => IsNew(req[p], answer[p])

Knows(c) == readAge[c] <= ReadTTL \/ config[c].age <= IoctlTTL

Kept ==
    /\ \A k \in Keys : filters[k] # None =>
         /\ [ch |-> k.ch, f |-> k.f, id |-> filters[k]] \in active
         /\ k \in channelFilters[k.ch] /\ idToKey[filters[k]] = k
    /\ \A c \in Channels : Knows(c) => c \in open

\* Nothing is cached that r, under way to the driver, will end.
Spares(r) ==
    /\ r.kind = "close" =>
         (\A k \in Keys : filters[k] = None) /\ (\A c \in Channels : ~Knows(c))
    /\ r.kind = "disconnect" =>
         (\A k \in Keys : k.ch = r.ch => filters[k] = None) /\ ~Knows(r.ch)
    /\ r.kind = "stop" => \A k \in Keys : filters[k] # r.id

Empty == (\A k \in Keys : filters[k] = None) /\ (\A c \in Channels : ~Knows(c))

Agree ==
    ~relic =>
        /\ Kept /\ Distinct
        /\ \A i \in DOMAIN wire : Spares(wire[i].req)
        /\ ~up => Empty

-----------------------------------------------------------------------------
(* The queues.                                                             *)

LEMMA TailOf ==
    ASSUME NEW S, NEW s \in Seq(S), s # <<>>
    PROVE  /\ Tail(s) \in Seq(S) /\ Head(s) = s[1] /\ 1 \in DOMAIN s /\ s[1] \in S
           /\ Len(Tail(s)) = Len(s) - 1 /\ Len(s) \in Nat
           /\ \A i \in DOMAIN Tail(s) : i \in Nat /\ i + 1 \in DOMAIN s /\ i + 1 # 1 /\ Tail(s)[i] = s[i + 1]
  OBVIOUS

LEMMA AppendTo ==
    ASSUME NEW S, NEW s \in Seq(S), NEW e \in S
    PROVE  /\ Append(s, e) \in Seq(S) /\ Len(Append(s, e)) = Len(s) + 1 /\ Len(s) \in Nat
           /\ \A i \in DOMAIN Append(s, e) :
                \/ i = Len(s) + 1 /\ i \notin DOMAIN s /\ Append(s, e)[i] = e
                \/ i \in DOMAIN s /\ i # Len(s) + 1 /\ Append(s, e)[i] = s[i]
  OBVIOUS

LEMMA DisownedWire ==
    ASSUME wire \in Seq(Wired), NEW p
    PROVE  /\ Disowned(wire, p) \in Seq(Wired)
           /\ DOMAIN Disowned(wire, p) = DOMAIN wire /\ Len(Disowned(wire, p)) = Len(wire)
           /\ \A i \in DOMAIN wire :
                /\ Disowned(wire, p)[i].by = IF wire[i].by = p THEN None ELSE wire[i].by
                /\ Disowned(wire, p)[i].req = wire[i].req
<1>. DEFINE s == Disowned(wire, p)
<1>1. /\ DOMAIN s = DOMAIN wire /\ DOMAIN wire = 1..Len(wire) /\ Len(wire) \in Nat
      /\ \A i \in DOMAIN wire : s[i] = IF wire[i].by = p THEN [wire[i] EXCEPT !.by = None] ELSE wire[i]
  BY DEF Disowned
<1>2. \A i \in DOMAIN wire : wire[i] \in Wired
  OBVIOUS
<1>3. ASSUME NEW i \in DOMAIN wire
      PROVE  /\ s[i] \in Wired /\ s[i].by = (IF wire[i].by = p THEN None ELSE wire[i].by)
             /\ s[i].req = wire[i].req
  <2>. HIDE DEF s
  <2>. QED  BY <1>1, <1>2 DEF Wired
<1>4. s = [i \in 1..Len(wire) |-> s[i]]
  BY <1>1 DEF Disowned
<1>5. s \in Seq(Wired) /\ Len(s) = Len(wire)
  <2>. HIDE DEF s
  <2>. QED  BY <1>1, <1>3, <1>4
<1>. QED  BY <1>1, <1>3, <1>5

LEMMA DisownedReplies ==
    ASSUME replies \in Seq(Replied), NEW p
    PROVE  /\ Disowned(replies, p) \in Seq(Replied)
           /\ DOMAIN Disowned(replies, p) = DOMAIN replies /\ Len(Disowned(replies, p)) = Len(replies)
           /\ \A i \in DOMAIN replies :
                /\ Disowned(replies, p)[i].by = IF replies[i].by = p THEN None ELSE replies[i].by
                /\ Disowned(replies, p)[i].resp = replies[i].resp
<1>. DEFINE s == Disowned(replies, p)
<1>1. /\ DOMAIN s = DOMAIN replies /\ DOMAIN replies = 1..Len(replies) /\ Len(replies) \in Nat
      /\ \A i \in DOMAIN replies : s[i] = IF replies[i].by = p THEN [replies[i] EXCEPT !.by = None] ELSE replies[i]
  BY DEF Disowned
<1>2. \A i \in DOMAIN replies : replies[i] \in Replied
  OBVIOUS
<1>3. ASSUME NEW i \in DOMAIN replies
      PROVE  /\ s[i] \in Replied /\ s[i].by = (IF replies[i].by = p THEN None ELSE replies[i].by)
             /\ s[i].resp = replies[i].resp
  <2>. HIDE DEF s
  <2>. QED  BY <1>1, <1>2 DEF Replied
<1>4. s = [i \in 1..Len(replies) |-> s[i]]
  BY <1>1 DEF Disowned
<1>5. s \in Seq(Replied) /\ Len(s) = Len(replies)
  <2>. HIDE DEF s
  <2>. QED  BY <1>1, <1>3, <1>4
<1>. QED  BY <1>1, <1>3, <1>5

LEMMA RequestFields ==
    ASSUME NEW r \in Requests
    PROVE  /\ r.kind \in {"connect", "close", "disconnect", "read", "start", "stop", "get"}
           /\ r.kind \in {"disconnect", "read", "start", "stop", "get"} => r.ch \in Channels
           /\ r.kind = "start" => r.f \in Filters
           /\ r.kind = "stop" => r.id \in FilterIds
           /\ r.kind = "get" => r.param \in Params
  BY DEF Requests

LEMMA ResponseFields ==
    /\ Failed \in Responses /\ Failed.ok = FALSE /\ Failed.val = None
    /\ \A v \in FilterIds \cup Params \cup {None, "empty", "messages"} :
         Success(v) \in Responses /\ Success(v).ok = TRUE /\ Success(v).val = v
  BY DEF Failed, Success, Responses

-----------------------------------------------------------------------------
(* The caches: what forgets, what records.                                 *)

\* The three maps of the filter cache are kept in step.
Indexed == \A k \in Keys : filters[k] # None => k \in channelFilters[k.ch] /\ idToKey[filters[k]] = k

\* Nothing is cached that was not.
Shrinks ==
    /\ \A k \in Keys : filters'[k] # None => filters'[k] = filters[k]
    /\ \A c \in Channels : Knows(c)' => Knows(c)

LEMMA Keyed ==
    ASSUME NEW c \in Channels, NEW f \in Filters
    PROVE  [ch |-> c, f |-> f] \in Keys /\ [ch |-> c, f |-> f].ch = c
  BY DEF Keys

LEMMA ClearCachesEmpties ==
    ASSUME ClearCaches
    PROVE  CacheTypes' /\ Empty' /\ Indexed' /\ ~relic'
<1>1. ReadTTL \in Nat /\ IoctlTTL \in Nat
  BY CachesAssumption
<1>2. NoFilters \in [Keys -> FilterIds \cup {None}] /\ \A k \in Keys : NoFilters[k] = None
  BY DEF NoFilters
<1>3. NoReads \in [Channels -> 0..ReadTTL + 1] /\ \A c \in Channels : ~(NoReads[c] <= ReadTTL)
  BY <1>1 DEF NoReads
<1>4. NoConfig \in [param: Params \cup {None}, age: 0..IoctlTTL + 1] /\ NoConfig.age = IoctlTTL + 1
  BY <1>1 DEF NoConfig
<1>5. /\ NoConfigs \in [Channels -> [param: Params \cup {None}, age: 0..IoctlTTL + 1]]
      /\ \A c \in Channels : ~(NoConfigs[c].age <= IoctlTTL)
  BY <1>1, <1>4 DEF NoConfigs
<1>6. Empty'
  BY <1>2, <1>3, <1>5 DEF ClearCaches, Empty, Knows
<1>7. Indexed'
  BY <1>2 DEF ClearCaches, Indexed
<1>8. CacheTypes'
  BY <1>2, <1>3, <1>5 DEF ClearCaches, CacheTypes, ByChannel
<1>. QED  BY <1>6, <1>7, <1>8 DEF ClearCaches

LEMMA ForgetFilterShrinks ==
    ASSUME CacheTypes, NEW i \in FilterIds, ForgetFilter(i)
    PROVE  /\ CacheTypes' /\ relic' = relic /\ Shrinks
           /\ Indexed => Indexed' /\ \A k \in Keys : filters'[k] # i
<1>1. idToKey[i] \in Keys
  BY DEF ForgetFilter, CacheTypes
<1>2. CacheTypes' /\ relic' = relic
  BY <1>1 DEF ForgetFilter, CacheTypes, ByChannel
<1>3. Shrinks
  BY <1>1 DEF ForgetFilter, CacheTypes, Shrinks, Knows
<1>4. ASSUME Indexed, NEW k \in Keys
      PROVE  /\ filters'[k] # None => k \in channelFilters'[k.ch] /\ idToKey'[filters'[k]] = k
             /\ filters'[k] # i
  <2>1. CASE k = idToKey[i]
    <3>1. filters'[k] = None /\ None # i
      BY <2>1, <1>1, CachesAssumption DEF ForgetFilter, CacheTypes
    <3>. QED  BY <3>1
  <2>2. CASE k # idToKey[i]
    <3>1. filters'[k] = filters[k] /\ k.ch \in Channels
      BY <2>2, <1>1 DEF ForgetFilter, CacheTypes, Keys
    <3>2. filters[k] # i
      BY <2>2, <1>4, CachesAssumption DEF Indexed
    <3>3. filters[k] # None => filters[k] \in FilterIds
      BY DEF CacheTypes
    <3>. QED  BY <2>2, <1>4, <3>1, <3>2, <3>3 DEF ForgetFilter, CacheTypes, Indexed
  <2>. QED  BY <2>1, <2>2
<1>. QED  BY <1>2, <1>3, <1>4 DEF Indexed

LEMMA ForgetChannelShrinks ==
    ASSUME CacheTypes, NEW c \in Channels, ForgetChannel(c)
    PROVE  /\ CacheTypes' /\ relic' = relic /\ Shrinks /\ ~Knows(c)'
           /\ Indexed => Indexed' /\ \A k \in Keys : k.ch = c => filters'[k] = None
<1>1. ReadTTL \in Nat /\ IoctlTTL \in Nat
  BY CachesAssumption
<1>2. NoConfig \in [param: Params \cup {None}, age: 0..IoctlTTL + 1] /\ NoConfig.age = IoctlTTL + 1
  BY <1>1 DEF NoConfig
<1>3. /\ filters' \in [Keys -> FilterIds \cup {None}]
      /\ \A k \in Keys : filters'[k] = IF k \in channelFilters[c] THEN None ELSE filters[k]
  BY DEF ForgetChannel, CacheTypes
<1>4. /\ idToKey' \in [FilterIds -> Keys \cup {None}]
      /\ \A i \in FilterIds :
           idToKey'[i] = IF \E k \in channelFilters[c] : filters[k] = i THEN None ELSE idToKey[i]
  BY DEF ForgetChannel, CacheTypes
<1>5. /\ channelFilters' \in [Channels -> SUBSET Keys]
      /\ \A d \in Channels : channelFilters'[d] = IF d = c THEN {} ELSE channelFilters[d]
  BY DEF ForgetChannel, CacheTypes
<1>6. /\ readAge' \in [Channels -> 0..ReadTTL + 1] /\ config' \in [Channels -> [param: Params \cup {None}, age: 0..IoctlTTL + 1]]
      /\ ~Knows(c)' /\ \A d \in Channels : Knows(d)' => Knows(d)
  BY <1>1, <1>2 DEF ForgetChannel, CacheTypes, Knows
<1>7. relic' = relic
  BY DEF ForgetChannel
<1>8. CacheTypes' /\ Shrinks
  BY <1>3, <1>4, <1>5, <1>6, <1>7 DEF CacheTypes, ByChannel, Shrinks
<1>9. ASSUME Indexed, NEW k \in Keys
      PROVE  /\ k.ch = c => filters'[k] = None
             /\ filters'[k] # None => k \in channelFilters'[k.ch] /\ idToKey'[filters'[k]] = k
  <2>1. CASE k \in channelFilters[c]
    BY <2>1, <1>3
  <2>2. CASE k \notin channelFilters[c]
    <3>1. filters'[k] = filters[k] /\ (k.ch = c => filters[k] = None) /\ k.ch \in Channels
      BY <2>2, <1>3, <1>9 DEF Indexed, Keys
    <3>2. \A q \in channelFilters[c] : q \in Keys
      BY DEF CacheTypes
    <3>3. ASSUME filters[k] # None
          PROVE  filters[k] \in FilterIds /\ \A q \in channelFilters[c] : filters[q] # filters[k]
      BY <2>2, <1>9, <3>2, <3>3 DEF Indexed, CacheTypes
    <3>. QED  BY <1>9, <3>1, <3>3, <1>4, <1>5 DEF Indexed
  <2>. QED  BY <2>1, <2>2
<1>. QED  BY <1>6, <1>7, <1>8, <1>9 DEF Indexed

\* A request that is forwarded leaves nothing cached that it will end.
LEMMA InvalidateSpares ==
    ASSUME CacheTypes, NEW r \in Requests, Invalidate(r)
    PROVE  /\ CacheTypes' /\ Shrinks
           /\ Empty' \/ relic' = relic
           /\ Indexed => Indexed' /\ Spares(r)'
<1>1. CASE r.kind = "disconnect" /\ ForgetChannel(r.ch)
  BY <1>1, RequestFields, ForgetChannelShrinks DEF Spares
<1>2. CASE r.kind = "close" /\ ClearCaches
  BY <1>2, ClearCachesEmpties DEF Spares, Empty, Shrinks
<1>3. CASE r.kind = "stop" /\ ForgetFilter(r.id)
  BY <1>3, RequestFields, ForgetFilterShrinks DEF Spares
<1>4. CASE UNCHANGED caches /\ r.kind # "disconnect" /\ r.kind # "close" /\ (r.kind = "stop" => idToKey[r.id] = None)
  <2>1. CacheTypes' /\ Shrinks /\ relic' = relic /\ (Indexed => Indexed')
    BY <1>4 DEF caches, filterCache, CacheTypes, ByChannel, Shrinks, Knows, Indexed
  <2>2. ASSUME Indexed, r.kind = "stop", NEW k \in Keys
        PROVE  filters[k] # r.id
    <3>1. r.id \in FilterIds /\ r.id # None /\ k # None
      BY <2>2, RequestFields, CachesAssumption DEF Keys
    <3>. QED  BY <1>4, <2>2, <3>1 DEF Indexed
  <2>. QED  BY <1>4, <2>1, <2>2 DEF Spares, caches, filterCache
<1>. QED  BY <1>1, <1>2, <1>3, <1>4 DEF Invalidate

\* What is recorded was just answered: it goes into the caches as it is.
LEMMA RecordKeeps ==
    ASSUME CacheTypes, relic' \in BOOLEAN, NEW r \in Requests, NEW a \in Responses, Fits(r, a), Record(r, a)
    PROVE  /\ CacheTypes'
           /\ Kept /\ Holds(r, a) /\ IsNew(r, a) /\ UNCHANGED driver => Kept'
<1>1. CASE r.kind = "start" /\ a.ok /\ RecordFilter(KeyOf(r), a.val)
  <2>1. /\ KeyOf(r) \in Keys /\ KeyOf(r).ch = r.ch /\ KeyOf(r).f = r.f /\ r.ch \in Channels
        /\ a.val \in FilterIds
    BY <1>1, RequestFields, Keyed DEF KeyOf, Keys, Fits
  <2>2. PICK k \in Keys : k = KeyOf(r)
    BY <2>1
  <2>3. /\ filters' = [filters EXCEPT ![k] = a.val]
        /\ idToKey' = [idToKey EXCEPT ![a.val] = k]
        /\ channelFilters' = [channelFilters EXCEPT ![k.ch] = @ \cup {k}]
        /\ UNCHANGED <<readAge, config>>
        /\ k.ch = r.ch /\ k.f = r.f
    BY <1>1, <2>1, <2>2 DEF RecordFilter
  <2>4. CacheTypes'
    BY <2>1, <2>3 DEF CacheTypes, ByChannel
  <2>5. ASSUME Kept, Holds(r, a), IsNew(r, a), UNCHANGED driver
        PROVE  Kept'
    <3>1. ASSUME NEW q \in Keys, filters'[q] # None
          PROVE  /\ [ch |-> q.ch, f |-> q.f, id |-> filters'[q]] \in active'
                 /\ q \in channelFilters'[q.ch] /\ idToKey'[filters'[q]] = q
      <4>1. CASE q = k
        BY <4>1, <1>1, <2>1, <2>3, <2>5 DEF CacheTypes, Holds, driver
      <4>2. CASE q # k
        <5>1. filters'[q] = filters[q] /\ filters[q] # a.val /\ filters[q] \in FilterIds
          BY <4>2, <3>1, <1>1, <2>1, <2>3, <2>5 DEF CacheTypes, IsNew
        <5>2. q \in channelFilters[q.ch] /\ idToKey[filters[q]] = q /\ q.ch \in Channels
              /\ [ch |-> q.ch, f |-> q.f, id |-> filters[q]] \in active
          BY <5>1, <3>1, <2>5 DEF Kept, Keys
        <5>3. q \in channelFilters'[q.ch] /\ idToKey'[filters[q]] = q
          BY <5>1, <5>2, <2>1, <2>3 DEF CacheTypes
        <5>. QED  BY <5>1, <5>2, <5>3, <2>5 DEF driver
      <4>. QED  BY <4>1, <4>2
    <3>2. \A c \in Channels : Knows(c)' => c \in open'
      BY <2>3, <2>5 DEF Knows, Kept, driver
    <3>. QED  BY <3>1, <3>2 DEF Kept
  <2>. QED  BY <2>4, <2>5
<1>2. CASE r.kind = "read" /\ RecordRead(r.ch, a)
  <2>1. ReadTTL \in Nat /\ r.ch \in Channels
    BY <1>2, CachesAssumption, RequestFields
  <2>2. /\ CacheTypes'
        /\ \A c \in Channels : Knows(c)' => Knows(c) \/ (c = r.ch /\ a.val = "empty")
        /\ UNCHANGED filterCache
    BY <1>2, <2>1 DEF RecordRead, CacheTypes, Knows, ByChannel, filterCache
  <2>. QED  BY <1>2, <2>2 DEF Kept, Holds, filterCache, driver
<1>3. CASE r.kind = "get" /\ a.ok /\ RecordConfig(r.ch, a.val)
  <2>1. IoctlTTL \in Nat /\ r.ch \in Channels /\ a.val \in Params
    BY <1>3, CachesAssumption, RequestFields DEF Fits
  <2>2. [param |-> a.val, age |-> 0] \in [param: Params \cup {None}, age: 0..IoctlTTL + 1]
    BY <2>1
  <2>3. /\ CacheTypes'
        /\ \A c \in Channels : Knows(c)' => Knows(c) \/ c = r.ch
        /\ UNCHANGED filterCache
    BY <1>3, <2>1, <2>2 DEF RecordConfig, CacheTypes, Knows, ByChannel, filterCache
  <2>. QED  BY <1>3, <2>3 DEF Kept, Holds, filterCache, driver
<1>4. CASE UNCHANGED <<filterCache, readAge, config>>
  BY <1>4 DEF filterCache, driver, CacheTypes, ByChannel, Kept, Knows
<1>. QED  BY <1>1, <1>2, <1>3, <1>4 DEF Record

-----------------------------------------------------------------------------
(* The driver.                                                             *)

\* What the driver keeps, whatever is cached.
Keeps(r, a) ==
    /\ Fits(r, a) /\ DriverTypes' /\ Holds(r, a)'
    /\ Kept /\ Spares(r) => Kept' /\ IsNew(r, a)'

\* The driver loses no filter and closes no channel the caches know of.
LEMMA KeptUnless ==
    ASSUME UNCHANGED caches, Kept,
           \A k \in Keys : filters[k] # None /\ [ch |-> k.ch, f |-> k.f, id |-> filters[k]] \in active
                             => [ch |-> k.ch, f |-> k.f, id |-> filters[k]] \in active',
           \A c \in Channels : Knows(c) /\ c \in open => c \in open'
    PROVE  Kept'
  BY DEF Kept, Knows, caches, filterCache

LEMMA StartKeeps ==
    ASSUME DriverTypes, CacheTypes, UNCHANGED caches,
           NEW r \in Requests, r.kind = "start", NEW i \in FilterIds, Starts(r, i)
    PROVE  Keeps(r, Success(i))
<1>1. r.ch \in Channels /\ r.f \in Filters /\ Success(i).val = i /\ Success(i).ok = TRUE
  BY RequestFields, ResponseFields
<1>2. [ch |-> r.ch, f |-> r.f, id |-> i] \in Filtering
  BY <1>1 DEF Filtering
<1>3. DriverTypes' /\ active \subseteq active' /\ open' = open /\ [ch |-> r.ch, f |-> r.f, id |-> i] \in active'
  BY <1>2 DEF Starts, DriverTypes
<1>4. Fits(r, Success(i)) /\ Holds(r, Success(i))'
  BY <1>1, <1>3 DEF Fits, Holds
<1>5. ASSUME Kept
      PROVE  Kept' /\ IsNew(r, Success(i))'
  <2>1. Kept'
    BY <1>3, <1>5, KeptUnless
  <2>2. ASSUME NEW k \in Keys, filters[k] = i
        PROVE  FALSE
    <3>1. i # None
      BY CachesAssumption
    <3>2. [ch |-> k.ch, f |-> k.f, id |-> i] \in active
      BY <3>1, <2>2, <1>5 DEF Kept
    <3>. QED  BY <3>2 DEF Starts
  <2>. QED  BY <2>1, <2>2, <1>1 DEF IsNew, caches, filterCache
<1>. QED  BY <1>3, <1>4, <1>5 DEF Keeps

LEMMA StopKeeps ==
    ASSUME DriverTypes, CacheTypes, UNCHANGED caches, NEW r \in Requests, r.kind = "stop", Stops(r)
    PROVE  Keeps(r, Success(None))
<1>1. DriverTypes' /\ open' = open /\ \A a \in active : a.id # r.id => a \in active'
  BY DEF Stops, DriverTypes
<1>2. ASSUME Kept, Spares(r)
      PROVE  Kept'
  <2>1. \A k \in Keys : filters[k] # r.id /\ [ch |-> k.ch, f |-> k.f, id |-> filters[k]].id = filters[k]
    BY <1>2 DEF Spares
  <2>. QED  BY <1>1, <1>2, <2>1, KeptUnless
<1>. QED  BY <1>1, <1>2 DEF Keeps, Fits, Holds, IsNew

LEMMA CloseKeeps ==
    ASSUME DriverTypes, CacheTypes, UNCHANGED caches, NEW r \in Requests, NEW cs, Closes(cs),
           \/ r.kind = "close" /\ cs = Channels
           \/ r.kind = "disconnect" /\ cs = {r.ch}
    PROVE  Keeps(r, Success(None))
<1>1. DriverTypes' /\ open' = open \ cs /\ \A a \in active : a.ch \notin cs => a \in active'
  BY DEF Closes, DriverTypes
<1>2. ASSUME Kept, Spares(r)
      PROVE  Kept'
  <2>1. /\ \A k \in Keys : k.ch \in Channels /\ (k.ch \in cs => filters[k] = None)
        /\ \A c \in Channels : c \in cs => ~Knows(c)
    BY <1>2 DEF Spares, Keys
  <2>2. \A k \in Keys : [ch |-> k.ch, f |-> k.f, id |-> filters[k]].ch = k.ch
    OBVIOUS
  <2>. QED  BY <1>1, <1>2, <2>1, <2>2, KeptUnless
<1>. QED  BY <1>1, <1>2 DEF Keeps, Fits, Holds, IsNew

LEMMA ConnectKeeps ==
    ASSUME DriverTypes, CacheTypes, UNCHANGED caches,
           NEW r \in Requests, r.kind = "connect", NEW c \in Channels, Opens(c)
    PROVE  Keeps(r, Success(None))
<1>1. DriverTypes' /\ active' = active /\ open \subseteq open'
  BY DEF Opens, DriverTypes
<1>2. Kept => Kept'
  BY <1>1, KeptUnless
<1>. QED  BY <1>1, <1>2 DEF Keeps, Fits, Holds, IsNew

LEMMA StillKeeps ==
    ASSUME DriverTypes, CacheTypes, UNCHANGED caches, UNCHANGED <<open, active>>, buffered' \subseteq open,
           NEW r \in Requests, NEW a \in Responses,
           r.kind = "read" /\ a.val = "empty" => r.ch \in open,
           r.kind = "get" /\ a.ok => r.ch \in open /\ a.val \in Params,
           r.kind = "start" => ~a.ok
    PROVE  Keeps(r, a)
<1>1. DriverTypes'
  BY DEF DriverTypes
<1>2. Kept => Kept'
  BY KeptUnless
<1>. QED  BY <1>1, <1>2 DEF Keeps, Fits, Holds, IsNew

LEMMA DriverExecutes ==
    ASSUME DriverTypes, CacheTypes, wire # <<>>, NEW r \in Requests, r = Head(wire).req, Execute
    PROVE  \E a \in Responses : Answered(a) /\ Keeps(r, a)
<1>1. Success(None) \in Responses /\ \A i \in FilterIds : Success(i) \in Responses
  BY ResponseFields
<1>2. CASE Executes(r)
  <2>1. CASE r.kind = "connect" /\ (\E c \in Channels : Opens(c)) /\ Answered(Success(None))
    BY <2>1, <1>1, ConnectKeeps DEF Answered
  <2>2. CASE r.kind = "close" /\ Closes(Channels) /\ Answered(Success(None))
    BY <2>2, <1>1, CloseKeeps DEF Answered
  <2>3. CASE r.kind = "disconnect" /\ Closes({r.ch}) /\ Answered(Success(None))
    BY <2>3, <1>1, CloseKeeps DEF Answered
  <2>4. CASE r.kind = "start" /\ \E i \in FilterIds : Starts(r, i) /\ Answered(Success(i))
    <3>1. PICK i \in FilterIds : Starts(r, i) /\ Answered(Success(i))
      BY <2>4
    <3>. QED  BY <2>4, <3>1, <1>1, StartKeeps DEF Answered
  <2>5. CASE r.kind = "stop" /\ Stops(r) /\ Answered(Success(None))
    BY <2>5, <1>1, StopKeeps DEF Answered
  <2>6. CASE r.kind = "get" /\ r.ch \in open /\ Answered(Success(r.param)) /\ UNCHANGED driver
    <3>1. r.param \in Params /\ Success(r.param) \in Responses /\ Success(r.param).val = r.param
      BY <2>6, RequestFields, ResponseFields
    <3>2. Keeps(r, Success(r.param))
      BY <2>6, <3>1, StillKeeps DEF Answered, driver, DriverTypes
    <3>. QED  BY <2>6, <3>1, <3>2
  <2>. QED  BY <1>2, <2>1, <2>2, <2>3, <2>4, <2>5, <2>6 DEF Executes
<1>3. CASE Refuses(r)
  <2>1. Keeps(r, Failed)
    BY <1>3, ResponseFields, StillKeeps DEF Refuses, Answered, driver, DriverTypes
  <2>. QED  BY <1>3, <2>1, ResponseFields DEF Refuses
<1>4. CASE Reads(r)
  <2>1. UNCHANGED <<open, active>> /\ buffered' \subseteq open /\ r.kind = "read"
    BY <1>4 DEF Reads, DriverTypes
  <2>2. CASE Answered(Success("messages"))
    <3>1. Success("messages") \in Responses /\ Success("messages").val # "empty"
      BY ResponseFields
    <3>. QED  BY <2>1, <2>2, <3>1, StillKeeps DEF Answered
  <2>3. CASE r.ch \in open \ buffered /\ Answered(Success("empty"))
    <3>1. Success("empty") \in Responses
      BY ResponseFields
    <3>. QED  BY <2>1, <2>3, <3>1, StillKeeps DEF Answered
  <2>4. CASE Answered(Failed)
    <3>1. Failed \in Responses /\ Failed.val # "empty"
      BY ResponseFields, CachesAssumption
    <3>. QED  BY <2>1, <2>4, <3>1, StillKeeps DEF Answered
  <2>. QED  BY <1>4, <2>2, <2>3, <2>4 DEF Reads
<1>. QED  BY <1>2, <1>3, <1>4 DEF Execute

-----------------------------------------------------------------------------
(* The shape, one action after the other.                                  *)

LEMMA Entries ==
    ASSUME TunnelTypes
    PROVE  /\ \A i \in DOMAIN wire : wire[i].by \in Proxies \cup {None} /\ wire[i].req \in Requests
           /\ \A i \in DOMAIN replies : replies[i].by \in Proxies \cup {None} /\ replies[i].resp \in Responses
           /\ DOMAIN wire = 1..Len(wire) /\ Len(wire) \in Nat
           /\ DOMAIN replies = 1..Len(replies) /\ Len(replies) \in Nat
<1>1. /\ \A i \in DOMAIN wire : wire[i] \in Wired
      /\ \A i \in DOMAIN replies : replies[i] \in Replied
  BY DEF TunnelTypes
<1>2. /\ DOMAIN wire = 1..Len(wire) /\ Len(wire) \in Nat
      /\ DOMAIN replies = 1..Len(replies) /\ Len(replies) \in Nat
  BY DEF TunnelTypes
<1>. QED  BY <1>1, <1>2 DEF Wired, Replied

\* A handler that waits for nothing moves.
LEMMA MovesShape ==
    ASSUME Shape, NEW p \in Proxies, at[p] # "waiting", NEW v \in {"gate", "reading"},
           at' = [at EXCEPT ![p] = v], UNCHANGED <<req, answer, late, tunnel, driver>>, CacheTypes'
    PROVE  Shape'
<1>1. Types'
  BY DEF Shape, Types, HandlerTypes, TunnelTypes, DriverTypes, tunnel, driver
<1>2. \A q \in Proxies : (at'[q] = "waiting" <=> at[q] = "waiting") /\ (Awaits(q)' <=> Awaits(q))
  BY DEF Shape, Types, HandlerTypes, Awaits
<1>3. Waiting'
  BY <1>2 DEF Shape, Waiting, Fits
<1>4. UnderWay'
  BY <1>2, Entries DEF Shape, Types, UnderWay, Fits, tunnel
<1>5. Once'
  BY DEF Shape, Once, tunnel
<1>. QED  BY <1>1, <1>3, <1>4, <1>5 DEF Shape

\* Neither the handlers nor the queues change.
LEMMA StillShape ==
    ASSUME Shape, UNCHANGED <<handlers, wire, replies>>, TunnelTypes', CacheTypes', DriverTypes'
    PROVE  Shape'
  BY DEF Shape, Types, HandlerTypes, Waiting, UnderWay, Once, Awaits, Fits, handlers

LEMMA PassGateShape ==
    ASSUME Shape, NEW p \in Proxies, PassGate(p)
    PROVE  Shape'
<1>1. CacheTypes'
  BY DEF PassGate, caches, filterCache, Shape, Types, CacheTypes, ByChannel
<1>. QED  BY <1>1, MovesShape DEF PassGate

LEMMA ServeShape ==
    ASSUME Shape, NEW p \in Proxies, NEW r, Serve(p, r)
    PROVE  Shape'
<1>1. CacheTypes'
  BY DEF Serve, caches, filterCache, Shape, Types, CacheTypes, ByChannel
<1>2. NextRequest \in {"gate", "reading"}
  BY DEF NextRequest
<1>. QED  BY <1>1, <1>2, MovesShape DEF Serve

LEMMA ForwardRaisesShape ==
    ASSUME Shape, NEW p \in Proxies, NEW r \in Requests, ForwardRaises(p, r)
    PROVE  Shape'
<1>1. CacheTypes'
  BY InvalidateSpares DEF ForwardRaises, Shape, Types
<1>. QED  BY <1>1, MovesShape DEF ForwardRaises

LEMMA ForwardShape ==
    ASSUME Shape, NEW p \in Proxies, NEW r \in Requests, Forward(p, r)
    PROVE  Shape'
<1>. DEFINE e == [by |-> p, req |-> r]
<1>1. e \in Wired /\ e.by = p /\ e.req = r
  BY DEF Wired
<1>2. /\ at' = [at EXCEPT ![p] = "waiting"] /\ at[p] = "reading"
      /\ req' = [req EXCEPT ![p] = r] /\ UNCHANGED <<answer, late, up, tunnels, replies, driver>>
      /\ wire' = Append(wire, e) /\ CacheTypes'
  BY InvalidateSpares DEF Forward, Shape, Types
<1>. HIDE DEF e
<1>3. /\ wire' \in Seq(Wired) /\ p # None /\ answer[p] = None
      /\ \A i \in DOMAIN wire' :
                \/ i = Len(wire) + 1 /\ i \notin DOMAIN wire /\ wire'[i] = e
                \/ i \in DOMAIN wire /\ i # Len(wire) + 1 /\ wire'[i] = wire[i]
  BY <1>1, <1>2, AppendTo, CachesAssumption DEF Shape, Types, TunnelTypes, HandlerTypes, Waiting
<1>4. Types'
  BY <1>2, <1>3 DEF Shape, Types, HandlerTypes, TunnelTypes, DriverTypes, driver
<1>5. /\ Awaits(p)' /\ req'[p] = r /\ ~Awaits(p)
      /\ \A q \in Proxies : q # p =>
           /\ at'[q] = at[q] /\ req'[q] = req[q] /\ (Awaits(q)' <=> Awaits(q))
  BY <1>2, <1>3 DEF Shape, Types, HandlerTypes, Awaits
<1>6. Waiting'
  BY <1>2, <1>3, <1>5 DEF Shape, Waiting, Fits
<1>7. UnderWay'
  <2>1. ASSUME NEW i \in DOMAIN wire', wire'[i].by # None
        PROVE  (Awaits(wire[i].by) /\ req[wire[i].by] = wire[i].req)'
    <3>1. CASE i \in DOMAIN wire /\ wire'[i] = wire[i]
      <4>1. wire[i].by \in Proxies /\ Awaits(wire[i].by) /\ req[wire[i].by] = wire[i].req
        BY <3>1, <2>1, Entries DEF Shape, Types, UnderWay
      <4>. QED  BY <4>1, <3>1, <1>5 DEF Awaits
    <3>. QED  BY <3>1, <1>1, <1>3, <1>5
  <2>2. ASSUME NEW i \in DOMAIN replies', replies'[i].by # None
        PROVE  (Awaits(replies[i].by) /\ Fits(req[replies[i].by], replies[i].resp))'
    <3>1. replies[i].by \in Proxies /\ Awaits(replies[i].by) /\ Fits(req[replies[i].by], replies[i].resp)
      BY <2>2, <1>2, Entries DEF Shape, Types, UnderWay
    <3>. QED  BY <3>1, <1>2, <1>5 DEF Awaits, Fits
  <2>. QED  BY <2>1, <2>2 DEF UnderWay
<1>8. Once'
  <2>1. /\ \A i \in DOMAIN wire : wire[i].by # p
        /\ \A i \in DOMAIN replies : replies[i].by # p
    BY <1>3, <1>5 DEF Shape, UnderWay
  <2>2. /\ \A i \in DOMAIN wire' : \/ i = Len(wire) + 1 /\ wire'[i].by = p
                                   \/ i \in DOMAIN wire /\ wire'[i].by = wire[i].by
        /\ UNCHANGED replies
    BY <1>1, <1>2, <1>3
  <2>. QED  BY <2>1, <2>2 DEF Shape, Once
<1>. QED  BY <1>4, <1>6, <1>7, <1>8 DEF Shape

LEMMA ResumeShape ==
    ASSUME Shape, NEW p \in Proxies, Resume(p)
    PROVE  Shape'
<1>1. /\ at[p] = "waiting" /\ answer[p] # None /\ Record(req[p], answer[p])
      /\ at' = [at EXCEPT ![p] = NextRequest] /\ NextRequest \in {"gate", "reading"}
      /\ answer' = [answer EXCEPT ![p] = None] /\ req' = [req EXCEPT ![p] = None]
      /\ late' = late \ {p} /\ UNCHANGED <<tunnel, driver>>
  BY DEF Resume, NextRequest
<1>2. req[p] \in Requests /\ answer[p] \in Responses /\ Fits(req[p], answer[p])
  BY <1>1 DEF Shape, Types, HandlerTypes, Waiting
<1>3. CacheTypes'
  <2>1. relic' \in BOOLEAN
    BY DEF Resume
  <2>. QED  BY <2>1, <1>1, <1>2, RecordKeeps DEF Shape, Types
<1>4. Types'
  BY <1>1, <1>3 DEF Shape, Types, HandlerTypes, TunnelTypes, DriverTypes, tunnel, driver
<1>5. /\ ~Awaits(p) /\ at'[p] # "waiting" /\ answer'[p] = None
      /\ \A q \in Proxies : q # p =>
           at'[q] = at[q] /\ req'[q] = req[q] /\ answer'[q] = answer[q] /\ (Awaits(q)' <=> Awaits(q))
  BY <1>1 DEF Shape, Types, HandlerTypes, Awaits
<1>6. Waiting'
  BY <1>5 DEF Shape, Waiting, Fits
<1>7. UnderWay'
  BY <1>1, <1>5, Entries DEF Shape, Types, UnderWay, Fits, tunnel
<1>8. Once'
  BY <1>1 DEF Shape, Once, tunnel
<1>. QED  BY <1>4, <1>6, <1>7, <1>8 DEF Shape

LEMMA TimesOutShape ==
    ASSUME Shape, NEW p \in Proxies, TimesOut(p)
    PROVE  Shape'
<1>1. /\ at[p] = "waiting" /\ answer[p] = None /\ p # None
      /\ at' = [at EXCEPT ![p] = "gate"] /\ req' = [req EXCEPT ![p] = None]
      /\ wire' = Disowned(wire, p) /\ replies' = Disowned(replies, p)
      /\ UNCHANGED <<answer, late, up, tunnels, caches, driver>>
  BY CachesAssumption DEF TimesOut
<1>2. /\ wire' \in Seq(Wired) /\ DOMAIN wire' = DOMAIN wire
      /\ \A i \in DOMAIN wire : wire'[i].by = (IF wire[i].by = p THEN None ELSE wire[i].by) /\ wire'[i].req = wire[i].req
  BY <1>1, DisownedWire DEF Shape, Types, TunnelTypes
<1>3. /\ replies' \in Seq(Replied) /\ DOMAIN replies' = DOMAIN replies
      /\ \A i \in DOMAIN replies :
           replies'[i].by = (IF replies[i].by = p THEN None ELSE replies[i].by) /\ replies'[i].resp = replies[i].resp
  BY <1>1, DisownedReplies DEF Shape, Types, TunnelTypes
<1>4. CacheTypes'
  BY <1>1 DEF caches, filterCache, Shape, Types, CacheTypes, ByChannel
<1>5. Types'
  BY <1>1, <1>2, <1>3, <1>4 DEF Shape, Types, HandlerTypes, TunnelTypes, DriverTypes, driver
<1>6. /\ at'[p] # "waiting" /\ answer'[p] = None
      /\ \A q \in Proxies : q # p =>
           at'[q] = at[q] /\ req'[q] = req[q] /\ answer'[q] = answer[q] /\ (Awaits(q)' <=> Awaits(q))
  BY <1>1 DEF Shape, Types, HandlerTypes, Awaits
<1>7. Waiting'
  BY <1>6 DEF Shape, Waiting, Fits
<1>8. UnderWay'
  <2>1. ASSUME NEW i \in DOMAIN wire, wire'[i].by # None
        PROVE  (Awaits(wire[i].by) /\ req[wire[i].by] = wire[i].req)'
    <3>1. wire'[i].by = wire[i].by /\ wire[i].by # p /\ wire'[i].req = wire[i].req /\ wire[i].by \in Proxies
      BY <2>1, <1>2, Entries DEF Shape, Types
    <3>2. Awaits(wire[i].by) /\ req[wire[i].by] = wire[i].req
      BY <3>1, <2>1 DEF Shape, UnderWay
    <3>. QED  BY <3>1, <3>2, <1>6 DEF Awaits
  <2>2. ASSUME NEW i \in DOMAIN replies, replies'[i].by # None
        PROVE  (Awaits(replies[i].by) /\ Fits(req[replies[i].by], replies[i].resp))'
    <3>1. /\ replies'[i].by = replies[i].by /\ replies[i].by # p
          /\ replies'[i].resp = replies[i].resp /\ replies[i].by \in Proxies
      BY <2>2, <1>3, Entries DEF Shape, Types
    <3>2. Awaits(replies[i].by) /\ Fits(req[replies[i].by], replies[i].resp)
      BY <3>1, <2>2 DEF Shape, UnderWay
    <3>. QED  BY <3>1, <3>2, <1>6 DEF Awaits, Fits
  <2>. QED  BY <2>1, <2>2, <1>2, <1>3 DEF UnderWay, Fits
<1>9. Once'
  BY <1>2, <1>3 DEF Shape, Once
<1>. QED  BY <1>5, <1>7, <1>8, <1>9 DEF Shape

LEMMA TunnelUpShape ==
    ASSUME Shape, TunnelUp
    PROVE  Shape'
<1>1. TunnelTypes'
  BY CachesAssumption DEF TunnelUp, Shape, Types, TunnelTypes
<1>2. CacheTypes'
  BY DEF TunnelUp, caches, filterCache, Shape, Types, CacheTypes, ByChannel
<1>3. DriverTypes'
  BY DEF TunnelUp, driver, Shape, Types, DriverTypes
<1>. QED  BY <1>1, <1>2, <1>3, StillShape DEF TunnelUp

\* An entry only grows older.
LEMMA TickAges ==
    ASSUME CacheTypes, Tick
    PROVE  CacheTypes' /\ Shrinks /\ relic' = relic /\ (Indexed => Indexed')
<1>1. ReadTTL \in Nat /\ IoctlTTL \in Nat
  BY CachesAssumption
<1>2. ASSUME NEW ttl \in Nat, NEW a \in 0..ttl + 1
      PROVE  Older(a, ttl) \in 0..ttl + 1 /\ (Older(a, ttl) <= ttl => a <= ttl)
  BY DEF Older
<1>3. /\ readAge' \in [Channels -> 0..ReadTTL + 1]
      /\ \A c \in Channels : readAge'[c] <= ReadTTL => readAge[c] <= ReadTTL
  BY <1>1, <1>2 DEF Tick, CacheTypes
<1>4. ASSUME NEW c \in Channels
      PROVE  /\ config'[c] \in [param: Params \cup {None}, age: 0..IoctlTTL + 1]
             /\ config'[c].age <= IoctlTTL => config[c].age <= IoctlTTL
  <2>1. /\ config[c] \in [param: Params \cup {None}, age: 0..IoctlTTL + 1]
        /\ config'[c] = [config[c] EXCEPT !.age = Older(config[c].age, IoctlTTL)]
    BY DEF Tick, CacheTypes
  <2>2. config[c].age \in 0..IoctlTTL + 1
    BY <2>1
  <2>3. Older(config[c].age, IoctlTTL) \in 0..IoctlTTL + 1
    BY <2>2, <1>1, <1>2
  <2>4. config'[c].age = Older(config[c].age, IoctlTTL)
    BY <2>1
  <2>. QED  BY <2>1, <2>2, <2>3, <2>4, <1>1, <1>2
<1>5. config' \in [Channels -> [param: Params \cup {None}, age: 0..IoctlTTL + 1]]
  <2>1. config' = [c \in Channels |-> config'[c]]
    BY DEF Tick
  <2>. QED  BY <2>1, <1>4
<1>6. UNCHANGED filterCache /\ relic' = relic
  BY DEF Tick
<1>7. CacheTypes'
  BY <1>3, <1>5, <1>6 DEF CacheTypes, ByChannel, filterCache
<1>8. Shrinks /\ (Indexed => Indexed')
  BY <1>3, <1>4, <1>6 DEF Shrinks, Knows, Indexed, filterCache
<1>. QED  BY <1>6, <1>7, <1>8

LEMMA TickShape ==
    ASSUME Shape, Tick
    PROVE  Shape'
<1>1. CacheTypes'
  BY TickAges DEF Shape, Types
<1>2. TunnelTypes' /\ DriverTypes' /\ UNCHANGED <<handlers, wire, replies>>
  BY DEF Tick, tunnel, driver, Shape, Types, TunnelTypes, DriverTypes
<1>. QED  BY <1>1, <1>2, StillShape

LEMMA MessageArrivesShape ==
    ASSUME Shape, NEW c \in Channels, MessageArrives(c)
    PROVE  Shape'
<1>1. CacheTypes'
  BY DEF MessageArrives, caches, filterCache, Shape, Types, CacheTypes, ByChannel
<1>2. TunnelTypes' /\ DriverTypes' /\ UNCHANGED <<handlers, wire, replies>>
  BY DEF MessageArrives, tunnel, Shape, Types, TunnelTypes, DriverTypes
<1>. QED  BY <1>1, <1>2, StillShape

LEMMA DeliverShape ==
    ASSUME Shape, Deliver
    PROVE  Shape'
<1>1. PICK p : p = Head(replies).by
  OBVIOUS
<1>2. /\ replies # <<>> /\ replies' = Tail(replies)
      /\ answer' = IF p = None THEN answer ELSE [answer EXCEPT ![p] = Head(replies).resp]
      /\ UNCHANGED <<at, req, late, up, tunnels, wire, caches, driver>>
  BY <1>1 DEF Deliver
<1>3. /\ Head(replies) = replies[1] /\ 1 \in DOMAIN replies /\ replies' \in Seq(Replied)
      /\ \A i \in DOMAIN replies' : i \in Nat /\ i + 1 \in DOMAIN replies /\ i + 1 # 1 /\ replies'[i] = replies[i + 1]
  BY <1>2, TailOf DEF Shape, Types, TunnelTypes
<1>4. replies[1].by = p /\ p \in Proxies \cup {None} /\ replies[1].resp \in Responses
  BY <1>1, <1>3, Entries DEF Shape, Types
<1>5. p # None => Awaits(p) /\ Fits(req[p], replies[1].resp)
  BY <1>3, <1>4 DEF Shape, UnderWay
<1>6. CacheTypes'
  BY <1>2 DEF caches, filterCache, Shape, Types, CacheTypes, ByChannel
<1>7. Types'
  BY <1>2, <1>3, <1>4, <1>6 DEF Shape, Types, HandlerTypes, TunnelTypes, DriverTypes, driver
<1>8. /\ \A q \in Proxies : q # p => answer'[q] = answer[q] /\ (Awaits(q)' <=> Awaits(q))
      /\ p # None => answer'[p] = replies[1].resp /\ at[p] = "waiting"
  BY <1>2, <1>3, <1>4, <1>5 DEF Shape, Types, HandlerTypes, Awaits
<1>9. Waiting'
  BY <1>2, <1>4, <1>5, <1>8 DEF Shape, Waiting, Fits
<1>10. UnderWay'
  <2>1. ASSUME NEW i \in DOMAIN wire, wire[i].by # None
        PROVE  (Awaits(wire[i].by) /\ req[wire[i].by] = wire[i].req)'
    <3>1. wire[i].by \in Proxies /\ wire[i].by # p /\ Awaits(wire[i].by) /\ req[wire[i].by] = wire[i].req
      BY <2>1, <1>3, <1>4, Entries DEF Shape, Types, UnderWay, Once
    <3>. QED  BY <3>1, <1>2, <1>8 DEF Awaits
  <2>2. ASSUME NEW i \in DOMAIN replies', replies'[i].by # None
        PROVE  (Awaits(replies[i].by) /\ Fits(req[replies[i].by], replies[i].resp))'
    <3>1. i + 1 \in DOMAIN replies /\ replies'[i] = replies[i + 1] /\ i + 1 # 1
      BY <1>3
    <3>2. /\ replies[i + 1].by \in Proxies /\ replies[i + 1].by # p
          /\ Awaits(replies[i + 1].by) /\ Fits(req[replies[i + 1].by], replies[i + 1].resp)
      BY <3>1, <2>2, <1>3, <1>4, Entries DEF Shape, Types, UnderWay, Once
    <3>. QED  BY <3>1, <3>2, <1>2, <1>8 DEF Awaits, Fits
  <2>. QED  BY <2>1, <2>2, <1>2 DEF UnderWay
<1>11. Once'
  <2>1. \A i, j \in DOMAIN replies' : replies'[i].by # None /\ replies'[i].by = replies'[j].by => i = j
    <3>1. \A i \in DOMAIN replies' : i \in Nat /\ i + 1 \in DOMAIN replies /\ replies'[i] = replies[i + 1]
      BY <1>3
    <3>2. \A i, j \in DOMAIN replies : replies[i].by # None /\ replies[i].by = replies[j].by => i = j
      BY DEF Shape, Once
    <3>3. ASSUME NEW i \in DOMAIN replies', NEW j \in DOMAIN replies',
                 replies'[i].by # None, replies'[i].by = replies'[j].by
          PROVE  i = j
      <4>1. i + 1 = j + 1
        BY <3>1, <3>2, <3>3
      <4>. QED  BY <4>1, <3>1
    <3>. QED  BY <3>3
  <2>2. \A i \in DOMAIN wire, j \in DOMAIN replies' : wire[i].by # None => wire[i].by # replies'[j].by
    BY <1>3 DEF Shape, Once
  <2>. QED  BY <2>1, <2>2, <1>2 DEF Shape, Once
<1>. QED  BY <1>7, <1>9, <1>10, <1>11 DEF Shape

LEMMA TunnelLostShape ==
    ASSUME Shape, TunnelLost
    PROVE  Shape'
<1>1. CacheTypes'
  BY ClearCachesEmpties DEF TunnelLost
<1>2. /\ wire' = <<>> /\ replies' = <<>> /\ up' = FALSE
      /\ \A p \in Proxies :
           /\ at'[p] = IF Awaits(p) THEN "gate" ELSE at[p]
           /\ req'[p] = IF Awaits(p) THEN None ELSE req[p]
      /\ at' \in [Proxies -> {"gate", "reading", "waiting"}] /\ req' \in [Proxies -> Requests \cup {None}]
      /\ UNCHANGED <<answer, tunnels, driver>> /\ late' \subseteq Proxies
  BY DEF TunnelLost, Awaits, Shape, Types, HandlerTypes
<1>3. Types'
  <2>1. HandlerTypes'
    BY <1>2 DEF Shape, Types, HandlerTypes
  <2>2. TunnelTypes'
    <3>1. <<>> \in Seq(Wired) /\ <<>> \in Seq(Replied)
      OBVIOUS
    <3>. QED  BY <1>2, <3>1 DEF Shape, Types, TunnelTypes
  <2>3. DriverTypes'
    BY <1>2 DEF Shape, Types, DriverTypes, driver
  <2>. QED  BY <1>1, <2>1, <2>2, <2>3 DEF Types
<1>4. Waiting'
  BY <1>2 DEF Shape, Waiting, Fits, Awaits
<1>5. UnderWay' /\ Once'
  BY <1>2 DEF UnderWay, Once
<1>. QED  BY <1>3, <1>4, <1>5 DEF Shape

\* What the driver answers travels back in place of the request.
LEMMA AnsweredQueues ==
    ASSUME TunnelTypes, wire # <<>>, NEW a \in Responses, Answered(a)
    PROVE  /\ Head(wire) = wire[1] /\ 1 \in DOMAIN wire
           /\ wire' \in Seq(Wired) /\ Len(wire') = Len(wire) - 1
           /\ \A i \in DOMAIN wire' : i \in Nat /\ i + 1 \in DOMAIN wire /\ i + 1 # 1 /\ wire'[i] = wire[i + 1]
           /\ replies' \in Seq(Replied) /\ Len(replies') = Len(replies) + 1
           /\ \A i \in DOMAIN replies' :
                \/ i = Len(replies) + 1 /\ i \notin DOMAIN replies /\ replies'[i].by = wire[1].by /\ replies'[i].resp = a
                \/ i \in DOMAIN replies /\ i # Len(replies) + 1 /\ replies'[i] = replies[i]
<1>1. /\ Head(wire) = wire[1] /\ 1 \in DOMAIN wire
      /\ wire' \in Seq(Wired) /\ Len(wire') = Len(wire) - 1
      /\ \A i \in DOMAIN wire' : i \in Nat /\ i + 1 \in DOMAIN wire /\ i + 1 # 1 /\ wire'[i] = wire[i + 1]
  BY TailOf DEF TunnelTypes, Answered
<1>2. PICK e : e = [by |-> wire[1].by, resp |-> a]
  OBVIOUS
<1>3. e \in Replied /\ e.by = wire[1].by /\ e.resp = a
  BY <1>1, <1>2, Entries DEF Replied
<1>4. replies' = Append(replies, e)
  BY <1>1, <1>2 DEF Answered
<1>. QED  BY <1>1, <1>3, <1>4, AppendTo DEF TunnelTypes

LEMMA ExecuteShape ==
    ASSUME Shape, Execute
    PROVE  Shape'
<1>1. wire # <<>>
  BY DEF Execute
<1>2. PICK r \in Requests : r = Head(wire).req /\ r = wire[1].req
  BY <1>1, TailOf, Entries DEF Shape, Types, TunnelTypes
<1>3. PICK a \in Responses : Answered(a) /\ Keeps(r, a)
  BY <1>1, <1>2, DriverExecutes DEF Shape, Types
<1>4. /\ 1 \in DOMAIN wire
      /\ wire' \in Seq(Wired)
      /\ \A i \in DOMAIN wire' : i \in Nat /\ i + 1 \in DOMAIN wire /\ i + 1 # 1 /\ wire'[i] = wire[i + 1]
      /\ replies' \in Seq(Replied)
      /\ \A i \in DOMAIN replies' :
                \/ i = Len(replies) + 1 /\ i \notin DOMAIN replies /\ replies'[i].by = wire[1].by /\ replies'[i].resp = a
                \/ i \in DOMAIN replies /\ i # Len(replies) + 1 /\ replies'[i] = replies[i]
  BY <1>1, <1>3, AnsweredQueues DEF Shape, Types
<1>5. UNCHANGED <<handlers, up, tunnels, caches>> /\ DriverTypes' /\ Fits(r, a)
  BY <1>3 DEF Answered, Keeps
<1>6. CacheTypes'
  BY <1>5 DEF caches, filterCache, Shape, Types, CacheTypes, ByChannel
<1>7. Types'
  BY <1>4, <1>5, <1>6 DEF Shape, Types, HandlerTypes, TunnelTypes, handlers
<1>8. Waiting'
  BY <1>5 DEF Shape, Waiting, Fits, handlers
<1>9. wire[1].by # None => Awaits(wire[1].by) /\ req[wire[1].by] = r
  BY <1>2, <1>4 DEF Shape, UnderWay
<1>10. UnderWay'
  <2>1. ASSUME NEW i \in DOMAIN wire', wire'[i].by # None
        PROVE  (Awaits(wire[i].by) /\ req[wire[i].by] = wire[i].req)'
    <3>1. Awaits(wire[i + 1].by) /\ req[wire[i + 1].by] = wire[i + 1].req /\ wire'[i] = wire[i + 1]
      BY <2>1, <1>4 DEF Shape, UnderWay
    <3>. QED  BY <3>1, <1>5 DEF Awaits, handlers
  <2>2. ASSUME NEW i \in DOMAIN replies', replies'[i].by # None
        PROVE  (Awaits(replies[i].by) /\ Fits(req[replies[i].by], replies[i].resp))'
    <3>1. CASE replies'[i].by = wire[1].by /\ replies'[i].resp = a
      BY <3>1, <2>2, <1>5, <1>9 DEF Awaits, Fits, handlers
    <3>2. CASE i \in DOMAIN replies /\ replies'[i] = replies[i]
      <4>1. Awaits(replies[i].by) /\ Fits(req[replies[i].by], replies[i].resp)
        BY <3>2, <2>2 DEF Shape, UnderWay
      <4>. QED  BY <4>1, <3>2, <1>5 DEF Awaits, Fits, handlers
    <3>. QED  BY <3>1, <3>2, <1>4
  <2>. QED  BY <2>1, <2>2 DEF UnderWay
<1>11. Once'
  <2>1. /\ \A i, j \in DOMAIN wire : wire[i].by # None /\ wire[i].by = wire[j].by => i = j
        /\ \A i, j \in DOMAIN replies : replies[i].by # None /\ replies[i].by = replies[j].by => i = j
        /\ \A i \in DOMAIN wire, j \in DOMAIN replies : wire[i].by # None => wire[i].by # replies[j].by
    BY DEF Shape, Once
  <2>2. ASSUME NEW i \in DOMAIN wire', NEW j \in DOMAIN wire', wire'[i].by # None, wire'[i].by = wire'[j].by
        PROVE  i = j
    <3>1. i + 1 = j + 1
      BY <1>4, <2>1, <2>2
    <3>. QED  BY <3>1, <1>4
  <2>3. ASSUME NEW i \in DOMAIN replies', NEW j \in DOMAIN replies', replies'[i].by # None, replies'[i].by = replies'[j].by
        PROVE  i = j
    BY <1>4, <2>1, <2>3
  <2>4. ASSUME NEW i \in DOMAIN wire', NEW j \in DOMAIN replies', wire'[i].by # None
        PROVE  wire'[i].by # replies'[j].by
    <3>1. wire'[i] = wire[i + 1] /\ i + 1 \in DOMAIN wire /\ i + 1 # 1
      BY <1>4
    <3>2. wire[i + 1].by # wire[1].by /\ \A k \in DOMAIN replies : wire[i + 1].by # replies[k].by
      BY <3>1, <1>4, <2>1, <2>4
    <3>. QED  BY <3>1, <3>2, <1>4
  <2>. QED  BY <2>2, <2>3, <2>4 DEF Once
<1>. QED  BY <1>7, <1>8, <1>10, <1>11 DEF Shape

LEMMA InitShape == Init => Shape /\ Empty /\ ~relic /\ wire = <<>> /\ replies = <<>>
<1>. SUFFICES ASSUME Init PROVE Shape /\ Empty /\ ~relic /\ wire = <<>> /\ replies = <<>>
  OBVIOUS
<1>1. ReadTTL \in Nat /\ IoctlTTL \in Nat /\ MaxTunnels \in Nat
  BY CachesAssumption
<1>2. NoConfig \in [param: Params \cup {None}, age: 0..IoctlTTL + 1] /\ NoConfig.age = IoctlTTL + 1
  BY <1>1 DEF NoConfig
<1>3. HandlerTypes /\ TunnelTypes /\ DriverTypes
  <2>1. HandlerTypes
    BY DEF Init, HandlerTypes
  <2>2. TunnelTypes
    <3>1. <<>> \in Seq(Wired) /\ <<>> \in Seq(Replied)
      OBVIOUS
    <3>2. up \in BOOLEAN /\ wire = <<>> /\ replies = <<>>
      BY DEF Init
    <3>3. tunnels \in 0..MaxTunnels
      BY <1>1 DEF Init
    <3>. QED  BY <3>1, <3>2, <3>3 DEF TunnelTypes
  <2>. QED  BY <2>1, <2>2 DEF Init, DriverTypes
<1>4. CacheTypes
  <2>1. filters \in [Keys -> FilterIds \cup {None}] /\ idToKey \in [FilterIds -> Keys \cup {None}]
    BY DEF Init, NoFilters
  <2>2. channelFilters \in [Channels -> SUBSET Keys] /\ ByChannel
    BY DEF Init, ByChannel
  <2>3. readAge \in [Channels -> 0..ReadTTL + 1]
    BY <1>1 DEF Init, NoReads
  <2>4. config \in [Channels -> [param: Params \cup {None}, age: 0..IoctlTTL + 1]]
    BY <1>2 DEF Init, NoConfigs
  <2>. QED  BY <2>1, <2>2, <2>3, <2>4 DEF Init, CacheTypes
<1>5. Waiting /\ UnderWay /\ Once
  BY DEF Init, Waiting, UnderWay, Once
<1>6. Empty /\ ~relic
  BY <1>1, <1>2 DEF Init, Empty, Knows, NoFilters, NoReads, NoConfigs
<1>. QED  BY <1>3, <1>4, <1>5, <1>6 DEF Shape, Types, Init

LEMMA NextShape == Shape /\ [Next]_vars => Shape'
<1>. SUFFICES ASSUME Shape, [Next]_vars PROVE Shape'
  OBVIOUS
<1>1. ASSUME NEW p \in Proxies, PassGate(p) \/ Resume(p) \/ TimesOut(p)
      PROVE  Shape'
  BY <1>1, PassGateShape, ResumeShape, TimesOutShape
<1>2. ASSUME NEW p \in Proxies, NEW r \in Requests, Request(p, r)
      PROVE  Shape'
  BY <1>2, ServeShape, ForwardShape, ForwardRaisesShape DEF Request
<1>3. CASE TunnelUp \/ Deliver \/ TunnelLost \/ Tick \/ Execute
  BY <1>3, TunnelUpShape, DeliverShape, TunnelLostShape, TickShape, ExecuteShape
<1>4. ASSUME NEW c \in Channels, MessageArrives(c)
      PROVE  Shape'
  BY <1>4, MessageArrivesShape
<1>5. CASE UNCHANGED vars
  <2>1. TunnelTypes' /\ CacheTypes' /\ DriverTypes' /\ UNCHANGED <<handlers, wire, replies>>
    BY <1>5
       DEF vars, tunnel, caches, filterCache, driver, Shape, Types, TunnelTypes, CacheTypes,
           ByChannel, DriverTypes
  <2>. QED  BY <2>1, StillShape
<1>. QED  BY <1>1, <1>2, <1>3, <1>4, <1>5 DEF Next

-----------------------------------------------------------------------------
(* The agreement, one action after the other, with one DLL connection.     *)

Settled == Last /\ Confirmed /\ Agree

LEMMA EmptyAgrees ==
    ASSUME CacheTypes, Empty, Indexed
    PROVE  /\ Kept /\ \A r \in Requests : Spares(r)
           /\ \A r \in Requests, a \in Responses : Fits(r, a) => IsNew(r, a)
<1>1. \A k \in Keys : filters[k] = None
  BY DEF Empty
<1>2. Kept
  BY <1>1 DEF Empty, Kept
<1>3. ASSUME NEW r \in Requests
      PROVE  Spares(r)
  <2>1. r.kind = "stop" => r.id # None
    BY RequestFields, CachesAssumption
  <2>2. r.kind = "disconnect" => r.ch \in Channels
    BY RequestFields
  <2>. QED  BY <1>1, <2>1, <2>2 DEF Empty, Spares
<1>4. ASSUME NEW r \in Requests, NEW a \in Responses, Fits(r, a)
      PROVE  IsNew(r, a)
  BY <1>1, <1>4, CachesAssumption DEF Fits, IsNew
<1>. QED  BY <1>2, <1>3, <1>4

LEMMA EmptyAgreesNext ==
    (CacheTypes /\ Empty /\ Indexed)'
        => (/\ Kept /\ \A r \in Requests : Spares(r)
            /\ \A r \in Requests, a \in Responses : Fits(r, a) => IsNew(r, a))'
  BY EmptyAgrees, PTL

\* Forgetting keeps the agreement.
LEMMA ShrinksAgrees ==
    ASSUME CacheTypes, Shrinks, Kept, Indexed', UNCHANGED <<open, active>>
    PROVE  /\ Kept' /\ (Empty => Empty')
           /\ \A r \in Requests : Spares(r) => Spares(r)'
           /\ \A r \in Requests, a \in Responses : Fits(r, a) /\ IsNew(r, a) => IsNew(r, a)'
<1>1. Kept'
  <2>1. ASSUME NEW k \in Keys, filters'[k] # None
        PROVE  /\ [ch |-> k.ch, f |-> k.f, id |-> filters'[k]] \in active'
               /\ k \in channelFilters'[k.ch] /\ idToKey'[filters'[k]] = k
    <3>1. filters'[k] = filters[k] /\ filters[k] # None
      BY <2>1 DEF Shrinks
    <3>2. [ch |-> k.ch, f |-> k.f, id |-> filters[k]] \in active
      BY <3>1 DEF Kept
    <3>. QED  BY <2>1, <3>1, <3>2 DEF Indexed
  <2>2. \A c \in Channels : Knows(c)' => c \in open'
    BY DEF Shrinks, Kept
  <2>. QED  BY <2>1, <2>2 DEF Kept
<1>2. Empty => Empty'
  BY DEF Empty, Shrinks
<1>3. ASSUME NEW r \in Requests, Spares(r)
      PROVE  Spares(r)'
  <2>1. r.kind = "stop" => r.id # None
    BY RequestFields, CachesAssumption
  <2>2. r.kind = "disconnect" => r.ch \in Channels
    BY RequestFields
  <2>3. \A k \in Keys : filters'[k] = None \/ filters'[k] = filters[k]
    BY DEF Shrinks
  <2>. QED  BY <1>3, <2>1, <2>2, <2>3 DEF Shrinks, Spares
<1>4. ASSUME NEW r \in Requests, NEW a \in Responses, Fits(r, a), IsNew(r, a)
      PROVE  IsNew(r, a)'
  <2>1. r.kind = "start" /\ a.ok => a.val # None
    BY <1>4, CachesAssumption DEF Fits
  <2>. QED  BY <1>4, <2>1 DEF IsNew, Shrinks
<1>. QED  BY <1>1, <1>2, <1>3, <1>4

\* The answers under way fit their requests.
LEMMA UnderWayFits ==
    ASSUME Shape
    PROVE  /\ \A i \in DOMAIN replies : replies[i].by # None =>
                /\ replies[i].by \in Proxies /\ req[replies[i].by] \in Requests
                /\ replies[i].resp \in Responses /\ Fits(req[replies[i].by], replies[i].resp)
           /\ \A p \in Proxies : answer[p] # None =>
                req[p] \in Requests /\ answer[p] \in Responses /\ Fits(req[p], answer[p])
<1>1. ASSUME NEW i \in DOMAIN replies, replies[i].by # None
      PROVE  /\ replies[i].by \in Proxies /\ req[replies[i].by] \in Requests
             /\ replies[i].resp \in Responses /\ Fits(req[replies[i].by], replies[i].resp)
  <2>1. replies[i].by \in Proxies /\ replies[i].resp \in Responses
    BY <1>1, Entries DEF Shape, Types
  <2>. QED  BY <1>1, <2>1 DEF Shape, UnderWay, Waiting, Awaits
<1>2. ASSUME NEW p \in Proxies, answer[p] # None
      PROVE  req[p] \in Requests /\ answer[p] \in Responses /\ Fits(req[p], answer[p])
  BY <1>2 DEF Shape, Types, HandlerTypes, Waiting
<1>. QED  BY <1>1, <1>2

\* The handlers' requests, the queues and the driver's channels and filters stay; the caches may forget.
LEMMA ForgetsSettled ==
    ASSUME Shape, Settled, UNCHANGED <<req, answer, late, wire, replies, up, open, active>>,
           CacheTypes', Shrinks, Indexed => Indexed',
           relic' = relic \/ (Empty /\ Indexed /\ ~relic)'
    PROVE  Settled'
<1>1. Last' /\ Confirmed'
  BY DEF Settled, Last, Confirmed, Answers, Holds
<1>2. CASE relic' = relic /\ ~relic
  <2>1. /\ Kept /\ Distinct /\ \A i \in DOMAIN wire : Spares(wire[i].req)
        /\ ~up => Empty
    BY <1>2 DEF Settled, Agree
  <2>2. Indexed'
    BY <2>1 DEF Kept, Indexed
  <2>3. /\ Kept' /\ (Empty => Empty')
        /\ \A r \in Requests : Spares(r) => Spares(r)'
        /\ \A r \in Requests, a \in Responses : Fits(r, a) /\ IsNew(r, a) => IsNew(r, a)'
    BY <2>1, <2>2, ShrinksAgrees DEF Shape, Types
  <2>4. Distinct'
    BY <2>1, <2>3, UnderWayFits DEF Distinct, Answers, IsNew
  <2>5. \A i \in DOMAIN wire : Spares(wire[i].req)'
    BY <2>1, <2>3, Entries DEF Shape, Types
  <2>6. \A i \in DOMAIN wire' : Spares(wire[i].req)'
    BY <2>5
  <2>. QED  BY <1>1, <2>1, <2>3, <2>4, <2>6 DEF Settled, Agree
<1>3. CASE relic'
  BY <1>1, <1>3 DEF Settled, Agree
<1>4. CASE (Empty /\ Indexed /\ ~relic)'
  <2>1. /\ Kept' /\ \A r \in Requests : Spares(r)'
        /\ \A r \in Requests, a \in Responses : Fits(r, a) => IsNew(r, a)'
    BY <1>4, EmptyAgreesNext DEF Fits
  <2>2. Distinct'
    BY <2>1, UnderWayFits DEF Distinct, Answers, IsNew
  <2>3. \A i \in DOMAIN wire' : Spares(wire[i].req)'
    BY <2>1, Entries DEF Shape, Types
  <2>. QED  BY <1>1, <1>4, <2>1, <2>2, <2>3 DEF Settled, Agree
<1>. QED  BY <1>2, <1>3, <1>4 DEF Shape, Types, CacheTypes

LEMMA InvalidateForgets ==
    ASSUME CacheTypes, NEW r \in Requests, Invalidate(r)
    PROVE  /\ CacheTypes' /\ Shrinks /\ (Indexed => Indexed' /\ Spares(r)')
           /\ relic' = relic \/ (Empty /\ Indexed /\ ~relic)'
<1>1. CASE r.kind = "close" /\ ClearCaches
  BY <1>1, ClearCachesEmpties, InvalidateSpares
<1>2. CASE ~(r.kind = "close" /\ ClearCaches)
  <2>1. relic' = relic
    BY <1>2 DEF Invalidate, ForgetChannel, ForgetFilter, caches
  <2>. QED  BY <2>1, InvalidateSpares
<1>. QED  BY <1>1, <1>2

LEMMA PassGateSettled ==
    ASSUME Shape, Settled, NEW p \in Proxies, PassGate(p)
    PROVE  Settled'
<1>1. UNCHANGED <<req, answer, late, wire, replies, up, open, active, caches>>
  BY DEF PassGate, tunnel, driver
<1>2. CacheTypes' /\ Shrinks /\ (Indexed => Indexed') /\ relic' = relic
  BY <1>1 DEF caches, filterCache, Shape, Types, CacheTypes, ByChannel, Shrinks, Knows, Indexed
<1>. QED  BY <1>1, <1>2, ForgetsSettled

LEMMA ServeSettled ==
    ASSUME Shape, Settled, NEW p \in Proxies, NEW r, Serve(p, r)
    PROVE  Settled'
<1>1. UNCHANGED <<req, answer, late, wire, replies, up, open, active, caches>>
  BY DEF Serve, tunnel, driver
<1>2. CacheTypes' /\ Shrinks /\ (Indexed => Indexed') /\ relic' = relic
  BY <1>1 DEF caches, filterCache, Shape, Types, CacheTypes, ByChannel, Shrinks, Knows, Indexed
<1>. QED  BY <1>1, <1>2, ForgetsSettled

LEMMA ForwardRaisesSettled ==
    ASSUME Shape, Settled, NEW p \in Proxies, NEW r \in Requests, ForwardRaises(p, r)
    PROVE  Settled'
<1>1. UNCHANGED <<req, answer, late, wire, replies, up, open, active>> /\ Invalidate(r)
  BY DEF ForwardRaises, tunnel, driver
<1>2. /\ CacheTypes' /\ Shrinks /\ (Indexed => Indexed')
      /\ relic' = relic \/ (Empty /\ Indexed /\ ~relic)'
  BY <1>1, InvalidateForgets DEF Shape, Types
<1>. QED  BY <1>1, <1>2, ForgetsSettled

LEMMA TickSettled ==
    ASSUME Shape, Settled, Tick
    PROVE  Settled'
<1>1. UNCHANGED <<req, answer, late, wire, replies, up, open, active>>
  BY DEF Tick, handlers, tunnel, driver
<1>2. CacheTypes' /\ Shrinks /\ (Indexed => Indexed') /\ relic' = relic
  BY TickAges DEF Shape, Types
<1>. QED  BY <1>1, <1>2, ForgetsSettled

LEMMA MessageArrivesSettled ==
    ASSUME Shape, Settled, NEW c \in Channels, MessageArrives(c)
    PROVE  Settled'
<1>1. UNCHANGED <<req, answer, late, wire, replies, up, open, active, caches>>
  BY DEF MessageArrives, handlers, tunnel
<1>2. CacheTypes' /\ Shrinks /\ (Indexed => Indexed') /\ relic' = relic
  BY <1>1 DEF caches, filterCache, Shape, Types, CacheTypes, ByChannel, Shrinks, Knows, Indexed
<1>. QED  BY <1>1, <1>2, ForgetsSettled

\* The handler reads a request: nobody waits for what is still under way.
LEMMA ForwardSettled ==
    ASSUME OneConnection, Shape, Settled, NEW p \in Proxies, NEW r \in Requests, Forward(p, r)
    PROVE  Settled'
<1>. DEFINE e == [by |-> p, req |-> r]
<1>1. /\ at[p] = "reading" /\ up /\ Invalidate(r) /\ wire' = Append(wire, e)
      /\ UNCHANGED <<answer, late, up, replies, open, active>>
  BY DEF Forward, driver
<1>2. e \in Wired /\ e.by = p /\ e.req = r
  BY DEF Wired
<1>. HIDE DEF e
<1>3. /\ Len(wire') = Len(wire) + 1
      /\ \A i \in DOMAIN wire' :
                \/ i = Len(wire) + 1 /\ wire'[i] = e
                \/ i \in DOMAIN wire /\ wire'[i] = wire[i]
  BY <1>1, <1>2, AppendTo DEF Shape, Types, TunnelTypes
<1>4. /\ \A q \in Proxies : q = p /\ ~Awaits(q) /\ answer[q] = None
      /\ \A i \in DOMAIN wire : wire[i].by = None
      /\ \A i \in DOMAIN replies : replies[i].by = None
  <2>1. answer[p] = None /\ ~Awaits(p)
    BY <1>1 DEF Shape, Waiting, Awaits
  <2>2. \A q \in Proxies : q = p
    BY DEF OneConnection
  <2>. QED  BY <2>1, <2>2, Entries DEF Shape, Types, UnderWay
<1>5. Last' /\ Confirmed' /\ Distinct'
  BY <1>1, <1>2, <1>3, <1>4 DEF Last, Confirmed, Distinct, Answers
<1>6. /\ CacheTypes' /\ Shrinks /\ (Indexed => Indexed' /\ Spares(r)')
      /\ relic' = relic \/ (Empty /\ Indexed /\ ~relic)'
  BY <1>1, InvalidateForgets DEF Shape, Types
<1>7. CASE relic' = relic /\ ~relic
  <2>1. Kept /\ Indexed /\ \A i \in DOMAIN wire : Spares(wire[i].req)
    BY <1>7 DEF Settled, Agree, Kept, Indexed
  <2>2. Kept' /\ \A q \in Requests : Spares(q) => Spares(q)'
    BY <1>1, <1>6, <2>1, ShrinksAgrees DEF Shape, Types
  <2>3. ASSUME NEW i \in DOMAIN wire'
        PROVE  Spares(wire[i].req)'
    <3>1. CASE wire'[i] = e
      BY <3>1, <1>2, <1>6, <2>1 DEF Spares
    <3>2. CASE i \in DOMAIN wire /\ wire'[i] = wire[i]
      <4>1. wire[i].req \in Requests /\ Spares(wire[i].req)
        BY <3>2, <2>1, Entries DEF Shape, Types
      <4>2. PICK q \in Requests : q = wire[i].req
        BY <4>1
      <4>3. Spares(q)'
        BY <4>1, <4>2, <2>2
      <4>. QED  BY <4>2, <4>3, <3>2 DEF Spares
    <3>. QED  BY <3>1, <3>2, <1>3
  <2>. QED  BY <1>1, <1>5, <2>2, <2>3 DEF Settled, Agree
<1>8. CASE relic'
  BY <1>5, <1>8 DEF Settled, Agree
<1>9. CASE (Empty /\ Indexed /\ ~relic)'
  <2>1. Kept' /\ \A q \in Requests : Spares(q)'
    BY <1>6, <1>9, EmptyAgreesNext
  <2>2. \A i \in DOMAIN wire' : wire'[i].req \in Requests
    BY <1>2, <1>3, Entries DEF Shape, Types
  <2>3. \A i \in DOMAIN wire' : Spares(wire[i].req)'
    BY <2>1, <2>2
  <2>. QED  BY <1>1, <1>5, <2>1, <2>3 DEF Settled, Agree
<1>. QED  BY <1>6, <1>7, <1>8, <1>9 DEF Shape, Types, CacheTypes

\* The handler resumes: its answer was the last thing under way, or is of a tunnel that has ended.
LEMMA ResumeSettled ==
    ASSUME OneConnection, Shape, Settled, NEW p \in Proxies, Resume(p)
    PROVE  Settled'
<1>1. /\ at[p] = "waiting" /\ answer[p] # None /\ Record(req[p], answer[p])
      /\ relic' = (relic \/ p \in late) /\ answer' = [answer EXCEPT ![p] = None]
      /\ UNCHANGED <<wire, replies, up, open, active, driver>>
  BY DEF Resume, tunnel, driver
<1>2. /\ req[p] \in Requests /\ answer[p] \in Responses /\ Fits(req[p], answer[p])
      /\ \A q \in Proxies : q = p /\ ~Awaits(q) /\ answer'[q] = None
  BY <1>1, UnderWayFits DEF OneConnection, Shape, Types, HandlerTypes, Awaits
<1>3. /\ \A i \in DOMAIN wire : wire[i].by = None
      /\ \A i \in DOMAIN replies : replies[i].by = None
  BY <1>2, Entries DEF Shape, Types, UnderWay
<1>4. Last' /\ Confirmed' /\ Distinct'
  BY <1>1, <1>2, <1>3 DEF Settled, Last, Confirmed, Distinct, Answers
<1>5. ASSUME ~relic'
      PROVE  Kept' /\ wire' = <<>> /\ up'
  <2>1. Answers(p) /\ ~relic
    BY <1>1, <1>5 DEF Answers
  <2>2. Kept /\ Holds(req[p], answer[p]) /\ IsNew(req[p], answer[p]) /\ wire = <<>> /\ up
    BY <2>1 DEF Settled, Agree, Confirmed, Distinct, Last
  <2>3. relic' \in BOOLEAN
    BY <1>1
  <2>. QED  BY <2>2, <2>3, <1>1, <1>2, RecordKeeps DEF Shape, Types
<1>. QED  BY <1>4, <1>5 DEF Settled, Agree

LEMMA TimesOutSettled ==
    ASSUME OneConnection, Shape, Settled, NEW p \in Proxies, TimesOut(p)
    PROVE  Settled'
<1>1. /\ answer[p] = None /\ UNCHANGED <<answer, late, up, caches, open, active>>
      /\ wire' = Disowned(wire, p) /\ replies' = Disowned(replies, p)
  BY DEF TimesOut, driver
<1>2. /\ wire' \in Seq(Wired) /\ DOMAIN wire' = DOMAIN wire /\ Len(wire') = Len(wire)
      /\ \A i \in DOMAIN wire : wire'[i].by = (IF wire[i].by = p THEN None ELSE wire[i].by) /\ wire'[i].req = wire[i].req
  BY <1>1, DisownedWire DEF Shape, Types, TunnelTypes
<1>3. /\ replies' \in Seq(Replied) /\ DOMAIN replies' = DOMAIN replies /\ Len(replies') = Len(replies)
      /\ \A i \in DOMAIN replies :
           replies'[i].by = (IF replies[i].by = p THEN None ELSE replies[i].by) /\ replies'[i].resp = replies[i].resp
  BY <1>1, DisownedReplies DEF Shape, Types, TunnelTypes
<1>4. /\ \A q \in Proxies : q = p /\ answer[q] = None
      /\ \A i \in DOMAIN wire : wire'[i].by = None
      /\ \A i \in DOMAIN replies : replies'[i].by = None
  BY <1>1, <1>2, <1>3, Entries DEF OneConnection, Shape, Types
<1>5. ~up => wire' = <<>> /\ replies' = <<>>
  <2>1. ~up => Len(wire) = 0 /\ Len(replies) = 0
    BY DEF Settled, Last
  <2>. QED  BY <2>1, <1>2, <1>3
<1>6. Last' /\ Confirmed' /\ Distinct'
  BY <1>1, <1>2, <1>3, <1>4, <1>5 DEF Last, Confirmed, Distinct, Answers
<1>7. Agree'
  <2>1. ASSUME ~relic
        PROVE  Kept' /\ (~up => Empty')
    BY <1>1, <2>1 DEF Settled, Agree, Kept, Empty, Knows, caches, filterCache
  <2>2. ASSUME ~relic, NEW i \in DOMAIN wire'
        PROVE  Spares(wire[i].req)'
    <3>1. Spares(wire[i].req) /\ wire'[i].req = wire[i].req
      BY <2>2, <1>2 DEF Settled, Agree
    <3>. QED  BY <3>1, <1>1 DEF Spares, Knows, caches, filterCache
  <2>. QED  BY <1>1, <1>6, <2>1, <2>2 DEF Agree, caches
<1>. QED  BY <1>6, <1>7 DEF Settled

LEMMA TunnelUpSettled ==
    ASSUME Shape, Settled, TunnelUp
    PROVE  Settled'
<1>1. ~up /\ up' = TRUE /\ UNCHANGED <<req, answer, late, wire, replies, caches>>
  BY DEF TunnelUp, handlers
<1>2. wire = <<>> /\ replies = <<>> /\ \A p \in Proxies : ~Answers(p)
  BY <1>1 DEF Settled, Last
<1>3. Last' /\ Confirmed' /\ Distinct'
  BY <1>1, <1>2 DEF Last, Confirmed, Distinct, Answers
<1>4. ~relic => Kept'
  BY <1>1 DEF Settled, Agree, Empty, Kept, Knows, caches, filterCache
<1>. QED  BY <1>1, <1>2, <1>3, <1>4 DEF Settled, Agree, caches

LEMMA DeliverSettled ==
    ASSUME OneConnection, Shape, Settled, Deliver
    PROVE  Settled'
<1>1. PICK p : p = Head(replies).by
  OBVIOUS
<1>2. /\ replies # <<>> /\ replies' = Tail(replies)
      /\ answer' = IF p = None THEN answer ELSE [answer EXCEPT ![p] = Head(replies).resp]
      /\ UNCHANGED <<req, late, up, wire, caches, open, active>>
  BY <1>1 DEF Deliver, driver
<1>3. /\ Head(replies) = replies[1] /\ 1 \in DOMAIN replies /\ replies' \in Seq(Replied)
      /\ Len(replies') = Len(replies) - 1 /\ Len(replies) \in Nat
      /\ \A i \in DOMAIN replies' : i \in Nat /\ i + 1 \in DOMAIN replies /\ i + 1 # 1 /\ replies'[i] = replies[i + 1]
  BY <1>2, TailOf DEF Shape, Types, TunnelTypes
<1>4. /\ replies[1].by = p /\ p \in Proxies \cup {None} /\ replies[1].resp \in Responses
      /\ up /\ \A q \in Proxies : ~Answers(q)
  BY <1>1, <1>2, <1>3, Entries DEF Shape, Types, Settled, Last
<1>5. ASSUME p # None
      PROVE  /\ wire = <<>> /\ replies' = <<>> /\ Holds(req[p], replies[1].resp)
             /\ answer'[p] = replies[1].resp /\ \A q \in Proxies : q = p
             /\ ~relic => IsNew(req[p], replies[1].resp)
  <2>1. wire = <<>> /\ Len(replies) = 1
    BY <1>3, <1>4, <1>5 DEF Settled, Last
  <2>2. replies' = <<>>
    BY <2>1, <1>3
  <2>3. answer'[p] = replies[1].resp
    BY <1>2, <1>3, <1>4, <1>5 DEF Shape, Types, HandlerTypes
  <2>4. Holds(req[p], replies[1].resp) /\ (~relic => IsNew(req[p], replies[1].resp))
    BY <1>3, <1>4, <1>5 DEF Settled, Confirmed, Agree, Distinct
  <2>. QED  BY <1>4, <1>5, <2>1, <2>2, <2>3, <2>4 DEF OneConnection
<1>6. CASE p = None
  <2>1. Last'
    BY <1>2, <1>3, <1>4, <1>6 DEF Settled, Last, Answers
  <2>2. Confirmed'
    BY <1>2, <1>3, <1>4, <1>6 DEF Settled, Confirmed, Answers, Holds
  <2>3. ~relic => Distinct'
    BY <1>2, <1>3, <1>4, <1>6 DEF Settled, Agree, Distinct, Answers, IsNew, caches, filterCache
  <2>. QED  BY <1>2, <1>4, <2>1, <2>2, <2>3
               DEF Settled, Agree, Kept, Spares, Knows, caches, filterCache
<1>7. CASE p # None
  <2>1. Last'
    BY <1>2, <1>4, <1>5, <1>7 DEF Last
  <2>2. Confirmed'
    BY <1>2, <1>5, <1>7 DEF Confirmed, Holds
  <2>3. ~relic => Distinct'
    BY <1>2, <1>5, <1>7 DEF Distinct, IsNew, caches, filterCache
  <2>. QED  BY <1>2, <1>4, <1>5, <1>7, <2>1, <2>2, <2>3
               DEF Settled, Agree, Kept, Knows, caches, filterCache
<1>. QED  BY <1>6, <1>7

LEMMA TunnelLostSettled ==
    ASSUME Shape, Settled, TunnelLost
    PROVE  Settled'
<1>1. /\ up' = FALSE /\ wire' = <<>> /\ replies' = <<>> /\ answer' = answer
      /\ late' = {p \in Proxies : answer[p] # None} /\ ClearCaches
  BY DEF TunnelLost
<1>2. \A p \in Proxies : ~Answers(p)'
  BY <1>1 DEF Answers
<1>3. Kept' /\ Empty'
  BY <1>1, EmptyAgreesNext, ClearCachesEmpties
<1>. QED  BY <1>1, <1>2, <1>3 DEF Settled, Last, Confirmed, Agree, Distinct

LEMMA ExecuteSettled ==
    ASSUME Shape, Settled, Execute
    PROVE  Settled'
<1>1. wire # <<>>
  BY DEF Execute
<1>2. PICK r \in Requests : r = Head(wire).req /\ r = wire[1].req
  BY <1>1, TailOf, Entries DEF Shape, Types, TunnelTypes
<1>3. PICK a \in Responses : Answered(a) /\ Keeps(r, a)
  BY <1>1, <1>2, DriverExecutes DEF Shape, Types
<1>4. /\ 1 \in DOMAIN wire /\ Len(wire) \in Nat /\ wire' \in Seq(Wired) /\ Len(wire') = Len(wire) - 1
      /\ \A i \in DOMAIN wire' : i \in Nat /\ i + 1 \in DOMAIN wire /\ i + 1 # 1 /\ wire'[i] = wire[i + 1]
      /\ replies' \in Seq(Replied) /\ Len(replies') = Len(replies) + 1
      /\ \A i \in DOMAIN replies' :
                \/ i = Len(replies) + 1 /\ i \notin DOMAIN replies /\ replies'[i].by = wire[1].by /\ replies'[i].resp = a
                \/ i \in DOMAIN replies /\ i # Len(replies) + 1 /\ replies'[i] = replies[i]
  BY <1>1, <1>3, AnsweredQueues, Entries DEF Shape, Types
<1>5. UNCHANGED <<handlers, req, answer, late, up, caches>> /\ Holds(r, a)' /\ (Kept /\ Spares(r) => Kept' /\ IsNew(r, a)')
  BY <1>3 DEF Answered, Keeps, handlers
<1>6. /\ up /\ \A p \in Proxies : ~Answers(p)'
      /\ \A i \in DOMAIN replies : replies[i].by = None
      /\ wire[1].by # None => req[wire[1].by] = r
  BY <1>1, <1>2, <1>4, <1>5 DEF Shape, UnderWay, Settled, Last, Answers
<1>7. \A i \in DOMAIN replies' : replies'[i].by # None =>
        i = Len(replies') /\ replies'[i].by = wire[1].by /\ replies'[i].resp = a
  BY <1>4, <1>6
<1>8. Last'
  <2>1. \A i \in DOMAIN wire' : wire'[i].by # None => i = Len(wire')
    <3>1. \A i \in DOMAIN wire : wire[i].by # None => i = Len(wire)
      BY DEF Settled, Last
    <3>. QED
      <4>1. SUFFICES ASSUME NEW i \in DOMAIN wire', wire'[i].by # None
                     PROVE  i = Len(wire')
        OBVIOUS
      <4>2. i \in Nat /\ i + 1 \in DOMAIN wire /\ wire'[i] = wire[i + 1]
        BY <1>4
      <4>3. i + 1 = Len(wire)
        BY <3>1, <4>1, <4>2
      <4>. QED  BY <1>4, <4>2, <4>3
  <2>2. wire[1].by # None => wire' = <<>>
    <3>1. wire[1].by # None => Len(wire) = 1
      BY <1>4 DEF Settled, Last
    <3>. QED  BY <3>1, <1>4
  <2>. QED  BY <1>5, <1>6, <1>7, <2>1, <2>2 DEF Last
<1>9. Confirmed'
  BY <1>5, <1>6, <1>7 DEF Confirmed, Holds
<1>10. Agree'
  <2>1. ASSUME ~relic
        PROVE  Kept' /\ Distinct' /\ \A i \in DOMAIN wire' : Spares(wire[i].req)'
    <3>1. Kept /\ \A i \in DOMAIN wire : Spares(wire[i].req)
      BY <2>1 DEF Settled, Agree
    <3>2. Kept' /\ IsNew(r, a)'
      BY <3>1, <1>2, <1>4, <1>5
    <3>3. Distinct'
      BY <3>2, <1>5, <1>6, <1>7 DEF Distinct, IsNew
    <3>4. ASSUME NEW i \in DOMAIN wire'
          PROVE  Spares(wire[i].req)'
      <4>1. Spares(wire[i + 1].req) /\ wire'[i] = wire[i + 1]
        BY <1>4, <3>1
      <4>. QED  BY <4>1, <1>5 DEF Spares, Knows, caches, filterCache
    <3>. QED  BY <3>2, <3>3, <3>4
  <2>. QED  BY <1>5, <1>6, <2>1 DEF Agree, caches
<1>. QED  BY <1>8, <1>9, <1>10 DEF Settled

LEMMA InitSettled == Init => Settled
<1>. SUFFICES ASSUME Init PROVE Settled
  OBVIOUS
<1>1. Empty /\ wire = <<>> /\ replies = <<>> /\ \A p \in Proxies : answer[p] = None
  BY InitShape DEF Init
<1>2. Kept
  BY <1>1 DEF Empty, Kept
<1>. QED  BY <1>1, <1>2 DEF Settled, Last, Confirmed, Agree, Distinct, Answers

LEMMA NextSettled == OneConnection /\ Shape /\ Settled /\ [Next]_vars => Settled'
<1>. SUFFICES ASSUME OneConnection, Shape, Settled, [Next]_vars PROVE Settled'
  OBVIOUS
<1>1. ASSUME NEW p \in Proxies, PassGate(p) \/ Resume(p) \/ TimesOut(p)
      PROVE  Settled'
  BY <1>1, PassGateSettled, ResumeSettled, TimesOutSettled
<1>2. ASSUME NEW p \in Proxies, NEW r \in Requests, Request(p, r)
      PROVE  Settled'
  BY <1>2, ServeSettled, ForwardSettled, ForwardRaisesSettled DEF Request
<1>3. CASE TunnelUp \/ Deliver \/ TunnelLost \/ Tick \/ Execute
  BY <1>3, TunnelUpSettled, DeliverSettled, TunnelLostSettled, TickSettled, ExecuteSettled
<1>4. ASSUME NEW c \in Channels, MessageArrives(c)
      PROVE  Settled'
  BY <1>4, MessageArrivesSettled
<1>5. CASE UNCHANGED vars
  <2>1. UNCHANGED <<req, answer, late, wire, replies, up, open, active, caches>>
    BY <1>5 DEF vars, handlers, tunnel, driver
  <2>2. CacheTypes' /\ Shrinks /\ (Indexed => Indexed') /\ relic' = relic
    BY <2>1
       DEF caches, filterCache, Shape, Types, CacheTypes, ByChannel, Shrinks, Knows, Indexed
  <2>. QED  BY <2>1, <2>2, ForgetsSettled
<1>. QED  BY <1>1, <1>2, <1>3, <1>4, <1>5 DEF Next

-----------------------------------------------------------------------------
(* The theorems.                                                           *)

\* The state is well typed, however many DLLs are connected.
THEOREM TypeCorrect == Spec => []TypeOK
<1>1. Init => Shape
  BY InitShape
<1>2. Shape /\ [Next]_vars => Shape'
  BY NextShape
<1>3. Shape => TypeOK
  BY Typed DEF Shape
<1>. QED  BY <1>1, <1>2, <1>3, PTL DEF Spec

\* With one DLL connection, what the caches answer for is so in the driver,
\* as long as no answer of an ended tunnel was recorded.
THEOREM CachesAgree == Spec => [](OneConnection => CachesAgreeWithDriver)
<1>. DEFINE Inv == Shape /\ (OneConnection => Settled)
<1>1. Init => Inv
  BY InitShape, InitSettled
<1>2. Inv /\ [Next]_vars => Inv'
  <2>1. OneConnection' <=> OneConnection
    BY DEF OneConnection
  <2>. QED  BY <2>1, NextShape, NextSettled
<1>3. Inv => (OneConnection => CachesAgreeWithDriver)
  BY DEF Settled, Agree, Kept, Knows, CachesAgreeWithDriver
<1>. HIDE DEF Inv
<1>. QED  BY <1>1, <1>2, <1>3, PTL DEF Spec
=============================================================================
