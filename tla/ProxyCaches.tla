---------------------------- MODULE ProxyCaches ----------------------------
(***************************************************************************)
(* The response caches of the reverse server (vci_proxy/cache_*.py) and    *)
(* the three places of _handle_proxy_connection that use them: a request   *)
(* is first looked up (_try_serve_cached), a request that misses evicts    *)
(* what it makes untrue (_invalidate_caches) before it is forwarded, and   *)
(* its answer is recorded (_record_in_caches) when the handler resumes.    *)
(* The tunnel and the J2534 driver at its other end, which executes the    *)
(* forwarded requests one after the other, are external: only what the     *)
(* caches must agree with is kept of them.                                 *)
(***************************************************************************)
EXTENDS Integers, Sequences

CONSTANTS
    Proxies,    \* handlers of DLL connections; a slot is reused when its DLL reconnects
    Channels,   \* channel ids
    Filters,    \* the rest of a StartFilter body: type, mask, pattern, flow control
    FilterIds,  \* filter ids of the driver
    Params,     \* parameters a GET_CONFIG asks for (its input_data)
    None,       \* no value, no handler
    ReadTTL,    \* ReadMsgsCacheConfig.ttl_ms, in ticks
    IoctlTTL,   \* IoctlCacheConfig.ttl_s, in ticks
    MaxWire,    \* bound on the requests forwarded and not yet answered
    MaxTunnels  \* bound on the tunnels of a behaviour

\* A filter_key stands for its SHA-256.
Keys == [ch: Channels, f: Filters]

ASSUME CachesAssumption ==
    /\ None \notin Proxies \cup FilterIds \cup Params \cup Keys \cup {"empty"}
    /\ ReadTTL \in Nat /\ IoctlTTL \in Nat /\ MaxWire \in Nat /\ MaxTunnels \in Nat

VARIABLES
    at,             \* where the handler of each DLL connection is
    req,            \* the request it has forwarded (None: none)
    answer,         \* the result of its future (None: not set)
    up,             \* vci_connected
    tunnels,        \* tunnels there have been
    wire, replies,  \* what travels to the driver and back, oldest first
    filters,        \* FilterDeduplicationCache._filters, as filter_key -> filter_id (None: absent)
    channelFilters, \* _channel_filters
    idToKey,        \* _id_to_key (None: absent)
    readAge,        \* ticks since a BUFFER_EMPTY was recorded in ReadMsgsCache._channels
    config,         \* IoctlCache._entries for GET_CONFIG: what was recorded, and its age
    open, active, buffered,  \* the driver: open channels, started filters, unread messages
    late,           \* history: handlers whose answer is of a tunnel that has ended
    relic           \* history: the caches took such an answer

handlers == <<at, req, answer, late>>
tunnel   == <<up, tunnels, wire, replies>>
filterCache == <<filters, channelFilters, idToKey>>
caches   == <<filterCache, readAge, config, relic>>
driver   == <<open, active, buffered>>
vars == <<handlers, tunnel, caches, driver>>

(* The bodies the caches tell apart.                                       *)
Requests ==
         [kind: {"connect", "close"}]
    \cup [kind: {"disconnect", "read"}, ch: Channels]
    \cup [kind: {"start"}, ch: Channels, f: Filters]
    \cup [kind: {"stop"}, ch: Channels, id: FilterIds]
    \cup [kind: {"get"}, ch: Channels, param: Params]

Responses == [ok: BOOLEAN, val: FilterIds \cup Params \cup {None, "empty", "messages"}]
Failed == [ok |-> FALSE, val |-> None]
Success(v) == [ok |-> TRUE, val |-> v]

TypeOK ==
    /\ at \in [Proxies -> {"gate", "reading", "waiting"}]
    /\ req \in [Proxies -> Requests \cup {None}]
    /\ answer \in [Proxies -> Responses \cup {None}]
    /\ up \in BOOLEAN
    /\ tunnels \in 0..MaxTunnels
    /\ wire \in Seq([by: Proxies \cup {None}, req: Requests])
    /\ replies \in Seq([by: Proxies \cup {None}, resp: Responses])
    /\ filters \in [Keys -> FilterIds \cup {None}]
    /\ channelFilters \in [Channels -> SUBSET Keys]
    /\ idToKey \in [FilterIds -> Keys \cup {None}]
    /\ readAge \in [Channels -> 0..ReadTTL + 1]
    /\ config \in [Channels -> [param: Params \cup {None}, age: 0..IoctlTTL + 1]]
    /\ open \subseteq Channels
    /\ active \subseteq [ch: Channels, f: Filters, id: FilterIds]
    /\ buffered \subseteq open
    /\ late \subseteq Proxies
    /\ relic \in BOOLEAN

-----------------------------------------------------------------------------
(* The caches.  An age above the time to live is a miss, like no entry.    *)

NoFilters == [k \in Keys |-> None]
NoReads   == [c \in Channels |-> ReadTTL + 1]
NoConfig  == [param |-> None, age |-> IoctlTTL + 1]
NoConfigs == [c \in Channels |-> NoConfig]

Init ==
    /\ at = [p \in Proxies |-> "gate"]
    /\ req = [p \in Proxies |-> None]
    /\ answer = [p \in Proxies |-> None]
    /\ up = FALSE /\ tunnels = 0
    /\ wire = <<>> /\ replies = <<>>
    /\ filters = NoFilters
    /\ channelFilters = [c \in Channels |-> {}]
    /\ idToKey = [i \in FilterIds |-> None]
    /\ readAge = NoReads
    /\ config = NoConfigs
    /\ open = {} /\ active = {} /\ buffered = {}
    /\ late = {} /\ relic = FALSE

KeyOf(r) == [ch |-> r.ch, f |-> r.f]

(* _try_serve_cached: what the caches answer to r, None on a miss.         *)
Cached(r) ==
    CASE r.kind = "read" /\ readAge[r.ch] <= ReadTTL -> Success("empty")
      [] r.kind = "start" /\ filters[KeyOf(r)] # None -> Success(filters[KeyOf(r)])
      [] r.kind = "get" /\ config[r.ch].age <= IoctlTTL -> Success(config[r.ch].param)
      [] OTHER -> None

(* Variant: the filters of a disconnected channel stay cached.             *)
ForgetChannelButFilters(c) ==
    /\ readAge' = [readAge EXCEPT ![c] = ReadTTL + 1]
    /\ config' = [config EXCEPT ![c] = NoConfig]
    /\ UNCHANGED <<filterCache, relic>>

(* Variant: what was read on a disconnected channel stays cached.          *)
ForgetChannelButReads(c) ==
    /\ filters' = [k \in Keys |-> IF k \in channelFilters[c] THEN None ELSE filters[k]]
    /\ idToKey' = [i \in FilterIds |->
                     IF \E k \in channelFilters[c] : filters[k] = i THEN None ELSE idToKey[i]]
    /\ channelFilters' = [channelFilters EXCEPT ![c] = {}]
    /\ config' = [config EXCEPT ![c] = NoConfig]
    /\ UNCHANGED <<readAge, relic>>

(* FilterDeduplicationCache.invalidate_channel, with IoctlCache's and      *)
(* ReadMsgsCache's, which a DISCONNECT calls together.                     *)
ForgetChannel(c) ==
    /\ filters' = [k \in Keys |-> IF k \in channelFilters[c] THEN None ELSE filters[k]]
    /\ idToKey' = [i \in FilterIds |->
                     IF \E k \in channelFilters[c] : filters[k] = i THEN None ELSE idToKey[i]]
    /\ channelFilters' = [channelFilters EXCEPT ![c] = {}]
    /\ readAge' = [readAge EXCEPT ![c] = ReadTTL + 1]
    /\ config' = [config EXCEPT ![c] = NoConfig]
    /\ UNCHANGED relic

ClearCaches ==
    /\ filters' = NoFilters
    /\ channelFilters' = [c \in Channels |-> {}]
    /\ idToKey' = [i \in FilterIds |-> None]
    /\ readAge' = NoReads
    /\ config' = NoConfigs
    /\ relic' = FALSE

(* on_stop_filter, for an id that is cached.                               *)
ForgetFilter(i) ==
    /\ idToKey[i] # None
    /\ filters' = [filters EXCEPT ![idToKey[i]] = None]
    /\ channelFilters' = [c \in Channels |-> channelFilters[c] \ {idToKey[i]}]
    /\ idToKey' = [idToKey EXCEPT ![i] = None]
    /\ UNCHANGED <<readAge, config, relic>>

(* _invalidate_caches: what a request evicts before it is forwarded.       *)
Invalidate(r) ==
    \/ r.kind = "disconnect" /\ ForgetChannel(r.ch)
    \/ r.kind = "close" /\ ClearCaches
    \/ r.kind = "stop" /\ ForgetFilter(r.id)
    \/ r.kind = "stop" /\ idToKey[r.id] = None /\ UNCHANGED caches
    \/ r.kind \in {"connect", "start", "read", "get"} /\ UNCHANGED caches

(* The record_result of each cache.                                        *)
RecordFilter(k, i) ==
    /\ filters' = [filters EXCEPT ![k] = i]
    /\ idToKey' = [idToKey EXCEPT ![i] = k]
    /\ channelFilters' = [channelFilters EXCEPT ![k.ch] = @ \cup {k}]
    /\ UNCHANGED <<readAge, config>>

RecordRead(c, a) ==
    /\ readAge' = [readAge EXCEPT ![c] = IF a.val = "empty" THEN 0 ELSE ReadTTL + 1]
    /\ UNCHANGED <<filterCache, config>>

RecordConfig(c, param) ==
    /\ config' = [config EXCEPT ![c] = [param |-> param, age |-> 0]]
    /\ UNCHANGED <<filterCache, readAge>>

RecordsNothing(r, a) == r.kind \in {"start", "get"} => ~a.ok

(* _record_in_caches: a read is recorded whatever its code, a filter or a  *)
(* configuration only when the driver succeeded.                           *)
Record(r, a) ==
    \/ r.kind = "start" /\ a.ok /\ RecordFilter(KeyOf(r), a.val)
    \/ r.kind = "read" /\ RecordRead(r.ch, a)
    \/ r.kind = "get" /\ a.ok /\ RecordConfig(r.ch, a.val)
    \/ r.kind # "read" /\ RecordsNothing(r, a) /\ UNCHANGED <<filterCache, readAge, config>>

-----------------------------------------------------------------------------
(* The handlers of the DLL connections.                                    *)

(* The gate in front of every request: vci_connected.wait().               *)
PassGate(p) ==
    /\ at[p] = "gate" /\ up
    /\ at' = [at EXCEPT ![p] = "reading"]
    /\ UNCHANGED <<req, answer, late, tunnel, caches, driver>>

NextRequest == IF up THEN "reading" ELSE "gate"

(* Variant: a hit counts as a fresh observation.                           *)
ServeRefreshes(p, r) ==
    /\ at[p] = "reading" /\ Cached(r) # None
    /\ at' = [at EXCEPT ![p] = NextRequest]
    /\ readAge' = IF r.kind = "read" THEN [readAge EXCEPT ![r.ch] = 0] ELSE readAge
    /\ UNCHANGED <<req, answer, late, tunnel, filterCache, config, relic, driver>>

(* A hit: the handler replies at once and goes back to the gate.           *)
Serve(p, r) ==
    /\ at[p] = "reading" /\ Cached(r) # None
    /\ at' = [at EXCEPT ![p] = NextRequest]
    /\ UNCHANGED <<req, answer, late, tunnel, caches, driver>>

(* A miss: evict, then forward over the tunnel.                            *)
Forward(p, r) ==
    /\ at[p] = "reading" /\ Cached(r) = None /\ up
    /\ Len(wire) + Len(replies) < MaxWire
    /\ Invalidate(r)
    /\ at' = [at EXCEPT ![p] = "waiting"]
    /\ req' = [req EXCEPT ![p] = r]
    /\ wire' = Append(wire, [by |-> p, req |-> r])
    /\ UNCHANGED <<answer, late, up, tunnels, replies, driver>>

(* A miss with no tunnel: the eviction is done, the forward raises, the    *)
(* connection is closed and the DLL comes back with another one.           *)
ForwardRaises(p, r) ==
    /\ at[p] = "reading" /\ Cached(r) = None /\ ~up
    /\ Invalidate(r)
    /\ at' = [at EXCEPT ![p] = "gate"]
    /\ UNCHANGED <<req, answer, late, tunnel, driver>>

(* The future is done and the handler runs again: record, then reply.      *)
Resume(p) ==
    /\ at[p] = "waiting" /\ answer[p] # None
    /\ Record(req[p], answer[p])
    /\ relic' = (relic \/ p \in late)
    /\ at' = [at EXCEPT ![p] = NextRequest]
    /\ answer' = [answer EXCEPT ![p] = None]
    /\ req' = [req EXCEPT ![p] = None]
    /\ late' = late \ {p}
    /\ UNCHANGED <<tunnel, driver>>

(* No task waits any more for what p has forwarded.                        *)
Disowned(queue, p) ==
    [i \in DOMAIN queue |-> IF queue[i].by = p THEN [queue[i] EXCEPT !.by = None] ELSE queue[i]]

(* wait_for's 30 s are over: the handler drops the future and closes the   *)
(* connection; the request stays with the driver.                          *)
TimesOut(p) ==
    /\ at[p] = "waiting" /\ answer[p] = None
    /\ at' = [at EXCEPT ![p] = "gate"]
    /\ req' = [req EXCEPT ![p] = None]
    /\ wire' = Disowned(wire, p)
    /\ replies' = Disowned(replies, p)
    /\ UNCHANGED <<answer, late, up, tunnels, caches, driver>>

-----------------------------------------------------------------------------
(* The tunnel: its reader completes the futures in the order of arrival.   *)

TunnelUp ==
    /\ ~up /\ tunnels < MaxTunnels
    /\ up' = TRUE
    /\ tunnels' = tunnels + 1
    /\ \/ UNCHANGED driver                                 \* the client has kept its driver open
       \/ open' = {} /\ active' = {} /\ buffered' = {}     \* another or a restarted client
    /\ UNCHANGED <<handlers, wire, replies, caches>>

Deliver ==
    /\ replies # <<>>
    /\ LET p == Head(replies).by IN
       answer' = IF p = None THEN answer ELSE [answer EXCEPT ![p] = Head(replies).resp]
    /\ replies' = Tail(replies)
    /\ UNCHANGED <<at, req, late, up, tunnels, wire, caches, driver>>

(* The tunnel's teardown up to its first await: vci_connected is cleared,  *)
(* the pending futures fail and the caches are emptied.  A handler whose   *)
(* future was done before is still to resume.                              *)
TunnelLost ==
    /\ up /\ tunnels < MaxTunnels
    /\ up' = FALSE
    /\ wire' = <<>> /\ replies' = <<>>
    /\ ClearCaches
    /\ LET failed == {p \in Proxies : at[p] = "waiting" /\ answer[p] = None} IN
       /\ at' = [p \in Proxies |-> IF p \in failed THEN "gate" ELSE at[p]]
       /\ req' = [p \in Proxies |-> IF p \in failed THEN None ELSE req[p]]
    /\ late' = {p \in Proxies : answer[p] # None}
    /\ UNCHANGED <<answer, tunnels, driver>>

(* Time passes for the entries of both caches.                             *)
OlderForEver(age, ttl) == age + 1   \* variant: the age is not bounded
Older(age, ttl) == IF age <= ttl THEN age + 1 ELSE age
Tick ==
    /\ readAge' = [c \in Channels |-> Older(readAge[c], ReadTTL)]
    /\ config' = [c \in Channels |-> [config[c] EXCEPT !.age = Older(@, IoctlTTL)]]
    /\ UNCHANGED <<handlers, tunnel, filterCache, relic, driver>>

-----------------------------------------------------------------------------
(* The driver (external): it executes the forwarded requests in order.     *)

Answered(resp) ==
    /\ wire' = Tail(wire)
    /\ replies' = Append(replies, [by |-> Head(wire).by, resp |-> resp])
    /\ UNCHANGED <<handlers, up, tunnels, caches>>

Opens(c) ==
    /\ c \notin open
    /\ open' = open \cup {c}
    /\ UNCHANGED <<active, buffered>>

Closes(cs) ==
    /\ open' = open \ cs
    /\ active' = {a \in active : a.ch \notin cs}
    /\ buffered' = buffered \ cs

Starts(r, i) ==
    /\ r.ch \in open
    /\ \A a \in active : a.id # i
    /\ active' = active \cup {[ch |-> r.ch, f |-> r.f, id |-> i]}
    /\ UNCHANGED <<open, buffered>>

Stops(r) ==
    /\ \E a \in active : a.ch = r.ch /\ a.id = r.id
    /\ active' = {a \in active : a.id # r.id}
    /\ UNCHANGED <<open, buffered>>

Executes(r) ==
    \/ r.kind = "connect" /\ (\E c \in Channels : Opens(c)) /\ Answered(Success(None))
    \/ r.kind = "close" /\ Closes(Channels) /\ Answered(Success(None))
    \/ r.kind = "disconnect" /\ r.ch \in open /\ Closes({r.ch}) /\ Answered(Success(None))
    \/ r.kind = "start" /\ \E i \in FilterIds : Starts(r, i) /\ Answered(Success(i))
    \/ r.kind = "stop" /\ Stops(r) /\ Answered(Success(None))
    \/ r.kind = "get" /\ r.ch \in open /\ Answered(Success(r.param)) /\ UNCHANGED driver

Refuses(r) ==
    /\ r.kind # "read"
    /\ Answered(Failed) /\ UNCHANGED driver

Reads(r) ==
    /\ r.kind = "read"
    /\ \/ r.ch \in buffered /\ Answered(Success("messages"))
       \/ r.ch \in open \ buffered /\ Answered(Success("empty"))
       \/ r.ch \notin open /\ Answered(Failed)
    /\ buffered' = buffered \ {r.ch}
    /\ UNCHANGED <<open, active>>

Execute == wire # <<>> /\ LET r == Head(wire).req IN Executes(r) \/ Refuses(r) \/ Reads(r)

MessageArrives(c) ==
    /\ c \in open \ buffered
    /\ buffered' = buffered \cup {c}
    /\ UNCHANGED <<handlers, tunnel, caches, open, active>>

-----------------------------------------------------------------------------
Request(p, r) == Serve(p, r) \/ Forward(p, r) \/ ForwardRaises(p, r)

Next ==
    \/ \E p \in Proxies : PassGate(p) \/ Resume(p) \/ TimesOut(p)
    \/ \E p \in Proxies, r \in Requests : Request(p, r)
    \/ TunnelUp \/ Deliver \/ TunnelLost \/ Tick \/ Execute
    \/ \E c \in Channels : MessageArrives(c)

(* Every DLL keeps polling its channels, as J2534 applications do; what    *)
(* the server and the driver have to do, they do.                          *)
Fairness ==
    /\ WF_vars(TunnelUp) /\ WF_vars(Deliver) /\ WF_vars(Execute) /\ WF_vars(Tick)
    /\ \A p \in Proxies : WF_vars(PassGate(p)) /\ WF_vars(Resume(p))
    /\ \A p \in Proxies, c \in Channels : SF_vars(Request(p, [kind |-> "read", ch |-> c]))

Spec == Init /\ [][Next]_vars
FairSpec == Spec /\ Fairness

-----------------------------------------------------------------------------
(* With one DLL connection, a filter the cache answers for is started in   *)
(* the driver on that channel, StopFilter and Disconnect both find the     *)
(* entry they have to evict, and what is answered about a channel without  *)
(* asking the driver is about a channel that is open: whatever was timed   *)
(* out, refused or lost, as long as no answer of an ended tunnel was       *)
(* recorded.                                                               *)
CachesAgreeWithDriver ==
    ~relic =>
        /\ \A k \in Keys : filters[k] # None =>
               /\ [ch |-> k.ch, f |-> k.f, id |-> filters[k]] \in active
               /\ k \in channelFilters[k.ch] /\ idToKey[filters[k]] = k
        /\ \A c \in Channels :
               readAge[c] <= ReadTTL \/ config[c].age <= IoctlTTL => c \in open

(* Clearing the caches when the tunnel disconnects leaves nothing in them  *)
(* until the next tunnel (cache_filter_dedup.py, "on VCI disconnect").     *)
EmptyWithoutTunnel == ~up => filters = NoFilters

(* A GET_CONFIG the cache answers is answered about the parameter it asks  *)
(* for (cache_ioctl.py, "read-only IOCTL IDs safe to cache").              *)
ConfigAnswersParameter ==
    \A p \in Proxies, r \in Requests :
        at[p] = "reading" /\ r.kind = "get" /\ Cached(r) # None => Cached(r).val = r.param

(* BUFFER_EMPTY is served from the cache for a bounded time only: a message*)
(* waiting in the driver is eventually read, however often the DLL polls.  *)
MessagesAreRead == \A c \in Channels : c \in buffered ~> c \notin buffered
=============================================================================
