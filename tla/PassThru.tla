----------------------------- MODULE PassThru -----------------------------
(***************************************************************************)
(* A PassThru call of GDS2 from end to end.  Threads of GDS2 call the      *)
(* virtual DLL (vci_proxy/virtual_dll/virtual_j2534.c), which holds one    *)
(* lock over one socket to the server and tries a call again when its      *)
(* answer does not come.  The server relays it through the tunnel to the   *)
(* client, whose worker process runs the vendor's driver.                  *)
(*                                                                         *)
(* The worker is launched first: the driver's DLL is picked from what is   *)
(* registered, and a process of each architecture it may have is tried.    *)
(*                                                                         *)
(* The answers the server and the client keep are left out (ProxyCaches),  *)
(* and so is the device opened beforehand (ReverseClient): every request   *)
(* here reaches the driver.                                                *)
(***************************************************************************)
EXTENDS J2534Wire, FiniteSets

CONSTANTS
    Threads,      \* threads of GDS2 that make calls
    NoThread,
    Settings,     \* what may be installed where the client runs, and what
                  \* GDS2 may do: a sequence of templates of calls
    MaxRetries,   \* 3 in the code
    MaxFaults     \* bound: tunnels lost, waits given up, crashes, failed starts

ASSUME PassThruAssumption ==
    /\ NoThread \notin Threads
    /\ MaxRetries \in Nat /\ MaxFaults \in Nat

Arches == {"x86", "x64"}

VARIABLES
    machine,    \* what is installed
    worker,     \* the launch of the worker, and its processes
    program,    \* the calls GDS2 has yet to make
    calls,      \* per thread: where its call is
    lock,       \* the thread in g_cs
    socket,     \* the DLL's connection, 0 for INVALID_SOCKET
    conns,      \* connections made so far
    attempts,   \* requests sent, in order
    up,         \* the tunnel is up
    tunnel,     \* requests on their way to the driver
    device,     \* the vendor's driver
    given,      \* handles GDS2 was given and has not given back
    log,        \* per sequence number: its call, what was run, what came back
    faults

dll == <<program, calls, lock, socket, conns, given>>
passThruVars == <<machine, worker, dll, attempts, up, tunnel, device, log, faults>>

---------------------------------------------------------------------------
(* The launch of the worker.                                               *)

\* _driver_preference_key: Scanmatik first, a known architecture first, then
\* by name.
Preferred(d, e) ==
    \/ d.scanmatik /\ ~e.scanmatik
    \/ d.scanmatik = e.scanmatik /\ d.arch # "unknown" /\ e.arch = "unknown"
    \/ /\ d.scanmatik = e.scanmatik
       /\ (d.arch = "unknown") = (e.arch = "unknown")
       /\ d.name < e.name

NoDll == [name |-> 0, scanmatik |-> FALSE, arch |-> "unknown", real |-> "none"]

\* The configured DLL, the best of those registered, or the first fallback.
Selected(m) ==
    IF m.configured # NoDll THEN m.configured
    ELSE IF m.registered # {}
    THEN CHOOSE d \in m.registered : \A e \in m.registered \ {d} : Preferred(d, e)
    ELSE m.fallback

Other(a) == CHOOSE b \in Arches : b # a
\* What can be run: a bundled worker, this interpreter or another one.
Runnable(m) == m.runtimes \cup {m.python}
Tried(m, arch) == IF arch \in Runnable(m) THEN <<arch>> ELSE <<>>

\* Mutant: only this interpreter is tried for a DLL of unknown architecture.
CandidatesOfPython(m) ==
    LET arch == Selected(m).arch
    IN  Tried(m, IF arch # "unknown" THEN arch ELSE m.python)

\* The architectures tried for a DLL, in order.
Candidates(m) ==
    LET arch == Selected(m).arch
    IN  IF arch # "unknown" THEN Tried(m, arch)
        ELSE Tried(m, m.python) \o Tried(m, Other(m.python))

\* A DLL is of the architecture its header says, if the header says one.
ASSUME DllAssumption ==
    \A s \in Settings :
        /\ s.machine.python \in Arches
        /\ Selected(s.machine) # NoDll =>
             /\ Selected(s.machine).real \in Arches
             /\ Selected(s.machine).arch \in {Selected(s.machine).real, "unknown"}

NoProcess == [arch |-> "none", state |-> "gone"]

NothingOpen ==
    [open |-> {}, next |-> 1, inbox |-> <<>>, config |-> <<>>]

Idle == [pc |-> "idle", call |-> Rejected, seq |-> 0, tries |-> 0]

PassThruInit ==
    /\ \E s \in Settings : machine = s.machine /\ program = s.program
    /\ worker = [pc |-> "idle", left |-> <<>>, process |-> NoProcess, slow |-> FALSE]
    /\ calls = [t \in Threads |-> Idle]
    /\ lock = NoThread /\ socket = 0 /\ conns = 0 /\ attempts = <<>>
    /\ up = FALSE /\ tunnel = <<>> /\ device = NothingOpen
    /\ given = {} /\ log = <<>> /\ faults = 0

Apart == UNCHANGED <<machine, dll, attempts, device, log>>

\* The client loads its driver: the controller resolves what it can launch.
Resolves ==
    /\ worker.pc = "idle"
    /\ worker' = IF Selected(machine) = NoDll \/ Candidates(machine) = <<>>
                 THEN [worker EXCEPT !.pc = "failed"]
                 ELSE [worker EXCEPT !.pc = "spawns", !.left = Candidates(machine)]
    /\ Apart /\ UNCHANGED <<up, tunnel, faults>>

\* The next architecture is spawned; when none is left the launch has failed.
Spawns ==
    /\ worker.pc = "spawns"
    /\ worker' =
        IF worker.left = <<>>
        THEN [worker EXCEPT !.pc = "failed"]
        ELSE [worker EXCEPT !.pc = "connects", !.left = Tail(@),
                !.process = [arch |-> Head(worker.left), state |-> "loads"]]
    /\ Apart /\ UNCHANGED <<up, tunnel, faults>>

\* Popen raises: the next one is tried.
SpawnFails ==
    /\ worker.pc = "spawns" /\ worker.left # <<>> /\ faults < MaxFaults
    /\ worker' = [worker EXCEPT !.left = Tail(@), !.slow = TRUE]
    /\ faults' = faults + 1
    /\ Apart /\ UNCHANGED <<up, tunnel>>

\* serve_worker loads the DLL and listens, or ends with the error.
Loads ==
    /\ worker.process.state = "loads"
    /\ worker' = [worker EXCEPT !.process.state =
                    IF worker.process.arch = Selected(machine).real
                    THEN "listens" ELSE "gone"]
    /\ Apart /\ UNCHANGED <<up, tunnel, faults>>

\* The controller reaches the listener: the driver is loaded.
Reaches ==
    /\ worker.pc = "connects" /\ worker.process.state = "listens"
    /\ worker' = [worker EXCEPT !.pc = "up", !.process.state = "serves"]
    /\ Apart /\ UNCHANGED <<up, tunnel, faults>>

\* The process has exited: the next one is tried.
SeesExit ==
    /\ worker.pc = "connects" /\ worker.process.state = "gone"
    /\ worker' = [worker EXCEPT !.pc = "spawns"]
    /\ Apart /\ UNCHANGED <<up, tunnel, faults>>

\* Ten seconds have passed: stop ends the process.
GivesUp ==
    /\ worker.pc = "connects" /\ worker.process.state \in {"loads", "listens"}
    /\ faults < MaxFaults /\ faults' = faults + 1
    /\ worker' = [worker EXCEPT !.pc = "spawns", !.slow = TRUE, !.process.state = "gone"]
    /\ Apart /\ UNCHANGED <<up, tunnel>>

Launch == Resolves \/ Spawns \/ SpawnFails \/ Loads \/ Reaches \/ SeesExit \/ GivesUp

---------------------------------------------------------------------------
(* The driver, behind j2534_driver.py.                                     *)

Handle(kind, id, of) == [kind |-> kind, id |-> id, of |-> of]

Held(open, kind, id) == \E h \in open : h.kind = kind /\ h.id = id

\* What is open below a handle, and the handle.
Under(open, h) ==
    {g \in open : \/ g = h
                  \/ g.of = h.id
                  \/ \E c \in open : c.of = h.id /\ g.of = c.id}

Names(c, open) ==
    {h \in open :
        \/ c.op = "close" /\ h.kind = "device" /\ h.id = c.id
        \/ c.op = "disconnect" /\ h.kind = "channel" /\ h.id = c.id
        \/ c.op = "stop_filter" /\ h.kind = "filter" /\ h.of = c.id /\ h.id = c.words[1]
        \/ /\ c.op = "ioctl" /\ c.words[1] = CLEAR_MSG_FILTERS
           /\ h.kind = "filter" /\ h.of = c.id}

Closing(c, open) == UNION {Under(open, h) : h \in Names(c, open)}

\* The handle a call is made on.
Needs(op) ==
    CASE op = "open" -> "none"
      [] op \in {"close", "connect", "version"} -> "device"
      [] OTHER -> "channel"

\* open and connect and start_msg_filter hand out the next handle.
Given(c, d) ==
    Handle(CASE c.op = "open" -> "device" [] c.op = "connect" -> "channel"
             [] c.op = "start_filter" -> "filter", d.next, c.id)

Makes(op) == op \in {"open", "connect", "start_filter"}

Some(msgs, n) == SubSeq(msgs, 1, IF n < Len(msgs) THEN n ELSE Len(msgs))

\* The values of the parameters asked for: the last one set, or none.
Values(config, list) ==
    [i \in DOMAIN list |->
        LET set == {j \in DOMAIN config : config[j][1] = list[i][1]}
        IN  <<list[i][1],
              IF set = {} THEN 0
              ELSE config[CHOOSE j \in set : \A k \in set : k <= j][2]>>]

\* What the driver does with a call: the vehicle answers every message that
\* is written with one that can be read.
Performs(c, d) ==
    CASE Needs(c.op) # "none" /\ ~Held(d.open, Needs(c.op), c.id) ->
            [device |-> d,
             result |-> Result(IF Needs(c.op) = "device" THEN INVALID_DEVICE
                               ELSE INVALID_CHANNEL,
                               CASE Makes(c.op) \/ c.op = "write" -> <<0>>
                                 [] c.op = "version" -> <<0, 0, 0>>
                                 [] OTHER -> <<>>)]
      [] Makes(c.op) ->
            [device |-> [d EXCEPT !.open = @ \cup {Given(c, d)}, !.next = @ + 1],
             result |-> Result(NOERROR, <<d.next>>)]
      [] c.op \in {"close", "disconnect", "stop_filter"} ->
            [device |-> [d EXCEPT !.open = @ \ Closing(c, d.open)],
             result |-> Result(IF Names(c, d.open) = {} THEN FAILED ELSE NOERROR, <<>>)]
      [] c.op = "version" -> [device |-> d, result |-> Result(NOERROR, <<1, 2, 3>>)]
      [] c.op = "write" ->
            [device |-> [d EXCEPT !.inbox = @ \o c.msgs],
             result |-> Result(NOERROR, <<Len(c.msgs)>>)]
      [] c.op = "read" ->
            LET msgs == Some(d.inbox, c.words[1])
            IN  [device |-> [d EXCEPT !.inbox = SubSeq(@, Len(msgs) + 1, Len(@))],
                 result |-> Result(IF msgs = <<>> THEN BUFFER_EMPTY ELSE NOERROR, msgs)]
      [] c.op = "ioctl" ->
            CASE c.words[1] = SET_CONFIG ->
                    [device |-> [d EXCEPT !.config = @ \o c.list],
                     result |-> Result(NOERROR, <<>>)]
              [] c.words[1] = GET_CONFIG ->
                    [device |-> d, result |-> Result(NOERROR, Values(d.config, c.list))]
              [] c.words[1] = READ_VBATT ->
                    [device |-> d, result |-> Result(NOERROR, <<12>>)]
              [] c.words[1] = CLEAR_RX_BUFFER ->
                    [device |-> [d EXCEPT !.inbox = <<>>], result |-> Result(NOERROR, <<>>)]
              [] OTHER ->
                    [device |-> [d EXCEPT !.open = @ \ Closing(c, @)],
                     result |-> Result(NOERROR, <<>>)]

---------------------------------------------------------------------------
(* GDS2 and the virtual DLL.                                               *)

\* The handles a template can be called on; an open needs none.
NoHandle == Handle("none", 0, 0)

Handles(template) ==
    CASE template.op = "open" -> {NoHandle}
      [] template.op = "stop_filter" -> {h \in given : h.kind = "filter"}
      [] OTHER -> {h \in given : h.kind = Needs(template.op)}

On(template, h) ==
    IF template.op = "stop_filter"
    THEN Call(template.op, h.of, <<h.id>>, <<>>, <<>>)
    ELSE Call(template.op, h.id, template.words, template.msgs, template.list)

Elsewhere == UNCHANGED <<machine, worker, device>>

\* A thread makes the next call of the program it has a handle for; the first
\* one under a tunnel, without which GDS2 is not started (session_preflight.py).
\* One the DLL rejects at once (a filter or a list too long) has no effect.
Begins(t) ==
    LET ready == {n \in DOMAIN program : Handles(program[n]) # {}}
        n == CHOOSE m \in ready : \A k \in ready : m <= k
    IN  /\ calls[t].pc = "idle" /\ ready # {} /\ (up \/ log # <<>>)
        /\ program' = SubSeq(program, n + 1, Len(program))
        /\ \E h \in Handles(program[n]) :
            LET c == On(program[n], h)
            IN  calls' = IF Accepted(c)
                         THEN [calls EXCEPT ![t] = [Idle EXCEPT !.pc = "wants", !.call = c]]
                         ELSE calls
        /\ Elsewhere
        /\ UNCHANGED <<lock, socket, conns, given, attempts, up, tunnel, log, faults>>

\* send_recv enters g_cs and takes the next sequence number.
Enters(t) ==
    /\ calls[t].pc = "wants" /\ lock = NoThread
    /\ lock' = t
    /\ log' = Append(log, [call |-> calls[t].call, ran |-> <<>>, back |-> <<>>])
    /\ calls' = [calls EXCEPT ![t].pc = "sends", ![t].seq = Len(log) + 1]
    /\ Elsewhere
    /\ UNCHANGED <<program, socket, conns, given, attempts, up, tunnel, faults>>

\* What GDS2 holds after a call has given it a result.
Holds(c, result) ==
    IF result.ret # NOERROR THEN given
    ELSE IF Makes(c.op) THEN given \cup {Given(c, [next |-> result.out[1]])}
    ELSE given \ Closing(c, given)

\* The call returns and leaves g_cs.
Returns(t, result) ==
    /\ calls' = [calls EXCEPT ![t] = Idle] /\ lock' = NoThread
    /\ given' = Holds(calls[t].call, result)
    /\ log' = [log EXCEPT ![calls[t].seq].back = <<result>>]
\* Mutant: one try more.
RetriesOnceMore(t) ==
    IF calls[t].tries <= MaxRetries
    THEN /\ calls' = [calls EXCEPT ![t].pc = "sends", ![t].tries = @ + 1]
         /\ UNCHANGED <<lock, given, log>>
    ELSE Returns(t, Result(NOT_CONNECTED, <<>>))

\* Mutant: the last try leaves g_cs entered.
RetriesHoldingLock(t) ==
    IF calls[t].tries < MaxRetries
    THEN /\ calls' = [calls EXCEPT ![t].pc = "sends", ![t].tries = @ + 1]
         /\ UNCHANGED <<lock, given, log>>
    ELSE /\ calls' = [calls EXCEPT ![t] = Idle] /\ UNCHANGED <<lock, given>>
         /\ log' = [log EXCEPT ![calls[t].seq].back = <<Result(NOT_CONNECTED, <<>>)>>]

\* The next try, after its delay; after the last one the device is reported
\* as not connected.
Retries(t) ==
    IF calls[t].tries < MaxRetries
    THEN /\ calls' = [calls EXCEPT ![t].pc = "sends", ![t].tries = @ + 1]
         /\ UNCHANGED <<lock, given, log>>
    ELSE Returns(t, Result(NOT_CONNECTED, <<>>))

\* The DLL connects if it has no socket, and sends the request.
SendsRequest(t) ==
    /\ calls[t].pc = "sends"
    /\ conns' = IF socket = 0 THEN conns + 1 ELSE conns
    /\ socket' = IF socket = 0 THEN conns' ELSE socket
    /\ attempts' = Append(attempts,
            [conn |-> socket', seq |-> calls[t].seq, op |-> calls[t].call.op,
             body |-> Body(calls[t].call), at |-> "sent", answer |-> <<>>])
    /\ calls' = [calls EXCEPT ![t].pc = "waits"]
    /\ Elsewhere
    /\ UNCHANGED <<program, lock, given, up, tunnel, log, faults>>

\* The server cannot be reached, or has closed the connection.
SendFails(t) ==
    /\ calls[t].pc = "sends" /\ faults < MaxFaults /\ faults' = faults + 1
    /\ socket' = 0 /\ Retries(t)
    /\ Elsewhere
    /\ UNCHANGED <<program, conns, attempts, up, tunnel>>

OnSocket(at) == {i \in DOMAIN attempts : attempts[i].conn = socket /\ attempts[i].at = at}

\* The first response on the socket is the answer: neither its sequence
\* number nor its type is looked at.  One too large for the buffer of the
\* call ends the connection and the call.
Receives(t) ==
    LET first == CHOOSE i \in OnSocket("readable") :
                    \A j \in OnSocket("readable") : i <= j
        answer == attempts[first].answer
        large == Overflows(calls[t].call, answer)
    IN  /\ calls[t].pc = "waits" /\ socket # 0 /\ OnSocket("readable") # {}
        /\ attempts' = [attempts EXCEPT ![first].at = "read"]
        /\ socket' = IF large THEN 0 ELSE socket
        /\ Returns(t, IF large THEN Result(BUFFER_OVERFLOW, <<>>)
                      ELSE ReadReply(calls[t].call, answer))
        /\ Elsewhere
        /\ UNCHANGED <<program, conns, up, tunnel, faults>>

\* The receive fails: the socket is closed, so that a later answer to this
\* try is never read.
ReceiveFails(t) ==
    /\ calls[t].pc = "waits" /\ OnSocket("readable") = {}
    /\ socket' = 0 /\ Retries(t)
    /\ Elsewhere
    /\ UNCHANGED <<program, conns, attempts, up, tunnel>>

\* The server has closed the connection.
SeesClosed(t) ==
    /\ OnSocket("closed") # {} /\ ReceiveFails(t) /\ UNCHANGED faults

\* Thirty seconds have passed.
ReceiveTimesOut(t) ==
    /\ faults < MaxFaults /\ faults' = faults + 1 /\ ReceiveFails(t)

---------------------------------------------------------------------------
(* The server and the client.                                              *)

Relayed == UNCHANGED <<machine, worker, dll>>

\* The client brings the tunnel up once its driver is loaded, even when the
\* worker has died since.
TunnelRises ==
    /\ ~up /\ worker.pc \in {"up", "dead"}
    /\ up' = TRUE
    /\ Relayed /\ UNCHANGED <<attempts, tunnel, device, log, faults>>

\* The server reads a request and writes it into the tunnel.  What a
\* connection holds is read even when the DLL has closed it.
Forwards(i) ==
    /\ up /\ attempts[i].at = "sent"
    /\ attempts' = [attempts EXCEPT ![i].at = "forwarded"]
    /\ tunnel' = Append(tunnel, i)
    /\ Relayed /\ UNCHANGED <<up, device, log, faults>>

\* The tunnel went down after the handler had looked: it ends the connection.
Refuses(i) ==
    /\ ~up /\ attempts[i].at = "sent"
    /\ attempts' = [attempts EXCEPT ![i].at = "closed"]
    /\ Relayed /\ UNCHANGED <<up, tunnel, device, log, faults>>

\* The server waits thirty seconds for a response, then ends the connection.
ServerGivesUp(i) ==
    /\ attempts[i].at = "forwarded" /\ faults < MaxFaults /\ faults' = faults + 1
    /\ attempts' = [attempts EXCEPT ![i].at = "closed"]
    /\ Relayed /\ UNCHANGED <<up, tunnel, device, log>>

\* Every request that waits for the tunnel fails with it.
Dropped == [i \in DOMAIN attempts |->
    IF attempts[i].at = "forwarded" THEN [attempts[i] EXCEPT !.at = "closed"]
    ELSE attempts[i]]

Drops == up' = FALSE /\ tunnel' = <<>> /\ attempts' = Dropped

TunnelDrops ==
    /\ up /\ faults < MaxFaults /\ faults' = faults + 1
    /\ Drops
    /\ Relayed /\ UNCHANGED <<device, log>>

\* The driver runs the oldest request.
Runs ==
    LET a == attempts[Head(tunnel)]
        c == ReadCall(a.op, a.body)
        done == Performs(c, device)
    IN  /\ up /\ tunnel # <<>> /\ worker.pc = "up" /\ c # Rejected
        /\ device' = done.device
        /\ log' = [log EXCEPT ![a.seq].ran =
                    Append(@, [call |-> c, result |-> done.result])]
\* Mutant: the request is handed to the driver again.
AnswersTwice ==
    LET i == Head(tunnel)
        ran == log'[attempts[i].seq].ran
        last == ran[Len(ran)]
    IN  /\ Runs
        /\ attempts' = IF attempts[i].at = "forwarded"
                       THEN [attempts EXCEPT ![i].at = "readable",
                                ![i].answer = ReplyBody(last.call, last.result)]
                       ELSE attempts
        /\ Len(log'[attempts[i].seq].ran) < 3
        /\ Relayed /\ UNCHANGED <<up, faults, tunnel>>

\* Its response reaches the DLL's connection, unless the server has given up.
Answers ==
    LET i == Head(tunnel)
        ran == log'[attempts[i].seq].ran
        last == ran[Len(ran)]
    IN  /\ Runs
        /\ attempts' = IF attempts[i].at = "forwarded"
                       THEN [attempts EXCEPT ![i].at = "readable",
                                ![i].answer = ReplyBody(last.call, last.result)]
                       ELSE attempts
        /\ tunnel' = Tail(tunnel)
        /\ Relayed /\ UNCHANGED <<up, faults>>

\* The tunnel drops before the response is through.
AnswerIsLost ==
    /\ Runs /\ faults < MaxFaults /\ faults' = faults + 1
    /\ Drops
    /\ Relayed

\* A request the client cannot read, or a worker that is gone: the error ends
\* the tunnel.
RequestBreaks ==
    /\ up /\ tunnel # <<>>
    /\ \/ worker.pc = "dead"
       \/ ReadCall(attempts[Head(tunnel)].op, attempts[Head(tunnel)].body) = Rejected
    /\ Drops
    /\ Relayed /\ UNCHANGED <<device, log, faults>>

\* The worker's process dies with everything that is open in it.
WorkerCrashes ==
    /\ worker.pc = "up" /\ faults < MaxFaults /\ faults' = faults + 1
    /\ worker' = [worker EXCEPT !.pc = "dead", !.process.state = "gone"]
    /\ device' = [NothingOpen EXCEPT !.next = device.next]
    /\ UNCHANGED <<machine, dll, attempts, up, tunnel, log>>

Dll(t) ==
    \/ Begins(t) \/ Enters(t) \/ SendsRequest(t) \/ SendFails(t)
    \/ Receives(t) \/ SeesClosed(t) \/ ReceiveTimesOut(t)

Serve(i) == Forwards(i) \/ Refuses(i) \/ ServerGivesUp(i)

Driver == Answers \/ AnswerIsLost \/ RequestBreaks \/ WorkerCrashes

PassThruNext ==
    \/ Launch
    \/ \E t \in Threads : Dll(t)
    \/ \E i \in DOMAIN attempts : Serve(i)
    \/ TunnelRises \/ TunnelDrops \/ Driver

\* A call that has begun goes on: its thread runs and the lock is handed on;
\* the server's loop runs, the client connects again for as long as it runs,
\* and a call of the driver ends.
PassThruFairness ==
    /\ \A t \in Threads :
        /\ WF_passThruVars(Enters(t)) /\ WF_passThruVars(SendsRequest(t) \/ SendFails(t))
        /\ WF_passThruVars(Receives(t) \/ SeesClosed(t))
    /\ WF_passThruVars(TunnelRises) /\ WF_passThruVars(Answers \/ RequestBreaks)
    /\ WF_passThruVars(\E i \in DOMAIN attempts : Forwards(i))

PassThruSpec == PassThruInit /\ [][PassThruNext]_passThruVars /\ PassThruFairness

---------------------------------------------------------------------------
(* Properties.                                                             *)

Calling == [op : STRING, id : Nat, words : Seq(Nat),
            msgs : Seq([head : Nat, data : Seq(Nat)]), list : Seq(Seq(Nat))]

\* The variables have the types their code gives them.
PassThruTypeOK ==
    /\ \E s \in Settings : machine = s.machine
    /\ worker.pc \in {"idle", "spawns", "connects", "up", "failed", "dead"}
    /\ worker.process.state \in {"loads", "listens", "serves", "gone"}
    /\ \A t \in Threads :
        /\ calls[t].pc \in {"idle", "wants", "sends", "waits"}
        /\ calls[t].call \in Calling /\ calls[t].tries \in 0 .. MaxRetries
        /\ (calls[t].pc \in {"sends", "waits"}) = (lock = t)
    /\ socket \in 0 .. conns /\ faults \in 0 .. MaxFaults
    /\ \A i \in DOMAIN attempts :
        attempts[i].at \in {"sent", "forwarded", "readable", "read", "closed"}

Returned(s) == log[s].back # <<>>

\* Tries whose answer the DLL has not read, or not yet.
Unread(s) == {i \in DOMAIN attempts : attempts[i].seq = s /\ attempts[i].at # "read"}

\* The arguments of a call: a write may lose messages at its end.
SameCall(ran, made) ==
    /\ ran.op = made.op /\ ran.id = made.id /\ ran.words = made.words
    /\ ran.list = made.list
    /\ \/ ran.msgs = made.msgs
       \/ made.op = "write" /\ \E n \in DOMAIN made.msgs : ran.msgs = Some(made.msgs, n)

\* What a run of a call gives its caller.
ComesFrom(back, run) ==
    \/ back = run.result
    \/ /\ back.ret = BUFFER_OVERFLOW /\ run.call.op = "read"
       /\ Overflows(run.call, ReplyBody(run.call, run.result))

\* What the driver runs for a call is the call GDS2 made, argument by
\* argument, and what the call gives back is what the driver answered to that
\* very call, whatever was tried again and whatever answer came late
\* (send_recv, and the encoders of the DLL against the decoders of the client).
CallsAreFaithful ==
    \A s \in DOMAIN log :
        /\ \A n \in DOMAIN log[s].ran : SameCall(log[s].ran[n].call, log[s].call)
        /\ Returned(s) /\ log[s].back[1].ret # NOT_CONNECTED =>
            \E n \in DOMAIN log[s].ran : ComesFrom(log[s].back[1], log[s].ran[n])

\* A run of a call that is not over, or one of whose tries was not answered.
Uncertain(s) == ~Returned(s) \/ Unread(s) # {}

\* GDS2 and the driver agree on what is open as long as every try is
\* answered: a handle open behind GDS2's back was opened by a try it heard
\* nothing of, a handle it still uses was closed by such a try or died with
\* the worker, and a call runs at most once per try.
HandlesAreTraceable ==
    /\ \A h \in device.open \ given :
        \E s \in DOMAIN log : /\ Uncertain(s)
                              /\ \E n \in DOMAIN log[s].ran :
                                    /\ Makes(log[s].call.op)
                                    /\ log[s].ran[n].result = Result(NOERROR, <<h.id>>)
    /\ \A h \in given \ device.open :
        \/ worker.pc = "dead"
        \/ \E s \in DOMAIN log : Uncertain(s) /\ h \in Closing(log[s].call, given)
    /\ \A s \in DOMAIN log :
        Len(log[s].ran) <= Cardinality({i \in DOMAIN attempts : attempts[i].seq = s})

\* The driver does what GDS2 asks it, and the two agree on what that left open.
DriverFollowsGDS2 == CallsAreFaithful /\ HandlesAreTraceable

\* A worker that serves has loaded its DLL, and a launch fails only for want
\* of a DLL or of something that can run it, or because a process could not
\* be started in time: a DLL whose header says nothing is tried in both
\* architectures (_candidate_architectures, J2534WorkerController.start).
LaunchFailsForCause ==
    /\ worker.pc = "up" => worker.process.arch = Selected(machine).real
    /\ worker.pc = "failed" =>
        /\ worker.process.state = "gone"
        /\ \/ worker.slow \/ Selected(machine) = NoDll
           \/ Selected(machine).real \notin machine.runtimes \cup {machine.python}

\* Every call returns to GDS2, with the tunnel down or the worker dead too
\* (send_recv's timeout and its four tries).
CallsReturn == \A t \in Threads : calls[t].pc # "idle" ~> calls[t].pc = "idle"
=============================================================================
