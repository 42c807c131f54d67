----------------------------- MODULE J2534Wire -----------------------------
(***************************************************************************)
(* How a PassThru call travels.  The virtual DLL writes its arguments into *)
(* a request body (vci_proxy/virtual_dll/virtual_j2534.c), the client      *)
(* reads them (vci_proxy/protocol.py), writes the driver's answer into a   *)
(* response body, and the DLL reads that into the caller's buffers.  The   *)
(* two sides are written in two languages and share no declaration.        *)
(*                                                                         *)
(* A body is a sequence of units: a 32-bit word, a flag byte, a data byte  *)
(* or a string is one unit each, and so are the four words that precede    *)
(* the size in a message, which both sides copy alike.                     *)
(***************************************************************************)
EXTENDS Naturals, Sequences, SequencesExt

CONSTANTS
    CallMax,    \* units of the DLL's request buffers of a write or a filter
    ReplyMax,   \* units of its response buffer of a read
    ParamMax    \* parameters of an SCONFIG_LIST the DLL accepts

ASSUME WireAssumption ==
    CallMax \in Nat /\ ReplyMax \in Nat /\ ParamMax \in Nat

NOERROR == 0
INVALID_CHANNEL == 2
FAILED == 7
NOT_CONNECTED == 8
TIMEOUT == 9
BUFFER_EMPTY == 16
BUFFER_OVERFLOW == 18
INVALID_DEVICE == 26

GET_CONFIG == 1
SET_CONFIG == 2
READ_VBATT == 3
CLEAR_RX_BUFFER == 8
CLEAR_MSG_FILTERS == 10

\* A call: its operation, the handle it is made on, its words, its messages
\* (a PASSTHRU_MSG is a head and data; NoMsg for a null pointer) and the
\* parameters of its SCONFIG_LIST (empty for a null pointer).
NoMsg == [head |-> 0, data |-> <<>>]

Call(op, id, words, msgs, list) ==
    [op |-> op, id |-> id, words |-> words, msgs |-> msgs, list |-> list]

Rejected == Call("rejected", 0, <<>>, <<>>, <<>>)

\* What a call gives back: a return code and what it writes for its caller.
Result(ret, out) == [ret |-> ret, out |-> out]

Config(c) == c.words[1] \in {GET_CONFIG, SET_CONFIG} /\ c.list # <<>>

---------------------------------------------------------------------------
(* The virtual DLL writes a request.                                       *)

Units(m) == <<m.head, Len(m.data)>> \o m.data

AllUnits(msgs) == FlattenSeq([i \in DOMAIN msgs |-> Units(msgs[i])])

\* PassThruWriteMsgs takes the messages in order for as long as they fit.
Fitting(msgs) ==
    LET fits == {n \in 0 .. Len(msgs) : 3 + Len(AllUnits(SubSeq(msgs, 1, n))) <= CallMax}
    IN  SubSeq(msgs, 1, CHOOSE n \in fits : \A k \in fits : k <= n)

OptionalUnits(m) == IF m = NoMsg THEN <<0>> ELSE <<1>> \o Units(m)

FilterBody(c) ==
    <<c.id>> \o c.words
        \o FlattenSeq([i \in DOMAIN c.msgs |-> OptionalUnits(c.msgs[i])])

ListUnits(list) == <<Len(list)>> \o FlattenSeq(list)

IoctlBody(c) ==
    IF Config(c)
    THEN <<c.id, c.words[1], Len(ListUnits(c.list))>> \o ListUnits(c.list)
    ELSE <<c.id, c.words[1], 0>>

\* The name of the device, if there is one, and the byte that ends it.
OpenBody(c) == IF c.words = <<>> THEN <<>> ELSE c.words \o <<0>>

WriteBody(c) ==
    <<c.id, Len(Fitting(c.msgs))>> \o c.words \o AllUnits(Fitting(c.msgs))

\* The body of a request.
Body(c) ==
    CASE c.op = "open" -> OpenBody(c)
      [] c.op = "write" -> WriteBody(c)
      [] c.op = "start_filter" -> FilterBody(c)
      [] c.op = "ioctl" -> IoctlBody(c)
      [] OTHER -> <<c.id>> \o c.words

\* The calls the DLL does not answer ERR_FAILED before it sends anything.
Accepted(c) ==
    /\ c.op = "start_filter" => Len(FilterBody(c)) <= CallMax
    /\ c.op = "ioctl" /\ Config(c) => Len(c.list) <= ParamMax

---------------------------------------------------------------------------
(* The client reads a request.                                             *)

\* The message after unit i of a body, and the unit it ends at.
Whole(body, i) == i + 2 <= Len(body) /\ i + 2 + body[i + 2] <= Len(body)

End(body, i) == i + 2 + body[i + 2]

MsgAfter(body, i) ==
    [head |-> body[i + 1], data |-> SubSeq(body, i + 3, End(body, i))]

\* The messages that follow unit start of a body whose count says n: reading
\* stops at the first that the body does not hold whole.
Messages(body, start, n) ==
    LET from[i \in 0 .. Len(body)] ==
            IF Whole(body, i) THEN <<MsgAfter(body, i)>> \o from[End(body, i)] ELSE <<>>
    IN  SubSeq(from[start], 1, IF n < Len(from[start]) THEN n ELSE Len(from[start]))

\* The three messages of a filter, each behind a flag; fewer of them when one
\* is truncated, which makes the request an error.
Optionals(body, start) ==
    LET from[i \in 0 .. Len(body), k \in 0 .. 3] ==
            IF k = 0 THEN <<>>
            ELSE IF i = Len(body) THEN <<NoMsg>> \o from[i, k - 1]
            ELSE IF body[i + 1] = 0 THEN <<NoMsg>> \o from[i + 1, k - 1]
            ELSE IF Whole(body, i + 1)
            THEN <<MsgAfter(body, i + 1)>> \o from[End(body, i + 1), k - 1]
            ELSE <<>>
    IN  from[start, 3]

Pairs(units) ==
    [i \in 1 .. Len(units) \div 2 |-> <<units[2 * i - 1], units[2 * i]>>]

MinLen(op) ==
    CASE op = "open" -> 0
      [] op \in {"close", "disconnect", "version"} -> 1
      [] op = "stop_filter" -> 2
      [] op \in {"read", "write", "ioctl"} -> 3
      [] op = "connect" -> 4
      [] op = "start_filter" -> 5

\* A configuration list the driver reads: its count, then that many pairs;
\* one that is short of them is an error.
ConfigList(input) ==
    IF input = <<>> \/ Len(input) < 1 + 2 * input[1]
    THEN <<>>
    ELSE Pairs(SubSeq(input, 2, 1 + 2 * input[1]))

\* The call the client makes for a request.
ReadCall(op, body) ==
    IF Len(body) < MinLen(op) THEN Rejected
    ELSE CASE op = "open" ->
                Call(op, 0, SelectSeq(body, LAMBDA u : u # 0), <<>>, <<>>)
           [] op \in {"close", "disconnect", "version"} ->
                Call(op, body[1], <<>>, <<>>, <<>>)
           [] op = "connect" -> Call(op, body[1], SubSeq(body, 2, 4), <<>>, <<>>)
           [] op = "read" -> Call(op, body[1], SubSeq(body, 2, 3), <<>>, <<>>)
           [] op = "stop_filter" -> Call(op, body[1], SubSeq(body, 2, 2), <<>>, <<>>)
           [] op = "write" ->
                Call(op, body[1], <<body[3]>>, Messages(body, 3, body[2]), <<>>)
           [] op = "start_filter" ->
                LET three == Optionals(body, 2)
                IN  IF Len(three) = 3 THEN Call(op, body[1], <<body[2]>>, three, <<>>)
                    ELSE Rejected
           [] op = "ioctl" ->
                Call(op, body[1], <<body[2]>>, <<>>,
                     ConfigList(SubSeq(body, 4, 3 + body[3])))

---------------------------------------------------------------------------
(* The client writes the answer, and the DLL reads it.                     *)

\* The body of a response.
ReplyBody(c, r) ==
    CASE c.op \in {"open", "connect", "start_filter", "write"} -> <<r.ret, r.out[1]>>
      [] c.op \in {"close", "disconnect", "stop_filter"} -> <<r.ret>>
      [] c.op = "version" -> <<r.ret>> \o r.out
      [] c.op = "read" -> <<r.ret, Len(r.out)>> \o AllUnits(r.out)
      [] c.op = "ioctl" ->
           IF r.out # <<>> /\ c.words[1] = GET_CONFIG
           THEN <<r.ret, Len(ListUnits(r.out))>> \o ListUnits(r.out)
           ELSE <<r.ret, Len(r.out)>> \o r.out

\* PassThruReadMsgs: the messages the response holds whole, at most as many
\* as the caller asked for.  No message of the driver is longer than the
\* PASSTHRU_MSG of the caller.
ReadMsgs(c, body) ==
    Messages(body, 2, IF body[2] < c.words[1] THEN body[2] ELSE c.words[1])

\* PassThruIoctl: the voltage, or the values of the caller's list.
IoctlOut(c, body) ==
    IF c.words[1] = READ_VBATT /\ body[2] >= 1
    THEN <<body[3]>>
    ELSE IF c.words[1] = GET_CONFIG /\ c.list # <<>> /\ body[2] >= 1
    THEN LET pairs == Pairs(SubSeq(body, 4, Len(body)))
             n == IF body[3] < Len(c.list) THEN body[3] ELSE Len(c.list)
         IN  [i \in DOMAIN c.list |-> IF i <= n THEN pairs[i] ELSE c.list[i]]
    ELSE <<>>

ReplyMin(op) ==
    CASE op \in {"close", "disconnect", "stop_filter"} -> 1
      [] op = "version" -> 4
      [] OTHER -> 2

\* What the caller gets from a response.
ReadReply(c, body) ==
    IF Len(body) < ReplyMin(c.op) THEN Result(FAILED, <<>>)
    ELSE CASE c.op \in {"close", "disconnect", "stop_filter"} -> Result(body[1], <<>>)
           [] c.op \in {"open", "connect", "start_filter", "write"} ->
                Result(body[1], <<body[2]>>)
           [] c.op = "version" -> Result(body[1], SubSeq(body, 2, 4))
           [] c.op = "read" -> Result(body[1], ReadMsgs(c, body))
           [] c.op = "ioctl" -> Result(body[1], IoctlOut(c, body))

\* A response that does not fit the buffer of its call.
Overflows(c, body) == c.op = "read" /\ Len(body) > ReplyMax
=============================================================================
