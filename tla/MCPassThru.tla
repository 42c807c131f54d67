---------------------------- MODULE MCPassThru ----------------------------
(* Two threads of GDS2 over one DLL, and the programs they make calls of.  *)
EXTENDS PassThru

CONSTANTS t1, t2

MCThreads == {t1, t2}

Msg(h, n) == [head |-> h, data |-> [i \in 1 .. n |-> h + i]]

T(op, words, msgs, list) == [op |-> op, words |-> words, msgs |-> msgs, list |-> list]

Plain(op) == T(op, <<>>, <<>>, <<>>)
OpenFirst == T("open", <<7>>, <<>>, <<>>)
Connects == T("connect", <<6, 1, 500>>, <<>>, <<>>)
Read(n) == T("read", <<n, 100>>, <<>>, <<>>)
Write(msgs) == T("write", <<100>>, msgs, <<>>)
Filter(msgs) == T("start_filter", <<3>>, msgs, <<>>)
Ioctl(id, list) == T("ioctl", <<id>>, <<>>, list)

\* Messages that fit and one too many, answers that fit and one too large.
Talks == <<OpenFirst, Connects, Write(<<Msg(10, 2), Msg(20, 2), Msg(30, 1)>>), Read(1)>>
Reads == <<Plain("open"), Connects, Write(<<Msg(10, 3), Msg(20, 1)>>), Read(2)>>
Filters == <<Plain("open"), Connects, Filter(<<Msg(10, 1), NoMsg, Msg(20, 1)>>),
             Filter(<<Msg(10, 2), Msg(20, 2), Msg(30, 2)>>), Plain("stop_filter")>>
Configures == <<Plain("open"), Connects, Ioctl(SET_CONFIG, <<<<1, 5>>, <<4, 9>>>>),
                Ioctl(GET_CONFIG, <<<<4, 0>>, <<1, 0>>>>)>>
Clears == <<Plain("open"), Connects, Filter(<<Msg(10, 1), NoMsg, NoMsg>>),
            Ioctl(CLEAR_MSG_FILTERS, <<>>)>>
Ends == <<Plain("open"), Connects, Plain("disconnect"), Plain("close")>>
Voltages == <<Plain("open"), Connects, Ioctl(READ_VBATT, <<>>), Ioctl(CLEAR_RX_BUFFER, <<>>)>>
Versions == <<Plain("open"), Plain("version")>>

D(n, scanmatik, arch, real) ==
    [name |-> n, scanmatik |-> scanmatik, arch |-> arch, real |-> real]

M(configured, registered, fallback, runtimes) ==
    [configured |-> configured, registered |-> registered, fallback |-> fallback,
     runtimes |-> runtimes, python |-> "x64"]

Simple == M(NoDll, {D(1, FALSE, "x64", "x64")}, NoDll, {})

Others ==
    {M(NoDll, {D(1, FALSE, "x64", "x64"), D(2, TRUE, "unknown", "x86")}, NoDll, Arches),
     M(NoDll, {D(1, FALSE, "unknown", "x64"), D(2, FALSE, "x86", "x86")}, NoDll, {"x64"}),
     M(D(3, FALSE, "unknown", "x64"), {}, NoDll, {}),
     M(NoDll, {}, D(4, TRUE, "x86", "x86"), {"x86"}),
     M(NoDll, {}, NoDll, {"x86"})}

MCSettings ==
    {[machine |-> Simple, program |-> p] :
        p \in {Talks, Reads, Filters, Configures, Clears, Ends, Voltages}}
    \cup {[machine |-> m, program |-> Versions] : m \in Others}
=============================================================================
