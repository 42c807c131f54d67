---------------------------- MODULE MCLiveData ----------------------------
(* Instances of LiveData for TLC. *)
EXTENDS LiveData

CONSTANTS t1, t2

Setting(a, b, pages, drifts, writes, faults, views) ==
    [plans |-> [t \in Threads |-> IF t = t1 THEN a ELSE b], pages |-> pages,
     drifts |-> drifts, writes |-> writes, faults |-> faults, views |-> views]

Lost == {"disconnect", "loading"}

\* A stream that is stopped and started again, an aborted one that loses its
\* page, a diagnosis that loses it twice or while GDS2 loads, a diagnosis and
\* its retry, a diagnosis beside a stream.
AllSettings ==
    { Setting(<<"start", "stop", "start">>, <<"abort">>, {"disconnect"}, 1, 0, 0, 0),
      Setting(<<"start", "abort">>, <<>>, Lost, 2, 0, 1, 1),
      Setting(<<"start">>, <<"stop", "abort">>, {"loading"}, 1, 0, 0, 0),
      Setting(<<"ai">>, <<>>, {"disconnect"}, 2, 2, 0, 0),
      Setting(<<"ai">>, <<>>, {"loading"}, 1, 1, 0, 0),
      Setting(<<"ai", "retry">>, <<"abort">>, {}, 0, 0, 1, 2),
      Setting(<<"start", "ai">>, <<>>, {"away"}, 1, 0, 0, 0) }
=============================================================================
