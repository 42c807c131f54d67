---------------------------- MODULE MCWindowFlow ----------------------------
(* Each setting lets one part of the window's life go far: four patient    *)
(* clicks from the list of modules to a diagnosis; two clicks from any of  *)
(* three states with something lost, in haste, or with the gate closing.   *)
EXTENDS WindowFlow

Setting(at, n, k, chances) == [at |-> at, clicks |-> n, faults |-> k, may |-> chances]

MCSettings ==
    { Setting("listed", 4, 0, {}),
      Setting("listed", 2, 0, {"hurry"}),
      Setting("shown", 2, 1, {}),
      Setting("fresh", 2, 0, {"gate"}),
      Setting("fresh", 2, 0, {"hurry"}),
      Setting("fresh", 1, 1, {"gate"}) }
=============================================================================
