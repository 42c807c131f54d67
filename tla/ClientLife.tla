----------------------------- MODULE ClientLife -----------------------------
(***************************************************************************)
(* What the reverse client promises to the tray program that owns it: it   *)
(* loads its driver, it is up, and it ends once it was told to stop.  A    *)
(* stop that comes before it is up is missed.                              *)
(***************************************************************************)
VARIABLES
    phase,  \* how far connect_and_serve is
    told    \* whether stop was called, and whether the client will hear of it

vars == <<phase, told>>

TypeOK == /\ phase \in {"made", "loading", "up", "ended"}
          /\ told \in {"no", "heard", "missed"}

Init == phase = "made" /\ told = "no"

Starts == phase = "made" /\ phase' = "loading" /\ UNCHANGED told
FailsToLoad == phase = "loading" /\ phase' = "ended" /\ UNCHANGED told
ComesUp == phase = "loading" /\ phase' = "up" /\ UNCHANGED told

Stop == /\ told = "no"
        /\ told' = IF phase = "up" THEN "heard" ELSE "missed"
        /\ UNCHANGED phase

Ends == phase = "up" /\ told = "heard" /\ phase' = "ended" /\ UNCHANGED told

Next == Starts \/ FailsToLoad \/ ComesUp \/ Stop \/ Ends

Fairness == WF_vars(FailsToLoad \/ ComesUp) /\ WF_vars(Ends)
Spec == Init /\ [][Next]_vars /\ Fairness
=============================================================================
