----------------------------- MODULE MCConnection -----------------------------
(* Connection on a small instance.                                         *)
EXTENDS Connection

(* How many messages each end sends.                                       *)
TwoOne == [e \in Endpoint |-> IF e = "client" THEN 2 ELSE 1]

(***************************************************************************)
(* Two messages altogether: both of the client, or one of each end.  The   *)
(* ends run the same code, so the first may be the client's.               *)
(***************************************************************************)
TwoMessages ==
    /\ nextOut'["client"] + nextOut'["server"] <= 2
    /\ nextOut'["server"] > 0 => nextOut'["client"] > 0

SpecTwo == Init /\ [][Next /\ TwoMessages]_vars
=============================================================================
