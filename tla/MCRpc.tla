--------------------------------- MODULE MCRpc ---------------------------------
(***************************************************************************)
(* Rpc on small instances.  Requests differ in nothing but their names, so *)
(* it is enough to look at the behaviours in which they are made in the    *)
(* order of their numbers; unlike a SYMMETRY set this is sound for         *)
(* liveness too.                                                           *)
(***************************************************************************)
EXTENDS Rpc

InOrder == \A r, s \in Request : r < s /\ outcome'[s] # "idle" => outcome'[r] # "idle"

OrderedSpec == Init /\ [][Next /\ InOrder]_vars /\ Fairness
=============================================================================
