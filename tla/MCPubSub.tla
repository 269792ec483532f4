-------------------------------- MODULE MCPubSub --------------------------------
(* PubSub with two items of two codes; the first subscription asks for one *)
(* of the codes, the second is refused.                                    *)
EXTENDS PubSub

CONSTANTS s1, s2, i1, i2, c1, c2, v, w

MCCodeOf == [i \in Item |-> IF i = i1 THEN c1 ELSE c2]

MCFilter == [s \in Sub |-> {c1}]

(* An object does not fit into the window.                                 *)
MCLong == {recs \in Content : \E i \in DOMAIN recs : recs[i] = w}
=============================================================================
