----------------------------- MODULE MCServiceHost -----------------------------
(* ServiceHost for two connections, the first of which carries most of the *)
(* requests.                                                               *)
EXTENDS ServiceHost

CONSTANTS c1, c2, r1, r2, r3

MCConnOf == [r \in Request |-> IF r = r3 THEN c2 ELSE c1]
=============================================================================
