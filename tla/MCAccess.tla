-------------------------------- MODULE MCAccess --------------------------------
(* Access with two tables and three requests: one whose ticket ends early, *)
(* one whose ticket begins late and who has the privilege of only one of   *)
(* the tables, and one without a ticket for an open action.                *)
EXTENDS Access

CONSTANTS r1, r2, r3, a, b, o, p, blank, t1, t2

MCActionOf == [r \in Request |-> IF r = r1 THEN a ELSE IF r = r2 THEN b ELSE o]

MCFrom == [r \in Request |-> IF r = r2 THEN 1 ELSE 0]

MCLength == [r \in Request |-> IF r = r1 THEN 2 ELSE 6]

MCPrivsOf == [r \in Request |-> IF r = r1 THEN {p} ELSE {}]

(* Action a needs p by the first table and is not configured by the other; *)
(* action b needs nothing by the first table and p, or so it says, by the  *)
(* other.                                                                  *)
MCNeeds ==
    [t \in Table |-> IF t = t1 THEN [x \in {a, b} |-> IF x = a THEN <<p>> ELSE <<>>]
                               ELSE [x \in {b} |-> <<p, blank>>]]
=============================================================================
