----------------------------- MODULE MCServiceMgr -----------------------------
(* ServiceMgr for two workers; the first has two versions of its           *)
(* announcement, with different actions, the second one that is usable and *)
(* one of weight 0.                                                        *)
EXTENDS ServiceMgr

CONSTANTS wa, wb, k1, k2, a1, a2, b1, b0

MCWorkerOf == [b \in Blob |-> IF b \in {a1, a2} THEN wa ELSE wb]

MCKeysOf == [b \in Blob |-> CASE b = a1 -> {k1}
                              [] b = a2 -> {k1, k2}
                              [] b = b1 -> {k2}
                              [] b = b0 -> {}]

(* All the files with at most one announcement per worker.                 *)
MCFiles == {<<>>} \union {<<b>> : b \in Blob}
                 \union {<<a, b>> : a \in {a1, a2}, b \in {b1, b0}}
                 \union {<<b, a>> : a \in {a1, a2}, b \in {b1, b0}}
=============================================================================
