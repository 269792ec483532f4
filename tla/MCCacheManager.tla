---------------------------- MODULE MCCacheManager ----------------------------
(* CacheManager for two workers, of which the first changes what it        *)
(* announces, or comes back after it had ended.                            *)
EXTENDS CacheManager

CONSTANTS wa, wb

MCMaxVersion == [w \in Worker |-> IF w = wa THEN 2 ELSE 1]
=============================================================================
