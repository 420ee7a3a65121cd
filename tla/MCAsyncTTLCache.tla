--------------------------- MODULE MCAsyncTTLCache ---------------------------
(* The cache with room for one key fewer than there are, so that entries are    *)
(* evicted, with per-key ttls below the default one, as in the tools, and with  *)
(* the stale_ttl that get_cache() always has, five times the ttl.               *)
EXTENDS CacheOverlap

MCKeyTtl == [k \in Keys |-> 0]

ASSUME MCStaleTtl == StaleTtl = 5 * Ttl

MCSymmetry == Permutations(Callers) \cup Permutations(Keys) \cup Permutations(Refreshers)
=============================================================================
