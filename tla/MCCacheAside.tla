---------------------------- MODULE MCCacheAside ----------------------------
(* Five requests: three on a key where anything may fail, two on a steady  *)
(* one, with room for one lock in the coordinator's map.                   *)
EXTENDS CacheAside

CONSTANTS r1, r2, r3, r4, r5, kFlaky, kSteady

MCRequests == {r1, r2, r3, r4, r5}
MCKeyOf == [r \in MCRequests |-> IF r \in {r4, r5} THEN kSteady ELSE kFlaky]
=============================================================================
