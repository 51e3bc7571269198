--------------------------- MODULE MCMetadataCache ---------------------------
(* Small instances of MetadataCache for TLC.                               *)
EXTENDS MetadataCache, TLC

CONSTANTS link, claimA, claimB, claimC, refmap, v1, v2, prov1, prov2

Put(k, v) == [op |-> "put", key |-> k, val |-> v]
Del(k)    == [op |-> "del", key |-> k, val |-> v1]

(* Two actors with one call alias and one whose alias is too short, a      *)
(* reference map, and a link that is set to either of two providers, and   *)
(* deleted.                                                                *)
MixedRequests == { Put(claimA, v1), Put(claimB, v1), Put(claimC, v1), Put(refmap, v1),
                   Put(link, v1), Put(link, v2), Del(link) }

TwoProviders == v1 :> prov1 @@ v2 :> prov2

SharedAlias == [k \in ClaimKeys |-> IF k = claimC THEN "a" ELSE "alias"]
=============================================================================
