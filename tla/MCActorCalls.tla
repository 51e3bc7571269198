----------------------------- MODULE MCActorCalls -----------------------------
(* Small instances of ActorCalls for TLC.                                  *)
EXTENDS ActorCalls, TLC

Interchangeable == Permutations(Calls) \cup Permutations(Instances)
                   \cup Permutations(Providers) \cup Permutations(Workers)
=============================================================================
