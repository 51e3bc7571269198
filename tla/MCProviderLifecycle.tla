------------------------- MODULE MCProviderLifecycle -------------------------
(* Small instances of ProviderLifecycle for TLC.                           *)
EXTENDS ProviderLifecycle, TLC

CONSTANTS p1, a1, a2, b1, ka, kb

(* Two references carry provider a, one carries b.                         *)
TwoProviders == a1 :> ka @@ a2 :> ka @@ b1 :> kb

(* Provider b runs, a does not; or none runs.                              *)
OtherRunning == p1 :> b1
NoneRunning == <<>>

Ask(op, r) == [op |-> op, ref |-> r]
OverlapRequests ==
  { Ask("start", a1), Ask("start", a2), Ask("stop", a1), Ask("stopall", a1) }

Interchangeable == Permutations(Tasks)
=============================================================================
