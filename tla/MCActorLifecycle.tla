-------------------------- MODULE MCActorLifecycle --------------------------
(* Small instances of ActorLifecycle for TLC.                              *)
EXTENDS ActorLifecycle, TLC

CONSTANTS p1, p2, r1, r2, red

Ask(op, count, ref, tags) == [op |-> op, count |-> count, ref |-> ref, tags |-> tags]

(* Starts, stops and scales of the same actor that overlap; the start of 0 *)
(* starts two, the stop of 2 finds only one instance with its annotation.  *)
OverlapRequests ==
  { Ask("start", 0, r1, {red}), Ask("start", 1, r1, {}), Ask("stop", 1, NoRef, {}),
    Ask("stop", 2, NoRef, {red}), Ask("stop", 0, NoRef, {}), Ask("scale", 3, NoRef, {}) }

(* Host-wide purges and stops against starts and stops.                    *)
HostRequests ==
  { Ask("start", 1, r1, {}), Ask("stop", 0, NoRef, {}),
    Ask("purge", 0, NoRef, {}), Ask("stophost", 0, NoRef, {}) }

(* Two image references for one actor.                                     *)
TwoRefRequests == { Ask("start", 1, r1, {}), Ask("start", 1, r2, {}) }

(* Two instances at the outset, one of them annotated; or one, or none.    *)
TwoRunning == p1 :> [ref |-> r1, tags |-> {}] @@ p2 :> [ref |-> r1, tags |-> {red}]
OneRunning  == p1 :> [ref |-> r1, tags |-> {}]
NoneRunning == <<>>

Interchangeable == Permutations(Pids \ {p1, p2}) \cup Permutations(Tasks)
=============================================================================
