----------------------------- MODULE CallPromise -----------------------------
(***************************************************************************)
(* What the host promises to whoever invokes an actor, whichever processes *)
(* and threads carry the invocation: the guest runs at most once for it,   *)
(* the requester is answered at most once, and it is told "ok" only after  *)
(* the guest came back.  An "error" promises nothing about the run: a      *)
(* requester that gave up may still see its invocation run later.          *)
(***************************************************************************)
CONSTANT Calls

VARIABLES
  answer,  \* answer[c]: what the requester of c has: none, waiting, ok, error
  run      \* run[c]: the guest's run for c: never, running, returned, broken

vars == <<answer, run>>

Init == /\ answer = [c \in Calls |-> "none"]
        /\ run = [c \in Calls |-> "never"]

Ask(c) == /\ answer[c] = "none"
          /\ answer' = [answer EXCEPT ![c] = "waiting"]
          /\ UNCHANGED run

Begin(c) == /\ answer[c] # "none" /\ run[c] = "never"
            /\ run' = [run EXCEPT ![c] = "running"]
            /\ UNCHANGED answer

(* The guest comes back, or traps and is gone.                             *)
End(c) == /\ run[c] = "running"
          /\ \E r \in {"returned", "broken"} : run' = [run EXCEPT ![c] = r]
          /\ UNCHANGED answer

Answer(c) == /\ answer[c] = "waiting"
             /\ \E r \in {"ok", "error"} :
                  /\ r = "ok" => run[c] = "returned"
                  /\ answer' = [answer EXCEPT ![c] = r]
             /\ UNCHANGED run

Next == \E c \in Calls : Ask(c) \/ Begin(c) \/ End(c) \/ Answer(c)

Spec == Init /\ [][Next]_vars
=============================================================================
