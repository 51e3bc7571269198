---------------------- MODULE ProviderLifecycle_proofs ----------------------
(* Safety of ProviderLifecycle for every set of pids, tasks and requests.  *)
EXTENDS ProviderLifecycle, FiniteSetTheorems, TLAPS

(* The next-state relation, one disjunct per action of its own.            *)
LEMMA NextCases ==
  ASSUME [Next]_vars
  PROVE  \/ \E t \in Tasks :
              \/ \E r \in Requests : Launch(t, r)
              \/ Abort(t) /\ pc[t] \notin Ended \cup {"idle"}
              \/ Look(t) \/ List(t) \/ Query(t) \/ NotRunning(t)
              \/ Refused(t) \/ Fetch(t) \/ StartChild(t) \/ Listed(t)
              \/ SendHalt(t) \/ SkipInstance(t) \/ FinishHalts(t)
         \/ \E p \in Pids :
              \/ Register(p) \/ Unregister(p) \/ HealthBegin(p) \/ HealthEnd(p)
              \/ HaltBegin(p) \/ HaltEnd(p) \/ DownNormal(p) \/ DownAbnormal(p)
              \/ OsExit(p) \/ Kill(p) \/ Crash(p) \/ Restart(p)
         \/ InitCheck \/ InitQuery \/ InitDies \/ InitIgnored \/ InitStarts
         \/ RestartsExhausted
         \/ UNCHANGED vars
<1>1. Next \/ UNCHANGED vars
  OBVIOUS
<1>2. ASSUME NEW t \in Tasks, TaskStep(t) \/ CallFails(t)
      PROVE  \/ Abort(t) /\ pc[t] \notin Ended \cup {"idle"}
             \/ Look(t) \/ List(t) \/ Query(t) \/ NotRunning(t)
             \/ Refused(t) \/ Fetch(t) \/ StartChild(t) \/ Listed(t)
             \/ SendHalt(t) \/ SkipInstance(t) \/ FinishHalts(t)
  BY <1>2 DEF TaskStep, CallFails, FetchFails, CalleeDied, Ended
<1> QED
  BY <1>1, <1>2 DEF Next, InstanceStep, SupStep, AllServed

-----------------------------------------------------------------------------
(* What a step does to the processes *)

(* Whom the supervisor's init is for: a pid in init, in place of a crashed *)
(* one; nobody else is in init.                                            *)
SupOK ==
  /\ sup # NoStart => /\ pst[sup.new] = "init"
                      /\ sup.by \in Pids => pst[sup.by] = "crashed"
  /\ \A q \in Pids : pst[q] = "init" => sup # NoStart /\ sup.new = q

(* A step outside the supervisor: instances end or go on, none begins.     *)
Winds(p) ==
  \/ pst'[p] = pst[p]
  \/ /\ pst[p] \in {"up", "halting", "crashed"}
     /\ pst'[p] \in {"halting", "halted", "stopped", "crashed", "gone"}
     /\ pst[p] = "crashed" => sup = NoStart /\ pst'[p] = "gone"

WindsDown ==
  /\ sup' = sup /\ ref' = ref /\ before' = before
  /\ pst' \in [Pids -> PStates] /\ \A p \in Pids : Winds(p)
  /\ registered \cap Alive' \subseteq registered'

(* Every step winds down, except the five of the supervisor and the two    *)
(* that give it a start.                                                   *)
LEMMA StepCases ==
  ASSUME TypeOK, [Next]_vars
  PROVE  \/ WindsDown
         \/ \E t \in Tasks : StartChild(t)
         \/ \E p \in Pids : Restart(p)
         \/ InitCheck \/ InitQuery \/ InitDies \/ InitIgnored \/ InitStarts
<1> USE DEF WindsDown, Winds, Alive, PStates, procVars, taskVars, evVars, histVars
<1>t. pst \in [Pids -> PStates]
  BY DEF TypeOK
<1>1. ASSUME NEW t \in Tasks, NEW r \in Requests, Launch(t, r) PROVE WindsDown
  BY <1>t, <1>1 DEF Launch
<1>2. ASSUME NEW t \in Tasks,
             \/ Abort(t) \/ Look(t) \/ List(t) \/ Query(t) \/ NotRunning(t)
             \/ Refused(t) \/ Fetch(t) \/ Listed(t)
             \/ SendHalt(t) \/ SkipInstance(t) \/ FinishHalts(t)
      PROVE  WindsDown
  BY <1>t, <1>2 DEF Abort, Look, List, Query, NotRunning, Refused, Fetch,
     Listed, SendHalt, SkipInstance, FinishHalts
<1>3. ASSUME NEW p \in Pids,
             \/ Register(p) \/ Unregister(p) \/ HealthBegin(p) \/ HealthEnd(p)
             \/ OsExit(p) \/ Kill(p)
      PROVE  WindsDown
  BY <1>t, <1>3 DEF Register, Unregister, HealthBegin, HealthEnd, OsExit, Kill
<1>4. ASSUME NEW p \in Pids,
             \/ HaltBegin(p) \/ HaltEnd(p) \/ DownNormal(p) \/ DownAbnormal(p)
             \/ Crash(p)
      PROVE  WindsDown
  BY <1>t, <1>4 DEF HaltBegin, HaltEnd, DownNormal, DownAbnormal, Crash, Ready,
     AfterHalt
<1>5. ASSUME RestartsExhausted PROVE WindsDown
  BY <1>t, <1>5 DEF RestartsExhausted
<1>6. ASSUME UNCHANGED vars PROVE WindsDown
  BY <1>t, <1>6 DEF vars
<1> QED BY <1>1, <1>2, <1>3, <1>4, <1>5, <1>6, NextCases

(* What a start given to the supervisor does.                              *)
LEMMA StartGiven ==
  ASSUME TypeOK, NEW who \in Tasks \cup Pids, NEW r \in Refs, StartsInit(who, r)
  PROVE  \E q \in Pids :
           /\ sup = NoStart /\ pst[q] = "free"
           /\ sup' = [by |-> who, new |-> q, at |-> "check", todo |-> {}, dup |-> FALSE]
           /\ sup' \in Start
           /\ pst' = [pst EXCEPT ![q] = "init"]
           /\ ref' = [ref EXCEPT ![q] = r]
           /\ before' = [before EXCEPT ![q] =
                           {p \in registered \cap Alive : Key(p) = KeyOf[r]}]
           /\ UNCHANGED <<os, down, registered, busy, mail, mapped, crashes, evVars, had, clean>>
<1>1. Fresh \in Pids /\ pst[Fresh] = "free"
  BY DEF StartsInit, Fresh
<1>2. sup' \in Start
  BY <1>1 DEF StartsInit, Start
<1> QED BY <1>1, <1>2 DEF StartsInit

-----------------------------------------------------------------------------
(* Type correctness *)

LEMMA TypeInit == Init => TypeOK /\ SupOK
<1> SUFFICES ASSUME Init PROVE TypeOK /\ SupOK
  OBVIOUS
<1>1. PICK P \in SUBSET Pids : Running \in [P -> Refs]
  BY ProviderAssumption
<1>2. DOMAIN Running = P /\ \A p \in P : Running[p] \in Refs
  BY <1>1
<1>3. (CHOOSE r \in Refs : TRUE) \in Refs
  BY ProviderAssumption
<1>4. (CHOOSE r \in Requests : TRUE) \in Request
  BY ProviderAssumption
<1>5. TypeOK
  BY <1>1, <1>2, <1>3, <1>4 DEF Init, TypeOK, PStates, PCs, Alive
<1>6. SupOK
  BY <1>1, <1>2 DEF Init, SupOK
<1> QED BY <1>5, <1>6

(* An init that runs on is still the same init.                            *)
LEMMA InitRuns ==
  ASSUME TypeOK, InitCheck \/ InitQuery
  PROVE  /\ sup \in Start /\ sup' \in Start /\ sup # NoStart /\ sup' # NoStart
         /\ sup'.new = sup.new /\ sup'.by = sup.by
<1>1. sup \in Start /\ sup # NoStart /\ registered \in SUBSET Pids
  BY DEF InitCheck, InitQuery, TypeOK
<1>2. ASSUME InitCheck PROVE sup' \in Start /\ sup'.new = sup.new /\ sup'.by = sup.by
  <2>1. Duplicate(ref[sup.new]) \in BOOLEAN
    BY DEF Duplicate
  <2> QED BY <1>1, <1>2, <2>1 DEF InitCheck, Start
<1>3. ASSUME InitQuery PROVE sup' \in Start /\ sup'.new = sup.new /\ sup'.by = sup.by
  BY <1>1, <1>3 DEF InitQuery, Start
<1> QED BY <1>1, <1>2, <1>3, ProviderAssumption

LEMMA TypeStep == TypeOK /\ SupOK /\ [Next]_vars => TypeOK'
<1> SUFFICES ASSUME TypeOK, SupOK, [Next]_vars PROVE TypeOK'
  OBVIOUS
<1> USE DEF TypeOK, PStates, PCs, Alive, procVars, taskVars, evVars, histVars, Goto
<1>1. ASSUME NEW t \in Tasks, NEW r \in Requests, Launch(t, r) PROVE TypeOK'
  <2>1. r \in Request
    BY ProviderAssumption
  <2> QED BY <1>1, <2>1 DEF Launch
<1>2. ASSUME NEW t \in Tasks, Abort(t) PROVE TypeOK'
  BY <1>2 DEF Abort
<1>3. ASSUME NEW t \in Tasks, Look(t) PROVE TypeOK'
  <2>1. Duplicate(req[t].ref) \in BOOLEAN
    BY DEF Duplicate
  <2> QED BY <1>3, <2>1 DEF Look
<1>4. ASSUME NEW t \in Tasks, List(t) PROVE TypeOK'
  BY <1>4 DEF List, Targets
<1>5. ASSUME NEW t \in Tasks, Query(t) PROVE TypeOK'
  BY <1>5 DEF Query
<1>6. ASSUME NEW t \in Tasks, NotRunning(t) \/ Refused(t) \/ Fetch(t) \/ Listed(t) \/ FinishHalts(t)
      PROVE TypeOK'
  BY <1>6 DEF NotRunning, Refused, Fetch, Listed, FinishHalts
<1>7. ASSUME NEW t \in Tasks, SendHalt(t) PROVE TypeOK'
  BY <1>7 DEF SendHalt
<1>8. ASSUME NEW t \in Tasks, SkipInstance(t) PROVE TypeOK'
  BY <1>8 DEF SkipInstance
<1>9. ASSUME NEW who \in Tasks \cup Pids, NEW r \in Refs, StartsInit(who, r),
             pc' \in [Tasks -> PCs], UNCHANGED <<req, todo, picked, dup>>
      PROVE TypeOK'
  <2>1. PICK q \in Pids :
           /\ pst[q] = "free" /\ sup' \in Start
           /\ pst' = [pst EXCEPT ![q] = "init"]
           /\ ref' = [ref EXCEPT ![q] = r]
           /\ before' = [before EXCEPT ![q] =
                           {p \in registered \cap Alive : Key(p) = KeyOf[r]}]
           /\ UNCHANGED <<os, down, registered, busy, mail, mapped, crashes, evVars, had, clean>>
    BY <1>9, StartGiven
  <2>2. {p \in registered \cap Alive : Key(p) = KeyOf[r]} \in SUBSET Pids
    OBVIOUS
  <2>3. Alive' = Alive
    BY <2>1
  <2> QED BY <1>9, <2>1, <2>2, <2>3
<1>10. ASSUME NEW t \in Tasks, StartChild(t) PROVE TypeOK'
  <2>1. req[t].ref \in Refs
    BY DEF Request
  <2> QED BY <1>9, <1>10, <2>1 DEF StartChild
<1>11. ASSUME NEW p \in Pids, Restart(p) PROVE TypeOK'
  BY <1>9, <1>11 DEF Restart
<1>12. ASSUME NEW p \in Pids, Register(p) \/ Unregister(p) PROVE TypeOK'
  BY <1>12 DEF Register, Unregister
<1>13. ASSUME NEW p \in Pids, HealthBegin(p) \/ HealthEnd(p) PROVE TypeOK'
  BY <1>13 DEF HealthBegin, HealthEnd, Ready
<1>14. ASSUME NEW p \in Pids, HaltBegin(p) PROVE TypeOK'
  BY <1>14 DEF HaltBegin, Ready
<1>15. ASSUME NEW p \in Pids, HaltEnd(p) PROVE TypeOK'
  <2>1. Doomed(p) \in {"none", "running", "doomed", "exited"}
    BY DEF Doomed
  <2>2. stoppedEv[p] + 1 \in Nat
    OBVIOUS
  <2>3. Alive' = Alive \ {p}
    BY <1>15 DEF HaltEnd, AfterHalt
  <2> QED BY <1>15, <2>1, <2>2, <2>3 DEF HaltEnd, AfterHalt, Leave
<1>16. ASSUME NEW p \in Pids, DownNormal(p) \/ DownAbnormal(p) PROVE TypeOK'
  <2>1. Alive' = Alive \ {p}
    BY <1>16 DEF DownNormal, DownAbnormal
  <2> QED BY <1>16, <2>1 DEF DownNormal, DownAbnormal, Leave
<1>17. ASSUME NEW p \in Pids, Crash(p) PROVE TypeOK'
  <2>1. Alive' = Alive \ {p}
    BY <1>17 DEF Crash
  <2> QED BY <1>17, <2>1 DEF Crash, Leave
<1>18. ASSUME NEW p \in Pids, OsExit(p) PROVE TypeOK'
  BY <1>18 DEF OsExit
<1>19. ASSUME NEW p \in Pids, Kill(p) PROVE TypeOK'
  BY <1>19 DEF Kill
<1>20. ASSUME InitCheck PROVE TypeOK'
  <2>1. sup' \in Start
    BY <1>20, InitRuns
  <2> QED BY <1>20, <2>1 DEF InitCheck
<1>21. ASSUME InitQuery PROVE TypeOK'
  <2>1. sup' \in Start
    BY <1>21, InitRuns
  <2> QED BY <1>21, <2>1 DEF InitQuery
<1>22. ASSUME NEW label \in PCs, NEW new \in {"gone", "up"}, NEW old \in {"gone", "crashed"},
              sup # NoStart, Ends(label, new, old),
              ref' = ref, os' \in [Pids -> {"none", "running", "doomed", "exited"}],
              mapped' \subseteq Refs, crashes' \in Nat,
              startedEv' \in [Pids -> Nat], stoppedEv' = stoppedEv, clean' \subseteq Tasks
       PROVE  TypeOK'
  <2>1. pst' \in [Pids -> PStates] /\ pc' \in [Tasks -> PCs]
    BY <1>22 DEF Ends
  <2>2. sup \in Start
    BY <1>22
  <2>3. Alive \subseteq Alive'
    BY <1>22, <2>2 DEF Ends, SupOK, Start
  <2> QED BY <1>22, <2>1, <2>3 DEF Ends
<1>23. ASSUME InitDies PROVE TypeOK'
  BY <1>22, <1>23 DEF InitDies
<1>24. ASSUME InitIgnored PROVE TypeOK'
  BY <1>22, <1>24 DEF InitIgnored
<1>25. ASSUME InitStarts PROVE TypeOK'
  <2>1. sup.new \in Pids /\ ref[sup.new] \in Refs
    BY <1>25 DEF InitStarts, Start
  <2> QED BY <1>22, <1>25, <2>1 DEF InitStarts
<1>26. ASSUME RestartsExhausted PROVE TypeOK'
  BY <1>26 DEF RestartsExhausted
<1>27. ASSUME UNCHANGED vars PROVE TypeOK'
  BY <1>27 DEF vars
<1> QED
  BY <1>1, <1>2, <1>3, <1>4, <1>5, <1>6, <1>7, <1>8, <1>10, <1>11, <1>12, <1>13,
     <1>14, <1>15, <1>16, <1>17, <1>18, <1>19, <1>20, <1>21, <1>23, <1>24, <1>25,
     <1>26, <1>27, NextCases

(* Steps outside the supervisor leave its init alone.                      *)
LEMMA WindsSupOK == TypeOK /\ SupOK /\ WindsDown => SupOK'
<1> SUFFICES ASSUME TypeOK, SupOK, WindsDown PROVE SupOK'
  OBVIOUS
<1>1. \A p \in Pids : pst[p] \in {"init", "crashed"} /\ sup # NoStart => pst'[p] = pst[p]
  BY DEF WindsDown, Winds
<1>2. \A p \in Pids : pst'[p] = "init" => pst[p] = "init"
  BY DEF WindsDown, Winds
<1>3. sup # NoStart => sup.new \in Pids
  BY DEF TypeOK, Start
<1> QED BY <1>1, <1>2, <1>3 DEF WindsDown, SupOK

(* The end of an init frees the supervisor.                                *)
LEMMA EndsSupOK ==
  ASSUME TypeOK, SupOK, NEW label, NEW new \in {"gone", "up"}, NEW old \in {"gone", "crashed"},
         sup # NoStart, Ends(label, new, old)
  PROVE  SupOK'
<1>1. \A p \in Pids : pst'[p] = "init" => pst[p] = "init" /\ p # sup.new
  BY DEF Ends
<1> QED BY <1>1 DEF SupOK, Ends

LEMMA SupStepOK == TypeOK /\ SupOK /\ [Next]_vars => SupOK'
<1> SUFFICES ASSUME TypeOK, SupOK, [Next]_vars PROVE SupOK'
  OBVIOUS
<1>1. ASSUME NEW who \in Tasks \cup Pids, NEW r \in Refs, StartsInit(who, r),
             who \in Pids => pst[who] = "crashed"
      PROVE  SupOK'
  <2>1. PICK q \in Pids :
           /\ sup = NoStart /\ pst[q] = "free"
           /\ sup' = [by |-> who, new |-> q, at |-> "check", todo |-> {}, dup |-> FALSE]
           /\ sup' \in Start
           /\ pst' = [pst EXCEPT ![q] = "init"]
    BY <1>1, StartGiven
  <2>2. sup' # NoStart
    BY <2>1, ProviderAssumption
  <2> QED BY <1>1, <2>1, <2>2 DEF SupOK, TypeOK
<1>2. ASSUME NEW t \in Tasks, StartChild(t) PROVE SupOK'
  <2>1. req[t].ref \in Refs
    BY DEF TypeOK, Request
  <2> QED BY <1>1, <1>2, <2>1, ProviderAssumption DEF StartChild
<1>3. ASSUME NEW p \in Pids, Restart(p) PROVE SupOK'
  <2>1. ref[p] \in Refs
    BY DEF TypeOK
  <2> QED BY <1>1, <1>3, <2>1 DEF Restart
<1>4. ASSUME InitCheck \/ InitQuery PROVE SupOK'
  <2>1. pst' = pst
    BY <1>4 DEF InitCheck, InitQuery
  <2> QED BY <1>4, <2>1, InitRuns DEF SupOK
<1>5. ASSUME InitDies \/ InitIgnored \/ InitStarts PROVE SupOK'
  BY <1>5, EndsSupOK DEF InitDies, InitIgnored, InitStarts
<1> QED BY <1>2, <1>3, <1>4, <1>5, WindsSupOK, StepCases

(* Typed, and the supervisor's one init at a time is for whom it says      *)
(* (DynamicSupervisor's start_child and restart).                          *)
THEOREM SupCorrect == Spec => [](TypeOK /\ SupOK)
<1>1. TypeOK /\ SupOK /\ [Next]_vars => (TypeOK /\ SupOK)'
  BY TypeStep, SupStepOK
<1> QED BY <1>1, TypeInit, PTL DEF Spec

(* Every reachable state is typed, and a process that ended has left no    *)
(* call, DOWN message or health check behind (GenServer of ProviderModule).*)
THEOREM TypeCorrect == Spec => []TypeOK
BY SupCorrect, PTL

-----------------------------------------------------------------------------
(* Events *)

LEMMA EventsStep ==
  TypeOK /\ SupOK /\ EventsMatchInstances /\ [Next]_vars => EventsMatchInstances'
<1> SUFFICES ASSUME TypeOK, SupOK, EventsMatchInstances, [Next]_vars
             PROVE  EventsMatchInstances'
  OBVIOUS
<1> USE DEF EventsMatchInstances, TypeOK, PStates, Alive, procVars, taskVars, evVars, histVars
<1>1. ASSUME pst' = pst, UNCHANGED evVars PROVE EventsMatchInstances'
  BY <1>1
<1>2. ASSUME NEW t \in Tasks, NEW r \in Requests, Launch(t, r) PROVE EventsMatchInstances'
  BY <1>1, <1>2 DEF Launch
<1>3. ASSUME NEW t \in Tasks,
             \/ Abort(t) \/ Look(t) \/ List(t) \/ Query(t) \/ NotRunning(t)
             \/ Refused(t) \/ Fetch(t) \/ Listed(t)
             \/ SendHalt(t) \/ SkipInstance(t) \/ FinishHalts(t)
      PROVE  EventsMatchInstances'
  BY <1>1, <1>3 DEF Abort, Look, List, Query, NotRunning, Refused, Fetch, Listed,
     SendHalt, SkipInstance, FinishHalts
<1>4. ASSUME NEW p \in Pids,
             \/ Register(p) \/ Unregister(p) \/ HealthBegin(p) \/ HealthEnd(p)
             \/ OsExit(p) \/ Kill(p)
      PROVE  EventsMatchInstances'
  BY <1>1, <1>4 DEF Register, Unregister, HealthBegin, HealthEnd, OsExit, Kill
<1>5. ASSUME InitCheck \/ InitQuery \/ UNCHANGED vars PROVE EventsMatchInstances'
  BY <1>1, <1>5 DEF InitCheck, InitQuery, vars
<1>6. ASSUME NEW p \in Pids, HaltBegin(p) PROVE EventsMatchInstances'
  BY <1>6 DEF HaltBegin, Ready
<1>7. ASSUME NEW p \in Pids, HaltEnd(p) PROVE EventsMatchInstances'
  BY <1>7 DEF HaltEnd, AfterHalt
<1>8. ASSUME NEW p \in Pids, DownNormal(p) PROVE EventsMatchInstances'
  BY <1>8 DEF DownNormal, Ready
<1>9. ASSUME NEW p \in Pids, DownAbnormal(p) PROVE EventsMatchInstances'
  BY <1>9 DEF DownAbnormal, Ready
<1>10. ASSUME NEW p \in Pids, Crash(p) PROVE EventsMatchInstances'
  BY <1>10 DEF Crash
<1>11. ASSUME RestartsExhausted PROVE EventsMatchInstances'
  BY <1>11 DEF RestartsExhausted
<1>12. ASSUME NEW q \in Pids, pst[q] = "free", pst' = [pst EXCEPT ![q] = "init"],
              UNCHANGED evVars
       PROVE  EventsMatchInstances'
  BY <1>12
<1>13. ASSUME NEW t \in Tasks, StartChild(t) PROVE EventsMatchInstances'
  <2>1. req[t].ref \in Refs
    BY DEF Request
  <2> QED BY <1>12, <1>13, <2>1, StartGiven DEF StartChild
<1>14. ASSUME NEW p \in Pids, Restart(p) PROVE EventsMatchInstances'
  BY <1>12, <1>14, StartGiven DEF Restart
<1>15. ASSUME InitDies \/ InitIgnored PROVE EventsMatchInstances'
  <2>1. PICK old \in {"gone", "crashed"} :
           /\ pst' = [p \in Pids |-> IF p = sup.new THEN "gone"
                                     ELSE IF p = sup.by THEN old ELSE pst[p]]
           /\ UNCHANGED evVars
    BY <1>15 DEF InitDies, InitIgnored, Ends
  <2>2. sup # NoStart /\ sup \in Start
    BY <1>15 DEF InitDies, InitIgnored
  <2> QED BY <2>1, <2>2 DEF SupOK, Start
<1>16. ASSUME InitStarts PROVE EventsMatchInstances'
  <2>1. /\ pst' = [p \in Pids |-> IF p = sup.new THEN "up"
                                  ELSE IF p = sup.by THEN "gone" ELSE pst[p]]
        /\ startedEv' = [startedEv EXCEPT ![sup.new] = @ + 1]
        /\ stoppedEv' = stoppedEv
        /\ sup # NoStart /\ sup \in Start
    BY <1>16 DEF InitStarts, Ends
  <2> QED BY <2>1 DEF SupOK, Start
<1> QED
  BY <1>2, <1>3, <1>4, <1>5, <1>6, <1>7, <1>8, <1>9, <1>10, <1>11, <1>13, <1>14,
     <1>15, <1>16, NextCases

(* Each instance announces its start once and its stop at most once, and   *)
(* surely when it was halted or its port closed normally (halt_cleanup,    *)
(* handle_info(:DOWN)), whatever calls and exits it has to deal with.      *)
THEOREM EventsMatch == Spec => []EventsMatchInstances
<1>1. Init => EventsMatchInstances
  BY ProviderAssumption DEF Init, EventsMatchInstances, Alive
<1> QED BY <1>1, EventsStep, SupCorrect, PTL DEF Spec

-----------------------------------------------------------------------------
(* The guard in init *)

(* The pids that have become instances.                                    *)
Begun == {p \in Pids : pst[p] \notin {"free", "init"}}

(* Between the supervisor's taking up a start and its end: the instances   *)
(* that were up and registered then are still, or have ended, until the    *)
(* init has looked; then it has seen one of them or all have ended.        *)
GuardInv ==
  /\ \A q \in Pids : before[q] \subseteq Begun
  /\ RegisteredNotDoubled
  /\ sup # NoStart /\ sup.at = "check" =>
       \A p \in before[sup.new] \cap Alive : p \in registered /\ Key(p) = Key(sup.new)
  /\ sup # NoStart /\ sup.at = "query" =>
       sup.dup \/ before[sup.new] \cap Alive = {}

LEMMA WindsGuard == TypeOK /\ GuardInv /\ WindsDown => GuardInv'
<1> SUFFICES ASSUME TypeOK, GuardInv, WindsDown PROVE GuardInv'
  OBVIOUS
<1>1. Alive' \subseteq Alive /\ Begun \subseteq Begun'
  BY DEF WindsDown, Winds, Alive, Begun, TypeOK
<1>2. (\A q \in Pids : before[q] \subseteq Begun)'
  BY <1>1 DEF WindsDown, GuardInv
<1>3. RegisteredNotDoubled'
  BY <1>1 DEF WindsDown, GuardInv, RegisteredNotDoubled
<1>4. \A p \in before[sup.new] \cap Alive' : p \in registered => p \in registered'
  BY DEF WindsDown
<1>5. ASSUME sup # NoStart, sup.at = "check"
      PROVE  (\A p \in before[sup.new] \cap Alive : p \in registered /\ Key(p) = Key(sup.new))'
  BY <1>1, <1>4, <1>5 DEF WindsDown, GuardInv, Key
<1>6. ASSUME sup # NoStart, sup.at = "query"
      PROVE  (sup.dup \/ before[sup.new] \cap Alive = {})'
  BY <1>1, <1>6 DEF WindsDown, GuardInv
<1> QED BY <1>2, <1>3, <1>5, <1>6 DEF WindsDown, GuardInv

LEMMA StartGuard ==
  ASSUME TypeOK, GuardInv, NEW who \in Tasks \cup Pids, NEW r \in Refs, StartsInit(who, r)
  PROVE  GuardInv'
<1>1. PICK q \in Pids :
         /\ sup = NoStart /\ pst[q] = "free"
         /\ sup' = [by |-> who, new |-> q, at |-> "check", todo |-> {}, dup |-> FALSE]
         /\ pst' = [pst EXCEPT ![q] = "init"]
         /\ ref' = [ref EXCEPT ![q] = r]
         /\ before' = [before EXCEPT ![q] = {p \in registered \cap Alive : Key(p) = KeyOf[r]}]
         /\ registered' = registered
  BY StartGiven
<1>2. Alive' = Alive /\ Begun' = Begun /\ Alive \subseteq Begun /\ q \notin Begun
  BY <1>1 DEF TypeOK, Alive, Begun
<1>3. before'[q] = {p \in registered \cap Alive : Key(p) = KeyOf[r]}
  BY <1>1 DEF TypeOK
<1>4. \A p \in Pids \ {q} : before'[p] = before[p] /\ Key(p)' = Key(p)
  BY <1>1 DEF TypeOK, Key
<1>5. Key(q)' = KeyOf[r]
  BY <1>1 DEF TypeOK, Key
<1>6. (\A p \in Pids : before[p] \subseteq Begun)'
  BY <1>2, <1>3, <1>4 DEF GuardInv
<1>7. RegisteredNotDoubled'
  BY <1>2, <1>4 DEF GuardInv, RegisteredNotDoubled, Alive
<1>8. sup'.at = "check" /\ sup'.new = q
  BY <1>1
<1>9. (\A p \in before[sup.new] \cap Alive : p \in registered /\ Key(p) = Key(sup.new))'
  <2>1. \A p \in before'[q] : p \in registered' /\ p \in Pids \ {q} /\ Key(p) = KeyOf[r]
    BY <1>1, <1>2, <1>3 DEF TypeOK
  <2> QED BY <1>4, <1>5, <1>8, <2>1
<1> QED BY <1>6, <1>7, <1>8, <1>9 DEF GuardInv

LEMMA CheckGuard == TypeOK /\ GuardInv /\ InitCheck => GuardInv'
<1> SUFFICES ASSUME TypeOK, GuardInv, InitCheck PROVE GuardInv'
  OBVIOUS
<1>1. /\ sup # NoStart /\ sup.at = "check" /\ sup \in Start
      /\ sup'.at = "query" /\ sup'.new = sup.new /\ sup'.dup = Duplicate(ref[sup.new])
      /\ UNCHANGED <<pst, ref, before, registered>>
  BY DEF InitCheck, TypeOK, Start, histVars
<1>2. Duplicate(ref[sup.new]) \/ before[sup.new] \cap Alive = {}
  BY <1>1 DEF GuardInv, Duplicate, Key
<1>3. Alive' = Alive /\ Begun' = Begun
  BY <1>1 DEF Alive, Begun
<1> QED BY <1>1, <1>2, <1>3 DEF GuardInv, RegisteredNotDoubled

LEMMA QueryGuard == TypeOK /\ GuardInv /\ InitQuery => GuardInv'
<1> SUFFICES ASSUME TypeOK, GuardInv, InitQuery PROVE GuardInv'
  OBVIOUS
<1>1. /\ sup # NoStart /\ sup.at = "query" /\ sup \in Start
      /\ sup'.at = "query" /\ sup'.new = sup.new /\ sup'.dup = sup.dup
      /\ UNCHANGED <<pst, before>>
  BY DEF InitQuery, TypeOK, Start, histVars
<1>2. Alive' = Alive /\ Begun' = Begun
  BY <1>1 DEF Alive, Begun
<1> QED BY <1>1, <1>2 DEF GuardInv, RegisteredNotDoubled

(* An init that ends brings up its pid, if any, and only unguarded.        *)
LEMMA EndsGuard ==
  ASSUME TypeOK, SupOK, GuardInv, NEW label, NEW new \in {"gone", "up"},
         NEW old \in {"gone", "crashed"}, sup # NoStart, Ends(label, new, old),
         new = "up" => before[sup.new] \cap Alive = {}
  PROVE  GuardInv'
<1>1. sup \in Start /\ sup.new \in Pids /\ pst[sup.new] = "init" /\ sup' = NoStart
  BY DEF TypeOK, SupOK, Start, Ends
<1>2. \A p \in Pids : p # sup.new => (p \in Alive' <=> p \in Alive)
  BY <1>1 DEF SupOK, Ends, Alive
<1>3. sup.new \notin Begun /\ Begun \subseteq Begun' /\ Alive \subseteq Begun
  BY <1>1 DEF SupOK, Ends, Begun, Alive
<1>4. before' = before
  BY DEF Ends
<1>5. ASSUME NEW q \in Alive' PROVE before'[q] \cap Alive' = {}
  <2>1. before[q] \cap Alive' \subseteq Alive
    BY <1>2, <1>3 DEF GuardInv, Alive, Begun
  <2>2. CASE q = sup.new
    <3>1. new = "up"
      BY <1>1, <2>2 DEF Ends, Alive
    <3> QED BY <1>4, <2>1, <2>2, <3>1
  <2>3. CASE q # sup.new
    <3>1. q \in Alive
      BY <1>2, <2>3 DEF Alive
    <3> QED BY <1>4, <2>1, <3>1 DEF GuardInv, RegisteredNotDoubled
  <2> QED BY <2>2, <2>3
<1> QED BY <1>1, <1>3, <1>4, <1>5 DEF GuardInv, RegisteredNotDoubled

LEMMA GuardStep == TypeOK /\ SupOK /\ GuardInv /\ [Next]_vars => GuardInv'
<1> SUFFICES ASSUME TypeOK, SupOK, GuardInv, [Next]_vars PROVE GuardInv'
  OBVIOUS
<1>1. ASSUME NEW t \in Tasks, StartChild(t) PROVE GuardInv'
  <2>1. req[t].ref \in Refs
    BY DEF TypeOK, Request
  <2> QED BY <1>1, <2>1, StartGuard DEF StartChild
<1>2. ASSUME NEW p \in Pids, Restart(p) PROVE GuardInv'
  <2>1. ref[p] \in Refs
    BY DEF TypeOK
  <2> QED BY <1>2, <2>1, StartGuard DEF Restart
<1>3. ASSUME InitDies \/ InitIgnored PROVE GuardInv'
  BY <1>3, EndsGuard DEF InitDies, InitIgnored
<1>4. ASSUME InitStarts PROVE GuardInv'
  BY <1>4, EndsGuard DEF InitStarts, GuardInv
<1> QED
  BY <1>1, <1>2, <1>3, <1>4, WindsGuard, CheckGuard, QueryGuard, StepCases

(* However many starts, restarts, stops and crashes overlap, an instance   *)
(* that was up and registered when the supervisor took up a start of its   *)
(* provider has ended when that start brings up another (the guard of      *)
(* ProviderModule.init; the two checks before it are not needed).          *)
THEOREM NoDouble == Spec => []RegisteredNotDoubled
<1>1. Init => GuardInv
  BY ProviderAssumption DEF Init, GuardInv, RegisteredNotDoubled, Alive, Begun
<1>2. GuardInv => RegisteredNotDoubled
  BY DEF GuardInv
<1> QED BY <1>1, <1>2, GuardStep, SupCorrect, PTL DEF Spec

-----------------------------------------------------------------------------
(* What an undisturbed request comes to *)

(* The instances with whom a call of a request is, and those a stop leaves.*)
Called(t) == {p \in Pids : <<t, p>> \in mail}
Keep(t) == {p \in had[t] : req[t].op = "stop" /\ Key(p) # KeyOf[req[t].ref]}

(* An instance that shuts down does so for a caller.                       *)
HaltingCalled == \A p \in Pids : pst[p] = "halting" => \E m \in mail : m[2] = p

(* Nobody else is at work; a call is the one the request waits for, and an *)
(* init the one of its start.                                              *)
Alone(t) ==
  /\ pc[t] \notin {"idle", "failed"}
  /\ \A u \in Tasks \ {t} : pc[u] \in Ended \cup {"idle"}
  /\ \A m \in mail : m[1] = t /\ pc[t] = "await"
  /\ \A m, n \in mail : m = n
  /\ \A p \in down : pst[p] = "halting"
  /\ \A p \in Pids : pst[p] # "crashed"
  /\ sup # NoStart => sup.by = t
  /\ sup # NoStart <=> pc[t] = "starting"

(* Until its start has an instance, or its stop has picked, nothing changes*)
(* hands: those that live lived before, and are registered.                *)
Untouched(t) ==
  pc[t] \notin {"listing", "halting", "await", "done"} => Alive = had[t] /\ registered = Alive

(* A start has seen its provider running only if it does; its init decides *)
(* by the registry.                                                        *)
Starting(t) ==
  req[t].op = "start" =>
    /\ pc[t] \in {"check", "checking", "fetch", "recheck", "rechecking", "start", "starting", "done"}
    /\ pc[t] \in {"checking", "rechecking"} /\ dup[t] => Duplicate(req[t].ref)
    /\ pc[t] = "starting" =>
         /\ ref[sup.new] = req[t].ref
         /\ sup.at = "query" => (sup.dup <=> Duplicate(req[t].ref))

(* A stop halts what it picked, and picked all but those to keep.          *)
Stopping(t) ==
  req[t].op # "start" =>
    /\ pc[t] \in {"list", "listing", "halting", "await", "done"}
    /\ pc[t] \in {"listing", "halting", "await"} =>
         /\ picked[t] \subseteq Alive \ Called(t)
         /\ Alive \ (picked[t] \cup Called(t)) = Keep(t)

Course(t) == Alone(t) /\ Untouched(t) /\ Starting(t) /\ Stopping(t)

CleanInv == \A t \in clean : Course(t)

LEMMA HaltingCalledInit == Init => HaltingCalled
BY DEF Init, HaltingCalled

LEMMA HaltingCalledStep == TypeOK /\ HaltingCalled /\ [Next]_vars => HaltingCalled'
<1> SUFFICES ASSUME TypeOK, HaltingCalled, [Next]_vars PROVE HaltingCalled'
  OBVIOUS
<1>0. pst \in [Pids -> PStates]
  BY DEF TypeOK
<1>1. ASSUME \A p \in Pids : pst'[p] = "halting" => pst[p] = "halting", mail \subseteq mail'
      PROVE  HaltingCalled'
  BY <1>1 DEF HaltingCalled
<1>2. ASSUME NEW p \in Pids, pst'[p] # "halting", Leave(p),
             \A q \in Pids \ {p} : pst'[q] = pst[q]
      PROVE  HaltingCalled'
  BY <1>2 DEF HaltingCalled, Leave
<1>3. ASSUME NEW t \in Tasks,
             \/ \E r \in Requests : Launch(t, r)
             \/ Abort(t) \/ Look(t) \/ List(t) \/ Query(t) \/ NotRunning(t)
             \/ Refused(t) \/ Fetch(t) \/ Listed(t)
             \/ SendHalt(t) \/ SkipInstance(t) \/ FinishHalts(t)
      PROVE  HaltingCalled'
  <2>1. pst' = pst /\ mail \subseteq mail'
    BY <1>3 DEF Launch, Abort, Look, List, Query, NotRunning, Refused, Fetch, Listed,
       SendHalt, SkipInstance, FinishHalts, procVars
  <2> QED BY <1>1, <2>1
<1>4. ASSUME NEW who, NEW r, StartsInit(who, r) PROVE HaltingCalled'
  <2>1. mail' = mail /\ pst' = [pst EXCEPT ![Fresh] = "init"]
    BY <1>4 DEF StartsInit
  <2> QED BY <1>0, <1>1, <2>1
<1>5. ASSUME NEW p \in Pids,
             \/ Register(p) \/ Unregister(p) \/ HealthBegin(p) \/ HealthEnd(p)
             \/ OsExit(p) \/ Kill(p)
      PROVE  HaltingCalled'
  <2>1. pst' = pst /\ mail' = mail
    BY <1>5 DEF Register, Unregister, HealthBegin, HealthEnd, OsExit, Kill
  <2> QED BY <1>1, <2>1
<1>6. ASSUME NEW p \in Pids, HaltBegin(p) PROVE HaltingCalled'
  <2>1. (\E m \in mail : m[2] = p) /\ mail' = mail /\ pst' = [pst EXCEPT ![p] = "halting"]
    BY <1>6 DEF HaltBegin
  <2> QED BY <1>0, <2>1 DEF HaltingCalled
<1>7. ASSUME NEW p \in Pids, HaltEnd(p) \/ DownNormal(p) \/ DownAbnormal(p) \/ Crash(p)
      PROVE  HaltingCalled'
  BY <1>0, <1>2, <1>7 DEF HaltEnd, AfterHalt, DownNormal, DownAbnormal, Crash
<1>8. ASSUME InitCheck \/ InitQuery PROVE HaltingCalled'
  BY <1>1, <1>8 DEF InitCheck, InitQuery
<1>9. ASSUME InitDies \/ InitIgnored \/ InitStarts PROVE HaltingCalled'
  BY <1>1, <1>9 DEF InitDies, InitIgnored, InitStarts, Ends
<1>10. ASSUME RestartsExhausted PROVE HaltingCalled'
  BY <1>0, <1>10 DEF RestartsExhausted, Alive, HaltingCalled
<1>11. ASSUME UNCHANGED vars PROVE HaltingCalled'
  BY <1>1, <1>11 DEF vars, procVars
<1> QED
  BY NextCases, <1>3, <1>4, <1>5, <1>6, <1>7, <1>8, <1>9, <1>10, <1>11
     DEF StartChild, Restart

(* An undisturbed request that has not ended is the only one that moves.   *)
LEMMA OnlyMover ==
  ASSUME NEW t \in Tasks, Alone(t), NEW u \in Tasks, pc[u] \notin Ended \cup {"idle"}
  PROVE  u = t
BY DEF Alone

(* A request that arrives when nothing is going on.                        *)
LEMMA CourseLaunch ==
  ASSUME TypeOK, HaltingCalled, NEW t \in Tasks, NEW r \in Requests, Launch(t, r), Quiet
  PROVE  Course(t)'
<1>1. /\ pc'[t] = (IF r.op = "start" THEN "check" ELSE "list") /\ req'[t] = r
      /\ had'[t] = Alive /\ UNCHANGED procVars
      /\ \A u \in Tasks \ {t} : pc'[u] = pc[u]
  BY DEF Launch, TypeOK, Goto
<1>2. Alive' = Alive /\ registered' = Alive
  BY <1>1 DEF Quiet, procVars, Alive
<1>3. Alone(t)'
  BY <1>1 DEF Quiet, Alone, procVars
<1>4. Untouched(t)'
  BY <1>1, <1>2 DEF Untouched
<1>5. Starting(t)' /\ Stopping(t)'
  BY <1>1 DEF Starting, Stopping
<1> QED BY <1>3, <1>4, <1>5 DEF Course

(* A step that leaves a request and whom it calls where they are.          *)
LEMMA CourseFrame ==
  ASSUME NEW t \in Tasks, Course(t), Alive' = Alive,
         UNCHANGED <<pc, ref, mail, sup, req, dup, had>>,
         picked'[t] = picked[t],
         registered = Alive => registered' = registered,
         \A p \in down' : pst'[p] = "halting",
         \A p \in Pids : pst'[p] = "crashed" => pst[p] = "crashed"
  PROVE  Course(t)'
<1>1. Alone(t)'
  BY DEF Course, Alone
<1>2. Untouched(t)'
  BY DEF Course, Untouched
<1>3. Starting(t)'
  <2>1. \A r : registered = Alive => (Duplicate(r)' <=> Duplicate(r))
    BY DEF Duplicate, Key
  <2> QED BY <2>1 DEF Course, Starting, Untouched
<1>4. Stopping(t)'
  <2>1. Called(t)' = Called(t) /\ Keep(t)' = Keep(t)
    BY DEF Called, Keep, Key
  <2> QED BY <2>1 DEF Course, Stopping
<1> QED BY <1>1, <1>2, <1>3, <1>4 DEF Course

(* The steps in which a request looks or asks.                             *)
LEMMA CourseAsk ==
  ASSUME TypeOK, NEW t \in Tasks, Course(t),
         \/ Look(t) \/ List(t) \/ Query(t) \/ NotRunning(t) \/ Refused(t) \/ Fetch(t)
         \/ Listed(t)
  PROVE  Course(t)'
<1>1. /\ UNCHANGED <<procVars, req, had>>
      /\ \A u \in Tasks \ {t} : pc'[u] = pc[u]
      /\ pc[t] \in {"check", "recheck", "checking", "rechecking", "fetch", "list", "listing"}
      /\ pc'[t] \in {"checking", "rechecking", "fetch", "recheck", "start", "done",
                     "listing", "halting"}
  BY DEF Look, List, Query, NotRunning, Refused, Fetch, Listed, TypeOK, Goto, histVars
<1>2. /\ Alive' = Alive /\ Called(t)' = Called(t) /\ Keep(t)' = Keep(t)
      /\ mail = {} /\ Called(t) = {} /\ sup = NoStart
      /\ Duplicate(req[t].ref)' = Duplicate(req[t].ref)
  BY <1>1 DEF procVars, Alive, Called, Keep, Key, Course, Alone, Duplicate
<1>3. Alone(t)'
  BY <1>1, <1>2 DEF procVars, Course, Alone
<1>4. Untouched(t)'
  <2>1. pc[t] = "listing" => pc'[t] \in {"listing", "halting"}
    BY DEF Look, List, Query, NotRunning, Refused, Fetch, Listed, TypeOK, Goto
  <2> QED BY <1>1, <1>2, <2>1 DEF procVars, Course, Untouched
<1>5. Starting(t)'
  <2> SUFFICES ASSUME req[t].op = "start"
               PROVE  Starting(t)'
    BY <1>1 DEF Starting
  <2>1. Look(t) \/ Query(t) \/ NotRunning(t) \/ Refused(t) \/ Fetch(t)
    BY DEF Course, Starting, List, Listed
  <2>2. pc[t] \notin {"list", "listing"}
    BY DEF Course, Starting
  <2>3. pc'[t] \in {"checking", "rechecking", "fetch", "recheck", "start", "done"}
    BY <2>1, <2>2 DEF Look, Query, NotRunning, Refused, Fetch, TypeOK, Goto
  <2>4. pc'[t] \in {"checking", "rechecking"} /\ dup'[t] => Duplicate(req[t].ref)
    <3>1. CASE Look(t)
      BY <3>1 DEF Look, TypeOK
    <3>2. CASE ~Look(t)
      BY <2>1, <2>2, <3>2 DEF Query, NotRunning, Refused, Fetch, TypeOK, Goto, Course, Starting
    <3> QED BY <3>1, <3>2
  <2> QED BY <1>1, <1>2, <2>3, <2>4 DEF Starting
<1>6. Stopping(t)'
  <2> SUFFICES ASSUME req[t].op # "start"
               PROVE  Stopping(t)'
    BY <1>1 DEF Stopping
  <2>1. pc[t] \in {"list", "listing"}
    BY <1>1 DEF Course, Stopping
  <2>2. CASE List(t)
    <3>1. /\ pc[t] = "list" /\ pc'[t] = "listing" /\ picked'[t] = Targets(t)
      BY <2>2 DEF List, TypeOK, Goto
    <3>2. Alive = had[t] /\ registered = Alive
      BY <3>1 DEF Course, Untouched
    <3>3. req[t].op \in {"stop", "stopall"}
      BY DEF TypeOK, Request
    <3>4. picked'[t] \subseteq Alive /\ Alive \ picked'[t] = Keep(t)
      BY <3>1, <3>2, <3>3 DEF Targets, Keep
    <3> QED BY <1>1, <1>2, <3>1, <3>4 DEF Stopping
  <2>3. CASE ~List(t)
    <3>1. pc[t] = "listing" /\ pc'[t] \in {"listing", "halting"} /\ picked'[t] = picked[t]
      BY <2>1, <2>3 DEF Look, Query, NotRunning, Refused, Fetch, Listed, TypeOK, Goto
    <3> QED BY <1>1, <1>2, <3>1 DEF Course, Stopping
  <2> QED BY <2>2, <2>3
<1> QED BY <1>3, <1>4, <1>5, <1>6 DEF Course

(* The request's start reaches the supervisor.                             *)
LEMMA CourseStart ==
  ASSUME TypeOK, NEW t \in Tasks, Course(t), StartChild(t)
  PROVE  Course(t)'
<1>1. req[t].ref \in Refs
  BY DEF TypeOK, Request
<1>2. PICK q \in Pids :
         /\ sup = NoStart /\ pst[q] = "free"
         /\ sup' = [by |-> t, new |-> q, at |-> "check", todo |-> {}, dup |-> FALSE]
         /\ sup' \in Start
         /\ pst' = [pst EXCEPT ![q] = "init"]
         /\ ref' = [ref EXCEPT ![q] = req[t].ref]
         /\ UNCHANGED <<down, registered, mail, had>>
  BY <1>1, StartGiven DEF StartChild
<1>3. /\ pc[t] = "start" /\ pc'[t] = "starting" /\ req' = req
      /\ \A u \in Tasks \ {t} : pc'[u] = pc[u]
  BY DEF StartChild, TypeOK
<1>4. Alive' = Alive /\ sup' # NoStart /\ sup'.by = t /\ sup'.new = q /\ sup'.at = "check"
      /\ ref'[q] = req[t].ref
  BY <1>2, ProviderAssumption DEF Alive, TypeOK
<1>5. mail = {} /\ req[t].op = "start"
  BY <1>3 DEF Course, Alone, Stopping
<1>6. Alone(t)'
  <2>1. \A p \in down : pst'[p] = "halting"
    BY <1>2 DEF Course, Alone, TypeOK
  <2>2. \A p \in Pids : pst'[p] # "crashed"
    BY <1>2 DEF Course, Alone, TypeOK
  <2> QED BY <1>2, <1>3, <1>4, <1>5, <2>1, <2>2 DEF Course, Alone
<1>7. Untouched(t)'
  BY <1>2, <1>3, <1>4 DEF Course, Untouched
<1>8. Starting(t)' /\ Stopping(t)'
  BY <1>3, <1>4, <1>5 DEF Starting, Stopping
<1> QED BY <1>6, <1>7, <1>8 DEF Course

(* Its init looks and asks.                                                *)
LEMMA CourseInit ==
  ASSUME TypeOK, NEW t \in Tasks, Course(t), InitCheck \/ InitQuery
  PROVE  Course(t)'
<1>1. /\ UNCHANGED <<pst, ref, down, registered, mail, pc, req, dup, picked, had>>
      /\ sup \in Start /\ sup # NoStart /\ sup'.new = sup.new /\ sup'.by = sup.by
      /\ sup' # NoStart
  BY InitRuns DEF InitCheck, InitQuery, taskVars, histVars
<1>2. pc[t] = "starting" /\ mail = {} /\ Alive' = Alive
      /\ Duplicate(req[t].ref)' = Duplicate(req[t].ref)
  BY <1>1 DEF Course, Alone, Alive, Duplicate, Key
<1>3. Alone(t)'
  BY <1>1 DEF Course, Alone
<1>4. Untouched(t)'
  BY <1>1, <1>2 DEF Course, Untouched
<1>5. req[t].op = "start"
  BY <1>2 DEF Course, Stopping
<1>6. sup'.dup <=> Duplicate(req[t].ref)
  <2>1. ref[sup.new] = req[t].ref
    BY <1>2, <1>5 DEF Course, Starting
  <2>2. CASE InitCheck
    <3>1. sup'.dup = Duplicate(ref[sup.new])
      BY <1>1, <2>2 DEF InitCheck, Start
    <3> QED BY <2>1, <3>1
  <2>3. CASE InitQuery
    <3>1. sup'.dup = sup.dup /\ sup.at = "query"
      BY <1>1, <2>3 DEF InitQuery, Start
    <3> QED BY <1>2, <1>5, <3>1 DEF Course, Starting
  <2> QED BY <2>2, <2>3
<1>7. Starting(t)' /\ Stopping(t)'
  BY <1>1, <1>2, <1>5, <1>6 DEF Course, Starting, Stopping
<1> QED BY <1>3, <1>4, <1>7 DEF Course

(* Its init comes to an end.                                               *)
LEMMA CourseStarted ==
  ASSUME TypeOK, SupOK, NEW t \in Tasks, Course(t), InitIgnored \/ InitStarts
  PROVE  Course(t)'
<1>1. /\ sup # NoStart /\ sup.by = t /\ pc[t] = "starting" /\ sup' = NoStart
      /\ pst[sup.new] = "init"
  BY DEF InitIgnored, InitStarts, Ends, Course, Alone, SupOK
<1>2. /\ UNCHANGED <<down, mail, req>> /\ pc'[t] = "done"
      /\ \A u \in Tasks \ {t} : pc'[u] = pc[u]
  BY <1>1 DEF InitIgnored, InitStarts, Ends, TypeOK
<1>3. /\ \A p \in down' : pst'[p] = "halting"
      /\ \A p \in Pids : pst'[p] # "crashed"
  <2>1. \A p \in Pids : pst'[p] = pst[p] \/ pst'[p] \in {"up", "gone"}
    BY DEF InitIgnored, InitStarts, Ends
  <2>2. \A p \in down : p # sup.new /\ p # sup.by /\ p \in Pids
    BY <1>1, ProviderAssumption DEF TypeOK, Alive
  <2>3. \A p \in down : pst'[p] = pst[p]
    BY <2>2 DEF InitIgnored, InitStarts, Ends
  <2> QED BY <1>2, <2>1, <2>3 DEF Course, Alone
<1>4. Alone(t)'
  BY <1>1, <1>2, <1>3 DEF Course, Alone
<1>5. Untouched(t)'
  BY <1>2 DEF Untouched
<1>6. Starting(t)' /\ Stopping(t)'
  BY <1>1, <1>2 DEF Course, Starting, Stopping
<1> QED BY <1>4, <1>5, <1>6 DEF Course

(* Calling what a stop has picked, one after the other.                    *)
LEMMA CourseCall ==
  ASSUME TypeOK, NEW t \in Tasks, Course(t), SendHalt(t) \/ SkipInstance(t) \/ FinishHalts(t)
  PROVE  Course(t)'
<1>1. /\ UNCHANGED <<pst, ref, down, registered, sup, req, had>>
      /\ \A u \in Tasks \ {t} : pc'[u] = pc[u]
      /\ pc[t] = "halting" /\ pc'[t] \in {"halting", "await", "done"}
  BY DEF SendHalt, SkipInstance, FinishHalts, TypeOK, Goto, procVars, histVars
<1>2. mail = {} /\ Called(t) = {} /\ req[t].op # "start" /\ Alive' = Alive /\ Keep(t)' = Keep(t)
  BY <1>1 DEF Course, Alone, Called, Starting, Alive, Keep, Key
<1>3. picked[t] \subseteq Alive /\ Alive \ picked[t] = Keep(t)
  BY <1>1, <1>2 DEF Course, Stopping
<1>4. ~SkipInstance(t)
  BY <1>3 DEF SkipInstance
<1>5. CASE SendHalt(t)
  <2>1. PICK p \in picked[t] \cap Alive : /\ picked'[t] = picked[t] \ {p}
                                          /\ mail' = mail \cup {<<t, p>>}
    BY <1>5 DEF SendHalt, TypeOK
  <2>2. pc'[t] = "await" /\ mail' = {<<t, p>>} /\ Called(t)' = {p}
    <3>1. p \in Pids
      BY <2>1 DEF Alive
    <3> QED BY <1>2, <1>5, <2>1, <3>1 DEF SendHalt, TypeOK, Goto, Called
  <2>3. Alone(t)'
    BY <1>1, <2>2 DEF Course, Alone
  <2>4. Stopping(t)'
    BY <1>1, <1>2, <1>3, <2>1, <2>2 DEF Stopping
  <2> QED BY <1>1, <1>2, <2>2, <2>3, <2>4 DEF Course, Untouched, Starting
<1>6. CASE FinishHalts(t)
  <2>1. pc'[t] = "done" /\ mail' = mail
    BY <1>6 DEF FinishHalts, TypeOK, Goto, procVars
  <2>2. Alone(t)'
    BY <1>1, <1>2, <2>1 DEF Course, Alone
  <2> QED BY <1>1, <1>2, <2>1, <2>2 DEF Course, Untouched, Starting, Stopping
<1> QED BY <1>4, <1>5, <1>6

(* An instance stops for the stop that called it.                          *)
LEMMA CourseHalt ==
  ASSUME TypeOK, NEW t \in Tasks, Course(t), NEW p \in Pids, HaltEnd(p)
  PROVE  Course(t)'
<1>1. PICK m \in mail : m[2] = p /\ pc' = [u \in Tasks |-> IF u = m[1] /\ pc[u] = "await"
                                                         THEN "halting" ELSE pc[u]]
  BY DEF HaltEnd
<1>2. m[1] = t /\ pc[t] = "await" /\ mail = {m} /\ m = <<t, p>>
  BY <1>1 DEF Course, Alone, TypeOK
<1>3. /\ pc'[t] = "halting" /\ mail' = {} /\ down' = down \ {p}
      /\ \A u \in Tasks \ {t} : pc'[u] = pc[u]
      /\ pst' = [pst EXCEPT ![p] = "halted"] /\ UNCHANGED <<ref, sup, req, had, picked>>
  BY <1>1, <1>2 DEF HaltEnd, Leave, AfterHalt, histVars
<1>4. /\ Alive' = Alive \ {p} /\ Called(t) = {p} /\ Called(t)' = {} /\ Keep(t)' = Keep(t)
      /\ req[t].op # "start"
  BY <1>2, <1>3 DEF TypeOK, Alive, Called, Keep, Key, Course, Starting
<1>5. Alone(t)'
  <2>1. \A q \in down' : pst'[q] = "halting"
    BY <1>3 DEF Course, Alone, TypeOK, Alive
  <2>2. \A q \in Pids : pst'[q] # "crashed"
    BY <1>3 DEF Course, Alone, TypeOK
  <2> QED BY <1>2, <1>3, <2>1, <2>2 DEF Course, Alone
<1>6. Stopping(t)'
  <2>1. picked[t] \subseteq Alive \ {p} /\ Alive \ (picked[t] \cup {p}) = Keep(t)
    BY <1>2, <1>4 DEF Course, Stopping
  <2> QED BY <1>3, <1>4, <2>1 DEF Stopping
<1> QED BY <1>3, <1>4, <1>5, <1>6 DEF Course, Untouched, Starting

LEMMA CleanStep ==
  ASSUME TypeOK, SupOK, HaltingCalled, CleanInv, [Next]_vars, clean' \subseteq Tasks
  PROVE  CleanInv'
<1> SUFFICES ASSUME NEW t \in clean'
             PROVE  Course(t)'
  BY DEF CleanInv
<1>1. t \in Tasks
  OBVIOUS
<1>2. ASSUME NEW u \in Tasks, NEW r \in Requests, Launch(u, r) PROVE Course(t)'
  <2>1. Quiet /\ t = u
    BY <1>2 DEF Launch
  <2> QED BY <1>2, <2>1, CourseLaunch
<1>3. CASE t \in clean
  <2>1. Course(t) /\ Alone(t)
    BY <1>3 DEF CleanInv, Course
  <2>2. ASSUME NEW u \in Tasks, Abort(u), pc[u] \notin Ended \cup {"idle"} PROVE FALSE
    <3>1. u = t
      BY <1>1, <2>1, <2>2, OnlyMover
    <3> QED BY <2>2, <3>1 DEF Abort
  <2>3. ASSUME NEW u \in Tasks,
               \/ Look(u) \/ List(u) \/ Query(u) \/ NotRunning(u) \/ Refused(u) \/ Fetch(u)
               \/ Listed(u)
        PROVE  Course(t)'
    <3>1. pc[u] \notin Ended \cup {"idle"}
      BY <2>3 DEF Look, List, Query, NotRunning, Refused, Fetch, Listed, Ended
    <3>2. u = t
      BY <1>1, <2>1, <3>1, OnlyMover
    <3> QED BY <1>1, <2>1, <2>3, <3>2, CourseAsk
  <2>4. ASSUME NEW u \in Tasks, StartChild(u) PROVE Course(t)'
    <3>1. u = t
      BY <1>1, <2>1, <2>4, OnlyMover DEF StartChild, Ended
    <3> QED BY <1>1, <2>1, <2>4, <3>1, CourseStart
  <2>5. ASSUME NEW u \in Tasks, SendHalt(u) \/ SkipInstance(u) \/ FinishHalts(u)
        PROVE  Course(t)'
    <3>1. pc[u] \notin Ended \cup {"idle"}
      BY <2>5 DEF SendHalt, SkipInstance, FinishHalts, Ended
    <3>2. u = t
      BY <1>1, <2>1, <3>1, OnlyMover
    <3> QED BY <1>1, <2>1, <2>5, <3>2, CourseCall
  <2>6. ASSUME NEW p \in Pids, Register(p) \/ Unregister(p) \/ HealthBegin(p) \/ HealthEnd(p) \/ Kill(p)
        PROVE  Course(t)'
    <3>1. registered = Alive => registered' = registered
      BY <2>6 DEF Register, Unregister, HealthBegin, HealthEnd, Kill, Alive
    <3>2. pst' = pst /\ down' = down /\ UNCHANGED <<pc, ref, mail, sup, req, dup, had, picked>>
      BY <2>6 DEF Register, Unregister, HealthBegin, HealthEnd, Kill, taskVars, histVars
    <3>3. Alive' = Alive /\ \A p1 \in down : pst[p1] = "halting"
      BY <2>1, <3>2 DEF Alive, Alone
    <3> QED BY <1>1, <2>1, <3>1, <3>2, <3>3, CourseFrame
  <2>7. ASSUME NEW p \in Pids, OsExit(p) PROVE Course(t)'
    <3>1. /\ pst[p] = "halting" /\ pst' = pst /\ down' = down \cup {p}
          /\ UNCHANGED <<pc, ref, mail, sup, req, dup, had, picked, registered>>
      BY <2>7 DEF OsExit, taskVars, Alive
    <3>2. Alive' = Alive /\ \A q \in down' : pst'[q] = "halting"
      BY <2>1, <3>1 DEF Alive, Alone
    <3> QED BY <1>1, <2>1, <3>1, <3>2, CourseFrame
  <2>8. ASSUME NEW p \in Pids, HaltBegin(p) PROVE Course(t)'
    <3>1. /\ pst[p] = "up" /\ pst' = [pst EXCEPT ![p] = "halting"] /\ down' = down
          /\ UNCHANGED <<pc, ref, mail, sup, req, dup, had, picked, registered>>
      BY <2>8 DEF HaltBegin, Ready, taskVars, histVars
    <3>2. Alive' = Alive /\ \A q \in Pids : pst'[q] = "crashed" => pst[q] = "crashed"
      BY <3>1 DEF TypeOK, Alive
    <3>3. \A q \in down' : pst'[q] = "halting"
      BY <2>1, <3>1 DEF Alone, TypeOK, Alive
    <3> QED BY <1>1, <2>1, <3>1, <3>2, <3>3, CourseFrame
  <2>9. ASSUME NEW p \in Pids, HaltEnd(p) PROVE Course(t)'
    BY <1>1, <2>1, <2>9, CourseHalt
  <2>10. ASSUME NEW p \in Pids,
                DownNormal(p) \/ DownAbnormal(p) \/ Crash(p) \/ Restart(p) \/ RestartsExhausted
         PROVE  FALSE
    BY <2>1, <2>10 DEF DownNormal, DownAbnormal, Crash, Restart, RestartsExhausted, Ready, Alone
  <2>11. ASSUME InitCheck \/ InitQuery PROVE Course(t)'
    BY <1>1, <2>1, <2>11, CourseInit
  <2>12. ASSUME InitIgnored \/ InitStarts PROVE Course(t)'
    BY <1>1, <2>1, <2>12, CourseStarted
  <2>13. ASSUME InitDies PROVE FALSE
    BY <2>1, <2>13 DEF InitDies, Alone
  <2>14. ASSUME RestartsExhausted PROVE FALSE
    BY <2>14 DEF RestartsExhausted
  <2>15. ASSUME UNCHANGED vars PROVE Course(t)'
    <3>1. Alive' = Alive /\ \A q \in down' : pst'[q] = "halting"
      BY <2>1, <2>15 DEF vars, procVars, Alive, Alone
    <3> QED BY <1>1, <2>1, <2>15, <3>1, CourseFrame DEF vars, procVars, taskVars, histVars
  <2> QED
    BY NextCases, <1>2, <2>2, <2>3, <2>4, <2>5, <2>6, <2>7, <2>8, <2>9, <2>10, <2>11,
       <2>12, <2>13, <2>14, <2>15
<1>4. CASE t \notin clean
  <2>1. \E u \in Tasks, r \in Requests : Launch(u, r)
    BY <1>4, NextCases DEF Abort, Look, List, Query, NotRunning, Refused, Fetch, StartChild,
       StartsInit, Listed, SendHalt, SkipInstance, FinishHalts, Register, Unregister,
       HealthBegin, HealthEnd, HaltBegin, HaltEnd, DownNormal, DownAbnormal, OsExit, Kill,
       Crash, Restart, InitCheck, InitQuery, InitDies, InitIgnored, InitStarts,
       RestartsExhausted, vars, histVars
  <2> QED BY <1>2, <2>1
<1> QED BY <1>3, <1>4

(* A request with nothing else going on keeps to its course.               *)
THEOREM CleanInvariance == Spec => [](HaltingCalled /\ CleanInv)
<1>1. Init => CleanInv
  BY DEF Init, CleanInv
<1>2. TypeOK /\ TypeOK' /\ SupOK /\ HaltingCalled /\ CleanInv /\ [Next]_vars => CleanInv'
  BY CleanStep DEF TypeOK
<1> QED
  BY <1>1, <1>2, HaltingCalledInit, HaltingCalledStep, SupCorrect, PTL DEF Spec

(* The steps with which a request that nothing disturbs completes.         *)
LEMMA CompletingSteps ==
  ASSUME TypeOK, NEW t \in Tasks, Completes(t), Course(t), [Next]_vars
  PROVE  Refused(t) \/ FinishHalts(t) \/ InitIgnored \/ InitStarts
<1>1. /\ pc \in [Tasks -> PCs] /\ pc[t] # "done" /\ pc'[t] = "done"
  BY DEF Completes, TypeOK
<1>2. ASSUME NEW u \in Tasks,
             \/ \E r \in Requests : Launch(u, r)
             \/ Abort(u) \/ Look(u) \/ List(u) \/ Query(u) \/ NotRunning(u)
             \/ Refused(u) \/ Fetch(u) \/ StartChild(u) \/ Listed(u)
             \/ SendHalt(u) \/ SkipInstance(u) \/ FinishHalts(u)
      PROVE  Refused(t) \/ FinishHalts(t)
  <2>1. \A v \in Tasks \ {u} : pc'[v] = pc[v]
    BY <1>1, <1>2 DEF Launch, Abort, Look, List, Query, NotRunning, Refused, Fetch,
       StartChild, Listed, SendHalt, SkipInstance, FinishHalts, Goto
  <2>2. u = t
    BY <1>1, <2>1
  <2> QED
    BY <1>1, <1>2, <2>2 DEF Launch, Abort, Look, List, Query, NotRunning, Fetch,
       StartChild, Listed, SendHalt, SkipInstance, Goto
<1>3. ASSUME pc' = pc PROVE FALSE
  BY <1>1, <1>3
<1>4. ASSUME NEW p \in Pids, HaltEnd(p) PROVE FALSE
  BY <1>1, <1>4 DEF HaltEnd
<1>5. ASSUME InitDies \/ RestartsExhausted PROVE FALSE
  BY <1>1, <1>5 DEF InitDies, RestartsExhausted, Ends
<1> QED
  BY NextCases, <1>2, <1>3, <1>4, <1>5 DEF Register, Unregister, HealthBegin, HealthEnd,
     HaltBegin, DownNormal, DownAbnormal, OsExit, Kill, Crash, Restart, InitCheck, InitQuery,
     vars, taskVars

(* A start that nothing disturbs adds one instance if its provider did not *)
(* run, and none if it did (start_executable_provider, ProviderModule.init)*)
THEOREM StartsAreExact == Spec => UndisturbedStart
<1> DEFINE Exact(t) ==
      LET k == KeyOf[req[t].ref]
      IN  /\ had[t] \subseteq Alive'
          /\ Cardinality(Alive' \ had[t]) = IF \E p \in had[t] : Key(p) = k THEN 0 ELSE 1
          /\ InstancesOf(k)' # {}
<1>1. ASSUME TypeOK, SupOK, CleanInv, [Next]_vars,
             NEW t \in Tasks, Completes(t), req[t].op = "start"
      PROVE  Exact(t)
  <2> DEFINE k == KeyOf[req[t].ref]
  <2>1. Course(t)
    BY <1>1 DEF Completes, CleanInv
  <2>2. ASSUME Alive = had[t], registered = Alive, Alive' = Alive, req' = req,
               \A p \in Alive : ref'[p] = ref[p], Duplicate(req[t].ref)
        PROVE  Exact(t)
    <3>1. PICK p \in Alive : Key(p) = k
      BY <2>2 DEF Duplicate
    <3>2. p \in InstancesOf(k)'
      BY <2>2, <3>1 DEF InstancesOf, Key
    <3>3. Alive' \ had[t] = {}
      BY <2>2
    <3> QED BY <2>2, <3>1, <3>2, <3>3, FS_EmptySet
  <2>3. CASE Refused(t)
    <3>1. /\ pc[t] \in {"checking", "rechecking"} /\ dup[t]
          /\ pst' = pst /\ ref' = ref /\ req' = req
      BY <2>3 DEF Refused, procVars
    <3>2. Alive' = Alive /\ Alive = had[t] /\ registered = Alive
      BY <2>1, <3>1 DEF Course, Untouched, Alive
    <3>3. Duplicate(req[t].ref)
      BY <1>1, <2>1, <3>1 DEF Course, Starting
    <3> QED BY <2>2, <3>1, <3>2, <3>3
  <2>4. CASE FinishHalts(t)
    BY <1>1, <2>1, <2>4 DEF FinishHalts, Course, Starting
  <2>5. ASSUME InitIgnored \/ InitStarts
        PROVE  /\ sup # NoStart /\ sup.by = t /\ sup.new \in Pids /\ pst[sup.new] = "init"
               /\ Alive = had[t] /\ registered = Alive
               /\ ref[sup.new] = req[t].ref /\ (sup.dup <=> Duplicate(req[t].ref))
               /\ ref' = ref /\ req' = req
    <3>1. sup # NoStart /\ sup.at = "query" /\ ref' = ref /\ req' = req
      BY <2>5 DEF InitIgnored, InitStarts, Ends
    <3>2. sup.by = t /\ pc[t] = "starting"
      BY <2>1, <3>1 DEF Course, Alone
    <3>3. sup.new \in Pids /\ pst[sup.new] = "init"
      BY <1>1, <3>1 DEF TypeOK, SupOK, Start
    <3> QED BY <1>1, <2>1, <3>1, <3>2, <3>3 DEF Course, Untouched, Starting
  <2>6. CASE InitIgnored
    <3>1. \A p \in Pids : pst'[p] = IF p = sup.new THEN "gone" ELSE pst[p]
      BY <2>5, <2>6, ProviderAssumption DEF InitIgnored, Ends
    <3>2. Alive' = Alive
      BY <2>5, <2>6, <3>1 DEF Alive
    <3>3. sup.dup
      BY <2>6 DEF InitIgnored
    <3> QED BY <2>2, <2>5, <2>6, <3>2, <3>3
  <2>7. CASE InitStarts
    <3>1. \A p \in Pids : pst'[p] = IF p = sup.new THEN "up" ELSE pst[p]
      BY <2>5, <2>7, ProviderAssumption DEF InitStarts, Ends
    <3>2. Alive' = Alive \cup {sup.new} /\ sup.new \notin Alive
      BY <2>5, <2>7, <3>1 DEF Alive
    <3>3. ~\E p \in had[t] : Key(p) = k
      BY <2>5, <2>7 DEF InitStarts, Duplicate
    <3>4. Alive' \ had[t] = {sup.new}
      BY <2>5, <2>7, <3>2
    <3>5. sup.new \in InstancesOf(k)'
      BY <2>5, <2>7, <3>2 DEF InstancesOf, Key
    <3> QED BY <2>5, <2>7, <3>2, <3>3, <3>4, <3>5, FS_Singleton
  <2> QED BY <1>1, <2>1, <2>3, <2>4, <2>6, <2>7, CompletingSteps
<1>2. TypeOK /\ SupOK /\ CleanInv /\ [Next]_vars =>
        [\A t \in Tasks : Completes(t) /\ req[t].op = "start" => Exact(t)]_vars
  BY <1>1
<1> QED
  BY CleanInvariance, SupCorrect, <1>2, PTL DEF Spec, UndisturbedStart

(* A stop that nothing disturbs leaves exactly the instances of other      *)
(* providers, a stop of all none (terminate_provider, terminate_all).      *)
THEOREM StopsAreExact == Spec => UndisturbedStop
<1>1. ASSUME TypeOK, CleanInv, [Next]_vars, NEW t \in Tasks, Completes(t), req[t].op # "start"
      PROVE  Alive' = Keep(t)
  <2>1. Course(t)
    BY <1>1 DEF Completes, CleanInv
  <2>2. pc[t] \in {"list", "listing", "halting", "await", "done"}
    BY <1>1, <2>1 DEF Course, Stopping
  <2>3. ~InitIgnored /\ ~InitStarts /\ ~Refused(t)
    BY <2>1, <2>2 DEF InitIgnored, InitStarts, Refused, Course, Alone
  <2>4. FinishHalts(t)
    BY <1>1, <2>1, <2>3, CompletingSteps
  <2>5. pc[t] = "halting" /\ picked[t] = {} /\ Alive' = Alive
    BY <2>4 DEF FinishHalts, procVars, Alive
  <2>6. Called(t) = {}
    BY <2>1, <2>5 DEF Course, Alone, Called
  <2> QED BY <1>1, <2>1, <2>5, <2>6 DEF Course, Stopping
<1>2. TypeOK /\ CleanInv /\ [Next]_vars =>
        [\A t \in Tasks : Completes(t) /\ req[t].op # "start" => Alive' = Keep(t)]_vars
  BY <1>1
<1> QED
  BY CleanInvariance, TypeCorrect, <1>2, PTL DEF Spec, UndisturbedStop, Keep
=============================================================================
