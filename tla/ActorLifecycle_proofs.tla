----------------------- MODULE ActorLifecycle_proofs -----------------------
(* Safety of ActorLifecycle for every set of pids, tasks and requests.     *)
EXTENDS ActorLifecycle, FiniteSetTheorems, TLAPS

(* A set of pids has a size.                                               *)
LEMMA PidSetFinite ==
  ASSUME NEW S \in SUBSET Pids
  PROVE  IsFiniteSet(S) /\ Cardinality(S) \in Nat
BY ConstantsAssumption, FS_Subset, FS_CardinalityType

(* The default values Init chooses exist.                                  *)
LEMMA Defaults ==
  /\ (CHOOSE a \in Args : TRUE) \in Args
  /\ (CHOOSE r \in Requests : TRUE) \in Request
<1>1. \E a \in Args : TRUE
  <2>1. PICK ref \in Refs : TRUE
    BY ConstantsAssumption
  <2>2. [ref |-> ref, tags |-> {}] \in Args
    BY <2>1 DEF Args
  <2> QED BY <2>2
<1>2. \E r \in Requests : TRUE
  BY ConstantsAssumption
<1>3. Requests \subseteq Request
  BY ConstantsAssumption
<1> QED BY <1>1, <1>2, <1>3

(* The next-state relation, one disjunct per action of its own.  Whatever  *)
(* makes a request's process exit is Abort.                                *)
LEMMA NextCases ==
  ASSUME [Next]_vars
  PROVE  \/ \E t \in Tasks :
              \/ \E r \in Requests : Launch(t, r)
              \/ Abort(t) /\ pc[t] \notin Ended \cup {"idle"}
              \/ Fetch(t) \/ Check(t)
              \/ StartOne(t) \/ StartIgnored(t) \/ StartDone(t)
              \/ ScaleKeep(t) \/ ScaleDown(t) \/ ScaleUp(t)
              \/ CountAll(t) \/ Snapshot(t) \/ SendHalt(t) \/ SkipInstance(t)
              \/ FinishHalts(t) \/ TerminateSub(t) \/ DeleteSub(t)
         \/ \E p \in Pids : \E t \in Tasks \cup {NoTask} : HandleHalt(t, p)
         \/ \E p \in Pids : \/ Register(p) \/ Unregister(p)
                            \/ InvokeBegin(p) \/ InvokeEnd(p)
                            \/ Crash(p) \/ Restart(p) \/ Resubscribe(p)
         \/ RestartsExhausted \/ VhostRestart \/ NodeStops
         \/ UNCHANGED vars
<1>1. ASSUME NEW t \in Tasks, TaskStep(t) \/ CallFails(t)
      PROVE  \/ Abort(t) /\ pc[t] \notin Ended \cup {"idle"}
             \/ Fetch(t) \/ Check(t)
             \/ StartOne(t) \/ StartIgnored(t) \/ StartDone(t)
             \/ ScaleKeep(t) \/ ScaleDown(t) \/ ScaleUp(t)
             \/ CountAll(t) \/ Snapshot(t) \/ SendHalt(t) \/ SkipInstance(t)
             \/ FinishHalts(t) \/ TerminateSub(t) \/ DeleteSub(t)
  BY <1>1 DEF TaskStep, CallFails, FetchFails, CheckFails, StartFails,
              ScaleRefused, CalleeDied, Ended
<1>2. Next \/ UNCHANGED vars
  OBVIOUS
<1> QED
  BY <1>1, <1>2 DEF Next, Answer, AllServed, InstanceStep

-----------------------------------------------------------------------------
(* Type correctness *)

(* A request record with its op or its ref replaced is one still.          *)
LEMMA RequestUpdate ==
  ASSUME NEW r \in Request, NEW o \in Ops, NEW f \in Refs \cup {NoRef}
  PROVE  /\ [r EXCEPT !.op = o] \in Request /\ [r EXCEPT !.op = o].tags = r.tags
         /\ [r EXCEPT !.op = o].ref = r.ref /\ [r EXCEPT !.op = o].op = o
         /\ [r EXCEPT !.op = o].count = r.count
         /\ [r EXCEPT !.ref = f] \in Request /\ [r EXCEPT !.ref = f].tags = r.tags
         /\ [r EXCEPT !.ref = f].ref = f /\ [r EXCEPT !.ref = f].op = r.op
         /\ [r EXCEPT !.ref = f].count = r.count
BY DEF Request

(* How the two actions that rewrite a request rewrite it.                  *)
LEMMA AbortRequest ==
  ASSUME TypeOK, NEW t \in Tasks, Abort(t)
  PROVE  /\ req' \in [Tasks -> Request]
         /\ \A u \in Tasks : req'[u].tags = req[u].tags /\ req'[u].ref = req[u].ref
         /\ \A u \in Tasks : req'[u].count = req[u].count
         /\ \A u \in Tasks \ {t} : req'[u] = req[u]
         /\ req'[t].op = IF req[t].op = "purge" THEN "terminate" ELSE req[t].op
<1> DEFINE o == IF req[t].op = "purge" THEN "terminate" ELSE req[t].op
<1>1. req \in [Tasks -> Request] /\ req[t] \in Request
  BY DEF TypeOK
<1>2. o \in Ops
  BY <1>1 DEF Request, Ops
<1>3. req' = [req EXCEPT ![t] = [req[t] EXCEPT !.op = o]]
  BY DEF Abort
<1> DEFINE r == [req[t] EXCEPT !.op = o]
<1>4. NoRef \in Refs \cup {NoRef}
  OBVIOUS
<1>5. /\ r \in Request /\ r.tags = req[t].tags /\ r.ref = req[t].ref
      /\ r.count = req[t].count /\ r.op = o
  <2> HIDE DEF o
  <2> QED BY <1>1, <1>2, <1>4, RequestUpdate
<1>6. req' = [req EXCEPT ![t] = r]
  BY <1>3
<1> HIDE DEF r
<1> QED BY <1>1, <1>5, <1>6

LEMMA ScaleUpRequest ==
  ASSUME TypeOK, NEW t \in Tasks, ScaleUp(t)
  PROVE  /\ req' \in [Tasks -> Request]
         /\ \A u \in Tasks : /\ req'[u].tags = req[u].tags /\ req'[u].op = req[u].op
                              /\ req'[u].count = req[u].count
         /\ \A u \in Tasks \ {t} : req'[u] = req[u]
<1>1. req \in [Tasks -> Request] /\ req[t] \in Request /\ req[t].ref \in Refs \cup {NoRef}
  BY DEF TypeOK, Request
<1>2. \A p \in Pids : opts[p].ref \in Refs
  BY DEF TypeOK, Args
<1>3. \A p \in registered : SeenRef(p) \in Refs \cup {NoRef}
  BY <1>2 DEF TypeOK, SeenRef, Up
<1>4. PICK ref \in Refs \cup {NoRef} : req' = [req EXCEPT ![t].ref = ref]
  BY <1>1, <1>3 DEF ScaleUp
<1>5. req' = [req EXCEPT ![t] = [req[t] EXCEPT !.ref = ref]]
  BY <1>4
<1>6. "scale" \in Ops
  BY DEF Ops
<1> DEFINE r == [req[t] EXCEPT !.ref = ref]
<1>7. r \in Request /\ r.tags = req[t].tags /\ r.op = req[t].op /\ r.count = req[t].count
  BY <1>1, <1>4, <1>6, RequestUpdate
<1>8. req' = [req EXCEPT ![t] = r]
  BY <1>5
<1> HIDE DEF r
<1> QED BY <1>1, <1>7, <1>8

(* A task past its fetch holds the reference of an image it has fetched.   *)
RefKnown ==
  \A t \in Tasks : pc[t] \in {"check", "starting", "subscribing"} => req[t].ref \in Refs

(* What the calls to the supervisor of the subscribers leave: the types,   *)
(* nothing new that is undisturbed, and if something still is, the         *)
(* subscriber they were made for.                                          *)
LEMMA SubscribesFacts ==
  ASSUME TypeOK, NEW s \in {"absent", "running", "terminated"}, Subscribes(s)
  PROVE  /\ sub' \in {"absent", "running", "terminated"} /\ subFails' \in Nat
         /\ clean' \subseteq clean /\ (clean' # {} => sub' = s)
         /\ sub' = s \/ subFails' > subFails
BY DEF Subscribes, TypeOK

LEMMA ChildTypes ==
  ASSUME TypeOK
  PROVE  /\ StartChild(sub) \in {"absent", "running", "terminated"}
         /\ RestartChild(sub) \in {"absent", "running", "terminated"}
BY DEF TypeOK, StartChild, RestartChild

(* What a start changes, and what it leaves alone.                         *)
LEMMA BootFacts ==
  ASSUME TypeOK, NEW q \in Pids, NEW a \in Args, Boot(q, a)
  PROVE  /\ pst[q] = "free" /\ \A p \in Pids : pst[p] # "init"
         /\ opts' = [opts EXCEPT ![q] = a] /\ startedEv' \in Nat
         /\ sub' \in {"absent", "running", "terminated"} /\ subFails' \in Nat
         /\ clean' \subseteq clean /\ (clean' # {} => sub' = StartChild(sub))
         /\ sub' = StartChild(sub) \/ subFails' > subFails
         /\ Booted \in {"init", "up"}
BY SubscribesFacts, ChildTypes DEF Boot, Booted, SupervisorFree, TypeOK

LEMMA TypeInit == Init => TypeOK
<1> SUFFICES ASSUME Init PROVE TypeOK
  OBVIOUS
<1>1. PICK P \in SUBSET Pids : Running \in [P -> Args]
  BY ConstantsAssumption
<1>2. DOMAIN Running = P /\ P \subseteq Pids /\ Cardinality(P) \in Nat
  BY <1>1, PidSetFinite
<1>3. opts \in [Pids -> Args]
  BY <1>1, <1>2, Defaults DEF Init
<1>4. req \in [Tasks -> Request]
  BY Defaults DEF Init
<1> QED
  BY <1>2, <1>3, <1>4 DEF Init, TypeOK, PStates, PCs

LEMMA TypeStep == TypeOK /\ RefKnown /\ [Next]_vars => TypeOK'
<1> SUFFICES ASSUME TypeOK, RefKnown, [Next]_vars PROVE TypeOK'
  OBVIOUS
<1> USE DEF TypeOK, PStates, PCs, sysVars, taskVars, evVars, histVars, Goto
<1>1. ASSUME NEW t \in Tasks, NEW r \in Requests, Launch(t, r) PROVE TypeOK'
  <2>1. r \in Request /\ r.count \in Nat
    BY ConstantsAssumption DEF Request
  <2>2. Cardinality(Up) \in Nat
    BY PidSetFinite DEF Up
  <2>3. EntryPoint(r) \in PCs
    BY DEF EntryPoint
  <2> QED
    BY <1>1, <2>1, <2>2, <2>3 DEF Launch
<1>2. ASSUME NEW t \in Tasks, Abort(t) PROVE TypeOK'
  <2>2. req' \in [Tasks -> Request]
    BY <1>2, AbortRequest
  <2>3. mail' \subseteq (Tasks \cup {NoTask}) \X Pids
    BY <1>2 DEF Abort, MailAfterExit
  <2>4. vhost' \in {"up", "busy", "stopping", "down", "gone"}
    BY <1>2 DEF Abort, VhostAfterExit
  <2> QED
    BY <1>2, <2>2, <2>3, <2>4 DEF Abort
<1>3. ASSUME NEW t \in Tasks, Fetch(t) \/ StartDone(t) \/ ScaleKeep(t) \/ StartIgnored(t)
      PROVE  TypeOK'
  BY <1>3 DEF Fetch, StartDone, ScaleKeep, StartIgnored
<1>4. ASSUME NEW t \in Tasks, Check(t) PROVE TypeOK'
  BY <1>4 DEF Check, Iterations
<1>5. ASSUME NEW t \in Tasks, StartOne(t) PROVE TypeOK'
  <2>1. ArgsOf(t) \in Args
    BY <1>5 DEF StartOne, RefKnown, ArgsOf, Args, Request
  <2>2. PICK q \in Pids : Boot(q, ArgsOf(t)) /\ pst' = [pst EXCEPT ![q] = Booted]
    BY <1>5 DEF StartOne
  <2>3. /\ opts' = [opts EXCEPT ![q] = ArgsOf(t)] /\ startedEv' \in Nat
        /\ sub' \in {"absent", "running", "terminated"} /\ subFails' \in Nat
        /\ clean' \subseteq clean /\ Booted \in {"init", "up"}
    BY <2>1, <2>2, BootFacts
  <2> QED BY <1>5, <2>1, <2>2, <2>3 DEF StartOne
<1>6. ASSUME NEW t \in Tasks, ScaleDown(t) PROVE TypeOK'
  <2>1. Cardinality(registered) \in Nat /\ req[t].count \in Nat
    BY PidSetFinite DEF Request
  <2> QED BY <1>6, <2>1 DEF ScaleDown, Diff
<1>7. ASSUME NEW t \in Tasks, ScaleUp(t) PROVE TypeOK'
  <2>1. Cardinality(registered) \in Nat /\ req[t].count \in Nat
    BY PidSetFinite DEF Request
  <2>3. req' \in [Tasks -> Request]
    BY <1>7, ScaleUpRequest
  <2> QED BY <1>7, <2>1, <2>3 DEF ScaleUp, Diff, Missing
<1>8. ASSUME NEW t \in Tasks, CountAll(t) PROVE TypeOK'
  BY <1>8, PidSetFinite DEF CountAll
<1>9. ASSUME NEW t \in Tasks, Snapshot(t) PROVE TypeOK'
  BY <1>9 DEF Snapshot, Picks
<1>10. ASSUME NEW t \in Tasks, SendHalt(t) PROVE TypeOK'
  BY <1>10 DEF SendHalt, AfterSend, Up
<1>11. ASSUME NEW t \in Tasks, SkipInstance(t) PROVE TypeOK'
  BY <1>11 DEF SkipInstance
<1>12. ASSUME NEW t \in Tasks, FinishHalts(t) PROVE TypeOK'
  BY <1>12 DEF FinishHalts
<1>13. ASSUME NEW t \in Tasks, TerminateSub(t) \/ DeleteSub(t) PROVE TypeOK'
  BY <1>13 DEF TerminateSub, DeleteSub, AfterDelete
<1>14. ASSUME NEW p \in Pids, NEW t \in Tasks \cup {NoTask}, HandleHalt(t, p) PROVE TypeOK'
  BY <1>14 DEF HandleHalt, MailWithout
<1>15. ASSUME NEW p \in Pids, Register(p) \/ Unregister(p) \/ InvokeBegin(p) \/ InvokeEnd(p)
       PROVE  TypeOK'
  BY <1>15 DEF Register, Unregister, InvokeBegin, InvokeEnd
<1>16. ASSUME NEW p \in Pids, Crash(p) PROVE TypeOK'
  BY <1>16 DEF Crash, MailWithout
<1>17. ASSUME NEW p \in Pids, Restart(p) PROVE TypeOK'
  <2>1. PICK q \in Pids : /\ Boot(q, opts[p])
                          /\ pst' = [pst EXCEPT ![p] = "gone", ![q] = Booted]
    BY <1>17 DEF Restart
  <2>2. opts[p] \in Args
    OBVIOUS
  <2>3. /\ opts' = [opts EXCEPT ![q] = opts[p]] /\ startedEv' \in Nat
        /\ sub' \in {"absent", "running", "terminated"} /\ subFails' \in Nat
        /\ clean' \subseteq clean /\ Booted \in {"init", "up"}
    BY <2>1, <2>2, BootFacts
  <2> QED BY <1>17, <2>1, <2>2, <2>3 DEF Restart
<1>18. CASE RestartsExhausted \/ VhostRestart \/ NodeStops
  BY <1>18 DEF RestartsExhausted, VhostRestart, NodeStops, Ended
<1>19. CASE UNCHANGED vars
  BY <1>19 DEF vars
<1>20. ASSUME NEW p \in Pids, Resubscribe(p) PROVE TypeOK'
  <2>1. /\ sub' \in {"absent", "running", "terminated"} /\ subFails' \in Nat
        /\ clean' \subseteq clean
    BY <1>20, SubscribesFacts, ChildTypes DEF Resubscribe
  <2> QED BY <1>20, <2>1 DEF Resubscribe
<1> QED
  BY NextCases, <1>1, <1>2, <1>3, <1>4, <1>5, <1>6, <1>7, <1>8, <1>9, <1>10, <1>11,
     <1>12, <1>13, <1>14, <1>15, <1>16, <1>17, <1>18, <1>19, <1>20

LEMMA RefKnownStep == TypeOK /\ RefKnown /\ [Next]_vars => RefKnown'
<1> SUFFICES ASSUME TypeOK, RefKnown, [Next]_vars PROVE RefKnown'
  OBVIOUS
<1> USE DEF TypeOK, RefKnown, sysVars, taskVars, evVars, histVars, Goto
<1>1. ASSUME NEW t \in Tasks, NEW r \in Requests, Launch(t, r) PROVE RefKnown'
  BY <1>1 DEF Launch, EntryPoint
<1>2. ASSUME NEW t \in Tasks, Abort(t) PROVE RefKnown'
  <2>1. \A u \in Tasks : req'[u].ref = req[u].ref
    BY <1>2, AbortRequest
  <2>2. \A u \in Tasks : pc'[u] \in {"check", "starting", "subscribing"} => pc'[u] = pc[u]
    BY <1>2 DEF Abort
  <2> QED BY <2>1, <2>2
<1>3. ASSUME NEW t \in Tasks, ScaleUp(t) PROVE RefKnown'
  <2>1. \A u \in Tasks \ {t} : req'[u] = req[u] /\ pc'[u] = pc[u]
    BY <1>3, ScaleUpRequest DEF ScaleUp
  <2>2. pc'[t] = "fetch"
    BY <1>3 DEF ScaleUp
  <2> QED BY <2>1, <2>2
<1>4. ASSUME NEW t \in Tasks,
             \/ Fetch(t) \/ Check(t) \/ StartOne(t) \/ StartIgnored(t) \/ StartDone(t)
             \/ ScaleKeep(t) \/ ScaleDown(t) \/ CountAll(t) \/ Snapshot(t)
             \/ SendHalt(t) \/ SkipInstance(t) \/ FinishHalts(t)
             \/ TerminateSub(t) \/ DeleteSub(t)
      PROVE  RefKnown'
  BY <1>4 DEF Fetch, Check, StartOne, StartIgnored, StartDone, ScaleKeep, ScaleDown,
              CountAll, Snapshot, SendHalt, AfterSend, SkipInstance, FinishHalts,
              TerminateSub, DeleteSub
<1>5. ASSUME NEW p \in Pids, NEW t \in Tasks \cup {NoTask}, HandleHalt(t, p) PROVE RefKnown'
  BY <1>5 DEF HandleHalt
<1>6. ASSUME NEW p \in Pids,
             \/ Register(p) \/ Unregister(p) \/ InvokeBegin(p) \/ InvokeEnd(p)
             \/ Crash(p) \/ Restart(p) \/ Resubscribe(p)
      PROVE  RefKnown'
  BY <1>6 DEF Register, Unregister, InvokeBegin, InvokeEnd, Crash, Restart, Resubscribe
<1>7. CASE RestartsExhausted \/ VhostRestart \/ NodeStops
  BY <1>7 DEF RestartsExhausted, VhostRestart, NodeStops, Ended
<1>8. CASE UNCHANGED vars
  BY <1>8 DEF vars
<1> QED
  BY NextCases, <1>1, <1>2, <1>3, <1>4, <1>5, <1>6, <1>7, <1>8

(* Every variable keeps its type, whatever requests arrive; what is        *)
(* started has a known reference.                                          *)
THEOREM TypeCorrect == Spec => [](TypeOK /\ RefKnown)
<1>1. Init => RefKnown
  BY DEF Init, RefKnown
<1> QED
  BY <1>1, TypeInit, TypeStep, RefKnownStep, PTL DEF Spec

-----------------------------------------------------------------------------
(* Halting *)

(* Why only matching instances are halted: the request a halt in a mailbox *)
(* comes from cannot change before it is handled, because its task waits   *)
(* for this one answer or has ended; a live instance keeps its arguments.  *)
MailInv ==
  \A m \in mail :
    /\ pst[m[2]] = "up"
    /\ m[1] \in Tasks => /\ pc[m[1]] \in {"await", "failed"}
                         /\ req[m[1]].tags \subseteq opts[m[2]].tags
OneCall == \A m, n \in mail : m[1] = n[1] /\ m[1] \in Tasks => m = n
HaltedInv ==
  \A p \in Pids : haltedBy[p] # NoTask =>
    /\ pst[p] = "halted" /\ pc[haltedBy[p]] # "idle"
    /\ req[haltedBy[p]].tags \subseteq opts[p].tags
HaltInv == MailInv /\ OneCall /\ HaltedInv

LEMMA HaltInit == Init => HaltInv
BY DEF Init, HaltInv, MailInv, OneCall, HaltedInv

LEMMA HaltStep == TypeOK /\ HaltInv /\ [Next]_vars => HaltInv'
<1> SUFFICES ASSUME TypeOK, HaltInv, [Next]_vars PROVE HaltInv'
  OBVIOUS
<1> USE DEF HaltInv, MailInv, OneCall, HaltedInv, sysVars, taskVars, evVars, histVars, Goto
<1>0. /\ pc \in [Tasks -> PCs] /\ req \in [Tasks -> Request]
      /\ pst \in [Pids -> PStates] /\ opts \in [Pids -> Args]
      /\ haltedBy \in [Pids -> Tasks \cup {NoTask}]
      /\ mail \subseteq (Tasks \cup {NoTask}) \X Pids
      /\ NoTask \notin Tasks
  BY ConstantsAssumption DEF TypeOK
<1>1. ASSUME NEW t \in Tasks, NEW r \in Requests, Launch(t, r) PROVE HaltInv'
  <2>1. /\ pc[t] = "idle" /\ pc'[t] # "idle"
        /\ \A u \in Tasks \ {t} : pc'[u] = pc[u] /\ req'[u] = req[u]
        /\ UNCHANGED <<mail, pst, opts, haltedBy>>
    BY <1>1, <1>0 DEF Launch, EntryPoint
  <2> QED BY <2>1, <1>0
<1>2. ASSUME NEW t \in Tasks, Abort(t) PROVE HaltInv'
  <2>1. \A u \in Tasks : req'[u].tags = req[u].tags
    BY <1>2, AbortRequest
  <2>2. \A u \in Tasks \ {t} : pc'[u] = pc[u]
    BY <1>2, <1>0 DEF Abort
  <2>3. /\ pc'[t] = IF req[t].op = "purge" THEN "count" ELSE "failed"
        /\ mail' = MailAfterExit(t) /\ UNCHANGED <<pst, opts, haltedBy>>
    BY <1>2, <1>0 DEF Abort
  <2>4. /\ \A m \in mail' : m[1] \in Tasks => m \in mail
        /\ \A m \in mail' : \E n \in mail : n[2] = m[2]
        /\ req[t].op = "purge" => \A m \in mail' : m[1] # t
    BY <2>3, <1>0 DEF MailAfterExit
  <2>5. MailInv'
    BY <2>1, <2>2, <2>3, <2>4, <1>0
  <2>6. OneCall'
    BY <2>4
  <2>7. HaltedInv'
    BY <2>1, <2>2, <2>3, <1>0
  <2> QED BY <2>5, <2>6, <2>7
<1>3. ASSUME NEW t \in Tasks, SendHalt(t) PROVE HaltInv'
  <2>1. PICK p \in todo[t] \cap Up : Matches(t, p) /\ mail' = mail \cup {<<t, p>>}
    BY <1>3 DEF SendHalt
  <2>2. p \in Pids /\ pst[p] = "up" /\ req[t].tags \subseteq opts[p].tags
    BY <2>1 DEF Matches, Up
  <2>3. \A m \in mail : m[1] # t
    BY <1>3, <1>0 DEF SendHalt
  <2>4. /\ pc'[t] = "await" /\ \A u \in Tasks \ {t} : pc'[u] = pc[u]
        /\ UNCHANGED <<req, pst, opts, haltedBy>>
    BY <1>3, <1>0 DEF SendHalt, AfterSend
  <2> QED BY <2>1, <2>2, <2>3, <2>4, <1>0
<1>4. ASSUME NEW t \in Tasks, ScaleUp(t) PROVE HaltInv'
  <2>1. \A u \in Tasks : req'[u].tags = req[u].tags
    BY <1>4, ScaleUpRequest
  <2>2. /\ pc[t] = "scale" /\ pc'[t] = "fetch" /\ \A u \in Tasks \ {t} : pc'[u] = pc[u]
        /\ UNCHANGED <<mail, pst, opts, haltedBy>>
    BY <1>4, <1>0 DEF ScaleUp
  <2> QED BY <2>1, <2>2, <1>0
<1>5. ASSUME NEW t \in Tasks,
             \/ Fetch(t) \/ Check(t) \/ StartIgnored(t) \/ StartDone(t)
             \/ ScaleKeep(t) \/ ScaleDown(t) \/ CountAll(t) \/ Snapshot(t)
             \/ SkipInstance(t) \/ FinishHalts(t) \/ TerminateSub(t) \/ DeleteSub(t)
      PROVE  HaltInv'
  <2>1. /\ UNCHANGED <<mail, pst, opts, haltedBy, req>>
        /\ pc[t] \notin {"idle", "await", "failed"} /\ pc'[t] # "idle"
        /\ \A u \in Tasks \ {t} : pc'[u] = pc[u]
    BY <1>5, <1>0 DEF Fetch, Check, StartIgnored, StartDone, ScaleKeep, ScaleDown,
         CountAll, Snapshot, SkipInstance, FinishHalts, TerminateSub, DeleteSub
  <2> QED BY <2>1, <1>0
<1>6. ASSUME NEW t \in Tasks, StartOne(t) PROVE HaltInv'
  <2>1. PICK q \in Pids : Boot(q, ArgsOf(t)) /\ pst' = [pst EXCEPT ![q] = Booted]
    BY <1>6 DEF StartOne
  <2>2. /\ pst[q] = "free" /\ opts' = [opts EXCEPT ![q] = ArgsOf(t)]
        /\ UNCHANGED <<mail, req, haltedBy>>
        /\ pc[t] = "starting" /\ pc'[t] \in {"starting", "subscribing"}
        /\ \A u \in Tasks \ {t} : pc'[u] = pc[u]
    BY <1>0, <1>6, <2>1 DEF Boot, StartOne
  <2> QED BY <2>1, <2>2, <1>0
<1>7. ASSUME NEW p \in Pids, Restart(p) PROVE HaltInv'
  <2>1. PICK q \in Pids : Boot(q, opts[p]) /\ pst' = [pst EXCEPT ![p] = "gone", ![q] = Booted]
    BY <1>7 DEF Restart
  <2>2. /\ pst[p] = "crashed" /\ pst[q] = "free" /\ opts' = [opts EXCEPT ![q] = opts[p]]
        /\ UNCHANGED <<mail, pc, req, haltedBy>>
    BY <1>7, <2>1 DEF Boot, Restart
  <2> QED BY <2>1, <2>2, <1>0
<1>8. ASSUME NEW p \in Pids, NEW t \in Tasks \cup {NoTask}, HandleHalt(t, p) PROVE HaltInv'
  <2>1. /\ <<t, p>> \in mail /\ mail' = {m \in mail : m[2] # p}
        /\ pst' = [pst EXCEPT ![p] = "halted"] /\ haltedBy' = [haltedBy EXCEPT ![p] = t]
        /\ UNCHANGED <<req, opts>>
        /\ \A u \in Tasks : pc'[u] = IF u = t /\ pc[u] = "await" THEN "halting" ELSE pc[u]
    BY <1>8 DEF HandleHalt, MailWithout
  <2>2. t \in Tasks => \A m \in mail' : m[1] # t
    BY <2>1, <1>0
  <2>3. MailInv' /\ OneCall'
    BY <2>1, <2>2, <1>0
  <2>4. HaltedInv'
    BY <2>1, <1>0
  <2> QED BY <2>3, <2>4
<1>9. ASSUME NEW p \in Pids, Crash(p) PROVE HaltInv'
  BY <1>9, <1>0 DEF Crash, MailWithout
<1>10. ASSUME NEW p \in Pids, Register(p) \/ Unregister(p) \/ InvokeBegin(p) \/ InvokeEnd(p)
       PROVE  HaltInv'
  BY <1>10, <1>0 DEF Register, Unregister, InvokeBegin, InvokeEnd
<1>11. CASE RestartsExhausted \/ VhostRestart
  BY <1>11, <1>0 DEF RestartsExhausted, VhostRestart
<1>12. CASE UNCHANGED vars
  BY <1>12 DEF vars
<1>13. CASE NodeStops
  <2>1. /\ mail' = {} /\ UNCHANGED <<req, opts, haltedBy>>
        /\ \A p \in Pids : pst[p] = "halted" => pst'[p] = "halted"
        /\ \A u \in Tasks : pc[u] # "idle" => pc'[u] # "idle"
    BY <1>13, <1>0 DEF NodeStops
  <2> QED BY <2>1, <1>0
<1>14. ASSUME NEW p \in Pids, Resubscribe(p) PROVE HaltInv'
  <2>1. /\ pst[p] = "init" /\ pst' = [pst EXCEPT ![p] = "up"]
        /\ UNCHANGED <<mail, req, opts, haltedBy>>
        /\ \A u \in Tasks : pc'[u] = IF pc[u] = "subscribing" THEN "starting" ELSE pc[u]
    BY <1>14 DEF Resubscribe
  <2> QED BY <2>1, <1>0
<1> QED
  BY NextCases, <1>1, <1>2, <1>3, <1>4, <1>5, <1>6, <1>7, <1>8, <1>9, <1>10, <1>11, <1>12,
     <1>13, <1>14

(* Overlapping requests, late halts, crashes and restarts never make a     *)
(* request halt an instance that lacks one of its annotations.             *)
THEOREM OnlyMatchingHalted == Spec => []HaltsMatchAnnotations
<1>1. HaltInv => HaltsMatchAnnotations
  BY DEF HaltInv, HaltedInv, HaltsMatchAnnotations
<1> QED
  BY <1>1, HaltInit, HaltStep, TypeCorrect, PTL DEF Spec

(* No request goes on to the subscriber, or answers, while a halt it sent  *)
(* is still in a mailbox.                                                  *)
THEOREM HaltsAreSynchronous == Spec => []HaltBeforeUnsubscribe
<1>1. HaltInv => HaltBeforeUnsubscribe
  BY DEF HaltInv, MailInv, HaltBeforeUnsubscribe
<1> QED
  BY <1>1, HaltInit, HaltStep, TypeCorrect, PTL DEF Spec

-----------------------------------------------------------------------------
(* The RPC subscriber *)

(* An instance comes up with the subscriber running, unless the supervisor *)
(* of the subscribers refused it or a stop removed the terminated one      *)
(* between the two calls (start_or_reuse_consumer_supervisor).             *)
THEOREM EveryStartSubscribes == Spec => StartsSubscribed
<1> DEFINE Subscribed(p) == \/ sub' = "running"
                            \/ subFails' > subFails
                            \/ pst[p] = "init" /\ sub = "absent"
<1>1. ASSUME TypeOK, RefKnown, [Next]_vars, NEW p \in Pids, pst[p] # "up", pst'[p] = "up"
      PROVE  Subscribed(p)
  <2>1. \/ \E t \in Tasks : StartOne(t)
        \/ \E q \in Pids : Restart(q)
        \/ Resubscribe(p)
        \/ pst'[p] # "up"
    <3>1. ASSUME NEW t \in Tasks,
                 \/ \E r \in Requests : Launch(t, r)
                 \/ Abort(t) \/ Fetch(t) \/ Check(t) \/ StartIgnored(t) \/ StartDone(t)
                 \/ ScaleKeep(t) \/ ScaleDown(t) \/ ScaleUp(t) \/ CountAll(t) \/ Snapshot(t)
                 \/ SendHalt(t) \/ SkipInstance(t) \/ FinishHalts(t)
                 \/ TerminateSub(t) \/ DeleteSub(t)
          PROVE  pst' = pst
      BY <3>1 DEF Launch, Abort, Fetch, Check, StartIgnored, StartDone, ScaleKeep,
         ScaleDown, ScaleUp, CountAll, Snapshot, SendHalt, SkipInstance, FinishHalts,
         TerminateSub, DeleteSub, sysVars
    <3>2. ASSUME NEW q \in Pids, \/ Register(q) \/ Unregister(q) \/ InvokeBegin(q)
                                  \/ InvokeEnd(q)
          PROVE  pst' = pst
      BY <3>2 DEF Register, Unregister, InvokeBegin, InvokeEnd
    <3>3. VhostRestart \/ UNCHANGED vars => pst' = pst
      BY DEF VhostRestart, vars, sysVars
    <3>4. ASSUME NEW q \in Pids, Crash(q) \/ (\E t \in Tasks \cup {NoTask} : HandleHalt(t, q))
          PROVE  pst'[p] = "up" => pst[p] = "up"
      BY <1>1, <3>4 DEF Crash, HandleHalt, TypeOK
    <3>5. RestartsExhausted \/ NodeStops => (pst'[p] = "up" => pst[p] = "up")
      BY <1>1 DEF RestartsExhausted, NodeStops
    <3>6. ASSUME NEW q \in Pids, Resubscribe(q) PROVE q = p
      BY <1>1, <3>6 DEF Resubscribe, TypeOK
    <3> QED BY <1>1, <3>1, <3>2, <3>3, <3>4, <3>5, <3>6, NextCases
  <2>2. ASSUME NEW q \in Pids, NEW a, Boot(q, a), Booted = "up" PROVE Subscribed(p)
    <3>1. Subscribes(StartChild(sub)) /\ sub \in {"absent", "running"}
      BY <1>1, <2>2 DEF Boot, Booted, TypeOK
    <3>2. StartChild(sub) = "running"
      BY <3>1 DEF StartChild
    <3> QED BY <1>1, <3>1, <3>2, SubscribesFacts
  <2>3. ASSUME NEW t \in Tasks, StartOne(t) PROVE Subscribed(p)
    <3>1. PICK q \in Pids : Boot(q, ArgsOf(t)) /\ pst' = [pst EXCEPT ![q] = Booted]
      BY <2>3 DEF StartOne
    <3>2. Booted = "up"
      BY <1>1, <3>1 DEF TypeOK
    <3> QED BY <2>2, <3>1, <3>2
  <2>4. ASSUME NEW r \in Pids, Restart(r) PROVE Subscribed(p)
    <3>1. PICK q \in Pids : /\ Boot(q, opts[r])
                            /\ pst' = [pst EXCEPT ![r] = "gone", ![q] = Booted]
      BY <2>4 DEF Restart
    <3>2. Booted = "up"
      BY <1>1, <3>1 DEF TypeOK
    <3> QED BY <2>2, <3>1, <3>2
  <2>5. CASE Resubscribe(p)
    <3>1. Subscribes(RestartChild(sub)) /\ pst[p] = "init"
      BY <2>5 DEF Resubscribe
    <3>2. sub # "absent" => RestartChild(sub) = "running"
      BY <1>1 DEF RestartChild, TypeOK
    <3> QED BY <1>1, <3>1, <3>2, SubscribesFacts, ChildTypes
  <2> QED BY <1>1, <2>1, <2>3, <2>4, <2>5
<1>2. TypeOK /\ RefKnown /\ [Next]_vars =>
        [\A p \in Pids : pst[p] # "up" /\ pst'[p] = "up" => Subscribed(p)]_vars
  BY <1>1
<1> QED
  BY <1>2, TypeCorrect, PTL DEF Spec, StartsSubscribed

-----------------------------------------------------------------------------
(* Events *)

LEMMA EventsStep == TypeOK /\ HaltInv /\ EventsMatchInstances /\ [Next]_vars => EventsMatchInstances'
<1> SUFFICES ASSUME TypeOK, HaltInv, EventsMatchInstances, [Next]_vars
             PROVE  EventsMatchInstances'
  OBVIOUS
<1> DEFINE Begun == {p \in Pids : pst[p] \notin {"free", "init"}}
           Halted == {p \in Pids : pst[p] = "halted"}
<1>1. /\ IsFiniteSet(Begun) /\ IsFiniteSet(Halted) /\ pst \in [Pids -> PStates]
      /\ startedEv = Cardinality(Begun) /\ stoppedEv = Cardinality(Halted)
  BY PidSetFinite DEF EventsMatchInstances, TypeOK
<1>2. ASSUME Begun' = Begun, Halted' = Halted, UNCHANGED evVars
      PROVE  EventsMatchInstances'
  BY <1>1, <1>2 DEF EventsMatchInstances, evVars
<1>3. ASSUME NEW q \in Pids, pst[q] \in {"free", "init"}, Begun' = Begun \cup {q}, Halted' = Halted,
             startedEv' = startedEv + 1, stoppedEv' = stoppedEv
      PROVE  EventsMatchInstances'
  <2>1. q \notin Begun
    BY <1>3
  <2>2. Cardinality(Begun') = Cardinality(Begun) + 1
    BY <1>1, <1>3, <2>1, FS_AddElement
  <2> QED BY <1>1, <1>3, <2>2 DEF EventsMatchInstances
<1>4. ASSUME NEW t \in Tasks, StartOne(t) PROVE EventsMatchInstances'
  <2>1. PICK q \in Pids : Boot(q, ArgsOf(t)) /\ pst' = [pst EXCEPT ![q] = Booted]
    BY <1>4 DEF StartOne
  <2>2. pst[q] = "free" /\ stoppedEv' = stoppedEv
    BY <1>4, <2>1 DEF StartOne, Boot
  <2>3. CASE Booted = "up"
    <3>1. Begun' = Begun \cup {q} /\ Halted' = Halted /\ startedEv' = startedEv + 1
      BY <1>1, <2>1, <2>2, <2>3 DEF Boot
    <3> QED BY <1>3, <2>2, <3>1
  <2>4. CASE Booted = "init"
    <3>1. Begun' = Begun /\ Halted' = Halted /\ startedEv' = startedEv
      BY <1>1, <2>1, <2>2, <2>4 DEF Boot
    <3> QED BY <1>2, <2>2, <3>1 DEF evVars
  <2> QED BY <2>3, <2>4 DEF Booted
<1>5. ASSUME NEW p \in Pids, Restart(p) PROVE EventsMatchInstances'
  <2>1. PICK q \in Pids : Boot(q, opts[p]) /\ pst' = [pst EXCEPT ![p] = "gone", ![q] = Booted]
    BY <1>5 DEF Restart
  <2>2. pst[q] = "free" /\ pst[p] = "crashed" /\ stoppedEv' = stoppedEv
    BY <1>5, <2>1 DEF Restart, Boot
  <2>3. CASE Booted = "up"
    <3>1. Begun' = Begun \cup {q} /\ Halted' = Halted /\ startedEv' = startedEv + 1
      BY <1>1, <2>1, <2>2, <2>3 DEF Boot
    <3> QED BY <1>3, <2>2, <3>1
  <2>4. CASE Booted = "init"
    <3>1. Begun' = Begun /\ Halted' = Halted /\ startedEv' = startedEv
      BY <1>1, <2>1, <2>2, <2>4 DEF Boot
    <3> QED BY <1>2, <2>2, <3>1 DEF evVars
  <2> QED BY <2>3, <2>4 DEF Booted
<1>6. ASSUME NEW p \in Pids, NEW t \in Tasks \cup {NoTask}, HandleHalt(t, p)
      PROVE  EventsMatchInstances'
  <2>1. pst[p] = "up"
    BY <1>6 DEF HandleHalt, HaltInv, MailInv
  <2>2. /\ pst' = [pst EXCEPT ![p] = "halted"]
        /\ stoppedEv' = stoppedEv + 1 /\ startedEv' = startedEv
    BY <1>6 DEF HandleHalt
  <2>3. Begun' = Begun /\ Halted' = Halted \cup {p} /\ p \notin Halted
    BY <1>1, <2>1, <2>2
  <2>4. Cardinality(Halted') = Cardinality(Halted) + 1
    BY <1>1, <2>3, FS_AddElement
  <2> QED BY <1>1, <2>2, <2>3, <2>4 DEF EventsMatchInstances
<1>7. ASSUME NEW p \in Pids, Crash(p) PROVE EventsMatchInstances'
  <2>1. Begun' = Begun /\ Halted' = Halted
    BY <1>1, <1>7 DEF Crash
  <2> QED BY <1>2, <1>7, <2>1 DEF Crash
<1>8. CASE RestartsExhausted \/ NodeStops
  <2>1. Begun' = Begun /\ Halted' = Halted
    BY <1>1, <1>8 DEF RestartsExhausted, NodeStops, PStates
  <2> QED BY <1>2, <1>8, <2>1 DEF RestartsExhausted, NodeStops
<1>9. ASSUME pst' = pst, UNCHANGED evVars PROVE EventsMatchInstances'
  BY <1>2, <1>9
<1>10. ASSUME NEW t \in Tasks,
             \/ \E r \in Requests : Launch(t, r)
             \/ Abort(t) \/ Fetch(t) \/ Check(t) \/ StartIgnored(t) \/ StartDone(t)
             \/ ScaleKeep(t) \/ ScaleDown(t) \/ ScaleUp(t) \/ CountAll(t) \/ Snapshot(t)
             \/ SendHalt(t) \/ SkipInstance(t) \/ FinishHalts(t)
             \/ TerminateSub(t) \/ DeleteSub(t)
      PROVE  EventsMatchInstances'
  BY <1>9, <1>10 DEF Launch, Abort, Fetch, Check, StartIgnored, StartDone, ScaleKeep,
     ScaleDown, ScaleUp, CountAll, Snapshot, SendHalt, SkipInstance, FinishHalts,
     TerminateSub, DeleteSub, sysVars
<1>11. ASSUME NEW p \in Pids, Register(p) \/ Unregister(p) \/ InvokeBegin(p) \/ InvokeEnd(p)
       PROVE  EventsMatchInstances'
  BY <1>9, <1>11 DEF Register, Unregister, InvokeBegin, InvokeEnd
<1>12. CASE VhostRestart \/ UNCHANGED vars
  BY <1>9, <1>12 DEF VhostRestart, vars, sysVars
<1>13. ASSUME NEW p \in Pids, Resubscribe(p) PROVE EventsMatchInstances'
  <2>1. /\ pst[p] = "init" /\ pst' = [pst EXCEPT ![p] = "up"]
        /\ startedEv' = startedEv + 1 /\ stoppedEv' = stoppedEv
    BY <1>13 DEF Resubscribe
  <2>2. Begun' = Begun \cup {p} /\ Halted' = Halted
    BY <1>1, <2>1
  <2> QED BY <1>3, <2>1, <2>2
<1> QED
  BY NextCases, <1>4, <1>5, <1>6, <1>7, <1>8, <1>10, <1>11, <1>12, <1>13

(* Of each instance actor_started is published once, and actor_stopped     *)
(* once if it was halted and else never (init, halt_and_cleanup), whatever *)
(* requests, crashes and restarts come together.                           *)
THEOREM EventsMatch == Spec => []EventsMatchInstances
<1>1. Init => EventsMatchInstances
  <2> SUFFICES ASSUME Init PROVE EventsMatchInstances
    OBVIOUS
  <2>1. DOMAIN Running \subseteq Pids
    BY ConstantsAssumption
  <2>2. /\ {p \in Pids : pst[p] \notin {"free", "init"}} = DOMAIN Running
        /\ {p \in Pids : pst[p] = "halted"} = {}
    BY <2>1 DEF Init
  <2> QED BY <2>2, FS_EmptySet DEF Init, EventsMatchInstances
<1> QED
  BY <1>1, EventsStep, HaltInit, HaltStep, TypeCorrect, PTL DEF Spec

-----------------------------------------------------------------------------
(* How many are halted *)

(* The instances whose mailbox holds a call of a request.                  *)
Called(t) == {p \in Pids : <<t, p>> \in mail}

(* Those it picked and did not skip: still to be called, called, or halted.*)
Claimed(t) == todo[t] \cup Called(t) \cup HaltedBy(t)

(* Program points at which a request has not picked instances yet, and     *)
(* those among them that a stop of some never comes to.                    *)
Deciding == {"fetch", "check", "starting", "subscribing", "scale", "count"}
Unpicked == Deciding \cup {"idle", "snapshot"}

(* A request claims no more than it set out to halt, which for a stop of   *)
(* some is what was asked.                                                 *)
Budget(t) ==
  /\ pc[t] = "idle" => Claimed(t) = {}
  /\ pc[t] # "idle" /\ req[t].op \in {"stop", "scale"} =>
       /\ pc[t] \in Unpicked => Claimed(t) = {}
       /\ Cardinality(Claimed(t)) <= want[t]
  /\ pc[t] # "idle" /\ req[t].op = "stop" /\ req[t].count > 0 =>
       want[t] = req[t].count /\ pc[t] \notin Deciding

BudgetInv == \A t \in Tasks : Budget(t)

LEMMA ClaimedFinite ==
  ASSUME TypeOK, NEW t \in Tasks
  PROVE  /\ Claimed(t) \subseteq Pids /\ IsFiniteSet(Claimed(t))
         /\ \A S \in SUBSET Claimed(t) : Cardinality(S) <= Cardinality(Claimed(t))
         /\ Cardinality(Claimed(t)) \in Nat
<1>1. Claimed(t) \subseteq Pids
  BY DEF TypeOK, Claimed, Called, HaltedBy
<1> QED BY <1>1, PidSetFinite, FS_Subset

(* A step that has a request claim nothing new, and keeps what it asks.    *)
LEMMA BudgetKept ==
  ASSUME TypeOK, TypeOK', NEW t \in Tasks, Budget(t),
         Claimed(t)' \subseteq Claimed(t),
         pc'[t] = "idle" <=> pc[t] = "idle",
         pc'[t] \in Unpicked => pc[t] \in Unpicked,
         req'[t].op \in {"stop", "scale"} =>
           /\ req'[t].op = req[t].op /\ req'[t].count = req[t].count /\ want'[t] = want[t]
           /\ pc'[t] \in Deciding => pc[t] \in Deciding
  PROVE  Budget(t)'
<1>1. Cardinality(Claimed(t)') <= Cardinality(Claimed(t)) /\ Cardinality(Claimed(t)') \in Nat
      /\ Cardinality(Claimed(t)) \in Nat /\ want[t] \in Nat
  <2>1. Claimed(t)' \subseteq Pids
    BY ClaimedFinite
  <2> QED BY <2>1, ClaimedFinite, PidSetFinite DEF TypeOK
<1>2. (pc[t] = "idle" => Claimed(t) = {})' 
  BY DEF Budget
<1>3. ASSUME pc'[t] # "idle", req'[t].op \in {"stop", "scale"}
      PROVE  /\ pc'[t] \in Unpicked => Claimed(t)' = {}
             /\ Cardinality(Claimed(t)') <= want'[t]
  BY <1>1, <1>3 DEF Budget
<1>4. ASSUME pc'[t] # "idle", req'[t].op = "stop", req'[t].count > 0
      PROVE  want'[t] = req'[t].count /\ pc'[t] \notin Deciding
  BY <1>4 DEF Budget
<1> QED BY <1>2, <1>3, <1>4 DEF Budget

(* A request that has picked nothing yet may change its mind.              *)
LEMMA BudgetUnpicked ==
  ASSUME TypeOK', NEW t \in Tasks, Claimed(t)' = {}, pc'[t] # "idle",
         req'[t].op = "stop" /\ req'[t].count > 0 =>
           want'[t] = req'[t].count /\ pc'[t] \notin Deciding
  PROVE  Budget(t)'
<1>1. want'[t] \in Nat
  BY DEF TypeOK
<1> QED BY <1>1, FS_EmptySet DEF Budget

LEMMA BudgetInit == Init => BudgetInv
<1> SUFFICES ASSUME Init, NEW t \in Tasks
             PROVE  Claimed(t) = {}
  BY DEF Init, BudgetInv, Budget
<1>1. NoTask \notin Tasks
  BY ConstantsAssumption
<1> QED BY <1>1 DEF Init, Claimed, Called, HaltedBy

LEMMA BudgetStep ==
  ASSUME TypeOK, TypeOK', HaltInv, BudgetInv, [Next]_vars
  PROVE  BudgetInv'
<1> USE DEF sysVars, taskVars, evVars, histVars, Goto
<1>0. /\ pc \in [Tasks -> PCs] /\ req \in [Tasks -> Request] /\ want \in [Tasks -> Nat]
      /\ todo \in [Tasks -> SUBSET Pids] /\ haltedBy \in [Pids -> Tasks \cup {NoTask}]
      /\ mail \subseteq (Tasks \cup {NoTask}) \X Pids
      /\ NoTask \notin Tasks /\ \A u \in Tasks : Budget(u)
  BY ConstantsAssumption DEF TypeOK, BudgetInv
<1>1. ASSUME NEW u \in Tasks, UNCHANGED <<pc[u], req[u], want[u]>>, Claimed(u)' \subseteq Claimed(u)
      PROVE  Budget(u)'
  BY <1>0, <1>1, BudgetKept
<1>2. ASSUME NEW t \in Tasks, NEW r \in Requests, Launch(t, r) PROVE BudgetInv'
  <2>1. ASSUME NEW u \in Tasks PROVE Claimed(u)' = Claimed(u)
    BY <1>2 DEF Launch, Claimed, Called, HaltedBy
  <2>2. ASSUME NEW u \in Tasks \ {t} PROVE Budget(u)'
    <3>1. UNCHANGED <<pc[u], req[u], want[u]>>
      BY <1>0, <1>2 DEF Launch
    <3> QED BY <1>1, <2>1, <3>1
  <2>3. Budget(t)'
    <3>1. Claimed(t)' = {}
      BY <1>0, <1>2, <2>1 DEF Launch, Budget
    <3>2. pc'[t] = EntryPoint(r) /\ req'[t] = r /\ want'[t] = r.count
      BY <1>0, <1>2 DEF Launch
    <3> QED BY <3>1, <3>2, BudgetUnpicked DEF EntryPoint, Deciding
  <2> QED BY <2>2, <2>3 DEF BudgetInv
<1>3. ASSUME NEW t \in Tasks, Abort(t), pc[t] \notin Ended \cup {"idle"} PROVE BudgetInv'
  <2>1. \A m \in mail' : m[1] \in Tasks => m \in mail
    BY <1>0, <1>3 DEF Abort, MailAfterExit
  <2>2. ASSUME NEW u \in Tasks PROVE Claimed(u)' \subseteq Claimed(u)
    <3>1. Called(u)' \subseteq Called(u)
      BY <2>1 DEF Called
    <3>2. todo'[u] \subseteq todo[u] /\ haltedBy' = haltedBy
      BY <1>0, <1>3 DEF Abort
    <3> QED BY <3>1, <3>2 DEF Claimed, HaltedBy
  <2>3. ASSUME NEW u \in Tasks \ {t} PROVE Budget(u)'
    <3>1. UNCHANGED <<pc[u], req[u], want[u]>>
      BY <1>0, <1>3, AbortRequest DEF Abort
    <3> QED BY <1>1, <2>2, <3>1
  <2>4. Budget(t)'
    <3>1. /\ req'[t].count = req[t].count /\ want' = want
          /\ req'[t].op = IF req[t].op = "purge" THEN "terminate" ELSE req[t].op
      BY <1>3, AbortRequest DEF Abort
    <3>2. pc'[t] = IF req[t].op = "purge" THEN "count" ELSE "failed"
      BY <1>0, <1>3 DEF Abort
    <3>3. CASE req[t].op = "purge"
      BY <3>1, <3>2, <3>3 DEF Budget
    <3>4. CASE req[t].op # "purge"
      BY <1>0, <1>3, <2>2, <3>1, <3>2, <3>4, BudgetKept DEF Unpicked, Deciding, Ended
    <3> QED BY <3>3, <3>4
  <2> QED BY <2>3, <2>4 DEF BudgetInv
<1>4. ASSUME NEW t \in Tasks,
             \/ Fetch(t) \/ Check(t) \/ StartOne(t) \/ StartIgnored(t) \/ StartDone(t)
             \/ ScaleKeep(t) \/ ScaleDown(t) \/ ScaleUp(t) \/ CountAll(t)
      PROVE  BudgetInv'
  <2>1. ASSUME NEW u \in Tasks PROVE Claimed(u)' = Claimed(u)
    BY <1>4 DEF Fetch, Check, StartOne, StartIgnored, StartDone, ScaleKeep, ScaleDown,
       ScaleUp, CountAll, Claimed, Called, HaltedBy
  <2>2. /\ \A u \in Tasks \ {t} : UNCHANGED <<pc[u], req[u], want[u]>>
        /\ req'[t].op = req[t].op /\ req'[t].count = req[t].count
    <3>1. CASE ScaleUp(t)
      BY <1>0, <3>1, ScaleUpRequest DEF ScaleUp
    <3>2. CASE ~ScaleUp(t)
      BY <1>0, <1>4, <3>2 DEF Fetch, Check, StartOne, StartIgnored, StartDone, ScaleKeep,
         ScaleDown, CountAll
    <3> QED BY <3>1, <3>2
  <2>3. pc[t] \in Deciding /\ pc'[t] # "idle"
    BY <1>0, <1>4 DEF Fetch, Check, StartOne, StartIgnored, StartDone, ScaleKeep,
       ScaleDown, ScaleUp, CountAll, Deciding
  <2>4. Budget(t)'
    <3>1. CASE req[t].op \in {"stop", "scale"}
      <4>1. Claimed(t)' = {} /\ ~(req[t].op = "stop" /\ req[t].count > 0)
        BY <1>0, <2>1, <2>3, <3>1 DEF Budget, Unpicked, Deciding
      <4> QED BY <2>2, <2>3, <4>1, BudgetUnpicked
    <3>2. CASE req[t].op \notin {"stop", "scale"}
      BY <2>2, <2>3, <3>2 DEF Budget
    <3> QED BY <3>1, <3>2
  <2> QED BY <1>1, <2>1, <2>2, <2>4 DEF BudgetInv
<1>5. ASSUME NEW t \in Tasks, Snapshot(t) PROVE BudgetInv'
  <2>1. PICK S \in Picks(t) : todo' = [todo EXCEPT ![t] = S]
    BY <1>5 DEF Snapshot
  <2>2. /\ pc[t] = "snapshot" /\ pc'[t] = "halting" /\ UNCHANGED <<mail, req, want, haltedBy>>
        /\ \A u \in Tasks \ {t} : pc'[u] = pc[u] /\ todo'[u] = todo[u]
        /\ todo'[t] = S
    BY <1>0, <1>5, <2>1 DEF Snapshot
  <2>3. ASSUME NEW u \in Tasks \ {t} PROVE Budget(u)'
    <3>1. Claimed(u)' = Claimed(u)
      BY <2>2 DEF Claimed, Called, HaltedBy
    <3> QED BY <1>1, <2>2, <3>1
  <2>4. Cardinality(S) <= want[t]
    <3>1. Cardinality(S) = Least(want[t], Cardinality(registered)) /\ registered \subseteq Pids
      BY <2>1 DEF Picks, TypeOK
    <3> QED BY <1>0, <3>1, PidSetFinite DEF Least
  <2>5. Budget(t)'
    <3>1. CASE req[t].op \in {"stop", "scale"}
      <4>1. Claimed(t) = {}
        BY <1>0, <2>2, <3>1 DEF Budget, Unpicked
      <4>2. Claimed(t)' = S
        BY <2>2, <4>1 DEF Claimed, Called, HaltedBy
      <4> QED BY <1>0, <2>2, <2>4, <4>2 DEF Budget, Unpicked, Deciding
    <3>2. CASE req[t].op \notin {"stop", "scale"}
      BY <2>2, <3>2 DEF Budget
    <3> QED BY <3>1, <3>2
  <2> QED BY <2>3, <2>5 DEF BudgetInv
<1>6. ASSUME NEW t \in Tasks, SendHalt(t) PROVE BudgetInv'
  <2>1. PICK p \in todo[t] \cap Up : /\ todo' = [todo EXCEPT ![t] = @ \ {p}]
                                     /\ mail' = mail \cup {<<t, p>>}
    BY <1>6 DEF SendHalt
  <2>2. /\ pc[t] = "halting" /\ pc'[t] = "await" /\ UNCHANGED <<req, want, haltedBy>>
        /\ \A u \in Tasks \ {t} : pc'[u] = pc[u] /\ todo'[u] = todo[u]
        /\ todo'[t] = todo[t] \ {p}
    BY <1>0, <1>6, <2>1 DEF SendHalt, AfterSend
  <2>3. ASSUME NEW u \in Tasks PROVE Claimed(u)' \subseteq Claimed(u)
    BY <2>1, <2>2 DEF Claimed, Called, HaltedBy
  <2>4. Budget(t)'
    BY <1>0, <2>2, <2>3, BudgetKept DEF Unpicked, Deciding
  <2> QED BY <1>1, <2>2, <2>3, <2>4 DEF BudgetInv
<1>7. ASSUME NEW t \in Tasks, SkipInstance(t) \/ FinishHalts(t) \/ TerminateSub(t) \/ DeleteSub(t)
      PROVE  BudgetInv'
  <2>1. /\ pc[t] \in {"halting", "unsub", "delete"}
        /\ pc'[t] \in {"halting", "unsub", "delete", "done"}
        /\ UNCHANGED <<req, want, mail, haltedBy>>
        /\ \A u \in Tasks : todo'[u] \subseteq todo[u]
        /\ \A u \in Tasks \ {t} : pc'[u] = pc[u]
    BY <1>0, <1>7 DEF SkipInstance, FinishHalts, TerminateSub, DeleteSub
  <2>2. ASSUME NEW u \in Tasks PROVE Claimed(u)' \subseteq Claimed(u)
    BY <2>1 DEF Claimed, Called, HaltedBy
  <2>3. Budget(t)'
    BY <1>0, <2>1, <2>2, BudgetKept DEF Unpicked, Deciding
  <2> QED BY <1>1, <2>1, <2>2, <2>3 DEF BudgetInv
<1>8. ASSUME NEW p \in Pids, NEW t \in Tasks \cup {NoTask}, HandleHalt(t, p) PROVE BudgetInv'
  <2>1. /\ <<t, p>> \in mail /\ mail' \subseteq mail
        /\ haltedBy' = [haltedBy EXCEPT ![p] = t] /\ UNCHANGED <<req, want, todo>>
        /\ \A u \in Tasks : pc'[u] = IF u = t /\ pc[u] = "await" THEN "halting" ELSE pc[u]
    BY <1>8 DEF HandleHalt, MailWithout
  <2>2. ASSUME NEW u \in Tasks PROVE Claimed(u)' \subseteq Claimed(u)
    BY <1>0, <2>1 DEF Claimed, Called, HaltedBy
  <2>3. ASSUME NEW u \in Tasks PROVE Budget(u)'
    BY <1>0, <2>1, <2>2, BudgetKept DEF Unpicked, Deciding
  <2> QED BY <2>3 DEF BudgetInv
<1>9. ASSUME UNCHANGED <<pc, req, want, todo, haltedBy>>, mail' \subseteq mail PROVE BudgetInv'
  <2>1. ASSUME NEW u \in Tasks PROVE Claimed(u)' \subseteq Claimed(u)
    BY <1>9 DEF Claimed, Called, HaltedBy
  <2> QED BY <1>1, <1>9, <2>1 DEF BudgetInv
<1>10. ASSUME NEW p \in Pids, \/ Register(p) \/ Unregister(p) \/ InvokeBegin(p)
                              \/ InvokeEnd(p) \/ Crash(p) \/ Restart(p)
       PROVE  BudgetInv'
  BY <1>9, <1>10 DEF Register, Unregister, InvokeBegin, InvokeEnd, Crash, MailWithout, Restart
<1>11. CASE RestartsExhausted \/ VhostRestart \/ UNCHANGED vars
  BY <1>9, <1>11 DEF RestartsExhausted, VhostRestart, vars
<1>12. CASE NodeStops
  <2>1. /\ mail' = {} /\ UNCHANGED <<req, want, haltedBy>>
        /\ \A u \in Tasks : todo'[u] = {}
        /\ \A u \in Tasks : pc'[u] = IF pc[u] \in Ended \cup {"idle"} THEN pc[u] ELSE "failed"
    BY <1>12 DEF NodeStops
  <2>2. ASSUME NEW u \in Tasks PROVE Claimed(u)' \subseteq Claimed(u)
    BY <2>1 DEF Claimed, Called, HaltedBy
  <2>3. ASSUME NEW u \in Tasks PROVE Budget(u)'
    BY <1>0, <2>1, <2>2, BudgetKept DEF Unpicked, Deciding, Ended
  <2> QED BY <2>3 DEF BudgetInv
<1>13. ASSUME NEW p \in Pids, Resubscribe(p) PROVE BudgetInv'
  <2>1. /\ UNCHANGED <<mail, todo, req, want, haltedBy>>
        /\ \A u \in Tasks : pc'[u] = IF pc[u] = "subscribing" THEN "starting" ELSE pc[u]
    BY <1>13 DEF Resubscribe
  <2>2. ASSUME NEW u \in Tasks PROVE Claimed(u)' \subseteq Claimed(u)
    BY <2>1 DEF Claimed, Called, HaltedBy
  <2>3. ASSUME NEW u \in Tasks PROVE Budget(u)'
    BY <1>0, <2>1, <2>2, BudgetKept DEF Unpicked, Deciding
  <2> QED BY <2>3 DEF BudgetInv
<1> QED
  BY NextCases, <1>2, <1>3, <1>4, <1>5, <1>6, <1>7, <1>8, <1>10, <1>11, <1>12, <1>13

(* A stop of some instances, or a scale, halts at most as many as were     *)
(* asked for, late answers and other requests' halts included              *)
(* (halt_required_actors: Enum.take of the pids one registry read shows).  *)
THEOREM HaltsAreBounded == Spec => []HaltsWithinRequest
<1>1. ASSUME TypeOK, BudgetInv PROVE HaltsWithinRequest
  <2> SUFFICES ASSUME NEW t \in Tasks, req[t].op \in {"stop", "scale"}
               PROVE  /\ Cardinality(HaltedBy(t)) <= want[t]
                      /\ req[t].op = "stop" /\ req[t].count > 0 =>
                           Cardinality(HaltedBy(t)) <= req[t].count
    BY DEF HaltsWithinRequest
  <2>1. /\ Cardinality(HaltedBy(t)) <= Cardinality(Claimed(t)) /\ want[t] \in Nat
        /\ Cardinality(HaltedBy(t)) \in Nat /\ Cardinality(Claimed(t)) \in Nat
        /\ req[t].count \in Nat
    <3>1. HaltedBy(t) \in SUBSET Claimed(t) /\ HaltedBy(t) \in SUBSET Pids
      BY DEF Claimed, HaltedBy
    <3> QED BY <1>1, <3>1, ClaimedFinite, PidSetFinite DEF TypeOK, Request
  <2>2. CASE pc[t] = "idle"
    <3>1. HaltedBy(t) = {}
      BY <1>1, <2>2 DEF BudgetInv, Budget, Claimed
    <3> QED BY <2>1, <3>1, FS_EmptySet
  <2>3. CASE pc[t] # "idle"
    BY <1>1, <2>1, <2>3 DEF BudgetInv, Budget
  <2> QED BY <2>2, <2>3
<1>2. TypeOK /\ RefKnown /\ HaltInv /\ BudgetInv /\ [Next]_vars => BudgetInv'
  BY TypeStep, BudgetStep
<1> QED
  BY <1>1, <1>2, BudgetInit, HaltInit, HaltStep, TypeCorrect, PTL DEF Spec

-----------------------------------------------------------------------------
(* What an undisturbed request comes to *)

(* Nobody else is at work; an instance whose init is not over is one it    *)
(* waits for.                                                              *)
Alone(t) ==
  /\ pc[t] \notin {"idle", "failed"}
  /\ \A u \in Tasks \ {t} : pc[u] \in Ended \cup {"idle"}
  /\ \A m \in mail : m[1] = t
  /\ \A p \in Pids : pst[p] # "crashed" /\ (pst[p] = "init" => pc[t] = "subscribing")
  /\ \A p, q \in Pids : pst[p] = "init" /\ pst[q] = "init" => p = q

(* Which program points a request passes; a scale has no annotations.      *)
Starting == {"starting", "subscribing"}
Route(t) ==
  /\ req[t].op = "start" => pc[t] \in {"fetch", "check", "done"} \cup Starting
  /\ req[t].op = "scale" => pc[t] # "count" /\ req[t].tags = {}
  /\ req[t].op = "stop" => pc[t] \notin {"fetch", "check", "scale"} \cup Starting

(* Until it starts or picks, every instance is registered, and as many     *)
(* live as when it arrived.                                                *)
Untouched(t) ==
  pc[t] \in {"fetch", "check", "scale", "count", "snapshot"} =>
    registered = Up /\ Live = base[t] /\ t \notin last

(* How many a start is to bring up: `1..count` counts down for 0.          *)
Wanted(t) == IF req[t].count = 0 THEN 2 ELSE req[t].count

(* On the way up, those that live, those still to start and the one whose  *)
(* init is not over make the total.                                        *)
Rising(t) ==
  /\ pc[t] \in {"fetch", "check"} =>
       /\ req[t].op = "start" => want[t] = req[t].count
       /\ req[t].op = "scale" => want[t] > 0 /\ Live + want[t] = req[t].count
  /\ pc[t] = "starting" =>
       /\ req[t].op = "start" => Live + want[t] = base[t] + Wanted(t)
       /\ req[t].op = "scale" => Live + want[t] = req[t].count /\ req[t].count > 0
  /\ pc[t] = "subscribing" =>
       /\ req[t].op = "start" => Live + 1 + want[t] = base[t] + Wanted(t)
       /\ req[t].op = "scale" => Live + 1 + want[t] = req[t].count /\ req[t].count > 0

(* Once it has brought one up the subscriber runs.                         *)
Serving(t) ==
  /\ pc[t] = "subscribing" => sub = "terminated" /\ base[t] <= Live
  /\ pc[t] = "starting" => base[t] <= Live /\ (base[t] < Live => sub = "running")

(* How many it sets out to halt; it goes on to the subscriber exactly when *)
(* these are all, and has then nobody left to call.                        *)
Aimed(t) ==
  /\ pc[t] = "count" /\ req[t].op = "stop" => req[t].count = 0
  /\ pc[t] = "snapshot" =>
       /\ req[t].op = "scale" => want[t] > 0 /\ want[t] + req[t].count = base[t]
       /\ req[t].op = "stop" => want[t] = IF req[t].count = 0 THEN base[t] ELSE req[t].count
  /\ pc[t] \in {"halting", "await", "unsub", "delete"} => (t \in last <=> AsksForAll(t))
  /\ pc[t] \in {"unsub", "delete"} => t \in last /\ todo[t] = {}
  /\ pc[t] = "delete" => sub = "terminated"

(* The instances that are to survive it, and how many a stop leaves.       *)
Spared(t) == Up \ (todo[t] \cup Called(t))
Left(t) == IF req[t].count \in 1..base[t] THEN base[t] - req[t].count ELSE 0

(* On the way down, without annotations those not picked are as many as    *)
(* are to stay.                                                            *)
Falling(t) ==
  pc[t] \in {"halting", "await", "unsub", "delete"} =>
    /\ todo[t] \subseteq Up \ Called(t)
    /\ req[t].op = "scale" => Cardinality(Spared(t)) = req[t].count
    /\ req[t].op = "stop" => Cardinality(Spared(t)) = Left(t)

Course(t) ==
  /\ Alone(t) /\ Route(t) /\ Untouched(t) /\ Rising(t) /\ Serving(t) /\ Aimed(t)
  /\ req[t].tags = {} => Falling(t)

CleanInv == \A t \in clean : Course(t)

(* What has not arrived has not decided to stop the subscriber.            *)
Fresh == \A t \in Tasks : pc[t] = "idle" => t \notin last

LEMMA LiveType ==
  ASSUME TypeOK
  PROVE  /\ IsFiniteSet(Up) /\ Live \in Nat /\ Cardinality(Up) = Live
         /\ IsFiniteSet(registered) /\ Cardinality(registered) \in Nat
         /\ Up \subseteq Pids
BY PidSetFinite DEF TypeOK, Live, Up

LEMMA CourseType ==
  ASSUME TypeOK, NEW t \in Tasks
  PROVE  want[t] \in Nat /\ base[t] \in Nat /\ req[t].count \in Nat /\ todo[t] \subseteq Pids
BY DEF TypeOK, Request

(* An undisturbed request that has not ended is the only one that moves.   *)
LEMMA OnlyMover ==
  ASSUME NEW t \in Tasks, Alone(t), NEW u \in Tasks, pc[u] \notin Ended \cup {"idle"}
  PROVE  u = t
BY DEF Alone

LEMMA AloneKept ==
  ASSUME NEW t \in Tasks, Alone(t), pc'[t] \notin {"idle", "failed"},
         \A u \in Tasks \ {t} : pc'[u] = pc[u],
         \A m \in mail' : m[1] = t,
         \A p \in Pids : pst'[p] \in {"crashed", "init"} => pst'[p] = pst[p],
         pc[t] = "subscribing" => pc'[t] = "subscribing"
  PROVE  Alone(t)'
BY DEF Alone

(* A step no clean request's course depends on.                            *)
LEMMA CourseFrame ==
  ASSUME NEW t \in Tasks, Course(t),
         UNCHANGED <<pc, pst, mail, todo, want, req, base, last, sub>>,
         registered = Up => registered' = registered
  PROVE  Course(t)'
<1>1. Up' = Up /\ Live' = Live /\ Called(t)' = Called(t)
  BY DEF Up, Live, Called
<1>2. Spared(t)' = Spared(t) /\ Left(t)' = Left(t)
  BY <1>1 DEF Spared, Left
<1>3. Alone(t)'
  BY DEF Course, Alone
<1>4. Route(t)' /\ Rising(t)' /\ Serving(t)'
  BY <1>1 DEF Course, Route, Rising, Serving, Wanted
<1>5. Untouched(t)' /\ Aimed(t)'
  BY <1>1 DEF Course, Untouched, Aimed, AsksForAll
<1>6. (req[t].tags = {} => Falling(t))'
  BY <1>1, <1>2 DEF Course, Falling
<1> QED BY <1>3, <1>4, <1>5, <1>6 DEF Course

(* A request that arrives when nothing is going on.                        *)
LEMMA CourseLaunch ==
  ASSUME TypeOK, Fresh, NEW t \in Tasks, NEW r \in Requests, Launch(t, r), Quiet
  PROVE  Course(t)'
<1>1. r \in Request /\ r.count \in Nat
  BY ConstantsAssumption DEF Request
<1>2. /\ pc'[t] = EntryPoint(r) /\ req'[t] = r /\ want'[t] = r.count
      /\ base'[t] = Cardinality(Up) /\ UNCHANGED <<pst, mail, registered, last>>
      /\ \A u \in Tasks \ {t} : pc'[u] = pc[u]
      /\ t \notin last
  BY DEF Launch, TypeOK, Goto, Fresh
<1>3. Up' = Up /\ Live' = Live /\ Live = Cardinality(Up) /\ Live \in Nat /\ registered = Up
  BY <1>2, LiveType DEF Up, Live, Quiet
<1>4. Alone(t)'
  <2>1. pc'[t] \notin {"idle", "failed"}
    BY <1>2 DEF EntryPoint
  <2> QED BY <1>2, <2>1 DEF Alone, Quiet
<1>5. Route(t)'
  <2>1. r.op = "scale" => r.tags = {}
    BY ConstantsAssumption
  <2> QED BY <1>1, <1>2, <2>1 DEF Route, Starting, EntryPoint
<1>6. Untouched(t)'
  BY <1>2, <1>3 DEF Untouched
<1>7. Rising(t)' /\ Serving(t)'
  <2>1. /\ pc'[t] \notin {"check"} \cup Starting
        /\ pc'[t] = "fetch" => r.op = "start"
    BY <1>2 DEF EntryPoint, Starting
  <2> QED BY <1>1, <1>2, <1>3, <2>1 DEF Rising, Serving, Starting
<1>8. Aimed(t)' /\ Falling(t)'
  <2>1. /\ pc'[t] \notin {"halting", "await", "unsub", "delete"}
        /\ pc'[t] = "count" /\ r.op = "stop" => r.count = 0
        /\ pc'[t] = "snapshot" => r.op = "stop" /\ r.count > 0
    BY <1>1, <1>2 DEF EntryPoint
  <2> QED BY <1>2, <2>1 DEF Aimed, Falling
<1> QED BY <1>4, <1>5, <1>6, <1>7, <1>8 DEF Course

(* The steps of a start, or of a scale on its way up.                      *)
LEMMA CourseUp ==
  ASSUME TypeOK, TypeOK', RefKnown, NEW t \in Tasks, Course(t), t \in clean',
         Fetch(t) \/ Check(t) \/ StartOne(t) \/ StartDone(t) \/ ScaleKeep(t) \/ ScaleUp(t)
  PROVE  Course(t)'
<1>1. /\ \A u \in Tasks \ {t} : pc'[u] = pc[u]
      /\ UNCHANGED <<mail, todo, base, registered, last>>
      /\ pc[t] \in {"fetch", "check", "starting", "scale"}
      /\ pc'[t] \in {"fetch", "check", "starting", "subscribing", "done"}
  BY DEF Fetch, Check, StartOne, StartDone, ScaleKeep, ScaleUp, TypeOK, Goto, sysVars, histVars
<1>2. req'[t].op = req[t].op /\ req'[t].count = req[t].count /\ req'[t].tags = req[t].tags
  <2>1. CASE ScaleUp(t)
    BY <2>1, ScaleUpRequest
  <2>2. CASE ~ScaleUp(t)
    BY <2>2 DEF Fetch, Check, StartOne, StartDone, ScaleKeep
  <2> QED BY <2>1, <2>2
<1>3. \A m \in mail' : m[1] = t
  BY <1>1 DEF Course, Alone
<1>4. Route(t)'
  <2>1. req[t].op # "stop"
    BY <1>1 DEF Course, Route, Starting
  <2>2. req[t].op = "scale" => req[t].tags = {}
    BY DEF Course, Route
  <2>3. pc'[t] \in {"fetch", "check", "done"} \cup Starting
    BY <1>1 DEF Starting
  <2> QED BY <1>2, <2>1, <2>2, <2>3 DEF Route, Starting
<1>5. Aimed(t)' /\ Falling(t)'
  BY <1>1 DEF Aimed, Falling
<1>6. /\ want[t] \in Nat /\ base[t] \in Nat /\ req[t].count \in Nat /\ Live \in Nat
      /\ Wanted(t) \in Nat
  BY LiveType, CourseType DEF Wanted
<1>7. CASE StartOne(t)
  <2>1. PICK q \in Pids : Boot(q, ArgsOf(t)) /\ pst' = [pst EXCEPT ![q] = Booted]
    BY <1>7 DEF StartOne
  <2>2. /\ pc[t] = "starting" /\ want[t] > 0 /\ want'[t] = want[t] - 1
        /\ pc'[t] = IF Booted = "up" THEN "starting" ELSE "subscribing"
    BY <1>7 DEF StartOne, TypeOK, Goto
  <2>3. ArgsOf(t) \in Args
    BY <2>2 DEF RefKnown, ArgsOf, Args, TypeOK, Request
  <2>4. /\ pst[q] = "free" /\ \A p \in Pids : pst[p] # "init"
        /\ sub' = StartChild(sub) /\ Booted \in {"init", "up"}
    BY <2>1, <2>3, BootFacts
  <2>5. Untouched(t)'
    BY <2>2 DEF Untouched
  <2>6. Wanted(t)' = Wanted(t)
    BY <1>2 DEF Wanted
  <2>7. CASE Booted = "up"
    <3>1. Up' = Up \cup {q} /\ q \notin Up
      BY <2>1, <2>4, <2>7 DEF Up, TypeOK
    <3>2. Live' = Live + 1
      BY <3>1, LiveType, FS_AddElement DEF Live
    <3>3. Rising(t)'
      BY <1>1, <1>2, <1>6, <2>2, <2>6, <2>7, <3>2 DEF Course, Rising
    <3>4. sub' = "running"
      BY <2>4, <2>7 DEF StartChild, Booted, TypeOK
    <3>5. Serving(t)'
      BY <1>1, <1>6, <2>2, <2>7, <3>2, <3>4 DEF Course, Serving
    <3>6. Alone(t)'
      <4>1. \A p \in Pids : pst'[p] \in {"crashed", "init"} => pst'[p] = pst[p]
        BY <2>1, <2>7 DEF TypeOK
      <4> QED BY <1>1, <1>3, <2>2, <2>7, <4>1, AloneKept DEF Course
    <3> QED BY <1>4, <1>5, <2>5, <3>3, <3>5, <3>6 DEF Course
  <2>8. CASE Booted = "init"
    <3>1. Up' = Up /\ Live' = Live
      <4>1. Up' = Up
        BY <2>1, <2>4, <2>8 DEF Up, TypeOK
      <4> QED BY <4>1 DEF Live
    <3>2. Rising(t)'
      BY <1>1, <1>2, <1>6, <2>2, <2>6, <2>8, <3>1 DEF Course, Rising
    <3>3. sub' = "terminated"
      BY <2>4, <2>8 DEF StartChild, Booted, TypeOK
    <3>4. Serving(t)'
      BY <1>1, <2>2, <2>8, <3>1, <3>3 DEF Course, Serving
    <3>5. Alone(t)'
      BY <1>1, <1>3, <2>1, <2>2, <2>4, <2>8 DEF Course, Alone, TypeOK
    <3> QED BY <1>4, <1>5, <2>5, <3>2, <3>4, <3>5 DEF Course
  <2> QED BY <2>4, <2>7, <2>8
<1>8. CASE ~StartOne(t)
  <2>1. pst' = pst /\ sub' = sub
    BY <1>8 DEF Fetch, Check, StartDone, ScaleKeep, ScaleUp, sysVars
  <2>2. Up' = Up /\ Live' = Live
    BY <2>1 DEF Up, Live
  <2>3. pc'[t] # "subscribing"
    BY <1>8 DEF Fetch, Check, StartDone, ScaleKeep, ScaleUp, TypeOK, Goto
  <2>4. Alone(t)'
    BY <1>1, <1>3, <2>1, AloneKept DEF Course
  <2>5. Untouched(t)'
    <3>1. pc'[t] \in {"fetch", "check"} => pc[t] \in {"fetch", "scale"}
      BY <1>8 DEF Fetch, Check, StartDone, ScaleKeep, ScaleUp, TypeOK, Goto
    <3> QED BY <1>1, <2>2, <3>1 DEF Course, Untouched
  <2>6. Rising(t)' /\ Serving(t)'
    <3>1. CASE Fetch(t)
      <4>1. want' = want /\ pc[t] = "fetch" /\ pc'[t] = "check"
        BY <3>1 DEF Fetch, TypeOK, Goto
      <4> QED BY <1>1, <1>2, <2>2, <4>1 DEF Course, Rising, Serving
    <3>2. CASE Check(t)
      <4>1. want'[t] = Iterations(want[t]) /\ pc[t] = "check" /\ pc'[t] = "starting"
        BY <3>2 DEF Check, TypeOK, Goto
      <4>2. want[t] > 0 => want'[t] = want[t]
        BY <1>6, <4>1 DEF Iterations
      <4>3. req[t].op = "start" => want'[t] = Wanted(t)
        BY <4>1 DEF Course, Rising, Iterations, Wanted
      <4>4. Wanted(t)' = Wanted(t)
        BY <1>2 DEF Wanted
      <4>5. Live = base[t]
        BY <4>1 DEF Course, Untouched
      <4> QED BY <1>1, <1>2, <1>6, <2>2, <4>1, <4>2, <4>3, <4>4, <4>5 DEF Course, Rising, Serving
    <3>3. CASE StartDone(t) \/ ScaleKeep(t)
      <4>1. pc'[t] = "done"
        BY <3>3 DEF StartDone, ScaleKeep, TypeOK, Goto
      <4> QED BY <4>1 DEF Rising, Serving
    <3>4. CASE ScaleUp(t)
      <4>1. /\ pc[t] = "scale" /\ pc'[t] = "fetch" /\ Diff(t) < 0 /\ want'[t] = 0 - Diff(t)
        BY <3>4 DEF ScaleUp, Missing, TypeOK, Goto
      <4>2. Diff(t) = Live - req[t].count
        BY <4>1, LiveType DEF Course, Untouched, Diff
      <4>3. req[t].op # "start"
        BY <4>1 DEF Course, Route, Starting
      <4> QED BY <1>2, <1>6, <2>2, <4>1, <4>2, <4>3 DEF Rising, Serving
    <3> QED BY <1>8, <3>1, <3>2, <3>3, <3>4
  <2> QED BY <1>4, <1>5, <2>4, <2>5, <2>6 DEF Course
<1> QED BY <1>7, <1>8

(* The second call of a subscription, which brings the subscriber back.    *)
LEMMA CourseResubscribe ==
  ASSUME TypeOK, NEW t \in Tasks, Course(t), t \in clean', NEW q \in Pids, Resubscribe(q)
  PROVE  Course(t)'
<1>1. /\ pst[q] = "init" /\ pst' = [pst EXCEPT ![q] = "up"]
      /\ UNCHANGED <<mail, todo, base, registered, last, req, want>>
      /\ \A u \in Tasks : pc'[u] = IF pc[u] = "subscribing" THEN "starting" ELSE pc[u]
  BY DEF Resubscribe
<1>2. pc[t] = "subscribing" /\ sub = "terminated" /\ base[t] <= Live
  BY <1>1 DEF Course, Alone, Serving
<1>3. pc'[t] = "starting" /\ \A u \in Tasks \ {t} : pc'[u] = pc[u]
  BY <1>1, <1>2 DEF Course, Alone, Ended
<1>4. sub' = "running"
  BY <1>2, SubscribesFacts, ChildTypes DEF Resubscribe, RestartChild
<1>5. Up' = Up \cup {q} /\ q \notin Up
  BY <1>1 DEF Up, TypeOK
<1>6. Live' = Live + 1
  BY <1>5, LiveType, FS_AddElement DEF Live
<1>7. /\ want[t] \in Nat /\ base[t] \in Nat /\ req[t].count \in Nat /\ Live \in Nat
      /\ Wanted(t)' = Wanted(t) /\ Wanted(t) \in Nat
  BY <1>1, LiveType, CourseType DEF Wanted
<1>8. Alone(t)'
  <2>1. \A p \in Pids : pst'[p] \notin {"crashed", "init"}
    BY <1>1 DEF Course, Alone, TypeOK
  <2> QED BY <1>1, <1>3, <2>1 DEF Course, Alone
<1>9. Route(t)' /\ Untouched(t)' /\ Aimed(t)' /\ Falling(t)'
  BY <1>1, <1>2, <1>3 DEF Course, Route, Starting, Untouched, Aimed, Falling
<1>10. Rising(t)'
  BY <1>1, <1>2, <1>3, <1>6, <1>7 DEF Course, Rising
<1>11. Serving(t)'
  BY <1>1, <1>2, <1>3, <1>4, <1>6, <1>7 DEF Serving
<1> QED BY <1>8, <1>9, <1>10, <1>11 DEF Course

(* Nothing an undisturbed request is asked for changes under way.          *)
LEMMA AskKept ==
  ASSUME NEW t \in Tasks, UNCHANGED <<req, base>>
  PROVE  Left(t)' = Left(t) /\ Wanted(t)' = Wanted(t) /\ AsksForAll(t)' = AsksForAll(t)
BY DEF Left, Wanted, AsksForAll

(* On its way down: how many are to be halted ...                          *)
LEMMA CourseCount ==
  ASSUME TypeOK, NEW t \in Tasks, Course(t), ScaleDown(t) \/ CountAll(t)
  PROVE  Course(t)'
<1>1. /\ UNCHANGED <<pst, mail, todo, base, registered, last, req>>
      /\ \A u \in Tasks \ {t} : pc'[u] = pc[u]
      /\ pc[t] \in {"scale", "count"} /\ pc'[t] = "snapshot"
  BY DEF ScaleDown, CountAll, TypeOK, Goto, sysVars, histVars
<1>2. Up' = Up /\ Live' = Live /\ registered = Up /\ Live = base[t] /\ t \notin last
      /\ Cardinality(registered) = Live
  BY <1>1, LiveType DEF Up, Live, Course, Untouched
<1>3. Alone(t)'
  BY <1>1, AloneKept DEF Course, Alone
<1>4. Route(t)' /\ Rising(t)' /\ Serving(t)' /\ Falling(t)'
  BY <1>1 DEF Course, Route, Starting, Rising, Serving, Falling
<1>5. Untouched(t)'
  BY <1>1, <1>2 DEF Untouched
<1>6. Aimed(t)'
  <2>1. base[t] \in Nat /\ req[t].count \in Nat
    BY CourseType
  <2>2. CASE ScaleDown(t)
    <3>1. pc[t] = "scale" /\ want'[t] = base[t] - req[t].count /\ want'[t] > 0
      BY <1>2, <2>2 DEF ScaleDown, Diff, TypeOK
    <3>2. req[t].op # "stop"
      BY <3>1 DEF Course, Route
    <3> QED BY <1>1, <2>1, <3>1, <3>2 DEF Aimed
  <2>3. CASE CountAll(t)
    <3>1. pc[t] = "count" /\ want'[t] = base[t]
      BY <1>2, <2>3 DEF CountAll, TypeOK
    <3>2. req[t].op # "scale" /\ (req[t].op = "stop" => req[t].count = 0)
      BY <3>1 DEF Course, Route, Aimed
    <3> QED BY <1>1, <2>1, <3>1, <3>2 DEF Aimed
  <2> QED BY <2>2, <2>3
<1> QED BY <1>3, <1>4, <1>5, <1>6 DEF Course

(* ... which ones ...                                                      *)
LEMMA CoursePick ==
  ASSUME TypeOK, HaltInv, NEW t \in Tasks, Course(t), Snapshot(t)
  PROVE  Course(t)'
<1>1. PICK S \in Picks(t) : todo' = [todo EXCEPT ![t] = S]
  BY DEF Snapshot
<1>2. /\ UNCHANGED <<pst, mail, base, registered, req, want>> /\ todo'[t] = S
      /\ \A u \in Tasks \ {t} : pc'[u] = pc[u]
      /\ pc[t] = "snapshot" /\ pc'[t] = "halting"
      /\ last' = IF StopsAll(t) \/ (req[t].op \in {"stop", "scale"} /\ NoneRemain(t))
                 THEN last \cup {t} ELSE last
  BY <1>1 DEF Snapshot, TypeOK, Goto, sysVars, histVars
<1>3. /\ Up' = Up /\ registered = Up /\ Live = base[t] /\ Cardinality(registered) = Live
      /\ t \notin last
  BY <1>2, LiveType DEF Up, Course, Untouched
<1>4. Alone(t)'
  BY <1>2, AloneKept DEF Course, Alone
<1>5. Route(t)' /\ Untouched(t)' /\ Rising(t)' /\ Serving(t)'
  BY <1>2 DEF Course, Route, Starting, Untouched, Rising, Serving
<1>6. base[t] \in Nat /\ want[t] \in Nat /\ req[t].count \in Nat
  BY CourseType
<1>7. /\ req[t].op = "scale" => want[t] > 0 /\ want[t] + req[t].count = base[t]
      /\ req[t].op = "stop" => want[t] = IF req[t].count = 0 THEN base[t] ELSE req[t].count
  BY <1>2 DEF Course, Aimed
<1>8. Aimed(t)'
  <2>1. t \in last' <=> StopsAll(t) \/ (req[t].op \in {"stop", "scale"} /\ NoneRemain(t))
    BY <1>2, <1>3
  <2>2. StopsAll(t) \/ (req[t].op \in {"stop", "scale"} /\ NoneRemain(t)) <=> AsksForAll(t)
    BY <1>3, <1>6, <1>7 DEF StopsAll, NoneRemain, AsksForAll
  <2>3. AsksForAll(t)' = AsksForAll(t)
    BY <1>2, AskKept
  <2> QED BY <1>2, <2>1, <2>2, <2>3 DEF Aimed
<1>9. Falling(t)'
  <2>1. Called(t)' = {}
    BY <1>2 DEF Called, HaltInv, MailInv
  <2>2. Spared(t)' = Up \ S /\ S \subseteq Up
    BY <1>1, <1>2, <1>3, <2>1 DEF Spared, Picks
  <2>3. Cardinality(Up \ S) = base[t] - Least(want[t], base[t])
    <3>1. Cardinality(S) = Least(want[t], base[t]) /\ Up \cap S = S
      BY <1>3, <2>2 DEF Picks
    <3>2. Cardinality(Up \ S) = Cardinality(Up) - Cardinality(Up \cap S)
      BY LiveType, FS_Difference
    <3> QED BY <1>3, <3>1, <3>2, LiveType
  <2>4. req[t].op = "scale" => Cardinality(Up \ S) = req[t].count
    BY <1>6, <1>7, <2>3 DEF Least
  <2>5. req[t].op = "stop" => Cardinality(Up \ S) = Left(t)
    BY <1>6, <1>7, <2>3 DEF Least, Left
  <2>6. Left(t)' = Left(t)
    BY <1>2, AskKept
  <2>7. todo'[t] \subseteq Up' \ Called(t)'
    BY <1>2, <1>3, <2>1, <2>2
  <2> QED BY <1>2, <2>2, <2>4, <2>5, <2>6, <2>7 DEF Falling
<1> QED BY <1>4, <1>5, <1>8, <1>9 DEF Course

(* ... calling them one by one ...                                         *)
LEMMA CourseCall ==
  ASSUME TypeOK, HaltInv, NEW t \in Tasks, Course(t), SendHalt(t) \/ SkipInstance(t)
  PROVE  Course(t)'
<1>1. /\ UNCHANGED <<pst, base, registered, req, last, sub, want>>
      /\ \A u \in Tasks \ {t} : pc'[u] = pc[u]
      /\ pc[t] = "halting" /\ pc'[t] \in {"halting", "await"}
      /\ \A m \in mail' : m \in mail \/ m[1] = t
  BY DEF SendHalt, SkipInstance, AfterSend, TypeOK, Goto, sysVars, histVars
<1>2. Up' = Up /\ Left(t)' = Left(t) /\ AsksForAll(t)' = AsksForAll(t)
  BY <1>1, AskKept DEF Up
<1>3. Alone(t)'
  BY <1>1, AloneKept DEF Course, Alone
<1>4. Route(t)' /\ Untouched(t)' /\ Rising(t)' /\ Serving(t)' /\ Aimed(t)'
  BY <1>1, <1>2 DEF Course, Route, Starting, Untouched, Rising, Serving, Aimed
<1>5. ASSUME req[t].tags = {} PROVE Falling(t)'
  <2>1. Called(t) = {}
    BY <1>1 DEF Called, HaltInv, MailInv
  <2>2. todo[t] \subseteq Up
    BY <1>1, <1>5 DEF Course, Falling
  <2>3. PICK p \in todo[t] : todo'[t] = todo[t] \ {p} /\ mail' = mail \cup {<<t, p>>}
    <3>1. ~SkipInstance(t)
      BY <1>5, <2>2 DEF SkipInstance, Matches
    <3> QED BY <3>1 DEF SendHalt, TypeOK
  <2>4. Called(t)' = {p}
    <3>1. p \in Pids
      BY <2>2, <2>3 DEF Up
    <3> QED BY <2>1, <2>3, <3>1 DEF Called
  <2>5. Spared(t)' = Spared(t)
    BY <1>2, <2>1, <2>3, <2>4 DEF Spared
  <2>6. todo'[t] \subseteq Up' \ Called(t)'
    BY <1>2, <2>2, <2>3, <2>4
  <2> QED BY <1>1, <1>2, <1>5, <2>5, <2>6 DEF Course, Falling
<1> QED BY <1>1, <1>3, <1>4, <1>5 DEF Course

LEMMA CourseAnswer ==
  ASSUME TypeOK, HaltInv, NEW t \in Tasks, Course(t),
         NEW u \in Tasks \cup {NoTask}, NEW p \in Pids, HandleHalt(u, p)
  PROVE  Course(t)'
<1>1. /\ u = t /\ <<t, p>> \in mail /\ pc[t] = "await" /\ pst[p] = "up"
  BY DEF HandleHalt, HaltInv, MailInv, Course, Alone
<1>2. /\ UNCHANGED <<base, registered, req, last, sub, todo, want>>
      /\ \A v \in Tasks \ {t} : pc'[v] = pc[v]
      /\ pc'[t] = "halting" /\ pst' = [pst EXCEPT ![p] = "halted"]
      /\ mail' = {m \in mail : m[2] # p}
  BY <1>1 DEF HandleHalt, MailWithout, TypeOK
<1>3. Up' = Up \ {p} /\ Left(t)' = Left(t) /\ AsksForAll(t)' = AsksForAll(t)
  BY <1>2, AskKept DEF Up, TypeOK
<1>4. Alone(t)'
  <2>1. \A q \in Pids : pst'[q] \in {"crashed", "init"} => pst'[q] = pst[q]
    BY <1>2 DEF TypeOK
  <2> QED BY <1>1, <1>2, <2>1, AloneKept DEF Course, Alone
<1>5. Route(t)' /\ Untouched(t)' /\ Rising(t)' /\ Serving(t)' /\ Aimed(t)'
  BY <1>1, <1>2, <1>3 DEF Course, Route, Starting, Untouched, Rising, Serving, Aimed
<1>6. ASSUME req[t].tags = {} PROVE Falling(t)'
  <2>1. Called(t) = {p} /\ Called(t)' = {}
    BY <1>1, <1>2 DEF Called, HaltInv, OneCall
  <2>2. todo[t] \subseteq Up \ Called(t)
    BY <1>1, <1>6 DEF Course, Falling
  <2>3. Spared(t)' = Spared(t)
    BY <1>2, <1>3, <2>1 DEF Spared
  <2>4. todo'[t] \subseteq Up' \ Called(t)'
    BY <1>2, <1>3, <2>1, <2>2
  <2> QED BY <1>1, <1>2, <1>3, <1>6, <2>3, <2>4 DEF Course, Falling
<1> QED BY <1>2, <1>4, <1>5, <1>6 DEF Course

(* ... and the subscriber last.                                            *)
LEMMA CourseEnd ==
  ASSUME TypeOK, HaltInv, NEW t \in Tasks, Course(t),
         FinishHalts(t) \/ TerminateSub(t) \/ DeleteSub(t)
  PROVE  Course(t)'
<1>1. /\ UNCHANGED <<pst, base, registered, req, last, todo, mail, want>>
      /\ \A u \in Tasks \ {t} : pc'[u] = pc[u]
      /\ pc[t] \in {"halting", "unsub", "delete"} /\ pc'[t] \in {"unsub", "delete", "done"}
      /\ pc'[t] = "unsub" => todo[t] = {} /\ t \in last
      /\ pc'[t] = "delete" => pc[t] = "unsub" /\ sub' = "terminated"
  BY DEF FinishHalts, TerminateSub, DeleteSub, TypeOK, Goto, histVars
<1>2. Up' = Up /\ Called(t)' = Called(t) /\ Left(t)' = Left(t)
      /\ AsksForAll(t)' = AsksForAll(t)
  BY <1>1, AskKept DEF Up, Called
<1>3. Spared(t)' = Spared(t)
  BY <1>1, <1>2 DEF Spared
<1>4. Alone(t)'
  BY <1>1, AloneKept DEF Course, Alone
<1>5. Route(t)' /\ Untouched(t)' /\ Rising(t)' /\ Serving(t)' /\ Aimed(t)'
  BY <1>1, <1>2 DEF Course, Route, Starting, Untouched, Rising, Serving, Aimed
<1>6. ASSUME req[t].tags = {} PROVE Falling(t)'
  BY <1>1, <1>2, <1>3, <1>6 DEF Course, Falling
<1> QED BY <1>1, <1>4, <1>5, <1>6 DEF Course

LEMMA FreshStep == TypeOK /\ Fresh /\ [Next]_vars => Fresh'
<1> SUFFICES ASSUME TypeOK, Fresh, [Next]_vars PROVE Fresh'
  OBVIOUS
<1> USE DEF Fresh, Goto
<1>0. pc \in [Tasks -> PCs]
  BY DEF TypeOK
<1>1. ASSUME last' = last, \A t \in Tasks : pc'[t] = "idle" => pc[t] = "idle" PROVE Fresh'
  BY <1>1
<1>2. ASSUME NEW t \in Tasks,
             \/ \E r \in Requests : Launch(t, r)
             \/ Abort(t)
             \/ Fetch(t) \/ Check(t) \/ StartOne(t) \/ StartIgnored(t) \/ StartDone(t)
             \/ ScaleKeep(t) \/ ScaleDown(t) \/ ScaleUp(t) \/ CountAll(t)
             \/ SendHalt(t) \/ SkipInstance(t) \/ FinishHalts(t)
             \/ TerminateSub(t) \/ DeleteSub(t)
      PROVE  Fresh'
  BY <1>0, <1>1, <1>2 DEF Launch, EntryPoint, Abort, Fetch, Check, StartOne, StartIgnored,
     StartDone, ScaleKeep, ScaleDown, ScaleUp, CountAll, SendHalt, AfterSend, SkipInstance,
     FinishHalts, TerminateSub, DeleteSub
<1>3. ASSUME NEW t \in Tasks, Snapshot(t) PROVE Fresh'
  <2>1. pc' = [pc EXCEPT ![t] = "halting"] /\ last' \subseteq last \cup {t}
    BY <1>3 DEF Snapshot
  <2> QED BY <1>0, <2>1
<1>4. ASSUME NEW p \in Pids, NEW t \in Tasks \cup {NoTask}, HandleHalt(t, p) PROVE Fresh'
  BY <1>0, <1>1, <1>4 DEF HandleHalt
<1>5. ASSUME NEW p \in Pids,
             \/ Register(p) \/ Unregister(p) \/ InvokeBegin(p) \/ InvokeEnd(p)
             \/ Crash(p) \/ Restart(p) \/ Resubscribe(p)
      PROVE  Fresh'
  BY <1>0, <1>1, <1>5 DEF Register, Unregister, InvokeBegin, InvokeEnd, Crash, Restart,
     Resubscribe, taskVars
<1>6. CASE RestartsExhausted \/ VhostRestart \/ NodeStops \/ UNCHANGED vars
  BY <1>0, <1>1, <1>6 DEF RestartsExhausted, VhostRestart, NodeStops, Ended, vars, taskVars
<1> QED BY NextCases, <1>2, <1>3, <1>4, <1>5, <1>6

LEMMA CleanStep ==
  ASSUME TypeOK, TypeOK', RefKnown, HaltInv, Fresh, CleanInv, [Next]_vars
  PROVE  CleanInv'
<1> SUFFICES ASSUME NEW t \in clean'
             PROVE  Course(t)'
  BY DEF CleanInv
<1>1. t \in Tasks
  BY DEF TypeOK
<1>2. ASSUME NEW u \in Tasks, NEW r \in Requests, Launch(u, r) PROVE Course(t)'
  <2>1. Quiet /\ t = u
    BY <1>2 DEF Launch
  <2> QED BY <1>2, <2>1, CourseLaunch
<1>3. CASE t \in clean
  <2>1. Course(t) /\ Alone(t)
    BY <1>3 DEF CleanInv, Course
  <2>2. ASSUME NEW u \in Tasks, Abort(u), pc[u] \notin Ended \cup {"idle"} PROVE FALSE
    <3>1. u = t
      BY <1>1, <2>1, <2>2, OnlyMover
    <3> QED BY <2>2, <3>1 DEF Abort
  <2>3. ASSUME NEW u \in Tasks,
               \/ Fetch(u) \/ Check(u) \/ StartOne(u) \/ StartDone(u)
               \/ ScaleKeep(u) \/ ScaleUp(u)
        PROVE  Course(t)'
    <3>1. pc[u] \notin Ended \cup {"idle"}
      BY <2>3 DEF Fetch, Check, StartOne, StartDone, ScaleKeep, ScaleUp, Ended
    <3>2. u = t
      BY <1>1, <2>1, <3>1, OnlyMover
    <3> QED BY <1>1, <2>1, <2>3, <3>2, CourseUp
  <2>4. ASSUME NEW u \in Tasks, StartIgnored(u) PROVE FALSE
    <3>1. u = t
      BY <1>1, <2>1, <2>4, OnlyMover DEF StartIgnored, Ended
    <3> QED BY <2>4, <3>1 DEF StartIgnored
  <2>5. ASSUME NEW u \in Tasks, ScaleDown(u) \/ CountAll(u) PROVE Course(t)'
    <3>1. pc[u] \notin Ended \cup {"idle"}
      BY <2>5 DEF ScaleDown, CountAll, Ended
    <3>2. u = t
      BY <1>1, <2>1, <3>1, OnlyMover
    <3> QED BY <1>1, <2>1, <2>5, <3>2, CourseCount
  <2>6. ASSUME NEW u \in Tasks, Snapshot(u) PROVE Course(t)'
    <3>1. u = t
      BY <1>1, <2>1, <2>6, OnlyMover DEF Snapshot, Ended
    <3> QED BY <1>1, <2>1, <2>6, <3>1, CoursePick
  <2>7. ASSUME NEW u \in Tasks, SendHalt(u) \/ SkipInstance(u) PROVE Course(t)'
    <3>1. pc[u] \notin Ended \cup {"idle"}
      BY <2>7 DEF SendHalt, SkipInstance, Ended
    <3>2. u = t
      BY <1>1, <2>1, <3>1, OnlyMover
    <3> QED BY <1>1, <2>1, <2>7, <3>2, CourseCall
  <2>8. ASSUME NEW u \in Tasks, FinishHalts(u) \/ TerminateSub(u) \/ DeleteSub(u)
        PROVE  Course(t)'
    <3>1. pc[u] \notin Ended \cup {"idle"}
      BY <2>8 DEF FinishHalts, TerminateSub, DeleteSub, Ended
    <3>2. u = t
      BY <1>1, <2>1, <3>1, OnlyMover
    <3> QED BY <1>1, <2>1, <2>8, <3>2, CourseEnd
  <2>9. ASSUME NEW p \in Pids, NEW u \in Tasks \cup {NoTask}, HandleHalt(u, p)
        PROVE  Course(t)'
    BY <1>1, <2>1, <2>9, CourseAnswer
  <2>10. ASSUME NEW p \in Pids, Resubscribe(p) PROVE Course(t)'
    BY <1>1, <2>1, <2>10, CourseResubscribe
  <2>11. ASSUME NEW p \in Pids, Register(p) \/ Unregister(p) \/ InvokeBegin(p) \/ InvokeEnd(p)
         PROVE  Course(t)'
    <3>1. registered = Up => registered' = registered
      BY <2>11 DEF Register, Unregister, InvokeBegin, InvokeEnd, Up, TypeOK
    <3> QED BY <1>1, <2>1, <2>11, <3>1, CourseFrame DEF Register, Unregister, InvokeBegin,
            InvokeEnd, taskVars, histVars
  <2>12. ASSUME NEW p \in Pids, Crash(p) \/ Restart(p) PROVE Course(t)'
    BY <2>1, <2>12 DEF Crash, Restart, Alone
  <2>13. CASE RestartsExhausted \/ NodeStops
    BY <2>13 DEF RestartsExhausted, NodeStops
  <2>14. CASE VhostRestart \/ UNCHANGED vars
    BY <1>1, <2>1, <2>14, CourseFrame DEF VhostRestart, vars, sysVars, taskVars, histVars
  <2> QED
    BY NextCases, <1>2, <2>2, <2>3, <2>4, <2>5, <2>6, <2>7, <2>8, <2>9, <2>10, <2>11,
       <2>12, <2>13, <2>14
<1>4. CASE t \notin clean
  <2>1. ASSUME NEW u \in Tasks, StartOne(u) PROVE FALSE
    BY <1>4, <2>1 DEF StartOne, Boot, Subscribes
  <2>2. ASSUME NEW p \in Pids, Restart(p) \/ Resubscribe(p) PROVE FALSE
    BY <1>4, <2>2 DEF Restart, Resubscribe, Boot, Subscribes
  <2>3. \E u \in Tasks, r \in Requests : Launch(u, r)
    BY <1>4, <2>1, <2>2, NextCases DEF Abort, Fetch, Check, StartIgnored, StartDone,
       ScaleKeep, ScaleDown, ScaleUp, CountAll, Snapshot, SendHalt, SkipInstance,
       FinishHalts, TerminateSub, DeleteSub, HandleHalt, Register, Unregister, InvokeBegin,
       InvokeEnd, Crash, RestartsExhausted, VhostRestart, NodeStops, vars, histVars
  <2> QED BY <1>2, <2>3
<1> QED BY <1>3, <1>4

(* A request with nothing else going on keeps to its course.               *)
THEOREM CleanInvariance == Spec => [](TypeOK /\ HaltInv /\ CleanInv)
<1>1. Init => CleanInv /\ Fresh
  BY DEF Init, CleanInv, Fresh
<1>2. TypeOK /\ TypeOK' /\ RefKnown /\ HaltInv /\ Fresh /\ CleanInv /\ [Next]_vars => CleanInv'
  BY CleanStep
<1> QED
  BY <1>1, <1>2, FreshStep, TypeCorrect, HaltInit, HaltStep, PTL DEF Spec

(* The steps with which a request completes, or goes on to the subscriber. *)
LEMMA LastSteps ==
  ASSUME TypeOK, NEW t \in Tasks, NEW l \in {"done", "unsub"}, pc[t] # l, pc'[t] = l,
         [Next]_vars
  PROVE  \/ l = "done" /\ (StartDone(t) \/ ScaleKeep(t) \/ DeleteSub(t))
         \/ l = "done" /\ TerminateSub(t) /\ sub = "absent"
         \/ FinishHalts(t)
<1>1. pc \in [Tasks -> PCs]
  BY DEF TypeOK
<1>2. ASSUME NEW u \in Tasks,
             \/ \E r \in Requests : Launch(u, r)
             \/ Abort(u) /\ pc[u] \notin Ended \cup {"idle"}
             \/ Fetch(u) \/ Check(u)
             \/ StartOne(u) \/ StartIgnored(u) \/ StartDone(u)
             \/ ScaleKeep(u) \/ ScaleDown(u) \/ ScaleUp(u)
             \/ CountAll(u) \/ Snapshot(u) \/ SendHalt(u) \/ SkipInstance(u)
             \/ FinishHalts(u) \/ TerminateSub(u) \/ DeleteSub(u)
      PROVE  \/ l = "done" /\ (StartDone(t) \/ ScaleKeep(t) \/ DeleteSub(t))
             \/ l = "done" /\ TerminateSub(t) /\ sub = "absent"
             \/ FinishHalts(t)
  <2>1. \A v \in Tasks \ {u} : pc'[v] = pc[v]
    BY <1>1, <1>2 DEF Launch, Abort, Fetch, Check, StartOne, StartIgnored, StartDone,
       ScaleKeep, ScaleDown, ScaleUp, CountAll, Snapshot, SendHalt, SkipInstance,
       FinishHalts, TerminateSub, DeleteSub, Goto
  <2>2. u = t
    BY <2>1
  <2> QED
    BY <1>1, <1>2, <2>2 DEF Launch, EntryPoint, Abort, Fetch, Check, StartOne, StartIgnored,
       StartDone, ScaleKeep, ScaleDown, ScaleUp, CountAll, Snapshot, SendHalt, AfterSend,
       SkipInstance, TerminateSub, DeleteSub, Goto
<1>3. ASSUME \A u \in Tasks : pc'[u] \in {"done", "unsub"} => pc'[u] = pc[u] PROVE FALSE
  BY <1>3
<1>4. ASSUME NEW p \in Pids, NEW u \in Tasks \cup {NoTask}, HandleHalt(u, p) PROVE FALSE
  BY <1>1, <1>3, <1>4 DEF HandleHalt
<1>5. ASSUME NEW p \in Pids,
             \/ Register(p) \/ Unregister(p) \/ InvokeBegin(p) \/ InvokeEnd(p)
             \/ Crash(p) \/ Restart(p) \/ Resubscribe(p)
      PROVE  FALSE
  BY <1>1, <1>3, <1>5 DEF Register, Unregister, InvokeBegin, InvokeEnd, Crash, Restart,
     Resubscribe, taskVars
<1>6. CASE RestartsExhausted \/ VhostRestart \/ NodeStops \/ UNCHANGED vars
  BY <1>1, <1>3, <1>6 DEF RestartsExhausted, VhostRestart, NodeStops, Ended, vars, taskVars
<1> QED
  BY NextCases, <1>2, <1>4, <1>5, <1>6

(* A start that nothing disturbs adds exactly as many instances as it asks *)
(* for, two if it asks for none, and leaves the subscriber running: also   *)
(* when a stop had terminated it before (start_actor_instances).           *)
THEOREM StartsAreExact == Spec => UndisturbedStart
<1>1. ASSUME TypeOK, CleanInv, [Next]_vars,
             NEW t \in Tasks, Completes(t), req[t].op = "start"
      PROVE  Live' = base[t] + Wanted(t) /\ sub' = "running"
  <2>1. Course(t)
    BY <1>1 DEF Completes, CleanInv
  <2>2. StartDone(t)
    <3>1. pc[t] \in {"fetch", "check", "done"} \cup Starting
      BY <1>1, <2>1 DEF Course, Route
    <3>2. \/ StartDone(t) \/ ScaleKeep(t) \/ DeleteSub(t) \/ TerminateSub(t) \/ FinishHalts(t)
      BY <1>1, LastSteps DEF Completes
    <3> QED BY <3>1, <3>2 DEF Starting, ScaleKeep, FinishHalts, TerminateSub, DeleteSub
  <2>3. pc[t] = "starting" /\ want[t] = 0 /\ Live' = Live /\ sub' = sub
    BY <2>2 DEF StartDone, sysVars, Live, Up
  <2>4. Live = base[t] + Wanted(t) /\ Wanted(t) > 0 /\ base[t] \in Nat /\ Wanted(t) \in Nat
    BY <1>1, <2>1, <2>3, LiveType, CourseType DEF Course, Rising, Wanted
  <2> QED BY <2>1, <2>3, <2>4 DEF Course, Serving
<1>2. TypeOK /\ CleanInv /\ [Next]_vars =>
        [\A t \in Tasks : Completes(t) /\ req[t].op = "start" =>
           /\ Live' = base[t] + (IF req[t].count = 0 THEN 2 ELSE req[t].count)
           /\ sub' = "running"]_vars
  BY <1>1 DEF Wanted
<1> QED
  BY CleanInvariance, <1>2, PTL DEF Spec, UndisturbedStart

(* A scale that nothing disturbs ends with the count it was asked for; a   *)
(* stop of some leaves the rest, a stop of all none.  The subscriber goes  *)
(* exactly when as many were asked for as there were, whichever match      *)
(* (scale_actor, terminate_actor, halt_required_actors).                   *)
THEOREM StopsAreExact == Spec => UndisturbedStop
<1> DEFINE Counted(t) ==
      /\ req[t].op = "scale" => Live' = req[t].count
      /\ req[t].op = "stop" /\ req[t].tags = {} =>
           Live' = IF req[t].count \in 1..base[t] THEN base[t] - req[t].count ELSE 0
    Stopped(t) == AsksForAll(t) => sub' = "absent"
<1>1. ASSUME TypeOK, HaltInv, CleanInv, [Next]_vars, NEW t \in Tasks, Completes(t)
      PROVE  Counted(t) /\ Stopped(t)
  <2>1. Course(t)
    BY <1>1 DEF Completes, CleanInv
  <2>2. want[t] \in Nat /\ base[t] \in Nat /\ req[t].count \in Nat /\ Live \in Nat
        /\ Cardinality(registered) \in Nat /\ Cardinality(Up) = Live
    BY <1>1, LiveType, CourseType
  <2>3. CASE StartDone(t)
    <3>1. pc[t] = "starting" /\ want[t] = 0 /\ Live' = Live
      BY <2>3 DEF StartDone, sysVars, Live, Up
    <3>2. req[t].op # "stop" /\ (req[t].op = "scale" => Live = req[t].count /\ req[t].count > 0)
      BY <2>1, <2>2, <3>1 DEF Course, Route, Starting, Rising
    <3> QED BY <3>1, <3>2 DEF AsksForAll
  <2>4. CASE ScaleKeep(t)
    <3>1. pc[t] = "scale" /\ Diff(t) = 0 /\ Live' = Live
      BY <2>4 DEF ScaleKeep, sysVars, Live, Up
    <3>2. req[t].op # "stop" /\ Live = req[t].count /\ Live = base[t]
      BY <2>1, <2>2, <3>1 DEF Course, Route, Untouched, Diff
    <3> QED BY <2>2, <3>1, <3>2 DEF AsksForAll
  <2>5. ASSUME pc[t] \in {"halting", "unsub", "delete"}, pst' = pst,
               pc[t] = "halting" => todo[t] = {}
        PROVE  Counted(t)
    <3>1. ASSUME req[t].tags = {} PROVE Cardinality(Spared(t)) = Live' /\ Falling(t)
      <4>1. Called(t) = {} /\ todo[t] = {} /\ Falling(t)
        BY <1>1, <2>1, <2>5, <3>1 DEF Course, Aimed, Called, HaltInv, MailInv
      <4>2. Spared(t) = Up /\ Live' = Live
        BY <2>5, <4>1 DEF Spared, Live, Up
      <4> QED BY <2>2, <4>1, <4>2
    <3>2. req[t].op = "scale" => req[t].tags = {}
      BY <2>1 DEF Course, Route
    <3> QED BY <2>5, <3>1, <3>2 DEF Falling, Left
  <2>6. CASE FinishHalts(t)
    <3>1. pc[t] = "halting" /\ todo[t] = {} /\ pst' = pst /\ t \notin last
      BY <1>1, <2>6 DEF FinishHalts, TypeOK, Goto, Completes
    <3>2. ~AsksForAll(t)
      BY <2>1, <3>1 DEF Course, Aimed
    <3> QED BY <2>5, <3>1, <3>2
  <2>7. CASE TerminateSub(t) /\ sub = "absent"
    BY <2>5, <2>7 DEF TerminateSub
  <2>8. CASE DeleteSub(t)
    BY <2>1, <2>5, <2>8 DEF DeleteSub, AfterDelete, Course, Aimed
  <2> QED BY <1>1, <2>3, <2>4, <2>6, <2>7, <2>8, LastSteps DEF Completes
<1>2. ASSUME TypeOK, CleanInv, [Next]_vars, NEW t \in clean, pc[t] # "unsub", pc'[t] = "unsub"
      PROVE  AsksForAll(t)
  <2>1. t \in Tasks /\ Course(t)
    BY <1>2 DEF CleanInv, TypeOK
  <2>2. FinishHalts(t)
    BY <1>2, <2>1, LastSteps
  <2>3. pc[t] = "halting" /\ t \in last
    BY <1>2, <2>1, <2>2 DEF FinishHalts, TypeOK, Goto
  <2> QED BY <2>1, <2>3 DEF Course, Aimed
<1>3. TypeOK /\ HaltInv /\ CleanInv /\ [Next]_vars =>
        [\A t \in Tasks :
           /\ Completes(t) /\ req[t].op = "scale" => Live' = req[t].count
           /\ Completes(t) /\ req[t].op = "stop" /\ req[t].tags = {} =>
                Live' = IF req[t].count \in 1..base[t]
                        THEN base[t] - req[t].count ELSE 0
           /\ Completes(t) /\ AsksForAll(t) => sub' = "absent"
           /\ pc[t] # "unsub" /\ pc'[t] = "unsub" /\ t \in clean => AsksForAll(t)]_vars
  BY <1>1, <1>2
<1> QED
  BY CleanInvariance, <1>3, PTL DEF Spec, UndisturbedStop
=============================================================================
