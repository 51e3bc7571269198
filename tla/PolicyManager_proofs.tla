------------------------- MODULE PolicyManager_proofs -------------------------
(***************************************************************************)
(* Proofs about PolicyManager, for any number of tasks, subjects,          *)
(* requests, changes of mind and restarts.                                 *)
(*                                                                         *)
(* A verdict reaches the table by two ways, the answer to a request and an *)
(* override of it, and both name the request.  The proofs therefore follow *)
(* the request ids: an id is used once (Numbered, OneTask), whoever holds  *)
(* it speaks of the subject it was asked for (OfTheRequest), and while an  *)
(* evaluation holds it no override can find it (HeldNotFound).             *)
(***************************************************************************)
EXTENDS PolicyManager, FiniteSetTheorems, TLAPS

Live(t) == job[t] # NoJob
Holds(t, i) == job[t] # NoJob /\ job[t].at # "lookup" /\ job[t].id = i

(* The requests so far are numbered from 1.                                *)
Numbered == \E n \in 0..MaxRequests : \A i \in Ids : request[i] # NoKey <=> i <= n

(* Only the request that asks is held, by one task.                        *)
OneTask == \A i \in Ids : \A t, u \in Tasks : Holds(t, i) /\ Holds(u, i) => t = u

(* A task that has asked goes with its request, and the two inserts go     *)
(* with the answer to it.                                                  *)
JobOfRequest ==
  \A t \in Tasks : Live(t) =>
    /\ job[t].at = "lookup" => job[t].id = 0
    /\ job[t].at # "lookup" =>
         job[t].asks /\ job[t].id \in Ids /\ request[job[t].id] = job[t].key
    /\ job[t].at \in {"cache", "index"} =>
         job[t].verdict = answer[job[t].id] /\ answer[job[t].id] # "none"

(* Answers, overrides and both kinds of rows belong to requests.           *)
OfTheRequest ==
  /\ \A i \in Ids : answer[i] # "none" => request[i] # NoKey
  /\ \A i \in Ids : index[i] # NoKey => index[i] = request[i] /\ answer[i] # "none"
  /\ \A m \in overrides : /\ answer[m.id] # "none"
                          /\ m.at = "insert" => index[m.id] # NoKey
  /\ \A k \in Keys : source[k] # 0 => request[source[k]] = k /\ answer[source[k]] # "none"

(* Whatever says "permit" says it of a subject the server has permitted.   *)
Granted ==
  /\ \A i \in Ids : answer[i] = "permit" => request[i] \in granted
  /\ \A m \in overrides : m.verdict = "permit" => request[m.id] \in granted
  /\ \A k \in Keys : table[k] = "permit" => k \in granted

(* A request id is in the table only when no evaluation holds it any more, *)
(* and an override was inserted only by an id in the table.                *)
HeldNotFound ==
  /\ \A i \in Ids : \A t \in Tasks : Holds(t, i) => index[i] = NoKey
  /\ \A i \in Ids : applied[i] # "none" => index[i] # NoKey

(* A decision in the table has a source: its request id is in the table    *)
(* too, or about to be.                                                    *)
Sourced ==
  \A k \in Keys :
    /\ table[k] # "none" <=> source[k] # 0
    /\ source[k] # 0 /\ index[source[k]] = NoKey =>
         \E t \in Tasks : Holds(t, source[k]) /\ job[t].at = "index"

(* What does not agree with the server yet will be overridden.             *)
WillAgree ==
  /\ \A m \in overrides : request[m.id] \notin crossed => m.verdict = policy[request[m.id]]
  /\ \A t \in Tasks : Live(t) /\ job[t].at # "lookup" /\ job[t].key \notin crossed =>
       answer[job[t].id] \in {"none", policy[job[t].key]} \/ \E m \in overrides : m.id = job[t].id
  /\ \A k \in Keys \ crossed : source[k] # 0 =>
       table[k] = policy[k] \/ \E m \in overrides : m.id = source[k]

Inv ==
  /\ TypeOK /\ Numbered /\ OneTask /\ JobOfRequest /\ OfTheRequest /\ Granted
  /\ PermittedByServer /\ HeldNotFound /\ OverrideStands /\ Sourced /\ WillAgree

-----------------------------------------------------------------------------

LEMMA OrderValues == Order[1] = "cache" /\ Order[2] = "index"
BY DEF Order

(* The new id is the next number, and not in use.                          *)
LEMMA NewIdFresh ==
  ASSUME TypeOK, Numbered, Asked < MaxRequests
  PROVE  /\ NewId \in Ids /\ request[NewId] = NoKey
         /\ \A i \in Ids : request[i] # NoKey <=> i < NewId
<1>1. PICK n \in 0..MaxRequests : \A i \in Ids : request[i] # NoKey <=> i <= n
  BY DEF Numbered
<1>2. MaxRequests \in Nat
  BY PolicyAssumption
<1>3. {i \in Ids : request[i] # NoKey} = 1..n
  BY <1>1, <1>2 DEF Ids
<1>4. Cardinality(1..n) = n
  BY <1>2, FS_Interval
<1>5. Asked = n
  BY <1>3, <1>4 DEF Asked
<1>6. QED
  BY <1>1, <1>2, <1>5 DEF NewId, Ids

LEMMA InitInv == Init => Inv
<1> SUFFICES ASSUME Init
             PROVE  Inv
  OBVIOUS
<1>1. TypeOK
  BY PolicyAssumption DEF Init, TypeOK, OrNone, Verdicts
<1>2. Numbered
  BY PolicyAssumption DEF Init, Numbered, Ids
<1>3. QED
  BY <1>1, <1>2 DEF Init, Inv, OneTask, JobOfRequest, OfTheRequest, Granted, PermittedByServer,
     HeldNotFound, OverrideStands, Sourced, WillAgree, Live, Holds

(* A task that ends before its inserts, or without any, changes no more    *)
(* than what it was allowed to do.                                         *)
LEMMA Dropped ==
  ASSUME Inv, NEW t \in Tasks, Live(t), job[t].at \in {"lookup", "wait"},
         job' = [job EXCEPT ![t] = NoJob], permitted' \subseteq granted,
         UNCHANGED <<table, index, server, overrides, restarts, past>>
  PROVE  Inv'
<1> USE DEF Inv, server, past
<1>1. \A u \in Tasks : u # t => job'[u] = job[u]
  BY DEF TypeOK
<1>2. job'[t] = NoJob
  BY DEF TypeOK
<1>3. TypeOK'
  BY <1>1, <1>2 DEF TypeOK
<1>4. Numbered'
  BY DEF Numbered
<1>5. OneTask' /\ JobOfRequest' /\ HeldNotFound'
  BY <1>1, <1>2 DEF OneTask, JobOfRequest, HeldNotFound, Live, Holds
<1>6. OfTheRequest' /\ Granted' /\ PermittedByServer' /\ OverrideStands'
  BY DEF OfTheRequest, Granted, PermittedByServer, OverrideStands
<1>7. Sourced'
  BY <1>1, <1>2 DEF Sourced, Live, Holds
<1>8. WillAgree'
  BY <1>1, <1>2 DEF WillAgree, Live
<1>9. QED
  BY <1>3, <1>4, <1>5, <1>6, <1>7, <1>8

LEMMA BeginInv ==
  ASSUME Inv, NEW t \in Tasks, NEW k \in Keys, NEW asks \in BOOLEAN, Begin(t, k, asks)
  PROVE  Inv'
<1> USE DEF Inv, server, hist, past
<1> DEFINE j == [key |-> k, asks |-> asks, id |-> 0, at |-> "lookup", verdict |-> "deny"]
<1>1. /\ \A u \in Tasks : u # t => job'[u] = job[u]
      /\ job'[t] = j /\ job[t] = NoJob
      /\ UNCHANGED <<table, index, server, overrides, restarts, hist>>
  BY DEF Begin, TypeOK
<1>2. j \in Job
  BY DEF Job, Verdicts
<1> HIDE DEF j
<1>3. j.at = "lookup" /\ j.id = 0
  BY DEF j
<1>4. TypeOK'
  BY <1>1, <1>2 DEF Begin, TypeOK
<1>5. Numbered'
  BY <1>1 DEF Numbered
<1>6. OneTask' /\ JobOfRequest' /\ HeldNotFound'
  BY <1>1, <1>3 DEF OneTask, JobOfRequest, HeldNotFound, Live, Holds
<1>7. OfTheRequest' /\ Granted' /\ PermittedByServer' /\ OverrideStands'
  BY <1>1 DEF OfTheRequest, Granted, PermittedByServer, OverrideStands
<1>8. Sourced'
  BY <1>1, <1>3 DEF Sourced, Live, Holds
<1>9. WillAgree'
  BY <1>1, <1>3 DEF WillAgree, Live
<1>10. QED
  BY <1>4, <1>5, <1>6, <1>7, <1>8, <1>9

LEMMA AnsweredInv ==
  ASSUME Inv, NEW t \in Tasks, Answered(t)
  PROVE  Inv'
<1>1. /\ Live(t) /\ job[t].at = "lookup" /\ job[t] \in Job
      /\ job' = [job EXCEPT ![t] = NoJob]
      /\ UNCHANGED <<table, index, server, overrides, restarts, past>>
  BY DEF Answered, AtStep, Finish, Live, Inv, TypeOK
<1>2. permitted' \subseteq permitted \cup {k \in Keys : table[k] = "permit"}
  BY <1>1 DEF Answered, Finish, Default, TableKey, Job
<1>3. permitted' \subseteq granted
  BY <1>2 DEF Inv, Granted, PermittedByServer
<1>4. QED
  BY <1>1, <1>3, Dropped

LEMMA NoAnswerInv ==
  ASSUME Inv, NEW t \in Tasks, NoAnswer(t)
  PROVE  Inv'
<1>1. /\ Live(t) /\ job[t].at = "wait"
      /\ job' = [job EXCEPT ![t] = NoJob] /\ permitted' = permitted
      /\ UNCHANGED <<table, index, server, overrides, restarts, past>>
  BY DEF NoAnswer, AtStep, Finish, Live, Undecided, Default
<1>2. QED
  BY <1>1, Dropped DEF Inv, PermittedByServer

LEMMA RaiseInv ==
  ASSUME Inv, NEW t \in Tasks, Raise(t)
  PROVE  Inv'
<1>1. /\ Live(t) /\ job[t].at = "wait"
      /\ job' = [job EXCEPT ![t] = NoJob] /\ permitted' = permitted
      /\ UNCHANGED <<table, index, server, overrides, restarts, past>>
  BY DEF Raise, AtStep, Live, hist
<1>2. QED
  BY <1>1, Dropped DEF Inv, PermittedByServer

LEMMA AskInv ==
  ASSUME Inv, NEW t \in Tasks, Ask(t)
  PROVE  Inv'
<1> USE DEF Inv, hist, past
<1>1. /\ NewId \in Ids /\ request[NewId] = NoKey
      /\ \A i \in Ids : request[i] # NoKey <=> i < NewId
  BY NewIdFresh DEF Ask
<1> DEFINE n == NewId
           j == [job[t] EXCEPT !.at = "wait", !.id = n]
           k == job[t].key
<1>2. /\ Live(t) /\ job[t] \in Job /\ job[t].at = "lookup" /\ job[t].asks /\ k \in Keys
      /\ j \in Job /\ j.at = "wait" /\ j.id = n /\ j.key = k /\ j.asks /\ k # NoKey /\ j # NoJob
  <2>1. Live(t) /\ job[t] \in Job /\ job[t].at = "lookup" /\ job[t].asks
    BY DEF Ask, AtStep, Live, TypeOK
  <2>2. j \in Job /\ j.at = "wait" /\ j.id = n /\ j.key = k /\ j.asks /\ k \in Keys
    BY <1>1, <2>1 DEF Job
  <2>3. QED
    BY <2>1, <2>2, PolicyAssumption
<1>3. /\ \A u \in Tasks : u # t => job'[u] = job[u]
      /\ job'[t] = j
      /\ \A i \in Ids : i # n => request'[i] = request[i]
      /\ request'[n] = k
      /\ UNCHANGED <<table, index, answer, policy, changes, overrides, restarts, hist>>
  BY <1>1 DEF Ask, TypeOK
<1>4. TypeOK'
  BY <1>1, <1>2, <1>3 DEF Ask, TypeOK
<1> HIDE DEF n, j, k
<1>5. n \in Ids /\ request[n] = NoKey /\ \A i \in Ids : request[i] # NoKey <=> i < n
  BY <1>1 DEF n
<1>6. Numbered'
  <2>1. \A i \in Ids : request'[i] # NoKey <=> i <= n
    BY <1>2, <1>3, <1>5 DEF Ids
  <2>2. n \in 0..MaxRequests
    BY <1>5, PolicyAssumption DEF Ids
  <2>3. QED
    BY <2>1, <2>2 DEF Numbered
<1>7. \A u \in Tasks : Holds(u, n) => FALSE
  BY <1>5, PolicyAssumption DEF JobOfRequest, Holds, Live, TypeOK, Job
<1>8. OneTask' /\ JobOfRequest'
  BY <1>2, <1>3, <1>5, <1>7 DEF OneTask, JobOfRequest, OfTheRequest, Live, Holds
<1>9. OfTheRequest' /\ Granted' /\ PermittedByServer' /\ OverrideStands'
  BY <1>3, <1>5 DEF OfTheRequest, Granted, PermittedByServer, OverrideStands, TypeOK, Override
<1>10. HeldNotFound'
  BY <1>2, <1>3, <1>5 DEF HeldNotFound, Holds, OfTheRequest
<1>11. Sourced'
  BY <1>2, <1>3 DEF Sourced, Holds
<1>12. answer[n] = "none" /\ \A m \in overrides : m.id # n
  BY <1>5 DEF OfTheRequest
<1>13. WillAgree'
  BY <1>2, <1>3, <1>12 DEF WillAgree, Live, TypeOK, Override
<1>14. QED
  BY <1>4, <1>6, <1>8, <1>9, <1>10, <1>11, <1>13

LEMMA ReceiveInv ==
  ASSUME Inv, NEW t \in Tasks, Receive(t)
  PROVE  Inv'
<1> USE DEF Inv, server, hist, past
<1> DEFINE j == [job[t] EXCEPT !.at = "cache", !.verdict = answer[job[t].id]]
<1>1. /\ Live(t) /\ job[t] \in Job /\ job[t].at = "wait" /\ answer[job[t].id] # "none"
      /\ \A u \in Tasks : u # t => job'[u] = job[u]
      /\ job'[t] = j
      /\ UNCHANGED <<table, index, server, overrides, restarts, hist>>
  BY OrderValues DEF Receive, AtStep, Live, TypeOK
<1>2. /\ j \in Job /\ j.at = "cache" /\ j.id = job[t].id /\ j.key = job[t].key /\ j.asks = job[t].asks
      /\ j.verdict = answer[job[t].id]
  <2>1. job[t].id \in Ids
    BY <1>1 DEF JobOfRequest
  <2>2. answer[job[t].id] \in Verdicts
    BY <1>1, <2>1 DEF TypeOK, OrNone
  <2>3. QED
    BY <1>1, <2>2 DEF Job
<1>3. TypeOK'
  BY <1>1, <1>2 DEF Receive, TypeOK
<1> HIDE DEF j
<1>4. OneTask' /\ JobOfRequest' /\ HeldNotFound'
  BY <1>1, <1>2 DEF OneTask, JobOfRequest, HeldNotFound, Live, Holds
<1>5. Numbered' /\ OfTheRequest' /\ Granted' /\ PermittedByServer' /\ OverrideStands'
  BY <1>1 DEF Numbered, OfTheRequest, Granted, PermittedByServer, OverrideStands
<1>6. Sourced'
  BY <1>1, <1>2 DEF Sourced, Holds
<1>7. WillAgree'
  BY <1>1, <1>2 DEF WillAgree, Live
<1>8. QED
  BY <1>3, <1>4, <1>5, <1>6, <1>7

LEMMA CacheDecisionInv ==
  ASSUME Inv, NEW t \in Tasks, CacheDecision(t)
  PROVE  Inv'
<1> USE DEF Inv, server
<1> DEFINE j == [job[t] EXCEPT !.at = "index"]
           i == job[t].id
           k == job[t].key
           v == job[t].verdict
<1>1. /\ Live(t) /\ job[t] \in Job /\ job[t].at = "cache"
      /\ \A u \in Tasks : u # t => job'[u] = job[u]
      /\ job'[t] = j
      /\ UNCHANGED <<index, server, overrides, restarts, permitted, granted, applied, crossed>>
  BY OrderValues DEF CacheDecision, Proceed, AtStep, Live, TypeOK
<1>2. /\ i \in Ids /\ k \in Keys /\ v \in Verdicts /\ request[i] = k /\ answer[i] = v /\ i # 0
      /\ v # "none"
  BY <1>1 DEF JobOfRequest, Live, Job, Verdicts, Ids
<1>3. /\ j \in Job /\ j.at = "index" /\ j.id = i /\ j.key = k /\ j.verdict = v /\ j.asks = job[t].asks
  BY <1>1 DEF Job
<1>4. /\ \A q \in Keys : q # k => table'[q] = table[q] /\ source'[q] = source[q]
      /\ table'[k] = v /\ source'[k] = i
      /\ table' = [table EXCEPT ![k] = v] /\ source' = [source EXCEPT ![k] = i]
  BY <1>2 DEF CacheDecision, TableKey, TypeOK
<1>5. Holds(t, i) /\ index[i] = NoKey
  BY <1>1, <1>2 DEF HeldNotFound, Holds, Live
<1>6. TypeOK'
  <2>1. job' \in [Tasks -> Job \cup {NoJob}]
    BY <1>3, OrderValues DEF CacheDecision, Proceed, TypeOK
  <2>2. table' \in [Keys -> OrNone(Verdicts)] /\ source' \in [Keys -> Ids \cup {0}]
    BY <1>2, <1>4 DEF TypeOK, OrNone
  <2>3. QED
    BY <1>1, <2>1, <2>2 DEF TypeOK
<1> HIDE DEF j, i, k, v
<1>7. OneTask' /\ JobOfRequest' /\ HeldNotFound'
  BY <1>1, <1>3, <1>4, <1>5 DEF OneTask, JobOfRequest, HeldNotFound, Live, Holds, i, k, v
<1>8. Numbered' /\ OfTheRequest' /\ PermittedByServer'
  BY <1>1, <1>2, <1>4 DEF Numbered, OfTheRequest, PermittedByServer
<1>9. Granted'
  BY <1>1, <1>2, <1>4 DEF Granted
<1>10. OverrideStands'
  BY <1>1, <1>2, <1>4, <1>5 DEF OverrideStands, HeldNotFound
<1>11. Sourced'
  <2>1. job'[t] # NoJob /\ job'[t].at = "index" /\ job'[t].id = i
    BY <1>1, <1>3, PolicyAssumption
  <2>2. ASSUME NEW q \in Keys, q # k
        PROVE  /\ table'[q] # "none" <=> source'[q] # 0
               /\ source'[q] # 0 /\ index'[source'[q]] = NoKey =>
                    \E u \in Tasks : /\ job'[u] # NoJob /\ job'[u].at = "index"
                                     /\ job'[u].id = source'[q]
    <3>1. table'[q] = table[q] /\ source'[q] = source[q] /\ index' = index
      BY <1>1, <1>4, <2>2
    <3>2. \A u \in Tasks : job[u] # NoJob /\ job[u].at = "index" => job'[u] = job[u]
      BY <1>1
    <3>3. QED
      BY <3>1, <3>2 DEF Sourced, Holds
  <2>3. QED
    BY <1>2, <1>4, <2>1, <2>2 DEF Sourced, Holds
<1>12. WillAgree'
  BY <1>1, <1>2, <1>3, <1>4, <1>5 DEF WillAgree, Live, Holds, i, k
<1>13. QED
  BY <1>6, <1>7, <1>8, <1>9, <1>10, <1>11, <1>12

LEMMA CacheRequestInv ==
  ASSUME Inv, NEW t \in Tasks, CacheRequest(t)
  PROVE  Inv'
<1> USE DEF Inv, server, past
<1> DEFINE i == job[t].id
           k == job[t].key
<1>1. /\ Live(t) /\ job[t] \in Job /\ job[t].at = "index"
      /\ \A u \in Tasks : u # t => job'[u] = job[u]
      /\ job'[t] = NoJob /\ job' \in [Tasks -> Job \cup {NoJob}]
      /\ permitted' \in {permitted, permitted \cup IF job[t].verdict = "permit" THEN {k} ELSE {}}
      /\ UNCHANGED <<table, server, overrides, restarts, past>>
  BY OrderValues DEF CacheRequest, Proceed, Finish, AtStep, Live, TypeOK
<1>2. /\ i \in Ids /\ k \in Keys /\ request[i] = k /\ answer[i] = job[t].verdict
      /\ answer[i] # "none" /\ k # NoKey
  BY <1>1, PolicyAssumption DEF JobOfRequest, Live, Job
<1>3. /\ \A h \in Ids : h # i => index'[h] = index[h]
      /\ index'[i] = k /\ index' \in [Ids -> Keys \cup {NoKey}]
  BY <1>2 DEF CacheRequest, TableKey, TypeOK
<1>4. Holds(t, i) /\ \A u \in Tasks : Holds(u, i) => u = t
  BY <1>1, <1>2 DEF OneTask, Holds, Live
<1>5. permitted' \subseteq granted
  BY <1>1, <1>2 DEF Granted, PermittedByServer
<1> HIDE DEF i, k
<1>6. TypeOK'
  BY <1>1, <1>3, <1>5 DEF TypeOK
<1>7. OneTask' /\ JobOfRequest'
  BY <1>1 DEF OneTask, JobOfRequest, Live, Holds
<1>8. HeldNotFound'
  BY <1>1, <1>2, <1>3, <1>4 DEF HeldNotFound, Holds
<1>9. OfTheRequest'
  BY <1>1, <1>2, <1>3 DEF OfTheRequest, TypeOK, Override
<1>10. Numbered' /\ Granted' /\ PermittedByServer' /\ OverrideStands'
  BY <1>1, <1>5 DEF Numbered, Granted, PermittedByServer, OverrideStands
<1>11. Sourced'
  BY <1>1, <1>2, <1>3 DEF Sourced, Holds, TypeOK, i
<1>12. WillAgree'
  BY <1>1 DEF WillAgree, Live
<1>13. QED
  BY <1>6, <1>7, <1>8, <1>9, <1>10, <1>11, <1>12

-----------------------------------------------------------------------------
(* The server *)

LEMMA AnswerInv ==
  ASSUME Inv, NEW i \in Ids, Answer(i)
  PROVE  Inv'
<1> USE DEF Inv, node
<1> DEFINE k == request[i]
<1>1. /\ k \in Keys /\ answer[i] = "none" /\ policy[k] \in Verdicts
      /\ \A h \in Ids : h # i => answer'[h] = answer[h]
      /\ answer'[i] = policy[k] /\ answer' \in [Ids -> OrNone(Verdicts)]
      /\ granted' = IF policy[k] = "permit" THEN granted \cup {k} ELSE granted
      /\ UNCHANGED <<node, request, policy, changes, overrides, restarts, permitted, applied, source, crossed>>
  BY DEF Answer, TypeOK, OrNone
<1>2. answer'[i] # "none" /\ k # NoKey
  BY <1>1, PolicyAssumption DEF Verdicts
<1> HIDE DEF k
<1>3. TypeOK'
  BY <1>1 DEF TypeOK
<1>4. Numbered' /\ OneTask' /\ HeldNotFound' /\ OverrideStands' /\ Sourced' /\ PermittedByServer'
  BY <1>1 DEF Numbered, OneTask, HeldNotFound, OverrideStands, Sourced, PermittedByServer, Holds
<1>5. JobOfRequest'
  BY <1>1, <1>2 DEF JobOfRequest, Live
<1>6. OfTheRequest'
  BY <1>1, <1>2 DEF OfTheRequest, TypeOK, Override, k
<1>7. Granted'
  BY <1>1, <1>2 DEF Granted, k
<1>8. WillAgree'
  BY <1>1, <1>2 DEF WillAgree, Live, JobOfRequest, k
<1>9. QED
  BY <1>3, <1>4, <1>5, <1>6, <1>7, <1>8

LEMMA ChangeMindInv ==
  ASSUME Inv, NEW k \in Keys, ChangeMind(k)
  PROVE  Inv'
<1> USE DEF Inv, node
<1> DEFINE v == Other(policy[k])
           new == {[id |-> i, verdict |-> v, change |-> changes + 1, at |-> "wire"] : i \in About(k)}
<1>1. /\ changes \in Nat /\ v \in Verdicts /\ v # policy[k]
      /\ changes' = changes + 1 /\ policy' = [policy EXCEPT ![k] = v]
      /\ overrides' = overrides \cup new
      /\ granted' = IF v = "permit" THEN granted \cup {k} ELSE granted
      /\ crossed' = IF \E m \in overrides : request[m.id] = k THEN crossed \cup {k} ELSE crossed
      /\ UNCHANGED <<node, request, answer, restarts, permitted, applied, source>>
  BY DEF ChangeMind, Other, TypeOK, Verdicts
<1>2. /\ \A q \in Keys : q # k => policy'[q] = policy[q]
      /\ policy'[k] = v /\ policy' \in [Keys -> Verdicts]
  BY <1>1 DEF TypeOK
<1>3. \A m \in new : /\ m.id \in Ids /\ request[m.id] = k /\ answer[m.id] # "none"
                     /\ m.verdict = v /\ m.at = "wire" /\ m \in Override
  BY <1>1 DEF About, Override
<1>4. \A i \in Ids : request[i] = k /\ answer[i] # "none" => \E m \in new : m.id = i
  <2>1. SUFFICES ASSUME NEW i \in About(k)
                 PROVE  \E m \in new : m.id = i
    BY DEF About
  <2>2. [id |-> i, verdict |-> v, change |-> changes + 1, at |-> "wire"] \in new
    OBVIOUS
  <2>3. QED
    BY <2>2
<1> HIDE DEF v, new
<1>5. TypeOK'
  BY <1>1, <1>2, <1>3 DEF TypeOK
<1>6. Numbered' /\ OneTask' /\ HeldNotFound' /\ OverrideStands' /\ Sourced' /\ PermittedByServer'
  BY <1>1 DEF Numbered, OneTask, HeldNotFound, OverrideStands, Sourced, PermittedByServer, Holds
<1>7. JobOfRequest' /\ OfTheRequest'
  BY <1>1, <1>3 DEF JobOfRequest, OfTheRequest, Live
<1>8. Granted'
  BY <1>1, <1>3 DEF Granted
<1>9. WillAgree'
  <2>1. ASSUME NEW m \in overrides', request[m.id] \notin crossed'
        PROVE  m.verdict = policy'[request[m.id]]
    <3>1. CASE m \in new
      BY <1>2, <1>3, <3>1
    <3>2. CASE m \in overrides
      <4>1. m.id \in Ids /\ request[m.id] # k /\ request[m.id] \in Keys /\ request[m.id] \notin crossed
        BY <1>1, <2>1, <3>2 DEF OfTheRequest, TypeOK, Override
      <4>2. QED
        BY <1>2, <3>2, <4>1 DEF WillAgree
    <3>3. QED
      BY <1>1, <3>1, <3>2
  <2>2. ASSUME NEW t \in Tasks, Live(t), job[t].at # "lookup", job[t].key \notin crossed'
        PROVE  \/ answer[job[t].id] \in {"none", policy'[job[t].key]}
               \/ \E m \in overrides' : m.id = job[t].id
    <3>1. job[t].id \in Ids /\ job[t].key \in Keys /\ request[job[t].id] = job[t].key
      BY <2>2 DEF JobOfRequest, TypeOK, Live, Job
    <3>2. CASE job[t].key = k
      BY <1>1, <1>4, <3>1, <3>2
    <3>3. CASE job[t].key # k
      BY <1>1, <1>2, <2>2, <3>1, <3>3 DEF WillAgree
    <3>4. QED
      BY <3>2, <3>3
  <2>3. ASSUME NEW q \in Keys \ crossed', source[q] # 0
        PROVE  table[q] = policy'[q] \/ \E m \in overrides' : m.id = source[q]
    <3>1. source[q] \in Ids /\ request[source[q]] = q /\ answer[source[q]] # "none"
      BY <2>3 DEF OfTheRequest, TypeOK
    <3>2. CASE q = k
      BY <1>1, <1>4, <3>1, <3>2
    <3>3. CASE q # k
      BY <1>1, <1>2, <2>3, <3>3 DEF WillAgree
    <3>4. QED
      BY <3>2, <3>3
  <2>4. QED
    BY <1>1, <2>1, <2>2, <2>3 DEF WillAgree, Live
<1>10. QED
  BY <1>5, <1>6, <1>7, <1>8, <1>9

-----------------------------------------------------------------------------
(* Overrides at the node *)

LEMMA IgnoreInv ==
  ASSUME Inv, NEW m \in overrides, Ignore(m)
  PROVE  Inv'
<1> USE DEF Inv, node, server
<1>1. /\ m.id \in Ids /\ index[m.id] = NoKey /\ overrides' = overrides \ {m}
      /\ request[m.id] \in Keys
      /\ crossed' = IF Underway(m.id) THEN crossed \cup {request[m.id]} ELSE crossed
      /\ UNCHANGED <<node, server, restarts, permitted, granted, applied, source>>
  BY DEF Ignore, TypeOK, Override, OfTheRequest
<1>2. TypeOK'
  BY <1>1 DEF TypeOK
<1>3. Numbered' /\ OneTask' /\ HeldNotFound' /\ OverrideStands' /\ Sourced' /\ PermittedByServer'
  BY <1>1 DEF Numbered, OneTask, HeldNotFound, OverrideStands, Sourced, PermittedByServer, Holds
<1>4. JobOfRequest' /\ OfTheRequest' /\ Granted'
  BY <1>1 DEF JobOfRequest, OfTheRequest, Granted, Live
<1>5. WillAgree'
  <2>1. \A h \in overrides' : request[h.id] \notin crossed' => h.verdict = policy[request[h.id]]
    BY <1>1 DEF WillAgree
  <2>2. ASSUME NEW t \in Tasks, Live(t), job[t].at # "lookup", job[t].key \notin crossed'
        PROVE  \/ answer[job[t].id] \in {"none", policy[job[t].key]}
               \/ \E h \in overrides' : h.id = job[t].id
    <3>1. job[t].id # m.id
      BY <1>1, <2>2 DEF JobOfRequest, Underway, Live
    <3>2. QED
      BY <1>1, <2>2, <3>1 DEF WillAgree
  <2>3. ASSUME NEW q \in Keys \ crossed', source[q] # 0
        PROVE  table[q] = policy[q] \/ \E h \in overrides' : h.id = source[q]
    <3>1. source[q] # m.id
      BY <1>1, <2>3 DEF Sourced, Holds, Underway, OfTheRequest
    <3>2. QED
      BY <1>1, <2>3, <3>1 DEF WillAgree
  <2>4. QED
    BY <1>1, <2>1, <2>2, <2>3 DEF WillAgree, Live
<1>6. QED
  BY <1>2, <1>3, <1>4, <1>5

(* A lost override is answered for by its subject.                         *)
LEMMA MissInv ==
  ASSUME Inv, NEW m \in overrides, Miss(m)
  PROVE  Inv'
<1> USE DEF Inv, node, server
<1>1. /\ m.id \in Ids /\ overrides' = overrides \ {m} /\ request[m.id] \in Keys
      /\ crossed' = crossed \cup {request[m.id]}
      /\ UNCHANGED <<node, server, restarts, permitted, granted, applied, source>>
  BY DEF Miss, TypeOK, Override, OfTheRequest
<1>2. TypeOK'
  BY <1>1 DEF TypeOK
<1>3. Numbered' /\ OneTask' /\ HeldNotFound' /\ OverrideStands' /\ Sourced' /\ PermittedByServer'
  BY <1>1 DEF Numbered, OneTask, HeldNotFound, OverrideStands, Sourced, PermittedByServer, Holds
<1>4. JobOfRequest' /\ OfTheRequest' /\ Granted'
  BY <1>1 DEF JobOfRequest, OfTheRequest, Granted, Live
<1>5. WillAgree'
  <2>1. \A h \in overrides' : request[h.id] \notin crossed' => h.verdict = policy[request[h.id]]
    BY <1>1 DEF WillAgree
  <2>2. ASSUME NEW t \in Tasks, Live(t), job[t].at # "lookup", job[t].key \notin crossed'
        PROVE  \/ answer[job[t].id] \in {"none", policy[job[t].key]}
               \/ \E h \in overrides' : h.id = job[t].id
    BY <1>1, <2>2 DEF WillAgree, JobOfRequest
  <2>3. ASSUME NEW q \in Keys \ crossed', source[q] # 0
        PROVE  table[q] = policy[q] \/ \E h \in overrides' : h.id = source[q]
    BY <1>1, <2>3 DEF WillAgree, OfTheRequest
  <2>4. QED
    BY <1>1, <2>1, <2>2, <2>3 DEF WillAgree, Live
<1>6. QED
  BY <1>2, <1>3, <1>4, <1>5

LEMMA FindInv ==
  ASSUME Inv, NEW m \in overrides, Find(m)
  PROVE  Inv'
<1> USE DEF Inv, node, server, hist, past
<1> DEFINE h == [m EXCEPT !.at = "insert"]
<1>1. /\ m.id \in Ids /\ index[m.id] # NoKey /\ overrides' = (overrides \ {m}) \cup {h}
      /\ h \in Override /\ h.id = m.id /\ h.verdict = m.verdict
      /\ UNCHANGED <<node, server, restarts, hist>>
  BY DEF Find, TypeOK, Override
<1> HIDE DEF h
<1>2. TypeOK'
  BY <1>1 DEF TypeOK
<1>3. Numbered' /\ OneTask' /\ HeldNotFound' /\ OverrideStands' /\ Sourced' /\ PermittedByServer'
  BY <1>1 DEF Numbered, OneTask, HeldNotFound, OverrideStands, Sourced, PermittedByServer, Holds
<1>4. JobOfRequest' /\ OfTheRequest' /\ Granted'
  BY <1>1 DEF JobOfRequest, OfTheRequest, Granted, Live
<1>5. WillAgree'
  BY <1>1 DEF WillAgree, Live
<1>6. QED
  BY <1>2, <1>3, <1>4, <1>5

LEMMA InsertInv ==
  ASSUME Inv, NEW m \in overrides, Insert(m)
  PROVE  Inv'
<1> USE DEF Inv, server
<1> DEFINE i == m.id
           v == m.verdict
           k == index[m.id]
<1>1. /\ i \in Ids /\ v \in Verdicts /\ v # "none" /\ i # 0
      /\ k # NoKey /\ k \in Keys /\ request[i] = k /\ answer[i] # "none"
      /\ overrides' = overrides \ {m}
      /\ UNCHANGED <<index, job, server, restarts, permitted, granted, crossed>>
  BY DEF Insert, TypeOK, Override, OfTheRequest, Verdicts, Ids
<1>2. /\ \A q \in Keys : q # k => table'[q] = table[q] /\ source'[q] = source[q]
      /\ table'[k] = v /\ source'[k] = i
      /\ \A g \in Ids : g # i => applied'[g] = applied[g]
      /\ applied'[i] = v
  BY <1>1 DEF Insert, Overridden, TypeOK
<1>3. TypeOK'
  <2>1. /\ table' \in [Keys -> OrNone(Verdicts)] /\ source' \in [Keys -> Ids \cup {0}]
        /\ applied' \in [Ids -> OrNone(Verdicts)]
    BY <1>1 DEF Insert, Overridden, TypeOK, OrNone
  <2>2. QED
    BY <1>1, <2>1 DEF TypeOK
<1>4. m.verdict = v /\ m.id = i /\ index[i] = k
  OBVIOUS
<1> HIDE DEF i, k, v
<1>5. Numbered' /\ OneTask' /\ JobOfRequest' /\ PermittedByServer'
  BY <1>1 DEF Numbered, OneTask, JobOfRequest, PermittedByServer, Holds, Live
<1>6. OfTheRequest'
  BY <1>1, <1>2 DEF OfTheRequest
<1>7. Granted'
  BY <1>1, <1>2, <1>4 DEF Granted
<1>8. HeldNotFound'
  BY <1>1, <1>2, <1>4 DEF HeldNotFound, Holds
<1>9. OverrideStands'
  <2>1. ASSUME NEW q \in Keys, q # k, source'[q] # 0, applied'[source'[q]] # "none"
        PROVE  table'[q] = applied'[source'[q]]
    <3>1. source[q] \in Ids /\ source[q] # i
      BY <1>1, <1>2, <2>1 DEF OfTheRequest, TypeOK
    <3>2. QED
      BY <1>2, <2>1, <3>1 DEF OverrideStands
  <2>2. QED
    BY <1>2, <2>1 DEF OverrideStands
<1>10. Sourced'
  BY <1>1, <1>2, <1>4 DEF Sourced, Holds
<1>11. WillAgree'
  <2>1. \A h \in overrides' : request[h.id] \notin crossed => h.verdict = policy[request[h.id]]
    BY <1>1 DEF WillAgree
  <2>2. ASSUME NEW t \in Tasks, Live(t), job[t].at # "lookup", job[t].key \notin crossed
        PROVE  \/ answer[job[t].id] \in {"none", policy[job[t].key]}
               \/ \E h \in overrides' : h.id = job[t].id
    <3>1. job[t].id # i
      BY <1>1, <1>4, <2>2 DEF JobOfRequest, HeldNotFound, Holds, Live
    <3>2. QED
      BY <1>1, <1>4, <2>2, <3>1 DEF WillAgree
  <2>3. ASSUME NEW q \in Keys \ crossed, source'[q] # 0
        PROVE  table'[q] = policy[q] \/ \E h \in overrides' : h.id = source'[q]
    <3>1. CASE q = k
      BY <1>1, <1>2, <1>4, <3>1 DEF WillAgree
    <3>2. CASE q # k
      <4>1. source'[q] = source[q] /\ table'[q] = table[q] /\ source[q] # m.id
        BY <1>1, <1>2, <1>4, <2>3, <3>2 DEF OfTheRequest
      <4>2. QED
        BY <1>1, <2>3, <4>1 DEF WillAgree
    <3>3. QED
      BY <3>1, <3>2
  <2>4. QED
    BY <1>1, <2>1, <2>2, <2>3 DEF WillAgree, Live
<1>12. QED
  BY <1>3, <1>5, <1>6, <1>7, <1>8, <1>9, <1>10, <1>11

LEMMA RestartInv ==
  ASSUME Inv, Restart
  PROVE  Inv'
<1> USE DEF Inv, Restart, server
<1>1. TypeOK'
  BY DEF TypeOK, OrNone
<1>2. Numbered'
  BY DEF Numbered
<1>3. QED
  BY <1>1, <1>2 DEF OneTask, JobOfRequest, OfTheRequest, Granted, PermittedByServer, HeldNotFound,
     OverrideStands, Sourced, WillAgree, Live, Holds

-----------------------------------------------------------------------------

LEMMA StutterInv ==
  ASSUME Inv, UNCHANGED vars
  PROVE  Inv'
BY DEF vars, node, server, hist, past, Inv, TypeOK, Numbered, OneTask, JobOfRequest, OfTheRequest,
   Granted, PermittedByServer, HeldNotFound, OverrideStands, Sourced, WillAgree, Live, Holds

(* Types, the three properties and what they rest on hold throughout, for  *)
(* any number of evaluations, overrides and restarts (PolicyManager).      *)
THEOREM Invariance == Spec => []Inv
<1>1. ASSUME Inv, [Next]_vars
      PROVE  Inv'
  <2>1. ASSUME NEW t \in Tasks, NEW k \in Keys, NEW asks \in BOOLEAN, Begin(t, k, asks)
        PROVE  Inv'
    BY <1>1, <2>1, BeginInv
  <2>2. ASSUME NEW t \in Tasks, TaskStep(t)
        PROVE  Inv'
    BY <1>1, <2>2, AnsweredInv, AskInv, ReceiveInv, NoAnswerInv, RaiseInv, CacheDecisionInv,
       CacheRequestInv DEF TaskStep
  <2>3. ASSUME NEW i \in Ids, Answer(i)
        PROVE  Inv'
    BY <1>1, <2>3, AnswerInv
  <2>4. ASSUME NEW k \in Keys, ChangeMind(k)
        PROVE  Inv'
    BY <1>1, <2>4, ChangeMindInv
  <2>5. ASSUME NEW m \in overrides, OverrideStep(m)
        PROVE  Inv'
    BY <1>1, <2>5, IgnoreInv, FindInv, InsertInv DEF OverrideStep
  <2>9. ASSUME NEW m \in overrides, Miss(m)
        PROVE  Inv'
    BY <1>1, <2>9, MissInv
  <2>6. CASE Restart
    BY <1>1, <2>6, RestartInv
  <2>7. CASE UNCHANGED vars
    BY <1>1, <2>7, StutterInv
  <2>8. QED
    BY <1>1, <2>1, <2>2, <2>3, <2>4, <2>5, <2>6, <2>7, <2>9 DEF Next
<1>2. QED
  BY <1>1, InitInv, PTL DEF Spec

(* The state stays within its types (Init and every action).               *)
THEOREM TypeCorrect == Spec => []TypeOK
<1>1. Inv => TypeOK
  BY DEF Inv
<1>2. QED
  BY <1>1, Invariance, PTL

(* A host with a policy topic lets nothing happen that the server did not  *)
(* permit for the same subject, at any interleaving of evaluations,        *)
(* answers, overrides and restarts (evaluate_action).                      *)
THEOREM PermissionIsTheServers == Spec => []PermittedByServer
<1>1. Inv => PermittedByServer
  BY DEF Inv
<1>2. QED
  BY <1>1, Invariance, PTL

(* An answer never undoes the override of its own request (cache_decision  *)
(* inserts the request id last, override_decision looks it up first).      *)
THEOREM OverridesStand == Spec => []OverrideStands
<1>1. Inv => OverrideStands
  BY DEF Inv
<1>2. QED
  BY <1>1, Invariance, PTL

(* When nothing about a subject is under way, and no override of it was    *)
(* crossed or lost, the decision in the table is the server's present one          *)
(* (cache_decision, override_decision).                                    *)
THEOREM TableAgreesAtRest == Spec => []AgreesAtRest
<1>1. Inv => AgreesAtRest
  <2>1. SUFFICES ASSUME Inv, NEW k \in Keys \ crossed, AtRest(k), table[k] # "none"
                 PROVE  table[k] = policy[k]
    BY DEF AgreesAtRest
  <2>2. source[k] # 0 /\ request[source[k]] = k
    BY <2>1 DEF Inv, Sourced, OfTheRequest
  <2>3. QED
    BY <2>1, <2>2 DEF AtRest, Inv, WillAgree
<1>2. QED
  BY <1>1, Invariance, PTL
=============================================================================
