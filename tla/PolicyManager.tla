---------------------------- MODULE PolicyManager ----------------------------
(***************************************************************************)
(* HostCore.Policy.Manager on one node: whether an action (start an actor, *)
(* start a provider, perform an invocation) is permitted.  The node asks   *)
(* the lattice's policy server once per subject, keeps the answer in the   *)
(* ETS table :policy_table, and lets the server override it later by the   *)
(* id of the request it answered.                                          *)
(*                                                                         *)
(* Evaluations run in the processes of their callers, overrides in a task  *)
(* per message (Gnat.ConsumerSupervisor): each insert and each lookup is a *)
(* step of its own.  The policy server is external: it answers when it     *)
(* likes, and sends an override for every answer it no longer stands by.   *)
(* A definition named X_Y is a faulty variant of X that no action uses.    *)
(***************************************************************************)
EXTENDS Integers, FiniteSets

CONSTANTS
  Tasks,        \* processes that evaluate actions
  Keys,         \* subjects: {source, target, action, lattice}
  Invalid,      \* subjects that validate_source, _target or _action refuse
  NoKey, NoJob,
  MaxRequests,  \* bound: requests to the policy server
  MaxChanges,   \* bound: changes of the server's mind
  MaxRestarts   \* bound: restarts of the node

Ids == 1..MaxRequests
Verdicts == {"permit", "deny"}

(* Where an evaluation stands: about to look up, waiting for the server,   *)
(* about to insert the decision and the request id.                        *)
Job == [key : Keys, asks : BOOLEAN, id : Ids \cup {0},
        at : {"lookup", "wait", "cache", "index"}, verdict : Verdicts]

Override == [id : Ids, verdict : Verdicts, change : Nat, at : {"wire", "insert"}]

ASSUME PolicyAssumption ==
  /\ Invalid \subseteq Keys /\ NoKey \notin Keys /\ NoJob \notin Job
  /\ MaxRequests \in Nat /\ MaxChanges \in Nat /\ MaxRestarts \in Nat

VARIABLES
  table,     \* :policy_table by subject: a verdict, or none
  index,     \* :policy_table by request id: the subject, or NoKey
  job,       \* job[t]: the evaluation t performs
  request,   \* request[i]: the subject of the i-th request to the server
  answer,    \* answer[i]: what the server answered it, or none
  overrides, \* overrides on their way to, or being handled by, the node
  policy,    \* the server's mind
  changes, restarts,
  permitted, \* history: subjects permitted to a host with a policy topic
  granted,   \* history: subjects the server has permitted at some time
  applied,   \* history: the last override inserted by request id
  source,    \* history: the request whose answer or override is in the table
  crossed    \* history: subjects with an override that crossed another
             \* change of mind, or the answer it was to override, or is lost

node   == <<table, index, job>>
server == <<request, answer, policy, changes>>
past   == <<granted, applied, source, crossed>>
hist   == <<permitted, past>>
vars   == <<node, server, overrides, restarts, hist>>

OrNone(S) == S \cup {"none"}

Init ==
  /\ table = [k \in Keys |-> "none"] /\ index = [i \in Ids |-> NoKey]
  /\ job = [t \in Tasks |-> NoJob]
  /\ request = [i \in Ids |-> NoKey] /\ answer = [i \in Ids |-> "none"]
  /\ overrides = {} /\ changes = 0 /\ restarts = 0
  /\ policy \in {f \in [Keys -> Verdicts] : \A k \in Invalid : f[k] = "deny"}
  /\ permitted = {} /\ granted = {} /\ applied = [i \in Ids |-> "none"]
  /\ source = [k \in Keys |-> 0] /\ crossed = {}

-----------------------------------------------------------------------------
(* evaluate_action *)

AtStep(t, step) == job[t] # NoJob /\ job[t].at = step
Asked == Cardinality({i \in Ids : request[i] # NoKey})

(* The rows of the table belong to the whole subject.                      *)
TableKey_Coarse(k) == CHOOSE q \in Keys : TRUE
TableKey(k) == k

(* The process is called by one virtual host; asks: its configuration      *)
(* names a policy topic.                                                   *)
Begin(t, k, asks) ==
  /\ job[t] = NoJob
  /\ job' = [job EXCEPT ![t] = [key |-> k, asks |-> asks, id |-> 0,
                               at |-> "lookup", verdict |-> "deny"]]
  /\ UNCHANGED <<table, index, server, overrides, restarts, hist>>

(* The caller goes on with the verdict.                                    *)
Finish(t, v) ==
  /\ job' = [job EXCEPT ![t] = NoJob]
  /\ permitted' = IF job[t].asks /\ v = "permit" THEN permitted \cup {job[t].key} ELSE permitted

(* Everything that yields no decision denies (@default_permit).            *)
Default == "deny"

(* No policy topic, or a decision in the table, or an invalid subject:     *)
(* answered without the server.                                            *)
Answered(t) ==
  LET k == TableKey(job[t].key)
  IN  /\ AtStep(t, "lookup")
      /\ \/ ~job[t].asks /\ Finish(t, "permit")
         \/ job[t].asks /\ table[k] # "none" /\ Finish(t, table[k])
         \/ job[t].asks /\ table[k] = "none" /\ job[t].key \in Invalid /\ Finish(t, Default)
      /\ UNCHANGED <<table, index, server, overrides, restarts, past>>

(* A request with a fresh id goes to the server.                           *)
NewId == Asked + 1

Ask(t) ==
  /\ AtStep(t, "lookup") /\ job[t].asks /\ table[TableKey(job[t].key)] = "none"
  /\ job[t].key \notin Invalid /\ Asked < MaxRequests
  /\ job' = [job EXCEPT ![t].at = "wait", ![t].id = NewId]
  /\ request' = [request EXCEPT ![NewId] = job[t].key]
  /\ UNCHANGED <<table, index, answer, policy, changes, overrides, restarts, hist>>

(* cache_decision first inserts the decision, then the request id.         *)
Order_Swapped == <<"index", "cache">>
Order == <<"cache", "index">>

(* What t does after an insert: the other one, or nothing more.            *)
Proceed(t, step) ==
  IF step = Order[1]
  THEN job' = [job EXCEPT ![t].at = Order[2]] /\ UNCHANGED permitted
  ELSE Finish(t, job[t].verdict)

Receive(t) ==
  /\ AtStep(t, "wait") /\ answer[job[t].id] # "none"
  /\ job' = [job EXCEPT ![t].at = Order[1], ![t].verdict = answer[job[t].id]]
  /\ UNCHANGED <<table, index, server, overrides, restarts, hist>>

(* cache_decision({decision, false}, ..): what the server did not decide is *)
(* not remembered.                                                         *)
Undecided_Cached(t) == [table EXCEPT ![TableKey(job[t].key)] = Default]
Undecided_Error(t) == [table EXCEPT ![TableKey(job[t].key)] = "timeout"]
Undecided(t) == table

(* No responder, a timeout, or an answer that does not decode: denied; an  *)
(* answer that comes later is dropped.                                     *)
NoAnswer(t) ==
  /\ AtStep(t, "wait")
  /\ Finish(t, Default)
  /\ table' = Undecided(t)
  /\ UNCHANGED <<index, server, overrides, restarts, past>>

(* An answer with a key that is no atom raises in the evaluating process.  *)
Raise(t) ==
  /\ AtStep(t, "wait") /\ answer[job[t].id] # "none"
  /\ job' = [job EXCEPT ![t] = NoJob]
  /\ UNCHANGED <<table, index, server, overrides, restarts, hist>>

CacheDecision(t) ==
  LET k == TableKey(job[t].key)
  IN  /\ AtStep(t, "cache")
      /\ table' = [table EXCEPT ![k] = job[t].verdict]
      /\ source' = [source EXCEPT ![k] = job[t].id]
      /\ Proceed(t, "cache")
      /\ UNCHANGED <<index, server, overrides, restarts, granted, applied, crossed>>

CacheRequest(t) ==
  /\ AtStep(t, "index")
  /\ index' = [index EXCEPT ![job[t].id] = TableKey(job[t].key)]
  /\ Proceed(t, "index")
  /\ UNCHANGED <<table, server, overrides, restarts, past>>

-----------------------------------------------------------------------------
(* The policy server (external) *)

About(k) == {i \in Ids : request[i] = k /\ answer[i] # "none"}

Answer(i) ==
  /\ request[i] # NoKey /\ answer[i] = "none"
  /\ answer' = [answer EXCEPT ![i] = policy[request[i]]]
  /\ granted' = IF policy[request[i]] = "permit" THEN granted \cup {request[i]} ELSE granted
  /\ UNCHANGED <<node, request, policy, changes, overrides, restarts, permitted, applied, source, crossed>>

Other(v) == IF v = "permit" THEN "deny" ELSE "permit"

(* Before the first request about a subject a change of mind is no event.  *)
ChangeMind(k) ==
  /\ changes < MaxChanges /\ \E i \in Ids : request[i] = k
  /\ changes' = changes + 1
  /\ policy' = [policy EXCEPT ![k] = Other(@)]
  /\ overrides' = overrides \cup
       {[id |-> i, verdict |-> policy'[k], change |-> changes', at |-> "wire"] : i \in About(k)}
  /\ granted' = IF policy'[k] = "permit" THEN granted \cup {k} ELSE granted
  /\ crossed' = IF \E m \in overrides : request[m.id] = k THEN crossed \cup {k} ELSE crossed
  /\ UNCHANGED <<node, request, answer, restarts, permitted, applied, source>>

-----------------------------------------------------------------------------
(* request/1: an override *)

Underway(i) == \E t \in Tasks : job[t] # NoJob /\ job[t].id = i

(* A request id that is not in the table is passed over; the server is     *)
(* told success all the same.                                              *)
Ignore(m) ==
  /\ m.at = "wire" /\ index[m.id] = NoKey
  /\ overrides' = overrides \ {m}
  /\ crossed' = IF Underway(m.id) THEN crossed \cup {request[m.id]} ELSE crossed
  /\ UNCHANGED <<node, server, restarts, permitted, granted, applied, source>>

Find(m) ==
  /\ m.at = "wire" /\ index[m.id] # NoKey
  /\ overrides' = (overrides \ {m}) \cup {[m EXCEPT !.at = "insert"]}
  /\ UNCHANGED <<node, server, restarts, hist>>

(* override_decision replaces the decision, and keeps the request id.      *)
Overridden_Never(k, v) == table[k]
Overridden(k, v) == v

Insert(m) ==
  LET k == index[m.id]
  IN  /\ m.at = "insert"
      /\ table' = [table EXCEPT ![k] = Overridden(k, m.verdict)]
      /\ overrides' = overrides \ {m}
      /\ applied' = [applied EXCEPT ![m.id] = m.verdict]
      /\ source' = [source EXCEPT ![k] = m.id]
      /\ UNCHANGED <<index, job, server, restarts, permitted, granted, crossed>>

(* An override does not get to override_decision: it is lost, does not     *)
(* decode, or no topic of policy changes is set (spec: nobody listens).    *)
Miss(m) ==
  /\ m.at = "wire"
  /\ overrides' = overrides \ {m}
  /\ crossed' = crossed \cup {request[m.id]}
  /\ UNCHANGED <<node, server, restarts, permitted, granted, applied, source>>

(* The node restarts with an empty table; what was in flight is lost.      *)
Restart ==
  /\ restarts < MaxRestarts
  /\ restarts' = restarts + 1
  /\ table' = [k \in Keys |-> "none"] /\ index' = [i \in Ids |-> NoKey]
  /\ job' = [t \in Tasks |-> NoJob]
  /\ overrides' = {}
  /\ applied' = [i \in Ids |-> "none"] /\ source' = [k \in Keys |-> 0]
  /\ UNCHANGED <<server, permitted, granted, crossed>>

-----------------------------------------------------------------------------

TaskStep(t) ==
  \/ Answered(t) \/ Ask(t) \/ Receive(t) \/ NoAnswer(t) \/ Raise(t)
  \/ CacheDecision(t) \/ CacheRequest(t)

OverrideStep(m) == Ignore(m) \/ Find(m) \/ Insert(m)

Next ==
  \/ \E t \in Tasks : \/ \E k \in Keys, asks \in BOOLEAN : Begin(t, k, asks)
                      \/ TaskStep(t)
  \/ \E i \in Ids : Answer(i)
  \/ \E k \in Keys : ChangeMind(k)
  \/ \E m \in overrides : OverrideStep(m) \/ Miss(m)
  \/ Restart

Spec == Init /\ [][Next]_vars

(* Every process of the node runs on; the server owes nothing.             *)
Fairness ==
  /\ \A t \in Tasks : WF_vars(TaskStep(t))
  /\ \A i \in Ids, n \in 1..MaxChanges :
       WF_vars(\E m \in overrides : m.id = i /\ m.change = n /\ OverrideStep(m))

FairSpec == Spec /\ Fairness

-----------------------------------------------------------------------------
(* Properties *)

TypeOK ==
  /\ table \in [Keys -> OrNone(Verdicts)] /\ index \in [Ids -> Keys \cup {NoKey}]
  /\ job \in [Tasks -> Job \cup {NoJob}]
  /\ request \in [Ids -> Keys \cup {NoKey}] /\ answer \in [Ids -> OrNone(Verdicts)]
  /\ overrides \subseteq Override /\ policy \in [Keys -> Verdicts]
  /\ changes \in Nat /\ restarts \in Nat
  /\ permitted \subseteq Keys /\ granted \subseteq Keys /\ applied \in [Ids -> OrNone(Verdicts)]
  /\ source \in [Keys -> Ids \cup {0}] /\ crossed \subseteq Keys

(* What a virtual host with a policy topic lets happen, the server has     *)
(* permitted for exactly this subject: never because of a timeout, an      *)
(* answer that does not decode, an invalid subject or another subject's    *)
(* decision (evaluate_action, cached_decision).                            *)
PermittedByServer == permitted \subseteq granted

(* An override that finds its request is not undone by the answer to that  *)
(* request, which an evaluation may be inserting at the same time          *)
(* (cache_decision, override_decision).                                    *)
OverrideStands ==
  \A k \in Keys : source[k] # 0 /\ applied[source[k]] # "none" =>
    table[k] = applied[source[k]]

AtRest(k) == /\ \A t \in Tasks : job[t] = NoJob \/ job[t].key # k
             /\ \A m \in overrides : request[m.id] # k

(* At rest the table holds what the server thinks, whichever evaluations   *)
(* of one subject overlapped with whichever change of mind, as long as no  *)
(* override was lost, or crossed another one or the answer it overrides.   *)
AgreesAtRest ==
  \A k \in Keys \ crossed : AtRest(k) /\ table[k] # "none" => table[k] = policy[k]

(* A permission that the server withdraws is withdrawn on the node - unless*)
(* an override of the subject is lost, comes before the decision it is to  *)
(* override is in the table (passed over, and acknowledged all the same),  *)
(* or crosses another one: then the permission stays (request/1,           *)
(* override_decision).                                                     *)
WithdrawnEventually ==
  \A k \in Keys :
    (policy[k] = "deny" /\ table[k] = "permit")
      ~> (table[k] # "permit" \/ policy[k] = "permit" \/ k \in crossed)
=============================================================================
