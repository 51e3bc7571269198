------------------------ MODULE MetadataCache_proofs ------------------------
(* Safety of MetadataCache, and its refinement of ReplicatedRegister, for  *)
(* every set of hosts, keys and requests.                                  *)
EXTENDS MetadataCache, TLAPS

(* Only a put of claims stops at the alias step, and only requests for     *)
(* links publish.                                                          *)
OfLinks == {"publish", "lookup", "uncache", "purge", "retract"}

StepKeysOK ==
  \A t \in Busy : /\ job[t].at = "alias" => job[t].key \in ClaimKeys
                  /\ job[t].at \in OfLinks => job[t].key \in LinkKeys

Typed == TypeOK /\ StepKeysOK

(* What the two kinds of process do with the tables, the records they make *)
(* and the jobs they leave is well typed.                                  *)
LEMMA WriteTyped ==
  ASSUME TypeOK, NEW k \in Keys, NEW op \in {"put", "purge"}, NEW v \in OrNone(Values),
         Write(k, op, v)
  PROVE  bucket' \in [Keys -> Record] /\ written' \in Nat /\ echoes' \subseteq Echo
<1>1. Newest(k, op, v) \in Record /\ Newest(k, op, v).op = op
  BY DEF TypeOK, Newest, Record
<1>2. \A h \in Recipients : Message(h, k, Newest(k, op, v)) \in Echo
  BY <1>1 DEF TypeOK, Recipients, Message, Record, Echo, OrNone
<1> QED
  BY <1>1, <1>2 DEF TypeOK, Write

LEMMA CacheTyped ==
  ASSUME TypeOK, NEW h \in Hosts, NEW k \in Keys, NEW v \in OrNone(Values), Cache(h, k, v)
  PROVE  cache' \in [Hosts -> [Keys -> OrNone(Values)]]
BY DEF TypeOK, Cache

LEMMA AliasTyped ==
  ASSUME TypeOK, NEW h \in Hosts, NEW k \in ClaimKeys, CacheAlias(h, k)
  PROVE  alias' \in [Hosts -> [Aliases -> ClaimKeys \cup {NoKey}]]
BY DEF TypeOK, CacheAlias, AliasAfter, Claimable

LEMMA ToldTyped ==
  ASSUME TypeOK, NEW k, NEW v \in OrNone(Values), Tell(k, v) \/ Retract(k, v)
  PROVE  told' \in [LinkKeys -> [Providers -> OrNone(Values)]]
<1>1. CASE Tell(k, v)
  BY <1>1 DEF TypeOK, Tell
<1>2. CASE Retract(k, v)
  BY <1>2 DEF TypeOK, Retract, OrNone
<1> QED BY <1>1, <1>2

LEMMA HeardTyped ==
  ASSUME TypeOK, NEW k \in LinkKeys, NEW v,
         Heard(k) \/ Dropped(k) \/ HeardAgain(k, v) \/ DroppedAgain
  PROVE  failed' \in Nat /\ unheard' \subseteq LinkKeys
BY DEF TypeOK, Heard, Dropped, HeardAgain, DroppedAgain

LEMMA JobTyped ==
  ASSUME TypeOK, NEW t \in Busy
  PROVE  /\ t \in Tasks /\ job[t] \in Job
         /\ job[t].key \in Keys /\ job[t].val \in Values /\ job[t].host \in Hosts
         /\ job[t].saw \in OrNone(Values)
BY DEF TypeOK, Busy, Job

LEMMA GotoTyped ==
  ASSUME Typed, NEW t \in Tasks, job[t] # NoJob,
         NEW step \in {"cache", "publish", "store", "uncache", "purge", "retract"},
         step \in OfLinks => job[t].key \in LinkKeys,
         Goto(t, step) \/ Done(t)
  PROVE  job' \in [Tasks -> Job \cup {NoJob}] /\ StepKeysOK'
<1>1. job[t] \in Job /\ [job[t] EXCEPT !.at = step] \in Job
  BY DEF Typed, TypeOK, Job
<1>2. [job[t] EXCEPT !.at = step] # NoJob
  BY <1>1, MetadataAssumption
<1>3. job' \in [Tasks -> Job \cup {NoJob}]
  BY <1>1 DEF Typed, TypeOK, Goto, Done
<1>4. \A u \in Tasks \ {t} : job'[u] = job[u]
  BY DEF Typed, TypeOK, Goto, Done
<1>5. job'[t] = NoJob \/ (job'[t].at = step /\ job'[t].key = job[t].key /\ job'[t] \in Job)
  BY <1>1 DEF Typed, TypeOK, Goto, Done, Job
<1> QED
  BY <1>3, <1>4, <1>5 DEF Typed, StepKeysOK, Busy

LEMMA TypeInit == Init => Typed
<1> SUFFICES ASSUME Init PROVE Typed
  OBVIOUS
<1>1. Busy = {}
  BY DEF Init, Busy
<1>2. TypeOK
  BY DEF Init, TypeOK, Record, OrNone, Trusts
<1> QED BY <1>1, <1>2 DEF Typed, StepKeysOK

(* A request of its own task, a message of its own.                        *)
LEMMA TypeArrive ==
  ASSUME Typed, NEW t \in Tasks, NEW r \in Requests, NEW h \in Hosts, Arrive(t, r, h)
  PROVE  Typed'
<1> DEFINE j == [op |-> r.op, key |-> r.key, val |-> r.val,
                 host |-> h, at |-> EntryPoint(r), saw |-> NoValue]
<1>1. r \in Request
  BY MetadataAssumption
<1>2. /\ j \in Job
      /\ j.at = "alias" => j.key \in ClaimKeys
      /\ j.at \in OfLinks => j.key \in LinkKeys
  BY <1>1, MetadataAssumption DEF Request, Job, EntryPoint, OrNone, OfLinks
<1>3. job' = [job EXCEPT ![t] = j]
  BY DEF Arrive
<1>4. job' \in [Tasks -> Job \cup {NoJob}]
  BY <1>2, <1>3 DEF Typed, TypeOK
<1>5. StepKeysOK'
  BY <1>2, <1>3 DEF Typed, TypeOK, StepKeysOK, Busy
<1>6. trust' \in [Keys -> Trusts]
  BY DEF Arrive, Trust, Typed, TypeOK, Trusts
<1>7. arrived' \in Nat
  BY DEF Arrive, Typed, TypeOK
<1> QED
  BY <1>4, <1>5, <1>6, <1>7 DEF Arrive, Typed, TypeOK, tables, store

LEMMA TypeTask ==
  ASSUME Typed, NEW t \in Tasks, TaskStep(t)
  PROVE  Typed'
<1>0. t \in Busy
  BY DEF TaskStep, PutAlias, PutCache, PutPublish, PutStore, PutStoreFails, DelLookup,
         DelUncache, DelNoVhost, DelPurge, DelPurgeFails, DelRetract, AtStep, Busy
<1>1. /\ job[t] \in Job /\ job[t] # NoJob
      /\ job[t].key \in Keys /\ job[t].val \in Values /\ job[t].host \in Hosts
      /\ job[t].saw \in OrNone(Values) /\ NoValue \in OrNone(Values)
  BY <1>0, JobTyped DEF Typed, Busy, OrNone
<1>2. /\ job[t].val \in OrNone(Values)
      /\ job[t].at \in OfLinks => job[t].key \in LinkKeys
  BY <1>0, <1>1 DEF OrNone, Typed, StepKeysOK
<1>3. CASE PutAlias(t)
  <2>1. job[t].key \in ClaimKeys
    BY <1>0, <1>3 DEF PutAlias, AtStep, Typed, StepKeysOK
  <2>2. alias' \in [Hosts -> [Aliases -> ClaimKeys \cup {NoKey}]]
    BY <1>1, <1>3, <2>1, AliasTyped DEF PutAlias, Typed
  <2>3. job' \in [Tasks -> Job \cup {NoJob}] /\ StepKeysOK'
    BY <1>1, <1>3, GotoTyped DEF PutAlias, OfLinks
  <2> QED
    BY <1>3, <2>2, <2>3 DEF PutAlias, Typed, TypeOK, store, bounds, hist
<1>4. CASE PutCache(t)
  <2>1. cache' \in [Hosts -> [Keys -> OrNone(Values)]]
    BY <1>1, <1>2, <1>4, CacheTyped DEF PutCache, Typed
  <2>2. job' \in [Tasks -> Job \cup {NoJob}] /\ StepKeysOK'
    BY <1>1, <1>4, GotoTyped DEF PutCache, AfterCache, OfLinks
  <2> QED
    BY <1>4, <2>1, <2>2 DEF PutCache, Typed, TypeOK, store, bounds, hist
<1>5. CASE PutPublish(t)
  <2>1. told' \in [LinkKeys -> [Providers -> OrNone(Values)]]
    BY <1>2, <1>5, ToldTyped DEF PutPublish, Dropped, Typed, TypeOK
  <2>2. job' \in [Tasks -> Job \cup {NoJob}] /\ StepKeysOK'
    BY <1>1, <1>5, GotoTyped DEF PutPublish, OfLinks
  <2>3. failed' \in Nat /\ unheard' \subseteq LinkKeys
    BY <1>2, <1>5, HeardTyped DEF PutPublish, AtStep, OfLinks, Typed
  <2> QED
    BY <1>5, <2>1, <2>2, <2>3 DEF PutPublish, Typed, TypeOK, tables, store
<1>6. CASE PutStore(t)
  <2>1. bucket' \in [Keys -> Record] /\ written' \in Nat /\ echoes' \subseteq Echo
    BY <1>1, <1>2, <1>6, WriteTyped DEF PutStore, Typed
  <2>2. job' \in [Tasks -> Job \cup {NoJob}] /\ StepKeysOK'
    BY <1>1, <1>6, GotoTyped DEF PutStore, OfLinks
  <2>3. linked' \in [LinkKeys -> OrNone(Values)] /\ trust' \in [Keys -> Trusts]
    BY <1>2, <1>6 DEF PutStore, Trust, Trusts, Typed, TypeOK
  <2> QED
    BY <1>6, <2>1, <2>2, <2>3 DEF PutStore, Typed, TypeOK, tables, bounds
<1>7. CASE PutStoreFails(t)
  <2>1. job' \in [Tasks -> Job \cup {NoJob}] /\ StepKeysOK'
    BY <1>1, <1>7, GotoTyped DEF PutStoreFails, OfLinks
  <2>2. failed' \in Nat
    BY <1>7 DEF PutStoreFails, Typed, TypeOK
  <2>3. trust' \in [Keys -> Trusts]
    BY <1>7 DEF PutStoreFails, Disturb, Trust, Trusts, Typed, TypeOK
  <2> QED
    BY <1>7, <2>1, <2>2, <2>3 DEF PutStoreFails, Typed, TypeOK, tables, store
<1>8. CASE DelLookup(t)
  <2> DEFINE v == cache[job[t].host][job[t].key]
             j == [job[t] EXCEPT !.at = "uncache", !.saw = v]
  <2>1. v \in OrNone(Values)
    BY <1>1 DEF Typed, TypeOK
  <2>2. j \in Job /\ j.at = "uncache" /\ j.key = job[t].key
    BY <1>1, <2>1 DEF Job
  <2>3. job' = [job EXCEPT ![t] = IF v = NoValue THEN NoJob ELSE j]
    BY <1>8 DEF DelLookup
  <2> HIDE DEF v, j
  <2>4. j.key \in LinkKeys
    BY <1>2, <1>8, <2>2 DEF DelLookup, AtStep, OfLinks
  <2>5. /\ job' \in [Tasks -> Job \cup {NoJob}]
        /\ \A u \in Tasks : job'[u] \in {job[u], NoJob, j}
    BY <2>2, <2>3 DEF Typed, TypeOK
  <2>6. StepKeysOK'
    BY <2>2, <2>4, <2>5 DEF Typed, StepKeysOK, Busy
  <2> QED
    BY <1>8, <2>5, <2>6 DEF DelLookup, Typed, TypeOK, tables, store, bounds, hist
<1>9. CASE DelUncache(t)
  <2>1. cache' \in [Hosts -> [Keys -> OrNone(Values)]]
    BY <1>1, <1>9, CacheTyped DEF DelUncache, Typed
  <2>2. job' \in [Tasks -> Job \cup {NoJob}] /\ StepKeysOK'
    BY <1>1, <1>2, <1>9, GotoTyped DEF DelUncache, AtStep, OfLinks
  <2> QED
    BY <1>9, <2>1, <2>2 DEF DelUncache, Typed, TypeOK, store, bounds, hist
<1>10. CASE DelPurge(t)
  <2>1. bucket' \in [Keys -> Record] /\ written' \in Nat /\ echoes' \subseteq Echo
    BY <1>1, <1>10, WriteTyped DEF DelPurge, Typed
  <2>2. job' \in [Tasks -> Job \cup {NoJob}] /\ StepKeysOK'
    BY <1>1, <1>2, <1>10, GotoTyped DEF DelPurge, PublishDeleted, AtStep, OfLinks
  <2> QED
    BY <1>10, <2>1, <2>2 DEF DelPurge, Typed, TypeOK, tables, bounds, hist
<1>11. CASE DelPurgeFails(t) \/ DelNoVhost(t)
  <2>1. job' \in [Tasks -> Job \cup {NoJob}] /\ StepKeysOK'
    BY <1>1, <1>2, <1>11, GotoTyped DEF DelPurgeFails, DelNoVhost, PublishDeleted, AtStep, OfLinks
  <2>2. failed' \in Nat
    BY <1>11 DEF DelPurgeFails, DelNoVhost, Typed, TypeOK
  <2>3. trust' \in [Keys -> Trusts]
    BY <1>11 DEF DelPurgeFails, DelNoVhost, Disturb, Trust, Trusts, Typed, TypeOK
  <2> QED
    BY <1>11, <2>1, <2>2, <2>3 DEF DelPurgeFails, DelNoVhost, Typed, TypeOK, tables, store
<1>12. CASE DelRetract(t)
  <2>1. told' \in [LinkKeys -> [Providers -> OrNone(Values)]]
    BY <1>1, <1>12, ToldTyped DEF DelRetract, Dropped, Typed, TypeOK
  <2>2. job' \in [Tasks -> Job \cup {NoJob}] /\ StepKeysOK'
    BY <1>1, <1>2, <1>12, GotoTyped DEF DelRetract, AtStep, OfLinks
  <2>3. failed' \in Nat /\ unheard' \subseteq LinkKeys
    BY <1>2, <1>12, HeardTyped DEF DelRetract, AtStep, OfLinks, Typed
  <2> QED
    BY <1>12, <2>1, <2>2, <2>3 DEF DelRetract, Typed, TypeOK, tables, store
<1> QED
  BY <1>3, <1>4, <1>5, <1>6, <1>7, <1>8, <1>9, <1>10, <1>11, <1>12 DEF TaskStep

(* The message handlers keep what they are handed well typed.              *)
LEMMA EchoTyped ==
  ASSUME TypeOK, NEW e \in echoes
  PROVE  /\ e \in Echo /\ e.host \in Hosts /\ e.key \in Keys
         /\ e.val \in OrNone(Values) /\ e.saw \in OrNone(Values)
         /\ \A step \in {"cache", "publish", "retract", "uncache"} :
              MoveOn(e, step) => echoes' \subseteq Echo
         /\ Finish(e) => echoes' \subseteq Echo
<1>1. e \in Echo /\ echoes \subseteq Echo
  BY DEF TypeOK
<1>2. \A step \in {"cache", "publish", "retract", "uncache"} :
        [e EXCEPT !.at = step] \in Echo
  BY <1>1 DEF Echo
<1> QED
  BY <1>1, <1>2 DEF Echo, MoveOn, Finish

LEMMA TypeEcho ==
  ASSUME Typed, NEW e \in echoes, EchoStep(e)
  PROVE  Typed'
<1>1. /\ e \in Echo /\ e.host \in Hosts /\ e.key \in Keys
      /\ e.val \in OrNone(Values) /\ e.saw \in OrNone(Values)
      /\ NoValue \in OrNone(Values)
  BY EchoTyped DEF Typed, OrNone
<1>2. CASE HandlePut(e)
  <2>1. echoes' \subseteq Echo
    BY <1>2, EchoTyped DEF HandlePut, Typed
  <2>2. cache' \in [Hosts -> [Keys -> OrNone(Values)]]
    <3>1. Cache(e.host, e.key, e.val) \/ cache' = cache
      BY <1>2 DEF HandlePut
    <3> QED BY <1>1, <3>1, CacheTyped DEF Typed, TypeOK
  <2>3. alias' \in [Hosts -> [Aliases -> ClaimKeys \cup {NoKey}]]
    <3>1. (e.key \in ClaimKeys /\ CacheAlias(e.host, e.key)) \/ alias' = alias
      BY <1>2 DEF HandlePut
    <3> QED BY <1>1, <3>1, AliasTyped DEF Typed, TypeOK
  <2> QED
    BY <1>2, <2>1, <2>2, <2>3
       DEF HandlePut, Typed, TypeOK, StepKeysOK, Busy, bounds, hist
<1>3. CASE HandleCache(e) \/ HandleUncache(e)
  <2>1. echoes' \subseteq Echo
    BY <1>3, EchoTyped DEF HandleCache, HandleUncache, Typed
  <2>2. cache' \in [Hosts -> [Keys -> OrNone(Values)]]
    BY <1>1, <1>3, CacheTyped DEF HandleCache, HandleUncache, Typed
  <2> QED
    BY <1>3, <2>1, <2>2
       DEF HandleCache, HandleUncache, Typed, TypeOK, StepKeysOK, Busy, bounds, hist
<1>4. CASE HandlePublish(e) \/ HandleRetract(e)
  <2>1. echoes' \subseteq Echo
    BY <1>4, EchoTyped DEF HandlePublish, HandleRetract, Typed
  <2>2. told' \in [LinkKeys -> [Providers -> OrNone(Values)]]
    BY <1>1, <1>4, ToldTyped DEF HandlePublish, HandleRetract, DroppedAgain, Typed, TypeOK
  <2>3. failed' \in Nat /\ unheard' \subseteq LinkKeys
    BY <1>4 DEF HandlePublish, HandleRetract, HeardAgain, DroppedAgain, Typed, TypeOK
  <2> QED
    BY <1>4, <2>1, <2>2, <2>3
       DEF HandlePublish, HandleRetract, Typed, TypeOK, StepKeysOK, Busy, tables
<1>5. CASE HandlePurge(e)
  <2> DEFINE v == cache[e.host][e.key]
             f == [e EXCEPT !.saw = v, !.at = IF v = NoValue THEN "uncache" ELSE "retract"]
  <2>1. v \in OrNone(Values)
    BY <1>1 DEF Typed, TypeOK
  <2>2. f \in Echo
    BY <1>1, <2>1 DEF Echo
  <2>3. echoes' = (echoes \ {e}) \cup {f}
    BY <1>5 DEF HandlePurge
  <2>4. echoes' \subseteq Echo
    BY <2>2, <2>3 DEF Typed, TypeOK
  <2> QED
    BY <1>5, <2>4 DEF HandlePurge, Typed, TypeOK, StepKeysOK, Busy, tables, bounds, hist
<1>6. CASE HandleUnexpected(e) \/ Superseded(e)
  <2>1. echoes' \subseteq Echo
    BY <1>6, EchoTyped DEF HandleUnexpected, Superseded, Typed
  <2> QED
    BY <1>6, <2>1
       DEF HandleUnexpected, Superseded, Typed, TypeOK, StepKeysOK, Busy,
           tables, bounds, hist
<1> QED
  BY <1>2, <1>3, <1>4, <1>5, <1>6 DEF EchoStep

LEMMA TypeOther ==
  ASSUME Typed,
         \/ \E k \in Keys : OperatorPurge(k)
         \/ \E e \in echoes : Lose(e)
         \/ \E h \in Hosts : Crash(h) \/ Join(h)
         \/ UNCHANGED vars
  PROVE  Typed'
<1>1. ASSUME NEW k \in Keys, OperatorPurge(k)
      PROVE  Typed'
  <2>1. bucket' \in [Keys -> Record] /\ written' \in Nat /\ echoes' \subseteq Echo
    BY <1>1, WriteTyped DEF OperatorPurge, Typed, OrNone
  <2>2. trust' \in [Keys -> Trusts]
    BY <1>1 DEF OperatorPurge, Trust, Trusts, Typed, TypeOK
  <2>3. arrived' \in Nat
    BY <1>1 DEF OperatorPurge, Typed, TypeOK
  <2> QED
    BY <1>1, <2>1, <2>2, <2>3 DEF OperatorPurge, Typed, TypeOK, StepKeysOK, Busy, tables
<1>2. ASSUME NEW e \in echoes, Lose(e)
      PROVE  Typed'
  <2>1. echoes' \subseteq Echo
    BY <1>2, EchoTyped DEF Lose, Typed
  <2>2. trust' \in [Keys -> Trusts]
    BY <1>2 DEF Lose, Disturb, Trust, Trusts, Typed, TypeOK
  <2>3. lost' \in Nat
    BY <1>2 DEF Lose, Typed, TypeOK
  <2> QED
    BY <1>2, <2>1, <2>2, <2>3 DEF Lose, Typed, TypeOK, StepKeysOK, Busy, tables
<1>3. ASSUME NEW h \in Hosts, Crash(h)
      PROVE  Typed'
  <2>1. cache' \in [Hosts -> [Keys -> OrNone(Values)]]
    BY <1>3 DEF Crash, Typed, TypeOK, OrNone
  <2>2. alias' \in [Hosts -> [Aliases -> ClaimKeys \cup {NoKey}]]
    BY <1>3 DEF Crash, Typed, TypeOK
  <2>3. \A t \in Tasks : job'[t] = NoJob \/ job'[t] = job[t]
    BY <1>3 DEF Crash
  <2>4. job' \in [Tasks -> Job \cup {NoJob}]
    BY <1>3 DEF Crash, Typed, TypeOK
  <2>5. trust' \in [Keys -> Trusts]
    BY <1>3 DEF Crash, Trusts, Typed, TypeOK
  <2>6. StepKeysOK'
    BY <2>3 DEF Typed, StepKeysOK, Busy
  <2>7. up' \subseteq Hosts /\ echoes' \subseteq Echo /\ crashes' \in Nat
    BY <1>3 DEF Crash, Typed, TypeOK
  <2> QED
    BY <1>3, <2>1, <2>2, <2>4, <2>5, <2>6, <2>7 DEF Crash, Typed, TypeOK
<1>4. ASSUME NEW h \in Hosts, Join(h)
      PROVE  Typed'
  <2>1. \A k \in Replayed : Message(h, k, bucket[k]) \in Echo
    BY DEF Replayed, Message, Record, Echo, OrNone, Typed, TypeOK
  <2>2. echoes' \subseteq Echo
    BY <1>4, <2>1 DEF Join, Typed, TypeOK
  <2>3. trust' \in [Keys -> Trusts]
    BY <1>4 DEF Join, Trusts, Typed, TypeOK
  <2> QED
    BY <1>4, <2>2, <2>3 DEF Join, Typed, TypeOK, StepKeysOK, Busy, tables, bounds
<1>5. ASSUME UNCHANGED vars
      PROVE  Typed'
  BY <1>5 DEF Typed, TypeOK, StepKeysOK, Busy, vars, tables, store, bounds, hist
<1> QED
  BY <1>1, <1>2, <1>3, <1>4, <1>5

(* Every step is one of four kinds.                                        *)
LEMMA StepKinds ==
  ASSUME [Next]_vars
  PROVE  \/ \E t \in Tasks, r \in Requests, h \in Hosts : Arrive(t, r, h)
         \/ \E t \in Tasks : TaskStep(t)
         \/ \E e \in echoes : EchoStep(e)
         \/ \/ \E k \in Keys : OperatorPurge(k)
            \/ \E e \in echoes : Lose(e)
            \/ \E h \in Hosts : Crash(h) \/ Join(h)
            \/ UNCHANGED vars
BY DEF Next

(* The tables, the bucket, the requests and the messages keep their types, *)
(* whatever overlaps, fails, gets lost or crashes.                         *)
THEOREM TypeCorrect == Spec => [](TypeOK /\ StepKeysOK)
<1>1. Typed /\ [Next]_vars => Typed'
  BY StepKinds, TypeArrive, TypeTask, TypeEcho, TypeOther
<1>2. Typed => TypeOK /\ StepKeysOK
  BY DEF Typed
<1> QED
  BY TypeInit, <1>1, <1>2, PTL DEF Spec

-----------------------------------------------------------------------------
(* Call aliases *)

(* Short aliases are not meant to.                                         *)
Resolved(h, k) == AliasOf[k] \in Usable => alias[h][AliasOf[k]] # NoKey

(* AliasResolves is inductive with what the processes know that have set   *)
(* the alias and not yet cached the claims.                                *)
AliasInv ==
  /\ AliasResolves
  /\ \A t \in Busy : job[t].key \in ClaimKeys /\ job[t].at = "cache" =>
       Resolved(job[t].host, job[t].key)
  /\ \A e \in echoes : e.key \in ClaimKeys /\ e.at = "cache" => Resolved(e.host, e.key)

(* What a step has to show: aliases stay, and whatever is cached anew, or  *)
(* comes to its cache step, has an alias that resolves.                    *)
AliasesStay ==
  \A h \in Hosts, k \in ClaimKeys : Resolved(h, k) => Resolved(h, k)'
CachedResolve ==
  \A h \in Hosts, k \in ClaimKeys :
    cache'[h][k] \in {cache[h][k], NoValue} \/ Resolved(h, k)'
JobsResolve ==
  \A t \in Tasks : job'[t] \in {job[t], NoJob} \/ job'[t].at # "cache"
                  \/ job'[t].key \notin ClaimKeys \/ Resolved(job[t].host, job[t].key)'
EchoesResolve ==
  \A e \in echoes' : e \in echoes \/ e.at # "cache"
                  \/ e.key \notin ClaimKeys \/ Resolved(e.host, e.key)'

LEMMA AliasFrame ==
  ASSUME Typed, AliasInv, AliasesStay, CachedResolve, JobsResolve, EchoesResolve
  PROVE  AliasInv'
<1>1. AliasResolves'
  BY DEF AliasInv, AliasResolves, AliasesStay, CachedResolve, Resolved
<1>2. ASSUME NEW t \in Busy', job'[t].key \in ClaimKeys, job'[t].at = "cache"
      PROVE  Resolved(job[t].host, job[t].key)'
  <2>1. t \in Tasks /\ job'[t] # NoJob
    BY DEF Busy
  <2>2. CASE job'[t] = job[t]
    <3>1. t \in Busy /\ job[t].host \in Hosts
      BY <2>1, <2>2, JobTyped DEF Busy, Typed
    <3> QED BY <1>2, <2>2, <3>1 DEF AliasInv, AliasesStay, Resolved
  <2> QED BY <1>2, <2>1, <2>2 DEF JobsResolve
<1>3. ASSUME NEW e \in echoes', e.key \in ClaimKeys, e.at = "cache"
      PROVE  Resolved(e.host, e.key)'
  <2>1. CASE e \in echoes
    <3>1. e.host \in Hosts
      BY <2>1, EchoTyped DEF Typed
    <3> QED BY <1>3, <2>1, <3>1 DEF AliasInv, AliasesStay, Resolved
  <2> QED BY <1>3, <2>1 DEF EchoesResolve
<1> QED BY <1>1, <1>2, <1>3 DEF AliasInv, Resolved

(* Setting an alias leaves it resolved, and every other one as it was.     *)
LEMMA AliasSet ==
  ASSUME Typed, NEW h \in Hosts, NEW k \in ClaimKeys, CacheAlias(h, k)
  PROVE  AliasesStay /\ Resolved(h, k)'
<1>1. k # NoKey /\ AliasOf[k] \in Aliases
  BY MetadataAssumption DEF Keys
<1>2. alias \in [Hosts -> [Aliases -> ClaimKeys \cup {NoKey}]]
  BY DEF Typed, TypeOK
<1> QED BY <1>1, <1>2 DEF CacheAlias, AliasAfter, Claimable, AliasesStay, Resolved

LEMMA AliasUnchanged ==
  ASSUME alias' = alias
  PROVE  AliasesStay
BY DEF AliasesStay, Resolved

(* A write to the bucket makes messages that are still on the wire.        *)
LEMMA WriteEchoes ==
  ASSUME NEW k, NEW op, NEW v, Write(k, op, v)
  PROVE  EchoesResolve
BY DEF Write, Message, EchoesResolve

LEMMA FinishEchoes ==
  ASSUME NEW e, Finish(e) \/ MoveOn(e, "publish") \/ MoveOn(e, "uncache") \/ UNCHANGED echoes,
         e \in Echo
  PROVE  EchoesResolve
BY DEF Finish, MoveOn, EchoesResolve, Echo

LEMMA AliasTask ==
  ASSUME Typed, AliasInv, NEW t \in Tasks, TaskStep(t)
  PROVE  AliasInv'
<1>0. t \in Busy /\ AtStep(t, job[t].at)
  BY DEF TaskStep, PutAlias, PutCache, PutPublish, PutStore, PutStoreFails, DelLookup,
         DelUncache, DelNoVhost, DelPurge, DelPurgeFails, DelRetract, AtStep, Busy
<1>1. /\ job[t] \in Job /\ job \in [Tasks -> Job \cup {NoJob}]
      /\ job[t].key \in Keys /\ job[t].host \in Hosts
  BY <1>0, JobTyped DEF Typed, TypeOK
<1>2. cache \in [Hosts -> [Keys -> OrNone(Values)]]
  BY DEF Typed, TypeOK
<1>3. ASSUME NEW step \in {"store", "publish", "uncache", "purge", "retract"},
             Goto(t, step) \/ Done(t)
      PROVE  JobsResolve
  BY <1>1, <1>3 DEF Goto, Done, JobsResolve, Job
<1>4. CASE PutAlias(t)
  <2>1. PICK h \in Hosts, k \in ClaimKeys : h = job[t].host /\ k = job[t].key
    BY <1>0, <1>1, <1>4 DEF PutAlias, AtStep, Typed, StepKeysOK
  <2>2. AliasesStay /\ Resolved(h, k)'
    BY <1>4, <2>1, AliasSet DEF PutAlias
  <2>3. job'[t].host = h /\ job'[t].key = k
    BY <1>1, <1>4, <2>1 DEF PutAlias, Goto, Job
  <2>4. \A u \in Tasks \ {t} : job'[u] = job[u]
    BY <1>1, <1>4 DEF PutAlias, Goto
  <2>5. JobsResolve
    BY <2>2, <2>3, <2>4 DEF JobsResolve, Resolved
  <2>6. CachedResolve /\ EchoesResolve
    BY <1>4 DEF PutAlias, CachedResolve, EchoesResolve, store
  <2> QED BY <2>2, <2>5, <2>6, AliasFrame
<1>5. CASE PutCache(t)
  <2>1. AliasesStay /\ EchoesResolve
    BY <1>5, AliasUnchanged DEF PutCache, EchoesResolve, store
  <2>2. JobsResolve
    BY <1>3, <1>5 DEF PutCache, AfterCache
  <2>3. ASSUME NEW h \in Hosts, NEW k \in ClaimKeys
        PROVE  cache'[h][k] \in {cache[h][k], NoValue} \/ Resolved(h, k)'
    <3>1. CASE h = job[t].host /\ k = job[t].key
      <4>1. Resolved(h, k)
        BY <1>0, <1>5, <3>1 DEF PutCache, AtStep, AliasInv
      <4> QED BY <1>5, <4>1 DEF PutCache, Resolved
    <3>2. CASE ~(h = job[t].host /\ k = job[t].key)
      BY <1>1, <1>2, <1>5, <3>2 DEF PutCache, Cache
    <3> QED BY <3>1, <3>2
  <2>4. CachedResolve
    BY <2>3 DEF CachedResolve
  <2> QED BY <2>1, <2>2, <2>4, AliasFrame
<1>6. CASE PutPublish(t) \/ PutStoreFails(t) \/ DelNoVhost(t) \/ DelPurgeFails(t)
             \/ DelRetract(t)
  <2>1. JobsResolve
    BY <1>3, <1>6 DEF PutPublish, PutStoreFails, DelNoVhost, DelPurgeFails, DelRetract, PublishDeleted
  <2>2. alias' = alias /\ cache' = cache /\ echoes' = echoes
    BY <1>6 DEF PutPublish, PutStoreFails, DelNoVhost, DelPurgeFails, DelRetract, tables, store
  <2>3. AliasesStay /\ CachedResolve /\ EchoesResolve
    BY <2>2, AliasUnchanged DEF CachedResolve, EchoesResolve
  <2> QED BY <2>1, <2>3, AliasFrame
<1>7. CASE PutStore(t) \/ DelPurge(t)
  <2>1. JobsResolve
    BY <1>3, <1>7 DEF PutStore, DelPurge, PublishDeleted
  <2>2. alias' = alias /\ cache' = cache
    BY <1>7 DEF PutStore, DelPurge, tables
  <2>3. EchoesResolve
    BY <1>7, WriteEchoes DEF PutStore, DelPurge
  <2>4. AliasesStay /\ CachedResolve
    BY <2>2, AliasUnchanged DEF CachedResolve
  <2> QED BY <2>1, <2>3, <2>4, AliasFrame
<1>8. CASE DelLookup(t)
  <2>1. alias' = alias /\ cache' = cache /\ echoes' = echoes
    BY <1>8 DEF DelLookup, tables, store
  <2>2. AliasesStay /\ CachedResolve /\ EchoesResolve
    BY <2>1, AliasUnchanged DEF CachedResolve, EchoesResolve
  <2>3. job'[t] = NoJob \/ job'[t].at = "uncache"
    BY <1>1, <1>8 DEF DelLookup, Job
  <2>4. JobsResolve
    BY <1>1, <1>8, <2>3 DEF DelLookup, JobsResolve
  <2> QED BY <2>2, <2>4, AliasFrame
<1>9. CASE DelUncache(t)
  <2>1. AliasesStay /\ EchoesResolve
    BY <1>9, AliasUnchanged DEF DelUncache, EchoesResolve, store
  <2>2. JobsResolve
    BY <1>3, <1>9 DEF DelUncache
  <2>3. CachedResolve
    BY <1>1, <1>2, <1>9 DEF DelUncache, Cache, CachedResolve
  <2> QED BY <2>1, <2>2, <2>3, AliasFrame
<1> QED
  BY <1>4, <1>5, <1>6, <1>7, <1>8, <1>9 DEF TaskStep

LEMMA AliasEcho ==
  ASSUME Typed, AliasInv, NEW e \in echoes, EchoStep(e)
  PROVE  AliasInv'
<1>1. e \in Echo /\ e.host \in Hosts /\ e.key \in Keys
  BY EchoTyped DEF Typed
<1>2. cache \in [Hosts -> [Keys -> OrNone(Values)]]
  BY DEF Typed, TypeOK
<1>3. JobsResolve
  BY DEF EchoStep, HandlePut, HandleCache, HandlePublish, HandlePurge, HandleRetract,
         HandleUncache, HandleUnexpected, Superseded, JobsResolve
<1>4. CASE HandlePut(e) /\ e.key \in ClaimKeys
  <2>1. CacheAlias(e.host, e.key) /\ MoveOn(e, "cache") /\ cache' = cache
    BY <1>4, MetadataAssumption DEF HandlePut
  <2>2. AliasesStay /\ Resolved(e.host, e.key)'
    BY <1>1, <1>4, <2>1, AliasSet
  <2>3. EchoesResolve
    BY <1>1, <2>1, <2>2 DEF MoveOn, EchoesResolve, Echo
  <2>4. CachedResolve
    BY <2>1 DEF CachedResolve
  <2> QED BY <1>3, <2>2, <2>3, <2>4, AliasFrame
<1>5. CASE HandlePut(e) /\ e.key \notin ClaimKeys
  <2>1. Cache(e.host, e.key, e.val) /\ alias' = alias
    BY <1>5 DEF HandlePut
  <2>2. CachedResolve
    BY <1>1, <1>2, <1>5, <2>1 DEF Cache, CachedResolve
  <2>3. EchoesResolve
    BY <1>1, <1>5, FinishEchoes DEF HandlePut
  <2> QED BY <1>3, <2>1, <2>2, <2>3, AliasUnchanged, AliasFrame
<1>6. CASE HandleCache(e)
  <2>1. AliasesStay /\ EchoesResolve
    BY <1>1, <1>6, AliasUnchanged, FinishEchoes DEF HandleCache
  <2>2. ASSUME NEW h \in Hosts, NEW k \in ClaimKeys
        PROVE  cache'[h][k] \in {cache[h][k], NoValue} \/ Resolved(h, k)'
    <3>1. CASE h = e.host /\ k = e.key
      BY <1>6, <3>1 DEF HandleCache, AliasInv, Resolved
    <3>2. CASE ~(h = e.host /\ k = e.key)
      BY <1>1, <1>2, <1>6, <3>2 DEF HandleCache, Cache
    <3> QED BY <3>1, <3>2
  <2>3. CachedResolve
    BY <2>2 DEF CachedResolve
  <2> QED BY <1>3, <2>1, <2>3, AliasFrame
<1>7. CASE HandleUncache(e)
  <2>1. AliasesStay /\ EchoesResolve
    BY <1>1, <1>7, AliasUnchanged, FinishEchoes DEF HandleUncache
  <2>2. CachedResolve
    BY <1>1, <1>2, <1>7 DEF HandleUncache, Cache, CachedResolve
  <2> QED BY <1>3, <2>1, <2>2, AliasFrame
<1>8. CASE HandlePublish(e) \/ HandleRetract(e) \/ HandlePurge(e)
           \/ HandleUnexpected(e) \/ Superseded(e)
  <2>1. alias' = alias /\ cache' = cache
    BY <1>8 DEF HandlePublish, HandleRetract, HandlePurge, HandleUnexpected, Superseded, tables
  <2>2. AliasesStay /\ CachedResolve
    BY <2>1, AliasUnchanged DEF CachedResolve
  <2>3. EchoesResolve
    <3>1. CASE HandlePurge(e)
      BY <1>1, <3>1 DEF HandlePurge, EchoesResolve, Echo
    <3>2. CASE ~HandlePurge(e)
      BY <1>1, <1>8, <3>2, FinishEchoes
         DEF HandlePublish, HandleRetract, HandleUnexpected, Superseded
    <3> QED BY <3>1, <3>2
  <2> QED BY <1>3, <2>2, <2>3, AliasFrame
<1> QED
  BY <1>4, <1>5, <1>6, <1>7, <1>8 DEF EchoStep

LEMMA AliasRest ==
  ASSUME Typed, AliasInv,
         \/ \E t \in Tasks, r \in Requests, h \in Hosts : Arrive(t, r, h)
         \/ \E k \in Keys : OperatorPurge(k)
         \/ \E e \in echoes : Lose(e)
         \/ \E h \in Hosts : Crash(h) \/ Join(h)
         \/ UNCHANGED vars
  PROVE  AliasInv'
<1>1. ASSUME NEW t \in Tasks, NEW r \in Requests, NEW h \in Hosts, Arrive(t, r, h)
      PROVE  AliasInv'
  <2>1. AliasesStay /\ CachedResolve /\ EchoesResolve
    BY <1>1, AliasUnchanged DEF Arrive, tables, store, CachedResolve, EchoesResolve
  <2>2. r.key \in ClaimKeys => EntryPoint(r) # "cache"
    BY DEF EntryPoint
  <2>3. JobsResolve
    BY <1>1, <2>2 DEF Arrive, JobsResolve, Typed, TypeOK
  <2> QED BY <2>1, <2>3, AliasFrame
<1>2. ASSUME NEW k \in Keys, OperatorPurge(k)
      PROVE  AliasInv'
  <2>1. AliasesStay /\ CachedResolve /\ JobsResolve
    BY <1>2, AliasUnchanged DEF OperatorPurge, tables, CachedResolve, JobsResolve
  <2>2. EchoesResolve
    BY <1>2, WriteEchoes DEF OperatorPurge
  <2> QED BY <2>1, <2>2, AliasFrame
<1>3. ASSUME NEW e \in echoes, Lose(e)
      PROVE  AliasInv'
  <2>1. AliasesStay /\ CachedResolve /\ JobsResolve
    BY <1>3, AliasUnchanged DEF Lose, tables, CachedResolve, JobsResolve
  <2>2. EchoesResolve
    BY <1>3 DEF Lose, Finish, EchoesResolve
  <2> QED BY <2>1, <2>2, AliasFrame
<1>4. ASSUME NEW h \in Hosts, Crash(h)
      PROVE  AliasInv'
  <2>1. /\ \A k \in ClaimKeys : cache'[h][k] = NoValue
        /\ \A g \in Hosts \ {h} : cache'[g] = cache[g] /\ alias'[g] = alias[g]
    BY <1>4 DEF Crash, Typed, TypeOK, Keys
  <2>2. \A t \in Busy' : t \in Busy /\ job'[t] = job[t] /\ job[t].host \in Hosts \ {h}
    BY <1>4, JobTyped DEF Crash, ServedBy, Busy, Typed
  <2>3. \A e \in echoes' : e \in echoes /\ e.host \in Hosts \ {h}
    BY <1>4, EchoTyped DEF Crash, Typed
  <2>4. AliasResolves'
    BY <2>1 DEF AliasInv, AliasResolves
  <2>5. \A t \in Busy' : job'[t].key \in ClaimKeys /\ job'[t].at = "cache" =>
          Resolved(job[t].host, job[t].key)'
    BY <2>1, <2>2 DEF AliasInv, Resolved
  <2>6. \A e \in echoes' : e.key \in ClaimKeys /\ e.at = "cache" =>
          Resolved(e.host, e.key)'
    BY <2>1, <2>3 DEF AliasInv, Resolved
  <2> QED BY <2>4, <2>5, <2>6 DEF AliasInv, Resolved
<1>5. ASSUME NEW h \in Hosts, Join(h)
      PROVE  AliasInv'
  <2>1. AliasesStay /\ CachedResolve /\ JobsResolve
    BY <1>5, AliasUnchanged DEF Join, tables, CachedResolve, JobsResolve
  <2>2. EchoesResolve
    BY <1>5 DEF Join, Message, EchoesResolve
  <2> QED BY <2>1, <2>2, AliasFrame
<1>6. ASSUME UNCHANGED vars
      PROVE  AliasInv'
  BY <1>6 DEF vars, tables, store, AliasInv, AliasResolves, Resolved, Busy
<1> QED
  BY <1>1, <1>2, <1>3, <1>4, <1>5, <1>6

(* A call alias carried by cached claims resolves at every moment and on   *)
(* every host, whatever requests and messages overlap and whoever crashes. *)
THEOREM AliasesResolve == Spec => []AliasResolves
<1>1. Init => AliasInv
  <2> SUFFICES ASSUME Init PROVE AliasInv
    OBVIOUS
  <2>1. Busy = {} /\ echoes = {}
    BY DEF Init, Busy
  <2>2. \A h \in Hosts, k \in ClaimKeys : cache[h][k] = NoValue
    BY DEF Init, Keys
  <2> QED BY <2>1, <2>2 DEF AliasInv, AliasResolves
<1>2. Typed /\ AliasInv /\ [Next]_vars => AliasInv'
  BY StepKinds, AliasTask, AliasEcho, AliasRest
<1>3. AliasInv => AliasResolves
  BY DEF AliasInv
<1>4. TypeOK /\ StepKeysOK => Typed
  BY DEF Typed
<1> QED
  BY TypeCorrect, <1>1, <1>2, <1>3, <1>4, PTL DEF Spec

-----------------------------------------------------------------------------
(* Agreement of the caches *)

(* A host that is down has nothing; only requests for links delete; only   *)
(* handlers of a put stop at "cache" or "publish".                         *)
HostsOK ==
  /\ \A h \in Hosts \ up, k \in Keys : cache[h][k] = NoValue
  /\ \A t \in Busy : job[t].host \in up
  /\ \A e \in echoes : e.host \in up
StepsOK ==
  /\ \A t \in Busy :
       /\ job[t].op = "del" => job[t].key \in LinkKeys
       /\ job[t].at \in {"lookup", "uncache", "purge", "retract"} => job[t].op = "del"
  /\ \A e \in echoes : IF e.at \in {"cache", "publish"} THEN e.op = "put"
                        ELSE e.at # "wire" => e.op = "purge"
  /\ \A k \in Keys : bucket[k].op # "put" => bucket[k].val = NoValue

On(t, k) == t \in Busy /\ job[t].key = k

(* A key that is not disturbed has one request at a time, and none that is *)
(* still to write while a record is on its way.                            *)
OneAtATime(k) ==
  trust[k] # "disturbed" =>
    /\ \A t, u \in Tasks : On(t, k) /\ On(u, k) => t = u
    /\ \A t \in Tasks : On(t, k) /\ job[t].at # "retract" => \A e \in echoes : e.key # k

(* A host's entry agrees with the bucket, or a message that will make it   *)
(* agree is there, or the request that changed it is about to write.       *)
Agreeing(h, k) ==
  \/ cache[h][k] = Stored(k)
  \/ \E e \in echoes : e.host = h /\ e.key = k /\ e.at # "publish"
  \/ \E t \in Tasks : On(t, k) /\ job[t].host = h /\ job[t].at \in {"publish", "store", "purge"}

KeyAgrees(k) ==
  trust[k] \in {"calm", "cut"} =>
    /\ \A e \in echoes : e.key = k =>
         /\ e.op = bucket[k].op /\ e.val = bucket[k].val /\ e.seq = bucket[k].seq
         /\ e.at = "publish" => cache[e.host][k] = Stored(k)
    /\ \A h \in up : Agreeing(h, k)
    /\ bucket[k].op = "purge" => k \notin RefKeys

KeyInv(k) == OneAtATime(k) /\ KeyAgrees(k)

AgreeInv == HostsOK /\ StepsOK /\ \A k \in Keys : KeyInv(k)

LEMMA AgreeInit == Init => AgreeInv
<1> SUFFICES ASSUME Init PROVE AgreeInv
  OBVIOUS
<1>1. Busy = {} /\ echoes = {} /\ up = Hosts
  BY DEF Init, Busy
<1>2. \A k \in Keys : bucket[k].op = "none" /\ bucket[k].val = NoValue
  BY DEF Init
<1>3. \A h \in Hosts, k \in Keys : cache[h][k] = NoValue
  BY DEF Init
<1>4. HostsOK /\ StepsOK
  BY <1>1, <1>2, <1>3 DEF HostsOK, StepsOK
<1>5. ASSUME NEW k \in Keys
      PROVE  KeyInv(k)
  BY <1>1, <1>2, <1>3 DEF KeyInv, OneAtATime, KeyAgrees, Agreeing, On, Stored
<1> QED BY <1>4, <1>5 DEF AgreeInv

(* A key whose entries, record, messages and requests a step leaves alone. *)
Untouched(k) ==
  /\ up' = up /\ bucket'[k] = bucket[k] /\ trust'[k] = trust[k]
  /\ \A h \in Hosts : cache'[h][k] = cache[h][k]
  /\ \A t \in Tasks : On(t, k) \/ On(t, k)' => job'[t] = job[t]
  /\ \A e \in echoes \cup echoes' : e.key = k => e \in echoes /\ e \in echoes'

LEMMA KeyFrame ==
  ASSUME Typed, NEW k \in Keys, KeyInv(k), Untouched(k)
  PROVE  KeyInv(k)'
<1>1. \A t \in Tasks : On(t, k)' <=> On(t, k)
  BY DEF Untouched, On, Busy
<1>2. OneAtATime(k)'
  BY <1>1 DEF Untouched, KeyInv, OneAtATime
<1>3. ASSUME trust'[k] \in {"calm", "cut"}
      PROVE  /\ \A e \in echoes' : e.key = k =>
                  /\ e.op = bucket'[k].op /\ e.val = bucket'[k].val /\ e.seq = bucket'[k].seq
                  /\ e.at = "publish" => cache'[e.host][k] = Stored(k)'
             /\ \A h \in up' : Agreeing(h, k)'
             /\ bucket'[k].op = "purge" => k \notin RefKeys
  <2>1. trust[k] \in {"calm", "cut"}
    BY <1>3 DEF Untouched
  <2>2. \A e \in echoes : e.host \in Hosts
    BY EchoTyped DEF Typed
  <2>3. ASSUME NEW h \in up'
        PROVE  Agreeing(h, k)'
    <3>1. h \in up /\ h \in Hosts /\ Agreeing(h, k)
      BY <2>1 DEF Untouched, KeyInv, KeyAgrees, Typed, TypeOK
    <3> QED BY <1>1, <3>1 DEF Untouched, Agreeing, Stored
  <2> QED BY <2>1, <2>2, <2>3 DEF Untouched, KeyInv, KeyAgrees, Stored
<1> QED BY <1>2, <1>3 DEF KeyInv, KeyAgrees

(* A write to a key that nothing is on the way for reaches every host.     *)
LEMMA WriteAgrees ==
  ASSUME Typed, NEW k \in Keys, NEW op \in {"put", "purge"}, NEW v \in OrNone(Values),
         Write(k, op, v), up' = up, \A e \in echoes : e.key # k,
         op = "purge" => k \notin RefKeys
  PROVE  KeyAgrees(k)'
<1> DEFINE r == Newest(k, op, v)
<1>1. bucket'[k] = r /\ r.op = op
  BY DEF Write, Newest, Typed, TypeOK
<1>2. \A e \in echoes' : e.key = k => \E h \in up : e = Message(h, k, r)
  BY DEF Write, Recipients
<1>3. \A h \in up : Message(h, k, r) \in echoes'
  BY DEF Write, Recipients
<1>4. \A e \in echoes' : e.key = k =>
        e.op = r.op /\ e.val = r.val /\ e.seq = r.seq /\ e.at = "wire"
  BY <1>2 DEF Message
<1>5. \A h \in up' : Agreeing(h, k)'
  BY <1>3 DEF Message, Agreeing
<1> QED BY <1>1, <1>4, <1>5 DEF KeyAgrees

-----------------------------------------------------------------------------
(* A step of a request *)

SameRequest(t) ==
  /\ job'[t] \in Job /\ job[t].at # "retract"
  /\ job'[t].key = job[t].key /\ job'[t].host = job[t].host /\ job'[t].op = job[t].op

LEMMA TaskShape ==
  ASSUME Typed, NEW t \in Tasks, TaskStep(t)
  PROVE  /\ t \in Busy /\ job[t] \in Job /\ job[t].key \in Keys /\ job[t].host \in Hosts
         /\ up' = up
         /\ \A u \in Tasks \ {t} : job'[u] = job[u]
         /\ job'[t] = NoJob \/ SameRequest(t)
<1>0. t \in Busy
  BY DEF TaskStep, PutAlias, PutCache, PutPublish, PutStore, PutStoreFails, DelLookup,
         DelUncache, DelNoVhost, DelPurge, DelPurgeFails, DelRetract, AtStep, Busy
<1>1. job[t] \in Job /\ job[t].key \in Keys /\ job[t].host \in Hosts
  BY <1>0, JobTyped DEF Typed
<1>2. job \in [Tasks -> Job \cup {NoJob}] /\ job' \in [Tasks -> Job \cup {NoJob}]
  BY TypeTask DEF Typed, TypeOK
<1>3. up' = up
  BY DEF TaskStep, PutAlias, PutCache, PutPublish, PutStore, PutStoreFails, DelLookup,
         DelUncache, DelNoVhost, DelPurge, DelPurgeFails, DelRetract
<1>4. \/ Done(t)
      \/ job[t].at # "retract" /\ \E step \in {"cache", "publish", "store", "uncache", "purge", "retract"} :
           Goto(t, step)
      \/ DelLookup(t)
  BY DEF TaskStep, PutAlias, PutCache, PutPublish, PutStore, PutStoreFails, AfterCache,
         DelUncache, DelNoVhost, DelPurge, DelPurgeFails, DelRetract, PublishDeleted, AtStep
<1>5. \A u \in Tasks \ {t} : job'[u] = job[u]
  BY <1>2, <1>4 DEF Done, Goto, DelLookup
<1>6. job'[t] = NoJob \/ job'[t] \in Job
  BY <1>2
<1>7. CASE Done(t)
  <2>1. job'[t] = NoJob
    BY <1>2, <1>7 DEF Done
  <2> QED BY <1>0, <1>1, <1>3, <1>5, <2>1
<1>8. ASSUME job[t].at # "retract",
             NEW step \in {"cache", "publish", "store", "uncache", "purge", "retract"},
             Goto(t, step)
      PROVE  SameRequest(t)
  <2>1. job'[t] = [job[t] EXCEPT !.at = step]
    BY <1>2, <1>8 DEF Goto
  <2> QED BY <1>1, <1>8, <2>1 DEF SameRequest, Job
<1>9. CASE DelLookup(t)
  <2> DEFINE v == cache[job[t].host][job[t].key]
             j == [job[t] EXCEPT !.at = "uncache", !.saw = v]
  <2>1. job[t].at = "lookup"
    BY <1>9 DEF DelLookup, AtStep
  <2>2. j.key = job[t].key /\ j.host = job[t].host /\ j.op = job[t].op
    BY <1>1 DEF Job
  <2>3. job' = [job EXCEPT ![t] = IF v = NoValue THEN NoJob ELSE j]
    BY <1>9 DEF DelLookup
  <2>4. job'[t] = NoJob \/ job'[t] = j
    BY <1>2, <2>3
  <2>5. job'[t] = NoJob \/ SameRequest(t)
    BY <1>6, <2>1, <2>2, <2>4 DEF SameRequest
  <2> QED BY <1>0, <1>1, <1>3, <1>5, <1>6, <2>5
<1> QED BY <1>0, <1>1, <1>3, <1>4, <1>5, <1>6, <1>7, <1>8, <1>9

(* What a request's step changes concerns its own key only.                *)
LEMMA TaskOtherKeys ==
  ASSUME Typed, NEW t \in Tasks, TaskStep(t), NEW k \in Keys, k # job[t].key
  PROVE  Untouched(k)
<1>1. /\ up' = up /\ job[t].host \in Hosts /\ t \in Busy /\ job[t].key \in Keys
      /\ \A u \in Tasks \ {t} : job'[u] = job[u]
      /\ job'[t] = NoJob \/ job'[t].key = job[t].key
  BY TaskShape DEF SameRequest
<1>2. \A u \in Tasks : On(u, k) \/ On(u, k)' => job'[u] = job[u]
  BY <1>1 DEF On, Busy
<1>3. \A h \in Hosts : cache'[h][k] = cache[h][k]
  <2>1. \/ cache' = cache
        \/ \E v : Cache(job[t].host, job[t].key, v)
    BY DEF TaskStep, PutAlias, PutCache, PutPublish, PutStore, PutStoreFails, DelLookup,
           DelUncache, DelNoVhost, DelPurge, DelPurgeFails, DelRetract, tables
  <2>2. CASE cache' = cache
    BY <2>2
  <2>3. ASSUME NEW v, Cache(job[t].host, job[t].key, v)
        PROVE  \A h \in Hosts : cache'[h][k] = cache[h][k]
    BY <1>1, <2>3 DEF Cache, Typed, TypeOK
  <2> QED BY <2>1, <2>2, <2>3
<1>4. \/ bucket' = bucket /\ echoes' = echoes
      \/ \E op, v : Write(job[t].key, op, v)
  BY DEF TaskStep, PutAlias, PutCache, PutPublish, PutStore, PutStoreFails, DelLookup,
         DelUncache, DelNoVhost, DelPurge, DelPurgeFails, DelRetract, store
<1>5. bucket'[k] = bucket[k]
  BY <1>4 DEF Write, Typed, TypeOK
<1>6. \A e \in echoes \cup echoes' : e.key = k => e \in echoes /\ e \in echoes'
  BY <1>4 DEF Write, Message
<1>7. trust'[k] = trust[k]
  BY DEF TaskStep, PutAlias, PutCache, PutPublish, PutStore, PutStoreFails, DelLookup,
         DelUncache, DelNoVhost, DelPurge, DelPurgeFails, DelRetract, hist, Trust, Disturb, Typed, TypeOK
<1> QED BY <1>1, <1>2, <1>3, <1>5, <1>6, <1>7 DEF Untouched

(* On its own key: one request stays one, and it writes only while no      *)
(* record is on its way.                                                   *)
LEMMA TaskOne ==
  ASSUME Typed, AgreeInv, NEW t \in Tasks, TaskStep(t),
         NEW k \in Keys, k = job[t].key, trust'[k] # "disturbed"
  PROVE  /\ trust[k] # "disturbed"
         /\ \A u \in Tasks : On(u, k) => u = t
         /\ job[t].at # "retract" => \A e \in echoes : e.key # k
         /\ OneAtATime(k)'
<1>1. /\ t \in Busy /\ On(t, k)
      /\ \A u \in Tasks \ {t} : job'[u] = job[u]
      /\ job'[t] = NoJob \/ SameRequest(t)
  BY TaskShape DEF On
<1>2. trust[k] # "disturbed"
  BY <1>1 DEF TaskStep, PutAlias, PutCache, PutPublish, PutStore, PutStoreFails, DelLookup,
         DelUncache, DelNoVhost, DelPurge, DelPurgeFails, DelRetract, hist, Trust, Disturb, Typed, TypeOK
<1>3. KeyInv(k)
  BY <1>1 DEF AgreeInv
<1>4. \A u \in Tasks : On(u, k) => u = t
  BY <1>1, <1>2, <1>3 DEF KeyInv, OneAtATime
<1>5. job[t].at # "retract" => \A e \in echoes : e.key # k
  BY <1>1, <1>2, <1>3 DEF KeyInv, OneAtATime
<1>6. \A u \in Tasks : On(u, k)' => u = t
  BY <1>1, <1>4 DEF On, Busy
<1>7. ASSUME On(t, k)', job'[t].at # "retract"
      PROVE  \A e \in echoes' : e.key # k
  <2>1. SameRequest(t) /\ job'[t] # NoJob
    BY <1>1, <1>7 DEF On, Busy
  <2>2. \A e \in echoes : e.key # k
    BY <1>5, <2>1 DEF SameRequest
  <2>3. job' \in [Tasks -> Job \cup {NoJob}] /\ job \in [Tasks -> Job \cup {NoJob}]
    BY TypeTask DEF Typed, TypeOK
  <2>4. job[t] \in Job
    BY TaskShape
  <2>5. ~DelPurge(t)
    BY <1>7, <2>3, <2>4 DEF DelPurge, PublishDeleted, Goto, Job
  <2>6. ~PutStore(t)
    BY <2>1, <2>3 DEF PutStore, Done
  <2>7. echoes' = echoes
    BY <2>5, <2>6 DEF TaskStep, PutAlias, PutCache, PutPublish, PutStoreFails, DelLookup,
                      DelUncache, DelNoVhost, DelPurgeFails, DelRetract, store
  <2> QED BY <2>2, <2>7
<1>8. OneAtATime(k)'
  BY <1>6, <1>7 DEF OneAtATime
<1> QED BY <1>2, <1>4, <1>5, <1>8

LEMMA TaskKey ==
  ASSUME Typed, AgreeInv, NEW t \in Tasks, TaskStep(t), NEW k \in Keys, k = job[t].key
  PROVE  KeyInv(k)'
<1> SUFFICES ASSUME trust'[k] # "disturbed"
             PROVE  KeyInv(k)'
  BY DEF KeyInv, OneAtATime, KeyAgrees
<1>1. /\ trust[k] # "disturbed"
      /\ \A u \in Tasks : On(u, k) => u = t
      /\ job[t].at # "retract" => \A e \in echoes : e.key # k
      /\ OneAtATime(k)'
  BY TaskOne
<1>2. /\ t \in Busy /\ job[t] \in Job /\ job[t].host \in Hosts /\ up' = up
      /\ job \in [Tasks -> Job \cup {NoJob}]
      /\ cache \in [Hosts -> [Keys -> OrNone(Values)]]
      /\ up \subseteq Hosts /\ trust \in [Keys -> Trusts]
  BY TaskShape DEF Typed, TypeOK
<1>3. job[t].op = "del" => k \in LinkKeys
  BY <1>2 DEF AgreeInv, StepsOK
<1>4. CASE PutStore(t) \/ DelPurge(t)
  <2>1. job[t].at # "retract"
    BY <1>4 DEF PutStore, DelPurge, AtStep
  <2>2. CASE PutStore(t)
    <3>1. Write(k, "put", job[t].val) /\ job[t].val \in OrNone(Values)
      BY <1>2, <2>2 DEF PutStore, Job, OrNone
    <3>2. KeyAgrees(k)'
      BY <1>1, <1>2, <2>1, <3>1, WriteAgrees
    <3> QED BY <1>1, <3>2 DEF KeyInv
  <2>3. CASE DelPurge(t)
    <3>1. Write(k, "purge", NoValue) /\ NoValue \in OrNone(Values)
      BY <2>3 DEF DelPurge, OrNone
    <3>2. k \notin RefKeys
      BY <1>2, <1>3, <2>3, MetadataAssumption DEF DelPurge, AtStep, AgreeInv, StepsOK
    <3>3. KeyAgrees(k)'
      BY <1>1, <1>2, <2>1, <3>1, <3>2, WriteAgrees
    <3> QED BY <1>1, <3>3 DEF KeyInv
  <2> QED BY <1>4, <2>2, <2>3
<1>5. CASE PutStoreFails(t) \/ DelNoVhost(t) \/ DelPurgeFails(t)
  <2>1. trust'[k] = "disturbed"
    BY <1>2, <1>5 DEF PutStoreFails, DelNoVhost, DelPurgeFails, Disturb, Trust
  <2> QED BY <2>1
<1>6. CASE PutAlias(t) \/ PutCache(t) \/ PutPublish(t) \/ DelLookup(t) \/ DelUncache(t)
             \/ DelRetract(t)
  <2>1. echoes' = echoes /\ bucket' = bucket /\ trust' = trust
    BY <1>6 DEF PutAlias, PutCache, PutPublish, DelLookup, DelUncache, DelRetract, store, hist
  <2> SUFFICES ASSUME trust[k] \in {"calm", "cut"}
               PROVE  /\ \A e \in echoes : e.key = k => cache'[e.host][k] = cache[e.host][k]
                      /\ \A h \in up : Agreeing(h, k)'
    <3>1. KeyAgrees(k)
      BY DEF AgreeInv, KeyInv
    <3>2. OneAtATime(k)'
      BY <1>1
    <3>3. ASSUME trust'[k] \in {"calm", "cut"}
          PROVE  /\ \A e \in echoes : e.key = k => cache'[e.host][k] = cache[e.host][k]
                 /\ \A h \in up : Agreeing(h, k)'
      BY <2>1, <3>3
    <3>4. KeyAgrees(k)'
      BY <1>2, <2>1, <3>1, <3>3 DEF KeyAgrees, Stored
    <3> QED BY <3>2, <3>4 DEF KeyInv
  <2>2. \A h \in up : Agreeing(h, k)
    BY DEF AgreeInv, KeyInv, KeyAgrees
  <2>3. \A u \in Tasks : On(u, k) => u = t
    BY <1>1
  <2>4. CASE PutCache(t) \/ DelUncache(t)
    <3>1. job[t].at # "retract"
      BY <2>4 DEF PutCache, DelUncache, AtStep
    <3>2. \A e \in echoes : e.key # k
      BY <1>1, <3>1
    <3>3. \E step \in {"publish", "store", "purge"} : Goto(t, step)
      BY <2>4 DEF PutCache, DelUncache, AfterCache
    <3>4. /\ On(t, k)' /\ job'[t].host = job[t].host
          /\ job'[t].at \in {"publish", "store", "purge"}
      BY <1>2, <3>3, JobTyped, MetadataAssumption DEF Goto, On, Busy, Job
    <3>5. \A h \in Hosts : h # job[t].host => cache'[h][k] = cache[h][k]
      BY <1>2, <2>4 DEF PutCache, DelUncache, Cache
    <3>6. ASSUME NEW h \in up
          PROVE  Agreeing(h, k)'
      <4>1. CASE h = job[t].host
        BY <3>4, <4>1 DEF Agreeing
      <4>2. CASE h # job[t].host
        <5>1. cache[h][k] = Stored(k)
          BY <2>2, <2>3, <3>2, <4>2 DEF Agreeing
        <5> QED BY <1>2, <2>1, <3>5, <4>2, <5>1 DEF Agreeing, Stored
      <4> QED BY <4>1, <4>2
    <3> QED BY <3>2, <3>6
  <2>5. CASE PutPublish(t)
    <3>1. cache' = cache /\ Goto(t, "store")
      BY <2>5 DEF PutPublish, tables
    <3>2. On(t, k)' /\ job'[t].host = job[t].host /\ job'[t].at = "store"
      BY <1>2, <3>1, JobTyped, MetadataAssumption DEF Goto, On, Busy, Job
    <3>3. ASSUME NEW h \in up
          PROVE  Agreeing(h, k)'
      <4>1. CASE \E u \in Tasks : On(u, k) /\ job[u].host = h
                   /\ job[u].at \in {"publish", "store", "purge"}
        BY <2>3, <3>2, <4>1 DEF Agreeing
      <4>2. CASE ~\E u \in Tasks : On(u, k) /\ job[u].host = h
                   /\ job[u].at \in {"publish", "store", "purge"}
        BY <2>1, <2>2, <3>1, <4>2 DEF Agreeing, Stored
      <4> QED BY <4>1, <4>2
    <3> QED BY <3>1, <3>3
  <2>6. CASE PutAlias(t) \/ DelLookup(t) \/ DelRetract(t)
    <3>1. cache' = cache
      BY <2>6 DEF PutAlias, DelLookup, DelRetract, tables
    <3>2. job[t].at \notin {"publish", "store", "purge"}
      BY <2>6 DEF PutAlias, DelLookup, DelRetract, AtStep
    <3>3. ASSUME NEW h \in up
          PROVE  Agreeing(h, k)'
      BY <2>1, <2>2, <2>3, <3>1, <3>2 DEF Agreeing, Stored
    <3> QED BY <3>1, <3>3
  <2> QED BY <1>6, <2>4, <2>5, <2>6
<1> QED BY <1>4, <1>5, <1>6 DEF TaskStep
-----------------------------------------------------------------------------
(* A step of a message *)

SameMessage(e, m) ==
  /\ m.host = e.host /\ m.key = e.key
  /\ m.op = e.op /\ m.val = e.val /\ m.seq = e.seq

LEMMA EchoShape ==
  ASSUME Typed, AgreeInv, NEW e \in echoes, EchoStep(e)
  PROVE  /\ up' = up /\ bucket' = bucket /\ job' = job /\ trust' = trust
         /\ e \in Echo /\ e.host \in up /\ e.host \in Hosts /\ e.key \in Keys
         /\ \/ echoes' = echoes \ {e}
            \/ \E m \in Echo : /\ SameMessage(e, m) /\ e.at # "publish"
                               /\ m.at \in {"cache", "publish"} => e.op = "put"
                               /\ m.at \in {"retract", "uncache"} => e.op = "purge"
                               /\ m.at # "wire"
                               /\ echoes' = (echoes \ {e}) \cup {m}
         /\ \/ cache' = cache
            \/ e.at # "publish" /\ Cache(e.host, e.key, IF e.op = "put" THEN e.val ELSE NoValue)
<1>1. e \in Echo /\ e.host \in up /\ e.host \in Hosts /\ e.key \in Keys
  BY EchoTyped DEF Typed, AgreeInv, HostsOK
<1>2. up' = up /\ bucket' = bucket /\ job' = job /\ trust' = trust
  BY DEF EchoStep, HandlePut, HandleCache, HandlePublish, HandlePurge, HandleRetract,
         HandleUncache, HandleUnexpected, Superseded, hist
<1>3. IF e.at \in {"cache", "publish"} THEN e.op = "put"
      ELSE e.at # "wire" => e.op = "purge"
  BY DEF AgreeInv, StepsOK
<1> DEFINE Moved(m) == /\ SameMessage(e, m) /\ e.at # "publish"
                       /\ m.at \in {"cache", "publish"} => e.op = "put"
                       /\ m.at \in {"retract", "uncache"} => e.op = "purge"
                       /\ m.at # "wire"
                       /\ echoes' = (echoes \ {e}) \cup {m}
<1>4. ASSUME NEW label \in {"cache", "publish", "retract", "uncache"}, MoveOn(e, label),
             e.at # "publish", label \in {"cache", "publish"} <=> e.op = "put"
      PROVE  \E m \in Echo : Moved(m)
  <2> DEFINE m == [e EXCEPT !.at = label]
  <2>1. m \in Echo /\ SameMessage(e, m) /\ m.at = label
    BY <1>1 DEF Echo, SameMessage
  <2>2. e.op \in {"put", "purge"}
    BY <1>1 DEF Echo
  <2>3. /\ m.at \in {"cache", "publish"} => e.op = "put"
        /\ m.at \in {"retract", "uncache"} => e.op = "purge"
        /\ m.at # "wire"
    BY <1>4, <2>1, <2>2
  <2>4. echoes' = (echoes \ {e}) \cup {m}
    BY <1>4 DEF MoveOn
  <2>5. Moved(m)
    BY <1>4, <2>1, <2>3, <2>4
  <2> QED BY <2>1, <2>5
<1>5. CASE HandlePut(e)
  <2>1. \/ Finish(e)
        \/ \E label \in {"cache", "publish"} : MoveOn(e, label)
    BY <1>5 DEF HandlePut
  <2>2. e.op = "put" /\ e.at = "wire"
    BY <1>5 DEF HandlePut
  <2>3. cache' = cache \/ Cache(e.host, e.key, e.val)
    BY <1>5 DEF HandlePut
  <2>4. Finish(e) \/ \E m \in Echo : Moved(m)
    BY <1>4, <2>1, <2>2
  <2> QED BY <1>1, <1>2, <2>2, <2>3, <2>4 DEF Finish
<1>6. CASE HandleCache(e) \/ HandleUncache(e)
  <2>1. Finish(e) /\ e.at # "publish"
    BY <1>6 DEF HandleCache, HandleUncache
  <2>2. Cache(e.host, e.key, IF e.op = "put" THEN e.val ELSE NoValue)
    BY <1>3, <1>6 DEF HandleCache, HandleUncache
  <2> QED BY <1>1, <1>2, <2>1, <2>2 DEF Finish
<1>7. CASE HandlePurge(e)
  <2> DEFINE v == cache[e.host][e.key]
             m == [e EXCEPT !.saw = v, !.at = IF v = NoValue THEN "uncache" ELSE "retract"]
  <2>1. v \in OrNone(Values)
    BY <1>1 DEF Typed, TypeOK
  <2>2. m \in Echo /\ SameMessage(e, m) /\ m.at \in {"uncache", "retract"}
    BY <1>1, <2>1 DEF Echo, SameMessage
  <2>3. e.op = "purge" /\ e.at = "wire" /\ cache' = cache /\ echoes' = (echoes \ {e}) \cup {m}
    BY <1>7 DEF HandlePurge, tables
  <2>4. Moved(m)
    BY <2>2, <2>3
  <2> QED BY <1>1, <1>2, <2>2, <2>3, <2>4
<1>8. CASE HandleRetract(e)
  <2>1. e.at = "retract" /\ MoveOn(e, "uncache") /\ cache' = cache
    BY <1>8 DEF HandleRetract, tables
  <2>2. \E m \in Echo : Moved(m)
    BY <1>3, <1>4, <2>1
  <2> QED BY <1>1, <1>2, <2>1, <2>2
<1>9. CASE HandlePublish(e) \/ HandleUnexpected(e) \/ Superseded(e)
  <2>1. Finish(e) /\ cache' = cache
    BY <1>9 DEF HandlePublish, HandleUnexpected, Superseded, tables
  <2> QED BY <1>1, <1>2, <2>1 DEF Finish
<1> QED BY <1>5, <1>6, <1>7, <1>8, <1>9 DEF EchoStep

LEMMA EchoOtherKeys ==
  ASSUME Typed, AgreeInv, NEW e \in echoes, EchoStep(e), NEW k \in Keys, k # e.key
  PROVE  Untouched(k)
<1>1. /\ up' = up /\ bucket' = bucket /\ job' = job /\ trust' = trust
      /\ e.host \in Hosts /\ e.key \in Keys
  BY EchoShape
<1>2. \A m \in echoes \cup echoes' : m.key = k => m \in echoes /\ m \in echoes'
  BY EchoShape DEF SameMessage
<1>3. cache' = cache \/ \E v : Cache(e.host, e.key, v)
  BY EchoShape
<1>4. \A h \in Hosts : cache'[h][k] = cache[h][k]
  <2>1. CASE cache' = cache
    BY <2>1
  <2>2. ASSUME NEW v, Cache(e.host, e.key, v)
        PROVE  \A h \in Hosts : cache'[h][k] = cache[h][k]
    BY <1>1, <2>2 DEF Cache, Typed, TypeOK
  <2> QED BY <1>3, <2>1, <2>2
<1> QED BY <1>1, <1>2, <1>4 DEF Untouched

(* What takes the place of a message that is handled only in part.         *)
Becomes(e, labels) ==
  \E m : SameMessage(e, m) /\ m.at \in labels /\ echoes' = (echoes \ {e}) \cup {m}

LEMMA EchoMoves ==
  ASSUME Typed, NEW e \in echoes
  PROVE  /\ \A label : MoveOn(e, label) => Becomes(e, {label})
         /\ HandlePurge(e) => Becomes(e, {"uncache", "retract"})
<1>1. e \in Echo
  BY DEF Typed, TypeOK
<1>2. ASSUME NEW label, MoveOn(e, label)
      PROVE  Becomes(e, {label})
  <2> DEFINE m == [e EXCEPT !.at = label]
  <2>1. SameMessage(e, m) /\ m.at = label
    BY <1>1 DEF Echo, SameMessage
  <2>2. echoes' = (echoes \ {e}) \cup {m}
    BY <1>2 DEF MoveOn
  <2> HIDE DEF m
  <2> QED BY <2>1, <2>2 DEF Becomes
<1>3. ASSUME HandlePurge(e)
      PROVE  Becomes(e, {"uncache", "retract"})
  <2> DEFINE v == cache[e.host][e.key]
             m == [e EXCEPT !.saw = v, !.at = IF v = NoValue THEN "uncache" ELSE "retract"]
  <2>1. SameMessage(e, m) /\ m.at \in {"uncache", "retract"}
    BY <1>1 DEF Echo, SameMessage
  <2>2. echoes' = (echoes \ {e}) \cup {m}
    BY <1>3 DEF HandlePurge
  <2> HIDE DEF m
  <2> QED BY <2>1, <2>2 DEF Becomes
<1> QED BY <1>2, <1>3

LEMMA EchoKey ==
  ASSUME Typed, AgreeInv, NEW e \in echoes, EchoStep(e), NEW k \in Keys, k = e.key
  PROVE  KeyInv(k)'
<1> SUFFICES ASSUME trust[k] # "disturbed"
             PROVE  KeyInv(k)'
  BY EchoShape DEF KeyInv, OneAtATime, KeyAgrees
<1>1. /\ up' = up /\ bucket' = bucket /\ job' = job /\ trust' = trust
      /\ e \in Echo /\ e.host \in up /\ e.host \in Hosts
      /\ cache \in [Hosts -> [Keys -> OrNone(Values)]] /\ up \subseteq Hosts
  BY EchoShape DEF Typed, TypeOK
<1>2. KeyInv(k)
  BY DEF AgreeInv
<1>3. \A m \in echoes' : m.key = k =>
        \/ m \in echoes
        \/ m.host = e.host /\ m.op = e.op /\ m.val = e.val /\ m.seq = e.seq
  BY EchoShape DEF SameMessage
<1>4. \A t \in Tasks : On(t, k) => job[t].at = "retract"
  BY <1>2 DEF KeyInv, OneAtATime
<1>5. OneAtATime(k)'
  <2>1. \A t \in Tasks : On(t, k)' <=> On(t, k)
    BY <1>1 DEF On, Busy
  <2> QED BY <1>1, <1>2, <1>4, <2>1 DEF KeyInv, OneAtATime
<1> SUFFICES ASSUME trust[k] \in {"calm", "cut"}
             PROVE  KeyAgrees(k)'
  BY <1>1, <1>5 DEF KeyInv, KeyAgrees
<1>6. /\ \A m \in echoes : m.key = k =>
           /\ m.op = bucket[k].op /\ m.val = bucket[k].val /\ m.seq = bucket[k].seq
           /\ m.at = "publish" => cache[m.host][k] = Stored(k)
      /\ \A h \in up : Agreeing(h, k)
      /\ bucket[k].op = "purge" => k \notin RefKeys
  BY <1>2 DEF KeyInv, KeyAgrees
<1>7. (IF e.op = "put" THEN e.val ELSE NoValue) = Stored(k)
  BY <1>6 DEF Stored, AgreeInv, StepsOK
<1>8. \A h \in Hosts : cache'[h][k] = cache[h][k] \/ cache'[h][k] = Stored(k)
  <2>1. CASE cache' = cache
    BY <2>1
  <2>2. CASE Cache(e.host, k, Stored(k))
    BY <1>1, <2>2 DEF Cache
  <2> QED BY <1>7, <2>1, <2>2, EchoShape
<1>9. \A m \in echoes' : m.key = k =>
        /\ m.op = bucket[k].op /\ m.val = bucket[k].val /\ m.seq = bucket[k].seq
        /\ m.at = "publish" => cache'[m.host][k] = Stored(k)
  <2> SUFFICES ASSUME NEW m \in echoes', m.key = k
               PROVE  /\ m.op = bucket[k].op /\ m.val = bucket[k].val /\ m.seq = bucket[k].seq
                      /\ m.at = "publish" => cache'[m.host][k] = Stored(k)
    OBVIOUS
  <2>1. CASE m \in echoes
    <3>1. m.host \in Hosts
      BY <2>1, EchoTyped DEF Typed
    <3> QED BY <1>6, <1>8, <2>1, <3>1
  <2>2. CASE m \notin echoes
    <3>1. m.op = bucket[k].op /\ m.val = bucket[k].val /\ m.seq = bucket[k].seq
          /\ m.host = e.host
      BY <1>3, <1>6, <2>2
    <3>2. ASSUME m.at = "publish"
          PROVE  cache'[e.host][k] = Stored(k)
      <4>1. ~Finish(e)
        BY <2>2 DEF Finish
      <4>2. \A labels : Becomes(e, labels) => "publish" \in labels
        BY <2>2, <3>2 DEF Becomes
      <4>3. ~HandlePurge(e) /\ \A label : MoveOn(e, label) => label = "publish"
        <5>1. ASSUME NEW label, MoveOn(e, label)
              PROVE  label = "publish"
          BY <4>2, <5>1, EchoMoves
        <5>2. ~HandlePurge(e)
          BY <4>2, EchoMoves
        <5> QED BY <5>1, <5>2
      <4>4. HandlePut(e)
        <5>1. ~HandleRetract(e)
          BY <4>3 DEF HandleRetract
        <5> QED BY <4>1, <4>3, <5>1
              DEF EchoStep, HandleCache, HandlePublish, HandleUncache, HandleUnexpected,
                  Superseded
      <4>5. Cache(e.host, k, e.val)
        <5>1. ~MoveOn(e, "cache")
          BY <4>3
        <5> QED BY <4>1, <4>4, <5>1 DEF HandlePut
      <4>6. e.val = Stored(k)
        BY <1>6 DEF Stored
      <4> QED BY <1>1, <4>5, <4>6 DEF Cache
    <3> QED BY <3>1, <3>2
  <2> QED BY <2>1, <2>2
<1>10. (\E m \in echoes' : m.host = e.host /\ m.key = k /\ m.at # "publish")
       \/ cache'[e.host][k] = Stored(k) \/ e.at = "publish"
  <2>1. CASE HandleUnexpected(e) \/ Superseded(e)
    <3>1. bucket[k].seq \in Nat
      BY DEF Typed, TypeOK, Record
    <3>2. (k \in RefKeys /\ e.op = "purge") \/ e.seq < bucket[k].seq
      BY <2>1 DEF HandleUnexpected, Superseded, Uncached, Keys
    <3> QED BY <1>6, <3>1, <3>2
  <2>2. CASE HandlePublish(e)
    BY <2>2 DEF HandlePublish
  <2>3. CASE HandleRetract(e) \/ HandlePurge(e)
    <3>1. Becomes(e, {"uncache"}) \/ Becomes(e, {"uncache", "retract"})
      BY <2>3, EchoMoves DEF HandleRetract
    <3> QED BY <3>1 DEF Becomes, SameMessage
  <2>4. CASE HandleCache(e) \/ HandleUncache(e)
    <3>1. Cache(e.host, k, Stored(k))
      BY <1>6, <2>4 DEF HandleCache, HandleUncache, Stored, AgreeInv, StepsOK
    <3> QED BY <1>1, <3>1 DEF Cache
  <2>5. CASE HandlePut(e)
    <3>1. Cache(e.host, k, Stored(k)) \/ MoveOn(e, "cache")
      BY <1>6, <2>5 DEF HandlePut, Stored
    <3>2. CASE Cache(e.host, k, Stored(k))
      BY <1>1, <3>2 DEF Cache
    <3>3. CASE MoveOn(e, "cache")
      <4>1. Becomes(e, {"cache"})
        BY <3>3, EchoMoves
      <4> QED BY <4>1 DEF Becomes, SameMessage
    <3> QED BY <3>1, <3>2, <3>3
  <2> QED BY <2>1, <2>2, <2>3, <2>4, <2>5 DEF EchoStep
<1>11. ASSUME NEW h \in up
       PROVE  Agreeing(h, k)'
  <2>1. Agreeing(h, k) /\ h \in Hosts
    BY <1>1, <1>6
  <2>2. CASE cache[h][k] = Stored(k)
    BY <1>1, <1>8, <2>1, <2>2 DEF Agreeing, Stored
  <2>3. ASSUME NEW m \in echoes, m.host = h, m.key = k, m.at # "publish"
        PROVE  Agreeing(h, k)'
    <3>1. CASE m = e
      BY <1>1, <1>10, <2>3, <3>1 DEF Agreeing, Stored
    <3>2. CASE m # e
      <4>1. m \in echoes'
        BY <3>2, EchoShape
      <4> QED BY <2>3, <4>1 DEF Agreeing
    <3> QED BY <3>1, <3>2
  <2> QED BY <1>4, <2>1, <2>2, <2>3 DEF Agreeing
<1>12. KeyAgrees(k)'
  BY <1>1, <1>6, <1>9, <1>11 DEF KeyAgrees, Stored
<1> QED BY <1>5, <1>12 DEF KeyInv
-----------------------------------------------------------------------------
(* The steps of the environment *)

LEMMA ArriveKey ==
  ASSUME Typed, AgreeInv, NEW t \in Tasks, NEW r \in Requests, NEW h \in Hosts,
         Arrive(t, r, h), NEW k \in Keys
  PROVE  KeyInv(k)'
<1> DEFINE j == [op |-> r.op, key |-> r.key, val |-> r.val,
                 host |-> h, at |-> EntryPoint(r), saw |-> NoValue]
<1>1. /\ up' = up /\ cache' = cache /\ bucket' = bucket /\ echoes' = echoes
      /\ job[t] = NoJob /\ job' = [job EXCEPT ![t] = j]
      /\ job \in [Tasks -> Job \cup {NoJob}] /\ trust \in [Keys -> Trusts]
      /\ r.key \in Keys
  BY MetadataAssumption DEF Arrive, tables, store, Typed, TypeOK, Request
<1>2. job'[t].key = r.key /\ \A u \in Tasks \ {t} : job'[u] = job[u]
  BY <1>1
<1>3. ~On(t, k)
  BY <1>1 DEF On, Busy
<1>4. KeyInv(k)
  BY DEF AgreeInv
<1>5. CASE r.key # k
  <2>1. trust'[k] = trust[k]
    BY <1>1, <1>5 DEF Arrive, Trust
  <2>2. \A u \in Tasks : On(u, k) \/ On(u, k)' => job'[u] = job[u]
    BY <1>2, <1>3, <1>5 DEF On
  <2>3. Untouched(k)
    BY <1>1, <2>1, <2>2 DEF Untouched
  <2> QED BY <1>4, <2>3, KeyFrame
<1>6. CASE r.key = k /\ trust'[k] = "disturbed"
  BY <1>6 DEF KeyInv, OneAtATime, KeyAgrees
<1>7. CASE r.key = k /\ trust'[k] # "disturbed"
  <2>1. Quiescent(k) /\ (trust'[k] = trust[k] \/ trust'[k] = "mending")
    BY <1>1, <1>7 DEF Arrive, Trust
  <2>2. \A u \in Tasks : ~On(u, k)
    BY <2>1 DEF Quiescent, Active, On
  <2>3. \A u \in Tasks : On(u, k)' => u = t
    BY <1>2, <2>2 DEF On, Busy
  <2>4. \A e \in echoes' : e.key # k
    BY <1>1, <2>1 DEF Quiescent
  <2>5. OneAtATime(k)'
    BY <2>3, <2>4 DEF OneAtATime
  <2>6. ASSUME trust'[k] \in {"calm", "cut"}
        PROVE  /\ \A g \in up' : Agreeing(g, k)'
               /\ bucket'[k].op = "purge" => k \notin RefKeys
    <3>1. trust[k] \in {"calm", "cut"}
      BY <2>1, <2>6
    <3>2. KeyAgrees(k)
      BY <1>4 DEF KeyInv
    <3>3. \A g \in up : cache[g][k] = Stored(k)
      BY <1>1, <2>2, <2>4, <3>1, <3>2 DEF KeyAgrees, Agreeing
    <3> QED BY <1>1, <3>1, <3>2, <3>3 DEF KeyAgrees, Agreeing, Stored
  <2> QED BY <2>4, <2>5, <2>6 DEF KeyInv, KeyAgrees
<1> QED BY <1>5, <1>6, <1>7

LEMMA OperatorKey ==
  ASSUME Typed, AgreeInv, NEW p \in Keys, OperatorPurge(p), NEW k \in Keys
  PROVE  KeyInv(k)'
<1>1. /\ up' = up /\ cache' = cache /\ job' = job /\ Write(p, "purge", NoValue)
      /\ trust \in [Keys -> Trusts] /\ bucket \in [Keys -> Record]
  BY DEF OperatorPurge, tables, Typed, TypeOK
<1>2. KeyInv(k)
  BY DEF AgreeInv
<1>3. CASE p # k
  <2>1. trust'[k] = trust[k]
    BY <1>1, <1>3 DEF OperatorPurge, Trust
  <2>2. bucket'[k] = bucket[k]
    BY <1>1, <1>3 DEF Write
  <2>3. \A e \in echoes \cup echoes' : e.key = k => e \in echoes /\ e \in echoes'
    BY <1>1, <1>3 DEF Write, Message
  <2>4. Untouched(k)
    BY <1>1, <2>1, <2>2, <2>3 DEF Untouched
  <2> QED BY <1>2, <2>4, KeyFrame
<1>4. CASE p = k /\ trust'[k] = "disturbed"
  BY <1>4 DEF KeyInv, OneAtATime, KeyAgrees
<1>5. CASE p = k /\ trust'[k] # "disturbed"
  <2>1. Quiescent(k) /\ k \in ClaimKeys
    BY <1>1, <1>5 DEF OperatorPurge, Trust
  <2>2. \A u \in Tasks : ~On(u, k)'
    BY <1>1, <2>1 DEF Quiescent, Active, On, Busy
  <2>3. OneAtATime(k)'
    BY <2>2 DEF OneAtATime
  <2>4. NoValue \in OrNone(Values) /\ k \notin RefKeys /\ \A e \in echoes : e.key # k
    BY <2>1, MetadataAssumption DEF OrNone, Quiescent
  <2>5. KeyAgrees(k)'
    BY <1>1, <1>5, <2>4, WriteAgrees
  <2> QED BY <2>3, <2>5 DEF KeyInv
<1> QED BY <1>3, <1>4, <1>5

LEMMA LoseKey ==
  ASSUME Typed, AgreeInv, NEW e \in echoes, Lose(e), NEW k \in Keys
  PROVE  KeyInv(k)'
<1>1. /\ up' = up /\ cache' = cache /\ job' = job /\ bucket' = bucket
      /\ trust \in [Keys -> Trusts] /\ echoes' = echoes \ {e}
      /\ trust' = [trust EXCEPT ![e.key] = "disturbed"]
  BY DEF Lose, Finish, Disturb, Trust, tables, Typed, TypeOK
<1>2. CASE e.key # k
  <2>1. Untouched(k)
    BY <1>1, <1>2 DEF Untouched
  <2> QED BY <2>1, KeyFrame DEF AgreeInv
<1>3. CASE e.key = k
  BY <1>1, <1>3 DEF KeyInv, OneAtATime, KeyAgrees
<1> QED BY <1>2, <1>3

(* A crash takes a host's entries, requests and messages together.         *)
LEMMA CrashKey ==
  ASSUME Typed, AgreeInv, NEW h \in Hosts, Crash(h), NEW k \in Keys
  PROVE  KeyInv(k)'
<1>1. /\ up' = up \ {h} /\ bucket' = bucket
      /\ echoes' = {e \in echoes : e.host # h}
      /\ up \subseteq Hosts
  BY DEF Crash, Typed, TypeOK
<1>2. \A g \in Hosts \ {h} : cache'[g] = cache[g]
  BY DEF Crash, Typed, TypeOK
<1>3. /\ \A t \in Tasks : On(t, k)' => On(t, k) /\ job'[t] = job[t]
      /\ \A t \in Tasks : On(t, k) /\ job[t].host # h => On(t, k)' /\ job'[t] = job[t]
  BY DEF Crash, ServedBy, On, Busy
<1>4. /\ trust'[k] # "disturbed" => trust[k] # "disturbed"
      /\ trust'[k] \in {"calm", "cut"} => trust[k] \in {"calm", "cut"}
  BY DEF Crash, Typed, TypeOK
<1>5. KeyInv(k)
  BY DEF AgreeInv
<1>6. OneAtATime(k)'
  BY <1>1, <1>3, <1>4, <1>5 DEF KeyInv, OneAtATime
<1> SUFFICES ASSUME trust[k] \in {"calm", "cut"}
             PROVE  /\ \A e \in echoes' : e.key = k =>
                         /\ e.op = bucket[k].op /\ e.val = bucket[k].val /\ e.seq = bucket[k].seq
                         /\ e.at = "publish" => cache'[e.host][k] = Stored(k)
                    /\ \A g \in up' : Agreeing(g, k)'
                    /\ bucket[k].op = "purge" => k \notin RefKeys
  BY <1>1, <1>4, <1>6 DEF KeyInv, KeyAgrees, Stored
<1>7. KeyAgrees(k)
  BY <1>5 DEF KeyInv
<1>8. \A e \in echoes : e.host \in Hosts
  BY EchoTyped DEF Typed
<1>9. ASSUME NEW g \in up'
      PROVE  Agreeing(g, k)'
  <2>1. g \in up /\ g \in Hosts \ {h} /\ Agreeing(g, k)
    BY <1>1, <1>7 DEF KeyAgrees
  <2>2. CASE cache[g][k] = Stored(k)
    BY <1>1, <1>2, <2>1, <2>2 DEF Agreeing, Stored
  <2>3. CASE \E e \in echoes : e.host = g /\ e.key = k /\ e.at # "publish"
    BY <1>1, <2>1, <2>3 DEF Agreeing
  <2>4. ASSUME NEW t \in Tasks, On(t, k), job[t].host = g,
               job[t].at \in {"publish", "store", "purge"}
        PROVE  Agreeing(g, k)'
    <3>1. On(t, k)' /\ job'[t] = job[t]
      BY <1>3, <2>1, <2>4
    <3> QED BY <2>4, <3>1 DEF Agreeing
  <2> QED BY <2>1, <2>2, <2>3, <2>4 DEF Agreeing
<1> QED BY <1>1, <1>2, <1>7, <1>8, <1>9 DEF KeyAgrees

(* A host that joins is sent the record of every key.                      *)
LEMMA JoinKey ==
  ASSUME Typed, AgreeInv, NEW h \in Hosts, Join(h), NEW k \in Keys
  PROVE  KeyInv(k)'
<1>1. /\ up' = up \cup {h} /\ bucket' = bucket /\ cache' = cache /\ job' = job
      /\ h \notin up
      /\ echoes' = echoes \cup {Message(h, q, bucket[q]) : q \in Replayed}
  BY DEF Join, tables
<1>2. KeyInv(k)
  BY DEF AgreeInv
<1>3. trust'[k] = IF Active(k) THEN "disturbed" ELSE trust[k]
  BY DEF Join
<1>4. CASE Active(k)
  BY <1>3, <1>4 DEF KeyInv, OneAtATime, KeyAgrees
<1>5. CASE ~Active(k)
  <2>1. \A t \in Tasks : ~On(t, k) /\ ~On(t, k)'
    BY <1>1, <1>5 DEF Active, On, Busy
  <2>2. OneAtATime(k)'
    BY <2>1 DEF OneAtATime
  <2>3. ASSUME NEW e \in echoes', e.key = k, e \notin echoes
        PROVE  /\ e.op = bucket[k].op /\ e.val = bucket[k].val /\ e.seq = bucket[k].seq
               /\ e.at # "publish"
    BY <1>1, <2>3 DEF Message
  <2> SUFFICES ASSUME trust[k] \in {"calm", "cut"}
               PROVE  /\ \A e \in echoes' : e.key = k =>
                           /\ e.op = bucket[k].op /\ e.val = bucket[k].val /\ e.seq = bucket[k].seq
                           /\ e.at = "publish" => cache[e.host][k] = Stored(k)
                      /\ \A g \in up' : Agreeing(g, k)'
                      /\ bucket[k].op = "purge" => k \notin RefKeys
    BY <1>1, <1>3, <1>5, <2>2 DEF KeyInv, KeyAgrees, Stored
  <2>4. KeyAgrees(k)
    BY <1>2 DEF KeyInv
  <2>5. ASSUME NEW g \in up
        PROVE  Agreeing(g, k)'
    <3>1. Agreeing(g, k)
      BY <2>4 DEF KeyAgrees
    <3> QED BY <1>1, <2>1, <3>1 DEF Agreeing, Stored
  <2>6. Agreeing(h, k)'
    <3>1. CASE bucket[k].op = "none"
      <4>1. cache[h][k] = NoValue /\ bucket[k].val = NoValue
        BY <1>1, <3>1 DEF AgreeInv, HostsOK, StepsOK
      <4> QED BY <1>1, <4>1 DEF Agreeing, Stored
    <3>2. CASE bucket[k].op # "none"
      <4>1. Message(h, k, bucket[k]) \in echoes'
        BY <1>1, <3>2 DEF Replayed
      <4> QED BY <4>1 DEF Agreeing, Message
    <3> QED BY <3>1, <3>2
  <2> QED BY <1>1, <2>3, <2>4, <2>5, <2>6 DEF KeyAgrees
<1> QED BY <1>4, <1>5

LEMMA KeyStep ==
  ASSUME Typed, AgreeInv, [Next]_vars, NEW k \in Keys
  PROVE  KeyInv(k)'
<1>1. KeyInv(k)
  BY DEF AgreeInv
<1>2. ASSUME NEW t \in Tasks, TaskStep(t)
      PROVE  KeyInv(k)'
  BY <1>1, <1>2, TaskKey, TaskOtherKeys, KeyFrame
<1>3. ASSUME NEW e \in echoes, EchoStep(e)
      PROVE  KeyInv(k)'
  BY <1>1, <1>3, EchoKey, EchoOtherKeys, KeyFrame
<1>4. CASE UNCHANGED vars
  <2>1. Untouched(k)
    BY <1>4 DEF vars, tables, store, hist, Untouched, On, Busy
  <2> QED BY <1>1, <2>1, KeyFrame
<1> QED
  BY <1>2, <1>3, <1>4, StepKinds, ArriveKey, OperatorKey, LoseKey, CrashKey, JoinKey

LEMMA HostsStep ==
  ASSUME Typed, AgreeInv, [Next]_vars
  PROVE  HostsOK'
<1> USE DEF HostsOK
<1>1. /\ \A h \in Hosts \ up, k \in Keys : cache[h][k] = NoValue
      /\ \A t \in Busy : job[t].host \in up
      /\ \A e \in echoes : e.host \in up
      /\ up \subseteq Hosts /\ cache \in [Hosts -> [Keys -> OrNone(Values)]]
      /\ job \in [Tasks -> Job \cup {NoJob}]
  BY DEF AgreeInv, Typed, TypeOK
<1>2. ASSUME up' = up,
             cache' = cache \/ \E h \in up, k \in Keys : \E v : Cache(h, k, v),
             \A e \in echoes' : e.host \in up,
             \A t \in Tasks : job'[t] # NoJob => job'[t].host \in up
      PROVE  HostsOK'
  <2>1. \A h \in Hosts \ up, k \in Keys : cache'[h][k] = NoValue
    BY <1>1, <1>2 DEF Cache
  <2> QED BY <1>2, <2>1 DEF Busy
<1>3. ASSUME NEW k, NEW op, NEW v, Write(k, op, v)
      PROVE  \A e \in echoes' : e.host \in up
  BY <1>1, <1>3 DEF Write, Recipients, Message
<1>4. \A t \in Tasks : job[t] # NoJob => job[t].host \in up
  BY <1>1 DEF Busy
<1>5. ASSUME NEW t \in Tasks, TaskStep(t)
      PROVE  HostsOK'
  <2>1. /\ up' = up /\ t \in Busy /\ job[t].key \in Keys
        /\ \A u \in Tasks \ {t} : job'[u] = job[u]
        /\ job'[t] = NoJob \/ job'[t].host = job[t].host
    BY <1>5, TaskShape DEF SameRequest
  <2>2. \A u \in Tasks : job'[u] # NoJob => job'[u].host \in up
    BY <1>1, <1>4, <2>1
  <2>3. cache' = cache \/ \E v : Cache(job[t].host, job[t].key, v)
    BY <1>5 DEF TaskStep, PutAlias, PutCache, PutPublish, PutStore, PutStoreFails, DelLookup,
                DelUncache, DelNoVhost, DelPurge, DelPurgeFails, DelRetract, tables
  <2>4. echoes' = echoes \/ \E op, v : Write(job[t].key, op, v)
    BY <1>5 DEF TaskStep, PutAlias, PutCache, PutPublish, PutStore, PutStoreFails, DelLookup,
                DelUncache, DelNoVhost, DelPurge, DelPurgeFails, DelRetract, store
  <2>5. \A e \in echoes' : e.host \in up
    BY <1>1, <1>3, <2>4
  <2> QED BY <1>1, <1>2, <2>1, <2>2, <2>3, <2>5
<1>6. ASSUME NEW e \in echoes, EchoStep(e)
      PROVE  HostsOK'
  <2>1. up' = up /\ job' = job /\ e.host \in up /\ e.key \in Keys
    BY <1>6, EchoShape
  <2>2. cache' = cache \/ \E v : Cache(e.host, e.key, v)
    BY <1>6, EchoShape
  <2>3. \A m \in echoes' : m.host \in up
    BY <1>1, <1>6, EchoShape DEF SameMessage
  <2> QED BY <1>2, <1>4, <2>1, <2>2, <2>3
<1>7. ASSUME NEW t \in Tasks, NEW r \in Requests, NEW h \in Hosts, Arrive(t, r, h)
      PROVE  HostsOK'
  <2>1. \A u \in Tasks : job'[u] # NoJob => job'[u].host \in up
    BY <1>1, <1>4, <1>7 DEF Arrive
  <2> QED BY <1>1, <1>2, <1>7, <2>1 DEF Arrive, tables, store
<1>8. ASSUME NEW k \in Keys, OperatorPurge(k)
      PROVE  HostsOK'
  BY <1>2, <1>3, <1>4, <1>8 DEF OperatorPurge, tables
<1>9. ASSUME NEW e \in echoes, Lose(e)
      PROVE  HostsOK'
  BY <1>1, <1>2, <1>4, <1>9 DEF Lose, Finish, tables
<1>10. ASSUME NEW h \in Hosts, Crash(h)
       PROVE  HostsOK'
  <2>1. \A k \in Keys : cache'[h][k] = NoValue
    BY <1>1, <1>10 DEF Crash
  <2>2. \A g \in Hosts \ {h} : cache'[g] = cache[g]
    BY <1>1, <1>10 DEF Crash
  <2>3. up' = up \ {h} /\ \A e \in echoes' : e \in echoes /\ e.host # h
    BY <1>10 DEF Crash
  <2>4. \A t \in Busy' : t \in Busy /\ job'[t] = job[t] /\ job[t].host # h
    BY <1>10 DEF Crash, ServedBy, Busy
  <2> QED BY <1>1, <2>1, <2>2, <2>3, <2>4
<1>11. ASSUME NEW h \in Hosts, Join(h)
       PROVE  HostsOK'
  <2>1. up' = up \cup {h} /\ cache' = cache /\ job' = job
    BY <1>11 DEF Join, tables
  <2>2. \A e \in echoes' : e.host \in up \cup {h}
    BY <1>1, <1>11 DEF Join, Message
  <2> QED BY <1>1, <2>1, <2>2 DEF Busy
<1>12. ASSUME UNCHANGED vars
       PROVE  HostsOK'
  BY <1>1, <1>12 DEF vars, tables, store, Busy
<1> QED BY <1>5, <1>6, <1>7, <1>8, <1>9, <1>10, <1>11, <1>12, StepKinds

(* A request, a message and a record stay of their kind.                   *)
JobFits(j) ==
  /\ j.op = "del" => j.key \in LinkKeys
  /\ j.at \in {"lookup", "uncache", "purge", "retract"} => j.op = "del"
EchoFits(e) ==
  IF e.at \in {"cache", "publish"} THEN e.op = "put" ELSE e.at # "wire" => e.op = "purge"

LEMMA TaskFits ==
  ASSUME Typed, AgreeInv, NEW t \in Tasks, TaskStep(t)
  PROVE  job'[t] = NoJob \/ JobFits(job'[t])
<1>1. /\ t \in Busy /\ job[t] \in Job /\ JobFits(job[t])
      /\ job \in [Tasks -> Job \cup {NoJob}]
  BY TaskShape DEF AgreeInv, StepsOK, JobFits, Typed, TypeOK
<1> SUFFICES ASSUME job'[t] # NoJob
             PROVE  job'[t].at \in {"lookup", "uncache", "purge", "retract"} => job[t].op = "del"
  BY <1>1, TaskShape DEF SameRequest, JobFits
<1>2. ASSUME NEW step \in {"cache", "publish", "store"}, Goto(t, step)
      PROVE  job'[t].at \notin {"lookup", "uncache", "purge", "retract"}
  BY <1>1, <1>2 DEF Goto, Job
<1>3. CASE PutAlias(t) \/ PutCache(t) \/ PutPublish(t)
  BY <1>2, <1>3 DEF PutAlias, PutCache, PutPublish, AfterCache
<1>4. CASE DelLookup(t) \/ DelUncache(t) \/ DelNoVhost(t) \/ DelPurge(t) \/ DelPurgeFails(t)
             \/ DelRetract(t)
  BY <1>1, <1>4 DEF DelLookup, DelUncache, DelNoVhost, DelPurge, DelPurgeFails, DelRetract, AtStep, JobFits
<1>5. CASE PutStore(t) \/ PutStoreFails(t)
  BY <1>1, <1>5 DEF PutStore, PutStoreFails, Done
<1> QED BY <1>3, <1>4, <1>5 DEF TaskStep

LEMMA FitsStep ==
  ASSUME Typed, AgreeInv, [Next]_vars
  PROVE  StepsOK'
<1>1. /\ \A t \in Tasks : job[t] = NoJob \/ JobFits(job[t])
      /\ \A e \in echoes : EchoFits(e)
      /\ \A k \in Keys : bucket[k].op # "put" => bucket[k].val = NoValue
      /\ job \in [Tasks -> Job \cup {NoJob}] /\ bucket \in [Keys -> Record]
  BY DEF AgreeInv, StepsOK, JobFits, EchoFits, Busy, Typed, TypeOK
<1>2. ASSUME \A t \in Tasks : job'[t] = NoJob \/ JobFits(job'[t]),
             \A e \in echoes' : EchoFits(e),
             \A k \in Keys : bucket'[k].op # "put" => bucket'[k].val = NoValue
      PROVE  StepsOK'
  BY <1>2 DEF StepsOK, JobFits, EchoFits, Busy
<1>3. ASSUME NEW p \in Keys, NEW op \in {"put", "purge"}, NEW v,
             op = "purge" => v = NoValue, Write(p, op, v)
      PROVE  /\ \A e \in echoes' : EchoFits(e)
             /\ \A k \in Keys : bucket'[k].op # "put" => bucket'[k].val = NoValue
  <2>1. \A e \in echoes' : e \in echoes \/ e.at = "wire"
    BY <1>3 DEF Write, Message
  <2>2. \A k \in Keys : \/ bucket'[k] = bucket[k]
                        \/ bucket'[k].op = op /\ bucket'[k].val = v
    BY <1>1, <1>3 DEF Write, Newest
  <2> QED BY <1>1, <1>3, <2>1, <2>2 DEF EchoFits
<1>4. ASSUME NEW t \in Tasks, TaskStep(t)
      PROVE  StepsOK'
  <2>1. \A u \in Tasks : job'[u] = NoJob \/ JobFits(job'[u])
    BY <1>1, <1>4, TaskShape, TaskFits
  <2>2. \/ bucket' = bucket /\ echoes' = echoes
        \/ Write(job[t].key, "put", job[t].val)
        \/ Write(job[t].key, "purge", NoValue)
    BY <1>4 DEF TaskStep, PutAlias, PutCache, PutPublish, PutStore, PutStoreFails, DelLookup,
                DelUncache, DelNoVhost, DelPurge, DelPurgeFails, DelRetract, store
  <2>3. job[t].key \in Keys
    BY <1>4, TaskShape
  <2>4. /\ \A e \in echoes' : EchoFits(e)
        /\ \A k \in Keys : bucket'[k].op # "put" => bucket'[k].val = NoValue
    BY <1>1, <1>3, <2>2, <2>3
  <2> QED BY <1>2, <2>1, <2>4
<1>5. ASSUME NEW e \in echoes, EchoStep(e)
      PROVE  StepsOK'
  <2>1. bucket' = bucket /\ job' = job
    BY <1>5, EchoShape
  <2>2. \A m \in echoes' : EchoFits(m)
    <3>1. ASSUME NEW m \in Echo, SameMessage(e, m),
                 m.at \in {"cache", "publish"} => e.op = "put",
                 m.at \in {"retract", "uncache"} => e.op = "purge",
                 m.at # "wire"
          PROVE  EchoFits(m)
      BY <3>1 DEF Echo, EchoFits, SameMessage
    <3> QED BY <1>1, <1>5, <3>1, EchoShape
  <2> QED BY <1>1, <1>2, <2>1, <2>2
<1>6. ASSUME NEW t \in Tasks, NEW r \in Requests, NEW h \in Hosts, Arrive(t, r, h)
      PROVE  StepsOK'
  <2> DEFINE j == [op |-> r.op, key |-> r.key, val |-> r.val,
                   host |-> h, at |-> EntryPoint(r), saw |-> NoValue]
  <2>1. JobFits(j)
    BY MetadataAssumption DEF JobFits, EntryPoint, Request
  <2>2. \A u \in Tasks : job'[u] = NoJob \/ JobFits(job'[u])
    BY <1>1, <1>6, <2>1 DEF Arrive
  <2> QED BY <1>1, <1>2, <1>6, <2>2 DEF Arrive, store
<1>7. ASSUME NEW k \in Keys, OperatorPurge(k)
      PROVE  StepsOK'
  BY <1>1, <1>2, <1>3, <1>7 DEF OperatorPurge
<1>8. ASSUME NEW e \in echoes, Lose(e)
      PROVE  StepsOK'
  BY <1>1, <1>2, <1>8 DEF Lose, Finish
<1>9. ASSUME NEW h \in Hosts, Crash(h)
      PROVE  StepsOK'
  <2>1. \A t \in Tasks : job'[t] = NoJob \/ job'[t] = job[t]
    BY <1>9 DEF Crash
  <2> QED BY <1>1, <1>2, <1>9, <2>1 DEF Crash
<1>10. ASSUME NEW h \in Hosts, Join(h)
       PROVE  StepsOK'
  <2>1. \A e \in echoes' : e \in echoes \/ e.at = "wire"
    BY <1>10 DEF Join, Message
  <2> QED BY <1>1, <1>2, <1>10, <2>1 DEF Join, EchoFits
<1>11. ASSUME UNCHANGED vars
       PROVE  StepsOK'
  BY <1>1, <1>2, <1>11 DEF vars, store
<1> QED BY <1>4, <1>5, <1>6, <1>7, <1>8, <1>9, <1>10, <1>11, StepKinds

(* What agreement rests on holds throughout (the tables, the bucket and    *)
(* the messages of MetadataCacheLoader).                                   *)
THEOREM AgreementInvariance == Spec => [](Typed /\ AgreeInv)
<1>1. Typed /\ AgreeInv /\ [Next]_vars => AgreeInv'
  BY KeyStep, HostsStep, FitsStep DEF AgreeInv
<1>2. TypeOK /\ StepKeysOK => Typed
  BY DEF Typed
<1> QED
  BY TypeCorrect, AgreeInit, <1>1, <1>2, PTL DEF Spec

(* Once a key has come to rest undisturbed, every host that runs holds     *)
(* what the bucket holds: for any number of hosts, keys and requests, and  *)
(* also through crashes and hosts that join.                               *)
THEOREM CachesConverge == Spec => []CachesAgree
<1>1. AgreeInv => CachesAgree
  <2> SUFFICES ASSUME AgreeInv, NEW k \in Keys, Quiescent(k), trust[k] \in {"calm", "cut"},
                      NEW h \in up
               PROVE  cache[h][k] = Stored(k)
    BY DEF CachesAgree
  <2>1. Agreeing(h, k)
    BY DEF AgreeInv, KeyInv, KeyAgrees
  <2>2. \A t \in Tasks : ~On(t, k)
    BY DEF Quiescent, Active, On
  <2> QED BY <2>1, <2>2 DEF Agreeing, Quiescent
<1> QED
  BY AgreementInvariance, <1>1, PTL

-----------------------------------------------------------------------------
(* What providers are told *)

(* A put that got through tells its provider before it stores.             *)
ToldAhead(k) ==
  trust[k] # "disturbed" /\ k \notin unheard =>
    \A t \in Tasks : On(t, k) /\ job[t].at = "store" =>
      told[k][ProviderOf[job[t].val]] = job[t].val

(* A calm link is stored as it was last put or gone; who deletes it has    *)
(* seen it so; and its provider knows, or is about to be told.             *)
LinkTold(k) ==
  trust[k] = "calm" =>
    /\ Stored(k) \in {linked[k], NoValue}
    /\ \A t \in Tasks : On(t, k) /\ job[t].at \in {"uncache", "purge", "retract"} =>
         job[t].saw = linked[k] /\ (job[t].at = "retract" => Stored(k) = NoValue)
    /\ linked[k] # NoValue /\ k \notin unheard =>
         \/ told[k][ProviderOf[linked[k]]] = Stored(k)
         \/ \E t \in Tasks : On(t, k) /\ job[t].at \in {"store", "retract"}

ToldInv == \A k \in LinkKeys : ToldAhead(k) /\ LinkTold(k)

LEMMA ToldInit == Init => ToldInv
<1> SUFFICES ASSUME Init
             PROVE  ToldInv
  OBVIOUS
<1>1. Busy = {} /\ \A t \in Tasks, k \in Keys : ~On(t, k)
  BY DEF Init, On, Busy
<1>3. ASSUME NEW k \in LinkKeys
      PROVE  ToldAhead(k) /\ LinkTold(k)
  <2>1. k \in Keys
    BY DEF Keys
  <2>2. linked[k] = NoValue /\ Stored(k) = NoValue
    BY <2>1 DEF Init, Stored
  <2> QED BY <1>1, <2>1, <2>2 DEF ToldAhead, LinkTold
<1> QED BY <1>3 DEF ToldInv

(* A step that changes of a link at most who has it cached, which messages *)
(* are under way, and requests that end with their host.                   *)
LinkUntouched(k) ==
  /\ told'[k] = told[k] /\ linked'[k] = linked[k] /\ bucket'[k] = bucket[k]
  /\ k \in unheard' <=> k \in unheard
  /\ \A t \in Tasks : On(t, k)' => On(t, k) /\ job'[t] = job[t]
  /\ trust'[k] = "calm" => trust[k] = "calm" /\ \A t \in Tasks : On(t, k) => On(t, k)'
  /\ trust'[k] # "disturbed" => trust[k] # "disturbed"

LEMMA LinkFrame ==
  ASSUME NEW k \in LinkKeys, ToldAhead(k), LinkTold(k), LinkUntouched(k)
  PROVE  ToldAhead(k)' /\ LinkTold(k)'
<1>1. ToldAhead(k)'
  BY DEF ToldAhead, LinkUntouched
<1>2. LinkTold(k)'
  BY DEF LinkTold, LinkUntouched, Stored
<1> QED BY <1>1, <1>2

(* A task's step leaves the links of other keys alone.                     *)
LEMMA TaskOtherLinks ==
  ASSUME Typed, NEW t \in Tasks, TaskStep(t), NEW k \in LinkKeys, k # job[t].key
  PROVE  LinkUntouched(k)
<1>1. Untouched(k)
  BY TaskOtherKeys DEF Keys
<1>2. \/ told' = told
      \/ \E v : Tell(job[t].key, v)
      \/ \E v : Retract(job[t].key, v)
  BY DEF TaskStep, PutAlias, PutCache, PutPublish, PutStore, PutStoreFails, DelLookup,
         DelUncache, DelNoVhost, DelPurge, DelPurgeFails, DelRetract, Dropped
<1>3. told'[k] = told[k]
  BY <1>2 DEF Tell, Retract, Typed, TypeOK
<1>6. k \in unheard' <=> k \in unheard
  BY DEF TaskStep, PutAlias, PutCache, PutPublish, PutStore, PutStoreFails, DelLookup,
         DelUncache, DelNoVhost, DelPurge, DelPurgeFails, DelRetract, Heard, Dropped, hist
<1>4. linked'[k] = linked[k]
  BY DEF TaskStep, PutAlias, PutCache, PutPublish, PutStore, PutStoreFails, DelLookup,
         DelUncache, DelNoVhost, DelPurge, DelPurgeFails, DelRetract, hist, Typed, TypeOK
<1>5. \A u \in Tasks : On(u, k)' <=> On(u, k)
  BY <1>1 DEF Untouched, On, Busy
<1> QED BY <1>1, <1>3, <1>4, <1>5, <1>6 DEF Untouched, LinkUntouched

(* On its own key.                                                         *)
LEMMA TaskLink ==
  ASSUME Typed, AgreeInv, ToldInv, NEW t \in Tasks, TaskStep(t), NEW k \in LinkKeys, k = job[t].key
  PROVE  ToldAhead(k)' /\ LinkTold(k)'
<1> SUFFICES ASSUME trust'[k] # "disturbed"
             PROVE  ToldAhead(k)' /\ LinkTold(k)'
  BY DEF ToldAhead, LinkTold
<1>1. /\ trust[k] # "disturbed" /\ k \in Keys
      /\ \A u \in Tasks : On(u, k) => u = t
      /\ job[t].at # "retract" => \A e \in echoes : e.key # k
  BY TaskOne DEF Keys
<1>2. /\ t \in Busy /\ job[t] \in Job /\ job[t].host \in Hosts
      /\ job[t] # NoJob /\ job \in [Tasks -> Job \cup {NoJob}] /\ job[t].val \in Values
      /\ told \in [LinkKeys -> [Providers -> OrNone(Values)]]
      /\ trust \in [Keys -> Trusts] /\ linked \in [LinkKeys -> OrNone(Values)]
      /\ bucket \in [Keys -> Record] /\ ProviderOf[job[t].val] \in Providers
  BY TaskShape, MetadataAssumption DEF Typed, TypeOK, Busy, Job
<1>3. /\ \A u \in Tasks : On(u, k)' => u = t
      /\ On(t, k)
  BY <1>1, <1>2, TaskShape DEF On, Busy
<1>4. ToldAhead(k) /\ LinkTold(k)
  BY DEF ToldInv
<1>5. CASE PutAlias(t) \/ PutCache(t)
  <2>1. /\ told' = told /\ unheard' = unheard /\ linked' = linked /\ trust' = trust /\ bucket' = bucket
        /\ job[t].at \in {"alias", "cache"}
    BY <1>5 DEF PutAlias, PutCache, store, hist, AtStep
  <2>2. job'[t].at \in {"cache", "publish"} /\ job'[t].key = k
    <3>1. job[t].at = "alias" => k \in ClaimKeys
      BY <1>2 DEF Typed, StepKeysOK
    <3> QED BY <1>2, <1>5, <3>1, MetadataAssumption
            DEF PutAlias, PutCache, AfterCache, Goto, Job
  <2>3. ToldAhead(k)'
    BY <1>3, <2>2 DEF ToldAhead
  <2>4. LinkTold(k)'
    BY <1>1, <1>3, <1>4, <2>1, <2>2 DEF LinkTold, Stored
  <2> QED BY <2>3, <2>4
<1>6. CASE PutPublish(t)
  <2> DEFINE v == job[t].val
  <2>1. /\ linked' = linked /\ trust' = trust /\ bucket' = bucket /\ job[t].at = "publish"
        /\ k \notin unheard' => told'[k][ProviderOf[v]] = v
    BY <1>2, <1>6 DEF PutPublish, store, AtStep, Tell, Dropped
  <2>2. job'[t] = [job[t] EXCEPT !.at = "store"]
    BY <1>2, <1>6 DEF PutPublish, Goto
  <2>3. job'[t].at = "store" /\ job'[t].key = k /\ job'[t].val = v /\ job'[t] \in Job
    BY <1>2, <2>2 DEF Job
  <2>4. On(t, k)'
    BY <2>3, MetadataAssumption DEF On, Busy
  <2>5. ToldAhead(k)'
    BY <1>3, <2>1, <2>3 DEF ToldAhead
  <2>6. LinkTold(k)'
    BY <1>3, <1>4, <2>1, <2>3, <2>4 DEF LinkTold, Stored
  <2> QED BY <2>5, <2>6
<1>7. CASE PutStore(t)
  <2> DEFINE v == job[t].val
  <2>1. told' = told /\ unheard' = unheard /\ job'[t] = NoJob /\ job[t].at = "store" /\ linked'[k] = v
    BY <1>2, <1>7 DEF PutStore, AtStep, Done
  <2>2. bucket'[k].val = v
    BY <1>1, <1>2, <1>7 DEF PutStore, Write, Newest
  <2>3. k \notin unheard => told[k][ProviderOf[v]] = v
    BY <1>1, <1>3, <1>4, <2>1 DEF ToldAhead
  <2>4. \A u \in Tasks : ~On(u, k)'
    BY <1>3, <2>1 DEF On, Busy
  <2> QED BY <2>1, <2>2, <2>3, <2>4 DEF ToldAhead, LinkTold, Stored
<1>8. CASE PutStoreFails(t) \/ DelNoVhost(t) \/ DelPurgeFails(t)
  <2>1. trust'[k] = "disturbed"
    BY <1>1, <1>2, <1>8 DEF PutStoreFails, DelNoVhost, DelPurgeFails, Disturb, Trust
  <2> QED BY <2>1
<1>9. CASE DelLookup(t)
  <2> DEFINE v == cache[job[t].host][k]
             j == [job[t] EXCEPT !.at = "uncache", !.saw = v]
  <2>1. /\ told' = told /\ unheard' = unheard /\ linked' = linked /\ trust' = trust /\ bucket' = bucket
        /\ job[t].at = "lookup" /\ job' = [job EXCEPT ![t] = IF v = NoValue THEN NoJob ELSE j]
    BY <1>9 DEF DelLookup, store, hist, AtStep
  <2>2. job'[t] = NoJob \/ (v # NoValue /\ job'[t] = j)
    BY <1>2, <2>1
  <2>3. j.at = "uncache" /\ j.saw = v
    BY <1>2 DEF Job
  <2>4. trust[k] = "calm" => v = Stored(k)
    <3>1. job[t].host \in up
      BY <1>2 DEF AgreeInv, HostsOK
    <3>2. trust[k] = "calm" => Agreeing(job[t].host, k)
      BY <1>1, <3>1 DEF AgreeInv, KeyInv, KeyAgrees
    <3> QED BY <1>1, <2>1, <3>2 DEF Agreeing
  <2>5. ToldAhead(k)'
    BY <1>3, <2>2, <2>3 DEF ToldAhead, On, Busy
  <2>6. LinkTold(k)'
    <3>1. trust[k] = "calm" /\ On(t, k)' => job'[t].at = "uncache" /\ job'[t].saw = linked[k]
      BY <1>4, <2>2, <2>3, <2>4 DEF LinkTold, On, Busy
    <3>2. \A u \in Tasks : On(u, k) => job[u].at = "lookup"
      BY <1>1, <2>1
    <3> QED BY <1>3, <1>4, <2>1, <3>1, <3>2 DEF LinkTold, Stored
  <2> QED BY <2>5, <2>6
<1>10. CASE DelUncache(t)
  <2>1. /\ told' = told /\ unheard' = unheard /\ linked' = linked /\ trust' = trust /\ bucket' = bucket
        /\ job[t].at = "uncache" /\ job'[t] = [job[t] EXCEPT !.at = "purge"]
    BY <1>2, <1>10 DEF DelUncache, store, hist, AtStep, Goto
  <2>2. job'[t].at = "purge" /\ job'[t].saw = job[t].saw
    BY <1>2, <2>1 DEF Job
  <2>3. ToldAhead(k)'
    BY <1>3, <2>2 DEF ToldAhead
  <2>4. trust[k] = "calm" => job[t].saw = linked[k]
    BY <1>3, <1>4, <2>1 DEF LinkTold
  <2>5. LinkTold(k)'
    BY <1>1, <1>3, <1>4, <2>1, <2>2, <2>4 DEF LinkTold, Stored
  <2> QED BY <2>3, <2>5
<1>11. CASE DelPurge(t)
  <2>1. /\ told' = told /\ unheard' = unheard /\ linked' = linked /\ trust' = trust
        /\ job[t].at = "purge" /\ job'[t] = [job[t] EXCEPT !.at = "retract"]
    BY <1>2, <1>11 DEF DelPurge, hist, AtStep, PublishDeleted, Goto
  <2>2. job'[t].at = "retract" /\ job'[t].saw = job[t].saw /\ job'[t].key = k /\ job'[t] \in Job
    BY <1>2, <2>1 DEF Job
  <2>3. bucket'[k].val = NoValue
    BY <1>1, <1>2, <1>11 DEF DelPurge, Write, Newest
  <2>4. On(t, k)'
    BY <2>2, MetadataAssumption DEF On, Busy
  <2>5. ToldAhead(k)'
    BY <1>3, <2>2 DEF ToldAhead
  <2>6. LinkTold(k)'
    BY <1>3, <1>4, <2>1, <2>2, <2>3, <2>4 DEF LinkTold, Stored
  <2> QED BY <2>5, <2>6
<1>12. CASE DelRetract(t)
  <2>1. /\ linked' = linked /\ trust' = trust /\ bucket' = bucket
        /\ job[t].at = "retract" /\ job'[t] = NoJob
        /\ k \notin unheard' => Retract(k, job[t].saw)
    BY <1>2, <1>12 DEF DelRetract, store, AtStep, Done, Dropped
  <2>2. \A u \in Tasks : ~On(u, k)'
    BY <1>3, <2>1 DEF On, Busy
  <2>3. trust[k] = "calm" => job[t].saw = linked[k] /\ Stored(k) = NoValue
    BY <1>3, <1>4, <2>1 DEF LinkTold
  <2>4. \A v \in Values : ProviderOf[v] \in Providers
    BY MetadataAssumption
  <2>5. trust[k] = "calm" /\ linked[k] # NoValue /\ k \notin unheard' =>
          told'[k][ProviderOf[linked[k]]] = NoValue
    BY <1>2, <2>1, <2>3, <2>4 DEF Retract, OrNone
  <2> QED BY <1>4, <2>1, <2>2, <2>3, <2>5 DEF ToldAhead, LinkTold, Stored
<1> QED
  BY <1>5, <1>6, <1>7, <1>8, <1>9, <1>10, <1>11, <1>12 DEF TaskStep

(* A message tells a provider what is stored, or that it is gone.          *)
LEMMA EchoLink ==
  ASSUME Typed, AgreeInv, ToldInv, NEW e \in echoes, EchoStep(e), NEW k \in LinkKeys
  PROVE  ToldAhead(k)' /\ LinkTold(k)'
<1>1. /\ bucket' = bucket /\ job' = job /\ trust' = trust /\ linked' = linked
      /\ e.key \in Keys /\ k \in Keys
  <2>1. linked' = linked
    BY DEF EchoStep, HandlePut, HandleCache, HandlePublish, HandlePurge, HandleRetract,
           HandleUncache, HandleUnexpected, Superseded, hist
  <2> QED BY <2>1, EchoShape DEF Keys
<1>2. ToldAhead(k) /\ LinkTold(k) /\ told \in [LinkKeys -> [Providers -> OrNone(Values)]]
  BY DEF ToldInv, Typed, TypeOK
<1>3. \/ told' = told /\ unheard' = unheard
      \/ e.at = "publish" /\ Tell(e.key, e.val) /\ HeardAgain(e.key, e.val)
      \/ e.at = "retract" /\ Retract(e.key, e.saw) /\ HeardAgain(e.key, e.saw)
  BY DEF EchoStep, HandlePut, HandleCache, HandlePublish, HandlePurge, HandleRetract,
         HandleUncache, HandleUnexpected, Superseded, DroppedAgain, hist
<1>4. CASE e.key # k \/ (told' = told /\ unheard' = unheard)
  <2>1. told'[k] = told[k] /\ (k \in unheard' <=> k \in unheard)
    BY <1>2, <1>3, <1>4 DEF Tell, Retract, HeardAgain
  <2>2. LinkUntouched(k)
    BY <1>1, <2>1 DEF LinkUntouched, On, Busy
  <2> QED BY <1>2, <2>2, LinkFrame
<1>5. CASE e.key = k /\ ~(told' = told /\ unheard' = unheard)
  <2> DEFINE v == IF e.at = "publish" THEN e.val ELSE e.saw
             w == IF e.at = "publish" THEN e.val ELSE NoValue
  <2>1. /\ told' = [told EXCEPT ![k][ProviderOf[v]] = w]
        /\ HeardAgain(k, v) /\ e.at \in {"publish", "retract"}
    BY <1>3, <1>5 DEF Tell, Retract
  <2>2. trust[k] # "disturbed" => \A t \in Tasks : On(t, k) => job[t].at = "retract"
    BY <1>1, <1>5 DEF AgreeInv, KeyInv, OneAtATime
  <2>3. ToldAhead(k)'
    BY <1>1, <2>2 DEF ToldAhead, On, Busy
  <2>4. trust[k] = "calm" => w = Stored(k)
    <3>1. KeyAgrees(k)
      BY <1>1 DEF AgreeInv, KeyInv
    <3>2. trust[k] = "calm" => e.val = Stored(k) /\ e.op = bucket[k].op
      BY <1>5, <3>1 DEF KeyAgrees, Stored
    <3>3. trust[k] = "calm" /\ e.at = "retract" => Stored(k) = NoValue
      BY <1>1, <3>2 DEF AgreeInv, StepsOK, Stored
    <3> QED BY <2>1, <3>2, <3>3
  <2>5. linked[k] # NoValue => ProviderOf[linked[k]] \in Providers
    BY MetadataAssumption DEF Typed, TypeOK, OrNone
  <2> HIDE DEF v, w
  <2>6. \A p \in Providers : told'[k][p] \in {told[k][p], w}
    BY <1>2, <2>1
  <2>7. linked[k] # NoValue /\ k \in unheard /\ k \notin unheard' =>
          told'[k][ProviderOf[linked[k]]] = w
    BY <1>2, <2>1, <2>5 DEF HeardAgain
  <2>8. LinkTold(k)'
    BY <1>1, <1>2, <2>4, <2>5, <2>6, <2>7 DEF LinkTold, Stored, On, Busy
  <2> QED BY <2>3, <2>8
<1> QED BY <1>4, <1>5

(* Whatever else happens only adds a request, ends some, or disturbs.      *)
LEMMA RestLink ==
  ASSUME Typed, AgreeInv, ToldInv, NEW k \in LinkKeys,
         \/ \E t \in Tasks, r \in Requests, h \in Hosts : Arrive(t, r, h)
         \/ \E q \in Keys : OperatorPurge(q)
         \/ \E e \in echoes : Lose(e)
         \/ \E h \in Hosts : Crash(h) \/ Join(h)
         \/ UNCHANGED vars
  PROVE  ToldAhead(k)' /\ LinkTold(k)'
<1>1. /\ ToldAhead(k) /\ LinkTold(k) /\ k \in Keys
      /\ trust \in [Keys -> Trusts] /\ bucket \in [Keys -> Record]
      /\ job \in [Tasks -> Job \cup {NoJob}]
  BY DEF ToldInv, Typed, TypeOK, Keys
<1>2. ASSUME NEW t \in Tasks, NEW r \in Requests, NEW h \in Hosts, Arrive(t, r, h)
      PROVE  ToldAhead(k)' /\ LinkTold(k)'
  <2> DEFINE j == [op |-> r.op, key |-> r.key, val |-> r.val,
                   host |-> h, at |-> EntryPoint(r), saw |-> NoValue]
  <2>1. /\ told' = told /\ unheard' = unheard /\ linked' = linked /\ bucket' = bucket
        /\ job[t] = NoJob /\ job'[t] = j /\ \A u \in Tasks \ {t} : job'[u] = job[u]
    BY <1>1, <1>2 DEF Arrive, store
  <2>2. /\ trust'[k] # "disturbed" => trust[k] # "disturbed" \/ trust'[k] = "mending"
        /\ trust'[k] = "calm" => trust[k] = "calm"
        /\ trust'[k] # "disturbed" /\ r.key = k => Quiescent(k)
    BY <1>1, <1>2 DEF Arrive, Trust
  <2>3. j.at \in {"lookup", "alias", "cache"}
    BY DEF EntryPoint
  <2>4. \A u \in Tasks : On(u, k)' => (On(u, k) /\ job'[u] = job[u]) \/ (u = t /\ r.key = k)
    BY <2>1 DEF On, Busy
  <2>5. \A u \in Tasks : On(u, k) => On(u, k)' /\ job'[u] = job[u]
    BY <2>1 DEF On, Busy
  <2>6. Quiescent(k) => \A u \in Tasks : ~On(u, k)
    BY DEF Quiescent, Active, On
  <2> HIDE DEF j
  <2>7. trust'[k] = "mending" /\ trust[k] = "disturbed" => r.key = k
    BY <1>1, <1>2 DEF Arrive, Trust
  <2>8. ToldAhead(k)'
    BY <1>1, <2>1, <2>2, <2>3, <2>4, <2>6, <2>7 DEF ToldAhead
  <2>9. LinkTold(k)'
    BY <1>1, <2>1, <2>2, <2>3, <2>4, <2>5 DEF LinkTold, Stored
  <2> QED BY <2>8, <2>9
<1>3. ASSUME NEW q \in Keys, OperatorPurge(q)
      PROVE  LinkUntouched(k)
  <2>1. q # k /\ told' = told /\ unheard' = unheard /\ linked' = linked /\ job' = job
    BY <1>3 DEF OperatorPurge
  <2>2. bucket'[k] = bucket[k] /\ trust'[k] = trust[k]
    BY <1>1, <1>3, <2>1 DEF OperatorPurge, Write, Trust
  <2> QED BY <2>1, <2>2 DEF LinkUntouched, On, Busy
<1>4. ASSUME NEW e \in echoes, Lose(e)
      PROVE  LinkUntouched(k)
  <2>1. /\ told' = told /\ unheard' = unheard /\ linked' = linked /\ job' = job /\ bucket' = bucket
        /\ trust'[k] \in {trust[k], "disturbed"}
    BY <1>1, <1>4 DEF Lose, Disturb, Trust
  <2> QED BY <2>1 DEF LinkUntouched, On, Busy
<1>5. ASSUME NEW h \in Hosts, Crash(h)
      PROVE  LinkUntouched(k)
  <2>1. /\ told' = told /\ unheard' = unheard /\ linked' = linked /\ bucket' = bucket
        /\ \A t \in Tasks : job'[t] = IF t \in ServedBy(h) THEN NoJob ELSE job[t]
    BY <1>5 DEF Crash
  <2>2. \A t \in Tasks : On(t, k)' => On(t, k) /\ job'[t] = job[t]
    BY <2>1 DEF On, Busy
  <2>3. trust'[k] # "disturbed" => trust[k] # "disturbed"
    BY <1>1, <1>5 DEF Crash
  <2>4. trust'[k] = "calm" => trust[k] = "calm" /\ \A t \in ServedBy(h) : job[t].key # k
    BY <1>1, <1>5 DEF Crash
  <2>5. trust'[k] = "calm" => \A t \in Tasks : On(t, k) => On(t, k)'
    BY <2>1, <2>4 DEF On, Busy
  <2> QED BY <2>1, <2>2, <2>3, <2>4, <2>5 DEF LinkUntouched
<1>6. ASSUME NEW h \in Hosts, Join(h)
      PROVE  LinkUntouched(k)
  <2>1. /\ told' = told /\ unheard' = unheard /\ linked' = linked /\ job' = job /\ bucket' = bucket
        /\ trust'[k] \in {trust[k], "disturbed"}
    BY <1>1, <1>6 DEF Join
  <2> QED BY <2>1 DEF LinkUntouched, On, Busy
<1>7. ASSUME UNCHANGED vars
      PROVE  LinkUntouched(k)
  BY <1>7 DEF LinkUntouched, On, Busy, vars, store, hist
<1> QED BY <1>1, <1>2, <1>3, <1>4, <1>5, <1>6, <1>7, LinkFrame

(* What the messages to providers rest on holds throughout                 *)
(* (publish_link_definition, publish_link_definition_deleted).             *)
THEOREM ToldInvariance == Spec => [](Typed /\ AgreeInv /\ ToldInv)
<1>1. ASSUME Typed, AgreeInv, ToldInv, [Next]_vars
      PROVE  ToldInv'
  <2>1. ASSUME NEW k \in LinkKeys
        PROVE  ToldAhead(k)' /\ LinkTold(k)'
    <3>1. ASSUME NEW t \in Tasks, TaskStep(t)
          PROVE  ToldAhead(k)' /\ LinkTold(k)'
      BY <1>1, <3>1, TaskLink, TaskOtherLinks, LinkFrame DEF ToldInv
    <3>2. ASSUME NEW e \in echoes, EchoStep(e)
          PROVE  ToldAhead(k)' /\ LinkTold(k)'
      BY <1>1, <3>2, EchoLink
    <3> QED BY <1>1, <3>1, <3>2, RestLink, StepKinds
  <2> QED BY <2>1 DEF ToldInv
<1> QED
  BY AgreementInvariance, ToldInit, <1>1, PTL DEF Spec

(* At rest the provider of a calm link knows it when it is stored, and     *)
(* that it is gone when it was deleted, whichever hosts served the         *)
(* requests, crashed or joined (publish_link_definition,                   *)
(* publish_link_definition_deleted).                                       *)
THEOREM ProvidersInformed == Spec => []ProviderInformed
<1>1. ToldInv => ProviderInformed
  <2> SUFFICES ASSUME ToldInv, NEW k \in LinkKeys \ unheard, Quiescent(k),
                      trust[k] = "calm", linked[k] # NoValue
               PROVE  told[k][ProviderOf[linked[k]]] = Stored(k)
    BY DEF ProviderInformed
  <2>1. \A t \in Tasks : ~On(t, k)
    BY DEF Quiescent, Active, On
  <2> QED BY <2>1 DEF ToldInv, LinkTold
<1> QED
  BY ToldInvariance, <1>1, PTL

-----------------------------------------------------------------------------
(* Every key is a register *)

(* A host has one message about a key at a time.                           *)
OneMessage(k) ==
  trust[k] # "disturbed" =>
    \A e, f \in echoes : e.key = k /\ f.key = k /\ e.host = f.host => e = f

(* Who is about to write shows already what it will write.                 *)
WriterShows(k) ==
  trust[k] \in {"calm", "cut"} =>
    \A t \in Tasks : On(t, k) =>
      /\ job[t].at \in {"publish", "store"} => cache[job[t].host][k] = job[t].val
      /\ job[t].at = "purge" => cache[job[t].host][k] = NoValue

ShownInv == \A k \in Keys : OneMessage(k) /\ WriterShows(k)

LEMMA ShownInit == Init => ShownInv
<1> SUFFICES ASSUME Init PROVE ShownInv
  OBVIOUS
<1>1. Busy = {} /\ echoes = {}
  BY DEF Init, Busy
<1> QED BY <1>1 DEF ShownInv, OneMessage, WriterShows, On

LEMMA ShownFrame ==
  ASSUME Typed, NEW k \in Keys, OneMessage(k), WriterShows(k), Untouched(k)
  PROVE  OneMessage(k)' /\ WriterShows(k)'
<1>1. OneMessage(k)'
  BY DEF Untouched, OneMessage
<1>2. ASSUME NEW t \in Tasks, On(t, k)'
      PROVE  On(t, k) /\ job'[t] = job[t] /\ job[t].host \in Hosts
  <2>1. job'[t] = job[t]
    BY <1>2 DEF Untouched
  <2>2. On(t, k)
    BY <1>2, <2>1 DEF On, Busy
  <2> QED BY <2>1, <2>2, JobTyped DEF On, Typed
<1>3. WriterShows(k)'
  BY <1>2 DEF Untouched, WriterShows
<1> QED BY <1>1, <1>3

(* One message about a key for each host, when it is written alone.        *)
LEMMA WriteOneMessage ==
  ASSUME NEW k \in Keys, NEW op, NEW v, Write(k, op, v), \A e \in echoes : e.key # k
  PROVE  OneMessage(k)'
BY DEF Write, Recipients, Message, OneMessage

LEMMA ShownTask ==
  ASSUME Typed, AgreeInv, ShownInv, NEW t \in Tasks, TaskStep(t), NEW k \in Keys
  PROVE  OneMessage(k)' /\ WriterShows(k)'
<1>1. CASE k # job[t].key
  BY <1>1, TaskOtherKeys, ShownFrame DEF ShownInv
<1>2. CASE trust'[k] = "disturbed"
  BY <1>2 DEF OneMessage, WriterShows
<1>3. CASE k = job[t].key /\ trust'[k] # "disturbed"
  <2>1. /\ trust[k] # "disturbed"
        /\ \A u \in Tasks : On(u, k) => u = t
        /\ job[t].at # "retract" => \A e \in echoes : e.key # k
    BY <1>3, TaskOne
  <2>2. /\ t \in Busy /\ job[t] \in Job /\ job[t].host \in Hosts
        /\ \A u \in Tasks \ {t} : job'[u] = job[u]
        /\ job \in [Tasks -> Job \cup {NoJob}] /\ trust \in [Keys -> Trusts]
        /\ cache \in [Hosts -> [Keys -> OrNone(Values)]]
    BY TaskShape DEF Typed, TypeOK
  <2>3. \A u \in Tasks : On(u, k)' => u = t
    BY <2>1, <2>2 DEF On, Busy
  <2>4. OneMessage(k) /\ WriterShows(k)
    BY DEF ShownInv
  <2>5. CASE PutStore(t) \/ DelPurge(t)
    <3>1. \A e \in echoes : e.key # k
      BY <2>1, <2>5 DEF PutStore, DelPurge, AtStep
    <3>2. OneMessage(k)'
      BY <1>3, <2>5, <3>1, WriteOneMessage DEF PutStore, DelPurge
    <3>3. job'[t] = NoJob \/ job'[t].at = "retract"
      BY <2>2, <2>5 DEF PutStore, DelPurge, Done, PublishDeleted, Goto, Job
    <3> QED BY <2>3, <3>2, <3>3 DEF WriterShows, On, Busy
  <2>6. CASE PutStoreFails(t) \/ DelNoVhost(t) \/ DelPurgeFails(t)
    BY <1>3, <2>2, <2>6 DEF PutStoreFails, DelNoVhost, DelPurgeFails, Disturb, Trust
  <2>7. CASE PutAlias(t) \/ PutCache(t) \/ PutPublish(t) \/ DelLookup(t) \/ DelUncache(t)
             \/ DelRetract(t)
    <3>1. echoes' = echoes /\ trust' = trust
      BY <2>7 DEF PutAlias, PutCache, PutPublish, DelLookup, DelUncache, DelRetract, store, hist
    <3>2. OneMessage(k)'
      BY <2>4, <3>1 DEF OneMessage
    <3>3. CASE PutCache(t)
      <4>1. /\ job'[t] = [job[t] EXCEPT !.at = AfterCache(k)]
            /\ cache'[job[t].host][k] = job[t].val
        BY <1>3, <2>2, <3>3 DEF PutCache, Goto, Cache
      <4>2. job'[t].host = job[t].host /\ job'[t].val = job[t].val /\ job'[t].at \in {"publish", "store"}
        BY <2>2, <4>1 DEF AfterCache, Job
      <4> QED BY <2>3, <3>2, <4>1, <4>2 DEF WriterShows
    <3>4. CASE DelUncache(t)
      <4>1. /\ job'[t] = [job[t] EXCEPT !.at = "purge"]
            /\ cache'[job[t].host][k] = NoValue
        BY <1>3, <2>2, <3>4 DEF DelUncache, Goto, Cache
      <4>2. job'[t].host = job[t].host /\ job'[t].at = "purge"
        BY <2>2, <4>1 DEF Job
      <4> QED BY <2>3, <3>2, <4>1, <4>2 DEF WriterShows
    <3>5. CASE PutPublish(t)
      <4>1. job'[t] = [job[t] EXCEPT !.at = "store"] /\ job[t].at = "publish" /\ cache' = cache
        BY <2>2, <3>5 DEF PutPublish, Goto, AtStep, tables
      <4>2. job'[t].host = job[t].host /\ job'[t].val = job[t].val /\ job'[t].at = "store"
        BY <2>2, <4>1 DEF Job
      <4>3. On(t, k)
        BY <1>3, <2>2 DEF On
      <4>4. trust[k] \in {"calm", "cut"} => cache[job[t].host][k] = job[t].val
        BY <2>4, <4>1, <4>3 DEF WriterShows
      <4>5. WriterShows(k)'
        BY <2>3, <3>1, <4>1, <4>2, <4>4 DEF WriterShows
      <4> QED BY <3>2, <4>5
    <3>6. CASE PutAlias(t) \/ DelLookup(t) \/ DelRetract(t)
      <4>1. job'[t] = NoJob \/ job'[t].at \in {"cache", "uncache"}
        BY <2>2, <3>6 DEF PutAlias, DelLookup, DelRetract, Goto, Done, Job
      <4> QED BY <2>3, <3>2, <4>1 DEF WriterShows, On, Busy
    <3> QED BY <2>7, <3>3, <3>4, <3>5, <3>6
  <2> QED BY <2>5, <2>6, <2>7 DEF TaskStep
<1> QED BY <1>1, <1>2, <1>3

LEMMA ShownEcho ==
  ASSUME Typed, AgreeInv, ShownInv, NEW e \in echoes, EchoStep(e), NEW k \in Keys
  PROVE  OneMessage(k)' /\ WriterShows(k)'
<1>1. CASE k # e.key
  BY <1>1, EchoOtherKeys, ShownFrame DEF ShownInv
<1>2. CASE k = e.key
  <2>1. /\ job' = job /\ trust' = trust
        /\ \/ echoes' = echoes \ {e}
           \/ \E m : SameMessage(e, m) /\ echoes' = (echoes \ {e}) \cup {m}
    BY EchoShape
  <2>2. OneMessage(k) /\ OneAtATime(k)
    BY DEF ShownInv, AgreeInv, KeyInv
  <2>3. OneMessage(k)'
    BY <1>2, <2>1, <2>2 DEF OneMessage, SameMessage
  <2>4. trust[k] # "disturbed" => \A t \in Tasks : On(t, k) => job[t].at = "retract"
    BY <1>2, <2>2 DEF OneAtATime
  <2>5. WriterShows(k)'
    BY <2>1, <2>4 DEF WriterShows, On, Busy
  <2> QED BY <2>3, <2>5
<1> QED BY <1>1, <1>2

LEMMA ShownRest ==
  ASSUME Typed, AgreeInv, ShownInv, NEW k \in Keys,
         \/ \E t \in Tasks, r \in Requests, h \in Hosts : Arrive(t, r, h)
         \/ \E p \in Keys : OperatorPurge(p)
         \/ \E e \in echoes : Lose(e)
         \/ \E h \in Hosts : Crash(h) \/ Join(h)
  PROVE  OneMessage(k)' /\ WriterShows(k)'
<1>0. /\ OneMessage(k) /\ WriterShows(k) /\ HostsOK
      /\ job \in [Tasks -> Job \cup {NoJob}] /\ trust \in [Keys -> Trusts]
      /\ cache \in [Hosts -> [Keys -> OrNone(Values)]] /\ up \subseteq Hosts
  BY DEF ShownInv, AgreeInv, Typed, TypeOK
<1>1. ASSUME NEW t \in Tasks, NEW r \in Requests, NEW h \in Hosts, Arrive(t, r, h)
      PROVE  OneMessage(k)' /\ WriterShows(k)'
  <2>1. /\ cache' = cache /\ echoes' = echoes /\ job[t] = NoJob
        /\ \A u \in Tasks \ {t} : job'[u] = job[u]
        /\ job'[t].at \in {"alias", "cache", "lookup"}
    BY <1>0, <1>1 DEF Arrive, tables, store, EntryPoint
  <2>2. /\ trust'[k] \in {"calm", "cut"} => trust[k] \in {"calm", "cut"}
        /\ trust'[k] # "disturbed" => trust[k] # "disturbed" \/ Quiescent(k)
    BY <1>0, <1>1 DEF Arrive, Trust
  <2>3. OneMessage(k)'
    BY <1>0, <2>1, <2>2 DEF OneMessage, Quiescent
  <2>4. WriterShows(k)'
    BY <1>0, <2>1, <2>2 DEF WriterShows, On, Busy
  <2> QED BY <2>3, <2>4
<1>2. ASSUME NEW p \in Keys, OperatorPurge(p)
      PROVE  OneMessage(k)' /\ WriterShows(k)'
  <2>1. /\ cache' = cache /\ job' = job /\ Write(p, "purge", NoValue)
        /\ trust'[k] # "disturbed" => trust'[k] = trust[k] /\ (p = k => Quiescent(k))
    BY <1>0, <1>2 DEF OperatorPurge, tables, Trust
  <2>2. WriterShows(k)'
    BY <1>0, <2>1 DEF WriterShows, On, Busy
  <2>3. CASE p = k
    BY <2>1, <2>2, <2>3, WriteOneMessage DEF Quiescent, OneMessage
  <2>4. CASE p # k
    <3>1. \A e \in echoes' : e.key = k => e \in echoes
      BY <2>1, <2>4 DEF Write, Message
    <3> QED BY <1>0, <2>1, <2>2, <3>1 DEF OneMessage
  <2> QED BY <2>3, <2>4
<1>3. ASSUME NEW e \in echoes, Lose(e)
      PROVE  OneMessage(k)' /\ WriterShows(k)'
  <2>1. /\ cache' = cache /\ job' = job /\ echoes' \subseteq echoes
        /\ trust'[k] # "disturbed" => trust'[k] = trust[k]
    BY <1>0, <1>3 DEF Lose, Finish, tables, Disturb, Trust
  <2> QED BY <1>0, <2>1 DEF OneMessage, WriterShows, On, Busy
<1>4. ASSUME NEW h \in Hosts, Crash(h)
      PROVE  OneMessage(k)' /\ WriterShows(k)'
  <2>1. /\ echoes' \subseteq echoes
        /\ \A g \in Hosts \ {h} : cache'[g] = cache[g]
        /\ trust'[k] # "disturbed" => trust[k] # "disturbed"
        /\ trust'[k] \in {"calm", "cut"} => trust[k] \in {"calm", "cut"}
    BY <1>0, <1>4 DEF Crash
  <2>2. ASSUME NEW t \in Tasks, On(t, k)'
        PROVE  On(t, k) /\ job'[t] = job[t] /\ job[t].host \in Hosts \ {h}
    <3>1. On(t, k) /\ job'[t] = job[t] /\ job[t].host # h
      BY <1>4, <2>2 DEF Crash, ServedBy, On, Busy
    <3> QED BY <3>1, JobTyped DEF On, Typed
  <2> QED BY <1>0, <2>1, <2>2 DEF OneMessage, WriterShows
<1>5. ASSUME NEW h \in Hosts, Join(h)
      PROVE  OneMessage(k)' /\ WriterShows(k)'
  <2>1. /\ cache' = cache /\ job' = job /\ h \notin up
        /\ echoes' = echoes \cup {Message(h, q, bucket[q]) : q \in Replayed}
        /\ trust'[k] # "disturbed" => trust'[k] = trust[k]
    BY <1>5 DEF Join, tables
  <2>2. \A e \in echoes : e.host # h
    BY <1>0, <2>1 DEF HostsOK
  <2>3. \A e \in echoes' : e.key = k => e \in echoes \/ e = Message(h, k, bucket[k])
    BY <2>1 DEF Message
  <2>4. Message(h, k, bucket[k]).host = h
    BY DEF Message
  <2>5. OneMessage(k)'
    BY <1>0, <2>1, <2>2, <2>3, <2>4 DEF OneMessage
  <2> QED BY <1>0, <2>1, <2>5 DEF WriterShows, On, Busy
<1> QED BY <1>1, <1>2, <1>3, <1>4, <1>5

LEMMA ShownStep ==
  ASSUME Typed, AgreeInv, ShownInv, [Next]_vars
  PROVE  ShownInv'
<1> SUFFICES ASSUME NEW k \in Keys PROVE OneMessage(k)' /\ WriterShows(k)'
  BY DEF ShownInv
<1>1. CASE UNCHANGED vars
  <2>1. Untouched(k)
    BY <1>1 DEF vars, tables, store, hist, Untouched, On, Busy
  <2> QED BY <2>1, ShownFrame DEF ShownInv
<1> QED BY <1>1, StepKinds, ShownTask, ShownEcho, ShownRest

-----------------------------------------------------------------------------
(* The steps of a register *)

Promised(k) == trust[k] \in {"calm", "cut"}

(* A step that leaves a key's entries, record, messages and requests alone *)
(* leaves its register alone.                                              *)
LEMMA RegisterFrame ==
  ASSUME Typed, NEW k \in Keys, Untouched(k)
  PROVE  UNCHANGED Register(k)!vars
<1>1. /\ up' = up /\ Stored(k)' = Stored(k) /\ Promised(k)' = Promised(k)
      /\ Shown(k)' = Shown(k)
  BY DEF Untouched, Stored, Promised, Shown
<1>2. \A t \in Tasks : On(t, k)' <=> On(t, k)
  BY DEF Untouched, On, Busy
<1>3. Changing(k)' = Changing(k)
  BY <1>2 DEF Untouched, Changing, On, Busy
<1>4. Hearing(k)' = Hearing(k)
  BY DEF Untouched, Hearing
<1> QED BY <1>1, <1>3, <1>4 DEF Register!vars, Promised

(* An accident, or a step of a key about which nothing is promised.        *)
LEMMA RegisterAccident ==
  ASSUME NEW k \in Keys, ~Promised(k)'
  PROVE  Register(k)!Next
BY DEF Register!Next, Register!Accident, Promised

LEMMA ShownCache ==
  ASSUME Typed, NEW h \in Hosts, NEW k \in Keys, NEW v, Cache(h, k, v)
  PROVE  Shown(k)' = [Shown(k) EXCEPT ![h] = v]
BY DEF Typed, TypeOK, Shown, Cache

LEMMA ShownType ==
  ASSUME Typed, NEW k \in Keys
  PROVE  Shown(k) \in [Hosts -> Values \cup {NoValue}] /\ Stored(k) \in Values \cup {NoValue}
BY DEF Typed, TypeOK, Shown, Stored, OrNone, Record

(* A record that is written when none is on its way is heard of by all.    *)
LEMMA WriteHeard ==
  ASSUME Typed, NEW k \in Keys, NEW op, NEW v, Write(k, op, v), \A e \in echoes : e.key # k
  PROVE  Hearing(k)' = up /\ Stored(k)' = v
<1>1. Stored(k)' = v
  BY DEF Write, Newest, Stored, Typed, TypeOK
<1>2. \A e \in echoes' : e.key = k => e.host \in up
  BY DEF Write, Recipients, Message
<1>3. \A h \in up : Message(h, k, Newest(k, op, v)) \in echoes'
  BY DEF Write, Recipients
<1>4. \A h \in up : LET m == Message(h, k, Newest(k, op, v))
                    IN  m.host = h /\ m.key = k /\ m.at # "publish"
  BY DEF Message
<1>5. up \subseteq Hosts
  BY DEF Typed, TypeOK
<1> QED BY <1>1, <1>2, <1>3, <1>4, <1>5 DEF Hearing

(* One request, before or after its change, and no message.                *)
LEMMA Undertaken ==
  ASSUME Typed, NEW k \in Keys, NEW t \in Tasks, \A u \in Tasks : On(u, k) => u = t
  PROVE  /\ On(t, k) /\ job[t].at \in {"publish", "store", "purge"} => Changing(k) = {job[t].host}
         /\ ~On(t, k) \/ job[t].at \notin {"publish", "store", "purge"} => Changing(k) = {}
<1>1. On(t, k) => job[t].host \in Hosts
  BY JobTyped DEF On, Typed
<1>2. Changing(k) = {h \in Hosts : On(t, k) /\ job[t].host = h /\ job[t].at \in {"publish", "store", "purge"}}
  BY DEF Changing, On, Busy
<1> QED BY <1>1, <1>2

LEMMA NoneHears ==
  ASSUME NEW k \in Keys, \A e \in echoes : e.key # k
  PROVE  Hearing(k) = {}
BY DEF Hearing

-----------------------------------------------------------------------------

LEMMA RegisterTask ==
  ASSUME Typed, Typed', AgreeInv, ShownInv, NEW t \in Tasks, TaskStep(t), NEW k \in Keys
  PROVE  [Register(k)!Next]_(Register(k)!vars)
<1>1. CASE k # job[t].key
  BY <1>1, TaskOtherKeys, RegisterFrame
<1>2. CASE ~Promised(k)'
  BY <1>2, RegisterAccident
<1>3. CASE k = job[t].key /\ Promised(k)'
  <2>0. trust'[k] # "disturbed"
    BY <1>3 DEF Promised
  <2>1. /\ trust[k] # "disturbed"
        /\ \A u \in Tasks : On(u, k) => u = t
        /\ job[t].at # "retract" => \A e \in echoes : e.key # k
    BY <1>3, <2>0, TaskOne
  <2>2. /\ t \in Busy /\ job[t] \in Job /\ job[t].host \in Hosts /\ job[t].host \in up
        /\ \A u \in Tasks \ {t} : job'[u] = job[u]
        /\ job \in [Tasks -> Job \cup {NoJob}] /\ trust \in [Keys -> Trusts]
        /\ up' = up /\ up \subseteq Hosts
    BY TaskShape DEF Typed, TypeOK, AgreeInv, HostsOK
  <2>3. On(t, k) /\ \A u \in Tasks : On(u, k)' => u = t
    BY <1>3, <2>1, <2>2 DEF On, Busy
  <2>4. /\ job[t].at \in {"publish", "store", "purge"} => Changing(k) = {job[t].host}
        /\ job[t].at \notin {"publish", "store", "purge"} => Changing(k) = {}
    BY <2>1, <2>3, Undertaken
  <2>5. /\ On(t, k)' /\ job'[t].at \in {"publish", "store", "purge"} => Changing(k)' = {job'[t].host}
        /\ ~On(t, k)' \/ job'[t].at \notin {"publish", "store", "purge"} => Changing(k)' = {}
    <3>1. Changing(k)' = {h \in Hosts : On(t, k)' /\ job'[t].host = h
                                        /\ job'[t].at \in {"publish", "store", "purge"}}
      BY <2>3 DEF Changing, On, Busy
    <3>2. On(t, k)' => job'[t].host \in Hosts
      BY DEF Typed, TypeOK, On, Busy, Job
    <3> QED BY <3>1, <3>2
  <2>6. /\ Shown(k) \in [Hosts -> Values \cup {NoValue}]
        /\ Shown(k)' \in [Hosts -> Values \cup {NoValue}]
        /\ Stored(k)' \in Values \cup {NoValue}
    BY ShownType DEF Typed, TypeOK, Shown, Stored, OrNone, Record
  <2>7. WriterShows(k)
    BY DEF ShownInv
  <2>8. CASE PutStore(t) \/ DelPurge(t)
    <3> DEFINE v == IF PutStore(t) THEN job[t].val ELSE NoValue
    <3>1. /\ \E op : Write(k, op, v)
          /\ cache' = cache
          /\ (job[t].at = "store" /\ v = job[t].val) \/ (job[t].at = "purge" /\ v = NoValue)
      BY <1>3, <2>8 DEF PutStore, DelPurge, AtStep, tables
    <3> HIDE DEF v
    <3>2. Hearing(k)' = up /\ Stored(k)' = v
      BY <2>1, <3>1, WriteHeard
    <3>3. Shown(k)' = Shown(k)
      BY <3>1 DEF Shown
    <3>4. job'[t] = NoJob \/ job'[t].at = "retract"
      BY <2>2, <2>8 DEF PutStore, DelPurge, Done, PublishDeleted, Goto, Job
    <3>5. Changing(k) = {job[t].host} /\ Changing(k)' = {}
      BY <2>4, <2>5, <3>1, <3>4 DEF On, Busy
    <3>6. CASE Promised(k)
      <4>1. Shown(k)[job[t].host] = v
        BY <2>2, <2>3, <2>7, <3>1, <3>6 DEF WriterShows, Promised, Shown
      <4>2. Register(k)!Commit(job[t].host)
        BY <2>2, <3>2, <3>3, <3>5, <4>1 DEF Register!Commit
      <4> QED BY <1>3, <2>2, <3>6, <4>2 DEF Register!Next, Register!Promised, Promised
    <3>7. CASE ~Promised(k)
      <4>1. \A h \in Hosts \ up' : Shown(k)'[h] = NoValue
        BY <2>2, <3>1 DEF AgreeInv, HostsOK, Shown
      <4>2. Register(k)!Restore
        BY <1>3, <2>2, <2>6, <3>2, <3>5, <3>7, <4>1 DEF Register!Restore, Promised
      <4> QED BY <4>2 DEF Register!Next
    <3> QED BY <3>6, <3>7
  <2>9. CASE PutStoreFails(t) \/ DelNoVhost(t) \/ DelPurgeFails(t)
    BY <1>3, <2>0, <2>2, <2>9 DEF PutStoreFails, DelNoVhost, DelPurgeFails, Disturb, Trust
  <2>10. CASE PutAlias(t) \/ PutCache(t) \/ PutPublish(t) \/ DelLookup(t) \/ DelUncache(t)
              \/ DelRetract(t)
    <3>1. /\ echoes' = echoes /\ trust' = trust /\ bucket' = bucket
      BY <2>10 DEF PutAlias, PutCache, PutPublish, DelLookup, DelUncache, DelRetract, store, hist
    <3>2. Hearing(k)' = Hearing(k) /\ Stored(k)' = Stored(k) /\ Promised(k)
      BY <1>3, <3>1 DEF Hearing, Stored, Promised
    <3>3. CASE PutCache(t) \/ DelUncache(t)
      <4> DEFINE v == IF PutCache(t) THEN job[t].val ELSE NoValue
      <4>1. /\ Cache(job[t].host, k, v) /\ v \in Values \cup {NoValue}
            /\ job[t].at \in {"cache", "uncache"}
        BY <1>3, <2>2, <3>3 DEF PutCache, DelUncache, AtStep, Job
      <4>2. Shown(k)' = [Shown(k) EXCEPT ![job[t].host] = v]
        BY <2>2, <4>1, ShownCache
      <4>3. /\ job'[t].host = job[t].host /\ job'[t].key = k
            /\ job'[t].at \in {"publish", "store", "purge"} /\ job'[t] \in Job
        BY <1>3, <2>2, <3>3 DEF PutCache, DelUncache, Goto, AfterCache, Job
      <4>4. On(t, k)'
        BY <4>3, MetadataAssumption DEF On, Busy
      <4>5. Changing(k) = {} /\ Changing(k)' = {job[t].host}
        BY <2>4, <2>5, <4>1, <4>3, <4>4
      <4>6. Hearing(k) = {}
        BY <2>1, <4>1, NoneHears
      <4> HIDE DEF v
      <4>7. Register(k)!Propose(job[t].host)
        BY <2>2, <3>2, <4>1, <4>2, <4>5, <4>6 DEF Register!Propose, Register!AtRest
      <4> QED BY <1>3, <2>2, <3>2, <4>7 DEF Register!Next, Register!Promised, Promised
    <3>4. CASE PutAlias(t) \/ PutPublish(t) \/ DelLookup(t) \/ DelRetract(t)
      <4>1. cache' = cache
        BY <3>4 DEF PutAlias, PutPublish, DelLookup, DelRetract, tables
      <4>2. /\ job'[t] = NoJob \/ (job'[t] \in Job /\ job'[t].key = k /\ job'[t].host = job[t].host)
            /\ IF PutPublish(t) THEN job[t].at = "publish" /\ job'[t] # NoJob /\ job'[t].at = "store"
               ELSE /\ job[t].at \notin {"publish", "store", "purge"}
                    /\ job'[t] = NoJob \/ job'[t].at \notin {"publish", "store", "purge"}
        <5>1. CASE PutPublish(t)
          <6>1. job'[t] = [job[t] EXCEPT !.at = "store"] /\ job[t].at = "publish"
            BY <2>2, <5>1 DEF PutPublish, Goto, AtStep
          <6>2. /\ job'[t] \in Job /\ job'[t].key = k /\ job'[t].host = job[t].host
                /\ job'[t].at = "store"
            BY <1>3, <2>2, <6>1 DEF Job
          <6> QED BY <5>1, <6>1, <6>2, MetadataAssumption
        <5>2. CASE PutAlias(t) \/ DelLookup(t) \/ DelRetract(t)
          <6>1. /\ job[t].at \in {"alias", "lookup", "retract"}
                /\ job'[t] = NoJob \/ job'[t].at \in {"cache", "uncache"}
            BY <2>2, <5>2 DEF PutAlias, DelLookup, DelRetract, AtStep, Goto, Done, Job
          <6>2. job'[t] = NoJob \/ (job'[t] \in Job /\ job'[t].key = k /\ job'[t].host = job[t].host)
            BY <1>3, TaskShape DEF SameRequest
          <6>3. ~PutPublish(t)
            BY <6>1 DEF PutPublish, AtStep
          <6> QED BY <6>1, <6>2, <6>3
        <5> QED BY <3>4, <5>1, <5>2
      <4>3. Changing(k)' = Changing(k)
        BY <2>4, <2>5, <4>2 DEF On, Busy
      <4>4. Shown(k)' = Shown(k)
        BY <4>1 DEF Shown
      <4> QED BY <1>3, <2>2, <3>2, <4>3, <4>4 DEF Register!vars, Promised
    <3> QED BY <2>10, <3>3, <3>4
  <2> QED BY <2>8, <2>9, <2>10 DEF TaskStep
<1> QED BY <1>1, <1>2, <1>3

(* A message that changes the table has its host hear of the value.        *)
LEMMA RegisterHear ==
  ASSUME Typed, AgreeInv, ShownInv, NEW e \in echoes, NEW k \in Keys, k = e.key, Promised(k),
         e.at # "publish", Cache(e.host, k, IF e.op = "put" THEN e.val ELSE NoValue),
         \/ echoes' = echoes \ {e}
         \/ \E m : SameMessage(e, m) /\ m.at = "publish" /\ echoes' = (echoes \ {e}) \cup {m},
         up' = up, bucket' = bucket, job' = job, trust' = trust
  PROVE  Register(k)!Next
<1>1. e \in Echo /\ e.host \in Hosts /\ e.op \in {"put", "purge"}
  BY EchoTyped DEF Typed, Echo
<1>2. /\ OneMessage(k) /\ trust[k] # "disturbed"
      /\ e.op = bucket[k].op /\ e.val = bucket[k].val
      /\ bucket[k].op # "put" => bucket[k].val = NoValue
  BY DEF ShownInv, AgreeInv, KeyInv, KeyAgrees, StepsOK, Promised
<1>3. (IF e.op = "put" THEN e.val ELSE NoValue) = Stored(k)
  BY <1>1, <1>2 DEF Stored
<1>4. Shown(k)' = [Shown(k) EXCEPT ![e.host] = Stored(k)]
  BY <1>1, <1>3, ShownCache
<1>5. Stored(k)' = Stored(k) /\ Changing(k)' = Changing(k) /\ Promised(k)'
  BY DEF Stored, Changing, Busy, Promised
<1>6. e.host \in Hearing(k)
  BY <1>1 DEF Hearing
<1>7. \A f \in echoes : f.key = k /\ f.host = e.host => f = e
  BY <1>2 DEF OneMessage
<1>8. \A f \in echoes : f # e => f \in echoes'
  OBVIOUS
<1>9. \A f \in echoes' : f.at # "publish" => f \in echoes /\ f # e
  OBVIOUS
<1>10. Hearing(k)' = Hearing(k) \ {e.host}
  BY <1>7, <1>8, <1>9 DEF Hearing
<1>11. Register(k)!Hear(e.host)
  BY <1>4, <1>5, <1>6, <1>10 DEF Register!Hear
<1> QED BY <1>1, <1>5, <1>11 DEF Register!Next, Register!Promised, Promised

(* One that changes no table leaves its host hearing, or not.              *)
LEMMA RegisterUnheard ==
  ASSUME NEW e \in echoes, NEW k \in Keys, k = e.key, cache' = cache,
         \/ e.at = "publish" /\ echoes' = echoes \ {e}
         \/ /\ e.at # "publish"
            /\ \E m : SameMessage(e, m) /\ m.at # "publish" /\ echoes' = (echoes \ {e}) \cup {m},
         up' = up, bucket' = bucket, job' = job, trust' = trust
  PROVE  UNCHANGED Register(k)!vars
<1>1. Stored(k)' = Stored(k) /\ Changing(k)' = Changing(k) /\ Shown(k)' = Shown(k)
  BY DEF Stored, Changing, Busy, Shown
<1>2. Hearing(k)' = Hearing(k)
  BY DEF Hearing, SameMessage
<1> QED BY <1>1, <1>2 DEF Register!vars

LEMMA RegisterEcho ==
  ASSUME Typed, AgreeInv, ShownInv, NEW e \in echoes, EchoStep(e), NEW k \in Keys
  PROVE  [Register(k)!Next]_(Register(k)!vars)
<1>1. CASE k # e.key
  BY <1>1, EchoOtherKeys, RegisterFrame
<1>2. CASE ~Promised(k)'
  BY <1>2, RegisterAccident
<1>3. CASE k = e.key /\ Promised(k)'
  <2>1. /\ up' = up /\ bucket' = bucket /\ job' = job /\ trust' = trust /\ e \in Echo
    BY EchoShape
  <2>2. Promised(k)
    BY <1>3, <2>1 DEF Promised
  <2>3. /\ IF e.at \in {"cache", "publish"} THEN e.op = "put" ELSE e.at # "wire" => e.op = "purge"
        /\ e.op = bucket[k].op /\ e.seq = bucket[k].seq
        /\ bucket[k].op = "purge" => k \notin RefKeys
    BY <1>3, <2>2 DEF AgreeInv, StepsOK, KeyInv, KeyAgrees, Promised
  <2>4. /\ \A label : MoveOn(e, label) => Becomes(e, {label})
        /\ HandlePurge(e) => Becomes(e, {"uncache", "retract"})
    BY EchoMoves
  <2>5. CASE HandlePut(e) /\ k \notin ClaimKeys
    <3>1. /\ e.at = "wire" /\ e.op = "put" /\ Cache(e.host, k, e.val)
          /\ MoveOn(e, "publish") \/ Finish(e)
      BY <1>3, <2>5 DEF HandlePut
    <3>2. \/ echoes' = echoes \ {e}
          \/ \E m : SameMessage(e, m) /\ m.at = "publish" /\ echoes' = (echoes \ {e}) \cup {m}
      BY <2>4, <3>1 DEF Finish, Becomes
    <3> QED BY <1>3, <2>1, <2>2, <3>1, <3>2, RegisterHear
  <2>6. CASE HandlePut(e) /\ k \in ClaimKeys
    <3>1. e.at = "wire" /\ MoveOn(e, "cache") /\ cache' = cache
      BY <1>3, <2>6, MetadataAssumption DEF HandlePut
    <3>2. \E m : SameMessage(e, m) /\ m.at # "publish" /\ echoes' = (echoes \ {e}) \cup {m}
      BY <2>4, <3>1 DEF Becomes
    <3> QED BY <1>3, <2>1, <3>1, <3>2, RegisterUnheard
  <2>7. CASE HandleCache(e) \/ HandleUncache(e)
    <3>1. /\ e.at # "publish" /\ echoes' = echoes \ {e}
          /\ Cache(e.host, k, IF e.op = "put" THEN e.val ELSE NoValue)
      BY <1>3, <2>3, <2>7 DEF HandleCache, HandleUncache, Finish
    <3> QED BY <1>3, <2>1, <2>2, <3>1, RegisterHear
  <2>8. CASE HandlePurge(e) \/ HandleRetract(e)
    <3>1. e.at # "publish" /\ cache' = cache /\ Becomes(e, {"uncache", "retract"})
      BY <2>4, <2>8 DEF HandlePurge, HandleRetract, tables, Becomes
    <3>2. \E m : SameMessage(e, m) /\ m.at # "publish" /\ echoes' = (echoes \ {e}) \cup {m}
      BY <3>1 DEF Becomes
    <3> QED BY <1>3, <2>1, <3>1, <3>2, RegisterUnheard
  <2>9. CASE HandlePublish(e)
    <3>1. e.at = "publish" /\ cache' = cache /\ echoes' = echoes \ {e}
      BY <2>9 DEF HandlePublish, tables, Finish
    <3> QED BY <1>3, <2>1, <3>1, RegisterUnheard
  <2>10. CASE HandleUnexpected(e)
    BY <1>3, <2>3, <2>10 DEF HandleUnexpected, Uncached, Keys
  <2>11. CASE Superseded(e)
    BY <1>3, <2>1, <2>3, <2>11 DEF Superseded, Echo
  <2> QED BY <2>5, <2>6, <2>7, <2>8, <2>9, <2>10, <2>11 DEF EchoStep
<1> QED BY <1>1, <1>2, <1>3

LEMMA RegisterArrive ==
  ASSUME Typed, NEW t \in Tasks, NEW r \in Requests, NEW h \in Hosts, Arrive(t, r, h),
         NEW k \in Keys, Promised(k)'
  PROVE  UNCHANGED Register(k)!vars
<1>1. /\ up' = up /\ cache' = cache /\ bucket' = bucket /\ echoes' = echoes /\ job[t] = NoJob
      /\ job \in [Tasks -> Job \cup {NoJob}] /\ trust \in [Keys -> Trusts]
      /\ job'[t].at \in {"alias", "cache", "lookup"} /\ \A u \in Tasks \ {t} : job'[u] = job[u]
  BY DEF Arrive, tables, store, EntryPoint, Typed, TypeOK
<1>2. Promised(k)
  BY <1>1 DEF Arrive, Trust, Promised
<1>3. Changing(k)' = Changing(k)
  BY <1>1 DEF Changing, Busy
<1>4. Stored(k)' = Stored(k) /\ Hearing(k)' = Hearing(k) /\ Shown(k)' = Shown(k)
  BY <1>1 DEF Stored, Hearing, Shown
<1> QED BY <1>1, <1>2, <1>3, <1>4 DEF Register!vars, Promised

LEMMA RegisterRemove ==
  ASSUME Typed, NEW p \in Keys, OperatorPurge(p), NEW k \in Keys, Promised(k)'
  PROVE  [Register(k)!Next]_(Register(k)!vars)
<1>1. /\ up' = up /\ cache' = cache /\ job' = job /\ Write(p, "purge", NoValue)
      /\ trust \in [Keys -> Trusts] /\ bucket \in [Keys -> Record]
  BY DEF OperatorPurge, tables, Typed, TypeOK
<1>2. Promised(k) /\ trust'[k] = trust[k] /\ (p = k => Quiescent(k))
  BY <1>1 DEF OperatorPurge, Trust, Promised
<1>3. CASE p # k
  <2>1. \A e \in echoes \cup echoes' : e.key = k => e \in echoes /\ e \in echoes'
    BY <1>1, <1>3 DEF Write, Message
  <2>2. Untouched(k)
    BY <1>1, <1>2, <1>3, <2>1 DEF Untouched, Write
  <2> QED BY <2>2, RegisterFrame
<1>4. CASE p = k
  <2>1. \A e \in echoes : e.key # k
    BY <1>2, <1>4 DEF Quiescent
  <2>2. Hearing(k)' = up /\ Stored(k)' = NoValue /\ Hearing(k) = {}
    BY <1>1, <1>4, <2>1, WriteHeard, NoneHears
  <2>3. Changing(k) = {} /\ Changing(k)' = Changing(k) /\ Shown(k)' = Shown(k)
    BY <1>1, <1>2, <1>4 DEF Quiescent, Active, Changing, Busy, Shown
  <2>4. Register(k)!Remove
    BY <1>1, <2>2, <2>3 DEF Register!Remove, Register!AtRest
  <2> QED BY <1>2, <2>4 DEF Register!Next, Register!Promised, Promised
<1> QED BY <1>3, <1>4

LEMMA RegisterLose ==
  ASSUME Typed, NEW e \in echoes, Lose(e), NEW k \in Keys, Promised(k)'
  PROVE  UNCHANGED Register(k)!vars
<1>1. /\ up' = up /\ cache' = cache /\ job' = job /\ bucket' = bucket
      /\ trust \in [Keys -> Trusts] /\ echoes' = echoes \ {e}
      /\ trust' = [trust EXCEPT ![e.key] = "disturbed"]
  BY DEF Lose, Finish, Disturb, Trust, tables, Typed, TypeOK
<1>2. e.key # k
  BY <1>1 DEF Promised
<1>3. Untouched(k)
  BY <1>1, <1>2 DEF Untouched
<1> QED BY <1>3, RegisterFrame

LEMMA RegisterCrash ==
  ASSUME Typed, AgreeInv, NEW h \in Hosts, Crash(h), NEW k \in Keys, Promised(k)'
  PROVE  Register(k)!Next
<1>1. /\ h \in up /\ up' = up \ {h} /\ bucket' = bucket
      /\ echoes' = {e \in echoes : e.host # h}
      /\ cache' = [cache EXCEPT ![h] = [q \in Keys |-> NoValue]]
      /\ cache \in [Hosts -> [Keys -> OrNone(Values)]]
  BY DEF Crash, Typed, TypeOK
<1>2. Promised(k)
  BY DEF Crash, Typed, TypeOK, Promised
<1>3. \A t \in Tasks : job'[t] = IF t \in ServedBy(h) THEN NoJob ELSE job[t]
  BY DEF Crash
<1>4. Shown(k)' = [Shown(k) EXCEPT ![h] = NoValue]
  BY <1>1 DEF Shown
<1>5. Changing(k)' = Changing(k) \ {h}
  BY <1>3 DEF Changing, ServedBy, Busy
<1>6. Hearing(k)' = Hearing(k) \ {h}
  BY <1>1 DEF Hearing
<1>7. Register(k)!Leave(h)
  BY <1>1, <1>4, <1>5, <1>6 DEF Register!Leave, Stored
<1> QED BY <1>2, <1>7 DEF Register!Next, Register!Promised, Promised

LEMMA RegisterJoin ==
  ASSUME Typed, AgreeInv, NEW h \in Hosts, Join(h), NEW k \in Keys, Promised(k)'
  PROVE  Register(k)!Next
<1>1. /\ up' = up \cup {h} /\ bucket' = bucket /\ cache' = cache /\ job' = job
      /\ h \notin up
      /\ echoes' = echoes \cup {Message(h, q, bucket[q]) : q \in Replayed}
  BY DEF Join, tables
<1>2. Promised(k) /\ ~Active(k)
  BY DEF Join, Promised
<1>3. Changing(k) = {} /\ Changing(k)' = {}
  BY <1>1, <1>2 DEF Changing, Active, Busy
<1>4. Shown(k)' = Shown(k) /\ Stored(k)' = Stored(k)
  BY <1>1 DEF Shown, Stored
<1>5. LET m == Message(h, k, bucket[k]) IN m.host = h /\ m.key = k /\ m.at # "publish"
  BY DEF Message
<1>6. \A e \in echoes' : e.key = k => e \in echoes \/ (k \in Replayed /\ e = Message(h, k, bucket[k]))
  BY <1>1 DEF Message
<1>7. CASE k \in Replayed
  <2>1. Hearing(k)' = Hearing(k) \cup {h}
    BY <1>1, <1>5, <1>6, <1>7 DEF Hearing
  <2>2. Register(k)!Join(h)
    BY <1>1, <1>3, <1>4, <2>1 DEF Register!Join
  <2> QED BY <1>2, <2>2 DEF Register!Next, Register!Promised, Promised
<1>8. CASE k \notin Replayed
  <2>1. Hearing(k)' = Hearing(k)
    BY <1>1, <1>6, <1>8 DEF Hearing
  <2>2. Stored(k) = NoValue
    BY <1>8 DEF Replayed, AgreeInv, StepsOK, Stored
  <2>3. Register(k)!Join(h)
    BY <1>1, <1>3, <1>4, <2>1, <2>2 DEF Register!Join
  <2> QED BY <1>2, <2>3 DEF Register!Next, Register!Promised, Promised
<1> QED BY <1>7, <1>8

LEMMA RegisterStep ==
  ASSUME Typed, Typed', AgreeInv, ShownInv, [Next]_vars, NEW k \in Keys
  PROVE  [Register(k)!Next]_(Register(k)!vars)
<1>1. CASE ~Promised(k)'
  BY <1>1, RegisterAccident
<1>2. CASE UNCHANGED vars
  <2>1. Untouched(k)
    BY <1>2 DEF vars, tables, store, hist, Untouched, On, Busy
  <2> QED BY <2>1, RegisterFrame
<1>3. CASE Promised(k)' /\ ~UNCHANGED vars
  BY <1>3, StepKinds, RegisterArrive, RegisterTask, RegisterEcho, RegisterRemove, RegisterLose,
     RegisterCrash, RegisterJoin
<1> QED BY <1>1, <1>2, <1>3

LEMMA RegisterInit ==
  ASSUME Init, NEW k \in Keys
  PROVE  Register(k)!Init
<1>1. Busy = {} /\ echoes = {}
  BY DEF Init, Busy
<1>2. Changing(k) = {} /\ Hearing(k) = {}
  BY <1>1 DEF Changing, Hearing
<1> QED BY <1>2 DEF Init, Register!Init, Stored, Shown

(* Every key of the metadata is a register: one value, which every host    *)
(* goes to once and not back, from the first request to the last, through  *)
(* crashes and hosts that join (Linkdefs.Manager, Claims.Manager,          *)
(* Refmaps.Manager, MetadataCacheLoader).                                  *)
THEOREM KeysAreRegisters == Spec => RegistersKept
<1> DEFINE Steps == \A k \in Keys : [Register(k)!Next]_(Register(k)!vars)
<1>1. Init => \A k \in Keys : Register(k)!Init
  BY RegisterInit
<1>2. Typed /\ AgreeInv /\ ShownInv /\ [Next]_vars => ShownInv'
  BY ShownStep
<1>3. Typed /\ Typed' /\ AgreeInv /\ ShownInv /\ [Next]_vars => Steps
  BY RegisterStep
<1> QED
  BY AgreementInvariance, ShownInit, <1>1, <1>2, <1>3, PTL DEF Spec, RegistersKept
=============================================================================
