---------------------------- MODULE MetadataCache ----------------------------
(***************************************************************************)
(* The metadata of one lattice: link definitions, claims (with their call  *)
(* aliases) and reference maps.  Every host keeps them in ETS tables; the  *)
(* lattice keeps them in a NATS key-value bucket.  A host that serves a    *)
(* request changes its own tables and the bucket; the bucket sends every   *)
(* change to every host, the author included (HostCore.Linkdefs.Manager,   *)
(* Claims.Manager, Refmaps.Manager, Jetstream.Client and                   *)
(* Jetstream.MetadataCacheLoader).                                         *)
(*                                                                         *)
(* A request is served by a process of its own.  So is every message from  *)
(* the bucket: Gnat.ConsumerSupervisor starts one task per message, and    *)
(* two messages that a host receives in order may be handled out of order. *)
(*                                                                         *)
(* A definition named X_Y is a faulty variant of X that no action uses.    *)
(***************************************************************************)
EXTENDS Integers, FiniteSets

CONSTANTS
  Hosts,              \* nodes that run a supervisor for this lattice
  Tasks,              \* processes that serve requests
  LinkKeys, ClaimKeys, RefKeys,   \* keys of the bucket, by kind
  Aliases, AliasOf,   \* AliasOf[k]: the call alias in claims k
  Usable,             \* aliases of more than one character
  Providers, ProviderOf,  \* ProviderOf[v]: the provider link values v name
  Values,             \* contents of a key
  NoValue, NoKey, NoJob,
  Requests,           \* requests that may arrive: [op, key, val]
  MaxWrites,          \* bound: requests, and purges by an operator
  MaxCrashes,         \* bound: hosts that leave
  MaxFailed,          \* bound: bucket operations and publications that fail
  MaxLost             \* bound: messages of the bucket that get lost

Keys == LinkKeys \cup ClaimKeys \cup RefKeys

Request == [op : {"put", "del"}, key : Keys, val : Values]

OrNone(S) == S \cup {NoValue}

Record == [op : {"none", "put", "purge"}, val : OrNone(Values), seq : Nat]

Job == [op : {"put", "del"}, key : Keys, val : Values, host : Hosts,
        at : {"alias", "cache", "publish", "store",
              "lookup", "uncache", "purge", "retract"}, saw : OrNone(Values)]

Echo == [host : Hosts, key : Keys, op : {"put", "purge"}, val : OrNone(Values),
         seq : Nat, at : {"wire", "cache", "publish", "retract", "uncache"},
         saw : OrNone(Values)]

ASSUME MetadataAssumption ==
  /\ LinkKeys \cap ClaimKeys = {} /\ LinkKeys \cap RefKeys = {}
  /\ ClaimKeys \cap RefKeys = {}
  /\ AliasOf \in [ClaimKeys -> Aliases] /\ Usable \subseteq Aliases
  /\ ProviderOf \in [Values -> Providers]
  /\ NoValue \notin Values /\ NoKey \notin Keys /\ NoJob \notin Job
  /\ Requests \subseteq Request /\ Requests # {}
  /\ \A r \in Requests : r.op = "del" => r.key \in LinkKeys
  /\ MaxWrites \in Nat /\ MaxCrashes \in Nat /\ MaxFailed \in Nat /\ MaxLost \in Nat

VARIABLES
  up,        \* hosts that run
  cache,     \* cache[h][k]: the entry of h's tables
  alias,     \* alias[h][a]: the actor that h resolves call alias a to
  bucket,    \* bucket[k]: the last record of key k
  written,   \* records written so far; the sequence number of the last
  echoes,    \* records on their way to, or being handled by, a host
  told,      \* told[k][p]: the link k as provider p last heard of it
  job,       \* job[t]: the request t serves, on which host and how far
  arrived, crashes, failed, lost,    \* counters of the bounds
  linked,    \* history: the last link stored under a key
  unheard,   \* history: links whose last change did not get to a provider
  trust      \* history: what has disturbed a key (Trusts)

tables   == <<cache, alias>>
store    == <<bucket, written, echoes>>
bounds   == <<arrived, crashes, failed, lost>>
hist     == <<linked, unheard, trust>>
vars == <<up, tables, store, told, job, bounds, hist>>

(* A key is disturbed when requests for it overlap, fail, or lose messages;*)
(* the next put that nothing disturbs mends it.  A request that ended with *)
(* its host has cut a calm key short.                                      *)
Trusts == {"calm", "cut", "disturbed", "mending"}

Init ==
  /\ up = Hosts
  /\ cache = [h \in Hosts |-> [k \in Keys |-> NoValue]]
  /\ alias = [h \in Hosts |-> [a \in Aliases |-> NoKey]]
  /\ bucket = [k \in Keys |-> [op |-> "none", val |-> NoValue, seq |-> 0]]
  /\ written = 0 /\ echoes = {}
  /\ told = [k \in LinkKeys |-> [p \in Providers |-> NoValue]]
  /\ job = [t \in Tasks |-> NoJob]
  /\ arrived = 0 /\ crashes = 0 /\ failed = 0 /\ lost = 0
  /\ linked = [k \in LinkKeys |-> NoValue] /\ unheard = {}
  /\ trust = [k \in Keys |-> "calm"]

-----------------------------------------------------------------------------
(* The tables, the bucket and the providers *)

Cache(h, k, v) == cache' = [cache EXCEPT ![h][k] = v]

(* :ets.insert_new: the first actor that claims an alias keeps it; an      *)
(* alias of less than two characters (also: none) is not inserted.         *)
Claimable(h, a) == a \in Usable /\ alias[h][a] = NoKey

AliasAfter_Name(h, k) == AliasOf[k]
AliasAfter_Kept(h, k) == alias[h][AliasOf[k]]
AliasAfter(h, k) == IF Claimable(h, AliasOf[k]) THEN k ELSE alias[h][AliasOf[k]]

CacheAlias(h, k) == alias' = [alias EXCEPT ![h][AliasOf[k]] = AliasAfter(h, k)]

(* Every host has a consumer of its own on the bucket.                     *)
Recipients_OneOf == {CHOOSE h \in Hosts : TRUE}
Recipients == up

Message(h, k, r) == [host |-> h, key |-> k, op |-> r.op, val |-> r.val,
                     seq |-> r.seq, at |-> "wire", saw |-> NoValue]

(* A record replaces the one of its key (max_msgs_per_subject: 1).         *)
Newest(k, op, v) == [op |-> op, val |-> v, seq |-> written + 1]

Write(k, op, v) ==
  /\ bucket' = [bucket EXCEPT ![k] = Newest(k, op, v)]
  /\ written' = written + 1
  /\ echoes' = echoes \cup {Message(h, k, Newest(k, op, v)) : h \in Recipients}

(* publish_link_definition, publish_link_definition_deleted: the provider  *)
(* that the link names hears of it.                                        *)
Tell(k, v) == told' = [told EXCEPT ![k][ProviderOf[v]] = v]
Retract(k, v) == told' = [told EXCEPT ![k][ProviderOf[v]] = NoValue]

(* A request's publication gets through, or (safe_pub: the connection is   *)
(* down) is dropped.  One of a host that hears of the change from the      *)
(* bucket may make up for it: if it is about the last link.                *)
Heard(k) == unheard' = unheard \ {k} /\ UNCHANGED failed

Dropped(k) ==
  /\ failed < MaxFailed
  /\ failed' = failed + 1
  /\ unheard' = unheard \cup {k}
  /\ UNCHANGED told

HeardAgain(k, v) ==
  /\ unheard' = IF v = linked[k] THEN unheard \ {k} ELSE unheard
  /\ UNCHANGED failed

DroppedAgain ==
  /\ failed < MaxFailed
  /\ failed' = failed + 1
  /\ UNCHANGED <<told, unheard>>

Busy      == {t \in Tasks : job[t] # NoJob}
Active(k) == \E t \in Busy : job[t].key = k
Quiescent(k) == ~Active(k) /\ \A e \in echoes : e.key # k

Trust(k, level) == trust' = [trust EXCEPT ![k] = level]
Disturb(k) == Trust(k, "disturbed")

-----------------------------------------------------------------------------
(* Requests *)

AtStep(t, step) == job[t] # NoJob /\ job[t].at = step
Goto(t, step) == job' = [job EXCEPT ![t].at = step]
Done(t) == job' = [job EXCEPT ![t] = NoJob]

EntryPoint(r) == IF r.op = "del" THEN "lookup"
                 ELSE IF r.key \in ClaimKeys THEN "alias" ELSE "cache"

(* A request reaches one host: a queue group picks it for link definitions,*)
(* claims and reference maps come from the host that starts the actor.     *)
Arrive(t, r, h) ==
  /\ job[t] = NoJob /\ h \in up /\ arrived < MaxWrites
  /\ job' = [job EXCEPT ![t] = [op |-> r.op, key |-> r.key, val |-> r.val,
                               host |-> h, at |-> EntryPoint(r), saw |-> NoValue]]
  /\ arrived' = arrived + 1
  /\ Trust(r.key, IF ~Quiescent(r.key) THEN "disturbed"
                  ELSE IF r.op = "put" /\ trust[r.key] = "disturbed" THEN "mending"
                  ELSE trust[r.key])
  /\ UNCHANGED <<up, tables, store, told, crashes, failed, lost, linked, unheard>>

(* cache_claims: the alias, then the claims.                               *)
PutAlias(t) ==
  /\ AtStep(t, "alias")
  /\ CacheAlias(job[t].host, job[t].key)
  /\ Goto(t, "cache")
  /\ UNCHANGED <<up, cache, store, told, bounds, hist>>

AfterCache(k) == IF k \in LinkKeys THEN "publish" ELSE "store"

PutCache(t) ==
  /\ AtStep(t, "cache")
  /\ Cache(job[t].host, job[t].key, job[t].val)
  /\ Goto(t, AfterCache(job[t].key))
  /\ UNCHANGED <<up, alias, store, told, bounds, hist>>

PutPublish(t) ==
  /\ AtStep(t, "publish")
  /\ LET k == job[t].key IN (Tell(k, job[t].val) /\ Heard(k)) \/ Dropped(k)
  /\ Goto(t, "store")
  /\ UNCHANGED <<up, tables, store, arrived, crashes, lost, linked, trust>>

(* kv_put; an answer that does not come makes no difference.               *)
PutStore(t) ==
  /\ AtStep(t, "store")
  /\ LET k == job[t].key
     IN  /\ Write(k, "put", job[t].val)
         /\ linked' = IF k \in LinkKeys THEN [linked EXCEPT ![k] = job[t].val] ELSE linked
         /\ Trust(k, IF trust[k] = "disturbed" THEN "disturbed" ELSE "calm")
  /\ Done(t)
  /\ UNCHANGED <<up, tables, told, bounds, unheard>>

(* The write is lost, or (a link) no virtual host of the lattice is left   *)
(* on this node: logged, and the requester is told it succeeded.           *)
PutStoreFails(t) ==
  /\ AtStep(t, "store") /\ failed < MaxFailed
  /\ failed' = failed + 1
  /\ Disturb(job[t].key)
  /\ Done(t)
  /\ UNCHANGED <<up, tables, store, told, arrived, crashes, lost, linked, unheard>>

(* del_link_definition_by_triple: only what this host has cached can be    *)
(* deleted; else a warning, and the requester is told it succeeded.        *)
DelLookup(t) ==
  /\ AtStep(t, "lookup")
  /\ LET v == cache[job[t].host][job[t].key]
     IN  job' = [job EXCEPT ![t] = IF v = NoValue THEN NoJob
                                   ELSE [@ EXCEPT !.at = "uncache", !.saw = v]]
  /\ UNCHANGED <<up, tables, store, told, bounds, hist>>

DelUncache(t) ==
  /\ AtStep(t, "uncache")
  /\ Cache(job[t].host, job[t].key, NoValue)
  /\ Goto(t, "purge")
  /\ UNCHANGED <<up, alias, store, told, bounds, hist>>

(* No virtual host of the lattice is left on this node: nothing is uncached*)
(* or purged, and the deletion is published all the same.                  *)
DelNoVhost(t) ==
  /\ AtStep(t, "uncache") /\ failed < MaxFailed
  /\ failed' = failed + 1
  /\ Disturb(job[t].key)
  /\ Goto(t, "retract")
  /\ UNCHANGED <<up, tables, store, told, arrived, crashes, lost, linked, unheard>>

(* After kv_del the deletion is published.                                 *)
PublishDeleted_Never(t) == Done(t)
PublishDeleted(t) == Goto(t, "retract")

DelPurge(t) ==
  /\ AtStep(t, "purge")
  /\ Write(job[t].key, "purge", NoValue)
  /\ PublishDeleted(t)
  /\ UNCHANGED <<up, tables, told, bounds, hist>>

(* The purge is lost: an error is logged and the deletion published all    *)
(* the same, or (no connection: Gnat.request exits) the process dies.      *)
DelPurgeFails(t) ==
  /\ AtStep(t, "purge") /\ failed < MaxFailed
  /\ failed' = failed + 1
  /\ Disturb(job[t].key)
  /\ PublishDeleted(t) \/ Done(t)
  /\ UNCHANGED <<up, tables, store, told, arrived, crashes, lost, linked, unheard>>

DelRetract(t) ==
  /\ AtStep(t, "retract")
  /\ LET k == job[t].key IN (Retract(k, job[t].saw) /\ Heard(k)) \/ Dropped(k)
  /\ Done(t)
  /\ UNCHANGED <<up, tables, store, arrived, crashes, lost, linked, trust>>

(* Somebody removes a key other than a link with the tools of NATS.        *)
OperatorPurge(k) ==
  /\ k \notin LinkKeys /\ bucket[k].op = "put" /\ arrived < MaxWrites
  /\ arrived' = arrived + 1
  /\ Write(k, "purge", NoValue)
  /\ Trust(k, IF Quiescent(k) /\ k \in ClaimKeys THEN trust[k] ELSE "disturbed")
  /\ UNCHANGED <<up, tables, told, job, crashes, failed, lost, linked, unheard>>

-----------------------------------------------------------------------------
(* MetadataCacheLoader: a message from the bucket *)

MoveOn(e, label) == echoes' = (echoes \ {e}) \cup {[e EXCEPT !.at = label]}
Finish(e) == echoes' = echoes \ {e}

HandlePut(e) ==
  /\ e.at = "wire" /\ e.op = "put"
  /\ \/ /\ e.key \in LinkKeys
        /\ Cache(e.host, e.key, e.val) /\ MoveOn(e, "publish")
        /\ UNCHANGED alias
     \/ /\ e.key \in ClaimKeys
        /\ CacheAlias(e.host, e.key) /\ MoveOn(e, "cache")
        /\ UNCHANGED cache
     \/ /\ e.key \in RefKeys
        /\ Cache(e.host, e.key, e.val) /\ Finish(e)
        /\ UNCHANGED alias
  /\ UNCHANGED <<up, bucket, written, told, job, bounds, hist>>

HandleCache(e) ==
  /\ e.at = "cache"
  /\ Cache(e.host, e.key, e.val)
  /\ Finish(e)
  /\ UNCHANGED <<up, alias, bucket, written, told, job, bounds, hist>>

HandlePublish(e) ==
  /\ e.at = "publish"
  /\ (Tell(e.key, e.val) /\ HeardAgain(e.key, e.val)) \/ DroppedAgain
  /\ Finish(e)
  /\ UNCHANGED <<up, tables, bucket, written, job, arrived, crashes, lost, linked, trust>>

(* A deleted link is published when it is still cached, then uncached.     *)
HandlePurge(e) ==
  /\ e.at = "wire" /\ e.op = "purge" /\ e.key \in LinkKeys
  /\ LET v == cache[e.host][e.key]
     IN  echoes' = (echoes \ {e}) \cup
           {[e EXCEPT !.saw = v, !.at = IF v = NoValue THEN "uncache" ELSE "retract"]}
  /\ UNCHANGED <<up, tables, bucket, written, told, job, bounds, hist>>

HandleRetract(e) ==
  /\ e.at = "retract"
  /\ (Retract(e.key, e.saw) /\ HeardAgain(e.key, e.saw)) \/ DroppedAgain
  /\ MoveOn(e, "uncache")
  /\ UNCHANGED <<up, tables, bucket, written, job, arrived, crashes, lost, linked, trust>>

(* Claims are uncached at once (their alias stays); the deletion of a      *)
(* reference map has no handler.                                           *)
Uncached_Never(k) == FALSE
Uncached(k) == k \in ClaimKeys

HandleUncache(e) ==
  /\ \/ e.at = "uncache"
     \/ e.at = "wire" /\ e.op = "purge" /\ Uncached(e.key)
  /\ Cache(e.host, e.key, NoValue)
  /\ Finish(e)
  /\ UNCHANGED <<up, alias, bucket, written, told, job, bounds, hist>>

HandleUnexpected(e) ==
  /\ e.at = "wire" /\ e.op = "purge" /\ e.key \notin LinkKeys /\ ~Uncached(e.key)
  /\ Finish(e)
  /\ UNCHANGED <<up, tables, bucket, written, told, job, bounds, hist>>

(* A newer record has replaced this one in the stream before the consumer  *)
(* came to it.                                                             *)
Superseded(e) ==
  /\ e.at = "wire" /\ e.seq < bucket[e.key].seq
  /\ Finish(e)
  /\ UNCHANGED <<up, tables, bucket, written, told, job, bounds, hist>>

(* ack_policy none: a message that does not arrive is not sent again.      *)
Lose(e) ==
  /\ e.at = "wire" /\ lost < MaxLost
  /\ lost' = lost + 1
  /\ Finish(e)
  /\ Disturb(e.key)
  /\ UNCHANGED <<up, tables, bucket, written, told, job, arrived, crashes, failed, linked, unheard>>

-----------------------------------------------------------------------------
(* Hosts *)

ServedBy(h) == {t \in Busy : job[t].host = h}

(* A host dies with its tables, the requests and the messages it handles.  *)
Crash(h) ==
  /\ h \in up /\ crashes < MaxCrashes
  /\ crashes' = crashes + 1
  /\ up' = up \ {h}
  /\ cache' = [cache EXCEPT ![h] = [k \in Keys |-> NoValue]]
  /\ alias' = [alias EXCEPT ![h] = [a \in Aliases |-> NoKey]]
  /\ echoes' = {e \in echoes : e.host # h}
  /\ job' = [t \in Tasks |-> IF t \in ServedBy(h) THEN NoJob ELSE job[t]]
  /\ trust' = [k \in Keys |->
       IF \A t \in ServedBy(h) : job[t].key # k THEN trust[k]
       ELSE IF trust[k] \in {"calm", "cut"} THEN "cut" ELSE "disturbed"]
  /\ UNCHANGED <<bucket, written, told, arrived, failed, lost, linked, unheard>>

(* What the consumer of a new host delivers first (last_per_subject).      *)
Replayed_None == {}
Replayed == {k \in Keys : bucket[k].op # "none"}

Join(h) ==
  /\ h \notin up
  /\ up' = up \cup {h}
  /\ echoes' = echoes \cup {Message(h, k, bucket[k]) : k \in Replayed}
  /\ trust' = [k \in Keys |-> IF Active(k) THEN "disturbed" ELSE trust[k]]
  /\ UNCHANGED <<tables, bucket, written, told, job, bounds, linked, unheard>>

-----------------------------------------------------------------------------

TaskStep(t) ==
  \/ PutAlias(t) \/ PutCache(t) \/ PutPublish(t) \/ PutStore(t) \/ PutStoreFails(t)
  \/ DelLookup(t) \/ DelUncache(t) \/ DelNoVhost(t) \/ DelPurge(t) \/ DelPurgeFails(t)
  \/ DelRetract(t)

EchoStep(e) ==
  \/ HandlePut(e) \/ HandleCache(e) \/ HandlePublish(e)
  \/ HandlePurge(e) \/ HandleRetract(e) \/ HandleUncache(e) \/ HandleUnexpected(e)
  \/ Superseded(e)

Next ==
  \/ \E t \in Tasks : \/ \E r \in Requests, h \in Hosts : Arrive(t, r, h)
                      \/ TaskStep(t)
  \/ \E k \in Keys : OperatorPurge(k)
  \/ \E e \in echoes : EchoStep(e) \/ Lose(e)
  \/ \E h \in Hosts : Crash(h) \/ Join(h)

Spec == Init /\ [][Next]_vars

(* Every process runs on; nothing obliges a host that left to come back.   *)
Fairness ==
  /\ \A t \in Tasks : WF_vars(TaskStep(t))
  /\ \A h \in Hosts, n \in 1..MaxWrites :
       WF_vars(\E e \in echoes : e.host = h /\ e.seq = n /\ EchoStep(e))

FairSpec == Spec /\ Fairness

-----------------------------------------------------------------------------
(* Properties *)

TypeOK ==
  /\ up \subseteq Hosts
  /\ cache \in [Hosts -> [Keys -> OrNone(Values)]]
  /\ alias \in [Hosts -> [Aliases -> ClaimKeys \cup {NoKey}]]
  /\ bucket \in [Keys -> Record] /\ written \in Nat
  /\ echoes \subseteq Echo
  /\ told \in [LinkKeys -> [Providers -> OrNone(Values)]]
  /\ job \in [Tasks -> Job \cup {NoJob}]
  /\ arrived \in Nat /\ crashes \in Nat /\ failed \in Nat /\ lost \in Nat
  /\ linked \in [LinkKeys -> OrNone(Values)] /\ unheard \subseteq LinkKeys
  /\ trust \in [Keys -> Trusts]

Stored(k) == bucket[k].val

(* Once a key has come to rest, every host's tables hold what the bucket   *)
(* holds: also hosts that came late, hosts that died in between, and after *)
(* a disturbed key has been put again (put_link_definition, kv_put,        *)
(* MetadataCacheLoader).                                                   *)
CachesAgree ==
  \A k \in Keys : Quiescent(k) /\ trust[k] \in {"calm", "cut"} =>
    \A h \in up : cache[h][k] = Stored(k)

(* A provider knows a link that is stored, and has heard of its removal    *)
(* when it is not, whichever host served the request and whichever hosts   *)
(* have it cached - unless the message about the last change was dropped   *)
(* and no host that heard of the change from the bucket made up for it     *)
(* (publish_link_definition, publish_link_definition_deleted, safe_pub).   *)
(* A provider that a put replaced by another is never told.                *)
ProviderInformed ==
  \A k \in LinkKeys \ unheard : Quiescent(k) /\ trust[k] = "calm" /\ linked[k] # NoValue =>
    told[k][ProviderOf[linked[k]]] = Stored(k)

(* A call alias of more than one character that cached claims carry        *)
(* resolves, on every host and at every moment, also after other claims    *)
(* with that alias were removed (cache_call_alias, uncache_claims).        *)
AliasResolves ==
  \A h \in Hosts, k \in ClaimKeys :
    cache[h][k] # NoValue /\ AliasOf[k] \in Usable => alias[h][AliasOf[k]] # NoKey

(* Every host, also one that joins meanwhile, comes to show what is stored *)
(* and does so again after every change, as long as nothing disturbs the   *)
(* key.                                                                    *)
StoredReachesAll ==
  \A k \in Keys :
    []<>(trust[k] # "calm" \/ \A h \in up : cache[h][k] = Stored(k))

(* MetadataCache's moduledoc: "responsible for synchronizing the in-memory *)
(* caches ... with the underlying NATS key-value bucket".                  *)
Synchronized ==
  (\A k \in Keys : Quiescent(k)) => \A h \in up, k \in Keys : cache[h][k] = Stored(k)

-----------------------------------------------------------------------------
(* Every key is a ReplicatedRegister.                                      *)

(* What the hosts show; the hosts whose request has changed their table    *)
(* and is about to write; those with a message that has not changed it yet.*)
Shown(k) == [h \in Hosts |-> cache[h][k]]
Changing(k) == {h \in Hosts : \E t \in Busy :
                  /\ job[t].host = h /\ job[t].key = k
                  /\ job[t].at \in {"publish", "store", "purge"}}
Hearing(k) == {h \in Hosts : \E e \in echoes : e.host = h /\ e.key = k /\ e.at # "publish"}

Register(k) == INSTANCE ReplicatedRegister WITH
  None <- NoValue, promised <- trust[k] \in {"calm", "cut"}, value <- Stored(k),
  members <- up, shown <- Shown(k), changing <- Changing(k), hearing <- Hearing(k)

(* Whatever hosts and the bucket do with a key, no host shows an old value *)
(* again once it has shown a new one, and none misses it, as long as the   *)
(* requests for the key do not overlap and nothing is lost                 *)
(* (Linkdefs.Manager, Claims.Manager, Refmaps.Manager, MetadataCacheLoader)*)
RegistersKept ==
  /\ \A k \in Keys : Register(k)!Init
  /\ [][\A k \in Keys : [Register(k)!Next]_(Register(k)!vars)]_vars
=============================================================================
