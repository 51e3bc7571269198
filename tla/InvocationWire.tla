---------------------------- MODULE InvocationWire ----------------------------
(***************************************************************************)
(* What an invocation of an actor carries from one host process to         *)
(* another, and what comes back: inv.rs signs and checks it, and bodies    *)
(* above a threshold travel through a NATS object store instead of the     *)
(* message (objstore.rs): the sender puts the body under the invocation's  *)
(* id and sends an empty one with the true content_length; whoever finds   *)
(* less than content_length fetches the object and deletes it.  Responses  *)
(* go the same way under "<id>-r".                                         *)
(*                                                                         *)
(* The store is one per host PROCESS (CHUNKING_STORE): the bucket of the   *)
(* lattice the process was configured for when it started, or none when    *)
(* the configuration failed.  A process may run hosts of other lattices.   *)
(* Bytes are the object they belong to with their length; the operation is *)
(* a part of the target.                                                   *)
(* A definition named X_Y is a faulty variant of X that no action uses.    *)
(***************************************************************************)
EXTENDS Naturals, FiniteSets

CONSTANTS
  Calls,            \* ids of invocations
  Ids,              \* ids a message may bear once it was altered
  Processes, Buckets, Issuers,
  Entities,         \* records [key, contract, link]
  ActorKeys,        \* keys that start with M or m
  Fold,             \* Fold[n]: n in lower case, with blanks as _ and colons as /
  Trusts,           \* Trusts[p]: cluster_issuers of the hosts of process p
  Key,              \* Key[p]: the cluster key its hosts sign with
  None,             \* no bucket, no bytes, no message
  MaxLength,        \* bound: lengths of bodies
  NativeThreshold,  \* CHONKY_THRESHOLD_BYTES (700 KB)
  HostThreshold,    \* @chunk_threshold (900 KB)
  MaxFaults         \* bound: failed operations of object stores

Request(c)  == <<c, "">>
Response(c) == <<c, "-r">>
Objects == {Request(i) : i \in Ids} \cup {Response(i) : i \in Ids}
Empty == [of |-> None, length |-> 0]
Bytes(o, n) == IF n = 0 THEN Empty ELSE [of |-> o, length |-> n]
Lengths == 0..MaxLength

ASSUME WireAssumption ==
  /\ \A e \in Entities : {e.contract, e.link} \subseteq DOMAIN Fold
  /\ Key \in [Processes -> Issuers]
  /\ Trusts \in [Processes -> SUBSET Issuers]
  /\ Calls \subseteq Ids /\ None \notin Buckets \cup Ids \cup Objects
  /\ None \notin [of : Objects \cup {None}, length : Lengths]
  /\ {MaxLength, NativeThreshold, HostThreshold, MaxFaults} \subseteq Nat

VARIABLES
  bucket,    \* bucket[p]: CHUNKING_STORE of process p
  store,     \* store[b]: what bucket b holds: Objects -> bytes or None
  from, to,  \* the processes of caller and callee of each call
  asked,     \* asked[c]: what the guest asked for: target and msg, or None
  caller,    \* where generate_invocation_bytes and the request stand
  message,   \* message[c]: the invocation under way, or None
  callee,    \* where the instance stands with it
  ran,       \* ran[c]: target and msg the callee's guest was run with, or None
  produced,  \* produced[c]: what it returned, or None
  answer,    \* answer[c]: the InvocationResponse under way, or None
  result,    \* result[c]: the bytes the caller was given, or None
  faults,
  astray,    \* history: calls for which an operation of a store failed
  cut,       \* history: calls whose body or length was altered on the way
  relabelled \* history: calls whose id was altered, or was put on another

wire == <<from, to, asked, message, ran, produced, answer, result>>
altered == <<cut, relabelled>>
vars == <<bucket, store, wire, caller, callee, faults, astray, altered>>

Init ==
  /\ bucket \in [Processes -> Buckets \cup {None}]  \* set_chunking_connection_config
  /\ store = [b \in Buckets |-> [o \in Objects |-> None]]
  /\ from \in [Calls -> Processes] /\ to \in [Calls -> Processes]
  /\ asked = [c \in Calls |-> None]
  /\ caller = [c \in Calls |-> "idle"] /\ callee = [c \in Calls |-> "idle"]
  /\ message = [c \in Calls |-> None] /\ answer = [c \in Calls |-> None]
  /\ ran = [c \in Calls |-> None] /\ produced = [c \in Calls |-> None]
  /\ result = [c \in Calls |-> None]
  /\ faults = 0 /\ astray = {} /\ cut = {} /\ relabelled = {}

-----------------------------------------------------------------------------
(* inv.rs *)

(* WasmCloudEntity::url: different entities may have one URL.              *)
Url(e) == IF e.key \in ActorKeys THEN <<e.key>> ELSE <<Fold[e.contract], Fold[e.link], e.key>>

Hash(inv) == <<Url(inv.origin), Url(inv.target), inv.msg>>

(* Invocation::new: the hash is that of the whole body, signed before the  *)
(* body is taken out.                                                      *)
Invocation(p, id, origin, target, msg) ==
  [id |-> id, origin |-> origin, target |-> target, msg |-> msg, content_length |-> msg.length,
   claims |-> [issuer |-> Key[p], target_url |-> Url(target), origin_url |-> Url(origin),
               hash |-> <<Url(origin), Url(target), msg>>]]

(* validate_antiforgery; the token itself never expires, is always signed  *)
(* and carries the host id of its issuer.  An empty body is not hashed,    *)
(* and id and content_length are compared with nothing.                    *)
Validate_Unhashed(inv, issuers) ==
  /\ inv.claims.issuer \in issuers
  /\ inv.claims.target_url = Url(inv.target) /\ inv.claims.origin_url = Url(inv.origin)
Validate(inv, issuers) ==
  /\ inv.msg # Empty => inv.claims.hash = Hash(inv)
  /\ inv.claims.issuer \in issuers
  /\ inv.claims.target_url = Url(inv.target) /\ inv.claims.origin_url = Url(inv.origin)

-----------------------------------------------------------------------------
(* objstore.rs, by a process p: a process without a bucket does nothing    *)
(* and reports success.                                                    *)

NoFault == UNCHANGED <<faults, astray>>
Fails(p, c) == /\ bucket[p] # None /\ faults < MaxFaults /\ UNCHANGED store
               /\ faults' = faults + 1 /\ astray' = astray \cup {c}

Put(p, o, bytes) ==
  store' = IF bucket[p] = None THEN store ELSE [store EXCEPT ![bucket[p]][o] = bytes]

Chonk(p, o, bytes) == Put(p, o, bytes) /\ NoFault

(* store.get, read_to_end and store.delete: None stands for an error.      *)
Fetched(p, o) == IF bucket[p] = None THEN Empty ELSE store[bucket[p]][o]

Unchonk_Keep(p, o, c, bytes) ==
  \/ NoFault /\ bytes = Fetched(p, o) /\ UNCHANGED store
  \/ Fails(p, c) /\ bytes = None
Unchonk(p, o, c, bytes) ==
  \/ NoFault /\ bytes = Fetched(p, o) /\ Put(p, o, None)
  \/ Fails(p, c) /\ bytes = None

(* check_dechunk and check_dechunk_inv: the body of a message; an error of *)
(* the store is logged, and gives no bytes.                                *)
Body(p, o, c, m, body) ==
  IF m.content_length > m.msg.length
  THEN \E bytes \in {Fetched(p, o), None} :
         Unchonk(p, o, c, bytes) /\ body = (IF bytes = None THEN Empty ELSE bytes)
  ELSE body = m.msg /\ UNCHANGED store /\ NoFault

Bodies(m) == {m.msg, Empty} \cup {Bytes(o, n) : o \in Objects, n \in Lengths}

-----------------------------------------------------------------------------
(* The calling host *)

(* WasmCloudEntity::actor: no contract and no link name.                   *)
Actors == {e \in Entities : e.contract = "" /\ e.link = ""}
Providers == {e \in Entities : e.key \notin ActorKeys} \ Actors

(* generate_invocation_bytes, for what the guest asks.                     *)
Generate(c) ==
  /\ caller[c] = "idle"
  /\ \E o \in Actors, t \in Actors \cup Providers, n \in Lengths :
       /\ asked' = [asked EXCEPT ![c] = [origin |-> o, target |-> t, msg |-> Bytes(Request(c), n)]]
       /\ caller' = [caller EXCEPT ![c] = IF n > NativeThreshold THEN "chunking" ELSE "ready"]
  /\ UNCHANGED <<bucket, store, from, to, message, ran, produced, answer, result, callee,
                 faults, astray, altered>>

(* An object that cannot be put makes the NIF return an error, which the   *)
(* caller publishes as if it were bytes: its task dies and the guest's     *)
(* host call is never answered.                                            *)
ChunkRequest(c) ==
  /\ caller[c] = "chunking"
  /\ \/ /\ Chonk(from[c], Request(c), asked[c].msg)
        /\ caller' = [caller EXCEPT ![c] = "ready"]
     \/ Fails(from[c], c) /\ caller' = [caller EXCEPT ![c] = "stuck"]
  /\ UNCHANGED <<bucket, wire, callee, altered>>

Publish(c) ==
  /\ caller[c] = "ready" /\ caller' = [caller EXCEPT ![c] = "waiting"]
  /\ LET inv == Invocation(from[c], c, asked[c].origin, asked[c].target, asked[c].msg) IN
       message' = [message EXCEPT ![c] =
         IF inv.content_length > NativeThreshold THEN [inv EXCEPT !.msg = Empty] ELSE inv]
  /\ UNCHANGED <<bucket, store, from, to, asked, ran, produced, answer, result, callee,
                 faults, astray, altered>>

(* rpc_timeout_ms, 15 s for a large body, no responders, or the 5 s of     *)
(* ActorRpcServer: the callee is not told, and its answer finds nobody.    *)
GiveUp(c) ==
  /\ caller[c] = "waiting" /\ caller' = [caller EXCEPT ![c] = "failed"]
  /\ UNCHANGED <<bucket, store, wire, callee, faults, astray, altered>>

(* unpack_invocation_response; the response bears the id of the invocation *)
(* as the callee was given it.                                             *)
Arrive(c) ==
  /\ caller[c] = "waiting" /\ answer[c] # None
  /\ answer' = [answer EXCEPT ![c] = None]
  /\ \/ /\ answer[c].error /\ caller' = [caller EXCEPT ![c] = "failed"]
        /\ UNCHANGED <<result, store>> /\ NoFault
     \/ /\ ~answer[c].error /\ caller' = [caller EXCEPT ![c] = "ok"]
        /\ \E body \in Bodies(answer[c]) :
             /\ Body(from[c], Response(message[c].id), c, answer[c], body)
             /\ result' = [result EXCEPT ![c] = body]
  /\ UNCHANGED <<bucket, from, to, asked, message, ran, produced, callee, altered>>

-----------------------------------------------------------------------------
(* On the way *)

(* What is not covered by the signature of the claims may be altered:      *)
(* origin, target, body, length or id.  Altered claims are refused.        *)
Garble(c) ==
  /\ message[c] # None /\ callee[c] = "idle"
  /\ \/ /\ \E e \in Entities : \/ message' = [message EXCEPT ![c].origin = e]
                              \/ message' = [message EXCEPT ![c].target = e]
        /\ UNCHANGED altered
     \/ /\ \E n \in Lengths : \/ message' = [message EXCEPT ![c].msg = Bytes(None, n)]
                             \/ message' = [message EXCEPT ![c].content_length = n]
        /\ cut' = cut \cup {c} /\ UNCHANGED relabelled
     \/ \E i \in Ids :
          /\ message' = [message EXCEPT ![c].id = i]
          /\ relabelled' = relabelled \cup {c} \cup ({i} \cap Calls) /\ UNCHANGED cut
  /\ UNCHANGED <<bucket, store, from, to, asked, ran, produced, answer, result, caller,
                 callee, faults, astray>>

-----------------------------------------------------------------------------
(* The called host: ActorModule.handle_incoming_rpc.  A provider that is   *)
(* called is taken to do the same.                                         *)

Answer(c, err, msg, n) ==
  answer' = [answer EXCEPT ![c] = [error |-> err, msg |-> msg, content_length |-> n]]

(* The checks that are no part of this module (source_target, policy) may  *)
(* refuse any invocation.  A refused one is not dechunked.                 *)
Take(c) ==
  /\ message[c] # None /\ callee[c] = "idle"
  /\ \/ /\ Validate(message[c], Trusts[to[c]])
        /\ callee' = [callee EXCEPT ![c] = "accepted"] /\ UNCHANGED answer
     \/ callee' = [callee EXCEPT ![c] = "done"] /\ Answer(c, TRUE, Empty, 0)
  /\ UNCHANGED <<bucket, store, from, to, asked, message, ran, produced, result, caller,
                 faults, astray, altered>>

(* check_dechunk_inv, and the guest is run.                                *)
Run(c) ==
  /\ callee[c] = "accepted" /\ callee' = [callee EXCEPT ![c] = "running"]
  /\ \E body \in Bodies(message[c]) :
       /\ Body(to[c], Request(message[c].id), c, message[c], body)
       /\ ran' = [ran EXCEPT ![c] = [origin |-> message[c].origin, target |-> message[c].target,
                                     msg |-> body]]
  /\ UNCHANGED <<bucket, from, to, asked, message, produced, answer, result, caller, altered>>

(* The guest returns; a large response is to be chunked.                   *)
Return(c) ==
  /\ callee[c] = "running"
  /\ \/ /\ callee' = [callee EXCEPT ![c] = "done"] /\ Answer(c, TRUE, Empty, 0)
        /\ UNCHANGED produced
     \/ \E n \in Lengths :
          /\ produced' = [produced EXCEPT ![c] = Bytes(Response(c), n)]
          /\ IF n > HostThreshold
             THEN callee' = [callee EXCEPT ![c] = "answering"] /\ UNCHANGED answer
             ELSE /\ callee' = [callee EXCEPT ![c] = "done"]
                  /\ Answer(c, FALSE, Bytes(Response(c), n), n)
  /\ UNCHANGED <<bucket, store, from, to, asked, message, ran, result, caller, faults, astray,
                 altered>>

(* chunk_inv_response: when the store fails the response stays in the      *)
(* message.                                                                *)
ChunkResponse(c) ==
  /\ callee[c] = "answering" /\ callee' = [callee EXCEPT ![c] = "done"]
  /\ LET n == produced[c].length IN
       \/ Chonk(to[c], Response(message[c].id), produced[c]) /\ Answer(c, FALSE, Empty, n)
       \/ Fails(to[c], c) /\ Answer(c, FALSE, produced[c], n)
  /\ UNCHANGED <<bucket, from, to, asked, message, ran, produced, result, caller, altered>>

(* The instance ends with the invocation; nobody answers.                  *)
Die(c) ==
  /\ callee[c] \in {"accepted", "running", "answering"}
  /\ callee' = [callee EXCEPT ![c] = "done"]
  /\ UNCHANGED <<bucket, store, wire, caller, faults, astray, altered>>

-----------------------------------------------------------------------------

Step(c) ==
  \/ Generate(c) \/ ChunkRequest(c) \/ Publish(c) \/ GiveUp(c) \/ Arrive(c)
  \/ Garble(c) \/ Take(c) \/ Run(c) \/ Return(c) \/ ChunkResponse(c) \/ Die(c)

Next == \E c \in Calls : Step(c)

Spec == Init /\ [][Next]_vars

-----------------------------------------------------------------------------
(* Properties *)

(* Bodies can be lost to a store: an operation failed, or the two          *)
(* processes do not share a bucket.                                        *)
Lossy(c) == c \in astray \/ bucket[from[c]] = None \/ bucket[from[c]] # bucket[to[c]]

(* The calls whose bodies may be taken for those of c.                     *)
Confused(c) == {c} \cup IF c \in relabelled THEN relabelled ELSE {}

RanAsAsked(c) ==
  ran[c] # None =>
    /\ Url(ran[c].target) = Url(asked[c].target)
    /\ Url(ran[c].origin) = Url(asked[c].origin)
    /\ \/ \E d \in Confused(c) : caller[d] # "idle" /\ ran[c].msg = asked[d].msg
       \/ (Lossy(c) \/ c \in cut \cup relabelled) /\ ran[c].msg = Empty

GivenAsReturned(c) ==
  caller[c] = "ok" =>
    \/ \E d \in Confused(c) : result[c] = produced[d]
    \/ (Lossy(c) \/ c \in relabelled) /\ result[c] = Empty

(* What an accepted invocation says of its origin and target is what the   *)
(* caller's guest asked for, whatever was altered on the way.  The guest   *)
(* that runs is given the body that was asked with, and the caller what    *)
(* that guest returned, but for three cases.  Where bodies can be lost, or *)
(* the body or the length was altered on the way, the body may have become *)
(* empty: an empty one is not hashed.  A call whose id was altered, or was *)
(* put on another message, may also be given a body of another such call.  *)
(* No guest is ever given bytes that none sent (validate_antiforgery,      *)
(* check_dechunk_inv, check_dechunk).                                      *)
ArrivesAsSent == \A c \in Calls : RanAsAsked(c) /\ GivenAsReturned(c)

(* A call that succeeded leaves no object in any bucket; only calls that   *)
(* failed do, whose bodies can be lost, or whose message was altered but   *)
(* for its origin and target (unchonk_from_object_store deletes what it    *)
(* has read).                                                              *)
NothingLeftBehind ==
  \A c \in Calls : caller[c] = "ok" /\ ~Lossy(c) /\ c \notin cut \cup relabelled =>
    \A b \in Buckets : store[b][Request(c)] = None /\ store[b][Response(c)] = None
=============================================================================
