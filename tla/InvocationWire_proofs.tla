------------------------ MODULE InvocationWire_proofs ------------------------
(***************************************************************************)
(* Proofs about InvocationWire, for any number of calls, processes,        *)
(* buckets, entities and issuers, any thresholds and any number of faults. *)
(*                                                                         *)
(* The invariant is about one call (CallInv): every action is one of one   *)
(* call, and touches only the objects of the id its message bears, so the  *)
(* others keep theirs unless their id was put on that message              *)
(* (OthersKeep).  It follows the two bodies: what a message may be once it *)
(* was altered (Carries), what it is once accepted (Accepted), where the   *)
(* two objects are at each step of the call (RequestKept, ResponseKept),   *)
(* that each was deleted by whoever read it (RequestGone, ResponseGone),   *)
(* and that whatever is in a bucket was put there by a guest (Genuine).    *)
(***************************************************************************)
EXTENDS InvocationWire, TLAPS

Urls == {Url(e) : e \in Entities}
Blob == {Empty} \cup [of : Objects \cup {None}, length : 1..MaxLength]
Asked == [origin : Entities, target : Entities, msg : Blob]
Claims == [issuer : Issuers, target_url : Urls, origin_url : Urls, hash : Urls \X Urls \X Blob]
Message == [id : Ids, origin : Entities, target : Entities, msg : Blob, content_length : Lengths, claims : Claims]
Reply == [error : BOOLEAN, msg : Blob, content_length : Lengths]

Types ==
  /\ bucket \in [Processes -> Buckets \cup {None}]
  /\ store \in [Buckets -> [Objects -> Blob \cup {None}]]
  /\ from \in [Calls -> Processes] /\ to \in [Calls -> Processes]
  /\ asked \in [Calls -> Asked \cup {None}]
  /\ caller \in [Calls -> {"idle", "chunking", "ready", "stuck", "waiting", "ok", "failed"}]
  /\ message \in [Calls -> Message \cup {None}]
  /\ callee \in [Calls -> {"idle", "accepted", "running", "answering", "done"}]
  /\ ran \in [Calls -> Asked \cup {None}]
  /\ produced \in [Calls -> Blob \cup {None}]
  /\ answer \in [Calls -> Reply \cup {None}]
  /\ result \in [Calls -> Blob \cup {None}]
  /\ faults \in Nat /\ astray \subseteq Calls /\ cut \subseteq Calls /\ relabelled \subseteq Calls

(* A call that was not published has not reached the callee.               *)
InOrder(c) ==
  /\ caller[c] # "idle" => asked[c] \in Asked
  /\ caller[c] \in {"idle", "chunking", "ready", "stuck"} =>
       message[c] = None /\ callee[c] = "idle" /\ answer[c] = None
  /\ callee[c] = "idle" => ran[c] = None
  /\ callee[c] # "idle" => message[c] \in Message \ {None}
  /\ callee[c] = "answering" => produced[c] \in Blob /\ produced[c].length > HostThreshold
  /\ answer[c] # None \/ caller[c] = "ok" => callee[c] = "done"

Large(c) == asked[c].msg.length > NativeThreshold

(* What is on the way keeps the claims of what was asked; it keeps its     *)
(* body and length unless they were cut, and its id unless relabelled.     *)
Carries(c) ==
  message[c] # None =>
    /\ message[c].claims.target_url = Url(asked[c].target)
    /\ message[c].claims.origin_url = Url(asked[c].origin)
    /\ message[c].claims.hash = <<Url(asked[c].origin), Url(asked[c].target), asked[c].msg>>
    /\ c \notin cut =>
         /\ message[c].content_length = asked[c].msg.length
         /\ message[c].msg.length = IF Large(c) THEN 0 ELSE asked[c].msg.length
    /\ message[c].id # c =>
         c \in relabelled /\ (message[c].id \in Calls => message[c].id \in relabelled)

(* What was accepted is what was asked, or its body was cut or is to be    *)
(* fetched.                                                                *)
Accepted(c) ==
  callee[c] = "accepted" =>
    /\ Url(message[c].target) = Url(asked[c].target)
    /\ Url(message[c].origin) = Url(asked[c].origin)
    /\ message[c].msg \in {asked[c].msg, Empty}
    /\ c \notin cut => message[c].msg = IF Large(c) THEN Empty ELSE asked[c].msg

(* Not answered by an error.                                               *)
Served(c) == answer[c] # None /\ ~answer[c].error

Answers(c) ==
  Served(c) =>
    /\ produced[c] \in Blob /\ answer[c].content_length = produced[c].length
    /\ answer[c].msg \in {produced[c], Empty}

(* Where the bodies that do not travel in the message are.                 *)
RequestKept(c) ==
  /\ caller[c] = "chunking" => Large(c)
  /\ \A b \in Buckets : store[b][Request(c)] # None =>
       /\ b = bucket[from[c]] /\ Large(c) /\ caller[c] \notin {"idle", "chunking"}
       /\ store[b][Request(c)] = asked[c].msg
  /\ caller[c] \in {"ready", "waiting", "ok", "failed"} /\ callee[c] \in {"idle", "accepted"} /\ Large(c)
     /\ bucket[from[c]] # None /\ c \notin astray \cup relabelled =>
       store[bucket[from[c]]][Request(c)] = asked[c].msg

ResponseKept(c) ==
  /\ c \notin relabelled =>
       \A b \in Buckets : store[b][Response(c)] # None =>
         /\ b = bucket[to[c]] /\ callee[c] = "done"
         /\ store[b][Response(c)] = produced[c]
  /\ Served(c) /\ bucket[to[c]] # None /\ c \notin astray \cup relabelled
     /\ answer[c].msg # produced[c] =>
       store[bucket[to[c]]][Response(c)] = produced[c]

RequestGone(c) ==
  /\ callee[c] \in {"running", "answering"} \/ Served(c) \/ caller[c] = "ok"
  /\ ~Lossy(c) /\ c \notin cut \cup relabelled
  => \A b \in Buckets : store[b][Request(c)] = None

ResponseGone(c) ==
  /\ caller[c] = "ok" \/ (Served(c) /\ answer[c].msg = produced[c])
  /\ ~Lossy(c) /\ c \notin relabelled
  => \A b \in Buckets : store[b][Response(c)] = None

(* The callee that produced what the caller is given is done.              *)
GivenAsProduced(c) ==
  caller[c] = "ok" =>
    \/ \E d \in Confused(c) : callee[d] = "done" /\ result[c] = produced[d]
    \/ (Lossy(c) \/ c \in relabelled) /\ result[c] = Empty

Arrives(c) == RanAsAsked(c) /\ GivenAsProduced(c)

(* An object was put by a call: by the caller under its own id, by the     *)
(* callee under the id its message bears.                                  *)
Genuine ==
  \A b \in Buckets, i \in Ids :
    /\ store[b][Request(i)] # None => i \in Calls
    /\ store[b][Response(i)] # None =>
         \E x \in Calls : /\ callee[x] = "done" /\ message[x].id = i
                          /\ store[b][Response(i)] = produced[x]

CallInv(c) ==
  /\ InOrder(c) /\ Carries(c) /\ Accepted(c) /\ Answers(c) /\ RequestKept(c) /\ ResponseKept(c)
  /\ RequestGone(c) /\ ResponseGone(c) /\ Arrives(c)

Inv == Types /\ Genuine /\ \A c \in Calls : CallInv(c)

-----------------------------------------------------------------------------
(* Bytes and buckets *)

LEMMA BlobFacts ==
  /\ Empty \in Blob /\ Empty.length = 0
  /\ \A b \in Blob : b # None /\ b.length \in Lengths /\ (b.length = 0 => b = Empty)
  /\ \A o \in Objects, n \in Lengths : Bytes(o, n) \in Blob /\ Bytes(o, n).length = n
<1>1. Empty \in Blob /\ Empty.length = 0
  BY DEF Empty, Blob
<1>2. MaxLength \in Nat /\ 0 \in Lengths
  BY WireAssumption DEF Lengths
<1>3. ASSUME NEW b \in Blob
      PROVE  b \in [of : Objects \cup {None}, length : Lengths] /\ (b.length = 0 => b = Empty)
  BY <1>2 DEF Blob, Empty, Lengths
<1>4. ASSUME NEW o \in Objects, NEW n \in Lengths
      PROVE  Bytes(o, n) \in Blob /\ Bytes(o, n).length = n
  BY <1>2 DEF Bytes, Blob, Empty, Lengths
<1>5. QED
  BY <1>1, <1>3, <1>4, WireAssumption

LEMMA ObjectFacts ==
  /\ Calls \subseteq Ids
  /\ \A c \in Ids : /\ Request(c) \in Objects /\ Response(c) \in Objects
                    /\ Request(c) # Response(c) /\ Request(c) # None
  /\ \A c, d \in Ids : c # d => /\ Request(c) # Request(d) /\ Response(c) # Response(d)
                                /\ Request(c) # Response(d)
BY WireAssumption DEF Objects, Request, Response

(* What put leaves in the buckets.                                         *)
LEMMA PutEffect ==
  ASSUME Types, NEW p \in Processes, NEW o \in Objects, NEW x \in Blob \cup {None}, Put(p, o, x)
  PROVE  /\ store' \in [Buckets -> [Objects -> Blob \cup {None}]]
         /\ \A b \in Buckets, q \in Objects :
              store'[b][q] = IF b = bucket[p] /\ q = o THEN x ELSE store[b][q]
<1>1. CASE bucket[p] = None
  BY <1>1, WireAssumption DEF Put, Types
<1>2. CASE bucket[p] # None
  <2>1. bucket[p] \in Buckets
    BY <1>2 DEF Types
  <2>2. store' = [store EXCEPT ![bucket[p]][o] = x]
    BY <1>2 DEF Put
  <2>3. QED
    BY <2>1, <2>2 DEF Types
<1>3. QED
  BY <1>1, <1>2

(* The body of a message is in it, or was read from the reader's bucket    *)
(* and deleted there, or was lost.                                         *)
LEMMA BodyEffect ==
  ASSUME Types, NEW p \in Processes, NEW o \in Objects, NEW c \in Calls,
         NEW m, NEW body, Body(p, o, c, m, body)
  PROVE  /\ faults' \in Nat /\ astray' \in {astray, astray \cup {c}}
         /\ \/ /\ ~(m.content_length > m.msg.length)
               /\ body = m.msg /\ store' = store /\ astray' = astray
            \/ /\ m.content_length > m.msg.length /\ Put(p, o, None) /\ astray' = astray
               /\ bucket[p] = None => body = Empty
               /\ bucket[p] # None =>
                    body = IF store[bucket[p]][o] = None THEN Empty ELSE store[bucket[p]][o]
            \/ /\ m.content_length > m.msg.length /\ store' = store /\ astray' = astray \cup {c}
               /\ body = Empty
<1>1. CASE ~(m.content_length > m.msg.length)
  BY <1>1 DEF Body, NoFault, Types
<1>2. CASE m.content_length > m.msg.length
  <2>1. PICK bytes : Unchonk(p, o, c, bytes) /\ body = (IF bytes = None THEN Empty ELSE bytes)
    BY <1>2 DEF Body
  <2>2. CASE NoFault /\ bytes = Fetched(p, o) /\ Put(p, o, None)
    BY <1>2, <2>1, <2>2 DEF NoFault, Fetched, Types
  <2>3. CASE Fails(p, c) /\ bytes = None
    BY <1>2, <2>1, <2>3 DEF Fails, Types
  <2>4. QED
    BY <2>1, <2>2, <2>3 DEF Unchonk
<1>3. QED
  BY <1>1, <1>2

-----------------------------------------------------------------------------
(* A step of another call *)

Keeps(d) ==
  /\ asked'[d] = asked[d] /\ caller'[d] = caller[d] /\ message'[d] = message[d]
  /\ callee'[d] = callee[d] /\ ran'[d] = ran[d] /\ produced'[d] = produced[d]
  /\ answer'[d] = answer[d] /\ result'[d] = result[d]
  /\ d \in astray' <=> d \in astray
  /\ \A b \in Buckets : /\ store'[b][Request(d)] \in {store[b][Request(d)], None}
                        /\ d \notin relabelled' =>
                             /\ store'[b][Request(d)] = store[b][Request(d)]
                             /\ store'[b][Response(d)] = store[b][Response(d)]

(* What was asked, or produced by a callee that is done, stays.            *)
Steady ==
  /\ UNCHANGED <<bucket, from, to>> /\ cut \subseteq cut' /\ relabelled \subseteq relabelled'
  /\ \A x \in Calls :
       /\ caller[x] # "idle" => caller'[x] # "idle" /\ asked'[x] = asked[x]
       /\ callee[x] = "done" =>
            callee'[x] = "done" /\ produced'[x] = produced[x] /\ message'[x] = message[x]

LEMMA ConfusedStays ==
  ASSUME Types, Steady, NEW c \in Calls
  PROVE  Confused(c) \subseteq Calls /\ Confused(c) \subseteq Confused(c)'
BY DEF Types, Steady, Confused

LEMMA RanStays ==
  ASSUME Types, Steady, NEW c \in Calls, RanAsAsked(c), ran'[c] = ran[c], ran[c] # None,
         asked'[c] = asked[c], Lossy(c) => Lossy(c)'
  PROVE  RanAsAsked(c)'
<1>1. \A d \in Confused(c) : d \in Confused(c)' /\ d \in Calls
  BY ConfusedStays
<1>2. CASE \E d \in Confused(c) : caller[d] # "idle" /\ ran[c].msg = asked[d].msg
  BY <1>1, <1>2 DEF RanAsAsked, Steady
<1>3. CASE (Lossy(c) \/ c \in cut \cup relabelled) /\ ran[c].msg = Empty
  BY <1>3 DEF RanAsAsked, Steady
<1>4. QED
  BY <1>2, <1>3 DEF RanAsAsked

LEMMA GivenStays ==
  ASSUME Types, Steady, NEW c \in Calls, GivenAsProduced(c), result'[c] = result[c],
         caller[c] = "ok", Lossy(c) => Lossy(c)'
  PROVE  GivenAsProduced(c)'
<1>1. \A d \in Confused(c) : d \in Confused(c)' /\ d \in Calls
  BY ConfusedStays
<1>2. CASE \E d \in Confused(c) : callee[d] = "done" /\ result[c] = produced[d]
  BY <1>1, <1>2 DEF GivenAsProduced, Steady
<1>3. CASE (Lossy(c) \/ c \in relabelled) /\ result[c] = Empty
  BY <1>3 DEF GivenAsProduced, Steady
<1>4. QED
  BY <1>2, <1>3 DEF GivenAsProduced

(* What a step of c that gives nobody a body keeps of Arrives.             *)
LEMMA ArrivesStays ==
  ASSUME Types, Steady, NEW c \in Calls, Arrives(c), ran'[c] = ran[c], result'[c] = result[c],
         ran[c] # None => asked'[c] = asked[c],
         caller'[c] = "ok" => caller[c] = "ok", Lossy(c) => Lossy(c)'
  PROVE  Arrives(c)'
<1>1. RanAsAsked(c)'
  BY RanStays DEF Arrives, RanAsAsked
<1>2. GivenAsProduced(c)'
  BY GivenStays DEF Arrives, GivenAsProduced
<1>3. QED
  BY <1>1, <1>2 DEF Arrives

LEMMA GenuineStays ==
  ASSUME Genuine, Steady,
         \A b \in Buckets, i \in Ids :
           /\ store'[b][Request(i)] \in {store[b][Request(i)], None} \/ i \in Calls
           /\ store'[b][Response(i)] \in {store[b][Response(i)], None}
  PROVE  Genuine'
<1>1. SUFFICES ASSUME NEW b \in Buckets, NEW i \in Ids
               PROVE  /\ store'[b][Request(i)] # None => i \in Calls
                      /\ store'[b][Response(i)] # None =>
                           \E x \in Calls : /\ callee'[x] = "done" /\ message'[x].id = i
                                            /\ store'[b][Response(i)] = produced'[x]
  BY DEF Genuine
<1>2. store'[b][Request(i)] # None => i \in Calls
  BY DEF Genuine
<1>3. ASSUME store'[b][Response(i)] # None
      PROVE  \E x \in Calls : /\ callee'[x] = "done" /\ message'[x].id = i
                              /\ store'[b][Response(i)] = produced'[x]
  <2>1. store'[b][Response(i)] = store[b][Response(i)]
    BY <1>3
  <2>2. PICK x \in Calls : /\ callee[x] = "done" /\ message[x].id = i
                           /\ store[b][Response(i)] = produced[x]
    BY <1>3, <2>1 DEF Genuine
  <2>3. callee'[x] = "done" /\ message'[x].id = i /\ store'[b][Response(i)] = produced'[x]
    BY <2>1, <2>2 DEF Steady
  <2>4. QED
    BY <2>3
<1>4. QED
  BY <1>2, <1>3

LEMMA OthersKeep ==
  ASSUME Types, NEW d \in Calls, CallInv(d), Keeps(d), Steady
  PROVE  CallInv(d)'
<1> USE DEF CallInv, Keeps, Steady
<1>1. Lossy(d)' <=> Lossy(d)
  BY DEF Lossy
<1>2. Large(d)' <=> Large(d)
  BY DEF Large
<1>3. Served(d)' <=> Served(d)
  BY DEF Served
<1>4. InOrder(d)'
  BY DEF InOrder
<1>5. Carries(d)'
  BY <1>2 DEF Carries
<1>6. Accepted(d)'
  BY <1>2 DEF Accepted
<1>7. Answers(d)'
  BY <1>3 DEF Answers
<1>8. RequestKept(d)'
  BY <1>2 DEF RequestKept, Types
<1>9. ResponseKept(d)'
  BY <1>3 DEF ResponseKept, Types
<1>10. RequestGone(d)' /\ ResponseGone(d)'
  BY <1>1, <1>3 DEF RequestGone, ResponseGone
<1>11. Arrives(d)'
  BY <1>1, ArrivesStays
<1>12. QED
  BY <1>4, <1>5, <1>6, <1>7, <1>8, <1>9, <1>10, <1>11

LEMMA OneCall ==
  ASSUME Inv, NEW c \in Calls, Types', Genuine', CallInv(c)', Steady,
         \A d \in Calls \ {c} : Keeps(d)
  PROVE  Inv'
BY OthersKeep DEF Inv

(* An id on a message that is not its own is no undisturbed call's.        *)
LEMMA OwnId ==
  ASSUME Inv, NEW c \in Calls, message[c] \in Message \ {None}
  PROVE  /\ message[c].id \in Ids
         /\ c \notin relabelled => message[c].id = c
         /\ \A d \in Calls \ {c} : d \notin relabelled => message[c].id # d
BY DEF Inv, CallInv, Carries, Message

LEMMA InitInv == Init => Inv
<1> SUFFICES ASSUME Init
             PROVE  Inv
  OBVIOUS
<1>1. Types
  BY DEF Init, Types
<1>2. ASSUME NEW c \in Calls
      PROVE  CallInv(c)
  BY ObjectFacts DEF Init, CallInv, InOrder, Carries, Accepted, Answers, RequestKept, ResponseKept,
     RequestGone, ResponseGone, Arrives, RanAsAsked, GivenAsProduced, Served
<1>3. Genuine
  BY ObjectFacts DEF Init, Genuine
<1>4. QED
  BY <1>1, <1>2, <1>3 DEF Inv

-----------------------------------------------------------------------------
(* The calling host *)

LEMMA GenerateInv ==
  ASSUME Inv, NEW c \in Calls, Generate(c)
  PROVE  Inv'
<1>1. PICK o \in Actors, t \in Actors \cup Providers, n \in Lengths :
        /\ asked' = [asked EXCEPT ![c] = [origin |-> o, target |-> t, msg |-> Bytes(Request(c), n)]]
        /\ caller' = [caller EXCEPT ![c] = IF n > NativeThreshold THEN "chunking" ELSE "ready"]
  BY DEF Generate
<1>2. /\ caller[c] = "idle"
      /\ UNCHANGED <<bucket, store, from, to, message, ran, produced, answer, result, callee,
                     faults, astray, altered>>
  BY DEF Generate
<1>3. [origin |-> o, target |-> t, msg |-> Bytes(Request(c), n)] \in Asked
  BY BlobFacts, ObjectFacts DEF Asked, Actors, Providers
<1>4. Types'
  BY <1>1, <1>2, <1>3 DEF Inv, Types, altered
<1>5. \A d \in Calls \ {c} : Keeps(d)
  BY <1>1, <1>2 DEF Keeps, Inv, Types, altered
<1>6. /\ asked'[c].msg.length = n /\ asked'[c] \in Asked
      /\ caller'[c] = IF n > NativeThreshold THEN "chunking" ELSE "ready"
  BY <1>1, <1>3, BlobFacts, ObjectFacts DEF Inv, Types
<1>7. CallInv(c) /\ Types
  BY DEF Inv
<1>8. InOrder(c)' /\ Carries(c)' /\ Accepted(c)' /\ Answers(c)'
  BY <1>2, <1>6, <1>7 DEF CallInv, InOrder, Carries, Accepted, Answers, Served
<1>9. RequestKept(c)' /\ ResponseKept(c)'
  <2>1. n > NativeThreshold <=> Large(c)'
    BY <1>6 DEF Large
  <2>2. QED
    BY <1>2, <1>6, <1>7, <2>1 DEF CallInv, RequestKept, ResponseKept, Served, InOrder, altered
<1>10. RequestGone(c)' /\ ResponseGone(c)' /\ Arrives(c)'
  BY <1>2, <1>6, <1>7 DEF CallInv, InOrder, RequestGone, ResponseGone, Arrives, RanAsAsked,
     GivenAsProduced, Served
<1>11. Steady
  BY <1>1, <1>2, <1>7 DEF Steady, Types, altered
<1>12. Genuine'
  BY <1>2, <1>11, GenuineStays DEF Inv
<1>13. QED
  BY <1>4, <1>5, <1>8, <1>9, <1>10, <1>11, <1>12, OneCall DEF CallInv

LEMMA ChunkRequestInv ==
  ASSUME Inv, NEW c \in Calls, ChunkRequest(c)
  PROVE  Inv'
<1>1. CallInv(c) /\ Types
  BY DEF Inv
<1>2. /\ caller[c] = "chunking" /\ UNCHANGED <<bucket, wire, callee, altered>>
      /\ \/ Put(from[c], Request(c), asked[c].msg) /\ astray' = astray /\ caller'[c] = "ready"
         \/ store' = store /\ astray' = astray \cup {c} /\ caller'[c] = "stuck"
      /\ \A d \in Calls : d # c => caller'[d] = caller[d]
  BY <1>1 DEF ChunkRequest, Chonk, NoFault, Fails, Types
<1>3. asked[c] \in Asked /\ asked[c].msg \in Blob /\ from[c] \in Processes
  BY <1>1, <1>2 DEF CallInv, InOrder, Asked, Types
<1>4. /\ store' \in [Buckets -> [Objects -> Blob \cup {None}]]
      /\ \A b \in Buckets, q \in Objects :
           store'[b][q] = IF caller'[c] = "ready" /\ b = bucket[from[c]] /\ q = Request(c)
                          THEN asked[c].msg ELSE store[b][q]
  BY <1>1, <1>2, <1>3, PutEffect, ObjectFacts DEF Types
<1>5. Types'
  <2>1. /\ faults' \in Nat /\ astray' \subseteq Calls
        /\ caller' \in [Calls -> {"idle", "chunking", "ready", "stuck", "waiting", "ok", "failed"}]
    BY <1>1 DEF ChunkRequest, Chonk, NoFault, Fails, Types
  <2>2. QED
    BY <1>1, <1>2, <1>4, <2>1 DEF Types, wire, altered
<1>6. \A d \in Calls \ {c} : Keeps(d)
  BY <1>2, <1>4, ObjectFacts DEF Keeps, wire, altered
<1>7. InOrder(c)' /\ Carries(c)' /\ Accepted(c)' /\ Answers(c)'
  BY <1>1, <1>2 DEF CallInv, InOrder, Carries, Accepted, Answers, Served, Large, wire, altered
<1>8. RequestKept(c)'
  <2>1. Large(c) /\ Large(c)' /\ (bucket[from[c]] # None => bucket[from[c]] \in Buckets)
    BY <1>1, <1>2, <1>3 DEF CallInv, RequestKept, Large, wire, Types
  <2>2. \A b \in Buckets : store'[b][Request(c)] # None =>
          b = bucket[from[c]] /\ store'[b][Request(c)] = asked[c].msg
    BY <1>1, <1>4, ObjectFacts DEF CallInv, RequestKept
  <2>3. caller'[c] = "ready" /\ bucket[from[c]] # None =>
          store'[bucket[from[c]]][Request(c)] = asked[c].msg
    BY <1>4, <2>1, ObjectFacts
  <2>4. QED
    BY <1>2, <2>1, <2>2, <2>3 DEF RequestKept, wire, altered
<1>9. ResponseKept(c)'
  BY <1>1, <1>2, <1>4, ObjectFacts DEF CallInv, InOrder, ResponseKept, Served, wire, altered
<1>10. RequestGone(c)' /\ ResponseGone(c)' /\ Arrives(c)'
  BY <1>1, <1>2 DEF CallInv, InOrder, RequestGone, ResponseGone, Arrives, RanAsAsked,
     GivenAsProduced, Served, wire, altered
<1>11. Steady
  BY <1>1, <1>2 DEF Steady, wire, altered
<1>12. Genuine'
  BY <1>1, <1>4, <1>11, GenuineStays, ObjectFacts DEF Inv
<1>13. QED
  BY <1>5, <1>6, <1>7, <1>8, <1>9, <1>10, <1>11, <1>12, OneCall DEF CallInv

LEMMA PublishInv ==
  ASSUME Inv, NEW c \in Calls, Publish(c)
  PROVE  Inv'
<1> DEFINE inv == Invocation(from[c], c, asked[c].origin, asked[c].target, asked[c].msg)
           m == IF inv.content_length > NativeThreshold THEN [inv EXCEPT !.msg = Empty] ELSE inv
<1>1. CallInv(c) /\ Types
  BY DEF Inv
<1>2. /\ caller[c] = "ready" /\ caller'[c] = "waiting" /\ message'[c] = m
      /\ caller' = [caller EXCEPT ![c] = "waiting"] /\ message' = [message EXCEPT ![c] = m]
      /\ \A d \in Calls : d # c => caller'[d] = caller[d] /\ message'[d] = message[d]
      /\ UNCHANGED <<bucket, store, from, to, asked, ran, produced, answer, result, callee,
                     faults, astray, altered>>
  BY <1>1 DEF Publish, Types
<1>3. asked[c] \in Asked /\ from[c] \in Processes
  BY <1>1, <1>2 DEF CallInv, InOrder, Types
<1>4. /\ inv.id = c /\ inv.content_length = asked[c].msg.length
      /\ inv.msg = asked[c].msg
      /\ inv.claims.target_url = Url(asked[c].target)
      /\ inv.claims.origin_url = Url(asked[c].origin)
      /\ inv.claims.hash = <<Url(asked[c].origin), Url(asked[c].target), asked[c].msg>>
      /\ inv \in Message
  <2>1. Key[from[c]] \in Issuers /\ asked[c].msg.length \in Lengths
    BY <1>3, BlobFacts, WireAssumption DEF Asked
  <2>2. Url(asked[c].target) \in Urls /\ Url(asked[c].origin) \in Urls
    BY <1>3 DEF Urls, Asked
  <2>3. inv.claims \in Claims
    BY <1>3, <2>1, <2>2 DEF Invocation, Claims, Asked
  <2>4. QED
    BY <1>3, <2>1, <2>3, ObjectFacts DEF Invocation, Message, Asked
<1> HIDE DEF inv
<1>5. /\ m \in Message
      /\ m.id = c /\ m.content_length = asked[c].msg.length
      /\ m.claims.target_url = Url(asked[c].target)
      /\ m.claims.origin_url = Url(asked[c].origin)
      /\ m.claims.hash = <<Url(asked[c].origin), Url(asked[c].target), asked[c].msg>>
      /\ m.msg.length = IF Large(c) THEN 0 ELSE asked[c].msg.length
  BY <1>4, BlobFacts DEF Message, Large
<1> HIDE DEF m
<1>6. Types'
  BY <1>1, <1>2, <1>5 DEF Types, altered
<1>7. \A d \in Calls \ {c} : Keeps(d)
  BY <1>2 DEF Keeps, altered
<1>8. (Large(c)' <=> Large(c)) /\ (Served(c)' <=> Served(c)) /\ (Lossy(c)' <=> Lossy(c))
  BY <1>2 DEF Large, Served, Lossy
<1>9. InOrder(c)' /\ Carries(c)' /\ Accepted(c)' /\ Answers(c)'
  BY <1>1, <1>2, <1>5, <1>8 DEF CallInv, InOrder, Carries, Accepted, Answers, altered
<1>10. RequestKept(c)' /\ ResponseKept(c)' /\ RequestGone(c)' /\ ResponseGone(c)'
  BY <1>1, <1>2, <1>8 DEF CallInv, InOrder, RequestKept, ResponseKept, RequestGone, ResponseGone, altered
<1>11. Steady
  BY <1>1, <1>2 DEF Steady, CallInv, InOrder, altered
<1>12. Genuine'
  BY <1>2, <1>11, GenuineStays DEF Inv
<1>13. Arrives(c)'
  BY <1>1, <1>2, <1>8, <1>11, ArrivesStays DEF CallInv
<1>14. QED
  BY <1>6, <1>7, <1>9, <1>10, <1>11, <1>12, <1>13, OneCall DEF CallInv

LEMMA GiveUpInv ==
  ASSUME Inv, NEW c \in Calls, GiveUp(c)
  PROVE  Inv'
<1>1. CallInv(c) /\ Types
  BY DEF Inv
<1>2. /\ caller[c] = "waiting" /\ caller'[c] = "failed" /\ caller' = [caller EXCEPT ![c] = "failed"]
      /\ \A d \in Calls : d # c => caller'[d] = caller[d]
      /\ UNCHANGED <<bucket, store, wire, callee, faults, astray, altered>>
  BY <1>1 DEF GiveUp, Types
<1>3. Types'
  BY <1>1, <1>2 DEF Types, wire, altered
<1>4. \A d \in Calls \ {c} : Keeps(d)
  BY <1>2 DEF Keeps, wire, altered
<1>5. (Large(c)' <=> Large(c)) /\ (Served(c)' <=> Served(c)) /\ (Lossy(c)' <=> Lossy(c))
  BY <1>2 DEF Large, Served, Lossy, wire
<1>6. InOrder(c)' /\ Carries(c)' /\ Accepted(c)' /\ Answers(c)'
  BY <1>1, <1>2, <1>5 DEF CallInv, InOrder, Carries, Accepted, Answers, wire, altered
<1>7. RequestKept(c)' /\ ResponseKept(c)' /\ RequestGone(c)' /\ ResponseGone(c)'
  BY <1>1, <1>2, <1>5 DEF CallInv, RequestKept, ResponseKept, RequestGone, ResponseGone, wire, altered
<1>8. Steady
  BY <1>1, <1>2 DEF Steady, wire, altered
<1>9. Genuine'
  BY <1>2, <1>8, GenuineStays DEF Inv
<1>10. Arrives(c)'
  BY <1>1, <1>2, <1>5, <1>8, ArrivesStays DEF CallInv, wire
<1>11. QED
  BY <1>3, <1>4, <1>6, <1>7, <1>8, <1>9, <1>10, OneCall DEF CallInv

(* A response is unpacked.                                                 *)
LEMMA ArriveInv ==
  ASSUME Inv, NEW c \in Calls, Arrive(c)
  PROVE  Inv'
<1>1. CallInv(c) /\ Types
  BY DEF Inv
<1>2. /\ caller[c] = "waiting" /\ answer[c] # None /\ answer'[c] = None /\ callee[c] = "done"
      /\ answer' = [answer EXCEPT ![c] = None]
      /\ caller' \in {[caller EXCEPT ![c] = "ok"], [caller EXCEPT ![c] = "failed"]}
      /\ \A d \in Calls : d # c => caller'[d] = caller[d] /\ answer'[d] = answer[d]
      /\ UNCHANGED <<bucket, from, to, asked, message, ran, produced, callee, altered>>
      /\ message[c] \in Message \ {None} /\ asked[c] \in Asked /\ from[c] \in Processes /\ to[c] \in Processes
  BY <1>1 DEF Arrive, Types, CallInv, InOrder
<1> DEFINE i == message[c].id
<1>a. i \in Ids /\ (c \notin relabelled => i = c) /\ \A d \in Calls \ {c} : d \notin relabelled => i # d
  BY <1>2, OwnId
<1>b. Steady
  BY <1>1, <1>2 DEF Steady, Types, altered
<1>3. CASE answer[c].error /\ caller' = [caller EXCEPT ![c] = "failed"] /\ UNCHANGED <<result, store>> /\ NoFault
  <2>1. Types' /\ \A d \in Calls \ {c} : Keeps(d)
    BY <1>1, <1>2, <1>3 DEF Types, Keeps, NoFault, altered
  <2>2. caller'[c] = "failed"
    BY <1>1, <1>3 DEF Types
  <2>3. ~Served(c)' /\ (Large(c)' <=> Large(c)) /\ (Lossy(c)' <=> Lossy(c))
    BY <1>2, <1>3 DEF Served, Large, Lossy, NoFault
  <2>4. Arrives(c)'
    BY <1>1, <1>2, <1>3, <1>b, <2>2, <2>3, ArrivesStays DEF CallInv
  <2>5. CallInv(c)'
    BY <1>1, <1>2, <1>3, <2>2, <2>3, <2>4 DEF CallInv, InOrder, Carries, Accepted, Answers,
       RequestKept, ResponseKept, RequestGone, ResponseGone, NoFault, altered
  <2>6. Genuine'
    BY <1>3, <1>b, GenuineStays DEF Inv
  <2>7. QED
    BY <1>b, <2>1, <2>5, <2>6, OneCall
<1> HIDE DEF i
<1>4. ASSUME ~answer[c].error, caller' = [caller EXCEPT ![c] = "ok"],
             NEW body, Body(from[c], Response(i), c, answer[c], body),
             result' = [result EXCEPT ![c] = body]
      PROVE  Inv'
  <2>1. /\ caller'[c] = "ok" /\ result'[c] = body
        /\ \A d \in Calls : d # c => result'[d] = result[d]
    BY <1>1, <1>4 DEF Types
  <2>2. /\ Served(c) /\ produced[c] \in Blob /\ answer[c] \in Reply
        /\ answer[c].content_length = produced[c].length
        /\ answer[c].msg \in {produced[c], Empty} /\ answer[c].msg \in Blob
    BY <1>1, <1>2, <1>4 DEF Served, CallInv, Answers, Types, Reply
  <2>3. /\ faults' \in Nat /\ astray' \in {astray, astray \cup {c}}
        /\ \/ answer[c].msg = produced[c] /\ body = answer[c].msg /\ store' = store /\ astray' = astray
           \/ /\ answer[c].msg # produced[c] /\ Put(from[c], Response(i), None) /\ astray' = astray
              /\ bucket[from[c]] = None => body = Empty
              /\ bucket[from[c]] # None =>
                   body = IF store[bucket[from[c]]][Response(i)] = None THEN Empty
                          ELSE store[bucket[from[c]]][Response(i)]
           \/ answer[c].msg # produced[c] /\ store' = store /\ astray' = astray \cup {c} /\ body = Empty
    <3>1. answer[c].content_length > answer[c].msg.length <=> answer[c].msg # produced[c]
      BY <2>2, BlobFacts, WireAssumption DEF Lengths
    <3>2. QED
      BY <1>1, <1>2, <1>4, <1>a, <3>1, BodyEffect, ObjectFacts DEF i
  <2>4. /\ store' \in [Buckets -> [Objects -> Blob \cup {None}]]
        /\ \A b \in Buckets, q \in Objects :
             store'[b][q] = store[b][q] \/ (store'[b][q] = None /\ q = Response(i))
        /\ answer[c].msg # produced[c] /\ c \notin astray' /\ bucket[from[c]] # None =>
             store'[bucket[from[c]]][Response(i)] = None
    <3>1. CASE store' = store /\ (astray' = astray \cup {c} \/ answer[c].msg = produced[c])
      BY <1>1, <3>1 DEF Types
    <3>2. CASE Put(from[c], Response(i), None)
      <4>1. /\ store' \in [Buckets -> [Objects -> Blob \cup {None}]]
            /\ \A b \in Buckets, q \in Objects :
                 store'[b][q] = IF b = bucket[from[c]] /\ q = Response(i) THEN None ELSE store[b][q]
        BY <1>1, <1>2, <1>a, <3>2, PutEffect, ObjectFacts
      <4>2. bucket[from[c]] # None => bucket[from[c]] \in Buckets
        BY <1>1, <1>2 DEF Types
      <4>3. QED
        BY <1>a, <4>1, <4>2, ObjectFacts
    <3>3. QED
      BY <2>3, <3>1, <3>2
  <2>5. body \in Blob
    <3>1. bucket[from[c]] # None => store[bucket[from[c]]][Response(i)] \in Blob \cup {None}
      BY <1>1, <1>2, <1>a, ObjectFacts DEF Types
    <3>2. QED
      BY <2>2, <2>3, <3>1, BlobFacts
  <2>6. Types'
    <3>1. caller' \in [Calls -> {"idle", "chunking", "ready", "stuck", "waiting", "ok", "failed"}]
          /\ answer' \in [Calls -> Reply \cup {None}] /\ result' \in [Calls -> Blob \cup {None}]
          /\ astray' \subseteq Calls
      BY <1>1, <1>2, <1>4, <2>3, <2>5 DEF Types
    <3>2. QED
      BY <1>1, <1>2, <2>3, <2>4, <3>1 DEF Types, altered
  <2>7. \A d \in Calls \ {c} : Keeps(d)
    BY <1>2, <1>a, <2>1, <2>3, <2>4, ObjectFacts DEF Keeps, altered
  <2>8. ~Served(c)' /\ (Large(c)' <=> Large(c)) /\ (Lossy(c) => Lossy(c)')
    BY <1>2, <2>3 DEF Served, Large, Lossy
  <2>9. InOrder(c)' /\ Carries(c)' /\ Accepted(c)' /\ Answers(c)'
    BY <1>1, <1>2, <2>1, <2>8 DEF CallInv, InOrder, Carries, Accepted, Answers, altered
  <2>10. \A b \in Buckets : store'[b][Request(c)] = store[b][Request(c)]
    BY <1>a, <2>4, ObjectFacts
  <2>11. RequestKept(c)' /\ RequestGone(c)'
    BY <1>1, <1>2, <2>1, <2>2, <2>8, <2>10 DEF CallInv, RequestKept, RequestGone, altered
  <2>12. ResponseKept(c)'
    BY <1>1, <1>2, <1>a, <2>4, <2>8, ObjectFacts DEF CallInv, ResponseKept, altered
  <2>13. ~Lossy(c)' => c \notin astray' /\ bucket[from[c]] # None /\ bucket[from[c]] = bucket[to[c]]
    BY <1>2 DEF Lossy
  <2>14. ResponseGone(c)'
    BY <1>1, <1>2, <1>a, <2>2, <2>4, <2>8, <2>13, ObjectFacts DEF CallInv, ResponseKept, ResponseGone,
       Types, altered
  <2>15. \/ \E d \in Confused(c) : callee[d] = "done" /\ body = produced[d]
         \/ (Lossy(c)' \/ c \in relabelled) /\ body = Empty
    <3>1. CASE body = produced[c]
      BY <1>2, <3>1 DEF Confused
    <3>2. CASE c \notin relabelled /\ body # produced[c]
      BY <1>1, <1>2, <1>a, <2>2, <2>3, <2>13, <3>2, ObjectFacts, BlobFacts DEF CallInv, ResponseKept, Types
    <3>3. CASE c \in relabelled /\ body # produced[c] /\ body # Empty
      <4>1. PICK b \in Buckets : store[b][Response(i)] # None /\ body = store[b][Response(i)]
        BY <1>1, <1>2, <2>3, <3>3 DEF Types
      <4>2. PICK x \in Calls : /\ callee[x] = "done" /\ message[x].id = i
                               /\ store[b][Response(i)] = produced[x]
        BY <1>a, <4>1 DEF Inv, Genuine
      <4>3. x \in Confused(c)
        <5>1. message[x] \in Message \ {None}
          BY <4>2 DEF Inv, CallInv, InOrder
        <5>2. x # c /\ x \notin relabelled => message[x].id = x
          BY <5>1, OwnId
        <5>3. x # c /\ x \notin relabelled => i # x
          BY <1>a
        <5>4. QED
          BY <3>3, <4>2, <5>2, <5>3 DEF Confused
      <4>4. QED
        BY <4>1, <4>2, <4>3
    <3>4. QED
      BY <3>1, <3>2, <3>3
  <2>16. GivenAsProduced(c)'
    <3>1. Confused(c)' = Confused(c) /\ relabelled' = relabelled
      BY <1>2 DEF Confused, altered
    <3>2. QED
      BY <1>2, <2>1, <2>15, <3>1 DEF GivenAsProduced
  <2>17. RanAsAsked(c)'
    <3>1. CASE ran[c] = None
      BY <1>2, <3>1 DEF RanAsAsked
    <3>2. CASE ran[c] # None
      BY <1>1, <1>2, <1>b, <2>8, <3>2, RanStays DEF CallInv, Arrives
    <3>3. QED
      BY <3>1, <3>2
  <2>18. Arrives(c)'
    BY <2>16, <2>17 DEF Arrives
  <2>19. Genuine'
    BY <1>a, <1>b, <2>4, GenuineStays, ObjectFacts DEF Inv
  <2>20. QED
    BY <1>b, <2>6, <2>7, <2>9, <2>11, <2>12, <2>14, <2>18, <2>19, OneCall DEF CallInv
<1>5. QED
  BY <1>3, <1>4 DEF Arrive, i

-----------------------------------------------------------------------------
(* On the way, and the called host *)

LEMMA GarbleInv ==
  ASSUME Inv, NEW c \in Calls, Garble(c)
  PROVE  Inv'
<1>1. CallInv(c) /\ Types
  BY DEF Inv
<1>2. /\ message[c] # None /\ message[c] \in Message /\ callee[c] = "idle"
      /\ caller[c] \notin {"idle", "chunking", "ready", "stuck"}
      /\ UNCHANGED <<bucket, store, from, to, asked, ran, produced, answer, result, caller,
                     callee, faults, astray>>
  BY <1>1 DEF Garble, Types, CallInv, InOrder
<1>3. PICK m \in Message :
        /\ message' = [message EXCEPT ![c] = m] /\ m.claims = message[c].claims
        /\ cut \subseteq cut' /\ relabelled \subseteq relabelled'
        /\ cut' \subseteq Calls /\ relabelled' \subseteq Calls
        /\ c \notin cut' => /\ m.content_length = message[c].content_length
                            /\ m.msg = message[c].msg
        /\ m.id # message[c].id => c \in relabelled' /\ (m.id \in Calls => m.id \in relabelled')
  <2> DEFINE Altered(m) ==
               /\ message' = [message EXCEPT ![c] = m] /\ m.claims = message[c].claims
               /\ cut \subseteq cut' /\ relabelled \subseteq relabelled'
               /\ cut' \subseteq Calls /\ relabelled' \subseteq Calls
               /\ c \notin cut' => /\ m.content_length = message[c].content_length
                                   /\ m.msg = message[c].msg
               /\ m.id # message[c].id => c \in relabelled' /\ (m.id \in Calls => m.id \in relabelled')
  <2>1. ASSUME NEW e \in Entities, message' = [message EXCEPT ![c].origin = e], UNCHANGED altered
        PROVE  \E m \in Message : Altered(m)
    <3>1. [message[c] EXCEPT !.origin = e] \in Message
      BY <1>2 DEF Message
    <3>2. Altered([message[c] EXCEPT !.origin = e])
      BY <1>1, <1>2, <2>1 DEF Types, Message, altered
    <3>3. QED
      BY <3>1, <3>2
  <2>2. ASSUME NEW e \in Entities, message' = [message EXCEPT ![c].target = e], UNCHANGED altered
        PROVE  \E m \in Message : Altered(m)
    <3>1. [message[c] EXCEPT !.target = e] \in Message
      BY <1>2 DEF Message
    <3>2. Altered([message[c] EXCEPT !.target = e])
      BY <1>1, <1>2, <2>2 DEF Types, Message, altered
    <3>3. QED
      BY <3>1, <3>2
  <2>3. ASSUME NEW n \in Lengths, message' = [message EXCEPT ![c].msg = Bytes(None, n)],
               cut' = cut \cup {c}, UNCHANGED relabelled
        PROVE  \E m \in Message : Altered(m)
    <3>1. [message[c] EXCEPT !.msg = Bytes(None, n)] \in Message
      BY <1>2, WireAssumption DEF Message, Bytes, Blob, Lengths
    <3>2. Altered([message[c] EXCEPT !.msg = Bytes(None, n)])
      BY <1>1, <1>2, <2>3 DEF Types, Message
    <3>3. QED
      BY <3>1, <3>2
  <2>4. ASSUME NEW n \in Lengths, message' = [message EXCEPT ![c].content_length = n],
               cut' = cut \cup {c}, UNCHANGED relabelled
        PROVE  \E m \in Message : Altered(m)
    <3>1. [message[c] EXCEPT !.content_length = n] \in Message
      BY <1>2 DEF Message
    <3>2. Altered([message[c] EXCEPT !.content_length = n])
      BY <1>1, <1>2, <2>4 DEF Types, Message
    <3>3. QED
      BY <3>1, <3>2
  <2>5. ASSUME NEW i \in Ids, message' = [message EXCEPT ![c].id = i],
               relabelled' = relabelled \cup {c} \cup ({i} \cap Calls), UNCHANGED cut
        PROVE  \E m \in Message : Altered(m)
    <3>1. [message[c] EXCEPT !.id = i] \in Message
      BY <1>2 DEF Message
    <3>2. Altered([message[c] EXCEPT !.id = i])
      BY <1>1, <1>2, <2>5 DEF Types, Message
    <3>3. QED
      BY <3>1, <3>2
  <2>6. QED
    BY <2>1, <2>2, <2>3, <2>4, <2>5 DEF Garble
<1>4. message'[c] = m /\ (\A d \in Calls : d # c => message'[d] = message[d]) /\ Types'
  BY <1>1, <1>2, <1>3 DEF Types
<1>5. \A d \in Calls \ {c} : Keeps(d)
  BY <1>2, <1>4 DEF Keeps
<1>6. (Large(c)' <=> Large(c)) /\ (Served(c)' <=> Served(c)) /\ (Lossy(c)' <=> Lossy(c))
  BY <1>2 DEF Large, Served, Lossy
<1>7. InOrder(c)' /\ Accepted(c)' /\ Answers(c)'
  BY <1>1, <1>2, <1>3, <1>4, <1>6 DEF CallInv, InOrder, Accepted, Answers
<1>8. Carries(c)'
  BY <1>1, <1>2, <1>3, <1>4, <1>6 DEF CallInv, Carries
<1>9. RequestKept(c)' /\ ResponseKept(c)' /\ RequestGone(c)' /\ ResponseGone(c)'
  BY <1>1, <1>2, <1>3, <1>6 DEF CallInv, RequestKept, ResponseKept, RequestGone, ResponseGone
<1>10. Steady
  BY <1>2, <1>3, <1>4 DEF Steady
<1>11. Genuine'
  BY <1>2, <1>10, GenuineStays DEF Inv
<1>12. Arrives(c)'
  BY <1>1, <1>2, <1>6, <1>10, ArrivesStays DEF CallInv
<1>13. QED
  BY <1>4, <1>5, <1>7, <1>8, <1>9, <1>10, <1>11, <1>12, OneCall DEF CallInv

(* Antiforgery: a message that is accepted has the URL it was sent to, and *)
(* its body unless that is to be fetched.                                  *)
LEMMA TakeInv ==
  ASSUME Inv, NEW c \in Calls, Take(c)
  PROVE  Inv'
<1>1. CallInv(c) /\ Types
  BY DEF Inv
<1>2. /\ message[c] # None /\ message[c] \in Message /\ callee[c] = "idle"
      /\ caller[c] \notin {"idle", "chunking", "ready", "stuck"} /\ asked[c] \in Asked
      /\ UNCHANGED <<bucket, store, from, to, asked, message, ran, produced, result, caller,
                     faults, astray, altered>>
  BY <1>1 DEF Take, Types, CallInv, InOrder
<1>a. Steady
  BY <1>1, <1>2 DEF Take, Steady, Types, altered
<1>b. Genuine'
  BY <1>2, <1>a, GenuineStays DEF Inv
<1>3. CASE Validate(message[c], Trusts[to[c]]) /\ callee' = [callee EXCEPT ![c] = "accepted"] /\ UNCHANGED answer
  <2>1. Types' /\ callee'[c] = "accepted" /\ \A d \in Calls : d # c => callee'[d] = callee[d]
    BY <1>1, <1>2, <1>3 DEF Types, altered
  <2>2. \A d \in Calls \ {c} : Keeps(d)
    BY <1>2, <1>3, <2>1 DEF Keeps, altered
  <2>3. (Large(c)' <=> Large(c)) /\ (Served(c)' <=> Served(c)) /\ (Lossy(c)' <=> Lossy(c))
    BY <1>2, <1>3 DEF Large, Served, Lossy
  <2>4. Url(message[c].target) = Url(asked[c].target) /\ Url(message[c].origin) = Url(asked[c].origin)
    BY <1>1, <1>2, <1>3 DEF CallInv, Carries, Validate
  <2>5. /\ message[c].msg \in {asked[c].msg, Empty}
        /\ c \notin cut => message[c].msg = IF Large(c) THEN Empty ELSE asked[c].msg
    <3>1. message[c].msg \in Blob /\ asked[c].msg \in Blob
      BY <1>2 DEF Message, Asked
    <3>2. message[c].msg # Empty => message[c].msg = asked[c].msg
      BY <1>1, <1>2, <1>3 DEF CallInv, Carries, Validate, Hash
    <3>3. c \notin cut => message[c].msg.length = IF Large(c) THEN 0 ELSE asked[c].msg.length
      BY <1>1, <1>2 DEF CallInv, Carries
    <3>4. QED
      BY <3>1, <3>2, <3>3, BlobFacts
  <2>6. InOrder(c)' /\ Carries(c)' /\ Answers(c)'
    BY <1>1, <1>2, <1>3, <2>1, <2>3 DEF CallInv, InOrder, Carries, Answers, altered
  <2>7. Accepted(c)'
    BY <1>2, <2>3, <2>4, <2>5 DEF Accepted, altered
  <2>8. RequestKept(c)' /\ ResponseKept(c)' /\ RequestGone(c)' /\ ResponseGone(c)'
    BY <1>1, <1>2, <1>3, <2>1, <2>3 DEF CallInv, RequestKept, ResponseKept, RequestGone,
       ResponseGone, altered
  <2>9. Arrives(c)'
    BY <1>1, <1>2, <1>a, <2>3, ArrivesStays DEF CallInv
  <2>10. QED
    BY <1>a, <1>b, <2>1, <2>2, <2>6, <2>7, <2>8, <2>9, OneCall DEF CallInv
<1>4. CASE callee' = [callee EXCEPT ![c] = "done"] /\ Answer(c, TRUE, Empty, 0)
  <2>1. [error |-> TRUE, msg |-> Empty, content_length |-> 0] \in Reply
    BY BlobFacts DEF Reply
  <2>2. /\ Types' /\ callee'[c] = "done" /\ answer'[c].error
        /\ \A d \in Calls : d # c => callee'[d] = callee[d] /\ answer'[d] = answer[d]
    BY <1>1, <1>2, <1>4, <2>1 DEF Types, Answer, altered
  <2>3. \A d \in Calls \ {c} : Keeps(d)
    BY <1>2, <2>2 DEF Keeps, altered
  <2>4. (Large(c)' <=> Large(c)) /\ ~Served(c)' /\ (Lossy(c)' <=> Lossy(c))
    BY <1>2, <2>2 DEF Large, Served, Lossy
  <2>5. InOrder(c)' /\ Carries(c)' /\ Accepted(c)' /\ Answers(c)'
    BY <1>1, <1>2, <2>2, <2>4 DEF CallInv, InOrder, Carries, Accepted, Answers, altered
  <2>6. RequestKept(c)' /\ ResponseKept(c)' /\ RequestGone(c)' /\ ResponseGone(c)'
    BY <1>1, <1>2, <2>2, <2>4 DEF CallInv, InOrder, RequestKept, ResponseKept, RequestGone,
       ResponseGone, altered
  <2>7. Arrives(c)'
    BY <1>1, <1>2, <1>4, <1>a, <2>4, ArrivesStays DEF CallInv
  <2>8. QED
    BY <1>a, <1>b, <2>2, <2>3, <2>5, <2>6, <2>7, OneCall DEF CallInv
<1>5. QED
  BY <1>3, <1>4 DEF Take

(* The guest is run with the body of the message, or with the object,      *)
(* which is deleted.                                                       *)
LEMMA RunInv ==
  ASSUME Inv, NEW c \in Calls, Run(c)
  PROVE  Inv'
<1> DEFINE i == message[c].id
           m == message[c]
<1>1. CallInv(c) /\ Types
  BY DEF Inv
<1>2. PICK body :
        /\ Body(to[c], Request(i), c, m, body)
        /\ ran' = [ran EXCEPT ![c] = [origin |-> m.origin, target |-> m.target, msg |-> body]]
  BY DEF Run
<1>3. /\ callee[c] = "accepted" /\ callee'[c] = "running" /\ callee' = [callee EXCEPT ![c] = "running"]
      /\ \A d \in Calls : d # c => callee'[d] = callee[d] /\ ran'[d] = ran[d]
      /\ UNCHANGED <<bucket, from, to, asked, message, produced, answer, result, caller, altered>>
      /\ from[c] \in Processes /\ to[c] \in Processes /\ m \in Message \ {None}
      /\ asked[c] \in Asked /\ caller[c] \in {"waiting", "failed"}
  BY <1>1, <1>2 DEF Run, Types, CallInv, InOrder
<1>a. i \in Ids /\ (c \notin relabelled => i = c) /\ \A d \in Calls \ {c} : d \notin relabelled => i # d
  BY <1>3, OwnId
<1>b. i \in Calls => i = c \/ (c \in relabelled /\ i \in relabelled)
  BY <1>1, <1>3 DEF CallInv, Carries
<1>4. /\ Url(m.target) = Url(asked[c].target) /\ Url(m.origin) = Url(asked[c].origin)
      /\ m.msg \in {asked[c].msg, Empty} /\ m.msg \in Blob /\ asked[c].msg \in Blob
      /\ c \notin cut => /\ m.content_length = asked[c].msg.length
                         /\ m.msg = IF Large(c) THEN Empty ELSE asked[c].msg
                         /\ m.content_length > m.msg.length <=> Large(c)
  <2>1. /\ Url(m.target) = Url(asked[c].target) /\ Url(m.origin) = Url(asked[c].origin)
        /\ m.msg \in {asked[c].msg, Empty} /\ m.msg \in Blob /\ asked[c].msg \in Blob
        /\ c \notin cut => /\ m.content_length = asked[c].msg.length
                           /\ m.msg = IF Large(c) THEN Empty ELSE asked[c].msg
    BY <1>1, <1>3 DEF CallInv, Carries, Accepted, Asked, Message
  <2>2. c \notin cut => (m.content_length > m.msg.length <=> Large(c))
    BY <2>1, BlobFacts, WireAssumption DEF Large, Lengths
  <2>3. QED
    BY <2>1, <2>2
<1>5. /\ faults' \in Nat /\ astray' \in {astray, astray \cup {c}}
      /\ \/ /\ ~(m.content_length > m.msg.length)
            /\ body = m.msg /\ store' = store /\ astray' = astray
         \/ /\ m.content_length > m.msg.length /\ Put(to[c], Request(i), None) /\ astray' = astray
            /\ bucket[to[c]] = None => body = Empty
            /\ bucket[to[c]] # None =>
                 body = IF store[bucket[to[c]]][Request(i)] = None THEN Empty
                        ELSE store[bucket[to[c]]][Request(i)]
         \/ /\ m.content_length > m.msg.length /\ store' = store /\ astray' = astray \cup {c}
            /\ body = Empty
  BY <1>1, <1>2, <1>3, <1>a, BodyEffect, ObjectFacts
<1> HIDE DEF i, m
<1>6. /\ store' \in [Buckets -> [Objects -> Blob \cup {None}]]
      /\ \A b \in Buckets, q \in Objects :
           store'[b][q] = store[b][q] \/ (store'[b][q] = None /\ q = Request(i))
      /\ m.content_length > m.msg.length /\ c \notin astray' /\ bucket[to[c]] # None =>
           store'[bucket[to[c]]][Request(i)] = None
  <2>1. CASE store' = store /\ (astray' = astray \cup {c} \/ ~(m.content_length > m.msg.length))
    BY <1>1, <2>1 DEF Types
  <2>2. CASE Put(to[c], Request(i), None)
    <3>1. /\ store' \in [Buckets -> [Objects -> Blob \cup {None}]]
          /\ \A b \in Buckets, q \in Objects :
               store'[b][q] = IF b = bucket[to[c]] /\ q = Request(i) THEN None ELSE store[b][q]
      BY <1>1, <1>3, <1>a, <2>2, PutEffect, ObjectFacts
    <3>2. bucket[to[c]] # None => bucket[to[c]] \in Buckets
      BY <1>1, <1>3 DEF Types
    <3>3. QED
      BY <1>a, <3>1, <3>2, ObjectFacts
  <2>3. QED
    BY <1>5, <2>1, <2>2
<1>7. body \in Blob
  <2>1. bucket[to[c]] # None => store[bucket[to[c]]][Request(i)] \in Blob \cup {None}
    BY <1>1, <1>3, <1>a, ObjectFacts DEF Types
  <2>2. QED
    BY <1>4, <1>5, <2>1, BlobFacts
<1>8. /\ ran' \in [Calls -> Asked \cup {None}]
      /\ ran'[c].origin = m.origin /\ ran'[c].target = m.target /\ ran'[c].msg = body
  <2>1. [origin |-> m.origin, target |-> m.target, msg |-> body] \in Asked
    BY <1>3, <1>7 DEF Asked, Message
  <2>2. QED
    BY <1>1, <1>2, <2>1 DEF Types, m
<1>9. Types'
  <2>1. astray' \subseteq Calls
        /\ callee' \in [Calls -> {"idle", "accepted", "running", "answering", "done"}]
    BY <1>1, <1>3, <1>5 DEF Types
  <2>2. QED
    BY <1>1, <1>3, <1>5, <1>6, <1>8, <2>1 DEF Types, altered
<1>10. \A d \in Calls \ {c} : Keeps(d)
  BY <1>3, <1>5, <1>6, <1>a, ObjectFacts DEF Keeps, altered
<1>11. (Served(c)' <=> Served(c)) /\ (Large(c)' <=> Large(c)) /\ (Lossy(c) => Lossy(c)')
  BY <1>3, <1>5 DEF Served, Large, Lossy
<1>12. InOrder(c)' /\ Carries(c)' /\ Accepted(c)' /\ Answers(c)'
  BY <1>1, <1>3, <1>11 DEF CallInv, InOrder, Carries, Accepted, Answers, altered
<1>13. \A b \in Buckets, o \in Ids : store'[b][Response(o)] = store[b][Response(o)]
  BY <1>6, <1>a, ObjectFacts
<1>14. ~Lossy(c)' => /\ c \notin astray' /\ c \notin astray /\ bucket[from[c]] # None
                     /\ bucket[from[c]] = bucket[to[c]] /\ bucket[from[c]] \in Buckets
  BY <1>1, <1>3, <1>5 DEF Lossy, Types
<1>15. RequestKept(c)' /\ ResponseKept(c)'
  BY <1>1, <1>3, <1>6, <1>11, <1>13, <1>a, ObjectFacts
     DEF CallInv, InOrder, RequestKept, ResponseKept, Served, altered
<1>16. RequestGone(c)'
  BY <1>1, <1>3, <1>4, <1>6, <1>14, <1>a, ObjectFacts DEF CallInv, RequestKept, RequestGone, altered
<1>17. ResponseGone(c)'
  BY <1>1, <1>3, <1>11, <1>13, ObjectFacts DEF CallInv, ResponseGone, altered
<1>18. \/ \E d \in Confused(c) : caller[d] # "idle" /\ body = asked[d].msg
       \/ (Lossy(c)' \/ c \in cut \cup relabelled) /\ body = Empty
  <2>1. CASE body = asked[c].msg
    BY <1>3, <2>1 DEF Confused
  <2>2. CASE body = Empty /\ body # asked[c].msg
    BY <1>1, <1>3, <1>4, <1>5, <1>14, <1>a, <2>2, BlobFacts DEF CallInv, RequestKept
  <2>3. CASE body # Empty /\ body # asked[c].msg
    <3>1. PICK b \in Buckets : store[b][Request(i)] # None /\ body = store[b][Request(i)]
      BY <1>1, <1>3, <1>4, <1>5, <2>3 DEF Types
    <3>2. i \in Calls
      BY <1>a, <3>1 DEF Inv, Genuine
    <3>3. caller[i] # "idle" /\ store[b][Request(i)] = asked[i].msg
      BY <3>1, <3>2 DEF Inv, CallInv, RequestKept
    <3>4. i \in Confused(c)
      BY <1>b, <3>2 DEF Confused, i
    <3>5. QED
      BY <3>1, <3>3, <3>4
  <2>4. QED
    BY <2>1, <2>2, <2>3
<1>c. Steady
  BY <1>3 DEF Steady, altered
<1>19. RanAsAsked(c)'
  <2>1. Confused(c)' = Confused(c)
    BY <1>3 DEF Confused, altered
  <2>2. QED
    BY <1>3, <1>4, <1>8, <1>18, <2>1 DEF RanAsAsked, altered
<1>20. Arrives(c)'
  BY <1>1, <1>3, <1>19 DEF CallInv, GivenAsProduced, Arrives
<1>21. Genuine'
  BY <1>6, <1>13, <1>a, <1>c, GenuineStays, ObjectFacts DEF Inv
<1>22. QED
  BY <1>9, <1>10, <1>12, <1>15, <1>16, <1>17, <1>20, <1>21, <1>c, OneCall DEF CallInv

(* What a step of the callee after the run changes: nothing of the request. *)
LEMMA AnswerInv ==
  ASSUME Inv, NEW c \in Calls, callee[c] \in {"accepted", "running", "answering"},
         Types', Genuine', \A d \in Calls \ {c} : Keeps(d),
         callee'[c] \in {"answering", "done"}, callee'[c] = "answering" => callee[c] = "running",
         \A d \in Calls \ {c} : callee'[d] = callee[d] /\ produced'[d] = produced[d],
         answer'[c] # None => answer'[c].error \/ callee[c] \in {"running", "answering"},
         callee[c] = "running" \/ produced'[c] = produced[c],
         UNCHANGED <<bucket, from, to, asked, message, ran, result, caller, altered>>,
         astray' \in {astray, astray \cup {c}},
         \A b \in Buckets : store'[b][Request(c)] = store[b][Request(c)],
         callee'[c] # "done" => answer'[c] = None,
         callee'[c] = "answering" => produced'[c] \in Blob /\ produced'[c].length > HostThreshold,
         Answers(c)', ResponseKept(c)', ResponseGone(c)'
  PROVE  Inv'
<1>1. CallInv(c) /\ Types
  BY DEF Inv
<1>2. (Large(c)' <=> Large(c)) /\ (Lossy(c) => Lossy(c)') /\ caller[c] # "ok"
  BY <1>1 DEF Large, Lossy, CallInv, InOrder
<1>3. InOrder(c)' /\ Carries(c)' /\ Accepted(c)'
  BY <1>1, <1>2 DEF CallInv, InOrder, Carries, Accepted, altered
<1>4. RequestKept(c)'
  BY <1>1, <1>2 DEF CallInv, RequestKept, altered
<1>5. RequestGone(c)'
  BY <1>1, <1>2 DEF CallInv, RequestGone, Served, altered
<1>6. Steady
  BY DEF Steady, altered
<1>7. Arrives(c)'
  BY <1>1, <1>2, <1>6, ArrivesStays DEF CallInv
<1>8. QED
  BY <1>3, <1>4, <1>5, <1>6, <1>7, OneCall DEF CallInv

LEMMA ReturnInv ==
  ASSUME Inv, NEW c \in Calls, Return(c)
  PROVE  Inv'
<1>1. CallInv(c) /\ Types
  BY DEF Inv
<1>2. /\ callee[c] = "running" /\ answer[c] = None /\ caller[c] # "ok"
      /\ UNCHANGED <<bucket, store, from, to, asked, message, ran, result, caller, faults, astray, altered>>
      /\ c \notin relabelled => \A b \in Buckets : store[b][Response(c)] = None
  BY <1>1 DEF Return, CallInv, InOrder, ResponseKept
<1>a. ASSUME \A d \in Calls \ {c} : callee'[d] = callee[d] /\ produced'[d] = produced[d]
      PROVE  Genuine'
  <2>1. Steady
    BY <1>1, <1>2, <1>a DEF Steady, altered
  <2>2. QED
    BY <1>2, <2>1, GenuineStays DEF Inv
<1>3. CASE callee' = [callee EXCEPT ![c] = "done"] /\ Answer(c, TRUE, Empty, 0) /\ UNCHANGED produced
  <2>1. [error |-> TRUE, msg |-> Empty, content_length |-> 0] \in Reply
    BY BlobFacts DEF Reply
  <2>2. /\ Types' /\ callee'[c] = "done" /\ answer'[c].error
        /\ \A d \in Calls : d # c => callee'[d] = callee[d] /\ answer'[d] = answer[d]
    BY <1>1, <1>2, <1>3, <2>1 DEF Types, Answer, altered
  <2>3. \A d \in Calls \ {c} : Keeps(d)
    BY <1>2, <1>3, <2>2 DEF Keeps, altered
  <2>4. Answers(c)' /\ ResponseKept(c)' /\ ResponseGone(c)'
    BY <1>1, <1>2, <1>3, <2>2 DEF CallInv, Answers, ResponseKept, ResponseGone, Served, altered
  <2>5. QED
    BY <1>2, <1>a, <1>3, <2>2, <2>3, <2>4, AnswerInv
<1>4. ASSUME NEW n \in Lengths,
             produced' = [produced EXCEPT ![c] = Bytes(Response(c), n)],
             n > HostThreshold, callee' = [callee EXCEPT ![c] = "answering"], UNCHANGED answer
      PROVE  Inv'
  <2>1. /\ Types' /\ callee'[c] = "answering" /\ produced'[c] = Bytes(Response(c), n)
        /\ \A d \in Calls : d # c => callee'[d] = callee[d] /\ produced'[d] = produced[d]
    BY <1>1, <1>2, <1>4, BlobFacts, ObjectFacts DEF Types, altered
  <2>2. \A d \in Calls \ {c} : Keeps(d)
    BY <1>2, <1>4, <2>1 DEF Keeps, altered
  <2>3. Answers(c)' /\ ResponseKept(c)' /\ ResponseGone(c)'
    BY <1>1, <1>2, <1>4, <2>1 DEF CallInv, Answers, ResponseKept, ResponseGone, Served, altered
  <2>4. produced'[c] \in Blob /\ produced'[c].length > HostThreshold
    BY <1>4, <2>1, BlobFacts, ObjectFacts
  <2>5. QED
    BY <1>2, <1>a, <1>4, <2>1, <2>2, <2>3, <2>4, AnswerInv
<1>5. ASSUME NEW n \in Lengths,
             produced' = [produced EXCEPT ![c] = Bytes(Response(c), n)],
             callee' = [callee EXCEPT ![c] = "done"], Answer(c, FALSE, Bytes(Response(c), n), n)
      PROVE  Inv'
  <2>1. Bytes(Response(c), n) \in Blob /\ Bytes(Response(c), n).length = n
    BY BlobFacts, ObjectFacts
  <2>2. [error |-> FALSE, msg |-> Bytes(Response(c), n), content_length |-> n] \in Reply
    BY <2>1 DEF Reply
  <2>3. /\ callee' \in [Calls -> {"idle", "accepted", "running", "answering", "done"}]
        /\ produced' \in [Calls -> Blob \cup {None}] /\ answer' \in [Calls -> Reply \cup {None}]
    BY <1>1, <1>5, <2>1, <2>2 DEF Types, Answer
  <2>4. /\ callee'[c] = "done" /\ produced'[c] = Bytes(Response(c), n)
        /\ answer'[c].msg = produced'[c] /\ answer'[c].content_length = n
        /\ \A d \in Calls : d # c => /\ callee'[d] = callee[d] /\ produced'[d] = produced[d]
                                     /\ answer'[d] = answer[d]
    BY <1>1, <1>5 DEF Types, Answer
  <2>5. Types'
    BY <1>1, <1>2, <2>3 DEF Types, altered
  <2>6. \A d \in Calls \ {c} : Keeps(d)
    BY <1>2, <2>4 DEF Keeps, altered
  <2>7. Answers(c)' /\ ResponseKept(c)' /\ ResponseGone(c)'
    BY <1>1, <1>2, <2>1, <2>4 DEF CallInv, Answers, ResponseKept, ResponseGone, Served, altered
  <2>8. QED
    BY <1>2, <1>a, <2>4, <2>5, <2>6, <2>7, AnswerInv
<1>6. QED
  BY <1>3, <1>4, <1>5 DEF Return

LEMMA ChunkResponseInv ==
  ASSUME Inv, NEW c \in Calls, ChunkResponse(c)
  PROVE  Inv'
<1> DEFINE n == produced[c].length
           i == message[c].id
<1>1. CallInv(c) /\ Types
  BY DEF Inv
<1>2. /\ callee[c] = "answering" /\ callee'[c] = "done" /\ callee' = [callee EXCEPT ![c] = "done"]
      /\ answer[c] = None /\ caller[c] # "ok" /\ to[c] \in Processes
      /\ produced[c] \in Blob /\ n > HostThreshold /\ n \in Lengths /\ produced[c] # Empty
      /\ UNCHANGED <<bucket, from, to, asked, message, ran, produced, result, caller, altered>>
      /\ c \notin relabelled => \A b \in Buckets : store[b][Response(c)] = None
      /\ message[c] \in Message \ {None}
      /\ \A d \in Calls : d # c => callee'[d] = callee[d]
  BY <1>1, BlobFacts, WireAssumption DEF ChunkResponse, CallInv, InOrder, ResponseKept, Types, Lengths
<1>a. i \in Ids /\ (c \notin relabelled => i = c) /\ \A d \in Calls \ {c} : d \notin relabelled => i # d
  BY <1>2, OwnId
<1>3. PICK m \in {Empty, produced[c]} :
        /\ Answer(c, FALSE, m, n)
        /\ \/ m = Empty /\ Put(to[c], Response(i), produced[c]) /\ UNCHANGED <<faults, astray>>
           \/ m = produced[c] /\ store' = store /\ faults' = faults + 1 /\ astray' = astray \cup {c}
  BY DEF ChunkResponse, Chonk, NoFault, Fails
<1>4. /\ store' \in [Buckets -> [Objects -> Blob \cup {None}]]
      /\ \A b \in Buckets, q \in Objects :
           store'[b][q] = IF m = Empty /\ b = bucket[to[c]] /\ q = Response(i)
                          THEN produced[c] ELSE store[b][q]
  <2>1. CASE m = Empty /\ Put(to[c], Response(i), produced[c])
    BY <1>1, <1>2, <1>a, <2>1, PutEffect, ObjectFacts
  <2>2. CASE m = produced[c] /\ store' = store
    BY <1>1, <1>2, <2>2 DEF Types
  <2>3. QED
    BY <1>3, <2>1, <2>2
<1> HIDE DEF i
<1>5. [error |-> FALSE, msg |-> m, content_length |-> n] \in Reply
  BY <1>2, <1>3, BlobFacts DEF Reply
<1>6. /\ answer' \in [Calls -> Reply \cup {None}]
      /\ ~answer'[c].error /\ answer'[c].msg = m /\ answer'[c].content_length = n
      /\ \A d \in Calls : d # c => answer'[d] = answer[d]
  BY <1>1, <1>3, <1>5 DEF Types, Answer
<1>7. astray' \in {astray, astray \cup {c}} /\ faults' \in Nat /\ (m = produced[c] => c \in astray')
  BY <1>1, <1>2, <1>3 DEF Types
<1>8. Types'
  <2>1. astray' \subseteq Calls
        /\ callee' \in [Calls -> {"idle", "accepted", "running", "answering", "done"}]
    BY <1>1, <1>2, <1>7 DEF Types
  <2>2. QED
    BY <1>1, <1>2, <1>4, <1>6, <1>7, <2>1 DEF Types, altered
<1>9. \A d \in Calls \ {c} : Keeps(d)
  BY <1>2, <1>4, <1>6, <1>7, <1>a, ObjectFacts DEF Keeps, altered
<1>10. Answers(c)'
  BY <1>2, <1>3, <1>6 DEF Answers
<1>11. ResponseKept(c)'
  <2>1. bucket[to[c]] # None => bucket[to[c]] \in Buckets
    BY <1>1, <1>2 DEF Types
  <2>2. c \notin relabelled /\ m # produced[c] /\ bucket[to[c]] # None =>
          store'[bucket[to[c]]][Response(c)] = produced[c]
    BY <1>3, <1>4, <1>a, <2>1, ObjectFacts
  <2>3. c \notin relabelled => \A b \in Buckets : store'[b][Response(c)] # None =>
          b = bucket[to[c]] /\ store'[b][Response(c)] = produced[c]
    BY <1>2, <1>4, <1>a, ObjectFacts
  <2>4. QED
    BY <1>2, <1>6, <2>2, <2>3 DEF ResponseKept, altered
<1>12. ResponseGone(c)'
  BY <1>2, <1>3, <1>4, <1>6, <1>7, <1>a, ObjectFacts DEF ResponseGone, Lossy, altered
<1>13. \A b \in Buckets : store'[b][Request(c)] = store[b][Request(c)]
  BY <1>4, <1>a, ObjectFacts
<1>14. Genuine'
  <2>1. Steady
    BY <1>2 DEF Steady, altered
  <2>2. CASE \A b \in Buckets : store'[b][Response(i)] = store[b][Response(i)]
    BY <1>4, <1>a, <2>1, <2>2, GenuineStays, ObjectFacts DEF Inv
  <2>3. CASE m = Empty
    <3>1. SUFFICES ASSUME NEW b \in Buckets, NEW k \in Ids
                   PROVE  /\ store'[b][Request(k)] # None => k \in Calls
                          /\ store'[b][Response(k)] # None =>
                               \E x \in Calls : /\ callee'[x] = "done" /\ message'[x].id = k
                                                /\ store'[b][Response(k)] = produced'[x]
      BY DEF Genuine
    <3>2. store'[b][Request(k)] = store[b][Request(k)]
      BY <1>4, <1>a, ObjectFacts
    <3>3. CASE store'[b][Response(k)] = store[b][Response(k)]
      BY <2>1, <3>2, <3>3 DEF Inv, Genuine, Steady
    <3>4. CASE store'[b][Response(k)] # store[b][Response(k)]
      <4>1. k = i /\ store'[b][Response(k)] = produced[c]
        BY <1>4, <1>a, <3>4, ObjectFacts
      <4>2. message'[c].id = k
        BY <1>2, <4>1 DEF i
      <4>3. store'[b][Request(k)] # None => k \in Calls
        BY <3>2 DEF Inv, Genuine
      <4>4. QED
        BY <1>2, <4>1, <4>2, <4>3
    <3>5. QED
      BY <3>3, <3>4
  <2>4. QED
    BY <1>4, <1>a, <2>2, <2>3, ObjectFacts
<1>15. QED
  BY <1>2, <1>7, <1>8, <1>9, <1>10, <1>11, <1>12, <1>13, <1>14, AnswerInv

LEMMA DieInv ==
  ASSUME Inv, NEW c \in Calls, Die(c)
  PROVE  Inv'
<1>1. CallInv(c) /\ Types
  BY DEF Inv
<1>2. /\ callee[c] \in {"accepted", "running", "answering"} /\ callee'[c] = "done"
      /\ answer[c] = None /\ caller[c] # "ok"
      /\ UNCHANGED <<bucket, store, wire, caller, faults, astray, altered>>
      /\ \A d \in Calls : d # c => callee'[d] = callee[d]
      /\ c \notin relabelled => \A b \in Buckets : store[b][Response(c)] = None
      /\ callee' = [callee EXCEPT ![c] = "done"]
  BY <1>1 DEF Die, CallInv, InOrder, ResponseKept, Types
<1>3. Types'
  BY <1>1, <1>2 DEF Types, wire, altered
<1>4. \A d \in Calls \ {c} : Keeps(d)
  BY <1>2 DEF Keeps, wire, altered
<1>5. Answers(c)' /\ ResponseKept(c)' /\ ResponseGone(c)'
  BY <1>1, <1>2 DEF Answers, ResponseKept, ResponseGone, Served, wire, altered
<1>6. Genuine'
  <2>1. Steady
    BY <1>2 DEF Steady, wire, altered
  <2>2. QED
    BY <1>2, <2>1, GenuineStays DEF Inv
<1>7. QED
  BY <1>2, <1>3, <1>4, <1>5, <1>6, AnswerInv DEF wire

-----------------------------------------------------------------------------

LEMMA StutterInv ==
  ASSUME Inv, UNCHANGED vars
  PROVE  Inv'
<1>1. Types'
  BY DEF vars, wire, altered, Inv, Types
<1>2. Steady /\ \A c \in Calls : Keeps(c)
  BY DEF vars, wire, altered, Keeps, Steady
<1>3. Genuine'
  BY <1>2, GenuineStays DEF Inv, vars
<1>4. QED
  BY <1>1, <1>2, <1>3, OthersKeep DEF Inv

(* Types, the two properties and what they rest on hold throughout, for    *)
(* every call (inv.rs, objstore.rs, ActorModule.perform_invocation).       *)
THEOREM Invariance == Spec => []Inv
<1>1. ASSUME Inv, [Next]_vars
      PROVE  Inv'
  <2>1. ASSUME NEW c \in Calls, Step(c)
        PROVE  Inv'
    BY <1>1, <2>1, GenerateInv, ChunkRequestInv, PublishInv, GiveUpInv, ArriveInv, GarbleInv,
       TakeInv, RunInv, ReturnInv, ChunkResponseInv, DieInv DEF Step
  <2>2. QED
    BY <1>1, <2>1, StutterInv DEF Next
<1>2. QED
  BY <1>1, InitInv, PTL DEF Spec

(* A guest is run on behalf of what the caller's guest is, as the target   *)
(* it asked for, whatever is altered on the way but the claims.  Its body  *)
(* and what the caller is given are what was asked with and returned, or   *)
(* empty where a store failed or is not shared or the body or the length   *)
(* was altered, or of another call if ids were altered                     *)
(* (validate_antiforgery, check_dechunk, check_dechunk_inv).               *)
THEOREM CallsArriveAsSent == Spec => []ArrivesAsSent
<1>1. ASSUME Inv, NEW c \in Calls
      PROVE  RanAsAsked(c) /\ GivenAsProduced(c)
  BY <1>1 DEF Inv, CallInv, Arrives
<1>2. ASSUME NEW c \in Calls, GivenAsProduced(c)
      PROVE  GivenAsReturned(c)
  BY <1>2 DEF GivenAsProduced, GivenAsReturned
<1>3. Inv => ArrivesAsSent
  BY <1>1, <1>2 DEF ArrivesAsSent
<1>4. QED
  BY <1>3, Invariance, PTL

(* A successful call whose bodies could not be lost, and whose message was *)
(* not cut or relabelled, leaves no object in any bucket                   *)
(* (unchonk_from_object_store deletes what it has read).                   *)
THEOREM CallsLeaveNothing == Spec => []NothingLeftBehind
<1>1. Inv => NothingLeftBehind
  BY DEF Inv, CallInv, RequestGone, ResponseGone, NothingLeftBehind
<1>2. QED
  BY <1>1, Invariance, PTL
=============================================================================
