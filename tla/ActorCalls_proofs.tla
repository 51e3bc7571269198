-------------------------- MODULE ActorCalls_proofs --------------------------
(* Safety of ActorCalls for every set of calls, instances, workers and     *)
(* providers: types, wake-ups, routing, and the refinement of CallPromise. *)
EXTENDS ActorCalls, TLAPS

(* The callback of a host call and the thread it blocks: while the         *)
(* callback is under way its token has no value and its guest is blocked.  *)
CallbackOf(c) ==
  /\ task[c] # "none" => guest[c] \in Blocked /\ value[c] = "none"
  /\ value[c] # "none" => guest[c] \in {"locking", "woken"}

(* Whom a host call is for, at each stage of its callback.                 *)
TargetOf(c) ==
  /\ task[c] \in {"none", "dead", "log"} => target[c] = NoOne
  /\ task[c] \in {"queued", "target"} => target[c] \in {"capability", "actor"}
  /\ task[c] = "link" => target[c] \in Providers \cup {"actor", "unknown"}
  /\ task[c] = "send" => target[c] \in Providers \cup {"actor"}
  /\ task[c] = "provider" => target[c] \in Providers
  /\ task[c] = "actor" => target[c] = "actor"

(* The invocation a host call makes is its own, and reserved until then.   *)
ChildOf(c) ==
  /\ child[c] # NoOne => target[c] = "actor" /\ request[child[c]] # "none"
  /\ target[c] = "actor" => child[c] # NoOne
  /\ target[c] = "actor" /\ task[c] # "actor" => request[child[c]] = "reserved"
  /\ \A d \in Calls : child[c] = child[d] /\ child[c] # NoOne => c = d

CallbackOK == \A c \in Calls : CallbackOf(c) /\ TargetOf(c) /\ ChildOf(c)

(* The link found, and the link a lookup would find now, were seen.        *)
SeenOK ==
  \A c \in Calls :
    /\ task[c] \in {"link", "send", "provider"} /\ target[c] \in Providers
         => target[c] \in seen[c]
    /\ target[c] \notin {NoOne, "actor"} /\ link # NoOne => link \in seen[c]

(* An invocation that was made is in at most one place: on the topic, in   *)
(* one mailbox, or with the runtime for one instance.                      *)
Asked(c) == request[c] \notin {"none", "reserved"}

TopicOK == \A c \in topic : Asked(c) /\ guest[c] = "none"

BoxOK ==
  \A i \in Instances : \A k \in 1..Len(box[i]) :
    /\ Asked(box[i][k]) /\ guest[box[i][k]] = "none" /\ box[i][k] \notin topic
    /\ \A j \in Instances : \A l \in 1..Len(box[j]) :
         box[i][k] = box[j][l] => i = j /\ k = l

ServingOK ==
  \A i \in Instances : serving[i] # NoOne =>
    /\ guest[serving[i]] # "none" /\ serving[i] \notin handled
    /\ \A j \in Instances : serving[j] = serving[i] => i = j

GuestOK ==
  \A c \in Calls :
    /\ guest[c] # "none" => Asked(c)
    /\ c \in handled => guest[c] \in Returns
    /\ reply[c] # "none" => request[c] = "waiting"
    /\ reply[c] = "ok" => guest[c] \in {"returned", "failed"}

PlaceOK == TopicOK /\ BoxOK /\ ServingOK /\ GuestOK

Inv == TypeOK /\ CallbackOK /\ SeenOK /\ PlaceOK

-----------------------------------------------------------------------------
(* The next-state relation, one disjunct per action.                       *)
LEMMA NextCases ==
  ASSUME [Next]_vars
  PROVE  \/ \E c \in Calls :
              \/ Ask(c) \/ Arrive(c) \/ RequestFails(c) \/ Deliver(c) \/ GiveUp(c)
              \/ CallActor(c) \/ (\E w \in Workers : Run(c, w)) \/ Finish(c) \/ Returned(c)
              \/ HostCall(c) \/ Check(c) \/ Spurious(c)
              \/ WriteLog(c) \/ StartTask(c) \/ IdentifyTarget(c) \/ VerifyLink(c)
              \/ Perform(c) \/ Unpack(c) \/ Raise(c)
         \/ \E i \in Instances : Take(i) \/ ServeTimeout(i) \/ Restart(i)
         \/ ChangeLink
         \/ UNCHANGED vars
BY DEF Next, Requester, Rpc, Runtime, Handle, Callback, Instance, Quiet

-----------------------------------------------------------------------------
(* Type correctness *)

LEMMA TypeInit == Init => TypeOK
BY CallsAssumption DEF Init, TypeOK, OrNone, GuestStates, TaskStates, Targets, OnThread, Blocked,
   LiveTask, Returns

LEMMA RespondType ==
  ASSUME TypeOK, NEW c \in Calls, NEW r \in {"ok", "error"}, Respond(c, r)
  PROVE  patient' \subseteq Calls /\ reply' \in [Calls -> OrNone({"ok", "error"})]
BY DEF TypeOK, Respond, Reply, OrNone

LEMMA EndTaskType ==
  ASSUME TypeOK, NEW c \in Calls, NEW s \in TaskStates, EndTask(c, s)
  PROVE  /\ task' \in [Calls -> TaskStates] /\ target' \in [Calls -> Targets]
         /\ child' \in [Calls -> Calls \cup {NoOne}] /\ seen' \in [Calls -> SUBSET Providers]
BY DEF TypeOK, EndTask, ToTask, Targets

LEMMA AnswerType ==
  ASSUME TypeOK, NEW c \in Calls, NEW v \in {"true", "false"}, AnswerToken(c, v)
  PROVE  /\ value' \in [Calls -> OrNone({"true", "false"})]
         /\ guest' \in [Calls -> GuestStates]
         /\ EndTask(c, "none") /\ "none" \in TaskStates
BY DEF TypeOK, AnswerToken, SetValue, OrNone, GuestStates, OnThread, Blocked, TaskStates

LEMMA TypeNext == TypeOK /\ CallbackOK /\ [Next]_vars => TypeOK'
<1> SUFFICES ASSUME TypeOK, CallbackOK, [Next]_vars PROVE TypeOK'
  OBVIOUS
<1>g. {"none", "asked", "spawned", "panicked", "running", "locking", "waiting", "woken",
       "returned", "failed", "trapped"} \subseteq GuestStates
  BY DEF GuestStates, OnThread, Blocked, Returns
<1>t. {"none", "dead", "log", "queued", "target", "link", "send", "provider", "actor"}
        \subseteq TaskStates
  BY DEF TaskStates, LiveTask
<1>w. {NoOne, "capability", "actor", "unknown"} \cup Providers \subseteq Targets
  BY DEF Targets
<1> USE DEF TypeOK, OrNone, elixir, native, callback, links
<1>1. ASSUME NEW c \in Calls, Ask(c) PROVE TypeOK'
  BY <1>1 DEF Ask, Publish
<1>2. ASSUME NEW c \in Calls, Arrive(c) PROVE TypeOK'
  BY <1>2 DEF Arrive
<1>3. ASSUME NEW c \in Calls, RequestFails(c) PROVE TypeOK'
  BY <1>3 DEF RequestFails
<1>4. ASSUME NEW c \in Calls, Deliver(c) PROVE TypeOK'
  <2>1. CASE up = {} /\ Reply(c, "error") /\ UNCHANGED <<patient, box>>
    BY <1>4, <2>1 DEF Deliver, Reply
  <2>2. ASSUME NEW i \in up, box' = [box EXCEPT ![i] = Append(@, c)],
               patient' = patient \cup {c}, reply' = reply
        PROVE  TypeOK'
    <3>1. box' \in [Instances -> Seq(Calls)]
      BY <2>2
    <3> QED BY <1>4, <2>2, <3>1 DEF Deliver
  <2> QED BY <1>4, <2>1, <2>2 DEF Deliver
<1>5. ASSUME NEW c \in Calls, GiveUp(c) PROVE TypeOK'
  BY <1>5 DEF GiveUp, Reply
<1>6. ASSUME NEW i \in Instances, Take(i) PROVE TypeOK'
  <2>1. box[i] \in Seq(Calls) /\ box[i] # <<>>
    BY <1>6 DEF Take
  <2>2. Head(box[i]) \in Calls /\ Tail(box[i]) \in Seq(Calls)
    BY <2>1
  <2>3. box' \in [Instances -> Seq(Calls)]
    BY <1>6, <2>2 DEF Take
  <2>4. CASE Respond(Head(box[i]), "error") /\ UNCHANGED <<serving, guest>>
    BY <1>6, <2>2, <2>3, <2>4, RespondType DEF Take
  <2>5. CASE /\ serving' = [serving EXCEPT ![i] = Head(box[i])]
             /\ guest' = [guest EXCEPT ![Head(box[i])] = "asked"]
             /\ UNCHANGED <<patient, reply>>
    BY <1>6, <2>2, <2>3, <2>5, <1>g DEF Take
  <2> QED BY <1>6, <2>4, <2>5 DEF Take
<1>7. ASSUME NEW i \in Instances, ServeTimeout(i) PROVE TypeOK'
  BY <1>7 DEF ServeTimeout
<1>8. ASSUME NEW i \in Instances, Restart(i) PROVE TypeOK'
  BY <1>8 DEF Restart
<1>9. ASSUME NEW c \in Calls, CallActor(c) PROVE TypeOK'
  BY <1>9, <1>g DEF CallActor
<1>10. ASSUME NEW c \in Calls, NEW w \in Workers, Run(c, w) PROVE TypeOK'
  BY <1>10, <1>g DEF Run
<1>11. ASSUME NEW c \in Calls, Finish(c) PROVE TypeOK'
  BY <1>11, <1>g DEF Finish, Returns
<1>12. ASSUME NEW c \in Calls, Returned(c) PROVE TypeOK'
  <2>1. Response(guest[c]) \in {"ok", "error"}
    BY DEF Response
  <2>2. patient' \subseteq Calls /\ reply' \in [Calls -> OrNone({"ok", "error"})]
    BY <1>12, <2>1, RespondType DEF Returned
  <2> QED BY <1>12, <2>2 DEF Returned
<1>13. ASSUME NEW c \in Calls, HostCall(c) PROVE TypeOK'
  <2>1. guest' \in [Calls -> GuestStates] /\ value' \in [Calls -> OrNone({"true", "false"})]
    BY <1>13, <1>g DEF HostCall
  <2>2. used' \in [Calls -> Nat]
    BY <1>13 DEF HostCall
  <2>3. task' \in [Calls -> TaskStates]
    BY <1>13, <1>t DEF HostCall
  <2>4. target' \in [Calls -> Targets]
    BY <1>13, <1>w DEF HostCall
  <2>5. child' \in [Calls -> Calls \cup {NoOne}]
    BY <1>13 DEF HostCall
  <2>7. seen' \in [Calls -> SUBSET Providers]
    <3>1. {link} \ {NoOne} \in SUBSET Providers
      OBVIOUS
    <3>2. seen' = seen \/ seen' = [seen EXCEPT ![c] = {link} \ {NoOne}]
      BY <1>13 DEF HostCall
    <3> QED BY <3>1, <3>2
  <2>6. request' \in [Calls -> {"none", "reserved", "waiting", "ok", "error"}]
    BY <1>13 DEF HostCall
  <2> QED BY <1>13, <2>1, <2>2, <2>3, <2>4, <2>5, <2>6, <2>7 DEF HostCall
<1>14. ASSUME NEW c \in Calls, Check(c) PROVE TypeOK'
  BY <1>14, <1>g DEF Check
<1>15. ASSUME NEW c \in Calls, Spurious(c) PROVE TypeOK'
  BY <1>15, <1>g DEF Spurious
<1>16. ASSUME NEW c \in Calls, WriteLog(c) PROVE TypeOK'
  BY <1>16, AnswerType, EndTaskType DEF WriteLog
<1>17. ASSUME NEW c \in Calls, StartTask(c) PROVE TypeOK'
  BY <1>17, <1>t DEF StartTask, ToTask
<1>18. ASSUME NEW c \in Calls, IdentifyTarget(c) PROVE TypeOK'
  BY <1>18, <1>t, <1>w DEF IdentifyTarget, ToTask
<1>19. ASSUME NEW c \in Calls, VerifyLink(c) PROVE TypeOK'
  <2>1. CASE ToTask(c, "send") /\ UNCHANGED <<value, guest, target, child, seen>>
    BY <1>19, <2>1, <1>t DEF VerifyLink, ToTask
  <2>2. CASE AnswerToken(c, "false")
    BY <1>19, <2>2, AnswerType, EndTaskType DEF VerifyLink
  <2> QED BY <1>19, <2>1, <2>2 DEF VerifyLink
<1>20. ASSUME NEW c \in Calls, Perform(c) PROVE TypeOK'
  <2>1. target[c] = "actor" => child[c] \in Calls
    BY <1>20 DEF CallbackOK, ChildOf
  <2>2. CASE target[c] = "actor" /\ ToTask(c, "actor") /\ Publish(child[c])
    BY <1>20, <2>1, <2>2, <1>t DEF Perform, ToTask, Publish
  <2>3. CASE ToTask(c, "provider") /\ UNCHANGED <<request, topic>>
    BY <1>20, <2>3, <1>t DEF Perform, ToTask
  <2> QED BY <1>20, <2>2, <2>3 DEF Perform
<1>21. ASSUME NEW c \in Calls, Unpack(c) PROVE TypeOK'
  <2>1. \E v \in {"true", "false"} : AnswerToken(c, v)
    BY <1>21 DEF Unpack
  <2> QED BY <1>21, <2>1, AnswerType, EndTaskType DEF Unpack
<1>22. ASSUME NEW c \in Calls, Raise(c) PROVE TypeOK'
  <2>1. CASE AnswerToken(c, "false")
    BY <1>22, <2>1, AnswerType, EndTaskType DEF Raise
  <2>2. CASE EndTask(c, "dead") /\ UNCHANGED <<value, guest>>
    BY <1>22, <2>2, <1>t, EndTaskType DEF Raise
  <2> QED BY <1>22, <2>1, <2>2 DEF Raise
<1>23. ASSUME ChangeLink PROVE TypeOK'
  BY <1>23 DEF ChangeLink
<1>24. ASSUME UNCHANGED vars PROVE TypeOK'
  BY <1>24 DEF vars
<1> QED
  BY <1>1, <1>2, <1>3, <1>4, <1>5, <1>6, <1>7, <1>8, <1>9, <1>10, <1>11, <1>12,
     <1>13, <1>14, <1>15, <1>16, <1>17, <1>18, <1>19, <1>20, <1>21, <1>22, <1>23, <1>24,
     NextCases

-----------------------------------------------------------------------------
(* Callbacks *)

(* A step outside the callbacks: a blocked guest stays, a reserved         *)
(* invocation stays reserved.                                              *)
LEMMA CallbackKept ==
  ASSUME TypeOK, CallbackOK, callback' = callback,
         \A d \in Calls : guest[d] \in Blocked => guest'[d] = guest[d],
         \A d \in Calls : request[d] # "none" => request'[d] # "none",
         \A d \in Calls : request[d] = "reserved" => request'[d] = "reserved"
  PROVE  CallbackOK'
<1> SUFFICES ASSUME NEW c \in Calls PROVE CallbackOf(c)' /\ TargetOf(c)' /\ ChildOf(c)'
  BY DEF CallbackOK
<1>1. CallbackOf(c) /\ TargetOf(c) /\ ChildOf(c) /\ child[c] \in Calls \cup {NoOne}
  BY DEF CallbackOK, TypeOK
<1>2. CallbackOf(c)'
  BY <1>1 DEF CallbackOf, callback, Blocked
<1>3. TargetOf(c)'
  BY <1>1 DEF TargetOf, callback
<1>4. ChildOf(c)'
  BY <1>1 DEF ChildOf, callback
<1> QED BY <1>2, <1>3, <1>4

(* The callback of c ends, with or without an answer.                      *)
LEMMA CallbackEnds ==
  ASSUME TypeOK, CallbackOK, NEW c \in Calls, task[c] # "none", request' = request,
         \/ \E v \in {"true", "false"} : AnswerToken(c, v)
         \/ EndTask(c, "dead") /\ UNCHANGED <<value, guest>>
  PROVE  CallbackOK'
<1> SUFFICES ASSUME NEW d \in Calls PROVE CallbackOf(d)' /\ TargetOf(d)' /\ ChildOf(d)'
  BY DEF CallbackOK
<1> USE CallsAssumption
<1>1. /\ CallbackOf(c) /\ TargetOf(c) /\ ChildOf(c)
      /\ CallbackOf(d) /\ TargetOf(d) /\ ChildOf(d) /\ child[d] \in Calls \cup {NoOne}
  BY DEF CallbackOK, TypeOK
<1>2. CallbackOf(d)'
  BY <1>1 DEF CallbackOf, Blocked, AnswerToken, SetValue, EndTask, ToTask, TypeOK
<1>3. target' = [target EXCEPT ![c] = NoOne] /\ child' = [child EXCEPT ![c] = NoOne]
  BY DEF AnswerToken, EndTask
<1>4. task' = [task EXCEPT ![c] = "none"] \/ task' = [task EXCEPT ![c] = "dead"]
  BY DEF AnswerToken, EndTask, ToTask
<1>5. TargetOf(d)'
  BY <1>1, <1>3, <1>4 DEF TargetOf, TypeOK
<1>6. ChildOf(d)'
  BY <1>1, <1>3, <1>4 DEF ChildOf, TypeOK
<1> QED BY <1>2, <1>5, <1>6

LEMMA CallbackStarts ==
  ASSUME TypeOK, CallbackOK, NEW c \in Calls, HostCall(c)
  PROVE  CallbackOK'
<1> SUFFICES ASSUME NEW d \in Calls PROVE CallbackOf(d)' /\ TargetOf(d)' /\ ChildOf(d)'
  BY DEF CallbackOK
<1> USE CallsAssumption
<1>1. /\ CallbackOf(c) /\ TargetOf(c) /\ ChildOf(c)
      /\ CallbackOf(d) /\ TargetOf(d) /\ ChildOf(d) /\ child[d] \in Calls \cup {NoOne}
  BY DEF CallbackOK, TypeOK
<1>2. task[c] = "none" /\ target[c] = NoOne /\ child[c] = NoOne
  BY <1>1 DEF HostCall, CallbackOf, TargetOf, ChildOf, Blocked
<1>3. CallbackOf(d)'
  BY <1>1, <1>2 DEF HostCall, CallbackOf, Blocked, TypeOK
<1>4. CASE task' = [task EXCEPT ![c] = "log"] /\ UNCHANGED <<request, target, child, seen>>
  <2>1. TargetOf(d)'
    BY <1>1, <1>2, <1>4 DEF TargetOf, TypeOK
  <2>2. ChildOf(d)'
    BY <1>1, <1>2, <1>4 DEF ChildOf, TypeOK
  <2> QED BY <1>3, <2>1, <2>2
<1>5. CASE /\ task' = [task EXCEPT ![c] = "queued"]
           /\ target' = [target EXCEPT ![c] = "capability"]
           /\ UNCHANGED <<request, child>>
  <2>1. TargetOf(d)'
    BY <1>1, <1>2, <1>5 DEF TargetOf, TypeOK
  <2>2. ChildOf(d)'
    BY <1>1, <1>2, <1>5 DEF ChildOf, TypeOK
  <2> QED BY <1>3, <2>1, <2>2
<1>6. ASSUME NEW e \in Calls, request[e] = "none", child' = [child EXCEPT ![c] = e],
             request' = [request EXCEPT ![e] = "reserved"],
             task' = [task EXCEPT ![c] = "queued"], target' = [target EXCEPT ![c] = "actor"]
      PROVE  TargetOf(d)' /\ ChildOf(d)'
  <2>1. TargetOf(d)'
    BY <1>1, <1>2, <1>6 DEF TargetOf, TypeOK
  <2>2. \A f \in Calls : child[f] # e
    BY <1>6 DEF CallbackOK, ChildOf
  <2>3. ChildOf(d)'
    BY <1>1, <1>2, <1>6, <2>2 DEF ChildOf, TypeOK
  <2> QED BY <2>1, <2>3
<1> QED BY <1>3, <1>4, <1>5, <1>6 DEF HostCall

(* The callback of c goes on.                                              *)
LEMMA CallbackGoesOn ==
  ASSUME TypeOK, CallbackOK, NEW c \in Calls,
         \/ StartTask(c) \/ IdentifyTarget(c) \/ Perform(c)
         \/ VerifyLink(c) /\ ToTask(c, "send") /\ UNCHANGED <<value, guest, target, child>>
  PROVE  CallbackOK'
<1> SUFFICES ASSUME NEW d \in Calls PROVE CallbackOf(d)' /\ TargetOf(d)' /\ ChildOf(d)'
  BY DEF CallbackOK
<1> USE CallsAssumption DEF TypeOK, ToTask, native, callback
<1>1. /\ CallbackOf(c) /\ TargetOf(c) /\ ChildOf(c)
      /\ CallbackOf(d) /\ TargetOf(d) /\ ChildOf(d) /\ child[d] \in Calls \cup {NoOne}
  BY DEF CallbackOK
<1>2. CallbackOf(d)'
  BY <1>1 DEF CallbackOf, StartTask, IdentifyTarget, Perform, VerifyLink
<1>3. CASE StartTask(c)
  <2>1. TargetOf(d)'
    BY <1>1, <1>3 DEF TargetOf, StartTask
  <2>2. ChildOf(d)'
    BY <1>1, <1>3 DEF ChildOf, StartTask
  <2> QED BY <1>2, <2>1, <2>2
<1>4. CASE IdentifyTarget(c)
  <2>1. TargetOf(d)'
    BY <1>1, <1>4 DEF TargetOf, IdentifyTarget
  <2>2. ChildOf(d)'
    BY <1>1, <1>4 DEF ChildOf, TargetOf, IdentifyTarget
  <2> QED BY <1>2, <2>1, <2>2
<1>5. CASE VerifyLink(c) /\ ToTask(c, "send") /\ UNCHANGED <<value, guest, target, child>>
  <2>1. TargetOf(d)'
    BY <1>1, <1>5 DEF TargetOf, VerifyLink, EndTask, AnswerToken
  <2>2. ChildOf(d)'
    BY <1>1, <1>5 DEF ChildOf, VerifyLink
  <2> QED BY <1>2, <2>1, <2>2
<1>6. CASE Perform(c)
  <2>1. CASE target[c] = "actor" /\ ToTask(c, "actor") /\ Publish(child[c])
    <3>1. child[c] \in Calls /\ request[child[c]] = "reserved"
      BY <1>1, <1>6, <2>1 DEF ChildOf, Perform
    <3>2. TargetOf(d)'
      BY <1>1, <1>6, <2>1 DEF TargetOf, Perform
    <3>3. ChildOf(d)'
      BY <1>1, <1>6, <2>1, <3>1 DEF ChildOf, Perform, Publish
    <3> QED BY <1>2, <3>2, <3>3
  <2>2. CASE target[c] \in Providers /\ ToTask(c, "provider") /\ UNCHANGED <<request, topic>>
    <3>1. TargetOf(d)'
      BY <1>1, <1>6, <2>2 DEF TargetOf, Perform
    <3>2. ChildOf(d)'
      BY <1>1, <1>6, <2>2 DEF ChildOf, Perform
    <3> QED BY <1>2, <3>1, <3>2
  <2> QED BY <1>6, <2>1, <2>2 DEF Perform
<1> QED BY <1>3, <1>4, <1>5, <1>6

LEMMA CallbackNext == TypeOK /\ CallbackOK /\ PlaceOK /\ [Next]_vars => CallbackOK'
<1> SUFFICES ASSUME TypeOK, CallbackOK, PlaceOK, [Next]_vars PROVE CallbackOK'
  OBVIOUS
<1> USE DEF native, callback
<1>1. ASSUME NEW c \in Calls, Ask(c) \/ RequestFails(c) PROVE CallbackOK'
  BY <1>1, CallbackKept DEF Ask, RequestFails, Publish, TypeOK
<1>2. ASSUME NEW c \in Calls, Arrive(c) PROVE CallbackOK'
  <2>1. request[c] = "waiting" /\ reply[c] \in {"ok", "error"}
    BY <1>2 DEF Arrive, PlaceOK, GuestOK, TypeOK, OrNone
  <2> QED BY <1>2, <2>1, CallbackKept DEF Arrive, TypeOK
<1>3. ASSUME NEW c \in Calls, Deliver(c) \/ GiveUp(c) \/ Returned(c) PROVE CallbackOK'
  BY <1>3, CallbackKept DEF Deliver, GiveUp, Returned
<1>4. ASSUME NEW i \in Instances, Take(i) PROVE CallbackOK'
  <2>1. box[i] \in Seq(Calls) /\ box[i] # <<>>
    BY <1>4 DEF Take, TypeOK
  <2>2. 1 \in 1..Len(box[i]) /\ Head(box[i]) = box[i][1]
    BY <2>1
  <2>3. guest[Head(box[i])] = "none"
    BY <2>2 DEF PlaceOK, BoxOK
  <2>4. \A d \in Calls : guest[d] \in Blocked => guest'[d] = guest[d]
    BY <1>4, <2>3 DEF Take, Blocked, TypeOK
  <2> QED BY <1>4, <2>4, CallbackKept DEF Take
<1>5. ASSUME NEW i \in Instances, ServeTimeout(i) \/ Restart(i) PROVE CallbackOK'
  BY <1>5, CallbackKept DEF ServeTimeout, Restart
<1>6. ASSUME NEW c \in Calls, CallActor(c) \/ (\E w \in Workers : Run(c, w)) \/ Finish(c)
      PROVE  CallbackOK'
  <2>1. \A d \in Calls : guest[d] \in Blocked => guest'[d] = guest[d]
    BY <1>6 DEF CallActor, Run, Finish, Blocked, TypeOK
  <2> QED BY <1>6, <2>1, CallbackKept DEF CallActor, Run, Finish
<1>7. ASSUME NEW c \in Calls, HostCall(c) PROVE CallbackOK'
  BY <1>7, CallbackStarts
<1>8. ASSUME NEW c \in Calls, Check(c) \/ Spurious(c) PROVE CallbackOK'
  <2> SUFFICES ASSUME NEW d \in Calls PROVE CallbackOf(d)' /\ TargetOf(d)' /\ ChildOf(d)'
    BY DEF CallbackOK
  <2>1. CallbackOf(c) /\ CallbackOf(d) /\ TargetOf(d) /\ ChildOf(d)
    BY DEF CallbackOK
  <2>2. CallbackOf(d)'
    BY <1>8, <2>1 DEF CallbackOf, Check, Spurious, Blocked, TypeOK
  <2>3. TargetOf(d)'
    BY <1>8, <2>1 DEF TargetOf, Check, Spurious
  <2>4. ChildOf(d)'
    BY <1>8, <2>1 DEF ChildOf, Check, Spurious
  <2> QED BY <2>2, <2>3, <2>4
<1>9. ASSUME NEW c \in Calls, WriteLog(c) \/ Unpack(c) \/ Raise(c) PROVE CallbackOK'
  BY <1>9, CallbackEnds DEF WriteLog, Unpack, Raise, LiveTask
<1>10. ASSUME NEW c \in Calls, StartTask(c) \/ IdentifyTarget(c) \/ Perform(c) PROVE CallbackOK'
  BY <1>10, CallbackGoesOn
<1>11. ASSUME NEW c \in Calls, VerifyLink(c) PROVE CallbackOK'
  BY <1>11, CallbackGoesOn, CallbackEnds DEF VerifyLink
<1>12. ASSUME ChangeLink PROVE CallbackOK'
  BY <1>12, CallbackKept DEF ChangeLink
<1>13. ASSUME UNCHANGED vars PROVE CallbackOK'
  BY <1>13, CallbackKept DEF vars
<1> QED
  BY <1>1, <1>2, <1>3, <1>4, <1>5, <1>6, <1>7, <1>8, <1>9, <1>10, <1>11, <1>12, <1>13, NextCases

-----------------------------------------------------------------------------
(* Routing *)

(* A step that changes no link and no target.                              *)
LEMMA SeenKept ==
  ASSUME SeenOK, links' = links, target' = target,
         \A c \in Calls : task'[c] = task[c] \/ target[c] \notin Providers
                         \/ task[c] \in {"link", "send"}
  PROVE  SeenOK'
BY DEF SeenOK, links

LEMMA SeenEnds ==
  ASSUME TypeOK, SeenOK, NEW c \in Calls, link' = link,
         \E s \in {"none", "dead"} : EndTask(c, s)
  PROVE  SeenOK'
BY CallsAssumption DEF SeenOK, EndTask, ToTask, TypeOK

LEMMA SeenNext == TypeOK /\ CallbackOK /\ SeenOK /\ [Next]_vars => SeenOK'
<1> SUFFICES ASSUME TypeOK, CallbackOK, SeenOK, [Next]_vars PROVE SeenOK'
  OBVIOUS
<1> USE CallsAssumption DEF native, callback
<1>1. ASSUME NEW c \in Calls,
             \/ Ask(c) \/ Arrive(c) \/ RequestFails(c) \/ Deliver(c) \/ GiveUp(c)
             \/ CallActor(c) \/ (\E w \in Workers : Run(c, w)) \/ Finish(c) \/ Returned(c)
             \/ Check(c) \/ Spurious(c)
      PROVE  SeenOK'
  BY <1>1, SeenKept DEF Ask, Arrive, RequestFails, Deliver, GiveUp, CallActor, Run, Finish,
     Returned, Check, Spurious
<1>2. ASSUME NEW i \in Instances, Take(i) \/ ServeTimeout(i) \/ Restart(i) PROVE SeenOK'
  BY <1>2, SeenKept DEF Take, ServeTimeout, Restart
<1>3. ASSUME NEW c \in Calls, HostCall(c) PROVE SeenOK'
  <2>1. task[c] = "none" /\ target[c] = NoOne
    BY <1>3 DEF HostCall, CallbackOK, CallbackOf, TargetOf, Blocked
  <2>2. CASE UNCHANGED <<target, seen>> /\ task' = [task EXCEPT ![c] = "log"]
    BY <1>3, <2>1, <2>2 DEF HostCall, SeenOK, TypeOK
  <2>3. CASE /\ task' = [task EXCEPT ![c] = "queued"]
             /\ target' = [target EXCEPT ![c] = "capability"]
             /\ seen' = [seen EXCEPT ![c] = {link} \ {NoOne}]
    BY <1>3, <2>1, <2>3 DEF HostCall, SeenOK, TypeOK
  <2>4. CASE /\ task' = [task EXCEPT ![c] = "queued"]
             /\ target' = [target EXCEPT ![c] = "actor"] /\ UNCHANGED seen
    BY <1>3, <2>1, <2>4 DEF HostCall, SeenOK, TypeOK
  <2> QED BY <1>3, <2>2, <2>3, <2>4 DEF HostCall
<1>4. ASSUME NEW c \in Calls, WriteLog(c) \/ Unpack(c) \/ Raise(c) PROVE SeenOK'
  BY <1>4, SeenEnds DEF WriteLog, Unpack, Raise, AnswerToken
<1>5. ASSUME NEW c \in Calls, StartTask(c) PROVE SeenOK'
  BY <1>5 DEF StartTask, ToTask, SeenOK, links, TypeOK
<1>6. ASSUME NEW c \in Calls, IdentifyTarget(c) PROVE SeenOK'
  <2>1. target[c] \in {"capability", "actor"}
    BY <1>6 DEF IdentifyTarget, CallbackOK, TargetOf
  <2> QED BY <1>6, <2>1 DEF IdentifyTarget, ToTask, SeenOK, links, TypeOK
<1>7. ASSUME NEW c \in Calls, VerifyLink(c) PROVE SeenOK'
  <2>1. CASE ToTask(c, "send") /\ UNCHANGED <<target, seen>>
    BY <1>7, <2>1 DEF VerifyLink, ToTask, SeenOK, TypeOK
  <2>2. CASE AnswerToken(c, "false")
    BY <1>7, <2>2, SeenEnds DEF VerifyLink, AnswerToken
  <2> QED BY <1>7, <2>1, <2>2 DEF VerifyLink
<1>8. ASSUME NEW c \in Calls, Perform(c) PROVE SeenOK'
  BY <1>8 DEF Perform, ToTask, SeenOK, links, TypeOK
<1>9. ASSUME ChangeLink PROVE SeenOK'
  BY <1>9 DEF ChangeLink, SeenOK, TypeOK
<1>10. ASSUME UNCHANGED vars PROVE SeenOK'
  BY <1>10 DEF vars, SeenOK, links
<1> QED
  BY <1>1, <1>2, <1>3, <1>4, <1>5, <1>6, <1>7, <1>8, <1>9, <1>10, NextCases

-----------------------------------------------------------------------------
(* Where an invocation is *)

(* A step that moves no invocation and publishes no reply.                 *)
LEMMA PlaceKept ==
  ASSUME TypeOK, PlaceOK, UNCHANGED <<topic, box, serving, handled, reply>>,
         \A d \in Calls : \/ request'[d] = request[d]
                          \/ request[d] = "none" /\ request'[d] = "reserved",
         \A d \in Calls : /\ guest'[d] = "none" <=> guest[d] = "none"
                          /\ guest[d] \in Returns => guest'[d] = guest[d]
  PROVE  PlaceOK'
<1>1. TopicOK'
  BY DEF PlaceOK, TopicOK, Asked, TypeOK
<1>2. BoxOK'
  <2>1. \A i \in Instances : \A k \in 1..Len(box[i]) : box[i][k] \in Calls
    BY DEF TypeOK
  <2> QED BY <2>1 DEF PlaceOK, BoxOK, Asked
<1>3. ServingOK'
  BY CallsAssumption DEF PlaceOK, ServingOK, TypeOK
<1>4. GuestOK'
  BY DEF PlaceOK, GuestOK, Asked, Returns
<1> QED BY <1>1, <1>2, <1>3, <1>4 DEF PlaceOK

(* An invocation is made: it was nowhere.                                  *)
LEMMA PlacePublished ==
  ASSUME TypeOK, PlaceOK, NEW d \in Calls, ~Asked(d), Publish(d),
         UNCHANGED <<reply, box, serving, guest, handled>>
  PROVE  PlaceOK'
<1>1. guest[d] = "none" /\ reply[d] = "none"
  BY DEF PlaceOK, GuestOK, Asked
<1>2. TopicOK'
  BY <1>1 DEF PlaceOK, TopicOK, Asked, Publish, TypeOK
<1>3. BoxOK'
  <2>1. \A i \in Instances : \A k \in 1..Len(box[i]) : box[i][k] \in Calls /\ box[i][k] # d
    BY DEF TypeOK, PlaceOK, BoxOK
  <2> QED BY <2>1 DEF PlaceOK, BoxOK, Asked, Publish, TypeOK
<1>4. ServingOK' /\ GuestOK'
  BY <1>1 DEF PlaceOK, ServingOK, GuestOK, Asked, Publish, TypeOK
<1> QED BY <1>2, <1>3, <1>4 DEF PlaceOK

(* A requester has its answer.                                             *)
LEMMA PlaceAnswered ==
  ASSUME TypeOK, PlaceOK, NEW d \in Calls, request[d] = "waiting",
         NEW r \in {"ok", "error"}, request' = [request EXCEPT ![d] = r],
         reply' = [reply EXCEPT ![d] = "none"],
         UNCHANGED <<topic, box, serving, guest, handled>>
  PROVE  PlaceOK'
<1>1. \A c \in Calls : Asked(c) => Asked(c)'
  BY DEF Asked, TypeOK
<1>2. \A i \in Instances : \A k \in 1..Len(box[i]) : box[i][k] \in Calls
  BY DEF TypeOK
<1>3. TopicOK' /\ BoxOK'
  BY <1>1, <1>2 DEF PlaceOK, TopicOK, BoxOK, TypeOK
<1>4. ServingOK' /\ GuestOK'
  BY <1>1 DEF PlaceOK, ServingOK, GuestOK, TypeOK
<1> QED BY <1>3, <1>4 DEF PlaceOK

(* What a published reply promises.                                        *)
LEMMA ReplyPromise ==
  ASSUME TypeOK, GuestOK, NEW c \in Calls, NEW r \in {"ok", "error"},
         r = "ok" => guest[c] \in {"returned", "failed"},
         Reply(c, r) \/ UNCHANGED reply
  PROVE  \A d \in Calls : /\ reply'[d] # "none" => request[d] = "waiting"
                          /\ reply'[d] = "ok" => guest[d] \in {"returned", "failed"}
BY DEF GuestOK, Reply, TypeOK

LEMMA PlaceDeliver ==
  ASSUME TypeOK, PlaceOK, NEW c \in Calls, Deliver(c)
  PROVE  PlaceOK'
<1>1. UNCHANGED <<request, serving, guest, handled>> /\ c \in topic /\ topic' = topic \ {c}
  BY DEF Deliver, native
<1>2. GuestOK'
  <2>1. \A d \in Calls : /\ reply'[d] # "none" => request[d] = "waiting"
                         /\ reply'[d] = "ok" => guest[d] \in {"returned", "failed"}
    BY ReplyPromise DEF Deliver, PlaceOK
  <2> QED BY <1>1, <2>1 DEF PlaceOK, GuestOK, Asked
<1>3. TopicOK' /\ ServingOK'
  BY <1>1 DEF PlaceOK, TopicOK, ServingOK, Asked
<1>4. CASE box' = box
  BY <1>1, <1>2, <1>3, <1>4 DEF PlaceOK, BoxOK, Asked
<1>5. ASSUME NEW h \in up, box' = [box EXCEPT ![h] = Append(@, c)] PROVE BoxOK'
  <2>1. h \in Instances /\ box[h] \in Seq(Calls)
    BY DEF TypeOK
  <2>2. /\ Len(box'[h]) = Len(box[h]) + 1 /\ box'[h][Len(box[h]) + 1] = c
        /\ \A k \in 1..Len(box[h]) : box'[h][k] = box[h][k]
    BY <1>5, <2>1 DEF TypeOK
  <2>3. \A i \in Instances \ {h} : box'[i] = box[i]
    BY <1>5, <2>1 DEF TypeOK
  <2>4. \A i \in Instances : \A k \in 1..Len(box[i]) : box[i][k] # c
    BY <1>1 DEF PlaceOK, BoxOK
  <2>5. \A i \in Instances : \A k \in 1..Len(box'[i]) :
          \/ k \in 1..Len(box[i]) /\ box'[i][k] = box[i][k]
          \/ i = h /\ k = Len(box[h]) + 1 /\ box'[i][k] = c
    BY <2>1, <2>2, <2>3
  <2>6. Asked(c) /\ guest[c] = "none"
    BY <1>1 DEF PlaceOK, TopicOK
  <2>7. ASSUME NEW i \in Instances, NEW k \in 1..Len(box'[i])
        PROVE  Asked(box'[i][k]) /\ guest[box'[i][k]] = "none" /\ box'[i][k] \notin topic'
    BY <1>1, <2>5, <2>6 DEF PlaceOK, BoxOK
  <2>8. ASSUME NEW i \in Instances, NEW k \in 1..Len(box'[i]),
               NEW j \in Instances, NEW l \in 1..Len(box'[j]), box'[i][k] = box'[j][l]
        PROVE  i = j /\ k = l
    BY <2>4, <2>5, <2>8 DEF PlaceOK, BoxOK
  <2> QED BY <1>1, <2>7, <2>8 DEF BoxOK, Asked
<1> QED BY <1>2, <1>3, <1>4, <1>5 DEF Deliver, PlaceOK

LEMMA PlaceTake ==
  ASSUME TypeOK, PlaceOK, NEW i \in Instances, Take(i)
  PROVE  PlaceOK'
<1> DEFINE c == Head(box[i])
<1>1. box[i] \in Seq(Calls) /\ box[i] # <<>> /\ box' = [box EXCEPT ![i] = Tail(@)]
  BY DEF Take, TypeOK
<1>2. /\ c \in Calls /\ 1 \in 1..Len(box[i]) /\ box[i][1] = c
      /\ Len(Tail(box[i])) = Len(box[i]) - 1
      /\ \A k \in 1..Len(Tail(box[i])) : Tail(box[i])[k] = box[i][k + 1] /\ k + 1 \in 1..Len(box[i])
  BY <1>1
<1>3. Asked(c) /\ guest[c] = "none" /\ c \notin topic
  BY <1>2 DEF PlaceOK, BoxOK
<1>4. UNCHANGED <<request, topic, handled>>
  BY DEF Take
<1>5. \A j \in Instances : \A k \in 1..Len(box'[j]) :
        \E l \in 1..Len(box[j]) : /\ box'[j][k] = box[j][l] /\ box[j][l] # c
                                  /\ l = IF i = j THEN k + 1 ELSE k
  <2>1. ASSUME NEW k \in 1..Len(box'[i])
        PROVE  k + 1 \in 1..Len(box[i]) /\ box'[i][k] = box[i][k + 1] /\ box[i][k + 1] # c
    <3>1. k + 1 \in 1..Len(box[i]) /\ box'[i][k] = box[i][k + 1]
      BY <1>1, <1>2 DEF TypeOK
    <3>2. k + 1 # 1
      OBVIOUS
    <3> QED BY <1>2, <3>1, <3>2 DEF PlaceOK, BoxOK
  <2>2. ASSUME NEW j \in Instances, j # i, NEW k \in 1..Len(box'[j])
        PROVE  k \in 1..Len(box[j]) /\ box'[j][k] = box[j][k] /\ box[j][k] # c
    BY <1>1, <1>2, <2>2 DEF PlaceOK, BoxOK, TypeOK
  <2> QED BY <2>1, <2>2
<1>6. \A d \in Calls : d # c => guest'[d] = guest[d]
  BY <1>2 DEF Take, TypeOK
<1>7. BoxOK'
  <2>1. \A j \in Instances : \A k \in 1..Len(box[j]) : box[j][k] \in Calls
    BY DEF TypeOK
  <2>2. ASSUME NEW j \in Instances, NEW k \in 1..Len(box'[j])
        PROVE  Asked(box'[j][k]) /\ guest'[box'[j][k]] = "none" /\ box'[j][k] \notin topic
    BY <1>5, <1>6, <2>1 DEF PlaceOK, BoxOK
  <2>3. ASSUME NEW j \in Instances, NEW k \in 1..Len(box'[j]),
               NEW m \in Instances, NEW l \in 1..Len(box'[m]), box'[j][k] = box'[m][l]
        PROVE  j = m /\ k = l
    <3>1. PICK p \in 1..Len(box[j]) : box'[j][k] = box[j][p] /\ p = IF i = j THEN k + 1 ELSE k
      BY <1>5
    <3>2. PICK q \in 1..Len(box[m]) : box'[m][l] = box[m][q] /\ q = IF i = m THEN l + 1 ELSE l
      BY <1>5
    <3>3. box[j][p] = box[m][q]
      BY <2>3, <3>1, <3>2
    <3>4. j = m /\ p = q
      BY <3>3 DEF PlaceOK, BoxOK
    <3> QED BY <3>1, <3>2, <3>4
  <2> QED BY <1>4, <2>2, <2>3 DEF BoxOK, Asked
<1>8. TopicOK'
  BY <1>3, <1>4, <1>6 DEF PlaceOK, TopicOK, Asked, TypeOK
<1>9. CASE Respond(c, "error") /\ UNCHANGED <<serving, guest>>
  <2>1. \A d \in Calls : /\ reply'[d] # "none" => request[d] = "waiting"
                         /\ reply'[d] = "ok" => guest[d] \in {"returned", "failed"}
    BY <1>2, <1>9, ReplyPromise DEF Respond, PlaceOK
  <2>2. GuestOK' /\ ServingOK'
    BY <1>4, <1>9, <2>1 DEF PlaceOK, GuestOK, ServingOK, Asked
  <2> QED BY <1>7, <1>8, <2>2 DEF PlaceOK
<1>10. CASE /\ serving' = [serving EXCEPT ![i] = c] /\ guest' = [guest EXCEPT ![c] = "asked"]
            /\ UNCHANGED reply
  <2>1. c \notin handled /\ reply[c] # "ok"
    BY <1>2, <1>3 DEF PlaceOK, GuestOK, Returns
  <2>2. \A j \in Instances : serving[j] # c
    BY <1>2, <1>3, CallsAssumption DEF PlaceOK, ServingOK
  <2>3. ServingOK'
    BY <1>2, <1>4, <1>10, <2>1, <2>2, CallsAssumption DEF PlaceOK, ServingOK, TypeOK
  <2>4. GuestOK'
    BY <1>2, <1>3, <1>4, <1>10, <2>1 DEF PlaceOK, GuestOK, Asked, TypeOK
  <2> QED BY <1>7, <1>8, <2>3, <2>4 DEF PlaceOK
<1> QED BY <1>9, <1>10 DEF Take

LEMMA PlaceReturned ==
  ASSUME TypeOK, PlaceOK, NEW c \in Calls, Returned(c)
  PROVE  PlaceOK'
<1>1. /\ guest[c] \in Returns /\ handled' = handled \cup {c}
      /\ UNCHANGED <<request, topic, box, guest>>
  BY DEF Returned
<1>2. TopicOK' /\ BoxOK'
  BY <1>1 DEF PlaceOK, TopicOK, BoxOK, Asked
<1>3. \A i \in Instances : serving'[i] = IF serving[i] = c THEN NoOne ELSE serving[i]
  BY DEF Returned, TypeOK
<1>4. ServingOK'
  BY <1>1, <1>3 DEF PlaceOK, ServingOK
<1>5. Response(guest[c]) \in {"ok", "error"}
      /\ (Response(guest[c]) = "ok" => guest[c] \in {"returned", "failed"})
  BY <1>1 DEF Response, Returns
<1>6. Reply(c, Response(guest[c])) \/ UNCHANGED reply
  BY DEF Returned, Respond
<1>7. \A d \in Calls : /\ reply'[d] # "none" => request[d] = "waiting"
                       /\ reply'[d] = "ok" => guest[d] \in {"returned", "failed"}
  BY <1>5, <1>6, ReplyPromise DEF PlaceOK
<1>8. GuestOK'
  BY <1>1, <1>7 DEF PlaceOK, GuestOK, Asked
<1> QED BY <1>2, <1>4, <1>8 DEF PlaceOK

LEMMA PlaceNext == TypeOK /\ CallbackOK /\ PlaceOK /\ [Next]_vars => PlaceOK'
<1> SUFFICES ASSUME TypeOK, CallbackOK, PlaceOK, [Next]_vars PROVE PlaceOK'
  OBVIOUS
<1> USE DEF elixir, native
<1>1. ASSUME NEW c \in Calls, Ask(c) PROVE PlaceOK'
  BY <1>1, PlacePublished DEF Ask, Asked
<1>2. ASSUME NEW c \in Calls, Arrive(c) PROVE PlaceOK'
  <2>1. request[c] = "waiting" /\ reply[c] \in {"ok", "error"}
    BY <1>2 DEF Arrive, PlaceOK, GuestOK, TypeOK, OrNone
  <2> QED BY <1>2, <2>1, PlaceAnswered DEF Arrive
<1>3. ASSUME NEW c \in Calls, RequestFails(c) PROVE PlaceOK'
  BY <1>3, PlaceAnswered DEF RequestFails
<1>4. ASSUME NEW c \in Calls, Deliver(c) PROVE PlaceOK'
  BY <1>4, PlaceDeliver
<1>5. ASSUME NEW c \in Calls, GiveUp(c) PROVE PlaceOK'
  <2>1. \A d \in Calls : /\ reply'[d] # "none" => request[d] = "waiting"
                         /\ reply'[d] = "ok" => guest[d] \in {"returned", "failed"}
    BY <1>5, ReplyPromise DEF GiveUp, PlaceOK
  <2> QED BY <1>5, <2>1 DEF GiveUp, PlaceOK, TopicOK, BoxOK, ServingOK, GuestOK, Asked
<1>6. ASSUME NEW i \in Instances, Take(i) PROVE PlaceOK'
  BY <1>6, PlaceTake
<1>7. ASSUME NEW i \in Instances, ServeTimeout(i) PROVE PlaceOK'
  <2>1. box'[i] = <<>> /\ \A j \in Instances \ {i} : box'[j] = box[j]
    BY <1>7 DEF ServeTimeout, TypeOK
  <2>2. serving'[i] = NoOne /\ \A j \in Instances \ {i} : serving'[j] = serving[j]
    BY <1>7 DEF ServeTimeout, TypeOK
  <2>3. UNCHANGED <<request, topic, reply, guest, handled>>
    BY <1>7 DEF ServeTimeout
  <2>4. \A j \in Instances : \A k \in 1..Len(box'[j]) : j # i
    BY <2>1
  <2>5. BoxOK'
    BY <2>1, <2>3, <2>4 DEF PlaceOK, BoxOK, Asked
  <2>6. TopicOK' /\ ServingOK' /\ GuestOK'
    BY <2>2, <2>3 DEF PlaceOK, TopicOK, ServingOK, GuestOK, Asked
  <2> QED BY <2>5, <2>6 DEF PlaceOK
<1>8. ASSUME NEW c \in Calls, Returned(c) PROVE PlaceOK'
  BY <1>8, PlaceReturned
<1>9. ASSUME NEW c \in Calls, Perform(c) PROVE PlaceOK'
  <2>1. CASE target[c] = "actor" /\ ToTask(c, "actor") /\ Publish(child[c])
    <3>1. child[c] \in Calls /\ ~Asked(child[c])
      BY <1>9, <2>1 DEF CallbackOK, ChildOf, TypeOK, Perform, Asked
    <3> QED BY <1>9, <2>1, <3>1, PlacePublished DEF Perform
  <2>2. CASE UNCHANGED <<request, topic>>
    BY <1>9, <2>2, PlaceKept DEF Perform
  <2> QED BY <1>9, <2>1, <2>2 DEF Perform
<1>10. ASSUME NEW c \in Calls, CallActor(c) \/ (\E w \in Workers : Run(c, w)) \/ Finish(c)
       PROVE  PlaceOK'
  BY <1>10, PlaceKept DEF CallActor, Run, Finish, Returns, TypeOK
<1>11. ASSUME NEW c \in Calls, HostCall(c) PROVE PlaceOK'
  <2>1. \A d \in Calls : \/ request'[d] = request[d]
                         \/ request[d] = "none" /\ request'[d] = "reserved"
    BY <1>11 DEF HostCall, TypeOK
  <2>2. \A d \in Calls : /\ guest'[d] = "none" <=> guest[d] = "none"
                         /\ guest[d] \in Returns => guest'[d] = guest[d]
    BY <1>11 DEF HostCall, Returns, TypeOK
  <2> QED BY <1>11, <2>1, <2>2, PlaceKept DEF HostCall
<1>12. ASSUME NEW c \in Calls, Check(c) \/ Spurious(c) PROVE PlaceOK'
  BY <1>12, PlaceKept DEF Check, Spurious, Returns, TypeOK
<1>13. ASSUME NEW c \in Calls, WriteLog(c) \/ VerifyLink(c) \/ Unpack(c) \/ Raise(c) PROVE PlaceOK'
  <2>1. \A d \in Calls : /\ guest'[d] = "none" <=> guest[d] = "none"
                         /\ guest[d] \in Returns => guest'[d] = guest[d]
    BY <1>13 DEF WriteLog, VerifyLink, Unpack, Raise, AnswerToken, SetValue, Returns, TypeOK
  <2> QED BY <1>13, <2>1, PlaceKept DEF WriteLog, VerifyLink, Unpack, Raise
<1>14. ASSUME NEW c \in Calls, StartTask(c) \/ IdentifyTarget(c) PROVE PlaceOK'
  BY <1>14, PlaceKept DEF StartTask, IdentifyTarget
<1>15. ASSUME NEW i \in Instances, Restart(i) PROVE PlaceOK'
  BY <1>15, PlaceKept DEF Restart
<1>16. ASSUME ChangeLink PROVE PlaceOK'
  BY <1>16, PlaceKept DEF ChangeLink
<1>17. ASSUME UNCHANGED vars PROVE PlaceOK'
  BY <1>17, PlaceKept DEF vars
<1> QED
  BY <1>1, <1>2, <1>3, <1>4, <1>5, <1>6, <1>7, <1>8, <1>9, <1>10, <1>11, <1>12, <1>13, <1>14,
     <1>15, <1>16, <1>17, NextCases

-----------------------------------------------------------------------------
(* The theorems *)

LEMMA InvInit == Init => Inv
<1> SUFFICES ASSUME Init PROVE Inv
  OBVIOUS
<1> USE CallsAssumption DEF Init
<1>1. TypeOK
  BY TypeInit
<1>2. CallbackOK
  BY DEF CallbackOK, CallbackOf, TargetOf, ChildOf
<1>3. SeenOK
  BY DEF SeenOK
<1>4. PlaceOK
  BY DEF PlaceOK, TopicOK, BoxOK, ServingOK, GuestOK
<1> QED BY <1>1, <1>2, <1>3, <1>4 DEF Inv

LEMMA InvNext == Inv /\ [Next]_vars => Inv'
BY TypeNext, CallbackNext, SeenNext, PlaceNext DEF Inv

LEMMA Inductive == Spec => []Inv
BY InvInit, InvNext, PTL DEF Spec

(* Types, for every set of calls, instances, workers and providers.        *)
THEOREM TypeCorrect == Spec => []TypeOK
<1>1. Inv => TypeOK
  BY DEF Inv
<1> QED BY <1>1, Inductive, PTL

(* No thread sleeps on a token that has its value.                         *)
THEOREM WakeupsArrive == Spec => []NoLostWakeup
<1>1. Inv => NoLostWakeup
  BY DEF Inv, CallbackOK, CallbackOf, NoLostWakeup
<1> QED BY <1>1, Inductive, PTL

(* A guest stands still while the callback of its host call is under way,  *)
(* whoever wakes its thread (handle, receive_callback_result).             *)
THEOREM CallbacksHoldGuests == Spec => []CallbackHoldsGuest
<1>1. Inv => CallbackHoldsGuest
  BY DEF Inv, CallbackOK, CallbackOf, CallbackHoldsGuest
<1> QED BY <1>1, Inductive, PTL

(* A host call reaches only a provider that was linked during it.          *)
THEOREM CallsRouted == Spec => []RoutedByLink
<1>1. Inv => RoutedByLink
  BY DEF Inv, CallbackOK, TargetOf, SeenOK, RoutedByLink
<1> QED BY <1>1, Inductive, PTL

-----------------------------------------------------------------------------
(* The refinement *)

LEMMA PromiseInit == Init => Promise!Init
BY DEF Init, Promise!Init, AbstractRun, OnThread, Blocked

(* A step that the requester and the abstract run do not see.              *)
LEMMA PromiseStutters ==
  ASSUME TypeOK,
         \A d \in Calls :
           /\ AbstractRun(guest'[d]) = AbstractRun(guest[d])
           /\ \/ request'[d] = request[d]
              \/ request[d] = "none" /\ request'[d] = "reserved"
  PROVE  UNCHANGED Promise!vars
BY DEF Promise!vars, TypeOK

LEMMA PromiseAsked ==
  ASSUME TypeOK, NEW d \in Calls, request[d] \in {"none", "reserved"},
         request' = [request EXCEPT ![d] = "waiting"], guest' = guest
  PROVE  Promise!Ask(d)
BY DEF Promise!Ask, TypeOK

LEMMA PromiseAnswered ==
  ASSUME TypeOK, NEW d \in Calls, request[d] = "waiting", NEW r \in {"ok", "error"},
         r = "ok" => guest[d] \in {"returned", "failed"},
         request' = [request EXCEPT ![d] = r], guest' = guest
  PROVE  Promise!Answer(d)
BY DEF Promise!Answer, TypeOK, AbstractRun, OnThread, Blocked

LEMMA PromiseBegins ==
  ASSUME TypeOK, GuestOK, NEW c \in Calls, NEW w \in Workers, Run(c, w)
  PROVE  Promise!Begin(c)
BY DEF Promise!Begin, Run, GuestOK, Asked, TypeOK, AbstractRun, OnThread, Blocked

LEMMA PromiseEnds ==
  ASSUME TypeOK, NEW c \in Calls, Finish(c)
  PROVE  Promise!End(c)
BY DEF Promise!End, Finish, Returns, TypeOK, AbstractRun, OnThread, Blocked

LEMMA PromiseStep ==
  ASSUME Inv, [Next]_vars
  PROVE  [Promise!Next]_(Promise!vars)
<1> USE DEF native, Inv
<1>1. ASSUME NEW c \in Calls, Ask(c) PROVE Promise!Next
  BY <1>1, PromiseAsked DEF Ask, Publish, Promise!Next
<1>2. ASSUME NEW c \in Calls, Arrive(c) PROVE Promise!Next
  <2>1. /\ request[c] = "waiting" /\ reply[c] \in {"ok", "error"}
        /\ reply[c] = "ok" => guest[c] \in {"returned", "failed"}
    BY <1>2 DEF Arrive, PlaceOK, GuestOK, TypeOK, OrNone
  <2> QED BY <1>2, <2>1, PromiseAnswered DEF Arrive, Promise!Next
<1>3. ASSUME NEW c \in Calls, RequestFails(c) PROVE Promise!Next
  BY <1>3, PromiseAnswered DEF RequestFails, Promise!Next
<1>4. ASSUME NEW c \in Calls, NEW w \in Workers, Run(c, w) PROVE Promise!Next
  BY <1>4, PromiseBegins DEF PlaceOK, Promise!Next
<1>5. ASSUME NEW c \in Calls, Finish(c) PROVE Promise!Next
  BY <1>5, PromiseEnds DEF Promise!Next
<1>6. ASSUME NEW c \in Calls, Perform(c) PROVE Promise!Next \/ UNCHANGED Promise!vars
  <2>1. CASE target[c] = "actor" /\ Publish(child[c])
    <3>1. child[c] \in Calls /\ request[child[c]] = "reserved"
      BY <1>6, <2>1 DEF CallbackOK, ChildOf, TypeOK, Perform
    <3> QED BY <1>6, <2>1, <3>1, PromiseAsked DEF Perform, Publish, Promise!Next
  <2>2. CASE UNCHANGED <<request, topic>>
    BY <1>6, <2>2, PromiseStutters DEF Perform
  <2> QED BY <1>6, <2>1, <2>2 DEF Perform
<1>7. ASSUME NEW c \in Calls,
             \/ Deliver(c) \/ GiveUp(c) \/ Returned(c)
             \/ StartTask(c) \/ IdentifyTarget(c)
      PROVE  UNCHANGED Promise!vars
  BY <1>7, PromiseStutters DEF Deliver, GiveUp, Returned, StartTask, IdentifyTarget
<1>8. ASSUME NEW i \in Instances, Take(i) PROVE UNCHANGED Promise!vars
  <2>1. box[i] \in Seq(Calls) /\ box[i] # <<>>
    BY <1>8 DEF Take, TypeOK
  <2>2. 1 \in 1..Len(box[i]) /\ Head(box[i]) = box[i][1]
    BY <2>1
  <2>3. guest[Head(box[i])] = "none"
    BY <2>2 DEF PlaceOK, BoxOK
  <2>4. \A d \in Calls : guest'[d] = guest[d] \/ (guest[d] = "none" /\ guest'[d] = "asked")
    BY <1>8, <2>3 DEF Take, TypeOK
  <2> QED BY <1>8, <2>4, PromiseStutters DEF Take, AbstractRun, OnThread, Blocked
<1>9. ASSUME NEW i \in Instances, ServeTimeout(i) \/ Restart(i) PROVE UNCHANGED Promise!vars
  BY <1>9, PromiseStutters DEF ServeTimeout, Restart
<1>10. ASSUME NEW c \in Calls, CallActor(c) PROVE UNCHANGED Promise!vars
  BY <1>10, PromiseStutters DEF CallActor, TypeOK, AbstractRun, OnThread, Blocked
<1>11. ASSUME NEW c \in Calls, HostCall(c) \/ Check(c) \/ Spurious(c) PROVE UNCHANGED Promise!vars
  <2>1. \A d \in Calls : \/ request'[d] = request[d]
                         \/ request[d] = "none" /\ request'[d] = "reserved"
    BY <1>11 DEF HostCall, Check, Spurious, TypeOK
  <2>2. \A d \in Calls : guest'[d] = guest[d] \/ (guest[d] \in OnThread /\ guest'[d] \in OnThread)
    BY <1>11 DEF HostCall, Check, Spurious, OnThread, Blocked, TypeOK
  <2> QED BY <2>1, <2>2, PromiseStutters DEF AbstractRun, OnThread, Blocked
<1>12. ASSUME NEW c \in Calls, WriteLog(c) \/ VerifyLink(c) \/ Unpack(c) \/ Raise(c)
       PROVE  UNCHANGED Promise!vars
  <2>1. \A d \in Calls : guest'[d] = guest[d] \/ (guest[d] = "waiting" /\ guest'[d] = "woken")
    BY <1>12 DEF WriteLog, VerifyLink, Unpack, Raise, AnswerToken, SetValue, TypeOK
  <2>2. request' = request
    BY <1>12 DEF WriteLog, VerifyLink, Unpack, Raise
  <2> QED BY <2>1, <2>2, PromiseStutters DEF AbstractRun, OnThread, Blocked
<1>13. ASSUME ChangeLink \/ UNCHANGED vars PROVE UNCHANGED Promise!vars
  BY <1>13, PromiseStutters DEF ChangeLink, vars
<1> QED
  BY <1>1, <1>2, <1>3, <1>4, <1>5, <1>6, <1>7, <1>8, <1>9, <1>10, <1>11, <1>12, <1>13, NextCases

(* The path through all the processes and threads keeps the promise: one   *)
(* run at most for an invocation, and no "ok" before the guest came back.  *)
THEOREM PromiseIsKept == Spec => PromiseSafe
BY PromiseInit, PromiseStep, Inductive, PTL DEF Spec, PromiseSafe, Promise!Spec
=============================================================================
