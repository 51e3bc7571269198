------------------------------ MODULE ActorCalls ------------------------------
(***************************************************************************)
(* An invocation of an actor on one host, and the host calls its guest     *)
(* makes: HostCore.Actors.ActorRpcServer takes it from the actor's topic   *)
(* and calls an instance (HostCore.Actors.ActorModule, one invocation at a *)
(* time), which calls HostCore.WasmCloud.Runtime.Server, which hands the   *)
(* guest to a thread of the native TOKIO runtime (wasmruntime.rs).  A host *)
(* call of the guest sends a callback token to Runtime.Server and blocks   *)
(* its thread on the token's condition variable until a task               *)
(* (HostCore.WasmCloud.RpcInvocations) has found the target, checked the   *)
(* link, performed the nested invocation and set the token's value.        *)
(*                                                                         *)
(* Every mailbox and NATS connection of the path is a set of invocations   *)
(* in a state, except an instance's mailbox, whose order matters: it is    *)
(* served while the instance waits.  Timeouts may strike at any moment; a  *)
(* message that NATS loses is one that is never taken.                     *)
(* A definition named X_Y is a faulty variant of X that no action uses.    *)
(***************************************************************************)
EXTENDS Naturals, Sequences, FiniteSets

CONSTANTS
  Calls,          \* invocations (their ids)
  Instances,      \* instances of actors
  Workers,        \* threads of the native TOKIO runtime
  Providers,
  NoOne,          \* no call, worker or provider
  MaxHostCalls,   \* bound: host calls of one guest
  MaxLinkChanges, \* bound: changes of the link
  MaxFaults       \* bound: exceptions in callback tasks

ASSUME CallsAssumption ==
  /\ NoOne \notin Calls \cup Workers \cup Providers
  /\ {"capability", "actor", "unknown"} \cap (Providers \cup {NoOne}) = {}
  /\ MaxHostCalls \in Nat /\ MaxLinkChanges \in Nat /\ MaxFaults \in Nat

VARIABLES
  request,   \* request[c]: what the requester of c has: none, reserved (by the
             \* host call that will make it), waiting, ok, error
  topic,     \* invocations published and not yet taken from the topic
  patient,   \* invocations whose ActorRpcServer task waits for the instance
  reply,     \* reply[c]: the reply to c on its way to the requester, or none
  up,        \* instances that are registered
  box,       \* box[i]: mailbox of instance i
  serving,   \* serving[i]: the invocation i waits for the runtime to perform
  guest,     \* guest[c]: the TOKIO task of c
  handled,   \* invocations whose :returned_function_call has been handled
  worker,    \* worker[c]: the thread that runs the guest of c, or NoOne
  value,     \* value[c]: return_value of the callback token of c: none, true, false
  task,      \* task[c]: where the callback of c stands
  target,    \* target[c]: whom the host call of c is for
  child,     \* child[c]: the invocation the host call of c makes, or NoOne
  used,      \* used[c]: host calls the guest of c has made
  link,      \* the provider linked for the contract the guests call, or NoOne
  changes, faults,
  seen       \* history: providers linked at some time of c's host call

elixir == <<topic, patient, reply, up, box, serving>>
native == <<guest, handled, worker, used>>
callback == <<value, task, target, child>>
links  == <<link, changes, seen>>
vars   == <<request, elixir, native, callback, links, faults>>

Blocked == {"locking", "waiting", "woken"}  \* inside ElixirHandler::handle
OnThread == {"running"} \cup Blocked
Returns == {"returned", "failed", "trapped"}
GuestStates == {"none", "asked", "spawned", "panicked"} \cup OnThread \cup Returns
LiveTask == {"log", "queued", "target", "link", "send", "provider", "actor"}
TaskStates == LiveTask \cup {"none", "dead"}
Targets == {NoOne, "capability", "actor", "unknown"} \cup Providers

Init ==
  /\ request = [c \in Calls |-> "none"]
  /\ topic = {} /\ patient = {} /\ reply = [c \in Calls |-> "none"]
  /\ up = Instances /\ box = [i \in Instances |-> <<>>]
  /\ serving = [i \in Instances |-> NoOne]
  /\ guest = [c \in Calls |-> "none"] /\ handled = {}
  /\ worker = [c \in Calls |-> NoOne] /\ used = [c \in Calls |-> 0]
  /\ value = [c \in Calls |-> "none"] /\ task = [c \in Calls |-> "none"]
  /\ target = [c \in Calls |-> NoOne] /\ child = [c \in Calls |-> NoOne]
  /\ link \in Providers \cup {NoOne} /\ changes = 0 /\ faults = 0
  /\ seen = [c \in Calls |-> {}]

-----------------------------------------------------------------------------
(* The requester *)

Publish(c) == /\ request' = [request EXCEPT ![c] = "waiting"]
              /\ topic' = topic \cup {c}

(* A provider or a client of the lattice invokes the actor.                *)
Ask(c) == /\ request[c] = "none" /\ Publish(c)
          /\ UNCHANGED <<patient, reply, up, box, serving, native, callback, links, faults>>

Arrive(c) ==
  /\ reply[c] # "none"
  /\ reply' = [reply EXCEPT ![c] = "none"]
  /\ request' = [request EXCEPT ![c] = reply[c]]
  /\ UNCHANGED <<topic, patient, up, box, serving, native, callback, links, faults>>

(* No responders, no reply within rpc_timeout_ms, or no connection.  A     *)
(* reply under way finds no inbox.                                         *)
RequestFails(c) ==
  /\ request[c] = "waiting" /\ request' = [request EXCEPT ![c] = "error"]
  /\ reply' = [reply EXCEPT ![c] = "none"]
  /\ UNCHANGED <<topic, patient, up, box, serving, native, callback, links, faults>>

(* {:reply, ...} is published to the inbox of a requester that still waits. *)
Reply(c, r) == reply' = [reply EXCEPT ![c] = IF request[c] = "waiting" THEN r ELSE @]

-----------------------------------------------------------------------------
(* ActorRpcServer: a task per message of the topic *)

(* The message stays on the topic after a member of the queue group took it. *)
Deliver_Again(c) ==
  /\ c \in topic /\ UNCHANGED topic
  /\ \/ /\ up = {} /\ Reply(c, "error")
        /\ UNCHANGED <<patient, box>>
     \/ /\ \E i \in up : box' = [box EXCEPT ![i] = Append(@, c)]
        /\ patient' = patient \cup {c} /\ UNCHANGED reply
  /\ UNCHANGED <<request, up, serving, native, callback, links, faults>>

(* With no eligible instance the remainder by 0 raises and error() replies. *)
Deliver(c) ==
  /\ c \in topic /\ topic' = topic \ {c}
  /\ \/ /\ up = {} /\ Reply(c, "error")
        /\ UNCHANGED <<patient, box>>
     \/ /\ \E i \in up : box' = [box EXCEPT ![i] = Append(@, c)]
        /\ patient' = patient \cup {c} /\ UNCHANGED reply
  /\ UNCHANGED <<request, up, serving, native, callback, links, faults>>

(* The GenServer.call to the instance ends after 5 s, or with the instance, *)
(* which is not told.  error() publishes the failure (a failure that is    *)
(* not published is a reply that never arrives).                           *)
GiveUp(c) ==
  /\ c \in patient /\ patient' = patient \ {c} /\ Reply(c, "error")
  /\ UNCHANGED <<request, topic, up, box, serving, native, callback, links, faults>>

-----------------------------------------------------------------------------
(* ActorModule: one invocation at a time *)

(* The ActorRpcServer task replies if it still waits.                      *)
Respond(c, r) == /\ patient' = patient \ {c}
                 /\ IF c \in patient THEN Reply(c, r) ELSE UNCHANGED reply

(* handle_incoming_rpc: an invocation that does not unpack, or that a      *)
(* check refuses, is answered at once; else the runtime is asked.          *)
Take(i) ==
  /\ i \in up /\ serving[i] = NoOne /\ box[i] # <<>>
  /\ box' = [box EXCEPT ![i] = Tail(@)]
  /\ LET c == Head(box[i]) IN
       \/ Respond(c, "error") /\ UNCHANGED <<serving, guest>>
       \/ /\ serving' = [serving EXCEPT ![i] = c]
          /\ guest' = [guest EXCEPT ![c] = "asked"]
          /\ UNCHANGED <<patient, reply>>
  /\ UNCHANGED <<request, topic, up, handled, worker, used, callback, links, faults>>

(* invoke_actor waits 5 s for the runtime; its exit ends the instance.     *)
ServeTimeout(i) ==
  /\ serving[i] # NoOne /\ serving' = [serving EXCEPT ![i] = NoOne]
  /\ up' = up \ {i} /\ box' = [box EXCEPT ![i] = <<>>]
  /\ UNCHANGED <<request, topic, patient, reply, native, callback, links, faults>>

(* restart: :transient                                                     *)
Restart(i) == /\ i \notin up /\ up' = up \cup {i}
              /\ UNCHANGED <<request, topic, patient, reply, box, serving, native, callback, links, faults>>

-----------------------------------------------------------------------------
(* Runtime.Server and the threads of the native runtime *)

(* {:invoke_actor, ...}: call_actor spawns a task and returns at once.     *)
CallActor(c) ==
  /\ guest[c] = "asked" /\ guest' = [guest EXCEPT ![c] = "spawned"]
  /\ UNCHANGED <<request, elixir, handled, worker, used, callback, links, faults>>

Busy == {worker[c] : c \in Calls}

Run(c, w) ==
  /\ guest[c] = "spawned" /\ w \notin Busy
  /\ guest' = [guest EXCEPT ![c] = "running"] /\ worker' = [worker EXCEPT ![c] = w]
  /\ UNCHANGED <<request, elixir, handled, used, callback, links, faults>>

(* The guest comes back with data, with an error of its own, or traps; a   *)
(* panic of the handler (RandomInRange with min > max) ends the task with  *)
(* no message.                                                             *)
Finish(c) ==
  /\ guest[c] = "running" /\ worker' = [worker EXCEPT ![c] = NoOne]
  /\ \E r \in Returns \cup {"panicked"} : guest' = [guest EXCEPT ![c] = r]
  /\ UNCHANGED <<request, elixir, handled, used, callback, links, faults>>

(* The outcome itself is sent.                                             *)
Response_Raw(r) == r

(* send_actor_call_response: unwrap_or_default takes the guest's own error *)
(* for a result without data; only what call_with_context fails with is an *)
(* error.                                                                  *)
Response(r) == IF r = "trapped" THEN "error" ELSE "ok"

(* {:returned_function_call, result, from}: GenServer.reply, and the       *)
(* instance, if it still waits, responds and is free.                      *)
Returned(c) ==
  /\ guest[c] \in Returns /\ c \notin handled /\ handled' = handled \cup {c}
  /\ IF \E i \in Instances : serving[i] = c
     THEN /\ serving' = [i \in Instances |-> IF serving[i] = c THEN NoOne ELSE serving[i]]
          /\ Respond(c, Response(guest[c]))
     ELSE UNCHANGED <<serving, patient, reply>>
  /\ UNCHANGED <<request, topic, up, box, guest, worker, used, callback, links, faults>>

(* ElixirHandler::handle makes a token and sends it with the call.  An     *)
(* actor call reserves the id of the invocation its task will make.        *)
HostCall(c) ==
  /\ guest[c] = "running" /\ used[c] < MaxHostCalls
  /\ used' = [used EXCEPT ![c] = @ + 1]
  /\ guest' = [guest EXCEPT ![c] = "locking"] /\ value' = [value EXCEPT ![c] = "none"]
  /\ \/ /\ task' = [task EXCEPT ![c] = "log"]
        /\ UNCHANGED <<request, target, child, seen>>
     \/ /\ task' = [task EXCEPT ![c] = "queued"]
        /\ target' = [target EXCEPT ![c] = "capability"]
        /\ seen' = [seen EXCEPT ![c] = {link} \ {NoOne}] /\ UNCHANGED <<request, child>>
     \/ /\ task' = [task EXCEPT ![c] = "queued"]
        /\ target' = [target EXCEPT ![c] = "actor"]
        /\ \E d \in Calls : /\ request[d] = "none" /\ child' = [child EXCEPT ![c] = d]
                            /\ request' = [request EXCEPT ![d] = "reserved"]
        /\ UNCHANGED seen
  /\ UNCHANGED <<elixir, handled, worker, link, changes, faults>>

(* A woken thread does not look at the value again.                        *)
Check_Once(c) ==
  /\ guest[c] \in {"locking", "woken"}
  /\ guest' = [guest EXCEPT ![c] = IF @ = "locking" /\ value[c] = "none" THEN "waiting"
                                   ELSE "running"]
  /\ value' = [value EXCEPT ![c] = "none"]
  /\ UNCHANGED <<request, elixir, handled, worker, used, task, target, child, links, faults>>

(* Under the token's mutex: while return_value is None, wait.  A value of  *)
(* false is an error for the guest to deal with.                           *)
Check(c) ==
  /\ guest[c] \in {"locking", "woken"}
  /\ guest' = [guest EXCEPT ![c] = IF value[c] = "none" THEN "waiting" ELSE "running"]
  /\ value' = [value EXCEPT ![c] = "none"]
  /\ UNCHANGED <<request, elixir, handled, worker, used, task, target, child, links, faults>>

(* A condition variable may wake its thread for no reason.                 *)
Spurious(c) ==
  /\ guest[c] = "waiting" /\ guest' = [guest EXCEPT ![c] = "woken"]
  /\ UNCHANGED <<request, elixir, handled, worker, used, callback, links, faults>>

(* No notify_one.                                                          *)
SetValue_Silent(c, v) == value' = [value EXCEPT ![c] = v] /\ UNCHANGED guest

(* receive_callback_result: set the value and notify_one.                  *)
SetValue(c, v) ==
  /\ value' = [value EXCEPT ![c] = v]
  /\ guest' = [guest EXCEPT ![c] = IF @ = "waiting" THEN "woken" ELSE @]

-----------------------------------------------------------------------------
(* The callback of a host call: a log line is written by Runtime.Server    *)
(* itself, anything else is a task of RuntimeCallSupervisor                *)

ToTask(c, s) == task' = [task EXCEPT ![c] = s]

EndTask(c, s) ==
  /\ ToTask(c, s) /\ target' = [target EXCEPT ![c] = NoOne]
  /\ child' = [child EXCEPT ![c] = NoOne] /\ seen' = [seen EXCEPT ![c] = {}]

AnswerToken(c, v) == SetValue(c, v) /\ EndTask(c, "none")

WriteLog(c) ==
  /\ task[c] = "log" /\ AnswerToken(c, "true")
  /\ UNCHANGED <<request, elixir, handled, worker, used, link, changes, faults>>

StartTask(c) ==
  /\ task[c] = "queued" /\ ToTask(c, "target")
  /\ UNCHANGED <<request, elixir, native, value, target, child, links, faults>>

(* The link of another contract or link name.                              *)
IdentifyTarget_AnyLink(c) ==
  /\ task[c] = "target" /\ ToTask(c, "link")
  /\ \E p \in Providers : target' = [target EXCEPT ![c] = IF @ = "actor" THEN @ ELSE p]
  /\ UNCHANGED <<request, elixir, native, value, child, links, faults>>

(* identify_target: the linked provider; without a link the namespace is   *)
(* an actor's key or call alias, or nothing known.                         *)
IdentifyTarget(c) ==
  /\ task[c] = "target" /\ ToTask(c, "link")
  /\ target' = [target EXCEPT ![c] = IF @ = "actor" THEN @
                                     ELSE IF link # NoOne THEN link ELSE "unknown"]
  /\ UNCHANGED <<request, elixir, native, value, child, links, faults>>

(* A refusal returns to the task without an answer for the token.          *)
VerifyLink_NoAnswer(c) ==
  /\ task[c] = "link"
  /\ \/ /\ target[c] = "actor" \/ (target[c] \in Providers /\ link # NoOne)
        /\ ToTask(c, "send") /\ UNCHANGED <<value, guest, target, child, seen>>
     \/ target[c] # "actor" /\ EndTask(c, "none") /\ UNCHANGED <<value, guest>>
  /\ UNCHANGED <<request, elixir, handled, worker, used, link, changes, faults>>

(* verify_link looks the link up again and takes whatever it finds for     *)
(* the target's; authorize_call wants the contract among the claims' caps; *)
(* rpc_invoke refuses what is not both.                                    *)
VerifyLink(c) ==
  /\ task[c] = "link"
  /\ \/ /\ target[c] = "actor" \/ (target[c] \in Providers /\ link # NoOne)
        /\ ToTask(c, "send") /\ UNCHANGED <<value, guest, target, child, seen>>
     \/ target[c] # "actor" /\ AnswerToken(c, "false")
  /\ UNCHANGED <<request, elixir, handled, worker, used, link, changes, faults>>

(* perform_rpc_invoke: publish on the target's topic and wait.             *)
Perform(c) ==
  /\ task[c] = "send"
  /\ \/ target[c] = "actor" /\ ToTask(c, "actor") /\ Publish(child[c])
     \/ target[c] \in Providers /\ ToTask(c, "provider") /\ UNCHANGED <<request, topic>>
  /\ UNCHANGED <<patient, reply, up, box, serving, native, value, target, child, links, faults>>

(* unpack_invocation_response: a reply with an error, and no reply, make   *)
(* the host call fail.  What a provider answers is its own affair.         *)
Unpack(c) ==
  /\ \/ /\ task[c] = "actor" /\ request[child[c]] \in {"ok", "error"}
        /\ AnswerToken(c, IF request[child[c]] = "ok" THEN "true" ELSE "false")
     \/ task[c] = "provider" /\ \E v \in {"true", "false"} : AnswerToken(c, v)
  /\ UNCHANGED <<request, elixir, handled, worker, used, link, changes, faults>>

(* Only a RuntimeError is rescued and answered: any other exception, or an *)
(* exit (a lookup that times out, a reply that is not MessagePack), ends   *)
(* the task and leaves the token without a value.                          *)
Raise(c) ==
  /\ task[c] \in LiveTask \ {"log", "queued"} /\ faults < MaxFaults /\ faults' = faults + 1
  /\ \/ AnswerToken(c, "false")
     \/ EndTask(c, "dead") /\ UNCHANGED <<value, guest>>
  /\ UNCHANGED <<request, elixir, handled, worker, used, link, changes>>

-----------------------------------------------------------------------------
(* The link is put, replaced or deleted while host calls are under way.    *)
ChangeLink ==
  /\ changes < MaxLinkChanges /\ changes' = changes + 1
  /\ link' \in (Providers \cup {NoOne}) \ {link}
  /\ seen' = [c \in Calls |-> IF target[c] \in {NoOne, "actor"} THEN seen[c]
                              ELSE seen[c] \cup ({link'} \ {NoOne})]
  /\ UNCHANGED <<request, elixir, native, callback, faults>>

(* Every requester has its answer: the host waits for the next request.    *)
Quiet == /\ \A c \in Calls : request[c] \notin {"none", "waiting"}
         /\ UNCHANGED vars

Requester(c) == Ask(c) \/ Arrive(c) \/ RequestFails(c)
Rpc(c) == Deliver(c) \/ GiveUp(c)
Instance(i) == Take(i) \/ ServeTimeout(i) \/ Restart(i)
Runtime(c) == CallActor(c) \/ (\E w \in Workers : Run(c, w)) \/ Finish(c) \/ Returned(c)
Handle(c) == HostCall(c) \/ Check(c) \/ Spurious(c)
Callback(c) == WriteLog(c) \/ StartTask(c) \/ IdentifyTarget(c) \/ VerifyLink(c)
               \/ Perform(c) \/ Unpack(c) \/ Raise(c)

Next ==
  \/ \E c \in Calls : Requester(c) \/ Rpc(c) \/ Runtime(c) \/ Handle(c) \/ Callback(c)
  \/ \E i \in Instances : Instance(i)
  \/ ChangeLink \/ Quiet

Spec == Init /\ [][Next]_vars

(* A request ends (receive_timeout), a runnable thread runs, and the       *)
(* Elixir processes go on; a guest may run for ever.                       *)
Fairness ==
  \A c \in Calls :
    /\ WF_vars(RequestFails(c)) /\ WF_vars(Check(c))
    /\ WF_vars(WriteLog(c) \/ StartTask(c) \/ IdentifyTarget(c) \/ VerifyLink(c)
               \/ Perform(c) \/ Unpack(c))

FairSpec == Spec /\ Fairness

-----------------------------------------------------------------------------
(* Properties *)

OrNone(S) == S \cup {"none"}

TypeOK ==
  /\ request \in [Calls -> {"none", "reserved", "waiting", "ok", "error"}]
  /\ topic \subseteq Calls /\ patient \subseteq Calls
  /\ reply \in [Calls -> OrNone({"ok", "error"})]
  /\ up \subseteq Instances /\ box \in [Instances -> Seq(Calls)]
  /\ serving \in [Instances -> Calls \cup {NoOne}]
  /\ guest \in [Calls -> GuestStates] /\ handled \subseteq Calls
  /\ worker \in [Calls -> Workers \cup {NoOne}] /\ used \in [Calls -> Nat]
  /\ value \in [Calls -> OrNone({"true", "false"})] /\ task \in [Calls -> TaskStates]
  /\ target \in [Calls -> Targets] /\ child \in [Calls -> Calls \cup {NoOne}]
  /\ link \in Providers \cup {NoOne} /\ changes \in Nat /\ faults \in Nat
  /\ seen \in [Calls -> SUBSET Providers]

(* No wake-up is lost: a thread that sleeps on its token's condition       *)
(* variable has a token without a value, whatever the order of the lock,   *)
(* the callback and the notification (handle, receive_callback_result).    *)
NoLostWakeup == \A c \in Calls : guest[c] = "waiting" => value[c] = "none"

(* A guest does not go on while the callback of its host call is under way,*)
(* and for ever not when that has died: neither a wake-up for no reason nor*)
(* the answer to an earlier host call lets it past, and no callback answers*)
(* a later one (handle, receive_callback_result, RpcInvocations).          *)
CallbackHoldsGuest ==
  \A c \in Calls : task[c] # "none" => guest[c] \in Blocked /\ value[c] = "none"

(* A host call reaches a provider only if this provider was linked at some *)
(* time during the call: the two lookups, with the link replaced or        *)
(* deleted around them, never route to another (RpcInvocations).           *)
RoutedByLink ==
  \A c \in Calls : task[c] = "provider" => target[c] \in seen[c]

(* A thread that a host call blocks goes on, even when every thread is     *)
(* blocked in a call to an actor that needs a thread to run: the nested    *)
(* request times out.  The exception is a task that died unrescued, whose  *)
(* thread is lost to the host for good.                                    *)
ThreadsComeBack ==
  \A c \in Calls : guest[c] \in Blocked ~> (guest[c] \notin Blocked \/ task[c] = "dead")

(* What rpc_invocations.ex says of the reply: "if invocation was           *)
(* successful but resulted in an error then that goes in host_error".      *)
ErrorsAreReported == \A c \in Calls : request[c] = "ok" => guest[c] = "returned"

-----------------------------------------------------------------------------
(* The invocation path keeps the promise of CallPromise.                   *)

AbstractRun(g) ==
  CASE g \in {"none", "asked", "spawned"} -> "never"
    [] g \in OnThread -> "running"
    [] g \in {"returned", "failed"} -> "returned"
    [] OTHER -> "broken"

Promise == INSTANCE CallPromise WITH
  answer <- [c \in Calls |-> IF request[c] = "reserved" THEN "none" ELSE request[c]],
  run <- [c \in Calls |-> AbstractRun(guest[c])]

(* The guest runs at most once for an invocation, and its requester is     *)
(* told "ok" only after it came back, whichever timeouts, restarts and     *)
(* reply orders the path goes through (actor_rpc_server.ex, actor_module.ex). *)
PromiseSafe == Promise!Spec
=============================================================================
