--------------------------- MODULE ActorLifecycle ---------------------------
(***************************************************************************)
(* The instances of ONE actor (one public key) on ONE virtual host:        *)
(* HostCore.Actors.ActorSupervisor, ActorModule and ActorRpcSupervisor,    *)
(* driven by control-interface requests that run as concurrent processes.  *)
(*                                                                         *)
(* An Erlang process that serves a request is a task with a program        *)
(* counter; each of its steps is one registry read, one GenServer call or  *)
(* one supervisor call.  An actor instance is a process (a pid): it is     *)
(* visible to requests only while it has an entry in the ActorRegistry,    *)
(* which it makes AFTER its start was acknowledged and which outlives it   *)
(* by the time the registry takes to notice the exit.                      *)
(*                                                                         *)
(* A definition named X_Y is a faulty variant of X.  No action uses it; it *)
(* stands there to show which property would notice the fault.             *)
(***************************************************************************)
EXTENDS Integers, FiniteSets

CONSTANTS
  Pids,        \* processes that can become actor instances
  Tasks,       \* processes that serve control-interface requests
  Refs,        \* image references that carry this actor
  Tags,        \* annotations (key/value pairs)
  Requests,    \* the requests that may arrive
  NoRef,       \* "" or "n/a": no image reference
  NoTask,      \* no request; also a caller that is no longer interested
  Running,     \* the arguments of the instances running at the outset
  MaxRestarts, \* restarts DynamicSupervisor allows in its 5 s window
  MaxCrashes,  \* bound: instance crashes explored
  MaxSubFails, \* bound: subscriptions that fail
  MaxBusy      \* bound: invocations in flight at once

(* "terminate": the VirtualHost process on its way out after an exit       *)
Ops == {"start", "stop", "scale", "purge", "stophost", "terminate"}

(* What a request carries; a stop with count 0 stops all instances.        *)
Request == [op : Ops, count : Nat, ref : Refs \cup {NoRef}, tags : SUBSET Tags]

Args == [ref : Refs, tags : SUBSET Tags]

ASSUME ConstantsAssumption ==
  /\ IsFiniteSet(Pids)
  /\ \E P \in SUBSET Pids : Running \in [P -> Args]
  /\ Requests \subseteq Request /\ Requests # {} /\ Refs # {}
  /\ \A r \in Requests : r.op # "terminate" /\ (r.op = "start" => r.ref \in Refs)
  /\ \A r \in Requests : r.op \notin {"start", "stop"} => r.tags = {}
  /\ NoRef \notin Refs /\ NoTask \notin Tasks
  /\ MaxRestarts \in Nat /\ MaxCrashes \in Nat /\ MaxSubFails \in Nat
  /\ MaxBusy \in Nat

VARIABLES
  vhost,      \* VirtualHost: up, busy (purging), stopping, down (exited
              \* abnormally, to be restarted), gone
  ending,     \* the node was told to stop with its only host (:init.stop)
  pst,        \* pst[p]: free, init (between the two supervisor calls of its
              \* subscription), up, crashed (to be restarted), halted, gone
  opts,       \* opts[p]: the child arguments instance p was started with
  registered, \* pids with an entry in Registry.ActorRegistry
  busy,       \* instances handling an invocation
  mail,       \* <<t, p>>: t's halt_and_cleanup call waits in p's mailbox
  sub,        \* the actor's RPC subscriber: absent, running, terminated
  pc, req,    \* per task: program counter and request
  want,       \* per task: instances still to start, or to halt in all
  todo,       \* per task: pids picked for halting and not yet called
  last,       \* tasks that stop the subscriber when they have halted
  crashes, subFails,      \* instance crashes, failed subscriptions so far
  startedEv, stoppedEv,   \* actor_started / actor_stopped events published
  haltedBy,   \* history: the task whose call halted an instance
  base,       \* history: live instances when the task was launched
  clean       \* history: tasks nothing else has disturbed

sysVars  == <<vhost, ending, pst, opts, registered, busy, mail, sub, crashes, subFails>>
taskVars == <<pc, req, want, todo, last>>
evVars   == <<startedEv, stoppedEv>>
histVars == <<haltedBy, base, clean>>
vars == <<sysVars, taskVars, evVars, histVars>>

PStates == {"free", "init", "up", "crashed", "halted", "gone"}
PCs == {"idle", "fetch", "check", "starting", "subscribing", "scale", "count",
        "snapshot", "halting", "await", "unsub", "delete", "done", "failed"}
Up      == {p \in Pids : pst[p] = "up"}
Ended   == {"done", "failed"}
Least(a, b) == IF a < b THEN a ELSE b

(* The host is up with some instances started earlier, all registered;     *)
(* what a request record holds before it arrives does not matter.          *)
Init ==
  /\ vhost = "up" /\ ending = FALSE /\ crashes = 0 /\ subFails = 0
  /\ pst = [p \in Pids |-> IF p \in DOMAIN Running THEN "up" ELSE "free"]
  /\ opts = [p \in Pids |-> IF p \in DOMAIN Running THEN Running[p]
                            ELSE CHOOSE a \in Args : TRUE]
  /\ sub = IF DOMAIN Running = {} THEN "absent" ELSE "running"
  /\ registered = DOMAIN Running /\ busy = {} /\ mail = {}
  /\ pc = [t \in Tasks |-> "idle"]
  /\ req = [t \in Tasks |-> CHOOSE r \in Requests : TRUE]
  /\ want = [t \in Tasks |-> 0] /\ todo = [t \in Tasks |-> {}] /\ last = {}
  /\ startedEv = Cardinality(DOMAIN Running) /\ stoppedEv = 0
  /\ haltedBy = [p \in Pids |-> NoTask]
  /\ base = [t \in Tasks |-> 0] /\ clean = {}

-----------------------------------------------------------------------------
(* Instances *)

(* ActorRpcSupervisor.start_or_reuse_consumer_supervisor is one call to    *)
(* the supervisor of the subscribers, or two: start_child starts a new     *)
(* child and leaves a running one alone; a terminated one (already_present)*)
(* takes a second call, restart_child, which finds it or not (not_found).  *)
StartChild(s) == IF s = "absent" THEN "running" ELSE s
RestartChild_Ignored(s) == s
RestartChild(s) == IF s = "terminated" THEN "running" ELSE s

(* The subscriber becomes s; or it does not start, which is only logged.   *)
Subscribes(s) ==
  \/ sub' = s /\ UNCHANGED <<subFails, clean>>
  \/ /\ sub # s /\ subFails < MaxSubFails
     /\ subFails' = subFails + 1 /\ clean' = {}
     /\ UNCHANGED sub

(* DynamicSupervisor runs one init at a time.                              *)
SupervisorFree == \A p \in Pids : pst[p] # "init"

(* ActorModule.init of a fresh process q: subscribe, publish actor_started;*)
(* with a terminated subscriber, as far as the second supervisor call.     *)
(* The registry entry comes later (Register).                              *)
Booted == IF sub = "terminated" THEN "init" ELSE "up"

Boot(q, a) ==
  /\ pst[q] = "free" /\ SupervisorFree
  /\ opts' = [opts EXCEPT ![q] = a]
  /\ Subscribes(StartChild(sub))
  /\ startedEv' = IF Booted = "up" THEN startedEv + 1 ELSE startedEv

(* ... the second call and the rest of init; start_child returns to the    *)
(* request that started q, if one did.                                     *)
Resubscribe(q) ==
  /\ pst[q] = "init"
  /\ pst' = [pst EXCEPT ![q] = "up"]
  /\ Subscribes(RestartChild(sub))
  /\ startedEv' = startedEv + 1
  /\ pc' = [u \in Tasks |-> IF pc[u] = "subscribing" THEN "starting" ELSE pc[u]]
  /\ UNCHANGED <<vhost, ending, opts, registered, busy, mail, crashes>>
  /\ UNCHANGED <<req, want, todo, last, stoppedEv, haltedBy, base>>

(* handle_continue(:register_actor) *)
Register(p) ==
  /\ pst[p] = "up" /\ p \notin registered
  /\ registered' = registered \cup {p}
  /\ UNCHANGED <<vhost, ending, pst, opts, busy, mail, sub, crashes, subFails>>
  /\ UNCHANGED <<taskVars, evVars, histVars>>

(* The registry drops the entry once it sees the owner's exit.             *)
Unregister(p) ==
  /\ pst[p] # "up" /\ p \in registered
  /\ registered' = registered \ {p}
  /\ UNCHANGED <<vhost, ending, pst, opts, busy, mail, sub, crashes, subFails>>
  /\ UNCHANGED <<taskVars, evVars, histVars>>

(* The subscriber hands an invocation to a registered instance, whose      *)
(* process handles nothing else until it is done; calls that already wait  *)
(* in its mailbox come first.                                              *)
InvokeBegin(p) ==
  /\ sub = "running" /\ pst[p] = "up" /\ p \in registered \ busy
  /\ Cardinality(busy) < MaxBusy
  /\ \A m \in mail : m[2] # p
  /\ busy' = busy \cup {p}
  /\ UNCHANGED <<vhost, ending, pst, opts, registered, mail, sub, crashes, subFails>>
  /\ UNCHANGED <<taskVars, evVars, histVars>>

InvokeEnd(p) ==
  /\ p \in busy
  /\ busy' = busy \ {p}
  /\ UNCHANGED <<vhost, ending, pst, opts, registered, mail, sub, crashes, subFails>>
  /\ UNCHANGED <<taskVars, evVars, histVars>>

(* The calls that are left when the mailbox of p is lost.                  *)
MailWithout_Kept(p) == mail
MailWithout(p) == {m \in mail : m[2] # p}

(* handle_call(:halt_and_cleanup): actor_stopped, then {:stop, :shutdown}, *)
(* which a :transient child is not restarted after.  Calls still in the    *)
(* mailbox are lost with the process.                                      *)
HandleHalt(t, p) ==
  /\ <<t, p>> \in mail /\ p \notin busy
  /\ stoppedEv' = stoppedEv + 1
  /\ pst' = [pst EXCEPT ![p] = "halted"]
  /\ mail' = MailWithout(p)
  /\ pc' = [u \in Tasks |-> IF u = t /\ pc[u] = "await" THEN "halting" ELSE pc[u]]
  /\ haltedBy' = [haltedBy EXCEPT ![p] = t]
  /\ UNCHANGED <<vhost, ending, opts, registered, busy, sub, crashes, subFails>>
  /\ UNCHANGED <<req, want, todo, last, startedEv, base, clean>>

(* An instance dies abnormally (a callback raised, a call it made timed    *)
(* out): nothing is published.                                             *)
Crash(p) ==
  /\ pst[p] = "up" /\ crashes < MaxCrashes
  /\ crashes' = crashes + 1
  /\ pst' = [pst EXCEPT ![p] = "crashed"]
  /\ busy' = busy \ {p}
  /\ mail' = MailWithout(p)
  /\ clean' = {}
  /\ UNCHANGED <<vhost, ending, opts, registered, sub, subFails>>
  /\ UNCHANGED <<taskVars, evVars, haltedBy, base>>

(* restart: :transient - the supervisor starts the same child arguments    *)
(* again; init needs the runtime, a call only a live vhost answers.        *)
Restart(p) ==
  /\ pst[p] = "crashed" /\ vhost = "up"
  /\ \E q \in Pids :
       /\ Boot(q, opts[p])
       /\ pst' = [pst EXCEPT ![p] = "gone", ![q] = Booted]
  /\ UNCHANGED <<vhost, ending, registered, busy, mail, crashes, stoppedEv>>
  /\ UNCHANGED <<taskVars, haltedBy, base>>

(* More restarts than the supervisor allows (also: restarts that keep      *)
(* failing because the vhost is gone): ActorSupervisor exits and takes     *)
(* every instance with it, with no event and no subscriber stopped.        *)
RestartsExhausted ==
  /\ \E p \in Pids : pst[p] = "crashed"
  /\ crashes > MaxRestarts \/ vhost \in {"down", "gone"}
  /\ SupervisorFree
  /\ pst' = [p \in Pids |-> IF pst[p] \in {"up", "crashed"} THEN "gone" ELSE pst[p]]
  /\ busy' = {} /\ mail' = {} /\ clean' = {}
  /\ UNCHANGED <<vhost, ending, opts, registered, sub, crashes, subFails>>
  /\ UNCHANGED <<taskVars, evVars, haltedBy, base>>

-----------------------------------------------------------------------------
(* Requests *)

Goto(t, label) == pc' = [pc EXCEPT ![t] = label]

Quiet == /\ \A u \in Tasks : pc[u] \in Ended \cup {"idle"}
         /\ mail = {} /\ registered = Up
         /\ \A p \in Pids : pst[p] \notin {"crashed", "init"}

EntryPoint(r) ==
  CASE r.op = "start" -> "fetch"
    [] r.op = "scale" -> "scale"
    [] r.op = "stop" /\ r.count > 0 -> "snapshot"
    [] OTHER -> "count"

(* A request arrives.  la, sa and scale come through the vhost's consumer; *)
(* purge and stop are messages the VirtualHost process itself handles; a   *)
(* stop of the only host also stops the node (do_stop).                    *)
Launch(t, r) ==
  /\ pc[t] = "idle"
  /\ IF r.op \in {"purge", "stophost"} THEN vhost = "up"
     ELSE vhost \notin {"down", "gone"}
  /\ Goto(t, EntryPoint(r))
  /\ req' = [req EXCEPT ![t] = r]
  /\ want' = [want EXCEPT ![t] = r.count]
  /\ vhost' = CASE r.op = "purge" -> "busy"
                [] r.op = "stophost" -> "stopping"
                [] OTHER -> vhost
  /\ \E only \in BOOLEAN : ending' = (ending \/ (r.op = "stophost" /\ only))
  /\ base' = [base EXCEPT ![t] = Cardinality(Up)]
  /\ clean' = IF Quiet THEN {t} ELSE {}
  /\ UNCHANGED <<pst, opts, registered, busy, mail, sub, crashes, subFails>>
  /\ UNCHANGED <<todo, last, evVars, haltedBy>>

(* What the exit of the process serving t means for the vhost: a purge is  *)
(* followed by terminate/2, and an exit there ends the process abnormally. *)
VhostAfterExit_Same(t) == vhost
VhostAfterExit(t) ==
  CASE req[t].op = "purge" -> "stopping"
    [] req[t].op \in {"stophost", "terminate"} -> "down"
    [] OTHER -> vhost

(* A vhost that goes on to terminate/2 drops the answer to an older call.  *)
MailAfterExit(t) ==
  IF req[t].op = "purge"
  THEN {<<IF m[1] = t THEN NoTask ELSE m[1], m[2]>> : m \in mail}
  ELSE mail

(* The process serving t exits.  Inside VirtualHost.handle_call(:purge)    *)
(* that runs terminate/2, which purges again; inside terminate/2 it ends   *)
(* the vhost without host_stopped.                                         *)
Abort(t) ==
  /\ Goto(t, IF req[t].op = "purge" THEN "count" ELSE "failed")
  /\ req' = [req EXCEPT ![t].op = IF @ = "purge" THEN "terminate" ELSE @]
  /\ todo' = [todo EXCEPT ![t] = {}]
  /\ vhost' = VhostAfterExit(t)
  /\ clean' = clean \ {t}
  /\ mail' = MailAfterExit(t)
  /\ UNCHANGED <<ending, pst, opts, registered, busy, sub, crashes, subFails>>
  /\ UNCHANGED <<want, last, evVars, haltedBy, base>>

(* restart: :transient - a vhost that exited abnormally comes back, one    *)
(* that was stopped (:shutdown) does not.                                  *)
VhostRestart ==
  /\ vhost = "down"
  /\ vhost' = "up"
  /\ UNCHANGED <<ending, pst, opts, registered, busy, mail, sub, crashes, subFails>>
  /\ UNCHANGED <<taskVars, evVars, histVars>>

(* :init.stop ends the node with whatever still runs on it; an instance    *)
(* that had not come up never was.                                         *)
NodeStops ==
  /\ ending
  /\ vhost' = "gone" /\ ending' = FALSE /\ sub' = "absent"
  /\ pst' = [p \in Pids |-> CASE pst[p] = "init" -> "free"
                              [] pst[p] \in {"up", "crashed"} -> "gone"
                              [] OTHER -> pst[p]]
  /\ registered' = {} /\ busy' = {} /\ mail' = {} /\ clean' = {}
  /\ pc' = [t \in Tasks |-> IF pc[t] \in Ended \cup {"idle"} THEN pc[t] ELSE "failed"]
  /\ todo' = [t \in Tasks |-> {}]
  /\ UNCHANGED <<opts, crashes, subFails, req, want, last, evVars, haltedBy, base>>

(* start_actor_from_ref and the head of start_actor: credentials (a call   *)
(* to the vhost), image bytes, claims, policy.                             *)
Fetch(t) ==
  /\ pc[t] = "fetch"
  /\ vhost = "up" /\ req[t].ref \in Refs
  /\ Goto(t, "check")
  /\ UNCHANGED <<sysVars, req, want, todo, last, evVars, histVars>>

FetchFails(t) == pc[t] = "fetch" /\ Abort(t)

(* What ActorModule.ociref(pid) answers for a registry entry: "n/a" for a  *)
(* process that is no longer alive.                                        *)
SeenRef(p) == IF p \in Up THEN opts[p].ref ELSE NoRef

OtherRefRunning(ref) == \E p \in registered : SeenRef(p) # ref

(* 1..count counts DOWN when count is 0: the range 1..0 has two elements.  *)
Iterations_Below(count) == IF count = 0 THEN 2 ELSE count - 1
Iterations(count) == IF count = 0 THEN 2 ELSE count

(* check_other_oci_already_running *)
Check(t) ==
  /\ pc[t] = "check"
  /\ ~OtherRefRunning(req[t].ref)
  /\ Goto(t, "starting")
  /\ want' = [want EXCEPT ![t] = Iterations(@)]
  /\ UNCHANGED <<sysVars, req, todo, last, evVars, histVars>>

CheckFails(t) == pc[t] = "check" /\ OtherRefRunning(req[t].ref) /\ Abort(t)

ArgsOf(t) == [ref |-> req[t].ref, tags |-> req[t].tags]

(* One DynamicSupervisor.start_child of start_actor_instances.  Instances  *)
(* run init inside the supervisor, so starts do not overlap.               *)
StartOne(t) ==
  /\ pc[t] = "starting" /\ want[t] > 0 /\ vhost = "up"
  /\ \E q \in Pids :
       /\ Boot(q, ArgsOf(t))
       /\ pst' = [pst EXCEPT ![q] = Booted]
  /\ Goto(t, IF Booted = "up" THEN "starting" ELSE "subscribing")
  /\ want' = [want EXCEPT ![t] = @ - 1]
  /\ UNCHANGED <<vhost, ending, registered, busy, mail, crashes, stoppedEv>>
  /\ UNCHANGED <<req, todo, last, haltedBy, base>>

(* The module does not precompile: init returns :ignore, the loop goes on. *)
StartIgnored(t) ==
  /\ pc[t] = "starting" /\ want[t] > 0 /\ vhost = "up" /\ SupervisorFree
  /\ want' = [want EXCEPT ![t] = @ - 1]
  /\ clean' = clean \ {t}
  /\ UNCHANGED <<sysVars, pc, req, todo, last, evVars, haltedBy, base>>

(* No live vhost to call: init fails, the loop halts with {:error, _} and  *)
(* the caller dies taking its length; earlier instances stay.              *)
StartFails(t) ==
  /\ pc[t] = "starting" /\ want[t] > 0 /\ vhost # "up" /\ SupervisorFree
  /\ Abort(t)

StartDone(t) ==
  /\ pc[t] = "starting" /\ want[t] = 0
  /\ Goto(t, "done")
  /\ UNCHANGED <<sysVars, req, want, todo, last, evVars, histVars>>

(* scale_actor: one registry read decides; going down, terminate_actor     *)
(* reads the registry again; going up, the reference given or that of a    *)
(* running instance is started.                                            *)
Diff(t) == Cardinality(registered) - req[t].count

(* abs(diff) *)
Missing_NoAbs(t) == Diff(t)
Missing(t) == 0 - Diff(t)

ScaleKeep(t) ==
  /\ pc[t] = "scale" /\ Diff(t) = 0
  /\ Goto(t, "done")
  /\ UNCHANGED <<sysVars, req, want, todo, last, evVars, histVars>>

ScaleDown(t) ==
  /\ pc[t] = "scale" /\ Diff(t) > 0
  /\ Goto(t, "snapshot")
  /\ want' = [want EXCEPT ![t] = Diff(t)]
  /\ UNCHANGED <<sysVars, req, todo, last, evVars, histVars>>

ScaleUp(t) ==
  /\ pc[t] = "scale" /\ Diff(t) < 0
  /\ \E ref \in IF req[t].ref # NoRef THEN {req[t].ref}
                ELSE {SeenRef(p) : p \in registered} :
       /\ req' = [req EXCEPT ![t].ref = ref]
  /\ Goto(t, "fetch")
  /\ want' = [want EXCEPT ![t] = Missing(t)]
  /\ UNCHANGED <<sysVars, todo, last, evVars, histVars>>

ScaleRefused(t) ==
  /\ pc[t] = "scale" /\ Diff(t) < 0 /\ req[t].ref = NoRef /\ registered = {}
  /\ Abort(t)

(* terminate_actor(.., 0, ..) and terminate_all take the number of         *)
(* instances to halt from a first registry read.                           *)
CountAll(t) ==
  /\ pc[t] = "count"
  /\ Goto(t, "snapshot")
  /\ want' = [want EXCEPT ![t] = Cardinality(registered)]
  /\ UNCHANGED <<sysVars, req, todo, last, evVars, histVars>>

StopsAll(t) == req[t].op = "stop" /\ req[t].count = 0

(* Enum.take(actors, count), in any order; remaining <= 0.                 *)
Picks_All(t) == {registered}
Picks(t) == {S \in SUBSET registered :
               Cardinality(S) = Least(want[t], Cardinality(registered))}

NoneRemain_Strict(t) == Cardinality(registered) < want[t]
NoneRemain(t) == Cardinality(registered) <= want[t]

(* halt_required_actors: a second registry read; `remaining` counts the    *)
(* entries read minus the number asked for, and Enum.take picks some of    *)
(* them (the order of Registry.select is not specified).  With none        *)
(* remaining, or in a stop of all, t goes on to stop the subscriber.       *)
Snapshot(t) ==
  /\ pc[t] = "snapshot"
  /\ \E S \in Picks(t) : todo' = [todo EXCEPT ![t] = S]
  /\ last' = IF StopsAll(t) \/ (req[t].op \in {"stop", "scale"} /\ NoneRemain(t))
             THEN last \cup {t} ELSE last
  /\ Goto(t, "halting")
  /\ UNCHANGED <<sysVars, req, want, evVars, histVars>>

(* GenServer.call waits for the answer.                                    *)
AfterSend_Cast == "halting"
AfterSend == "await"

(* Map.merge(existing, annotations) == existing; %{} for a dead process.   *)
Matches_Any(t, p) == TRUE
Matches(t, p) == req[t].tags \subseteq (IF p \in Up THEN opts[p].tags ELSE {})

(* ActorModule.halt(pid) of one picked instance: the call is sent ...      *)
SendHalt(t) ==
  /\ pc[t] = "halting"
  /\ \E p \in todo[t] \cap Up :
       /\ Matches(t, p)
       /\ todo' = [todo EXCEPT ![t] = @ \ {p}]
       /\ mail' = mail \cup {<<t, p>>}
  /\ Goto(t, AfterSend)
  /\ UNCHANGED <<vhost, ending, pst, opts, registered, busy, sub, crashes, subFails>>
  /\ UNCHANGED <<req, want, last, evVars, histVars>>

(* ... or not: the annotations differ, or the process is not alive.        *)
SkipInstance(t) ==
  /\ pc[t] = "halting"
  /\ \E p \in todo[t] :
       /\ p \notin Up \/ ~Matches(t, p)
       /\ todo' = [todo EXCEPT ![t] = @ \ {p}]
  /\ UNCHANGED <<sysVars, pc, req, want, last, evVars, histVars>>

(* The called process died before it answered: the caller exits too.       *)
CalleeDied_Unnoticed(t) == FALSE
CalleeDied(t) ==
  /\ pc[t] = "await" /\ \A p \in Pids : <<t, p>> \notin mail
  /\ Abort(t)

(* GenServer.call gives up after 5 s on an instance that is handling an    *)
(* invocation, and exits at once when the instance died after the alive?   *)
(* check: the caller exits, a halt already sent stays in the mailbox.      *)
CallFails(t) ==
  /\ \/ pc[t] = "scale" /\ req[t].ref = NoRef /\ registered \cap busy # {}
     \/ pc[t] = "check" /\ registered \cap (busy \cup (Pids \ Up)) # {}
     \/ pc[t] = "halting" /\ todo[t] \cap (busy \cup (Pids \ Up)) # {}
     \/ pc[t] = "await" /\ \E p \in busy : <<t, p>> \in mail
  /\ Abort(t)

(* All picked instances dealt with.  Purge: the vhost is back; or it exits *)
(* after it published host_stopped, for good (:shutdown) or with the reason*)
(* of the purge that failed; nobody stops the RPC subscriber.              *)
FinishHalts(t) ==
  /\ pc[t] = "halting" /\ todo[t] = {}
  /\ Goto(t, IF t \in last THEN "unsub" ELSE "done")
  /\ vhost' = CASE req[t].op = "purge" -> "up"
                [] req[t].op = "stophost" -> "gone"
                [] req[t].op = "terminate" -> "down"
                [] OTHER -> vhost
  /\ UNCHANGED <<ending, pst, opts, registered, busy, mail, sub, crashes, subFails>>
  /\ UNCHANGED <<req, want, todo, last, evVars, histVars>>

(* ActorRpcSupervisor.stop_rpc_subscriber: terminate_child ...             *)
TerminateSub(t) ==
  /\ pc[t] = "unsub"
  /\ Goto(t, IF sub = "absent" THEN "done" ELSE "delete")
  /\ sub' = IF sub = "absent" THEN sub ELSE "terminated"
  /\ UNCHANGED <<vhost, ending, pst, opts, registered, busy, mail, crashes, subFails>>
  /\ UNCHANGED <<req, want, todo, last, evVars, histVars>>

(* ... then delete_child, which leaves a running child alone.              *)
AfterDelete(s) == IF s = "terminated" THEN "absent" ELSE s

DeleteSub(t) ==
  /\ pc[t] = "delete"
  /\ Goto(t, "done")
  /\ sub' = AfterDelete(sub)
  /\ UNCHANGED <<vhost, ending, pst, opts, registered, busy, mail, crashes, subFails>>
  /\ UNCHANGED <<req, want, todo, last, evVars, histVars>>

-----------------------------------------------------------------------------

Answer(t)   == \E p \in Pids : HandleHalt(t, p)

TaskStep(t) ==
  \/ Fetch(t) \/ FetchFails(t) \/ Check(t) \/ CheckFails(t)
  \/ StartOne(t) \/ StartIgnored(t) \/ StartFails(t) \/ StartDone(t)
  \/ ScaleKeep(t) \/ ScaleDown(t) \/ ScaleUp(t) \/ ScaleRefused(t)
  \/ CountAll(t) \/ Snapshot(t) \/ SendHalt(t) \/ SkipInstance(t)
  \/ CalleeDied(t) \/ FinishHalts(t) \/ TerminateSub(t) \/ DeleteSub(t)

InstanceStep(p) ==
  Resubscribe(p) \/ Register(p) \/ Unregister(p) \/ InvokeEnd(p) \/ Restart(p)

(* Every request that can still arrive has been served.                    *)
AllServed ==
  /\ \A t \in Tasks : pc[t] \in Ended \/ (pc[t] = "idle" /\ vhost = "gone")
  /\ UNCHANGED vars

Next ==
  \/ \E t \in Tasks : \/ \E r \in Requests : Launch(t, r)
                      \/ TaskStep(t) \/ CallFails(t)
  \/ \E t \in Tasks \cup {NoTask} : Answer(t)
  \/ \E p \in Pids : InstanceStep(p) \/ InvokeBegin(p) \/ Crash(p)
  \/ RestartsExhausted \/ VhostRestart \/ NodeStops
  \/ AllServed

Spec == Init /\ [][Next]_vars

(* The BEAM schedules every runnable process; an invocation ends (or the   *)
(* instance crashes) and supervisors and registries act on what they see.  *)
Fairness ==
  /\ \A t \in Tasks : WF_vars(TaskStep(t))
  /\ \A t \in Tasks \cup {NoTask} : WF_vars(Answer(t))
  /\ \A p \in Pids : WF_vars(InstanceStep(p))
  /\ WF_vars(RestartsExhausted) /\ WF_vars(VhostRestart) /\ WF_vars(NodeStops)

FairSpec == Spec /\ Fairness

-----------------------------------------------------------------------------
(* Properties *)

TypeOK ==
  /\ vhost \in {"up", "busy", "stopping", "down", "gone"} /\ ending \in BOOLEAN
  /\ pst \in [Pids -> PStates]
  /\ opts \in [Pids -> Args]
  /\ registered \subseteq Pids /\ busy \subseteq Pids
  /\ mail \subseteq (Tasks \cup {NoTask}) \X Pids
  /\ sub \in {"absent", "running", "terminated"}
  /\ pc \in [Tasks -> PCs]
  /\ req \in [Tasks -> Request]
  /\ want \in [Tasks -> Nat] /\ todo \in [Tasks -> SUBSET Pids]
  /\ last \subseteq Tasks
  /\ crashes \in Nat /\ subFails \in Nat /\ startedEv \in Nat /\ stoppedEv \in Nat
  /\ haltedBy \in [Pids -> Tasks \cup {NoTask}]
  /\ base \in [Tasks -> Nat] /\ clean \subseteq Tasks

HaltedBy(t) == {p \in Pids : haltedBy[p] = t}

(* However requests overlap, time out, or find instances restarted, a stop *)
(* or scale request halts no more instances than it was asked to           *)
(* (terminate_actor, halt_required_actors).                                *)
HaltsWithinRequest ==
  \A t \in Tasks :
    /\ req[t].op \in {"stop", "scale"} => Cardinality(HaltedBy(t)) <= want[t]
    /\ req[t].op = "stop" /\ req[t].count > 0 => Cardinality(HaltedBy(t)) <= req[t].count

(* An instance is halted only by a request whose annotations it carries,   *)
(* also when the halt is handled after its caller gave up and when the     *)
(* picked process was replaced in between (halt_required_actors).          *)
HaltsMatchAnnotations ==
  \A p \in Pids : haltedBy[p] # NoTask =>
    req[haltedBy[p]].tags \subseteq opts[p].tags

(* What a listener reconstructs from the events: every instance announced  *)
(* its start once, and exactly the halted ones their stop, once, although  *)
(* several requests may call halt on one instance (halt_and_cleanup).      *)
EventsMatchInstances ==
  /\ startedEv = Cardinality({p \in Pids : pst[p] \notin {"free", "init"}})
  /\ stoppedEv = Cardinality({p \in Pids : pst[p] = "halted"})

(* A halt waits only in the mailbox of a live instance, for a caller that  *)
(* waits or has given up: no request stops the subscriber, or answers,     *)
(* with a halt of its own still to come (ActorModule.halt is synchronous). *)
HaltBeforeUnsubscribe ==
  \A m \in mail : pst[m[2]] = "up" /\ (m[1] \in Tasks => pc[m[1]] \in {"await", "failed"})

(* An instance comes up unsubscribed only when the supervisor of the       *)
(* subscribers refused its subscriber, or when a stop deleted the          *)
(* terminated subscriber between the two calls that were to bring it back; *)
(* both are only logged (start_or_reuse_consumer_supervisor).              *)
StartsSubscribed ==
  [][\A p \in Pids : pst[p] # "up" /\ pst'[p] = "up" =>
       \/ sub' = "running"
       \/ subFails' > subFails
       \/ pst[p] = "init" /\ sub = "absent"]_vars

Completes(t) == pc[t] # "done" /\ pc'[t] = "done" /\ t \in clean
Live == Cardinality(Up)

(* A start that nothing disturbs adds exactly `count` instances, two for a *)
(* count of 0, and leaves the subscriber running (start_actor_instances).  *)
UndisturbedStart ==
  [][\A t \in Tasks : Completes(t) /\ req[t].op = "start" =>
       /\ Live' = base[t] + (IF req[t].count = 0 THEN 2 ELSE req[t].count)
       /\ sub' = "running"]_vars

(* As many instances asked for as there were, whichever of them match.     *)
AsksForAll(t) ==
  \/ req[t].op = "stop" /\ (req[t].count = 0 \/ base[t] <= req[t].count)
  \/ req[t].op = "scale" /\ req[t].count = 0 /\ base[t] > 0

(* A scale that nothing disturbs ends with the desired count; a stop of    *)
(* count instances leaves the rest, a stop of all none.  The subscriber is *)
(* stopped exactly when as many instances were asked for as there were,    *)
(* also when their annotations kept some of them running - not when the    *)
(* last one ends, as the moduledoc of ActorRpcServer has it (scale_actor,  *)
(* terminate_actor, halt_required_actors).                                 *)
UndisturbedStop ==
  [][\A t \in Tasks :
       /\ Completes(t) /\ req[t].op = "scale" => Live' = req[t].count
       /\ Completes(t) /\ req[t].op = "stop" /\ req[t].tags = {} =>
            Live' = IF req[t].count \in 1..base[t]
                    THEN base[t] - req[t].count ELSE 0
       /\ Completes(t) /\ AsksForAll(t) => sub' = "absent"
       /\ pc[t] # "unsub" /\ pc'[t] = "unsub" /\ t \in clean => AsksForAll(t)]_vars

(* Every request ends: no call waits for ever, whichever instances die,    *)
(* are busy or are halted by somebody else.                                *)
RequestsEnd ==
  \A t \in Tasks : (pc[t] \notin Ended \cup {"idle"}) ~> (pc[t] \in Ended)

(* A host that purges or stops does not hang: it answers its callers again *)
(* or is gone, even when an instance it halts is busy, dies, or is being   *)
(* halted by somebody else.  It may be back after a stop: an exit inside   *)
(* terminate/2 makes the supervisor restart it (do_purge, terminate).      *)
HostSettles == (vhost \notin {"up", "gone"}) ~> (vhost \in {"up", "gone"})

(* ActorRpcServer's moduledoc: the consumer "is stopped when the _last     *)
(* instance_ of that actor terminates".                                    *)
SubscriberWhileRunning == Up # {} => sub = "running"

(* start_actor's comment: "Ensure no other OCI reference is running for    *)
(* this actor ID".                                                         *)
OneReference == \A p, q \in Up : opts[p].ref = opts[q].ref
=============================================================================
