-------------------------- MODULE ProviderLifecycle --------------------------
(***************************************************************************)
(* The capability providers of ONE virtual host:                           *)
(* HostCore.Providers.ProviderSupervisor and ProviderModule, driven by the *)
(* control interface.                                                      *)
(*                                                                         *)
(* A provider is a public key with a link name.  An instance of it is an   *)
(* Erlang process with a port to an operating-system process.  A request   *)
(* is a task with a program counter; whoever asks which providers run      *)
(* (before a start, inside the init of a new instance, before a stop)      *)
(* reads the registry once and then calls EVERY registered instance of the *)
(* host, one after the other.  The supervisor does one init at a time.     *)
(*                                                                         *)
(* A definition named X_Y is a faulty variant of X that no action uses.    *)
(***************************************************************************)
EXTENDS Integers, FiniteSets

CONSTANTS
  Pids,        \* processes that can become instances
  Tasks,       \* processes that serve requests
  Refs, Keys,  \* image references; providers
  KeyOf,       \* KeyOf[r]: the provider that reference r carries
  Requests,    \* the requests that may arrive
  NoStart,     \* ProviderSupervisor is idle
  Running,     \* the references of the instances running at the outset
  MaxRestarts, \* restarts DynamicSupervisor allows in its 5 s window
  MaxCrashes,  \* bound: crashes and failed restarts explored
  MaxBusy      \* bound: health checks in flight at once

(* A stop names the provider (public key and link name) of the reference.  *)
Request == [op : {"start", "stop", "stopall"}, ref : Refs]

(* The init the supervisor waits for: of pid new, for a task or in place   *)
(* of a crashed pid; the pids it has still to call, and what it has seen.  *)
Start == [by : Tasks \cup Pids, new : Pids, at : {"check", "query"},
          todo : SUBSET Pids, dup : BOOLEAN]

ASSUME ProviderAssumption ==
  /\ IsFiniteSet(Pids) /\ KeyOf \in [Refs -> Keys] /\ Refs # {}
  /\ \E P \in SUBSET Pids : Running \in [P -> Refs]
  /\ Requests \subseteq Request /\ Requests # {}
  /\ NoStart \notin Start /\ Tasks \cap Pids = {}
  /\ MaxRestarts \in Nat /\ MaxCrashes \in Nat /\ MaxBusy \in Nat

VARIABLES
  pst,        \* pst[p]: free, init, up, halting (in halt_cleanup), halted,
              \* stopped (its port closed), crashed (to be restarted), gone
  ref,        \* ref[p]: the reference instance p was started with
  os,         \* os[p]: its operating-system process: none, running, doomed
              \* (kill -9 on its way), exited
  down,       \* instances with a DOWN message of their port in the mailbox
  registered, \* pids with an entry in Registry.ProviderRegistry
  busy,       \* instances inside a health check
  mail,       \* <<t, p>>: t's halt_cleanup call is with p
  sup,        \* what ProviderSupervisor is doing
  mapped,     \* references that the host's reference maps resolve
  pc, req,    \* per task: program counter and request
  todo,       \* per task: pids still to call
  picked,     \* per task: pids to halt
  dup,        \* per task: whether it saw the provider running
  crashes,    \* crashes and failed restarts so far
  startedEv, stoppedEv,   \* per pid: provider_started / _stopped published
  before,     \* history: instances of the same provider that were alive
              \* and registered when the start of an instance began
  had,        \* history: live instances when a clean task was launched
  clean       \* history: tasks nothing else has disturbed

procVars == <<pst, ref, os, down, registered, busy, mail, sup, mapped, crashes>>
taskVars == <<pc, req, todo, picked, dup>>
evVars   == <<startedEv, stoppedEv>>
histVars == <<before, had, clean>>
vars == <<procVars, taskVars, evVars, histVars>>

Alive == {p \in Pids : pst[p] \in {"up", "halting"}}
Ended == {"done", "failed"}
Key(p) == KeyOf[ref[p]]
InstancesOf(k) == {p \in Alive : Key(p) = k}

Init ==
  /\ pst = [p \in Pids |-> IF p \in DOMAIN Running THEN "up" ELSE "free"]
  /\ ref = [p \in Pids |-> IF p \in DOMAIN Running THEN Running[p]
                           ELSE CHOOSE r \in Refs : TRUE]
  /\ os = [p \in Pids |-> IF p \in DOMAIN Running THEN "running" ELSE "none"]
  /\ down = {} /\ registered = DOMAIN Running /\ busy = {} /\ mail = {}
  /\ sup = NoStart /\ mapped = {Running[p] : p \in DOMAIN Running} /\ crashes = 0
  /\ pc = [t \in Tasks |-> "idle"] /\ req = [t \in Tasks |-> CHOOSE r \in Requests : TRUE]
  /\ todo = [t \in Tasks |-> {}] /\ picked = [t \in Tasks |-> {}]
  /\ dup = [t \in Tasks |-> FALSE]
  /\ startedEv = [p \in Pids |-> IF p \in DOMAIN Running THEN 1 ELSE 0]
  /\ stoppedEv = [p \in Pids |-> 0]
  /\ before = [p \in Pids |-> {}] /\ had = [t \in Tasks |-> {}] /\ clean = {}

-----------------------------------------------------------------------------
(* Instances *)

(* handle_continue(:register_provider), before any message is handled.     *)
Register(p) ==
  /\ pst[p] = "up" /\ p \notin registered
  /\ registered' = registered \cup {p}
  /\ UNCHANGED <<pst, ref, os, down, busy, mail, sup, mapped, crashes>>
  /\ UNCHANGED <<taskVars, evVars, histVars>>

(* The registry drops the entry once it sees the owner's exit.             *)
Unregister(p) ==
  /\ p \in registered \ Alive
  /\ registered' = registered \ {p}
  /\ UNCHANGED <<pst, ref, os, down, busy, mail, sup, mapped, crashes>>
  /\ UNCHANGED <<taskVars, evVars, histVars>>

(* Answers calls and messages.                                             *)
Ready(p) == pst[p] = "up" /\ p \in registered \ busy

(* :do_health asks the provider over NATS, up to the RPC timeout; it does  *)
(* not overtake a message that waits.                                      *)
HealthBegin(p) ==
  /\ Ready(p) /\ Cardinality(busy) < MaxBusy
  /\ p \notin down /\ \A m \in mail : m[2] # p
  /\ busy' = busy \cup {p}
  /\ UNCHANGED <<pst, ref, os, down, registered, mail, sup, mapped, crashes>>
  /\ UNCHANGED <<taskVars, evVars, histVars>>

HealthEnd(p) ==
  /\ p \in busy
  /\ busy' = busy \ {p}
  /\ UNCHANGED <<pst, ref, os, down, registered, mail, sup, mapped, crashes>>
  /\ UNCHANGED <<taskVars, evVars, histVars>>

(* A process that ends leaves its mailbox: calls and DOWN messages.        *)
Leave_Kept(p) == UNCHANGED <<busy, mail, down>>
Leave(p) ==
  /\ busy' = busy \ {p}
  /\ mail' = {m \in mail : m[2] # p}
  /\ down' = down \ {p}

(* handle_call(:halt_cleanup) asks the provider to shut down and waits up  *)
(* to 2 s, whether or not it answers ...                                   *)
HaltBegin(p) ==
  /\ Ready(p) /\ \E t \in Tasks : <<t, p>> \in mail
  /\ pst' = [pst EXCEPT ![p] = "halting"]
  /\ UNCHANGED <<ref, os, down, registered, busy, mail, sup, mapped, crashes>>
  /\ UNCHANGED <<taskVars, evVars, histVars>>

(* {:stop, :shutdown, ..}, and not {:reply, ..}.                           *)
AfterHalt_Reply == "up"
AfterHalt == "halted"

(* What becomes of the operating-system process of a halted instance.      *)
Doomed_Spared(p) == os[p]
Doomed(p) == IF os[p] = "running" THEN "doomed" ELSE os[p]

(* ... then has the operating-system process killed by a task, publishes   *)
(* provider_stopped and stops.  One caller has its answer; other callers   *)
(* see the process gone.                                                   *)
HaltEnd(p) ==
  /\ pst[p] = "halting"
  /\ pst' = [pst EXCEPT ![p] = AfterHalt]
  /\ os' = [os EXCEPT ![p] = Doomed(p)]
  /\ stoppedEv' = [stoppedEv EXCEPT ![p] = @ + 1]
  /\ Leave(p)
  /\ \E m \in {n \in mail : n[2] = p} :
       pc' = [t \in Tasks |-> IF t = m[1] /\ pc[t] = "await" THEN "halting" ELSE pc[t]]
  /\ UNCHANGED <<ref, registered, sup, mapped, crashes, req, todo, picked, dup>>
  /\ UNCHANGED <<startedEv, histVars>>

(* The provider exits, of itself or because it was asked to shut down; its *)
(* process is told.  (Without a process the exit has no effect.)           *)
OsExit(p) ==
  /\ os[p] = "running" /\ p \in Alive
  /\ os' = [os EXCEPT ![p] = "exited"]
  /\ down' = down \cup {p}
  /\ clean' = IF pst[p] = "up" THEN {} ELSE clean
  /\ UNCHANGED <<pst, ref, registered, busy, mail, sup, mapped, crashes>>
  /\ UNCHANGED <<taskVars, evVars, before, had>>

Kill(p) ==
  /\ os[p] = "doomed"
  /\ os' = [os EXCEPT ![p] = "exited"]
  /\ UNCHANGED <<pst, ref, down, registered, busy, mail, sup, mapped, crashes>>
  /\ UNCHANGED <<taskVars, evVars, histVars>>

(* handle_info({:DOWN, ..}): provider_stopped is published and the process *)
(* stops, with :shutdown (not restarted) when the port closed normally.    *)
DownNormal(p) ==
  /\ p \in down /\ Ready(p)
  /\ pst' = [pst EXCEPT ![p] = "stopped"]
  /\ stoppedEv' = [stoppedEv EXCEPT ![p] = @ + 1]
  /\ Leave(p)
  /\ UNCHANGED <<ref, os, registered, sup, mapped, crashes>>
  /\ UNCHANGED <<taskVars, startedEv, histVars>>

DownAbnormal(p) ==
  /\ p \in down /\ Ready(p) /\ crashes < MaxCrashes
  /\ pst' = [pst EXCEPT ![p] = "crashed"]
  /\ crashes' = crashes + 1
  /\ stoppedEv' = [stoppedEv EXCEPT ![p] = @ + 1]
  /\ Leave(p)
  /\ UNCHANGED <<ref, os, registered, sup, mapped>>
  /\ UNCHANGED <<taskVars, startedEv, histVars>>

(* The process dies in a request to NATS whose connection went away, or    *)
(* with its port: nothing is published, nothing is killed.                 *)
Crash(p) ==
  /\ p \in Alive /\ crashes < MaxCrashes
  /\ pst' = [pst EXCEPT ![p] = "crashed"]
  /\ crashes' = crashes + 1
  /\ Leave(p)
  /\ clean' = {}
  /\ UNCHANGED <<ref, os, registered, sup, mapped>>
  /\ UNCHANGED <<taskVars, evVars, before, had>>

-----------------------------------------------------------------------------
(* ProviderSupervisor *)

(* A process identifier never used before.                                 *)
Fresh == CHOOSE q \in Pids : pst[q] = "free"

StartsInit(who, r) ==
  /\ sup = NoStart /\ \E q \in Pids : pst[q] = "free"
  /\ sup' = [by |-> who, new |-> Fresh, at |-> "check", todo |-> {}, dup |-> FALSE]
  /\ pst' = [pst EXCEPT ![Fresh] = "init"]
  /\ ref' = [ref EXCEPT ![Fresh] = r]
  /\ before' = [before EXCEPT ![Fresh] = {p \in registered \cap Alive : Key(p) = KeyOf[r]}]
  /\ UNCHANGED <<os, down, registered, busy, mail, mapped, crashes, evVars, had, clean>>

StartChild(t) ==
  /\ pc[t] = "start"
  /\ StartsInit(t, req[t].ref)
  /\ pc' = [pc EXCEPT ![t] = "starting"]
  /\ UNCHANGED <<req, todo, picked, dup>>

(* restart: :transient, with the arguments of the first start.             *)
Restart(p) ==
  /\ pst[p] = "crashed"
  /\ StartsInit(p, ref[p])
  /\ UNCHANGED taskVars

(* is_running?: an entry of this provider, whatever its process does.      *)
Duplicate_Any(r) == registered # {}
Duplicate_ByRef(r) == \E p \in registered : ref[p] = r
Duplicate(r) == \E p \in registered : Key(p) = KeyOf[r]

(* ProviderModule.init looks whether the provider is running already ...   *)
InitCheck ==
  /\ sup # NoStart /\ sup.at = "check"
  /\ sup' = [sup EXCEPT !.at = "query", !.todo = registered,
                       !.dup = Duplicate(ref[sup.new])]
  /\ UNCHANGED <<pst, ref, os, down, registered, busy, mail, mapped, crashes>>
  /\ UNCHANGED <<taskVars, evVars, histVars>>

(* contract_id and instance_id of an instance: answered, or not asked for  *)
(* because the process is not alive.                                       *)
Answers(p) == Ready(p) \/ p \notin Alive
(* The call exits: the process died under it, or took more than 5 s.       *)
MayFail(p) == ~Ready(p)

InitQuery ==
  /\ sup # NoStart /\ sup.at = "query"
  /\ \E p \in sup.todo : Answers(p) /\ sup' = [sup EXCEPT !.todo = @ \ {p}]
  /\ UNCHANGED <<pst, ref, os, down, registered, busy, mail, mapped, crashes>>
  /\ UNCHANGED <<taskVars, evVars, histVars>>

(* The init is over: the supervisor is free, a requester has its result.   *)
Ends(label, new, old) ==
  /\ sup' = NoStart
  /\ pst' = [p \in Pids |-> IF p = sup.new THEN new ELSE IF p = sup.by THEN old ELSE pst[p]]
  /\ pc' = [t \in Tasks |-> IF t = sup.by THEN label ELSE pc[t]]
  /\ UNCHANGED <<down, registered, busy, mail, req, todo, picked, dup, before, had>>

(* A call of the init exits, or Port.open raises.  A failed restart counts *)
(* as another crash.                                                       *)
InitDies ==
  /\ sup # NoStart /\ sup.at = "query"
  /\ (\E p \in sup.todo : MayFail(p)) \/ (sup.todo = {} /\ ~sup.dup)
  /\ sup.by \in Pids => crashes < MaxCrashes
  /\ crashes' = IF sup.by \in Pids THEN crashes + 1 ELSE crashes
  /\ Ends("failed", "gone", "crashed")
  /\ clean' = clean \ {sup.by}
  /\ UNCHANGED <<ref, os, mapped, evVars>>

(* :ignore; in a restart the supervisor forgets the child.                 *)
InitIgnored ==
  /\ sup # NoStart /\ sup.at = "query" /\ sup.todo = {} /\ sup.dup
  /\ Ends("done", "gone", "gone")
  /\ UNCHANGED <<ref, os, mapped, crashes, evVars, clean>>

(* Port.open, claims, provider_started, reference map.                     *)
InitStarts ==
  /\ sup # NoStart /\ sup.at = "query" /\ sup.todo = {} /\ ~sup.dup
  /\ Ends("done", "up", "gone")
  /\ os' = [os EXCEPT ![sup.new] = "running"]
  /\ startedEv' = [startedEv EXCEPT ![sup.new] = @ + 1]
  /\ mapped' = mapped \cup {ref[sup.new]}
  /\ UNCHANGED <<ref, crashes, stoppedEv, clean>>

(* More restarts than allowed: ProviderSupervisor exits with every         *)
(* instance, without an event, and starts anew; a start_child call that    *)
(* waited for it exits.                                                    *)
RestartsExhausted ==
  /\ sup = NoStart /\ \E p \in Pids : pst[p] = "crashed"
  /\ crashes > MaxRestarts
  /\ pst' = [p \in Pids |-> IF p \in Alive \/ pst[p] = "crashed" THEN "gone" ELSE pst[p]]
  /\ busy' = {} /\ mail' = {} /\ down' = {} /\ clean' = {}
  /\ \E F \in SUBSET {t \in Tasks : pc[t] = "start"} :
       pc' = [t \in Tasks |-> IF t \in F THEN "failed" ELSE pc[t]]
  /\ UNCHANGED <<ref, os, registered, sup, mapped, crashes>>
  /\ UNCHANGED <<req, todo, picked, dup, evVars, before, had>>

-----------------------------------------------------------------------------
(* Requests *)

Goto(t, label) == pc' = [pc EXCEPT ![t] = label]

(* Nothing is under way, and every instance serves.                        *)
Quiet ==
  /\ \A u \in Tasks : pc[u] \in Ended \cup {"idle"}
  /\ mail = {} /\ down = {} /\ sup = NoStart /\ registered = Alive
  /\ \A p \in Pids : pst[p] # "crashed"

Launch(t, r) ==
  /\ pc[t] = "idle"
  /\ Goto(t, IF r.op = "start" THEN "check" ELSE "list")
  /\ req' = [req EXCEPT ![t] = r]
  /\ had' = [had EXCEPT ![t] = IF Quiet THEN Alive ELSE {}]
  /\ clean' = IF Quiet THEN {t} ELSE {}
  /\ UNCHANGED <<procVars, todo, picked, dup, evVars, before>>

Abort(t) ==
  /\ Goto(t, "failed")
  /\ todo' = [todo EXCEPT ![t] = {}] /\ picked' = [picked EXCEPT ![t] = {}]
  /\ clean' = clean \ {t}
  /\ UNCHANGED <<procVars, req, dup, evVars, before, had>>

(* provider_running? knows the provider of a reference from the reference  *)
(* maps only; without an entry nobody is asked.  The control interface     *)
(* looks before it acknowledges, start_executable_provider looks again.    *)
Look(t) ==
  /\ pc[t] \in {"check", "recheck"}
  /\ LET known == req[t].ref \in mapped
     IN  /\ todo' = [todo EXCEPT ![t] = IF known THEN registered ELSE {}]
         /\ dup' = [dup EXCEPT ![t] = known /\ Duplicate(req[t].ref)]
  /\ Goto(t, IF pc[t] = "check" THEN "checking" ELSE "rechecking")
  /\ UNCHANGED <<procVars, req, picked, evVars, histVars>>

(* all_providers calls every instance that the registry lists.             *)
Targets_All(t) == registered
Targets(t) ==
  {p \in registered : req[t].op = "stopall" \/ Key(p) = KeyOf[req[t].ref]}

List(t) ==
  /\ pc[t] = "list"
  /\ Goto(t, "listing")
  /\ todo' = [todo EXCEPT ![t] = registered]
  /\ picked' = [picked EXCEPT ![t] = Targets(t)]
  /\ UNCHANGED <<procVars, req, dup, evVars, histVars>>

Query(t) ==
  /\ pc[t] \in {"checking", "rechecking", "listing"}
  /\ \E p \in todo[t] : Answers(p) /\ todo' = [todo EXCEPT ![t] = @ \ {p}]
  /\ UNCHANGED <<procVars, pc, req, picked, dup, evVars, histVars>>

(* Not running: fetch the image, ask the policy, look again, start.        *)
NotRunning(t) ==
  /\ pc[t] \in {"checking", "rechecking"} /\ todo[t] = {} /\ ~dup[t]
  /\ Goto(t, IF pc[t] = "checking" THEN "fetch" ELSE "start")
  /\ UNCHANGED <<procVars, req, todo, picked, dup, evVars, histVars>>

(* "Provider is already running on this host"; provider_start_failed.      *)
Refused(t) ==
  /\ pc[t] \in {"checking", "rechecking"} /\ todo[t] = {} /\ dup[t]
  /\ Goto(t, "done")
  /\ UNCHANGED <<procVars, req, todo, picked, dup, evVars, histVars>>

Fetch(t) ==
  /\ pc[t] = "fetch"
  /\ Goto(t, "recheck")
  /\ UNCHANGED <<procVars, req, todo, picked, dup, evVars, histVars>>

FetchFails(t) == pc[t] = "fetch" /\ Abort(t)

Listed(t) ==
  /\ pc[t] = "listing" /\ todo[t] = {}
  /\ Goto(t, "halting")
  /\ UNCHANGED <<procVars, req, todo, picked, dup, evVars, histVars>>

(* ProviderModule.halt of one instance after the other.                    *)
SendHalt(t) ==
  /\ pc[t] = "halting"
  /\ \E p \in picked[t] \cap Alive :
       /\ picked' = [picked EXCEPT ![t] = @ \ {p}]
       /\ mail' = mail \cup {<<t, p>>}
  /\ Goto(t, "await")
  /\ UNCHANGED <<pst, ref, os, down, registered, busy, sup, mapped, crashes>>
  /\ UNCHANGED <<req, todo, dup, evVars, histVars>>

SkipInstance(t) ==
  /\ pc[t] = "halting"
  /\ \E p \in picked[t] \ Alive : picked' = [picked EXCEPT ![t] = @ \ {p}]
  /\ UNCHANGED <<procVars, pc, req, todo, dup, evVars, histVars>>

FinishHalts(t) ==
  /\ pc[t] = "halting" /\ picked[t] = {}
  /\ Goto(t, "done")
  /\ UNCHANGED <<procVars, req, todo, picked, dup, evVars, histVars>>

(* The called process is gone and never answered.                          *)
CalleeDied_Unnoticed(t) == FALSE
CalleeDied(t) ==
  /\ pc[t] = "await" /\ \A p \in Pids : <<t, p>> \notin mail
  /\ Abort(t)

(* A call of t exits: its instance died, or did not answer in 5 s (a halt  *)
(* already sent stays in the mailbox).                                     *)
CallFails(t) ==
  /\ \/ pc[t] \in {"checking", "rechecking", "listing"} /\ \E p \in todo[t] : MayFail(p)
     \/ pc[t] = "halting" /\ \E p \in picked[t] : p \notin Alive
     \/ pc[t] = "await" /\ \E p \in Pids : <<t, p>> \in mail /\ p \in busy
  /\ Abort(t)

-----------------------------------------------------------------------------

TaskStep(t) ==
  \/ Look(t) \/ List(t) \/ Query(t) \/ NotRunning(t) \/ Refused(t)
  \/ Fetch(t) \/ FetchFails(t) \/ StartChild(t) \/ Listed(t)
  \/ SendHalt(t) \/ SkipInstance(t) \/ FinishHalts(t) \/ CalleeDied(t)

SupStep == InitCheck \/ InitQuery \/ InitDies \/ InitIgnored \/ InitStarts

InstanceStep(p) ==
  \/ Register(p) \/ Unregister(p) \/ HealthEnd(p)
  \/ HaltBegin(p) \/ HaltEnd(p) \/ DownNormal(p) \/ Kill(p) \/ Restart(p)

(* Every request that can still arrive has been served.                    *)
AllServed == (\A t \in Tasks : pc[t] \in Ended) /\ UNCHANGED vars

Next ==
  \/ \E t \in Tasks : \/ \E r \in Requests : Launch(t, r)
                      \/ TaskStep(t) \/ CallFails(t)
  \/ \E p \in Pids : \/ InstanceStep(p) \/ HealthBegin(p) \/ DownAbnormal(p)
                     \/ OsExit(p) \/ Crash(p)
  \/ SupStep
  \/ RestartsExhausted
  \/ AllServed

Spec == Init /\ [][Next]_vars

(* Processes run on, a health check and a shutdown request end, a kill     *)
(* takes effect; a call that waits between health checks is answered (SF). *)
(* Nothing obliges a provider to exit of itself.                           *)
Fairness ==
  /\ \A t \in Tasks : SF_vars(TaskStep(t))
  /\ \A p \in Pids : WF_vars(InstanceStep(p))
  /\ SF_vars(SupStep) /\ WF_vars(RestartsExhausted)

FairSpec == Spec /\ Fairness

-----------------------------------------------------------------------------
(* Properties *)

PStates == {"free", "init", "up", "halting", "halted", "stopped", "crashed", "gone"}
PCs == {"idle", "check", "checking", "fetch", "recheck", "rechecking", "start",
        "starting", "list", "listing", "halting", "await", "done", "failed"}

(* Types; and a process that has ended leaves no call, DOWN message or     *)
(* health check behind (GenServer of ProviderModule).                      *)
TypeOK ==
  /\ pst \in [Pids -> PStates] /\ ref \in [Pids -> Refs]
  /\ os \in [Pids -> {"none", "running", "doomed", "exited"}]
  /\ down \subseteq Alive /\ registered \subseteq Pids
  /\ busy \subseteq Alive \cap registered
  /\ mail \subseteq Tasks \X Alive
  /\ sup \in Start \cup {NoStart} /\ mapped \subseteq Refs /\ crashes \in Nat
  /\ pc \in [Tasks -> PCs] /\ req \in [Tasks -> Request]
  /\ todo \in [Tasks -> SUBSET Pids] /\ picked \in [Tasks -> SUBSET Pids]
  /\ dup \in [Tasks -> BOOLEAN]
  /\ startedEv \in [Pids -> Nat] /\ stoppedEv \in [Pids -> Nat]
  /\ before \in [Pids -> SUBSET Pids] /\ had \in [Tasks -> SUBSET Pids]
  /\ clean \subseteq Tasks

(* Each instance announces its start once and its stop at most once, only  *)
(* when it has ended, and surely when it was halted or its port closed:    *)
(* also when the provider exits while its instance is being halted, or     *)
(* when several requests halt it (halt_cleanup, handle_info(:DOWN)).       *)
EventsMatchInstances ==
  \A p \in Pids :
    CASE pst[p] \in {"free", "init"} -> startedEv[p] = 0 /\ stoppedEv[p] = 0
      [] p \in Alive -> startedEv[p] = 1 /\ stoppedEv[p] = 0
      [] pst[p] \in {"halted", "stopped"} -> startedEv[p] = 1 /\ stoppedEv[p] = 1
      [] OTHER -> stoppedEv[p] <= startedEv[p] /\ startedEv[p] <= 1

(* A start or a restart never doubles a provider that was up and           *)
(* registered when the supervisor began it, whichever reference the start  *)
(* named and whatever the reference maps know (ProviderModule.init).       *)
RegisteredNotDoubled ==
  \A q \in Alive : before[q] \cap Alive = {}

(* A provider has at most one instance on the host: "Provider already      *)
(* running on this host, not starting rejected duplicate"                  *)
(* (ProviderModule.init), "prevents starting duplicate local providers"    *)
(* (providers_test.exs).                                                   *)
OneInstance == \A p, q \in Alive : Key(p) = Key(q) => p = q

Completes(t) == pc[t] # "done" /\ pc'[t] = "done" /\ t \in clean

(* A start that nothing disturbs adds one instance when the provider did   *)
(* not run, and none otherwise (start_executable_provider).                *)
UndisturbedStart ==
  [][\A t \in Tasks : Completes(t) /\ req[t].op = "start" =>
       LET k == KeyOf[req[t].ref]
       IN  /\ had[t] \subseteq Alive'
           /\ Cardinality(Alive' \ had[t]) = IF \E p \in had[t] : Key(p) = k THEN 0 ELSE 1
           /\ InstancesOf(k)' # {}]_vars

(* A stop that nothing disturbs leaves exactly the instances of other      *)
(* providers (terminate_provider, terminate_all).                          *)
UndisturbedStop ==
  [][\A t \in Tasks : Completes(t) /\ req[t].op # "start" =>
       Alive' = {p \in had[t] : req[t].op = "stop" /\ Key(p) # KeyOf[req[t].ref]}]_vars

(* The operating-system process of a halted instance goes away, whether or *)
(* not the provider acted on the shutdown request (halt_cleanup).          *)
HaltedExits == \A p \in Pids : (pst[p] = "halted") ~> (os[p] = "exited")

(* Every request ends, although starts wait for a supervisor that waits    *)
(* for instances, and requests for instances that halt, crash or are busy. *)
RequestsEnd == \A t \in Tasks : (pc[t] \notin Ended \cup {"idle"}) ~> (pc[t] \in Ended)
=============================================================================
