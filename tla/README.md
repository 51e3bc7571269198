# TLA+ models of the wasmCloud OTP host

wasmCloud's OTP host (`src/host_core`) runs WebAssembly actors and capability
providers on the BEAM, joins hosts into *lattices* over NATS, and takes its
orders from a control interface. This directory holds TLA+ specifications of its
concurrent core, TLC configurations that check them on small instances, and
TLAPS proofs for every instance. `PROJECT.json` says which definition stands for
which lines of the source; paths below are relative to
`src/host_core/lib/host_core/` unless they start with `src/`.

Contents: [inventory](#1-inventory) | [modules](#2-modules-and-how-they-correspond-to-the-code) |
[runs](#3-runs-bounds-and-what-they-show) | [fairness](#4-fairness) | [proofs](#5-proofs) |
[what the code does against its documentation](#6-where-the-code-and-its-documentation-differ) |
[not modelled](#7-what-is-not-modelled-and-why) | [plan](#8-plan)

## 1. Inventory

Every component is a set of Erlang processes; they share ETS tables and
registries, and call one another (`GenServer.call`, 5 s unless stated) or
publish on NATS. A request or message from NATS is served by a process of its
own (`Gnat.ConsumerSupervisor`), so handlers overlap with everything else.

| component | state | operations | talks to |
|---|---|---|---|
| Actor lifecycle: `actors/actor_supervisor.ex`, `actor_module.ex`, `actor_rpc_supervisor.ex`, `control_interface/host_server.ex`, `vhost/virtual_host.ex` | a process per instance (transient child), its entry in `ActorRegistry`, one RPC subscriber per actor and lattice, the virtual host's process | start, stop, scale, live update, purge, stop host; crash and restart | policy manager (before a start), claims and refmaps (a start stores them), virtual host (configuration, credentials), listeners of events |
| Metadata cache: `linkdefs/manager.ex`, `claims/manager.ex`, `refmaps/manager.ex`, `jetstream/client.ex`, `jetstream/metadata_cache_loader.ex`, `control_interface/lattice_server.ex`, `lattice/lattice_supervisor.ex` | per host ETS tables of links, claims, call aliases, reference maps; the lattice's key-value bucket | put and delete a link, put claims, put a reference map; handle a record of the bucket | the bucket (external), providers that are told of links |
| Policy manager: `policy/manager.ex` | `:policy_table`: decisions by subject and subjects by request id | evaluate an action, handle an override | the policy server (external) |
| Capability providers: `providers/provider_supervisor.ex`, `provider_module.ex`, `providers/builtin/` | a process per (provider, link name) with an OS process behind a port, its entry in `ProviderRegistry`, a health flag | start, stop, port exit, health check | claims, refmaps, policy, the provider itself over NATS |
| RPC invocation chain: `wasmcloud/rpc_invocations.ex`, `runtime_server.ex`, `runtime.ex`, `native.ex` | callbacks in flight, instances in the native runtime | call an actor, host call of an actor, callback result | linkdefs, claims (aliases), policy, NATS, the NIF |
| Actor RPC dispatch: `actors/actor_rpc_server.ex`, `call_counter.ex` | a counter per actor | choose an instance, call it | actor instances |
| Lattice root and start-up: `lattice/lattice_root.ex`, `src/host_core/lib/application.ex`, `vhost/` | lattice supervisors, `vhost_config_table` | start a host, heartbeats, configuration | everything |
| Control queries and auctions: `control_interface/` | none | inventory, claims, links, auctions | registries and tables (reads) |
| NATS, events, logging: `nats.ex`, `cloud_event.ex`, ... | connections | publish, request | NATS |
| Native runtime: `src/host_core/native/hostcore_wasmcloud_native/src/` (Rust) | guests on the threads of a TOKIO runtime, callback tokens (a mutex and a condition variable each), image and executable caches in the temporary directory, one object store per process | call a guest, take a callback's result, fetch and unpack artifacts, sign and check invocations, chunk and dechunk bodies | the runtime server, registries and bindle servers, the file system, NATS object stores |
| Washboard: `src/wasmcloud_host/` | a view of the lattice rebuilt from events and heartbeats; a file watcher | handle event, render, reload | control interface, PubSub |

### What is hard, and what makes each component correct

*Actor lifecycle.* A registry entry is made after the start was acknowledged and
survives the process for a moment, so every request acts on a view that is late
in both directions. A halt is a synchronous call that times out on a busy
instance, kills its caller when the instance dies, and may be handled after the
caller gave up. The RPC subscriber is shared by all instances and removed in two
steps. Correct means: no request halts more instances than asked or one whose
annotations it did not name; events match what happened; a start leaves the
actor subscribed; an undisturbed request does what it says; every request and
the host itself come to an end.

*Metadata cache.* A request changes the local table, tells a provider and writes
the bucket in an order that differs between put and delete; the bucket's record
comes back to every host, the author included, in a process per message; writes
and messages can fail; hosts leave with their tables and join. Correct means: at
rest tables and bucket agree, providers know what is stored, aliases resolve.

*Policy manager.* Evaluations of one subject overlap with each other, with late
answers and with overrides that look up and insert in two steps. Correct means:
nothing is permitted without the server, an override is not undone by the answer
it overrides, and a withdrawn permission is withdrawn.

*Providers.* Two guards against duplicates (before the start and in `init`)
against a registration after `init`; a shutdown request inside a call inside a
timeout; a port whose exit races with a halt. Correct: one instance per
(provider, link name), one stop event per start event.

*RPC chain and dispatch.* Nested timeouts, links looked up twice, an index over
a changing membership, a callback that must always be answered. Correct: the guest
runs at most once for an invocation, each requester is answered once, and a
blocked thread goes on.

*Native runtime.* A host call blocks a thread of a shared pool until an Elixir task
sets a value; files in the temporary directory are shared by every host process of
the machine without a lock; large bodies travel apart from their messages. Correct:
no wake-up is lost, the artifact that runs is the one that was asked for, a message
arrives with its own body, and nothing stays in the store.

*Start-up.* A second host in a lattice finds its supervisor running. Correct: each
host has its own lifecycle and none takes the others down.

*Washboard.* Events and heartbeats reach it in any order. Correct: at rest its
view is the lattice's.

`PROJECT.json` lists the concrete hazards of what is modelled, line by line, with the
properties that cover them.

## 2. Modules and how they correspond to the code

Each component has a specification, an `MC` module with instances for TLC and
possibly a `_proofs` module. A process that serves a request is a member of
`Tasks` with a program counter; one step is one registry or table access, one
call, or one supervisor operation - the points at which the BEAM can interleave
something observable. Definitions named `X_Y` are faulty variants of `X`; no
action uses them; each shows which property notices the fault.

### ActorLifecycle

One actor on one host. Names, image bytes and claims are abstracted to the
reference and annotations an instance was started with.

| state | code |
|---|---|
| `pst`, `opts` | the children of `ActorSupervisor` and their child arguments. A restart takes a fresh pid; `init` is the state between the two supervisor calls of a subscription |
| `registered` | entries of `Registry.ActorRegistry`; made in `handle_continue(:register_actor)`, removed some time after the process exits |
| `mail`, `busy` | `halt_and_cleanup` calls in an instance's mailbox; instances inside `handle_incoming_rpc`, which handle nothing else |
| `sub` | the child of `ActorRpcSupervisor`; `terminated` is the state between `terminate_child` and `delete_child` |
| `vhost` | `VirtualHost`: `busy` in `handle_call(:purge)`, `stopping` in `terminate/2`, `down` after an abnormal exit (the child is `:transient`), `gone` after a stop |
| `ending` | `do_stop` found no other host on the node and called `:init.stop` |
| `pc`, `req`, `want`, `todo`, `last` | the process serving a request: where it is, the request, how many instances to start or halt, those picked, whether it goes on to stop the subscriber |
| `haltedBy`, `base`, `clean`, event counters | history, for properties only |

`Fetch`, `Check`, `StartOne` ... `StartDone` are `start_actor`; `ScaleKeep`,
`ScaleDown`, `ScaleUp`, `ScaleRefused` are `scale_actor`; `CountAll`, `Snapshot`,
`SendHalt`, `SkipInstance`, `FinishHalts` are `terminate_actor`, `terminate_all`
and `halt_required_actors`; `TerminateSub`, `DeleteSub` are
`stop_rpc_subscriber`; `Boot` and `Resubscribe` are the `init` of an instance with
`start_or_reuse_consumer_supervisor`, one supervisor call or two, either of which may fail
and is then only logged (`Subscribes`); `HandleHalt` is `halt_and_cleanup`. `CalleeDied` and
`CallFails` are the two ways a `GenServer.call` makes its caller exit, and
`Abort` is what that exit means: nothing more for a request, `terminate/2` for a
purging host, and for a host in `terminate/2` an abnormal end, after which its
supervisor starts it again (`VhostRestart`). `NodeStops` is `:init.stop`, which ends
everything. `RestartsExhausted` is the end of `ActorSupervisor`. That supervisor's own restart limit,
past which the node ends as it does with `NodeStops`, is left out. A host that ends takes its linked runtime
server with it, and an instance that then calls it is one more `Crash`.

A request is *clean* while nothing else has disturbed it (no other request, no
crash, no failed call since it arrived at a quiet host). The properties that say
what a request achieves speak of clean requests; those that say what no
interleaving may do speak of all.

### MetadataCache and ReplicatedRegister

One lattice with several hosts. A key is a link, claims or a reference map; the
content is a value, which for a link determines the provider it names. `Usable` are the
call aliases of more than one character; others, and none, are never cached.

| state | code |
|---|---|
| `cache`, `alias` | the ETS tables `linkdef_*`, `claims_*`, `refmap_*`, `callalias_*` of each host |
| `bucket`, `written` | the JetStream stream behind the key-value bucket: last record per key, sequence number |
| `echoes` | records on their way to a host, or half handled by `MetadataCacheLoader` |
| `told` | what each provider last heard of a link (`publish_link_definition`, `..._deleted`) |
| `job` | the processes that serve requests |
| `linked`, `unheard`, `trust` | history: what was stored last, the links whose last change no provider could be told of, and what has disturbed a key |

`PutCache`, `PutPublish`, `PutStore` are the put path in the code's order,
`DelLookup` ... `DelRetract` the delete path; `HandlePut` ... `HandleUnexpected`
are the clauses of `handle_action`. `Superseded`, `Lose`, `PutStoreFails`,
`DelPurgeFails`, `DelNoVhost`, `Crash`, `Join` are the failures. Every message to a provider may be
dropped (`safe_pub`, when the connection is down); a host that hears of the change from
the bucket may make up for it. `DelNoVhost` is `del_link_definition` when no virtual host of
the lattice is left on the node: its `with` has no `else`, so nothing is uncached or purged,
the deletion is published all the same, and success is acknowledged. The stream itself (one record
per key, delivered to a consumer per host, replayed to a new consumer) is
external and modelled from the consumer and stream configuration in
`jetstream/client.ex`.

`trust[k]` makes exact what can be promised. A key is `disturbed` when requests
for it overlap, a write fails, a message is lost or a host joins during a
request; the next put that nothing disturbs mends it (`mending`, then `calm`);
`cut` is a key whose last request died with its host. Without such a notion
convergence is false (`Synchronized`, section 6). Removing a reference map from the bucket
disturbs its key, because no clause of `handle_action` handles it.

`ReplicatedRegister` is the abstract specification: what the lattice promises of one key,
without requests, records or messages. There is a value; a host shows a new one (`Propose`)
and makes it the value (`Commit`), or it goes from outside (`Remove`); every other host then
goes to it (`Hear`), hosts `Leave` and `Join`. `RegistersKept` says that every key is one,
under this mapping (`Register(k)`):

| register | MetadataCache |
|---|---|
| `value`, `members`, `shown` | what the bucket holds of the key, `up`, the column of the tables |
| `changing` | hosts whose request has changed their own table and has still to write the bucket: `PutCache` or `DelUncache` proposes, `PutStore` or `DelPurge` commits |
| `hearing` | hosts with a record of the key that has not changed their table yet: `HandleCache` and `HandleUncache` hear |
| `promised` | `trust[k]` is `calm` or `cut`. What makes a key disturbed is an `Accident`, the put that mends it ends in `Restore` |

So the promise is not only about rest (`CachesAgree`) but about every moment in between: a
host that has shown a new value does not show the old one again.

### PolicyManager

One node and the (external) policy server. A subject stands for
`{source, target, action, lattice}`. `table` and `index` are the two kinds of rows
of `:policy_table`. `Answered`, `Ask`, `Receive`, `NoAnswer`, `Raise`,
`CacheDecision`, `CacheRequest` are `evaluate_action`; `Ignore`, `Find`, `Insert` are
`override_decision`. `Answer` and `ChangeMind` are the server: it answers when it
likes and overrides every answer it no longer stands by. `Miss` is an override that is lost,
does not decode, or comes while no changes topic is set. `crossed` marks subjects
whose override was missed, or crossed another change of mind or the answer it was to
override: there the code promises nothing.

### ProviderLifecycle

The providers of one host. A provider is a public key with a link name, `KeyOf`
says which one an image reference carries; reference maps are `mapped`.

| state | code |
|---|---|
| `pst`, `ref` | the children of `ProviderSupervisor` and the reference in their arguments |
| `os`, `down` | the operating-system process of an instance, the DOWN message of its port |
| `registered` | entries of `Registry.ProviderRegistry`, made after `init` in `handle_continue(:register_provider)` |
| `busy`, `mail` | instances in `:do_health`; `halt_cleanup` calls in a mailbox |
| `sup` | `ProviderSupervisor`, which does one `init` at a time: for which request or crashed instance, and whom that `init` has still to call |
| `pc`, `req`, `todo`, `picked`, `dup` | the process serving a request |
| `before`, `had`, `clean` | history, for properties only |

`all_providers` reads the registry once and then calls every instance of the host,
whichever provider is asked about: `Look` and `List` are the reading, `Query` the
calls, for the first check (`host_server.ex:236`), the second
(`provider_supervisor.ex:285`) and the stops; `InitCheck` and `InitQuery` are the same
inside the `init` of a new instance, where the supervisor waits. `HaltBegin` and
`HaltEnd` are `halt_cleanup` with the 2 s wait between them. `InitStarts` is the rest of
an init, from `Port.open` to the publication of its reference map, in one step: an init that
dies in between, and leaves a process without an instance, is not represented. References that other hosts of the lattice have mapped
are left out: they could only make the two early checks refuse more.

### ActorCalls and CallPromise

An invocation of an actor on one host and the host calls of its guest, from the
topic through three processes and a native thread and back. `CallPromise` is the
abstract specification: for each invocation an answer and a run, and nothing of how
they come about; `PromiseSafe` says that ActorCalls implements it
under the mapping in its last section.

| state | code |
|---|---|
| `request`, `topic`, `reply` | the requester of an invocation (a provider, a client, or the callback of another guest), the message, the reply under way |
| `patient` | tasks of `ActorRpcServer` inside `GenServer.call(pid, {:handle_incoming_rpc, ..})` |
| `up`, `box`, `serving` | `ActorModule` instances, their mailboxes, and for which invocation each waits in `Runtime.Server.invoke_actor` |
| `guest`, `worker` | the TOKIO task of `call_actor`: asked for, spawned, on a thread (running, or at the lock, asleep or woken in `ElixirHandler::handle`), come back |
| `handled` | results `Runtime.Server` has passed on in `handle_info(:returned_function_call)` |
| `value` | `return_value` of the callback token |
| `task`, `target`, `child` | the callback of a host call: where its task stands, whom it is for, the invocation it makes |
| `link` | the provider linked for the contract the guests call |
| `seen` | history, for `RoutedByLink` |

`Deliver`, `GiveUp` are `ActorRpcServer.request` and `error`; `Take`, `ServeTimeout`,
`Restart` the instance; `CallActor`, `Run`, `Finish`, `Returned` the path through
`call_actor`; `HostCall`, `Check`, `Spurious`, `SetValue` the callback token from both
sides; `WriteLog`, `StartTask`, `IdentifyTarget`, `VerifyLink`, `Perform`, `Unpack`,
`Raise` the callback. `VerifyLink` also is `authorize_call` and the refusals of
`rpc_invoke`, which read nothing shared. A nested call may find its actor on the same
host, and then competes for the same threads: `child` is a member of `Calls` like
any other. One mutex step covers lock, test and wait, because the mutex makes it one.

### ArtifactCache

Artifacts on their way to a host. A digest is modelled by the artifact it is a digest
of, a file by the artifact it holds (or `torn`, `empty`).

| state | code |
|---|---|
| `tag` | what the registry serves (external): one of the artifacts in `Pushed` of the reference |
| `cached`, `digest` | `wasmcloud_ocicache/<ref>.bin` and `.digest` |
| `exe` | `wasmcloudcache/<subject>/<revision>/...`, named by `cache_path` |
| `kind`, `ref`, `pc`, `got`, `out` | a thread inside `get_oci_bytes`, `get_oci_path` with `par_from_path`, `get_actor_bindle` or `get_provider_bindle` |
| `mixed` | writers whose `File::create` and `write_all` overlapped with those of another artifact |
| `seen`, `quiet`, `doubtful`, `spoiled` | history, for properties |

`Request` ... `WriteDigest` are `fetch_oci_path` and `cache_oci_image`, in the order
`Order` takes from the code; `Open`, `Read`, `Load` are what the two NIFs do with the
path; `ExeStat`, `ExeCreate`, `ExeWrite` are `get_provider_file` and what is written to
it; `Start` is `Port.open`. `Fail` is an error or the death of the process at any
step. A fetch is *quiet* while nobody else sets out to write its file and no digest it
relied on is *doubtful*, which is what an interrupted writing leaves: the only false
digest is then the one that was there before. An executable is named by its provider and its
*version*: the revision, or without one the low bits of the issue time (`RevWidth` stands for
2^32). Two archives may have one version; then the first that was unpacked is what is
started for both, and `RunsRequested` says just that.

### InvocationWire

What an invocation and its response carry. `from` and `to` are operating-system
processes, because the object store is one per process.

| state | code |
|---|---|
| `bucket`, `store` | `CHUNKING_STORE` and the object stores |
| `asked`, `caller`, `message` | `rpc_invoke` with `generate_invocation_bytes` and the wait for a reply |
| `callee`, `ran`, `produced`, `answer` | `handle_incoming_rpc` from `validate_anti_forgery` to the reply |
| `result` | `unpack_invocation_response` |
| `astray`, `cut`, `relabelled` | history: calls whose store operation failed, whose body or length was altered, whose id was altered or put on another message |

`Invocation`, `Url`, `Hash`, `Validate` are `inv.rs`; `Chonk`, `Unchonk` are
`objstore.rs`; `Body` is both `check_dechunk` and `check_dechunk_inv`. `Garble` alters what
the signature does not cover: origin, target, the body (to none, or to bytes nobody
sent), `content_length` and the id. `validate_antiforgery` compares the first three with the
claims - but an empty body is not hashed - and the last two with nothing. Altered
claims fail the signature check, and are left out with it; answers are not altered on the
way. Calls share nothing but the store, where objects are named by the id of the message.

## 3. Runs, bounds and what they show

Every passing run also checks for deadlock unless stated.

| run | instance | checks |
|---|---|---|
| `al_safety` | 4 pids, 2 running at the outset (one annotated), 2 tasks; starts (of none, of one), stops (of one, of two by an annotation only one has, of all) and a scale; 1 crash, 1 busy instance | the type invariant; `HaltsWithinRequest`, `HaltsMatchAnnotations`, `EventsMatchInstances`, `HaltBeforeUnsubscribe`; `UndisturbedStart`, `UndisturbedStop` |
| `al_live` | 2 pids, 2 tasks; start, stop, purge, stop host; 1 crash, 1 subscription that fails; the virtual host may come back, the node may end | `RequestsEnd`, `HostSettles`, `StartsSubscribed` |
| `md_mixed` | 2 hosts, 2 tasks, a link with two possible providers, two claims with one alias and one with an alias of one character, a reference map; 2 writes, 1 crash, 1 failed write or dropped publication, 1 lost message | the type invariant, `CachesAgree`, `AliasResolves`, `ProviderInformed`, `StoredReachesAll`, `RegistersKept` |
| `pol_safety` | 2 tasks, a valid and an invalid subject; 2 requests, 2 changes of mind, any override lost, 1 restart | the type invariant, `PermittedByServer`, `OverrideStands`, `AgreesAtRest`, `WithdrawnEventually` |
| `prov_safety` | 4 pids, another provider running, 2 tasks; starts of one provider from two references, a stop, a purge; 1 crash or failed restart, 1 instance in a health check, exits at any time | the type invariant, `EventsMatchInstances`, `RegisteredNotDoubled`, `UndisturbedStart`, `UndisturbedStop` |
| `prov_live` | 3 pids, none running, the same requests and failures | `HaltedExits`, `RequestsEnd` |
| `calls` | 2 invocations, 2 instances, 2 threads, 2 providers; 1 host call per guest, 1 link change, 1 exception; timeouts at any time; a nested call can succeed (990 000 states) | the type invariant, `NoLostWakeup`, `CallbackHoldsGuest`, `RoutedByLink`, `PromiseSafe` |
| `calls_live` | 1 thread, no providers (295 000 states) | `ThreadsComeBack` |
| `art_safety` | 2 threads, an image and a bindle, 3 artifacts of one provider without revisions, two with the same low bits of issue time; 3 fetches of any kind, 2 moves of a tag, failures at any step (3.2 million states) | the type invariant, `UndisturbedFetch`, `RunsRequested` |
| `wire` | 1 call, 2 ids, 2 processes with any of 2 buckets or none, 2 cluster keys, 5 spellings of 3 entities; lengths 0 to 3 with thresholds 1 and 2; 2 failures of a store; every alteration at any time (4.9 million states) | `ArrivesAsSent`, `NothingLeftBehind` |
| `al_ref`, `calls_error` | the smallest instance that shows the point | one statement of the repository each, violated: section 6 |

Why the bounds are enough to be interesting: two tasks are what any of the
races needs (a race of three is two races that share an actor, and nothing in
the code treats a third requester differently); four pids let a crashed instance
come back while a start of two runs; one crash suffices because a second one only
repeats the first with fewer processes, and `MaxRestarts = 0` lets that same
crash also exhaust the supervisor (both outcomes of a crash are explored, since
`Restart` is enabled too). In `md_mixed` two writes
give any two of put, put of another value, delete, by either host, with every message
of each still in flight, and the failed write, the crash and the lost message at any
point of them. In `calls` the second invocation is either a stranger that takes a
thread or an instance, or the host call of the first; a deeper nesting repeats
the same wait. In `calls_live` there is one thread, so that the nested call needs the one its
caller blocks. In `art_safety` three fetches are one that is interrupted, one that
overlaps with another, and one that finds what they left; two moves let a tag come
back to its first image. In `wire` there is one call, and a second id that its message may be
given: two calls are out of TLC's reach. As long as no id is altered that is enough, since
two calls have different ids and no object of one is looked at for the other; that a call
with the id of another may get the other's body, and nothing worse, is shown by the proof
alone (`CallsArriveAsSent`).

`MaxBusy`, `MaxCrashes`, `MaxWrites`, `MaxFailed`, `MaxLost`, `MaxRequests`,
`MaxChanges`, `MaxSubFails`, `MaxHostCalls`, `MaxLinkChanges`, `MaxFaults`, `MaxMoves`, `MaxFetches`,
`MaxLength` and the policy module's `MaxRestarts` are bounds of the exploration;
`MaxRestarts` of ActorLifecycle and ProviderLifecycle is a parameter of the
supervisor. The pids of the provider runs are enough for every init they allow
(two starts and a restart). In ActorLifecycle the pids bound
the starts: a start that finds no free pid goes on only where the code's `:ignore`
lets it, and the other processes go on meanwhile. Deadlock checking is off in `md_mixed`, `pol_safety` and
`wire`, where the system stops when the bounds are used up. Symmetry is used in four
safety runs only (`al_safety`, `prov_safety`, `calls`, `art_safety`), over pids, tasks,
invocations, instances, threads, providers or fetchers that no constant tells apart.
ProviderLifecycle takes the next unused pid with CHOOSE, so only its tasks are
symmetric, and ArtifactCache starts from a CHOOSE of a reference, so only its fetchers.

## 4. Fairness

Weak fairness per process, with one exception: the BEAM runs every runnable process,
an invocation ends, a supervisor and the registry act on the exits they are told
of, a mailbox is worked off, a virtual host that exited abnormally is started
again, `:init.stop` ends the node, a message that arrived at a host is handled. Nothing
obliges a request to arrive, a call to time out (`CallFails`), an instance to
crash, an operation to fail, a message to be lost, a host to leave or to come
back, a provider to exit, or the policy server to answer. The exception: a task or
a supervisor that calls a provider instance has strong fairness, because an
instance that makes health checks for ever still works off its mailbox in order
and answers each call between two of them. Liveness properties therefore hold for
what the host owes by itself: that a busy instance does not block a request for
ever follows from the invocation ending, not from the timeout.

ActorCalls is fair to much less: a request ends (`Gnat.request` has a
`receive_timeout`), a thread that can take its token's mutex does, and a callback task
takes its steps. Nothing obliges a guest to come back, an instance to be started
again, a provider to answer well or a link to stay. `ThreadsComeBack` therefore rests
on the nested request timing out and on nothing the other guests do; and `Raise` is not
fair, so that it does not hold because an exception was bound to come.

## 5. Proofs

Every safety invariant and every action property that a passing run checks is also a
theorem, for every value of the constants. `tlapm` checks each one down to its leaves.

What is assumed are the named assumptions on the constants (`ConstantsAssumption`,
`MetadataAssumption`, `PolicyAssumption`, `ProviderAssumption`, `CallsAssumption`,
`ArtifactsAssumption`, `WireAssumption`): the sets are disjoint where the code tells them
apart, `None` is nothing else, the requests are well-formed, the pids are finite in number.
They hold for every number of hosts, tasks, keys, pids and for every value of the bounds;
TLC evaluates them in every run. No theorem assumes anything more.

| theorem | states | argument |
|---|---|---|
| `ActorLifecycle_proofs!TypeCorrect` | `TypeOK` | with `RefKnown` (a start past its fetch names a reference), which the arguments of a new instance need |
| `...!OnlyMatchingHalted`, `...!HaltsAreSynchronous` | `HaltsMatchAnnotations`, `HaltBeforeUnsubscribe` | the inductive invariant `HaltInv`: for each halt in a mailbox the instance is up, its caller waits or has given up, and the caller's annotations are among the instance's (`MailInv`); a task has one call at a time (`OneCall`); who halted an instance is past its launch (`HaltedInv`). Neither property is inductive alone: the first needs to know what a late halt in a mailbox was sent for, and that its caller neither changes its request nor sends a second halt while it waits |
| `...!EveryStartSubscribes` | `StartsSubscribed` | a pid comes up with `Boot`, if the subscriber was not terminated, or with `Resubscribe`; each applies its supervisor call to a typed `sub`, or counts a failure. A subscriber that is not running after `restart_child` was absent before |
| `...!EventsMatch` | `EventsMatchInstances` | inductive with `MailInv`: who is halted was up until then, however many requests called halt on it |
| `...!HaltsAreBounded`, `...!StartsAreExact`, `...!StopsAreExact` | `HaltsWithinRequest`, `UndisturbedStart`, `UndisturbedStop` | see below |
| `MetadataCache_proofs!TypeCorrect` | `TypeOK` | with `AliasStepOK`: only claims are ever at the alias step |
| `...!AliasesResolve` | `AliasResolves` | a cached or about-to-be-cached claim with a usable alias has its alias set already (puts and records set the alias first), and an alias is only reset with its host's claims |
| `...!CachesConverge`, `...!ProvidersInformed` | `CachesAgree`, `ProviderInformed` | see below |
| `...!KeysAreRegisters` | `RegistersKept` | see below |
| `ReplicatedRegister_proofs!HostsAgree`, `...!NobodyGoesBack` | `ReplicatedRegister!Agreement`, `!NeverBack` | see below |
| `ProviderLifecycle_proofs!TypeCorrect` | `TypeOK` | with `SupOK`: the pid in `init` is the one the supervisor waits for, and whom it replaces is crashed; no other is in `init` |
| `...!EventsMatch` | `EventsMatchInstances` | inductive with `SupOK` |
| `...!NoDouble`, `...!StartsAreExact`, `...!StopsAreExact` | `RegisteredNotDoubled`, `UndisturbedStart`, `UndisturbedStop` | see below |
| `PolicyManager_proofs!TypeCorrect` | `TypeOK` | with what the ids in use belong to (below) |
| `...!PermissionIsTheServers`, `...!OverridesStand`, `...!TableAgreesAtRest` | `PermittedByServer`, `OverrideStands`, `AgreesAtRest` | see below |
| `ActorCalls_proofs!TypeCorrect` | `TypeOK` | inductive with what a callback at each step knows of its target |
| `...!WakeupsArrive`, `...!CallbacksHoldGuests`, `...!CallsRouted`, `...!PromiseIsKept` | `NoLostWakeup`, `CallbackHoldsGuest`, `RoutedByLink`, `PromiseSafe` | see below |
| `ArtifactCache_proofs!TypeCorrect` | `TypeOK` | inductive as it stands: a fetcher that writes or starts has an artifact in hand |
| `...!FetchedIsNamed`, `...!RequestedIsRun` | `UndisturbedFetch`, `RunsRequested` | see below |
| `InvocationWire_proofs!CallsArriveAsSent`, `...!CallsLeaveNothing` | `ArrivesAsSent`, `NothingLeftBehind` | see below |

*Halts.* `HaltsWithinRequest` counts what a request has halted; that is no use to an
induction, because a halt whose caller gave up is carried out later, when the request has
gone on. `BudgetInv` counts what a request has *claimed*: the instances it still has to
call, those that hold a call of it, and those it halted. A claimed instance only moves
from one of the three to the next, or is dropped because it died, so the number of claims
never grows after they were made, and when they are made it is at most `want`. Before
that a request claims nothing; for a stop of some, `want` is what was asked.

*Undisturbed requests.* `UndisturbedStart` and `UndisturbedStop` compare the end of a request
with its arrival. `CleanInv` (one in each lifecycle module) says what holds at each step
of a request in `clean`: nobody else has a request, a call or a crash under way (`Alone`);
until it takes a hand, the instances are those it found, all registered (`Untouched`); on
the way up, those that live and those still to start add up to what `1..count` counts, two
for a count of 0, and once one has started the subscriber runs (`Rising`, `Wanted`, `Serving`); on the
way down those it did not pick are as many as are to stay - for providers, exactly those of
other providers (`Falling`, `Stopping`) - and the request goes on to the subscriber exactly
if it asked for as many instances as there were (`Aimed`), whether or not annotations kept
some of them out of what it picked. A start of a provider that finds it running in one of its three checks is
right about it (`Starting`).

*Convergence.* `CachesAgree` speaks only of keys at rest; an inductive invariant
must say what is true on the way. `AgreeInv` has three parts: a host that is down
has empty tables, no request and no messages (`HostsOK`), a request or message is
at a step of its own kind (`StepsOK`), and for every key `KeyInv`: on an undisturbed
key there is one request at a time and no message while it has still to write
(`OneAtATime`); and the messages of a calm key carry the bucket's last record, and
each live host (`KeyAgrees`) either holds what the bucket holds, or has that record
still to handle, or serves the request that is about to write it. Each kind of step - a
request's, a message's, an arrival, an operator's purge, a loss, a crash, a join
- has a lemma that takes `KeyInv(k)` to `KeyInv(k)'` for the key it touches, and
another that other keys are framed.

*What providers are told* rests on `AgreeInv` and adds who is to tell them. The messages
to providers are sent by the host that serves the request, not by those that hear of it
through the bucket; so a provider may be ahead of the bucket while a put is between the two
(`ToldAhead`), and behind it while a deletion, or the message of one, is still to retract
what it saw (`LinkTold`); what it saw is what the provider knows, because its host agreed
with the bucket when it looked the link up. A dropped message makes its link `unheard`, about
which nothing is said until a later message of the same link gets through.

*Registers.* `KeysAreRegisters` maps each handler to one step of the register or a stutter,
with one lemma per kind of step. Besides `AgreeInv` it needs `ShownInv`: a host has at most
one message of an undisturbed key (`OneMessage`), or hearing the value would not take it
off `hearing`, and a host about to write a key shows what it is about to write
(`WriterShows`), or its write would not commit what it proposed. From
the register alone, with its own small invariant, follow `HostsAgree` (whoever is neither
changing the value nor still to hear of it shows it) and `NobodyGoesBack` (what a host shows
changes only to the value, or to what the host is about to make the value); by the refinement
they hold of every key of every lattice.

*No double.* `RegisteredNotDoubled` speaks of instances that are up; `GuardInv` says
what makes it true of the one in `init`: until the init has read the registry, the
instances that were up and registered when the supervisor took up the start are
so still or have ended; afterwards the init has seen one of them, or all have
ended. Every step outside the supervisor only winds instances down (`StepCases`,
`WindsDown`), so those steps need one lemma and the supervisor's one each. The two checks
before `start_child` play no part: the guard in `init` alone gives the property.

*Calls.* None of them is inductive alone. The invariant ties every stage of an
invocation to the stages it can come from: an invocation is in one place at a time
(on the topic, in one mailbox, served by one instance), an invocation whose guest was
asked for is in no mailbox and not on the topic any more, a result that was handled belongs to a guest that came
back, a callback exists only while its guest is inside `handle` and its token has no value
(`CallbackHoldsGuest`), and a nested invocation is reserved for one callback. With it every step of ActorCalls is one
step of `CallPromise` or a stutter: `Ask` and `Perform` map to `Ask`, `Run` to `Begin`,
`Finish` to `End`, `Arrive` and `RequestFails` to `Answer`. The delicate case is `Arrive` with "ok":
the reply under way must have come from a guest that came back, and `Response` sends an
"ok" for such a guest only.

*Policy.* A verdict reaches the table by two ways, the answer to a request and an override
of it. The invariant follows the request ids. An id is used once (`Numbered`), and held by
one evaluation (`OneTask`); what carries an id speaks of the subject it was asked for
(`OfTheRequest`), so a permission is one the server gave for this subject (`Granted`). The
code inserts the decision first and the id second; so as long as the evaluation holds its
id no override can find it (`HeldNotFound`), and an override that did find it is not
overwritten. `WillAgree` says of a decision that is not the server's present one that an override
of its request is on the way.

*Wire.* The invariant has a part about each call (`CallInv`) and one about the objects in
the stores (`Genuine`): a request object was put by the call whose id it has, a response
object by a callee whose message bore that id, and holds what that callee produced. Whatever is
altered on the way, the claims that the issuer signed still say what was asked, and a
message bears a foreign id only if its call and the call of that id are relabelled
(`Carries`); so what is accepted has the origin and target that were asked for, and the
body that was asked with or an empty one (`Accepted`). For a call that is neither cut nor
relabelled, the object is there from before the message is published until the callee has
read it, unless a store failed or is not shared (`RequestKept`), and then it is gone
(`RequestGone`); the response likewise. For one that is relabelled, what is read is
an object of a relabelled call, by `Genuine`.

*Artifacts.* `FetchInv` says what vouches for a cached file: a digest that is not
*doubtful* is that of the cached image whenever nobody is writing either file (`Vouched`).
A writer puts the digest it finds in doubt before it touches the image (`Doubted`), and
takes the doubt back only if it was alone until it had written both (`Alone`, `Whole`); one
that was not leaves every digest in doubt (`Undone`). `ExeInv` says that an executable is an
artifact of its own path, or is being written, or its writing was once interrupted; and
artifacts of one path are of one provider and one version (`OnePathOneVersion`), so what
is started has the version that was asked for. An executable that somebody is writing, or
whose writing was interrupted, is exempt: there the code starts a torn file.

Only model-checked: the liveness properties, `RequestsEnd` (of actors and of providers),
`HostSettles`, `StoredReachesAll`, `WithdrawnEventually`, `HaltedExits` and
`ThreadsComeBack`. They rest on fairness, and this prover handles no ENABLED. The modules have no recursive operator, so
nothing in them is out of its reach for that reason.

## 6. Where the code and its documentation differ

Two runs check one statement of the repository each and TLC refutes it:

* `al_ref` - the check that no other image reference runs and the start are not one
  step (`actor_supervisor.ex:72`), and instances register late: two starts from
  different references both succeed.
* `calls_error` - a guest that returns an error of its own is reported as a success
  without data: `unwrap_or_default` in `send_actor_call_response`
  (`wasmruntime.rs:264`) drops it, although `rpc_invocations.ex:290` says that such an
  error goes in `host_error`.

Others were met while modelling. Each is stated by a definition that no run checks;
to see it, check that definition with the instance given here (the constants not
named are those of the module's safety run):

* `ActorLifecycle!SubscriberWhileRunning` (requests: start 1 untagged, stop 1 tagged `red`) -
  a stop by annotation counts every instance before it filters by annotation
  (`actor_supervisor.ex:543-553`), and stops the subscriber of an actor that still runs;
  the moduledoc of `actor_rpc_server.ex` says it is stopped with the *last* instance.
* `MetadataCache!Synchronized` (puts of a link with two values) - a process per message lets a host
  apply records out of order (`metadata_cache_loader.ex:84`), and keep the older one;
  `metadata_cache.ex` says the caches are kept synchronized with the bucket.
* `ProviderLifecycle!OneInstance` (two starts of one provider, none running) - an instance
  registers after its `init` (`provider_module.ex:232`), when `ProviderSupervisor` may
  already be in the next one: two overlapping starts both succeed, in spite of the guard in
  `init` (`provider_module.ex:149`).
* `ArtifactCache!NoEmptyProvider` - the first fetch of an empty provider parcel is refused with "No
  provider parcel found (or was empty)" (`lib.rs:294`) and leaves its file; the next
  one finds the file and starts it.

Some are part of what the properties say, and so are proved of the code: a start of
no instance starts two, because `1..count` counts down for 0 (`actor_supervisor.ex:194`,
`UndisturbedStart`); a stop by annotation that asks for as many instances as there are stops
the subscriber of those it keeps (`UndisturbedStop`); an instance comes up unsubscribed when a
`delete_child` falls between `start_child` and `restart_child` (`StartsSubscribed`); and two
archives of a provider with one revision, or issued 2^32 seconds apart, are started from
the same file (`RunsRequested`).

Others are cases that a property exempts by name. An override that comes before the
decision it is to override is in the table is passed over, and the server is told that it
succeeded (`policy/manager.ex:176`; `AgreesAtRest` and `WithdrawnEventually` fail without `crossed`).
A delete on a host that has not cached the link, or has no virtual host of its lattice, and
a write that fails are acknowledged as successes (`linkdefs/manager.ex:111`, `:124`,
`jetstream/client.ex:222`; `CachesAgree` speaks of calm keys). A link that is replaced between the
two lookups of a call lets it go to the old provider (`rpc_invocations.ex:37`; `RoutedByLink` asks for
a link at some time during the call). A callback that dies of anything but a `RuntimeError`
blocks a thread for good (`runtime_server.ex:147`; `ThreadsComeBack` exempts it). An image that is
written between the comparison of its digest and its reading, and an executable that two
threads write, are not what was asked for (`oci.rs:82`, `lib.rs:608`; `UndisturbedFetch`,
`RunsRequested`). A message whose body was cut, or whose id was altered, is accepted
(`inv.rs:173-183`; `cut` and `relabelled` in `ArrivesAsSent`).

Not stated as a definition: `override_decision` replaces the decision and keeps the request id
(`policy/manager.ex:166`), while the comment above it says that both are deleted. A
process without an object store sends large bodies as empty ones that are then handled
(`objstore.rs:13`; the disjunct with `Lossy` of `ArrivesAsSent`), while
`application.ex:219` says that "Any chunked invocations will fail". A body that cannot be
put makes `generate_invocation_bytes` return an error that `rpc_invoke` publishes as if
it were bytes; its task dies and the host call stays unanswered (`stuck` in
`InvocationWire`, a task that is `dead` in `ActorCalls`).

## 7. What is not modelled, and why

Pure input and output (NATS connections, logging, configuration files, the web
views), signatures and WebAssembly execution, about which the repository only calls
libraries. Of the native runtime: the bindle client's choice of credentials, server and
keyring (`client.rs`), the formatting and the checks of claims, key generation and
labels, which keep no state; an image without a digest (its digest file is then left
as it is) and the bindle client's own cache, which holds what the server gave for the
same digest. A crash of the runtime server, and a consumer of the bucket that cannot be
created (`jetstream/client.ex:112-127`). Live update of actors, several actors on one host (they share only the
supervisor's restart budget), the legacy cache migration, expiry of policy requests
(`expiresAt`), control queries and auctions (reads), the health flag of a provider and
the events about it, and a provider started from a file under its own key (its first
guard does not need the reference maps). The round-robin counter of the dispatch: any
registered instance may be chosen. Start-up of virtual hosts and the washboard are planned.

## 8. Plan

The state-changing core of the host and of its native runtime is modelled. What is
left, in this order:

1. `MetadataCache`: the migration of a legacy cache stream, and its place in the
   refinement.
2. `ActorLifecycle`: live update, and with it a crash that brings the old module back.
3. `VirtualHosts`: several hosts in one lattice, their start-up and heartbeats.
4. `StateMonitor`: the washboard's view against the lattice's events and heartbeats,
   with the watcher.

A dozen runs that finish in minutes each is what can be kept running: a new module takes
the place of a run that shows a single line, whose finding stays in section 6.
