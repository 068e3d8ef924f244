# Verification of k8s-mcp

TLA+ models of `k8s-mcp`, the MCP server that gives an LLM agent tools for a
Kubernetes cluster, with TLC runs on small instances and proofs checked by the
TLA+ proof system (TLAPS). Every definition is translated from the Python source
under `src/src/k8s_mcp/`; `PROJECT.json` ("map") names the lines.

## 1. The system

One process, one stdio connection, one event loop, one pool of worker threads.
A request passes `call_tool` on the event loop and is executed as a synchronous
Python function (the tool body) by a worker thread, which talks to the apiserver
over HTTP. Nothing is persisted: a restart begins with empty caches and full
buckets. All that worker threads share is module-level state.

| Part | State it keeps | Operations | What is hard |
|---|---|---|---|
| Tool boundary, `server.py` | semaphore of slots, in-flight counter, executor queue, one asyncio future per body | rate gate, lookup, acquire, submit, shielded wait, slot return | a body cannot be killed: timeout, cancellation and result race; the slot outlives the request |
| Error sanitising, `server.py`, `safety.py` | none | exception and cause to reply | status must survive wrapping |
| Process, `server.py` | signal handlers | create, signal, end of input, exit | exit while bodies write |
| Rate limiter, `safety.py` | a token bucket per tool name | check | refill and refusal at the boundary |
| Client cache, `client.py` | an ApiClient and a DynamicClient, each with its key | get, rebuild, close the predecessor | two locks, and rebuilds in between |
| OpenAPI cache, `tools/discovery.py` | one schema, key, age; a Future per key in flight | look up, join, lead, store, announce | single flight, failing leader, key read early |
| Manifest writes, `tools/generic.py` | none of its own; the cluster's objects | apply_yaml, replace_resource | several requests, no transaction, other writers |
| Keyed edits, `tools/generic.py`, `tools/configmap.py` | none | add or remove a label, update a ConfigMap with or without merge | read and write back without a version; JSON-patch on a missing map |
| Prometheus, `tools/prometheus.py` | discovered URL or failure with key and age; diagnosis cache | resolve under a global lock, query, expose | two TTLs, identity change, races for the NodePort |
| Node operations, `tools/node_ops.py` | none | cordon, drain, label, taint, untaint | partial drain, index-based removal |
| Rollouts, workloads, waiting, deletion | none | patch lists of workloads, poll for a status, condition or value | deadlines, the status of an earlier spec, objects that vanish |
| metrics-server bootstrap, `tools/metrics.py` | none | probe, fetch, apply, patch a flag, wait | six steps without a transaction, other writers |
| Notifier, `tools/notifier.py` | one HTTP session | fan-out over threads, retries | partial failure, delivered but not answered |
| RBAC, network policies, `tools/rbac.py`, `tools/networkpolicy.py` | none | who can, what may reach a pod, create | joins by name, wildcards, policies that add up |
| GPU views, `nvidia_gpu.py`, `gpu_capacity.py`, `nvidia_metrics.py` | none | capacity, MIG, DRA, utilisation | what a pod really takes, failed listings |
| Health, certificates, events, diagnosis, audits | none | snapshot, merge, conclude | failing sections, cutting before sorting |
| Logs, `tools/logs.py` | none | fetch in parallel, filter, fit a budget | order, partial failure, boundaries |
| Other writers (`secret`, `storage`, `service`, ...) | none | guard, one request | nothing between two requests |

Interactions: the boundary runs every tool body; bodies use the client cache
(and through it the discovery cache); `explain_resource` uses the OpenAPI cache
on top of the client cache; the metrics-server bootstrap and other tools call
`_apply_yaml_records`; Prometheus-based tools share the discovery. Settings are a
process-wide snapshot that `create_server(settings)` and `set_runtime_settings`
replace; `KUBECONFIG` is read at each use.

What makes each part correct, in a sentence: the boundary never loses or doubles
a slot, never queues behind an orphan, answers everybody and has no effect when
it refuses; the limiter bounds every window and its advice is good; caches never
leak, never mix configurations and never strand a waiter; writes are guarded as
a whole, fail at a prefix, report truthfully, and a PUT overwrites nothing its tool
has not read; polls end and say what is; and what the read-only tools conclude agrees with
the rules that Kubernetes itself applies to the objects they have read.

## 2. Modules

| Module | Models | Extends |
|---|---|---|
| `ErrorMapping` | outcome of a body to reply | |
| `ToolBoundary` | `_K8sMCP.call_tool`, executor, future, semaphore | `ErrorMapping` |
| `ToolService` | the abstract service the boundary promises | |
| `ServerLifecycle` | signals, end of input, exit, around the boundary | `ToolBoundary` |
| `RateLimiter` | `TokenBucket`, `RateLimiter.check` | |
| `ClientCache` | `get_api_client`, `get_dynamic_client` | |
| `OpenApiCache` | `_get_openapi_schema` and its fetch, the specification composed with the clients | `ClientCache` |
| `ManifestWrites` | `apply_yaml`, `replace_resource`, other writers | |
| `NodeOps` | `cordon_node`, `uncordon_node`, `drain_node`, `taint_node`, `untaint_node`, scheduler and kubelet | |
| `PrometheusDiscovery` | `_resolve_prometheus_url` and the scans below it, the cluster's services | |
| `KeyedEdits` | `update_configmap`, `add_label`, `remove_label`, other writers | |
| `Rollouts` | `scale_workload`, `restart_workload`, `set_image`, `set_resources`, `delete_resource`, `rollout_undo`, `rollout_status`, `wait_resource`, the controllers | |
| `PrometheusExposure` | `expose_prometheus_as_nodeport`, the owners of the two Services | |
| `MetricsBootstrap` | `bootstrap_metrics_server`, the Deployment's other writers | |
| `Notifier` | `notify`, its threads and their session | |
| `WriteTools` | the five above in one server | those five |
| `RbacAnalysis`, `NetworkPolicies`, `GpuTools`, `HealthSnapshot`, `WorkloadReports`, `PodLogs` | the functions of the tools that conclude, as operators | |
| `ReadTools` | the calls of those tools, and what their answers have to satisfy | instances of those six |
| `ToolBoundaryProofs` | theorems on the boundary and on the process around it | `ServerLifecycle`, `TLAPS` |
| `SharedCachesProofs` | theorems on both caches | `OpenApiCache`, `TLAPS` |
| `WriteToolsProofs` | theorems on the five parts and on the server that has them all | `WriteTools`, `TLAPS` |
| `RateLimiterProofs`, `ManifestWritesProofs`, `NodeOpsProofs`, `PrometheusDiscoveryProofs`, `ReadToolsProofs` | theorems | the module and `TLAPS`; `ReadToolsProofs` also the library's well-founded induction |
| `MCToolBoundary`, `MCServerLifecycle`, `MCManifestWrites`, `MCNodeOps`, `MCPrometheusDiscovery`, `MCReadTools`, `MCWriteTools` | values for TLC | |

### How state and actions correspond to the code

**ToolBoundary.** One action is one callback of the event loop (everything
`call_tool` does up to its `await` is one step) or one step of a worker thread.
`slots` is `_execution_slots`, `inFlight` is `_in_flight`, `fut` is the future of
`run_in_executor`, `released` says that `_release_slot` has run. `TimeOut` ends
the request and leaves the shielded future alone; `Cancel` passes the
cancellation on only where the code does, without a cap. `Deliver`, `Start` and
the order of done callbacks are asyncio and executor behaviour (external).
`outcome` is chosen when the body ends, from the constant `Outcomes`.
`RefuseRate` may refuse any call; what the limiter refuses is `RateLimiter`'s
subject. An argument that fails validation raises inside `_invoke` and is one of
the outcomes. An outcome has the exception that left the body and the one it was
raised from or during (`chain`); what is further up the chain `call_tool` does not
see. A `TimeoutError` that the body itself raises is reported like the
cap's, in the model (`Answer`) as in the code.

**ServerLifecycle.** `Serve` is the event loop at work; `InputCloses` ends it
and the worker threads, which are not daemons, empty the queue (`Drain`) before
the interpreter exits (external). `Signal` changes nothing but a flag, as the
handler does.

**RateLimiter.** Time is in ticks, `Hundredth` of them in a hundredth of a second,
and tokens are in parts, of which Rpm flow in during a tick, so that all arithmetic
is on integers. The code computes the same with floats, whose errors are left out.
`RetryAfter` is what the refused client is told: the exact time, printed with two
decimals, so a nearest hundredth above or below it. `accepted` and `promises` (the
times at which refused callers were told to come back) are history.

**ClientCache.** Each `with lock` block is one action; key and settings are read
in an action of their own (`Enter`), so any other thread may run in between.
ApiClients are numbered as built and `built` remembers their configurations. A
thread forgets its clients when its body returns (this folds states that differ
only in dead local variables).

**OpenApiCache.** `Merge` is one HTTP answer; `attempt` is the request being
made: v2, the v3 index, then each document. The size cap is a choice (a
non-empty schema may or may not fit). A result has the clusters its definitions
came from (`of`). `Result.under`, `Result.late` and `moved` are history: under which
key a result was fetched, whether the configuration changed during the fetch, and
during which calls it has changed (`Reconfigure`).

**ManifestWrites.** One action per HTTP request. An object's content is, for each
field, who wrote it last; a field is what a merge patch replaces as a whole. A patch
overwrites the fields that its document names, a PUT all of them (`With`, `Patch`,
`Replace`). `Write` takes
effect and is either answered or not (a lost answer). `Put` is the apiserver:
a content change gets the next revision. `Compose` is the agent, whose full
manifest holds what it saw. `readContent` is history. YAML parsing, names and report texts are left
out; read-only mode and `ns_allowed` are `readOnly` and `Allowed`.

**NodeOps.** One node; one action per HTTP request and what the body does up to
the next. `todo` is what is left of the `for pod in pods.items` loop (the order
of the list is the apiserver's, so any), `report` the four lists of the answer,
`target` is `target_idx`, counted from 1. Eviction and, with `force`, deletion
have the same effect here: the pod begins to terminate, or the apiserver refuses
(a disruption budget, or the pod is gone). A lost answer raises something that
is not an `ApiException` and ends the drain (`Evict` to `failed`). `Place` is the
scheduler, which leaves a cordoned node alone, and the DaemonSet controller,
which does not. `seen`, `steady` and `marked` are history. `content_type=` is
taken to select the patch type, as the calls intend.

**PrometheusDiscovery.** A URL stands for the service it leads to. `Entering` is
the acquisition of `_DISCOVERY_LOCK`; what happens before the first request is
one action (`Serve`, `Refuse`, `NoClient`, `Begin`), and `Begin` keeps the lock.
Then one action per HTTP request: reading a candidate (`Miss`, `Hit`,
`CandidateError`), listing services (`WideHit`, `WideMiss`, `WideError`), the
listing of nodes for a NodePort's address (`Resolve`; a LoadBalancer needs no
such request, which here is a `Resolve` that takes no time). The wide scan is one
action although with an allowlist it is one listing per namespace. Requests that
take time are `Tick` between the actions, at most `MaxDelay` each. A service that
cannot be given a URL (`nameless`) is one without a cluster address, as an
ExternalName; NodePorts and LoadBalancers always have one. `gone`, `bad` and
`last` are history.

**KeyedEdits.** A map gives every key a text or `Nothing`. `ReadMap` is the GET
and the building of `final_data`, `PatchMap` the merge patch; `raced` is history:
the keys others have changed in between. A label is one JSON patch (`AddLabel`,
which needs a map to be there) or one merge patch (`RemoveLabel`).

**Rollouts.** A workload has its generation, the generation that brought its
present template, the observed generation, the template rolled out and the
Progressing condition. `PatchNext` is one round of the `for n in names` loops;
a failing round loses the rows before it, as in the code. `Poll` is one round of
a polling loop: request, look, deadline, sleep. `Observe` and `RollOut` are the
controllers. Guards and argument checks are a failure before the first request.
A StatefulSet has no Progressing condition, and `rollout_undo` fails for both
kinds, for reasons given in section 5. A call that has ended forgets its local
variables.

**PrometheusExposure.** `source` is the Service of Prometheus, `twin` the one
with the suffix; a selector stands for the pods it selects. One action per
request (`ReadSource`, `LookForTwin`, `CreateTwin`), others change both Services
in between. `aim` is history.

**MetricsBootstrap.** Of the manifest the model has the Deployment; that other
documents fail is `StopBootstrap`. `ApplyReads` and `ApplyWrites` are
`_apply_yaml_records` on it, `ReadForFlag` and `PatchFlag` the two requests of
`_patch_metrics_server_kubelet_flag`, whose patch carries the version it has
read. `undone` is history.

**Notifier.** Each webhook of a call has a thread, which finds the message too
big, or takes or builds the session and posts until it is answered or the tries
are used up. A post may arrive although its answer is lost.

**WriteTools.** The five components share neither objects nor memory, so that a
step of one is a stutter of the others: `scene` says which one a behaviour is
about, the others stay as they began. Nothing is lost by that, the product of
their state spaces is avoided.

**ReadTools** and the modules below it. These tools keep nothing and change
nothing; what can be wrong is what they conclude. A behaviour is one call: a tool
takes objects from `Inputs`, its answer is computed by operators that follow the
code, and the invariants compare answers with a reference: Kubernetes' rules of
authorisation (`Rbac!May`) and of isolation (`Policies!Open`, `LetsThrough`),
the room the scheduler would find, the latest events of all, the log lines in
order. Where an answer depends on ties or threads, every outcome is a step. Names,
texts and layout are left out. Objects are sets and records; a failed request is
`Failed`. Three numbers are scaled with the size of the instance: the rows that a
table of the health snapshot shows (`RowCap`, 20 in the code, 1 in the runs, any
number in the proofs), the number of pods from which logs are fetched in parallel
(`_MULTI_PARALLEL_THRESHOLD`, 5 in the code, 3 here) and the hard cap of the byte
budget. Some details that answers depend on:

* RBAC rules may be for the objects of some names (`resourceNames`, which the tool
  ignores when it looks for who can), resources may have subresources, and rules may
  be for all resources, or for one subresource of all. The tool compares resources
  as texts, so that it does not know `*/log` to cover `pods/log`: `WhoCanIsRight`
  asks it to name everybody for questions about a resource only.
* A table of the snapshot counts all its rows and shows the first, in an order of
  its own; rows that tie may come in any order. A Pending pod without a message
  fails its section only if its row is shown.
* `list_events` takes one namespace or a list of them (in which one may come twice)
  and a field selector, here the object that an event is about.
* A line of a log has its size in bytes, and how many of them there are from its
  first character of several bytes on. Where a cut may fall into a character, the
  answer may begin with up to three replacement characters (`Orphans`).

Operators marked `a faulty form` in the comments are not part of any
specification. They are the mutations against which the properties are tested
(`PROJECT.json`, "mutants"): each property of a passing run is violated when the
named operator takes the place of the faithful one.

## 3. Runs

| Run | Bounds | Shows |
|---|---|---|
| `ServerLifecycle` | 4 calls (1 unknown tool), 2 slots, 7 outcomes, cap and limiter on; symmetry among the 3 known calls (no liveness in this run) | safety of boundary and process |
| `ToolBoundaryLive` | 4 calls (1 unknown tool), 2 slots, cap and limiter on, one outcome | refinement of `ToolService`, liveness |
| `RateLimiter` | 2 tools, 14 per minute (burst 2), ticks of 5 ms, 10.7 s in steps of 2.14, 2.145 and 4.285 s | window bound, honest advice |
| `ManifestWrites` | 2 calls, 4 objects, 6 manifests of up to 2 documents, 2 fields, one operator action at the start of the history | prefixes, reports, overwritten fields |
| `SharedCaches` | 2 threads, 2 configurations, 1 change, 1 v3 document; threads may ask for the schema until one fetch has begun (both may be asking by then) | client cache and schema cache |
| `NodeOps` | 2 interchangeable calls, a DaemonSet pod and another, both with scratch data, 2 taints (1 asked for), every drain flag | drain misses nobody and reports truly, untaint hits |
| `PrometheusDiscovery` | 2 interchangeable threads, 2 identities (one with an allowlist), a well-known and an odd service, TTLs 2 and 1, requests of at most 1, time up to 3, 2 changes of services | true answers, short refusals, spaced scans |
| `ReadTools` | up to 2 roles and 2 bindings over two namespaces and the cluster, up to 2 policies, 2 nodes with 2 pods, up to 3 pods or one failing section in the snapshot with tables of 1 row, up to 2 events, or 3 of one object, 3 pods' logs | what the reading tools conclude is right |
| `WriteTools` | 2 calls of each kind; 2 keys; a new Deployment and a StatefulSet, 8 tasks, time up to 2; 2 selectors, 2 node ports; 4 versions of the Deployment; 3 webhooks, 2 tries | what the writing tools change, report and wait for |

Runs that end in a violation, each of one property that a doc, a comment or a test
states (section 5):

| Run | Bounds | The counterexample |
|---|---|---|
| `UntaintByIndex` | 2 calls of the taint tools, 2 taints, no pods | untaint removes another taint |
| `ApplyOverwrites` | as `ManifestWrites`, all objects there at first | a patch overwrites what was written after the tool's GET |
| `SchemaOfAnotherCluster` | as `SharedCaches`, 2 changes, 2 fetches | a call gets the schema of a cluster it did not ask |

Why these bounds are enough to be interesting. Two slots and three calls are the
least with a full pool and a call refused by it; with four, a slot is reused
while an orphan still runs. A token at 14 per minute takes 857 ticks and a
seventh, so that steps of about half of that and of the whole drain the bucket,
refuse on both sides of a half hundredth, and refill past a fraction of a token. Two documents give a first, a last and a
partially applied manifest, and the shapes include a forbidden second document,
an unserved kind and the same object twice. With one pod of each kind and every
combination of flags, a drain skips, evicts, fails or runs late on either; a second
drain or an uncordon runs in between; two taints are the least for a position to be
stale. Time up to 3 lets a URL expire and be
found again, and a service vanish while its URL is built, cached and served; two
identities make each forget what the other found. In `SharedCaches` two threads and one change give the
replacement back and forth of both caches, a rebuilt client of an old
configuration, a follower, a leader that fails, and a discarded schema. All
bounds are constants in the cfg files: `MaxTime`, `MaxRevision` (the operator
acts while the revision is below it), `MaxSwitches`, `MaxFetches`, `Documents`
(`Horizon`, `LastPort`, `LastVersion` and `MaxTries` in `WriteTools`;
`MaxTime` is as much part of the model's guards as of its instance; the proofs hold for
every value of it).

In `WriteTools` two callers are the least for a race; a list of two workloads has a
first patch that succeeds and a second that fails, and one of its members is
deleted while others wait for it; a fresh Deployment is unobserved, in progress,
complete or stalled when it is polled; four versions are one apply, one flag
patch and two writers between them; of the three webhooks one is refused by the
settings, one takes no big message, and two share a name. In `ReadTools` two roles
of one name in two namespaces and a ClusterRole of that name, bound in three ways,
give every join by name its chance to go wrong, with wildcards in each field; two
pods on two nodes overfill a node, or do not because of an init container; every
section of the snapshot fails once while the listing of pods succeeds, and two rows
overfill a table of one; three events
in two namespaces overfill both limits; three pods are the least that are fetched
in parallel, with a failing one among them, and budgets of 0 to 23 bytes cut
before, in and after every line, and within a wide character.

Deadlock is not checked where the model rightly stops: all calls are made, the
clock has reached its bound, or the process has exited. In `SharedCaches` it is
checked: threads can always go on.

### Fairness

`ToolBoundary`: weak fairness on the event loop's callbacks and timers and on
idle workers taking jobs, none on bodies, clients or the limiter. A body may hang
for ever; only `SlotsComeBack` assumes that bodies end (`BodiesEnd`), as the
connect and read timeouts of `client.py:42-72` make them. `EveryCallAnswered`
needs the cap on. `ServerLifecycle` is checked and proved for safety only.
`OpenApiCache`: a thread that has begun goes on (locks are held for bounded time,
requests end by timeout); nobody is obliged to ask or to switch. `Rollouts` (and
`WriteTools`): time goes on, and a call that has been made goes on; controllers
need not do anything, so that `EveryCallEnds` rests on the deadlines alone.

## 4. Proofs

TLC agrees on small instances; the theorems hold for every value of the
constants that satisfies the modules' named assumptions.

* `ToolBoundaryProofs`. For all sets of calls and all pool sizes: `TypeOK`,
  `SlotsBalance`, `RefusedNeverRuns`, `AnswersAreSettled`, `ApiStatusKept`; with the
  cap on also `NoBacklog`; and the safety part of the refinement of `ToolService`.
  None of them is inductive alone: the invariant adds what ties a call's task, job,
  future and membership of `released` to each other (a call that has a job has a
  future; a future is done only when its body has returned; without the cap's
  shield a future can be cancelled, and so on), from which the counting of
  `Holders` follows. `OutcomesInv` says that an outcome is known only of a body that
  has returned, and that a timer that fired was the request's answer. Cardinalities change by
  one where a call joins or leaves `Holders`, with the library's theorems on finite
  sets. The assumption `TimeoutOn` is needed where it is made: without the cap a
  cancellation frees the slot of a body that is still running (section 5).
  Of the process: all of the above, the refinement
  included, survives signals, the end of the input and the draining of the pool.
  `ApiStatusKept` is about the answers that say what became of a body; its formula
  names the one kind of outcome whose status the code does not look for. `QueueInv`
  says that a body that has not started is in the executor's queue. It gives the safety halves of two
  liveness properties: `AdmittedHasWorker` (with the cap on, a body that has not
  started finds a free worker, by counting the unfinished ones) and `SlotsAreOwed`
  (a slot that is out is in the hands of something that will give it back).

* `RateLimiterProofs`. For every rate: `TypeOK`, `WindowBound`, `RetryIsHonest`.
  The inductive invariant is a potential argument: for each accepted call the
  tokens granted since then plus the present level never exceed the capacity
  plus what has flowed in. `RetryIsHonest` rests on the exact time at which the bucket
  will hold a token: a refused call does not move it (it takes nothing, and the refill
  it notes is the one that would have come), and what is told is at most half a
  hundredth of a second away from it.
* `ManifestWritesProofs`. For any calls, objects and manifests of any length:
  `TypeOK`, `GuardsPrecedeWrites`, `WritesArePrefix`, `ReportsAreTrue`, and the
  action property `ReplaceKeepsRacingWrites`. The invariant
  says where a call's history stands relative to its position (`Progress`),
  that only guarded calls get past the guards (`Guarded`), that records follow
  writes (`Truth`), that an absent object has no content (`Vacant`) and that
  while a version is the one a call has read, its content is the one it read
  (`Window`).

* `NodeOpsProofs`. For any calls, pods and taints: `TypeOK`,
  `DrainMissesNothing`, `DrainReportIsTrue`, and the action property
  `UntaintHitsUnlessRaced`. The invariant adds, per call, that list, report and
  marks are empty before the listing (`Fresh`), that no pod is at once still to be
  dealt with and dealt with (`Apart`), and that a drain past its cordon has the
  node cordoned while nobody uncordons (`Cordoned`): that is what keeps the
  scheduler from adding a pod behind the list. `Found` carries the position from
  untaint's read to its patch; the lemma `RemovedOne` says what removing a
  position does to a sequence without repetitions.

* `PrometheusDiscoveryProofs`. For any threads, identities, services, candidate
  lists and TTLs: `TypeOK`, `AnswersWereTrue`, `RefusalsAreRecent`,
  `ScansAreSpaced`. The invariant says that nothing is cached during a scan
  (`Blank`), what a cached URL rests on (`Backed`) and the service whose URL is
  being built (`Building`), that a remembered failure was one (`Failure`), and that
  between scans the cache holds the last result or what is left of it (`Latest`).
  Every step of a scan is first shown to go on, to store or to fail
  (`ProbeOutcome`), so that the invariant's parts need no case per action. The
  assumption that both TTLs are positive is the code's (300 s and 30 s).

* `SharedCachesProofs`. For any finite number of threads, any configurations and any
  number of changes, fetches and documents: `TypeOK`, `ClientsAccountedFor`,
  `ClientsBelongTogether`, `SingleFlight`, `ServedOwnSchema`. For the clients the
  invariant says that the cached ApiClient is the last one built (`CachesInv`),
  that each replaced one is closed or in the hands of exactly one thread, on its
  way to close it (`PredecessorsInv`), and what a thread's clients have to do with
  its configuration (`HandsInv`). For the schema it says who leads a fetch
  (`LeadersInv`), that a leader's Future is of its key (`FuturesInv`), that a Future
  without a result is the one registered as in flight (`InflightInv`), which is
  what makes the flight single, and under which key, and unless noted as late from
  which cluster, everything was fetched (`KeysInv`): a thread in `explain_resource`
  for which nothing has `moved` is still under its own configuration, asks for
  clients of it, and has fetched from no other cluster (`SteadyInv`). Only the
  accounting of clients needs the finiteness of the threads.
  `FlightsLed` adds that what is registered as in flight is led by some thread, so
  that no configuration is blocked by a fetch nobody makes; from it follows
  `FollowersAttended`, the safety half of `FollowersAnswered`: as long as a thread
  waits, another one is on its way to announce the result.

* `WriteToolsProofs`. For any callers, keys, workloads, Services, Deployments,
  webhooks and bounds:
  * `EditType`, and the action property `UpdateChangesItsKeys`. `BodyIsFresh` says
    that a body about to be sent holds, for every key it was not given, the present
    text, or somebody has changed that key since the read.
  * The action property `PollsTellTheTruth`. `ReportsInv` says of every workload
    that no spec is observed that is not there yet, that only Deployments are
    reported on, and that, once the present spec has been observed, `complete` is
    said only of a template that has been rolled out. `LastLookInTime` is the safety
    half of `EveryCallEnds`: nobody sleeps past one interval after its deadline, and
    `Horizon` lies behind that last look, so that the bound cuts no polling off.
  * `PortsLeadToPrometheus` (ports are given out once, an answer keeps what it was
    about) and `InstalledHasTheFlag` (the version that a patch carries ties what was
    read to what is there).
  * `FanOutIsReported`. `ThreadInv` says what a webhook's thread has done, told by
    where it is; `RowsInv` that a message is only where it was meant to go, and that
    the rows are of the first of the chosen webhooks, in their order.
  * `PartsDoNotInterfere`: a behaviour of the server with all writing tools is, in
    each part, a behaviour of that part. With it `WriteToolsAreSafe`: all the
    properties above hold of `WriteTools`.

* `ReadToolsProofs`. For any cluster a tool may be called on: `WhoCanIsRight`,
  `LookupsAgree`, `PostureIsTrue`, `PodSectionsAgree`, `MergedEventsAreLatest`,
  `FullyPlacedFits`, `LogsInOrder`, `BudgetKeepsTheEnd`. The
  part of the invariant that steps prove, `AnswersCome`, says only that an answer
  was computed from what the tool was given; the rest are facts about the
  operators: that the tool's matching of a rule, a label selector or an expression
  is Kubernetes' own (`MatchingIsPermitting`, `SelectorAgrees`, `ExprAgrees`), that a
  report on a subject can show each role that its bindings refer to
  (`ReportShowing`), and that cutting the events of each namespace and then their
  union loses none of the latest (`MergedIsLatest`, by counting what was cut).

  GPUs and logs need induction: the code adds up slices and sizes and joins logs of
  any length. A theorem of induction that takes a predicate as a parameter is of
  no use to the provers, so induction is stated with sets: among the naturals of a
  set there is a least one (`LeastNatural`, from the library's `WFMin`), a family of
  subsets of a finite set has a minimal one (`MinimalSubset`), and a set of subsets
  that has the empty one, and each whose smaller ones it has, has the whole
  (`FiniteInduction`). A proof names the set of counterexamples, or of cases that
  hold, and cites one of these. On them rest the sums: the function that adds up
  over subsets exists and is the only one (`TableExists`, `TableUnique`), any element
  may be taken out first (`SumRemove`), and the folds in `GpuTools` and `PodLogs` are
  such sums (`ContainersSumIs`, `SlicesAskedSum`, `SlicesOfferedSum`, `SizesIsSum`).
  * `FullyPlacedFits`: the limits that the tool takes a pod to have are at most any
    share that suffices for it (`LimitsAreCovered`); the shares on a node are at most
    what the node offers; and what is shared out under headings is at most the
    headings' bounds together (`SumShared`).
  * `LogsInOrder`: lines of sequences joined by `FlattenSeq` keep the order of the
    sequences (`FlattenKeepsOrder`); the threads, in whatever order they end, fill
    the table that a serial fetch would have filled (`ParallelIsSerial`); and the
    window, the pattern and the budget keep the order (`SelectedInListing`,
    `SerializedInListing`).
  * `BudgetKeepsTheEnd`: a newline parts a log into what is before it, one byte
    and what is behind it (`NewlineParts`), so that what a cut leaves behind the
    first newline within the budget is the budget less the bytes before that newline.
    One line more would therefore have filled or burst the budget, a piece of a
    line is left only where no newline was, and what is over the budget is the at
    most two bytes of a cut character, for each of which three are written
    (`TextKeepsTheEnd`).

  Assumed of the inputs, by name in `ReadTools`, is what the apiserver guarantees: a
  rule for resources names its API groups, a subject has a kind, a policy has
  known types (`RbacAssumption`, `PolicyAssumption`), quantities of GPU resources are
  whole and a listing is finite (`GpuAssumption`); that there are finitely many pods
  with finitely many containers and that `Failed` is not among the
  things a listing can give (`HealthAssumption`); that there are finitely many
  events, a limit that is not negative and a list of namespaces (`EventsAssumption`); and that the lines of
  a pod's log carry that pod's name, that a pod asked for by name is one pod and
  that every thread that fetches a log comes to an end, in some order
  (`LogsAssumption`).

Of the constants the other modules assume finite sets of threads (`SharedCaches`)
and calls (`ToolBoundary`), bounds that are natural numbers, and that `NoConfig` and
its like are not among the values they stand apart from. TLC evaluates all
assumptions in every run.

`TypeOK`, `RefusedNeverRuns`, `GuardsPrecedeWrites`, `FollowersAttended`,
`AdmittedHasWorker`, `SlotsAreOwed` and `LastLookInTime` are proved and are not among
the properties of a run; TLC has checked them on the same instances, as it has
each inductive invariant before its proof.

Only model-checked, for these reasons:

* Liveness under fairness, and ENABLED, which the provers do not reach:
  `EveryCallAnswered` and the other leads-to properties, the fairness part of
  `ImplementsService`. Of `FollowersAnswered`, `AdmittedStarts`, `SlotsComeBack` and
  `EveryCallEnds` what is proved is that somebody is always there to take the next
  step; that it is taken, and that such steps come to an end, is TLC's.
* The three violations of section 5, where there is a counterexample.

## 5. Disagreements between code and documentation

With a run, in `PROJECT.json` ("findings"): `untaint_node` removes by a position it
read earlier (`node_ops.py:575` against 518 and 10-11); `apply_yaml` sends a patch
without a version, where the module's docstring has a PUT that keeps the updates of
others (`generic.py:905` against 9-10); a schema fetched while the settings change
is stored under the key of another configuration, and served when they change back
(`discovery.py:161` against `tests/test_discovery_cache_cap.py:105-119`).

Met while modelling, without a run:

* Boundary and process. Without a cap (`tool_timeout_s = 0`) a cancellation frees
  the slot of a body that is still running, and orphans pile up (`server.py:218`
  against 95-97 and 188-190). An error of the apiserver that is raised while an
  error of another kind is handled is told as that other one, and one that was
  wrapped twice, as for `top_pods` (`prometheus.py:145-151`, `metrics.py:145-154`),
  as an internal error (`server.py:237` against 233-235). A signal is logged and
  ends nothing (`server.py:315` against 311-312 and `docs/CHANGELOG.md:541-542`).
  A refused caller is told a waiting time rounded to the nearest hundredth, up to
  5 ms too short (`safety.py:206` against 225-227). The `TimeoutError` of
  `wait_resource` is reported as the cap's, with the cap's seconds
  (`server.py:219-221`).
* Writes. `replace_resource` stamps the version it has just read itself, which is no
  guarantee against silent overwrites of what came after the agent looked
  (`generic.py:694` against 644-645). `create_networkpolicy` puts its `pod_selector`
  where Kubernetes expects `matchLabels`, so that the selector of the docstring's
  example selects every pod (`networkpolicy.py:68` against 48). `update_configmap`
  without merge leaves the keys it was not given in place (`configmap.py:102` against
  75-76 and 83-84): `UpdateChangesItsKeys` says so. `add_label` fails on an object without labels. Lists given to `scale_workload`,
  `restart_workload` and `set_image` lose the rows of earlier names when a later
  one fails; `set_image` with an unknown container name adds a container.
  `set_resources` with an empty value removes nothing.
* Rollouts. `rollout_status` of a StatefulSet never completes (it has no
  Progressing condition); right after a scale it says complete. `rollout_undo`
  calls a request that current clients do not have for a Deployment, and for a
  StatefulSet it applies `int()` to revision names.
* metrics-server. After a failed flag patch a second call answers
  `AlreadyInstalled` and leaves the flag out; a Deployment that is not ready within
  `wait_seconds` is `Installed`, where the docstring (`metrics.py:508-545`) promises
  a `RuntimeError`; with a container of another name the flag is reported and not
  set; the flag patch carries the whole Deployment with its version and conflicts
  with the controller's status.
* Notifier. `Sent to N` counts failed ones; a retried POST may be delivered twice.
* RBAC and network policies. The matching of a rule looks at neither
  `resourceNames` nor `*/subresource`: who may read one named object is listed as
  one who may read all (`_rule_matches`). A lookup with a namespace joins only the
  Roles and RoleBindings of that namespace, so that those who can by a ClusterRole
  are not named (`rbac.py:446` against 403-407), and a Role is found by its name only; `system:serviceaccount:...` matches nothing. An
  ingress rule that has `to` becomes one that allows everything; an Egress policy
  with `ingress: []` is shown as denying ingress.
* Views. A Pending pod whose condition has no message fails its section
  (`health.py:160`), and the headline is HEALTHY with Pending pods. `inconsistent`
  compares quantities without their units. `diagnose_deployment` takes the
  ReplicaSet with the largest hash for the new one. `gpu_dra_overview` calls all
  claims allocated when they are not reserved either; `gpu_mig_overview` and
  `gpu_diagnose` say OK after a failed listing of pods; a history of 1000 points
  returns 1001 (`nvidia_metrics.py:350`). `top_pods` keys its memory rows by node.
  `list_events` drops its field selector for two or more namespaces (`events.py:126`
  and 156 against 110-111). A log cut to `max_bytes` may be larger: by up to 6 bytes
  for a cut character, by all of it for a budget of 0 (`logs.py:547` and 552 against
  129-130), and by the notice, which comes on top.

Met while reading, without a run: `apply_yaml` documents an action `unchanged` that it never reports;
the per-minute cap of the documentation (`server.py:53-54`) is a rate, a minute
may see it plus the burst; `safety.py:190-194` calls the limiter deliberately
not thread-safe while it locks; an empty schema is cached for five minutes after
both endpoints failed; `cordon_node`, `uncordon_node` and `drain_node` do not look
at the namespace allowlist, although `docs/security.en.md:20` has cluster-scoped
writes rejected when it is set; `taint_node` appends to `/spec/taints`, which a
node without taints does not have; the cluster address of a headless service is
the word `None`, which `_service_url` (`prometheus.py:335`) does not catch, so that
`http://None:...` is found and cached, while the exposing tool checks for it (1450);
`expose_prometheus_as_nodeport` announces `Force a re-create by deleting`
(1493) and deletes nothing; a failed diagnosis is to be cached for a `shorter window`
(833) and gets the same one.

## 6. Not modelled

* Choice among token, kubeconfig and in-cluster configuration (`auth.py`): a chain
  of conditions without state.
* The queries of `prometheus.py` and the texts of its diagnosis: one request and a
  format. The diagnosis cache is a dictionary that threads read and replace whole.
* `explain_resource`'s walk through a schema, `search_resources`,
  `get_resource_yaml`, `diff_resource`, `rollout_history`, `top_*`, `pods.py`,
  `cluster_info.py`, `jsonpath.py`, `formatters.py`: they list and format.
  `exec_pod` is a stream to the container.
* Writers of one request (`create_*`, `secret.py`, `service.py`, `autoscale.py`,
  `label_node`): the guards in front of them are those of `ManifestWrites` and
  `KeyedEdits`, and a single request has no in-between. `storage.py` hands
  manifests to `apply_yaml`, which is `ManifestWrites`.
* FastMCP's protocol layer and the Kubernetes client library beyond what the code
  relies on; packaging.

What would be worth doing next: a composition of `wait_resource`'s deadline with the
boundary's cap, and the refinement of the two caches by one abstract cache.
