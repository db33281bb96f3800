# Verification of Aperture AI

TLA+ models of the parts of this repository that carry its own logic: the
Kubernetes operator that turns `GPUWorkload` objects into Deployments and
Services, the inference server with its token quota, and the init container
that fills the model cache. TLC checks the models on small instances; TLAPS
proves the main safety properties for every value of the constants.

## The system

| Component | Source | State | Operations | Talks to |
|---|---|---|---|---|
| GPUWorkload reconciler | `operator/controllers/gpuworkload_controller.go` | none of its own: a watch cache, a work queue, the local variables of the pass in progress | `Reconcile`, `deleteOwnedResources`, `updateStatus`, watches | API server (reads through the cache, writes direct), Deployment controller, garbage collector |
| API types | `operator/api/v1alpha1/gpuworkload_types.go` | spec, status, phases | — | reconciler, CRD, webhook |
| Admission webhook, CRD | `gpuworkload_webhook.go`, `operator/config/crd.yaml`, `k8s/webhook.yaml` | the stored spec; whether the webhook is configured, and served | defaults, schema, `ValidateCreate/Update/Delete` | API server, users, the reconciler's own updates |
| Operator main | `operator/main.go` | leader lease | start, leader election | API server |
| Container probes | `buildInferenceDeployment` 351-374 | two probers of the kubelet | readiness and liveness on `/health` | the server's event loop, the Service |
| Token counter | `_TokenCounter` in `inference/server.py` | a value and a lock | `try_reserve`, `adjust`, `value` | the handlers |
| Inference server | `inference/server.py` | `_engine`, `_fallback_mode`, the counter, request metrics | `lifespan`, `generate`, `health_check`, `/metrics`, `metrics_middleware` | vLLM, clients, Prometheus, kubelet |
| Model preloader | `inference/model_preloader.py` | files on a shared volume | `main` = `is_model_cached`, `download_model`, `create_ready_marker` | Hugging Face Hub, other pods on the volume |
| Tracing, benchmarks, manifests, dashboards, CI | the rest | — | — | — |

How they interact: a user writes a `GPUWorkload`; the API server admits it (CRD,
webhook) and the operator's informers learn of it some time later. `Reconcile`
adds a finalizer, creates the Deployment, in a later pass the Service, and
mirrors the Deployment's readiness into `status.phase`. The pod first runs the
preloader and then the server; both get the spec as environment variables
(`MODEL_PATH`, `TOKEN_QUOTA`, `USE_GPU`). The server's only link back is
`/health`, which the kubelet's probes turn into Deployment readiness, or into a
restart of the container.

What is hard in it, and the properties that make each part correct:

* **Reconciler.** It reads from a cache that lags behind the objects it writes;
  it is interrupted between any two calls; its calls fail, or succeed without an
  answer; names are deleted and created again. It is correct if nothing it does
  from old knowledge harms what exists now (creating for a dead owner, deleting
  a successor's children, undoing somebody's write), and if it always ends where
  the spec says, whatever order events come in.
* **Token counter.** Loads and stores of several threads. No update may be lost,
  no two requests may both be admitted into the last of the quota, no path may
  keep the lock. What was spent may be more than what was reserved: it is charged
  without a test, and is all that may overdraw the quota.
* **Server.** Handlers interleave between `try_reserve` and `adjust`; generation
  fails; the process stops or is killed. The counter must be exact on all paths,
  a refusal justified, every request answered, and no request may find the
  engine missing.
* **Admission.** The limits of a spec are written three times (schema, webhook,
  Go types) and a spec passes through Go's zero values each time the operator
  updates its object; the spec as a whole may be missing. The three must agree, the
  round trip must not change what the spec means, and the container must get an
  environment it can start from.
  A webhook that is configured and not served refuses everybody, the operator
  included.
* **Operator main.** A lease does not fence: a deposed leader may finish the call
  it is in beside its successor. Neither may undo what the other writes, and the
  successor must notice whatever the deposed one still does.
* **Probes.** `/health` waits behind generations on one event loop, and is not
  answered at all before the model is loaded. Nothing bounds how many generations
  line up, or how long one takes, so answers may be late. Four numbers of each
  probe decide whether a container that is merely busy or slow is killed; one that
  answers now and then must not be, and one that has been killed must recover.
* **Preloader.** Several pods, and passes that die half-way, share one directory
  without a lock. What it declares ready must be usable; every pod must get
  through.

The full list of hazards, each at its line and with the properties that cover
it, is in `PROJECT.json`.

## Modules

| Module | What it is |
|---|---|
| `GPUWorkloadReconciler` | the controller and the part of Kubernetes it needs |
| `GPUWorkloadReconcilerProofs` | its theorems |
| `MCReconciler` | its TLC instances |
| `LeaderTakeover`, `MCTakeover` | the controller twice: a successor, and a deposed leader that finishes its call; its TLC instance |
| `LeaderTakeoverProofs` | its theorems |
| `Admission`, `MCAdmission` | a spec from the manifest to the container's environment, and its TLC instance |
| `AdmissionProofs` | its theorems |
| `HealthProbes` | the probes, the kubelet and the server's event loop, in seconds |
| `HealthProbesProofs` | its theorems |
| `QuotaLedger` | abstract: what a token quota promises |
| `TokenCounter` | `_TokenCounter` at the grain of loads and stores |
| `TokenCounterProofs` | its theorems |
| `InferenceServer`, `MCServer` | one container of the server, and its TLC instances |
| `InferenceServerProofs` | its theorems |
| `SumLemmas` | what the quota's proofs need to know about sums over finite sets |
| `ModelPreloader`, `MCPreloader` | passes of the preloader on one directory, and TLC instances |
| `ModelPreloaderProofs` | its theorems |

Definitions named "Mutation" are faulty versions of the definition below them.
No specification uses them: each is a plausible bug that violates the property
it stands beside in `PROJECT.json`, and shows that the property can fail.

### GPUWorkloadReconciler

Each object (`workload`, `deploy`, `service`, per name) is a *view*: the sequence
of its versions from the one in the operator's cache (first) to the one stored
(last). Writes append, watch events drop the first version and enqueue the
workload's name. A cache that lags by any amount, and never runs backwards, is
exactly this. `resourceVersion` is `rv`, `metadata.uid` is `uid`; a deleted
object is a tombstone that keeps both.

One call of `Reconcile` is a sequence of actions, one for each write it sends:

| Code (lines of `gpuworkload_controller.go`) | Action |
|---|---|
| 72-116 fetch, deletion mark, finalizer test | `FetchNothing`, `FetchDeleting`, `FetchNew`, `FetchManaged` |
| 473-486, 488-501 | `deleteOwnedDeployment`, `deleteOwnedService` |
| 95-102 | `RemoveFinalizer` |
| 105-116 | `AddFinalizer` |
| 118-150 | `FoundDeployment`, `CreateDeployment`, `DeploymentAlreadyExists` |
| 152-179, with 181-216 | `ReconcileService` (its last conjunct, `ReportStatus`, decides what `updateStatus` is called with) |
| 505-528 | `updateStatus` |
| optimistic locking refused, any other returned error | `Conflict`, `CallFails` |

The outcome `o` of a call is `"ok"`, `"error"` (nothing written) or `"lost"`
(written, the answer lost). A cached read just before a write is in the write's
action: the lag is arbitrary, so that read sees whatever an earlier one could.
There is one worker, as `MaxConcurrentReconciles` has its default. Pod templates
are a function of the spec, so a Deployment carries the spec it was built from.
The requeue delay of `updateStatus` has no effect, since it comes with an error.

The environment (marked external) is users (create, delete with or without
foreground propagation, edit), the Deployment controller, scaling, somebody who
deletes a child or creates a Deployment of the same name, garbage collection,
informer lists and resyncs, and a restart of the operator.

### LeaderTakeover

`EXTENDS` the reconciler, which is the leader, and has a second instance of it
(`Deposed`) for the leader that lost its lease: its own caches, its own call, no
queue. `Takeover` is enabled in the middle of a call (`deployment.yaml` runs the
operator with `--leader-elect`; between two calls a takeover is a `Crash`). From
there on both write to the same objects: `Follow` appends to one operator's view
what the other has stored. The deposed leader takes no new name (`DeposedStep`
has `Reconcile` and watch events only) and may exit at any point
(`DeposedExits`); `BothEnds` drops from its views the versions that no remaining
read of its call can tell apart.

### Admission

One object that has a spec or none (`NoSpec`: `crd.yaml` requires a `modelName` in
`spec`, lines 56-57, but no `spec`), the spec with its five fields, each possibly
`Absent`. `Create` and `Edit` are admitted by `Schema` after `Defaulted` (`crd.yaml`), and by
`ValidateCreate` if the webhook is configured: then somebody must serve it, for
its `failurePolicy` is `Fail`. `served` is FALSE for `main.go` as it is (84-87
are commented out); TRUE, with the registration restored, is explored as well.
The operator's updates send `Encode(Decode(...))` of the whole object, through
the `omitempty` tags of the Go struct; a struct is never omitted, so a missing spec
is sent back as one with an empty `modelName`, which the schema refuses. `Environment` is what
`buildInferenceDeployment` makes of the spec. Passes of the operator are single
steps here: caches, conflicts and failures are in `GPUWorkloadReconciler`.

### HealthProbes

`Probes` holds the eight numbers of lines 351-374. The event loop serves `line`
in the order of arrival; a POST /generate holds it for up to `MaxGeneration`
seconds (`Generate`, line 429 has no `await`), a GET /health for none. Neither the
number of clients nor `MaxGeneration` is related to a probe's timeout. `held` is a
history variable: for how many seconds, since the last answer to a liveness probe,
such a probe was unable to get one, because the loop was held or, at 5 seconds
each, because it was sent before `lifespan` was done (`Refused`). Before
`lifespan` is done connections are refused. Clients reach a container through
its Service, so only while it is ready. In the CPU fallback a generation sleeps
and the loop is free: that mode is the case without clients here.

### QuotaLedger, TokenCounter, InferenceServer

`QuotaLedger` has two indivisible steps, `Reserve` and `Settle` (and `Reset`, a
keeper that forgets). `TokenCounter` has a thread in `try_reserve` or `adjust`
take the lock, load, store and leave as separate steps, and is shown to implement
the ledger. A client spends any amount up to its reservation plus `MaxOverrun`:
`adjust` corrects in both directions, and `test_server.py` has it raise the count
from 100 to 120. In `InferenceServer` these calls are single steps, which the event
loop and that refinement justify, and `MaxOverrun` is 0 there: both of its
generators stop at `max_tokens`, which is what was reserved.

`InferenceServer` has one action for each stretch of a handler between two
awaits. `Generate` is `generate` up to the sleep of the CPU fallback or into
`_engine.generate`; `Wake`, `EngineReturns` and `EngineFails` are what follows.
A request in the engine stops the event loop (`LoopIsFree`), because line 429
calls the engine without an `await`; one in the fallback's sleep does not.
`metrics_middleware` is a later step of the same request. The container starts
(`LoadEngine`, `FallBack`: the outcomes of lines 138-161), is told to stop
(`Terminate`, then `Shutdown` when the last request is done), or is killed. The
`503` branches need both flags unset while the server serves; they are left out,
and `ReadyWhenServing` is checked to justify it.

### ModelPreloader

Files appear one at a time, in any order, as `snapshot_download` puts them in
place; `is_model_cached` is two looks (weights, then configuration); a pass may
fail or be killed anywhere, and the kubelet runs it again. Several pods share
the directory.

## Runs

| Run | Module, cfg | Checks | Instance and why it is enough |
|---|---|---|---|
| `lifecycle` | `MCReconciler`, `ReconcilerLifecycle` | `TypeOK`, `CreatesOnlyForLiveOwner`, `QuiescentConverged`, `NothingForgotten`, `CleanupSparesTheLiving` | two incarnations of one name (delete and re-create), lag 1, a restart, one rollout event or child deletion |
| `faults` | `ReconcilerFaults` | `StaleButSound`, `CleanupSparesTheLiving`, `OperatorKeepsOthersWrites` | two specs (an edit), two incarnations, one fault, one restart, one edit or foreign Deployment |
| `converges` | `ReconcilerConverges` | `EventuallyConverged` | lag 2 (so that a list can skip a version), two rollout or scaling events, one fault |
| `takeover` | `MCTakeover`, `Takeover` | `QuiescentConverged`, `TakeoverKeepsWrites` | two incarnations, lag 1, one takeover; each of a call's steps can be the one in which the lease is lost |
| `admission` | `MCAdmission`, `Admission` | `RulesAgree`, `ContainerStarts`, `UpdatesKeepMeaning`, `DeletesUnlessObstructed` | no spec at all; each field absent, at both ends of its range and one beyond; all combinations of the legal ones, since rules are about single fields |
| `probes` | `HealthProbes` | `KilledOnlyIfHeld`, `FastStartsServe` | two clients with generations of up to 6 seconds: one is longer than a probe waits (5), two in a row as long as two probes in a row wait; starts of 0, 75, 90 and 91 seconds: none, one, two and three liveness probes are refused |
| `token_counter` | `TokenCounter` | `TypeOK`, `Conserved`, `RefusalJustified`, `OverdrawnByOverrunsOnly`, `ImplementsLedger`, `LockIsReleased` | three threads, requests of 1 to 3 out of 4: two fit or do not fit together; overruns of up to 2, so that one, two or three threads may overdraw |
| `server` | `MCServer`, `Server` | `TypeOK`, `ReadyWhenServing`, `CounterIsExact`, `RefusedOnlyWhenFull`, `ImplementsLedger`, `EveryRequestAnswered` | three requests of any kind, both modes, one stop or kill |
| `preloader` | `MCPreloader`, `Preloader` | `ReadyMeansUsable`, `IncompleteOnlyWhileFilling`, `EveryPodStarts` | two pods, a model of two weight files, two failed passes |

Workloads of different names share nothing but the queue, so one name is enough
for the reconciler's runs; the proofs have any number. Bounds that are not in
the code are constants named `Max...`: incarnations, undelivered versions beyond
which *others* hold back (the operator's own writes do not), faults, restarts and
environment steps. They are large enough for every race listed under hazards to
take place (each needs one stale read, one lost answer or one restart between two
particular steps); the theorems hold for every value of them.
Runs of programs that end (all requests answered, all pods started) do not check
for deadlock; the reconciler's and the counter's do.

### Where the code does not do what is said of it

Each of these runs has one property that states what a comment or a declaration
says, and TLC finds it violated.

| Run | What it shows |
|---|---|
| `running_without_service` | lines 173-175: an error of the Service's `Create` is swallowed. The pass goes on to report `Running`; the event of that status update starts another pass, and if its `Create` fails too there is nothing left to report: the workload stays `Running`, with nothing queued and no Service ("It ensures that a Deployment and Service exist for each GPUWorkload"). Two failed calls are all it takes: in this run nobody deletes a child and no watch breaks. |
| `edit_ignored` | the Deployment is created and never updated: an edited spec ("the desired state") has no effect. |
| `partial_download` | `is_model_cached` ("fully downloaded") accepts the configuration and one weight file, as a dead pass or another pod leaves them; the ready marker follows. |

Also seen while reading and modelling, without a run of their own:

* Admission. `crd.yaml` does not require `spec`. A workload created without one
  never gets its finalizer, and one that loses its spec later is not deleted: either
  update of the operator carries an empty `modelName`, which the schema refuses
  (`Obstructed`). If the spec is edited away after the finalizer is set and before
  the Deployment is made, the container gets `MODEL_PATH=""`, with which the server
  refuses to start, while the webhook's rules begin with "modelName must not be
  empty" (this is why `ContainerStarts` speaks of workloads that have a spec).
  `tokenQuota` ("Minimum=1") may be left out, has no default and becomes
  `TOKEN_QUOTA=0`, with which the server refuses every request; the "(default:
  100000)" of `server.py` is for a variable that is not set (`StartsFrom` states
  that this is the only way to a quota of 0). `main.go` says that it sets up the
  webhook and does not, while `README.md` has users apply `k8s/webhook.yaml`: from then on
  creates, edits and the operator's finalizer updates are refused and deletions
  stick (`Obstructed`). The markers in `gpuworkload_types.go` give `gpu` a
  default of 1, `crd.yaml` gives none; regenerated, it would turn `gpu: 0`, which
  `omitempty` drops from the operator's update, into one GPU (the mutation
  `DefaultedAsDeclared`). Comments give the range of `gpu` as 1 to 8, the rules
  as 0 to 8. `nodeSelector`, `tolerations` and `priorityClassName` are stored and
  never used.
* Probes. A start of more than 90 seconds is killed and killed again, while the
  image's own `HEALTHCHECK` allows a start period of 120. Late answers add up: three
  liveness probes in a row that meet a loop held for 5 seconds each get a container
  killed that does nothing but its work, and two that are refused during a start of
  more than 75 seconds count for two of the three, so that a single late answer
  after it is enough. Since the liveness probe gives up sooner than the readiness
  probe (35 seconds after its first unanswered request, against 55), the container
  is killed while its Service still sends it requests.
* Takeover. A deposed leader in its cleanup deletes by name, without a
  precondition, what its successor has made for a new workload of that name, and
  may create children for a workload that is gone; `CleanupSparesTheLiving` and
  `CreatesOnlyForLiveOwner` do not hold of two operators. `takeover` shows that
  the watch on owned objects and the garbage collector repair both.
* A pass that comes before the watch event of its own Deployment gets
  `AlreadyExists` and writes `Failed` (141-145), for the API types "an
  unrecoverable error"; a later event repairs it.
* `aperture_tokens_generated_total`, declared a counter, falls when a reservation
  is settled between two scrapes (CPU fallback only). The quota, "the maximum
  number of tokens this workload can generate", is per process: a restarted
  container counts from zero and grants it again (the ledger's `Reset`).
* Reconciler and preloader. The cleanup deletes a Deployment of the right name
  that the workload does not own (482); it takes a cached NotFound for the truth
  and may remove the finalizer over a child it has just created, which garbage
  collection then takes (476). The comment of the controller's test has the
  second pass create both children, the code needs a third for the Service
  (147-149). The preloader fills `/models`, while the server is given the Hub's
  name of the model and `HF_HOME=/tmp/huggingface`, so vLLM downloads it again;
  `a/b` and `a--b` share one cache directory.

## Fairness

* Reconciler (`FairSpec`): the worker goes on (weak fairness of `Reconcile`), watch
  events arrive, the garbage collector works. The queue is first-in first-out and
  a name is fetched again and again as long as it is put back, so `Fetch(n)` is
  strongly fair: it is disabled whenever the worker is busy. Nothing is assumed of
  users, rollouts, faults or restarts. `ResyncSpec` adds the informers' periodic
  resync, without which a swallowed error is never repaired
  (`running_without_service`).
* Admission: a workload that is not done is reconciled again, as its pass returns
  an error or asks for another one. Users and administrators do what they like;
  `DeletesUnlessObstructed` promises nothing if the webhook, or a spec that nobody
  gives back, obstructs for good.
* Probes: time passes, and what is due in a second happens in it. Nothing is assumed
  of clients; that answers are in the end no longer late is the hypothesis of
  `FastStartsServe`, written in it, since the code does not see to it.
* Token counter: a thread that can run runs. Nothing is assumed of who gets the
  lock; `LockIsReleased` needs no more.
* Server: the event loop runs each handler that can go on, and generation ends,
  as it stops at `max_tokens`.
* Preloader: a pass goes on unless it fails, and the kubelet retries.

## Theorems

All proofs are checked by TLAPS down to the last leaf, from the named assumptions
on the constants (`NamesAssumption`, `SpecsAssumption`, `BoundsAssumption`,
`DisturbancesAssumption`; `ThreadsAssumption`, `QuotaAssumption`;
`FilesAssumption`; `ServerAssumption`; `ProbesAssumption`; `WordsAssumption`,
`AbsentAssumption`, `NoSpecAssumption`, `BuildsAssumption`, `ManifestsAssumption`,
`NoneAssumption`).
Threads, requests and clients are finite sets of any size, names any set. Where a
theorem has a hypothesis beyond these, it stands in its statement and is
justified below.

**GPUWorkloadReconcilerProofs.** `TypeCorrect`, then `KnowledgeIsSound`:
`Spec => []StaleButSound`, the inductive invariant. None of the safety properties
is inductive: each is about what is *stored*, while the steps act on what is
*cached* or was read. `StaleButSound` ties the two together. In a view, resource
versions grow and uids do not shrink; a version under management (present, with
finalizer, not marked) means that the same incarnation is still stored with its
finalizer, because only a cleanup takes it away and a cleanup needs a marked
version (`WorkloadViewOK`). The worker's copy is a version at or before the
cached one, in the state its step presupposes (`SnapshotOK`); a cleanup's
incarnation does not come back and the children of the name are not younger than
it (`CleanupOK`); no child belongs to an incarnation that the cache has not shown
(`ChildrenOK`). From it follow `CreatesSafe`, `CleanupSafe` and `UpdatesSafe`. The
key step is that an update carrying a `resourceVersion` that is still the stored
one was made from exactly the stored version (`SnapshotIsStored`).

`NoneForgotten` and `NoWakeupLost` are about progress without being liveness: no
state is reached in which something is still to be done and nothing is left to
do it. `QuiescentConverged` says so only of a workload with nothing queued,
running or undelivered, and says nothing of how such a state is approached; the
inductive invariant is `NothingForgotten`. Its parts: every undelivered change of
a child has an owner on one side of it, so its event is mapped back to the
workload (`EventsWake`); what a call has read is in the condition its step
presupposes (`CallOK`); and once everything is delivered and nothing queued, a
call that is still running has read what is stored, so that the rest of it is all
that is missing (`CallSuffices`). The argument for a step is always one of two
(`Handled`): either it leaves an event or a queue entry for the name
(`EndsWake`, `PutWakes`, `DropWakes`, `DeliverWakes`: a write leaves an
undelivered version, a delivery a queue entry, a failed `resourceVersion` check
an undelivered version of the workload), or the name stays as quiet as it was and
what is stored of it is the same (`StaysHandled`); for the steps of a call it is
worked out in `CallHandles`.

Their two hypotheses are cases in which the claim is false of the code.
`faults = 0`, no call has failed so far: an error of the Service's `Create` is
swallowed, and an error of the Deployment's ends in a status update that returns
none (`running_without_service` is the counterexample). Conflicts, restarts and
stale reads are not failures and are covered; a broken watch, whose list skips
versions, counts as one.
`"foreign" \notin Disturbances`: nobody makes a Deployment of a workload's name
that no workload owns, since `Owns` maps none of its events to a workload.

**LeaderTakeoverProofs.** `StaleButSound` does not survive a takeover: its
statements about children are false of two operators. What does is weaker, and
enough for `TakeoverSafe`. `FencedByVersion`: in a view nothing is newer than the
stored version and a `resourceVersion` stands for one version (`Ordered`); what a
call has read is the stored version or an older one, whoever has written since
(`Fenced`, of both calls); both operators' updates are checked against the same
stored object (`OneServer`). `LeaderCall` and `DeposedCall` show that a step of
`Reconcile` leaves the GPUWorkloads alone or makes one of three updates of what
was read, `HonestUpdates` that none of the three changes what is not the
operator's. An update that passes the check is therefore one of the stored
version (`UpdateIsHonest`).

`TakeoverForgetsNothing` and `TakeoverLosesNoWakeup` say of the leader beside a
deposed one what `NoneForgotten` and `NoWakeupLost` say of one operator, under the
same two hypotheses. The invariant adds to `NothingForgotten` that the deposed
leader's call is in order (`CallOK(rec2)`) and that its deletes and creates are
made of the children that are stored (`SameChildren`). So whatever it sends
is, seen from the leader, somebody else's write of a version that wakes the leader
(`DeposedWorker`, `DeposedWrote`): it leaves an undelivered version in the leader's
view, and the steps of the leader are those of the other proof. A takeover is to
the new leader a restart (`RestartWakes`, shared with `Crash`), and turns the old
one's call into `rec2` as it is. Nothing is assumed of how far the deposed leader's
call had come, nor of what happens before it ends.

**TokenCounterProofs.** The inductive invariant `Locked`: a thread is inside a
`with` block exactly when it has the lock, so what it loaded is still the value
when it stores. `RefusalsAreRight` is a consequence. `OverrunsAreBounded` is the
inductive invariant `value <= Quota + MaxOverrun * n`, where `n` counts the threads
that have nothing reserved: a reservation brings the value within the quota whatever
`n` was, and an overrun adds one to `n`.
`NothingLost` adds `Conserved`: the value is the sum of what is spent and what
every thread holds, which only a store moves, by what it moves for one thread.
`CounterImplementsLedger` maps each store to the ledger's `Reserve` or `Settle`
and every other step to a stutter.

**SumLemmas.** `SumFunction` of the community modules is a fold, that is, a
recursive function over subsets whose recursion equation has to be proved before
anything is known of it. The library's induction theorems take an operator, which
the installed provers cannot instantiate; every induction here is an argument
about a smallest subset that breaks the claim (`SmallestSubset`). Used are the
bounds of a sum (`SumBounds`) and its change when one value changes
(`SumOfExcept`).

**ModelPreloaderProofs.** Files are only added, so what a pass has seen is still
there when it relies on it: `MarkerIsUsable`. `MarkedEarlyIsFilled`: some pod is in
its download, or the directory is complete, from the moment it has a first file; a
download is left only complete or by a failure.

**AdmissionProofs.** The inductive invariant `Sound`: what is stored satisfies the
schema and has its defaults (`Legal`), or is no spec. From `LegalFields`, what a
legal spec's fields are once it is a Go struct, follow `LegalBreaksWhatItLacks` (of
the webhook's rules it breaks `tokenQuota`'s at most, and that only by lacking it:
`SchemaAndWebhookAgree`, with `WithoutSpecBreaksWhatItLacks`), `LegalStarts`
(`ContainersStart`) and `RoundTripKeepsMeaning` (`MeaningIsKept`: no field that
`omitempty` drops has a default other than zero). They hold for every set of
manifests, with and without a spec, where the run has a few per field. Of a workload
without a spec `ContainerStarts` says nothing, as its container has an empty model;
its updates are refused (`WithoutSpecIsRefused`), so they keep its meaning.

**InferenceServerProofs.** `NeverUnready`: with what startup sets, the invariant
needs that a process which is starting or gone has no request in flight
(`NobodyWaits`), or a restart could leave one in an engine that is not there.
`CounterExact`, `TypeCorrect`, `RefusalsAreJustified` and `ServerImplementsLedger`
share `QuotaInv`, which adds what each request's place says of it (`RequestsOK`:
one in generation has asked for something legal and was given nothing yet) and
that a process which is not yet up has given nothing (`StartsFromZero`). A step of
a request reserves, settles or keeps the sums (`GenerateReserves`, `SettlesSums`,
`OthersKeep`), which are the three steps the ledger has.

**HealthProbesProofs.** `TypeCorrect` and `LineIsSound` from `ProbesInv`: an open
request of the kubelet is in the line exactly until it times out, nobody is there
twice, and while the engine holds the loop a client is being served.
`KillsAreJustified` from `Justified`: `held` is at least 5 seconds for each liveness
failure counted, those of the start in advance, plus what the probe that is open
has waited. It needs that a second cannot pass while the loop is free and somebody
waits, so every second an open probe waits is one in which a client is served. The
theorem has no hypothesis on clients, generations or starts.

Only model-checked:

* All liveness (`EventuallyConverged`, `DeletesUnlessObstructed`,
  `FastStartsServe`, `LockIsReleased`, `EveryRequestAnswered`, `EveryPodStarts`), as
  the prover has no fairness and no ENABLED.

## Not modelled, and the plan

Done: reconciler, takeover, admission, probes, token counter and ledger, server,
preloader; proofs for all of them. Next:

1. The percentile computation of the benchmarks against its definition.

Left out for good: tracing set-up, manifests and dashboards (declarative), build
and CI scripts, generated deepcopy code, flags and health endpoints of
`main.go`, texts and latencies of responses. In `HealthProbes`: the kubelet's
jitter and its back-off before it restarts a container, which only stretch the
times; fractions of a second.
