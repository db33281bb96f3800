----------------------- MODULE GPUWorkloadReconciler -----------------------
(***************************************************************************)
(* The GPUWorkload controller of the operator                              *)
(* (src/operator/controllers/gpuworkload_controller.go) together with the  *)
(* part of Kubernetes it depends on.                                       *)
(*                                                                         *)
(* The controller-runtime client reads from a watch cache and writes to    *)
(* the API server, so the two may disagree for as long as a watch event is *)
(* on its way.  Every object is therefore a VIEW: the sequence of its      *)
(* versions from the one in the operator's cache (the first) to the one    *)
(* the API server stores (the last).  A write appends a version; a watch   *)
(* event drops the first one and enqueues the workload's name.             *)
(*                                                                         *)
(* One call of Reconcile is a sequence of actions, one for each write it   *)
(* sends; the cached read before a write belongs to the same action (the   *)
(* lag of the cache is arbitrary, so a read just before the write sees     *)
(* everything an earlier read could have seen).  There is one worker       *)
(* (MaxConcurrentReconciles keeps its default), hence one record rec.      *)
(***************************************************************************)
EXTENDS Integers, Sequences, FiniteSets

CONSTANTS
    Names,            \* names of GPUWorkloads in one namespace
    Specs,            \* the values a GPUWorkload's spec may have
    NoSpec,           \* the spec of an object that does not exist
    NoName,           \* the name an idle worker holds
    MaxIncarnations,  \* how often a name may be created
    MaxReplicas,      \* largest replica count a Deployment may be scaled to
    Disturbances,     \* what the environment may do to the objects
    MaxDisturbances,  \* how often it may do so
    MaxLag,           \* undelivered versions beyond which others do not write
    MaxFaults,        \* failed or unanswered calls, and broken watches
    MaxCrashes        \* restarts of the operator

Kinds == {"status", "scale", "childDelete", "foreign", "edit", "foreground"}

ASSUME NamesAssumption == NoName \notin Names
ASSUME SpecsAssumption == Specs # {} /\ NoSpec \notin Specs
ASSUME BoundsAssumption ==
    /\ MaxIncarnations \in Nat /\ MaxReplicas \in Nat \ {0}
    /\ MaxLag \in Nat \ {0}
    /\ MaxDisturbances \in Nat /\ MaxFaults \in Nat /\ MaxCrashes \in Nat
ASSUME DisturbancesAssumption == Disturbances \subseteq Kinds

VARIABLES
    workload,      \* Names -> view of the GPUWorkload
    deploy,        \* Names -> view of the Deployment "<name>-inference"
    service,       \* Names -> view of the Service "<name>-svc"
    queue,         \* names waiting in the controller's work queue
    rec,           \* the Reconcile call in progress
    disturbances,  \* environment steps taken so far
    faults,        \* faults so far
    crashes        \* restarts so far

objects == <<workload, deploy, service>>
budgets == <<disturbances, faults, crashes>>
vars == <<workload, deploy, service, queue, rec, disturbances, faults, crashes>>

-----------------------------------------------------------------------------
(* Objects.                                                                *)

\* Status.Phase; "Completed" is declared by the API types and never written.
Phases == {"none", "Pending", "Running", "Failed"}

Messages == {"none", "created", "createError", "alreadyExists",
             "running", "replicaFailure", "starting", "waiting"}

\* Status.PodName is either empty or the Deployment's name.
Statuses == [phase : Phases, podName : BOOLEAN, message : Messages]

NoStatus == [phase |-> "none", podName |-> FALSE, message |-> "none"]

\* finalizer is aperture.ai/finalizer; hold is Kubernetes' own
\* foregroundDeletion finalizer.  A tombstone keeps the uid and the rv.
Workloads == [present : BOOLEAN, uid : Nat, rv : Nat, finalizer : BOOLEAN,
              deleting : BOOLEAN, hold : BOOLEAN,
              spec : Specs \cup {NoSpec}, status : Statuses]

Tombstone(uid, rv) ==
    [present |-> FALSE, uid |-> uid, rv |-> rv, finalizer |-> FALSE,
     deleting |-> FALSE, hold |-> FALSE, spec |-> NoSpec, status |-> NoStatus]

\* owner is the uid in the controller reference, 0 when there is none.
Deployments == [present : BOOLEAN, owner : Nat, spec : Specs \cup {NoSpec},
                replicas : 0..MaxReplicas, ready : 0..MaxReplicas,
                unavailable : 0..MaxReplicas, failure : BOOLEAN]

NoDeployment ==
    [present |-> FALSE, owner |-> 0, spec |-> NoSpec, replicas |-> 0,
     ready |-> 0, unavailable |-> 0, failure |-> FALSE]

Services == [present : BOOLEAN, owner : Nat]

NoService == [present |-> FALSE, owner |-> 0]

Cached(view) == view[1]          \* what the operator's cache holds
Stored(view) == view[Len(view)]  \* what the API server holds

Put(view, n, version) == [view EXCEPT ![n] = Append(@, version)]

\* The pod template is a function of the spec: the model keeps the spec.
buildInferenceDeployment(w) ==
    [present |-> TRUE, owner |-> w.uid, spec |-> w.spec, replicas |-> 1,
     ready |-> 0, unavailable |-> 0, failure |-> FALSE]

buildInferenceService(w) == [present |-> TRUE, owner |-> w.uid]

-----------------------------------------------------------------------------
(* The worker.                                                             *)

Steps == {"idle", "deleteDeployment", "deleteService", "removeFinalizer",
          "addFinalizer", "deployment", "service", "status"}

Recs == [step : Steps, name : Names \cup {NoName}, work : Workloads,
         dep : Deployments, goal : Statuses]

Idle == [step |-> "idle", name |-> NoName, work |-> Tombstone(0, 0),
         dep |-> NoDeployment, goal |-> NoStatus]

Self == rec.name

\* return ctrl.Result{}, nil
Done == rec' = Idle /\ UNCHANGED queue

\* return with an error or with Requeue: the queue gets the name back.
Requeued == rec' = Idle /\ queue' = queue \cup {Self}

Goto(step) == rec' = [rec EXCEPT !.step = step] /\ UNCHANGED queue

\* The next thing the call does is updateStatus with this status.
ThenStatus(status) ==
    rec' = [rec EXCEPT !.step = "status", !.goal = status] /\ UNCHANGED queue

\* A call may fail ("error", nothing written) or be applied with its answer
\* lost ("lost"); both cost one fault.
Outcome(o) ==
    /\ o = "ok" \/ faults < MaxFaults
    /\ faults' = IF o = "ok" THEN faults ELSE faults + 1
    /\ UNCHANGED <<disturbances, crashes>>

\* Update and Status().Update carry the resourceVersion that was read.
SameVersion == Stored(workload[Self]).rv = rec.work.rv

-----------------------------------------------------------------------------
(* 1. Fetch the GPUWorkload: a worker takes a name from the queue.         *)

\* Mutation: the request's name is forgotten.
TakeNameless(n, step) ==
    /\ rec.step = "idle"
    /\ n \in queue
    /\ queue' = queue \ {n}
    /\ rec' = [Idle EXCEPT !.step = step, !.work = Cached(workload[n])]
    /\ UNCHANGED <<objects, budgets>>

Take(n, step) ==
    /\ rec.step = "idle"
    /\ n \in queue
    /\ queue' = queue \ {n}
    /\ rec' = IF step = "idle" THEN Idle
              ELSE [Idle EXCEPT !.step = step, !.name = n,
                                !.work = Cached(workload[n])]
    /\ UNCHANGED <<objects, budgets>>

\* Not found, or already stripped of the finalizer: nothing to do.
FetchNothing(n) ==
    LET w == Cached(workload[n])
    IN  /\ ~w.present \/ (w.deleting /\ ~w.finalizer)
        /\ Take(n, "idle")

\* Mutation: the deletion mark is not looked at.
FetchDeletingUnmarked(n) ==
    LET w == Cached(workload[n])
    IN  /\ w.present /\ w.finalizer
        /\ Take(n, "deleteDeployment")

FetchDeleting(n) ==
    LET w == Cached(workload[n])
    IN  /\ w.present /\ w.deleting /\ w.finalizer
        /\ Take(n, "deleteDeployment")

FetchNew(n) ==
    LET w == Cached(workload[n])
    IN  /\ w.present /\ ~w.deleting /\ ~w.finalizer
        /\ Take(n, "addFinalizer")

\* Mutation: the finalizer is not waited for.
FetchManagedEarly(n) ==
    LET w == Cached(workload[n])
    IN  /\ w.present /\ ~w.deleting
        /\ Take(n, "deployment")

FetchManaged(n) ==
    LET w == Cached(workload[n])
    IN  /\ w.present /\ ~w.deleting /\ w.finalizer
        /\ Take(n, "deployment")

Fetch(n) == FetchNothing(n) \/ FetchDeleting(n) \/ FetchNew(n) \/ FetchManaged(n)

-----------------------------------------------------------------------------
(* 2. Deletion: deleteOwnedResources, then the finalizer is removed.       *)

\* Deletes by name whatever is stored under the cached object's name; a
\* NotFound answer is success.
deleteOwnedDeployment(o) ==
    /\ rec.step = "deleteDeployment"
    /\ o = "lost" => Cached(deploy[Self]).present
    /\ Outcome(o)
    /\ IF Cached(deploy[Self]).present /\ Stored(deploy[Self]).present
       THEN deploy' = Put(deploy, Self, NoDeployment)
       ELSE UNCHANGED deploy
    /\ IF o = "ok" THEN Goto("deleteService") ELSE Requeued
    /\ UNCHANGED <<workload, service>>

deleteOwnedService(o) ==
    /\ rec.step = "deleteService"
    /\ o = "lost" => Cached(service[Self]).present
    /\ Outcome(o)
    /\ IF Cached(service[Self]).present /\ Stored(service[Self]).present
       THEN service' = Put(service, Self, NoService)
       ELSE UNCHANGED service
    /\ IF o = "ok" THEN Goto("removeFinalizer") ELSE Requeued
    /\ UNCHANGED <<workload, deploy>>

\* An object marked for deletion is gone once it has no finalizer left.
WithoutFinalizer(w) ==
    IF w.hold THEN [w EXCEPT !.finalizer = FALSE, !.rv = @ + 1]
    ELSE Tombstone(w.uid, w.rv + 1)

RemoveFinalizer(o) ==
    /\ rec.step = "removeFinalizer"
    /\ SameVersion
    /\ Outcome(o)
    /\ workload' = Put(workload, Self, WithoutFinalizer(rec.work))
    /\ IF o = "ok" THEN Done ELSE Requeued
    /\ UNCHANGED <<deploy, service>>

-----------------------------------------------------------------------------
(* 3. Ensure the finalizer is set; success asks for another pass.          *)

\* Mutation: an update without optimistic locking.
AddFinalizerBlindly(o) ==
    /\ rec.step = "addFinalizer"
    /\ Outcome(o)
    /\ workload' = Put(workload, Self,
                       [rec.work EXCEPT !.finalizer = TRUE, !.rv = @ + 1])
    /\ Requeued
    /\ UNCHANGED <<deploy, service>>

AddFinalizer(o) ==
    /\ rec.step = "addFinalizer"
    /\ SameVersion
    /\ Outcome(o)
    /\ workload' = Put(workload, Self,
                       [rec.work EXCEPT !.finalizer = TRUE, !.rv = @ + 1])
    /\ Requeued
    /\ UNCHANGED <<deploy, service>>

-----------------------------------------------------------------------------
(* 4. Reconcile the Deployment.                                            *)

Created == [phase |-> "Pending", podName |-> TRUE, message |-> "created"]

CreationFailed(why) == [phase |-> "Failed", podName |-> FALSE, message |-> why]

FoundDeployment ==
    /\ rec.step = "deployment"
    /\ Cached(deploy[Self]).present
    /\ rec' = [rec EXCEPT !.step = "service", !.dep = Cached(deploy[Self])]
    /\ UNCHANGED <<objects, queue, budgets>>

\* The Service waits for the pass that finds the new Deployment in the cache.
CreateDeployment(o) ==
    /\ rec.step = "deployment"
    /\ ~Cached(deploy[Self]).present
    /\ ~Stored(deploy[Self]).present
    /\ Outcome(o)
    /\ deploy' = IF o = "error" THEN deploy
                 ELSE Put(deploy, Self, buildInferenceDeployment(rec.work))
    /\ ThenStatus(IF o = "ok" THEN Created ELSE CreationFailed("createError"))
    /\ UNCHANGED <<workload, service>>

\* The cache does not show the Deployment yet, the API server has it.
DeploymentAlreadyExists ==
    /\ rec.step = "deployment"
    /\ ~Cached(deploy[Self]).present
    /\ Stored(deploy[Self]).present
    /\ ThenStatus(CreationFailed("alreadyExists"))
    /\ UNCHANGED <<objects, budgets>>

-----------------------------------------------------------------------------
(* 5. Reconcile the Service, and 6. derive the status from the Deployment  *)
(* as it was read in step 4.                                               *)

Running == [phase |-> "Running", podName |-> TRUE, message |-> "running"]
ReplicaFailure ==
    [phase |-> "Failed", podName |-> TRUE, message |-> "replicaFailure"]
StartingUp == [phase |-> "Pending", podName |-> TRUE, message |-> "starting"]
Waiting == [phase |-> "Pending", podName |-> TRUE, message |-> "waiting"]

IsReady(d) == d.ready >= d.replicas /\ d.replicas > 0

StatusOf(d) ==
    CASE IsReady(d) -> Running
      [] ~IsReady(d) /\ d.unavailable > 0 /\ d.failure -> ReplicaFailure
      [] ~IsReady(d) /\ d.unavailable > 0 /\ ~d.failure -> StartingUp
      [] OTHER -> Waiting

\* Mutation: a Failed phase is final.
ReportStatusUnlessFailed ==
    IF rec.work.status.phase = "Failed" THEN Done ELSE ThenStatus(StatusOf(rec.dep))

\* Running and Pending are written on a change of phase only.
ReportStatus ==
    LET status == StatusOf(rec.dep)
    IN  IF status.phase = rec.work.status.phase /\ status # ReplicaFailure
        THEN Done
        ELSE ThenStatus(status)

\* An error of Create, AlreadyExists included, is logged and ignored.
ReconcileService(o) ==
    /\ rec.step = "service"
    /\ o # "ok" => ~Cached(service[Self]).present
    /\ Outcome(o)
    /\ service' = IF \/ Cached(service[Self]).present
                     \/ Stored(service[Self]).present
                     \/ o = "error"
                  THEN service
                  ELSE Put(service, Self, buildInferenceService(rec.work))
    /\ ReportStatus
    /\ UNCHANGED <<workload, deploy>>

-----------------------------------------------------------------------------
(* updateStatus, and the calls that fail.                                  *)

\* Mutation: a status update without optimistic locking.
updateStatusBlindly(o) ==
    /\ rec.step = "status"
    /\ Outcome(o)
    /\ workload' = Put(workload, Self, [rec.work EXCEPT
                       !.status = rec.goal, !.rv = @ + 1])
    /\ IF o = "ok" THEN Done ELSE Requeued
    /\ UNCHANGED <<deploy, service>>

\* The API server drops an update that changes nothing: no new version.
updateStatus(o) ==
    /\ rec.step = "status"
    /\ SameVersion
    /\ Outcome(o)
    /\ workload' = IF rec.goal = rec.work.status THEN workload
                   ELSE Put(workload, Self, [rec.work EXCEPT
                                !.status = rec.goal, !.rv = @ + 1])
    /\ IF o = "ok" THEN Done ELSE Requeued
    /\ UNCHANGED <<deploy, service>>

\* Conflict (or NotFound): the version read is no longer the stored one.
Conflict ==
    /\ rec.step \in {"removeFinalizer", "addFinalizer", "status"}
    /\ ~SameVersion
    /\ Requeued
    /\ UNCHANGED <<objects, budgets>>

\* Any other error of a read or a write that is returned by Reconcile.
CallFails ==
    /\ rec.step # "idle"
    /\ faults < MaxFaults
    /\ faults' = faults + 1
    /\ Requeued
    /\ UNCHANGED <<objects, disturbances, crashes>>

Reconcile ==
    \/ \E o \in {"ok", "lost"} :
          \/ deleteOwnedDeployment(o) \/ deleteOwnedService(o)
          \/ RemoveFinalizer(o) \/ AddFinalizer(o) \/ updateStatus(o)
    \/ \E o \in {"ok", "error", "lost"} :
          CreateDeployment(o) \/ ReconcileService(o)
    \/ FoundDeployment \/ DeploymentAlreadyExists
    \/ Conflict \/ CallFails

-----------------------------------------------------------------------------
(* Watches (SetupWithManager): events of a GPUWorkload enqueue it, events  *)
(* of a Deployment or Service enqueue the workload its owner reference     *)
(* names (by name, whatever the uid).                                      *)

Delivered(view, n) == [view EXCEPT ![n] = Tail(@)]

EnqueueIf(n, cond) == queue' = IF cond THEN queue \cup {n} ELSE queue

DeliverWorkload(n) ==
    /\ Len(workload[n]) > 1
    /\ workload' = Delivered(workload, n)
    /\ EnqueueIf(n, TRUE)
    /\ UNCHANGED <<deploy, service, rec, budgets>>

\* Mutation: a deletion does not tell whose child it was.
OwnedStill(old, new) == new.owner # 0

Owned(old, new) == old.owner # 0 \/ new.owner # 0

\* Mutation: the controller does not watch the Deployments it owns.
DeliverDeploymentUnwatched(n) ==
    /\ Len(deploy[n]) > 1
    /\ deploy' = Delivered(deploy, n)
    /\ UNCHANGED <<workload, service, queue, rec, budgets>>

DeliverDeployment(n) ==
    /\ Len(deploy[n]) > 1
    /\ deploy' = Delivered(deploy, n)
    /\ EnqueueIf(n, Owned(deploy[n][1], deploy[n][2]))
    /\ UNCHANGED <<workload, service, rec, budgets>>

DeliverService(n) ==
    /\ Len(service[n]) > 1
    /\ service' = Delivered(service, n)
    /\ EnqueueIf(n, Owned(service[n][1], service[n][2]))
    /\ UNCHANGED <<workload, deploy, rec, budgets>>

Latest(view) == [n \in Names |-> <<Stored(view[n])>>]

\* Names with an object in the caches: what a list of everything enqueues.
Listed == {n \in Names : \/ Stored(workload[n]).present
                         \/ Stored(deploy[n]).owner # 0
                         \/ Stored(service[n]).owner # 0}

\* A broken watch is replaced by a list, which skips the versions between.
Skipped(view, n) ==
    /\ faults < MaxFaults
    /\ faults' = faults + 1
    /\ Len(view[n]) > 2
    /\ UNCHANGED <<rec, disturbances, crashes>>

Jump(view, n) == [view EXCEPT ![n] = <<Stored(@)>>]

RelistWorkload(n) ==
    /\ Skipped(workload, n)
    /\ workload' = Jump(workload, n)
    /\ EnqueueIf(n, Cached(workload[n]).present \/ Stored(workload[n]).present)
    /\ UNCHANGED <<deploy, service>>

RelistDeployment(n) ==
    /\ Skipped(deploy, n)
    /\ deploy' = Jump(deploy, n)
    /\ EnqueueIf(n, Owned(Cached(deploy[n]), Stored(deploy[n])))
    /\ UNCHANGED <<workload, service>>

RelistService(n) ==
    /\ Skipped(service, n)
    /\ service' = Jump(service, n)
    /\ EnqueueIf(n, Owned(Cached(service[n]), Stored(service[n])))
    /\ UNCHANGED <<workload, deploy>>

\* The informers replay their caches every ten hours.
Resync ==
    /\ queue' = queue \cup {n \in Names : Cached(workload[n]).present}
    /\ UNCHANGED <<objects, rec, budgets>>

\* The operator restarts: caches are listed anew, the queue starts from them.
Crash ==
    /\ crashes < MaxCrashes
    /\ crashes' = crashes + 1
    /\ workload' = Latest(workload)
    /\ deploy' = Latest(deploy)
    /\ service' = Latest(service)
    /\ queue' = Listed
    /\ rec' = Idle
    /\ UNCHANGED <<disturbances, faults>>

-----------------------------------------------------------------------------
(* The environment: users, the Deployment controller, autoscalers and the  *)
(* garbage collector, all writing through the API server.                  *)

\* The operator's own writes are not bounded by MaxLag.
Write(view, n, version) ==
    /\ Len(view[n]) <= MaxLag
    /\ view' = Put(view, n, version)

Disturb(kind) ==
    /\ kind \in Disturbances
    /\ disturbances < MaxDisturbances
    /\ disturbances' = disturbances + 1
    /\ UNCHANGED <<queue, rec, faults, crashes>>

UserCreate(n, spec) ==
    LET w == Stored(workload[n])
    IN  /\ ~w.present
        /\ w.uid < MaxIncarnations
        /\ Write(workload, n,
               [Tombstone(w.uid + 1, w.rv + 1) EXCEPT
                   !.present = TRUE, !.spec = spec])
        /\ UNCHANGED <<deploy, service, queue, rec, budgets>>

\* Without a finalizer the object goes at once; a foreground deletion holds
\* it until its dependents are gone.
UserDelete(n, foreground) ==
    LET w == Stored(workload[n])
    IN  /\ w.present /\ ~w.deleting
        /\ foreground => "foreground" \in Disturbances
        /\ Write(workload, n,
               IF w.finalizer \/ foreground
               THEN [w EXCEPT !.deleting = TRUE, !.hold = foreground,
                              !.rv = @ + 1]
               ELSE Tombstone(w.uid, w.rv + 1))
        /\ UNCHANGED <<deploy, service, queue, rec, budgets>>

UserEdit(n, spec) ==
    LET w == Stored(workload[n])
    IN  /\ w.present /\ spec # w.spec
        /\ Write(workload, n, [w EXCEPT !.spec = spec, !.rv = @ + 1])
        /\ Disturb("edit")
        /\ UNCHANGED <<deploy, service>>

\* The Deployment controller reports pods becoming ready or failing.
RolloutProgress(n, ready, failure) ==
    LET d == Stored(deploy[n])
        unavailable == IF d.replicas > ready THEN d.replicas - ready ELSE 0
        d1 == [d EXCEPT !.ready = ready, !.unavailable = unavailable,
                        !.failure = failure]
    IN  /\ d.present /\ d1 # d
        /\ failure => unavailable > 0
        /\ Write(deploy, n, d1)
        /\ Disturb("status")
        /\ UNCHANGED <<workload, service>>

Scale(n, replicas) ==
    LET d == Stored(deploy[n])
    IN  /\ d.present /\ d.replicas # replicas
        /\ Write(deploy, n, [d EXCEPT !.replicas = replicas])
        /\ Disturb("scale")
        /\ UNCHANGED <<workload, service>>

\* Somebody deletes a child by hand.
DeleteDeployment(n) ==
    /\ Stored(deploy[n]).present
    /\ Write(deploy, n, NoDeployment)
    /\ Disturb("childDelete")
    /\ UNCHANGED <<workload, service>>

DeleteService(n) ==
    /\ Stored(service[n]).present
    /\ Write(service, n, NoService)
    /\ Disturb("childDelete")
    /\ UNCHANGED <<workload, deploy>>

\* Somebody creates a Deployment of that name which no workload owns.
CreateForeign(n, spec) ==
    /\ ~Stored(deploy[n]).present
    /\ Write(deploy, n,
           [buildInferenceDeployment([uid |-> 0, spec |-> spec])
               EXCEPT !.ready = 1])
    /\ Disturb("foreign")
    /\ UNCHANGED <<workload, service>>

\* Garbage collection: the owner is gone, or waits for its dependents.
Collectable(n, child) ==
    LET w == Stored(workload[n])
    IN  /\ child.present /\ child.owner # 0
        /\ \/ ~w.present \/ w.uid # child.owner
           \/ w.deleting /\ w.hold

CollectDeployment(n) ==
    /\ Collectable(n, Stored(deploy[n]))
    /\ Write(deploy, n, NoDeployment)
    /\ UNCHANGED <<workload, service, queue, rec, budgets>>

CollectService(n) ==
    /\ Collectable(n, Stored(service[n]))
    /\ Write(service, n, NoService)
    /\ UNCHANGED <<workload, deploy, queue, rec, budgets>>

\* The collector drops its finalizer once no dependent is left.
ReleaseHold(n) ==
    LET w == Stored(workload[n])
    IN  /\ w.present /\ w.deleting /\ w.hold
        /\ Stored(deploy[n]).owner # w.uid
        /\ Stored(service[n]).owner # w.uid
        /\ Write(workload, n,
               IF w.finalizer THEN [w EXCEPT !.hold = FALSE, !.rv = @ + 1]
               ELSE Tombstone(w.uid, w.rv + 1))
        /\ UNCHANGED <<deploy, service, queue, rec, budgets>>

Collect(n) == CollectDeployment(n) \/ CollectService(n) \/ ReleaseHold(n)

Deliver(n) == DeliverWorkload(n) \/ DeliverDeployment(n) \/ DeliverService(n)

Relist(n) == RelistWorkload(n) \/ RelistDeployment(n) \/ RelistService(n)

Environment(n) ==
    \/ \E spec \in Specs :
          UserCreate(n, spec) \/ UserEdit(n, spec) \/ CreateForeign(n, spec)
    \/ \E foreground \in BOOLEAN : UserDelete(n, foreground)
    \/ \E ready \in 0..MaxReplicas, failure \in BOOLEAN :
          RolloutProgress(n, ready, failure)
    \/ \E replicas \in 0..MaxReplicas : Scale(n, replicas)
    \/ DeleteDeployment(n) \/ DeleteService(n)

-----------------------------------------------------------------------------

Init ==
    /\ workload = [n \in Names |-> <<Tombstone(0, 0)>>]
    /\ deploy = [n \in Names |-> <<NoDeployment>>]
    /\ service = [n \in Names |-> <<NoService>>]
    /\ queue = {}
    /\ rec = Idle
    /\ disturbances = 0 /\ faults = 0 /\ crashes = 0

Next ==
    \/ \E n \in Names :
          Fetch(n) \/ Deliver(n) \/ Relist(n) \/ Environment(n) \/ Collect(n)
    \/ Reconcile
    \/ Resync
    \/ Crash

Spec == Init /\ [][Next]_vars

\* The worker runs, the queue is first-in first-out, watches deliver and the
\* garbage collector works.  Nothing is assumed of users, of rollouts, of
\* faults, nor of the ten-hour resync.
Fairness ==
    /\ WF_vars(Reconcile)
    /\ \A n \in Names :
          /\ SF_vars(Fetch(n))
          /\ WF_vars(DeliverWorkload(n))
          /\ WF_vars(DeliverDeployment(n))
          /\ WF_vars(DeliverService(n))
          /\ WF_vars(CollectDeployment(n))
          /\ WF_vars(CollectService(n))
          /\ WF_vars(ReleaseHold(n))

FairSpec == Spec /\ Fairness

\* With the resync as the backstop for what faults left undone.
ResyncSpec == FairSpec /\ WF_vars(Resync)

-----------------------------------------------------------------------------
(* Properties.                                                             *)

TypeOK ==
    /\ workload \in [Names -> Seq(Workloads) \ {<<>>}]
    /\ deploy \in [Names -> Seq(Deployments) \ {<<>>}]
    /\ service \in [Names -> Seq(Services) \ {<<>>}]
    /\ queue \subseteq Names
    /\ rec \in Recs
    /\ (rec.step # "idle") => rec.name \in Names
    /\ disturbances \in 0..MaxDisturbances
    /\ faults \in 0..MaxFaults
    /\ crashes \in 0..MaxCrashes

\* Whenever Reconcile is about to look up or create a Deployment or Service,
\* however stale the GPUWorkload it read, the API server still has that very
\* incarnation and it carries the finalizer: what is created now will be seen
\* by a cleanup.
CreatesOnlyForLiveOwner ==
    rec.step \in {"deployment", "service"} =>
        LET w == Stored(workload[Self])
        IN  w.present /\ w.uid = rec.work.uid /\ w.finalizer

\* deleteOwnedResources deletes by name and from a stale cache; still it never
\* takes away a child of a workload that is not being deleted (the successor
\* of the same name after a delete and re-create).
CleanupSparesTheLiving ==
    [][\A n \in Names :
          LET w == Stored(workload[n])
              Spared(old, new) ==
                  ~(/\ old.present /\ ~new.present /\ rec' # rec
                    /\ w.present /\ ~w.deleting /\ old.owner = w.uid)
          IN  /\ Spared(Stored(deploy[n]), Stored(deploy'[n]))
              /\ Spared(Stored(service[n]), Stored(service'[n]))]_vars

\* The operator writes whole objects from an old read; it never undoes what
\* somebody else wrote meanwhile: a spec, a deletion mark, a finalizer of
\* Kubernetes, a re-creation.
OperatorKeepsOthersWrites ==
    [][\A n \in Names :
          LET w == Stored(workload[n])
              v == Stored(workload'[n])
          IN  (rec' # rec /\ v # w) =>
                 /\ v.uid = w.uid
                 /\ v.present => /\ v.spec = w.spec
                                 /\ v.deleting = w.deleting
                                 /\ v.hold = w.hold
                 /\ ~v.present => w.deleting /\ ~w.hold]_vars

\* Nothing is queued or undelivered that would wake the operator for n.
Quiet(n) ==
    /\ n \notin queue
    /\ Len(workload[n]) = 1 /\ Len(deploy[n]) = 1 /\ Len(service[n]) = 1

Settled(n) == Quiet(n) /\ rec.name # n

AsIntended(n) ==
    LET w == Stored(workload[n])
        d == Stored(deploy[n])
    IN  w.present =>
           /\ w.deleting => ~w.finalizer
           /\ ~w.deleting =>
                 /\ w.finalizer /\ d.present /\ Stored(service[n]).present
                 /\ w.status.phase = StatusOf(d).phase
                 /\ w.status.podName

\* When nothing is queued, running or undelivered for a workload, no event is
\* left to wake the operator: its children must exist, its status must be the
\* Deployment's, and a deletion must be past the operator's finalizer.
QuiescentConverged == \A n \in Names : Settled(n) => AsIntended(n)

Converged(n) ==
    LET w == Stored(workload[n])
        d == Stored(deploy[n])
        s == Stored(service[n])
    IN  /\ ~w.present => d.owner = 0 /\ s.owner = 0
        /\ w.present =>
              /\ ~w.deleting /\ w.finalizer
              /\ d.present /\ d.owner = w.uid
              /\ s.present /\ s.owner = w.uid
              /\ w.status.phase = StatusOf(d).phase

\* Once users, rollouts and faults leave a workload alone, the operator and
\* the garbage collector bring it for good to where it should be: deleted
\* with its children, or with its own Deployment and Service and the right
\* phase.
EventuallyConverged == \A n \in Names : <>[]Converged(n)

-----------------------------------------------------------------------------
(* The inductive invariant behind the safety properties.                   *)

CleanupSteps == {"deleteDeployment", "deleteService", "removeFinalizer"}

Managed(w) == w.present /\ w.finalizer /\ ~w.deleting

\* What a view of a workload may look like: resource versions grow, uids do
\* not shrink, a version under management is still stored, and a deletion
\* mark is never taken back within an incarnation.
WorkloadViewOK(view) ==
    LET last == Stored(view)
    IN  /\ \A i, j \in 1..Len(view) : i < j => /\ view[i].rv < view[j].rv
                                               /\ view[i].uid <= view[j].uid
        /\ \A i \in 1..Len(view) :
              /\ Managed(view[i]) =>
                    last.present /\ last.finalizer /\ last.uid = view[i].uid
              /\ (/\ view[i].present /\ view[i].deleting
                  /\ last.present /\ last.uid = view[i].uid) => last.deleting

\* The worker's copy is a version at or before the cached one, in the
\* condition its step presupposes.
SnapshotOK ==
    LET w == rec.work
        cached == Cached(workload[Self])
    IN  rec.step # "idle" =>
          /\ w.rv <= cached.rv /\ w.uid <= cached.uid
          /\ w.rv = cached.rv => w = cached
          /\ w.present
          /\ w.deleting <=> rec.step \in CleanupSteps
          /\ w.finalizer <=> rec.step # "addFinalizer"

\* While a cleanup runs, its incarnation does not come back to life, and all
\* children of that name are its own or older.
CleanupOK ==
    rec.step \in CleanupSteps =>
        LET last == Stored(workload[Self])
        IN  /\ (last.present /\ last.uid = rec.work.uid) => last.deleting
            /\ Stored(deploy[Self]).owner <= rec.work.uid
            /\ Stored(service[Self]).owner <= rec.work.uid

\* No child belongs to an incarnation that the cache has not shown yet.
ChildrenOK ==
    \A n \in Names :
        /\ Stored(deploy[n]).owner <= Cached(workload[n]).uid
        /\ Stored(service[n]).owner <= Cached(workload[n]).uid

\* The operator's stale knowledge is always of the past of what is stored:
\* this is what makes its unguarded deletes and creates safe.
StaleButSound ==
    /\ \A n \in Names : WorkloadViewOK(workload[n])
    /\ SnapshotOK
    /\ CleanupOK
    /\ ChildrenOK
    /\ CreatesOnlyForLiveOwner

-----------------------------------------------------------------------------
(* The inductive invariant behind QuiescentConverged, for as long as no call *)
(* has failed and nobody makes a Deployment that no workload owns.          *)

\* A phase that comes from a Deployment comes with its name.
NamesPod(status) == status.phase \in {"Running", "Pending"} => status.podName

VersionOK(w) == (w.present => w.uid > 0) /\ NamesPod(w.status)

\* Every child has an owner, and so has one side of every event: none of them
\* passes the operator by.
EachWakes(view) ==
    /\ \A i \in 1..Len(view) : view[i].present <=> view[i].owner # 0
    /\ \A i \in 2..Len(view) : Owned(view[i - 1], view[i])

EventsWake ==
    \A n \in Names :
        /\ \A i \in 1..Len(workload[n]) : VersionOK(workload[n][i])
        /\ EachWakes(deploy[n]) /\ EachWakes(service[n])

\* What a call has read is in the condition its step presupposes.
CallOK(r) ==
    /\ r.step = "idle" => r = Idle
    /\ r.step # "idle" =>
          /\ r.work.present /\ VersionOK(r.work)
          /\ r.work.deleting <=> r.step \in CleanupSteps
          /\ r.work.finalizer <=> r.step # "addFinalizer"
    /\ r.step = "status" => NamesPod(r.goal)

\* The call has read what is stored, and the rest of it is all that is missing.
CallSuffices(n) ==
    LET d == Stored(deploy[n])
    IN  /\ rec.work = Stored(workload[n])
        /\ rec.step \in {"service", "status"} => d.present
        /\ rec.step = "service" => rec.dep = d
        /\ rec.step = "status" => Stored(service[n]).present /\ rec.goal = StatusOf(d)

\* Whatever is not as it should be has a wake-up coming, or a call under way
\* that will see to it.
NothingForgotten ==
    /\ EventsWake
    /\ CallOK(rec)
    /\ \A n \in Names : Quiet(n) /\ rec.name = n => CallSuffices(n)
    /\ QuiescentConverged

-----------------------------------------------------------------------------
(* What the documentation says and the code does not do.                   *)

\* gpuworkload_controller.go: Reconcile ensures that a Service exists for each
\* GPUWorkload, so a workload reported as Running, with nothing left to wake
\* the operator, has one.
ServiceEnsured ==
    \A n \in Names :
        (Settled(n) /\ Stored(workload[n]).status.phase = "Running")
            => Stored(service[n]).present

\* gpuworkload_types.go: the spec is the desired state, so the Deployment ends
\* up running the spec the workload has.
SpecReachesDeployment ==
    \A n \in Names :
        <>[](LET w == Stored(workload[n])
             IN  (w.present /\ ~w.deleting) => Stored(deploy[n]).spec = w.spec)

=============================================================================
