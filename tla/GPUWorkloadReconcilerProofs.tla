-------------------- MODULE GPUWorkloadReconcilerProofs --------------------
(***************************************************************************)
(* Proofs about the GPUWorkload controller, for any number of names, specs *)
(* and incarnations and for any bound on faults, crashes and disturbances. *)
(***************************************************************************)
EXTENDS GPUWorkloadReconciler, TLAPS

Views(S) == [Names -> Seq(S) \ {<<>>}]

\* A write appends one version: the cached one and the other names keep
\* theirs, the stored one is the new one.
LEMMA PutFacts ==
    ASSUME NEW S, NEW view \in Views(S), NEW n \in Names, NEW v \in S
    PROVE  /\ Put(view, n, v) \in Views(S)
           /\ \A m \in Names : m # n => Put(view, n, v)[m] = view[m]
           /\ Len(Put(view, n, v)[n]) = Len(view[n]) + 1
           /\ \A i \in 1..Len(view[n]) : Put(view, n, v)[n][i] = view[n][i]
           /\ Put(view, n, v)[n][Len(view[n]) + 1] = v
           /\ Stored(Put(view, n, v)[n]) = v
           /\ Cached(Put(view, n, v)[n]) = Cached(view[n])
  <1> DEFINE p == Put(view, n, v)
  <1>1. view[n] \in Seq(S) /\ view[n] # <<>> /\ Len(view[n]) \in Nat /\ Len(view[n]) # 0
    BY DEF Views
  <1>2. p[n] = Append(view[n], v) /\ p[n] \in Seq(S) /\ p[n] # <<>>
    BY <1>1 DEF Put, Views
  <1>3. /\ Len(p[n]) = Len(view[n]) + 1
        /\ \A i \in 1..Len(view[n]) : p[n][i] = view[n][i]
        /\ p[n][Len(view[n]) + 1] = v
    BY <1>1, <1>2
  <1>4. \A m \in Names : m # n => p[m] = view[m]
    BY DEF Put, Views
  <1>5. p \in Views(S)
    BY <1>2 DEF Put, Views
  <1>6. Stored(p[n]) = v /\ Cached(p[n]) = Cached(view[n])
    BY <1>1, <1>3 DEF Stored, Cached
  <1> QED BY <1>3, <1>4, <1>5, <1>6

\* A watch event drops the cached version; the stored one stays.
LEMMA DeliveredFacts ==
    ASSUME NEW S, NEW view \in Views(S), NEW n \in Names, Len(view[n]) > 1
    PROVE  /\ Delivered(view, n) \in Views(S)
           /\ \A m \in Names : m # n => Delivered(view, n)[m] = view[m]
           /\ Len(Delivered(view, n)[n]) = Len(view[n]) - 1
           /\ \A i \in 1..(Len(view[n]) - 1) :
                 Delivered(view, n)[n][i] = view[n][i + 1]
           /\ Stored(Delivered(view, n)[n]) = Stored(view[n])
           /\ Cached(Delivered(view, n)[n]) = view[n][2]
  <1> DEFINE t == Delivered(view, n)
  <1>1. view[n] \in Seq(S) /\ view[n] # <<>> /\ Len(view[n]) \in Nat
    BY DEF Views
  <1>2. t[n] = Tail(view[n])
    BY DEF Delivered, Views
  <1>3. /\ t[n] \in Seq(S) /\ Len(t[n]) = Len(view[n]) - 1
        /\ \A i \in 1..(Len(view[n]) - 1) : t[n][i] = view[n][i + 1]
    BY <1>1, <1>2
  <1>4. t[n] # <<>>
    BY <1>1, <1>3
  <1>5. \A m \in Names : m # n => t[m] = view[m]
    BY DEF Delivered, Views
  <1>6. t \in Views(S)
    BY <1>3, <1>4 DEF Delivered, Views
  <1>7. Stored(t[n]) = Stored(view[n]) /\ Cached(t[n]) = view[n][2]
    BY <1>1, <1>3 DEF Stored, Cached
  <1> QED BY <1>3, <1>5, <1>6, <1>7

\* A list replaces a view by its stored version.
LEMMA JumpFacts ==
    ASSUME NEW S, NEW view \in Views(S), NEW n \in Names
    PROVE  /\ Jump(view, n) \in Views(S)
           /\ \A m \in Names : m # n => Jump(view, n)[m] = view[m]
           /\ Jump(view, n)[n] = <<Stored(view[n])>>
  <1>1. view[n] \in Seq(S) /\ view[n] # <<>> /\ Len(view[n]) \in Nat /\ Len(view[n]) # 0
    BY DEF Views
  <1>2. Stored(view[n]) \in S
    BY <1>1 DEF Stored
  <1>3. <<Stored(view[n])>> \in Seq(S) \ {<<>>}
    BY <1>2
  <1> QED BY <1>3 DEF Jump, Views

\* A restart replaces every view by its stored version.
LEMMA LatestFacts ==
    ASSUME NEW S, NEW view \in Views(S)
    PROVE  /\ Latest(view) \in Views(S)
           /\ \A n \in Names : Latest(view)[n] = <<Stored(view[n])>>
  <1>1. \A n \in Names : Stored(view[n]) \in S
    BY DEF Views, Stored
  <1>2. \A n \in Names : <<Stored(view[n])>> \in Seq(S) \ {<<>>}
    BY <1>1
  <1> QED BY <1>2 DEF Latest, Views

\* The cached and the stored version are versions of the object.
LEMMA ViewMembers ==
    ASSUME NEW S, NEW view \in Views(S), NEW n \in Names
    PROVE  /\ Cached(view[n]) \in S /\ Stored(view[n]) \in S
           /\ Len(view[n]) \in Nat \ {0}
           /\ \A i \in 1..Len(view[n]) : view[n][i] \in S
  BY DEF Views, Cached, Stored

\* A view of one version: the cache is up to date.
LEMMA UpToDate == \A v : Stored(<<v>>) = v /\ Cached(<<v>>) = v
  BY DEF Stored, Cached

-----------------------------------------------------------------------------
(* Type correctness.                                                       *)

\* The records the actions build are of the right type.
LEMMA RecordTypes ==
    /\ \A u, r \in Nat : Tombstone(u, r) \in Workloads
    /\ NoDeployment \in Deployments /\ NoService \in Services
    /\ NoStatus \in Statuses /\ Idle \in Recs
    /\ \A w \in Workloads : /\ buildInferenceDeployment(w) \in Deployments
                            /\ buildInferenceService(w) \in Services
                            /\ WithoutFinalizer(w) \in Workloads
    /\ \A d \in Deployments : StatusOf(d) \in Statuses
    /\ Created \in Statuses
    /\ CreationFailed("createError") \in Statuses
    /\ CreationFailed("alreadyExists") \in Statuses
  <1>1. NoStatus \in Statuses
    BY DEF NoStatus, Statuses, Phases, Messages
  <1>2. \A u, r \in Nat : Tombstone(u, r) \in Workloads
    BY <1>1 DEF Tombstone, Workloads
  <1>3. NoDeployment \in Deployments /\ NoService \in Services
    BY BoundsAssumption DEF NoDeployment, Deployments, NoService, Services
  <1>4. Idle \in Recs
    BY <1>1, <1>2, <1>3 DEF Idle, Recs, Steps
  <1>5. ASSUME NEW w \in Workloads
        PROVE  /\ buildInferenceDeployment(w) \in Deployments
               /\ buildInferenceService(w) \in Services
               /\ WithoutFinalizer(w) \in Workloads
    <2>1. w.uid \in Nat /\ w.rv \in Nat /\ w.spec \in Specs \cup {NoSpec}
      BY DEF Workloads
    <2>2. buildInferenceDeployment(w) \in Deployments
      BY <2>1, BoundsAssumption DEF buildInferenceDeployment, Deployments
    <2>3. buildInferenceService(w) \in Services
      BY <2>1 DEF buildInferenceService, Services
    <2>4. [w EXCEPT !.finalizer = FALSE, !.rv = @ + 1] \in Workloads
      <3>1. w.rv + 1 \in Nat
        BY <2>1
      <3>2. \A r \in Nat : [w EXCEPT !.finalizer = FALSE, !.rv = r] \in Workloads
        BY DEF Workloads
      <3> QED BY <3>1, <3>2, Zenon
    <2>5. Tombstone(w.uid, w.rv + 1) \in Workloads
      BY <1>2, <2>1
    <2> QED BY <2>2, <2>3, <2>4, <2>5 DEF WithoutFinalizer
  <1>6. \A d \in Deployments : StatusOf(d) \in Statuses
    <2>1. {Running, ReplicaFailure, StartingUp, Waiting} \subseteq Statuses
      BY DEF Running, ReplicaFailure, StartingUp, Waiting, Statuses, Phases, Messages
    <2>2. \A d : StatusOf(d) \in {Running, ReplicaFailure, StartingUp, Waiting}
      BY DEF StatusOf
    <2> QED BY <2>1, <2>2
  <1>7. /\ Created \in Statuses
        /\ CreationFailed("createError") \in Statuses
        /\ CreationFailed("alreadyExists") \in Statuses
    BY DEF Created, CreationFailed, Statuses, Phases, Messages
  <1> QED BY <1>1, <1>2, <1>3, <1>4, <1>5, <1>6, <1>7

\* The initial state has the right types.
LEMMA TypeInit == Init => TypeOK
  <1> SUFFICES ASSUME Init PROVE TypeOK
    OBVIOUS
  <1>1. Tombstone(0, 0) \in Workloads
    BY RecordTypes
  <1>2. /\ <<Tombstone(0, 0)>> \in Seq(Workloads) \ {<<>>}
        /\ <<NoDeployment>> \in Seq(Deployments) \ {<<>>}
        /\ <<NoService>> \in Seq(Services) \ {<<>>}
    BY <1>1, RecordTypes
  <1>3. rec \in Recs /\ rec.step = "idle"
    BY RecordTypes DEF Init, Idle
  <1> QED BY <1>2, <1>3, BoundsAssumption DEF Init, TypeOK

\* The worker's record keeps its type through the ways a call goes on.
LEMMA WorkerTypes ==
    ASSUME TypeOK
    PROVE  /\ Done => rec' \in Recs /\ rec'.step = "idle" /\ queue' \subseteq Names
           /\ (Requeued /\ rec.step # "idle") =>
                 rec' \in Recs /\ rec'.step = "idle" /\ queue' \subseteq Names
           /\ \A step \in Steps : Goto(step) =>
                 rec' \in Recs /\ rec'.name = rec.name /\ queue' \subseteq Names
           /\ \A status \in Statuses : ThenStatus(status) =>
                 rec' \in Recs /\ rec'.name = rec.name /\ queue' \subseteq Names
           /\ \A o : Outcome(o) => /\ faults' \in 0..MaxFaults
                                   /\ disturbances' = disturbances
                                   /\ crashes' = crashes
  <1>1. Idle.step = "idle"
    BY DEF Idle
  <1>2. Done => rec' \in Recs /\ rec'.step = "idle" /\ queue' \subseteq Names
    BY <1>1, RecordTypes DEF Done, TypeOK
  <1>3. (Requeued /\ rec.step # "idle") =>
          rec' \in Recs /\ rec'.step = "idle" /\ queue' \subseteq Names
    BY <1>1, RecordTypes DEF Requeued, Self, TypeOK
  <1>4. \A step \in Steps : Goto(step) =>
          rec' \in Recs /\ rec'.name = rec.name /\ queue' \subseteq Names
    BY DEF Goto, TypeOK, Recs
  <1>5. \A status \in Statuses : ThenStatus(status) =>
          rec' \in Recs /\ rec'.name = rec.name /\ queue' \subseteq Names
    BY DEF ThenStatus, TypeOK, Recs, Steps
  <1>6. \A o : Outcome(o) => /\ faults' \in 0..MaxFaults
                             /\ disturbances' = disturbances /\ crashes' = crashes
    BY BoundsAssumption DEF Outcome, TypeOK
  <1> QED BY <1>2, <1>3, <1>4, <1>5, <1>6

\* Every version a write stores is of the right type.
LEMMA VersionTypes ==
    ASSUME NEW w \in Workloads
    PROVE  /\ [w EXCEPT !.finalizer = TRUE, !.rv = @ + 1] \in Workloads
           /\ \A status \in Statuses :
                 [w EXCEPT !.status = status, !.rv = @ + 1] \in Workloads
           /\ \A spec \in Specs :
                 /\ [w EXCEPT !.spec = spec, !.rv = @ + 1] \in Workloads
                 /\ [Tombstone(w.uid + 1, w.rv + 1) EXCEPT
                        !.present = TRUE, !.spec = spec] \in Workloads
           /\ \A b \in BOOLEAN :
                 [w EXCEPT !.deleting = TRUE, !.hold = b, !.rv = @ + 1] \in Workloads
           /\ [w EXCEPT !.hold = FALSE, !.rv = @ + 1] \in Workloads
           /\ Tombstone(w.uid, w.rv + 1) \in Workloads
  <1>1. w.rv + 1 \in Nat /\ w.uid + 1 \in Nat /\ w.uid \in Nat
    BY DEF Workloads
  <1>2. \A r \in Nat : /\ [w EXCEPT !.finalizer = TRUE, !.rv = r] \in Workloads
                       /\ [w EXCEPT !.hold = FALSE, !.rv = r] \in Workloads
    BY DEF Workloads
  <1>3. \A r \in Nat, status \in Statuses :
           [w EXCEPT !.status = status, !.rv = r] \in Workloads
    BY DEF Workloads
  <1>4. \A r \in Nat, spec \in Specs : [w EXCEPT !.spec = spec, !.rv = r] \in Workloads
    BY DEF Workloads
  <1>5. \A r \in Nat, b \in BOOLEAN :
           [w EXCEPT !.deleting = TRUE, !.hold = b, !.rv = r] \in Workloads
    BY DEF Workloads
  <1>6. \A t \in Workloads, spec \in Specs :
           [t EXCEPT !.present = TRUE, !.spec = spec] \in Workloads
    BY DEF Workloads
  <1>7. Tombstone(w.uid, w.rv + 1) \in Workloads
    BY <1>1, RecordTypes
  <1>8. Tombstone(w.uid + 1, w.rv + 1) \in Workloads
    BY <1>1, RecordTypes
  <1> QED BY <1>1, <1>2, <1>3, <1>4, <1>5, <1>6, <1>7, <1>8, Zenon

\* Types, with the views named as in the lemmas above.
LEMMA TypeViews ==
    TypeOK <=> /\ workload \in Views(Workloads)
               /\ deploy \in Views(Deployments)
               /\ service \in Views(Services)
               /\ queue \subseteq Names
               /\ rec \in Recs
               /\ (rec.step # "idle") => rec.name \in Names
               /\ disturbances \in 0..MaxDisturbances
               /\ faults \in 0..MaxFaults
               /\ crashes \in 0..MaxCrashes
  BY DEF TypeOK, Views

\* A Reconcile call keeps the types.
LEMMA TypeReconcile == TypeOK /\ Reconcile => TypeOK'
  <1> SUFFICES ASSUME TypeOK, Reconcile PROVE TypeOK'
    OBVIOUS
  <1>1. /\ workload \in Views(Workloads) /\ deploy \in Views(Deployments)
        /\ service \in Views(Services) /\ rec \in Recs
        /\ (rec.step # "idle") => Self \in Names
        /\ disturbances \in 0..MaxDisturbances /\ crashes \in 0..MaxCrashes
        /\ faults \in 0..MaxFaults
    BY TypeViews DEF Self
  <1>2. /\ rec.work \in Workloads /\ rec.dep \in Deployments /\ rec.goal \in Statuses
    BY <1>1 DEF Recs
  <1>3. ASSUME NEW o, deleteOwnedDeployment(o) PROVE TypeOK'
    <2>1. deploy' \in Views(Deployments)
      <3>1. Self \in Names
        BY <1>1, <1>3 DEF deleteOwnedDeployment
      <3>2. Put(deploy, Self, NoDeployment) \in Views(Deployments)
        BY <1>1, <3>1, PutFacts, RecordTypes
      <3>3. deploy' = Put(deploy, Self, NoDeployment) \/ deploy' = deploy
        BY <1>3 DEF deleteOwnedDeployment
      <3> QED BY <1>1, <3>2, <3>3
    <2>2. rec' \in Recs /\ (rec'.step # "idle" => rec'.name \in Names) /\ queue' \subseteq Names
      BY <1>1, <1>3, WorkerTypes DEF deleteOwnedDeployment, Steps, Self
    <2> QED BY <1>1, <1>3, <2>1, <2>2, WorkerTypes, TypeViews
            DEF deleteOwnedDeployment, TypeOK, Views
  <1>4. ASSUME NEW o, deleteOwnedService(o) PROVE TypeOK'
    <2>1. service' \in Views(Services)
      <3>1. Self \in Names
        BY <1>1, <1>4 DEF deleteOwnedService
      <3>2. Put(service, Self, NoService) \in Views(Services)
        BY <1>1, <3>1, PutFacts, RecordTypes
      <3>3. service' = Put(service, Self, NoService) \/ service' = service
        BY <1>4 DEF deleteOwnedService
      <3> QED BY <1>1, <3>2, <3>3
    <2>2. rec' \in Recs /\ (rec'.step # "idle" => rec'.name \in Names) /\ queue' \subseteq Names
      BY <1>1, <1>4, WorkerTypes DEF deleteOwnedService, Steps, Self
    <2> QED BY <1>1, <1>4, <2>1, <2>2, WorkerTypes, TypeViews
            DEF deleteOwnedService, TypeOK, Views
  <1>5. ASSUME NEW o, RemoveFinalizer(o) PROVE TypeOK'
    <2>1. workload' \in Views(Workloads)
      BY <1>1, <1>2, <1>5, PutFacts, RecordTypes DEF RemoveFinalizer
    <2>2. rec' \in Recs /\ rec'.step = "idle" /\ queue' \subseteq Names
      BY <1>1, <1>5, WorkerTypes DEF RemoveFinalizer
    <2> QED BY <1>1, <1>5, <2>1, <2>2, WorkerTypes DEF RemoveFinalizer, TypeOK, Views
  <1>6. ASSUME NEW o, AddFinalizer(o) PROVE TypeOK'
    <2>1. workload' \in Views(Workloads)
      BY <1>1, <1>2, <1>6, PutFacts, VersionTypes DEF AddFinalizer
    <2>2. rec' \in Recs /\ rec'.step = "idle" /\ queue' \subseteq Names
      BY <1>1, <1>6, WorkerTypes DEF AddFinalizer
    <2> QED BY <1>1, <1>6, <2>1, <2>2, WorkerTypes DEF AddFinalizer, TypeOK, Views
  <1>7. ASSUME NEW o, updateStatus(o) PROVE TypeOK'
    <2>1. workload' \in Views(Workloads)
      BY <1>1, <1>2, <1>7, PutFacts, VersionTypes DEF updateStatus
    <2>2. rec' \in Recs /\ rec'.step = "idle" /\ queue' \subseteq Names
      BY <1>1, <1>7, WorkerTypes DEF updateStatus
    <2> QED BY <1>1, <1>7, <2>1, <2>2, WorkerTypes DEF updateStatus, TypeOK, Views
  <1>8. ASSUME NEW o, CreateDeployment(o) PROVE TypeOK'
    <2>1. deploy' \in Views(Deployments)
      BY <1>1, <1>2, <1>8, PutFacts, RecordTypes DEF CreateDeployment
    <2>2. PICK status \in Statuses : ThenStatus(status)
      BY <1>8, RecordTypes DEF CreateDeployment
    <2>3. rec' \in Recs /\ rec'.name = rec.name /\ queue' \subseteq Names
      BY <2>2, WorkerTypes
    <2> QED BY <1>1, <1>8, <2>1, <2>3, WorkerTypes DEF CreateDeployment, TypeOK, Views, Self
  <1>9. ASSUME NEW o, ReconcileService(o) PROVE TypeOK'
    <2>1. service' \in Views(Services)
      BY <1>1, <1>2, <1>9, PutFacts, RecordTypes DEF ReconcileService
    <2>2. Done \/ \E status \in Statuses : ThenStatus(status)
      BY <1>2, <1>9, RecordTypes DEF ReconcileService, ReportStatus
    <2>3. rec' \in Recs /\ (rec'.step # "idle" => rec'.name \in Names) /\ queue' \subseteq Names
      BY <1>1, <1>9, <2>2, WorkerTypes DEF ReconcileService, Self
    <2> QED BY <1>1, <1>9, <2>1, <2>3, WorkerTypes DEF ReconcileService, TypeOK, Views
  <1>10. CASE FoundDeployment
    <2>1. Cached(deploy[Self]) \in Deployments
      BY <1>1, <1>10, ViewMembers DEF FoundDeployment
    <2>2. rec' \in Recs /\ rec'.name = rec.name
      BY <1>1, <1>10, <2>1 DEF FoundDeployment, Recs, Steps
    <2> QED BY <1>1, <1>10, <2>2 DEF FoundDeployment, objects, budgets, TypeOK, Self
  <1>11. CASE DeploymentAlreadyExists
    <2>1. rec' \in Recs /\ rec'.name = rec.name /\ queue' \subseteq Names
      BY <1>11, RecordTypes, WorkerTypes DEF DeploymentAlreadyExists
    <2> QED BY <1>1, <1>11, <2>1 DEF DeploymentAlreadyExists, objects, budgets, TypeOK, Self
  <1>12. CASE Conflict
    <2>1. rec' \in Recs /\ rec'.step = "idle" /\ queue' \subseteq Names
      BY <1>12, WorkerTypes DEF Conflict
    <2> QED BY <1>1, <1>12, <2>1 DEF Conflict, objects, budgets, TypeOK
  <1>13. CASE CallFails
    <2>1. rec' \in Recs /\ rec'.step = "idle" /\ queue' \subseteq Names
      BY <1>13, WorkerTypes DEF CallFails
    <2> QED BY <1>1, <1>13, <2>1, BoundsAssumption DEF CallFails, objects, TypeOK
  <1> QED BY <1>3, <1>4, <1>5, <1>6, <1>7, <1>8, <1>9, <1>10, <1>11, <1>12, <1>13
          DEF Reconcile

\* Taking a name from the queue keeps the types.
LEMMA TypeFetch == ASSUME TypeOK, NEW n \in Names, Fetch(n) PROVE TypeOK'
  <1>1. PICK step \in Steps : Take(n, step)
    BY DEF Fetch, FetchNothing, FetchDeleting, FetchNew, FetchManaged, Steps
  <1>2. Cached(workload[n]) \in Workloads
    BY TypeViews, ViewMembers
  <1>3. Idle \in Recs /\ Idle.step = "idle"
    BY RecordTypes DEF Idle
  <1>4. /\ [Idle EXCEPT !.step = step, !.name = n, !.work = Cached(workload[n])] \in Recs
        /\ [Idle EXCEPT !.step = step, !.name = n, !.work = Cached(workload[n])].name = n
    BY <1>2, <1>3 DEF Recs
  <1>5. rec' \in Recs /\ (rec'.step # "idle" => rec'.name \in Names)
    BY <1>1, <1>3, <1>4 DEF Take
  <1> QED BY <1>1, <1>5 DEF Take, objects, budgets, TypeOK

\* Watch events, lists and restarts keep the types.
LEMMA TypeWatch ==
    ASSUME TypeOK,
           \/ \E n \in Names : Deliver(n) \/ Relist(n)
           \/ Resync
           \/ Crash
    PROVE  TypeOK'
  <1>1. /\ workload \in Views(Workloads) /\ deploy \in Views(Deployments)
        /\ service \in Views(Services)
    BY TypeViews
  <1>2. ASSUME NEW n \in Names, Deliver(n) PROVE TypeOK'
    <2>1. CASE DeliverWorkload(n)
      <3>1. workload' \in Views(Workloads)
        BY <1>1, <2>1, DeliveredFacts DEF DeliverWorkload
      <3> QED BY <2>1, <3>1 DEF DeliverWorkload, EnqueueIf, budgets, TypeOK, Views
    <2>2. CASE DeliverDeployment(n)
      <3>1. deploy' \in Views(Deployments)
        BY <1>1, <2>2, DeliveredFacts DEF DeliverDeployment
      <3> QED BY <2>2, <3>1 DEF DeliverDeployment, EnqueueIf, budgets, TypeOK, Views
    <2>3. CASE DeliverService(n)
      <3>1. service' \in Views(Services)
        BY <1>1, <2>3, DeliveredFacts DEF DeliverService
      <3> QED BY <2>3, <3>1 DEF DeliverService, EnqueueIf, budgets, TypeOK, Views
    <2> QED BY <1>2, <2>1, <2>2, <2>3 DEF Deliver
  <1>3. ASSUME NEW n \in Names, Relist(n) PROVE TypeOK'
    <2>1. /\ Jump(workload, n) \in Views(Workloads)
          /\ Jump(deploy, n) \in Views(Deployments)
          /\ Jump(service, n) \in Views(Services)
      BY <1>1, JumpFacts
    <2>2. /\ faults' \in 0..MaxFaults /\ queue' \subseteq Names
          /\ UNCHANGED <<rec, disturbances, crashes>>
      BY <1>3, BoundsAssumption
      DEF Relist, RelistWorkload, RelistDeployment, RelistService, Skipped, EnqueueIf, TypeOK
    <2>3. /\ workload' \in Views(Workloads) /\ deploy' \in Views(Deployments)
          /\ service' \in Views(Services)
      BY <1>1, <1>3, <2>1 DEF Relist, RelistWorkload, RelistDeployment, RelistService
    <2> QED BY <2>2, <2>3 DEF TypeOK, Views
  <1>4. CASE Resync
    BY <1>4 DEF Resync, objects, budgets, TypeOK
  <1>5. CASE Crash
    <2>1. /\ workload' \in Views(Workloads) /\ deploy' \in Views(Deployments)
          /\ service' \in Views(Services)
      BY <1>1, <1>5, LatestFacts DEF Crash
    <2>2. rec' \in Recs /\ rec'.step = "idle"
      BY <1>5, RecordTypes DEF Crash, Idle
    <2>3. queue' \subseteq Names /\ crashes' \in 0..MaxCrashes
      BY <1>5, BoundsAssumption DEF Crash, Listed, TypeOK
    <2> QED BY <1>5, <2>1, <2>2, <2>3 DEF Crash, TypeOK, Views
  <1> QED BY <1>2, <1>3, <1>4, <1>5

\* Users, the Deployment controller and the garbage collector keep the types.
LEMMA TypeEnvironment ==
    ASSUME TypeOK, NEW n \in Names, Environment(n) \/ Collect(n)
    PROVE  TypeOK'
  <1>1. /\ workload \in Views(Workloads) /\ deploy \in Views(Deployments)
        /\ service \in Views(Services)
    BY TypeViews
  <1> DEFINE w == Stored(workload[n])
             d == Stored(deploy[n])
  <1>2. w \in Workloads /\ d \in Deployments
    BY <1>1, ViewMembers
  <1>3. ASSUME NEW v \in Workloads, workload' = Put(workload, n, v),
               UNCHANGED <<deploy, service>>
        PROVE  /\ workload' \in Views(Workloads)
               /\ deploy' \in Views(Deployments) /\ service' \in Views(Services)
    BY <1>1, <1>3, PutFacts
  <1>4. ASSUME NEW v \in Deployments, deploy' = Put(deploy, n, v),
               UNCHANGED <<workload, service>>
        PROVE  /\ workload' \in Views(Workloads)
               /\ deploy' \in Views(Deployments) /\ service' \in Views(Services)
    BY <1>1, <1>4, PutFacts
  <1>5. ASSUME service' = Put(service, n, NoService), UNCHANGED <<workload, deploy>>
        PROVE  /\ workload' \in Views(Workloads)
               /\ deploy' \in Views(Deployments) /\ service' \in Views(Services)
    BY <1>1, <1>5, PutFacts, RecordTypes
  <1> DEFINE ViewsOK == /\ workload' \in Views(Workloads)
                        /\ deploy' \in Views(Deployments)
                        /\ service' \in Views(Services)
             RestOK == /\ queue' = queue /\ rec' = rec /\ faults' = faults
                       /\ crashes' = crashes
                       /\ disturbances' \in 0..MaxDisturbances
  <1>6. \A kind : Disturb(kind) => RestOK
    BY BoundsAssumption DEF Disturb, TypeOK
  <1>7. UNCHANGED <<queue, rec, budgets>> => RestOK
    BY DEF budgets, TypeOK
  <1>8. ASSUME NEW spec \in Specs, UserCreate(n, spec) PROVE ViewsOK /\ RestOK
    BY <1>2, <1>3, <1>7, <1>8, VersionTypes DEF UserCreate, Write
  <1>9. ASSUME NEW spec \in Specs, UserEdit(n, spec) PROVE ViewsOK /\ RestOK
    BY <1>2, <1>3, <1>6, <1>9, VersionTypes DEF UserEdit, Write
  <1>10. ASSUME NEW spec \in Specs, CreateForeign(n, spec) PROVE ViewsOK /\ RestOK
    <2> DEFINE b == buildInferenceDeployment([uid |-> 0, spec |-> spec])
    <2>1. b \in Deployments
      BY BoundsAssumption DEF Deployments, buildInferenceDeployment
    <2>2. [b EXCEPT !.ready = 1] \in Deployments
      <3> HIDE DEF b
      <3> QED BY <2>1, BoundsAssumption DEF Deployments
    <2>3. deploy' = Put(deploy, n, [b EXCEPT !.ready = 1]) /\ UNCHANGED <<workload, service>>
      BY <1>10 DEF CreateForeign, Write
    <2> HIDE DEF b
    <2> QED BY <1>4, <1>6, <1>10, <2>2, <2>3 DEF CreateForeign
  <1>11. ASSUME NEW foreground \in BOOLEAN, UserDelete(n, foreground) PROVE ViewsOK /\ RestOK
    <2>1. PICK v \in Workloads : workload' = Put(workload, n, v)
      BY <1>2, <1>11, VersionTypes DEF UserDelete, Write
    <2> QED BY <1>3, <1>7, <1>11, <2>1 DEF UserDelete
  <1>12. ASSUME NEW ready \in 0..MaxReplicas, NEW failure \in BOOLEAN,
                RolloutProgress(n, ready, failure)
         PROVE  ViewsOK /\ RestOK
    <2> DEFINE unavailable == IF d.replicas > ready THEN d.replicas - ready ELSE 0
    <2>1. unavailable \in 0..MaxReplicas
      BY <1>2, BoundsAssumption DEF Deployments
    <2>2. \A u \in 0..MaxReplicas :
             [d EXCEPT !.ready = ready, !.unavailable = u, !.failure = failure] \in Deployments
      BY <1>2 DEF Deployments
    <2>3. PICK v \in Deployments : deploy' = Put(deploy, n, v)
      BY <1>12, <2>1, <2>2 DEF RolloutProgress, Write
    <2> QED BY <1>4, <1>6, <1>12, <2>3 DEF RolloutProgress
  <1>13. ASSUME NEW replicas \in 0..MaxReplicas, Scale(n, replicas) PROVE ViewsOK /\ RestOK
    <2>1. [d EXCEPT !.replicas = replicas] \in Deployments
      BY <1>2 DEF Deployments
    <2> QED BY <1>4, <1>6, <1>13, <2>1 DEF Scale, Write
  <1>14. ASSUME DeleteDeployment(n) \/ CollectDeployment(n) PROVE ViewsOK /\ RestOK
    <2>1. deploy' = Put(deploy, n, NoDeployment) /\ UNCHANGED <<workload, service>>
      BY <1>14 DEF DeleteDeployment, CollectDeployment, Write
    <2>2. RestOK
      BY <1>6, <1>7, <1>14 DEF DeleteDeployment, CollectDeployment
    <2> QED BY <1>4, <2>1, <2>2, RecordTypes
  <1>15. ASSUME DeleteService(n) \/ CollectService(n) PROVE ViewsOK /\ RestOK
    <2>1. service' = Put(service, n, NoService) /\ UNCHANGED <<workload, deploy>>
      BY <1>15 DEF DeleteService, CollectService, Write
    <2>2. RestOK
      BY <1>6, <1>7, <1>15 DEF DeleteService, CollectService
    <2> QED BY <1>5, <2>1, <2>2
  <1>16. ASSUME ReleaseHold(n) PROVE ViewsOK /\ RestOK
    <2>1. PICK v \in Workloads : workload' = Put(workload, n, v)
      BY <1>2, <1>16, VersionTypes DEF ReleaseHold, Write
    <2> QED BY <1>3, <1>7, <1>16, <2>1 DEF ReleaseHold
  <1>17. ViewsOK /\ RestOK
    BY <1>8, <1>9, <1>10, <1>11, <1>12, <1>13, <1>14, <1>15, <1>16 DEF Environment, Collect
  <1> QED BY <1>17 DEF TypeOK, Views

\* Every step keeps the types.
LEMMA TypeNext == TypeOK /\ [Next]_vars => TypeOK'
  <1>1. TypeOK /\ UNCHANGED vars => TypeOK'
    BY DEF vars, TypeOK
  <1> QED BY <1>1, TypeFetch, TypeReconcile, TypeWatch, TypeEnvironment DEF Next

\* In every behaviour of the controller and its cluster the state has its
\* type; in particular no view is ever empty and a busy worker has a name.
THEOREM TypeCorrect == Spec => []TypeOK
  BY TypeInit, TypeNext, PTL DEF Spec

-----------------------------------------------------------------------------
(* The invariant about stale knowledge.                                    *)

\* What a new version v must respect, given the stored one.
Follows(v, last) ==
    /\ v.rv > last.rv /\ v.uid >= last.uid
    /\ (v.present /\ v.uid = last.uid) =>
          last.present /\ (last.deleting => v.deleting)

\* A write that follows the stored version, and keeps the finalizer of one
\* that some version in flight shows under management, keeps the view in order.
LEMMA AppendViewOK ==
    ASSUME NEW view \in Seq(Workloads) \ {<<>>}, WorkloadViewOK(view),
           NEW v \in Workloads, Follows(v, Stored(view)),
           (\E i \in 1..Len(view) : Managed(view[i])) =>
               v.present /\ v.finalizer /\ v.uid = Stored(view).uid
    PROVE  WorkloadViewOK(Append(view, v))
  <1> DEFINE new == Append(view, v)
             last == Stored(view)
  <1>1. Len(view) \in Nat \ {0} /\ \A i \in 1..Len(view) : view[i] \in Workloads
    OBVIOUS
  <1>2. /\ Len(new) = Len(view) + 1 /\ new[Len(view) + 1] = v
        /\ \A i \in 1..Len(view) : new[i] = view[i]
    BY <1>1
  <1>3. Stored(new) = v
    BY <1>2 DEF Stored
  <1>4. last \in Workloads
    BY <1>1 DEF Stored
  <1>5. \A i \in 1..Len(view) : view[i].rv <= last.rv /\ view[i].uid <= last.uid
    <2> TAKE i \in 1..Len(view)
    <2>1. CASE i = Len(view)
      BY <1>1, <2>1 DEF Stored, Workloads
    <2>2. CASE i # Len(view)
      <3>1. i < Len(view) /\ Len(view) \in 1..Len(view)
        BY <1>1, <2>2
      <3>2. view[i].rv < view[Len(view)].rv /\ view[i].uid <= view[Len(view)].uid
        BY <3>1 DEF WorkloadViewOK
      <3>3. view[i].rv \in Nat /\ view[Len(view)].rv \in Nat
        BY <1>1, <3>1 DEF Workloads
      <3> QED BY <3>2, <3>3 DEF Stored
    <2> QED BY <2>1, <2>2
  <1>6. ASSUME NEW i \in 1..Len(new), NEW j \in 1..Len(new), i < j
        PROVE  new[i].rv < new[j].rv /\ new[i].uid <= new[j].uid
    <2>1. i \in 1..Len(view)
      BY <1>1, <1>2, <1>6
    <2>2. CASE j = Len(view) + 1
      <3>1. new[i] = view[i] /\ new[j] = v
        BY <1>2, <2>1, <2>2
      <3>2. view[i].rv <= last.rv /\ view[i].uid <= last.uid
        BY <1>5, <2>1
      <3>3. /\ view[i].rv \in Nat /\ view[i].uid \in Nat
            /\ last.rv \in Nat /\ last.uid \in Nat /\ v.rv \in Nat /\ v.uid \in Nat
        BY <1>1, <1>4, <2>1 DEF Workloads
      <3> QED BY <3>1, <3>2, <3>3 DEF Follows
    <2>3. CASE j # Len(view) + 1
      <3>1. j \in 1..Len(view)
        BY <1>1, <1>2, <2>3
      <3> QED BY <1>2, <1>6, <2>1, <3>1 DEF WorkloadViewOK
    <2> QED BY <2>2, <2>3
  <1>7. ASSUME NEW i \in 1..Len(new), Managed(new[i])
        PROVE  v.present /\ v.finalizer /\ v.uid = new[i].uid
    <2>1. CASE i = Len(view) + 1
      BY <1>2, <1>7, <2>1 DEF Managed
    <2>2. CASE i # Len(view) + 1
      <3>1. i \in 1..Len(view) /\ new[i] = view[i]
        BY <1>1, <1>2, <2>2
      <3>2. last.uid = view[i].uid
        BY <1>7, <3>1 DEF WorkloadViewOK
      <3> QED BY <1>7, <3>1, <3>2
    <2> QED BY <2>1, <2>2
  <1>8. ASSUME NEW i \in 1..Len(new), new[i].present, new[i].deleting,
               v.present, v.uid = new[i].uid
        PROVE  v.deleting
    <2>1. CASE i = Len(view) + 1
      BY <1>2, <1>8, <2>1
    <2>2. CASE i # Len(view) + 1
      <3>1. i \in 1..Len(view) /\ new[i] = view[i]
        BY <1>1, <1>2, <2>2
      <3>2. v.uid = last.uid
        <4>1. view[i].uid <= last.uid /\ last.uid <= v.uid
          BY <1>5, <3>1, <1>4 DEF Follows, Workloads
        <4> QED BY <1>1, <1>4, <1>8, <3>1, <4>1 DEF Workloads
      <3>3. last.present
        BY <1>8, <3>2 DEF Follows
      <3>4. last.deleting
        BY <1>8, <3>1, <3>2, <3>3 DEF WorkloadViewOK
      <3> QED BY <1>8, <3>2, <3>4 DEF Follows
    <2> QED BY <2>1, <2>2
  <1>9. \A i, j \in 1..Len(new) : i < j => new[i].rv < new[j].rv /\ new[i].uid <= new[j].uid
    BY <1>6
  <1>10. \A i \in 1..Len(new) :
            /\ Managed(new[i]) => v.present /\ v.finalizer /\ v.uid = new[i].uid
            /\ (new[i].present /\ new[i].deleting /\ v.present /\ v.uid = new[i].uid)
                  => v.deleting
    BY <1>7, <1>8
  <1>11. WorkloadViewOK(new)
    <2> HIDE DEF new
    <2> QED BY <1>3, <1>9, <1>10 DEF WorkloadViewOK
  <1> QED BY <1>11

\* A view keeps its order when its first version is dropped.
LEMMA TailViewOK ==
    ASSUME NEW view \in Seq(Workloads) \ {<<>>}, WorkloadViewOK(view), Len(view) > 1
    PROVE  WorkloadViewOK(Tail(view))
  <1> DEFINE new == Tail(view)
  <1>1. /\ Len(view) \in Nat /\ Len(new) = Len(view) - 1
        /\ \A i \in 1..Len(new) : new[i] = view[i + 1] /\ i + 1 \in 1..Len(view)
    OBVIOUS
  <1>2. Stored(new) = Stored(view)
    BY <1>1 DEF Stored
  <1>3. \A i, j \in 1..Len(new) : i < j =>
            new[i].rv < new[j].rv /\ new[i].uid <= new[j].uid
    BY <1>1 DEF WorkloadViewOK
  <1>4. \A i \in 1..Len(new) :
           /\ Managed(new[i]) => /\ Stored(view).present /\ Stored(view).finalizer
                                 /\ Stored(view).uid = new[i].uid
           /\ (/\ new[i].present /\ new[i].deleting
               /\ Stored(view).present /\ Stored(view).uid = new[i].uid)
                 => Stored(view).deleting
    BY <1>1 DEF WorkloadViewOK
  <1>5. WorkloadViewOK(new)
    <2> HIDE DEF new
    <2> QED BY <1>2, <1>3, <1>4 DEF WorkloadViewOK
  <1> QED BY <1>5

\* A freshly listed object is a view in order.
LEMMA ListedViewOK ==
    ASSUME NEW w \in Workloads
    PROVE  WorkloadViewOK(<<w>>)
  <1>1. Len(<<w>>) = 1 /\ <<w>>[1] = w /\ Stored(<<w>>) = w
    BY DEF Stored
  <1> QED BY <1>1 DEF WorkloadViewOK, Managed

\* An update that passes the resourceVersion check changes exactly the object
\* the worker holds, and no other version of it is in flight.
LEMMA SnapshotIsStored ==
    ASSUME TypeOK, StaleButSound, rec.step # "idle", SameVersion
    PROVE  /\ Self \in Names
           /\ Len(workload[Self]) = 1
           /\ Stored(workload[Self]) = rec.work
           /\ Cached(workload[Self]) = rec.work
  <1> DEFINE view == workload[Self]
  <1>1. Self \in Names /\ workload \in Views(Workloads)
    BY TypeViews DEF Self
  <1>2. /\ Cached(view) \in Workloads /\ Stored(view) \in Workloads
        /\ Len(view) \in Nat \ {0}
    BY <1>1, ViewMembers
  <1>3. WorkloadViewOK(view)
    BY <1>1 DEF StaleButSound
  <1>4. rec.work.rv <= Cached(view).rv /\ (rec.work.rv = Cached(view).rv => rec.work = Cached(view))
    BY DEF StaleButSound, SnapshotOK
  <1>5. Len(view) = 1
    <2>0. SUFFICES ASSUME Len(view) # 1 PROVE FALSE
      OBVIOUS
    <2>1. 1 \in 1..Len(view) /\ Len(view) \in 1..Len(view) /\ 1 < Len(view)
      <3>1. \A k \in Nat \ {0} : k # 1 => 1 \in 1..k /\ k \in 1..k /\ 1 < k
        OBVIOUS
      <3> QED BY <1>2, <2>0, <3>1, Zenon
    <2>2. Cached(view).rv < Stored(view).rv
      BY <1>3, <2>1 DEF WorkloadViewOK, Cached, Stored
    <2>3. Stored(view).rv = rec.work.rv
      BY DEF SameVersion
    <2> QED BY <1>2, <1>4, <2>2, <2>3 DEF Workloads
  <1>6. Cached(view) = Stored(view)
    BY <1>5 DEF Cached, Stored
  <1> QED BY <1>1, <1>4, <1>5, <1>6 DEF SameVersion

\* Versions are numbered by naturals.
LEMMA NatFields ==
    ASSUME TypeOK, NEW n \in Names
    PROVE  /\ Stored(workload[n]).uid \in Nat /\ Stored(workload[n]).rv \in Nat
           /\ Cached(workload[n]).uid \in Nat /\ Cached(workload[n]).rv \in Nat
           /\ rec.work.uid \in Nat /\ rec.work.rv \in Nat
           /\ Stored(deploy[n]).owner \in Nat /\ Stored(service[n]).owner \in Nat
  <1>1. /\ Stored(workload[n]) \in Workloads /\ Cached(workload[n]) \in Workloads
        /\ Stored(deploy[n]) \in Deployments /\ Stored(service[n]) \in Services
        /\ rec.work \in Workloads
    BY TypeViews, ViewMembers DEF Recs
  <1> QED BY <1>1 DEF Workloads, Deployments, Services

\* The cached incarnation is the stored one or an older one.
LEMMA CachedBeforeStored ==
    ASSUME TypeOK, StaleButSound, NEW n \in Names
    PROVE  Cached(workload[n]).uid <= Stored(workload[n]).uid
  <1>1. Len(workload[n]) \in Nat \ {0}
    BY TypeViews, ViewMembers
  <1>2. CASE Len(workload[n]) = 1
    BY <1>2, NatFields DEF Cached, Stored
  <1>3. CASE Len(workload[n]) # 1
    <2>1. \A k \in Nat \ {0} : k # 1 => 1 \in 1..k /\ k \in 1..k /\ 1 < k
      OBVIOUS
    <2>2. /\ 1 \in 1..Len(workload[n]) /\ Len(workload[n]) \in 1..Len(workload[n])
          /\ 1 < Len(workload[n])
      BY <1>1, <1>3, <2>1, Zenon
    <2> QED BY <2>2 DEF StaleButSound, WorkloadViewOK, Cached, Stored
  <1> QED BY <1>2, <1>3

\* After a step of the right types, versions are still numbered by naturals.
LEMMA NatFieldsNext ==
    ASSUME TypeOK', NEW n \in Names
    PROVE  /\ Cached(workload'[n]).uid \in Nat /\ Cached(workload'[n]).rv \in Nat
           /\ workload' \in Views(Workloads) /\ deploy' \in Views(Deployments)
           /\ service' \in Views(Services)
  <1>1. /\ workload' \in Views(Workloads) /\ deploy' \in Views(Deployments)
        /\ service' \in Views(Services)
    BY DEF TypeOK, Views
  <1>2. Cached(workload'[n]) \in Workloads
    BY <1>1, ViewMembers
  <1> QED BY <1>1, <1>2 DEF Workloads

\* Steps that leave the worker alone and only move knowledge forward, or take
\* children away, keep the invariant.
LEMMA Advance ==
    ASSUME TypeOK, TypeOK', StaleButSound, rec' = rec,
           \A n \in Names :
              /\ WorkloadViewOK(workload'[n])
              /\ Stored(workload'[n]) = Stored(workload[n])
              /\ \/ Cached(workload'[n]) = Cached(workload[n])
                 \/ /\ Cached(workload'[n]).rv > Cached(workload[n]).rv
                    /\ Cached(workload'[n]).uid >= Cached(workload[n]).uid
              /\ Stored(deploy'[n]).owner \in {0, Stored(deploy[n]).owner}
              /\ Stored(service'[n]).owner \in {0, Stored(service[n]).owner}
    PROVE  StaleButSound'
  <1>1. (\A n \in Names : WorkloadViewOK(workload[n]))'
    OBVIOUS
  <1>2. SnapshotOK'
    <2>1. SUFFICES ASSUME rec.step # "idle"
                   PROVE  LET w == rec.work
                              cached == Cached(workload'[rec.name])
                          IN  /\ w.rv <= cached.rv /\ w.uid <= cached.uid
                              /\ w.rv = cached.rv => w = cached
                              /\ w.present
                              /\ w.deleting <=> rec.step \in CleanupSteps
                              /\ w.finalizer <=> rec.step # "addFinalizer"
      BY DEF SnapshotOK, Self
    <2>2. rec.name \in Names
      BY <2>1, TypeViews
    <2>3. /\ rec.work.rv <= Cached(workload[rec.name]).rv
          /\ rec.work.uid <= Cached(workload[rec.name]).uid
          /\ rec.work.rv = Cached(workload[rec.name]).rv =>
                rec.work = Cached(workload[rec.name])
          /\ rec.work.present
          /\ rec.work.deleting <=> rec.step \in CleanupSteps
          /\ rec.work.finalizer <=> rec.step # "addFinalizer"
      BY <2>1 DEF StaleButSound, SnapshotOK, Self
    <2>4. CASE Cached(workload'[rec.name]) = Cached(workload[rec.name])
      BY <2>3, <2>4
    <2>5. CASE /\ Cached(workload'[rec.name]).rv > Cached(workload[rec.name]).rv
               /\ Cached(workload'[rec.name]).uid >= Cached(workload[rec.name]).uid
      <3>1. /\ Cached(workload'[rec.name]).rv \in Nat /\ Cached(workload[rec.name]).rv \in Nat
            /\ Cached(workload'[rec.name]).uid \in Nat /\ Cached(workload[rec.name]).uid \in Nat
            /\ rec.work.rv \in Nat /\ rec.work.uid \in Nat
        BY <2>2, NatFields, NatFieldsNext
      <3>2. /\ rec.work.rv < Cached(workload'[rec.name]).rv
            /\ rec.work.uid <= Cached(workload'[rec.name]).uid
        BY <2>3, <2>5, <3>1
      <3>3. rec.work.rv # Cached(workload'[rec.name]).rv
        BY <3>1, <3>2
      <3>4. rec.work.rv <= Cached(workload'[rec.name]).rv
        BY <3>1, <3>2
      <3> QED BY <2>3, <3>2, <3>3, <3>4
    <2> QED BY <2>2, <2>4, <2>5
  <1>3. CleanupOK'
    <2>1. SUFFICES ASSUME rec.step \in CleanupSteps
                   PROVE  LET last == Stored(workload'[rec.name])
                          IN  /\ (last.present /\ last.uid = rec.work.uid) => last.deleting
                              /\ Stored(deploy'[rec.name]).owner <= rec.work.uid
                              /\ Stored(service'[rec.name]).owner <= rec.work.uid
      BY DEF CleanupOK, Self
    <2>2. rec.name \in Names
      BY <2>1, TypeViews DEF CleanupSteps
    <2>3. /\ (/\ Stored(workload[rec.name]).present
              /\ Stored(workload[rec.name]).uid = rec.work.uid)
                 => Stored(workload[rec.name]).deleting
          /\ Stored(deploy[rec.name]).owner <= rec.work.uid
          /\ Stored(service[rec.name]).owner <= rec.work.uid
      BY <2>1 DEF StaleButSound, CleanupOK, Self
    <2>4. 0 <= rec.work.uid
      BY <2>2, NatFields
    <2> QED BY <2>2, <2>3, <2>4
  <1>4. ChildrenOK'
    <2>1. SUFFICES ASSUME NEW n \in Names
                   PROVE  /\ Stored(deploy'[n]).owner <= Cached(workload'[n]).uid
                          /\ Stored(service'[n]).owner <= Cached(workload'[n]).uid
      BY DEF ChildrenOK
    <2>2. /\ Stored(deploy[n]).owner <= Cached(workload[n]).uid
          /\ Stored(service[n]).owner <= Cached(workload[n]).uid
      BY DEF StaleButSound, ChildrenOK
    <2>3. /\ Cached(workload'[n]).uid \in Nat /\ Cached(workload[n]).uid \in Nat
          /\ Stored(deploy[n]).owner \in Nat /\ Stored(service[n]).owner \in Nat
      BY NatFields, NatFieldsNext
    <2>4. Cached(workload[n]).uid <= Cached(workload'[n]).uid
      BY <2>3
    <2> QED BY <2>2, <2>3, <2>4
  <1>5. CreatesOnlyForLiveOwner'
    <2>1. SUFFICES ASSUME rec.step \in {"deployment", "service"}
                   PROVE  LET w == Stored(workload'[rec.name])
                          IN  w.present /\ w.uid = rec.work.uid /\ w.finalizer
      BY DEF CreatesOnlyForLiveOwner, Self
    <2>2. rec.name \in Names
      BY <2>1, TypeViews
    <2> QED BY <2>1, <2>2 DEF StaleButSound, CreatesOnlyForLiveOwner, Self
  <1> QED BY <1>1, <1>2, <1>3, <1>4, <1>5 DEF StaleButSound

\* Steps that end the call, or find the worker idle, keep the invariant when
\* the views stay in order and every child belongs to a known incarnation.
LEMMA Ends ==
    ASSUME rec'.step = "idle",
           \A n \in Names :
              /\ WorkloadViewOK(workload'[n])
              /\ Stored(deploy'[n]).owner <= Cached(workload'[n]).uid
              /\ Stored(service'[n]).owner <= Cached(workload'[n]).uid
    PROVE  StaleButSound'
  <1>1. SnapshotOK' /\ CleanupOK' /\ CreatesOnlyForLiveOwner'
    BY DEF SnapshotOK, CleanupOK, CleanupSteps, CreatesOnlyForLiveOwner
  <1>2. ChildrenOK'
    BY DEF ChildrenOK
  <1> QED BY <1>1, <1>2 DEF StaleButSound

\* Steps of a call that write no workload and go on: a cleanup takes children
\* away, a reconciliation creates children of the worker's incarnation.
LEMMA GoesOn ==
    ASSUME TypeOK, StaleButSound, rec.step # "idle", workload' = workload,
           rec'.name = rec.name, rec'.work = rec.work,
           \A n \in Names :
              /\ Stored(deploy'[n]).owner \in {0, Stored(deploy[n]).owner}
                    \cup (IF n = rec.name /\ rec.step \notin CleanupSteps
                          THEN {rec.work.uid} ELSE {})
              /\ Stored(service'[n]).owner \in {0, Stored(service[n]).owner}
                    \cup (IF n = rec.name /\ rec.step \notin CleanupSteps
                          THEN {rec.work.uid} ELSE {}),
           \/ rec.step \in CleanupSteps /\ rec'.step \in CleanupSteps
           \/ /\ rec.step \in {"deployment", "service"}
              /\ rec'.step \in {"deployment", "service", "status"}
    PROVE  StaleButSound'
  <1> DEFINE n0 == rec.name
  <1>1. n0 \in Names
    BY TypeViews
  <1>2. rec'.step # "idle" /\ rec'.step # "addFinalizer" /\ rec.step # "addFinalizer"
    BY DEF CleanupSteps
  <1>3. rec'.step \in CleanupSteps <=> rec.step \in CleanupSteps
    BY DEF CleanupSteps
  <1>4. SnapshotOK'
    BY <1>2, <1>3 DEF StaleButSound, SnapshotOK, Self
  <1>5. ChildrenOK'
    <2> SUFFICES ASSUME NEW n \in Names
                 PROVE  /\ Stored(deploy'[n]).owner <= Cached(workload[n]).uid
                        /\ Stored(service'[n]).owner <= Cached(workload[n]).uid
      BY DEF ChildrenOK
    <2>1. /\ Stored(deploy[n]).owner <= Cached(workload[n]).uid
          /\ Stored(service[n]).owner <= Cached(workload[n]).uid
      BY DEF StaleButSound, ChildrenOK
    <2>2. 0 <= Cached(workload[n]).uid
      BY NatFields
    <2>3. rec.work.uid <= Cached(workload[n0]).uid
      BY DEF StaleButSound, SnapshotOK, Self
    <2> QED BY <2>1, <2>2, <2>3
  <1>6. CleanupOK'
    <2>1. CASE rec'.step \notin CleanupSteps
      BY <2>1 DEF CleanupOK
    <2>2. CASE rec'.step \in CleanupSteps
      <3>1. 0 <= rec.work.uid
        BY <1>1, NatFields
      <3>2. /\ Stored(deploy'[n0]).owner \in {0, Stored(deploy[n0]).owner}
            /\ Stored(service'[n0]).owner \in {0, Stored(service[n0]).owner}
        BY <1>1, <1>3, <2>2
      <3> QED BY <1>3, <2>2, <3>1, <3>2 DEF StaleButSound, CleanupOK, Self
    <2> QED BY <2>1, <2>2
  <1>7. CreatesOnlyForLiveOwner'
    BY DEF StaleButSound, CreatesOnlyForLiveOwner, Self, CleanupSteps
  <1> QED BY <1>4, <1>5, <1>6, <1>7 DEF StaleButSound

\* Somebody else's write of a workload keeps the invariant when it follows
\* the stored version and does not strip the operator's finalizer.
LEMMA OthersWrite ==
    ASSUME TypeOK, StaleButSound, NEW n \in Names, NEW v \in Workloads,
           workload' = Put(workload, n, v), UNCHANGED <<deploy, service, rec>>,
           Follows(v, Stored(workload[n])),
           (Stored(workload[n]).present /\ Stored(workload[n]).finalizer) =>
               v.present /\ v.finalizer /\ v.uid = Stored(workload[n]).uid
    PROVE  StaleButSound'
  <1> DEFINE last == Stored(workload[n])
  <1>1. /\ workload \in Views(Workloads)
        /\ workload[n] \in Seq(Workloads) \ {<<>>}
    BY TypeViews DEF Views
  <1>2. /\ \A m \in Names : m # n => workload'[m] = workload[m]
        /\ Stored(workload'[n]) = v
        /\ \A m \in Names : Cached(workload'[m]) = Cached(workload[m])
        /\ workload'[n] = Append(workload[n], v)
    BY <1>1, PutFacts DEF Put, Views
  <1>3. \A m \in Names : WorkloadViewOK(workload'[m])
    <2>1. WorkloadViewOK(workload[n])
      BY DEF StaleButSound
    <2>2. (\E i \in 1..Len(workload[n]) : Managed(workload[n][i])) =>
             v.present /\ v.finalizer /\ v.uid = last.uid
      BY <2>1 DEF WorkloadViewOK
    <2>3. WorkloadViewOK(Append(workload[n], v))
      BY <1>1, <2>1, <2>2, AppendViewOK
    <2> QED BY <1>2, <2>3 DEF StaleButSound
  <1>4. rec.step # "idle" => rec.name \in Names
    BY TypeViews
  <1>5. SnapshotOK'
    BY <1>2, <1>4 DEF StaleButSound, SnapshotOK, Self
  <1>6. ChildrenOK'
    BY <1>2 DEF StaleButSound, ChildrenOK
  <1>7. CleanupOK'
    <2>1. SUFFICES ASSUME rec.step \in CleanupSteps
                   PROVE  LET l == Stored(workload'[rec.name])
                          IN  /\ (l.present /\ l.uid = rec.work.uid) => l.deleting
                              /\ Stored(deploy[rec.name]).owner <= rec.work.uid
                              /\ Stored(service[rec.name]).owner <= rec.work.uid
      BY DEF CleanupOK, Self
    <2>2. /\ (/\ Stored(workload[rec.name]).present
              /\ Stored(workload[rec.name]).uid = rec.work.uid)
                 => Stored(workload[rec.name]).deleting
          /\ Stored(deploy[rec.name]).owner <= rec.work.uid
          /\ Stored(service[rec.name]).owner <= rec.work.uid
      BY <2>1 DEF StaleButSound, CleanupOK, Self
    <2>3. rec.name \in Names /\ rec.step # "idle"
      BY <1>4, <2>1 DEF CleanupSteps
    <2>4. CASE rec.name # n
      BY <1>2, <2>2, <2>3, <2>4
    <2>5. CASE rec.name = n
      <3>1. ASSUME v.present, v.uid = rec.work.uid PROVE v.uid = last.uid
        <4>1. rec.work.uid <= Cached(workload[n]).uid
          BY <2>3, <2>5 DEF StaleButSound, SnapshotOK, Self
        <4>2. Cached(workload[n]).uid <= last.uid
          BY CachedBeforeStored
        <4>3. last.uid <= v.uid
          BY NatFields DEF Follows, Workloads
        <4> QED BY <3>1, <4>1, <4>2, <4>3, NatFields DEF Workloads
      <3>2. (v.present /\ v.uid = rec.work.uid) => v.deleting
        BY <2>2, <2>5, <3>1 DEF Follows
      <3> QED BY <1>2, <2>2, <2>5, <3>2
    <2> QED BY <2>4, <2>5
  <1>8. CreatesOnlyForLiveOwner'
    <2>1. SUFFICES ASSUME rec.step \in {"deployment", "service"}
                   PROVE  LET w == Stored(workload'[rec.name])
                          IN  w.present /\ w.uid = rec.work.uid /\ w.finalizer
      BY DEF CreatesOnlyForLiveOwner, Self
    <2>2. rec.name \in Names
      BY <1>4, <2>1
    <2>3. LET w == Stored(workload[rec.name])
          IN  w.present /\ w.uid = rec.work.uid /\ w.finalizer
      BY <2>1 DEF StaleButSound, CreatesOnlyForLiveOwner, Self
    <2> QED BY <1>2, <2>2, <2>3
  <1> QED BY <1>3, <1>5, <1>6, <1>7, <1>8 DEF StaleButSound

\* Nothing exists yet, so there is nothing to be stale about.
LEMMA StaleInit == Init => StaleButSound
  <1> SUFFICES ASSUME Init PROVE StaleButSound
    OBVIOUS
  <1>1. rec.step = "idle"
    BY DEF Init, Idle
  <1>2. SnapshotOK /\ CleanupOK /\ CreatesOnlyForLiveOwner
    BY <1>1 DEF SnapshotOK, CleanupOK, CleanupSteps, CreatesOnlyForLiveOwner
  <1>3. \A n \in Names : WorkloadViewOK(workload[n])
    BY ListedViewOK, RecordTypes DEF Init
  <1>4. ChildrenOK
    BY DEF Init, ChildrenOK, Stored, Cached, NoDeployment, NoService, Tombstone
  <1> QED BY <1>2, <1>3, <1>4 DEF StaleButSound

\* A call starts from the cached version, whose past and future the view's
\* order tells.
LEMMA StaleFetch ==
    ASSUME TypeOK, StaleButSound, NEW n \in Names, Fetch(n)
    PROVE  StaleButSound'
  <1> DEFINE c == Cached(workload[n])
             last == Stored(workload[n])
  <1>1. WorkloadViewOK(workload[n]) /\ 1 \in 1..Len(workload[n]) /\ c = workload[n][1]
    BY TypeViews, ViewMembers DEF StaleButSound, Cached
  <1>2. /\ Managed(c) => last.present /\ last.finalizer /\ last.uid = c.uid
        /\ (c.present /\ c.deleting /\ last.present /\ last.uid = c.uid) => last.deleting
    BY <1>1 DEF WorkloadViewOK
  <1>3. UNCHANGED <<workload, deploy, service>>
    BY DEF Fetch, FetchNothing, FetchDeleting, FetchNew, FetchManaged, Take, objects
  <1>4. CASE FetchNothing(n)
    <2>1. rec'.step = "idle"
      BY <1>4 DEF FetchNothing, Take, Idle
    <2> QED BY <1>3, <2>1, Ends DEF StaleButSound, ChildrenOK
  <1>5. ASSUME NEW step \in Steps \ {"idle"}, Take(n, step),
               c.present,
               c.deleting <=> step \in CleanupSteps,
               c.finalizer <=> step # "addFinalizer"
        PROVE  StaleButSound'
    <2>1. rec'.step = step /\ rec'.name = n /\ rec'.work = c
      BY <1>5 DEF Take, Idle
    <2>2. SnapshotOK'
      BY <1>3, <1>5, <2>1, NatFields DEF SnapshotOK, Self
    <2>3. CleanupOK'
      BY <1>2, <1>3, <1>5, <2>1 DEF CleanupOK, Self, StaleButSound, ChildrenOK
    <2>4. CreatesOnlyForLiveOwner'
      <3>1. step \in {"deployment", "service"} => Managed(c)
        BY <1>5 DEF Managed, CleanupSteps
      <3> QED BY <1>2, <1>3, <2>1, <3>1 DEF CreatesOnlyForLiveOwner, Self
    <2> QED BY <1>3, <2>2, <2>3, <2>4 DEF StaleButSound, ChildrenOK
  <1>6. CASE FetchDeleting(n)
    BY <1>5, <1>6 DEF FetchDeleting, Steps, CleanupSteps
  <1>7. CASE FetchNew(n)
    BY <1>5, <1>7 DEF FetchNew, Steps, CleanupSteps
  <1>8. CASE FetchManaged(n)
    BY <1>5, <1>8 DEF FetchManaged, Steps, CleanupSteps
  <1> QED BY <1>4, <1>6, <1>7, <1>8 DEF Fetch

\* Watch events, lists and restarts.
LEMMA StaleWatch ==
    ASSUME TypeOK, TypeOK', StaleButSound,
           \/ \E n \in Names : Deliver(n) \/ Relist(n)
           \/ Resync
           \/ Crash
    PROVE  StaleButSound'
  <1>1. /\ workload \in Views(Workloads) /\ deploy \in Views(Deployments)
        /\ service \in Views(Services)
    BY TypeViews
  <1>2. \A n \in Names : WorkloadViewOK(workload[n])
    BY DEF StaleButSound
  <1>3. ASSUME NEW n \in Names, DeliverWorkload(n) PROVE StaleButSound'
    <2>1. Len(workload[n]) > 1 /\ workload' = Delivered(workload, n)
          /\ UNCHANGED <<deploy, service, rec>>
      BY <1>3 DEF DeliverWorkload
    <2>2. /\ \A m \in Names : m # n => workload'[m] = workload[m]
          /\ Stored(workload'[n]) = Stored(workload[n])
          /\ Cached(workload'[n]) = workload[n][2]
          /\ workload'[n] = Tail(workload[n])
      BY <1>1, <2>1, DeliveredFacts DEF Delivered, Views
    <2>3. WorkloadViewOK(workload'[n])
      BY <1>1, <1>2, <2>1, <2>2, TailViewOK DEF Views
    <2>4. workload[n][1].rv < workload[n][2].rv /\ workload[n][1].uid <= workload[n][2].uid
      <3>1. 1 \in 1..Len(workload[n]) /\ 2 \in 1..Len(workload[n])
        BY <1>1, <2>1, ViewMembers
      <3> QED BY <1>2, <3>1 DEF WorkloadViewOK
    <2>5. /\ Cached(workload'[n]).rv > Cached(workload[n]).rv
          /\ Cached(workload'[n]).uid >= Cached(workload[n]).uid
      BY <2>2, <2>4, NatFields, NatFieldsNext DEF Cached
    <2> QED BY <1>2, <2>1, <2>2, <2>3, <2>5, Advance
  <1>4. ASSUME NEW n \in Names, RelistWorkload(n) PROVE StaleButSound'
    <2>1. Len(workload[n]) > 2 /\ workload' = Jump(workload, n)
          /\ UNCHANGED <<deploy, service, rec>>
      BY <1>4 DEF RelistWorkload, Skipped
    <2>2. /\ \A m \in Names : m # n => workload'[m] = workload[m]
          /\ workload'[n] = <<Stored(workload[n])>>
      BY <1>1, <2>1, JumpFacts
    <2>3. /\ Stored(workload'[n]) = Stored(workload[n])
          /\ Cached(workload'[n]) = Stored(workload[n])
      BY <2>2 DEF Stored, Cached
    <2>4. WorkloadViewOK(workload'[n])
      BY <1>1, <2>2, ListedViewOK, ViewMembers
    <2>5. /\ Cached(workload[n]).rv < Stored(workload[n]).rv
          /\ Cached(workload[n]).uid <= Stored(workload[n]).uid
      <3>1. /\ 1 \in 1..Len(workload[n]) /\ Len(workload[n]) \in 1..Len(workload[n])
            /\ 1 < Len(workload[n])
        BY <1>1, <2>1, ViewMembers
      <3> QED BY <1>2, <3>1 DEF WorkloadViewOK, Cached, Stored
    <2>6. /\ Cached(workload'[n]).rv > Cached(workload[n]).rv
          /\ Cached(workload'[n]).uid >= Cached(workload[n]).uid
      BY <2>3, <2>5, NatFields
    <2> QED BY <1>2, <2>1, <2>2, <2>3, <2>4, <2>6, Advance
  <1>5. ASSUME NEW n \in Names,
               \/ DeliverDeployment(n) \/ DeliverService(n)
               \/ RelistDeployment(n) \/ RelistService(n)
        PROVE  StaleButSound'
    <2>1. UNCHANGED <<workload, rec>>
      BY <1>5
      DEF DeliverDeployment, DeliverService, RelistDeployment, RelistService, Skipped
    <2>2. \A m \in Names : Stored(deploy'[m]) = Stored(deploy[m])
      <3>1. CASE deploy' = deploy
        BY <3>1
      <3>2. CASE DeliverDeployment(n)
        BY <1>1, <3>2, DeliveredFacts DEF DeliverDeployment
      <3>3. CASE RelistDeployment(n)
        <4>1. deploy'[n] = <<Stored(deploy[n])>> /\ \A m \in Names : m # n => deploy'[m] = deploy[m]
          BY <1>1, <3>3, JumpFacts DEF RelistDeployment
        <4> QED BY <4>1, UpToDate
      <3> QED BY <1>5, <3>1, <3>2, <3>3 DEF DeliverService, RelistService
    <2>3. \A m \in Names : Stored(service'[m]) = Stored(service[m])
      <3>1. CASE service' = service
        BY <3>1
      <3>2. CASE DeliverService(n)
        BY <1>1, <3>2, DeliveredFacts DEF DeliverService
      <3>3. CASE RelistService(n)
        <4>1. service'[n] = <<Stored(service[n])>> /\ \A m \in Names : m # n => service'[m] = service[m]
          BY <1>1, <3>3, JumpFacts DEF RelistService
        <4> QED BY <4>1, UpToDate
      <3> QED BY <1>5, <3>1, <3>2, <3>3 DEF DeliverDeployment, RelistDeployment
    <2> QED BY <1>2, <2>1, <2>2, <2>3, Advance
  <1>6. CASE Resync
    BY <1>2, <1>6, Advance DEF Resync, objects
  <1>7. CASE Crash
    <2>1. \A n \in Names : /\ workload'[n] = <<Stored(workload[n])>>
                           /\ deploy'[n] = <<Stored(deploy[n])>>
                           /\ service'[n] = <<Stored(service[n])>>
      BY <1>1, <1>7, LatestFacts DEF Crash
    <2>2. rec'.step = "idle"
      BY <1>7 DEF Crash, Idle
    <2>3. ASSUME NEW n \in Names
          PROVE  /\ WorkloadViewOK(workload'[n])
                 /\ Stored(deploy'[n]).owner <= Cached(workload'[n]).uid
                 /\ Stored(service'[n]).owner <= Cached(workload'[n]).uid
      <3>1. WorkloadViewOK(workload'[n])
        BY <1>1, <2>1, ListedViewOK, ViewMembers
      <3>2. /\ Cached(workload'[n]) = Stored(workload[n])
            /\ Stored(deploy'[n]) = Stored(deploy[n]) /\ Stored(service'[n]) = Stored(service[n])
        BY <2>1, UpToDate
      <3>3. /\ Stored(deploy[n]).owner <= Cached(workload[n]).uid
            /\ Stored(service[n]).owner <= Cached(workload[n]).uid
        BY DEF StaleButSound, ChildrenOK
      <3>4. Cached(workload[n]).uid <= Stored(workload[n]).uid
        BY CachedBeforeStored
      <3> QED BY <3>1, <3>2, <3>3, <3>4, NatFields
    <2> QED BY <2>2, <2>3, Ends
  <1> QED BY <1>3, <1>4, <1>5, <1>6, <1>7 DEF Deliver, Relist

\* Users, the Deployment controller and the garbage collector.
LEMMA StaleEnvironment ==
    ASSUME TypeOK, TypeOK', StaleButSound, NEW n \in Names, Environment(n) \/ Collect(n)
    PROVE  StaleButSound'
  <1> DEFINE w == Stored(workload[n])
             d == Stored(deploy[n])
  <1>1. /\ workload \in Views(Workloads) /\ deploy \in Views(Deployments)
        /\ service \in Views(Services)
        /\ w \in Workloads /\ d \in Deployments
    BY TypeViews, ViewMembers
  <1>2. w.rv \in Nat /\ w.uid \in Nat /\ w.rv + 1 > w.rv /\ w.uid + 1 > w.uid
    BY <1>1 DEF Workloads
  <1>3. ASSUME NEW v \in Deployments, v.owner \in {0, d.owner},
               deploy' = Put(deploy, n, v), UNCHANGED <<workload, service, rec>>
        PROVE  StaleButSound'
    <2>1. \A m \in Names : Stored(deploy'[m]).owner \in {0, Stored(deploy[m]).owner}
      BY <1>1, <1>3, PutFacts
    <2> QED BY <1>3, <2>1, Advance DEF StaleButSound
  <1>4. ASSUME service' = Put(service, n, NoService), UNCHANGED <<workload, deploy, rec>>
        PROVE  StaleButSound'
    <2>1. \A m \in Names : Stored(service'[m]).owner \in {0, Stored(service[m]).owner}
      <3>1. NoService \in Services /\ NoService.owner = 0
        BY RecordTypes DEF NoService
      <3> QED BY <1>1, <1>4, <3>1, PutFacts
    <2> QED BY <1>4, <2>1, Advance DEF StaleButSound
  <1>5. ASSUME NEW spec \in Specs, UserCreate(n, spec) PROVE StaleButSound'
    <2> DEFINE v == [Tombstone(w.uid + 1, w.rv + 1) EXCEPT !.present = TRUE, !.spec = spec]
    <2>1. v \in Workloads
      BY <1>1, VersionTypes
    <2>2. v.rv = w.rv + 1 /\ v.uid = w.uid + 1
      BY DEF Tombstone
    <2>3. Follows(v, w)
      BY <1>2, <2>2 DEF Follows
    <2>4. workload' = Put(workload, n, v) /\ ~w.present /\ UNCHANGED <<deploy, service, rec>>
      BY <1>5 DEF UserCreate, Write
    <2> HIDE DEF v
    <2> QED BY <2>1, <2>3, <2>4, OthersWrite
  <1>6. ASSUME NEW spec \in Specs, UserEdit(n, spec) PROVE StaleButSound'
    <2> DEFINE v == [w EXCEPT !.spec = spec, !.rv = @ + 1]
    <2>1. v \in Workloads
      BY <1>1, VersionTypes
    <2>2. /\ v.rv = w.rv + 1 /\ v.uid = w.uid /\ v.deleting = w.deleting
          /\ v.present = w.present /\ v.finalizer = w.finalizer
      BY <1>1 DEF Workloads
    <2>3. workload' = Put(workload, n, v) /\ w.present /\ UNCHANGED <<deploy, service, rec>>
      BY <1>6 DEF UserEdit, Write, Disturb
    <2> HIDE DEF v
    <2>4. Follows(v, w)
      BY <1>2, <2>2, <2>3 DEF Follows
    <2> QED BY <2>1, <2>2, <2>3, <2>4, OthersWrite
  <1>7. ASSUME NEW foreground \in BOOLEAN, UserDelete(n, foreground) PROVE StaleButSound'
    <2>1. w.present /\ ~w.deleting /\ UNCHANGED <<deploy, service, rec>>
      BY <1>7 DEF UserDelete
    <2>2. CASE w.finalizer \/ foreground
      <3> DEFINE v == [w EXCEPT !.deleting = TRUE, !.hold = foreground, !.rv = @ + 1]
      <3>1. v \in Workloads
        BY <1>1, VersionTypes
      <3>2. /\ v.rv = w.rv + 1 /\ v.uid = w.uid /\ v.deleting
            /\ v.present = w.present /\ v.finalizer = w.finalizer
        BY <1>1 DEF Workloads
      <3>3. workload' = Put(workload, n, v)
        BY <1>7, <2>2 DEF UserDelete, Write
      <3> HIDE DEF v
      <3>4. Follows(v, w)
        BY <1>2, <2>1, <3>2 DEF Follows
      <3> QED BY <2>1, <3>1, <3>2, <3>3, <3>4, OthersWrite
    <2>3. CASE ~(w.finalizer \/ foreground)
      <3> DEFINE v == Tombstone(w.uid, w.rv + 1)
      <3>1. v \in Workloads
        BY <1>1, VersionTypes
      <3>2. v.rv = w.rv + 1 /\ v.uid = w.uid /\ ~v.present
        BY DEF Tombstone
      <3>3. workload' = Put(workload, n, v)
        BY <1>7, <2>3 DEF UserDelete, Write
      <3> HIDE DEF v
      <3>4. Follows(v, w)
        BY <1>2, <3>2 DEF Follows
      <3> QED BY <2>1, <2>3, <3>1, <3>3, <3>4, OthersWrite
    <2> QED BY <2>2, <2>3
  <1>8. ASSUME ReleaseHold(n) PROVE StaleButSound'
    <2>1. w.present /\ w.deleting /\ UNCHANGED <<deploy, service, rec>>
      BY <1>8 DEF ReleaseHold
    <2>2. CASE w.finalizer
      <3> DEFINE v == [w EXCEPT !.hold = FALSE, !.rv = @ + 1]
      <3>1. v \in Workloads
        BY <1>1, VersionTypes
      <3>2. /\ v.rv = w.rv + 1 /\ v.uid = w.uid /\ v.deleting = w.deleting
            /\ v.present = w.present /\ v.finalizer = w.finalizer
        BY <1>1 DEF Workloads
      <3>3. workload' = Put(workload, n, v)
        BY <1>8, <2>2 DEF ReleaseHold, Write
      <3> HIDE DEF v
      <3>4. Follows(v, w)
        BY <1>2, <2>1, <3>2 DEF Follows
      <3> QED BY <2>1, <3>1, <3>2, <3>3, <3>4, OthersWrite
    <2>3. CASE ~w.finalizer
      <3> DEFINE v == Tombstone(w.uid, w.rv + 1)
      <3>1. v \in Workloads
        BY <1>1, VersionTypes
      <3>2. v.rv = w.rv + 1 /\ v.uid = w.uid /\ ~v.present
        BY DEF Tombstone
      <3>3. workload' = Put(workload, n, v)
        BY <1>8, <2>3 DEF ReleaseHold, Write
      <3> HIDE DEF v
      <3>4. Follows(v, w)
        BY <1>2, <3>2 DEF Follows
      <3> QED BY <2>1, <2>3, <3>1, <3>3, <3>4, OthersWrite
    <2> QED BY <2>2, <2>3
  <1>9. ASSUME NEW spec \in Specs, CreateForeign(n, spec) PROVE StaleButSound'
    <2> DEFINE v == [buildInferenceDeployment([uid |-> 0, spec |-> spec]) EXCEPT !.ready = 1]
    <2>1. v.owner = 0
      BY DEF buildInferenceDeployment
    <2>2. deploy' = Put(deploy, n, v) /\ UNCHANGED <<workload, service, rec>>
      BY <1>9 DEF CreateForeign, Write, Disturb
    <2>3. v \in Deployments
      <3> DEFINE b == buildInferenceDeployment([uid |-> 0, spec |-> spec])
      <3>1. b \in Deployments
        BY BoundsAssumption DEF Deployments, buildInferenceDeployment
      <3> HIDE DEF b
      <3>2. [b EXCEPT !.ready = 1] \in Deployments
        BY <3>1, BoundsAssumption DEF Deployments
      <3> QED BY <3>2 DEF b
    <2> HIDE DEF v
    <2> QED BY <1>3, <2>1, <2>2, <2>3
  <1>10. ASSUME NEW ready \in 0..MaxReplicas, NEW failure \in BOOLEAN,
                RolloutProgress(n, ready, failure)
         PROVE  StaleButSound'
    <2> DEFINE u == IF d.replicas > ready THEN d.replicas - ready ELSE 0
               v == [d EXCEPT !.ready = ready, !.unavailable = u, !.failure = failure]
    <2>1. u \in 0..MaxReplicas
      BY <1>1, BoundsAssumption DEF Deployments
    <2>2. deploy' = Put(deploy, n, v) /\ UNCHANGED <<workload, service, rec>>
      BY <1>10 DEF RolloutProgress, Write, Disturb
    <2> HIDE DEF u
    <2>3. v \in Deployments /\ v.owner = d.owner
      BY <1>1, <2>1 DEF Deployments
    <2> HIDE DEF v
    <2> QED BY <1>3, <2>2, <2>3
  <1>11. ASSUME NEW replicas \in 0..MaxReplicas, Scale(n, replicas) PROVE StaleButSound'
    <2> DEFINE v == [d EXCEPT !.replicas = replicas]
    <2>1. v \in Deployments /\ v.owner = d.owner
      BY <1>1 DEF Deployments
    <2>2. deploy' = Put(deploy, n, v) /\ UNCHANGED <<workload, service, rec>>
      BY <1>11 DEF Scale, Write, Disturb
    <2> HIDE DEF v
    <2> QED BY <1>3, <2>1, <2>2
  <1>12. ASSUME DeleteDeployment(n) \/ CollectDeployment(n) PROVE StaleButSound'
    <2>1. deploy' = Put(deploy, n, NoDeployment) /\ UNCHANGED <<workload, service, rec>>
      BY <1>12 DEF DeleteDeployment, CollectDeployment, Write, Disturb
    <2>2. NoDeployment \in Deployments /\ NoDeployment.owner = 0
      BY RecordTypes DEF NoDeployment
    <2> QED BY <1>3, <2>1, <2>2
  <1>13. ASSUME DeleteService(n) \/ CollectService(n) PROVE StaleButSound'
    <2>1. service' = Put(service, n, NoService) /\ UNCHANGED <<workload, deploy, rec>>
      BY <1>13 DEF DeleteService, CollectService, Write, Disturb
    <2> QED BY <1>4, <2>1
  <1> QED BY <1>5, <1>6, <1>7, <1>8, <1>9, <1>10, <1>11, <1>12, <1>13
          DEF Environment, Collect

\* The Reconcile call itself: a write of the workload passes the version
\* check and so starts from what is stored; a write of a child either takes
\* it away or belongs to the worker's incarnation.
LEMMA StaleReconcile ==
    ASSUME TypeOK, TypeOK', StaleButSound, Reconcile
    PROVE  StaleButSound'
  <1> DEFINE n == rec.name
  <1>1. /\ workload \in Views(Workloads) /\ deploy \in Views(Deployments)
        /\ service \in Views(Services) /\ rec.work \in Workloads
    BY TypeViews DEF Recs
  <1>2. /\ \A m \in Names : /\ WorkloadViewOK(workload[m])
                            /\ Stored(deploy[m]).owner <= Cached(workload[m]).uid
                            /\ Stored(service[m]).owner <= Cached(workload[m]).uid
                            /\ 0 <= Cached(workload[m]).uid
    BY NatFields DEF StaleButSound, ChildrenOK
  <1>3. Self = n /\ (rec.step # "idle" => n \in Names)
    BY TypeViews DEF Self
  <1>4. rec.step # "idle" =>
           /\ rec.work.uid <= Cached(workload[n]).uid
           /\ rec.work.present
           /\ rec.work.deleting <=> rec.step \in CleanupSteps
           /\ rec.work.finalizer <=> rec.step # "addFinalizer"
    BY DEF StaleButSound, SnapshotOK, Self
  <1>5. rec'.step = "idle" /\ UNCHANGED <<workload, deploy, service>> => StaleButSound'
    BY <1>2, Ends
  <1>6. (Done \/ Requeued) => rec'.step = "idle"
    BY DEF Done, Requeued, Idle
  \* Writes of the workload.
  <1>7. ASSUME NEW v \in Workloads, rec.step # "idle", SameVersion,
               workload' = Put(workload, n, v), UNCHANGED <<deploy, service>>,
               rec'.step = "idle", Follows(v, rec.work),
               Managed(rec.work) => v.present /\ v.finalizer /\ v.uid = rec.work.uid
        PROVE  StaleButSound'
    <2>1. /\ n \in Names /\ Len(workload[n]) = 1
          /\ Stored(workload[n]) = rec.work /\ Cached(workload[n]) = rec.work
      BY <1>3, <1>7, SnapshotIsStored
    <2>2. /\ \A m \in Names : m # n => workload'[m] = workload[m]
          /\ \A m \in Names : Cached(workload'[m]) = Cached(workload[m])
          /\ workload'[n] = Append(workload[n], v)
      <3>1. workload'[n] = Append(workload[n], v)
        BY <1>1, <1>7, <2>1 DEF Put, Views
      <3>2. /\ \A m \in Names : m # n => workload'[m] = workload[m]
            /\ Cached(workload'[n]) = Cached(workload[n])
        BY <1>1, <1>7, <2>1, PutFacts
      <3> QED BY <3>1, <3>2
    <2>3. \A i \in 1..Len(workload[n]) : workload[n][i] = rec.work
      BY <2>1 DEF Cached
    <2>4. WorkloadViewOK(Append(workload[n], v))
      <3>1. workload[n] \in Seq(Workloads) \ {<<>>}
        BY <1>1, <2>1 DEF Views
      <3> QED BY <1>2, <1>7, <2>1, <2>3, <3>1, AppendViewOK
    <2> QED BY <1>2, <1>7, <2>2, <2>4, Ends
  <1>8. rec.work.rv \in Nat /\ rec.work.uid \in Nat /\ rec.work.rv + 1 > rec.work.rv
    BY <1>1 DEF Workloads
  <1>9. ASSUME NEW o, RemoveFinalizer(o) PROVE StaleButSound'
    <2> DEFINE v == WithoutFinalizer(rec.work)
    <2>1. /\ rec.step = "removeFinalizer" /\ SameVersion /\ workload' = Put(workload, n, v)
          /\ UNCHANGED <<deploy, service>> /\ rec'.step = "idle"
      BY <1>3, <1>6, <1>9 DEF RemoveFinalizer
    <2>2. v \in Workloads
      BY <1>1, RecordTypes
    <2>3. rec.work.deleting /\ rec.work.present
      BY <1>4, <2>1 DEF CleanupSteps
    <2>4. Follows(v, rec.work)
      <3>1. CASE rec.work.hold
        <4>1. v = [rec.work EXCEPT !.finalizer = FALSE, !.rv = @ + 1]
          BY <3>1 DEF WithoutFinalizer
        <4>2. v.rv = rec.work.rv + 1 /\ v.uid = rec.work.uid /\ v.deleting = rec.work.deleting
          BY <1>1, <4>1 DEF Workloads
        <4> HIDE DEF v
        <4> QED BY <1>8, <2>3, <4>2 DEF Follows
      <3>2. CASE ~rec.work.hold
        <4>1. v.rv = rec.work.rv + 1 /\ v.uid = rec.work.uid /\ ~v.present
          BY <3>2 DEF WithoutFinalizer, Tombstone
        <4> HIDE DEF v
        <4> QED BY <1>8, <4>1 DEF Follows
      <3> QED BY <3>1, <3>2
    <2> HIDE DEF v
    <2> QED BY <1>7, <2>1, <2>2, <2>3, <2>4 DEF Managed
  <1>10. ASSUME NEW o, AddFinalizer(o) PROVE StaleButSound'
    <2> DEFINE v == [rec.work EXCEPT !.finalizer = TRUE, !.rv = @ + 1]
    <2>1. /\ rec.step = "addFinalizer" /\ SameVersion /\ workload' = Put(workload, n, v)
          /\ UNCHANGED <<deploy, service>> /\ rec'.step = "idle"
      BY <1>3, <1>6, <1>10 DEF AddFinalizer
    <2>2. v \in Workloads
      BY <1>1, VersionTypes
    <2>3. /\ v.rv = rec.work.rv + 1 /\ v.uid = rec.work.uid /\ v.deleting = rec.work.deleting
          /\ v.present = rec.work.present /\ v.finalizer
      BY <1>1 DEF Workloads
    <2> HIDE DEF v
    <2>4. Follows(v, rec.work)
      BY <1>4, <1>8, <2>1, <2>3 DEF Follows
    <2> QED BY <1>4, <1>7, <2>1, <2>2, <2>3, <2>4
  <1>11. ASSUME NEW o, updateStatus(o) PROVE StaleButSound'
    <2>1. /\ rec.step = "status" /\ SameVersion
          /\ UNCHANGED <<deploy, service>> /\ rec'.step = "idle"
      BY <1>6, <1>11 DEF updateStatus
    <2>2. CASE rec.goal = rec.work.status
      BY <1>5, <1>11, <2>1, <2>2 DEF updateStatus
    <2>3. CASE rec.goal # rec.work.status
      <3> DEFINE v == [rec.work EXCEPT !.status = rec.goal, !.rv = @ + 1]
      <3>1. rec.goal \in Statuses
        BY TypeViews DEF Recs
      <3>2. v \in Workloads
        BY <1>1, <3>1, VersionTypes
      <3>3. workload' = Put(workload, n, v)
        BY <1>3, <1>11, <2>3 DEF updateStatus
      <3>4. /\ v.rv = rec.work.rv + 1 /\ v.uid = rec.work.uid /\ v.deleting = rec.work.deleting
            /\ v.present = rec.work.present /\ v.finalizer = rec.work.finalizer
        BY <1>1 DEF Workloads
      <3> HIDE DEF v
      <3>5. Follows(v, rec.work)
        BY <1>4, <1>8, <2>1, <3>4 DEF Follows
      <3> QED BY <1>4, <1>7, <2>1, <3>2, <3>3, <3>4, <3>5
    <2> QED BY <2>2, <2>3
  \* Deletes of the cleanup.
  <1>12. ASSUME NEW o, deleteOwnedDeployment(o) PROVE StaleButSound'
    <2>1. /\ rec.step = "deleteDeployment" /\ UNCHANGED <<workload, service>> /\ n \in Names
      BY <1>3, <1>12 DEF deleteOwnedDeployment
    <2>2. \A m \in Names : Stored(deploy'[m]).owner \in {0, Stored(deploy[m]).owner}
      <3>1. NoDeployment \in Deployments /\ NoDeployment.owner = 0
        BY RecordTypes DEF NoDeployment
      <3>2. deploy' = Put(deploy, n, NoDeployment) \/ deploy' = deploy
        BY <1>3, <1>12 DEF deleteOwnedDeployment
      <3> QED BY <1>1, <2>1, <3>1, <3>2, PutFacts
    <2>3. CASE rec'.step = "idle"
      BY <1>2, <2>1, <2>2, <2>3, Ends
    <2>4. CASE Goto("deleteService")
      <3>1. rec'.step = "deleteService" /\ rec'.name = rec.name /\ rec'.work = rec.work
        BY <2>4, TypeViews DEF Goto, Recs
      <3> QED BY <2>1, <2>2, <3>1, GoesOn DEF CleanupSteps
    <2> QED BY <1>6, <1>12, <2>3, <2>4 DEF deleteOwnedDeployment
  <1>13. ASSUME NEW o, deleteOwnedService(o) PROVE StaleButSound'
    <2>1. /\ rec.step = "deleteService" /\ UNCHANGED <<workload, deploy>> /\ n \in Names
      BY <1>3, <1>13 DEF deleteOwnedService
    <2>2. \A m \in Names : Stored(service'[m]).owner \in {0, Stored(service[m]).owner}
      <3>1. NoService \in Services /\ NoService.owner = 0
        BY RecordTypes DEF NoService
      <3>2. service' = Put(service, n, NoService) \/ service' = service
        BY <1>3, <1>13 DEF deleteOwnedService
      <3> QED BY <1>1, <2>1, <3>1, <3>2, PutFacts
    <2>3. CASE rec'.step = "idle"
      BY <1>2, <2>1, <2>2, <2>3, Ends
    <2>4. CASE Goto("removeFinalizer")
      <3>1. rec'.step = "removeFinalizer" /\ rec'.name = rec.name /\ rec'.work = rec.work
        BY <2>4, TypeViews DEF Goto, Recs
      <3> QED BY <2>1, <2>2, <3>1, GoesOn DEF CleanupSteps
    <2> QED BY <1>6, <1>13, <2>3, <2>4 DEF deleteOwnedService
  \* Creates, and the steps that write nothing.
  <1>14. \A status : ThenStatus(status) =>
            rec'.step = "status" /\ rec'.name = rec.name /\ rec'.work = rec.work
    BY TypeViews DEF ThenStatus, Recs
  <1>15. ASSUME NEW o, CreateDeployment(o) PROVE StaleButSound'
    <2> DEFINE b == buildInferenceDeployment(rec.work)
    <2>1. b \in Deployments /\ b.owner = rec.work.uid
      BY <1>1, RecordTypes DEF buildInferenceDeployment
    <2>2. /\ rec.step = "deployment" /\ UNCHANGED <<workload, service>> /\ n \in Names
          /\ deploy' = deploy \/ deploy' = Put(deploy, n, b)
          /\ rec'.step = "status" /\ rec'.name = rec.name /\ rec'.work = rec.work
      BY <1>3, <1>14, <1>15 DEF CreateDeployment
    <2> HIDE DEF b
    <2>3. \A m \in Names : /\ m # n => Stored(deploy'[m]).owner = Stored(deploy[m]).owner
                           /\ Stored(deploy'[n]).owner \in {rec.work.uid, Stored(deploy[n]).owner}
      BY <1>1, <2>1, <2>2, PutFacts
    <2> QED BY <2>2, <2>3, GoesOn DEF CleanupSteps
  <1>16. ASSUME NEW o, ReconcileService(o) PROVE StaleButSound'
    <2> DEFINE b == buildInferenceService(rec.work)
    <2>1. b \in Services /\ b.owner = rec.work.uid
      BY <1>1, RecordTypes DEF buildInferenceService
    <2>2. /\ rec.step = "service" /\ UNCHANGED <<workload, deploy>> /\ n \in Names
          /\ service' = service \/ service' = Put(service, n, b)
      BY <1>3, <1>16 DEF ReconcileService
    <2> HIDE DEF b
    <2>3. \A m \in Names : /\ m # n => Stored(service'[m]).owner = Stored(service[m]).owner
                           /\ Stored(service'[n]).owner \in {rec.work.uid, Stored(service[n]).owner}
      BY <1>1, <2>1, <2>2, PutFacts
    <2>4. CASE Done
      <3>1. rec'.step = "idle"
        BY <1>6, <2>4
      <3>2. \A m \in Names : Stored(service'[m]).owner <= Cached(workload[m]).uid
        BY <1>2, <1>4, <2>2, <2>3
      <3> QED BY <1>2, <2>2, <3>1, <3>2, Ends
    <2>5. CASE \E status : ThenStatus(status)
      <3>1. rec'.step = "status" /\ rec'.name = rec.name /\ rec'.work = rec.work
        BY <1>14, <2>5
      <3> QED BY <2>2, <2>3, <3>1, GoesOn DEF CleanupSteps
    <2> QED BY <1>16, <2>4, <2>5 DEF ReconcileService, ReportStatus
  <1>17. CASE FoundDeployment
    <2>1. /\ rec.step = "deployment" /\ UNCHANGED <<workload, deploy, service>>
          /\ rec'.step = "service" /\ rec'.name = rec.name /\ rec'.work = rec.work
      BY <1>17, TypeViews DEF FoundDeployment, objects, Recs
    <2> QED BY <2>1, GoesOn DEF CleanupSteps
  <1>18. CASE DeploymentAlreadyExists
    <2>1. /\ rec.step = "deployment" /\ UNCHANGED <<workload, deploy, service>>
          /\ rec'.step = "status" /\ rec'.name = rec.name /\ rec'.work = rec.work
      BY <1>14, <1>18 DEF DeploymentAlreadyExists, objects
    <2> QED BY <2>1, GoesOn DEF CleanupSteps
  <1>19. CASE Conflict \/ CallFails
    BY <1>5, <1>6, <1>19 DEF Conflict, CallFails, objects
  <1> QED BY <1>9, <1>10, <1>11, <1>12, <1>13, <1>15, <1>16, <1>17, <1>18, <1>19
          DEF Reconcile

\* Every step keeps the invariant.
LEMMA StaleNext == TypeOK /\ TypeOK' /\ StaleButSound /\ [Next]_vars => StaleButSound'
  <1>1. ASSUME StaleButSound, UNCHANGED vars PROVE StaleButSound'
    BY <1>1 DEF vars, StaleButSound, SnapshotOK, CleanupOK, ChildrenOK,
                CreatesOnlyForLiveOwner, Self
  <1> QED BY <1>1, StaleFetch, StaleReconcile, StaleWatch, StaleEnvironment DEF Next

\* However stale the operator's caches, whatever fails and whenever it
\* restarts, what it knows is a past state of what is stored.
THEOREM KnowledgeIsSound == Spec => []StaleButSound
  <1>1. Init => StaleButSound
    BY StaleInit
  <1> QED BY <1>1, StaleNext, TypeCorrect, PTL DEF Spec

\* Reconcile creates Deployments and Services only for an incarnation that
\* the API server still has and that carries the operator's finalizer.
THEOREM CreatesSafe == Spec => []CreatesOnlyForLiveOwner
  <1>1. StaleButSound => CreatesOnlyForLiveOwner
    BY DEF StaleButSound
  <1> QED BY <1>1, KnowledgeIsSound, PTL

-----------------------------------------------------------------------------
(* Action properties.                                                      *)

\* Only the operator's own steps and its restarts touch the worker.
LEMMA OthersLeaveWorker ==
    ASSUME \/ \E n \in Names : Deliver(n) \/ Relist(n) \/ Environment(n) \/ Collect(n)
           \/ Resync \/ UNCHANGED vars
    PROVE  rec' = rec
  <1>1. ASSUME NEW n \in Names, Deliver(n) \/ Relist(n) PROVE rec' = rec
    BY <1>1
    DEF Deliver, Relist, DeliverWorkload, DeliverDeployment, DeliverService,
        RelistWorkload, RelistDeployment, RelistService, Skipped
  <1>2. ASSUME NEW n \in Names, Environment(n) PROVE rec' = rec
    BY <1>2
    DEF Environment, UserCreate, UserEdit, UserDelete, CreateForeign, RolloutProgress,
        Scale, DeleteDeployment, DeleteService, Disturb
  <1>3. ASSUME NEW n \in Names, Collect(n) PROVE rec' = rec
    BY <1>3 DEF Collect, CollectDeployment, CollectService, ReleaseHold
  <1> QED BY <1>1, <1>2, <1>3 DEF Resync, vars

\* One step under the invariant deletes no child of a living workload.
LEMMA SparesStep ==
    ASSUME TypeOK, StaleButSound, [Next]_vars, NEW n \in Names,
           rec' # rec,
           Stored(workload[n]).present, ~Stored(workload[n]).deleting
    PROVE  /\ ~(/\ Stored(deploy[n]).present /\ ~Stored(deploy'[n]).present
                /\ Stored(deploy[n]).owner = Stored(workload[n]).uid)
           /\ ~(/\ Stored(service[n]).present /\ ~Stored(service'[n]).present
                /\ Stored(service[n]).owner = Stored(workload[n]).uid)
  <1> DEFINE w == Stored(workload[n])
             Goal == /\ ~(/\ Stored(deploy[n]).present /\ ~Stored(deploy'[n]).present
                          /\ Stored(deploy[n]).owner = w.uid)
                     /\ ~(/\ Stored(service[n]).present /\ ~Stored(service'[n]).present
                          /\ Stored(service[n]).owner = w.uid)
  <1>1. /\ workload \in Views(Workloads) /\ deploy \in Views(Deployments)
        /\ service \in Views(Services) /\ rec.work \in Workloads
        /\ (rec.step # "idle" => rec.name \in Names)
    BY TypeViews DEF Recs
  <1>2. (Stored(deploy'[n]) = Stored(deploy[n]) /\ Stored(service'[n]) = Stored(service[n]))
           => Goal
    OBVIOUS
  <1>3. ASSUME rec.step \in CleanupSteps, rec.name = n
        PROVE  Stored(deploy[n]).owner # w.uid /\ Stored(service[n]).owner # w.uid
    <2>1. /\ Stored(deploy[n]).owner <= rec.work.uid
          /\ Stored(service[n]).owner <= rec.work.uid
          /\ w.uid # rec.work.uid
      BY <1>3 DEF StaleButSound, CleanupOK, Self
    <2>2. rec.work.uid <= w.uid
      <3>1. rec.work.uid <= Cached(workload[n]).uid
        BY <1>3 DEF StaleButSound, SnapshotOK, Self, CleanupSteps
      <3> QED BY <3>1, CachedBeforeStored, NatFields
    <2> QED BY <2>1, <2>2, NatFields
  <1>4. ASSUME NEW o, deleteOwnedDeployment(o) PROVE Goal
    <2>1. rec.step = "deleteDeployment" /\ rec.name \in Names /\ service' = service
          /\ (deploy' = Put(deploy, rec.name, NoDeployment) \/ deploy' = deploy)
      BY <1>1, <1>4 DEF deleteOwnedDeployment, Self
    <2>2. CASE rec.name = n
      BY <1>3, <2>1, <2>2 DEF CleanupSteps
    <2>3. CASE rec.name # n
      BY <1>1, <2>1, <2>3, PutFacts, RecordTypes
    <2> QED BY <2>2, <2>3
  <1>5. ASSUME NEW o, deleteOwnedService(o) PROVE Goal
    <2>1. rec.step = "deleteService" /\ rec.name \in Names /\ deploy' = deploy
          /\ (service' = Put(service, rec.name, NoService) \/ service' = service)
      BY <1>1, <1>5 DEF deleteOwnedService, Self
    <2>2. CASE rec.name = n
      BY <1>3, <2>1, <2>2 DEF CleanupSteps
    <2>3. CASE rec.name # n
      BY <1>1, <2>1, <2>3, PutFacts, RecordTypes
    <2> QED BY <2>2, <2>3
  <1>6. ASSUME NEW o, CreateDeployment(o) PROVE Goal
    <2> DEFINE b == buildInferenceDeployment(rec.work)
    <2>1. b \in Deployments /\ b.present
      BY <1>1, RecordTypes DEF buildInferenceDeployment
    <2>2. /\ rec.name \in Names /\ service' = service
          /\ deploy' = deploy \/ deploy' = Put(deploy, rec.name, b)
      BY <1>1, <1>6 DEF CreateDeployment, Self
    <2> HIDE DEF b
    <2> QED BY <1>1, <2>1, <2>2, PutFacts
  <1>7. ASSUME NEW o, ReconcileService(o) PROVE Goal
    <2> DEFINE b == buildInferenceService(rec.work)
    <2>1. b \in Services /\ b.present
      BY <1>1, RecordTypes DEF buildInferenceService
    <2>2. /\ rec.name \in Names /\ deploy' = deploy
          /\ service' = service \/ service' = Put(service, rec.name, b)
      BY <1>1, <1>7 DEF ReconcileService, Self
    <2> HIDE DEF b
    <2> QED BY <1>1, <2>1, <2>2, PutFacts
  <1>8. ASSUME NEW o, RemoveFinalizer(o) \/ AddFinalizer(o) \/ updateStatus(o) PROVE Goal
    BY <1>2, <1>8 DEF RemoveFinalizer, AddFinalizer, updateStatus
  <1>9. CASE FoundDeployment \/ DeploymentAlreadyExists \/ Conflict \/ CallFails
    BY <1>2, <1>9 DEF FoundDeployment, DeploymentAlreadyExists, Conflict, CallFails, objects
  <1>10. ASSUME NEW m \in Names, Fetch(m) PROVE Goal
    BY <1>2, <1>10
    DEF Fetch, FetchNothing, FetchDeleting, FetchNew, FetchManaged, Take, objects
  <1>11. CASE Crash
    <2>1. /\ deploy'[n] = <<Stored(deploy[n])>> /\ service'[n] = <<Stored(service[n])>>
      BY <1>1, <1>11, LatestFacts DEF Crash
    <2> QED BY <1>2, <2>1, UpToDate
  <1>12. ASSUME \/ \E m \in Names : Deliver(m) \/ Relist(m) \/ Environment(m) \/ Collect(m)
                \/ Resync \/ UNCHANGED vars
         PROVE  rec' = rec
    BY <1>12, OthersLeaveWorker
  <1> QED BY <1>4, <1>5, <1>6, <1>7, <1>8, <1>9, <1>10, <1>11, <1>12 DEF Next, Reconcile

\* The cleanup of a deleted workload never takes a child of its successor.
THEOREM CleanupSafe == Spec => CleanupSparesTheLiving
  <1>1. TypeOK /\ StaleButSound /\ [Next]_vars =>
          [\A n \in Names :
              LET w == Stored(workload[n])
                  Spared(old, new) ==
                      ~(/\ old.present /\ ~new.present /\ rec' # rec
                        /\ w.present /\ ~w.deleting /\ old.owner = w.uid)
              IN  /\ Spared(Stored(deploy[n]), Stored(deploy'[n]))
                  /\ Spared(Stored(service[n]), Stored(service'[n]))]_vars
    BY SparesStep
  <1> QED BY <1>1, TypeCorrect, KnowledgeIsSound, PTL DEF Spec, CleanupSparesTheLiving

\* What an update by the operator leaves alone.
Keeps(w, v) ==
    /\ v.uid = w.uid
    /\ v.present => v.spec = w.spec /\ v.deleting = w.deleting /\ v.hold = w.hold
    /\ ~v.present => w.deleting /\ ~w.hold

\* One step of the operator under the invariant keeps others' writes.
LEMMA KeepsStep ==
    ASSUME TypeOK, StaleButSound, [Next]_vars, NEW n \in Names, rec' # rec,
           Stored(workload'[n]) # Stored(workload[n])
    PROVE  Keeps(Stored(workload[n]), Stored(workload'[n]))
  <1> DEFINE Goal == Keeps(Stored(workload[n]), Stored(workload'[n]))
  <1>1. /\ workload \in Views(Workloads) /\ rec.work \in Workloads
        /\ (rec.step # "idle" => rec.name \in Names)
    BY TypeViews DEF Recs
  <1>2. ASSUME NEW v \in Workloads, rec.step # "idle", SameVersion,
               workload' = Put(workload, rec.name, v), Keeps(rec.work, v)
        PROVE  Goal
    <2>1. rec.name \in Names /\ Stored(workload[rec.name]) = rec.work
      BY <1>2, SnapshotIsStored DEF Self
    <2>2. /\ Stored(workload'[rec.name]) = v
          /\ \A m \in Names : m # rec.name => workload'[m] = workload[m]
      BY <1>1, <1>2, <2>1, PutFacts
    <2>3. n = rec.name
      BY <2>2
    <2> QED BY <1>2, <2>1, <2>2, <2>3
  <1>3. ASSUME NEW o, RemoveFinalizer(o) PROVE Goal
    <2> DEFINE v == WithoutFinalizer(rec.work)
    <2>1. rec.step = "removeFinalizer" /\ SameVersion /\ workload' = Put(workload, rec.name, v)
      BY <1>3 DEF RemoveFinalizer, Self
    <2>2. v \in Workloads
      BY <1>1, RecordTypes
    <2>3. rec.work.deleting /\ rec.work.present
      BY <2>1 DEF StaleButSound, SnapshotOK, CleanupSteps
    <2>4. CASE rec.work.hold
      <3>1. v = [rec.work EXCEPT !.finalizer = FALSE, !.rv = @ + 1]
        BY <2>4 DEF WithoutFinalizer
      <3>2. /\ v.uid = rec.work.uid /\ v.spec = rec.work.spec /\ v.hold = rec.work.hold
            /\ v.deleting = rec.work.deleting /\ v.present = rec.work.present
        BY <1>1, <3>1 DEF Workloads
      <3> HIDE DEF v
      <3>3. Keeps(rec.work, v)
        BY <2>3, <3>2 DEF Keeps
      <3> QED BY <1>2, <2>1, <2>2, <3>3
    <2>5. CASE ~rec.work.hold
      <3>1. v.uid = rec.work.uid /\ ~v.present
        BY <2>5 DEF WithoutFinalizer, Tombstone
      <3> HIDE DEF v
      <3>2. Keeps(rec.work, v)
        BY <2>3, <2>5, <3>1 DEF Keeps
      <3> QED BY <1>2, <2>1, <2>2, <3>2
    <2> QED BY <2>4, <2>5
  <1>4. ASSUME NEW o, AddFinalizer(o) PROVE Goal
    <2> DEFINE v == [rec.work EXCEPT !.finalizer = TRUE, !.rv = @ + 1]
    <2>1. rec.step = "addFinalizer" /\ SameVersion /\ workload' = Put(workload, rec.name, v)
      BY <1>4 DEF AddFinalizer, Self
    <2>2. v \in Workloads
      BY <1>1, VersionTypes
    <2>3. /\ v.uid = rec.work.uid /\ v.spec = rec.work.spec /\ v.hold = rec.work.hold
          /\ v.deleting = rec.work.deleting /\ v.present = rec.work.present
      BY <1>1 DEF Workloads
    <2>4. rec.work.present
      BY <2>1 DEF StaleButSound, SnapshotOK
    <2> HIDE DEF v
    <2>5. Keeps(rec.work, v)
      BY <2>3, <2>4 DEF Keeps
    <2> QED BY <1>2, <2>1, <2>2, <2>5
  <1>5. ASSUME NEW o, updateStatus(o) PROVE Goal
    <2> DEFINE v == [rec.work EXCEPT !.status = rec.goal, !.rv = @ + 1]
    <2>1. rec.step = "status" /\ SameVersion /\ workload' = Put(workload, rec.name, v)
      BY <1>5 DEF updateStatus, Self
    <2>2. v \in Workloads
      BY <1>1, VersionTypes, TypeViews DEF Recs
    <2>3. /\ v.uid = rec.work.uid /\ v.spec = rec.work.spec /\ v.hold = rec.work.hold
          /\ v.deleting = rec.work.deleting /\ v.present = rec.work.present
      BY <1>1 DEF Workloads
    <2>4. rec.work.present
      BY <2>1 DEF StaleButSound, SnapshotOK
    <2> HIDE DEF v
    <2>5. Keeps(rec.work, v)
      BY <2>3, <2>4 DEF Keeps
    <2> QED BY <1>2, <2>1, <2>2, <2>5
  <1>6. ASSUME NEW o, \/ deleteOwnedDeployment(o) \/ deleteOwnedService(o)
                      \/ CreateDeployment(o) \/ ReconcileService(o)
        PROVE  Goal
    BY <1>6 DEF deleteOwnedDeployment, deleteOwnedService, CreateDeployment, ReconcileService
  <1>7. CASE FoundDeployment \/ DeploymentAlreadyExists \/ Conflict \/ CallFails
    BY <1>7 DEF FoundDeployment, DeploymentAlreadyExists, Conflict, CallFails, objects
  <1>8. ASSUME NEW m \in Names, Fetch(m) PROVE Goal
    BY <1>8 DEF Fetch, FetchNothing, FetchDeleting, FetchNew, FetchManaged, Take, objects
  <1>9. CASE Crash
    <2>1. workload'[n] = <<Stored(workload[n])>>
      BY <1>1, <1>9, LatestFacts DEF Crash
    <2> QED BY <2>1, UpToDate
  <1> QED BY <1>3, <1>4, <1>5, <1>6, <1>7, <1>8, <1>9, OthersLeaveWorker DEF Next, Reconcile

\* The operator's whole-object updates never undo somebody else's write.
THEOREM UpdatesSafe == Spec => OperatorKeepsOthersWrites
  <1>1. TypeOK /\ StaleButSound /\ [Next]_vars =>
          [\A n \in Names :
              LET w == Stored(workload[n])
                  v == Stored(workload'[n])
              IN  (rec' # rec /\ v # w) =>
                     /\ v.uid = w.uid
                     /\ v.present => /\ v.spec = w.spec
                                     /\ v.deleting = w.deleting
                                     /\ v.hold = w.hold
                     /\ ~v.present => w.deleting /\ ~w.hold]_vars
    BY KeepsStep DEF Keeps
  <1> QED BY <1>1, TypeCorrect, KnowledgeIsSound, PTL DEF Spec, OperatorKeepsOthersWrites

-----------------------------------------------------------------------------
(* Nothing is forgotten.                                                   *)

ChildOK(c) == c.present <=> c.owner # 0

\* Somebody wrote to the API server a version of the GPUWorkload n, or a child
\* of that name in place of a version that is owned, or an owned child.
Wrote(n) ==
    \/ \E w \in Workloads : /\ VersionOK(w)
                            /\ workload' = Put(workload, n, w)
                            /\ UNCHANGED <<deploy, service>>
    \/ \E d \in Deployments : /\ ChildOK(d) /\ Owned(Stored(deploy[n]), d)
                              /\ deploy' = Put(deploy, n, d)
                              /\ UNCHANGED <<workload, service>>
    \/ \E s \in Services : /\ ChildOK(s) /\ Owned(Stored(service[n]), s)
                           /\ service' = Put(service, n, s)
                           /\ UNCHANGED <<workload, deploy>>

\* The ends of the views are in the condition EventsWake states for all of them.
LEMMA EndsWake ==
    ASSUME TypeOK, EventsWake, NEW n \in Names
    PROVE  /\ VersionOK(Stored(workload[n])) /\ VersionOK(Cached(workload[n]))
           /\ ChildOK(Stored(deploy[n])) /\ ChildOK(Stored(service[n]))
  <1>1. /\ Len(workload[n]) \in Nat \ {0} /\ Len(deploy[n]) \in Nat \ {0}
        /\ Len(service[n]) \in Nat \ {0}
    BY TypeViews, ViewMembers
  <1>2. \A k \in Nat \ {0} : 1 \in 1..k /\ k \in 1..k
    OBVIOUS
  <1>3. /\ 1 \in 1..Len(workload[n]) /\ Len(workload[n]) \in 1..Len(workload[n])
        /\ Len(deploy[n]) \in 1..Len(deploy[n]) /\ Len(service[n]) \in 1..Len(service[n])
    BY <1>1, <1>2, Zenon
  <1> QED BY <1>3, Zenon DEF EventsWake, EachWakes, ChildOK, Stored, Cached

\* A write keeps the events awaited and is one itself.
LEMMA PutWakes ==
    ASSUME NEW S, NEW view \in Views(S), NEW n \in Names, NEW c \in S,
           EachWakes(view[n]), ChildOK(c), Owned(Stored(view[n]), c)
    PROVE  EachWakes(Put(view, n, c)[n])
  <1> DEFINE p == Put(view, n, c)[n]
             k == Len(view[n])
  <1>1. /\ Len(p) = k + 1 /\ \A i \in 1..k : p[i] = view[n][i]
        /\ p[k + 1] = c /\ k \in Nat \ {0}
    BY PutFacts, ViewMembers
  <1>2. view[n][k] = Stored(view[n])
    BY DEF Stored
  <1> HIDE DEF p, k
  <1>3. ASSUME NEW i \in 1..Len(p) PROVE p[i].present <=> p[i].owner # 0
    <2>1. CASE i = k + 1
      BY <1>1, <2>1 DEF ChildOK
    <2>2. CASE i # k + 1
      BY <1>1, <2>2 DEF EachWakes, k
    <2> QED BY <2>1, <2>2
  <1>4. ASSUME NEW i \in 2..Len(p) PROVE Owned(p[i - 1], p[i])
    <2>1. CASE i = k + 1
      <3>1. i - 1 = k /\ k \in 1..k
        BY <1>1, <2>1
      <3> QED BY <1>1, <1>2, <2>1, <3>1
    <2>2. CASE i # k + 1
      <3>1. i \in 2..k /\ i - 1 \in 1..k /\ i \in 1..k
        BY <1>1, <2>2
      <3> QED BY <1>1, <3>1 DEF EachWakes, k
    <2> QED BY <2>1, <2>2
  <1> QED BY <1>3, <1>4 DEF EachWakes, p

\* So does dropping versions, one by one or all but the last.
LEMMA DropWakes ==
    ASSUME NEW S, NEW view \in Views(S), NEW n \in Names, EachWakes(view[n])
    PROVE  /\ Len(view[n]) > 1 => EachWakes(Delivered(view, n)[n])
           /\ EachWakes(<<Stored(view[n])>>)
  <1>1. Len(view[n]) \in Nat \ {0}
    BY ViewMembers
  <1>2. ASSUME Len(view[n]) > 1 PROVE EachWakes(Delivered(view, n)[n])
    <2> DEFINE t == Delivered(view, n)[n]
    <2>1. /\ Len(t) = Len(view[n]) - 1
          /\ \A i \in 1..(Len(view[n]) - 1) : t[i] = view[n][i + 1]
      BY <1>2, DeliveredFacts
    <2> HIDE DEF t
    <2>2. ASSUME NEW i \in 1..Len(t) PROVE t[i].present <=> t[i].owner # 0
      <3>1. i + 1 \in 1..Len(view[n]) /\ t[i] = view[n][i + 1]
        BY <1>1, <2>1
      <3> QED BY <3>1 DEF EachWakes
    <2>3. ASSUME NEW i \in 2..Len(t) PROVE Owned(t[i - 1], t[i])
      <3>1. /\ i + 1 \in 2..Len(view[n]) /\ t[i] = view[n][i + 1]
            /\ t[i - 1] = view[n][i] /\ (i + 1) - 1 = i
        BY <1>1, <2>1
      <3>2. Owned(view[n][(i + 1) - 1], view[n][i + 1])
        BY <3>1, Zenon DEF EachWakes
      <3> QED BY <3>1, <3>2
    <2> QED BY <2>2, <2>3 DEF EachWakes, t
  <1>3. EachWakes(<<Stored(view[n])>>)
    <2>1. Len(view[n]) \in 1..Len(view[n])
      BY <1>1
    <2>2. Stored(view[n]).present <=> Stored(view[n]).owner # 0
      BY <2>1 DEF Stored, EachWakes
    <2> QED BY <2>2 DEF EachWakes
  <1> QED BY <1>2, <1>3

\* After a write every event still wakes the operator, and one is on its way.
LEMMA WroteFacts ==
    ASSUME TypeOK, EventsWake, NEW n \in Names, Wrote(n)
    PROVE  /\ EventsWake' /\ ~Quiet(n)'
           /\ \A m \in Names \ {n} : UNCHANGED <<workload[m], deploy[m], service[m]>>
  <1>1. /\ workload \in Views(Workloads) /\ deploy \in Views(Deployments)
        /\ service \in Views(Services)
    BY TypeViews
  <1>2. ASSUME NEW w \in Workloads, VersionOK(w), workload' = Put(workload, n, w),
               UNCHANGED <<deploy, service>>
        PROVE  /\ EventsWake' /\ Len(workload'[n]) # 1
               /\ \A m \in Names \ {n} : workload'[m] = workload[m]
    <2>1. /\ \A m \in Names : m # n => workload'[m] = workload[m]
          /\ Len(workload'[n]) = Len(workload[n]) + 1
          /\ \A i \in 1..Len(workload[n]) : workload'[n][i] = workload[n][i]
          /\ workload'[n][Len(workload[n]) + 1] = w
          /\ Len(workload[n]) \in Nat \ {0}
      <3>1. Len(workload[n]) \in Nat \ {0}
        BY <1>1, ViewMembers
      <3>2. /\ \A m \in Names : m # n => Put(workload, n, w)[m] = workload[m]
            /\ Len(Put(workload, n, w)[n]) = Len(workload[n]) + 1
            /\ \A i \in 1..Len(workload[n]) : Put(workload, n, w)[n][i] = workload[n][i]
            /\ Put(workload, n, w)[n][Len(workload[n]) + 1] = w
        BY <1>1, PutFacts
      <3> QED BY <1>2, <3>1, <3>2
    <2>2. \A i \in 1..Len(workload'[n]) : VersionOK(workload'[n][i])
      BY <1>2, <2>1 DEF EventsWake
    <2>3. Len(workload'[n]) # 1
      BY <2>1
    <2>4. EventsWake'
      <3>1. ASSUME NEW m \in Names
            PROVE  /\ \A i \in 1..Len(workload'[m]) : VersionOK(workload'[m][i])
                   /\ EachWakes(deploy'[m]) /\ EachWakes(service'[m])
        <4>1. /\ \A i \in 1..Len(workload[m]) : VersionOK(workload[m][i])
              /\ EachWakes(deploy[m]) /\ EachWakes(service[m])
          BY DEF EventsWake
        <4>2. CASE m = n
          BY <1>2, <2>2, <4>1, <4>2
        <4>3. CASE m # n
          BY <1>2, <2>1, <4>1, <4>3
        <4> QED BY <4>2, <4>3
      <3> QED BY <3>1 DEF EventsWake
    <2> QED BY <2>1, <2>3, <2>4
  <1>3. ASSUME NEW d \in Deployments, ChildOK(d), Owned(Stored(deploy[n]), d),
               deploy' = Put(deploy, n, d), UNCHANGED <<workload, service>>
        PROVE  /\ EventsWake' /\ Len(deploy'[n]) # 1
               /\ \A m \in Names \ {n} : deploy'[m] = deploy[m]
    <2>1. /\ \A m \in Names : m # n => deploy'[m] = deploy[m]
          /\ Len(deploy'[n]) = Len(deploy[n]) + 1 /\ Len(deploy[n]) \in Nat \ {0}
      <3>1. Len(deploy[n]) \in Nat \ {0}
        BY <1>1, ViewMembers
      <3>2. /\ \A m \in Names : m # n => Put(deploy, n, d)[m] = deploy[m]
            /\ Len(Put(deploy, n, d)[n]) = Len(deploy[n]) + 1
        BY <1>1, PutFacts
      <3> QED BY <1>3, <3>1, <3>2
    <2>2. EachWakes(deploy'[n])
      BY <1>1, <1>3, PutWakes DEF EventsWake
    <2>3. Len(deploy'[n]) # 1
      BY <2>1
    <2>4. EventsWake'
      <3>1. ASSUME NEW m \in Names
            PROVE  /\ \A i \in 1..Len(workload'[m]) : VersionOK(workload'[m][i])
                   /\ EachWakes(deploy'[m]) /\ EachWakes(service'[m])
        <4>1. /\ \A i \in 1..Len(workload[m]) : VersionOK(workload[m][i])
              /\ EachWakes(deploy[m]) /\ EachWakes(service[m])
          BY DEF EventsWake
        <4>2. CASE m = n
          BY <1>3, <2>2, <4>1, <4>2
        <4>3. CASE m # n
          BY <1>3, <2>1, <4>1, <4>3
        <4> QED BY <4>2, <4>3
      <3> QED BY <3>1 DEF EventsWake
    <2> QED BY <2>1, <2>3, <2>4
  <1>4. ASSUME NEW s \in Services, ChildOK(s), Owned(Stored(service[n]), s),
               service' = Put(service, n, s), UNCHANGED <<workload, deploy>>
        PROVE  /\ EventsWake' /\ Len(service'[n]) # 1
               /\ \A m \in Names \ {n} : service'[m] = service[m]
    <2>1. /\ \A m \in Names : m # n => service'[m] = service[m]
          /\ Len(service'[n]) = Len(service[n]) + 1 /\ Len(service[n]) \in Nat \ {0}
      <3>1. Len(service[n]) \in Nat \ {0}
        BY <1>1, ViewMembers
      <3>2. /\ \A m \in Names : m # n => Put(service, n, s)[m] = service[m]
            /\ Len(Put(service, n, s)[n]) = Len(service[n]) + 1
        BY <1>1, PutFacts
      <3> QED BY <1>4, <3>1, <3>2
    <2>2. EachWakes(service'[n])
      BY <1>1, <1>4, PutWakes DEF EventsWake
    <2>3. Len(service'[n]) # 1
      BY <2>1
    <2>4. EventsWake'
      <3>1. ASSUME NEW m \in Names
            PROVE  /\ \A i \in 1..Len(workload'[m]) : VersionOK(workload'[m][i])
                   /\ EachWakes(deploy'[m]) /\ EachWakes(service'[m])
        <4>1. /\ \A i \in 1..Len(workload[m]) : VersionOK(workload[m][i])
              /\ EachWakes(deploy[m]) /\ EachWakes(service[m])
          BY DEF EventsWake
        <4>2. CASE m = n
          BY <1>4, <2>2, <4>1, <4>2
        <4>3. CASE m # n
          BY <1>4, <2>1, <4>1, <4>3
        <4> QED BY <4>2, <4>3
      <3> QED BY <3>1 DEF EventsWake
    <2> QED BY <2>1, <2>3, <2>4
  <1> QED BY <1>2, <1>3, <1>4 DEF Wrote, Quiet

\* The versions of a GPUWorkload that anybody makes of the stored or a read one.
LEMMA VersionsOK ==
    ASSUME NEW w \in Workloads, VersionOK(w)
    PROVE  /\ VersionOK(WithoutFinalizer(w))
           /\ VersionOK([w EXCEPT !.finalizer = TRUE, !.rv = @ + 1])
           /\ \A status \in Statuses : NamesPod(status) =>
                 VersionOK([w EXCEPT !.status = status, !.rv = @ + 1])
           /\ \A spec \in Specs :
                 /\ VersionOK([w EXCEPT !.spec = spec, !.rv = @ + 1])
                 /\ VersionOK([Tombstone(w.uid + 1, w.rv + 1) EXCEPT
                                  !.present = TRUE, !.spec = spec])
           /\ \A b \in BOOLEAN :
                 VersionOK([w EXCEPT !.deleting = TRUE, !.hold = b, !.rv = @ + 1])
           /\ VersionOK([w EXCEPT !.hold = FALSE, !.rv = @ + 1])
           /\ VersionOK(Tombstone(w.uid, w.rv + 1))
  <1>1. ASSUME NEW v, v.present = w.present, v.uid = w.uid, v.status = w.status
        PROVE  VersionOK(v)
    BY <1>1 DEF VersionOK
  <1>2. \A r : /\ VersionOK([w EXCEPT !.finalizer = TRUE, !.rv = r])
               /\ VersionOK([w EXCEPT !.finalizer = FALSE, !.rv = r])
               /\ VersionOK([w EXCEPT !.hold = FALSE, !.rv = r])
    BY <1>1 DEF Workloads
  <1>3. \A r, spec : VersionOK([w EXCEPT !.spec = spec, !.rv = r])
    BY <1>1 DEF Workloads
  <1>4. \A r, b : VersionOK([w EXCEPT !.deleting = TRUE, !.hold = b, !.rv = r])
    BY <1>1 DEF Workloads
  <1>5. \A r, status : NamesPod(status) => VersionOK([w EXCEPT !.status = status, !.rv = r])
    <2> TAKE r, status
    <2> HAVE NamesPod(status)
    <2> DEFINE v == [w EXCEPT !.status = status, !.rv = r]
    <2>1. v.present = w.present /\ v.uid = w.uid /\ v.status = status
      BY DEF Workloads
    <2> HIDE DEF v
    <2>2. VersionOK(v)
      BY <2>1 DEF VersionOK
    <2> QED BY <2>2 DEF v
  <1>6. NamesPod(NoStatus)
    BY DEF NamesPod, NoStatus
  <1>7. VersionOK(Tombstone(w.uid, w.rv + 1))
    BY <1>6 DEF VersionOK, Tombstone
  <1>8. \A spec : VersionOK([Tombstone(w.uid + 1, w.rv + 1) EXCEPT
                                !.present = TRUE, !.spec = spec])
    <2> TAKE spec
    <2> DEFINE t == Tombstone(w.uid + 1, w.rv + 1)
               v == [t EXCEPT !.present = TRUE, !.spec = spec]
    <2>1. v.uid = w.uid + 1 /\ v.status = NoStatus
      BY DEF Tombstone
    <2>2. w.uid \in Nat
      BY DEF Workloads
    <2> HIDE DEF v
    <2>3. VersionOK(v)
      BY <1>6, <2>1, <2>2 DEF VersionOK
    <2> QED BY <2>3 DEF v
  <1>9. VersionOK(WithoutFinalizer(w))
    BY <1>2, <1>7 DEF WithoutFinalizer
  <1> QED BY <1>2, <1>3, <1>4, <1>5, <1>7, <1>8, <1>9

\* Users, the Deployment controller and the garbage collector write like that,
\* unless they make a Deployment that nobody owns.
LEMMA EnvironmentWrote ==
    ASSUME TypeOK, EventsWake, "foreign" \notin Disturbances,
           NEW n \in Names, Environment(n) \/ Collect(n)
    PROVE  Wrote(n) /\ UNCHANGED <<queue, rec, faults>>
  <1> DEFINE w == Stored(workload[n])
             d == Stored(deploy[n])
             s == Stored(service[n])
  <1>1. w \in Workloads /\ d \in Deployments /\ s \in Services
    BY TypeViews, ViewMembers
  <1>2. VersionOK(w) /\ ChildOK(d) /\ ChildOK(s)
    BY EndsWake
  <1>3. ASSUME NEW v \in Workloads, VersionOK(v), workload' = Put(workload, n, v),
               UNCHANGED <<deploy, service>>
        PROVE  Wrote(n)
    BY <1>3, Zenon DEF Wrote
  <1>4. ASSUME NEW v \in Deployments, ChildOK(v), Owned(d, v), deploy' = Put(deploy, n, v),
               UNCHANGED <<workload, service>>
        PROVE  Wrote(n)
    BY <1>4, Zenon DEF Wrote
  <1>5. ASSUME s.present, service' = Put(service, n, NoService), UNCHANGED <<workload, deploy>>
        PROVE  Wrote(n)
    <2>1. ChildOK(NoService) /\ Owned(s, NoService)
      BY <1>2, <1>5 DEF ChildOK, Owned, NoService
    <2> QED BY <1>5, <2>1, RecordTypes, Zenon DEF Wrote
  <1>6. ASSUME d.present, deploy' = Put(deploy, n, NoDeployment), UNCHANGED <<workload, service>>
        PROVE  Wrote(n)
    <2>1. ChildOK(NoDeployment) /\ Owned(d, NoDeployment)
      BY <1>2, <1>6 DEF ChildOK, Owned, NoDeployment
    <2> HIDE DEF d
    <2> QED BY <1>4, <1>6, <2>1, RecordTypes
  <1>7. ASSUME NEW v \in Deployments, d.present, v.present = d.present, v.owner = d.owner,
               deploy' = Put(deploy, n, v), UNCHANGED <<workload, service>>
        PROVE  Wrote(n)
    <2>1. ChildOK(v) /\ Owned(d, v)
      BY <1>2, <1>7 DEF ChildOK, Owned
    <2> HIDE DEF d
    <2> QED BY <1>4, <1>7, <2>1
  <1> DEFINE Same == UNCHANGED <<queue, rec, faults>>
  <1>8. ASSUME NEW kind, Disturb(kind) PROVE Same
    BY <1>8 DEF Disturb
  <1>9. UNCHANGED <<queue, rec, budgets>> => Same
    BY DEF budgets
  <1>10. ASSUME NEW spec \in Specs, UserCreate(n, spec) PROVE Wrote(n) /\ Same
    <2> DEFINE v == [Tombstone(w.uid + 1, w.rv + 1) EXCEPT !.present = TRUE, !.spec = spec]
    <2>1. v \in Workloads /\ VersionOK(v)
      BY <1>1, <1>2, VersionTypes, VersionsOK
    <2>2. workload' = Put(workload, n, v) /\ UNCHANGED <<deploy, service>>
      BY <1>10 DEF UserCreate, Write
    <2>3. Same
      BY <1>9, <1>10 DEF UserCreate
    <2> HIDE DEF v
    <2> QED BY <1>3, <2>1, <2>2, <2>3
  <1>11. ASSUME NEW spec \in Specs, UserEdit(n, spec) PROVE Wrote(n) /\ Same
    <2> DEFINE v == [w EXCEPT !.spec = spec, !.rv = @ + 1]
    <2>1. v \in Workloads /\ VersionOK(v)
      BY <1>1, <1>2, VersionTypes, VersionsOK
    <2>2. workload' = Put(workload, n, v) /\ UNCHANGED <<deploy, service>>
      BY <1>11 DEF UserEdit, Write
    <2>3. Same
      BY <1>8, <1>11 DEF UserEdit
    <2> HIDE DEF v
    <2> QED BY <1>3, <2>1, <2>2, <2>3
  <1>12. ASSUME NEW spec \in Specs, CreateForeign(n, spec) PROVE FALSE
    BY <1>12 DEF CreateForeign, Disturb
  <1>13. ASSUME NEW foreground \in BOOLEAN, UserDelete(n, foreground) PROVE Wrote(n) /\ Same
    <2> DEFINE v == IF w.finalizer \/ foreground
                    THEN [w EXCEPT !.deleting = TRUE, !.hold = foreground, !.rv = @ + 1]
                    ELSE Tombstone(w.uid, w.rv + 1)
    <2>1. v \in Workloads /\ VersionOK(v)
      BY <1>1, <1>2, VersionTypes, VersionsOK
    <2>2. workload' = Put(workload, n, v) /\ UNCHANGED <<deploy, service>>
      BY <1>13 DEF UserDelete, Write
    <2>3. Same
      BY <1>9, <1>13 DEF UserDelete
    <2> HIDE DEF v
    <2> QED BY <1>3, <2>1, <2>2, <2>3
  <1>14. ASSUME NEW ready \in 0..MaxReplicas, NEW failure \in BOOLEAN,
                RolloutProgress(n, ready, failure)
         PROVE  Wrote(n) /\ Same
    <2> DEFINE unavailable == IF d.replicas > ready THEN d.replicas - ready ELSE 0
               v == [d EXCEPT !.ready = ready, !.unavailable = unavailable,
                              !.failure = failure]
    <2>1. unavailable \in 0..MaxReplicas
      BY <1>1, BoundsAssumption DEF Deployments
    <2>2. d.present /\ deploy' = Put(deploy, n, v) /\ UNCHANGED <<workload, service>>
      BY <1>14 DEF RolloutProgress, Write
    <2>3. Same
      BY <1>8, <1>14 DEF RolloutProgress
    <2> HIDE DEF unavailable
    <2>4. v \in Deployments /\ v.present = d.present /\ v.owner = d.owner
      BY <1>1, <2>1 DEF Deployments
    <2> HIDE DEF v, d
    <2> QED BY <1>7, <2>2, <2>3, <2>4
  <1>15. ASSUME NEW replicas \in 0..MaxReplicas, Scale(n, replicas) PROVE Wrote(n) /\ Same
    <2> DEFINE v == [d EXCEPT !.replicas = replicas]
    <2>1. d.present /\ deploy' = Put(deploy, n, v) /\ UNCHANGED <<workload, service>>
      BY <1>15 DEF Scale, Write
    <2>2. Same
      BY <1>8, <1>15 DEF Scale
    <2>3. v \in Deployments /\ v.present = d.present /\ v.owner = d.owner
      BY <1>1 DEF Deployments
    <2> HIDE DEF v, d
    <2> QED BY <1>7, <2>1, <2>2, <2>3
  <1>16. ASSUME DeleteDeployment(n) \/ CollectDeployment(n) PROVE Wrote(n) /\ Same
    <2>1. d.present /\ deploy' = Put(deploy, n, NoDeployment) /\ UNCHANGED <<workload, service>>
      BY <1>16 DEF DeleteDeployment, CollectDeployment, Collectable, Write
    <2>2. Same
      BY <1>8, <1>9, <1>16 DEF DeleteDeployment, CollectDeployment
    <2> QED BY <1>6, <2>1, <2>2
  <1>17. ASSUME DeleteService(n) \/ CollectService(n) PROVE Wrote(n) /\ Same
    <2>1. s.present /\ service' = Put(service, n, NoService) /\ UNCHANGED <<workload, deploy>>
      BY <1>17 DEF DeleteService, CollectService, Collectable, Write
    <2>2. Same
      BY <1>8, <1>9, <1>17 DEF DeleteService, CollectService
    <2> QED BY <1>5, <2>1, <2>2
  <1>18. ASSUME ReleaseHold(n) PROVE Wrote(n) /\ Same
    <2> DEFINE v == IF w.finalizer THEN [w EXCEPT !.hold = FALSE, !.rv = @ + 1]
                    ELSE Tombstone(w.uid, w.rv + 1)
    <2>1. v \in Workloads /\ VersionOK(v)
      BY <1>1, <1>2, VersionTypes, VersionsOK
    <2>2. workload' = Put(workload, n, v) /\ UNCHANGED <<deploy, service>>
      BY <1>18 DEF ReleaseHold, Write
    <2>3. Same
      BY <1>9, <1>18 DEF ReleaseHold
    <2> HIDE DEF v
    <2> QED BY <1>3, <2>1, <2>2, <2>3
  <1> HIDE DEF Same
  <1>19. Wrote(n) /\ Same
    BY <1>10, <1>11, <1>12, <1>13, <1>14, <1>15, <1>16, <1>17, <1>18 DEF Environment, Collect
  <1> QED BY <1>19 DEF Same

\* What an update makes of a status names the Deployment where it has one.
LEMMA GoalsOK ==
    /\ \A d : NamesPod(StatusOf(d)) /\ StatusOf(d).podName
    /\ \A d : StatusOf(d) # ReplicaFailure => StatusOf(d).phase \in {"Running", "Pending"}
    /\ NamesPod(Created)
    /\ \A why : NamesPod(CreationFailed(why))
  <1>1. \A d : StatusOf(d) \in {Running, ReplicaFailure, StartingUp, Waiting}
    BY DEF StatusOf
  <1>2. \A g \in {Running, ReplicaFailure, StartingUp, Waiting} : g.podName /\ NamesPod(g)
    BY DEF Running, ReplicaFailure, StartingUp, Waiting, NamesPod
  <1>3. \A g \in {Running, StartingUp, Waiting} : g.phase \in {"Running", "Pending"}
    BY DEF Running, StartingUp, Waiting
  <1>4. NamesPod(Created) /\ \A why : NamesPod(CreationFailed(why))
    BY DEF NamesPod, Created, CreationFailed
  <1> QED BY <1>1, <1>2, <1>3, <1>4

\* The ways a call goes on or ends.
LEMMA WorkerGoes ==
    ASSUME TypeOK, CallOK(rec), rec.step # "idle"
    PROVE  /\ Done => CallOK(rec)' /\ rec' = Idle /\ queue' = queue
           /\ Requeued => CallOK(rec)' /\ rec' = Idle /\ Self \in queue' /\ queue \subseteq queue'
           /\ \A step \in CleanupSteps :
                 Goto(step) /\ rec.step \in CleanupSteps =>
                    CallOK(rec)' /\ rec' = [rec EXCEPT !.step = step] /\ queue' = queue
           /\ \A goal \in Statuses :
                 /\ ThenStatus(goal) /\ NamesPod(goal)
                 /\ rec.step \in {"deployment", "service"}
                 => /\ CallOK(rec)' /\ queue' = queue
                    /\ rec' = [rec EXCEPT !.step = "status", !.goal = goal]
  <1>1. rec \in Recs
    BY TypeViews
  <1>2. CallOK(Idle)
    BY DEF CallOK, Idle
  <1>3. Done => CallOK(rec)' /\ rec' = Idle /\ queue' = queue
    BY <1>2 DEF Done
  <1>4. Requeued => CallOK(rec)' /\ rec' = Idle /\ Self \in queue' /\ queue \subseteq queue'
    BY <1>2 DEF Requeued
  <1>5. ASSUME NEW step \in CleanupSteps, Goto(step), rec.step \in CleanupSteps
        PROVE  CallOK(rec)' /\ rec' = [rec EXCEPT !.step = step] /\ queue' = queue
    <2>1. rec' = [rec EXCEPT !.step = step] /\ queue' = queue
      BY <1>5 DEF Goto
    <2>2. rec'.step = step /\ rec'.work = rec.work
      BY <1>1, <2>1 DEF Recs
    <2>3. step \notin {"idle", "addFinalizer", "status"}
      BY DEF CleanupSteps
    <2>4. CallOK(rec)'
      BY <1>5, <2>2, <2>3 DEF CallOK, CleanupSteps
    <2> QED BY <2>1, <2>4
  <1>6. ASSUME NEW goal \in Statuses, ThenStatus(goal), NamesPod(goal),
               rec.step \in {"deployment", "service"}
        PROVE  /\ CallOK(rec)' /\ queue' = queue
               /\ rec' = [rec EXCEPT !.step = "status", !.goal = goal]
    <2>1. rec' = [rec EXCEPT !.step = "status", !.goal = goal] /\ queue' = queue
      BY <1>6 DEF ThenStatus
    <2>2. rec'.step = "status" /\ rec'.work = rec.work /\ rec'.goal = goal
      BY <1>1, <2>1 DEF Recs
    <2>3. CallOK(rec)'
      BY <1>6, <2>2 DEF CallOK, CleanupSteps
    <2> QED BY <2>1, <2>3
  <1> QED BY <1>3, <1>4, <1>5, <1>6

\* What a step of a call writes, and how the call goes on.
GoesOnFor(n) ==
    /\ Wrote(n) \/ UNCHANGED objects
    /\ queue \subseteq queue'
    /\ CallOK(rec)'
    /\ rec' = Idle \/ rec'.name = n

LEMMA WorkerWrote ==
    ASSUME TypeOK, EventsWake, CallOK(rec), Reconcile
    PROVE  rec.step # "idle" /\ Self \in Names /\ GoesOnFor(Self)
  <1> DEFINE n == Self
             d == Stored(deploy[n])
             s == Stored(service[n])
             r == rec.work
             Unwritten == UNCHANGED objects
  <1>1. rec.step # "idle"
    BY DEF Reconcile, deleteOwnedDeployment, deleteOwnedService, RemoveFinalizer, AddFinalizer,
           updateStatus, CreateDeployment, ReconcileService, FoundDeployment,
           DeploymentAlreadyExists, Conflict, CallFails
  <1>2. n \in Names
    BY <1>1, TypeViews DEF Self
  <1>3. rec \in Recs /\ r \in Workloads /\ rec.goal \in Statuses /\ rec.dep \in Deployments
    BY TypeViews DEF Recs
  <1>4. d \in Deployments /\ s \in Services /\ Cached(deploy[n]) \in Deployments
    BY <1>2, TypeViews, ViewMembers
  <1>5. VersionOK(r) /\ r.present /\ ChildOK(d) /\ ChildOK(s)
    BY <1>1, <1>2, EndsWake DEF CallOK
  <1>6. r.uid > 0 /\ r.uid \in Nat
    BY <1>3, <1>5 DEF VersionOK, Workloads
  <1>7. ASSUME NEW v \in Workloads, VersionOK(v), workload' = Put(workload, n, v),
               UNCHANGED <<deploy, service>>
        PROVE  Wrote(n)
    BY <1>7, Zenon DEF Wrote
  <1>8. ASSUME NEW v \in Deployments, ChildOK(v), Owned(d, v), deploy' = Put(deploy, n, v),
               UNCHANGED <<workload, service>>
        PROVE  Wrote(n)
    BY <1>8, Zenon DEF Wrote
  <1>9. ASSUME NEW v \in Services, ChildOK(v), Owned(s, v), service' = Put(service, n, v),
               UNCHANGED <<workload, deploy>>
        PROVE  Wrote(n)
    BY <1>9, Zenon DEF Wrote
  <1>10. UNCHANGED <<workload, deploy, service>> => Unwritten
    BY DEF objects
  <1>11. rec'.name = rec.name => rec'.name = n
    BY DEF Self
  <1> DEFINE CallGoes == queue \subseteq queue' /\ CallOK(rec)' /\ (rec' = Idle \/ rec'.name = n)
  <1>12. Done \/ Requeued => CallGoes
    BY <1>1, WorkerGoes
  <1>13. ASSUME NEW step \in CleanupSteps, Goto(step), rec.step \in CleanupSteps PROVE CallGoes
    <2>1. CallOK(rec)' /\ rec' = [rec EXCEPT !.step = step] /\ queue' = queue
      BY <1>1, <1>13, WorkerGoes
    <2>2. rec'.name = rec.name
      BY <1>3, <2>1 DEF Recs
    <2> QED BY <1>11, <2>1, <2>2
  <1>14. ASSUME NEW goal \in Statuses, ThenStatus(goal), NamesPod(goal),
                rec.step \in {"deployment", "service"}
         PROVE  CallGoes
    <2>1. /\ CallOK(rec)' /\ queue' = queue
          /\ rec' = [rec EXCEPT !.step = "status", !.goal = goal]
      BY <1>1, <1>14, WorkerGoes
    <2>2. rec'.name = rec.name
      BY <1>3, <2>1 DEF Recs
    <2> QED BY <1>11, <2>1, <2>2
  <1> HIDE DEF Unwritten, CallGoes, n, d, s
  <1> DEFINE Goal == (Wrote(n) \/ Unwritten) /\ CallGoes
  <1>15. ASSUME NEW o, deleteOwnedDeployment(o) PROVE Goal
    <2>1. Wrote(n) \/ Unwritten
      <3>1. CASE UNCHANGED deploy
        BY <1>10, <1>15, <3>1 DEF deleteOwnedDeployment
      <3>2. CASE d.present /\ deploy' = Put(deploy, n, NoDeployment)
        <4>1. ChildOK(NoDeployment) /\ Owned(d, NoDeployment)
          BY <1>5, <3>2 DEF ChildOK, Owned, NoDeployment
        <4> QED BY <1>8, <1>15, <3>2, <4>1, RecordTypes DEF deleteOwnedDeployment
      <3> QED BY <1>15, <3>1, <3>2 DEF deleteOwnedDeployment, n, d
    <2>2. CallGoes
      <3>1. "deleteService" \in CleanupSteps /\ "deleteDeployment" \in CleanupSteps
        BY DEF CleanupSteps
      <3> QED BY <1>12, <1>13, <1>15, <3>1 DEF deleteOwnedDeployment
    <2> QED BY <2>1, <2>2
  <1>16. ASSUME NEW o, deleteOwnedService(o) PROVE Goal
    <2>1. Wrote(n) \/ Unwritten
      <3>1. CASE UNCHANGED service
        BY <1>10, <1>16, <3>1 DEF deleteOwnedService
      <3>2. CASE s.present /\ service' = Put(service, n, NoService)
        <4>1. ChildOK(NoService) /\ Owned(s, NoService)
          BY <1>5, <3>2 DEF ChildOK, Owned, NoService
        <4> QED BY <1>9, <1>16, <3>2, <4>1, RecordTypes DEF deleteOwnedService
      <3> QED BY <1>16, <3>1, <3>2 DEF deleteOwnedService, n, s
    <2>2. CallGoes
      <3>1. "deleteService" \in CleanupSteps /\ "removeFinalizer" \in CleanupSteps
        BY DEF CleanupSteps
      <3> QED BY <1>12, <1>13, <1>16, <3>1 DEF deleteOwnedService
    <2> QED BY <2>1, <2>2
  <1>17. ASSUME NEW o, RemoveFinalizer(o) PROVE Goal
    <2>1. WithoutFinalizer(r) \in Workloads /\ VersionOK(WithoutFinalizer(r))
      BY <1>3, <1>5, RecordTypes, VersionsOK
    <2>2. workload' = Put(workload, n, WithoutFinalizer(r)) /\ UNCHANGED <<deploy, service>>
      BY <1>17 DEF RemoveFinalizer, n
    <2>3. Done \/ Requeued
      BY <1>17 DEF RemoveFinalizer
    <2> QED BY <1>7, <1>12, <2>1, <2>2, <2>3
  <1>18. ASSUME NEW o, AddFinalizer(o) PROVE Goal
    <2> DEFINE v == [r EXCEPT !.finalizer = TRUE, !.rv = @ + 1]
    <2>1. v \in Workloads /\ VersionOK(v)
      BY <1>3, <1>5, VersionTypes, VersionsOK
    <2>2. workload' = Put(workload, n, v) /\ UNCHANGED <<deploy, service>> /\ Requeued
      BY <1>18 DEF AddFinalizer, n
    <2> HIDE DEF v
    <2> QED BY <1>7, <1>12, <2>1, <2>2
  <1>19. ASSUME NEW o, updateStatus(o) PROVE Goal
    <2> DEFINE v == [r EXCEPT !.status = rec.goal, !.rv = @ + 1]
    <2>1. v \in Workloads /\ VersionOK(v)
      <3>1. NamesPod(rec.goal)
        BY <1>19 DEF updateStatus, CallOK
      <3> QED BY <1>3, <1>5, <3>1, VersionTypes, VersionsOK
    <2>2. workload' = Put(workload, n, v) \/ UNCHANGED workload
      BY <1>19 DEF updateStatus, n
    <2>3. UNCHANGED <<deploy, service>> /\ (Done \/ Requeued)
      BY <1>19 DEF updateStatus
    <2> HIDE DEF v
    <2> QED BY <1>7, <1>10, <1>12, <2>1, <2>2, <2>3
  <1>20. ASSUME NEW o, CreateDeployment(o) PROVE Goal
    <2> DEFINE v == buildInferenceDeployment(r)
    <2>1. v \in Deployments /\ ChildOK(v) /\ Owned(d, v)
      <3>1. v.present /\ v.owner = r.uid
        BY DEF buildInferenceDeployment
      <3>2. v \in Deployments
        BY <1>3, RecordTypes
      <3> HIDE DEF v
      <3> QED BY <1>6, <3>1, <3>2 DEF ChildOK, Owned
    <2>2. deploy' = Put(deploy, n, v) \/ UNCHANGED deploy
      BY <1>20 DEF CreateDeployment, n
    <2>3. UNCHANGED <<workload, service>>
      BY <1>20 DEF CreateDeployment
    <2>4. CallGoes
      BY <1>14, <1>20, GoalsOK, RecordTypes DEF CreateDeployment
    <2> HIDE DEF v
    <2> QED BY <1>8, <1>10, <2>1, <2>2, <2>3, <2>4
  <1>21. ASSUME NEW o, ReconcileService(o) PROVE Goal
    <2> DEFINE v == buildInferenceService(r)
    <2>1. v \in Services /\ ChildOK(v) /\ Owned(s, v)
      <3>1. v.present /\ v.owner = r.uid
        BY DEF buildInferenceService
      <3>2. v \in Services
        BY <1>3, RecordTypes
      <3> HIDE DEF v
      <3> QED BY <1>6, <3>1, <3>2 DEF ChildOK, Owned
    <2>2. service' = Put(service, n, v) \/ UNCHANGED service
      BY <1>21 DEF ReconcileService, n
    <2>3. UNCHANGED <<workload, deploy>>
      BY <1>21 DEF ReconcileService
    <2>4. CallGoes
      <3>1. Done \/ ThenStatus(StatusOf(rec.dep))
        BY <1>21 DEF ReconcileService, ReportStatus
      <3>2. StatusOf(rec.dep) \in Statuses /\ NamesPod(StatusOf(rec.dep))
        BY <1>3, RecordTypes, GoalsOK
      <3> QED BY <1>12, <1>14, <1>21, <3>1, <3>2 DEF ReconcileService
    <2> HIDE DEF v
    <2> QED BY <1>9, <1>10, <2>1, <2>2, <2>3, <2>4
  <1>22. ASSUME FoundDeployment PROVE Goal
    <2>1. /\ rec' = [rec EXCEPT !.step = "service", !.dep = Cached(deploy[Self])]
          /\ queue' = queue /\ UNCHANGED objects /\ rec.step = "deployment"
      BY <1>22 DEF FoundDeployment
    <2>2. rec'.step = "service" /\ rec'.name = rec.name /\ rec'.work = rec.work
      BY <1>3, <2>1 DEF Recs
    <2>3. CallOK(rec)'
      BY <2>1, <2>2 DEF CallOK, CleanupSteps
    <2> QED BY <1>11, <2>1, <2>2, <2>3 DEF CallGoes, Unwritten
  <1>23. ASSUME DeploymentAlreadyExists PROVE Goal
    <2>1. CallGoes
      BY <1>14, <1>23, GoalsOK, RecordTypes DEF DeploymentAlreadyExists
    <2> QED BY <1>23, <2>1 DEF DeploymentAlreadyExists, Unwritten
  <1>24. ASSUME Conflict \/ CallFails PROVE Goal
    BY <1>12, <1>24 DEF Conflict, CallFails, Unwritten
  <1>25. Goal
    BY <1>15, <1>16, <1>17, <1>18, <1>19, <1>20, <1>21, <1>22, <1>23, <1>24 DEF Reconcile
  <1> QED BY <1>1, <1>2, <1>25 DEF GoesOnFor, Unwritten, CallGoes, n

\* An event that is delivered enqueues the name of its object or of its owner.
LEMMA DeliverWakes ==
    ASSUME TypeOK, EventsWake, NEW n \in Names, Deliver(n)
    PROVE  /\ EventsWake' /\ n \in queue' /\ queue \subseteq queue'
           /\ UNCHANGED <<rec, faults>>
           /\ \A m \in Names \ {n} : UNCHANGED <<workload[m], deploy[m], service[m]>>
  <1>1. /\ workload \in Views(Workloads) /\ deploy \in Views(Deployments)
        /\ service \in Views(Services)
    BY TypeViews
  <1>2. CASE DeliverWorkload(n)
    <2>1. /\ Len(workload[n]) > 1 /\ workload' = Delivered(workload, n)
          /\ UNCHANGED <<deploy, service, rec, faults>> /\ queue' = queue \cup {n}
      BY <1>2 DEF DeliverWorkload, EnqueueIf, budgets
    <2>2. /\ \A m \in Names : m # n => workload'[m] = workload[m]
          /\ Len(workload'[n]) = Len(workload[n]) - 1 /\ Len(workload[n]) \in Nat
          /\ \A i \in 1..(Len(workload[n]) - 1) : workload'[n][i] = workload[n][i + 1]
      <3>1. /\ \A m \in Names : m # n => Delivered(workload, n)[m] = workload[m]
            /\ Len(Delivered(workload, n)[n]) = Len(workload[n]) - 1
            /\ \A i \in 1..(Len(workload[n]) - 1) :
                  Delivered(workload, n)[n][i] = workload[n][i + 1]
        BY <1>1, <2>1, DeliveredFacts
      <3>2. Len(workload[n]) \in Nat
        BY <1>1, ViewMembers
      <3> QED BY <2>1, <3>1, <3>2
    <2>3. \A i \in 1..Len(workload'[n]) : VersionOK(workload'[n][i])
      BY <2>2 DEF EventsWake
    <2>4. EventsWake'
      <3>1. ASSUME NEW m \in Names
            PROVE  /\ \A i \in 1..Len(workload'[m]) : VersionOK(workload'[m][i])
                   /\ EachWakes(deploy'[m]) /\ EachWakes(service'[m])
        <4>1. CASE m = n
          BY <2>1, <2>3, <4>1 DEF EventsWake
        <4>2. CASE m # n
          BY <2>1, <2>2, <4>2 DEF EventsWake
        <4> QED BY <4>1, <4>2
      <3> QED BY <3>1 DEF EventsWake
    <2> QED BY <2>1, <2>2, <2>4
  <1>3. CASE DeliverDeployment(n)
    <2>1. /\ Len(deploy[n]) > 1 /\ deploy' = Delivered(deploy, n)
          /\ UNCHANGED <<workload, service, rec, faults>>
      BY <1>3 DEF DeliverDeployment, budgets
    <2>2. /\ \A m \in Names : m # n => deploy'[m] = deploy[m]
          /\ EachWakes(deploy'[n])
      BY <1>1, <2>1, DeliveredFacts, DropWakes DEF EventsWake
    <2>3. EventsWake'
      <3>1. ASSUME NEW m \in Names
            PROVE  /\ \A i \in 1..Len(workload'[m]) : VersionOK(workload'[m][i])
                   /\ EachWakes(deploy'[m]) /\ EachWakes(service'[m])
        BY <2>1, <2>2 DEF EventsWake
      <3> QED BY <3>1 DEF EventsWake
    <2>4. queue' = queue \cup {n}
      <3>1. 2 \in 2..Len(deploy[n]) /\ 2 - 1 = 1
        BY <1>1, <2>1, ViewMembers
      <3>2. Owned(deploy[n][1], deploy[n][2])
        BY <3>1 DEF EventsWake, EachWakes
      <3> QED BY <1>3, <3>2 DEF DeliverDeployment, EnqueueIf
    <2> QED BY <2>1, <2>2, <2>3, <2>4
  <1>4. CASE DeliverService(n)
    <2>1. /\ Len(service[n]) > 1 /\ service' = Delivered(service, n)
          /\ UNCHANGED <<workload, deploy, rec, faults>>
      BY <1>4 DEF DeliverService, budgets
    <2>2. /\ \A m \in Names : m # n => service'[m] = service[m]
          /\ EachWakes(service'[n])
      BY <1>1, <2>1, DeliveredFacts, DropWakes DEF EventsWake
    <2>3. EventsWake'
      <3>1. ASSUME NEW m \in Names
            PROVE  /\ \A i \in 1..Len(workload'[m]) : VersionOK(workload'[m][i])
                   /\ EachWakes(deploy'[m]) /\ EachWakes(service'[m])
        BY <2>1, <2>2 DEF EventsWake
      <3> QED BY <3>1 DEF EventsWake
    <2>4. queue' = queue \cup {n}
      <3>1. 2 \in 2..Len(service[n]) /\ 2 - 1 = 1
        BY <1>1, <2>1, ViewMembers
      <3>2. Owned(service[n][1], service[n][2])
        BY <3>1 DEF EventsWake, EachWakes
      <3> QED BY <1>4, <3>2 DEF DeliverService, EnqueueIf
    <2> QED BY <2>1, <2>2, <2>3, <2>4
  <1> QED BY <1>2, <1>3, <1>4 DEF Deliver

\* A broken watch is a fault; a list of a view leaves no event in it.
LEMMA RelistWakes ==
    ASSUME TypeOK, EventsWake, NEW n \in Names, Relist(n)
    PROVE  EventsWake' /\ rec' = rec /\ faults' = faults + 1
  <1>1. /\ workload \in Views(Workloads) /\ deploy \in Views(Deployments)
        /\ service \in Views(Services)
    BY TypeViews
  <1>2. VersionOK(Stored(workload[n])) /\ EachWakes(<<Stored(deploy[n])>>)
        /\ EachWakes(<<Stored(service[n])>>)
    BY <1>1, EndsWake, DropWakes DEF EventsWake
  <1>3. rec' = rec /\ faults' = faults + 1
    BY DEF Relist, RelistWorkload, RelistDeployment, RelistService, Skipped
  <1>4. ASSUME NEW m \in Names
        PROVE  /\ \A i \in 1..Len(workload'[m]) : VersionOK(workload'[m][i])
               /\ EachWakes(deploy'[m]) /\ EachWakes(service'[m])
    <2>1. workload'[m] \in {workload[m], <<Stored(workload[m])>>}
          /\ deploy'[m] \in {deploy[m], <<Stored(deploy[m])>>}
          /\ service'[m] \in {service[m], <<Stored(service[m])>>}
          /\ (m # n => /\ workload'[m] = workload[m] /\ deploy'[m] = deploy[m]
                       /\ service'[m] = service[m])
      <3>1. /\ \A k \in Names : k # n => Jump(workload, n)[k] = workload[k]
            /\ Jump(workload, n)[n] = <<Stored(workload[n])>>
        BY <1>1, JumpFacts
      <3>2. /\ \A k \in Names : k # n => Jump(deploy, n)[k] = deploy[k]
            /\ Jump(deploy, n)[n] = <<Stored(deploy[n])>>
        BY <1>1, JumpFacts
      <3>3. /\ \A k \in Names : k # n => Jump(service, n)[k] = service[k]
            /\ Jump(service, n)[n] = <<Stored(service[n])>>
        BY <1>1, JumpFacts
      <3>4. CASE workload' = Jump(workload, n) /\ UNCHANGED <<deploy, service>>
        BY <3>1, <3>4
      <3>5. CASE deploy' = Jump(deploy, n) /\ UNCHANGED <<workload, service>>
        BY <3>2, <3>5
      <3>6. CASE service' = Jump(service, n) /\ UNCHANGED <<workload, deploy>>
        BY <3>3, <3>6
      <3> QED BY <3>4, <3>5, <3>6 DEF Relist, RelistWorkload, RelistDeployment, RelistService
    <2>2. \A i \in 1..Len(<<Stored(workload[n])>>) : VersionOK(<<Stored(workload[n])>>[i])
      BY <1>2
    <2> QED BY <1>2, <2>1, <2>2 DEF EventsWake
  <1> QED BY <1>3, <1>4 DEF EventsWake

\* A process starts: its caches are listed, and the queue begins with them.
Restarted ==
    /\ workload' = Latest(workload) /\ deploy' = Latest(deploy) /\ service' = Latest(service)
    /\ queue' = Listed /\ rec' = Idle

\* A restart begins without events, and with a queue that holds all there is.
LEMMA RestartWakes ==
    ASSUME TypeOK, EventsWake, Restarted
    PROVE  /\ EventsWake' /\ rec' = Idle
           /\ \A n \in Names : Quiet(n)' => ~Stored(workload[n])'.present
  <1>1. /\ workload \in Views(Workloads) /\ deploy \in Views(Deployments)
        /\ service \in Views(Services)
    BY TypeViews
  <1>2. ASSUME NEW m \in Names
        PROVE  /\ \A i \in 1..Len(workload'[m]) : VersionOK(workload'[m][i])
               /\ EachWakes(deploy'[m]) /\ EachWakes(service'[m])
    <2>1. /\ workload'[m] = <<Stored(workload[m])>> /\ deploy'[m] = <<Stored(deploy[m])>>
          /\ service'[m] = <<Stored(service[m])>>
      BY <1>1, LatestFacts DEF Restarted
    <2>2. VersionOK(Stored(workload[m])) /\ EachWakes(<<Stored(deploy[m])>>)
          /\ EachWakes(<<Stored(service[m])>>)
      BY <1>1, EndsWake, DropWakes DEF EventsWake
    <2>3. \A i \in 1..Len(<<Stored(workload[m])>>) : VersionOK(<<Stored(workload[m])>>[i])
      BY <2>2
    <2> QED BY <2>1, <2>2, <2>3
  <1>3. ASSUME NEW n \in Names, n \notin queue' PROVE ~Stored(workload'[n]).present
    <2>1. workload'[n] = <<Stored(workload[n])>>
      BY <1>1, LatestFacts DEF Restarted
    <2>2. ~Stored(workload[n]).present
      BY <1>3 DEF Restarted, Listed
    <2> QED BY <2>1, <2>2, UpToDate
  <1>4. rec' = Idle
    BY DEF Restarted
  <1> QED BY <1>2, <1>3, <1>4 DEF EventsWake, Quiet

\* A call begins with the version that is cached.
LEMMA FetchReads ==
    ASSUME TypeOK, EventsWake, CallOK(rec), NEW n \in Names, Fetch(n)
    PROVE  /\ UNCHANGED <<workload, deploy, service, faults>>
           /\ rec = Idle /\ queue' = queue \ {n} /\ CallOK(rec)'
           /\ \/ /\ rec' = Idle
                 /\ LET w == Cached(workload[n])
                    IN  ~w.present \/ (w.deleting /\ ~w.finalizer)
              \/ /\ rec'.name = n /\ rec'.work = Cached(workload[n])
                 /\ rec'.step \in {"deleteDeployment", "addFinalizer", "deployment"}
  <1> DEFINE c == Cached(workload[n])
  <1>1. VersionOK(c)
    BY EndsWake
  <1>2. ASSUME NEW step, Take(n, step)
        PROVE  /\ UNCHANGED <<workload, deploy, service, faults>>
               /\ rec = Idle /\ queue' = queue \ {n}
               /\ step = "idle" => rec' = Idle
               /\ step # "idle" => rec'.step = step /\ rec'.name = n /\ rec'.work = c
    BY <1>2 DEF Take, CallOK, objects, budgets, Idle
  <1>3. CASE FetchNothing(n)
    <2>1. CallOK(Idle)
      BY DEF CallOK, Idle
    <2> QED BY <1>2, <1>3, <2>1 DEF FetchNothing
  <1>4. ASSUME NEW step \in {"deleteDeployment", "addFinalizer", "deployment"}, Take(n, step),
               c.present, c.deleting <=> step \in CleanupSteps,
               c.finalizer <=> step # "addFinalizer"
        PROVE  /\ UNCHANGED <<workload, deploy, service, faults>>
               /\ rec = Idle /\ queue' = queue \ {n} /\ CallOK(rec)'
               /\ rec'.name = n /\ rec'.work = c /\ rec'.step = step
    <2>1. /\ UNCHANGED <<workload, deploy, service, faults>>
          /\ rec = Idle /\ queue' = queue \ {n}
          /\ rec'.step = step /\ rec'.name = n /\ rec'.work = c
      BY <1>2, <1>4
    <2> HIDE DEF c
    <2>2. CallOK(rec)'
      BY <1>1, <1>4, <2>1 DEF CallOK
    <2> QED BY <2>1, <2>2
  <1>5. CASE FetchDeleting(n)
    BY <1>4, <1>5 DEF FetchDeleting, CleanupSteps
  <1>6. CASE FetchNew(n)
    BY <1>4, <1>6 DEF FetchNew, CleanupSteps
  <1>7. CASE FetchManaged(n)
    BY <1>4, <1>7 DEF FetchManaged, CleanupSteps
  <1> QED BY <1>3, <1>5, <1>6, <1>7 DEF Fetch

\* For each name: if nothing is left to wake the operator for it, the call in
\* progress completes what is missing, or nothing is missing.
Handled(n) == Quiet(n) => IF rec.name = n THEN CallSuffices(n) ELSE AsIntended(n)

LEMMA HandledMeans ==
    (\A n \in Names : Handled(n)) <=>
        /\ \A n \in Names : Quiet(n) /\ rec.name = n => CallSuffices(n)
        /\ QuiescentConverged
  BY DEF Handled, QuiescentConverged, Settled

\* A name that a step leaves alone stays handled.
LEMMA StaysHandled ==
    ASSUME NEW m \in Names, Handled(m),
           UNCHANGED <<workload[m], deploy[m], service[m]>>,
           m \in queue => m \in queue',
           rec' = rec \/ (rec.name # m /\ rec'.name # m)
    PROVE  Handled(m)'
  <1> SUFFICES ASSUME Quiet(m)' PROVE IF rec'.name = m THEN CallSuffices(m)' ELSE AsIntended(m)'
    BY DEF Handled
  <1>1. /\ workload'[m] = workload[m] /\ deploy'[m] = deploy[m] /\ service'[m] = service[m]
    OBVIOUS
  <1>2. Quiet(m)
    BY <1>1 DEF Quiet
  <1>3. CASE rec' = rec /\ rec.name = m
    <2>1. CallSuffices(m)
      BY <1>2, <1>3 DEF Handled
    <2>2. CallSuffices(m)'
      BY <1>1, <1>3, <2>1 DEF CallSuffices
    <2> QED BY <1>3, <2>2
  <1>4. CASE rec.name # m /\ rec'.name # m
    <2>1. AsIntended(m)
      BY <1>2, <1>4 DEF Handled
    <2>2. AsIntended(m)'
      BY <1>1, <2>1 DEF AsIntended
    <2> QED BY <1>4, <2>2
  <1> QED BY <1>3, <1>4

\* A step of a call that leaves nothing to wake the operator has done what it
\* was to do: the rest of the call suffices, or the workload is as intended.
LEMMA CallHandles ==
    ASSUME TypeOK, EventsWake, CallOK(rec), Reconcile, faults' = faults,
           NEW n \in Names, n = Self, Handled(n)
    PROVE  Handled(n)'
  <1> SUFFICES ASSUME Quiet(n)' PROVE IF rec'.name = n THEN CallSuffices(n)' ELSE AsIntended(n)'
    BY DEF Handled
  <1>1. rec.step # "idle" /\ GoesOnFor(n)
    BY WorkerWrote
  <1>2. UNCHANGED objects
    BY <1>1, WroteFacts DEF GoesOnFor
  <1>3. UNCHANGED <<workload, deploy, service>>
    BY <1>2 DEF objects
  <1>4. Quiet(n)
    BY <1>1, <1>3 DEF Quiet, GoesOnFor
  <1>5. CallSuffices(n)
    BY <1>4 DEF Handled, Self
  <1> DEFINE w == Stored(workload[n])
             d == Stored(deploy[n])
             s == Stored(service[n])
  <1>6. Cached(deploy[n]) = d /\ Cached(service[n]) = s
    BY <1>4 DEF Quiet, Cached, Stored
  <1>7. rec \in Recs /\ rec.work = w /\ w \in Workloads
    BY <1>5, TypeViews, ViewMembers DEF CallSuffices
  <1>8. /\ rec.work.present /\ NamesPod(rec.work.status)
        /\ rec.work.deleting <=> rec.step \in CleanupSteps
        /\ rec.work.finalizer <=> rec.step # "addFinalizer"
    BY <1>1 DEF CallOK, VersionOK
  <1>9. ~Requeued
    BY WorkerGoes, <1>1 DEF Quiet
  <1>10. \A o : Outcome(o) => o = "ok"
    <2>1. faults \in Nat
      BY TypeViews, BoundsAssumption
    <2> QED BY <2>1 DEF Outcome
  <1>11. \A S, view, v : view \in Views(S) /\ v \in S => Put(view, n, v) # view
    <2> SUFFICES ASSUME NEW S, NEW view \in Views(S), NEW v \in S, Put(view, n, v) = view
                 PROVE  FALSE
      OBVIOUS
    <2>1. Len(view[n]) = Len(view[n]) + 1 /\ Len(view[n]) \in Nat
      <3>1. Len(Put(view, n, v)[n]) = Len(view[n]) + 1
        BY PutFacts
      <3> QED BY <3>1, ViewMembers
    <2> QED BY <2>1
  <1> DEFINE Goal == IF rec'.name = n THEN CallSuffices(n)' ELSE AsIntended(n)'
  <1>12. ASSUME NEW step \in Steps \ {"service", "status"}, Goto(step) PROVE Goal
    <2>1. rec'.name = n /\ rec'.work = rec.work /\ rec'.step = step
      BY <1>7, <1>12 DEF Goto, Recs, Self
    <2> QED BY <1>3, <1>7, <2>1 DEF CallSuffices
  <1>13. ASSUME NEW o, deleteOwnedDeployment(o) PROVE Goal
    BY <1>9, <1>12, <1>13 DEF deleteOwnedDeployment, Steps
  <1>14. ASSUME NEW o, deleteOwnedService(o) PROVE Goal
    BY <1>9, <1>12, <1>14 DEF deleteOwnedService, Steps
  <1>15. ASSUME NEW o, RemoveFinalizer(o) PROVE Goal
    <2>1. WithoutFinalizer(rec.work) \in Workloads /\ workload \in Views(Workloads)
      BY <1>7, RecordTypes, TypeViews
    <2>2. workload' = Put(workload, n, WithoutFinalizer(rec.work))
      BY <1>15 DEF RemoveFinalizer
    <2> QED BY <1>3, <1>11, <2>1, <2>2
  <1>16. ASSUME NEW o, AddFinalizer(o) PROVE Goal
    BY <1>9, <1>16 DEF AddFinalizer
  <1>17. ASSUME NEW o, updateStatus(o) PROVE Goal
    <2>1. rec.goal = rec.work.status
      <3> SUFFICES ASSUME rec.goal # rec.work.status PROVE FALSE
        OBVIOUS
      <3> DEFINE v == [rec.work EXCEPT !.status = rec.goal, !.rv = @ + 1]
      <3>1. v \in Workloads /\ workload \in Views(Workloads)
        BY <1>7, VersionTypes, TypeViews DEF Recs
      <3>2. workload' = Put(workload, n, v)
        BY <1>17 DEF updateStatus
      <3> HIDE DEF v
      <3> QED BY <1>3, <1>11, <3>1, <3>2
    <2>2. rec.step = "status" /\ rec' = Idle
      BY <1>9, <1>17 DEF updateStatus, Done
    <2>3. d.present /\ s.present /\ rec.goal = StatusOf(d)
      BY <1>5, <2>2 DEF CallSuffices
    <2>4. AsIntended(n)
      <3>1. ~w.deleting /\ w.finalizer
        BY <1>7, <1>8, <2>2 DEF CleanupSteps
      <3>2. w.status = StatusOf(d) /\ w.status.podName
        BY <1>7, <2>1, <2>3, GoalsOK
      <3> QED BY <2>3, <3>1, <3>2 DEF AsIntended
    <2>5. AsIntended(n)'
      BY <1>3, <2>4 DEF AsIntended
    <2>6. rec'.name # n
      BY <2>2, NamesAssumption DEF Idle
    <2> QED BY <2>5, <2>6
  <1>18. ASSUME NEW o, CreateDeployment(o) PROVE Goal
    <2>1. o = "ok"
      BY <1>10, <1>18 DEF CreateDeployment
    <2>2. deploy' = Put(deploy, n, buildInferenceDeployment(rec.work))
      BY <1>18, <2>1 DEF CreateDeployment
    <2>3. buildInferenceDeployment(rec.work) \in Deployments /\ deploy \in Views(Deployments)
      BY <1>7, RecordTypes, TypeViews
    <2> QED BY <1>3, <1>11, <2>2, <2>3
  <1>19. ASSUME NEW o, ReconcileService(o) PROVE Goal
    <2>1. o = "ok" /\ rec.step = "service"
      BY <1>10, <1>19 DEF ReconcileService
    <2>2. d.present /\ rec.dep = d
      BY <1>5, <2>1 DEF CallSuffices
    <2>3. s.present
      <3> SUFFICES ASSUME ~s.present PROVE FALSE
        OBVIOUS
      <3>1. service' = Put(service, n, buildInferenceService(rec.work))
        BY <1>6, <1>19, <2>1 DEF ReconcileService
      <3>2. buildInferenceService(rec.work) \in Services /\ service \in Views(Services)
        BY <1>7, RecordTypes, TypeViews
      <3> QED BY <1>3, <1>11, <3>1, <3>2
    <2>4. CASE ThenStatus(StatusOf(rec.dep))
      <3>1. /\ rec'.name = n /\ rec'.work = rec.work /\ rec'.step = "status"
            /\ rec'.goal = StatusOf(d)
        BY <1>7, <2>2, <2>4 DEF ThenStatus, Recs, Self
      <3> QED BY <1>3, <1>7, <2>2, <2>3, <3>1 DEF CallSuffices
    <2>5. CASE Done /\ StatusOf(d).phase = w.status.phase /\ StatusOf(d) # ReplicaFailure
      <3>1. ~w.deleting /\ w.finalizer
        BY <1>7, <1>8, <2>1 DEF CleanupSteps
      <3>2. w.status.podName
        BY <1>7, <1>8, <2>5, GoalsOK DEF NamesPod
      <3>3. AsIntended(n)'
        BY <1>3, <2>2, <2>3, <2>5, <3>1, <3>2 DEF AsIntended
      <3>4. rec'.name # n
        BY <2>5, NamesAssumption DEF Done, Idle
      <3> QED BY <3>3, <3>4
    <2> QED BY <1>7, <1>19, <2>2, <2>4, <2>5 DEF ReconcileService, ReportStatus
  <1>20. ASSUME FoundDeployment PROVE Goal
    <2>1. /\ rec'.name = n /\ rec'.work = rec.work /\ rec'.step = "service"
          /\ rec'.dep = Cached(deploy[n]) /\ Cached(deploy[n]).present
      BY <1>7, <1>20 DEF FoundDeployment, Recs, Self
    <2> QED BY <1>3, <1>6, <1>7, <2>1 DEF CallSuffices
  <1>21. ASSUME DeploymentAlreadyExists PROVE Goal
    BY <1>6, <1>21 DEF DeploymentAlreadyExists
  <1>22. ASSUME Conflict \/ CallFails PROVE Goal
    BY <1>9, <1>22 DEF Conflict, CallFails
  <1> HIDE DEF Goal
  <1>23. Goal
    BY <1>13, <1>14, <1>15, <1>16, <1>17, <1>18, <1>19, <1>20, <1>21, <1>22 DEF Reconcile
  <1> QED BY <1>23 DEF Goal

\* Every step keeps the events awaited and the call in order, faults or not.
LEMMA WakesStep ==
    ASSUME TypeOK, "foreign" \notin Disturbances
    PROVE  EventsWake /\ CallOK(rec) /\ [Next]_vars => EventsWake' /\ CallOK(rec)'
  <1> SUFFICES ASSUME EventsWake, CallOK(rec), [Next]_vars
               PROVE  EventsWake' /\ CallOK(rec)'
    OBVIOUS
  <1>1. rec' = rec => CallOK(rec)'
    BY DEF CallOK
  <1>2. UNCHANGED <<workload, deploy, service>> => EventsWake'
    BY DEF EventsWake
  <1>3. ASSUME NEW n \in Names, Fetch(n) PROVE EventsWake' /\ CallOK(rec)'
    BY <1>2, <1>3, FetchReads
  <1>4. ASSUME NEW n \in Names, Environment(n) \/ Collect(n)
        PROVE  EventsWake' /\ CallOK(rec)'
    BY <1>1, <1>4, EnvironmentWrote, WroteFacts
  <1>5. CASE Reconcile
    BY <1>2, <1>5, WorkerWrote, WroteFacts DEF GoesOnFor, objects
  <1>6. CASE Crash
    <2>1. CallOK(Idle)
      BY DEF CallOK, Idle
    <2>2. Restarted
      BY <1>6 DEF Crash, Restarted
    <2> QED BY <2>1, <2>2, RestartWakes
  <1>7. CASE Resync \/ UNCHANGED vars
    BY <1>1, <1>2, <1>7 DEF Resync, objects, vars
  <1> QED BY <1>1, <1>3, <1>4, <1>5, <1>6, <1>7, DeliverWakes, RelistWakes DEF Next

\* Every step without a fault keeps every name handled.
LEMMA HandledStep ==
    ASSUME TypeOK, "foreign" \notin Disturbances, EventsWake, CallOK(rec), [Next]_vars,
           faults' = faults, \A n \in Names : Handled(n), NEW m \in Names
    PROVE  Handled(m)'
  <1>1. ASSUME UNCHANGED <<workload[m], deploy[m], service[m]>>, m \in queue => m \in queue',
               rec' = rec \/ (rec.name # m /\ rec'.name # m)
        PROVE  Handled(m)'
    BY <1>1, StaysHandled
  <1>2. UNCHANGED objects => UNCHANGED <<workload[m], deploy[m], service[m]>>
    BY DEF objects
  <1>3. ~Quiet(m)' => Handled(m)'
    BY DEF Handled
  <1>4. Idle.name # m
    BY NamesAssumption DEF Idle
  <1>5. ASSUME NEW n \in Names, Fetch(n) PROVE Handled(m)'
    <2>1. /\ UNCHANGED <<workload, deploy, service>> /\ rec = Idle /\ queue' = queue \ {n}
          /\ \/ /\ rec' = Idle
                /\ ~Cached(workload[n]).present
                      \/ (Cached(workload[n]).deleting /\ ~Cached(workload[n]).finalizer)
             \/ /\ rec'.name = n /\ rec'.work = Cached(workload[n])
                /\ rec'.step \in {"deleteDeployment", "addFinalizer", "deployment"}
      BY <1>5, FetchReads
    <2>2. CASE m # n
      BY <1>1, <1>4, <2>1, <2>2
    <2>3. CASE m = n
      <3> SUFFICES ASSUME Quiet(m)'
                   PROVE  IF rec'.name = m THEN CallSuffices(m)' ELSE AsIntended(m)'
        BY DEF Handled
      <3>1. Cached(workload[n]) = Stored(workload[n])
        BY <2>1, <2>3 DEF Quiet, Cached, Stored
      <3>2. CASE rec' = Idle
        BY <1>4, <2>1, <2>3, <3>1, <3>2 DEF AsIntended, Idle
      <3>3. CASE rec'.name = n
        BY <1>4, <2>1, <2>3, <3>1, <3>3 DEF CallSuffices
      <3> QED BY <2>1, <3>2, <3>3
    <2> QED BY <2>2, <2>3
  <1>6. ASSUME NEW n \in Names, Deliver(n) PROVE Handled(m)'
    <2>1. CASE m = n
      BY <1>3, <1>6, <2>1, DeliverWakes DEF Quiet
    <2>2. CASE m # n
      BY <1>1, <1>6, <2>2, DeliverWakes
    <2> QED BY <2>1, <2>2
  <1>7. ASSUME NEW n \in Names, Environment(n) \/ Collect(n) PROVE Handled(m)'
    <2>1. Wrote(n) /\ UNCHANGED <<queue, rec, faults>>
      BY <1>7, EnvironmentWrote
    <2>2. CASE m = n
      BY <1>3, <2>1, <2>2, WroteFacts
    <2>3. CASE m # n
      BY <1>1, <2>1, <2>3, WroteFacts
    <2> QED BY <2>2, <2>3
  <1>8. ASSUME NEW n \in Names, Relist(n) PROVE FALSE
    <2>1. faults \in Nat
      BY TypeViews, BoundsAssumption
    <2> QED BY <1>8, <2>1, RelistWakes
  <1>9. CASE Reconcile
    <2>1. Self \in Names /\ GoesOnFor(Self)
      BY <1>9, WorkerWrote
    <2>2. CASE m = Self
      BY <1>9, <2>2, CallHandles
    <2>3. CASE m # Self
      <3>1. UNCHANGED <<workload[m], deploy[m], service[m]>>
        BY <1>2, <2>1, <2>3, WroteFacts DEF GoesOnFor
      <3>2. rec.name # m /\ rec'.name # m /\ (m \in queue => m \in queue')
        BY <1>4, <2>1, <2>3 DEF GoesOnFor, Self
      <3> QED BY <1>1, <3>1, <3>2
    <2> QED BY <2>2, <2>3
  <1>10. CASE Crash
    <2>1. rec'.name # m /\ (Quiet(m)' => ~Stored(workload[m])'.present)
      BY <1>4, <1>10, RestartWakes DEF Crash, Restarted
    <2> QED BY <2>1 DEF Handled, AsIntended
  <1>11. CASE Resync \/ UNCHANGED vars
    BY <1>1, <1>2, <1>11 DEF Resync, vars, objects
  <1> QED BY <1>5, <1>6, <1>7, <1>8, <1>9, <1>10, <1>11 DEF Next

\* No step takes a fault back.
LEMMA FaultsStay == TypeOK /\ [Next]_vars /\ faults' = 0 => faults = 0
  <1> SUFFICES ASSUME TypeOK, [Next]_vars, faults' # faults PROVE faults' # 0
    BY TypeViews
  <1>1. faults \in Nat
    BY TypeViews, BoundsAssumption
  <1>2. ASSUME NEW n \in Names, Fetch(n) \/ Deliver(n) \/ Environment(n) \/ Collect(n)
        PROVE  faults' = faults
    BY <1>2 DEF Fetch, FetchNothing, FetchDeleting, FetchNew, FetchManaged, Take,
                Deliver, DeliverWorkload, DeliverDeployment, DeliverService,
                Environment, UserCreate, UserEdit, UserDelete, CreateForeign,
                RolloutProgress, Scale, DeleteDeployment, DeleteService, Disturb,
                Collect, CollectDeployment, CollectService, ReleaseHold, budgets
  <1>3. Resync \/ Crash \/ UNCHANGED vars => faults' = faults
    BY DEF Resync, Crash, budgets, vars
  <1>4. ASSUME NEW n \in Names, Relist(n) PROVE faults' = faults + 1
    BY <1>4 DEF Relist, RelistWorkload, RelistDeployment, RelistService, Skipped
  <1>5. Reconcile => faults' = faults \/ faults' = faults + 1
    <2>1. \A o : Outcome(o) => faults' = faults \/ faults' = faults + 1
      BY DEF Outcome
    <2> QED BY <2>1 DEF Reconcile, deleteOwnedDeployment, deleteOwnedService, RemoveFinalizer,
               AddFinalizer, updateStatus, CreateDeployment, ReconcileService,
               FoundDeployment, DeploymentAlreadyExists, Conflict, CallFails, budgets
  <1> QED BY <1>1, <1>2, <1>3, <1>4, <1>5 DEF Next

\* Nothing exists, so nothing is missing.
LEMMA HandledInit == Init => EventsWake /\ CallOK(rec) /\ \A n \in Names : Handled(n)
  <1> SUFFICES ASSUME Init PROVE EventsWake /\ CallOK(rec) /\ \A n \in Names : Handled(n)
    OBVIOUS
  <1>1. CallOK(rec)
    BY DEF Init, CallOK, Idle
  <1>2. VersionOK(Tombstone(0, 0))
    BY DEF VersionOK, NamesPod, Tombstone, NoStatus
  <1>3. EachWakes(<<NoDeployment>>) /\ EachWakes(<<NoService>>)
    BY DEF EachWakes, NoDeployment, NoService
  <1>4. EventsWake
    BY <1>2, <1>3 DEF Init, EventsWake
  <1>5. \A n \in Names : rec.name # n /\ ~Stored(workload[n]).present
    BY NamesAssumption DEF Init, Idle, Stored, Tombstone
  <1>6. \A n \in Names : Handled(n)
    BY <1>5 DEF Handled, AsIntended
  <1> QED BY <1>1, <1>4, <1>6

\* For as long as no call has failed, whatever is not as it should be has a
\* wake-up coming or a call under way that will see to it, where nobody makes a
\* Deployment that no workload owns (its events wake nobody).
THEOREM NoneForgotten ==
    ASSUME "foreign" \notin Disturbances
    PROVE  Spec => [](faults = 0 => NothingForgotten)
  <1> DEFINE IInv == /\ EventsWake /\ CallOK(rec)
                     /\ faults = 0 => \A n \in Names : Handled(n)
  <1>1. Init => IInv
    BY HandledInit
  <1>2. TypeOK /\ IInv /\ [Next]_vars => IInv'
    <2> SUFFICES ASSUME TypeOK, IInv, [Next]_vars PROVE IInv'
      OBVIOUS
    <2>1. EventsWake' /\ CallOK(rec)'
      BY WakesStep
    <2>2. ASSUME faults' = 0 PROVE \A n \in Names : Handled(n)'
      BY <2>2, FaultsStay, HandledStep
    <2> QED BY <2>1, <2>2
  <1>3. IInv => (faults = 0 => NothingForgotten)
    BY HandledMeans DEF NothingForgotten
  <1> QED BY <1>1, <1>2, <1>3, TypeCorrect, PTL DEF Spec

\* When no event is left to wake the operator for a workload, its children
\* exist, its status is the Deployment's, and a deletion is past the finalizer:
\* no wake-up is lost, whatever the order in which events, writes, restarts and
\* calls of Reconcile come, for as long as no call has failed.
THEOREM NoWakeupLost ==
    ASSUME "foreign" \notin Disturbances
    PROVE  Spec => [](faults = 0 => QuiescentConverged)
  <1>1. NothingForgotten => QuiescentConverged
    BY DEF NothingForgotten
  <1> QED BY <1>1, NoneForgotten, PTL

=============================================================================
