------------------------- MODULE LeaderTakeoverProofs -------------------------
(***************************************************************************)
(* Proofs about two operators at once: whatever a deposed leader still      *)
(* sends, the resourceVersion fences its updates, for any number of names,  *)
(* incarnations, takeovers, faults and crashes.                             *)
(***************************************************************************)
EXTENDS LeaderTakeover, GPUWorkloadReconcilerProofs

\* What an update of a version w may make of it.
Honest(w, v) ==
    /\ v.uid = w.uid
    /\ w.finalizer /\ v.present /\ ~w.deleting => v.finalizer
    /\ v.present => <<v.spec, v.deleting, v.hold>> = <<w.spec, w.deleting, w.hold>>
    /\ ~v.present => w.deleting /\ ~w.hold

-----------------------------------------------------------------------------
(* Views.                                                                  *)

\* Every stored version is what it was or has been replaced by a newer one.
MovesOn ==
    \A n \in Names : \/ Stored(workload'[n]) = Stored(workload[n])
                     \/ Stored(workload'[n]).rv > Stored(workload[n]).rv

\* The versions of an object are workloads, and their numbers naturals.
LEMMA OrderedMembers ==
    ASSUME Ordered, NEW n \in Names
    PROVE  /\ workload \in Views(Workloads)
           /\ Cached(workload[n]) \in Workloads /\ Stored(workload[n]) \in Workloads
           /\ Stored(workload[n]).rv \in Nat /\ Len(workload[n]) \in Nat \ {0}
  <1>1. workload \in Views(Workloads)
    BY DEF Ordered, Views
  <1>2. /\ Cached(workload[n]) \in Workloads /\ Stored(workload[n]) \in Workloads
        /\ Len(workload[n]) \in Nat \ {0}
    BY <1>1, ViewMembers
  <1> QED BY <1>1, <1>2 DEF Workloads

\* A write of a newer version keeps the views in order.
LEMMA PutKeepsOrder ==
    ASSUME Ordered, NEW n \in Names, NEW v \in Workloads,
           v.rv > Stored(workload[n]).rv, workload' = Put(workload, n, v)
    PROVE  Ordered' /\ MovesOn
  <1>1. workload \in Views(Workloads) /\ v.rv \in Nat
    BY OrderedMembers DEF Workloads
  <1>2. /\ workload' \in Views(Workloads)
        /\ \A m \in Names : m # n => workload'[m] = workload[m]
        /\ Len(workload'[n]) = Len(workload[n]) + 1
        /\ \A i \in 1..Len(workload[n]) : workload'[n][i] = workload[n][i]
        /\ workload'[n][Len(workload[n]) + 1] = v
        /\ Stored(workload'[n]) = v
    BY <1>1, PutFacts
  <1>3. ASSUME NEW i \in 1..Len(workload'[n])
        PROVE  workload'[n][i].rv <= v.rv /\ (workload'[n][i].rv = v.rv => workload'[n][i] = v)
    <2>1. CASE i = Len(workload[n]) + 1
      BY <1>1, <1>2, <2>1
    <2>2. CASE i # Len(workload[n]) + 1
      <3>1. i \in 1..Len(workload[n])
        BY <1>2, <2>2, OrderedMembers
      <3>2. workload[n][i] \in Workloads
        BY <1>1, <3>1, ViewMembers
      <3>3. workload[n][i].rv \in Nat /\ Stored(workload[n]).rv \in Nat
        BY <3>2, OrderedMembers DEF Workloads
      <3>4. workload[n][i].rv <= Stored(workload[n]).rv
        BY <3>1 DEF Ordered, InOrder
      <3> QED BY <1>1, <1>2, <3>1, <3>3, <3>4
    <2> QED BY <2>1, <2>2
  <1>4. InOrder(workload'[n])
    BY <1>2, <1>3 DEF InOrder
  <1>5. \A m \in Names : InOrder(workload'[m])
    BY <1>2, <1>4 DEF Ordered
  <1>6. workload' \in [Names -> Seq(Workloads) \ {<<>>}]
    BY <1>2 DEF Views
  <1> QED BY <1>2, <1>5, <1>6 DEF Ordered, MovesOn

\* A watch event, a list and a restart drop versions and keep the stored one.
LEMMA DropKeepsOrder ==
    ASSUME Ordered,
           \/ \E n \in Names : /\ Len(workload[n]) > 1
                               /\ workload' = Delivered(workload, n)
           \/ \E n \in Names : workload' = Jump(workload, n)
           \/ workload' = Latest(workload)
           \/ workload' = workload
    PROVE  Ordered' /\ \A n \in Names : Stored(workload'[n]) = Stored(workload[n])
  <1> DEFINE Keeps1(n) ==
               /\ Stored(workload'[n]) = Stored(workload[n])
               /\ \A i \in 1..Len(workload'[n]) :
                     \E j \in 1..Len(workload[n]) : workload'[n][i] = workload[n][j]
  <1>0. workload \in Views(Workloads)
    BY DEF Ordered, Views
  <1>1. ASSUME NEW n \in Names, workload'[n] = <<Stored(workload[n])>> PROVE Keeps1(n)
    <2>1. Len(workload'[n]) = 1 /\ workload'[n][1] = Stored(workload[n])
      BY <1>1
    <2>2. Len(workload[n]) \in 1..Len(workload[n])
      BY OrderedMembers
    <2> QED BY <1>1, <2>1, <2>2, UpToDate DEF Stored
  <1>2. ASSUME NEW n \in Names, Len(workload[n]) > 1, workload' = Delivered(workload, n)
        PROVE  Keeps1(n) /\ workload' \in Views(Workloads)
               /\ \A m \in Names : m # n => workload'[m] = workload[m]
    <2>1. /\ Len(workload'[n]) = Len(workload[n]) - 1
          /\ \A i \in 1..(Len(workload[n]) - 1) : workload'[n][i] = workload[n][i + 1]
          /\ Stored(workload'[n]) = Stored(workload[n])
          /\ workload' \in Views(Workloads)
          /\ \A m \in Names : m # n => workload'[m] = workload[m]
      BY <1>0, <1>2, DeliveredFacts
    <2>2. \A i \in 1..(Len(workload[n]) - 1) : i + 1 \in 1..Len(workload[n])
      BY OrderedMembers
    <2> QED BY <2>1, <2>2
  <1>3. ASSUME NEW n \in Names, workload' = Jump(workload, n)
        PROVE  Keeps1(n) /\ workload' \in Views(Workloads)
               /\ \A m \in Names : m # n => workload'[m] = workload[m]
    BY <1>0, <1>1, <1>3, JumpFacts
  <1>4. \A n \in Names : workload'[n] = workload[n] => Keeps1(n)
    OBVIOUS
  <1>5. workload' \in Views(Workloads) /\ \A n \in Names : Keeps1(n)
    <2>1. CASE \E n \in Names : Len(workload[n]) > 1 /\ workload' = Delivered(workload, n)
      BY <1>2, <1>4, <2>1
    <2>2. CASE \E n \in Names : workload' = Jump(workload, n)
      BY <1>3, <1>4, <2>2
    <2>3. CASE workload' = Latest(workload)
      BY <1>0, <1>1, <2>3, LatestFacts
    <2>4. CASE workload' = workload
      BY <1>0, <1>4, <2>4
    <2> QED BY <2>1, <2>2, <2>3, <2>4
  <1>6. \A n \in Names : InOrder(workload[n])
    BY DEF Ordered
  <1>7. \A n \in Names : InOrder(workload'[n])
    BY <1>5, <1>6 DEF InOrder
  <1>8. workload' \in [Names -> Seq(Workloads) \ {<<>>}]
    BY <1>5 DEF Views
  <1> QED BY <1>5, <1>7, <1>8 DEF Ordered

\* A call that waits stays fenced while stored versions move on.
LEMMA WaitKeepsFence ==
    ASSUME Ordered, Ordered', MovesOn, NEW r, Fenced(r), r.step # "idle"
    PROVE  /\ r.work.rv <= Stored(workload'[r.name]).rv
           /\ r.work.rv = Stored(workload'[r.name]).rv => r.work = Stored(workload'[r.name])
  <1>1. /\ r.name \in Names /\ r.work \in Workloads
        /\ r.work.rv <= Stored(workload[r.name]).rv
        /\ r.work.rv = Stored(workload[r.name]).rv => r.work = Stored(workload[r.name])
    BY DEF Fenced
  <1>2. r.work.rv \in Nat /\ Stored(workload[r.name]).rv \in Nat
    BY <1>1, OrderedMembers DEF Workloads
  <1>3. Stored(workload'[r.name]).rv \in Nat
    <2>1. workload' \in Views(Workloads)
      BY DEF Ordered, Views
    <2>2. Stored(workload'[r.name]) \in Workloads
      BY <1>1, <2>1, ViewMembers
    <2> QED BY <2>2 DEF Workloads
  <1> QED BY <1>1, <1>2, <1>3 DEF MovesOn

-----------------------------------------------------------------------------
(* Calls.                                                                  *)

Calls(dep) == [step : Steps, name : Names \cup {NoName}, work : Workloads,
               dep : {dep}, goal : Statuses]

\* A step of a call that writes no GPUWorkload.
Proceeds(r, r1) ==
    \/ r1 = Idle
    \/ /\ r1 \in Calls(r1.dep)
       /\ r.step # "idle" /\ r1.name = r.name /\ r1.work = r.work
       /\ r1.step \in CleanupSteps => r.step \in CleanupSteps

\* An update of the GPUWorkload, which is the call's last step.
Updates(r, r1, view, view1) ==
    /\ r.step # "idle" /\ r1 = Idle
    /\ Stored(view[r.name]).rv = r.work.rv
    /\ \E v \in Workloads : /\ v.rv > r.work.rv /\ Honest(r.work, v)
                            /\ view1 = Put(view, r.name, v)

\* The updates that Reconcile makes of a GPUWorkload it has read are honest:
\* whoever sends them, and whenever.
LEMMA HonestUpdates ==
    ASSUME NEW w \in Workloads, w.present
    PROVE  /\ w.deleting => /\ WithoutFinalizer(w) \in Workloads
                            /\ WithoutFinalizer(w).rv > w.rv
                            /\ Honest(w, WithoutFinalizer(w))
           /\ LET v == [w EXCEPT !.finalizer = TRUE, !.rv = @ + 1]
              IN  v \in Workloads /\ v.rv > w.rv /\ Honest(w, v)
           /\ \A status \in Statuses :
                 LET v == [w EXCEPT !.status = status, !.rv = @ + 1]
                 IN  v \in Workloads /\ v.rv > w.rv /\ Honest(w, v)
  <1>1. w.rv \in Nat /\ w.rv + 1 > w.rv
    BY DEF Workloads
  <1>2. ASSUME w.deleting
        PROVE  /\ WithoutFinalizer(w) \in Workloads
               /\ WithoutFinalizer(w).rv > w.rv
               /\ Honest(w, WithoutFinalizer(w))
    <2> DEFINE v == WithoutFinalizer(w)
    <2>1. v \in Workloads
      BY RecordTypes
    <2>2. CASE w.hold
      <3>1. v = [w EXCEPT !.finalizer = FALSE, !.rv = @ + 1]
        BY <2>2 DEF WithoutFinalizer
      <3>2. /\ v.uid = w.uid /\ v.spec = w.spec /\ v.hold = w.hold
            /\ v.deleting = w.deleting /\ v.present = w.present /\ v.rv = w.rv + 1
        BY <3>1 DEF Workloads
      <3> HIDE DEF v
      <3>3. Honest(w, v)
        BY <1>2, <3>2, Zenon DEF Honest
      <3>4. v \in Workloads /\ v.rv > w.rv /\ Honest(w, v)
        BY <1>1, <2>1, <3>2, <3>3
      <3> QED BY <3>4, Zenon DEF v
    <2>3. CASE ~w.hold
      <3>1. v.uid = w.uid /\ v.present = FALSE /\ v.rv = w.rv + 1
        BY <2>3 DEF WithoutFinalizer, Tombstone
      <3> HIDE DEF v
      <3>2. Honest(w, v)
        BY <1>2, <2>3, <3>1, Zenon DEF Honest
      <3>3. v \in Workloads /\ v.rv > w.rv /\ Honest(w, v)
        BY <1>1, <2>1, <3>1, <3>2
      <3> QED BY <3>3, Zenon DEF v
    <2> QED BY <2>2, <2>3
  <1>3. LET v == [w EXCEPT !.finalizer = TRUE, !.rv = @ + 1]
        IN  v \in Workloads /\ v.rv > w.rv /\ Honest(w, v)
    <2> DEFINE v == [w EXCEPT !.finalizer = TRUE, !.rv = @ + 1]
    <2>1. v \in Workloads
      BY VersionTypes
    <2>2. /\ v.uid = w.uid /\ v.spec = w.spec /\ v.hold = w.hold /\ v.finalizer = TRUE
          /\ v.deleting = w.deleting /\ v.present = w.present /\ v.rv = w.rv + 1
      BY DEF Workloads
    <2> HIDE DEF v
    <2>3. Honest(w, v)
      BY <2>2, Zenon DEF Honest
    <2>4. v \in Workloads /\ v.rv > w.rv /\ Honest(w, v)
      BY <1>1, <2>1, <2>2, <2>3
    <2> QED BY <2>4, Zenon DEF v
  <1>4. ASSUME NEW status \in Statuses
        PROVE  LET v == [w EXCEPT !.status = status, !.rv = @ + 1]
               IN  v \in Workloads /\ v.rv > w.rv /\ Honest(w, v)
    <2> DEFINE v == [w EXCEPT !.status = status, !.rv = @ + 1]
    <2>1. v \in Workloads
      BY VersionTypes
    <2>2. /\ v.uid = w.uid /\ v.spec = w.spec /\ v.hold = w.hold
          /\ v.finalizer = w.finalizer
          /\ v.deleting = w.deleting /\ v.present = w.present /\ v.rv = w.rv + 1
      BY DEF Workloads
    <2> HIDE DEF v
    <2>3. Honest(w, v)
      BY <2>2, Zenon DEF Honest
    <2>4. v \in Workloads /\ v.rv > w.rv /\ Honest(w, v)
      BY <1>1, <2>1, <2>2, <2>3
    <2> QED BY <2>4, Zenon DEF v
  <1> QED BY <1>2, <1>3, <1>4

\* StatusOf classifies whatever Deployment the call holds.
LEMMA StatusTypes ==
    /\ \A d : StatusOf(d) \in Statuses
    /\ Created \in Statuses /\ \A o \in {"ok", "error", "lost"} :
          (IF o = "ok" THEN Created ELSE CreationFailed("createError")) \in Statuses
    /\ CreationFailed("alreadyExists") \in Statuses
  <1>1. {Running, ReplicaFailure, StartingUp, Waiting} \subseteq Statuses
    BY DEF Running, ReplicaFailure, StartingUp, Waiting, Statuses, Phases, Messages
  <1>2. \A d : StatusOf(d) \in {Running, ReplicaFailure, StartingUp, Waiting}
    BY DEF StatusOf
  <1> QED BY <1>1, <1>2, RecordTypes

\* The ways a call goes on.
LEMMA CallForms ==
    ASSUME NEW r, r \in Calls(r.dep), r.step # "idle",
           NEW step \in Steps, NEW dep, NEW goal \in Statuses,
           step \in CleanupSteps => r.step \in CleanupSteps
    PROVE  /\ Proceeds(r, [r EXCEPT !.step = step])
           /\ Proceeds(r, [r EXCEPT !.step = "status", !.goal = goal])
           /\ Proceeds(r, [r EXCEPT !.step = "service", !.dep = dep])
  <1>1. Proceeds(r, [r EXCEPT !.step = step])
    <2> DEFINE r1 == [r EXCEPT !.step = step]
    <2>1. r1 \in Calls(r.dep) /\ r1.dep = r.dep
      BY DEF Calls
    <2>2. r1.name = r.name /\ r1.work = r.work /\ r1.step = step
      BY DEF Calls
    <2> HIDE DEF r1
    <2>3. Proceeds(r, r1)
      BY <2>1, <2>2 DEF Proceeds
    <2> QED BY <2>3 DEF r1
  <1>2. Proceeds(r, [r EXCEPT !.step = "status", !.goal = goal])
    <2> DEFINE r1 == [r EXCEPT !.step = "status", !.goal = goal]
    <2>1. r1 \in Calls(r.dep) /\ r1.dep = r.dep
      BY DEF Calls, Steps
    <2>2. r1.name = r.name /\ r1.work = r.work /\ r1.step = "status"
      BY DEF Calls
    <2> HIDE DEF r1
    <2>3. Proceeds(r, r1)
      BY <2>1, <2>2 DEF Proceeds, CleanupSteps
    <2> QED BY <2>3 DEF r1
  <1>3. Proceeds(r, [r EXCEPT !.step = "service", !.dep = dep])
    <2> DEFINE r1 == [r EXCEPT !.step = "service", !.dep = dep]
    <2>1. r1 \in Calls(dep) /\ r1.dep = dep
      BY DEF Calls, Steps
    <2>2. r1.name = r.name /\ r1.work = r.work /\ r1.step = "service"
      BY DEF Calls
    <2> HIDE DEF r1
    <2>3. Proceeds(r, r1)
      BY <2>1, <2>2 DEF Proceeds, CleanupSteps
    <2> QED BY <2>3 DEF r1
  <1> QED BY <1>1, <1>2, <1>3

\* The ways a call updates its GPUWorkload.
LEMMA UpdateForms ==
    ASSUME NEW r, r.step # "idle", r.work \in Workloads, r.work.present,
           NEW view, Stored(view[r.name]).rv = r.work.rv, NEW view1,
           \/ r.work.deleting /\ view1 = Put(view, r.name, WithoutFinalizer(r.work))
           \/ view1 = Put(view, r.name, [r.work EXCEPT !.finalizer = TRUE, !.rv = @ + 1])
           \/ /\ r.goal \in Statuses
              /\ view1 = Put(view, r.name, [r.work EXCEPT !.status = r.goal, !.rv = @ + 1])
    PROVE  Updates(r, Idle, view, view1)
  <1>1. \E v \in Workloads : /\ v.rv > r.work.rv /\ Honest(r.work, v)
                             /\ view1 = Put(view, r.name, v)
    BY HonestUpdates
  <1> QED BY <1>1 DEF Updates

\* The leader's Reconcile either leaves the GPUWorkloads alone or makes one
\* honest update of the version it has read.
LEMMA LeaderCall ==
    ASSUME Fenced(rec), Reconcile
    PROVE  \/ workload' = workload /\ Proceeds(rec, rec')
           \/ Updates(rec, rec', workload, workload')
  <1> DEFINE Rests == workload' = workload /\ Proceeds(rec, rec')
             Writes == Updates(rec, rec', workload, workload')
  <1>1. /\ rec \in Calls(rec.dep) /\ rec.work \in Workloads /\ rec.goal \in Statuses
        /\ rec.step # "idle" =>
              rec.work.present /\ (rec.step \in CleanupSteps => rec.work.deleting)
    BY DEF Fenced, Calls
  <1>2. ASSUME NEW step \in Steps, Goto(step), rec.step # "idle",
               step \in CleanupSteps => rec.step \in CleanupSteps
        PROVE  Proceeds(rec, rec')
    BY <1>1, <1>2, CallForms DEF Goto
  <1>3. ASSUME NEW status \in Statuses, ThenStatus(status), rec.step # "idle"
        PROVE  Proceeds(rec, rec')
    <2>1. \A step \in {"status"} : step \in Steps /\ step \notin CleanupSteps
      BY DEF CleanupSteps, Steps
    <2> QED BY <1>1, <1>3, <2>1, CallForms DEF ThenStatus
  <1>4. Requeued \/ Done => Proceeds(rec, rec')
    BY DEF Requeued, Done, Proceeds
  <1>5. ASSUME NEW o, deleteOwnedDeployment(o) \/ deleteOwnedService(o)
        PROVE  Rests
    BY <1>2, <1>4, <1>5
    DEF deleteOwnedDeployment, deleteOwnedService, CleanupSteps, Steps
  <1>6. ASSUME NEW o, RemoveFinalizer(o) PROVE Writes
    <2>1. /\ rec.step = "removeFinalizer" /\ rec' = Idle
          /\ Stored(workload[rec.name]).rv = rec.work.rv
          /\ workload' = Put(workload, rec.name, WithoutFinalizer(rec.work))
      BY <1>6 DEF RemoveFinalizer, SameVersion, Self, Done, Requeued
    <2>2. rec.work.deleting
      BY <1>1, <2>1 DEF CleanupSteps
    <2> QED BY <1>1, <2>1, <2>2, UpdateForms
  <1>7. ASSUME NEW o, AddFinalizer(o) PROVE Writes
    <2>1. /\ rec.step = "addFinalizer" /\ rec' = Idle
          /\ Stored(workload[rec.name]).rv = rec.work.rv
          /\ workload' = Put(workload, rec.name,
                              [rec.work EXCEPT !.finalizer = TRUE, !.rv = @ + 1])
      BY <1>7 DEF AddFinalizer, SameVersion, Self, Requeued
    <2> QED BY <1>1, <2>1, UpdateForms
  <1>8. ASSUME NEW o, updateStatus(o) PROVE Rests \/ Writes
    <2>1. /\ rec.step = "status" /\ rec' = Idle
          /\ Stored(workload[rec.name]).rv = rec.work.rv
          /\ \/ workload' = workload
             \/ workload' = Put(workload, rec.name,
                                [rec.work EXCEPT !.status = rec.goal, !.rv = @ + 1])
      BY <1>8 DEF updateStatus, SameVersion, Self, Done, Requeued
    <2>2. CASE workload' = workload
      BY <2>1, <2>2 DEF Proceeds
    <2>3. CASE workload' # workload
      BY <1>1, <2>1, <2>3, UpdateForms
    <2> QED BY <2>2, <2>3
  <1>9. ASSUME NEW o \in {"ok", "error", "lost"}, CreateDeployment(o) PROVE Rests
    BY <1>3, <1>9, StatusTypes DEF CreateDeployment
  <1>10. ASSUME NEW o, ReconcileService(o) PROVE Rests
    BY <1>3, <1>4, <1>10, StatusTypes DEF ReconcileService, ReportStatus
  <1>11. CASE FoundDeployment
    <2>1. PICK dep : /\ rec.step = "deployment" /\ workload' = workload
                     /\ rec' = [rec EXCEPT !.step = "service", !.dep = dep]
      BY <1>11 DEF FoundDeployment, objects
    <2>2. \A step \in {"service"} : step \in Steps /\ step \notin CleanupSteps
      BY DEF CleanupSteps, Steps
    <2> QED BY <1>1, <2>1, <2>2, CallForms
  <1>12. CASE DeploymentAlreadyExists
    BY <1>3, <1>12, StatusTypes DEF DeploymentAlreadyExists, objects
  <1>13. CASE Conflict \/ CallFails
    BY <1>4, <1>13 DEF Conflict, CallFails, objects
  <1> QED BY <1>5, <1>6, <1>7, <1>8, <1>9, <1>10, <1>11, <1>12, <1>13 DEF Reconcile

\* The two operators run one program.
LEMMA Shared ==
    /\ Deposed!Idle = Idle
    /\ \A view, n, v : Deposed!Put(view, n, v) = Put(view, n, v)
    /\ \A view : Deposed!Stored(view) = Stored(view)
    /\ \A w : Deposed!WithoutFinalizer(w) = WithoutFinalizer(w)
    /\ \A d : Deposed!StatusOf(d) = StatusOf(d)
    /\ Deposed!ReplicaFailure = ReplicaFailure
    /\ Deposed!Created = Created
    /\ \A why : Deposed!CreationFailed(why) = CreationFailed(why)
  BY DEF Deposed!Idle, Idle, Deposed!Put, Put, Deposed!Stored, Stored,
         Deposed!WithoutFinalizer, WithoutFinalizer, Deposed!Tombstone, Tombstone,
         Deposed!StatusOf, StatusOf, Deposed!IsReady, IsReady, Deposed!Running, Running,
         Deposed!ReplicaFailure, ReplicaFailure, Deposed!StartingUp, StartingUp,
         Deposed!Waiting, Waiting, Deposed!Created, Created,
         Deposed!CreationFailed, CreationFailed, Deposed!NoStatus, NoStatus,
         Deposed!NoDeployment, NoDeployment

\* So does the deposed leader's, of the versions in its own view.
LEMMA DeposedCall ==
    ASSUME Fenced(rec2), Deposed!Reconcile
    PROVE  \/ workload2' = workload2 /\ Proceeds(rec2, rec2')
           \/ Updates(rec2, rec2', workload2, workload2')
  <1> DEFINE Rests == workload2' = workload2 /\ Proceeds(rec2, rec2')
             Writes == Updates(rec2, rec2', workload2, workload2')
  <1>1. /\ rec2 \in Calls(rec2.dep) /\ rec2.work \in Workloads /\ rec2.goal \in Statuses
        /\ rec2.step # "idle" =>
              rec2.work.present /\ (rec2.step \in CleanupSteps => rec2.work.deleting)
    BY DEF Fenced, Calls
  <1>2. ASSUME NEW step \in Steps, Deposed!Goto(step), rec2.step # "idle",
               step \in CleanupSteps => rec2.step \in CleanupSteps
        PROVE  Proceeds(rec2, rec2')
    BY <1>1, <1>2, CallForms DEF Deposed!Goto
  <1>3. ASSUME NEW status \in Statuses, Deposed!ThenStatus(status), rec2.step # "idle"
        PROVE  Proceeds(rec2, rec2')
    <2>1. \A step \in {"status"} : step \in Steps /\ step \notin CleanupSteps
      BY DEF CleanupSteps, Steps
    <2> QED BY <1>1, <1>3, <2>1, CallForms DEF Deposed!ThenStatus
  <1>4. Deposed!Requeued \/ Deposed!Done => Proceeds(rec2, rec2')
    BY Shared DEF Deposed!Requeued, Deposed!Done, Proceeds
  <1>5. ASSUME NEW o, Deposed!deleteOwnedDeployment(o) \/ Deposed!deleteOwnedService(o)
        PROVE  Rests
    BY <1>2, <1>4, <1>5
    DEF Deposed!deleteOwnedDeployment, Deposed!deleteOwnedService, CleanupSteps, Steps
  <1>6. ASSUME NEW o, Deposed!RemoveFinalizer(o) PROVE Writes
    <2>1. /\ rec2.step = "removeFinalizer" /\ rec2' = Idle
          /\ Stored(workload2[rec2.name]).rv = rec2.work.rv
          /\ workload2' = Put(workload2, rec2.name, WithoutFinalizer(rec2.work))
      BY <1>6, Shared DEF Deposed!RemoveFinalizer, Deposed!SameVersion, Deposed!Self, Deposed!Done, Deposed!Requeued
    <2>2. rec2.work.deleting
      BY <1>1, <2>1 DEF CleanupSteps
    <2> QED BY <1>1, <2>1, <2>2, UpdateForms
  <1>7. ASSUME NEW o, Deposed!AddFinalizer(o) PROVE Writes
    <2>1. /\ rec2.step = "addFinalizer" /\ rec2' = Idle
          /\ Stored(workload2[rec2.name]).rv = rec2.work.rv
          /\ workload2' = Put(workload2, rec2.name,
                              [rec2.work EXCEPT !.finalizer = TRUE, !.rv = @ + 1])
      BY <1>7, Shared DEF Deposed!AddFinalizer, Deposed!SameVersion, Deposed!Self, Deposed!Requeued
    <2> QED BY <1>1, <2>1, UpdateForms
  <1>8. ASSUME NEW o, Deposed!updateStatus(o) PROVE Rests \/ Writes
    <2>1. /\ rec2.step = "status" /\ rec2' = Idle
          /\ Stored(workload2[rec2.name]).rv = rec2.work.rv
          /\ \/ workload2' = workload2
             \/ workload2' = Put(workload2, rec2.name,
                                [rec2.work EXCEPT !.status = rec2.goal, !.rv = @ + 1])
      BY <1>8, Shared DEF Deposed!updateStatus, Deposed!SameVersion, Deposed!Self, Deposed!Done, Deposed!Requeued
    <2>2. CASE workload2' = workload2
      BY <2>1, <2>2 DEF Proceeds
    <2>3. CASE workload2' # workload2
      BY <1>1, <2>1, <2>3, UpdateForms
    <2> QED BY <2>2, <2>3
  <1>9. ASSUME NEW o \in {"ok", "error", "lost"}, Deposed!CreateDeployment(o) PROVE Rests
    BY <1>3, <1>9, StatusTypes, Shared DEF Deposed!CreateDeployment
  <1>10. ASSUME NEW o, Deposed!ReconcileService(o) PROVE Rests
    BY <1>3, <1>4, <1>10, StatusTypes, Shared DEF Deposed!ReconcileService, Deposed!ReportStatus
  <1>11. CASE Deposed!FoundDeployment
    <2>1. PICK dep : /\ rec2.step = "deployment" /\ workload2' = workload2
                     /\ rec2' = [rec2 EXCEPT !.step = "service", !.dep = dep]
      BY <1>11 DEF Deposed!FoundDeployment, Deposed!objects
    <2>2. \A step \in {"service"} : step \in Steps /\ step \notin CleanupSteps
      BY DEF CleanupSteps, Steps
    <2> QED BY <1>1, <2>1, <2>2, CallForms
  <1>12. CASE Deposed!DeploymentAlreadyExists
    BY <1>3, <1>12, StatusTypes, Shared DEF Deposed!DeploymentAlreadyExists, Deposed!objects
  <1>13. CASE Deposed!Conflict \/ Deposed!CallFails
    BY <1>4, <1>13 DEF Deposed!Conflict, Deposed!CallFails, Deposed!objects
  <1> QED BY <1>5, <1>6, <1>7, <1>8, <1>9, <1>10, <1>11, <1>12, <1>13 DEF Deposed!Reconcile

-----------------------------------------------------------------------------
(* The invariant.                                                          *)

\* A call that goes on or ends keeps its fence.
LEMMA GoingOnIsFenced ==
    ASSUME Ordered, Ordered', MovesOn, NEW r, Fenced(r), NEW r1, Proceeds(r, r1)
    PROVE  /\ r1 \in Calls(r1.dep)
           /\ r1.step # "idle" =>
                 /\ r1.name \in Names
                 /\ r1.work.rv <= Stored(workload'[r1.name]).rv
                 /\ r1.work.rv = Stored(workload'[r1.name]).rv =>
                       r1.work = Stored(workload'[r1.name])
                 /\ r1.work.present
                 /\ r1.step \in CleanupSteps => r1.work.deleting
  <1>1. CASE r1 = Idle
    <2>1. Idle \in Recs /\ Idle.step = "idle"
      BY RecordTypes DEF Idle
    <2> QED BY <1>1, <2>1 DEF Recs, Calls
  <1>2. CASE r1 # Idle
    <2>1. /\ r1 \in Calls(r1.dep) /\ r.step # "idle"
          /\ r1.name = r.name /\ r1.work = r.work
          /\ r1.step \in CleanupSteps => r.step \in CleanupSteps
      BY <1>2 DEF Proceeds
    <2>2. /\ r.name \in Names /\ r.work.present
          /\ r.step \in CleanupSteps => r.work.deleting
      BY <2>1 DEF Fenced
    <2> QED BY <2>1, <2>2, WaitKeepsFence
  <1> QED BY <1>1, <1>2

\* A call that has made its update has written what nobody else had changed.
LEMMA UpdateIsHonest ==
    ASSUME Ordered, NEW r, Fenced(r), NEW r1, Updates(r, r1, workload, workload')
    PROVE  /\ Ordered' /\ MovesOn
           /\ \A n \in Names :
                 Stored(workload'[n]) # Stored(workload[n]) =>
                     Honest(Stored(workload[n]), Stored(workload'[n]))
  <1>1. /\ r.name \in Names /\ r.work = Stored(workload[r.name])
        /\ workload \in Views(Workloads)
    BY DEF Fenced, Updates, Ordered, Views
  <1>2. PICK v \in Workloads : /\ v.rv > r.work.rv /\ Honest(r.work, v)
                               /\ workload' = Put(workload, r.name, v)
    BY DEF Updates
  <1>3. /\ Stored(workload'[r.name]) = v
        /\ \A m \in Names : m # r.name => workload'[m] = workload[m]
    BY <1>1, <1>2, PutFacts
  <1>4. Ordered' /\ MovesOn
    BY <1>1, <1>2, PutKeepsOrder
  <1> QED BY <1>1, <1>2, <1>3, <1>4

\* Users and the garbage collector write newer versions of a GPUWorkload.
LEMMA EnvironmentWrites ==
    ASSUME Ordered, NEW n \in Names, Environment(n) \/ Collect(n)
    PROVE  rec' = rec /\ Ordered' /\ MovesOn
  <1> DEFINE w == Stored(workload[n])
  <1>1. w \in Workloads /\ w.rv \in Nat /\ w.uid \in Nat
    BY OrderedMembers DEF Workloads
  <1>2. rec' = rec
    BY OthersLeaveWorker
  <1>3. ASSUME NEW v \in Workloads, v.rv = w.rv + 1, Write(workload, n, v)
        PROVE  Ordered' /\ MovesOn
    BY <1>1, <1>3, PutKeepsOrder DEF Write
  <1>4. ASSUME workload' = workload PROVE Ordered' /\ MovesOn
    BY <1>4, DropKeepsOrder DEF MovesOn
  <1>5. Tombstone(w.uid, w.rv + 1) \in Workloads /\ Tombstone(w.uid, w.rv + 1).rv = w.rv + 1
    BY <1>1, VersionTypes DEF Tombstone
  <1>6. ASSUME NEW spec \in Specs, UserCreate(n, spec) PROVE Ordered' /\ MovesOn
    <2> DEFINE v == [Tombstone(w.uid + 1, w.rv + 1) EXCEPT !.present = TRUE, !.spec = spec]
    <2>1. v \in Workloads
      BY <1>1, VersionTypes
    <2>2. v.rv = w.rv + 1
      BY DEF Tombstone
    <2>3. Write(workload, n, v)
      BY <1>6 DEF UserCreate
    <2> HIDE DEF v
    <2> QED BY <1>3, <2>1, <2>2, <2>3
  <1>7. ASSUME NEW spec \in Specs, UserEdit(n, spec) PROVE Ordered' /\ MovesOn
    <2> DEFINE v == [w EXCEPT !.spec = spec, !.rv = @ + 1]
    <2>1. v \in Workloads
      BY <1>1, VersionTypes
    <2>2. v.rv = w.rv + 1
      BY <1>1 DEF Workloads
    <2>3. Write(workload, n, v)
      BY <1>7 DEF UserEdit
    <2> HIDE DEF v
    <2> QED BY <1>3, <2>1, <2>2, <2>3
  <1>8. ASSUME NEW foreground \in BOOLEAN, UserDelete(n, foreground) PROVE Ordered' /\ MovesOn
    <2> DEFINE v == [w EXCEPT !.deleting = TRUE, !.hold = foreground, !.rv = @ + 1]
    <2>1. v \in Workloads
      BY <1>1, VersionTypes
    <2>2. v.rv = w.rv + 1
      BY <1>1 DEF Workloads
    <2>3. Write(workload, n, v) \/ Write(workload, n, Tombstone(w.uid, w.rv + 1))
      BY <1>8 DEF UserDelete
    <2> HIDE DEF v
    <2> QED BY <1>3, <1>5, <2>1, <2>2, <2>3
  <1>9. ASSUME ReleaseHold(n) PROVE Ordered' /\ MovesOn
    <2> DEFINE v == [w EXCEPT !.hold = FALSE, !.rv = @ + 1]
    <2>1. v \in Workloads
      BY <1>1, VersionTypes
    <2>2. v.rv = w.rv + 1
      BY <1>1 DEF Workloads
    <2>3. Write(workload, n, v) \/ Write(workload, n, Tombstone(w.uid, w.rv + 1))
      BY <1>9 DEF ReleaseHold
    <2> HIDE DEF v
    <2> QED BY <1>3, <1>5, <2>1, <2>2, <2>3
  <1>10. ASSUME NEW spec, CreateForeign(n, spec) PROVE workload' = workload
    BY <1>10 DEF CreateForeign
  <1>11. ASSUME NEW ready, NEW failure, RolloutProgress(n, ready, failure)
         PROVE  workload' = workload
    BY <1>11 DEF RolloutProgress
  <1>12. ASSUME NEW replicas, Scale(n, replicas) PROVE workload' = workload
    BY <1>12 DEF Scale
  <1>13. ASSUME \/ DeleteDeployment(n) \/ DeleteService(n)
                \/ CollectDeployment(n) \/ CollectService(n)
         PROVE  workload' = workload
    BY <1>13 DEF DeleteDeployment, DeleteService, CollectDeployment, CollectService
  <1> QED BY <1>2, <1>4, <1>6, <1>7, <1>8, <1>9, <1>10, <1>11, <1>12, <1>13
          DEF Environment, Collect

\* A step of the leader and its cluster keeps order and fence.
LEMMA LeaderStep ==
    ASSUME Ordered, Fenced(rec), Next
    PROVE  /\ Ordered' /\ MovesOn /\ Fenced(rec)'
           /\ rec' # rec =>
                 \A n \in Names :
                    Stored(workload'[n]) # Stored(workload[n]) =>
                        Honest(Stored(workload[n]), Stored(workload'[n]))
  <1> DEFINE Same == \A n \in Names : Stored(workload'[n]) = Stored(workload[n])
             Allowed == \A n \in Names :
                           Stored(workload'[n]) # Stored(workload[n]) =>
                               Honest(Stored(workload[n]), Stored(workload'[n]))
  <1>1. Same => MovesOn /\ Allowed
    BY DEF MovesOn
  <1>2. ASSUME Ordered', MovesOn, rec' = rec PROVE Fenced(rec)'
    BY <1>2, WaitKeepsFence DEF Fenced
  <1>3. ASSUME Ordered', MovesOn, Proceeds(rec, rec') PROVE Fenced(rec)'
    BY <1>3, GoingOnIsFenced DEF Fenced, Calls
  <1>4. workload' = workload => Ordered' /\ Same
    BY DropKeepsOrder
  <1>5. ASSUME NEW n \in Names, Fetch(n)
        PROVE  Ordered' /\ MovesOn /\ Fenced(rec)' /\ Allowed
    <2>1. workload' = workload
      BY <1>5 DEF Fetch, FetchNothing, FetchDeleting, FetchNew, FetchManaged, Take, objects
    <2>2. CASE rec' = Idle
      BY <1>1, <1>3, <1>4, <2>1, <2>2 DEF Proceeds
    <2>3. CASE rec' # Idle
      <3> DEFINE w == Cached(workload[n])
      <3>1. PICK step \in {"deleteDeployment", "addFinalizer", "deployment"} :
               /\ rec' = [Idle EXCEPT !.step = step, !.name = n, !.work = w]
               /\ w.present /\ (step = "deleteDeployment" => w.deleting)
        BY <1>5, <2>3 DEF Fetch, FetchNothing, FetchDeleting, FetchNew, FetchManaged, Take
      <3>2. w \in Workloads /\ Stored(workload[n]) \in Workloads
        BY OrderedMembers
      <3>3. /\ rec'.step = step /\ rec'.name = n /\ rec'.work = w
            /\ rec'.dep = Idle.dep /\ rec'.goal = Idle.goal
        BY <3>1 DEF Idle
      <3>4. rec' \in Calls(rec'.dep)
        <4>1. Idle \in Calls(Idle.dep)
          BY RecordTypes DEF Recs, Calls
        <4>2. step \in Steps
          BY DEF Steps
        <4> HIDE DEF w
        <4> QED BY <3>1, <3>2, <3>3, <4>1, <4>2 DEF Calls
      <3>5. w.rv <= Stored(workload[n]).rv /\ (w.rv = Stored(workload[n]).rv => w = Stored(workload[n]))
        <4>1. 1 \in 1..Len(workload[n])
          BY OrderedMembers
        <4> QED BY <4>1 DEF Ordered, InOrder, Cached
      <3>6. step \in CleanupSteps => step = "deleteDeployment"
        BY DEF CleanupSteps
      <3>7. Fenced(rec)'
        <4> HIDE DEF w
        <4> QED BY <2>1, <3>1, <3>3, <3>4, <3>5, <3>6 DEF Fenced, Calls
      <3> QED BY <1>1, <1>4, <2>1, <3>7
    <2> QED BY <2>2, <2>3
  <1>6. CASE Reconcile
    <2>1. CASE workload' = workload /\ Proceeds(rec, rec')
      BY <1>1, <1>3, <1>4, <2>1
    <2>2. CASE Updates(rec, rec', workload, workload')
      <3>1. Proceeds(rec, rec')
        BY <2>2 DEF Updates, Proceeds
      <3> QED BY <1>3, <2>2, <3>1, UpdateIsHonest
    <2> QED BY <1>6, <2>1, <2>2, LeaderCall
  <1>7. CASE Crash
    <2>1. workload' = Latest(workload) /\ rec' = Idle
      BY <1>7 DEF Crash
    <2> QED BY <1>1, <1>3, <2>1, DropKeepsOrder DEF Proceeds
  <1>8. ASSUME NEW n \in Names, Deliver(n) \/ Relist(n) PROVE rec' = rec /\ Ordered' /\ MovesOn
    <2>1. rec' = rec
      BY <1>8, OthersLeaveWorker
    <2>2. \/ Len(workload[n]) > 1 /\ workload' = Delivered(workload, n)
          \/ workload' = Jump(workload, n)
          \/ workload' = workload
      BY <1>8
      DEF Deliver, Relist, DeliverWorkload, DeliverDeployment, DeliverService,
          RelistWorkload, RelistDeployment, RelistService
    <2> QED BY <1>1, <2>1, <2>2, DropKeepsOrder
  <1>9. CASE Resync
    BY <1>1, <1>2, <1>4, <1>9 DEF Resync, objects
  <1>10. ASSUME NEW n \in Names, Environment(n) \/ Collect(n)
         PROVE  rec' = rec /\ Ordered' /\ MovesOn
    BY <1>10, EnvironmentWrites
  <1> QED BY <1>2, <1>5, <1>6, <1>7, <1>8, <1>9, <1>10 DEF Next

-----------------------------------------------------------------------------
(* Two operators.                                                          *)

\* What one operator's view gains, the other's gains.
LEMMA FollowFacts ==
    ASSUME NEW S, NEW view \in Views(S), NEW old \in Views(S), NEW n \in Names, NEW v \in S,
           v # Stored(old[n])
    PROVE  /\ Follow(view, old, old) = view
           /\ Follow(view, old, Put(old, n, v)) = Put(view, n, v)
  <1> DEFINE new == Put(old, n, v)
  <1>1. \A m \in Names : view[m] = view[m] /\ view = [i \in Names |-> view[i]]
    BY DEF Views
  <1>2. Follow(view, old, old) = view
    BY <1>1 DEF Follow
  <1>3. Stored(new[n]) = v /\ \A m \in Names : m # n => new[m] = old[m]
    BY PutFacts
  <1>4. Put(view, n, v) = [m \in Names |-> IF m = n THEN Append(view[n], v) ELSE view[m]]
    BY DEF Put, Views
  <1>5. Follow(view, old, new)
           = [m \in Names |-> IF m = n THEN Append(view[n], v) ELSE view[m]]
    <2> HIDE DEF new
    <2> QED BY <1>3 DEF Follow
  <1> QED BY <1>2, <1>4, <1>5

\* A step of the deposed leader keeps order and both fences: its update, too,
\* is of the stored version.
LEMMA DeposedKeeps ==
    ASSUME FencedByVersion, DeposedStep
    PROVE  /\ FencedByVersion'
           /\ \A n \in Names :
                 Stored(workload'[n]) # Stored(workload[n]) =>
                     Honest(Stored(workload[n]), Stored(workload'[n]))
  <1>1. /\ Ordered /\ Fenced(rec) /\ Fenced(rec2) /\ rec' = rec /\ rec2.step # "idle"
        /\ workload \in Views(Workloads) /\ workload2 \in Views(Workloads)
        /\ \A n \in Names : Stored(workload2[n]) = Stored(workload[n])
        /\ workload' = Follow(workload, workload2, workload2')
    BY DEF FencedByVersion, DeposedStep, OneServer, Present2, Ordered, Views
  <1>2. rec2.name \in Names /\ rec2.work \in Workloads
    BY <1>1 DEF Fenced
  <1>3. CASE workload2' = workload2 /\ (Proceeds(rec2, rec2') \/ rec2' = rec2)
    <2>1. workload' = workload
      <3>1. workload = [n \in Names |-> workload[n]]
        BY <1>1 DEF Views
      <3> QED BY <1>1, <1>3, <3>1 DEF Follow
    <2>2. Ordered' /\ MovesOn
      BY <1>1, <2>1, DropKeepsOrder DEF MovesOn
    <2>3. Fenced(rec)'
      BY <1>1, <2>1 DEF Fenced
    <2>4. Fenced(rec2)'
      <3>1. CASE rec2' = rec2
        BY <1>1, <2>1, <3>1 DEF Fenced
      <3>2. CASE Proceeds(rec2, rec2')
        BY <1>1, <2>2, <3>2, GoingOnIsFenced DEF Fenced, Calls
      <3> QED BY <1>3, <3>1, <3>2
    <2>5. OneServer'
      BY <1>1, <1>3, <2>1 DEF OneServer, Views
    <2> QED BY <2>1, <2>2, <2>3, <2>4, <2>5 DEF FencedByVersion
  <1>4. CASE Updates(rec2, rec2', workload2, workload2')
    <2>1. PICK v \in Workloads : /\ v.rv > rec2.work.rv /\ Honest(rec2.work, v)
                                 /\ workload2' = Put(workload2, rec2.name, v)
      BY <1>4 DEF Updates
    <2>2. Stored(workload2[rec2.name]).rv = rec2.work.rv /\ rec2' = Idle
      BY <1>4 DEF Updates
    <2>3. v # Stored(workload2[rec2.name])
      BY <1>2, <2>1, <2>2 DEF Workloads
    <2>4. workload' = Put(workload, rec2.name, v)
      BY <1>1, <1>2, <2>1, <2>3, FollowFacts
    <2>5. Updates(rec2, rec2', workload, workload')
      BY <1>1, <1>2, <2>1, <2>2, <2>4 DEF Updates
    <2>6. /\ Ordered' /\ MovesOn
          /\ \A n \in Names :
                Stored(workload'[n]) # Stored(workload[n]) =>
                    Honest(Stored(workload[n]), Stored(workload'[n]))
      BY <1>1, <2>5, UpdateIsHonest
    <2>7. Fenced(rec)'
      BY <1>1, <2>6, WaitKeepsFence DEF Fenced
    <2>8. Fenced(rec2)'
      <3>1. Proceeds(rec2, rec2')
        BY <2>2 DEF Proceeds
      <3> QED BY <1>1, <2>6, <3>1, GoingOnIsFenced DEF Fenced, Calls
    <2>9. OneServer'
      <3>1. Idle.step = "idle"
        BY DEF Idle
      <3> QED BY <2>2, <3>1 DEF OneServer, Present2
    <2> QED BY <2>6, <2>7, <2>8, <2>9 DEF FencedByVersion
  <1>5. CASE Deposed!Reconcile
    BY <1>1, <1>3, <1>4, <1>5, DeposedCall
  <1>6. ASSUME NEW n \in Names, Deposed!DeliverDeployment(n) \/ Deposed!DeliverService(n)
        PROVE  workload2' = workload2 /\ rec2' = rec2
    BY <1>6 DEF Deposed!DeliverDeployment, Deposed!DeliverService
  <1> QED BY <1>3, <1>5, <1>6 DEF DeposedStep

\* At first nothing is stored and nobody is at work.
LEMMA FencedInit == TInit => FencedByVersion
  <1> SUFFICES ASSUME TInit PROVE FencedByVersion
    OBVIOUS
  <1>1. Idle \in Recs /\ Idle.step = "idle" /\ Tombstone(0, 0) \in Workloads
    BY RecordTypes DEF Idle
  <1>2. Fenced(rec) /\ Fenced(rec2) /\ OneServer
    BY <1>1 DEF TInit, Init, Fenced, Recs, OneServer, Present2
  <1>3. Ordered
    <2>1. <<Tombstone(0, 0)>> \in Seq(Workloads) \ {<<>>}
      BY <1>1
    <2>2. InOrder(<<Tombstone(0, 0)>>)
      BY <1>1, UpToDate DEF InOrder, Workloads
    <2> QED BY <2>1, <2>2 DEF TInit, Init, Ordered
  <1> QED BY <1>2, <1>3 DEF FencedByVersion

\* One step, of whichever operator, keeps the invariant and others' writes.
LEMMA FencedStep ==
    ASSUME FencedByVersion, [TNext]_tvars
    PROVE  /\ FencedByVersion'
           /\ (rec' # rec \/ rec2' # rec2) =>
                 \A n \in Names :
                    Stored(workload'[n]) # Stored(workload[n]) =>
                        Honest(Stored(workload[n]), Stored(workload'[n]))
  <1>1. Ordered /\ Fenced(rec) /\ Fenced(rec2) /\ OneServer
    BY DEF FencedByVersion
  <1>2. CASE Next /\ Lead
    <2>1. /\ Ordered' /\ MovesOn /\ Fenced(rec)'
          /\ rec' # rec =>
                \A n \in Names :
                   Stored(workload'[n]) # Stored(workload[n]) =>
                       Honest(Stored(workload[n]), Stored(workload'[n]))
      BY <1>1, <1>2, LeaderStep
    <2>2. rec2' = rec2 /\ ToDeposed
      BY <1>2 DEF Lead
    <2>3. Fenced(rec2)'
      BY <1>1, <2>1, <2>2, WaitKeepsFence DEF Fenced
    <2>4. OneServer'
      <3>1. SUFFICES ASSUME rec2'.step # "idle" PROVE OneServer'
        BY DEF OneServer, Present2
      <3>2. workload2' = Latest(workload') /\ workload' \in Views(Workloads)
        BY <2>1, <2>2, <3>1 DEF ToDeposed, Present2, Ordered, Views
      <3>3. /\ workload2' \in Views(Workloads)
            /\ \A n \in Names : workload2'[n] = <<Stored(workload'[n])>>
        BY <3>2, LatestFacts
      <3>4. \A n \in Names : Stored(workload2'[n]) = Stored(workload'[n])
        BY <3>3, UpToDate
      <3> QED BY <3>3, <3>4 DEF OneServer, Views
    <2> QED BY <2>1, <2>2, <2>3, <2>4 DEF FencedByVersion
  <1>3. CASE DeposedStep
    BY <1>3, DeposedKeeps
  <1>4. ASSUME workload' = workload, rec' = rec, rec2' = rec2 \/ rec2' = Idle,
               workload2' = workload2
        PROVE  FencedByVersion'
    <2>1. Ordered' /\ Fenced(rec)'
      BY <1>1, <1>4 DEF Ordered, Fenced
    <2>2. Fenced(rec2)' /\ OneServer'
      <3>1. CASE rec2' = rec2
        BY <1>1, <1>4, <3>1 DEF Fenced, OneServer, Present2
      <3>2. CASE rec2' = Idle
        <4>1. Idle \in Recs /\ Idle.step = "idle"
          BY RecordTypes DEF Idle
        <4> QED BY <3>2, <4>1 DEF Fenced, Recs, OneServer, Present2
      <3> QED BY <1>4, <3>1, <3>2
    <2> QED BY <2>1, <2>2 DEF FencedByVersion
  <1>5. CASE DeposedExits \/ UNCHANGED tvars
    BY <1>4, <1>5 DEF DeposedExits, tvars, vars, views2
  <1>6. CASE Takeover
    <2>1. /\ workload' = Latest(workload) /\ workload2' = Latest(workload)
          /\ rec' = Idle /\ rec2' = rec
      BY <1>6 DEF Takeover
    <2>2. Ordered' /\ \A n \in Names : Stored(workload'[n]) = Stored(workload[n])
      BY <1>1, <2>1, DropKeepsOrder
    <2>3. Fenced(rec)'
      <3>1. Idle \in Recs /\ Idle.step = "idle"
        BY RecordTypes DEF Idle
      <3> QED BY <2>1, <3>1 DEF Fenced, Recs
    <2>4. Fenced(rec2)'
      BY <1>1, <2>1, <2>2 DEF Fenced
    <2>5. OneServer'
      BY <2>1, <2>2 DEF OneServer, Ordered
    <2> QED BY <2>2, <2>3, <2>4, <2>5 DEF FencedByVersion
  <1> QED BY <1>2, <1>3, <1>5, <1>6 DEF TNext, tvars, vars

\* However often the lease changes hands in the middle of a call, what either
\* operator has read is the stored version or an earlier one.
THEOREM FenceHolds == TSpec => []FencedByVersion
  <1>1. FencedByVersion /\ [TNext]_tvars => FencedByVersion'
    BY FencedStep
  <1> QED BY <1>1, FencedInit, PTL DEF TSpec

\* Neither operator undoes what the other, a user or Kubernetes has written to
\* a GPUWorkload since it was read.
THEOREM TakeoverSafe == TSpec => TakeoverKeepsWrites
  <1>1. FencedByVersion /\ [TNext]_tvars =>
          [\A n \in Names :
              LET w == Stored(workload[n])
                  v == Stored(workload'[n])
              IN  (v # w /\ (rec' # rec \/ rec2' # rec2)) =>
                     /\ v.uid = w.uid
                     /\ w.finalizer /\ v.present /\ ~w.deleting => v.finalizer
                     /\ v.present => <<v.spec, v.deleting, v.hold>>
                                       = <<w.spec, w.deleting, w.hold>>
                     /\ ~v.present => w.deleting /\ ~w.hold]_tvars
    BY FencedStep, Zenon DEF Honest
  <1> QED BY <1>1, FenceHolds, PTL DEF TSpec, TakeoverKeepsWrites

-----------------------------------------------------------------------------
(* What the deposed leader writes.                                         *)

\* A write into one operator's view is a write into the other's, or changes
\* nothing there; what is stored is the same in both.
LEMMA FollowPut ==
    ASSUME NEW S, NEW view \in Views(S), NEW old \in Views(S), NEW n \in Names, NEW v \in S,
           \A m \in Names : Stored(old[m]) = Stored(view[m])
    PROVE  LET new == Follow(view, old, Put(old, n, v))
           IN  /\ new = view \/ new = Put(view, n, v)
               /\ Put(old, n, v) \in Views(S)
               /\ \A m \in Names : Stored(Put(old, n, v)[m]) = Stored(new[m])
  <1> DEFINE written == Put(old, n, v)
             new == Follow(view, old, written)
  <1>1. /\ written \in Views(S) /\ Stored(written[n]) = v
        /\ \A m \in Names : m # n => written[m] = old[m]
    BY PutFacts
  <1>2. /\ Stored(Put(view, n, v)[n]) = v
        /\ \A m \in Names : m # n => Put(view, n, v)[m] = view[m]
    BY PutFacts
  <1>3. CASE v = Stored(old[n])
    <2>1. \A m \in Names : Stored(written[m]) = Stored(old[m])
      BY <1>1, <1>3
    <2>2. new = [m \in Names |-> view[m]]
      <3> HIDE DEF written
      <3> QED BY <2>1 DEF Follow
    <2>3. new = view
      BY <2>2 DEF Views
    <2> HIDE DEF new, written
    <2>4. \A m \in Names : Stored(written[m]) = Stored(new[m])
      BY <2>1, <2>3
    <2> QED BY <1>1, <2>3, <2>4 DEF new, written
  <1>4. CASE v # Stored(old[n])
    <2>1. new = Put(view, n, v)
      BY <1>4, FollowFacts
    <2> HIDE DEF new, written
    <2>2. \A m \in Names : Stored(written[m]) = Stored(new[m])
      BY <1>1, <1>2, <2>1
    <2> QED BY <1>1, <2>1, <2>2 DEF new, written
  <1> QED BY <1>3, <1>4

\* The two ends of a view.
LEMMA EndsFacts ==
    ASSUME NEW S, NEW view \in Views(S)
    PROVE  /\ BothEnds(view) \in Views(S)
           /\ \A n \in Names : Stored(BothEnds(view)[n]) = Stored(view[n])
  <1>1. ASSUME NEW n \in Names
        PROVE  /\ BothEnds(view)[n] \in Seq(S) \ {<<>>}
               /\ Stored(BothEnds(view)[n]) = Stored(view[n])
    <2>1. Cached(view[n]) \in S /\ Stored(view[n]) \in S /\ view[n] \in Seq(S) \ {<<>>}
      BY ViewMembers DEF Views
    <2>2. CASE Len(view[n]) = 1
      BY <2>1, <2>2 DEF BothEnds
    <2>3. CASE Len(view[n]) # 1
      <3>1. BothEnds(view)[n] = <<Cached(view[n]), Stored(view[n])>>
        BY <2>3 DEF BothEnds
      <3>2. \A a, b \in S : <<a, b>> \in Seq(S) \ {<<>>} /\ Stored(<<a, b>>) = b
        BY DEF Stored
      <3> QED BY <2>1, <3>1, <3>2
    <2> QED BY <2>2, <2>3
  <1> QED BY <1>1 DEF BothEnds, Views

\* A view that follows another and is cut to its ends has the same stored
\* version as the other.
LEMMA FollowEnds ==
    ASSUME NEW S, NEW view \in Views(S), NEW old \in Views(S), NEW new \in Views(S),
           \A m \in Names : Stored(view[m]) = Stored(old[m])
    PROVE  /\ BothEnds(Follow(view, old, new)) \in Views(S)
           /\ \A m \in Names : Stored(BothEnds(Follow(view, old, new))[m]) = Stored(new[m])
  <1> DEFINE f == Follow(view, old, new)
  <1>1. ASSUME NEW m \in Names
        PROVE  f[m] \in Seq(S) \ {<<>>} /\ Stored(f[m]) = Stored(new[m])
    <2>1. Stored(new[m]) \in S /\ view[m] \in Seq(S) \ {<<>>}
      BY ViewMembers DEF Views
    <2>2. CASE Stored(new[m]) = Stored(old[m])
      BY <2>1, <2>2 DEF Follow
    <2>3. CASE Stored(new[m]) # Stored(old[m])
      <3>1. f[m] = Append(view[m], Stored(new[m]))
        BY <2>3 DEF Follow
      <3>2. /\ f[m] \in Seq(S) /\ Len(f[m]) = Len(view[m]) + 1
            /\ f[m][Len(view[m]) + 1] = Stored(new[m]) /\ f[m] # <<>>
        <4> HIDE DEF f
        <4> QED BY <2>1, <3>1
      <3> QED BY <3>2 DEF Stored
    <2> QED BY <2>2, <2>3
  <1>2. f \in Views(S)
    BY <1>1 DEF Follow, Views
  <1> HIDE DEF f
  <1>3. BothEnds(f) \in Views(S) /\ \A m \in Names : Stored(BothEnds(f)[m]) = Stored(f[m])
    BY <1>2, EndsFacts
  <1> QED BY <1>1, <1>3 DEF f

\* What a call becomes as it goes on is in the condition its step presupposes.
LEMMA CallGoesOn ==
    ASSUME NEW r, r \in Calls(r.dep), r.step # "idle", CallOK(r)
    PROVE  /\ CallOK(Idle)
           /\ \A step \in CleanupSteps :
                 r.step \in CleanupSteps => CallOK([r EXCEPT !.step = step])
           /\ \A goal \in Statuses :
                 r.step \in {"deployment", "service"} /\ NamesPod(goal) =>
                     CallOK([r EXCEPT !.step = "status", !.goal = goal])
           /\ \A dep : r.step = "deployment" =>
                          CallOK([r EXCEPT !.step = "service", !.dep = dep])
  <1>1. CallOK(Idle)
    BY DEF CallOK, Idle
  <1>2. ASSUME NEW r1, r1.work = r.work, r1.step # "idle",
               r1.step \in CleanupSteps <=> r.step \in CleanupSteps,
               r1.step # "addFinalizer" <=> r.step # "addFinalizer",
               r1.step = "status" => NamesPod(r1.goal)
        PROVE  CallOK(r1)
    BY <1>2 DEF CallOK
  <1>3. ASSUME NEW step \in CleanupSteps, r.step \in CleanupSteps
        PROVE  CallOK([r EXCEPT !.step = step])
    <2> DEFINE r1 == [r EXCEPT !.step = step]
    <2>1. r1.work = r.work /\ r1.step = step
      BY DEF Calls
    <2>2. \A k \in CleanupSteps : k \notin {"idle", "addFinalizer", "status"}
      BY DEF CleanupSteps
    <2> HIDE DEF r1
    <2>3. CallOK(r1)
      BY <1>2, <1>3, <2>1, <2>2
    <2> QED BY <2>3 DEF r1
  <1>4. ASSUME NEW goal \in Statuses, r.step \in {"deployment", "service"}, NamesPod(goal)
        PROVE  CallOK([r EXCEPT !.step = "status", !.goal = goal])
    <2> DEFINE r1 == [r EXCEPT !.step = "status", !.goal = goal]
    <2>1. r1.work = r.work /\ r1.step = "status" /\ r1.goal = goal
      BY DEF Calls
    <2> HIDE DEF r1
    <2>2. CallOK(r1)
      BY <1>2, <1>4, <2>1 DEF CleanupSteps
    <2> QED BY <2>2 DEF r1
  <1>5. ASSUME NEW dep, r.step = "deployment"
        PROVE  CallOK([r EXCEPT !.step = "service", !.dep = dep])
    <2> DEFINE r1 == [r EXCEPT !.step = "service", !.dep = dep]
    <2>1. r1.work = r.work /\ r1.step = "service"
      BY DEF Calls
    <2> HIDE DEF r1
    <2>2. CallOK(r1)
      BY <1>2, <1>5, <2>1 DEF CleanupSteps
    <2> QED BY <2>2 DEF r1
  <1> QED BY <1>1, <1>3, <1>4, <1>5, Zenon

\* Some version appended to the deposed leader's views, as in Wrote.
Wrote2(n) ==
    \/ \E w \in Workloads : /\ VersionOK(w)
                            /\ workload2' = Put(workload2, n, w)
                            /\ UNCHANGED <<deploy2, service2>>
    \/ \E d \in Deployments : /\ ChildOK(d) /\ Owned(Stored(deploy2[n]), d)
                              /\ deploy2' = Put(deploy2, n, d)
                              /\ UNCHANGED <<workload2, service2>>
    \/ \E s \in Services : /\ ChildOK(s) /\ Owned(Stored(service2[n]), s)
                           /\ service2' = Put(service2, n, s)
                           /\ UNCHANGED <<workload2, deploy2>>

\* What else the two operators have in common.
LEMMA SharedBuilds ==
    /\ Deposed!NoDeployment = NoDeployment /\ Deposed!NoService = NoService
    /\ \A w : /\ Deposed!buildInferenceDeployment(w) = buildInferenceDeployment(w)
              /\ Deposed!buildInferenceService(w) = buildInferenceService(w)
  BY DEF Deposed!NoDeployment, NoDeployment, Deposed!NoService, NoService,
         Deposed!buildInferenceDeployment, buildInferenceDeployment,
         Deposed!buildInferenceService, buildInferenceService

\* A step of the deposed leader's call writes what a leader's would, and what
\* is left of the call is in the condition its step presupposes.
LEMMA DeposedWorker ==
    ASSUME Fenced(rec2), CallOK(rec2), Deposed!Reconcile,
           rec2.step # "idle" =>
               /\ ChildOK(Stored(deploy2[rec2.name])) /\ ChildOK(Stored(service2[rec2.name]))
    PROVE  /\ rec2.step # "idle" /\ CallOK(rec2)'
           /\ Wrote2(rec2.name) \/ UNCHANGED views2
  <1> DEFINE n == rec2.name
             d == Stored(deploy2[n])
             s == Stored(service2[n])
             r == rec2.work
             Unwritten == UNCHANGED views2
  <1>1. rec2.step # "idle"
    BY DEF Deposed!Reconcile, Deposed!deleteOwnedDeployment, Deposed!deleteOwnedService,
           Deposed!RemoveFinalizer, Deposed!AddFinalizer, Deposed!updateStatus,
           Deposed!CreateDeployment, Deposed!ReconcileService, Deposed!FoundDeployment,
           Deposed!DeploymentAlreadyExists, Deposed!Conflict, Deposed!CallFails
  <1>2. /\ n \in Names /\ r \in Workloads /\ rec2.goal \in Statuses
        /\ rec2 \in Calls(rec2.dep)
    BY <1>1 DEF Fenced, Calls
  <1>3. VersionOK(r) /\ r.present /\ ChildOK(d) /\ ChildOK(s)
    BY <1>1 DEF CallOK
  <1>4. r.uid > 0 /\ r.uid \in Nat
    BY <1>2, <1>3 DEF VersionOK, Workloads
  <1>5. ASSUME NEW v \in Workloads, VersionOK(v), workload2' = Put(workload2, n, v),
               UNCHANGED <<deploy2, service2>>
        PROVE  Wrote2(n)
    BY <1>5, Zenon DEF Wrote2
  <1>6. ASSUME NEW v \in Deployments, ChildOK(v), Owned(d, v), deploy2' = Put(deploy2, n, v),
               UNCHANGED <<workload2, service2>>
        PROVE  Wrote2(n)
    BY <1>6, Zenon DEF Wrote2
  <1>7. ASSUME NEW v \in Services, ChildOK(v), Owned(s, v), service2' = Put(service2, n, v),
               UNCHANGED <<workload2, deploy2>>
        PROVE  Wrote2(n)
    BY <1>7, Zenon DEF Wrote2
  <1>8. UNCHANGED <<workload2, deploy2, service2>> => Unwritten
    BY DEF views2
  <1> DEFINE CallGoes == CallOK(rec2)'
  <1>9. ASSUME NEW r1, CallOK(r1), rec2' = r1 PROVE CallGoes
    BY <1>9 DEF CallOK
  <1>10. Deposed!Done \/ Deposed!Requeued => CallGoes
    <2>1. CallOK(Idle)
      BY DEF CallOK, Idle
    <2>2. Deposed!Done \/ Deposed!Requeued => rec2' = Idle
      BY Shared DEF Deposed!Done, Deposed!Requeued
    <2> QED BY <1>9, <2>1, <2>2
  <1>11. ASSUME NEW step \in CleanupSteps, Deposed!Goto(step), rec2.step \in CleanupSteps
         PROVE  CallGoes
    <2>1. rec2' = [rec2 EXCEPT !.step = step]
      BY <1>11 DEF Deposed!Goto
    <2>2. CallOK([rec2 EXCEPT !.step = step])
      BY <1>1, <1>2, <1>11, CallGoesOn, Zenon
    <2> QED BY <1>9, <2>1, <2>2
  <1>12. ASSUME NEW goal \in Statuses, Deposed!ThenStatus(goal), NamesPod(goal),
                rec2.step \in {"deployment", "service"}
         PROVE  CallGoes
    <2>1. rec2' = [rec2 EXCEPT !.step = "status", !.goal = goal]
      BY <1>12 DEF Deposed!ThenStatus
    <2>2. CallOK([rec2 EXCEPT !.step = "status", !.goal = goal])
      BY <1>1, <1>2, <1>12, CallGoesOn, Zenon
    <2> QED BY <1>9, <2>1, <2>2
  <1> HIDE DEF Unwritten, CallGoes, n, d, s
  <1> DEFINE Goal == (Wrote2(n) \/ Unwritten) /\ CallGoes
  <1>13. ASSUME NEW o, Deposed!deleteOwnedDeployment(o) PROVE Goal
    <2>1. Wrote2(n) \/ Unwritten
      <3>1. CASE UNCHANGED deploy2
        BY <1>8, <1>13, <3>1 DEF Deposed!deleteOwnedDeployment
      <3>2. CASE d.present /\ deploy2' = Put(deploy2, n, NoDeployment)
        <4>1. ChildOK(NoDeployment) /\ Owned(d, NoDeployment)
          BY <1>3, <3>2 DEF ChildOK, Owned, NoDeployment
        <4> QED BY <1>6, <1>13, <3>2, <4>1, RecordTypes DEF Deposed!deleteOwnedDeployment
      <3> QED BY <1>13, <3>1, <3>2, Shared, SharedBuilds
              DEF Deposed!deleteOwnedDeployment, Deposed!Self, n, d
    <2>2. CallGoes
      <3>1. "deleteService" \in CleanupSteps /\ "deleteDeployment" \in CleanupSteps
        BY DEF CleanupSteps
      <3> QED BY <1>10, <1>11, <1>13, <3>1 DEF Deposed!deleteOwnedDeployment
    <2> QED BY <2>1, <2>2
  <1>14. ASSUME NEW o, Deposed!deleteOwnedService(o) PROVE Goal
    <2>1. Wrote2(n) \/ Unwritten
      <3>1. CASE UNCHANGED service2
        BY <1>8, <1>14, <3>1 DEF Deposed!deleteOwnedService
      <3>2. CASE s.present /\ service2' = Put(service2, n, NoService)
        <4>1. ChildOK(NoService) /\ Owned(s, NoService)
          BY <1>3, <3>2 DEF ChildOK, Owned, NoService
        <4> QED BY <1>7, <1>14, <3>2, <4>1, RecordTypes DEF Deposed!deleteOwnedService
      <3> QED BY <1>14, <3>1, <3>2, Shared, SharedBuilds
              DEF Deposed!deleteOwnedService, Deposed!Self, n, s
    <2>2. CallGoes
      <3>1. "deleteService" \in CleanupSteps /\ "removeFinalizer" \in CleanupSteps
        BY DEF CleanupSteps
      <3> QED BY <1>10, <1>11, <1>14, <3>1 DEF Deposed!deleteOwnedService
    <2> QED BY <2>1, <2>2
  <1>15. ASSUME NEW o, Deposed!RemoveFinalizer(o) PROVE Goal
    <2>1. WithoutFinalizer(r) \in Workloads /\ VersionOK(WithoutFinalizer(r))
      BY <1>2, <1>3, RecordTypes, VersionsOK, Zenon
    <2>2. workload2' = Put(workload2, n, WithoutFinalizer(r)) /\ UNCHANGED <<deploy2, service2>>
      BY <1>15, Shared DEF Deposed!RemoveFinalizer, Deposed!Self, n
    <2>3. Deposed!Done \/ Deposed!Requeued
      BY <1>15 DEF Deposed!RemoveFinalizer
    <2> QED BY <1>5, <1>10, <2>1, <2>2, <2>3
  <1>16. ASSUME NEW o, Deposed!AddFinalizer(o) PROVE Goal
    <2> DEFINE v == [r EXCEPT !.finalizer = TRUE, !.rv = @ + 1]
    <2>1. v \in Workloads /\ VersionOK(v)
      BY <1>2, <1>3, VersionTypes, VersionsOK, Zenon
    <2>2. workload2' = Put(workload2, n, v) /\ UNCHANGED <<deploy2, service2>>
      BY <1>16, Shared DEF Deposed!AddFinalizer, Deposed!Self, n
    <2>3. Deposed!Requeued
      BY <1>16 DEF Deposed!AddFinalizer
    <2> HIDE DEF v
    <2> QED BY <1>5, <1>10, <2>1, <2>2, <2>3
  <1>17. ASSUME NEW o, Deposed!updateStatus(o) PROVE Goal
    <2> DEFINE v == [r EXCEPT !.status = rec2.goal, !.rv = @ + 1]
    <2>1. v \in Workloads /\ VersionOK(v)
      <3>1. NamesPod(rec2.goal)
        BY <1>17 DEF Deposed!updateStatus, CallOK
      <3> QED BY <1>2, <1>3, <3>1, VersionTypes, VersionsOK, Zenon
    <2>2. workload2' = Put(workload2, n, v) \/ UNCHANGED workload2
      BY <1>17, Shared DEF Deposed!updateStatus, Deposed!Self, n
    <2>3. UNCHANGED <<deploy2, service2>> /\ (Deposed!Done \/ Deposed!Requeued)
      BY <1>17 DEF Deposed!updateStatus
    <2> HIDE DEF v
    <2> QED BY <1>5, <1>8, <1>10, <2>1, <2>2, <2>3
  <1>18. ASSUME NEW o, Deposed!CreateDeployment(o) PROVE Goal
    <2> DEFINE v == buildInferenceDeployment(r)
    <2>1. v \in Deployments /\ ChildOK(v) /\ Owned(d, v)
      <3>1. v.present /\ v.owner = r.uid
        BY DEF buildInferenceDeployment
      <3>2. v \in Deployments
        BY <1>2, RecordTypes
      <3> HIDE DEF v
      <3> QED BY <1>4, <3>1, <3>2 DEF ChildOK, Owned
    <2>2. deploy2' = Put(deploy2, n, v) \/ UNCHANGED deploy2
      BY <1>18, Shared, SharedBuilds DEF Deposed!CreateDeployment, Deposed!Self, n
    <2>3. UNCHANGED <<workload2, service2>>
      BY <1>18 DEF Deposed!CreateDeployment
    <2>4. CallGoes
      BY <1>12, <1>18, GoalsOK, RecordTypes, Shared DEF Deposed!CreateDeployment
    <2> HIDE DEF v
    <2> QED BY <1>6, <1>8, <2>1, <2>2, <2>3, <2>4
  <1>19. ASSUME NEW o, Deposed!ReconcileService(o) PROVE Goal
    <2> DEFINE v == buildInferenceService(r)
    <2>1. v \in Services /\ ChildOK(v) /\ Owned(s, v)
      <3>1. v.present /\ v.owner = r.uid
        BY DEF buildInferenceService
      <3>2. v \in Services
        BY <1>2, RecordTypes
      <3> HIDE DEF v
      <3> QED BY <1>4, <3>1, <3>2 DEF ChildOK, Owned
    <2>2. service2' = Put(service2, n, v) \/ UNCHANGED service2
      BY <1>19, Shared, SharedBuilds DEF Deposed!ReconcileService, Deposed!Self, n
    <2>3. UNCHANGED <<workload2, deploy2>>
      BY <1>19 DEF Deposed!ReconcileService
    <2>4. CallGoes
      <3>1. Deposed!Done \/ Deposed!ThenStatus(StatusOf(rec2.dep))
        BY <1>19, Shared DEF Deposed!ReconcileService, Deposed!ReportStatus
      <3>2. StatusOf(rec2.dep) \in Statuses /\ NamesPod(StatusOf(rec2.dep))
        BY StatusTypes, GoalsOK
      <3> QED BY <1>10, <1>12, <1>19, <3>1, <3>2 DEF Deposed!ReconcileService
    <2> HIDE DEF v
    <2> QED BY <1>7, <1>8, <2>1, <2>2, <2>3, <2>4
  <1>20. ASSUME Deposed!FoundDeployment PROVE Goal
    <2> DEFINE dep == Deposed!Cached(deploy2[Deposed!Self])
    <2>1. /\ rec2' = [rec2 EXCEPT !.step = "service", !.dep = dep]
          /\ UNCHANGED views2 /\ rec2.step = "deployment"
      BY <1>20 DEF Deposed!FoundDeployment, Deposed!objects, views2
    <2> HIDE DEF dep
    <2>2. CallOK([rec2 EXCEPT !.step = "service", !.dep = dep])
      BY <1>1, <1>2, <2>1, CallGoesOn, Zenon
    <2>3. CallGoes
      BY <1>9, <2>1, <2>2
    <2> QED BY <2>1, <2>3 DEF Unwritten
  <1>21. ASSUME Deposed!DeploymentAlreadyExists PROVE Goal
    <2>1. CallGoes
      BY <1>12, <1>21, GoalsOK, RecordTypes, Shared DEF Deposed!DeploymentAlreadyExists
    <2> QED BY <1>21, <2>1 DEF Deposed!DeploymentAlreadyExists, Deposed!objects, Unwritten, views2
  <1>22. ASSUME Deposed!Conflict \/ Deposed!CallFails PROVE Goal
    BY <1>10, <1>22 DEF Deposed!Conflict, Deposed!CallFails, Deposed!objects, Unwritten, views2
  <1>23. Goal
    BY <1>13, <1>14, <1>15, <1>16, <1>17, <1>18, <1>19, <1>20, <1>21, <1>22
    DEF Deposed!Reconcile
  <1> QED BY <1>1, <1>23 DEF Unwritten, CallGoes, n

-----------------------------------------------------------------------------
(* Nothing is forgotten by two operators.                                  *)

\* A write is of the right type.
LEMMA WroteTypes ==
    ASSUME workload \in Views(Workloads), deploy \in Views(Deployments),
           service \in Views(Services), NEW n \in Names, Wrote(n)
    PROVE  /\ workload' \in Views(Workloads) /\ deploy' \in Views(Deployments)
           /\ service' \in Views(Services)
  <1>1. \A v \in Workloads : Put(workload, n, v) \in Views(Workloads)
    BY PutFacts
  <1>2. \A v \in Deployments : Put(deploy, n, v) \in Views(Deployments)
    BY PutFacts
  <1>3. \A v \in Services : Put(service, n, v) \in Views(Services)
    BY PutFacts
  <1> QED BY <1>1, <1>2, <1>3 DEF Wrote

\* A call of the deposed leader may fail as well.
LEMMA DeposedFaults ==
    ASSUME DeposedStep
    PROVE  /\ faults' = faults \/ (faults < MaxFaults /\ faults' = faults + 1)
           /\ UNCHANGED <<disturbances, crashes>>
  <1>1. \A o : Deposed!Outcome(o) =>
                   /\ faults' = faults \/ (faults < MaxFaults /\ faults' = faults + 1)
                   /\ UNCHANGED <<disturbances, crashes>>
    BY DEF Deposed!Outcome
  <1>2. Deposed!Reconcile =>
            /\ faults' = faults \/ (faults < MaxFaults /\ faults' = faults + 1)
            /\ UNCHANGED <<disturbances, crashes>>
    BY <1>1 DEF Deposed!Reconcile, Deposed!deleteOwnedDeployment, Deposed!deleteOwnedService,
           Deposed!RemoveFinalizer, Deposed!AddFinalizer, Deposed!updateStatus,
           Deposed!CreateDeployment, Deposed!ReconcileService, Deposed!FoundDeployment,
           Deposed!DeploymentAlreadyExists, Deposed!Conflict, Deposed!CallFails,
           Deposed!budgets
  <1> QED BY <1>2 DEF DeposedStep, Deposed!DeliverDeployment, Deposed!DeliverService,
                      Deposed!budgets

\* To the leader a step of the deposed leader is a write of somebody else.
LEMMA DeposedWrote ==
    ASSUME TypeOK, FencedByVersion, EventsWake, CallOK(rec2), SameChildren, DeposedStep
    PROVE  /\ CallOK(rec2)' /\ SameChildren' /\ UNCHANGED <<queue, rec>>
           /\ UNCHANGED objects \/ \E n \in Names : Wrote(n)
  <1>1. /\ workload \in Views(Workloads) /\ deploy \in Views(Deployments)
        /\ service \in Views(Services)
    BY TypeViews
  <1>2. /\ rec2.step # "idle" /\ Fenced(rec2) /\ UNCHANGED <<queue, rec>>
        /\ workload' = Follow(workload, workload2, workload2')
        /\ deploy' = Follow(deploy, deploy2, deploy2')
        /\ service' = Follow(service, service2, service2')
    BY DEF FencedByVersion, DeposedStep, Present2
  <1>3. /\ workload2 \in Views(Workloads) /\ deploy2 \in Views(Deployments)
        /\ service2 \in Views(Services)
        /\ \A n \in Names : /\ Stored(workload2[n]) = Stored(workload[n])
                            /\ Stored(deploy2[n]) = Stored(deploy[n])
                            /\ Stored(service2[n]) = Stored(service[n])
    BY <1>2 DEF FencedByVersion, OneServer, SameChildren, Present2, Views
  <1>4. /\ Follow(workload, workload2, workload2) = workload
        /\ Follow(deploy, deploy2, deploy2) = deploy
        /\ Follow(service, service2, service2) = service
    <2>1. ASSUME NEW S, NEW view \in Views(S), NEW old PROVE Follow(view, old, old) = view
      <3>1. Follow(view, old, old) = [n \in Names |-> view[n]]
        BY DEF Follow
      <3> QED BY <3>1 DEF Views
    <2> QED BY <1>1, <2>1
  <1> DEFINE Told == /\ UNCHANGED objects \/ \E n \in Names : Wrote(n)
                     /\ deploy2' \in Views(Deployments) /\ service2' \in Views(Services)
                     /\ \A m \in Names : /\ Stored(deploy2'[m]) = Stored(deploy'[m])
                                         /\ Stored(service2'[m]) = Stored(service'[m])
  <1>5. SUFFICES CallOK(rec2)' /\ Told
    BY <1>2 DEF SameChildren, Views
  <1>6. UNCHANGED views2 => Told
    BY <1>1, <1>2, <1>3, <1>4 DEF views2, objects
  <1>7. ASSUME NEW n \in Names, Wrote2(n) PROVE Told
    <2>1. CASE \E w \in Workloads : /\ VersionOK(w) /\ workload2' = Put(workload2, n, w)
                                    /\ UNCHANGED <<deploy2, service2>>
      <3>1. PICK w \in Workloads : /\ VersionOK(w) /\ workload2' = Put(workload2, n, w)
                                   /\ UNCHANGED <<deploy2, service2>>
        BY <2>1
      <3>2. workload' = workload \/ workload' = Put(workload, n, w)
        BY <1>1, <1>2, <1>3, <3>1, FollowPut
      <3>3. UNCHANGED <<deploy, service>>
        BY <1>2, <1>4, <3>1
      <3>4. UNCHANGED objects \/ Wrote(n)
        BY <3>1, <3>2, <3>3, Zenon DEF Wrote, objects
      <3> QED BY <1>3, <3>1, <3>3, <3>4
    <2>2. CASE \E d \in Deployments : /\ ChildOK(d) /\ Owned(Stored(deploy2[n]), d)
                                      /\ deploy2' = Put(deploy2, n, d)
                                      /\ UNCHANGED <<workload2, service2>>
      <3>1. PICK d \in Deployments : /\ ChildOK(d) /\ Owned(Stored(deploy2[n]), d)
                                     /\ deploy2' = Put(deploy2, n, d)
                                     /\ UNCHANGED <<workload2, service2>>
        BY <2>2
      <3>2. /\ deploy' = deploy \/ deploy' = Put(deploy, n, d)
            /\ deploy2' \in Views(Deployments)
            /\ \A m \in Names : Stored(deploy2'[m]) = Stored(deploy'[m])
        BY <1>1, <1>2, <1>3, <3>1, FollowPut
      <3>3. UNCHANGED <<workload, service>>
        BY <1>2, <1>4, <3>1
      <3>4. Owned(Stored(deploy[n]), d)
        BY <1>3, <3>1
      <3>5. UNCHANGED objects \/ Wrote(n)
        BY <3>1, <3>2, <3>3, <3>4, Zenon DEF Wrote, objects
      <3> QED BY <1>3, <3>1, <3>2, <3>3, <3>5
    <2>3. CASE \E s \in Services : /\ ChildOK(s) /\ Owned(Stored(service2[n]), s)
                                   /\ service2' = Put(service2, n, s)
                                   /\ UNCHANGED <<workload2, deploy2>>
      <3>1. PICK s \in Services : /\ ChildOK(s) /\ Owned(Stored(service2[n]), s)
                                  /\ service2' = Put(service2, n, s)
                                  /\ UNCHANGED <<workload2, deploy2>>
        BY <2>3
      <3>2. /\ service' = service \/ service' = Put(service, n, s)
            /\ service2' \in Views(Services)
            /\ \A m \in Names : Stored(service2'[m]) = Stored(service'[m])
        BY <1>1, <1>2, <1>3, <3>1, FollowPut
      <3>3. UNCHANGED <<workload, deploy>>
        BY <1>2, <1>4, <3>1
      <3>4. Owned(Stored(service[n]), s)
        BY <1>3, <3>1
      <3>5. UNCHANGED objects \/ Wrote(n)
        BY <3>1, <3>2, <3>3, <3>4, Zenon DEF Wrote, objects
      <3> QED BY <1>3, <3>1, <3>2, <3>3, <3>5
    <2> QED BY <1>7, <2>1, <2>2, <2>3 DEF Wrote2
  <1>8. ASSUME Deposed!Reconcile PROVE CallOK(rec2)' /\ Told
    <2>1. rec2.name \in Names
      BY <1>2 DEF Fenced
    <2>2. ChildOK(Stored(deploy2[rec2.name])) /\ ChildOK(Stored(service2[rec2.name]))
      BY <1>3, <2>1, EndsWake
    <2>3. CallOK(rec2)' /\ (Wrote2(rec2.name) \/ UNCHANGED views2)
      BY <1>2, <1>8, <2>2, DeposedWorker
    <2> QED BY <1>6, <1>7, <2>1, <2>3
  <1>9. ASSUME NEW n \in Names, Deposed!DeliverDeployment(n) \/ Deposed!DeliverService(n)
        PROVE  CallOK(rec2)' /\ Told
    <2>1. /\ rec2' = rec2 /\ workload2' = workload2
          /\ \/ /\ Len(deploy2[n]) > 1 /\ deploy2' = Delivered(deploy2, n)
                /\ service2' = service2
             \/ /\ Len(service2[n]) > 1 /\ service2' = Delivered(service2, n)
                /\ deploy2' = deploy2
      BY <1>9 DEF Deposed!DeliverDeployment, Deposed!DeliverService, Deposed!Delivered, Delivered
    <2>2. CallOK(rec2)'
      BY <2>1 DEF CallOK
    <2>3. ASSUME NEW S, NEW view \in Views(S), Len(view[n]) > 1
          PROVE  /\ Delivered(view, n) \in Views(S)
                 /\ \A m \in Names : Stored(Delivered(view, n)[m]) = Stored(view[m])
      BY <2>3, DeliveredFacts
    <2>4. /\ deploy2' \in Views(Deployments) /\ service2' \in Views(Services)
          /\ \A m \in Names : /\ Stored(deploy2'[m]) = Stored(deploy2[m])
                              /\ Stored(service2'[m]) = Stored(service2[m])
      BY <1>3, <2>1, <2>3
    <2>5. ASSUME NEW S, NEW view \in Views(S), NEW old, NEW new,
                 \A m \in Names : Stored(new[m]) = Stored(old[m])
          PROVE  Follow(view, old, new) = view
      <3>1. Follow(view, old, new) = [m \in Names |-> view[m]]
        BY <2>5 DEF Follow
      <3> QED BY <3>1 DEF Views
    <2>6. UNCHANGED <<workload, deploy, service>>
      BY <1>1, <1>2, <1>4, <2>1, <2>4, <2>5
    <2> QED BY <1>3, <2>2, <2>4, <2>6 DEF objects
  <1> HIDE DEF Told
  <1> QED BY <1>8, <1>9 DEF DeposedStep

\* What the leader and its cluster write reaches the deposed leader.
LEMMA LeadTells ==
    ASSUME TypeOK, TypeOK', SameChildren, Lead
    PROVE  SameChildren' /\ rec2' = rec2
  <1>1. rec2' = rec2 /\ ToDeposed
    BY DEF Lead
  <1>2. SUFFICES ASSUME Present2 PROVE SameChildren'
    BY <1>1 DEF SameChildren, Present2
  <1>3. /\ deploy2' = BothEnds(Follow(deploy2, deploy, deploy'))
        /\ service2' = BothEnds(Follow(service2, service, service'))
    BY <1>1, <1>2 DEF ToDeposed
  <1>4. /\ deploy \in Views(Deployments) /\ service \in Views(Services)
        /\ deploy' \in Views(Deployments) /\ service' \in Views(Services)
        /\ deploy2 \in Views(Deployments) /\ service2 \in Views(Services)
        /\ \A n \in Names : /\ Stored(deploy2[n]) = Stored(deploy[n])
                            /\ Stored(service2[n]) = Stored(service[n])
    BY <1>2 DEF SameChildren, TypeOK, Views
  <1>5. /\ deploy2' \in Views(Deployments)
        /\ \A n \in Names : Stored(deploy2'[n]) = Stored(deploy'[n])
    BY <1>3, <1>4, FollowEnds
  <1>6. /\ service2' \in Views(Services)
        /\ \A n \in Names : Stored(service2'[n]) = Stored(service'[n])
    BY <1>3, <1>4, FollowEnds
  <1> QED BY <1>5, <1>6 DEF SameChildren, Views

\* The new leader begins as after a restart, the old one keeps its call.
LEMMA TakeoverWakes ==
    ASSUME TypeOK, EventsWake, CallOK(rec), Takeover
    PROVE  /\ TypeOK' /\ EventsWake' /\ CallOK(rec)' /\ CallOK(rec2)' /\ SameChildren'
           /\ \A n \in Names : Handled(n)'
  <1>1. Restarted /\ rec2' = rec /\ UNCHANGED budgets
        /\ deploy2' = BothEnds(deploy) /\ service2' = BothEnds(service)
    BY DEF Takeover, Restarted
  <1>2. /\ workload \in Views(Workloads) /\ deploy \in Views(Deployments)
        /\ service \in Views(Services)
    BY TypeViews
  <1>3. /\ workload' \in Views(Workloads) /\ deploy' \in Views(Deployments)
        /\ service' \in Views(Services)
        /\ \A n \in Names : /\ deploy'[n] = <<Stored(deploy[n])>>
                            /\ service'[n] = <<Stored(service[n])>>
    BY <1>1, <1>2, LatestFacts DEF Restarted
  <1>4. TypeOK'
    <2>1. rec' \in Recs /\ rec'.step = "idle"
      BY <1>1, RecordTypes DEF Restarted, Idle
    <2>2. queue' \subseteq Names
      BY <1>1 DEF Restarted, Listed
    <2> QED BY <1>1, <1>3, <2>1, <2>2 DEF budgets, TypeOK, Views
  <1>5. /\ EventsWake' /\ rec' = Idle
        /\ \A n \in Names : Quiet(n)' => ~Stored(workload[n])'.present
    BY <1>1, RestartWakes
  <1>6. CallOK(rec)'
    BY <1>5 DEF CallOK, Idle
  <1>7. CallOK(rec2)'
    BY <1>1 DEF CallOK
  <1>8. SameChildren'
    <2>1. /\ deploy2' \in Views(Deployments) /\ service2' \in Views(Services)
          /\ \A n \in Names : /\ Stored(deploy2'[n]) = Stored(deploy[n])
                              /\ Stored(service2'[n]) = Stored(service[n])
      BY <1>1, <1>2, EndsFacts
    <2>2. \A n \in Names : /\ Stored(deploy'[n]) = Stored(deploy[n])
                           /\ Stored(service'[n]) = Stored(service[n])
      BY <1>3, UpToDate
    <2> QED BY <2>1, <2>2 DEF SameChildren, Views
  <1>9. \A n \in Names : rec'.name # n
    BY <1>5, NamesAssumption DEF Idle
  <1>10. \A n \in Names : Handled(n)'
    BY <1>5, <1>9 DEF Handled, AsIntended
  <1> QED BY <1>4, <1>5, <1>6, <1>7, <1>8, <1>10

\* The inductive invariant: NothingForgottenByTwo, once no call has failed.
TakeoverInv ==
    /\ TypeOK /\ EventsWake /\ CallOK(rec) /\ CallOK(rec2) /\ SameChildren
    /\ faults = 0 => \A n \in Names : Handled(n)

\* At first there is nothing to forget.
LEMMA TakeoverInvInit == TInit => TakeoverInv
  <1> SUFFICES ASSUME TInit PROVE TakeoverInv
    OBVIOUS
  <1>1. Init /\ rec2 = Idle
    BY DEF TInit
  <1>2. CallOK(rec2) /\ SameChildren
    BY <1>1 DEF CallOK, Idle, SameChildren, Present2
  <1> QED BY <1>1, <1>2, TypeInit, HandledInit DEF TakeoverInv

\* One step, of whichever operator, forgets nothing.
LEMMA TakeoverInvStep ==
    ASSUME "foreign" \notin Disturbances, TakeoverInv, FencedByVersion, [TNext]_tvars
    PROVE  TakeoverInv'
  <1>1. /\ TypeOK /\ EventsWake /\ CallOK(rec) /\ CallOK(rec2) /\ SameChildren
        /\ faults = 0 => \A n \in Names : Handled(n)
    BY DEF TakeoverInv
  <1>2. CASE Next /\ Lead
    <2>1. TypeOK'
      BY <1>1, <1>2, TypeNext
    <2>2. EventsWake' /\ CallOK(rec)'
      BY <1>1, <1>2, WakesStep
    <2>3. SameChildren' /\ rec2' = rec2
      BY <1>1, <1>2, <2>1, LeadTells
    <2>4. CallOK(rec2)'
      BY <1>1, <2>3 DEF CallOK
    <2>5. ASSUME faults' = 0 PROVE \A n \in Names : Handled(n)'
      BY <1>1, <1>2, <2>5, FaultsStay, HandledStep
    <2> QED BY <2>1, <2>2, <2>3, <2>4, <2>5 DEF TakeoverInv
  <1>3. CASE DeposedStep
    <2>1. /\ CallOK(rec2)' /\ SameChildren' /\ UNCHANGED <<queue, rec>>
          /\ UNCHANGED objects \/ \E n \in Names : Wrote(n)
      BY <1>1, <1>3, DeposedWrote
    <2>2. /\ faults' = faults \/ (faults < MaxFaults /\ faults' = faults + 1)
          /\ UNCHANGED <<disturbances, crashes>>
      BY <1>3, DeposedFaults
    <2>3. TypeOK'
      <3>1. /\ workload \in Views(Workloads) /\ deploy \in Views(Deployments)
            /\ service \in Views(Services)
        BY <1>1, TypeViews
      <3>2. /\ workload' \in Views(Workloads) /\ deploy' \in Views(Deployments)
            /\ service' \in Views(Services)
        BY <2>1, <3>1, WroteTypes DEF objects
      <3>3. faults' \in 0..MaxFaults
        BY <1>1, <2>2, BoundsAssumption DEF TypeOK
      <3> QED BY <1>1, <2>1, <2>2, <3>2, <3>3 DEF TypeOK, Views
    <2>4. EventsWake'
      <3>1. CASE UNCHANGED objects
        BY <1>1, <3>1 DEF EventsWake, objects
      <3>2. CASE \E n \in Names : Wrote(n)
        BY <1>1, <3>2, WroteFacts
      <3> QED BY <2>1, <3>1, <3>2
    <2>5. CallOK(rec)'
      BY <1>1, <2>1 DEF CallOK
    <2>6. ASSUME faults' = 0, NEW m \in Names PROVE Handled(m)'
      <3>1. Handled(m)
        <4>1. faults \in Nat
          BY <1>1, TypeViews, BoundsAssumption
        <4> QED BY <1>1, <2>2, <2>6, <4>1
      <3>2. CASE UNCHANGED <<workload[m], deploy[m], service[m]>>
        BY <2>1, <3>1, <3>2, StaysHandled
      <3>3. CASE Wrote(m)
        BY <1>1, <3>3, WroteFacts DEF Handled
      <3>4. UNCHANGED objects => UNCHANGED <<workload[m], deploy[m], service[m]>>
        BY DEF objects
      <3>5. ASSUME NEW n \in Names, Wrote(n), m # n
            PROVE  UNCHANGED <<workload[m], deploy[m], service[m]>>
        BY <1>1, <3>5, WroteFacts
      <3> QED BY <2>1, <3>2, <3>3, <3>4, <3>5
    <2> QED BY <2>1, <2>3, <2>4, <2>5, <2>6 DEF TakeoverInv
  <1>4. CASE Takeover
    BY <1>1, <1>4, TakeoverWakes DEF TakeoverInv
  <1>5. CASE DeposedExits \/ UNCHANGED tvars
    <2>1. UNCHANGED vars /\ UNCHANGED views2 /\ (rec2' = rec2 \/ rec2' = Idle)
      BY <1>5 DEF DeposedExits, tvars, views2
    <2>2. [Next]_vars /\ faults' = faults
      BY <2>1 DEF vars
    <2>3. TypeOK' /\ EventsWake' /\ CallOK(rec)'
      BY <1>1, <2>2, TypeNext, WakesStep
    <2>4. faults' = 0 => \A n \in Names : Handled(n)'
      BY <1>1, <2>2, HandledStep
    <2>5. CallOK(rec2)' /\ SameChildren'
      <3>1. CASE rec2' = rec2
        BY <1>1, <2>1, <3>1 DEF CallOK, SameChildren, Present2, views2, vars
      <3>2. CASE rec2' = Idle
        BY <3>2 DEF CallOK, Idle, SameChildren, Present2
      <3> QED BY <2>1, <3>1, <3>2
    <2> QED BY <2>3, <2>4, <2>5 DEF TakeoverInv
  <1> QED BY <1>2, <1>3, <1>4, <1>5 DEF TNext

\* What NoneForgotten says of one operator holds of the leader beside a deposed
\* one, whatever is left of the other's call and whenever it is sent: the
\* leader has a wake-up for every write of it.
THEOREM TakeoverForgetsNothing ==
    ASSUME "foreign" \notin Disturbances
    PROVE  TSpec => [](TypeOK /\ (faults = 0 => NothingForgottenByTwo))
  <1>1. TakeoverInv /\ FencedByVersion /\ [TNext]_tvars => TakeoverInv'
    BY TakeoverInvStep
  <1>2. TakeoverInv => TypeOK /\ (faults = 0 => NothingForgottenByTwo)
    BY HandledMeans DEF TakeoverInv, NothingForgotten, NothingForgottenByTwo
  <1> QED BY <1>1, <1>2, TakeoverInvInit, FenceHolds, PTL DEF TSpec

\* A workload with nothing queued, running or undelivered for the leader is as
\* intended, although a deposed leader may have deleted or created its children
\* meanwhile, for as long as no call has failed.
THEOREM TakeoverLosesNoWakeup ==
    ASSUME "foreign" \notin Disturbances
    PROVE  TSpec => [](faults = 0 => QuiescentConverged)
  <1>1. NothingForgottenByTwo => QuiescentConverged
    BY DEF NothingForgottenByTwo, NothingForgotten
  <1> QED BY <1>1, TakeoverForgetsNothing, PTL

=============================================================================
