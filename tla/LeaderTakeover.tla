---------------------------- MODULE LeaderTakeover ----------------------------
(***************************************************************************)
(* Two operators for a while.  deployment.yaml runs the operator with       *)
(* --leader-elect; a lease does not fence: a leader that lost it (a pause,  *)
(* a partition) may send what is left of the Reconcile call it was in after *)
(* its successor has listed the objects and begun to work.                  *)
(*                                                                         *)
(* The successor is GPUWorkloadReconciler itself.  The deposed leader is a  *)
(* second instance of it, restricted to finishing its call, with its own    *)
(* worker, queue and caches.  Both write to one API server: a version that  *)
(* one of them appends to its view is appended to the other's view as well. *)
(***************************************************************************)
EXTENDS GPUWorkloadReconciler

CONSTANT MaxTakeovers  \* how often the lease changes hands

ASSUME MaxTakeoversAssumption == MaxTakeovers \in Nat

VARIABLES
    workload2, deploy2, service2,  \* the deposed leader's views,
    queue2, rec2,                  \* its queue, which it serves no more, and call
    takeovers                      \* takeovers so far

Deposed ==
    INSTANCE GPUWorkloadReconciler
    WITH workload <- workload2, deploy <- deploy2, service <- service2,
         queue <- queue2, rec <- rec2

views2 == <<workload2, deploy2, service2>>
tvars == <<vars, views2, queue2, rec2, takeovers>>

-----------------------------------------------------------------------------

\* There is no deposed leader: its variables hold their initial values.
Gone == [workload |-> [n \in Names |-> <<Tombstone(0, 0)>>],
         deploy |-> [n \in Names |-> <<NoDeployment>>],
         service |-> [n \in Names |-> <<NoService>>]]

Present2 == rec2.step # "idle"

\* A view after another operator's view of the same objects went from old to
\* new: what was written is on its way here too.
Follow(view, old, new) ==
    [n \in Names |-> IF Stored(new[n]) = Stored(old[n]) THEN view[n]
                     ELSE Append(view[n], Stored(new[n]))]

\* All that a call can still read of a view: its two ends.  (A version between
\* them was at the end once, and could have been delivered then.)
BothEnds(view) ==
    [n \in Names |-> IF Len(view[n]) = 1 THEN view[n]
                     ELSE <<Cached(view[n]), Stored(view[n])>>]

\* What the successor or the environment writes reaches the deposed leader.
\* The rest of a call reads no GPUWorkload from the cache.
ToDeposed ==
    IF Present2
    THEN /\ workload2' = Latest(workload')
         /\ deploy2' = BothEnds(Follow(deploy2, deploy, deploy'))
         /\ service2' = BothEnds(Follow(service2, service, service'))
         /\ UNCHANGED queue2
    ELSE /\ workload2' = Gone.workload /\ deploy2' = Gone.deploy
         /\ service2' = Gone.service /\ queue2' = {}

Lead == ToDeposed /\ UNCHANGED <<rec2, takeovers>>

\* A step of the deposed leader: the rest of its call, and its watches.
DeposedStep ==
    /\ Present2
    /\ \/ Deposed!Reconcile
       \/ \E n \in Names : Deposed!DeliverDeployment(n) \/ Deposed!DeliverService(n)
    /\ workload' = Follow(workload, workload2, workload2')
    /\ deploy' = Follow(deploy, deploy2, deploy2')
    /\ service' = Follow(service, service2, service2')
    /\ UNCHANGED <<queue, rec, takeovers>>

\* The deposed leader notices: mgr.Start returns and the process exits, in the
\* middle of its call.
DeposedExits ==
    /\ Present2
    /\ rec2' = Idle
    /\ UNCHANGED <<vars, views2, queue2, takeovers>>

\* The lease expires during a call, and another process starts as Crash says.
Takeover ==
    /\ takeovers < MaxTakeovers
    /\ takeovers' = takeovers + 1
    /\ rec.step # "idle" /\ ~Present2
    /\ workload2' = Latest(workload) /\ deploy2' = BothEnds(deploy)
    /\ service2' = BothEnds(service)
    /\ queue2' = {} /\ rec2' = rec
    /\ workload' = Latest(workload)
    /\ deploy' = Latest(deploy)
    /\ service' = Latest(service)
    /\ queue' = Listed
    /\ rec' = Idle
    /\ UNCHANGED budgets

-----------------------------------------------------------------------------

TInit ==
    /\ Init
    /\ workload2 = Gone.workload /\ deploy2 = Gone.deploy
    /\ service2 = Gone.service
    /\ queue2 = {} /\ rec2 = Idle
    /\ takeovers = 0

TNext == (Next /\ Lead) \/ DeposedStep \/ DeposedExits \/ Takeover

TSpec == TInit /\ [][TNext]_tvars

-----------------------------------------------------------------------------
(* Properties; QuiescentConverged is checked of the leader as well: what a  *)
(* deposed leader deletes is restored, what it creates is adopted or        *)
(* collected, for each of its writes reaches the leader as an event.        *)

\* Neither operator undoes what the other, a user or Kubernetes has written to
\* a GPUWorkload since it was read: not even a deposed leader that finishes its
\* call after its successor has deleted the workload and a user has made
\* another of that name.
TakeoverKeepsWrites ==
    [][\A n \in Names :
          LET w == Stored(workload[n])
              v == Stored(workload'[n])
          IN  (v # w /\ (rec' # rec \/ rec2' # rec2)) =>
                 /\ v.uid = w.uid
                 /\ w.finalizer /\ v.present /\ ~w.deleting => v.finalizer
                 /\ v.present => <<v.spec, v.deleting, v.hold>>
                                   = <<w.spec, w.deleting, w.hold>>
                 /\ ~v.present => w.deleting /\ ~w.hold]_tvars

-----------------------------------------------------------------------------
(* The inductive invariant behind TakeoverKeepsWrites.                     *)

\* A view is in order: nothing in it is newer than the stored version, and a
\* resourceVersion stands for one version.
InOrder(view) ==
    \A i \in 1..Len(view) :
        /\ view[i].rv <= Stored(view).rv
        /\ view[i].rv = Stored(view).rv => view[i] = Stored(view)

Ordered ==
    /\ workload \in [Names -> Seq(Workloads) \ {<<>>}]
    /\ \A n \in Names : InOrder(workload[n])

\* What a call r read is an earlier version of the stored one or that version
\* itself, whoever has written since.
Fenced(r) ==
    /\ r \in [step : Steps, name : Names \cup {NoName}, work : Workloads,
              dep : {r.dep}, goal : Statuses]
    /\ r.step # "idle" =>
          LET w == r.work
              last == Stored(workload[r.name])
          IN  /\ r.name \in Names
              /\ w.rv <= last.rv
              /\ w.rv = last.rv => w = last
              /\ w.present
              /\ r.step \in CleanupSteps => w.deleting

\* The deposed leader's resourceVersion check is made of what is stored.
OneServer ==
    Present2 => /\ workload2 \in [Names -> Seq(Workloads) \ {<<>>}]
                /\ \A n \in Names : Stored(workload2[n]) = Stored(workload[n])

FencedByVersion == Ordered /\ Fenced(rec) /\ Fenced(rec2) /\ OneServer

-----------------------------------------------------------------------------
(* The inductive invariant behind QuiescentConverged, for as long as no call *)
(* of either operator has failed: NothingForgotten of the leader, and that   *)
(* what the deposed leader may still write is what a leader would.           *)

\* The deposed leader's writes of children are made of what is stored.
SameChildren ==
    Present2 =>
        /\ deploy2 \in [Names -> Seq(Deployments) \ {<<>>}]
        /\ service2 \in [Names -> Seq(Services) \ {<<>>}]
        /\ \A n \in Names : /\ Stored(deploy2[n]) = Stored(deploy[n])
                            /\ Stored(service2[n]) = Stored(service[n])

NothingForgottenByTwo == NothingForgotten /\ CallOK(rec2) /\ SameChildren

=============================================================================
