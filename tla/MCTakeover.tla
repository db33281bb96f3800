------------------------------ MODULE MCTakeover ------------------------------
(* TLC instance of LeaderTakeover. *)
EXTENDS LeaderTakeover

\* Resource versions are only compared with each other: counted back from the
\* stored one, they make equal what differs in the number of past writes only.
Aged(w, n) == [w EXCEPT !.rv = Stored(workload[n]).rv - @]

AgedRec(r) == IF r.step = "idle" THEN r ELSE [r EXCEPT !.work = Aged(@, r.name)]

\* What the rest of the deposed leader's call can still read or write: nothing
\* once its next update is bound to conflict.
Conflicts ==
    /\ rec2.step \in {"removeFinalizer", "addFinalizer", "status"}
    /\ Stored(workload[rec2.name]).rv # rec2.work.rv

Rest ==
    LET ReadsIn(steps, view) ==
          IF rec2.step \in steps THEN <<Cached(view[rec2.name])>> ELSE <<>>
    IN  IF rec2.step = "idle" \/ Conflicts THEN <<>>
        ELSE <<AgedRec(rec2),
               ReadsIn({"deleteDeployment", "deployment"}, deploy2),
               ReadsIn({"deleteDeployment", "deleteService", "deployment",
                        "service"}, service2)>>

\* Two states with the same Future have the same steps to take.
Future ==
    <<[n \in Names |-> [i \in 1..Len(workload[n]) |-> Aged(workload[n][i], n)]],
      deploy, service, queue, AgedRec(rec), budgets, Rest, takeovers>>

=============================================================================
