----------------------------- MODULE MCAdmission -----------------------------
(* Instances of Admission for TLC. *)
EXTENDS Admission

\* Each field left out or at an end of its range.
Valid ==
    [modelName : {"facebook/opt-125m"}, gpu : {Absent, 0, 1, 8},
     partitionMode : {Absent, "MIG"}, tokenQuota : {Absent, 1, 100000},
     kvCacheGB : {Absent, 1}]

\* One field just beyond its range.
Invalid ==
    LET manifest == [modelName |-> "facebook/opt-125m", gpu |-> 1,
                     partitionMode |-> "MPS", tokenQuota |-> 1, kvCacheGB |-> 1]
    IN  {[manifest EXCEPT !.modelName = m] : m \in {Absent, Blank}}
        \cup {[manifest EXCEPT !.gpu = g] : g \in {-1, 9}}
        \cup {[manifest EXCEPT !.partitionMode = p] : p \in {Blank, "mps"}}
        \cup {[manifest EXCEPT !.tokenQuota = q] : q \in {0, 100001}}
        \cup {[manifest EXCEPT !.kvCacheGB = 0]}

Boundaries == Valid \cup Invalid \cup {NoSpec}

=============================================================================
