------------------------ MODULE ModelPreloaderProofs ------------------------
(***************************************************************************)
(* Proofs about ModelPreloader for any number of pods, files and failed    *)
(* passes.  Files are only ever added, so what a pass has seen on the disk *)
(* is still there when the pass relies on it.                              *)
(***************************************************************************)
EXTENDS ModelPreloader, TLAPS

\* The test of is_model_cached, were it made at once.
Usable == Config \in disk /\ disk \cap Weights # {}

\* What a pass has seen is still there.
SeenIsThere ==
    \A p \in Pods :
        /\ sawWeights[p] => disk \cap Weights # {}
        /\ pc[p] = "mark" => Usable

Inv == TypeOK /\ SeenIsThere /\ ReadyMeansUsable

-----------------------------------------------------------------------------

\* The directory is empty and no pass has seen anything.
LEMMA InitInv == Init => Inv
<1> SUFFICES ASSUME Init PROVE Inv
    OBVIOUS
<1>1. TypeOK
  <2>1. sawWeights \in [Pods -> BOOLEAN]
      BY Zenon DEF Init
  <2>2. pc \in [Pods -> {"scan", "config", "download", "mark", "done", "failed"}]
      BY DEF Init
  <2>3. failures \in 0..MaxFailures
      BY FilesAssumption DEF Init
  <2>4. disk \subseteq Files /\ ready \in BOOLEAN
      BY DEF Init
  <2> QED
      BY <2>1, <2>2, <2>3, <2>4 DEF TypeOK
<1>2. SeenIsThere
    BY DEF Init, SeenIsThere
<1>3. ReadyMeansUsable
    BY DEF Init, ReadyMeansUsable
<1> QED
    BY <1>1, <1>2, <1>3 DEF Inv

\* A step of a pass keeps Inv.
LEMMA NextInv == Inv /\ [Next]_vars => Inv'
<1> SUFFICES ASSUME Inv, [Next]_vars PROVE Inv'
    OBVIOUS
<1> USE FilesAssumption
        DEF Inv, TypeOK, SeenIsThere, Usable, ReadyMeansUsable, At
<1>1. ASSUME NEW p \in Pods, ScanWeights(p) PROVE Inv'
    BY <1>1 DEF ScanWeights
<1>2. ASSUME NEW p \in Pods, ReadConfig(p) PROVE Inv'
    BY <1>2 DEF ReadConfig
<1>3. ASSUME NEW p \in Pods, FetchFile(p) PROVE Inv'
    BY <1>3 DEF FetchFile
<1>4. ASSUME NEW p \in Pods, DownloadDone(p) PROVE Inv'
  <2>1. Usable
      BY <1>4 DEF DownloadDone, Files
  <2> QED
      BY <1>4, <2>1 DEF DownloadDone
<1>5. ASSUME NEW p \in Pods, create_ready_marker(p) PROVE Inv'
    BY <1>5 DEF create_ready_marker
<1>6. ASSUME NEW p \in Pods, Fail(p) PROVE Inv'
    BY <1>6 DEF Fail
<1>7. ASSUME NEW p \in Pods, Retry(p) PROVE Inv'
    BY <1>7 DEF Retry
<1>8. CASE UNCHANGED vars
    BY <1>8 DEF vars
<1> QED
    BY <1>1, <1>2, <1>3, <1>4, <1>5, <1>6, <1>7, <1>8 DEF Next, Pass

\* Every variable keeps its type.
THEOREM TypeCorrect == Spec => []TypeOK
<1>1. Inv => TypeOK
    BY DEF Inv
<1> QED
    BY <1>1, InitInv, NextInv, PTL DEF Spec

\* The marker is written only over a configuration and at least one weight
\* file, for any number of pods filling one directory.
THEOREM MarkerIsUsable == Spec => []ReadyMeansUsable
<1>1. Inv => ReadyMeansUsable
    BY DEF Inv
<1> QED
    BY <1>1, InitInv, NextInv, PTL DEF Spec

-----------------------------------------------------------------------------

\* Unless a pass has failed, whoever put the first file in place is still at it
\* when files are missing.
SomebodyFills ==
    disk # {} /\ ~(Files \subseteq disk)
        => failures > 0 \/ \E p \in Pods : pc[p] = "download"

\* Nobody leaves a download before all files are there, but by failing.
LEMMA NextSomebodyFills == Inv /\ SomebodyFills /\ [Next]_vars => SomebodyFills'
<1> SUFFICES ASSUME Inv, SomebodyFills, [Next]_vars,
                    disk' # {}, ~(Files \subseteq disk')
             PROVE  failures' > 0 \/ \E p \in Pods : pc'[p] = "download"
    BY DEF SomebodyFills, Files
<1> USE DEF Inv, TypeOK, At
<1>1. ASSUME NEW p \in Pods, FetchFile(p) PROVE pc'[p] = "download"
    BY <1>1 DEF FetchFile
<1>2. ASSUME NEW p \in Pods, Fail(p) PROVE failures' > 0
    BY <1>2, FilesAssumption DEF Fail
<1>3. ASSUME NEW p \in Pods,
             ScanWeights(p) \/ ReadConfig(p) \/ create_ready_marker(p) \/ Retry(p)
      PROVE  failures' > 0 \/ \E q \in Pods : pc'[q] = "download"
  <2>1. disk' = disk /\ failures' = failures /\ pc[p] # "download"
        /\ \A q \in Pods : q # p => pc'[q] = pc[q]
      BY <1>3 DEF ScanWeights, ReadConfig, create_ready_marker, Retry
  <2>2. failures > 0 \/ \E q \in Pods : pc[q] = "download"
      BY <2>1 DEF SomebodyFills
  <2> QED BY <2>1, <2>2
<1>4. ASSUME NEW p \in Pods, DownloadDone(p) PROVE FALSE
    BY <1>4 DEF DownloadDone
<1>5. CASE UNCHANGED vars
    BY <1>5 DEF vars, SomebodyFills
<1> QED BY <1>1, <1>2, <1>3, <1>4, <1>5 DEF Next, Pass

\* A directory that is marked while files are missing is being filled, unless a
\* pass has failed, for any number of pods.
THEOREM MarkedEarlyIsFilled == Spec => []IncompleteOnlyWhileFilling
<1>1. Init => SomebodyFills
    BY DEF Init, SomebodyFills
<1>2. Inv /\ SomebodyFills => IncompleteOnlyWhileFilling
    BY DEF Inv, SomebodyFills, IncompleteOnlyWhileFilling, ReadyMeansUsable
<1> QED
    BY <1>1, <1>2, InitInv, NextInv, NextSomebodyFills, PTL DEF Spec

=============================================================================
