--------------------------- MODULE ModelPreloader ---------------------------
(***************************************************************************)
(* src/inference/model_preloader.py: the init container that fills a       *)
(* model's directory on the persistent volume.  All pods that serve the    *)
(* model share that directory, and the kubelet runs the container again    *)
(* until it has once ended well, so several passes meet on one disk.       *)
(* snapshot_download is external: it puts the files it does not find in    *)
(* place one at a time and in any order, and returns when all are there.   *)
(***************************************************************************)
EXTENDS Integers, FiniteSets

CONSTANTS
    Pods,        \* pods whose init container uses the directory
    Config,      \* config.json
    Weights,     \* the model's *.safetensors and *.bin files
    OtherFiles,  \* the tokenizer and the like
    MaxFailures  \* bound: passes that fail or are cut short

ASSUME FilesAssumption ==
    /\ Weights # {} /\ Config \notin Weights
    /\ MaxFailures \in Nat

Files == {Config} \cup Weights \cup OtherFiles

VARIABLES
    disk,        \* files in place in cache_path
    ready,       \* .aperture-ready is there
    pc,          \* where the pass of each pod is
    sawWeights,  \* model_files of is_model_cached is not empty
    failures     \* passes that have failed

vars == <<disk, ready, pc, sawWeights, failures>>

Init ==
    /\ disk = {} /\ ready = FALSE /\ failures = 0
    /\ pc = [p \in Pods |-> "scan"]
    /\ sawWeights = [p \in Pods |-> FALSE]

At(p, from, to) == pc[p] = from /\ pc' = [pc EXCEPT ![p] = to]

\* is_model_cached first lists the weight files ...
ScanWeights(p) ==
    /\ At(p, "scan", "config")
    /\ sawWeights' = [sawWeights EXCEPT ![p] = disk \cap Weights # {}]
    /\ UNCHANGED <<disk, ready, failures>>

\* Mutation: a configuration or a weight file will do.
ReadConfigOrWeights(p) ==
    /\ \/ (Config \in disk \/ sawWeights[p]) /\ At(p, "config", "mark")
       \/ ~(Config \in disk \/ sawWeights[p]) /\ At(p, "config", "download")
    /\ UNCHANGED <<disk, ready, sawWeights, failures>>

\* ... and then looks for the configuration; with both it is a cache hit.
ReadConfig(p) ==
    /\ \/ Config \in disk /\ sawWeights[p] /\ At(p, "config", "mark")
       \/ ~(Config \in disk /\ sawWeights[p]) /\ At(p, "config", "download")
    /\ UNCHANGED <<disk, ready, sawWeights, failures>>

FetchFile(p) ==
    /\ pc[p] = "download"
    /\ \E f \in Files \ disk : disk' = disk \cup {f}
    /\ UNCHANGED <<ready, pc, sawWeights, failures>>

\* Mutation: the download waits for the marker of another pod.
DownloadWaits(p) ==
    /\ At(p, "download", "mark")
    /\ Files \subseteq disk /\ ready
    /\ UNCHANGED <<disk, ready, sawWeights, failures>>

\* Mutation: an exception of the download is logged and nothing more.
DownloadDoneOrNot(p) ==
    /\ At(p, "download", "mark")
    /\ UNCHANGED <<disk, ready, sawWeights, failures>>

DownloadDone(p) ==
    /\ At(p, "download", "mark")
    /\ Files \subseteq disk
    /\ UNCHANGED <<disk, ready, sawWeights, failures>>

create_ready_marker(p) ==
    /\ At(p, "mark", "done")
    /\ ready' = TRUE
    /\ UNCHANGED <<disk, sawWeights, failures>>

\* The download raised and the pass exits with 1, or the pod was killed.
Fail(p) ==
    /\ pc[p] # "failed" /\ pc[p] # "done"
    /\ failures < MaxFailures
    /\ failures' = failures + 1
    /\ pc' = [pc EXCEPT ![p] = "failed"]
    /\ UNCHANGED <<disk, ready, sawWeights>>

\* The kubelet runs a failed init container again.
Retry(p) ==
    /\ At(p, "failed", "scan")
    /\ UNCHANGED <<disk, ready, sawWeights, failures>>

-----------------------------------------------------------------------------

Pass(p) ==
    \/ ScanWeights(p) \/ ReadConfig(p) \/ FetchFile(p) \/ DownloadDone(p)
    \/ create_ready_marker(p) \/ Retry(p)

Next == \E p \in Pods : Pass(p) \/ Fail(p)

Spec == Init /\ [][Next]_vars

\* A pass goes on unless it fails, and the kubelet retries.
FairSpec == Spec /\ \A p \in Pods : WF_vars(Pass(p))

-----------------------------------------------------------------------------

TypeOK ==
    /\ disk \subseteq Files /\ ready \in BOOLEAN
    /\ pc \in [Pods -> {"scan", "config", "download", "mark", "done", "failed"}]
    /\ sawWeights \in [Pods -> BOOLEAN]
    /\ failures \in 0..MaxFailures

\* What is announced as ready has its configuration and some weights,
\* although the two are looked for one after the other and on a disk that
\* other pods are filling.
ReadyMeansUsable ==
    ready => Config \in disk /\ disk \cap Weights # {}

\* A directory that is announced as ready too early, because a pass met the download
\* of another pod, is still being filled: as long as no pass has failed, somebody
\* is at it until all files are in place.
IncompleteOnlyWhileFilling ==
    ready /\ ~(Files \subseteq disk)
        => failures > 0 \/ \E p \in Pods : pc[p] = "download"

\* Every pod gets through its init container, however passes fail and
\* whatever they leave on the disk.
EveryPodStarts == \A p \in Pods : <>(pc[p] = "done")

\* "Create a marker file indicating the model is fully cached."
ReadyMeansComplete == ready => Files \subseteq disk

=============================================================================
