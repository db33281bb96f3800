------------------------------- MODULE Admission -------------------------------
(***************************************************************************)
(* The way of one GPUWorkload's spec from a user's manifest to the         *)
(* environment of the inference container.  On that way it is              *)
(*   - given defaults and tested by the schema of operator/config/crd.yaml, *)
(*   - tested by the webhook, if k8s/webhook.yaml is applied: its           *)
(*     failurePolicy is Fail, and no operator built from main.go serves it, *)
(*   - read into a Go struct and written back as a whole whenever the       *)
(*     operator changes the finalizer (omitempty drops zero values),        *)
(*   - printed into environment variables by buildInferenceDeployment.      *)
(* Stale caches, conflicts and failures are in GPUWorkloadReconciler, where *)
(* a spec is an opaque value; here it has its fields and each pass of the   *)
(* operator is one step.                                                    *)
(***************************************************************************)
EXTENDS Integers

CONSTANTS
    Words,      \* texts a field may hold
    Blank,      \* the empty one
    Manifests,  \* the specs users write
    Absent,     \* the value of a field that is left out
    NoSpec,     \* the value of a spec that is left out
    None,       \* no object, no container
    Builds      \* {FALSE}: main.go as it is; TRUE: registration restored

ASSUME WordsAssumption ==
    {Blank, "MPS", "MIG"} \subseteq Words /\ Blank \notin {"MPS", "MIG"}
ASSUME AbsentAssumption == Absent \notin Int /\ Absent \notin Words
ASSUME BuildsAssumption == Builds \subseteq BOOLEAN

Texts == Words \cup {Absent}
Numbers == Int \cup {Absent}

\* A spec as JSON, where there is one, and the GPUWorkloadSpec it is decoded to.
Raws == [modelName : Texts, gpu : Numbers, partitionMode : Texts,
         tokenQuota : Numbers, kvCacheGB : Numbers]
GPUWorkloadSpec == [modelName : Words, gpu : Int, partitionMode : Words,
                    tokenQuota : Int, kvCacheGB : Int]

ASSUME NoSpecAssumption == NoSpec \notin Raws
ASSUME ManifestsAssumption == Manifests \subseteq Raws \cup {NoSpec}

Objects == [raw : Raws \cup {NoSpec}, finalizer : BOOLEAN, deleting : BOOLEAN]
Containers == [MODEL_PATH : Words, TOKEN_QUOTA : Int, KV_CACHE_GB : Int,
               GPU_PARTITION_MODE : Words, USE_GPU : BOOLEAN, gpus : Int]

ASSUME NoneAssumption == None \notin Objects /\ None \notin Containers

VARIABLES
    object,  \* the stored GPUWorkload
    hook,    \* k8s/webhook.yaml is applied
    served,  \* the operator serves the webhook
    env      \* the container of the workload's Deployment

vars == <<object, hook, served, env>>

-----------------------------------------------------------------------------
(* The schema.                                                             *)

\* "maximum" of tokenQuota in crd.yaml, and the limit in gpuworkload_webhook.go.
SchemaLimit == 100000
WebhookLimit == 100000

Or(value, default) == IF value = Absent THEN default ELSE value

\* Mutation: the default of gpu that gpuworkload_types.go declares.
DefaultedAsDeclared(raw) ==
    IF raw = NoSpec THEN NoSpec
    ELSE [raw EXCEPT !.partitionMode = Or(@, "MPS"), !.kvCacheGB = Or(@, 1),
                     !.gpu = Or(@, 1)]

\* Fields get their defaults in a spec that is there.
Defaulted(raw) ==
    IF raw = NoSpec THEN NoSpec
    ELSE [raw EXCEPT !.partitionMode = Or(@, "MPS"), !.kvCacheGB = Or(@, 1)]

\* Mutation: the schema sets no minimum for kvCacheGB.
SchemaWithoutCacheSize(raw) ==
    raw # NoSpec =>
        /\ raw.modelName \notin {Absent, Blank}
        /\ raw.gpu = Absent \/ raw.gpu \in 0..8
        /\ raw.partitionMode \in {"MPS", "MIG"}
        /\ raw.tokenQuota = Absent \/ raw.tokenQuota \in 1..SchemaLimit

\* A spec has to have a modelName, but an object need not have a spec.
Schema(raw) ==
    raw # NoSpec =>
        /\ raw.modelName \notin {Absent, Blank}
        /\ raw.gpu = Absent \/ raw.gpu \in 0..8
        /\ raw.partitionMode \in {"MPS", "MIG"}
        /\ raw.tokenQuota = Absent \/ raw.tokenQuota \in 1..SchemaLimit
        /\ raw.kvCacheGB >= 1

-----------------------------------------------------------------------------
(* The Go struct: a missing field reads as its zero value, and all fields  *)
(* but modelName are left out (omitempty) when they are written as zero.   *)
(* A struct is always written, so a spec that was left out comes back with *)
(* an empty modelName.                                                     *)

Given(raw) ==
    IF raw = NoSpec
    THEN [modelName |-> Absent, gpu |-> Absent, partitionMode |-> Absent,
          tokenQuota |-> Absent, kvCacheGB |-> Absent]
    ELSE raw

Decode(raw) ==
    LET given == Given(raw)
    IN  [modelName |-> Or(given.modelName, Blank), gpu |-> Or(given.gpu, 0),
         partitionMode |-> Or(given.partitionMode, Blank),
         tokenQuota |-> Or(given.tokenQuota, 0), kvCacheGB |-> Or(given.kvCacheGB, 0)]

Unless(value, zero) == IF value = zero THEN Absent ELSE value

Encode(spec) ==
    [spec EXCEPT !.gpu = Unless(@, 0), !.partitionMode = Unless(@, Blank),
                 !.tokenQuota = Unless(@, 0), !.kvCacheGB = Unless(@, 0)]

-----------------------------------------------------------------------------
(* The webhook: the fields with an error.  ValidateUpdate is the same, and  *)
(* deletions are not sent to it.                                            *)

\* Mutation: the limit itself is refused.
BreaksAtLimit(spec, field) ==
    \/ field = "modelName" /\ spec.modelName = Blank
    \/ field = "gpu" /\ (spec.gpu < 0 \/ spec.gpu > 8)
    \/ field = "partitionMode" /\ spec.partitionMode \notin {"MPS", "MIG"}
    \/ field = "tokenQuota" /\ (spec.tokenQuota >= WebhookLimit \/ spec.tokenQuota < 1)
    \/ field = "kvCacheGB" /\ spec.kvCacheGB < 1

Breaks(spec, field) ==
    \/ field = "modelName" /\ spec.modelName = Blank
    \/ field = "gpu" /\ (spec.gpu < 0 \/ spec.gpu > 8)
    \/ field = "partitionMode" /\ spec.partitionMode \notin {"MPS", "MIG"}
    \/ field = "tokenQuota" /\ (spec.tokenQuota > WebhookLimit \/ spec.tokenQuota < 1)
    \/ field = "kvCacheGB" /\ spec.kvCacheGB < 1

Fields == {"modelName", "gpu", "partitionMode", "tokenQuota", "kvCacheGB"}

ValidateCreate(spec) == {field \in Fields : Breaks(spec, field)}

\* What the API server asks before it stores a new or changed spec.
Admits(raw) ==
    /\ Schema(Defaulted(raw))
    /\ hook => served /\ ValidateCreate(Decode(Defaulted(raw))) = {}

-----------------------------------------------------------------------------
(* Users and administrators.                                               *)

Create(raw) ==
    /\ object = None
    /\ Admits(raw)
    /\ object' = [raw |-> Defaulted(raw), finalizer |-> FALSE, deleting |-> FALSE]
    /\ UNCHANGED <<hook, served, env>>

Edit(raw) ==
    /\ object # None
    /\ Admits(raw)
    /\ object' = [object EXCEPT !.raw = Defaulted(raw)]
    /\ UNCHANGED <<hook, served, env>>

Delete ==
    /\ object # None
    /\ object' = IF object.finalizer THEN [object EXCEPT !.deleting = TRUE]
                 ELSE None
    /\ UNCHANGED <<hook, served, env>>

\* kubectl apply, or delete, -f k8s/webhook.yaml
ConfigureWebhook ==
    /\ hook' = ~hook
    /\ UNCHANGED <<object, served, env>>

-----------------------------------------------------------------------------
(* The operator.  A refused update is an error: nothing changes, and the    *)
(* workload is requeued.                                                    *)

\* The spec as the operator's Update sends it.
Rewritten == Encode(Decode(object.raw))

AddFinalizer ==
    /\ object # None /\ ~object.deleting /\ ~object.finalizer
    /\ Admits(Rewritten)
    /\ object' = [object EXCEPT !.raw = Defaulted(Rewritten), !.finalizer = TRUE]
    /\ UNCHANGED <<hook, served, env>>

\* Mutation: one GPU is taken for none.
EnvironmentOffByOne(spec) ==
    [MODEL_PATH |-> spec.modelName, TOKEN_QUOTA |-> spec.tokenQuota,
     KV_CACHE_GB |-> spec.kvCacheGB, GPU_PARTITION_MODE |-> spec.partitionMode,
     USE_GPU |-> spec.gpu > 1, gpus |-> spec.gpu]

\* The container's environment, and the number of nvidia.com/gpu it gets.
Environment(spec) ==
    [MODEL_PATH |-> spec.modelName, TOKEN_QUOTA |-> spec.tokenQuota,
     KV_CACHE_GB |-> spec.kvCacheGB, GPU_PARTITION_MODE |-> spec.partitionMode,
     USE_GPU |-> spec.gpu # 0, gpus |-> IF spec.gpu > 0 THEN spec.gpu ELSE 0]

CreateDeployment ==
    /\ object # None /\ ~object.deleting /\ object.finalizer
    /\ env = None
    /\ env' = Environment(Decode(object.raw))
    /\ UNCHANGED <<object, hook, served>>

\* The children go first; the finalizer only if the update is admitted.
Cleanup ==
    /\ object # None /\ object.deleting
    /\ env' = None
    /\ object' = IF Admits(Rewritten) THEN None ELSE object
    /\ UNCHANGED <<hook, served>>

-----------------------------------------------------------------------------

Init ==
    /\ object = None /\ env = None
    /\ hook = FALSE
    /\ served \in Builds

Operator == AddFinalizer \/ CreateDeployment \/ Cleanup

Next ==
    \/ \E raw \in Manifests : Create(raw) \/ Edit(raw)
    \/ Delete
    \/ ConfigureWebhook
    \/ Operator

Spec == Init /\ [][Next]_vars

\* A workload that is not done is reconciled again and again.
FairSpec == Spec /\ WF_vars(Operator)

-----------------------------------------------------------------------------
(* Properties.                                                             *)

TypeOK ==
    /\ object \in Objects \cup {None}
    /\ env \in Containers \cup {None}
    /\ hook \in BOOLEAN /\ served \in BOOLEAN

\* The fields a spec lacks; gpu is none that is missed, 0 is as good as any.
Lacking(raw) == {field \in Fields \ {"gpu"} : Given(raw)[field] = Absent}

\* The schema in crd.yaml and the rules in gpuworkload_webhook.go are written
\* apart.  They agree on every value a stored workload has: it breaks a rule of
\* the webhook only by lacking a field, and with a spec it lacks tokenQuota at
\* most.  So what was created before the webhook with a spec and a quota can
\* still be updated after it.
RulesAgree ==
    object # None =>
        /\ ValidateCreate(Decode(object.raw)) = Lacking(object.raw)
        /\ object.raw # NoSpec => Lacking(object.raw) \subseteq {"tokenQuota"}

\* The environment of a workload that has a spec is one that lifespan can start
\* from: it names a model, and USE_GPU is set exactly when the container has GPUs.
\* Its quota is in range, or 0 exactly when the spec has none.
StartsFrom(raw, environment) ==
    /\ environment.MODEL_PATH # Blank
    /\ environment.GPU_PARTITION_MODE \in {"MPS", "MIG"}
    /\ environment.KV_CACHE_GB >= 1
    /\ environment.gpus \in 0..8
    /\ environment.USE_GPU <=> environment.gpus # 0
    /\ IF raw.tokenQuota = Absent THEN environment.TOKEN_QUOTA = 0
                                  ELSE environment.TOKEN_QUOTA \in 1..WebhookLimit

\* Whatever was edited, rewritten or admitted before, with or without the
\* webhook: a container made for a workload that has a spec at that moment can
\* start.  One made for a workload whose spec was edited away cannot: its model is
\* empty.
ContainerStarts ==
    [][(env = None /\ env' # None /\ object.raw # NoSpec)
           => StartsFrom(object.raw, env')]_vars

\* To set its finalizer the operator sends the whole spec back, through Go's
\* zero values and the API server's defaults.  The spec means the same
\* afterwards: gpu 0, which omitempty drops, does not come back as a default.
UpdatesKeepMeaning ==
    [][(object # None /\ object' # None /\ object'.finalizer # object.finalizer)
           => Decode(object'.raw) = Decode(object.raw)]_vars

\* The operator's own updates of this workload are refused: by the API server,
\* which has no webhook to ask; by the schema, for the empty modelName that a
\* workload without a spec is sent back with; or by the webhook, for a tokenQuota
\* that was left out.
Obstructed ==
    \/ hook /\ ~served
    \/ object # None /\ object.raw = NoSpec
    \/ hook /\ object # None /\ Given(object.raw).tokenQuota = Absent

\* A workload is deployed and a deletion completes, provided that from some time on
\* it is not obstructed: it has a spec, and if the webhook is applied, the operator
\* serves it and the spec has a tokenQuota.
DeletesUnlessObstructed ==
    <>[]~Obstructed =>
        /\ (object # None /\ object.deleting) ~> object = None
        /\ (object # None) ~> (object = None \/ object.deleting \/ env # None)

=============================================================================
