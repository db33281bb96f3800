---------------------------- MODULE AdmissionProofs ----------------------------
(***************************************************************************)
(* Theorems about Admission, for every set of manifests, with a spec or     *)
(* without.  What ties the three formulations of a legal spec together is   *)
(* the invariant Sound: a spec that is stored satisfies the schema, with    *)
(* its defaults in place.                                                   *)
(***************************************************************************)
EXTENDS Admission, TLAPS

\* A stored spec: typed, defaulted, and what the schema lets through.
Legal(raw) ==
    /\ raw \in Raws /\ Schema(raw)
    /\ raw.partitionMode \in Words /\ raw.kvCacheGB \in Int

Sound ==
    /\ TypeOK
    /\ object # None /\ object.raw # NoSpec => Legal(object.raw)

-----------------------------------------------------------------------------
(* One field.                                                              *)

\* A missing text is replaced by a text, a missing number by a number.
LEMMA OrWord == ASSUME NEW x \in Texts, NEW d \in Words PROVE Or(x, d) \in Words
  BY DEF Or, Texts

LEMMA OrNumber == ASSUME NEW x \in Numbers, NEW d \in Int PROVE Or(x, d) \in Int
  BY DEF Or, Numbers

\* What is written can be read: a zero is left out and nothing else is.
LEMMA UnlessWord == ASSUME NEW x \in Words, NEW z PROVE Unless(x, z) \in Texts
  BY DEF Unless, Texts

LEMMA UnlessNumber == ASSUME NEW x \in Int, NEW z PROVE Unless(x, z) \in Numbers
  BY DEF Unless, Numbers

LEMMA OmittedReadsAsZero ==
    ASSUME NEW x, NEW z, x # Absent
    PROVE  Or(Unless(x, z), z) = x
  BY DEF Or, Unless

\* A field that is there is not replaced.
LEMMA PresentIsKept == ASSUME NEW x, NEW d, x # Absent PROVE Or(x, d) = x
  BY DEF Or

\* A field of a struct is never Absent, and the literals of the code are texts.
LEMMA ValuesArePresent ==
    /\ \A x \in Words : x # Absent /\ x \in Texts
    /\ \A x \in Int : x # Absent /\ x \in Numbers
  <1>1. \A x \in Words : x # Absent /\ x \in Texts
    BY AbsentAssumption DEF Texts
  <1>2. \A x \in Int : x # Absent /\ x \in Numbers
    BY AbsentAssumption DEF Numbers
  <1> QED BY <1>1, <1>2

\* The two limits are one.
LEMMA Limits == SchemaLimit \in Nat /\ WebhookLimit = SchemaLimit
  BY SMT DEF SchemaLimit, WebhookLimit

LEMMA Literals == Blank \in Words /\ "MPS" \in Words /\ "MIG" \in Words
  BY WordsAssumption

-----------------------------------------------------------------------------
(* The conversions.                                                        *)

\* A spec that is there is read as it is, one that is not as one that lacks
\* everything.
LEMMA GivenIsTyped ==
    /\ \A raw \in Raws : raw # NoSpec /\ Given(raw) = raw
    /\ Given(NoSpec) \in Raws
  <1>1. \A raw \in Raws : raw # NoSpec /\ Given(raw) = raw
    BY NoSpecAssumption DEF Given
  <1>2. Absent \in Texts /\ Absent \in Numbers
    BY DEF Texts, Numbers
  <1>3. Given(NoSpec) \in Raws
    BY <1>2 DEF Given, Raws
  <1> QED BY <1>1, <1>3

\* Defaulting keeps a spec typed and fills the two fields that have a default.
LEMMA DefaultsAreTyped ==
    ASSUME NEW raw \in Raws
    PROVE  /\ Defaulted(raw) \in Raws
           /\ Defaulted(raw).partitionMode \in Words
           /\ Defaulted(raw).kvCacheGB \in Int
  <1>1. raw.partitionMode \in Texts /\ raw.kvCacheGB \in Numbers
    BY DEF Raws
  <1>2. Or(raw.partitionMode, "MPS") \in Words
    BY <1>1, OrWord, Literals
  <1>3. Or(raw.kvCacheGB, 1) \in Int
    BY <1>1, OrNumber
  <1>4. Or(raw.partitionMode, "MPS") \in Texts
    BY <1>2, ValuesArePresent
  <1>5. Or(raw.kvCacheGB, 1) \in Numbers
    BY <1>3, ValuesArePresent
  <1>6. Defaulted(raw) = [raw EXCEPT !.partitionMode = Or(@, "MPS"),
                                     !.kvCacheGB = Or(@, 1)]
    BY GivenIsTyped DEF Defaulted
  <1> QED BY <1>2, <1>3, <1>4, <1>5, <1>6 DEF Raws

\* Decoding gives a typed struct.
LEMMA DecodeIsTyped ==
    ASSUME NEW raw \in Raws \cup {NoSpec}
    PROVE  Decode(raw) \in GPUWorkloadSpec
  <1> DEFINE given == Given(raw)
  <1>1. given \in Raws
    BY GivenIsTyped
  <1>2. Decode(raw) = [modelName |-> Or(given.modelName, Blank),
                       gpu |-> Or(given.gpu, 0),
                       partitionMode |-> Or(given.partitionMode, Blank),
                       tokenQuota |-> Or(given.tokenQuota, 0),
                       kvCacheGB |-> Or(given.kvCacheGB, 0)]
    BY DEF Decode
  <1> HIDE DEF given
  <1>3. /\ given.modelName \in Texts /\ given.partitionMode \in Texts
        /\ given.gpu \in Numbers /\ given.tokenQuota \in Numbers
        /\ given.kvCacheGB \in Numbers
    BY <1>1 DEF Raws
  <1>4. Or(given.modelName, Blank) \in Words /\ Or(given.partitionMode, Blank) \in Words
    BY <1>3, OrWord, Literals
  <1>5. /\ Or(given.gpu, 0) \in Int /\ Or(given.tokenQuota, 0) \in Int
        /\ Or(given.kvCacheGB, 0) \in Int
    BY <1>3, OrNumber
  <1> QED BY <1>2, <1>4, <1>5 DEF GPUWorkloadSpec

\* Encoding gives a typed manifest.
LEMMA EncodeIsTyped ==
    ASSUME NEW spec \in GPUWorkloadSpec
    PROVE  Encode(spec) \in Raws
  <1>1. /\ spec.modelName \in Words /\ spec.partitionMode \in Words
        /\ spec.gpu \in Int /\ spec.tokenQuota \in Int /\ spec.kvCacheGB \in Int
    BY DEF GPUWorkloadSpec
  <1>2. spec.modelName \in Texts /\ Unless(spec.partitionMode, Blank) \in Texts
    BY <1>1, UnlessWord, ValuesArePresent
  <1>3. /\ Unless(spec.gpu, 0) \in Numbers /\ Unless(spec.tokenQuota, 0) \in Numbers
        /\ Unless(spec.kvCacheGB, 0) \in Numbers
    BY <1>1, UnlessNumber
  <1> QED BY <1>2, <1>3 DEF Encode, Raws, GPUWorkloadSpec

\* What the API server admits is legal once it has its defaults.
LEMMA AdmittedIsLegal ==
    ASSUME NEW raw \in Raws, Admits(raw)
    PROVE  Legal(Defaulted(raw))
  <1>1. Defaulted(raw) \in Raws /\ Defaulted(raw) # NoSpec
    BY DefaultsAreTyped, GivenIsTyped
  <1> QED BY <1>1, DefaultsAreTyped DEF Admits, Legal

\* So is what it stores, if that has a spec.
LEMMA StoredIsLegal ==
    ASSUME NEW raw \in Raws \cup {NoSpec}, Admits(raw)
    PROVE  /\ Defaulted(raw) \in Raws \cup {NoSpec}
           /\ Defaulted(raw) # NoSpec => Legal(Defaulted(raw))
  <1>1. CASE raw = NoSpec
    BY <1>1 DEF Defaulted
  <1>2. CASE raw \in Raws
    BY <1>2, AdmittedIsLegal DEF Legal
  <1> QED BY <1>1, <1>2

\* What is known of a legal spec's fields once it is a Go struct.
LEMMA LegalFields ==
    ASSUME NEW raw, Legal(raw)
    PROVE  LET spec == Decode(raw) IN
           /\ spec \in GPUWorkloadSpec
           /\ spec.modelName = raw.modelName /\ spec.modelName # Blank
           /\ spec.gpu \in 0..8
           /\ spec.partitionMode = raw.partitionMode
           /\ spec.partitionMode \in {"MPS", "MIG"}
           /\ raw.tokenQuota = Absent => spec.tokenQuota = 0
           /\ raw.tokenQuota # Absent => spec.tokenQuota \in 1..SchemaLimit
           /\ spec.kvCacheGB = raw.kvCacheGB /\ spec.kvCacheGB >= 1
  <1>1. Decode(raw) \in GPUWorkloadSpec
    BY DecodeIsTyped DEF Legal
  <1>2. /\ Decode(raw).modelName = Or(raw.modelName, Blank)
        /\ Decode(raw).gpu = Or(raw.gpu, 0)
        /\ Decode(raw).partitionMode = Or(raw.partitionMode, Blank)
        /\ Decode(raw).tokenQuota = Or(raw.tokenQuota, 0)
        /\ Decode(raw).kvCacheGB = Or(raw.kvCacheGB, 0)
    BY GivenIsTyped DEF Legal, Decode
  <1>3. raw # NoSpec
    BY GivenIsTyped DEF Legal
  <1>4. Decode(raw).modelName = raw.modelName /\ Decode(raw).modelName # Blank
    <2>1. raw.modelName # Absent /\ raw.modelName # Blank
      BY <1>3 DEF Legal, Schema
    <2> QED BY <1>2, <2>1, PresentIsKept
  <1>5. Decode(raw).gpu \in 0..8
    <2>1. raw.gpu = Absent \/ raw.gpu \in 0..8
      BY <1>3 DEF Legal, Schema
    <2>2. raw.gpu \in 0..8 => raw.gpu # Absent
      BY ValuesArePresent
    <2>3. CASE raw.gpu = Absent
      BY <1>2, <2>3 DEF Or
    <2>4. CASE raw.gpu \in 0..8
      BY <1>2, <2>2, <2>4, PresentIsKept
    <2> QED BY <2>1, <2>3, <2>4
  <1>6. /\ Decode(raw).partitionMode = raw.partitionMode
        /\ Decode(raw).partitionMode \in {"MPS", "MIG"}
    <2>1. raw.partitionMode \in {"MPS", "MIG"} /\ raw.partitionMode \in Words
      BY <1>3 DEF Legal, Schema
    <2>2. raw.partitionMode # Absent
      BY <2>1, ValuesArePresent
    <2> QED BY <1>2, <2>1, <2>2, PresentIsKept
  <1>7. /\ raw.tokenQuota = Absent => Decode(raw).tokenQuota = 0
        /\ raw.tokenQuota # Absent => Decode(raw).tokenQuota \in 1..SchemaLimit
    <2>1. raw.tokenQuota = Absent \/ raw.tokenQuota \in 1..SchemaLimit
      BY <1>3 DEF Legal, Schema
    <2>2. raw.tokenQuota = Absent => Decode(raw).tokenQuota = 0
      BY <1>2 DEF Or
    <2>3. raw.tokenQuota # Absent => Decode(raw).tokenQuota = raw.tokenQuota
      BY <1>2, PresentIsKept
    <2> QED BY <2>1, <2>2, <2>3
  <1>8. Decode(raw).kvCacheGB = raw.kvCacheGB /\ Decode(raw).kvCacheGB >= 1
    <2>1. raw.kvCacheGB \in Int /\ raw.kvCacheGB >= 1
      BY <1>3 DEF Legal, Schema
    <2>2. raw.kvCacheGB # Absent
      BY <2>1, ValuesArePresent
    <2> QED BY <1>2, <2>1, <2>2, PresentIsKept
  <1> QED BY <1>1, <1>4, <1>5, <1>6, <1>7, <1>8

\* Reading a legal spec into a Go struct and writing it back keeps it typed,
\* and its meaning through the API server's defaults.
LEMMA RoundTripKeepsMeaning ==
    ASSUME NEW raw, Legal(raw)
    PROVE  /\ Encode(Decode(raw)) \in Raws
           /\ Decode(Defaulted(Encode(Decode(raw)))) = Decode(raw)
  <1> DEFINE spec == Decode(raw)
             back == Defaulted(Encode(spec))
  <1>1. /\ spec \in GPUWorkloadSpec
        /\ spec.partitionMode \in {"MPS", "MIG"} /\ spec.kvCacheGB >= 1
    BY LegalFields
  <1> HIDE DEF spec
  <1>2. /\ spec.modelName \in Words /\ spec.partitionMode \in Words
        /\ spec.gpu \in Int /\ spec.tokenQuota \in Int /\ spec.kvCacheGB \in Int
    BY <1>1 DEF GPUWorkloadSpec
  <1>3. /\ spec.modelName # Absent /\ spec.partitionMode # Absent
        /\ spec.gpu # Absent /\ spec.tokenQuota # Absent /\ spec.kvCacheGB # Absent
    BY <1>2, ValuesArePresent
  <1>4. Unless(spec.partitionMode, Blank) = spec.partitionMode
    BY <1>1, WordsAssumption DEF Unless
  <1>5. Unless(spec.kvCacheGB, 0) = spec.kvCacheGB
    <2>1. spec.kvCacheGB # 0
      BY <1>1, <1>2
    <2> QED BY <2>1 DEF Unless
  <1>6. Encode(spec) \in Raws /\ Encode(spec) # NoSpec
    BY <1>1, EncodeIsTyped, GivenIsTyped
  <1>7. /\ back.modelName = spec.modelName
        /\ back.gpu = Unless(spec.gpu, 0)
        /\ back.partitionMode = spec.partitionMode
        /\ back.tokenQuota = Unless(spec.tokenQuota, 0)
        /\ back.kvCacheGB = spec.kvCacheGB
    BY <1>1, <1>3, <1>4, <1>5, <1>6, PresentIsKept DEF Defaulted, Encode, GPUWorkloadSpec
  <1>8. Given(back) = back
    BY <1>6, DefaultsAreTyped, GivenIsTyped
  <1> HIDE DEF back
  <1>9. Decode(back) = [modelName |-> spec.modelName, gpu |-> spec.gpu,
                        partitionMode |-> spec.partitionMode,
                        tokenQuota |-> spec.tokenQuota, kvCacheGB |-> spec.kvCacheGB]
    BY <1>3, <1>7, <1>8, PresentIsKept, OmittedReadsAsZero DEF Decode
  <1>10. Decode(back) = spec
    BY <1>1, <1>9 DEF GPUWorkloadSpec
  <1> QED BY <1>10, <1>6 DEF spec, back

\* A spec that was left out is sent back with an empty modelName, which the schema
\* refuses.
LEMMA WithoutSpecIsRefused == ~Admits(Encode(Decode(NoSpec)))
  <1> DEFINE spec == Decode(NoSpec)
  <1>1. spec \in GPUWorkloadSpec /\ spec.modelName = Blank
    BY DecodeIsTyped DEF Decode, Given, Or
  <1> HIDE DEF spec
  <1>2. Encode(spec) \in Raws /\ Encode(spec).modelName = Blank
    BY <1>1, EncodeIsTyped DEF Encode, GPUWorkloadSpec
  <1>3. /\ Defaulted(Encode(spec)) \in Raws
        /\ Defaulted(Encode(spec)).modelName = Blank
    BY <1>2, DefaultsAreTyped, GivenIsTyped DEF Defaulted, Raws
  <1>4. ~Schema(Defaulted(Encode(spec)))
    BY <1>3, GivenIsTyped DEF Schema
  <1> QED BY <1>4 DEF Admits, spec

\* The fields a spec can lack, by name.
LEMMA LackingFields ==
    ASSUME NEW raw
    PROVE  /\ Lacking(raw) \subseteq Fields \ {"gpu"}
           /\ "modelName" \in Lacking(raw) <=> Given(raw).modelName = Absent
           /\ "partitionMode" \in Lacking(raw) <=> Given(raw).partitionMode = Absent
           /\ "tokenQuota" \in Lacking(raw) <=> Given(raw).tokenQuota = Absent
           /\ "kvCacheGB" \in Lacking(raw) <=> Given(raw).kvCacheGB = Absent
  BY DEF Lacking, Fields

\* The rules of the webhook hold of a legal spec, but for a missing tokenQuota.
LEMMA LegalBreaksWhatItLacks ==
    ASSUME NEW raw, Legal(raw)
    PROVE  /\ ValidateCreate(Decode(raw)) = Lacking(raw)
           /\ Lacking(raw) \subseteq {"tokenQuota"}
  <1> DEFINE spec == Decode(raw)
  <1>1. /\ spec \in GPUWorkloadSpec
        /\ spec.modelName = raw.modelName /\ spec.modelName # Blank
        /\ spec.gpu \in 0..8
        /\ spec.partitionMode = raw.partitionMode
        /\ spec.partitionMode \in {"MPS", "MIG"}
        /\ spec.kvCacheGB = raw.kvCacheGB /\ spec.kvCacheGB >= 1
        /\ raw.tokenQuota = Absent => spec.tokenQuota = 0
        /\ raw.tokenQuota # Absent => spec.tokenQuota \in 1..SchemaLimit
    BY LegalFields
  <1> HIDE DEF spec
  <1>2. /\ spec.tokenQuota \in Int /\ spec.kvCacheGB \in Int
        /\ spec.modelName \in Words /\ spec.partitionMode \in Words
    BY <1>1 DEF GPUWorkloadSpec
  <1>3. ~Breaks(spec, "modelName") /\ ~Breaks(spec, "partitionMode")
    BY <1>1 DEF Breaks
  <1>4. ~Breaks(spec, "gpu") /\ ~Breaks(spec, "kvCacheGB")
    BY <1>1, <1>2 DEF Breaks
  <1>5. Breaks(spec, "tokenQuota") <=> raw.tokenQuota = Absent
    BY <1>1, <1>2, Limits DEF Breaks
  <1>6. /\ raw.modelName # Absent /\ raw.partitionMode # Absent
        /\ raw.kvCacheGB # Absent /\ Given(raw) = raw
    BY <1>1, <1>2, ValuesArePresent, GivenIsTyped DEF Legal
  <1>7. /\ Lacking(raw) \subseteq {"tokenQuota"}
        /\ "tokenQuota" \in Lacking(raw) <=> raw.tokenQuota = Absent
    BY <1>6, LackingFields DEF Fields
  <1>8. /\ ValidateCreate(spec) \subseteq {"tokenQuota"}
        /\ "tokenQuota" \in ValidateCreate(spec) <=> raw.tokenQuota = Absent
    BY <1>3, <1>4, <1>5 DEF ValidateCreate, Fields
  <1> QED BY <1>7, <1>8 DEF spec

\* Without a spec everything is missing, and the webhook would say so.
LEMMA WithoutSpecBreaksWhatItLacks == ValidateCreate(Decode(NoSpec)) = Lacking(NoSpec)
  <1> DEFINE spec == Decode(NoSpec)
  <1>1. /\ spec.modelName = Blank /\ spec.gpu = 0 /\ spec.partitionMode = Blank
        /\ spec.tokenQuota = 0 /\ spec.kvCacheGB = 0
    BY DEF Decode, Given, Or
  <1> HIDE DEF spec
  <1>2. /\ Breaks(spec, "modelName") /\ Breaks(spec, "partitionMode")
        /\ Breaks(spec, "tokenQuota") /\ Breaks(spec, "kvCacheGB")
    BY <1>1, WordsAssumption DEF Breaks
  <1>3. ~Breaks(spec, "gpu")
    BY <1>1 DEF Breaks
  <1>4. ValidateCreate(spec) = Fields \ {"gpu"}
    BY <1>2, <1>3 DEF ValidateCreate, Fields
  <1>5. Lacking(NoSpec) = Fields \ {"gpu"}
    BY LackingFields DEF Given, Fields
  <1> QED BY <1>4, <1>5 DEF spec

\* Any spec gives a typed environment.
LEMMA EnvironmentIsTyped ==
    ASSUME NEW raw \in Raws \cup {NoSpec}
    PROVE  Environment(Decode(raw)) \in Containers
  <1> DEFINE spec == Decode(raw)
  <1>1. spec \in GPUWorkloadSpec
    BY DecodeIsTyped
  <1> HIDE DEF spec
  <1>2. Environment(spec) \in Containers
    BY <1>1 DEF Environment, Containers, GPUWorkloadSpec
  <1> QED BY <1>2 DEF spec

\* The environment made of a legal spec is one that lifespan can start from.
LEMMA LegalStarts ==
    ASSUME NEW raw, Legal(raw)
    PROVE  StartsFrom(raw, Environment(Decode(raw)))
  <1> DEFINE spec == Decode(raw)
             made == Environment(spec)
  <1>1. /\ spec.modelName # Blank /\ spec.gpu \in 0..8
        /\ spec.partitionMode \in {"MPS", "MIG"} /\ spec.kvCacheGB >= 1
        /\ raw.tokenQuota = Absent => spec.tokenQuota = 0
        /\ raw.tokenQuota # Absent => spec.tokenQuota \in 1..WebhookLimit
    BY LegalFields, Limits
  <1> HIDE DEF spec
  <1>2. /\ made.MODEL_PATH = spec.modelName /\ made.TOKEN_QUOTA = spec.tokenQuota
        /\ made.KV_CACHE_GB = spec.kvCacheGB
        /\ made.GPU_PARTITION_MODE = spec.partitionMode
        /\ made.USE_GPU = (spec.gpu # 0)
        /\ made.gpus = IF spec.gpu > 0 THEN spec.gpu ELSE 0
    BY DEF Environment
  <1> HIDE DEF made
  <1>3. made.gpus \in 0..8 /\ (made.USE_GPU <=> made.gpus # 0)
    <2>1. spec.gpu \in Int /\ (spec.gpu > 0 <=> spec.gpu # 0)
      BY <1>1
    <2> QED BY <1>1, <1>2, <2>1
  <1>4. StartsFrom(raw, made)
    BY <1>1, <1>2, <1>3 DEF StartsFrom
  <1> QED BY <1>4 DEF made, spec

-----------------------------------------------------------------------------

LEMMA SoundInitially == Init => Sound
  BY BuildsAssumption DEF Init, Sound, TypeOK

LEMMA SoundInductive == Sound /\ [Next]_vars => Sound'
  <1> SUFFICES ASSUME Sound, [Next]_vars PROVE Sound'
    OBVIOUS
  <1> USE NoneAssumption
  <1>1. ASSUME NEW raw \in Manifests, Create(raw) PROVE Sound'
    <2>1. raw \in Raws \cup {NoSpec}
      BY ManifestsAssumption
    <2>2. Defaulted(raw) \in Raws \cup {NoSpec}
          /\ (Defaulted(raw) # NoSpec => Legal(Defaulted(raw)))
      BY <1>1, <2>1, StoredIsLegal DEF Create
    <2>3. object' \in Objects /\ object'.raw = Defaulted(raw)
      BY <1>1, <2>2 DEF Create, Objects
    <2> QED BY <1>1, <2>2, <2>3 DEF Create, Sound, TypeOK
  <1>2. ASSUME NEW raw \in Manifests, Edit(raw) PROVE Sound'
    <2>1. raw \in Raws \cup {NoSpec}
      BY ManifestsAssumption
    <2>2. Defaulted(raw) \in Raws \cup {NoSpec}
          /\ (Defaulted(raw) # NoSpec => Legal(Defaulted(raw)))
      BY <1>2, <2>1, StoredIsLegal DEF Edit
    <2>3. object' \in Objects /\ object'.raw = Defaulted(raw)
      BY <1>2, <2>2 DEF Edit, Objects, Sound, TypeOK
    <2> QED BY <1>2, <2>2, <2>3 DEF Edit, Sound, TypeOK
  <1>3. CASE Delete
    <2>1. object' # None => object' \in Objects /\ object'.raw = object.raw
      BY <1>3 DEF Delete, Objects, Sound, TypeOK
    <2> QED BY <1>3, <2>1 DEF Delete, Sound, TypeOK
  <1>4. CASE ConfigureWebhook
    BY <1>4 DEF ConfigureWebhook, Sound, TypeOK
  <1>5. CASE AddFinalizer
    <2>1. Legal(object.raw)
      BY <1>5, WithoutSpecIsRefused DEF AddFinalizer, Rewritten, Sound
    <2>2. Rewritten \in Raws
      BY <2>1, RoundTripKeepsMeaning DEF Rewritten
    <2>3. Legal(object'.raw) /\ object' \in Objects
      BY <1>5, <2>2, AdmittedIsLegal, DefaultsAreTyped
         DEF AddFinalizer, Objects, Sound, TypeOK
    <2> QED BY <1>5, <2>3 DEF AddFinalizer, Sound, TypeOK
  <1>6. CASE CreateDeployment
    <2>1. object.raw \in Raws \cup {NoSpec}
      BY <1>6 DEF CreateDeployment, Objects, Sound, TypeOK
    <2>2. env' \in Containers
      BY <1>6, <2>1, EnvironmentIsTyped DEF CreateDeployment
    <2> QED BY <1>6, <2>2 DEF CreateDeployment, Sound, TypeOK
  <1>7. CASE Cleanup
    BY <1>7 DEF Cleanup, Sound, TypeOK
  <1>8. CASE UNCHANGED vars
    BY <1>8 DEF vars, Sound, TypeOK
  <1> QED BY <1>1, <1>2, <1>3, <1>4, <1>5, <1>6, <1>7, <1>8 DEF Next, Operator

LEMMA AlwaysSound == Spec => []Sound
  BY SoundInitially, SoundInductive, PTL DEF Spec

\* Objects, environments and flags keep their types, whatever users write into the
\* fields of a spec, or if they write none.
THEOREM TypeCorrect == Spec => []TypeOK
  <1>1. Sound => TypeOK
    BY DEF Sound
  <1> QED BY <1>1, AlwaysSound, PTL

\* Every container made for a workload that has a spec can start.
THEOREM ContainersStart == Spec => ContainerStarts
  <1> DEFINE Made == (env = None /\ env' # None /\ object.raw # NoSpec)
                       => StartsFrom(object.raw, env')
  <1>1. ASSUME Sound, [Next]_vars PROVE [Made]_vars
    <2> SUFFICES ASSUME env = None, env' # None, object.raw # NoSpec
                 PROVE  StartsFrom(object.raw, env')
      OBVIOUS
    <2> USE <1>1
    <2>1. CreateDeployment
      BY DEF Next, Operator, Create, Edit, Delete, ConfigureWebhook, AddFinalizer,
             Cleanup, vars
    <2>2. Legal(object.raw) /\ env' = Environment(Decode(object.raw))
      BY <2>1 DEF CreateDeployment, Sound
    <2> QED BY <2>2, LegalStarts
  <1> QED BY <1>1, AlwaysSound, PTL DEF Spec, ContainerStarts

\* A stored workload breaks a rule of the webhook only by lacking a field, and with
\* a spec it lacks tokenQuota at most: the schema and the webhook agree on every
\* value a field may have.
THEOREM SchemaAndWebhookAgree == Spec => []RulesAgree
  <1>1. Sound => RulesAgree
    BY LegalBreaksWhatItLacks, WithoutSpecBreaksWhatItLacks DEF Sound, RulesAgree
  <1> QED BY <1>1, AlwaysSound, PTL

\* Setting the finalizer through a Go struct never changes what a spec means.
THEOREM MeaningIsKept == Spec => UpdatesKeepMeaning
  <1> DEFINE Kept == (object # None /\ object' # None
                        /\ object'.finalizer # object.finalizer)
                       => Decode(object'.raw) = Decode(object.raw)
  <1>1. ASSUME Sound, [Next]_vars PROVE [Kept]_vars
    <2> SUFFICES ASSUME object # None, object' # None,
                        object'.finalizer # object.finalizer
                 PROVE  Decode(object'.raw) = Decode(object.raw)
      OBVIOUS
    <2> USE <1>1
    <2>1. object \in Objects
      BY DEF Sound, TypeOK
    <2>2. CASE AddFinalizer
      <3>1. object'.raw = Defaulted(Encode(Decode(object.raw)))
        BY <2>1, <2>2 DEF AddFinalizer, Rewritten, Objects
      <3>2. Legal(object.raw)
        BY <2>2, WithoutSpecIsRefused DEF AddFinalizer, Rewritten, Sound
      <3> QED BY <3>1, <3>2, RoundTripKeepsMeaning
    <2>3. ASSUME NEW raw \in Manifests, Edit(raw) PROVE FALSE
      BY <2>1, <2>3 DEF Edit, Objects
    <2>4. CASE Delete
      BY <2>1, <2>4 DEF Delete, Objects
    <2>5. CASE Cleanup
      BY <2>5 DEF Cleanup
    <2> QED BY <2>2, <2>3, <2>4, <2>5
            DEF Next, Operator, Create, ConfigureWebhook, CreateDeployment, vars
  <1> QED BY <1>1, AlwaysSound, PTL DEF Spec, UpdatesKeepMeaning

=============================================================================
