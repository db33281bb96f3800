------------------------- MODULE InferenceServerProofs -------------------------
(***************************************************************************)
(* Proofs about the inference server's container, for any finite set of    *)
(* requests, any quota and any bound on restarts.  ContainerInv is about   *)
(* the flags of startup; QuotaInv adds what relates the token counter to   *)
(* the requests in flight and the answers given, over any number of        *)
(* processes one after the other.  What a step does to the sums it is      *)
(* about comes from SumLemmas.                                             *)
(***************************************************************************)
EXTENDS InferenceServer, SumLemmas, TLAPS

\* The types the proof needs.
FlagsOK ==
    /\ process \in {"down", "starting", "serving", "draining"}
    /\ UseGPU \in BOOLEAN /\ engine \in BOOLEAN /\ fallback \in BOOLEAN
    /\ pc \in [Requests -> {"new", "accepted", "asleep", "engine",
                            "returned", "answered", "lost"}]

\* A process that is not up yet, or gone, has no request in flight.
NobodyWaits ==
    process \in {"down", "starting"} => \A r \in Requests : ~InFlight(r)

ContainerInv == FlagsOK /\ NobodyWaits /\ ReadyWhenServing

\* No process is up at first, and no request in flight.
LEMMA ContainerInit == Init => ContainerInv
  BY ServerAssumption
  DEF Init, ContainerInv, FlagsOK, NobodyWaits, InFlight, ReadyWhenServing

\* Requests are accepted and handled while the process is up.
LEMMA RequestWhileServing ==
    ASSUME ContainerInv, NEW r \in Requests, Client(r) \/ Handle(r)
    PROVE  UNCHANGED <<process, engine, fallback>> /\ process \in {"serving", "draining"}
  <1>1. UNCHANGED <<process, engine, fallback>>
    BY DEF Client, Submit, Handle, RejectInvalid, Refuse, Generate, Wake, EngineReturns,
           EngineFails, Report, metrics_middleware, processVars
  <1>2. process \in {"serving", "draining"}
    <2>1. CASE Client(r)
      BY <2>1 DEF Client, Submit
    <2>2. CASE EngineReturns(r) \/ EngineFails(r)
      BY <2>2 DEF EngineReturns, EngineFails, ContainerInv, FlagsOK, NobodyWaits, InFlight
    <2>3. CASE \/ RejectInvalid(r) \/ Refuse(r) \/ Generate(r) \/ Wake(r)
               \/ Report(r) \/ metrics_middleware(r)
      BY <2>3 DEF RejectInvalid, Refuse, Generate, Wake, Report, metrics_middleware,
                  Runs, LoopIsFree
    <2> QED BY <2>1, <2>2, <2>3 DEF Handle
  <1> QED BY <1>1, <1>2

\* A handler's step moves its own request, and into the engine only from a
\* process that serves and has no fallback.
LEMMA HandlerStep ==
    ASSUME ContainerInv, NEW r \in Requests, Client(r) \/ Handle(r)
    PROVE  ContainerInv'
  <1>1. UNCHANGED <<process, engine, fallback>> /\ process \in {"serving", "draining"}
    BY RequestWhileServing
  <1>3. PICK to \in {"accepted", "asleep", "engine", "returned", "answered"} :
           /\ pc' = [pc EXCEPT ![r] = to]
           /\ to = "engine" => ~fallback
    <2>1. CASE Client(r)
      BY <2>1 DEF Client, Submit
    <2>2. CASE Generate(r)
      BY <2>2 DEF Generate
    <2>3. CASE metrics_middleware(r)
      BY <2>3 DEF metrics_middleware
    <2>4. CASE \/ RejectInvalid(r) \/ Refuse(r) \/ Wake(r) \/ Report(r)
               \/ EngineReturns(r) \/ EngineFails(r)
      BY <2>4 DEF RejectInvalid, Refuse, Wake, Report, EngineReturns, EngineFails, Respond
    <2> QED BY <2>1, <2>2, <2>3, <2>4 DEF Handle
  <1>4. engine \/ fallback
    BY <1>1 DEF ContainerInv, ReadyWhenServing
  <1>5. FlagsOK'
    BY <1>1, <1>3 DEF ContainerInv, FlagsOK
  <1>6. NobodyWaits'
    BY <1>1 DEF NobodyWaits
  <1>7. ReadyWhenServing'
    BY <1>1, <1>3, <1>4 DEF ContainerInv, FlagsOK, ReadyWhenServing
  <1> QED BY <1>5, <1>6, <1>7 DEF ContainerInv

\* A step of the container: startup ends with one of the two flags set, and
\* shutdown and a kill leave no request behind.
LEMMA ContainerStep == ContainerInv /\ Container => ContainerInv'
  <1> SUFFICES ASSUME ContainerInv, Container PROVE ContainerInv'
    OBVIOUS
  <1> USE DEF ContainerInv, FlagsOK, NobodyWaits, ReadyWhenServing, InFlight
  <1>1. CASE LoadEngine
    BY <1>1 DEF LoadEngine
  <1>2. CASE FallBack
    BY <1>2 DEF FallBack
  <1>3. CASE Terminate
    BY <1>3 DEF Terminate
  <1>4. CASE Shutdown
    BY <1>4 DEF Shutdown
  <1>5. CASE Kill
    BY <1>5 DEF Kill
  <1>6. CASE Start
    BY <1>6 DEF Start
  <1> QED BY <1>1, <1>2, <1>3, <1>4, <1>5, <1>6 DEF Container

\* In every behaviour of the container a request that is served finds an
\* engine or the fallback, whatever startup, shutdown and kills did before: the
\* 503 branches of generate and health_check cannot be reached.
THEOREM NeverUnready == Spec => []ReadyWhenServing
  <1>1. ContainerInv /\ [Next]_vars => ContainerInv'
    <2>1. ContainerInv /\ UNCHANGED vars => ContainerInv'
      BY DEF vars, ContainerInv, FlagsOK, NobodyWaits, ReadyWhenServing, InFlight
    <2> QED BY <2>1, HandlerStep, ContainerStep DEF Next
  <1>2. ContainerInv => ReadyWhenServing
    BY DEF ContainerInv
  <1> QED BY <1>1, <1>2, ContainerInit, PTL DEF Spec

-----------------------------------------------------------------------------
(* The quota                                                               *)

\* The types of the variables, but for the two that count.
VariablesOK ==
    /\ engine \in BOOLEAN /\ fallback \in BOOLEAN
    /\ restarts \in 0..MaxRestarts
    /\ pc \in [Requests -> {"new", "accepted", "asleep", "engine",
                            "returned", "answered", "lost"}]
    /\ asked \in [Requests -> [to : Endpoints, max : 0..(MaxTokens + 1)]]
    /\ reply \in [Requests -> [status : {0, 200, 422, 429, 500},
                               tokens : 0..MaxTokens]]
    /\ life \in [Requests -> 0..MaxRestarts]

\* A request that holds tokens passed the validation, one that has no answer
\* was given none, and one in flight belongs to the process that runs.
RequestsOK ==
    \A r \in Requests :
        /\ pc[r] \in {"asleep", "engine"} => asked[r].max \in 1..MaxTokens
        /\ pc[r] \in {"new", "accepted", "asleep", "engine"} => reply[r].tokens = 0
        /\ life[r] <= restarts
        /\ InFlight(r) => life[r] = restarts

\* A process that does not serve yet has given nothing and starts from 0, and
\* one that drains may still be restarted.
StartsFromZero ==
    /\ process \in {"down", "starting"} => \A r \in Requests : given[r] = 0
    /\ process = "starting" => value = 0
    /\ process = "draining" => restarts < MaxRestarts

\* metrics_middleware counts a request once, when it is answered.
Answered == {r \in Requests : pc[r] = "answered"}
CountedOnce == requestCount \in Nat /\ requestCount <= Cardinality(Answered)

QuotaInv ==
    /\ ContainerInv /\ VariablesOK /\ RequestsOK /\ StartsFromZero
    /\ value \in 0..Quota
    /\ CounterIsExact

\* What is held and what was given are sums of naturals over finitely many requests.
LEMMA SumsOfRequests ==
    ASSUME VariablesOK
    PROVE  /\ held \in [Requests -> Nat] /\ given \in [Requests -> Nat]
           /\ SumFunction(held) \in Nat /\ SumFunction(given) \in Nat
           /\ \A r \in Requests : held[r] <= SumFunction(held)
<1>1. held \in [Requests -> Nat] /\ given \in [Requests -> Nat]
    BY ServerAssumption DEF VariablesOK, held, given
<1> HIDE DEF held, given
<1> QED BY <1>1, ServerAssumption, SumBounds

\* Nothing held and nothing given is nothing charged.
LEMMA NothingCharged ==
    ASSUME \A r \in Requests : held[r] = 0 /\ given[r] = 0
    PROVE  Charged = 0
<1>1. held = [r \in Requests |-> 0] /\ given = [r \in Requests |-> 0]
    BY DEF held, given
<1>2. SumFunction([r \in Requests |-> 0]) = 0
    BY ServerAssumption, SumOfZeros
<1> QED BY <1>1, <1>2 DEF Charged

\* At first nothing is charged.
LEMMA QuotaInit == Init => QuotaInv
<1> SUFFICES ASSUME Init PROVE QuotaInv
    OBVIOUS
<1>1. ContainerInv
    BY ContainerInit
<1>2. VariablesOK
  <2>1. [to |-> "/metrics", max |-> 0] \in [to : Endpoints, max : 0..(MaxTokens + 1)]
      BY ServerAssumption DEF Endpoints
  <2> DEFINE Replies == [status : {0, 200, 422, 429, 500}, tokens : 0..MaxTokens]
  <2>2. NoReply \in Replies
      BY ServerAssumption DEF NoReply
  <2>3. 0 \in 0..MaxRestarts
      BY ServerAssumption
  <2>4. asked \in [Requests -> [to : Endpoints, max : 0..(MaxTokens + 1)]]
      BY <2>1, Zenon DEF Init
  <2>5. reply \in [Requests -> Replies]
    <3> HIDE DEF Replies
    <3> QED BY <2>2 DEF Init
  <2> QED BY <2>3, <2>4, <2>5 DEF Init, VariablesOK
<1>3. RequestsOK
    BY DEF Init, RequestsOK, InFlight, NoReply
<1>4. StartsFromZero
    BY DEF Init, StartsFromZero, given, NoReply
<1>5. value \in 0..Quota /\ CounterIsExact
    BY ServerAssumption DEF Init, CounterIsExact
<1> QED BY <1>1, <1>2, <1>3, <1>4, <1>5 DEF QuotaInv

\* The three ways out of generation: some of what was reserved was used, the
\* rest goes back, and the handler responds with what was used.
Settles(r, status, actual) ==
    /\ pc[r] \in {"asleep", "engine"}
    /\ actual \in 0..asked[r].max /\ status \in {200, 500}
    /\ value' = value - (asked[r].max - actual)
    /\ Respond(r, status, actual)
    /\ UNCHANGED <<processVars, requestCount, asked, life>>

\* Each way a generation ends settles its reservation once.
LEMMA GenerationSettles ==
    ASSUME QuotaInv, NEW r \in Requests, Wake(r) \/ EngineReturns(r) \/ EngineFails(r)
    PROVE  \E status, actual : Settles(r, status, actual)
<1>1. pc[r] \in {"asleep", "engine"} => asked[r].max \in 1..MaxTokens
    BY DEF QuotaInv, RequestsOK
<1>2. CASE Wake(r)
  <2>1. PICK words \in FallbackWords :
           LET actual == IF words > asked[r].max THEN asked[r].max ELSE words
           IN  adjust(asked[r].max, actual) /\ Respond(r, 200, actual)
      BY <1>2 DEF Wake
  <2> DEFINE actual == IF words > asked[r].max THEN asked[r].max ELSE words
  <2>2. actual \in 0..asked[r].max
      BY <1>1, <1>2, ServerAssumption DEF Wake, Runs
  <2>3. adjust(asked[r].max, actual) /\ Respond(r, 200, actual)
      BY <2>1
  <2> HIDE DEF actual
  <2>4. Settles(r, 200, actual)
      BY <1>2, <2>2, <2>3 DEF Wake, Runs, Settles, adjust
  <2> QED BY <2>4
<1>3. CASE EngineReturns(r)
  <2>1. PICK actual \in 0..asked[r].max :
           adjust(asked[r].max, actual) /\ Respond(r, 200, actual)
      BY <1>3 DEF EngineReturns
  <2>2. Settles(r, 200, actual)
      BY <1>3, <2>1 DEF EngineReturns, Settles, adjust
  <2> QED BY <2>2
<1>4. CASE EngineFails(r)
  <2>1. 0 \in 0..asked[r].max
      BY <1>1, <1>4, ServerAssumption DEF EngineFails
  <2>2. Settles(r, 500, 0)
      BY <1>4, <2>1 DEF EngineFails, Settles, adjust
  <2> QED BY <2>2
<1> QED BY <1>2, <1>3, <1>4

\* Settling moves what was used from reserved to given.
LEMMA SettlesSums ==
    ASSUME QuotaInv, NEW r \in Requests, NEW status, NEW actual,
           Settles(r, status, actual)
    PROVE  /\ held' = [held EXCEPT ![r] = 0] /\ held[r] = asked[r].max
           /\ given' = [given EXCEPT ![r] = actual] /\ given[r] = 0
           /\ actual \in Nat /\ asked[r].max \in 1..MaxTokens /\ actual <= asked[r].max
<1> USE DEF Settles
<1>1. asked[r].max \in 1..MaxTokens /\ reply[r].tokens = 0 /\ life[r] = restarts
    BY DEF QuotaInv, RequestsOK, InFlight
<1>2. actual \in Nat /\ actual <= asked[r].max
    BY <1>1, ServerAssumption
<1>3. UNCHANGED <<asked, life, restarts>>
    BY DEF processVars
<1>4. /\ pc' = [pc EXCEPT ![r] = "returned"]
      /\ reply' = [reply EXCEPT ![r] = [status |-> status, tokens |-> actual]]
    BY DEF Respond
<1>5. pc \in [Requests -> {"new", "accepted", "asleep", "engine",
                           "returned", "answered", "lost"}] /\ DOMAIN reply = Requests
    BY DEF QuotaInv, VariablesOK
<1>6. held' = [held EXCEPT ![r] = 0] /\ held[r] = asked[r].max
    BY <1>3, <1>4, <1>5 DEF held
<1>7. reply'[r].tokens = actual /\ \A q \in Requests : q # r => reply'[q] = reply[q]
    BY <1>4, <1>5
<1>8. given' = [given EXCEPT ![r] = actual] /\ given[r] = 0
  <2>1. given[r] = 0
      BY <1>1 DEF given
  <2>2. given'[r] = actual
      BY <1>1, <1>3, <1>7 DEF given
  <2>3. \A q \in Requests : q # r => given'[q] = given[q]
      BY <1>3, <1>7 DEF given
  <2>4. given' = [q \in Requests |-> given'[q]] /\ given = [q \in Requests |-> given[q]]
      BY DEF given
  <2> HIDE DEF given
  <2> QED BY <2>1, <2>2, <2>3, <2>4
<1> QED BY <1>1, <1>2, <1>6, <1>8


\* The step of a client or of a handler, as the quota sees it: a request is
\* refused or goes on with nothing moved, reserves what fits, or settles.
Keeps == value' = value /\ held' = held /\ given' = given

Reserves(r) ==
    /\ asked[r].max \in 1..MaxTokens /\ value + asked[r].max <= Quota
    /\ held[r] = 0 /\ held' = [held EXCEPT ![r] = asked[r].max]
    /\ given' = given
    /\ value' = value + asked[r].max

\* A request that passes the quota test reserves its max_tokens.
LEMMA GenerateReserves ==
    ASSUME QuotaInv, NEW r \in Requests, Generate(r) PROVE Reserves(r)
<1>1. asked[r].max \in 1..MaxTokens /\ value + asked[r].max <= Quota
  <2>1. asked[r].max \in 1..MaxTokens /\ asked[r].max <= Quota - value
      BY DEF Generate, Valid, Fits
  <2> QED BY <2>1, ServerAssumption DEF QuotaInv
<1>2. /\ UNCHANGED <<asked, life, restarts, reply>> /\ pc[r] = "accepted"
      /\ pc' = [pc EXCEPT ![r] = IF fallback THEN "asleep" ELSE "engine"]
    BY DEF Generate, Runs, processVars
<1>3. DOMAIN pc = Requests
    BY DEF QuotaInv, VariablesOK
<1>4. held[r] = 0 /\ held' = [held EXCEPT ![r] = asked[r].max]
    BY <1>2, <1>3 DEF held
<1>5. given' = given
    BY <1>2 DEF given
<1> QED BY <1>1, <1>4, <1>5 DEF Generate, Reserves

\* The other steps of a request charge nothing.
LEMMA OthersKeep ==
    ASSUME QuotaInv, NEW r \in Requests,
           \/ Client(r) \/ RejectInvalid(r) \/ Refuse(r) \/ Report(r)
           \/ metrics_middleware(r)
    PROVE  Keeps
<1> DEFINE Outside == {"new", "accepted", "returned", "answered"}
<1>1. DOMAIN pc = Requests /\ DOMAIN reply = Requests /\ DOMAIN life = Requests
      /\ DOMAIN asked = Requests
    BY DEF QuotaInv, VariablesOK
<1>2. UNCHANGED <<value, restarts>>
    BY DEF Client, Submit, RejectInvalid, Refuse, Report, metrics_middleware, processVars
<1>3. pc[r] \in Outside /\ \E to \in Outside : pc' = [pc EXCEPT ![r] = to]
    BY DEF Client, Submit, RejectInvalid, Refuse, Report, metrics_middleware, Runs, Respond
<1>4. \A q \in Requests : q # r => asked'[q] = asked[q] /\ reply'[q] = reply[q]
                                   /\ life'[q] = life[q]
    BY <1>1 DEF Client, Submit, RejectInvalid, Refuse, Report, metrics_middleware, Respond
<1>5. held' = held
    BY <1>1, <1>3, <1>4 DEF held
<1>6. (life'[r] = restarts /\ reply'[r].tokens = reply[r].tokens /\ life[r] = restarts)
      \/ (reply[r].tokens = 0 /\ reply'[r].tokens = 0)
  <2>1. CASE Client(r)
    <3>1. pc[r] = "new" /\ reply' = reply
        BY <2>1 DEF Client, Submit
    <3> QED BY <3>1 DEF QuotaInv, RequestsOK
  <2>2. CASE RejectInvalid(r) \/ Refuse(r) \/ Report(r)
    <3>1. pc[r] = "accepted" /\ reply'[r].tokens = 0
        BY <1>1, <2>2 DEF RejectInvalid, Refuse, Report, Runs, Respond
    <3> QED BY <3>1 DEF QuotaInv, RequestsOK
  <2>3. CASE metrics_middleware(r)
    <3>1. pc[r] = "returned" /\ reply' = reply /\ life' = life
        BY <2>3 DEF metrics_middleware, Runs
    <3> QED BY <3>1 DEF QuotaInv, RequestsOK, InFlight
  <2> QED BY <2>1, <2>2, <2>3
<1>7. given' = given
    BY <1>2, <1>4, <1>6 DEF given
<1> QED BY <1>2, <1>5, <1>7 DEF Keeps


\* The variables keep their types, and each request what its place says.
LEMMA RequestStepTypes ==
    ASSUME QuotaInv, NEW r \in Requests, Client(r) \/ Handle(r)
    PROVE  VariablesOK' /\ RequestsOK'
<1> DEFINE Places == {"new", "accepted", "asleep", "engine", "returned",
                      "answered", "lost"}
           Asks == [to : Endpoints, max : 0..(MaxTokens + 1)]
           Replies == [status : {0, 200, 422, 429, 500}, tokens : 0..MaxTokens]
<1>1. /\ engine \in BOOLEAN /\ fallback \in BOOLEAN
      /\ restarts \in 0..MaxRestarts /\ life \in [Requests -> 0..MaxRestarts]
      /\ pc \in [Requests -> Places] /\ asked \in [Requests -> Asks]
      /\ reply \in [Requests -> Replies]
    BY DEF QuotaInv, VariablesOK
<1>2. RequestsOK
    BY DEF QuotaInv
<1>3. ASSUME NEW to \in Places, pc' = [pc EXCEPT ![r] = to],
             to \notin {"new", "lost"}, to \in {"accepted", "asleep", "engine"} => reply'[r].tokens = 0,
             to \in {"asleep", "engine"} => asked'[r].max \in 1..MaxTokens,
             life'[r] = restarts,
             asked' \in [Requests -> Asks], reply' \in [Requests -> Replies],
             life' \in [Requests -> 0..MaxRestarts],
             UNCHANGED <<engine, fallback, restarts>>,
             \A q \in Requests : q # r => asked'[q] = asked[q] /\ reply'[q] = reply[q]
                                          /\ life'[q] = life[q]
      PROVE  VariablesOK' /\ RequestsOK'
  <2>1. VariablesOK'
      BY <1>1, <1>3 DEF VariablesOK
  <2>2. RequestsOK'
    <3> HIDE DEF Asks, Replies
    <3>1. \A q \in Requests : pc'[q] = IF q = r THEN to ELSE pc[q]
        BY <1>1, <1>3
    <3> QED BY <1>1, <1>2, <1>3, <3>1 DEF RequestsOK, InFlight
  <2> QED BY <2>1, <2>2
<1>4. CASE Client(r)
  <2>1. PICK endpoint \in Endpoints, max \in 0..(MaxTokens + 1) : Submit(r, endpoint, max)
      BY <1>4, ServerAssumption DEF Client, Endpoints
  <2>2. [to |-> endpoint, max |-> max] \in Asks
      OBVIOUS
  <2>3. restarts \in 0..MaxRestarts /\ pc[r] = "new" /\ reply' = reply
      BY <1>1, <2>1 DEF Submit
  <2>4. reply'[r].tokens = 0
      BY <1>2, <2>3 DEF RequestsOK
  <2> HIDE DEF Asks, Replies
  <2>5. asked' \in [Requests -> Asks] /\ life' \in [Requests -> 0..MaxRestarts]
      BY <1>1, <2>1, <2>2, <2>3 DEF Submit
  <2>6. UNCHANGED <<engine, fallback, restarts>> /\ pc' = [pc EXCEPT ![r] = "accepted"]
      BY <2>1 DEF Submit, processVars
  <2>7. life'[r] = restarts
        /\ \A q \in Requests : q # r => asked'[q] = asked[q] /\ life'[q] = life[q]
      BY <1>1, <2>1 DEF Submit
  <2> QED BY <1>1, <1>3, <2>3, <2>4, <2>5, <2>6, <2>7
<1>5. ASSUME NEW status \in {0, 200, 422, 429, 500}, NEW tokens \in 0..MaxTokens,
             Respond(r, status, tokens), pc[r] \in {"accepted", "asleep", "engine"},
             UNCHANGED <<engine, fallback, restarts, asked, life>>
      PROVE  VariablesOK' /\ RequestsOK'
  <2>1. [status |-> status, tokens |-> tokens] \in Replies
      OBVIOUS
  <2>2. life[r] = restarts
      BY <1>2, <1>5 DEF RequestsOK, InFlight
  <2> HIDE DEF Asks, Replies
  <2>3. reply' \in [Requests -> Replies]
        /\ \A q \in Requests : q # r => reply'[q] = reply[q]
      BY <1>1, <1>5, <2>1 DEF Respond
  <2> QED BY <1>1, <1>3, <1>5, <2>2, <2>3 DEF Respond
<1>6. CASE RejectInvalid(r) \/ Refuse(r) \/ Report(r)
  <2>1. 0 \in 0..MaxTokens
      BY ServerAssumption
  <2> QED BY <1>5, <1>6, <2>1 DEF RejectInvalid, Refuse, Report, Runs, processVars
<1>7. CASE Wake(r) \/ EngineReturns(r) \/ EngineFails(r)
  <2>1. PICK status, actual : Settles(r, status, actual)
      BY <1>7, GenerationSettles
  <2>2. actual \in 0..MaxTokens
      BY <2>1, SettlesSums, ServerAssumption
  <2> QED BY <1>5, <2>1, <2>2 DEF Settles, processVars
<1>8. CASE Generate(r)
  <2>1. Valid(r) /\ pc[r] = "accepted"
      BY <1>8 DEF Generate, Runs
  <2>2. asked[r].max \in 1..MaxTokens /\ reply[r].tokens = 0 /\ life[r] = restarts
      BY <1>2, <2>1 DEF RequestsOK, InFlight, Valid
  <2>3. UNCHANGED <<engine, fallback, restarts, asked, reply, life>>
      BY <1>8 DEF Generate, processVars
  <2>4. PICK to \in {"asleep", "engine"} : pc' = [pc EXCEPT ![r] = to]
      BY <1>8 DEF Generate
  <2> HIDE DEF Asks, Replies
  <2> QED BY <1>1, <1>3, <2>2, <2>3, <2>4
<1>9. CASE metrics_middleware(r)
  <2>1. life[r] = restarts
      BY <1>2, <1>9 DEF RequestsOK, InFlight, metrics_middleware, Runs
  <2>2. UNCHANGED <<engine, fallback, restarts, asked, reply, life>>
        /\ pc' = [pc EXCEPT ![r] = "answered"]
      BY <1>9 DEF metrics_middleware, processVars
  <2> HIDE DEF Asks, Replies
  <2> QED BY <1>1, <1>3, <2>1, <2>2
<1> QED BY <1>4, <1>6, <1>7, <1>8, <1>9 DEF Handle

\* A step of a request keeps the counter exact.
LEMMA RequestStepQuota ==
    ASSUME QuotaInv, NEW r \in Requests, Client(r) \/ Handle(r)
    PROVE  QuotaInv'
<1>1. ContainerInv'
    BY HandlerStep DEF QuotaInv
<1>2. VariablesOK' /\ RequestsOK'
    BY RequestStepTypes
<1>3. process' = process /\ process \in {"serving", "draining"}
    BY RequestWhileServing DEF QuotaInv
<1>4. value = SumFunction(held) + SumFunction(given)
    BY <1>3 DEF QuotaInv, CounterIsExact, Charged
<1>5. /\ held \in [Requests -> Int] /\ given \in [Requests -> Int]
      /\ SumFunction(held) \in Nat /\ SumFunction(given) \in Nat
      /\ held[r] <= SumFunction(held)
    BY SumsOfRequests DEF QuotaInv
<1>6. value \in 0..Quota /\ Quota \in Nat
    BY ServerAssumption DEF QuotaInv
<1>7. ASSUME NEW f \in [Requests -> Int], NEW k \in Int
        PROVE  SumFunction([f EXCEPT ![r] = k]) = SumFunction(f) - f[r] + k
    BY ServerAssumption, SumOfExcept
<1>8. value' = SumFunction(held') + SumFunction(given') /\ value' \in 0..Quota
  <2>1. CASE Keeps
      BY <1>4, <1>6, <2>1 DEF Keeps
  <2>2. CASE Generate(r)
    <3>1. Reserves(r)
        BY <2>2, GenerateReserves
    <3>2. asked[r].max \in Int
        BY <3>1 DEF Reserves
    <3>3. SumFunction([held EXCEPT ![r] = asked[r].max])
             = SumFunction(held) - held[r] + asked[r].max
      <4> HIDE DEF held, given
      <4> QED BY <1>5, <1>7, <3>2
    <3> HIDE DEF held, given
    <3> QED BY <1>4, <1>5, <1>6, <3>1, <3>3, ServerAssumption DEF Reserves
  <2>3. CASE Wake(r) \/ EngineReturns(r) \/ EngineFails(r)
    <3>1. PICK status, actual : Settles(r, status, actual)
        BY <2>3, GenerationSettles
    <3>2. /\ held' = [held EXCEPT ![r] = 0] /\ held[r] = asked[r].max
          /\ given' = [given EXCEPT ![r] = actual] /\ given[r] = 0
          /\ actual \in Nat /\ asked[r].max \in 1..MaxTokens /\ actual <= asked[r].max
        BY <3>1, SettlesSums
    <3>3. SumFunction([held EXCEPT ![r] = 0]) = SumFunction(held) - held[r] + 0
      <4> HIDE DEF held, given
      <4>1. 0 \in Int
          OBVIOUS
      <4> QED BY <1>5, <1>7, <4>1
    <3>4. SumFunction([given EXCEPT ![r] = actual]) = SumFunction(given) - given[r] + actual
      <4> HIDE DEF held, given
      <4>1. actual \in Int
          BY <3>2
      <4> QED BY <1>5, <1>7, <4>1
    <3>5. value' = value - (asked[r].max - actual)
        BY <3>1 DEF Settles
    <3> HIDE DEF held, given
    <3> QED BY <1>4, <1>5, <1>6, <3>2, <3>3, <3>4, <3>5, ServerAssumption
  <2> QED BY <2>1, <2>2, <2>3, OthersKeep DEF Handle
<1>9. StartsFromZero' /\ CounterIsExact'
  <2>1. process = "draining" => restarts < MaxRestarts
      BY DEF QuotaInv, StartsFromZero
  <2>2. restarts' = restarts
      BY GenerationSettles DEF Client, Submit, Handle, RejectInvalid, Refuse, Generate,
         Settles, Report, metrics_middleware, processVars
  <2> QED BY <1>3, <1>8, <2>1, <2>2 DEF StartsFromZero, CounterIsExact, Charged
<1> QED BY <1>1, <1>2, <1>8, <1>9 DEF QuotaInv


\* What the container does to the quota: no request is in flight when a process
\* starts to serve, and what the one before gave does not count.
LEMMA ContainerStepQuota == QuotaInv /\ Container => QuotaInv'
<1> SUFFICES ASSUME QuotaInv, Container PROVE QuotaInv'
    OBVIOUS
<1>1. ContainerInv'
    BY ContainerStep DEF QuotaInv
<1>2. FlagsOK /\ NobodyWaits /\ VariablesOK /\ RequestsOK /\ StartsFromZero
    BY DEF QuotaInv, ContainerInv
<1>3. value \in 0..Quota
    BY DEF QuotaInv
<1>4. ASSUME process' = "serving", process = "starting",
             UNCHANGED <<value, restarts, pc, asked, reply, life>>,
             engine' \in BOOLEAN, fallback' \in BOOLEAN
      PROVE  QuotaInv'
  <2>1. VariablesOK' /\ RequestsOK' /\ value' \in 0..Quota
      BY <1>2, <1>3, <1>4 DEF VariablesOK, RequestsOK, InFlight
  <2>2. value = 0 /\ \A r \in Requests : held[r] = 0 /\ given[r] = 0
    <3>1. value = 0 /\ \A r \in Requests : given[r] = 0
        BY <1>2, <1>4 DEF StartsFromZero
    <3>2. \A r \in Requests : held[r] = 0
        BY <1>2, <1>4 DEF NobodyWaits, InFlight, held
    <3> QED BY <3>1, <3>2
  <2>3. Charged' = Charged
      BY <1>4 DEF Charged, held, given
  <2>4. CounterIsExact'
      BY <1>4, <2>2, <2>3, NothingCharged DEF CounterIsExact
  <2>5. StartsFromZero'
      BY <1>4 DEF StartsFromZero
  <2> QED BY <1>1, <2>1, <2>4, <2>5 DEF QuotaInv
<1>5. CASE LoadEngine
    BY <1>2, <1>4, <1>5 DEF LoadEngine, VariablesOK
<1>6. CASE FallBack
    BY <1>2, <1>4, <1>6 DEF FallBack, VariablesOK
<1>7. CASE Terminate
  <2>1. UNCHANGED <<engine, fallback, value, requestCount, restarts, pc, asked, reply, life>>
      BY <1>7 DEF Terminate
  <2>2. VariablesOK' /\ RequestsOK' /\ value' \in 0..Quota
      BY <1>2, <1>3, <2>1 DEF VariablesOK, RequestsOK, InFlight
  <2>3. Charged' = Charged
      BY <2>1 DEF Charged, held, given
  <2>4. CounterIsExact'
      BY <1>7, <2>1, <2>3 DEF QuotaInv, CounterIsExact, Terminate
  <2>5. StartsFromZero'
      BY <1>7 DEF StartsFromZero, Terminate
  <2> QED BY <1>1, <2>2, <2>4, <2>5 DEF QuotaInv
<1>8. ASSUME process' = "down", restarts' = restarts + 1, restarts < MaxRestarts,
             UNCHANGED <<value, asked, reply, life>>, engine' \in BOOLEAN, fallback' \in BOOLEAN,
             \A r \in Requests : ~InFlight(r)',
             pc' = [r \in Requests |-> IF InFlight(r) THEN "lost" ELSE pc[r]]
      PROVE  QuotaInv'
  <2>1. VariablesOK'
      BY <1>2, <1>8, ServerAssumption DEF VariablesOK
  <2>2. \A r \in Requests : life[r] \in Int /\ life[r] <= restarts /\ restarts \in Int
      BY <1>2 DEF RequestsOK, VariablesOK
  <2>3. RequestsOK'
      BY <1>2, <1>8, <2>2 DEF RequestsOK, InFlight
  <2>4. \A r \in Requests : given'[r] = 0
      BY <1>8, <2>2 DEF given
  <2>5. StartsFromZero' /\ CounterIsExact' /\ value' \in 0..Quota
      BY <1>3, <1>8, <2>4 DEF StartsFromZero, CounterIsExact
  <2> QED BY <1>1, <2>1, <2>3, <2>5 DEF QuotaInv
<1>9. CASE Shutdown
  <2>1. process = "draining" /\ restarts < MaxRestarts /\ \A r \in Requests : ~InFlight(r)
      BY <1>2, <1>9 DEF Shutdown, StartsFromZero
  <2>2. pc' = [r \in Requests |-> IF InFlight(r) THEN "lost" ELSE pc[r]]
      BY <1>2, <1>9, <2>1 DEF Shutdown, VariablesOK
  <2>3. \A r \in Requests : ~InFlight(r)'
      BY <1>9, <2>1 DEF Shutdown, InFlight
  <2> QED BY <1>2, <1>8, <1>9, <2>1, <2>2, <2>3 DEF Shutdown, VariablesOK
<1>10. CASE Kill
  <2>1. \A r \in Requests : ~InFlight(r)'
      BY <1>10 DEF Kill, InFlight
  <2> QED BY <1>2, <1>8, <1>10, <2>1 DEF Kill, VariablesOK
<1>11. CASE Start
  <2>1. VariablesOK' /\ RequestsOK' /\ value' \in 0..Quota
    <3>1. VariablesOK'
        BY <1>2, <1>11 DEF Start, VariablesOK
    <3>2. RequestsOK'
        BY <1>2, <1>11 DEF Start, RequestsOK, InFlight
    <3>3. value' \in 0..Quota
        BY <1>11, ServerAssumption DEF Start
    <3> QED BY <3>1, <3>2, <3>3
  <2>2. \A r \in Requests : given[r] = 0
      BY <1>2, <1>11 DEF Start, StartsFromZero
  <2>3. given' = given
      BY <1>11 DEF Start, given
  <2> HIDE DEF given
  <2>4. StartsFromZero' /\ CounterIsExact'
      BY <1>11, <2>2, <2>3 DEF Start, StartsFromZero, CounterIsExact
  <2> QED BY <1>1, <2>1, <2>4 DEF QuotaInv
<1> QED BY <1>5, <1>6, <1>7, <1>9, <1>10, <1>11 DEF Container

\* Requests and container keep the invariant together.
LEMMA QuotaStep == QuotaInv /\ [Next]_vars => QuotaInv'
<1>1. ASSUME QuotaInv, UNCHANGED vars PROVE QuotaInv'
    BY <1>1 DEF vars, QuotaInv, ContainerInv, FlagsOK, NobodyWaits, ReadyWhenServing,
                InFlight, VariablesOK, RequestsOK, StartsFromZero, CounterIsExact, Charged,
                held, given
<1> QED BY <1>1, RequestStepQuota, ContainerStepQuota DEF Next

\* So it always holds.
LEMMA QuotaAlways == Spec => []QuotaInv
<1> QED BY QuotaInit, QuotaStep, PTL DEF Spec

\* While a process serves, for any number of requests and restarts, the token
\* counter is exactly what the handlers in flight have reserved plus what the
\* clients of this process were given.
THEOREM CounterExact == Spec => []CounterIsExact
<1>1. QuotaInv => CounterIsExact
    BY DEF QuotaInv
<1> QED BY <1>1, QuotaAlways, PTL

-----------------------------------------------------------------------------

\* No request is counted at first.
LEMMA CountedInit == Init => CountedOnce
<1> SUFFICES ASSUME Init PROVE CountedOnce
    OBVIOUS
<1>1. IsFiniteSet(Answered) /\ Cardinality(Answered) \in Nat
    BY ServerAssumption, FS_Subset, FS_CardinalityType DEF Answered
<1> QED BY <1>1 DEF Init, CountedOnce

\* metrics_middleware adds one to the count and one request to those answered;
\* no other step takes a request away from them.
LEMMA CountedStep == QuotaInv /\ CountedOnce /\ [Next]_vars => CountedOnce'
<1> SUFFICES ASSUME QuotaInv, CountedOnce, [Next]_vars PROVE CountedOnce'
    OBVIOUS
<1>1. /\ IsFiniteSet(Answered) /\ IsFiniteSet(Answered')
      /\ Cardinality(Answered) \in Nat /\ Cardinality(Answered') \in Nat
    BY ServerAssumption, FS_Subset, FS_CardinalityType DEF Answered
<1>2. DOMAIN pc = Requests
    BY DEF QuotaInv, VariablesOK
<1>3. ASSUME NEW r \in Requests, metrics_middleware(r) PROVE CountedOnce'
  <2>1. Answered' = Answered \cup {r} /\ r \notin Answered
      BY <1>2, <1>3 DEF metrics_middleware, Runs, Answered
  <2>2. Cardinality(Answered') = Cardinality(Answered) + 1
      BY <1>1, <2>1, FS_AddElement
  <2> QED BY <1>1, <1>3, <2>2 DEF metrics_middleware, CountedOnce
<1>4. ASSUME requestCount' \in {0, requestCount}, Answered \subseteq Answered'
      PROVE  CountedOnce'
  <2>1. Cardinality(Answered) <= Cardinality(Answered')
      BY <1>1, <1>4, FS_Subset
  <2> QED BY <1>1, <1>4, <2>1 DEF CountedOnce
<1>5. ASSUME NEW r \in Requests, Client(r) \/ Handle(r), ~metrics_middleware(r)
      PROVE  requestCount' = requestCount /\ Answered \subseteq Answered'
  <2>1. requestCount' = requestCount
      BY <1>5 DEF Client, Submit, Handle, RejectInvalid, Refuse, Generate, Wake,
                  EngineReturns, EngineFails, Report
  <2>2. pc[r] # "answered" /\ \E to : pc' = [pc EXCEPT ![r] = to]
      BY <1>5 DEF Client, Submit, Handle, RejectInvalid, Refuse, Generate, Wake,
                  EngineReturns, EngineFails, Report, Runs, Respond
  <2> QED BY <1>2, <2>1, <2>2 DEF Answered
<1>6. ASSUME Container PROVE requestCount' \in {0, requestCount} /\ Answered \subseteq Answered'
    BY <1>6 DEF Container, LoadEngine, FallBack, Terminate, Shutdown, Kill, Start,
                Answered, InFlight
<1>7. CASE UNCHANGED vars
    BY <1>4, <1>7 DEF vars, Answered
<1> QED BY <1>3, <1>4, <1>5, <1>6, <1>7 DEF Next

\* Every variable keeps its type: the counter stays between 0 and the quota,
\* and no request is counted twice.
THEOREM TypeCorrect == Spec => []TypeOK
<1>1. QuotaInv /\ CountedOnce => TypeOK
  <2>1. Cardinality(Answered) <= Cardinality(Requests)
        /\ Cardinality(Answered) \in Nat /\ Cardinality(Requests) \in Nat
      BY ServerAssumption, FS_Subset, FS_CardinalityType DEF Answered
  <2>2. CountedOnce => requestCount \in 0..Cardinality(Requests)
      BY <2>1 DEF CountedOnce
  <2> QED BY <2>2 DEF QuotaInv, ContainerInv, FlagsOK, VariablesOK, TypeOK
<1> QED BY <1>1, CountedInit, CountedStep, QuotaAlways, PTL DEF Spec


\* The only answer 429 is that of generate, which has just found that the
\* request does not fit into what is given and reserved.
THEOREM RefusalsAreJustified == Spec => RefusedOnlyWhenFull
<1> DEFINE Full == \A r \in Requests :
                      reply'[r].status = 429 /\ reply[r].status # 429
                          => Charged + asked[r].max > Quota
<1>1. ASSUME QuotaInv, NEW r \in Requests, Refuse(r)
      PROVE  Charged + asked[r].max > Quota
  <2>1. value = Charged /\ asked[r].max \in 1..MaxTokens /\ ~(asked[r].max <= Quota - value)
      BY <1>1 DEF Refuse, Runs, LoopIsFree, QuotaInv, CounterIsExact, Valid, Fits
  <2>2. value \in 0..Quota /\ Quota \in Nat /\ MaxTokens \in Nat
      BY <1>1, ServerAssumption DEF QuotaInv
  <2> QED BY <2>1, <2>2
<1>2. ASSUME QuotaInv, NEW r \in Requests, Client(r) \/ Handle(r), ~Refuse(r)
      PROVE  \A q \in Requests : reply'[q].status = 429 => reply[q].status = 429
  <2>1. CASE \/ RejectInvalid(r) \/ Report(r)
             \/ Wake(r) \/ EngineReturns(r) \/ EngineFails(r)
    <3>1. \E status, tokens : status # 429 /\ Respond(r, status, tokens)
        BY <1>2, <2>1, GenerationSettles DEF RejectInvalid, Report, Settles
    <3>2. DOMAIN reply = Requests
        BY <1>2 DEF QuotaInv, VariablesOK
    <3> QED BY <3>1, <3>2 DEF Respond
  <2>2. CASE Client(r) \/ Generate(r) \/ metrics_middleware(r)
      BY <2>2 DEF Client, Submit, Generate, metrics_middleware
  <2> QED BY <1>2, <2>1, <2>2 DEF Handle
<1>3. ASSUME QuotaInv, NEW r \in Requests, Refuse(r)
      PROVE  \A q \in Requests : q # r => reply'[q] = reply[q]
  <2>1. DOMAIN reply = Requests
      BY <1>3 DEF QuotaInv, VariablesOK
  <2> QED BY <1>3, <2>1 DEF Refuse, Respond
<1>4. ASSUME Container \/ UNCHANGED vars PROVE reply' = reply
    BY <1>4 DEF Container, LoadEngine, FallBack, Terminate, Shutdown, Kill, Start, vars
<1>5. QuotaInv /\ [Next]_vars => [Full]_vars
  <2> SUFFICES ASSUME QuotaInv, [Next]_vars PROVE Full
      OBVIOUS
  <2> HIDE DEF Charged
  <2> QED BY <1>1, <1>2, <1>3, <1>4 DEF Next
<1> QED BY <1>5, QuotaAlways, PTL DEF Spec, RefusedOnlyWhenFull

-----------------------------------------------------------------------------
(* The ledger                                                              *)

\* A request that reserves takes a reservation that fits from the ledger.
LEMMA GenerateIsReserve ==
    ASSUME QuotaInv, NEW r \in Requests, Generate(r) PROVE Ledger!Reserve(r)
<1>1. Reserves(r)
    BY GenerateReserves
<1>2. process \in {"serving", "draining"} /\ process' = process
    BY RequestWhileServing DEF QuotaInv, Handle
<1>3. spent = value /\ spent' = value'
    BY <1>2 DEF spent
<1> HIDE DEF held, spent
<1> QED BY <1>1, <1>3 DEF Reserves, Ledger!Reserve

\* However generation ends, its reservation is settled with the ledger.
LEMMA GenerationIsSettle ==
    ASSUME QuotaInv, NEW r \in Requests, Wake(r) \/ EngineReturns(r) \/ EngineFails(r)
    PROVE  Ledger!Settle(r)
<1>1. PICK status, actual : Settles(r, status, actual)
    BY GenerationSettles
<1>2. /\ held' = [held EXCEPT ![r] = 0] /\ held[r] = asked[r].max
      /\ actual \in Nat /\ asked[r].max \in 1..MaxTokens /\ actual <= asked[r].max
    BY <1>1, SettlesSums
<1>3. process \in {"serving", "draining"} /\ process' = process
    BY RequestWhileServing DEF QuotaInv, Handle
<1>4. spent = value /\ spent' = value - (held[r] - actual)
    BY <1>1, <1>2, <1>3 DEF spent, Settles
<1> HIDE DEF held, spent
<1>5. held[r] > 0 /\ actual \in 0..held[r]
    BY <1>2, ServerAssumption
<1> QED BY <1>2, <1>4, <1>5 DEF Ledger!Settle

\* Every other step of a request leaves the ledger alone.
LEMMA OthersStutter ==
    ASSUME QuotaInv, NEW r \in Requests,
           \/ Client(r) \/ RejectInvalid(r) \/ Refuse(r) \/ Report(r)
           \/ metrics_middleware(r)
    PROVE  UNCHANGED Ledger!LedgerVars
<1>1. value' = value /\ held' = held
    BY OthersKeep DEF Keeps
<1>2. process' = process
    BY RequestWhileServing DEF QuotaInv, Handle
<1>3. spent' = spent
    BY <1>1, <1>2 DEF spent
<1> HIDE DEF held, spent
<1> QED BY <1>1, <1>3 DEF Ledger!LedgerVars

\* The end of a process forgets its ledger; its start and its readiness find
\* the ledger empty.
LEMMA ContainerOnLedger ==
    ASSUME QuotaInv, Container
    PROVE  Ledger!Reset \/ UNCHANGED Ledger!LedgerVars
<1>1. CASE LoadEngine \/ FallBack \/ Terminate \/ Start
  <2>1. process = "starting" => value = 0
      BY DEF QuotaInv, StartsFromZero
  <2>2. spent' = spent /\ held' = held
      BY <1>1, <2>1 DEF LoadEngine, FallBack, Terminate, Start, spent, held
  <2> HIDE DEF held, spent
  <2> QED BY <2>2 DEF Ledger!LedgerVars
<1>2. CASE Shutdown \/ Kill
  <2>1. process' = "down" /\ \A r \in Requests : ~InFlight(r)'
      BY <1>2 DEF Shutdown, Kill, InFlight
  <2>2. spent' = 0 /\ held' = [r \in Requests |-> 0]
      BY <2>1 DEF spent, held, InFlight
  <2> HIDE DEF held, spent
  <2> QED BY <2>2 DEF Ledger!Reset
<1> QED BY <1>1, <1>2 DEF Container

\* The server implements the ledger of a quota that is forgotten with each
\* process, for any number of requests: every reservation fits, and is settled
\* once, for no more than was reserved.
THEOREM ServerImplementsLedger == Spec => ImplementsLedger
<1>1. Init => Ledger!LedgerInit
  <2> SUFFICES ASSUME Init PROVE Ledger!LedgerInit
      OBVIOUS
  <2>1. spent = 0 /\ held = [r \in Requests |-> 0]
      BY DEF Init, spent, held
  <2> HIDE DEF held, spent
  <2> QED BY <2>1 DEF Ledger!LedgerInit
<1>2. QuotaInv /\ [Next]_vars
         => [Ledger!LedgerNext \/ Ledger!Reset]_(Ledger!LedgerVars)
  <2> SUFFICES ASSUME QuotaInv, [Next]_vars
               PROVE  [Ledger!LedgerNext \/ Ledger!Reset]_(Ledger!LedgerVars)
      OBVIOUS
  <2>1. ASSUME NEW r \in Requests, Client(r) \/ Handle(r)
        PROVE  Ledger!LedgerNext \/ UNCHANGED Ledger!LedgerVars
      BY <2>1, GenerateIsReserve, GenerationIsSettle, OthersStutter
         DEF Handle, Ledger!LedgerNext
  <2>2. CASE UNCHANGED vars
    <3>1. spent' = spent /\ held' = held
        BY <2>2 DEF vars, spent, held
    <3> HIDE DEF held, spent
    <3> QED BY <3>1 DEF Ledger!LedgerVars
  <2> QED BY <2>1, <2>2, ContainerOnLedger DEF Next
<1> QED BY <1>1, <1>2, QuotaAlways, PTL
        DEF Spec, ImplementsLedger, Ledger!RestartedLedgerSpec


===============================================================================
