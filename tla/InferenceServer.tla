--------------------------- MODULE InferenceServer ---------------------------
(***************************************************************************)
(* src/inference/server.py: one container that starts, serves and stops,   *)
(* and the requests it gets.  uvicorn runs it with one worker, so all      *)
(* handlers share one asyncio event loop and are interleaved only where    *)
(* they await: in the sleep of the CPU fallback, and between the endpoint  *)
(* and the middleware around it.  The vLLM engine is called without an     *)
(* await, which stops the whole loop until it returns.                     *)
(*                                                                         *)
(* The "503 Engine not ready" branches of generate and health_check are    *)
(* left out: uvicorn listens only after lifespan has reached its yield,    *)
(* and ReadyWhenServing says that one of the two flags they test is then   *)
(* set.  Checked, not assumed: see there.                                  *)
(***************************************************************************)
EXTENDS Integers, FiniteSets, Functions

CONSTANTS
    Requests,       \* HTTP requests
    UseGPU,         \* USE_GPU
    Quota,          \* TOKEN_QUOTA
    MaxTokens,      \* the largest max_tokens GenerateRequest lets through
    FallbackWords,  \* how many words the text of the CPU fallback may have
    MaxRestarts     \* bound: how often the container is stopped or killed

ASSUME ServerAssumption ==
    /\ IsFiniteSet(Requests)
    /\ UseGPU \in BOOLEAN
    /\ Quota \in Nat /\ MaxTokens \in Nat \ {0} /\ MaxRestarts \in Nat
    /\ FallbackWords \subseteq Nat

VARIABLES
    process,       \* "down", "starting", "serving" or "draining"
    engine,        \* _engine is not None
    fallback,      \* _fallback_mode
    value,         \* _token_counter._value
    requestCount,  \* _request_count
    restarts,      \* how often the container was stopped or killed
    pc,            \* where each request is
    asked,         \* what it asks: an endpoint and max_tokens
    reply,         \* what its endpoint returned: a status and a token count
    life           \* the container's restarts when the request came in

processVars == <<process, engine, fallback, restarts>>
vars == <<process, engine, fallback, value, requestCount, restarts,
          pc, asked, reply, life>>

\* "/metrics" stands for /health and /metrics/json as well.
Endpoints == {"/generate", "/metrics"}

NoReply == [status |-> 0, tokens |-> 0]

Init ==
    /\ process = "starting"
    /\ engine = FALSE /\ fallback = FALSE
    /\ value = 0 /\ requestCount = 0 /\ restarts = 0
    /\ pc = [r \in Requests |-> "new"]
    /\ asked = [r \in Requests |-> [to |-> "/metrics", max |-> 0]]
    /\ reply = [r \in Requests |-> NoReply]
    /\ life = [r \in Requests |-> 0]

-----------------------------------------------------------------------------
(* lifespan: startup                                                       *)

LoadEngine ==
    /\ process = "starting" /\ UseGPU
    /\ engine' = TRUE
    /\ process' = "serving"
    /\ UNCHANGED <<fallback, value, requestCount, restarts, pc,
                    asked, reply, life>>

\* Mutation: a failure to load the engine is logged and nothing more.
FallBackSilently ==
    /\ process = "starting"
    /\ fallback' = ~UseGPU
    /\ process' = "serving"
    /\ UNCHANGED <<engine, value, requestCount, restarts, pc,
                    asked, reply, life>>

\* USE_GPU is false, or there is no CUDA device, no vLLM, or the engine raised.
FallBack ==
    /\ process = "starting"
    /\ fallback' = TRUE
    /\ process' = "serving"
    /\ UNCHANGED <<engine, value, requestCount, restarts, pc,
                    asked, reply, life>>

-----------------------------------------------------------------------------
(* Requests                                                                *)

\* A client connects.  GenerateRequest's max_tokens may be out of range.
Submit(r, endpoint, max) ==
    /\ process = "serving"
    /\ pc[r] = "new"
    /\ pc' = [pc EXCEPT ![r] = "accepted"]
    /\ asked' = [asked EXCEPT ![r] = [to |-> endpoint, max |-> max]]
    /\ life' = [life EXCEPT ![r] = restarts]
    /\ UNCHANGED <<processVars, value, requestCount, reply>>

\* The event loop can run a step: the engine is not holding it up.
LoopIsFree ==
    /\ process \in {"serving", "draining"}
    /\ \A r \in Requests : pc[r] # "engine"

Runs(r, from) == LoopIsFree /\ pc[r] = from

\* The endpoint returns, or raises an HTTPException.
Respond(r, status, tokens) ==
    /\ pc' = [pc EXCEPT ![r] = "returned"]
    /\ reply' = [reply EXCEPT ![r] = [status |-> status, tokens |-> tokens]]

\* adjust(reserved, actual)
adjust(reserved, actual) == value' = value - (reserved - actual)

Valid(r) == asked[r].to = "/generate" /\ asked[r].max \in 1..MaxTokens

\* Mutation: try_reserve turns away what fits exactly.
FitsStrictly(r) == asked[r].max < Quota - value

\* The test of try_reserve.
Fits(r) == asked[r].max <= Quota - value

RejectInvalid(r) ==
    /\ Runs(r, "accepted")
    /\ asked[r].to = "/generate" /\ ~Valid(r)
    /\ Respond(r, 422, 0)
    /\ UNCHANGED <<processVars, value, requestCount, asked, life>>

\* Mutation: a request that does not fit waits for quota to come back.
RefuseLater(r) ==
    /\ Runs(r, "accepted") /\ Valid(r) /\ ~Fits(r)
    /\ UNCHANGED vars

Refuse(r) ==
    /\ Runs(r, "accepted") /\ Valid(r) /\ ~Fits(r)
    /\ Respond(r, 429, 0)
    /\ UNCHANGED <<processVars, value, requestCount, asked, life>>

\* Mutation: tokens are counted and the quota is not looked at.
GenerateUnchecked(r) ==
    /\ Runs(r, "accepted") /\ Valid(r)
    /\ value' = value + asked[r].max
    /\ pc' = [pc EXCEPT ![r] = IF fallback THEN "asleep" ELSE "engine"]
    /\ UNCHANGED <<processVars, requestCount, asked, reply, life>>

\* Tokens are reserved; the handler goes on to the sleep or into the engine.
Generate(r) ==
    /\ Runs(r, "accepted") /\ Valid(r) /\ Fits(r)
    /\ value' = value + asked[r].max
    /\ pc' = [pc EXCEPT ![r] = IF fallback THEN "asleep" ELSE "engine"]
    /\ UNCHANGED <<processVars, requestCount, asked, reply, life>>

\* The CPU fallback wakes up and cuts its text at max_tokens words.
Wake(r) ==
    /\ Runs(r, "asleep")
    /\ \E words \in FallbackWords :
          LET actual == IF words > asked[r].max THEN asked[r].max ELSE words
          IN  adjust(asked[r].max, actual) /\ Respond(r, 200, actual)
    /\ UNCHANGED <<processVars, requestCount, asked, life>>

\* The engine obeys its max_tokens, so nothing is spent beyond the reservation.
EngineReturns(r) ==
    /\ pc[r] = "engine"
    /\ \E actual \in 0..asked[r].max :
          adjust(asked[r].max, actual) /\ Respond(r, 200, actual)
    /\ UNCHANGED <<processVars, requestCount, asked, life>>

\* Mutation: the tokens go back twice, for the exception and for its output.
EngineFailsTwice(r) ==
    /\ pc[r] = "engine"
    /\ adjust(2 * asked[r].max, 0) /\ Respond(r, 500, 0)
    /\ UNCHANGED <<processVars, requestCount, asked, life>>

\* generate raised, or its output is empty: all reserved tokens go back.
EngineFails(r) ==
    /\ pc[r] = "engine"
    /\ adjust(asked[r].max, 0) /\ Respond(r, 500, 0)
    /\ UNCHANGED <<processVars, requestCount, asked, life>>

\* metrics_prometheus, metrics_json and health_check read the globals.
Report(r) ==
    /\ Runs(r, "accepted") /\ asked[r].to = "/metrics"
    /\ Respond(r, 200, 0)
    /\ UNCHANGED <<processVars, value, requestCount, asked, life>>

\* metrics_middleware goes on after call_next, and the response is sent.
metrics_middleware(r) ==
    /\ Runs(r, "returned")
    /\ requestCount' = requestCount + 1
    /\ pc' = [pc EXCEPT ![r] = "answered"]
    /\ UNCHANGED <<processVars, value, asked, reply, life>>

-----------------------------------------------------------------------------
(* The container                                                           *)

InFlight(r) == pc[r] \in {"accepted", "asleep", "engine", "returned"}

\* SIGTERM: uvicorn stops listening and waits for the requests it has.
Terminate ==
    /\ process = "serving" /\ LoopIsFree
    /\ restarts < MaxRestarts
    /\ process' = "draining"
    /\ UNCHANGED <<engine, fallback, value, requestCount, restarts, pc,
                    asked, reply, life>>

\* The rest of lifespan, and the end of the process.
Shutdown ==
    /\ process = "draining"
    /\ \A r \in Requests : ~InFlight(r)
    /\ process' = "down"
    /\ engine' = FALSE
    /\ restarts' = restarts + 1
    /\ UNCHANGED <<fallback, value, requestCount, pc, asked, reply, life>>

\* Out of memory, a failed liveness probe, a lost node, the end of the grace
\* period: the process is gone, and its requests with it.
Kill ==
    /\ process # "down"
    /\ restarts < MaxRestarts
    /\ process' = "down"
    /\ restarts' = restarts + 1
    /\ pc' = [r \in Requests |-> IF InFlight(r) THEN "lost" ELSE pc[r]]
    /\ UNCHANGED <<engine, fallback, value, requestCount, asked, reply, life>>

\* Mutation: a new process goes on from the old one's count.
StartKeepingCount ==
    /\ process = "down"
    /\ process' = "starting"
    /\ engine' = FALSE /\ fallback' = FALSE
    /\ requestCount' = 0
    /\ UNCHANGED <<value, restarts, pc, asked, reply, life>>

\* A new process imports the module: every global has its first value.
Start ==
    /\ process = "down"
    /\ process' = "starting"
    /\ engine' = FALSE /\ fallback' = FALSE
    /\ value' = 0 /\ requestCount' = 0
    /\ UNCHANGED <<restarts, pc, asked, reply, life>>

-----------------------------------------------------------------------------

Client(r) ==
    \/ \E max \in 0..(MaxTokens + 1) : Submit(r, "/generate", max)
    \/ Submit(r, "/metrics", 0)

\* What the process does for a request it has accepted.
Handle(r) ==
    \/ RejectInvalid(r) \/ Refuse(r) \/ Generate(r) \/ Wake(r)
    \/ EngineReturns(r) \/ EngineFails(r)
    \/ Report(r) \/ metrics_middleware(r)

Container == LoadEngine \/ FallBack \/ Terminate \/ Shutdown \/ Kill \/ Start

Next == Container \/ \E r \in Requests : Client(r) \/ Handle(r)

Spec == Init /\ [][Next]_vars

\* The event loop runs every handler that can go on, and generation ends: it
\* stops at max_tokens.
Fairness == \A r \in Requests : WF_vars(Handle(r))

FairSpec == Spec /\ Fairness

-----------------------------------------------------------------------------
(* Properties                                                              *)

TypeOK ==
    /\ process \in {"down", "starting", "serving", "draining"}
    /\ engine \in BOOLEAN /\ fallback \in BOOLEAN
    /\ value \in 0..Quota
    /\ requestCount \in 0..Cardinality(Requests)
    /\ restarts \in 0..MaxRestarts
    /\ pc \in [Requests -> {"new", "accepted", "asleep", "engine",
                            "returned", "answered", "lost"}]
    /\ asked \in [Requests -> [to : Endpoints, max : 0..(MaxTokens + 1)]]
    /\ reply \in [Requests -> [status : {0, 200, 422, 429, 500},
                               tokens : 0..MaxTokens]]
    /\ life \in [Requests -> 0..MaxRestarts]

\* What a request holds of the quota, from try_reserve until adjust.
held == [r \in Requests |-> IF pc[r] \in {"asleep", "engine"} THEN asked[r].max ELSE 0]

\* The tokens a client was given by the process that runs now.
given == [r \in Requests |-> IF life[r] = restarts THEN reply[r].tokens ELSE 0]

Charged == SumFunction(held) + SumFunction(given)

\* While the process serves, one of the two flags that generate
\* and health_check test is set, and a request finds the engine it is about to
\* call: no outcome of startup, and no shutdown, leaves it without.
ReadyWhenServing ==
    /\ process \in {"serving", "draining"} => engine \/ fallback
    /\ \A r \in Requests : pc[r] = "engine" => engine

\* The counter that decides over the quota is exactly what the
\* handlers in flight have reserved and the clients of this process were
\* given, on every path through generate and whatever was killed before.
CounterIsExact ==
    process \in {"serving", "draining"} => value = Charged

\* A request is refused with 429 only if it really does not fit into
\* what was given and reserved when it is refused.
RefusedOnlyWhenFull ==
    [][\A r \in Requests :
          reply'[r].status = 429 /\ reply[r].status # 429
              => Charged + asked[r].max > Quota]_vars

\* Every accepted request is answered unless its process is killed.
EveryRequestAnswered ==
    \A r \in Requests : pc[r] = "accepted" ~> pc[r] \in {"answered", "lost"}

\* The count of the process that serves; one that is gone has none.
spent == IF process \in {"serving", "draining"} THEN value ELSE 0

Ledger == INSTANCE QuotaLedger WITH
              Clients <- Requests, MaxRequest <- MaxTokens, MaxOverrun <- 0,
              value <- spent

\* The server spends its quota like a ledger, one for each of its processes,
\* however its handlers are interleaved at their awaits.
ImplementsLedger == Ledger!RestartedLedgerSpec

=============================================================================
