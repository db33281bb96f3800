----------------------------- MODULE HealthProbes -----------------------------
(***************************************************************************)
(* The probes that buildInferenceDeployment gives the inference container,  *)
(* and the container they are sent to.  The server has one event loop: GET  *)
(* /health waits in line behind every POST /generate that came before it,   *)
(* and the engine is called without an await, so each of those holds the    *)
(* loop for as long as it generates.  The loop does not run at all before   *)
(* lifespan is done: until then a probe's connection is refused.            *)
(*                                                                         *)
(* Time passes in Ticks of a second; everything else takes none.  What is   *)
(* due in a second happens before the next Tick, in any order.              *)
(***************************************************************************)
EXTENDS Integers, FiniteSets, Sequences, SequencesExt

CONSTANTS
    Clients,        \* each has one request at a time
    MaxGeneration,  \* seconds the engine takes for a request, at most
    Startups        \* seconds lifespan may take

Kinds == {"readiness", "liveness"}

ASSUME ProbesAssumption ==
    /\ IsFiniteSet(Clients) /\ Clients \cap Kinds = {}
    /\ MaxGeneration \in Nat \ {0} /\ Startups \subseteq Nat /\ Startups # {}

VARIABLES
    startup,  \* how long this container's lifespan takes
    age,      \* seconds since the container started, up to startup
    line,     \* who waits for the event loop; the first one is served
    busy,     \* seconds for which the engine still holds the loop
    probe,    \* Kinds -> the kubelet's prober
    ready,    \* the container is ready: the Service sends it requests
    held      \* history: for how long liveness probes in a row had no answer

vars == <<startup, age, line, busy, probe, ready, held>>

-----------------------------------------------------------------------------
(* The Deployment's probes.                                                *)

\* Mutation: TimeoutSeconds is left out; Kubernetes' default is 1.
ProbesWithoutTimeout ==
    [readiness |-> [initialDelay |-> 30, period |-> 10, timeout |-> 1, threshold |-> 6],
     liveness  |-> [initialDelay |-> 60, period |-> 15, timeout |-> 1, threshold |-> 3]]

\* Mutation: the two initial delays are swapped.
ProbesSwapped ==
    [readiness |-> [initialDelay |-> 60, period |-> 10, timeout |-> 5, threshold |-> 6],
     liveness  |-> [initialDelay |-> 30, period |-> 15, timeout |-> 5, threshold |-> 3]]

Probes ==
    [readiness |-> [initialDelay |-> 30, period |-> 10, timeout |-> 5, threshold |-> 6],
     liveness  |-> [initialDelay |-> 60, period |-> 15, timeout |-> 5, threshold |-> 3]]

\* wait: seconds to the next request; left: seconds until the one that is
\* open times out, or -1; failures: how many failed in a row.
NewProbers ==
    [k \in Kinds |-> [wait |-> Probes[k].initialDelay, left |-> -1, failures |-> 0]]

Listening == age = startup

\* The liveness probes that are sent before lifespan is done.
Refused(seconds) == Cardinality({due \in {60, 75, 90} : due < seconds})

-----------------------------------------------------------------------------
(* The container.                                                          *)

Start(seconds) ==
    /\ startup' = seconds /\ age' = 0
    /\ line' = <<>> /\ busy' = 0
    /\ probe' = NewProbers /\ ready' = FALSE
    /\ held' = 5 * Refused(seconds)

LoopIsFree == busy = 0 /\ line # <<>>

\* A client's POST /generate.
Submit(c) ==
    /\ ready
    /\ ~Contains(line, c)
    /\ line' = Append(line, c)
    /\ UNCHANGED <<startup, age, busy, probe, ready, held>>

\* _engine.generate holds the loop.
Generate ==
    /\ LoopIsFree /\ Head(line) \in Clients
    /\ \E seconds \in 1..MaxGeneration : busy' = seconds
    /\ UNCHANGED <<startup, age, line, probe, ready, held>>

\* health_check answers; the probe succeeds.
HealthCheck ==
    /\ LoopIsFree /\ Head(line) \in Kinds
    /\ line' = Tail(line)
    /\ probe' = [probe EXCEPT ![Head(line)].left = -1, ![Head(line)].failures = 0]
    /\ ready' = (ready \/ Head(line) = "readiness")
    /\ held' = IF Head(line) = "liveness" THEN 0 ELSE held
    /\ UNCHANGED <<startup, age, busy>>

-----------------------------------------------------------------------------
(* The kubelet.                                                            *)

Send(k) ==
    /\ Listening
    /\ probe[k].wait = 0
    /\ line' = Append(line, k)
    /\ probe' = [probe EXCEPT ![k].wait = Probes[k].period,
                              ![k].left = Probes[k].timeout]
    /\ UNCHANGED <<startup, age, busy, ready, held>>

\* The connection is refused, or the answer is late and nobody reads it.
Fails(k) == (~Listening /\ probe[k].wait = 0) \/ probe[k].left = 0

LastStraw(k) == probe[k].failures + 1 >= Probes[k].threshold

Fail(k) ==
    /\ Fails(k)
    /\ ~(k = "liveness" /\ LastStraw(k))
    /\ line' = RemoveFirst(line, k)
    /\ probe' = [probe EXCEPT ![k].wait = IF @ = 0 THEN Probes[k].period ELSE @,
                              ![k].left = -1,
                              ![k].failures = IF LastStraw(k) THEN @ ELSE @ + 1]
    /\ ready' = (ready /\ ~(k = "readiness" /\ LastStraw(k)))
    /\ UNCHANGED <<startup, age, busy, held>>

\* The container is killed and started again.
Kill ==
    /\ Fails("liveness") /\ LastStraw("liveness")
    /\ \E seconds \in Startups : Start(seconds)

Due ==
    \/ LoopIsFree
    \/ \E k \in Kinds : probe[k].wait = 0 \/ probe[k].left = 0

Less(seconds) == IF seconds > 0 THEN seconds - 1 ELSE seconds

Tick ==
    /\ ~Due
    /\ age' = IF Listening THEN age ELSE age + 1
    /\ busy' = Less(busy)
    /\ line' = IF busy = 1 THEN Tail(line) ELSE line
    /\ probe' = [k \in Kinds |-> [probe[k] EXCEPT !.wait = Less(@), !.left = Less(@)]]
    /\ held' = IF busy > 0 /\ probe["liveness"].left > 0 THEN held + 1 ELSE held
    /\ UNCHANGED <<startup, ready>>

-----------------------------------------------------------------------------

Init ==
    /\ startup \in Startups /\ age = 0
    /\ line = <<>> /\ busy = 0
    /\ probe = NewProbers /\ ready = FALSE
    /\ held = 5 * Refused(startup)

Progress ==
    \/ Generate \/ HealthCheck
    \/ \E k \in Kinds : Send(k) \/ Fail(k)
    \/ Kill
    \/ Tick

Next == Progress \/ \E c \in Clients : Submit(c)

\* Time passes; nothing is assumed of clients.
Spec == Init /\ [][Next]_vars /\ WF_vars(Progress)

-----------------------------------------------------------------------------
(* Properties.  Nothing keeps the generations in a row below the timeout of *)
(* a probe: answers may be late.                                            *)

TypeOK ==
    /\ startup \in Startups /\ age \in 0..startup
    /\ line \in Seq(Clients \cup Kinds)
    /\ busy \in 0..MaxGeneration
    /\ probe \in [Kinds -> [wait : Nat, left : Nat \cup {-1}, failures : Nat]]
    /\ ready \in BOOLEAN
    /\ held \in Nat

\* However requests and health checks line up, a container is killed only after
\* three liveness probes in a row, none of which it could have answered in time:
\* each was sent before lifespan was done, or found the engine holding the loop
\* for all of its 5 seconds.  With one answer in between, or one second in which
\* the loop was free, it lives.
KilledOnlyIfHeld == [][Kill => held >= 3 * 5]_vars

\* A probe runs into its timeout.
Late == \E k \in Kinds : probe[k].left = 0

\* A container that takes 90 seconds at most to start gets ready and stays it,
\* however often it was overloaded, or killed for it, before: once answers are no
\* longer late, no count of earlier failures and no refusal of its start gets it
\* killed again.
FastStartsServe == <>[](startup <= 90 /\ ~Late) => <>[]ready

=============================================================================
