-------------------------- MODULE HealthProbesProofs --------------------------
(***************************************************************************)
(* Proofs about the probes of the inference container, for any finite set  *)
(* of clients, any length of a generation and any time lifespan may take.  *)
(*                                                                         *)
(* ProbesInv says who waits in line and what the kubelet's timers have to   *)
(* do with it.  Justified adds the argument for KilledOnlyIfHeld: whatever  *)
(* the liveness probe counts as a failure is covered by 5 seconds of held,  *)
(* for a connection refused, which StartsUp dates, or for seconds in which  *)
(* the loop was held while the request was open.  Neither bounds what the   *)
(* clients ask for: answers may be late.                                    *)
(***************************************************************************)
EXTENDS HealthProbes, FiniteSetTheorems, SequenceTheorems, TLAPS

-----------------------------------------------------------------------------
(* RemoveFirst                                                             *)

\* The least index at which SelectInSeq finds something exists.
LEMMA LeastOfNaturals ==
    ASSUME NEW I, I \subseteq Nat, I # {}
    PROVE  Min(I) \in I /\ \A i \in I : Min(I) <= i
<1> DEFINE LT == OpToRel(<, Nat)
<1>1. PICK m \in I : \A i \in I : <<i, m>> \notin LT
  <2>1. IsWellFoundedOn(LT, Nat)
      BY NatLessThanWellFounded
  <2> HIDE DEF LT
  <2> QED BY <2>1, WFMin
<1>2. ASSUME NEW i \in I PROVE m <= i
  <2>1. i < m => <<i, m>> \in LT
      BY DEF OpToRel
  <2> HIDE DEF LT
  <2>2. ~(i < m)
      BY <1>1, <2>1
  <2> QED BY <2>2
<1>3. \E x \in I : \A y \in I : x <= y
    BY <1>2
<1> QED BY <1>3 DEF Min

\* The sequence without the first e: the rest keeps its order, so the head stays
\* unless it was the e.
LEMMA RemoveFirstFacts ==
    ASSUME NEW S, NEW s \in Seq(S), NEW e
    PROVE  \/ /\ RemoveFirst(s, e) = s
              /\ ~Contains(s, e)
           \/ \E n \in 1..Len(s) :
                 /\ s[n] = e /\ \A i \in 1..(n - 1) : s[i] # e
                 /\ RemoveFirst(s, e) \in Seq(S)
                 /\ Len(RemoveFirst(s, e)) = Len(s) - 1
                 /\ \A i \in 1..(Len(s) - 1) :
                       RemoveFirst(s, e)[i] = IF i < n THEN s[i] ELSE s[i + 1]
<1>1. CASE ~Contains(s, e)
    BY <1>1 DEF Contains, RemoveFirst
<1>2. CASE Contains(s, e)
  <2> DEFINE I == {i \in 1..Len(s) : s[i] = e}
             n == Min(I)
  <2>1. I \subseteq Nat /\ I # {}
      BY <1>2 DEF Contains
  <2>2. n \in I /\ \A i \in I : n <= i
    <3> HIDE DEF I
    <3> QED BY <2>1, LeastOfNaturals
  <2>3. RemoveFirst(s, e) = RemoveAt(s, n)
      BY <1>2, <2>1 DEF RemoveFirst, SelectInSeq, Contains
  <2> HIDE DEF n
  <2>4. n \in 1..Len(s) /\ s[n] = e /\ \A i \in 1..(n - 1) : s[i] # e
      BY <2>2
  <2> DEFINE a == SubSeq(s, 1, n - 1)
             b == SubSeq(s, n + 1, Len(s))
  <2>5. a \in Seq(S) /\ Len(a) = n - 1 /\ \A i \in 1..(n - 1) : a[i] = s[i]
    <3>1. \A i \in 1..(n - 1) : s[i] \in S
        BY <2>4, ElementOfSeq
    <3> QED BY <2>4, <3>1, SubSeqProperties
  <2>6. b \in Seq(S) /\ Len(b) = Len(s) - n /\ \A i \in 1..(Len(s) - n) : b[i] = s[n + i]
    <3>1. \A i \in (n + 1)..Len(s) : s[i] \in S
        BY <2>4, ElementOfSeq
    <3> QED BY <2>4, <3>1, SubSeqProperties
  <2>7. RemoveFirst(s, e) = a \o b
      BY <2>3 DEF RemoveAt
  <2> HIDE DEF a, b
  <2>8. /\ a \o b \in Seq(S) /\ Len(a \o b) = Len(s) - 1
        /\ \A i \in 1..(Len(s) - 1) : (a \o b)[i] = IF i < n THEN s[i] ELSE s[i + 1]
      BY <2>4, <2>5, <2>6, ConcatProperties
  <2> QED BY <2>4, <2>7, <2>8
<1> QED BY <1>1, <1>2

-----------------------------------------------------------------------------
(* The line and the timers                                                 *)

\* Nobody is in a sequence twice.
Once(s) == \A i, j \in 1..Len(s) : s[i] = s[j] => i = j

\* Who is in the line is there once; while the engine holds the loop, it is a
\* client's request that is served.
LineOK ==
    /\ Once(line)
    /\ busy > 0 => line # <<>> /\ line[1] \in Clients

\* An open request of the kubelet is in the line until it times out, which it
\* does before the next one is due.
TimersOK ==
    \A k \in Kinds :
        /\ probe[k].left >= 0 => probe[k].wait = probe[k].left + Probes[k].period
                                                              - Probes[k].timeout
        /\ probe[k].left <= Probes[k].timeout
        /\ probe[k].left >= 0 <=> Contains(line, k)

\* Until lifespan is done nobody gets in, and the liveness probe fails on time.
StartsUp ==
    ~Listening =>
        /\ line = <<>> /\ busy = 0 /\ ~ready
        /\ age + probe["liveness"].wait
              = Probes["liveness"].initialDelay
                + Probes["liveness"].period * probe["liveness"].failures

ProbesInv == TypeOK /\ LineOK /\ TimersOK /\ StartsUp

Probers == [wait : Nat, left : Nat \cup {-1}, failures : Nat]

\* TypeOK with the record type of a prober named, for the provers.
LEMMA Typed ==
    TypeOK <=> /\ startup \in Startups /\ age \in 0..startup
               /\ line \in Seq(Clients \cup Kinds)
               /\ busy \in 0..MaxGeneration
               /\ probe \in [Kinds -> Probers]
               /\ ready \in BOOLEAN /\ held \in Nat
  BY Zenon DEF TypeOK, Probers

\* The same of the next state.
LEMMA TypedNext ==
    ASSUME startup' \in Startups, age' \in 0..startup', line' \in Seq(Clients \cup Kinds),
           busy' \in 0..MaxGeneration, probe' \in [Kinds -> Probers], ready' \in BOOLEAN, held' \in Nat
    PROVE  TypeOK'
  BY Zenon DEF TypeOK, Probers

\* The fields of a prober.
LEMMA ProberTypes ==
    ASSUME NEW p \in Probers
    PROVE  p.wait \in Nat /\ p.left \in Nat \cup {-1} /\ p.failures \in Nat
  BY DEF Probers

\* What joining the line, serving its first and leaving it do to who is in it.
LEMMA JoinLine ==
    ASSUME NEW S, NEW s \in Seq(S), Once(s), NEW x \in S, ~Contains(s, x)
    PROVE  /\ Append(s, x) \in Seq(S) /\ Once(Append(s, x))
           /\ \A y : Contains(Append(s, x), y) <=> Contains(s, y) \/ y = x
           /\ s # <<>> => Append(s, x)[1] = s[1]
<1>1. /\ Append(s, x) \in Seq(S) /\ Len(Append(s, x)) = Len(s) + 1
      /\ \A i \in 1..Len(s) : Append(s, x)[i] = s[i]
      /\ Append(s, x)[Len(s) + 1] = x
    BY AppendProperties
<1>2. Len(s) \in Nat /\ (s # <<>> => Len(s) >= 1)
    BY EmptySeq, LenProperties
<1>3. \A i \in 1..Len(s) : s[i] # x
    BY DEF Contains
<1>4. Once(Append(s, x))
    BY <1>1, <1>2, <1>3 DEF Once
<1>5. ASSUME NEW y PROVE Contains(Append(s, x), y) <=> Contains(s, y) \/ y = x
  <2>1. Contains(s, y) => Contains(Append(s, x), y)
      BY <1>1, <1>2 DEF Contains
  <2>2. Contains(Append(s, x), x)
    <3>1. Len(s) + 1 \in 1..Len(Append(s, x))
        BY <1>1, <1>2
    <3> QED BY <1>1, <3>1 DEF Contains
  <2>3. Contains(Append(s, x), y) => Contains(s, y) \/ y = x
      BY <1>1, <1>2 DEF Contains
  <2> QED BY <2>1, <2>2, <2>3
<1>6. s # <<>> => Append(s, x)[1] = s[1]
    BY <1>1, <1>2
<1> QED BY <1>1, <1>4, <1>5, <1>6

\* Serving the first.
LEMMA ServeLine ==
    ASSUME NEW S, NEW s \in Seq(S), Once(s), s # <<>>
    PROVE  /\ Tail(s) \in Seq(S) /\ Once(Tail(s)) /\ Head(s) = s[1] /\ Head(s) \in S
           /\ \A y : Contains(Tail(s), y) <=> Contains(s, y) /\ y # s[1]
<1>1. /\ Tail(s) \in Seq(S) /\ Len(Tail(s)) = Len(s) - 1 /\ Head(s) \in S
      /\ \A i \in 1..Len(Tail(s)) : Tail(s)[i] = s[i + 1]
    BY HeadTailProperties
<1>2. Len(s) \in Nat \ {0} /\ Head(s) = s[1]
    BY EmptySeq
<1>3. Once(Tail(s))
    BY <1>1, <1>2 DEF Once
<1>4. ASSUME NEW y PROVE Contains(Tail(s), y) <=> Contains(s, y) /\ y # s[1]
  <2>1. ASSUME NEW i \in 1..Len(s), s[i] = y, y # s[1] PROVE Contains(Tail(s), y)
    <3>1. i - 1 \in 1..Len(Tail(s)) /\ Tail(s)[i - 1] = y
        BY <1>1, <1>2, <2>1
    <3> QED BY <3>1 DEF Contains
  <2>2. ASSUME NEW i \in 1..Len(Tail(s)), Tail(s)[i] = y
        PROVE  Contains(s, y) /\ y # s[1]
    <3>1. i + 1 \in 1..Len(s) /\ s[i + 1] = y /\ 1 \in 1..Len(s) /\ i + 1 # 1
        BY <1>1, <1>2, <2>2
    <3> QED BY <3>1 DEF Contains, Once
  <2> QED BY <2>1, <2>2 DEF Contains
<1> QED BY <1>1, <1>2, <1>3, <1>4

\* Leaving, from any place.
LEMMA LeaveLine ==
    ASSUME NEW S, NEW s \in Seq(S), Once(s), NEW x
    PROVE  /\ RemoveFirst(s, x) \in Seq(S) /\ Once(RemoveFirst(s, x))
           /\ \A y : Contains(RemoveFirst(s, x), y) <=> Contains(s, y) /\ y # x
           /\ s # <<>> /\ s[1] # x => RemoveFirst(s, x) # <<>> /\ RemoveFirst(s, x)[1] = s[1]
<1> DEFINE r == RemoveFirst(s, x)
<1> HIDE DEF r
<1>1. CASE r = s /\ ~Contains(s, x)
    BY <1>1 DEF r
<1>2. ASSUME NEW n \in 1..Len(s),
             s[n] = x, r \in Seq(S), Len(r) = Len(s) - 1,
             \A i \in 1..(Len(s) - 1) : r[i] = IF i < n THEN s[i] ELSE s[i + 1]
      PROVE  /\ Once(r)
             /\ \A y : Contains(r, y) <=> Contains(s, y) /\ y # x
             /\ s[1] # x => r # <<>> /\ r[1] = s[1]
  <2>1. Len(s) \in Nat
      BY LenProperties
  <2>2. Once(r)
      BY <1>2, <2>1 DEF Once
  <2>3. ASSUME NEW y, NEW i \in 1..Len(r), r[i] = y PROVE Contains(s, y) /\ y # x
    <3>1. PICK j \in 1..Len(s) : s[j] = y /\ j # n
        BY <1>2, <2>1, <2>3
    <3> QED BY <1>2, <3>1 DEF Contains, Once
  <2>4. ASSUME NEW y, NEW i \in 1..Len(s), s[i] = y, y # x PROVE Contains(r, y)
    <3>1. i # n
        BY <1>2, <2>4
    <3>2. PICK j \in 1..Len(r) : r[j] = y
      <4>1. CASE i < n
          BY <1>2, <2>1, <2>4, <4>1
      <4>2. CASE i > n
        <5>1. i - 1 \in 1..Len(r) /\ ~(i - 1 < n) /\ (i - 1) + 1 = i
            BY <1>2, <2>1, <4>2
        <5> QED BY <1>2, <2>4, <5>1
      <4> QED BY <3>1, <4>1, <4>2
    <3> QED BY <3>2 DEF Contains
  <2>5. s[1] # x => r # <<>> /\ r[1] = s[1]
    <3> SUFFICES ASSUME s[1] # x PROVE r # <<>> /\ r[1] = s[1]
        OBVIOUS
    <3>1. 1 < n /\ Len(r) >= 1
        BY <1>2, <2>1
    <3> QED BY <1>2, <2>1, <3>1
  <2> QED BY <2>2, <2>3, <2>4, <2>5 DEF Contains
<1> QED BY <1>1, <1>2, RemoveFirstFacts DEF r

\* The numbers of lines 351-374.
LEMMA ProbesFacts ==
    /\ Probes["readiness"] = [initialDelay |-> 30, period |-> 10, timeout |-> 5, threshold |-> 6]
    /\ Probes["liveness"] = [initialDelay |-> 60, period |-> 15, timeout |-> 5, threshold |-> 3]
    /\ \A k \in Kinds : /\ Probes[k].timeout = 5 /\ Probes[k].period \in {10, 15}
                        /\ Probes[k].initialDelay \in {30, 60}
                        /\ Probes[k].threshold \in {3, 6}
  BY DEF Probes, Kinds

\* Of the three liveness probes up to the 90th second, a startup that takes longer
\* than one of them is dated refuses that one and those before it.
LEMMA RefusedFacts ==
    ASSUME NEW n \in Nat
    PROVE  /\ Refused(n) \in Nat
           /\ n > 60 => Refused(n) >= 1
           /\ n > 75 => Refused(n) >= 2
           /\ n > 90 => Refused(n) >= 3
<1> DEFINE Sent == {due \in {60, 75, 90} : due < n}
<1>1. /\ IsFiniteSet({60}) /\ Cardinality({60}) = 1
      /\ IsFiniteSet({60, 75}) /\ Cardinality({60, 75}) = 2
      /\ IsFiniteSet({60, 75, 90}) /\ Cardinality({60, 75, 90}) = 3
  <2>1. IsFiniteSet({60}) /\ Cardinality({60}) = 1
      BY FS_Singleton
  <2>2. IsFiniteSet({60, 75}) /\ Cardinality({60, 75}) = 2
    <3>1. {60, 75} = {60} \cup {75} /\ 75 \notin {60}
        OBVIOUS
    <3> QED BY <2>1, <3>1, FS_AddElement
  <2>3. IsFiniteSet({60, 75, 90}) /\ Cardinality({60, 75, 90}) = 3
    <3>1. {60, 75, 90} = {60, 75} \cup {90} /\ 90 \notin {60, 75}
        OBVIOUS
    <3> QED BY <2>2, <3>1, FS_AddElement
  <2> QED BY <2>1, <2>2, <2>3
<1>2. Refused(n) = Cardinality(Sent)
    BY DEF Refused
<1>3. Sent \subseteq {60, 75, 90}
    OBVIOUS
<1>4. /\ n > 60 => {60} \subseteq Sent
      /\ n > 75 => {60, 75} \subseteq Sent
      /\ n > 90 => {60, 75, 90} \subseteq Sent
    OBVIOUS
<1> HIDE DEF Sent
<1>5. IsFiniteSet(Sent) /\ Cardinality(Sent) \in Nat
    BY <1>1, <1>3, FS_Subset, FS_CardinalityType
<1>6. /\ {60} \subseteq Sent => Cardinality(Sent) >= 1
      /\ {60, 75} \subseteq Sent => Cardinality(Sent) >= 2
      /\ {60, 75, 90} \subseteq Sent => Cardinality(Sent) >= 3
    BY <1>1, <1>5, FS_Subset
<1> QED BY <1>2, <1>4, <1>5, <1>6

\* A new container: of Init and of Kill.
Fresh ==
    /\ startup \in Startups /\ age = 0 /\ line = <<>> /\ busy = 0
    /\ probe = NewProbers /\ ready = FALSE
    /\ held = 5 * Refused(startup)

\* Its history is what startup will refuse.
LEMMA FreshHeld == Fresh => held \in Nat
<1> DEFINE n == Refused(startup)
<1>1. Fresh => n \in Nat /\ held = 5 * n
    BY ProbesAssumption, RefusedFacts DEF Fresh
<1> HIDE DEF n
<1> QED BY <1>1

\* A new container satisfies the invariant.
LEMMA FreshInv == Fresh => ProbesInv
<1> SUFFICES ASSUME Fresh PROVE ProbesInv
    OBVIOUS
<1> USE DEF Fresh
<1>1. \A k \in Kinds : /\ probe[k] \in Probers
                       /\ probe[k].wait = Probes[k].initialDelay
                       /\ probe[k].left = -1 /\ probe[k].failures = 0
    BY ProbesFacts DEF NewProbers, Probers
<1>2. probe \in [Kinds -> Probers]
    BY <1>1 DEF NewProbers
<1>3. TypeOK
  <2>1. line \in Seq(Clients \cup Kinds) /\ age \in 0..startup /\ busy \in 0..MaxGeneration
      BY ProbesAssumption
  <2> QED BY <1>2, <2>1, Typed, FreshHeld
<1>4. LineOK /\ TimersOK
    BY <1>1, ProbesFacts DEF LineOK, Once, TimersOK, Contains
<1>5. StartsUp
    BY <1>1, ProbesFacts DEF StartsUp, Kinds
<1> QED BY <1>3, <1>4, <1>5 DEF ProbesInv


\* A client joins the line.
LEMMA SubmitInv == ASSUME ProbesInv, NEW c \in Clients, Submit(c) PROVE ProbesInv'
<1>1. /\ TypeOK /\ LineOK /\ TimersOK /\ StartsUp
      /\ ready /\ ~Contains(line, c) /\ line' = Append(line, c)
      /\ UNCHANGED <<startup, age, busy, probe, ready, held>>
    BY DEF ProbesInv, Submit
<1>2. line \in Seq(Clients \cup Kinds) /\ Once(line) /\ c \in Clients \cup Kinds /\ c \notin Kinds
    BY <1>1, Typed, ProbesAssumption DEF LineOK
<1>3. /\ line' \in Seq(Clients \cup Kinds) /\ Once(line')
      /\ \A y : Contains(line', y) <=> Contains(line, y) \/ y = c
      /\ line # <<>> => line'[1] = line[1] /\ line' # <<>>
    BY <1>1, <1>2, JoinLine, AppendProperties
<1>4. TypeOK'
    BY <1>1, <1>3 DEF TypeOK
<1>5. LineOK'
    BY <1>1, <1>3 DEF LineOK
<1>6. TimersOK'
    BY <1>1, <1>2, <1>3 DEF TimersOK
<1>7. StartsUp'
    BY <1>1 DEF StartsUp, Listening
<1> QED BY <1>4, <1>5, <1>6, <1>7 DEF ProbesInv

\* The engine takes the loop.
LEMMA GenerateInv == ASSUME ProbesInv, Generate PROVE ProbesInv'
<1>1. /\ TypeOK /\ LineOK /\ TimersOK /\ StartsUp
      /\ line # <<>> /\ Head(line) \in Clients /\ busy' \in 1..MaxGeneration
      /\ UNCHANGED <<startup, age, line, probe, ready, held>>
    BY DEF ProbesInv, Generate, LoopIsFree
<1>2. Head(line) = line[1]
    BY <1>1, Typed, ServeLine DEF LineOK
<1>3. TypeOK' /\ LineOK'
    BY <1>1, <1>2, ProbesAssumption DEF TypeOK, LineOK
<1>4. TimersOK' /\ StartsUp'
    BY <1>1 DEF TimersOK, StartsUp, Listening
<1> QED BY <1>3, <1>4 DEF ProbesInv

\* The kubelet's timers of the two probes, one of which moves.
LEMMA ProbeMoves ==
    ASSUME TypeOK, NEW k \in Kinds, NEW w \in Nat, NEW l \in Nat \cup {-1}, NEW f \in Nat,
           probe' = [probe EXCEPT ![k] = [@ EXCEPT !.wait = w, !.left = l, !.failures = f]]
    PROVE  /\ probe' \in [Kinds -> Probers]
           /\ probe'[k].wait = w /\ probe'[k].left = l /\ probe'[k].failures = f
           /\ \A q \in Kinds : q # k => probe'[q] = probe[q]
<1>1. probe \in [Kinds -> Probers]
    BY Typed
<1>2. [probe[k] EXCEPT !.wait = w, !.left = l, !.failures = f] \in Probers
    BY <1>1 DEF Probers
<1>3. probe' \in [Kinds -> Probers] /\ \A q \in Kinds : q # k => probe'[q] = probe[q]
    BY <1>1, <1>2
<1>4. probe'[k] = [probe[k] EXCEPT !.wait = w, !.left = l, !.failures = f]
    BY <1>1
<1> QED BY <1>1, <1>3, <1>4 DEF Probers

\* The probe that is answered is nowhere in the line any more.
LEMMA HealthCheckInv == ASSUME ProbesInv, HealthCheck PROVE ProbesInv'
<1> DEFINE k == Head(line)
<1>1. /\ TypeOK /\ LineOK /\ TimersOK /\ StartsUp
      /\ busy = 0 /\ line # <<>> /\ k \in Kinds /\ line' = Tail(line)
      /\ ready' = (ready \/ k = "readiness") /\ UNCHANGED <<startup, age, busy>>
      /\ held' = IF k = "liveness" THEN 0 ELSE held
    BY DEF ProbesInv, HealthCheck, LoopIsFree
<1>2. probe \in [Kinds -> Probers] /\ probe[k] \in Probers
    BY <1>1, Typed
<1>3. /\ probe' \in [Kinds -> Probers]
      /\ probe'[k].wait = probe[k].wait /\ probe'[k].left = -1 /\ probe'[k].failures = 0
      /\ \A q \in Kinds : q # k => probe'[q] = probe[q]
  <2>1. probe' = [probe EXCEPT ![k] = [@ EXCEPT !.wait = probe[k].wait, !.left = -1,
                                               !.failures = 0]]
      BY <1>2 DEF HealthCheck, Probers
  <2> QED BY <1>1, <1>2, <2>1, ProbeMoves, ProberTypes
<1>4. /\ line' \in Seq(Clients \cup Kinds) /\ Once(line') /\ k = line[1]
      /\ \A y : Contains(line', y) <=> Contains(line, y) /\ y # k
    BY <1>1, Typed, ServeLine DEF LineOK
<1>5. TypeOK'
  <2>1. ready' \in BOOLEAN
      BY <1>1
  <2>2. startup' \in Startups /\ age' \in 0..startup' /\ busy' \in 0..MaxGeneration
        /\ held' \in Nat
      BY <1>1 DEF TypeOK
  <2> QED BY <1>3, <1>4, <2>1, <2>2, TypedNext
<1>6. LineOK'
    BY <1>1, <1>4 DEF LineOK
<1>7. TimersOK'
  <2>1. ASSUME NEW q \in Kinds, q # k
        PROVE  probe'[q] = probe[q] /\ (Contains(line', q) <=> Contains(line, q))
      BY <1>3, <1>4, <2>1
  <2>2. ~Contains(line', k)
      BY <1>4
  <2> HIDE DEF k
  <2> QED BY <1>1, <1>3, <2>1, <2>2, ProbesFacts DEF TimersOK
<1>8. StartsUp'
    BY <1>1 DEF StartsUp, Listening
<1> QED BY <1>5, <1>6, <1>7, <1>8 DEF ProbesInv

\* A request is sent when the one before it is answered or has timed out.
LEMMA SendInv == ASSUME ProbesInv, NEW k \in Kinds, Send(k) PROVE ProbesInv'
<1>1. /\ TypeOK /\ LineOK /\ TimersOK /\ StartsUp
      /\ Listening /\ probe[k].wait = 0 /\ line' = Append(line, k)
      /\ UNCHANGED <<startup, age, busy, ready, held>>
    BY DEF ProbesInv, Send
<1>2. probe \in [Kinds -> Probers] /\ probe[k] \in Probers
      /\ line \in Seq(Clients \cup Kinds) /\ Once(line) /\ k \in Clients \cup Kinds
    BY <1>1, Typed DEF LineOK
<1>3. Probes[k].period \in Nat /\ Probes[k].timeout = 5 /\ Probes[k].period \in {10, 15}
    BY ProbesFacts
<1>4. /\ probe' \in [Kinds -> Probers]
      /\ probe'[k].wait = Probes[k].period /\ probe'[k].left = 5
      /\ probe'[k].failures = probe[k].failures
      /\ \A q \in Kinds : q # k => probe'[q] = probe[q]
  <2>1. probe' = [probe EXCEPT ![k] = [@ EXCEPT !.wait = Probes[k].period, !.left = 5,
                                               !.failures = probe[k].failures]]
      BY <1>2, <1>3 DEF Send, Probers
  <2>2. probe[k].failures \in Nat /\ 5 \in Nat \cup {-1}
      BY <1>2, ProberTypes
  <2> DEFINE w == Probes[k].period
             l == 5
             f == probe[k].failures
  <2>3. probe' = [probe EXCEPT ![k] = [@ EXCEPT !.wait = w, !.left = l, !.failures = f]]
        /\ w \in Nat /\ l \in Nat \cup {-1} /\ f \in Nat
      BY <1>3, <2>1, <2>2
  <2> HIDE DEF w, l, f
  <2>4. /\ probe' \in [Kinds -> Probers]
        /\ probe'[k].wait = w /\ probe'[k].left = l /\ probe'[k].failures = f
        /\ \A q \in Kinds : q # k => probe'[q] = probe[q]
      BY <1>1, <2>3, ProbeMoves
  <2> QED BY <2>4 DEF w, l, f
<1>5. ~Contains(line, k)
  <2>1. probe[k].left \in Int /\ ~(probe[k].left >= 0)
    <3>1. probe[k].left \in Nat \cup {-1}
        BY <1>2, ProberTypes
    <3>2. probe[k].left >= 0 => probe[k].wait = probe[k].left + Probes[k].period - Probes[k].timeout
        BY <1>1 DEF TimersOK
    <3> QED BY <1>1, <1>3, <3>1, <3>2
  <2> QED BY <1>1, <2>1 DEF TimersOK
<1>6. /\ line' \in Seq(Clients \cup Kinds) /\ Once(line')
      /\ \A y : Contains(line', y) <=> Contains(line, y) \/ y = k
      /\ line # <<>> => line'[1] = line[1] /\ line' # <<>>
    BY <1>1, <1>2, <1>5, JoinLine, AppendProperties
<1>7. TypeOK'
  <2>1. /\ startup' \in Startups /\ age' \in 0..startup' /\ busy' \in 0..MaxGeneration
        /\ ready' \in BOOLEAN /\ held' \in Nat
      BY <1>1 DEF TypeOK
  <2> QED BY <1>4, <1>6, <2>1, TypedNext
<1>8. LineOK'
    BY <1>1, <1>6 DEF LineOK
<1>9. TimersOK'
    BY <1>1, <1>3, <1>4, <1>6 DEF TimersOK
<1>10. StartsUp'
    BY <1>1 DEF StartsUp, Listening
<1> QED BY <1>7, <1>8, <1>9, <1>10 DEF ProbesInv

\* A failure moves the liveness probe's deadline by one period.
LEMMA FailInv == ASSUME ProbesInv, NEW k \in Kinds, Fail(k) PROVE ProbesInv'
<1> DEFINE w == IF probe[k].wait = 0 THEN Probes[k].period ELSE probe[k].wait
           f == IF LastStraw(k) THEN probe[k].failures ELSE probe[k].failures + 1
<1>1. /\ TypeOK /\ LineOK /\ TimersOK /\ StartsUp
      /\ Fails(k) /\ ~(k = "liveness" /\ LastStraw(k)) /\ line' = RemoveFirst(line, k)
      /\ ready' = (ready /\ ~(k = "readiness" /\ LastStraw(k)))
      /\ UNCHANGED <<startup, age, busy, held>>
    BY DEF ProbesInv, Fail
<1>2. /\ probe \in [Kinds -> Probers] /\ probe[k] \in Probers
      /\ line \in Seq(Clients \cup Kinds) /\ Once(line) /\ k \notin Clients
    BY <1>1, Typed, ProbesAssumption DEF LineOK
<1>3. Probes[k].period \in Nat /\ w \in Nat /\ f \in Nat
  <2>1. Probes[k].period \in Nat
      BY ProbesFacts
  <2>2. probe[k].wait \in Nat /\ probe[k].failures \in Nat
      BY <1>2, ProberTypes
  <2> QED BY <2>1, <2>2
<1>4. /\ probe' \in [Kinds -> Probers]
      /\ probe'[k].wait = w /\ probe'[k].left = -1 /\ probe'[k].failures = f
      /\ \A q \in Kinds : q # k => probe'[q] = probe[q]
  <2>1. probe' = [probe EXCEPT ![k] = [@ EXCEPT !.wait = w, !.left = -1, !.failures = f]]
      BY <1>2 DEF Fail, Probers
  <2> HIDE DEF w, f
  <2> QED BY <1>1, <1>3, <2>1, ProbeMoves
<1>5. /\ line' \in Seq(Clients \cup Kinds) /\ Once(line')
      /\ \A y : Contains(line', y) <=> Contains(line, y) /\ y # k
      /\ line # <<>> /\ line[1] # k => line' # <<>> /\ line'[1] = line[1]
    BY <1>1, <1>2, LeaveLine
<1>6. TypeOK'
  <2>1. ready' \in BOOLEAN
      BY <1>1
  <2>2. startup' \in Startups /\ age' \in 0..startup' /\ busy' \in 0..MaxGeneration
        /\ held' \in Nat
      BY <1>1 DEF TypeOK
  <2> QED BY <1>4, <1>5, <2>1, <2>2, TypedNext
<1>7. LineOK'
    BY <1>1, <1>2, <1>5 DEF LineOK
<1>8. TimersOK'
  <2>1. ASSUME NEW q \in Kinds, q # k
        PROVE  probe'[q] = probe[q] /\ (Contains(line', q) <=> Contains(line, q))
      BY <1>4, <1>5, <2>1
  <2>2. ~Contains(line', k)
      BY <1>5
  <2> QED BY <1>1, <1>4, <2>1, <2>2, ProbesFacts DEF TimersOK
<1>9. StartsUp'
  <2> SUFFICES ASSUME ~Listening PROVE StartsUp'
      BY <1>1 DEF StartsUp, Listening
  <2>1. line = <<>> /\ busy = 0 /\ ~ready
      BY <1>1 DEF StartsUp
  <2>2. line' = <<>>
    <3>1. ~Contains(line, k)
        BY <2>1 DEF Contains
    <3> QED BY <1>1, <2>1, <3>1 DEF RemoveFirst, Contains
  <2>3. CASE k = "liveness"
    <3>1. probe[k].wait = 0
        BY <1>1, <2>1 DEF Fails, TimersOK, Contains
    <3>2. w = 15 /\ f = probe[k].failures + 1
        BY <1>1, <2>3, <3>1, ProbesFacts
    <3> HIDE DEF w, f
    <3>3. age \in Nat /\ probe[k].failures \in Nat
      <4>1. startup \in Nat /\ age \in 0..startup
          BY <1>1, ProbesAssumption DEF TypeOK
      <4>2. probe[k].failures \in Nat
          BY <1>2, ProberTypes
      <4> QED BY <4>1, <4>2
    <3>4. age + 0 = 60 + 15 * probe[k].failures
        BY <1>1, <2>3, <3>1, ProbesFacts DEF StartsUp
    <3>5. age' + probe'[k].wait = 60 + 15 * probe'[k].failures
        BY <1>1, <1>4, <3>2, <3>3, <3>4
    <3>6. ~ready' /\ busy' = 0
        BY <1>1, <2>1
    <3>7. Probes["liveness"].initialDelay = 60 /\ Probes["liveness"].period = 15
        BY ProbesFacts
    <3> QED BY <2>2, <2>3, <3>5, <3>6, <3>7 DEF StartsUp
  <2>4. CASE k # "liveness"
    <3>1. probe'["liveness"] = probe["liveness"]
        BY <1>4, <2>4 DEF Kinds
    <3> QED BY <1>1, <2>1, <2>2, <3>1 DEF StartsUp, Listening
  <2> QED BY <2>3, <2>4
<1> QED BY <1>6, <1>7, <1>8, <1>9 DEF ProbesInv


\* All timers that run, run together.
LEMMA TickInv == ASSUME ProbesInv, Tick PROVE ProbesInv'
<1>1. /\ TypeOK /\ LineOK /\ TimersOK /\ StartsUp
      /\ ~LoopIsFree /\ \A k \in Kinds : probe[k].wait # 0 /\ probe[k].left # 0
      /\ age' = (IF Listening THEN age ELSE age + 1)
      /\ busy' = Less(busy) /\ line' = (IF busy = 1 THEN Tail(line) ELSE line)
      /\ UNCHANGED <<startup, ready>>
      /\ held' = (IF busy > 0 /\ probe["liveness"].left > 0 THEN held + 1 ELSE held)
    BY DEF ProbesInv, Tick, Due
<1>2. probe \in [Kinds -> Probers] /\ line \in Seq(Clients \cup Kinds) /\ Once(line)
    BY <1>1, Typed DEF LineOK
<1>3. ASSUME NEW k \in Kinds
      PROVE  /\ probe'[k] \in Probers
             /\ probe'[k].wait = probe[k].wait - 1
             /\ probe'[k].left = Less(probe[k].left)
             /\ probe'[k].failures = probe[k].failures
  <2>1. probe'[k] = [probe[k] EXCEPT !.wait = Less(@), !.left = Less(@)]
      BY DEF Tick
  <2>2. probe[k] \in Probers
      BY <1>2
  <2>3. probe[k].wait \in Nat /\ probe[k].left \in Nat \cup {-1}
      BY <2>2, ProberTypes
  <2>4. Less(probe[k].wait) = probe[k].wait - 1 /\ Less(probe[k].wait) \in Nat
        /\ Less(probe[k].left) \in Nat \cup {-1}
      BY <1>1, <2>3 DEF Less
  <2> HIDE DEF Less
  <2> QED BY <2>1, <2>2, <2>4 DEF Probers
<1>4. probe' \in [Kinds -> Probers]
  <2>1. probe' = [k \in Kinds |-> probe'[k]]
      BY DEF Tick
  <2> QED BY <1>3, <2>1
<1>5. busy \in 0..MaxGeneration /\ MaxGeneration \in Nat /\ busy' \in 0..MaxGeneration
      /\ busy' = IF busy > 0 THEN busy - 1 ELSE 0
    BY <1>1, ProbesAssumption DEF TypeOK, Less
<1>6. /\ line' \in Seq(Clients \cup Kinds) /\ Once(line')
      /\ \A k \in Kinds : Contains(line', k) <=> Contains(line, k)
      /\ busy' > 0 => line' = line
  <2>1. CASE busy = 1
    <3>1. line # <<>> /\ line[1] \in Clients
        BY <1>1, <2>1 DEF LineOK
    <3>2. line' \in Seq(Clients \cup Kinds) /\ Once(line')
          /\ \A k : Contains(line', k) <=> Contains(line, k) /\ k # line[1]
        BY <1>1, <1>2, <2>1, <3>1, ServeLine
    <3> QED BY <1>5, <2>1, <3>1, <3>2, ProbesAssumption
  <2>2. CASE busy # 1
      BY <1>1, <1>2, <2>2
  <2> QED BY <2>1, <2>2
<1>7. age \in 0..startup /\ age' \in 0..startup' /\ startup \in Nat
    BY <1>1, ProbesAssumption DEF TypeOK, Listening
<1>8. TypeOK'
  <2>1. startup' \in Startups /\ ready' \in BOOLEAN /\ held' \in Nat
      BY <1>1 DEF TypeOK
  <2> QED BY <1>4, <1>5, <1>6, <1>7, <2>1, TypedNext
<1>9. LineOK'
    BY <1>1, <1>5, <1>6 DEF LineOK
<1>10. TimersOK'
  <2>1. ASSUME NEW k \in Kinds
        PROVE  /\ probe'[k].left >= 0 => probe'[k].wait = probe'[k].left + Probes[k].period
                                                             - Probes[k].timeout
               /\ probe'[k].left <= Probes[k].timeout
               /\ probe'[k].left >= 0 <=> Contains(line', k)
    <3>1. probe[k].wait \in Nat /\ probe[k].left \in Nat \cup {-1} /\ probe[k].left # 0
        BY <1>1, <1>2, ProberTypes
    <3>2. /\ probe[k].left >= 0 => probe[k].wait = probe[k].left + Probes[k].period
                                                      - Probes[k].timeout
          /\ probe[k].left <= Probes[k].timeout
          /\ probe[k].left >= 0 <=> Contains(line, k)
        BY <1>1 DEF TimersOK
    <3>3. probe'[k].wait = probe[k].wait - 1
          /\ probe'[k].left = IF probe[k].left > 0 THEN probe[k].left - 1 ELSE probe[k].left
        BY <1>3 DEF Less
    <3>4. Probes[k].timeout = 5 /\ Probes[k].period \in {10, 15}
        BY ProbesFacts
    <3>5. Contains(line', k) <=> Contains(line, k)
        BY <1>6
    <3> QED BY <3>1, <3>2, <3>3, <3>4, <3>5
  <2> QED BY <2>1 DEF TimersOK
<1>11. StartsUp'
  <2> SUFFICES ASSUME ~Listening' PROVE StartsUp'
      BY DEF StartsUp
  <2>1. ~Listening
      BY <1>1 DEF Listening
  <2>2. /\ line = <<>> /\ busy = 0 /\ ~ready
        /\ age + probe["liveness"].wait = 60 + 15 * probe["liveness"].failures
      BY <1>1, <2>1, ProbesFacts DEF StartsUp
  <2>3. line' = <<>> /\ busy' = 0 /\ ~ready' /\ age' = age + 1
      BY <1>1, <1>5, <2>1, <2>2
  <2>4. "liveness" \in Kinds
      BY DEF Kinds
  <2>5. probe["liveness"].wait \in Nat /\ probe["liveness"].failures \in Nat
      BY <1>2, <2>4, ProberTypes
  <2>6. age' + probe'["liveness"].wait = 60 + 15 * probe'["liveness"].failures
    <3>1. probe'["liveness"].wait = probe["liveness"].wait - 1
          /\ probe'["liveness"].failures = probe["liveness"].failures
        BY <1>3, <2>4
    <3>2. age \in Nat
        BY <1>7
    <3> QED BY <2>2, <2>3, <2>5, <3>1, <3>2
  <2>7. Probes["liveness"].initialDelay = 60 /\ Probes["liveness"].period = 15
      BY ProbesFacts
  <2> QED BY <2>3, <2>6, <2>7 DEF StartsUp
<1> QED BY <1>8, <1>9, <1>10, <1>11 DEF ProbesInv

\* It holds at first,
LEMMA ProbesInvInit == Init => ProbesInv
  BY FreshInv DEF Init, Fresh

\* and every step keeps it.
LEMMA ProbesInvStep == ProbesInv /\ [Next]_vars => ProbesInv'
<1> SUFFICES ASSUME ProbesInv, [Next]_vars PROVE ProbesInv'
    OBVIOUS
<1>1. CASE Kill
  <2>1. PICK seconds \in Startups : Start(seconds)
      BY <1>1 DEF Kill
  <2>2. Fresh'
      BY <2>1 DEF Start, Fresh
  <2> QED BY <2>2, FreshInv, PTL
<1>2. CASE UNCHANGED vars
    BY <1>2 DEF vars, ProbesInv, TypeOK, LineOK, TimersOK, StartsUp, Listening
<1> QED BY <1>1, <1>2, SubmitInv, GenerateInv, HealthCheckInv, SendInv, FailInv, TickInv
        DEF Next, Progress

\* Every variable keeps its type, whatever lines up for the event loop.
THEOREM TypeCorrect == Spec => []TypeOK
<1>1. ProbesInv => TypeOK
    BY DEF ProbesInv
<1> QED BY <1>1, ProbesInvInit, ProbesInvStep, PTL DEF Spec

\* Nobody waits for the event loop twice, and a probe is waited for exactly as
\* long as its prober waits for it.
THEOREM LineIsSound == Spec => [](LineOK /\ TimersOK)
<1>1. ProbesInv => LineOK /\ TimersOK
    BY DEF ProbesInv
<1> QED BY <1>1, ProbesInvInit, ProbesInvStep, PTL DEF Spec

-----------------------------------------------------------------------------
(* What a kill is for                                                      *)

\* How long the open liveness request, if there is one, has been open.
Open == IF probe["liveness"].left >= 0 THEN 5 - probe["liveness"].left ELSE 0

\* Five seconds of held stand for each failure of the liveness probe, and each
\* second its open request has waited is one of held.
Justified ==
    /\ ~Listening => held = 5 * Refused(startup)
    /\ 5 * probe["liveness"].failures + Open <= held

\* The liveness prober and its timers, in numbers.
LEMMA LivenessFacts ==
    ASSUME ProbesInv
    PROVE  /\ "liveness" \in Kinds /\ "readiness" \in Kinds
           /\ probe["liveness"].wait \in Nat /\ probe["liveness"].failures \in Nat
           /\ probe["liveness"].left \in -1..5 /\ Open \in 0..5 /\ held \in Nat
           /\ probe \in [Kinds -> Probers] /\ probe["liveness"] \in Probers
           /\ startup \in Nat /\ age \in 0..startup
<1>1. "liveness" \in Kinds /\ "readiness" \in Kinds
    BY DEF Kinds
<1>2. probe \in [Kinds -> Probers] /\ held \in Nat
    BY Typed DEF ProbesInv
<1>3. /\ probe["liveness"] \in Probers
      /\ probe["liveness"].wait \in Nat /\ probe["liveness"].failures \in Nat
      /\ probe["liveness"].left \in Nat \cup {-1}
    BY <1>1, <1>2, ProberTypes
<1>4. probe["liveness"].left <= 5
    BY <1>1, ProbesFacts DEF ProbesInv, TimersOK
<1>5. startup \in Nat /\ age \in 0..startup
    BY ProbesAssumption DEF ProbesInv, TypeOK
<1>6. probe["liveness"].left \in -1..5 /\ Open \in 0..5
    BY <1>3, <1>4 DEF Open
<1> QED BY <1>1, <1>2, <1>3, <1>5, <1>6

\* A new container has failed nothing yet.
LEMMA FreshJustified == Fresh => Justified
<1> SUFFICES ASSUME Fresh PROVE Justified
    OBVIOUS
<1>1. probe["liveness"].failures = 0 /\ probe["liveness"].left = -1
    BY DEF Fresh, NewProbers, Kinds
<1>2. Open = 0
    BY <1>1 DEF Open
<1>3. held \in Nat /\ held = 5 * Refused(startup)
    BY FreshHeld DEF Fresh
<1> QED BY <1>1, <1>2, <1>3 DEF Justified

\* A failure during startup: it is one of those that startup was bound to refuse.
LEMMA RefusedInTime ==
    ASSUME ProbesInv, Justified, ~Listening, probe["liveness"].wait = 0,
           probe["liveness"].failures <= 2
    PROVE  held >= 5 * (probe["liveness"].failures + 1)
<1> DEFINE n == Refused(startup)
           f == probe["liveness"].failures
<1>1. f \in 0..2 /\ startup \in Nat /\ age \in Nat /\ age < startup
    BY LivenessFacts DEF Listening
<1>2. age + 0 = 60 + 15 * f
    BY ProbesFacts DEF ProbesInv, StartsUp
<1>3. n \in Nat /\ held = 5 * n
    BY <1>1, RefusedFacts DEF Justified
<1>4. (startup > 60 => n >= 1) /\ (startup > 75 => n >= 2) /\ (startup > 90 => n >= 3)
    BY <1>1, RefusedFacts
<1> HIDE DEF n, f
<1>5. n >= f + 1
    BY <1>1, <1>2, <1>3, <1>4
<1>6. held >= 5 * (f + 1)
    BY <1>1, <1>3, <1>5
<1> QED BY <1>6 DEF f

\* An answer in time clears the failures, and the history with them.
LEMMA HealthCheckJustified == ASSUME ProbesInv, Justified, HealthCheck PROVE Justified'
<1> DEFINE k == Head(line)
<1>1. /\ busy = 0 /\ line # <<>> /\ k \in Kinds /\ UNCHANGED <<startup, age>>
      /\ held' = IF k = "liveness" THEN 0 ELSE held
      /\ probe' = [probe EXCEPT ![k].left = -1, ![k].failures = 0]
    BY DEF HealthCheck, LoopIsFree
<1>2. Listening /\ Listening'
    BY <1>1 DEF ProbesInv, StartsUp, Listening
<1> HIDE DEF k
<1>3. CASE k = "liveness"
  <2>1. probe'["liveness"].left = -1 /\ probe'["liveness"].failures = 0 /\ held' = 0
      BY <1>1, <1>3, LivenessFacts DEF Probers
  <2> QED BY <1>2, <2>1 DEF Justified, Open
<1>4. CASE k # "liveness"
  <2>1. probe'["liveness"] = probe["liveness"] /\ held' = held
      BY <1>1, <1>4, LivenessFacts
  <2> QED BY <1>2, <2>1 DEF Justified, Open
<1> QED BY <1>3, <1>4

\* A request that is sent has not waited yet.
LEMMA SendJustified ==
    ASSUME ProbesInv, Justified, NEW k \in Kinds, Send(k)
    PROVE  Justified'
<1>1. /\ Listening /\ probe[k].wait = 0 /\ UNCHANGED <<startup, age, held>>
      /\ probe' = [probe EXCEPT ![k].wait = Probes[k].period,
                                ![k].left = Probes[k].timeout]
    BY DEF Send
<1>2. CASE k = "liveness"
  <2>1. probe'["liveness"].left = 5
        /\ probe'["liveness"].failures = probe["liveness"].failures
      BY <1>1, <1>2, LivenessFacts, ProbesFacts DEF Probers
  <2>2. Open' = 0
      BY <2>1 DEF Open
  <2> QED BY <1>1, <2>1, <2>2, LivenessFacts DEF Justified, Listening
<1>3. CASE k # "liveness"
  <2>1. probe'["liveness"] = probe["liveness"]
      BY <1>1, <1>3, LivenessFacts
  <2> QED BY <1>1, <2>1 DEF Justified, Open, Listening
<1> QED BY <1>2, <1>3

\* What a failure of the liveness probe is covered by.
LEMMA FailureIsHeld ==
    ASSUME ProbesInv, Justified, Fails("liveness"),
           Listening \/ probe["liveness"].failures <= 2
    PROVE  held >= 5 * (probe["liveness"].failures + 1)
<1>1. CASE ~Listening
  <2>1. probe["liveness"].left # 0
    <3>1. ~Contains(line, "liveness")
        BY <1>1 DEF ProbesInv, StartsUp, Contains
    <3> QED BY <3>1, LivenessFacts DEF ProbesInv, TimersOK
  <2>2. probe["liveness"].wait = 0
      BY <2>1 DEF Fails
  <2> QED BY <1>1, <2>2, RefusedInTime
<1>2. CASE Listening
  <2>1. Open = 5
      BY <1>2 DEF Fails, Open
  <2>2. 5 * probe["liveness"].failures + 5 <= held
      BY <2>1 DEF Justified
  <2> QED BY <2>2, LivenessFacts
<1> QED BY <1>1, <1>2

\* A failure short of the threshold is counted.
LEMMA FailJustified ==
    ASSUME ProbesInv, Justified, NEW k \in Kinds, Fail(k)
    PROVE  Justified'
<1>1. /\ Fails(k) /\ ~(k = "liveness" /\ LastStraw(k))
      /\ UNCHANGED <<startup, age, held>>
      /\ probe' = [probe EXCEPT ![k].wait = IF @ = 0 THEN Probes[k].period ELSE @,
                                ![k].left = -1,
                                ![k].failures = IF LastStraw(k) THEN @ ELSE @ + 1]
    BY DEF Fail
<1>2. CASE k = "liveness"
  <2>1. probe'["liveness"].left = -1
        /\ probe'["liveness"].failures = probe["liveness"].failures + 1
      BY <1>1, <1>2, LivenessFacts DEF Probers
  <2>2. probe["liveness"].failures <= 2
      BY <1>1, <1>2, LivenessFacts, ProbesFacts DEF LastStraw
  <2>3. held >= 5 * (probe["liveness"].failures + 1)
      BY <1>1, <1>2, <2>2, FailureIsHeld
  <2>4. Open' = 0
      BY <2>1 DEF Open
  <2>5. 5 * probe'["liveness"].failures + Open' <= held'
      BY <1>1, <2>1, <2>3, <2>4, LivenessFacts
  <2> QED BY <1>1, <2>5 DEF Justified, Listening
<1>3. CASE k # "liveness"
  <2>1. probe'["liveness"] = probe["liveness"]
      BY <1>1, <1>3, LivenessFacts
  <2> QED BY <1>1, <2>1 DEF Justified, Open, Listening
<1> QED BY <1>2, <1>3

\* No second passes with the loop free and a request open.
LEMMA TickJustified == ASSUME ProbesInv, Justified, Tick PROVE Justified'
<1>1. /\ ~LoopIsFree /\ startup' = startup
      /\ age' = IF Listening THEN age ELSE age + 1
      /\ held' = IF busy > 0 /\ probe["liveness"].left > 0 THEN held + 1 ELSE held
      /\ probe["liveness"].left # 0
    BY LivenessFacts DEF Tick, Due
<1>2. probe'["liveness"].left = Less(probe["liveness"].left)
      /\ probe'["liveness"].failures = probe["liveness"].failures
  <2>1. probe'["liveness"] = [probe["liveness"] EXCEPT !.wait = Less(@), !.left = Less(@)]
      BY LivenessFacts DEF Tick
  <2> HIDE DEF Less
  <2> QED BY <2>1, LivenessFacts DEF Probers
<1>3. CASE probe["liveness"].left > 0
  <2>1. Contains(line, "liveness")
      BY <1>3, LivenessFacts DEF ProbesInv, TimersOK
  <2>2. line # <<>>
      BY <2>1 DEF Contains
  <2>3. busy > 0 /\ Listening
      BY <1>1, <2>2, LivenessFacts DEF LoopIsFree, ProbesInv, StartsUp, TypeOK
  <2>4. held' = held + 1 /\ Listening'
      BY <1>1, <1>3, <2>3 DEF Listening
  <2>5. Open' = Open + 1
      BY <1>2, <1>3, LivenessFacts DEF Open, Less
  <2> QED BY <1>2, <2>4, <2>5, LivenessFacts DEF Justified
<1>4. CASE ~(probe["liveness"].left > 0)
  <2>1. probe["liveness"].left = -1 /\ probe'["liveness"].left = -1 /\ held' = held
      BY <1>1, <1>2, <1>4, LivenessFacts DEF Less
  <2>2. ~Listening' => ~Listening
      BY <1>1 DEF Listening
  <2> QED BY <1>1, <1>2, <2>1, <2>2 DEF Justified, Open
<1> QED BY <1>3, <1>4

\* Steps of clients and the engine touch neither.
LEMMA JustifiedStep == ProbesInv /\ Justified /\ [Next]_vars => Justified'
<1> SUFFICES ASSUME ProbesInv, Justified, [Next]_vars PROVE Justified'
    OBVIOUS
<1>1. CASE Kill
  <2>1. PICK seconds \in Startups : Start(seconds)
      BY <1>1 DEF Kill
  <2>2. Fresh'
      BY <2>1 DEF Start, Fresh
  <2> QED BY <2>2, FreshJustified, PTL
<1>2. CASE UNCHANGED <<startup, age, probe, held>>
    BY <1>2 DEF Justified, Open, Listening
<1> QED BY <1>1, <1>2, HealthCheckJustified, SendJustified, FailJustified, TickJustified
        DEF Next, Progress, Submit, Generate, vars

\* The third failure in a row is covered like the others.
LEMMA KillIsHeld == ProbesInv /\ Justified => (Kill => held >= 3 * 5)
<1> SUFFICES ASSUME ProbesInv, Justified, Kill PROVE held >= 15
    OBVIOUS
<1>1. Fails("liveness") /\ probe["liveness"].failures + 1 >= 3
    BY ProbesFacts DEF Kill, LastStraw
<1>2. CASE Listening \/ probe["liveness"].failures <= 2
  <2>1. held >= 5 * (probe["liveness"].failures + 1)
      BY <1>1, <1>2, FailureIsHeld
  <2> QED BY <1>1, <2>1, LivenessFacts
<1>3. CASE probe["liveness"].failures > 2
  <2>1. 5 * probe["liveness"].failures + Open <= held
      BY DEF Justified
  <2> QED BY <1>3, <2>1, LivenessFacts
<1> QED BY <1>2, <1>3, LivenessFacts

\* Whatever the clients ask for and however long generations take, a container is
\* killed only after three liveness probes in a row that were sent during startup
\* or met a loop that was held for all of their 5 seconds.
THEOREM KillsAreJustified == Spec => KilledOnlyIfHeld
<1>1. Init => ProbesInv /\ Justified
    BY ProbesInvInit, FreshJustified DEF Init, Fresh
<1>2. ProbesInv /\ Justified /\ [Next]_vars => (ProbesInv /\ Justified)'
    BY ProbesInvStep, JustifiedStep
<1>3. ProbesInv /\ Justified => [Kill => held >= 3 * 5]_vars
    BY KillIsHeld
<1> QED BY <1>1, <1>2, <1>3, PTL DEF Spec, KilledOnlyIfHeld

=============================================================================
