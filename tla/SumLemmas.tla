------------------------------ MODULE SumLemmas ------------------------------
(***************************************************************************)
(* Lemmas about SumFunction of the community module Functions, which the   *)
(* quota's models use to say what is reserved and what was given.          *)
(* SumFunction is a fold, and a fold is a recursive function over the      *)
(* subsets of a domain; nothing about it can be used before its recursion  *)
(* equation is proved.  The induction theorems of the library take an      *)
(* operator, which no backend here can instantiate: every induction below  *)
(* is an argument about a smallest subset that breaks the claim.           *)
(***************************************************************************)
EXTENDS Integers, FiniteSets, Functions, FiniteSetTheorems, TLAPS

\* The element a fold takes out of a set next.
Pick(s) == CHOOSE x \in s : TRUE

\* g sums f over every subset of U.
SumsOver(f, g, U) ==
    g = [s \in SUBSET U |-> IF s = {} THEN 0
                            ELSE f[Pick(s)] + g[s \ {Pick(s)}]]

\* The function behind SumFunction(f).
Sums(f) == CHOOSE g : SumsOver(f, g, DOMAIN f)

\* SumFunction is the value of that function at the whole domain.
LEMMA SumUnfolds == \A f : SumFunction(f) = Sums(f)[DOMAIN f]
  BY Zenon DEF SumFunction, SumFunctionOnSet, FoldFunctionOnSet, MapThenFoldSet,
               Sums, SumsOver, Pick

\* A set that is not empty has an element to take.
LEMMA PickIsMember == ASSUME NEW s, s # {} PROVE Pick(s) \in s
  BY DEF Pick

\* Among subsets of a finite set one is smallest: the induction used below.
LEMMA SmallestSubset ==
    ASSUME NEW S, IsFiniteSet(S), NEW T, T \subseteq SUBSET S, T # {}
    PROVE  \E U \in T : \A V \in T : V \subseteq U => V = U
<1>1. FiniteSubsetsOf(S) = SUBSET S
    BY FS_FiniteSubsetsOfFinite
<1>2. IsWellFoundedOn(StrictSubsetOrdering(S), SUBSET S)
    BY <1>1, FS_StrictSubsetOrderingWellFounded
<1>3. PICK U \in T : \A V \in T : <<V, U>> \notin StrictSubsetOrdering(S)
    BY <1>2, WFMin
<1>4. ASSUME NEW V \in T, V \subseteq U, V # U PROVE FALSE
    BY <1>3, <1>4 DEF StrictSubsetOrdering
<1> QED BY <1>4

\* Two functions that sum f agree where both are defined.
LEMMA SumsAgree ==
    ASSUME NEW S, IsFiniteSet(S), NEW f,
           NEW U \in SUBSET S, NEW g, SumsOver(f, g, U),
           NEW V \in SUBSET S, NEW h, SumsOver(f, h, V)
    PROVE  \A s \in SUBSET (U \cap V) : g[s] = h[s]
<1> DEFINE Bad == {s \in SUBSET (U \cap V) : g[s] # h[s]}
<1> SUFFICES ASSUME Bad # {} PROVE FALSE
    OBVIOUS
<1>1. PICK s \in Bad : \A t \in Bad : t \subseteq s => t = s
  <2>1. Bad \subseteq SUBSET S
      OBVIOUS
  <2> HIDE DEF Bad
  <2> QED BY <2>1, SmallestSubset
<1>2. s \in SUBSET U /\ s \in SUBSET V /\ s # {}
  <2>1. s \in SUBSET U /\ s \in SUBSET V /\ g[s] # h[s]
      BY <1>1
  <2>2. s = {} => g[s] = 0 /\ h[s] = 0
      BY <2>1 DEF SumsOver
  <2> QED BY <2>1, <2>2
<1> DEFINE t == s \ {Pick(s)}
<1>3. g[t] = h[t]
  <2>1. t \subseteq s /\ t # s
      BY <1>2, PickIsMember
  <2>2. t \notin Bad
      BY <1>1, <2>1
  <2> QED BY <1>2, <2>1, <2>2
<1>4. g[s] = f[Pick(s)] + g[t] /\ h[s] = f[Pick(s)] + h[t]
    BY <1>2 DEF SumsOver
<1>5. g[s] = h[s]
    BY <1>3, <1>4
<1> QED BY <1>1, <1>5

\* There is a function that sums f over the subsets of a finite set.
LEMMA SumsExist ==
    ASSUME NEW S, IsFiniteSet(S), NEW f
    PROVE  \E g : SumsOver(f, g, S)
<1> DEFINE Bad == {U \in SUBSET S : ~ \E g : SumsOver(f, g, U)}
<1> SUFFICES ASSUME Bad # {} PROVE FALSE
    OBVIOUS
<1>1. PICK U \in Bad : \A t \in Bad : t \subseteq U => t = U
  <2>1. Bad \subseteq SUBSET S
      OBVIOUS
  <2> HIDE DEF Bad
  <2> QED BY <2>1, SmallestSubset
<1> DEFINE G(V) == CHOOSE g : SumsOver(f, g, V)
           h == [s \in SUBSET U |-> IF s = {} THEN 0
                   ELSE f[Pick(s)] + G(s \ {Pick(s)})[s \ {Pick(s)}]]
<1>2. ASSUME NEW V \in SUBSET U, V # U PROVE SumsOver(f, G(V), V)
    BY <1>1, <1>2
<1>3. ASSUME NEW s \in SUBSET U, s # {}
      PROVE  h[s \ {Pick(s)}] = G(s \ {Pick(s)})[s \ {Pick(s)}]
  <2> DEFINE t == s \ {Pick(s)}
  <2>1. t \in SUBSET U /\ t # U
      BY <1>3, PickIsMember
  <2>2. SumsOver(f, G(t), t)
      BY <1>2, <2>1
  <2>3. CASE t = {}
    <3>1. G(t)[t] = 0
        BY <2>2, <2>3 DEF SumsOver
    <3> QED BY <2>3, <3>1
  <2>4. CASE t # {}
    <3> DEFINE u == t \ {Pick(t)}
    <3>1. u \in SUBSET U /\ u # U /\ u \subseteq t
        BY <2>1, <2>4, PickIsMember
    <3>2. SumsOver(f, G(u), u)
        BY <1>2, <3>1
    <3>3. h[t] = f[Pick(t)] + G(u)[u]
        BY <2>1, <2>4
    <3>4. G(t)[t] = f[Pick(t)] + G(t)[u]
        BY <2>2, <2>4 DEF SumsOver
    <3>5. G(t)[u] = G(u)[u]
      <4>1. t \in SUBSET S /\ u \in SUBSET S /\ u \in SUBSET (t \cap u)
          BY <3>1, <2>1
      <4> HIDE DEF G, t, u
      <4> QED BY <2>2, <3>2, <4>1, SumsAgree
    <3> QED BY <3>3, <3>4, <3>5
  <2> QED BY <2>3, <2>4
<1>4. SumsOver(f, h, U)
  <2>1. ASSUME NEW s \in SUBSET U
        PROVE  h[s] = IF s = {} THEN 0 ELSE f[Pick(s)] + h[s \ {Pick(s)}]
    <3>1. CASE s = {}
        BY <3>1
    <3>2. CASE s # {}
      <4>1. h[s] = f[Pick(s)] + G(s \ {Pick(s)})[s \ {Pick(s)}]
          BY <3>2
      <4>2. h[s \ {Pick(s)}] = G(s \ {Pick(s)})[s \ {Pick(s)}]
          BY <1>3, <3>2
      <4> HIDE DEF G, h
      <4> QED BY <4>1, <4>2, <3>2
    <3> QED BY <3>1, <3>2
  <2> HIDE DEF G
  <2> QED BY <2>1 DEF SumsOver
<1> QED BY <1>1, <1>4

\* The recursion equation of a sum.
LEMMA SumsEquation ==
    ASSUME NEW S, IsFiniteSet(S), NEW f, DOMAIN f = S
    PROVE  SumFunction(f) = Sums(f)[S] /\ SumsOver(f, Sums(f), S)
<1>1. SumsOver(f, Sums(f), S)
    BY SumsExist DEF Sums
<1>2. SumFunction(f) = Sums(f)[S]
    BY SumUnfolds
<1> QED BY <1>1, <1>2

\* The empty sum.
LEMMA SumOfNone ==
    ASSUME NEW S, IsFiniteSet(S), NEW f, DOMAIN f = S
    PROVE  Sums(f)[{}] = 0
<1>1. SumsOver(f, Sums(f), S)
    BY SumsEquation
<1> HIDE DEF Sums
<1> QED BY <1>1 DEF SumsOver

\* A sum over a nonempty set is one value and the sum of the rest.
LEMMA SumOfSome ==
    ASSUME NEW S, IsFiniteSet(S), NEW f, DOMAIN f = S, NEW s \in SUBSET S, s # {}
    PROVE  Pick(s) \in s /\ Sums(f)[s] = f[Pick(s)] + Sums(f)[s \ {Pick(s)}]
<1>1. SumsOver(f, Sums(f), S)
    BY SumsEquation
<1> HIDE DEF Sums
<1> QED BY <1>1, PickIsMember DEF SumsOver

\* A sum of integers is one, and of natural numbers too.
LEMMA SumTypes ==
    ASSUME NEW S, IsFiniteSet(S), NEW f \in [S -> Int]
    PROVE  /\ \A s \in SUBSET S : Sums(f)[s] \in Int
           /\ (\A x \in S : f[x] \in Nat) => \A s \in SUBSET S : Sums(f)[s] \in Nat
<1> DEFINE Bad(T) == {s \in SUBSET S : Sums(f)[s] \notin T}
<1>1. ASSUME NEW T, T \subseteq Int, 0 \in T, \A a, b \in T : a + b \in T, \A x \in S : f[x] \in T
      PROVE  Bad(T) = {}
  <2> SUFFICES ASSUME Bad(T) # {} PROVE FALSE
      OBVIOUS
  <2>1. PICK s \in Bad(T) : \A t \in Bad(T) : t \subseteq s => t = s
    <3>1. Bad(T) \subseteq SUBSET S
        OBVIOUS
    <3> HIDE DEF Bad
    <3> QED BY <3>1, SmallestSubset
  <2>2. s \in SUBSET S /\ s # {} /\ Sums(f)[s] \notin T
    <3>1. s \in SUBSET S /\ Sums(f)[s] \notin T
        BY <2>1
    <3>2. Sums(f)[{}] = 0
        BY SumOfNone
    <3> QED BY <1>1, <3>1, <3>2
  <2>3. Pick(s) \in s /\ Sums(f)[s] = f[Pick(s)] + Sums(f)[s \ {Pick(s)}]
    <3>1. DOMAIN f = S
        OBVIOUS
    <3> HIDE DEF Bad
    <3> QED BY <2>2, <3>1, SumOfSome
  <2>4. Sums(f)[s \ {Pick(s)}] \in T
      BY <2>1, <2>2, <2>3
  <2> QED BY <1>1, <2>2, <2>3, <2>4
<1>2. Bad(Int) = {}
    BY <1>1
<1>3. ASSUME \A x \in S : f[x] \in Nat PROVE Bad(Nat) = {}
  <2>1. Nat \subseteq Int /\ 0 \in Nat /\ \A a, b \in Nat : a + b \in Nat
      OBVIOUS
  <2> HIDE DEF Bad
  <2> QED BY <1>1, <1>3, <2>1
<1> QED BY <1>2, <1>3

\* Changing one value changes the sum by the difference.
LEMMA SumsExcept ==
    ASSUME NEW S, IsFiniteSet(S), NEW f \in [S -> Int], NEW x \in S, NEW v \in Int,
           NEW g \in [S -> Int], g[x] = v, \A y \in S : y # x => g[y] = f[y]
    PROVE  \A s \in SUBSET S :
              Sums(g)[s] = IF x \in s THEN Sums(f)[s] - f[x] + v ELSE Sums(f)[s]
<1> DEFINE After(s) == IF x \in s THEN Sums(f)[s] - f[x] + v ELSE Sums(f)[s]
           Bad == {s \in SUBSET S : Sums(g)[s] # After(s)}
<1> SUFFICES ASSUME Bad # {} PROVE FALSE
    OBVIOUS
<1>1. PICK s \in Bad : \A t \in Bad : t \subseteq s => t = s
  <2>1. Bad \subseteq SUBSET S
      OBVIOUS
  <2> HIDE DEF Bad
  <2> QED BY <2>1, SmallestSubset
<1>2. g \in [S -> Int] /\ g[x] = v /\ \A y \in S : y # x => g[y] = f[y]
    OBVIOUS
<1>3. DOMAIN f = S /\ DOMAIN g = S /\ f[x] \in Int
    BY <1>2
<1>4. s \in SUBSET S /\ Sums(g)[s] # After(s)
    BY <1>1
<1>5. s # {}
  <2>1. Sums(f)[{}] = 0 /\ Sums(g)[{}] = 0
      BY <1>3, SumOfNone
  <2> QED BY <1>4, <2>1
<1> DEFINE y == Pick(s)
           t == s \ {y}
<1>6. y \in s /\ Sums(f)[s] = f[y] + Sums(f)[t] /\ Sums(g)[s] = g[y] + Sums(g)[t]
  <2> HIDE DEF Bad, After
  <2>1. s \in SUBSET S /\ s # {}
      BY <1>4, <1>5
  <2>2. ASSUME NEW h, DOMAIN h = S, NEW u \in SUBSET S, u # {}
        PROVE  Pick(u) \in u /\ Sums(h)[u] = h[Pick(u)] + Sums(h)[u \ {Pick(u)}]
      BY <2>2, SumOfSome
  <2>3. Pick(s) \in s /\ Sums(f)[s] = f[Pick(s)] + Sums(f)[s \ {Pick(s)}]
      BY <1>3, <2>1, <2>2
  <2>4. Sums(g)[s] = g[Pick(s)] + Sums(g)[s \ {Pick(s)}]
      BY <1>3, <2>1, <2>2
  <2> QED BY <2>3, <2>4
<1>7. t \in SUBSET S /\ t # s /\ t \subseteq s
    BY <1>4, <1>6
<1>8. Sums(g)[t] = After(t)
    BY <1>1, <1>7
<1>9. Sums(f)[t] \in Int /\ Sums(g)[t] \in Int /\ f[y] \in Int /\ g[y] \in Int
    BY <1>2, <1>4, <1>6, <1>7, SumTypes
<1>10. (x \in t) <=> (x \in s /\ x # y)
    OBVIOUS
<1> HIDE DEF Bad, y, t
<1>11. Sums(g)[s] = After(s)
    BY <1>2, <1>3, <1>4, <1>6, <1>8, <1>9, <1>10
<1> QED BY <1>4, <1>11

\* SumFunction changes with one value of its function.
LEMMA SumOfExcept ==
    ASSUME NEW S, IsFiniteSet(S), NEW f \in [S -> Int], NEW x \in S, NEW v \in Int
    PROVE  SumFunction([f EXCEPT ![x] = v]) = SumFunction(f) - f[x] + v
<1> DEFINE g == [f EXCEPT ![x] = v]
<1>1. DOMAIN f = S /\ DOMAIN g = S
    OBVIOUS
<1>2. SumFunction(f) = Sums(f)[S] /\ SumFunction(g) = Sums(g)[S]
    BY <1>1, SumsEquation
<1>3. S \in SUBSET S /\ g \in [S -> Int] /\ g[x] = v /\ \A y \in S : y # x => g[y] = f[y]
    OBVIOUS
<1> HIDE DEF g
<1>4. \A s \in SUBSET S :
         Sums(g)[s] = IF x \in s THEN Sums(f)[s] - f[x] + v ELSE Sums(f)[s]
    BY <1>3, SumsExcept
<1>5. Sums(g)[S] = Sums(f)[S] - f[x] + v
    BY <1>3, <1>4
<1> QED BY <1>2, <1>5 DEF g

\* A sum of naturals is at least each of them.
LEMMA SumBounds ==
    ASSUME NEW S, IsFiniteSet(S), NEW f \in [S -> Nat]
    PROVE  /\ SumFunction(f) \in Nat
           /\ \A x \in S : f[x] <= SumFunction(f)
<1>1. f \in [S -> Int] /\ DOMAIN f = S
    OBVIOUS
<1>2. SumFunction(f) = Sums(f)[S] /\ SumFunction(f) \in Nat
    BY <1>1, SumsEquation, SumTypes
<1>3. ASSUME NEW x \in S PROVE f[x] <= SumFunction(f)
  <2> DEFINE g == [f EXCEPT ![x] = 0]
  <2>1. g \in [S -> Nat] /\ g \in [S -> Int] /\ DOMAIN g = S
      OBVIOUS
  <2>2. 0 \in Int
      OBVIOUS
  <2> HIDE DEF g
  <2>3. SumFunction(g) = Sums(g)[S] /\ Sums(g)[S] \in Nat
      BY <2>1, SumsEquation, SumTypes
  <2>4. SumFunction(g) = SumFunction(f) - f[x] + 0
      BY <1>1, <2>2, SumOfExcept DEF g
  <2>5. f[x] \in Nat
      OBVIOUS
  <2> QED BY <1>2, <2>3, <2>4, <2>5
<1> QED BY <1>2, <1>3

\* A sum of zeros is zero.
LEMMA SumOfZeros ==
    ASSUME NEW S, IsFiniteSet(S)
    PROVE  SumFunction([x \in S |-> 0]) = 0
<1> DEFINE f == [x \in S |-> 0]
           Bad == {s \in SUBSET S : Sums(f)[s] # 0}
<1>1. DOMAIN f = S /\ \A x \in S : f[x] = 0
    OBVIOUS
<1> HIDE DEF f
<1>2. ASSUME Bad # {} PROVE FALSE
  <2>1. PICK s \in Bad : \A t \in Bad : t \subseteq s => t = s
    <3>1. Bad \subseteq SUBSET S
        OBVIOUS
    <3> HIDE DEF Bad
    <3> QED BY <3>1, <1>2, SmallestSubset
  <2>2. s \in SUBSET S /\ s # {}
      BY <2>1, <1>1, SumOfNone
  <2>3. Pick(s) \in s /\ Sums(f)[s] = f[Pick(s)] + Sums(f)[s \ {Pick(s)}]
      BY <2>2, <1>1, SumOfSome
  <2>4. Sums(f)[s \ {Pick(s)}] = 0
      BY <2>1, <2>2, <2>3
  <2> QED BY <1>1, <2>1, <2>2, <2>3, <2>4
<1>3. SumFunction(f) = Sums(f)[S] /\ S \in SUBSET S
    BY <1>1, SumsEquation
<1> QED BY <1>2, <1>3 DEF f

=============================================================================
