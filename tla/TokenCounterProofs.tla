------------------------- MODULE TokenCounterProofs -------------------------
(***************************************************************************)
(* Proofs about TokenCounter for any number of threads, any quota and any  *)
(* size of requests.  Everything rests on one inductive invariant, Locked: *)
(* a thread inside a "with" block is the only one there, so what it has    *)
(* read of self._value is still so when it acts on it.                     *)
(***************************************************************************)
EXTENDS TokenCounter, SumLemmas, FiniteSetTheorems, TLAPS

\* The locations inside a "with self._lock" block.
Inside == {"check", "load", "store", "granted", "refused",
           "loadBack", "storeBack", "adjusted"}

\* Only the thread that has the lock is inside.
Exclusive == \A t \in Threads : pc[t] \in Inside <=> lock = t

\* What was read under the lock still holds when it is used.
ReadIsFresh ==
    \A t \in Threads :
        /\ pc[t] \in {"store", "storeBack"} => loaded[t] = value
        /\ pc[t] \in {"load", "store"} => value + requested[t] <= Quota
        /\ pc[t] = "refused" => value + requested[t] > Quota

\* A call is for at least one token.  An adjust gives back at most what is held,
\* and charges at most an overrun on top of it.
Bookkeeping ==
    \A t \in Threads :
        /\ pc[t] \in {"reserve", "check", "load", "store", "granted", "refused"}
              => requested[t] \in 1..MaxRequest
        /\ pc[t] \in {"idle", "reserve", "check", "load", "store", "refused", "adjusted"}
              => held[t] = 0
        /\ pc[t] \in {"generating", "adjust", "loadBack", "storeBack", "granted"}
              => held[t] \in 1..MaxRequest
        /\ pc[t] \in {"adjust", "loadBack", "storeBack"} 
              => diff[t] \in (-MaxOverrun)..held[t]

Locked ==
    /\ TypeOK
    /\ Exclusive
    /\ ReadIsFresh
    /\ Bookkeeping

-----------------------------------------------------------------------------

\* No thread has started, so nothing is held and the lock is free.
LEMMA InitLocked == Init => Locked
<1> SUFFICES ASSUME Init PROVE Locked
    OBVIOUS
<1> USE ThreadsAssumption, QuotaAssumption DEF Init
<1>1. TypeOK
    BY DEF TypeOK, Locations
<1>2. Exclusive
    BY DEF Exclusive, Inside
<1>3. ReadIsFresh
    BY DEF ReadIsFresh
<1>4. Bookkeeping
    BY DEF Bookkeeping
<1> QED
    BY <1>1, <1>2, <1>3, <1>4 DEF Locked

\* A step of a thread keeps Locked: the steps that write self._value are
\* those of the thread that has the lock, whose reading is fresh.
LEMMA NextLocked == Locked /\ [Next]_vars => Locked'
<1> SUFFICES ASSUME Locked, [Next]_vars PROVE Locked'
    OBVIOUS
<1> USE ThreadsAssumption, QuotaAssumption
        DEF Locked, TypeOK, Locations, Exclusive, Inside, ReadIsFresh,
            Bookkeeping
<1>1. ASSUME NEW t \in Threads, NEW k \in 1..MaxRequest, CallTryReserve(t, k)
      PROVE  Locked'
    BY <1>1 DEF CallTryReserve, At
<1>2. ASSUME NEW t \in Threads, EnterReserve(t)
      PROVE  Locked'
    BY <1>2 DEF EnterReserve, At, Acquire
<1>3. ASSUME NEW t \in Threads, Check(t)
      PROVE  Locked'
    BY <1>3 DEF Check, At, Remaining
<1>4. ASSUME NEW t \in Threads, Load(t)
      PROVE  Locked'
    BY <1>4 DEF Load, At
<1>5. ASSUME NEW t \in Threads, Store(t)
      PROVE  Locked'
    BY <1>5 DEF Store, At
<1>6. ASSUME NEW t \in Threads, Return(t)
      PROVE  Locked'
    BY <1>6 DEF Return, At
<1>7. ASSUME NEW t \in Threads, CallAdjustExact(t)
      PROVE  Locked'
    BY <1>7 DEF CallAdjustExact, At
<1>8. ASSUME NEW t \in Threads, NEW actual \in 0..(held[t] + MaxOverrun),
             CallAdjust(t, actual)
      PROVE  Locked'
    BY <1>8 DEF CallAdjust, At
<1>9. ASSUME NEW t \in Threads, EnterAdjust(t)
      PROVE  Locked'
    BY <1>9 DEF EnterAdjust, At, Acquire
<1>10. ASSUME NEW t \in Threads, LoadBack(t)
       PROVE  Locked'
    BY <1>10 DEF LoadBack, At
<1>11. ASSUME NEW t \in Threads, StoreBack(t)
       PROVE  Locked'
    BY <1>11 DEF StoreBack, At
<1>12. ASSUME NEW t \in Threads, LeaveAdjust(t)
       PROVE  Locked'
    BY <1>12 DEF LeaveAdjust, At
<1>13. CASE UNCHANGED vars
    BY <1>13 DEF vars
<1> QED
    BY <1>1, <1>2, <1>3, <1>4, <1>5, <1>6, <1>7, <1>8, <1>9, <1>10, <1>11,
       <1>12, <1>13 DEF Next, Running, Calling

\* The counter's state keeps its types, the lock has one holder, and what a
\* thread read under it stays true until it acts on it.
THEOREM LockedAlways == Spec => []Locked
<1> QED
    BY InitLocked, NextLocked, PTL DEF Spec

\* Every variable keeps its type.
THEOREM TypeCorrect == Spec => []TypeOK
<1>1. Locked => TypeOK
    BY DEF Locked
<1> QED
    BY <1>1, LockedAlways, PTL

\* try_reserve says (False, _) only to a request that does not fit.
THEOREM RefusalsAreRight == Spec => []RefusalJustified
<1>1. Locked => RefusalJustified
    BY DEF Locked, ReadIsFresh, RefusalJustified
<1> QED
    BY <1>1, LockedAlways, PTL

-----------------------------------------------------------------------------

\* Apart from the stores and an exact adjust, no step touches the count, the
\* reservations or the spending.
LEMMA OtherStepsKeep ==
    ASSUME [Next]_vars,
           \A t \in Threads : ~Store(t) /\ ~StoreBack(t) /\ ~CallAdjustExact(t)
    PROVE  UNCHANGED <<value, spent, held>>
<1>1. ASSUME NEW t \in Threads, Running(t) PROVE UNCHANGED <<value, spent, held>>
    BY <1>1 DEF Running, EnterReserve, Check, Load, Return, EnterAdjust, LoadBack,
                LeaveAdjust
<1>2. ASSUME NEW t \in Threads, Calling(t) PROVE UNCHANGED <<value, spent, held>>
    BY <1>2 DEF Calling, CallTryReserve, CallAdjust
<1> QED BY <1>1, <1>2 DEF Next, vars

\* What a step does to the sum of the reservations, when it moves one thread's.
LEMMA HeldSum ==
    ASSUME Locked, NEW t \in Threads, NEW k \in Nat, held' = [held EXCEPT ![t] = k]
    PROVE  SumFunction(held') = SumFunction(held) - held[t] + k
<1>1. held \in [Threads -> Int] /\ k \in Int
    BY DEF Locked, TypeOK
<1> QED BY <1>1, ThreadsAssumption, SumOfExcept

\* Nothing is spent, held or counted at first.
LEMMA InitConserved == Init => Conserved
<1>1. SumFunction([t \in Threads |-> 0]) = 0
    BY ThreadsAssumption, SumOfZeros
<1> QED BY <1>1 DEF Init, Conserved

\* The stores of try_reserve and of adjust change the count by what they
\* change the reservations and the spending by; no other step touches the three
\* but an exact adjust, which turns a reservation into spending.
LEMMA NextConserved == Locked /\ Conserved /\ [Next]_vars => Conserved'
<1> SUFFICES ASSUME Locked, Conserved, [Next]_vars PROVE Conserved'
    OBVIOUS
<1>1. value \in Int /\ spent \in Int /\ SumFunction(held) \in Int
  <2>1. held \in [Threads -> Nat]
      BY QuotaAssumption DEF Locked, TypeOK
  <2> QED BY <2>1, ThreadsAssumption, SumBounds DEF Locked, TypeOK
<1>2. ASSUME NEW t \in Threads, Store(t) PROVE Conserved'
  <2>1. requested[t] \in Nat /\ held[t] = 0 /\ loaded[t] = value
      BY <1>2 DEF Locked, TypeOK, Bookkeeping, ReadIsFresh, Store, At
  <2>2. SumFunction(held') = SumFunction(held) - held[t] + requested[t]
      BY <1>2, <2>1, HeldSum DEF Store
  <2> QED BY <1>1, <1>2, <2>1, <2>2 DEF Store, Conserved
<1>3. ASSUME NEW t \in Threads, StoreBack(t) PROVE Conserved'
  <2>1. held[t] \in Nat /\ diff[t] \in Int /\ loaded[t] = value
      BY <1>3 DEF Locked, TypeOK, ReadIsFresh, StoreBack, At
  <2>2. SumFunction(held') = SumFunction(held) - held[t] + 0
      BY <1>3, HeldSum DEF StoreBack
  <2> QED BY <1>1, <1>3, <2>1, <2>2 DEF StoreBack, Conserved
<1>4. ASSUME NEW t \in Threads, CallAdjustExact(t) PROVE Conserved'
  <2>1. held[t] \in Nat
      BY <1>4 DEF Locked, TypeOK
  <2>2. SumFunction(held') = SumFunction(held) - held[t] + 0
      BY <1>4, HeldSum DEF CallAdjustExact
  <2> QED BY <1>1, <1>4, <2>1, <2>2 DEF CallAdjustExact, Conserved
<1>5. CASE UNCHANGED <<value, spent, held>>
    BY <1>5 DEF Conserved
<1> QED BY <1>2, <1>3, <1>4, <1>5, OtherStepsKeep

\* For any number of threads and any interleaving of their loads and stores,
\* self._value is exactly what was spent plus what is still reserved.
THEOREM NothingLost == Spec => []Conserved
<1> QED BY InitConserved, NextConserved, LockedAlways, PTL DEF Spec

-----------------------------------------------------------------------------
(* The quota                                                               *)

\* The threads that have nothing reserved.
Empty == {t \in Threads : held[t] = 0}

\* Who settles joins them.
LEMMA SettledIsEmpty ==
    ASSUME Locked, NEW t \in Threads, held[t] # 0, held' = [held EXCEPT ![t] = 0]
    PROVE  Cardinality(Empty)' = Cardinality(Empty) + 1 /\ Cardinality(Empty) \in Nat
<1>1. IsFiniteSet(Empty) /\ t \notin Empty
    BY ThreadsAssumption, FS_Subset DEF Empty
<1>2. Empty' = Empty \cup {t}
    BY DEF Locked, TypeOK, Empty
<1> QED BY <1>1, <1>2, FS_AddElement, FS_CardinalityType

\* There is a number of them in any state.
LEMMA EmptyIsCounted == Cardinality(Empty) \in Nat /\ Cardinality(Empty)' \in Nat
<1>1. IsFiniteSet(Empty) /\ IsFiniteSet(Empty')
    BY ThreadsAssumption, FS_Subset DEF Empty
<1> QED BY <1>1, FS_CardinalityType

\* One overrun more is allowed for one thread more.
LEMMA OneMoreOverrun ==
    ASSUME NEW n \in Nat
    PROVE  /\ MaxOverrun * n \in Nat
           /\ MaxOverrun * (n + 1) = MaxOverrun * n + MaxOverrun
    BY QuotaAssumption

\* A store of try_reserve leaves a value within the quota.  A store of adjust
\* adds one overrun at most and leaves one more thread with nothing reserved.
LEMMA NextWithinQuota ==
    Locked /\ OverdrawnByOverrunsOnly /\ [Next]_vars => OverdrawnByOverrunsOnly'
<1> SUFFICES ASSUME Locked, OverdrawnByOverrunsOnly, [Next]_vars
             PROVE  OverdrawnByOverrunsOnly'
    OBVIOUS
<1> DEFINE n == Cardinality(Empty)
           a == MaxOverrun * n
           b == MaxOverrun * n'
<1>1. /\ value \in Int /\ Quota \in Nat /\ MaxOverrun \in Nat /\ n \in Nat /\ n' \in Nat
    BY EmptyIsCounted, QuotaAssumption DEF Locked, TypeOK
<1>2. a \in Nat /\ b \in Nat /\ (n' = n + 1 => b = a + MaxOverrun) /\ (n' = n => b = a)
  <2> HIDE DEF n
  <2> QED BY <1>1, OneMoreOverrun
<1>3. value <= Quota + a
    BY DEF OverdrawnByOverrunsOnly, Empty
<1> SUFFICES value' <= Quota + b
    BY DEF OverdrawnByOverrunsOnly, Empty
<1> HIDE DEF a, b
<1>4. ASSUME NEW t \in Threads, Store(t) PROVE value' <= Quota + b
  <2>1. value' <= Quota /\ value' \in Int
      BY <1>4 DEF Locked, TypeOK, ReadIsFresh, Store, At
  <2> QED BY <1>1, <1>2, <2>1
<1>5. ASSUME NEW t \in Threads, StoreBack(t) PROVE value' <= Quota + b
  <2>1. /\ held[t] # 0 /\ held' = [held EXCEPT ![t] = 0] /\ value' = value - diff[t]
        /\ diff[t] \in Int /\ -MaxOverrun <= diff[t]
      BY <1>5, QuotaAssumption DEF Locked, TypeOK, ReadIsFresh, Bookkeeping, StoreBack, At
  <2>2. b = a + MaxOverrun
      BY <1>2, <2>1, SettledIsEmpty
  <2> QED BY <1>1, <1>2, <1>3, <2>1, <2>2
<1>6. ASSUME NEW t \in Threads, CallAdjustExact(t) PROVE value' <= Quota + b
  <2>1. held[t] # 0 /\ held' = [held EXCEPT ![t] = 0] /\ value' = value
      BY <1>6, QuotaAssumption DEF Locked, Bookkeeping, CallAdjustExact, At
  <2>2. b = a + MaxOverrun
      BY <1>2, <2>1, SettledIsEmpty
  <2> QED BY <1>1, <1>2, <1>3, <2>1, <2>2
<1>7. CASE UNCHANGED <<value, spent, held>>
  <2>1. b = a /\ value' = value
      BY <1>2, <1>7 DEF Empty
  <2> QED BY <1>3, <2>1
<1> QED BY <1>4, <1>5, <1>6, <1>7, OtherStepsKeep

\* The quota is overdrawn by overruns only, for any number of threads and however
\* far an adjust may exceed its reservation.
THEOREM OverrunsAreBounded == Spec => []OverdrawnByOverrunsOnly
<1>1. Init => OverdrawnByOverrunsOnly
  <2> DEFINE a == MaxOverrun * Cardinality(Empty)
  <2>1. a \in Nat /\ Quota \in Nat
      BY EmptyIsCounted, OneMoreOverrun, QuotaAssumption
  <2>2. OverdrawnByOverrunsOnly <=> value <= Quota + a
      BY DEF OverdrawnByOverrunsOnly, Empty
  <2> HIDE DEF a
  <2> QED BY <2>1, <2>2 DEF Init
<1> QED BY <1>1, NextWithinQuota, LockedAlways, PTL DEF Spec

-----------------------------------------------------------------------------

\* The store of a granted try_reserve is the ledger's Reserve.
LEMMA StoreReserves ==
    ASSUME Locked, NEW t \in Threads, Store(t)
    PROVE  Ledger!Reserve(t)
<1>1. requested[t] \in 1..MaxRequest /\ held[t] = 0
    BY DEF Locked, Bookkeeping, Store, At
<1>2. loaded[t] = value /\ value + requested[t] <= Quota
    BY DEF Locked, ReadIsFresh, Store, At
<1> QED
    BY <1>1, <1>2 DEF Store, Ledger!Reserve

\* An adjust that finds nothing to correct settles for all that was held.
LEMMA ExactSettles ==
    ASSUME Locked, NEW t \in Threads, CallAdjustExact(t)
    PROVE  Ledger!Settle(t)
<1>1. held[t] \in Nat /\ held[t] > 0
    BY QuotaAssumption DEF Locked, Bookkeeping, CallAdjustExact, At
<1>2. value \in Int
    BY DEF Locked, TypeOK
<1>3. held[t] \in 0..(held[t] + MaxOverrun) /\ value' = value - (held[t] - held[t])
    BY <1>1, <1>2, QuotaAssumption DEF CallAdjustExact
<1> QED
    BY <1>1, <1>3 DEF CallAdjustExact, Ledger!Settle

\* The store of any other adjust gives the unspent part back, or charges what
\* was spent beyond the reservation.
LEMMA StoreBackSettles ==
    ASSUME Locked, NEW t \in Threads, StoreBack(t)
    PROVE  Ledger!Settle(t)
<1>1. held[t] \in Nat /\ held[t] > 0 /\ diff[t] \in (-MaxOverrun)..held[t]
    BY QuotaAssumption DEF Locked, Bookkeeping, StoreBack, At
<1>2. loaded[t] = value /\ value \in Int
    BY DEF Locked, TypeOK, ReadIsFresh, StoreBack, At
<1> DEFINE actual == held[t] - diff[t]
<1>3. actual \in 0..(held[t] + MaxOverrun) /\ held[t] - actual = diff[t]
    BY <1>1, QuotaAssumption
<1>4. value' = value - (held[t] - actual)
    BY <1>2, <1>3 DEF StoreBack
<1> QED
    BY <1>1, <1>3, <1>4 DEF StoreBack, Ledger!Settle

\* Threads that load and store under one lock implement a ledger whose steps
\* are indivisible, for every number of threads.
THEOREM CounterImplementsLedger == Spec => ImplementsLedger
<1>1. Init => Ledger!LedgerInit
    BY DEF Init, Ledger!LedgerInit
<1>2. Locked /\ [Next]_vars => [Ledger!LedgerNext]_(Ledger!LedgerVars)
  <2> SUFFICES ASSUME Locked, [Next]_vars
               PROVE  [Ledger!LedgerNext]_(Ledger!LedgerVars)
      OBVIOUS
  <2>1. ASSUME NEW t \in Threads, Running(t)
        PROVE  [Ledger!LedgerNext]_(Ledger!LedgerVars)
    <3>1. CASE Store(t)
        BY <3>1, StoreReserves DEF Ledger!LedgerNext
    <3>2. CASE StoreBack(t)
        BY <3>2, StoreBackSettles DEF Ledger!LedgerNext
    <3>3. CASE ~Store(t) /\ ~StoreBack(t)
        BY <2>1, <3>3 DEF Running, EnterReserve, Check, Load, Return,
               EnterAdjust, LoadBack, LeaveAdjust, Ledger!LedgerVars
    <3> QED
        BY <3>1, <3>2, <3>3
  <2>2. ASSUME NEW t \in Threads, Calling(t)
        PROVE  [Ledger!LedgerNext]_(Ledger!LedgerVars)
    <3>1. CASE CallAdjustExact(t)
        BY <3>1, ExactSettles DEF Ledger!LedgerNext
    <3>2. CASE ~CallAdjustExact(t)
        BY <2>2, <3>2 DEF Calling, CallTryReserve, CallAdjust, Ledger!LedgerVars
    <3> QED
        BY <3>1, <3>2
  <2>3. CASE UNCHANGED vars
      BY <2>3 DEF vars, Ledger!LedgerVars
  <2> QED
      BY <2>1, <2>2, <2>3 DEF Next
<1> QED
    BY <1>1, <1>2, LockedAlways, PTL DEF Spec, ImplementsLedger, Ledger!LedgerSpec

=============================================================================
