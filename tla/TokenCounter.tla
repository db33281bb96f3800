---------------------------- MODULE TokenCounter ----------------------------
(***************************************************************************)
(* class _TokenCounter of src/inference/server.py, used by several threads *)
(* at once: "Atomic counter for tokens generated, safe under concurrent    *)
(* access".  Python switches threads between any two bytecodes, so every   *)
(* read and every write of self._value is a step of its own; only the lock *)
(* keeps them together.                                                    *)
(***************************************************************************)
EXTENDS Integers, FiniteSets, Functions

CONSTANTS
    Threads,     \* the threads that use the counter
    NoThread,    \* the holder of a free lock
    Quota,       \* the quota argument of try_reserve
    MaxRequest,  \* the largest number of tokens requested
    MaxOverrun   \* bound: tokens spent beyond a reservation

ASSUME ThreadsAssumption == IsFiniteSet(Threads) /\ NoThread \notin Threads
ASSUME QuotaAssumption ==
    Quota \in Nat /\ MaxRequest \in Nat \ {0} /\ MaxOverrun \in Nat

VARIABLES
    value,      \* self._value
    lock,       \* the thread in a "with self._lock" block, or NoThread
    pc,         \* where each thread is
    requested,  \* argument of the call of try_reserve in progress
    diff,       \* local variable of adjust
    loaded,     \* self._value as loaded by "+=" or "-="; locals are 0 when dead
    held,       \* what a thread has reserved and not yet adjusted
    spent       \* tokens reported by all finished adjusts

vars == <<value, lock, pc, requested, diff, loaded, held, spent>>

Locations == {"idle", "reserve", "check", "load", "store", "granted",
              "refused", "generating", "adjust", "loadBack", "storeBack",
              "adjusted"}

Init ==
    /\ value = 0 /\ lock = NoThread /\ spent = 0
    /\ pc = [t \in Threads |-> "idle"]
    /\ requested = [t \in Threads |-> 0]
    /\ diff = [t \in Threads |-> 0]
    /\ loaded = [t \in Threads |-> 0]
    /\ held = [t \in Threads |-> 0]

At(t, from, to) == pc[t] = from /\ pc' = [pc EXCEPT ![t] = to]

Acquire(t) == lock = NoThread /\ lock' = t

-----------------------------------------------------------------------------
(* try_reserve                                                             *)

CallTryReserve(t, k) ==
    /\ At(t, "idle", "reserve")
    /\ requested' = [requested EXCEPT ![t] = k]
    /\ UNCHANGED <<value, lock, diff, loaded, held, spent>>

\* Mutation: the lock is taken only after the check.
EnterReserveUnlocked(t) ==
    /\ At(t, "reserve", "check")
    /\ UNCHANGED <<value, lock, requested, diff, loaded, held, spent>>

EnterReserve(t) ==
    /\ At(t, "reserve", "check")
    /\ Acquire(t)
    /\ UNCHANGED <<value, requested, diff, loaded, held, spent>>

\* Mutation: a request that fits exactly is turned away.
RemainingMinusOne(t) == Quota - value - 1

Remaining(t) == Quota - value

Check(t) ==
    /\ \/ requested[t] > Remaining(t) /\ At(t, "check", "refused")
       \/ requested[t] <= Remaining(t) /\ At(t, "check", "load")
    /\ UNCHANGED <<value, lock, requested, diff, loaded, held, spent>>

Load(t) ==
    /\ At(t, "load", "store")
    /\ loaded' = [loaded EXCEPT ![t] = value]
    /\ UNCHANGED <<value, lock, requested, diff, held, spent>>

Store(t) ==
    /\ At(t, "store", "granted")
    /\ value' = loaded[t] + requested[t]
    /\ held' = [held EXCEPT ![t] = requested[t]]
    /\ loaded' = [loaded EXCEPT ![t] = 0]
    /\ UNCHANGED <<lock, requested, diff, spent>>

\* Mutation: a refused request waits for quota inside the "with" block.
ReturnOrRetry(t) ==
    /\ \/ At(t, "granted", "generating") /\ lock' = NoThread
                                         /\ requested' = [requested EXCEPT ![t] = 0]
       \/ At(t, "refused", "check") /\ UNCHANGED <<lock, requested>>
    /\ UNCHANGED <<value, diff, loaded, held, spent>>

\* The "with" block ends, on a return of (True, _) or of (False, _).
Return(t) ==
    /\ At(t, "granted", "generating") \/ At(t, "refused", "idle")
    /\ lock' = NoThread
    /\ requested' = [requested EXCEPT ![t] = 0]
    /\ UNCHANGED <<value, diff, loaded, held, spent>>

-----------------------------------------------------------------------------
(* adjust                                                                  *)

\* Nothing to correct when all reserved tokens were spent: no lock is taken.
CallAdjustExact(t) ==
    /\ At(t, "generating", "idle")
    /\ held' = [held EXCEPT ![t] = 0]
    /\ spent' = spent + held[t]
    /\ UNCHANGED <<value, lock, requested, diff, loaded>>

\* Mutation: the operands of diff are swapped.
CallAdjustSwapped(t, actual) ==
    /\ actual # held[t]
    /\ At(t, "generating", "adjust")
    /\ diff' = [diff EXCEPT ![t] = actual - held[t]]
    /\ UNCHANGED <<value, lock, requested, loaded, held, spent>>

\* Too much was reserved, or too little: diff is negative then.
CallAdjust(t, actual) ==
    /\ actual # held[t]
    /\ At(t, "generating", "adjust")
    /\ diff' = [diff EXCEPT ![t] = held[t] - actual]
    /\ UNCHANGED <<value, lock, requested, loaded, held, spent>>

\* Mutation: adjust does without the lock.
EnterAdjustUnlocked(t) ==
    /\ At(t, "adjust", "loadBack")
    /\ UNCHANGED <<value, lock, requested, diff, loaded, held, spent>>

EnterAdjust(t) ==
    /\ At(t, "adjust", "loadBack")
    /\ Acquire(t)
    /\ UNCHANGED <<value, requested, diff, loaded, held, spent>>

LoadBack(t) ==
    /\ At(t, "loadBack", "storeBack")
    /\ loaded' = [loaded EXCEPT ![t] = value]
    /\ UNCHANGED <<value, lock, requested, diff, held, spent>>

StoreBack(t) ==
    /\ At(t, "storeBack", "adjusted")
    /\ value' = loaded[t] - diff[t]
    /\ held' = [held EXCEPT ![t] = 0]
    /\ spent' = spent + (held[t] - diff[t])
    /\ diff' = [diff EXCEPT ![t] = 0]
    /\ loaded' = [loaded EXCEPT ![t] = 0]
    /\ UNCHANGED <<lock, requested>>

LeaveAdjust(t) ==
    /\ At(t, "adjusted", "idle")
    /\ lock' = NoThread
    /\ UNCHANGED <<value, requested, diff, loaded, held, spent>>

-----------------------------------------------------------------------------

\* What a thread does inside a call.
Running(t) ==
    \/ EnterReserve(t) \/ Check(t) \/ Load(t) \/ Store(t) \/ Return(t)
    \/ EnterAdjust(t) \/ LoadBack(t) \/ StoreBack(t) \/ LeaveAdjust(t)

Calling(t) ==
    \/ \E k \in 1..MaxRequest : CallTryReserve(t, k)
    \/ CallAdjustExact(t)
    \/ \E actual \in 0..(held[t] + MaxOverrun) : CallAdjust(t, actual)

Next == \E t \in Threads : Running(t) \/ Calling(t)

Spec == Init /\ [][Next]_vars

\* A thread that can run runs.  Nothing is assumed of who gets the lock next.
FairSpec == Spec /\ \A t \in Threads : WF_vars(Running(t))

-----------------------------------------------------------------------------

TypeOK ==
    /\ value \in Int /\ spent \in Int
    /\ lock \in Threads \cup {NoThread}
    /\ pc \in [Threads -> Locations]
    /\ requested \in [Threads -> 0..MaxRequest]
    /\ diff \in [Threads -> (-MaxOverrun)..MaxRequest]
    /\ loaded \in [Threads -> Int]
    /\ held \in [Threads -> 0..MaxRequest]

\* The counter is at all times exactly what was spent plus what is
\* still reserved: no update is lost and no reservation leaks, whatever the
\* interleaving.
Conserved ==
    value = spent + SumFunction(held)

\* A refusal is right: a thread that leaves with (False, _) asked for more
\* than the quota leaves, counting every reservation as spent.
RefusalJustified ==
    \A t \in Threads :
        pc[t] = "refused" => value + requested[t] > Quota

\* Nobody keeps the lock: whoever has it gives it back, on every path.
LockIsReleased == \A t \in Threads : (lock = t) ~> (lock # t)

Ledger == INSTANCE QuotaLedger WITH Clients <- Threads

\* Seen from outside, every try_reserve and every adjust is one indivisible
\* step of the quota ledger, at its store.
ImplementsLedger == Ledger!LedgerSpec

\* Reservations never overdraw the quota: two threads never both get the last of
\* it.  Only what adjust finds to have been spent beyond them does, and at most by
\* one overrun of each thread that has nothing reserved, however long this goes
\* on: to overrun again a thread has to reserve, which takes a count within the
\* quota.
OverdrawnByOverrunsOnly ==
    value <= Quota + MaxOverrun * Cardinality({t \in Threads : held[t] = 0})

=============================================================================
