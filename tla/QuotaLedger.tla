----------------------------- MODULE QuotaLedger -----------------------------
(***************************************************************************)
(* What a token quota promises: clients take reservations out of a quota   *)
(* and later replace each by what was really spent, every one of the two   *)
(* in one indivisible step.  What was spent may be more than was reserved: *)
(* it is charged all the same.  The token counter and the inference server *)
(* are shown to implement this.                                            *)
(***************************************************************************)
EXTENDS Integers

CONSTANTS
    Clients,     \* who may hold a reservation, one at a time
    Quota,       \* TOKEN_QUOTA
    MaxRequest,  \* the largest reservation
    MaxOverrun   \* how much more than its reservation a client may spend

VARIABLES
    value,  \* tokens spent or reserved
    held    \* Clients -> the reservation a client holds, 0 for none

LedgerVars == <<value, held>>

LedgerInit == value = 0 /\ held = [c \in Clients |-> 0]

\* A reservation is granted only when it fits.
Reserve(c) ==
    /\ held[c] = 0
    /\ \E k \in 1..MaxRequest :
          /\ value + k <= Quota
          /\ value' = value + k
          /\ held' = [held EXCEPT ![c] = k]

\* What was spent takes the place of the reservation.
Settle(c) ==
    /\ held[c] > 0
    /\ \E actual \in 0..(held[c] + MaxOverrun) : value' = value - (held[c] - actual)
    /\ held' = [held EXCEPT ![c] = 0]

LedgerNext == \E c \in Clients : Reserve(c) \/ Settle(c)

\* The ledger of a process that is gone is forgotten, reservations and all.
Reset == value' = 0 /\ held' = [c \in Clients |-> 0]

LedgerSpec == LedgerInit /\ [][LedgerNext]_LedgerVars

\* A ledger that its keeper may forget.
RestartedLedgerSpec == LedgerInit /\ [][LedgerNext \/ Reset]_LedgerVars

=============================================================================
