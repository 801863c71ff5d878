------------------------------- MODULE Escrow -------------------------------
(***************************************************************************)
(* What the platform promises about the money of one order, whatever its   *)
(* orders, disputes and workers do: the agreed price is collected once,    *)
(* the student gets back at most what was collected, and the expert is     *)
(* paid at most once and at most the credit booked with the charge.        *)
(***************************************************************************)
EXTENDS Integers

CONSTANTS Price, Credit

VARIABLES
    collected,  \* charged to the student
    returned,   \* refunded to the student
    paidOut,    \* transferred to the expert
    settled     \* has the expert's payout been executed?

escrowVars == <<collected, returned, paidOut, settled>>

EscrowInit == collected = 0 /\ returned = 0 /\ paidOut = 0 /\ settled = FALSE

Collect ==
    /\ collected = 0
    /\ collected' = Price
    /\ UNCHANGED <<returned, paidOut, settled>>

Return ==
    /\ returned' \in returned + 1 .. collected
    /\ UNCHANGED <<collected, paidOut, settled>>

PayOut ==
    /\ collected = Price
    /\ ~settled
    /\ paidOut' \in 0 .. Credit
    /\ settled' = TRUE
    /\ UNCHANGED <<collected, returned>>

EscrowNext == Collect \/ Return \/ PayOut

EscrowSpec == EscrowInit /\ [][EscrowNext]_escrowVars
=============================================================================
