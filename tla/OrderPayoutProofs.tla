------------------------- MODULE OrderPayoutProofs -------------------------
(***************************************************************************)
(* What the payouts of an order rest on and what they add up to, for every *)
(* instance: exactly the earnings when one worker runs payout_sweeper, and *)
(* at most the booked credit per worker when any number does; from the     *)
(* first, that the order's rows implement the escrow.  Then, for disputes  *)
(* that one member of staff resolves: the deliveries follow the revision   *)
(* counter and stay timed, a resolution is final, and refunds are shared   *)
(* as the money was booked.                                                *)
(***************************************************************************)
EXTENDS OrderBooksProofs, FiniteSetTheorems

-----------------------------------------------------------------------------
(* Which orders have a payout.                                             *)

\* A payout exists, or a sweeper is on the way to one.
Settling == payouts # <<>> \/ \E w \in Sweepers : sweep[w].at # "idle"

\* The order was completed, and only disputed or cancelled since.
Finished ==
    \/ order.status \in {"completed", "cancelled"}
    \/ order.status = "disputed" /\ dispute.prior = "completed"

LEMMA NeedsCompletionIs == PayoutNeedsCompletion <=> (Settling => Finished)
  BY DEF PayoutNeedsCompletion, Settling, Finished

\* Where a resolution can send the order.
LEMMA ResolveTargets ==
    ASSUME TypeOK, MoneyInv, NEW s \in Staff, Resolve(s)
    PROVE  \E to \in {"cancelled", "completed", dispute.prior} :
              /\ to # "disputed"
              /\ to = order.status \/ CanMove(order.status, to)
              /\ order'.status = to /\ order'.paid = order.paid
              /\ dispute'.prior = dispute.prior
              /\ UNCHANGED <<sweep, dueBatch>>
  <1>1. \E to \in {"cancelled", "completed", dispute.prior} : ResolveTo(s, to)
    BY DEF Resolve, RefundInFull, RefundInPart, ReleaseToExpert, CloseNoFault
  <1>2. PICK to \in {"cancelled", "completed", dispute.prior} : ResolveTo(s, to)
    BY <1>1
  <1>3. to # "disputed"
    BY <1>2 DEF MoneyInv, CaseRecords, None
  <1> QED BY <1>2, <1>3, ResolveToBooks DEF ResolveTo

\* No step takes a finished order anywhere else.
LEMMA FinishedStays ==
    ASSUME TypeOK, MoneyInv, Finished, Next
    PROVE  Finished'
  <1> USE DEF rows, sessions
  <1>1. CASE PaymentsNext
    <2>1. CASE ConfirmPayment
      BY <2>1 DEF ConfirmPayment, Confirmable, Finished
    <2>2. CASE ~ConfirmPayment
      <3>1. UNCHANGED <<order, dispute>>
        BY <1>1, <2>2
        DEF PaymentsNext, ReadOrderToPay, StartPayment, RearmPayment, ConfirmFails,
            FailHookReads, FailHookSaves, AdminFullRefund, SweepLists, SweepChecks,
            SweepCreates, SettlePayout, FailPayout
      <3> QED BY <3>1 DEF Finished
    <2> QED BY <2>1, <2>2
  <1>2. CASE OrdersNext
    <2>1. CASE SubmitDelivery \/ RequestRevision \/ ApproveDelivery \/ SweepUnpaid
      BY <2>1 DEF SubmitDelivery, RequestRevision, ApproveDelivery, ApproveRows,
                  SweepUnpaid, Finished
    <2>2. CASE AutoApproveReads \/ AutoApprove \/ CancelRequest
      BY <2>2 DEF AutoApproveReads, AutoApprove, ApproveRows, CancelRequest, Finished
    <2>3. CASE Cancel \/ TimerElapses \/ DisputeWindowCloses
      BY <2>3 DEF Cancel, TimerElapses, DisputeWindowCloses, Finished, TypeOK, OrderRow
    <2> QED BY <1>2, <2>1, <2>2, <2>3 DEF OrdersNext
  <1>3. CASE DisputesNext
    <2>1. CASE OpenDispute
      BY <2>1 DEF OpenDispute, Frozen, Finished, TypeOK, OrderRow
    <2>2. ASSUME NEW s \in Staff, NEW to, ReadCase(s) \/ MoveCase(s, to)
          PROVE  Finished'
      BY <2>2 DEF ReadCase, MoveCase, Finished, TypeOK, DisputeRow
    <2>3. ASSUME NEW s \in Staff, Resolve(s)
          PROVE  Finished'
      <3>1. PICK to \in {"cancelled", "completed", dispute.prior} :
              /\ to # "disputed"
              /\ to = order.status \/ CanMove(order.status, to)
              /\ order'.status = to
              /\ dispute'.prior = dispute.prior
        BY <2>3, ResolveTargets
      <3>2. to \in {"cancelled", "completed"}
        BY <3>1 DEF Finished, CanMove, TRANSITIONS
      <3> QED BY <3>1, <3>2 DEF Finished
    <2> QED BY <1>3, <2>1, <2>2, <2>3 DEF DisputesNext, CloseCase
  <1> QED BY <1>1, <1>2, <1>3 DEF Next

\* What a resolution does to the list of payouts: never its length.
LEMMA SameLength ==
    ASSUME TypeOK
    PROVE  /\ Len(VoidedPayouts) = Len(payouts)
           /\ DOMAIN VoidedPayouts = DOMAIN payouts
           /\ \A c : /\ Len(CorrectedPayouts(c)) = Len(payouts)
                     /\ DOMAIN CorrectedPayouts(c) = DOMAIN payouts
  <1>1. payouts \in Seq(PayoutRow) /\ Len(payouts) \in Nat /\ DOMAIN payouts = 1 .. Len(payouts)
    BY DEF TypeOK
  <1>2. DOMAIN VoidedPayouts = 1 .. Len(payouts)
    BY <1>1 DEF VoidedPayouts
  <1>3. \A c : DOMAIN CorrectedPayouts(c) = 1 .. Len(payouts)
    BY <1>1 DEF CorrectedPayouts
  <1>4. VoidedPayouts \in Seq(PayoutRow)
    BY ResolvedPayoutTypes
  <1>5. Len(VoidedPayouts) = Len(payouts)
    BY <1>1, <1>2, <1>4
  <1>6. ASSUME NEW c PROVE Len(CorrectedPayouts(c)) = Len(payouts)
    BY <1>1, <1>3
  <1> QED BY <1>1, <1>2, <1>3, <1>5, <1>6

\* Payouts begin with a completed order: listed by the sweeper, or approved.
LEMMA SettlingStarts ==
    ASSUME TypeOK, MoneyInv, ~Settling, Next, Settling'
    PROVE  order'.status = "completed"
  <1> USE DEF rows, sessions
  <1>1. payouts = <<>> /\ DOMAIN payouts = {} /\ \A w \in Sweepers : sweep[w].at = "idle"
    BY DEF Settling
  <1>2. SUFFICES ASSUME UNCHANGED <<payouts, sweep>> PROVE FALSE
    <2>1. ASSUME NEW w \in Sweepers, SweepLists(w)
          PROVE  order'.status = "completed"
      BY <2>1 DEF SweepLists, Eligible
    <2>2. ASSUME ApproveRows
          PROVE  order'.status = "completed"
      BY <2>2 DEF ApproveRows, TypeOK, OrderRow
    <2>3. CASE PaymentsNext
      BY <1>1, <1>2, <2>1, <2>3
      DEF PaymentsNext, ReadOrderToPay, StartPayment, RearmPayment, ConfirmPayment,
          ConfirmFails, FailHookReads, FailHookSaves, AdminFullRefund, SweepChecks,
          SweepCreates
    <2>4. CASE OrdersNext
      BY <1>2, <2>2, <2>4
      DEF OrdersNext, SubmitDelivery, RequestRevision, ApproveDelivery, AutoApproveReads,
          AutoApprove, Cancel, SweepUnpaid, CancelRequest, TimerElapses,
          DisputeWindowCloses
    <2>5. CASE DisputesNext
      <3>1. ASSUME NEW s \in Staff, Resolve(s)
            PROVE  UNCHANGED <<payouts, sweep>>
        <4>1. VoidedPayouts = payouts /\ \A c : CorrectedPayouts(c) = payouts
          BY <1>1 DEF VoidedPayouts, CorrectedPayouts
        <4>2. UNCHANGED payouts
          BY <3>1, <4>1
          DEF Resolve, RefundInFull, RefundInPart, ReleaseToExpert, CloseNoFault
        <4> QED BY <3>1, <4>2, ResolveTargets
      <3>2. UNCHANGED <<payouts, sweep>>
        BY <2>5, <3>1 DEF DisputesNext, OpenDispute, ReadCase, MoveCase, CloseCase
      <3> QED BY <1>2, <3>2
    <2> QED BY <2>3, <2>4, <2>5 DEF Next
  <1>3. Settling' <=> Settling
    BY <1>2 DEF Settling
  <1> QED BY <1>3

LEMMA NeedsCompletionStep ==
    TypeOK /\ MoneyInv /\ PayoutNeedsCompletion /\ [Next]_vars => PayoutNeedsCompletion'
  <1> SUFFICES ASSUME TypeOK, MoneyInv, PayoutNeedsCompletion, [Next]_vars, Settling'
               PROVE  Finished'
    BY DEF PayoutNeedsCompletion, Settling, Finished
  <1>1. CASE UNCHANGED vars
    BY <1>1, NeedsCompletionIs DEF vars, rows, sessions, Settling, Finished
  <1>2. CASE Next /\ Settling
    BY <1>2, FinishedStays, NeedsCompletionIs
  <1>3. CASE Next /\ ~Settling
    BY <1>3, SettlingStarts DEF Finished
  <1> QED BY <1>1, <1>2, <1>3

\* Approval, the sweeper and the dispute desk create payouts for completed orders
\* only, and none of them lets such an order go back to work, whatever had been
\* read before.  True for any number of workers and support accounts.
THEOREM PayoutsFollowCompletion == Spec => []PayoutNeedsCompletion
  <1>1. Init => PayoutNeedsCompletion
    BY DEF Init, PayoutNeedsCompletion
  <1> QED BY <1>1, NeedsCompletionStep, TypeCorrect, MoneyIsInvariant, PTL DEF Spec

-----------------------------------------------------------------------------
(* One worker.  Two sweepers can each find no payout and insert one, as the *)
(* run two_sweepers shows: what follows assumes that one process at a time  *)
(* runs the job, and any number of support accounts.                        *)

OneSweeper == \A v, w \in Sweepers : v = w

\* What was transferred, as far as the only payout of the order says.
Transferred ==
    IF payouts # <<>> /\ payouts[1].status = "paid" THEN payouts[1].amount ELSE 0

\* Why there is one payout and what it can be worth: a sweeper that found none
\* is alone in inserting it, no row or sweeper holds more than was booked, and
\* the ledger shows the transfer of the row that is paid.
PayoutBooks ==
    /\ Settling => order.paid
    /\ ledger.expert_credit <= BookedCredit
    /\ \A w \in Sweepers : sweep[w].at = "checked" =>
          payouts = <<>> /\ sweep[w].amount <= BookedCredit
    /\ \A i \in DOMAIN payouts : payouts[i].amount <= BookedCredit
    /\ ledger.payout + Transferred = 0

PayoutInv == SinglePayout /\ PayoutBooks

\* Steps that leave payouts and sweepers alone.
LEMMA PayoutsKept ==
    ASSUME PayoutInv, UNCHANGED <<payouts, sweep>>, order.paid => order'.paid,
           ledger'.payout = ledger.payout, ledger'.expert_credit <= BookedCredit
    PROVE  PayoutInv'
  BY DEF PayoutInv, SinglePayout, PayoutBooks, Settling, Transferred

\* Steps that leave one row, and the transfer the ledger shows for it.
LEMMA OneRow ==
    ASSUME NEW p \in PayoutRow, payouts' = <<p>>, order'.paid,
           \A w \in Sweepers : sweep'[w].at # "checked",
           p.amount <= BookedCredit, ledger'.expert_credit <= BookedCredit,
           ledger'.payout + (IF p.status = "paid" THEN p.amount ELSE 0) = 0
    PROVE  PayoutInv'
  <1>1. Len(payouts') = 1 /\ payouts'[1] = p /\ payouts' # <<>> /\ DOMAIN payouts' = {1}
    OBVIOUS
  <1>2. Transferred' = IF p.status = "paid" THEN p.amount ELSE 0
    BY <1>1 DEF Transferred
  <1>3. ledger'.payout + Transferred' = 0
    BY <1>2
  <1> QED BY <1>1, <1>3 DEF PayoutInv, SinglePayout, PayoutBooks

\* Without a paid row the ledger shows no transfer.
LEMMA NothingTransferred ==
    ASSUME TypeOK, PayoutBooks, payouts = <<>> \/ payouts[1].status # "paid"
    PROVE  ledger.payout = 0
  <1>1. Transferred = 0
    BY DEF Transferred
  <1> HIDE DEF Transferred
  <1> QED BY <1>1, Fields DEF PayoutBooks

\* There is no payout, or one row.
LEMMA NoneOrOne ==
    ASSUME TypeOK, SinglePayout
    PROVE  \/ payouts = <<>>
           \/ \E p \in PayoutRow : payouts = <<p>>
  <1>1. payouts \in Seq(PayoutRow) /\ Len(payouts) \in {0, 1}
    <2>1. payouts \in Seq(PayoutRow)
      BY DEF TypeOK
    <2>2. Len(payouts) \in Nat
      BY <2>1
    <2>3. Len(payouts) <= 1
      BY DEF SinglePayout
    <2> QED BY <2>1, <2>2, <2>3
  <1>2. CASE Len(payouts) = 0
    BY <1>1, <1>2
  <1>3. CASE Len(payouts) = 1
    <2>1. payouts[1] \in PayoutRow /\ payouts = <<payouts[1]>>
      BY <1>1, <1>3
    <2> QED BY <2>1
  <1> QED BY <1>1, <1>2, <1>3

\* A refund takes credit back, never more than it gives to the student.
LEMMA CreditShrinks ==
    ASSUME TypeOK, NEW a \in Int, RefundAllowed(a), ledger' = RefundedLedger(a)
    PROVE  /\ ledger'.expert_credit = ledger.expert_credit - ReversedCredit(a)
           /\ ReversedCredit(a) \in Nat
           /\ ledger'.expert_credit <= ledger.expert_credit
           /\ ledger'.payout = ledger.payout
  <1>1. /\ ledger'.expert_credit = ledger.expert_credit - ReversedCredit(a)
        /\ ledger'.payout = ledger.payout
    BY DEF RefundedLedger, TypeOK, LedgerSums
  <1>2. a \in Nat
    BY DEF RefundAllowed
  <1>3. ReversedCredit(a) \in Nat
    BY <1>2, ReversedParts
  <1> QED BY <1>1, <1>3, Fields

LEMMA PayoutsOfPayments ==
    ASSUME TypeOK, MoneyInv, PayoutInv, OneSweeper, PaymentsNext
    PROVE  PayoutInv'
  <1> USE DEF rows, sessions
  <1>1. ledger.expert_credit <= BookedCredit
    BY DEF PayoutInv, PayoutBooks
  <1>2. CASE ReadOrderToPay \/ StartPayment \/ RearmPayment \/ ConfirmFails
             \/ FailHookReads \/ FailHookSaves
    BY <1>1, <1>2, PayoutsKept
    DEF ReadOrderToPay, StartPayment, RearmPayment, ConfirmFails, FailHookReads,
        FailHookSaves
  <1>3. CASE ConfirmPayment
    <2>1. /\ order'.paid /\ UNCHANGED <<payouts, sweep>>
          /\ ledger'.payout = ledger.payout
          /\ ledger'.expert_credit = ledger.expert_credit + BookedCredit
      BY <1>3 DEF ConfirmPayment, TypeOK, OrderRow, LedgerSums
    <2>2. ledger.expert_credit = 0
      BY <1>3 DEF ConfirmPayment, MoneyInv, RefundHistory
    <2> QED BY <2>1, <2>2, BookedParts, PayoutsKept
  <1>4. CASE AdminFullRefund
    <2>1. /\ Refundable \in Int /\ RefundAllowed(Refundable)
          /\ ledger' = RefundedLedger(Refundable)
          /\ UNCHANGED <<order, payouts, sweep>>
      BY <1>4, Fields DEF AdminFullRefund, Refundable
    <2>2. ledger'.expert_credit <= BookedCredit /\ ledger'.payout = ledger.payout
      BY <1>1, <2>1, CreditShrinks, Fields, BookedParts
    <2> QED BY <2>1, <2>2, PayoutsKept
  <1>5. ASSUME NEW w \in Sweepers, SweepLists(w)
        PROVE  PayoutInv'
    <2>1. order.paid
      BY <1>5 DEF SweepLists, Eligible, MoneyInv, ChargedOnce, Working
    <2>2. \A v \in Sweepers : sweep'[v].at = "checked" => sweep'[v] = sweep[v]
      BY <1>5 DEF SweepLists, TypeOK
    <2> QED BY <1>5, <2>1, <2>2
            DEF SweepLists, PayoutInv, SinglePayout, PayoutBooks, Transferred
  <1>6. ASSUME NEW w \in Sweepers, SweepChecks(w)
        PROVE  PayoutInv'
    <2>1. order.paid /\ UNCHANGED <<order, payouts, ledger>>
      BY <1>6 DEF SweepChecks, PayoutInv, PayoutBooks, Settling
    <2>2. \A v \in Sweepers : sweep'[v].at = "checked" =>
             payouts = <<>> /\ sweep'[v].amount <= BookedCredit
      BY <1>1, <1>6 DEF SweepChecks, TypeOK, PayoutInv, PayoutBooks
    <2> QED BY <2>1, <2>2 DEF PayoutInv, SinglePayout, PayoutBooks, Transferred
  <1>7. ASSUME NEW w \in Sweepers, SweepCreates(w)
        PROVE  PayoutInv'
    <2> DEFINE p == NewPayout(sweep[w].amount)
    <2>1. /\ payouts = <<>> /\ sweep[w].amount <= BookedCredit
          /\ order.paid /\ UNCHANGED <<order, ledger>>
      BY <1>7 DEF SweepCreates, PayoutInv, PayoutBooks, Settling
    <2>2. payouts' = <<p>>
      BY <1>7, <2>1 DEF SweepCreates
    <2>3. p \in PayoutRow /\ p.status # "paid" /\ p.amount = sweep[w].amount
      BY DEF NewPayout, PayoutRow, PayoutStatus, TypeOK, SweepTask
    <2>4. \A v \in Sweepers : sweep'[v].at # "checked"
      BY <1>7 DEF OneSweeper, SweepCreates, TypeOK
    <2>5. ledger.payout = 0
      BY <2>1, NothingTransferred DEF PayoutInv
    <2> HIDE DEF p
    <2> QED BY <1>1, <2>1, <2>2, <2>3, <2>4, <2>5, OneRow
  <1>8. ASSUME NEW i \in DOMAIN payouts, SettlePayout(i) \/ FailPayout(i)
        PROVE  PayoutInv'
    <2>1. PICK p \in PayoutRow : payouts = <<p>>
      BY NoneOrOne DEF PayoutInv
    <2>2. /\ i = 1 /\ payouts[1] = p /\ payouts # <<>>
          /\ p.amount \in Int /\ p.amount <= BookedCredit
      BY <2>1, PayoutFields DEF PayoutInv, PayoutBooks
    <2>3. /\ order.paid /\ UNCHANGED <<order, sweep>>
          /\ \A v \in Sweepers : sweep[v].at # "checked"
      BY <1>8, <2>2 DEF SettlePayout, FailPayout, PayoutInv, PayoutBooks, Settling
    <2>4. p.status # "paid"
      BY <1>8, <2>2 DEF SettlePayout, FailPayout
    <2>5. ledger.payout = 0
      BY <2>2, <2>4, NothingTransferred DEF PayoutInv
    <2>6. CASE SettlePayout(i)
      <3> DEFINE q == [p EXCEPT !.status = "paid"]
      <3>1. q \in PayoutRow /\ q.status = "paid" /\ q.amount = p.amount
        BY DEF PayoutRow, PayoutStatus
      <3>2. payouts' = <<q>>
        BY <2>1, <2>2, <2>6 DEF SettlePayout
      <3>3. /\ ledger'.payout + p.amount = 0
            /\ ledger'.expert_credit = ledger.expert_credit
        BY <2>2, <2>5, <2>6 DEF SettlePayout, TypeOK, LedgerSums
      <3> HIDE DEF q
      <3> QED BY <1>1, <2>2, <2>3, <3>1, <3>2, <3>3, OneRow
    <2>7. CASE FailPayout(i)
      <3> DEFINE q == [p EXCEPT !.status = "failed"]
      <3>1. q \in PayoutRow /\ q.status = "failed" /\ q.amount = p.amount
        BY DEF PayoutRow, PayoutStatus
      <3>2. payouts' = <<q>> /\ UNCHANGED ledger
        BY <2>1, <2>2, <2>7 DEF FailPayout
      <3> HIDE DEF q
      <3> QED BY <1>1, <2>2, <2>3, <2>5, <3>1, <3>2, OneRow
    <2> QED BY <1>8, <2>6, <2>7
  <1> QED BY <1>2, <1>3, <1>4, <1>5, <1>6, <1>7, <1>8 DEF PaymentsNext

LEMMA PayoutsOfOrders ==
    ASSUME TypeOK, MoneyInv, PayoutNeedsCompletion, PayoutInv, OrdersNext
    PROVE  PayoutInv'
  <1> USE DEF rows, sessions
  <1>1. ledger.expert_credit <= BookedCredit
    BY DEF PayoutInv, PayoutBooks
  <1>2. ASSUME ApproveRows, UNCHANGED sweep
        PROVE  PayoutInv'
    <2>1. order.paid /\ order'.paid /\ UNCHANGED ledger
      BY <1>2 DEF ApproveRows, MoneyInv, ChargedOnce, Working, TypeOK, OrderRow
    <2>2. payouts = <<>> /\ \A w \in Sweepers : sweep[w].at = "idle"
      BY <1>2, NeedsCompletionIs DEF ApproveRows, Finished, Settling
    <2>3. CASE payouts' = payouts
      BY <1>1, <1>2, <2>1, <2>3, PayoutsKept
    <2>4. CASE payouts' # payouts
      <3> DEFINE p == NewPayout(ledger.expert_credit)
      <3>1. payouts' = <<p>>
        BY <1>2, <2>2, <2>4 DEF ApproveRows, ScheduledPayouts
      <3>2. p \in PayoutRow /\ p.status # "paid" /\ p.amount = ledger.expert_credit
        BY Fields DEF NewPayout, PayoutRow, PayoutStatus
      <3>3. ledger.payout = 0
        BY <2>2, NothingTransferred DEF PayoutInv
      <3> HIDE DEF p
      <3> QED BY <1>1, <1>2, <2>1, <2>2, <3>1, <3>2, <3>3, OneRow
    <2> QED BY <2>3, <2>4
  <1>3. CASE ApproveDelivery
    BY <1>2, <1>3 DEF ApproveDelivery
  <1>4. CASE AutoApprove
    <2>1. CASE UNCHANGED rows
      BY <1>1, <1>4, <2>1, PayoutsKept DEF AutoApprove
    <2> QED BY <1>2, <1>4, <2>1 DEF AutoApprove
  <1>5. CASE SubmitDelivery \/ RequestRevision \/ AutoApproveReads \/ CancelRequest
    BY <1>1, <1>5, PayoutsKept
    DEF SubmitDelivery, Delivered, RequestRevision, AutoApproveReads, CancelRequest,
        TypeOK, OrderRow
  <1>6. CASE Cancel \/ SweepUnpaid \/ TimerElapses \/ DisputeWindowCloses
    BY <1>1, <1>6, PayoutsKept
    DEF Cancel, SweepUnpaid, TimerElapses, DisputeWindowCloses, TypeOK, OrderRow
  <1> QED BY <1>3, <1>4, <1>5, <1>6 DEF OrdersNext

\* The one row a resolution touches: voided or corrected unless it is paid.
LEMMA ResolvedRow ==
    ASSUME NEW p \in PayoutRow, payouts = <<p>>
    PROVE  /\ VoidedPayouts = IF p.status = "paid" THEN payouts
                              ELSE <<[p EXCEPT !.status = "failed"]>>
           /\ \A c : CorrectedPayouts(c) = IF p.status = "paid" THEN payouts
                                           ELSE <<[p EXCEPT !.amount = c]>>
  <1>1. payouts[1] = p /\ DOMAIN payouts = {1}
    OBVIOUS
  <1>2. FirstUnpaid(1) <=> p.status # "paid"
    BY <1>1 DEF FirstUnpaid
  <1>3. CASE p.status = "paid"
    BY <1>1, <1>2, <1>3 DEF VoidedPayouts, CorrectedPayouts
  <1>4. CASE p.status # "paid"
    BY <1>1, <1>2, <1>4 DEF VoidedPayouts, CorrectedPayouts
  <1> QED BY <1>3, <1>4

LEMMA NoRow ==
    ASSUME payouts = <<>>
    PROVE  VoidedPayouts = payouts /\ \A c : CorrectedPayouts(c) = payouts
  BY DEF VoidedPayouts, CorrectedPayouts

\* A refund with what a resolution does to the payout.
LEMMA ResolvedRefund ==
    ASSUME TypeOK, MoneyInv, PayoutInv, NEW a \in Int, RefundAllowed(a),
           ledger' = RefundedLedger(a), order'.paid = order.paid, UNCHANGED sweep,
           payouts' \in {VoidedPayouts, CorrectedPayouts(ledger'.expert_credit)}
    PROVE  PayoutInv'
  <1> DEFINE c == ledger'.expert_credit
  <1>1. c \in Int /\ c <= BookedCredit /\ ledger'.payout = ledger.payout
    <2>1. ledger.expert_credit <= BookedCredit
      BY DEF PayoutInv, PayoutBooks
    <2> QED BY <2>1, CreditShrinks, Fields, BookedParts
  <1>2. CASE payouts' = payouts
    BY <1>1, <1>2, PayoutsKept
  <1>3. CASE payouts' # payouts
    <2>1. PICK p \in PayoutRow : payouts = <<p>>
      BY <1>3, NoneOrOne, NoRow DEF PayoutInv
    <2>2. /\ payouts[1] = p /\ payouts # <<>> /\ DOMAIN payouts = {1}
          /\ p.amount \in Int /\ p.amount <= BookedCredit
      BY <2>1, PayoutFields DEF PayoutInv, PayoutBooks
    <2>3. p.status # "paid"
      BY <1>3, <2>1, ResolvedRow
    <2>4. ledger.payout = 0
      BY <2>2, <2>3, NothingTransferred DEF PayoutInv
    <2>5. order.paid /\ \A w \in Sweepers : sweep[w].at # "checked"
      BY <2>2 DEF PayoutInv, PayoutBooks, Settling
    <2>6. PICK q : /\ payouts' = <<q>>
                   /\ q \in {[p EXCEPT !.status = "failed"], [p EXCEPT !.amount = c]}
      BY <2>1, <2>3, ResolvedRow
    <2>7. q \in PayoutRow /\ q.status # "paid" /\ q.amount \in {p.amount, c}
      BY <1>1, <2>3, <2>6 DEF PayoutRow, PayoutStatus
    <2> HIDE DEF c
    <2>8. q.amount <= BookedCredit
      BY <1>1, <2>2, <2>7
    <2> QED BY <1>1, <2>4, <2>5, <2>6, <2>7, <2>8, OneRow DEF c
  <1> QED BY <1>2, <1>3

LEMMA PayoutsOfDisputes ==
    ASSUME TypeOK, MoneyInv, PayoutInv, DisputesNext
    PROVE  PayoutInv'
  <1> USE DEF rows, sessions
  <1>1. ledger.expert_credit <= BookedCredit
    BY DEF PayoutInv, PayoutBooks
  <1>2. ASSUME NEW s \in Staff, Resolve(s)
        PROVE  PayoutInv'
    <2>1. order'.paid = order.paid /\ UNCHANGED sweep
      BY <1>2, ResolveTargets
    <2>2. CASE RefundInFull(s)
      BY <2>1, <2>2, Fields, ResolvedRefund DEF RefundInFull, Refundable
    <2>3. ASSUME NEW a \in 1 .. Amount, RefundInPart(s, a)
          PROVE  PayoutInv'
      BY <2>1, <2>3, ResolvedRefund DEF RefundInPart
    <2>4. CASE ReleaseToExpert(s) \/ CloseNoFault(s)
      BY <1>1, <2>1, <2>4, PayoutsKept DEF ReleaseToExpert, CloseNoFault
    <2> QED BY <1>2, <2>2, <2>3, <2>4 DEF Resolve
  <1>3. CASE OpenDispute
    BY <1>1, <1>3, PayoutsKept DEF OpenDispute, Frozen, TypeOK, OrderRow
  <1>4. ASSUME NEW s \in Staff, NEW to, ReadCase(s) \/ MoveCase(s, to)
        PROVE  PayoutInv'
    BY <1>1, <1>4, PayoutsKept DEF ReadCase, MoveCase
  <1> QED BY <1>2, <1>3, <1>4 DEF DisputesNext, CloseCase

\* With one sweeper, an order never has more than one payout, none of them is
\* worth more than was booked, and the ledger shows the transfer of the paid one.
THEOREM PayoutsAreBooked == ASSUME OneSweeper PROVE Spec => []PayoutInv
  <1>1. Init => PayoutInv
    BY BookedParts DEF Init, PayoutInv, SinglePayout, PayoutBooks, Settling, Transferred
  <1>2. TypeOK /\ MoneyInv /\ PayoutNeedsCompletion /\ PayoutInv /\ [Next]_vars
          => PayoutInv'
    <2>1. ASSUME PayoutInv, UNCHANGED vars PROVE PayoutInv'
      BY <2>1, PayoutsKept DEF vars, rows, sessions, PayoutInv, PayoutBooks
    <2> QED BY <2>1, PayoutsOfPayments, PayoutsOfOrders, PayoutsOfDisputes DEF Next
  <1> QED BY <1>1, <1>2, TypeCorrect, MoneyIsInvariant, PayoutsFollowCompletion, PTL
          DEF Spec

\* "Create the (single) payout" holds as long as one worker runs the sweeper:
\* approval and a sweep that read the order before it never both create one.
THEOREM OnePayout == ASSUME OneSweeper PROVE Spec => []SinglePayout
  <1>1. PayoutInv => SinglePayout
    BY DEF PayoutInv
  <1> QED BY <1>1, PayoutsAreBooked, PTL

\* The expert never receives more than the credit booked with the charge,
\* however refunds, corrections and settlements follow each other.
THEOREM PaidWithinCredit == ASSUME OneSweeper PROVE Spec => []NeverOverpaid
  <1>1. TypeOK /\ PayoutInv => NeverOverpaid
    <2> SUFFICES ASSUME TypeOK, PayoutInv PROVE NeverOverpaid
      OBVIOUS
    <2>1. CASE Transferred = 0
      <3>1. ledger.payout = 0
        BY <2>1, Fields DEF PayoutInv, PayoutBooks
      <3>2. -ledger.payout <= 0
        BY <3>1
      <3> QED BY <3>2, BookedParts, Fields DEF NeverOverpaid
    <2>2. CASE Transferred # 0
      <3>1. payouts # <<>> /\ Transferred = payouts[1].amount
        BY <2>2 DEF Transferred
      <3>2. PICK p \in PayoutRow : payouts = <<p>>
        BY <3>1, NoneOrOne DEF PayoutInv
      <3>3. order.paid /\ Transferred \in Int /\ Transferred <= BookedCredit
        BY <3>1, <3>2, PayoutFields DEF PayoutInv, PayoutBooks, Settling
      <3>4. ledger.payout + Transferred = 0
        BY DEF PayoutInv, PayoutBooks
      <3>5. -ledger.payout <= BookedCredit
        BY <3>3, <3>4, Fields, BookedParts
      <3> QED BY <3>3, <3>5 DEF NeverOverpaid
    <2> QED BY <2>1, <2>2
  <1> QED BY <1>1, TypeCorrect, PayoutsAreBooked, PTL

-----------------------------------------------------------------------------
(* The sum over the payouts.  FoldLeft is a recursive function of the       *)
(* indexes; with one row at most, its equation can be solved by hand.       *)

PaidStep(iter, q) ==
    [s \in SUBSET DOMAIN q |->
        IF s = {} THEN 0 ELSE iter[s \ {Max(s)}] + PaidAmount(q[Max(s)])]

PaidFold(q) == CHOOSE iter : iter = PaidStep(iter, q)

LEMMA FoldIsPaidFold ==
    ASSUME NEW q
    PROVE  FoldLeft(LAMBDA sum, p : sum + PaidAmount(p), 0, q) = PaidFold(q)[DOMAIN q]
  BY Zenon DEF FoldLeft, MapThenFoldSet, PaidFold, PaidStep

\* Whatever solves the equation of the fold, the fold does.
LEMMA PaidFoldSolves ==
    ASSUME NEW q, NEW f, f = PaidStep(f, q)
    PROVE  PaidFold(q) = PaidStep(PaidFold(q), q)
  BY Zenon DEF PaidFold

LEMMA SumOfNone ==
    ASSUME NEW q, DOMAIN q = {}
    PROVE  PaidFold(q)[DOMAIN q] = 0
  <1> DEFINE f == [s \in SUBSET DOMAIN q |-> 0]
  <1>1. f = PaidStep(f, q)
    BY DEF PaidStep
  <1>2. PaidFold(q) = PaidStep(PaidFold(q), q)
    BY <1>1, PaidFoldSolves
  <1> QED BY <1>2 DEF PaidStep

LEMMA SumOfOne ==
    ASSUME NEW q, DOMAIN q = {1}, PaidAmount(q[1]) \in Int
    PROVE  PaidFold(q)[DOMAIN q] = PaidAmount(q[1])
  <1> DEFINE f == [s \in SUBSET {1} |-> IF s = {} THEN 0 ELSE PaidAmount(q[1])]
  <1>1. Max({1}) = 1 /\ {1} \ {1} = {}
    BY DEF Max
  <1>2. f = PaidStep(f, q)
    <2>1. ASSUME NEW s \in SUBSET {1}
          PROVE  f[s] = IF s = {} THEN 0 ELSE f[s \ {Max(s)}] + PaidAmount(q[Max(s)])
      <3>1. CASE s = {}
        BY <3>1
      <3>2. CASE s = {1}
        <4>1. s \ {Max(s)} = {} /\ q[Max(s)] = q[1]
          BY <3>2, <1>1
        <4>2. f[{}] = 0 /\ f[{1}] = PaidAmount(q[1])
          OBVIOUS
        <4> QED BY <3>2, <4>1, <4>2
      <3> QED BY <3>1, <3>2
    <2> QED BY <2>1 DEF PaidStep
  <1>3. PaidFold(q) = PaidStep(PaidFold(q), q)
    BY <1>2, PaidFoldSolves
  <1>4. PaidFold(q)[{}] = 0
    BY <1>3 DEF PaidStep
  <1>5. PaidFold(q)[{1}] = PaidFold(q)[{1} \ {Max({1})}] + PaidAmount(q[Max({1})])
    BY <1>3 DEF PaidStep
  <1>6. {1} \ {Max({1})} = {} /\ q[Max({1})] = q[1]
    BY <1>1
  <1>7. PaidFold(q)[{1}] = 0 + PaidAmount(q[1])
    BY <1>4, <1>5, <1>6
  <1> QED BY <1>7

\* The payout entries of the ledger add up to the paid rows: no correction, no
\* failure and no second settlement touches a payout after its transfer.
THEOREM LedgerShowsPayouts == ASSUME OneSweeper PROVE Spec => []PayoutsReconcile
  <1>1. TypeOK /\ PayoutInv => PayoutsReconcile
    <2> SUFFICES ASSUME TypeOK, PayoutInv PROVE PayoutsReconcile
      OBVIOUS
    <2>1. PaidFold(payouts)[DOMAIN payouts] = Transferred
      <3>1. CASE payouts = <<>>
        BY <3>1, SumOfNone DEF Transferred
      <3>2. ASSUME NEW p \in PayoutRow, payouts = <<p>>
            PROVE  PaidFold(payouts)[DOMAIN payouts] = Transferred
        <4>1. payouts[1] = p /\ DOMAIN payouts = {1} /\ payouts # <<>>
          BY <3>2
        <4>2. PaidAmount(p) \in Int /\ PaidAmount(p) = Transferred
          BY <4>1, PayoutFields DEF PaidAmount, Transferred
        <4> QED BY <4>1, <4>2, SumOfOne
      <3> QED BY <3>1, <3>2, NoneOrOne DEF PayoutInv
    <2>2. ledger.payout + Transferred = 0 /\ Transferred \in Int
      <3>1. Transferred \in Int
        BY NoneOrOne, PayoutFields DEF PayoutInv, Transferred
      <3> QED BY <3>1 DEF PayoutInv, PayoutBooks
    <2> HIDE DEF Transferred
    <2>3. ledger.payout = -Transferred
      BY <2>2, Fields
    <2> QED BY <2>1, <2>3, FoldIsPaidFold DEF PayoutsReconcile
  <1> QED BY <1>1, TypeCorrect, PayoutsAreBooked, PTL

-----------------------------------------------------------------------------
(* Transfers, step by step.                                                *)

\* Only settling a payout transfers money.
LEMMA TransferIsSettlement ==
    ASSUME TypeOK, Next, ledger'.payout # ledger.payout
    PROVE  \E i \in DOMAIN payouts : SettlePayout(i)
  <1> USE DEF rows, sessions
  <1>1. CASE DisputesNext
    BY <1>1, ResolveRows DEF DisputesNext, OpenDispute, ReadCase, MoveCase, CloseCase
  <1>2. CASE OrdersNext
    BY <1>2
    DEF OrdersNext, SubmitDelivery, RequestRevision, ApproveDelivery, ApproveRows,
        AutoApproveReads, AutoApprove, Cancel, SweepUnpaid, CancelRequest,
        TimerElapses, DisputeWindowCloses
  <1>3. CASE PaymentsNext
    <2>1. CASE ConfirmPayment
      BY <2>1 DEF ConfirmPayment, TypeOK, LedgerSums
    <2>2. CASE AdminFullRefund
      BY <2>2, RefundKeeps DEF AdminFullRefund
    <2>3. CASE ~(ConfirmPayment \/ AdminFullRefund)
      BY <1>3, <2>3
      DEF PaymentsNext, ReadOrderToPay, StartPayment, RearmPayment, ConfirmFails,
          FailHookReads, FailHookSaves, SweepLists, SweepChecks, SweepCreates, FailPayout
    <2> QED BY <2>1, <2>2, <2>3
  <1> QED BY <1>1, <1>2, <1>3 DEF Next

\* Without a refund, a transfer is covered by the credit the ledger shows.
CoveredUntilRefund ==
    [][payment.refunded = 0 /\ ledger'.payout # ledger.payout =>
          -ledger'.payout <= ledger.expert_credit]_vars

\* "amount = remaining expert_credit ledger balance": TransfersAreCovered fails only
\* through an earlier refund of the order (settle_after_refund); until one is made, one
\* sweeper never lets a transfer exceed the credit on the ledger.
THEOREM TransfersCoveredUntilRefund == ASSUME OneSweeper PROVE Spec => CoveredUntilRefund
  <1> DEFINE Unrefunded == payment.refunded = 0 /\ ledger'.payout # ledger.payout
             Covered == -ledger'.payout <= ledger.expert_credit
  <1>1. TypeOK /\ MoneyInv /\ PayoutInv /\ [Next]_vars /\ NeverOverpaid'
          => [Unrefunded => Covered]_vars
    <2> SUFFICES ASSUME TypeOK, MoneyInv, PayoutInv, Next, NeverOverpaid', Unrefunded
                 PROVE  Covered
      OBVIOUS
    <2>1. PICK i \in DOMAIN payouts : SettlePayout(i)
      BY TransferIsSettlement
    <2>2. order.paid /\ order'.paid
      BY <2>1 DEF SettlePayout, PayoutInv, PayoutBooks, Settling
    <2>3. ledger.expert_credit = BookedCredit
      BY <2>2 DEF MoneyInv, RefundHistory
    <2> QED BY <2>2, <2>3 DEF NeverOverpaid, BookedCredit, BookedCommission
  <1> QED BY <1>1, TypeCorrect, MoneyIsInvariant, PayoutsAreBooked, PaidWithinCredit, PTL
          DEF Spec, CoveredUntilRefund

\* A row that is paid stays in the list, at its place and with its amount.
PaidStays ==
    \A i \in DOMAIN payouts : payouts[i].status = "paid" =>
        i \in DOMAIN payouts' /\ payouts'[i] = payouts[i]

LEMMA RowsAppended ==
    ASSUME TypeOK, NEW p, payouts' = Append(payouts, p)
    PROVE  PaidStays
  <1>1. \A i \in DOMAIN payouts : i \in DOMAIN payouts' /\ payouts'[i] = payouts[i]
    BY DEF TypeOK
  <1> QED BY <1>1 DEF PaidStays

LEMMA TransferStays == ASSUME TypeOK, Next PROVE PaidStays
  <1> USE DEF rows, sessions
  <1>1. CASE UNCHANGED payouts
    BY <1>1 DEF PaidStays
  <1>2. ASSUME NEW i \in DOMAIN payouts, SettlePayout(i) \/ FailPayout(i)
        PROVE  PaidStays
    <2>1. payouts[i].status # "paid"
      BY <1>2 DEF SettlePayout, FailPayout
    <2>2. \E status : payouts' = [payouts EXCEPT ![i].status = status]
      BY <1>2 DEF SettlePayout, FailPayout
    <2> QED BY <2>1, <2>2 DEF PaidStays
  <1>3. ASSUME NEW w \in Sweepers, SweepCreates(w) PROVE PaidStays
    BY <1>3, RowsAppended DEF SweepCreates
  <1>4. ASSUME ApproveRows PROVE PaidStays
    BY <1>1, <1>4, RowsAppended DEF ApproveRows, ScheduledPayouts
  <1>5. ASSUME payouts' = VoidedPayouts \/ \E c : payouts' = CorrectedPayouts(c)
        PROVE  PaidStays
    BY <1>5 DEF VoidedPayouts, CorrectedPayouts, FirstUnpaid, PaidStays
  <1>6. CASE PaymentsNext
    BY <1>1, <1>2, <1>3, <1>6
    DEF PaymentsNext, ReadOrderToPay, StartPayment, RearmPayment, ConfirmPayment,
        ConfirmFails, FailHookReads, FailHookSaves, AdminFullRefund, SweepLists, SweepChecks
  <1>7. CASE OrdersNext
    BY <1>1, <1>4, <1>7
    DEF OrdersNext, SubmitDelivery, RequestRevision, ApproveDelivery, AutoApproveReads,
        AutoApprove, Cancel, SweepUnpaid, CancelRequest, TimerElapses, DisputeWindowCloses
  <1>8. CASE DisputesNext
    <2>1. ASSUME NEW s \in Staff, Resolve(s) PROVE PaidStays
      BY <1>1, <1>5, <2>1 DEF Resolve, RefundInFull, RefundInPart, ReleaseToExpert, CloseNoFault
    <2> QED BY <1>1, <1>8, <2>1 DEF DisputesNext, OpenDispute, ReadCase, MoveCase, CloseCase
  <1> QED BY <1>6, <1>7, <1>8 DEF Next

\* A transfer is final: no settlement, failure report, correction or voiding touches
\* a paid payout again, for any number of workers and support accounts.
THEOREM PaidForGood == Spec => [][PaidStays]_vars
  <1>1. TypeOK /\ [Next]_vars => [PaidStays]_vars
    BY TransferStays
  <1> QED BY <1>1, TypeCorrect, PTL DEF Spec

-----------------------------------------------------------------------------
(* Any number of workers.  Nothing makes a sweeper's test and its insert one *)
(* step, so several can pay one order; but no more often than there are      *)
(* workers, because none starts over once a payout exists.                   *)

FiniteWorkers == IsFiniteSet(Sweepers)

\* The sweepers that found no payout and have not inserted theirs yet.
Inserting == {w \in Sweepers : sweep[w].at = "checked"}

\* Approval inserts one payout also where no worker runs the sweeper.
WorkerLimit == IF Sweepers = {} THEN 1 ELSE Cardinality(Sweepers)

PayoutsPerWorker == Len(payouts) <= WorkerLimit

\* From the first payout on, every further one is one of the inserts under way.
InsertsCounted == payouts # <<>> => Len(payouts) + Cardinality(Inserting) <= WorkerLimit

LEMMA InsertingIsFinite ==
    ASSUME FiniteWorkers
    PROVE  /\ IsFiniteSet(Inserting) /\ Cardinality(Inserting) \in Nat
           /\ Cardinality(Inserting) <= Cardinality(Sweepers)
           /\ Cardinality(Sweepers) \in Nat
           /\ WorkerLimit \in Nat /\ WorkerLimit >= 1
  <1>1. Inserting \subseteq Sweepers
    BY DEF Inserting
  <1>2. IsFiniteSet(Sweepers)
    BY DEF FiniteWorkers
  <1>3. /\ IsFiniteSet(Inserting) /\ Cardinality(Inserting) <= Cardinality(Sweepers)
    BY <1>1, <1>2, FS_Subset
  <1>4. Cardinality(Inserting) \in Nat /\ Cardinality(Sweepers) \in Nat
    BY <1>2, <1>3, FS_CardinalityType
  <1>5. Sweepers # {} => Cardinality(Sweepers) # 0
    BY <1>2, FS_EmptySet
  <1> QED BY <1>3, <1>4, <1>5 DEF WorkerLimit

\* Steps that leave the length of the list and the inserts under way.
LEMMA InsertsKept ==
    ASSUME TypeOK, TypeOK', InsertsCounted, Len(payouts') = Len(payouts),
           Inserting' = Inserting
    PROVE  InsertsCounted'
  <1>1. payouts \in Seq(PayoutRow) /\ payouts' \in Seq(PayoutRow)
    BY DEF TypeOK
  <1>2. payouts' # <<>> => payouts # <<>>
    BY <1>1
  <1> QED BY <1>2 DEF InsertsCounted, WorkerLimit

\* An insert ends: one payout more, one insert under way less.
LEMMA InsertEnds ==
    ASSUME TypeOK, InsertsCounted, FiniteWorkers, NEW w \in Sweepers, SweepCreates(w)
    PROVE  InsertsCounted'
  <1>1. w \in Inserting /\ Inserting' = Inserting \ {w}
    BY DEF SweepCreates, Inserting, TypeOK
  <1>2. /\ IsFiniteSet(Inserting) /\ Cardinality(Inserting) \in Nat
        /\ Cardinality(Inserting) <= Cardinality(Sweepers)
        /\ Cardinality(Sweepers) \in Nat
    BY InsertingIsFinite
  <1>3. Cardinality(Inserting') = Cardinality(Inserting) - 1
    BY <1>1, <1>2, FS_RemoveElement
  <1>4. Len(payouts') = Len(payouts) + 1 /\ Len(payouts) \in Nat
    BY DEF SweepCreates, TypeOK
  <1>5. WorkerLimit = Cardinality(Sweepers)
    BY DEF WorkerLimit
  <1>6. Len(payouts') + Cardinality(Inserting') <= Cardinality(Sweepers)
    <2>1. CASE payouts = <<>>
      BY <1>2, <1>3, <1>4, <2>1
    <2>2. CASE payouts # <<>>
      BY <1>2, <1>3, <1>4, <1>5, <2>2 DEF InsertsCounted
    <2> QED BY <2>1, <2>2
  <1>7. WorkerLimit' = WorkerLimit
    BY DEF WorkerLimit
  <1> HIDE DEF WorkerLimit
  <1> QED BY <1>5, <1>6, <1>7 DEF InsertsCounted

\* The first payout, by an approval that no sweeper can have overtaken.
LEMMA FirstPayoutCounted ==
    ASSUME TypeOK, FiniteWorkers, PayoutNeedsCompletion, ApproveRows, UNCHANGED sweep
    PROVE  InsertsCounted'
  <1>1. payouts = <<>> /\ \A w \in Sweepers : sweep[w].at = "idle"
    BY NeedsCompletionIs DEF ApproveRows, Finished, Settling
  <1>2. Inserting' = {}
    BY <1>1 DEF Inserting
  <1>3. Cardinality(Inserting') = 0
    BY <1>2, FS_EmptySet
  <1>4. payouts' \in {<<>>, <<NewPayout(ledger.expert_credit)>>}
    BY <1>1 DEF ApproveRows, ScheduledPayouts
  <1>5. Len(payouts') \in {0, 1}
    BY <1>4
  <1>6. WorkerLimit' = WorkerLimit /\ WorkerLimit >= 1 /\ WorkerLimit \in Nat
    BY InsertingIsFinite DEF WorkerLimit
  <1> HIDE DEF WorkerLimit
  <1> QED BY <1>3, <1>5, <1>6 DEF InsertsCounted

LEMMA InsertsStep ==
    ASSUME TypeOK, TypeOK', MoneyInv, PayoutNeedsCompletion, InsertsCounted,
           FiniteWorkers, [Next]_vars
    PROVE  InsertsCounted'
  <1> USE DEF rows, sessions
  <1>1. CASE UNCHANGED <<payouts, sweep>>
    BY <1>1, InsertsKept DEF Inserting
  <1>2. ASSUME NEW w \in Sweepers, SweepLists(w) PROVE InsertsCounted'
    BY <1>2 DEF SweepLists, Eligible, InsertsCounted
  <1>3. ASSUME NEW w \in Sweepers, SweepChecks(w) PROVE InsertsCounted'
    <2>1. CASE payouts = <<>>
      BY <1>3, <2>1 DEF SweepChecks, InsertsCounted
    <2>2. CASE payouts # <<>>
      <3>1. Inserting' = Inserting
        BY <1>3, <2>2 DEF SweepChecks, Inserting, TypeOK
      <3> QED BY <1>3, <3>1, InsertsKept DEF SweepChecks
    <2> QED BY <2>1, <2>2
  <1>4. ASSUME NEW i \in DOMAIN payouts, SettlePayout(i) \/ FailPayout(i)
        PROVE  InsertsCounted'
    <2>1. UNCHANGED sweep /\ \E p : payouts' = [payouts EXCEPT ![i] = p]
      BY <1>4 DEF SettlePayout, FailPayout
    <2>2. Len(payouts') = Len(payouts)
      BY <2>1 DEF TypeOK
    <2> QED BY <2>1, <2>2, InsertsKept DEF Inserting
  <1>5. ASSUME NEW s \in Staff, Resolve(s)
        PROVE  InsertsCounted'
    <2>1. UNCHANGED sweep
      BY <1>5, ResolveTargets
    <2>2. payouts' = payouts \/ payouts' = VoidedPayouts \/ \E c : payouts' = CorrectedPayouts(c)
      BY <1>5 DEF Resolve, RefundInFull, RefundInPart, ReleaseToExpert, CloseNoFault
    <2>3. Len(payouts') = Len(payouts)
      BY <2>2, SameLength
    <2> QED BY <2>1, <2>3, InsertsKept DEF Inserting
  <1>6. CASE PaymentsNext
    BY <1>1, <1>2, <1>3, <1>4, <1>6, InsertEnds
    DEF PaymentsNext, ReadOrderToPay, StartPayment, RearmPayment, ConfirmPayment,
        ConfirmFails, FailHookReads, FailHookSaves, AdminFullRefund
  <1>7. CASE OrdersNext
    <2>1. CASE ApproveDelivery
      BY <2>1, FirstPayoutCounted DEF ApproveDelivery
    <2>2. CASE AutoApprove
      BY <1>1, <2>2, FirstPayoutCounted DEF AutoApprove
    <2> QED BY <1>1, <1>7, <2>1, <2>2
            DEF OrdersNext, SubmitDelivery, RequestRevision, AutoApproveReads, Cancel,
                SweepUnpaid, CancelRequest, TimerElapses, DisputeWindowCloses
  <1>8. CASE DisputesNext
    BY <1>1, <1>5, <1>8 DEF DisputesNext, OpenDispute, ReadCase, MoveCase, CloseCase
  <1>9. CASE UNCHANGED vars
    BY <1>1, <1>9 DEF vars
  <1> QED BY <1>6, <1>7, <1>8, <1>9 DEF Next

LEMMA InsertsAreCounted == ASSUME FiniteWorkers PROVE Spec => []InsertsCounted
  <1>1. Init => InsertsCounted
    BY DEF Init, InsertsCounted
  <1>2. /\ TypeOK /\ TypeOK' /\ MoneyInv /\ PayoutNeedsCompletion /\ InsertsCounted
        /\ [Next]_vars
        => InsertsCounted'
    BY InsertsStep
  <1> QED BY <1>1, <1>2, TypeCorrect, MoneyIsInvariant, PayoutsFollowCompletion, PTL
          DEF Spec

\* An order has at most as many payouts as workers run the sweeper at a time: the
\* race of two_sweepers costs one payout per worker and does not go on.
THEOREM PayoutsAreLimited == ASSUME FiniteWorkers PROVE Spec => []PayoutsPerWorker
  <1>1. TypeOK /\ InsertsCounted => PayoutsPerWorker
    <2> SUFFICES ASSUME TypeOK, InsertsCounted PROVE PayoutsPerWorker
      OBVIOUS
    <2>1. Len(payouts) \in Nat /\ (payouts = <<>> => Len(payouts) = 0)
      BY DEF TypeOK
    <2>2. Cardinality(Inserting) \in Nat /\ WorkerLimit \in Nat /\ WorkerLimit >= 1
      BY InsertingIsFinite
    <2> HIDE DEF WorkerLimit
    <2> QED BY <2>1, <2>2 DEF InsertsCounted, PayoutsPerWorker
  <1> QED BY <1>1, TypeCorrect, InsertsAreCounted, PTL

\* What several workers can transfer together is bounded as well: every row and every
\* insert under way is within the booked credit.
AmountsBooked ==
    /\ Settling => order.paid
    /\ ledger.expert_credit <= BookedCredit
    /\ \A w \in Sweepers : sweep[w].at = "checked" => sweep[w].amount <= BookedCredit
    /\ \A i \in DOMAIN payouts : payouts[i].amount <= BookedCredit

\* No step takes the credit above what was booked, or a payment back.
LEMMA CreditStaysBooked ==
    ASSUME TypeOK, MoneyInv, ledger.expert_credit <= BookedCredit, Next
    PROVE  ledger'.expert_credit <= BookedCredit /\ (order.paid => order'.paid)
  <1>1. CASE ConfirmPayment
    <2>1. /\ order'.paid
          /\ ledger'.expert_credit = ledger.expert_credit + BookedCredit
      BY <1>1 DEF ConfirmPayment, TypeOK, OrderRow, LedgerSums
    <2>2. ledger.expert_credit = 0
      BY <1>1 DEF ConfirmPayment, MoneyInv, RefundHistory
    <2> QED BY <2>1, <2>2, BookedParts
  <1>2. CASE BooksKept
    BY <1>2 DEF BooksKept
  <1>3. ASSUME NEW a \in 1 .. Amount, Refunds(a)
        PROVE  ledger'.expert_credit <= BookedCredit /\ order'.paid = order.paid
    <2>1. ledger'.expert_credit <= ledger.expert_credit /\ ReversedCredit(a) \in Nat
          /\ ledger'.expert_credit = ledger.expert_credit - ReversedCredit(a)
      BY <1>3, CreditShrinks DEF Refunds
    <2> QED BY <1>3, <2>1, Fields, BookedParts DEF Refunds
  <1> QED BY <1>1, <1>2, <1>3, BooksMoveBy

\* How a step can change the list: one row more, one row settled or failed, or what a
\* resolution does to it.
RowsMove ==
    \/ UNCHANGED payouts
    \/ payouts' = Append(payouts, NewPayout(ledger.expert_credit))
    \/ \E w \in Sweepers : /\ sweep[w].at = "checked"
                           /\ payouts' = Append(payouts, NewPayout(sweep[w].amount))
    \/ \E i \in DOMAIN payouts : SettlePayout(i) \/ FailPayout(i)
    \/ payouts' = VoidedPayouts \/ payouts' = CorrectedPayouts(ledger'.expert_credit)

LEMMA RowsMoveBy == ASSUME Next PROVE RowsMove
  <1> USE DEF rows, sessions
  <1>1. CASE PaymentsNext
    BY <1>1 DEF PaymentsNext, ReadOrderToPay, StartPayment, RearmPayment, ConfirmPayment,
                ConfirmFails, FailHookReads, FailHookSaves, AdminFullRefund, SweepLists,
                SweepChecks, SweepCreates, RowsMove
  <1>2. CASE OrdersNext
    BY <1>2 DEF OrdersNext, SubmitDelivery, RequestRevision, ApproveDelivery, ApproveRows,
                ScheduledPayouts, AutoApproveReads, AutoApprove, Cancel, SweepUnpaid,
                CancelRequest, TimerElapses, DisputeWindowCloses, RowsMove
  <1>3. CASE DisputesNext
    BY <1>3 DEF DisputesNext, OpenDispute, ReadCase, MoveCase, CloseCase, Resolve,
                RefundInFull, RefundInPart, ReleaseToExpert, CloseNoFault, RowsMove
  <1> QED BY <1>1, <1>2, <1>3 DEF Next

\* The amounts after each of these.
LEMMA RowsWithinCredit ==
    ASSUME TypeOK, MoneyInv, AmountsBooked, Next
    PROVE  \A i \in DOMAIN payouts' : payouts'[i].amount <= BookedCredit
  <1>1. /\ payouts \in Seq(PayoutRow)
        /\ \A i \in DOMAIN payouts : payouts[i] \in PayoutRow /\ payouts[i].amount <= BookedCredit
    BY ElementOfSeq DEF TypeOK, AmountsBooked
  <1>2. ASSUME NEW n \in Int, n <= BookedCredit, payouts' = Append(payouts, NewPayout(n))
        PROVE  \A i \in DOMAIN payouts' : payouts'[i].amount <= BookedCredit
    <2> DEFINE p == NewPayout(n)
    <2>1. p.amount <= BookedCredit
      BY <1>2 DEF NewPayout
    <2> HIDE DEF p
    <2>2. \A i \in DOMAIN payouts' :
             \/ payouts'[i] = p
             \/ i \in DOMAIN payouts /\ payouts'[i] = payouts[i]
      BY <1>1, <1>2 DEF p
    <2> QED BY <1>1, <2>1, <2>2
  <1>3. CASE payouts' = Append(payouts, NewPayout(ledger.expert_credit))
    BY <1>2, <1>3, Fields DEF AmountsBooked
  <1>4. ASSUME NEW w \in Sweepers, sweep[w].at = "checked",
               payouts' = Append(payouts, NewPayout(sweep[w].amount))
        PROVE  \A i \in DOMAIN payouts' : payouts'[i].amount <= BookedCredit
    <2>1. sweep[w].amount \in Int
      BY DEF TypeOK, SweepTask
    <2> QED BY <1>2, <1>4, <2>1 DEF AmountsBooked
  <1>5. ASSUME NEW i \in DOMAIN payouts, SettlePayout(i) \/ FailPayout(i)
        PROVE  \A j \in DOMAIN payouts' : payouts'[j].amount <= BookedCredit
    <2>1. \E status : payouts' = [payouts EXCEPT ![i].status = status]
      BY <1>5 DEF SettlePayout, FailPayout
    <2> QED BY <1>1, <2>1 DEF PayoutRow
  <1>6. CASE payouts' = VoidedPayouts
    <2>1. DOMAIN payouts' = DOMAIN payouts
      BY <1>6, SameLength
    <2> QED BY <1>1, <1>6, <2>1 DEF VoidedPayouts, PayoutRow
  <1>7. CASE payouts' = CorrectedPayouts(ledger'.expert_credit)
    <2>1. DOMAIN payouts' = DOMAIN payouts
      BY <1>7, SameLength
    <2>2. ledger'.expert_credit <= BookedCredit
      BY CreditStaysBooked DEF AmountsBooked
    <2> QED BY <1>1, <1>7, <2>1, <2>2 DEF CorrectedPayouts, PayoutRow
  <1> QED BY <1>1, <1>3, <1>4, <1>5, <1>6, <1>7, RowsMoveBy DEF RowsMove

LEMMA AmountsStep ==
    ASSUME TypeOK, MoneyInv, PayoutNeedsCompletion, AmountsBooked, [Next]_vars
    PROVE  AmountsBooked'
  <1> USE DEF rows, sessions
  <1>1. CASE UNCHANGED vars
    BY <1>1 DEF vars, AmountsBooked, Settling, BookedCredit, BookedCommission
  <1>2. CASE Next
    <2>1. Settling' => order'.paid
      <3>1. CASE Settling
        BY <1>2, <3>1, CreditStaysBooked DEF AmountsBooked
      <3>2. CASE ~Settling
        <4> SUFFICES ASSUME Settling' PROVE order'.paid
          OBVIOUS
        <4>1. order'.status = "completed"
          BY <1>2, <3>2, SettlingStarts
        <4>2. MoneyInv'
          BY <1>2, MoneyStep
        <4> QED BY <4>1, <4>2 DEF MoneyInv, ChargedOnce, Working
      <3> QED BY <3>1, <3>2
    <2>2. ledger'.expert_credit <= BookedCredit
      BY <1>2, CreditStaysBooked DEF AmountsBooked
    <2>3. \A i \in DOMAIN payouts' : payouts'[i].amount <= BookedCredit
      BY <1>2, RowsWithinCredit
    <2>4. \A w \in Sweepers : sweep'[w].at = "checked" => sweep'[w].amount <= BookedCredit
      <3>1. CASE UNCHANGED sweep
        BY <3>1 DEF AmountsBooked
      <3>2. ASSUME NEW v \in Sweepers, SweepLists(v) \/ SweepChecks(v) \/ SweepCreates(v)
            PROVE  \A w \in Sweepers : sweep'[w].at = "checked" => sweep'[w].amount <= BookedCredit
        BY <3>2 DEF SweepLists, SweepChecks, SweepCreates, AmountsBooked, TypeOK
      <3>3. CASE PaymentsNext
        BY <3>1, <3>2, <3>3
        DEF PaymentsNext, ReadOrderToPay, StartPayment, RearmPayment, ConfirmPayment,
            ConfirmFails, FailHookReads, FailHookSaves, AdminFullRefund, SettlePayout, FailPayout
      <3>4. CASE OrdersNext
        BY <3>1, <3>4
        DEF OrdersNext, SubmitDelivery, RequestRevision, ApproveDelivery, AutoApproveReads,
            AutoApprove, Cancel, SweepUnpaid, CancelRequest, TimerElapses, DisputeWindowCloses
      <3>5. CASE DisputesNext
        BY <3>1, <3>5, ResolveTargets
        DEF DisputesNext, OpenDispute, ReadCase, MoveCase, CloseCase
      <3> QED BY <1>2, <3>3, <3>4, <3>5 DEF Next
    <2> QED BY <2>1, <2>2, <2>3, <2>4 DEF AmountsBooked, BookedCredit, BookedCommission
  <1> QED BY <1>1, <1>2

\* The rows a transfer was made for.
PaidRows == {i \in DOMAIN payouts : payouts[i].status = "paid"}

\* The ledger shows at most the booked credit for each of them.
TransfersCounted == -ledger.payout <= Cardinality(PaidRows) * BookedCredit

LEMMA PaidRowsFinite ==
    ASSUME TypeOK
    PROVE  /\ IsFiniteSet(PaidRows) /\ Cardinality(PaidRows) \in Nat
           /\ Cardinality(PaidRows) <= Len(payouts) /\ Len(payouts) \in Nat
  <1>1. Len(payouts) \in Nat /\ PaidRows \subseteq 1 .. Len(payouts)
    BY DEF TypeOK, PaidRows
  <1>2. IsFiniteSet(1 .. Len(payouts)) /\ Cardinality(1 .. Len(payouts)) = Len(payouts)
    <2> DEFINE n == Len(payouts)
    <2>1. n \in Int /\ n >= 0 /\ 1 \in Int
      BY <1>1
    <2> HIDE DEF n
    <2>2. IsFiniteSet(1 .. n)
      BY <2>1, FS_Interval
    <2>3. Cardinality(1 .. n) = IF 1 > n THEN 0 ELSE n - 1 + 1
      BY <2>1, FS_Interval
    <2>4. Cardinality(1 .. n) = n
      BY <2>1, <2>3
    <2> QED BY <2>2, <2>4 DEF n
  <1>3. IsFiniteSet(PaidRows) /\ Cardinality(PaidRows) <= Len(payouts)
    BY <1>1, <1>2, FS_Subset
  <1> QED BY <1>1, <1>3, FS_CardinalityType

\* Only settling a row adds to them.
LEMMA PaidRowsKept ==
    ASSUME TypeOK, Next, \A i \in DOMAIN payouts : ~SettlePayout(i)
    PROVE  PaidRows' = PaidRows
  <1>1. /\ payouts \in Seq(PayoutRow)
        /\ \A i \in DOMAIN payouts : payouts[i] \in PayoutRow
    BY ElementOfSeq DEF TypeOK
  <1>2. ASSUME NEW n, payouts' = Append(payouts, NewPayout(n))
        PROVE  PaidRows' = PaidRows
    <2> DEFINE p == NewPayout(n)
    <2>1. p.status # "paid"
      BY DEF NewPayout
    <2> HIDE DEF p
    <2>2. /\ payouts' = Append(payouts, p) /\ Len(payouts) \in Nat
          /\ DOMAIN payouts = 1 .. Len(payouts)
      BY <1>1, <1>2 DEF p
    <2>3. /\ DOMAIN payouts' = 1 .. Len(payouts) + 1
          /\ payouts'[Len(payouts) + 1] = p
          /\ \A i \in 1 .. Len(payouts) : payouts'[i] = payouts[i]
      BY <1>1, <2>2
    <2> QED BY <2>1, <2>2, <2>3 DEF PaidRows
  <1>3. ASSUME NEW i \in DOMAIN payouts, FailPayout(i)
        PROVE  PaidRows' = PaidRows
    BY <1>1, <1>3 DEF FailPayout, PaidRows, PayoutRow
  <1>4. CASE payouts' = VoidedPayouts \/ \E c : payouts' = CorrectedPayouts(c)
    <2>1. DOMAIN payouts' = DOMAIN payouts
      BY <1>4, SameLength
    <2> QED BY <1>1, <1>4, <2>1
            DEF VoidedPayouts, CorrectedPayouts, FirstUnpaid, PaidRows, PayoutRow
  <1>5. CASE UNCHANGED payouts
    BY <1>5 DEF PaidRows
  <1> QED BY <1>2, <1>3, <1>4, <1>5, RowsMoveBy DEF RowsMove

LEMMA TransfersStep ==
    ASSUME TypeOK, AmountsBooked, TransfersCounted, [Next]_vars
    PROVE  TransfersCounted'
  <1>1. /\ IsFiniteSet(PaidRows) /\ Cardinality(PaidRows) \in Nat
        /\ BookedCredit \in Nat /\ ledger.payout \in Int
    BY PaidRowsFinite, BookedParts, Fields
  <1>2. CASE UNCHANGED vars
    BY <1>2 DEF vars, rows, TransfersCounted, PaidRows, BookedCredit, BookedCommission
  <1>3. ASSUME NEW i \in DOMAIN payouts, SettlePayout(i)
        PROVE  TransfersCounted'
    <2>1. payouts \in Seq(PayoutRow) /\ payouts[i] \in PayoutRow
      BY ElementOfSeq DEF TypeOK
    <2>2. PaidRows' = PaidRows \cup {i} /\ i \notin PaidRows
      BY <1>3, <2>1 DEF SettlePayout, PaidRows, PayoutRow
    <2>3. Cardinality(PaidRows') = Cardinality(PaidRows) + 1
      BY <1>1, <2>2, FS_AddElement
    <2>4. ledger'.payout = ledger.payout - payouts[i].amount
      BY <1>3 DEF SettlePayout, TypeOK, LedgerSums
    <2>5. payouts[i].amount <= BookedCredit /\ payouts[i].amount \in Int
      BY <2>1 DEF AmountsBooked, PayoutRow
    <2> DEFINE n == Cardinality(PaidRows)
               c == BookedCredit
    <2>6. -ledger.payout <= n * c /\ n \in Nat /\ c \in Nat
      BY <1>1 DEF TransfersCounted
    <2>7. Cardinality(PaidRows') = n + 1
      BY <2>3
    <2> HIDE DEF n, c
    <2>8. (n + 1) * c = n * c + c /\ n * c \in Nat
      BY <2>6, ProductIsNat
    <2>9. -(ledger'.payout) <= n * c + c
      BY <1>1, <2>4, <2>5, <2>6, <2>8 DEF c
    <2>10. -(ledger'.payout) <= Cardinality(PaidRows') * c
      BY <2>7, <2>8, <2>9
    <2> QED BY <2>10 DEF TransfersCounted, c, BookedCredit, BookedCommission
  <1>4. CASE Next /\ \A i \in DOMAIN payouts : ~SettlePayout(i)
    <2>1. PaidRows' = PaidRows /\ ledger'.payout = ledger.payout
      BY <1>4, PaidRowsKept, TransferIsSettlement
    <2> QED BY <2>1 DEF TransfersCounted, BookedCredit, BookedCommission
  <1> QED BY <1>2, <1>3, <1>4

LEMMA TransfersAreCounted == Spec => [](AmountsBooked /\ TransfersCounted)
  <1>1. Init => AmountsBooked /\ TransfersCounted
    <2> SUFFICES ASSUME Init PROVE AmountsBooked /\ TransfersCounted
      OBVIOUS
    <2>1. AmountsBooked
      BY BookedParts DEF Init, AmountsBooked, Settling
    <2>2. ledger.payout = 0 /\ PaidRows = {}
      BY DEF Init, PaidRows
    <2>3. Cardinality(PaidRows) = 0
      BY <2>2, FS_EmptySet
    <2>4. -ledger.payout <= 0 /\ 0 * BookedCredit = 0
      BY <2>2, BookedParts
    <2> QED BY <2>1, <2>3, <2>4 DEF TransfersCounted
  <1>2. TypeOK /\ MoneyInv /\ PayoutNeedsCompletion /\ AmountsBooked /\ [Next]_vars
          => AmountsBooked'
    BY AmountsStep
  <1>3. TypeOK /\ AmountsBooked /\ TransfersCounted /\ [Next]_vars => TransfersCounted'
    BY TransfersStep
  <1> QED BY <1>1, <1>2, <1>3, TypeCorrect, MoneyIsInvariant, PayoutsFollowCompletion, PTL
          DEF Spec

OverpaidPerWorker == -ledger.payout <= WorkerLimit * BookedCredit

\* What the expert can be overpaid is bounded by the number of workers: each of them can
\* pay the booked credit out once, whatever refunds, corrections and settlements do.
\* With one worker that is NeverOverpaid.
THEOREM OverpaymentIsBounded == ASSUME FiniteWorkers PROVE Spec => []OverpaidPerWorker
  <1>1. TypeOK /\ PayoutsPerWorker /\ TransfersCounted => OverpaidPerWorker
    <2> SUFFICES ASSUME TypeOK, PayoutsPerWorker, TransfersCounted PROVE OverpaidPerWorker
      OBVIOUS
    <2> DEFINE n == Cardinality(PaidRows)
               c == BookedCredit
               k == WorkerLimit
    <2>1. n \in Nat /\ n <= k
      BY PaidRowsFinite, InsertingIsFinite DEF PayoutsPerWorker
    <2>2. k \in Nat /\ c \in Nat /\ -ledger.payout <= n * c /\ ledger.payout \in Int
      BY InsertingIsFinite, BookedParts, Fields DEF TransfersCounted
    <2> HIDE DEF n, c, k
    <2>3. n * c <= k * c /\ n * c \in Nat /\ k * c \in Nat
      BY <2>1, <2>2, ProductIsNat
    <2>4. -ledger.payout <= k * c
      BY <2>2, <2>3
    <2> QED BY <2>4 DEF OverpaidPerWorker, c, k
  <1> QED BY <1>1, TypeCorrect, PayoutsAreLimited, TransfersAreCounted, PTL

-----------------------------------------------------------------------------
(* The escrow.  A resolution acts on the dispute its request has read; with *)
(* several support accounts it can act on an old one and refund a second    *)
(* part, and enough parts, each rounded up against the expert, would        *)
(* correct a payout below zero.  The promise is proved for one account.     *)

OneDesk == \A s, t \in Staff : s = t

\* The one request reads and writes in turn: what it holds is current, and a
\* partial refund has ended the case.
DeskInv ==
    /\ \A s \in Staff : caseFile[s] \in {None, dispute.status}
    /\ 0 < payment.refunded /\ payment.refunded < Amount =>
          dispute.status \in {"resolved", "closed"}

LEMMA DeskStep ==
    ASSUME TypeOK, MoneyInv, DeskInv, OneDesk, [Next]_vars
    PROVE  DeskInv'
  <1> USE DEF rows, sessions
  <1>1. ASSUME UNCHANGED <<dispute, caseFile>>, payment'.refunded = payment.refunded
        PROVE  DeskInv'
    BY <1>1 DEF DeskInv
  <1>2. CASE UNCHANGED vars
    BY <1>1, <1>2 DEF vars
  <1>3. CASE PaymentsNext
    <2>1. CASE AdminFullRefund
      <3>1. payment'.refunded = Amount
        BY <2>1, Fields DEF AdminFullRefund, RefundedPayment, Refundable
      <3>2. UNCHANGED <<dispute, caseFile>>
        BY <2>1 DEF AdminFullRefund
      <3> QED BY <3>1, <3>2, Fields DEF DeskInv
    <2>2. CASE StartPayment \/ RearmPayment \/ ConfirmPayment \/ ConfirmFails \/ FailHookSaves
      BY <1>1, <2>2
      DEF StartPayment, RearmPayment, ConfirmPayment, ConfirmFails, FailHookSaves,
          TypeOK, PaymentRow
    <2> QED BY <1>1, <1>3, <2>1, <2>2
            DEF PaymentsNext, ReadOrderToPay, FailHookReads, SweepLists, SweepChecks,
                SweepCreates, SettlePayout, FailPayout
  <1>4. CASE OrdersNext
    <2>1. CASE Cancel
      BY <1>1, <2>1 DEF Cancel, Voided, TypeOK, PaymentRow
    <2> QED BY <1>1, <1>4, <2>1
            DEF OrdersNext, SubmitDelivery, RequestRevision, ApproveDelivery, ApproveRows,
                AutoApproveReads, AutoApprove, SweepUnpaid, CancelRequest, TimerElapses,
                DisputeWindowCloses
  <1>5. CASE DisputesNext
    <2>1. CASE OpenDispute
      <3>1. /\ dispute.status = None /\ dispute'.status = "open"
            /\ UNCHANGED <<payment, caseFile>>
        BY <2>1 DEF OpenDispute
      <3> QED BY <3>1 DEF DeskInv, MoneyInv, RefundHistory
    <2>2. ASSUME NEW s \in Staff, ReadCase(s)
          PROVE  DeskInv'
      BY <2>2 DEF ReadCase, DeskInv, TypeOK
    <2>3. ASSUME NEW s \in Staff, NEW to, MoveCase(s, to)
          PROVE  DeskInv'
      <3>1. /\ \A t \in Staff : caseFile'[t] = None
            /\ dispute'.status = to /\ UNCHANGED payment
        BY <2>3 DEF OneDesk, MoveCase, CaseDone, TypeOK, DisputeRow
      <3>2. caseFile[s] = dispute.status
        BY <2>3 DEF DeskInv, MoveCase, CASE_TRANSITIONS, None
      <3>3. dispute.status \in {"resolved", "closed"} => to = "closed"
        BY <2>3, <3>2 DEF MoveCase, CASE_TRANSITIONS
      <3> QED BY <3>1, <3>3 DEF DeskInv
    <2>4. ASSUME NEW s \in Staff, Resolve(s)
          PROVE  DeskInv'
      <3>1. PICK to : ResolveTo(s, to)
        BY <2>4, ResolveRows
      <3>2. /\ \A t \in Staff : caseFile'[t] = None
            /\ dispute'.status = "resolved"
        BY <3>1 DEF OneDesk, ResolveTo, CaseDone, TypeOK, DisputeRow
      <3> QED BY <3>2 DEF DeskInv
    <2> QED BY <1>5, <2>1, <2>2, <2>3, <2>4 DEF DisputesNext, CloseCase
  <1> QED BY <1>2, <1>3, <1>4, <1>5 DEF Next

\* What a resolution refunds of was not refunded of before.
LEMMA FirstRefund ==
    ASSUME TypeOK, MoneyInv, DeskInv, NEW a \in Int, RefundAllowed(a),
           \/ payment.status = "succeeded"
           \/ \E s \in Staff : \E to : ResolveTo(s, to)
    PROVE  payment.refunded = 0
  <1>1. CASE payment.status = "succeeded"
    BY <1>1 DEF MoneyInv, RefundHistory
  <1>2. ASSUME NEW s \in Staff, NEW to, ResolveTo(s, to)
        PROVE  payment.refunded = 0
    <2>1. caseFile[s] = "under_review" /\ dispute.status = "under_review"
      BY <1>2 DEF ResolveTo, CASE_TRANSITIONS, DeskInv, None
    <2>2. ~(0 < payment.refunded /\ payment.refunded < Amount)
      BY <2>1 DEF DeskInv
    <2>3. payment.refunded < Amount
      BY Fields DEF RefundAllowed, Refundable
    <2> QED BY <2>2, <2>3, Fields
  <1> QED BY <1>1, <1>2

\* A first refund leaves the expert's credit at zero or above it.
LEMMA CreditLeft ==
    ASSUME TypeOK, MoneyInv, SplitsAgree, NEW a \in Int, RefundAllowed(a),
           payment.refunded = 0, payment' = RefundedPayment(a),
           ledger' = RefundedLedger(a), order'.paid = order.paid
    PROVE  ledger'.expert_credit >= 0
  <1>1. ledger'.expert_credit = BookedCredit - ReversedCredit(a)
    BY RefundBooks
  <1>2. a \in Nat /\ a <= Amount
    BY Fields DEF RefundAllowed, Refundable
  <1>3. /\ Commission \in Nat /\ Amount - Commission \in Nat
        /\ Commission + (Amount - Commission) = Amount /\ Amount > 0
        /\ BookedCredit = Amount - Commission
    BY MoneyAssumption DEF SplitsAgree, BookedCredit, BookedCommission
  <1>4. ReversedCredit(a) <= Amount - Commission
    BY <1>2, <1>3, ShareWithinWeight DEF ReversedCredit
  <1>5. ReversedCredit(a) \in Nat
    BY <1>2, ReversedParts
  <1> QED BY <1>1, <1>3, <1>4, <1>5

\* No credit, no amount a sweeper holds and no payout is below zero.
CreditInv ==
    /\ ledger.expert_credit >= 0
    /\ \A w \in Sweepers : sweep[w].at = "checked" => sweep[w].amount >= 0
    /\ \A i \in DOMAIN payouts : payouts[i].amount >= 0

LEMMA CreditKept ==
    ASSUME CreditInv, UNCHANGED <<payouts, sweep>>,
           ledger'.expert_credit >= 0
    PROVE  CreditInv'
  BY DEF CreditInv

LEMMA CreditOfPayments ==
    ASSUME TypeOK, MoneyInv, DeskInv, CreditInv, SplitsAgree, PaymentsNext
    PROVE  CreditInv'
  <1> USE DEF rows, sessions
  <1>1. ledger.expert_credit >= 0 /\ payouts \in Seq(PayoutRow)
    BY DEF CreditInv, TypeOK
  <1>2. CASE ReadOrderToPay \/ StartPayment \/ RearmPayment \/ ConfirmFails
             \/ FailHookReads \/ FailHookSaves
    BY <1>1, <1>2, CreditKept
    DEF ReadOrderToPay, StartPayment, RearmPayment, ConfirmFails, FailHookReads,
        FailHookSaves
  <1>3. CASE ConfirmPayment
    <2>1. /\ UNCHANGED <<payouts, sweep>>
          /\ ledger'.expert_credit = ledger.expert_credit + BookedCredit
      BY <1>3 DEF ConfirmPayment, TypeOK, LedgerSums
    <2> QED BY <1>1, <2>1, BookedParts, Fields, CreditKept
  <1>4. CASE AdminFullRefund
    <2>1. /\ Refundable \in Int /\ RefundAllowed(Refundable)
          /\ payment.status = "succeeded"
          /\ payment' = RefundedPayment(Refundable)
          /\ ledger' = RefundedLedger(Refundable)
          /\ UNCHANGED <<order, payouts, sweep>>
      BY <1>4, Fields DEF AdminFullRefund, Refundable
    <2> QED BY <2>1, FirstRefund, CreditLeft, CreditKept
  <1>5. ASSUME NEW w \in Sweepers, SweepLists(w) \/ SweepChecks(w)
        PROVE  CreditInv'
    <2>1. \A v \in Sweepers : sweep'[v].at = "checked" => sweep'[v].amount >= 0
      BY <1>1, <1>5 DEF SweepLists, SweepChecks, TypeOK, CreditInv
    <2>2. UNCHANGED <<payouts, ledger>>
      BY <1>5 DEF SweepLists, SweepChecks
    <2> QED BY <2>1, <2>2 DEF CreditInv
  <1>6. ASSUME NEW w \in Sweepers, SweepCreates(w)
        PROVE  CreditInv'
    <2> DEFINE p == NewPayout(sweep[w].amount)
    <2>1. sweep[w].amount >= 0
      BY <1>6 DEF SweepCreates, CreditInv
    <2>2. p.amount >= 0
      BY <2>1 DEF NewPayout
    <2>3. payouts' = Append(payouts, p) /\ UNCHANGED ledger
      BY <1>6 DEF SweepCreates
    <2>4. \A v \in Sweepers : sweep'[v].at = "checked" => sweep'[v].amount >= 0
      BY <1>6 DEF SweepCreates, TypeOK, CreditInv
    <2> HIDE DEF p
    <2>5. \A i \in DOMAIN payouts' :
             \/ payouts'[i] = p
             \/ i \in DOMAIN payouts /\ payouts'[i] = payouts[i]
      BY <1>1, <2>3
    <2> QED BY <2>2, <2>3, <2>4, <2>5 DEF CreditInv
  <1>7. ASSUME NEW i \in DOMAIN payouts, SettlePayout(i) \/ FailPayout(i)
        PROVE  CreditInv'
    <2>1. /\ DOMAIN payouts' = DOMAIN payouts
          /\ \A j \in DOMAIN payouts : payouts'[j].amount = payouts[j].amount
      <3>1. \A j \in DOMAIN payouts : payouts[j] \in PayoutRow
        BY <1>1, ElementOfSeq
      <3>2. \E status : payouts' = [payouts EXCEPT ![i].status = status]
        BY <1>7 DEF SettlePayout, FailPayout
      <3> QED BY <1>1, <3>1, <3>2 DEF PayoutRow
    <2>2. UNCHANGED sweep /\ ledger'.expert_credit = ledger.expert_credit
      BY <1>7 DEF SettlePayout, FailPayout, TypeOK, LedgerSums
    <2> QED BY <2>1, <2>2 DEF CreditInv
  <1> QED BY <1>2, <1>3, <1>4, <1>5, <1>6, <1>7 DEF PaymentsNext

LEMMA CreditOfOrders ==
    ASSUME TypeOK, CreditInv, OrdersNext
    PROVE  CreditInv'
  <1> USE DEF rows, sessions
  <1>1. ledger.expert_credit >= 0 /\ payouts \in Seq(PayoutRow)
    BY DEF CreditInv, TypeOK
  <1>2. ASSUME ApproveRows, UNCHANGED sweep
        PROVE  CreditInv'
    <2> DEFINE p == NewPayout(ledger.expert_credit)
    <2>1. UNCHANGED ledger /\ payouts' \in {payouts, Append(payouts, p)}
      BY <1>2 DEF ApproveRows, ScheduledPayouts
    <2>2. p.amount >= 0
      BY <1>1 DEF NewPayout
    <2> HIDE DEF p
    <2>3. \A i \in DOMAIN payouts' :
             \/ payouts'[i] = p
             \/ i \in DOMAIN payouts /\ payouts'[i] = payouts[i]
      BY <1>1, <2>1
    <2> QED BY <1>2, <2>1, <2>2, <2>3 DEF CreditInv
  <1>3. CASE ApproveDelivery
    BY <1>2, <1>3 DEF ApproveDelivery
  <1>4. CASE AutoApprove
    <2>1. CASE UNCHANGED rows
      BY <1>1, <1>4, <2>1, CreditKept DEF AutoApprove
    <2> QED BY <1>2, <1>4, <2>1 DEF AutoApprove
  <1>5. CASE ~(ApproveDelivery \/ AutoApprove)
    <2>1. UNCHANGED <<payouts, sweep, ledger>>
      BY <1>5
      DEF OrdersNext, SubmitDelivery, RequestRevision, AutoApproveReads, Cancel,
          SweepUnpaid, CancelRequest, TimerElapses, DisputeWindowCloses
    <2> QED BY <1>1, <2>1, CreditKept
  <1> QED BY <1>3, <1>4, <1>5

LEMMA CreditOfDisputes ==
    ASSUME TypeOK, MoneyInv, DeskInv, CreditInv, SplitsAgree, DisputesNext
    PROVE  CreditInv'
  <1> USE DEF rows, sessions
  <1>1. ledger.expert_credit >= 0 /\ payouts \in Seq(PayoutRow)
    BY DEF CreditInv, TypeOK
  <1>2. ASSUME NEW s \in Staff, NEW to, NEW a \in Int, ResolveTo(s, to),
               to # "disputed", RefundAllowed(a), payment' = RefundedPayment(a),
               ledger' = RefundedLedger(a),
               payouts' \in {VoidedPayouts, CorrectedPayouts(ledger'.expert_credit)}
        PROVE  CreditInv'
    <2>1. order'.paid = order.paid /\ UNCHANGED sweep
      BY <1>2, ResolveToBooks DEF ResolveTo
    <2>2. ledger'.expert_credit >= 0
      BY <1>2, <2>1, FirstRefund, CreditLeft
    <2>3. /\ DOMAIN payouts' = DOMAIN payouts
          /\ \A i \in DOMAIN payouts :
                payouts'[i].amount \in {payouts[i].amount, ledger'.expert_credit}
      <3>1. \A i \in DOMAIN payouts : payouts[i] \in PayoutRow
        BY <1>1, ElementOfSeq
      <3>2. DOMAIN payouts' = DOMAIN payouts
        BY <1>2, SameLength
      <3> QED BY <1>2, <3>1, <3>2 DEF VoidedPayouts, CorrectedPayouts, PayoutRow
    <2> QED BY <2>1, <2>2, <2>3 DEF CreditInv
  <1>3. ASSUME NEW s \in Staff, Resolve(s)
        PROVE  CreditInv'
    <2>1. CASE RefundInFull(s)
      BY <1>2, <2>1, Fields DEF RefundInFull, Refundable
    <2>2. ASSUME NEW a \in 1 .. Amount, RefundInPart(s, a)
          PROVE  CreditInv'
      BY <1>2, <2>2 DEF RefundInPart
    <2>3. CASE ReleaseToExpert(s) \/ CloseNoFault(s)
      BY <1>1, <1>3, <2>3, ResolveTargets, CreditKept DEF ReleaseToExpert, CloseNoFault
    <2> QED BY <1>3, <2>1, <2>2, <2>3 DEF Resolve
  <1>4. CASE OpenDispute
    BY <1>1, <1>4, CreditKept DEF OpenDispute
  <1>5. ASSUME NEW s \in Staff, NEW to, ReadCase(s) \/ MoveCase(s, to)
        PROVE  CreditInv'
    BY <1>1, <1>5, CreditKept DEF ReadCase, MoveCase
  <1> QED BY <1>3, <1>4, <1>5 DEF DisputesNext, CloseCase

LEMMA CreditStays == ASSUME OneDesk, SplitsAgree PROVE Spec => [](DeskInv /\ CreditInv)
  <1>1. Init => DeskInv /\ CreditInv
    BY DEF Init, DeskInv, CreditInv, None
  <1>2. TypeOK /\ MoneyInv /\ DeskInv /\ CreditInv /\ [Next]_vars => CreditInv'
    <2>1. ASSUME CreditInv, UNCHANGED vars PROVE CreditInv'
      BY <2>1, CreditKept DEF vars, rows, sessions, CreditInv
    <2> QED BY <2>1, CreditOfPayments, CreditOfOrders, CreditOfDisputes DEF Next
  <1>3. TypeOK /\ MoneyInv /\ DeskInv /\ [Next]_vars => DeskInv'
    BY DeskStep
  <1> QED BY <1>1, <1>2, <1>3, TypeCorrect, MoneyIsInvariant, PTL DEF Spec

LEMMA DeskStays == ASSUME OneDesk PROVE Spec => []DeskInv
  <1>1. Init => DeskInv
    BY DEF Init, DeskInv, None
  <1>2. TypeOK /\ MoneyInv /\ DeskInv /\ [Next]_vars => DeskInv'
    BY DeskStep
  <1> QED BY <1>1, <1>2, TypeCorrect, MoneyIsInvariant, PTL DEF Spec

LEMMA ResolvedStep ==
    ASSUME TypeOK, DeskInv, Next, dispute.status \in {"resolved", "closed"}
    PROVE  dispute'.status \in {"resolved", "closed"}
  <1> USE DEF rows, sessions
  <1>1. CASE PaymentsNext \/ OrdersNext
    <2>1. UNCHANGED dispute
      BY <1>1
      DEF PaymentsNext, ReadOrderToPay, StartPayment, RearmPayment, ConfirmPayment,
          ConfirmFails, FailHookReads, FailHookSaves, AdminFullRefund, SweepLists,
          SweepChecks, SweepCreates, SettlePayout, FailPayout,
          OrdersNext, SubmitDelivery, RequestRevision, ApproveDelivery, ApproveRows,
          AutoApproveReads, AutoApprove, Cancel, SweepUnpaid, CancelRequest,
          TimerElapses, DisputeWindowCloses
    <2> QED BY <2>1
  <1>2. CASE OpenDispute
    BY <1>2 DEF OpenDispute, None
  <1>3. ASSUME NEW s \in Staff, ReadCase(s)
        PROVE  dispute'.status \in {"resolved", "closed"}
    BY <1>3 DEF ReadCase
  <1>4. ASSUME NEW s \in Staff, NEW to, MoveCase(s, to)
        PROVE  dispute'.status \in {"resolved", "closed"}
    <2>1. caseFile[s] = dispute.status
      BY <1>4 DEF DeskInv, MoveCase, CASE_TRANSITIONS, None
    <2>2. to = "closed"
      BY <1>4, <2>1 DEF MoveCase, CASE_TRANSITIONS
    <2> QED BY <1>4, <2>2 DEF MoveCase, TypeOK, DisputeRow
  <1>5. ASSUME NEW s \in Staff, Resolve(s)
        PROVE  dispute'.status \in {"resolved", "closed"}
    <2>1. PICK to : ResolveTo(s, to)
      BY <1>5, ResolveRows
    <2> QED BY <2>1 DEF ResolveTo, TypeOK, DisputeRow
  <1> QED BY <1>1, <1>2, <1>3, <1>4, <1>5 DEF Next, DisputesNext, CloseCase

\* "A resolved dispute is never reopened": true as long as one support account works
\* the cases, whose view of a case is then the case.
THEOREM ResolvedForGood == ASSUME OneDesk PROVE Spec => ResolvedStaysResolved
  <1>1. TypeOK /\ DeskInv /\ [Next]_vars
          => [dispute.status \in {"resolved", "closed"} =>
                dispute'.status \in {"resolved", "closed"}]_vars
    BY ResolvedStep
  <1> QED BY <1>1, TypeCorrect, DeskStays, PTL DEF Spec, ResolvedStaysResolved

\* How far the expert's credit is from the booked credit's share of what was not
\* refunded, in units of 1 / Amount.
CreditOff == Amount * ledger.expert_credit - (Amount - payment.refunded) * BookedCredit

\* The expert bears exactly the credit's proportion of a refund, to half a unit.
CreditIsFair == order.paid => -Amount <= 2 * CreditOff /\ 2 * CreditOff <= Amount

\* Nothing refunded: the credit is the booked one.
LEMMA FairBeforeRefund == TypeOK /\ MoneyInv /\ payment.refunded = 0 => CreditIsFair
  <1> SUFFICES ASSUME TypeOK, MoneyInv, payment.refunded = 0, order.paid
               PROVE  -Amount <= 2 * CreditOff /\ 2 * CreditOff <= Amount
    BY DEF CreditIsFair
  <1>1. ledger.expert_credit = BookedCredit
    BY DEF MoneyInv, RefundHistory
  <1>2. Amount * BookedCredit - (Amount - 0) * BookedCredit = 0
    BY Fields, BookedParts
  <1>3. CreditOff = 0
    BY <1>1, <1>2 DEF CreditOff
  <1> QED BY <1>3, Fields

\* A first refund of a: what the reversed commission is off, the credit is.
LEMMA FairRefund ==
    ASSUME TypeOK, MoneyInv, SplitsAgree, NEW a \in 1 .. Amount, Refunds(a),
           payment.refunded = 0
    PROVE  CreditIsFair'
  <1> DEFINE f == ReversedCommission(a)
             g == ReversedCredit(a)
             c == BookedCredit
  <1>1. /\ payment'.refunded = a /\ ledger'.expert_credit = c - g
    <2>1. /\ a \in Int /\ RefundAllowed(a) /\ payment' = RefundedPayment(a)
          /\ ledger' = RefundedLedger(a) /\ order'.paid = order.paid
      BY DEF Refunds
    <2>2. /\ payment'.refunded = payment.refunded + a
          /\ ledger'.expert_credit = BookedCredit - ReversedCredit(a)
      BY <2>1, RefundBooks
    <2> QED BY <2>2
  <1>2. a \in Nat /\ Amount \in Nat /\ f \in Nat /\ g \in Nat /\ f + g = a
    BY ReversedParts, MoneyAssumption
  <1>3. /\ Commission \in Nat /\ Amount - Commission \in Nat
        /\ Commission + (Amount - Commission) = Amount /\ Amount > 0
        /\ c = Amount - Commission
    BY MoneyAssumption DEF SplitsAgree, BookedCredit, BookedCommission
  <1>4. LET off == FirstShare(a, Commission, Amount - Commission)
                     * (Commission + (Amount - Commission)) - a * Commission
        IN  /\ -(Commission + (Amount - Commission)) <= 2 * off
            /\ 2 * off <= Commission + (Amount - Commission)
    BY <1>2, <1>3, ShareIsNearest
  <1>5. /\ -Amount <= 2 * (f * Amount - a * Commission)
        /\ 2 * (f * Amount - a * Commission) <= Amount
    BY <1>3, <1>4 DEF ReversedCommission
  <1> HIDE DEF f, g, c
  <1>6. Amount * (c - g) - (Amount - a) * c = f * Amount - a * Commission
    <2>1. /\ Amount * (c - g) = Amount * c - Amount * g
          /\ (Amount - a) * c = Amount * c - a * c
          /\ a * c = a * Amount - a * Commission
          /\ Amount * g = a * Amount - f * Amount
      BY <1>2, <1>3
    <2>2. /\ Amount * c \in Int /\ Amount * g \in Int /\ a * c \in Int /\ a * Amount \in Int
          /\ f * Amount \in Int /\ a * Commission \in Int
      BY <1>2, <1>3
    <2> QED BY <2>1, <2>2
  <1>7. CreditOff' = f * Amount - a * Commission
    BY <1>1, <1>6 DEF CreditOff, c, BookedCredit, BookedCommission
  <1> QED BY <1>5, <1>7 DEF CreditIsFair

\* The split of a refund is fair: with one support account at most one part of a
\* charge is ever refunded, so the credit the ledger shows is never more than half a
\* unit off the booked credit's share of what the student has not got back.
THEOREM RefundsAreFair == ASSUME OneDesk, SplitsAgree PROVE Spec => []CreditIsFair
  <1> DEFINE Unrefunded == payment.refunded = 0
  <1>1. Init => CreditIsFair
    BY DEF Init, CreditIsFair
  <1>2. TypeOK /\ MoneyInv /\ DeskInv /\ CreditIsFair /\ [Next]_vars
        => CreditIsFair' \/ Unrefunded'
    <2> SUFFICES ASSUME TypeOK, MoneyInv, DeskInv, CreditIsFair, [Next]_vars
                 PROVE  CreditIsFair' \/ Unrefunded'
      OBVIOUS
    <2>1. CASE UNCHANGED vars \/ BooksKept
      <3>1. /\ order'.paid = order.paid /\ payment'.refunded = payment.refunded
            /\ ledger'.expert_credit = ledger.expert_credit
        BY <2>1 DEF vars, rows, BooksKept
      <3>2. CreditOff' = CreditOff
        BY <3>1 DEF CreditOff, BookedCredit, BookedCommission
      <3> QED BY <3>1, <3>2 DEF CreditIsFair
    <2>2. CASE ConfirmPayment
      <3>1. payment'.refunded = 0
        BY <2>2, Fields DEF ConfirmPayment, MoneyInv, ChargedOnce, RefundsOnRecord,
                            TypeOK, PaymentRow
      <3> QED BY <3>1
    <2>3. ASSUME NEW a \in 1 .. Amount, Refunds(a) PROVE CreditIsFair'
      <3>1. payment.refunded = 0
        BY <2>3, FirstRefund DEF Refunds
      <3> QED BY <2>3, <3>1, FairRefund
    <2> QED BY <2>1, <2>2, <2>3, BooksMoveBy
  <1>3. TypeOK /\ MoneyInv /\ Unrefunded => CreditIsFair
    BY FairBeforeRefund
  <1> HIDE DEF Unrefunded
  <1> QED BY <1>1, <1>2, <1>3, TypeCorrect, MoneyIsInvariant, DeskStays, PTL DEF Spec

\* A paid row, what the escrow calls settled.
Settled == \E i \in DOMAIN payouts : payouts[i].status = "paid"

\* A step that moves none of the sums and settles nothing is a stutter of the escrow.
LEMMA Stutter ==
    ASSUME ledger'.charge = ledger.charge, ledger'.refund = ledger.refund,
           ledger'.payout = ledger.payout, Settled' <=> Settled
    PROVE  UNCHANGED Promise!escrowVars
  BY DEF Promise!escrowVars, Settled

\* A refund gives something back, up to what was collected.
LEMMA ReturnStep ==
    ASSUME TypeOK, MoneyInv, NEW a \in Int, RefundAllowed(a),
           payment' = RefundedPayment(a), ledger' = RefundedLedger(a),
           order'.paid = order.paid, Settled' <=> Settled
    PROVE  Promise!Return
  <1>1. /\ ledger'.charge = ledger.charge /\ ledger'.payout = ledger.payout
        /\ ledger'.refund = ledger.refund - a
    BY DEF RefundedLedger, TypeOK, LedgerSums
  <1>2. payment'.refunded = payment.refunded + a
    BY DEF RefundedPayment
  <1>3. /\ ledger.refund + payment.refunded = 0
        /\ ledger.charge = Amount
    BY RefundBooks DEF MoneyInv, RefundsOnRecord, ChargedOnce
  <1>4. 0 < a /\ a <= Amount - payment.refunded
    BY DEF RefundAllowed, Refundable
  <1>5. -(ledger'.refund) \in (-ledger.refund) + 1 .. ledger.charge
    BY <1>1, <1>3, <1>4, Fields
  <1> QED BY <1>1, <1>5 DEF Promise!Return, Settled

LEMMA EscrowOfPayments ==
    ASSUME TypeOK, MoneyInv, PayoutInv, CreditInv, OneSweeper, PaymentsNext
    PROVE  [Promise!EscrowNext]_(Promise!escrowVars)
  <1> USE DEF rows, sessions
  <1>1. CASE ReadOrderToPay \/ StartPayment \/ RearmPayment \/ ConfirmFails
             \/ FailHookReads \/ FailHookSaves
    <2>1. UNCHANGED <<ledger, payouts>>
      BY <1>1 DEF ReadOrderToPay, StartPayment, RearmPayment, ConfirmFails,
                  FailHookReads, FailHookSaves
    <2> QED BY <2>1, Stutter DEF Settled
  <1>2. CASE ConfirmPayment
    <2>1. /\ ledger.charge = 0
          /\ ledger'.charge = Amount /\ ledger'.refund = ledger.refund
          /\ ledger'.payout = ledger.payout /\ UNCHANGED payouts
      BY <1>2, Fields DEF ConfirmPayment, MoneyInv, ChargedOnce, TypeOK, LedgerSums
    <2> QED BY <2>1 DEF Promise!EscrowNext, Promise!Collect
  <1>3. CASE AdminFullRefund
    <2>1. /\ Refundable \in Int /\ RefundAllowed(Refundable)
          /\ payment' = RefundedPayment(Refundable)
          /\ ledger' = RefundedLedger(Refundable)
          /\ UNCHANGED <<order, payouts>>
      BY <1>3, Fields DEF AdminFullRefund, Refundable
    <2> QED BY <2>1, ReturnStep DEF Promise!EscrowNext, Settled
  <1>4. ASSUME NEW w \in Sweepers, SweepLists(w) \/ SweepChecks(w)
        PROVE  UNCHANGED Promise!escrowVars
    <2>1. UNCHANGED <<ledger, payouts>>
      BY <1>4 DEF SweepLists, SweepChecks
    <2> QED BY <2>1, Stutter DEF Settled
  <1>5. ASSUME NEW w \in Sweepers, SweepCreates(w)
        PROVE  UNCHANGED Promise!escrowVars
    <2>1. payouts = <<>> /\ UNCHANGED ledger
      BY <1>5 DEF SweepCreates, PayoutInv, PayoutBooks
    <2>2. payouts' = <<NewPayout(sweep[w].amount)>>
      BY <1>5, <2>1 DEF SweepCreates
    <2>3. ~Settled /\ ~Settled'
      BY <2>1, <2>2 DEF Settled, NewPayout
    <2> QED BY <2>1, <2>3, Stutter
  <1>6. ASSUME NEW i \in DOMAIN payouts, SettlePayout(i) \/ FailPayout(i)
        PROVE  [Promise!EscrowNext]_(Promise!escrowVars)
    <2>1. PICK p \in PayoutRow : payouts = <<p>>
      BY NoneOrOne DEF PayoutInv
    <2>2. /\ i = 1 /\ payouts[1] = p /\ DOMAIN payouts = {1} /\ payouts # <<>>
          /\ p.amount \in Int /\ p.amount <= BookedCredit /\ p.amount >= 0
      BY <2>1, PayoutFields DEF PayoutInv, PayoutBooks, CreditInv
    <2>3. ~Settled /\ p.status # "paid"
      BY <1>6, <2>2 DEF Settled, SettlePayout, FailPayout
    <2>4. ledger.payout = 0
      BY <2>2, <2>3, NothingTransferred DEF PayoutInv
    <2>5. CASE SettlePayout(i)
      <3>1. ledger.charge = Amount
        BY <2>2 DEF PayoutInv, PayoutBooks, Settling, MoneyInv, ChargedOnce
      <3>2. /\ ledger'.payout = ledger.payout - p.amount
            /\ ledger'.charge = ledger.charge /\ ledger'.refund = ledger.refund
        BY <2>2, <2>5 DEF SettlePayout, TypeOK, LedgerSums
      <3>3. -(ledger'.payout) \in 0 .. BookedCredit
        BY <2>2, <2>4, <3>2, BookedParts
      <3>4. payouts' = <<[p EXCEPT !.status = "paid"]>>
        BY <2>1, <2>2, <2>5 DEF SettlePayout
      <3>5. Settled'
        BY <3>4 DEF Settled, PayoutRow
      <3> QED BY <2>3, <3>1, <3>2, <3>3, <3>5
              DEF Promise!EscrowNext, Promise!PayOut, Settled
    <2>6. CASE FailPayout(i)
      <3>1. payouts' = <<[p EXCEPT !.status = "failed"]>> /\ UNCHANGED ledger
        BY <2>1, <2>2, <2>6 DEF FailPayout
      <3>2. ~Settled'
        BY <3>1 DEF Settled, PayoutRow
      <3> QED BY <2>3, <3>1, <3>2, Stutter
    <2> QED BY <1>6, <2>5, <2>6
  <1> QED BY <1>1, <1>2, <1>3, <1>4, <1>5, <1>6 DEF PaymentsNext

LEMMA EscrowOfOrders ==
    ASSUME TypeOK, PayoutNeedsCompletion, OrdersNext
    PROVE  UNCHANGED Promise!escrowVars
  <1> USE DEF rows, sessions
  <1>1. UNCHANGED ledger
    BY DEF OrdersNext, SubmitDelivery, RequestRevision, ApproveDelivery, ApproveRows,
           AutoApproveReads, AutoApprove, Cancel, SweepUnpaid, CancelRequest,
           TimerElapses, DisputeWindowCloses
  <1>2. CASE UNCHANGED payouts
    BY <1>1, <1>2, Stutter DEF Settled
  <1>3. ASSUME ApproveRows
        PROVE  UNCHANGED Promise!escrowVars
    <2>1. payouts = <<>>
      BY <1>3, NeedsCompletionIs DEF ApproveRows, Finished, Settling
    <2>2. payouts' \in {<<>>, <<NewPayout(ledger.expert_credit)>>}
      BY <1>3, <2>1 DEF ApproveRows, ScheduledPayouts
    <2>3. ~Settled /\ ~Settled'
      BY <2>1, <2>2 DEF Settled, NewPayout
    <2> QED BY <1>1, <2>3, Stutter
  <1> QED BY <1>2, <1>3
          DEF OrdersNext, SubmitDelivery, RequestRevision, ApproveDelivery,
              AutoApproveReads, AutoApprove, Cancel, SweepUnpaid, CancelRequest,
              TimerElapses, DisputeWindowCloses

\* Voiding or correcting a payout leaves what is paid, and nothing else, paid.
LEMMA PaidStaysPaid ==
    ASSUME TypeOK, payouts' = VoidedPayouts \/ \E c : payouts' = CorrectedPayouts(c)
    PROVE  Settled' <=> Settled
  <1>1. /\ DOMAIN payouts' = DOMAIN payouts
        /\ \A i \in DOMAIN payouts : payouts'[i].status = "paid" <=> payouts[i].status = "paid"
    <2>1. \A i \in DOMAIN payouts : payouts[i] \in PayoutRow
      BY ElementOfSeq DEF TypeOK
    <2>2. DOMAIN payouts' = DOMAIN payouts
      BY SameLength
    <2> QED BY <2>1, <2>2 DEF VoidedPayouts, CorrectedPayouts, FirstUnpaid, PayoutRow
  <1> QED BY <1>1 DEF Settled

LEMMA EscrowOfDisputes ==
    ASSUME TypeOK, MoneyInv, DisputesNext
    PROVE  [Promise!EscrowNext]_(Promise!escrowVars)
  <1> USE DEF rows, sessions
  <1>1. CASE UNCHANGED <<ledger, payouts>>
    BY <1>1, Stutter DEF Settled
  <1>2. ASSUME NEW s \in Staff, Resolve(s)
        PROVE  [Promise!EscrowNext]_(Promise!escrowVars)
    <2>1. order'.paid = order.paid
      BY <1>2, ResolveTargets
    <2>2. CASE RefundInFull(s)
      <3>1. Promise!Return
        BY <2>1, <2>2, Fields, ReturnStep, PaidStaysPaid DEF RefundInFull, Refundable
      <3> QED BY <3>1 DEF Promise!EscrowNext
    <2>3. ASSUME NEW a \in 1 .. Amount, RefundInPart(s, a)
          PROVE  Promise!Return
      <3>1. a \in Int /\ (Settled' <=> Settled)
        BY <2>3, PaidStaysPaid DEF RefundInPart
      <3> QED BY <2>1, <2>3, <3>1, ReturnStep DEF RefundInPart
    <2>4. CASE ReleaseToExpert(s) \/ CloseNoFault(s)
      BY <1>1, <2>4 DEF ReleaseToExpert, CloseNoFault
    <2> QED BY <1>2, <2>2, <2>3, <2>4 DEF Resolve, Promise!EscrowNext
  <1>3. CASE OpenDispute
    BY <1>1, <1>3 DEF OpenDispute
  <1>4. ASSUME NEW s \in Staff, NEW to, ReadCase(s) \/ MoveCase(s, to)
        PROVE  [Promise!EscrowNext]_(Promise!escrowVars)
    BY <1>1, <1>4 DEF ReadCase, MoveCase
  <1> QED BY <1>2, <1>3, <1>4 DEF DisputesNext, CloseCase

\* The rows of an order implement the escrow: with one sweeper, one support
\* account and a booked commission that is the snapshot, every step of the
\* services, the admin and the jobs is a collection, a return, the one transfer
\* or nothing to the money.
THEOREM OrderImplementsEscrow ==
    ASSUME OneSweeper, OneDesk, SplitsAgree
    PROVE  Spec => ImplementsEscrow
  <1>1. Init => Promise!EscrowInit
    <2> SUFFICES ASSUME Init PROVE Promise!EscrowInit
      OBVIOUS
    <2>1. ledger.charge = 0 /\ ledger.refund = 0 /\ ledger.payout = 0
      BY DEF Init
    <2>2. -ledger.refund = 0 /\ -ledger.payout = 0
      BY <2>1, Zenon, NegatedZero
    <2>3. ~Settled
      BY DEF Init, Settled
    <2> QED BY <2>1, <2>2, <2>3 DEF Promise!EscrowInit, Settled
  <1>2. /\ TypeOK /\ MoneyInv /\ PayoutNeedsCompletion /\ PayoutInv /\ CreditInv
        /\ [Next]_vars
        => [Promise!EscrowNext]_(Promise!escrowVars)
    <2>1. ASSUME UNCHANGED vars PROVE UNCHANGED Promise!escrowVars
      BY <2>1, Stutter DEF vars, rows, Settled
    <2> QED BY <2>1, EscrowOfPayments, EscrowOfOrders, EscrowOfDisputes DEF Next
  <1> QED BY <1>1, <1>2, TypeCorrect, MoneyIsInvariant, PayoutsFollowCompletion,
             PayoutsAreBooked, CreditStays, PTL
          DEF Spec, ImplementsEscrow, Promise!EscrowSpec

-----------------------------------------------------------------------------
(* The order's own history, again for one support account: with two, an old *)
(* request can put a delivered order back to the revision before.           *)

\* Where the order is, or the dispute has found it.
Stage == IF order.status = "disputed" THEN dispute.prior ELSE order.status

\* The deliveries follow the counter, at every stage; and a case is open only as
\* long as its order is disputed, so that a decision finds the stage it restores.
HistoryInv ==
    /\ RevisionHistory
    /\ Stage \in {"awaiting_payment", "active"} =>
          order.revisions_used = 0 /\ deliveries[0] = None
    /\ Stage = "revision_requested" => deliveries[order.revisions_used] = None
    /\ Stage = "delivered" => deliveries[order.revisions_used] # None
    /\ dispute.status \in {"open", "under_review", "awaiting_response"} =>
          order.status \in {"disputed", "cancelled"}

LEMMA RevisionTypes ==
    ASSUME TypeOK
    PROVE  /\ RevisionsAllowed \in Nat /\ 0 \in Revisions
           /\ order.revisions_used \in Revisions /\ Revisions \subseteq Nat
           /\ deliveries \in [Revisions -> DeliveryStatus \cup {None}]
  BY LimitAssumption DEF TypeOK, OrderRow, Revisions

\* Steps that leave the deliveries, the counter and the stage, or end the order.
LEMMA HistoryKept ==
    ASSUME HistoryInv, UNCHANGED <<deliveries, dispute>>,
           order'.revisions_used = order.revisions_used,
           order'.status \in {order.status, "cancelled"}
    PROVE  HistoryInv'
  <1>1. RevisionHistory'
    BY DEF HistoryInv, RevisionHistory
  <1> QED BY <1>1 DEF HistoryInv, Stage

\* The latest delivery of a delivered order is the one under the counter.
LEMMA LatestIsCounted ==
    ASSUME TypeOK, HistoryInv, order.status = "delivered", NEW r \in Revisions
    PROVE  IsLatest(r) <=> r = order.revisions_used
  <1>1. deliveries[order.revisions_used] # None
    BY DEF HistoryInv, Stage
  <1>2. \A q \in Revisions : q > order.revisions_used => deliveries[q] = None
    BY DEF HistoryInv, RevisionHistory
  <1> QED BY <1>1, <1>2, RevisionTypes DEF IsLatest

LEMMA HistoryOfOrders ==
    ASSUME TypeOK, HistoryInv, OrdersNext
    PROVE  HistoryInv'
  <1> USE DEF rows, sessions
  <1> DEFINE used == order.revisions_used
  <1>1. /\ used \in Nat /\ used \in Revisions /\ 0 \in Revisions /\ Revisions \subseteq Nat
        /\ deliveries \in [Revisions -> DeliveryStatus \cup {None}]
    BY RevisionTypes
  <1>2. CASE SubmitDelivery
    <2>1. NextRevision = used /\ deliveries[used] = None
      BY <1>2 DEF SubmitDelivery, NextRevision, HistoryInv, Stage
    <2>2. /\ deliveries' = [deliveries EXCEPT ![used] = "submitted"]
          /\ order'.status = "delivered" /\ order'.revisions_used = used
          /\ order.status \in {"active", "revision_requested"}
          /\ UNCHANGED dispute
      BY <1>2, <2>1 DEF SubmitDelivery, Delivered, TypeOK, OrderRow
    <2>3. deliveries'[used] = "submitted"
          /\ \A r \in Revisions : r # used => deliveries'[r] = deliveries[r]
      BY <1>1, <2>2
    <2>4. RevisionHistory'
      BY <1>1, <2>2, <2>3 DEF HistoryInv, RevisionHistory
    <2> QED BY <2>2, <2>3, <2>4 DEF HistoryInv, Stage, None
  <1>3. CASE RequestRevision
    <2>1. /\ order.status = "delivered" /\ used < RevisionsAllowed
          /\ order'.status = "revision_requested" /\ order'.revisions_used = used + 1
          /\ UNCHANGED dispute
      BY <1>3 DEF RequestRevision, RevisionLeft, TypeOK, OrderRow
    <2>2. used + 1 \in Revisions
      BY <1>1, <2>1, LimitAssumption DEF Revisions
    <2>3. /\ deliveries'[used] = "revision_requested"
          /\ \A r \in Revisions : r # used => deliveries'[r] = deliveries[r]
      BY <1>1, <1>3, <2>1, LatestIsCounted DEF RequestRevision, DeliveriesMarked
    <2>4. RevisionHistory' /\ deliveries'[used + 1] = None
      <3>1. \A r \in Revisions : r < used => deliveries[r] = "revision_requested"
        BY DEF HistoryInv, RevisionHistory
      <3>2. \A r \in Revisions : r > used => deliveries[r] = None
        BY DEF HistoryInv, RevisionHistory
      <3> QED BY <1>1, <2>1, <2>2, <2>3, <3>1, <3>2 DEF RevisionHistory, None
    <2> QED BY <2>1, <2>4 DEF HistoryInv, Stage
  <1>4. ASSUME ApproveRows
        PROVE  HistoryInv'
    <2>1. /\ order.status = "delivered" /\ order'.status = "completed"
          /\ order'.revisions_used = used /\ UNCHANGED dispute
      BY <1>4 DEF ApproveRows, TypeOK, OrderRow
    <2>2. /\ deliveries'[used] = "approved"
          /\ \A r \in Revisions : r # used => deliveries'[r] = deliveries[r]
      BY <1>1, <1>4, <2>1, LatestIsCounted DEF ApproveRows, DeliveriesMarked
    <2>3. RevisionHistory'
      BY <1>1, <2>1, <2>2 DEF HistoryInv, RevisionHistory
    <2> QED BY <2>1, <2>3 DEF HistoryInv, Stage
  <1>5. CASE ApproveDelivery
    BY <1>4, <1>5 DEF ApproveDelivery
  <1>6. CASE AutoApprove
    BY <1>4, <1>6, HistoryKept DEF AutoApprove
  <1>7. CASE AutoApproveReads \/ CancelRequest
    BY <1>7, HistoryKept DEF AutoApproveReads, CancelRequest
  <1>8. CASE Cancel \/ SweepUnpaid \/ TimerElapses \/ DisputeWindowCloses
    BY <1>8, HistoryKept
    DEF Cancel, SweepUnpaid, TimerElapses, DisputeWindowCloses, TypeOK, OrderRow
  <1> QED BY <1>2, <1>3, <1>5, <1>6, <1>7, <1>8 DEF OrdersNext

LEMMA HistoryOfDisputes ==
    ASSUME TypeOK, MoneyInv, DeskInv, HistoryInv, DisputesNext
    PROVE  HistoryInv'
  <1> USE DEF rows, sessions
  <1>1. CASE OpenDispute
    <2>1. /\ order.status \in {"active", "delivered", "revision_requested", "completed"}
          /\ order'.status = "disputed" /\ order'.revisions_used = order.revisions_used
          /\ dispute'.prior = order.status /\ UNCHANGED deliveries
      BY <1>1 DEF OpenDispute, Frozen, TypeOK, OrderRow
    <2>2. Stage' = Stage
      BY <2>1 DEF Stage
    <2>3. RevisionHistory'
      BY <2>1 DEF HistoryInv, RevisionHistory
    <2> QED BY <2>1, <2>2, <2>3 DEF HistoryInv
  <1>2. ASSUME NEW s \in Staff, ReadCase(s)
        PROVE  HistoryInv'
    BY <1>2, HistoryKept DEF ReadCase
  <1>3. ASSUME NEW s \in Staff, NEW to, MoveCase(s, to)
        PROVE  HistoryInv'
    <2>1. /\ UNCHANGED <<order, deliveries>>
          /\ dispute'.status = to /\ dispute'.prior = dispute.prior
          /\ <<caseFile[s], to>> \in CASE_TRANSITIONS
      BY <1>3 DEF MoveCase, TypeOK, DisputeRow
    <2>2. caseFile[s] = dispute.status
      BY <2>1 DEF DeskInv, CASE_TRANSITIONS, None
    <2>3. to \in {"open", "under_review", "awaiting_response"} =>
            dispute.status \in {"open", "under_review", "awaiting_response"}
      BY <2>1, <2>2 DEF CASE_TRANSITIONS
    <2>4. RevisionHistory' /\ Stage' = Stage
      BY <2>1 DEF HistoryInv, RevisionHistory, Stage
    <2> QED BY <2>1, <2>3, <2>4 DEF HistoryInv
  <1>4. ASSUME NEW s \in Staff, Resolve(s)
        PROVE  HistoryInv'
    <2>1. PICK to \in {"cancelled", "completed", dispute.prior} :
             /\ to # "disputed"
             /\ to = order.status \/ CanMove(order.status, to)
             /\ order'.status = to
             /\ dispute'.prior = dispute.prior
      BY <1>4, ResolveTargets
    <2>2. PICK any : ResolveTo(s, any)
      BY <1>4, ResolveRows
    <2>3. /\ caseFile[s] = "under_review" /\ dispute'.status = "resolved"
          /\ order'.revisions_used = order.revisions_used /\ UNCHANGED deliveries
      BY <2>2 DEF ResolveTo, CASE_TRANSITIONS, TypeOK, OrderRow, DisputeRow
    <2>4. order.status \in {"disputed", "cancelled"}
      BY <2>3 DEF DeskInv, HistoryInv, None
    <2>5. \/ to \in {"cancelled", "completed"}
          \/ to = dispute.prior /\ order.status = "disputed"
      BY <2>1, <2>4 DEF CanMove, TRANSITIONS
    <2>6. Stage' \in {"cancelled", "completed", Stage}
      BY <2>1, <2>5 DEF Stage
    <2>7. RevisionHistory'
      BY <2>3 DEF HistoryInv, RevisionHistory
    <2> QED BY <2>3, <2>6, <2>7 DEF HistoryInv
  <1> QED BY <1>1, <1>2, <1>3, <1>4 DEF DisputesNext, CloseCase

LEMMA HistoryStays == ASSUME OneDesk PROVE Spec => []HistoryInv
  <1>1. Init => DeskInv /\ HistoryInv
    <2> SUFFICES ASSUME Init PROVE DeskInv /\ HistoryInv
      OBVIOUS
    <2>1. DeskInv
      BY DEF Init, DeskInv, None
    <2>2. /\ order.status = "awaiting_payment" /\ order.revisions_used = 0
          /\ dispute.status = None /\ \A r \in Revisions : deliveries[r] = None
      BY DEF Init
    <2>3. 0 \in Revisions
      BY LimitAssumption DEF Revisions
    <2>4. RevisionHistory
      BY <2>2 DEF RevisionHistory, Revisions, None
    <2> QED BY <2>1, <2>2, <2>3, <2>4 DEF HistoryInv, Stage, None
  <1>2. TypeOK /\ MoneyInv /\ DeskInv /\ HistoryInv /\ [Next]_vars => HistoryInv'
    <2> USE DEF rows, sessions
    <2>1. ASSUME HistoryInv, UNCHANGED vars PROVE HistoryInv'
      BY <2>1, HistoryKept DEF vars
    <2>2. ASSUME TypeOK, HistoryInv, PaymentsNext PROVE HistoryInv'
      <3>1. CASE ConfirmPayment
        <4>1. /\ order.status = "awaiting_payment" /\ order'.status = "active"
              /\ order'.revisions_used = order.revisions_used
              /\ UNCHANGED <<deliveries, dispute>>
          BY <3>1 DEF ConfirmPayment, Confirmable, TypeOK, OrderRow
        <4>2. RevisionHistory'
          BY <2>2, <4>1 DEF HistoryInv, RevisionHistory
        <4> QED BY <2>2, <4>1, <4>2 DEF HistoryInv, Stage
      <3>2. CASE ~ConfirmPayment
        <4>1. UNCHANGED <<order, deliveries, dispute>>
          BY <2>2, <3>2
          DEF PaymentsNext, ReadOrderToPay, StartPayment, RearmPayment, ConfirmFails,
              FailHookReads, FailHookSaves, AdminFullRefund, SweepLists, SweepChecks,
              SweepCreates, SettlePayout, FailPayout
        <4> QED BY <2>2, <4>1, HistoryKept
      <3> QED BY <3>1, <3>2
    <2> QED BY <2>1, <2>2, HistoryOfOrders, HistoryOfDisputes DEF Next
  <1>3. TypeOK /\ MoneyInv /\ DeskInv /\ [Next]_vars => DeskInv'
    BY DeskStep
  <1> QED BY <1>1, <1>2, <1>3, TypeCorrect, MoneyIsInvariant, PTL DEF Spec

\* The revision counter and the delivery rows tell one story, through disputes and
\* their resolutions, as long as one support account decides them.
THEOREM HistoryIsConsistent == ASSUME OneDesk PROVE Spec => []RevisionHistory
  <1>1. HistoryInv => RevisionHistory
    BY DEF HistoryInv
  <1> QED BY <1>1, HistoryStays, PTL

\* The unique constraint on a delivery's number never refuses the delivery the
\* order is waiting for.
THEOREM NextDeliveryAlwaysFits == ASSUME OneDesk PROVE Spec => []NextDeliveryFits
  <1>1. HistoryInv => NextDeliveryFits
    BY DEF HistoryInv, Stage, NextDeliveryFits, NextRevision
  <1> QED BY <1>1, HistoryStays, PTL

\* What a delivery left waiting is never without its auto-approve timer, through
\* disputes too: the safety half of "no delivery waits for ever".
WaitingIsTimed == order.status = "delivered" => order.auto_approve_at # None

\* The timer stays with the delivery while a dispute holds the order.
StageIsTimed == Stage = "delivered" => order.auto_approve_at # None

\* Steps that keep the timer, and the stage or leave "delivered".
LEMMA TimerKept ==
    ASSUME StageIsTimed, Stage' = "delivered" => Stage = "delivered",
           order'.auto_approve_at \in {order.auto_approve_at, "running", "due"}
    PROVE  StageIsTimed'
  BY DEF StageIsTimed, None

LEMMA TimerOfOrders ==
    ASSUME TypeOK, StageIsTimed, OrdersNext
    PROVE  StageIsTimed'
  <1> USE DEF rows, sessions
  <1>1. CASE SubmitDelivery
    <2>1. order'.auto_approve_at = "running"
      BY <1>1 DEF SubmitDelivery, Delivered, TypeOK, OrderRow
    <2> QED BY <2>1 DEF StageIsTimed, None
  <1>2. CASE RequestRevision
    <2>1. order'.status = "revision_requested"
      BY <1>2 DEF RequestRevision, TypeOK, OrderRow
    <2> QED BY <2>1 DEF StageIsTimed, Stage
  <1>3. ASSUME ApproveRows PROVE StageIsTimed'
    <2>1. order'.status = "completed"
      BY <1>3 DEF ApproveRows, TypeOK, OrderRow
    <2> QED BY <2>1 DEF StageIsTimed, Stage
  <1>4. CASE ApproveDelivery
    BY <1>3, <1>4 DEF ApproveDelivery
  <1>5. CASE AutoApprove
    <2>1. CASE UNCHANGED rows
      BY <2>1, TimerKept DEF Stage
    <2> QED BY <1>3, <1>5, <2>1 DEF AutoApprove
  <1>6. CASE AutoApproveReads \/ CancelRequest
    <2>1. UNCHANGED <<order, dispute>>
      BY <1>6 DEF AutoApproveReads, CancelRequest
    <2> QED BY <2>1, TimerKept DEF Stage
  <1>7. CASE Cancel \/ SweepUnpaid
    <2>1. order'.status = "cancelled"
      BY <1>7 DEF Cancel, SweepUnpaid, TypeOK, OrderRow
    <2> QED BY <2>1 DEF StageIsTimed, Stage
  <1>8. CASE TimerElapses \/ DisputeWindowCloses
    <2>1. /\ order'.status = order.status /\ UNCHANGED dispute
          /\ order'.auto_approve_at \in {order.auto_approve_at, "due"}
      BY <1>8 DEF TimerElapses, DisputeWindowCloses, TypeOK, OrderRow
    <2> QED BY <2>1, TimerKept DEF Stage
  <1> QED BY <1>1, <1>2, <1>4, <1>5, <1>6, <1>7, <1>8 DEF OrdersNext

LEMMA TimerOfDisputes ==
    ASSUME TypeOK, MoneyInv, DeskInv, HistoryInv, StageIsTimed, DisputesNext
    PROVE  StageIsTimed'
  <1> USE DEF rows, sessions
  <1>1. CASE OpenDispute
    <2>1. /\ order.status \in {"active", "delivered", "revision_requested", "completed"}
          /\ order'.status = "disputed" /\ dispute'.prior = order.status
          /\ order'.auto_approve_at = order.auto_approve_at
      BY <1>1 DEF OpenDispute, Frozen, TypeOK, OrderRow
    <2> QED BY <2>1, TimerKept DEF Stage
  <1>2. ASSUME NEW s \in Staff, NEW to, ReadCase(s) \/ MoveCase(s, to)
        PROVE  StageIsTimed'
    <2>1. UNCHANGED order /\ dispute'.prior = dispute.prior
      BY <1>2 DEF ReadCase, MoveCase, TypeOK, DisputeRow
    <2> QED BY <2>1, TimerKept DEF Stage
  <1>3. ASSUME NEW s \in Staff, Resolve(s)
        PROVE  StageIsTimed'
    <2>1. PICK to \in {"cancelled", "completed", dispute.prior} :
             /\ to # "disputed"
             /\ to = order.status \/ CanMove(order.status, to)
             /\ order'.status = to
      BY <1>3, ResolveTargets
    <2>2. PICK any : ResolveTo(s, any)
      BY <1>3, ResolveRows
    <2>3. caseFile[s] = "under_review" /\ order'.auto_approve_at = order.auto_approve_at
      BY <2>2 DEF ResolveTo, CASE_TRANSITIONS, TypeOK, OrderRow
    <2>4. order.status \in {"disputed", "cancelled"}
      BY <2>3 DEF DeskInv, HistoryInv, None
    <2>5. Stage' = "delivered" => Stage = "delivered"
      BY <2>1, <2>4 DEF Stage, CanMove, TRANSITIONS
    <2> QED BY <2>3, <2>5, TimerKept
  <1> QED BY <1>1, <1>2, <1>3 DEF DisputesNext, CloseCase

\* Auto-approval can reach every delivery nobody has reviewed: submission arms the
\* timer, and a dispute that puts the order back has kept it.  What is left for the
\* worker's fairness is only that the clock runs and its job comes round.
THEOREM DeliveriesAreTimed == ASSUME OneDesk PROVE Spec => []WaitingIsTimed
  <1>1. Init => StageIsTimed
    BY DEF Init, StageIsTimed, Stage
  <1>2. TypeOK /\ MoneyInv /\ DeskInv /\ HistoryInv /\ StageIsTimed /\ [Next]_vars
          => StageIsTimed'
    <2> USE DEF rows, sessions
    <2>1. ASSUME StageIsTimed, UNCHANGED vars PROVE StageIsTimed'
      BY <2>1, TimerKept DEF vars, Stage
    <2>2. ASSUME TypeOK, StageIsTimed, PaymentsNext PROVE StageIsTimed'
      <3>1. CASE ConfirmPayment
        <4>1. order'.status = "active"
          BY <2>2, <3>1 DEF ConfirmPayment, TypeOK, OrderRow
        <4> QED BY <4>1 DEF StageIsTimed, Stage
      <3>2. CASE ~ConfirmPayment
        <4>1. UNCHANGED <<order, dispute>>
          BY <2>2, <3>2
          DEF PaymentsNext, ReadOrderToPay, StartPayment, RearmPayment, ConfirmFails,
              FailHookReads, FailHookSaves, AdminFullRefund, SweepLists, SweepChecks,
              SweepCreates, SettlePayout, FailPayout
        <4> QED BY <2>2, <4>1, TimerKept DEF Stage
      <3> QED BY <3>1, <3>2
    <2> QED BY <2>1, <2>2, TimerOfOrders, TimerOfDisputes DEF Next
  <1>3. StageIsTimed => WaitingIsTimed
    BY DEF StageIsTimed, WaitingIsTimed, Stage
  <1> QED BY <1>1, <1>2, <1>3, TypeCorrect, MoneyIsInvariant, DeskStays, HistoryStays, PTL
          DEF Spec
=============================================================================
