# Formal model of the expert marketplace

The repository is a two-sided marketplace: students publish requests, experts are
selected through open bids or a managed desk, and every selection ends in an
`Order` that is paid, delivered, approved, disputed, refunded and paid out. The
backend is Django over PostgreSQL with django-q2 workers (`src/backend/apps`); the
front end (`src/frontend/src`) is a Next.js app whose pages keep copies of what the
server told them and act on those copies.

What can go wrong here is concurrency on rows. Services run under READ COMMITTED,
some of them lock what they test (`select_for_update`) and some do not; views,
webhooks, admin actions and up to four worker processes call them at any time,
and there is no per-request transaction. In the browser it is concurrency on
answers: they are late, lost, or overtaken by later ones. The model is therefore in
three parts: transactions on the rows of one order with the money arithmetic they
book, transactions on the rows of one request until it has its expert, and a browser
tab on each of its pages against the server it talks to.

## Inventory

| Component | State | Operations | Hard part | What makes it correct |
|---|---|---|---|---|
| money arithmetic (`core/money.py`, `payments/config.py`) | none | `commission_split`, `allocate` | rounding | shares add up, nearest unit, bounded drift |
| payments (`payments/`) | `Payment`, `Refund`, `Payout`, append-only `LedgerEntry` | start, re-arm, confirm, fail, void, refund, schedule, settle, fail payout, sweep | unlocked reads before writes, several callers of one confirmation, payouts scheduled long before they are settled | ledger identity, one charge, bounded refunds, one payout |
| webhooks (`payments/webhooks.py`) | `WebhookEvent` | ingest, redeliver, three handlers | duplicates and late events | handlers idempotent on the rows |
| orders (`orders/`) | `Order`, `Delivery`, `OrderEvent`, `DeadlineProposal` | create, activate, deliver, revise, approve, auto-approve, cancel, sweep unpaid, deadlines, reminders | worker jobs with old lists, timers | status table respected, revision loop bounded, every delivery settled |
| disputes (`disputes/`) | `Dispute`, `Order.has_open_dispute` | open, take, await, resume, resolve (five outcomes), close | staff requests that act on a dispute loaded earlier | freeze, one outcome, money as decided |
| service requests (`service_requests/`) | `ServiceRequest` | create, edit, publish, reopen, cancel, match, expire | every status write is unlocked | a matched request has an order, one re-opening |
| bidding (`bidding/`) | `Offer`, `offer_count` | submit, update, withdraw, resubmit, decline, accept, expire | accept locks offer and request; the others lock nothing | an accepted offer is the order's |
| assignments (`assignments/`) | `PoolInvitation`, `DirectAssignment` | triage, invite, assign, supersede, accept, decline, expire | first accept wins across two channels | at most one acceptance |
| experts (`experts/`, apply page) | `ExpertApplication`, `ExpertProfile`; the page's status and credential ids | create, edit, submit, review, approve, reject, suspend, reinstate | staff lock the row, the applicant's saves do not | approved experts have a profile and documents |
| notifications (`notifications/`, bell) | `Notification`, task, stamps; badge and list | notify, prune, deliver (3 attempts), push, mail, mark read, poll | redelivery around the mail; lists out of order; lost pushes; rows that are pruned | no second mail on record, delivery ends, the bell settles |
| messaging (`messaging/`, thread page) | `Message`, the consumer's cached thread; messages shown, pending bubbles, draft | send over socket or REST, broadcast, hide, refetch | the socket drops around a send, answers overtake | stored at most once, shown as stored |
| reviews (`reviews/`) | `Review`, expert aggregate | submit, edit, reply, moderate | each saves a copy loaded earlier | only a reply touches a reply, a hiding is not undone |
| order page (`features/orders`, `reviews`, `disputes`) | copies of order, payment, review, dispute; busy | offer actions, upload, act, reload | four copies fetched separately, a payment saved without a lock | offers only what the server allows |
| request wizard (`RequestForm.tsx`) | form, files, timer, submission | edit, enhance, upload, save, publish | partial failure, second presses, another tab on the same draft | the record is what was pressed |
| web session (`SessionProvider`, `middleware`, layout, sign-in) | user, status, cookie, page | refresh with retries, sign in and out, redirects | overlapping refreshes, outages | user and status agree, outages sign nobody out |
| files, accounts, audit, portal, taxonomy, seed | rows of their own | uploads, CRUD, reports | I/O, authorisation | not modelled (uploads: as the wizard uses them) |

How they interact: selection (bidding, assignments) calls the order factory;
`payments.confirm_payment` sends a synchronous signal whose receiver calls
`orders.mark_paid` in the same transaction; approval calls
`payments.schedule_payout`; disputes call `payments.issue_refund` and
`orders.transition`; orders move the status of their request; worker jobs call the
services of payments, orders, bidding and assignments. The pages call the REST views,
and two sockets (`/ws/notifications/`, `/ws/threads/<id>/`) carry hints to refetch;
the thread's also carries messages to the server.

## Modules

```
Money ── OrderRows ── Payments ── Orders ── Disputes ── OrderMoney ── MCOrderMoney
  │                                                        │
  └── RefundSeries                              Escrow ────┘ (INSTANCE ... WITH)

MoneyProofs ── SeriesProofs    OrderTypeProofs ── OrderBooksProofs ── OrderPayoutProofs

Selection ── MCSelection                  SelectionProofs

Session, Notifications, Conversation,
Workspace, RequestForm, ExpertApplication ── WebPages
                                      PageProofs, DeliveryProofs
```

* **Money** – `commission_split` and the two-weight case of `allocate`, the only one
  in use, as operators over integers.
* **OrderRows** – the rows of one order as variables, their value sets, the order
  transition table, `TypeOK` and `Init` (the state `create_order_for_request`
  leaves). One order is enough: a service call locks and writes the rows of one
  order, and each batch job handles every order in its own transaction.
* **Payments**, **Orders**, **Disputes** – one action per operation of the service
  of that name and per admin action or handler that adds steps of its own.
* **OrderMoney** – their composition `Spec`, the properties, the fairness and the
  refinement mapping; **Escrow** is the abstract promise about the money.
* **RefundSeries** – the arithmetic of a series of refunds of one charge.
* **Selection** – one service request until its expert is found: requests, offers,
  invitations, direct assignments and the orders they book. It ends where the order
  modules begin: at `create_order_for_request`.
* **Session**, **Notifications**, **Conversation**, **Workspace**, **RequestForm**,
  **ExpertApplication** – one page (or provider) each, together with the server code
  it talks to: the delivery task, the consumer, `reviews/services.py`, the two unlocked
  saves of the payment, the services of a draft, `experts/services.py`.
* **WebPages** – the six in one tab. They share no state, so one of them is mounted and
  runs. Its configuration needs no definitions, so it is the module of its run.
* **MCOrderMoney**, **MCSelection** – the instances for TLC.

### How state and actions correspond to the code

A function decorated with `transaction.atomic` that re-reads its rows under
`select_for_update` is **one action**, every call it makes included: `ConfirmPayment`
is the payment, three ledger entries, the signal, the order's activation and the
request's move; `ApproveRows` includes the payout; `Resolve` includes the refund,
the unfreeze, the payout correction and the order's move, and a move the order
table refuses disables it, as the exception rolls everything back. What code reads
**before** its locks, or without any, is an action of its own, remembered in a session
variable:

| Variable | Code that holds an old view |
|---|---|
| `payCall` | the pay view: the order when it was fetched, then the payment `start_payment` found |
| `failHook` | `_handle_payment_failed` between reading the payment and saving FAILED |
| `dueBatch` | `auto_approve_due` between listing the ids and locking the order |
| `sweep[w]` | a worker in `payout_sweeper`: listed, then amount taken, then row inserted |
| `caseFile[s]` | the status of the `Dispute` object that the request of support account `s` loaded |

The request's status, read by a service inside its transaction through the locked
order, is read and written in the same step; `CancelRequest` may fire at any time
and overwrites whatever status the request has, which is what an unlocked `transition` on an old
object does. Timestamps are abstracted to what is tested of them: the auto-approve
timer is null, running or due, the dispute window open or closed, and two actions
move them. The provider's answer is a choice between `ConfirmPayment` and
`ConfirmFails`. Ledger entries are summed by type. `Refund` rows are implied by the
refund entries. Payment statuses `requires_action` and `processing` and payout
statuses `in_transit` and `reversed` are assigned nowhere and left out.

Staff, sweepers, price, booked commission, payout floor and revision allowance are
constants. `RateCommission` is the split that `Order.commission_rate` would give;
the order factory leaves that field at its default, so it need not agree with the
booked snapshot. `SweepInTransaction` says whether `sweep_unpaid` is called inside a
transaction: it is in the test-suite, it is not in the worker's task, and outside one
the ORM refuses its locking query, so the action is disabled. The positive runs
keep it enabled, which only adds behaviours.

In **Selection** a view loads its row, tests it and saves it later. `ReadTo...` is the
view with the service's tests, kept in `calls[h]` as the row it has seen; the
operation of the service's name is the save, which writes only the columns of its
`update_fields` (all of them where it has none). The three acceptances re-read under
locks and are single steps. The two saves of `publish` and of `resubmit`, one after
the other without a call in between, are one step. The expiry sweep is four steps:
listed, expired or missed, offers closed.

| Page | How its state corresponds |
|---|---|
| Session | `refreshes[r]` is one call of `refresh()`: asked, answered (`user`, `denied`), lost, sleeping; `session` is the pair of setters; `view.redirect` is the layout's pending effect; `cookie` is `hm_access` |
| Notifications | `rows[n]` is the row: unread, `older` (unread, but pushed off the latest fifty the view returns), read or pruned; `tasks[n]` is the worker inside `deliver_notification`, one step per statement that writes. A run that raises has its failure saved and counts towards `Q_MAX_ATTEMPTS`; one whose worker is stopped leaves nothing behind and is handed out again; `fetches[f]` counts unread and reads rows at different times, as the view does |
| Conversation | `frames` and `events` are the socket's two directions and are lost when it closes; `posts[m]` is a REST send; `loads[l]` is a thread request that has read the table before the page reads the answer; `threadSocket.sawEnd` is the thread object the consumer cached on connect; `hidden` is `Message.is_hidden`, which the view filters |
| Workspace | `calls[c]` is one `onAction` from click to reload; two services test a row and save it later without a lock, and both are two steps, for the page's own call and for one of anybody else (`late`): the payment's (`start_payment`, `_handle_payment_failed`) and the review's. The other order rules appear as `Allowed`, which the page's `Offers` repeats from its copies; a reply is told apart by who wrote it |
| RequestForm | `sending.held` is the closure of `submit()`; each request may fail with its effect made or not made. `update_draft`, `publish` and `cancel` are a read and a save, the wizard's (`ReadToUpdate`, `Update`, `ReadToPublish`, `Publish`) and another tab's (`ElsewhereReads`, `ElsewhereSaves`); `sending.touched` remembers whether that tab saved into this submission's request |
| ExpertApplication | `applyPages[t].held` is the row an unlocked request loaded; `update_application` saves all of it |

Every answer may be lost before or after its effect. Texts, names and amounts are
model values; a description is blank, typed or composed by the copilot.

Operators whose comment begins with *Slip* are wrong variants of the operator they
precede. Nothing refers to them: substituted for it, one at a time, they show that
each property does depend on the code (`mutants` in PROJECT.json).

## Runs

| Run | Expectation | What it shows |
|---|---|---|
| `order_money` | pass | all safety properties of `OrderMoney` and the refinement of `Escrow`, price 4, two support accounts, one sweeper; 1.7 million states |
| `order_progress` | pass | every delivery is settled under `JobFairness`, and the revision history with two revisions; 130 000 states |
| `refund_series` | pass | every partition of six prices into refunds at five rates |
| `selection` | pass | one open or managed request, two experts, two amounts, one call in flight beside the locked acceptances, the sweep and eligibility; 1.4 million states |
| `web_pages` | pass | six pages, safety and liveness under `WebSpec`; 650 000 states |
| `reopen_twice` | violation of `ReopenedOnce` | publishing an expired request re-opens it again |
| `settle_after_refund` | violation of `TransfersAreCovered` | a scheduled payout survives a refund and is settled in full |
| `two_resolutions` | violation of `ResolvedStaysResolved` | a request with an old view reopens a resolved dispute |
| `two_sweepers` | violation of `SinglePayout` | two overlapping sweeps create two payouts |
| `unpaid_sweep` | violation of `UnpaidEnds` | the unpaid sweep cannot run in the worker |
| `rearm_paid` | violation of `SucceededIsNotRearmed` | a retry overwrites a confirmed payment with pending |
| `unpaid_remainder` | violation of `EarnedIsScheduled` | a resolution that gives a part of the price back leaves the expert's remaining credit without a payout, however long the sweeper runs |

The seven violations are disagreements between the code and what its own documents or
docstrings say; PROJECT.json quotes both.

**Bounds.** A price of 4 with commission 1 has partial refunds of every size that
still leave another, payouts above and below the floor of 2 and a rounding choice
in `allocate`. Two support accounts are what it takes for one to act on an old view;
a third would repeat the roles of the second. One payout sweeper races approval,
disputes and settlement; two are the subject of `two_sweepers`. One revision in
`order_money` and two in `order_progress` reach the allowance and a counter that
skips. `payouts` needs no bound: an order has at most one row with one sweeper.
Support accounts are interchangeable, so `order_money` uses their symmetry; it checks
no liveness. Deadlock checking is off because an order may legitimately end.

*Selection.* With one call in flight every unlocked save meets any number of committed
steps since its read; a second call is itself such a step, and only its save matters
to the first. Two experts make siblings, two amounts an outdated quote, two direct
assignments a superseded one, two orders a second acceptance. `offer_count` and the
two row sequences stop at their bounds by not starting a call that would pass them.

*Web pages.* Two refreshes (mount and form), two list requests, two thread requests and
two tabs of the apply page are what it takes for one answer to overtake another; one
retry of each kind reaches both "retry" and "give up"; two presses of the wizard's
buttons are a failed attempt and another one. One notification (two count states), two
own texts (one with a file), one of the other side. One revision allowed reaches both
sides of the limit. `Words` is empty: a blank brief and the composed one are the two a
press can differ in. What others do is bounded as well, each bound with its name in the
module: `MaxMissed` changes of the order since the page last read it (one is enough for
a copy to be out of date), one late save of somebody else (`late`), one request of another tab on a draft
(`elsewhere`; its edit empties the brief, the one edit that a later publish can be
refused for). `Moderated` is the text staff may hide, and a run sees a message hidden or the
thread's context end, not both. A notification is pushed off the list once its delivery is over.
Deadlock checking is off: a tab may rest.

`MaxStops` is an assumption about the environment and no limit of the code: a worker is
stopped in one task finitely often. The broker counts the runs whose result was saved, and a
killed process saves none, so a task that always kills its worker is redelivered for ever.
`DeliveryEnds` is about runs that raise, which `Q_MAX_ATTEMPTS` does end, and about finitely many
stops in between.

**The revision history is checked with one support account.** With two, a second
`no_fault_close` on an old view moves a *delivered* order back to
`revision_requested`, whose delivery number is taken: `NextDeliveryFits` then fails,
one more consequence of the missing re-check that `two_resolutions` shows.

**One sweeper.** `SinglePayout`, `NeverOverpaid`, `PayoutsReconcile` and the refinement
hold for at most one `payout_sweeper` execution at a time; `two_sweepers` shows the
first fails for two.

**Fairness.** `JobFairness` gives weak fairness to the clock and to the worker's jobs:
`auto_approve_due` every 15 minutes, `payout_sweeper` and `sweep_unpaid` hourly. The
schedules are set up by operators as `docs/architecture/background-jobs.md` says; the
assumption is that they did and that some worker is up. No user, provider or support
action is fair: nobody is obliged to pay, deliver, settle or decide.

`WebSpec` is fair to what the browser, the server and the worker do by themselves.
`SessionFairness`: every call of `refresh()` goes on, answered or given up; `LoadingEnds` is
therefore about the provider's status, and not about the skeleton the layout shows for it (see
*What modelling showed besides*). `BellFairness`:
the broker runs queued tasks, the 60 s interval of `NotificationsProvider` fires, and a
list request ends; strong fairness on reading an answer says that answers may be lost
any number of times but not always. `ThreadFairness`: the same for the thread, and that
the tab comes back into focus, which is the page's own fallback without a socket
(`use-thread-socket.ts:97-114`). Sockets, clicks, typing and staff are not fair:
`BellSettles` and `StoredIsShown` hold with both sockets dead.

## Proofs

The order theorems hold for every price, snapshot, default-rate split, payout floor and
allowance, and any sets of support accounts and sweepers where they do not name one of the
assumptions below; they use `MoneyAssumption` and `LimitAssumption` of OrderRows.

* **MoneyProofs** – `SharesAddUp`: the two shares of `allocate` are natural numbers that
  add up to the total. `WholeIsExact`: allocating the whole returns the weights. Both
  rest on `Division` and on a small-multiple argument: the two remainders add up to 0
  or to one weight, so at most one unit is left to hand out (`LeftOver`). `ShareIsNearest`
  bounds what a single allocation rounds.
* **SeriesProofs** – the invariants of RefundSeries for every price, rate and number of refunds.
  `SeriesInv` adds to them what a series keeps (`SeriesSums`) and what its first refund
  is (`FirstOfSeries`); each refund moves the drift by at most half a unit (`ShareIsNearest`), so the
  bound grows with the count (`DriftGrows`). `CommissionRounds` does the same for `commission_split`.
* **OrderTypeProofs** – `TypeCorrect`, one step per action.
* **OrderBooksProofs** – `MoneyIsInvariant`. `LedgerIdentity`, `ChargedOnce`, `RefundsOnRecord`
  and `FreezeMatchesStatus` are not inductive alone: that no refund precedes the charge
  needs "a refundable payment was charged", and that a second resolution cannot refund
  a live order needs what a partial refund leaves behind. `CaseRecords` and
  `RefundHistory` say so, and `MoneyInv` is the conjunction. The four invariants
  follow as theorems of their own, then the action properties `CancelledIsFinal` and
  `NoTransferInDispute`, and `FullRefundUnwinds` under `SplitsAgree`. Further:
  - `SnapshotIsKept` under `SplitsAgree`, and `SnapshotIsLost` under its negation:
    `_confirm_payment_atomic` takes a snapshot of zero for a missing one and books the default
    rate, which the docstring at `payments/services.py:4-6` excludes ("Commission is NEVER
    recomputed here").
  - `RefundsAreTrue`: the payment's status never claims a refund that was not made. It rests on
    `BooksMoveBy`: each step either keeps what was refunded or is one of the refunds.
  - `StudentSideOfEscrow`: the student's half of `Escrow` (collect once, return at most the
    price) is implemented without any assumption; only the expert's half needs some.
* **OrderPayoutProofs** – `PayoutNeedsCompletion`: whoever makes a payout has seen a completed order, and
  such an order is only disputed or cancelled afterwards (`FinishedStays`). `SinglePayout`,
  `NeverOverpaid` and `PayoutsReconcile` follow from `PayoutInv`: a sweeper between
  its test and its insert found no payout and is alone, and the one row, if paid, is what the ledger
  says. The refinement of `Escrow` also needs that the credit, and with it the correction of a payout,
  stays between 0 and what was booked (`CreditInv`), which holds while a case is refunded in
  part at most once (`DeskInv`). The revision history rests on `HistoryInv`: the same facts at the stage
  a dispute remembers. Further:
  - Any number of workers: `PayoutsAreLimited` and `OverpaymentIsBounded`. Rows plus inserts under way
    never exceed the number of sweepers, because none starts over once a payout exists
    (`InsertsCounted`); every row is worth at most the booked credit (`AmountsBooked`), and
    the ledger shows at most that much per paid row (`TransfersCounted`). So `two_sweepers` costs at
    most one credit per worker. `PaidForGood`: a transferred payout is never touched again.
  - `TransfersCoveredUntilRefund`: `settle_after_refund` needs the refund; before one, a transfer
    is covered by the credit on the ledger.
  - One support account: `ResolvedForGood` (what `two_resolutions` violates), `RefundsAreFair` (at most one
    partial refund, so the expert's credit is half a unit off its share at most: `CreditIsFair`) and
    `DeliveriesAreTimed`, the safety half of `DeliveryIsSettled`: an unreviewed delivery always has its
    timer, also at the stage a dispute remembers (`StageIsTimed`).

Four named assumptions, each only where it is listed in the theorem, and each because the
property does not hold, or cannot be said, without it:

| Assumption | Theorems | Without it |
|---|---|---|
| `SplitsAgree`: `Commission > 0 \/ RateCommission = 0` | `FullRefundLeavesNothing`, `SnapshotIsKept`, `RefundsAreFair`, `OrderImplementsEscrow` | a zero snapshot is booked as something else (`SnapshotIsLost`) |
| `OneSweeper`: one worker in `payout_sweeper` at a time | `OnePayout`, `PaidWithinCredit`, `LedgerShowsPayouts`, `TransfersCoveredUntilRefund`, `OrderImplementsEscrow` | two payouts (`two_sweepers`) |
| `OneDesk`: one support account | `ResolvedForGood`, `RefundsAreFair`, `DeliveriesAreTimed`, `HistoryIsConsistent`, `NextDeliveryAlwaysFits`, `OrderImplementsEscrow` | a case is resolved twice (`two_resolutions`) |
| `FiniteWorkers`: finitely many workers | `PayoutsAreLimited`, `OverpaymentIsBounded` | there is no number to bound the payouts with |

With two support accounts the refinement still holds at the price and split of `order_money`,
and that run checks it there; see the next section for a split where it does not.

* **SelectionProofs** – `SelectionInvariant`: types, what each call in flight still relies on
  (`CallFits`: the row it read exists, its amount is a price), a price on every offer, a
  managed order only as the first. `AcceptedHasOrder` is not inductive without the first
  two: a save of an old copy must not change the amount of what was accepted. The four
  invariants follow, and `ClosedForGood` from the actions.
* **PageProofs** – for Session, ExpertApplication, Workspace and RequestForm their invariants
  and the properties from them. `DealInv`: a paid
  order may show any payment, because a re-arm or a failure may be saved over it; that an
  order waiting for its payment never shows a paid one is what the offers rest on.
  `SubmitInv`: from the save on, the record holds what was pressed unless another tab has
  saved into it, and before the save every file of the press is up. `PagesAreSafe` carries the properties to
  `WebPages` (`PagesRunApart`: the tab runs one page at a time), and `PagesTypesHold` the type
  invariants of all six.
* **DeliveryProofs** – `SentOnce` from an invariant that counts a text's ways out (frames, a
  post, an upload) together with what is stored against its submissions. `NoteInvariant`: no
  attempt is counted beyond the limit, and what a run has loaded stays true of the record
  while it may still mail; `MailedForGood` follows. `ThreadTypesHold`: a text of the other side is stored
  once. `OnlyStoredIsShown`: the page shows no message the table does not hold, however
  late the answer. `DeliveriesStayEnded` is the safety half of `DeliveryEnds`.

The page theorems hold for any number of tabs, calls, texts, files, retries and for any
revision allowance; their assumptions are the named `...Assumption` of each module.

Only model-checked: the liveness properties (`DeliveryIsSettled`, `LoadingEnds`,
`BellSettles`, `DeliveryEnds`, `StoredIsShown`), which the prover cannot treat. `TransfersAreCovered`,
`UnpaidEnds`, `SucceededIsNotRearmed`, `EarnedIsScheduled` and `ReopenedOnce` are no theorems: the
code violates them. Every other property of a run is one, those of `two_sweepers` and
`two_resolutions` under the assumption their run drops.

## What modelling showed besides

Behaviour of the code that the models contain and that is the subject of no run of its own. The
first two disagree with what the repository says of itself:

* Two overlapping replies to a review both pass the unlocked test of `replied_at`
  (`reviews/services.py:138`), and the later one replaces the text of the earlier.
  `docs/workflows/reviews.md:7` ("one reply, immutable once posted") and `:14` ("exactly **one** reply
  ... immutable afterwards"), `docs/workflows/expert-journey.md:74` ("Expert can reply once to any
  review") and the docstring at `reviews/services.py:135` ("Expert-only, exactly once, immutable
  (BR-37)") exclude it. `ReviewWritesKeepApart` states what is left: a reply changes by such a second reply only.
* `update_application` writes every column of the row it loaded and can put back a
  status that staff had moved on, although `docs/workflows/expert-journey.md:22` calls the
  application locked by then; `ApprovedIsBacked` survives it.

* Every partial refund is rounded on its own and may be rounded against the expert. Two requests
  with old views can refund the same case in several parts; of a price of 5 split 2 : 3, four parts
  of 1 take the expert's credit to -1, `resolve` corrects the scheduled payout to -1 and
  `settle_payout` transfers it (`ImplementsEscrow` fails there with two support accounts). Nothing
  in the code, the columns included, asks for a payout to be positive.
* `features/orders/types.ts:123` offers a delivery in `active` only, so after a revision
  request the expert's page has no button for the redelivery the server waits for.
  "Cancel order" has the tone that the action bar renders as a text. "Pay now" is also
  shown to the expert. The payment card (`payment-card.tsx:70-94`) looks at the payment and at
  no order status: it offers to pay or to confirm on a cancelled order, and on a paid order whose
  payment a re-arm or a late failure was saved over (`rearm_paid`). And a dispute is offered after its
  window has closed, which the page is not told. These are the cases of `Gap`, outside of which
  `OffersAllowed` holds.
* Of two tabs on one draft the last save wins, status included: `update_draft` saves every
  column of the draft it loaded, so an edit can turn a request published or cancelled in
  between back into a draft, with the other brief. `LeavesAsPressed` therefore speaks of
  submissions no other tab saved into.
* `messaging/services.py:229` asks the attachment *id* it is given for its purpose, so a
  message with an attachment is refused on every path (`Refuses`). The consumer keeps the thread it
  loaded at connect: a socket opened before the context ended still stores messages.
* A frame lost with its socket loses the text: it is neither stored nor back in the input.
  An older thread answer read last hides a newer message until the next refetch.
* A first application whose create succeeded and whose submission failed is created again
  at the next press and refused with 409, until the page is reloaded.
  `isApplicationEditable` lets a submitted application be edited, whose submission is always
  refused.
* `RequestForm.tsx:204` sends the attestation of BR-10 as `true` whatever the user was
  shown. The copilot replaces what was typed during its 700 ms.
* With a cookie that is present but refused, the layout's redirect to `/login` is turned
  back to `/account` by the middleware, which sees only that a cookie is there; the status has
  not changed, so the effect (`layout.tsx:84-88`) does not run again and the skeleton stays.

## Not modelled, and why

* The admin change form of an order, which saves the whole row with `status` and
  `has_open_dispute` editable: a manual override of every rule.
* Lock waits and deadlocks. `settle_payout` locks payout then order, `resolve` order then
  payout; PostgreSQL aborts one, which leaves no trace in the rows, so atomic actions
  stay sound. The lock order is a model of its own in the plan.
* Currencies, texts, attachments, e-mail wording, the event and audit logs, permissions.
* The float division inside `allocate` beyond 2^53.
* Deadline proposals, reminders, warnings and overdue flags of orders: they move neither
  the status nor money. The `WebhookEvent` row: it records a call whose handler the
  models already let run at any time and any number of times.
* The expert's rating aggregate, read markers, typing indicators, message reports, toasts;
  a hidden message shown again, which is like one that comes in.
* Two workers in one delivery task at once, which takes a run longer than `Q_RETRY`
  (the settings keep it above `Q_TIMEOUT`, at which a run is killed). The age of a pruned notification: any row may go.
* The middleware's mapping of hosts to experiences: it moves a request to another host and
  changes no state of a page.
* `assignments.set_quote` and the payment statuses nothing assigns: no caller.
* Most of the front end by volume: list, marketing, directory and account pages fetch once
  and render. Their TSX has no step that depends on an earlier one, so a module about
  them could only restate markup. `src/frontend/apps/web` repeats `src/frontend/src` with
  other imports, and `src/frontend/apps/admin` shows staff what the portal returns; the models
  are mapped to `src/frontend/src` once. That is why the modules stand for a small share of
  the TypeScript lines, and the rest of what they stand for is Python.

## State of the plan

Done: the order and its money with the escrow refinement, the selection of an expert, the web
pages with the server code behind them, and the proofs above. Open, in this order: a joint
model of Selection and OrderMoney, in which a student's cancel and the order's moves of the
request's status meet; the row locks as a model of waiting; deadlines and reminders.
