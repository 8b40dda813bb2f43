---------------------------- MODULE CreditLedger ----------------------------
(***************************************************************************)
(* The credits of one account (crates/scrapix-billing: ledger.rs and       *)
(* auto_topup.rs) and the payments that buy them                           *)
(* (bins/scrapix-api/src/stripe.rs).                                       *)
(*                                                                         *)
(* Tasks are what the server runs at once: handlers that admit a request   *)
(* and deduct its cost, deductions of completed crawls, manual top-ups and *)
(* purchases.  A deduction is followed by the automatic top-up, which      *)
(* reads the settings, checks the spend limit and charges the card or      *)
(* gives the credits.  All writers update the row of the account first in  *)
(* their transaction, so Postgres serialises them: a transaction is one    *)
(* step, and what is not atomic is what a task read before it.  A payment  *)
(* made at Stripe is also reported by a webhook, at least once, and both   *)
(* ways credit it.                                                         *)
(*                                                                         *)
(* Abstractions.  The account's settings do not change and the month does  *)
(* not end.  All top-ups and purchases are of one amount.  Of the          *)
(* transactions rows only what is read back is kept: the month's top-ups   *)
(* and, per payment, the rows that carry its id.  Stripe is external.      *)
(*                                                                         *)
(* A definition named ...Mutant is the one that follows it with a bug: a   *)
(* run in which it takes the other's place must break a property.          *)
(***************************************************************************)
EXTENDS Integers, FiniteSets

CONSTANTS
  Tasks,
  Payments,      \* ids of payments Stripe may make
  None,          \* no payment
  Costs,         \* what operations cost
  Deposit,       \* initial_deposit
  Amount,        \* auto_topup_amount
  Threshold,     \* auto_topup_threshold
  Limit,         \* monthly_spend_limit
  HasCard,       \* Stripe is configured and a payment method is saved
  MaxOps,        \* bound: operations begun
  MaxDeliveries, \* bound: deliveries of the webhook of a payment
  MaxFailures    \* bound: transactions of a credit that fail

ASSUME CreditLedgerAssumption ==
  /\ IsFiniteSet(Tasks) /\ Tasks # {}
  /\ Costs \subseteq Nat \ {0}
  /\ Deposit \in Nat /\ Amount \in Nat \ {0} /\ Threshold \in Nat /\ Limit \in Nat \ {0}
  /\ HasCard \in BOOLEAN
  /\ MaxOps \in Nat /\ MaxDeliveries \in Nat /\ MaxFailures \in Nat

VARIABLES
  balance,    \* accounts.credits_balance
  spent,      \* the month's manual_topup and auto_topup rows
  unpaid,     \* of these, what no payment stands behind
  task,       \* task -> where it is and the payment it made
  paid,       \* payments made
  credited,   \* payment -> rows that carry its id
  deliveries, \* payment -> webhooks delivered
  hooks,      \* payment -> webhook handlers that found no row
  ops, failures

vars == <<balance, spent, unpaid, task, paid, credited, deliveries, hooks, ops, failures>>

\* "serve" .. "deduct" belong to an operation, "read" .. "free" to the automatic
\* top-up after it, "manual" to a manual top-up, "pay" .. to a purchase.
Places == {"idle", "deduct", "read", "limit", "charge", "free", "manual", "pay",
           "confirm", "credit"}

Task == [at : Places, auto : BOOLEAN, payment : Payments \cup {None}]

Idle == [at |-> "idle", auto |-> FALSE, payment |-> None]

Go(t, place) == task' = [task EXCEPT ![t].at = place]
Stop(t) == task' = [task EXCEPT ![t] = Idle]

Init ==
  /\ balance = Deposit
  /\ spent = 0 /\ unpaid = 0
  /\ task = [t \in Tasks |-> Idle]
  /\ paid = {}
  /\ credited = [p \in Payments |-> 0]
  /\ deliveries = [p \in Payments |-> 0]
  /\ hooks = [p \in Payments |-> 0]
  /\ ops = 0 /\ failures = 0

\* An idle task begins to work.
Begin(t) ==
  /\ task[t] = Idle
  /\ ops < MaxOps
  /\ ops' = ops + 1
  /\ UNCHANGED <<balance, spent, unpaid, paid, credited, deliveries, hooks, failures>>

\* check_spend_limit: one more top-up would exceed the limit.
OverLimit_Mutant == spent > Limit

OverLimit == spent + Amount > Limit

TopUp == balance' = balance + Amount /\ spent' = spent + Amount

GiveAway == TopUp /\ unpaid' = unpaid + Amount

-----------------------------------------------------------------------------
(* Operations and the automatic top-up                                     *)

\* check_credits, for one credit at least, before the work is done.
Admit(t) == Begin(t) /\ balance >= 1 /\ Go(t, "deduct")

\* deduct_credits: UPDATE ... WHERE credits_balance >= cost.  An operation that
\* cannot be paid was free.
Deduct(t) ==
  /\ task[t].at = "deduct"
  /\ \E cost \in Costs :
       \/ cost <= balance /\ balance' = balance - cost /\ Go(t, "read")
       \/ cost > balance /\ balance' = balance /\ Stop(t)
  /\ UNCHANGED <<spent, unpaid, paid, credited, deliveries, hooks, ops, failures>>

\* maybe_auto_topup reads the account ...
ReadSettings(t) ==
  /\ task[t].at = "read"
  /\ IF balance < Threshold THEN Go(t, "limit") ELSE Stop(t)
  /\ UNCHANGED <<balance, spent, unpaid, paid, credited, deliveries, hooks, ops, failures>>

\* ... checks the spend limit, and charges the card or gives the credits.
CheckLimit(t) ==
  /\ task[t].at = "limit"
  /\ IF OverLimit THEN Stop(t) ELSE Go(t, IF HasCard THEN "charge" ELSE "free")
  /\ UNCHANGED <<balance, spent, unpaid, paid, credited, deliveries, hooks, ops, failures>>

\* The fallback of a charge that failed, and what accounts without a card get.
FreeTopUp(t) ==
  /\ task[t].at = "free"
  /\ GiveAway
  /\ Stop(t)
  /\ UNCHANGED <<paid, credited, deliveries, hooks, ops, failures>>

\* topup_credits checks the limit, then adds the credits.
RequestTopUp(t) == Begin(t) /\ ~OverLimit /\ Go(t, "manual")

ManualTopUp(t) ==
  /\ task[t].at = "manual"
  /\ GiveAway
  /\ Stop(t)
  /\ UNCHANGED <<paid, credited, deliveries, hooks, ops, failures>>

-----------------------------------------------------------------------------
(* Payments                                                                *)

\* purchase_credits, which checks no limit.
Purchase(t) == Begin(t) /\ HasCard /\ Go(t, "pay")

\* Where a task goes on when its payment or the credit for it failed.
GiveUp(t) ==
  task' = [task EXCEPT ![t] =
    IF @.at = "charge" \/ @.auto THEN [Idle EXCEPT !.at = "free"] ELSE Idle]

\* create_and_pay_invoice: the invoice is paid and the server is told so, ...
Pay(t) ==
  /\ task[t].at \in {"charge", "pay"}
  /\ \E p \in Payments \ paid :
       /\ paid' = paid \cup {p}
       /\ task' = [task EXCEPT
            ![t] = [at |-> "confirm", auto |-> task[t].at = "charge", payment |-> p]]
  /\ UNCHANGED <<balance, spent, unpaid, credited, deliveries, hooks, ops, failures>>

\* ... or it is paid but the answer says otherwise: it is lost, or the customer
\* has to confirm first.
PayUnseen(t) ==
  /\ task[t].at \in {"charge", "pay"}
  /\ \E p \in Payments \ paid : paid' = paid \cup {p}
  /\ GiveUp(t)
  /\ UNCHANGED <<balance, spent, unpaid, credited, deliveries, hooks, ops, failures>>

Decline(t) ==
  /\ task[t].at \in {"charge", "pay"}
  /\ GiveUp(t)
  /\ UNCHANGED <<balance, spent, unpaid, paid, credited, deliveries, hooks, ops, failures>>

Confirm_Mutant(t) ==
  /\ task[t].at = "confirm"
  /\ Go(t, "credit")
  /\ UNCHANGED <<balance, spent, unpaid, paid, credited, deliveries, hooks, ops, failures>>

\* add_credits_for_payment looks for a row with the payment's id ...
Confirm(t) ==
  /\ task[t].at = "confirm"
  /\ IF credited[task[t].payment] > 0 THEN Stop(t) ELSE Go(t, "credit")
  /\ UNCHANGED <<balance, spent, unpaid, paid, credited, deliveries, hooks, ops, failures>>

\* ... and adds the credits and the row in a transaction, ...
Credit(t) ==
  /\ task[t].at = "credit"
  /\ TopUp
  /\ credited' = [credited EXCEPT ![task[t].payment] = @ + 1]
  /\ Stop(t)
  /\ UNCHANGED <<unpaid, paid, deliveries, hooks, ops, failures>>

\* ... which may fail.
CreditFails(t) ==
  /\ task[t].at \in {"confirm", "credit"}
  /\ failures < MaxFailures
  /\ failures' = failures + 1
  /\ GiveUp(t)
  /\ UNCHANGED <<balance, spent, unpaid, paid, credited, deliveries, hooks, ops>>

\* A task ends early: the automatic top-up after five seconds, a handler when
\* its client disconnects, any task with the server.
Abort(t) ==
  /\ task[t] # Idle
  /\ Stop(t)
  /\ UNCHANGED <<balance, spent, unpaid, paid, credited, deliveries, hooks, ops, failures>>

Deliver_Mutant(p) ==
  /\ p \in paid /\ credited[p] = 0
  /\ deliveries[p] < MaxDeliveries
  /\ deliveries' = [deliveries EXCEPT ![p] = @ + 1]
  /\ UNCHANGED <<balance, spent, unpaid, task, paid, credited, hooks, ops, failures>>

\* handle_invoice_paid: Stripe delivers the webhook of a payment, perhaps again,
\* and its handler looks for a row ...
Deliver(p) ==
  /\ p \in paid
  /\ deliveries[p] < MaxDeliveries
  /\ deliveries' = [deliveries EXCEPT ![p] = @ + 1]
  /\ hooks' = IF credited[p] > 0 THEN hooks ELSE [hooks EXCEPT ![p] = @ + 1]
  /\ UNCHANGED <<balance, spent, unpaid, task, paid, credited, ops, failures>>

\* ... and adds the credits.
HookCredit(p) ==
  /\ hooks[p] > 0
  /\ hooks' = [hooks EXCEPT ![p] = @ - 1]
  /\ TopUp
  /\ credited' = [credited EXCEPT ![p] = @ + 1]
  /\ UNCHANGED <<unpaid, task, paid, deliveries, ops, failures>>

\* If it cannot, it answers OK all the same.
HookFails(p) ==
  /\ hooks[p] > 0
  /\ failures < MaxFailures
  /\ failures' = failures + 1
  /\ hooks' = [hooks EXCEPT ![p] = @ - 1]
  /\ UNCHANGED <<balance, spent, unpaid, task, paid, credited, deliveries, ops>>

-----------------------------------------------------------------------------
Operation(t) == Admit(t) \/ Deduct(t)
AutoTopUp(t) == ReadSettings(t) \/ CheckLimit(t) \/ FreeTopUp(t)
ByHand(t)    == RequestTopUp(t) \/ ManualTopUp(t) \/ Purchase(t)
Paying(t)    == Pay(t) \/ PayUnseen(t) \/ Decline(t)
Crediting(t) == Confirm(t) \/ Credit(t) \/ CreditFails(t)
Webhook(p)   == Deliver(p) \/ HookCredit(p) \/ HookFails(p)

Next ==
  \/ \E t \in Tasks :
       \/ Operation(t) \/ AutoTopUp(t) \/ ByHand(t) \/ Paying(t) \/ Crediting(t)
       \/ Abort(t)
  \/ \E p \in Payments : Webhook(p)

Spec == Init /\ [][Next]_vars

\* Stripe delivers the webhook of every payment and its handler ends.  Nothing
\* is assumed of the tasks: they may all stop.
FairSpec == Spec /\ \A p \in Payments : WF_vars(Deliver(p)) /\ WF_vars(HookCredit(p))

-----------------------------------------------------------------------------
(* What holds.                                                             *)

\* Every variable has its type.
TypeOK ==
  /\ balance \in Int
  /\ spent \in Nat /\ unpaid \in Nat
  /\ task \in [Tasks -> Task]
  /\ paid \subseteq Payments
  /\ credited \in [Payments -> Nat]
  /\ deliveries \in [Payments -> Nat] /\ hooks \in [Payments -> Nat]
  /\ ops \in Nat /\ failures \in Nat

\* The account never owes: operations that were admitted together against the
\* same balance do not all get what they were promised.
NeverNegative == balance >= 0

\* Tasks that passed the check of the spend limit and may still give credits
\* away, the automatic top-ups whose charge may fail included.
InFlight == {t \in Tasks : task[t].at \in {"charge", "free", "manual"} \/ task[t].auto}

\* The credits that are given away in a month exceed the spend limit by at most
\* one top-up for each task but one, however often they check it at the same
\* time and whatever payments and webhooks do meanwhile.
SpendOvershootIsBounded == unpaid <= Limit + (Cardinality(Tasks) - 1) * Amount

\* Who is about to add the credits of payment p.
Crediters(p) == {t \in Tasks : task[t].at = "credit" /\ task[t].payment = p}

\* Once a payment is credited nobody new sets out to credit it: what is left of
\* double credits is those whose look-ups overlapped.
CreditedIsSeen ==
  [][\A p \in Payments : credited[p] > 0 =>
       hooks'[p] <= hooks[p] /\ Crediters(p)' \subseteq Crediters(p)]_vars

\* A payment is credited in the end, even when the task that made it timed out,
\* was dropped or crashed, as long as no transaction of a credit fails.
PaidIsCredited ==
  \A p \in Payments : (p \in paid) ~> (credited[p] > 0 \/ failures > 0)

\* A payment's credits arrive, and nobody sets out to add them again.
PaymentsAreCredited == CreditedIsSeen /\ PaidIsCredited

-----------------------------------------------------------------------------
(* What comments promise and the code does not keep.                       *)

\* ledger.rs: add_credits_for_payment is idempotent; stripe.rs: the call and the
\* webhook cannot both credit a payment.
CreditedOnce == \A p \in Payments : credited[p] <= 1

=============================================================================
