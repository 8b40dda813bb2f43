--------------------------- MODULE PlatformProofs ---------------------------
(***************************************************************************)
(* Proofs about what the API server runs beside the handlers of requests,  *)
(* and about the lifecycle of every service, for any number of servers,    *)
(* configs, e-mails, payments and faults.                                  *)
(*                                                                         *)
(* CreditLedger: deductions never take the balance below zero.  How far    *)
(* the spend limit is overshot follows from counting, with the top-ups     *)
(* that are made, those that passed the check and are not made yet:        *)
(* together they stay within the limit and one top-up for every other      *)
(* task, because the check of each one is the last moment at which it adds *)
(* to the sum.                                                             *)
(*                                                                         *)
(* CronConfigs: how often a slot runs is bounded by what happened to it,   *)
(* since each selection of the slot can be charged to an offer of it or to *)
(* a fault.  While the slot is open, each server that runs it and has yet  *)
(* to write the next run is charged beforehand.                            *)
(*                                                                         *)
(* EmailQueue: a row that is claimed has one poller, which has not said    *)
(* what became of it, so no other poller can claim it after it was sent.   *)
(*                                                                         *)
(* UsageReports: every row says of its request whether it succeeded, and   *)
(* what a report groups by a key adds up to what it says of all rows: the  *)
(* sums go by induction over the rows (FoldLemmas).                        *)
(*                                                                         *)
(* Services: what a service still holds when it ends follows from what     *)
(* each of its tasks does once it was told to stop.                        *)
(***************************************************************************)
EXTENDS CreditLedger, CronConfigs, EmailQueue, UsageReports, Services,
        FoldLemmas, FiniteSetTheorems, TLAPS

-----------------------------------------------------------------------------
(* CreditLedger                                                            *)

LEMMA TaskStep ==
  ASSUME TypeOK, NEW t \in Tasks, NEW goal \in Places, Go(t, goal) \/ Stop(t)
  PROVE  task' \in [Tasks -> Task]
<1>1. Idle \in Task
  BY DEF Idle, Task, Places
<1>2. [task[t] EXCEPT !.at = goal] \in Task
  BY DEF TypeOK, Task
<1>. QED
  BY <1>1, <1>2 DEF TypeOK, Go, Stop

LEMMA GiveUpStep ==
  ASSUME TypeOK, NEW t \in Tasks, GiveUp(t)
  PROVE  task' \in [Tasks -> Task]
<1>1. Idle \in Task /\ [Idle EXCEPT !.at = "free"] \in Task
  BY DEF Idle, Task, Places
<1>. QED
  BY <1>1 DEF TypeOK, GiveUp

LEMMA TopUpStep ==
  ASSUME TypeOK, TopUp
  PROVE  /\ balance' \in Int /\ spent' \in Nat
         /\ GiveAway => unpaid' \in Nat
  BY CreditLedgerAssumption DEF TypeOK, TopUp, GiveAway

\* Every variable of the ledger keeps its type.
THEOREM LedgerTypeCorrect == Spec => []TypeOK
<1>1. Init => TypeOK
  BY CreditLedgerAssumption DEF Init, TypeOK, Task, Idle, Places
<1>2. TypeOK /\ [Next]_vars => TypeOK'
  <2>. SUFFICES ASSUME TypeOK, [Next]_vars PROVE TypeOK'
    OBVIOUS
  <2>1. ASSUME NEW t \in Tasks, Operation(t) PROVE TypeOK'
    <3>1. CASE Admit(t)
      <4>1. task' \in [Tasks -> Task]
        BY <3>1, TaskStep DEF Admit, Places
      <4>. QED
        BY <3>1, <4>1 DEF Admit, Begin, TypeOK
    <3>2. CASE Deduct(t)
      <4>1. task' \in [Tasks -> Task]
        BY <3>2, TaskStep DEF Deduct, Places
      <4>. QED
        BY <3>2, <4>1, CreditLedgerAssumption DEF Deduct, TypeOK
    <3>. QED
      BY <2>1, <3>1, <3>2 DEF Operation
  <2>2. ASSUME NEW t \in Tasks, AutoTopUp(t) PROVE TypeOK'
    <3>1. task' \in [Tasks -> Task]
      BY <2>2, TaskStep DEF AutoTopUp, ReadSettings, CheckLimit, FreeTopUp, Places
    <3>. QED
      BY <2>2, <3>1, TopUpStep DEF AutoTopUp, ReadSettings, CheckLimit, FreeTopUp, GiveAway, TypeOK
  <2>3. ASSUME NEW t \in Tasks, ByHand(t) PROVE TypeOK'
    <3>1. task' \in [Tasks -> Task]
      BY <2>3, TaskStep DEF ByHand, RequestTopUp, ManualTopUp, Purchase, Places
    <3>. QED
      BY <2>3, <3>1, TopUpStep DEF ByHand, RequestTopUp, ManualTopUp, Purchase, Begin, GiveAway,
                             TypeOK
  <2>4. ASSUME NEW t \in Tasks, Paying(t) PROVE TypeOK'
    <3>1. CASE Pay(t)
      <4>1. PICK p \in Payments \ paid :
              /\ paid' = paid \cup {p}
              /\ task' = [task EXCEPT
                   ![t] = [at |-> "confirm", auto |-> task[t].at = "charge", payment |-> p]]
        BY <3>1 DEF Pay
      <4>2. [at |-> "confirm", auto |-> task[t].at = "charge", payment |-> p] \in Task
        BY DEF Task, Places
      <4>3. task' \in [Tasks -> Task]
        BY <4>1, <4>2 DEF TypeOK
      <4>. QED
        BY <3>1, <4>1, <4>3 DEF Pay, TypeOK
    <3>2. CASE PayUnseen(t)
      BY <3>2, GiveUpStep DEF PayUnseen, TypeOK
    <3>3. CASE Decline(t)
      BY <3>3, GiveUpStep DEF Decline, TypeOK
    <3>. QED
      BY <2>4, <3>1, <3>2, <3>3 DEF Paying
  <2>5. ASSUME NEW t \in Tasks, Crediting(t) PROVE TypeOK'
    <3>1. CASE Confirm(t)
      <4>1. task' \in [Tasks -> Task]
        BY <3>1, TaskStep DEF Confirm, Places
      <4>. QED
        BY <3>1, <4>1 DEF Confirm, TypeOK
    <3>2. CASE Credit(t)
      <4>1. task' \in [Tasks -> Task]
        BY <3>2, TaskStep DEF Credit, Places
      <4>2. ASSUME NEW x PROVE [credited EXCEPT ![x] = @ + 1] \in [Payments -> Nat]
        <5>1. credited \in [Payments -> Nat]
          BY DEF TypeOK
        <5>2. CASE x \in Payments
          BY <5>1, <5>2
        <5>3. CASE x \notin Payments
          BY <5>1, <5>3
        <5>. QED
          BY <5>2, <5>3
      <4>3. credited' \in [Payments -> Nat]
        BY <3>2, <4>2 DEF Credit
      <4>. QED
        BY <3>2, <4>1, <4>3, TopUpStep DEF Credit, TypeOK
    <3>3. CASE CreditFails(t)
      BY <3>3, GiveUpStep DEF CreditFails, TypeOK
    <3>. QED
      BY <2>5, <3>1, <3>2, <3>3 DEF Crediting
  <2>6. ASSUME NEW t \in Tasks, Abort(t) PROVE TypeOK'
    <3>1. task' \in [Tasks -> Task]
      BY <2>6, TaskStep DEF Abort, Places
    <3>. QED
      BY <2>6, <3>1 DEF Abort, TypeOK
  <2>7. ASSUME NEW p \in Payments, Webhook(p) PROVE TypeOK'
    <3>1. CASE Deliver(p)
      BY <3>1 DEF Deliver, TypeOK
    <3>2. CASE HookCredit(p)
      BY <3>2, TopUpStep DEF HookCredit, TypeOK
    <3>3. CASE HookFails(p)
      BY <3>3 DEF HookFails, TypeOK
    <3>. QED
      BY <2>7, <3>1, <3>2, <3>3 DEF Webhook
  <2>8. CASE UNCHANGED vars
    BY <2>8 DEF vars, TypeOK
  <2>. QED
    BY <2>1, <2>2, <2>3, <2>4, <2>5, <2>6, <2>7, <2>8 DEF Next
<1>. QED
  BY <1>1, <1>2, PTL DEF Spec

\* The balance never goes below zero: only a deduction lowers it, and it looks
\* at the balance in the step that lowers it.
THEOREM BalanceCovers == Spec => []NeverNegative
<1>1. Init => NeverNegative
  BY CreditLedgerAssumption DEF Init, NeverNegative
<1>2. TypeOK /\ NeverNegative /\ [Next]_vars => NeverNegative'
  <2>. SUFFICES ASSUME TypeOK, NeverNegative, [Next]_vars PROVE NeverNegative'
    OBVIOUS
  <2>1. TopUp => NeverNegative'
    BY CreditLedgerAssumption DEF TopUp, NeverNegative, TypeOK
  <2>2. UNCHANGED balance => NeverNegative'
    BY DEF NeverNegative
  <2>3. ASSUME NEW t \in Tasks, Deduct(t) PROVE NeverNegative'
    BY <2>3, CreditLedgerAssumption DEF Deduct, NeverNegative, TypeOK
  <2>4. \/ TopUp
        \/ UNCHANGED balance
        \/ \E t \in Tasks : Deduct(t)
    BY DEF Next, vars, Operation, AutoTopUp, ByHand, Paying, Crediting, Webhook, Begin,
           Admit, ReadSettings, CheckLimit, FreeTopUp, RequestTopUp, ManualTopUp, Purchase,
           Pay, PayUnseen, Decline, Confirm, Credit, CreditFails, Abort, Deliver, HookCredit,
           HookFails, GiveAway
  <2>. QED
    BY <2>1, <2>2, <2>3, <2>4
<1>. QED
  BY <1>1, <1>2, LedgerTypeCorrect, PTL DEF Spec

-----------------------------------------------------------------------------
\* The sum that no step raises, except a check that passes and is within the
\* limit itself.
Promised ==
  /\ unpaid <= spent
  /\ unpaid + Amount * Cardinality(InFlight) <= Limit + (Cardinality(Tasks) - 1) * Amount

\* Cardinalities of the sets of tasks that the steps compare.
LEMMA TaskCounts ==
  ASSUME NEW S \in SUBSET Tasks
  PROVE  /\ IsFiniteSet(S) /\ Cardinality(S) \in Nat
         /\ Cardinality(Tasks) \in Nat \ {0}
         /\ Cardinality(S) <= Cardinality(Tasks)
         /\ \A t \in S : Cardinality(S \ {t}) = Cardinality(S) - 1
<1>1. IsFiniteSet(Tasks) /\ IsFiniteSet(S) /\ Cardinality(S) <= Cardinality(Tasks)
  BY CreditLedgerAssumption, FS_Subset
<1>2. Cardinality(S) \in Nat /\ Cardinality(Tasks) \in Nat /\ Cardinality(Tasks) # 0
  BY <1>1, CreditLedgerAssumption, FS_CardinalityType, FS_EmptySet
<1>3. ASSUME NEW t \in S PROVE Cardinality(S \ {t}) = Cardinality(S) - 1
  BY <1>1, FS_RemoveElement
<1>. QED
  BY <1>1, <1>2, <1>3

LEMMA InFlightCounts ==
  /\ InFlight \in SUBSET Tasks /\ InFlight' \in SUBSET Tasks
  /\ IsFiniteSet(InFlight) /\ IsFiniteSet(InFlight')
  /\ Cardinality(InFlight) \in Nat /\ Cardinality(InFlight') \in Nat
  /\ Cardinality(Tasks) \in Nat /\ Cardinality(InFlight') <= Cardinality(Tasks)
<1>1. InFlight \in SUBSET Tasks /\ InFlight' \in SUBSET Tasks
  BY DEF InFlight
<1>. QED
  BY <1>1, TaskCounts

\* A step that leaves no more top-ups promised and gives nothing away keeps the
\* sum.
LEMMA FewerPromised ==
  ASSUME TypeOK, Promised, InFlight' \subseteq InFlight, unpaid' = unpaid,
         spent' = spent \/ TopUp
  PROVE  Promised'
<1>1. /\ Cardinality(InFlight') <= Cardinality(InFlight)
      /\ Cardinality(InFlight) \in Nat /\ Cardinality(InFlight') \in Nat
      /\ Cardinality(Tasks) \in Nat
  BY InFlightCounts, FS_Subset
<1>2. Amount \in Nat /\ Limit \in Nat /\ spent \in Nat /\ unpaid \in Nat /\ unpaid <= spent
  BY CreditLedgerAssumption DEF TypeOK, Promised
<1>3. Amount * Cardinality(InFlight') <= Amount * Cardinality(InFlight)
  BY <1>1, <1>2
<1>4. unpaid' <= spent'
  BY <1>2 DEF TopUp
<1>. QED
  BY <1>1, <1>2, <1>3, <1>4 DEF Promised

\* A check that passes keeps it, whoever else passed before.
LEMMA CheckedPromise ==
  ASSUME TypeOK, Promised, ~OverLimit, spent' = spent, unpaid' = unpaid
  PROVE  Promised'
<1>1. /\ Cardinality(InFlight') \in Nat /\ Cardinality(Tasks) \in Nat
      /\ Cardinality(InFlight') <= Cardinality(Tasks)
  BY InFlightCounts
<1>2. /\ Amount \in Nat /\ Limit \in Nat /\ spent \in Nat /\ unpaid \in Nat
      /\ unpaid <= spent /\ spent + Amount <= Limit
  BY CreditLedgerAssumption DEF TypeOK, OverLimit, Promised
<1>3. Amount * Cardinality(InFlight') <= Amount * Cardinality(Tasks)
  BY <1>1, <1>2
<1>4. Amount * Cardinality(Tasks) = Amount + (Cardinality(Tasks) - 1) * Amount
  BY <1>1, <1>2
<1>. QED
  BY <1>1, <1>2, <1>3, <1>4 DEF Promised

\* A promise that is kept moves from one side of the sum to the other.
LEMMA PromiseKept ==
  ASSUME TypeOK, Promised, GiveAway, NEW t \in Tasks, Stop(t), t \in InFlight
  PROVE  Promised'
<1>1. InFlight' = InFlight \ {t}
  BY DEF InFlight, Stop, Idle, TypeOK
<1>2. /\ Cardinality(InFlight') = Cardinality(InFlight) - 1
      /\ Cardinality(InFlight') \in Nat
      /\ Cardinality(InFlight) \in Nat /\ Cardinality(Tasks) \in Nat
  BY <1>1, InFlightCounts, TaskCounts
<1>3. /\ Amount \in Nat /\ Limit \in Nat /\ spent \in Nat /\ unpaid \in Nat /\ unpaid <= spent
      /\ unpaid' = unpaid + Amount /\ spent' = spent + Amount
  BY CreditLedgerAssumption DEF TypeOK, GiveAway, TopUp, Promised
<1>4. Amount * Cardinality(InFlight') + Amount = Amount * Cardinality(InFlight)
  BY <1>2, <1>3
<1>. QED
  BY <1>2, <1>3, <1>4 DEF Promised

\* A task whose charge or credit failed was among the promised if it goes on to
\* the free top-up.
LEMMA GivenUp ==
  ASSUME TypeOK, NEW t \in Tasks, GiveUp(t)
  PROVE  InFlight' \subseteq InFlight
<1>1. CASE task[t].at = "charge" \/ task[t].auto
  <2>1. t \in InFlight
    BY <1>1 DEF InFlight
  <2>. QED
    BY <1>1, <2>1 DEF InFlight, GiveUp, Idle, TypeOK
<1>2. CASE ~(task[t].at = "charge" \/ task[t].auto)
  BY <1>2 DEF InFlight, GiveUp, Idle, TypeOK
<1>. QED
  BY <1>1, <1>2

\* The spend limit is overshot by at most one top-up for every task but one.
THEOREM OvershootIsBounded == Spec => []SpendOvershootIsBounded
<1>1. Init => Promised
  <2>. SUFFICES ASSUME Init PROVE Promised
    OBVIOUS
  <2>1. InFlight = {}
    BY DEF Init, InFlight, Idle
  <2>2. Cardinality(InFlight) = 0
    BY <2>1, FS_EmptySet
  <2>3. Cardinality(Tasks) \in Nat \ {0}
    BY TaskCounts
  <2>4. (Cardinality(Tasks) - 1) * Amount \in Nat
    BY <2>3, CreditLedgerAssumption
  <2>5. unpaid = 0 /\ spent = 0 /\ Amount * Cardinality(InFlight) = 0
    BY <2>2, CreditLedgerAssumption DEF Init
  <2>. QED
    BY <2>4, <2>5, CreditLedgerAssumption DEF Promised
<1>2. TypeOK /\ Promised /\ [Next]_vars => Promised'
  <2>. SUFFICES ASSUME TypeOK, Promised, [Next]_vars PROVE Promised'
    OBVIOUS
  <2>0. ASSUME NEW t \in Tasks PROVE task[t] \in Task
    BY DEF TypeOK
  <2>1. ASSUME NEW t \in Tasks, Operation(t) PROVE Promised'
    <3>1. InFlight' \subseteq InFlight /\ spent' = spent /\ unpaid' = unpaid
      BY <2>1, <2>0 DEF Operation, Admit, Begin, Deduct, Go, Stop, Idle, InFlight, TypeOK, Task
    <3>. QED
      BY <3>1, FewerPromised
  <2>2. ASSUME NEW t \in Tasks, AutoTopUp(t) PROVE Promised'
    <3>1. CASE ReadSettings(t) \/ (CheckLimit(t) /\ OverLimit)
      <4>1. InFlight' \subseteq InFlight /\ spent' = spent /\ unpaid' = unpaid
        BY <3>1, <2>0 DEF ReadSettings, CheckLimit, Go, Stop, Idle, InFlight, TypeOK, Task
      <4>. QED
        BY <4>1, FewerPromised
    <3>2. CASE CheckLimit(t) /\ ~OverLimit
      <4>1. spent' = spent /\ unpaid' = unpaid
        BY <3>2 DEF CheckLimit
      <4>. QED
        BY <4>1, <3>2, CheckedPromise
    <3>3. CASE FreeTopUp(t)
      <4>1. t \in InFlight /\ GiveAway /\ Stop(t)
        BY <3>3 DEF FreeTopUp, InFlight
      <4>. QED
        BY <4>1, PromiseKept
    <3>. QED
      BY <2>2, <3>1, <3>2, <3>3 DEF AutoTopUp
  <2>3. ASSUME NEW t \in Tasks, ByHand(t) PROVE Promised'
    <3>1. CASE RequestTopUp(t)
      <4>1. spent' = spent /\ unpaid' = unpaid /\ ~OverLimit
        BY <3>1 DEF RequestTopUp, Begin
      <4>. QED
        BY <4>1, CheckedPromise
    <3>2. CASE ManualTopUp(t)
      <4>1. t \in InFlight /\ GiveAway /\ Stop(t)
        BY <3>2 DEF ManualTopUp, InFlight
      <4>. QED
        BY <4>1, PromiseKept
    <3>3. CASE Purchase(t)
      <4>1. InFlight' \subseteq InFlight /\ spent' = spent /\ unpaid' = unpaid
        BY <3>3, <2>0 DEF Purchase, Begin, Go, InFlight, TypeOK, Task
      <4>. QED
        BY <4>1, FewerPromised
    <3>. QED
      BY <2>3, <3>1, <3>2, <3>3 DEF ByHand
  <2>4. ASSUME NEW t \in Tasks, Paying(t) PROVE Promised'
    <3>1. CASE Pay(t)
      <4>1. PICK p \in Payments :
              task' = [task EXCEPT
                ![t] = [at |-> "confirm", auto |-> task[t].at = "charge", payment |-> p]]
        BY <3>1 DEF Pay
      <4>2. \A u \in Tasks \ {t} : task'[u] = task[u]
        BY <4>1
      <4>3. task'[t].at = "confirm" /\ (task'[t].auto => task[t].at = "charge")
        BY <4>1 DEF TypeOK
      <4>4. InFlight' \subseteq InFlight
        BY <4>2, <4>3 DEF InFlight
      <4>. QED
        BY <3>1, <4>4, FewerPromised DEF Pay
    <3>2. CASE PayUnseen(t) \/ Decline(t)
      BY <3>2, GivenUp, FewerPromised DEF PayUnseen, Decline
    <3>. QED
      BY <2>4, <3>1, <3>2 DEF Paying
  <2>5. ASSUME NEW t \in Tasks, Crediting(t) PROVE Promised'
    <3>1. CASE Confirm(t) \/ Credit(t)
      <4>1. InFlight' \subseteq InFlight
        BY <3>1, <2>0 DEF Confirm, Credit, Go, Stop, Idle, InFlight, TypeOK, Task
      <4>. QED
        BY <3>1, <4>1, FewerPromised DEF Confirm, Credit
    <3>2. CASE CreditFails(t)
      BY <3>2, GivenUp, FewerPromised DEF CreditFails
    <3>. QED
      BY <2>5, <3>1, <3>2 DEF Crediting
  <2>6. ASSUME NEW t \in Tasks, Abort(t) PROVE Promised'
    <3>1. InFlight' \subseteq InFlight /\ spent' = spent /\ unpaid' = unpaid
      BY <2>6 DEF Abort, Stop, Idle, InFlight, TypeOK
    <3>. QED
      BY <3>1, FewerPromised
  <2>7. ASSUME NEW p \in Payments, Webhook(p) PROVE Promised'
    <3>1. InFlight' = InFlight /\ unpaid' = unpaid /\ (spent' = spent \/ TopUp)
      BY <2>7 DEF Webhook, Deliver, HookCredit, HookFails, InFlight
    <3>. QED
      BY <3>1, FewerPromised
  <2>8. CASE UNCHANGED vars
    <3>1. InFlight' = InFlight /\ spent' = spent /\ unpaid' = unpaid
      BY <2>8 DEF vars, InFlight
    <3>. QED
      BY <3>1, FewerPromised
  <2>. QED
    BY <2>1, <2>2, <2>3, <2>4, <2>5, <2>6, <2>7, <2>8 DEF Next
<1>3. TypeOK /\ Promised => SpendOvershootIsBounded
  <2>. SUFFICES ASSUME TypeOK, Promised PROVE SpendOvershootIsBounded
    OBVIOUS
  <2>1. Cardinality(InFlight) \in Nat /\ Cardinality(Tasks) \in Nat
    BY InFlightCounts
  <2>2. Amount * Cardinality(InFlight) >= 0 /\ Amount * Cardinality(InFlight) \in Int
    BY <2>1, CreditLedgerAssumption
  <2>3. (Cardinality(Tasks) - 1) * Amount \in Int
    BY <2>1, CreditLedgerAssumption
  <2>. QED
    BY <2>2, <2>3, CreditLedgerAssumption DEF Promised, SpendOvershootIsBounded, TypeOK
<1>. QED
  BY <1>1, <1>2, <1>3, LedgerTypeCorrect, PTL DEF Spec

-----------------------------------------------------------------------------
(* CronConfigs                                                             *)

\* The slot is the next run of the row: a tick may select it.
Open(c, t) == configs[c] # Nil /\ configs[c].next = t

\* The servers that have selected the slot and not reached it, and those that are
\* about to write the next run of the row.
Selecting(c, t) == {s \in Servers : \E r \in due[s] : r.id = c /\ r.slot = t}
Advancing(c)    == {s \in Servers : advance[s] # Nil /\ advance[s].id = c}

\* A tick selects a row once, and does not select it before its write is made.
DueInv ==
  \A s \in Servers : \A r \in due[s] :
    /\ \A q \in due[s] : q.id = r.id => q = r
    /\ advance[s] # Nil => advance[s].id # r.id

\* While a slot is open, whoever ran it since it was offered last is about to
\* write another next run, or met a fault; what has selected it may still run it
\* after it is closed.
SlotInv ==
  \A c \in Configs, t \in Slots :
    /\ runs[c][t] + Cardinality(Selecting(c, t)) <= offers[c][t] * Cardinality(Servers) + faults
    /\ Open(c, t) => runs[c][t] + Cardinality(Servers)
                       <= offers[c][t] * Cardinality(Servers) + Cardinality(Advancing(c)) + faults

CronInv == CronTypeOK /\ DueInv /\ SlotInv

\* The next run lies at most one period ahead of the clock, and after it.
LEMMA NextRunIsSlot ==
  ASSUME CronTypeOK, NEW p \in Periods
  PROVE  NextRun(p) \in Slots
<1>. USE CronAssumption, PeriodAssumption
<1>1. p \in Nat \ {0} /\ MaxPeriod \in Nat /\ p <= MaxPeriod /\ clock \in Nat /\ clock <= MaxTime
  BY DEF CronTypeOK
<1>. DEFINE q == clock \div p
<1>2. q \in Nat /\ q * p <= clock
  BY <1>1
<1>3. (q + 1) * p = q * p + p
  BY <1>1, <1>2
<1>4. q * p \in Nat
  BY <1>1, <1>2
<1>. HIDE DEF q
<1>5. (q + 1) * p \in 1 .. (MaxTime + MaxPeriod)
  BY <1>1, <1>2, <1>3, <1>4
<1>. QED
  BY <1>5 DEF q, NextRun, Slots

LEMMA RescheduleIsSlot ==
  ASSUME CronTypeOK, NEW enabled, NEW expr \in Periods \cup {Nil}
  PROVE  Reschedule(enabled, expr) \in {0} \cup Slots
BY NextRunIsSlot DEF Reschedule

\* Setting next_run_at counts for the slot it is set to.
LEMMA OfferCounts ==
  ASSUME offers \in [Configs -> [Slots -> Nat]],
         NEW c \in Configs, NEW slot \in {0} \cup Slots, Offer(c, slot)
  PROVE  /\ offers' \in [Configs -> [Slots -> Nat]]
         /\ \A d \in Configs, t \in Slots :
              offers'[d][t] = offers[d][t] + IF d = c /\ t = slot THEN 1 ELSE 0
<1>1. CASE slot = 0
  <2>1. \A t \in Slots : t # 0
    BY CronAssumption, PeriodAssumption DEF Slots
  <2>2. \A d \in Configs, t \in Slots : offers[d][t] \in Nat
    OBVIOUS
  <2>. QED
    BY <1>1, <2>1, <2>2 DEF Offer
<1>2. CASE slot \in Slots /\ slot # 0
  <2>1. offers' = [offers EXCEPT ![c][slot] = @ + 1]
    BY <1>2 DEF Offer
  <2>2. offers[c][slot] \in Nat
    BY <1>2
  <2>3. offers' = [offers EXCEPT ![c] = [offers[c] EXCEPT ![slot] = offers[c][slot] + 1]]
    BY <2>1, <1>2
  <2>. QED
    BY <2>2, <2>3, <1>2
<1>. QED
  BY <1>1, <1>2

LEMMA CronTypeInit == CronInit => CronTypeOK
BY CronAssumption DEF CronInit, CronTypeOK, Row

LEMMA CronTypeNext ==
  ASSUME CronTypeOK, [CronNext]_cronVars
  PROVE  CronTypeOK'
<1>. USE CronAssumption, NilAssumption
<1>0. /\ clock \in 0..MaxTime /\ edits \in 0..MaxEdits /\ faults \in 0..MaxFaults
      /\ configs \in [Configs -> Row \cup {Nil}]
      /\ drafts \in [Editors -> Draft \cup {Nil}]
      /\ due \in [Servers -> SUBSET DueRow]
      /\ advance \in [Servers -> NextWrite \cup {Nil}]
      /\ offers \in [Configs -> [Slots -> Nat]] /\ runs \in [Configs -> [Slots -> Nat]]
  BY DEF CronTypeOK
<1>1. ASSUME NEW c \in Configs, NEW enabled \in BOOLEAN, NEW expr \in Periods \cup {Nil},
             CreateConfig(c, enabled, expr)
      PROVE  CronTypeOK'
  <2>. DEFINE slot == Reschedule(enabled, expr)
  <2>1. slot \in {0} \cup Slots
    BY RescheduleIsSlot
  <2>2. offers' \in [Configs -> [Slots -> Nat]]
    BY <1>0, <1>1, <2>1, OfferCounts DEF CreateConfig
  <2>3. [enabled |-> enabled, expr |-> expr, next |-> slot] \in Row
    BY <2>1 DEF Row
  <2>. HIDE DEF slot
  <2>4. /\ configs' = [configs EXCEPT ![c] = [enabled |-> enabled, expr |-> expr, next |-> slot]]
        /\ edits' \in 0..MaxEdits
        /\ UNCHANGED <<clock, drafts, due, advance, runs, faults>>
    BY <1>0, <1>1 DEF CreateConfig, Edit, slot
  <2>. QED
    BY <1>0, <2>2, <2>3, <2>4 DEF CronTypeOK
<1>2. ASSUME NEW u \in Editors, NEW c \in Configs, NEW enabled \in BOOLEAN \cup {Keep},
             NEW expr \in Periods \cup {Keep, Nil}, ReadConfig(u, c, enabled, expr)
      PROVE  CronTypeOK'
  <2>. DEFINE d == [id |-> c,
                    enabled |-> IF enabled = Keep THEN configs[c].enabled ELSE enabled,
                    expr    |-> IF expr = Keep THEN configs[c].expr ELSE expr]
  <2>1. configs[c] \in Row
    BY <1>0, <1>2 DEF ReadConfig
  <2>2. /\ (IF enabled = Keep THEN configs[c].enabled ELSE enabled) \in BOOLEAN
        /\ (IF expr = Keep THEN configs[c].expr ELSE expr) \in Periods \cup {Nil}
    BY <2>1 DEF Row
  <2>3. d \in Draft
    BY <2>2 DEF Draft
  <2>. HIDE DEF d
  <2>4. /\ drafts' = [drafts EXCEPT ![u] = d] /\ edits' \in 0..MaxEdits
        /\ UNCHANGED <<clock, configs, due, advance, offers, runs, faults>>
    BY <1>0, <1>2 DEF ReadConfig, Edit, d
  <2>. QED
    BY <1>0, <2>3, <2>4 DEF CronTypeOK
<1>3. ASSUME NEW u \in Editors, SaveConfig(u)
      PROVE  CronTypeOK'
  <2>. DEFINE d    == drafts[u]
              slot == Reschedule(d.enabled, d.expr)
  <2>1. d \in Draft
    BY <1>0, <1>3 DEF SaveConfig
  <2>2. d.id \in Configs /\ d.enabled \in BOOLEAN /\ d.expr \in Periods \cup {Nil}
    BY <2>1 DEF Draft
  <2>3. slot \in {0} \cup Slots
    BY <2>2, RescheduleIsSlot
  <2>4. [enabled |-> d.enabled, expr |-> d.expr, next |-> slot] \in Row
    BY <2>2, <2>3 DEF Row
  <2>5. /\ drafts' = [drafts EXCEPT ![u] = Nil]
        /\ UNCHANGED <<clock, due, advance, runs, edits, faults>>
        /\ \/ /\ configs' = [configs EXCEPT
                   ![d.id] = [enabled |-> d.enabled, expr |-> d.expr, next |-> slot]]
              /\ Offer(d.id, slot)
           \/ UNCHANGED <<configs, offers>>
    BY <1>3 DEF SaveConfig
  <2>. HIDE DEF slot
  <2>6. offers' \in [Configs -> [Slots -> Nat]]
    BY <1>0, <2>2, <2>3, <2>5, OfferCounts
  <2>7. configs' \in [Configs -> Row \cup {Nil}]
    BY <1>0, <2>2, <2>4, <2>5
  <2>8. drafts' \in [Editors -> Draft \cup {Nil}]
    BY <1>0, <2>5
  <2>. QED
    BY <1>0, <2>5, <2>6, <2>7, <2>8 DEF CronTypeOK
<1>4. ASSUME NEW c \in Configs, DeleteConfig(c)
      PROVE  CronTypeOK'
  BY <1>0, <1>4 DEF DeleteConfig, Edit, CronTypeOK
<1>5. ASSUME NEW s \in Servers, SelectDue(s)
      PROVE  CronTypeOK'
  <2>1. PICK b \in Batches :
          due' = [due EXCEPT
            ![s] = {[id |-> c, expr |-> configs[c].expr, slot |-> configs[c].next] : c \in b}]
    BY <1>5 DEF SelectDue
  <2>2. ASSUME NEW c \in b
        PROVE  [id |-> c, expr |-> configs[c].expr, slot |-> configs[c].next] \in DueRow
    <3>1. c \in Configs /\ IsDue(c)
      BY <2>1, <2>2 DEF Batches
    <3>2. configs[c] \in Row /\ configs[c].expr # Nil /\ configs[c].next \in 1..clock
      BY <1>0, <3>1 DEF IsDue
    <3>3. configs[c].next \in Slots /\ configs[c].expr \in Periods
      BY <1>0, <3>2 DEF Row
    <3>. QED
      BY <3>1, <3>3 DEF DueRow
  <2>3. due' \in [Servers -> SUBSET DueRow]
    BY <1>0, <2>1, <2>2
  <2>. QED
    BY <1>0, <1>5, <2>3 DEF SelectDue, CronTypeOK
<1>6. ASSUME NEW s \in Servers, DisableUnreadable(s)
      PROVE  CronTypeOK'
  <2>1. PICK r \in due[s] :
          /\ due' = [due EXCEPT ![s] = @ \ {r}]
          /\ configs' = IF configs[r.id] = Nil THEN configs
                        ELSE [configs EXCEPT ![r.id].enabled = FALSE]
    BY <1>6 DEF DisableUnreadable
  <2>2. r \in DueRow /\ r.id \in Configs
    BY <1>0, <2>1 DEF DueRow
  <2>3. due' \in [Servers -> SUBSET DueRow]
    BY <1>0, <2>1
  <2>4. CASE configs[r.id] # Nil
    <3>1. configs[r.id] \in Row
      BY <1>0, <2>2, <2>4
    <3>. DEFINE row == [configs[r.id] EXCEPT !.enabled = FALSE]
    <3>2. row \in Row
      BY <3>1 DEF Row
    <3>3. configs' = [configs EXCEPT ![r.id] = row]
      BY <2>1, <2>4
    <3>. HIDE DEF row
    <3>. QED
      BY <1>0, <1>6, <2>3, <3>2, <3>3 DEF DisableUnreadable, CronTypeOK
  <2>5. CASE configs[r.id] = Nil
    BY <1>0, <1>6, <2>1, <2>3, <2>5 DEF DisableUnreadable, CronTypeOK
  <2>. QED
    BY <2>4, <2>5
<1>7. ASSUME NEW s \in Servers, TriggerDue(s)
      PROVE  CronTypeOK'
  <2>1. PICK r \in due[s], started \in BOOLEAN :
          /\ due' = [due EXCEPT ![s] = @ \ {r}]
          /\ runs' = IF started THEN [runs EXCEPT ![r.id][r.slot] = @ + 1] ELSE runs
          /\ advance' = [advance EXCEPT ![s] = [id |-> r.id, next |-> NextRun(r.expr)]]
    BY <1>7 DEF TriggerDue
  <2>2. r.id \in Configs /\ r.slot \in Slots /\ r.expr \in Periods
    BY <1>0, <2>1 DEF DueRow
  <2>3. runs' \in [Configs -> [Slots -> Nat]]
    BY <1>0, <2>1, <2>2
  <2>4. [id |-> r.id, next |-> NextRun(r.expr)] \in NextWrite
    BY <2>2, NextRunIsSlot DEF NextWrite
  <2>5. advance' \in [Servers -> NextWrite \cup {Nil}]
    BY <1>0, <2>1, <2>4
  <2>6. due' \in [Servers -> SUBSET DueRow]
    BY <1>0, <2>1
  <2>. QED
    BY <1>0, <1>7, <2>3, <2>5, <2>6 DEF TriggerDue, CronTypeOK
<1>8. ASSUME NEW s \in Servers, AdvanceNextRun(s)
      PROVE  CronTypeOK'
  <2>. DEFINE w == advance[s]
  <2>1. w \in NextWrite /\ w.id \in Configs /\ w.next \in Slots
    BY <1>0, <1>8 DEF AdvanceNextRun, NextWrite
  <2>2. advance' \in [Servers -> NextWrite \cup {Nil}]
    BY <1>0, <1>8 DEF AdvanceNextRun
  <2>3. CASE configs[w.id] # Nil
    <3>1. configs[w.id] \in Row
      BY <1>0, <2>1, <2>3
    <3>. DEFINE row == [configs[w.id] EXCEPT !.next = w.next]
    <3>2. row \in Row
      BY <2>1, <3>1 DEF Row
    <3>3. configs' = [configs EXCEPT ![w.id] = row] /\ Offer(w.id, w.next)
      BY <1>8, <2>3 DEF AdvanceNextRun
    <3>4. offers' \in [Configs -> [Slots -> Nat]]
      BY <1>0, <2>1, <3>3, OfferCounts
    <3>. HIDE DEF row
    <3>. QED
      BY <1>0, <1>8, <2>2, <3>2, <3>3, <3>4 DEF AdvanceNextRun, CronTypeOK
  <2>4. CASE configs[w.id] = Nil
    BY <1>0, <1>8, <2>2, <2>4 DEF AdvanceNextRun, CronTypeOK
  <2>. QED
    BY <2>3, <2>4
<1>9. ASSUME NEW s \in Servers, AdvanceFails(s) \/ CrashServer(s)
      PROVE  CronTypeOK'
  <2>1. faults' \in 0..MaxFaults
    BY <1>0, <1>9 DEF AdvanceFails, CrashServer, Fault
  <2>2. due' \in [Servers -> SUBSET DueRow] /\ advance' \in [Servers -> NextWrite \cup {Nil}]
    BY <1>0, <1>9 DEF AdvanceFails, CrashServer
  <2>3. UNCHANGED <<clock, configs, drafts, offers, runs, edits>>
    BY <1>9 DEF AdvanceFails, CrashServer
  <2>. QED
    BY <1>0, <2>1, <2>2, <2>3 DEF CronTypeOK
<1>10. CASE ClockTick
  BY <1>0, <1>10 DEF ClockTick, CronTypeOK
<1>11. CASE UNCHANGED cronVars
  BY <1>0, <1>11 DEF cronVars, CronTypeOK
<1>. QED
  BY <1>1, <1>2, <1>3, <1>4, <1>5, <1>6, <1>7, <1>8, <1>9, <1>10, <1>11 DEF CronNext

\* Every variable of the configurations and their scheduler keeps its type.
THEOREM CronTypeCorrect == CronSpec => []CronTypeOK
BY CronTypeInit, CronTypeNext, PTL DEF CronSpec

\* What one step may do to a slot: nothing but close it, offer it, select it, run it,
\* or meet a fault.
Kept(c, t) ==
  /\ runs'[c][t] = runs[c][t] /\ offers'[c][t] = offers[c][t] /\ faults' = faults
  /\ Selecting(c, t)' \subseteq Selecting(c, t)
  /\ Open(c, t)' => Open(c, t) /\ Advancing(c) \subseteq Advancing(c)'

Offered(c, t) ==
  /\ runs'[c][t] = runs[c][t] /\ offers'[c][t] = offers[c][t] + 1 /\ faults' = faults
  /\ Selecting(c, t)' \subseteq Selecting(c, t)

Selected(c, t) ==
  /\ runs'[c][t] = runs[c][t] /\ offers'[c][t] = offers[c][t] /\ faults' = faults
  /\ Open(c, t) /\ Open(c, t)' /\ Advancing(c) \subseteq Advancing(c)'

Ran(c, t) ==
  /\ runs'[c][t] <= runs[c][t] + 1 /\ offers'[c][t] = offers[c][t] /\ faults' = faults
  /\ Open(c, t)' => Open(c, t)
  /\ \E s \in Selecting(c, t) :
       /\ Selecting(c, t)' \subseteq Selecting(c, t) \ {s}
       /\ s \notin Advancing(c) /\ Advancing(c) \cup {s} \subseteq Advancing(c)'

Faulted(c, t) ==
  /\ runs'[c][t] = runs[c][t] /\ offers'[c][t] = offers[c][t] /\ faults' = faults + 1
  /\ Selecting(c, t)' \subseteq Selecting(c, t)
  /\ Open(c, t)' => Open(c, t)
  /\ \E s \in Servers : Advancing(c) \ {s} \subseteq Advancing(c)'

LEMMA ServersAreFinite ==
  ASSUME NEW c, NEW t
  PROVE  /\ IsFiniteSet(Selecting(c, t)) /\ IsFiniteSet(Advancing(c))
         /\ Cardinality(Selecting(c, t)) \in Nat /\ Cardinality(Advancing(c)) \in Nat
         /\ Cardinality(Selecting(c, t)) <= Cardinality(Servers)
         /\ Cardinality(Advancing(c)) <= Cardinality(Servers)
         /\ Cardinality(Servers) \in Nat
<1>1. Selecting(c, t) \subseteq Servers /\ Advancing(c) \subseteq Servers
  BY DEF Selecting, Advancing
<1>. QED
  BY <1>1, CronAssumption, FS_Subset, FS_CardinalityType

\* A server either selects a slot of the row or writes its next run.
LEMMA ServersAreApart ==
  ASSUME DueInv, NEW c, NEW t
  PROVE  Cardinality(Selecting(c, t)) + Cardinality(Advancing(c)) <= Cardinality(Servers)
<1>. DEFINE S == Selecting(c, t)
            A == Advancing(c)
<1>1. S \cap A = {}
  BY DEF DueInv, Selecting, Advancing
<1>2. S \cup A \subseteq Servers
  BY DEF Selecting, Advancing
<1>3. IsFiniteSet(S) /\ IsFiniteSet(A)
  BY ServersAreFinite
<1>. HIDE DEF S, A
<1>4. Cardinality(S \cup A) = Cardinality(S) + Cardinality(A) - Cardinality(S \cap A)
  BY <1>3, FS_Union
<1>5. Cardinality(S \cup A) <= Cardinality(Servers)
  BY <1>2, CronAssumption, FS_Subset
<1>6. Cardinality(S \cap A) = 0
  BY <1>1, FS_EmptySet
<1>. QED
  BY <1>3, <1>4, <1>5, <1>6, FS_CardinalityType DEF S, A

SlotIsBounded(c, t) ==
  /\ runs[c][t] + Cardinality(Selecting(c, t)) <= offers[c][t] * Cardinality(Servers) + faults
  /\ Open(c, t) => runs[c][t] + Cardinality(Servers)
                     <= offers[c][t] * Cardinality(Servers) + Cardinality(Advancing(c)) + faults

LEMMA SlotStep ==
  ASSUME CronTypeOK, CronTypeOK', DueInv, DueInv', NEW c \in Configs, NEW t \in Slots,
         SlotIsBounded(c, t),
         \/ Kept(c, t) \/ Offered(c, t) \/ Selected(c, t) \/ Ran(c, t) \/ Faulted(c, t)
  PROVE  SlotIsBounded(c, t)'
<1>. DEFINE n == Cardinality(Servers)
            S == Selecting(c, t)
            A == Advancing(c)
            r == runs[c][t]
            o == offers[c][t]
<1>1. /\ r \in Nat /\ r' \in Nat /\ o \in Nat /\ o' \in Nat /\ faults \in Nat /\ faults' \in Nat
      /\ n \in Nat
  <2>1. r \in Nat /\ r' \in Nat /\ o \in Nat /\ o' \in Nat
    BY DEF CronTypeOK
  <2>2. faults \in Nat /\ faults' \in Nat
    BY CronAssumption DEF CronTypeOK
  <2>3. n \in Nat
    BY ServersAreFinite
  <2>. QED
    BY <2>1, <2>2, <2>3
<1>2. /\ IsFiniteSet(S) /\ IsFiniteSet(A)
      /\ Cardinality(S) \in Nat /\ Cardinality(A) \in Nat
      /\ Cardinality(S) <= n /\ Cardinality(A) <= n
  BY ServersAreFinite
<1>3. /\ IsFiniteSet(S') /\ IsFiniteSet(A')
      /\ Cardinality(S') \in Nat /\ Cardinality(A') \in Nat
      /\ Cardinality(S') <= n /\ Cardinality(A') <= n
  <2>1. S' \subseteq Servers /\ A' \subseteq Servers
    BY DEF Selecting, Advancing
  <2>. QED
    BY <2>1, CronAssumption, FS_Subset, FS_CardinalityType
<1>4. Cardinality(S) + Cardinality(A) <= n
  BY ServersAreApart
<1>5. Cardinality(S') + Cardinality(A') <= n
  <2>1. S' \cap A' = {}
    BY DEF DueInv, Selecting, Advancing
  <2>2. S' \cup A' \subseteq Servers
    BY DEF Selecting, Advancing
  <2>3. Cardinality(S' \cup A') = Cardinality(S') + Cardinality(A') - Cardinality(S' \cap A')
    BY <1>3, FS_Union
  <2>4. Cardinality(S' \cup A') <= n
    BY <2>2, CronAssumption, FS_Subset
  <2>5. Cardinality(S' \cap A') = 0
    BY <2>1, FS_EmptySet
  <2>. QED
    BY <1>1, <1>3, <2>3, <2>4, <2>5
<1>6. (o + 1) * n = o * n + n /\ o * n \in Nat
  BY <1>1
<1>7. /\ r + Cardinality(S) <= o * n + faults
      /\ Open(c, t) => r + n <= o * n + Cardinality(A) + faults
  BY DEF SlotIsBounded
<1>8. (r' + Cardinality(S') <= o' * n + faults'
       /\ (Open(c, t)' => r' + n <= o' * n + Cardinality(A') + faults'))
      => SlotIsBounded(c, t)'
  BY DEF SlotIsBounded
<1>9. ASSUME S' \subseteq S PROVE Cardinality(S') <= Cardinality(S)
  BY <1>2, <1>9, FS_Subset
<1>10. ASSUME A \subseteq A' PROVE Cardinality(A) <= Cardinality(A')
  BY <1>3, <1>10, FS_Subset
<1>11. CASE Kept(c, t)
  <2>1. r' = r /\ o' = o /\ faults' = faults /\ S' \subseteq S
        /\ (Open(c, t)' => Open(c, t) /\ A \subseteq A')
    BY <1>11 DEF Kept
  <2>. HIDE DEF n, S, A, r, o
  <2>. QED
    BY <1>1, <1>2, <1>3, <1>6, <1>7, <1>8, <1>9, <1>10, <2>1
<1>12. CASE Offered(c, t)
  <2>1. r' = r /\ o' = o + 1 /\ faults' = faults /\ S' \subseteq S
    BY <1>12 DEF Offered
  <2>. HIDE DEF n, S, A, r, o
  <2>. QED
    BY <1>1, <1>2, <1>3, <1>6, <1>7, <1>8, <1>9, <2>1
<1>13. CASE Selected(c, t)
  <2>1. r' = r /\ o' = o /\ faults' = faults /\ Open(c, t) /\ A \subseteq A'
    BY <1>13 DEF Selected
  <2>. HIDE DEF n, S, A, r, o
  <2>. QED
    BY <1>1, <1>2, <1>3, <1>5, <1>6, <1>7, <1>8, <1>10, <2>1
<1>14. CASE Ran(c, t)
  <2>1. r' <= r + 1 /\ o' = o /\ faults' = faults /\ (Open(c, t)' => Open(c, t))
    BY <1>14 DEF Ran
  <2>2. PICK s \in S : S' \subseteq S \ {s} /\ s \notin A /\ A \cup {s} \subseteq A'
    BY <1>14 DEF Ran
  <2>. HIDE DEF n, S, A, r, o
  <2>3. IsFiniteSet(S \ {s}) /\ Cardinality(S \ {s}) = Cardinality(S) - 1
    BY <1>2, <2>2, FS_RemoveElement
  <2>4. Cardinality(S') <= Cardinality(S) - 1
    BY <2>2, <2>3, FS_Subset
  <2>5. Cardinality(A \cup {s}) = Cardinality(A) + 1
    BY <1>2, <2>2, FS_AddElement
  <2>6. Cardinality(A) + 1 <= Cardinality(A')
    BY <1>3, <2>2, <2>5, FS_Subset
  <2>. QED
    BY <1>1, <1>2, <1>3, <1>6, <1>7, <1>8, <2>1, <2>4, <2>6
<1>15. CASE Faulted(c, t)
  <2>1. r' = r /\ o' = o /\ faults' = faults + 1 /\ S' \subseteq S /\ (Open(c, t)' => Open(c, t))
    BY <1>15 DEF Faulted
  <2>2. PICK s \in Servers : A \ {s} \subseteq A'
    BY <1>15 DEF Faulted
  <2>. HIDE DEF n, S, A, r, o
  <2>3. Cardinality(A) - 1 <= Cardinality(A \ {s})
    <3>1. CASE s \in A
      <4>1. Cardinality(A \ {s}) = Cardinality(A) - 1
        BY <1>2, <3>1, FS_RemoveElement
      <4>. QED
        BY <1>2, <4>1
    <3>2. CASE s \notin A
      <4>1. A \ {s} = A
        BY <3>2
      <4>. QED
        BY <1>2, <4>1
    <3>. QED
      BY <3>1, <3>2
  <2>4. Cardinality(A \ {s}) <= Cardinality(A') /\ Cardinality(A \ {s}) \in Nat
    BY <1>3, <2>2, FS_Subset, FS_CardinalityType
  <2>. QED
    BY <1>1, <1>2, <1>3, <1>6, <1>7, <1>8, <1>9, <2>1, <2>3, <2>4
<1>. QED
  BY <1>11, <1>12, <1>13, <1>14, <1>15

\* A row that is written with another next run offers that slot and closes the others.
LEMMA WriteStep ==
  ASSUME CronTypeOK, NEW d \in Configs, NEW slot \in {0} \cup Slots, NEW row, row.next = slot,
         configs' = [configs EXCEPT ![d] = row], Offer(d, slot), UNCHANGED <<due, runs, faults>>,
         NEW c \in Configs, NEW t \in Slots, c # d => Advancing(c) \subseteq Advancing(c)'
  PROVE  Kept(c, t) \/ Offered(c, t)
<1>1. /\ offers \in [Configs -> [Slots -> Nat]] /\ configs \in [Configs -> Row \cup {Nil}]
      /\ offers[c][t] \in Nat
  BY DEF CronTypeOK
<1>2. offers'[c][t] = offers[c][t] + IF c = d /\ t = slot THEN 1 ELSE 0
  BY <1>1, OfferCounts
<1>3. Selecting(c, t)' = Selecting(c, t)
  BY DEF Selecting
<1>4. CASE c = d /\ t = slot
  BY <1>2, <1>3, <1>4 DEF Offered
<1>5. CASE c = d /\ t # slot
  <2>1. ~Open(c, t)'
    BY <1>1, <1>5 DEF Open
  <2>. QED
    BY <1>1, <1>2, <1>3, <1>5, <2>1 DEF Kept
<1>6. CASE c # d
  <2>1. Open(c, t)' => Open(c, t)
    BY <1>1, <1>6 DEF Open
  <2>. QED
    BY <1>1, <1>2, <1>3, <1>6, <2>1 DEF Kept
<1>. QED
  BY <1>4, <1>5, <1>6

LEMMA DueInvNext ==
  ASSUME CronTypeOK, DueInv, [CronNext]_cronVars
  PROVE  DueInv'
<1>0. /\ due \in [Servers -> SUBSET DueRow] /\ advance \in [Servers -> NextWrite \cup {Nil}]
  BY DEF CronTypeOK
<1>1. CASE UNCHANGED <<due, advance>>
  BY <1>1 DEF DueInv
<1>2. ASSUME NEW s \in Servers, SelectDue(s)
      PROVE  DueInv'
  <2>1. PICK b \in Batches :
          due' = [due EXCEPT
            ![s] = {[id |-> c, expr |-> configs[c].expr, slot |-> configs[c].next] : c \in b}]
    BY <1>2 DEF SelectDue
  <2>2. advance' = advance /\ advance[s] = Nil
    BY <1>2 DEF SelectDue
  <2>. QED
    BY <1>0, <2>1, <2>2 DEF DueInv
<1>3. ASSUME NEW s \in Servers, TriggerDue(s)
      PROVE  DueInv'
  <2>1. PICK r \in due[s] :
          /\ due' = [due EXCEPT ![s] = @ \ {r}]
          /\ advance' = [advance EXCEPT ![s] = [id |-> r.id, next |-> NextRun(r.expr)]]
    BY <1>3 DEF TriggerDue
  <2>2. due'[s] = due[s] \ {r} /\ advance'[s].id = r.id
    BY <1>0, <2>1
  <2>3. \A q \in due[s] \ {r} : q.id # r.id
    BY <2>1 DEF DueInv
  <2>4. \A z \in Servers \ {s} : due'[z] = due[z] /\ advance'[z] = advance[z]
    BY <1>0, <2>1
  <2>5. \A z \in Servers : due'[z] \subseteq due[z]
    BY <2>2, <2>4
  <2>. QED
    BY <2>2, <2>3, <2>4, <2>5 DEF DueInv
<1>4. ASSUME NEW s \in Servers,
             DisableUnreadable(s) \/ AdvanceNextRun(s) \/ AdvanceFails(s) \/ CrashServer(s)
      PROVE  DueInv'
  <2>1. \A z \in Servers : due'[z] \subseteq due[z] /\ advance'[z] \in {advance[z], Nil}
    BY <1>0, <1>4 DEF DisableUnreadable, AdvanceNextRun, AdvanceFails, CrashServer
  <2>. QED
    BY <2>1 DEF DueInv
<1>5. ASSUME NEW c \in Configs, NEW enabled, NEW expr, CreateConfig(c, enabled, expr)
      PROVE  UNCHANGED <<due, advance>>
  BY <1>5 DEF CreateConfig
<1>6. ASSUME NEW u \in Editors, NEW c \in Configs, NEW enabled, NEW expr,
             ReadConfig(u, c, enabled, expr)
      PROVE  UNCHANGED <<due, advance>>
  BY <1>6 DEF ReadConfig
<1>7. ASSUME NEW u \in Editors, SaveConfig(u)
      PROVE  UNCHANGED <<due, advance>>
  BY <1>7 DEF SaveConfig
<1>8. ASSUME NEW c \in Configs, DeleteConfig(c)
      PROVE  UNCHANGED <<due, advance>>
  BY <1>8 DEF DeleteConfig
<1>9. ClockTick => UNCHANGED <<due, advance>>
  BY DEF ClockTick
<1>. QED
  BY <1>1, <1>2, <1>3, <1>4, <1>5, <1>6, <1>7, <1>8, <1>9 DEF CronNext, cronVars

\* Whatever happens does one of the five to every slot.
LEMMA EveryStepCounts ==
  ASSUME CronTypeOK, DueInv, [CronNext]_cronVars, NEW c \in Configs, NEW t \in Slots
  PROVE  Kept(c, t) \/ Offered(c, t) \/ Selected(c, t) \/ Ran(c, t) \/ Faulted(c, t)
<1>. USE NilAssumption
<1>0. /\ configs \in [Configs -> Row \cup {Nil}]
      /\ drafts \in [Editors -> Draft \cup {Nil}]
      /\ due \in [Servers -> SUBSET DueRow]
      /\ advance \in [Servers -> NextWrite \cup {Nil}]
      /\ runs \in [Configs -> [Slots -> Nat]] /\ runs[c][t] \in Nat
  BY DEF CronTypeOK
<1>1. ASSUME NEW d \in Configs, NEW enabled \in BOOLEAN, NEW expr \in Periods \cup {Nil},
             CreateConfig(d, enabled, expr)
      PROVE  Kept(c, t) \/ Offered(c, t)
  <2>. DEFINE slot == Reschedule(enabled, expr)
              row  == [enabled |-> enabled, expr |-> expr, next |-> slot]
  <2>1. slot \in {0} \cup Slots
    BY RescheduleIsSlot
  <2>2. /\ configs' = [configs EXCEPT ![d] = row] /\ Offer(d, slot)
        /\ UNCHANGED <<due, advance, runs, faults>> /\ row.next = slot
    BY <1>1 DEF CreateConfig
  <2>3. Advancing(c) \subseteq Advancing(c)'
    BY <2>2 DEF Advancing
  <2>. HIDE DEF slot, row
  <2>. QED
    BY <2>1, <2>2, <2>3, WriteStep
<1>2. ASSUME NEW u \in Editors, SaveConfig(u)
      PROVE  Kept(c, t) \/ Offered(c, t)
  <2>. DEFINE d    == drafts[u]
              slot == Reschedule(d.enabled, d.expr)
              row  == [enabled |-> d.enabled, expr |-> d.expr, next |-> slot]
  <2>1. d.id \in Configs /\ d.enabled \in BOOLEAN /\ d.expr \in Periods \cup {Nil}
    BY <1>0, <1>2 DEF SaveConfig, Draft
  <2>2. slot \in {0} \cup Slots
    BY <2>1, RescheduleIsSlot
  <2>3. /\ UNCHANGED <<due, advance, runs, faults>> /\ row.next = slot
        /\ \/ configs' = [configs EXCEPT ![d.id] = row] /\ Offer(d.id, slot)
           \/ UNCHANGED <<configs, offers>>
    BY <1>2 DEF SaveConfig
  <2>4. Advancing(c) \subseteq Advancing(c)'
    BY <2>3 DEF Advancing
  <2>. HIDE DEF slot, row
  <2>5. CASE configs' = [configs EXCEPT ![d.id] = row] /\ Offer(d.id, slot)
    BY <2>1, <2>2, <2>3, <2>4, <2>5, WriteStep
  <2>6. CASE UNCHANGED <<configs, offers>>
    BY <2>3, <2>6 DEF Kept, Open, Selecting, Advancing
  <2>. QED
    BY <2>3, <2>5, <2>6
<1>3. ASSUME NEW s \in Servers, AdvanceNextRun(s)
      PROVE  Kept(c, t) \/ Offered(c, t)
  <2>. DEFINE w   == advance[s]
              row == [configs[w.id] EXCEPT !.next = w.next]
  <2>1. w \in NextWrite /\ w.id \in Configs /\ w.next \in Slots
    BY <1>0, <1>3 DEF AdvanceNextRun, NextWrite
  <2>2. /\ UNCHANGED <<due, runs, faults>>
        /\ advance' = [advance EXCEPT ![s] = Nil]
    BY <1>3 DEF AdvanceNextRun
  <2>3. c # w.id => Advancing(c) \subseteq Advancing(c)'
    BY <1>0, <2>2 DEF Advancing
  <2>4. CASE configs[w.id] # Nil
    <3>1. configs' = [configs EXCEPT ![w.id] = row] /\ Offer(w.id, w.next)
      BY <1>3, <2>4 DEF AdvanceNextRun
    <3>2. configs[w.id] \in Row
      BY <1>0, <2>1, <2>4
    <3>3. row.next = w.next
      BY <3>2 DEF Row
    <3>. HIDE DEF row
    <3>. QED
      BY <2>1, <2>2, <2>3, <3>1, <3>3, WriteStep
  <2>5. CASE configs[w.id] = Nil
    <3>1. UNCHANGED <<configs, offers>>
      BY <1>3, <2>5 DEF AdvanceNextRun
    <3>2. Open(c, t)' => Open(c, t) /\ c # w.id
      BY <2>5, <3>1 DEF Open
    <3>. QED
      BY <2>2, <2>3, <3>1, <3>2 DEF Kept, Selecting
  <2>. QED
    BY <2>4, <2>5
<1>4. ASSUME NEW s \in Servers, SelectDue(s)
      PROVE  Kept(c, t) \/ Selected(c, t)
  <2>1. PICK b \in Batches :
          due' = [due EXCEPT
            ![s] = {[id |-> d, expr |-> configs[d].expr, slot |-> configs[d].next] : d \in b}]
    BY <1>4 DEF SelectDue
  <2>2. UNCHANGED <<configs, advance, offers, runs, faults>>
    BY <1>4 DEF SelectDue
  <2>3. CASE Open(c, t)
    BY <2>2, <2>3 DEF Selected, Open, Advancing
  <2>4. CASE ~Open(c, t)
    <3>1. \A d \in b : configs[d] # Nil
      BY <2>1 DEF Batches, IsDue
    <3>2. \A r \in due'[s] : ~(r.id = c /\ r.slot = t)
      BY <1>0, <2>1, <2>4, <3>1 DEF Open
    <3>3. Selecting(c, t)' \subseteq Selecting(c, t)
      BY <1>0, <2>1, <3>2 DEF Selecting
    <3>. QED
      BY <2>2, <2>4, <3>3 DEF Kept, Open
  <2>. QED
    BY <2>3, <2>4
<1>5. ASSUME NEW s \in Servers, DisableUnreadable(s)
      PROVE  Kept(c, t)
  <2>1. PICK r \in due[s] :
          /\ due' = [due EXCEPT ![s] = @ \ {r}]
          /\ configs' = IF configs[r.id] = Nil THEN configs
                        ELSE [configs EXCEPT ![r.id].enabled = FALSE]
    BY <1>5 DEF DisableUnreadable
  <2>2. UNCHANGED <<advance, offers, runs, faults>>
    BY <1>5 DEF DisableUnreadable
  <2>3. Selecting(c, t)' \subseteq Selecting(c, t)
    BY <1>0, <2>1 DEF Selecting
  <2>4. r.id \in Configs
    BY <1>0, <2>1 DEF DueRow
  <2>5. CASE configs[r.id] # Nil
    <3>. DEFINE row == [configs[r.id] EXCEPT !.enabled = FALSE]
    <3>1. configs' = [configs EXCEPT ![r.id] = row]
      BY <2>1, <2>5
    <3>2. configs[r.id] \in Row
      BY <1>0, <2>4, <2>5
    <3>3. row.next = configs[r.id].next
      BY <3>2 DEF Row
    <3>. HIDE DEF row
    <3>4. Open(c, t)' => Open(c, t)
      BY <1>0, <2>5, <3>1, <3>3 DEF Open
    <3>. QED
      BY <2>2, <2>3, <3>4 DEF Kept, Advancing
  <2>6. CASE configs[r.id] = Nil
    BY <2>1, <2>2, <2>3, <2>6 DEF Kept, Advancing, Open
  <2>. QED
    BY <2>5, <2>6
<1>6. ASSUME NEW s \in Servers, TriggerDue(s)
      PROVE  Kept(c, t) \/ Ran(c, t)
  <2>1. PICK r \in due[s], started \in BOOLEAN :
          /\ due' = [due EXCEPT ![s] = @ \ {r}]
          /\ runs' = IF started THEN [runs EXCEPT ![r.id][r.slot] = @ + 1] ELSE runs
          /\ advance' = [advance EXCEPT ![s] = [id |-> r.id, next |-> NextRun(r.expr)]]
    BY <1>6 DEF TriggerDue
  <2>2. UNCHANGED <<configs, offers, faults>> /\ advance[s] = Nil
    BY <1>6 DEF TriggerDue
  <2>3. r.id \in Configs /\ r.slot \in Slots /\ r.expr \in Periods
    BY <1>0, <2>1 DEF DueRow
  <2>4. [id |-> r.id, next |-> NextRun(r.expr)] # Nil
    BY <2>3, NextRunIsSlot DEF NextWrite
  <2>5. Advancing(c) \subseteq Advancing(c)' /\ Selecting(c, t)' \subseteq Selecting(c, t)
    BY <1>0, <2>1, <2>2 DEF Advancing, Selecting
  <2>6. CASE r.id = c /\ r.slot = t
    <3>1. s \in Selecting(c, t) /\ s \notin Advancing(c)
      BY <2>1, <2>2, <2>6 DEF Selecting, Advancing
    <3>2. s \in Advancing(c)'
      BY <1>0, <2>1, <2>4, <2>6 DEF Advancing
    <3>3. s \notin Selecting(c, t)'
      <4>1. \A q \in due'[s] : q.id # c
        BY <1>0, <2>1, <2>6 DEF DueInv
      <4>. QED
        BY <4>1 DEF Selecting
    <3>4. runs'[c][t] <= runs[c][t] + 1
      BY <1>0, <2>1, <2>3, <2>6
    <3>. QED
      BY <2>2, <2>5, <3>1, <3>2, <3>3, <3>4 DEF Ran, Open
  <2>7. CASE ~(r.id = c /\ r.slot = t)
    <3>1. runs'[c][t] = runs[c][t]
      BY <1>0, <2>1, <2>3, <2>7
    <3>. QED
      BY <2>2, <2>5, <3>1 DEF Kept, Open
  <2>. QED
    BY <2>6, <2>7
<1>7. ASSUME NEW s \in Servers, AdvanceFails(s) \/ CrashServer(s)
      PROVE  Faulted(c, t)
  <2>1. UNCHANGED <<configs, offers, runs>> /\ faults' = faults + 1
    BY <1>7 DEF AdvanceFails, CrashServer, Fault
  <2>2. /\ \A z \in Servers : due'[z] \subseteq due[z]
        /\ \A z \in Servers \ {s} : advance'[z] = advance[z]
    BY <1>0, <1>7 DEF AdvanceFails, CrashServer
  <2>3. Selecting(c, t)' \subseteq Selecting(c, t) /\ Advancing(c) \ {s} \subseteq Advancing(c)'
    BY <2>2 DEF Selecting, Advancing
  <2>. QED
    BY <2>1, <2>3 DEF Faulted, Open
<1>8. ASSUME UNCHANGED <<due, advance, offers, runs, faults>>,
             configs'[c] = configs[c] \/ configs'[c] = Nil
      PROVE  Kept(c, t)
  BY <1>8 DEF Kept, Open, Selecting, Advancing
<1>9. ASSUME NEW u \in Editors, NEW d \in Configs, NEW enabled, NEW expr,
             ReadConfig(u, d, enabled, expr)
      PROVE  Kept(c, t)
  BY <1>8, <1>9 DEF ReadConfig
<1>10. ASSUME NEW d \in Configs, DeleteConfig(d)
       PROVE  Kept(c, t)
  BY <1>0, <1>8, <1>10 DEF DeleteConfig
<1>11. CASE ClockTick
  BY <1>8, <1>11 DEF ClockTick
<1>12. CASE UNCHANGED cronVars
  BY <1>8, <1>12 DEF cronVars
<1>. QED
  BY <1>1, <1>2, <1>3, <1>4, <1>5, <1>6, <1>7, <1>9, <1>10, <1>11, <1>12 DEF CronNext

LEMMA CronInvInit == CronInit => CronInv
<1>. SUFFICES ASSUME CronInit PROVE CronInv
  OBVIOUS
<1>1. CronTypeOK
  BY CronTypeInit
<1>2. DueInv
  BY DEF DueInv, CronInit
<1>3. ASSUME NEW c \in Configs, NEW t \in Slots
      PROVE  SlotIsBounded(c, t)
  <2>1. Selecting(c, t) = {} /\ ~Open(c, t)
    BY DEF CronInit, Selecting, Open
  <2>2. Cardinality(Selecting(c, t)) = 0 /\ Cardinality(Servers) \in Nat
    BY <2>1, FS_EmptySet, ServersAreFinite
  <2>3. runs[c][t] = 0 /\ offers[c][t] = 0 /\ faults = 0
    BY DEF CronInit
  <2>. QED
    BY <2>1, <2>2, <2>3 DEF SlotIsBounded
<1>. QED
  BY <1>1, <1>2, <1>3 DEF CronInv, SlotInv, SlotIsBounded

LEMMA CronInvNext == CronInv /\ [CronNext]_cronVars => CronInv'
<1>. SUFFICES ASSUME CronInv, [CronNext]_cronVars PROVE CronInv'
  OBVIOUS
<1>1. CronTypeOK /\ DueInv
  BY DEF CronInv
<1>2. CronTypeOK' /\ DueInv'
  BY <1>1, CronTypeNext, DueInvNext
<1>3. ASSUME NEW c \in Configs, NEW t \in Slots
      PROVE  SlotIsBounded(c, t)'
  <2>1. SlotIsBounded(c, t)
    BY DEF CronInv, SlotInv, SlotIsBounded
  <2>. QED
    BY <1>1, <1>2, <2>1, EveryStepCounts, SlotStep
<1>. QED
  BY <1>2, <1>3 DEF CronInv, SlotInv, SlotIsBounded

\* However many servers tick at once, whatever is edited, fails or crashes: the crawls
\* started for a scheduled time are at most one per server and per time next_run_at was
\* set to it, and one more per crash or failed update (run_cron_tick).
THEOREM SlotsRunBounded == CronSpec => []SlotRunsAreBounded
<1>1. CronInv => SlotRunsAreBounded
  <2>. SUFFICES ASSUME CronInv, NEW c \in Configs, NEW t \in Slots
                PROVE  runs[c][t] <= offers[c][t] * Cardinality(Servers) + faults
    BY DEF SlotRunsAreBounded
  <2>1. runs[c][t] + Cardinality(Selecting(c, t)) <= offers[c][t] * Cardinality(Servers) + faults
    BY DEF CronInv, SlotInv
  <2>2. /\ runs[c][t] \in Nat /\ offers[c][t] \in Nat /\ faults \in Nat
        /\ Cardinality(Selecting(c, t)) \in Nat /\ Cardinality(Servers) \in Nat
    <3>1. runs[c][t] \in Nat /\ offers[c][t] \in Nat
      BY DEF CronInv, CronTypeOK
    <3>2. faults \in Nat
      BY CronAssumption DEF CronInv, CronTypeOK
    <3>. QED
      BY <3>1, <3>2, ServersAreFinite
  <2>3. offers[c][t] * Cardinality(Servers) \in Nat
    BY <2>2
  <2>. QED
    BY <2>1, <2>2, <2>3
<1>. QED
  BY <1>1, CronInvInit, CronInvNext, PTL DEF CronSpec

-----------------------------------------------------------------------------
(* EmailQueue                                                              *)

\* What a poll holds was scheduled.
ClaimsInv ==
  \A p \in Pollers :
    /\ \A e \in claimed[p] : queue[e] # NoRow
    /\ outcome[p] # NoRow => queue[outcome[p].id] # NoRow

EmailInv == EmailTypeOK /\ ClaimsInv

LEMMA EmailInvInit == EmailInit => EmailInv
BY EmailAssumption DEF EmailInit, EmailTypeOK, ClaimsInv, EmailInv

\* A claimed row is the row that was due with one attempt more.
LEMMA ClaimedRow ==
  ASSUME EmailTypeOK, NEW e \in Emails, EmailIsDue(e)
  PROVE  [queue[e] EXCEPT !.attempts = @ + 1] \in EmailRow
<1>1. /\ queue[e].content \in {"valid", "broken"} /\ queue[e].sent \in BOOLEAN
      /\ queue[e].waiting \in BOOLEAN
      /\ queue[e] = [content |-> queue[e].content, sent |-> queue[e].sent,
                     attempts |-> queue[e].attempts, waiting |-> queue[e].waiting]
  BY DEF EmailIsDue, EmailTypeOK, EmailRow
<1>2. queue[e].attempts + 1 \in 0..MaxAttempts
  BY EmailAssumption DEF EmailIsDue, EmailTypeOK, EmailRow
<1>3. [queue[e] EXCEPT !.attempts = @ + 1] =
        [content |-> queue[e].content, sent |-> queue[e].sent,
         attempts |-> queue[e].attempts + 1, waiting |-> queue[e].waiting]
  BY <1>1
<1>. QED
  BY <1>1, <1>2, <1>3 DEF EmailRow

LEMMA EmailTypeNext == EmailInv /\ [EmailNext]_emailVars => EmailTypeOK'
<1>. SUFFICES ASSUME EmailTypeOK, ClaimsInv, [EmailNext]_emailVars PROVE EmailTypeOK'
  BY DEF EmailInv
<1>. USE EmailAssumption, NoRowAssumption
<1>0. /\ queue \in [Emails -> EmailRow \cup {NoRow}]
      /\ claimed \in [Pollers -> SUBSET Emails]
      /\ outcome \in [Pollers -> [id : Emails, ok : BOOLEAN] \cup {NoRow}]
      /\ accepted \in [Emails -> Nat] /\ emailFaults \in 0..MaxEmailFaults
  BY DEF EmailTypeOK
<1>1. ASSUME NEW e \in Emails, ScheduleEmail(e)
      PROVE  EmailTypeOK'
  <2>1. PICK content \in {"valid", "broken"}, later \in BOOLEAN :
          queue' = [queue EXCEPT
            ![e] = [content |-> content, sent |-> FALSE, attempts |-> 0, waiting |-> later]]
    BY <1>1 DEF ScheduleEmail
  <2>2. [content |-> content, sent |-> FALSE, attempts |-> 0, waiting |-> later] \in EmailRow
    BY DEF EmailRow
  <2>3. queue' \in [Emails -> EmailRow \cup {NoRow}]
    BY <1>0, <2>1, <2>2
  <2>. QED
    BY <1>0, <1>1, <2>3 DEF ScheduleEmail, EmailTypeOK
<1>2. ASSUME NEW e \in Emails, BecomesDue(e)
      PROVE  EmailTypeOK'
  <2>. DEFINE row == [queue[e] EXCEPT !.waiting = FALSE]
  <2>1. queue' = [queue EXCEPT ![e] = row]
    BY <1>2 DEF BecomesDue
  <2>2. queue[e] \in EmailRow
    BY <1>0, <1>2 DEF BecomesDue
  <2>3. row \in EmailRow
    BY <2>2 DEF EmailRow
  <2>. HIDE DEF row
  <2>4. queue' \in [Emails -> EmailRow \cup {NoRow}]
    BY <1>0, <2>1, <2>3
  <2>. QED
    BY <1>0, <1>2, <2>4 DEF BecomesDue, EmailTypeOK
<1>3. ASSUME NEW p \in Pollers, ClaimDue(p)
      PROVE  EmailTypeOK'
  <2>1. PICK batch \in SUBSET {e \in Emails : EmailIsDue(e)} :
          /\ claimed' = [claimed EXCEPT ![p] = batch]
          /\ queue' = [e \in Emails |-> IF e \in batch
                         THEN [queue[e] EXCEPT !.attempts = @ + 1] ELSE queue[e]]
    BY <1>3 DEF ClaimDue
  <2>2. \A e \in batch : [queue[e] EXCEPT !.attempts = @ + 1] \in EmailRow
    BY ClaimedRow
  <2>3. queue' \in [Emails -> EmailRow \cup {NoRow}]
    BY <1>0, <2>1, <2>2
  <2>4. claimed' \in [Pollers -> SUBSET Emails]
    BY <1>0, <2>1
  <2>. QED
    BY <1>0, <1>3, <2>3, <2>4 DEF ClaimDue, EmailTypeOK
<1>4. ASSUME NEW p \in Pollers, Dispatch(p)
      PROVE  EmailTypeOK'
  <2>1. PICK e \in claimed[p], took \in BOOLEAN, answered \in BOOLEAN :
          /\ claimed' = [claimed EXCEPT ![p] = @ \ {e}]
          /\ accepted' = IF took THEN [accepted EXCEPT ![e] = @ + 1] ELSE accepted
          /\ outcome' = [outcome EXCEPT ![p] = [id |-> e, ok |-> took /\ answered]]
    BY <1>4 DEF Dispatch
  <2>2. e \in Emails
    BY <1>0
  <2>3. [id |-> e, ok |-> took /\ answered] \in [id : Emails, ok : BOOLEAN]
    BY <2>2
  <2>4. /\ claimed' \in [Pollers -> SUBSET Emails] /\ accepted' \in [Emails -> Nat]
    BY <1>0, <2>1, <2>2
  <2>5. outcome' \in [Pollers -> [id : Emails, ok : BOOLEAN] \cup {NoRow}]
    BY <1>0, <2>1, <2>3
  <2>. QED
    BY <1>0, <1>4, <2>4, <2>5 DEF Dispatch, EmailTypeOK
<1>5. ASSUME NEW p \in Pollers, RecordOutcome(p)
      PROVE  EmailTypeOK'
  <2>. DEFINE e     == outcome[p].id
              sent  == [queue[e] EXCEPT !.sent = TRUE]
              later == [queue[e] EXCEPT !.waiting = TRUE]
  <2>1. \/ queue' = [queue EXCEPT ![e] = sent]
        \/ queue' = [queue EXCEPT ![e] = later]
    BY <1>5 DEF RecordOutcome
  <2>2. e \in Emails /\ queue[e] # NoRow
    BY <1>0, <1>5 DEF RecordOutcome, ClaimsInv
  <2>3. queue[e] \in EmailRow
    BY <1>0, <2>2
  <2>4. sent \in EmailRow
    BY <2>3 DEF EmailRow
  <2>5. later \in EmailRow
    BY <2>3 DEF EmailRow
  <2>. HIDE DEF sent, later
  <2>6. queue' \in [Emails -> EmailRow \cup {NoRow}]
    BY <1>0, <2>1, <2>4, <2>5
  <2>7. outcome' \in [Pollers -> [id : Emails, ok : BOOLEAN] \cup {NoRow}]
    BY <1>0, <1>5 DEF RecordOutcome
  <2>. QED
    BY <1>0, <1>5, <2>6, <2>7 DEF RecordOutcome, EmailTypeOK
<1>6. ASSUME NEW p \in Pollers, RecordFails(p)
      PROVE  EmailTypeOK'
  BY <1>0, <1>6 DEF RecordFails, EmailTypeOK
<1>7. ASSUME NEW p \in Pollers, CrashPoller(p)
      PROVE  EmailTypeOK'
  BY <1>0, <1>7 DEF CrashPoller, EmailTypeOK
<1>8. CASE UNCHANGED emailVars
  BY <1>8 DEF emailVars, EmailTypeOK
<1>. QED
  BY <1>1, <1>2, <1>3, <1>4, <1>5, <1>6, <1>7, <1>8 DEF EmailNext

\* No row is ever removed.
LEMMA RowsStay ==
  ASSUME EmailInv, [EmailNext]_emailVars, NEW e \in Emails, queue[e] # NoRow
  PROVE  queue'[e] # NoRow
<1>. USE NoRowAssumption
<1>0. /\ queue \in [Emails -> EmailRow \cup {NoRow}] /\ queue[e] \in EmailRow
  BY DEF EmailInv, EmailTypeOK
<1>1. ASSUME NEW d \in Emails, ScheduleEmail(d)
      PROVE  queue'[e] # NoRow
  BY <1>0, <1>1 DEF ScheduleEmail
<1>2. ASSUME NEW d \in Emails, BecomesDue(d)
      PROVE  queue'[e] # NoRow
  <2>1. CASE d = e
    <3>1. queue'[e] = [queue[e] EXCEPT !.waiting = FALSE]
      BY <1>0, <1>2, <2>1 DEF BecomesDue
    <3>2. [queue[e] EXCEPT !.waiting = FALSE] \in EmailRow
      BY <1>0 DEF EmailRow
    <3>. QED
      BY <3>1, <3>2
  <2>2. CASE d # e
    BY <1>0, <1>2, <2>2 DEF BecomesDue
  <2>. QED
    BY <2>1, <2>2
<1>3. ASSUME NEW p \in Pollers, ClaimDue(p)
      PROVE  queue'[e] # NoRow
  <2>1. PICK batch \in SUBSET {d \in Emails : EmailIsDue(d)} :
          queue' = [d \in Emails |-> IF d \in batch
                      THEN [queue[d] EXCEPT !.attempts = @ + 1] ELSE queue[d]]
    BY <1>3 DEF ClaimDue
  <2>2. e \in batch => [queue[e] EXCEPT !.attempts = @ + 1] \in EmailRow
    BY ClaimedRow DEF EmailInv
  <2>. QED
    BY <1>0, <2>1, <2>2
<1>4. ASSUME NEW p \in Pollers, RecordOutcome(p)
      PROVE  queue'[e] # NoRow
  <2>1. CASE outcome[p].id = e
    <3>1. \/ queue'[e] = [queue[e] EXCEPT !.sent = TRUE]
          \/ queue'[e] = [queue[e] EXCEPT !.waiting = TRUE]
      BY <1>0, <1>4, <2>1 DEF RecordOutcome
    <3>2. [queue[e] EXCEPT !.sent = TRUE] \in EmailRow
      BY <1>0 DEF EmailRow
    <3>3. [queue[e] EXCEPT !.waiting = TRUE] \in EmailRow
      BY <1>0 DEF EmailRow
    <3>. QED
      BY <3>1, <3>2, <3>3
  <2>2. CASE outcome[p].id # e
    BY <1>0, <1>4, <2>2 DEF RecordOutcome
  <2>. QED
    BY <2>1, <2>2
<1>5. ASSUME NEW p \in Pollers, Dispatch(p) \/ RecordFails(p) \/ CrashPoller(p)
      PROVE  queue' = queue
  BY <1>5 DEF Dispatch, RecordFails, CrashPoller
<1>. QED
  BY <1>1, <1>2, <1>3, <1>4, <1>5 DEF EmailNext, emailVars

LEMMA EmailInvNext == EmailInv /\ [EmailNext]_emailVars => EmailInv'
<1>. SUFFICES ASSUME EmailInv, [EmailNext]_emailVars PROVE EmailInv'
  OBVIOUS
<1>0. /\ EmailTypeOK /\ EmailTypeOK' /\ ClaimsInv
  BY EmailTypeNext DEF EmailInv
<1>1. \A e \in Emails : queue[e] # NoRow => queue'[e] # NoRow
  BY RowsStay
<1>2. /\ claimed \in [Pollers -> SUBSET Emails]
      /\ outcome \in [Pollers -> [id : Emails, ok : BOOLEAN] \cup {NoRow}]
  BY <1>0 DEF EmailTypeOK
<1>3. \A p \in Pollers :
        /\ \A e \in claimed[p] : queue'[e] # NoRow
        /\ outcome[p] # NoRow => queue'[outcome[p].id] # NoRow
  BY <1>0, <1>1, <1>2 DEF ClaimsInv
<1>4. ASSUME NEW p \in Pollers, ClaimDue(p)
      PROVE  ClaimsInv'
  <2>1. PICK batch \in SUBSET {e \in Emails : EmailIsDue(e)} :
          claimed' = [claimed EXCEPT ![p] = batch]
    BY <1>4 DEF ClaimDue
  <2>2. \A e \in batch : queue'[e] # NoRow
    BY <1>1 DEF EmailIsDue
  <2>3. outcome' = outcome
    BY <1>4 DEF ClaimDue
  <2>. QED
    BY <1>2, <1>3, <2>1, <2>2, <2>3 DEF ClaimsInv
<1>5. ASSUME NEW p \in Pollers, Dispatch(p)
      PROVE  ClaimsInv'
  <2>1. PICK e \in claimed[p], ok \in BOOLEAN :
          /\ claimed' = [claimed EXCEPT ![p] = @ \ {e}]
          /\ outcome' = [outcome EXCEPT ![p] = [id |-> e, ok |-> ok]]
    BY <1>5 DEF Dispatch
  <2>. QED
    BY <1>2, <1>3, <2>1 DEF ClaimsInv
<1>6. ASSUME NEW p \in Pollers, RecordOutcome(p) \/ RecordFails(p) \/ CrashPoller(p)
      PROVE  ClaimsInv'
  <2>1. \A q \in Pollers : claimed'[q] \subseteq claimed[q] /\ outcome'[q] \in {outcome[q], NoRow}
    BY <1>2, <1>6 DEF RecordOutcome, RecordFails, CrashPoller
  <2>. QED
    BY <1>3, <2>1 DEF ClaimsInv
<1>7. ASSUME UNCHANGED <<claimed, outcome>>
      PROVE  ClaimsInv'
  BY <1>3, <1>7 DEF ClaimsInv
<1>8. ASSUME NEW e \in Emails, ScheduleEmail(e) \/ BecomesDue(e)
      PROVE  UNCHANGED <<claimed, outcome>>
  BY <1>8 DEF ScheduleEmail, BecomesDue
<1>9. ClaimsInv'
  BY <1>4, <1>5, <1>6, <1>7, <1>8 DEF EmailNext, emailVars
<1>. QED
  BY <1>0, <1>9 DEF EmailInv

\* Every variable of the queue of e-mails keeps its type.
THEOREM EmailTypeCorrect == EmailSpec => []EmailTypeOK
<1>1. EmailInv => EmailTypeOK
  BY DEF EmailInv
<1>. QED
  BY <1>1, EmailInvInit, EmailInvNext, PTL DEF EmailSpec

\* A row marked sent keeps the mark, and a claim takes no such row.
LEMMA SentStep ==
  ASSUME EmailInv, [EmailNext]_emailVars, NEW e \in Emails, queue[e] # NoRow, queue[e].sent
  PROVE  queue'[e].sent /\ \A p \in Pollers : e \in claimed'[p] => e \in claimed[p]
<1>. USE NoRowAssumption
<1>0. /\ queue \in [Emails -> EmailRow \cup {NoRow}] /\ queue[e] \in EmailRow
      /\ claimed \in [Pollers -> SUBSET Emails]
  BY DEF EmailInv, EmailTypeOK
<1>1. ASSUME NEW d \in Emails, ScheduleEmail(d)
      PROVE  queue'[e] = queue[e] /\ claimed' = claimed
  BY <1>0, <1>1 DEF ScheduleEmail
<1>2. ASSUME NEW d \in Emails, BecomesDue(d)
      PROVE  queue'[e].sent /\ claimed' = claimed
  <2>1. CASE d = e
    <3>1. queue'[e] = [queue[e] EXCEPT !.waiting = FALSE]
      BY <1>0, <1>2, <2>1 DEF BecomesDue
    <3>2. queue'[e].sent = queue[e].sent
      BY <1>0, <3>1 DEF EmailRow
    <3>. QED
      BY <1>2, <3>2 DEF BecomesDue
  <2>2. CASE d # e
    <3>1. queue'[e] = queue[e]
      BY <1>0, <1>2, <2>2 DEF BecomesDue
    <3>. QED
      BY <1>2, <3>1 DEF BecomesDue
  <2>. QED
    BY <2>1, <2>2
<1>3. ASSUME NEW q \in Pollers, ClaimDue(q)
      PROVE  queue'[e] = queue[e] /\ \A p \in Pollers : e \in claimed'[p] => e \in claimed[p]
  <2>1. PICK batch \in SUBSET {d \in Emails : EmailIsDue(d)} :
          /\ claimed' = [claimed EXCEPT ![q] = batch]
          /\ queue' = [d \in Emails |-> IF d \in batch
                         THEN [queue[d] EXCEPT !.attempts = @ + 1] ELSE queue[d]]
    BY <1>3 DEF ClaimDue
  <2>2. e \notin batch
    BY DEF EmailIsDue
  <2>. QED
    BY <1>0, <2>1, <2>2
<1>4. ASSUME NEW q \in Pollers, RecordOutcome(q)
      PROVE  queue'[e].sent /\ claimed' = claimed
  <2>1. CASE outcome[q].id = e
    <3>1. \/ queue'[e] = [queue[e] EXCEPT !.sent = TRUE]
          \/ queue'[e] = [queue[e] EXCEPT !.waiting = TRUE]
      BY <1>0, <1>4, <2>1 DEF RecordOutcome
    <3>2. [queue[e] EXCEPT !.sent = TRUE].sent
      BY <1>0 DEF EmailRow
    <3>3. [queue[e] EXCEPT !.waiting = TRUE].sent = queue[e].sent
      BY <1>0 DEF EmailRow
    <3>4. queue'[e].sent
      BY <3>1, <3>2, <3>3
    <3>. QED
      BY <1>4, <3>4 DEF RecordOutcome
  <2>2. CASE outcome[q].id # e
    <3>1. queue'[e] = queue[e]
      BY <1>0, <1>4, <2>2 DEF RecordOutcome
    <3>. QED
      BY <1>4, <3>1 DEF RecordOutcome
  <2>. QED
    BY <2>1, <2>2
<1>5. ASSUME NEW q \in Pollers, Dispatch(q) \/ RecordFails(q) \/ CrashPoller(q)
      PROVE  queue' = queue /\ \A p \in Pollers : claimed'[p] \subseteq claimed[p]
  BY <1>0, <1>5 DEF Dispatch, RecordFails, CrashPoller
<1>. QED
  BY <1>1, <1>2, <1>3, <1>4, <1>5 DEF EmailNext, emailVars

\* Once an e-mail is marked sent no poll takes it up again, however polls of several
\* servers, crashes and failed updates interleave (the claim of email_scheduler.rs).
THEOREM SentStaysSent == EmailSpec => SentIsNotClaimed
<1>. DEFINE Step == \A e \in Emails :
              queue[e] # NoRow /\ queue[e].sent =>
                queue'[e].sent /\ \A p \in Pollers : e \in claimed'[p] => e \in claimed[p]
<1>1. EmailInv /\ [EmailNext]_emailVars => [Step]_emailVars
  BY SentStep
<1>2. EmailSpec => [][Step]_emailVars
  <2>. HIDE DEF Step
  <2>. QED
    BY <1>1, EmailInvInit, EmailInvNext, PTL DEF EmailSpec
<1>. QED
  BY <1>2 DEF SentIsNotClaimed

-----------------------------------------------------------------------------
(* Services                                                                *)

\* A service that was not built has nothing yet, and is asked nothing.
StartInv ==
  \A s \in Services :
    /\ life[s] \in {"absent", "starting"} => got[s] = {} /\ tasks[s] = {} /\ told[s] = "no"
    /\ process = "launching" => life[s] = "absent"

\* The API's flusher is there until it is told to stop, if there is something to flush;
\* what memory has after it left is what came after it, and what was still to be added.
FlusherInv ==
  /\ "flusher" \in tasks["api"] => Flushes
  /\ "usage" \in tasks["api"] => Flushes
  /\ ~Flushes => held["api"] = 0 /\ adding = 0
  /\ "flusher" \in tasks["api"] \/ ~Flushes => late["events"] = 0 /\ late["requests"] = 0
  /\ told["api"] = "no" => "flusher" \in tasks["api"] \/ ~Flushes
  /\ "flusher" \notin tasks["api"] => held["api"] + adding <= Late

\* The event consumer ends between two messages, a periodic task between two ticks; once
\* told to stop the consumer takes no other message, and axum no other connection.
StopInv ==
  /\ ticking \subseteq tasks["api"] \cap Periodic
  /\ busy["api"] => "events" \in tasks["api"]
  /\ told["api"] = "gone" => life["api"] \in {"failed", "aborted"}
  /\ told["api"] = "set" => /\ late["events"] <= 1 /\ (busy["api"] => late["events"] = 0)
                            /\ late["requests"] + clients <= MaxClients

\* Only the API and the crawler end by themselves.
EndInv ==
  /\ ~busy["crawler"]
  /\ \A s \in Services : life[s] = "ended" => s \in {"api", "crawler"} /\ tasks[s] = {}
  /\ life["crawler"] = "ended" => held["crawler"] = 0

ServicesInv == ServicesTypeOK /\ StartInv /\ FlusherInv /\ StopInv /\ EndInv

LEMMA TasksAreNamed ==
  ASSUME NEW s \in Services, NEW have
  PROVE  TasksOf(s, have) \subseteq ServiceTasks
<1>1. OwnTasks(s) \subseteq ServiceTasks
  BY DEF OwnTasks, ServiceTasks
<1>2. ApiTasks(have) \subseteq ServiceTasks
  BY DEF ApiTasks, ServiceTasks
<1>3. FrontierTasks(have) \subseteq ServiceTasks
  BY DEF FrontierTasks, ServiceTasks
<1>4. ContentTasks \subseteq ServiceTasks
  BY DEF ContentTasks, ServiceTasks
<1>. QED
  BY <1>1, <1>2, <1>3, <1>4 DEF TasksOf, Services

\* Only the API's flusher writes rows, and the API has it if it has somewhere to write;
\* it receives AI usage only then.
LEMMA ApiHasItsFlusher ==
  ASSUME NEW have
  PROVE  /\ "flusher" \in TasksOf("api", have) <=> have \cap {"postgres", "clickhouse"} # {}
         /\ "usage" \in TasksOf("api", have) => have \cap {"postgres", "clickhouse"} # {}
<1>1. "flusher" \notin OwnTasks("api") /\ "usage" \notin OwnTasks("api")
  BY DEF OwnTasks
<1>2. /\ "flusher" \in ApiTasks(have) <=> have \cap {"postgres", "clickhouse"} # {}
      /\ "usage" \in ApiTasks(have) => have \cap {"postgres", "clickhouse"} # {}
  BY DEF ApiTasks
<1>3. TasksOf("api", have) = OwnTasks("api") \cup ApiTasks(have)
  BY DEF TasksOf
<1>. QED
  BY <1>1, <1>2, <1>3

LEMMA SettingsAreWanted ==
  ASSUME NEW s \in Services
  PROVE  Settings(s) \subseteq UNION {Wanted[z] : z \in Services}
BY DEF Settings

LEMMA ServicesInvInit == ServicesInit => ServicesInv
<1>. SUFFICES ASSUME ServicesInit PROVE ServicesInv
  OBVIOUS
<1>1. ServicesTypeOK
  BY ServicesAssumption DEF ServicesInit, ServicesTypeOK, Nothing
<1>2. StartInv
  BY DEF ServicesInit, StartInv
<1>3. FlusherInv
  BY DEF ServicesInit, FlusherInv, Flushes, Services, Nothing, Sources, Late
<1>4. StopInv
  BY DEF ServicesInit, StopInv, Services
<1>5. EndInv
  BY DEF ServicesInit, EndInv, Services
<1>. QED
  BY <1>1, <1>2, <1>3, <1>4, <1>5 DEF ServicesInv

\* A process that is gone has nothing in memory.
LEMMA GoneIsClean ==
  ASSUME ServicesTypeOK, Gone, deployment' = deployment, signals' \subseteq SignalKinds
  PROVE  ServicesInv'
<1>1. ServicesTypeOK'
  BY ServicesAssumption DEF Gone, ServicesTypeOK, Nothing
<1>2. StartInv'
  BY DEF Gone, StartInv
<1>3. FlusherInv'
  BY DEF Gone, FlusherInv, Flushes, Services, Nothing, Sources, Late
<1>4. StopInv'
  BY DEF Gone, StopInv, Services
<1>5. EndInv'
  BY DEF Gone, EndInv, Services
<1>. QED
  BY <1>1, <1>2, <1>3, <1>4, <1>5 DEF ServicesInv

\* One row or counter more for the flusher, in a batch or still to be added.
LEMMA RowCounts ==
  ASSUME ServicesTypeOK, FlusherInv, Flushes, NEW from \in Sources, Tally(from),
         UNCHANGED <<got, tasks, told>>,
         \/ held' = [held EXCEPT !["api"] = @ + 1] /\ adding' = adding
         \/ held' = held /\ adding' = adding + 1
  PROVE  /\ held' \in [Services -> Nat] /\ adding' \in Nat /\ late' \in [Sources -> Nat]
         /\ \A s \in Services \ {"api"} : held'[s] = held[s]
         /\ late'[from] \in {late[from], late[from] + 1}
         /\ \A w \in Sources \ {from} : late'[w] = late[w]
         /\ FlusherInv'
<1>0. /\ held \in [Services -> Nat] /\ adding \in Nat /\ late \in [Sources -> Nat]
      /\ "api" \in Services
  BY DEF ServicesTypeOK, Services
<1>1. /\ held' \in [Services -> Nat] /\ adding' \in Nat
      /\ \A s \in Services \ {"api"} : held'[s] = held[s]
      /\ held'["api"] + adding' = held["api"] + adding + 1
  BY <1>0
<1>2. /\ late' \in [Sources -> Nat]
      /\ late'[from] \in {late[from], late[from] + 1}
      /\ \A w \in Sources \ {from} : late'[w] = late[w]
  BY <1>0 DEF Tally
<1>3. Flushes'
  BY DEF Flushes
<1>4. CASE "flusher" \in tasks["api"]
  <2>1. late' = late
    BY <1>4 DEF Tally
  <2>. QED
    BY <1>1, <1>2, <1>3, <1>4, <2>1 DEF FlusherInv
<1>5. CASE "flusher" \notin tasks["api"]
  <2>1. late' = [late EXCEPT ![from] = @ + 1]
    BY <1>5 DEF Tally
  <2>2. Late' = Late + 1
    <3>1. from \in {"events", "requests", "others"}
      BY DEF Sources
    <3>2. late["events"] \in Nat /\ late["requests"] \in Nat /\ late["others"] \in Nat
      BY <1>0 DEF Sources
    <3>. QED
      BY <1>0, <2>1, <3>1, <3>2 DEF Late, Sources
  <2>3. Late \in Nat
    BY <1>0 DEF Late, Sources
  <2>4. held["api"] \in Nat /\ held["api"] + adding <= Late
    BY <1>0, <1>5 DEF FlusherInv
  <2>5. held'["api"] + adding' <= Late'
    BY <1>0, <1>1, <2>2, <2>3, <2>4
  <2>6. tasks' = tasks /\ told' = told
    OBVIOUS
  <2>7. "flusher" \notin tasks'["api"] /\ told'["api"] # "no"
    BY <1>5, <2>6 DEF FlusherInv
  <2>8. FlusherInv'
    BY <1>3, <2>5, <2>7, Zenon DEF FlusherInv
  <2>. QED
    BY <1>1, <1>2, <2>8
<1>. QED
  BY <1>1, <1>2, <1>4, <1>5

LEMMA ServicesInvNext == ServicesInv /\ [ServicesNext]_serviceVars => ServicesInv'
<1>. SUFFICES ASSUME ServicesInv, [ServicesNext]_serviceVars PROVE ServicesInv'
  OBVIOUS
<1>a. ServicesTypeOK /\ StartInv /\ FlusherInv /\ StopInv /\ EndInv
  BY DEF ServicesInv
<1>b. /\ deployment \in {"all"} \cup Services
      /\ process \in {"launching", "up", "grace", "exited"}
      /\ signals \subseteq SignalKinds /\ caught \subseteq SignalKinds
      /\ life \in [Services -> {"absent", "starting", "binding", "serving", "closing", "ended",
                                "failed", "aborted"}]
      /\ got \in [Services -> SUBSET UNION {Wanted[s] : s \in Services}]
      /\ tasks \in [Services -> SUBSET ServiceTasks]
      /\ told \in [Services -> {"no", "set", "gone"}]
      /\ busy \in [Services -> BOOLEAN] /\ held \in [Services -> Nat]
      /\ adding \in Nat /\ ticking \subseteq Periodic
      /\ clients \in 0..MaxClients /\ late \in [Sources -> Nat]
  BY <1>a DEF ServicesTypeOK
<1>c. {"api", "frontier", "crawler", "content"} = Services
  BY DEF Services
<1>d. Late \in Nat /\ late["events"] \in Nat /\ late["requests"] \in Nat /\ "others" \in Sources
  BY <1>b DEF Late, Sources
<1>. USE ServicesAssumption
<1>1. CASE Launch
  <2>1. ServicesTypeOK'
    <3>1. caught' \subseteq SignalKinds
      BY <1>1 DEF Launch, SignalKinds
    <3>2. life' \in [Services -> {"absent", "starting", "binding", "serving", "closing", "ended",
                                 "failed", "aborted"}]
      BY <1>1 DEF Launch
    <3>. QED
      BY <1>b, <1>1, <3>1, <3>2 DEF Launch, workVars, rowVars, ServicesTypeOK
  <2>2. StartInv'
    BY <1>a, <1>b, <1>c, <1>1 DEF Launch, lifeVars, workVars, rowVars, StartInv
  <2>3. FlusherInv'
    BY <1>a, <1>b, <1>c, <1>1 DEF Launch, lifeVars, workVars, rowVars, FlusherInv, Flushes, Late
  <2>4. StopInv'
    <3>1. told["api"] = "no"
      BY <1>a, <1>b, <1>c, <1>1 DEF Launch, StartInv
    <3>. QED
      BY <1>a, <1>1, <3>1 DEF Launch, workVars, rowVars, StopInv
  <2>5. EndInv'
    BY <1>a, <1>b, <1>c, <1>1 DEF Launch, lifeVars, workVars, rowVars, EndInv
  <2>. QED
    BY <2>1, <2>2, <2>3, <2>4, <2>5 DEF ServicesInv
<1>2. CASE LaunchFails
  BY <1>a, <1>b, <1>2, GoneIsClean DEF LaunchFails
<1>3. ASSUME NEW s \in Services, StartService(s)
      PROVE  ServicesInv'
  <2>a. PICK have \in SUBSET Settings(s) :
          /\ got' = [got EXCEPT ![s] = have]
          /\ tasks' = [tasks EXCEPT ![s] = TasksOf(s, have)]
    BY <1>3 DEF StartService
  <2>b. /\ life' = [life EXCEPT ![s] = IF s = "api" THEN "binding" ELSE "serving"]
        /\ caught' = IF deployment = s /\ s # "api" THEN SignalKinds ELSE caught
        /\ UNCHANGED <<deployment, process, signals, told, busy, held, adding, late, ticking, clients>>
        /\ life[s] = "starting" /\ process = "up"
    BY <1>3 DEF StartService, workVars, rowVars
  <2>c. got[s] = {} /\ tasks[s] = {} /\ told[s] = "no"
    BY <1>a, <2>b DEF StartInv
  <2>1. ServicesTypeOK'
    <3>1. got' \in [Services -> SUBSET UNION {Wanted[z] : z \in Services}]
      BY <1>b, <2>a, SettingsAreWanted
    <3>2. tasks' \in [Services -> SUBSET ServiceTasks]
      BY <1>b, <2>a, TasksAreNamed
    <3>3. caught' \subseteq SignalKinds
      BY <1>b, <2>b
    <3>4. life' \in [Services -> {"absent", "starting", "binding", "serving", "closing", "ended",
                                 "failed", "aborted"}]
      BY <1>b, <2>b
    <3>. QED
      BY <1>b, <2>b, <3>1, <3>2, <3>3, <3>4 DEF ServicesTypeOK
  <2>2. StartInv'
    BY <1>a, <1>b, <1>c, <1>3 DEF StartService, lifeVars, workVars, rowVars, StartInv
  <2>3. FlusherInv'
    <3>1. CASE s = "api"
      <4>1. "flusher" \in tasks'["api"] <=> Flushes'
        BY <1>b, <1>c, <2>a, <3>1, ApiHasItsFlusher DEF Flushes
      <4>2. ~Flushes
        BY <2>c, <3>1 DEF Flushes
      <4>3. held["api"] = 0 /\ adding = 0 /\ late["events"] = 0 /\ late["requests"] = 0
        BY <1>a, <4>2 DEF FlusherInv
      <4>4. "usage" \in tasks'["api"] => Flushes'
        BY <1>b, <1>c, <2>a, <3>1, ApiHasItsFlusher DEF Flushes
      <4>5. Late' = Late
        BY <2>b DEF Late
      <4>. QED
        BY <1>d, <2>b, <4>1, <4>3, <4>4, <4>5 DEF FlusherInv
    <3>2. CASE s # "api"
      <4>1. got'["api"] = got["api"] /\ tasks'["api"] = tasks["api"]
        BY <1>b, <1>c, <2>a, <3>2
      <4>. QED
        BY <1>a, <2>b, <4>1 DEF FlusherInv, Flushes, Late
    <3>. QED
      BY <3>1, <3>2
  <2>4. StopInv'
    <3>1. CASE s = "api"
      <4>1. ~busy["api"] /\ ticking = {}
        BY <1>a, <2>c, <3>1 DEF StopInv
      <4>. QED
        BY <2>b, <2>c, <3>1, <4>1 DEF StopInv
    <3>2. CASE s # "api"
      <4>1. life'["api"] = life["api"] /\ tasks'["api"] = tasks["api"]
        BY <1>b, <1>c, <2>a, <2>b, <3>2
      <4>. QED
        BY <1>a, <2>b, <4>1 DEF StopInv
    <3>. QED
      BY <3>1, <3>2
  <2>5. EndInv'
    BY <1>a, <1>b, <1>c, <1>3 DEF StartService, lifeVars, workVars, rowVars, EndInv
  <2>. QED
    BY <2>1, <2>2, <2>3, <2>4, <2>5 DEF ServicesInv
<1>4. ASSUME NEW s \in Services, StartFails(s)
      PROVE  ServicesInv'
  <2>1. ServicesTypeOK'
    BY <1>b, <1>c, <1>4 DEF StartFails, lifeVars, workVars, rowVars, ServicesTypeOK
  <2>2. StartInv'
    BY <1>a, <1>b, <1>c, <1>4 DEF StartFails, lifeVars, workVars, rowVars, StartInv
  <2>3. FlusherInv'
    BY <1>a, <1>b, <1>c, <1>4 DEF StartFails, lifeVars, workVars, rowVars, FlusherInv, Flushes, Late
  <2>4. StopInv'
    BY <1>a, <1>b, <1>c, <1>4 DEF StartFails, lifeVars, workVars, rowVars, StopInv
  <2>5. EndInv'
    BY <1>a, <1>b, <1>c, <1>4 DEF StartFails, lifeVars, workVars, rowVars, EndInv
  <2>. QED
    BY <2>1, <2>2, <2>3, <2>4, <2>5 DEF ServicesInv
<1>5. CASE BindPort
  <2>1. ServicesTypeOK'
    BY <1>b, <1>c, <1>5 DEF BindPort, lifeVars, workVars, rowVars, ServicesTypeOK
  <2>2. StartInv'
    BY <1>a, <1>b, <1>c, <1>5 DEF BindPort, lifeVars, workVars, rowVars, StartInv
  <2>3. FlusherInv'
    BY <1>a, <1>b, <1>c, <1>5 DEF BindPort, lifeVars, workVars, rowVars, FlusherInv, Flushes, Late
  <2>4. StopInv'
    BY <1>a, <1>b, <1>c, <1>5 DEF BindPort, lifeVars, workVars, rowVars, StopInv
  <2>5. EndInv'
    BY <1>a, <1>b, <1>c, <1>5 DEF BindPort, lifeVars, workVars, rowVars, EndInv
  <2>. QED
    BY <2>1, <2>2, <2>3, <2>4, <2>5 DEF ServicesInv
<1>6. CASE BindFails
  <2>1. ServicesTypeOK'
    BY <1>b, <1>c, <1>6 DEF BindFails, lifeVars, workVars, rowVars, ServicesTypeOK
  <2>2. StartInv'
    BY <1>a, <1>b, <1>c, <1>6 DEF BindFails, lifeVars, workVars, rowVars, StartInv
  <2>3. FlusherInv'
    BY <1>a, <1>b, <1>c, <1>6 DEF BindFails, lifeVars, workVars, rowVars, FlusherInv, Flushes, Late
  <2>4. StopInv'
    BY <1>a, <1>b, <1>c, <1>6 DEF BindFails, lifeVars, workVars, rowVars, StopInv
  <2>5. EndInv'
    BY <1>a, <1>b, <1>c, <1>6 DEF BindFails, lifeVars, workVars, rowVars, EndInv
  <2>. QED
    BY <2>1, <2>2, <2>3, <2>4, <2>5 DEF ServicesInv
<1>7. ASSUME NEW s \in Services, ReadMessage(s)
      PROVE  ServicesInv'
  <2>1. ServicesTypeOK'
    BY <1>b, <1>c, <1>7 DEF ReadMessage, lifeVars, workVars, rowVars, ServicesTypeOK
  <2>2. StartInv'
    BY <1>a, <1>b, <1>c, <1>7 DEF ReadMessage, lifeVars, workVars, rowVars, StartInv
  <2>3. FlusherInv'
    BY <1>a, <1>b, <1>c, <1>7 DEF ReadMessage, lifeVars, workVars, rowVars, FlusherInv, Flushes, Late
  <2>4. StopInv'
    BY <1>a, <1>b, <1>c, <1>7 DEF ReadMessage, lifeVars, workVars, rowVars, StopInv
  <2>5. EndInv'
    BY <1>a, <1>b, <1>c, <1>7 DEF ReadMessage, lifeVars, workVars, rowVars, EndInv
  <2>. QED
    BY <2>1, <2>2, <2>3, <2>4, <2>5 DEF ServicesInv
<1>8. CASE SpawnFetch
  <2>1. ServicesTypeOK'
    BY <1>b, <1>c, <1>8 DEF SpawnFetch, lifeVars, workVars, rowVars, ServicesTypeOK
  <2>2. StartInv'
    BY <1>a, <1>b, <1>c, <1>8 DEF SpawnFetch, lifeVars, workVars, rowVars, StartInv
  <2>3. FlusherInv'
    BY <1>a, <1>b, <1>c, <1>8 DEF SpawnFetch, lifeVars, workVars, rowVars, FlusherInv, Flushes, Late
  <2>4. StopInv'
    BY <1>a, <1>b, <1>c, <1>8 DEF SpawnFetch, lifeVars, workVars, rowVars, StopInv
  <2>5. EndInv'
    BY <1>a, <1>b, <1>c, <1>8 DEF SpawnFetch, lifeVars, workVars, rowVars, EndInv
  <2>. QED
    BY <2>1, <2>2, <2>3, <2>4, <2>5 DEF ServicesInv
<1>9. ASSUME NEW s \in Services, MessageDone(s)
      PROVE  ServicesInv'
  <2>a. /\ busy[s] /\ busy' = [busy EXCEPT ![s] = FALSE] /\ s # "crawler"
        /\ UNCHANGED <<deployment, process, signals, caught, life, got, tasks, told, ticking,
                       clients>>
    BY <1>a, <1>9 DEF MessageDone, lifeVars, EndInv
  <2>b. ~busy'[s] /\ \A z \in Services \ {s} : busy'[z] = busy[z]
    BY <1>b, <2>a
  <2>c. CASE s = "api"
    <3>1. MarkDirty("events") \/ SpawnRow("events") \/ UNCHANGED rowVars
      BY <1>9, <2>c DEF MessageDone
    <3>2. /\ held' \in [Services -> Nat] /\ adding' \in Nat /\ late' \in [Sources -> Nat]
          /\ held'["crawler"] = held["crawler"]
          /\ late'["events"] \in {late["events"], late["events"] + 1}
          /\ late'["requests"] = late["requests"]
          /\ FlusherInv'
      <4>0. "events" \in Sources /\ "requests" \in Sources \ {"events"}
            /\ "crawler" \in Services \ {"api"}
        BY <1>c DEF Sources
      <4>1. CASE MarkDirty("events")
        <5>1. Flushes
          BY <4>1 DEF MarkDirty, Flushes
        <5>2. Tally("events") /\ held' = [held EXCEPT !["api"] = @ + 1] /\ adding' = adding
          BY <4>1 DEF MarkDirty
        <5>. QED
          BY <1>a, <2>a, <4>0, <5>1, <5>2, RowCounts
      <4>2. CASE SpawnRow("events")
        <5>1. Flushes
          BY <4>2 DEF SpawnRow, Flushes
        <5>2. Tally("events") /\ held' = held /\ adding' = adding + 1
          BY <4>2 DEF SpawnRow
        <5>. QED
          BY <1>a, <2>a, <4>0, <5>1, <5>2, RowCounts
      <4>3. CASE UNCHANGED rowVars
        BY <1>a, <1>b, <2>a, <4>3 DEF rowVars, FlusherInv, Flushes, Late
      <4>. QED
        BY <3>1, <4>1, <4>2, <4>3
    <3>3. ServicesTypeOK'
      BY <1>b, <2>a, <3>2 DEF ServicesTypeOK
    <3>4. StartInv'
      BY <1>a, <2>a DEF StartInv
    <3>5. StopInv'
      BY <1>a, <1>b, <2>a, <2>b, <2>c, <3>2 DEF StopInv
    <3>6. EndInv'
      BY <1>a, <1>c, <2>a, <2>b, <3>2 DEF EndInv
    <3>. QED
      BY <3>2, <3>3, <3>4, <3>5, <3>6 DEF ServicesInv
  <2>d. CASE s # "api"
    <3>1. /\ held'["api"] = held["api"] /\ held'["crawler"] = held["crawler"]
          /\ adding' = adding /\ late' = late /\ held' \in [Services -> Nat]
      <4>1. s \in {"frontier", "content"}
        BY <1>c, <2>a, <2>d
      <4>2. CASE s = "frontier"
        BY <1>b, <1>c, <1>9, <4>2 DEF MessageDone
      <4>3. CASE s = "content"
        BY <1>b, <1>c, <1>9, <4>3 DEF MessageDone
      <4>. QED
        BY <4>1, <4>2, <4>3
    <3>2. busy'["api"] = busy["api"] /\ busy'["crawler"] = busy["crawler"]
      BY <1>c, <2>a, <2>b, <2>d
    <3>3. ServicesTypeOK'
      BY <1>b, <2>a, <3>1 DEF ServicesTypeOK
    <3>4. StartInv'
      BY <1>a, <2>a DEF StartInv
    <3>5. FlusherInv'
      BY <1>a, <2>a, <3>1 DEF FlusherInv, Flushes, Late
    <3>6. StopInv'
      BY <1>a, <2>a, <3>1, <3>2 DEF StopInv
    <3>7. EndInv'
      BY <1>a, <2>a, <3>1, <3>2 DEF EndInv
    <3>. QED
      BY <3>3, <3>4, <3>5, <3>6, <3>7 DEF ServicesInv
  <2>. QED
    BY <2>c, <2>d
<1>10. CASE DispatchHeld
  <2>1. ServicesTypeOK'
    <3>1. held["frontier"] - 1 \in Nat
      BY <1>b, <1>c, <1>10 DEF DispatchHeld
    <3>2. held' \in [Services -> Nat]
      BY <1>b, <1>10, <3>1 DEF DispatchHeld
    <3>. QED
      BY <1>b, <1>10, <3>2 DEF DispatchHeld, lifeVars, ServicesTypeOK
  <2>2. StartInv'
    BY <1>a, <1>b, <1>c, <1>10 DEF DispatchHeld, lifeVars, workVars, rowVars, StartInv
  <2>3. FlusherInv'
    BY <1>a, <1>b, <1>c, <1>10 DEF DispatchHeld, lifeVars, workVars, rowVars, FlusherInv, Flushes, Late
  <2>4. StopInv'
    BY <1>a, <1>b, <1>c, <1>10 DEF DispatchHeld, lifeVars, workVars, rowVars, StopInv
  <2>5. EndInv'
    BY <1>a, <1>b, <1>c, <1>10 DEF DispatchHeld, lifeVars, workVars, rowVars, EndInv
  <2>. QED
    BY <2>1, <2>2, <2>3, <2>4, <2>5 DEF ServicesInv
<1>11. CASE FetchDone
  <2>1. ServicesTypeOK'
    BY <1>b, <1>c, <1>11 DEF FetchDone, lifeVars, workVars, rowVars, ServicesTypeOK
  <2>2. StartInv'
    BY <1>a, <1>b, <1>c, <1>11 DEF FetchDone, lifeVars, workVars, rowVars, StartInv
  <2>3. FlusherInv'
    BY <1>a, <1>b, <1>c, <1>11 DEF FetchDone, lifeVars, workVars, rowVars, FlusherInv, Flushes, Late
  <2>4. StopInv'
    BY <1>a, <1>b, <1>c, <1>11 DEF FetchDone, lifeVars, workVars, rowVars, StopInv
  <2>5. EndInv'
    BY <1>a, <1>b, <1>c, <1>11 DEF FetchDone, lifeVars, workVars, rowVars, EndInv
  <2>. QED
    BY <2>1, <2>2, <2>3, <2>4, <2>5 DEF ServicesInv
<1>12. ASSUME NEW s \in Services, Flush(s)
      PROVE  ServicesInv'
  <2>1. ServicesTypeOK'
    BY <1>b, <1>c, <1>12 DEF Flush, lifeVars, workVars, rowVars, ServicesTypeOK
  <2>2. StartInv'
    BY <1>a, <1>b, <1>c, <1>12 DEF Flush, lifeVars, workVars, rowVars, StartInv
  <2>3. FlusherInv'
    BY <1>a, <1>b, <1>c, <1>12 DEF Flush, lifeVars, workVars, rowVars, FlusherInv, Flushes, Late
  <2>4. StopInv'
    BY <1>a, <1>b, <1>c, <1>12 DEF Flush, lifeVars, workVars, rowVars, StopInv
  <2>5. EndInv'
    BY <1>a, <1>b, <1>c, <1>12 DEF Flush, lifeVars, workVars, rowVars, EndInv
  <2>. QED
    BY <2>1, <2>2, <2>3, <2>4, <2>5 DEF ServicesInv
<1>13. CASE Connect
  <2>1. ServicesTypeOK'
    BY <1>b, <1>c, <1>13 DEF Connect, lifeVars, workVars, rowVars, ServicesTypeOK
  <2>2. StartInv'
    BY <1>a, <1>b, <1>c, <1>13 DEF Connect, lifeVars, workVars, rowVars, StartInv
  <2>3. FlusherInv'
    BY <1>a, <1>b, <1>c, <1>13 DEF Connect, lifeVars, workVars, rowVars, FlusherInv, Flushes, Late
  <2>4. StopInv'
    BY <1>a, <1>b, <1>c, <1>13 DEF Connect, lifeVars, workVars, rowVars, StopInv
  <2>5. EndInv'
    BY <1>a, <1>b, <1>c, <1>13 DEF Connect, lifeVars, workVars, rowVars, EndInv
  <2>. QED
    BY <2>1, <2>2, <2>3, <2>4, <2>5 DEF ServicesInv
<1>14. CASE Disconnect
  <2>1. /\ SpawnRow("requests") \/ UNCHANGED rowVars
        /\ clients > 0 /\ clients' = clients - 1
        /\ UNCHANGED <<deployment, process, signals, caught, life, got, tasks, told, busy, ticking>>
    BY <1>14 DEF Disconnect, lifeVars
  <2>2. /\ held' \in [Services -> Nat] /\ adding' \in Nat /\ late' \in [Sources -> Nat]
        /\ held'["crawler"] = held["crawler"]
        /\ late'["requests"] \in {late["requests"], late["requests"] + 1}
        /\ late'["events"] = late["events"]
        /\ FlusherInv'
    <3>0. "requests" \in Sources /\ "events" \in Sources \ {"requests"}
          /\ "crawler" \in Services \ {"api"}
      BY <1>c DEF Sources
    <3>1. CASE SpawnRow("requests")
      <4>1. Flushes
        BY <3>1 DEF SpawnRow, Flushes
      <4>2. Tally("requests") /\ held' = held /\ adding' = adding + 1
        BY <3>1 DEF SpawnRow
      <4>. QED
        BY <1>a, <2>1, <3>0, <4>1, <4>2, RowCounts
    <3>2. CASE UNCHANGED rowVars
      BY <1>a, <1>b, <2>1, <3>2 DEF rowVars, FlusherInv, Flushes, Late
    <3>. QED
      BY <2>1, <3>1, <3>2
  <2>3. clients' \in 0..MaxClients
    BY <1>b, <2>1
  <2>4. ServicesTypeOK'
    BY <1>b, <2>1, <2>2, <2>3 DEF ServicesTypeOK
  <2>5. StartInv'
    BY <1>a, <2>1 DEF StartInv
  <2>6. StopInv'
    <3>1. clients \in Nat /\ late'["requests"] + clients' <= late["requests"] + clients
      BY <1>b, <1>d, <2>1, <2>2
    <3>2. ASSUME told["api"] = "set" PROVE late'["requests"] + clients' <= MaxClients
      <4>1. late["requests"] + clients <= MaxClients
        BY <1>a, <3>2 DEF StopInv
      <4>2. late'["requests"] + clients' \in Nat
        BY <1>b, <1>d, <2>2, <2>3
      <4>. QED
        BY <1>d, <3>1, <4>1, <4>2
    <3>. QED
      BY <1>a, <2>1, <2>2, <3>2 DEF StopInv
  <2>7. EndInv'
    BY <1>a, <2>1, <2>2 DEF EndInv
  <2>. QED
    BY <2>2, <2>4, <2>5, <2>6, <2>7 DEF ServicesInv
<1>15. ASSUME NEW kind \in SignalKinds, Signal(kind)
      PROVE  ServicesInv'
  <2>. DEFINE aborting == kind = "INT" /\ deployment = "all" /\ process = "up"
  <2>1. CASE Gone
    BY <1>a, <1>b, <1>15, <2>1, GoneIsClean DEF Signal
  <2>2. CASE kind \in caught
    <3>1. /\ process' \in {process, "grace"} /\ process # "exited"
          /\ life' = [s \in Services |-> IF aborting /\ Aborted(s) THEN "aborted" ELSE life[s]]
          /\ told' = [s \in Services |->
                        IF Listens(s) THEN "set"
                        ELSE IF aborting /\ life[s] = "binding" THEN "gone" ELSE told[s]]
          /\ busy' = [s \in Services |-> busy[s] /\ (s = "api" \/ ~(aborting /\ Aborted(s)))]
          /\ UNCHANGED <<deployment, caught, got, tasks, held, adding, late, ticking, clients>>
          /\ signals' = signals \cup {kind}
      BY <1>15, <2>2 DEF Signal, rowVars
    <3>2. \A s \in Services : life'[s] \in {life[s], "aborted"}
      BY <3>1
    <3>3. life'["crawler"] \in {life["crawler"], "aborted"}
      BY <1>c, <3>2
    <3>4. (busy'["api"] = busy["api"]) /\ ~busy'["crawler"]
      <4>1. "api" \in Services /\ "crawler" \in Services
        BY <1>c
      <4>2. busy["api"] \in BOOLEAN /\ ~busy["crawler"]
        BY <1>a, <1>b, <4>1 DEF EndInv
      <4>3. busy'["api"] = (busy["api"] /\ ("api" = "api" \/ ~(aborting /\ Aborted("api"))))
        BY <3>1, <4>1, Zenon
      <4>4. busy'["crawler"] = (busy["crawler"]
                                 /\ ("crawler" = "api" \/ ~(aborting /\ Aborted("crawler"))))
        BY <3>1, <4>1, Zenon
      <4>. QED
        BY <4>2, <4>3, <4>4, Zenon
    <3>5. ServicesTypeOK'
      <4>1. life' \in [Services -> {"absent", "starting", "binding", "serving", "closing",
                                   "ended", "failed", "aborted"}]
        BY <1>b, <3>1
      <4>2. told' \in [Services -> {"no", "set", "gone"}]
        BY <1>b, <3>1
      <4>3. busy' \in [Services -> BOOLEAN]
        BY <3>1
      <4>. QED
        BY <1>b, <3>1, <4>1, <4>2, <4>3 DEF ServicesTypeOK
    <3>6. StartInv'
      <4>1. ASSUME NEW s \in Services, life'[s] \in {"absent", "starting"}
            PROVE  life[s] = life'[s] /\ told'[s] = told[s]
        BY <3>1, <4>1 DEF Listens
      <4>2. ASSUME NEW s \in Services, life[s] = "absent"
            PROVE  life'[s] = "absent"
        BY <3>1, <4>2 DEF Aborted
      <4>. QED
        BY <1>a, <3>1, <4>1, <4>2 DEF StartInv
    <3>7. CASE Listens("api")
      <4>1. told["api"] # "gone" /\ told'["api"] = "set"
        BY <1>a, <1>c, <3>1, <3>7 DEF Listens, StopInv
      <4>2. told["api"] = "no" => late["events"] = 0 /\ late["requests"] = 0
        BY <1>a DEF FlusherInv
      <4>3. FlusherInv'
        BY <1>a, <3>1, <4>1 DEF FlusherInv, Flushes, Late
      <4>4. StopInv'
        BY <1>a, <1>b, <1>c, <3>1, <3>4, <4>1, <4>2 DEF StopInv
      <4>. QED
        BY <1>a, <3>1, <3>2, <3>3, <3>4, <3>5, <3>6, <4>3, <4>4 DEF ServicesInv, EndInv
    <3>8. CASE ~Listens("api")
      <4>1. \/ told'["api"] = told["api"]
            \/ told'["api"] = "gone" /\ life'["api"] = "aborted"
        BY <1>c, <3>1, <3>8 DEF Aborted
      <4>2. life'["api"] \in {life["api"], "aborted"}
        BY <1>c, <3>2
      <4>3. FlusherInv'
        BY <1>a, <3>1, <4>1 DEF FlusherInv, Flushes, Late
      <4>4. StopInv'
        BY <1>a, <3>1, <3>4, <4>1, <4>2 DEF StopInv
      <4>. QED
        BY <1>a, <3>1, <3>2, <3>3, <3>4, <3>5, <3>6, <4>3, <4>4 DEF ServicesInv, EndInv
    <3>. QED
      BY <3>7, <3>8
  <2>. QED
    BY <1>15, <2>1, <2>2 DEF Signal
<1>16. ASSUME NEW s \in Services, IdleExit(s)
      PROVE  ServicesInv'
  <2>1. ServicesTypeOK'
    BY <1>b, <1>c, <1>16 DEF IdleExit, lifeVars, workVars, rowVars, ServicesTypeOK
  <2>2. StartInv'
    BY <1>a, <1>b, <1>c, <1>16 DEF IdleExit, lifeVars, workVars, rowVars, StartInv
  <2>3. FlusherInv'
    BY <1>a, <1>b, <1>c, <1>16 DEF IdleExit, lifeVars, workVars, rowVars, FlusherInv, Flushes, Late
  <2>4. StopInv'
    <3>1. told["api"] = "no" => late["events"] = 0 /\ late["requests"] = 0
      BY <1>a DEF FlusherInv
    <3>2. /\ told' = [told EXCEPT ![s] = "set"] /\ told[s] = "no"
          /\ UNCHANGED <<life, tasks, busy, late, ticking, clients>>
      BY <1>16 DEF IdleExit, lifeVars, workVars, rowVars
    <3>3. CASE s = "api"
      <4>1. told'["api"] = "set" /\ told["api"] = "no"
        BY <1>b, <3>2, <3>3
      <4>. QED
        BY <1>a, <1>b, <3>1, <3>2, <4>1 DEF StopInv
    <3>4. CASE s # "api"
      <4>1. told'["api"] = told["api"]
        BY <1>b, <1>c, <3>2, <3>4
      <4>. QED
        BY <1>a, <3>2, <4>1 DEF StopInv
    <3>. QED
      BY <3>3, <3>4
  <2>5. EndInv'
    BY <1>a, <1>b, <1>c, <1>16 DEF IdleExit, lifeVars, workVars, rowVars, EndInv
  <2>. QED
    BY <2>1, <2>2, <2>3, <2>4, <2>5 DEF ServicesInv
<1>17. ASSUME NEW s \in Services, NEW t \in tasks[s], LeaveTask(s, t)
      PROVE  ServicesInv'
  <2>1. ServicesTypeOK'
    BY <1>b, <1>c, <1>17 DEF LeaveTask, lifeVars, workVars, rowVars, ServicesTypeOK
  <2>2. StartInv'
    BY <1>a, <1>b, <1>c, <1>17 DEF LeaveTask, lifeVars, workVars, rowVars, StartInv
  <2>3. FlusherInv'
    <3>1. /\ tasks' = [tasks EXCEPT ![s] = @ \ {t}] /\ Sees(s, t)
          /\ IF s = "api" /\ t = "flusher"
             THEN held' = [held EXCEPT ![s] = 0] /\ late' = [late EXCEPT !["others"] = adding]
             ELSE held' = held /\ late' = late
          /\ UNCHANGED <<got, told, adding>>
      BY <1>17 DEF LeaveTask
    <3>2. CASE s = "api" /\ t = "flusher"
      <4>1. told["api"] # "no"
        BY <3>1, <3>2 DEF Sees
      <4>2. "flusher" \notin tasks'["api"] /\ held'["api"] = 0
        BY <1>b, <1>c, <3>1, <3>2
      <4>3. late["events"] = 0 /\ late["requests"] = 0 /\ Flushes
        BY <1>a, <3>2 DEF FlusherInv
      <4>4. late'["events"] = 0 /\ late'["requests"] = 0 /\ late'["others"] = adding
        BY <1>b, <3>1, <3>2, <4>3 DEF Sources
      <4>5. held'["api"] + adding' <= Late'
        BY <1>b, <3>1, <4>2, <4>4 DEF Late
      <4>6. Flushes'
        BY <3>1, <4>3 DEF Flushes
      <4>. QED
        BY <3>1, <4>1, <4>2, <4>5, <4>6 DEF FlusherInv
    <3>3. CASE ~(s = "api" /\ t = "flusher")
      <4>1. /\ held' = held /\ late' = late
            /\ "flusher" \in tasks'["api"] <=> "flusher" \in tasks["api"]
            /\ "usage" \in tasks'["api"] => "usage" \in tasks["api"]
        BY <1>b, <1>c, <3>1, <3>3
      <4>. QED
        BY <1>a, <3>1, <4>1 DEF FlusherInv, Flushes, Late
    <3>. QED
      BY <3>2, <3>3
  <2>4. StopInv'
    <3>1. /\ tasks' = [tasks EXCEPT ![s] = @ \ {t}] /\ Sees(s, t)
          /\ UNCHANGED <<life, told, busy, ticking, clients>>
      BY <1>17 DEF LeaveTask
    <3>0. late'["events"] = late["events"] /\ late'["requests"] = late["requests"]
      <4>1. late' = late \/ late' = [late EXCEPT !["others"] = adding]
        BY <1>17 DEF LeaveTask
      <4>. QED
        BY <1>b, <4>1 DEF Sources
    <3>2. busy["api"] => "events" \in tasks'["api"]
      <4>1. s = "api" /\ t = "events" => ~busy["api"]
        BY <3>1 DEF Sees
      <4>. QED
        BY <1>a, <1>b, <1>c, <3>1, <4>1 DEF StopInv
    <3>3. ticking' \subseteq tasks'["api"] \cap Periodic
      <4>1. s = "api" => t \notin ticking
        BY <1>a, <3>1 DEF Sees, StopInv, Periodic
      <4>. QED
        BY <1>a, <1>b, <1>c, <3>1, <4>1 DEF StopInv
    <3>. QED
      BY <1>a, <3>0, <3>1, <3>2, <3>3 DEF StopInv
  <2>5. EndInv'
    BY <1>a, <1>b, <1>c, <1>17 DEF LeaveTask, lifeVars, workVars, rowVars, EndInv
  <2>. QED
    BY <2>1, <2>2, <2>3, <2>4, <2>5 DEF ServicesInv
<1>18. CASE ApiDrained
  <2>1. ServicesTypeOK'
    BY <1>b, <1>c, <1>18 DEF ApiDrained, lifeVars, workVars, rowVars, ServicesTypeOK
  <2>2. StartInv'
    BY <1>a, <1>b, <1>c, <1>18 DEF ApiDrained, lifeVars, workVars, rowVars, StartInv
  <2>3. FlusherInv'
    BY <1>a, <1>b, <1>c, <1>18 DEF ApiDrained, lifeVars, workVars, rowVars, FlusherInv, Flushes, Late
  <2>4. StopInv'
    BY <1>a, <1>b, <1>c, <1>18 DEF ApiDrained, lifeVars, workVars, rowVars, StopInv
  <2>5. EndInv'
    BY <1>a, <1>b, <1>c, <1>18 DEF ApiDrained, lifeVars, workVars, rowVars, EndInv
  <2>. QED
    BY <2>1, <2>2, <2>3, <2>4, <2>5 DEF ServicesInv
<1>19. CASE ApiEnds
  <2>1. ServicesTypeOK'
    BY <1>b, <1>c, <1>19 DEF ApiEnds, lifeVars, workVars, rowVars, ServicesTypeOK
  <2>2. StartInv'
    BY <1>a, <1>b, <1>c, <1>19 DEF ApiEnds, lifeVars, workVars, rowVars, StartInv
  <2>3. FlusherInv'
    BY <1>a, <1>b, <1>c, <1>19 DEF ApiEnds, lifeVars, workVars, rowVars, FlusherInv, Flushes, Late
  <2>4. StopInv'
    BY <1>a, <1>b, <1>c, <1>19 DEF ApiEnds, lifeVars, workVars, rowVars, StopInv
  <2>5. EndInv'
    BY <1>a, <1>b, <1>c, <1>19 DEF ApiEnds, lifeVars, workVars, rowVars, EndInv
  <2>. QED
    BY <2>1, <2>2, <2>3, <2>4, <2>5 DEF ServicesInv
<1>20. CASE CrawlerEnds
  <2>1. ServicesTypeOK'
    BY <1>b, <1>c, <1>20 DEF CrawlerEnds, lifeVars, workVars, rowVars, ServicesTypeOK
  <2>2. StartInv'
    BY <1>a, <1>b, <1>c, <1>20 DEF CrawlerEnds, lifeVars, workVars, rowVars, StartInv
  <2>3. FlusherInv'
    BY <1>a, <1>b, <1>c, <1>20 DEF CrawlerEnds, lifeVars, workVars, rowVars, FlusherInv, Flushes, Late
  <2>4. StopInv'
    BY <1>a, <1>b, <1>c, <1>20 DEF CrawlerEnds, lifeVars, workVars, rowVars, StopInv
  <2>5. EndInv'
    BY <1>a, <1>b, <1>c, <1>20 DEF CrawlerEnds, lifeVars, workVars, rowVars, EndInv
  <2>. QED
    BY <2>1, <2>2, <2>3, <2>4, <2>5 DEF ServicesInv
<1>21. CASE Exit
  BY <1>a, <1>b, <1>21, GoneIsClean DEF Exit
<1>22. CASE KillProcess
  BY <1>a, <1>b, <1>22, GoneIsClean DEF KillProcess
<1>23. CASE BatchRow
  <2>1. ServicesTypeOK'
    BY <1>b, <1>c, <1>23 DEF BatchRow, lifeVars, workVars, rowVars, ServicesTypeOK
  <2>2. StartInv'
    BY <1>a, <1>b, <1>c, <1>23 DEF BatchRow, lifeVars, workVars, rowVars, StartInv
  <2>3. FlusherInv'
    BY <1>a, <1>b, <1>c, <1>d, <1>23 DEF BatchRow, lifeVars, workVars, rowVars, FlusherInv, Flushes, Late
  <2>4. StopInv'
    BY <1>a, <1>b, <1>c, <1>23 DEF BatchRow, lifeVars, workVars, rowVars, StopInv
  <2>5. EndInv'
    BY <1>a, <1>b, <1>c, <1>23 DEF BatchRow, lifeVars, workVars, rowVars, EndInv
  <2>. QED
    BY <2>1, <2>2, <2>3, <2>4, <2>5 DEF ServicesInv
<1>24. ASSUME NEW t \in Periodic, StartTick(t)
      PROVE  ServicesInv'
  <2>1. ServicesTypeOK'
    BY <1>b, <1>c, <1>24 DEF StartTick, lifeVars, workVars, rowVars, ServicesTypeOK
  <2>2. StartInv'
    BY <1>a, <1>b, <1>c, <1>24 DEF StartTick, lifeVars, workVars, rowVars, StartInv
  <2>3. FlusherInv'
    BY <1>a, <1>b, <1>c, <1>d, <1>24 DEF StartTick, lifeVars, workVars, rowVars, FlusherInv, Flushes, Late
  <2>4. StopInv'
    BY <1>a, <1>b, <1>c, <1>24 DEF StartTick, lifeVars, workVars, rowVars, StopInv
  <2>5. EndInv'
    BY <1>a, <1>b, <1>c, <1>24 DEF StartTick, lifeVars, workVars, rowVars, EndInv
  <2>. QED
    BY <2>1, <2>2, <2>3, <2>4, <2>5 DEF ServicesInv
<1>25. ASSUME NEW t \in ticking, EndTick(t)
      PROVE  ServicesInv'
  <2>1. ServicesTypeOK'
    BY <1>b, <1>c, <1>25 DEF EndTick, lifeVars, workVars, rowVars, ServicesTypeOK
  <2>2. StartInv'
    BY <1>a, <1>b, <1>c, <1>25 DEF EndTick, lifeVars, workVars, rowVars, StartInv
  <2>3. FlusherInv'
    BY <1>a, <1>b, <1>c, <1>d, <1>25 DEF EndTick, lifeVars, workVars, rowVars, FlusherInv, Flushes, Late
  <2>4. StopInv'
    BY <1>a, <1>b, <1>c, <1>25 DEF EndTick, lifeVars, workVars, rowVars, StopInv
  <2>5. EndInv'
    BY <1>a, <1>b, <1>c, <1>25 DEF EndTick, lifeVars, workVars, rowVars, EndInv
  <2>. QED
    BY <2>1, <2>2, <2>3, <2>4, <2>5 DEF ServicesInv
<1>26. CASE TickCompletes
  <2>1. /\ Tally("others") /\ held' = held /\ adding' = adding + 1
        /\ UNCHANGED <<deployment, process, signals, caught, life, got, tasks, told, busy,
                       ticking, clients>>
    BY <1>26 DEF TickCompletes, SpawnRow, lifeVars
  <2>2. Flushes
    BY <1>a, <1>26 DEF TickCompletes, SpawnRow, Flushes, FlusherInv
  <2>3. "others" \in Sources /\ {"events", "requests"} \subseteq Sources \ {"others"}
        /\ "crawler" \in Services \ {"api"}
    BY <1>c DEF Sources
  <2>4. /\ held' \in [Services -> Nat] /\ adding' \in Nat /\ late' \in [Sources -> Nat]
        /\ held'["crawler"] = held["crawler"]
        /\ late'["events"] = late["events"] /\ late'["requests"] = late["requests"]
        /\ FlusherInv'
    BY <1>a, <2>1, <2>2, <2>3, RowCounts
  <2>5. ServicesTypeOK'
    BY <1>b, <2>1, <2>4 DEF ServicesTypeOK
  <2>6. StartInv'
    BY <1>a, <2>1 DEF StartInv
  <2>7. StopInv'
    BY <1>a, <2>1, <2>4 DEF StopInv
  <2>8. EndInv'
    BY <1>a, <2>1, <2>4 DEF EndInv
  <2>. QED
    BY <2>4, <2>5, <2>6, <2>7, <2>8 DEF ServicesInv
<1>27. CASE AddUsage
  <2>1. /\ Tally("others") /\ held' = [held EXCEPT !["api"] = @ + 1] /\ adding' = adding
        /\ UNCHANGED <<deployment, process, signals, caught, life, got, tasks, told, busy,
                       ticking, clients>>
    BY <1>27 DEF AddUsage, SpawnRow, lifeVars
  <2>2. Flushes
    BY <1>a, <1>27 DEF AddUsage, SpawnRow, Flushes, FlusherInv
  <2>3. "others" \in Sources /\ {"events", "requests"} \subseteq Sources \ {"others"}
        /\ "crawler" \in Services \ {"api"}
    BY <1>c DEF Sources
  <2>4. /\ held' \in [Services -> Nat] /\ adding' \in Nat /\ late' \in [Sources -> Nat]
        /\ held'["crawler"] = held["crawler"]
        /\ late'["events"] = late["events"] /\ late'["requests"] = late["requests"]
        /\ FlusherInv'
    BY <1>a, <2>1, <2>2, <2>3, RowCounts
  <2>5. ServicesTypeOK'
    BY <1>b, <2>1, <2>4 DEF ServicesTypeOK
  <2>6. StartInv'
    BY <1>a, <2>1 DEF StartInv
  <2>7. StopInv'
    BY <1>a, <2>1, <2>4 DEF StopInv
  <2>8. EndInv'
    BY <1>a, <2>1, <2>4 DEF EndInv
  <2>. QED
    BY <2>4, <2>5, <2>6, <2>7, <2>8 DEF ServicesInv
<1>28. CASE UNCHANGED serviceVars
  BY <1>a, <1>28 DEF serviceVars, lifeVars, workVars, rowVars, ServicesInv, ServicesTypeOK,
                     StartInv, FlusherInv, Flushes, Late, StopInv, EndInv
<1>. QED
  BY <1>1, <1>2, <1>3, <1>4, <1>5, <1>6, <1>7, <1>8, <1>9, <1>10, <1>11, <1>12, <1>13, <1>14,
     <1>15, <1>16, <1>17, <1>18, <1>19, <1>20, <1>21, <1>22, <1>23, <1>24, <1>25, <1>26, <1>27,
     <1>28 DEF ServicesNext, GetsOn

\* Every variable of a process and its services keeps its type.
THEOREM ServicesTypeCorrect == ServicesSpec => []ServicesTypeOK
<1>1. ServicesInv => ServicesTypeOK
  BY DEF ServicesInv
<1>. QED
  BY <1>1, ServicesInvInit, ServicesInvNext, PTL DEF ServicesSpec

\* Whatever signals, failures and idle times end it: a service that ends by itself has
\* ended its tasks and dealt with its work, but for what reached the API's batches after
\* its last flush (additions still to run, the event that was being polled, the requests
\* of open connections, the jobs of a tick, AI usage); at most one event is among it.
THEOREM ServicesEndClean == ServicesSpec => []EndsClean
<1>1. ServicesInv => EndsClean
  <2>. SUFFICES ASSUME ServicesInv PROVE EndsClean
    OBVIOUS
  <2>0. ServicesTypeOK /\ FlusherInv /\ StopInv /\ EndInv
    BY DEF ServicesInv
  <2>1. ASSUME NEW s \in Services, life[s] = "ended"
        PROVE  /\ tasks[s] = {} /\ ~busy[s]
               /\ IF s = "api" THEN ticking = {} /\ held[s] + adding <= Late ELSE held[s] = 0
    <3>1. tasks[s] = {} /\ s \in {"api", "crawler"}
      BY <2>0, <2>1 DEF EndInv
    <3>2. CASE s = "api"
      BY <2>0, <3>1, <3>2 DEF FlusherInv, StopInv
    <3>3. CASE s = "crawler"
      BY <2>0, <2>1, <3>1, <3>3 DEF EndInv
    <3>. QED
      BY <3>1, <3>2, <3>3
  <2>2. told["api"] = "set" => late["events"] <= 1 /\ late["requests"] <= MaxClients
    <3>1. clients \in Nat /\ late["requests"] \in Nat
      BY <2>0, ServicesAssumption DEF ServicesTypeOK, Sources
    <3>. QED
      BY <2>0, <3>1, ServicesAssumption DEF StopInv
  <2>. QED
    BY <2>1, <2>2 DEF EndsClean
<1>. QED
  BY <1>1, ServicesInvInit, ServicesInvNext, PTL DEF ServicesSpec

-----------------------------------------------------------------------------
(* UsageReports                                                            *)

\* The rows that requests write.
RequestRows ==
  [table : {"request_events"}, account : {c.account : c \in Callers},
   key : {c.key : c \in Callers} \cup {Unnamed}, job : Crawls \cup {Unnamed},
   operation : {"scrape", "map", "search", "crawl"}, domain : Sites \cup {Unnamed},
   status : Nat, error : BOOLEAN, pages : Nat, at : Nat]

\* The rows of all three tables.
UsageRow ==
  RequestRows
  \cup [table : {"job_events"}, job : Crawls, event : {"JobStarted", "JobFailed", "JobCompleted"}, at : Nat]
  \cup [table : {"ai_usage_events"}, account : {Unnamed}, tokens : {1}, at : Nat]

\* A request says whether it succeeded.
Told(r) == r.table = "request_events" =>
             \/ r.status >= 200 /\ r.status < 400
             \/ r.status >= 400 \/ r.status = 0 \/ r.error

\* The log holds rows that say whether their request succeeded.
LogInv ==
  /\ hour \in Nat /\ rowLog \in Seq({r \in UsageRow : Told(r)}) /\ Len(rowLog) <= MaxRows

\* A log that grows by sound rows, as far as there is room, stays sound.
LEMMA LogKept ==
  ASSUME LogInv, NEW rows \in Seq({r \in UsageRow : Told(r)}), Log(rows)
  PROVE  LogInv'
<1>. DEFINE Rows == {r \in UsageRow : Told(r)}
<1>1. Rows' = Rows
  BY DEF UsageRow, RequestRows, Told
<1>. HIDE DEF Rows
<1>2. rowLog \in Seq(Rows) /\ rows \in Seq(Rows) /\ hour \in Nat
  BY DEF LogInv, Rows
<1>3. rowLog' \in Seq(Rows) /\ Len(rowLog') = Len(rowLog) + Len(rows)
  BY <1>2 DEF Log
<1>4. rowLog' \in Seq(Rows)' /\ Len(rowLog') <= MaxRows /\ hour' \in Nat
  BY <1>1, <1>2, <1>3 DEF Log
<1>. QED
  BY <1>4 DEF LogInv, Rows

\* One sound row more.
LEMMA OneRowKept ==
  ASSUME LogInv, NEW r \in {r \in UsageRow : Told(r)}, Log(<<r>>)
  PROVE  LogInv'
<1>. DEFINE Rows == {q \in UsageRow : Told(q)}
<1>1. r \in Rows
  OBVIOUS
<1>. HIDE DEF Rows
<1>2. <<r>> \in Seq(Rows)
  BY <1>1
<1>. QED
  BY <1>2, LogKept DEF Rows

\* The row of a request is sound.
LEMMA RequestRowSound ==
  ASSUME LogInv, NEW caller, caller.account \in {c.account : c \in Callers},
         caller.key \in {c.key : c \in Callers} \cup {Unnamed},
         NEW job \in Crawls \cup {Unnamed}, NEW operation \in {"scrape", "map", "search", "crawl"},
         NEW site \in Sites \cup {Unnamed}, NEW status \in Nat, NEW error \in BOOLEAN, NEW pages \in Nat,
         status \in 200..299 \/ error \/ status = 0
  PROVE  RequestRow(caller, job, operation, site, status, error, pages)
           \in {r \in UsageRow : Told(r)}
<1>. DEFINE r == RequestRow(caller, job, operation, site, status, error, pages)
<1>1. r \in RequestRows
  BY DEF LogInv, RequestRow, RequestRows
<1>2. Told(r)
  <2>1. r.status = status /\ r.error = error
    BY DEF RequestRow
  <2>2. r.error = TRUE \/ (r.status >= 200 /\ r.status < 400) \/ r.status = 0
    BY <2>1
  <2>. HIDE DEF r
  <2>. QED
    BY <2>2 DEF Told
<1>. QED
  BY <1>1, <1>2 DEF UsageRow

\* Each step keeps the log sound.
LEMMA LogStep ==
  ASSUME LogInv, [UsageNext]_usageVars
  PROVE  LogInv'
<1>. USE UsageAssumption
<1>. DEFINE Rows == {r \in UsageRow : Told(r)}
<1>0. hour \in Nat /\ \A caller \in Callers : /\ caller.account \in {c.account : c \in Callers}
                                              /\ caller.key \in {c.key : c \in Callers} \cup {Unnamed}
  BY DEF LogInv
<1>1. ASSUME NEW c \in Callers, NEW d \in Sites, NEW s \in Statuses, LogScrape(c, d, s) PROVE LogInv'
  <2>1. RequestRow(c, Unnamed, "scrape", d, s, s \notin 200..299, 1) \in Rows
    BY <1>0, RequestRowSound
  <2>. QED
    BY <1>1, <2>1, OneRowKept DEF LogScrape
<1>2. ASSUME NEW c \in Callers, NEW d \in Sites, NEW n \in PageCounts, LogMap(c, d, n) PROVE LogInv'
  <2>0. n \in Nat /\ 200 \in Nat /\ 200 \in 200..299
    OBVIOUS
  <2>1. RequestRow(c, Unnamed, "map", d, 200, FALSE, n) \in Rows
    BY <1>0, <2>0, RequestRowSound
  <2>. QED
    BY <1>2, <2>1, OneRowKept DEF LogMap
<1>3. ASSUME NEW c \in Callers, NEW d \in Sites, LogSearch(c, d) PROVE LogInv'
  <2>0. 0 \in Nat /\ 200 \in Nat /\ 200 \in 200..299
    OBVIOUS
  <2>1. RequestRow(c, Unnamed, "search", d, 200, FALSE, 0) \in Rows
    BY <1>0, <2>0, RequestRowSound
  <2>. QED
    BY <1>3, <2>1, OneRowKept DEF LogSearch
<1>4. ASSUME NEW j \in Crawls, NEW e \in {"JobStarted", "JobFailed", "JobCompleted"}
      PROVE  JobRow(j, e) \in Rows
  BY <1>0 DEF JobRow, UsageRow, Told
<1>5. ASSUME NEW j \in Crawls, NEW e \in {"JobStarted", "JobFailed"}, LogJobEvent(j, e) PROVE LogInv'
  <2>1. JobRow(j, e) \in Rows
    BY <1>4
  <2>. QED
    BY <1>5, <2>1, OneRowKept DEF LogJobEvent
<1>6. ASSUME NEW j \in Crawls, NEW inMemory \in BOOLEAN, NEW n \in PageCounts, NEW errors \in 0..1,
             LogCrawl(j, inMemory, n, errors)
      PROVE  LogInv'
  <2>. DEFINE caller == [account |-> CrawlCaller[j].account,
                         key |-> IF inMemory THEN CrawlCaller[j].key ELSE Unnamed]
              site == IF inMemory THEN CrawlSite[j] ELSE Unnamed
              row == RequestRow(caller, j, "crawl", site, IF errors > 0 THEN 0 ELSE 200, FALSE, n)
  <2>1. row \in Rows
    <3>1. /\ caller.account \in {c.account : c \in Callers}
          /\ caller.key \in {c.key : c \in Callers} \cup {Unnamed}
      BY <1>0
    <3>2. site \in Sites \cup {Unnamed}
      OBVIOUS
    <3>. DEFINE status == IF errors > 0 THEN 0 ELSE 200
    <3>3. n \in Nat /\ status \in Nat /\ (status \in 200..299 \/ status = 0)
      OBVIOUS
    <3>. HIDE DEF caller, site, status
    <3>4. RequestRow(caller, j, "crawl", site, status, FALSE, n) \in Rows
      BY <3>1, <3>2, <3>3, RequestRowSound
    <3>. QED
      BY <3>4 DEF status
  <2>2. JobRow(j, "JobCompleted") \in Rows
    BY <1>4
  <2>3. Log(<<JobRow(j, "JobCompleted"), row>>)
    BY <1>6 DEF LogCrawl
  <2>. HIDE DEF row
  <2>. QED
    <3>. HIDE DEF Rows
    <3>1. <<JobRow(j, "JobCompleted"), row>> \in Seq(Rows)
      BY <2>1, <2>2
    <3>. QED
      BY <2>3, <3>1, LogKept DEF Rows
<1>7. ASSUME LogAiCall PROVE LogInv'
  <2>1. AiRow \in Rows
    BY <1>0 DEF AiRow, UsageRow, Told
  <2>. QED
    BY <1>7, <2>1, OneRowKept DEF LogAiCall
<1>8. ASSUME UNCHANGED rowLog, hour' \in Nat PROVE LogInv'
  BY <1>8 DEF LogInv, UsageRow, RequestRows, Told
<1>9. ASSUME \/ \E i \in DOMAIN rowLog : AddRow(i)
             \/ \E t \in Tables : FlushFull(t) \/ FlushTick(t)
             \/ \E b \in writing : InsertEnds(b) \/ InsertFails(b)
             \/ ServerStops \/ UNCHANGED usageVars
      PROVE  UNCHANGED <<rowLog, hour>>
  BY <1>9 DEF AddRow, FlushFull, FlushTick, TakeBatch, InsertEnds, InsertFails, BatchEnds,
                    ServerStops, usageVars
<1>10. CASE HourPasses
  BY <1>0, <1>8, <1>10 DEF HourPasses
<1>. QED
  BY <1>1, <1>2, <1>3, <1>5, <1>6, <1>7, <1>8, <1>9, <1>10, <1>0 DEF UsageNext

\* The rows of requests that are in the log.
RequestIds == {i \in DOMAIN rowLog : rowLog[i].table = "request_events"}

\* The pages of each row.
Pages == [i \in DOMAIN rowLog |-> rowLog[i].pages]

\* What the rows of requests are.
LEMMA RowFacts ==
  ASSUME LogInv
  PROVE  /\ IsFiniteSet(DOMAIN rowLog) /\ Cardinality(DOMAIN rowLog) <= MaxRows
         /\ \A i \in DOMAIN rowLog : rowLog[i].at \in Nat
         /\ \A i \in RequestIds : rowLog[i].pages \in Nat /\ rowLog[i].status \in Nat
                                  /\ (Succeeded(i) \/ Failed(i))
<1>1. DOMAIN rowLog = 1..Len(rowLog) /\ Len(rowLog) \in Nat /\ Len(rowLog) <= MaxRows
  BY DEF LogInv
<1>2. \A i \in DOMAIN rowLog : rowLog[i] \in UsageRow /\ Told(rowLog[i])
  BY <1>1 DEF LogInv
<1>3. IsFiniteSet(DOMAIN rowLog) /\ Cardinality(DOMAIN rowLog) <= MaxRows
  BY <1>1, FS_Interval
<1>4. \A i \in DOMAIN rowLog : rowLog[i].at \in Nat
  BY <1>2 DEF UsageRow, RequestRows
<1>5. \A i \in RequestIds : rowLog[i] \in RequestRows
  BY <1>2 DEF RequestIds, UsageRow
<1>6. \A i \in RequestIds : rowLog[i].pages \in Nat /\ rowLog[i].status \in Nat
  BY <1>5 DEF RequestRows
<1>7. \A i \in RequestIds : Succeeded(i) \/ Failed(i)
  BY <1>2 DEF Told, Succeeded, Failed, RequestIds
<1>. QED
  BY <1>3, <1>4, <1>6, <1>7

\* Pages of rows add up to a natural number.
LEMMA PagesAre ==
  ASSUME LogInv, NEW rows \in SUBSET RequestIds
  PROVE  /\ IsFiniteSet(rows) /\ \A i \in rows : Pages[i] \in Nat
         /\ PagesIn(rows) = SumFunctionOnSet(Pages, rows) /\ PagesIn(rows) \in Nat
<1>. DEFINE f == [i \in rows |-> rowLog[i].pages]
<1>1. IsFiniteSet(rows)
  BY RowFacts, FS_Subset DEF RequestIds
<1>2. \A i \in rows : Pages[i] \in Nat /\ f[i] = Pages[i]
  BY RowFacts DEF Pages, RequestIds
<1>3. PagesIn(rows) = SumFunctionOnSet(f, rows)
  BY DEF PagesIn, SumFunction
<1>. HIDE DEF f
<1>4. SumFunctionOnSet(f, rows) = SumFunctionOnSet(Pages, rows)
  BY <1>1, <1>2, SumSame
<1>5. SumFunctionOnSet(Pages, rows) \in Nat
  BY <1>1, <1>2, SumIsNat
<1>. QED
  BY <1>1, <1>2, <1>3, <1>4, <1>5

\* Each total is the pages of the rows of one key.
PagesByKey(totals, K, keyOf, rows) ==
  \A k \in K : totals[k] = PagesIn({i \in rows : keyOf[i] = k})

\* Counts and pages by key add up to those of the rows that have a key.
LEMMA GroupsAdd ==
  ASSUME LogInv, NEW rows \in SUBSET RequestIds, NEW keyOf,
         NEW K, IsFiniteSet(K), \A i \in rows : keyOf[i] \in K, NEW totals,
         PagesByKey(totals, K, keyOf, rows)
  PROVE  SumFunctionOnSet(totals, K) = PagesIn(rows)
<1>1. GroupSums(totals, K, keyOf, Pages, rows)
  <2>. SUFFICES ASSUME NEW k \in K
                PROVE  totals[k] = SumFunctionOnSet(Pages, {i \in rows : keyOf[i] = k})
    BY DEF GroupSums
  <2>1. {i \in rows : keyOf[i] = k} \in SUBSET RequestIds
    OBVIOUS
  <2>. QED
    BY <2>1, PagesAre DEF PagesByKey
<1>2. IsFiniteSet(rows) /\ \A i \in rows : Pages[i] \in Int
  BY PagesAre
<1>3. SumFunctionOnSet(totals, K) = SumFunctionOnSet(Pages, rows)
  BY <1>1, <1>2, SumOfGroups
<1>. QED
  BY <1>3, PagesAre

\* Finitely many rows have finitely many keys.
LEMMA KeysAreFinite ==
  ASSUME NEW keyOf, IsFiniteSet(DOMAIN keyOf)
  PROVE  IsFiniteSet(Range(keyOf)) /\ Cardinality(Range(keyOf)) <= Cardinality(DOMAIN keyOf)
<1>. DEFINE f == [i \in DOMAIN keyOf |-> keyOf[i]]
<1>1. f \in Surjection(DOMAIN keyOf, Range(keyOf))
  BY DEF Surjection, Range
<1>. QED
  BY <1>1, FS_Surjection

\* What a report by key sums up to is what its rows are.
LEMMA SummedAgrees ==
  ASSUME LogInv, NEW rows \in SUBSET RequestIds, NEW keyOf, DOMAIN keyOf = rows
  PROVE  Summed(Grouped(keyOf)) = PagesIn(rows)
<1>. DEFINE K == Range(keyOf)
            totals == [k \in K |-> Grouped(keyOf)[k].requests]
<1>1. IsFiniteSet(K)
  BY PagesAre, KeysAreFinite
<1>2. \A i \in rows : keyOf[i] \in K
  BY DEF Range
<1>3. PagesByKey(totals, K, keyOf, rows)
  BY DEF Grouped, Summary, PagesByKey
<1>4. Summed(Grouped(keyOf)) = SumFunctionOnSet(totals, K)
  BY DEF Summed, Grouped, SumFunction
<1>. HIDE DEF K, totals
<1>. QED
  BY <1>1, <1>2, <1>3, <1>4, GroupsAdd

\* Fewer rows have no more pages.
LEMMA PagesWithin ==
  ASSUME LogInv, NEW rows \in SUBSET RequestIds, NEW some \in SUBSET rows
  PROVE  PagesIn(some) <= PagesIn(rows)
<1>1. some \in SUBSET RequestIds
  OBVIOUS
<1>. QED
  BY <1>1, PagesAre, SumWithin

\* What a report says of the requests of one span.
LEMMA SpanAgrees ==
  ASSUME LogInv, NEW days \in 1..MaxHours
  PROVE  LET hours == days * DayHours
             whole == Summary(Requests(hours))
             sites == DOMAIN ByDomain(hours)
         IN  /\ Summed(HourlyStats(hours)) = whole.requests
             /\ Summed(DailyStats(days)) = whole.requests
             /\ SumFunction([d \in sites |-> DomainStats(d, hours).requests]) = whole.requests
             /\ whole.requests <= whole.successes + whole.failures
             /\ SumFunction(ErrorDistribution(hours))
                  <= Cardinality({i \in Requests(hours) : Failed(i)})
<1>. DEFINE hours == days * DayHours
            rows == Requests(hours)
            whole == Summary(rows)
<1>0. rows \in SUBSET RequestIds
  BY DEF Requests, Recent, RowsAt, RequestIds
<1>1. whole.requests = PagesIn(rows)
  BY DEF Summary
<1>2. Summed(HourlyStats(hours)) = whole.requests
  BY <1>0, <1>1, SummedAgrees DEF HourlyStats
<1>3. Summed(DailyStats(days)) = whole.requests
  BY <1>0, <1>1, SummedAgrees DEF DailyStats
<1>4. SumFunction([d \in DOMAIN ByDomain(hours) |-> DomainStats(d, hours).requests]) = whole.requests
  <2>. DEFINE keyOf == [i \in rows |-> rowLog[i].domain]
              K == Range(keyOf)
              totals == [d \in K |-> DomainStats(d, hours).requests]
  <2>1. DOMAIN ByDomain(hours) = K
    BY DEF ByDomain, Grouped
  <2>2. IsFiniteSet(K)
    BY <1>0, PagesAre, KeysAreFinite
  <2>3. \A i \in rows : keyOf[i] \in K
    BY DEF Range
  <2>4. PagesByKey(totals, K, keyOf, rows)
    <3>. SUFFICES ASSUME NEW k \in K
                  PROVE  totals[k] = PagesIn({i \in rows : keyOf[i] = k})
      BY DEF PagesByKey
    <3>1. {i \in rows : keyOf[i] = k} = {i \in rows : rowLog[i].domain = k}
      OBVIOUS
    <3>. QED
      BY <3>1 DEF DomainStats, Summary
  <2>. HIDE DEF keyOf, K
  <2>5. SumFunctionOnSet(totals, K) = PagesIn(rows)
    <3>. HIDE DEF rows, totals
    <3>. QED
      BY <1>0, <2>2, <2>3, <2>4, GroupsAdd
  <2>. QED
    BY <1>1, <2>1, <2>5 DEF SumFunction
<1>5. whole.requests <= whole.successes + whole.failures
  <2>. DEFINE good == {i \in rows : Succeeded(i)}
              bad == {i \in rows : Failed(i)}
              rest == bad \ good
  <2>1. /\ good \in SUBSET RequestIds /\ bad \in SUBSET RequestIds /\ rest \in SUBSET bad
        /\ good \cap rest = {} /\ good \cup rest = rows
    BY <1>0, RowFacts
  <2>2. rest \in SUBSET RequestIds
    BY <2>1
  <2>3. whole.successes = PagesIn(good) /\ whole.failures = PagesIn(bad)
    BY DEF Summary
  <2>. HIDE DEF good, bad, rest, rows, whole
  <2>4. IsFiniteSet(good) /\ IsFiniteSet(rest) /\ \A i \in good \cup rest : Pages[i] \in Int
    BY <2>1, <2>2, PagesAre
  <2>5. SumFunctionOnSet(Pages, good \cup rest) = SumFunctionOnSet(Pages, good) + SumFunctionOnSet(Pages, rest)
    BY <2>1, <2>4, SumApart
  <2>6. PagesIn(rows) = PagesIn(good) + PagesIn(rest)
    BY <1>0, <2>1, <2>2, <2>5, PagesAre
  <2>7. PagesIn(rest) <= PagesIn(bad) /\ PagesIn(good) \in Nat /\ PagesIn(bad) \in Nat /\ PagesIn(rest) \in Nat
    BY <2>1, <2>2, PagesWithin, PagesAre
  <2>. QED
    BY <1>1, <2>3, <2>6, <2>7
<1>6. SumFunction(ErrorDistribution(hours)) <= Cardinality({i \in rows : Failed(i)})
  <2>. DEFINE wrong == {i \in rows : rowLog[i].status >= 400 \/ rowLog[i].error}
              keyOf == [i \in wrong |-> rowLog[i].status]
              K == {rowLog[i].status : i \in wrong}
  <2>1. wrong \in SUBSET {i \in rows : Failed(i)} /\ {i \in rows : Failed(i)} \in SUBSET RequestIds
    BY <1>0 DEF Failed
  <2>2. IsFiniteSet(wrong) /\ Cardinality(wrong) <= Cardinality({i \in rows : Failed(i)})
    BY <2>1, PagesAre, FS_Subset
  <2>3. K = Range(keyOf) /\ DOMAIN keyOf = wrong
    BY DEF Range
  <2>4. IsFiniteSet(K)
    <3>. HIDE DEF K, keyOf
    <3>. QED
      BY <2>2, <2>3, KeysAreFinite
  <2>5. \A i \in wrong : keyOf[i] \in K
    OBVIOUS
  <2>6. /\ DOMAIN ErrorDistribution(hours) = K
        /\ \A s \in K : ErrorDistribution(hours)[s] = Cardinality({i \in wrong : keyOf[i] = s})
    <3>1. ErrorDistribution(hours) = [s \in K |-> Cardinality({i \in wrong : rowLog[i].status = s})]
      BY DEF ErrorDistribution
    <3>2. \A s \in K : {i \in wrong : keyOf[i] = s} = {i \in wrong : rowLog[i].status = s}
      OBVIOUS
    <3>. QED
      BY <3>1, <3>2
  <2>. HIDE DEF wrong, K, keyOf, rows, hours
  <2>7. SumFunctionOnSet(ErrorDistribution(hours), K) = Cardinality(wrong)
    BY <2>2, <2>4, <2>5, <2>6, CountOfGroups DEF GroupCounts
  <2>. QED
    BY <2>2, <2>6, <2>7 DEF SumFunction
<1>. QED
  BY <1>2, <1>3, <1>4, <1>5, <1>6

\* A summary says what it counts.
LEMMA SummaryFields ==
  \A rows : /\ Summary(rows).requests = PagesIn(rows)
            /\ Summary(rows).successes = PagesIn({i \in rows : Succeeded(i)})
            /\ Summary(rows).failures = PagesIn({i \in rows : Failed(i)})
BY DEF Summary

\* What the KPIs show is the sum over the domains that are kept.
LEMMA KpisAgree ==
  ASSUME LogInv, NEW hours, NEW k \in Kpis(hours)
  PROVE  LET whole == Summary(Requests(hours))
             sites == DOMAIN ByDomain(hours)
         IN  /\ k.requests <= whole.requests
             /\ Cardinality(sites) <= KpiDomains => k = whole
<1>. DEFINE rows == Requests(hours)
            groups == ByDomain(hours)
            keyOf == [i \in rows |-> rowLog[i].domain]
            K == Range(keyOf)
            In(S) == [d \in S |-> groups[d].requests]
            of(Q) == [d \in K |-> PagesIn({i \in rows \cap Q : keyOf[i] = d})]
            good == {i \in rows : Succeeded(i)}
            bad == {i \in rows : Failed(i)}
<1>0. rows \in SUBSET RequestIds
  BY DEF Requests, Recent, RowsAt, RequestIds
<1>1. DOMAIN groups = K /\ \A d \in K : groups[d] = Summary({i \in rows : keyOf[i] = d})
  <2>1. DOMAIN keyOf = rows
    OBVIOUS
  <2>2. groups = Grouped(keyOf)
    BY DEF ByDomain
  <2>. HIDE DEF keyOf, rows, groups
  <2>. QED
    BY <2>1, <2>2 DEF Grouped
<1>2. IsFiniteSet(K) /\ \A i \in rows : keyOf[i] \in K
  <2>1. DOMAIN keyOf = rows /\ IsFiniteSet(rows)
    BY <1>0, PagesAre
  <2>2. IsFiniteSet(Range(keyOf))
    <3>. HIDE DEF keyOf, rows
    <3>. QED
      BY <2>1, KeysAreFinite
  <2>. QED
    BY <2>2 DEF Range
<1>3. PICK kept \in TopGroups(groups, KpiDomains) :
        k = [requests |-> SumFunction([d \in kept |-> groups[d].requests]),
             successes |-> SumFunction([d \in kept |-> groups[d].successes]),
             failures |-> SumFunction([d \in kept |-> groups[d].failures])]
  BY DEF Kpis
<1>4. kept \subseteq K /\ Cardinality(kept) = Min({KpiDomains, Cardinality(K)})
  BY <1>1 DEF TopGroups
<1>5. ASSUME NEW Q \in SUBSET rows, NEW totals,
             \A d \in K : totals[d] = PagesIn({i \in {r \in rows : keyOf[r] = d} : i \in Q})
      PROVE  /\ SumFunctionOnSet(totals, K) = PagesIn(Q)
             /\ \A d \in K : totals[d] \in Nat
  <2>1. Q \in SUBSET RequestIds /\ \A i \in Q : keyOf[i] \in K
    BY <1>0, <1>2
  <2>2. \A d \in K : {i \in {r \in rows : keyOf[r] = d} : i \in Q} = {i \in Q : keyOf[i] = d}
    OBVIOUS
  <2>3. \A d \in K : totals[d] = PagesIn({i \in Q : keyOf[i] = d})
    BY <1>5, <2>2
  <2>6. PagesByKey(totals, K, keyOf, Q)
    BY <2>3 DEF PagesByKey
  <2>4. \A d \in K : {i \in Q : keyOf[i] = d} \in SUBSET RequestIds
    BY <2>1
  <2>. HIDE DEF rows, keyOf, K
  <2>5. \A d \in K : totals[d] \in Nat
    BY <2>3, <2>4, PagesAre
  <2>. QED
    BY <1>2, <2>1, <2>5, <2>6, GroupsAdd
<1>. DEFINE requests == [d \in K |-> groups[d].requests]
            successes == [d \in K |-> groups[d].successes]
            amiss == [d \in K |-> groups[d].failures]
<1>6. \A d \in K : requests[d] = PagesIn({i \in {r \in rows : keyOf[r] = d} : i \in rows})
  <2>1. \A d \in K : {i \in {r \in rows : keyOf[r] = d} : i \in rows} = {i \in rows : keyOf[i] = d}
    OBVIOUS
  <2>2. \A d \in K : requests[d] = groups[d].requests
    OBVIOUS
  <2>. HIDE DEF rows, keyOf, K, groups, requests
  <2>. QED
    BY <1>1, <2>1, <2>2, SummaryFields
<1>7. \A d \in K : successes[d] = PagesIn({i \in {r \in rows : keyOf[r] = d} : i \in good})
  <2>1. \A d \in K : {i \in {r \in rows : keyOf[r] = d} : i \in good}
                       = {i \in {r \in rows : keyOf[r] = d} : Succeeded(i)}
    OBVIOUS
  <2>2. \A d \in K : successes[d] = groups[d].successes
    OBVIOUS
  <2>. HIDE DEF rows, keyOf, K, groups, successes, good
  <2>. QED
    BY <1>1, <2>1, <2>2, SummaryFields
<1>8. \A d \in K : amiss[d] = PagesIn({i \in {r \in rows : keyOf[r] = d} : i \in bad})
  <2>1. \A d \in K : {i \in {r \in rows : keyOf[r] = d} : i \in bad}
                       = {i \in {r \in rows : keyOf[r] = d} : Failed(i)}
    OBVIOUS
  <2>2. \A d \in K : amiss[d] = groups[d].failures
    OBVIOUS
  <2>. HIDE DEF rows, keyOf, K, groups, amiss, bad
  <2>. QED
    BY <1>1, <2>1, <2>2, SummaryFields
<1>9. /\ rows \in SUBSET rows /\ good \in SUBSET rows /\ bad \in SUBSET rows
      /\ Summary(rows) = [requests |-> PagesIn(rows), successes |-> PagesIn(good), failures |-> PagesIn(bad)]
  BY DEF Summary
<1>. HIDE DEF rows, keyOf, K, groups, good, bad
<1>10. SumFunctionOnSet(requests, K) = PagesIn(rows) /\ \A d \in K : requests[d] \in Nat
  BY <1>5, <1>6, <1>9
<1>11. SumFunctionOnSet(successes, K) = PagesIn(good)
  <2>. HIDE DEF successes
  <2>. QED
    BY <1>5, <1>7, <1>9
<1>12. SumFunctionOnSet(amiss, K) = PagesIn(bad)
  <2>. HIDE DEF amiss
  <2>. QED
    BY <1>5, <1>8, <1>9
<1>13. k.requests <= Summary(rows).requests
  <2>. DEFINE some == [d \in kept |-> groups[d].requests]
  <2>1. k.requests = SumFunctionOnSet(some, kept)
    BY <1>3 DEF SumFunction
  <2>2. IsFiniteSet(kept) /\ \A d \in kept : some[d] \in Int /\ some[d] = requests[d]
    BY <1>2, <1>4, <1>10, FS_Subset
  <2>. HIDE DEF some, requests
  <2>3. SumFunctionOnSet(some, kept) = SumFunctionOnSet(requests, kept)
    BY <2>2, SumSame
  <2>4. SumFunctionOnSet(requests, kept) <= SumFunctionOnSet(requests, K)
    BY <1>2, <1>4, <1>10, SumWithin
  <2>. QED
    BY <1>9, <1>10, <2>1, <2>3, <2>4
<1>14. Cardinality(K) <= KpiDomains => k = Summary(rows)
  <2>. HAVE Cardinality(K) <= KpiDomains
  <2>0. KpiDomains \in Int /\ Cardinality(K) \in Int /\ IsFiniteSet({KpiDomains, Cardinality(K)})
    <3>1. Cardinality(K) \in Nat
      BY <1>2, FS_CardinalityType
    <3>2. IsFiniteSet({KpiDomains} \cup {Cardinality(K)})
      BY FS_Singleton, FS_Union
    <3>3. {KpiDomains} \cup {Cardinality(K)} = {KpiDomains, Cardinality(K)}
      OBVIOUS
    <3>. QED
      BY <3>1, <3>2, <3>3, UsageAssumption
  <2>1. Min({KpiDomains, Cardinality(K)}) = Cardinality(K)
    <3>1. /\ Min({KpiDomains, Cardinality(K)}) \in {KpiDomains, Cardinality(K)}
          /\ Min({KpiDomains, Cardinality(K)}) <= Cardinality(K)
      BY <2>0, LeastAndMost
    <3>. QED
      BY <2>0, <3>1
  <2>2. kept = K
    BY <1>2, <1>4, <2>1, FS_Subset
  <2>3. k = [requests |-> SumFunction(requests), successes |-> SumFunction(successes),
             failures |-> SumFunction(amiss)]
    BY <1>3, <2>2
  <2>4. DOMAIN requests = K /\ DOMAIN successes = K /\ DOMAIN amiss = K
    OBVIOUS
  <2>. HIDE DEF requests, successes, amiss
  <2>. QED
    BY <1>9, <1>10, <1>11, <1>12, <2>3, <2>4 DEF SumFunction
<1>. QED
  BY <1>1, <1>13, <1>14 DEF rows, groups

\* What is said of one account, and of all of them.
LEMMA AccountsAgree ==
  ASSUME LogInv, NEW days \in 1..MaxHours
  PROVE  LET hours == days * DayHours
         IN  /\ Summed(ByAccount(hours)) <= Summary(Requests(hours)).requests
             /\ \A a \in {c.account : c \in Callers} :
                  LET used == AccountUsage(a, hours).requests
                  IN  /\ Summed(AccountDailyUsage(a, days)) = used
                      /\ Summed(AccountDailyUsageByOperation(a, days)) = used
                      /\ Summed(ApiKeyUsage(a, hours)) <= used
                      /\ a # Unnamed => used = 0 \/ ByAccount(hours)[a].requests = used
<1>. DEFINE hours == days * DayHours
            rows == Requests(hours)
            named == {r \in rows : rowLog[r].account # Unnamed}
<1>0. rows \in SUBSET RequestIds
  BY DEF Requests, Recent, RowsAt, RequestIds
<1>1. Summed(ByAccount(hours)) <= Summary(rows).requests
  <2>1. named \in SUBSET rows /\ named \in SUBSET RequestIds
    BY <1>0
  <2>2. Summed(ByAccount(hours)) = PagesIn(named)
    BY <2>1, SummedAgrees DEF ByAccount
  <2>. HIDE DEF rows, named
  <2>. QED
    BY <1>0, <2>1, <2>2, PagesWithin, SummaryFields
<1>2. ASSUME NEW a \in {c.account : c \in Callers}
      PROVE  LET used == AccountUsage(a, hours).requests
             IN  /\ Summed(AccountDailyUsage(a, days)) = used
                 /\ Summed(AccountDailyUsageByOperation(a, days)) = used
                 /\ Summed(ApiKeyUsage(a, hours)) <= used
                 /\ a # Unnamed => used = 0 \/ ByAccount(hours)[a].requests = used
  <2>. DEFINE own == OfAccount(a, hours)
              keyed == {r \in own : rowLog[r].key # Unnamed}
              used == AccountUsage(a, hours).requests
  <2>1. /\ own \in SUBSET RequestIds /\ keyed \in SUBSET own /\ keyed \in SUBSET RequestIds
        /\ own = {i \in rows : rowLog[i].account = a}
    BY <1>0 DEF OfAccount
  <2>2. used = PagesIn(own)
    BY SummaryFields DEF AccountUsage
  <2>3. Summed(AccountDailyUsage(a, days)) = PagesIn(own)
    BY <2>1, SummedAgrees DEF AccountDailyUsage
  <2>4. Summed(AccountDailyUsageByOperation(a, days)) = PagesIn(own)
    BY <2>1, SummedAgrees DEF AccountDailyUsageByOperation
  <2>5. Summed(ApiKeyUsage(a, hours)) = PagesIn(keyed)
    BY <2>1, SummedAgrees DEF ApiKeyUsage
  <2>6. PagesIn(keyed) <= PagesIn(own)
    BY <2>1, PagesWithin
  <2>7. ASSUME a # Unnamed PROVE used = 0 \/ ByAccount(hours)[a].requests = used
    <3>1. CASE own = {}
      <4>1. PagesIn({}) = SumFunctionOnSet(Pages, {})
        BY PagesAre
      <4>. QED
        BY <2>2, <3>1, <4>1, SumNone
    <3>2. CASE own # {}
      <4>. DEFINE keyOf == [i \in named |-> rowLog[i].account]
      <4>1. \A i \in own : i \in named /\ keyOf[i] = a
        BY <2>1, <2>7
      <4>2. a \in Range(keyOf)
        BY <3>2, <4>1 DEF Range
      <4>3. {i \in DOMAIN keyOf : keyOf[i] = a} = own
        BY <2>1, <2>7
      <4>4. ByAccount(hours) = Grouped(keyOf)
        BY DEF ByAccount
      <4>. HIDE DEF keyOf, own
      <4>5. ByAccount(hours)[a] = Summary(own)
        BY <4>2, <4>3, <4>4 DEF Grouped
      <4>. QED
        BY <2>2, <4>5, SummaryFields
    <3>. QED
      BY <3>1, <3>2
  <2>. QED
    BY <2>2, <2>3, <2>4, <2>5, <2>6, <2>7
<1>. QED
  BY <1>1, <1>2

\* Calls are counted once for all accounts.
LEMMA AiUsageAgrees ==
  ASSUME LogInv, NEW hours
  PROVE  AiUsage(hours, Unnamed) >=
           SumFunction([a \in {c.account : c \in Callers} \ {Unnamed} |-> AiUsage(hours, a)])
<1>. DEFINE calls == Recent("ai_usage_events", hours)
            K == {c.account : c \in Callers} \ {Unnamed}
            Of(a) == {i \in calls : a # Unnamed => rowLog[i].account = a}
            named == {i \in calls : rowLog[i].account \in K}
            keyOf == [i \in named |-> rowLog[i].account]
            totals == [a \in K |-> AiUsage(hours, a)]
<1>1. calls \in SUBSET DOMAIN rowLog
  BY DEF Recent, RowsAt
<1>2. IsFiniteSet(calls) /\ IsFiniteSet(named) /\ Cardinality(named) <= Cardinality(calls)
  <2>1. IsFiniteSet(calls)
    BY <1>1, RowFacts, FS_Subset
  <2>2. named \in SUBSET calls
    OBVIOUS
  <2>. HIDE DEF calls, named
  <2>. QED
    BY <2>1, <2>2, FS_Subset
<1>3. IsFiniteSet(K)
  <2>. DEFINE f == [c \in Callers |-> c.account]
  <2>1. DOMAIN f = Callers /\ Range(f) = {c.account : c \in Callers}
    BY DEF Range
  <2>. HIDE DEF f
  <2>2. IsFiniteSet({c.account : c \in Callers})
    BY <2>1, KeysAreFinite, UsageAssumption
  <2>. QED
    BY <2>2, FS_Subset
<1>4. \A i \in named : keyOf[i] \in K
  OBVIOUS
<1>5. \A a \in K : totals[a] = Cardinality({i \in named : keyOf[i] = a})
  <2>. TAKE a \in K
  <2>1. {i \in named : keyOf[i] = a} = Of(a)
    OBVIOUS
  <2>2. totals[a] = Cardinality(Of(a))
    BY DEF AiUsage
  <2>. HIDE DEF named, totals, Of
  <2>. QED
    BY <2>1, <2>2
<1>6. AiUsage(hours, Unnamed) = Cardinality(calls)
  <2>1. Of(Unnamed) = calls
    OBVIOUS
  <2>2. AiUsage(hours, Unnamed) = Cardinality(Of(Unnamed))
    BY DEF AiUsage
  <2>. HIDE DEF Of, calls
  <2>. QED
    BY <2>1, <2>2
<1>7. DOMAIN totals = K
  OBVIOUS
<1>. HIDE DEF calls, K, named, keyOf
<1>8. SumFunctionOnSet(totals, K) = Cardinality(named)
  <2>. HIDE DEF totals
  <2>. QED
    <3>1. GroupCounts(totals, K, keyOf, named)
      BY <1>5 DEF GroupCounts
    <3>. QED
      BY <1>2, <1>3, <1>4, <3>1, CountOfGroups
<1>. QED
  BY <1>2, <1>6, <1>7, <1>8 DEF SumFunction, K

\* A job's timeline against its summary, and the times of its statistics.
LEMMA JobsAgree ==
  ASSUME LogInv, NEW j \in Crawls
  PROVE  /\ \A kept \in JobTimeline(j, MaxRows) :
              Cardinality(kept) = SumFunction(JobEventSummary(j))
         /\ \A s \in JobStats(j) : s.started <= s.lastActivity
<1>1. ASSUME NEW kept \in JobTimeline(j, MaxRows)
      PROVE  Cardinality(kept) = SumFunction(JobEventSummary(j))
  <2>. DEFINE rows == {i \in RowsAt("stored", "job_events") : rowLog[i].job = j}
              keyOf == [i \in rows |-> rowLog[i].event]
              K == {rowLog[i].event : i \in rows}
  <2>1. IsFiniteSet(rows) /\ Cardinality(rows) \in Nat /\ Cardinality(rows) <= MaxRows
    <3>1. rows \in SUBSET DOMAIN rowLog
      BY DEF RowsAt
    <3>2. IsFiniteSet(rows) /\ Cardinality(rows) <= Cardinality(DOMAIN rowLog)
      BY <3>1, RowFacts, FS_Subset
    <3>3. Cardinality(rows) \in Nat /\ Cardinality(DOMAIN rowLog) \in Nat /\ MaxRows \in Nat
      BY <3>2, RowFacts, FS_CardinalityType, UsageAssumption
    <3>. HIDE DEF rows
    <3>. QED
      BY <3>2, <3>3, RowFacts
  <2>2. Cardinality(kept) = Min({MaxRows, Cardinality(rows)})
    BY DEF JobTimeline
  <2>3. Min({MaxRows, Cardinality(rows)}) = Cardinality(rows)
    <3>. HIDE DEF rows
    <3>1. IsFiniteSet({MaxRows} \cup {Cardinality(rows)})
      BY FS_Singleton, FS_Union
    <3>2. {MaxRows} \cup {Cardinality(rows)} = {MaxRows, Cardinality(rows)}
      OBVIOUS
    <3>3. MaxRows \in Int /\ Cardinality(rows) \in Int
      BY <2>1, UsageAssumption
    <3>4. /\ Min({MaxRows, Cardinality(rows)}) \in {MaxRows, Cardinality(rows)}
          /\ Min({MaxRows, Cardinality(rows)}) <= Cardinality(rows)
      BY <3>1, <3>2, <3>3, LeastAndMost
    <3>. QED
      BY <2>1, <3>3, <3>4
  <2>4. DOMAIN keyOf = rows /\ K = Range(keyOf) /\ \A i \in rows : keyOf[i] \in K
    BY DEF Range
  <2>5. /\ DOMAIN JobEventSummary(j) = K
        /\ \A e \in K : JobEventSummary(j)[e] = Cardinality({i \in rows : keyOf[i] = e})
    <3>1. JobEventSummary(j) = [e \in K |-> Cardinality({i \in rows : rowLog[i].event = e})]
      BY DEF JobEventSummary
    <3>2. \A e \in K : {i \in rows : keyOf[i] = e} = {i \in rows : rowLog[i].event = e}
      OBVIOUS
    <3>. QED
      BY <3>1, <3>2
  <2>. HIDE DEF rows, keyOf, K
  <2>6. IsFiniteSet(K)
    BY <2>1, <2>4, KeysAreFinite
  <2>7. SumFunctionOnSet(JobEventSummary(j), K) = Cardinality(rows)
    BY <2>1, <2>4, <2>5, <2>6, CountOfGroups DEF GroupCounts
  <2>. QED
    BY <2>2, <2>3, <2>5, <2>7 DEF SumFunction
<1>2. ASSUME NEW s \in JobStats(j) PROVE s.started <= s.lastActivity
  <2>. DEFINE rows == {i \in RowsAt("stored", "request_events") : rowLog[i].job = j}
              times == {rowLog[i].at : i \in rows}
  <2>1. rows # {} /\ s.started = Min(times) /\ s.lastActivity = Max(times)
    BY <1>2 DEF JobStats
  <2>2. rows \in SUBSET DOMAIN rowLog
    BY DEF RowsAt
  <2>3. IsFiniteSet(rows)
    BY <2>2, RowFacts, FS_Subset
  <2>4. times # {} /\ times \subseteq Int
    BY <2>1, <2>2, RowFacts
  <2>5. IsFiniteSet(times)
    <3>. DEFINE f == [i \in rows |-> rowLog[i].at]
    <3>1. DOMAIN f = rows /\ Range(f) = times
      BY DEF Range
    <3>. HIDE DEF f, rows, times
    <3>. QED
      BY <2>3, <3>1, KeysAreFinite
  <2>. HIDE DEF rows, times
  <2>6. Min(times) \in times /\ \A y \in times : Max(times) >= y
    BY <2>4, <2>5, LeastAndMost
  <2>7. Min(times) \in Int /\ Max(times) \in Int
    BY <2>4, <2>5, LeastAndMost
  <2>. QED
    BY <2>1, <2>6, <2>7
<1>. QED
  BY <1>1, <1>2

\* However rows are batched, lost or written, and whatever is asked: the reports over
\* the rows that are stored agree.
THEOREM ReportsTellOneStory == UsageSpec => []ReportsAgree
<1>1. UsageInit => LogInv
  BY UsageAssumption DEF UsageInit, LogInv
<1>2. LogInv /\ [UsageNext]_usageVars => LogInv'
  BY LogStep
<1>3. LogInv => ReportsAgree
  <2>. HAVE LogInv
  <2>1. \A days \in 1..MaxHours : \A k \in Kpis(days * DayHours) :
          /\ k.requests <= Summary(Requests(days * DayHours)).requests
          /\ Cardinality(DOMAIN ByDomain(days * DayHours)) <= KpiDomains
               => k = Summary(Requests(days * DayHours))
    BY KpisAgree
  <2>. QED
    BY <2>1, SpanAgrees, AccountsAgree, AiUsageAgrees, JobsAgree DEF ReportsAgree
<1>. QED
  BY <1>1, <1>2, <1>3, PTL DEF UsageSpec
=============================================================================
