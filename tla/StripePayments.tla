--------------------------- MODULE StripePayments ---------------------------
(***************************************************************************)
(* An account at Stripe (bins/scrapix-api/src/stripe.rs): its customer,    *)
(* its cards and the default one, and how a purchase of credits is charged *)
(* by an invoice.  The two parts share no state of the server's.           *)
(*                                                                         *)
(* Cards.  The account's row holds the customer and the default card; the  *)
(* cards are Stripe's.  The first request that needs a customer creates    *)
(* one at Stripe and stores it, in two steps.  A card is attached in the   *)
(* browser, and a webhook that says so makes it the default if there is    *)
(* none.                                                                   *)
(*                                                                         *)
(* Invoices.  create_and_pay_invoice, for purchase_credits and             *)
(* charge_auto_topup, adds an item to the customer, then makes an invoice  *)
(* of all items that are pending, its own or not, finalises it and pays    *)
(* it.  Two purchases that run together may thus end up on the one's       *)
(* invoice: the other's has no item, costs nothing and is paid at once.    *)
(*                                                                         *)
(* Abstractions.  One account: an intent or a card names its customer, and *)
(* every purchase is of one pack.  A request that fails, or whose client   *)
(* hangs up, ends where it is.  That an invoice's credits are granted once *)
(* is CreditLedger's.                                                      *)
(***************************************************************************)
EXTENDS Naturals, FiniteSets

-----------------------------------------------------------------------------
(* The customer and its cards.                                             *)

CONSTANTS
  CardCalls, Cards,
  NoCard,       \* no default
  MaxCardFaults \* bound: requests that end half-way

ASSUME CardsAssumption == MaxCardFaults \in Nat

VARIABLES
  stored,       \* accounts.stripe_customer_id, 0 for NULL
  customers,    \* customers created at Stripe
  defaultCard,  \* accounts.stripe_default_payment_method_id
  cards,        \* card -> "new", "attached" or "detached", and its customer
  intents,      \* customers for whom a setup intent is open
  notices,      \* cards whose setup_intent.succeeded is to be delivered
  cardCalls,    \* call -> where its handler is
  together,     \* two calls were creating a customer at once
  excused,      \* cards made the default when they were gone, or half deleted
  cardFaults

cardVars == <<stored, customers, defaultCard, cards, intents, notices, cardCalls, together,
              excused, cardFaults>>

CardCall == [op : {"none", "setup", "delete"},
             step : {"start", "create", "store", "offer", "detach", "read", "clear", "done"},
             customer : 0..Cardinality(CardCalls), card : Cards \cup {NoCard}]

CardsInit ==
  /\ stored = 0 /\ customers = 0 /\ defaultCard = NoCard
  /\ cards = [c \in Cards |-> [state |-> "new", customer |-> 0]]
  /\ intents = {} /\ notices = {}
  /\ cardCalls = [r \in CardCalls |-> [op |-> "none", step |-> "start", customer |-> 0,
                                       card |-> NoCard]]
  /\ together = FALSE /\ excused = {} /\ cardFaults = 0

AtStep(r, op, step) == cardCalls[r].op = op /\ cardCalls[r].step = step

GoTo(r, step) == cardCalls' = [cardCalls EXCEPT ![r].step = step]

Creating == {r \in CardCalls : cardCalls[r].step \in {"create", "store"}}

\* create_setup_intent, and any purchase: get_or_create_customer looks first.
LookUpCustomer_AlwaysCreatesMutant(r) ==
  /\ AtStep(r, "none", "start")
  /\ cardCalls' = [cardCalls EXCEPT ![r] = [op |-> "setup", step |-> "create", customer |-> 0,
                                            card |-> NoCard]]
  /\ together' = (together \/ Creating # {})
  /\ UNCHANGED <<stored, customers, defaultCard, cards, intents, notices, excused, cardFaults>>

LookUpCustomer(r) ==
  /\ AtStep(r, "none", "start")
  /\ cardCalls' = [cardCalls EXCEPT ![r] =
                     [op |-> "setup", step |-> IF stored = 0 THEN "create" ELSE "offer",
                      customer |-> stored, card |-> NoCard]]
  /\ together' = (together \/ (stored = 0 /\ Creating # {}))
  /\ UNCHANGED <<stored, customers, defaultCard, cards, intents, notices, excused, cardFaults>>

CreateCustomer(r) ==
  /\ AtStep(r, "setup", "create")
  /\ customers' = customers + 1
  /\ cardCalls' = [cardCalls EXCEPT ![r].step = "store", ![r].customer = customers + 1]
  /\ UNCHANGED <<stored, defaultCard, cards, intents, notices, together, excused, cardFaults>>

StoreCustomer(r) ==
  /\ AtStep(r, "setup", "store")
  /\ stored' = cardCalls[r].customer /\ GoTo(r, "offer")
  /\ UNCHANGED <<customers, defaultCard, cards, intents, notices, together, excused, cardFaults>>

OfferSetup(r) ==
  /\ AtStep(r, "setup", "offer")
  /\ intents' = intents \cup {cardCalls[r].customer} /\ GoTo(r, "done")
  /\ UNCHANGED <<stored, customers, defaultCard, cards, notices, together, excused, cardFaults>>

\* The user enters a card, at Stripe.
AttachCard(c, customer) ==
  /\ customer \in intents /\ cards[c].state = "new"
  /\ cards' = [cards EXCEPT ![c] = [state |-> "attached", customer |-> customer]]
  /\ notices' = notices \cup {c}
  /\ UNCHANGED <<stored, customers, defaultCard, intents, cardCalls, together, excused, cardFaults>>

MakeDefault(c) ==
  /\ defaultCard' = c
  /\ excused' = IF cards[c].state = "detached" THEN excused \cup {c} ELSE excused

\* handle_setup_intent_succeeded; Stripe may deliver the event again, and late.
SetupSucceeded(c, again) ==
  /\ c \in notices
  /\ notices' = IF again THEN notices ELSE notices \ {c}
  /\ IF defaultCard = NoCard THEN MakeDefault(c) ELSE UNCHANGED <<defaultCard, excused>>
  /\ UNCHANGED <<stored, customers, cards, intents, cardCalls, together, cardFaults>>

\* set_default_payment_method: whatever card the browser still shows.
SetDefaultCard(c) ==
  /\ cards[c].state # "new" /\ defaultCard # c
  /\ MakeDefault(c)
  /\ UNCHANGED <<stored, customers, cards, intents, notices, cardCalls, together, cardFaults>>

\* delete_payment_method: the card must be the stored customer's.
CheckOwner(r, c) ==
  /\ AtStep(r, "none", "start")
  /\ stored # 0 /\ cards[c] = [state |-> "attached", customer |-> stored]
  /\ cardCalls' = [cardCalls EXCEPT ![r] = [op |-> "delete", step |-> "detach",
                                            customer |-> stored, card |-> c]]
  /\ UNCHANGED <<stored, customers, defaultCard, cards, intents, notices, together, excused,
                 cardFaults>>

\* Stripe refuses to detach a card twice.
DetachCard(r) ==
  LET c == cardCalls[r].card
  IN  /\ AtStep(r, "delete", "detach")
      /\ IF cards[c].state = "attached"
         THEN cards' = [cards EXCEPT ![c].state = "detached"] /\ GoTo(r, "read")
         ELSE UNCHANGED cards /\ GoTo(r, "done")
      /\ UNCHANGED <<stored, customers, defaultCard, intents, notices, together, excused,
                     cardFaults>>

ReadDefault(r) ==
  /\ AtStep(r, "delete", "read")
  /\ GoTo(r, IF defaultCard = cardCalls[r].card THEN "clear" ELSE "done")
  /\ UNCHANGED <<stored, customers, defaultCard, cards, intents, notices, together, excused,
                 cardFaults>>

\* Whatever the default is by now.
ForgetDefault(r) ==
  /\ AtStep(r, "delete", "clear")
  /\ defaultCard' = NoCard /\ GoTo(r, "done")
  /\ UNCHANGED <<stored, customers, cards, intents, notices, together, excused, cardFaults>>

\* An error, also one of the two statements whose result is ignored.
CardCallEnds(r) ==
  /\ cardCalls[r].step \notin {"start", "done"}
  /\ cardFaults < MaxCardFaults /\ cardFaults' = cardFaults + 1 /\ GoTo(r, "done")
  /\ excused' = IF cardCalls[r].step \in {"read", "clear"} THEN excused \cup {cardCalls[r].card}
                ELSE excused
  /\ UNCHANGED <<stored, customers, defaultCard, cards, intents, notices, together>>

CardsNext ==
  \/ \E r \in CardCalls :
       \/ LookUpCustomer(r) \/ CreateCustomer(r) \/ StoreCustomer(r) \/ OfferSetup(r)
       \/ \E c \in Cards : CheckOwner(r, c)
       \/ DetachCard(r) \/ ReadDefault(r) \/ ForgetDefault(r) \/ CardCallEnds(r)
  \/ \E c \in Cards : \/ \E customer \in intents : AttachCard(c, customer)
                      \/ \E again \in BOOLEAN : SetupSucceeded(c, again)
                      \/ SetDefaultCard(c)

\* list_payment_methods
Listed == {c \in Cards : stored # 0 /\ cards[c] = [state |-> "attached", customer |-> stored]}

-----------------------------------------------------------------------------
CardsTypeOK ==
  /\ stored \in 0..Cardinality(CardCalls) /\ customers \in 0..Cardinality(CardCalls)
  /\ defaultCard \in Cards \cup {NoCard}
  /\ cards \in [Cards -> [state : {"new", "attached", "detached"},
                          customer : 0..Cardinality(CardCalls)]]
  /\ intents \subseteq 1..Cardinality(CardCalls) /\ notices \subseteq Cards
  /\ cardCalls \in [CardCalls -> CardCall]
  /\ together \in BOOLEAN /\ excused \subseteq Cards /\ cardFaults \in 0..MaxCardFaults

Deleting(c) == \E r \in CardCalls : cardCalls[r].card = c /\ cardCalls[r].step \in {"read", "clear"}

\* A card on file is shown to its owner, unless two requests created a customer
\* at the same time (get_or_create_customer); and a deleted card, which would
\* fail every automatic top-up, is not left as the default, unless someone chose
\* it after it was gone or its deletion was cut short (delete_payment_method).
CardsStayInView ==
  /\ ~together => \A c \in Cards : cards[c].state = "attached" => c \in Listed
  /\ defaultCard # NoCard /\ cards[defaultCard].state = "detached"
       => defaultCard \in excused \/ Deleting(defaultCard)

-----------------------------------------------------------------------------
(* Purchases and their invoices.                                           *)

CONSTANTS
  Purchases,
  MaxInvoiceFaults \* bound: handlers that end half-way

ASSUME InvoicesAssumption == MaxInvoiceFaults \in Nat

VARIABLES
  buying,        \* purchase -> the step its handler is at
  pendingItems,  \* purchases whose item is on no invoice yet
  invoiceItems,  \* purchase -> the items on its invoice
  invoice,       \* purchase -> the state of its invoice
  paidHooks,     \* purchases whose invoice.paid is to be delivered
  granted,       \* purchases whose credits were added
  broken,        \* purchases whose handler failed or was dropped
  invoiceFaults

invoiceVars == <<buying, pendingItems, invoiceItems, invoice, paidHooks, granted, broken,
                 invoiceFaults>>

BuyingSteps == {"start", "item", "draft", "finalize", "pay", "grant", "done"}

InvoicesInit ==
  /\ buying = [p \in Purchases |-> "start"]
  /\ pendingItems = {} /\ invoiceItems = [p \in Purchases |-> {}]
  /\ invoice = [p \in Purchases |-> "none"]
  /\ paidHooks = {} /\ granted = {} /\ broken = {} /\ invoiceFaults = 0

BuyStep(p, from, to) == buying[p] = from /\ buying' = [buying EXCEPT ![p] = to]

\* The customer and the card are known.
StartPurchase(p) ==
  /\ BuyStep(p, "start", "item")
  /\ UNCHANGED <<pendingItems, invoiceItems, invoice, paidHooks, granted, broken, invoiceFaults>>

CreateItem(p) ==
  /\ BuyStep(p, "item", "draft") /\ pendingItems' = pendingItems \cup {p}
  /\ UNCHANGED <<invoiceItems, invoice, paidHooks, granted, broken, invoiceFaults>>

\* pending_invoice_items_behavior = include
CreateInvoice(p) ==
  /\ BuyStep(p, "draft", "finalize")
  /\ invoiceItems' = [invoiceItems EXCEPT ![p] = pendingItems] /\ pendingItems' = {}
  /\ invoice' = [invoice EXCEPT ![p] = "draft"]
  /\ UNCHANGED <<paidHooks, granted, broken, invoiceFaults>>

\* What becomes of an invoice that is charged: paid, of necessity if nothing is due.
Charged(p, outcome) ==
  /\ invoiceItems[p] = {} => outcome = "paid"
  /\ invoice' = [invoice EXCEPT ![p] = outcome]
  /\ paidHooks' = IF outcome = "paid" THEN paidHooks \cup {p} ELSE paidHooks

\* With a default card on the invoice, finalising it charges it already.
FinalizeInvoice(p, outcome) ==
  /\ BuyStep(p, "finalize", "pay")
  /\ outcome \in {"open", "paid"} /\ Charged(p, outcome)
  /\ UNCHANGED <<pendingItems, invoiceItems, granted, broken, invoiceFaults>>

\* "Invoice is already paid" is as good as paying it.
PayInvoice(p, outcome) ==
  /\ outcome \in {"paid", "authenticate"}
  /\ BuyStep(p, "pay", IF outcome = "paid" THEN "grant" ELSE "done")
  /\ IF invoice[p] = "paid" THEN outcome = "paid" /\ UNCHANGED <<invoice, paidHooks>>
     ELSE Charged(p, outcome)
  /\ UNCHANGED <<pendingItems, invoiceItems, granted, broken, invoiceFaults>>

\* Not paid: "Payment failed".
PaymentDeclined(p) ==
  /\ BuyStep(p, "pay", "done")
  /\ invoice[p] = "open" /\ invoiceItems[p] # {}
  /\ UNCHANGED <<pendingItems, invoiceItems, invoice, paidHooks, granted, broken, invoiceFaults>>

GrantCredits_UncheckedMutant(p) ==
  /\ \/ BuyStep(p, "grant", "done") \/ BuyStep(p, "pay", "done")
  /\ granted' = granted \cup {p}
  /\ UNCHANGED <<pendingItems, invoiceItems, invoice, paidHooks, broken, invoiceFaults>>

GrantCredits(p) ==
  /\ BuyStep(p, "grant", "done") /\ granted' = granted \cup {p}
  /\ UNCHANGED <<pendingItems, invoiceItems, invoice, paidHooks, broken, invoiceFaults>>

\* The user passes the bank's check in the browser.
Authenticate(p) ==
  /\ invoice[p] = "authenticate" /\ Charged(p, "paid")
  /\ UNCHANGED <<buying, pendingItems, invoiceItems, granted, broken, invoiceFaults>>

\* handle_invoice_paid
InvoicePaid(p) ==
  /\ p \in paidHooks /\ paidHooks' = paidHooks \ {p} /\ granted' = granted \cup {p}
  /\ UNCHANGED <<buying, pendingItems, invoiceItems, invoice, broken, invoiceFaults>>

\* A call to Stripe fails, or the client hangs up.
PurchaseBreaks(p) ==
  /\ buying[p] \notin {"start", "done"} /\ invoiceFaults < MaxInvoiceFaults
  /\ buying' = [buying EXCEPT ![p] = "done"]
  /\ broken' = broken \cup {p} /\ invoiceFaults' = invoiceFaults + 1
  /\ UNCHANGED <<pendingItems, invoiceItems, invoice, paidHooks, granted>>

InvoicesNext ==
  \E p \in Purchases :
    \/ StartPurchase(p) \/ CreateItem(p) \/ CreateInvoice(p)
    \/ \E outcome \in {"open", "paid", "authenticate"} : \/ FinalizeInvoice(p, outcome)
                                                         \/ PayInvoice(p, outcome)
    \/ PaymentDeclined(p) \/ GrantCredits(p) \/ Authenticate(p) \/ InvoicePaid(p)
    \/ PurchaseBreaks(p)

-----------------------------------------------------------------------------
InvoicesTypeOK ==
  /\ buying \in [Purchases -> BuyingSteps] /\ pendingItems \subseteq Purchases
  /\ invoiceItems \in [Purchases -> SUBSET Purchases]
  /\ invoice \in [Purchases -> {"none", "draft", "open", "authenticate", "paid"}]
  /\ paidHooks \subseteq Purchases /\ granted \subseteq Purchases
  /\ broken \subseteq Purchases /\ invoiceFaults \in 0..MaxInvoiceFaults

PaidItems == UNION {invoiceItems[p] : p \in {q \in Purchases : invoice[q] = "paid"}}

TakenItems == UNION {invoiceItems[p] \ {p} : p \in Purchases}

\* Money and credits, of purchases that may run together and may fail (the items
\* that create_and_pay_invoice includes).  An item is on one invoice at most.
\* Credits are granted for a paid item, or for one that another purchase's
\* invoice took away.  And who pays has the credits in the end: an item is paid
\* and nothing granted only while its purchase, or the webhook of its invoice,
\* is under way, if its handler broke off, or if its own invoice, with another's
\* item on it, was not paid.
GrantsArePaid ==
  /\ \A p, q \in Purchases : p # q => invoiceItems[p] \cap invoiceItems[q] = {}
  /\ \A p \in granted : p \in PaidItems \/ p \in TakenItems
  /\ \A p \in PaidItems \ granted :
       buying[p] # "done" \/ p \in paidHooks \/ p \in broken \/ invoice[p] # "paid"

=============================================================================
