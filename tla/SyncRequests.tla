---------------------------- MODULE SyncRequests ----------------------------
(***************************************************************************)
(* The requests that the API answers itself (scrape_url, search_url and    *)
(* map_url in bins/scrapix-api/src/lib.rs) and how they are paid for: the  *)
(* balance is looked at before the work and reduced after it, and a        *)
(* reduction that fails is only logged.  A scrape may call a model, twice  *)
(* at once, through a client with a limited number of permits              *)
(* (crates/scrapix-ai/src/client.rs).                                      *)
(*                                                                         *)
(* Abstractions.  One account.  What a request does to its page is left    *)
(* out; so is what a top-up costs, which is in CreditLedger.  A response   *)
(* of the model and the record of its use are one step.                    *)
(***************************************************************************)
EXTENDS Naturals, FiniteSets

CONSTANTS
  Callers,      \* what the server handles at once
  BasePrice,    \* kind of request -> what it costs without calls to the model
  AiKinds,      \* kinds of calls to the model
  AiPrice,      \* what one of them adds to the price
  AiPermits,    \* max_concurrent_requests
  AiTries,      \* max_retries
  Purse,        \* the balance at first
  Refill,       \* the amount of a top-up
  MaxArrivals, MaxRefills, MaxDebitErrors  \* bounds

ASSUME SyncRequestsAssumption ==
  /\ IsFiniteSet(Callers) /\ IsFiniteSet(AiKinds)
  /\ BasePrice \in [{"scrape", "search", "map"} -> Nat]
  /\ AiPrice \in Nat /\ AiPermits \in Nat /\ AiTries \in Nat \ {0}
  /\ Purse \in Nat /\ Refill \in Nat
  /\ MaxArrivals \in Nat /\ MaxRefills \in Nat /\ MaxDebitErrors \in Nat

VARIABLES
  purse,       \* accounts.credits_balance
  request,     \* caller -> where its request is, and what it costs
  aiCall,      \* caller -> kind -> where the call is, and its attempts
  debits,      \* history: caller -> how often its request was paid for
  overlapped,  \* history: caller -> somebody else paid since its check
  logged,      \* successes in the log of requests
  used,        \* records of the use of the model
  arrivals, refills, debitErrors

syncVars == <<purse, request, aiCall, debits, overlapped, logged, used, arrivals, refills,
              debitErrors>>

RequestPlaces == {"none", "work", "ai", "deduct", "topup", "free", "paid"}
AiPlaces == {"none", "queued", "calling", "done", "failed"}

NoRequest == [at |-> "none", kind |-> "scrape", price |-> 0]
NoAi == [a \in AiKinds |-> [at |-> "none", tries |-> 0]]

\* At least one credit.
Price(kind, ai) ==
  LET sum == BasePrice[kind] + AiPrice * Cardinality(ai) IN IF sum = 0 THEN 1 ELSE sum

Move(c, place) == request' = [request EXCEPT ![c].at = place]

SyncInit ==
  /\ purse = Purse
  /\ request = [c \in Callers |-> NoRequest] /\ aiCall = [c \in Callers |-> NoAi]
  /\ debits = [c \in Callers |-> 0] /\ overlapped = [c \in Callers |-> FALSE]
  /\ logged = 0 /\ used = 0 /\ arrivals = 0 /\ refills = 0 /\ debitErrors = 0

-----------------------------------------------------------------------------

\* check_credits
CanPay_Mutant(price) == purse >= 1

CanPay(price) == purse >= price

SendRequest(c) ==
  /\ request[c].at = "none" /\ arrivals < MaxArrivals
  /\ \E kind \in DOMAIN BasePrice, ai \in SUBSET AiKinds :
       /\ kind # "scrape" => ai = {}
       /\ CanPay(Price(kind, ai))
       /\ request' = [request EXCEPT
            ![c] = [at |-> "work", kind |-> kind, price |-> Price(kind, ai)]]
       /\ aiCall' = [aiCall EXCEPT
            ![c] = [a \in AiKinds |-> [at |-> IF a \in ai THEN "queued" ELSE "none", tries |-> 0]]]
  /\ debits' = [debits EXCEPT ![c] = 0] /\ overlapped' = [overlapped EXCEPT ![c] = FALSE]
  /\ arrivals' = arrivals + 1
  /\ UNCHANGED <<purse, logged, used, refills, debitErrors>>

\* The page is fetched, or the search was answered.  A page without text, or a
\* server without a model, skips the calls, which are paid for all the same.
WorkDone(c) ==
  /\ request[c].at = "work"
  /\ \/ Move(c, "ai") /\ UNCHANGED <<aiCall, logged>>
     \/ Move(c, "deduct") /\ aiCall' = [aiCall EXCEPT ![c] = NoAi] /\ logged' = logged + 1
  /\ UNCHANGED <<purse, debits, overlapped, used, arrivals, refills, debitErrors>>

\* The request is not valid, the fetch fails, or the page is no success.
WorkFails(c) ==
  /\ request[c].at = "work"
  /\ request' = [request EXCEPT ![c] = NoRequest] /\ aiCall' = [aiCall EXCEPT ![c] = NoAi]
  /\ UNCHANGED <<purse, debits, overlapped, logged, used, arrivals, refills, debitErrors>>

-----------------------------------------------------------------------------
(* Calls of the model                                                      *)

Calling == {p \in Callers \X AiKinds : aiCall[p[1]][p[2]].at = "calling"}

Acquire(c, a) ==
  /\ request[c].at = "ai" /\ aiCall[c][a].at = "queued"
  /\ Cardinality(Calling) < AiPermits
  /\ aiCall' = [aiCall EXCEPT ![c][a] = [at |-> "calling", tries |-> 1]]
  /\ UNCHANGED <<purse, request, debits, overlapped, logged, used, arrivals, refills, debitErrors>>

Responds(c, a) ==
  /\ aiCall[c][a].at = "calling"
  /\ aiCall' = [aiCall EXCEPT ![c][a].at = "done"] /\ used' = used + 1
  /\ UNCHANGED <<purse, request, debits, overlapped, logged, arrivals, refills, debitErrors>>

\* The permit is kept while it waits for the next attempt.
CallFails(c, a) ==
  /\ aiCall[c][a].at = "calling"
  /\ \/ aiCall[c][a].tries < AiTries /\ aiCall' = [aiCall EXCEPT ![c][a].tries = @ + 1]
     \/ aiCall' = [aiCall EXCEPT ![c][a].at = "failed"]
  /\ UNCHANGED <<purse, request, debits, overlapped, logged, used, arrivals, refills, debitErrors>>

\* The answer has what succeeded.
CallsEnd(c) ==
  /\ request[c].at = "ai"
  /\ \A a \in AiKinds : aiCall[c][a].at \notin {"queued", "calling"}
  /\ Move(c, "deduct") /\ aiCall' = [aiCall EXCEPT ![c] = NoAi] /\ logged' = logged + 1
  /\ UNCHANGED <<purse, debits, overlapped, used, arrivals, refills, debitErrors>>

-----------------------------------------------------------------------------
(* Payment                                                                 *)

Overlaps(others) == overlapped' = [c \in Callers |-> overlapped[c] \/ c \in others]

Pay(c) ==
  /\ request[c].at = "deduct" /\ purse >= request[c].price
  /\ purse' = purse - request[c].price /\ Move(c, "topup")
  /\ debits' = [debits EXCEPT ![c] = @ + 1] /\ Overlaps(Callers \ {c})
  /\ UNCHANGED <<aiCall, logged, used, arrivals, refills, debitErrors>>

\* Only a warning.
CannotPay(c) ==
  /\ request[c].at = "deduct" /\ purse < request[c].price
  /\ Move(c, "free")
  /\ UNCHANGED <<purse, aiCall, debits, overlapped, logged, used, arrivals, refills, debitErrors>>

DebitFails(c) ==
  /\ request[c].at = "deduct" /\ debitErrors < MaxDebitErrors
  /\ debitErrors' = debitErrors + 1 /\ Move(c, "free")
  /\ UNCHANGED <<purse, aiCall, debits, overlapped, logged, used, arrivals, refills>>

\* maybe_auto_topup
TopUpOrNot(c) ==
  /\ request[c].at = "topup"
  /\ \/ refills < MaxRefills /\ refills' = refills + 1 /\ purse' = purse + Refill
     \/ UNCHANGED <<refills, purse>>
  /\ Move(c, "paid")
  /\ UNCHANGED <<aiCall, debits, overlapped, logged, used, arrivals, debitErrors>>

AnswerCaller(c) ==
  /\ request[c].at \in {"free", "paid"}
  /\ request' = [request EXCEPT ![c] = NoRequest]
  /\ UNCHANGED <<purse, aiCall, debits, overlapped, logged, used, arrivals, refills, debitErrors>>

\* The client disconnects: the handler ends where it waits.
Disconnect(c) ==
  /\ request[c].at # "none"
  /\ request' = [request EXCEPT ![c] = NoRequest] /\ aiCall' = [aiCall EXCEPT ![c] = NoAi]
  /\ UNCHANGED <<purse, debits, overlapped, logged, used, arrivals, refills, debitErrors>>

\* A crawl job is billed.
BillCrawl ==
  /\ \E n \in 1 .. purse : purse' = purse - n
  /\ Overlaps(Callers)
  /\ UNCHANGED <<request, aiCall, debits, logged, used, arrivals, refills, debitErrors>>

SyncNext ==
  \/ BillCrawl
  \/ \E c \in Callers :
       \/ SendRequest(c) \/ WorkDone(c) \/ WorkFails(c) \/ CallsEnd(c)
       \/ Pay(c) \/ CannotPay(c) \/ DebitFails(c) \/ TopUpOrNot(c)
       \/ AnswerCaller(c) \/ Disconnect(c)
       \/ \E a \in AiKinds : Acquire(c, a) \/ Responds(c, a) \/ CallFails(c, a)

SyncSpec == SyncInit /\ [][SyncNext]_syncVars

-----------------------------------------------------------------------------

SyncTypeOK ==
  /\ purse \in Nat
  /\ request \in [Callers -> [at : RequestPlaces, kind : DOMAIN BasePrice, price : Nat]]
  /\ aiCall \in [Callers -> [AiKinds -> [at : AiPlaces, tries : 0 .. AiTries]]]
  /\ debits \in [Callers -> Nat] /\ overlapped \in [Callers -> BOOLEAN]
  /\ logged \in Nat /\ used \in Nat /\ arrivals \in Nat /\ refills \in Nat /\ debitErrors \in Nat

\* Work is answered without being paid for only if somebody else paid between
\* the check and the deduction, or the database failed; and it is never paid for
\* twice, or before it is done.  (scrape_url and search_url: the first check is
\* a "soft UX check", and the deduction's error does not stop the answer.)
FreeWorkOverlapped ==
  \A c \in Callers :
    /\ request[c].at \in {"work", "ai", "deduct", "free"} => debits[c] = 0
    /\ request[c].at \in {"topup", "paid"} => debits[c] = 1
    /\ request[c].at = "free" => overlapped[c] \/ debitErrors > 0

=============================================================================
