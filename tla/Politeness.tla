----------------------------- MODULE Politeness -----------------------------
(***************************************************************************)
(* PolitenessScheduler (crates/scrapix-frontier/src/politeness.rs): the    *)
(* per-domain delay, concurrency limit, adaptive backoff and pause.        *)
(*                                                                         *)
(* The module holds the state, domains, and one operator per method; every *)
(* method takes the lock once and is therefore one atomic step.  Frontier  *)
(* instantiates it, PolitenessSpec checks the whole interface on its own.  *)
(*                                                                         *)
(* Abstractions.  Instants are replaced by the time elapsed since the last *)
(* request, which Elapse advances for every domain and which stops at      *)
(* MaxDelay: no delay is longer, so no comparison can tell the difference. *)
(* A new state's last_request lies 60 s in the past, more than the longest *)
(* delay, hence since = MaxDelay.  Delays are whole units and the f64      *)
(* products are the truncated ones the code computes.                      *)
(*                                                                         *)
(* A definition named ...Mutant is the one that follows it with a bug: a   *)
(* run in which it takes the other's place must break a property.          *)
(***************************************************************************)
EXTENDS Naturals

CONSTANTS
  Domains,       \* the hosts that URLs belong to
  Untracked,     \* marks a domain the scheduler holds no state for
  DefaultDelay,  \* config.default_delay_ms
  MinDelay,      \* config.min_delay_ms
  MaxDelay,      \* config.max_delay_ms
  Concurrent,    \* config.concurrent_per_domain
  BackoffAfter,  \* consecutive errors that lengthen the delay   (3 in the code)
  PauseAfter     \* consecutive errors that pause the domain    (10 in the code)

ASSUME PolitenessAssumption ==
  /\ DefaultDelay \in Nat /\ MinDelay \in Nat /\ MaxDelay \in Nat
  /\ DefaultDelay <= MaxDelay /\ MinDelay <= MaxDelay
  /\ Concurrent \in Nat \ {0}
  /\ BackoffAfter \in Nat \ {0} /\ PauseAfter \in Nat \ {0}

VARIABLE domains

DomainState ==
  [since              : 0..MaxDelay,
   delay              : 0..MaxDelay,
   in_flight          : Nat,
   paused             : BOOLEAN,
   consecutive_errors : Nat]

ASSUME UntrackedAssumption == Untracked \notin DomainState

DomainsType == [Domains -> DomainState \cup {Untracked}]

-----------------------------------------------------------------------------
\* DomainState::new
NewState(delay) ==
  [since |-> MaxDelay, delay |-> delay, in_flight |-> 0,
   paused |-> FALSE, consecutive_errors |-> 0]

Tracked(d) == domains[d] # Untracked

\* What start_request, set_delay and pause_domain modify: the state of the
\* domain, created on first use.
StateOf(d) == IF Tracked(d) THEN domains[d] ELSE NewState(DefaultDelay)

PolitenessInit == domains = [d \in Domains |-> Untracked]

-----------------------------------------------------------------------------
CanFetch(d) ==
  Tracked(d) => /\ ~domains[d].paused
                /\ domains[d].in_flight < Concurrent
                /\ domains[d].since >= domains[d].delay

StartRequest(d) ==
  domains' = [domains EXCEPT
    ![d] = [StateOf(d) EXCEPT !.in_flight = @ + 1, !.since = 0]]

\* usize::saturating_sub(1)
Released(n) == IF n = 0 THEN 0 ELSE n - 1

\* The delay shrinks by a tenth, down to the default, and never below it.
Recovered(delay) ==
  LET shorter == (9 * delay) \div 10
  IN  IF delay <= DefaultDelay THEN delay
      ELSE IF shorter >= DefaultDelay THEN shorter ELSE DefaultDelay

\* The delay grows by half, up to the maximum.
BackedOff(delay) ==
  LET longer == (3 * delay) \div 2
  IN  IF longer <= MaxDelay THEN longer ELSE MaxDelay

CompleteRequest_LeakMutant(d) ==
  IF Tracked(d)
  THEN domains' = [domains EXCEPT ![d].consecutive_errors = 0, ![d].delay = Recovered(@)]
  ELSE UNCHANGED domains

CompleteRequest(d) ==
  IF Tracked(d)
  THEN domains' = [domains EXCEPT
         ![d].in_flight = Released(@),
         ![d].consecutive_errors = 0,
         ![d].delay = Recovered(@)]
  ELSE UNCHANGED domains

FailedRequest(d, isRateLimited) ==
  IF Tracked(d)
  THEN LET errors == domains[d].consecutive_errors + 1
       IN  domains' = [domains EXCEPT
             ![d].in_flight = Released(@),
             ![d].consecutive_errors = errors,
             ![d].delay = IF isRateLimited \/ errors >= BackoffAfter
                          THEN BackedOff(@) ELSE @,
             ![d].paused = @ \/ errors >= PauseAfter]
  ELSE UNCHANGED domains

\* The clamp of set_delay, after the robots multiplier (1.0 in the service).
Clamped(delay) ==
  IF delay < MinDelay THEN MinDelay ELSE IF delay > MaxDelay THEN MaxDelay ELSE delay

SetDelay(d, delay) ==
  domains' = [domains EXCEPT
    ![d] = [StateOf(d) EXCEPT !.delay = Clamped(delay)]]

PauseDomain(d) ==
  domains' = [domains EXCEPT ![d] = [StateOf(d) EXCEPT !.paused = TRUE]]

ResumeDomain(d) ==
  /\ Tracked(d)
  /\ domains' = [domains EXCEPT ![d].paused = FALSE, ![d].consecutive_errors = 0]

ClearDomain(d) == domains' = [domains EXCEPT ![d] = Untracked]

\* One unit of time passes for every domain.
Elapse ==
  /\ \E d \in Domains : Tracked(d) /\ domains[d].since < MaxDelay
  /\ domains' = [d \in Domains |->
       IF Tracked(d) /\ domains[d].since < MaxDelay
       THEN [domains[d] EXCEPT !.since = @ + 1]
       ELSE domains[d]]

=============================================================================
