--------------------------- MODULE PolitenessSpec ---------------------------
(***************************************************************************)
(* The whole interface of PolitenessScheduler under the one caller it has: *)
(* a collector that asks can_fetch before start_request, any number of     *)
(* requests outstanding, answers in any order, and an operator who pauses, *)
(* resumes, clears or re-configures a domain at any moment.                *)
(*                                                                         *)
(* outstanding[d] counts the requests that were started and not yet        *)
(* answered: what in_flight is meant to be.                                *)
(***************************************************************************)
EXTENDS Politeness

CONSTANTS
  RobotsDelays,    \* the crawl-delays that set_delay is called with
  MaxOutstanding,  \* bound: requests outstanding per domain
  MaxErrors        \* bound: consecutive errors counted per domain

ASSUME RobotsAssumption == RobotsDelays \subseteq Nat

VARIABLE outstanding

vars == <<domains, outstanding>>

Init == PolitenessInit /\ outstanding = [d \in Domains |-> 0]

Begin(d) ==
  /\ CanFetch(d) /\ outstanding[d] < MaxOutstanding
  /\ StartRequest(d)
  /\ outstanding' = [outstanding EXCEPT ![d] = @ + 1]

Succeed(d) ==
  /\ outstanding[d] > 0
  /\ CompleteRequest(d)
  /\ outstanding' = [outstanding EXCEPT ![d] = @ - 1]

Fail(d, isRateLimited) ==
  /\ outstanding[d] > 0
  /\ Tracked(d) => domains[d].consecutive_errors < MaxErrors
  /\ FailedRequest(d, isRateLimited)
  /\ outstanding' = [outstanding EXCEPT ![d] = @ - 1]

Operate(d) ==
  /\ \/ PauseDomain(d)
     \/ ResumeDomain(d)
     \/ ClearDomain(d)
     \/ \E delay \in RobotsDelays : SetDelay(d, delay)
  /\ UNCHANGED outstanding

Pass == Elapse /\ UNCHANGED outstanding

Next ==
  \/ \E d \in Domains :
       \/ Begin(d)
       \/ Succeed(d)
       \/ \E isRateLimited \in BOOLEAN : Fail(d, isRateLimited)
       \/ Operate(d)
  \/ Pass

Spec == Init /\ [][Next]_vars

-----------------------------------------------------------------------------
\* Every variable has its type.
TypeOK == domains \in DomainsType /\ outstanding \in [Domains -> Nat]

\* The scheduler never counts a request that is not there.  An over-count
\* would never be paid back: once Concurrent slots leaked, can_fetch would
\* refuse the domain forever.  clear_domain between a start and its answer is
\* the case that makes in_flight and the truth differ; saturating_sub and the
\* absent-domain branches are what keep the difference on the safe side.
NeverOvercounts ==
  \A d \in Domains : Tracked(d) => domains[d].in_flight <= outstanding[d]

\* Backoff and recovery stay inside the configured band: whatever the order of
\* failures, rate limits, successes and robots delays, a delay is never above
\* the maximum and never below both the default and the minimum.
DelayInBand ==
  \A d \in Domains : Tracked(d) =>
    /\ domains[d].delay <= MaxDelay
    /\ domains[d].delay >= DefaultDelay \/ domains[d].delay >= MinDelay

\* A paused domain has no new request and stays paused, or an operator wakes it.
StaysPaused(d) ==
  (Tracked(d) /\ domains[d].paused) =>
     \/ outstanding'[d] <= outstanding[d] /\ Tracked(d)' /\ domains'[d].paused
     \/ ResumeDomain(d)
     \/ ClearDomain(d)

\* A domain paused after too many errors is not fetched again until somebody
\* resumes or clears it: late answers to requests that were in flight when it
\* was paused reset the error count but do not wake the domain.
PausedUntilResumed == [][\A d \in Domains : StaysPaused(d)]_vars

=============================================================================
