------------------------------ MODULE PageFetch ------------------------------
(***************************************************************************)
(* The HTTP fetcher of a crawler worker, for the pages of one domain whose *)
(* robots.txt all fall under one rule: the cache of robots.txt, the check  *)
(* against it, then the request with its retries.  The site may change its *)
(* rules, fail to serve them, or answer as it likes, at any time.          *)
(*                                                                         *)
(* `closedFor' is a history variable.                                      *)
(***************************************************************************)
EXTENDS Integers

CONSTANTS
  Fetches,        \* concurrent calls of fetch_conditional_with_options
  NoRules,        \* no entry in the cache
  CacheTtl,       \* RobotsConfig::cache_ttl
  RobotsTimeout,  \* RobotsConfig::fetch_timeout
  AttemptTime,    \* the most an attempt takes: a look-up of the name, FetcherConfig::timeout
  MaxBackoff,     \* RetryConfig::max_backoff
  MaxRetries      \* RetryConfig::max_retries

ASSUME FetchAssumption ==
  {CacheTtl, RobotsTimeout, AttemptTime, MaxBackoff, MaxRetries} \subseteq Nat /\ CacheTtl > 0

VARIABLES
  robots,       \* whether robots.txt allows the pages, and whether it can be read
  closedFor,  \* how long it has been readable and forbidding
  rules,      \* the cache: what the entry allows and its age
  fetches     \* each call: how far it is and what it knows

fetchVars == <<robots, closedFor, rules, fetches>>

Stages ==
  {"idle", "reading", "read", "sending", "backoff", "page", "unchanged", "failed", "refused"}

\* What a call waits for takes no longer than its timeout.
Waits == {"read", "sending", "backoff"}
Allotted(stage) ==
  CASE stage = "read" -> RobotsTimeout
    [] stage = "sending" -> AttemptTime
    [] stage = "backoff" -> MaxBackoff

\* The most that lies between a check of robots.txt and an attempt.
Retrying(attempt) == attempt * (AttemptTime + MaxBackoff)

Ages == 0 .. CacheTtl + RobotsTimeout + Retrying(MaxRetries + 1) + 1

FetchTypeOK ==
  /\ robots \in [allows: BOOLEAN, readable: BOOLEAN]
  /\ closedFor \in Ages
  /\ rules = NoRules \/ rules \in [allows: BOOLEAN, age: 0 .. CacheTtl]
  /\ fetches \in [Fetches -> [stage: Stages, allows: BOOLEAN, age: Nat, attempt: 0 .. MaxRetries]]

Idle0 == [stage |-> "idle", allows |-> TRUE, age |-> 0, attempt |-> 0]

FetchInit ==
  /\ robots \in [allows: BOOLEAN, readable: {TRUE}]
  /\ closedFor = 0 /\ rules = NoRules
  /\ fetches = [f \in Fetches |-> Idle0]

Goes(f, stage) == fetches' = [fetches EXCEPT ![f].stage = stage, ![f].age = 0]

\* The cache keeps an entry as long as it is used.
CheckCached_Mutant(f) ==
  /\ fetches[f].stage = "idle"
  /\ rules # NoRules /\ rules.age < CacheTtl
  /\ rules' = [rules EXCEPT !.age = 0]
  /\ Goes(f, IF rules.allows THEN "sending" ELSE "refused")
  /\ UNCHANGED <<robots, closedFor>>

\* is_allowed with a cached robots.txt that has not expired ...
CheckCached(f) ==
  /\ fetches[f].stage = "idle"
  /\ rules # NoRules /\ rules.age < CacheTtl
  /\ Goes(f, IF rules.allows THEN "sending" ELSE "refused")
  /\ UNCHANGED <<robots, closedFor, rules>>

\* ... and without one: nothing keeps two fetches from asking at once.
AskRobots(f) ==
  /\ fetches[f].stage = "idle"
  /\ rules # NoRules => rules.age >= CacheTtl
  /\ Goes(f, "reading")
  /\ UNCHANGED <<robots, closedFor, rules>>

\* The site answers; whatever is not a robots.txt, a failure included, is read
\* as an empty one, which allows everything.
ServeRobots(f) ==
  /\ fetches[f].stage = "reading"
  /\ fetches' = [fetches EXCEPT ![f].stage = "read", ![f].age = 0,
                                ![f].allows = robots.readable => robots.allows]
  /\ UNCHANGED <<robots, closedFor, rules>>

\* The answer arrives, and is cached as of now.
CacheRobots(f) ==
  /\ fetches[f].stage = "read"
  /\ rules' = [allows |-> fetches[f].allows, age |-> 0]
  /\ Goes(f, IF fetches[f].allows THEN "sending" ELSE "refused")
  /\ UNCHANGED <<robots, closedFor>>

\* The server answers the request with a status.  send() is an error only when
\* there is no response: 304 apart, any status makes a page, unless its content is
\* of no use.
ReceiveAnswer(f) ==
  /\ fetches[f].stage = "sending"
  /\ \E stage \in {"page", "unchanged", "failed"} : Goes(f, stage)
  /\ UNCHANGED <<robots, closedFor, rules>>

\* A connection that fails or a timeout: another attempt, while there is one.
LoseConnection(f) ==
  /\ fetches[f].stage = "sending"
  /\ Goes(f, IF fetches[f].attempt < MaxRetries THEN "backoff" ELSE "failed")
  /\ UNCHANGED <<robots, closedFor, rules>>

\* After the backoff; robots.txt is not checked again.
SendAgain(f) ==
  /\ fetches[f].stage = "backoff"
  /\ fetches' = [fetches EXCEPT ![f].stage = "sending", ![f].age = 0,
                                ![f].attempt = @ + 1]
  /\ UNCHANGED <<robots, closedFor, rules>>

\* The worker goes on to another page.
NextPage(f) ==
  /\ fetches[f].stage \in {"page", "unchanged", "failed", "refused"}
  /\ fetches' = [fetches EXCEPT ![f] = Idle0]
  /\ UNCHANGED <<robots, closedFor, rules>>

SiteChanges ==
  /\ robots' \in [allows: BOOLEAN, readable: BOOLEAN] \ {robots}
  /\ closedFor' = IF robots'.readable => robots'.allows THEN 0 ELSE closedFor
  /\ UNCHANGED <<rules, fetches>>

\* A tick of the clock, which the answers, the attempts and the backoffs under way
\* take part in.
PassTick ==
  /\ \A f \in Fetches :
       fetches[f].stage \in Waits => fetches[f].age < Allotted(fetches[f].stage)
  /\ closedFor' = IF (robots.readable => robots.allows) \/ closedFor + 1 \notin Ages THEN closedFor
                  ELSE closedFor + 1
  /\ rules' = IF rules = NoRules \/ rules.age = CacheTtl THEN rules
              ELSE [rules EXCEPT !.age = @ + 1]
  /\ fetches' = [f \in Fetches |->
       IF fetches[f].stage \in Waits THEN [fetches[f] EXCEPT !.age = @ + 1] ELSE fetches[f]]
  /\ UNCHANGED robots

FetchNext ==
  \/ \E f \in Fetches :
       \/ CheckCached(f) \/ AskRobots(f) \/ ServeRobots(f) \/ CacheRobots(f)
       \/ ReceiveAnswer(f) \/ LoseConnection(f) \/ SendAgain(f) \/ NextPage(f)
  \/ SiteChanges \/ PassTick

FetchSpec == FetchInit /\ [][FetchNext]_fetchVars

----------------------------------------------------------------------------
(* Properties.                                                             *)

\* No page is requested against rules that had forbidden it for longer than an
\* entry is kept, robots.txt may be on its way and the attempts before took, whichever
\* of two fetches fills the cache last.
RulesAreFresh ==
  \A f \in Fetches : fetches[f].stage = "sending" =>
    closedFor < CacheTtl + RobotsTimeout + Retrying(fetches[f].attempt) + fetches[f].age

=============================================================================
