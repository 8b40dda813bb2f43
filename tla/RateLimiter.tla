---------------------------- MODULE RateLimiter ----------------------------
(***************************************************************************)
(* The request limits of the API for one client                            *)
(* (bins/scrapix-api/src/rate_limit.rs, crates/scrapix-auth/src/           *)
(* rate_limit.rs).                                                         *)
(*                                                                         *)
(* Each request increments a counter in Redis and renews its expiry, also  *)
(* when it is refused.  If Redis does not answer, the limiter of the       *)
(* sign-in routes counts in memory, in windows that start with a request.  *)
(* (The limiter of the other routes lets the request through.)             *)
(*                                                                         *)
(* Abstractions.  Time is in units of which Window make the 60 seconds.    *)
(* One client; the map of windows evicts only expired ones.                *)
(***************************************************************************)
EXTENDS Integers, FiniteSets

CONSTANTS
  Quota,        \* AUTH_RATE_LIMIT (5), or the tier's requests per minute
  Window,       \* AUTH_WINDOW_SECS (60)
  MaxRequests,  \* bound: requests
  MaxClock      \* bound: the clock

ASSUME RateAssumption ==
  /\ Quota \in Nat \ {0} /\ Window \in Nat \ {0}
  /\ MaxRequests \in Nat /\ MaxClock \in Nat

VARIABLES
  time,
  count, expires,   \* the key in Redis: its value, and when it expires
  local, started,   \* AuthWindow: count and window_start
  log               \* the requests so far: when, counted where, admitted or not

rateVars == <<time, count, expires, local, started, log>>

RateInit ==
  /\ time = 0 /\ count = 0 /\ expires = 0
  /\ local = 0 /\ started = 0
  /\ log = {}

Record(where, n) ==
  /\ Cardinality(log) < MaxRequests
  /\ log' = log \cup {[at |-> time, nth |-> Cardinality(log), where |-> where,
                       admitted |-> n <= Quota]}

\* INCR and EXPIRE in one transaction.
CheckRedis(n) ==
  /\ n = (IF expires <= time THEN 0 ELSE count) + 1
  /\ count' = n /\ expires' = time + Window
  /\ Record("redis", n)
  /\ UNCHANGED <<time, local, started>>

\* The window starts again with every request.
CheckLocal_Mutant(n) ==
  /\ n = (IF time - started > 0 THEN 0 ELSE local) + 1
  /\ local' = n
  /\ started' = time
  /\ Record("memory", n)
  /\ UNCHANGED <<time, count, expires>>

\* InMemoryAuthRateLimiter::check
CheckLocal(n) ==
  LET over == local = 0 \/ time - started >= Window
  IN  /\ n = (IF over THEN 0 ELSE local) + 1
      /\ local' = n
      /\ started' = IF over THEN time ELSE started
      /\ Record("memory", n)
      /\ UNCHANGED <<time, count, expires>>

Pass ==
  /\ time < MaxClock /\ time' = time + 1
  /\ UNCHANGED <<count, expires, local, started, log>>

RateNext ==
  \/ \E n \in 1..MaxRequests : CheckRedis(n) \/ CheckLocal(n)
  \/ Pass

RateTypeOK ==
  /\ time \in 0..MaxClock /\ count \in 0..MaxRequests /\ expires \in 0..(MaxClock + Window)
  /\ local \in 0..MaxRequests /\ started \in 0..MaxClock
  /\ log \subseteq [at : 0..MaxClock, nth : 0..MaxRequests, where : {"redis", "memory"},
                    admitted : BOOLEAN]

InWindow(where, t) ==
  {x \in log : x.where = where /\ x.admitted /\ x.at \in t..(t + Window - 1)}

\* In any 60 seconds, wherever they begin, at most Quota requests are admitted
\* by Redis, and at most twice as many by the windows in memory, however
\* often Redis fails and comes back.
AdmissionsAreBounded ==
  \A t \in 0..MaxClock :
    /\ Cardinality(InWindow("redis", t)) <= Quota
    /\ Cardinality(InWindow("memory", t)) <= 2 * Quota

=============================================================================
