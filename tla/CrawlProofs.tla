---------------------------- MODULE CrawlProofs ----------------------------
(***************************************************************************)
(* Proofs about the crawl and the parts around it, for any number of URLs, *)
(* jobs, events, permits and bounds: that a job's pages are accounted for  *)
(* on their way through the workers (CrawlPipeline), that domains are not  *)
(* overcounted, hurried or woken (PolitenessSpec), that a crawl that       *)
(* replaces an index keeps the pages it skips (ReplaceCrawl), that viewers *)
(* of events miss nothing they are not told of (EventStreams), that the    *)
(* idle shutdown waits for its window (ScaleToZero), that rules of hosts   *)
(* are not used past their time (PageFetch), and that tabs and sessions of *)
(* renderers stay within their permits (Renderers).                        *)
(*                                                                         *)
(* Each part has the same shape: the type invariant alone is inductive;    *)
(* the property is not, so an inductive invariant adds what relates the    *)
(* property's two sides step by step, mostly a count of the units that are *)
(* under way.  The steps that leave what an invariant is about unchanged   *)
(* are dealt with together, the others one by one.                         *)
(***************************************************************************)
EXTENDS PolitenessSpec, CrawlPipeline, ReplaceCrawl, EventStreams, ScaleToZero, PageFetch,
        Renderers, FoldLemmas, FiniteSetTheorems, TLAPS

-----------------------------------------------------------------------------
(* PolitenessSpec: one domain changes at a time, and stays Sound for the   *)
(* count of requests that the step makes.                                  *)

\* The state of a domain, for a count of requests that are under way.
Sound(s, n) ==
  /\ s \in DomainState
  /\ s.in_flight <= n
  /\ s.delay >= DefaultDelay \/ s.delay >= MinDelay

PolitenessInv == TypeOK /\ NeverOvercounts /\ DelayInBand

\* What a step does to the state of a domain and to its count of requests.
LEMMA DomainChanges ==
  ASSUME PolitenessInv, NEW d \in Domains, NEW s, NEW n \in Nat,
         s = Untracked \/ Sound(s, n),
         domains' = [domains EXCEPT ![d] = s],
         outstanding' = [outstanding EXCEPT ![d] = n]
  PROVE  PolitenessInv'
<1>1. s \in DomainState \cup {Untracked}
  BY DEF Sound
<1>2. TypeOK'
  BY <1>1 DEF PolitenessInv, TypeOK, DomainsType
<1>3. ASSUME NEW e \in Domains
      PROVE  domains'[e] = (IF e = d THEN s ELSE domains[e])
             /\ outstanding'[e] = (IF e = d THEN n ELSE outstanding[e])
  BY DEF PolitenessInv, TypeOK, DomainsType
<1>4. NeverOvercounts'
  BY <1>3 DEF PolitenessInv, NeverOvercounts, Tracked, Sound
<1>5. DelayInBand'
  BY <1>3 DEF PolitenessInv, DelayInBand, Tracked, Sound, DomainState
<1> QED
  BY <1>2, <1>4, <1>5 DEF PolitenessInv

\* A tracked domain is sound, and so is one that the scheduler just met.
LEMMA StateIsSound ==
  ASSUME PolitenessInv, NEW d \in Domains
  PROVE  Sound(StateOf(d), outstanding[d])
<1>1. CASE Tracked(d)
  BY <1>1 DEF PolitenessInv, TypeOK, DomainsType, Tracked, StateOf, Sound, NeverOvercounts, DelayInBand
<1>2. CASE ~Tracked(d)
  BY <1>2, PolitenessAssumption
     DEF PolitenessInv, TypeOK, StateOf, NewState, Sound, DomainState
<1> QED
  BY <1>1, <1>2

\* The delays stay within the band.
LEMMA DelaysStay ==
  ASSUME NEW delay \in 0..MaxDelay, delay >= DefaultDelay \/ delay >= MinDelay
  PROVE  /\ Recovered(delay) \in 0..MaxDelay
         /\ Recovered(delay) >= DefaultDelay \/ Recovered(delay) >= MinDelay
         /\ BackedOff(delay) \in 0..MaxDelay
         /\ BackedOff(delay) >= DefaultDelay \/ BackedOff(delay) >= MinDelay
<1>1. (9 * delay) \div 10 \in Nat /\ (9 * delay) \div 10 <= delay
  OBVIOUS
<1>2. (3 * delay) \div 2 \in Nat /\ (3 * delay) \div 2 >= delay
  OBVIOUS
<1> QED
  BY <1>1, <1>2, PolitenessAssumption DEF Recovered, BackedOff

LEMMA ClampsInBand ==
  ASSUME NEW delay \in Nat
  PROVE  Clamped(delay) \in 0..MaxDelay /\ Clamped(delay) >= MinDelay
BY PolitenessAssumption DEF Clamped

\* A state stays sound as its fields are written, one by one.
LEMMA FieldsWritten ==
  ASSUME NEW r \in DomainState, NEW n \in Nat, NEW m \in 0..n, NEW errors \in Nat,
         NEW wait \in 0..MaxDelay, wait >= DefaultDelay \/ wait >= MinDelay,
         NEW paused \in BOOLEAN
  PROVE  /\ Sound([r EXCEPT !.in_flight = m, !.consecutive_errors = errors, !.delay = wait], n)
         /\ Sound([r EXCEPT !.in_flight = m, !.consecutive_errors = errors, !.delay = wait,
                            !.paused = paused], n)
<1> DEFINE r1 == [r EXCEPT !.in_flight = m]
           r2 == [r1 EXCEPT !.consecutive_errors = errors]
           r3 == [r2 EXCEPT !.delay = wait]
           r4 == [r3 EXCEPT !.paused = paused]
<1>1. r1 \in DomainState /\ r1.in_flight = m
  BY DEF DomainState
<1> HIDE DEF r1
<1>2. r2 \in DomainState /\ r2.in_flight = m
  BY <1>1 DEF DomainState
<1> HIDE DEF r2
<1>3. r3 \in DomainState /\ r3.in_flight = m /\ r3.delay = wait
  BY <1>2 DEF DomainState
<1> HIDE DEF r3
<1>4. r4 \in DomainState /\ r4.in_flight = m /\ r4.delay = wait
  BY <1>3 DEF DomainState
<1> HIDE DEF r4
<1>5. Sound(r3, n) /\ Sound(r4, n)
  BY <1>3, <1>4 DEF Sound
<1> QED
  BY <1>3, <1>4, <1>5 DEF r1, r2, r3, r4

LEMMA PauseWritten ==
  ASSUME NEW r \in DomainState, NEW m, NEW errors, NEW wait, NEW paused
  PROVE  /\ [r EXCEPT !.in_flight = m, !.consecutive_errors = errors, !.delay = wait].paused
              = r.paused
         /\ [r EXCEPT !.in_flight = m, !.consecutive_errors = errors, !.delay = wait,
                      !.paused = paused].paused = paused
BY DEF DomainState

LEMMA BeginKeeps ==
  ASSUME PolitenessInv, NEW d \in Domains, Begin(d)
  PROVE  PolitenessInv'
<1> DEFINE r == StateOf(d)
           q == [r EXCEPT !.in_flight = r.in_flight + 1]
           s == [q EXCEPT !.since = 0]
           n == outstanding[d] + 1
<1>1. Sound(r, outstanding[d]) /\ outstanding[d] \in Nat /\ n \in Nat
  BY StateIsSound DEF PolitenessInv, TypeOK
<1>2. domains' = [domains EXCEPT ![d] = s] /\ outstanding' = [outstanding EXCEPT ![d] = n]
  BY DEF Begin, StartRequest
<1> HIDE DEF r
<1>3. q \in DomainState /\ q.in_flight = r.in_flight + 1 /\ q.delay = r.delay
  BY <1>1 DEF Sound, DomainState
<1> HIDE DEF q
<1>4. s \in DomainState /\ s.in_flight = q.in_flight /\ s.delay = q.delay
  BY <1>3, PolitenessAssumption DEF DomainState
<1> HIDE DEF s
<1>5. Sound(s, n)
  BY <1>1, <1>3, <1>4 DEF Sound, DomainState
<1> QED
  BY <1>1, <1>2, <1>5, DomainChanges

\* An answer releases a slot if the scheduler knows of one, and wakes no domain.
LEMMA AnswerChanges ==
  ASSUME PolitenessInv, NEW d \in Domains, outstanding[d] > 0, Tracked(d),
         CompleteRequest(d) \/ \E isRateLimited \in BOOLEAN : FailedRequest(d, isRateLimited)
  PROVE  \E s : /\ domains' = [domains EXCEPT ![d] = s]
                /\ Sound(s, outstanding[d] - 1)
                /\ domains[d].paused => s.paused
<1> DEFINE r == domains[d]
           n == outstanding[d] - 1
           m == Released(r.in_flight)
<1>1. Sound(r, outstanding[d]) /\ outstanding[d] \in Nat /\ n \in Nat
  BY StateIsSound DEF StateOf, PolitenessInv, TypeOK
<1>2. r \in DomainState /\ m \in 0..n
  BY <1>1 DEF Sound, DomainState, Released
<1>3. \A wait \in {r.delay, Recovered(r.delay), BackedOff(r.delay)} :
        wait \in 0..MaxDelay /\ (wait >= DefaultDelay \/ wait >= MinDelay)
  BY <1>1, DelaysStay DEF Sound, DomainState
<1>4. CASE CompleteRequest(d)
  <2> DEFINE s == [r EXCEPT !.in_flight = m, !.consecutive_errors = 0,
                            !.delay = Recovered(r.delay)]
  <2>1. domains' = [domains EXCEPT ![d] = s]
    BY <1>4 DEF CompleteRequest, PolitenessInv, TypeOK, DomainsType
  <2>2. 0 \in Nat /\ Recovered(r.delay) \in 0..MaxDelay
        /\ (Recovered(r.delay) >= DefaultDelay \/ Recovered(r.delay) >= MinDelay)
    BY <1>3
  <2>3. Sound(s, n)
    BY <1>1, <1>2, <2>2, FieldsWritten
  <2>4. s.paused = r.paused
    BY <1>2, PauseWritten
  <2> HIDE DEF s
  <2> QED
    BY <2>1, <2>3, <2>4
<1>5. CASE \E isRateLimited \in BOOLEAN : FailedRequest(d, isRateLimited)
  <2>1. PICK isRateLimited \in BOOLEAN : FailedRequest(d, isRateLimited)
    BY <1>5
  <2> DEFINE errors == r.consecutive_errors + 1
             wait == IF isRateLimited \/ errors >= BackoffAfter
                     THEN BackedOff(r.delay) ELSE r.delay
             paused == r.paused \/ errors >= PauseAfter
             s == [r EXCEPT !.in_flight = m, !.consecutive_errors = errors, !.delay = wait,
                            !.paused = paused]
  <2>2. errors \in Nat /\ paused \in BOOLEAN /\ (r.paused => paused)
    BY <1>2 DEF DomainState
  <2>3. wait \in 0..MaxDelay /\ (wait >= DefaultDelay \/ wait >= MinDelay)
    BY <1>3
  <2>4. domains' = [domains EXCEPT ![d] = s]
    BY <2>1 DEF FailedRequest, PolitenessInv, TypeOK, DomainsType
  <2> HIDE DEF errors, wait, paused
  <2>5. Sound(s, n)
    BY <1>1, <1>2, <2>2, <2>3, FieldsWritten
  <2>6. s.paused = paused
    BY <1>2, PauseWritten
  <2> HIDE DEF s
  <2> QED
    BY <2>2, <2>4, <2>5, <2>6
<1> QED
  BY <1>4, <1>5

LEMMA AnswerKeeps ==
  ASSUME PolitenessInv, NEW d \in Domains, outstanding[d] > 0,
         CompleteRequest(d) \/ \E isRateLimited \in BOOLEAN : FailedRequest(d, isRateLimited),
         outstanding' = [outstanding EXCEPT ![d] = @ - 1]
  PROVE  PolitenessInv'
<1> DEFINE n == outstanding[d] - 1
<1>1. n \in Nat /\ outstanding' = [outstanding EXCEPT ![d] = n]
  BY DEF PolitenessInv, TypeOK
<1>2. CASE ~Tracked(d)
  <2>1. domains' = [domains EXCEPT ![d] = domains[d]] /\ domains[d] = Untracked
    BY <1>2 DEF CompleteRequest, FailedRequest, Tracked, PolitenessInv, TypeOK, DomainsType
  <2> QED
    BY <1>1, <2>1, DomainChanges
<1>3. CASE Tracked(d)
  BY <1>1, <1>3, AnswerChanges, DomainChanges
<1> QED
  BY <1>2, <1>3

LEMMA OperateKeeps ==
  ASSUME PolitenessInv, NEW d \in Domains, Operate(d)
  PROVE  PolitenessInv'
<1>1. outstanding[d] \in Nat /\ outstanding' = [outstanding EXCEPT ![d] = outstanding[d]]
  BY DEF Operate, PolitenessInv, TypeOK
<1>2. Sound(StateOf(d), outstanding[d])
  BY StateIsSound
<1>3. CASE PauseDomain(d)
  <2> DEFINE s == [StateOf(d) EXCEPT !.paused = TRUE]
  <2>1. Sound(s, outstanding[d])
    BY <1>2 DEF Sound, DomainState
  <2> QED
    BY <1>1, <1>3, <2>1, DomainChanges DEF PauseDomain
<1>4. CASE ResumeDomain(d)
  <2> DEFINE s == [domains[d] EXCEPT !.paused = FALSE, !.consecutive_errors = 0]
  <2>1. Sound(s, outstanding[d])
    BY <1>2, <1>4 DEF Sound, DomainState, ResumeDomain, StateOf
  <2>2. domains' = [domains EXCEPT ![d] = s]
    BY <1>4 DEF ResumeDomain, PolitenessInv, TypeOK, DomainsType
  <2> QED
    BY <1>1, <2>1, <2>2, DomainChanges
<1>5. CASE ClearDomain(d)
  BY <1>1, <1>5, DomainChanges DEF ClearDomain
<1>6. CASE \E delay \in RobotsDelays : SetDelay(d, delay)
  <2>1. PICK delay \in RobotsDelays : SetDelay(d, delay)
    BY <1>6
  <2> DEFINE s == [StateOf(d) EXCEPT !.delay = Clamped(delay)]
  <2>2. Clamped(delay) \in 0..MaxDelay /\ Clamped(delay) >= MinDelay
    BY RobotsAssumption, ClampsInBand
  <2>3. Sound(s, outstanding[d])
    BY <1>2, <2>2 DEF Sound, DomainState
  <2> QED
    BY <1>1, <2>1, <2>3, DomainChanges DEF SetDelay
<1> QED
  BY <1>3, <1>4, <1>5, <1>6 DEF Operate

\* Time makes no request and changes no delay.
LEMMA PassKeeps ==
  ASSUME PolitenessInv, Pass
  PROVE  PolitenessInv'
<1>1. ASSUME NEW d \in Domains
      PROVE  /\ domains'[d] \in DomainState \cup {Untracked}
             /\ Tracked(d)' => Tracked(d) /\ domains'[d].in_flight = domains[d].in_flight
                                          /\ domains'[d].delay = domains[d].delay
  BY PolitenessAssumption, UntrackedAssumption
     DEF PolitenessInv, TypeOK, DomainsType, DomainState, Pass, Elapse, Tracked
<1>2. domains' \in DomainsType
  BY <1>1 DEF Pass, Elapse, DomainsType
<1> QED
  BY <1>1, <1>2 DEF PolitenessInv, TypeOK, NeverOvercounts, DelayInBand, Pass

LEMMA PolitenessHolds == Spec => []PolitenessInv
<1>1. Init => PolitenessInv
  BY DEF Init, PolitenessInit, PolitenessInv, TypeOK, DomainsType, NeverOvercounts, DelayInBand, Tracked
<1>2. PolitenessInv /\ [Next]_vars => PolitenessInv'
  <2> SUFFICES ASSUME PolitenessInv, [Next]_vars
               PROVE  PolitenessInv'
    OBVIOUS
  <2>1. ASSUME NEW d \in Domains, Begin(d)
        PROVE  PolitenessInv'
    BY <2>1, BeginKeeps
  <2>2. ASSUME NEW d \in Domains, Succeed(d)
        PROVE  PolitenessInv'
    BY <2>2, AnswerKeeps DEF Succeed
  <2>3. ASSUME NEW d \in Domains, NEW isRateLimited \in BOOLEAN, Fail(d, isRateLimited)
        PROVE  PolitenessInv'
    BY <2>3, AnswerKeeps DEF Fail
  <2>4. ASSUME NEW d \in Domains, Operate(d)
        PROVE  PolitenessInv'
    BY <2>4, OperateKeeps
  <2>5. CASE Pass
    BY <2>5, PassKeeps
  <2>6. CASE UNCHANGED vars
    BY <2>6 DEF vars, PolitenessInv, TypeOK, NeverOvercounts, DelayInBand, Tracked
  <2> QED
    BY <2>1, <2>2, <2>3, <2>4, <2>5, <2>6 DEF Next
<1> QED
  BY <1>1, <1>2, PTL DEF Spec

\* Every variable keeps its type.
THEOREM TypeCorrect == Spec => []TypeOK
BY PolitenessHolds, PTL DEF PolitenessInv

\* The scheduler never counts more requests than are under way, whatever is
\* cleared, paused or answered late: no slot of a domain leaks.
THEOREM SlotsNeverLeak == Spec => []NeverOvercounts
BY PolitenessHolds, PTL DEF PolitenessInv

\* Backoff, recovery and robots.txt keep every delay in the configured band.
THEOREM DelaysAreBounded == Spec => []DelayInBand
BY PolitenessHolds, PTL DEF PolitenessInv

\* A paused domain is left alone until an operator wakes it: no late answer does.
THEOREM PauseHolds == Spec => PausedUntilResumed
<1>1. PolitenessInv /\ [Next]_vars => [\A d \in Domains : StaysPaused(d)]_vars
  <2> SUFFICES ASSUME PolitenessInv, [Next]_vars, NEW d \in Domains, Tracked(d), domains[d].paused,
                      vars' # vars, ~ResumeDomain(d), ~ClearDomain(d)
               PROVE  outstanding'[d] <= outstanding[d] /\ Tracked(d)' /\ domains'[d].paused
    BY DEF StaysPaused
  <2> DEFINE Paused(s) == s \in DomainState /\ s.paused
  <2>1. Paused(domains[d]) /\ outstanding[d] \in Nat
    BY DEF PolitenessInv, TypeOK, DomainsType, Tracked
  <2>2. \A s : Paused(s) => s # Untracked
    BY UntrackedAssumption
  <2>3. ASSUME NEW e \in Domains, Begin(e)
        PROVE  domains'[d] = domains[d] /\ outstanding'[d] = outstanding[d]
    BY <2>3 DEF Begin, CanFetch, StartRequest, PolitenessInv, TypeOK, DomainsType
  <2>4. ASSUME NEW e \in Domains, outstanding[e] > 0,
               outstanding' = [outstanding EXCEPT ![e] = @ - 1],
               CompleteRequest(e)
               \/ \E isRateLimited \in BOOLEAN : FailedRequest(e, isRateLimited)
        PROVE  outstanding'[d] <= outstanding[d] /\ Tracked(d)' /\ domains'[d].paused
    <3>1. CASE e = d
      <4>1. PICK s : domains' = [domains EXCEPT ![d] = s] /\ Sound(s, outstanding[d] - 1)
                     /\ s.paused
        <5>1. Tracked(d) /\ outstanding[d] > 0
              /\ (CompleteRequest(d)
                   \/ \E isRateLimited \in BOOLEAN : FailedRequest(d, isRateLimited))
          BY <2>4, <3>1
        <5> QED
          BY <5>1, AnswerChanges
      <4> QED
        BY <2>1, <2>2, <2>4, <3>1, <4>1 DEF Sound, Tracked, PolitenessInv, TypeOK, DomainsType
    <3>2. CASE e # d
      <4>1. CASE Tracked(e)
        <5>1. \E s : domains' = [domains EXCEPT ![e] = s]
          BY <2>4, <4>1, AnswerChanges
        <5> QED
          BY <2>1, <2>4, <3>2, <5>1 DEF PolitenessInv, TypeOK, DomainsType, Tracked
      <4>2. CASE ~Tracked(e)
        BY <2>1, <2>4, <3>2, <4>2 DEF CompleteRequest, FailedRequest, PolitenessInv, TypeOK, Tracked
      <4> QED
        BY <4>1, <4>2
    <3> QED
      BY <3>1, <3>2
  <2>5. ASSUME NEW e \in Domains, Operate(e)
        PROVE  outstanding'[d] = outstanding[d] /\ Tracked(d)' /\ domains'[d].paused
    <3>1. CASE e # d
      BY <2>1, <2>5, <3>1 DEF Operate, PauseDomain, ResumeDomain, ClearDomain, SetDelay,
                              PolitenessInv, TypeOK, DomainsType, Tracked
    <3>2. CASE e = d
      <4>1. CASE PauseDomain(d)
        <5>1. Paused(domains'[d])
          BY <2>1, <4>1 DEF PauseDomain, StateOf, PolitenessInv, TypeOK, DomainsType, DomainState
        <5> QED
          BY <2>2, <2>5, <5>1 DEF Operate, Tracked
      <4>2. CASE \E delay \in RobotsDelays : SetDelay(d, delay)
        <5>1. PICK delay \in RobotsDelays : SetDelay(d, delay)
          BY <4>2
        <5>2. Clamped(delay) \in 0..MaxDelay
          BY RobotsAssumption, ClampsInBand
        <5>3. Paused(domains'[d])
          BY <2>1, <5>1, <5>2 DEF SetDelay, StateOf, PolitenessInv, TypeOK, DomainsType, DomainState
        <5> QED
          BY <2>2, <2>5, <5>3 DEF Operate, Tracked
      <4> QED
        BY <2>5, <3>2, <4>1, <4>2 DEF Operate
    <3> QED
      BY <3>1, <3>2
  <2>6. CASE Pass
    <3>1. Paused(domains'[d])
      BY <2>1, <2>6, PolitenessAssumption
         DEF Pass, Elapse, PolitenessInv, TypeOK, DomainsType, DomainState, Tracked
    <3> QED
      BY <2>1, <2>2, <2>6, <3>1 DEF Pass, Tracked
  <2> QED
    BY <2>1, <2>2, <2>3, <2>4, <2>5, <2>6 DEF Next, Succeed, Fail, vars, Tracked
<1> QED
  BY <1>1, PolitenessHolds, PTL DEF Spec, PausedUntilResumed


-----------------------------------------------------------------------------
(* CrawlPipeline                                                           *)

\* On its way to the handler or in it.
Live(u) == u \in waiting \/ u \in toCrawl \/ InHand(u)

Reached(v) == v \in known \/ \E i \in DOMAIN toFrontier : toFrontier[i] = v

AtWork == {u \in Urls : work[u] # Idle}

\* Every URL is in one place at most, so no message overwrites another's handler.
PlacesInv ==
  \A u \in Urls :
    /\ InHand(u) => u \in known /\ u \notin waiting /\ u \notin toCrawl
    /\ work[u] # Idle => held # u
    /\ u \in waiting => u \notin toCrawl

\* Only a crash delivers a message again, and what is delivered has not yet been
\* reported for this delivery; a handler has sent what comes before its step.
ReportsInv ==
  \A u \in Urls :
    /\ crawled[u] <= sent[u] /\ crawled[u] <= 1 + crashes
    /\ Live(u) => crawled[u] <= crashes
    /\ AtStep(u, "links") \/ AtStep(u, "last") => crawled[u] < sent[u]
    /\ crawled[u] > 0 => u \in known /\ \A v \in Links[u] : Reached(v)
    /\ AtStep(u, "links") => \A v \in Links[u] \ work[u].todo : Reached(v)
    /\ AtStep(u, "last") => \A v \in Links[u] : Reached(v)

\* The permits bound what is in hand, and that what a crash can lose.
LossInv ==
  /\ IsFiniteSet(AtWork) /\ Cardinality(AtWork) <= Concurrency
  /\ IsFiniteSet(dropped) /\ Cardinality(dropped) <= busFaults + crashes * Concurrency
  /\ \A u \in known : Live(u) \/ crawled[u] > 0 \/ u \in closed \/ u \in dropped

PipeInv == PlacesInv /\ ReportsInv /\ LossInv

Work == [step : Steps, todo : SUBSET Urls]

LEMMA GotoType ==
  ASSUME PipeTypeOK, NEW u \in Urls, NEW step \in Steps, NEW todo \in SUBSET Urls,
         Goto(u, step, todo)
  PROVE  /\ work' \in [Urls -> Work \cup {Idle}]
         /\ work'[u] = [step |-> step, todo |-> todo] /\ work'[u] # Idle
         /\ \A v \in Urls : v # u => work'[v] = work[v]
<1>1. [step |-> step, todo |-> todo] \in Work
  BY DEF Work
<1>. QED
  BY <1>1, IdleAssumption DEF PipeTypeOK, Goto, Work

LEMMA LeaveType ==
  ASSUME PipeTypeOK, NEW u \in Urls, work' = [work EXCEPT ![u] = Idle]
  PROVE  /\ work' \in [Urls -> Work \cup {Idle}]
         /\ work'[u] = Idle
         /\ \A v \in Urls : v # u => work'[v] = work[v]
BY DEF PipeTypeOK, Work

LEMMA TodoType ==
  ASSUME PipeTypeOK, NEW u \in Urls, NEW step, AtStep(u, step)
  PROVE  work[u] # Idle /\ work[u] \in Work /\ work[u].todo \subseteq Urls
BY DEF PipeTypeOK, AtStep, Work

\* A step of the handler of u that goes on.
LEMMA MoveOn ==
  ASSUME PipeTypeOK, PlacesInv, NEW u \in Urls, work[u] # Idle, NEW step \in Steps,
         NEW todo \in SUBSET Urls, Goto(u, step, todo), UNCHANGED <<known, waiting, toCrawl, held>>
  PROVE  PlacesInv'
BY GotoType DEF PlacesInv, InHand

\* ... and one that ends it.
LEMMA HandOver ==
  ASSUME PipeTypeOK, PlacesInv, NEW u \in Urls, work' = [work EXCEPT ![u] = Idle],
         UNCHANGED <<known, waiting, toCrawl, held>>
  PROVE  PlacesInv'
BY LeaveType DEF PlacesInv, InHand

\* A crash is one of the faults of the bus.
CrashesInv == crashes \in Nat /\ busFaults \in Nat /\ crashes <= busFaults

LEMMA CrashesAreFaults == PipeSpec => []CrashesInv
<1>1. PipeInit => CrashesInv
  BY DEF PipeInit, CrashesInv
<1>2. CrashesInv /\ [PipeNext]_pipeVars => CrashesInv'
  <2>. SUFFICES ASSUME CrashesInv, [PipeNext]_pipeVars PROVE CrashesInv'
    OBVIOUS
  <2>1. CASE FrontierTakes \/ FrontierDispatches \/ ContentTakes \/ ContentReports
    BY <2>1 DEF FrontierTakes, FrontierDispatches, ContentTakes, ContentReports, CrashesInv
  <2>2. CASE ApiTakesEvent \/ Poll \/ Spawn \/ Quit \/ Restart \/ Crash
    BY <2>2 DEF ApiTakesEvent, Poll, Spawn, Quit, Restart, Crash, CrashesInv
  <2>3. ASSUME NEW u \in Urls, Handle(u) \/ SendFails(u) PROVE CrashesInv'
    <3>1. CASE DiscoverSitemaps(u) \/ Fetch(u) \/ SendPage(u) \/ SendLink(u) \/ Report(u)
      <4>1. UNCHANGED <<crashes, busFaults>>
        BY <3>1 DEF DiscoverSitemaps, Fetch, SendPage, SendLink, Report, HandlerOnly
      <4>. QED
        BY <4>1 DEF CrashesInv
    <3>2. CASE SendSitemapUrl(u) \/ SendFails(u)
      <4>1. crashes' = crashes /\ (busFaults' = busFaults \/ busFaults' = busFaults + 1)
        BY <3>2 DEF SendSitemapUrl, SendFails, HandlerOnly
      <4>. QED
        BY <4>1 DEF CrashesInv
    <3>. QED
      BY <2>3, <3>1, <3>2 DEF Handle
  <2>4. CASE UNCHANGED pipeVars
    BY <2>4 DEF pipeVars, CrashesInv
  <2>. QED
    BY <2>1, <2>2, <2>3, <2>4 DEF PipeNext
<1>. QED
  BY <1>1, <1>2, PTL DEF PipeSpec

LEMMA PipeFacts == PipeSpec => [](PipeTypeOK /\ PlacesInv)
<1>. USE PipelineAssumption, IdleAssumption
<1>1. PipeInit => PipeTypeOK /\ PlacesInv
  <2>. SUFFICES ASSUME PipeInit PROVE PipeTypeOK /\ PlacesInv
    OBVIOUS
  <2>1. toFrontier \in Seq(Urls) /\ work \in [Urls -> Work \cup {Idle}]
    BY DEF PipeInit
  <2>2. crashes \in 0..MaxBusFaults /\ busFaults \in 0..MaxBusFaults
    BY DEF PipeInit
  <2>3. PipeTypeOK
    BY <2>1, <2>2 DEF PipeInit, PipeTypeOK, Work
  <2>4. PlacesInv
    BY DEF PipeInit, PlacesInv, InHand
  <2>. QED
    BY <2>3, <2>4
<1>2. PipeTypeOK /\ PlacesInv /\ CrashesInv /\ [PipeNext]_pipeVars
        => PipeTypeOK' /\ PlacesInv'
  <2>. SUFFICES ASSUME PipeTypeOK, PlacesInv, CrashesInv, [PipeNext]_pipeVars
                PROVE  PipeTypeOK' /\ PlacesInv'
    OBVIOUS
  <2>1. CASE FrontierTakes
    <3>1. toFrontier' \in Seq(Urls) /\ Head(toFrontier) \in Urls
      BY <2>1 DEF FrontierTakes, PipeTypeOK
    <3>2. known' = known \cup {Head(toFrontier)}
      BY <2>1 DEF FrontierTakes
    <3>3. waiting' = IF Head(toFrontier) \in known THEN waiting
                     ELSE waiting \cup {Head(toFrontier)}
      BY <2>1 DEF FrontierTakes
    <3>4. PipeTypeOK'
      BY <2>1, <3>1, <3>2, <3>3 DEF FrontierTakes, PipeTypeOK
    <3>5. PlacesInv'
      BY <2>1, <3>1, <3>2, <3>3 DEF FrontierTakes, PipeTypeOK, PlacesInv, InHand
    <3>. QED
      BY <3>4, <3>5
  <2>2. CASE FrontierDispatches
    BY <2>2 DEF FrontierDispatches, PipeTypeOK, PlacesInv, InHand
  <2>3. CASE ContentTakes \/ ContentReports \/ ApiTakesEvent \/ Quit \/ Restart
    <3>1. /\ UNCHANGED <<bus, toFrontier, known, waiting, toCrawl, held, work, sent, crawled>>
          /\ UNCHANGED <<closed, dropped, crashes, busFaults>>
      BY <2>3 DEF ContentTakes, ContentReports, ApiTakesEvent, Quit, Restart
    <3>2. /\ pages' \subseteq Urls /\ events' \in Nat
          /\ mapped' \in BOOLEAN /\ indexing' \in BOOLEAN /\ quitting' \in BOOLEAN
      <4>1. CASE ContentTakes
        BY <4>1 DEF ContentTakes, PipeTypeOK
      <4>2. CASE ContentReports
        <5>1. indexing' = FALSE /\ events' = events + 1
          BY <4>2 DEF ContentReports
        <5>2. UNCHANGED <<pages, mapped, quitting>>
          BY <4>2 DEF ContentReports
        <5>3. events' \in Nat
          BY <5>1 DEF PipeTypeOK
        <5>4. mapped' \in BOOLEAN /\ indexing' \in BOOLEAN /\ quitting' \in BOOLEAN
          BY <5>1, <5>2, Zenon DEF PipeTypeOK
        <5>. QED
          BY <5>2, <5>3, <5>4 DEF PipeTypeOK
      <4>3. CASE ApiTakesEvent
        BY <4>3 DEF ApiTakesEvent, PipeTypeOK
      <4>4. CASE Quit \/ Restart
        BY <4>4 DEF Quit, Restart, PipeTypeOK
      <4>. QED
        BY <2>3, <4>1, <4>2, <4>3, <4>4
    <3>3. PipeTypeOK'
      BY <3>1, <3>2 DEF PipeTypeOK
    <3>4. PlacesInv'
      BY <3>1 DEF PlacesInv, InHand
    <3>. QED
      BY <3>3, <3>4
  <2>4. CASE Poll
    BY <2>4 DEF Poll, PipeTypeOK, PlacesInv, InHand
  <2>5. CASE Spawn
    <3>1. held \in Urls /\ "sitemap" \in Steps
      BY <2>5 DEF Spawn, PipeTypeOK, Steps
    <3>2. /\ work' \in [Urls -> Work \cup {Idle}] /\ work'[held] # Idle
          /\ \A v \in Urls : v # held => work'[v] = work[v]
      <4>1. Goto(held, "sitemap", {}) /\ {} \in SUBSET Urls
        BY <2>5 DEF Spawn
      <4>. QED
        BY <3>1, <4>1, GotoType
    <3>3. PipeTypeOK'
      BY <2>5, <3>2 DEF Spawn, PipeTypeOK, Work
    <3>4. PlacesInv'
      BY <2>5, <3>1, <3>2 DEF Spawn, PlacesInv, InHand
    <3>. QED
      BY <3>3, <3>4
  <2>6. CASE Crash
    <3>1. PICK again \in SUBSET {u \in Urls : InHand(u)} :
            /\ toCrawl' = toCrawl \cup again
            /\ dropped' = dropped \cup ({u \in Urls : InHand(u)} \ again)
      BY <2>6 DEF Crash
    <3>2. again \subseteq known /\ \A u \in again : u \notin waiting
      BY DEF PlacesInv
    <3>3. PipeTypeOK'
      <4>1. crashes' \in 0..MaxBusFaults /\ busFaults' \in 0..MaxBusFaults
        BY <2>6 DEF Crash, PipeTypeOK, CrashesInv
      <4>2. work' \in [Urls -> Work \cup {Idle}] /\ held' = Idle
        BY <2>6 DEF Crash
      <4>3. toCrawl' \subseteq known /\ dropped' \subseteq Urls
        BY <3>1, <3>2 DEF PipeTypeOK
      <4>. QED
        BY <2>6, <4>1, <4>2, <4>3 DEF Crash, PipeTypeOK, Work
    <3>4. PlacesInv'
      BY <2>6, <3>1, <3>2 DEF Crash, PlacesInv, InHand
    <3>. QED
      BY <3>3, <3>4
  <2>7. ASSUME NEW u \in Urls, DiscoverSitemaps(u) PROVE PipeTypeOK' /\ PlacesInv'
    <3>1. PICK step \in Steps, todo \in SUBSET Urls : Goto(u, step, todo)
      BY <2>7 DEF DiscoverSitemaps, Steps
    <3>2. work' \in [Urls -> Work \cup {Idle}]
      BY <3>1, GotoType
    <3>3. PipeTypeOK'
      BY <2>7, <3>2 DEF DiscoverSitemaps, HandlerOnly, PipeTypeOK, Work
    <3>4. PlacesInv'
      BY <2>7, <3>1, MoveOn DEF DiscoverSitemaps, HandlerOnly, AtStep
    <3>. QED
      BY <3>3, <3>4
  <2>8. ASSUME NEW u \in Urls, SendSitemapUrl(u) \/ SendLink(u)
        PROVE PipeTypeOK' /\ PlacesInv'
    <3>1. PICK v \in work[u].todo, step \in Steps :
            /\ Goto(u, step, work[u].todo \ {v})
            /\ toFrontier' = toFrontier \/ toFrontier' = Append(toFrontier, v)
      BY <2>8 DEF SendSitemapUrl, SendLink, Steps
    <3>2. work[u] # Idle /\ work[u].todo \subseteq Urls
      BY <2>8, TodoType DEF SendSitemapUrl, SendLink
    <3>3. work' \in [Urls -> Work \cup {Idle}]
      BY <3>1, <3>2, GotoType
    <3>4. toFrontier' \in Seq(Urls)
      <4>1. v \in Urls /\ toFrontier \in Seq(Urls)
        BY <3>2 DEF PipeTypeOK
      <4>. QED
        BY SMTT(40), <3>1, <4>1
    <3>5. PipeTypeOK'
      <4>1. busFaults' \in 0..MaxBusFaults
        <5>1. \/ busFaults' = busFaults
              \/ busFaults < MaxBusFaults /\ busFaults' = busFaults + 1
          BY <2>8 DEF SendSitemapUrl, SendLink
        <5>. QED
          BY <5>1 DEF PipeTypeOK
      <4>2. UNCHANGED <<mapped, pages, events, sent, crawled, closed, dropped>> /\ HandlerOnly
        BY <2>8 DEF SendSitemapUrl, SendLink
      <4>. QED
        BY <3>3, <3>4, <4>1, <4>2 DEF HandlerOnly, PipeTypeOK, Work
    <3>6. PlacesInv'
      BY <2>8, <3>1, <3>2, MoveOn DEF SendSitemapUrl, SendLink, HandlerOnly
    <3>. QED
      BY <3>5, <3>6
  <2>9. ASSUME NEW u \in Urls, Fetch(u) \/ SendPage(u) PROVE PipeTypeOK' /\ PlacesInv'
    <3>1. PICK step \in Steps, todo \in SUBSET Urls : Goto(u, step, todo)
      BY <2>9 DEF Fetch, SendPage, Steps
    <3>2. work' \in [Urls -> Work \cup {Idle}]
      BY <3>1, GotoType
    <3>3. PipeTypeOK'
      <4>1. pages' \subseteq Urls /\ sent' \in [Urls -> Nat]
        <5>1. CASE Fetch(u)
          BY <5>1 DEF Fetch, PipeTypeOK
        <5>2. CASE SendPage(u)
          BY <5>2 DEF SendPage, PipeTypeOK
        <5>. QED
          BY <2>9, <5>1, <5>2
      <4>2. /\ UNCHANGED <<toFrontier, mapped, events, crawled, closed, dropped, busFaults>>
            /\ HandlerOnly
        BY <2>9 DEF Fetch, SendPage
      <4>. QED
        BY <3>2, <4>1, <4>2 DEF HandlerOnly, PipeTypeOK, Work
    <3>4. PlacesInv'
      BY <2>9, <3>1, MoveOn DEF Fetch, SendPage, HandlerOnly, AtStep
    <3>. QED
      BY <3>3, <3>4
  <2>10. ASSUME NEW u \in Urls, Report(u) PROVE PipeTypeOK' /\ PlacesInv'
    <3>1. work' \in [Urls -> Work \cup {Idle}] /\ PlacesInv'
      BY <2>10, LeaveType, HandOver DEF Report, HandlerOnly
    <3>. QED
      BY <2>10, <3>1 DEF Report, HandlerOnly, PipeTypeOK, Work
  <2>11. ASSUME NEW u \in Urls, SendFails(u) PROVE PipeTypeOK' /\ PlacesInv'
    <3>1. work' \in [Urls -> Work \cup {Idle}] /\ PlacesInv'
      BY <2>11, LeaveType, HandOver DEF SendFails, HandlerOnly
    <3>. QED
      BY <2>11, <3>1 DEF SendFails, HandlerOnly, PipeTypeOK, Work
  <2>12. CASE UNCHANGED pipeVars
    BY <2>12 DEF pipeVars, PipeTypeOK, PlacesInv, InHand
  <2>. QED
    BY <2>1, <2>2, <2>3, <2>4, <2>5, <2>6, <2>7, <2>8, <2>9, <2>10, <2>11, <2>12
    DEF PipeNext, Handle
<1>. QED
  BY <1>1, <1>2, CrashesAreFaults, PTL DEF PipeSpec

\* The variables between the topics keep their types.
THEOREM PipeTypeCorrect == PipeSpec => []PipeTypeOK
BY PipeFacts, PTL

\* The topic back to the frontier loses nothing.
LEMMA ReachedStays ==
  ASSUME PipeTypeOK, PipeTypeOK',
         \/ UNCHANGED <<known, toFrontier>>
         \/ FrontierTakes
         \/ \E u \in Urls : toFrontier' = Append(toFrontier, u) /\ known' = known,
         NEW v \in Urls, Reached(v)
  PROVE  Reached(v)'
<1>1. CASE UNCHANGED <<known, toFrontier>>
  BY <1>1 DEF Reached
<1>2. CASE FrontierTakes
  <2>1. /\ toFrontier \in Seq(Urls) /\ toFrontier # <<>> /\ toFrontier' = Tail(toFrontier)
        /\ known' = known \cup {Head(toFrontier)}
    BY <1>2 DEF FrontierTakes, PipeTypeOK
  <2>2. ASSUME NEW i \in DOMAIN toFrontier, toFrontier[i] = v PROVE Reached(v)'
    <3>1. CASE i = 1
      BY <2>1, <2>2, <3>1 DEF Reached
    <3>2. CASE i # 1
      <4>1. i - 1 \in DOMAIN toFrontier' /\ toFrontier'[i - 1] = v
        BY <2>1, <2>2, <3>2
      <4>. QED
        BY <4>1 DEF Reached
    <3>. QED
      BY <3>1, <3>2
  <2>. QED
    BY <2>1, <2>2 DEF Reached
<1>3. ASSUME NEW u \in Urls, toFrontier' = Append(toFrontier, u), known' = known
      PROVE  Reached(v)'
  <2>1. toFrontier \in Seq(Urls)
    BY DEF PipeTypeOK
  <2>2. ASSUME NEW i \in DOMAIN toFrontier, toFrontier[i] = v
        PROVE  i \in DOMAIN toFrontier' /\ toFrontier'[i] = v
    BY <1>3, <2>1, <2>2
  <2>. QED
    BY <1>3, <2>2 DEF Reached
<1>. QED
  BY <1>1, <1>2, <1>3

\* What is put into the topic is there.
LEMMA SentIsReached ==
  ASSUME PipeTypeOK, NEW u \in Urls, toFrontier' = Append(toFrontier, u)
  PROVE  Reached(u)'
<1>1. toFrontier \in Seq(Urls)
  BY DEF PipeTypeOK
<1>2. Len(toFrontier) + 1 \in DOMAIN toFrontier' /\ toFrontier'[Len(toFrontier) + 1] = u
  BY <1>1
<1>. QED
  BY <1>2 DEF Reached

\* A step that neither publishes nor reports a page.
LEMMA ReportsKept ==
  ASSUME PipeTypeOK, PipeTypeOK', ReportsInv,
         UNCHANGED <<sent, crawled>>, crashes <= crashes',
         \A u \in known : u \in known',
         \A v \in Urls : Reached(v) => Reached(v)',
         \A u \in Urls : Live(u)' => crawled[u] <= crashes',
         \A u \in Urls : AtStep(u, "links")' =>
           crawled[u] < sent[u] /\ \A v \in Links[u] \ work'[u].todo : Reached(v)',
         \A u \in Urls : AtStep(u, "last")' =>
           crawled[u] < sent[u] /\ \A v \in Links[u] : Reached(v)'
  PROVE  ReportsInv'
<1>. SUFFICES ASSUME NEW u \in Urls
     PROVE  /\ crawled'[u] <= sent'[u] /\ crawled'[u] <= 1 + crashes'
            /\ Live(u)' => crawled'[u] <= crashes'
            /\ AtStep(u, "links")' \/ AtStep(u, "last")' => crawled'[u] < sent'[u]
            /\ crawled'[u] > 0 => u \in known' /\ \A v \in Links[u] : Reached(v)'
            /\ AtStep(u, "links")' => \A v \in Links[u] \ work'[u].todo : Reached(v)'
            /\ AtStep(u, "last")' => \A v \in Links[u] : Reached(v)'
  BY DEF ReportsInv
<1>1. Links[u] \subseteq Urls /\ crawled[u] \in Nat /\ crashes \in Nat /\ crashes' \in Nat
  BY PipelineAssumption DEF PipeTypeOK
<1>2. crawled[u] <= sent[u] /\ crawled[u] <= 1 + crashes'
  BY <1>1 DEF ReportsInv
<1>3. crawled[u] > 0 => u \in known' /\ \A v \in Links[u] : Reached(v)'
  BY <1>1 DEF ReportsInv
<1>. QED
  BY <1>2, <1>3

LEMMA ReportsStep ==
  ASSUME PipeTypeOK, PipeTypeOK', PlacesInv, ReportsInv, PipeNext
  PROVE  ReportsInv'
<1>. USE PipelineAssumption
<1>0. ASSUME UNCHANGED <<known, toFrontier>> PROVE \A v \in Urls : Reached(v) => Reached(v)'
  BY <1>0, ReachedStays
<1>1. CASE FrontierTakes
  <2>1. \A v \in Urls : Reached(v) => Reached(v)'
    BY <1>1, ReachedStays
  <2>2. /\ known' = known \cup {Head(toFrontier)} /\ UNCHANGED <<sent, crawled, crashes, work>>
        /\ UNCHANGED <<toCrawl, held>>
        /\ waiting' = IF Head(toFrontier) \in known THEN waiting
                      ELSE waiting \cup {Head(toFrontier)}
    BY <1>1 DEF FrontierTakes
  <2>3. \A u \in Urls : Live(u)' => crawled[u] <= crashes'
    BY <2>2 DEF PipeTypeOK, ReportsInv, Live, InHand
  <2>4. \A u \in Urls : AtStep(u, "links")' => AtStep(u, "links")
    BY <2>2 DEF AtStep
  <2>5. \A u \in Urls : AtStep(u, "last")' => AtStep(u, "last")
    BY <2>2 DEF AtStep
  <2>6. \A u \in Urls : AtStep(u, "links")' =>
           crawled[u] < sent[u] /\ \A v \in Links[u] \ work'[u].todo : Reached(v)'
    BY <2>1, <2>2, <2>4 DEF ReportsInv
  <2>7. \A u \in Urls : AtStep(u, "last")' =>
           crawled[u] < sent[u] /\ \A v \in Links[u] : Reached(v)'
    BY <2>1, <2>2, <2>5 DEF ReportsInv
  <2>8. crashes <= crashes'
    BY <2>2 DEF PipeTypeOK
  <2>. QED
    BY <2>1, <2>2, <2>3, <2>6, <2>7, <2>8, ReportsKept
<1>2. CASE FrontierDispatches \/ Poll \/ ContentTakes \/ ContentReports \/ ApiTakesEvent
           \/ Quit \/ Restart
  <2>1. UNCHANGED <<known, toFrontier, sent, crawled, crashes, work>>
    BY <1>2 DEF FrontierDispatches, Poll, ContentTakes, ContentReports, ApiTakesEvent, Quit,
                Restart
  <2>2. \A u \in Urls : Live(u)' => Live(u)
    BY <1>2 DEF FrontierDispatches, Poll, ContentTakes, ContentReports, ApiTakesEvent, Quit,
                Restart, Live, InHand
  <2>3. \A u \in Urls : Live(u)' => crawled[u] <= crashes'
    BY <2>1, <2>2 DEF ReportsInv
  <2>4. \A u \in Urls : /\ AtStep(u, "links")' => AtStep(u, "links")
                        /\ AtStep(u, "last")' => AtStep(u, "last")
    BY <2>1 DEF AtStep
  <2>5. \A u \in Urls : AtStep(u, "links")' =>
           crawled[u] < sent[u] /\ \A v \in Links[u] \ work'[u].todo : Reached(v)'
    BY <1>0, <2>1, <2>4 DEF ReportsInv
  <2>6. \A u \in Urls : AtStep(u, "last")' =>
           crawled[u] < sent[u] /\ \A v \in Links[u] : Reached(v)'
    BY <1>0, <2>1, <2>4 DEF ReportsInv
  <2>7. crashes <= crashes'
    BY <2>1 DEF PipeTypeOK
  <2>. QED
    BY <1>0, <2>1, <2>3, <2>5, <2>6, <2>7, ReportsKept
<1>3. CASE Spawn
  <2>1. UNCHANGED <<known, toFrontier, sent, crawled, crashes, waiting, toCrawl>>
    BY <1>3 DEF Spawn
  <2>2. held \in Urls /\ held' = Idle /\ Goto(held, "sitemap", {}) /\ {} \in SUBSET Urls
    BY <1>3 DEF Spawn, PipeTypeOK
  <2>3. /\ work'[held] = [step |-> "sitemap", todo |-> {}]
        /\ \A v \in Urls : v # held => work'[v] = work[v]
    BY <2>2, GotoType DEF Steps
  <2>4. \A u \in Urls : Live(u)' => Live(u)
    BY <2>1, <2>2, <2>3, IdleAssumption DEF Live, InHand
  <2>5. \A u \in Urls : /\ AtStep(u, "links")' => AtStep(u, "links") /\ u # held
                        /\ AtStep(u, "last")' => AtStep(u, "last") /\ u # held
    BY <2>3 DEF AtStep
  <2>6. \A u \in Urls : AtStep(u, "links")' =>
           crawled[u] < sent[u] /\ \A v \in Links[u] \ work'[u].todo : Reached(v)'
    BY <1>0, <2>1, <2>3, <2>5 DEF ReportsInv
  <2>7. \A u \in Urls : AtStep(u, "last")' =>
           crawled[u] < sent[u] /\ \A v \in Links[u] : Reached(v)'
    BY <1>0, <2>1, <2>5 DEF ReportsInv
  <2>8. crashes <= crashes' /\ \A u \in Urls : Live(u)' => crawled[u] <= crashes'
    BY <2>1, <2>4 DEF PipeTypeOK, ReportsInv
  <2>. QED
    BY <1>0, <2>1, <2>6, <2>7, <2>8, ReportsKept
<1>4. CASE Crash
  <2>1. UNCHANGED <<known, toFrontier, sent, crawled, waiting>> /\ crashes' = crashes + 1
    BY <1>4 DEF Crash
  <2>2. \A u \in Urls : ~AtStep(u, "links")' /\ ~AtStep(u, "last")' /\ ~InHand(u)'
    BY <1>4, IdleAssumption DEF Crash, AtStep, InHand
  <2>3. PICK again \in SUBSET {u \in Urls : InHand(u)} : toCrawl' = toCrawl \cup again
    BY <1>4 DEF Crash
  <2>4. \A u \in Urls : Live(u)' => Live(u)
    BY <2>1, <2>2, <2>3 DEF Live
  <2>5. crashes <= crashes' /\ \A u \in Urls : Live(u)' => crawled[u] <= crashes'
    BY <2>1, <2>4 DEF PipeTypeOK, ReportsInv
  <2>. QED
    BY <1>0, <2>1, <2>2, <2>5, ReportsKept
<1>5. ASSUME NEW u \in Urls, UNCHANGED <<known, sent, crawled, crashes, waiting, toCrawl, held>>,
             work[u] # Idle, \A v \in Urls : v # u => work'[v] = work[v],
             \A v \in Urls : Reached(v) => Reached(v)',
             AtStep(u, "links")' => /\ AtStep(u, "links")
                                    /\ \A v \in work[u].todo \ work'[u].todo : Reached(v)',
             AtStep(u, "last")' =>
               AtStep(u, "links") /\ \A v \in work[u].todo : Reached(v)'
      PROVE  ReportsInv'
  <2>1. \A w \in Urls : Live(w)' => Live(w)
    BY <1>5 DEF Live, InHand
  <2>2. \A w \in Urls : AtStep(w, "links")' =>
           crawled[w] < sent[w] /\ \A v \in Links[w] \ work'[w].todo : Reached(v)'
    <3>1. ASSUME NEW w \in Urls, AtStep(w, "links")', w # u
          PROVE  crawled[w] < sent[w] /\ \A v \in Links[w] \ work'[w].todo : Reached(v)'
      BY <1>5, <3>1 DEF ReportsInv, AtStep
    <3>2. ASSUME AtStep(u, "links")'
          PROVE  crawled[u] < sent[u] /\ \A v \in Links[u] \ work'[u].todo : Reached(v)'
      BY <1>5, <3>2 DEF ReportsInv
    <3>. QED
      BY <3>1, <3>2
  <2>3. \A w \in Urls : AtStep(w, "last")' =>
           crawled[w] < sent[w] /\ \A v \in Links[w] : Reached(v)'
    <3>1. ASSUME NEW w \in Urls, AtStep(w, "last")', w # u
          PROVE  crawled[w] < sent[w] /\ \A v \in Links[w] : Reached(v)'
      BY <1>5, <3>1 DEF ReportsInv, AtStep
    <3>2. ASSUME AtStep(u, "last")'
          PROVE  crawled[u] < sent[u] /\ \A v \in Links[u] : Reached(v)'
      BY <1>5, <3>2 DEF ReportsInv
    <3>. QED
      BY <3>1, <3>2
  <2>4. crashes <= crashes' /\ \A w \in Urls : Live(w)' => crawled[w] <= crashes'
    BY <1>5, <2>1 DEF PipeTypeOK, ReportsInv
  <2>. QED
    BY <1>5, <2>2, <2>3, <2>4, ReportsKept
<1>6. ASSUME NEW u \in Urls, DiscoverSitemaps(u) \/ Fetch(u) \/ SendFails(u) PROVE ReportsInv'
  <2>1. /\ UNCHANGED <<known, toFrontier, sent, crawled, crashes, waiting, toCrawl, held>>
        /\ work[u] # Idle
    BY <1>6 DEF DiscoverSitemaps, Fetch, SendFails, HandlerOnly, AtStep
  <2>2. /\ \A v \in Urls : v # u => work'[v] = work[v]
        /\ ~AtStep(u, "links")' /\ ~AtStep(u, "last")'
    <3>1. CASE SendFails(u)
      <4>1. work' = [work EXCEPT ![u] = Idle]
        BY <3>1 DEF SendFails
      <4>. QED
        BY <4>1, LeaveType DEF AtStep
    <3>2. CASE DiscoverSitemaps(u) \/ Fetch(u)
      <4>1. PICK step \in {"map", "fetch", "page", "close"}, todo \in SUBSET Urls :
              Goto(u, step, todo)
        BY <3>2 DEF DiscoverSitemaps, Fetch
      <4>2. step \in Steps /\ step # "links" /\ step # "last"
        BY DEF Steps
      <4>3. /\ work'[u] = [step |-> step, todo |-> todo]
            /\ \A v \in Urls : v # u => work'[v] = work[v]
        BY <4>1, <4>2, GotoType
      <4>. QED
        BY <4>2, <4>3 DEF AtStep
    <3>. QED
      BY <1>6, <3>1, <3>2
  <2>. QED
    BY <1>0, <1>5, <2>1, <2>2
<1>7. ASSUME NEW u \in Urls, SendSitemapUrl(u) PROVE ReportsInv'
  <2>1. /\ UNCHANGED <<known, sent, crawled, crashes, waiting, toCrawl, held>>
        /\ work[u] # Idle /\ work[u].todo \subseteq Urls
    BY <1>7, TodoType DEF SendSitemapUrl, HandlerOnly
  <2>2. PICK v \in work[u].todo, step \in {"fetch", "map"} :
          /\ Goto(u, step, work[u].todo \ {v})
          /\ toFrontier' = toFrontier \/ toFrontier' = Append(toFrontier, v)
    BY <1>7 DEF SendSitemapUrl
  <2>3. step \in Steps /\ step # "links" /\ step # "last"
    BY DEF Steps
  <2>4. /\ work'[u] = [step |-> step, todo |-> work[u].todo \ {v}]
        /\ \A w \in Urls : w # u => work'[w] = work[w]
    BY <2>1, <2>2, <2>3, GotoType
  <2>5. ~AtStep(u, "links")' /\ ~AtStep(u, "last")'
    BY <2>3, <2>4 DEF AtStep
  <2>6. \A w \in Urls : Reached(w) => Reached(w)'
    BY <2>1, <2>2, ReachedStays
  <2>. QED
    BY <1>5, <2>1, <2>4, <2>5, <2>6
<1>8. ASSUME NEW u \in Urls, SendLink(u) PROVE ReportsInv'
  <2>1. /\ UNCHANGED <<known, sent, crawled, crashes, waiting, toCrawl, held>>
        /\ AtStep(u, "links") /\ work[u] # Idle /\ work[u].todo \subseteq Urls
    BY <1>8, TodoType DEF SendLink, HandlerOnly
  <2>2. PICK v \in work[u].todo :
          /\ Goto(u, IF work[u].todo = {v} THEN "last" ELSE "links", work[u].todo \ {v})
          /\ toFrontier' = Append(toFrontier, v)
    BY <1>8 DEF SendLink
  <2>. DEFINE next == IF work[u].todo = {v} THEN "last" ELSE "links"
  <2>3. next \in Steps /\ work[u].todo \ {v} \in SUBSET Urls /\ Goto(u, next, work[u].todo \ {v})
    BY <2>1, <2>2 DEF Steps
  <2>4. /\ work'[u] = [step |-> next, todo |-> work[u].todo \ {v}]
        /\ \A w \in Urls : w # u => work'[w] = work[w]
    <3>. HIDE DEF next
    <3>. QED
      BY <2>3, GotoType
  <2>5. \A w \in Urls : Reached(w) => Reached(w)'
    BY <2>1, <2>2, ReachedStays
  <2>6. Reached(v)'
    BY <2>1, <2>2, SentIsReached
  <2>7. AtStep(u, "links")' => \A w \in work[u].todo \ work'[u].todo : Reached(w)'
    BY <2>4, <2>6
  <2>8. AtStep(u, "last")' => \A w \in work[u].todo : Reached(w)'
    BY <2>4, <2>6 DEF AtStep
  <2>. QED
    BY <1>5, <2>1, <2>4, <2>5, <2>7, <2>8
<1>9. ASSUME NEW u \in Urls, SendPage(u) PROVE ReportsInv'
  <2>1. /\ UNCHANGED <<known, toFrontier, crawled, crashes, waiting, toCrawl, held>>
        /\ sent' = [sent EXCEPT ![u] = @ + 1] /\ work[u] # Idle
        /\ Goto(u, IF Links[u] = {} THEN "last" ELSE "links", Links[u])
    BY <1>9 DEF SendPage, HandlerOnly, AtStep
  <2>2. (IF Links[u] = {} THEN "last" ELSE "links") \in Steps /\ Links[u] \in SUBSET Urls
    BY DEF Steps
  <2>3. /\ work'[u] = [step |-> IF Links[u] = {} THEN "last" ELSE "links", todo |-> Links[u]]
        /\ \A w \in Urls : w # u => work'[w] = work[w]
    BY <2>1, <2>2, GotoType
  <2>4. /\ sent'[u] = sent[u] + 1 /\ \A w \in Urls : w # u => sent'[w] = sent[w]
        /\ \A w \in Urls : sent[w] \in Nat /\ crawled[w] \in Nat
    BY <2>1 DEF PipeTypeOK
  <2>5. \A w \in Urls : Live(w)' => Live(w)
    BY <2>1, <2>3 DEF Live, InHand
  <2>6. \A w \in Urls : Reached(w) => Reached(w)'
    BY <1>0, <2>1
  <2>. SUFFICES ASSUME NEW w \in Urls
       PROVE  /\ crawled'[w] <= sent'[w] /\ crawled'[w] <= 1 + crashes'
              /\ Live(w)' => crawled'[w] <= crashes'
              /\ AtStep(w, "links")' \/ AtStep(w, "last")' => crawled'[w] < sent'[w]
              /\ crawled'[w] > 0 => w \in known' /\ \A v \in Links[w] : Reached(v)'
              /\ AtStep(w, "links")' => \A v \in Links[w] \ work'[w].todo : Reached(v)'
              /\ AtStep(w, "last")' => \A v \in Links[w] : Reached(v)'
    BY DEF ReportsInv
  <2>7. CASE w = u
    BY <2>1, <2>3, <2>4, <2>5, <2>6, <2>7 DEF ReportsInv, AtStep
  <2>8. CASE w # u
    BY <2>1, <2>3, <2>4, <2>5, <2>6, <2>8 DEF ReportsInv, AtStep
  <2>. QED
    BY <2>7, <2>8
<1>10. ASSUME NEW u \in Urls, Report(u) PROVE ReportsInv'
  <2>1. /\ UNCHANGED <<known, toFrontier, sent, crashes, waiting, toCrawl, held>>
        /\ crawled' = IF AtStep(u, "last") THEN [crawled EXCEPT ![u] = @ + 1] ELSE crawled
        /\ work[u] # Idle /\ work' = [work EXCEPT ![u] = Idle]
    BY <1>10 DEF Report, HandlerOnly, AtStep
  <2>2. work'[u] = Idle /\ \A w \in Urls : w # u => work'[w] = work[w]
    BY <2>1, LeaveType
  <2>3. /\ crawled'[u] = crawled[u] + (IF AtStep(u, "last") THEN 1 ELSE 0)
        /\ \A w \in Urls : w # u => crawled'[w] = crawled[w]
        /\ \A w \in Urls : sent[w] \in Nat /\ crawled[w] \in Nat
    BY <2>1 DEF PipeTypeOK
  <2>4. \A w \in Urls : Live(w)' => Live(w) /\ w # u
    BY <2>1, <2>2 DEF Live, InHand, PlacesInv
  <2>5. Live(u) /\ u \in known
    BY <2>1 DEF Live, InHand, PlacesInv
  <2>6. \A w \in Urls : Reached(w) => Reached(w)'
    BY <1>0, <2>1
  <2>. SUFFICES ASSUME NEW w \in Urls
       PROVE  /\ crawled'[w] <= sent'[w] /\ crawled'[w] <= 1 + crashes'
              /\ Live(w)' => crawled'[w] <= crashes'
              /\ AtStep(w, "links")' \/ AtStep(w, "last")' => crawled'[w] < sent'[w]
              /\ crawled'[w] > 0 => w \in known' /\ \A v \in Links[w] : Reached(v)'
              /\ AtStep(w, "links")' => \A v \in Links[w] \ work'[w].todo : Reached(v)'
              /\ AtStep(w, "last")' => \A v \in Links[w] : Reached(v)'
    BY DEF ReportsInv
  <2>7. CASE w = u
    <3>1. ~AtStep(u, "links")' /\ ~AtStep(u, "last")' /\ ~Live(u)'
      BY <2>2, <2>4 DEF AtStep
    <3>2. /\ crawled'[u] <= sent'[u] /\ crawled'[u] <= 1 + crashes'
      BY <2>1, <2>3, <2>5 DEF ReportsInv, PipeTypeOK
    <3>3. crawled'[u] > 0 => \A v \in Links[u] : Reached(v)'
      BY <2>3, <2>6 DEF ReportsInv
    <3>. QED
      BY <2>1, <2>5, <2>7, <3>1, <3>2, <3>3
  <2>8. CASE w # u
    BY <2>1, <2>2, <2>3, <2>4, <2>6, <2>8 DEF ReportsInv, AtStep
  <2>. QED
    BY <2>7, <2>8
<1>. QED
  BY <1>1, <1>2, <1>3, <1>4, <1>6, <1>7, <1>8, <1>9, <1>10 DEF PipeNext, Handle

\* What is in hand is at most one message for each permit and one more.
LEMMA InHandBound ==
  ASSUME PipeTypeOK, LossInv
  PROVE  /\ IsFiniteSet({u \in Urls : InHand(u)})
         /\ Cardinality({u \in Urls : InHand(u)}) <= Concurrency + 1
<1>1. {u \in Urls : InHand(u)} \subseteq AtWork \cup {held}
  BY DEF InHand, AtWork
<1>2. /\ IsFiniteSet({u \in Urls : InHand(u)})
      /\ Cardinality({u \in Urls : InHand(u)}) <= Cardinality(AtWork) + 1
  BY <1>1, OneMore DEF LossInv
<1>3. Cardinality({u \in Urls : InHand(u)}) \in Nat /\ Cardinality(AtWork) \in Nat
  BY <1>2, FS_CardinalityType DEF LossInv
<1>. QED
  BY <1>2, <1>3, PipelineAssumption DEF LossInv

\* A step that starts no handler and gives nothing up.
LEMMA LossKept ==
  ASSUME PipeTypeOK, LossInv, AtWork' \subseteq AtWork,
         UNCHANGED <<dropped, crashes>>, busFaults' \in {busFaults, busFaults + 1},
         \A u \in known' : Live(u)' \/ crawled'[u] > 0 \/ u \in closed' \/ u \in dropped
  PROVE  LossInv'
<1>1. IsFiniteSet(AtWork') /\ Cardinality(AtWork') <= Cardinality(AtWork)
  BY FS_Subset DEF LossInv
<1>2. Cardinality(AtWork) \in Nat /\ Cardinality(AtWork') \in Nat /\ Cardinality(dropped) \in Nat
  BY <1>1, FS_CardinalityType DEF LossInv
<1>3. Cardinality(AtWork') <= Concurrency
  BY <1>1, <1>2, PipelineAssumption DEF LossInv
<1>. DEFINE kept == crashes * Concurrency
<1>4. kept \in Int /\ busFaults \in Nat
  BY PipelineAssumption DEF PipeTypeOK
<1>5. Cardinality(dropped) <= busFaults + kept
  BY DEF LossInv
<1>6. kept' = kept
  OBVIOUS
<1>. HIDE DEF kept
<1>7. Cardinality(dropped) <= busFaults' + kept
  BY <1>2, <1>4, <1>5
<1>8. Cardinality(dropped') <= busFaults' + crashes' * Concurrency
  BY <1>7 DEF kept
<1>. QED
  BY <1>1, <1>3, <1>8 DEF LossInv

LEMMA LossStep ==
  ASSUME PipeTypeOK, PipeTypeOK', PlacesInv, LossInv, PipeNext
  PROVE  LossInv'
<1>. USE PipelineAssumption
<1>1. CASE FrontierTakes
  <2>1. /\ known' = known \cup {Head(toFrontier)}
        /\ UNCHANGED <<crawled, crashes, work, toCrawl, held, closed, dropped, busFaults>>
        /\ waiting' = IF Head(toFrontier) \in known THEN waiting
                      ELSE waiting \cup {Head(toFrontier)}
    BY <1>1 DEF FrontierTakes
  <2>2. \A u \in known' : Live(u)' \/ crawled'[u] > 0 \/ u \in closed' \/ u \in dropped
    BY <2>1 DEF LossInv, Live, InHand
  <2>3. AtWork' \subseteq AtWork
    BY <2>1 DEF AtWork
  <2>. QED
    BY <2>1, <2>2, <2>3, LossKept
<1>2. CASE FrontierDispatches \/ Poll \/ ContentTakes \/ ContentReports \/ ApiTakesEvent
           \/ Quit \/ Restart
  <2>1. UNCHANGED <<known, crawled, closed, dropped, crashes, busFaults, work>>
    BY <1>2 DEF FrontierDispatches, Poll, ContentTakes, ContentReports, ApiTakesEvent, Quit,
                Restart
  <2>2. \A u \in Urls : Live(u) => Live(u)'
    <3>1. CASE FrontierDispatches
      BY <3>1 DEF FrontierDispatches, Live, InHand
    <3>2. CASE Poll
      BY <3>2, IdleAssumption DEF Poll, Live, InHand
    <3>3. CASE ContentTakes \/ ContentReports \/ ApiTakesEvent \/ Quit \/ Restart
      <4>1. UNCHANGED <<waiting, toCrawl, held, work>>
        BY <3>3 DEF ContentTakes, ContentReports, ApiTakesEvent, Quit, Restart
      <4>. QED
        BY <4>1 DEF Live, InHand
    <3>. QED
      BY <1>2, <3>1, <3>2, <3>3
  <2>3. \A u \in known' : Live(u)' \/ crawled'[u] > 0 \/ u \in closed' \/ u \in dropped
    BY <2>1, <2>2 DEF LossInv, PipeTypeOK
  <2>4. AtWork' \subseteq AtWork
    BY <2>1 DEF AtWork
  <2>. QED
    BY <2>1, <2>3, <2>4, LossKept
<1>3. CASE Spawn
  <2>1. UNCHANGED <<known, crawled, closed, dropped, crashes, busFaults, waiting, toCrawl>>
    BY <1>3 DEF Spawn
  <2>2. /\ held \in Urls /\ held' = Idle /\ Goto(held, "sitemap", {}) /\ {} \in SUBSET Urls
        /\ Cardinality(AtWork) < Concurrency
    BY <1>3 DEF Spawn, PipeTypeOK, AtWork
  <2>3. work'[held] # Idle /\ \A v \in Urls : v # held => work'[v] = work[v]
    BY <2>2, GotoType DEF Steps
  <2>4. AtWork' \subseteq AtWork \cup {held}
    BY <2>3 DEF AtWork
  <2>5. IsFiniteSet(AtWork') /\ Cardinality(AtWork') <= Cardinality(AtWork) + 1
    BY <2>4, OneMore DEF LossInv
  <2>6. Cardinality(AtWork) \in Nat /\ Cardinality(AtWork') \in Nat
    BY <2>5, FS_CardinalityType DEF LossInv
  <2>7. Cardinality(AtWork') <= Concurrency
    BY <2>2, <2>5, <2>6
  <2>8. \A u \in Urls : Live(u) => Live(u)'
    BY <2>1, <2>2, <2>3 DEF Live, InHand
  <2>9. \A u \in known' : Live(u)' \/ crawled'[u] > 0 \/ u \in closed' \/ u \in dropped'
    BY <2>1, <2>8 DEF LossInv, PipeTypeOK
  <2>. QED
    BY <2>1, <2>5, <2>7, <2>9 DEF LossInv
<1>4. CASE Crash
  <2>. DEFINE hand == {u \in Urls : InHand(u)}
  <2>1. PICK again \in SUBSET hand :
          toCrawl' = toCrawl \cup again /\ dropped' = dropped \cup (hand \ again)
    BY <1>4 DEF Crash
  <2>2. /\ UNCHANGED <<known, crawled, closed, waiting>>
        /\ crashes' = crashes + 1 /\ busFaults' = busFaults + 1
        /\ \A u \in Urls : work'[u] = Idle
    BY <1>4 DEF Crash
  <2>3. IsFiniteSet(AtWork') /\ Cardinality(AtWork') <= Concurrency
    <3>1. AtWork' = {}
      BY <2>2 DEF AtWork
    <3>. QED
      BY <3>1, FS_EmptySet
  <2>4. IsFiniteSet(hand) /\ Cardinality(hand) <= Concurrency + 1
    BY InHandBound
  <2>5. IsFiniteSet(dropped') /\ Cardinality(dropped') <= Cardinality(dropped) + Cardinality(hand)
    <3>1. dropped' \subseteq dropped \cup hand
      BY <2>1
    <3>. HIDE DEF hand
    <3>. QED
      BY <3>1, <2>4, UnionBound DEF LossInv
  <2>6. Cardinality(dropped') <= busFaults' + crashes' * Concurrency
    <3>. DEFINE kept == crashes * Concurrency
    <3>1. Cardinality(dropped) <= busFaults + kept
      BY DEF LossInv
    <3>2. crashes' * Concurrency = kept + Concurrency /\ kept \in Int
      BY <2>2 DEF PipeTypeOK
    <3>3. /\ Cardinality(dropped) \in Nat /\ Cardinality(hand) \in Nat
          /\ Cardinality(dropped') \in Nat /\ busFaults \in Nat
      BY <2>4, <2>5, FS_CardinalityType DEF LossInv, PipeTypeOK
    <3>. HIDE DEF kept, hand
    <3>. QED
      BY <2>2, <2>4, <2>5, <3>1, <3>2, <3>3
  <2>7. \A u \in known' : Live(u)' \/ crawled'[u] > 0 \/ u \in closed' \/ u \in dropped'
    <3>1. ASSUME NEW u \in known, Live(u) PROVE Live(u)' \/ u \in dropped'
      BY <2>1, <2>2, <3>1 DEF Live, PipeTypeOK
    <3>. QED
      BY <2>1, <2>2, <3>1 DEF LossInv
  <2>. QED
    BY <2>3, <2>5, <2>6, <2>7 DEF LossInv
<1>5. ASSUME NEW u \in Urls, DiscoverSitemaps(u) \/ Fetch(u) \/ SendSitemapUrl(u) \/ SendLink(u)
                             \/ SendPage(u)
      PROVE  LossInv'
  <2>1. /\ UNCHANGED <<known, crawled, closed, dropped, crashes, waiting, toCrawl, held>>
        /\ busFaults' \in {busFaults, busFaults + 1} /\ work[u] # Idle
    BY <1>5 DEF DiscoverSitemaps, Fetch, SendSitemapUrl, SendLink, SendPage, HandlerOnly, AtStep
  <2>2. PICK step \in Steps, todo \in SUBSET Urls : Goto(u, step, todo)
    <3>1. CASE DiscoverSitemaps(u) \/ Fetch(u)
      BY <3>1 DEF DiscoverSitemaps, Fetch, Steps
    <3>2. CASE SendPage(u)
      BY <3>2 DEF SendPage, Steps
    <3>3. CASE SendSitemapUrl(u) \/ SendLink(u)
      <4>1. \E step \in Steps, v \in work[u].todo : Goto(u, step, work[u].todo \ {v})
        BY <3>3 DEF SendSitemapUrl, SendLink, Steps
      <4>2. work[u].todo \subseteq Urls
        BY <3>3, TodoType DEF SendSitemapUrl, SendLink
      <4>. QED
        BY <4>1, <4>2
    <3>. QED
      BY <1>5, <3>1, <3>2, <3>3
  <2>3. work'[u] # Idle /\ \A v \in Urls : v # u => work'[v] = work[v]
    BY <2>2, GotoType
  <2>4. AtWork' \subseteq AtWork
    BY <2>1, <2>3 DEF AtWork
  <2>5. \A v \in Urls : Live(v) => Live(v)'
    BY <2>1, <2>3 DEF Live, InHand
  <2>6. \A v \in known' : Live(v)' \/ crawled'[v] > 0 \/ v \in closed' \/ v \in dropped
    BY <2>1, <2>5 DEF LossInv, PipeTypeOK
  <2>. QED
    BY <2>1, <2>4, <2>6, LossKept
<1>6. ASSUME NEW u \in Urls, Report(u) PROVE LossInv'
  <2>1. /\ UNCHANGED <<known, dropped, crashes, busFaults, waiting, toCrawl, held>>
        /\ work' = [work EXCEPT ![u] = Idle] /\ (AtStep(u, "last") \/ AtStep(u, "close"))
        /\ crawled' = IF AtStep(u, "last") THEN [crawled EXCEPT ![u] = @ + 1] ELSE crawled
        /\ closed' = IF AtStep(u, "close") THEN closed \cup {u} ELSE closed
    BY <1>6 DEF Report, HandlerOnly
  <2>2. work'[u] = Idle /\ \A v \in Urls : v # u => work'[v] = work[v]
    BY <2>1, LeaveType
  <2>3. AtWork' \subseteq AtWork
    BY <2>2 DEF AtWork
  <2>4. \A v \in known : v # u => (Live(v) => Live(v)')
    BY <2>1, <2>2 DEF Live, InHand, PipeTypeOK
  <2>5. crawled'[u] > 0 \/ u \in closed'
    BY <2>1 DEF PipeTypeOK
  <2>6. \A v \in known' : Live(v)' \/ crawled'[v] > 0 \/ v \in closed' \/ v \in dropped
    BY <2>1, <2>4, <2>5 DEF LossInv, PipeTypeOK
  <2>. QED
    BY <2>1, <2>3, <2>6, LossKept
<1>7. ASSUME NEW u \in Urls, SendFails(u) PROVE LossInv'
  <2>1. /\ UNCHANGED <<known, crawled, closed, crashes, waiting, toCrawl, held>>
        /\ work' = [work EXCEPT ![u] = Idle] /\ dropped' = dropped \cup {u}
        /\ busFaults' = busFaults + 1
    BY <1>7 DEF SendFails, HandlerOnly
  <2>2. work'[u] = Idle /\ \A v \in Urls : v # u => work'[v] = work[v]
    BY <2>1, LeaveType
  <2>3. AtWork' \subseteq AtWork
    BY <2>2 DEF AtWork
  <2>4. IsFiniteSet(AtWork') /\ Cardinality(AtWork') <= Concurrency
    <3>1. IsFiniteSet(AtWork') /\ Cardinality(AtWork') <= Cardinality(AtWork)
      BY <2>3, FS_Subset DEF LossInv
    <3>2. Cardinality(AtWork) \in Nat /\ Cardinality(AtWork') \in Nat
      BY <3>1, FS_CardinalityType DEF LossInv
    <3>. QED
      BY <3>1, <3>2 DEF LossInv
  <2>5. IsFiniteSet(dropped') /\ Cardinality(dropped') <= Cardinality(dropped) + 1
    BY <2>1, OneMore DEF LossInv
  <2>6. Cardinality(dropped') <= busFaults' + crashes' * Concurrency
    <3>. DEFINE kept == crashes * Concurrency
    <3>1. Cardinality(dropped) <= busFaults + kept
      BY DEF LossInv
    <3>2. crashes' * Concurrency = kept /\ kept \in Int
      BY <2>1 DEF PipeTypeOK
    <3>3. /\ Cardinality(dropped) \in Nat /\ Cardinality(dropped') \in Nat /\ busFaults \in Nat
      BY <2>5, FS_CardinalityType DEF LossInv, PipeTypeOK
    <3>. HIDE DEF kept
    <3>. QED
      BY <2>1, <2>5, <3>1, <3>2, <3>3
  <2>7. \A v \in known : v # u => (Live(v) => Live(v)')
    BY <2>1, <2>2 DEF Live, InHand, PipeTypeOK
  <2>8. \A v \in known' : Live(v)' \/ crawled'[v] > 0 \/ v \in closed' \/ v \in dropped'
    BY <2>1, <2>7 DEF LossInv, PipeTypeOK
  <2>. QED
    BY <2>4, <2>5, <2>6, <2>8 DEF LossInv
<1>. QED
  BY <1>1, <1>2, <1>3, <1>4, <1>5, <1>6, <1>7 DEF PipeNext, Handle

\* Between the topics no URL and no page is lost, nor reported too early, but
\* for what failed sends and crashes explain: process_concurrent and process_url
\* of the crawler worker, on either bus, with any capacity, permits and links.
THEOREM CrawlsAreAccountedFor == PipeSpec => []CrawlIsAccountedFor
<1>1. PipeInit => ReportsInv /\ LossInv
  <2>. SUFFICES ASSUME PipeInit PROVE ReportsInv /\ LossInv
    OBVIOUS
  <2>1. ReportsInv
    BY DEF PipeInit, ReportsInv, AtStep
  <2>2. AtWork = {} /\ dropped = {} /\ busFaults = 0 /\ crashes = 0
    BY DEF PipeInit, AtWork
  <2>3. LossInv
    BY <2>2, FS_EmptySet, PipelineAssumption DEF PipeInit, LossInv, Live
  <2>. QED
    BY <2>1, <2>3
<1>2. /\ PipeTypeOK /\ PlacesInv /\ PipeTypeOK' /\ ReportsInv /\ LossInv /\ [PipeNext]_pipeVars
      => ReportsInv' /\ LossInv'
  <2>. SUFFICES ASSUME PipeTypeOK, PlacesInv, PipeTypeOK', ReportsInv, LossInv,
                       [PipeNext]_pipeVars
                PROVE  ReportsInv' /\ LossInv'
    OBVIOUS
  <2>1. CASE PipeNext
    BY <2>1, ReportsStep, LossStep
  <2>2. CASE UNCHANGED pipeVars
    BY <2>2 DEF pipeVars, ReportsInv, LossInv, Live, InHand, AtStep, AtWork, Reached
  <2>. QED
    BY <2>1, <2>2
<1>3. PipeTypeOK /\ ReportsInv /\ LossInv => CrawlIsAccountedFor
  <2>. SUFFICES ASSUME PipeTypeOK, ReportsInv, LossInv PROVE CrawlIsAccountedFor
    OBVIOUS
  <2>1. CrawledIsPublished
    BY DEF CrawledIsPublished, ReportsInv, Reached
  <2>2. UrlsAreAccountedFor
    BY InHandBound DEF UrlsAreAccountedFor, LossInv, Live
  <2>. QED
    BY <2>1, <2>2 DEF CrawlIsAccountedFor
<1>. QED
  BY <1>1, <1>2, <1>3, PipeFacts, PTL DEF PipeSpec

-----------------------------------------------------------------------------
(* ReplaceCrawl                                                            *)

Documents == {p \in Pages : index[p] # Absent}

StrandedPages == {p \in Pages : Stranded(p)}

JobRecord ==
  [strategy : {"update", "replace"}, state : {"new", "running", "done"},
   alone : BOOLEAN, todo : SUBSET Pages, crawled : BOOLEAN]

\* Nothing but an indexed page adds a document.
LEMMA DocumentsStep ==
  ASSUME ReplaceTypeOK, IsFiniteSet(Documents), [ReplaceNext]_replaceVars
  PROVE  IsFiniteSet(Documents)'
<1>1. CASE UNCHANGED index
  BY <1>1 DEF Documents
<1>2. ASSUME NEW f \in buffered, IndexPage(f) PROVE IsFiniteSet(Documents)'
  <2>1. Documents' \subseteq Documents \cup {f.page}
    BY <1>2 DEF IndexPage, Documents, ReplaceTypeOK
  <2>. QED
    BY <2>1, OneMore
<1>3. ASSUME NEW j \in Jobs, CompleteReplace(j) PROVE IsFiniteSet(Documents)'
  <2>1. Documents' \subseteq Documents
    BY <1>3 DEF CompleteReplace, Documents
  <2>. QED
    BY <2>1, FS_Subset
<1>. QED
  BY <1>1, <1>2, <1>3
  DEF ReplaceNext, replaceVars, StartCrawl, PageChanges, ExpireHistory, FetchPage, FetchFails,
      CompleteUpdate, PublishPage, PublishFails, BatchLost

LEMMA ReplaceFacts == ReplaceSpec => [](ReplaceTypeOK /\ IsFiniteSet(Documents))
<1>. USE ReplaceAssumption
<1>1. ReplaceInit => ReplaceTypeOK /\ IsFiniteSet(Documents)
  <2>. SUFFICES ASSUME ReplaceInit PROVE ReplaceTypeOK /\ IsFiniteSet(Documents)
    OBVIOUS
  <2>0. Documents = {}
    BY DEF ReplaceInit, Documents
  <2>1. jobs \in [Jobs -> JobRecord]
    BY DEF ReplaceInit, JobRecord
  <2>2. 1 \in Versions
    BY DEF Versions
  <2>. QED
    BY <2>0, <2>1, <2>2, FS_EmptySet DEF ReplaceInit, ReplaceTypeOK, JobRecord
<1>2. ReplaceTypeOK /\ IsFiniteSet(Documents) /\ [ReplaceNext]_replaceVars
        => ReplaceTypeOK' /\ IsFiniteSet(Documents)'
  <2>. SUFFICES ASSUME ReplaceTypeOK, IsFiniteSet(Documents), [ReplaceNext]_replaceVars
                PROVE  ReplaceTypeOK'
    BY DocumentsStep
  <2>1. ASSUME NEW j \in Jobs, NEW strategy \in {"update", "replace"}, StartCrawl(j, strategy)
        PROVE  ReplaceTypeOK'
    <3>. DEFINE started == [strategy |-> strategy, state |-> "running", alone |-> Running = {},
                            todo |-> Pages, crawled |-> FALSE]
    <3>1. started \in JobRecord
      BY DEF JobRecord
    <3>2. ASSUME NEW k \in Jobs PROVE [jobs[k] EXCEPT !.alone = @ /\ k \notin Running] \in JobRecord
      BY DEF ReplaceTypeOK, JobRecord
    <3>. HIDE DEF started
    <3>3. jobs' \in [Jobs -> JobRecord]
      BY <2>1, <3>1, <3>2 DEF StartCrawl, started
    <3>. QED
      BY <2>1, <3>3 DEF StartCrawl, ReplaceTypeOK, JobRecord
  <2>2. ASSUME NEW p \in Pages, PageChanges(p) PROVE ReplaceTypeOK'
    BY <2>2 DEF PageChanges, ReplaceTypeOK, Versions
  <2>3. ASSUME NEW p \in Pages, ExpireHistory(p) PROVE ReplaceTypeOK'
    BY <2>3 DEF ExpireHistory, ReplaceTypeOK
  <2>4. ASSUME NEW j \in Jobs, NEW p \in Pages, FetchPage(j, p) PROVE ReplaceTypeOK'
    <3>1. [job |-> j, page |-> p, version |-> site[p]] \in Fetched
      BY DEF ReplaceTypeOK, Fetched
    <3>2. handling' \subseteq Fetched
      BY <2>4, <3>1 DEF FetchPage, ReplaceTypeOK
    <3>. QED
      BY <2>4, <3>2 DEF FetchPage, ReplaceTypeOK
  <2>5. ASSUME NEW j \in Jobs, NEW p \in Pages, FetchFails(j, p) PROVE ReplaceTypeOK'
    BY <2>5 DEF FetchFails, ReplaceTypeOK
  <2>6. ASSUME NEW f \in handling, PublishPage(f) PROVE ReplaceTypeOK'
    BY ZenonT(60), <2>6 DEF PublishPage, ReplaceTypeOK, Fetched
  <2>7. ASSUME NEW f \in handling, PublishFails(f) PROVE ReplaceTypeOK'
    BY <2>7 DEF PublishFails, ReplaceTypeOK, Fetched
  <2>8. ASSUME NEW f \in buffered, IndexPage(f) PROVE ReplaceTypeOK'
    BY <2>8 DEF IndexPage, ReplaceTypeOK, Fetched
  <2>9. ASSUME NEW f \in buffered, BatchLost(f) PROVE ReplaceTypeOK'
    BY <2>9 DEF BatchLost, ReplaceTypeOK
  <2>10. ASSUME NEW j \in Jobs, CompleteUpdate(j) PROVE ReplaceTypeOK'
    BY <2>10 DEF CompleteUpdate, Finished, ReplaceTypeOK
  <2>11. ASSUME NEW j \in Jobs, CompleteReplace(j) PROVE ReplaceTypeOK'
    <3>1. PICK gone \in {StaleFor(j), {}} :
            /\ index' = [p \in Pages |-> IF p \in gone THEN Absent ELSE index[p]]
            /\ mishaps' = mishaps + Cardinality(gone)
      BY <2>11 DEF CompleteReplace
    <3>2. gone \subseteq Documents
      BY DEF StaleFor, Documents
    <3>3. Cardinality(gone) \in Nat
      BY <3>2, FS_Subset, FS_CardinalityType
    <3>4. jobs' \in [Jobs -> JobRecord]
      BY <2>11 DEF CompleteReplace, Finished, ReplaceTypeOK, JobRecord
    <3>. QED
      BY <2>11, <3>1, <3>3, <3>4 DEF CompleteReplace, Finished, ReplaceTypeOK, JobRecord
  <2>12. CASE UNCHANGED replaceVars
    BY <2>12 DEF replaceVars, ReplaceTypeOK
  <2>. QED
    BY <2>1, <2>2, <2>3, <2>4, <2>5, <2>6, <2>7, <2>8, <2>9, <2>10, <2>11, <2>12 DEF ReplaceNext
<1>. QED
  BY <1>1, <1>2, PTL DEF ReplaceSpec

\* The variables of the crawls of one index keep their types.
THEOREM ReplaceTypeCorrect == ReplaceSpec => []ReplaceTypeOK
BY ReplaceFacts, PTL

\* What one step strands beyond the pages stranded before.
LEMMA StrandedBound ==
  ASSUME NEW extra, IsFiniteSet(extra), ReplaceTypeOK,
         IsFiniteSet(StrandedPages), Cardinality(StrandedPages) <= mishaps,
         StrandedPages' \subseteq StrandedPages \cup extra,
         mishaps' = mishaps + Cardinality(extra)
  PROVE  IsFiniteSet(StrandedPages') /\ Cardinality(StrandedPages') <= mishaps'
<1>1. /\ IsFiniteSet(StrandedPages')
      /\ Cardinality(StrandedPages') <= Cardinality(StrandedPages) + Cardinality(extra)
  BY UnionBound
<1>2. /\ Cardinality(StrandedPages) \in Nat /\ Cardinality(StrandedPages') \in Nat
      /\ Cardinality(extra) \in Nat /\ mishaps \in Nat
  BY <1>1, FS_CardinalityType DEF ReplaceTypeOK
<1>. QED
  BY <1>1, <1>2

LEMMA StrandedOne ==
  ASSUME NEW p, ReplaceTypeOK,
         IsFiniteSet(StrandedPages), Cardinality(StrandedPages) <= mishaps,
         StrandedPages' \subseteq StrandedPages \cup {p}, mishaps' = mishaps + 1
  PROVE  IsFiniteSet(StrandedPages') /\ Cardinality(StrandedPages') <= mishaps'
BY StrandedBound, FS_Singleton

LEMMA StrandedNone ==
  ASSUME ReplaceTypeOK, IsFiniteSet(StrandedPages), Cardinality(StrandedPages) <= mishaps,
         StrandedPages' \subseteq StrandedPages, mishaps' = mishaps
  PROVE  IsFiniteSet(StrandedPages') /\ Cardinality(StrandedPages') <= mishaps'
<1>1. mishaps' = mishaps + 0
  BY DEF ReplaceTypeOK
<1>. QED
  BY <1>1, StrandedBound, FS_EmptySet

\* A page whose history says it need not be fetched is in the index in that
\* version or later, or on its way, but for one page for each mishap: the order
\* of update_crawl_history, the publication and the write of the document, with
\* the clean-up of Replace jobs, for any jobs that overlap.
THEOREM SkippedPagesStayIndexed == ReplaceSpec => []SkippedPagesAreIndexed
<1>. DEFINE Inv == IsFiniteSet(StrandedPages) /\ Cardinality(StrandedPages) <= mishaps
<1>1. ReplaceInit => Inv
  <2>. SUFFICES ASSUME ReplaceInit PROVE Inv
    OBVIOUS
  <2>1. StrandedPages = {}
    BY DEF ReplaceInit, StrandedPages, Stranded
  <2>. QED
    BY <2>1, FS_EmptySet DEF ReplaceInit
<1>2. ReplaceTypeOK /\ IsFiniteSet(Documents) /\ Inv /\ [ReplaceNext]_replaceVars => Inv'
  <2>. SUFFICES ASSUME ReplaceTypeOK, IsFiniteSet(Documents), Inv, [ReplaceNext]_replaceVars
                PROVE  Inv'
    OBVIOUS
  <2>1. CASE UNCHANGED <<history, index, buffered, mishaps>>
    <3>1. StrandedPages' = StrandedPages
      BY <2>1 DEF StrandedPages, Stranded
    <3>. QED
      BY <2>1, <3>1
  <2>2. ASSUME NEW p \in Pages, ExpireHistory(p) PROVE Inv'
    <3>1. StrandedPages' \subseteq StrandedPages /\ mishaps' = mishaps
      BY <2>2 DEF ExpireHistory, StrandedPages, Stranded, ReplaceTypeOK
    <3>. QED
      BY <3>1, StrandedNone
  <2>3. ASSUME NEW f \in handling, PublishPage(f) PROVE Inv'
    <3>1. /\ f \in Fetched /\ buffered' = buffered \cup {f} /\ UNCHANGED <<index, mishaps>>
          /\ history' = [history EXCEPT ![f.page] = f.version] \/ history' = history
      BY <2>3 DEF PublishPage, ReplaceTypeOK
    <3>2. StrandedPages' \subseteq StrandedPages
      BY <3>1 DEF StrandedPages, Stranded, ReplaceTypeOK, Fetched, Versions
    <3>. QED
      BY <3>1, <3>2, StrandedNone
  <2>4. ASSUME NEW f \in handling, PublishFails(f) PROVE Inv'
    <3>1. StrandedPages' \subseteq StrandedPages \cup {f.page} /\ mishaps' = mishaps + 1
      BY <2>4 DEF PublishFails, StrandedPages, Stranded, ReplaceTypeOK
    <3>. QED
      BY <3>1, StrandedOne
  <2>5. ASSUME NEW f \in buffered, IndexPage(f) PROVE Inv'
    <3>1. /\ f \in Fetched /\ buffered' = buffered \ {f} /\ UNCHANGED history
          /\ index' = [index EXCEPT ![f.page] = [job |-> f.job, version |-> f.version]]
          /\ mishaps' = IF index[f.page] # Absent /\ index[f.page].version > f.version
                        THEN mishaps + 1 ELSE mishaps
      BY <2>5 DEF IndexPage, ReplaceTypeOK
    <3>2. StrandedPages' \subseteq StrandedPages \cup {f.page}
      BY <3>1 DEF StrandedPages, Stranded, ReplaceTypeOK
    <3>3. CASE index[f.page] # Absent /\ index[f.page].version > f.version
      BY <3>1, <3>2, <3>3, StrandedOne
    <3>4. CASE ~(index[f.page] # Absent /\ index[f.page].version > f.version)
      <4>1. ASSUME f.page \in StrandedPages' PROVE f.page \in StrandedPages
        <5>. DEFINE p == f.page
                    written == [job |-> f.job, version |-> f.version]
        <5>1. p \in Pages /\ index'[p] = written /\ f.version \in Versions
          BY <3>1 DEF ReplaceTypeOK, Fetched
        <5>2. written # Absent /\ written.version = f.version
          BY <3>1, AbsentAssumption DEF Fetched
        <5>3. f.version < history[p] /\ history[p] # Absent
          BY <3>1, <4>1, <5>1, <5>2 DEF StrandedPages, Stranded
        <5>4. history[p] \in Nat /\ (index[p] # Absent => index[p].version \in Nat)
          BY <5>1, <5>3 DEF ReplaceTypeOK, Versions
        <5>5. index[p] = Absent \/ index[p].version < history[p]
          BY <3>4, <5>1, <5>3, <5>4 DEF Versions
        <5>6. ~\E g \in buffered : g.page = p /\ g.version >= history[p]
          BY <3>1, <4>1, <5>1, <5>3, <5>4 DEF StrandedPages, Stranded, Versions
        <5>. QED
          BY <5>1, <5>3, <5>5, <5>6 DEF StrandedPages, Stranded
      <4>2. StrandedPages' \subseteq StrandedPages
        BY <3>2, <4>1
      <4>. QED
        BY <3>1, <3>4, <4>2, StrandedNone
    <3>. QED
      BY <3>3, <3>4
  <2>6. ASSUME NEW f \in buffered, BatchLost(f) PROVE Inv'
    <3>1. StrandedPages' \subseteq StrandedPages \cup {f.page} /\ mishaps' = mishaps + 1
      BY <2>6 DEF BatchLost, StrandedPages, Stranded, ReplaceTypeOK
    <3>. QED
      BY <3>1, StrandedOne
  <2>7. ASSUME NEW j \in Jobs, CompleteReplace(j) PROVE Inv'
    <3>1. PICK gone \in {StaleFor(j), {}} :
            /\ index' = [p \in Pages |-> IF p \in gone THEN Absent ELSE index[p]]
            /\ mishaps' = mishaps + Cardinality(gone) /\ UNCHANGED <<history, buffered>>
      BY <2>7 DEF CompleteReplace, Finished
    <3>2. gone \subseteq Documents
      BY DEF StaleFor, Documents
    <3>3. IsFiniteSet(gone)
      BY <3>2, FS_Subset
    <3>4. StrandedPages' \subseteq StrandedPages \cup gone
      BY <3>1 DEF StrandedPages, Stranded
    <3>. QED
      BY <3>1, <3>3, <3>4, StrandedBound
  <2>. QED
    BY <2>1, <2>2, <2>3, <2>4, <2>5, <2>6, <2>7
    DEF ReplaceNext, replaceVars, StartCrawl, PageChanges, FetchPage, FetchFails,
        CompleteUpdate, Finished
<1>3. Inv => SkippedPagesAreIndexed
  BY DEF StrandedPages, SkippedPagesAreIndexed
<1>. QED
  BY <1>1, <1>2, <1>3, ReplaceFacts, PTL DEF ReplaceSpec

-----------------------------------------------------------------------------
(* EventStreams                                                            *)

Viewer ==
  [at : {"away", "subscribed", "listening", "polling", "waiting", "answered"} \cup Following,
   next : Nat, excused : SUBSET Events, got : SUBSET Events]

Broadcast(from, to) == {ring[i] : i \in from .. to}

Held == {holds[t] : t \in Tasks}

\* What the topic holds has happened; a viewer is never beyond the end of the ring,
\* and whatever was applied is accounted for to whoever follows.
TopicInv == topic \in Seq(1 .. Len(kinds))

AccountedFor(r) ==
  /\ r.next \in 1 .. Len(ring) + 1
  /\ r.at \in Following =>
       applied \subseteq r.excused \cup r.got \cup Broadcast(r.next, Len(ring)) \cup Held

StreamInv == \A v \in Viewers : AccountedFor(viewers[v])

LEMMA ToSetSubSeq ==
  ASSUME NEW S, NEW s \in Seq(S), NEW m \in Nat \ {0}, NEW n \in 0 .. Len(s)
  PROVE  ToSet(SubSeq(s, m, n)) = {s[i] : i \in m .. n}
<1>. DEFINE sub == SubSeq(s, m, n)
<1>1. CASE m > n
  <2>1. Len(sub) = 0 /\ DOMAIN sub = {}
    BY <1>1
  <2>2. m .. n = {}
    BY <1>1
  <2>. QED
    BY <2>1, <2>2 DEF ToSet
<1>2. CASE m <= n
  <2>1. DOMAIN sub = 1 .. n - m + 1 /\ \A i \in 1 .. n - m + 1 : sub[i] = s[m + i - 1]
    BY <1>2
  <2>2. ASSUME NEW i \in DOMAIN sub PROVE sub[i] \in {s[j] : j \in m .. n}
    <3>1. m + i - 1 \in m .. n /\ sub[i] = s[m + i - 1]
      BY <2>1
    <3>. QED
      BY <3>1
  <2>3. ASSUME NEW j \in m .. n PROVE s[j] \in {sub[i] : i \in DOMAIN sub}
    <3>1. j - m + 1 \in DOMAIN sub /\ sub[j - m + 1] = s[j]
      BY <2>1
    <3>. QED
      BY <3>1
  <2>. HIDE DEF sub
  <2>4. ToSet(sub) = {sub[i] : i \in DOMAIN sub}
    BY DEF ToSet
  <2>. QED
    BY <2>2, <2>3, <2>4 DEF sub
<1>. QED
  BY <1>1, <1>2

\* The records of a viewer that its steps make.
LEMMA ViewerRecord ==
  ASSUME NEW r \in Viewer, NEW at \in {"subscribed", "listening", "polling", "waiting",
                                       "answered", "open", "following"},
         NEW next \in Nat, NEW excused \in SUBSET Events, NEW got \in SUBSET Events
  PROVE  /\ Away \in Viewer /\ Away.at = "away" /\ Away.next = 1
         /\ [r EXCEPT !.at = at] \in Viewer
         /\ [r EXCEPT !.at = at, !.next = next] \in Viewer
         /\ [r EXCEPT !.at = at, !.excused = excused] \in Viewer
         /\ [r EXCEPT !.next = next, !.got = got, !.excused = excused] \in Viewer
         /\ [Away EXCEPT !.at = at, !.next = next] \in Viewer
<1>1. /\ r.at \in {"away", "subscribed", "listening", "polling", "waiting", "answered"}
                    \cup Following
      /\ r.next \in Nat /\ r.excused \in SUBSET Events /\ r.got \in SUBSET Events
  BY DEF Viewer
<1>2. Away \in Viewer /\ Away.at = "away" /\ Away.next = 1
  BY DEF Away, Viewer
<1>3. [r EXCEPT !.at = at] \in Viewer
  BY DEF Viewer, Following
<1>4. [r EXCEPT !.at = at, !.next = next] \in Viewer
  BY DEF Viewer, Following
<1>5. [r EXCEPT !.at = at, !.excused = excused] \in Viewer
  BY DEF Viewer, Following
<1>6. [r EXCEPT !.next = next, !.got = got, !.excused = excused] \in Viewer
  BY DEF Viewer, Following
<1>7. [Away EXCEPT !.at = at, !.next = next] \in Viewer
  BY <1>2 DEF Viewer, Following
<1>. QED
  BY <1>2, <1>3, <1>4, <1>5, <1>6, <1>7

\* A step that changes one viewer only.
LEMMA ViewerStep ==
  ASSUME EventTypeOK, TopicInv, StreamInv, NEW v \in Viewers, NEW r \in Viewer,
         viewers' = [viewers EXCEPT ![v] = r], OnlyViewersChange, AccountedFor(r)
  PROVE  EventTypeOK' /\ TopicInv' /\ StreamInv'
<1>1. UNCHANGED <<kinds, topic, holds, applied, ring, adding, batch, phase>>
  BY DEF OnlyViewersChange
<1>2. viewers' \in [Viewers -> Viewer]
  BY DEF EventTypeOK, Viewer
<1>3. EventTypeOK'
  BY <1>1, <1>2 DEF EventTypeOK, Viewer
<1>4. ASSUME NEW w \in Viewers PROVE AccountedFor(viewers[w])'
  <2>1. viewers'[w] = r \/ viewers'[w] = viewers[w]
    BY DEF EventTypeOK
  <2>2. AccountedFor(viewers'[w])
    BY <2>1 DEF StreamInv
  <2>. QED
    BY <1>1, <2>2 DEF AccountedFor, Broadcast, Held
<1>. QED
  BY <1>1, <1>3, <1>4 DEF StreamInv, TopicInv

\* A step that moves no viewer: what was to come is still to come.
LEMMA StreamKept ==
  ASSUME EventTypeOK, StreamInv, UNCHANGED viewers, Len(ring) <= Len(ring'), Len(ring') \in Nat,
         applied' \subseteq applied \cup Held',
         \A v \in Viewers : viewers[v].next \in 1 .. Len(ring) + 1 =>
           Broadcast(viewers[v].next, Len(ring)) \cup (Held \ {NoEvent})
             \subseteq Broadcast(viewers[v].next, Len(ring))' \cup Held'
  PROVE  StreamInv'
<1>. SUFFICES ASSUME NEW v \in Viewers PROVE AccountedFor(viewers[v])'
  BY DEF StreamInv
<1>1. AccountedFor(viewers[v]) /\ NoEvent \notin applied
  <2>1. applied \subseteq Events
    BY EventAssumption DEF EventTypeOK, Events
  <2>. QED
    BY <2>1, EventAssumption DEF StreamInv, Events
<1>2. viewers'[v].next \in 1 .. Len(ring') + 1
  BY <1>1 DEF AccountedFor, EventTypeOK
<1>3. viewers'[v].at \in Following =>
        applied' \subseteq viewers'[v].excused \cup viewers'[v].got
                             \cup Broadcast(viewers[v].next, Len(ring))' \cup Held'
  BY <1>1 DEF AccountedFor
<1>. QED
  BY <1>2, <1>3 DEF AccountedFor

LEMMA TypeOfKinds ==
  ASSUME EventTypeOK
  PROVE  /\ Len(kinds) \in 0 .. MaxEvents /\ 1 .. Len(kinds) \subseteq Events
         /\ ring \in Seq(Events) /\ Len(ring) \in Nat
BY EventAssumption DEF EventTypeOK, Events

LEMMA SeqMonotonic ==
  ASSUME NEW S, NEW T, S \subseteq T, NEW s \in Seq(S)
  PROVE  s \in Seq(T)
OBVIOUS

\* A new event.
LEMMA NewEventStep ==
  ASSUME EventTypeOK, TopicInv, NEW kind \in Kinds, NewEvent(kind)
  PROVE  /\ kinds' \in Seq(Kinds) /\ Len(kinds') = Len(kinds) + 1 /\ Len(kinds') <= MaxEvents
         /\ Len(kinds') \in Events /\ topic \in Seq(1 .. Len(kinds'))
         /\ Append(topic, Len(kinds')) \in Seq(1 .. Len(kinds'))
         /\ \A s : s \subseteq 1 .. Len(kinds) => s \subseteq 1 .. Len(kinds')
<1>1. /\ kinds' \in Seq(Kinds) /\ Len(kinds') = Len(kinds) + 1 /\ Len(kinds') <= MaxEvents
      /\ Len(kinds) \in Nat
  BY EventAssumption DEF EventTypeOK, NewEvent
<1>2. Len(kinds') \in Events
  BY <1>1 DEF Events
<1>3. 1 .. Len(kinds) \subseteq 1 .. Len(kinds')
  BY <1>1
<1>4. topic \in Seq(1 .. Len(kinds'))
  BY <1>3, SeqMonotonic DEF TopicInv
<1>5. Append(topic, Len(kinds')) \in Seq(1 .. Len(kinds'))
  BY <1>1, <1>4
<1>. QED
  BY <1>1, <1>2, <1>3, <1>4, <1>5

LEMMA TopicType ==
  ASSUME NEW n \in 0 .. MaxEvents, NEW s \in Seq(1 .. n)
  PROVE  s \in Seq(Events)
<1>1. 1 .. n \subseteq Events
  BY EventAssumption DEF Events
<1>. QED
  BY <1>1, SeqMonotonic

\* Every task that takes an event had none, so none is dropped before it is broadcast.
LEMMA HoldOne ==
  ASSUME EventTypeOK, NEW task \in Tasks, NEW e \in Events, holds[task] = NoEvent,
         holds' = [holds EXCEPT ![task] = e]
  PROVE  /\ holds' \in [Tasks -> Events \cup {NoEvent}]
         /\ Held \ {NoEvent} \subseteq Held' /\ e \in Held'
<1>1. /\ holds' \in [Tasks -> Events \cup {NoEvent}] /\ holds'[task] = e
      /\ \A t \in Tasks : t # task => holds'[t] = holds[t]
  BY DEF EventTypeOK
<1>2. e \in Held'
  BY <1>1 DEF Held
<1>3. ASSUME NEW t \in Tasks, holds[t] # NoEvent PROVE holds[t] \in Held'
  BY <1>1, <1>3 DEF Held
<1>. QED
  BY <1>1, <1>2, <1>3 DEF Held

LEMMA EventFacts == EventSpec => [](EventTypeOK /\ TopicInv /\ StreamInv)
<1>. USE EventAssumption
<1>1. EventInit => EventTypeOK /\ TopicInv /\ StreamInv
  <2>. SUFFICES ASSUME EventInit PROVE EventTypeOK /\ TopicInv /\ StreamInv
    OBVIOUS
  <2>1. Away \in Viewer /\ Away.at = "away" /\ Away.next = 1
    BY DEF Away, Viewer
  <2>2. EventTypeOK
    BY <2>1 DEF EventInit, EventTypeOK, Viewer
  <2>3. AccountedFor(Away)
    BY <2>1 DEF EventInit, AccountedFor, Following
  <2>. QED
    BY <2>2, <2>3 DEF EventInit, TopicInv, StreamInv
<1>2. EventTypeOK /\ TopicInv /\ StreamInv /\ [EventNext]_eventVars
        => EventTypeOK' /\ TopicInv' /\ StreamInv'
  <2>. SUFFICES ASSUME EventTypeOK, TopicInv, StreamInv, [EventNext]_eventVars
                PROVE  EventTypeOK' /\ TopicInv' /\ StreamInv'
    OBVIOUS
  <2>0. /\ Len(kinds) \in 0 .. MaxEvents /\ 1 .. Len(kinds) \subseteq Events
        /\ ring \in Seq(Events) /\ Len(ring) \in Nat
    BY TypeOfKinds
  <2>1. CASE WorkerReports
    <3>1. /\ NewEvent("page") /\ topic' = Append(topic, Len(kinds'))
          /\ UNCHANGED <<holds, applied, ring, viewers, adding, batch, phase>>
      BY <2>1 DEF WorkerReports
    <3>2. /\ kinds' \in Seq(Kinds) /\ Len(kinds') = Len(kinds) + 1 /\ Len(kinds') <= MaxEvents
          /\ Len(kinds') \in Events
          /\ Append(topic, Len(kinds')) \in Seq(1 .. Len(kinds'))
          /\ \A s : s \subseteq 1 .. Len(kinds) => s \subseteq 1 .. Len(kinds')
      BY <3>1, NewEventStep DEF Kinds
    <3>3. topic' \in Seq(Events)
      <4>1. Len(kinds') \in 0 .. MaxEvents
        BY <2>0, <3>2
      <4>. QED
        BY <3>1, <3>2, <4>1, TopicType
    <3>4. EventTypeOK'
      BY <3>1, <3>2, <3>3 DEF EventTypeOK
    <3>5. StreamInv'
      BY <3>1 DEF StreamInv, AccountedFor, Broadcast, Held
    <3>. QED
      BY <3>1, <3>2, <3>4, <3>5 DEF TopicInv
  <2>2. CASE AnnounceStart
    <3>1. /\ NewEvent("start") /\ holds["creator"] = NoEvent
          /\ holds' = [holds EXCEPT !["creator"] = Len(kinds')]
          /\ topic' = Append(topic, Len(kinds')) \/ topic' = topic
          /\ UNCHANGED <<applied, ring, viewers, adding, batch, phase>>
      BY <2>2 DEF AnnounceStart
    <3>2. /\ kinds' \in Seq(Kinds) /\ Len(kinds') = Len(kinds) + 1 /\ Len(kinds') <= MaxEvents
          /\ Len(kinds') \in Events
          /\ topic \in Seq(1 .. Len(kinds'))
          /\ Append(topic, Len(kinds')) \in Seq(1 .. Len(kinds'))
          /\ \A s : s \subseteq 1 .. Len(kinds) => s \subseteq 1 .. Len(kinds')
      BY <3>1, NewEventStep DEF Kinds
    <3>3. topic' \in Seq(1 .. Len(kinds')) /\ topic' \in Seq(Events)
      <4>1. Len(kinds') \in 0 .. MaxEvents
        BY <2>0, <3>2
      <4>. QED
        BY <3>1, <3>2, <4>1, TopicType
    <3>4. holds' \in [Tasks -> Events \cup {NoEvent}] /\ Held \ {NoEvent} \subseteq Held'
      BY <3>1, <3>2, HoldOne DEF Tasks
    <3>5. EventTypeOK'
      BY <3>1, <3>2, <3>3, <3>4 DEF EventTypeOK
    <3>6. StreamInv'
      BY <2>0, <3>1, <3>4, StreamKept DEF Broadcast
    <3>. QED
      BY <3>3, <3>5, <3>6 DEF TopicInv
  <2>3. CASE ConsumeEvent
    <3>1. /\ topic # <<>> /\ holds["consumer"] = NoEvent /\ Process("consumer", Head(topic))
          /\ topic' = Tail(topic) /\ UNCHANGED <<kinds, ring, viewers, batch, phase>>
      BY <2>3 DEF ConsumeEvent
    <3>2. Head(topic) \in 1 .. Len(kinds) /\ Tail(topic) \in Seq(1 .. Len(kinds))
      BY <3>1 DEF TopicInv
    <3>3. /\ applied' = applied \cup {Head(topic)} /\ adding' = adding \cup {Head(topic)}
          /\ holds' = [holds EXCEPT !["consumer"] = Head(topic)]
      BY <3>1 DEF Process
    <3>4. /\ holds' \in [Tasks -> Events \cup {NoEvent}] /\ Held \ {NoEvent} \subseteq Held'
          /\ Head(topic) \in Held'
      BY <2>0, <3>1, <3>2, <3>3, HoldOne DEF Tasks
    <3>5. topic' \in Seq(Events)
      BY <2>0, <3>1, <3>2, TopicType
    <3>6. EventTypeOK'
      BY <3>1, <3>2, <3>3, <3>4, <3>5 DEF EventTypeOK
    <3>7. StreamInv'
      BY <2>0, <3>1, <3>3, <3>4, StreamKept DEF Broadcast
    <3>. QED
      BY <3>1, <3>2, <3>6, <3>7 DEF TopicInv
  <2>4. CASE DetectIdle
    <3>1. /\ holds["detector"] = NoEvent /\ NewEvent("end") /\ Process("detector", Len(kinds'))
          /\ UNCHANGED <<topic, ring, viewers, batch, phase>>
      BY <2>4 DEF DetectIdle
    <3>2. /\ kinds' \in Seq(Kinds) /\ Len(kinds') = Len(kinds) + 1 /\ Len(kinds') <= MaxEvents
          /\ Len(kinds') \in Events /\ topic \in Seq(1 .. Len(kinds'))
          /\ \A s : s \subseteq 1 .. Len(kinds) => s \subseteq 1 .. Len(kinds')
      BY <3>1, NewEventStep DEF Kinds
    <3>3. /\ applied' = applied \cup {Len(kinds')} /\ adding' = adding \cup {Len(kinds')}
          /\ holds' = [holds EXCEPT !["detector"] = Len(kinds')]
      BY <3>1 DEF Process
    <3>4. /\ holds' \in [Tasks -> Events \cup {NoEvent}] /\ Held \ {NoEvent} \subseteq Held'
          /\ Len(kinds') \in Held'
      BY <3>1, <3>2, <3>3, HoldOne DEF Tasks
    <3>5. Len(kinds') \in 1 .. Len(kinds')
      BY <2>0, <3>2
    <3>6. EventTypeOK'
      BY <3>1, <3>2, <3>3, <3>4, <3>5 DEF EventTypeOK
    <3>7. StreamInv'
      BY <2>0, <3>1, <3>3, <3>4, StreamKept DEF Broadcast
    <3>. QED
      BY <3>1, <3>2, <3>6, <3>7 DEF TopicInv
  <2>5. ASSUME NEW t \in Tasks, BroadcastEvent(t) PROVE EventTypeOK' /\ TopicInv' /\ StreamInv'
    <3>1. /\ holds[t] # NoEvent /\ ring' = Append(ring, holds[t])
          /\ holds' = [holds EXCEPT ![t] = NoEvent]
          /\ UNCHANGED <<kinds, topic, applied, viewers, adding, batch, phase>>
      BY <2>5 DEF BroadcastEvent
    <3>2. holds[t] \in Events
      BY <3>1 DEF EventTypeOK
    <3>3. /\ ring' \in Seq(Events) /\ Len(ring') = Len(ring) + 1 /\ ring'[Len(ring')] = holds[t]
          /\ \A i \in 1 .. Len(ring) : ring'[i] = ring[i]
      BY <2>0, <3>1, <3>2
    <3>4. /\ holds' \in [Tasks -> Events \cup {NoEvent}]
          /\ \A u \in Tasks : u # t => holds'[u] = holds[u]
      BY <3>1 DEF EventTypeOK
    <3>5. EventTypeOK'
      BY <3>1, <3>3, <3>4 DEF EventTypeOK
    <3>6. ASSUME NEW v \in Viewers, viewers[v].next \in 1 .. Len(ring) + 1
          PROVE  Broadcast(viewers[v].next, Len(ring)) \cup (Held \ {NoEvent})
                   \subseteq Broadcast(viewers[v].next, Len(ring))' \cup Held'
      <4>. DEFINE n == viewers[v].next
      <4>1. ASSUME NEW i \in n .. Len(ring)
            PROVE  ring[i] \in {ring'[j] : j \in n .. Len(ring')}
        <5>1. i \in n .. Len(ring') /\ i \in 1 .. Len(ring)
          BY <2>0, <3>3, <3>6
        <5>. QED
          BY <3>3, <5>1
      <4>2. holds[t] \in {ring'[j] : j \in n .. Len(ring')}
        <5>1. Len(ring') \in n .. Len(ring')
          BY <2>0, <3>3, <3>6
        <5>. QED
          BY <3>3, <5>1
      <4>3. ASSUME NEW u \in Tasks, u # t PROVE holds[u] \in Held'
        BY <3>4, <4>3 DEF Held
      <4>4. Broadcast(n, Len(ring))' = {ring'[j] : j \in n .. Len(ring')}
        BY <3>1 DEF Broadcast
      <4>. QED
        BY <4>1, <4>2, <4>3, <4>4 DEF Broadcast, Held
    <3>7. StreamInv'
      BY <2>0, <3>1, <3>3, <3>6, StreamKept
    <3>. QED
      BY <3>1, <3>5, <3>7 DEF TopicInv
  <2>6. ASSUME NEW v \in Viewers,
               \/ Subscribe(v) \/ SendSnapshot(v) \/ FollowJob(v) \/ UnfollowJob(v) \/ Leave(v)
               \/ LookAtJob(v) \/ AwaitEvent(v) \/ WaitExpires(v)
        PROVE  EventTypeOK' /\ TopicInv' /\ StreamInv'
    <3>. DEFINE r == viewers[v]
    <3>1. r \in Viewer /\ AccountedFor(r) /\ applied \in SUBSET Events /\ r.next \in 1 .. Len(ring) + 1
      BY <2>0 DEF EventTypeOK, Viewer, StreamInv, AccountedFor
    <3>2. /\ Away \in Viewer /\ AccountedFor(Away)
          /\ "open" \in Following /\ "following" \in Following
          /\ \A at \in {"away", "subscribed", "listening", "polling", "waiting", "answered"} :
               at \notin Following
      BY <2>0 DEF Away, Viewer, AccountedFor, Following
    <3>3. CASE Subscribe(v)
      <4>1. PICK at \in {"subscribed", "listening", "polling"} :
              viewers' = [viewers EXCEPT ![v].at = at, ![v].next = Len(ring) + 1]
        BY <3>3 DEF Subscribe
      <4>. DEFINE new == [r EXCEPT !.at = at, !.next = Len(ring) + 1]
      <4>2. viewers' = [viewers EXCEPT ![v] = new]
        BY <4>1 DEF EventTypeOK
      <4>3. new \in Viewer
        <5>1. Len(ring) + 1 \in Nat /\ {} \in SUBSET Events
          BY <2>0
        <5>. QED
          BY <3>1, <5>1, ViewerRecord
      <4>4. AccountedFor(new)
        BY <2>0, <3>1, <3>2 DEF AccountedFor, Viewer
      <4>. HIDE DEF new
      <4>. QED
        BY <3>3, <4>2, <4>3, <4>4, ViewerStep DEF Subscribe
    <3>4. CASE SendSnapshot(v) \/ FollowJob(v)
      <4>1. PICK at \in {"open", "following"} :
              viewers' = [viewers EXCEPT ![v].at = at, ![v].excused = applied]
        BY <3>4 DEF SendSnapshot, FollowJob
      <4>. DEFINE new == [r EXCEPT !.at = at, !.excused = applied]
      <4>2. viewers' = [viewers EXCEPT ![v] = new]
        BY <4>1 DEF EventTypeOK
      <4>3. new \in Viewer
        BY <3>1, ViewerRecord DEF Events
      <4>4. AccountedFor(new)
        BY <3>1 DEF AccountedFor, Viewer
      <4>. HIDE DEF new
      <4>. QED
        BY <3>4, <4>2, <4>3, <4>4, ViewerStep DEF SendSnapshot, FollowJob
    <3>5. CASE UnfollowJob(v)
      <4>. DEFINE new == [Away EXCEPT !.at = "listening", !.next = r.next]
      <4>1. viewers' = [viewers EXCEPT ![v] = new]
        BY <3>5 DEF UnfollowJob
      <4>2. new \in Viewer
        <5>1. r.next \in Nat /\ {} \in SUBSET Events
          BY <2>0, <3>1
        <5>. QED
          BY ZenonT(60), <3>1, <5>1, ViewerRecord
      <4>3. AccountedFor(new)
        BY <3>1, <3>2 DEF AccountedFor, Viewer
      <4>. HIDE DEF new
      <4>. QED
        BY <3>5, <4>1, <4>2, <4>3, ViewerStep DEF UnfollowJob
    <3>6. CASE Leave(v)
      BY <3>2, <3>6, ViewerStep DEF Leave
    <3>7. CASE LookAtJob(v) \/ WaitExpires(v)
      <4>1. PICK at \in {"polling", "waiting", "answered"} : viewers' = [viewers EXCEPT ![v].at = at]
        BY <3>7 DEF LookAtJob, WaitExpires
      <4>. DEFINE new == [r EXCEPT !.at = at]
      <4>2. viewers' = [viewers EXCEPT ![v] = new]
        BY <4>1 DEF EventTypeOK
      <4>3. new \in Viewer
        BY <3>1, ViewerRecord
      <4>4. AccountedFor(new)
        BY <3>1, <3>2 DEF AccountedFor, Viewer
      <4>. HIDE DEF new
      <4>. QED
        BY <3>7, <4>2, <4>3, <4>4, ViewerStep DEF LookAtJob, WaitExpires
    <3>8. CASE AwaitEvent(v)
      <4>. DEFINE lagged == r.next < Oldest
                  ends == ~lagged /\ kinds[ring[r.next]] = "end"
                  at == IF ends THEN "answered" ELSE "polling"
                  next == IF lagged THEN Oldest ELSE r.next + 1
                  new == [r EXCEPT !.at = at, !.next = next]
      <4>1. viewers' = [viewers EXCEPT ![v] = new] /\ r.next <= Len(ring)
        BY <3>8 DEF AwaitEvent, EventTypeOK
      <4>2. next \in 1 .. Len(ring) + 1 /\ next \in Nat
        BY <2>0, <3>1, <4>1 DEF Oldest
      <4>3. at \in {"answered", "polling"}
        BY SMTT(40)
      <4>. HIDE DEF next, at
      <4>4. new \in Viewer
        BY <3>1, <4>2, <4>3, ViewerRecord
      <4>5. AccountedFor(new)
        BY <3>1, <3>2, <4>2, <4>3 DEF AccountedFor, Viewer
      <4>. HIDE DEF new
      <4>. QED
        BY <3>8, <4>1, <4>4, <4>5, ViewerStep DEF AwaitEvent
    <3>. QED
      BY <2>6, <3>3, <3>4, <3>5, <3>6, <3>7, <3>8
  <2>7. ASSUME NEW v \in Viewers, ForwardEvent(v) PROVE EventTypeOK' /\ TopicInv' /\ StreamInv'
    <3>. DEFINE r == viewers[v]
                from == IF r.next < Oldest THEN Oldest ELSE r.next
                skipped == ToSet(SubSeq(ring, r.next, from - 1))
                follows == r.at \in Following
                got == IF follows THEN r.got \cup {ring[from]} ELSE r.got
                excused == IF follows THEN r.excused \cup skipped ELSE r.excused
                new == [r EXCEPT !.next = from + 1, !.got = got, !.excused = excused]
    <3>1. r \in Viewer /\ AccountedFor(r) /\ r.next \in 1 .. Len(ring) + 1
      BY <2>0 DEF EventTypeOK, Viewer, StreamInv, AccountedFor
    <3>2. viewers' = [viewers EXCEPT ![v] = new] /\ r.next <= Len(ring)
      BY <2>7 DEF ForwardEvent, EventTypeOK
    <3>3. from \in r.next .. Len(ring) /\ from \in Nat
      BY <2>0, <3>1, <3>2 DEF Oldest
    <3>4. skipped = Broadcast(r.next, from - 1)
      <4>. HIDE DEF from
      <4>1. r.next \in Nat \ {0} /\ from - 1 \in 0 .. Len(ring)
        BY <2>0, <3>1, <3>3
      <4>. QED
        BY <2>0, <4>1, ToSetSubSeq DEF Broadcast
    <3>. HIDE DEF from, skipped
    <3>5. ring[from] \in Events /\ skipped \subseteq Events
      <4>1. \A i \in 1 .. Len(ring) : ring[i] \in Events
        BY <2>0
      <4>2. \A i \in r.next .. from - 1 : i \in 1 .. Len(ring)
        BY <2>0, <3>1, <3>3
      <4>3. from \in 1 .. Len(ring)
        BY <2>0, <3>1, <3>3
      <4>. QED
        BY <3>4, <4>1, <4>2, <4>3 DEF Broadcast
    <3>6. got \in SUBSET Events /\ excused \in SUBSET Events
      BY SMTT(40), <3>1, <3>5 DEF Viewer
    <3>7. new \in Viewer
      <4>. HIDE DEF got, excused
      <4>1. from + 1 \in Nat
        BY <3>3
      <4>. QED
        BY <3>1, <3>6, <4>1, ViewerRecord
    <3>8. /\ new.next = from + 1 /\ new.got = got /\ new.excused = excused /\ new.at = r.at
      BY <3>1 DEF Viewer
    <3>9. from + 1 \in 1 .. Len(ring) + 1
      BY <2>0, <3>1, <3>3
    <3>10. Broadcast(r.next, Len(ring))
             \subseteq Broadcast(r.next, from - 1) \cup {ring[from]} \cup Broadcast(from + 1, Len(ring))
      <4>1. \A i \in r.next .. Len(ring) :
              i \in r.next .. from - 1 \/ i = from \/ i \in from + 1 .. Len(ring)
        BY <2>0, <3>1, <3>3
      <4>. QED
        BY <4>1 DEF Broadcast
    <3>11. AccountedFor(new)
      BY <3>1, <3>4, <3>8, <3>9, <3>10 DEF AccountedFor
    <3>. HIDE DEF new
    <3>. QED
      BY <2>7, <3>2, <3>7, <3>11, ViewerStep DEF ForwardEvent
  <2>8. ASSUME NEW e \in Events, AddToBatch(e) PROVE EventTypeOK' /\ TopicInv' /\ StreamInv'
    <3>. DEFINE name == BatchOf(e)
                pushed == Append(batch[name], e)
                kept == IF Len(pushed) >= BatchSize THEN <<>> ELSE pushed
    <3>1. /\ adding' = adding \ {e} /\ batch' = [batch EXCEPT ![name] = kept]
          /\ UNCHANGED <<kinds, topic, holds, applied, ring, viewers, phase>>
      BY <2>8 DEF AddToBatch
    <3>2. name \in Batches
      BY DEF BatchOf, Batches
    <3>. HIDE DEF name
    <3>3. pushed \in Seq(Events)
      BY <3>2 DEF EventTypeOK
    <3>4. kept \in Seq(Events)
      BY <3>3
    <3>. HIDE DEF kept
    <3>5. batch' \in [Batches -> Seq(Events)]
      BY <3>1, <3>4 DEF EventTypeOK
    <3>6. EventTypeOK'
      BY <3>1, <3>5 DEF EventTypeOK
    <3>. QED
      BY <3>1, <3>6 DEF TopicInv, StreamInv, AccountedFor, Broadcast, Held
  <2>9. CASE FlushTick \/ QueryHistory \/ Stop \/ Exit
    <3>1. UNCHANGED <<kinds, topic, holds, applied, ring, viewers>>
      BY <2>9 DEF FlushTick, QueryHistory, Stop, Exit
    <3>2. /\ batch' \in [Batches -> Seq(Events)] /\ phase' \in {"up", "stopping", "down"}
          /\ adding' = adding \/ adding' = {}
      <4>1. <<>> \in Seq(Events)
        OBVIOUS
      <4>. QED
        BY <2>9, <4>1 DEF FlushTick, QueryHistory, Stop, Exit, EventTypeOK, Batches
    <3>3. EventTypeOK'
      BY <3>1, <3>2 DEF EventTypeOK
    <3>. QED
      BY <3>1, <3>3 DEF TopicInv, StreamInv, AccountedFor, Broadcast, Held
  <2>10. CASE UNCHANGED eventVars
    <3>1. EventTypeOK'
      BY <2>10 DEF eventVars, EventTypeOK
    <3>2. TopicInv' /\ StreamInv'
      BY <2>10 DEF eventVars, TopicInv, StreamInv, AccountedFor, Broadcast, Held
    <3>. QED
      BY <3>1, <3>2
  <2>. QED
    BY <2>1, <2>2, <2>3, <2>4, <2>5, <2>6, <2>7, <2>8, <2>9, <2>10 DEF EventNext
<1>. QED
  BY <1>1, <1>2, PTL DEF EventSpec

\* The variables of the job's events keep their types.
THEOREM EventTypeCorrect == EventSpec => []EventTypeOK
BY EventFacts, PTL

\* Whoever follows a job that runs misses nothing but what the ring overwrote, for
\* any ring, any viewers and any number of events: the broadcasts of
\* process_event against handle_job_ws_connection and handle_ws_connection.
THEOREM ViewersStayInformed == EventSpec => []ViewersMissNothing
<1>1. EventTypeOK /\ StreamInv => ViewersMissNothing
  <2>. SUFFICES ASSUME EventTypeOK, StreamInv, NEW v \in Viewers, viewers[v].at \in Following
       PROVE  applied \subseteq
                viewers[v].excused \cup viewers[v].got
                  \cup ToSet(SubSeq(ring, viewers[v].next, Len(ring)))
                  \cup {holds[t] : t \in Tasks}
    BY DEF ViewersMissNothing
  <2>1. ring \in Seq(Events) /\ viewers[v].next \in Nat \ {0} /\ Len(ring) \in 0 .. Len(ring)
    BY DEF EventTypeOK, StreamInv, AccountedFor
  <2>2. ToSet(SubSeq(ring, viewers[v].next, Len(ring))) = Broadcast(viewers[v].next, Len(ring))
    BY <2>1, ToSetSubSeq DEF Broadcast
  <2>. QED
    BY <2>2 DEF StreamInv, AccountedFor, Held
<1>. QED
  BY <1>1, EventFacts, PTL

-----------------------------------------------------------------------------
(* ScaleToZero                                                             *)

\* While a worker is watched, what the watchdog believes trails what happened by
\* at most one sample; between two samples the window grows only to where the
\* next one ends it.
WindowInv ==
  \A m \in Machines :
    /\ Watched(m) =>
         /\ sinceChange[m] + nextSample[m] <= IdleTime + SampleTime
         /\ counted[m] => sinceWork[m] + nextSample[m] <= SampleTime
         /\ ~counted[m] => /\ sinceChange[m] <= sinceWork[m]
                           /\ sinceWork[m] <= sinceChange[m] + SampleTime
    /\ flag[m] = "idle" => sinceWork[m] \in IdleTime .. Longest

\* The variables of the machines keep their types.
THEOREM ScaleTypeCorrect == ScaleSpec => []ScaleTypeOK
<1>. USE ScaleAssumption DEF Longest
<1>1. ScaleInit => ScaleTypeOK
  BY DEF ScaleInit, ScaleTypeOK
<1>2. ScaleTypeOK /\ [ScaleNext]_scaleVars => ScaleTypeOK'
  <2>. SUFFICES ASSUME ScaleTypeOK, [ScaleNext]_scaleVars PROVE ScaleTypeOK'
    OBVIOUS
  <2>1. CASE PassTime
    BY <2>1 DEF PassTime, Later, Watched, ScaleTypeOK
  <2>2. ASSUME NEW m \in Machines, Wake(m) PROVE ScaleTypeOK'
    BY <2>2 DEF Wake, ScaleTypeOK
  <2>3. ASSUME NEW m \in Machines, Publish(m) PROVE ScaleTypeOK'
    BY <2>3 DEF Publish, watchVars, ScaleTypeOK
  <2>4. ASSUME NEW m \in Machines, TakeMessage(m) PROVE ScaleTypeOK'
    BY <2>4 DEF TakeMessage, watchVars, ScaleTypeOK
  <2>5. ASSUME NEW m \in Machines, RefuseMessage(m) PROVE ScaleTypeOK'
    BY <2>5 DEF RefuseMessage, watchVars, ScaleTypeOK
  <2>6. ASSUME NEW m \in Machines, FinishMessage(m) PROVE ScaleTypeOK'
    <3>1. CASE Watched(m)
      <4>1. busy' \in [Machines -> BOOLEAN] /\ counted' \in [Machines -> BOOLEAN]
        BY <2>6, <3>1 DEF FinishMessage, ScaleTypeOK
      <4>2. sinceWork' \in [Machines -> 0 .. Longest + 1]
        BY <2>6, <3>1 DEF FinishMessage, ScaleTypeOK
      <4>. QED
        BY <2>6, <4>1, <4>2 DEF FinishMessage, ScaleTypeOK
    <3>2. CASE ~Watched(m)
      BY <2>6, <3>2 DEF FinishMessage, ScaleTypeOK
    <3>. QED
      BY <3>1, <3>2
  <2>7. ASSUME NEW m \in Machines, SampleCounter(m) PROVE ScaleTypeOK'
    BY <2>7 DEF SampleCounter, ScaleTypeOK
  <2>8. ASSUME NEW m \in Machines, Signal(m) PROVE ScaleTypeOK'
    BY <2>8 DEF Signal, watchVars, ScaleTypeOK
  <2>9. ASSUME NEW m \in Machines, LeaveLoop(m) \/ Kill(m) PROVE ScaleTypeOK'
    BY <2>9 DEF LeaveLoop, Kill, watchVars, ScaleTypeOK
  <2>10. CASE UNCHANGED scaleVars
    BY <2>10 DEF scaleVars, ScaleTypeOK
  <2>. QED
    BY <2>1, <2>2, <2>3, <2>4, <2>5, <2>6, <2>7, <2>8, <2>9, <2>10 DEF ScaleNext
<1>. QED
  BY <1>1, <1>2, PTL DEF ScaleSpec

\* The watchdog ends a worker only after the whole idle time without progress,
\* and at most two samples later, with any times and however its samples fall
\* between the messages: spawn_idle_watchdog.
THEOREM WindowIsKept == ScaleSpec => []IdleWindow
<1>. USE ScaleAssumption DEF Longest
<1>1. ScaleInit => WindowInv
  BY DEF ScaleInit, WindowInv, Watched
<1>2. ScaleTypeOK /\ WindowInv /\ [ScaleNext]_scaleVars => WindowInv'
  <2>. SUFFICES ASSUME ScaleTypeOK, WindowInv, [ScaleNext]_scaleVars PROVE WindowInv'
    OBVIOUS
  <2>1. CASE PassTime
    BY <2>1 DEF PassTime, Later, Watched, ScaleTypeOK, WindowInv
  <2>2. ASSUME NEW m \in Machines, Wake(m) PROVE WindowInv'
    BY <2>2 DEF Wake, Watched, ScaleTypeOK, WindowInv
  <2>3. ASSUME NEW m \in Machines,
               \/ Publish(m) \/ TakeMessage(m) \/ RefuseMessage(m)
               \/ Signal(m) \/ LeaveLoop(m) \/ Kill(m)
        PROVE  WindowInv'
    BY <2>3 DEF Publish, TakeMessage, RefuseMessage, Signal, LeaveLoop, Kill, watchVars,
                Watched, ScaleTypeOK, WindowInv
  <2>4. ASSUME NEW m \in Machines, FinishMessage(m) PROVE WindowInv'
    BY <2>4 DEF FinishMessage, Watched, ScaleTypeOK, WindowInv
  <2>5. ASSUME NEW m \in Machines, SampleCounter(m) PROVE WindowInv'
    BY <2>5 DEF SampleCounter, Watched, ScaleTypeOK, WindowInv
  <2>6. CASE UNCHANGED scaleVars
    BY <2>6 DEF scaleVars, Watched, WindowInv
  <2>. QED
    BY <2>1, <2>2, <2>3, <2>4, <2>5, <2>6 DEF ScaleNext
<1>3. ScaleTypeOK /\ WindowInv => IdleWindow
  BY DEF ScaleTypeOK, WindowInv, IdleWindow
<1>. QED
  BY <1>1, <1>2, <1>3, ScaleTypeCorrect, PTL DEF ScaleSpec

-----------------------------------------------------------------------------
(* PageFetch                                                               *)

\* The age of whatever allows the pages bounds how long the site has forbidden
\* them: of an answer on its way, and of an entry that may still be used.  What a
\* request rests on is older by the attempts and the backoffs before it.
RestsOnRules(f) ==
  /\ fetches[f].stage \in Waits => fetches[f].age <= Allotted(fetches[f].stage)
  /\ fetches[f].stage = "read" /\ fetches[f].allows => closedFor <= fetches[f].age
  /\ fetches[f].stage = "sending" =>
       closedFor < CacheTtl + RobotsTimeout + Retrying(fetches[f].attempt) + fetches[f].age
  /\ fetches[f].stage = "backoff" =>
       closedFor < CacheTtl + RobotsTimeout + Retrying(fetches[f].attempt)
                     + AttemptTime + fetches[f].age

RulesInv ==
  /\ (robots.readable => robots.allows) => closedFor = 0
  /\ rules # NoRules /\ rules.allows /\ rules.age < CacheTtl
       => closedFor <= rules.age + RobotsTimeout
  /\ \A f \in Fetches : RestsOnRules(f)

\* How long each wait may last, and what one more attempt adds.
LEMMA WaitsLast ==
  /\ Allotted("read") = RobotsTimeout /\ Allotted("sending") = AttemptTime
  /\ Allotted("backoff") = MaxBackoff
  /\ {RobotsTimeout, AttemptTime, MaxBackoff, CacheTtl, MaxRetries} \subseteq Nat /\ CacheTtl > 0
BY FetchAssumption DEF Allotted

LEMMA RetriesAddUp ==
  ASSUME NEW n \in Nat
  PROVE  /\ Retrying(n) \in Nat
         /\ Retrying(n + 1) = Retrying(n) + AttemptTime + MaxBackoff
<1>. DEFINE each == AttemptTime + MaxBackoff
<1>1. each \in Nat
  BY FetchAssumption
<1>2. n * each \in Nat /\ (n + 1) * each = n * each + each
  <2>. HIDE DEF each
  <2>. QED
    BY <1>1
<1>. QED
  BY <1>2, FetchAssumption DEF Retrying

LEMMA AgesAreNumbers == Ages \subseteq Nat
<1>1. Retrying(MaxRetries + 1) \in Nat
  BY RetriesAddUp, FetchAssumption
<1>. QED
  BY <1>1, FetchAssumption DEF Ages

FetchRecord ==
  [stage: Stages, allows: BOOLEAN, age: Nat, attempt: 0 .. MaxRetries]

LEMMA GoesType ==
  ASSUME FetchTypeOK, NEW f \in Fetches, NEW stage \in Stages, Goes(f, stage)
  PROVE  fetches' \in [Fetches -> FetchRecord]
BY DEF FetchTypeOK, Goes, FetchRecord

\* The fetcher's variables keep their types.
THEOREM FetchTypeCorrect == FetchSpec => []FetchTypeOK
<1>. USE FetchAssumption
<1>1. FetchInit => FetchTypeOK
  <2>. SUFFICES ASSUME FetchInit PROVE FetchTypeOK
    OBVIOUS
  <2>1. Idle0 \in FetchRecord
    BY DEF Idle0, FetchRecord, Stages
  <2>2. robots \in [allows: BOOLEAN, readable: BOOLEAN]
    BY DEF FetchInit
  <2>3. 0 \in Ages
    BY RetriesAddUp DEF Ages
  <2>. QED
    BY <2>1, <2>2, <2>3 DEF FetchInit, FetchTypeOK, FetchRecord
<1>2. FetchTypeOK /\ [FetchNext]_fetchVars => FetchTypeOK'
  <2>. SUFFICES ASSUME FetchTypeOK, [FetchNext]_fetchVars PROVE FetchTypeOK'
    OBVIOUS
  <2>1. ASSUME NEW f \in Fetches, CheckCached(f) \/ AskRobots(f) PROVE FetchTypeOK'
    <3>1. fetches' \in [Fetches -> FetchRecord]
      BY <2>1, GoesType DEF CheckCached, AskRobots, Stages
    <3>. QED
      BY <2>1, <3>1 DEF CheckCached, AskRobots, FetchTypeOK, FetchRecord
  <2>2. ASSUME NEW f \in Fetches, ServeRobots(f) PROVE FetchTypeOK'
    <3>. DEFINE open == robots.readable => robots.allows
                served == [fetches[f] EXCEPT !.stage = "read", !.age = 0, !.allows = open]
    <3>1. open \in BOOLEAN
      OBVIOUS
    <3>2. fetches' = [fetches EXCEPT ![f] = served]
      BY <2>2 DEF ServeRobots, FetchTypeOK
    <3>. HIDE DEF open
    <3>3. served \in FetchRecord
      <4>1. ASSUME NEW r \in FetchRecord, NEW b \in BOOLEAN
            PROVE  [r EXCEPT !.stage = "read", !.age = 0, !.allows = b] \in FetchRecord
        <5>. DEFINE read == [r EXCEPT !.stage = "read"]
                    new == [read EXCEPT !.age = 0]
        <5>1. read \in FetchRecord
          BY DEF FetchRecord, Stages
        <5>. HIDE DEF read
        <5>2. new \in FetchRecord
          BY <5>1 DEF FetchRecord
        <5>. HIDE DEF new
        <5>3. [new EXCEPT !.allows = b] \in FetchRecord
          BY <5>2 DEF FetchRecord
        <5>. QED
          BY <5>3 DEF new, read
      <4>. QED
        BY <3>1, <4>1 DEF FetchTypeOK, FetchRecord
    <3>4. fetches' \in [Fetches -> FetchRecord]
      BY <3>2, <3>3 DEF FetchTypeOK, FetchRecord
    <3>. QED
      BY <2>2, <3>4 DEF ServeRobots, FetchTypeOK, FetchRecord
  <2>3. ASSUME NEW f \in Fetches, CacheRobots(f) PROVE FetchTypeOK'
    <3>1. fetches' \in [Fetches -> FetchRecord]
      BY <2>3, GoesType DEF CacheRobots, Stages
    <3>2. fetches[f].allows \in BOOLEAN
      BY DEF FetchTypeOK
    <3>. QED
      BY <2>3, <3>1, <3>2 DEF CacheRobots, FetchTypeOK, FetchRecord
  <2>4. ASSUME NEW f \in Fetches, ReceiveAnswer(f) \/ LoseConnection(f) PROVE FetchTypeOK'
    <3>1. fetches' \in [Fetches -> FetchRecord]
      BY <2>4, GoesType DEF ReceiveAnswer, LoseConnection, Stages
    <3>. QED
      BY <2>4, <3>1 DEF ReceiveAnswer, LoseConnection, FetchTypeOK, FetchRecord
  <2>5. ASSUME NEW f \in Fetches, SendAgain(f) PROVE FetchTypeOK'
    <3>1. fetches' \in [Fetches -> FetchRecord]
      BY <2>5 DEF SendAgain, FetchTypeOK, FetchRecord, Stages
    <3>. QED
      BY <2>5, <3>1 DEF SendAgain, FetchTypeOK, FetchRecord
  <2>6. ASSUME NEW f \in Fetches, NextPage(f) PROVE FetchTypeOK'
    <3>1. Idle0 \in FetchRecord
      BY DEF Idle0, FetchRecord, Stages
    <3>. QED
      BY <2>6, <3>1 DEF NextPage, FetchTypeOK, FetchRecord
  <2>7. CASE SiteChanges
    <3>1. 0 \in Ages
      BY RetriesAddUp DEF Ages
    <3>. QED
      BY <2>7, <3>1 DEF SiteChanges, FetchTypeOK
  <2>8. CASE PassTick
    <3>1. closedFor' \in Ages
      BY <2>8 DEF PassTick, FetchTypeOK, Ages
    <3>2. rules' = NoRules \/ rules' \in [allows: BOOLEAN, age: 0 .. CacheTtl]
      BY <2>8 DEF PassTick, FetchTypeOK
    <3>3. fetches' \in [Fetches -> FetchRecord]
      BY <2>8 DEF PassTick, FetchTypeOK, FetchRecord
    <3>. QED
      BY <2>8, <3>1, <3>2, <3>3 DEF PassTick, FetchTypeOK, FetchRecord
  <2>9. CASE UNCHANGED fetchVars
    BY <2>9 DEF fetchVars, FetchTypeOK
  <2>. QED
    BY <2>1, <2>2, <2>3, <2>4, <2>5, <2>6, <2>7, <2>8, <2>9 DEF FetchNext
<1>. QED
  BY <1>1, <1>2, PTL DEF FetchSpec

\* No page is requested against rules that had forbidden it for longer than an
\* entry is kept, robots.txt may be on its way and the attempts before took: is_allowed of the robots.txt
\* cache, with any number of fetches that fill it in any order.
THEOREM RulesStayFresh == FetchSpec => []RulesAreFresh
<1>. USE FetchAssumption
<1>1. FetchInit => RulesInv
  BY DEF FetchInit, RulesInv, RestsOnRules, Waits, Idle0
<1>2. FetchTypeOK /\ RulesInv /\ [FetchNext]_fetchVars => RulesInv'
  <2>. SUFFICES ASSUME FetchTypeOK, RulesInv, [FetchNext]_fetchVars PROVE RulesInv'
    OBVIOUS
  <2>a. /\ closedFor \in Nat /\ fetches \in [Fetches -> FetchRecord]
        /\ rules = NoRules \/ rules \in [allows: BOOLEAN, age: 0 .. CacheTtl]
    BY AgesAreNumbers DEF FetchTypeOK, FetchRecord
  <2>b. \A f \in Fetches : /\ fetches[f].age \in Nat /\ fetches[f].attempt \in Nat
                           /\ Retrying(fetches[f].attempt) \in Nat
    BY <2>a, RetriesAddUp DEF FetchRecord
  \* A fetch that goes to a stage: what the others rest on is as it was.
  <2>c. ASSUME NEW f \in Fetches, NEW stage \in Stages, Goes(f, stage), UNCHANGED <<robots, closedFor>>,
               rules' # NoRules /\ rules'.allows /\ rules'.age < CacheTtl
                 => closedFor <= rules'.age + RobotsTimeout,
               stage # "read",
               stage = "sending" =>
                 closedFor < CacheTtl + RobotsTimeout + Retrying(fetches[f].attempt),
               stage = "backoff" =>
                 closedFor < CacheTtl + RobotsTimeout + Retrying(fetches[f].attempt) + AttemptTime
        PROVE  RulesInv'
    <3>1. /\ fetches'[f].stage = stage /\ fetches'[f].age = 0
          /\ fetches'[f].attempt = fetches[f].attempt
          /\ \A g \in Fetches \ {f} : fetches'[g] = fetches[g]
      BY <2>a, <2>c DEF Goes, FetchRecord
    <3>2. RestsOnRules(f)'
      BY <2>a, <2>b, <2>c, <3>1, WaitsLast DEF RestsOnRules, Waits
    <3>3. \A g \in Fetches \ {f} : RestsOnRules(g)'
      BY <2>c, <3>1 DEF RulesInv, RestsOnRules
    <3>. QED
      BY <2>c, <3>2, <3>3 DEF RulesInv
  <2>1. ASSUME NEW f \in Fetches, CheckCached(f) PROVE RulesInv'
    <3>1. rules.allows => closedFor < CacheTtl + RobotsTimeout
      BY <2>1, <2>a, WaitsLast DEF CheckCached, RulesInv
    <3>2. rules.allows =>
            closedFor < CacheTtl + RobotsTimeout + Retrying(fetches[f].attempt)
      BY <3>1, <2>a, <2>b, WaitsLast
    <3>. QED
      BY <2>1, <2>c, <3>2 DEF CheckCached, RulesInv, Stages
  <2>2. ASSUME NEW f \in Fetches, AskRobots(f) PROVE RulesInv'
    BY <2>2, <2>c DEF AskRobots, RulesInv, Stages
  <2>3. ASSUME NEW f \in Fetches, ServeRobots(f) PROVE RulesInv'
    <3>1. /\ fetches'[f].stage = "read" /\ fetches'[f].age = 0
          /\ fetches'[f].allows => (robots.readable => robots.allows)
          /\ \A g \in Fetches \ {f} : fetches'[g] = fetches[g]
      BY <2>3, <2>a DEF ServeRobots, FetchRecord
    <3>2. RestsOnRules(f)'
      BY <2>3, <3>1, WaitsLast DEF ServeRobots, RulesInv, RestsOnRules, Waits
    <3>3. \A g \in Fetches \ {f} : RestsOnRules(g)'
      BY <2>3, <3>1 DEF ServeRobots, RulesInv, RestsOnRules
    <3>. QED
      BY <2>3, <3>2, <3>3 DEF ServeRobots, RulesInv
  <2>4. ASSUME NEW f \in Fetches, CacheRobots(f) PROVE RulesInv'
    <3>1. fetches[f].allows => closedFor <= RobotsTimeout
      BY <2>4, <2>a, <2>b, WaitsLast DEF CacheRobots, RulesInv, RestsOnRules, Waits
    <3>2. fetches[f].allows =>
            closedFor < CacheTtl + RobotsTimeout + Retrying(fetches[f].attempt)
      BY <3>1, <2>a, <2>b, WaitsLast
    <3>3. rules'.allows = fetches[f].allows /\ rules'.age = 0
      BY <2>4 DEF CacheRobots
    <3>. QED
      BY <2>4, <2>a, <2>c, <3>1, <3>2, <3>3, WaitsLast DEF CacheRobots, Stages
  <2>5. ASSUME NEW f \in Fetches, ReceiveAnswer(f) PROVE RulesInv'
    BY <2>5, <2>c DEF ReceiveAnswer, RulesInv, Stages
  <2>6. ASSUME NEW f \in Fetches, LoseConnection(f) PROVE RulesInv'
    <3>1. closedFor < CacheTtl + RobotsTimeout + Retrying(fetches[f].attempt) + AttemptTime
      BY <2>6, <2>a, <2>b, WaitsLast DEF LoseConnection, RulesInv, RestsOnRules, Waits
    <3>. QED
      BY <2>6, <2>c, <3>1 DEF LoseConnection, RulesInv, Stages
  <2>7. ASSUME NEW f \in Fetches, SendAgain(f) PROVE RulesInv'
    <3>1. /\ fetches'[f].stage = "sending" /\ fetches'[f].age = 0
          /\ fetches'[f].attempt = fetches[f].attempt + 1
          /\ \A g \in Fetches \ {f} : fetches'[g] = fetches[g]
      BY <2>7, <2>a DEF SendAgain, FetchRecord
    <3>2. closedFor < CacheTtl + RobotsTimeout + Retrying(fetches'[f].attempt)
      <4>1. closedFor < CacheTtl + RobotsTimeout + Retrying(fetches[f].attempt)
                          + AttemptTime + MaxBackoff
        BY <2>7, <2>a, <2>b, WaitsLast DEF SendAgain, RulesInv, RestsOnRules, Waits
      <4>2. Retrying(fetches'[f].attempt)
              = Retrying(fetches[f].attempt) + AttemptTime + MaxBackoff
        BY <2>b, <3>1, RetriesAddUp
      <4>. QED
        BY <4>1, <4>2, <2>a, <2>b, WaitsLast
    <3>3. Retrying(fetches'[f].attempt) \in Nat
      BY <2>b, <3>1, RetriesAddUp
    <3>4. RestsOnRules(f)'
      BY <2>7, <2>a, <3>1, <3>2, <3>3, WaitsLast DEF SendAgain, RestsOnRules, Waits
    <3>5. \A g \in Fetches \ {f} : RestsOnRules(g)'
      BY <2>7, <3>1 DEF SendAgain, RulesInv, RestsOnRules
    <3>. QED
      BY <2>7, <3>4, <3>5 DEF SendAgain, RulesInv
  <2>8. ASSUME NEW f \in Fetches, NextPage(f) PROVE RulesInv'
    <3>1. fetches'[f].stage = "idle" /\ \A g \in Fetches \ {f} : fetches'[g] = fetches[g]
      BY <2>8, <2>a DEF NextPage, Idle0
    <3>. QED
      BY <2>8, <3>1 DEF NextPage, RulesInv, RestsOnRules, Waits
  <2>9. CASE SiteChanges
    <3>1. closedFor' \in {0, closedFor} /\ UNCHANGED <<rules, fetches>>
      BY <2>9 DEF SiteChanges
    <3>2. (robots'.readable => robots'.allows) => closedFor' = 0
      BY <2>9 DEF SiteChanges
    <3>3. closedFor' <= closedFor /\ closedFor' \in Nat
      BY <3>1, <2>a
    <3>4. \A f \in Fetches : RestsOnRules(f)'
      BY <3>1, <3>3, <2>a, <2>b, WaitsLast DEF RulesInv, RestsOnRules
    <3>. QED
      BY <3>1, <3>2, <3>3, <3>4, <2>a, WaitsLast DEF RulesInv
  <2>10. CASE PassTick
    <3>1. /\ closedFor' \in {closedFor, closedFor + 1} /\ UNCHANGED robots
          /\ (robots.readable => robots.allows) => closedFor' = closedFor
      BY <2>10 DEF PassTick
    <3>2. \A f \in Fetches :
            /\ fetches'[f].stage = fetches[f].stage /\ fetches'[f].allows = fetches[f].allows
            /\ fetches'[f].attempt = fetches[f].attempt
            /\ fetches[f].stage \in Waits => /\ fetches'[f].age = fetches[f].age + 1
                                            /\ fetches[f].age < Allotted(fetches[f].stage)
      BY <2>10, <2>a DEF PassTick, FetchRecord
    <3>3. ASSUME NEW f \in Fetches PROVE RestsOnRules(f)'
      <4>1. RestsOnRules(f)
        BY DEF RulesInv
      <4>2. CASE fetches[f].stage \notin Waits
        BY <4>2, <3>2 DEF RestsOnRules, Waits
      <4>3. CASE fetches[f].stage \in Waits
        BY <4>1, <4>3, <3>1, <3>2, <2>a, <2>b, WaitsLast DEF RestsOnRules, Waits
      <4>. QED
        BY <4>2, <4>3
    <3>4. rules' # NoRules /\ rules'.allows /\ rules'.age < CacheTtl
            => closedFor' <= rules'.age + RobotsTimeout
      <4>. SUFFICES ASSUME rules' # NoRules, rules'.allows, rules'.age < CacheTtl
                    PROVE  closedFor' <= rules'.age + RobotsTimeout
        OBVIOUS
      <4>1. rules # NoRules /\ rules \in [allows: BOOLEAN, age: 0 .. CacheTtl] /\ rules.age # CacheTtl
        BY <2>10, <2>a DEF PassTick
      <4>2. rules' = [rules EXCEPT !.age = @ + 1]
        BY <4>1, <2>10 DEF PassTick
      <4>3. rules'.age = rules.age + 1 /\ rules'.allows = rules.allows
        BY <4>1, <4>2
      <4>4. closedFor <= rules.age + RobotsTimeout
        BY <4>1, <4>3, WaitsLast DEF RulesInv
      <4>. QED
        BY <4>1, <4>3, <4>4, <3>1, <2>a, WaitsLast
    <3>. QED
      BY <3>1, <3>3, <3>4 DEF RulesInv
  <2>11. CASE UNCHANGED fetchVars
    BY <2>11 DEF fetchVars, RulesInv, RestsOnRules
  <2>. QED
    BY <2>1, <2>2, <2>3, <2>4, <2>5, <2>6, <2>7, <2>8, <2>9, <2>10, <2>11 DEF FetchNext
<1>3. RulesInv => RulesAreFresh
  BY DEF RulesInv, RestsOnRules, RulesAreFresh
<1>. QED
  BY <1>1, <1>2, <1>3, FetchTypeCorrect, PTL DEF FetchSpec

-----------------------------------------------------------------------------
(* Renderers                                                               *)

\* Before step i, the last `what' has not been followed by a close.
Holding(s, i, what) ==
  \E j \in 1 .. i - 1 : s[j] = what /\ \A k \in j + 1 .. i - 1 : s[k] # "close"

\* An operation asks for a permit only when it has none, opens its tab with a
\* permit, and ends without either.
WellFormed(s) ==
  \A i \in 1 .. Len(s) + 1 :
    /\ Holding(s, i, "open") => Holding(s, i, "permit")
    /\ Holding(s, i, "permit") => i <= Len(s) /\ s[i] # "permit"

LEMMA OperationsAreWellFormed ==
  ASSUME NEW d \in Drivers, NEW op \in DOMAIN StepsOf[d]
  PROVE  WellFormed(StepsOf[d][op]) /\ Len(StepsOf[d][op]) \in Nat
<1>1. CASE d = "cdp"
  <2>1. op \in {"render", "shot", "script", "cookies"}
    BY <1>1 DEF StepsOf
  <2>2. CASE op = "render"
    <3>1. StepsOf[d][op] = CdpRender
      BY <1>1, <2>2 DEF StepsOf
    <3>2. WellFormed(CdpRender) /\ Len(CdpRender) \in Nat
      BY DEF WellFormed, Holding, CdpRender
    <3>. QED
      BY <3>1, <3>2
  <2>3. CASE op = "shot"
    <3>1. StepsOf[d][op] = CdpShot
      BY <1>1, <2>3 DEF StepsOf
    <3>2. WellFormed(CdpShot) /\ Len(CdpShot) \in Nat
      BY DEF WellFormed, Holding, CdpShot, CdpRender
    <3>. QED
      BY <3>1, <3>2
  <2>4. CASE op = "script"
    <3>1. StepsOf[d][op] = CdpScript
      BY <1>1, <2>4 DEF StepsOf
    <3>2. WellFormed(CdpScript) /\ Len(CdpScript) \in Nat
      BY DEF WellFormed, Holding, CdpScript
    <3>. QED
      BY <3>1, <3>2
  <2>5. CASE op = "cookies"
    <3>1. StepsOf[d][op] = CdpCookies
      BY <1>1, <2>5 DEF StepsOf
    <3>2. WellFormed(CdpCookies) /\ Len(CdpCookies) \in Nat
      BY DEF WellFormed, Holding, CdpCookies
    <3>. QED
      BY <3>1, <3>2
  <2>. QED
    BY <2>1, <2>2, <2>3, <2>4, <2>5
<1>2. CASE d = "webdriver"
  <2>1. op \in {"render", "shot", "script", "text", "await", "click", "fill"}
    BY <1>2 DEF StepsOf
  <2>2. CASE op = "render"
    <3>1. StepsOf[d][op] = DriverRender
      BY <1>2, <2>2 DEF StepsOf
    <3>2. WellFormed(DriverRender) /\ Len(DriverRender) \in Nat
      BY DEF WellFormed, Holding, DriverRender, OnPage
    <3>. QED
      BY <3>1, <3>2
  <2>3. CASE op = "shot"
    <3>1. StepsOf[d][op] = DriverShot
      BY <1>2, <2>3 DEF StepsOf
    <3>2. WellFormed(DriverShot) /\ Len(DriverShot) \in Nat
      BY DEF WellFormed, Holding, DriverShot, OnPage
    <3>. QED
      BY <3>1, <3>2
  <2>4. CASE op = "script"
    <3>1. StepsOf[d][op] = DriverScript
      BY <1>2, <2>4 DEF StepsOf
    <3>2. WellFormed(DriverScript) /\ Len(DriverScript) \in Nat
      BY DEF WellFormed, Holding, DriverScript, OnPage
    <3>. QED
      BY <3>1, <3>2
  <2>5. CASE op = "text"
    <3>1. StepsOf[d][op] = DriverText
      BY <1>2, <2>5 DEF StepsOf
    <3>2. WellFormed(DriverText) /\ Len(DriverText) \in Nat
      BY DEF WellFormed, Holding, DriverText, OnPage
    <3>. QED
      BY <3>1, <3>2
  <2>6. CASE op = "await"
    <3>1. StepsOf[d][op] = DriverAwait
      BY <1>2, <2>6 DEF StepsOf
    <3>2. WellFormed(DriverAwait) /\ Len(DriverAwait) \in Nat
      BY DEF WellFormed, Holding, DriverAwait, OnPage
    <3>. QED
      BY <3>1, <3>2
  <2>7. CASE op = "click"
    <3>1. StepsOf[d][op] = DriverClick
      BY <1>2, <2>7 DEF StepsOf
    <3>2. WellFormed(DriverClick) /\ Len(DriverClick) \in Nat
      BY DEF WellFormed, Holding, DriverClick, OnPage
    <3>. QED
      BY <3>1, <3>2
  <2>8. CASE op = "fill"
    <3>1. StepsOf[d][op] = DriverFill
      BY <1>2, <2>8 DEF StepsOf
    <3>2. WellFormed(DriverFill) /\ Len(DriverFill) \in Nat
      BY DEF WellFormed, Holding, DriverFill, OnPage
    <3>. QED
      BY <3>1, <3>2
  <2>. QED
    BY <2>1, <2>2, <2>3, <2>4, <2>5, <2>6, <2>7, <2>8
<1>. QED
  BY <1>1, <1>2 DEF Drivers

\* One step on: what a call holds before the next step.
LEMMA HoldingNext ==
  ASSUME NEW s, NEW i \in Nat \ {0}, NEW what \in {"permit", "open"}
  PROVE  Holding(s, i + 1, what) <=> s[i] = what \/ (Holding(s, i, what) /\ s[i] # "close")
<1>1. ASSUME s[i] = what PROVE Holding(s, i + 1, what)
  <2>1. i \in 1 .. (i + 1) - 1 /\ \A k \in i + 1 .. (i + 1) - 1 : FALSE
    OBVIOUS
  <2>. QED
    BY <1>1, <2>1 DEF Holding
<1>2. ASSUME Holding(s, i, what), s[i] # "close" PROVE Holding(s, i + 1, what)
  <2>1. PICK j \in 1 .. i - 1 : s[j] = what /\ \A k \in j + 1 .. i - 1 : s[k] # "close"
    BY <1>2 DEF Holding
  <2>2. j \in 1 .. (i + 1) - 1 /\ \A k \in j + 1 .. (i + 1) - 1 : k = i \/ k \in j + 1 .. i - 1
    OBVIOUS
  <2>3. \A k \in j + 1 .. (i + 1) - 1 : s[k] # "close"
    BY <1>2, <2>1, <2>2
  <2>. QED
    BY <2>1, <2>2, <2>3 DEF Holding
<1>3. ASSUME Holding(s, i + 1, what), s[i] # what PROVE Holding(s, i, what) /\ s[i] # "close"
  <2>1. PICK j \in 1 .. (i + 1) - 1 :
          s[j] = what /\ \A k \in j + 1 .. (i + 1) - 1 : s[k] # "close"
    BY <1>3 DEF Holding
  <2>2. j \in 1 .. i - 1 /\ i \in j + 1 .. (i + 1) - 1
    BY <1>3, <2>1
  <2>3. \A k \in j + 1 .. i - 1 : s[k] # "close"
    BY <2>1
  <2>. QED
    BY <2>1, <2>2, <2>3 DEF Holding
<1>. QED
  BY <1>1, <1>2, <1>3

Operations == UNION {DOMAIN StepsOf[d] : d \in Drivers}

Render ==
  [driver : Drivers, op : Operations, at : Nat, permit : BOOLEAN, tab : BOOLEAN]

\* A call holds what its steps so far took, no more than that.
CallOK(r) ==
  /\ r \in Render /\ r.op \in DOMAIN StepsOf[r.driver]
  /\ LET s == StepsOf[r.driver][r.op]
     IN  /\ r.at \in 1 .. Len(s) + 1
         /\ r.permit <=> Holding(s, r.at, "permit")
         /\ r.tab <=> Holding(s, r.at, "open")

CallsInv == \A c \in RenderCalls : renders[c] # NoRender => CallOK(renders[c])

\* The semaphores bound the permits, and the faults what was left behind.
PermitsInv ==
  \A d \in Drivers : Cardinality(Holders(d)) <= Tabs /\ abandoned[d] <= renderFaults

LEMMA StartedCall ==
  ASSUME NEW d \in Drivers, NEW op \in DOMAIN StepsOf[d]
  PROVE  CallOK([driver |-> d, op |-> op, at |-> 1, permit |-> FALSE, tab |-> FALSE])
<1>. DEFINE r == [driver |-> d, op |-> op, at |-> 1, permit |-> FALSE, tab |-> FALSE]
            s == StepsOf[d][op]
<1>1. op \in Operations
  BY DEF Operations
<1>2. Len(s) \in Nat
  BY OperationsAreWellFormed
<1>3. ~Holding(s, 1, "permit") /\ ~Holding(s, 1, "open")
  BY DEF Holding
<1>4. r \in Render
  BY <1>1 DEF Render
<1>. HIDE DEF s
<1>5. 1 \in 1 .. Len(s) + 1
  BY <1>2
<1>. QED
  BY <1>3, <1>4, <1>5 DEF CallOK, s

\* The next step of a call that is underway.
LEMMA AdvancedCall ==
  ASSUME NEW c \in RenderCalls, CallOK(renders[c]), Underway(c)
  PROVE  /\ CallOK(Advanced(c)) /\ Advanced(c).driver = renders[c].driver
         /\ Advanced(c).permit => renders[c].permit \/ StepOf(c) = "permit"
<1>. DEFINE r == renders[c]
            s == StepsOf[r.driver][r.op]
            i == r.at
            step == s[i]
            tab == IF step = "open" THEN TRUE ELSE IF step = "close" THEN FALSE ELSE r.tab
            permit == IF step = "permit" THEN TRUE ELSE IF step = "close" THEN FALSE ELSE r.permit
            next == [r EXCEPT !.at = i + 1, !.tab = tab, !.permit = permit]
<1>1. /\ r \in Render /\ r.op \in DOMAIN StepsOf[r.driver] /\ i \in 1 .. Len(s) + 1
      /\ r.permit <=> Holding(s, i, "permit")
      /\ r.tab <=> Holding(s, i, "open")
  BY DEF CallOK
<1>2. Len(s) \in Nat
  BY <1>1, OperationsAreWellFormed DEF Render
<1>3. Advanced(c) = next /\ StepOf(c) = step /\ i <= Len(s)
  BY DEF Advanced, StepOf, OwnSteps, Underway
<1>. HIDE DEF s
<1>4. i \in Nat \ {0} /\ i + 1 \in 1 .. Len(s) + 1
  BY <1>1, <1>2, <1>3
<1>5. permit \in BOOLEAN /\ tab \in BOOLEAN
  BY <1>1 DEF Render
<1>6. permit <=> Holding(s, i + 1, "permit")
  BY <1>1, <1>4, HoldingNext
<1>7. tab <=> Holding(s, i + 1, "open")
  BY <1>1, <1>4, HoldingNext
<1>. HIDE DEF permit, tab
<1>8. /\ next \in Render /\ next.driver = r.driver /\ next.op = r.op /\ next.at = i + 1
      /\ next.permit = permit /\ next.tab = tab
  <2>. DEFINE one == [r EXCEPT !.at = i + 1]
              two == [one EXCEPT !.tab = tab]
  <2>1. /\ one \in Render /\ one.driver = r.driver /\ one.op = r.op /\ one.at = i + 1
    BY <1>1, <1>4 DEF Render
  <2>. HIDE DEF one
  <2>2. /\ two \in Render /\ two.driver = r.driver /\ two.op = r.op /\ two.at = i + 1
        /\ two.tab = tab
    BY <1>5, <2>1 DEF Render
  <2>. HIDE DEF two
  <2>3. LET last == [two EXCEPT !.permit = permit]
        IN  /\ last \in Render /\ last.driver = r.driver /\ last.op = r.op /\ last.at = i + 1
            /\ last.permit = permit /\ last.tab = tab
    BY <1>5, <2>2 DEF Render
  <2>. QED
    BY <2>3 DEF two, one
<1>9. CallOK(next)
  BY <1>1, <1>4, <1>6, <1>7, <1>8 DEF CallOK, s
<1>. QED
  BY <1>3, <1>8, <1>9 DEF permit

LEMMA HoldersAreFinite ==
  ASSUME NEW d
  PROVE  /\ IsFiniteSet(Holders(d)) /\ Cardinality(Holders(d)) \in Nat
         /\ IsFiniteSet(InUse(d)) /\ Cardinality(InUse(d)) \in Nat
<1>1. Holders(d) \subseteq RenderCalls /\ InUse(d) \subseteq RenderCalls
  BY DEF Holders, InUse, Calling
<1>. QED
  BY <1>1, RendererAssumption, FS_Subset, FS_CardinalityType

RendererInv == RendererTypeOK /\ CallsInv /\ PermitsInv

\* What becomes of a call that ends, or goes on without taking a permit.
NoNewPermit(c, r) ==
  \/ r = NoRender
  \/ CallOK(r) /\ (r.permit => /\ renders[c] # NoRender /\ renders[c].permit
                                 /\ renders[c].driver = r.driver)

LEMMA GivesBack ==
  ASSUME RendererInv, NEW c \in RenderCalls, NEW r,
         renders' = [renders EXCEPT ![c] = r], NoNewPermit(c, r),
         renderFaults' \in 0 .. MaxRenderFaults,
         abandoned' \in [Drivers -> Nat],
         \A d \in Drivers : abandoned'[d] <= renderFaults'
  PROVE  RendererInv'
<1>. USE DEF NoNewPermit
<1>1. renders' \in [RenderCalls -> Render \cup {NoRender}]
  BY DEF RendererInv, RendererTypeOK, CallOK, Render, Operations
<1>2. RendererTypeOK'
  BY <1>1 DEF RendererTypeOK, Render, Operations
<1>3. renders'[c] = r /\ \A b \in RenderCalls : b # c => renders'[b] = renders[b]
  BY DEF RendererInv, RendererTypeOK
<1>4. CallsInv'
  BY <1>3 DEF RendererInv, CallsInv
<1>5. ASSUME NEW d \in Drivers PROVE Cardinality(Holders(d)') <= Tabs
  <2>1. Holders(d)' \subseteq Holders(d)
    BY <1>3 DEF Holders, Calling
  <2>2. Cardinality(Holders(d)') <= Cardinality(Holders(d)) /\ Cardinality(Holders(d)') \in Nat
    BY <2>1, HoldersAreFinite, FS_Subset, FS_CardinalityType
  <2>. QED
    BY <2>2, HoldersAreFinite, RendererAssumption DEF RendererInv, PermitsInv
<1>6. PermitsInv'
  BY <1>5 DEF PermitsInv
<1>. QED
  BY <1>2, <1>4, <1>6 DEF RendererInv

\* A call that takes a permit.
LEMMA TakesPermit ==
  ASSUME RendererInv, NEW c \in RenderCalls, NEW r, CallOK(r), renders[c] # NoRender,
         renders[c].driver = r.driver,
         Cardinality(Holders(r.driver)) < Tabs,
         renders' = [renders EXCEPT ![c] = r], UNCHANGED <<abandoned, renderFaults>>
  PROVE  RendererInv'
<1>1. renders' \in [RenderCalls -> Render \cup {NoRender}]
  BY DEF RendererInv, RendererTypeOK, CallOK, Render, Operations
<1>2. RendererTypeOK'
  BY <1>1 DEF RendererInv, RendererTypeOK, Render, Operations
<1>3. renders'[c] = r /\ \A b \in RenderCalls : b # c => renders'[b] = renders[b]
  BY DEF RendererInv, RendererTypeOK
<1>4. CallsInv'
  BY <1>3 DEF RendererInv, CallsInv
<1>5. ASSUME NEW d \in Drivers PROVE Cardinality(Holders(d)') <= Tabs
  <2>1. CASE d = r.driver
    <3>1. Holders(d)' \subseteq Holders(d) \cup {c}
      BY <1>3 DEF Holders, Calling
    <3>2. Cardinality(Holders(d)') <= Cardinality(Holders(d)) + 1 /\ Cardinality(Holders(d)') \in Nat
      BY <3>1, HoldersAreFinite, OneMore, FS_CardinalityType
    <3>. QED
      BY <2>1, <3>2, HoldersAreFinite, RendererAssumption
  <2>2. CASE d # r.driver
    <3>1. Holders(d)' \subseteq Holders(d)
      BY <1>3, <2>2 DEF Holders, Calling
    <3>2. Cardinality(Holders(d)') <= Cardinality(Holders(d)) /\ Cardinality(Holders(d)') \in Nat
      BY <3>1, HoldersAreFinite, FS_Subset, FS_CardinalityType
    <3>. QED
      BY <3>2, HoldersAreFinite, RendererAssumption DEF RendererInv, PermitsInv
  <2>. QED
    BY <2>1, <2>2
<1>6. PermitsInv'
  BY <1>5 DEF RendererInv, PermitsInv
<1>. QED
  BY <1>2, <1>4, <1>6 DEF RendererInv

LEMMA CallEnds ==
  ASSUME RendererInv, NEW c \in RenderCalls, renders' = [renders EXCEPT ![c] = NoRender],
         renderFaults' \in 0 .. MaxRenderFaults, abandoned' \in [Drivers -> Nat],
         \A d \in Drivers : abandoned'[d] <= renderFaults'
  PROVE  RendererInv'
<1>1. NoNewPermit(c, NoRender)
  BY DEF NoNewPermit
<1>. QED
  BY <1>1, GivesBack

\* One fault leaves one tab or session behind at most.
LEMMA OneFault ==
  ASSUME RendererInv, renderFaults < MaxRenderFaults, renderFaults' = renderFaults + 1,
         NEW x, NEW n \in {0, 1}, abandoned' = [abandoned EXCEPT ![x] = @ + n]
  PROVE  /\ renderFaults' \in 0 .. MaxRenderFaults /\ abandoned' \in [Drivers -> Nat]
         /\ \A d \in Drivers : abandoned'[d] <= renderFaults'
<1>1. /\ renderFaults \in 0 .. MaxRenderFaults /\ abandoned \in [Drivers -> Nat]
      /\ \A d \in Drivers : abandoned[d] <= renderFaults
  BY DEF RendererInv, RendererTypeOK, PermitsInv
<1>2. ASSUME NEW d \in Drivers
      PROVE  abandoned'[d] \in {abandoned[d], abandoned[d] + n} /\ abandoned'[d] \in Nat
    BY <1>1
<1>3. abandoned' \in [Drivers -> Nat]
  BY <1>1, <1>2
<1>4. ASSUME NEW d \in Drivers PROVE abandoned'[d] <= renderFaults'
  <2>1. abandoned[d] \in Nat /\ abandoned[d] <= renderFaults
    BY <1>1
  <2>. QED
    BY <1>1, <1>2, <2>1
<1>. QED
  BY <1>1, <1>3, <1>4, RendererAssumption

LEMMA RendererFacts == RendererSpec => []RendererInv
<1>. USE RendererAssumption
<1>1. RendererInit => RendererInv
  <2>. SUFFICES ASSUME RendererInit PROVE RendererInv
    OBVIOUS
  <2>1. RendererTypeOK /\ CallsInv
    BY DEF RendererInit, RendererTypeOK, CallsInv
  <2>2. ASSUME NEW d \in Drivers PROVE Holders(d) = {}
    BY DEF RendererInit, Holders, Calling
  <2>3. PermitsInv
    BY <2>2, FS_EmptySet DEF RendererInit, PermitsInv
  <2>. QED
    BY <2>1, <2>3 DEF RendererInv
<1>2. RendererInv /\ [RendererNext]_renderVars => RendererInv'
  <2>. SUFFICES ASSUME RendererInv, [RendererNext]_renderVars PROVE RendererInv'
    OBVIOUS
  <2>0. /\ renderFaults \in 0 .. MaxRenderFaults /\ abandoned \in [Drivers -> Nat]
        /\ \A d \in Drivers : abandoned[d] <= renderFaults
    BY DEF RendererInv, RendererTypeOK, PermitsInv
  <2>1. ASSUME NEW c \in RenderCalls, NEW d \in Drivers, NEW op \in DOMAIN StepsOf[d],
               StartRender(c, d, op)
        PROVE  RendererInv'
    <3>. DEFINE r == [driver |-> d, op |-> op, at |-> 1, permit |-> FALSE, tab |-> FALSE]
    <3>1. CallOK(r) /\ ~r.permit
      BY StartedCall
    <3>2. renders' = [renders EXCEPT ![c] = r] /\ UNCHANGED <<abandoned, renderFaults>>
      BY <2>1 DEF StartRender
    <3>. HIDE DEF r
    <3>. QED
      BY <2>0, <3>1, <3>2, GivesBack DEF NoNewPermit
  <2>2. ASSUME NEW c \in RenderCalls, TakeStep(c) PROVE RendererInv'
    <3>1. /\ Underway(c) /\ renders[c] # NoRender /\ renders' = [renders EXCEPT ![c] = Advanced(c)]
          /\ StepOf(c) = "permit" => Cardinality(Holders(renders[c].driver)) < Tabs
          /\ UNCHANGED <<abandoned, renderFaults>>
      BY <2>2 DEF TakeStep, Underway
    <3>2. /\ CallOK(Advanced(c)) /\ Advanced(c).driver = renders[c].driver
          /\ Advanced(c).permit => renders[c].permit \/ StepOf(c) = "permit"
      BY <3>1, AdvancedCall DEF RendererInv, CallsInv
    <3>3. CASE StepOf(c) = "permit"
      BY <3>1, <3>2, <3>3, TakesPermit
    <3>4. CASE StepOf(c) # "permit"
      BY <2>0, <3>1, <3>2, <3>4, GivesBack DEF NoNewPermit
    <3>. QED
      BY <3>3, <3>4
  <2>3. ASSUME NEW c \in RenderCalls, CloseFails(c) PROVE RendererInv'
    <3>1. /\ Underway(c) /\ renders[c] # NoRender /\ renders' = [renders EXCEPT ![c] = Advanced(c)]
          /\ StepOf(c) = "close" /\ renderFaults < MaxRenderFaults
          /\ abandoned' = [abandoned EXCEPT ![renders[c].driver] = @ + 1]
          /\ renderFaults' = renderFaults + 1
      BY <2>3 DEF CloseFails, Underway
    <3>2. /\ CallOK(Advanced(c)) /\ Advanced(c).driver = renders[c].driver
          /\ Advanced(c).permit => renders[c].permit \/ StepOf(c) = "permit"
      BY <3>1, AdvancedCall DEF RendererInv, CallsInv
    <3>3. /\ renderFaults' \in 0 .. MaxRenderFaults /\ abandoned' \in [Drivers -> Nat]
          /\ \A d \in Drivers : abandoned'[d] <= renderFaults'
      BY <3>1, OneFault
    <3>. QED
      BY <3>1, <3>2, <3>3, GivesBack DEF NoNewPermit
  <2>4. ASSUME NEW c \in RenderCalls, Disallowed(c) \/ EndRender(c) PROVE RendererInv'
    <3>1. renders' = [renders EXCEPT ![c] = NoRender] /\ UNCHANGED <<abandoned, renderFaults>>
      BY <2>4 DEF Disallowed, EndRender
    <3>. QED
      BY <2>0, <3>1, CallEnds
  <2>5. ASSUME NEW c \in RenderCalls, StepFails(c) \/ DropRender(c) PROVE RendererInv'
    <3>. DEFINE left == IF renders[c].tab THEN 1 ELSE 0
    <3>1. /\ renders' = [renders EXCEPT ![c] = NoRender]
          /\ renderFaults < MaxRenderFaults /\ renderFaults' = renderFaults + 1
          /\ abandoned' = [abandoned EXCEPT ![renders[c].driver] = @ + left]
      BY <2>5 DEF StepFails, DropRender, Abandon
    <3>2. /\ renderFaults' \in 0 .. MaxRenderFaults /\ abandoned' \in [Drivers -> Nat]
          /\ \A d \in Drivers : abandoned'[d] <= renderFaults'
      <4>1. left \in {0, 1}
        OBVIOUS
      <4>. HIDE DEF left
      <4>. QED
        BY <3>1, <4>1, OneFault
    <3>. QED
      BY <3>1, <3>2, CallEnds
  <2>6. CASE UNCHANGED renderVars
    BY <2>6 DEF renderVars, RendererInv, RendererTypeOK, CallsInv, PermitsInv, Holders, Calling
  <2>. QED
    BY <2>1, <2>2, <2>3, <2>4, <2>5, <2>6 DEF RendererNext
<1>. QED
  BY <1>1, <1>2, PTL DEF RendererSpec

\* The variables of the renderers keep their types.
THEOREM RendererTypeCorrect == RendererSpec => []RendererTypeOK
<1>1. RendererInv => RendererTypeOK
  BY DEF RendererInv
<1>. QED
  BY <1>1, RendererFacts, PTL

\* No renderer has more tabs or sessions than permits and faults, and callers that
\* wait for a permit do not wait for one another, for any number of permits and of
\* callers: every operation of BrowserRenderer and WebDriverRenderer.
THEOREM TabsStayBounded == RendererSpec => []TabsAreBounded
<1>1. RendererInv => TabsAreBounded
  <2>. SUFFICES ASSUME RendererInv PROVE TabsAreBounded
    OBVIOUS
  <2>. USE RendererAssumption
  <2>0. \A c \in RenderCalls : renders[c] # NoRender => CallOK(renders[c])
    BY DEF RendererInv, CallsInv
  <2>1. ASSUME NEW c \in RenderCalls, renders[c] # NoRender, renders[c].permit
        PROVE  StepOf(c) # "permit"
    <3>. DEFINE s == StepsOf[renders[c].driver][renders[c].op]
    <3>1. /\ WellFormed(s) /\ renders[c].at \in 1 .. Len(s) + 1
          /\ Holding(s, renders[c].at, "permit")
      BY <2>0, <2>1, OperationsAreWellFormed DEF CallOK, Render
    <3>. QED
      BY <3>1 DEF WellFormed, StepOf, OwnSteps
  <2>2. ASSUME NEW c \in RenderCalls, renders[c] # NoRender, renders[c].tab
        PROVE  renders[c].permit
    <3>. DEFINE s == StepsOf[renders[c].driver][renders[c].op]
    <3>1. /\ WellFormed(s) /\ renders[c].at \in 1 .. Len(s) + 1
          /\ renders[c].permit <=> Holding(s, renders[c].at, "permit")
          /\ Holding(s, renders[c].at, "open")
      BY <2>0, <2>2, OperationsAreWellFormed DEF CallOK, Render
    <3>. QED
      BY <3>1 DEF WellFormed
  <2>3. ASSUME NEW d \in Drivers
        PROVE  Cardinality(InUse(d)) + abandoned[d] <= Tabs + renderFaults
    <3>1. InUse(d) \subseteq Holders(d)
      BY <2>2 DEF InUse, Holders, Calling
    <3>2. Cardinality(InUse(d)) <= Cardinality(Holders(d))
      BY <3>1, HoldersAreFinite, FS_Subset
    <3>3. /\ Cardinality(Holders(d)) <= Tabs /\ abandoned[d] <= renderFaults
          /\ abandoned[d] \in Nat /\ renderFaults \in Nat
      BY DEF RendererInv, PermitsInv, RendererTypeOK
    <3>. QED
      BY <3>2, <3>3, HoldersAreFinite
  <2>4. ASSUME NEW c \in RenderCalls, ~(Cardinality(Holders(renders[c].driver)) < Tabs)
        PROVE  \E other \in Holders(renders[c].driver) : StepOf(other) # "permit"
    <3>. DEFINE d == renders[c].driver
    <3>1. Holders(d) # {}
      BY <2>4, FS_EmptySet
    <3>2. PICK other \in Holders(d) : TRUE
      BY <3>1
    <3>3. StepOf(other) # "permit"
      BY <2>1 DEF Holders, Calling
    <3>. QED
      BY <3>3
  <2>. QED
    BY <2>3, <2>4 DEF TabsAreBounded
<1>. QED
  BY <1>1, RendererFacts, PTL

=============================================================================
