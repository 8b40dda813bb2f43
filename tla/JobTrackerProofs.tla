-------------------------- MODULE JobTrackerProofs --------------------------
(***************************************************************************)
(* Theorems about JobTracker: what the server bills, for any jobs, limits  *)
(* and restarts.                                                           *)
(***************************************************************************)
EXTENDS JobTracker, SequenceTheorems, TLAPS

\* update_job leaves a state behind, or changes nothing.
LEMMA UpdateStep ==
  ASSUME TypeOK, NEW j \in Jobs, NEW state, j \in Stored => state \in JobState,
         Update(j, state)
  PROVE  /\ jobs' \in [Jobs -> JobState \cup {Absent}]
         /\ j \in Stored => jobs'[j] = state
         /\ j \notin Stored => jobs' = jobs
         /\ \A k \in Jobs \ {j} : jobs'[k] = jobs[k]
  BY DEF TypeOK, Update, Stored

\* A spawned write carries the state the job has now.
LEMMA SpawnStep ==
  ASSUME TypeOK, NEW j \in Jobs, NEW kind \in {"insert", "update"},
         j \in Stored => jobs'[j] \in JobState, Spawn(kind, j)
  PROVE  writes' \subseteq [kind : {"insert", "update"}, job : Jobs, state : JobState]
<1>1. CASE j \in Stored
  <2>1. [kind |-> kind, job |-> j, state |-> jobs'[j]]
          \in [kind : {"insert", "update"}, job : Jobs, state : JobState]
    BY <1>1
  <2>. QED
    BY <1>1, <2>1 DEF Spawn, TypeOK
<1>2. CASE j \notin Stored
  BY <1>2 DEF Spawn, TypeOK
<1>. QED
  BY <1>1, <1>2

LEMMA StoredState ==
  ASSUME TypeOK, NEW j \in Stored
  PROVE  /\ j \in Jobs /\ jobs[j] \in JobState
         /\ \A s \in Active \cup Finished : [jobs[j] EXCEPT !.status = s] \in JobState
         /\ [jobs[j] EXCEPT !.crawled = @ + 1] \in JobState
  BY DEF TypeOK, Stored, JobState

LEMMA ConsumeStep ==
  ASSUME NEW j \in Jobs, Consume(j)
  PROVE  /\ activity' = [activity EXCEPT ![j] = "fresh"]
         /\ requests' = requests /\ idleJobs' = idleJobs /\ rows' = rows /\ writes' = writes
         /\ flushing' = flushing /\ debits' = debits /\ charged' = charged
         /\ rejoins' = rejoins /\ restarts' = restarts
  BY Zenon DEF Consume

\* What an event that counts a page leaves behind, new or delivered again.
LEMMA CountStep ==
  ASSUME TypeOK, NEW j \in Jobs, CountPage(j)
  PROVE  /\ jobs' \in [Jobs -> JobState \cup {Absent}]
         /\ j \in Stored => jobs'[j] = [jobs[j] EXCEPT !.crawled = @ + 1]
         /\ j \notin Stored => jobs' = jobs
         /\ \A k \in Jobs \ {j} : jobs'[k] = jobs[k]
         /\ dirty' = dirty \cup {j}
         /\ handled' \in [Jobs -> Nat] /\ handled'[j] = handled[j] + 1
         /\ \A k \in Jobs \ {j} : handled'[k] = handled[k]
<1>1. Update(j, [jobs[j] EXCEPT !.crawled = @ + 1]) /\ dirty' = dirty \cup {j}
      /\ handled' = [handled EXCEPT ![j] = @ + 1]
  BY DEF CountPage
<1>2. handled \in [Jobs -> Nat]
  BY DEF TypeOK
<1>. QED
  BY <1>1, <1>2, UpdateStep, StoredState

\* What the broker will deliver again was handled before.
LEMMA RedeliverStep ==
  ASSUME TypeOK, Redeliver
  PROVE  /\ handled' = [j \in Jobs |-> 0]
         /\ again' \in [Jobs -> Nat]
         /\ \A j \in Jobs : again'[j] <= again[j] + handled[j]
<1>1. PICK lost \in [Jobs -> 0..MaxEvents] :
         /\ \A j \in Jobs : lost[j] <= handled[j]
         /\ again' = [j \in Jobs |-> again[j] + lost[j]]
  BY DEF Redeliver
<1>2. \A j \in Jobs : lost[j] \in Nat /\ again[j] \in Nat /\ handled[j] \in Nat
  BY <1>1 DEF TypeOK
<1>. QED
  BY <1>1, <1>2 DEF Redeliver

\* Every variable keeps its type.
THEOREM TypeCorrect == Spec => []TypeOK
<1>1. Init => TypeOK
  BY JobTrackerAssumption DEF Init, TypeOK
<1>2. TypeOK /\ [Next]_vars => TypeOK'
  <2>. SUFFICES ASSUME TypeOK, [Next]_vars PROVE TypeOK'
    OBVIOUS
  <2>1. ASSUME NEW j \in Jobs, CheckQuota(j) PROVE TypeOK'
    <3>1. requests' \in [Jobs -> {"none", "checked", "refused", "publishing", "abandoned",
                                  "orphaned", "done"}]
      BY <2>1 DEF CheckQuota, crawl, TypeOK
    <3>. QED
      BY <2>1, <3>1 DEF CheckQuota, memory, crawl, TypeOK
  <2>2. ASSUME NEW j \in Jobs, Register(j) PROVE TypeOK'
    <3>1. jobs' \in [Jobs -> JobState \cup {Absent}]
      BY <2>2 DEF Register, TypeOK, JobState, Active
    <3>2. requests' \in [Jobs -> {"none", "checked", "refused", "publishing", "abandoned",
                                  "orphaned", "done"}]
      BY <2>2 DEF Register, crawl, TypeOK
    <3>. QED
      BY <2>2, <3>1, <3>2 DEF Register, crawl, TypeOK
  <2>3. ASSUME NEW j \in Jobs, Heartbeat(j) \/ Abandon(j) \/ GoIdle(j) PROVE TypeOK'
    BY <2>3 DEF Heartbeat, Abandon, GoIdle, memory, crawl, TypeOK
  <2>4. ASSUME NEW j \in Jobs, Started(j) PROVE TypeOK'
    <3>1. /\ jobs' \in [Jobs -> JobState \cup {Absent}]
          /\ j \in Stored => jobs'[j] \in JobState
      <4>1. j \in Stored => [jobs[j] EXCEPT !.status = "running"] \in JobState
        BY StoredState DEF Active
      <4>2. Update(j, [jobs[j] EXCEPT !.status = "running"])
        BY <2>4 DEF Started
      <4>. QED
        BY <4>1, <4>2, UpdateStep
    <3>2. writes' \subseteq [kind : {"insert", "update"}, job : Jobs, state : JobState]
      BY <2>4, <3>1, SpawnStep DEF Started
    <3>. QED
      BY <2>4, <3>1, <3>2 DEF Started, crawl, TypeOK
  <2>5. ASSUME NEW j \in Jobs, PublishFailed(j) PROVE TypeOK'
    <3>1. jobs' \in [Jobs -> JobState \cup {Absent}]
      <4>1. j \in Stored => [jobs[j] EXCEPT !.status = "failed"] \in JobState
        BY StoredState DEF Finished
      <4>2. Update(j, [jobs[j] EXCEPT !.status = "failed"])
        BY <2>5 DEF PublishFailed
      <4>. QED
        BY <4>1, <4>2, UpdateStep
    <3>. QED
      BY <2>5, <3>1 DEF PublishFailed, crawl, TypeOK
  <2>6. ASSUME NEW j \in Jobs, Cancel(j) PROVE TypeOK'
    <3>1. /\ jobs' \in [Jobs -> JobState \cup {Absent}]
          /\ jobs'[j] \in JobState
      BY <2>6, StoredState DEF Cancel, Finished, crawl, TypeOK
    <3>2. writes' \subseteq [kind : {"insert", "update"}, job : Jobs, state : JobState]
      BY <2>6, <3>1, SpawnStep DEF Cancel
    <3>. QED
      BY <2>6, <3>1, <3>2 DEF Cancel, crawl, TypeOK
  <2>7. ASSUME NEW j \in Jobs, PageCrawled(j) \/ PageCrawledAgain(j) PROVE TypeOK'
    <3>1. Consume(j) /\ CountPage(j)
      BY <2>7 DEF PageCrawled, PageCrawledAgain, Event
    <3>2. /\ events \in [Jobs -> Nat] /\ fetched \in [Jobs -> Nat] /\ again \in [Jobs -> Nat]
      BY DEF TypeOK
    <3>3. ASSUME PageCrawled(j)
          PROVE  events' \in [Jobs -> Nat] /\ fetched' \in [Jobs -> Nat] /\ again' \in [Jobs -> Nat]
      <4>1. /\ events' = [events EXCEPT ![j] = @ + 1] /\ fetched' = [fetched EXCEPT ![j] = @ + 1]
            /\ again' = again
        BY <3>3 DEF PageCrawled, Event
      <4>. QED
        BY <3>2, <4>1
    <3>4. ASSUME PageCrawledAgain(j)
          PROVE  events' \in [Jobs -> Nat] /\ fetched' \in [Jobs -> Nat] /\ again' \in [Jobs -> Nat]
      <4>1. /\ UNCHANGED <<events, fetched>>
            /\ again[j] > 0 /\ again' = [again EXCEPT ![j] = @ - 1]
        BY <3>4 DEF PageCrawledAgain
      <4>2. again[j] - 1 \in Nat
        BY <3>2, <4>1
      <4>. QED
        BY <3>2, <4>1, <4>2
    <3>5. /\ events' \in [Jobs -> Nat] /\ fetched' \in [Jobs -> Nat] /\ again' \in [Jobs -> Nat]
      BY <2>7, <3>3, <3>4
    <3>6. /\ activity' = [activity EXCEPT ![j] = "fresh"]
          /\ UNCHANGED <<requests, idleJobs, rows, writes, flushing, debits, charged, rejoins,
                         restarts>>
      BY <3>1, ConsumeStep
    <3>7. /\ jobs' \in [Jobs -> JobState \cup {Absent}] /\ dirty' = dirty \cup {j}
          /\ handled' \in [Jobs -> Nat]
      BY <3>1, CountStep
    <3>. QED
      BY <3>5, <3>6, <3>7 DEF TypeOK
  <2>8. ASSUME NEW j \in Jobs, OtherEvent(j) PROVE TypeOK'
    <3>1. Consume(j) /\ dirty' \in {dirty, dirty \cup {j}}
          /\ UNCHANGED <<jobs, fetched, handled, again>>
      BY <2>8 DEF OtherEvent, Event
    <3>2. events' = [events EXCEPT ![j] = @ + 1]
      BY <2>8 DEF OtherEvent, Event
    <3>3. /\ activity' = [activity EXCEPT ![j] = "fresh"]
          /\ UNCHANGED <<requests, idleJobs, rows, writes, flushing, debits, charged, rejoins,
                         restarts>>
      BY <3>1, ConsumeStep
    <3>. QED
      BY <3>1, <3>2, <3>3 DEF TypeOK
  <2>17. CASE Rejoin
    <3>1. /\ Redeliver /\ rejoins' = rejoins + 1
          /\ UNCHANGED <<requests, memory, rows, writes, flushing, debits, charged, events,
                         fetched, restarts>>
      BY <2>17 DEF Rejoin
    <3>2. handled' \in [Jobs -> Nat] /\ again' \in [Jobs -> Nat]
      BY <3>1, RedeliverStep
    <3>3. rejoins' \in Nat
      BY <3>1 DEF TypeOK
    <3>4. UNCHANGED <<jobs, activity, dirty, idleJobs>>
      BY <3>1 DEF memory
    <3>5. UNCHANGED <<requests, rows, writes, flushing, debits, charged, events, fetched, restarts>>
      BY <3>1
    <3>. QED
      BY <3>2, <3>3, <3>4, <3>5 DEF TypeOK
  <2>9. CASE ScanIdle
    <3>1. idleJobs' \subseteq [job : Jobs, crawled : Nat]
      <4>1. \A j \in Stored : [job |-> j, crawled |-> jobs[j].crawled] \in [job : Jobs, crawled : Nat]
        BY StoredState DEF JobState
      <4>. QED
        BY <2>9, <4>1 DEF ScanIdle
    <3>. QED
      BY <2>9, <3>1 DEF ScanIdle, crawl, TypeOK
  <2>10. ASSUME NEW idle \in idleJobs, Complete(idle) PROVE TypeOK'
    <3>1. idle.job \in Jobs /\ idle.crawled \in Nat
      BY DEF TypeOK
    <3>2. [status |-> "completed", crawled |-> idle.crawled] \in JobState
      BY <3>1 DEF JobState, Finished
    <3>3. /\ jobs' \in [Jobs -> JobState \cup {Absent}]
          /\ idle.job \in Stored => jobs'[idle.job] \in JobState
      BY <2>10, <3>1, <3>2, UpdateStep DEF Complete
    <3>4. writes' \subseteq [kind : {"insert", "update"}, job : Jobs, state : JobState]
      BY <2>10, <3>1, <3>3, SpawnStep DEF Complete
    <3>5. debits' \in [Jobs -> Seq(Nat)]
      <4>1. debits \in [Jobs -> Seq(Nat)] /\ Append(debits[idle.job], idle.crawled) \in Seq(Nat)
        BY <3>1 DEF TypeOK
      <4>. QED
        BY <2>10, <3>1, <4>1 DEF Complete
    <3>. QED
      BY <2>10, <3>3, <3>4, <3>5 DEF Complete, crawl, TypeOK
  <2>11. ASSUME NEW w \in writes, Write(w) PROVE TypeOK'
    <3>1. w.job \in Jobs /\ RowAfter(w) \in JobState \cup {Absent}
      BY DEF RowAfter, TypeOK
    <3>. QED
      BY <2>11, <3>1 DEF Write, memory, crawl, TypeOK
  <2>12. ASSUME NEW j \in Jobs, DebitJob(j) PROVE TypeOK'
    <3>1. debits[j] \in Seq(Nat) /\ debits[j] # <<>> /\ charged[j] \in Seq(Nat)
      BY <2>12 DEF DebitJob, crawl, TypeOK
    <3>2. Head(debits[j]) \in Nat /\ Tail(debits[j]) \in Seq(Nat)
      BY <3>1
    <3>3. Append(charged[j], Head(debits[j])) \in Seq(Nat)
      BY <3>1, <3>2
    <3>. QED
      BY <2>12, <3>2, <3>3 DEF DebitJob, memory, crawl, TypeOK
  <2>13. CASE FlushStart
    <3>1. flushing' \subseteq [job : Jobs, state : JobState]
      <4>1. \A j \in Stored : [job |-> j, state |-> jobs[j]] \in [job : Jobs, state : JobState]
        BY StoredState
      <4>. QED
        BY <2>13, <4>1 DEF FlushStart
    <3>. QED
      BY <2>13, <3>1 DEF FlushStart, crawl, TypeOK
  <2>14. CASE FlushWrite
    <3>1. ASSUME NEW j \in Jobs, NEW s \in flushing, s.job = j
          PROVE  (CHOOSE r \in flushing : r.job = j).state \in JobState
      BY <3>1 DEF TypeOK
    <3>2. rows' \in [Jobs -> JobState \cup {Absent}]
      BY <2>14, <3>1 DEF FlushWrite, crawl, TypeOK
    <3>. QED
      BY <2>14, <3>2 DEF FlushWrite, memory, crawl, TypeOK
  <2>15. CASE Restart
    <3>1. Redeliver
      BY <2>15 DEF Restart
    <3>. QED
      BY <2>15, <3>1, RedeliverStep DEF Restart, TypeOK
  <2>16. CASE UNCHANGED vars
    BY <2>16 DEF vars, memory, crawl, TypeOK
  <2>. QED
    BY <2>1, <2>2, <2>3, <2>4, <2>5, <2>6, <2>7, <2>8, <2>9, <2>10, <2>11, <2>12, <2>13,
       <2>14, <2>15, <2>16, <2>17
    DEF Next, Handler, EventConsumer, Time, IdleDetector, Database
<1>. QED
  BY <1>1, <1>2, PTL DEF Spec


-----------------------------------------------------------------------------
(* Billing                                                                 *)

Bills(j) == Len(charged[j]) + Len(debits[j])

Running(j) == jobs[j] # Absent /\ jobs[j].status = "running"

\* Only the end of a creation or a restart makes a job run, and what the
\* detector found has not been billed since.
BillInv ==
  /\ \A j \in Jobs :
       /\ requests[j] # "done" => Bills(j) = 0
       /\ Bills(j) <= restarts + 1
       /\ Running(j) => requests[j] = "done" /\ Bills(j) <= restarts
       /\ rows[j] # Absent => requests[j] = "done"
  /\ \A idle \in idleJobs :
       requests[idle.job] = "done" /\ Bills(idle.job) <= restarts /\ idle.crawled > 0
  /\ \A a, b \in idleJobs : a.job = b.job => a = b
  /\ \A w \in writes : w.kind = "insert" => requests[w.job] = "done"

LEMMA BillsStep ==
  ASSUME TypeOK
  PROVE  /\ \A j \in Jobs : Bills(j) \in Nat
         /\ UNCHANGED <<charged, debits>> => \A j \in Jobs : Bills(j)' = Bills(j)
<1>1. ASSUME NEW j \in Jobs PROVE Bills(j) \in Nat
  <2>1. charged \in [Jobs -> Seq(Nat)] /\ debits \in [Jobs -> Seq(Nat)]
    BY DEF TypeOK
  <2>. QED
    BY <2>1 DEF Bills
<1>2. UNCHANGED <<charged, debits>> => \A j \in Jobs : Bills(j)' = Bills(j)
  BY DEF Bills
<1>. QED
  BY <1>1, <1>2

\* A completion adds a bill, and making the deduction moves it.
LEMMA BillOfComplete ==
  ASSUME TypeOK, NEW idle \in idleJobs, idle.crawled > 0, Complete(idle)
  PROVE  /\ Bills(idle.job)' = Bills(idle.job) + 1
         /\ \A k \in Jobs \ {idle.job} : Bills(k)' = Bills(k)
<1> DEFINE j == idle.job
<1>1. /\ j \in Jobs /\ idle.crawled \in Nat /\ debits[j] \in Seq(Nat)
      /\ charged \in [Jobs -> Seq(Nat)] /\ debits \in [Jobs -> Seq(Nat)]
  BY DEF TypeOK
<1>2. debits' = [debits EXCEPT ![j] = Append(@, idle.crawled)] /\ charged' = charged
  BY DEF Complete
<1>3. Len(Append(debits[j], idle.crawled)) = Len(debits[j]) + 1
  BY <1>1
<1>4. /\ debits'[j] = Append(debits[j], idle.crawled)
      /\ \A k \in Jobs \ {j} : debits'[k] = debits[k]
      /\ \A k \in Jobs : charged'[k] = charged[k]
  BY <1>1, <1>2
<1>5. \A k \in Jobs \ {j} : Bills(k)' = Bills(k)
  BY <1>4 DEF Bills
<1>6. Len(charged[j]) + (Len(debits[j]) + 1) = Len(charged[j]) + Len(debits[j]) + 1
  BY <1>1
<1>7. Bills(j)' = Bills(j) + 1
  BY <1>1, <1>3, <1>4, <1>6 DEF Bills
<1>. QED
  BY <1>5, <1>7

LEMMA BillOfDebit ==
  ASSUME TypeOK, NEW j \in Jobs, DebitJob(j)
  PROVE  \A k \in Jobs : Bills(k)' = Bills(k)
<1>1. /\ debits[j] \in Seq(Nat) /\ debits[j] # <<>> /\ charged[j] \in Seq(Nat)
      /\ charged \in [Jobs -> Seq(Nat)] /\ debits \in [Jobs -> Seq(Nat)]
  BY DEF DebitJob, TypeOK
<1>2. Head(debits[j]) \in Nat /\ Len(Tail(debits[j])) = Len(debits[j]) - 1
  BY <1>1
<1>3. Len(Append(charged[j], Head(debits[j]))) = Len(charged[j]) + 1
  BY <1>1, <1>2
<1>4. /\ debits'[j] = Tail(debits[j]) /\ charged'[j] = Append(charged[j], Head(debits[j]))
      /\ \A k \in Jobs \ {j} : debits'[k] = debits[k] /\ charged'[k] = charged[k]
  BY DEF DebitJob, TypeOK
<1>5. \A k \in Jobs \ {j} : Bills(k)' = Bills(k)
  BY <1>4 DEF Bills
<1>6. (Len(charged[j]) + 1) + (Len(debits[j]) - 1) = Len(charged[j]) + Len(debits[j])
  BY <1>1
<1>7. Bills(j)' = Bills(j)
  BY <1>2, <1>3, <1>4, <1>6 DEF Bills
<1>. QED
  BY <1>5, <1>7

\* A new state that does not start to run, or belongs to a job whose creation
\* is over and which has not been billed in this run of the server.
LEMMA QuietStep ==
  ASSUME TypeOK, BillInv, UNCHANGED <<charged, debits, restarts, idleJobs>>,
         \A j \in Jobs : requests'[j] # requests[j] =>
            requests[j] # "done" /\ (requests'[j] # "done" => ~Running(j)'),
         \A j \in Jobs : Running(j)' =>
            \/ Running(j)
            \/ requests'[j] = "done" /\ requests[j] # "done",
         \A j \in Jobs : rows'[j] # Absent => rows[j] # Absent \/ requests[j] = "done",
         \A w \in writes' \ writes : w.job \in Jobs /\ (w.kind = "insert" => requests'[w.job] = "done")
  PROVE  BillInv'
<1>1. \A j \in Jobs : Bills(j) \in Nat /\ Bills(j)' = Bills(j)
  BY BillsStep
<1>2. \A j \in Jobs : requests[j] = "done" => requests'[j] = "done"
  OBVIOUS
<1>3. restarts \in Nat /\ restarts' = restarts
  BY DEF TypeOK
<1>4. ASSUME NEW j \in Jobs
      PROVE  /\ requests'[j] # "done" => Bills(j)' = 0
             /\ Bills(j)' <= restarts' + 1
             /\ Running(j)' => requests'[j] = "done" /\ Bills(j)' <= restarts'
             /\ rows'[j] # Absent => requests'[j] = "done"
  BY <1>1, <1>2, <1>3 DEF BillInv
<1>5. \A idle \in idleJobs' :
         requests'[idle.job] = "done" /\ Bills(idle.job)' <= restarts' /\ idle.crawled > 0
  <2>1. \A idle \in idleJobs : idle.job \in Jobs
    BY DEF TypeOK
  <2>. QED
    BY <2>1, <1>1, <1>2, <1>3 DEF BillInv
<1>6. \A w \in writes' : w.kind = "insert" => requests'[w.job] = "done"
  <2>1. \A w \in writes : w.job \in Jobs
    BY DEF TypeOK
  <2>. QED
    BY <2>1, <1>2 DEF BillInv
<1>7. \A a, b \in idleJobs' : a.job = b.job => a = b
  BY DEF BillInv
<1>. QED
  BY <1>4, <1>5, <1>6, <1>7 DEF BillInv

LEMMA BillStep ==
  ASSUME TypeOK, BillInv, [Next]_vars
  PROVE  BillInv'
<1>1. ASSUME NEW j \in Jobs, CheckQuota(j) PROVE BillInv'
  BY <1>1, QuietStep DEF CheckQuota, memory, Running, BillInv, TypeOK
<1>2. ASSUME NEW j \in Jobs, Register(j) PROVE BillInv'
  <2>1. \A k \in Jobs : Running(k)' => Running(k) /\ k # j
    BY <1>2 DEF Register, Running
  <2>. QED
    BY <1>2, <2>1, QuietStep DEF Register, TypeOK
<1>3. ASSUME NEW j \in Jobs, Heartbeat(j) \/ GoIdle(j) PROVE BillInv'
  BY <1>3, QuietStep DEF Heartbeat, GoIdle, Running
<1>4. ASSUME NEW j \in Jobs, Abandon(j) PROVE BillInv'
  BY <1>4, QuietStep DEF Abandon, memory, Running, BillInv, TypeOK
<1>5. ASSUME NEW j \in Jobs, Started(j) PROVE BillInv'
  <2>1. \A k \in Jobs \ {j} : jobs'[k] = jobs[k]
    BY <1>5, UpdateStep, StoredState DEF Started, Active
  <2>2. \A w \in writes' \ writes : w.job = j
    BY <1>5 DEF Started, Spawn
  <2>3. requests[j] # "done" /\ requests'[j] = "done" /\ \A k \in Jobs \ {j} : requests'[k] = requests[k]
    BY <1>5 DEF Started, TypeOK
  <2>4. \A k \in Jobs : Running(k)' => Running(k) \/ k = j
    BY <2>1 DEF Running
  <2>. QED
    BY <1>5, <2>2, <2>3, <2>4, QuietStep DEF Started
<1>6. ASSUME NEW j \in Jobs, PublishFailed(j) PROVE BillInv'
  <2>1. \A k \in Jobs : Running(k)' => Running(k) /\ k # j
    <3>1. /\ j \in Stored => jobs'[j] = [jobs[j] EXCEPT !.status = "failed"]
          /\ j \notin Stored => jobs' = jobs
          /\ \A k \in Jobs \ {j} : jobs'[k] = jobs[k]
      BY <1>6, UpdateStep, StoredState DEF PublishFailed, Finished
    <3>2. ~Running(j)'
      BY <3>1, StoredState DEF Running, Stored, JobState
    <3>. QED
      BY <3>1, <3>2 DEF Running
  <2>. QED
    BY <1>6, <2>1, QuietStep DEF PublishFailed, TypeOK
<1>7. ASSUME NEW j \in Jobs, Cancel(j) PROVE BillInv'
  <2>1. \A k \in Jobs : Running(k)' => Running(k)
    BY <1>7, StoredState DEF Cancel, Running, TypeOK, JobState
  <2>2. \A w \in writes' \ writes : w.job = j /\ w.kind = "update"
    BY <1>7 DEF Cancel, Spawn
  <2>. QED
    BY <1>7, <2>1, <2>2, QuietStep DEF Cancel
<1>8. ASSUME NEW j \in Jobs, PageCrawled(j) \/ PageCrawledAgain(j) PROVE BillInv'
  <2>1. Consume(j) /\ CountPage(j)
    BY <1>8 DEF PageCrawled, PageCrawledAgain, Event
  <2>2. UNCHANGED <<requests, idleJobs, rows, writes, debits, charged, restarts>>
    BY <2>1, ConsumeStep
  <2>3. \A k \in Jobs : Running(k)' => Running(k)
    <3>1. /\ j \in Stored => jobs'[j] = [jobs[j] EXCEPT !.crawled = @ + 1]
          /\ j \notin Stored => jobs' = jobs
          /\ \A k \in Jobs \ {j} : jobs'[k] = jobs[k]
      BY <2>1, CountStep
    <3>2. Running(j)' => Running(j)
      BY <3>1, StoredState DEF Running, JobState, Stored
    <3>. QED
      BY <3>1, <3>2 DEF Running
  <2>. QED
    BY <2>2, <2>3, QuietStep
<1>9. ASSUME NEW j \in Jobs, OtherEvent(j) PROVE BillInv'
  <2>1. Consume(j) /\ jobs' = jobs
    BY <1>9 DEF OtherEvent, Event
  <2>2. UNCHANGED <<requests, idleJobs, rows, writes, debits, charged, restarts>>
    BY <2>1, ConsumeStep
  <2>. QED
    BY <2>1, <2>2, QuietStep DEF Running
<1>18. CASE Rejoin
  BY <1>18, QuietStep DEF Rejoin, memory, Running
<1>10. CASE ScanIdle
  <2>1. \A idle \in idleJobs' : idle.job \in Jobs /\ Running(idle.job) /\ idle.crawled > 0 /\
                                idle = [job |-> idle.job, crawled |-> jobs[idle.job].crawled]
    BY <1>10 DEF ScanIdle, IsIdle, Running, Stored
  <2>2. \A j \in Jobs : Bills(j)' = Bills(j) /\ Running(j)' = Running(j)
    BY <1>10, BillsStep DEF ScanIdle, Running
  <2>3. UNCHANGED <<requests, restarts, rows, writes>>
    BY <1>10 DEF ScanIdle
  <2>. QED
    BY <2>1, <2>2, <2>3 DEF BillInv
<1>11. ASSUME NEW idle \in idleJobs, Complete(idle) PROVE BillInv'
  <2> DEFINE j == idle.job
  <2>1. /\ j \in Jobs /\ idle.crawled \in Nat /\ idle.crawled > 0
        /\ requests[j] = "done" /\ Bills(j) <= restarts
    BY DEF TypeOK, BillInv
  <2>2. UNCHANGED <<requests, restarts, rows, charged>> /\ idleJobs' = idleJobs \ {idle}
    BY <1>11 DEF Complete
  <2>3. Bills(j)' = Bills(j) + 1 /\ \A k \in Jobs \ {j} : Bills(k)' = Bills(k)
    BY <1>11, <2>1, BillOfComplete
  <2>4. \A k \in Jobs : Running(k)' => Running(k) /\ k # j
    BY <1>11, <2>1 DEF Complete, Update, Running, TypeOK, Stored
  <2>5. \A w \in writes' \ writes : w.kind = "update"
    BY <1>11 DEF Complete, Spawn
  <2>6. \A i \in idleJobs' : i \in idleJobs /\ i.job \in Jobs /\ i.job # j
    BY <2>2 DEF BillInv, TypeOK
  <2>7. restarts \in Nat /\ \A k \in Jobs : Bills(k) \in Nat
    BY BillsStep DEF TypeOK
  <2>8. ASSUME NEW k \in Jobs
        PROVE  /\ requests'[k] # "done" => Bills(k)' = 0
               /\ Bills(k)' <= restarts' + 1
               /\ Running(k)' => requests'[k] = "done" /\ Bills(k)' <= restarts'
               /\ rows'[k] # Absent => requests'[k] = "done"
    BY <2>1, <2>2, <2>3, <2>4, <2>7 DEF BillInv
  <2>. QED
    BY <2>2, <2>3, <2>5, <2>6, <2>8 DEF BillInv
<1>12. ASSUME NEW w \in writes, Write(w) PROVE BillInv'
  <2>1. \A k \in Jobs : rows'[k] # Absent => rows[k] # Absent \/ requests[k] = "done"
    BY <1>12 DEF Write, RowAfter, BillInv, TypeOK
  <2>. QED
    BY <1>12, <2>1, QuietStep DEF Write, memory, Running
<1>13. ASSUME NEW j \in Jobs, DebitJob(j) PROVE BillInv'
  <2>4. \A k \in Jobs : Bills(k)' = Bills(k)
    BY <1>13, BillOfDebit
  <2>5. \A i \in idleJobs : i.job \in Jobs
    BY DEF TypeOK
  <2>6. UNCHANGED <<requests, jobs, idleJobs, rows, writes, restarts>>
    BY <1>13 DEF DebitJob, memory
  <2>. QED
    BY <2>4, <2>5, <2>6 DEF BillInv, Running
<1>14. CASE FlushStart
  BY <1>14, QuietStep DEF FlushStart, Running
<1>15. CASE FlushWrite
  BY <1>15, QuietStep DEF FlushWrite, memory, Running
<1>16. CASE Restart
  <2>1. /\ restarts \in Nat /\ restarts' = restarts + 1 /\ idleJobs' = {} /\ writes' = {}
        /\ UNCHANGED <<rows, charged>>
    BY <1>16 DEF Restart, TypeOK
  <2>2. \A k \in Jobs : Bills(k)' <= Bills(k) /\ Bills(k)' \in Nat /\ Bills(k) \in Nat
    BY <1>16 DEF Restart, Bills, TypeOK
  <2>3. \A k \in Jobs : Running(k)' => rows[k] # Absent
    BY <1>16 DEF Restart, Running
  <2>4. \A k \in Jobs : (requests'[k] = "done") = (requests[k] = "done")
    BY <1>16 DEF Restart
  <2>. QED
    BY <2>1, <2>2, <2>3, <2>4 DEF BillInv
<1>17. CASE UNCHANGED vars
  BY <1>17, QuietStep DEF vars, memory, Running
<1>. QED
  BY <1>1, <1>2, <1>3, <1>4, <1>5, <1>6, <1>7, <1>8, <1>9, <1>10, <1>11, <1>12, <1>13,
     <1>14, <1>15, <1>16, <1>17, <1>18
  DEF Next, Handler, EventConsumer, Time, IdleDetector, Database

\* process_event deducts the credits of a job at most once per run of the
\* server, whatever is created, cancelled, crawled, flushed and restarted.
THEOREM BilledOnce == Spec => []BilledOncePerRun
<1>1. Init => BillInv
  BY DEF Init, BillInv, Bills, Running
<1>2. BillInv => BilledOncePerRun
  BY DEF BillInv, BilledOncePerRun, Bills
<1>. QED
  BY <1>1, <1>2, BillStep, TypeCorrect, PTL DEF Spec

-----------------------------------------------------------------------------
(* Counters                                                                *)

\* How often the pages of a job may have been counted.
Due(j) == fetched[j] * (restarts + rejoins) + handled[j]

DeliveryInv == \A j \in Jobs : handled[j] + again[j] <= fetched[j]

Covered(bills, pages) == \A i \in 1..Len(bills) : bills[i] <= pages

PageInv ==
  /\ \A j \in Jobs :
       /\ jobs[j] # Absent => jobs[j].crawled <= Due(j)
       /\ rows[j] # Absent => rows[j].crawled <= Due(j)
       /\ Covered(debits[j], Due(j)) /\ Covered(charged[j], Due(j))
  /\ \A w \in writes \cup flushing : w.state.crawled <= Due(w.job)
  /\ \A idle \in idleJobs : idle.crawled <= Due(idle.job)

LEMMA CoveredAppend ==
  ASSUME NEW bills \in Seq(Nat), NEW pages \in Nat, NEW bill \in Nat,
         Covered(bills, pages), bill <= pages
  PROVE  Covered(Append(bills, bill), pages)
  BY DEF Covered

LEMMA CoveredTail ==
  ASSUME NEW bills \in Seq(Nat), NEW pages \in Nat, Covered(bills, pages), bills # <<>>
  PROVE  /\ Covered(Tail(bills), pages)
         /\ Head(bills) <= pages /\ Head(bills) \in Nat
<1>1. Len(bills) \in Nat \ {0} /\ Len(Tail(bills)) = Len(bills) - 1
  OBVIOUS
<1>2. ASSUME NEW i \in 1..Len(Tail(bills)) PROVE Tail(bills)[i] <= pages
  <2>1. i + 1 \in 1..Len(bills) /\ Tail(bills)[i] = bills[i + 1]
    BY <1>1
  <2>. QED
    BY <2>1 DEF Covered
<1>3. Head(bills) = bills[1] /\ 1 \in 1..Len(bills)
  BY <1>1
<1>. QED
  BY <1>2, <1>3 DEF Covered

LEMMA CoveredMore ==
  ASSUME NEW bills \in Seq(Nat), NEW pages \in Nat, NEW more \in Nat,
         Covered(bills, pages), pages <= more
  PROVE  Covered(bills, more)
  BY DEF Covered

LEMMA DeliveryStep ==
  ASSUME TypeOK, DeliveryInv, [Next]_vars
  PROVE  DeliveryInv'
<1>1. ASSUME UNCHANGED <<fetched, handled, again>> PROVE DeliveryInv'
  BY <1>1 DEF DeliveryInv
<1>2. ASSUME NEW j \in Jobs, PageCrawled(j) PROVE DeliveryInv'
  <2>1. /\ CountPage(j) /\ fetched' = [fetched EXCEPT ![j] = @ + 1] /\ again' = again
    BY <1>2 DEF PageCrawled, Event
  <2>2. handled'[j] = handled[j] + 1 /\ \A k \in Jobs \ {j} : handled'[k] = handled[k]
    BY <2>1, CountStep
  <2>3. \A k \in Jobs : fetched[k] \in Nat /\ handled[k] \in Nat /\ again[k] \in Nat
    BY DEF TypeOK
  <2>4. fetched'[j] = fetched[j] + 1 /\ \A k \in Jobs \ {j} : fetched'[k] = fetched[k]
    BY <2>1 DEF TypeOK
  <2>. QED
    BY <2>1, <2>2, <2>3, <2>4 DEF DeliveryInv
<1>3. ASSUME NEW j \in Jobs, PageCrawledAgain(j) PROVE DeliveryInv'
  <2>1. CountPage(j) /\ again' = [again EXCEPT ![j] = @ - 1] /\ fetched' = fetched
    BY <1>3 DEF PageCrawledAgain
  <2>2. handled'[j] = handled[j] + 1 /\ \A k \in Jobs \ {j} : handled'[k] = handled[k]
    BY <2>1, CountStep
  <2>3. \A k \in Jobs : fetched[k] \in Nat /\ handled[k] \in Nat /\ again[k] \in Nat
    BY DEF TypeOK
  <2>4. again'[j] = again[j] - 1 /\ \A k \in Jobs \ {j} : again'[k] = again[k]
    BY <2>1 DEF TypeOK
  <2>. QED
    BY <2>1, <2>2, <2>3, <2>4 DEF DeliveryInv
<1>4. ASSUME Redeliver, fetched' = fetched PROVE DeliveryInv'
  <2>1. \A j \in Jobs : fetched[j] \in Nat /\ handled[j] \in Nat /\ again[j] \in Nat
    BY DEF TypeOK
  <2>. QED
    BY <1>4, <2>1, RedeliverStep DEF DeliveryInv
<1>5. ASSUME NEW j \in Jobs, OtherEvent(j) PROVE DeliveryInv'
  BY <1>1, <1>5 DEF OtherEvent, Event
<1>6. ASSUME NEW idle \in idleJobs, Complete(idle) PROVE DeliveryInv'
  BY <1>1, <1>6 DEF Complete, crawl
<1>. QED
  BY <1>1, <1>2, <1>3, <1>4, <1>5, <1>6
  DEF Next, Handler, EventConsumer, Time, IdleDetector, Database, CheckQuota, Register,
      Heartbeat, Abandon, Started, PublishFailed, Cancel, Rejoin, GoIdle, ScanIdle, Write,
      DebitJob, FlushStart, FlushWrite, Restart, vars, crawl

\* Joining the group again allows for all that was fetched to be counted anew.
LEMMA OnceMore ==
  ASSUME NEW pages \in Nat, NEW joins \in Nat, NEW now \in Nat, now <= pages
  PROVE  /\ pages * joins \in Nat
         /\ pages * joins + now <= pages * (joins + 1) + 0
  OBVIOUS

LEMMA AddNat ==
  ASSUME NEW a \in Nat, NEW b \in Nat
  PROVE  a + b \in Nat
  OBVIOUS

LEMMA MorePages ==
  ASSUME NEW pages \in Nat, NEW joins \in Nat
  PROVE  /\ pages * joins \in Nat /\ (pages + 1) * joins \in Nat
         /\ pages * joins <= (pages + 1) * joins
  OBVIOUS

\* What is due never shrinks, and grows with a page that is counted.
LEMMA DueStep ==
  ASSUME TypeOK, TypeOK', DeliveryInv, [Next]_vars, NEW j \in Jobs
  PROVE  /\ Due(j) \in Nat /\ Due(j)' \in Nat /\ Due(j) <= Due(j)'
         /\ PageCrawled(j) \/ PageCrawledAgain(j) => Due(j) + 1 <= Due(j)'
<1>1. /\ fetched[j] \in Nat /\ handled[j] \in Nat /\ again[j] \in Nat
      /\ fetched'[j] \in Nat /\ handled'[j] \in Nat
      /\ restarts + rejoins \in Nat /\ restarts' + rejoins' \in Nat
      /\ handled[j] <= fetched[j]
  <2>1. /\ fetched[j] \in Nat /\ handled[j] \in Nat /\ again[j] \in Nat
        /\ restarts \in Nat /\ rejoins \in Nat
    BY DEF TypeOK
  <2>2. /\ fetched'[j] \in Nat /\ handled'[j] \in Nat
        /\ restarts' \in Nat /\ rejoins' \in Nat
    BY DEF TypeOK
  <2>3. handled[j] + again[j] <= fetched[j]
    BY DEF DeliveryInv
  <2>4. restarts + rejoins \in Nat
    BY <2>1
  <2>6. restarts' + rejoins' \in Nat
    BY <2>2, AddNat
  <2>5. handled[j] <= fetched[j]
    BY <2>1, <2>3
  <2>. QED
    BY <2>1, <2>2, <2>4, <2>5, <2>6
<1>2. Due(j) \in Nat /\ Due(j)' \in Nat
  BY <1>1, MorePages DEF Due
<1>3. ASSUME UNCHANGED <<fetched, handled, rejoins, restarts>> PROVE Due(j)' = Due(j)
  BY <1>3 DEF Due
<1>4. ASSUME NEW k \in Jobs, PageCrawled(k)
      PROVE  Due(j) <= Due(j)' /\ (k = j => Due(j) + 1 <= Due(j)')
  <2>1. /\ CountPage(k) /\ fetched' = [fetched EXCEPT ![k] = @ + 1]
        /\ UNCHANGED <<rejoins, restarts>>
    BY <1>4, ConsumeStep DEF PageCrawled, Event
  <2>2. CASE k = j
    <3>1. fetched'[j] = fetched[j] + 1 /\ handled'[j] = handled[j] + 1
      BY <2>1, <2>2, CountStep DEF TypeOK
    <3>2. fetched[j] * (restarts + rejoins) <= fetched'[j] * (restarts + rejoins)
      BY <1>1, <3>1, MorePages
    <3>3. /\ fetched[j] * (restarts + rejoins) \in Nat
          /\ fetched'[j] * (restarts + rejoins) \in Nat
      BY <1>1, MorePages
    <3>. QED
      BY <1>1, <2>1, <3>1, <3>2, <3>3 DEF Due
  <2>3. CASE k # j
    <3>1. fetched'[j] = fetched[j] /\ handled'[j] = handled[j]
      BY <2>1, <2>3, CountStep DEF TypeOK
    <3>. QED
      BY <1>2, <2>1, <2>3, <3>1 DEF Due
  <2>. QED
    BY <2>2, <2>3
<1>5. ASSUME NEW k \in Jobs, PageCrawledAgain(k)
      PROVE  Due(j) <= Due(j)' /\ (k = j => Due(j) + 1 <= Due(j)')
  <2>1. CountPage(k) /\ UNCHANGED <<fetched, rejoins, restarts>>
    BY <1>5, ConsumeStep DEF PageCrawledAgain
  <2>2. handled'[j] = IF k = j THEN handled[j] + 1 ELSE handled[j]
    BY <2>1, CountStep
  <2>3. fetched[j] * (restarts + rejoins) \in Nat
    BY <1>1, MorePages
  <2>. QED
    BY <1>1, <2>1, <2>2, <2>3 DEF Due
<1>6. ASSUME Redeliver, fetched' = fetched, restarts' + rejoins' = restarts + rejoins + 1
      PROVE  Due(j) <= Due(j)'
  <2>1. handled'[j] = 0
    BY <1>6, RedeliverStep
  <2>. QED
    BY <1>1, <1>6, <2>1, OnceMore DEF Due
<1>7. ASSUME Restart PROVE Due(j) <= Due(j)'
  <2>1. Redeliver /\ fetched' = fetched /\ restarts' + rejoins' = restarts + rejoins + 1
    BY <1>7 DEF Restart, TypeOK
  <2>. QED
    BY <1>6, <2>1
<1>8. ASSUME Rejoin PROVE Due(j) <= Due(j)'
  <2>1. Redeliver /\ fetched' = fetched /\ restarts' + rejoins' = restarts + rejoins + 1
    BY <1>8 DEF Rejoin, TypeOK
  <2>. QED
    BY <1>6, <2>1
<1>9. ASSUME NEW k \in Jobs, OtherEvent(k) PROVE UNCHANGED <<fetched, handled, rejoins, restarts>>
  BY <1>9, ConsumeStep DEF OtherEvent, Event
<1>10. ASSUME NEW idle \in idleJobs, Complete(idle)
       PROVE  UNCHANGED <<fetched, handled, rejoins, restarts>>
  BY <1>10 DEF Complete, crawl
<1>11. Due(j) <= Due(j)'
  <2>1. \/ UNCHANGED <<fetched, handled, rejoins, restarts>>
        \/ \E k \in Jobs : PageCrawled(k) \/ PageCrawledAgain(k)
        \/ Restart \/ Rejoin
    BY <1>9, <1>10
    DEF Next, Handler, EventConsumer, Time, IdleDetector, Database, CheckQuota, Register,
        Heartbeat, Abandon, Started, PublishFailed, Cancel, GoIdle, ScanIdle, Write,
        DebitJob, FlushStart, FlushWrite, vars, crawl
  <2>. QED
    BY <1>2, <1>3, <1>4, <1>5, <1>6, <1>7, <1>8, <2>1
<1>. QED
  BY <1>2, <1>4, <1>5, <1>11

\* The counters that a step changes are covered, the others stay covered.
LEMMA KeepPages ==
  ASSUME TypeOK, TypeOK', PageInv,
         \A j \in Jobs : Due(j) \in Nat /\ Due(j)' \in Nat /\ Due(j) <= Due(j)',
         \A j \in Jobs : jobs'[j] # Absent =>
            jobs'[j] = jobs[j] \/ jobs'[j].crawled <= Due(j) \/ jobs'[j].crawled <= Due(j)',
         \A j \in Jobs : rows'[j] # Absent => rows'[j] = rows[j] \/ rows'[j].crawled <= Due(j),
         \A j \in Jobs : debits'[j] = debits[j] \/ Covered(debits'[j], Due(j)),
         \A j \in Jobs : charged'[j] = charged[j] \/ Covered(charged'[j], Due(j)),
         \A w \in writes' \cup flushing' :
            w \in writes \cup flushing \/ w.state.crawled <= Due(w.job),
         \A idle \in idleJobs' : idle \in idleJobs \/ idle.crawled <= Due(idle.job)
  PROVE  PageInv'
<1>1. ASSUME NEW j \in Jobs
      PROVE  Covered(debits'[j], Due(j)') /\ Covered(charged'[j], Due(j)')
  <2>1. Covered(debits'[j], Due(j)) /\ Covered(charged'[j], Due(j))
    BY DEF PageInv
  <2>2. debits'[j] \in Seq(Nat) /\ charged'[j] \in Seq(Nat)
    BY DEF TypeOK
  <2>3. Due(j) \in Nat /\ Due(j)' \in Nat /\ Due(j) <= Due(j)'
    OBVIOUS
  <2>. HIDE DEF Due
  <2>. QED
    BY <2>1, <2>2, <2>3, CoveredMore
<1>2. ASSUME NEW j \in Jobs
      PROVE  /\ jobs'[j] # Absent => jobs'[j].crawled <= Due(j)'
             /\ rows'[j] # Absent => rows'[j].crawled <= Due(j)'
  <2>1. /\ jobs'[j] # Absent => jobs'[j].crawled \in Nat
        /\ rows'[j] # Absent => rows'[j].crawled \in Nat
    BY DEF TypeOK, JobState
  <2>. QED
    BY <2>1 DEF PageInv
<1>3. \A w \in writes' \cup flushing' : w.state.crawled <= Due(w.job)'
  <2>1. \A w \in writes' \cup flushing' : w.job \in Jobs /\ w.state.crawled \in Nat
    BY DEF TypeOK, JobState
  <2>. QED
    BY <2>1 DEF PageInv
<1>4. \A idle \in idleJobs' : idle.crawled <= Due(idle.job)'
  <2>1. \A idle \in idleJobs' : idle.job \in Jobs /\ idle.crawled \in Nat
    BY DEF TypeOK
  <2>. QED
    BY <2>1 DEF PageInv
<1>. QED
  BY <1>1, <1>2, <1>3, <1>4 DEF PageInv

LEMMA PageStep ==
  ASSUME TypeOK, TypeOK', DeliveryInv, PageInv, [Next]_vars
  PROVE  PageInv'
<1>0. \A j \in Jobs : Due(j) \in Nat /\ Due(j)' \in Nat /\ Due(j) <= Due(j)'
  BY DueStep
<1>1. ASSUME NEW j \in Jobs, CheckQuota(j) \/ Heartbeat(j) \/ GoIdle(j) \/ Abandon(j)
      PROVE  PageInv'
  BY <1>0, <1>1, KeepPages DEF CheckQuota, Heartbeat, GoIdle, Abandon, memory
<1>2. ASSUME NEW j \in Jobs, Register(j) PROVE PageInv'
  <2>1. \A k \in Jobs : jobs'[k] # Absent => jobs'[k] = jobs[k] \/ jobs'[k].crawled <= Due(k)
    BY <1>0, <1>2 DEF Register
  <2>. QED
    BY <1>0, <1>2, <2>1, KeepPages DEF Register
<1>3. ASSUME NEW j \in Jobs, NEW kind, NEW s,
             Update(j, [jobs[j] EXCEPT !.status = s]), Spawn(kind, j) \/ writes' = writes,
             s \in Active \cup Finished
      PROVE  /\ \A k \in Jobs : jobs'[k] # Absent =>
                  jobs'[k] = jobs[k] \/ jobs'[k].crawled <= Due(k)
             /\ \A w \in writes' : w \in writes \/ w.state.crawled <= Due(w.job)
  <2>1. /\ j \in Stored => jobs'[j] = [jobs[j] EXCEPT !.status = s]
        /\ j \notin Stored => jobs' = jobs
        /\ \A k \in Jobs \ {j} : jobs'[k] = jobs[k]
    BY <1>3, UpdateStep, StoredState
  <2>2. j \in Stored => jobs'[j].crawled <= Due(j)
    BY <2>1, StoredState DEF PageInv, Stored, JobState
  <2>3. \A w \in writes' \ writes : j \in Stored /\ w.job = j /\ w.state = jobs'[j]
    BY <1>3 DEF Spawn
  <2>. QED
    BY <2>1, <2>2, <2>3
<1>4. ASSUME NEW j \in Jobs, Started(j) PROVE PageInv'
  <2>1. Update(j, [jobs[j] EXCEPT !.status = "running"]) /\ Spawn("insert", j)
    BY <1>4 DEF Started
  <2>. QED
    BY <1>0, <1>3, <1>4, <2>1, KeepPages DEF Started, Active
<1>5. ASSUME NEW j \in Jobs, PublishFailed(j) PROVE PageInv'
  <2>1. Update(j, [jobs[j] EXCEPT !.status = "failed"]) /\ writes' = writes
    BY <1>5 DEF PublishFailed
  <2>. QED
    BY <1>0, <1>3, <1>5, <2>1, KeepPages DEF PublishFailed, Finished
<1>6. ASSUME NEW j \in Jobs, Cancel(j) PROVE PageInv'
  <2>1. Update(j, [jobs[j] EXCEPT !.status = "cancelled"]) /\ Spawn("update", j)
    BY <1>6 DEF Cancel, Update
  <2>. QED
    BY <1>0, <1>3, <1>6, <2>1, KeepPages DEF Cancel, Finished
<1>7. ASSUME NEW j \in Jobs, PageCrawled(j) \/ PageCrawledAgain(j) PROVE PageInv'
  <2>1. Consume(j) /\ CountPage(j) /\ Due(j) + 1 <= Due(j)'
    BY <1>7, DueStep DEF PageCrawled, PageCrawledAgain, Event
  <2>2. UNCHANGED <<idleJobs, rows, writes, flushing, debits, charged>>
    BY <2>1, ConsumeStep
  <2>3. j \in Stored => jobs'[j].crawled <= Due(j)'
    <3>. SUFFICES ASSUME j \in Stored PROVE jobs'[j].crawled <= Due(j)'
      OBVIOUS
    <3>1. jobs[j].crawled \in Nat /\ jobs[j].crawled <= Due(j)
      BY StoredState DEF PageInv, Stored, JobState
    <3>2. jobs'[j].crawled = jobs[j].crawled + 1
      BY <2>1, CountStep, StoredState DEF JobState
    <3>. QED
      BY <1>0, <2>1, <3>1, <3>2
  <2>4. \A k \in Jobs : jobs'[k] # Absent => jobs'[k] = jobs[k] \/ jobs'[k].crawled <= Due(k)'
    BY <2>1, <2>3, CountStep
  <2>. QED
    BY <1>0, <2>2, <2>4, KeepPages
<1>8. ASSUME NEW j \in Jobs, OtherEvent(j) PROVE PageInv'
  <2>1. Consume(j) /\ jobs' = jobs
    BY <1>8 DEF OtherEvent, Event
  <2>2. UNCHANGED <<idleJobs, rows, writes, flushing, debits, charged>>
    BY <2>1, ConsumeStep
  <2>. QED
    BY <1>0, <2>1, <2>2, KeepPages
<1>17. CASE Rejoin
  BY <1>0, <1>17, KeepPages DEF Rejoin, memory
<1>9. CASE ScanIdle
  <2>1. \A idle \in idleJobs' : idle.crawled <= Due(idle.job)
    <3>1. \A k \in Stored : IsIdle(k) => jobs[k].crawled <= Due(k)
      BY StoredState DEF IsIdle, PageInv, Stored, JobState
    <3>. QED
      BY <1>9, <3>1 DEF ScanIdle
  <2>. QED
    BY <1>0, <1>9, <2>1, KeepPages DEF ScanIdle
<1>10. ASSUME NEW idle \in idleJobs, Complete(idle) PROVE PageInv'
  <2> DEFINE j == idle.job
             state == [status |-> "completed", crawled |-> idle.crawled]
  <2>1. /\ j \in Jobs /\ idle.crawled \in Nat /\ idle.crawled <= Due(j)
        /\ debits[j] \in Seq(Nat) /\ Due(j) \in Nat
        /\ Covered(debits[j], Due(j))
    BY <1>0 DEF TypeOK, PageInv
  <2>2. state \in JobState /\ state.crawled = idle.crawled
    BY <2>1 DEF JobState, Finished
  <2>3. Update(j, state) /\ Spawn("update", j)
    BY <1>10 DEF Complete
  <2>4. \A k \in Jobs : jobs'[k] # Absent => jobs'[k] = jobs[k] \/ jobs'[k].crawled <= Due(k)
    <3>1. /\ j \in Stored => jobs'[j] = state
          /\ j \notin Stored => jobs' = jobs
          /\ \A k \in Jobs \ {j} : jobs'[k] = jobs[k]
      <4>. HIDE DEF state
      <4>. QED
        BY <2>1, <2>2, <2>3, UpdateStep
    <3>. QED
      BY <2>1, <2>2, <3>1
  <2>5. \A w \in writes' \ writes : w.job = j /\ w.state.crawled <= Due(j)
    <3>1. j \in Stored => jobs'[j] = state
      <4>. HIDE DEF state
      <4>. QED
        BY <2>1, <2>2, <2>3, UpdateStep
    <3>2. \A w \in writes' \ writes : j \in Stored /\ w.job = j /\ w.state = jobs'[j]
      BY <2>3 DEF Spawn
    <3>. QED
      BY <2>1, <2>2, <3>1, <3>2
  <2>6. Covered(Append(debits[j], idle.crawled), Due(j))
    BY <2>1, CoveredAppend
  <2>7. \A k \in Jobs : debits'[k] = debits[k] \/ Covered(debits'[k], Due(k))
    BY <1>10, <2>1, <2>6 DEF Complete, TypeOK
  <2>8. UNCHANGED <<rows, flushing, charged>> /\ idleJobs' = idleJobs \ {idle}
    BY <1>10 DEF Complete
  <2>. HIDE DEF j, state
  <2>. QED
    BY <1>0, <2>4, <2>5, <2>7, <2>8, KeepPages
<1>11. ASSUME NEW w \in writes, Write(w) PROVE PageInv'
  <2>1. \A k \in Jobs : rows'[k] # Absent => rows'[k] = rows[k] \/ rows'[k].crawled <= Due(k)
    BY <1>11 DEF Write, RowAfter, PageInv, TypeOK
  <2>. QED
    BY <1>0, <1>11, <2>1, KeepPages DEF Write, memory
<1>12. ASSUME NEW j \in Jobs, DebitJob(j) PROVE PageInv'
  <2>1. /\ debits[j] \in Seq(Nat) /\ debits[j] # <<>> /\ charged[j] \in Seq(Nat)
        /\ Due(j) \in Nat /\ Covered(debits[j], Due(j)) /\ Covered(charged[j], Due(j))
    BY <1>0, <1>12 DEF DebitJob, TypeOK, PageInv
  <2>2. /\ Covered(Tail(debits[j]), Due(j))
        /\ Head(debits[j]) <= Due(j) /\ Head(debits[j]) \in Nat
    BY <2>1, CoveredTail
  <2>3. Covered(Append(charged[j], Head(debits[j])), Due(j))
    BY <2>1, <2>2, CoveredAppend
  <2>4. \A k \in Jobs : /\ debits'[k] = debits[k] \/ Covered(debits'[k], Due(k))
                        /\ charged'[k] = charged[k] \/ Covered(charged'[k], Due(k))
    BY <1>12, <2>2, <2>3 DEF DebitJob, TypeOK
  <2>. QED
    BY <1>0, <1>12, <2>4, KeepPages DEF DebitJob, memory
<1>13. CASE FlushStart
  <2>1. \A s \in flushing' : s.state.crawled <= Due(s.job)
    BY <1>13 DEF FlushStart, PageInv, Stored
  <2>. QED
    BY <1>0, <1>13, <2>1, KeepPages DEF FlushStart
<1>14. CASE FlushWrite
  <2>1. \A k \in Jobs : \A s \in flushing : s.job = k =>
           (CHOOSE r \in flushing : r.job = k).state.crawled <= Due(k)
    BY DEF PageInv
  <2>2. \A k \in Jobs : rows'[k] # Absent => rows'[k] = rows[k] \/ rows'[k].crawled <= Due(k)
    BY <1>14, <2>1 DEF FlushWrite
  <2>. QED
    BY <1>0, <1>14, <2>2, KeepPages DEF FlushWrite, memory
<1>15. CASE Restart
  <2>1. \A k \in Jobs : /\ jobs'[k] # Absent => jobs'[k].crawled <= Due(k)
                        /\ Covered(debits'[k], Due(k))
    <3>1. \A k \in Jobs : jobs'[k] # Absent => jobs'[k] = rows[k]
      BY <1>15 DEF Restart
    <3>2. \A k \in Jobs : debits'[k] = <<>>
      BY <1>15 DEF Restart
    <3>. QED
      BY <3>1, <3>2 DEF PageInv, Covered
  <2>. QED
    BY <1>0, <1>15, <2>1, KeepPages DEF Restart
<1>16. CASE UNCHANGED vars
  BY <1>0, <1>16, KeepPages DEF vars, memory
<1>. QED
  BY <1>1, <1>2, <1>4, <1>5, <1>6, <1>7, <1>8, <1>9, <1>10, <1>11, <1>12, <1>13,
     <1>14, <1>15, <1>16, <1>17
  DEF Next, Handler, EventConsumer, Time, IdleDetector, Database

\* No counter in memory, in Postgres or on its way there, and no bill, is ahead
\* of the crawl by more than the queue delivered again: a page counts at most
\* once for each time the consumer joined its group.
THEOREM PagesCovered == Spec => []NoPageInvented
<1>1. Init => PageInv /\ DeliveryInv
  BY DEF Init, PageInv, Covered, DeliveryInv
<1>2. TypeOK /\ DeliveryInv /\ PageInv => NoPageInvented
  <2>. SUFFICES ASSUME TypeOK, DeliveryInv, PageInv, NEW j \in Jobs
       PROVE  LET most == fetched[j] * (restarts + rejoins + 1)
              IN  /\ \A s \in {jobs[j], rows[j]} : s # Absent => s.crawled <= most
                  /\ \A s \in writes \cup flushing : s.job = j => s.state.crawled <= most
                  /\ \A bill \in {debits[j], charged[j]} : \A i \in 1..Len(bill) : bill[i] <= most
    BY DEF NoPageInvented
  <2> DEFINE most == fetched[j] * (restarts + rejoins + 1)
  <2>1. /\ fetched[j] \in Nat /\ handled[j] \in Nat /\ again[j] \in Nat
        /\ restarts + rejoins \in Nat /\ handled[j] <= fetched[j]
    BY DEF TypeOK, DeliveryInv
  <2>2. fetched[j] * (restarts + rejoins + 1) \in Nat
    BY <2>1, MorePages
  <2>3. Due(j) <= most /\ Due(j) \in Nat /\ most \in Nat
    BY <2>1, <2>2, OnceMore, MorePages DEF Due
  <2>4. \A s \in {jobs[j], rows[j]} : s # Absent => s.crawled \in Nat /\ s.crawled <= Due(j)
    BY DEF PageInv, TypeOK, JobState
  <2>5. \A s \in writes \cup flushing : s.job = j =>
           s.state.crawled \in Nat /\ s.state.crawled <= Due(j)
    BY DEF PageInv, TypeOK, JobState
  <2>6. Covered(debits[j], most) /\ Covered(charged[j], most)
    <3>1. /\ debits[j] \in Seq(Nat) /\ charged[j] \in Seq(Nat)
          /\ Covered(debits[j], Due(j)) /\ Covered(charged[j], Due(j))
      BY DEF PageInv, TypeOK
    <3>. HIDE DEF most
    <3>. QED
      BY <2>3, <3>1, CoveredMore
  <2>. HIDE DEF most
  <2>7. /\ \A s \in {jobs[j], rows[j]} : s # Absent => s.crawled <= most
        /\ \A s \in writes \cup flushing : s.job = j => s.state.crawled <= most
    BY <2>3, <2>4, <2>5
  <2>8. \A bill \in {debits[j], charged[j]} : \A i \in 1..Len(bill) : bill[i] <= most
    BY <2>6 DEF Covered
  <2>. QED
    BY <2>7, <2>8 DEF most
<1>. QED
  BY <1>1, <1>2, PageStep, DeliveryStep, TypeCorrect, PTL DEF Spec

-----------------------------------------------------------------------------
(* Completion                                                              *)

Completed(state) == state # Absent /\ state.status = "completed"

\* Without a restart, a job that is completed anywhere has a bill.
DoneInv ==
  restarts = 0 =>
    /\ \A j \in Jobs : Completed(jobs[j]) \/ Completed(rows[j]) => Bills(j) > 0
    /\ \A w \in writes \cup flushing : w.state.status = "completed" => Bills(w.job) > 0

\* The states that a step changes are not completed or billed, the others keep
\* their bills.
LEMMA KeepDone ==
  ASSUME TypeOK, DoneInv, restarts' = restarts,
         \A j \in Jobs : Bills(j)' \in Nat /\ Bills(j) <= Bills(j)',
         \A j \in Jobs : Completed(jobs'[j]) => Completed(jobs[j]) \/ Bills(j)' > 0,
         \A j \in Jobs : Completed(rows'[j]) =>
            \/ Completed(rows[j])
            \/ \E w \in writes \cup flushing : w.job = j /\ w.state.status = "completed",
         \A w \in writes' \cup flushing' : w.state.status = "completed" =>
            \/ w \in writes \cup flushing
            \/ w.job \in Jobs /\ (Completed(jobs[w.job]) \/ Bills(w.job)' > 0)
  PROVE  DoneInv'
<1>. SUFFICES ASSUME restarts = 0
     PROVE  /\ \A j \in Jobs : Completed(jobs'[j]) \/ Completed(rows'[j]) => Bills(j)' > 0
            /\ \A w \in writes' \cup flushing' :
                 w.state.status = "completed" => Bills(w.job)' > 0
  BY DEF DoneInv, Completed
<1>1. \A j \in Jobs : Bills(j) \in Nat
  BY BillsStep
<1>2. \A w \in writes \cup flushing : w.job \in Jobs
  BY DEF TypeOK
<1>3. \A j \in Jobs : Completed(jobs[j]) \/ Completed(rows[j]) => Bills(j)' > 0
  BY <1>1 DEF DoneInv
<1>4. \A w \in writes \cup flushing : w.state.status = "completed" => Bills(w.job)' > 0
  BY <1>1, <1>2 DEF DoneInv
<1>. QED
  BY <1>2, <1>3, <1>4

LEMMA DoneStep ==
  ASSUME TypeOK, BillInv, DoneInv, [Next]_vars
  PROVE  DoneInv'
<1>0. /\ \A j \in Jobs : Bills(j) \in Nat /\ Bills(j) <= Bills(j)
      /\ UNCHANGED <<charged, debits>> => \A j \in Jobs : Bills(j)' = Bills(j)
  BY BillsStep
<1>1. ASSUME NEW j \in Jobs, CheckQuota(j) \/ Heartbeat(j) \/ GoIdle(j) \/ Abandon(j)
      PROVE  DoneInv'
  BY <1>0, <1>1, KeepDone DEF CheckQuota, Heartbeat, GoIdle, Abandon, memory
<1>2. ASSUME NEW j \in Jobs, Register(j) PROVE DoneInv'
  <2>1. \A k \in Jobs : Completed(jobs'[k]) => Completed(jobs[k])
    BY <1>2 DEF Register, Completed
  <2>. QED
    BY <1>0, <1>2, <2>1, KeepDone DEF Register
<1>3. ASSUME NEW j \in Jobs, NEW kind, NEW s \in Active \cup Finished, s # "completed",
             Update(j, [jobs[j] EXCEPT !.status = s]), Spawn(kind, j) \/ writes' = writes
      PROVE  /\ \A k \in Jobs : Completed(jobs'[k]) => Completed(jobs[k])
             /\ \A w \in writes' : w.state.status = "completed" => w \in writes
  <2>1. /\ j \in Stored => jobs'[j] = [jobs[j] EXCEPT !.status = s]
        /\ j \notin Stored => jobs' = jobs
        /\ \A k \in Jobs \ {j} : jobs'[k] = jobs[k]
    BY <1>3, UpdateStep, StoredState
  <2>2. j \in Stored => jobs'[j].status = s
    BY <2>1, StoredState DEF JobState
  <2>3. \A w \in writes' \ writes : j \in Stored /\ w.state = jobs'[j]
    BY <1>3 DEF Spawn
  <2>. QED
    BY <1>3, <2>1, <2>2, <2>3 DEF Completed
<1>4. ASSUME NEW j \in Jobs, Started(j) PROVE DoneInv'
  <2>1. Update(j, [jobs[j] EXCEPT !.status = "running"]) /\ Spawn("insert", j)
    BY <1>4 DEF Started
  <2>. QED
    BY <1>0, <1>3, <1>4, <2>1, KeepDone DEF Started, Active
<1>5. ASSUME NEW j \in Jobs, PublishFailed(j) PROVE DoneInv'
  <2>1. Update(j, [jobs[j] EXCEPT !.status = "failed"]) /\ writes' = writes
    BY <1>5 DEF PublishFailed
  <2>. QED
    BY <1>0, <1>3, <1>5, <2>1, KeepDone DEF PublishFailed, Finished
<1>6. ASSUME NEW j \in Jobs, Cancel(j) PROVE DoneInv'
  <2>1. Update(j, [jobs[j] EXCEPT !.status = "cancelled"]) /\ Spawn("update", j)
    BY <1>6 DEF Cancel, Update
  <2>. QED
    BY <1>0, <1>3, <1>6, <2>1, KeepDone DEF Cancel, Finished
<1>7. ASSUME NEW j \in Jobs, PageCrawled(j) \/ PageCrawledAgain(j) PROVE DoneInv'
  <2>1. Consume(j) /\ CountPage(j)
    BY <1>7 DEF PageCrawled, PageCrawledAgain, Event
  <2>2. UNCHANGED <<rows, writes, flushing, debits, charged, restarts>>
    BY <2>1, ConsumeStep
  <2>3. \A k \in Jobs : Completed(jobs'[k]) => Completed(jobs[k])
    <3>1. /\ j \in Stored => jobs'[j] = [jobs[j] EXCEPT !.crawled = @ + 1]
          /\ j \notin Stored => jobs' = jobs
          /\ \A k \in Jobs \ {j} : jobs'[k] = jobs[k]
      BY <2>1, CountStep
    <3>2. Completed(jobs'[j]) => Completed(jobs[j])
      BY <3>1, StoredState DEF Completed, JobState, Stored
    <3>. QED
      BY <3>1, <3>2
  <2>. QED
    BY <1>0, <2>2, <2>3, KeepDone
<1>8. ASSUME NEW j \in Jobs, OtherEvent(j) PROVE DoneInv'
  <2>1. Consume(j) /\ jobs' = jobs
    BY <1>8 DEF OtherEvent, Event
  <2>2. UNCHANGED <<rows, writes, flushing, debits, charged, restarts>>
    BY <2>1, ConsumeStep
  <2>. QED
    BY <1>0, <2>1, <2>2, KeepDone
<1>17. CASE Rejoin
  BY <1>0, <1>17, KeepDone DEF Rejoin, memory
<1>9. CASE ScanIdle
  BY <1>0, <1>9, KeepDone DEF ScanIdle
<1>10. ASSUME NEW idle \in idleJobs, Complete(idle) PROVE DoneInv'
  <2> DEFINE j == idle.job
  <2>1. j \in Jobs /\ idle.crawled \in Nat /\ debits \in [Jobs -> Seq(Nat)]
        /\ charged \in [Jobs -> Seq(Nat)]
    BY DEF TypeOK
  <2>2. Bills(j)' = Bills(j) + 1 /\ \A k \in Jobs \ {j} : Bills(k)' = Bills(k)
    BY <1>10, BillOfComplete DEF BillInv
  <2>3. \A k \in Jobs \ {j} : jobs'[k] = jobs[k]
    BY <1>10 DEF Complete, Update
  <2>4. \A w \in writes' \ writes : w.job = j
    BY <1>10 DEF Complete, Spawn
  <2>5. UNCHANGED <<rows, flushing, restarts>>
    BY <1>10 DEF Complete
  <2>6. /\ \A k \in Jobs : Bills(k)' \in Nat /\ Bills(k) <= Bills(k)'
        /\ Bills(j)' > 0
    <3>1. ASSUME NEW k \in Jobs \ {j} PROVE Bills(k)' \in Nat /\ Bills(k) <= Bills(k)'
      BY <1>0, <2>2
    <3>2. Bills(j) \in Nat
      BY <1>0, <2>1
    <3>3. Bills(j)' \in Nat /\ Bills(j) <= Bills(j)' /\ Bills(j)' > 0
      BY <2>2, <3>2
    <3>. QED
      BY <3>1, <3>3
  <2>7. \A k \in Jobs : Completed(jobs'[k]) => Completed(jobs[k]) \/ Bills(k)' > 0
    BY <2>3, <2>6
  <2>8. \A w \in writes' \cup flushing' : w \in writes \cup flushing \/ w.job = j
    BY <2>4, <2>5
  <2>9. \A w \in writes' \cup flushing' : w.state.status = "completed" =>
           \/ w \in writes \cup flushing
           \/ w.job \in Jobs /\ (Completed(jobs[w.job]) \/ Bills(w.job)' > 0)
    BY <2>1, <2>6, <2>8
  <2>. QED
    BY <2>5, <2>6, <2>7, <2>9, KeepDone
<1>11. ASSUME NEW w \in writes, Write(w) PROVE DoneInv'
  <2>1. \A k \in Jobs : Completed(rows'[k]) =>
           Completed(rows[k]) \/ (w.job = k /\ w.state.status = "completed")
    BY <1>11 DEF Write, RowAfter, Completed, TypeOK
  <2>. QED
    BY <1>0, <1>11, <2>1, KeepDone DEF Write, memory
<1>12. ASSUME NEW j \in Jobs, DebitJob(j) PROVE DoneInv'
  <2>1. \A k \in Jobs : Bills(k)' = Bills(k)
    BY <1>12, BillOfDebit
  <2>. QED
    BY <1>0, <1>12, <2>1, KeepDone DEF DebitJob, memory
<1>13. CASE FlushStart
  <2>1. \A s \in flushing' : s.job \in Jobs /\ (s.state.status = "completed" => Completed(jobs[s.job]))
    BY <1>13 DEF FlushStart, Completed, Stored
  <2>. QED
    BY <1>0, <1>13, <2>1, KeepDone DEF FlushStart
<1>14. CASE FlushWrite
  <2>1. \A k \in Jobs : \A s \in flushing : s.job = k =>
           /\ (CHOOSE r \in flushing : r.job = k) \in flushing
           /\ (CHOOSE r \in flushing : r.job = k).job = k
    OBVIOUS
  <2>2. \A k \in Jobs : Completed(rows'[k]) =>
           \/ Completed(rows[k])
           \/ \E s \in flushing : s.job = k /\ s.state.status = "completed"
    BY <1>14, <2>1 DEF FlushWrite, Completed
  <2>. QED
    BY <1>0, <1>14, <2>2, KeepDone DEF FlushWrite, memory
<1>15. CASE Restart
  BY <1>15 DEF Restart, DoneInv, TypeOK
<1>16. CASE UNCHANGED vars
  BY <1>0, <1>16, KeepDone DEF vars, memory
<1>. QED
  BY <1>1, <1>2, <1>4, <1>5, <1>6, <1>7, <1>8, <1>9, <1>10, <1>11, <1>12, <1>13,
     <1>14, <1>15, <1>16, <1>17
  DEF Next, Handler, EventConsumer, Time, IdleDetector, Database

\* While the server has not restarted, the row of a completed job comes with
\* exactly one bill, made or spawned.
THEOREM CompletionBilled == Spec => []CompletedIsBilled
<1>1. Init => BillInv /\ DoneInv
  BY DEF Init, BillInv, DoneInv, Bills, Running, Completed
<1>2. TypeOK /\ BillInv /\ DoneInv => CompletedIsBilled
  <2>. SUFFICES ASSUME TypeOK, BillInv, DoneInv, restarts = 0, NEW j \in Jobs, Completed(rows[j])
       PROVE  Bills(j) = 1
    BY DEF CompletedIsBilled, Bills, Completed
  <2>1. Bills(j) \in Nat /\ Bills(j) <= 1 /\ Bills(j) > 0
    BY BillsStep DEF BillInv, DoneInv
  <2>. QED
    BY <2>1
<1>. QED
  BY <1>1, <1>2, BillStep, DoneStep, TypeCorrect, PTL DEF Spec

\* Both at once: the bills are those of the completions.
THEOREM BillsMatch == Spec => []BillsMatchRuns
BY BilledOnce, CompletionBilled, PTL DEF BillsMatchRuns

=============================================================================
