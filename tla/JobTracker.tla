----------------------------- MODULE JobTracker -----------------------------
(***************************************************************************)
(* The life of crawl jobs in the API server (bins/scrapix-api/src/lib.rs)  *)
(* and their rows in Postgres (jobs_db.rs).                                *)
(*                                                                         *)
(* The map of jobs in memory is the primary state.  It is changed by the   *)
(* request handlers (create, cancel), by the consumer of the EVENTS topic  *)
(* and by the idle detector, which is the only one to complete a job.  The *)
(* database follows: spawned tasks insert and update rows and deduct       *)
(* credits, each at any later moment and in any order, and a flush task    *)
(* writes the jobs whose counters changed.  A restart forgets the memory   *)
(* and every spawned task, and recovers the active rows.                   *)
(*                                                                         *)
(* Abstractions.  All jobs belong to one account, with Postgres and        *)
(* billing configured.  Of the counters only pages_crawled is kept: it     *)
(* decides completion and the bill.  Time since the last event is "fresh"  *)
(* or "idle" (over the detector's threshold).  The crawl itself is the     *)
(* events it sends, at most MaxEvents in all, which arrive whatever the    *)
(* job's status is, as nothing tells the workers.  A page event may come   *)
(* again when the consumer, which commits an event as it polls it, joins   *)
(* its group anew; that another event comes again adds nothing to          *)
(* OtherEvent, and an event lost between its commit and its handling is    *)
(* one the crawl did not send: it only keeps the counter lower.  A spawned *)
(* write equal to one that is still pending is the same write.  DebitJob   *)
(* stands for an attempt to deduct: the balance is the subject of          *)
(* CreditLedger.                                                           *)
(*                                                                         *)
(* A definition named ...Mutant is the one that follows it with a bug: a   *)
(* run in which it takes the other's place must break a property.          *)
(***************************************************************************)
EXTENDS Naturals, Sequences, FiniteSets, Functions

CONSTANTS
  Jobs,           \* the jobs that may be requested
  Absent,
  MaxConcurrent,  \* the tier's max_concurrent_jobs
  MaxJobs,        \* config.max_jobs, the capacity of the map
  EvictShare,     \* 1/EvictShare of the map may be evicted (10 in the code)
  MaxEvents,      \* bound: events of all crawls
  MaxRestarts,    \* bound: restarts of the server
  MaxRejoins      \* bound: rejoins of the consumer

ASSUME JobTrackerAssumption ==
  /\ MaxConcurrent \in Nat \ {0} /\ MaxJobs \in Nat \ {0} /\ EvictShare \in Nat \ {0}
  /\ MaxEvents \in Nat /\ MaxRestarts \in Nat /\ MaxRejoins \in Nat

VARIABLES
  requests,  \* job -> how far do_create_crawl is
  jobs,      \* job -> its JobState in memory, or Absent
  activity,  \* job -> job_last_activity: "fresh", "idle" or Absent
  dirty,     \* dirty_jobs
  idleJobs,  \* what the idle detector found and has not completed yet
  rows,      \* job -> its row in Postgres, or Absent
  writes,    \* spawned inserts and updates
  flushing,  \* snapshots of the flush that is being written
  debits,    \* job -> spawned deductions, in pages
  charged,   \* job -> deductions made, in pages
  events,    \* job -> events its crawl has sent
  fetched,   \* job -> pages its crawl has fetched
  handled,   \* job -> page events consumed since the consumer joined its group
  again,     \* job -> page events that will be delivered once more
  rejoins,   \* how often the consumer joined its group again without a restart
  restarts

memory == <<jobs, activity, dirty, idleJobs>>
crawl == <<events, fetched, handled, again, rejoins>>
vars == <<requests, memory, rows, writes, flushing, debits, charged, crawl, restarts>>

Active   == {"pending", "running"}
Finished == {"completed", "failed", "cancelled"}

JobState == [status : Active \cup Finished, crawled : Nat]

Stored == {j \in Jobs : jobs[j] # Absent}

Runs(j) == j \in Stored /\ jobs[j].status = "running"

\* update_job: nothing happens to a job that is not in the map.
Update(j, state) == jobs' = IF j \in Stored THEN [jobs EXCEPT ![j] = state] ELSE jobs

\* tokio::spawn of a write of j's new state, if update_job found the job.
Spawn(kind, j) ==
  writes' = IF j \in Stored THEN writes \cup {[kind |-> kind, job |-> j, state |-> jobs'[j]]}
            ELSE writes

Init ==
  /\ requests = [j \in Jobs |-> "none"]
  /\ jobs = [j \in Jobs |-> Absent]
  /\ activity = [j \in Jobs |-> Absent]
  /\ dirty = {} /\ idleJobs = {}
  /\ rows = [j \in Jobs |-> Absent]
  /\ writes = {} /\ flushing = {}
  /\ debits = [j \in Jobs |-> <<>>]
  /\ charged = [j \in Jobs |-> <<>>]
  /\ events = [j \in Jobs |-> 0]
  /\ fetched = [j \in Jobs |-> 0]
  /\ handled = [j \in Jobs |-> 0]
  /\ again = [j \in Jobs |-> 0]
  /\ rejoins = 0
  /\ restarts = 0

-----------------------------------------------------------------------------
(* do_create_crawl                                                         *)

\* The concurrency check counts rows.
CheckQuota(j) ==
  /\ requests[j] = "none"
  /\ LET active == {k \in Jobs : rows[k] # Absent /\ rows[k].status \in Active}
     IN  requests' = [requests EXCEPT
           ![j] = IF Cardinality(active) < MaxConcurrent THEN "checked" ELSE "refused"]
  /\ UNCHANGED <<memory, rows, writes, flushing, debits, charged, crawl, restarts>>

\* The jobs that make room for a new one: finished ones, when the map is full.
Evicted ==
  LET finished == {k \in Stored : jobs[k].status \in Finished}
      most     == MaxJobs \div EvictShare
  IN  IF Cardinality(Stored) < MaxJobs THEN {{}}
      ELSE {out \in SUBSET finished :
              Cardinality(out) = IF most <= Cardinality(finished) THEN most
                                 ELSE Cardinality(finished)}

Register(j) ==
  /\ requests[j] = "checked"
  /\ requests' = [requests EXCEPT ![j] = "publishing"]
  /\ \E out \in Evicted :
       jobs' = [k \in Jobs |-> IF k = j THEN [status |-> "pending", crawled |-> 0]
                               ELSE IF k \in out THEN Absent ELSE jobs[k]]
  /\ UNCHANGED <<activity, dirty, idleJobs, rows, writes, flushing, debits, charged,
                 crawl, restarts>>

Heartbeat_Mutant(j) ==
  /\ requests[j] \in {"publishing", "abandoned", "done"}
  /\ activity' = [activity EXCEPT ![j] = "fresh"]
  /\ UNCHANGED <<requests, jobs, dirty, idleJobs, rows, writes, flushing, debits, charged,
                 crawl, restarts>>

\* The heartbeat of the sitemap discovery, aborted when the discovery is over,
\* but not when the handler is dropped.
Heartbeat(j) ==
  /\ requests[j] \in {"publishing", "abandoned"}
  /\ activity' = [activity EXCEPT ![j] = "fresh"]
  /\ UNCHANGED <<requests, jobs, dirty, idleJobs, rows, writes, flushing, debits, charged,
                 crawl, restarts>>

\* The client disconnects and the server drops the handler where it awaits.
Abandon(j) ==
  /\ requests[j] = "publishing"
  /\ requests' = [requests EXCEPT ![j] = "abandoned"]
  /\ UNCHANGED <<memory, rows, writes, flushing, debits, charged, crawl, restarts>>

\* Some URL was published: the job runs, its row is inserted later.
Started(j) ==
  /\ requests[j] = "publishing"
  /\ requests' = [requests EXCEPT ![j] = "done"]
  /\ Update(j, [jobs[j] EXCEPT !.status = "running"])
  /\ Spawn("insert", j)
  /\ UNCHANGED <<activity, dirty, idleJobs, rows, flushing, debits, charged, crawl, restarts>>

\* No URL could be published: the job fails, without a row.
PublishFailed(j) ==
  /\ requests[j] = "publishing"
  /\ events[j] = 0
  /\ requests' = [requests EXCEPT ![j] = "refused"]
  /\ Update(j, [jobs[j] EXCEPT !.status = "failed"])
  /\ UNCHANGED <<activity, dirty, idleJobs, rows, writes, flushing, debits, charged,
                 crawl, restarts>>

-----------------------------------------------------------------------------
(* cancel_job and process_event                                            *)

Cancel(j) ==
  /\ j \in Stored
  /\ jobs' = [jobs EXCEPT ![j].status = "cancelled"]
  /\ dirty' = dirty \ {j}
  /\ Spawn("update", j)
  /\ UNCHANGED <<requests, activity, idleJobs, rows, flushing, debits, charged, crawl, restarts>>

\* process_event notes the time and tells the subscribers.  The event may be
\* about a job that is no longer in the map.
Consume(j) ==
  /\ activity' = [activity EXCEPT ![j] = "fresh"]
  /\ UNCHANGED <<requests, idleJobs, rows, writes, flushing, debits, charged, rejoins, restarts>>

\* An event of the crawl arrives, once its first URL may be out.
Event(j) ==
  /\ requests[j] \in {"publishing", "abandoned", "orphaned", "done"}
  /\ FoldFunction(+, 0, events) < MaxEvents
  /\ events' = [events EXCEPT ![j] = @ + 1]
  /\ again' = again
  /\ Consume(j)

CountPage(j) ==
  /\ Update(j, [jobs[j] EXCEPT !.crawled = @ + 1])
  /\ dirty' = dirty \cup {j}
  /\ handled' = [handled EXCEPT ![j] = @ + 1]

PageCrawled(j) ==
  /\ Event(j)
  /\ CountPage(j)
  /\ fetched' = [fetched EXCEPT ![j] = @ + 1]

\* PageFailed, DocumentIndexed and UrlsDiscovered change other counters;
\* JobStarted and PageSkipped change none.
OtherEvent(j) ==
  /\ Event(j)
  /\ dirty' \in {dirty, dirty \cup {j}}
  /\ UNCHANGED <<jobs, fetched, handled>>

\* A page that was counted before is counted once more.
PageCrawledAgain(j) ==
  /\ again[j] > 0
  /\ again' = [again EXCEPT ![j] = @ - 1]
  /\ Consume(j)
  /\ CountPage(j)
  /\ UNCHANGED <<events, fetched>>

\* The broker delivers again what was consumed since the consumer joined its
\* group and whose commit, which poll_one does not wait for, did not arrive.
Redeliver ==
  /\ \E lost \in [Jobs -> 0..MaxEvents] :
       /\ \A j \in Jobs : lost[j] <= handled[j]
       /\ again' = [j \in Jobs |-> again[j] + lost[j]]
  /\ handled' = [j \in Jobs |-> 0]

\* The consumer is thrown out of its group, for it did not poll or lost its
\* connection, and joins it again.
Rejoin ==
  /\ rejoins < MaxRejoins
  /\ rejoins' = rejoins + 1
  /\ Redeliver
  /\ UNCHANGED <<requests, memory, rows, writes, flushing, debits, charged, events, fetched,
                 restarts>>

-----------------------------------------------------------------------------
(* The idle detector                                                       *)

GoIdle(j) ==
  /\ activity[j] = "fresh"
  /\ activity' = [activity EXCEPT ![j] = "idle"]
  /\ UNCHANGED <<requests, jobs, dirty, idleJobs, rows, writes, flushing, debits, charged,
                 crawl, restarts>>

IsIdle_Mutant(j) ==
  jobs[j].status \in {"running", "completed"} /\ jobs[j].crawled > 0 /\ activity[j] # "fresh"

IsIdle_EmptyMutant(j) == jobs[j].status = "running" /\ activity[j] = "idle"

IsIdle(j) == jobs[j].status = "running" /\ jobs[j].crawled > 0 /\ activity[j] = "idle"

\* A tick of the detector finds the idle jobs and reads their counters.
ScanIdle ==
  /\ idleJobs = {}
  /\ idleJobs' = {[job |-> j, crawled |-> jobs[j].crawled] : j \in {k \in Stored : IsIdle(k)}}
  /\ idleJobs' # {}
  /\ UNCHANGED <<requests, jobs, activity, dirty, rows, writes, flushing, debits, charged,
                 crawl, restarts>>

Complete_AddMutant(idle) ==
  LET j == idle.job
  IN  /\ Update(j, [status |-> "completed", crawled |-> jobs[j].crawled + idle.crawled])
      /\ dirty' = IF j \in Stored THEN dirty \ {j} ELSE dirty
      /\ Spawn("update", j)
      /\ debits' = IF idle.crawled > 0 THEN [debits EXCEPT ![j] = Append(@, idle.crawled)]
                   ELSE debits
      /\ activity' = [activity EXCEPT ![j] = Absent]
      /\ idleJobs' = idleJobs \ {idle}
      /\ UNCHANGED <<requests, rows, flushing, charged, crawl, restarts>>

Complete_Mutant(idle) ==
  LET j == idle.job
  IN  /\ Update(j, [status |-> "completed", crawled |-> idle.crawled])
      /\ dirty' = IF j \in Stored THEN dirty \ {j} ELSE dirty
      /\ Spawn("update", j)
      /\ debits' = IF idle.crawled > 0 /\ jobs[j] = [status |-> "running", crawled |-> idle.crawled]
                   THEN [debits EXCEPT ![j] = Append(@, idle.crawled)] ELSE debits
      /\ activity' = [activity EXCEPT ![j] = Absent]
      /\ idleJobs' = idleJobs \ {idle}
      /\ UNCHANGED <<requests, rows, flushing, charged, crawl, restarts>>

\* It completes one of them, after the cleanup of a Replace job, which takes up
\* to minutes: process_event sets the status and the counters it read before,
\* spawns the update of the row and the deduction.
Complete(idle) ==
  LET j == idle.job
  IN  /\ Update(j, [status |-> "completed", crawled |-> idle.crawled])
      /\ dirty' = IF j \in Stored THEN dirty \ {j} ELSE dirty
      /\ Spawn("update", j)
      /\ debits' = IF idle.crawled > 0 THEN [debits EXCEPT ![j] = Append(@, idle.crawled)]
                   ELSE debits
      /\ activity' = [activity EXCEPT ![j] = Absent]
      /\ idleJobs' = idleJobs \ {idle}
      /\ UNCHANGED <<requests, rows, flushing, charged, crawl, restarts>>

-----------------------------------------------------------------------------
(* Postgres                                                                *)

\* INSERT ... ON CONFLICT DO NOTHING, and UPDATE ... WHERE job_id = ...
RowAfter(w) ==
  IF (w.kind = "insert") = (rows[w.job] = Absent) THEN w.state ELSE rows[w.job]

Write(w) ==
  /\ rows' = [rows EXCEPT ![w.job] = RowAfter(w)]
  /\ writes' = writes \ {w}
  /\ UNCHANGED <<requests, memory, flushing, debits, charged, crawl, restarts>>

DebitJob(j) ==
  /\ debits[j] # <<>>
  /\ charged' = [charged EXCEPT ![j] = Append(@, Head(debits[j]))]
  /\ debits' = [debits EXCEPT ![j] = Tail(@)]
  /\ UNCHANGED <<requests, memory, rows, writes, flushing, crawl, restarts>>

\* The flush task drains dirty_jobs and takes snapshots of the jobs ...
FlushStart ==
  /\ flushing = {} /\ dirty # {}
  /\ flushing' = {[job |-> j, state |-> jobs[j]] : j \in dirty \cap Stored}
  /\ dirty' = {}
  /\ UNCHANGED <<requests, jobs, activity, idleJobs, rows, writes, debits, charged, crawl, restarts>>

\* ... and then flush_job_counters updates their rows in one statement.
FlushWrite ==
  /\ flushing # {}
  /\ rows' = [j \in Jobs |->
       IF rows[j] # Absent /\ \E s \in flushing : s.job = j
       THEN (CHOOSE s \in flushing : s.job = j).state ELSE rows[j]]
  /\ flushing' = {}
  /\ UNCHANGED <<requests, memory, writes, debits, charged, crawl, restarts>>

-----------------------------------------------------------------------------
\* The server stops and starts again: load_active_jobs.
Restart ==
  /\ restarts < MaxRestarts
  /\ restarts' = restarts + 1
  /\ jobs' = [j \in Jobs |->
       IF rows[j] # Absent /\ rows[j].status \in Active THEN rows[j] ELSE Absent]
  /\ activity' = [j \in Jobs |->
       IF rows[j] # Absent /\ rows[j].status = "running" THEN "fresh" ELSE Absent]
  /\ requests' = [j \in Jobs |->
       CASE requests[j] = "checked" -> "refused"
         [] requests[j] \in {"publishing", "abandoned"} -> "orphaned"
         [] OTHER -> requests[j]]
  /\ dirty' = {} /\ idleJobs' = {} /\ writes' = {} /\ flushing' = {}
  /\ debits' = [j \in Jobs |-> <<>>]
  /\ Redeliver
  /\ UNCHANGED <<rows, charged, events, fetched, rejoins>>

Handler == \E j \in Jobs :
  \/ CheckQuota(j) \/ Register(j) \/ Heartbeat(j) \/ Abandon(j)
  \/ Started(j) \/ PublishFailed(j) \/ Cancel(j)

EventConsumer ==
  \/ \E j \in Jobs : PageCrawled(j) \/ OtherEvent(j) \/ PageCrawledAgain(j)
  \/ Rejoin

Time == \E j \in Jobs : GoIdle(j)

IdleDetector == ScanIdle \/ \E idle \in idleJobs : Complete(idle)

Database ==
  \/ \E w \in writes : Write(w)
  \/ \E j \in Jobs : DebitJob(j)
  \/ FlushStart \/ FlushWrite

Next == Handler \/ EventConsumer \/ Time \/ IdleDetector \/ Database \/ Restart

Spec == Init /\ [][Next]_vars

\* Time passes, as a crawl sends finitely many events, and the detector ticks.
FairSpec ==
  /\ Spec
  /\ \A j \in Jobs : WF_vars(GoIdle(j))
  /\ WF_vars(IdleDetector)

-----------------------------------------------------------------------------
(* What holds.                                                             *)

\* Every variable has its type.
TypeOK ==
  /\ requests \in [Jobs -> {"none", "checked", "refused", "publishing", "abandoned",
                          "orphaned", "done"}]
  /\ jobs \in [Jobs -> JobState \cup {Absent}]
  /\ activity \in [Jobs -> {"fresh", "idle", Absent}]
  /\ dirty \subseteq Jobs
  /\ idleJobs \subseteq [job : Jobs, crawled : Nat]
  /\ rows \in [Jobs -> JobState \cup {Absent}]
  /\ writes \subseteq [kind : {"insert", "update"}, job : Jobs, state : JobState]
  /\ flushing \subseteq [job : Jobs, state : JobState]
  /\ debits \in [Jobs -> Seq(Nat)] /\ charged \in [Jobs -> Seq(Nat)]
  /\ events \in [Jobs -> Nat] /\ fetched \in [Jobs -> Nat]
  /\ handled \in [Jobs -> Nat] /\ again \in [Jobs -> Nat] /\ rejoins \in Nat
  /\ restarts \in Nat

\* A job is billed at most once per run of the server: cancelling it, starting
\* it late, events after its completion and a slow cleanup do not make the
\* detector find it twice.
BilledOncePerRun ==
  \A j \in Jobs : Len(charged[j]) + Len(debits[j]) <= restarts + 1

\* No counter runs ahead of the crawl, in memory, in Postgres or on its way
\* there, across overwritten counters, stale snapshots, restarts and a queue
\* that delivers again: a page counts, and is billed, at most as often as the
\* consumer joined its group.
NoPageInvented ==
  \A j \in Jobs :
    LET most == fetched[j] * (restarts + rejoins + 1)
    IN  /\ \A s \in {jobs[j], rows[j]} : s # Absent => s.crawled <= most
        /\ \A s \in writes \cup flushing : s.job = j => s.state.crawled <= most
        /\ \A bill \in {debits[j], charged[j]} : \A i \in 1..Len(bill) : bill[i] <= most

\* While the server runs, a job is only recorded as completed together with its
\* bill: the two are spawned apart and may be made in either order.
CompletedIsBilled ==
  restarts = 0 =>
    \A j \in Jobs :
      (rows[j] # Absent /\ rows[j].status = "completed") =>
        Len(charged[j]) + Len(debits[j]) = 1

\* Bills match completions: one for each, and none besides.
BillsMatchRuns == CompletedIsBilled /\ BilledOncePerRun

\* A running job that counted a page ends: once its crawl is silent for long
\* enough the detector completes it, unless somebody cancels it or the server
\* restarts first.  After the restart that holds again, for the counter that
\* came back with the row.
RunningJobEnds ==
  \A j \in Jobs, r \in 0..MaxRestarts :
    (Runs(j) /\ jobs[j].crawled > 0 /\ restarts = r) ~> (~Runs(j) \/ restarts > r)

-----------------------------------------------------------------------------
(* What the documentation promises and the code does not keep.             *)

\* docs/api-reference/jobs.mdx: "Cancelled" ends a job's life.
CancelledIsFinal ==
  [][\A j \in Jobs :
       (j \in Stored /\ jobs[j].status = "cancelled" /\ jobs'[j] # Absent)
         => jobs'[j].status = "cancelled"]_vars

=============================================================================
