---------------------------- MODULE UsageReports ----------------------------
(***************************************************************************)
(* What the API tells its users of their usage: the rows it writes to      *)
(* ClickHouse through its event batchers, and the reports computed from    *)
(* them (bins/scrapix-api/src/lib.rs and analytics.rs,                     *)
(* crates/scrapix-storage/src/clickhouse.rs).                              *)
(*                                                                         *)
(* Each request and each end of a crawl spawns a task that adds a row to a *)
(* batch; the batch is written when it is full, by the task that filled    *)
(* it, and every five seconds.  A batch whose insertion fails is dropped,  *)
(* and a crash drops what is not written.                                  *)
(*                                                                         *)
(* Abstractions.  Of a row's numbers the pages are kept: the bytes, the    *)
(* renderings and the tokens are summed over the same rows.  Rates and     *)
(* averages follow from the sums.  The time is in hours.                   *)
(***************************************************************************)
EXTENDS Naturals, FiniteSets, Sequences, FiniteSetsExt, SequencesExt

CONSTANTS
  Callers,     \* [account, key] of a request: "" where there is none
  Sites,       \* domains
  Crawls,      \* jobs
  CrawlCaller, \* job -> the caller that asked for it
  CrawlSite,   \* job -> the domain of its first start URL
  Statuses,    \* HTTP statuses of a scraped page
  PageCounts,  \* pages a site mapping or a crawl may have fetched
  RowBatch,    \* rows that fill a batch (50)
  KpiDomains,  \* domains the KPIs are summed over (10000)
  DayHours,    \* hours in a day (24)
  MaxRows,     \* bound: rows logged
  MaxHours,    \* bound: the clock
  MaxLosses    \* bound: failed insertions and crashes

ASSUME UsageAssumption ==
  /\ IsFiniteSet(Callers) /\ Statuses \subseteq Nat /\ PageCounts \subseteq Nat
  /\ CrawlCaller \in [Crawls -> Callers] /\ CrawlSite \in [Crawls -> Sites]
  /\ RowBatch \in Nat \ {0} /\ KpiDomains \in Nat /\ DayHours \in Nat \ {0}
  /\ MaxRows \in Nat /\ MaxHours \in Nat /\ MaxLosses \in Nat

VARIABLES
  hour,     \* the clock
  rowLog,      \* the rows made so far
  place,    \* row -> "task", "pending", "writing", "stored" or "lost"
  full,     \* table -> tasks that filled its batch and will write it
  writing,  \* batches being written
  losses    \* failed insertions and crashes so far

usageVars == <<hour, rowLog, place, full, writing, losses>>

\* An empty string: no account, key, job or domain.
Unnamed == ""

Tables == {"request_events", "job_events", "ai_usage_events"}

\* One row of request_events; `job` is Unnamed unless it is a crawl's.
RequestRow(caller, job, operation, site, status, error, pages) ==
  [table |-> "request_events", account |-> caller.account, key |-> caller.key, job |-> job,
   operation |-> operation, domain |-> site, status |-> status, error |-> error,
   pages |-> pages, at |-> hour]

JobRow(job, event) == [table |-> "job_events", job |-> job, event |-> event, at |-> hour]

\* The rows do not tell whose call it was.
AiRow == [table |-> "ai_usage_events", account |-> Unnamed, tokens |-> 1, at |-> hour]

UsageInit ==
  /\ hour = 0 /\ rowLog = <<>> /\ place = <<>> /\ full = [t \in Tables |-> 0]
  /\ writing = {} /\ losses = 0

\* The tasks that add the rows are spawned.
Log(rows) ==
  /\ Len(rowLog) + Len(rows) <= MaxRows
  /\ rowLog' = rowLog \o rows /\ place' = place \o [i \in 1..Len(rows) |-> "task"]
  /\ UNCHANGED <<hour, full, writing, losses>>

\* scrape_url: the answer of a page that was not fetched says why.
LogScrape(caller, site, status) ==
  Log(<<RequestRow(caller, Unnamed, "scrape", site, status, status \notin 200..299, 1)>>)

\* map_url, with the pages visited; search_url, with none.
LogMap(caller, site, visited) == Log(<<RequestRow(caller, Unnamed, "map", site, 200, FALSE, visited)>>)

LogSearch(caller, site) == Log(<<RequestRow(caller, Unnamed, "search", site, 200, FALSE, 0)>>)

LogAiCall == Log(<<AiRow>>)

\* JobStarted or JobFailed, of which no request row is made.
LogJobEvent(j, event) == Log(<<JobRow(j, event)>>)

\* JobCompleted; a job that is no longer in memory has no URL and no key.
LogCrawl(j, inMemory, pages, errors) ==
  LET caller == [account |-> CrawlCaller[j].account, key |-> IF inMemory THEN CrawlCaller[j].key ELSE Unnamed]
      site == IF inMemory THEN CrawlSite[j] ELSE Unnamed
  IN  Log(<<JobRow(j, "JobCompleted"),
            RequestRow(caller, j, "crawl", site, IF errors > 0 THEN 0 ELSE 200, FALSE, pages)>>)

RowsAt(where, t) == {i \in DOMAIN rowLog : place[i] = where /\ rowLog[i].table = t}

\* EventBatcher::add
AddRow(i) ==
  /\ i \in DOMAIN rowLog /\ place[i] = "task"
  /\ place' = [place EXCEPT ![i] = "pending"]
  /\ LET t == rowLog[i].table
     IN  full' = IF Cardinality(RowsAt("pending", t)) + 1 >= RowBatch
                 THEN [full EXCEPT ![t] = @ + 1] ELSE full
  /\ UNCHANGED <<hour, rowLog, writing, losses>>

\* EventBatcher::flush takes what is pending by now.
TakeBatch(t) ==
  LET batch == RowsAt("pending", t)
  IN  /\ place' = [i \in DOMAIN place |-> IF i \in batch THEN "writing" ELSE place[i]]
      /\ writing' = IF batch = {} THEN writing ELSE writing \cup {batch}
      /\ UNCHANGED <<hour, rowLog, losses>>

FlushFull(t) == full[t] > 0 /\ full' = [full EXCEPT ![t] = @ - 1] /\ TakeBatch(t)

\* The five-second task, and the end of a server that is shut down.
FlushTick_SizeOnlyMutant(t) == full[t] > 0 /\ TakeBatch(t) /\ UNCHANGED full

FlushTick(t) == RowsAt("pending", t) # {} /\ TakeBatch(t) /\ UNCHANGED full

BatchEnds(batch, where) ==
  /\ writing' = writing \ {batch}
  /\ place' = [i \in DOMAIN place |-> IF i \in batch THEN where ELSE place[i]]
  /\ UNCHANGED <<hour, rowLog, full>>

InsertEnds(batch) == BatchEnds(batch, "stored") /\ UNCHANGED losses

InsertFails(batch) == losses < MaxLosses /\ BatchEnds(batch, "lost") /\ losses' = losses + 1

\* Nothing writes what a batcher holds when it is dropped.
ServerStops ==
  /\ losses < MaxLosses /\ losses' = losses + 1
  /\ \E written \in SUBSET writing :
       place' = [i \in DOMAIN place |->
                   IF place[i] = "stored" \/ i \in UNION written THEN "stored" ELSE "lost"]
  /\ writing' = {} /\ full' = [t \in Tables |-> 0]
  /\ UNCHANGED <<hour, rowLog>>

HourPasses ==
  /\ hour < MaxHours /\ hour' = hour + 1
  /\ UNCHANGED <<rowLog, place, full, writing, losses>>

UsageNext ==
  \/ \E c \in Callers, d \in Sites : \/ \E s \in Statuses : LogScrape(c, d, s)
                                     \/ \E n \in PageCounts : LogMap(c, d, n)
                                     \/ LogSearch(c, d)
  \/ \E j \in Crawls : \/ \E e \in {"JobStarted", "JobFailed"} : LogJobEvent(j, e)
                       \/ \E inMemory \in BOOLEAN, n \in PageCounts, errors \in 0..1 :
                            LogCrawl(j, inMemory, n, errors)
  \/ LogAiCall
  \/ \E i \in DOMAIN rowLog : AddRow(i)
  \/ \E t \in Tables : FlushFull(t) \/ FlushTick(t)
  \/ \E b \in writing : InsertEnds(b) \/ InsertFails(b)
  \/ ServerStops \/ HourPasses

UsageSpec == UsageInit /\ [][UsageNext]_usageVars

(***************************************************************************)
(* The reports.  Each is a query over the rows stored, and the pipe that   *)
(* serves it.                                                              *)
(***************************************************************************)
\* WHERE timestamp >= now() - INTERVAL hours HOUR
Recent(t, hours) == {i \in RowsAt("stored", t) : rowLog[i].at + hours >= hour}

Succeeded(i) == rowLog[i].status >= 200 /\ rowLog[i].status < 400

Failed_NoStatusMutant(i) == rowLog[i].status >= 400 \/ rowLog[i].error

Failed(i) == rowLog[i].status >= 400 \/ rowLog[i].status = 0 \/ rowLog[i].error

PagesIn(rows) == SumFunction([i \in rows |-> rowLog[i].pages])

Summary(rows) ==
  [requests |-> PagesIn(rows), successes |-> PagesIn({i \in rows : Succeeded(i)}),
   failures |-> PagesIn({i \in rows : Failed(i)})]

\* GROUP BY the key of each row
Grouped(keyOf) == [k \in Range(keyOf) |-> Summary({i \in DOMAIN keyOf : keyOf[i] = k})]

Day(i) == rowLog[i].at \div DayHours

Requests(hours) == Recent("request_events", hours)

HourlyStats(hours) == Grouped([i \in Requests(hours) |-> rowLog[i].at])

DailyStats(days) == Grouped([i \in Requests(days * DayHours) |-> Day(i)])

DomainStats(site, hours) == Summary({i \in Requests(hours) : rowLog[i].domain = site})

\* ORDER BY total_requests DESC LIMIT limit: ties go either way.
TopGroups(groups, limit) ==
  {kept \in SUBSET DOMAIN groups :
     /\ Cardinality(kept) = Min({limit, Cardinality(DOMAIN groups)})
     /\ \A k \in kept, other \in DOMAIN groups \ kept :
          groups[k].requests >= groups[other].requests}

ByDomain(hours) == Grouped([i \in Requests(hours) |-> rowLog[i].domain])

\* pipe_kpis: what it may answer
Kpis(hours) ==
  LET groups == ByDomain(hours)
  IN  {[requests |-> SumFunction([d \in kept |-> groups[d].requests]),
        successes |-> SumFunction([d \in kept |-> groups[d].successes]),
        failures |-> SumFunction([d \in kept |-> groups[d].failures])] :
       kept \in TopGroups(groups, KpiDomains)}

\* Rows, not pages; an incomplete crawl has status 0 and no error.
ErrorDistribution(hours) ==
  LET rows == {i \in Requests(hours) : rowLog[i].status >= 400 \/ rowLog[i].error}
  IN  [s \in {rowLog[i].status : i \in rows} |-> Cardinality({i \in rows : rowLog[i].status = s})]

OfAccount(account, hours) == {i \in Requests(hours) : rowLog[i].account = account}

AccountUsage(account, hours) == Summary(OfAccount(account, hours))

ByAccount(hours) ==
  Grouped([i \in {r \in Requests(hours) : rowLog[r].account # Unnamed} |-> rowLog[i].account])

AccountDailyUsage(account, days) == Grouped([i \in OfAccount(account, days * DayHours) |-> Day(i)])

AccountDailyUsageByOperation(account, days) ==
  Grouped([i \in OfAccount(account, days * DayHours) |-> <<Day(i), rowLog[i].operation>>])

ApiKeyUsage(account, hours) ==
  Grouped([i \in {r \in OfAccount(account, hours) : rowLog[r].key # Unnamed} |-> rowLog[i].key])

\* No row: no statistics.
JobStats(j) ==
  LET rows == {i \in RowsAt("stored", "request_events") : rowLog[i].job = j}
      times == {rowLog[i].at : i \in rows}
  IN  IF rows = {} THEN {}
      ELSE {[summary |-> Summary(rows), started |-> Min(times), lastActivity |-> Max(times)]}

\* ORDER BY timestamp DESC LIMIT limit: the rows kept.
JobTimeline(j, limit) ==
  LET rows == {i \in RowsAt("stored", "job_events") : rowLog[i].job = j}
  IN  {kept \in SUBSET rows : /\ Cardinality(kept) = Min({limit, Cardinality(rows)})
                              /\ \A i \in kept, k \in rows \ kept : rowLog[i].at >= rowLog[k].at}

JobEventSummary(j) ==
  LET rows == {i \in RowsAt("stored", "job_events") : rowLog[i].job = j}
  IN  [e \in {rowLog[i].event : i \in rows} |-> Cardinality({i \in rows : rowLog[i].event = e})]

\* Unnamed asks for every account.
AiUsage(hours, account) ==
  LET calls == Recent("ai_usage_events", hours)
  IN  Cardinality({i \in calls : account # Unnamed => rowLog[i].account = account})

-----------------------------------------------------------------------------
UsageTypeOK ==
  /\ hour \in 0..MaxHours /\ losses \in 0..MaxLosses /\ Len(rowLog) <= MaxRows
  /\ DOMAIN place = DOMAIN rowLog
  /\ \A i \in DOMAIN rowLog :
       /\ rowLog[i].table \in Tables
       /\ place[i] \in {"task", "pending", "writing", "stored", "lost"}
  /\ full \in [Tables -> 0..MaxRows] /\ writing \subseteq SUBSET DOMAIN rowLog

Summed(groups) == SumFunction([k \in DOMAIN groups |-> groups[k].requests])

\* The reports tell one story (clickhouse.rs, pipe_kpis).  Over the same span
\* the hours, the days and the domains add up to the same pages, and each page
\* counts as a success or a failure at least; an account's days, also split by
\* operation, add up to the account's usage, its keys to no more, the accounts
\* together to no more than the whole; the KPIs show the whole unless there are
\* more domains than they are summed over, and never more; a job's timeline is
\* as long as its summary says.
ReportsAgree ==
  /\ \A days \in 1..MaxHours :
       LET hours == days * DayHours
           whole == Summary(Requests(hours))
           sites == DOMAIN ByDomain(hours)
       IN  /\ Summed(HourlyStats(hours)) = whole.requests
           /\ Summed(DailyStats(days)) = whole.requests
           /\ SumFunction([d \in sites |-> DomainStats(d, hours).requests]) = whole.requests
           /\ whole.requests <= whole.successes + whole.failures
           /\ SumFunction(ErrorDistribution(hours))
                <= Cardinality({i \in Requests(hours) : Failed(i)})
           /\ \A k \in Kpis(hours) :
                /\ k.requests <= whole.requests
                /\ Cardinality(sites) <= KpiDomains => k = whole
           /\ Summed(ByAccount(hours)) <= whole.requests
           /\ \A a \in {c.account : c \in Callers} :
                LET used == AccountUsage(a, hours).requests
                IN  /\ Summed(AccountDailyUsage(a, days)) = used
                    /\ Summed(AccountDailyUsageByOperation(a, days)) = used
                    /\ Summed(ApiKeyUsage(a, hours)) <= used
                    /\ a # Unnamed => used = 0 \/ ByAccount(hours)[a].requests = used
           /\ AiUsage(hours, Unnamed) >=
                SumFunction([a \in {c.account : c \in Callers} \ {Unnamed} |-> AiUsage(hours, a)])
  /\ \A j \in Crawls :
       /\ \A kept \in JobTimeline(j, MaxRows) :
            Cardinality(kept) = SumFunction(JobEventSummary(j))
       /\ \A s \in JobStats(j) : s.started <= s.lastActivity

\* A row is written or lost in the end, a batch that never fills included
\* (EventBatcher, the flush task).
UsageIsWritten ==
  \A i \in 1..MaxRows :
    (i \in DOMAIN rowLog) ~> (i \in DOMAIN rowLog /\ place[i] \in {"stored", "lost"})

=============================================================================
