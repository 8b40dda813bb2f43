---------------------------- MODULE ReplaceCrawl ----------------------------
(***************************************************************************)
(* Crawling one index again and again: the history of validators in Redis  *)
(* (RedisCrawlHistory in scrapix-storage redis.rs), conditional requests   *)
(* (process_url in scrapix-worker-crawler), the index, and the clean-up    *)
(* with which a Replace job ends (the idle detector in scrapix-api,        *)
(* delete_stale_documents in scrapix-storage meilisearch.rs).              *)
(*                                                                         *)
(* The API marks the messages of a Replace job as not incremental, but the *)
(* dispatcher of the frontier service builds new ones, with the default:   *)
(* every request of the crawler is conditional.                            *)
(*                                                                         *)
(* Abstractions.  A page is its version; every response has an ETag, which *)
(* identifies it.  All pages are found by every job.  The history of a job *)
(* of another index does not matter, so there is one index.  A job is idle *)
(* whenever the pipeline is slow for long enough, that is, at any time.    *)
(***************************************************************************)
EXTENDS Naturals, FiniteSets

CONSTANTS
  Pages, Jobs,
  Absent,       \* no history, no document
  MaxVersion,   \* bound: versions of a page
  MaxFailures   \* bound: failed publications and lost batches

ASSUME ReplaceAssumption == MaxVersion \in Nat \ {0} /\ MaxFailures \in Nat

VARIABLES
  site,        \* page -> its version now
  history,     \* page -> the version whose ETag is remembered, or Absent
  index,       \* page -> its document, with the job that wrote it, or Absent
  jobs,        \* job -> its strategy, state and progress
  handling,    \* fetched pages the crawler has not published yet
  buffered,    \* published pages on their way to the index
  failures, mishaps

replaceVars == <<site, history, index, jobs, handling, buffered, failures, mishaps>>

Versions == 1..MaxVersion
Fetched  == [job : Jobs, page : Pages, version : Versions]

\* A document can be told from none.
ASSUME AbsentAssumption == Absent \notin [job : Jobs, version : Versions]

ReplaceInit ==
  /\ site = [p \in Pages |-> 1]
  /\ history = [p \in Pages |-> Absent] /\ index = [p \in Pages |-> Absent]
  /\ jobs = [j \in Jobs |-> [strategy |-> "update", state |-> "new", alone |-> FALSE,
                             todo |-> {}, crawled |-> FALSE]]
  /\ handling = {} /\ buffered = {} /\ failures = 0 /\ mishaps = 0

Running == {j \in Jobs : jobs[j].state = "running"}

StartCrawl(j, strategy) ==
  /\ jobs[j].state = "new"
  /\ jobs' = [k \in Jobs |->
       IF k = j THEN [strategy |-> strategy, state |-> "running", alone |-> Running = {},
                      todo |-> Pages, crawled |-> FALSE]
       ELSE [jobs[k] EXCEPT !.alone = @ /\ k \notin Running]]
  /\ UNCHANGED <<site, history, index, handling, buffered, failures, mishaps>>

PageChanges(p) ==
  /\ site[p] < MaxVersion /\ site' = [site EXCEPT ![p] = @ + 1]
  /\ UNCHANGED <<history, index, jobs, handling, buffered, failures, mishaps>>

\* The flag of the message the crawler gets: UrlMessage::new says TRUE.
Incremental(j) == TRUE

\* 304: nothing but PageSkipped.
NotModified(j, p) == Incremental(j) /\ history[p] = site[p]

FetchPage(j, p) ==
  /\ p \in jobs[j].todo
  /\ jobs' = [jobs EXCEPT ![j].todo = @ \ {p}]
  /\ handling' = IF NotModified(j, p) THEN handling
                 ELSE handling \cup {[job |-> j, page |-> p, version |-> site[p]]}
  /\ UNCHANGED <<site, history, index, buffered, failures, mishaps>>

\* The request failed for good: PageFailed, which is activity too.
FetchFails(j, p) ==
  /\ p \in jobs[j].todo
  /\ failures < MaxFailures /\ failures' = failures + 1
  /\ jobs' = [jobs EXCEPT ![j].todo = @ \ {p}]
  /\ UNCHANGED <<site, history, index, handling, buffered, mishaps>>

\* A page that the index has is not published again.
PublishPage_Mutant(f) ==
  /\ f \in handling /\ handling' = handling \ {f}
  /\ history' = [history EXCEPT ![f.page] = f.version]
  /\ jobs' = [jobs EXCEPT ![f.job].crawled = TRUE]
  /\ buffered' = IF index[f.page] # Absent THEN buffered ELSE buffered \cup {f}
  /\ UNCHANGED <<site, index, failures, mishaps>>

\* The history first (a failure there is only logged), then the page.
PublishPage(f) ==
  /\ f \in handling /\ handling' = handling \ {f}
  /\ \E saved \in BOOLEAN :
       history' = IF saved /\ Incremental(f.job) THEN [history EXCEPT ![f.page] = f.version]
                  ELSE history
  /\ buffered' = buffered \cup {f}
  /\ jobs' = [jobs EXCEPT ![f.job].crawled = TRUE]
  /\ UNCHANGED <<site, index, failures, mishaps>>

\* The send fails, or the crawler stops, once the history is saved.
PublishFails(f) ==
  /\ failures < MaxFailures /\ failures' = failures + 1
  /\ f \in handling /\ handling' = handling \ {f}
  /\ history' = [history EXCEPT ![f.page] = f.version]
  /\ mishaps' = mishaps + 1
  /\ UNCHANGED <<site, index, jobs, buffered>>

\* The document id is made of the URL, so a later write replaces an earlier one.
IndexPage(f) ==
  /\ f \in buffered /\ buffered' = buffered \ {f}
  /\ index' = [index EXCEPT ![f.page] = [job |-> f.job, version |-> f.version]]
  /\ mishaps' = IF index[f.page] # Absent /\ index[f.page].version > f.version
                THEN mishaps + 1 ELSE mishaps
  /\ UNCHANGED <<site, history, jobs, handling, failures>>

\* A batch is dropped by the content worker or refused by Meilisearch.
BatchLost(f) ==
  /\ failures < MaxFailures /\ failures' = failures + 1
  /\ f \in buffered /\ buffered' = buffered \ {f}
  /\ mishaps' = mishaps + 1
  /\ UNCHANGED <<site, history, index, jobs, handling>>

\* Documents with another _crawl_job_id.
StaleFor(j) == {p \in Pages : index[p] # Absent /\ index[p].job # j}

Finished(j) == /\ j \in Running /\ jobs[j].crawled
               /\ jobs' = [jobs EXCEPT ![j].state = "done"]
               /\ UNCHANGED <<site, history, handling, buffered, failures>>

\* The idle detector; a clean-up that fails is only logged.
CompleteUpdate(j) == /\ Finished(j) /\ jobs[j].strategy = "update"
                     /\ UNCHANGED <<index, mishaps>>

CompleteReplace(j) ==
  /\ Finished(j) /\ jobs[j].strategy = "replace"
  /\ \E cleaned \in BOOLEAN :
       LET gone == IF cleaned THEN StaleFor(j) ELSE {}
       IN  /\ index' = [p \in Pages |-> IF p \in gone THEN Absent ELSE index[p]]
           /\ mishaps' = mishaps + Cardinality(gone)

ExpireHistory(p) ==
  /\ history[p] # Absent /\ history' = [history EXCEPT ![p] = Absent]
  /\ UNCHANGED <<site, index, jobs, handling, buffered, failures, mishaps>>

ReplaceNext ==
  \/ \E j \in Jobs, strategy \in {"update", "replace"} : StartCrawl(j, strategy)
  \/ \E p \in Pages : PageChanges(p) \/ ExpireHistory(p)
  \/ \E j \in Jobs :
       \/ \E p \in Pages : FetchPage(j, p) \/ FetchFails(j, p)
       \/ CompleteUpdate(j) \/ CompleteReplace(j)
  \/ \E f \in handling : PublishPage(f) \/ PublishFails(f)
  \/ \E f \in buffered : IndexPage(f) \/ BatchLost(f)

ReplaceSpec == ReplaceInit /\ [][ReplaceNext]_replaceVars

-----------------------------------------------------------------------------

ReplaceTypeOK ==
  /\ site \in [Pages -> Versions]
  /\ history \in [Pages -> Versions \cup {Absent}]
  /\ index \in [Pages -> [job : Jobs, version : Versions] \cup {Absent}]
  /\ jobs \in [Jobs -> [strategy : {"update", "replace"}, state : {"new", "running", "done"},
                        alone : BOOLEAN, todo : SUBSET Pages, crawled : BOOLEAN]]
  /\ handling \subseteq Fetched /\ buffered \subseteq Fetched
  /\ failures \in 0..MaxFailures /\ mishaps \in Nat

\* Every later crawl skips the page, and its document is missing or older.
Stranded(p) ==
  /\ history[p] # Absent
  /\ index[p] = Absent \/ index[p].version < history[p]
  /\ ~\E f \in buffered : f.page = p /\ f.version >= history[p]

\* A page whose history says it need not be fetched is in the index in that
\* version or later, or on its way, however jobs of the index overlap; but for
\* one page for each lost publication or batch, each document a clean-up took
\* and each overtaking write of an older version.
SkippedPagesAreIndexed == Cardinality({p \in Pages : Stranded(p)}) <= mishaps

\* "this removes stale documents from previous crawls while preserving
\* freshly-crawled ones": a Replace job that ran alone, saw every page and lost
\* nothing leaves a document of every page.
ReplaceKeepsEveryPage ==
  \A j \in Jobs :
    /\ jobs[j].strategy = "replace" /\ jobs[j].state = "done" /\ jobs[j].alone
    /\ jobs[j].todo = {} /\ handling = {} /\ buffered = {} /\ failures = 0
    => \A p \in Pages : index[p] # Absent

=============================================================================
