----------------------------- MODULE LocalCrawl -----------------------------
(***************************************************************************)
(* `scrapix local` (bins/scrapix-cli/src/commands/local.rs): a whole crawl *)
(* in one process.  The main loop takes URLs from a queue and spawns a     *)
(* task for each, as far as there are permits; tasks fetch, store the      *)
(* document, count it and queue the links that are new.                    *)
(*                                                                         *)
(* Abstractions.  Links are those to the domains of the start URLs; those  *)
(* of a page come in any order.  Each pause of the main loop may be longer *)
(* or shorter than a fetch.  `fetches' is a history variable.              *)
(***************************************************************************)
EXTENDS Naturals, Sequences, FiniteSets, SequencesExt

CONSTANTS
  Sites,         \* URLs of the site
  Starts,        \* the start URLs
  LinksOf,       \* url -> links on its page
  NoUrl,         \* nothing
  LocalDepth,    \* max_depth
  LocalPages,    \* max_pages
  LocalPermits   \* --concurrency

ASSUME LocalAssumption ==
  /\ IsFiniteSet(Sites) /\ Starts \subseteq Sites /\ Starts # {}
  /\ LinksOf \in [Sites -> SUBSET Sites] /\ NoUrl \notin Sites
  /\ LocalDepth \in Nat /\ LocalPages \in Nat /\ LocalPermits \in Nat

VARIABLES
  visited,     \* URLs ever queued
  toVisit,     \* the queue: URLs with their depths
  popped,      \* what the main loop has taken and has no permit for yet
  mainAt,      \* where the main loop is
  tasks,       \* url -> where its task is
  depthOf,     \* url -> the depth its task works with
  documents,   \* the URLs of the documents
  counted,     \* pages_crawled
  failed,      \* pages_failed
  report,      \* the documents and the count that are written at the end
  fetches      \* url -> how often it was requested

localVars == <<visited, toVisit, popped, mainAt, tasks, depthOf, documents, counted, failed,
               report, fetches>>

TaskPlaces == {"none", "fetching", "stored", "counted"}

\* URLs of one depth, in some order.
Entries(urls, depth) ==
  {[i \in DOMAIN order |-> [url |-> order[i], depth |-> depth]] : order \in SetToSeqs(urls)}

Active == {u \in Sites : tasks[u] # "none"}

LocalInit ==
  /\ visited = Starts /\ toVisit \in Entries(Starts, 0)
  /\ popped = NoUrl /\ mainAt = "check"
  /\ tasks = [u \in Sites |-> "none"] /\ depthOf = [u \in Sites |-> 0]
  /\ documents = <<>> /\ counted = 0 /\ failed = 0
  /\ report = [documents |-> <<>>, pages |-> 0]
  /\ fetches = [u \in Sites |-> 0]

-----------------------------------------------------------------------------
(* The main loop                                                           *)

tasksVars == <<visited, tasks, depthOf, documents, counted, failed, fetches>>

CheckPages ==
  /\ mainAt = "check"
  /\ mainAt' = IF counted >= LocalPages THEN "settle" ELSE "pop"
  /\ UNCHANGED <<toVisit, popped, report, tasksVars>>

PopUrl ==
  /\ mainAt = "pop" /\ toVisit # <<>>
  /\ toVisit' = Tail(toVisit)
  /\ IF Head(toVisit).depth > LocalDepth
     THEN mainAt' = "check" /\ UNCHANGED <<popped, depthOf>>
     ELSE /\ mainAt' = "permit" /\ popped' = Head(toVisit).url
          /\ depthOf' = [depthOf EXCEPT ![Head(toVisit).url] = Head(toVisit).depth]
  /\ UNCHANGED <<report, visited, tasks, documents, counted, failed, fetches>>

PopNothing ==
  /\ mainAt = "pop" /\ toVisit = <<>> /\ mainAt' = "pause"
  /\ UNCHANGED <<toVisit, popped, report, tasksVars>>

\* It gives up if nothing was queued meanwhile, whatever is being fetched.
EndPause ==
  /\ mainAt = "pause"
  /\ mainAt' = IF toVisit = <<>> THEN "settle" ELSE "check"
  /\ UNCHANGED <<toVisit, popped, report, tasksVars>>

\* The permit is dropped at once instead of moving into the task.
SpawnTask_Mutant ==
  /\ mainAt = "permit"
  /\ mainAt' = "check" /\ popped' = NoUrl
  /\ tasks' = [tasks EXCEPT ![popped] = "fetching"]
  /\ fetches' = [fetches EXCEPT ![popped] = @ + 1]
  /\ UNCHANGED <<toVisit, report, visited, depthOf, documents, counted, failed>>

SpawnTask ==
  /\ mainAt = "permit" /\ Cardinality(Active) < LocalPermits
  /\ mainAt' = "check" /\ popped' = NoUrl
  /\ tasks' = [tasks EXCEPT ![popped] = "fetching"]
  /\ fetches' = [fetches EXCEPT ![popped] = @ + 1]
  /\ UNCHANGED <<toVisit, report, visited, depthOf, documents, counted, failed>>

\* After half a second: the documents are copied, then the counter is read.
CopyDocuments ==
  /\ mainAt = "settle" /\ mainAt' = "report"
  /\ report' = [report EXCEPT !.documents = documents]
  /\ UNCHANGED <<toVisit, popped, tasksVars>>

\* With this the process ends, and its tasks with it.
WriteReport ==
  /\ mainAt = "report" /\ mainAt' = "exit"
  /\ report' = [report EXCEPT !.pages = counted]
  /\ UNCHANGED <<toVisit, popped, tasksVars>>

-----------------------------------------------------------------------------
(* The tasks                                                               *)

mainVars == <<popped, mainAt, report, depthOf, fetches>>

StoreDocument(u) ==
  /\ mainAt # "exit" /\ tasks[u] = "fetching"
  /\ tasks' = [tasks EXCEPT ![u] = "stored"]
  /\ documents' = Append(documents, u)
  /\ UNCHANGED <<mainVars, visited, toVisit, counted, failed>>

CountPage(u) ==
  /\ mainAt # "exit" /\ tasks[u] = "stored"
  /\ tasks' = [tasks EXCEPT ![u] = "counted"]
  /\ counted' = counted + 1
  /\ UNCHANGED <<mainVars, visited, toVisit, documents, failed>>

\* Under the locks of the queue and of the visited set.
QueueLinks(u) ==
  /\ mainAt # "exit" /\ tasks[u] = "counted"
  /\ tasks' = [tasks EXCEPT ![u] = "none"]
  /\ \E found \in Entries(LinksOf[u] \ visited, depthOf[u] + 1) : toVisit' = toVisit \o found
  /\ visited' = visited \cup LinksOf[u]
  /\ UNCHANGED <<mainVars, documents, counted, failed>>

TaskFails(u) ==
  /\ mainAt # "exit" /\ tasks[u] = "fetching"
  /\ tasks' = [tasks EXCEPT ![u] = "none"] /\ failed' = failed + 1
  /\ UNCHANGED <<mainVars, visited, toVisit, documents, counted>>

LocalNext ==
  \/ CheckPages \/ PopUrl \/ PopNothing \/ EndPause \/ SpawnTask \/ CopyDocuments \/ WriteReport
  \/ \E u \in Sites : StoreDocument(u) \/ CountPage(u) \/ QueueLinks(u) \/ TaskFails(u)

LocalSpec == LocalInit /\ [][LocalNext]_localVars

-----------------------------------------------------------------------------

LocalTypeOK ==
  /\ visited \subseteq Sites /\ toVisit \in Seq([url : Sites, depth : Nat])
  /\ popped \in Sites \cup {NoUrl}
  /\ mainAt \in {"check", "pop", "permit", "pause", "settle", "report", "exit"}
  /\ tasks \in [Sites -> TaskPlaces] /\ depthOf \in [Sites -> Nat]
  /\ documents \in Seq(Sites) /\ counted \in Nat /\ failed \in Nat
  /\ report \in [documents : Seq(Sites), pages : Nat]
  /\ fetches \in [Sites -> Nat]

\* However tasks and main loop interleave, a URL is fetched once, never more
\* are under way than --concurrency, the documents exceed max_pages by no more
\* than the tasks that were under way at the last check, and the report, which
\* is made while tasks go on, counts pages that differ from its documents by no
\* more than those.  (local.rs: the page check, the permit and the two locks are
\* all apart, and so are the copies of the documents and of the counter.)
LocalBudget ==
  /\ \A u \in Sites : fetches[u] <= 1
  /\ Cardinality(Active) <= LocalPermits
  /\ Len(documents) <= LocalPages + LocalPermits
  /\ mainAt = "exit" =>
       /\ report.pages <= Len(report.documents) + LocalPermits
       /\ Len(report.documents) <= report.pages + LocalPermits

=============================================================================
