--------------------------- MODULE FrontierMemory ---------------------------
(***************************************************************************)
(* What the frontier service remembers of pages across jobs, in memory:    *)
(* when and with what content they were crawled (history.rs), which makes  *)
(* it skip URLs that are too fresh (recrawl.rs), and how they are linked   *)
(* (linkgraph.rs), which makes it prefer some.  Workers publish what they  *)
(* crawled and found; a consumer each records it                           *)
(* (bins/scrapix-frontier-service/src/lib.rs).                             *)
(*                                                                         *)
(* Abstractions.  Each topic has one partition.  Both consumers commit a   *)
(* message before they record it.  The clock is finer than any two records *)
(* are apart.  Scores, which are numbers between 0 and 1 computed from the *)
(* links, are left out, and so are response headers.                       *)
(*                                                                         *)
(* The second part of the module is simhash.rs: pages whose fingerprints   *)
(* differ in few bits are near duplicates.  The detector compares a page   *)
(* with the pages before it; the clusterer groups a batch of pages with a  *)
(* union-find over all pairs.  Both are given the same documents.  A       *)
(* fingerprint is the set of its bits that are one; the detector holds the *)
(* lock of its statistics throughout, so a check and the addition after it *)
(* are one step.                                                           *)
(***************************************************************************)
EXTENDS Integers, Sequences, FiniteSets, FiniteSetsExt

CONSTANTS
  KnownUrls,                             \* URLs that are offered and linked
  Bodies,                                \* contents, by their hashes
  NoVisit,                               \* no record
  HistorySize,                           \* UrlHistoryConfig::max_entries
  GraphSize,                             \* LinkGraphConfig::max_pages, 0 for unlimited
  FirstInterval, LeastInterval, MostInterval, \* recrawl intervals
  MinAge, MaxAge, ForceAge,              \* RecrawlConfig; 0 for no ForceAge
  MaxLinks,                              \* bound: links of a page
  MaxVisits, MaxQueue, MaxNow            \* bounds

Visit == [at : Nat, body : Bodies, interval : Nat]

ASSUME FrontierMemoryAssumption ==
  /\ IsFiniteSet(KnownUrls) /\ NoVisit \notin Visit
  /\ HistorySize \in Nat \ {0} /\ GraphSize \in Nat
  /\ LeastInterval \in Nat /\ FirstInterval \in LeastInterval .. MostInterval
  /\ MostInterval \in Nat /\ MinAge \in Nat /\ MaxAge \in Nat /\ ForceAge \in Nat
  /\ MaxLinks \in Nat /\ MaxVisits \in Nat /\ MaxQueue \in Nat /\ MaxNow \in Nat

VARIABLES
  visits,     \* records: url -> NoVisit, or time, content and interval
  historyTopic,  \* CRAWL_HISTORY
  linksTopic,    \* LINKS
  outbound,   \* pages of the graph: url -> where it links to
  inbound,    \* url -> what links to it
  now,
  accepted,   \* URLs that were accepted and not crawled yet
  latest,     \* history: url -> when it was last recorded, 0 for never
  visitCount

memoryVars == <<visits, historyTopic, linksTopic, outbound, inbound, now, accepted, latest,
                visitCount>>

Known == {u \in KnownUrls : visits[u] # NoVisit}

NoPages == [u \in {} |-> {}]

MemoryInit ==
  /\ visits = [u \in KnownUrls |-> NoVisit]
  /\ historyTopic = <<>> /\ linksTopic = <<>>
  /\ outbound = NoPages /\ inbound = NoPages
  /\ now = 0 /\ accepted = {} /\ latest = [u \in KnownUrls |-> 0] /\ visitCount = 0

-----------------------------------------------------------------------------
(* Decisions                                                               *)

\* evaluate_existing_record
IsDue(visit) ==
  LET age == now - visit.at
  IN  /\ age >= MinAge
      /\ \/ ForceAge > 0 /\ age >= ForceAge
         \/ age >= MaxAge
         \/ age >= visit.interval

\* should_crawl: a URL without a record is crawled, another if it is due.  One
\* that is skipped is forgotten, whichever job sent it.
Offer(u) ==
  /\ u \notin accepted /\ visitCount < MaxVisits
  /\ visits[u] # NoVisit => IsDue(visits[u])
  /\ accepted' = accepted \cup {u} /\ visitCount' = visitCount + 1
  /\ UNCHANGED <<visits, historyTopic, linksTopic, outbound, inbound, now, latest>>

\* The page is crawled: its links are published by one worker and its history by
\* another; each may fail, which is only logged.
PageCrawled(u) ==
  /\ u \in accepted /\ accepted' = accepted \ {u}
  /\ Len(historyTopic) < MaxQueue /\ Len(linksTopic) < MaxQueue
  /\ \/ \E body \in Bodies : historyTopic' = Append(historyTopic, [url |-> u, body |-> body])
     \/ UNCHANGED historyTopic
  /\ \/ \E links \in SUBSET KnownUrls :
          /\ Cardinality(links) \in 1 .. MaxLinks
          /\ linksTopic' = Append(linksTopic, [source |-> u, targets |-> links])
     \/ UNCHANGED linksTopic
  /\ UNCHANGED <<visits, outbound, inbound, now, latest, visitCount>>

-----------------------------------------------------------------------------
(* History                                                                 *)

\* What there is no room for.
Evicted_Mutant(u) ==
  IF Cardinality(Known) >= HistorySize /\ u \notin Known
  THEN {CHOOSE v \in Known : \A w \in Known : visits[v].at >= visits[w].at} ELSE {}

Evicted(u) ==
  IF Cardinality(Known) >= HistorySize /\ u \notin Known
  THEN {CHOOSE v \in Known : \A w \in Known : visits[v].at <= visits[w].at} ELSE {}

\* Half the interval for a page that changed, half as much again for another.
NextInterval(visit, body) ==
  IF body # visit.body
  THEN Max({visit.interval \div 2, LeastInterval})
  ELSE Min({(visit.interval * 3) \div 2, MostInterval})

\* The time is that of the record, not that of the crawl.
RecordCrawl ==
  /\ historyTopic # <<>> /\ now < MaxNow
  /\ now' = now + 1 /\ historyTopic' = Tail(historyTopic)
  /\ LET u == Head(historyTopic).url
         body == Head(historyTopic).body
     IN  /\ visits' = [v \in KnownUrls |->
               IF v = u
               THEN [at |-> now', body |-> body,
                     interval |-> IF u \in Known THEN NextInterval(visits[u], body)
                                  ELSE FirstInterval]
               ELSE IF v \in Evicted(u) THEN NoVisit ELSE visits[v]]
         /\ latest' = [latest EXCEPT ![u] = now']
  /\ UNCHANGED <<linksTopic, outbound, inbound, accepted, visitCount>>

-----------------------------------------------------------------------------
(* Links                                                                   *)

Tracked == DOMAIN outbound

\* record_links: at the limit only pages that are tracked get new links, and may
\* even get them from a page that is not.
RecordLinks ==
  /\ linksTopic # <<>> /\ linksTopic' = Tail(linksTopic)
  /\ LET source  == Head(linksTopic).source
         full    == GraphSize > 0 /\ Cardinality(Tracked) >= GraphSize
         links   == Head(linksTopic).targets \ {source}
         targets == IF full THEN links \cap Tracked ELSE links
         pages   == IF full THEN Tracked ELSE Tracked \cup {source} \cup targets
         Old(graph, p) == IF p \in Tracked THEN graph[p] ELSE {}
     IN  /\ outbound' = [p \in pages |->
               Old(outbound, p) \cup (IF p = source THEN targets ELSE {})]
         /\ inbound' = [p \in pages |->
               Old(inbound, p) \cup (IF p \in targets THEN {source} ELSE {})]
  /\ UNCHANGED <<visits, historyTopic, now, accepted, latest, visitCount>>

PassNow ==
  /\ now < MaxNow /\ now' = now + 1
  /\ UNCHANGED <<visits, historyTopic, linksTopic, outbound, inbound, accepted, latest, visitCount>>

\* Nothing of it is stored.
RestartFrontier ==
  /\ visits' = [u \in KnownUrls |-> NoVisit]
  /\ outbound' = NoPages /\ inbound' = NoPages /\ latest' = [u \in KnownUrls |-> 0]
  /\ UNCHANGED <<historyTopic, linksTopic, now, accepted, visitCount>>

MemoryNext ==
  \/ RecordCrawl \/ RecordLinks \/ PassNow \/ RestartFrontier
  \/ \E u \in KnownUrls : Offer(u) \/ PageCrawled(u)

MemorySpec == MemoryInit /\ [][MemoryNext]_memoryVars

-----------------------------------------------------------------------------

MemoryTypeOK ==
  /\ visits \in [KnownUrls -> Visit \cup {NoVisit}]
  /\ historyTopic \in Seq([url : KnownUrls, body : Bodies])
  /\ linksTopic \in Seq([source : KnownUrls, targets : SUBSET KnownUrls])
  /\ Tracked \subseteq KnownUrls /\ DOMAIN inbound = Tracked
  /\ \A p \in Tracked : outbound[p] \subseteq KnownUrls /\ inbound[p] \subseteq KnownUrls
  /\ now \in Nat /\ accepted \subseteq KnownUrls /\ latest \in [KnownUrls -> Nat]
  /\ visitCount \in Nat

\* The URLs that were crawled last.
Latest(n) ==
  {u \in KnownUrls :
     latest[u] > 0 /\ Cardinality({v \in KnownUrls : latest[v] > latest[u]}) < n}

\* However crawls of many jobs follow one another, the history has exactly the
\* pages that were crawled last, as many as it may hold, with intervals within
\* their bounds; and the graph is the same in both directions between pages it
\* tracks, which exceed its limit by no more than one page's links.
FrontierRemembers ==
  /\ Known = Latest(HistorySize)
  /\ \A u \in Known : visits[u].interval \in LeastInterval .. MostInterval
  /\ \A p, q \in Tracked : q \in outbound[p] <=> p \in inbound[q]
  /\ \A p \in Tracked : outbound[p] \subseteq Tracked
  /\ GraphSize > 0 => Cardinality(Tracked) <= GraphSize + MaxLinks

-----------------------------------------------------------------------------
(* Near duplicates                                                         *)

CONSTANTS
  Bits,      \* bits of a fingerprint
  Distance,  \* simhash_threshold
  BatchDocs  \* documents of a batch

ASSUME NearDuplicatesAssumption ==
  /\ IsFiniteSet(Bits) /\ Distance \in Nat /\ BatchDocs \in Nat \ {0}

VARIABLES
  prints,    \* document -> its fingerprint
  parent,    \* the union-find forest
  rank,
  pair,      \* the pair of documents that is compared next, <<n, n + 1>> at the end
  kept,      \* documents whose fingerprints the detector keeps
  checks     \* documents_checked

nearVars == <<prints, parent, rank, pair, kept, checks>>

Docs == 1 .. BatchDocs

Differ(f, g) == Cardinality((f \ g) \cup (g \ f))

Alike(f, g) == Differ(f, g) <= Distance

NearInit ==
  /\ prints \in [Docs -> SUBSET Bits]
  /\ parent = [d \in Docs |-> d] /\ rank = [d \in Docs |-> 0]
  /\ pair = <<1, 2>>
  /\ kept = {} /\ checks = 0

-----------------------------------------------------------------------------
(* The clusterer                                                           *)

\* The documents on the way from d to the root of its tree.
PathOf(d) ==
  LET up[n \in 0 .. BatchDocs] == IF n = 0 THEN d ELSE parent[up[n - 1]]
  IN  {up[n] : n \in 0 .. BatchDocs}

RootOf(d) == CHOOSE r \in PathOf(d) : parent[r] = r

\* find, with the compression of the path.
Compressed(ds) ==
  [d \in Docs |-> IF \E e \in ds : d \in PathOf(e) THEN RootOf(d) ELSE parent[d]]

NextPair == IF pair[2] < BatchDocs THEN <<pair[1], pair[2] + 1>> ELSE <<pair[1] + 1, pair[1] + 2>>

\* The roots are joined whatever their ranks, and one way only if they differ.
ComparePair_Mutant ==
  /\ pair[2] <= BatchDocs /\ pair' = NextPair
  /\ IF Alike(prints[pair[1]], prints[pair[2]])
     THEN parent' = [parent EXCEPT ![pair[2]] = RootOf(pair[1])]
     ELSE UNCHANGED parent
  /\ UNCHANGED <<prints, rank, kept, checks>>

ComparePair ==
  /\ pair[2] <= BatchDocs /\ pair' = NextPair
  /\ LET p == RootOf(pair[1])
         q == RootOf(pair[2])
         flat == Compressed({pair[1], pair[2]})
     IN  IF ~Alike(prints[pair[1]], prints[pair[2]])
         THEN UNCHANGED <<parent, rank>>
         ELSE IF p = q THEN parent' = flat /\ UNCHANGED rank
         ELSE IF rank[p] < rank[q]
              THEN parent' = [flat EXCEPT ![p] = q] /\ UNCHANGED rank
              ELSE /\ parent' = [flat EXCEPT ![q] = p]
                   /\ rank' = IF rank[p] = rank[q] THEN [rank EXCEPT ![p] = @ + 1] ELSE rank
  /\ UNCHANGED <<prints, kept, checks>>

-----------------------------------------------------------------------------
(* The detector                                                            *)

\* An empty fingerprint is like no other.
Matches(d, e) == prints[d] # {} /\ prints[e] # {} /\ Alike(prints[d], prints[e])

\* check_and_add, which looks at no limit of fingerprints.
CheckAndAdd ==
  /\ checks < BatchDocs /\ checks' = checks + 1
  /\ kept' = IF \E d \in kept : Matches(d, checks') THEN kept ELSE kept \cup {checks'}
  /\ UNCHANGED <<prints, parent, rank, pair>>

NearNext == ComparePair \/ CheckAndAdd

NearSpec == NearInit /\ [][NearNext]_nearVars

-----------------------------------------------------------------------------

NearTypeOK ==
  /\ prints \in [Docs -> SUBSET Bits]
  /\ parent \in [Docs -> Docs] /\ rank \in [Docs -> Nat]
  /\ pair \in (1 .. BatchDocs + 1) \X (1 .. BatchDocs + 2)
  /\ kept \subseteq Docs /\ checks \in 0 .. BatchDocs

\* The documents that chains of similar ones lead to from d.
ComponentOf(d) ==
  LET near[n \in Nat] ==
        IF n = 0 THEN {d}
        ELSE {e \in Docs : \E c \in near[n - 1] : Alike(prints[c], prints[e])}
  IN  near[BatchDocs]

\* When all pairs were compared two documents are in one cluster exactly if a
\* chain of similar documents leads from one to the other; and the documents the
\* detector keeps are apart and cover those it checked.  (cluster: path
\* compression and union by rank must not lose or add a connection.)
DuplicatesAreFound ==
  /\ pair[2] > BatchDocs =>
       \A d, e \in Docs : RootOf(d) = RootOf(e) <=> e \in ComponentOf(d)
  /\ \A d, e \in kept : Matches(d, e) => d = e
  /\ \A d \in 1 .. checks : d \in kept \/ \E e \in kept : Matches(d, e)

=============================================================================
