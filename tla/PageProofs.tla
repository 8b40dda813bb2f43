----------------------------- MODULE PageProofs -----------------------------
(***************************************************************************)
(* The invariants of what searches for pages, remembers them and reads     *)
(* them, for any number of URLs, pages, sitemaps, blocks and documents.    *)
(* HandlerProofs makes theorems of them.                                   *)
(*                                                                         *)
(* LocalCrawl, FrontierMemory: a URL is in the queue, with the main loop   *)
(* or fetched; a page that was forgotten is older than all that are known. *)
(*                                                                         *)
(* SiteMapping: what was found lies within the level, and as long as       *)
(* nothing failed the levels before are complete, so a search that ends    *)
(* because nothing is new has found every page there is.                   *)
(*                                                                         *)
(* LinkSelection: what a glob pattern means is found by a scan that takes  *)
(* each piece between two stars where it occurs first.  By induction over  *)
(* the pattern the scan is never behind a way to match it.                 *)
(*                                                                         *)
(* FrontierMemory, near duplicates: links lead to greater ranks, so the    *)
(* trees of the clusters have no cycle, and two documents are in one tree  *)
(* if and only if pairs that were compared and matched lead from one to    *)
(* the other.                                                              *)
(*                                                                         *)
(* PageDocuments: every page that was taken is held by its documents, or   *)
(* a page with its text is; each block is what the page has between two    *)
(* headings that cut it, as far as the page was traversed.                 *)
(*                                                                         *)
(* AiAnswers: what is parsed is a part of the reply that is one value, or  *)
(* the reply between what the code cuts off, and each is read as said.     *)
(***************************************************************************)
EXTENDS SiteMapping, LocalCrawl, FrontierMemory, LinkSelection, PageDocuments, AiAnswers,
        FoldLemmas, FiniteSetTheorems, SequenceTheorems, TLAPS

-----------------------------------------------------------------------------
(* LocalCrawl: a crawl of the command line.                                *)

Queued == [url : Sites, depth : Nat]

Running == {u \in Sites : tasks[u] \in {"fetching", "stored"}}

Stored == {u \in Sites : tasks[u] = "stored"}

\* A URL is visited before it is in the queue or with the main loop, is in one
\* of them once, and is fetched after it left them.
EachUrlHasOnePlace ==
  /\ \A i, j \in 1 .. Len(toVisit) : i # j => toVisit[i].url # toVisit[j].url
  /\ \A i \in 1 .. Len(toVisit) :
       toVisit[i].url \in visited /\ fetches[toVisit[i].url] = 0 /\ toVisit[i].url # popped
  /\ mainAt = "permit" <=> popped # NoUrl
  /\ popped # NoUrl => popped \in visited /\ fetches[popped] = 0
  /\ \A u \in Sites : /\ fetches[u] <= 1
                      /\ tasks[u] # "none" => fetches[u] = 1
                      /\ fetches[u] = 1 => u \in visited

\* The pages that are counted, or may still be, exceed the limit by no more than
\* there are permits, by less while another one is taken.
PagesAreCounted ==
  /\ Cardinality(Active) <= LocalPermits
  /\ Len(documents) = counted + Cardinality(Stored)
  /\ counted + Cardinality(Running) <= LocalPages + LocalPermits
  /\ mainAt \in {"pop", "permit"} =>
       counted + Cardinality(Running) < LocalPages + LocalPermits

\* Between the copies for the report no task starts, and those under way were so
\* when the documents were copied.
ReportIsClose ==
  /\ mainAt = "report" =>
       /\ counted + Cardinality(Running) <= Len(report.documents) + LocalPermits
       /\ Len(report.documents) <= counted + LocalPermits
  /\ mainAt = "exit" =>
       /\ report.pages <= Len(report.documents) + LocalPermits
       /\ Len(report.documents) <= report.pages + LocalPermits

LocalInv == LocalTypeOK /\ EachUrlHasOnePlace /\ PagesAreCounted /\ ReportIsClose

LEMMA TasksAreFinite ==
  /\ IsFiniteSet(Active) /\ IsFiniteSet(Running) /\ IsFiniteSet(Stored)
  /\ Cardinality(Active) \in Nat /\ Cardinality(Running) \in Nat /\ Cardinality(Stored) \in Nat
  /\ Cardinality(Running) <= Cardinality(Active)
  /\ Cardinality(Stored) <= Cardinality(Running)
<1>1. Stored \subseteq Running /\ Running \subseteq Active /\ Active \subseteq Sites
  BY DEF Stored, Running, Active
<1>2. IsFiniteSet(Active) /\ IsFiniteSet(Running) /\ IsFiniteSet(Stored)
  BY <1>1, LocalAssumption, FS_Subset
<1> QED
  BY <1>1, <1>2, FS_Subset, FS_CardinalityType

LEMMA TasksAreFiniteNext ==
  /\ IsFiniteSet(Active') /\ IsFiniteSet(Running') /\ IsFiniteSet(Stored')
  /\ Cardinality(Active') \in Nat /\ Cardinality(Running') \in Nat /\ Cardinality(Stored') \in Nat
  /\ Cardinality(Running') <= Cardinality(Active')
  /\ Cardinality(Stored') <= Cardinality(Running')
<1>1. Stored' \subseteq Running' /\ Running' \subseteq Active' /\ Active' \subseteq Sites
  BY DEF Stored, Running, Active
<1>2. IsFiniteSet(Active') /\ IsFiniteSet(Running') /\ IsFiniteSet(Stored')
  BY <1>1, LocalAssumption, FS_Subset
<1> QED
  BY <1>1, <1>2, FS_Subset, FS_CardinalityType

\* URLs in some order: each of them once.
LEMMA EntriesAreDistinct ==
  ASSUME NEW urls \in SUBSET Sites, NEW depth \in Nat, NEW e \in Entries(urls, depth)
  PROVE  /\ e \in Seq(Queued)
         /\ \A i \in 1 .. Len(e) : e[i].url \in urls
         /\ \A i, j \in 1 .. Len(e) : i # j => e[i].url # e[j].url
<1>1. PICK order \in SetToSeqs(urls) :
        e = [i \in DOMAIN order |-> [url |-> order[i], depth |-> depth]]
  BY DEF Entries
<1>2. Cardinality(urls) \in Nat
  BY LocalAssumption, FS_Subset, FS_CardinalityType
<1>3. /\ order \in [1 .. Cardinality(urls) -> urls]
      /\ \A i, j \in 1 .. Cardinality(urls) : i # j => order[i] # order[j]
  BY DEF SetToSeqs
<1>4. e \in [1 .. Cardinality(urls) -> Queued]
  BY <1>1, <1>3 DEF Queued
<1>5. e \in Seq(Queued) /\ Len(e) = Cardinality(urls)
  BY <1>2, <1>4
<1> QED
  BY <1>1, <1>3, <1>5

LEMMA LocalInvInit == LocalInit => LocalInv
<1> SUFFICES ASSUME LocalInit PROVE LocalInv
  OBVIOUS
<1>1. /\ toVisit \in Seq(Queued)
      /\ \A i \in 1 .. Len(toVisit) : toVisit[i].url \in Starts
      /\ \A i, j \in 1 .. Len(toVisit) : i # j => toVisit[i].url # toVisit[j].url
  BY EntriesAreDistinct, LocalAssumption DEF LocalInit
<1>2. /\ tasks \in [Sites -> TaskPlaces] /\ depthOf \in [Sites -> Nat] /\ fetches \in [Sites -> Nat]
      /\ documents \in Seq(Sites) /\ Len(documents) = 0
      /\ report \in [documents : Seq(Sites), pages : Nat]
  BY DEF LocalInit, TaskPlaces
<1>3. LocalTypeOK
  BY <1>1, <1>2, LocalAssumption DEF LocalInit, LocalTypeOK, Queued
<1>4. EachUrlHasOnePlace
  BY <1>1, <1>2, LocalAssumption DEF LocalInit, EachUrlHasOnePlace
<1>5. Active = {} /\ Running = {} /\ Stored = {}
  BY DEF LocalInit, Active, Running, Stored
<1>6. Cardinality(Active) = 0 /\ Cardinality(Running) = 0 /\ Cardinality(Stored) = 0
  BY <1>5, FS_EmptySet
<1>7. PagesAreCounted /\ ReportIsClose
  BY <1>2, <1>6, LocalAssumption DEF LocalInit, PagesAreCounted, ReportIsClose
<1> QED
  BY <1>3, <1>4, <1>7 DEF LocalInv

LEMMA MainLoopKeeps ==
  ASSUME LocalInv,
         \/ CheckPages \/ PopUrl \/ PopNothing \/ EndPause \/ CopyDocuments \/ WriteReport
         \/ UNCHANGED localVars
  PROVE  LocalInv'
<1> USE DEF LocalInv
<1>0. LocalPages \in Nat /\ LocalPermits \in Nat /\ NoUrl \notin Sites
  BY LocalAssumption
<1>1. UNCHANGED <<visited, tasks, documents, counted, failed, fetches>>
  BY DEF CheckPages, PopUrl, PopNothing, EndPause, CopyDocuments, WriteReport, localVars, tasksVars
<1>2. Active' = Active /\ Running' = Running /\ Stored' = Stored
  BY <1>1 DEF Active, Running, Stored
<1>3. CASE PopUrl
  <2>1. /\ toVisit \in Seq(Queued) /\ toVisit # <<>> /\ toVisit' = Tail(toVisit) /\ mainAt = "pop"
        /\ Head(toVisit) = toVisit[1] /\ toVisit[1] \in Queued
    <3>1. toVisit \in Seq(Queued)
      BY DEF LocalTypeOK, Queued
    <3>2. toVisit # <<>> /\ toVisit' = Tail(toVisit) /\ mainAt = "pop"
      BY <1>3 DEF PopUrl
    <3> QED
      BY <3>1, <3>2
  <2>2. /\ toVisit' \in Seq(Queued) /\ Len(toVisit') = Len(toVisit) - 1 /\ Len(toVisit) \in Nat
        /\ \A i \in 1 .. Len(toVisit') : toVisit'[i] = toVisit[i + 1] /\ i + 1 \in 1 .. Len(toVisit)
        /\ 1 \in 1 .. Len(toVisit)
    BY <2>1
  <2>3. toVisit[1].url \in Sites /\ toVisit[1].depth \in Nat
    BY <2>1 DEF Queued
  <2>4. CASE Head(toVisit).depth > LocalDepth
    <3>1. mainAt' = "check" /\ UNCHANGED <<popped, depthOf, report>>
      BY <1>3, <2>4 DEF PopUrl
    <3>2. LocalTypeOK'
      BY <1>1, <2>2, <3>1 DEF LocalTypeOK, Queued
    <3>3. EachUrlHasOnePlace'
      BY <1>1, <2>1, <2>2, <3>1 DEF EachUrlHasOnePlace
    <3> QED
      BY <1>1, <1>2, <3>1, <3>2, <3>3 DEF PagesAreCounted, ReportIsClose
  <2>5. CASE ~(Head(toVisit).depth > LocalDepth)
    <3>1. /\ mainAt' = "permit" /\ popped' = toVisit[1].url /\ UNCHANGED report
          /\ depthOf' = [depthOf EXCEPT ![toVisit[1].url] = toVisit[1].depth]
      BY <1>3, <2>1, <2>5 DEF PopUrl
    <3>2. LocalTypeOK'
      BY <1>1, <2>2, <2>3, <3>1 DEF LocalTypeOK, Queued
    <3>3. toVisit[1].url # NoUrl /\ toVisit[1].url \in visited /\ fetches[toVisit[1].url] = 0
      BY <1>0, <2>2, <2>3 DEF EachUrlHasOnePlace
    <3>4. \A i \in 1 .. Len(toVisit') : toVisit'[i].url # toVisit[1].url
      <4> SUFFICES ASSUME NEW i \in 1 .. Len(toVisit') PROVE toVisit'[i].url # toVisit[1].url
        OBVIOUS
      <4>1. toVisit'[i] = toVisit[i + 1] /\ i + 1 \in 1 .. Len(toVisit) /\ i + 1 # 1
        BY <2>2
      <4> QED
        BY <2>2, <4>1 DEF EachUrlHasOnePlace
    <3>5. \A i, j \in 1 .. Len(toVisit') : i # j => toVisit'[i].url # toVisit'[j].url
      <4> SUFFICES ASSUME NEW i \in 1 .. Len(toVisit'), NEW j \in 1 .. Len(toVisit'), i # j
                   PROVE  toVisit'[i].url # toVisit'[j].url
        OBVIOUS
      <4>1. /\ toVisit'[i] = toVisit[i + 1] /\ i + 1 \in 1 .. Len(toVisit)
            /\ toVisit'[j] = toVisit[j + 1] /\ j + 1 \in 1 .. Len(toVisit)
        BY <2>2
      <4>2. i + 1 # j + 1
        OBVIOUS
      <4> QED
        BY <4>1, <4>2 DEF EachUrlHasOnePlace
    <3>6. \A i \in 1 .. Len(toVisit') :
            toVisit'[i].url \in visited /\ fetches[toVisit'[i].url] = 0
      <4> SUFFICES ASSUME NEW i \in 1 .. Len(toVisit')
                   PROVE  toVisit'[i].url \in visited /\ fetches[toVisit'[i].url] = 0
        OBVIOUS
      <4>1. toVisit'[i] = toVisit[i + 1] /\ i + 1 \in 1 .. Len(toVisit)
        BY <2>2
      <4> QED
        BY <4>1 DEF EachUrlHasOnePlace
    <3>7. EachUrlHasOnePlace'
      BY <1>1, <3>1, <3>3, <3>4, <3>5, <3>6 DEF EachUrlHasOnePlace
    <3> QED
      BY <1>1, <1>2, <2>1, <3>1, <3>2, <3>7 DEF PagesAreCounted, ReportIsClose
  <2> QED
    BY <2>4, <2>5
<1>4. CASE CheckPages
  <2>1. mainAt = "check" /\ mainAt' \in {"settle", "pop"} /\ UNCHANGED <<toVisit, popped, report, depthOf>>
    BY <1>4 DEF CheckPages, tasksVars
  <2>2. mainAt' = "pop" => counted < LocalPages
    BY <1>0, <1>4 DEF CheckPages, LocalTypeOK
  <2>3. LocalTypeOK' /\ EachUrlHasOnePlace'
    BY <1>1, <2>1 DEF LocalTypeOK, EachUrlHasOnePlace
  <2>4. PagesAreCounted'
    <3>1. mainAt' = "pop" => counted + Cardinality(Running) < LocalPages + LocalPermits
      BY <1>0, <2>2, TasksAreFinite DEF PagesAreCounted, LocalTypeOK
    <3> QED
      BY <1>1, <1>2, <2>1, <3>1 DEF PagesAreCounted
  <2> QED
    BY <2>1, <2>3, <2>4 DEF ReportIsClose
<1>5. CASE PopNothing \/ EndPause
  <2>1. /\ mainAt \in {"pop", "pause"} /\ mainAt' \in {"pause", "settle", "check"}
        /\ UNCHANGED <<toVisit, popped, report, depthOf>>
    BY <1>5 DEF PopNothing, EndPause, tasksVars
  <2>2. LocalTypeOK' /\ EachUrlHasOnePlace'
    BY <1>1, <2>1 DEF LocalTypeOK, EachUrlHasOnePlace
  <2> QED
    BY <1>1, <1>2, <2>1, <2>2 DEF PagesAreCounted, ReportIsClose
<1>6. CASE CopyDocuments
  <2>1. /\ mainAt = "settle" /\ mainAt' = "report" /\ UNCHANGED <<toVisit, popped, depthOf>>
        /\ report' = [report EXCEPT !.documents = documents]
    BY <1>6 DEF CopyDocuments, tasksVars
  <2>2. report' \in [documents : Seq(Sites), pages : Nat] /\ report'.documents = documents
    BY <2>1 DEF LocalTypeOK
  <2>3. LocalTypeOK' /\ EachUrlHasOnePlace' /\ PagesAreCounted'
    BY <1>1, <1>2, <2>1, <2>2 DEF LocalTypeOK, EachUrlHasOnePlace, PagesAreCounted
  <2>4. /\ counted + Cardinality(Running) <= Len(documents) + LocalPermits
        /\ Len(documents) <= counted + LocalPermits
    BY <1>0, TasksAreFinite DEF PagesAreCounted, LocalTypeOK
  <2> QED
    BY <1>1, <1>2, <2>1, <2>2, <2>3, <2>4 DEF ReportIsClose
<1>7. CASE WriteReport
  <2>1. /\ mainAt = "report" /\ mainAt' = "exit" /\ UNCHANGED <<toVisit, popped, depthOf>>
        /\ report' = [report EXCEPT !.pages = counted]
    BY <1>7 DEF WriteReport, tasksVars
  <2>2. /\ report' \in [documents : Seq(Sites), pages : Nat] /\ report'.pages = counted
        /\ report'.documents = report.documents
    BY <2>1 DEF LocalTypeOK
  <2>3. LocalTypeOK' /\ EachUrlHasOnePlace' /\ PagesAreCounted'
    BY <1>1, <1>2, <2>1, <2>2 DEF LocalTypeOK, EachUrlHasOnePlace, PagesAreCounted
  <2>4. /\ counted <= Len(report.documents) + LocalPermits
        /\ Len(report.documents) <= counted + LocalPermits
    <3>1. counted \in Nat /\ Len(report.documents) \in Nat
      BY DEF LocalTypeOK
    <3> QED
      BY <1>0, <2>1, <3>1, TasksAreFinite DEF ReportIsClose
  <2> QED
    BY <2>1, <2>2, <2>3, <2>4 DEF ReportIsClose
<1>8. CASE UNCHANGED localVars
  BY <1>2, <1>8 DEF localVars, LocalTypeOK, EachUrlHasOnePlace, PagesAreCounted, ReportIsClose
<1> QED
  BY <1>3, <1>4, <1>5, <1>6, <1>7, <1>8

LEMMA SpawnTaskKeeps ==
  ASSUME LocalInv, SpawnTask
  PROVE  LocalInv'
<1> USE DEF LocalInv
<1>0. LocalPages \in Nat /\ LocalPermits \in Nat /\ NoUrl \notin Sites
  BY LocalAssumption
<1>1. /\ mainAt = "permit" /\ mainAt' = "check" /\ popped' = NoUrl
      /\ Cardinality(Active) < LocalPermits
      /\ tasks' = [tasks EXCEPT ![popped] = "fetching"]
      /\ fetches' = [fetches EXCEPT ![popped] = fetches[popped] + 1]
      /\ UNCHANGED <<toVisit, report, visited, depthOf, documents, counted, failed>>
  BY DEF SpawnTask
<1>2. popped \in Sites /\ popped \in visited /\ fetches[popped] = 0 /\ tasks[popped] = "none"
  BY <1>1 DEF EachUrlHasOnePlace, LocalTypeOK
<1>3. LocalTypeOK'
  BY <1>1, <1>2 DEF LocalTypeOK, TaskPlaces
<1>4. /\ \A u \in Sites : fetches'[u] = (IF u = popped THEN 1 ELSE fetches[u])
      /\ \A u \in Sites : tasks'[u] = (IF u = popped THEN "fetching" ELSE tasks[u])
  BY <1>1, <1>2 DEF LocalTypeOK
<1>5. EachUrlHasOnePlace'
  <2>1. \A i \in 1 .. Len(toVisit) : /\ toVisit[i].url \in Sites /\ toVisit[i].url # popped
                                     /\ toVisit[i].url # NoUrl
    BY <1>0 DEF EachUrlHasOnePlace, LocalTypeOK
  <2> QED
    BY <1>1, <1>2, <1>4, <2>1 DEF EachUrlHasOnePlace
<1>6. /\ Active' \subseteq Active \cup {popped} /\ Running' \subseteq Running \cup {popped}
      /\ Stored' = Stored
  BY <1>2, <1>4 DEF Active, Running, Stored
<1>7. /\ Cardinality(Active') <= Cardinality(Active) + 1
      /\ Cardinality(Running') <= Cardinality(Running) + 1
  BY <1>6, TasksAreFinite, OneMore
<1>8. PagesAreCounted'
  <2>1. Cardinality(Active') <= LocalPermits
    BY <1>0, <1>1, <1>7, TasksAreFinite, TasksAreFiniteNext
  <2>2. counted + Cardinality(Running') <= LocalPages + LocalPermits
    <3>1. counted \in Nat /\ counted + Cardinality(Running) < LocalPages + LocalPermits
      BY <1>1 DEF PagesAreCounted, LocalTypeOK
    <3> QED
      BY <1>0, <1>7, <3>1, TasksAreFinite, TasksAreFiniteNext
  <2> QED
    BY <1>1, <1>6, <2>1, <2>2 DEF PagesAreCounted
<1>9. ReportIsClose'
  BY <1>1 DEF ReportIsClose
<1> QED
  BY <1>3, <1>5, <1>8, <1>9

\* A task goes on or ends: what it has done is a document, or a document and a page.
LEMMA TaskGoesOn ==
  ASSUME LocalInv, NEW u \in Sites, mainAt # "exit",
         StoreDocument(u) \/ CountPage(u) \/ QueueLinks(u) \/ TaskFails(u)
  PROVE  PagesAreCounted' /\ ReportIsClose'
<1> USE DEF LocalInv
<1>0. /\ LocalPages \in Nat /\ LocalPermits \in Nat /\ counted \in Nat
      /\ tasks \in [Sites -> TaskPlaces] /\ documents \in Seq(Sites) /\ UNCHANGED <<mainAt, report>>
      /\ Len(report.documents) \in Nat
  BY LocalAssumption DEF LocalTypeOK, StoreDocument, CountPage, QueueLinks, TaskFails, mainVars
<1>1. Active' \subseteq Active
  BY <1>0 DEF Active, StoreDocument, CountPage, QueueLinks, TaskFails
<1>2. Cardinality(Active') <= LocalPermits
  BY <1>0, <1>1, TasksAreFinite, TasksAreFiniteNext, FS_Subset DEF PagesAreCounted
<1>3. /\ Len(documents') = counted' + Cardinality(Stored')
      /\ counted' + Cardinality(Running') <= counted + Cardinality(Running)
      /\ counted' \in Nat /\ counted' >= counted
  <2>1. CASE StoreDocument(u)
    <3>1. /\ counted' = counted /\ Len(documents') = Len(documents) + 1
          /\ Running' \subseteq Running /\ Stored' = Stored \cup {u} /\ u \notin Stored
      BY <1>0, <2>1 DEF StoreDocument, Running, Stored
    <3>2. Cardinality(Stored') = Cardinality(Stored) + 1
      BY <3>1, TasksAreFinite, FS_AddElement
    <3>3. Cardinality(Running') <= Cardinality(Running)
      BY <3>1, TasksAreFinite, FS_Subset
    <3> QED
      BY <1>0, <3>1, <3>2, <3>3, TasksAreFinite, TasksAreFiniteNext DEF PagesAreCounted
  <2>2. CASE CountPage(u)
    <3>1. /\ counted' = counted + 1 /\ documents' = documents
          /\ Running' \subseteq Running \ {u} /\ u \in Running
          /\ Stored' = Stored \ {u} /\ u \in Stored
      BY <1>0, <2>2 DEF CountPage, Running, Stored
    <3>2. Cardinality(Stored') = Cardinality(Stored) - 1
      BY <3>1, TasksAreFinite, FS_RemoveElement
    <3>3. Cardinality(Running') <= Cardinality(Running) - 1
      BY <3>1, TasksAreFinite, OneLess
    <3> QED
      BY SMTT(40), <1>0, <3>1, <3>2, <3>3, TasksAreFinite, TasksAreFiniteNext DEF PagesAreCounted
  <2>3. CASE QueueLinks(u) \/ TaskFails(u)
    <3>1. /\ counted' = counted /\ documents' = documents
          /\ Running' \subseteq Running /\ Stored' = Stored
      BY <1>0, <2>3 DEF QueueLinks, TaskFails, Running, Stored
    <3>2. Cardinality(Running') <= Cardinality(Running)
      BY <3>1, TasksAreFinite, FS_Subset
    <3> QED
      BY <1>0, <3>1, <3>2, TasksAreFinite, TasksAreFiniteNext DEF PagesAreCounted
  <2> QED
    BY <2>1, <2>2, <2>3
<1>4. PagesAreCounted'
  <2> DEFINE before == counted + Cardinality(Running)
             after == counted' + Cardinality(Running')
  <2>1. before \in Nat /\ after \in Nat /\ after <= before
    BY <1>0, <1>3, TasksAreFinite, TasksAreFiniteNext
  <2>2. /\ before <= LocalPages + LocalPermits
        /\ mainAt \in {"pop", "permit"} => before < LocalPages + LocalPermits
    BY DEF PagesAreCounted
  <2> HIDE DEF before, after
  <2>3. /\ after <= LocalPages + LocalPermits
        /\ mainAt \in {"pop", "permit"} => after < LocalPages + LocalPermits
    BY <1>0, <2>1, <2>2
  <2>4. mainAt' = mainAt
    BY <1>0
  <2> QED
    BY <1>2, <1>3, <2>3, <2>4 DEF PagesAreCounted, after
<1>5. ReportIsClose'
  <2>1. mainAt' = mainAt /\ report' = report /\ mainAt # "exit"
    BY <1>0
  <2>2. ASSUME mainAt = "report"
        PROVE  /\ counted' + Cardinality(Running') <= Len(report.documents) + LocalPermits
               /\ Len(report.documents) <= counted' + LocalPermits
    <3>1. /\ counted + Cardinality(Running) <= Len(report.documents) + LocalPermits
          /\ Len(report.documents) <= counted + LocalPermits
      BY <2>2 DEF ReportIsClose
    <3> DEFINE before == counted + Cardinality(Running)
               after == counted' + Cardinality(Running')
               size == Len(report.documents)
    <3>2. /\ before \in Nat /\ after \in Nat /\ after <= before /\ before <= size + LocalPermits
          /\ size \in Nat
      BY SMTT(40), <1>0, <1>3, <3>1, TasksAreFinite, TasksAreFiniteNext
    <3>3. after <= size + LocalPermits
      <4> HIDE DEF before, after, size
      <4> QED
        BY <1>0, <3>2
    <3>4. Len(report.documents) <= counted' + LocalPermits
      BY <1>0, <1>3, <3>1
    <3> QED
      BY <3>3, <3>4
  <2> QED
    BY <2>1, <2>2 DEF ReportIsClose
<1> QED
  BY <1>4, <1>5

LEMMA TasksKeep ==
  ASSUME LocalInv, NEW u \in Sites,
         StoreDocument(u) \/ CountPage(u) \/ QueueLinks(u) \/ TaskFails(u)
  PROVE  LocalInv'
<1> USE DEF LocalInv
<1>0. /\ mainAt # "exit" /\ UNCHANGED <<popped, mainAt, report, depthOf, fetches>>
      /\ tasks \in [Sites -> TaskPlaces]
  BY DEF LocalTypeOK, StoreDocument, CountPage, QueueLinks, TaskFails, mainVars
<1>1. PagesAreCounted' /\ ReportIsClose'
  BY <1>0, TaskGoesOn
<1>2. tasks' \in [Sites -> TaskPlaces] /\ \A v \in Sites : tasks'[v] # "none" => tasks[v] # "none"
  BY <1>0 DEF TaskPlaces, StoreDocument, CountPage, QueueLinks, TaskFails
<1>3. CASE StoreDocument(u) \/ CountPage(u) \/ TaskFails(u)
  <2>1. UNCHANGED <<visited, toVisit>>
    BY <1>3 DEF StoreDocument, CountPage, TaskFails
  <2>2. documents' \in Seq(Sites) /\ counted' \in Nat /\ failed' \in Nat
    <3>1. documents \in Seq(Sites) /\ counted \in Nat /\ failed \in Nat
      BY DEF LocalTypeOK
    <3>2. CASE StoreDocument(u)
      BY <3>1, <3>2 DEF StoreDocument
    <3>3. CASE CountPage(u)
      BY <3>1, <3>3 DEF CountPage
    <3>4. CASE TaskFails(u)
      BY <3>1, <3>4 DEF TaskFails
    <3> QED
      BY <1>3, <3>2, <3>3, <3>4
  <2>3. LocalTypeOK'
    BY <1>0, <1>2, <2>1, <2>2 DEF LocalTypeOK
  <2>4. EachUrlHasOnePlace'
    BY <1>0, <1>2, <2>1 DEF EachUrlHasOnePlace
  <2> QED
    BY <1>1, <2>3, <2>4
<1>4. CASE QueueLinks(u)
  <2>1. LinksOf[u] \subseteq Sites /\ depthOf[u] + 1 \in Nat
    BY LocalAssumption DEF LocalTypeOK
  <2>2. PICK new \in Entries(LinksOf[u] \ visited, depthOf[u] + 1) : toVisit' = toVisit \o new
    BY <1>4 DEF QueueLinks
  <2>3. /\ new \in Seq(Queued)
        /\ \A i \in 1 .. Len(new) : new[i].url \in LinksOf[u] \ visited
        /\ \A i, j \in 1 .. Len(new) : i # j => new[i].url # new[j].url
    BY <2>1, EntriesAreDistinct
  <2>4. toVisit \in Seq(Queued) /\ toVisit' \in Seq(Queued)
    BY <2>2, <2>3 DEF LocalTypeOK, Queued
  <2>5. /\ Len(toVisit) \in Nat /\ Len(new) \in Nat /\ Len(toVisit') = Len(toVisit) + Len(new)
        /\ \A i \in 1 .. Len(toVisit') :
             toVisit'[i] = (IF i <= Len(toVisit) THEN toVisit[i] ELSE new[i - Len(toVisit)])
    BY <2>2, <2>3, <2>4
  <2> HIDE DEF Queued
  <2>6. visited' = visited \cup LinksOf[u] /\ UNCHANGED <<documents, counted, failed>>
    BY <1>4 DEF QueueLinks
  <2>7. LocalTypeOK'
    BY <1>0, <1>2, <2>1, <2>4, <2>6 DEF LocalTypeOK, Queued
  <2>8. \A i \in 1 .. Len(toVisit') :
          \/ /\ i \in 1 .. Len(toVisit) /\ toVisit'[i] = toVisit[i]
             /\ toVisit'[i].url \in visited
          \/ /\ i - Len(toVisit) \in 1 .. Len(new) /\ toVisit'[i] = new[i - Len(toVisit)]
             /\ toVisit'[i].url \in LinksOf[u] \ visited
    BY <2>3, <2>5 DEF EachUrlHasOnePlace
  <2>9. \A i, j \in 1 .. Len(toVisit') : i # j => toVisit'[i].url # toVisit'[j].url
    <3> SUFFICES ASSUME NEW i \in 1 .. Len(toVisit'), NEW j \in 1 .. Len(toVisit'), i # j
                 PROVE  toVisit'[i].url # toVisit'[j].url
      OBVIOUS
    <3>1. CASE i \in 1 .. Len(toVisit) /\ toVisit'[i] = toVisit[i] /\ toVisit'[i].url \in visited
      BY <2>8, <3>1 DEF EachUrlHasOnePlace
    <3>2. CASE /\ i - Len(toVisit) \in 1 .. Len(new) /\ toVisit'[i] = new[i - Len(toVisit)]
               /\ toVisit'[i].url \in LinksOf[u] \ visited
      <4>1. CASE toVisit'[j].url \in visited
        BY <3>2, <4>1
      <4>2. CASE j - Len(toVisit) \in 1 .. Len(new) /\ toVisit'[j] = new[j - Len(toVisit)]
        <5>1. i - Len(toVisit) # j - Len(toVisit)
          BY <2>5
        <5> QED
          BY <2>3, <3>2, <4>2, <5>1
      <4> QED
        BY <2>8, <4>1, <4>2
    <3> QED
      BY <2>8, <3>1, <3>2
  <2>10. \A i \in 1 .. Len(toVisit') :
           /\ toVisit'[i].url \in visited' /\ fetches[toVisit'[i].url] = 0
           /\ toVisit'[i].url # popped
    <3> SUFFICES ASSUME NEW i \in 1 .. Len(toVisit')
                 PROVE  /\ toVisit'[i].url \in visited' /\ fetches[toVisit'[i].url] = 0
                        /\ toVisit'[i].url # popped
      OBVIOUS
    <3>1. CASE i \in 1 .. Len(toVisit) /\ toVisit'[i] = toVisit[i]
      BY <2>6, <3>1 DEF EachUrlHasOnePlace
    <3>2. CASE toVisit'[i].url \in LinksOf[u] \ visited
      <4>1. toVisit'[i].url \in Sites /\ toVisit'[i].url # NoUrl
        BY <2>1, <3>2, LocalAssumption
      <4>2. fetches[toVisit'[i].url] \in Nat /\ fetches[toVisit'[i].url] <= 1
        BY <4>1 DEF LocalTypeOK, EachUrlHasOnePlace
      <4>3. fetches[toVisit'[i].url] # 1
        BY <3>2, <4>1 DEF EachUrlHasOnePlace
      <4> QED
        BY <2>6, <3>2, <4>1, <4>2, <4>3 DEF EachUrlHasOnePlace
    <3> QED
      BY <2>8, <3>1, <3>2
  <2>11. EachUrlHasOnePlace'
    BY <1>0, <1>2, <2>6, <2>9, <2>10 DEF EachUrlHasOnePlace
  <2> QED
    BY <1>1, <2>7, <2>11
<1> QED
  BY <1>3, <1>4

LEMMA LocalInvNext ==
  ASSUME LocalInv, [LocalNext]_localVars
  PROVE  LocalInv'
BY MainLoopKeeps, SpawnTaskKeeps, TasksKeep DEF LocalNext

LEMMA LocalInvHolds ==
  ASSUME LocalInv
  PROVE  LocalBudget
<1>1. Len(documents) <= LocalPages + LocalPermits
  BY TasksAreFinite, LocalAssumption DEF LocalInv, LocalTypeOK, PagesAreCounted
<1> QED
  BY <1>1 DEF LocalInv, LocalBudget, EachUrlHasOnePlace, PagesAreCounted, ReportIsClose

-----------------------------------------------------------------------------
(* FrontierMemory: what the frontier remembers of crawls and links.        *)

\* What waits in the topics.
HistoryMessage == [url : KnownUrls, body : Bodies]

LinksMessage ==
  {m \in [source : KnownUrls, targets : SUBSET KnownUrls] : Cardinality(m.targets) <= MaxLinks}

MemoryTypes ==
  /\ visits \in [KnownUrls -> Visit \cup {NoVisit}]
  /\ historyTopic \in Seq(HistoryMessage) /\ linksTopic \in Seq(LinksMessage)
  /\ now \in Nat /\ latest \in [KnownUrls -> Nat]

\* A record has the time at which its page was last recorded, and no two pages
\* were recorded at once.
RecordsAreTimed ==
  /\ \A u \in Known :
       visits[u].at = latest[u] /\ visits[u].interval \in LeastInterval .. MostInterval
  /\ \A u \in Known : latest[u] > 0
  /\ \A u \in KnownUrls : latest[u] <= now
  /\ \A u, v \in KnownUrls : latest[u] = latest[v] => u = v \/ latest[u] = 0

\* What was forgotten is older than what is known, and made room for it.  Of any
\* records one is the oldest.
OldestAreEvicted ==
  /\ Cardinality(Known) <= HistorySize
  /\ \A u \in Known : \A v \in KnownUrls \ Known : latest[v] < latest[u]
  /\ (\E v \in KnownUrls \ Known : latest[v] > 0) => Cardinality(Known) = HistorySize
  /\ \A S \in SUBSET Known : S # {} => \E v \in S : \A w \in S : latest[v] <= latest[w]

HasRoom == GraphSize = 0 \/ Cardinality(Tracked) < GraphSize

\* The graph has the same links in both directions; only once it is full has it
\* any from pages that it does not track.
GraphIsSymmetric ==
  /\ Tracked \subseteq KnownUrls /\ outbound = [p \in Tracked |-> outbound[p]]
  /\ DOMAIN inbound = Tracked
  /\ \A p \in Tracked : outbound[p] \subseteq Tracked
  /\ \A p, q \in Tracked : q \in outbound[p] <=> p \in inbound[q]
  /\ HasRoom => \A q \in Tracked : inbound[q] \subseteq Tracked
  /\ GraphSize > 0 => Cardinality(Tracked) <= GraphSize + MaxLinks

MemoryInv == MemoryTypes /\ RecordsAreTimed /\ OldestAreEvicted /\ GraphIsSymmetric

LEMMA MemoryInvInit == MemoryInit => MemoryInv
<1> SUFFICES ASSUME MemoryInit PROVE MemoryInv
  OBVIOUS
<1>1. MemoryTypes
  BY DEF MemoryInit, MemoryTypes
<1>2. Known = {} /\ Cardinality(Known) = 0
  BY FS_EmptySet DEF MemoryInit, Known
<1>3. RecordsAreTimed
  BY <1>2 DEF MemoryInit, RecordsAreTimed
<1>4. OldestAreEvicted
  BY <1>2, FrontierMemoryAssumption DEF MemoryInit, OldestAreEvicted
<1>5. Tracked = {} /\ DOMAIN inbound = {} /\ Cardinality(Tracked) = 0
  BY FS_EmptySet DEF MemoryInit, Tracked, NoPages
<1>6. GraphIsSymmetric
  <2>1. outbound = [p \in Tracked |-> outbound[p]]
    BY DEF MemoryInit, Tracked, NoPages
  <2> QED
    BY <1>5, <2>1, FrontierMemoryAssumption DEF GraphIsSymmetric
<1> QED
  BY <1>1, <1>3, <1>4, <1>6 DEF MemoryInv

LEMMA KnownIsFinite ==
  /\ IsFiniteSet(Known) /\ Cardinality(Known) \in Nat
  /\ Known \subseteq KnownUrls
BY FS_Subset, FS_CardinalityType, FrontierMemoryAssumption DEF Known

LEMMA KnownIsFiniteNext ==
  /\ IsFiniteSet(Known') /\ Cardinality(Known') \in Nat
  /\ Known' \subseteq KnownUrls
<1>1. Known' \subseteq KnownUrls
  BY DEF Known
<1> QED
  BY <1>1, FS_Subset, FS_CardinalityType, FrontierMemoryAssumption

\* A new interval is between the least and the most.
LEMMA IntervalsStayInBounds ==
  ASSUME NEW visit, NEW body, visit.interval \in LeastInterval .. MostInterval
  PROVE  NextInterval(visit, body) \in LeastInterval .. MostInterval
<1>1. LeastInterval \in Nat /\ MostInterval \in Nat
  BY FrontierMemoryAssumption
<1>2. \A x, y \in Nat : Max({x, y}) = (IF x >= y THEN x ELSE y)
  BY DEF Max
<1>3. \A x, y \in Nat : Min({x, y}) = (IF x <= y THEN x ELSE y)
  BY DEF Min
<1>4. visit.interval \div 2 \in Nat /\ visit.interval \div 2 <= visit.interval
  BY <1>1
<1>5. (visit.interval * 3) \div 2 \in Nat /\ (visit.interval * 3) \div 2 >= visit.interval
  BY <1>1
<1> QED
  BY <1>1, <1>2, <1>3, <1>4, <1>5 DEF NextInterval

\* The oldest record makes room, if there is none for a page without one.
LEMMA OldestMakesRoom ==
  ASSUME MemoryInv, NEW u \in KnownUrls
  PROVE  \/ Evicted(u) = {} /\ (u \in Known \/ Cardinality(Known) < HistorySize)
         \/ /\ u \notin Known /\ Cardinality(Known) = HistorySize
            /\ \E m \in Known : /\ Evicted(u) = {m}
                                /\ \A w \in Known \ {m} : latest[m] < latest[w]
<1>1. HistorySize \in Nat \ {0}
  BY FrontierMemoryAssumption
<1>2. CASE ~(Cardinality(Known) >= HistorySize /\ u \notin Known)
  BY <1>1, <1>2, KnownIsFinite DEF Evicted
<1>3. CASE Cardinality(Known) >= HistorySize /\ u \notin Known
  <2> DEFINE oldest == CHOOSE v \in Known : \A w \in Known : visits[v].at <= visits[w].at
  <2>1. Cardinality(Known) = HistorySize
    BY <1>1, <1>3, KnownIsFinite DEF MemoryInv, OldestAreEvicted
  <2>2. Known # {}
    BY <1>1, <2>1, FS_EmptySet
  <2>3. PICK v \in Known : \A w \in Known : latest[v] <= latest[w]
    BY <2>2 DEF MemoryInv, OldestAreEvicted
  <2>4. \A w \in Known : visits[v].at <= visits[w].at
    BY <2>3 DEF MemoryInv, RecordsAreTimed
  <2>5. oldest \in Known /\ \A w \in Known : visits[oldest].at <= visits[w].at
    BY <2>4
  <2>6. Evicted(u) = {oldest}
    BY <1>3 DEF Evicted
  <2> HIDE DEF oldest
  <2>7. \A w \in Known \ {oldest} : latest[oldest] < latest[w]
    <3> SUFFICES ASSUME NEW w \in Known \ {oldest} PROVE latest[oldest] < latest[w]
      OBVIOUS
    <3>1. latest[oldest] <= latest[w] /\ latest[w] > 0
      BY <2>5 DEF MemoryInv, RecordsAreTimed
    <3>2. latest[oldest] # latest[w]
      BY <2>5, <3>1, KnownIsFinite DEF MemoryInv, RecordsAreTimed
    <3>3. latest[oldest] \in Nat /\ latest[w] \in Nat
      BY <2>5, KnownIsFinite DEF MemoryInv, MemoryTypes
    <3> QED
      BY <3>1, <3>2, <3>3
  <2> QED
    BY <1>3, <2>1, <2>5, <2>6, <2>7
<1> QED
  BY <1>2, <1>3

LEMMA RecordCrawlKeeps ==
  ASSUME MemoryInv, RecordCrawl
  PROVE  MemoryInv'
<1> DEFINE u == Head(historyTopic).url
           body == Head(historyTopic).body
           Row == [at |-> now + 1, body |-> body,
                   interval |-> IF u \in Known THEN NextInterval(visits[u], body)
                                ELSE FirstInterval]
<1>1. /\ Head(historyTopic) \in HistoryMessage /\ historyTopic' = Tail(historyTopic)
      /\ historyTopic' \in Seq(HistoryMessage)
  BY DEF RecordCrawl, MemoryInv, MemoryTypes
<1>2. u \in KnownUrls /\ body \in Bodies
  BY <1>1 DEF HistoryMessage
<1>3. /\ now \in Nat /\ now' = now + 1 /\ now' \in Nat
      /\ latest' = [latest EXCEPT ![u] = now + 1]
      /\ visits' = [v \in KnownUrls |->
            IF v = u THEN Row ELSE IF v \in Evicted(u) THEN NoVisit ELSE visits[v]]
      /\ UNCHANGED <<linksTopic, outbound, inbound>>
  BY DEF RecordCrawl, MemoryInv, MemoryTypes
<1>4. Row \in Visit /\ Row.at = now + 1 /\ Row.interval \in LeastInterval .. MostInterval
  <2>1. FirstInterval \in LeastInterval .. MostInterval /\ LeastInterval \in Nat /\ MostInterval \in Nat
    BY FrontierMemoryAssumption
  <2>2. u \in Known => NextInterval(visits[u], body) \in LeastInterval .. MostInterval
    BY IntervalsStayInBounds DEF MemoryInv, RecordsAreTimed
  <2> QED
    BY <1>2, <1>3, <2>1, <2>2 DEF Visit
<1> HIDE DEF Row
<1>5. NoVisit \notin Visit
  BY FrontierMemoryAssumption
<1>6. Evicted(u) \subseteq Known \ {u}
  BY <1>2, OldestMakesRoom
<1> HIDE DEF u, body
<1>7. Known' = (Known \ Evicted(u)) \cup {u}
  BY <1>2, <1>3, <1>4, <1>5, <1>6 DEF Known
<1>8. \A v \in KnownUrls : latest'[v] = (IF v = u THEN now + 1 ELSE latest[v])
  BY <1>2, <1>3 DEF MemoryInv, MemoryTypes
<1>9. latest' \in [KnownUrls -> Nat] /\ latest \in [KnownUrls -> Nat]
  BY <1>2, <1>3 DEF MemoryInv, MemoryTypes
<1>10. \A v \in KnownUrls : latest[v] < now + 1
  BY <1>3, <1>9 DEF MemoryInv, RecordsAreTimed
<1>11. MemoryTypes'
  BY <1>1, <1>2, <1>3, <1>4, <1>9 DEF MemoryInv, MemoryTypes
<1>12. RecordsAreTimed'
  <2>1. \A v \in Known' : v # u => v \in Known /\ visits'[v] = visits[v] /\ latest'[v] = latest[v]
    BY <1>3, <1>7, <1>8, KnownIsFinite
  <2>2. visits'[u] = Row
    BY <1>2, <1>3
  <2>3. \A v \in Known' : /\ visits'[v].at = latest'[v] /\ latest'[v] > 0
                          /\ visits'[v].interval \in LeastInterval .. MostInterval
    <3> SUFFICES ASSUME NEW v \in Known'
                 PROVE  /\ visits'[v].at = latest'[v] /\ latest'[v] > 0
                        /\ visits'[v].interval \in LeastInterval .. MostInterval
      OBVIOUS
    <3>1. CASE v = u
      <4>1. latest'[u] = now + 1 /\ now + 1 > 0
        BY <1>2, <1>3, <1>8
      <4> QED
        BY <1>4, <2>2, <3>1, <4>1
    <3>2. CASE v # u
      BY <2>1, <3>2 DEF MemoryInv, RecordsAreTimed
    <3> QED
      BY <3>1, <3>2
  <2>4. \A v \in KnownUrls : latest'[v] <= now'
    BY <1>3, <1>8, <1>9, <1>10
  <2>5. \A v, w \in KnownUrls : latest'[v] = latest'[w] => v = w \/ latest'[v] = 0
    BY <1>3, <1>8, <1>9, <1>10 DEF MemoryInv, RecordsAreTimed
  <2> QED
    BY <2>3, <2>4, <2>5 DEF RecordsAreTimed
<1>13. OldestAreEvicted'
  <2>1. \A w \in Known' : w # u => w \in Known \ Evicted(u)
    BY <1>7
  <2>2. \A v \in KnownUrls \ Known' : v # u /\ (v \in Evicted(u) \/ v \notin Known)
    BY <1>7
  <2>3. \A w \in Known \ Evicted(u) : \A v \in Evicted(u) : latest[v] < latest[w]
    BY <1>2, OldestMakesRoom
  <2>4. \A w \in Known : \A v \in KnownUrls \ Known : latest[v] < latest[w]
    BY DEF MemoryInv, OldestAreEvicted
  <2>5. ASSUME NEW w \in Known', NEW v \in KnownUrls \ Known' PROVE latest'[v] < latest'[w]
    <3>1. latest'[v] = latest[v] /\ latest[v] < now + 1
      BY <1>8, <1>10, <2>2
    <3>2. CASE w = u
      BY <1>2, <1>8, <3>1, <3>2
    <3>3. CASE w # u
      <4>1. w \in Known \ Evicted(u) /\ latest'[w] = latest[w]
        BY <1>8, <2>1, <3>3, KnownIsFinite
      <4> QED
        BY <2>2, <2>3, <2>4, <3>1, <4>1
    <3> QED
      BY <3>2, <3>3
  <2>6. /\ Cardinality(Known') <= HistorySize
        /\ (\E v \in KnownUrls \ Known' : latest'[v] > 0) => Cardinality(Known') = HistorySize
    <3>0. HistorySize \in Nat \ {0}
      BY FrontierMemoryAssumption
    <3>1. CASE u \in Known
      <4>1. Known' = Known
        BY <1>2, <1>7, <3>1, OldestMakesRoom
      <4>2. \A v \in KnownUrls \ Known' : latest'[v] = latest[v]
        BY <1>8, <2>2
      <4> QED
        BY <4>1, <4>2 DEF MemoryInv, OldestAreEvicted
    <3>2. CASE u \notin Known /\ Evicted(u) = {}
      <4>1. Known' = Known \cup {u} /\ Cardinality(Known) < HistorySize
        BY <1>2, <1>7, <3>2, OldestMakesRoom
      <4>2. Cardinality(Known') = Cardinality(Known) + 1
        BY <3>2, <4>1, KnownIsFinite, FS_AddElement
      <4>3. \A v \in KnownUrls \ Known' : latest'[v] = latest[v] /\ v \notin Known
        BY <1>8, <2>2, <4>1
      <4>4. \A v \in KnownUrls \ Known' : ~(latest[v] > 0)
        BY <3>0, <4>1, <4>3, KnownIsFinite DEF MemoryInv, OldestAreEvicted
      <4> QED
        BY <3>0, <4>1, <4>2, <4>3, <4>4, KnownIsFinite
    <3>3. CASE u \notin Known /\ Evicted(u) # {}
      <4>1. PICK m \in Known : Evicted(u) = {m}
        BY <1>2, <3>3, OldestMakesRoom
      <4>2. Cardinality(Known) = HistorySize
        BY <1>2, <3>3, OldestMakesRoom
      <4>3. IsFiniteSet(Known \ {m}) /\ Cardinality(Known \ {m}) = HistorySize - 1
        BY <4>2, KnownIsFinite, FS_RemoveElement
      <4>4. Cardinality((Known \ {m}) \cup {u}) = HistorySize - 1 + 1
        BY <3>3, <4>3, FS_AddElement
      <4> QED
        BY <1>7, <3>0, <4>1, <4>4
    <3> QED
      BY <3>1, <3>2, <3>3
  <2>7. ASSUME NEW S \in SUBSET Known', S # {}
        PROVE  \E v \in S : \A w \in S : latest'[v] <= latest'[w]
    <3>1. CASE S \subseteq {u}
      <4>1. \A v, w \in S : latest'[v] <= latest'[w]
        BY <1>2, <1>9, <3>1
      <4> QED
        BY <2>7, <4>1
    <3>2. CASE ~(S \subseteq {u})
      <4>1. S \ {u} \subseteq Known /\ S \ {u} # {}
        BY <2>1, <3>2
      <4>2. PICK v \in S \ {u} : \A w \in S \ {u} : latest[v] <= latest[w]
        BY <4>1 DEF MemoryInv, OldestAreEvicted
      <4>3. \A w \in S \ {u} : latest'[w] = latest[w]
        BY <1>8, <4>1, KnownIsFinite
      <4>4. latest'[v] = latest[v] /\ latest[v] < now + 1 /\ latest'[u] = now + 1 /\ latest[v] \in Nat
        BY <1>2, <1>8, <1>9, <1>10, <4>1, <4>2, <4>3, KnownIsFinite
      <4>5. \A w \in S : latest'[v] <= latest'[w]
        BY <1>3, <4>2, <4>3, <4>4
      <4> QED
        BY <4>2, <4>5
    <3> QED
      BY <3>1, <3>2
  <2> QED
    BY <2>5, <2>6, <2>7 DEF OldestAreEvicted
<1>14. GraphIsSymmetric'
  BY <1>3 DEF MemoryInv, GraphIsSymmetric, Tracked, HasRoom
<1> QED
  BY <1>11, <1>12, <1>13, <1>14 DEF MemoryInv

LEMMA RecordLinksKeeps ==
  ASSUME MemoryInv, RecordLinks
  PROVE  MemoryInv'
<1> DEFINE source == Head(linksTopic).source
           full == GraphSize > 0 /\ Cardinality(Tracked) >= GraphSize
           links == Head(linksTopic).targets \ {source}
           targets == IF full THEN links \cap Tracked ELSE links
           pages == IF full THEN Tracked ELSE Tracked \cup {source} \cup targets
           Old(graph, p) == IF p \in Tracked THEN graph[p] ELSE {}
<1>1. Head(linksTopic) \in LinksMessage /\ linksTopic' \in Seq(LinksMessage)
  BY DEF RecordLinks, MemoryInv, MemoryTypes
<1>2. source \in KnownUrls /\ links \subseteq KnownUrls /\ source \notin links
  BY <1>1 DEF LinksMessage
<1>3. /\ GraphSize \in Nat /\ MaxLinks \in Nat /\ IsFiniteSet(Tracked) /\ Cardinality(Tracked) \in Nat
  BY FrontierMemoryAssumption, FS_Subset, FS_CardinalityType DEF MemoryInv, GraphIsSymmetric
<1>4. IsFiniteSet(links) /\ Cardinality(links) \in Nat /\ Cardinality(links) <= MaxLinks
  <2>1. IsFiniteSet(Head(linksTopic).targets) /\ Cardinality(Head(linksTopic).targets) <= MaxLinks
    BY <1>1, FrontierMemoryAssumption, FS_Subset DEF LinksMessage
  <2>2. IsFiniteSet(links) /\ Cardinality(links) <= Cardinality(Head(linksTopic).targets)
    BY <2>1, FS_Subset
  <2>3. Cardinality(links) \in Nat /\ Cardinality(Head(linksTopic).targets) \in Nat
    BY <2>1, <2>2, FS_CardinalityType
  <2> QED
    BY <1>3, <2>1, <2>2, <2>3
<1>5. /\ outbound' = [p \in pages |-> Old(outbound, p) \cup (IF p = source THEN targets ELSE {})]
      /\ inbound' = [p \in pages |-> Old(inbound, p) \cup (IF p \in targets THEN {source} ELSE {})]
      /\ UNCHANGED <<visits, historyTopic, now, latest>>
  BY DEF RecordLinks
<1> HIDE DEF source, links
<1>6. Tracked' = pages /\ DOMAIN inbound' = pages /\ Tracked \subseteq pages /\ targets \subseteq pages
  BY <1>5 DEF Tracked
<1>7. pages \subseteq KnownUrls
  BY <1>2 DEF MemoryInv, GraphIsSymmetric
<1>8. ~full <=> HasRoom
  BY <1>3 DEF HasRoom
<1>9. outbound' = [p \in Tracked' |-> outbound'[p]]
  BY <1>5, <1>6
<1>10. \A p \in Tracked' : outbound'[p] \subseteq Tracked'
  BY <1>5, <1>6 DEF MemoryInv, GraphIsSymmetric
<1>11. ASSUME NEW p \in pages, NEW q \in pages
       PROVE  q \in outbound'[p] <=> p \in inbound'[q]
  <2>1. /\ q \in outbound'[p] <=> q \in Old(outbound, p) \/ (p = source /\ q \in targets)
        /\ p \in inbound'[q] <=> p \in Old(inbound, q) \/ (q \in targets /\ p = source)
    BY <1>5
  <2>2. q \in Old(outbound, p) <=> p \in Old(inbound, q)
    <3>1. CASE p \in Tracked /\ q \in Tracked
      BY <3>1 DEF MemoryInv, GraphIsSymmetric
    <3>2. CASE p \in Tracked /\ q \notin Tracked
      BY <3>2 DEF MemoryInv, GraphIsSymmetric
    <3>3. CASE p \notin Tracked
      <4>1. HasRoom
        BY <1>8, <3>3
      <4> QED
        BY <3>3, <4>1 DEF MemoryInv, GraphIsSymmetric
    <3> QED
      BY <3>1, <3>2, <3>3
  <2> QED
    BY <2>1, <2>2
<1>12. /\ IsFiniteSet(pages) /\ Cardinality(pages) \in Nat
       /\ Cardinality(Tracked) <= Cardinality(pages)
       /\ ~full => Cardinality(pages) <= Cardinality(Tracked) + 1 + MaxLinks
  <2>1. IsFiniteSet(pages) /\ Cardinality(pages) \in Nat
    BY <1>7, FrontierMemoryAssumption, FS_Subset, FS_CardinalityType
  <2>2. Cardinality(Tracked) <= Cardinality(pages)
    BY <1>6, <2>1, FS_Subset
  <2>3. ASSUME ~full PROVE Cardinality(pages) <= Cardinality(Tracked) + 1 + MaxLinks
    <3>1. /\ IsFiniteSet(Tracked \cup {source})
          /\ Cardinality(Tracked \cup {source}) <= Cardinality(Tracked) + 1
      BY <1>3, OneMore
    <3>2. pages \subseteq (Tracked \cup {source}) \cup links
      BY <2>3
    <3>3. Cardinality(pages) <= Cardinality(Tracked \cup {source}) + Cardinality(links)
      BY <1>4, <3>1, <3>2, UnionBound
    <3>4. Cardinality(Tracked \cup {source}) \in Nat
      BY <3>1, FS_CardinalityType
    <3> QED
      BY <1>3, <1>4, <2>1, <3>1, <3>3, <3>4
  <2> QED
    BY <2>1, <2>2, <2>3
<1>13. HasRoom' => \A q \in Tracked' : inbound'[q] \subseteq Tracked'
  <2> SUFFICES ASSUME HasRoom', NEW q \in pages PROVE inbound'[q] \subseteq pages
    BY <1>6
  <2>1. HasRoom /\ ~full
    BY <1>3, <1>6, <1>8, <1>12 DEF HasRoom
  <2>2. q \in Tracked => inbound[q] \subseteq Tracked
    BY <2>1 DEF MemoryInv, GraphIsSymmetric
  <2> QED
    BY <1>5, <2>1, <2>2
<1>14. GraphSize > 0 => Cardinality(Tracked') <= GraphSize + MaxLinks
  <2>1. CASE full
    BY <1>6, <2>1 DEF MemoryInv, GraphIsSymmetric
  <2>2. CASE ~full
    <3>2. GraphSize > 0 => Cardinality(Tracked) + 1 <= GraphSize
      BY <1>3, <2>2
    <3> HIDE DEF pages, full
    <3>1. Cardinality(Tracked') <= Cardinality(Tracked) + 1 + MaxLinks /\ Cardinality(Tracked') \in Nat
      BY <1>6, <1>12, <2>2
    <3> QED
      BY <1>3, <3>1, <3>2
  <2> QED
    BY <2>1, <2>2
<1>15. GraphIsSymmetric'
  BY <1>6, <1>7, <1>9, <1>10, <1>11, <1>13, <1>14 DEF GraphIsSymmetric
<1>16. MemoryTypes'
  BY <1>1, <1>5 DEF MemoryInv, MemoryTypes
<1>17. RecordsAreTimed' /\ OldestAreEvicted'
  BY <1>5 DEF MemoryInv, RecordsAreTimed, OldestAreEvicted, Known
<1> QED
  BY <1>15, <1>16, <1>17 DEF MemoryInv

LEMMA MemoryInvNext ==
  ASSUME MemoryInv, [MemoryNext]_memoryVars
  PROVE  MemoryInv'
<1>1. CASE RecordCrawl
  BY <1>1, RecordCrawlKeeps
<1>2. CASE RecordLinks
  BY <1>2, RecordLinksKeeps
<1>3. ASSUME UNCHANGED <<visits, outbound, inbound, latest>>, MemoryTypes', now' >= now
      PROVE  MemoryInv'
  <2>1. Known' = Known /\ Tracked' = Tracked /\ (HasRoom' <=> HasRoom)
    BY <1>3 DEF Known, Tracked, HasRoom
  <2>2. RecordsAreTimed'
    <3>1. \A v \in KnownUrls : latest'[v] <= now'
      BY <1>3 DEF MemoryInv, MemoryTypes, RecordsAreTimed
    <3> QED
      BY <1>3, <2>1, <3>1 DEF MemoryInv, RecordsAreTimed
  <2>3. OldestAreEvicted' /\ GraphIsSymmetric'
    BY <1>3, <2>1 DEF MemoryInv, OldestAreEvicted, GraphIsSymmetric
  <2> QED
    BY <1>3, <2>2, <2>3 DEF MemoryInv
<1>4. CASE PassNow
  BY <1>3, <1>4 DEF PassNow, MemoryInv, MemoryTypes
<1>5. ASSUME NEW u \in KnownUrls, Offer(u) PROVE MemoryInv'
  BY <1>3, <1>5 DEF Offer, MemoryInv, MemoryTypes
<1>6. ASSUME NEW u \in KnownUrls, PageCrawled(u) PROVE MemoryInv'
  <2>1. historyTopic' \in Seq(HistoryMessage)
    <3>1. ASSUME NEW body \in Bodies, historyTopic' = Append(historyTopic, [url |-> u, body |-> body])
          PROVE  historyTopic' \in Seq(HistoryMessage)
      <4>1. [url |-> u, body |-> body] \in HistoryMessage
        BY DEF HistoryMessage
      <4> QED
        BY <3>1, <4>1 DEF MemoryInv, MemoryTypes
    <3> QED
      BY <1>6, <3>1 DEF PageCrawled, MemoryInv, MemoryTypes
  <2>2. linksTopic' \in Seq(LinksMessage)
    <3>1. ASSUME NEW links \in SUBSET KnownUrls, Cardinality(links) \in 1 .. MaxLinks,
                 linksTopic' = Append(linksTopic, [source |-> u, targets |-> links])
          PROVE  linksTopic' \in Seq(LinksMessage)
      <4>1. [source |-> u, targets |-> links] \in LinksMessage
        BY <3>1, FrontierMemoryAssumption DEF LinksMessage
      <4> QED
        BY <3>1, <4>1 DEF MemoryInv, MemoryTypes
    <3> QED
      BY <1>6, <3>1 DEF PageCrawled, MemoryInv, MemoryTypes
  <2> QED
    BY <1>3, <1>6, <2>1, <2>2 DEF PageCrawled, MemoryInv, MemoryTypes
<1>7. CASE RestartFrontier
  <2>1. Known' = {} /\ Cardinality(Known') = 0
    BY <1>7, FS_EmptySet DEF RestartFrontier, Known
  <2>2. latest' = [u \in KnownUrls |-> 0] /\ now' = now /\ now \in Nat
    BY <1>7 DEF RestartFrontier, MemoryInv, MemoryTypes
  <2>3. MemoryTypes'
    BY <1>7 DEF RestartFrontier, MemoryInv, MemoryTypes
  <2>4. RecordsAreTimed'
    BY <2>1, <2>2 DEF RecordsAreTimed
  <2>5. OldestAreEvicted'
    BY <2>1, <2>2, FrontierMemoryAssumption DEF OldestAreEvicted
  <2>6. Tracked' = {} /\ DOMAIN inbound' = {} /\ Cardinality(Tracked') = 0
        /\ outbound' = [p \in Tracked' |-> outbound'[p]]
    BY <1>7, FS_EmptySet DEF RestartFrontier, Tracked, NoPages
  <2>7. GraphIsSymmetric'
    BY <2>6, FrontierMemoryAssumption DEF GraphIsSymmetric
  <2> QED
    BY <2>3, <2>4, <2>5, <2>7 DEF MemoryInv
<1>8. CASE UNCHANGED memoryVars
  BY <1>3, <1>8 DEF memoryVars, MemoryInv, MemoryTypes
<1> QED
  BY <1>1, <1>2, <1>4, <1>5, <1>6, <1>7, <1>8 DEF MemoryNext

\* What is known is what was recorded last: what is younger than a known page is
\* known, and the known ones are younger than what was forgotten.
LEMMA MemoryInvHolds ==
  ASSUME MemoryInv
  PROVE  FrontierRemembers
<1> DEFINE Younger(u) == {v \in KnownUrls : latest[v] > latest[u]}
<1>0. HistorySize \in Nat \ {0} /\ latest \in [KnownUrls -> Nat]
  BY FrontierMemoryAssumption DEF MemoryInv, MemoryTypes
<1>1. ASSUME NEW u \in Known
      PROVE  u \in KnownUrls /\ latest[u] > 0 /\ Cardinality(Younger(u)) < HistorySize
  <2>1. u \in KnownUrls /\ latest[u] > 0
    BY KnownIsFinite DEF MemoryInv, RecordsAreTimed
  <2>2. Younger(u) \subseteq Known \ {u}
    <3> SUFFICES ASSUME NEW v \in Younger(u) PROVE v \in Known \ {u}
      OBVIOUS
    <3>1. latest[v] > latest[u] /\ latest[v] \in Nat /\ latest[u] \in Nat /\ v \in KnownUrls
      BY <1>0, <2>1
    <3>2. v \in Known
      BY <3>1 DEF MemoryInv, OldestAreEvicted
    <3> QED
      BY <3>1, <3>2
  <2>3. /\ IsFiniteSet(Younger(u))
        /\ Cardinality(Younger(u)) <= Cardinality(Known) - 1
    BY <2>2, KnownIsFinite, OneLess
  <2>4. Cardinality(Younger(u)) \in Nat /\ Cardinality(Known) <= HistorySize
    BY <2>3, FS_CardinalityType DEF MemoryInv, OldestAreEvicted
  <2> HIDE DEF Younger
  <2> QED
    BY <1>0, <2>1, <2>3, <2>4, KnownIsFinite
<1>2. ASSUME NEW u \in KnownUrls \ Known, latest[u] > 0
      PROVE  ~(Cardinality(Younger(u)) < HistorySize)
  <2>1. Known \subseteq Younger(u)
    BY KnownIsFinite DEF MemoryInv, OldestAreEvicted
  <2>2. Cardinality(Known) = HistorySize
    BY <1>2 DEF MemoryInv, OldestAreEvicted
  <2>3. IsFiniteSet(Younger(u))
    BY FrontierMemoryAssumption, FS_Subset
  <2>4. Cardinality(Known) <= Cardinality(Younger(u)) /\ Cardinality(Younger(u)) \in Nat
    BY <2>1, <2>3, FS_Subset, FS_CardinalityType
  <2> HIDE DEF Younger
  <2> QED
    BY <1>0, <2>2, <2>4
<1>3. Known = Latest(HistorySize)
  BY <1>1, <1>2 DEF Latest
<1>4. \A u \in Known : visits[u].interval \in LeastInterval .. MostInterval
  BY DEF MemoryInv, RecordsAreTimed
<1> QED
  BY <1>3, <1>4 DEF FrontierRemembers, MemoryInv, GraphIsSymmetric

-----------------------------------------------------------------------------
(* SiteMapping                                                             *)

\* The elements at some places of a sequence.
LEMMA PickedFacts ==
  ASSUME NEW X, NEW seq \in Seq(X), NEW places \in SUBSET DOMAIN seq
  PROVE  /\ Picked(seq, places) \in Seq(X) /\ Len(Picked(seq, places)) <= Len(seq)
         /\ ToSet(Picked(seq, places)) = {seq[i] : i \in places}
         /\ (\A i, j \in places : seq[i] = seq[j] => i = j) => IsInjective(Picked(seq, places))
<1>. DEFINE n == Len(seq)
            K(g) == g = [i \in 0..n |->
                           IF i = 0 THEN <<>>
                           ELSE IF i \in places THEN Append(g[i - 1], seq[i]) ELSE g[i - 1]]
            step == [p \in (1..n) \X Seq(X) |->
                       IF p[1] \in places THEN Append(p[2], seq[p[1]]) ELSE p[2]]
            picks == CHOOSE g : K(g)
<1>1. n \in Nat /\ DOMAIN seq = 1..n /\ <<>> \in Seq(X)
  OBVIOUS
<1>2. step \in [(1..n) \X Seq(X) -> Seq(X)]
  <2>1. \A p \in (1..n) \X Seq(X) : p[1] \in 1..n /\ p[2] \in Seq(X) /\ seq[p[1]] \in X
    OBVIOUS
  <2>2. \A p \in (1..n) \X Seq(X) : Append(p[2], seq[p[1]]) \in Seq(X)
    BY <2>1
  <2>. QED
    BY <2>1, <2>2
<1>3. \E g \in [0..n -> Seq(X)] : K(g)
  <2>1. PICK g \in [0..n -> Seq(X)] : g = [i \in 0..n |-> IF i = 0 THEN <<>> ELSE step[i, g[i - 1]]]
    <3>. HIDE DEF step, n
    <3>1. \E g \in [0..n -> Seq(X)] : WalkTo(g, n, <<>>, step)
      BY <1>1, <1>2, WalkEnds
    <3>. QED
      BY <3>1 DEF WalkTo
  <2>2. ASSUME NEW i \in 0..n, i # 0
        PROVE  step[i, g[i - 1]] = IF i \in places THEN Append(g[i - 1], seq[i]) ELSE g[i - 1]
    <3>1. i \in 1..n /\ i - 1 \in 0..n
      BY <2>2
    <3>2. g[i - 1] \in Seq(X)
      BY <3>1
    <3>. QED
      BY <3>1, <3>2
  <2>3. K(g)
    <3>. HIDE DEF step, n
    <3>. QED
      BY <2>1, <2>2
  <2>. QED
    BY <2>3
<1>4. K(picks)
  <2>. HIDE DEF K
  <2>. QED
    BY <1>3
<1>5. Picked(seq, places) = picks[n]
  BY SMTT(40) DEF Picked
<1>6. picks[0] = <<>>
  <2>1. 0 \in 0..n
    BY <1>1
  <2>. QED
    BY <1>4, <2>1
<1>7. \A i \in 1..n : picks[i] = IF i \in places THEN Append(picks[i - 1], seq[i]) ELSE picks[i - 1]
  <2>1. \A i \in 1..n : i \in 0..n /\ i # 0
    OBVIOUS
  <2>. QED
    BY <1>4, <2>1
<1>. DEFINE P(i) == /\ picks[i] \in Seq(X) /\ Len(picks[i]) <= i
                    /\ ToSet(picks[i]) = {seq[j] : j \in {k \in places : k <= i}}
                    /\ (\A a, b \in places : seq[a] = seq[b] => a = b) => IsInjective(picks[i])
            A == {i \in Nat : i <= n => P(i)}
<1>. HIDE DEF picks, K, step, P
<1>8. 0 \in A
  <2>1. {k \in places : k <= 0} = {}
    BY <1>1
  <2>2. IsInjective(<<>>) /\ ToSet(<<>>) = {} /\ Len(<<>>) = 0
    BY DEF IsInjective, ToSet
  <2>3. P(0)
    BY <1>1, <1>6, <2>1, <2>2 DEF P
  <2>. QED
    BY <2>3
<1>9. \A i \in A : i + 1 \in A
  <2>. SUFFICES ASSUME NEW i \in Nat, P(i), i + 1 <= n PROVE P(i + 1)
    BY <1>1
  <2>1. i + 1 \in 1..n /\ (i + 1) - 1 = i /\ seq[i + 1] \in X
    BY <1>1
  <2>. USE DEF P
  <2>2. picks[i + 1] = IF i + 1 \in places THEN Append(picks[i], seq[i + 1]) ELSE picks[i]
    BY <1>7, <2>1
  <2>. HIDE DEF n
  <2>3. CASE i + 1 \notin places
    <3>1. {k \in places : k <= i + 1} = {k \in places : k <= i}
      BY <1>1, <2>3
    <3>2. Len(picks[i]) <= i + 1
      <4>1. Len(picks[i]) \in Nat
        OBVIOUS
      <4>. QED
        BY <4>1
    <3>. QED
      BY <2>2, <2>3, <3>1, <3>2
  <2>4. CASE i + 1 \in places
    <3>1. {k \in places : k <= i + 1} = {k \in places : k <= i} \cup {i + 1}
      BY <1>1, <2>4
    <3>2. picks[i] \in Seq(X) /\ Len(picks[i]) \in Nat /\ Len(picks[i]) <= i
      OBVIOUS
    <3>3. /\ Append(picks[i], seq[i + 1]) \in Seq(X)
          /\ Len(Append(picks[i], seq[i + 1])) = Len(picks[i]) + 1
          /\ ToSet(Append(picks[i], seq[i + 1])) = ToSet(picks[i]) \cup {seq[i + 1]}
          /\ IsInjective(picks[i]) /\ seq[i + 1] \notin ToSet(picks[i])
               => IsInjective(Append(picks[i], seq[i + 1]))
      BY <2>1, <3>2, AppendFacts
    <3>4. Len(picks[i + 1]) <= i + 1
      BY <2>2, <2>4, <3>2, <3>3
    <3>5. ToSet(picks[i + 1]) = {seq[j] : j \in {k \in places : k <= i + 1}}
      BY <2>2, <2>4, <3>1, <3>3
    <3>6. ASSUME \A a, b \in places : seq[a] = seq[b] => a = b
          PROVE  IsInjective(picks[i + 1])
      <4>1. seq[i + 1] \notin ToSet(picks[i])
        <5>1. \A j \in places : j <= i => seq[j] # seq[i + 1]
          <6>1. \A j \in places : j <= i => j # i + 1
            OBVIOUS
          <6>. QED
            BY <2>4, <3>6, <6>1
        <5>. QED
          BY <5>1
      <4>. QED
        BY <2>2, <2>4, <3>3, <3>6, <4>1
    <3>. QED
      BY <2>2, <2>4, <3>3, <3>4, <3>5, <3>6
  <2>. QED
    BY <2>3, <2>4
<1>. HIDE DEF A
<1>10. \A i \in Nat : i \in A
  BY <1>8, <1>9, CountingUp
<1>11. P(n)
  BY <1>1, <1>10 DEF A
<1>. USE DEF P
<1>12. {k \in places : k <= n} = places
  BY <1>1
<1>. QED
  BY <1>5, <1>11, <1>12

\* The first elements of a sequence.
LEMMA PrefixFacts ==
  ASSUME NEW X, NEW s \in Seq(X), NEW n \in Nat
  PROVE  /\ Prefix(s, n) \in Seq(X) /\ Len(Prefix(s, n)) <= n
         /\ n < Len(s) => Len(Prefix(s, n)) = n
         /\ n >= Len(s) => Prefix(s, n) = s
         /\ ToSet(Prefix(s, n)) \subseteq ToSet(s)
         /\ IsInjective(s) => IsInjective(Prefix(s, n))
         /\ \A i \in DOMAIN s : i <= n => s[i] \in ToSet(Prefix(s, n))
<1>. DEFINE m == IF n < Len(s) THEN n ELSE Len(s)
            l == Len(s)
            p == Prefix(s, n)
<1>1. /\ m \in Nat /\ m <= n /\ m <= l /\ l \in Nat
      /\ n >= l => m = l
      /\ n < l => m = n
  OBVIOUS
<1>2. p = SubSeq(s, 1, m)
  BY DEF Prefix
<1>3. DOMAIN s = 1..l
  OBVIOUS
<1>4. p \in Seq(X) /\ Len(p) = m
  <2>. HIDE DEF m, p
  <2>1. m <= Len(s)
    BY <1>1
  <2>. QED
    BY <1>1, <1>2, <2>1
<1>5. DOMAIN p = 1..m /\ \A i \in 1..m : p[i] = s[i]
  <2>1. m <= Len(s) /\ m \in Nat
    BY <1>1
  <2>. HIDE DEF m, p
  <2>. QED
    BY <1>2, <2>1
<1>6. n >= l => p = s
  <2>. SUFFICES ASSUME n >= l PROVE p = s
    OBVIOUS
  <2>1. m = Len(s)
    BY <1>1
  <2>. HIDE DEF m
  <2>. QED
    BY <1>2, <2>1
<1>. HIDE DEF l, m, p
<1>7. \A i \in 1..m : i \in DOMAIN s
  <2>1. \A i \in 1..m : i \in 1..l
    BY <1>1
  <2>. QED
    BY <1>3, <2>1, Zenon
<1>8. ToSet(p) \subseteq ToSet(s)
  BY <1>5, <1>7 DEF ToSet
<1>9. IsInjective(s) => IsInjective(p)
  BY <1>5, <1>7 DEF IsInjective
<1>10. \A i \in DOMAIN s : i <= n => s[i] \in ToSet(p)
  <2>1. \A i \in 1..l : i <= n => i \in 1..m
    BY <1>1
  <2>. QED
    BY <1>3, <1>5, <2>1 DEF ToSet
<1>11. Len(p) <= n /\ (n < Len(s) => Len(p) = n)
  BY <1>1, <1>4 DEF l
<1>. QED
  BY <1>4, <1>6, <1>8, <1>9, <1>10, <1>11 DEF p, l

\* The empty sequence.
LEMMA EmptyFacts ==
  /\ \A X : <<>> \in Seq(X)
  /\ ToSet(<<>>) = {} /\ IsInjective(<<>>) /\ Len(<<>>) = 0
  /\ \A X : \A s \in Seq(X) : (Len(s) <= 0 => s = <<>>) /\ (ToSet(s) = {} => s = <<>>)
<1>1. \A X : <<>> \in Seq(X)
  OBVIOUS
<1>2. ToSet(<<>>) = {} /\ IsInjective(<<>>) /\ Len(<<>>) = 0
  BY DEF ToSet, IsInjective
<1>3. ASSUME NEW X, NEW s \in Seq(X), Len(s) <= 0 PROVE s = <<>>
  BY <1>3
<1>4. ASSUME NEW X, NEW s \in Seq(X), ToSet(s) = {} PROVE s = <<>>
  <2>1. DOMAIN s = {}
    BY <1>4 DEF ToSet
  <2>2. Len(s) \in Nat /\ (Len(s) # 0 => 1 \in DOMAIN s)
    OBVIOUS
  <2>3. Len(s) = 0
    BY <2>1, <2>2
  <2>. QED
    BY <2>3
<1>. QED
  BY <1>1, <1>2, <1>3, <1>4

\* What repeats is dropped, and nothing else.
LEMMA DistinctFacts ==
  ASSUME NEW X, NEW s \in Seq(X)
  PROVE  Distinct(s) \in Seq(X) /\ ToSet(Distinct(s)) = ToSet(s) /\ IsInjective(Distinct(s))
<1>. DEFINE firsts == {i \in DOMAIN s : \A j \in 1 .. i - 1 : s[j] # s[i]}
<1>1. DOMAIN s = 1..Len(s) /\ Len(s) \in Nat
  OBVIOUS
<1>2. \A i, j \in firsts : s[i] = s[j] => i = j
  <2>. SUFFICES ASSUME NEW i \in firsts, NEW j \in firsts, s[i] = s[j], i # j PROVE FALSE
    OBVIOUS
  <2>1. i \in Nat /\ j \in Nat /\ i >= 1 /\ j >= 1
    OBVIOUS
  <2>2. i \in 1 .. j - 1 \/ j \in 1 .. i - 1
    BY <2>1
  <2>. QED
    BY <2>2
<1>3. {s[i] : i \in firsts} = ToSet(s)
  <2>1. {s[i] : i \in firsts} \subseteq ToSet(s)
    BY DEF ToSet
  <2>2. ASSUME NEW x \in ToSet(s) PROVE \E i \in firsts : s[i] = x
    <3>. DEFINE places == {i \in 1..Len(s) : s[i] = x}
                k == Min(places)
    <3>1. places \subseteq 1..Len(s) /\ places # {}
      BY DEF ToSet
    <3>2. IsFiniteSet(places) /\ \A i \in places : i \in Int
      <4>1. IsFiniteSet(1..Len(s))
        BY <1>1, FS_Interval
      <4>. QED
        BY <3>1, <4>1, FS_Subset
    <3>. HIDE DEF places
    <3>3. k \in places /\ \A i \in places : k <= i
      BY <3>1, <3>2, LeastAndMost
    <3>. HIDE DEF k
    <3>4. k \in DOMAIN s /\ s[k] = x
      BY <3>3 DEF places
    <3>5. \A j \in 1 .. k - 1 : s[j] # s[k]
      <4>. SUFFICES ASSUME NEW j \in 1 .. k - 1, s[j] = x PROVE FALSE
        BY <3>4
      <4>1. j \in 1..Len(s) /\ ~(k <= j)
        BY <1>1, <3>3 DEF places
      <4>. QED
        BY <3>3, <4>1 DEF places
    <3>. QED
      BY <3>4, <3>5
  <2>. QED
    BY <2>1, <2>2
<1>. HIDE DEF firsts
<1>4. firsts \in SUBSET DOMAIN s
  BY DEF firsts
<1>5. Distinct(s) = Picked(s, firsts)
  BY DEF Distinct, firsts
<1>6. /\ Picked(s, firsts) \in Seq(X) /\ ToSet(Picked(s, firsts)) = {s[i] : i \in firsts}
      /\ (\A i, j \in firsts : s[i] = s[j] => i = j) => IsInjective(Picked(s, firsts))
  BY <1>4, PickedFacts
<1>. QED
  BY <1>2, <1>3, <1>5, <1>6

\* What is in a set of URLs stays, or what is not.
LEMMA WithinFacts ==
  ASSUME NEW X, NEW s \in Seq(X), NEW urls
  PROVE  /\ Within(s, urls) \in Seq(X) /\ Len(Within(s, urls)) <= Len(s)
         /\ ToSet(Within(s, urls)) = ToSet(s) \cap urls
         /\ IsInjective(s) => IsInjective(Within(s, urls))
         /\ Without(s, urls) \in Seq(X) /\ ToSet(Without(s, urls)) = ToSet(s) \ urls
         /\ Len(Without(s, urls)) <= Len(s)
<1>. DEFINE ins == {i \in DOMAIN s : s[i] \in urls}
            outs == {i \in DOMAIN s : s[i] \notin urls}
<1>1. ins \in SUBSET DOMAIN s /\ outs \in SUBSET DOMAIN s
  OBVIOUS
<1>2. {s[i] : i \in ins} = ToSet(s) \cap urls /\ {s[i] : i \in outs} = ToSet(s) \ urls
  BY DEF ToSet
<1>3. IsInjective(s) => \A i, j \in ins : s[i] = s[j] => i = j
  BY DEF IsInjective
<1>4. Within(s, urls) = Picked(s, ins) /\ Without(s, urls) = Picked(s, outs)
  BY DEF Within, Without
<1>. HIDE DEF ins, outs
<1>. QED
  BY <1>1, <1>2, <1>3, <1>4, PickedFacts

\* What is new among some URLs, as far as there is room.
LEMMA NewsFacts ==
  ASSUME found \in Seq(MapUrls), mapping.limit \in Nat, Len(found) <= mapping.limit,
         NEW urls \in Seq(MapUrls)
  PROVE  /\ News(urls) \in Seq(MapUrls) /\ IsInjective(News(urls))
         /\ ToSet(News(urls)) \subseteq ToSet(urls) \ ToSet(found)
         /\ Len(News(urls)) <= mapping.limit - Len(found)
         /\ Len(News(urls)) < mapping.limit - Len(found)
              => ToSet(News(urls)) = ToSet(urls) \ ToSet(found)
<1>. DEFINE n == mapping.limit - Len(found)
            d == Distinct(Without(urls, ToSet(found)))
<1>1. n \in Nat
  <2>1. Len(found) \in Nat
    OBVIOUS
  <2>. QED
    BY <2>1
<1>2. d \in Seq(MapUrls) /\ IsInjective(d) /\ ToSet(d) = ToSet(urls) \ ToSet(found)
  BY WithinFacts, DistinctFacts
<1>3. News(urls) = Prefix(d, n)
  BY DEF News
<1>. HIDE DEF d, n
<1>4. /\ Prefix(d, n) \in Seq(MapUrls) /\ Len(Prefix(d, n)) <= n
      /\ n < Len(d) => Len(Prefix(d, n)) = n
      /\ n >= Len(d) => Prefix(d, n) = d
      /\ ToSet(Prefix(d, n)) \subseteq ToSet(d)
      /\ IsInjective(Prefix(d, n))
  BY <1>1, <1>2, PrefixFacts
<1>5. Len(Prefix(d, n)) < n => Prefix(d, n) = d
  <2>1. Len(Prefix(d, n)) \in Nat /\ Len(d) \in Nat
    BY <1>2, <1>4
  <2>. QED
    BY <1>1, <1>4, <2>1
<1>. QED
  BY <1>2, <1>3, <1>4, <1>5 DEF n

\* Every sitemap yields URLs, none if all are failing.
LEMMA ParsedFacts ==
  ASSUME NEW failing \in SUBSET Maps
  PROVE  /\ Parsed(failing) \in [Maps -> Seq(MapUrls)]
         /\ failing = Maps => \A m \in Maps : Parsed(failing)[m] = <<>>
<1>. USE SiteMappingAssumption
<1>. DEFINE D == MapsDepth + 1
            V == [Maps -> Seq(MapUrls)]
            Below(v, m) == [i \in DOMAIN MapIndex[m] |-> v[MapIndex[m][i]]]
            U(g) == g = [n \in 0..D |->
                          [m \in Maps |->
                             IF n = 0 \/ m \in failing THEN <<>>
                             ELSE MapLists[m] \o FlattenSeq([i \in DOMAIN MapIndex[m] |->
                                                               g[n - 1][MapIndex[m][i]]])]]
            urls == CHOOSE g : U(g)
            base == [m \in Maps |-> <<>>]
            step == [p \in (1..D) \X V |->
                      [m \in Maps |-> IF m \in failing THEN <<>>
                                      ELSE MapLists[m] \o FlattenSeq(Below(p[2], m))]]
<1>1. D \in Nat
  OBVIOUS
<1>2. base \in V
  OBVIOUS
<1>3. ASSUME NEW v \in V, NEW m \in Maps
      PROVE  MapLists[m] \o FlattenSeq(Below(v, m)) \in Seq(MapUrls)
  <2>1. MapIndex[m] \in Seq(Maps) /\ MapLists[m] \in Seq(MapUrls)
    OBVIOUS
  <2>2. \A i \in DOMAIN MapIndex[m] : MapIndex[m][i] \in Maps
    BY <2>1
  <2>3. \A i \in DOMAIN MapIndex[m] : v[MapIndex[m][i]] \in Seq(MapUrls)
    BY <2>2
  <2>4. Below(v, m) \in Seq(Seq(MapUrls))
    <3>. DEFINE k == Len(MapIndex[m])
    <3>1. k \in Nat /\ DOMAIN MapIndex[m] = 1..k
      BY <2>1
    <3>2. Below(v, m) \in [1..k -> Seq(MapUrls)]
      BY <2>3, <3>1, Zenon
    <3>. HIDE DEF k, Below
    <3>. QED
      BY <3>1, <3>2
  <2>5. FlattenSeq(Below(v, m)) \in Seq(MapUrls)
    <3>. HIDE DEF Below
    <3>. QED
      BY <2>4, FlattenFacts
  <2>. HIDE DEF Below
  <2>. QED
    BY <2>1, <2>5
<1>4. step \in [(1..D) \X V -> V]
  <2>. SUFFICES ASSUME NEW p \in (1..D) \X V PROVE step[p] \in V
    OBVIOUS
  <2>1. p[2] \in V
    OBVIOUS
  <2>2. \A m \in Maps : MapLists[m] \o FlattenSeq(Below(p[2], m)) \in Seq(MapUrls)
    <3>. HIDE DEF Below, V
    <3>. QED
      BY <1>3, <2>1
  <2>3. <<>> \in Seq(MapUrls)
    OBVIOUS
  <2>. HIDE DEF Below
  <2>. QED
    BY <2>2, <2>3
<1>. HIDE DEF step, base, Below, D, V
<1>5. PICK g \in [0..D -> V] : WalkTo(g, D, base, step)
  BY <1>1, <1>2, <1>4, WalkEnds
<1>6. U(g)
  <2>. SUFFICES ASSUME NEW n \in 0..D
                PROVE  g[n] = [m \in Maps |->
                                 IF n = 0 \/ m \in failing THEN <<>>
                                 ELSE MapLists[m] \o FlattenSeq([i \in DOMAIN MapIndex[m] |->
                                                                   g[n - 1][MapIndex[m][i]]])]
    BY <1>5 DEF WalkTo
  <2>1. g[n] = IF n = 0 THEN base ELSE step[n, g[n - 1]]
    BY <1>5 DEF WalkTo
  <2>2. CASE n = 0
    BY <2>1, <2>2 DEF base
  <2>3. CASE n # 0
    <3>1. n \in 1..D /\ n - 1 \in 0..D
      BY <1>1, <2>3
    <3>2. <<n, g[n - 1]>> \in (1..D) \X V
      BY <3>1
    <3>3. step[n, g[n - 1]] = [m \in Maps |-> IF m \in failing THEN <<>>
                                              ELSE MapLists[m] \o FlattenSeq(Below(g[n - 1], m))]
      BY <3>2 DEF step
    <3>. QED
      BY <2>1, <2>3, <3>3 DEF Below
  <2>. QED
    BY <2>2, <2>3
<1>. HIDE DEF U
<1>7. U(urls)
  BY <1>6
<1>8. Parsed(failing) = urls[D]
  BY DEF Parsed, U, D
<1>. HIDE DEF urls
<1>. DEFINE A == {n \in Nat : n <= D => urls[n] \in V}
<1>9. 0 \in A
  <2>1. 0 \in 0..D
    BY <1>1
  <2>2. urls[0] = [m \in Maps |-> <<>>]
    BY <1>7, <2>1 DEF U
  <2>. QED
    BY <1>2, <2>2 DEF base
<1>10. \A n \in A : n + 1 \in A
  <2>. SUFFICES ASSUME NEW n \in A, n + 1 <= D PROVE urls[n + 1] \in V
    OBVIOUS
  <2>1. n + 1 \in 0..D /\ n + 1 # 0 /\ (n + 1) - 1 = n /\ urls[n] \in V
    BY <1>1
  <2>2. urls[n + 1] = [m \in Maps |->
                         IF m \in failing THEN <<>> ELSE MapLists[m] \o FlattenSeq(Below(urls[n], m))]
    <3>1. urls[n + 1] = [m \in Maps |->
                           IF n + 1 = 0 \/ m \in failing THEN <<>>
                           ELSE MapLists[m] \o FlattenSeq([i \in DOMAIN MapIndex[m] |->
                                                             urls[(n + 1) - 1][MapIndex[m][i]]])]
      BY <1>7, <2>1 DEF U
    <3>. QED
      BY <2>1, <3>1 DEF Below
  <2>3. \A m \in Maps : MapLists[m] \o FlattenSeq(Below(urls[n], m)) \in Seq(MapUrls)
    BY <1>3, <2>1
  <2>4. <<>> \in Seq(MapUrls)
    OBVIOUS
  <2>. QED
    BY <2>2, <2>3, <2>4 DEF V
<1>. HIDE DEF A
<1>11. \A n \in Nat : n \in A
  BY <1>9, <1>10, CountingUp
<1>12. urls[D] \in V
  BY <1>1, <1>11 DEF A
<1>13. ASSUME failing = Maps, NEW m \in Maps PROVE urls[D][m] = <<>>
  <2>1. D \in 0..D
    BY <1>1
  <2>. QED
    BY <1>7, <1>13, <2>1 DEF U
<1>. QED
  BY <1>8, <1>12, <1>13 DEF V

\* What the sitemaps list.
LEMMA DiscoveredFacts ==
  /\ \A failing \in SUBSET Maps : Discovered(failing) \in Seq(MapUrls)
  /\ Discovered(Maps) = <<>>
<1>. USE SiteMappingAssumption
<1>. DEFINE ListsFor(failing) == [i \in DOMAIN RootMaps |-> Parsed(failing)[RootMaps[i]]]
<1>1. ASSUME NEW failing \in SUBSET Maps PROVE ListsFor(failing) \in Seq(Seq(MapUrls))
  <2>. DEFINE k == Len(RootMaps)
  <2>1. k \in Nat /\ DOMAIN RootMaps = 1..k
    OBVIOUS
  <2>2. \A i \in DOMAIN RootMaps : RootMaps[i] \in Maps
    OBVIOUS
  <2>3. \A i \in DOMAIN RootMaps : Parsed(failing)[RootMaps[i]] \in Seq(MapUrls)
    BY <2>2, ParsedFacts
  <2>4. ListsFor(failing) \in [1..k -> Seq(MapUrls)]
    BY <2>1, <2>3, Zenon
  <2>. HIDE DEF k, Lists
  <2>. QED
    BY <2>1, <2>4
<1>2. \A i \in DOMAIN ListsFor(Maps) : ListsFor(Maps)[i] = <<>>
  <2>1. \A i \in DOMAIN RootMaps : RootMaps[i] \in Maps
    OBVIOUS
  <2>2. \A m \in Maps : Parsed(Maps)[m] = <<>>
    BY ParsedFacts
  <2>. QED
    BY <2>1, <2>2
<1>3. \A failing : Discovered(failing) = Within(FlattenSeq(ListsFor(failing)), Preferred)
                                         \o Without(FlattenSeq(ListsFor(failing)), Preferred)
  BY DEF Discovered
<1>. HIDE DEF Lists
<1>4. ASSUME NEW failing \in SUBSET Maps PROVE Discovered(failing) \in Seq(MapUrls)
  <2>1. FlattenSeq(ListsFor(failing)) \in Seq(MapUrls)
    BY <1>1, FlattenFacts
  <2>2. /\ Within(FlattenSeq(ListsFor(failing)), Preferred) \in Seq(MapUrls)
        /\ Without(FlattenSeq(ListsFor(failing)), Preferred) \in Seq(MapUrls)
    BY <2>1, WithinFacts
  <2>. DEFINE a == Within(FlattenSeq(ListsFor(failing)), Preferred)
              b == Without(FlattenSeq(ListsFor(failing)), Preferred)
  <2>3. Discovered(failing) = a \o b
    BY <1>3
  <2>. HIDE DEF a, b
  <2>4. a \o b \in Seq(MapUrls)
    BY <2>2 DEF a, b
  <2>. QED
    BY <2>3, <2>4
<1>5. Discovered(Maps) = <<>>
  <2>1. FlattenSeq(ListsFor(Maps)) = <<>>
    BY <1>1, <1>2, FlattenFacts
  <2>2. <<>> \in Seq(MapUrls) /\ Len(<<>>) = 0
    OBVIOUS
  <2>3. Within(<<>>, Preferred) \in Seq(MapUrls) /\ Len(Within(<<>>, Preferred)) <= 0
        /\ Without(<<>>, Preferred) \in Seq(MapUrls) /\ Len(Without(<<>>, Preferred)) <= 0
    BY <2>2, WithinFacts
  <2>4. Within(<<>>, Preferred) = <<>> /\ Without(<<>>, Preferred) = <<>>
    BY <2>3, EmptyFacts
  <2>5. <<>> \o <<>> = <<>>
    OBVIOUS
  <2>. QED
    BY <1>3, <2>1, <2>4, <2>5
<1>. QED
  BY <1>4, <1>5

\* The links of pages.
LinkedFrom(urls) == UNION {ToSet(PageLinks[u]) : u \in urls}

\* Where the search begins.
FirstPages == ToSet(Seeded(IF mapping.sitemap THEN Discovered({}) ELSE <<>>))

\* The pages that are within each depth.
LEMMA ReachedFacts ==
  ASSUME mapping \in MapRequest
  PROVE  /\ Reached[0] = FirstPages /\ Reached[0] \subseteq MapUrls
         /\ \A d \in Nat : /\ Reached[d] \subseteq MapUrls
                           /\ Reached[d + 1] = Reached[d] \cup LinkedFrom(Reached[d])
<1>. USE SiteMappingAssumption
<1>. DEFINE V == SUBSET MapUrls
            R(g) == g = [d \in Nat |-> IF d = 0 THEN FirstPages
                           ELSE g[d - 1] \cup UNION {ToSet(PageLinks[u]) : u \in g[d - 1]}]
            pages == CHOOSE g : R(g)
            step == [p \in Nat \X V |-> p[2] \cup LinkedFrom(p[2])]
<1>1. FirstPages \in V
  <2>1. Discovered({}) \in Seq(MapUrls)
    BY DiscoveredFacts
  <2>2. <<MapSeed>> \in Seq(MapUrls) /\ <<>> \in Seq(MapUrls)
    OBVIOUS
  <2>3. Seeded(IF mapping.sitemap THEN Discovered({}) ELSE <<>>) \in Seq(MapUrls)
    BY <2>1, <2>2 DEF Seeded
  <2>. QED
    BY <2>3 DEF FirstPages, ToSet
<1>2. \A S \in V : LinkedFrom(S) \in V
  <2>1. \A u \in MapUrls : ToSet(PageLinks[u]) \subseteq MapUrls
    BY DEF ToSet
  <2>. QED
    BY <2>1 DEF LinkedFrom
<1>3. step \in [Nat \X V -> V]
  BY <1>2
<1>. HIDE DEF step, V
<1>4. PICK g \in [Nat -> V] : WalkOn(g, FirstPages, step)
  BY <1>1, <1>3, WalkExists
<1>5. R(g)
  <2>1. ASSUME NEW d \in Nat, d # 0
        PROVE  step[d, g[d - 1]] = g[d - 1] \cup UNION {ToSet(PageLinks[u]) : u \in g[d - 1]}
    <3>1. d - 1 \in Nat
      BY <2>1
    <3>2. <<d, g[d - 1]>> \in Nat \X V
      BY <3>1
    <3>. QED
      BY <3>2 DEF step, LinkedFrom
  <2>. QED
    BY <1>4, <2>1 DEF WalkOn
<1>. HIDE DEF R
<1>6. R(pages)
  BY <1>5
<1>7. Reached = pages
  BY DEF Reached, R, FirstPages
<1>. HIDE DEF pages
<1>8. pages[0] = FirstPages
  BY <1>6 DEF R
<1>9. \A d \in Nat : pages[d + 1] = pages[d] \cup LinkedFrom(pages[d])
  <2>. TAKE d \in Nat
  <2>1. d + 1 \in Nat /\ d + 1 # 0 /\ (d + 1) - 1 = d
    OBVIOUS
  <2>. QED
    BY <1>6, <2>1 DEF R, LinkedFrom
<1>. DEFINE A == {d \in Nat : pages[d] \in V}
<1>10. 0 \in A
  BY <1>1, <1>8
<1>11. \A d \in A : d + 1 \in A
  <2>. SUFFICES ASSUME NEW d \in Nat, pages[d] \in V PROVE pages[d + 1] \in V
    OBVIOUS
  <2>1. LinkedFrom(pages[d]) \in V /\ pages[d + 1] = pages[d] \cup LinkedFrom(pages[d])
    BY <1>2, <1>9
  <2>. QED
    BY <2>1 DEF V
<1>. HIDE DEF A
<1>12. \A d \in Nat : d \in A
  BY <1>10, <1>11, CountingUp
<1>. QED
  BY <1>1, <1>7, <1>8, <1>9, <1>12 DEF A, V

\* The list holds what is within the level; as long as nothing is missed, what is not
\* among the newest pages was followed, and so were the pages of a level that have
\* answered.
MapInv ==
  /\ MapTypeOK
  /\ IsInjective(found) /\ ToSet(frontier) \subseteq ToSet(found)
  /\ level <= mapping.depth
  /\ mapAt = "start" => found = <<>> /\ level = 0
  /\ mapping.limit > 0 => Len(found) <= mapping.limit
  /\ mapAt = "links" => /\ level > 0 /\ Len(found) <= mapping.limit
                        /\ waiting # {} => Len(found) < mapping.limit
  /\ ~gaps /\ mapping.limit > 0 /\ mapAt # "start" => ToSet(found) \subseteq Reached[level]
  /\ ~gaps /\ mapAt = "links" => waiting \subseteq Reached[level - 1]
  /\ ~gaps /\ Len(found) < mapping.limit =>
       /\ mapAt \in {"titles", "level"} =>
            /\ Reached[level] \subseteq ToSet(found)
            /\ LinkedFrom(ToSet(found) \ ToSet(frontier)) \subseteq ToSet(found)
       /\ mapAt = "links" =>
            /\ Reached[level - 1] \subseteq ToSet(found) \ ToSet(frontier)
            /\ LinkedFrom(ToSet(found) \ (ToSet(frontier) \cup waiting)) \subseteq ToSet(found)
  /\ MapAnswerHolds

\* The types of what a request asks for.
LEMMA MapConstants ==
  ASSUME MapTypeOK
  PROVE  /\ mapping.limit \in Nat /\ mapping.depth \in Nat
         /\ mapping.sitemap \in BOOLEAN /\ mapping.titles \in BOOLEAN /\ mapping.search \in BOOLEAN
         /\ Len(found) \in Nat /\ Len(frontier) \in Nat
<1>1. mapping \in MapRequest /\ MapLimits \subseteq Nat /\ MapDepths \subseteq Nat
  BY SiteMappingAssumption DEF MapTypeOK
<1>2. found \in Seq(MapUrls) /\ frontier \in Seq(MapUrls)
  BY DEF MapTypeOK
<1>3. Len(found) \in Nat /\ Len(frontier) \in Nat
  BY <1>2
<1>. QED
  BY <1>1, <1>3 DEF MapRequest

\* They are those of the request.
LEMMA ReachedSame == mapping' = mapping => Reached' = Reached
BY DEF Reached, Seeded, Discovered, Parsed, Within, Without, Picked

\* The elements of a sequence.
LEMMA ToSetIn ==
  ASSUME NEW X, NEW s \in Seq(X)
  PROVE  ToSet(s) \subseteq X
BY DEF ToSet

\* Once the pages that were found are closed under links, they are all.
LEMMA ReachedGrows ==
  ASSUME mapping \in MapRequest
  PROVE  /\ \A d \in Nat : \A e \in 0..d : Reached[e] \subseteq Reached[d]
         /\ \A urls : Reached[0] \subseteq urls /\ LinkedFrom(urls) \subseteq urls
              => \A d \in Nat : Reached[d] \subseteq urls
<1>1. \A d \in Nat : Reached[d + 1] = Reached[d] \cup LinkedFrom(Reached[d])
  BY ReachedFacts
<1>. DEFINE A == {d \in Nat : \A e \in 0..d : Reached[e] \subseteq Reached[d]}
<1>2. 0 \in A
  OBVIOUS
<1>3. \A d \in A : d + 1 \in A
  <2>. SUFFICES ASSUME NEW d \in A, NEW e \in 0..d + 1 PROVE Reached[e] \subseteq Reached[d + 1]
    OBVIOUS
  <2>1. e = d + 1 \/ e \in 0..d
    OBVIOUS
  <2>2. Reached[d] \subseteq Reached[d + 1]
    BY <1>1
  <2>. QED
    BY <2>1, <2>2
<1>. HIDE DEF A
<1>4. \A d \in Nat : d \in A
  BY <1>2, <1>3, CountingUp
<1>5. ASSUME NEW urls, Reached[0] \subseteq urls, LinkedFrom(urls) \subseteq urls
      PROVE  \A d \in Nat : Reached[d] \subseteq urls
  <2>. DEFINE B == {d \in Nat : Reached[d] \subseteq urls}
  <2>1. 0 \in B
    BY <1>5
  <2>2. \A d \in B : d + 1 \in B
    <3>. SUFFICES ASSUME NEW d \in Nat, Reached[d] \subseteq urls PROVE Reached[d + 1] \subseteq urls
      OBVIOUS
    <3>1. LinkedFrom(Reached[d]) \subseteq LinkedFrom(urls)
      BY DEF LinkedFrom
    <3>. QED
      BY <1>1, <1>5, <3>1
  <2>. HIDE DEF B
  <2>3. \A d \in Nat : d \in B
    BY <2>1, <2>2, CountingUp
  <2>. QED
    BY <2>3 DEF B
<1>. QED
  BY <1>4, <1>5 DEF A

\* The search begins so.
LEMMA MapInvInit == MapInit => MapInv
<1>. SUFFICES ASSUME MapInit PROVE MapInv
  OBVIOUS
<1>1. <<>> \in Seq(MapUrls) /\ ToSet(<<>>) = {} /\ IsInjective(<<>>) /\ Len(<<>>) = 0
  BY EmptyFacts
<1>2. MapTypeOK
  BY <1>1 DEF MapInit, MapTypeOK
<1>3. mapping.limit \in Nat /\ mapping.depth \in Nat
  BY <1>2, MapConstants
<1>. QED
  BY <1>1, <1>2, <1>3 DEF MapInit, MapInv, MapAnswerHolds

\* The sitemaps are read, or the seed is where the search begins.
LEMMA ReadSitemapsKeeps == MapInv /\ ReadSitemaps => MapInv'
<1>. SUFFICES ASSUME MapInv, ReadSitemaps PROVE MapInv'
  OBVIOUS
<1>1. /\ mapping.limit \in Nat /\ mapping.depth \in Nat
      /\ mapping.sitemap \in BOOLEAN /\ mapping.titles \in BOOLEAN
  BY MapConstants DEF MapInv
<1>2. found = <<>> /\ level = 0 /\ MapTypeOK
  BY DEF MapInv, ReadSitemaps
<1>3. /\ mapping' = mapping /\ level' = 0 /\ titled' = titled /\ late' = late /\ answer' = answer
      /\ frontier' = found' /\ mapAt' \in {"titles", "level"}
      /\ waiting' = ToSet(Prefix(found', mapping.limit)) \/ waiting' = waiting
  BY <1>2 DEF ReadSitemaps
<1>4. PICK failing \in SUBSET Maps :
        /\ ~mapping.sitemap => failing = Maps
        /\ found' = Seeded(News(Discovered(failing)))
        /\ gaps' = (mapping.sitemap /\ failing # {})
  BY DEF ReadSitemaps
<1>. DEFINE urls == Discovered(failing)
            new == News(urls)
<1>5. urls \in Seq(MapUrls) /\ (failing = Maps => urls = <<>>)
  BY DiscoveredFacts
<1>6. Len(found) = 0 /\ ToSet(found) = {} /\ found \in Seq(MapUrls)
  BY <1>2, EmptyFacts DEF MapTypeOK
<1>. HIDE DEF urls
<1>7. /\ new \in Seq(MapUrls) /\ IsInjective(new) /\ ToSet(new) \subseteq ToSet(urls)
      /\ Len(new) <= mapping.limit
      /\ Len(new) < mapping.limit => ToSet(new) = ToSet(urls)
  <2>1. Len(found) <= mapping.limit
    BY <1>1, <1>6
  <2>2. mapping.limit - Len(found) = mapping.limit
    BY <1>1, <1>6
  <2>3. /\ new \in Seq(MapUrls) /\ IsInjective(new)
        /\ ToSet(new) \subseteq ToSet(urls) \ ToSet(found)
        /\ Len(new) <= mapping.limit - Len(found)
        /\ Len(new) < mapping.limit - Len(found)
              => ToSet(new) = ToSet(urls) \ ToSet(found)
    BY <1>1, <1>5, <1>6, <2>1, NewsFacts
  <2>. QED
    BY <1>6, <2>2, <2>3
<1>. HIDE DEF new
<1>8. found' = Seeded(new)
  BY <1>4 DEF new, urls
<1>9. /\ <<MapSeed>> \in Seq(MapUrls) /\ Len(<<MapSeed>>) = 1 /\ ToSet(<<MapSeed>>) = {MapSeed}
      /\ IsInjective(<<MapSeed>>)
  BY SiteMappingAssumption DEF ToSet, IsInjective
<1>10. found' \in Seq(MapUrls) /\ IsInjective(found') /\ Len(found') \in Nat
  BY <1>7, <1>8, <1>9 DEF Seeded
<1>11. mapping.limit > 0 => Len(found') <= mapping.limit
  <2>1. new # <<>> \/ Len(found') = 1
    BY <1>8, <1>9 DEF Seeded
  <2>2. new # <<>> => found' = new
    BY <1>8 DEF Seeded
  <2>3. CASE Len(found') = 1
    BY <1>1, <2>3
  <2>4. CASE found' = new
    BY <1>7, <2>4
  <2>. QED
    BY <2>1, <2>2, <2>3, <2>4
<1>12. ASSUME ~gaps', mapping.limit > 0 PROVE ToSet(found') \subseteq FirstPages
  <2>1. FirstPages = ToSet(Seeded(urls))
    <3>1. mapping.sitemap => failing = {}
      BY <1>4, <1>12
    <3>2. ~mapping.sitemap => urls = <<>>
      BY <1>4, <1>5
    <3>3. mapping.sitemap => urls = Discovered({})
      BY <3>1 DEF urls
    <3>. QED
      BY <1>1, <3>2, <3>3 DEF FirstPages
  <2>2. CASE urls = <<>>
    <3>1. ToSet(urls) = {}
      BY <2>2, EmptyFacts
    <3>2. new = <<>>
      BY <1>7, <3>1, EmptyFacts
    <3>. QED
      BY <1>8, <2>1, <2>2, <3>2 DEF Seeded
  <2>3. CASE urls # <<>>
    <3>1. ToSet(urls) # {}
      BY <1>5, <2>3, EmptyFacts
    <3>2. new # <<>>
      <4>. SUFFICES ASSUME new = <<>> PROVE FALSE
        OBVIOUS
      <4>1. Len(new) = 0 /\ ToSet(new) = {}
        BY EmptyFacts
      <4>2. ToSet(new) = ToSet(urls)
        BY <1>1, <1>7, <1>12, <4>1
      <4>. QED
        BY <3>1, <4>1, <4>2
    <3>. QED
      BY <1>7, <1>8, <2>1, <2>3, <3>2 DEF Seeded
  <2>. QED
    BY <2>2, <2>3
<1>13. ASSUME ~gaps', Len(found') < mapping.limit PROVE FirstPages \subseteq ToSet(found')
  <2>0. mapping.limit > 0
    BY <1>1, <1>10, <1>13
  <2>1. FirstPages = ToSet(Seeded(urls))
    <3>1. mapping.sitemap => failing = {}
      BY <1>4, <1>13
    <3>2. ~mapping.sitemap => urls = <<>>
      BY <1>4, <1>5
    <3>3. mapping.sitemap => urls = Discovered({})
      BY <3>1 DEF urls
    <3>. QED
      BY <1>1, <3>2, <3>3 DEF FirstPages
  <2>2. CASE urls = <<>>
    <3>1. ToSet(urls) = {}
      BY <2>2, EmptyFacts
    <3>2. new = <<>>
      BY <1>7, <3>1, EmptyFacts
    <3>. QED
      BY <1>8, <2>1, <2>2, <3>2 DEF Seeded
  <2>3. CASE urls # <<>> /\ new = <<>>
    <3>1. Len(new) = 0 /\ ToSet(new) = {}
      BY <2>3, EmptyFacts
    <3>2. ToSet(new) = ToSet(urls)
      BY <1>1, <1>7, <2>0, <3>1
    <3>. QED
      BY <1>5, <2>3, <3>1, <3>2, EmptyFacts
  <2>4. CASE urls # <<>> /\ new # <<>>
    <3>1. found' = new
      BY <1>8, <2>4 DEF Seeded
    <3>. QED
      BY <1>7, <1>13, <2>1, <2>4, <3>1 DEF Seeded
  <2>. QED
    BY <2>2, <2>3, <2>4
<1>14. Reached' = Reached /\ Reached[0] = FirstPages
  BY <1>2, <1>3, ReachedSame, ReachedFacts DEF MapTypeOK
<1>15. waiting' \subseteq MapUrls
  <2>1. Prefix(found', mapping.limit) \in Seq(MapUrls)
    BY <1>1, <1>10, PrefixFacts
  <2>. QED
    BY <1>2, <1>3, <2>1, ToSetIn DEF MapTypeOK
<1>16. MapTypeOK'
  <2>1. gaps' \in BOOLEAN
    BY <1>1, <1>4
  <2>. QED
    BY <1>2, <1>3, <1>10, <1>15, <2>1 DEF MapTypeOK
<1>17. LinkedFrom(ToSet(found') \ ToSet(frontier')) \subseteq ToSet(found')
  BY <1>3 DEF LinkedFrom
<1>18. ~gaps' /\ mapping.limit > 0 => ToSet(found') \subseteq Reached'[0]
  BY <1>12, <1>14
<1>19. ~gaps' /\ Len(found') < mapping.limit => Reached'[0] \subseteq ToSet(found')
  BY <1>13, <1>14
<1>20. mapAt' # "start" /\ mapAt' # "links" /\ mapAt' # "answered"
  BY <1>3
<1>21. MapAnswerHolds'
  BY <1>20 DEF MapAnswerHolds
<1>. QED
  BY <1>1, <1>3, <1>10, <1>11, <1>16, <1>17, <1>18, <1>19, <1>20, <1>21 DEF MapInv, LinkedFrom

\* Steps that find nothing: a title arrives, the deadline passes, the client hangs up.
LEMMA QuietKeeps ==
  MapInv /\ (TitlesEnd \/ PassDeadline \/ HangUp \/ \E u \in MapUrls : TitleArrives(u)) => MapInv'
<1>. SUFFICES ASSUME MapInv,
                     TitlesEnd \/ PassDeadline \/ HangUp \/ \E u \in MapUrls : TitleArrives(u)
              PROVE  MapInv'
  OBVIOUS
<1>1. MapTypeOK /\ mapAt # "answered"
  BY DEF MapInv, TitlesEnd, PassDeadline, HangUp, TitleArrives
<1>2. /\ mapping' = mapping /\ found' = found /\ frontier' = frontier /\ level' = level
      /\ gaps' = gaps /\ answer' = answer
      /\ waiting' \subseteq waiting /\ titled' \subseteq MapUrls /\ late' \in BOOLEAN
  BY <1>1 DEF MapTypeOK, TitlesEnd, PassDeadline, HangUp, TitleArrives
<1>3. \/ mapAt' = mapAt
      \/ mapAt' = "gone"
      \/ mapAt = "titles" /\ mapAt' = "level"
  BY DEF TitlesEnd, PassDeadline, HangUp, TitleArrives
<1>4. mapAt' = "links" => mapAt = "links" /\ waiting' = waiting
  BY <1>3 DEF TitlesEnd, PassDeadline, HangUp, TitleArrives
<1>5. Reached' = Reached
  BY <1>2, ReachedSame
<1>6. MapTypeOK'
  BY <1>1, <1>2, <1>3 DEF MapTypeOK
<1>7. MapAnswerHolds'
  BY <1>1, <1>3 DEF MapAnswerHolds
<1>8. /\ IsInjective(found) /\ ToSet(frontier) \subseteq ToSet(found) /\ level <= mapping.depth
      /\ mapAt = "start" => found = <<>> /\ level = 0
      /\ mapping.limit > 0 => Len(found) <= mapping.limit
      /\ mapAt = "links" => /\ level > 0 /\ Len(found) <= mapping.limit
                            /\ waiting # {} => Len(found) < mapping.limit
      /\ ~gaps /\ mapping.limit > 0 /\ mapAt # "start" => ToSet(found) \subseteq Reached[level]
      /\ ~gaps /\ mapAt = "links" => waiting \subseteq Reached[level - 1]
      /\ ~gaps /\ Len(found) < mapping.limit =>
           /\ mapAt \in {"titles", "level"} =>
                /\ Reached[level] \subseteq ToSet(found)
                /\ LinkedFrom(ToSet(found) \ ToSet(frontier)) \subseteq ToSet(found)
           /\ mapAt = "links" =>
                /\ Reached[level - 1] \subseteq ToSet(found) \ ToSet(frontier)
                /\ LinkedFrom(ToSet(found) \ (ToSet(frontier) \cup waiting)) \subseteq ToSet(found)
  BY DEF MapInv
<1>9. ~gaps' /\ mapping'.limit > 0 /\ mapAt' # "start" => ToSet(found') \subseteq Reached'[level']
  <2>1. CASE mapAt = "start"
    <3>1. ToSet(found') = {}
      BY <1>2, <1>8, <2>1, EmptyFacts
    <3>. QED
      BY <3>1
  <2>2. CASE mapAt # "start"
    BY <1>2, <1>5, <1>8, <2>2
  <2>. QED
    BY <2>1, <2>2
<1>10. mapAt' = "links" =>
         /\ mapAt = "links" /\ waiting' = waiting
         /\ level' > 0 /\ Len(found') <= mapping'.limit
         /\ waiting' # {} => Len(found') < mapping'.limit
  BY <1>2, <1>4, <1>8
<1>11. ~gaps' /\ mapAt' = "links" => waiting' \subseteq Reached'[level' - 1]
  BY <1>2, <1>4, <1>5, <1>8
<1>12. ~gaps' /\ Len(found') < mapping'.limit =>
         /\ mapAt' \in {"titles", "level"} =>
              /\ Reached'[level'] \subseteq ToSet(found')
              /\ LinkedFrom(ToSet(found') \ ToSet(frontier')) \subseteq ToSet(found')
         /\ mapAt' = "links" =>
              /\ Reached'[level' - 1] \subseteq ToSet(found') \ ToSet(frontier')
              /\ LinkedFrom(ToSet(found') \ (ToSet(frontier') \cup waiting')) \subseteq ToSet(found')
  <2>1. mapAt' \in {"titles", "level"} => mapAt \in {"titles", "level"}
    BY <1>3
  <2>. QED
    BY <1>2, <1>4, <1>5, <1>8, <2>1
<1>13. mapAt' = "start" => found' = <<>> /\ level' = 0
  BY <1>2, <1>3, <1>8
<1>. QED
  BY <1>2, <1>6, <1>7, <1>8, <1>9, <1>10, <1>11, <1>12, <1>13 DEF MapInv, LinkedFrom

\* A level begins with the pages that were new in the one before.
LEMMA StartLevelKeeps == MapInv /\ StartLevel => MapInv'
<1>. SUFFICES ASSUME MapInv, StartLevel PROVE MapInv'
  OBVIOUS
<1>. DEFINE budget == mapping.limit - Len(found)
<1>1. /\ mapping.limit \in Nat /\ mapping.depth \in Nat /\ Len(found) \in Nat /\ Len(frontier) \in Nat
      /\ MapTypeOK /\ mapAt = "level" /\ level \in Nat
  BY MapConstants DEF MapInv, StartLevel, MapTypeOK
<1>2. Len(found) < mapping.limit /\ level < mapping.depth /\ budget \in Nat /\ mapping.limit > 0
  <2>1. Len(found) < mapping.limit /\ level < mapping.depth
    BY DEF StartLevel
  <2>. QED
    BY <1>1, <2>1
<1>3. /\ mapping' = mapping /\ found' = found /\ titled' = titled /\ late' = late /\ answer' = answer
      /\ level' = level + 1 /\ frontier' = <<>> /\ mapAt' = "links"
      /\ waiting' = ToSet(Prefix(frontier, budget))
      /\ gaps' = (gaps \/ Len(frontier) > budget)
  BY DEF StartLevel
<1>. HIDE DEF budget
<1>4. /\ Prefix(frontier, budget) \in Seq(MapUrls)
      /\ ToSet(Prefix(frontier, budget)) \subseteq ToSet(frontier)
      /\ budget >= Len(frontier) => Prefix(frontier, budget) = frontier
  BY <1>1, <1>2, PrefixFacts DEF MapTypeOK
<1>5. waiting' \subseteq MapUrls
  BY <1>3, <1>4, ToSetIn
<1>6. MapTypeOK'
  BY <1>1, <1>3, <1>5, EmptyFacts DEF MapTypeOK
<1>7. Reached' = Reached
  BY <1>3, ReachedSame
<1>8. level' \in Nat /\ level' > 0 /\ level' <= mapping.depth /\ level' - 1 = level
  BY <1>1, <1>2, <1>3
<1>9. ToSet(frontier') = {}
  BY <1>3, EmptyFacts
<1>10. /\ IsInjective(found) /\ ToSet(frontier) \subseteq ToSet(found)
       /\ ~gaps => ToSet(found) \subseteq Reached[level]
       /\ ~gaps => /\ Reached[level] \subseteq ToSet(found)
                   /\ LinkedFrom(ToSet(found) \ ToSet(frontier)) \subseteq ToSet(found)
  BY <1>1, <1>2 DEF MapInv
<1>11. ASSUME ~gaps' PROVE ~gaps /\ waiting' = ToSet(frontier)
  <2>1. ~gaps /\ ~(Len(frontier) > budget)
    BY <1>3, <1>11
  <2>2. budget >= Len(frontier)
    BY <1>1, <1>2, <2>1
  <2>. QED
    BY <1>3, <1>4, <2>1, <2>2
<1>12. Reached[level] \subseteq Reached[level']
  <2>1. level \in 0..level'
    BY <1>1, <1>3
  <2>. QED
    BY <1>1, <1>8, <2>1, ReachedGrows DEF MapTypeOK
<1>13. ~gaps' => ToSet(found') \subseteq Reached'[level']
  BY <1>3, <1>7, <1>10, <1>11, <1>12
<1>14. ~gaps' => waiting' \subseteq Reached'[level' - 1]
  BY <1>7, <1>8, <1>10, <1>11
<1>15. ~gaps' => /\ Reached'[level' - 1] \subseteq ToSet(found') \ ToSet(frontier')
                 /\ LinkedFrom(ToSet(found') \ (ToSet(frontier') \cup waiting')) \subseteq ToSet(found')
  BY <1>3, <1>7, <1>8, <1>9, <1>10, <1>11
<1>16. MapAnswerHolds'
  BY <1>3 DEF MapAnswerHolds
<1>17. IsInjective(found') /\ ToSet(frontier') \subseteq ToSet(found') /\ Len(found') <= mapping'.limit
       /\ Len(found') < mapping'.limit /\ level' <= mapping'.depth
  BY <1>1, <1>2, <1>3, <1>8, <1>9, <1>10
<1>. QED
  BY <1>3, <1>6, <1>8, <1>13, <1>14, <1>15, <1>16, <1>17 DEF MapInv, LinkedFrom

\* A page that fails leaves a gap.
LEMMA PageFailsKeeps == MapInv /\ (\E u \in MapUrls : PageFails(u)) => MapInv'
<1>. SUFFICES ASSUME MapInv, NEW u \in MapUrls, PageFails(u) PROVE MapInv'
  OBVIOUS
<1>1. /\ mapping' = mapping /\ found' = found /\ frontier' = frontier /\ level' = level
      /\ gaps' = TRUE /\ answer' = answer /\ titled' = titled /\ late' = late
      /\ mapAt = "links" /\ mapAt' = "links" /\ waiting' = waiting \ {u} /\ u \in waiting
  BY DEF PageFails
<1>2. MapTypeOK'
  BY <1>1 DEF MapInv, MapTypeOK
<1>3. MapAnswerHolds'
  BY <1>1 DEF MapAnswerHolds
<1>. QED
  BY <1>1, <1>2, <1>3 DEF MapInv

\* A level ends: every page of the one before was fetched.
LEMMA LinksEndKeeps == MapInv /\ LinksEnd => MapInv'
<1>. SUFFICES ASSUME MapInv, LinksEnd PROVE MapInv'
  OBVIOUS
<1>1. /\ mapping' = mapping /\ found' = found /\ frontier' = frontier /\ level' = level
      /\ gaps' = gaps /\ answer' = answer /\ titled' = titled /\ late' = late
      /\ mapAt = "links" /\ waiting = {} /\ mapAt' \in {"titles", "level"}
      /\ waiting' = ToSet(frontier) \/ waiting' = waiting
  BY DEF LinksEnd
<1>2. MapTypeOK /\ level \in Nat /\ ToSet(frontier) \subseteq MapUrls
  BY ToSetIn DEF MapInv, MapTypeOK
<1>3. MapTypeOK'
  BY <1>1, <1>2 DEF MapTypeOK
<1>4. MapAnswerHolds'
  BY <1>1 DEF MapAnswerHolds
<1>5. Reached' = Reached
  BY <1>1, ReachedSame
<1>6. /\ level > 0 /\ Len(found) <= mapping.limit /\ IsInjective(found)
      /\ ToSet(frontier) \subseteq ToSet(found) /\ level <= mapping.depth
      /\ ~gaps /\ mapping.limit > 0 => ToSet(found) \subseteq Reached[level]
      /\ ~gaps /\ Len(found) < mapping.limit =>
           /\ Reached[level - 1] \subseteq ToSet(found) \ ToSet(frontier)
           /\ LinkedFrom(ToSet(found) \ ToSet(frontier)) \subseteq ToSet(found)
  BY <1>1 DEF MapInv
<1>7. ASSUME ~gaps, Len(found) < mapping.limit PROVE Reached[level] \subseteq ToSet(found)
  <2>1. level - 1 \in Nat /\ (level - 1) + 1 = level
    BY <1>2, <1>6
  <2>2. Reached[level] = Reached[level - 1] \cup LinkedFrom(Reached[level - 1])
    BY <1>2, <2>1, ReachedFacts DEF MapTypeOK
  <2>3. LinkedFrom(Reached[level - 1]) \subseteq LinkedFrom(ToSet(found) \ ToSet(frontier))
    BY <1>6, <1>7 DEF LinkedFrom
  <2>. QED
    BY <1>6, <1>7, <2>2, <2>3
<1>8. ~gaps' /\ mapping'.limit > 0 => ToSet(found') \subseteq Reached'[level']
  BY <1>1, <1>5, <1>6
<1>9. ~gaps' /\ Len(found') < mapping'.limit =>
        /\ Reached'[level'] \subseteq ToSet(found')
        /\ LinkedFrom(ToSet(found') \ ToSet(frontier')) \subseteq ToSet(found')
  BY <1>1, <1>5, <1>6, <1>7
<1>10. IsInjective(found') /\ ToSet(frontier') \subseteq ToSet(found')
       /\ Len(found') <= mapping'.limit /\ level' <= mapping'.depth
  BY <1>1, <1>6
<1>11. mapAt' # "start" /\ mapAt' # "links"
  BY <1>1
<1>. QED
  BY <1>3, <1>4, <1>8, <1>9, <1>10, <1>11 DEF MapInv, LinkedFrom

\* The links of a page are taken as far as they are new and there is room.
LEMMA LinksArriveKeeps == MapInv /\ (\E u \in MapUrls : LinksArrive(u)) => MapInv'
<1>. SUFFICES ASSUME MapInv, NEW u \in MapUrls, LinksArrive(u) PROVE MapInv'
  OBVIOUS
<1>. DEFINE new == News(PageLinks[u])
<1>1. /\ mapping' = mapping /\ level' = level /\ gaps' = gaps /\ answer' = answer
      /\ titled' = titled /\ late' = late
      /\ mapAt = "links" /\ mapAt' = "links" /\ u \in waiting
      /\ found' = found \o new /\ frontier' = frontier \o new
      /\ waiting' = IF Len(found \o new) >= mapping.limit THEN {} ELSE waiting \ {u}
  BY DEF LinksArrive
<1>2. MapTypeOK /\ level \in Nat /\ found \in Seq(MapUrls) /\ frontier \in Seq(MapUrls)
      /\ waiting \subseteq MapUrls
  BY DEF MapInv, MapTypeOK
<1>3. /\ mapping.limit \in Nat /\ Len(found) \in Nat
  BY <1>2, MapConstants
<1>4. /\ level > 0 /\ IsInjective(found)
      /\ ToSet(frontier) \subseteq ToSet(found) /\ level <= mapping.depth
      /\ Len(found) < mapping.limit
      /\ ~gaps /\ mapping.limit > 0 => ToSet(found) \subseteq Reached[level]
      /\ ~gaps => waiting \subseteq Reached[level - 1]
      /\ ~gaps => /\ Reached[level - 1] \subseteq ToSet(found) \ ToSet(frontier)
                  /\ LinkedFrom(ToSet(found) \ (ToSet(frontier) \cup waiting)) \subseteq ToSet(found)
  BY <1>1 DEF MapInv
<1>5. Len(found) <= mapping.limit /\ mapping.limit > 0
  BY <1>3, <1>4
<1>6. PageLinks[u] \in Seq(MapUrls)
  BY SiteMappingAssumption
<1>7. /\ new \in Seq(MapUrls) /\ IsInjective(new)
      /\ ToSet(new) \subseteq ToSet(PageLinks[u]) \ ToSet(found)
      /\ Len(new) <= mapping.limit - Len(found)
      /\ Len(new) < mapping.limit - Len(found)
           => ToSet(new) = ToSet(PageLinks[u]) \ ToSet(found)
  BY <1>2, <1>3, <1>5, <1>6, NewsFacts
<1>. HIDE DEF new
<1>8. /\ found' \in Seq(MapUrls) /\ frontier' \in Seq(MapUrls)
      /\ Len(found') = Len(found) + Len(new)
      /\ ToSet(found') = ToSet(found) \cup ToSet(new)
      /\ ToSet(frontier') = ToSet(frontier) \cup ToSet(new)
      /\ IsInjective(found) /\ IsInjective(new) /\ ToSet(found) \cap ToSet(new) = {}
           => IsInjective(found')
  BY <1>1, <1>2, <1>7, ConcatFacts
<1>9. IsInjective(found') /\ ToSet(frontier') \subseteq ToSet(found')
  BY <1>4, <1>7, <1>8
<1>10. Len(new) \in Nat
  BY <1>7
<1>11. /\ Len(found') <= mapping.limit
       /\ Len(found') < mapping.limit <=> Len(new) < mapping.limit - Len(found)
       /\ Len(found') >= mapping.limit <=> ~(Len(found') < mapping.limit)
  BY <1>3, <1>7, <1>8, <1>10
<1>12. waiting' = IF Len(found') < mapping.limit THEN waiting \ {u} ELSE {}
  BY <1>1, <1>11
<1>13. MapTypeOK'
  BY <1>1, <1>2, <1>8, <1>12 DEF MapTypeOK
<1>14. MapAnswerHolds'
  BY <1>1 DEF MapAnswerHolds
<1>15. Reached' = Reached
  BY <1>1, ReachedSame
<1>16. Reached[level] = Reached[level - 1] \cup LinkedFrom(Reached[level - 1])
  <2>1. level - 1 \in Nat /\ (level - 1) + 1 = level
    BY <1>2, <1>4
  <2>. QED
    BY <1>2, <2>1, ReachedFacts DEF MapTypeOK
<1>17. ASSUME ~gaps PROVE ToSet(found') \subseteq Reached[level]
  <2>1. u \in Reached[level - 1]
    BY <1>1, <1>4, <1>17
  <2>2. ToSet(PageLinks[u]) \subseteq LinkedFrom(Reached[level - 1])
    BY <2>1 DEF LinkedFrom
  <2>. QED
    BY <1>4, <1>5, <1>7, <1>8, <1>16, <1>17, <2>2
<1>18. ~gaps => waiting' \subseteq Reached[level - 1]
  BY <1>4, <1>12
<1>19. ASSUME ~gaps, Len(found') < mapping.limit
       PROVE  /\ Reached[level - 1] \subseteq ToSet(found') \ ToSet(frontier')
              /\ LinkedFrom(ToSet(found') \ (ToSet(frontier') \cup waiting')) \subseteq ToSet(found')
  <2>1. ToSet(new) = ToSet(PageLinks[u]) \ ToSet(found) /\ waiting' = waiting \ {u}
    BY <1>7, <1>11, <1>12, <1>19
  <2>2. Reached[level - 1] \subseteq ToSet(found') \ ToSet(frontier')
    BY <1>4, <1>7, <1>8, <1>19
  <2>3. ToSet(found') \ (ToSet(frontier') \cup waiting')
          \subseteq (ToSet(found) \ (ToSet(frontier) \cup waiting)) \cup {u}
    BY <1>8, <2>1
  <2>4. LinkedFrom(ToSet(found') \ (ToSet(frontier') \cup waiting'))
          \subseteq LinkedFrom(ToSet(found) \ (ToSet(frontier) \cup waiting)) \cup ToSet(PageLinks[u])
    BY <2>3 DEF LinkedFrom
  <2>5. ToSet(PageLinks[u]) \subseteq ToSet(found')
    BY <1>8, <2>1
  <2>. QED
    BY <1>4, <1>8, <1>19, <2>2, <2>4, <2>5
<1>20. waiting' # {} => Len(found') < mapping.limit
  BY <1>12
<1>21. /\ level' > 0 /\ Len(found') <= mapping'.limit /\ level' <= mapping'.depth
       /\ waiting' # {} => Len(found') < mapping'.limit
       /\ ~gaps' => ToSet(found') \subseteq Reached'[level']
       /\ ~gaps' => waiting' \subseteq Reached'[level' - 1]
       /\ ~gaps' /\ Len(found') < mapping'.limit =>
            /\ Reached'[level' - 1] \subseteq ToSet(found') \ ToSet(frontier')
            /\ LinkedFrom(ToSet(found') \ (ToSet(frontier') \cup waiting')) \subseteq ToSet(found')
  BY <1>1, <1>4, <1>11, <1>15, <1>17, <1>18, <1>19, <1>20
<1>. QED
  BY <1>1, <1>9, <1>13, <1>14, <1>21 DEF MapInv, LinkedFrom

\* What was found is answered, as far as the search matches it.
LEMMA AnswerMapKeeps == MapInv /\ AnswerMap => MapInv'
<1>. SUFFICES ASSUME MapInv, AnswerMap PROVE MapInv'
  OBVIOUS
<1>1. /\ mapping' = mapping /\ found' = found /\ frontier' = frontier /\ level' = level
      /\ gaps' = gaps /\ titled' = titled /\ late' = late /\ waiting' = waiting
      /\ mapAt = "level" /\ mapAt' = "answered"
      /\ answer' = Prefix(Filtered(found), mapping.limit)
      /\ level = mapping.depth \/ frontier = <<>> \/ Len(found) >= mapping.limit \/ late
  BY DEF AnswerMap
<1>2. MapTypeOK /\ mapping \in MapRequest /\ level \in Nat /\ found \in Seq(MapUrls)
  BY DEF MapInv, MapTypeOK
<1>3. /\ mapping.limit \in Nat /\ mapping.depth \in Nat /\ mapping.search \in BOOLEAN
      /\ Len(found) \in Nat
  BY <1>2, MapConstants
<1>4. /\ IsInjective(found) /\ level <= mapping.depth
      /\ mapping.limit > 0 => Len(found) <= mapping.limit
      /\ ~gaps /\ mapping.limit > 0 => ToSet(found) \subseteq Reached[level]
      /\ ~gaps /\ Len(found) < mapping.limit =>
           /\ Reached[level] \subseteq ToSet(found)
           /\ LinkedFrom(ToSet(found) \ ToSet(frontier)) \subseteq ToSet(found)
  BY <1>1 DEF MapInv
<1>. DEFINE named == Within(found, UrlMatches)
            others == Within(found, (TitleMatches \cap titled) \ UrlMatches)
            shown == Filtered(found)
<1>5. /\ named \in Seq(MapUrls) /\ others \in Seq(MapUrls)
      /\ IsInjective(named) /\ IsInjective(others)
      /\ ToSet(named) = ToSet(found) \cap UrlMatches
      /\ ToSet(others) = ToSet(found) \cap ((TitleMatches \cap titled) \ UrlMatches)
      /\ Len(named) <= Len(found)
  BY <1>2, <1>4, WithinFacts
<1>6. shown = IF mapping.search THEN named \o others ELSE found
  BY DEF Filtered
<1>. HIDE DEF named, others, shown
<1>7. /\ named \o others \in Seq(MapUrls) /\ IsInjective(named \o others)
      /\ ToSet(named \o others) = ToSet(named) \cup ToSet(others)
      /\ \A i \in DOMAIN named : i \in DOMAIN (named \o others) /\ (named \o others)[i] = named[i]
  <2>1. ToSet(named) \cap ToSet(others) = {}
    BY <1>5
  <2>. QED
    BY <1>5, <2>1, ConcatFacts
<1>8. shown \in Seq(MapUrls) /\ IsInjective(shown) /\ ToSet(shown) \subseteq ToSet(found)
  BY <1>2, <1>3, <1>4, <1>5, <1>6, <1>7
<1>9. /\ answer' \in Seq(MapUrls) /\ Len(answer') <= mapping.limit
      /\ ToSet(answer') \subseteq ToSet(shown) /\ IsInjective(answer')
      /\ \A i \in DOMAIN shown : i <= mapping.limit => shown[i] \in ToSet(answer')
  BY <1>1, <1>3, <1>8, PrefixFacts DEF shown
<1>10. Reached' = Reached
  BY <1>1, ReachedSame
<1>11. MapTypeOK'
  BY <1>1, <1>2, <1>9 DEF MapTypeOK
<1>12. ASSUME ~gaps PROVE ToSet(answer') \subseteq Reached[mapping.depth]
  <2>1. CASE mapping.limit = 0
    <3>1. Len(answer') <= 0
      BY <1>9, <2>1
    <3>2. answer' = <<>>
      BY <1>9, <3>1, EmptyFacts
    <3>. QED
      BY <3>2, EmptyFacts
  <2>2. CASE mapping.limit # 0
    <3>1. mapping.limit > 0
      BY <1>3, <2>2
    <3>2. level \in 0..mapping.depth
      BY <1>2, <1>3, <1>4
    <3>3. Reached[level] \subseteq Reached[mapping.depth]
      BY <1>2, <1>3, <3>2, ReachedGrows
    <3>. QED
      BY <1>4, <1>8, <1>9, <1>12, <3>1, <3>3
  <2>. QED
    BY <2>1, <2>2
<1>13. ASSUME ~gaps, ~late, Len(found) < mapping.limit
       PROVE  Reached[mapping.depth] \subseteq ToSet(found)
  <2>1. /\ Reached[level] \subseteq ToSet(found)
        /\ LinkedFrom(ToSet(found) \ ToSet(frontier)) \subseteq ToSet(found)
    BY <1>4, <1>13
  <2>2. CASE level = mapping.depth
    BY <2>1, <2>2
  <2>3. CASE frontier = <<>>
    <3>1. ToSet(frontier) = {}
      BY <2>3, EmptyFacts
    <3>2. LinkedFrom(ToSet(found)) \subseteq ToSet(found)
      <4>1. ToSet(found) \ ToSet(frontier) = ToSet(found)
        BY <3>1
      <4>. QED
        BY <2>1, <4>1
    <3>3. 0 \in 0..level
      BY <1>2
    <3>4. Reached[0] \subseteq ToSet(found)
      BY <1>2, <2>1, <3>3, ReachedGrows
    <3>. QED
      BY <1>2, <1>3, <3>2, <3>4, ReachedGrows
  <2>4. ~(Len(found) >= mapping.limit)
    BY <1>3, <1>13
  <2>. QED
    BY <1>1, <1>13, <2>2, <2>3, <2>4
<1>14. ASSUME Len(found) < mapping.limit, NEW x \in ToSet(found),
              mapping.search => x \in UrlMatches
       PROVE  x \in ToSet(answer')
  <2>1. CASE mapping.search
    <3>1. x \in ToSet(named)
      BY <1>5, <1>14, <2>1
    <3>2. PICK i \in DOMAIN named : named[i] = x
      BY <3>1 DEF ToSet
    <3>3. i \in DOMAIN shown /\ shown[i] = x
      BY <1>6, <1>7, <2>1, <3>2
    <3>4. i <= mapping.limit
      <4>1. i \in Nat /\ i <= Len(named) /\ Len(named) \in Nat
        BY <1>5
      <4>. QED
        BY <1>3, <1>5, <1>14, <4>1
    <3>. QED
      BY <1>9, <3>3, <3>4
  <2>2. CASE ~mapping.search
    <3>1. shown = found
      BY <1>6, <2>2
    <3>2. PICK i \in DOMAIN found : found[i] = x
      BY DEF ToSet
    <3>3. i <= mapping.limit
      <4>1. i \in Nat /\ i <= Len(found)
        BY <1>2
      <4>. QED
        BY <1>3, <1>14, <4>1
    <3>. QED
      BY <1>9, <3>1, <3>2, <3>3
  <2>. QED
    BY <1>3, <2>1, <2>2
<1>15. MapAnswerHolds'
  <2>1. IsInjective(answer') /\ Len(answer') <= mapping'.limit
    BY <1>1, <1>9
  <2>2. ~gaps' => ToSet(answer') \subseteq Reached'[mapping'.depth]
    BY <1>1, <1>10, <1>12
  <2>3. ASSUME ~gaps', ~late', Len(found') < mapping'.limit,
               NEW x \in Reached'[mapping'.depth],
               x \in IF mapping'.search THEN UrlMatches ELSE MapUrls
        PROVE  x \in ToSet(answer')
    <3>1. ~gaps /\ ~late /\ Len(found) < mapping.limit /\ x \in Reached[mapping.depth]
      BY <1>1, <1>10, <2>3
    <3>2. x \in ToSet(found)
      BY <1>13, <3>1
    <3>3. mapping.search => x \in UrlMatches
      BY <1>1, <2>3
    <3>. QED
      BY <1>14, <3>1, <3>2, <3>3
  <2>. QED
    BY <2>1, <2>2, <2>3 DEF MapAnswerHolds
<1>16. IsInjective(found') /\ ToSet(frontier') \subseteq ToSet(found')
       /\ level' <= mapping'.depth /\ (mapping'.limit > 0 => Len(found') <= mapping'.limit)
  BY <1>1 DEF MapInv
<1>17. ~gaps' /\ mapping'.limit > 0 => ToSet(found') \subseteq Reached'[level']
  BY <1>1, <1>4, <1>10
<1>. QED
  BY <1>1, <1>11, <1>15, <1>16, <1>17 DEF MapInv

\* And each of its steps keeps it so.
LEMMA MapInvStep == MapInv /\ [MapNext]_mapVars => MapInv'
<1>. SUFFICES ASSUME MapInv, [MapNext]_mapVars PROVE MapInv'
  OBVIOUS
<1>1. CASE UNCHANGED mapVars
  <2>1. Reached' = Reached
    BY <1>1, ReachedSame DEF mapVars
  <2>. QED
    BY <1>1, <2>1 DEF mapVars, MapInv, MapTypeOK, MapAnswerHolds, LinkedFrom
<1>2. CASE MapNext
  BY <1>2, ReadSitemapsKeeps, QuietKeeps, StartLevelKeeps, LinksArriveKeeps, PageFailsKeeps,
     LinksEndKeeps, AnswerMapKeeps DEF MapNext
<1>. QED
  BY <1>1, <1>2

-----------------------------------------------------------------------------
(* LinkSelection                                                           *)

\* The words of texts and patterns: that "/" is a string the provers do not know.
Words == STRING \cup {"/"}

\* Strings are words.
LEMMA WordsFacts == "/" \in Words /\ Seq(STRING) \subseteq Seq(Words)
<1>1. STRING \subseteq Words /\ "/" \in Words
  BY DEF Words
<1>. HIDE DEF Words
<1>2. ASSUME NEW s \in Seq(STRING) PROVE s \in Seq(Words)
  <2>1. Len(s) \in Nat /\ s \in [1..Len(s) -> STRING]
    BY LenProperties
  <2>. DEFINE n == Len(s)
  <2>. HIDE DEF n
  <2>2. s \in [1..n -> Words] /\ n \in Nat
    BY <1>1, <2>1 DEF n
  <2>3. \E k \in Nat : s \in [1..k -> Words]
    BY <2>2
  <2>. QED
    BY <2>3, SeqDef
<1>. QED
  BY <1>1, <1>2

\* Where a piece occurs in a text after the first words.
Hits(piece, text, start) ==
  {k \in start + 1 .. Len(text) - Len(piece) + 1 : SubSeq(text, k, k + Len(piece) - 1) = piece}

\* The first of these places.
LEMMA FoundFacts ==
  ASSUME NEW piece \in Seq(Words), NEW text \in Seq(Words), NEW start \in Int
  PROVE  LET hits == Hits(piece, text, start)
         IN  /\ FoundAt(piece, text, start) \in Int
             /\ hits # {} => /\ FoundAt(piece, text, start) \in hits
                             /\ \A k \in hits : FoundAt(piece, text, start) <= k
             /\ hits = {} => FoundAt(piece, text, start) = 0
<1>. DEFINE l == Len(text) - Len(piece) + 1
            hits == Hits(piece, text, start)
<1>1. FoundAt(piece, text, start) = IF hits = {} THEN 0 ELSE Min(hits)
  BY DEF FoundAt, Hits
<1>2. l \in Int /\ start + 1 \in Int
  OBVIOUS
<1>3. hits \subseteq start + 1 .. l
  BY DEF Hits
<1>. HIDE DEF hits, l
<1>4. IsFiniteSet(start + 1 .. l) /\ start + 1 .. l \subseteq Int
  BY <1>2, FS_Interval
<1>5. IsFiniteSet(hits) /\ hits \subseteq Int
  BY <1>3, <1>4, FS_Subset
<1>6. hits # {} => Min(hits) \in hits /\ \A k \in hits : Min(hits) <= k
  BY <1>5, LeastAndMost
<1>7. FoundAt(piece, text, start) \in Int
  <2>1. CASE hits = {}
    BY <1>1, <2>1
  <2>2. CASE hits # {}
    BY <1>1, <1>5, <1>6, <2>2
  <2>. QED
    BY <2>1, <2>2
<1>. QED
  BY <1>1, <1>6, <1>7 DEF hits

\* A piece ends somewhere or nowhere.
LEMMA PieceEndIsInt ==
  ASSUME NEW piece \in Seq(Words), NEW text \in Seq(Words), NEW start \in Int, NEW any
  PROVE  PieceEnd(piece, text, start, any) \in Int
<1>1. FoundAt(piece, text, start) \in Int
  BY FoundFacts
<1>2. Len(piece) \in Int
  OBVIOUS
<1>. QED
  BY <1>1, <1>2 DEF PieceEnd

\* A piece that follows somewhere is found where it is first: it ends no later, and
\* what it skips more of a text without slashes has no slash.
LEMMA PieceIsFound ==
  ASSUME NEW piece \in Seq(Words), NEW text \in Seq(Words), NEW any \in BOOLEAN,
         NEW start \in Nat, NEW l \in Nat, start <= l, l + Len(piece) <= Len(text),
         \A i \in 1..Len(piece) : text[l + i] = piece[i],
         any \/ \A i \in start + 1 .. l : text[i] # "/"
  PROVE  LET end == PieceEnd(piece, text, start, any)
         IN  /\ end \in Nat /\ end <= l + Len(piece)
             /\ any \/ \A i \in end + 1 .. l + Len(piece) : text[i] # "/"
<1>. DEFINE b == Len(piece)
            end == PieceEnd(piece, text, start, any)
<1>1. b \in Nat /\ Len(text) \in Nat
  OBVIOUS
<1>2. CASE piece = <<>>
  <2>1. b = 0 /\ end = start
    BY <1>2 DEF PieceEnd
  <2>. QED
    BY <2>1
<1>3. CASE piece # <<>>
  <2>. DEFINE place == FoundAt(piece, text, start)
              hits == Hits(piece, text, start)
  <2>0. b > 0
    BY <1>1, <1>3
  <2>1. l + 1 \in hits
    <3>1. l + 1 \in start + 1 .. Len(text) - b + 1
      BY <1>1
    <3>. DEFINE part == SubSeq(text, l + 1, (l + 1) + b - 1)
    <3>2. /\ part \in Seq(Words) /\ Len(part) = b
          /\ \A i \in 1..b : part[i] = text[l + 1 + i - 1]
      <4>1. l + 1 \in Nat \ {0} /\ (l + 1) + b - 1 \in Nat /\ (l + 1) + b - 1 <= Len(text)
            /\ l + 1 <= ((l + 1) + b - 1) + 1 /\ ((l + 1) + b - 1) - (l + 1) + 1 = b
        BY <1>1
      <4>. DEFINE x == l + 1
                  y == (l + 1) + b - 1
      <4>2. /\ SubSeq(text, x, y) \in Seq(Words) /\ Len(SubSeq(text, x, y)) = y - x + 1
            /\ \A i \in 1 .. y - x + 1 : SubSeq(text, x, y)[i] = text[x + i - 1]
        <5>. HIDE DEF x, y
        <5>. QED
          BY <4>1, PartFacts DEF x, y
      <4>. QED
        BY <4>1, <4>2
    <3>3. \A i \in 1..b : part[i] = piece[i]
      <4>1. \A i \in 1..b : l + 1 + i - 1 = l + i
        OBVIOUS
      <4>. QED
        BY <3>2, <4>1
    <3>. HIDE DEF part
    <3>4. part = piece
      BY <3>2, <3>3, SameSequence
    <3>. QED
      BY <3>1, <3>4 DEF part, Hits
  <2>2. place \in hits /\ place <= l + 1
    <3>1. start \in Int
      OBVIOUS
    <3>. HIDE DEF hits, place
    <3>2. Hits(piece, text, start) # {}
      BY <2>1 DEF hits
    <3>3. /\ FoundAt(piece, text, start) \in Hits(piece, text, start)
          /\ \A k \in Hits(piece, text, start) : FoundAt(piece, text, start) <= k
      BY <3>1, <3>2, FoundFacts
    <3>. QED
      BY <2>1, <3>3 DEF hits, place
  <2>3. place \in Nat /\ place >= start + 1 /\ place + b - 1 <= Len(text)
        /\ SubSeq(text, place, place + b - 1) = piece
    BY <1>1, <2>2 DEF Hits
  <2>. HIDE DEF hits, place
  <2>4. \A i \in 1..b : piece[i] = text[place + i - 1]
    <3>1. place \in Nat \ {0} /\ place + b - 1 \in Nat /\ place <= (place + b - 1) + 1
          /\ (place + b - 1) - place + 1 = b
      BY <1>1, <2>0, <2>3
    <3>. DEFINE y == place + b - 1
    <3>2. \A i \in 1 .. y - place + 1 : SubSeq(text, place, y)[i] = text[place + i - 1]
      <4>. HIDE DEF y
      <4>. QED
        BY <2>3, <3>1, PartFacts DEF y
    <3>. QED
      BY <2>3, <3>1, <3>2
  <2>5. any \/ ~Contains(SubSeq(text, start + 1, place - 1), "/")
    <3>. SUFFICES ASSUME ~any PROVE ~Contains(SubSeq(text, start + 1, place - 1), "/")
      OBVIOUS
    <3>1. start + 1 \in Nat \ {0} /\ place - 1 \in Nat /\ place - 1 <= Len(text)
          /\ start + 1 <= (place - 1) + 1
      BY <1>1, <2>2, <2>3
    <3>. DEFINE x == start + 1
                y == place - 1
    <3>2. Contains(SubSeq(text, x, y), "/") <=> \E i \in x..y : text[i] = "/"
      <4>. HIDE DEF x, y
      <4>. QED
        BY <3>1, PartFacts DEF x, y
    <3>3. \A i \in x..y : i \in start + 1 .. l
      BY <2>2, <2>3
    <3>. QED
      BY <3>2, <3>3
  <2>6. end = place + b - 1
    <3>1. start # -1 /\ place # 0
      BY <2>3
    <3>. QED
      BY <1>3, <2>5, <3>1 DEF PieceEnd, place
  <2>7. end \in Nat /\ end <= l + b
    BY <1>1, <2>0, <2>2, <2>3, <2>6
  <2>8. ASSUME ~any, NEW i \in end + 1 .. l + b, text[i] = "/" PROVE FALSE
    <3>. DEFINE slashes == {o \in 1..b : piece[o] = "/"}
                o == Min(slashes)
    <3>1. i \in Int /\ i >= start + 1 /\ i > l
      <4>1. i \in Int /\ i >= start + 1
        BY <1>1, <2>0, <2>3, <2>6
      <4>. QED
        BY <2>8, <4>1
    <3>2. i - l \in 1..b /\ l + (i - l) = i
      BY <3>1
    <3>3. i - l \in slashes
      BY <2>8, <3>2
    <3>4. IsFiniteSet(slashes) /\ slashes \subseteq Int
      <4>1. IsFiniteSet(1..b) /\ slashes \subseteq 1..b
        BY <1>1, FS_Interval
      <4>. QED
        BY <4>1, FS_Subset
    <3>. HIDE DEF slashes
    <3>5. o \in slashes /\ \A p \in slashes : o <= p
      BY <3>3, <3>4, LeastAndMost
    <3>. HIDE DEF o
    <3>6. o \in 1..b /\ piece[o] = "/" /\ o <= i - l
      BY <3>3, <3>5 DEF slashes
    <3>7. text[place + o - 1] = "/"
      BY <2>4, <3>6
    <3>8. place + o - 1 >= l + 1
      <4>1. place + o - 1 \in Int /\ place + o - 1 >= start + 1
        BY <2>3, <3>6
      <4>. QED
        BY <2>8, <3>7, <4>1
    <3>. DEFINE q == place + o - 1 - l
    <3>9. q \in 1..b /\ l + q = place + o - 1
      BY <2>2, <2>3, <3>6, <3>8
    <3>10. q \in slashes
      BY <3>7, <3>9 DEF slashes
    <3>11. o <= q
      BY <3>5, <3>10
    <3>12. place >= l + 1
      BY <2>3, <3>6, <3>11
    <3>. QED
      BY <2>2, <2>3, <2>6, <3>1, <3>12
  <2>. QED
    BY <2>7, <2>8
<1>. QED
  BY <1>2, <1>3

\* The last star before a place, 0 if there is none.
StarBefore(glob, n) == Max({0} \cup {k \in 1 .. n - 1 : glob[k] \in Stars})

\* It follows the pattern.
LEMMA StarFacts ==
  ASSUME NEW glob \in Seq(Words)
  PROVE  /\ StarBefore(glob, 1) = 0
         /\ \A n \in 1 .. Len(glob) + 1 : /\ StarBefore(glob, n) \in Nat
                                          /\ StarBefore(glob, n) <= n - 1
         /\ \A n \in 1 .. Len(glob) :
              StarBefore(glob, n + 1) = IF glob[n] \in Stars THEN n ELSE StarBefore(glob, n)
         /\ \A n \in 1 .. Len(glob) + 1 :
              /\ StarBefore(glob, n) = 0 \/ glob[StarBefore(glob, n)] \in Stars
              /\ \A k \in 1 .. n - 1 : glob[k] \in Stars => k <= StarBefore(glob, n)
<1>. DEFINE S(n) == {0} \cup {k \in 1 .. n - 1 : glob[k] \in Stars}
<1>1. \A n \in Nat : /\ Max(S(n)) \in S(n) /\ \A k \in S(n) : Max(S(n)) >= k
  <2>. TAKE n \in Nat
  <2>0. n \in Int /\ 0 \in Int
    OBVIOUS
  <2>1. IsFiniteSet(0 .. n) /\ S(n) \subseteq 0 .. n /\ 0 \in S(n)
    <3>1. IsFiniteSet(0 .. n)
      BY <2>0, FS_Interval
    <3>2. S(n) \subseteq 0 .. n
      <4>. SUFFICES ASSUME NEW k \in S(n) PROVE k \in 0 .. n
        OBVIOUS
      <4>1. k = 0 \/ k \in 1 .. n - 1
        OBVIOUS
      <4>. QED
        BY <4>1
    <3>3. 0 \in S(n)
      OBVIOUS
    <3>. QED
      BY <3>1, <3>2, <3>3
  <2>2. IsFiniteSet(S(n)) /\ S(n) \subseteq Int /\ S(n) # {}
    BY <2>1, FS_Subset
  <2>. HIDE DEF S
  <2>. QED
    BY <2>2, LeastAndMost
<1>2. \A n : StarBefore(glob, n) = Max(S(n))
  BY DEF StarBefore
<1>3. Len(glob) \in Nat
  OBVIOUS
<1>4. S(1) = {0}
  OBVIOUS
<1>5. ASSUME NEW n \in 1 .. Len(glob)
      PROVE  S(n + 1) = IF glob[n] \in Stars THEN S(n) \cup {n} ELSE S(n)
  <2>1. \A k : k \in 1 .. (n + 1) - 1 <=> k \in 1 .. n - 1 \/ k = n
    BY <1>3
  <2>. QED
    BY <2>1
<1>6. ASSUME NEW n \in Nat, NEW k \in S(n) PROVE k \in Nat /\ k <= n
  BY <1>6
<1>7. ASSUME NEW n \in 1 .. Len(glob) + 1, NEW k \in S(n) PROVE k \in Nat /\ k <= n - 1
  BY <1>3, <1>7
<1>12. /\ \A n : \A k \in S(n) : k = 0 \/ glob[k] \in Stars
       /\ \A n : \A k \in 1 .. n - 1 : glob[k] \in Stars => k \in S(n)
  OBVIOUS
<1>. HIDE DEF S
<1>8. \A n \in 1 .. Len(glob) + 1 : n \in Nat
  BY <1>3
<1>9. ASSUME NEW n \in 1 .. Len(glob), glob[n] \in Stars PROVE Max(S(n + 1)) = n
  <2>0. n + 1 \in Nat /\ n \in Nat /\ n + 1 \in 1 .. Len(glob) + 1
    BY <1>3
  <2>1. n + 1 \in Nat /\ n \in Nat /\ n \in S(n + 1) /\ n + 1 \in 1 .. Len(glob) + 1
    <3>1. S(n + 1) = S(n) \cup {n}
      BY <1>5, <1>9
    <3>. QED
      BY <2>0, <3>1
  <2>2. Max(S(n + 1)) >= n /\ Max(S(n + 1)) \in S(n + 1)
    BY <1>1, <2>1
  <2>3. Max(S(n + 1)) \in Nat /\ Max(S(n + 1)) <= (n + 1) - 1
    BY <1>7, <2>1, <2>2
  <2>. QED
    BY <2>1, <2>2, <2>3
<1>10. Max(S(1)) = 0
  <2>1. Max(S(1)) \in S(1)
    BY <1>1
  <2>. QED
    BY <1>4, <2>1
<1>11. \A n \in 1 .. Len(glob) + 1 : Max(S(n)) \in Nat /\ Max(S(n)) <= n - 1
  BY <1>1, <1>7, <1>8
<1>13. ASSUME NEW n \in 1 .. Len(glob) + 1
       PROVE  /\ Max(S(n)) = 0 \/ glob[Max(S(n))] \in Stars
              /\ \A k \in 1 .. n - 1 : glob[k] \in Stars => k <= Max(S(n))
  <2>1. /\ Max(S(n)) \in S(n) /\ Max(S(n)) \in Nat
        /\ \A k \in S(n) : Max(S(n)) >= k
    BY <1>1, <1>8, <1>11
  <2>2. ASSUME NEW k \in 1 .. n - 1, glob[k] \in Stars PROVE k <= Max(S(n))
    <3>1. k \in S(n) /\ k \in Int
      BY <1>12, <2>2
    <3>. QED
      BY <2>1, <3>1
  <2>. QED
    BY <1>12, <2>1, <2>2
<1>14. ASSUME NEW n \in 1 .. Len(glob)
       PROVE  Max(S(n + 1)) = IF glob[n] \in Stars THEN n ELSE Max(S(n))
  BY <1>5, <1>9
<1>. QED
  BY <1>2, <1>10, <1>11, <1>13, <1>14

\* The pieces of a pattern are sequences of its words.
LEMMA PieceFacts ==
  ASSUME NEW glob \in Seq(Words), NEW n \in 1 .. Len(glob) + 1
  PROVE  /\ PieceBefore(glob, n) \in Seq(Words)
         /\ Len(PieceBefore(glob, n)) = n - 1 - StarBefore(glob, n)
         /\ \A i \in 1 .. n - 1 - StarBefore(glob, n) :
              PieceBefore(glob, n)[i] = glob[StarBefore(glob, n) + i]
<1>. DEFINE c == StarBefore(glob, n)
            x == c + 1
            y == n - 1
<1>1. c \in Nat /\ c <= n - 1 /\ Len(glob) \in Nat
  BY StarFacts
<1>2. PieceBefore(glob, n) = SubSeq(glob, x, y)
  BY DEF PieceBefore, StarBefore
<1>. HIDE DEF c
<1>3. x \in Nat \ {0} /\ y \in Nat /\ y <= Len(glob) /\ x <= y + 1 /\ y - x + 1 = n - 1 - c
      /\ \A i : i \in Int => x + i - 1 = c + i
  BY <1>1
<1>4. /\ SubSeq(glob, x, y) \in Seq(Words) /\ Len(SubSeq(glob, x, y)) = y - x + 1
      /\ \A i \in 1 .. y - x + 1 : SubSeq(glob, x, y)[i] = glob[x + i - 1]
  <2>. HIDE DEF x, y
  <2>. QED
    BY <1>3, PartFacts
<1>5. \A i \in 1 .. n - 1 - c : SubSeq(glob, x, y)[i] = glob[c + i]
  <2>1. \A i \in 1 .. n - 1 - c : x + i - 1 = c + i
    BY <1>1
  <2>. HIDE DEF x, y
  <2>. QED
    BY <1>3, <1>4, <2>1
<1>. QED
  BY <1>2, <1>3, <1>4, <1>5 DEF c

\* One step of InOrder at a place of the pattern.
NextEnd(glob, text, any, n, before) ==
  IF n <= Len(glob) /\ glob[n] \notin Stars THEN before
  ELSE PieceEnd(PieceBefore(glob, n), text, before, any)

\* InOrder goes through the pattern by these steps.
LEMMA InOrderFacts ==
  ASSUME NEW glob \in Seq(Words), NEW text \in Seq(Words), NEW any \in BOOLEAN
  PROVE  \E after : /\ after[0] = 0
                    /\ \A n \in 1 .. Len(glob) + 1 :
                         after[n] = NextEnd(glob, text, any, n, after[n - 1])
                    /\ InOrder(glob, text, any) <=> after[Len(glob) + 1] # -1
<1>. DEFINE L == Len(glob) + 1
            A(g) == g = [n \in 0 .. L |->
                           IF n = 0 THEN 0
                           ELSE IF n <= Len(glob) /\ glob[n] \notin Stars THEN g[n - 1]
                           ELSE PieceEnd(PieceBefore(glob, n), text, g[n - 1], any)]
            after == CHOOSE g : A(g)
            step == [p \in (1..L) \X Int |-> NextEnd(glob, text, any, p[1], p[2])]
<1>1. L \in Nat /\ 0 \in Int /\ 0 \in 0..L /\ L \in 0..L
  OBVIOUS
<1>2. step \in [(1..L) \X Int -> Int]
  <2>. SUFFICES ASSUME NEW n \in 1..L, NEW v \in Int PROVE NextEnd(glob, text, any, n, v) \in Int
    OBVIOUS
  <2>1. PieceBefore(glob, n) \in Seq(Words)
    BY PieceFacts
  <2>2. PieceEnd(PieceBefore(glob, n), text, v, any) \in Int
    BY <2>1, PieceEndIsInt
  <2>. QED
    BY <2>2 DEF NextEnd
<1>. HIDE DEF step
<1>3. PICK g \in [0..L -> Int] : WalkTo(g, L, 0, step)
  <2>. HIDE DEF L
  <2>. QED
    BY <1>1, <1>2, WalkEnds
<1>4. A(g)
  <2>. SUFFICES ASSUME NEW n \in 0..L
                PROVE  g[n] = IF n = 0 THEN 0
                              ELSE IF n <= Len(glob) /\ glob[n] \notin Stars THEN g[n - 1]
                              ELSE PieceEnd(PieceBefore(glob, n), text, g[n - 1], any)
    BY <1>3 DEF WalkTo
  <2>1. g[n] = IF n = 0 THEN 0 ELSE step[n, g[n - 1]]
    BY <1>3 DEF WalkTo
  <2>2. CASE n # 0
    <3>1. n \in 1..L /\ n - 1 \in 0..L
      BY <1>1, <2>2
    <3>2. <<n, g[n - 1]>> \in (1..L) \X Int
      BY <3>1
    <3>3. step[n, g[n - 1]] = NextEnd(glob, text, any, n, g[n - 1])
      BY <3>2 DEF step
    <3>. QED
      BY <2>1, <2>2, <3>3 DEF NextEnd
  <2>. QED
    BY <2>1, <2>2
<1>5. A(after)
  <2>. HIDE DEF A
  <2>. QED
    BY <1>4
<1>6. InOrder(glob, text, any) <=> after[L] # -1
  BY DEF InOrder
<1>. HIDE DEF after
<1>7. after[0] = 0
  BY <1>1, <1>5
<1>8. \A n \in 1..L : after[n] = NextEnd(glob, text, any, n, after[n - 1])
  <2>1. \A n \in 1..L : n \in 0..L /\ n # 0
    BY <1>1
  <2>. QED
    BY <1>5, <2>1 DEF NextEnd
<1>. QED
  BY <1>6, <1>7, <1>8

\* One step of GlobMeans at a place of the pattern.
NextReach(glob, text, n, before) ==
  CASE glob[n] = "**" -> {k \in 0..Len(text) : \E l \in before : l <= k}
    [] glob[n] = "*" -> {k \in 0..Len(text) : \E l \in before :
                           l <= k /\ ~Contains(SubSeq(text, l + 1, k), "/")}
    [] OTHER -> {k \in 1..Len(text) : k - 1 \in before /\ text[k] = glob[n]}

\* And so does GlobMeans.
LEMMA GlobMeansFacts ==
  ASSUME NEW glob \in Seq(Words), NEW text \in Seq(Words)
  PROVE  \E reach : /\ reach[0] = {0}
                    /\ \A n \in 0..Len(glob) : reach[n] \subseteq 0..Len(text)
                    /\ \A n \in 1..Len(glob) : reach[n] = NextReach(glob, text, n, reach[n - 1])
                    /\ GlobMeans(text, glob) <=> Len(text) \in reach[Len(glob)]
<1>. DEFINE L == Len(glob)
            V == SUBSET (0..Len(text))
            R(g) == g = [n \in 0..L |->
                          IF n = 0 THEN {0}
                          ELSE CASE glob[n] = "**" -> {k \in 0..Len(text) : \E l \in g[n - 1] : l <= k}
                                 [] glob[n] = "*" -> {k \in 0..Len(text) : \E l \in g[n - 1] :
                                          l <= k /\ ~Contains(SubSeq(text, l + 1, k), "/")}
                                 [] OTHER -> {k \in 1..Len(text) : k - 1 \in g[n - 1] /\ text[k] = glob[n]}]
            reach == CHOOSE g : R(g)
            step == [p \in (1..L) \X V |-> NextReach(glob, text, p[1], p[2])]
<1>1. L \in Nat /\ Len(text) \in Nat /\ 0 \in 0..L /\ {0} \in V /\ L \in 0..L
  OBVIOUS
<1>2. step \in [(1..L) \X V -> V]
  <2>. SUFFICES ASSUME NEW n \in 1..L, NEW v \in V PROVE NextReach(glob, text, n, v) \in V
    OBVIOUS
  <2>1. 1..Len(text) \subseteq 0..Len(text)
    OBVIOUS
  <2>. QED
    BY <2>1 DEF NextReach
<1>. HIDE DEF step, V
<1>3. PICK g \in [0..L -> V] : WalkTo(g, L, {0}, step)
  <2>. HIDE DEF L
  <2>. QED
    BY <1>1, <1>2, WalkEnds
<1>. DEFINE Good(h) == \A n \in 0..L : h[n] = IF n = 0 THEN {0} ELSE NextReach(glob, text, n, h[n - 1])
<1>4. Good(g) /\ DOMAIN g = 0..L /\ g = [n \in 0..L |-> g[n]]
  <2>. SUFFICES ASSUME NEW n \in 0..L
                PROVE  g[n] = IF n = 0 THEN {0} ELSE NextReach(glob, text, n, g[n - 1])
    BY <1>3
  <2>1. g[n] = IF n = 0 THEN {0} ELSE step[n, g[n - 1]]
    BY <1>3 DEF WalkTo
  <2>2. CASE n # 0
    <3>1. n \in 1..L /\ n - 1 \in 0..L
      BY <1>1, <2>2
    <3>2. <<n, g[n - 1]>> \in (1..L) \X V
      BY <3>1
    <3>3. step[n, g[n - 1]] = NextReach(glob, text, n, g[n - 1])
      BY <3>2 DEF step
    <3>. QED
      BY <2>1, <2>2, <3>3
  <2>. QED
    BY <2>1, <2>2
<1>5. \A h : R(h) <=> h = [n \in 0..L |-> IF n = 0 THEN {0} ELSE NextReach(glob, text, n, h[n - 1])]
  BY DEF NextReach
<1>6. R(g)
  <2>. HIDE DEF R
  <2>. QED
    BY <1>4, <1>5
<1>7. R(reach)
  <2>. HIDE DEF R
  <2>. QED
    BY <1>6
<1>8. GlobMeans(text, glob) <=> Len(text) \in reach[L]
  BY DEF GlobMeans
<1>. HIDE DEF reach, R
<1>9. Good(reach)
  BY <1>5, <1>7
<1>10. reach[0] = {0}
  BY <1>1, <1>9
<1>11. \A n \in 1..L : reach[n] = NextReach(glob, text, n, reach[n - 1])
  <2>1. \A n \in 1..L : n \in 0..L /\ n # 0
    BY <1>1
  <2>. QED
    BY <1>9, <2>1
<1>12. \A n \in 0..L : reach[n] \subseteq 0..Len(text)
  <2>1. 1..Len(text) \subseteq 0..Len(text)
    BY <1>1
  <2>2. \A n \in 1..L : reach[n] \subseteq 0..Len(text)
    BY <1>11, <2>1 DEF NextReach
  <2>3. \A n \in 0..L : n = 0 \/ n \in 1..L
    BY <1>1
  <2>. QED
    BY <1>1, <1>10, <2>2, <2>3
<1>. QED
  BY <1>8, <1>10, <1>11, <1>12

\* The piece of a pattern after its star at place c, up to place n, ends at word j of
\* the text, and what is before it may be skipped from `start' on.
LinedUp(glob, text, any, start, c, n, j) ==
  /\ j - (n - c) >= 0
  /\ \A i \in 1 .. n - c : text[j - (n - c) + i] = glob[c + i]
  /\ start \in Nat /\ start <= j - (n - c)
  /\ any \/ \A i \in start + 1 .. j - (n - c) : text[i] # "/"
  /\ c = 0 => j = n

\* A word that is no star: the piece grows.
LEMMA LinedUpWord ==
  ASSUME NEW glob \in Seq(Words), NEW text \in Seq(Words), NEW any \in BOOLEAN, NEW start,
         NEW c \in Nat, NEW n \in Nat, NEW j \in Nat, c <= n,
         LinedUp(glob, text, any, start, c, n, j), text[j + 1] = glob[n + 1]
  PROVE  LinedUp(glob, text, any, start, c, n + 1, j + 1)
<1>1. /\ (j + 1) - ((n + 1) - c) = j - (n - c) /\ n - c \in Nat
      /\ j - (n - c) + (n + 1 - c) = j + 1 /\ c + (n + 1 - c) = n + 1
  OBVIOUS
<1>2. ASSUME NEW i \in 1 .. (n + 1) - c PROVE text[j - (n - c) + i] = glob[c + i]
  <2>1. i \in 1 .. n - c \/ i = n + 1 - c
    BY <1>1
  <2>. QED
    BY <1>1, <2>1 DEF LinedUp
<1>. QED
  BY <1>1, <1>2 DEF LinedUp

\* A star: the piece before it is found, and a new one begins.
LEMMA LinedUpStar ==
  ASSUME NEW glob \in Seq(Words), NEW text \in Seq(Words), NEW any \in BOOLEAN,
         NEW start \in Int,
         NEW n \in 1 .. Len(glob) + 1, NEW j \in 0 .. Len(text), NEW k \in 0 .. Len(text), j <= k,
         LinedUp(glob, text, any, start, StarBefore(glob, n), n - 1, j),
         any \/ \A i \in j + 1 .. k : text[i] # "/"
  PROVE  LinedUp(glob, text, any, PieceEnd(PieceBefore(glob, n), text, start, any), n, n, k)
<1>. DEFINE c == StarBefore(glob, n)
            piece == PieceBefore(glob, n)
            b == n - 1 - c
            l == j - b
            end == PieceEnd(piece, text, start, any)
<1>1. c \in Nat /\ c <= n - 1 /\ Len(glob) \in Nat /\ Len(text) \in Nat /\ n \in Nat /\ n # 0
  BY StarFacts
<1>2. piece \in Seq(Words) /\ Len(piece) = b /\ \A i \in 1..b : piece[i] = glob[c + i]
  BY PieceFacts
<1>3. /\ l >= 0 /\ \A i \in 1 .. b : text[l + i] = glob[c + i]
      /\ start \in Nat /\ start <= l
      /\ any \/ \A i \in start + 1 .. l : text[i] # "/"
  BY DEF LinedUp
<1>4. b \in Nat /\ l \in Nat /\ l + b = j /\ j \in Nat /\ k \in Nat /\ j <= Len(text)
  BY <1>1, <1>3
<1>5. end \in Nat /\ end <= j /\ (any \/ \A i \in end + 1 .. j : text[i] # "/")
  <2>1. \A i \in 1..Len(piece) : text[l + i] = piece[i]
    BY <1>2, <1>3
  <2>. HIDE DEF c, piece, b, l
  <2>2. start <= l /\ l + Len(piece) <= Len(text) /\ l + Len(piece) = j
    BY <1>2, <1>3, <1>4
  <2>3. LET e == PieceEnd(piece, text, start, any)
        IN  /\ e \in Nat /\ e <= l + Len(piece)
            /\ any \/ \A i \in e + 1 .. l + Len(piece) : text[i] # "/"
    <3>1. piece \in Seq(Words) /\ start \in Nat /\ l \in Nat
          /\ (any \/ \A i \in start + 1 .. l : text[i] # "/")
      BY <1>2, <1>3, <1>4
    <3>. QED
      BY ONLY <2>1, <2>2, <3>1, PieceIsFound, text \in Seq(Words), any \in BOOLEAN
  <2>. QED
    BY <2>2, <2>3
<1>. HIDE DEF end
<1>6. any \/ \A i \in end + 1 .. k : text[i] # "/"
  <2>. SUFFICES ASSUME ~any, NEW i \in end + 1 .. k PROVE text[i] # "/"
    OBVIOUS
  <2>1. i \in end + 1 .. j \/ i \in j + 1 .. k
    BY <1>4, <1>5
  <2>. QED
    BY <1>5, <2>1
<1>7. k - (n - n) = k /\ 1 .. n - n = {} /\ end <= k
  BY <1>1, <1>4, <1>5
<1>. HIDE DEF c, piece, b, l
<1>8. LinedUp(glob, text, any, end, n, n, k)
  BY <1>1, <1>4, <1>5, <1>6, <1>7 DEF LinedUp
<1>. QED
  BY <1>8 DEF end, piece

\* What a pattern can reach, the scan keeps up with.
KeepsUp(glob, text, any, reach, after, n) ==
  \A j \in reach[n] : LinedUp(glob, text, any, after[n], StarBefore(glob, n + 1), n, j)

\* From place to place of the pattern.
LEMMA ScanKeepsUp ==
  ASSUME NEW glob \in Seq(Words), NEW text \in Seq(Words), NEW any \in BOOLEAN,
         any \/ \A k \in 1..Len(glob) : glob[k] # "**",
         NEW reach, NEW after, reach[0] = {0}, after[0] = 0,
         \A n \in 0..Len(glob) : reach[n] \subseteq 0..Len(text),
         \A n \in 1..Len(glob) : reach[n] = NextReach(glob, text, n, reach[n - 1]),
         \A n \in 1..Len(glob) + 1 : after[n] = NextEnd(glob, text, any, n, after[n - 1])
  PROVE  \A n \in 0..Len(glob) : KeepsUp(glob, text, any, reach, after, n)
<1>. DEFINE Q(n) == KeepsUp(glob, text, any, reach, after, n)
<1>1. Len(glob) \in Nat /\ Len(text) \in Nat
  OBVIOUS
<1>2. Q(0)
  <2>1. StarBefore(glob, 0 + 1) = 0
    BY StarFacts
  <2>2. LinedUp(glob, text, any, 0, 0, 0, 0)
    BY DEF LinedUp
  <2>. QED
    BY <2>1, <2>2 DEF KeepsUp
<1>3. ASSUME NEW n \in 0 .. Len(glob) - 1, Q(n) PROVE Q(n + 1)
  <2>. DEFINE m == n + 1
              c == StarBefore(glob, m)
  <2>1. m \in 1..Len(glob) /\ m - 1 = n /\ n \in Nat /\ m \in Nat /\ m \in 1..Len(glob) + 1
        /\ n \in 0..Len(glob) /\ m \in 0..Len(glob)
    BY <1>1
  <2>2. c \in Nat /\ c <= n
    BY <2>1, StarFacts
  <2>3. StarBefore(glob, m + 1) = IF glob[m] \in Stars THEN m ELSE c
    BY <2>1, StarFacts
  <2>4. /\ reach[n] \subseteq 0..Len(text) /\ reach[m] = NextReach(glob, text, m, reach[n])
        /\ after[m] = NextEnd(glob, text, any, m, after[n]) /\ m <= Len(glob)
    <3>1. reach[m] = NextReach(glob, text, m, reach[m - 1])
          /\ after[m] = NextEnd(glob, text, any, m, after[m - 1])
      <4>. HIDE DEF m
      <4>. QED
        BY <2>1
    <3>. QED
      BY <1>1, <2>1, <3>1
  <2>5. \A j \in reach[n] : LinedUp(glob, text, any, after[n], c, n, j)
    BY <1>3 DEF KeepsUp
  <2>. HIDE DEF m, c
  <2>6. SUFFICES ASSUME NEW k \in reach[m]
                 PROVE  LinedUp(glob, text, any, after[m], StarBefore(glob, m + 1), m, k)
    BY DEF KeepsUp, m
  <2>7. CASE glob[m] \notin Stars
    <3>1. after[m] = after[n] /\ StarBefore(glob, m + 1) = c
      BY <2>3, <2>4, <2>7 DEF NextEnd
    <3>2. k \in 1..Len(text) /\ k - 1 \in reach[n] /\ text[k] = glob[m]
      BY <2>4, <2>7 DEF NextReach, Stars
    <3>. DEFINE j == k - 1
    <3>3. j \in reach[n] /\ j \in Nat /\ j + 1 = k
      BY <1>1, <3>2
    <3>. HIDE DEF j
    <3>4. LinedUp(glob, text, any, after[n], c, n, j)
      BY <2>5, <3>3
    <3>5. text[j + 1] = glob[n + 1] /\ m = n + 1
      BY <3>2, <3>3 DEF m
    <3>6. LinedUp(glob, text, any, after[n], c, n + 1, j + 1)
      BY <2>1, <2>2, <3>3, <3>4, <3>5, LinedUpWord
    <3>. QED
      BY <3>1, <3>3, <3>5, <3>6
  <2>8. CASE glob[m] \in Stars
    <3>1. /\ after[m] = PieceEnd(PieceBefore(glob, m), text, after[n], any)
          /\ StarBefore(glob, m + 1) = m
      BY <2>3, <2>4, <2>8 DEF NextEnd
    <3>2. PICK j \in reach[n] : /\ j \in 0..Len(text) /\ k \in 0..Len(text) /\ j <= k
                                /\ any \/ \A i \in j + 1 .. k : text[i] # "/"
      <4>1. CASE glob[m] = "**"
        <5>1. k \in {q \in 0..Len(text) : \E l \in reach[n] : l <= q}
          BY <2>4, <4>1 DEF NextReach
        <5>2. any
          BY <2>1, <4>1
        <5>. QED
          BY <2>4, <5>1, <5>2
      <4>2. CASE glob[m] = "*"
        <5>1. k \in {q \in 0..Len(text) : \E l \in reach[n] :
                       l <= q /\ ~Contains(SubSeq(text, l + 1, q), "/")}
          BY <2>4, <4>2 DEF NextReach
        <5>2. PICK l \in reach[n] : l <= k /\ ~Contains(SubSeq(text, l + 1, k), "/")
          BY <5>1
        <5>3. l \in 0..Len(text) /\ k \in 0..Len(text)
          BY <2>4, <5>1
        <5>. DEFINE a == l + 1
        <5>4. a \in Nat \ {0} /\ k \in Nat /\ k <= Len(text) /\ a <= k + 1
          BY <1>1, <5>2, <5>3
        <5>. HIDE DEF a
        <5>5. Contains(SubSeq(text, a, k), "/") <=> \E i \in a..k : text[i] = "/"
          BY <5>4, PartFacts
        <5>. QED
          BY <5>2, <5>3, <5>5 DEF a
      <4>. QED
        BY <2>8, <4>1, <4>2 DEF Stars
    <3>3. LinedUp(glob, text, any, after[n], StarBefore(glob, m), m - 1, j)
      BY <2>1, <2>5, <3>2 DEF c
    <3>4. after[n] \in Int
      BY <3>3 DEF LinedUp
    <3>5. LinedUp(glob, text, any, PieceEnd(PieceBefore(glob, m), text, after[n], any), m, m, k)
      BY <2>1, <3>2, <3>3, <3>4, LinedUpStar
    <3>. QED
      BY <3>1, <3>5
  <2>. QED
    BY <2>7, <2>8
<1>. HIDE DEF Q
<1>4. \A n \in 0 .. Len(glob) : Q(n)
  <2>. DEFINE A == {n \in Nat : n <= Len(glob) => Q(n)}
  <2>1. 0 \in A
    BY <1>2
  <2>2. \A n \in A : n + 1 \in A
    <3>. TAKE n \in A
    <3>1. n \in Nat /\ n + 1 \in Nat
      OBVIOUS
    <3>2. ASSUME n + 1 <= Len(glob) PROVE Q(n + 1)
      <4>1. n \in 0 .. Len(glob) - 1 /\ n <= Len(glob)
        BY <1>1, <3>1, <3>2
      <4>2. Q(n)
        BY <4>1
      <4>. QED
        BY <1>3, <4>1, <4>2
    <3>. QED
      BY <3>1, <3>2
  <2>. HIDE DEF A
  <2>3. \A n \in Nat : n \in A
    BY <2>1, <2>2, CountingUp
  <2>. QED
    BY <1>1, <2>3 DEF A
<1>. QED
  BY <1>4 DEF Q

\* What a pattern means it matches, unless it mixes both kinds of star.
LEMMA MeantIsMatched ==
  ASSUME NEW glob \in Seq(Words), NEW text \in Seq(Words), GlobMeans(text, glob), ~Mixed(glob)
  PROVE  MatchesGlob(text, glob)
<1>. DEFINE L == Len(glob)
            N == Len(text)
            any == Doubles(glob) # {}
<1>1. L \in Nat /\ N \in Nat /\ DOMAIN glob = 1..L /\ any \in BOOLEAN
  OBVIOUS
<1>2. any \/ \A k \in 1..L : glob[k] # "**"
  BY <1>1 DEF Doubles
<1>3. PICK reach : /\ reach[0] = {0}
                   /\ \A n \in 0..L : reach[n] \subseteq 0..N
                   /\ \A n \in 1..L : reach[n] = NextReach(glob, text, n, reach[n - 1])
                   /\ GlobMeans(text, glob) <=> N \in reach[L]
  BY GlobMeansFacts
<1>4. PICK after : /\ after[0] = 0
                   /\ \A n \in 1 .. L + 1 : after[n] = NextEnd(glob, text, any, n, after[n - 1])
                   /\ InOrder(glob, text, any) <=> after[L + 1] # -1
  <2>. HIDE DEF any
  <2>. QED
    BY <1>1, InOrderFacts
<1>5. \A n \in 0..L : KeepsUp(glob, text, any, reach, after, n)
  <2>. HIDE DEF any
  <2>. QED
    BY ZenonT(60), <1>1, <1>2, <1>3, <1>4, ScanKeepsUp
<1>6. N \in reach[L] /\ LinedUp(glob, text, any, after[L], StarBefore(glob, L + 1), L, N)
  BY <1>1, <1>3, <1>5 DEF KeepsUp
<1>7. L + 1 \in 1 .. L + 1 /\ (L + 1) - 1 = L
  BY <1>1
<1>8. /\ StarBefore(glob, L + 1) \in Nat /\ StarBefore(glob, L + 1) <= L
      /\ StarBefore(glob, L + 1) = 0 \/ glob[StarBefore(glob, L + 1)] \in Stars
      /\ \A k \in 1 .. L : glob[k] \in Stars => k <= StarBefore(glob, L + 1)
  BY <1>1, <1>7, StarFacts
<1>9. InOrder(glob, text, any)
  <2>1. after[L + 1] = PieceEnd(PieceBefore(glob, L + 1), text, after[L], any)
    <3>1. after[L + 1] = NextEnd(glob, text, any, L + 1, after[L])
      BY <1>4, <1>7
    <3>. QED
      BY <1>1, <3>1 DEF NextEnd
  <2>2. after[L] \in Int /\ N \in 0..N /\ N <= N /\ \A i \in N + 1 .. N : text[i] # "/"
    BY <1>1, <1>6 DEF LinedUp
  <2>. HIDE DEF any, L, N
  <2>3. LinedUp(glob, text, any, PieceEnd(PieceBefore(glob, L + 1), text, after[L], any),
                L + 1, L + 1, N)
    BY <1>1, <1>6, <1>7, <2>2, LinedUpStar DEF L, N
  <2>4. after[L + 1] \in Nat
    BY <2>1, <2>3 DEF LinedUp
  <2>. QED
    BY <1>4, <2>4
<1>10. ASSUME NEW d, Doubles(glob) = {d}
       PROVE  /\ IsPrefix(SubSeq(glob, 1, d - 1), text)
              /\ IsSuffix(SubSeq(glob, d + 1, Len(glob)), text)
  <2>1. d \in 1..L /\ d \in Nat /\ d # 0 /\ glob[d] = "**" /\ \A k \in 1..L : glob[k] = "**" => k = d
    BY <1>1, <1>10 DEF Doubles
  <2>2. \A k \in 1..L : glob[k] \in Stars => k = d
    <3>1. Contains(glob, "**")
      BY <2>1 DEF Contains
    <3>2. \A k \in 1..L : glob[k] # "*"
      BY <3>1 DEF Contains, Mixed
    <3>. QED
      BY <2>1, <3>2 DEF Stars
  <2>3. StarBefore(glob, L + 1) = d
    <3>1. d <= StarBefore(glob, L + 1)
      BY <1>8, <2>1 DEF Stars
    <3>. QED
      BY <1>1, <1>8, <2>1, <2>2, <3>1
  <2>4. StarBefore(glob, d) = 0
    <3>1. /\ StarBefore(glob, d) \in Nat /\ StarBefore(glob, d) <= d - 1
          /\ StarBefore(glob, d) = 0 \/ glob[StarBefore(glob, d)] \in Stars
      BY <1>1, <2>1, StarFacts
    <3>. QED
      BY <1>1, <2>1, <2>2, <3>1
  <2>5. \E j \in 0..N : LinedUp(glob, text, any, after[d - 1], 0, d - 1, j)
    <3>1. reach[d - 1] # {}
      <4>1. reach[d] # {}
        <5>. DEFINE A == {n \in Nat : n <= L - d => reach[L - n] # {}}
        <5>1. 0 \in A
          BY <1>1, <1>6
        <5>2. \A n \in A : n + 1 \in A
          <6>. TAKE n \in A
          <6>1. n \in Nat /\ n + 1 \in Nat
            OBVIOUS
          <6>2. ASSUME n + 1 <= L - d PROVE reach[L - (n + 1)] # {}
            <7>. DEFINE m == L - n
            <7>1. n <= L - d /\ m \in 1..L /\ m - 1 = L - (n + 1)
              BY <1>1, <2>1, <6>1, <6>2
            <7>2. reach[m] # {}
              BY <7>1
            <7>. HIDE DEF m
            <7>3. reach[m] = NextReach(glob, text, m, reach[m - 1])
              BY <1>3, <7>1
            <7>4. reach[m - 1] # {}
              BY <7>2, <7>3 DEF NextReach
            <7>. QED
              BY <7>1, <7>4
          <6>. QED
            BY <6>1, <6>2
        <5>. HIDE DEF A
        <5>3. \A n \in Nat : n \in A
          BY <5>1, <5>2, CountingUp
        <5>4. L - d \in Nat /\ L - (L - d) = d
          BY <1>1, <2>1
        <5>5. L - d \in A
          BY <5>3, <5>4
        <5>. QED
          BY <5>4, <5>5 DEF A
      <4>2. reach[d] = NextReach(glob, text, d, reach[d - 1])
        BY <1>3, <2>1
      <4>. QED
        BY <4>1, <4>2 DEF NextReach
    <3>2. d - 1 \in 0..L /\ (d - 1) + 1 = d
      BY <1>1, <2>1
    <3>3. PICK j : j \in reach[d - 1]
      BY <3>1
    <3>4. j \in 0..N
      BY <1>3, <3>2, <3>3
    <3>5. KeepsUp(glob, text, any, reach, after, d - 1)
      BY <1>5, <3>2
    <3>6. LinedUp(glob, text, any, after[d - 1], StarBefore(glob, (d - 1) + 1), d - 1, j)
      BY <3>3, <3>5 DEF KeepsUp
    <3>. QED
      BY <2>4, <3>2, <3>4, <3>6
  <2>6. IsPrefix(SubSeq(glob, 1, d - 1), text)
    <3>. DEFINE p == SubSeq(glob, 1, d - 1)
                e == d - 1
    <3>1. e \in Nat /\ e <= L /\ 1 <= e + 1 /\ e - 1 + 1 = e /\ \A i \in 1..e : 1 + i - 1 = i
      BY <1>1, <2>1
    <3>2. p \in Seq(Words) /\ Len(p) = e /\ \A i \in 1..e : p[i] = glob[i]
      <4>. HIDE DEF e
      <4>1. SubSeq(glob, 1, e) \in Seq(Words) /\ Len(SubSeq(glob, 1, e)) = e - 1 + 1
            /\ \A i \in 1 .. e - 1 + 1 : SubSeq(glob, 1, e)[i] = glob[1 + i - 1]
        BY <3>1, PartFacts
      <4>2. SubSeq(glob, 1, e) \in Seq(Words) /\ Len(SubSeq(glob, 1, e)) = e
            /\ \A i \in 1 .. e : SubSeq(glob, 1, e)[i] = glob[i]
        BY <3>1, <4>1
      <4>. QED
        BY <4>2 DEF e
    <3>3. PICK j \in 0..N : LinedUp(glob, text, any, after[d - 1], 0, e, j)
      BY <2>5
    <3>. HIDE DEF p, e, any
    <3>4. j = e /\ \A i \in 1 .. e - 0 : text[j - (e - 0) + i] = glob[0 + i]
      BY <3>3 DEF LinedUp
    <3>5. e <= N /\ \A i \in 1 .. e : text[i] = glob[i]
      <4>1. e <= N
        BY <1>1, <3>3, <3>4
      <4>2. ASSUME NEW i \in 1..e PROVE text[i] = glob[i]
        <5>1. i \in 1 .. e - 0 /\ e - (e - 0) + i = i /\ 0 + i = i
          BY <3>1
        <5>. QED
          BY <3>4, <5>1
      <4>. QED
        BY <4>1, <4>2
    <3>6. IsPrefix(p, text)
      BY <3>2, <3>5, PrefixIs
    <3>. QED
      BY <3>6 DEF p
  <2>7. IsSuffix(SubSeq(glob, d + 1, Len(glob)), text)
    <3>. DEFINE a == d + 1
                s == SubSeq(glob, a, L)
                b == L - d
    <3>1. a \in Nat \ {0} /\ a <= L + 1 /\ b \in Nat /\ L - a + 1 = b
          /\ \A i \in 1..b : a + i - 1 = d + i
      BY <1>1, <2>1
    <3>2. s \in Seq(Words) /\ Len(s) = b /\ \A i \in 1..b : s[i] = glob[d + i]
      <4>. HIDE DEF a, b
      <4>1. s \in Seq(Words) /\ Len(s) = L - a + 1
            /\ \A i \in 1 .. L - a + 1 : s[i] = glob[a + i - 1]
        <5>. HIDE DEF L
        <5>1. L <= Len(glob) /\ L \in Nat
          BY <1>1 DEF L
        <5>. QED
          BY <3>1, <5>1, PartFacts
      <4>. QED
        BY <3>1, <4>1
    <3>. HIDE DEF any
    <3>3. N - b >= 0 /\ \A i \in 1..b : text[N - b + i] = glob[d + i]
      BY <1>6, <2>3 DEF LinedUp
    <3>. HIDE DEF s, b, a
    <3>4. b <= N
      BY <1>1, <3>1, <3>3
    <3>5. IsSuffix(s, text)
      BY <3>2, <3>3, <3>4, SuffixIs
    <3>. QED
      BY <3>5 DEF s, a
  <2>. QED
    BY <2>6, <2>7
<1>11. CASE Cardinality(Doubles(glob)) = 1
  <2>1. IsFiniteSet(Doubles(glob))
    <3>1. Doubles(glob) \subseteq 1..L
      BY <1>1 DEF Doubles
    <3>2. IsFiniteSet(1..L)
      BY <1>1, FS_Interval
    <3>. QED
      BY <3>1, <3>2, FS_Subset
  <2>2. PICK d : Doubles(glob) = {d}
    BY <1>11, <2>1, FS_Singleton
  <2>3. \A k \in Doubles(glob) : /\ IsPrefix(SubSeq(glob, 1, k - 1), text)
                                 /\ IsSuffix(SubSeq(glob, k + 1, Len(glob)), text)
    BY <1>10, <2>2
  <2>. QED
    BY <1>11, <2>3 DEF MatchesGlob
<1>12. CASE Cardinality(Doubles(glob)) # 1 /\ (Contains(glob, "*") \/ Doubles(glob) # {})
  BY <1>9, <1>12 DEF MatchesGlob
<1>13. CASE Cardinality(Doubles(glob)) # 1 /\ ~(Contains(glob, "*") \/ Doubles(glob) # {})
  <2>1. \A k \in 1..L : glob[k] \notin Stars
    BY <1>1, <1>2, <1>13 DEF Contains, Stars
  <2>2. StarBefore(glob, L + 1) = 0
    <3>1. StarBefore(glob, L + 1) \notin 1..L
      BY <1>8, <2>1
    <3>. QED
      BY <1>1, <1>8, <3>1
  <2>3. LinedUp(glob, text, any, after[L], 0, L, N)
    BY <1>6, <2>2
  <2>4. N = L /\ \A i \in 1 .. L - 0 : text[N - (L - 0) + i] = glob[0 + i]
    <3>. HIDE DEF any, L, N
    <3>. QED
      BY <2>3 DEF LinedUp
  <2>5. ASSUME NEW i \in 1..L PROVE text[i] = glob[i]
    <3>1. i \in 1 .. L - 0 /\ N - (L - 0) + i = i /\ 0 + i = i
      BY <1>1, <2>4
    <3>. QED
      BY <2>4, <3>1
  <2>6. text = glob
    BY <2>4, <2>5, SameSequence
  <2>. QED
    BY <1>13, <2>6 DEF MatchesGlob
<1>. QED
  BY <1>11, <1>12, <1>13

\* A reference that has a host.
FullReference ==
  [kind : STRING, scheme : STRING, host : Seq(STRING), path : Seq(STRING), dropped : STRING]

\* A link.
Link ==
  [url : [scheme : STRING, host : Seq(STRING), path : Seq(STRING)], depth : Nat]

\* The types.
LinksTyped ==
  /\ linkRule \in LinkSettings /\ seedHost \in Seq(STRING) /\ hostNow \in Seq(STRING)
  /\ hops \in Nat /\ hrefs \in Seq(References) /\ chosen \in Seq(Link) /\ strayed \in BOOLEAN

\* Each link is a reference that passes, taken once, below the limit.
LinksPassed ==
  /\ \A i \in DOMAIN chosen :
       \E ref \in FullReference :
         Passes(ref) /\ chosen[i] = [url |-> Normal(ref), depth |-> hops + 1]
  /\ \A i, k \in DOMAIN chosen : i # k => chosen[k].url # chosen[i].url
  /\ chosen # <<>> => hops < linkRule.maxDepth

\* Each reference of the page that passes is among them.
PassedAreLinks ==
  chosen # <<>> =>
    \A i \in DOMAIN hrefs :
      Passes(Resolved(hrefs[i])) =>
        \E k \in DOMAIN chosen : chosen[k].url = Normal(Resolved(hrefs[i]))

\* The page at hand belongs to the host of the start URL.
StaysInside ==
  linkRule.allowed = {} /\ ~linkRule.external /\ ~strayed =>
    IsSuffix(BareHost(seedHost), BareHost(hostNow))

\* Together.
LinksInv == LinksTyped /\ LinksPassed /\ PassedAreLinks /\ StaysInside

\* A host without its "www." is a host.
LEMMA BareHostFacts ==
  ASSUME NEW host \in Seq(STRING)
  PROVE  BareHost(host) \in Seq(STRING)
<1>1. CASE Len(host) > 1
  <2>1. host # <<>>
    BY <1>1
  <2>2. Tail(host) \in Seq(STRING)
    BY <2>1
  <2>. QED
    BY <2>2 DEF BareHost
<1>2. CASE ~(Len(host) > 1)
  BY <1>2 DEF BareHost
<1>. QED
  BY <1>1, <1>2

\* The text of a URL is a sequence of words.
LEMMA UrlTextFacts ==
  ASSUME NEW ref \in FullReference
  PROVE  /\ UrlText(Normal(ref)) \in Seq(Words)
         /\ Normal(ref) \in [scheme : STRING, host : Seq(STRING), path : Seq(STRING)]
<1>. DEFINE m == Len(ref.path)
            tail == [k \in 1 .. 2 * m |-> IF k % 2 = 1 THEN "/" ELSE ref.path[k \div 2]]
            last == IF ref.path = <<>> THEN <<"/">> ELSE tail
            head == <<ref.scheme, "/", "/">>
<1>1. /\ ref.scheme \in STRING /\ ref.host \in Seq(STRING) /\ ref.path \in Seq(STRING)
  BY DEF FullReference
<1>0. "/" \in Words /\ STRING \subseteq Words /\ Seq(STRING) \subseteq Seq(Words)
  BY WordsFacts DEF Words
<1>. HIDE DEF Words
<1>2. Normal(ref) = [scheme |-> ref.scheme, host |-> ref.host, path |-> ref.path]
  BY DEF Normal
<1>3. tail \in Seq(Words)
  <2>1. m \in Nat /\ 2 * m \in Nat
    BY <1>1
  <2>2. ASSUME NEW k \in 1 .. 2 * m, k % 2 # 1 PROVE k \div 2 \in 1 .. m
    BY <2>1, <2>2
  <2>3. \A i \in 1..m : ref.path[i] \in Words
    BY <1>0, <1>1
  <2>4. ASSUME NEW k \in 1 .. 2 * m
        PROVE  (IF k % 2 = 1 THEN "/" ELSE ref.path[k \div 2]) \in Words
    <3>. HIDE DEF m
    <3>1. CASE k % 2 = 1
      BY <1>0, <3>1, Zenon
    <3>2. CASE k % 2 # 1
      <4>1. k \div 2 \in 1 .. m
        BY <2>2, <3>2
      <4>2. ref.path[k \div 2] \in Words
        BY <2>3, <4>1
      <4>. QED
        BY <3>2, <4>2
    <3>. QED
      BY <3>1, <3>2
  <2>5. tail \in [1 .. 2 * m -> Words]
    <3>. HIDE DEF m
    <3>. QED
      BY <2>4
  <2>. HIDE DEF tail, m
  <2>. QED
    BY <2>1, <2>5, IsASeq
<1>4. head \in Seq(Words) /\ <<"/">> \in Seq(Words)
  BY <1>0, <1>1, ThreeWords
<1>5. last \in Seq(Words)
  <2>. HIDE DEF tail
  <2>. QED
    BY <1>3, <1>4, Zenon
<1>6. UrlText(Normal(ref)) = head \o ref.host \o last
  <2>1. /\ Normal(ref).scheme = ref.scheme /\ Normal(ref).host = ref.host
        /\ Normal(ref).path = ref.path
    BY <1>2
  <2>. QED
    BY <2>1, Zenon DEF UrlText
<1>. HIDE DEF head, last, tail, m
<1>7. head \o ref.host \o last \in Seq(Words)
  <2>1. ref.host \in Seq(Words)
    BY <1>0, <1>1
  <2>. QED
    BY <1>4, <1>5, <2>1
<1>. QED
  <2>1. Normal(ref) \in [scheme : STRING, host : Seq(STRING), path : Seq(STRING)]
    BY <1>1, <1>2
  <2>. QED
    BY <1>6, <1>7, <2>1

\* The links that the first n references make.
TakenFrom(links, refs, n) ==
  /\ \A i \in DOMAIN links :
       \E ref \in FullReference :
         Passes(ref) /\ links[i] = [url |-> Normal(ref), depth |-> hops + 1]
  /\ \A i, k \in DOMAIN links : i # k => links[k].url # links[i].url
  /\ \A i \in 1..n : Passes(refs[i]) => \E k \in DOMAIN links : links[k].url = Normal(refs[i])

\* One reference more.
LEMMA TakeHrefKeeps ==
  ASSUME NEW refs \in Seq(FullReference), NEW n \in Nat, n + 1 <= Len(refs), NEW links \in Seq(Link),
         hops \in Nat, TakenFrom(links, refs, n)
  PROVE  TakenFrom(TakeHref(links, refs[n + 1]), refs, n + 1)
<1>. DEFINE ref == refs[n + 1]
            link == [url |-> Normal(ref), depth |-> hops + 1]
            after == TakeHref(links, ref)
<1>1. ref \in FullReference /\ n + 1 \in Nat /\ \A i \in 1 .. n + 1 : i \in 1..n \/ i = n + 1
  <2>1. n + 1 \in 1..Len(refs)
    OBVIOUS
  <2>. QED
    BY <2>1
<1>2. link \in Link
  <2>1. Normal(ref) \in [scheme : STRING, host : Seq(STRING), path : Seq(STRING)]
    BY <1>1, UrlTextFacts
  <2>. QED
    BY <2>1 DEF Link
<1>3. /\ \A i \in DOMAIN links :
           \E r \in FullReference :
             Passes(r) /\ links[i] = [url |-> Normal(r), depth |-> hops + 1]
      /\ \A i, k \in DOMAIN links : i # k => links[k].url # links[i].url
      /\ \A i \in 1..n : Passes(refs[i]) => \E k \in DOMAIN links : links[k].url = Normal(refs[i])
  BY DEF TakenFrom
<1>4. link.url = Normal(ref)
  OBVIOUS
<1>5. CASE Passes(ref) /\ ~\E i \in DOMAIN links : links[i].url = Normal(ref)
  <2>1. after = Append(links, link)
    BY <1>5 DEF TakeHref
  <2>. DEFINE m == Len(links) + 1
  <2>2. /\ m \in Nat /\ DOMAIN links = 1..Len(links) /\ Len(links) \in Nat
        /\ DOMAIN Append(links, link) = 1..m
        /\ \A i \in 1..m : i \in 1..Len(links) \/ i = m
        /\ \A i \in DOMAIN links : i \in 1..m /\ i # m
    BY <1>2
  <2>3. /\ \A i \in 1..Len(links) : Append(links, link)[i] = links[i]
        /\ Append(links, link)[m] = link
    BY <1>2
  <2>. HIDE DEF m, link, ref
  <2>. DEFINE more == Append(links, link)
  <2>. HIDE DEF more
  <2>4. /\ DOMAIN more = 1..m
        /\ \A i \in DOMAIN links : more[i] = links[i]
        /\ more[m] = link /\ m \in 1..m
    BY <2>2, <2>3 DEF more
  <2>5. ASSUME NEW i \in DOMAIN more
        PROVE  \E r \in FullReference : Passes(r) /\ more[i] = [url |-> Normal(r), depth |-> hops + 1]
    <3>1. CASE i = m
      <4>1. more[i] = [url |-> Normal(ref), depth |-> hops + 1]
        BY <2>4, <3>1 DEF link
      <4>. QED
        BY <1>1, <1>5, <4>1
    <3>2. CASE i \in DOMAIN links
      BY <1>3, <2>4, <3>2
    <3>. QED
      BY <2>2, <2>4, <3>1, <3>2
  <2>6. \A i, k \in DOMAIN more : i # k => more[k].url # more[i].url
    BY <1>3, <1>4, <1>5, <2>2, <2>4
  <2>7. ASSUME NEW i \in 1 .. n + 1, Passes(refs[i])
        PROVE  \E k \in DOMAIN more : more[k].url = Normal(refs[i])
    <3>1. CASE i \in 1..n
      BY <1>3, <2>2, <2>4, <2>7, <3>1
    <3>2. CASE i = n + 1
      BY <1>4, <2>4, <3>2 DEF ref
    <3>. QED
      BY <1>1, <3>1, <3>2
  <2>. QED
    BY <2>1, <2>5, <2>6, <2>7 DEF TakenFrom, more, ref
<1>6. CASE ~(Passes(ref) /\ ~\E i \in DOMAIN links : links[i].url = Normal(ref))
  <2>1. after = links
    BY <1>6 DEF TakeHref
  <2>2. ASSUME NEW i \in 1 .. n + 1, Passes(refs[i])
        PROVE  \E k \in DOMAIN links : links[k].url = Normal(refs[i])
    BY <1>1, <1>3, <1>6, <2>2
  <2>. QED
    BY <1>3, <2>1, <2>2 DEF TakenFrom
<1>. QED
  BY <1>5, <1>6

\* All the references of a page.
LEMMA ExtractFacts ==
  ASSUME NEW refs \in Seq(FullReference), hops \in Nat, linkRule.maxDepth \in Nat
  PROVE  /\ Extract(refs) \in Seq(Link)
         /\ Extract(refs) # <<>> => hops < linkRule.maxDepth /\ TakenFrom(Extract(refs), refs, Len(refs))
<1>. DEFINE n == Len(refs)
            K(g) == g = [i \in 0..n |-> IF i = 0 THEN <<>> ELSE TakeHref(g[i - 1], refs[i])]
            step == [p \in (1..n) \X Seq(Link) |-> TakeHref(p[2], refs[p[1]])]
            links == CHOOSE g : K(g)
<1>1. n \in Nat /\ <<>> \in Seq(Link) /\ \A i \in 1..n : refs[i] \in FullReference
  OBVIOUS
<1>2. step \in [(1..n) \X Seq(Link) -> Seq(Link)]
  <2>. SUFFICES ASSUME NEW i \in 1..n, NEW v \in Seq(Link)
                PROVE  TakeHref(v, refs[i]) \in Seq(Link)
    OBVIOUS
  <2>1. Normal(refs[i]) \in [scheme : STRING, host : Seq(STRING), path : Seq(STRING)]
    BY <1>1, UrlTextFacts
  <2>2. [url |-> Normal(refs[i]), depth |-> hops + 1] \in Link
    BY <2>1 DEF Link
  <2>3. Append(v, [url |-> Normal(refs[i]), depth |-> hops + 1]) \in Seq(Link)
    BY <2>2, AppendProperties
  <2>. QED
    BY <2>3 DEF TakeHref
<1>3. \E g \in [0..n -> Seq(Link)] : K(g)
  <2>1. PICK g \in [0..n -> Seq(Link)] : g = [i \in 0..n |-> IF i = 0 THEN <<>> ELSE step[i, g[i - 1]]]
    <3>. HIDE DEF step, n
    <3>1. \E g \in [0..n -> Seq(Link)] : WalkTo(g, n, <<>>, step)
      BY <1>1, <1>2, WalkEnds
    <3>. QED
      BY <3>1 DEF WalkTo
  <2>2. ASSUME NEW i \in 0..n, i # 0
        PROVE  step[i, g[i - 1]] = TakeHref(g[i - 1], refs[i])
    <3>1. i \in 1..n /\ i - 1 \in 0..n
      BY <2>2
    <3>2. g[i - 1] \in Seq(Link)
      BY <3>1
    <3>. QED
      BY <3>1, <3>2
  <2>3. K(g)
    <3>. HIDE DEF step, n
    <3>. QED
      BY <2>1, <2>2
  <2>. QED
    BY <2>3
<1>4. K(links)
  <2>. HIDE DEF K
  <2>. QED
    BY <1>3
<1>5. Extract(refs) = IF hops >= linkRule.maxDepth THEN <<>> ELSE links[n]
  BY DEF Extract
<1>6. links[0] = <<>>
  <2>1. 0 \in 0..n
    BY <1>1
  <2>. HIDE DEF n
  <2>. QED
    BY <1>4, <2>1
<1>7. \A i \in 1..n : links[i] = TakeHref(links[i - 1], refs[i])
  <2>1. \A i \in 1..n : i \in 0..n /\ i # 0
    OBVIOUS
  <2>. QED
    BY <1>4, <2>1
<1>. DEFINE P(i) == links[i] \in Seq(Link) /\ TakenFrom(links[i], refs, i)
            A == {i \in Nat : i <= n => P(i)}
<1>8. step = [p \in (1..n) \X Seq(Link) |-> TakeHref(p[2], refs[p[1]])]
  OBVIOUS
<1>9. \A i \in 1..n : \A v \in Seq(Link) : TakeHref(v, refs[i]) \in Seq(Link)
  <2>. SUFFICES ASSUME NEW i \in 1..n, NEW v \in Seq(Link) PROVE TakeHref(v, refs[i]) \in Seq(Link)
    OBVIOUS
  <2>1. step[i, v] = TakeHref(v, refs[i])
    BY <1>8
  <2>2. step[i, v] \in Seq(Link)
    BY <1>2
  <2>. QED
    BY <2>1, <2>2
<1>. HIDE DEF links, K, step, P
<1>10. 0 \in A
  <2>1. DOMAIN <<>> = {} /\ 1..0 = {}
    OBVIOUS
  <2>2. TakenFrom(<<>>, refs, 0)
    BY <2>1 DEF TakenFrom
  <2>3. P(0)
    BY <1>1, <1>6, <2>2 DEF P
  <2>. QED
    BY <2>3
<1>11. \A i \in A : i + 1 \in A
  <2>. TAKE i \in A
  <2>1. i \in Nat /\ i + 1 \in Nat
    OBVIOUS
  <2>2. ASSUME i + 1 <= n PROVE P(i + 1)
    <3>1. i <= n /\ i + 1 \in 1..n /\ (i + 1) - 1 = i
      BY <1>1, <2>1, <2>2
    <3>2. P(i)
      BY <3>1
    <3>3. links[i] \in Seq(Link) /\ TakenFrom(links[i], refs, i)
      BY <3>2 DEF P
    <3>4. links[i + 1] = TakeHref(links[i], refs[i + 1])
      BY <1>7, <3>1
    <3>5. links[i + 1] \in Seq(Link)
      BY <1>9, <3>1, <3>3, <3>4
    <3>6. TakenFrom(links[i + 1], refs, i + 1)
      BY <2>1, <2>2, <3>3, <3>4, TakeHrefKeeps
    <3>. QED
      BY <3>5, <3>6 DEF P
  <2>. QED
    BY <2>1, <2>2
<1>. HIDE DEF A
<1>12. \A i \in Nat : i \in A
  BY <1>10, <1>11, CountingUp
<1>13. P(n)
  BY <1>1, <1>12 DEF A
<1>14. links[n] \in Seq(Link) /\ TakenFrom(links[n], refs, n)
  BY <1>13 DEF P
<1>15. CASE hops >= linkRule.maxDepth
  BY <1>1, <1>5, <1>15
<1>16. CASE ~(hops >= linkRule.maxDepth)
  <2>1. Extract(refs) = links[n] /\ hops < linkRule.maxDepth
    BY <1>5, <1>16
  <2>. QED
    BY <1>14, <2>1
<1>. QED
  BY <1>15, <1>16

\* A reference, resolved, has a host.
LEMMA ResolvedFacts ==
  ASSUME NEW ref \in References, hostNow \in Seq(STRING)
  PROVE  Resolved(ref) \in FullReference
<1>1. ref \in [kind : STRING, scheme : STRING, host : Seq(STRING) \cup {SameHost},
               path : Seq(STRING), dropped : STRING]
  BY LinkSelectionAssumption
<1>2. CASE ref.host = SameHost
  BY <1>1, <1>2 DEF Resolved, FullReference
<1>3. CASE ref.host # SameHost
  BY <1>1, <1>3 DEF Resolved, FullReference
<1>. QED
  BY <1>2, <1>3

\* The settings of a job have their types.
LEMMA SettingFacts ==
  ASSUME NEW rule \in LinkSettings
  PROVE  /\ rule.maxDepth \in Nat /\ rule.external \in BOOLEAN /\ rule.subdomains \in BOOLEAN
         /\ rule.allowed \subseteq Seq(STRING) /\ rule.exclude \subseteq Seq(STRING)
         /\ rule.include \subseteq Seq(STRING)
BY LinkSelectionAssumption

\* A host that is allowed from a host that belongs to the start URL's belongs to it too.
LEMMA AllowedStays ==
  ASSUME LinksTyped, StaysInside, NEW host \in Seq(STRING), IsAllowedHost(host, hostNow),
         linkRule.allowed = {}, ~linkRule.external, ~strayed
  PROVE  IsSuffix(BareHost(seedHost), BareHost(host))
<1>1. /\ BareHost(seedHost) \in Seq(STRING) /\ BareHost(hostNow) \in Seq(STRING)
      /\ BareHost(host) \in Seq(STRING)
  BY BareHostFacts DEF LinksTyped
<1>2. IsSuffix(BareHost(seedHost), BareHost(hostNow))
  BY DEF StaysInside
<1>3. BareHost(host) = BareHost(hostNow) \/ IsSuffix(BareHost(hostNow), BareHost(host))
  BY DEF IsAllowedHost
<1>. QED
  BY <1>1, <1>2, <1>3, SuffixOfSuffix

\* A chain of pages begins so.
LEMMA LinksInvInit == LinksInit => LinksInv
<1>. SUFFICES ASSUME LinksInit PROVE LinksInv
  OBVIOUS
<1>1. LinksTyped
  <2>1. seedHost \in Seq(STRING) /\ hostNow \in Seq(STRING)
    BY LinkSelectionAssumption DEF LinksInit
  <2>2. <<>> \in Seq(References) /\ <<>> \in Seq(Link)
    OBVIOUS
  <2>3. /\ linkRule \in LinkSettings /\ hops = 0 /\ hrefs = <<>> /\ chosen = <<>>
        /\ strayed = FALSE
    BY DEF LinksInit
  <2>4. hops \in Nat /\ strayed \in BOOLEAN
    BY <2>3
  <2>. QED
    BY <2>1, <2>2, <2>3, <2>4, Zenon DEF LinksTyped
<1>2. LinksPassed /\ PassedAreLinks
  BY DEF LinksInit, LinksPassed, PassedAreLinks
<1>3. StaysInside
  <2>1. hostNow = seedHost /\ BareHost(seedHost) \in Seq(STRING)
    BY <1>1, BareHostFacts DEF LinksInit, LinksTyped
  <2>. QED
    BY <2>1, SuffixOfItself DEF StaysInside
<1>. QED
  BY <1>1, <1>2, <1>3 DEF LinksInv

\* A page answers, perhaps from another host, which is remembered if no link leads there.
LEMMA FetchPageKeeps == LinksInv /\ FetchPage => LinksInv'
<1>. SUFFICES ASSUME LinksInv, FetchPage PROVE LinksInv'
  OBVIOUS
<1>. USE DEF LinksInv
<1>1. /\ chosen' = <<>> /\ linkRule' = linkRule /\ seedHost' = seedHost /\ hops' = hops
  BY DEF FetchPage
<1>2. PICK answering \in {hostNow} \cup HostNames :
        /\ strayed' = (strayed \/ ~IsAllowedHost(answering, hostNow)) /\ hostNow' = answering
  BY DEF FetchPage
<1>3. answering \in Seq(STRING)
  BY LinkSelectionAssumption DEF LinksTyped
<1>4. PICK first \in References, second \in References : hrefs' = <<first, second>>
  BY DEF FetchPage
<1>5. LinksTyped'
  <2>1. hrefs' \in Seq(References)
    BY <1>4
  <2>2. strayed' \in BOOLEAN
    BY <1>2, Zenon
  <2>. QED
    BY <1>1, <1>2, <1>3, <2>1, <2>2 DEF LinksTyped
<1>6. LinksPassed' /\ PassedAreLinks'
  BY <1>1 DEF LinksPassed, PassedAreLinks
<1>7. StaysInside'
  <2>. SUFFICES ASSUME linkRule.allowed = {}, ~linkRule.external, ~strayed'
                PROVE  IsSuffix(BareHost(seedHost), BareHost(answering))
    BY <1>1, <1>2 DEF StaysInside, BareHost
  <2>1. ~strayed /\ IsAllowedHost(answering, hostNow)
    BY <1>2
  <2>. QED
    BY <1>3, <2>1, AllowedStays
<1>. QED
  BY <1>5, <1>6, <1>7

\* Its links are taken.
LEMMA TakeLinksKeeps == LinksInv /\ TakeLinks => LinksInv'
<1>. SUFFICES ASSUME LinksInv, TakeLinks PROVE LinksInv'
  OBVIOUS
<1>. DEFINE refs == [i \in DOMAIN hrefs |-> Resolved(hrefs[i])]
<1>1. /\ linkRule' = linkRule /\ seedHost' = seedHost /\ hops' = hops /\ hostNow' = hostNow
      /\ hrefs' = hrefs /\ strayed' = strayed
      /\ chosen' = Extract(refs) /\ chosen' # <<>>
  BY DEF TakeLinks
<1>2. LinksTyped /\ LinksPassed /\ PassedAreLinks /\ StaysInside
  BY DEF LinksInv
<1>3. refs \in Seq(FullReference) /\ Len(refs) = Len(hrefs) /\ DOMAIN hrefs = 1..Len(hrefs)
      /\ \A i \in DOMAIN hrefs : refs[i] = Resolved(hrefs[i])
  <2>1. hrefs \in Seq(References) /\ hostNow \in Seq(STRING)
    BY <1>2 DEF LinksTyped
  <2>. DEFINE n == Len(hrefs)
  <2>2. n \in Nat /\ DOMAIN hrefs = 1..n /\ \A i \in 1..n : hrefs[i] \in References
    BY <2>1
  <2>. HIDE DEF n
  <2>3. \A i \in 1..n : Resolved(hrefs[i]) \in FullReference
    BY <2>1, <2>2, ResolvedFacts
  <2>4. refs \in [1..n -> FullReference]
    BY <2>2, <2>3
  <2>5. DOMAIN refs = 1..n /\ \A i \in 1..n : refs[i] = Resolved(hrefs[i])
    BY <2>2
  <2>. HIDE DEF refs
  <2>6. refs \in Seq(FullReference)
    BY <2>2, <2>4, SeqDef
  <2>7. Len(refs) = n
    BY <2>2, <2>5, <2>6, LenProperties
  <2>. QED
    BY <2>2, <2>5, <2>6, <2>7 DEF n
<1>. HIDE DEF refs
<1>4. /\ Extract(refs) \in Seq(Link) /\ hops < linkRule.maxDepth
      /\ TakenFrom(Extract(refs), refs, Len(refs))
  <2>1. hops \in Nat /\ linkRule.maxDepth \in Nat
    BY <1>2, SettingFacts DEF LinksTyped
  <2>. QED
    BY <1>1, <1>3, <2>1, ExtractFacts
<1>. DEFINE links == Extract(refs)
<1>5. /\ \A i \in DOMAIN links :
           \E ref \in FullReference :
             Passes(ref) /\ links[i] = [url |-> Normal(ref), depth |-> hops + 1]
      /\ \A i, k \in DOMAIN links : i # k => links[k].url # links[i].url
      /\ \A i \in 1..Len(refs) :
           Passes(refs[i]) => \E k \in DOMAIN links : links[k].url = Normal(refs[i])
  BY <1>4 DEF TakenFrom
<1>. HIDE DEF links
<1>6. chosen' = links /\ links \in Seq(Link)
  BY <1>1, <1>4 DEF links
<1>7. \A ref : Passes(ref)' <=> Passes(ref)
  BY <1>1 DEF Passes, IsAllowedHost, MatchesPatterns
<1>8. LinksTyped'
  BY <1>1, <1>2, <1>6 DEF LinksTyped
<1>9. LinksPassed'
  BY <1>1, <1>4, <1>5, <1>6, <1>7 DEF LinksPassed
<1>10. PassedAreLinks'
  <2>1. ASSUME NEW i \in DOMAIN hrefs, Passes(refs[i])
        PROVE  \E k \in DOMAIN links : links[k].url = Normal(refs[i])
    BY <1>3, <1>5, <2>1
  <2>2. \A i \in DOMAIN hrefs : Resolved(hrefs[i])' = refs[i]
    BY <1>1, <1>3 DEF Resolved
  <2>. QED
    BY <1>1, <1>6, <1>7, <2>1, <2>2 DEF PassedAreLinks
<1>11. StaysInside'
  BY <1>1, <1>2 DEF StaysInside
<1>. QED
  BY <1>8, <1>9, <1>10, <1>11 DEF LinksInv

\* One of them is the next page.
LEMMA FollowLinkKeeps == LinksInv /\ FollowLink => LinksInv'
<1>. SUFFICES ASSUME LinksInv, FollowLink PROVE LinksInv'
  OBVIOUS
<1>1. /\ linkRule' = linkRule /\ seedHost' = seedHost /\ hrefs' = <<>> /\ chosen' = <<>>
      /\ strayed' = strayed
  BY DEF FollowLink
<1>2. LinksTyped /\ LinksPassed /\ PassedAreLinks /\ StaysInside
  BY DEF LinksInv
<1>3. PICK i \in DOMAIN chosen : hostNow' = chosen[i].url.host /\ hops' = chosen[i].depth
  BY DEF FollowLink
<1>4. PICK ref \in FullReference :
        Passes(ref) /\ chosen[i] = [url |-> Normal(ref), depth |-> hops + 1]
  BY <1>2 DEF LinksPassed
<1>5. hostNow' = ref.host /\ hops' = hops + 1 /\ ref.host \in Seq(STRING)
  BY <1>3, <1>4 DEF Normal, FullReference
<1>6. IsAllowedHost(ref.host, hostNow)
  BY <1>4 DEF Passes
<1>7. LinksTyped'
  BY <1>1, <1>2, <1>5 DEF LinksTyped
<1>8. LinksPassed' /\ PassedAreLinks'
  BY <1>1 DEF LinksPassed, PassedAreLinks
<1>9. StaysInside'
  <2>. SUFFICES ASSUME linkRule.allowed = {}, ~linkRule.external, ~strayed
                PROVE  IsSuffix(BareHost(seedHost), BareHost(ref.host))
    BY <1>1, <1>5 DEF StaysInside, BareHost
  <2>. QED
    BY <1>2, <1>5, <1>6, AllowedStays
<1>. QED
  BY <1>7, <1>8, <1>9 DEF LinksInv

\* Each step keeps it so.
LEMMA LinksInvNext == LinksInv /\ [LinksNext]_linkVars => LinksInv'
<1>. SUFFICES ASSUME LinksInv, [LinksNext]_linkVars PROVE LinksInv'
  OBVIOUS
<1>1. CASE FetchPage
  BY <1>1, FetchPageKeeps
<1>2. CASE TakeLinks
  BY <1>2, TakeLinksKeeps
<1>3. CASE FollowLink
  BY <1>3, FollowLinkKeeps
<1>4. CASE UNCHANGED linkVars
  <2>1. /\ linkRule' = linkRule /\ seedHost' = seedHost /\ hops' = hops /\ hostNow' = hostNow
        /\ hrefs' = hrefs /\ strayed' = strayed /\ chosen' = chosen
    BY <1>4 DEF linkVars
  <2>2. (\A ref : Passes(ref)' <=> Passes(ref)) /\ \A ref : Resolved(ref)' = Resolved(ref)
    BY <2>1 DEF Passes, IsAllowedHost, MatchesPatterns, Resolved
  <2>3. LinksTyped' /\ StaysInside'
    BY <2>1 DEF LinksInv, LinksTyped, StaysInside
  <2>4. LinksPassed'
    BY <2>1, <2>2 DEF LinksInv, LinksPassed
  <2>5. PassedAreLinks'
    BY <2>1, <2>2 DEF LinksInv, PassedAreLinks
  <2>. QED
    BY <2>3, <2>4, <2>5 DEF LinksInv
<1>. QED
  BY <1>1, <1>2, <1>3, <1>4 DEF LinksNext

\* What is matched and where the page at hand belongs make the links right.
LEMMA LinksInvHolds == LinksInv => LinksStayInside /\ NoLinkIsMissed
<1>. SUFFICES ASSUME LinksInv PROVE LinksStayInside /\ NoLinkIsMissed
  OBVIOUS
<1>1. LinksTyped /\ LinksPassed /\ PassedAreLinks /\ StaysInside
  BY DEF LinksInv
<1>2. /\ linkRule.maxDepth \in Nat /\ linkRule.external \in BOOLEAN
      /\ linkRule.allowed \subseteq Seq(STRING) /\ linkRule.exclude \subseteq Seq(Words)
      /\ linkRule.include \subseteq Seq(Words) /\ hops \in Nat
  BY <1>1, SettingFacts, WordsFacts DEF LinksTyped
<1>3. LinksStayInside
  <2>. SUFFICES ASSUME NEW i \in DOMAIN chosen
       PROVE  /\ IF linkRule.allowed # {}
                 THEN \E a \in linkRule.allowed : BareHost(chosen[i].url.host) = BareHost(a)
                 ELSE ~linkRule.external /\ ~strayed =>
                        IsSuffix(BareHost(seedHost), BareHost(chosen[i].url.host))
              /\ chosen[i].depth <= linkRule.maxDepth
              /\ \A k \in DOMAIN chosen : k # i => chosen[k].url # chosen[i].url
              /\ \A g \in linkRule.exclude : GlobMeans(UrlText(chosen[i].url), g) => Mixed(g)
    BY DEF LinksStayInside
  <2>1. PICK ref \in FullReference :
          Passes(ref) /\ chosen[i] = [url |-> Normal(ref), depth |-> hops + 1]
    BY <1>1 DEF LinksPassed
  <2>2. /\ chosen[i].url = Normal(ref) /\ chosen[i].depth = hops + 1
        /\ chosen[i].url.host = ref.host /\ ref.host \in Seq(STRING)
    BY <2>1 DEF Normal, FullReference
  <2>3. IsAllowedHost(ref.host, hostNow) /\ MatchesPatterns(UrlText(Normal(ref)))
    BY <2>1 DEF Passes
  <2>4. ASSUME linkRule.allowed # {}
        PROVE  \E a \in linkRule.allowed : BareHost(chosen[i].url.host) = BareHost(a)
    BY <2>2, <2>3, <2>4 DEF IsAllowedHost
  <2>5. ASSUME linkRule.allowed = {}, ~linkRule.external, ~strayed
        PROVE  IsSuffix(BareHost(seedHost), BareHost(chosen[i].url.host))
    BY <1>1, <2>2, <2>3, <2>5, AllowedStays
  <2>6. chosen # <<>>
    OBVIOUS
  <2>7. chosen[i].depth <= linkRule.maxDepth
    BY <1>1, <1>2, <2>2, <2>6 DEF LinksPassed
  <2>8. \A k \in DOMAIN chosen : k # i => chosen[k].url # chosen[i].url
    BY <1>1 DEF LinksPassed
  <2>9. ASSUME NEW g \in linkRule.exclude, GlobMeans(UrlText(chosen[i].url), g) PROVE Mixed(g)
    <3>1. ~MatchesGlob(UrlText(Normal(ref)), g)
      BY <2>3 DEF MatchesPatterns
    <3>2. g \in Seq(Words) /\ UrlText(Normal(ref)) \in Seq(Words)
      BY <1>2, UrlTextFacts
    <3>. QED
      BY <2>2, <2>9, <3>1, <3>2, MeantIsMatched
  <2>. QED
    BY <2>4, <2>5, <2>7, <2>8, <2>9
<1>4. NoLinkIsMissed
  <2>. SUFFICES ASSUME chosen # <<>>, NEW i \in DOMAIN hrefs, NEW ref, ref = Resolved(hrefs[i]),
                       NEW text, text = UrlText(Normal(ref)),
                       ref.kind = "web", ref.scheme \in {"http", "https"}, ref.host = hostNow,
                       linkRule.allowed = {}, ~IsNonPage(Normal(ref)),
                       \A g \in linkRule.exclude : ~MatchesGlob(text, g),
                       linkRule.include = {}
                         \/ \E g \in linkRule.include : GlobMeans(text, g) /\ ~Mixed(g)
                PROVE  \E k \in DOMAIN chosen : chosen[k].url = Normal(ref)
    BY DEF NoLinkIsMissed
  <2>1. ref \in FullReference
    <3>1. hrefs[i] \in References
      BY <1>1 DEF LinksTyped
    <3>. QED
      BY <1>1, <3>1, ResolvedFacts DEF LinksTyped
  <2>2. text \in Seq(Words)
    BY <2>1, UrlTextFacts
  <2>3. linkRule.include = {} \/ \E g \in linkRule.include : MatchesGlob(text, g)
    BY <1>2, <2>2, MeantIsMatched
  <2>4. IsAllowedHost(ref.host, hostNow)
    BY DEF IsAllowedHost
  <2>5. Passes(ref)
    BY <2>3, <2>4 DEF Passes, MatchesPatterns
  <2>. QED
    BY <1>1, <2>5 DEF PassedAreLinks
<1>. QED
  BY <1>3, <1>4

-----------------------------------------------------------------------------
(* FrontierMemory: near duplicates.                                        *)

\* The documents on the way from d to the root of its tree, by links p.
Way(p, d) ==
  LET up[n \in 0 .. BatchDocs] == IF n = 0 THEN d ELSE p[up[n - 1]]
  IN  {up[n] : n \in 0 .. BatchDocs}

Root(p, d) == CHOOSE x \in Way(p, d) : p[x] = x

\* Ranks rise along the links.
Rises(p, r) ==
  /\ p \in [Docs -> Docs] /\ r \in [Docs -> Nat]
  /\ \A d \in Docs : p[d] # d => r[d] < r[p[d]]

\* The pairs that were compared.
Compared(x, y) == x < y /\ (x < pair[1] \/ (x = pair[1] /\ y < pair[2]))

\* A set that has both documents of each pair that is similar, or neither, as far
\* as they were compared.
Closed(S) ==
  \A x, y \in Docs : Compared(x, y) /\ Alike(prints[x], prints[y]) => (x \in S <=> y \in S)

PairsAreAhead ==
  /\ pair \in Nat \X Nat /\ 1 <= pair[1] /\ pair[1] < pair[2]
  /\ pair[2] <= BatchDocs \/ pair = <<BatchDocs, BatchDocs + 1>>

\* What was compared and is similar has one root, and a link leads only to what
\* such pairs connect.
ForestIsRight ==
  /\ \A x, y \in Docs :
       Compared(x, y) /\ Alike(prints[x], prints[y]) => Root(parent, x) = Root(parent, y)
  /\ \A S \in SUBSET Docs : Closed(S) => \A d \in Docs : d \in S <=> parent[d] \in S

KeptAreApart ==
  /\ checks \in 0 .. BatchDocs /\ kept \subseteq 1 .. checks
  /\ \A d, e \in kept : Matches(d, e) => d = e
  /\ \A d \in 1 .. checks : d \in kept \/ \E e \in kept : Matches(d, e)

NearInv ==
  prints \in [Docs -> SUBSET Bits] /\ Rises(parent, rank) /\ PairsAreAhead /\ ForestIsRight /\ KeptAreApart

-----------------------------------------------------------------------------
\* A way is a walk.
LEMMA WayIsWalk ==
  ASSUME NEW p \in [Docs -> Docs], NEW d \in Docs
  PROVE  \E up \in [0 .. BatchDocs -> Docs] :
           /\ up[0] = d /\ \A i \in 1 .. BatchDocs : up[i] = p[up[i - 1]]
           /\ Way(p, d) = {up[n] : n \in 0 .. BatchDocs}
<1>. DEFINE F(g) == g = [n \in 0 .. BatchDocs |-> IF n = 0 THEN d ELSE p[g[n - 1]]]
            up == CHOOSE g : F(g)
            step == [q \in (1 .. BatchDocs) \X Docs |-> p[q[2]]]
<1>1. BatchDocs \in Nat
  BY NearDuplicatesAssumption
<1>2. step \in [(1 .. BatchDocs) \X Docs -> Docs]
  OBVIOUS
<1>3. PICK g \in [0 .. BatchDocs -> Docs] : WalkTo(g, BatchDocs, d, step)
  <2>. HIDE DEF step
  <2>. QED
    BY <1>1, <1>2, WalkEnds
<1>4. F(g)
  <2>1. \A n \in 0 .. BatchDocs : n # 0 => n \in 1 .. BatchDocs /\ n - 1 \in 0 .. BatchDocs
    BY <1>1
  <2>2. \A n \in 0 .. BatchDocs : n # 0 => step[n, g[n - 1]] = p[g[n - 1]]
    BY <2>1
  <2>. HIDE DEF step
  <2>. QED
    BY <1>3, <2>2 DEF WalkTo
<1>5. F(up)
  BY <1>4
<1>6. Way(p, d) = {up[n] : n \in 0 .. BatchDocs}
  BY DEF Way
<1>. HIDE DEF up
<1>7. \A n \in 0 .. BatchDocs : n # 0 => n - 1 \in 0 .. BatchDocs
  BY <1>1
<1>8. up[0] = d /\ g[0] = d
  BY <1>1, <1>4, <1>5
<1>9. \A i \in 1 .. BatchDocs : up[i] = p[up[i - 1]] /\ g[i] = p[g[i - 1]]
  BY <1>1, <1>4, <1>5
<1>10. \A i \in 0 .. BatchDocs : up[i] = g[i]
  <2>1. \A i \in 1 .. BatchDocs : up[i - 1] = g[i - 1] => up[i] = g[i]
    BY <1>9
  <2>2. up[0] = g[0]
    BY <1>8
  <2>. QED
    BY ZenonT(60), <1>1, <2>1, <2>2, WalksAgree
<1>11. DOMAIN up = 0 .. BatchDocs
  BY <1>5
<1>12. up \in [0 .. BatchDocs -> Docs]
  BY <1>5, <1>10, <1>11
<1>. QED
  BY <1>6, <1>8, <1>9, <1>12

\* More steps than there are places meet one twice.
LEMMA TooManySteps ==
  ASSUME NEW n \in Nat, NEW up \in [0 .. n -> 1 .. n]
  PROVE  \E i, j \in 0 .. n : i # j /\ up[i] = up[j]
<1>1. /\ IsFiniteSet(0 .. n) /\ Cardinality(0 .. n) = n + 1
      /\ IsFiniteSet(1 .. n) /\ Cardinality(1 .. n) = n
  BY FS_Interval
<1>2. Cardinality(1 .. n) < Cardinality(0 .. n)
  BY <1>1
<1>. QED
  BY <1>1, <1>2, FS_PigeonHole

\* Ranks rise until a root is reached, and there are more steps than documents.
LEMMA RootIsReached ==
  ASSUME NEW p, NEW r, Rises(p, r), NEW up \in [0 .. BatchDocs -> Docs],
         \A i \in 1 .. BatchDocs : up[i] = p[up[i - 1]]
  PROVE  /\ \E n \in 0 .. BatchDocs - 1 : p[up[n]] = up[n]
         /\ \A n \in 0 .. BatchDocs : r[up[0]] <= r[up[n]]
<1>1. BatchDocs \in Nat /\ BatchDocs # 0
  BY NearDuplicatesAssumption
<1>2. p \in [Docs -> Docs] /\ r \in [Docs -> Nat]
  BY DEF Rises
<1>3. \A i \in 0 .. BatchDocs : up[i] \in Docs /\ r[up[i]] \in Nat
  BY <1>2
<1>4. \A i \in 1 .. BatchDocs : i - 1 \in 0 .. BatchDocs /\ i \in 0 .. BatchDocs
  BY <1>1
<1>5. \A i \in 1 .. BatchDocs : r[up[i - 1]] <= r[up[i]]
                                /\ (p[up[i - 1]] # up[i - 1] => r[up[i - 1]] < r[up[i]])
  BY <1>3, <1>4 DEF Rises
<1>. DEFINE rr == [i \in 0 .. BatchDocs |-> r[up[i]]]
<1>6. \A i \in 0 .. BatchDocs : rr[i] \in Nat /\ rr[i] = r[up[i]]
  BY <1>3
<1>. HIDE DEF rr
<1>7. \A n \in 0 .. BatchDocs : rr[0] <= rr[n]
  <2>. DEFINE A == {n \in Nat : n \in 0 .. BatchDocs => rr[0] <= rr[n]}
  <2>1. 0 \in A
    BY <1>1, <1>6
  <2>2. ASSUME NEW n \in Nat, n \in A PROVE n + 1 \in A
    <3>1. ASSUME n + 1 \in 0 .. BatchDocs PROVE rr[0] <= rr[n + 1]
      <4>1. n \in 0 .. BatchDocs /\ n + 1 \in 1 .. BatchDocs /\ (n + 1) - 1 = n /\ 0 \in 0 .. BatchDocs
        BY <1>1, <2>2, <3>1
      <4>2. rr[n] <= rr[n + 1]
        BY <1>5, <1>6, <4>1
      <4>. QED
        BY <1>6, <2>2, <4>1, <4>2
    <3>. QED
      BY <3>1
  <2>. HIDE DEF A
  <2>3. \A n \in Nat : n \in A
    BY <2>1, <2>2, CountingUp
  <2>. QED
    BY <1>1, <2>3 DEF A
<1>8. \E n \in 0 .. BatchDocs - 1 : p[up[n]] = up[n]
  <2>. SUFFICES ASSUME \A n \in 0 .. BatchDocs - 1 : p[up[n]] # up[n] PROVE FALSE
    OBVIOUS
  <2>1. \A i \in 1 .. BatchDocs : rr[i - 1] < rr[i]
    <3>. TAKE i \in 1 .. BatchDocs
    <3>1. i - 1 \in 0 .. BatchDocs - 1
      BY <1>1
    <3>. QED
      BY <1>4, <1>5, <1>6, <3>1
  <2>2. \A i, j \in 0 .. BatchDocs : i < j => rr[i] < rr[j]
    <3>. TAKE i \in 0 .. BatchDocs
    <3>. DEFINE A == {j \in Nat : j \in 0 .. BatchDocs /\ i < j => rr[i] < rr[j]}
    <3>1. 0 \in A
      BY <1>1
    <3>2. ASSUME NEW n \in Nat, n \in A PROVE n + 1 \in A
      <4>1. ASSUME n + 1 \in 0 .. BatchDocs, i < n + 1 PROVE rr[i] < rr[n + 1]
        <5>1. n \in 0 .. BatchDocs /\ n + 1 \in 1 .. BatchDocs /\ (n + 1) - 1 = n /\ (i = n \/ i < n)
          BY <1>1, <3>2, <4>1
        <5>2. rr[n] < rr[n + 1]
          BY <2>1, <5>1
        <5>. QED
          BY <1>6, <3>2, <4>1, <5>1, <5>2
      <4>. QED
        BY <4>1
    <3>. HIDE DEF A
    <3>3. \A n \in Nat : n \in A
      BY <3>1, <3>2, CountingUp
    <3>. QED
      BY <1>1, <3>3 DEF A
  <2>3. \A i, j \in 0 .. BatchDocs : i # j => rr[i] # rr[j]
    BY <1>1, <1>6, <2>2
  <2>4. \A i, j \in 0 .. BatchDocs : i # j => up[i] # up[j]
    BY <1>6, <2>3
  <2>5. \E i, j \in 0 .. BatchDocs : i # j /\ up[i] = up[j]
    BY <1>1, TooManySteps DEF Docs
  <2>. QED
    BY <2>4, <2>5
<1>. QED
  BY <1>1, <1>6, <1>7, <1>8

\* A way has one root, and reaches it before its last step.
LEMMA WayHasOneRoot ==
  ASSUME NEW p, NEW r, Rises(p, r), NEW d \in Docs, NEW up \in [0 .. BatchDocs -> Docs],
         up[0] = d, \A i \in 1 .. BatchDocs : up[i] = p[up[i - 1]],
         Way(p, d) = {up[n] : n \in 0 .. BatchDocs}
  PROVE  /\ \E n \in 0 .. BatchDocs - 1 : Root(p, d) = up[n] /\ p[up[n]] = up[n]
         /\ \A x \in Way(p, d) : p[x] = x => Root(p, d) = x
         /\ r[d] <= r[Root(p, d)]
<1>1. BatchDocs \in Nat /\ BatchDocs # 0
  BY NearDuplicatesAssumption
<1>2. /\ \E n \in 0 .. BatchDocs - 1 : p[up[n]] = up[n]
      /\ \A n \in 0 .. BatchDocs : r[up[0]] <= r[up[n]]
  BY RootIsReached
<1>3. ASSUME NEW i \in 0 .. BatchDocs, p[up[i]] = up[i]
      PROVE  \A j \in 0 .. BatchDocs : i <= j => up[j] = up[i]
  <2>. DEFINE A == {j \in Nat : j \in 0 .. BatchDocs /\ i <= j => up[j] = up[i]}
  <2>1. 0 \in A
    BY <1>1
  <2>2. ASSUME NEW n \in Nat, n \in A PROVE n + 1 \in A
    <3>1. ASSUME n + 1 \in 0 .. BatchDocs, i <= n + 1 PROVE up[n + 1] = up[i]
      <4>1. n \in 0 .. BatchDocs /\ n + 1 \in 1 .. BatchDocs /\ (n + 1) - 1 = n
            /\ (i = n + 1 \/ i <= n)
        BY <1>1, <3>1
      <4>2. up[n + 1] = p[up[n]]
        BY <4>1
      <4>. QED
        BY <1>3, <2>2, <4>1, <4>2
    <3>. QED
      BY <3>1
  <2>. HIDE DEF A
  <2>3. \A n \in Nat : n \in A
    BY <2>1, <2>2, CountingUp
  <2>. QED
    BY <1>1, <2>3 DEF A
<1>4. \A i, j \in 0 .. BatchDocs : p[up[i]] = up[i] /\ p[up[j]] = up[j] => up[i] = up[j]
  <2>1. \A i, j \in 0 .. BatchDocs : i <= j \/ j <= i
    BY <1>1
  <2>. QED
    BY <1>3, <2>1
<1>5. \A x, y \in Way(p, d) : p[x] = x /\ p[y] = y => x = y
  BY <1>4
<1>6. \A x \in Way(p, d) : p[x] = x => Root(p, d) = x
  BY <1>5 DEF Root
<1>7. PICK n \in 0 .. BatchDocs - 1 : p[up[n]] = up[n]
  BY <1>2
<1>8. n \in 0 .. BatchDocs
  BY <1>1
<1>9. Root(p, d) = up[n]
  BY <1>6, <1>7, <1>8
<1>. QED
  BY <1>2, <1>6, <1>7, <1>8, <1>9

\* The root of a document is that of what it links to.
LEMMA RootFacts ==
  ASSUME NEW p, NEW r, Rises(p, r), NEW d \in Docs
  PROVE  /\ Root(p, d) \in Docs /\ p[Root(p, d)] = Root(p, d)
         /\ p[d] = d => Root(p, d) = d
         /\ Root(p, p[d]) = Root(p, d)
         /\ r[d] <= r[Root(p, d)]
         /\ \A S : (\A e \in Docs : e \in S <=> p[e] \in S) => (d \in S <=> Root(p, d) \in S)
<1>1. BatchDocs \in Nat /\ BatchDocs # 0
  BY NearDuplicatesAssumption
<1>2. p \in [Docs -> Docs] /\ r \in [Docs -> Nat] /\ p[d] \in Docs
  BY DEF Rises
<1>3. PICK up \in [0 .. BatchDocs -> Docs] :
        /\ up[0] = d /\ \A i \in 1 .. BatchDocs : up[i] = p[up[i - 1]]
        /\ Way(p, d) = {up[n] : n \in 0 .. BatchDocs}
  BY <1>2, WayIsWalk
<1>4. PICK on \in [0 .. BatchDocs -> Docs] :
        /\ on[0] = p[d] /\ \A i \in 1 .. BatchDocs : on[i] = p[on[i - 1]]
        /\ Way(p, p[d]) = {on[n] : n \in 0 .. BatchDocs}
  BY <1>2, WayIsWalk
<1>5. /\ \E n \in 0 .. BatchDocs - 1 : Root(p, d) = up[n] /\ p[up[n]] = up[n]
      /\ \A x \in Way(p, d) : p[x] = x => Root(p, d) = x
      /\ r[d] <= r[Root(p, d)]
  BY <1>3, WayHasOneRoot
<1>6. PICK m \in 0 .. BatchDocs - 1 : Root(p, p[d]) = on[m] /\ p[on[m]] = on[m]
  BY <1>2, <1>4, WayHasOneRoot
<1>7. PICK n \in 0 .. BatchDocs - 1 : Root(p, d) = up[n] /\ p[up[n]] = up[n]
  BY <1>5
<1>8. n \in 0 .. BatchDocs /\ m \in 0 .. BatchDocs /\ m + 1 \in 0 .. BatchDocs /\ 0 \in 0 .. BatchDocs
  BY <1>1
<1>9. p[d] = d => Root(p, d) = d
  BY <1>3, <1>5, <1>8
<1>10. \A i \in 0 .. BatchDocs - 1 : on[i] = up[i + 1]
  <2>. DEFINE A == {i \in Nat : i \in 0 .. BatchDocs - 1 => on[i] = up[i + 1]}
  <2>1. 0 \in A
    <3>1. 1 \in 1 .. BatchDocs /\ 1 - 1 = 0 /\ 0 + 1 = 1
      BY <1>1
    <3>. QED
      BY <1>3, <1>4, <3>1
  <2>2. ASSUME NEW i \in Nat, i \in A PROVE i + 1 \in A
    <3>1. ASSUME i + 1 \in 0 .. BatchDocs - 1 PROVE on[i + 1] = up[(i + 1) + 1]
      <4>1. /\ i \in 0 .. BatchDocs - 1 /\ i + 1 \in 1 .. BatchDocs /\ (i + 1) - 1 = i
            /\ (i + 1) + 1 \in 1 .. BatchDocs /\ ((i + 1) + 1) - 1 = i + 1
        BY <1>1, <3>1
      <4>2. on[i + 1] = p[on[i]] /\ up[(i + 1) + 1] = p[up[i + 1]]
        BY <1>3, <1>4, <4>1
      <4>. QED
        BY <2>2, <4>1, <4>2
    <3>. QED
      BY <3>1
  <2>. HIDE DEF A
  <2>3. \A i \in Nat : i \in A
    BY <2>1, <2>2, CountingUp
  <2>. QED
    BY <1>1, <2>3 DEF A
<1>11. Root(p, p[d]) \in Way(p, d)
  BY <1>3, <1>6, <1>8, <1>10
<1>12. ASSUME NEW S, \A e \in Docs : e \in S <=> p[e] \in S
       PROVE  d \in S <=> Root(p, d) \in S
  <2>. DEFINE A == {i \in Nat : i \in 0 .. BatchDocs => (d \in S <=> up[i] \in S)}
  <2>1. 0 \in A
    BY <1>3
  <2>2. ASSUME NEW i \in Nat, i \in A PROVE i + 1 \in A
    <3>1. ASSUME i + 1 \in 0 .. BatchDocs PROVE d \in S <=> up[i + 1] \in S
      <4>1. i \in 0 .. BatchDocs /\ i + 1 \in 1 .. BatchDocs /\ (i + 1) - 1 = i
        BY <1>1, <3>1
      <4>2. up[i + 1] = p[up[i]] /\ up[i] \in Docs
        BY <1>3, <4>1
      <4>. QED
        BY <1>12, <2>2, <4>1, <4>2
    <3>. QED
      BY <3>1
  <2>. HIDE DEF A
  <2>3. \A i \in Nat : i \in A
    BY <2>1, <2>2, CountingUp
  <2>. QED
    BY <1>7, <1>8, <2>3 DEF A
<1>. QED
  BY <1>3, <1>5, <1>6, <1>7, <1>8, <1>9, <1>11, <1>12

\* What every link agrees with, and every root is its own, is the root.
LEMMA RootIs ==
  ASSUME NEW p, NEW r, Rises(p, r), NEW G \in [Docs -> Docs],
         \A d \in Docs : G[p[d]] = G[d] /\ (p[d] = d => G[d] = d)
  PROVE  \A d \in Docs : Root(p, d) = G[d]
<1>. TAKE d \in Docs
<1>. DEFINE S == {e \in Docs : G[e] = G[d]}
<1>1. \A e \in Docs : e \in S <=> p[e] \in S
  BY DEF Rises
<1>2. Root(p, d) \in Docs /\ p[Root(p, d)] = Root(p, d)
      /\ \A T : (\A e \in Docs : e \in T <=> p[e] \in T) => (d \in T <=> Root(p, d) \in T)
  BY RootFacts
<1>3. d \in S <=> Root(p, d) \in S
  <2>. HIDE DEF S
  <2>. QED
    BY <1>1, <1>2
<1>. QED
  BY <1>2, <1>3

\* Links that lead on, or to the root, keep the roots.
LEMMA FlatKeepsRoots ==
  ASSUME NEW p, NEW r, Rises(p, r), NEW f \in [Docs -> Docs],
         \A d \in Docs : f[d] = p[d] \/ f[d] = Root(p, d)
  PROVE  Rises(f, r) /\ \A d \in Docs : Root(f, d) = Root(p, d)
<1>. DEFINE G == [d \in Docs |-> Root(p, d)]
<1>1. \A d \in Docs : /\ Root(p, d) \in Docs /\ p[Root(p, d)] = Root(p, d)
                      /\ p[d] = d => Root(p, d) = d
                      /\ Root(p, p[d]) = Root(p, d)
                      /\ r[d] <= r[Root(p, d)]
  BY RootFacts
<1>2. p \in [Docs -> Docs] /\ r \in [Docs -> Nat] /\ \A d \in Docs : p[d] # d => r[d] < r[p[d]]
  BY DEF Rises
<1>3. ASSUME NEW d \in Docs, f[d] # d PROVE r[d] < r[f[d]]
  <2>1. CASE f[d] = p[d]
    BY <1>2, <1>3, <2>1
  <2>2. CASE f[d] = Root(p, d)
    <3>1. p[d] # d /\ r[d] < r[p[d]] /\ r[p[d]] <= r[Root(p, p[d])] /\ Root(p, p[d]) = f[d]
      BY <1>1, <1>2, <1>3, <2>2
    <3>2. r[d] \in Nat /\ r[p[d]] \in Nat /\ r[f[d]] \in Nat
      BY <1>2
    <3>. QED
      BY <3>1, <3>2
  <2>. QED
    BY <2>1, <2>2
<1>4. Rises(f, r)
  BY <1>2, <1>3 DEF Rises
<1>5. G \in [Docs -> Docs]
  BY <1>1
<1>6. \A d \in Docs : G[f[d]] = G[d] /\ (f[d] = d => G[d] = d)
  <2>. TAKE d \in Docs
  <2>1. Root(p, Root(p, d)) = Root(p, d)
    BY <1>1
  <2>. QED
    BY <1>1, <2>1
<1>7. \A d \in Docs : Root(f, d) = G[d]
  <2>. HIDE DEF G
  <2>. QED
    BY <1>4, <1>5, <1>6, RootIs
<1>. QED
  BY <1>4, <1>7

\* A root that is linked to another takes its documents with it.
LEMMA LinkJoins ==
  ASSUME NEW p, NEW r, Rises(p, r), NEW c \in Docs, NEW e \in Docs, p[c] = c, p[e] = e, c # e,
         NEW s \in [Docs -> Nat], \A d \in Docs : r[d] <= s[d], \A d \in Docs \ {e} : s[d] = r[d],
         s[c] < s[e], 
         NEW g \in [Docs -> Docs], g[c] = e, \A d \in Docs \ {c} : g[d] = p[d]
  PROVE  /\ Rises(g, s)
         /\ \A d \in Docs : Root(g, d) = IF Root(p, d) = c THEN e ELSE Root(p, d)
<1>. DEFINE G == [d \in Docs |-> IF Root(p, d) = c THEN e ELSE Root(p, d)]
<1>1. \A d \in Docs : /\ Root(p, d) \in Docs /\ p[Root(p, d)] = Root(p, d)
                      /\ p[d] = d => Root(p, d) = d
                      /\ Root(p, p[d]) = Root(p, d)
  BY RootFacts
<1>2. p \in [Docs -> Docs] /\ r \in [Docs -> Nat] /\ \A d \in Docs : p[d] # d => r[d] < r[p[d]]
  BY DEF Rises
<1>3. g[c] = e /\ \A d \in Docs \ {c} : g[d] = p[d]
  OBVIOUS
<1>4. Rises(g, s)
  <2>1. ASSUME NEW d \in Docs, g[d] # d PROVE s[d] < s[g[d]]
    <3>1. CASE d = c
      BY <1>3, <3>1
    <3>2. CASE d # c
      <4>1. g[d] = p[d] /\ d # e /\ r[d] < r[p[d]] /\ r[p[d]] <= s[p[d]] /\ s[d] = r[d] /\ p[d] \in Docs
        BY <1>2, <1>3, <2>1, <3>2
      <4>2. r[d] \in Nat /\ r[p[d]] \in Nat /\ s[p[d]] \in Nat
        BY <1>2
      <4>. QED
        BY <4>1, <4>2
    <3>. QED
      BY <3>1, <3>2
  <2>. QED
    BY <1>3, <2>1 DEF Rises
<1>5. G \in [Docs -> Docs]
  BY <1>1
<1>6. \A d \in Docs : G[g[d]] = G[d] /\ (g[d] = d => G[d] = d)
  <2>. TAKE d \in Docs
  <2>1. Root(p, c) = c /\ Root(p, e) = e
    BY <1>1
  <2>2. CASE d = c
    BY <1>3, <2>1, <2>2
  <2>3. CASE d # c
    <3>1. g[d] = p[d] /\ p[d] \in Docs
      BY <1>2, <1>3, <2>3
    <3>. QED
      BY <1>1, <2>3, <3>1
  <2>. QED
    BY <2>2, <2>3
<1>7. \A d \in Docs : Root(g, d) = G[d]
  <2>. HIDE DEF G
  <2>. QED
    BY <1>4, <1>5, <1>6, RootIs
<1>. QED
  BY <1>4, <1>7

-----------------------------------------------------------------------------
LEMMA NearInvInit == NearInit => NearInv
<1>. SUFFICES ASSUME NearInit PROVE NearInv
  OBVIOUS
<1>. USE DEF NearInit
<1>1. BatchDocs \in Nat /\ BatchDocs # 0
  BY NearDuplicatesAssumption
<1>2. Rises(parent, rank)
  BY DEF Rises
<1>3. PairsAreAhead
  BY <1>1 DEF PairsAreAhead
<1>4. ForestIsRight
  <2>1. \A x, y \in Docs : ~Compared(x, y)
    BY <1>1 DEF Compared, Docs
  <2>. QED
    BY <2>1 DEF ForestIsRight
<1>5. KeptAreApart
  BY <1>1 DEF KeptAreApart
<1>. QED
  BY <1>2, <1>3, <1>4, <1>5 DEF NearInv

\* The next pair is the one that is compared, and nothing else.
LEMMA PairsGoOn ==
  ASSUME NearInv, ComparePair
  PROVE  /\ PairsAreAhead' /\ pair[1] \in Docs /\ pair[2] \in Docs
         /\ \A x, y \in Docs : Compared(x, y)' <=> Compared(x, y) \/ (x = pair[1] /\ y = pair[2])
<1>1. BatchDocs \in Nat /\ BatchDocs # 0
  BY NearDuplicatesAssumption
<1>2. /\ pair \in Nat \X Nat /\ 1 <= pair[1] /\ pair[1] < pair[2] /\ pair[2] <= BatchDocs
      /\ pair' = NextPair
  BY DEF NearInv, PairsAreAhead, ComparePair
<1>. DEFINE a == pair[1]
            b == pair[2]
<1>3. a \in Nat /\ b \in Nat /\ 1 <= a /\ a < b /\ b <= BatchDocs
  BY <1>2
<1>4. \/ b < BatchDocs /\ pair' = <<a, b + 1>>
      \/ b = BatchDocs /\ pair' = <<a + 1, a + 2>>
  BY <1>1, <1>2, <1>3 DEF NextPair
<1>. HIDE DEF a, b
<1>5. PairsAreAhead'
  BY <1>1, <1>3, <1>4 DEF PairsAreAhead
<1>6. a \in Docs /\ b \in Docs
  BY <1>1, <1>3 DEF Docs
<1>7. ASSUME NEW x \in Docs, NEW y \in Docs
      PROVE  Compared(x, y)' <=> (x < y /\ (x < a \/ (x = a /\ y < b))) \/ (x = a /\ y = b)
  <2>1. x \in Nat /\ y \in Nat /\ y <= BatchDocs
    BY <1>1 DEF Docs
  <2>2. CASE b < BatchDocs /\ pair' = <<a, b + 1>>
    BY <1>3, <2>1, <2>2 DEF Compared
  <2>3. CASE b = BatchDocs /\ pair' = <<a + 1, a + 2>>
    <3>1. Compared(x, y)' <=> x < y /\ (x < a + 1 \/ (x = a + 1 /\ y < a + 2))
      BY <2>3 DEF Compared
    <3>. QED
      BY <1>3, <2>1, <2>3, <3>1
  <2>. QED
    BY <1>4, <2>2, <2>3
<1>. QED
  BY <1>5, <1>6, <1>7 DEF Compared, a, b

LEMMA PathsAreWays ==
  \A d : PathOf(d) = Way(parent, d) /\ RootOf(d) = Root(parent, d)
BY DEF PathOf, Way, RootOf, Root

\* find and union keep the connections, and add the one that was found.
LEMMA ComparePairKeeps ==
  ASSUME NearInv, ComparePair
  PROVE  NearInv'
<1>. DEFINE a == pair[1]
            b == pair[2]
            p == Root(parent, a)
            q == Root(parent, b)
            flat == Compressed({a, b})
<1>1. /\ PairsAreAhead' /\ a \in Docs /\ b \in Docs
      /\ \A x, y \in Docs : Compared(x, y)' <=> Compared(x, y) \/ (x = a /\ y = b)
  BY PairsGoOn
<1>2. Rises(parent, rank) /\ ForestIsRight /\ prints \in [Docs -> SUBSET Bits]
  BY DEF NearInv
<1>3. /\ parent \in [Docs -> Docs] /\ rank \in [Docs -> Nat]
      /\ UNCHANGED <<prints, kept, checks>>
  BY <1>2 DEF Rises, ComparePair
<1>4. \/ ~Alike(prints[a], prints[b]) /\ parent' = parent /\ rank' = rank
      \/ Alike(prints[a], prints[b]) /\ p = q /\ parent' = flat /\ rank' = rank
      \/ Alike(prints[a], prints[b]) /\ p # q /\ rank[p] < rank[q]
         /\ parent' = [flat EXCEPT ![p] = q] /\ rank' = rank
      \/ Alike(prints[a], prints[b]) /\ p # q /\ ~(rank[p] < rank[q])
         /\ parent' = [flat EXCEPT ![q] = p]
         /\ rank' = IF rank[p] = rank[q] THEN [rank EXCEPT ![p] = @ + 1] ELSE rank
  BY PathsAreWays DEF ComparePair
<1>5. flat \in [Docs -> Docs] /\ \A d \in Docs : flat[d] = parent[d] \/ flat[d] = Root(parent, d)
  BY <1>2, <1>3, RootFacts, PathsAreWays DEF Compressed
<1>. HIDE DEF flat
<1>6. Rises(flat, rank) /\ \A d \in Docs : Root(flat, d) = Root(parent, d)
  BY <1>2, <1>5, FlatKeepsRoots
<1>7. \A d \in Docs : /\ Root(parent, d) \in Docs /\ parent[Root(parent, d)] = Root(parent, d)
                      /\ parent[d] = d => Root(parent, d) = d
  BY <1>2, RootFacts
<1>. HIDE DEF p, q
<1>8. p \in Docs /\ q \in Docs /\ parent[p] = p /\ parent[q] = q
      /\ p = Root(parent, a) /\ q = Root(parent, b)
  BY <1>1, <1>7 DEF p, q
<1>9. flat[p] = p /\ flat[q] = q
  BY <1>5, <1>7, <1>8
\* What becomes of ranks, roots and links, in each case.
<1>10. /\ Rises(parent', rank')
       /\ \A x, y \in Docs : Root(parent, x) = Root(parent, y) => Root(parent', x) = Root(parent', y)
       /\ Alike(prints[a], prints[b]) => Root(parent', a) = Root(parent', b)
       /\ \A d \in Docs :
            \/ parent'[d] = parent[d]
            \/ parent'[d] = Root(parent, d)
            \/ Alike(prints[a], prints[b]) /\ d = p /\ parent'[d] = q
            \/ Alike(prints[a], prints[b]) /\ d = q /\ parent'[d] = p
  <2>1. CASE ~Alike(prints[a], prints[b]) /\ parent' = parent /\ rank' = rank
    <3>1. Rises(parent', rank')
      BY <1>2, <2>1
    <3>2. \A x, y \in Docs : Root(parent, x) = Root(parent, y) => Root(parent', x) = Root(parent', y)
      BY <1>2, <2>1
    <3>3. \A d \in Docs : parent'[d] = parent[d]
      BY <2>1
    <3>. QED
      BY <2>1, <3>1, <3>2, <3>3
  <2>2. CASE Alike(prints[a], prints[b]) /\ p = q /\ parent' = flat /\ rank' = rank
    BY <1>1, <1>5, <1>6, <1>8, <2>2
  <2>3. CASE Alike(prints[a], prints[b]) /\ p # q /\ rank[p] < rank[q]
             /\ parent' = [flat EXCEPT ![p] = q] /\ rank' = rank
    <3>1. /\ rank' \in [Docs -> Nat] /\ \A d \in Docs : rank[d] <= rank'[d]
          /\ \A d \in Docs \ {q} : rank'[d] = rank[d]
          /\ rank'[p] < rank'[q]
      BY <1>3, <2>3
    <3>0. /\ parent' \in [Docs -> Docs] /\ parent'[p] = q
          /\ \A d \in Docs \ {p} : parent'[d] = flat[d]
      BY <1>5, <1>8, <2>3
    <3>2. /\ Rises(parent', rank')
          /\ \A d \in Docs : Root(parent', d) = IF Root(flat, d) = p THEN q ELSE Root(flat, d)
      <4>1. p \in Docs /\ q \in Docs /\ flat[p] = p /\ flat[q] = q /\ p # q /\ Rises(flat, rank)
        BY <1>6, <1>8, <1>9, <2>3
      <4>. QED
        BY <3>0, <3>1, <4>1, LinkJoins
    <3>3. \A d \in Docs : Root(parent', d) = IF Root(parent, d) = p THEN q ELSE Root(parent, d)
      BY <1>6, <3>2
    <3>4. \A d \in Docs : parent'[d] = IF d = p THEN q ELSE flat[d]
      BY <1>5, <2>3
    <3>. QED
      BY ZenonT(60), <1>1, <1>5, <1>8, <2>3, <3>2, <3>3, <3>4
  <2>4. CASE Alike(prints[a], prints[b]) /\ p # q /\ ~(rank[p] < rank[q])
             /\ parent' = [flat EXCEPT ![q] = p]
             /\ rank' = IF rank[p] = rank[q] THEN [rank EXCEPT ![p] = @ + 1] ELSE rank
    <3>1. /\ rank' \in [Docs -> Nat] /\ \A d \in Docs : rank[d] <= rank'[d]
          /\ \A d \in Docs \ {p} : rank'[d] = rank[d]
      BY <1>3, <1>8, <2>4
    <3>2. rank'[q] < rank'[p]
      BY <1>3, <1>8, <2>4
    <3>0. /\ parent' \in [Docs -> Docs] /\ parent'[q] = p
          /\ \A d \in Docs \ {q} : parent'[d] = flat[d]
      BY <1>5, <1>8, <2>4
    <3>3. /\ Rises(parent', rank')
          /\ \A d \in Docs : Root(parent', d) = IF Root(flat, d) = q THEN p ELSE Root(flat, d)
      <4>1. p \in Docs /\ q \in Docs /\ flat[p] = p /\ flat[q] = q /\ q # p /\ Rises(flat, rank)
        BY <1>6, <1>8, <1>9, <2>4
      <4>. QED
        BY <3>0, <3>1, <3>2, <4>1, LinkJoins
    <3>4. \A d \in Docs : Root(parent', d) = IF Root(parent, d) = q THEN p ELSE Root(parent, d)
      BY <1>6, <3>3
    <3>5. \A d \in Docs : parent'[d] = IF d = q THEN p ELSE flat[d]
      BY <1>5, <2>4
    <3>. QED
      BY ZenonT(60), <1>1, <1>5, <1>8, <2>4, <3>3, <3>4, <3>5
  <2>. QED
    BY <1>4, <2>1, <2>2, <2>3, <2>4
<1>11. ForestIsRight'
  <2>1. ASSUME NEW x \in Docs, NEW y \in Docs, Compared(x, y)', Alike(prints[x], prints[y])
        PROVE  Root(parent', x) = Root(parent', y)
    <3>1. CASE Compared(x, y)
      BY <1>2, <1>10, <2>1, <3>1 DEF ForestIsRight
    <3>2. CASE x = a /\ y = b
      BY <1>10, <2>1, <3>2
    <3>. QED
      BY <1>1, <2>1, <3>1, <3>2
  <2>2. ASSUME NEW S \in SUBSET Docs, Closed(S)', NEW d \in Docs
        PROVE  d \in S <=> parent'[d] \in S
    <3>1. Closed(S) /\ (Alike(prints[a], prints[b]) => (a \in S <=> b \in S))
      BY <1>1, <1>3, <2>2 DEF Closed
    <3>2. \A e \in Docs : e \in S <=> parent[e] \in S
      BY <1>2, <3>1 DEF ForestIsRight
    <3>3. \A e \in Docs : e \in S <=> Root(parent, e) \in S
      BY <1>2, <3>2, RootFacts
    <3>4. Alike(prints[a], prints[b]) => (p \in S <=> q \in S)
      BY <1>1, <1>8, <3>1, <3>3
    <3>. QED
      BY <1>10, <3>2, <3>3, <3>4
  <2>. QED
    BY <1>3, <2>1, <2>2 DEF ForestIsRight
<1>12. KeptAreApart'
  BY <1>3 DEF NearInv, KeptAreApart, Matches
<1>. QED
  BY <1>1, <1>2, <1>3, <1>10, <1>11, <1>12 DEF NearInv

\* check_and_add keeps a document only if none of those kept is like it.
LEMMA CheckAndAddKeeps ==
  ASSUME NearInv, CheckAndAdd
  PROVE  NearInv'
<1>1. BatchDocs \in Nat
  BY NearDuplicatesAssumption
<1>2. /\ KeptAreApart /\ UNCHANGED <<prints, parent, rank, pair>>
      /\ checks < BatchDocs /\ checks' = checks + 1
      /\ kept' = IF \E d \in kept : Matches(d, checks + 1) THEN kept ELSE kept \cup {checks + 1}
  BY DEF NearInv, CheckAndAdd, Matches
<1>3. checks \in Nat /\ checks' \in 0 .. BatchDocs
      /\ \A d : d \in 1 .. checks + 1 <=> d \in 1 .. checks \/ d = checks + 1
  BY <1>1, <1>2 DEF KeptAreApart
<1>4. \A d, e : Matches(d, e)' <=> Matches(d, e)
  BY <1>2 DEF Matches
<1>5. \A d, e : Matches(d, e) => Matches(e, d)
  <2>1. \A f, g : Differ(f, g) = Differ(g, f)
    <3>. TAKE f, g
    <3>1. (f \ g) \cup (g \ f) = (g \ f) \cup (f \ g)
      OBVIOUS
    <3>. QED
      BY <3>1 DEF Differ
  <2>. QED
    BY <2>1 DEF Matches, Alike
<1>6. KeptAreApart'
  <2>1. CASE \E d \in kept : Matches(d, checks + 1)
    <3>1. PICK e \in kept : Matches(checks + 1, e)
      BY <1>5, <2>1
    <3>. QED
      BY <1>2, <1>3, <1>4, <2>1, <3>1 DEF KeptAreApart
  <2>2. CASE ~\E d \in kept : Matches(d, checks + 1)
    <3>1. kept' = kept \cup {checks + 1}
      BY <1>2, <2>2
    <3>2. \A d, e \in kept' : Matches(d, e) => d = e
      BY <1>2, <1>5, <2>2, <3>1 DEF KeptAreApart
    <3>. QED
      BY <1>2, <1>3, <1>4, <3>1, <3>2 DEF KeptAreApart
  <2>. QED
    BY <2>1, <2>2
<1>7. PairsAreAhead' /\ ForestIsRight'
  BY <1>2 DEF NearInv, PairsAreAhead, ForestIsRight, Closed, Compared
<1>. QED
  BY <1>2, <1>6, <1>7 DEF NearInv

-----------------------------------------------------------------------------
LEMMA AlikeFacts ==
  ASSUME prints \in [Docs -> SUBSET Bits]
  PROVE  \A d, e \in Docs : /\ Alike(prints[d], prints[d])
                            /\ Alike(prints[d], prints[e]) => Alike(prints[e], prints[d])
<1>. TAKE d, e \in Docs
<1>1. Alike(prints[d], prints[d])
  <2>1. (prints[d] \ prints[d]) \cup (prints[d] \ prints[d]) = {}
    OBVIOUS
  <2>2. Cardinality({}) = 0 /\ Distance \in Nat
    BY FS_EmptySet, NearDuplicatesAssumption
  <2>. QED
    BY <2>1, <2>2 DEF Alike, Differ
<1>2. Differ(prints[d], prints[e]) = Differ(prints[e], prints[d])
  <2>1. (prints[d] \ prints[e]) \cup (prints[e] \ prints[d]) = (prints[e] \ prints[d]) \cup (prints[d] \ prints[e])
    OBVIOUS
  <2>. QED
    BY <2>1 DEF Differ
<1>. QED
  BY <1>1, <1>2 DEF Alike

\* The documents that are similar to one of a set.
NextTo(S) == {e \in Docs : \E c \in S : Alike(prints[c], prints[e])}

LEMMA ComponentIsWalk ==
  ASSUME NEW d \in Docs
  PROVE  \E near \in [Nat -> SUBSET Docs] :
           near[0] = {d} /\ ComponentOf(d) = near[BatchDocs] /\ \A n \in Nat : near[n + 1] = NextTo(near[n])
<1>. DEFINE F(g) == g = [n \in Nat |-> IF n = 0 THEN {d}
                          ELSE {e \in Docs : \E c \in g[n - 1] : Alike(prints[c], prints[e])}]
            near == CHOOSE g : F(g)
            step == [q \in Nat \X SUBSET Docs |-> NextTo(q[2])]
<1>1. {d} \in SUBSET Docs /\ step \in [Nat \X SUBSET Docs -> SUBSET Docs]
  BY DEF NextTo
<1>2. PICK g \in [Nat -> SUBSET Docs] : WalkOn(g, {d}, step)
  <2>. HIDE DEF step
  <2>. QED
    BY <1>1, WalkExists
<1>3. F(g)
  <2>0. \A n \in Nat : n # 0 => n - 1 \in Nat
    OBVIOUS
  <2>1. \A n \in Nat : n # 0 => step[n, g[n - 1]] = NextTo(g[n - 1])
    BY <2>0
  <2>. HIDE DEF step
  <2>. QED
    BY <1>2, <2>1 DEF WalkOn, NextTo
<1>4. F(near)
  BY ZenonT(60), <1>3
<1>5. ComponentOf(d) = near[BatchDocs]
  BY DEF ComponentOf
<1>. HIDE DEF near
<1>6. near[0] = {d} /\ \A n \in Nat : near[n + 1] = NextTo(near[n])
  BY <1>4 DEF NextTo
<1>7. near \in [Nat -> SUBSET Docs]
  <2>1. \A n \in Nat : near[n] \in SUBSET Docs
    BY <1>4
  <2>. QED
    BY <1>4, <2>1
<1>. QED
  BY <1>5, <1>6, <1>7

\* A set that is not complete grows, and there are no more documents than steps.
LEMMA ComponentIsComplete ==
  ASSUME NEW d \in Docs, prints \in [Docs -> SUBSET Bits]
  PROVE  d \in ComponentOf(d) /\ ComponentOf(d) \subseteq Docs /\ NextTo(ComponentOf(d)) = ComponentOf(d)
<1>0. PICK near \in [Nat -> SUBSET Docs] :
        near[0] = {d} /\ ComponentOf(d) = near[BatchDocs] /\ \A n \in Nat : near[n + 1] = NextTo(near[n])
  BY ComponentIsWalk
<1>1. BatchDocs \in Nat /\ IsFiniteSet(Docs) /\ Cardinality(Docs) = BatchDocs
  BY NearDuplicatesAssumption, FS_Interval DEF Docs
<1>2. \A S \in SUBSET Docs : S \subseteq NextTo(S) /\ IsFiniteSet(S) /\ Cardinality(S) \in Nat
                             /\ Cardinality(S) <= BatchDocs
  BY <1>1, AlikeFacts, FS_Subset, FS_CardinalityType DEF NextTo
<1>3. \A n \in Nat : d \in near[n]
  <2>. DEFINE A == {n \in Nat : d \in near[n]}
  <2>1. 0 \in A
    BY <1>0
  <2>2. ASSUME NEW n \in Nat, n \in A PROVE n + 1 \in A
    BY <1>0, <1>2, <2>2
  <2>. HIDE DEF A
  <2>3. \A n \in Nat : n \in A
    BY <2>1, <2>2, CountingUp
  <2>. QED
    BY <2>3 DEF A
<1>4. \A n \in Nat : NextTo(near[n]) = near[n] \/ Cardinality(near[n]) >= n + 1
  <2>. DEFINE A == {n \in Nat : NextTo(near[n]) = near[n] \/ Cardinality(near[n]) >= n + 1}
  <2>1. 0 \in A
    <3>1. Cardinality(near[0]) = 1
      BY <1>0, FS_Singleton
    <3>. QED
      BY <3>1
  <2>2. ASSUME NEW n \in Nat, n \in A PROVE n + 1 \in A
    <3>1. near[n] \in SUBSET Docs /\ near[n + 1] \in SUBSET Docs /\ near[n + 1] = NextTo(near[n])
      BY <1>0
    <3>2. CASE NextTo(near[n]) = near[n]
      BY <3>1, <3>2
    <3>3. CASE NextTo(near[n]) # near[n] /\ Cardinality(near[n]) >= n + 1
      <4>1. PICK e \in near[n + 1] : e \notin near[n]
        BY <1>2, <3>1, <3>3
      <4>2. near[n] \cup {e} \in SUBSET near[n + 1]
        BY <1>2, <3>1
      <4>3. Cardinality(near[n] \cup {e}) = Cardinality(near[n]) + 1
        BY <1>2, <3>1, <4>1, FS_AddElement
      <4>4. Cardinality(near[n] \cup {e}) <= Cardinality(near[n + 1])
        BY <1>2, <3>1, <4>2, FS_Subset
      <4>5. Cardinality(near[n + 1]) \in Nat /\ Cardinality(near[n]) \in Nat
        BY <1>2, <3>1
      <4>. QED
        BY <3>3, <4>3, <4>4, <4>5
    <3>. QED
      BY <2>2, <3>2, <3>3
  <2>. HIDE DEF A
  <2>3. \A n \in Nat : n \in A
    BY <2>1, <2>2, CountingUp
  <2>. QED
    BY <2>3 DEF A
<1>5. ~(Cardinality(near[BatchDocs]) >= BatchDocs + 1)
  <2>1. near[BatchDocs] \in SUBSET Docs
    BY <1>1
  <2>. QED
    BY <1>1, <1>2, <2>1
<1>. QED
  BY <1>0, <1>1, <1>3, <1>4, <1>5

\* At the end every pair was compared.
LEMMA AllCompared ==
  ASSUME NearInv, pair[2] > BatchDocs
  PROVE  \A x, y \in Docs : x < y => Compared(x, y)
<1>1. BatchDocs \in Nat
  BY NearDuplicatesAssumption
<1>2. pair = <<BatchDocs, BatchDocs + 1>>
  BY <1>1 DEF NearInv, PairsAreAhead
<1>. QED
  BY <1>1, <1>2 DEF Compared, Docs

\* One cluster is what chains of similar documents connect.
LEMMA ClustersAreComponents ==
  ASSUME NearInv, pair[2] > BatchDocs, NEW d \in Docs, NEW e \in Docs
  PROVE  Root(parent, d) = Root(parent, e) <=> e \in ComponentOf(d)
<1>1. prints \in [Docs -> SUBSET Bits] /\ Rises(parent, rank) /\ ForestIsRight
  BY DEF NearInv
<1>2. \A x, y \in Docs : x < y => Compared(x, y)
  BY AllCompared
<1>3. \A x, y \in Docs : /\ Alike(prints[x], prints[x])
                         /\ Alike(prints[x], prints[y]) => Alike(prints[y], prints[x])
  BY <1>1, AlikeFacts
<1>4. ASSUME Root(parent, d) = Root(parent, e) PROVE e \in ComponentOf(d)
  <2>. DEFINE S == ComponentOf(d)
  <2>1. d \in S /\ S \subseteq Docs /\ NextTo(S) = S
    BY <1>1, ComponentIsComplete
  <2>. HIDE DEF S
  <2>2. Closed(S)
    BY <1>3, <2>1 DEF Closed, NextTo
  <2>3. \A x \in Docs : x \in S <=> parent[x] \in S
    BY <1>1, <2>1, <2>2 DEF ForestIsRight
  <2>4. \A x \in Docs : x \in S <=> Root(parent, x) \in S
    BY <1>1, <2>3, RootFacts
  <2>. QED
    BY <1>4, <2>1, <2>4 DEF S
<1>5. ASSUME e \in ComponentOf(d) PROVE Root(parent, d) = Root(parent, e)
  <2>0. PICK near \in [Nat -> SUBSET Docs] :
          near[0] = {d} /\ ComponentOf(d) = near[BatchDocs] /\ \A n \in Nat : near[n + 1] = NextTo(near[n])
    BY ComponentIsWalk
  <2>. DEFINE A == {n \in Nat : \A x \in near[n] : Root(parent, x) = Root(parent, d)}
  <2>1. 0 \in A
    BY <2>0
  <2>2. ASSUME NEW n \in Nat, n \in A PROVE n + 1 \in A
    <3>1. ASSUME NEW x \in near[n + 1] PROVE Root(parent, x) = Root(parent, d)
      <4>1. x \in Docs /\ x \in NextTo(near[n])
        BY <2>0, <3>1
      <4>2. PICK c \in near[n] : Alike(prints[c], prints[x])
        BY <4>1 DEF NextTo
      <4>3. c \in Docs /\ (c < x \/ x < c \/ c = x)
        BY <4>1 DEF Docs
      <4>4. Root(parent, c) = Root(parent, x)
        BY <1>1, <1>2, <1>3, <4>1, <4>2, <4>3 DEF ForestIsRight
      <4>. QED
        BY <2>2, <4>2, <4>4
    <3>. QED
      BY <3>1
  <2>. HIDE DEF A
  <2>3. \A n \in Nat : n \in A
    BY <2>1, <2>2, CountingUp
  <2>4. BatchDocs \in A
    BY <2>3, NearDuplicatesAssumption
  <2>. QED
    BY <1>5, <2>0, <2>4 DEF A
<1>. QED
  BY <1>4, <1>5

LEMMA NearInvHolds == NearInv => DuplicatesAreFound
<1>. SUFFICES ASSUME NearInv PROVE DuplicatesAreFound
  OBVIOUS
<1>1. pair[2] > BatchDocs => \A d, e \in Docs : Root(parent, d) = Root(parent, e) <=> e \in ComponentOf(d)
  BY ClustersAreComponents
<1>2. pair[2] > BatchDocs => \A d, e \in Docs : RootOf(d) = RootOf(e) <=> e \in ComponentOf(d)
  BY <1>1, PathsAreWays
<1>. QED
  BY <1>2 DEF DuplicatesAreFound, NearInv, KeptAreApart

\* Whatever is left alone stays right.
LEMMA NearInvStays == NearInv /\ UNCHANGED nearVars => NearInv'
BY SMTT(40) DEF NearInv, nearVars, PairsAreAhead, ForestIsRight, KeptAreApart, Closed, Compared, Matches

-----------------------------------------------------------------------------
(* PageDocuments: what becomes of a page.                                  *)

Events == {"PageFailed", "PageSkipped", "DocumentIndexed", "history"}

\* Every document of S has one in T of the same page and part.
Held(S, T) == \A d \in S : \E c \in T : c.url = d.url /\ c.part = d.part

HasDocs(docs, m) == \E d \in docs : d.url = m.url

\* Page m is in the index, but for faults, or was reported as seen before.
PageIsHeld(docs, m, faults, told) ==
  Readable(m) /\ m.text # NoText /\ faults = 0 =>
    \/ \A part \in PartsOf(m) : \E d \in docs : d.url = m.url /\ d.part = part
    \/ "PageSkipped" \in told

\* One of the first k pages has this text, and is in the index but for faults.
ShownBy(docs, pages, faults, text, k) ==
  \E e \in 1 .. k : /\ Readable(pages[e]) /\ pages[e].text = text
                    /\ HasDocs(docs, pages[e]) \/ faults > 0

DocIsAsked(d) ==
  d.fields \subseteq FeaturesOf[d.job].fields \cup (IF FeaturesOf[d.job].ai THEN {"ai"} ELSE {})

DocHasPage(d, pages) == \E k \in 1 .. Len(pages) : d.url = pages[k].url /\ d.job = pages[k].job

Undecoded(pages, k) == {e \in 1 .. k : pages[e].type = "pdf" /\ ~pages[e].decodes}

DocumentsInv ==
  /\ taken \in Seq(PageInputs) /\ counts \in [Outcomes -> Nat] /\ pageFaults \in Nat
  /\ pageEvents \in Seq(SUBSET Events) /\ Len(pageEvents) = Len(taken)
  /\ \A k \in 1 .. Len(taken) :
       /\ PageIsHeld(indexDocs, taken[k], pageFaults, pageEvents[k])
       /\ "PageSkipped" \in pageEvents[k] =>
            ShownBy(indexDocs, taken, pageFaults, taken[k].text, k - 1)
       /\ "DocumentIndexed" \in pageEvents[k] => HasDocs(indexDocs, taken[k])
  /\ \A s \in detected : ShownBy(indexDocs, taken, pageFaults, s.text, Len(taken))
  /\ \A d \in indexDocs : DocIsAsked(d) /\ DocHasPage(d, taken)
  /\ Len(taken) = counts.skipped + counts.failed + counts.duplicate + counts.success
                    + Cardinality(Undecoded(taken, Len(taken)))

LEMMA DocumentsInvHolds ==
  ASSUME DocumentsInv
  PROVE  PagesBecomeDocuments
<1>1. DOMAIN taken = 1 .. Len(taken) /\ Range(taken) = {taken[k] : k \in 1 .. Len(taken)}
  <2>1. taken \in Seq(PageInputs)
    BY DEF DocumentsInv
  <2>2. DOMAIN taken = 1 .. Len(taken)
    BY <2>1
  <2>. QED
    BY <2>2 DEF Range
<1>2. ASSUME NEW m PROVE HasDocs(indexDocs, m) <=> DocsOf(m) # {}
  BY DEF HasDocs, DocsOf
<1>3. ASSUME NEW k \in 1 .. Len(taken)
      PROVE  Readable(taken[k]) /\ taken[k].text # NoText /\ pageFaults = 0 =>
               \/ PartsOf(taken[k]) \subseteq {d.part : d \in DocsOf(taken[k])}
               \/ "PageSkipped" \in pageEvents[k]
  BY DEF DocumentsInv, PageIsHeld, DocsOf
<1>4. ASSUME NEW k \in 1 .. Len(taken)
      PROVE  /\ "PageSkipped" \in pageEvents[k] =>
                  \E e \in 1 .. (k - 1) : /\ Readable(taken[e]) /\ taken[e].text = taken[k].text
                                          /\ DocsOf(taken[e]) # {} \/ pageFaults > 0
             /\ "DocumentIndexed" \in pageEvents[k] => DocsOf(taken[k]) # {}
  BY ZenonT(60), <1>2 DEF DocumentsInv, ShownBy
<1>5. \A d \in indexDocs :
        /\ d.fields \subseteq FeaturesOf[d.job].fields
                              \cup (IF FeaturesOf[d.job].ai THEN {"ai"} ELSE {})
        /\ \E m \in Range(taken) : d.url = m.url /\ d.job = m.job
  BY <1>1 DEF DocumentsInv, DocIsAsked, DocHasPage
<1>6. Len(taken) = counts.skipped + counts.failed + counts.duplicate + counts.success
                    + Cardinality({k \in DOMAIN taken : taken[k].type = "pdf" /\ ~taken[k].decodes})
  BY <1>1 DEF DocumentsInv, Undecoded
<1>. QED
  BY <1>1, <1>3, <1>4, <1>5, <1>6 DEF PagesBecomeDocuments

LEMMA DocumentsInvInit ==
  ASSUME DocumentsInit
  PROVE  DocumentsInv
<1>1. Cardinality(Undecoded(taken, 0)) = 0
  <2>1. Undecoded(taken, 0) = {}
    BY DEF Undecoded
  <2>. QED
    BY <2>1, FS_EmptySet
<1>2. taken = <<>> /\ pageEvents = <<>> /\ Len(taken) = 0 /\ Len(pageEvents) = 0
      /\ detected = {} /\ indexDocs = {} /\ pageFaults = 0
  BY DEF DocumentsInit
<1>3. /\ counts \in [Outcomes -> Nat]
      /\ counts.skipped = 0 /\ counts.failed = 0 /\ counts.duplicate = 0 /\ counts.success = 0
  BY DEF DocumentsInit, Outcomes
<1>4. Len(taken) = counts.skipped + counts.failed + counts.duplicate + counts.success
                    + Cardinality(Undecoded(taken, Len(taken)))
  BY <1>1, <1>2, <1>3
<1>. QED
  BY <1>2, <1>3, <1>4 DEF DocumentsInv

\* What was held stays held.
LEMMA ShownStays ==
  ASSUME NEW docs, NEW more, Held(docs, more), NEW pages, NEW longer, NEW faults \in Nat,
         NEW n \in Nat, NEW text, NEW k \in Nat, NEW j \in Nat, k <= j,
         \A e \in 1 .. k : longer[e] = pages[e],
         ShownBy(docs, pages, faults, text, k)
  PROVE  ShownBy(more, longer, faults + n, text, j)
<1>1. PICK e \in 1 .. k : /\ Readable(pages[e]) /\ pages[e].text = text
                          /\ HasDocs(docs, pages[e]) \/ faults > 0
  BY DEF ShownBy
<1>2. e \in 1 .. j /\ longer[e] = pages[e]
  BY <1>1
<1>3. HasDocs(more, pages[e]) \/ faults + n > 0
  BY <1>1 DEF HasDocs, Held
<1>. QED
  BY <1>1, <1>2, <1>3 DEF ShownBy

\* A page more is one PDF more that cannot be decoded, or none.
LEMMA OneUndecodedMore ==
  ASSUME NEW len \in Nat, NEW pages, NEW longer, \A e \in 1 .. len : longer[e] = pages[e]
  PROVE  /\ Cardinality(Undecoded(pages, len)) \in Nat
         /\ Cardinality(Undecoded(longer, len + 1))
              = Cardinality(Undecoded(pages, len))
                  + (IF longer[len + 1].type = "pdf" /\ ~longer[len + 1].decodes THEN 1 ELSE 0)
<1>. DEFINE old == Undecoded(pages, len)
            bad(e) == longer[e].type = "pdf" /\ ~longer[e].decodes
<1>1. IsFiniteSet(1 .. len) /\ old \subseteq 1 .. len
  BY FS_Interval DEF Undecoded
<1>2. IsFiniteSet(old) /\ len + 1 \notin old
  BY <1>1, FS_Subset
<1>3. old = {e \in 1 .. len : bad(e)}
  BY DEF Undecoded
<1>4. Undecoded(longer, len + 1) = {e \in 1 .. len + 1 : bad(e)}
  BY DEF Undecoded
<1>5. 1 .. len + 1 = (1 .. len) \cup {len + 1}
  OBVIOUS
<1>. HIDE DEF bad, old
<1>6. Undecoded(longer, len + 1) = IF bad(len + 1) THEN old \cup {len + 1} ELSE old
  BY <1>3, <1>4, <1>5
<1>7. Cardinality(old \cup {len + 1}) = Cardinality(old) + 1 /\ Cardinality(old) \in Nat
  BY <1>2, FS_AddElement, FS_CardinalityType
<1>8. Cardinality(Undecoded(longer, len + 1)) = Cardinality(old) + (IF bad(len + 1) THEN 1 ELSE 0)
  <2>1. CASE bad(len + 1)
    BY <1>6, <1>7, <2>1
  <2>2. CASE ~bad(len + 1)
    BY <1>6, <1>7, <2>2
  <2>. QED
    BY <2>1, <2>2
<1>. QED
  BY <1>7, <1>8 DEF bad, old

\* A total and its parts grow alike.
LEMMA TotalsMove ==
  ASSUME NEW x \in Nat, NEW a \in Nat, NEW old \in Nat, NEW new \in Nat, new + x = old + 1
  PROVE  old + a + 1 = new + (a + x)
OBVIOUS

\* One page more: what holds of it and of what it adds, with all that was held before,
\* is what holds of all pages.
LEMMA OnePageMore ==
  ASSUME DocumentsInv, NEW m \in PageInputs, NEW n \in Nat, NEW told \in SUBSET Events,
         taken' = Append(taken, m), pageFaults' = pageFaults + n,
         pageEvents' = Append(pageEvents, told), Held(indexDocs, indexDocs'),
         PageIsHeld(indexDocs', m, pageFaults', told),
         "PageSkipped" \in told => \E s \in detected : s.text = m.text,
         "DocumentIndexed" \in told => HasDocs(indexDocs', m),
         \A s \in detected' : \/ s \in detected
                              \/ /\ s.text = m.text /\ Readable(m)
                                 /\ HasDocs(indexDocs', m) \/ pageFaults' > 0,
         \A d \in indexDocs' : d \in indexDocs \/ (d.url = m.url /\ d.job = m.job /\ DocIsAsked(d)),
         counts' \in [Outcomes -> Nat],
         counts'.skipped + counts'.failed + counts'.duplicate + counts'.success
           + (IF m.type = "pdf" /\ ~m.decodes THEN 1 ELSE 0)
         = counts.skipped + counts.failed + counts.duplicate + counts.success + 1
  PROVE  DocumentsInv'
<1>. DEFINE len == Len(taken)
<1>1. /\ taken \in Seq(PageInputs) /\ pageEvents \in Seq(SUBSET Events) /\ Len(pageEvents) = len
      /\ pageFaults \in Nat /\ len \in Nat
  BY DEF DocumentsInv
<1>2. /\ taken' \in Seq(PageInputs) /\ Len(taken') = len + 1 /\ taken'[len + 1] = m
      /\ \A k \in 1 .. len : taken'[k] = taken[k]
  BY <1>1
<1>3. /\ pageEvents' \in Seq(SUBSET Events) /\ Len(pageEvents') = len + 1 /\ pageEvents'[len + 1] = told
      /\ \A k \in 1 .. len : pageEvents'[k] = pageEvents[k]
  BY <1>1
<1>4. /\ pageFaults' \in Nat /\ (pageFaults' = 0 => pageFaults = 0)
      /\ (pageFaults > 0 => pageFaults' > 0)
  BY <1>1
<1>5. /\ \A k \in 1 .. len :
           /\ PageIsHeld(indexDocs, taken[k], pageFaults, pageEvents[k])
           /\ "PageSkipped" \in pageEvents[k] =>
                ShownBy(indexDocs, taken, pageFaults, taken[k].text, k - 1)
           /\ "DocumentIndexed" \in pageEvents[k] => HasDocs(indexDocs, taken[k])
      /\ \A s \in detected : ShownBy(indexDocs, taken, pageFaults, s.text, len)
      /\ \A d \in indexDocs : DocIsAsked(d) /\ DocHasPage(d, taken)
      /\ len = counts.skipped + counts.failed + counts.duplicate + counts.success
                 + Cardinality(Undecoded(taken, len))
      /\ counts \in [Outcomes -> Nat]
  BY DEF DocumentsInv
<1>. HIDE DEF len
<1>6. \A k \in 1 .. len + 1 : k \in 1 .. len \/ k = len + 1
  BY <1>1
<1>7. ASSUME NEW text, NEW k \in 0 .. len, NEW j \in Nat, k <= j,
             ShownBy(indexDocs, taken, pageFaults, text, k)
      PROVE  ShownBy(indexDocs', taken', pageFaults', text, j)
  <2>1. k \in Nat /\ \A e \in 1 .. k : taken'[e] = taken[e]
    BY <1>1, <1>2
  <2>2. ShownBy(indexDocs', taken', pageFaults + n, text, j)
    BY <1>1, <1>7, <2>1, ShownStays
  <2>. QED
    BY <2>2
<1>8. ASSUME NEW k \in 1 .. len + 1
      PROVE  PageIsHeld(indexDocs', taken'[k], pageFaults', pageEvents'[k])
  <2>1. CASE k = len + 1
    BY <1>2, <1>3, <2>1
  <2>2. CASE k \in 1 .. len
    <3>1. /\ PageIsHeld(indexDocs, taken[k], pageFaults, pageEvents[k])
          /\ taken'[k] = taken[k] /\ pageEvents'[k] = pageEvents[k]
      BY <1>2, <1>3, <1>5, <2>2
    <3>2. PageIsHeld(indexDocs', taken[k], pageFaults', pageEvents[k])
      <4>. SUFFICES ASSUME Readable(taken[k]), taken[k].text # NoText, pageFaults' = 0,
                           "PageSkipped" \notin pageEvents[k], NEW part \in PartsOf(taken[k])
                    PROVE  \E d \in indexDocs' : d.url = taken[k].url /\ d.part = part
        BY DEF PageIsHeld
      <4>1. pageFaults = 0
        BY <1>4
      <4>2. PICK d \in indexDocs : d.url = taken[k].url /\ d.part = part
        BY <3>1, <4>1 DEF PageIsHeld
      <4>. QED
        BY <4>2 DEF Held
    <3>. QED
      BY <3>1, <3>2
  <2>. QED
    BY <1>6, <2>1, <2>2
<1>9. ASSUME NEW k \in 1 .. len + 1, "PageSkipped" \in pageEvents'[k]
      PROVE  ShownBy(indexDocs', taken', pageFaults', taken'[k].text, k - 1)
  <2>1. CASE k = len + 1
    <3>1. PICK s \in detected : s.text = m.text
      BY <1>3, <1>9, <2>1
    <3>2. ShownBy(indexDocs, taken, pageFaults, m.text, len)
      BY <1>5, <3>1
    <3>3. len \in 0 .. len /\ len <= len /\ k - 1 = len
      BY <1>1, <2>1
    <3>. QED
      BY <1>1, <1>2, <1>7, <2>1, <3>2, <3>3
  <2>2. CASE k \in 1 .. len
    <3>1. ShownBy(indexDocs, taken, pageFaults, taken[k].text, k - 1) /\ taken'[k] = taken[k]
      BY <1>2, <1>3, <1>5, <1>9, <2>2
    <3>2. k - 1 \in 0 .. len /\ k - 1 \in Nat /\ k - 1 <= k - 1
      BY <1>1, <2>2
    <3>. QED
      BY <1>7, <3>1, <3>2
  <2>. QED
    BY <1>6, <2>1, <2>2
<1>10. ASSUME NEW k \in 1 .. len + 1, "DocumentIndexed" \in pageEvents'[k]
       PROVE  HasDocs(indexDocs', taken'[k])
  <2>1. CASE k = len + 1
    BY <1>2, <1>3, <1>10, <2>1
  <2>2. CASE k \in 1 .. len
    <3>1. HasDocs(indexDocs, taken[k]) /\ taken'[k] = taken[k]
      BY <1>2, <1>3, <1>5, <1>10, <2>2
    <3>. QED
      BY <3>1 DEF HasDocs, Held
  <2>. QED
    BY <1>6, <2>1, <2>2
<1>11. ASSUME NEW s \in detected'
       PROVE  ShownBy(indexDocs', taken', pageFaults', s.text, len + 1)
  <2>0. len \in 0 .. len /\ len + 1 \in Nat /\ len <= len + 1 /\ len + 1 \in 1 .. len + 1
    BY <1>1
  <2>1. CASE s \in detected
    BY <1>5, <1>7, <2>0, <2>1
  <2>2. CASE /\ s.text = m.text /\ Readable(m)
             /\ HasDocs(indexDocs', m) \/ pageFaults' > 0
    BY <1>2, <2>0, <2>2 DEF ShownBy
  <2>. QED
    BY <2>1, <2>2
<1>12. ASSUME NEW d \in indexDocs'
       PROVE  DocIsAsked(d) /\ DocHasPage(d, taken')
  <2>1. len + 1 \in 1 .. len + 1 /\ 1 .. len \subseteq 1 .. len + 1
    BY <1>1
  <2>2. CASE d \in indexDocs
    <3>1. DocIsAsked(d) /\ \E k \in 1 .. len : d.url = taken[k].url /\ d.job = taken[k].job
      BY <1>5, <2>2 DEF DocHasPage, len
    <3>. QED
      BY <1>2, <2>1, <3>1 DEF DocHasPage
  <2>3. CASE d.url = m.url /\ d.job = m.job /\ DocIsAsked(d)
    BY <1>2, <2>1, <2>3 DEF DocHasPage
  <2>. QED
    BY <2>2, <2>3
<1>14. len + 1 = counts'.skipped + counts'.failed + counts'.duplicate + counts'.success
                   + Cardinality(Undecoded(taken', len + 1))
  <2>1. PICK a, b, x : /\ a = Cardinality(Undecoded(taken, len))
                       /\ b = Cardinality(Undecoded(taken', len + 1))
                       /\ x = (IF m.type = "pdf" /\ ~m.decodes THEN 1 ELSE 0)
    OBVIOUS
  <2>2. x \in Nat /\ a \in Nat /\ b = a + x
    <3>1. /\ Cardinality(Undecoded(taken, len)) \in Nat
          /\ Cardinality(Undecoded(taken', len + 1))
               = Cardinality(Undecoded(taken, len))
                   + (IF taken'[len + 1].type = "pdf" /\ ~taken'[len + 1].decodes THEN 1 ELSE 0)
      <4>1. len \in Nat /\ \A e \in 1 .. len : taken'[e] = taken[e]
        BY <1>1, <1>2
      <4>. QED
        BY <4>1, OneUndecodedMore
    <3>2. x \in Nat
      BY <2>1
    <3>3. x = (IF taken'[len + 1].type = "pdf" /\ ~taken'[len + 1].decodes THEN 1 ELSE 0)
      BY <1>2, <2>1
    <3>4. b = a + x /\ a \in Nat
      BY <2>1, <3>1, <3>3
    <3>. QED
      BY <3>2, <3>4
  <2>5. /\ counts.skipped \in Nat /\ counts.failed \in Nat /\ counts.duplicate \in Nat
        /\ counts.success \in Nat
    BY <1>5 DEF Outcomes
  <2>6. /\ counts'.skipped \in Nat /\ counts'.failed \in Nat /\ counts'.duplicate \in Nat
        /\ counts'.success \in Nat
    BY DEF Outcomes
  <2>7. counts'.skipped + counts'.failed + counts'.duplicate + counts'.success + x
          = counts.skipped + counts.failed + counts.duplicate + counts.success + 1
    BY <2>1
  <2>8. len = counts.skipped + counts.failed + counts.duplicate + counts.success + a
    BY <1>5, <2>1
  <2>9. PICK old \in Nat : old = counts.skipped + counts.failed + counts.duplicate + counts.success
    BY <2>5
  <2>10. PICK new \in Nat :
           new = counts'.skipped + counts'.failed + counts'.duplicate + counts'.success
    BY <2>6
  <2>11. new + x = old + 1 /\ len = old + a /\ new \in Nat /\ old \in Nat
    BY <2>7, <2>8, <2>9, <2>10
  <2>12. len + 1 = new + b
    <3>1. old + a + 1 = new + (a + x)
      BY <2>2, <2>11, TotalsMove
    <3>. QED
      BY <2>2, <2>11, <3>1
  <2>. QED
    BY <2>1, <2>10, <2>12
<1>. QED
  BY <1>1, <1>2, <1>3, <1>4, <1>8, <1>9, <1>10, <1>11, <1>12, <1>14 DEF DocumentsInv

\* A document that is added is held, with all that was.
LEMMA AddedHolds ==
  ASSUME NEW S, NEW T, NEW x, Held(S, T)
  PROVE  Held(S \cup {x}, Added(T, x))
<1>. SUFFICES ASSUME NEW d \in S \cup {x}
              PROVE  \E c \in Added(T, x) : c.url = d.url /\ c.part = d.part
  BY DEF Held
<1>1. x \in Added(T, x)
  BY DEF Added
<1>2. CASE d \in S
  <2>1. PICK c \in T : c.url = d.url /\ c.part = d.part
    BY <1>2 DEF Held
  <2>2. CASE c.url # x.url \/ c.part # x.part
    BY <2>1, <2>2 DEF Added
  <2>3. CASE c.url = x.url /\ c.part = x.part
    BY <1>1, <2>1, <2>3
  <2>. QED
    BY <2>2, <2>3
<1>. QED
  BY <1>1, <1>2

\* The index with accepted documents holds what it held, and these; and nothing else
\* is in it.
LEMMA UpsertedHolds ==
  ASSUME NEW docs, NEW n \in Nat, n = Len(docs), NEW written \in SUBSET (1 .. n)
  PROVE  /\ Held(indexDocs \cup {docs[i] : i \in written}, Upserted(docs, written))
         /\ Upserted(docs, written) \subseteq indexDocs \cup {docs[i] : i \in written}
<1>. DEFINE V == SUBSET (indexDocs \cup {docs[i] : i \in written})
            K(g) == g = [i \in 0 .. n |->
                           IF i = 0 THEN indexDocs
                           ELSE IF i \in written THEN Added(g[i - 1], docs[i]) ELSE g[i - 1]]
            step == [p \in (1 .. n) \X V |->
                       IF p[1] \in written THEN Added(p[2], docs[p[1]]) ELSE p[2]]
            index == CHOOSE g : K(g)
<1>1. indexDocs \in V
  OBVIOUS
<1>2. step \in [(1 .. n) \X V -> V]
  <2>. SUFFICES ASSUME NEW i \in 1 .. n, NEW T \in V
                PROVE  (IF i \in written THEN Added(T, docs[i]) ELSE T) \in V
    OBVIOUS
  <2>1. i \in written => Added(T, docs[i]) \subseteq indexDocs \cup {docs[j] : j \in written}
    BY DEF Added
  <2>. QED
    BY <2>1
<1>. HIDE DEF V, step
<1>3. PICK g \in [0 .. n -> V] : WalkTo(g, n, indexDocs, step)
  BY <1>1, <1>2, WalkEnds
<1>4. K(g)
  <2>. SUFFICES ASSUME NEW i \in 0 .. n
                PROVE  g[i] = IF i = 0 THEN indexDocs
                              ELSE IF i \in written THEN Added(g[i - 1], docs[i]) ELSE g[i - 1]
    BY <1>3 DEF WalkTo
  <2>1. g[i] = IF i = 0 THEN indexDocs ELSE step[i, g[i - 1]]
    BY <1>3 DEF WalkTo
  <2>2. CASE i # 0
    <3>1. i \in 1 .. n /\ i - 1 \in 0 .. n
      BY <2>2
    <3>2. <<i, g[i - 1]>> \in (1 .. n) \X V
      BY <3>1
    <3>3. step[i, g[i - 1]] = IF i \in written THEN Added(g[i - 1], docs[i]) ELSE g[i - 1]
      BY <3>2 DEF step
    <3>. QED
      BY <2>1, <2>2, <3>3
  <2>. QED
    BY <2>1, <2>2
<1>5. K(index)
  <2>. HIDE DEF K
  <2>. QED
    BY <1>4
<1>7. Upserted(docs, written) = index[n]
  BY DEF Upserted
<1>. HIDE DEF index
<1>. DEFINE A == {i \in Nat : i \in 0 .. n =>
                    /\ Held(indexDocs \cup {docs[j] : j \in written \cap (1 .. i)}, index[i])
                    /\ index[i] \in V}
<1>8. 0 \in A
  <2>1. index[0] = indexDocs /\ written \cap (1 .. 0) = {}
    BY <1>5
  <2>. QED
    BY <1>1, <2>1 DEF Held
<1>9. ASSUME NEW i \in Nat, i \in A PROVE i + 1 \in A
  <2>. SUFFICES ASSUME i + 1 \in 0 .. n
                PROVE  /\ Held(indexDocs \cup {docs[j] : j \in written \cap (1 .. i + 1)},
                               index[i + 1])
                       /\ index[i + 1] \in V
    OBVIOUS
  <2>1. i \in 0 .. n /\ i + 1 # 0 /\ i + 1 - 1 = i
    OBVIOUS
  <2>2. index[i + 1] = IF i + 1 \in written THEN Added(index[i], docs[i + 1]) ELSE index[i]
    BY <1>5, <2>1
  <2>3. Held(indexDocs \cup {docs[j] : j \in written \cap (1 .. i)}, index[i]) /\ index[i] \in V
    BY <1>9, <2>1
  <2>6. i + 1 \in written => Added(index[i], docs[i + 1]) \in V
    BY <2>3 DEF Added, V
  <2>4. CASE i + 1 \in written
    <3>1. indexDocs \cup {docs[j] : j \in written \cap (1 .. i + 1)}
            = (indexDocs \cup {docs[j] : j \in written \cap (1 .. i)}) \cup {docs[i + 1]}
      <4>1. written \cap (1 .. i + 1) = (written \cap (1 .. i)) \cup {i + 1}
        BY <2>4
      <4>. QED
        BY <4>1
    <3>. QED
      BY <2>2, <2>3, <2>4, <2>6, <3>1, AddedHolds
  <2>5. CASE i + 1 \notin written
    <3>1. written \cap (1 .. i + 1) = written \cap (1 .. i)
      BY <2>5
    <3>. QED
      BY <2>2, <2>3, <2>5, <3>1
  <2>. QED
    BY <2>4, <2>5
<1>. HIDE DEF A
<1>10. \A i \in Nat : i \in A
  BY <1>8, <1>9, CountingUp
<1>11. n \in 0 .. n /\ written \cap (1 .. n) = written
  OBVIOUS
<1>12. Held(indexDocs \cup {docs[i] : i \in written}, index[n])
  BY <1>10, <1>11 DEF A
<1>13. index[n] \subseteq indexDocs \cup {docs[i] : i \in written}
  BY <1>10, <1>11 DEF A, V
<1>. QED
  BY <1>7, <1>12, <1>13

\* The documents of a page: one for each of its parts.
LEMMA DocumentsAre ==
  ASSUME NEW m \in PageInputs, NEW answered
  PROVE  /\ Len(DocumentsOf(m, answered)) \in Nat \ {0}
         /\ DOMAIN DocumentsOf(m, answered) = 1 .. Len(DocumentsOf(m, answered))
         /\ \A i \in 1 .. Len(DocumentsOf(m, answered)) :
              LET d == DocumentsOf(m, answered)[i]
              IN  d.url = m.url /\ d.job = m.job /\ DocIsAsked(d)
         /\ \A part \in PartsOf(m) : \E i \in 1 .. Len(DocumentsOf(m, answered)) :
              DocumentsOf(m, answered)[i].part = part
<1>1. Len(m.anchors) \in Nat /\ DOMAIN m.anchors = 1 .. Len(m.anchors)
  BY DocumentsAssumption
<1>2. CASE Cut(m) /\ Len(m.anchors) > 0
  <2>1. DocumentsOf(m, answered) = [i \in 1 .. Len(m.anchors) |-> BlockDocument(m, i)]
    BY <1>1, <1>2 DEF DocumentsOf
  <2>2. DOMAIN DocumentsOf(m, answered) = 1 .. Len(m.anchors)
        /\ Len(DocumentsOf(m, answered)) = Len(m.anchors)
    BY <1>1, <2>1
  <2>3. \A i \in 1 .. Len(m.anchors) :
          LET d == DocumentsOf(m, answered)[i] IN
            /\ d.url = m.url /\ d.job = m.job /\ DocIsAsked(d)
            /\ d.part = (IF m.anchors[i] = NoAnchor THEN i - 1 ELSE m.anchors[i])
    BY <2>1 DEF BlockDocument, DocIsAsked, Features
  <2>4. m.anchors # <<>>
    BY <1>1, <1>2
  <2>5. PartsOf(m) = {IF m.anchors[i] = NoAnchor THEN i - 1 ELSE m.anchors[i] : i \in 1 .. Len(m.anchors)}
    <3>1. PartsOf(m) = {IF m.anchors[i] = NoAnchor THEN i - 1 ELSE m.anchors[i] : i \in DOMAIN m.anchors}
      BY <1>2, <2>4 DEF PartsOf
    <3>. QED
      BY <1>1, <3>1
  <2>. QED
    BY <1>1, <1>2, <2>2, <2>3, <2>4, <2>5
<1>3. CASE ~(Cut(m) /\ Len(m.anchors) > 0)
  <2>1. DocumentsOf(m, answered) = <<WholeDocument(m, answered /\ ~Cut(m))>>
    BY <1>3 DEF DocumentsOf
  <2>2. PICK whole : whole = WholeDocument(m, answered /\ ~Cut(m))
    OBVIOUS
  <2>3. DOMAIN DocumentsOf(m, answered) = 1 .. 1 /\ Len(DocumentsOf(m, answered)) = 1
        /\ DocumentsOf(m, answered)[1] = whole
    BY <2>1, <2>2
  <2>4. whole.url = m.url /\ whole.job = m.job /\ whole.part = NoAnchor /\ DocIsAsked(whole)
    BY <2>2 DEF WholeDocument, DocIsAsked, Features
  <2>5. PartsOf(m) = {NoAnchor}
    <3>1. Cut(m) => m.anchors = <<>> \/ m.anchors # <<>>
      OBVIOUS
    <3>2. Len(m.anchors) = 0 => m.anchors = <<>>
      BY <1>1
    <3>. QED
      BY <1>1, <1>3, <3>2 DEF PartsOf
  <2>. QED
    BY <2>3, <2>4, <2>5
<1>. QED
  BY <1>2, <1>3

LEMMA LostIsOne == \A sent \in BOOLEAN : Lost(sent) \in Nat /\ (Lost(sent) = 0 <=> sent)
BY DEF Lost

\* What is counted once.
LEMMA CountedOnce ==
  ASSUME DocumentsInv, NEW o \in {"skipped", "failed", "duplicate"}, Counted(o, 1)
  PROVE  /\ counts' \in [Outcomes -> Nat]
         /\ counts'.skipped + counts'.failed + counts'.duplicate + counts'.success
              = counts.skipped + counts.failed + counts.duplicate + counts.success + 1
<1>1. counts \in [Outcomes -> Nat] /\ counts' = [counts EXCEPT ![o] = @ + 1]
  BY DEF DocumentsInv, Counted
<1>2. {"skipped", "failed", "duplicate", "success"} \subseteq Outcomes
  BY DEF Outcomes
<1>3. \A p \in Outcomes : /\ counts[p] \in Nat
                          /\ counts'[p] = IF p = o THEN counts[p] + 1 ELSE counts[p]
  BY <1>1, <1>2
<1>4. counts' \in [Outcomes -> Nat]
  BY <1>1, <1>2
<1>5. PICK a, b, c, d \in Nat :
        a = counts["skipped"] /\ b = counts["failed"] /\ c = counts["duplicate"] /\ d = counts["success"]
  BY <1>2, <1>3
<1>6. /\ counts'["skipped"] = (IF o = "skipped" THEN a + 1 ELSE a)
      /\ counts'["failed"] = (IF o = "failed" THEN b + 1 ELSE b)
      /\ counts'["duplicate"] = (IF o = "duplicate" THEN c + 1 ELSE c)
      /\ counts'["success"] = d
  BY <1>2, <1>3, <1>5
<1>7. CASE o = "skipped"
  BY <1>4, <1>5, <1>6, <1>7
<1>8. CASE o = "failed"
  BY <1>4, <1>5, <1>6, <1>8
<1>9. CASE o = "duplicate"
  BY <1>4, <1>5, <1>6, <1>9
<1>. QED
  BY <1>7, <1>8, <1>9

\* A page of which nothing gets into the index.
LEMMA PageLeftOut ==
  ASSUME DocumentsInv, NEW m \in PageInputs, NEW n \in Nat, NEW told \in SUBSET Events,
         TakePage(m, n), pageEvents' = Append(pageEvents, told), UNCHANGED <<detected, indexDocs>>,
         ~Readable(m) \/ m.text = NoText \/ n > 0 \/ "PageSkipped" \in told,
         "PageSkipped" \in told => \E s \in detected : s.text = m.text,
         "DocumentIndexed" \notin told,
         \/ /\ m.type = "pdf" /\ ~m.decodes /\ counts' = counts
         \/ /\ ~(m.type = "pdf" /\ ~m.decodes)
            /\ \E o \in {"skipped", "failed", "duplicate"} : Counted(o, 1)
  PROVE  DocumentsInv'
<1>1. taken' = Append(taken, m) /\ pageFaults' = pageFaults + n /\ pageFaults \in Nat
  BY DEF TakePage, DocumentsInv
<1>2. Held(indexDocs, indexDocs')
  BY DEF Held
<1>3. PageIsHeld(indexDocs', m, pageFaults', told)
  BY <1>1 DEF PageIsHeld
<1>4. /\ counts' \in [Outcomes -> Nat]
      /\ counts'.skipped + counts'.failed + counts'.duplicate + counts'.success
           + (IF m.type = "pdf" /\ ~m.decodes THEN 1 ELSE 0)
         = counts.skipped + counts.failed + counts.duplicate + counts.success + 1
  <2>1. CASE m.type = "pdf" /\ ~m.decodes /\ counts' = counts
    BY <2>1 DEF DocumentsInv
  <2>2. CASE /\ ~(m.type = "pdf" /\ ~m.decodes)
             /\ \E o \in {"skipped", "failed", "duplicate"} : Counted(o, 1)
    <3>1. PICK o \in {"skipped", "failed", "duplicate"} : Counted(o, 1)
      BY <2>2
    <3>2. /\ counts' \in [Outcomes -> Nat]
          /\ counts'.skipped + counts'.failed + counts'.duplicate + counts'.success
               = counts.skipped + counts.failed + counts.duplicate + counts.success + 1
      BY <3>1, CountedOnce
    <3>3. /\ counts'.skipped \in Nat /\ counts'.failed \in Nat /\ counts'.duplicate \in Nat
          /\ counts'.success \in Nat
      BY <3>2 DEF Outcomes
    <3>4. counts'.skipped + counts'.failed + counts'.duplicate + counts'.success + 0
            = counts'.skipped + counts'.failed + counts'.duplicate + counts'.success
      BY <3>3
    <3>5. (IF m.type = "pdf" /\ ~m.decodes THEN 1 ELSE 0) = 0
      BY <2>2
    <3>. QED
      BY <3>2, <3>4, <3>5
  <2>. QED
    BY <2>1, <2>2
<1>5. \A d \in indexDocs' : d \in indexDocs
  OBVIOUS
<1>6. \A s \in detected' : s \in detected
  OBVIOUS
<1>. QED
  BY <1>1, <1>2, <1>3, <1>4, <1>5, <1>6, OnePageMore

\* A page that is indexed.
LEMMA IndexPageKeeps ==
  ASSUME DocumentsInv, NEW m \in PageInputs, Readable(m), IndexPage(m)
  PROVE  DocumentsInv'
<1>0. PICK answered, available, sent, noted \in BOOLEAN :
        LET docs == DocumentsOf(m, answered)
        IN  \E written \in SUBSET DOMAIN docs :
              /\ (~available => written = {}) /\ (written = {} => sent)
              /\ noted => sent /\ Logging /\ m.type = "html"
              /\ TakePage(m, Lost(sent) + IF available THEN Len(docs) - Cardinality(written)
                                        ELSE 1)
              /\ SetUp(m, available)
              /\ indexDocs' = Upserted(docs, written)
              /\ counts' = [counts EXCEPT !.success = @ + 1, !.indexed = @ + Cardinality(written)]
              /\ pageEvents' = Append(pageEvents,
                   (IF written # {} /\ sent THEN {"DocumentIndexed"} ELSE {})
                     \cup (IF noted THEN {"history"} ELSE {}))
  BY DEF IndexPage
<1>1. PICK written \in SUBSET DOMAIN DocumentsOf(m, answered) :
        /\ (~available => written = {}) /\ (written = {} => sent)
        /\ TakePage(m, Lost(sent) + IF available
                                    THEN Len(DocumentsOf(m, answered)) - Cardinality(written)
                                    ELSE 1)
        /\ indexDocs' = Upserted(DocumentsOf(m, answered), written)
        /\ counts' = [counts EXCEPT !.success = @ + 1, !.indexed = @ + Cardinality(written)]
        /\ pageEvents' = Append(pageEvents,
             (IF written # {} /\ sent THEN {"DocumentIndexed"} ELSE {})
               \cup (IF noted THEN {"history"} ELSE {}))
  BY <1>0
<1>2. detected' = IF Looks(m) THEN detected \cup {[text |-> m.text, url |-> m.url]} ELSE detected
  BY DEF IndexPage
<1>. DEFINE docs == DocumentsOf(m, answered)
            len == Len(docs)
            told == (IF written # {} /\ sent THEN {"DocumentIndexed"} ELSE {})
                      \cup (IF noted THEN {"history"} ELSE {})
            n == Lost(sent) + IF available THEN len - Cardinality(written) ELSE 1
<1>3. /\ len \in Nat \ {0} /\ DOMAIN docs = 1 .. len
      /\ \A i \in 1 .. len : docs[i].url = m.url /\ docs[i].job = m.job /\ DocIsAsked(docs[i])
      /\ \A part \in PartsOf(m) : \E i \in 1 .. len : docs[i].part = part
  BY DocumentsAre
<1>4. TakePage(m, n) /\ indexDocs' = Upserted(docs, written) /\ pageEvents' = Append(pageEvents, told)
      /\ written \in SUBSET (1 .. len)
  BY <1>1, <1>3
<1>5. told \in SUBSET Events /\ "PageSkipped" \notin told
      /\ ("DocumentIndexed" \in told => written # {})
  BY DEF Events
<1>. HIDE DEF docs, told, len
<1>6. /\ IsFiniteSet(written) /\ Cardinality(written) \in Nat /\ Cardinality(written) <= len
      /\ (Cardinality(written) = len => written = 1 .. len)
  <2>1. IsFiniteSet(1 .. len) /\ Cardinality(1 .. len) = len
    BY <1>3, FS_Interval
  <2>. QED
    BY <1>4, <2>1, FS_Subset, FS_CardinalityType
<1>7. n \in Nat /\ (n = 0 => written = 1 .. len)
  <2>1. Lost(sent) \in Nat
    BY LostIsOne
  <2>2. PICK l, c \in Nat : l = Lost(sent) /\ c = Cardinality(written)
    BY <1>6, <2>1
  <2>3. n = l + IF available THEN len - c ELSE 1
    BY <2>2
  <2>4. CASE available
    BY <1>3, <1>6, <2>2, <2>3, <2>4
  <2>5. CASE ~available
    BY <2>2, <2>3, <2>5
  <2>. QED
    BY <2>4, <2>5
<1>. HIDE DEF n
<1>8. taken' = Append(taken, m) /\ pageFaults' = pageFaults + n /\ pageFaults \in Nat
  BY <1>4 DEF TakePage, DocumentsInv
<1>9. /\ Held(indexDocs \cup {docs[i] : i \in written}, indexDocs')
      /\ indexDocs' \subseteq indexDocs \cup {docs[i] : i \in written}
  <2>1. len = Len(docs) /\ len \in Nat
    BY <1>3 DEF len
  <2>. QED
    BY <1>4, <2>1, UpsertedHolds
<1>10. \A i \in written : \E d \in indexDocs' : d.url = m.url /\ d.part = docs[i].part
  <2>. SUFFICES ASSUME NEW i \in written
                PROVE  \E d \in indexDocs' : d.url = m.url /\ d.part = docs[i].part
    OBVIOUS
  <2>1. docs[i] \in indexDocs \cup {docs[j] : j \in written} /\ docs[i].url = m.url
    BY <1>3, <1>4
  <2>. QED
    BY <1>9, <2>1 DEF Held
<1>11. Held(indexDocs, indexDocs')
  BY <1>9 DEF Held
<1>12. pageFaults' = 0 => written = 1 .. len
  BY <1>7, <1>8
<1>13. PageIsHeld(indexDocs', m, pageFaults', told)
  BY <1>3, <1>10, <1>12 DEF PageIsHeld
<1>14. written # {} => HasDocs(indexDocs', m)
  BY <1>10 DEF HasDocs
<1>15. HasDocs(indexDocs', m) \/ pageFaults' > 0
  <2>1. pageFaults' \in Nat
    BY <1>7, <1>8
  <2>2. 1 \in 1 .. len
    BY <1>3
  <2>3. CASE pageFaults' = 0
    BY <1>12, <1>14, <2>2, <2>3
  <2>4. CASE pageFaults' # 0
    BY <2>1, <2>4
  <2>. QED
    BY <2>3, <2>4
<1>16. \A s \in detected' : \/ s \in detected
                            \/ /\ s.text = m.text /\ Readable(m)
                               /\ HasDocs(indexDocs', m) \/ pageFaults' > 0
  BY <1>2, <1>15
<1>17. \A d \in indexDocs' : d \in indexDocs \/ (d.url = m.url /\ d.job = m.job /\ DocIsAsked(d))
  BY <1>3, <1>4, <1>9
<1>18. /\ counts' \in [Outcomes -> Nat]
       /\ counts'.skipped + counts'.failed + counts'.duplicate + counts'.success
            + (IF m.type = "pdf" /\ ~m.decodes THEN 1 ELSE 0)
          = counts.skipped + counts.failed + counts.duplicate + counts.success + 1
  <2>1. counts \in [Outcomes -> Nat]
    BY DEF DocumentsInv
  <2>2. /\ counts' = [counts EXCEPT !["success"] = counts["success"] + 1,
                                    !["indexed"] = counts["indexed"] + Cardinality(written)]
        /\ {"skipped", "failed", "duplicate", "success", "indexed"} \subseteq Outcomes
    BY <1>1, <2>1 DEF Outcomes
  <2>3. counts' \in [Outcomes -> Nat]
    BY <1>6, <2>1, <2>2
  <2>4. /\ counts'.skipped = counts.skipped /\ counts'.failed = counts.failed
        /\ counts'.duplicate = counts.duplicate /\ counts'.success = counts.success + 1
    BY <2>1, <2>2
  <2>5. /\ counts.skipped \in Nat /\ counts.failed \in Nat /\ counts.duplicate \in Nat
        /\ counts.success \in Nat
    BY <2>1, <2>2
  <2>6. ~(m.type = "pdf" /\ ~m.decodes)
    BY DEF Readable
  <2>7. (IF m.type = "pdf" /\ ~m.decodes THEN 1 ELSE 0) = 0
    BY <2>6
  <2>. QED
    BY <2>3, <2>4, <2>5, <2>7
<1>. QED
  BY <1>5, <1>7, <1>8, <1>4, <1>11, <1>13, <1>14, <1>16, <1>17, <1>18, OnePageMore

LEMMA DocumentsInvNext ==
  ASSUME DocumentsInv, DocumentsNext
  PROVE  DocumentsInv'
<1>1. PICK m \in PageInputs :
        \/ SkipOther(m) \/ RefuseUndecodable(m) \/ FailUnparsed(m) \/ SkipEmpty(m)
        \/ SkipDuplicate(m) \/ IndexHtml(m) \/ IndexMarkdown(m) \/ IndexPdf(m)
  BY DEF DocumentsNext
<1>0. {} \in SUBSET Events /\ 0 \in Nat
  OBVIOUS
<1>2. CASE SkipOther(m)
  <2>1. /\ TakePage(m, 0) /\ Counted("skipped", 1) /\ pageEvents' = Append(pageEvents, {})
        /\ UNCHANGED <<detected, indexDocs>> /\ ~Readable(m) /\ ~(m.type = "pdf" /\ ~m.decodes)
    BY <1>2 DEF SkipOther, Readable
  <2>. QED
    BY <1>0, <2>1, PageLeftOut
<1>3. CASE RefuseUndecodable(m)
  <2>1. /\ TakePage(m, 0) /\ counts' = counts /\ pageEvents' = Append(pageEvents, {})
        /\ UNCHANGED <<detected, indexDocs>> /\ ~Readable(m) /\ m.type = "pdf" /\ ~m.decodes
    BY <1>3 DEF RefuseUndecodable, Readable
  <2>. QED
    BY <1>0, <2>1, PageLeftOut
<1>4. CASE FailUnparsed(m)
  <2>1. PICK sent \in BOOLEAN : TakePage(m, Lost(sent)) /\ PublishOf("PageFailed", sent)
    BY <1>4 DEF FailUnparsed
  <2>2. PICK told : told = IF sent THEN {"PageFailed"} ELSE {}
    OBVIOUS
  <2>3. told \in SUBSET Events /\ "PageSkipped" \notin told /\ "DocumentIndexed" \notin told
        /\ pageEvents' = Append(pageEvents, told) /\ Lost(sent) \in Nat
    BY <2>1, <2>2, LostIsOne DEF Events, PublishOf
  <2>4. /\ Counted("failed", 1) /\ UNCHANGED <<detected, indexDocs>> /\ ~Readable(m)
        /\ ~(m.type = "pdf" /\ ~m.decodes)
    BY <1>4 DEF FailUnparsed, Readable
  <2>. QED
    BY <2>1, <2>3, <2>4, PageLeftOut
<1>5. CASE SkipEmpty(m)
  <2>1. PICK available \in BOOLEAN : TakePage(m, Lost(available))
    BY <1>5 DEF SkipEmpty
  <2>2. /\ Counted("skipped", 1) /\ UNCHANGED <<detected, indexDocs>> /\ m.text = NoText
        /\ ~(m.type = "pdf" /\ ~m.decodes) /\ pageEvents' = Append(pageEvents, {})
        /\ Lost(available) \in Nat
    BY <1>5, LostIsOne DEF SkipEmpty, Readable
  <2>. QED
    BY <1>0, <2>1, <2>2, PageLeftOut
<1>6. CASE SkipDuplicate(m)
  <2>1. PICK available, sent \in BOOLEAN : /\ TakePage(m, Lost(available) + Lost(sent))
                                           /\ PublishOf("PageSkipped", sent)
    BY <1>6 DEF SkipDuplicate
  <2>2. PICK told : told = IF sent THEN {"PageSkipped"} ELSE {}
    OBVIOUS
  <2>3. PICK n : n = Lost(available) + Lost(sent)
    OBVIOUS
  <2>4. n \in Nat /\ (~sent => n > 0)
    <3>1. PICK k, l \in Nat : k = Lost(available) /\ l = Lost(sent) /\ (l = 0 <=> sent)
      BY LostIsOne
    <3>. QED
      BY <2>3, <3>1
  <2>5. told \in SUBSET Events /\ (sent => "PageSkipped" \in told) /\ "DocumentIndexed" \notin told
        /\ pageEvents' = Append(pageEvents, told)
    BY <2>1, <2>2 DEF Events, PublishOf
  <2>6. /\ Counted("duplicate", 1) /\ UNCHANGED <<detected, indexDocs>>
        /\ ~(m.type = "pdf" /\ ~m.decodes) /\ \E s \in detected : s.text = m.text
    BY <1>6 DEF SkipDuplicate, Readable, SeenBefore
  <2>. QED
    BY <2>1, <2>3, <2>4, <2>5, <2>6, PageLeftOut
<1>7. CASE IndexHtml(m) \/ IndexMarkdown(m) \/ IndexPdf(m)
  <2>1. Readable(m) /\ IndexPage(m)
    BY <1>7 DEF IndexHtml, IndexMarkdown, IndexPdf, Readable
  <2>. QED
    BY <2>1, IndexPageKeeps
<1>. QED
  BY <1>1, <1>2, <1>3, <1>4, <1>5, <1>6, <1>7

LEMMA DocumentsInvStays ==
  ASSUME DocumentsInv, UNCHANGED documentVars
  PROVE  DocumentsInv'
BY DEF DocumentsInv, documentVars

-----------------------------------------------------------------------------
(* PageDocuments: the blocks of a page p.                                  *)

HeadsIn(p) == {i \in DOMAIN p : p[i].kind = "heading"}

CutsIn(p) == {i \in HeadsIn(p) : Splits(p[i].level)}

IsText(p, k) == p[k].kind = "text" \/ k \in HeadsIn(p) \ CutsIn(p)

\* The texts up to t of the block that starts at i.
TextsTo(p, i, t) ==
  {k \in DOMAIN p : /\ i < k /\ k <= t /\ IsText(p, k)
                    /\ \A c \in CutsIn(p) : i < c => k < c}

\* The h1 up to t in that block, the one at its end included.
LateTo(p, i, t) ==
  {h \in HeadsIn(p) : i < h /\ h <= t /\ p[h].level = 1 /\ \A c \in CutsIn(p) : i < c => h <= c}

IsLate(p, i, t, x) ==
  IF LateTo(p, i, t) = {} THEN x = NoHead
  ELSE x \in LateTo(p, i, t) /\ \A y \in LateTo(p, i, t) : x <= y

\* Heading x is open at place i: only lower ones followed it.
IsOpen(p, i, tier, x) ==
  /\ x \in HeadsIn(p) /\ x <= i /\ p[x].level = tier
  /\ \A h \in HeadsIn(p) : x < h /\ h <= i => p[h].level > tier

\* x is what place i stands under on a level; outer tells of an h1 outside.
Stands(p, outer, i, tier, x) ==
  IF \E y \in HeadsIn(p) : IsOpen(p, i, tier, y) THEN IsOpen(p, i, tier, x)
  ELSE x = IF tier = 1 /\ outer THEN 0 ELSE NoHead

\* x is the h1 of the block that starts at i, once places up to t are known.
StandsFirst(p, outer, i, t, x) ==
  IF \E y \in Nat : Stands(p, outer, i, 1, y) THEN Stands(p, outer, i, 1, x)
  ELSE IsLate(p, i, t, x)

Anchors == {n.anchor : n \in PageNodes} \cup {Unanchored}

Blocks == [start : Nat, anchor : Anchors, content : Seq(Nat), heads : [Levels -> Nat \cup {NoHead}]]

\* A block is right as far as the page has been traversed.
BlockIsRight(p, outer, t, b) ==
  /\ \A j, k \in 1 .. Len(b.content) : j < k => b.content[j] < b.content[k]
  /\ {b.content[k] : k \in 1 .. Len(b.content)} = TextsTo(p, b.start, t)
  /\ \A l \in Levels \ {1} : Stands(p, outer, b.start, l, b.heads[l])
  /\ StandsFirst(p, outer, b.start, t, b.heads[1])

\* What a page has.
LEMMA NodeFacts ==
  ASSUME NEW p \in Seq(PageNodes)
  PROVE  /\ DOMAIN p = 1 .. Len(p) /\ Len(p) \in Nat
         /\ \A i \in 1 .. Len(p) : /\ p[i].kind \in {"heading", "text", "skipped"}
                                   /\ p[i].level \in 1 .. 6 /\ p[i].size \in Nat
                                   /\ p[i].anchor \in Anchors
         /\ HeadsIn(p) \subseteq 1 .. Len(p) /\ CutsIn(p) \subseteq HeadsIn(p)
<1>1. DOMAIN p = 1 .. Len(p) /\ Len(p) \in Nat /\ \A i \in 1 .. Len(p) : p[i] \in PageNodes
  OBVIOUS
<1>2. \A n \in PageNodes : /\ n.kind \in {"heading", "text", "skipped"}
                           /\ n.level \in 1 .. 6 /\ n.size \in Nat /\ n.anchor \in Anchors
  BY BlockAssumption DEF Levels, Anchors
<1>. QED
  BY <1>1, <1>2 DEF HeadsIn, CutsIn

\* What a place stands under does not change before the next heading.
LEMMA StandsStays ==
  ASSUME NEW p \in Seq(PageNodes), NEW outer, NEW t \in Nat, t + 1 \notin HeadsIn(p),
         NEW l \in Levels, NEW x, Stands(p, outer, t, l, x)
  PROVE  Stands(p, outer, t + 1, l, x)
<1>1. HeadsIn(p) \subseteq Nat
  BY NodeFacts
<1>2. \A h \in HeadsIn(p) : h <= t + 1 <=> h <= t
  BY <1>1
<1>3. \A y : IsOpen(p, t + 1, l, y) <=> IsOpen(p, t, l, y)
  BY <1>2 DEF IsOpen
<1>. QED
  BY <1>3 DEF Stands

\* A heading is what its place stands under, and ends all lower ones.
LEMMA StandsNext ==
  ASSUME NEW p \in Seq(PageNodes), NEW outer, NEW t \in Nat, t + 1 \in HeadsIn(p),
         NEW heads \in [Levels -> Nat \cup {NoHead}],
         \A l \in Levels : Stands(p, outer, t, l, heads[l]),
         NEW l \in Levels
  PROVE  Stands(p, outer, t + 1, l, Under(heads, p[t + 1].level, t + 1)[l])
<1>. DEFINE tier == p[t + 1].level
            x == Under(heads, tier, t + 1)[l]
<1>1. /\ HeadsIn(p) \subseteq Nat /\ tier \in 1 .. 6 /\ Levels = 1 .. 6 /\ l \in 1 .. 6
      /\ \A h \in HeadsIn(p) : p[h].level \in 1 .. 6
  BY NodeFacts DEF Levels
<1>2. x = IF l = tier THEN t + 1 ELSE IF l > tier THEN NoHead ELSE heads[l]
  BY DEF Under
<1>3. \A h \in HeadsIn(p) : h <= t + 1 <=> h <= t \/ h = t + 1
  BY <1>1
<1>. HIDE DEF tier, x
<1>4. ASSUME l = tier PROVE Stands(p, outer, t + 1, l, x)
  <2>1. IsOpen(p, t + 1, l, t + 1)
    <3>1. \A h \in HeadsIn(p) : ~(t + 1 < h /\ h <= t + 1)
      BY <1>1
    <3>. QED
      BY <1>4, <3>1 DEF IsOpen, tier
  <2>. QED
    BY <1>2, <1>4, <2>1, <1>1 DEF Stands
<1>5. ASSUME l > tier PROVE Stands(p, outer, t + 1, l, x)
  <2>1. \A y \in HeadsIn(p) : ~IsOpen(p, t + 1, l, y)
    <3>. SUFFICES ASSUME NEW y \in HeadsIn(p), IsOpen(p, t + 1, l, y) PROVE FALSE
      OBVIOUS
    <3>1. p[t + 1].level = tier /\ t + 1 <= t + 1
      BY DEF tier
    <3>2. y # t + 1
      BY <1>1, <1>5, <3>1 DEF IsOpen
    <3>3. y < t + 1
      BY <1>1, <3>2 DEF IsOpen
    <3>4. p[t + 1].level > l
      BY <3>1, <3>3 DEF IsOpen
    <3>. QED
      BY <1>1, <1>5, <3>1, <3>4
  <2>2. l # 1 /\ x = NoHead
    BY <1>1, <1>2, <1>5
  <2>. QED
    BY <2>1, <2>2 DEF Stands
<1>6. ASSUME l < tier PROVE Stands(p, outer, t + 1, l, x)
  <2>1. \A y : IsOpen(p, t + 1, l, y) <=> IsOpen(p, t, l, y)
    <3>. TAKE y
    <3>1. p[t + 1].level = tier /\ tier # l /\ tier > l
      BY <1>1, <1>6 DEF tier
    <3>. QED
      BY <1>3, <3>1 DEF IsOpen
  <2>2. x = heads[l] /\ Stands(p, outer, t, l, x)
    BY <1>1, <1>2, <1>6
  <2>. QED
    BY <2>1, <2>2 DEF Stands
<1>7. l = tier \/ l > tier \/ l < tier
  BY <1>1
<1>8. Stands(p, outer, t + 1, l, x)
  BY <1>4, <1>5, <1>6, <1>7
<1>. QED
  BY <1>8 DEF tier, x

\* A place that is traversed is a text or a late h1 of the current block only.
LEMMA PlaceNext ==
  ASSUME NEW p \in Seq(PageNodes), NEW t \in Nat, t + 1 <= Len(p), NEW i \in Nat, i <= t
  PROVE  /\ (\A c \in CutsIn(p) : i < c => t < c) =>
              /\ TextsTo(p, i, t + 1) = TextsTo(p, i, t)
                                        \cup (IF IsText(p, t + 1) THEN {t + 1} ELSE {})
              /\ LateTo(p, i, t + 1)
                   = LateTo(p, i, t) \cup (IF t + 1 \in HeadsIn(p) /\ p[t + 1].level = 1
                                           THEN {t + 1} ELSE {})
         /\ (\E c \in CutsIn(p) : i < c /\ c <= t) =>
              TextsTo(p, i, t + 1) = TextsTo(p, i, t) /\ LateTo(p, i, t + 1) = LateTo(p, i, t)
<1>1. /\ HeadsIn(p) \subseteq Nat /\ CutsIn(p) \subseteq HeadsIn(p) /\ DOMAIN p \subseteq Nat
      /\ t + 1 \in DOMAIN p
  BY NodeFacts
<1>2. \A k \in DOMAIN p : k <= t + 1 <=> k <= t \/ k = t + 1
  BY <1>1
<1>3. \A k \in HeadsIn(p) : k <= t + 1 <=> k <= t \/ k = t + 1
  BY <1>1
<1>4. ASSUME \A c \in CutsIn(p) : i < c => t < c
      PROVE  /\ TextsTo(p, i, t + 1) = TextsTo(p, i, t)
                                       \cup (IF IsText(p, t + 1) THEN {t + 1} ELSE {})
             /\ LateTo(p, i, t + 1)
                  = LateTo(p, i, t) \cup (IF t + 1 \in HeadsIn(p) /\ p[t + 1].level = 1
                                          THEN {t + 1} ELSE {})
  <2>1. i < t + 1 /\ t + 1 <= t + 1
    OBVIOUS
  <2>2. \A c \in CutsIn(p) : i < c => t + 1 <= c
    BY <1>1, <1>4
  <2>3. IsText(p, t + 1) => \A c \in CutsIn(p) : i < c => t + 1 < c
    <3>1. IsText(p, t + 1) => t + 1 \notin CutsIn(p)
      BY DEF IsText, CutsIn, HeadsIn
    <3>. QED
      BY <1>1, <2>2, <3>1
  <2>4. t + 1 \in TextsTo(p, i, t + 1) <=> IsText(p, t + 1)
    BY <1>1, <2>1, <2>3 DEF TextsTo
  <2>5. t + 1 \in LateTo(p, i, t + 1) <=> t + 1 \in HeadsIn(p) /\ p[t + 1].level = 1
    BY <2>1, <2>2 DEF LateTo
  <2>6. \A k \in DOMAIN p : k # t + 1 => (k \in TextsTo(p, i, t + 1) <=> k \in TextsTo(p, i, t))
    BY <1>2 DEF TextsTo
  <2>7. \A k \in HeadsIn(p) : k # t + 1 => (k \in LateTo(p, i, t + 1) <=> k \in LateTo(p, i, t))
    BY <1>3 DEF LateTo
  <2>8. /\ TextsTo(p, i, t + 1) \subseteq DOMAIN p /\ TextsTo(p, i, t) \subseteq DOMAIN p
        /\ LateTo(p, i, t + 1) \subseteq HeadsIn(p) /\ LateTo(p, i, t) \subseteq HeadsIn(p)
    BY DEF TextsTo, LateTo
  <2>9. t + 1 \notin TextsTo(p, i, t) /\ t + 1 \notin LateTo(p, i, t)
    BY DEF TextsTo, LateTo
  <2>10. CASE IsText(p, t + 1)
    BY <2>4, <2>6, <2>8, <2>9, <2>10, <2>5, <2>7
  <2>11. CASE ~IsText(p, t + 1)
    BY <2>4, <2>6, <2>8, <2>9, <2>11, <2>5, <2>7
  <2>. QED
    BY <2>10, <2>11
<1>5. ASSUME NEW c \in CutsIn(p), i < c, c <= t
      PROVE  TextsTo(p, i, t + 1) = TextsTo(p, i, t) /\ LateTo(p, i, t + 1) = LateTo(p, i, t)
  <2>1. \A k \in DOMAIN p : k < c => (k <= t + 1 /\ k <= t)
    BY <1>1, <1>5
  <2>2. \A k \in HeadsIn(p) : k <= c => (k <= t + 1 /\ k <= t)
    BY <1>1, <1>5
  <2>3. TextsTo(p, i, t + 1) = TextsTo(p, i, t)
    BY <1>5, <2>1 DEF TextsTo
  <2>4. LateTo(p, i, t + 1) = LateTo(p, i, t)
    BY <1>5, <2>2 DEF LateTo
  <2>. QED
    BY <2>3, <2>4
<1>. QED
  BY <1>4, <1>5

\* A block that is closed does not change.
LEMMA BlockStays ==
  ASSUME NEW p \in Seq(PageNodes), NEW outer, NEW t \in Nat, t + 1 <= Len(p),
         NEW b \in Blocks, BlockIsRight(p, outer, t, b),
         NEW c \in CutsIn(p), b.start < c, c <= t
  PROVE  BlockIsRight(p, outer, t + 1, b)
<1>1. b.start \in Nat /\ c \in Nat
  BY NodeFacts DEF Blocks
<1>2. b.start <= t
  BY <1>1
<1>3. TextsTo(p, b.start, t + 1) = TextsTo(p, b.start, t) /\ LateTo(p, b.start, t + 1) = LateTo(p, b.start, t)
  BY <1>1, <1>2, PlaceNext
<1>. QED
  BY <1>3 DEF BlockIsRight, StandsFirst, IsLate

LEMMA WithH1Facts ==
  ASSUME NEW b \in Blocks, NEW i \in Nat
  PROVE  /\ WithH1(b, i) \in Blocks
         /\ WithH1(b, i).start = b.start /\ WithH1(b, i).content = b.content
         /\ \A l \in Levels \ {1} : WithH1(b, i).heads[l] = b.heads[l]
         /\ WithH1(b, i).heads[1] = IF b.heads[1] = NoHead THEN i ELSE b.heads[1]
<1>1. PICK start \in Nat, anchor \in Anchors, content \in Seq(Nat),
           heads \in [Levels -> Nat \cup {NoHead}] :
        b = [start |-> start, anchor |-> anchor, content |-> content, heads |-> heads]
  BY DEF Blocks
<1>2. PICK x : x = IF heads[1] = NoHead THEN i ELSE heads[1]
  OBVIOUS
<1>3. 1 \in Levels /\ x \in Nat \cup {NoHead}
  BY <1>1, <1>2 DEF Levels
<1>4. WithH1(b, i) = [start |-> start, anchor |-> anchor, content |-> content,
                      heads |-> [heads EXCEPT ![1] = x]]
  BY <1>1, <1>2 DEF WithH1
<1>5. [heads EXCEPT ![1] = x] \in [Levels -> Nat \cup {NoHead}]
  BY <1>1, <1>3
<1>. QED
  BY <1>1, <1>2, <1>3, <1>4, <1>5 DEF Blocks

LEMMA WithTextFacts ==
  ASSUME NEW b \in Blocks, NEW i \in Nat
  PROVE  /\ WithText(b, i) \in Blocks
         /\ WithText(b, i).start = b.start /\ WithText(b, i).content = Append(b.content, i)
         /\ WithText(b, i).heads = b.heads
<1>1. PICK start \in Nat, anchor \in Anchors, content \in Seq(Nat),
           heads \in [Levels -> Nat \cup {NoHead}] :
        b = [start |-> start, anchor |-> anchor, content |-> content, heads |-> heads]
  BY DEF Blocks
<1>2. PICK more : more = Append(content, i)
  OBVIOUS
<1>3. more \in Seq(Nat)
  BY <1>1, <1>2
<1>4. b.content = content
  BY <1>1
<1>5. WithText(b, i) = [b EXCEPT !.content = more]
  BY <1>2, <1>4 DEF WithText
<1>6. WithText(b, i) = [start |-> start, anchor |-> anchor, content |-> more, heads |-> heads]
  BY <1>1, <1>5
<1>7. /\ WithText(b, i).content = more /\ WithText(b, i).start = start
      /\ WithText(b, i).heads = heads /\ WithText(b, i) \in Blocks
  BY <1>1, <1>3, <1>6 DEF Blocks
<1>8. b.start = start /\ b.heads = heads /\ Append(b.content, i) = more
  BY <1>1, <1>2, <1>4
<1>. QED
  BY <1>7, <1>8

\* The h1 that a block stands under is a place of the page if there is one.
LEMMA StandsIsPlace ==
  ASSUME NEW p \in Seq(PageNodes), NEW outer, NEW i, NEW x, NEW y \in Nat,
         Stands(p, outer, i, 1, y), Stands(p, outer, i, 1, x)
  PROVE  x \in Nat
<1>1. HeadsIn(p) \subseteq Nat
  BY NodeFacts
<1>2. CASE \E z \in HeadsIn(p) : IsOpen(p, i, 1, z)
  <2>1. IsOpen(p, i, 1, x)
    BY <1>2 DEF Stands
  <2>. QED
    BY <1>1, <2>1 DEF IsOpen
<1>3. CASE ~\E z \in HeadsIn(p) : IsOpen(p, i, 1, z)
  <2>1. x = y
    BY <1>3 DEF Stands
  <2>. QED
    BY <2>1
<1>. QED
  BY <1>2, <1>3

\* The h1 of the current block after one more place.
LEMMA FirstNext ==
  ASSUME NEW p \in Seq(PageNodes), NEW outer, NEW t \in Nat, NEW s \in Nat,
         NEW x \in Nat \cup {NoHead}, StandsFirst(p, outer, s, t, x),
         NEW h1, h1 = {} \/ h1 = {t + 1}, LateTo(p, s, t + 1) = LateTo(p, s, t) \cup h1
  PROVE  StandsFirst(p, outer, s, t + 1, IF h1 # {} /\ x = NoHead THEN t + 1 ELSE x)
<1>0. NoHead \notin Nat
  BY BlockAssumption
<1>1. CASE \E y \in Nat : Stands(p, outer, s, 1, y)
  <2>1. Stands(p, outer, s, 1, x)
    BY <1>1 DEF StandsFirst
  <2>2. x \in Nat
    BY <1>1, <2>1, StandsIsPlace
  <2>3. (IF h1 # {} /\ x = NoHead THEN t + 1 ELSE x) = x
    BY <1>0, <2>2
  <2>4. StandsFirst(p, outer, s, t + 1, x)
    BY <1>1, <2>1 DEF StandsFirst
  <2>. QED
    BY <2>3, <2>4
<1>2. CASE ~\E y \in Nat : Stands(p, outer, s, 1, y)
  <2>1. IsLate(p, s, t, x)
    BY <1>2 DEF StandsFirst
  <2>2. LateTo(p, s, t) \subseteq Nat /\ \A y \in LateTo(p, s, t) : y <= t
    BY NodeFacts DEF LateTo
  <2>3. ASSUME h1 # {}, x = NoHead PROVE IsLate(p, s, t + 1, t + 1)
    <3>1. LateTo(p, s, t) = {}
      BY <1>0, <2>1, <2>2, <2>3 DEF IsLate
    <3>2. LateTo(p, s, t + 1) = {t + 1}
      BY <2>3, <3>1
    <3>. QED
      BY <3>2 DEF IsLate
  <2>4. ASSUME h1 # {}, x # NoHead PROVE IsLate(p, s, t + 1, x)
    <3>1. x \in LateTo(p, s, t) /\ \A y \in LateTo(p, s, t) : x <= y
      BY <2>1, <2>4 DEF IsLate
    <3>2. LateTo(p, s, t + 1) = LateTo(p, s, t) \cup {t + 1} /\ x <= t + 1
      BY <2>2, <2>4, <3>1
    <3>. QED
      BY <3>1, <3>2 DEF IsLate
  <2>5. ASSUME h1 = {} PROVE IsLate(p, s, t + 1, x)
    BY <2>1, <2>5 DEF IsLate
  <2>6. IsLate(p, s, t + 1, IF h1 # {} /\ x = NoHead THEN t + 1 ELSE x)
    BY <2>3, <2>4, <2>5
  <2>. QED
    BY <1>2, <2>6 DEF StandsFirst
<1>. QED
  BY <1>1, <1>2

\* The current block after one more place: c is what becomes of b.
LEMMA CurrentNext ==
  ASSUME NEW p \in Seq(PageNodes), NEW outer, NEW t \in Nat, t + 1 <= Len(p),
         NEW b \in Blocks, BlockIsRight(p, outer, t, b), b.start <= t,
         \A d \in CutsIn(p) : b.start < d => t < d,
         NEW c \in Blocks, c.start = b.start,
         c.content = IF IsText(p, t + 1) THEN Append(b.content, t + 1) ELSE b.content,
         \A l \in Levels \ {1} : c.heads[l] = b.heads[l],
         c.heads[1] = IF (t + 1 \in HeadsIn(p) /\ p[t + 1].level = 1) /\ b.heads[1] = NoHead
                      THEN t + 1 ELSE b.heads[1]
  PROVE  BlockIsRight(p, outer, t + 1, c)
<1>1. b.start \in Nat /\ b.content \in Seq(Nat) /\ b.heads[1] \in Nat \cup {NoHead}
  <2>1. 1 \in Levels
    BY DEF Levels
  <2>. QED
    BY <2>1 DEF Blocks
<1>2. /\ TextsTo(p, b.start, t + 1) = TextsTo(p, b.start, t)
                                      \cup (IF IsText(p, t + 1) THEN {t + 1} ELSE {})
      /\ LateTo(p, b.start, t + 1)
           = LateTo(p, b.start, t) \cup (IF t + 1 \in HeadsIn(p) /\ p[t + 1].level = 1
                                         THEN {t + 1} ELSE {})
  BY <1>1, PlaceNext
<1>3. StandsFirst(p, outer, c.start, t + 1, c.heads[1])
  <2>1. PICK h1 : h1 = IF t + 1 \in HeadsIn(p) /\ p[t + 1].level = 1 THEN {t + 1} ELSE {}
    OBVIOUS
  <2>2. StandsFirst(p, outer, b.start, t, b.heads[1])
    BY DEF BlockIsRight
  <2>3. LateTo(p, b.start, t + 1) = LateTo(p, b.start, t) \cup h1
    BY <1>2, <2>1
  <2>4. c.heads[1] = IF h1 # {} /\ b.heads[1] = NoHead THEN t + 1 ELSE b.heads[1]
    BY <2>1
  <2>. QED
    <3>1. StandsFirst(p, outer, b.start, t + 1,
                      IF h1 # {} /\ b.heads[1] = NoHead THEN t + 1 ELSE b.heads[1])
      <4>1. h1 = {} \/ h1 = {t + 1}
        BY <2>1
      <4>. QED
        BY <1>1, <2>2, <2>3, <4>1, FirstNext
    <3>. QED
      BY <2>4, <3>1
<1>4. \A l \in Levels \ {1} : Stands(p, outer, c.start, l, c.heads[l])
  BY DEF BlockIsRight
<1>5. /\ \A j, k \in 1 .. Len(b.content) : j < k => b.content[j] < b.content[k]
      /\ {b.content[k] : k \in 1 .. Len(b.content)} = TextsTo(p, b.start, t)
  BY DEF BlockIsRight
<1>6. /\ \A j, k \in 1 .. Len(c.content) : j < k => c.content[j] < c.content[k]
      /\ {c.content[k] : k \in 1 .. Len(c.content)} = TextsTo(p, c.start, t + 1)
  <2>1. CASE IsText(p, t + 1)
    <3>1. PICK more \in Seq(Nat) : more = Append(b.content, t + 1)
      <4>1. t + 1 \in Nat
        OBVIOUS
      <4>2. Append(b.content, t + 1) \in Seq(Nat)
        BY <1>1, <4>1, AppendFacts
      <4>. QED
        BY <4>2
    <3>2. PICK n \in Nat : n = Len(b.content)
      BY <1>1
    <3>3. /\ Len(more) = n + 1 /\ more[n + 1] = t + 1 /\ \A k \in 1 .. n : more[k] = b.content[k]
      BY <1>1, <3>1, <3>2
    <3>4. \A k \in 1 .. n : b.content[k] \in TextsTo(p, b.start, t)
      BY <1>5, <3>2
    <3>5. \A k \in 1 .. n : b.content[k] < t + 1
      <4>1. \A k \in TextsTo(p, b.start, t) : k \in Nat /\ k <= t
        BY NodeFacts DEF TextsTo
      <4>. QED
        BY <3>4, <4>1
    <3>6. \A j, k \in 1 .. n + 1 : j < k => more[j] < more[k]
      <4>. SUFFICES ASSUME NEW j \in 1 .. n + 1, NEW k \in 1 .. n + 1, j < k PROVE more[j] < more[k]
        OBVIOUS
      <4>1. CASE k = n + 1
        <5>1. j \in 1 .. n
          BY <4>1
        <5>. QED
          BY <3>3, <3>5, <4>1, <5>1
      <4>2. CASE k # n + 1
        <5>1. j \in 1 .. n /\ k \in 1 .. n
          BY <4>2
        <5>. QED
          BY <1>5, <3>2, <3>3, <5>1
      <4>. QED
        BY <4>1, <4>2
    <3>7. {more[k] : k \in 1 .. n + 1} = TextsTo(p, b.start, t) \cup {t + 1}
      <4>1. 1 .. n + 1 = (1 .. n) \cup {n + 1}
        OBVIOUS
      <4>2. {more[k] : k \in 1 .. n + 1} = {more[k] : k \in 1 .. n} \cup {more[n + 1]}
        BY <4>1
      <4>3. {more[k] : k \in 1 .. n} = {b.content[k] : k \in 1 .. n}
        BY <3>3
      <4>. QED
        BY <1>5, <3>2, <3>3, <4>2, <4>3
    <3>. QED
      BY SMTT(40), <1>2, <2>1, <3>1, <3>3, <3>6, <3>7
  <2>2. CASE ~IsText(p, t + 1)
    BY <1>2, <1>5, <2>2
  <2>. QED
    BY <2>1, <2>2
<1>. QED
  BY <1>3, <1>4, <1>6 DEF BlockIsRight

\* A block that begins.
LEMMA BlockBegins ==
  ASSUME NEW p \in Seq(PageNodes), NEW outer, NEW t \in Nat, NEW b \in Blocks,
         b.start = t, b.content = <<>>, \A l \in Levels : Stands(p, outer, t, l, b.heads[l])
  PROVE  BlockIsRight(p, outer, t, b)
<1>1. TextsTo(p, t, t) = {} /\ LateTo(p, t, t) = {}
  <2>1. HeadsIn(p) \subseteq Nat /\ DOMAIN p \subseteq Nat
    BY NodeFacts
  <2>. QED
    BY <2>1 DEF TextsTo, LateTo
<1>2. 1 \in Levels
  BY DEF Levels
<1>3. b.heads[1] \in Nat \cup {NoHead} /\ Stands(p, outer, t, 1, b.heads[1])
  BY <1>2 DEF Blocks
<1>4. StandsFirst(p, outer, t, t, b.heads[1])
  BY <1>1, <1>3 DEF StandsFirst, IsLate
<1>5. Len(b.content) = 0 /\ 1 .. 0 = {}
  OBVIOUS
<1>6. {b.content[k] : k \in 1 .. Len(b.content)} = {}
  BY <1>5
<1>. QED
  BY <1>1, <1>4, <1>5, <1>6 DEF BlockIsRight

-----------------------------------------------------------------------------
\* The blocks so far, and the current one, start where the page is cut up to t.
StartsAre(p, t, blocks, cur) ==
  /\ \A i, j \in 1 .. Len(blocks) : i < j => blocks[i].start < blocks[j].start
  /\ \A i \in 1 .. Len(blocks) : blocks[i].start < cur.start /\ blocks[i].start \in {0} \cup CutsIn(p)
  /\ cur.start \in {0} \cup CutsIn(p) /\ cur.start <= t
  /\ \A s \in {0} \cup CutsIn(p) : s <= t =>
       s = cur.start \/ \E i \in 1 .. Len(blocks) : s = blocks[i].start

LEMMA StartsStay ==
  ASSUME NEW p \in Seq(PageNodes), NEW t \in Nat, NEW blocks, NEW cur, StartsAre(p, t, blocks, cur),
         t + 1 \notin CutsIn(p), NEW next, next.start = cur.start
  PROVE  StartsAre(p, t + 1, blocks, next)
<1>1. CutsIn(p) \subseteq Nat
  BY NodeFacts
<1>2. \A s \in {0} \cup CutsIn(p) : s <= t + 1 <=> s <= t
  BY <1>1
<1>3. next.start \in {0} \cup CutsIn(p) /\ next.start <= t + 1
  BY <1>1, <1>2 DEF StartsAre
<1>. QED
  BY <1>2, <1>3 DEF StartsAre

LEMMA StartsNext ==
  ASSUME NEW p \in Seq(PageNodes), NEW t \in Nat, NEW blocks \in Seq(Blocks), NEW cur,
         StartsAre(p, t, blocks, cur), t + 1 \in CutsIn(p), NEW next, next.start = t + 1,
         NEW closed \in Blocks, closed.start = cur.start
  PROVE  StartsAre(p, t + 1, Append(blocks, closed), next)
<1>1. CutsIn(p) \subseteq Nat
  BY NodeFacts
<1>2. PICK n \in Nat : n = Len(blocks)
  OBVIOUS
<1>3. PICK more : more = Append(blocks, closed)
  OBVIOUS
<1>4. Len(more) = n + 1 /\ more[n + 1] = closed /\ \A i \in 1 .. n : more[i] = blocks[i]
  BY <1>2, <1>3
<1>5. /\ \A i, j \in 1 .. n : i < j => blocks[i].start < blocks[j].start
      /\ \A i \in 1 .. n : blocks[i].start < cur.start /\ blocks[i].start \in {0} \cup CutsIn(p)
      /\ cur.start \in {0} \cup CutsIn(p) /\ cur.start <= t
      /\ \A s \in {0} \cup CutsIn(p) : s <= t =>
           s = cur.start \/ \E i \in 1 .. n : s = blocks[i].start
  BY <1>2 DEF StartsAre
<1>6. cur.start \in Nat /\ closed.start = cur.start /\ \A i \in 1 .. n : blocks[i].start \in Nat
  BY <1>1, <1>5
<1>7. \A i, j \in 1 .. n + 1 : i < j => more[i].start < more[j].start
  <2>. SUFFICES ASSUME NEW i \in 1 .. n + 1, NEW j \in 1 .. n + 1, i < j
                PROVE  more[i].start < more[j].start
    OBVIOUS
  <2>1. i \in 1 .. n
    OBVIOUS
  <2>2. CASE j = n + 1
    BY <1>4, <1>5, <1>6, <2>1, <2>2
  <2>3. CASE j \in 1 .. n
    BY <1>4, <1>5, <2>1, <2>3
  <2>. QED
    BY <2>2, <2>3
<1>8. \A i \in 1 .. n + 1 : i \in 1 .. n \/ i = n + 1
  OBVIOUS
<1>9. \A i \in 1 .. n : blocks[i].start < t + 1
  BY <1>5, <1>6
<1>9b. closed.start < t + 1
  BY <1>5, <1>6
<1>10. \A i \in 1 .. n + 1 : more[i].start < next.start /\ more[i].start \in {0} \cup CutsIn(p)
  BY <1>4, <1>5, <1>8, <1>9, <1>9b
<1>11. next.start \in {0} \cup CutsIn(p) /\ next.start <= t + 1
  OBVIOUS
<1>12. ASSUME NEW s \in {0} \cup CutsIn(p), s <= t + 1
       PROVE  s = next.start \/ \E i \in 1 .. n + 1 : s = more[i].start
  <2>1. s = t + 1 \/ s <= t
    BY <1>1, <1>12
  <2>2. n + 1 \in 1 .. n + 1 /\ 1 .. n \subseteq 1 .. n + 1
    OBVIOUS
  <2>. QED
    BY <1>4, <1>5, <2>1, <2>2
<1>. QED
  BY <1>3, <1>4, <1>7, <1>10, <1>11, <1>12 DEF StartsAre

\* How long texts are, joined by blanks.
SizeIn(p, texts) ==
  IF texts = {} THEN 0
  ELSE Cardinality(texts) - 1 + SumFunctionOnSet([k \in texts |-> p[k].size], texts)

LongIn(p, i) == SizeIn(p, TextsTo(p, i, Len(p))) >= MinContent

Below(S, i) == {k \in S : k < i}

\* The places of S that fewer than most precede, all of them where there is no limit.
FirstOf(S, most) == IF most = 0 THEN S ELSE {i \in S : Cardinality(Below(S, i)) < most}

\* What a page was split into is right.
WellSplit(p, outer, most, result) ==
  LET long == {i \in {0} \cup CutsIn(p) : LongIn(p, i)}
      wanted == FirstOf(long, most)
  IN  /\ Lists([k \in DOMAIN result.blocks |-> result.blocks[k].start], wanted)
      /\ result.blocks \in Seq(Blocks)
      /\ \A k \in DOMAIN result.blocks : BlockIsRight(p, outer, Len(p), result.blocks[k])
      /\ wanted # long => result.truncated

BlocksInv ==
  /\ page \in Seq(PageNodes) /\ maxBlocks \in Nat /\ traversed \in 0 .. Len(page)
  /\ pageBlocks \in Seq(Blocks) /\ current \in Blocks
  /\ hierarchy \in [Levels -> Nat \cup {NoHead}]
  /\ \A l \in Levels : Stands(page, outerH1, traversed, l, hierarchy[l])
  /\ StartsAre(page, traversed, pageBlocks, current)
  /\ \A i \in 1 .. Len(pageBlocks) : BlockIsRight(page, outerH1, traversed, pageBlocks[i])
  /\ BlockIsRight(page, outerH1, traversed, current)
  /\ split # NoHead => traversed = Len(page) /\ WellSplit(page, outerH1, maxBlocks, split)

LEMMA BlocksInvInit ==
  ASSUME BlocksInit
  PROVE  BlocksInv
<1>1. page \in Seq(PageNodes)
  <2>1. PICK m \in 0 .. PageLength : page \in [1 .. m -> PageNodes]
    BY DEF BlocksInit, BoundedSeq, SeqOf
  <2>2. m \in Nat
    BY BlockAssumption
  <2>. QED
    BY <2>1, <2>2
<1>2. /\ maxBlocks \in Nat /\ traversed = 0 /\ pageBlocks = <<>> /\ split = NoHead
      /\ hierarchy = [NoHeads EXCEPT ![1] = IF outerH1 THEN 0 ELSE NoHead]
      /\ current = [start |-> 0, anchor |-> Unanchored, content |-> <<>>, heads |-> hierarchy]
  BY BlockAssumption DEF BlocksInit
<1>3. hierarchy = [l \in Levels |-> IF l = 1 /\ outerH1 THEN 0 ELSE NoHead]
  BY <1>2 DEF NoHeads, Levels
<1>4. hierarchy \in [Levels -> Nat \cup {NoHead}]
  BY <1>3
<1>5. current \in Blocks
  BY <1>2, <1>4 DEF Blocks, Anchors
<1>6. ASSUME NEW l \in Levels PROVE Stands(page, outerH1, 0, l, hierarchy[l])
  <2>1. \A y \in HeadsIn(page) : ~IsOpen(page, 0, l, y)
    BY <1>1, NodeFacts DEF IsOpen
  <2>. QED
    BY <1>3, <2>1 DEF Stands
<1>7. BlockIsRight(page, outerH1, 0, current)
  <2>1. current.start = 0 /\ current.content = <<>> /\ current.heads = hierarchy
    BY <1>2
  <2>. QED
    BY <1>1, <1>5, <1>6, <2>1, BlockBegins
<1>8. StartsAre(page, 0, pageBlocks, current)
  <2>1. CutsIn(page) \subseteq Nat \ {0}
    BY <1>1, NodeFacts
  <2>2. \A s \in {0} \cup CutsIn(page) : s <= 0 => s = 0
    BY <2>1
  <2>3. 1 .. Len(pageBlocks) = {} /\ current.start = 0 /\ current.start <= 0
    BY <1>2
  <2>. QED
    BY <2>2, <2>3 DEF StartsAre
<1>9. Len(pageBlocks) = 0 /\ 1 .. 0 = {} /\ 0 \in 0 .. Len(page)
  BY <1>1, <1>2
<1>. QED
  BY <1>1, <1>2, <1>4, <1>5, <1>6, <1>7, <1>8, <1>9 DEF BlocksInv

\* One place of the page more.
LEMMA VisitNodeKeeps ==
  ASSUME BlocksInv, VisitNode
  PROVE  BlocksInv'
<1>. DEFINE t == traversed
<1>1. /\ page \in Seq(PageNodes) /\ t \in 0 .. Len(page) /\ t < Len(page) /\ traversed' = t + 1
      /\ UNCHANGED <<page, outerH1, maxBlocks, split>>
      /\ VisitHeading(t + 1) \/ VisitText(t + 1) \/ SkipElement(t + 1)
  BY DEF BlocksInv, VisitNode
<1>2. /\ pageBlocks \in Seq(Blocks) /\ current \in Blocks /\ maxBlocks \in Nat
      /\ hierarchy \in [Levels -> Nat \cup {NoHead}]
      /\ \A l \in Levels : Stands(page, outerH1, t, l, hierarchy[l])
      /\ StartsAre(page, t, pageBlocks, current)
      /\ \A i \in 1 .. Len(pageBlocks) : BlockIsRight(page, outerH1, t, pageBlocks[i])
      /\ BlockIsRight(page, outerH1, t, current)
      /\ split = NoHead
  BY <1>1 DEF BlocksInv
<1>. HIDE DEF t
<1>3. /\ Len(page) \in Nat /\ t \in Nat /\ t + 1 <= Len(page) /\ t + 1 \in DOMAIN page
      /\ t + 1 \in 0 .. Len(page) /\ t + 1 \in Nat
  BY <1>1
<1>4. /\ page[t + 1].kind \in {"heading", "text", "skipped"} /\ page[t + 1].level \in Levels
      /\ page[t + 1].anchor \in Anchors
      /\ CutsIn(page) \subseteq Nat
  BY <1>1, <1>3, NodeFacts DEF Levels
<1>5. /\ current.start \in Nat /\ current.start <= t
      /\ \A i \in 1 .. Len(pageBlocks) : /\ pageBlocks[i] \in Blocks /\ pageBlocks[i].start \in Nat
                                         /\ pageBlocks[i].start < current.start
                                         /\ current.start \in CutsIn(page)
  <2>1. \A i \in 1 .. Len(pageBlocks) : pageBlocks[i] \in Blocks
    BY <1>2
  <2>2. \A b \in Blocks : b.start \in Nat
    BY DEF Blocks
  <2>3. current.start <= t /\ current.start \in {0} \cup CutsIn(page)
        /\ \A i \in 1 .. Len(pageBlocks) : pageBlocks[i].start < current.start
    BY <1>2 DEF StartsAre
  <2>. QED
    BY <1>2, <2>1, <2>2, <2>3
<1>6. \A d \in CutsIn(page) : current.start < d => t < d
  <2>. SUFFICES ASSUME NEW d \in CutsIn(page), current.start < d, d <= t PROVE FALSE
    BY <1>3, <1>4
  <2>1. d = current.start \/ \E i \in 1 .. Len(pageBlocks) : d = pageBlocks[i].start
    BY <1>2 DEF StartsAre
  <2>. QED
    BY <1>4, <1>5, <2>1
<1>7. \A i \in 1 .. Len(pageBlocks) : BlockIsRight(page, outerH1, t + 1, pageBlocks[i])
  BY <1>1, <1>2, <1>3, <1>5, BlockStays
<1>8. IsText(page, t + 1) <=> /\ page[t + 1].kind # "skipped"
                              /\ t + 1 \notin CutsIn(page)
  BY <1>3, <1>4 DEF IsText, CutsIn, HeadsIn
<1>9. t + 1 \in HeadsIn(page) <=> page[t + 1].kind = "heading"
  BY <1>3 DEF HeadsIn
\* What is left to show of a step that does not cut the page, and of one that does.
<1>10. ASSUME t + 1 \notin CutsIn(page), pageBlocks' = pageBlocks, current' \in Blocks,
              hierarchy' \in [Levels -> Nat \cup {NoHead}],
              \A l \in Levels : Stands(page, outerH1, t + 1, l, hierarchy'[l]),
              current'.start = current.start,
              BlockIsRight(page, outerH1, t + 1, current')
       PROVE  BlocksInv'
  <2>1. StartsAre(page, t + 1, pageBlocks', current')
    BY <1>1, <1>2, <1>3, <1>10, StartsStay
  <2>. QED
    BY <1>1, <1>2, <1>3, <1>7, <1>10, <2>1 DEF BlocksInv
<1>11. CASE VisitText(t + 1)
  <2>1. /\ page[t + 1].kind = "text" /\ current' = WithText(current, t + 1)
        /\ pageBlocks' = pageBlocks /\ hierarchy' = hierarchy
    BY <1>11 DEF VisitText
  <2>2. t + 1 \notin HeadsIn(page) /\ t + 1 \notin CutsIn(page) /\ IsText(page, t + 1)
    BY <1>8, <1>9, <2>1 DEF CutsIn
  <2>3. \A l \in Levels : Stands(page, outerH1, t + 1, l, hierarchy'[l])
    BY <1>1, <1>2, <1>3, <2>1, <2>2, StandsStays
  <2>4. /\ current' \in Blocks /\ current'.start = current.start
        /\ current'.content = Append(current.content, t + 1) /\ current'.heads = current.heads
    BY <1>2, <1>3, <2>1, WithTextFacts
  <2>5. BlockIsRight(page, outerH1, t + 1, current')
    BY <1>1, <1>2, <1>3, <1>5, <1>6, <2>2, <2>4, CurrentNext
  <2>. QED
    BY <1>2, <1>10, <2>1, <2>2, <2>3, <2>4, <2>5
<1>12. CASE SkipElement(t + 1)
  <2>1. page[t + 1].kind = "skipped" /\ UNCHANGED <<pageBlocks, current, hierarchy>>
    BY <1>12 DEF SkipElement
  <2>2. t + 1 \notin HeadsIn(page) /\ t + 1 \notin CutsIn(page) /\ ~IsText(page, t + 1)
    BY <1>8, <1>9, <2>1 DEF CutsIn
  <2>3. \A l \in Levels : Stands(page, outerH1, t + 1, l, hierarchy'[l])
    BY <1>1, <1>2, <1>3, <2>1, <2>2, StandsStays
  <2>4. BlockIsRight(page, outerH1, t + 1, current)
    BY <1>1, <1>2, <1>3, <1>5, <1>6, <2>2, CurrentNext
  <2>. QED
    BY <1>2, <1>10, <2>1, <2>2, <2>3, <2>4
<1>13. CASE VisitHeading(t + 1)
  <2>. DEFINE tier == page[t + 1].level
              before == IF tier = 1 THEN WithH1(current, t + 1) ELSE current
  <2>1. /\ page[t + 1].kind = "heading" /\ hierarchy' = Under(hierarchy, tier, t + 1)
        /\ Splits(tier) => /\ pageBlocks' = Append(pageBlocks, before)
                            /\ current' = [start |-> t + 1, anchor |-> page[t + 1].anchor,
                                           content |-> <<>>, heads |-> hierarchy']
        /\ ~Splits(tier) => current' = WithText(before, t + 1) /\ pageBlocks' = pageBlocks
    BY <1>13 DEF VisitHeading
  <2>2. t + 1 \in HeadsIn(page) /\ (t + 1 \in CutsIn(page) <=> Splits(tier))
    BY <1>9, <2>1 DEF CutsIn
  <2>3. hierarchy' \in [Levels -> Nat \cup {NoHead}]
    BY <1>2, <1>3, <2>1 DEF Under
  <2>4. \A l \in Levels : Stands(page, outerH1, t + 1, l, hierarchy'[l])
    BY <1>1, <1>2, <1>3, <2>1, <2>2, StandsNext
  <2>5. /\ before \in Blocks /\ before.start = current.start /\ before.content = current.content
        /\ \A l \in Levels \ {1} : before.heads[l] = current.heads[l]
        /\ before.heads[1] = IF tier = 1 /\ current.heads[1] = NoHead THEN t + 1
                             ELSE current.heads[1]
    <3>1. CASE tier = 1
      BY <1>2, <1>3, <3>1, WithH1Facts
    <3>2. CASE tier # 1
      BY <1>2, <3>2
    <3>. QED
      BY <3>1, <3>2
  <2>. HIDE DEF before
  <2>6. CASE Splits(tier)
    <3>1. /\ pageBlocks' = Append(pageBlocks, before) /\ current'.start = t + 1
          /\ current'.content = <<>> /\ current'.heads = hierarchy' /\ current' \in Blocks
          /\ t + 1 \in CutsIn(page) /\ ~IsText(page, t + 1)
      <4>1. current' = [start |-> t + 1, anchor |-> page[t + 1].anchor, content |-> <<>>,
                        heads |-> hierarchy']
        BY <2>1, <2>6
      <4>2. <<>> \in Seq(Nat)
        OBVIOUS
      <4>3. current' \in Blocks
        BY <1>3, <1>4, <2>3, <4>1, <4>2 DEF Blocks
      <4>. QED
        BY <1>8, <2>1, <2>2, <2>6, <4>1, <4>3
    <3>2. BlockIsRight(page, outerH1, t + 1, before)
      BY <1>1, <1>2, <1>3, <1>5, <1>6, <2>2, <2>5, <3>1, CurrentNext
    <3>3. BlockIsRight(page, outerH1, t + 1, current')
      BY <1>1, <1>3, <2>4, <3>1, BlockBegins
    <3>4. StartsAre(page, t + 1, pageBlocks', current')
      BY <1>1, <1>2, <1>3, <2>5, <3>1, StartsNext
    <3>5. /\ pageBlocks' \in Seq(Blocks)
          /\ \A i \in 1 .. Len(pageBlocks') : BlockIsRight(page, outerH1, t + 1, pageBlocks'[i])
      <4>1. PICK n \in Nat : n = Len(pageBlocks)
        BY <1>2
      <4>2. /\ pageBlocks' \in Seq(Blocks) /\ Len(pageBlocks') = n + 1
            /\ pageBlocks'[n + 1] = before /\ \A i \in 1 .. n : pageBlocks'[i] = pageBlocks[i]
        BY <1>2, <2>5, <3>1, <4>1
      <4>3. \A i \in 1 .. n + 1 : i \in 1 .. n \/ i = n + 1
        OBVIOUS
      <4>. QED
        BY <1>7, <3>2, <4>1, <4>2, <4>3
    <3>. QED
      BY <1>1, <1>2, <1>3, <2>3, <2>4, <3>1, <3>3, <3>4, <3>5 DEF BlocksInv
  <2>7. CASE ~Splits(tier)
    <3>1. /\ current' = WithText(before, t + 1) /\ pageBlocks' = pageBlocks
          /\ t + 1 \notin CutsIn(page) /\ IsText(page, t + 1)
      BY <1>8, <2>1, <2>2, <2>7
    <3>2. /\ current' \in Blocks /\ current'.start = before.start
          /\ current'.content = Append(before.content, t + 1) /\ current'.heads = before.heads
      BY <1>3, <2>5, <3>1, WithTextFacts
    <3>3. BlockIsRight(page, outerH1, t + 1, current')
      <4>1. /\ current'.start = current.start
            /\ current'.content = IF IsText(page, t + 1) THEN Append(current.content, t + 1)
                                  ELSE current.content
            /\ \A l \in Levels \ {1} : current'.heads[l] = current.heads[l]
        BY <2>5, <3>1, <3>2
      <4>2. current'.heads[1] = IF (t + 1 \in HeadsIn(page) /\ page[t + 1].level = 1)
                                     /\ current.heads[1] = NoHead
                                THEN t + 1 ELSE current.heads[1]
        BY <2>2, <2>5, <3>2
      <4>. QED
        BY <1>1, <1>2, <1>3, <1>5, <1>6, <3>2, <4>1, <4>2, CurrentNext
    <3>. QED
      BY <1>10, <2>3, <2>4, <2>5, <3>1, <3>2, <3>3
  <2>. QED
    BY <2>6, <2>7
<1>. QED
  BY <1>1, <1>11, <1>12, <1>13

-----------------------------------------------------------------------------
\* As many values as places, where no two places have the same.
LEMMA ImageCount ==
  ASSUME NEW S, IsFiniteSet(S), NEW s, \A j, k \in S : s[j] = s[k] => j = k
  PROVE  /\ IsFiniteSet({s[j] : j \in S}) /\ Cardinality({s[j] : j \in S}) = Cardinality(S)
<1>. DEFINE T == {s[j] : j \in S}
            f == [j \in S |-> s[j]]
<1>1. f \in Bijection(S, T)
  BY DEF Bijection, Injection, Surjection, IsInjective
<1>2. ExistsBijection(S, T)
  BY <1>1 DEF ExistsBijection
<1>. QED
  BY <1>2, FS_Bijection

ValuesTo(s, q) == {s[k] : k \in 1 .. q}

\* In an increasing list each element is preceded by those that are smaller.
LEMMA RankIs ==
  ASSUME NEW n \in Nat, NEW s, \A j \in 1 .. n : s[j] \in Nat,
         \A j, k \in 1 .. n : j < k => s[j] < s[k], NEW k \in 1 .. n
  PROVE  Cardinality(Below(ValuesTo(s, n), s[k])) = k - 1
<1>1. \A j \in 1 .. n : s[j] < s[k] <=> j < k
  <2>. SUFFICES ASSUME NEW j \in 1 .. n PROVE s[j] < s[k] <=> j < k
    OBVIOUS
  <2>1. CASE j < k
    BY <2>1
  <2>2. CASE j = k
    BY <2>2
  <2>3. CASE k < j
    <3>1. s[k] < s[j]
      BY <2>3
    <3>. QED
      BY <2>3, <3>1
  <2>. QED
    BY <2>1, <2>2, <2>3
<1>2. Below(ValuesTo(s, n), s[k]) = {s[j] : j \in 1 .. k - 1}
  <2>1. \A j \in 1 .. k - 1 : j \in 1 .. n /\ j < k
    OBVIOUS
  <2>2. \A j \in 1 .. n : j < k => j \in 1 .. k - 1
    OBVIOUS
  <2>. QED
    BY <1>1, <2>1, <2>2 DEF Below, ValuesTo
<1>3. \A j, l \in 1 .. k - 1 : s[j] = s[l] => j = l
  <2>. SUFFICES ASSUME NEW j \in 1 .. k - 1, NEW l \in 1 .. k - 1, s[j] = s[l], j # l PROVE FALSE
    OBVIOUS
  <2>1. j \in 1 .. n /\ l \in 1 .. n /\ (j < l \/ l < j)
    OBVIOUS
  <2>2. s[j] < s[l] \/ s[l] < s[j]
    BY <2>1
  <2>. QED
    BY <2>1, <2>2
<1>4. IsFiniteSet(1 .. k - 1) /\ Cardinality(1 .. k - 1) = k - 1
  BY FS_Interval
<1>5. Cardinality({s[j] : j \in 1 .. k - 1}) = Cardinality(1 .. k - 1)
  BY <1>3, <1>4, ImageCount
<1>. QED
  BY <1>2, <1>4, <1>5

\* The size of a block is that of the texts it lists.
LEMMA SizeIs ==
  ASSUME page \in Seq(PageNodes), NEW content \in Seq(Nat),
         \A j, k \in 1 .. Len(content) : j < k => content[j] < content[k],
         NEW texts, texts \subseteq DOMAIN page, {content[k] : k \in 1 .. Len(content)} = texts
  PROVE  SizeOf(content) = SizeIn(page, texts)
<1>. DEFINE n == Len(content)
            S == 1 .. n
            f == [k \in S |-> page[content[k]].size]
            totals == [x \in texts |-> page[x].size]
<1>1. /\ n \in Nat /\ DOMAIN content = S /\ \A k \in S : content[k] \in Nat
      /\ (content = <<>> <=> n = 0)
  OBVIOUS
<1>2. \A k \in S : content[k] \in texts
  OBVIOUS
<1>3. \A x \in texts : page[x].size \in Nat /\ totals[x] \in Int /\ \E k \in S : content[k] = x
  <2>1. \A x \in DOMAIN page : page[x].size \in Nat
    BY NodeFacts
  <2>. QED
    BY <2>1
<1>4. \A j, k \in S : content[j] = content[k] => j = k
  <2>. SUFFICES ASSUME NEW j \in S, NEW k \in S, content[j] = content[k], j # k PROVE FALSE
    OBVIOUS
  <2>1. j < k \/ k < j
    BY <1>1
  <2>2. content[j] < content[k] \/ content[k] < content[j]
    BY <2>1
  <2>. QED
    BY <1>1, <2>2
<1>7. \A k \in S : f[k] \in Int /\ f[k] = totals[content[k]]
  BY <1>2, <1>3
<1>7b. S = 1 .. n /\ {content[k] : k \in S} = texts
  OBVIOUS
<1>. HIDE DEF f, totals, n, S
<1>5. IsFiniteSet(S) /\ Cardinality(S) = n
  <2>1. IsFiniteSet(1 .. n) /\ Cardinality(1 .. n) = IF 1 > n THEN 0 ELSE n - 1 + 1
    BY <1>1, FS_Interval
  <2>. QED
    BY <1>1, <1>7b, <2>1
<1>6. IsFiniteSet(texts) /\ Cardinality(texts) = n
  <2>1. /\ IsFiniteSet({content[j] : j \in S})
        /\ Cardinality({content[j] : j \in S}) = Cardinality(S)
    BY <1>4, <1>5, ImageCount
  <2>. QED
    BY <1>5, <1>7b, <2>1
<1>8. GroupSums(totals, texts, content, f, S)
  <2>. SUFFICES ASSUME NEW x \in texts
                PROVE  totals[x] = SumFunctionOnSet(f, {k \in S : content[k] = x})
    BY DEF GroupSums
  <2>1. PICK k \in S : content[k] = x
    BY <1>3
  <2>2. {j \in S : content[j] = x} = {k}
    BY <1>4, <2>1
  <2>3. SumFunctionOnSet(f, {k}) = f[k]
    <3>1. IsFiniteSet({k}) /\ {k} \ {k} = {} /\ SumFunctionOnSet(f, {}) = 0
      BY FS_Singleton, SumNone
    <3>2. SumFunctionOnSet(f, {k}) = f[k] + SumFunctionOnSet(f, {k} \ {k})
      BY <1>7, <3>1, SumRemove
    <3>3. PICK v \in Int : v = f[k]
      BY <1>7
    <3>4. SumFunctionOnSet(f, {k}) = v + 0
      BY <3>1, <3>2, <3>3
    <3>. QED
      BY <3>3, <3>4
  <2>. QED
    BY <1>7, <2>1, <2>2, <2>3
<1>9. SumFunctionOnSet(totals, texts) = SumFunctionOnSet(f, S)
  BY <1>2, <1>5, <1>6, <1>7, <1>8, SumOfGroups
<1>10. texts = {} <=> n = 0
  BY <1>6, FS_EmptySet
<1>11. SizeOf(content) = IF content = <<>> THEN 0 ELSE n - 1 + SumFunctionOnSet(f, S)
  BY <1>1 DEF SizeOf, n, S, f
<1>12. SizeIn(page, texts) = IF texts = {} THEN 0 ELSE n - 1 + SumFunctionOnSet(totals, texts)
  BY <1>6 DEF SizeIn, totals
<1>. QED
  BY <1>1, <1>9, <1>10, <1>11, <1>12

\* s lists the blocks up to the i-th that are long enough, in order.
LongUpTo(blocks, i, s) ==
  /\ s \in Seq(Blocks)
  /\ \A k \in 1 .. Len(s) : \E j \in 1 .. i : s[k] = blocks[j] /\ HasContent(blocks[j])
  /\ \A j \in 1 .. i : HasContent(blocks[j]) => \E k \in 1 .. Len(s) : s[k] = blocks[j]
  /\ \A k, l \in 1 .. Len(s) : k < l => s[k].start < s[l].start

LEMMA LongUpToNext ==
  ASSUME NEW blocks \in Seq(Blocks), \A j, k \in 1 .. Len(blocks) : j < k => blocks[j].start < blocks[k].start,
         NEW i \in Nat, i + 1 <= Len(blocks), NEW s, LongUpTo(blocks, i, s)
  PROVE  LongUpTo(blocks, i + 1, IF HasContent(blocks[i + 1]) THEN Append(s, blocks[i + 1]) ELSE s)
<1>1. /\ i + 1 \in 1 .. Len(blocks) /\ blocks[i + 1] \in Blocks
      /\ \A j \in 1 .. i + 1 : j \in 1 .. i \/ j = i + 1
      /\ 1 .. i \subseteq 1 .. i + 1 /\ i + 1 \in 1 .. i + 1
  OBVIOUS
<1>2. CASE HasContent(blocks[i + 1])
  <2>1. PICK b : b = blocks[i + 1]
    OBVIOUS
  <2>2. PICK n \in Nat : n = Len(s)
    BY DEF LongUpTo
  <2>3. PICK more : more = Append(s, b)
    OBVIOUS
  <2>4. /\ more \in Seq(Blocks) /\ Len(more) = n + 1 /\ more[n + 1] = b
        /\ \A k \in 1 .. n : more[k] = s[k]
    BY <1>1, <2>1, <2>2, <2>3 DEF LongUpTo
  <2>5. \A k \in 1 .. n + 1 : k \in 1 .. n \/ k = n + 1
    OBVIOUS
  <2>6. \A k \in 1 .. n + 1 : \E j \in 1 .. i + 1 : more[k] = blocks[j] /\ HasContent(blocks[j])
    <3>. SUFFICES ASSUME NEW k \in 1 .. n + 1
                  PROVE  \E j \in 1 .. i + 1 : more[k] = blocks[j] /\ HasContent(blocks[j])
      OBVIOUS
    <3>1. CASE k = n + 1
      BY <1>1, <1>2, <2>1, <2>4, <3>1
    <3>2. CASE k \in 1 .. n
      <4>1. PICK j \in 1 .. i : s[k] = blocks[j] /\ HasContent(blocks[j])
        BY <2>2, <3>2 DEF LongUpTo
      <4>2. more[k] = s[k] /\ j \in 1 .. i + 1
        BY <1>1, <2>4, <3>2
      <4>. QED
        BY <4>1, <4>2
    <3>. QED
      BY <2>5, <3>1, <3>2
  <2>7. \A j \in 1 .. i + 1 : HasContent(blocks[j]) => \E k \in 1 .. n + 1 : more[k] = blocks[j]
    <3>1. 1 .. n \subseteq 1 .. n + 1 /\ n + 1 \in 1 .. n + 1
      OBVIOUS
    <3>. QED
      BY <1>1, <2>1, <2>2, <2>4, <3>1 DEF LongUpTo
  <2>8. \A k \in 1 .. n : s[k].start < b.start
    <3>. SUFFICES ASSUME NEW k \in 1 .. n PROVE s[k].start < b.start
      OBVIOUS
    <3>1. PICK j \in 1 .. i : s[k] = blocks[j]
      BY <2>2 DEF LongUpTo
    <3>2. j \in 1 .. Len(blocks) /\ j < i + 1
      BY <1>1
    <3>3. blocks[j].start < blocks[i + 1].start
      BY <1>1, <3>2
    <3>. QED
      BY <2>1, <3>1, <3>3
  <2>9. \A k, l \in 1 .. n + 1 : k < l => more[k].start < more[l].start
    <3>. SUFFICES ASSUME NEW k \in 1 .. n + 1, NEW l \in 1 .. n + 1, k < l
                  PROVE  more[k].start < more[l].start
      OBVIOUS
    <3>1. k \in 1 .. n
      OBVIOUS
    <3>2. CASE l = n + 1
      BY <2>4, <2>8, <3>1, <3>2
    <3>3. CASE l \in 1 .. n
      BY <2>2, <2>4, <3>1, <3>3 DEF LongUpTo
    <3>. QED
      BY <3>2, <3>3
  <2>. QED
    BY <1>2, <2>1, <2>3, <2>4, <2>6, <2>7, <2>9 DEF LongUpTo
<1>3. CASE ~HasContent(blocks[i + 1])
  BY <1>1, <1>3 DEF LongUpTo
<1>. QED
  BY <1>2, <1>3

LEMMA LongOfIs ==
  ASSUME NEW blocks \in Seq(Blocks), \A j, k \in 1 .. Len(blocks) : j < k => blocks[j].start < blocks[k].start
  PROVE  LongUpTo(blocks, Len(blocks), LongOf(blocks))
<1>. DEFINE n == Len(blocks)
            K(g) == g = [i \in 0 .. n |->
                           IF i = 0 THEN <<>>
                           ELSE IF HasContent(blocks[i]) THEN Append(g[i - 1], blocks[i]) ELSE g[i - 1]]
            step == [p \in (1 .. n) \X Seq(Blocks) |->
                       IF HasContent(blocks[p[1]]) THEN Append(p[2], blocks[p[1]]) ELSE p[2]]
            long == CHOOSE g : K(g)
<1>1. n \in Nat /\ <<>> \in Seq(Blocks) /\ \A i \in 1 .. n : blocks[i] \in Blocks
  OBVIOUS
<1>2. step \in [(1 .. n) \X Seq(Blocks) -> Seq(Blocks)]
  <2>1. \A i \in 1 .. n, s \in Seq(Blocks) : Append(s, blocks[i]) \in Seq(Blocks)
    BY <1>1
  <2>. QED
    BY <2>1
<1>. HIDE DEF step, n
<1>3. PICK g \in [0 .. n -> Seq(Blocks)] : WalkTo(g, n, <<>>, step)
  BY <1>1, <1>2, WalkEnds
<1>4. K(g)
  <2>. SUFFICES ASSUME NEW i \in 0 .. n
                PROVE  g[i] = IF i = 0 THEN <<>>
                              ELSE IF HasContent(blocks[i]) THEN Append(g[i - 1], blocks[i])
                                   ELSE g[i - 1]
    BY <1>3 DEF WalkTo
  <2>1. g[i] = IF i = 0 THEN <<>> ELSE step[i, g[i - 1]]
    BY <1>3 DEF WalkTo
  <2>2. CASE i # 0
    <3>1. i \in 1 .. n /\ i - 1 \in 0 .. n
      BY <1>1, <2>2
    <3>2. <<i, g[i - 1]>> \in (1 .. n) \X Seq(Blocks)
      BY <3>1
    <3>3. step[i, g[i - 1]] = IF HasContent(blocks[i]) THEN Append(g[i - 1], blocks[i])
                              ELSE g[i - 1]
      BY <3>2 DEF step
    <3>. QED
      BY <2>1, <2>2, <3>3
  <2>. QED
    BY <2>1, <2>2
<1>5. K(long)
  <2>. HIDE DEF K
  <2>. QED
    BY <1>4
<1>6. LongOf(blocks) = long[n]
  BY DEF LongOf, n
<1>. HIDE DEF long
<1>. DEFINE A == {i \in Nat : i \in 0 .. n => LongUpTo(blocks, i, long[i])}
<1>7. 0 \in A
  <2>1. 0 \in 0 .. n
    BY <1>1
  <2>2. long[0] = <<>>
    <3>1. long[0] = IF 0 = 0 THEN <<>>
                    ELSE IF HasContent(blocks[0]) THEN Append(long[0 - 1], blocks[0])
                         ELSE long[0 - 1]
      BY <1>5, <2>1, Zenon
    <3>. QED
      BY <3>1
  <2>3. Len(<<>>) = 0 /\ 1 .. 0 = {}
    OBVIOUS
  <2>4. LongUpTo(blocks, 0, <<>>)
    BY <1>1, <2>3 DEF LongUpTo
  <2>. QED
    BY <2>2, <2>4
<1>8. ASSUME NEW i \in Nat, i \in A PROVE i + 1 \in A
  <2>. SUFFICES ASSUME i + 1 \in 0 .. n PROVE LongUpTo(blocks, i + 1, long[i + 1])
    OBVIOUS
  <2>1. i \in 0 .. n /\ i + 1 # 0 /\ i + 1 - 1 = i /\ i + 1 <= Len(blocks)
    BY <1>1 DEF n
  <2>2. long[i + 1] = IF HasContent(blocks[i + 1]) THEN Append(long[i], blocks[i + 1]) ELSE long[i]
    <3>1. PICK k \in 0 .. n : k = i + 1
      OBVIOUS
    <3>2. long[k] = IF k = 0 THEN <<>>
                    ELSE IF HasContent(blocks[k]) THEN Append(long[k - 1], blocks[k])
                         ELSE long[k - 1]
      BY <1>5, <3>1, Zenon
    <3>3. k # 0 /\ k - 1 = i
      BY <2>1, <3>1
    <3>4. long[k] = IF HasContent(blocks[k]) THEN Append(long[i], blocks[k]) ELSE long[i]
      BY <3>2, <3>3, Zenon
    <3>. QED
      BY <3>1, <3>4, Zenon
  <2>3. LongUpTo(blocks, i, long[i])
    BY <1>8, <2>1
  <2>. QED
    BY <2>1, <2>2, <2>3, LongUpToNext
<1>. HIDE DEF A
<1>9. \A i \in Nat : i \in A
  BY <1>7, <1>8, CountingUp
<1>10. n \in 0 .. n
  BY <1>1
<1>11. LongUpTo(blocks, n, long[n])
  BY <1>1, <1>9, <1>10 DEF A
<1>. QED
  BY <1>6, <1>11 DEF n

-----------------------------------------------------------------------------
\* The first of the long ones are those that fewer than most come before.
LEMMA FirstAreWanted ==
  ASSUME NEW m \in Nat, NEW s, \A k \in 1 .. m : s[k] \in Nat,
         \A j, k \in 1 .. m : j < k => s[j] < s[k],
         NEW most \in Nat, NEW q \in Nat, q <= m,
         q = IF most > 0 /\ m > most THEN most ELSE m,
         NEW long, long = ValuesTo(s, m)
  PROVE  ValuesTo(s, q) = FirstOf(long, most)
<1>. DEFINE Rank(i) == Cardinality(Below(long, i))
<1>1. \A k \in 1 .. m : Rank(s[k]) = k - 1
  BY RankIs
<1>. HIDE DEF Rank
<1>2. CASE most = 0
  <2>1. q = m
    BY <1>2
  <2>. QED
    BY <1>2, <2>1 DEF FirstOf, ValuesTo
<1>3. CASE most # 0
  <2>1. \A k \in 1 .. m : k \in 1 .. q <=> k - 1 < most
    BY <1>3
  <2>2. \A k \in 1 .. m : k \in 1 .. q <=> Rank(s[k]) < most
    BY <1>1, <2>1
  <2>3. 1 .. q \subseteq 1 .. m
    OBVIOUS
  <2>4. {s[k] : k \in 1 .. q} = {i \in long : Rank(i) < most}
    BY <2>2, <2>3 DEF ValuesTo
  <2>. QED
    BY <1>3, <2>4 DEF Rank, FirstOf, ValuesTo
<1>. QED
  BY <1>2, <1>3

\* The answer lists the blocks of the page, cut at its headings.
LEMMA EndSplitKeeps ==
  ASSUME BlocksInv, EndSplit
  PROVE  BlocksInv'
<1>. DEFINE starts == {0} \cup CutsIn(page)
            longs == {i \in starts : LongIn(page, i)}
<1>1. /\ page \in Seq(PageNodes) /\ maxBlocks \in Nat /\ traversed = Len(page)
      /\ pageBlocks \in Seq(Blocks) /\ current \in Blocks /\ Len(page) \in Nat
      /\ UNCHANGED <<page, outerH1, maxBlocks, traversed, pageBlocks, current, hierarchy>>
  BY DEF BlocksInv, EndSplit
<1>2. PICK all : all = Append(pageBlocks, current)
  OBVIOUS
<1>3. PICK n \in Nat : n = Len(all)
  BY <1>1, <1>2
<1>4. PICK h \in Nat : h = Len(pageBlocks)
  BY <1>1
<1>5. /\ all \in Seq(Blocks) /\ n = h + 1 /\ all[n] = current
      /\ \A i \in 1 .. h : all[i] = pageBlocks[i] /\ i \in 1 .. n
      /\ \A i \in 1 .. n : i \in 1 .. h \/ i = n
      /\ \A i \in 1 .. n : all[i] \in Blocks
  <2>1. all \in Seq(Blocks) /\ n = h + 1 /\ all[n] = current /\ \A i \in 1 .. h : all[i] = pageBlocks[i]
    BY <1>1, <1>2, <1>3, <1>4
  <2>2. \A i \in 1 .. h : i \in 1 .. n
    BY <2>1
  <2>3. \A i \in 1 .. n : i \in 1 .. h \/ i = n
    BY <2>1
  <2>4. \A i \in 1 .. n : all[i] \in Blocks
    <3>1. \A i \in 1 .. Len(all) : all[i] \in Blocks
      BY <2>1
    <3>. QED
      BY <1>3, <3>1
  <2>. QED
    BY <2>1, <2>2, <2>3, <2>4
<1>6. \A i \in 1 .. n : BlockIsRight(page, outerH1, Len(page), all[i])
  BY <1>1, <1>4, <1>5 DEF BlocksInv
<1>7. StartsAre(page, Len(page), pageBlocks, current) /\ CutsIn(page) \subseteq 1 .. Len(page)
  BY <1>1, NodeFacts DEF BlocksInv
<1>8. \A j, k \in 1 .. n : j < k => all[j].start < all[k].start
  <2>. SUFFICES ASSUME NEW j \in 1 .. n, NEW k \in 1 .. n, j < k
                PROVE  all[j].start < all[k].start
    OBVIOUS
  <2>1. j \in 1 .. h
    BY <1>5
  <2>2. CASE k = n
    BY <1>4, <1>5, <1>7, <2>1, <2>2 DEF StartsAre
  <2>3. CASE k \in 1 .. h
    BY <1>4, <1>5, <1>7, <2>1, <2>3 DEF StartsAre
  <2>. QED
    BY <1>5, <2>2, <2>3
<1>9. \A i \in 1 .. n : all[i].start \in starts /\ all[i].start \in Nat
  <2>1. \A i \in 1 .. n : all[i].start \in starts
    BY <1>4, <1>5, <1>7 DEF StartsAre
  <2>. QED
    BY <1>7, <2>1
<1>10. \A x \in starts : \E i \in 1 .. n : x = all[i].start
  <2>. SUFFICES ASSUME NEW x \in starts PROVE \E i \in 1 .. n : x = all[i].start
    OBVIOUS
  <2>1. x <= Len(page)
    BY <1>1, <1>7
  <2>2. x = current.start \/ \E i \in 1 .. h : x = pageBlocks[i].start
    BY <1>4, <1>7, <2>1 DEF StartsAre
  <2>3. n \in 1 .. n
    BY <1>5
  <2>. QED
    BY <1>5, <2>2, <2>3
<1>11. ASSUME NEW i \in 1 .. n PROVE HasContent(all[i]) <=> LongIn(page, all[i].start)
  <2>1. /\ \A j, k \in 1 .. Len(all[i].content) : j < k => all[i].content[j] < all[i].content[k]
        /\ {all[i].content[k] : k \in 1 .. Len(all[i].content)}
             = TextsTo(page, all[i].start, Len(page))
    BY <1>6 DEF BlockIsRight
  <2>2. all[i].content \in Seq(Nat)
    BY <1>5 DEF Blocks
  <2>3. TextsTo(page, all[i].start, Len(page)) \subseteq DOMAIN page
    BY DEF TextsTo
  <2>4. SizeOf(all[i].content) = SizeIn(page, TextsTo(page, all[i].start, Len(page)))
    BY <1>1, <2>1, <2>2, <2>3, SizeIs
  <2>. QED
    BY <2>4 DEF HasContent, LongIn
<1>12. PICK long : long = LongOf(all)
  OBVIOUS
<1>13. LongUpTo(all, n, long)
  BY <1>3, <1>5, <1>8, <1>12, LongOfIs
<1>14. PICK m \in Nat : m = Len(long)
  BY <1>13 DEF LongUpTo
<1>15. /\ long \in Seq(Blocks) /\ \A k \in 1 .. m : \E j \in 1 .. n : long[k] = all[j] /\ HasContent(all[j])
       /\ \A j \in 1 .. n : HasContent(all[j]) => \E k \in 1 .. m : long[k] = all[j]
       /\ \A j, k \in 1 .. m : j < k => long[j].start < long[k].start
  BY <1>13, <1>14 DEF LongUpTo
<1>16. PICK s : s = [k \in 1 .. m |-> long[k].start]
  OBVIOUS
<1>17. /\ \A k \in 1 .. m : /\ s[k] \in Nat /\ s[k] \in longs
                            /\ BlockIsRight(page, outerH1, Len(page), long[k])
       /\ \A j, k \in 1 .. m : j < k => s[j] < s[k]
  <2>1. ASSUME NEW k \in 1 .. m
        PROVE  /\ s[k] \in Nat /\ s[k] \in longs
               /\ BlockIsRight(page, outerH1, Len(page), long[k])
    <3>1. PICK j \in 1 .. n : long[k] = all[j] /\ HasContent(all[j])
      BY <1>15
    <3>2. s[k] = all[j].start
      BY <1>16, <3>1
    <3>. QED
      BY <1>6, <1>9, <1>11, <3>1, <3>2
  <2>2. \A j, k \in 1 .. m : j < k => s[j] < s[k]
    BY <1>15, <1>16
  <2>. QED
    BY <2>1, <2>2
<1>18. longs = {s[k] : k \in 1 .. m}
  <2>1. ASSUME NEW x \in longs PROVE \E k \in 1 .. m : x = s[k]
    <3>1. PICK j \in 1 .. n : x = all[j].start
      BY <1>10
    <3>2. HasContent(all[j])
      BY <1>11, <3>1
    <3>3. PICK k \in 1 .. m : long[k] = all[j]
      BY <1>15, <3>2
    <3>. QED
      BY <1>16, <3>1, <3>3
  <2>. QED
    BY <1>17, <2>1
<1>. HIDE DEF longs
<1>19. PICK keptBlocks : /\ keptBlocks = IF maxBlocks > 0 /\ Len(long) > maxBlocks THEN SubSeq(long, 1, maxBlocks)
                             ELSE long
                   /\ split' = [blocks |-> keptBlocks, truncated |-> maxBlocks > 0 /\ Len(keptBlocks) >= maxBlocks]
  BY <1>2, <1>12 DEF EndSplit
<1>20. PICK q \in Nat : /\ q = Len(keptBlocks) /\ q <= m
                        /\ IF maxBlocks > 0 /\ m > maxBlocks THEN q = maxBlocks ELSE q = m
                        /\ keptBlocks \in Seq(Blocks) /\ \A k \in 1 .. q : keptBlocks[k] = long[k] /\ k \in 1 .. m
  <2>1. CASE maxBlocks > 0 /\ m > maxBlocks
    <3>1. keptBlocks = SubSeq(long, 1, maxBlocks)
      BY <1>14, <1>19, <2>1
    <3>2. 1 .. maxBlocks \subseteq 1 .. m
      BY <1>1, <2>1
    <3>3. Len(keptBlocks) = maxBlocks /\ keptBlocks \in Seq(Blocks) /\ \A k \in 1 .. maxBlocks : keptBlocks[k] = long[k]
      BY <1>1, <1>14, <1>15, <2>1, <3>1
    <3>. QED
      BY <1>1, <2>1, <3>2, <3>3
  <2>2. CASE ~(maxBlocks > 0 /\ m > maxBlocks)
    <3>1. keptBlocks = long
      BY <1>14, <1>19, <2>2
    <3>. QED
      BY <1>14, <1>15, <2>2, <3>1
  <2>. QED
    BY <2>1, <2>2
<1>21. PICK wanted : wanted = FirstOf(longs, maxBlocks)
  OBVIOUS
<1>22. {s[k] : k \in 1 .. q} = wanted
  <2>1. /\ \A k \in 1 .. m : s[k] \in Nat
        /\ \A j, k \in 1 .. m : j < k => s[j] < s[k]
        /\ q <= m /\ maxBlocks \in Nat
        /\ q = IF maxBlocks > 0 /\ m > maxBlocks THEN maxBlocks ELSE m
    BY <1>1, <1>17, <1>20
  <2>2. longs = ValuesTo(s, m)
    BY <1>18 DEF ValuesTo
  <2>3. ValuesTo(s, q) = FirstOf(longs, maxBlocks)
    BY <2>1, <2>2, FirstAreWanted
  <2>. QED
    BY <1>21, <2>3 DEF ValuesTo
<1>23. PICK first : first = [k \in DOMAIN keptBlocks |-> keptBlocks[k].start]
  OBVIOUS
<1>24. DOMAIN keptBlocks = 1 .. q /\ DOMAIN first = 1 .. q /\ \A k \in 1 .. q : first[k] = s[k]
  BY <1>16, <1>20, <1>23
<1>25. Lists(first, wanted)
  <2>1. {first[k] : k \in 1 .. q} = wanted
    BY <1>22, <1>24
  <2>2. \A j, k \in 1 .. q : j < k => first[j] < first[k]
    BY <1>17, <1>20, <1>24
  <2>. QED
    BY <1>24, <2>1, <2>2 DEF Lists, ToSet
<1>26. wanted # longs => maxBlocks > 0 /\ q >= maxBlocks
  <2>1. q = m => wanted = longs
    BY <1>18, <1>22
  <2>. QED
    BY <1>1, <1>20, <2>1
<1>27. split'.blocks = keptBlocks /\ (wanted # longs => split'.truncated)
  BY <1>19, <1>20, <1>26
<1>28. \A k \in DOMAIN keptBlocks : BlockIsRight(page, outerH1, Len(page), keptBlocks[k])
  BY <1>17, <1>20, <1>24
<1>29. WellSplit(page, outerH1, maxBlocks, split')
  BY <1>20, <1>21, <1>23, <1>25, <1>27, <1>28 DEF WellSplit, longs
<1>. QED
  BY <1>1, <1>29 DEF BlocksInv

LEMMA BlocksInvNext ==
  ASSUME BlocksInv, BlocksNext
  PROVE  BlocksInv'
  BY VisitNodeKeeps, EndSplitKeeps DEF BlocksNext

LEMMA BlocksInvStays ==
  ASSUME BlocksInv, UNCHANGED blockVars
  PROVE  BlocksInv'
  BY DEF BlocksInv, blockVars

-----------------------------------------------------------------------------
\* A block ends at the first place after its start that cuts.
LEMMA EndIs ==
  ASSUME page \in Seq(PageNodes), NEW i \in Nat
  PROVE  /\ Headings = HeadsIn(page) /\ Cuts = CutsIn(page)
         /\ EndOf(i) \in Nat /\ (EndOf(i) = Len(page) + 1 \/ (EndOf(i) \in Cuts /\ i < EndOf(i)))
         /\ EndOf(i) <= Len(page) + 1 /\ \A c \in Cuts : i < c => EndOf(i) <= c
<1>. DEFINE S == {Len(page) + 1} \cup {c \in Cuts : c > i}
<1>1. Headings = HeadsIn(page)
  BY DEF Headings, HeadsIn
<1>2. Cuts = CutsIn(page)
  BY <1>1 DEF Cuts, CutsIn
<1>3. Cuts \subseteq 1 .. Len(page) /\ Len(page) \in Nat
  BY <1>2, NodeFacts
<1>3b. PICK size \in Nat : size = Len(page)
  BY <1>3
<1>4. S \subseteq 1 .. size + 1 /\ S # {} /\ S \subseteq Int
  <2>1. \A c \in Cuts : c \in 1 .. size + 1 /\ c \in Int
    BY <1>3, <1>3b
  <2>2. Len(page) + 1 \in 1 .. size + 1 /\ Len(page) + 1 \in Int
    BY <1>3b
  <2>. QED
    BY <2>1, <2>2
<1>5. IsFiniteSet(S)
  <2>1. IsFiniteSet(1 .. size + 1)
    BY <1>3, FS_Interval
  <2>. QED
    BY <1>4, <2>1, FS_Subset
<1>6. EndOf(i) = Min(S)
  BY DEF EndOf
<1>. HIDE DEF S
<1>7. Min(S) \in S /\ \A y \in S : Min(S) <= y
  BY <1>4, <1>5, LeastAndMost
<1>8. \A c : c \in S <=> c = Len(page) + 1 \/ (c \in Cuts /\ c > i)
  BY DEF S
<1>9. PICK end : end = EndOf(i)
  OBVIOUS
<1>10. end \in S /\ \A y \in S : end <= y
  BY <1>6, <1>7, <1>9
<1>11. end \in Nat /\ (end = Len(page) + 1 \/ (end \in Cuts /\ i < end))
  <2>1. end = Len(page) + 1 \/ (end \in Cuts /\ end > i)
    BY <1>8, <1>10
  <2>2. CASE end = Len(page) + 1
    BY <1>3, <2>2
  <2>3. CASE end \in Cuts /\ end > i
    BY <1>3, <2>3
  <2>. QED
    BY <2>1, <2>2, <2>3
<1>12. end <= Len(page) + 1 /\ \A c \in Cuts : i < c => end <= c
  <2>1. Len(page) + 1 \in S /\ \A c \in Cuts : i < c => c \in S
    BY <1>3, <1>8
  <2>. QED
    BY <1>10, <2>1
<1>. QED
  BY <1>1, <1>2, <1>9, <1>11, <1>12

LEMMA TextsFromIs ==
  ASSUME page \in Seq(PageNodes), NEW i \in Nat
  PROVE  TextsFrom(i) = TextsTo(page, i, Len(page)) /\ (LongFrom(i) <=> LongIn(page, i))
<1>1. PICK end \in Nat : end = EndOf(i)
  BY EndIs
<1>2. /\ Headings = HeadsIn(page) /\ Cuts = CutsIn(page)
      /\ end = Len(page) + 1 \/ (end \in Cuts /\ i < end)
      /\ end <= Len(page) + 1 /\ \A c \in Cuts : i < c => end <= c
      /\ DOMAIN page = 1 .. Len(page) /\ Len(page) \in Nat /\ Cuts \subseteq 1 .. Len(page)
  BY <1>1, EndIs, NodeFacts
<1>3. \A k \in DOMAIN page :
        k < end <=> k <= Len(page) /\ \A c \in CutsIn(page) : i < c => k < c
  BY <1>2
<1>4. TextsFrom(i) = TextsTo(page, i, Len(page))
  BY <1>1, <1>2, <1>3 DEF TextsFrom, TextsTo, IsText
<1>5. LongFrom(i) <=> LongIn(page, i)
  BY <1>4 DEF LongFrom, LongIn, SizeIn
<1>. QED
  BY <1>4, <1>5

LEMMA HeadAtIs ==
  ASSUME page \in Seq(PageNodes), NEW i \in Nat, NEW l \in Levels, NEW x,
         Stands(page, outerH1, i, l, x)
  PROVE  HeadAt(i, l) = x
<1>. DEFINE heads == {h \in Headings : h <= i /\ page[h].level = l}
            hidden == {h \in Headings : h <= i /\ page[h].level < l}
            last == Max(heads)
            none == IF l = 1 /\ outerH1 THEN 0 ELSE NoHead
<1>1. Headings = HeadsIn(page)
  BY EndIs
<1>2. /\ Headings \subseteq 1 .. Len(page) /\ Len(page) \in Nat /\ l \in 1 .. 6
      /\ \A h \in Headings : page[h].level \in 1 .. 6
  BY <1>1, NodeFacts DEF Levels
<1>3. heads # {} => last \in heads /\ \A y \in heads : last >= y
  <2>1. heads \subseteq 1 .. Len(page)
    BY <1>2
  <2>. HIDE DEF heads
  <2>1b. heads \subseteq Int
    BY <1>2, <2>1
  <2>2. IsFiniteSet(heads)
    <3>1. IsFiniteSet(1 .. Len(page))
      BY <1>2, FS_Interval
    <3>. QED
      BY <2>1, <3>1, FS_Subset
  <2>. QED
    BY <2>1b, <2>2, LeastAndMost
<1>4. HeadAt(i, l) = IF heads # {} THEN IF \E h \in hidden : h > last THEN NoHead ELSE last
                     ELSE none
  BY DEF HeadAt
<1>5. \A h \in Headings : h \in heads <=> h <= i /\ page[h].level = l
  OBVIOUS
<1>6. \A h \in Headings : h \in hidden <=> h <= i /\ page[h].level < l
  OBVIOUS
<1>6b. heads \subseteq Headings /\ hidden \subseteq Headings
  OBVIOUS
<1>7. PICK top : top = last
  OBVIOUS
<1>. HIDE DEF heads, hidden, last
<1>8. CASE \E y \in HeadsIn(page) : IsOpen(page, i, l, y)
  <2>1. x \in Headings /\ x <= i /\ page[x].level = l
        /\ \A h \in Headings : x < h /\ h <= i => page[h].level > l
    BY <1>1, <1>8 DEF Stands, IsOpen
  <2>2. x \in heads
    BY <1>5, <2>1
  <2>3. top \in heads /\ x <= top /\ top \in Headings /\ top <= i /\ page[top].level = l
    BY <1>2, <1>3, <1>5, <1>6b, <1>7, <2>1, <2>2
  <2>4. top = x
    BY <1>2, <2>1, <2>3
  <2>5. ~\E h \in hidden : h > top
    BY <1>2, <1>6, <1>6b, <2>1, <2>4
  <2>. QED
    BY <1>4, <1>7, <2>2, <2>4, <2>5
<1>9. CASE ~\E y \in HeadsIn(page) : IsOpen(page, i, l, y)
  <2>1. x = none
    BY <1>9 DEF Stands
  <2>2. ASSUME heads # {} PROVE l # 1 /\ \E h \in hidden : h > top
    <3>1. top \in Headings /\ top <= i /\ page[top].level = l /\ \A y \in heads : top >= y
      BY <1>3, <1>5, <1>6b, <1>7, <2>2
    <3>2. ~IsOpen(page, i, l, top)
      BY <1>1, <1>9, <3>1
    <3>3. PICK h \in Headings : top < h /\ h <= i /\ ~(page[h].level > l)
      BY <1>1, <3>1, <3>2 DEF IsOpen
    <3>4. h \notin heads
      BY <1>2, <3>1, <3>3
    <3>5. page[h].level # l
      BY <1>5, <3>3, <3>4
    <3>6. page[h].level < l
      BY <1>2, <3>3, <3>5
    <3>. QED
      BY <1>2, <1>6, <3>1, <3>3, <3>6
  <2>. QED
    BY <1>4, <1>7, <2>1, <2>2
<1>. QED
  BY <1>8, <1>9

LEMMA LateH1Is ==
  ASSUME page \in Seq(PageNodes), NEW i \in Nat, NEW x, IsLate(page, i, Len(page), x)
  PROVE  LateH1(i) = x
<1>1. PICK end \in Nat : end = EndOf(i)
  BY EndIs
<1>2. /\ Headings = HeadsIn(page) /\ Cuts = CutsIn(page)
      /\ end = Len(page) + 1 \/ (end \in Cuts /\ i < end)
      /\ end <= Len(page) + 1 /\ \A c \in Cuts : i < c => end <= c
      /\ Headings \subseteq 1 .. Len(page) /\ Len(page) \in Nat /\ Cuts \subseteq 1 .. Len(page)
  BY <1>1, EndIs, NodeFacts
<1>3. PICK m : m = Min({Len(page), end})
  OBVIOUS
<1>4. m \in {Len(page), end} /\ m <= Len(page) /\ m <= end
  <2>1. IsFiniteSet({Len(page), end})
    <3>1. {Len(page), end} \subseteq 0 .. Len(page) + 1
      BY <1>2
    <3>2. IsFiniteSet(0 .. Len(page) + 1)
      BY <1>2, FS_Interval
    <3>. QED
      BY <3>1, <3>2, FS_Subset
  <2>2. {Len(page), end} \subseteq Int /\ {Len(page), end} # {}
    BY <1>2
  <2>. QED
    BY <1>3, <2>1, <2>2, LeastAndMost
<1>5. \A h \in Headings : h <= m <=> h <= Len(page) /\ \A c \in CutsIn(page) : i < c => h <= c
  <2>. SUFFICES ASSUME NEW h \in Headings
                PROVE  h <= m <=> h <= Len(page) /\ \A c \in CutsIn(page) : i < c => h <= c
    OBVIOUS
  <2>1. h <= m <=> h <= Len(page) /\ h <= end
    BY <1>2, <1>4
  <2>. QED
    BY <1>2, <2>1
<1>6. PICK later : later = LateTo(page, i, Len(page))
  OBVIOUS
<1>7. {h \in Headings : h > i /\ h <= m /\ page[h].level = 1} = later
  BY <1>2, <1>5, <1>6 DEF LateTo
<1>8. LateH1(i) = IF later = {} THEN NoHead ELSE Min(later)
  BY <1>1, <1>3, <1>7 DEF LateH1
<1>9. CASE later = {}
  BY <1>6, <1>8, <1>9 DEF IsLate
<1>10. CASE later # {}
  <2>1. later \subseteq 1 .. Len(page) /\ later \subseteq Int
    BY <1>2, <1>7
  <2>2. IsFiniteSet(later)
    <3>1. IsFiniteSet(1 .. Len(page))
      BY <1>2, FS_Interval
    <3>. QED
      BY <2>1, <3>1, FS_Subset
  <2>3. Min(later) \in later /\ \A y \in later : Min(later) <= y
    BY <1>10, <2>1, <2>2, LeastAndMost
  <2>4. x \in later /\ \A y \in later : x <= y
    BY <1>6, <1>10 DEF IsLate
  <2>5. PICK y \in later : y = Min(later)
    BY <2>3
  <2>6. y <= x /\ x <= y /\ x \in Int /\ y \in Int
    BY <2>1, <2>3, <2>4, <2>5
  <2>7. x = y
    BY <2>6
  <2>. QED
    BY <1>8, <1>10, <2>5, <2>7
<1>. QED
  BY <1>9, <1>10

LEMMA FirstIs ==
  ASSUME page \in Seq(PageNodes), NEW i \in Nat, NEW x, StandsFirst(page, outerH1, i, Len(page), x)
  PROVE  x = IF HeadAt(i, 1) # NoHead THEN HeadAt(i, 1) ELSE LateH1(i)
<1>1. 1 \in Levels /\ NoHead \notin Nat /\ HeadsIn(page) \subseteq Nat
  BY BlockAssumption, NodeFacts DEF Levels
<1>2. CASE \E y \in Nat : Stands(page, outerH1, i, 1, y)
  <2>1. Stands(page, outerH1, i, 1, x)
    BY <1>2 DEF StandsFirst
  <2>2. x \in Nat /\ HeadAt(i, 1) = x
    BY <1>1, <1>2, <2>1, StandsIsPlace, HeadAtIs
  <2>. QED
    BY <1>1, <2>2
<1>3. CASE ~\E y \in Nat : Stands(page, outerH1, i, 1, y)
  <2>1. \A y \in HeadsIn(page) : ~IsOpen(page, i, 1, y)
    BY <1>1, <1>3 DEF Stands
  <2>2. Stands(page, outerH1, i, 1, IF 1 = 1 /\ outerH1 THEN 0 ELSE NoHead)
    BY <2>1 DEF Stands
  <2>3. ~outerH1
    BY <1>3, <2>2
  <2>4. Stands(page, outerH1, i, 1, NoHead)
    BY <2>2, <2>3
  <2>5. HeadAt(i, 1) = NoHead
    BY <1>1, <2>4, HeadAtIs
  <2>6. IsLate(page, i, Len(page), x)
    BY <1>3 DEF StandsFirst
  <2>7. LateH1(i) = x
    BY <2>6, LateH1Is
  <2>. QED
    BY <2>5, <2>7
<1>. QED
  BY <1>2, <1>3

LEMMA BlocksInvHolds ==
  ASSUME BlocksInv
  PROVE  BlocksAreThePage
<1>. SUFFICES ASSUME split # NoHead PROVE BlocksAreThePage
  BY DEF BlocksAreThePage
<1>. DEFINE starts == {0} \cup Cuts
            long == {i \in starts : LongFrom(i)}
            wanted == IF maxBlocks = 0 THEN long
                      ELSE {i \in long : Cardinality({k \in long : k < i}) < maxBlocks}
            longs == {i \in {0} \cup CutsIn(page) : LongIn(page, i)}
<1>1. page \in Seq(PageNodes) /\ WellSplit(page, outerH1, maxBlocks, split)
  BY DEF BlocksInv
<1>2. Cuts = CutsIn(page) /\ Cuts \subseteq Nat
  <2>1. 0 \in Nat
    OBVIOUS
  <2>2. Cuts = CutsIn(page)
    BY <1>1, <2>1, EndIs
  <2>. QED
    BY <1>1, <2>2, NodeFacts
<1>3. \A i \in starts : LongFrom(i) <=> LongIn(page, i)
  BY <1>1, <1>2, TextsFromIs
<1>4. long = longs
  BY <1>2, <1>3
<1>. HIDE DEF long, longs
<1>5. wanted = FirstOf(longs, maxBlocks)
  BY <1>4 DEF FirstOf, Below
<1>. HIDE DEF wanted
<1>6. /\ Lists([k \in DOMAIN split.blocks |-> split.blocks[k].start], wanted)
      /\ split.blocks \in Seq(Blocks)
      /\ \A k \in DOMAIN split.blocks : BlockIsRight(page, outerH1, Len(page), split.blocks[k])
      /\ wanted # long => split.truncated
  BY <1>1, <1>4, <1>5 DEF WellSplit, longs
<1>7. ASSUME NEW k \in DOMAIN split.blocks, NEW block, block = split.blocks[k]
      PROVE  /\ Lists(block.content, TextsFrom(block.start))
             /\ \A l \in Levels \ {1} :
                  block.start > 0 => block.heads[l] = HeadAt(block.start, l)
             /\ block.heads[1] = IF HeadAt(block.start, 1) # NoHead THEN HeadAt(block.start, 1)
                                 ELSE LateH1(block.start)
  <2>1. block \in Blocks /\ BlockIsRight(page, outerH1, Len(page), block)
    BY <1>6, <1>7
  <2>2. block.start \in Nat /\ block.content \in Seq(Nat)
    BY <2>1 DEF Blocks
  <2>3. DOMAIN block.content = 1 .. Len(block.content)
    BY <2>2
  <2>4. TextsFrom(block.start) = TextsTo(page, block.start, Len(page))
    BY <1>1, <2>2, TextsFromIs
  <2>5. Lists(block.content, TextsFrom(block.start))
    BY <2>1, <2>3, <2>4 DEF BlockIsRight, Lists, ToSet
  <2>6. \A l \in Levels \ {1} : block.heads[l] = HeadAt(block.start, l)
    BY <1>1, <2>1, <2>2, HeadAtIs DEF BlockIsRight
  <2>7. block.heads[1] = IF HeadAt(block.start, 1) # NoHead THEN HeadAt(block.start, 1)
                         ELSE LateH1(block.start)
    BY <1>1, <2>1, <2>2, FirstIs DEF BlockIsRight
  <2>. QED
    BY <2>5, <2>6, <2>7
<1>. QED
  BY <1>6, <1>7 DEF BlocksAreThePage, wanted, long

-----------------------------------------------------------------------------
(* AiAnswers: what is read from a model's result.                          *)

ReadStates == [open : Seq({"brace", "bracket"}), tops : Nat, sound : BOOLEAN]

Unread == [open |-> <<>>, tops |-> 0, sound |-> TRUE]

\* g is what the parser knows after each token of s.
Reads(g, s) ==
  /\ g \in [0 .. Len(s) -> ReadStates] /\ g[0] = Unread
  /\ \A i \in 1 .. Len(s) : g[i] = Read(g[i - 1], s[i])

\* What one token does.
LEMMA ReadFacts ==
  ASSUME NEW st \in ReadStates, NEW t \in AiTokens
  PROVE  /\ Read(st, t) \in ReadStates
         /\ Read(st, t).sound => st.sound /\ t \notin {"words", "json_fence", "fence"}
         /\ Read(st, t).tops >= st.tops
         /\ st.open = <<>> /\ Read(st, t).sound => Read(st, t).tops = st.tops + 1
         /\ st.open # <<>> /\ Read(st, t).sound =>
              IF Read(st, t).open = <<>> THEN t = Closing[st.open[1]]
              ELSE Read(st, t).open[1] = st.open[1]
         /\ st.open = <<>> /\ t = "brace" => Read(st, t).open = <<"brace">>
<1>1. PICK open \in Seq({"brace", "bracket"}), tops \in Nat, sound \in BOOLEAN :
        st = [open |-> open, tops |-> tops, sound |-> sound]
  BY DEF ReadStates
<1>2. st.open = open /\ st.tops = tops /\ st.sound = sound
  BY <1>1
<1>3. PICK depth \in Nat : depth = Len(open)
  BY <1>1
<1>4. PICK more \in Nat : more = tops + (IF depth = 0 THEN 1 ELSE 0)
  BY <1>1, <1>3
<1>5. (open = <<>> <=> depth = 0) /\ more >= tops /\ (depth = 0 => more = tops + 1) /\ tops >= tops
  BY <1>1, <1>3, <1>4
<1>6. CASE t \in {"brace", "bracket"}
  <2>1. Read(st, t) = [open |-> Append(open, t), tops |-> more, sound |-> sound]
    BY <1>1, <1>3, <1>4, <1>6 DEF Read
  <2>0. Append(open, t) \in Seq({"brace", "bracket"})
    BY <1>6
  <2>2. PICK longer \in Seq({"brace", "bracket"}) : longer = Append(open, t)
    BY <2>0
  <2>3. longer # <<>>
    BY <1>1, <2>2
  <2>4. depth # 0 => longer[1] = open[1]
    BY <1>1, <1>3, <2>2
  <2>5. depth = 0 => longer = <<t>>
    BY <1>1, <1>5, <2>2
  <2>6. Read(st, t) = [open |-> longer, tops |-> more, sound |-> sound]
    BY <2>1, <2>2
  <2>. QED
    BY <1>2, <1>5, <1>6, <2>3, <2>4, <2>5, <2>6 DEF ReadStates
<1>7. CASE t = "value"
  <2>1. Read(st, t) = [open |-> open, tops |-> more, sound |-> sound]
    BY <1>1, <1>3, <1>4, <1>7 DEF Read
  <2>. QED
    BY <1>2, <1>5, <1>7, <2>1 DEF ReadStates
<1>8. CASE t \in {"end_brace", "end_bracket"} /\ depth > 0 /\ Closing[open[depth]] = t
  <2>1. Read(st, t) = [open |-> Front(open), tops |-> tops, sound |-> sound]
    BY <1>1, <1>3, <1>8 DEF Read
  <2>0. /\ Front(open) \in Seq({"brace", "bracket"}) /\ Len(Front(open)) = depth - 1
        /\ \A i \in 1 .. depth - 1 : Front(open)[i] = open[i]
    <3>1. depth - 1 \in Nat /\ depth - 1 <= Len(open) /\ 1 <= (depth - 1) + 1 /\ (depth - 1) - 1 + 1 = depth - 1
          /\ \A i \in 1 .. depth - 1 : 1 + i - 1 = i
      BY <1>3, <1>8
    <3>2. 1 \in Nat \ {0}
      OBVIOUS
    <3>3. /\ SubSeq(open, 1, depth - 1) \in Seq({"brace", "bracket"})
          /\ Len(SubSeq(open, 1, depth - 1)) = (depth - 1) - 1 + 1
          /\ \A i \in 1 .. (depth - 1) - 1 + 1 : SubSeq(open, 1, depth - 1)[i] = open[1 + i - 1]
      BY <3>1, <3>2, PartFacts
    <3>. QED
      BY <1>3, <3>1, <3>3 DEF Front
  <2>2. PICK shorter \in Seq({"brace", "bracket"}) : shorter = Front(open)
    BY <2>0
  <2>3. Len(shorter) = depth - 1 /\ \A i \in 1 .. depth - 1 : shorter[i] = open[i]
    BY <2>0, <2>2
  <2>4. shorter = <<>> => depth = 1
    BY <2>3
  <2>5. shorter # <<>> => shorter[1] = open[1]
    BY <1>8, <2>3
  <2>6. Read(st, t) = [open |-> shorter, tops |-> tops, sound |-> sound]
    BY <2>1, <2>2
  <2>. QED
    BY <1>2, <1>5, <1>8, <2>4, <2>5, <2>6 DEF ReadStates
<1>9. CASE ~(t \in {"brace", "bracket"}) /\ t # "value"
           /\ ~(t \in {"end_brace", "end_bracket"} /\ depth > 0 /\ Closing[open[depth]] = t)
  <2>1. Read(st, t) = [open |-> open, tops |-> tops, sound |-> FALSE]
    BY <1>1, <1>3, <1>9 DEF Read
  <2>. QED
    BY <1>2, <1>5, <1>9, <2>1 DEF ReadStates
<1>. QED
  BY <1>6, <1>7, <1>8, <1>9

\* The fold over a sequence is a walk along it.
LEMMA JsonIsWalk ==
  ASSUME NEW s \in Seq(AiTokens)
  PROVE  \E g : /\ Reads(g, s)
                /\ IsJson(s) <=> g[Len(s)].sound /\ g[Len(s)].open = <<>> /\ g[Len(s)].tops = 1
<1>. DEFINE n == Len(s)
            S == 1 .. n
            F(g) == g = [T \in SUBSET S |-> IF T = {} THEN Unread
                                            ELSE Read(g[T \ {Max(T)}], s[Max(T)])]
            iter == CHOOSE g : F(g)
            first == [T \in SUBSET S |-> Max(T)]
            step == [q \in S \X ReadStates |-> Read(q[2], s[q[1]])]
            end == iter[S]
            h == [i \in 0 .. n |-> iter[1 .. i]]
<1>0. Unread \in ReadStates
  <2>1. <<>> \in Seq({"brace", "bracket"})
    OBVIOUS
  <2>. QED
    BY <2>1 DEF Unread, ReadStates
<1>1. n \in Nat /\ DOMAIN s = S /\ IsFiniteSet(S) /\ Unread \in ReadStates
  BY <1>0, FS_Interval
<1>2. \A T \in SUBSET S : T # {} => Max(T) \in T
  <2>. TAKE T \in SUBSET S
  <2>. HAVE T # {}
  <2>1. IsFiniteSet(T)
    BY <1>1, FS_Subset
  <2>2. T \subseteq Int
    BY <1>1
  <2>. QED
    BY <2>1, <2>2, LeastAndMost
<1>3. \A T \in SUBSET S : T # {} => first[T] \in T /\ first[T] = Max(T)
  BY <1>2
<1>4. step \in [S \X ReadStates -> ReadStates]
  <2>1. \A i \in S : s[i] \in AiTokens
    BY <1>1
  <2>. QED
    BY <2>1, ReadFacts
<1>5. \A i \in S, st \in ReadStates : step[i, st] = Read(st, s[i])
  OBVIOUS
<1>. HIDE DEF first, step
<1>6. PICK g \in [SUBSET S -> ReadStates] : Folds(g, S, first, Unread, step)
  BY <1>1, <1>3, <1>4, FoldExists
<1>7. F(g)
  <2>1. \A T \in SUBSET S : T # {} => step[first[T], g[T \ {first[T]}]] = Read(g[T \ {Max(T)}], s[Max(T)])
    <3>. TAKE T \in SUBSET S
    <3>. HAVE T # {}
    <3>1. first[T] = Max(T) /\ Max(T) \in S /\ g[T \ {Max(T)}] \in ReadStates
      BY <1>2, <1>3, <1>6
    <3>. QED
      BY <1>5, <3>1
  <2>. QED
    BY <1>6, <2>1 DEF Folds
<1>8. F(iter)
  BY <1>7
<1>9. IsJson(s) <=> end.sound /\ end.open = <<>> /\ end.tops = 1
  BY <1>1 DEF IsJson, FoldLeft, MapThenFoldSet, Unread
<1>. HIDE DEF iter
<1>10. h[0] = Unread
  <2>1. 1 .. 0 = {} /\ 0 \in 0 .. n /\ {} \in SUBSET S
    BY <1>1
  <2>. QED
    BY <1>8, <2>1
<1>11. ASSUME NEW i \in 1 .. n PROVE h[i] = Read(h[i - 1], s[i]) /\ i - 1 \in 0 .. n
  <2>1. i \in 0 .. n /\ i - 1 \in 0 .. n /\ 1 .. i \in SUBSET S /\ 1 .. i # {}
    BY <1>1
  <2>2. IsFiniteSet(1 .. i) /\ 1 .. i \subseteq Int
    BY <1>1, FS_Interval
  <2>3. Max(1 .. i) \in 1 .. i /\ \A y \in 1 .. i : Max(1 .. i) >= y
    BY <2>1, <2>2, LeastAndMost
  <2>4. Max(1 .. i) = i
    BY <1>1, <2>3
  <2>5. (1 .. i) \ {i} = 1 .. i - 1
    BY <1>1
  <2>6. iter[1 .. i] = Read(iter[(1 .. i) \ {Max(1 .. i)}], s[Max(1 .. i)])
    BY <1>8, <2>1
  <2>. QED
    BY <2>1, <2>4, <2>5, <2>6
<1>12. \A i \in 0 .. n : h[i] \in ReadStates
  <2>. DEFINE A == {i \in Nat : i \in 0 .. n => h[i] \in ReadStates}
  <2>. HIDE DEF h
  <2>1. 0 \in A
    BY <1>1, <1>10
  <2>2. ASSUME NEW i \in Nat, i \in A PROVE i + 1 \in A
    <3>1. ASSUME i + 1 \in 0 .. n PROVE h[i + 1] \in ReadStates
      <4>1. i \in 0 .. n /\ i + 1 \in 1 .. n /\ (i + 1) - 1 = i
        BY <1>1, <3>1
      <4>2. s[i + 1] \in AiTokens
        BY <1>1, <4>1
      <4>3. h[i + 1] = Read(h[i], s[i + 1]) /\ h[i] \in ReadStates
        BY <1>11, <2>2, <4>1
      <4>. QED
        BY <4>2, <4>3, ReadFacts
    <3>. QED
      BY <3>1
  <2>. HIDE DEF A
  <2>3. \A i \in Nat : i \in A
    BY <2>1, <2>2, CountingUp
  <2>. QED
    BY <1>1, <2>3 DEF A
<1>13. h \in [0 .. n -> ReadStates]
  BY <1>12
<1>14. h[n] = end
  BY <1>1
<1>. HIDE DEF h
<1>15. Reads(h, s)
  BY <1>10, <1>11, <1>13 DEF Reads
<1>. QED
  BY <1>9, <1>14, <1>15

\* What is JSON and starts with a brace ends with the brace that closes it.
LEMMA ObjectEnds ==
  ASSUME NEW s \in Seq(AiTokens), IsJson(s)
  PROVE  /\ Len(s) >= 1
         /\ \A i \in 1 .. Len(s) : s[i] \notin {"words", "json_fence", "fence"}
         /\ s[1] = "brace" => s[Len(s)] = "end_brace"
<1>. DEFINE n == Len(s)
<1>0. PICK g : Reads(g, s) /\ (IsJson(s) <=> g[n].sound /\ g[n].open = <<>> /\ g[n].tops = 1)
  BY JsonIsWalk
<1>1. /\ n \in Nat /\ \A i \in 1 .. n : s[i] \in AiTokens
      /\ \A i \in 0 .. n : g[i] \in ReadStates
      /\ g[0] = Unread /\ \A i \in 1 .. n : g[i] = Read(g[i - 1], s[i])
  BY <1>0 DEF Reads
<1>2. g[n].sound /\ g[n].open = <<>> /\ g[n].tops = 1
  BY <1>0
<1>. HIDE DEF n
<1>3. \A i \in 1 .. n : i - 1 \in 0 .. n /\ i \in 0 .. n
  BY <1>1
<1>4. n # 0
  BY <1>1, <1>2 DEF Unread
<1>5. ASSUME NEW i \in 1 .. n
      PROVE  /\ g[i].sound => g[i - 1].sound /\ s[i] \notin {"words", "json_fence", "fence"}
             /\ g[i].tops >= g[i - 1].tops
             /\ g[i - 1].open = <<>> /\ g[i].sound => g[i].tops = g[i - 1].tops + 1
             /\ g[i - 1].open # <<>> /\ g[i].sound =>
                  IF g[i].open = <<>> THEN s[i] = Closing[g[i - 1].open[1]]
                  ELSE g[i].open[1] = g[i - 1].open[1]
             /\ g[i - 1].open = <<>> /\ s[i] = "brace" => g[i].open = <<"brace">>
  <2>1. g[i - 1] \in ReadStates /\ s[i] \in AiTokens /\ g[i] = Read(g[i - 1], s[i])
    BY <1>1, <1>3
  <2>. QED
    BY <2>1, ReadFacts
<1>6. \A i \in 0 .. n : g[i].tops \in Nat
  BY <1>1 DEF ReadStates
\* Backwards: nothing before the end was wrong, and nothing stood beside the value.
<1>7. \A i \in 0 .. n : g[i].sound /\ g[i].tops <= 1
  <2>. DEFINE A == {k \in Nat : k \in 0 .. n => g[n - k].sound /\ g[n - k].tops <= 1}
  <2>1. 0 \in A
    BY <1>1, <1>2
  <2>2. ASSUME NEW k \in Nat, k \in A PROVE k + 1 \in A
    <3>1. ASSUME k + 1 \in 0 .. n PROVE g[n - (k + 1)].sound /\ g[n - (k + 1)].tops <= 1
      <4>1. k \in 0 .. n /\ n - k \in 1 .. n /\ (n - k) - 1 = n - (k + 1)
            /\ n - k \in 0 .. n /\ n - (k + 1) \in 0 .. n
        BY <1>1, <3>1
      <4>2. g[n - k].sound /\ g[n - k].tops <= 1
        BY <2>2, <4>1
      <4>3. g[n - (k + 1)].sound /\ g[n - k].tops >= g[n - (k + 1)].tops
        BY <1>5, <4>1, <4>2
      <4>. QED
        BY <1>6, <4>1, <4>2, <4>3
    <3>. QED
      BY <3>1
  <2>. HIDE DEF A
  <2>3. \A k \in Nat : k \in A
    BY <2>1, <2>2, CountingUp
  <2>4. \A i \in 0 .. n : n - i \in Nat /\ n - i \in 0 .. n /\ n - (n - i) = i
    BY <1>1
  <2>. TAKE i \in 0 .. n
  <2>5. n - i \in A
    BY <2>3, <2>4
  <2>. QED
    BY <2>4, <2>5 DEF A
\* Forwards: the first brace stays open until the last token.
<1>8. ASSUME s[1] = "brace" PROVE s[n] = "end_brace"
  <2>. DEFINE A == {i \in Nat : i + 1 \in 1 .. n - 1 => g[i + 1].open # <<>> /\ g[i + 1].open[1] = "brace"}
  <2>1. 1 \in 1 .. n /\ 1 - 1 = 0 /\ 1 \in 0 .. n /\ g[0].open = <<>> /\ g[0].tops = 0 /\ 0 \in 0 .. n
    BY <1>1, <1>4 DEF Unread
  <2>2. g[1].open = <<"brace">> /\ g[1].tops = 1
    BY <1>5, <1>7, <1>8, <2>1
  <2>0. <<"brace">> # <<>> /\ <<"brace">>[1] = "brace" /\ 0 + 1 = 1
    OBVIOUS
  <2>3. 0 \in A
    BY <2>0, <2>2
  <2>4. n # 1
    BY <1>2, <2>0, <2>2
  <2>5. \A i \in 1 .. n : g[i].tops >= 1
    <3>. DEFINE B == {i \in Nat : i \in 1 .. n => g[i].tops >= 1}
    <3>1. 0 \in B
      OBVIOUS
    <3>2. ASSUME NEW i \in Nat, i \in B PROVE i + 1 \in B
      <4>1. ASSUME i + 1 \in 1 .. n PROVE g[i + 1].tops >= 1
        <5>1. (i + 1) - 1 = i /\ (i = 0 \/ i \in 1 .. n) /\ i + 1 \in 0 .. n /\ i \in 0 .. n /\ 0 + 1 = 1
          BY <1>1, <4>1
        <5>2. CASE i = 0
          BY <2>2, <5>1, <5>2
        <5>3. CASE i \in 1 .. n
          <6>1. g[i].tops >= 1 /\ g[i + 1].tops >= g[i].tops
            BY <1>5, <3>2, <4>1, <5>1, <5>3
          <6>. QED
            BY <1>6, <5>1, <6>1
        <5>. QED
          BY <5>1, <5>2, <5>3
      <4>. QED
        BY <4>1
    <3>. HIDE DEF B
    <3>3. \A i \in Nat : i \in B
      BY <3>1, <3>2, CountingUp
    <3>. QED
      BY <1>1, <3>3 DEF B
  <2>6. ASSUME NEW i \in 1 .. n - 1 PROVE g[i].open # <<>>
    <3>1. /\ i + 1 \in 1 .. n /\ (i + 1) - 1 = i /\ i \in 1 .. n /\ i + 1 \in 0 .. n /\ i \in 0 .. n
      BY <1>1
    <3>2. g[i].tops >= 1 /\ g[i + 1].tops <= 1 /\ g[i + 1].sound
      BY <1>7, <2>5, <3>1
    <3>3. g[i].tops \in Nat /\ g[i + 1].tops \in Nat
      BY <1>6, <3>1
    <3>4. g[i].open = <<>> => g[i + 1].tops = g[i].tops + 1
      BY <1>5, <3>1, <3>2
    <3>. QED
      BY <3>2, <3>3, <3>4
  <2>7. ASSUME NEW i \in Nat, i \in A PROVE i + 1 \in A
    <3>1. ASSUME (i + 1) + 1 \in 1 .. n - 1
          PROVE  g[(i + 1) + 1].open # <<>> /\ g[(i + 1) + 1].open[1] = "brace"
      <4>1. /\ i + 1 \in 1 .. n - 1 /\ (i + 1) + 1 \in 1 .. n /\ ((i + 1) + 1) - 1 = i + 1
            /\ (i + 1) + 1 \in 0 .. n
        BY <1>1, <3>1
      <4>2. g[i + 1].open # <<>> /\ g[i + 1].open[1] = "brace"
        BY <2>7, <4>1
      <4>3. g[(i + 1) + 1].open # <<>> /\ g[(i + 1) + 1].sound
        BY <1>7, <2>6, <3>1, <4>1
      <4>. QED
        BY <1>5, <4>1, <4>2, <4>3
    <3>. QED
      BY <3>1
  <2>. HIDE DEF A
  <2>8. \A i \in Nat : i \in A
    BY <2>3, <2>7, CountingUp
  <2>9. /\ n - 2 \in Nat /\ (n - 2) + 1 = n - 1 /\ n - 1 \in 1 .. n - 1 /\ n \in 1 .. n
    BY <1>1, <1>4, <2>4
  <2>10. g[n - 1].open # <<>> /\ g[n - 1].open[1] = "brace"
    <3>1. n - 2 \in A
      BY <2>8, <2>9
    <3>. QED
      BY <2>9, <3>1 DEF A
  <2>11. s[n] = Closing["brace"]
    BY <1>2, <1>5, <2>9, <2>10
  <2>. QED
    BY <2>11 DEF Closing
<1>9. \A i \in 1 .. n : s[i] \notin {"words", "json_fence", "fence"}
  BY <1>3, <1>5, <1>7
<1>. QED
  BY <1>1, <1>4, <1>8, <1>9 DEF n

-----------------------------------------------------------------------------
\* t is the part of s from a to b.
Part(t, s, a, b) ==
  /\ a \in Nat \ {0} /\ b \in Nat /\ b <= Len(s) /\ a <= b + 1
  /\ t \in Seq(AiTokens) /\ Len(t) = b - a + 1
  /\ \A i \in 1 .. b - a + 1 : t[i] = s[a + i - 1]

LEMMA PartIs ==
  ASSUME NEW s \in Seq(AiTokens), NEW t, NEW a, NEW b, Part(t, s, a, b)
  PROVE  t = SubSeq(s, a, b)
<1>1. /\ a \in Nat \ {0} /\ b \in Nat /\ b <= Len(s) /\ a <= b + 1
      /\ t \in Seq(AiTokens) /\ Len(t) = b - a + 1
      /\ \A i \in 1 .. b - a + 1 : t[i] = s[a + i - 1]
  BY DEF Part
<1>2. /\ SubSeq(s, a, b) \in Seq(AiTokens) /\ Len(SubSeq(s, a, b)) = b - a + 1
      /\ \A i \in 1 .. b - a + 1 : SubSeq(s, a, b)[i] = s[a + i - 1]
  BY <1>1, PartFacts
<1>3. Len(t) = Len(SubSeq(s, a, b)) /\ \A i \in 1 .. Len(t) : t[i] = SubSeq(s, a, b)[i]
  BY <1>1, <1>2
<1>. QED
  BY <1>1, <1>2, <1>3, SameSequence

LEMMA IsPart ==
  ASSUME NEW s \in Seq(AiTokens), NEW a \in Nat \ {0}, NEW b \in Nat, b <= Len(s), a <= b + 1
  PROVE  Part(SubSeq(s, a, b), s, a, b)
BY PartFacts DEF Part

LEMMA WholePart ==
  ASSUME NEW s \in Seq(AiTokens)
  PROVE  Part(s, s, 1, Len(s))
<1>1. Len(s) \in Nat /\ 1 <= Len(s) + 1 /\ Len(s) - 1 + 1 = Len(s)
      /\ \A i \in 1 .. Len(s) : 1 + i - 1 = i
  OBVIOUS
<1>. QED
  BY <1>1 DEF Part

LEMMA PartOfPart ==
  ASSUME NEW s \in Seq(AiTokens), NEW t, NEW a, NEW b, Part(t, s, a, b),
         NEW u, NEW c, NEW d, Part(u, t, c, d)
  PROVE  Part(u, s, a + c - 1, a + d - 1)
<1>. DEFINE m == Len(t)
<1>1. /\ a \in Nat \ {0} /\ b \in Nat /\ b <= Len(s) /\ a <= b + 1 /\ m = b - a + 1 /\ Len(s) \in Nat
      /\ \A i \in 1 .. b - a + 1 : t[i] = s[a + i - 1]
  BY DEF Part
<1>2. /\ c \in Nat \ {0} /\ d \in Nat /\ d <= m /\ c <= d + 1
      /\ u \in Seq(AiTokens) /\ Len(u) = d - c + 1
      /\ \A i \in 1 .. d - c + 1 : u[i] = t[c + i - 1]
  BY DEF Part
<1>. HIDE DEF m
<1>3. /\ a + c - 1 \in Nat \ {0} /\ a + d - 1 \in Nat /\ a + d - 1 <= Len(s)
      /\ a + c - 1 <= (a + d - 1) + 1 /\ (a + d - 1) - (a + c - 1) + 1 = d - c + 1
  BY <1>1, <1>2
<1>4. ASSUME NEW i \in 1 .. d - c + 1 PROVE u[i] = s[(a + c - 1) + i - 1]
  <2>1. c + i - 1 \in 1 .. b - a + 1 /\ a + (c + i - 1) - 1 = (a + c - 1) + i - 1
    BY <1>1, <1>2
  <2>2. t[c + i - 1] = s[a + (c + i - 1) - 1]
    BY <1>1, <2>1
  <2>. QED
    BY <1>2, <2>1, <2>2
<1>. QED
  BY <1>2, <1>3, <1>4 DEF Part

\* What is cut off at either end is the token that was looked for.
LEMMA CutPrefix ==
  ASSUME NEW s \in Seq(AiTokens), NEW t, NEW a, NEW b, Part(t, s, a, b), NEW x
  PROVE  \E c : /\ Part(WithoutPrefix(t, x), s, c, b)
               /\ a <= c /\ \A i \in a .. c - 1 : s[i] = x
<1>1. /\ a \in Nat \ {0} /\ b \in Nat /\ b <= Len(s) /\ a <= b + 1
      /\ t \in Seq(AiTokens) /\ Len(t) = b - a + 1
      /\ \A i \in 1 .. b - a + 1 : t[i] = s[a + i - 1]
  BY DEF Part
<1>2. CASE ~(t # <<>> /\ Head(t) = x)
  <2>1. WithoutPrefix(t, x) = t
    BY <1>2 DEF WithoutPrefix
  <2>2. \A i \in a .. a - 1 : s[i] = x
    BY <1>1
  <2>3. a <= a
    BY <1>1
  <2>. QED
    BY <2>1, <2>2, <2>3
<1>3. CASE t # <<>> /\ Head(t) = x
  <2>1. WithoutPrefix(t, x) = Tail(t)
    BY <1>3 DEF WithoutPrefix
  <2>2. Len(t) # 0 /\ t[1] = x
    BY <1>1, <1>3
  <2>3. /\ Tail(t) \in Seq(AiTokens) /\ Len(Tail(t)) = Len(t) - 1
        /\ \A i \in 1 .. Len(t) - 1 : Tail(t)[i] = t[i + 1]
    BY <1>1, <1>3
  <2>4. /\ a + 1 \in Nat \ {0} /\ a + 1 <= b + 1 /\ b - (a + 1) + 1 = Len(t) - 1
        /\ a <= a + 1 /\ 1 \in 1 .. b - a + 1 /\ a + 1 - 1 = a
    BY <1>1, <2>2
  <2>5. ASSUME NEW i \in 1 .. b - (a + 1) + 1 PROVE Tail(t)[i] = s[(a + 1) + i - 1]
    <3>1. /\ i + 1 \in 1 .. b - a + 1 /\ a + (i + 1) - 1 = (a + 1) + i - 1
          /\ i \in 1 .. Len(t) - 1
      BY <1>1, <2>4
    <3>. QED
      BY <1>1, <2>3, <3>1
  <2>6. Part(Tail(t), s, a + 1, b)
    BY <1>1, <2>3, <2>4, <2>5 DEF Part
  <2>7. \A i \in a .. (a + 1) - 1 : i = a
    BY <1>1
  <2>8. s[a] = x
    BY <1>1, <2>2, <2>4
  <2>. QED
    BY <2>1, <2>4, <2>6, <2>7, <2>8
<1>. QED
  BY <1>2, <1>3

LEMMA CutSuffix ==
  ASSUME NEW s \in Seq(AiTokens), NEW t, NEW a, NEW b, Part(t, s, a, b), NEW x
  PROVE  \E d : /\ Part(WithoutSuffix(t, x), s, a, d)
               /\ d <= b /\ \A i \in d + 1 .. b : s[i] = x
<1>1. /\ a \in Nat \ {0} /\ b \in Nat /\ b <= Len(s) /\ a <= b + 1 /\ Len(s) \in Nat
      /\ t \in Seq(AiTokens) /\ Len(t) = b - a + 1
      /\ \A i \in 1 .. b - a + 1 : t[i] = s[a + i - 1]
  BY DEF Part
<1>2. CASE ~(t # <<>> /\ Last(t) = x)
  <2>1. WithoutSuffix(t, x) = t
    BY <1>2 DEF WithoutSuffix
  <2>2. \A i \in b + 1 .. b : s[i] = x
    BY <1>1
  <2>3. b <= b
    BY <1>1
  <2>. QED
    BY <2>1, <2>2, <2>3
<1>3. CASE t # <<>> /\ Last(t) = x
  <2>1. WithoutSuffix(t, x) = SubSeq(t, 1, Len(t) - 1)
    BY <1>3 DEF WithoutSuffix, Front
  <2>2. Len(t) # 0 /\ t[Len(t)] = x
    BY <1>1, <1>3 DEF Last
  <2>3. /\ 1 \in Nat \ {0} /\ Len(t) - 1 \in Nat /\ Len(t) - 1 <= Len(t) /\ 1 <= (Len(t) - 1) + 1
        /\ a + 1 - 1 = a /\ a + (Len(t) - 1) - 1 = b - 1
        /\ b - 1 <= b /\ Len(t) \in 1 .. b - a + 1 /\ a + Len(t) - 1 = b
    BY <1>1, <2>2
  <2>4. Part(SubSeq(t, 1, Len(t) - 1), t, 1, Len(t) - 1)
    BY <1>1, <2>3, IsPart
  <2>5. Part(SubSeq(t, 1, Len(t) - 1), s, a + 1 - 1, a + (Len(t) - 1) - 1)
    BY <2>4, PartOfPart
  <2>6. Part(SubSeq(t, 1, Len(t) - 1), s, a, b - 1)
    BY <2>3, <2>5
  <2>7. \A i \in (b - 1) + 1 .. b : i = b
    BY <1>1
  <2>8. s[b] = x
    BY <1>1, <2>2, <2>3
  <2>. QED
    BY <2>1, <2>3, <2>6, <2>7, <2>8
<1>. QED
  BY <1>2, <1>3

\* Around what is bare there are only fences.
LEMMA BareIsPart ==
  ASSUME NEW s \in Seq(AiTokens)
  PROVE  \E a, b : /\ Part(Bare(s), s, a, b)
                  /\ \A i \in 1 .. Len(s) : i \notin a .. b => s[i] \in {"json_fence", "fence"}
<1>1. Part(s, s, 1, Len(s)) /\ Len(s) \in Nat
  BY WholePart
<1>2. PICK a : /\ Part(WithoutPrefix(s, "json_fence"), s, a, Len(s))
               /\ 1 <= a /\ \A i \in 1 .. a - 1 : s[i] = "json_fence"
  BY <1>1, CutPrefix
<1>. DEFINE t == WithoutPrefix(s, "json_fence")
            u == WithoutPrefix(t, "fence")
<1>3. PICK c : /\ Part(u, s, c, Len(s))
               /\ a <= c /\ \A i \in a .. c - 1 : s[i] = "fence"
  BY <1>2, CutPrefix
<1>4. PICK d : /\ Part(WithoutSuffix(u, "fence"), s, c, d)
               /\ d <= Len(s) /\ \A i \in d + 1 .. Len(s) : s[i] = "fence"
  BY <1>3, CutSuffix
<1>5. Part(Bare(s), s, c, d)
  BY <1>4 DEF Bare
<1>6. a \in Nat /\ c \in Nat /\ d \in Nat
  BY <1>2, <1>4 DEF Part
<1>7. \A i \in 1 .. Len(s) : i \in 1 .. a - 1 \/ i \in a .. c - 1 \/ i \in c .. d \/ i \in d + 1 .. Len(s)
  BY <1>1, <1>6
<1>8. \A i \in 1 .. Len(s) : i \notin c .. d => s[i] \in {"json_fence", "fence"}
  BY <1>2, <1>3, <1>4, <1>7
<1>. QED
  BY <1>5, <1>8

\* The places of a token have a first and a last.
LEMMA PlacesFacts ==
  ASSUME NEW s \in Seq(AiTokens), NEW x, Places(s, x) # {}
  PROVE  /\ Min(Places(s, x)) \in 1 .. Len(s) /\ s[Min(Places(s, x))] = x
         /\ Max(Places(s, x)) \in 1 .. Len(s) /\ s[Max(Places(s, x))] = x
         /\ \A i \in 1 .. Len(s) : s[i] = x => Min(Places(s, x)) <= i /\ Max(Places(s, x)) >= i
<1>1. Len(s) \in Nat /\ IsFiniteSet(1 .. Len(s)) /\ DOMAIN s = 1 .. Len(s)
  BY FS_Interval
<1>2. Places(s, x) = {i \in 1 .. Len(s) : s[i] = x}
  BY <1>1 DEF Places
<1>3. IsFiniteSet(Places(s, x)) /\ Places(s, x) \subseteq Int
  BY <1>1, <1>2, FS_Subset
<1>. QED
  BY <1>2, <1>3, LeastAndMost

LEMMA BetweenIsPart ==
  ASSUME NEW s \in Seq(AiTokens), NEW x, NEW y, Places(s, x) # {},
         ~(Places(s, y) # {} /\ Min(Places(s, x)) > Max(Places(s, y)) + 1)
  PROVE  \E c, d : Part(Between(s, x, y), s, c, d)
<1>1. CASE Places(s, y) = {}
  BY <1>1, WholePart DEF Between
<1>2. CASE Places(s, y) # {}
  <2>. DEFINE c == Min(Places(s, x))
              d == Max(Places(s, y))
  <2>1. c \in 1 .. Len(s) /\ d \in 1 .. Len(s) /\ Len(s) \in Nat /\ ~(c > d + 1)
    BY <1>2, PlacesFacts
  <2>2. Between(s, x, y) = SubSeq(s, c, d)
    BY <1>2 DEF Between
  <2>. HIDE DEF c, d
  <2>3. c \in Nat \ {0} /\ d \in Nat /\ d <= Len(s) /\ c <= d + 1
    BY <2>1
  <2>. QED
    BY <2>2, <2>3, IsPart
<1>. QED
  BY <1>1, <1>2

\* What is repaired is a piece of the reply.
LEMMA RepairIsPart ==
  ASSUME NEW s \in Seq(AiTokens), ~Panics(s)
  PROVE  \E a, b : Part(RepairJson(s), s, a, b)
<1>. DEFINE bare == Bare(s)
<1>1. PICK a, b : Part(bare, s, a, b)
  BY BareIsPart
<1>2. bare \in Seq(AiTokens)
  BY <1>1 DEF Part
<1>3. \E c, d : Part(RepairJson(s), bare, c, d)
  <2>1. CASE Places(bare, "brace") # {}
    <3>1. RepairJson(s) = Between(bare, "brace", "end_brace")
      BY <2>1 DEF RepairJson
    <3>2. ~(Places(bare, "end_brace") # {}
            /\ Min(Places(bare, "brace")) > Max(Places(bare, "end_brace")) + 1)
      BY <2>1 DEF Panics
    <3>. HIDE DEF bare
    <3>. QED
      BY <1>2, <2>1, <3>1, <3>2, BetweenIsPart
  <2>2. CASE Places(bare, "brace") = {} /\ Places(bare, "bracket") # {}
    <3>1. RepairJson(s) = Between(bare, "bracket", "end_bracket")
      BY <2>2 DEF RepairJson
    <3>2. ~(Places(bare, "end_bracket") # {}
            /\ Min(Places(bare, "bracket")) > Max(Places(bare, "end_bracket")) + 1)
      BY <2>2 DEF Panics
    <3>. HIDE DEF bare
    <3>. QED
      BY <1>2, <2>2, <3>1, <3>2, BetweenIsPart
  <2>3. CASE Places(bare, "brace") = {} /\ Places(bare, "bracket") = {}
    <3>1. RepairJson(s) = bare
      BY <2>3 DEF RepairJson
    <3>. QED
      BY <1>2, <3>1, WholePart
  <2>. QED
    BY <2>1, <2>2, <2>3
<1>. QED
  BY <1>1, <1>3, PartOfPart

\* What is bare is s from a to b, and has all that is no fence.
BareAt(s, a, b) ==
  /\ Part(Bare(s), s, a, b) /\ Len(Bare(s)) = b - a + 1
  /\ a \in Nat \ {0} /\ b \in Nat /\ b <= Len(s)
  /\ \A m \in 1 .. Len(Bare(s)) : Bare(s)[m] = s[a + m - 1] /\ a + m - 1 \in 1 .. Len(s)
  /\ \A i \in 1 .. Len(s) : s[i] \notin {"json_fence", "fence"} =>
       i - a + 1 \in 1 .. Len(Bare(s)) /\ Bare(s)[i - a + 1] = s[i]

LEMMA KeptByBare ==
  ASSUME NEW s \in Seq(AiTokens)
  PROVE  \E a, b : BareAt(s, a, b)
<1>1. PICK a, b : /\ Part(Bare(s), s, a, b)
                  /\ \A i \in 1 .. Len(s) : i \notin a .. b => s[i] \in {"json_fence", "fence"}
  BY BareIsPart
<1>2. /\ a \in Nat \ {0} /\ b \in Nat /\ b <= Len(s) /\ Len(s) \in Nat
      /\ Len(Bare(s)) = b - a + 1 /\ \A m \in 1 .. b - a + 1 : Bare(s)[m] = s[a + m - 1]
  BY <1>1 DEF Part
<1>3. \A m \in 1 .. b - a + 1 : a + m - 1 \in 1 .. Len(s)
  BY <1>2
<1>4. ASSUME NEW i \in 1 .. Len(s), s[i] \notin {"json_fence", "fence"}
      PROVE  i - a + 1 \in 1 .. b - a + 1 /\ Bare(s)[i - a + 1] = s[i]
  <2>1. i \in a .. b
    BY <1>1, <1>4
  <2>2. i - a + 1 \in 1 .. b - a + 1 /\ a + (i - a + 1) - 1 = i
    BY <1>2, <2>1
  <2>. QED
    BY <1>2, <2>2
<1>. QED
  BY <1>1, <1>2, <1>3, <1>4 DEF BareAt

\* An object with nothing but prose around it is what is found.
LEMMA LoneIsFound ==
  ASSUME NEW s \in Seq(AiTokens), NEW i \in 1 .. Len(s), NEW k \in 1 .. Len(s), i <= k,
         s[i] = "brace", IsJson(SubSeq(s, i, k)),
         \A n \in 1 .. Len(s) : n \notin i .. k => s[n] \in Prose
  PROVE  ~Panics(s) /\ RepairJson(s) = SubSeq(s, i, k)
<1>. DEFINE bare == Bare(s)
            x == Places(bare, "brace")
            y == Places(bare, "end_brace")
<1>1. i \in Nat \ {0} /\ k \in Nat /\ Len(s) \in Nat /\ k <= Len(s) /\ i <= k + 1
  OBVIOUS
<1>2. /\ SubSeq(s, i, k) \in Seq(AiTokens) /\ Len(SubSeq(s, i, k)) = k - i + 1
      /\ \A n \in 1 .. k - i + 1 : SubSeq(s, i, k)[n] = s[i + n - 1]
  BY <1>1, PartFacts
<1>3. s[k] = "end_brace"
  <2>1. /\ 1 \in 1 .. k - i + 1 /\ k - i + 1 \in 1 .. k - i + 1
        /\ i + 1 - 1 = i /\ i + (k - i + 1) - 1 = k
    BY <1>1
  <2>2. SubSeq(s, i, k)[1] = "brace"
    BY <1>2, <2>1
  <2>3. SubSeq(s, i, k)[k - i + 1] = "end_brace"
    BY <1>2, <2>2, ObjectEnds
  <2>. QED
    BY <1>2, <2>1, <2>3
<1>4. PICK a, b : /\ Part(bare, s, a, b) /\ Len(bare) = b - a + 1
                  /\ a \in Nat \ {0} /\ b \in Nat /\ b <= Len(s)
                  /\ \A m \in 1 .. Len(bare) : bare[m] = s[a + m - 1] /\ a + m - 1 \in 1 .. Len(s)
                  /\ \A n \in 1 .. Len(s) : s[n] \notin {"json_fence", "fence"} =>
                       n - a + 1 \in 1 .. Len(bare) /\ bare[n - a + 1] = s[n]
  <2>1. PICK a, b : BareAt(s, a, b)
    BY KeptByBare
  <2>. QED
    BY <2>1 DEF BareAt
<1>5. bare \in Seq(AiTokens) /\ Len(bare) \in Nat /\ DOMAIN bare = 1 .. Len(bare)
  BY <1>4 DEF Part
<1>6. /\ i - a + 1 \in 1 .. Len(bare) /\ bare[i - a + 1] = "brace"
      /\ k - a + 1 \in 1 .. Len(bare) /\ bare[k - a + 1] = "end_brace"
  BY <1>3, <1>4
<1>7. x # {} /\ y # {}
  BY <1>5, <1>6 DEF Places
<1>. HIDE DEF bare
<1>8. /\ Min(x) \in 1 .. Len(bare) /\ bare[Min(x)] = "brace"
      /\ \A m \in 1 .. Len(bare) : bare[m] = "brace" => Min(x) <= m
      /\ Max(y) \in 1 .. Len(bare) /\ bare[Max(y)] = "end_brace"
      /\ \A m \in 1 .. Len(bare) : bare[m] = "end_brace" => Max(y) >= m
  BY <1>5, <1>7, PlacesFacts
<1>9. \A n \in 1 .. Len(s) : s[n] \in {"brace", "end_brace"} => i <= n /\ n <= k
  <2>1. \A n \in 1 .. Len(s) : n \in i .. k <=> i <= n /\ n <= k
    BY <1>1
  <2>. QED
    BY <2>1 DEF Prose
<1>. HIDE DEF x, y
<1>10. Min(x) = i - a + 1
  <2>1. i <= a + Min(x) - 1
    BY <1>4, <1>8, <1>9
  <2>. QED
    BY SMTT(40), <1>1, <1>4, <1>5, <1>6, <1>8, <2>1
<1>11. Max(y) = k - a + 1
  <2>1. a + Max(y) - 1 <= k
    BY <1>4, <1>8, <1>9
  <2>. QED
    BY SMTT(40), <1>1, <1>4, <1>5, <1>6, <1>8, <2>1
<1>12. ~(Min(x) > Max(y) + 1)
  BY <1>1, <1>4, <1>10, <1>11
<1>13. ~Panics(s)
  BY <1>7, <1>12 DEF Panics, bare, x, y
<1>14. RepairJson(s) = SubSeq(bare, i - a + 1, k - a + 1)
  BY <1>7, <1>10, <1>11 DEF RepairJson, Between, bare, x, y
<1>15. /\ i - a + 1 \in Nat \ {0} /\ k - a + 1 \in Nat /\ k - a + 1 <= Len(bare)
       /\ i - a + 1 <= (k - a + 1) + 1
       /\ a + (i - a + 1) - 1 = i /\ a + (k - a + 1) - 1 = k
  BY <1>1, <1>4, <1>5, <1>6
<1>16. Part(SubSeq(bare, i - a + 1, k - a + 1), bare, i - a + 1, k - a + 1)
  BY <1>5, <1>15, IsPart
<1>17. Part(SubSeq(bare, i - a + 1, k - a + 1), s, a + (i - a + 1) - 1, a + (k - a + 1) - 1)
  BY <1>4, <1>16, PartOfPart
<1>18. Part(SubSeq(bare, i - a + 1, k - a + 1), s, i, k)
  BY <1>15, <1>17
<1>. QED
  BY <1>13, <1>14, <1>18, PartIs

\* The task is stopped only where every brace is closed before one is opened.
LEMMA PanicMeans ==
  ASSUME NEW s \in Seq(AiTokens), Panics(s), NEW i \in 1 .. Len(s), NEW k \in 1 .. Len(s),
         s[i] = "brace", s[k] = "end_brace"
  PROVE  k < i
<1>. DEFINE bare == Bare(s)
            x == Places(bare, "brace")
            y == Places(bare, "end_brace")
<1>1. PICK a, b : /\ Part(bare, s, a, b) /\ Len(bare) = b - a + 1
                  /\ a \in Nat \ {0} /\ b \in Nat /\ b <= Len(s)
                  /\ \A n \in 1 .. Len(s) : s[n] \notin {"json_fence", "fence"} =>
                       n - a + 1 \in 1 .. Len(bare) /\ bare[n - a + 1] = s[n]
  <2>1. PICK a, b : BareAt(s, a, b)
    BY KeptByBare
  <2>. QED
    BY <2>1 DEF BareAt
<1>2. bare \in Seq(AiTokens) /\ Len(bare) \in Nat /\ DOMAIN bare = 1 .. Len(bare)
  BY <1>1 DEF Part
<1>3. /\ i - a + 1 \in 1 .. Len(bare) /\ bare[i - a + 1] = "brace"
      /\ k - a + 1 \in 1 .. Len(bare) /\ bare[k - a + 1] = "end_brace"
  BY <1>1
<1>4. x # {} /\ y # {}
  BY <1>2, <1>3 DEF Places
<1>. HIDE DEF bare
<1>5. /\ Min(x) \in 1 .. Len(bare) /\ Min(x) <= i - a + 1
      /\ Max(y) \in 1 .. Len(bare) /\ Max(y) >= k - a + 1
  BY <1>2, <1>3, <1>4, PlacesFacts
<1>6. Min(x) > Max(y) + 1
  BY <1>4 DEF Panics, bare
<1>. HIDE DEF x, y
<1>7. i \in Nat /\ k \in Nat /\ Min(x) \in Nat /\ Max(y) \in Nat
  BY <1>2, <1>5
<1>. QED
  BY <1>1, <1>5, <1>6, <1>7

-----------------------------------------------------------------------------
\* The documents up to the n-th that the model was asked about, and those of
\* which it made a summary.
AskedOf(n) == {d \in 1 .. n : aiTask.docs[d] \notin Unasked}

ToldOf(n) == {d \in 1 .. n : aiTask.docs[d] = "answered"}

\* Until the last call each document that was looked at has been counted.
SummariesAreCounted ==
  aiTask.op = "multiple" /\ aiAt = "start" =>
    /\ summarized.docs \in 0 .. Len(aiTask.docs)
    /\ aiCalls = Cardinality(AskedOf(summarized.docs))
    /\ summarized.summaries = Cardinality(ToldOf(summarized.docs))

AiInv ==
  /\ aiAt \in {"start", "parse", "text", "read", "answered", "failed", "panic"}
  /\ reply \in Seq(AiTokens) /\ aiData \in Seq(AiTokens)
  /\ aiTask.op = "multiple" =>
       aiTask.docs \in Seq({"empty", "uncut", "answered", "failed"}) /\ ~aiTask.empty
  /\ aiAt = "start" => reply = <<>>
  /\ aiAt = "text" => aiTask.op \notin Extractions
  /\ aiAt \in {"parse", "read"} => aiTask.op \in Extractions
  /\ SummariesAreCounted /\ AnswersAreSaid

\* One document more.
LEMMA OneDocMore ==
  ASSUME NEW n \in Nat
  PROVE  /\ IsFiniteSet(AskedOf(n)) /\ IsFiniteSet(ToldOf(n))
         /\ Cardinality(AskedOf(n)) \in Nat /\ Cardinality(ToldOf(n)) \in Nat
         /\ Cardinality(AskedOf(n + 1)) = Cardinality(AskedOf(n))
               + (IF aiTask.docs[n + 1] \in Unasked THEN 0 ELSE 1)
         /\ Cardinality(ToldOf(n + 1)) = Cardinality(ToldOf(n))
               + (IF aiTask.docs[n + 1] = "answered" THEN 1 ELSE 0)
<1>1. IsFiniteSet(1 .. n) /\ n + 1 \notin 1 .. n /\ 1 .. n + 1 = (1 .. n) \cup {n + 1}
  BY FS_Interval
<1>2. IsFiniteSet(AskedOf(n)) /\ IsFiniteSet(ToldOf(n))
  BY <1>1, FS_Subset DEF AskedOf, ToldOf
<1>3. n + 1 \notin AskedOf(n) /\ n + 1 \notin ToldOf(n)
  BY <1>1 DEF AskedOf, ToldOf
<1>4. AskedOf(n + 1) = IF aiTask.docs[n + 1] \in Unasked THEN AskedOf(n) ELSE AskedOf(n) \cup {n + 1}
  BY <1>1 DEF AskedOf
<1>5. ToldOf(n + 1) = IF aiTask.docs[n + 1] = "answered" THEN ToldOf(n) \cup {n + 1} ELSE ToldOf(n)
  BY <1>1 DEF ToldOf
<1>6. Cardinality(AskedOf(n)) \in Nat /\ Cardinality(ToldOf(n)) \in Nat
  BY <1>2, FS_CardinalityType
<1>7. /\ Cardinality(AskedOf(n) \cup {n + 1}) = Cardinality(AskedOf(n)) + 1
      /\ Cardinality(ToldOf(n) \cup {n + 1}) = Cardinality(ToldOf(n)) + 1
  BY <1>2, <1>3, FS_AddElement
<1>. QED
  BY <1>2, <1>4, <1>5, <1>6, <1>7

LEMMA AiInvInit == AiInit => AiInv
<1>. SUFFICES ASSUME AiInit PROVE AiInv
  OBVIOUS
<1>1. \/ aiTask.op \in Extractions \cup Summaries
      \/ aiTask.op = "multiple" /\ ~aiTask.empty /\ aiTask.docs \in DocTexts
  BY DEF AiInit
<1>2. "multiple" \notin Extractions \cup Summaries
  BY DEF Extractions, Summaries
<1>3. aiTask.op = "multiple" =>
        aiTask.docs \in Seq({"empty", "uncut", "answered", "failed"}) /\ ~aiTask.empty
  BY <1>1, <1>2, AiAssumption
<1>4. /\ aiAt = "start" /\ reply = <<>> /\ aiData = <<>> /\ aiCalls = 0
      /\ summarized = [docs |-> 0, summaries |-> 0]
  BY DEF AiInit
<1>5. <<>> \in Seq(AiTokens)
  OBVIOUS
<1>6. SummariesAreCounted
  <2>1. AskedOf(0) = {} /\ ToldOf(0) = {}
    BY DEF AskedOf, ToldOf
  <2>2. Cardinality({}) = 0
    BY FS_EmptySet
  <2>3. aiTask.op = "multiple" => 0 \in 0 .. Len(aiTask.docs)
    BY <1>3
  <2>. QED
    BY <1>4, <2>1, <2>2, <2>3 DEF SummariesAreCounted
<1>7. AnswersAreSaid
  BY <1>4 DEF AnswersAreSaid
<1>. QED
  BY <1>3, <1>4, <1>5, <1>6, <1>7 DEF AiInv

\* Nothing that was said is lost when the task ends.
LEMMA AnswerKeeps ==
  ASSUME AiInv, aiAt \in {"read", "text"}, aiAt' \in {"answered", "failed"},
         UNCHANGED <<aiTask, reply, aiData, aiCalls, summarized>>
  PROVE  AiInv'
<1>1. LoneObject' <=> LoneObject
  BY DEF LoneObject
<1>2. SummariesAreCounted'
  BY DEF SummariesAreCounted
<1>3. AnswersAreSaid'
  BY <1>1 DEF AiInv, AnswersAreSaid
<1>. QED
  BY <1>2, <1>3 DEF AiInv

\* A task that ends without an answer: the model was asked as often as there are
\* documents for it, and once more if one could be summarized and all of it sent.
LEMMA FailsAtStart ==
  ASSUME AiInv, aiAt = "start", aiAt' = "failed",
         UNCHANGED <<aiTask, reply, aiData, summarized>>,
         aiTask.op = "multiple" =>
           /\ summarized.docs = Len(aiTask.docs)
           /\ aiCalls' = aiCalls + (IF summarized.summaries # 0 /\ aiTask.cuts THEN 1 ELSE 0)
  PROVE  AiInv'
<1>1. reply' = <<>>
  BY DEF AiInv
<1>2. ~LoneObject'
  <2>1. DOMAIN <<>> = {}
    OBVIOUS
  <2>. QED
    BY <1>1, <2>1 DEF LoneObject
<1>3. SummariesAreCounted'
  BY DEF SummariesAreCounted
<1>4. ASSUME aiTask.op = "multiple"
      PROVE  LET asked == Cardinality({d \in DOMAIN aiTask.docs : aiTask.docs[d] \notin Unasked})
                 told == {d \in DOMAIN aiTask.docs : aiTask.docs[d] = "answered"}
             IN  aiCalls' = asked + (IF told # {} /\ aiTask.cuts THEN 1 ELSE 0)
  <2>1. Len(aiTask.docs) \in Nat /\ DOMAIN aiTask.docs = 1 .. Len(aiTask.docs)
    BY <1>4 DEF AiInv
  <2>2. /\ aiCalls = Cardinality(AskedOf(Len(aiTask.docs)))
        /\ summarized.summaries = Cardinality(ToldOf(Len(aiTask.docs)))
    BY <1>4 DEF AiInv, SummariesAreCounted
  <2>3. IsFiniteSet(ToldOf(Len(aiTask.docs)))
    BY <2>1, OneDocMore
  <2>4. summarized.summaries = 0 <=> ToldOf(Len(aiTask.docs)) = {}
    BY <2>2, <2>3, FS_EmptySet
  <2>. QED
    BY <1>4, <2>1, <2>2, <2>4 DEF AskedOf, ToldOf
<1>5. AnswersAreSaid'
  BY <1>2, <1>4 DEF AnswersAreSaid
<1>. QED
  BY <1>3, <1>5 DEF AiInv

LEMMA RefuseEmptyKeeps ==
  ASSUME AiInv, RefuseEmpty
  PROVE  AiInv'
<1>1. aiTask.op = "multiple" =>
        summarized.docs = Len(aiTask.docs) /\ summarized.summaries = 0 /\ aiCalls' = aiCalls + 0
  <2>. HAVE aiTask.op = "multiple"
  <2>1. aiTask.docs = <<>> /\ aiAt = "start" /\ aiCalls' = aiCalls
    BY DEF RefuseEmpty, AiInv
  <2>2. Len(aiTask.docs) = 0
    BY <2>1
  <2>3. /\ summarized.docs = 0 /\ aiCalls = Cardinality(AskedOf(0))
        /\ summarized.summaries = Cardinality(ToldOf(0))
    BY <2>1, <2>2 DEF AiInv, SummariesAreCounted
  <2>4. ToldOf(0) = {} /\ AskedOf(0) = {}
    BY DEF ToldOf, AskedOf
  <2>5. Cardinality({}) = 0
    BY FS_EmptySet
  <2>6. aiCalls = 0 /\ summarized.summaries = 0
    BY <2>3, <2>4, <2>5
  <2>7. aiCalls' = aiCalls + 0
    BY <2>1, <2>6
  <2>. QED
    BY <2>2, <2>3, <2>6, <2>7
<1>2. aiTask.op = "multiple" =>
           /\ summarized.docs = Len(aiTask.docs)
           /\ aiCalls' = aiCalls + (IF summarized.summaries # 0 /\ aiTask.cuts THEN 1 ELSE 0)
  BY <1>1
<1>3. aiAt = "start" /\ aiAt' = "failed" /\ UNCHANGED <<aiTask, reply, aiData, summarized>>
  BY DEF RefuseEmpty, AiFail
<1>. QED
  BY <1>2, <1>3, FailsAtStart

LEMMA NoLastCallKeeps ==
  ASSUME AiInv, NothingToCombine \/ (CutFails /\ aiTask.op = "multiple")
  PROVE  AiInv'
<1>0. NothingToCombine \/ (CutFails /\ aiTask.op = "multiple")
  OBVIOUS
<1>1. /\ aiAt = "start" /\ aiAt' = "failed" /\ UNCHANGED <<aiTask, reply, aiData, summarized, aiCalls>>
      /\ aiTask.op = "multiple" /\ summarized.docs = Len(aiTask.docs)
      /\ summarized.summaries = 0 \/ ~aiTask.cuts
  BY <1>0 DEF NothingToCombine, CutFails, HasText, AiFail, MayAsk
<1>2. aiCalls' = aiCalls + 0
  <2>1. PICK n : n = summarized.docs
    OBVIOUS
  <2>2. aiCalls = Cardinality(AskedOf(n)) /\ n \in Nat /\ n \in 0 .. Len(aiTask.docs)
    BY <1>1, <2>1 DEF AiInv, SummariesAreCounted
  <2>3. Cardinality(AskedOf(n)) \in Nat
    BY <1>1, <2>2, OneDocMore
  <2>4. PICK c : c = Cardinality(AskedOf(n))
    OBVIOUS
  <2>. QED
    BY <1>1, <2>2, <2>3, <2>4
<1>. QED
  BY <1>1, <1>2, FailsAtStart

LEMMA SummarizeOneKeeps ==
  ASSUME AiInv, SummarizeOne
  PROVE  AiInv'
<1>. DEFINE n == summarized.docs
            doc == aiTask.docs[n + 1]
<1>1. /\ aiAt = "start" /\ aiTask.op = "multiple" /\ n < Len(aiTask.docs)
      /\ aiCalls' = (IF doc \in Unasked THEN aiCalls ELSE aiCalls + 1)
      /\ summarized' = [docs |-> n + 1,
                        summaries |-> summarized.summaries + (IF doc = "answered" THEN 1 ELSE 0)]
      /\ UNCHANGED <<aiTask, aiAt, reply, aiData>>
  BY DEF SummarizeOne
<1>2. /\ n \in Nat /\ n + 1 \in 0 .. Len(aiTask.docs) /\ aiCalls = Cardinality(AskedOf(n))
      /\ summarized.summaries = Cardinality(ToldOf(n))
  BY <1>1 DEF AiInv, SummariesAreCounted
<1>. HIDE DEF n, doc
<1>3. /\ Cardinality(AskedOf(n)) \in Nat /\ Cardinality(ToldOf(n)) \in Nat
      /\ Cardinality(AskedOf(n + 1)) = Cardinality(AskedOf(n)) + (IF doc \in Unasked THEN 0 ELSE 1)
      /\ Cardinality(ToldOf(n + 1)) = Cardinality(ToldOf(n)) + (IF doc = "answered" THEN 1 ELSE 0)
  BY <1>2, OneDocMore DEF doc
<1>4. summarized'.docs = n + 1
      /\ summarized'.summaries = summarized.summaries + (IF doc = "answered" THEN 1 ELSE 0)
  BY <1>1
<1>5. aiCalls' = Cardinality(AskedOf(n + 1)) /\ summarized'.summaries = Cardinality(ToldOf(n + 1))
  BY <1>1, <1>2, <1>3, <1>4
<1>6. SummariesAreCounted'
  BY <1>1, <1>2, <1>4, <1>5 DEF SummariesAreCounted, AskedOf, ToldOf
<1>7. AnswersAreSaid'
  BY <1>1 DEF AnswersAreSaid
<1>. QED
  BY <1>1, <1>6, <1>7 DEF AiInv

LEMMA CutFailsKeeps ==
  ASSUME AiInv, CutFails
  PROVE  AiInv'
<1>1. CASE aiTask.op = "multiple"
  BY <1>1, NoLastCallKeeps
<1>2. CASE aiTask.op # "multiple"
  <2>1. aiAt = "start" /\ aiAt' = "failed" /\ UNCHANGED <<aiTask, reply, aiData, summarized>>
    BY DEF CutFails, AiFail
  <2>. QED
    BY <1>2, <2>1, FailsAtStart
<1>. QED
  BY <1>1, <1>2

LEMMA AskModelKeeps ==
  ASSUME AiInv, AskModel
  PROVE  AiInv'
<1>1. /\ aiAt = "start" /\ MayAsk /\ (aiTask.op = "multiple" => summarized.summaries > 0)
      /\ aiCalls' = aiCalls + 1 /\ UNCHANGED <<aiTask, aiData, summarized>> /\ aiTask.cuts
  BY DEF AskModel, AiFail, HasText
<1>2. aiTask.op = "multiple" =>
           /\ summarized.docs = Len(aiTask.docs)
           /\ aiCalls' = aiCalls + (IF summarized.summaries # 0 /\ aiTask.cuts THEN 1 ELSE 0)
  BY <1>1 DEF MayAsk
<1>3. CASE AiFail /\ UNCHANGED reply
  BY <1>1, <1>2, <1>3, FailsAtStart DEF AiFail
<1>4. CASE /\ reply' \in Replies
           /\ aiAt' = IF aiTask.op \in Extractions THEN "parse" ELSE "text"
  <2>1. reply' \in Seq(AiTokens)
    BY <1>4, AiAssumption
  <2>2. ASSUME aiTask.op = "multiple"
        PROVE  LET asked == Cardinality({d \in DOMAIN aiTask.docs : aiTask.docs[d] \notin Unasked})
                   told == {d \in DOMAIN aiTask.docs : aiTask.docs[d] = "answered"}
               IN  aiCalls' = asked + (IF told # {} /\ aiTask.cuts THEN 1 ELSE 0)
    <3>1. Len(aiTask.docs) \in Nat /\ DOMAIN aiTask.docs = 1 .. Len(aiTask.docs)
      BY <2>2 DEF AiInv
    <3>2. /\ aiCalls = Cardinality(AskedOf(Len(aiTask.docs)))
          /\ summarized.summaries = Cardinality(ToldOf(Len(aiTask.docs)))
      BY <1>1, <1>2, <2>2 DEF AiInv, SummariesAreCounted
    <3>3. ToldOf(Len(aiTask.docs)) # {}
      <4>1. Cardinality({}) = 0
        BY FS_EmptySet
      <4>2. Cardinality(ToldOf(Len(aiTask.docs))) > 0
        BY <1>1, <2>2, <3>2
      <4>. QED
        BY <4>1, <4>2
    <3>. QED
      BY <1>1, <3>1, <3>2, <3>3 DEF AskedOf, ToldOf
  <2>3. aiAt' \in {"parse", "text"} /\ (aiAt' = "text" => aiTask.op \notin Extractions)
        /\ (aiAt' = "parse" => aiTask.op \in Extractions)
    BY <1>4
  <2>4. AnswersAreSaid'
    BY <1>1, <2>2, <2>3 DEF AnswersAreSaid
  <2>5. SummariesAreCounted'
    BY <2>3 DEF SummariesAreCounted
  <2>. QED
    BY <1>1, <2>1, <2>3, <2>4, <2>5 DEF AiInv
<1>. QED
  BY <1>3, <1>4 DEF AskModel

\* A lone object is read, or repaired into what is read.
LEMMA LoneIsRead ==
  ASSUME reply \in Seq(AiTokens), LoneObject
  PROVE  ~Panics(reply) /\ IsJson(RepairJson(reply))
<1>1. DOMAIN reply = 1 .. Len(reply)
  OBVIOUS
<1>2. PICK i \in 1 .. Len(reply), k \in 1 .. Len(reply) :
        /\ i <= k /\ reply[i] = "brace" /\ IsJson(SubSeq(reply, i, k))
        /\ \A n \in 1 .. Len(reply) : n \notin i .. k => reply[n] \in Prose
  BY <1>1 DEF LoneObject
<1>. QED
  BY <1>2, LoneIsFound

\* What was read of a reply, whole or repaired, is an answer that was given.
LEMMA ReadIsSaid ==
  ASSUME NEW s \in Seq(AiTokens), NEW t, NEW a, NEW b, Part(t, s, a, b), IsJson(t)
  PROVE  /\ t \in Seq(AiTokens) /\ t # <<>>
         /\ \E i \in 1 .. Len(s), k \in 0 .. Len(s) : t = SubSeq(s, i, k)
<1>1. /\ a \in Nat \ {0} /\ b \in Nat /\ b <= Len(s) /\ a <= b + 1
      /\ t \in Seq(AiTokens) /\ Len(t) = b - a + 1 /\ Len(s) \in Nat
  BY DEF Part
<1>2. Len(t) >= 1
  BY <1>1, ObjectEnds
<1>3. a \in 1 .. Len(s) /\ b \in 0 .. Len(s)
  BY <1>1, <1>2
<1>4. t = SubSeq(s, a, b)
  BY PartIs
<1>5. t # <<>>
  BY <1>1, <1>2
<1>. QED
  BY <1>1, <1>3, <1>4, <1>5

LEMMA ParseReplyKeeps ==
  ASSUME AiInv, ParseReply
  PROVE  AiInv'
<1>1. /\ aiAt = "parse" /\ reply \in Seq(AiTokens) /\ aiTask.op \in Extractions /\ aiTask.op # "multiple"
      /\ UNCHANGED <<aiTask, reply, aiCalls, summarized, aiAnswer>>
  BY DEF ParseReply, AiInv, Extractions
<1>2. LoneObject' <=> LoneObject
  BY <1>1 DEF LoneObject
<1>3. SummariesAreCounted'
  BY <1>1 DEF SummariesAreCounted, AiInv
<1>4. CASE IsJson(reply)
  <2>1. aiData' = reply /\ aiAt' = "read"
    BY <1>4 DEF ParseReply
  <2>2. /\ reply # <<>>
        /\ \E i \in 1 .. Len(reply), k \in 0 .. Len(reply) : reply = SubSeq(reply, i, k)
    BY <1>1, <1>4, WholePart, ReadIsSaid
  <2>3. AnswersAreSaid'
    BY <1>1, <1>4, <2>1, <2>2 DEF AnswersAreSaid
  <2>. QED
    BY <1>1, <1>3, <2>1, <2>3 DEF AiInv
<1>5. CASE ~IsJson(reply) /\ Panics(reply)
  <2>1. aiAt' = "panic" /\ UNCHANGED aiData
    BY <1>5 DEF ParseReply
  <2>2. ~LoneObject
    BY <1>1, <1>5, LoneIsRead
  <2>3. \A i \in 1 .. Len(reply), k \in 1 .. Len(reply) :
          (reply[i] = "brace" /\ reply[k] = "end_brace") => k < i
    BY <1>1, <1>5, PanicMeans
  <2>4. DOMAIN reply = 1 .. Len(reply)
    BY <1>1
  <2>5. AnswersAreSaid'
    BY <1>1, <1>2, <2>1, <2>2, <2>3, <2>4 DEF AnswersAreSaid
  <2>. QED
    BY <1>1, <1>3, <2>1, <2>5 DEF AiInv
<1>6. CASE ~IsJson(reply) /\ ~Panics(reply) /\ IsJson(RepairJson(reply))
  <2>1. aiData' = RepairJson(reply) /\ aiAt' = "read"
    BY <1>6 DEF ParseReply
  <2>2. PICK a, b : Part(RepairJson(reply), reply, a, b)
    BY <1>1, <1>6, RepairIsPart
  <2>3. /\ aiData' \in Seq(AiTokens) /\ aiData' # <<>> /\ IsJson(aiData')
        /\ \E i \in 1 .. Len(reply), k \in 0 .. Len(reply) : aiData' = SubSeq(reply, i, k)
    BY <1>1, <1>6, <2>1, <2>2, ReadIsSaid
  <2>4. AnswersAreSaid'
    BY <1>1, <1>6, <2>1, <2>3 DEF AnswersAreSaid
  <2>. QED
    BY <1>1, <1>3, <2>1, <2>3, <2>4 DEF AiInv
<1>7. CASE ~IsJson(reply) /\ ~Panics(reply) /\ ~IsJson(RepairJson(reply))
  <2>1. aiAt' = "failed" /\ UNCHANGED aiData
    BY <1>7 DEF ParseReply
  <2>2. ~LoneObject
    BY <1>1, <1>7, LoneIsRead
  <2>3. AnswersAreSaid'
    BY <1>1, <1>2, <2>1, <2>2 DEF AnswersAreSaid
  <2>. QED
    BY <1>1, <1>3, <2>1, <2>3 DEF AiInv
<1>. QED
  BY <1>4, <1>5, <1>6, <1>7

LEMMA AiInvNext ==
  ASSUME AiInv, AiNext
  PROVE  AiInv'
<1>1. CASE ReadData \/ ReadValue \/ ReadList \/ ReadClass \/ ReadEntities \/ ReadText
  <2>1. aiAt \in {"read", "text"} /\ aiAt' \in {"answered", "failed"}
    BY <1>1 DEF ReadData, ReadValue, ReadList, ReadClass, ReadEntities, ReadText, AiAnswered, AiRefused
  <2>2. UNCHANGED <<aiTask, reply, aiData, aiCalls, summarized>>
    BY <1>1 DEF ReadData, ReadValue, ReadList, ReadClass, ReadEntities, ReadText, AiAnswered, AiRefused
  <2>. QED
    BY <2>1, <2>2, AnswerKeeps
<1>. QED
  BY <1>1, RefuseEmptyKeeps, SummarizeOneKeeps, NoLastCallKeeps, CutFailsKeeps, AskModelKeeps, ParseReplyKeeps
     DEF AiNext

LEMMA AiInvStays ==
  ASSUME AiInv, UNCHANGED aiVars
  PROVE  AiInv'
<1>1. LoneObject' <=> LoneObject
  BY DEF LoneObject, aiVars
<1>2. SummariesAreCounted' /\ AnswersAreSaid'
  BY <1>1 DEF AiInv, SummariesAreCounted, AnswersAreSaid, aiVars, AskedOf, ToldOf
<1>. QED
  BY <1>2 DEF AiInv, aiVars

=============================================================================
