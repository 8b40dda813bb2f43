---------------------------- MODULE PageDocuments ----------------------------
(***************************************************************************)
(* What the content worker makes of a page: process_page and the handlers  *)
(* of markdown and PDF (bins/scrapix-worker-content/src/lib.rs).  The      *)
(* worker handles one page at a time; its batches and its offsets are      *)
(* those of ContentWorker; the cut of a page into blocks is the second     *)
(* part of this module.                                                    *)
(*                                                                         *)
(* A page has a type, whether it can be decoded and parsed, a text, and    *)
(* the anchors of its blocks, NoAnchor for a block without.  A document is *)
(* known by the URL of its page, and the anchor or the place of its block. *)
(*                                                                         *)
(* The second part is BlockSplitter, of scrapix-extractor/src/blocks.rs: a *)
(* page is cut at its headings into blocks, each with the headings it      *)
(* stands under.  A page is here the sequence of what the traversal of the *)
(* content root meets: headings, texts and elements that it skips with all *)
(* they contain (header, nav, form and others).  A heading's text is its   *)
(* place in the page, a text its size; 0 stands for the page's h1 outside  *)
(* the content root.                                                       *)
(***************************************************************************)
EXTENDS Naturals, FiniteSets, Sequences, FiniteSetsExt, SequencesExt

CONSTANTS
  PageInputs,    \* messages: url, type, decodes, parses, text, anchors, job
  FeaturesOf,    \* job -> features: split, ai, fields
  Detecting,     \* whether the worker looks for near duplicates
  Logging,       \* publish_history
  MaxTaken,      \* bound: pages
  MaxPageFaults, \* bound: unavailable storages, refused documents, failed sends
  NoText, NoAnchor

ASSUME DocumentsAssumption ==
  /\ Detecting \in BOOLEAN /\ Logging \in BOOLEAN /\ MaxTaken \in Nat /\ MaxPageFaults \in Nat
  /\ \A m \in PageInputs : /\ m.type \in {"html", "markdown", "pdf", "other"}
                          /\ Len(m.anchors) \in Nat /\ DOMAIN m.anchors = 1..Len(m.anchors)

VARIABLES
  taken,       \* the pages handled, in order
  counts,      \* the worker's metrics
  detected,    \* texts the detector has, with the page it saw first
  indexDocs,   \* documents of the index: page, part, job, fields
  settings,    \* job whose features the index is set up for, NoText before
  pageEvents,  \* per page handled, what was published of it
  pageFaults

documentVars == <<taken, counts, detected, indexDocs, settings, pageEvents, pageFaults>>

Outcomes == {"skipped", "failed", "duplicate", "success", "indexed"}

DocumentsInit ==
  /\ taken = <<>> /\ counts = [o \in Outcomes |-> 0] /\ detected = {} /\ indexDocs = {}
  /\ settings = [tried |-> FALSE, job |-> NoText] /\ pageEvents = <<>> /\ pageFaults = 0

Features(m) == FeaturesOf[m.job]

Counted(outcome, n) == counts' = [counts EXCEPT ![outcome] = @ + n]

\* A page is taken, with n faults while it is handled.
TakePage(m, n) ==
  /\ Len(taken) < MaxTaken /\ taken' = Append(taken, m)
  /\ pageFaults + n <= MaxPageFaults /\ pageFaults' = pageFaults + n

\* publish_event may fail.
PublishOf(event, sent) == pageEvents' = Append(pageEvents, IF sent THEN {event} ELSE {})

Lost(sent) == IF sent THEN 0 ELSE 1

\* The index is set up once, by the first page; not again if there was no
\* storage at that time.
SetUp(m, available) ==
  settings' = IF settings.tried THEN settings
              ELSE [tried |-> TRUE, job |-> IF available THEN m.job ELSE NoText]

\* An HTML page sets the index up before its text is looked at, markdown after.
SetUpIfHtml(m, available) ==
  IF m.type = "html" THEN SetUp(m, available) ELSE UNCHANGED settings

SkipOther(m) ==
  /\ m.type = "other" /\ TakePage(m, 0) /\ Counted("skipped", 1)
  /\ pageEvents' = Append(pageEvents, {})
  /\ UNCHANGED <<detected, indexDocs, settings>>

\* The PDF did not survive its transport: nothing counts it.
RefuseUndecodable(m) ==
  /\ m.type = "pdf" /\ ~m.decodes /\ TakePage(m, 0) /\ pageEvents' = Append(pageEvents, {})
  /\ UNCHANGED <<counts, detected, indexDocs, settings>>

FailUnparsed(m) ==
  /\ m.type # "other" /\ (m.type = "pdf" => m.decodes) /\ ~m.parses
  /\ \E sent \in BOOLEAN : TakePage(m, Lost(sent)) /\ PublishOf("PageFailed", sent)
  /\ Counted("failed", 1)
  /\ UNCHANGED <<detected, indexDocs, settings>>

Readable(m) == m.parses /\ m.type # "other" /\ (m.type = "pdf" => m.decodes)

\* A PDF without text is indexed all the same.
SkipEmpty(m) ==
  /\ Readable(m) /\ m.type # "pdf" /\ m.text = NoText
  /\ \E available \in BOOLEAN : TakePage(m, Lost(available)) /\ SetUpIfHtml(m, available)
  /\ Counted("skipped", 1) /\ pageEvents' = Append(pageEvents, {})
  /\ UNCHANGED <<detected, indexDocs>>

\* check_and_add: a text that the detector does not have it has from now on.
Looks(m) == Detecting /\ m.type # "pdf"

SeenBefore(m) == \E seen \in detected : seen.text = m.text

SkipDuplicate(m) ==
  /\ Readable(m) /\ m.text # NoText /\ Looks(m) /\ SeenBefore(m)
  /\ \E available, sent \in BOOLEAN :
       /\ TakePage(m, Lost(available) + Lost(sent)) /\ SetUpIfHtml(m, available)
       /\ PublishOf("PageSkipped", sent)
  /\ Counted("duplicate", 1)
  /\ UNCHANGED <<detected, indexDocs>>

\* filter_document, the custom selectors and enrich_with_ai: a whole page has
\* what its job asks for, a summary only if the model answered.
WholeDocument(m, answered) ==
  [url |-> m.url, part |-> NoAnchor, job |-> m.job,
   fields |-> (Features(m).fields \ (IF m.type = "html" THEN {} ELSE {"custom"}))
                \cup (IF Features(m).ai /\ answered THEN {"ai"} ELSE {})]

\* create_block_document: the metadata of the page, and nothing else of it.
BlockDocument(m, i) ==
  [url |-> m.url, part |-> IF m.anchors[i] = NoAnchor THEN i - 1 ELSE m.anchors[i], job |-> m.job,
   fields |-> Features(m).fields \cap {"metadata"}]

Cut(m) == m.type = "html" /\ Features(m).split

\* A page without blocks is indexed as a whole, and is not shown to the model.
DocumentsOf(m, answered) ==
  IF Cut(m) /\ Len(m.anchors) > 0 THEN [i \in DOMAIN m.anchors |-> BlockDocument(m, i)]
  ELSE <<WholeDocument(m, answered /\ ~Cut(m))>>

\* add_document: the document replaces the one of the same URL and part.
Added_UrlMutant(docs, doc) == {d \in docs : d.url # doc.url} \cup {doc}

Added(docs, doc) == {d \in docs : d.url # doc.url \/ d.part # doc.part} \cup {doc}

\* The index once it has taken those of the documents that it accepts, in order.
Upserted(docs, accepted) ==
  LET index[i \in 0..Len(docs)] ==
        IF i = 0 THEN indexDocs
        ELSE IF i \in accepted THEN Added(index[i - 1], docs[i]) ELSE index[i - 1]
  IN  index[Len(docs)]

\* index_single_document and the loop over the blocks.  What storage refuses is
\* passed over; the event tells that at least one document was accepted, and the
\* history, of HTML pages only, follows unless the event fails.
IndexPage(m) ==
  /\ detected' = IF Looks(m) THEN detected \cup {[text |-> m.text, url |-> m.url]} ELSE detected
  /\ \E answered, available, sent, noted \in BOOLEAN :
       LET docs == DocumentsOf(m, answered)
       IN  \E accepted \in SUBSET DOMAIN docs :
             /\ (~available => accepted = {}) /\ (accepted = {} => sent)
             /\ noted => sent /\ Logging /\ m.type = "html"
             /\ TakePage(m, Lost(sent) + IF available THEN Len(docs) - Cardinality(accepted)
                                       ELSE 1)
             /\ SetUp(m, available)
             /\ indexDocs' = Upserted(docs, accepted)
             /\ counts' = [counts EXCEPT !.success = @ + 1, !.indexed = @ + Cardinality(accepted)]
             /\ pageEvents' = Append(pageEvents,
                  (IF accepted # {} /\ sent THEN {"DocumentIndexed"} ELSE {})
                    \cup (IF noted THEN {"history"} ELSE {}))

HasNewText(m) == m.text # NoText /\ (Looks(m) => ~SeenBefore(m))

IndexHtml(m) == m.type = "html" /\ m.parses /\ HasNewText(m) /\ IndexPage(m)

IndexMarkdown(m) == m.type = "markdown" /\ m.parses /\ HasNewText(m) /\ IndexPage(m)

IndexPdf(m) == m.type = "pdf" /\ m.decodes /\ m.parses /\ IndexPage(m)

DocumentsNext ==
  \E m \in PageInputs :
    \/ SkipOther(m) \/ RefuseUndecodable(m) \/ FailUnparsed(m) \/ SkipEmpty(m)
    \/ SkipDuplicate(m) \/ IndexHtml(m) \/ IndexMarkdown(m) \/ IndexPdf(m)

-----------------------------------------------------------------------------
DocumentsTypeOK ==
  /\ taken \in Seq(PageInputs) /\ counts \in [Outcomes -> Nat]
  /\ Len(pageEvents) = Len(taken) /\ pageFaults \in 0..MaxPageFaults

DocsOf(m) == {d \in indexDocs : d.url = m.url}

PartsOf(m) ==
  IF Cut(m) /\ m.anchors # <<>>
  THEN {IF m.anchors[i] = NoAnchor THEN i - 1 ELSE m.anchors[i] : i \in DOMAIN m.anchors}
  ELSE {NoAnchor}

\* Whatever came before it, a page that has a text becomes documents, one for
\* each of its blocks that are told apart, or is reported as a duplicate of a
\* page that did, but for what storage and bus failed to take; a page reported
\* as indexed has a document; a document has no field its job did not ask for;
\* and every page is counted once, except a PDF that cannot be decoded.
\* (process_page: three handlers with the same steps in different orders.)
PagesBecomeDocuments ==
  /\ \A k \in DOMAIN taken :
       LET m == taken[k]
       IN  /\ Readable(m) /\ m.text # NoText /\ pageFaults = 0 =>
                \/ PartsOf(m) \subseteq {d.part : d \in DocsOf(m)}
                \/ "PageSkipped" \in pageEvents[k]
           /\ "PageSkipped" \in pageEvents[k] =>
                \E e \in 1..(k - 1) : /\ Readable(taken[e]) /\ taken[e].text = m.text
                                      /\ DocsOf(taken[e]) # {} \/ pageFaults > 0
           /\ "DocumentIndexed" \in pageEvents[k] => DocsOf(m) # {}
  /\ \A d \in indexDocs :
       /\ d.fields \subseteq FeaturesOf[d.job].fields
                             \cup (IF FeaturesOf[d.job].ai THEN {"ai"} ELSE {})
       /\ \E m \in Range(taken) : d.url = m.url /\ d.job = m.job
  /\ Len(taken) = counts.skipped + counts.failed + counts.duplicate + counts.success
                    + Cardinality({k \in DOMAIN taken : taken[k].type = "pdf" /\ ~taken[k].decodes})

-----------------------------------------------------------------------------
(* Blocks                                                                  *)

CONSTANTS PageNodes,     \* what a page may consist of
          PageLength,    \* bound: nodes of a page
          MinLevel, MaxLevel,
          MinContent,    \* min_content_length
          BlockLimits,   \* max_blocks, 0 for none
          NoHead, Unanchored

Levels == 1..6

ASSUME BlockAssumption ==
  /\ NoHead \notin Nat /\ MinLevel \in Levels /\ MaxLevel \in Levels /\ MinContent \in Nat
  /\ BlockLimits \subseteq Nat /\ PageLength \in Nat
  /\ \A n \in PageNodes : /\ n.kind \in {"heading", "text", "skipped"}
                          /\ n.level \in Levels /\ n.size \in Nat

VARIABLES
  page, outerH1,   \* the content root, and whether an h1 stands outside it
  maxBlocks,
  traversed,       \* nodes traversed
  pageBlocks,      \* blocks
  current,         \* current_block
  hierarchy,
  split            \* the answer, NoHead before it

blockVars == <<page, outerH1, maxBlocks, traversed, pageBlocks, current, hierarchy, split>>

NoHeads == [l \in Levels |-> NoHead]

\* find_content_root, find_document_h1: an h1 inside the root is left to the
\* traversal, also one in an element that the traversal skips.
BlocksInit ==
  /\ page \in BoundedSeq(PageNodes, PageLength) /\ outerH1 \in BOOLEAN
  /\ maxBlocks \in BlockLimits /\ traversed = 0 /\ pageBlocks = <<>> /\ split = NoHead
  /\ hierarchy = [NoHeads EXCEPT ![1] = IF outerH1 THEN 0 ELSE NoHead]
  /\ current = [start |-> 0, anchor |-> Unanchored, content |-> <<>>, heads |-> hierarchy]

\* HeadingHierarchy::set
Under_KeepsMutant(heads, level, i) == [heads EXCEPT ![level] = i]

Under(heads, level, i) ==
  [l \in Levels |-> IF l = level THEN i ELSE IF l > level THEN NoHead ELSE heads[l]]

WithH1(block, i) == [block EXCEPT !.heads[1] = IF @ = NoHead THEN i ELSE @]

WithText(block, i) == [block EXCEPT !.content = Append(@, i)]

Splits(level) == level \in MinLevel..MaxLevel

\* A heading outside the levels that split is text of the block as well.
VisitHeading(i) ==
  LET level == page[i].level
      before == IF level = 1 THEN WithH1(current, i) ELSE current
  IN  /\ page[i].kind = "heading"
      /\ hierarchy' = Under(hierarchy, level, i)
      /\ IF Splits(level)
         THEN /\ pageBlocks' = Append(pageBlocks, before)
              /\ current' = [start |-> i, anchor |-> page[i].anchor, content |-> <<>>,
                             heads |-> hierarchy']
         ELSE current' = WithText(before, i) /\ UNCHANGED pageBlocks

VisitText(i) ==
  /\ page[i].kind = "text" /\ current' = WithText(current, i)
  /\ UNCHANGED <<pageBlocks, hierarchy>>

SkipElement(i) == page[i].kind = "skipped" /\ UNCHANGED <<pageBlocks, current, hierarchy>>

\* traverse_element
VisitNode ==
  /\ traversed < Len(page) /\ traversed' = traversed + 1
  /\ VisitHeading(traversed') \/ VisitText(traversed') \/ SkipElement(traversed')
  /\ UNCHANGED <<page, outerH1, maxBlocks, split>>

\* Texts are joined by a blank.
SizeOf(content) ==
  IF content = <<>> THEN 0
  ELSE Len(content) - 1
         + SumFunctionOnSet([k \in DOMAIN content |-> page[content[k]].size], DOMAIN content)

HasContent(block) == SizeOf(block.content) >= MinContent

\* The blocks that are long enough, in order; has_content(0) holds of every block.
LongOf(blocks) ==
  LET long[i \in 0..Len(blocks)] ==
        IF i = 0 THEN <<>>
        ELSE IF HasContent(blocks[i]) THEN Append(long[i - 1], blocks[i]) ELSE long[i - 1]
  IN  long[Len(blocks)]

\* split_from_dom
EndSplit ==
  /\ traversed = Len(page) /\ split = NoHead
  /\ LET long == LongOf(Append(pageBlocks, current))
         kept == IF maxBlocks > 0 /\ Len(long) > maxBlocks THEN SubSeq(long, 1, maxBlocks)
                 ELSE long
     IN  split' = [blocks |-> kept, truncated |-> maxBlocks > 0 /\ Len(kept) >= maxBlocks]
  /\ UNCHANGED <<page, outerH1, maxBlocks, traversed, pageBlocks, current, hierarchy>>

BlocksNext == VisitNode \/ EndSplit

-----------------------------------------------------------------------------
BlocksTypeOK ==
  /\ traversed \in 0..Len(page) /\ Len(pageBlocks) <= traversed
  /\ \A l \in Levels : hierarchy[l] \in Nat \cup {NoHead}

Headings == {i \in DOMAIN page : page[i].kind = "heading"}

Cuts == {i \in Headings : Splits(page[i].level)}

\* Where a block ends that starts at i (0: before the first heading that cuts).
EndOf(i) == Min({Len(page) + 1} \cup {c \in Cuts : c > i})

TextsFrom(i) ==
  {k \in DOMAIN page : /\ i < k /\ k < EndOf(i)
                       /\ page[k].kind = "text" \/ k \in Headings \ Cuts}

\* The heading of a level that place i stands under: the last one up to i that
\* no heading of a higher rank follows.
HeadAt(i, level) ==
  LET heads == {h \in Headings : h <= i /\ page[h].level = level}
      last == Max(heads)
      hidden == {h \in Headings : h <= i /\ page[h].level < level}
  IN  IF heads # {} THEN IF \E h \in hidden : h > last THEN NoHead ELSE last
      ELSE IF level = 1 /\ outerH1 THEN 0 ELSE NoHead

\* An h1 that comes later in a block without one is taken for it.
LateH1(i) ==
  LET later == {h \in Headings : h > i /\ h <= Min({Len(page), EndOf(i)}) /\ page[h].level = 1}
  IN  IF later = {} THEN NoHead ELSE Min(later)

\* The texts from i on, joined by blanks, are long enough for a block.
LongFrom(i) ==
  LET texts == TextsFrom(i)
  IN  (IF texts = {} THEN 0
       ELSE Cardinality(texts) - 1 + SumFunctionOnSet([k \in texts |-> page[k].size], texts))
        >= MinContent

\* s is the list of S in increasing order.
Lists(s, S) == ToSet(s) = S /\ \A i, j \in DOMAIN s : i < j => s[i] < s[j]

\* The blocks are the page: cut at exactly its headings of the levels that
\* split, each text in the block of the heading before it and under the headings
\* it stands under there, and only short blocks and those past the limit are
\* missing.  (blocks.rs: the block and the hierarchy are carried through a
\* recursive traversal that also skips and nests.)
BlocksAreThePage ==
  split # NoHead =>
    LET starts == {0} \cup Cuts
        long == {i \in starts : LongFrom(i)}
        wanted == IF maxBlocks = 0 THEN long
                  ELSE {i \in long : Cardinality({k \in long : k < i}) < maxBlocks}
    IN  /\ Lists([k \in DOMAIN split.blocks |-> split.blocks[k].start], wanted)
        /\ \A k \in DOMAIN split.blocks :
             LET block == split.blocks[k]
             IN  /\ Lists(block.content, TextsFrom(block.start))
                 /\ \A l \in Levels \ {1} :
                      block.start > 0 => block.heads[l] = HeadAt(block.start, l)
                 /\ block.heads[1] = IF HeadAt(block.start, 1) # NoHead THEN HeadAt(block.start, 1)
                                     ELSE LateH1(block.start)
        /\ wanted # long => split.truncated

=============================================================================
