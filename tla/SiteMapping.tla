---------------------------- MODULE SiteMapping ----------------------------
(***************************************************************************)
(* POST /map (map_url in bins/scrapix-api/src/lib.rs): lists the pages of  *)
(* a site.  It reads the sitemaps, or begins with the URL it was given,    *)
(* then fetches level after level, every page of a level at once, until it *)
(* has enough.  A wave that only fetches titles may go before each level.  *)
(*                                                                         *)
(* Abstractions.  Links are the same-domain page links as the code         *)
(* resolves them.  The URLs that were seen are those that were found, as   *)
(* both change together.  Reading the sitemaps is one step, because        *)
(* nothing is shared before it ends.  Fifty permits only delay fetches.    *)
(* What is paid for a mapping is in SyncRequests.                          *)
(***************************************************************************)
EXTENDS Naturals, Sequences, SequencesExt

CONSTANTS
  MapUrls,      \* page URLs of the site
  MapSeed,      \* the URL of the request
  PageLinks,    \* url -> sequence of links on its page
  Maps,         \* sitemaps
  RootMaps,     \* sequence of those that robots.txt names
  MapLists,     \* sitemap -> sequence of page URLs in it
  MapIndex,     \* sitemap -> sequence of sitemaps it refers to
  Preferred,    \* URLs of a priority above the default
  UrlMatches,   \* URLs that contain the search term
  TitleMatches, \* URLs whose title or description contains it
  MapsDepth,    \* SitemapConfig::max_depth
  MapLimits,    \* the limits and depths that are asked for
  MapDepths

ASSUME SiteMappingAssumption ==
  /\ MapSeed \in MapUrls
  /\ PageLinks \in [MapUrls -> Seq(MapUrls)]
  /\ RootMaps \in Seq(Maps)
  /\ MapLists \in [Maps -> Seq(MapUrls)] /\ MapIndex \in [Maps -> Seq(Maps)]
  /\ Preferred \subseteq MapUrls /\ UrlMatches \subseteq MapUrls /\ TitleMatches \subseteq MapUrls
  /\ MapsDepth \in Nat /\ MapLimits \subseteq Nat /\ MapDepths \subseteq Nat

VARIABLES
  mapping,   \* the request: its limit, depth and options
  mapAt,     \* where its handler is
  found,     \* results
  frontier,  \* the pages of the next level
  level,     \* current_depth
  waiting,   \* pages that are being fetched
  titled,    \* pages whose title is known
  late,      \* map_deadline has passed
  answer,    \* what was answered
  gaps       \* history: a fetch failed, or a level was cut down to the budget

mapVars == <<mapping, mapAt, found, frontier, level, waiting, titled, late, answer, gaps>>

MapRequest == [limit : MapLimits, depth : MapDepths, sitemap : BOOLEAN, titles : BOOLEAN,
               search : BOOLEAN]

MapInit ==
  /\ mapping \in MapRequest
  /\ mapAt = "start" /\ found = <<>> /\ frontier = <<>> /\ level = 0
  /\ waiting = {} /\ titled = {} /\ late = FALSE /\ answer = <<>> /\ gaps = FALSE

-----------------------------------------------------------------------------
(* Sequences of URLs                                                       *)

\* What a sequence has at some of its places, in order.
Picked(seq, places) ==
  LET kept[n \in 0..Len(seq)] ==
        IF n = 0 THEN <<>>
        ELSE IF n \in places THEN Append(kept[n - 1], seq[n]) ELSE kept[n - 1]
  IN  kept[Len(seq)]

Without(seq, urls) == Picked(seq, {i \in DOMAIN seq : seq[i] \notin urls})

Within(seq, urls) == Picked(seq, {i \in DOMAIN seq : seq[i] \in urls})

\* Each where it is first.
Distinct(seq) == Picked(seq, {i \in DOMAIN seq : \A j \in 1 .. i - 1 : seq[j] # seq[i]})

Prefix(seq, n) == SubSeq(seq, 1, IF n < Len(seq) THEN n ELSE Len(seq))

\* What a list of URLs adds to the results.
News_Mutant(urls) == Prefix(Distinct(urls), mapping.limit - Len(found))

News(urls) == Prefix(Distinct(Without(urls, ToSet(found))), mapping.limit - Len(found))

-----------------------------------------------------------------------------
(* Sitemaps                                                                *)

\* The URLs of a sitemap and of those below it, when the `broken' ones cannot
\* be read; an index that refers to itself ends at the depth limit.
Parsed(broken) ==
  LET urls[n \in 0 .. MapsDepth + 1] ==
        [m \in Maps |->
           IF n = 0 \/ m \in broken THEN <<>>
           ELSE MapLists[m] \o FlattenSeq([i \in DOMAIN MapIndex[m] |->
                                             urls[n - 1][MapIndex[m][i]]])]
  IN  urls[MapsDepth + 1]

\* Those of the site, those of higher priority first.
Discovered(broken) ==
  LET all == FlattenSeq([i \in DOMAIN RootMaps |-> Parsed(broken)[RootMaps[i]]])
  IN  Within(all, Preferred) \o Without(all, Preferred)

Seeded(urls) == IF urls = <<>> THEN <<MapSeed>> ELSE urls

\* Results are seeded with the URL itself if there is no sitemap.
ReadSitemaps ==
  /\ mapAt = "start"
  /\ \E broken \in IF mapping.sitemap THEN SUBSET Maps ELSE {Maps} :
       /\ found' = Seeded(News(Discovered(broken)))
       /\ gaps' = (mapping.sitemap /\ broken # {})
  /\ frontier' = found'
  /\ IF mapping.titles
     THEN mapAt' = "titles" /\ waiting' = ToSet(Prefix(found', mapping.limit))
     ELSE mapAt' = "level" /\ UNCHANGED waiting
  /\ UNCHANGED <<mapping, level, titled, late, answer>>

-----------------------------------------------------------------------------
(* Waves of fetches, which end in any order                                *)

\* After the deadline the next page that arrives ends the wave.
TitleArrives(u) ==
  /\ mapAt = "titles" /\ u \in waiting
  /\ waiting' = IF late THEN {} ELSE waiting \ {u}
  /\ \/ titled' = IF late THEN titled ELSE titled \cup {u}
     \/ titled' = titled
  /\ UNCHANGED <<mapping, mapAt, found, frontier, level, late, answer, gaps>>

TitlesEnd ==
  /\ mapAt = "titles" /\ waiting = {}
  /\ mapAt' = "level"
  /\ UNCHANGED <<mapping, found, frontier, level, waiting, titled, late, answer, gaps>>

StartLevel ==
  /\ mapAt = "level"
  /\ level < mapping.depth /\ frontier # <<>> /\ Len(found) < mapping.limit /\ ~late
  /\ LET budget == mapping.limit - Len(found)
     IN  /\ waiting' = ToSet(Prefix(frontier, budget))
         /\ gaps' = (gaps \/ Len(frontier) > budget)
  /\ level' = level + 1 /\ frontier' = <<>> /\ mapAt' = "links"
  /\ UNCHANGED <<mapping, found, titled, late, answer>>

\* As soon as there are enough results the others are not waited for.
LinksArrive(u) ==
  /\ mapAt = "links" /\ u \in waiting
  /\ LET new == News(PageLinks[u])
     IN  /\ found' = found \o new
         /\ frontier' = frontier \o new
         /\ waiting' = IF Len(found \o new) >= mapping.limit THEN {} ELSE waiting \ {u}
  /\ UNCHANGED <<mapping, mapAt, level, titled, late, answer, gaps>>

\* It times out or is no success.
PageFails(u) ==
  /\ mapAt = "links" /\ u \in waiting
  /\ waiting' = waiting \ {u} /\ gaps' = TRUE
  /\ UNCHANGED <<mapping, mapAt, found, frontier, level, titled, late, answer>>

LinksEnd ==
  /\ mapAt = "links" /\ waiting = {}
  /\ IF mapping.titles
     THEN mapAt' = "titles" /\ waiting' = ToSet(frontier)
     ELSE mapAt' = "level" /\ UNCHANGED waiting
  /\ UNCHANGED <<mapping, found, frontier, level, titled, late, answer, gaps>>

PassDeadline ==
  /\ mapAt \notin {"start", "answered", "gone"} /\ ~late
  /\ late' = TRUE
  /\ UNCHANGED <<mapping, mapAt, found, frontier, level, waiting, titled, answer, gaps>>

\* The links that match the search, those that match in their URL first.
Filtered(urls) ==
  IF mapping.search
  THEN Within(urls, UrlMatches) \o Within(urls, (TitleMatches \cap titled) \ UrlMatches)
  ELSE urls

AnswerMap ==
  /\ mapAt = "level"
  /\ level = mapping.depth \/ frontier = <<>> \/ Len(found) >= mapping.limit \/ late
  /\ answer' = Prefix(Filtered(found), mapping.limit)
  /\ mapAt' = "answered"
  /\ UNCHANGED <<mapping, found, frontier, level, waiting, titled, late, gaps>>

\* The client disconnects.
HangUp ==
  /\ mapAt \notin {"answered", "gone"}
  /\ mapAt' = "gone" /\ waiting' = {}
  /\ UNCHANGED <<mapping, found, frontier, level, titled, late, answer, gaps>>

MapNext ==
  \/ ReadSitemaps \/ TitlesEnd \/ StartLevel \/ LinksEnd \/ PassDeadline \/ AnswerMap \/ HangUp
  \/ \E u \in MapUrls : TitleArrives(u) \/ LinksArrive(u) \/ PageFails(u)

MapSpec == MapInit /\ [][MapNext]_mapVars

-----------------------------------------------------------------------------

MapTypeOK ==
  /\ mapping \in MapRequest
  /\ mapAt \in {"start", "titles", "level", "links", "answered", "gone"}
  /\ found \in Seq(MapUrls) /\ frontier \in Seq(MapUrls) /\ answer \in Seq(MapUrls)
  /\ level \in Nat /\ waiting \subseteq MapUrls /\ titled \subseteq MapUrls
  /\ late \in BOOLEAN /\ gaps \in BOOLEAN

\* The pages that a walk over links reaches in d steps from what the sitemaps
\* name, or from the seed if they name none.
Reached ==
  LET pages[d \in Nat] ==
        IF d = 0
        THEN ToSet(Seeded(IF mapping.sitemap THEN Discovered({}) ELSE <<>>))
        ELSE pages[d - 1] \cup UNION {ToSet(PageLinks[u]) : u \in pages[d - 1]}
  IN  pages

\* Whatever the order in which pages arrive, an answer has no page twice and no
\* more than the limit; if nothing failed, was late or had to be cut it has the
\* pages that are reachable within the depth, all of them unless the limit is
\* reached.  (map_url fetches a level at once, and cuts a level to the budget of
\* results although one page may give many.)
MapAnswerHolds ==
  mapAt = "answered" =>
    /\ IsInjective(answer) /\ Len(answer) <= mapping.limit
    /\ ~gaps => ToSet(answer) \subseteq Reached[mapping.depth]
    /\ ~gaps /\ ~late /\ Len(found) < mapping.limit =>
         LET matches == IF mapping.search THEN UrlMatches ELSE MapUrls
         IN  Reached[mapping.depth] \cap matches \subseteq ToSet(answer)

=============================================================================
