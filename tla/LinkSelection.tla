---------------------------- MODULE LinkSelection ----------------------------
(***************************************************************************)
(* Which links of a page a crawl follows: UrlExtractor of                  *)
(* crates/scrapix-crawler/src/extractor.rs, as the crawler worker uses it  *)
(* for one chain of pages.  A page may have been redirected, and the       *)
(* links are judged by the host that answered.                             *)
(*                                                                         *)
(* Abstractions.  A host is the sequence of its labels, a path that of its *)
(* segments.  A reference is a URL with what normalisation drops, and a    *)
(* host, or `SameHost' when it has none.  A glob pattern and the text that *)
(* it is matched with are sequences of words, where the code has           *)
(* characters.  Anchor texts are left out.                                 *)
(***************************************************************************)
EXTENDS Integers, FiniteSets, Sequences, SequencesExt

CONSTANTS
  LinkSettings, \* [maxDepth, external, subdomains, allowed, exclude, include]
  References,   \* what an href may be
  HostNames,    \* hosts that may answer
  NonPages,     \* last segments with the extension of an image, a script, ...
  SameHost

ASSUME LinkSelectionAssumption ==
  /\ HostNames \subseteq Seq(STRING)
  /\ References \subseteq [kind : STRING, scheme : STRING, host : Seq(STRING) \cup {SameHost},
                           path : Seq(STRING), dropped : STRING]
  /\ LinkSettings \subseteq [maxDepth : Nat, external : BOOLEAN, subdomains : BOOLEAN,
                             allowed : SUBSET Seq(STRING), exclude : SUBSET Seq(STRING),
                             include : SUBSET Seq(STRING)]

VARIABLES
  linkRule,  \* the settings of the job
  seedHost,  \* the host of its start URL
  hostNow,   \* the host of the page at hand
  hops,      \* the depth of the page at hand
  hrefs,     \* its references, resolved, <<>> before it is fetched
  chosen,    \* the links taken from it
  strayed    \* history: a redirect led to a host that no link may lead to

linkVars == <<linkRule, seedHost, hostNow, hops, hrefs, chosen, strayed>>

LinksInit ==
  /\ linkRule \in LinkSettings
  /\ seedHost \in HostNames /\ hostNow = seedHost
  /\ hops = 0 /\ hrefs = <<>> /\ chosen = <<>> /\ strayed = FALSE

----------------------------------------------------------------------------
(* The filters.                                                            *)

\* normalize_domain: without "www.".
BareHost(host) == IF Len(host) > 1 /\ Head(host) = "www" THEN Tail(host) ELSE host

\* A subdomain of its parent is allowed as well.
IsAllowedHost_BothWaysMutant(host, base) ==
  IF linkRule.allowed # {} THEN BareHost(host) \in {BareHost(a) : a \in linkRule.allowed}
  ELSE \/ BareHost(host) = BareHost(base)
       \/ linkRule.subdomains
            /\ \/ IsSuffix(BareHost(base), BareHost(host))
               \/ IsSuffix(BareHost(host), BareHost(base))
       \/ linkRule.external

\* is_allowed_domain.
IsAllowedHost(host, base) ==
  IF linkRule.allowed # {} THEN BareHost(host) \in {BareHost(a) : a \in linkRule.allowed}
  ELSE \/ BareHost(host) = BareHost(base)
       \/ linkRule.subdomains /\ IsSuffix(BareHost(base), BareHost(host))
       \/ linkRule.external

\* base_url.join.
Resolved(ref) == IF ref.host = SameHost THEN [ref EXCEPT !.host = hostNow] ELSE ref

\* normalize_url: the fragment, the query and a trailing slash go.
Normal(ref) == [scheme |-> ref.scheme, host |-> ref.host, path |-> ref.path]

\* The text of a normal URL.
UrlText(url) ==
  <<url.scheme, "/", "/">> \o url.host
    \o (IF url.path = <<>> THEN <<"/">>
        ELSE [k \in 1 .. 2 * Len(url.path) |-> IF k % 2 = 1 THEN "/" ELSE url.path[k \div 2]])

\* Where a piece is found first in the words after the first n; 0 where it is not.
FoundAt(piece, text, n) ==
  LET hits == {k \in n + 1 .. Len(text) - Len(piece) + 1 :
                 SubSeq(text, k, k + Len(piece) - 1) = piece}
  IN  IF hits = {} THEN 0 ELSE Min(hits)

Stars == {"*", "**"}

\* The piece of a pattern between the last star before a place and that place.
PieceBefore(glob, n) ==
  SubSeq(glob, Max({0} \cup {k \in 1 .. n - 1 : glob[k] \in Stars}) + 1, n - 1)

\* Where a piece ends that is found first after `start', with no slash between unless
\* `anySlash'; -1 if it does not follow.
PieceEnd(piece, text, start, anySlash) ==
  LET place == FoundAt(piece, text, start)
  IN  CASE start = -1 \/ piece = <<>> -> start
        [] start # -1 /\ piece # <<>> /\ place = 0 -> -1
        [] OTHER -> IF anySlash \/ ~Contains(SubSeq(text, start + 1, place - 1), "/")
                    THEN place + Len(piece) - 1 ELSE -1

\* Whether the pieces of a pattern follow one another in a text.
InOrder(glob, text, anySlash) ==
  LET After[n \in 0 .. Len(glob) + 1] ==  \* where the pieces end that end before place n
        IF n = 0 THEN 0
        ELSE IF n <= Len(glob) /\ glob[n] \notin Stars THEN After[n - 1]
        ELSE PieceEnd(PieceBefore(glob, n), text, After[n - 1], anySlash)
  IN  After[Len(glob) + 1] # -1

Doubles(glob) == {k \in DOMAIN glob : glob[k] = "**"}

\* matches_glob.
MatchesGlob(text, glob) ==
  IF Cardinality(Doubles(glob)) = 1
  THEN \A k \in Doubles(glob) : /\ IsPrefix(SubSeq(glob, 1, k - 1), text)
                                /\ IsSuffix(SubSeq(glob, k + 1, Len(glob)), text)
  ELSE IF Contains(glob, "*") \/ Doubles(glob) # {}
  THEN InOrder(glob, text, Doubles(glob) # {})
  ELSE text = glob

\* matches_patterns that looks at the included ones first.
MatchesPatterns_IncludeFirstMutant(text) ==
  \/ \E g \in linkRule.include : MatchesGlob(text, g)
  \/ linkRule.include = {} /\ \A g \in linkRule.exclude : ~MatchesGlob(text, g)

\* matches_patterns.
MatchesPatterns(text) ==
  /\ \A g \in linkRule.exclude : ~MatchesGlob(text, g)
  /\ linkRule.include = {} \/ \E g \in linkRule.include : MatchesGlob(text, g)

\* is_non_page_url.
IsNonPage(url) == url.path # <<>> /\ Last(url.path) \in NonPages

\* resolve_and_filter, but for what was seen: whether a reference is a link.
Passes(ref) ==
  /\ ref.kind = "web" /\ ref.scheme \in {"http", "https"}
  /\ ~IsNonPage(Normal(ref)) /\ IsAllowedHost(ref.host, hostNow)
  /\ MatchesPatterns(UrlText(Normal(ref)))

\* process_href.
TakeHref(links, ref) ==
  IF Passes(ref) /\ ~\E i \in DOMAIN links : links[i].url = Normal(ref)
  THEN Append(links, [url |-> Normal(ref), depth |-> hops + 1])
  ELSE links

\* extract.
Extract(refs) ==
  LET links[n \in 0 .. Len(refs)] == IF n = 0 THEN <<>> ELSE TakeHref(links[n - 1], refs[n])
  IN  IF hops >= linkRule.maxDepth THEN <<>> ELSE links[Len(refs)]

----------------------------------------------------------------------------
(* The chain of pages.                                                     *)

\* The page is fetched: `final_url' may have another host than the link had.
FetchPage ==
  /\ hrefs = <<>> /\ chosen = <<>>
  /\ \E answering \in {hostNow} \cup HostNames :
       /\ strayed' = (strayed \/ ~IsAllowedHost(answering, hostNow))
       /\ hostNow' = answering
  /\ \E first, second \in References : hrefs' = <<first, second>>
  /\ UNCHANGED <<linkRule, seedHost, hops, chosen>>

\* Its links are taken; a page with none ends the chain.
TakeLinks ==
  /\ hrefs # <<>> /\ chosen = <<>>
  /\ chosen' = Extract([i \in DOMAIN hrefs |-> Resolved(hrefs[i])])
  /\ chosen' # <<>>
  /\ UNCHANGED <<linkRule, seedHost, hostNow, hops, hrefs, strayed>>

\* One of them is crawled.
FollowLink ==
  /\ \E i \in DOMAIN chosen : hostNow' = chosen[i].url.host /\ hops' = chosen[i].depth
  /\ hrefs' = <<>> /\ chosen' = <<>>
  /\ UNCHANGED <<linkRule, seedHost, strayed>>

LinksNext == FetchPage \/ TakeLinks \/ FollowLink

LinksSpec == LinksInit /\ [][LinksNext]_linkVars

----------------------------------------------------------------------------
(* Properties.                                                             *)

\* What a pattern means: "*" stands for words other than a slash, "**" for any.
GlobMeans(text, glob) ==
  LET Reach[n \in 0..Len(glob)] ==
        IF n = 0 THEN {0}
        ELSE LET before == Reach[n - 1]
             IN  CASE glob[n] = "**" -> {k \in 0..Len(text) : \E l \in before : l <= k}
                   [] glob[n] = "*" -> {k \in 0..Len(text) : \E l \in before :
                                          l <= k /\ ~Contains(SubSeq(text, l + 1, k), "/")}
                   [] OTHER -> {k \in 1..Len(text) : k - 1 \in before /\ text[k] = glob[n]}
  IN Len(text) \in Reach[Len(glob)]

\* With one double star a single star beside it is taken literally.
Mixed(glob) == Contains(glob, "*") /\ Contains(glob, "**")

\* No chain of links leads out of the domains of the start URL, however long, unless a
\* redirect left them, or out of the list of domains whatever was redirected; no link
\* is taken twice, is deeper than the limit or is of a kind that is excluded.
LinksStayInside ==
  \A i \in DOMAIN chosen :
    LET link == chosen[i]
    IN  /\ IF linkRule.allowed # {}
           THEN \E a \in linkRule.allowed : BareHost(link.url.host) = BareHost(a)
           ELSE ~linkRule.external /\ ~strayed =>
                  IsSuffix(BareHost(seedHost), BareHost(link.url.host))
        /\ link.depth <= linkRule.maxDepth
        /\ \A k \in DOMAIN chosen : k # i => chosen[k].url # link.url
        /\ \A g \in linkRule.exclude :
             GlobMeans(UrlText(link.url), g) => Mixed(g)

\* Every reference to a page of the host itself that an included pattern means and no
\* excluded pattern matches is among the links.
NoLinkIsMissed ==
  chosen # <<>> =>
    \A i \in DOMAIN hrefs :
      LET ref  == Resolved(hrefs[i])
          text == UrlText(Normal(ref))
      IN  /\ ref.kind = "web" /\ ref.scheme \in {"http", "https"} /\ ref.host = hostNow
          /\ linkRule.allowed = {} /\ ~IsNonPage(Normal(ref))
          /\ \A g \in linkRule.exclude : ~MatchesGlob(text, g)
          /\ linkRule.include = {} \/ \E g \in linkRule.include : GlobMeans(text, g) /\ ~Mixed(g)
          => \E k \in DOMAIN chosen : chosen[k].url = Normal(ref)

=============================================================================
