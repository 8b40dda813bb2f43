----------------------------- MODULE MCHandlers -----------------------------
(***************************************************************************)
(* Handlers that share nothing but their program, and that owe their       *)
(* callers no more than a right answer: those of the API server for        *)
(* accounts and for the requests that it answers itself, the crawl of the  *)
(* command line, what the frontier remembers across jobs, and what the     *)
(* content worker makes of one page.  Each behaviour is one of one part,   *)
(* the others keep their initial states.                                   *)
(***************************************************************************)
EXTENDS Teams, OAuthTokens, Credentials, RateLimiter, StripePayments, Access, SignIn,
        SiteMapping, LocalCrawl, SyncRequests, FrontierMemory,
        PageDocuments, AiAnswers, LinkSelection, CliLogins

CONSTANTS ma, mb, mc, md, s0, s1, s2, an, j1, j2, w1, w2

\* A cycle of pages with a repeated link and one page two levels down.
MCPageLinks == [u \in {ma, mb, mc, md} |->
  CASE u = ma -> <<mb, mb, mc>> [] u = mb -> <<md, ma>> [] u = mc -> <<md>> [] u = md -> <<mc>>]

\* An index that refers to itself, and a sitemap that repeats another's page.
MCRootMaps == <<s0, s2>>
MCMapLists == [m \in {s0, s1, s2} |->
  CASE m = s0 -> <<>> [] m = s1 -> <<mb>> [] m = s2 -> <<ma, mb>>]
MCMapIndex == [m \in {s0, s1, s2} |-> IF m = s0 THEN <<s1, s0>> ELSE <<>>]

MCLinksOf == [u \in {ma, mb, mc, md} |-> ToSet(MCPageLinks[u])]

MCBasePrice == [kind \in {"scrape", "search", "map"} |-> IF kind = "scrape" THEN 0 ELSE 2]

\* Pages for documents: u1 has two texts, one with two blocks of one anchor;
\* u2 is of any type, and can fail in each way.
MCPageInput(url, type, decodes, parses, text, anchors, job) ==
  [url |-> url, type |-> type, decodes |-> decodes, parses |-> parses, text |-> text,
   anchors |-> anchors, job |-> job]
MCPageInputs ==
  {MCPageInput(ma, "html", TRUE, TRUE, w1, <<NoAnchor, an>>, j1),
   MCPageInput(ma, "html", TRUE, TRUE, w2, <<an, an>>, j1),
   MCPageInput(mb, "html", TRUE, TRUE, w1, <<NoAnchor>>, j2),
   MCPageInput(mb, "html", TRUE, TRUE, w2, <<>>, j1),
   MCPageInput(mb, "html", TRUE, FALSE, w2, <<>>, j1),
   MCPageInput(mb, "html", TRUE, TRUE, NoText, <<>>, j1),
   MCPageInput(mb, "markdown", TRUE, TRUE, w1, <<>>, j2),
   MCPageInput(ma, "markdown", TRUE, TRUE, w2, <<>>, j1),
   MCPageInput(ma, "pdf", TRUE, TRUE, w1, <<>>, j2),
   MCPageInput(ma, "pdf", FALSE, TRUE, w1, <<>>, j2),
   MCPageInput(mb, "pdf", TRUE, TRUE, NoText, <<>>, j2),
   MCPageInput(mb, "other", TRUE, TRUE, NoText, <<>>, j2)}
MCFeatures == [j \in {j1, j2} |->
  IF j = j1 THEN [split |-> TRUE, ai |-> TRUE, fields |-> {"metadata", "custom"}]
  ELSE [split |-> FALSE, ai |-> TRUE, fields |-> {"markdown"}]]

\* Headings of every level next to those that cut, one with an anchor; a text
\* that is too short for a block and one that is not.
MCNode(kind, l, anchor, size) ==
  [kind |-> kind, level |-> l, anchor |-> anchor, size |-> size]
MCPageNodes ==
  {MCNode("text", 1, Unanchored, 1), MCNode("text", 1, Unanchored, 3),
   MCNode("skipped", 1, Unanchored, 3), MCNode("heading", 2, an, 1)}
    \cup {MCNode("heading", l, Unanchored, 1) : l \in 1..4}

\* Up to four brackets or values, bare, between fences or between words.
MCReplies ==
  {ends[1] \o s \o ends[2] : ends \in {<< <<>>, <<>> >>, <<<<"words">>, <<"words">>>>,
                                      <<<<"json_fence">>, <<"fence">>>>},
                             s \in BoundedSeq(AiTokens \ {"words", "json_fence", "fence"}, 4)}
MCDocTexts == BoundedSeq({"empty", "uncut", "answered", "failed"}, 3)

MCHosts ==
  {<<"x", "com">>, <<"www", "x", "com">>, <<"blog", "x", "com">>, <<"com">>, <<"y", "net">>}

\* A page, one below it, one of another host, a repetition that differs in what is
\* dropped, a style sheet, what is not a page.
MCReference(kind, scheme, host, path, dropped) ==
  [kind |-> kind, scheme |-> scheme, host |-> host, path |-> path, dropped |-> dropped]
MCReferences ==
  {MCReference("web", "https", host, <<"a">>, "") : host \in MCHosts \cup {SameHost}}
    \cup {MCReference("web", "https", SameHost, <<"a">>, "query"),
          MCReference("web", "https", SameHost, <<"a", "b">>, ""),
          MCReference("web", "https", SameHost, <<"style">>, "query"),
          MCReference("web", "ftp", SameHost, <<"a">>, ""),
          MCReference("script", "https", SameHost, <<"a">>, "")}

MCLinkSetting(external, subdomains, allowed, exclude, include) ==
  [maxDepth |-> 2, external |-> external, subdomains |-> subdomains, allowed |-> allowed,
   exclude |-> exclude, include |-> include]
MCLinkSettings ==
  {MCLinkSetting(FALSE, TRUE, {}, {}, {}), MCLinkSetting(FALSE, FALSE, {}, {}, {}),
   MCLinkSetting(FALSE, TRUE, {<<"www", "x", "com">>}, {}, {}),
   MCLinkSetting(FALSE, TRUE, {}, {<<"**", "/", "a">>}, {<<"**">>}),
   MCLinkSetting(FALSE, TRUE, {}, {<<"https", "/", "/", "*", "/", "a", "/", "**">>},
                 {<<"https", "/", "/", "*", "/", "a">>})}

VARIABLE subject

handlerVars ==
  <<subject, teamVars, oauthVars, credentialVars, engineVars, rateVars, cardVars, invoiceVars,
    accessVars, signInVars, mapVars, localVars, syncVars, memoryVars, nearVars, documentVars,
    blockVars, aiVars, linkVars, cliVars>>

Subjects ==
  {"teams", "oauth", "credentials", "engines", "rate", "cards", "invoices", "access", "signin",
   "map", "local", "sync", "memory", "clusterer", "detector", "documents", "blocks", "answers",
   "links", "cli"}

\* The parts that a behaviour is not about have one initial state.
HandlersInit ==
  /\ subject \in Subjects
  /\ TeamInit /\ OAuthInit /\ CredentialsInit /\ EnginesInit /\ RateInit /\ CardsInit
  /\ InvoicesInit /\ AccessInit /\ SignInInit
  /\ subject # "access" =>
       /\ \A m \in Members, a \in Homes : roles[m][a] = "none"
       /\ \A k \in KeyIds : keys[k].account = NoHome
  /\ subject # "signin" => \A i \in Identities : addressOf[i] = CHOOSE x \in Addresses : TRUE
  /\ SyncInit /\ MemoryInit
  /\ IF subject = "map" THEN MapInit
     ELSE MapInit /\ mapping = [limit |-> 0, depth |-> 0, sitemap |-> FALSE, titles |-> FALSE,
                                search |-> FALSE]
  /\ IF subject = "local" THEN LocalInit
     ELSE LocalInit /\ toVisit = SetToSeq({[url |-> u, depth |-> 0] : u \in Starts})
  /\ NearInit
  /\ subject \notin {"clusterer", "detector"} => \A d \in Docs : prints[d] = {}
  /\ DocumentsInit
  /\ IF subject = "blocks" THEN BlocksInit
     ELSE BlocksInit /\ page = <<>> /\ ~outerH1 /\ maxBlocks = 0
  /\ IF subject = "answers" THEN AiInit
     ELSE AiInit /\ aiTask = [op |-> "value", empty |-> TRUE, docs |-> <<>>, cuts |-> TRUE]
  /\ IF subject = "links" THEN LinksInit
     ELSE LinksInit /\ linkRule = MCLinkSetting(FALSE, TRUE, {}, {}, {}) /\ seedHost = <<"com">>
  /\ CliInit

\* A step of the part that the behaviour is about.
Only(part, step) ==
  /\ subject = part /\ step /\ subject' = subject
  /\ part # "teams" => UNCHANGED teamVars
  /\ part # "oauth" => UNCHANGED oauthVars
  /\ part # "credentials" => UNCHANGED credentialVars
  /\ part # "engines" => UNCHANGED engineVars
  /\ part # "rate" => UNCHANGED rateVars
  /\ part # "cards" => UNCHANGED cardVars
  /\ part # "invoices" => UNCHANGED invoiceVars
  /\ part # "access" => UNCHANGED accessVars
  /\ part # "signin" => UNCHANGED signInVars
  /\ part # "map" => UNCHANGED mapVars
  /\ part # "local" => UNCHANGED localVars
  /\ part # "sync" => UNCHANGED syncVars
  /\ part # "memory" => UNCHANGED memoryVars
  /\ part \notin {"clusterer", "detector"} => UNCHANGED nearVars
  /\ part # "documents" => UNCHANGED documentVars
  /\ part # "blocks" => UNCHANGED blockVars
  /\ part # "answers" => UNCHANGED aiVars
  /\ part # "links" => UNCHANGED linkVars
  /\ part # "cli" => UNCHANGED cliVars

HandlersNext ==
  \/ Only("teams", TeamNext) \/ Only("oauth", OAuthNext) \/ Only("credentials", CredentialsNext)
  \/ Only("engines", EnginesNext) \/ Only("rate", RateNext) \/ Only("cards", CardsNext)
  \/ Only("invoices", InvoicesNext) \/ Only("access", AccessNext) \/ Only("signin", SignInNext)
  \/ Only("map", MapNext) \/ Only("local", LocalNext)
  \/ Only("sync", SyncNext) \/ Only("memory", MemoryNext)
  \/ Only("clusterer", ComparePair) \/ Only("detector", CheckAndAdd)
  \/ Only("documents", DocumentsNext) \/ Only("blocks", BlocksNext) \/ Only("answers", AiNext)
  \/ Only("links", LinksNext) \/ Only("cli", CliNext)

HandlersSpec == HandlersInit /\ [][HandlersNext]_handlerVars

\* Tokens that were handed out, by OAuth or by e-mail, act as often as they
\* should when requests present the same one at once, and commands that share a
\* login keep the token that acts next.
TokensAreSpent == OneRefreshPerGrant /\ TokensActOnce /\ FileFollowsRotation

\* The rows of an account: its members, who were invited and lose their last owner only
\* in a race, and its engines, of which one is the default.
AccountsAreSound == MembershipsAreSound /\ DefaultIsSingle

\* The cards that an account pays with and the credits that it pays for.
PaymentsHold == CardsStayInView /\ GrantsArePaid

\* A mapping of a site, and the links that the crawler follows, keep to their limits
\* and miss nothing in them.
UrlSearchesHold == MapAnswerHolds /\ LinksStayInside /\ NoLinkIsMissed

\* What is paid for, and what a crawl on the command line may take: work is free, and
\* a limit exceeded, for no more than overlapped.
BudgetsHold == FreeWorkOverlapped /\ LocalBudget

\* What a page becomes, as documents and as blocks, which of them are near duplicates,
\* and what is read from the answers about it, is what was said.
ContentIsKept ==
  PagesBecomeDocuments /\ BlocksAreThePage /\ DuplicatesAreFound /\ AnswersAreSaid

=============================================================================
