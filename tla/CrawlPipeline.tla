--------------------------- MODULE CrawlPipeline ---------------------------
(***************************************************************************)
(* The crawler worker (bins/scrapix-worker-crawler/src/lib.rs) between the *)
(* topics of the message bus, for the URLs of one crawl: the frontier      *)
(* feeds it, and it feeds the frontier, the content worker and the API.    *)
(*                                                                         *)
(* The bus is Kafka (scrapix-queue consumer.rs, producer.rs), where a send *)
(* may fail and an offset is committed in the background before the        *)
(* handler runs, or the channels of the all-in-one binary (channel.rs),    *)
(* where a send never fails but waits while the topic is full.             *)
(*                                                                         *)
(* Abstractions.  The frontier service only de-duplicates and passes on;   *)
(* it is the subject of the module Frontier.  The content worker turns a   *)
(* page into one event and the API takes events.  All URLs are of one      *)
(* domain.  Failing and skipping publish one event, as crawling does last. *)
(* Topics are unordered, except the one back to the frontier.  On Kafka    *)
(* nobody waits for the consumers of pages and events: they are left out.  *)
(***************************************************************************)
EXTENDS Naturals, Sequences, FiniteSets

CONSTANTS
  Urls, SeedUrls, Sitemap,
  Links,         \* url -> the URLs extracted from its page
  Idle,          \* no message in hand
  Capacity,      \* DEFAULT_CAPACITY of a channel (50 000)
  Concurrency,   \* permits of process_concurrent
  MaxBusFaults   \* bound: failed sends and crashes (Kafka)

ASSUME PipelineAssumption ==
  /\ SeedUrls \subseteq Urls /\ Sitemap \subseteq Urls
  /\ Links \in [Urls -> SUBSET Urls]
  /\ Capacity \in Nat \ {0} /\ Concurrency \in Nat \ {0} /\ MaxBusFaults \in Nat

Steps == {"sitemap", "map", "fetch", "page", "links", "last", "close"}

\* A message in hand can be told from none.
ASSUME IdleAssumption == Idle \notin Urls /\ Idle \notin [step : Steps, todo : SUBSET Urls]

VARIABLES
  bus,         \* "kafka" or "channel"
  toFrontier,  \* topic URL_FRONTIER
  known,       \* the URLs the frontier has taken
  waiting,     \* ... and has not dispatched yet
  toCrawl,     \* topic URL_PROCESSING
  held,        \* the message the consumer loop has and waits for a permit with
  work,        \* url -> where its handler is and what it has left to send
  mapped,      \* discovered_sitemap_domains has the domain
  pages,       \* topic PAGES_RAW
  indexing,    \* the content worker has taken a page and owes its event
  events,      \* messages in topic EVENTS
  sent,        \* url -> pages of it published
  crawled,     \* url -> PageCrawled events published
  closed,      \* URLs skipped or failed, with the event
  dropped,     \* URLs given up without an event
  crashes, busFaults,
  quitting

pipeVars == <<bus, toFrontier, known, waiting, toCrawl, held, work, mapped, pages, indexing,
              events, sent, crawled, closed, dropped, crashes, busFaults, quitting>>

PipeInit ==
  /\ bus \in {"kafka", "channel"}
  /\ toFrontier = <<>> /\ known = SeedUrls /\ waiting = SeedUrls
  /\ toCrawl = {} /\ held = Idle /\ work = [u \in Urls |-> Idle]
  /\ mapped = FALSE /\ pages = {} /\ indexing = FALSE /\ events = 0
  /\ sent = [u \in Urls |-> 0] /\ crawled = [u \in Urls |-> 0]
  /\ closed = {} /\ dropped = {} /\ crashes = 0 /\ busFaults = 0 /\ quitting = FALSE

\* A bounded channel makes the sender wait; Kafka takes the message.
HasRoom(n) == bus = "channel" => n < Capacity

InHand(u) == held = u \/ work[u] # Idle

AtStep(u, step) == work[u] # Idle /\ work[u].step = step

Goto(u, step, todo) == work' = [work EXCEPT ![u] = [step |-> step, todo |-> todo]]

-----------------------------------------------------------------------------
(* The other services                                                      *)

\* The frontier sends on from its handler, waiting for room.
FrontierTakes_Mutant ==
  /\ toFrontier # <<>> /\ HasRoom(Cardinality(toCrawl))
  /\ LET u == Head(toFrontier)
     IN  /\ known' = known \cup {u}
         /\ waiting' = IF u \in known THEN waiting ELSE waiting \cup {u}
  /\ toFrontier' = Tail(toFrontier)
  /\ UNCHANGED <<bus, toCrawl, held, work, mapped, pages, indexing, events, sent, crawled,
                 closed, dropped, crashes, busFaults, quitting>>

\* The handler of the frontier only enqueues; it never waits for a send.
FrontierTakes ==
  /\ toFrontier # <<>>
  /\ LET u == Head(toFrontier)
     IN  /\ known' = known \cup {u}
         /\ waiting' = IF u \in known THEN waiting ELSE waiting \cup {u}
  /\ toFrontier' = Tail(toFrontier)
  /\ UNCHANGED <<bus, toCrawl, held, work, mapped, pages, indexing, events, sent, crawled,
                 closed, dropped, crashes, busFaults, quitting>>

FrontierDispatches ==
  /\ HasRoom(Cardinality(toCrawl))
  /\ \E u \in waiting : toCrawl' = toCrawl \cup {u} /\ waiting' = waiting \ {u}
  /\ UNCHANGED <<bus, toFrontier, known, held, work, mapped, pages, indexing, events, sent,
                 crawled, closed, dropped, crashes, busFaults, quitting>>

ContentTakes ==
  /\ ~indexing
  /\ \E u \in pages : pages' = pages \ {u}
  /\ indexing' = TRUE
  /\ UNCHANGED <<bus, toFrontier, known, waiting, toCrawl, held, work, mapped, events, sent,
                 crawled, closed, dropped, crashes, busFaults, quitting>>

ContentReports ==
  /\ indexing /\ indexing' = FALSE
  /\ HasRoom(events) /\ events' = events + 1
  /\ UNCHANGED <<bus, toFrontier, known, waiting, toCrawl, held, work, mapped, pages, sent,
                 crawled, closed, dropped, crashes, busFaults, quitting>>

ApiTakesEvent ==
  /\ events > 0 /\ events' = events - 1
  /\ UNCHANGED <<bus, toFrontier, known, waiting, toCrawl, held, work, mapped, pages, indexing,
                 sent, crawled, closed, dropped, crashes, busFaults, quitting>>

-----------------------------------------------------------------------------
(* process_concurrent                                                      *)

Poll ==
  /\ ~quitting /\ held = Idle
  /\ \E u \in toCrawl : held' = u /\ toCrawl' = toCrawl \ {u}
  /\ UNCHANGED <<bus, toFrontier, known, waiting, work, mapped, pages, indexing, events, sent,
                 crawled, closed, dropped, crashes, busFaults, quitting>>

\* A message that finds no permit is dropped.
Spawn_Mutant ==
  /\ held # Idle /\ held' = Idle
  /\ IF Cardinality({u \in Urls : work[u] # Idle}) < Concurrency
     THEN Goto(held, "sitemap", {}) ELSE UNCHANGED work
  /\ UNCHANGED <<bus, toFrontier, known, waiting, toCrawl, mapped, pages, indexing, events,
                 sent, crawled, closed, dropped, crashes, busFaults, quitting>>

Spawn ==
  /\ held # Idle /\ held' = Idle
  /\ Cardinality({u \in Urls : work[u] # Idle}) < Concurrency
  /\ Goto(held, "sitemap", {})
  /\ UNCHANGED <<bus, toFrontier, known, waiting, toCrawl, mapped, pages, indexing, events,
                 sent, crawled, closed, dropped, crashes, busFaults, quitting>>

\* A signal or the idle watchdog; one with nothing in hand changes nothing here.
Quit ==
  /\ bus = "kafka" /\ ~quitting /\ quitting' = TRUE
  /\ \E u \in Urls : InHand(u)
  /\ UNCHANGED <<bus, toFrontier, known, waiting, toCrawl, held, work, mapped, pages, indexing,
                 events, sent, crawled, closed, dropped, crashes, busFaults>>

\* The loop has ended and acquire_many has every permit; a new process starts.
Restart ==
  /\ quitting /\ held = Idle /\ \A u \in Urls : work[u] = Idle
  /\ quitting' = FALSE /\ mapped' = FALSE
  /\ UNCHANGED <<bus, toFrontier, known, waiting, toCrawl, held, work, pages, indexing, events,
                 sent, crawled, closed, dropped, crashes, busFaults>>

\* The messages in hand are lost, but for those whose commit had not got out.
Crash ==
  /\ bus = "kafka" /\ busFaults < MaxBusFaults
  /\ LET hand == {u \in Urls : InHand(u)}
     IN  \E again \in SUBSET hand :
           toCrawl' = toCrawl \cup again /\ dropped' = dropped \cup (hand \ again)
  /\ held' = Idle /\ work' = [u \in Urls |-> Idle] /\ mapped' = FALSE /\ quitting' = FALSE
  /\ crashes' = crashes + 1 /\ busFaults' = busFaults + 1
  /\ UNCHANGED <<bus, toFrontier, known, waiting, pages, indexing, events, sent, crawled, closed>>

-----------------------------------------------------------------------------
(* process_url                                                             *)

HandlerOnly == UNCHANGED <<bus, known, waiting, toCrawl, held, indexing, crashes, quitting>>

\* maybe_discover_sitemaps marks the domain first; fetching them may fail.
DiscoverSitemaps(u) ==
  /\ AtStep(u, "sitemap") /\ mapped' = TRUE
  /\ \E found \in IF mapped THEN {{}} ELSE {{}, Sitemap} :
       IF found = {} THEN Goto(u, "fetch", {}) ELSE Goto(u, "map", found)
  /\ HandlerOnly
  /\ UNCHANGED <<toFrontier, pages, events, sent, crawled, closed, dropped, busFaults>>

\* Sends one of them; a send that fails is only logged.
SendSitemapUrl(u) ==
  /\ AtStep(u, "map")
  /\ \E v \in work[u].todo :
       /\ Goto(u, IF work[u].todo = {v} THEN "fetch" ELSE "map", work[u].todo \ {v})
       /\ \/ HasRoom(Len(toFrontier)) /\ toFrontier' = Append(toFrontier, v)
             /\ UNCHANGED busFaults
          \/ bus = "kafka" /\ busFaults < MaxBusFaults /\ busFaults' = busFaults + 1
             /\ UNCHANGED toFrontier
  /\ HandlerOnly /\ UNCHANGED <<mapped, pages, events, sent, crawled, closed, dropped>>

\* The page is fetched, or it is unmodified or fails and only that is reported.
Fetch(u) ==
  /\ AtStep(u, "fetch")
  /\ \E outcome \in {"page", "close"} : Goto(u, outcome, {})
  /\ HandlerOnly
  /\ UNCHANGED <<toFrontier, mapped, pages, events, sent, crawled, closed, dropped, busFaults>>

SendPage(u) ==
  /\ AtStep(u, "page") /\ HasRoom(Cardinality(pages))
  /\ pages' = IF bus = "channel" THEN pages \cup {u} ELSE pages
  /\ sent' = [sent EXCEPT ![u] = @ + 1]
  /\ Goto(u, IF Links[u] = {} THEN "last" ELSE "links", Links[u])
  /\ HandlerOnly /\ UNCHANGED <<toFrontier, mapped, events, crawled, closed, dropped, busFaults>>

\* A link that finds the topic full is dropped.
SendLink_Mutant(u) ==
  /\ AtStep(u, "links")
  /\ \E v \in work[u].todo :
       /\ toFrontier' = IF HasRoom(Len(toFrontier)) THEN Append(toFrontier, v) ELSE toFrontier
       /\ Goto(u, IF work[u].todo = {v} THEN "last" ELSE "links", work[u].todo \ {v})
  /\ HandlerOnly /\ UNCHANGED <<mapped, pages, events, sent, crawled, closed, dropped, busFaults>>

SendLink(u) ==
  /\ AtStep(u, "links") /\ HasRoom(Len(toFrontier))
  /\ \E v \in work[u].todo :
       /\ toFrontier' = Append(toFrontier, v)
       /\ Goto(u, IF work[u].todo = {v} THEN "last" ELSE "links", work[u].todo \ {v})
  /\ HandlerOnly /\ UNCHANGED <<mapped, pages, events, sent, crawled, closed, dropped, busFaults>>

\* PageCrawled (after UrlsDiscovered), or PageSkipped or PageFailed.
Report(u) ==
  /\ AtStep(u, "last") \/ AtStep(u, "close")
  /\ HasRoom(events) /\ events' = IF bus = "channel" THEN events + 1 ELSE events
  /\ crawled' = IF AtStep(u, "last") THEN [crawled EXCEPT ![u] = @ + 1] ELSE crawled
  /\ closed' = IF AtStep(u, "close") THEN closed \cup {u} ELSE closed
  /\ work' = [work EXCEPT ![u] = Idle]
  /\ HandlerOnly /\ UNCHANGED <<toFrontier, mapped, pages, sent, dropped, busFaults>>

\* `?` after a send: the handler ends there, with nothing but a log line.
SendFails(u) ==
  /\ bus = "kafka" /\ busFaults < MaxBusFaults /\ busFaults' = busFaults + 1
  /\ work[u] # Idle /\ work[u].step \in {"page", "links", "last", "close"}
  /\ work' = [work EXCEPT ![u] = Idle] /\ dropped' = dropped \cup {u}
  /\ HandlerOnly /\ UNCHANGED <<toFrontier, mapped, pages, events, sent, crawled, closed>>

Handle(u) ==
  \/ DiscoverSitemaps(u) \/ SendSitemapUrl(u) \/ Fetch(u) \/ SendPage(u) \/ SendLink(u)
  \/ Report(u)

PipeNext ==
  \/ FrontierTakes \/ FrontierDispatches \/ ContentTakes \/ ContentReports \/ ApiTakesEvent
  \/ Poll \/ Spawn \/ Quit \/ Restart \/ Crash
  \/ \E u \in Urls : Handle(u) \/ SendFails(u)

PipeSpec == PipeInit /\ [][PipeNext]_pipeVars

-----------------------------------------------------------------------------

PipeTypeOK ==
  /\ bus \in {"kafka", "channel"} /\ toFrontier \in Seq(Urls)
  /\ known \subseteq Urls /\ waiting \subseteq known /\ toCrawl \subseteq known
  /\ held \in Urls \cup {Idle}
  /\ work \in [Urls -> [step : Steps, todo : SUBSET Urls] \cup {Idle}]
  /\ pages \subseteq Urls /\ events \in Nat
  /\ sent \in [Urls -> Nat] /\ crawled \in [Urls -> Nat]
  /\ closed \subseteq Urls /\ dropped \subseteq Urls
  /\ crashes \in 0..MaxBusFaults /\ busFaults \in 0..MaxBusFaults
  /\ mapped \in BOOLEAN /\ indexing \in BOOLEAN /\ quitting \in BOOLEAN

\* PageCrawled comes last: when the API hears of a page, the page is on its way
\* to the content worker and every URL on it has reached the frontier or its
\* topic, so that a job without activity has nothing left to discover; and a
\* page is reported and billed once, but for those a crash delivered again.
CrawledIsPublished ==
  \A u \in Urls :
    /\ crawled[u] <= sent[u] /\ crawled[u] <= 1 + crashes
    /\ crawled[u] > 0 => \A v \in Links[u] :
         v \in known \/ \E i \in DOMAIN toFrontier : toFrontier[i] = v

\* A URL the frontier has taken is waiting, in the topic, in the worker's hands,
\* or done with; without an event only after a failed send or a crash, and of a
\* crash only what was in hand: one message for each permit and one more.
UrlsAreAccountedFor ==
  /\ \A u \in known :
       \/ u \in waiting \/ u \in toCrawl \/ InHand(u)
       \/ crawled[u] > 0 \/ u \in closed \/ u \in dropped
  /\ Cardinality(dropped) <= busFaults + crashes * Concurrency
  /\ Cardinality({u \in Urls : InHand(u)}) <= Concurrency + 1

\* Between the topics no URL and no page is lost, nor reported too early, but
\* for what failed sends and crashes explain.
CrawlIsAccountedFor == CrawledIsPublished /\ UrlsAreAccountedFor

\* Nothing is left in any topic or in any hand.
Drained ==
  /\ toFrontier = <<>> /\ waiting = {} /\ toCrawl = {} /\ pages = {} /\ events = 0
  /\ ~indexing /\ held = Idle /\ \A u \in Urls : work[u] = Idle

=============================================================================
