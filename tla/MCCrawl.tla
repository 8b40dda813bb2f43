------------------------------- MODULE MCCrawl -------------------------------
(***************************************************************************)
(* The crawling side, apart from the frontier and content services: the    *)
(* politeness of the frontier, the path of a URL through the services, the *)
(* Replace strategy, the fetcher and the renderers, the events of a job,   *)
(* and the workers that stop when idle.  Each behaviour is one of one      *)
(* part, the others keep their initial states.                             *)
(***************************************************************************)
EXTENDS PolitenessSpec, CrawlPipeline, ReplaceCrawl, EventStreams, ScaleToZero, PageFetch,
        Renderers

CONSTANTS ua, ub, uc

\* A page with two links, one of them in the sitemap only.
MCLinks == [u \in Urls |-> IF u = ua THEN {ub, uc} ELSE {}]

VARIABLE subject

crawlVars == <<subject, vars, pipeVars, replaceVars, eventVars, scaleVars, fetchVars, renderVars>>

CrawlInit ==
  /\ subject \in {"politeness", "pipeline", "replace", "events", "scale", "fetch",
                  "renderers"}
  /\ Init /\ PipeInit /\ ReplaceInit /\ EventInit /\ ScaleInit
  /\ FetchInit /\ RendererInit
  /\ subject # "pipeline" => bus = "kafka"
  /\ subject # "fetch" => robots.allows

\* A step of the part that the behaviour is about.
Only(part, step) ==
  /\ subject = part /\ step /\ subject' = subject
  /\ part # "politeness" => UNCHANGED vars
  /\ part # "pipeline" => UNCHANGED pipeVars
  /\ part # "replace" => UNCHANGED replaceVars
  /\ part # "events" => UNCHANGED eventVars
  /\ part # "scale" => UNCHANGED scaleVars
  /\ part # "fetch" => UNCHANGED fetchVars
  /\ part # "renderers" => UNCHANGED renderVars

CrawlNext ==
  \/ Only("politeness", Next) \/ Only("pipeline", PipeNext) \/ Only("replace", ReplaceNext)
  \/ Only("events", EventNext) \/ Only("scale", ScaleNext) \/ Only("fetch", FetchNext)
  \/ Only("renderers", RendererNext)

\* Every service goes on when it can, and the API's tasks run; nothing makes
\* them fail, stop or crash.
CrawlFairness ==
  /\ WF_crawlVars(Only("pipeline", FrontierTakes))
  /\ WF_crawlVars(Only("pipeline", FrontierDispatches))
  /\ WF_crawlVars(Only("pipeline", ContentTakes))
  /\ WF_crawlVars(Only("pipeline", ContentReports))
  /\ WF_crawlVars(Only("pipeline", ApiTakesEvent))
  /\ WF_crawlVars(Only("pipeline", Poll))
  /\ WF_crawlVars(Only("pipeline", Spawn))
  /\ WF_crawlVars(Only("pipeline", Restart))
  /\ \A u \in Urls : WF_crawlVars(Only("pipeline", Handle(u)))
  /\ WF_crawlVars(Only("events", ConsumeEvent)) /\ WF_crawlVars(Only("events", FlushTick))
  /\ \A t \in Tasks : WF_crawlVars(Only("events", BroadcastEvent(t)))
  /\ \A e \in Events : WF_crawlVars(Only("events", AddToBatch(e)))
  /\ \A v \in Viewers :
       /\ WF_crawlVars(Only("events", LookAtJob(v)))
       /\ WF_crawlVars(Only("events", WaitExpires(v)))

CrawlSpec == CrawlInit /\ [][CrawlNext]_crawlVars /\ CrawlFairness

\* However small the channels, services that wait for one another's topics never
\* all wait: every crawl runs dry, on either bus.
PipelineDrains == <>[](subject = "pipeline" => Drained)

=============================================================================
