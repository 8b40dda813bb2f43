----------------------------- MODULE MCPlatform -----------------------------
(***************************************************************************)
(* The background tasks of the API server, and the life of the processes   *)
(* themselves, that share nothing: each behaviour is one of one part, the  *)
(* others keep their initial states.                                       *)
(***************************************************************************)
EXTENDS CronConfigs, EmailQueue, UsageReports, Services

VARIABLE subject

platformVars == <<subject, cronVars, emailVars, usageVars, serviceVars>>

MCCallers == {[account |-> "a", key |-> "k"], [account |-> "", key |-> ""]}

MCCrawlCaller == [j \in Crawls |-> [account |-> "a", key |-> "k"]]

MCCrawlSite == [j \in Crawls |-> "s"]

MCWanted == [api |-> {"postgres", "clickhouse", "ai"}, frontier |-> {},
             crawler |-> {}, content |-> {}]

PlatformInit ==
  /\ subject \in {"cron", "email", "usage", "services"}
  /\ CronInit /\ EmailInit /\ UsageInit /\ ServicesInit
  /\ subject # "services" => deployment = "api"

\* A step of the part that the behaviour is about.
Only(part, step) ==
  /\ subject = part /\ step /\ subject' = subject
  /\ part # "cron" => UNCHANGED cronVars
  /\ part # "email" => UNCHANGED emailVars
  /\ part # "usage" => UNCHANGED usageVars
  /\ part # "services" => UNCHANGED serviceVars

\* Bound: within `scrapix all' the API has at most its database.
AllIsSmall == deployment = "all" => got'["api"] \subseteq {"postgres"}

PlatformNext ==
  \/ Only("cron", CronNext) \/ Only("email", EmailNext)
  \/ Only("usage", UsageNext) \/ Only("services", ServicesNext /\ AllIsSmall)

\* The pollers of every server keep running; an e-mail's delay ends; the tasks
\* that add and flush rows run, and an insertion is answered.  The loops and tasks
\* of a service are scheduled, its messages, fetches and ticks end, main returns;
\* select!, which chooses at random, does not prefer the next tick for ever.
PlatformFairness ==
  /\ \A s \in Servers :
       /\ WF_platformVars(Only("cron", SelectDue(s)))
       /\ WF_platformVars(Only("cron", TriggerDue(s)))
       /\ WF_platformVars(Only("cron", AdvanceNextRun(s)))
  /\ \A e \in Emails : WF_platformVars(Only("email", BecomesDue(e)))
  /\ \A p \in Pollers :
       /\ WF_platformVars(Only("email", ClaimDue(p)))
       /\ WF_platformVars(Only("email", Dispatch(p)))
       /\ WF_platformVars(Only("email", RecordOutcome(p)))
  /\ \A i \in 1..MaxRows : WF_platformVars(Only("usage", AddRow(i)))
  /\ \A t \in Tables : WF_platformVars(Only("usage", FlushTick(t)))
  /\ WF_platformVars(Only("usage", \E b \in writing : InsertEnds(b) \/ InsertFails(b)))
  /\ \A t \in Periodic :
       /\ WF_platformVars(Only("services", EndTick(t)))
       /\ SF_platformVars(Only("services", LeaveTask("api", t)))
  /\ WF_platformVars(Only("services", GetsOn)) /\ WF_platformVars(Only("services", Exit))

PlatformSpec == PlatformInit /\ [][PlatformNext]_platformVars /\ PlatformFairness

=============================================================================
