------------------------------ MODULE Services ------------------------------
(***************************************************************************)
(* The life of a process: `scrapix all', that runs the four services over  *)
(* channels of its own or over Kafka, or one service on its own            *)
(* (bins/scrapix/src/main.rs and all.rs, the `run', `run_with_bus', `new'  *)
(* and `with_bus' of each service).  A service starts with the optional    *)
(* parts it can get, runs its loop beside tasks that it spawned, and is    *)
(* asked to stop by a signal, by the idle watchdog, or is aborted.         *)
(*                                                                         *)
(* Abstractions.  `held' is the work that only memory has: the URLs        *)
(* accepted by the frontier, the fetches under way in the crawler, the     *)
(* documents buffered by the content worker, the rows and counters of the  *)
(* API that wait for its flush, and `adding' the rows whose task has not   *)
(* put them into a batch yet.  Batches that fill up and insertions that    *)
(* fail are the subject of UsageReports, spawned writes to Postgres that   *)
(* of JobTracker.  Parts that change no task are left out of               *)
(* `ServiceTasks', the tasks that only log are left out altogether.        *)
(***************************************************************************)
EXTENDS Naturals, FiniteSets, FiniteSetsExt

CONSTANTS
  Wanted,     \* service -> the optional parts that its settings ask for
  SendBatch,  \* documents that the content worker sends at once
  MaxHeld,    \* bound: work in memory
  MaxClients  \* bound: connections open at once

Services == {"api", "frontier", "crawler", "content"}
SignalKinds == {"INT", "TERM"}

ASSUME ServicesAssumption ==
  /\ Wanted \in [Services -> SUBSET STRING]
  /\ {SendBatch, MaxHeld} \subseteq Nat \ {0} /\ MaxClients \in Nat

VARIABLES
  deployment, \* "all", or the service that the process is
  process,    \* "launching", "up", "grace" (the services are aborted) or "exited"
  signals,    \* the signals sent so far
  caught,     \* the signals that do not kill the process
  life,       \* service -> where it is in its run
  got,        \* service -> the optional parts it has
  told,       \* service -> whether its flag or channel says stop, or its sender is gone
  tasks,      \* service -> the tasks it spawned
  busy,       \* service -> whether its loop, or the API's event consumer, has a message in hand
  held,       \* service -> work in memory
  adding,     \* rows of the API whose addition to a batch was spawned and has not run
  ticking,    \* the API's periodic tasks that are in the middle of a tick
  clients,    \* connections open to the API
  late        \* what the API took in after its last flush, by where it came from

lifeVars == <<life, got, tasks>>
rowVars == <<held, adding, late>>
workVars == <<busy, rowVars, ticking, clients>>
serviceVars == <<deployment, process, signals, caught, lifeVars, told, workVars>>

Present == IF deployment = "all" THEN Services ELSE {deployment}

Up == process \in {"up", "grace"}

\* Where the rows come from that the flusher may miss: an event, a request, or else a
\* tick of the idle detector, AI usage, an addition spawned before the last flush.
Sources == {"events", "requests", "others"}

Nothing == [w \in Sources |-> 0]

\* The tasks that work in ticks, with awaits that nothing interrupts.
Periodic == {"idle", "cron", "emails"}

HasRoom ==
  MapThenSumSet(LAMBDA s : held[s], Services) + adding
    + Cardinality({s \in Services : busy[s]}) < MaxHeld

ServicesInit ==
  /\ deployment \in {"all"} \cup Services /\ process = "launching"
  /\ signals = {} /\ caught = {}
  /\ life = [s \in Services |-> "absent"] /\ got = [s \in Services |-> {}]
  /\ told = [s \in Services |-> "no"] /\ tasks = [s \in Services |-> {}]
  /\ busy = [s \in Services |-> FALSE] /\ held = [s \in Services |-> 0]
  /\ adding = 0 /\ ticking = {} /\ clients = 0 /\ late = Nothing

\* The process is gone, with its memory and its connections.
Gone ==
  /\ process' = "exited" /\ caught' = {}
  /\ life' = [s \in Services |-> "absent"] /\ got' = [s \in Services |-> {}]
  /\ told' = [s \in Services |-> "no"] /\ tasks' = [s \in Services |-> {}]
  /\ busy' = [s \in Services |-> FALSE] /\ held' = [s \in Services |-> 0]
  /\ adding' = 0 /\ ticking' = {} /\ clients' = 0 /\ late' = Nothing

----------------------------------------------------------------------------
(* Start.                                                                  *)

\* run_all spawns the four services and waits for Ctrl-C; a subcommand runs one.
Launch ==
  /\ process = "launching" /\ process' = "up"
  /\ life' = [s \in Services |-> IF s \in Present THEN "starting" ELSE "absent"]
  /\ caught' = IF deployment = "all" THEN {"INT"} ELSE {}
  /\ UNCHANGED <<deployment, signals, got, tasks, told, workVars>>

\* Over channels nothing fails here; run_all_kafka builds every producer and consumer
\* first, each with `?'.
LaunchFails ==
  /\ process = "launching" /\ deployment = "all"
  /\ Gone /\ UNCHANGED <<deployment, signals>>

\* The content worker of `scrapix all' makes no more than documents by default.
ContentTurnedOff == {"ai", "near duplicates", "blocks"}

\* `scrapix all' turns off what needs a topic that nothing in it reads.
Settings(s) ==
  IF deployment # "all" THEN Wanted[s]
  ELSE Wanted[s] \ (CASE s = "frontier" -> {"link graph", "recrawl"}
                      [] s = "crawler" -> {"link graph"}
                      [] s = "content" -> ContentTurnedOff
                      [] s = "api" -> {})

\* The database and everything else that the API connects to are optional.
ApiMayMiss == {"postgres", "clickhouse", "redis", "browser", "ai"}

\* Without its browser the crawler fetches over HTTP, without Redis it keeps no crawl
\* history; robots.txt and the fetcher it must have.
CrawlerMayMiss == {"browser", "history"}

\* Without its client the content worker leaves the AI out.
ContentMayMiss == {"ai"}

\* The frontier on its own must have every consumer that it is set to have.
FrontierMayMiss == {}

MayMiss(s) ==
  CASE s = "api" -> ApiMayMiss         [] s = "crawler" -> CrawlerMayMiss
    [] s = "content" -> ContentMayMiss [] s = "frontier" -> FrontierMayMiss

\* A service on its own must reach Kafka; with a bus that it is given, the frontier and
\* the content worker need nothing more, the API and the crawler do.
MayFail(s) == deployment = s \/ s \notin {"frontier", "content"}

ApiTasks(have) ==
  {"events", "idle"}
    \cup (IF have \cap {"postgres", "clickhouse"} # {} THEN {"flusher"} ELSE {})
    \cup (IF "postgres" \in have THEN {"cron"} ELSE {})
    \cup (IF {"postgres", "mail"} \subseteq have THEN {"emails"} ELSE {})
    \cup (IF {"clickhouse", "ai"} \subseteq have THEN {"usage"} ELSE {})

FrontierTasks(have) ==
  {"dispatcher", "collector"}
    \cup (IF "link graph" \in have THEN {"links", "ranks"} ELSE {})
    \cup (IF "recrawl" \in have THEN {"history"} ELSE {})

\* Those of a worker on its own: the wake listener and the idle watchdog.
OwnTasks(s) == IF deployment = s /\ s # "api" THEN {"wake", "watchdog"} ELSE {}

ContentTasks == {"flusher"}

TasksOf(s, have) ==
  OwnTasks(s) \cup (CASE s = "api"      -> ApiTasks(have)
                      [] s = "frontier" -> FrontierTasks(have)
                      [] s = "content"  -> ContentTasks
                      [] s = "crawler"  -> {})

\* A service is built with the parts that it gets, and begins to run; the API has its
\* tasks before its port.  A service on its own then listens to the signals.
StartService(s) ==
  /\ process = "up" /\ life[s] = "starting"
  /\ \E have \in SUBSET Settings(s) :
       /\ Settings(s) \ have \subseteq MayMiss(s)
       /\ got' = [got EXCEPT ![s] = have]
       /\ tasks' = [tasks EXCEPT ![s] = TasksOf(s, have)]
  /\ life' = [life EXCEPT ![s] = IF s = "api" THEN "binding" ELSE "serving"]
  /\ caught' = IF deployment = s /\ s # "api" THEN SignalKinds ELSE caught
  /\ UNCHANGED <<deployment, process, signals, told, workVars>>

\* Kafka, the fetcher, the robots cache or, in production, the secret is missing.
StartFails(s) ==
  /\ process = "up" /\ life[s] = "starting" /\ MayFail(s)
  /\ life' = [life EXCEPT ![s] = "failed"]
  /\ UNCHANGED <<deployment, process, signals, caught, got, tasks, told, workVars>>

\* The API gets its port; axum's task listens to both signals from then on.
BindPort ==
  /\ process = "up" /\ life["api"] = "binding"
  /\ life' = [life EXCEPT !["api"] = "serving"]
  /\ caught' = SignalKinds
  /\ UNCHANGED <<deployment, process, signals, got, tasks, told, workVars>>

\* Ten tries, and run_with_bus returns: the sender of the channel is dropped.
BindFails ==
  /\ process = "up" /\ life["api"] = "binding"
  /\ life' = [life EXCEPT !["api"] = "failed"]
  /\ told' = [told EXCEPT !["api"] = "gone"]
  /\ UNCHANGED <<deployment, process, signals, caught, got, tasks, workVars>>

----------------------------------------------------------------------------
(* Work.                                                                   *)

\* The loop of `process' takes a message, or refuses it when the flag is set; the
\* event consumer looks at its channel and polls.
ReadMessage(s) ==
  /\ Up /\ s # "crawler" /\ ~busy[s] /\ HasRoom
  /\ IF s = "api" THEN "events" \in tasks[s] /\ told[s] # "set"
                  ELSE life[s] = "serving" /\ told[s] = "no"
  /\ busy' = [busy EXCEPT ![s] = TRUE]
  /\ UNCHANGED <<deployment, process, signals, caught, lifeVars, told, rowVars, ticking, clients>>

\* process_concurrent hands a message to a handler of its own.
SpawnFetch ==
  /\ Up /\ life["crawler"] = "serving" /\ told["crawler"] = "no" /\ HasRoom
  /\ held' = [held EXCEPT !["crawler"] = @ + 1]
  /\ UNCHANGED <<deployment, process, signals, caught, lifeVars, told, busy, adding, ticking, clients, late>>

\* The API keeps rows and counters only where it has somewhere to write them.
Flushes == got["api"] \cap {"postgres", "clickhouse"} # {}

\* Something for the API's flusher, which may have gone.
Tally(from) ==
  late' = IF "flusher" \in tasks["api"] THEN late ELSE [late EXCEPT ![from] = @ + 1]

\* A changed counter of a job, for Postgres.
MarkDirty(from) ==
  /\ "postgres" \in got["api"]
  /\ held' = [held EXCEPT !["api"] = @ + 1]
  /\ Tally(from) /\ UNCHANGED adding

\* A row for ClickHouse: a task is spawned that adds it to its batch.
SpawnRow(from) ==
  /\ "clickhouse" \in got["api"]
  /\ adding' = adding + 1
  /\ Tally(from) /\ UNCHANGED held

BatchRow ==
  /\ Up /\ adding > 0
  /\ adding' = adding - 1 /\ held' = [held EXCEPT !["api"] = @ + 1]
  /\ UNCHANGED <<deployment, process, signals, caught, lifeVars, told, busy, ticking, clients, late>>

\* The message in hand is dealt with.  An event of the API brings a counter, a row or
\* neither.  A full batch of documents is sent at once.
MessageDone(s) ==
  /\ Up /\ busy[s] /\ busy' = [busy EXCEPT ![s] = FALSE]
  /\ CASE s = "api" -> MarkDirty("events") \/ SpawnRow("events") \/ UNCHANGED rowVars
       [] s = "content" -> /\ held' = [held EXCEPT ![s] = IF @ + 1 = SendBatch THEN 0 ELSE @ + 1]
                           /\ UNCHANGED <<adding, late>>
       [] OTHER -> held' = [held EXCEPT ![s] = @ + 1] /\ UNCHANGED <<adding, late>>
  /\ UNCHANGED <<deployment, process, signals, caught, lifeVars, told, ticking, clients>>

\* A tick begins: select! may choose it although the channel says stop, too.
StartTick(t) ==
  /\ Up /\ t \in tasks["api"] \ ticking
  /\ ticking' = ticking \cup {t}
  /\ UNCHANGED <<deployment, process, signals, caught, lifeVars, told, busy, rowVars, clients>>

\* The idle detector completes a job, between two awaits of its tick.
TickCompletes ==
  /\ Up /\ "idle" \in ticking /\ HasRoom
  /\ SpawnRow("others")
  /\ UNCHANGED <<deployment, process, signals, caught, lifeVars, told, busy, ticking, clients>>

EndTick(t) ==
  /\ Up /\ t \in ticking
  /\ ticking' = ticking \ {t}
  /\ UNCHANGED <<deployment, process, signals, caught, lifeVars, told, busy, rowVars, clients>>

\* The receiver of AI usage adds a row itself.
AddUsage ==
  /\ Up /\ "usage" \in tasks["api"] /\ HasRoom
  /\ held' = [held EXCEPT !["api"] = @ + 1]
  /\ Tally("others")
  /\ UNCHANGED <<deployment, process, signals, caught, lifeVars, told, busy, adding, ticking, clients>>

\* The frontier's tasks hand on a URL.
DispatchHeld ==
  /\ Up /\ {"dispatcher", "collector"} \subseteq tasks["frontier"] /\ held["frontier"] > 0
  /\ held' = [held EXCEPT !["frontier"] = @ - 1]
  /\ UNCHANGED <<deployment, process, signals, caught, lifeVars, told, busy, adding, ticking, clients, late>>

\* A handler of the crawler ends; nobody aborts it.
FetchDone ==
  /\ Up /\ held["crawler"] > 0
  /\ held' = [held EXCEPT !["crawler"] = @ - 1]
  /\ UNCHANGED <<deployment, process, signals, caught, lifeVars, told, busy, adding, ticking, clients, late>>

\* The flusher's interval.
Flush(s) ==
  /\ Up /\ "flusher" \in tasks[s]
  /\ held' = [held EXCEPT ![s] = 0]
  /\ UNCHANGED <<deployment, process, signals, caught, lifeVars, told, busy, adding, ticking, clients, late>>

\* A client connects: a request, or a stream that lasts as long as it likes.
Connect ==
  /\ Up /\ life["api"] = "serving" /\ told["api"] = "no" /\ clients < MaxClients
  /\ clients' = clients + 1
  /\ UNCHANGED <<deployment, process, signals, caught, lifeVars, told, busy, rowVars, ticking>>

\* Its connection ends; most requests have a row.
Disconnect ==
  /\ Up /\ clients > 0 /\ clients' = clients - 1
  /\ (HasRoom /\ SpawnRow("requests")) \/ UNCHANGED rowVars
  /\ UNCHANGED <<deployment, process, signals, caught, lifeVars, told, busy, ticking>>

----------------------------------------------------------------------------
(* End.                                                                    *)

\* Whether the service, or for the API axum's task, listens to the signals.
Listens(s) == life[s] = "serving" /\ (s = "api" \/ deployment = s)

\* run_all aborts the tasks that it spawned.
Aborted(s) == life[s] \in {"starting", "binding", "serving", "closing"}

\* A signal.  Ctrl-C makes run_all abort the services that still run: their loops
\* are dropped, with the API's sender if it has not been given to axum; what they
\* spawned stays.
Signal(kind) ==
  /\ process # "exited" /\ kind \notin signals
  /\ signals' = signals \cup {kind} /\ UNCHANGED deployment
  /\ IF kind \notin caught THEN Gone
     ELSE LET aborting == kind = "INT" /\ deployment = "all" /\ process = "up"
          IN  /\ process' = IF aborting THEN "grace" ELSE process
              /\ life' = [s \in Services |-> IF aborting /\ Aborted(s) THEN "aborted" ELSE life[s]]
              /\ told' = [s \in Services |->
                            IF Listens(s) THEN "set"
                            ELSE IF aborting /\ life[s] = "binding" THEN "gone" ELSE told[s]]
              /\ busy' = [s \in Services |-> busy[s] /\ (s = "api" \/ ~(aborting /\ Aborted(s)))]
              /\ UNCHANGED <<caught, got, tasks, rowVars, ticking, clients>>

\* The idle watchdog of a worker on its own.
IdleExit(s) ==
  /\ Up /\ "watchdog" \in tasks[s] /\ told[s] = "no"
  /\ told' = [told EXCEPT ![s] = "set"]
  /\ UNCHANGED <<deployment, process, signals, caught, lifeVars, workVars>>

\* The event consumer that looks at nothing.
Sees_Mutant(s, t) ==
  CASE t \in {"usage", "events"} -> FALSE
    [] OTHER -> told[s] # "no" /\ t \notin ticking

\* Which tasks of a service see that it stops.  The event consumer reads the value
\* of the channel, which a dropped sender does not change, and ends between two polls;
\* a tick is not interrupted; the receiver of AI usage waits for a sender that is
\* still there.
Sees(s, t) ==
  CASE t = "usage"  -> FALSE
    [] t = "events" -> told[s] = "set" /\ ~busy[s]
    [] OTHER        -> told[s] # "no" /\ t \notin ticking

\* The API's flusher leaves without a last flush.
LeaveTask_NoFlushMutant(s, t) ==
  /\ Up /\ t \in tasks[s] /\ Sees(s, t)
  /\ tasks' = [tasks EXCEPT ![s] = @ \ {t}]
  /\ late' = IF s = "api" /\ t = "flusher" THEN [late EXCEPT !["others"] = adding] ELSE late
  /\ UNCHANGED <<deployment, process, signals, caught, life, got, told, busy, held, adding,
                 ticking, clients>>

\* A task leaves its loop.  The API's flusher writes a last time what is in the batches,
\* not what is still to be added.
LeaveTask(s, t) ==
  /\ Up /\ t \in tasks[s] /\ Sees(s, t)
  /\ tasks' = [tasks EXCEPT ![s] = @ \ {t}]
  /\ IF s = "api" /\ t = "flusher"
     THEN held' = [held EXCEPT ![s] = 0] /\ late' = [late EXCEPT !["others"] = adding]
     ELSE UNCHANGED <<held, late>>
  /\ UNCHANGED <<deployment, process, signals, caught, life, got, told, busy, adding, ticking,
                 clients>>

\* axum waits for the connections, then run_with_bus for the tasks.
ApiDrained ==
  /\ Up /\ life["api"] = "serving" /\ told["api"] = "set" /\ clients = 0
  /\ life' = [life EXCEPT !["api"] = "closing"]
  /\ UNCHANGED <<deployment, process, signals, caught, got, tasks, told, workVars>>

\* The receiver of AI usage is aborted.
ApiEnds ==
  /\ Up /\ life["api"] = "closing" /\ tasks["api"] \subseteq {"usage"}
  /\ life' = [life EXCEPT !["api"] = "ended"]
  /\ tasks' = [tasks EXCEPT !["api"] = {}]
  /\ UNCHANGED <<deployment, process, signals, caught, got, told, workVars>>

\* process_concurrent sees the flag and waits for its handlers; the loops of the
\* frontier and the content worker wait for the next message and never end, so
\* that what their `run' does after them is not reached.
CrawlerEnds ==
  /\ Up /\ life["crawler"] = "serving" /\ told["crawler"] = "set" /\ held["crawler"] = 0
  /\ life' = [life EXCEPT !["crawler"] = "ended"]
  /\ tasks' = [tasks EXCEPT !["crawler"] = {}]
  /\ UNCHANGED <<deployment, process, signals, caught, got, told, workVars>>

\* main returns: after the two seconds, or with the one service.
Exit ==
  /\ Up
  /\ IF deployment = "all" THEN process = "grace" ELSE life[deployment] \in {"ended", "failed"}
  /\ Gone /\ UNCHANGED <<deployment, signals>>

\* The platform does not wait for ever.
KillProcess ==
  /\ Up /\ signals # {}
  /\ Gone /\ UNCHANGED <<deployment, signals>>

\* What happens without a new message, client or signal.
GetsOn ==
  \/ FetchDone \/ BatchRow \/ ApiDrained \/ ApiEnds \/ CrawlerEnds
  \/ \E t \in ticking : EndTick(t)
  \/ \E s \in Services : MessageDone(s) \/ \E t \in tasks[s] : LeaveTask(s, t)

ServicesNext ==
  \/ Launch \/ LaunchFails \/ BindPort \/ BindFails
  \/ SpawnFetch \/ DispatchHeld \/ TickCompletes \/ AddUsage \/ Connect \/ Disconnect \/ GetsOn \/ Exit \/ KillProcess
  \/ \E kind \in SignalKinds : Signal(kind)
  \/ \E t \in Periodic : StartTick(t)
  \/ \E s \in Services :
       StartService(s) \/ StartFails(s) \/ ReadMessage(s) \/ Flush(s) \/ IdleExit(s)

ServicesSpec == ServicesInit /\ [][ServicesNext]_serviceVars

----------------------------------------------------------------------------
(* Properties.                                                             *)

ServiceTasks ==
  {"events", "idle", "flusher", "cron", "emails", "usage", "dispatcher", "collector", "links",
   "ranks", "history", "wake", "watchdog"}

ServicesTypeOK ==
  /\ deployment \in {"all"} \cup Services
  /\ process \in {"launching", "up", "grace", "exited"}
  /\ signals \subseteq SignalKinds /\ caught \subseteq SignalKinds
  /\ life \in [Services -> {"absent", "starting", "binding", "serving", "closing", "ended",
                            "failed", "aborted"}]
  /\ got \in [Services -> SUBSET UNION {Wanted[s] : s \in Services}]
  /\ tasks \in [Services -> SUBSET ServiceTasks]
  /\ told \in [Services -> {"no", "set", "gone"}]
  /\ busy \in [Services -> BOOLEAN] /\ held \in [Services -> Nat]
  /\ adding \in Nat /\ ticking \subseteq Periodic
  /\ clients \in 0..MaxClients /\ late \in [Sources -> Nat]

Late == late["events"] + late["requests"] + late["others"]

\* A service that ends by itself leaves no task and no work behind, but for what the
\* API's last flush could not have: additions that were spawned and had not run, the
\* one event that was being polled, the requests of the connections that were open, the
\* jobs that a tick completed and the AI usage that came later.
EndsClean ==
  /\ \A s \in Services : life[s] = "ended" =>
       /\ tasks[s] = {} /\ ~busy[s]
       /\ IF s = "api" THEN ticking = {} /\ held[s] + adding <= Late ELSE held[s] = 0
  /\ told["api"] = "set" => late["events"] <= 1 /\ late["requests"] <= MaxClients

\* Asked to stop: `scrapix all' by Ctrl-C, the API when its clients are gone, a crawler
\* by a signal or because it is idle.
Asked ==
  \/ process = "grace"
  \/ deployment \in {"api", "crawler"} /\ told[deployment] = "set" /\ clients = 0

\* Such a process ends by itself.
AskedProcessEnds == Asked ~> process = "exited"

=============================================================================
