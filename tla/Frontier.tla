------------------------------ MODULE Frontier ------------------------------
(***************************************************************************)
(* The frontier service (bins/scrapix-frontier-service/src/lib.rs) with    *)
(* the parts of crates/scrapix-frontier it runs on: the dedup filter, the  *)
(* bounded priority queue and the politeness scheduler.                    *)
(*                                                                         *)
(* Three tasks share the job frontiers:                                    *)
(*   consumer    takes URL messages and calls JobFrontier::try_add,        *)
(*   collector   every tick pops a batch per job, and either admits a URL  *)
(*               (can_fetch, start_request, send on a bounded channel) or  *)
(*               pushes it back,                                           *)
(*   dispatcher  receives, publishes on URL_PROCESSING, then counts the    *)
(*               dispatch and releases the politeness slot.                *)
(* They interleave at every await and between any two lock or atomic       *)
(* accesses, except where merging two of them reaches the same states.     *)
(*                                                                         *)
(* Abstractions.  A URL is its dedup key (normalize_url), which determines *)
(* its domain.  The heap, and the batch popped from it, are sets whose     *)
(* elements leave in score order, as ties leave a BinaryHeap in any order. *)
(* The id of an entry is the value of urls_received when it arrived: it    *)
(* tells two arrivals of one URL apart.  The messages of the input topic   *)
(* arrive in any order, and repeatedly.  Metrics and logs are left out.    *)
(*                                                                         *)
(* A definition named ...Mutant is the one that follows it with a bug: a   *)
(* run in which it takes the other's place must break a property.          *)
(***************************************************************************)
EXTENDS Integers, Sequences, FiniteSets

CONSTANTS
  Jobs,          \* job ids
  Keys,          \* normalised URLs
  Messages,      \* what URL_FRONTIER may carry
  DomainOf,      \* extract_domain, on keys
  NoUrl, NoLimit, NoFrontier,
  MaxSize,       \* priority_config.max_size, 0 = unlimited
  BatchSize,     \* dispatch_batch_size
  ChannelCap,    \* capacity of the dispatch channel (50000 in the code)
  FalsePositives,\* whether the Bloom filter may err
  MayShutdown,   \* whether the service may be told to stop
  MaxReceived,   \* bound: messages received per job
  Domains, Untracked, DefaultDelay, MinDelay, MaxDelay,
  Concurrent, BackoffAfter, PauseAfter

Limits == [depth : Nat \cup {NoLimit}, pages : Nat \cup {NoLimit}]

Message == [job : Jobs, key : Keys, depth : Nat, priority : Int, limits : Limits]

Entry == [job : Jobs, key : Keys, depth : Nat, priority : Int, id : Nat]

ASSUME FrontierAssumption ==
  /\ Messages \subseteq Message
  /\ DomainOf \in [Keys -> Domains]
  /\ NoLimit \notin Nat
  /\ NoFrontier \notin Limits
  /\ NoUrl \notin Entry
  /\ MaxSize \in Nat
  /\ BatchSize \in Nat \ {0}
  /\ ChannelCap \in Nat \ {0}
  /\ FalsePositives \in BOOLEAN /\ MayShutdown \in BOOLEAN
  /\ MaxReceived \in Nat

VARIABLES
  limits,        \* job -> max_depth and max_pages of its frontier, if created
  seen,          \* job -> keys set in its Bloom filter
  queue,         \* job -> entries in its priority queue
  received, deduplicated, dispatched,   \* job -> the three counters
  collectorPc,   \* where the collector is
  todo,          \* jobs of its snapshot still to scan
  batch,         \* entries popped and not yet looked at
  hand,          \* the entry it is sending to the dispatcher
  channel,       \* mpsc channel from collector to dispatcher
  dispatcherPc, ready,                  \* the dispatcher and its entry
  domains,       \* state of the politeness scheduler
  shutdown,
  published, evicted, undelivered       \* history: where entries ended

jobVars        == <<limits, seen, queue, received, deduplicated>>
collectorVars  == <<collectorPc, todo, batch, hand>>
dispatcherVars == <<dispatcherPc, ready, dispatched>>
historyVars    == <<published, evicted, undelivered>>
vars == <<jobVars, collectorVars, channel, dispatcherVars, domains, shutdown,
          historyVars>>

P == INSTANCE Politeness

ASSUME SchedulerAssumption == P!PolitenessAssumption /\ P!UntrackedAssumption

-----------------------------------------------------------------------------
(* PriorityQueue, crates/scrapix-frontier/src/priority.rs                  *)

\* calculate_score with the service's weights: 100, -10 and 1000.
Score(e) == 100 * e.priority - 10 * e.depth + (IF e.depth = 0 THEN 1000 ELSE 0)

Lowest(q) == {e \in q : \A f \in q : Score(e) <= Score(f)}

\* The entries a push of e at capacity may push out: e itself when it does not
\* outrank the minimum, else one entry of the minimal score.
Victims(q, e) ==
  IF MaxSize = 0 \/ Cardinality(q) < MaxSize THEN {}
  ELSE IF \E f \in q : Score(e) <= Score(f) /\ f \in Lowest(q) THEN {e}
  ELSE Lowest(q)

\* push: q plus e, less the victim if there is one.
Push(j, e) ==
  \E out \in IF Victims(queue[j], e) = {} THEN {{}}
             ELSE {{v} : v \in Victims(queue[j], e)} :
    /\ queue' = [queue EXCEPT ![j] = (@ \cup {e}) \ out]
    /\ evicted' = evicted \cup out

\* pop_many: the n best entries of q.
Best(q, n) ==
  {b \in SUBSET q : /\ Cardinality(b) = (IF n <= Cardinality(q) THEN n ELSE Cardinality(q))
                    /\ \A e \in b, f \in q \ b : Score(e) >= Score(f)}

-----------------------------------------------------------------------------
Init ==
  /\ limits = [j \in Jobs |-> NoFrontier]
  /\ seen = [j \in Jobs |-> {}]
  /\ queue = [j \in Jobs |-> {}]
  /\ received = [j \in Jobs |-> 0]
  /\ deduplicated = [j \in Jobs |-> 0]
  /\ dispatched = [j \in Jobs |-> 0]
  /\ collectorPc = "tick" /\ todo = {} /\ batch = {} /\ hand = NoUrl
  /\ channel = <<>>
  /\ dispatcherPc = "recv" /\ ready = NoUrl
  /\ P!PolitenessInit
  /\ shutdown = FALSE
  /\ published = {} /\ evicted = {} /\ undelivered = {}

-----------------------------------------------------------------------------
(* Consumer: the handler of process_messages.  Creating the frontier and   *)
(* try_add are one step: the collector finds nothing in an empty frontier. *)
(* The recrawl scheduler and PageRank only change a message's priority, or *)
(* skip it, and leave this state alone.                                    *)

\* get_or_create_job: the first message to arrive decides the job's limits.
FrontierOf(m) == IF limits[m.job] = NoFrontier THEN m.limits ELSE limits[m.job]

TooDeep(m) == FrontierOf(m).depth # NoLimit /\ m.depth > FrontierOf(m).depth

EntryOf(m) == [job |-> m.job, key |-> m.key, depth |-> m.depth,
               priority |-> m.priority, id |-> received[m.job] + 1]

\* check_and_mark answers "seen" for every key that was set and, when the
\* filter errs, for one that was not.
MayBeSeen(m)    == m.key \in seen[m.job] \/ (FalsePositives /\ seen[m.job] # {})
MayBeUnseen_Mutant(m) == TRUE
MayBeUnseen(m)  == m.key \notin seen[m.job]

Receive(m) ==
  /\ ~shutdown
  /\ received[m.job] < MaxReceived
  /\ limits' = [limits EXCEPT ![m.job] = FrontierOf(m)]
  /\ received' = [received EXCEPT ![m.job] = @ + 1]
  /\ UNCHANGED <<collectorVars, channel, dispatcherVars, domains, shutdown,
                 published, undelivered>>

\* try_add returns false: too deep, or a duplicate.
Reject(m) ==
  /\ Receive(m)
  /\ TooDeep(m) \/ MayBeSeen(m)
  /\ deduplicated' = [deduplicated EXCEPT ![m.job] = @ + 1]
  /\ UNCHANGED <<seen, queue, evicted>>

\* try_add returns true.
Accept(m) ==
  /\ Receive(m)
  /\ ~TooDeep(m) /\ MayBeUnseen(m)
  /\ seen' = [seen EXCEPT ![m.job] = @ \cup {m.key}]
  /\ Push(m.job, EntryOf(m))
  /\ UNCHANGED deduplicated

-----------------------------------------------------------------------------
(* Collector: the task of start_collector.                                 *)

\* The tick, and the snapshot of the job map.
CollectorTick ==
  /\ collectorPc = "tick"
  /\ collectorPc' = "scan"
  /\ todo' = {j \in Jobs : limits[j] # NoFrontier}
  /\ UNCHANGED <<jobVars, batch, hand, channel, dispatcherVars, domains, shutdown,
                 historyVars>>

Budget_Mutant(j) == BatchSize

\* pop_ready: what max_pages leaves of the batch, by the dispatches counted so
\* far.  Reading the counter and popping commute with the other tasks' steps.
Budget(j) ==
  LET max == limits[j].pages
  IN  IF max = NoLimit THEN BatchSize
      ELSE IF dispatched[j] >= max THEN 0
      ELSE IF max - dispatched[j] <= BatchSize THEN max - dispatched[j]
      ELSE BatchSize

CollectorPop(j) ==
  /\ collectorPc = "scan" /\ batch = {} /\ hand = NoUrl
  /\ j \in todo
  /\ todo' = todo \ {j}
  /\ \E b \in Best(queue[j], Budget(j)) :
       /\ batch' = b
       /\ queue' = [queue EXCEPT ![j] = @ \ b]
  /\ UNCHANGED <<limits, seen, received, deduplicated, collectorPc, hand, channel,
                 dispatcherVars, domains, shutdown, historyVars>>

\* The next entry of the batch vector.
IsNext(e) == e \in batch /\ \A f \in batch : Score(f) <= Score(e)

\* can_fetch answers yes, start_request takes the slot.  Only this task starts
\* requests, and a release in between commutes with the start.
CollectorAdmit(e) ==
  /\ collectorPc = "scan" /\ hand = NoUrl /\ IsNext(e)
  /\ P!CanFetch(DomainOf[e.key])
  /\ P!StartRequest(DomainOf[e.key])
  /\ batch' = batch \ {e}
  /\ hand' = e
  /\ UNCHANGED <<jobVars, collectorPc, todo, channel, dispatcherVars, shutdown,
                 historyVars>>

CollectorDelay_Mutant(e) ==
  /\ collectorPc = "scan" /\ hand = NoUrl /\ IsNext(e)
  /\ ~P!CanFetch(DomainOf[e.key])
  /\ batch' = batch \ {e}
  /\ UNCHANGED <<jobVars, collectorPc, todo, hand, channel, dispatcherVars, domains,
                 shutdown, historyVars>>

\* can_fetch answers no: the entry goes back to the queue.
CollectorDelay(e) ==
  /\ collectorPc = "scan" /\ hand = NoUrl /\ IsNext(e)
  /\ ~P!CanFetch(DomainOf[e.key])
  /\ batch' = batch \ {e}
  /\ Push(e.job, e)
  /\ UNCHANGED <<limits, seen, received, deduplicated, collectorPc, todo, hand,
                 channel, dispatcherVars, domains, shutdown, published, undelivered>>

\* dispatch_tx.send, which waits while the channel is full.
CollectorSend ==
  /\ hand # NoUrl /\ dispatcherPc # "stopped"
  /\ Len(channel) < ChannelCap
  /\ channel' = Append(channel, hand)
  /\ hand' = NoUrl
  /\ UNCHANGED <<jobVars, collectorPc, todo, batch, dispatcherVars, domains, shutdown,
                 historyVars>>

\* The receiver is gone: send fails, the task returns with what it holds.
CollectorSendError ==
  /\ hand # NoUrl /\ dispatcherPc = "stopped"
  /\ undelivered' = undelivered \cup batch \cup {hand}
  /\ collectorPc' = "stopped" /\ todo' = {} /\ batch' = {} /\ hand' = NoUrl
  /\ UNCHANGED <<jobVars, channel, dispatcherVars, domains, shutdown, published, evicted>>

\* The end of a scan: the loop tests the shutdown flag.
CollectorLoop ==
  /\ collectorPc = "scan" /\ todo = {} /\ batch = {} /\ hand = NoUrl
  /\ collectorPc' = IF shutdown THEN "stopped" ELSE "tick"
  /\ UNCHANGED <<jobVars, todo, batch, hand, channel, dispatcherVars, domains,
                 shutdown, historyVars>>

-----------------------------------------------------------------------------
(* Dispatcher: the task of start_dispatcher.                               *)

DispatcherRecv ==
  /\ dispatcherPc = "recv" /\ channel # <<>>
  /\ ready' = Head(channel)
  /\ channel' = Tail(channel)
  /\ dispatcherPc' = "send"
  /\ UNCHANGED <<jobVars, collectorVars, dispatched, domains, shutdown, historyVars>>

\* recv returns None: the sender is gone and the channel is empty.
DispatcherClosed ==
  /\ dispatcherPc = "recv" /\ channel = <<>> /\ collectorPc = "stopped"
  /\ dispatcherPc' = "stopped"
  /\ UNCHANGED <<jobVars, collectorVars, channel, ready, dispatched, domains, shutdown,
                 historyVars>>

\* The message is on URL_PROCESSING.
DispatcherPublish ==
  /\ dispatcherPc = "send"
  /\ dispatcherPc' = "mark"
  /\ published' = published \cup {ready}
  /\ UNCHANGED <<jobVars, collectorVars, channel, ready, dispatched, domains, shutdown,
                 evicted, undelivered>>

\* mark_dispatched
DispatcherMark ==
  /\ dispatcherPc = "mark"
  /\ dispatcherPc' = "complete"
  /\ dispatched' = [dispatched EXCEPT ![ready.job] = @ + 1]
  /\ UNCHANGED <<jobVars, collectorVars, channel, ready, domains, shutdown, historyVars>>

\* The loop tests the shutdown flag; a stopping dispatcher drops its receiver,
\* and with it what the channel holds.
DispatcherLoop ==
  IF shutdown
  THEN /\ dispatcherPc' = "stopped"
       /\ channel' = <<>>
  ELSE /\ dispatcherPc' = "recv"
       /\ UNCHANGED channel

InChannel == {channel[i] : i \in 1..Len(channel)}

\* complete_request, and back to the loop.
DispatcherComplete ==
  /\ dispatcherPc = "complete"
  /\ P!CompleteRequest(DomainOf[ready.key])
  /\ ready' = NoUrl
  /\ DispatcherLoop
  /\ undelivered' = undelivered \cup (IF shutdown THEN InChannel ELSE {})
  /\ UNCHANGED <<jobVars, collectorVars, dispatched, shutdown, published, evicted>>

DispatcherFail_Mutant ==
  /\ dispatcherPc = "send"
  /\ ready' = NoUrl
  /\ DispatcherLoop
  /\ undelivered' = undelivered \cup {ready} \cup (IF shutdown THEN InChannel ELSE {})
  /\ UNCHANGED <<jobVars, collectorVars, dispatched, domains, shutdown, published, evicted>>

\* send fails: the URL is not requeued, its key stays in the Bloom filter.
DispatcherFail ==
  /\ dispatcherPc = "send"
  /\ P!FailedRequest(DomainOf[ready.key], FALSE)
  /\ ready' = NoUrl
  /\ DispatcherLoop
  /\ undelivered' = undelivered \cup {ready} \cup (IF shutdown THEN InChannel ELSE {})
  /\ UNCHANGED <<jobVars, collectorVars, dispatched, shutdown, published, evicted>>

-----------------------------------------------------------------------------
\* Time passes.
Elapse ==
  /\ P!Elapse
  /\ UNCHANGED <<jobVars, collectorVars, channel, dispatcherVars, shutdown, historyVars>>

\* A signal, or the idle watchdog, sets the flag.
Shutdown ==
  /\ MayShutdown /\ ~shutdown
  /\ shutdown' = TRUE
  /\ UNCHANGED <<jobVars, collectorVars, channel, dispatcherVars, domains, historyVars>>

Consumer == \E m \in Messages : Reject(m) \/ Accept(m)

CollectorHandle(e) == CollectorAdmit(e) \/ CollectorDelay(e)

Collector ==
  \/ CollectorTick
  \/ \E j \in Jobs : CollectorPop(j)
  \/ \E e \in batch : CollectorHandle(e)
  \/ CollectorSend \/ CollectorSendError \/ CollectorLoop

Dispatcher ==
  \/ DispatcherRecv \/ DispatcherClosed
  \/ DispatcherPublish \/ DispatcherFail
  \/ DispatcherMark \/ DispatcherComplete

Next == Consumer \/ Collector \/ Dispatcher \/ Elapse \/ Shutdown

Spec == Init /\ [][Next]_vars

\* The runtime keeps scheduling both tasks, time passes, and a publish ends,
\* in success or failure.  Nothing makes messages arrive or the service stop.
Fairness == WF_vars(Collector) /\ WF_vars(Dispatcher) /\ WF_vars(Elapse)

FairSpec == Spec /\ Fairness

-----------------------------------------------------------------------------
(* What the service must get right.                                        *)

\* Every variable has its type.
TypeOK ==
  /\ limits \in [Jobs -> Limits \cup {NoFrontier}]
  /\ seen \in [Jobs -> SUBSET Keys]
  /\ queue \in [Jobs -> SUBSET Entry]
  /\ received \in [Jobs -> Nat]
  /\ deduplicated \in [Jobs -> Nat]
  /\ dispatched \in [Jobs -> Nat]
  /\ collectorPc \in {"tick", "scan", "stopped"}
  /\ todo \subseteq Jobs
  /\ batch \subseteq Entry
  /\ hand \in Entry \cup {NoUrl}
  /\ channel \in Seq(Entry)
  /\ dispatcherPc \in {"recv", "send", "mark", "complete", "stopped"}
  /\ ready \in IF dispatcherPc \in {"send", "mark", "complete"} THEN Entry ELSE {NoUrl}
  /\ domains \in P!DomainsType
  /\ shutdown \in BOOLEAN
  /\ published \subseteq Entry /\ evicted \subseteq Entry /\ undelivered \subseteq Entry

\* The places an accepted entry can be.  An entry that was published stays
\* with the dispatcher until its slot is released: it counts as published.
Queued  == UNION {queue[j] : j \in Jobs}
Held    == {e \in {hand} : e # NoUrl}
Sending == {e \in {ready} : dispatcherPc = "send"}
Done    == published \cup evicted \cup undelivered
Known   == Queued \cup batch \cup Held \cup InChannel \cup Sending \cup Done

SameUrl(e, f) == e.job = f.job /\ e.key = f.key

\* A URL is in one place at a time, once: no interleaving of the three tasks,
\* no push-back and no second message makes a job's URL exist twice, so it is
\* published at most once and never after it was dropped.
InOnePlace ==
  /\ Queued \cap (batch \cup Held \cup InChannel \cup Sending \cup Done) = {}
  /\ batch \cap (Held \cup InChannel \cup Sending \cup Done) = {}
  /\ Held \cap (InChannel \cup Sending \cup Done) = {}
  /\ InChannel \cap (Sending \cup Done) = {}
  /\ Sending \cap Done = {}
  /\ published \cap (evicted \cup undelivered) = {}
  /\ evicted \cap undelivered = {}
  /\ \A i, k \in 1..Len(channel) : channel[i] = channel[k] => i = k

OneCopyPerUrl ==
  /\ InOnePlace
  /\ \A e, f \in Known : SameUrl(e, f) => e = f

\* No URL vanishes: a key in a job's Bloom filter, which no later message can
\* bring back, is still queued, on its way, published, or accounted for as
\* evicted at capacity or undelivered.  ("every unique URL accepted into the
\* bloom filter must also land in the queue", and does not get lost there.)
NoUrlVanishes ==
  \A j \in Jobs : \A k \in seen[j] : \E e \in Known : e.job = j /\ e.key = k

\* The politeness slots of a domain are exactly its entries between
\* start_request and the answer of the publish.  A leak would refuse the domain
\* for good once Concurrent slots are gone; a double release would admit more.
OnTheWay(d) ==
    Cardinality({i \in 1..Len(channel) : DomainOf[channel[i].key] = d})
  + Cardinality({e \in Held : DomainOf[e.key] = d})
  + Cardinality({e \in {ready} : e # NoUrl /\ DomainOf[e.key] = d})

SlotsMatchRequests ==
  ("stopped" \notin {collectorPc, dispatcherPc}) =>
    \A d \in Domains :
      /\ OnTheWay(d) = (IF domains[d] = Untracked THEN 0 ELSE domains[d].in_flight)
      /\ OnTheWay(d) <= Concurrent

PublishedOf(j) == {e \in published : e.job = j}

\* max_pages, which the comment on pop_ready calls exact, is overshot by little:
\* URLs popped and not yet counted are invisible to pop_ready, but they fit in
\* the channel and the dispatcher.
PageCapOvershootIsBounded ==
  \A j \in Jobs :
    (limits[j] # NoFrontier /\ limits[j].pages # NoLimit) =>
      Cardinality(PublishedOf(j)) <= limits[j].pages + ChannelCap + 1

\* A URL beyond the depth limit of the first message of its job is never
\* published, whatever the limits of the messages that follow.
DepthLimitHolds ==
  \A e \in published :
    limits[e.job].depth # NoLimit => e.depth <= limits[e.job].depth

\* The counters of a job add up: a message received is deduplicated (which is
\* also how a too-deep URL is counted) or its URL was accepted.
CountersAddUp ==
  \A j \in Jobs : received[j] = deduplicated[j] + Cardinality(seen[j])

\* A frontier that is not told to stop gets rid of every URL, unless its job
\* reached max_pages or a domain was paused by failing publishes: pushed-back
\* URLs are not starved by the ones in flight or in the channel.
Waiting(j, i) == \E e \in queue[j] \cup batch \cup Held : e.job = j /\ e.id = i
Capped(j)     == limits[j] # NoFrontier /\ limits[j].pages # NoLimit
                 /\ dispatched[j] >= limits[j].pages
SomePaused    == \E d \in Domains : domains[d] # Untracked /\ domains[d].paused

EveryUrlLeaves ==
  \A j \in Jobs, i \in 1..MaxReceived :
    Waiting(j, i) ~> (~Waiting(j, i) \/ Capped(j) \/ SomePaused \/ shutdown)

-----------------------------------------------------------------------------
(* The abstract specification and the mapping to it.                       *)

UrlsOf(S) == {<<e.job, e.key>> : e \in S}

Ledger == INSTANCE UrlLedger WITH
            accepted <- {u \in Jobs \X Keys : u[2] \in seen[u[1]]},
            handedOn <- UrlsOf(published),
            dropped  <- UrlsOf(evicted \cup undelivered)

\* The service keeps the ledger: every step is one of the ledger's or leaves
\* it unchanged.
KeepsLedger == Ledger!Spec

=============================================================================
