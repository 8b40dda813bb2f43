---------------------------- MODULE EventStreams ----------------------------
(***************************************************************************)
(* What becomes of the events of one job inside the API server: the        *)
(* consumer of the EVENTS topic applies an event to the job's state and    *)
(* then broadcasts it; the idle detector and the handler that creates a    *)
(* crawl broadcast too.  Whoever follows the job reads a bounded broadcast *)
(* ring: a WebSocket of the job, a WebSocket of the server that subscribed *)
(* to the job, or a request that waits for the crawl to end.  An event     *)
(* goes to ClickHouse through a batch: one for the events of the job's     *)
(* life, one for those of its pages.                                       *)
(*                                                                         *)
(* `got' and `excused' are history variables.                              *)
(***************************************************************************)
EXTENDS Integers, Sequences, FiniteSets, SequencesExt

CONSTANTS
  Viewers,     \* connections that follow the job
  NoEvent,     \* what an idle task holds
  RingSize,    \* the capacity of the broadcast channel (10 000)
  BatchSize,   \* the size at which a batch is inserted (100)
  MaxEvents    \* bound: events of the job

ASSUME EventAssumption ==
  /\ RingSize \in Nat \ {0} /\ BatchSize \in Nat \ {0} /\ MaxEvents \in Nat
  /\ NoEvent \notin 1 .. MaxEvents

VARIABLES
  kinds,     \* the events so far: kinds[e] is the kind of event e
  topic,     \* the EVENTS topic, what the consumer has not read
  holds,     \* the event a task has yet to broadcast
  applied,   \* events applied to the job's state
  ring,      \* everything broadcast; a viewer that falls behind loses its oldest
  viewers,   \* each connection: how far it is, its place in the ring, what it has seen
  adding,    \* events given to a spawned add, not yet in their batch
  batch,     \* the two batches in memory
  phase      \* "up", "stopping" (shutdown was signalled), "down"

eventVars ==
  <<kinds, topic, holds, applied, ring, viewers, adding, batch, phase>>

\* The job starts, a page is done, the job ends.
Kinds == {"start", "page", "end"}
Batches == {"life", "page"}
BatchOf(e) == IF kinds[e] = "page" THEN "page" ELSE "life"
Tasks == {"consumer", "detector", "creator"}
Events == 1 .. MaxEvents

\* A connection to the job's endpoint is "subscribed", then "open".  One to the
\* server's endpoint is "listening" until it follows the job, then "following".
\* A caller of create_crawl_sync is "polling" or "waiting" until it is "answered".
Away == [at |-> "away", next |-> 1, excused |-> {}, got |-> {}]
Following == {"open", "following"}

EventTypeOK ==
  /\ kinds \in Seq(Kinds) /\ Len(kinds) <= MaxEvents
  /\ topic \in Seq(Events) /\ ring \in Seq(Events)
  /\ holds \in [Tasks -> Events \cup {NoEvent}]
  /\ viewers \in [Viewers -> [at: {"away", "subscribed", "listening", "polling", "waiting",
                                   "answered"} \cup Following,
                              next: Nat, excused: SUBSET Events, got: SUBSET Events]]
  /\ batch \in [Batches -> Seq(Events)]
  /\ \A s \in {applied, adding} : s \subseteq 1 .. Len(kinds)
  /\ phase \in {"up", "stopping", "down"}

EventInit ==
  /\ kinds = <<>> /\ topic = <<>> /\ ring = <<>>
  /\ holds = [t \in Tasks |-> NoEvent]
  /\ viewers = [v \in Viewers |-> Away]
  /\ adding = {} /\ batch = [k \in Batches |-> <<>>]
  /\ applied = {}
  /\ phase = "up"

----------------------------------------------------------------------------
(* Events.                                                                 *)

NewEvent(kind) ==
  /\ phase = "up" /\ Len(kinds) < MaxEvents
  /\ kinds' = Append(kinds, kind)

\* A worker publishes an event of one of the job's pages.
WorkerReports ==
  /\ NewEvent("page")
  /\ topic' = Append(topic, Len(kinds'))
  /\ UNCHANGED <<holds, applied, ring, viewers, adding, batch, phase>>

\* do_create_crawl publishes JobStarted, or fails to, and will broadcast it
\* itself: viewers see it again when the consumer reads it.
AnnounceStart ==
  /\ holds["creator"] = NoEvent
  /\ NewEvent("start")
  /\ holds' = [holds EXCEPT !["creator"] = Len(kinds')]
  /\ \/ topic' = Append(topic, Len(kinds'))
     \/ UNCHANGED topic
  /\ UNCHANGED <<applied, ring, viewers, adding, batch, phase>>

\* process_event: the job's state now, its batch by a spawned task later.
Process(task, e) ==
  /\ applied' = applied \cup {e}
  /\ adding' = adding \cup {e}
  /\ holds' = [holds EXCEPT ![task] = e]

ConsumeEvent ==
  /\ phase = "up" /\ topic # <<>> /\ holds["consumer"] = NoEvent
  /\ Process("consumer", Head(topic))
  /\ topic' = Tail(topic)
  /\ UNCHANGED <<kinds, ring, viewers, batch, phase>>

\* The idle detector completes the job.
DetectIdle ==
  /\ holds["detector"] = NoEvent
  /\ NewEvent("end")
  /\ Process("detector", Len(kinds'))
  /\ UNCHANGED <<topic, ring, viewers, batch, phase>>

BroadcastEvent(task) ==
  /\ phase # "down" /\ holds[task] # NoEvent
  /\ ring' = Append(ring, holds[task])
  /\ holds' = [holds EXCEPT ![task] = NoEvent]
  /\ UNCHANGED <<kinds, topic, applied, viewers, adding, batch, phase>>

----------------------------------------------------------------------------
(* Whoever follows the job.                                                *)

OnlyViewersChange ==
  UNCHANGED <<kinds, topic, holds, applied, ring, adding, batch, phase>>

\* Each subscribes to the broadcast first: handle_job_ws_connection to send the
\* job's state next, handle_ws_connection to wait for the client's messages, and
\* create_crawl_sync, whose job exists by now, to look at it.
Subscribe(v) ==
  /\ phase = "up" /\ viewers[v].at = "away"
  /\ \E at \in {"subscribed", "listening", "polling"} :
       viewers' = [viewers EXCEPT ![v].at = at, ![v].next = Len(ring) + 1]
  /\ OnlyViewersChange

SendSnapshot(v) ==
  /\ phase # "down" /\ viewers[v].at = "subscribed"
  /\ viewers' = [viewers EXCEPT ![v].at = "open", ![v].excused = applied]
  /\ OnlyViewersChange

\* handle_ws_message: a client follows the job from now on, without its state.
FollowJob(v) ==
  /\ phase # "down" /\ viewers[v].at = "listening"
  /\ viewers' = [viewers EXCEPT ![v].at = "following", ![v].excused = applied]
  /\ OnlyViewersChange

UnfollowJob(v) ==
  /\ phase # "down" /\ viewers[v].at = "following"
  /\ viewers' = [viewers EXCEPT ![v] = [Away EXCEPT !.at = "listening", !.next = viewers[v].next]]
  /\ OnlyViewersChange

\* The client closes the socket, or it fails.
Leave(v) ==
  /\ phase # "down" /\ viewers[v].at \notin {"away", "polling", "waiting"}
  /\ viewers' = [viewers EXCEPT ![v] = Away]
  /\ OnlyViewersChange

\* The oldest broadcast the ring still has.
Oldest == IF Len(ring) > RingSize THEN Len(ring) - RingSize + 1 ELSE 1

\* A viewer that lagged subscribes again, at the end of the ring.
ForwardEvent_Mutant(v) ==
  /\ phase # "down" /\ viewers[v].at \in Following \cup {"listening"}
  /\ viewers[v].next <= Len(ring)
  /\ viewers' = [viewers EXCEPT
       ![v].next = IF @ < Oldest THEN Len(ring) + 1 ELSE @ + 1,
       ![v].got = IF viewers[v].next < Oldest THEN @ ELSE @ \cup {ring[viewers[v].next]},
       ![v].excused = @ \cup ToSet(SubSeq(ring, viewers[v].next, Oldest - 1))]
  /\ OnlyViewersChange

\* A socket forwards what it receives, from the oldest kept when it lagged; one of
\* the server drops what its client does not follow.
ForwardEvent(v) ==
  /\ phase # "down" /\ viewers[v].at \in Following \cup {"listening"}
  /\ viewers[v].next <= Len(ring)
  /\ LET from == IF viewers[v].next < Oldest THEN Oldest ELSE viewers[v].next
         skipped == ToSet(SubSeq(ring, viewers[v].next, from - 1))
         follows == viewers[v].at \in Following
     IN viewers' = [viewers EXCEPT
          ![v].next = from + 1,
          ![v].got = IF follows THEN @ \cup {ring[from]} ELSE @,
          ![v].excused = IF follows THEN @ \cup skipped ELSE @]
  /\ OnlyViewersChange

Ended == \E e \in applied : kinds[e] = "end"

\* The caller relies on the events alone.
LookAtJob_Mutant(v) ==
  /\ phase # "down" /\ viewers[v].at = "polling"
  /\ viewers' = [viewers EXCEPT ![v].at = "waiting"]
  /\ OnlyViewersChange

\* create_crawl_sync looks at the job before it waits, each time ...
LookAtJob(v) ==
  /\ phase # "down" /\ viewers[v].at = "polling"
  /\ viewers' = [viewers EXCEPT ![v].at = IF Ended THEN "answered" ELSE "waiting"]
  /\ OnlyViewersChange

\* ... for the next event, which may be the end ...
AwaitEvent(v) ==
  /\ phase # "down" /\ viewers[v].at = "waiting" /\ viewers[v].next <= Len(ring)
  /\ LET lagged == viewers[v].next < Oldest
         ends == ~lagged /\ kinds[ring[viewers[v].next]] = "end"
     IN viewers' = [viewers EXCEPT ![v].at = IF ends THEN "answered" ELSE "polling",
                                   ![v].next = IF lagged THEN Oldest ELSE @ + 1]
  /\ OnlyViewersChange

\* ... or for five seconds, and for an hour in all.
WaitExpires(v) ==
  /\ phase # "down" /\ viewers[v].at = "waiting"
  /\ \E at \in {"polling", "answered"} : viewers' = [viewers EXCEPT ![v].at = at]
  /\ OnlyViewersChange

----------------------------------------------------------------------------
(* ClickHouse.                                                             *)

\* The spawned EventBatcher::add.  flush takes the whole batch out of memory and
\* inserts it; an insert that fails loses it.
AddToBatch(e) ==
  /\ phase # "down" /\ e \in adding
  /\ adding' = adding \ {e}
  /\ LET pushed == Append(batch[BatchOf(e)], e)
     IN batch' = [batch EXCEPT ![BatchOf(e)] = IF Len(pushed) >= BatchSize THEN <<>> ELSE pushed]
  /\ UNCHANGED <<kinds, topic, holds, applied, ring, viewers, phase>>

\* The tick inserts a batch only when it is full.
FlushTick_Mutant ==
  /\ phase = "up" /\ Len(batch["life"]) >= BatchSize
  /\ batch' = [batch EXCEPT !["life"] = <<>>]
  /\ UNCHANGED <<kinds, topic, holds, applied, ring, viewers, adding, phase>>

\* The flush task, every five seconds: the batches of requests, of AI usage and
\* of the job's life.
FlushTick ==
  /\ phase = "up" /\ batch["life"] # <<>>
  /\ batch' = [batch EXCEPT !["life"] = <<>>]
  /\ UNCHANGED <<kinds, topic, holds, applied, ring, viewers, adding, phase>>

\* get_job_events_history flushes the page events before it queries them.
QueryHistory ==
  /\ phase = "up" /\ batch["page"] # <<>>
  /\ batch' = [batch EXCEPT !["page"] = <<>>]
  /\ UNCHANGED <<kinds, topic, holds, applied, ring, viewers, adding, phase>>

\* A signal to stop: the tasks end, the flush task with a last flush ...
Stop ==
  /\ phase = "up" /\ phase' = "stopping"
  /\ batch' = [batch EXCEPT !["life"] = <<>>]
  /\ UNCHANGED <<kinds, topic, holds, applied, ring, viewers, adding>>

\* ... and the process with them, whatever adds are still spawned.
Exit ==
  /\ phase = "stopping" /\ \A t \in Tasks : holds[t] = NoEvent
  /\ phase' = "down"
  /\ adding' = {} /\ batch' = [k \in Batches |-> <<>>]
  /\ UNCHANGED <<kinds, topic, holds, applied, ring, viewers>>

EventNext ==
  \/ WorkerReports \/ AnnounceStart \/ ConsumeEvent \/ DetectIdle
  \/ \E t \in Tasks : BroadcastEvent(t)
  \/ \E v \in Viewers :
       \/ Subscribe(v) \/ SendSnapshot(v) \/ FollowJob(v) \/ UnfollowJob(v) \/ Leave(v)
       \/ ForwardEvent(v) \/ LookAtJob(v) \/ AwaitEvent(v) \/ WaitExpires(v)
  \/ \E e \in Events : AddToBatch(e)
  \/ FlushTick \/ QueryHistory \/ Stop \/ Exit

\* Tasks run and the flush task ticks.  Nobody has to query the history.
EventFairness ==
  /\ WF_eventVars(ConsumeEvent) /\ WF_eventVars(FlushTick)
  /\ \A t \in Tasks : WF_eventVars(BroadcastEvent(t))
  /\ \A e \in Events : WF_eventVars(AddToBatch(e))
  /\ \A v \in Viewers : WF_eventVars(LookAtJob(v)) /\ WF_eventVars(WaitExpires(v))

EventSpec == EventInit /\ [][EventNext]_eventVars /\ EventFairness

----------------------------------------------------------------------------
(* Properties.                                                             *)

\* Following a job that runs loses nothing but what the ring overwrote: an event
\* applied to the job is in the state the viewer was sent or from before it
\* followed the job or was skipped for lag, or was sent to it, or is still to come.
ViewersMissNothing ==
  \A v \in Viewers :
    viewers[v].at \in Following =>
      applied \subseteq
        viewers[v].excused \cup viewers[v].got
          \cup ToSet(SubSeq(ring, viewers[v].next, Len(ring)))
          \cup {holds[t] : t \in Tasks}

Pending(e, name) ==
  /\ phase = "up" /\ e \in adding \cup ToSet(batch["life"] \o batch["page"])
  /\ BatchOf(e) = name

\* While the server is up, an event of the job's life does not stay in memory:
\* batches are flushed, and an add that comes between two flushes waits for the
\* next only.
LifecycleIsStored == \A e \in Events : Pending(e, "life") ~> ~Pending(e, "life")

\* Whoever waits for a crawl that ended gets an answer, also when the end came
\* before it subscribed or was overwritten in the ring.
CallersAreAnswered ==
  \A v \in Viewers :
    (viewers[v].at \in {"polling", "waiting"} /\ Ended /\ phase = "up") ~>
      (viewers[v].at = "answered" \/ phase # "up")

\* What the API promises about events comes, in the end.
EventsArrive == LifecycleIsStored /\ CallersAreAnswered

\* The comment on process_event says that page events are persisted to
\* ClickHouse.  Those of a batch that never fills stay in memory until somebody
\* queries the history, and a shutdown drops them.
PageEventsAreStored == \A e \in Events : Pending(e, "page") ~> ~Pending(e, "page")

=============================================================================
