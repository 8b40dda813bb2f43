----------------------------- MODULE ScaleToZero -----------------------------
(***************************************************************************)
(* Workers that stop when idle and are started by a crawl: on each machine *)
(* one worker, with the watchdog that samples its counter of messages and  *)
(* sets its shutdown flag, and the loop that reads its topic.  The loop of *)
(* `process_concurrent' looks at the flag; that of `process' waits for the *)
(* next message and never does, its handler refuses the message instead.   *)
(*                                                                         *)
(* Time is in ticks; a timer that has run out stops the clock until it is  *)
(* served.  `sinceWork' is a history variable, up to the flag.             *)
(***************************************************************************)
EXTENDS Integers

CONSTANTS
  Machines,
  Crawlers,       \* those whose worker uses process_concurrent: the crawlers
  IdleTime,       \* IDLE_EXIT_MINUTES, in ticks
  SampleTime,     \* how often the watchdog samples: a sixth of it, at least 10 s
  MaxBacklog      \* bound: messages waiting for one machine

ASSUME ScaleAssumption ==
  Crawlers \subseteq Machines /\ {IdleTime, SampleTime, MaxBacklog} \subseteq Nat \ {0}

VARIABLES
  on,          \* whether the process runs
  flag,        \* its shutdown flag: why it is set, or "unset"
  busy,        \* whether a handler is at work
  counted,     \* whether the counter moved since the last sample
  sinceChange, \* time since a sample that saw it move (last_change)
  nextSample,  \* time to the next sample
  sinceWork,   \* time since it moved, or since the start
  backlog      \* messages in the worker's topic

scaleVars == <<on, flag, busy, counted, sinceChange, nextSample, sinceWork, backlog>>

Longest == IdleTime + 2 * SampleTime

ScaleTypeOK ==
  /\ on \in [Machines -> BOOLEAN] /\ busy \in [Machines -> BOOLEAN]
  /\ counted \in [Machines -> BOOLEAN]
  /\ flag \in [Machines -> {"unset", "idle", "signal"}]
  /\ sinceChange \in [Machines -> 0 .. Longest + 1] /\ sinceWork \in [Machines -> 0 .. Longest + 1]
  /\ nextSample \in [Machines -> 0 .. SampleTime]
  /\ backlog \in [Machines -> 0 .. MaxBacklog]

\* Suspended machines, nothing to do.
ScaleInit ==
  /\ on = [m \in Machines |-> FALSE] /\ flag = [m \in Machines |-> "unset"]
  /\ busy = [m \in Machines |-> FALSE] /\ counted = [m \in Machines |-> FALSE]
  /\ sinceChange = [m \in Machines |-> 0] /\ sinceWork = [m \in Machines |-> 0]
  /\ nextSample = [m \in Machines |-> SampleTime]
  /\ backlog = [m \in Machines |-> 0]

watchVars == <<counted, sinceChange, nextSample, sinceWork>>

Watched(m) == on[m] /\ flag[m] = "unset"

\* fan_out_worker_wakes, at the start of do_create_crawl: the ping starts a
\* machine that is off, and finds the listener of one that is on, or finds it
\* closed because the flag is set; either way it changes nothing there.
Wake(m) ==
  /\ ~on[m]
  /\ on' = [on EXCEPT ![m] = TRUE]
  /\ flag' = [flag EXCEPT ![m] = "unset"]
  /\ counted' = [counted EXCEPT ![m] = FALSE]
  /\ sinceChange' = [sinceChange EXCEPT ![m] = 0] /\ sinceWork' = [sinceWork EXCEPT ![m] = 0]
  /\ nextSample' = [nextSample EXCEPT ![m] = SampleTime]
  /\ UNCHANGED <<busy, backlog>>

\* The API or another worker publishes, whoever is there to read.
Publish(m) ==
  /\ backlog[m] < MaxBacklog
  /\ backlog' = [backlog EXCEPT ![m] = @ + 1]
  /\ UNCHANGED <<on, flag, busy, watchVars>>

\* The loop hands a message to the handler.
TakeMessage(m) ==
  /\ Watched(m) /\ backlog[m] > 0 /\ ~busy[m]
  /\ busy' = [busy EXCEPT ![m] = TRUE]
  /\ backlog' = [backlog EXCEPT ![m] = @ - 1]
  /\ UNCHANGED <<on, flag, watchVars>>

\* The handler of a worker that is stopping refuses; the message is committed.
RefuseMessage(m) ==
  /\ on[m] /\ flag[m] # "unset" /\ m \notin Crawlers /\ backlog[m] > 0 /\ ~busy[m]
  /\ backlog' = [backlog EXCEPT ![m] = @ - 1]
  /\ UNCHANGED <<on, flag, busy, watchVars>>

\* A handler ends, and counts.
FinishMessage(m) ==
  /\ on[m] /\ busy[m]
  /\ busy' = [busy EXCEPT ![m] = FALSE]
  /\ IF Watched(m)
     THEN /\ counted' = [counted EXCEPT ![m] = TRUE]
          /\ sinceWork' = [sinceWork EXCEPT ![m] = 0]
     ELSE UNCHANGED <<counted, sinceWork>>
  /\ UNCHANGED <<on, flag, sinceChange, nextSample, backlog>>

\* A sample that sees progress does not restart the window.
SampleCounter_Mutant(m) ==
  /\ Watched(m) /\ nextSample[m] = 0
  /\ counted' = [counted EXCEPT ![m] = FALSE]
  /\ flag' = [flag EXCEPT ![m] = IF ~counted[m] /\ sinceChange[m] >= IdleTime THEN "idle" ELSE @]
  /\ nextSample' = [nextSample EXCEPT ![m] = SampleTime]
  /\ UNCHANGED <<on, busy, sinceChange, sinceWork, backlog>>

\* spawn_idle_watchdog wakes up.
SampleCounter(m) ==
  /\ Watched(m) /\ nextSample[m] = 0
  /\ counted' = [counted EXCEPT ![m] = FALSE]
  /\ sinceChange' = [sinceChange EXCEPT ![m] = IF counted[m] THEN 0 ELSE @]
  /\ flag' = [flag EXCEPT ![m] = IF ~counted[m] /\ sinceChange[m] >= IdleTime THEN "idle" ELSE @]
  /\ nextSample' = [nextSample EXCEPT ![m] = SampleTime]
  /\ UNCHANGED <<on, busy, sinceWork, backlog>>

\* SIGTERM.
Signal(m) ==
  /\ Watched(m)
  /\ flag' = [flag EXCEPT ![m] = "signal"]
  /\ UNCHANGED <<on, busy, watchVars, backlog>>

\* process_concurrent sees the flag within 100 ms and leaves when no handler is
\* at work.
LeaveLoop(m) ==
  /\ on[m] /\ flag[m] # "unset" /\ m \in Crawlers /\ ~busy[m]
  /\ on' = [on EXCEPT ![m] = FALSE]
  /\ UNCHANGED <<flag, busy, watchVars, backlog>>

\* The platform kills a machine that it stops and that does not end in time.
Kill(m) ==
  /\ on[m] /\ flag[m] # "unset"
  /\ on' = [on EXCEPT ![m] = FALSE] /\ busy' = [busy EXCEPT ![m] = FALSE]
  /\ UNCHANGED <<flag, watchVars, backlog>>

Later(t) == IF t > Longest THEN t ELSE t + 1

\* The clock.  The watchdogs are prompt.
PassTime ==
  /\ \A m \in Machines : Watched(m) => nextSample[m] > 0
  /\ sinceChange' = [m \in Machines |->
       IF Watched(m) THEN Later(sinceChange[m]) ELSE sinceChange[m]]
  /\ sinceWork' = [m \in Machines |-> IF Watched(m) THEN Later(sinceWork[m]) ELSE sinceWork[m]]
  /\ nextSample' = [m \in Machines |-> IF Watched(m) THEN nextSample[m] - 1 ELSE nextSample[m]]
  /\ UNCHANGED <<on, flag, busy, counted, backlog>>

ScaleNext ==
  \/ PassTime
  \/ \E m \in Machines :
       \/ Wake(m) \/ Publish(m) \/ TakeMessage(m) \/ RefuseMessage(m) \/ FinishMessage(m)
       \/ SampleCounter(m) \/ Signal(m) \/ LeaveLoop(m) \/ Kill(m)

ScaleSpec == ScaleInit /\ [][ScaleNext]_scaleVars

----------------------------------------------------------------------------
(* Properties.                                                             *)

\* The watchdog stops a worker when its counter has stood still for the whole
\* idle time, and at most two samples later: it knows of progress only what its
\* samples show.
IdleWindow ==
  \A m \in Machines :
    /\ Watched(m) => sinceWork[m] <= Longest
    /\ flag[m] = "idle" => sinceWork[m] \in IdleTime .. Longest

=============================================================================
