---------------------------- MODULE CronConfigs ----------------------------
(***************************************************************************)
(* Saved crawl configurations and the cron scheduler                       *)
(* (bins/scrapix-api/src/configs.rs), run by every API server against one  *)
(* table, crawl_configs.                                                   *)
(*                                                                         *)
(* A tick selects the due rows in one statement (FOR UPDATE SKIP LOCKED    *)
(* outside a transaction locks nothing once the statement has ended),      *)
(* starts their crawls one after the other, and after each writes the next *)
(* run it computed from the expression it had read.  Meanwhile users edit  *)
(* rows, by a read and a later write of the whole row, and servers crash.  *)
(*                                                                         *)
(* Abstractions.  Of a row only what schedules it is kept.  An expression  *)
(* is the period at whose multiples it fires.  Whether the crawl is        *)
(* started, refused or unreadable is free.  Selections are atomic, so      *)
(* SKIP LOCKED never skips.  0 is NULL.                                    *)
(***************************************************************************)
EXTENDS Naturals, FiniteSets

CONSTANTS
  Configs, Servers, Editors,
  Nil,         \* no row, no expression, no request, no pending write
  Keep,        \* a field that a request leaves out
  Periods,     \* the cron expressions
  CronBatch,   \* LIMIT of the selection (50)
  MaxTime,     \* bound: the clock
  MaxEdits,    \* bound: creations, edits and deletions
  MaxFaults    \* bound: crashes and failed writes

ASSUME CronAssumption ==
  /\ Periods \subseteq Nat \ {0} /\ CronBatch \in Nat \ {0}
  /\ MaxTime \in Nat /\ MaxEdits \in Nat /\ MaxFaults \in Nat
  /\ IsFiniteSet(Servers)

VARIABLES
  clock,
  configs,   \* config -> its row, or Nil
  drafts,    \* editor -> the row an update_config has read and its request
  due,       \* server -> what the tick has selected and not reached yet
  advance,   \* server -> the update of next_run_at it is about to make
  offers,    \* config -> slot -> times next_run_at was set to it
  runs,      \* config -> slot -> crawls started for it by the scheduler
  edits, faults

cronVars == <<clock, configs, drafts, due, advance, offers, runs, edits, faults>>

MaxPeriod == CHOOSE p \in Periods : \A q \in Periods : q <= p
Slots     == 1..(MaxTime + MaxPeriod)

ASSUME PeriodAssumption == MaxPeriod \in Periods /\ \A p \in Periods : p <= MaxPeriod

Row   == [enabled : BOOLEAN, expr : Periods \cup {Nil}, next : {0} \cup Slots]
Draft == [id : Configs, enabled : BOOLEAN, expr : Periods \cup {Nil}]

DueRow    == [id : Configs, expr : Periods, slot : Slots]
NextWrite == [id : Configs, next : Slots]

\* Nothing is taken for what it stands in for.
ASSUME NilAssumption ==
  /\ Nil \notin Row \cup Draft \cup NextWrite \cup Periods
  /\ Keep \notin BOOLEAN /\ Keep \notin Periods

\* compute_next_run: the first occurrence after now.
NextRun(p) == ((clock \div p) + 1) * p

\* The next_run_at of a row that is written as a whole.
Reschedule(enabled, expr) == IF enabled /\ expr # Nil THEN NextRun(expr) ELSE 0

\* Bookkeeping of the slots offered to the scheduler.
Offer(c, slot) ==
  offers' = IF slot = 0 THEN offers ELSE [offers EXCEPT ![c][slot] = @ + 1]

CronInit ==
  /\ clock = 0
  /\ configs = [c \in Configs |-> Nil]
  /\ drafts = [u \in Editors |-> Nil]
  /\ due = [s \in Servers |-> {}]
  /\ advance = [s \in Servers |-> Nil]
  /\ offers = [c \in Configs |-> [t \in Slots |-> 0]]
  /\ runs = [c \in Configs |-> [t \in Slots |-> 0]]
  /\ edits = 0 /\ faults = 0

-----------------------------------------------------------------------------
(* The endpoints                                                           *)

Edit == edits < MaxEdits /\ edits' = edits + 1

CreateConfig(c, enabled, expr) ==
  LET slot == Reschedule(enabled, expr)
  IN  /\ Edit /\ configs[c] = Nil
      /\ configs' = [configs EXCEPT ![c] = [enabled |-> enabled, expr |-> expr, next |-> slot]]
      /\ Offer(c, slot)
      /\ UNCHANGED <<clock, drafts, due, advance, runs, faults>>

\* update_config reads the row; a field of the request may be absent.
ReadConfig(u, c, enabled, expr) ==
  /\ Edit /\ drafts[u] = Nil /\ configs[c] # Nil
  /\ drafts' = [drafts EXCEPT
       ![u] = [id |-> c,
               enabled |-> IF enabled = Keep THEN configs[c].enabled ELSE enabled,
               expr    |-> IF expr = Keep THEN configs[c].expr ELSE expr]]
  /\ UNCHANGED <<clock, configs, due, advance, offers, runs, faults>>

\* The update leaves next_run_at as it was.
SaveConfig_Mutant(u) ==
  LET d == drafts[u]
  IN  /\ d # Nil
      /\ drafts' = [drafts EXCEPT ![u] = Nil]
      /\ IF configs[d.id] # Nil
         THEN configs' = [configs EXCEPT ![d.id].enabled = d.enabled, ![d.id].expr = d.expr]
         ELSE UNCHANGED configs
      /\ UNCHANGED <<clock, due, advance, offers, runs, edits, faults>>

\* ... and writes all of it, whatever has changed since.
SaveConfig(u) ==
  LET d    == drafts[u]
      slot == Reschedule(d.enabled, d.expr)
  IN  /\ d # Nil
      /\ drafts' = [drafts EXCEPT ![u] = Nil]
      /\ IF configs[d.id] # Nil
         THEN /\ configs' = [configs EXCEPT
                   ![d.id] = [enabled |-> d.enabled, expr |-> d.expr, next |-> slot]]
              /\ Offer(d.id, slot)
         ELSE UNCHANGED <<configs, offers>>
      /\ UNCHANGED <<clock, due, advance, runs, edits, faults>>

DeleteConfig(c) ==
  /\ Edit /\ configs[c] # Nil
  /\ configs' = [configs EXCEPT ![c] = Nil]
  /\ UNCHANGED <<clock, drafts, due, advance, offers, runs, faults>>

-----------------------------------------------------------------------------
(* run_cron_tick                                                           *)

IsDue(c) ==
  /\ configs[c] # Nil /\ configs[c].enabled /\ configs[c].expr # Nil
  /\ configs[c].next \in 1..clock

\* The rows one tick takes: all that are due, or any CronBatch of them.
Batches ==
  LET all == {c \in Configs : IsDue(c)}
  IN  IF Cardinality(all) <= CronBatch THEN {all}
      ELSE {b \in SUBSET all : Cardinality(b) = CronBatch}

SelectDue(s) ==
  /\ due[s] = {} /\ advance[s] = Nil
  /\ \E b \in Batches \ {{}} :
       due' = [due EXCEPT
         ![s] = {[id |-> c, expr |-> configs[c].expr, slot |-> configs[c].next] : c \in b}]
  /\ UNCHANGED <<clock, configs, drafts, advance, offers, runs, edits, faults>>

\* The stored configuration does not deserialize: cron is switched off.
DisableUnreadable(s) ==
  /\ advance[s] = Nil
  /\ \E r \in due[s] :
       /\ due' = [due EXCEPT ![s] = @ \ {r}]
       /\ configs' = IF configs[r.id] = Nil THEN configs
                     ELSE [configs EXCEPT ![r.id].enabled = FALSE]
  /\ UNCHANGED <<clock, drafts, advance, offers, runs, edits, faults>>

\* do_create_crawl starts the crawl or refuses; either way a next run follows.
TriggerDue(s) ==
  /\ advance[s] = Nil
  /\ \E r \in due[s], started \in BOOLEAN :
       /\ due' = [due EXCEPT ![s] = @ \ {r}]
       /\ runs' = IF started THEN [runs EXCEPT ![r.id][r.slot] = @ + 1] ELSE runs
       /\ advance' = [advance EXCEPT ![s] = [id |-> r.id, next |-> NextRun(r.expr)]]
  /\ UNCHANGED <<clock, configs, drafts, offers, edits, faults>>

\* The next slot is not written.
AdvanceNextRun_Mutant(s) ==
  /\ advance[s] # Nil
  /\ advance' = [advance EXCEPT ![s] = Nil]
  /\ UNCHANGED <<clock, configs, offers, drafts, due, runs, edits, faults>>

AdvanceNextRun(s) ==
  LET w == advance[s]
  IN  /\ w # Nil
      /\ advance' = [advance EXCEPT ![s] = Nil]
      /\ IF configs[w.id] # Nil
         THEN /\ configs' = [configs EXCEPT ![w.id].next = w.next]
              /\ Offer(w.id, w.next)
         ELSE UNCHANGED <<configs, offers>>
      /\ UNCHANGED <<clock, drafts, due, runs, edits, faults>>

Fault == faults < MaxFaults /\ faults' = faults + 1

\* `let _ =`: a failed update is ignored.
AdvanceFails(s) ==
  /\ Fault /\ advance[s] # Nil
  /\ advance' = [advance EXCEPT ![s] = Nil]
  /\ UNCHANGED <<clock, configs, drafts, due, offers, runs, edits>>

CrashServer(s) ==
  /\ Fault /\ (due[s] # {} \/ advance[s] # Nil)
  /\ due' = [due EXCEPT ![s] = {}]
  /\ advance' = [advance EXCEPT ![s] = Nil]
  /\ UNCHANGED <<clock, configs, drafts, offers, runs, edits>>

ClockTick ==
  /\ clock < MaxTime /\ clock' = clock + 1
  /\ UNCHANGED <<configs, drafts, due, advance, offers, runs, edits, faults>>

CronNext ==
  \/ \E c \in Configs :
       \/ \E enabled \in BOOLEAN, expr \in Periods \cup {Nil} : CreateConfig(c, enabled, expr)
       \/ \E u \in Editors, enabled \in BOOLEAN \cup {Keep}, expr \in Periods \cup {Keep, Nil} :
            ReadConfig(u, c, enabled, expr)
       \/ DeleteConfig(c)
  \/ \E u \in Editors : SaveConfig(u)
  \/ \E s \in Servers :
       \/ SelectDue(s) \/ DisableUnreadable(s) \/ TriggerDue(s)
       \/ AdvanceNextRun(s) \/ AdvanceFails(s) \/ CrashServer(s)
  \/ ClockTick

CronSpec == CronInit /\ [][CronNext]_cronVars

-----------------------------------------------------------------------------

CronTypeOK ==
  /\ clock \in 0..MaxTime /\ edits \in 0..MaxEdits /\ faults \in 0..MaxFaults
  /\ configs \in [Configs -> Row \cup {Nil}]
  /\ drafts \in [Editors -> Draft \cup {Nil}]
  /\ due \in [Servers -> SUBSET DueRow]
  /\ advance \in [Servers -> NextWrite \cup {Nil}]
  /\ offers \in [Configs -> [Slots -> Nat]] /\ runs \in [Configs -> [Slots -> Nat]]

\* However many servers tick at once and whatever is edited meanwhile, the
\* crawls started for one scheduled time are at most one per server and per
\* time next_run_at was set to it, and one more per crash or failed update.
SlotRunsAreBounded ==
  \A c \in Configs, t \in Slots :
    runs[c][t] <= offers[c][t] * Cardinality(Servers) + faults

\* Enabled with an expression, and overdue or without a next run at all.
Neglected(c) ==
  /\ configs[c] # Nil /\ configs[c].enabled /\ configs[c].expr # Nil
  /\ configs[c].next \in 0..clock

\* No enabled configuration stays overdue, and none loses its next run: the
\* scheduler gets to it, unless it is edited or deleted first.
DueConfigRuns == \A c \in Configs : Neglected(c) ~> ~Neglected(c)

=============================================================================
