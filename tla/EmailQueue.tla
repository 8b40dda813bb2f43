----------------------------- MODULE EmailQueue -----------------------------
(***************************************************************************)
(* The queue of e-mails in Postgres (bins/scrapix-api/src/                 *)
(* email_scheduler.rs), polled by every API server.                        *)
(*                                                                         *)
(* A poll claims the due rows by counting an attempt in one statement,     *)
(* then sends them one after the other and records each outcome.  Nothing  *)
(* marks a row as being sent: until the outcome is recorded another poll,  *)
(* of another server or after a crash, claims it again.                    *)
(*                                                                         *)
(* Abstractions.  The delay before an attempt is "waiting" until it ends   *)
(* at some moment.  A row is dispatched with what was stored: "valid", or  *)
(* "broken" for a missing token or an unknown type, which fails before     *)
(* anything is sent.  A send is delivered and answered, refused, or        *)
(* delivered with the answer lost.                                         *)
(***************************************************************************)
EXTENDS Naturals, FiniteSets

CONSTANTS
  Emails, Pollers,
  NoRow,
  MaxAttempts,    \* MAX_ATTEMPTS (5)
  EmailBatch,     \* LIMIT of the claim (50)
  MaxEmailFaults  \* bound: crashes and failed updates

ASSUME EmailAssumption ==
  /\ MaxAttempts \in Nat \ {0} /\ EmailBatch \in Nat \ {0} /\ MaxEmailFaults \in Nat

VARIABLES
  queue,       \* email -> its row, or NoRow
  claimed,     \* poller -> the emails of its batch not dispatched yet
  outcome,     \* poller -> the outcome it is about to record, or NoRow
  accepted,    \* email -> times the provider took it
  emailFaults

emailVars == <<queue, claimed, outcome, accepted, emailFaults>>

EmailRow == [content : {"valid", "broken"}, sent : BOOLEAN,
             attempts : 0..MaxAttempts, waiting : BOOLEAN]

\* NoRow is nothing else.
ASSUME NoRowAssumption == NoRow \notin EmailRow \cup [id : Emails, ok : BOOLEAN]

EmailInit ==
  /\ queue = [e \in Emails |-> NoRow]
  /\ claimed = [p \in Pollers |-> {}]
  /\ outcome = [p \in Pollers |-> NoRow]
  /\ accepted = [e \in Emails |-> 0]
  /\ emailFaults = 0

ScheduleEmail(e) ==
  /\ queue[e] = NoRow
  /\ \E content \in {"valid", "broken"}, later \in BOOLEAN :
       queue' = [queue EXCEPT
         ![e] = [content |-> content, sent |-> FALSE, attempts |-> 0, waiting |-> later]]
  /\ UNCHANGED <<claimed, outcome, accepted, emailFaults>>

\* send_at or next_attempt_at has passed.
BecomesDue(e) ==
  /\ queue[e] # NoRow /\ queue[e].waiting
  /\ queue' = [queue EXCEPT ![e].waiting = FALSE]
  /\ UNCHANGED <<claimed, outcome, accepted, emailFaults>>

\* One attempt more.
\* Rows already sent are due too.
EmailIsDue_Mutant(e) ==
  /\ queue[e] # NoRow /\ ~queue[e].waiting
  /\ queue[e].attempts < MaxAttempts

EmailIsDue(e) ==
  /\ queue[e] # NoRow /\ ~queue[e].sent /\ ~queue[e].waiting
  /\ queue[e].attempts < MaxAttempts

\* The claim counts no attempt.
ClaimDue_Mutant(p) ==
  LET ready == {e \in Emails : EmailIsDue(e)}
  IN  /\ claimed[p] = {} /\ outcome[p] = NoRow /\ ready # {}
      /\ claimed' = [claimed EXCEPT ![p] = {CHOOSE e \in ready : TRUE}]
      /\ UNCHANGED <<queue, outcome, accepted, emailFaults>>

\* The oldest due rows, in the order of send_at, which is any order here.
ClaimDue(p) ==
  LET ready == {e \in Emails : EmailIsDue(e)}
  IN  /\ claimed[p] = {} /\ outcome[p] = NoRow /\ ready # {}
      /\ \E batch \in SUBSET ready :
           /\ Cardinality(batch) = IF Cardinality(ready) < EmailBatch
                                   THEN Cardinality(ready) ELSE EmailBatch
           /\ claimed' = [claimed EXCEPT ![p] = batch]
           /\ queue' = [e \in Emails |-> IF e \in batch
                          THEN [queue[e] EXCEPT !.attempts = @ + 1] ELSE queue[e]]
      /\ UNCHANGED <<outcome, accepted, emailFaults>>

\* dispatch: the answer is what send_checked reports, not what the provider did.
Dispatch(p) ==
  /\ outcome[p] = NoRow
  /\ \E e \in claimed[p], took, answered \in BOOLEAN :
       /\ took => queue[e].content = "valid"
       /\ claimed' = [claimed EXCEPT ![p] = @ \ {e}]
       /\ accepted' = IF took THEN [accepted EXCEPT ![e] = @ + 1] ELSE accepted
       /\ outcome' = [outcome EXCEPT ![p] = [id |-> e, ok |-> took /\ answered]]
  /\ UNCHANGED <<queue, emailFaults>>

RecordOutcome(p) ==
  /\ outcome[p] # NoRow
  /\ outcome' = [outcome EXCEPT ![p] = NoRow]
  /\ queue' = IF outcome[p].ok THEN [queue EXCEPT ![outcome[p].id].sent = TRUE]
              ELSE [queue EXCEPT ![outcome[p].id].waiting = TRUE]
  /\ UNCHANGED <<claimed, accepted, emailFaults>>

\* `.ok()`: a failed update is ignored.
RecordFails(p) ==
  /\ outcome[p] # NoRow /\ emailFaults < MaxEmailFaults
  /\ outcome' = [outcome EXCEPT ![p] = NoRow]
  /\ emailFaults' = emailFaults + 1
  /\ UNCHANGED <<queue, claimed, accepted>>

CrashPoller(p) ==
  /\ claimed[p] # {} \/ outcome[p] # NoRow
  /\ emailFaults < MaxEmailFaults
  /\ claimed' = [claimed EXCEPT ![p] = {}]
  /\ outcome' = [outcome EXCEPT ![p] = NoRow]
  /\ emailFaults' = emailFaults + 1
  /\ UNCHANGED <<queue, accepted>>

EmailNext ==
  \/ \E e \in Emails : ScheduleEmail(e) \/ BecomesDue(e)
  \/ \E p \in Pollers :
       ClaimDue(p) \/ Dispatch(p) \/ RecordOutcome(p) \/ RecordFails(p) \/ CrashPoller(p)

EmailSpec == EmailInit /\ [][EmailNext]_emailVars

EmailTypeOK ==
  /\ queue \in [Emails -> EmailRow \cup {NoRow}]
  /\ claimed \in [Pollers -> SUBSET Emails]
  /\ outcome \in [Pollers -> [id : Emails, ok : BOOLEAN] \cup {NoRow}]
  /\ accepted \in [Emails -> Nat]
  /\ emailFaults \in 0..MaxEmailFaults

-----------------------------------------------------------------------------

\* Once an e-mail is marked sent no poll takes it up again: what remains are
\* the copies that other polls had claimed before, and the mark stays.
SentIsNotClaimed ==
  [][\A e \in Emails :
       queue[e] # NoRow /\ queue[e].sent =>
         queue'[e].sent /\ \A p \in Pollers : e \in claimed'[p] => e \in claimed[p]]_emailVars

Settled(e) ==
  /\ queue[e] # NoRow
  /\ IF queue[e].sent THEN accepted[e] > 0 ELSE queue[e].attempts = MaxAttempts

\* Every scheduled e-mail is settled in the end: marked as sent, after it was
\* delivered, or given up after MAX_ATTEMPTS attempts, whatever crashes or
\* fails on the way.
EmailSettles == \A e \in Emails : queue[e] # NoRow ~> Settled(e)

\* An e-mail is handled: settled in the end, and once sent left alone.
EmailsAreHandled == SentIsNotClaimed /\ EmailSettles

=============================================================================
