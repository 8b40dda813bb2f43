---------------------------- MODULE Credentials ----------------------------
(***************************************************************************)
(* E-mail verification and password reset of one user                      *)
(* (bins/scrapix-api/src/auth/handlers/auth.rs).                           *)
(*                                                                         *)
(* Both go by tokens sent by e-mail.  Verifying is one guarded UPDATE;     *)
(* asking again, forgetting and resetting are a check and later writes, so *)
(* requests of the same user overlap.                                      *)
(*                                                                         *)
(* Abstractions.  Tokens are numbers in the order they are made.  A token  *)
(* that was mailed may be used at any time.  Expiry may come at any time.  *)
(*                                                                         *)
(* `unseen' is a history variable.                                         *)
(***************************************************************************)
EXTENDS Naturals, FiniteSets

CONSTANTS
  Forms,     \* requests that may be in flight together
  Unset,
  MaxMails,  \* bound: tokens of each kind
  MaxUnseen  \* bound: failed updates counted by `unseen'

ASSUME CredentialsAssumption ==
  MaxMails \in Nat \ {0} /\ MaxUnseen \in Nat /\ IsFiniteSet(Forms)

VARIABLES
  verified,      \* users.email_verified
  verification,  \* users.email_verification_token, or Unset
  mailed,        \* verification tokens mailed so far
  welcomes,      \* welcome e-mails scheduled
  resets,        \* password_reset_tokens: id -> "unmade", "live", "used" or "expired"
  made,          \* reset tokens made so far
  forms,         \* request -> what it has checked and not done yet, or Unset
  resetBy,       \* reset token -> passwords set with it
  unseen         \* tokens that the last invalidation did not see or that came after a failed one

credentialVars ==
  <<verified, verification, mailed, welcomes, resets, made, forms, resetBy, unseen>>

Mails == 1..MaxMails

Form == [op : {"resend", "forgot", "reset"}, token : Mails \cup {Unset}]

\* signup mails the first token.
CredentialsInit ==
  /\ verified = FALSE /\ verification = 1 /\ mailed = 1 /\ welcomes = 0
  /\ resets = [t \in Mails |-> "unmade"] /\ made = 0
  /\ forms = [f \in Forms |-> Unset]
  /\ resetBy = [t \in Mails |-> 0] /\ unseen = 0

VerifyEmail(t) ==
  /\ verification = t /\ ~verified
  /\ verified' = TRUE /\ verification' = Unset
  /\ welcomes' = welcomes + 1
  /\ UNCHANGED <<mailed, resets, made, forms, resetBy, unseen>>

\* A social login with this address verifies it; the token stays.
LinkIdentity ==
  /\ ~verified /\ verified' = TRUE
  /\ UNCHANGED <<verification, mailed, welcomes, resets, made, forms, resetBy, unseen>>

AskAgain(f) ==
  /\ forms[f] = Unset /\ ~verified
  /\ forms' = [forms EXCEPT ![f] = [op |-> "resend", token |-> Unset]]
  /\ UNCHANGED <<verified, verification, mailed, welcomes, resets, made, resetBy, unseen>>

\* The update does not look at email_verified again.
ResendVerification(f) ==
  /\ forms[f] # Unset /\ forms[f].op = "resend"
  /\ mailed < MaxMails
  /\ mailed' = mailed + 1 /\ verification' = mailed + 1
  /\ forms' = [forms EXCEPT ![f] = Unset]
  /\ UNCHANGED <<verified, welcomes, resets, made, resetBy, unseen>>

\* The requests that have yet to insert their token.
Forgetting == {f \in Forms : forms[f] # Unset /\ forms[f].op = "forgot"}

\* The UPDATE leaves the tokens of before.
ForgetOld_Mutant(f) ==
  /\ forms[f] = Unset
  /\ forms' = [forms EXCEPT ![f] = [op |-> "forgot", token |-> Unset]]
  /\ unseen' = Cardinality(Forgetting)
  /\ UNCHANGED <<verified, verification, mailed, welcomes, resets, made, resetBy>>

\* forgot_password invalidates the unused tokens, then inserts a new one, whether the
\* first UPDATE failed or not.
ForgetOld(f) ==
  /\ forms[f] = Unset
  /\ forms' = [forms EXCEPT ![f] = [op |-> "forgot", token |-> Unset]]
  /\ \/ /\ resets' = [t \in Mails |-> IF resets[t] = "live" THEN "used" ELSE resets[t]]
        /\ unseen' = Cardinality(Forgetting)
     \/ unseen < MaxUnseen /\ unseen' = unseen + 1 /\ UNCHANGED resets
  /\ UNCHANGED <<verified, verification, mailed, welcomes, made, resetBy>>

MailReset(f) ==
  /\ forms[f] # Unset /\ forms[f].op = "forgot"
  /\ made < MaxMails /\ made' = made + 1
  /\ resets' = [resets EXCEPT ![made + 1] = "live"]
  /\ forms' = [forms EXCEPT ![f] = Unset]
  /\ UNCHANGED <<verified, verification, mailed, welcomes, resetBy, unseen>>

CheckReset(f, t) ==
  /\ forms[f] = Unset /\ resets[t] = "live"
  /\ forms' = [forms EXCEPT ![f] = [op |-> "reset", token |-> t]]
  /\ UNCHANGED <<verified, verification, mailed, welcomes, resets, made, resetBy, unseen>>

\* The token is not marked as used.
ResetPassword_Mutant(f) ==
  /\ forms[f] # Unset /\ forms[f].op = "reset"
  /\ resetBy' = [resetBy EXCEPT ![forms[f].token] = @ + 1]
  /\ forms' = [forms EXCEPT ![f] = Unset]
  /\ UNCHANGED <<verified, verification, mailed, welcomes, resets, made, unseen>>

\* One transaction, which does not check the token again.
ResetPassword(f) ==
  /\ forms[f] # Unset /\ forms[f].op = "reset"
  /\ resets' = [resets EXCEPT ![forms[f].token] = "used"]
  /\ resetBy' = [resetBy EXCEPT ![forms[f].token] = @ + 1]
  /\ forms' = [forms EXCEPT ![f] = Unset]
  /\ UNCHANGED <<verified, verification, mailed, welcomes, made, unseen>>

\* A statement fails or the server stops.
AbandonForm(f) ==
  /\ forms[f] # Unset
  /\ forms' = [forms EXCEPT ![f] = Unset]
  /\ UNCHANGED <<verified, verification, mailed, welcomes, resets, made, resetBy, unseen>>

ExpireReset(t) ==
  /\ resets[t] = "live" /\ resets' = [resets EXCEPT ![t] = "expired"]
  /\ UNCHANGED <<verified, verification, mailed, welcomes, made, forms, resetBy, unseen>>

CredentialsNext ==
  \/ \E t \in Mails : VerifyEmail(t) \/ ExpireReset(t)
  \/ LinkIdentity
  \/ \E f \in Forms :
       \/ AskAgain(f) \/ ResendVerification(f)
       \/ ForgetOld(f) \/ MailReset(f)
       \/ \E t \in Mails : CheckReset(f, t)
       \/ ResetPassword(f) \/ AbandonForm(f)

-----------------------------------------------------------------------------

CredentialsTypeOK ==
  /\ verified \in BOOLEAN /\ verification \in Mails \cup {Unset} /\ mailed \in Mails
  /\ welcomes \in Nat /\ made \in 0..MaxMails
  /\ resets \in [Mails -> {"unmade", "live", "used", "expired"}]
  /\ forms \in [Forms -> Form \cup {Unset}]
  /\ resetBy \in [Mails -> Nat] /\ unseen \in Nat

\* However requests for mails, verifications and resets overlap, the user is
\* welcomed at most once, and a reset token sets at most one password for each
\* request that found it live at once.  One reset token is live at a time, so that a
\* reset leaves no other behind, but for one more per request that was between its
\* UPDATE and its INSERT at the last invalidation, or whose UPDATE failed since.
TokensActOnce ==
  /\ welcomes <= 1
  /\ \A t \in Mails : resetBy[t] <= Cardinality(Forms)
  /\ Cardinality({t \in Mails : resets[t] = "live"}) <= 1 + unseen

=============================================================================
