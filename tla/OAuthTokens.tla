---------------------------- MODULE OAuthTokens ----------------------------
(***************************************************************************)
(* Authorization codes and tokens of the OAuth server                      *)
(* (bins/scrapix-api/src/auth/oauth.rs, tables in                          *)
(* deploy/postgres/init.sql).                                              *)
(*                                                                         *)
(* An exchange is a SELECT, an UPDATE that uses the code or the refresh    *)
(* token up, and two INSERTs, each a statement of its own; the update does *)
(* not repeat the check.  An hourly task deletes what has been dead for a  *)
(* while, in one statement that fails if a token it deletes is still the   *)
(* parent of one it does not (parent_token_id REFERENCES oauth_tokens).    *)
(*                                                                         *)
(* Abstractions.  Time is in days, so that a code and an access token      *)
(* (10 minutes, 1 hour) live for the day they are issued on.  Client,      *)
(* redirect URI, PKCE and grant type are checked by the request alone and  *)
(* hold.  A code stands for the grant all its tokens descend from.         *)
(***************************************************************************)
EXTENDS Naturals, FiniteSets

CONSTANTS
  Codes, Exchanges,
  NoToken,      \* no row, no parent, no exchange
  RefreshLife,  \* days a refresh token lives (30)
  KeepDays,     \* days a dead token is kept (7)
  MaxTokens,    \* bound: tokens issued
  MaxDays       \* bound: the clock

ASSUME OAuthAssumption ==
  /\ RefreshLife \in Nat /\ KeepDays \in Nat /\ MaxTokens \in Nat /\ MaxDays \in Nat
  /\ IsFiniteSet(Exchanges)

VARIABLES
  today,
  codes,      \* code -> "new", "live", "used" or "deleted", with its last day
  tokens,     \* oauth_tokens: id -> its row, or NoToken
  issued,     \* ids used so far
  exchanges,  \* request -> where its exchange is, or NoToken
  overlaps    \* code -> updates that used up what was used up already

oauthVars == <<today, codes, tokens, issued, exchanges, overlaps>>

TokenIds == 1..MaxTokens

\* A row of oauth_tokens.
Token == [kind : {"access", "refresh"}, code : Codes, parent : TokenIds \cup {NoToken},
          created : Nat, revoked : BOOLEAN]

Exchange == [step : {"use", "access", "refresh"}, code : Codes, parent : TokenIds \cup {NoToken}]

Rows == {t \in TokenIds : tokens[t] # NoToken}

LastDay(t) == tokens[t].created + (IF tokens[t].kind = "refresh" THEN RefreshLife ELSE 0)

OAuthInit ==
  /\ today = 0
  /\ codes = [c \in Codes |-> [state |-> "new", lastDay |-> 0]]
  /\ tokens = [t \in TokenIds |-> NoToken] /\ issued = 0
  /\ exchanges = [r \in Exchanges |-> NoToken]
  /\ overlaps = [c \in Codes |-> 0]

\* authorize_post
Authorize(c) ==
  /\ codes[c].state = "new"
  /\ codes' = [codes EXCEPT ![c] = [state |-> "live", lastDay |-> today]]
  /\ UNCHANGED <<today, tokens, issued, exchanges, overlaps>>

LookUpCode(r, c) ==
  /\ exchanges[r] = NoToken
  /\ codes[c].state = "live" /\ today <= codes[c].lastDay
  /\ exchanges' = [exchanges EXCEPT ![r] = [step |-> "use", code |-> c, parent |-> NoToken]]
  /\ UNCHANGED <<today, codes, tokens, issued, overlaps>>

UseCode(r) ==
  LET x == exchanges[r]
  IN  /\ x # NoToken /\ x.step = "use" /\ x.parent = NoToken
      /\ codes' = IF codes[x.code].state = "live" THEN [codes EXCEPT ![x.code].state = "used"]
                  ELSE codes
      /\ overlaps' = IF codes[x.code].state = "live" THEN overlaps
                     ELSE [overlaps EXCEPT ![x.code] = @ + 1]
      /\ exchanges' = [exchanges EXCEPT ![r].step = "access"]
      /\ UNCHANGED <<today, tokens, issued>>

LookUpRefresh(r, t) ==
  /\ exchanges[r] = NoToken /\ t \in Rows
  /\ tokens[t].kind = "refresh" /\ ~tokens[t].revoked /\ today <= LastDay(t)
  /\ exchanges' = [exchanges EXCEPT ![r] = [step |-> "use", code |-> tokens[t].code, parent |-> t]]
  /\ UNCHANGED <<today, codes, tokens, issued, overlaps>>

\* The token that was used stays valid.
RotateRefresh_Mutant(r) ==
  LET x == exchanges[r]
  IN  /\ x # NoToken /\ x.step = "use" /\ x.parent # NoToken
      /\ exchanges' = [exchanges EXCEPT ![r].step = "access"]
      /\ UNCHANGED <<today, codes, tokens, overlaps, issued>>

RotateRefresh(r) ==
  LET x    == exchanges[r]
      live == x.parent \in Rows /\ ~tokens[x.parent].revoked
  IN  /\ x # NoToken /\ x.step = "use" /\ x.parent # NoToken
      /\ tokens' = IF live THEN [tokens EXCEPT ![x.parent].revoked = TRUE] ELSE tokens
      /\ overlaps' = IF live THEN overlaps ELSE [overlaps EXCEPT ![x.code] = @ + 1]
      /\ exchanges' = [exchanges EXCEPT ![r].step = "access"]
      /\ UNCHANGED <<today, codes, issued>>

\* issue_token_pair; the parent must still be there.
Insert(r, kind) ==
  LET x == exchanges[r]
  IN  /\ x # NoToken /\ x.step = kind
      /\ issued < MaxTokens /\ issued' = issued + 1
      /\ x.parent # NoToken => x.parent \in Rows
      /\ tokens' = [tokens EXCEPT ![issued + 1] =
           [kind |-> kind, code |-> x.code, parent |-> x.parent, created |-> today,
            revoked |-> FALSE]]
      /\ exchanges' = [exchanges EXCEPT
           ![r] = IF kind = "access" THEN [x EXCEPT !.step = "refresh"] ELSE NoToken]
      /\ UNCHANGED <<today, codes, overlaps>>

\* A statement fails, or the server stops: what was done stays.
AbortExchange(r) ==
  /\ exchanges[r] # NoToken
  /\ exchanges' = [exchanges EXCEPT ![r] = NoToken]
  /\ UNCHANGED <<today, codes, tokens, issued, overlaps>>

RevokeToken(t) ==
  /\ t \in Rows /\ ~tokens[t].revoked
  /\ tokens' = [tokens EXCEPT ![t].revoked = TRUE]
  /\ UNCHANGED <<today, codes, issued, exchanges, overlaps>>

CleanCodes ==
  /\ \E c \in Codes : codes[c].state \in {"live", "used"} /\ codes[c].lastDay < today
  /\ codes' = [c \in Codes |->
       IF codes[c].state # "new" /\ codes[c].lastDay < today
       THEN [codes[c] EXCEPT !.state = "deleted"] ELSE codes[c]]
  /\ UNCHANGED <<today, tokens, issued, exchanges, overlaps>>

\* Expired, or issued and since revoked, more than KeepDays days ago.
Dead(t) ==
  /\ t \in Rows
  /\ \/ LastDay(t) + KeepDays < today
     \/ tokens[t].revoked /\ tokens[t].created + KeepDays < today

\* The statement deletes all of them, or fails and deletes none.
CleanTokens ==
  LET dead == {t \in TokenIds : Dead(t)}
  IN  /\ dead # {}
      /\ \A t \in Rows \ dead : tokens[t].parent \notin dead
      /\ tokens' = [t \in TokenIds |-> IF t \in dead THEN NoToken ELSE tokens[t]]
      /\ UNCHANGED <<today, codes, issued, exchanges, overlaps>>

NextDay ==
  /\ today < MaxDays /\ today' = today + 1
  /\ UNCHANGED <<codes, tokens, issued, exchanges, overlaps>>

OAuthNext ==
  \/ \E c \in Codes : Authorize(c)
  \/ \E r \in Exchanges :
       \/ \E c \in Codes : LookUpCode(r, c)
       \/ \E t \in TokenIds : LookUpRefresh(r, t)
       \/ UseCode(r) \/ RotateRefresh(r)
       \/ \E kind \in {"access", "refresh"} : Insert(r, kind)
       \/ AbortExchange(r)
  \/ \E t \in TokenIds : RevokeToken(t)
  \/ CleanCodes \/ CleanTokens \/ NextDay

-----------------------------------------------------------------------------

OAuthTypeOK ==
  /\ today \in 0..MaxDays /\ issued \in 0..MaxTokens
  /\ codes \in [Codes -> [state : {"new", "live", "used", "deleted"}, lastDay : Nat]]
  /\ tokens \in [TokenIds -> Token \cup {NoToken}]
  /\ exchanges \in [Exchanges -> Exchange \cup {NoToken}]
  /\ overlaps \in [Codes -> Nat]

\* Rotation keeps one refresh token per grant: usable ones, and those that
\* exchanges are about to issue, are at most one, and one more for each
\* exchange that overlapped with another of the same code or token.
OneRefreshPerGrant ==
  \A c \in Codes :
    Cardinality({t \in Rows : /\ tokens[t].kind = "refresh" /\ tokens[t].code = c
                              /\ ~tokens[t].revoked})
      + Cardinality({r \in Exchanges : /\ exchanges[r] # NoToken /\ exchanges[r].code = c
                                       /\ exchanges[r].step # "use"}) <= 1 + overlaps[c]

=============================================================================
