------------------------------- MODULE Access -------------------------------
(***************************************************************************)
(* For which account a request acts: the API keys, bearer tokens and       *)
(* sessions that the middleware accepts, the account and the role that a   *)
(* session's handler looks up afterwards, and the keys themselves          *)
(* (bins/scrapix-api/src/auth/middleware.rs, auth/handlers/api_keys.rs,    *)
(* auth/oauth.rs, mcp.rs, extract_account_context in lib.rs).              *)
(*                                                                         *)
(* Each lookup is a statement of its own: keys are revoked, members        *)
(* removed and their roles changed between two of them.                    *)
(*                                                                         *)
(* Abstractions.  A credential that parses and verifies is one of the      *)
(* model's; a session never ends before the request.  The invitations and  *)
(* the rules for changing roles are Teams', the tokens OAuthTokens'.       *)
(***************************************************************************)
EXTENDS Naturals, FiniteSets

CONSTANTS
  AccessCalls, Members, Homes,  \* requests, users, accounts
  KeyIds,
  NoHome,         \* no account
  MaxRoleChanges, \* bound: changes made by others
  MaxQueryFaults  \* bound: lookups that fail

ASSUME AccessAssumption ==
  MaxRoleChanges \in Nat /\ MaxQueryFaults \in Nat /\ NoHome \notin Homes

VARIABLES
  roles,       \* account_members: member -> account -> role, or "none"
  live,        \* accounts.active
  keys,        \* key -> its account and whether it is active; NoHome before it is made
  bearers,     \* members with a token that is neither expired nor revoked
  accessCalls, \* request -> its credential, its goal, and where its handler is
  entitled,    \* request -> accounts it was entitled to act for since it came
  roleChanges, queryFaults

accessVars == <<roles, live, keys, bearers, accessCalls, entitled, roleChanges, queryFaults>>

HomeRoles == {"owner", "admin", "member", "viewer"}

AccessCall == [via : {"none", "key", "bearer", "session"}, who : KeyIds \cup Members \cup {NoHome},
               selected : Homes \cup {NoHome}, goal : {"work", "newKey", "revokeKey"},
               account : Homes \cup {NoHome},
               step : {"start", "validate", "context", "account", "role", "act", "done", "refused"}]

AccessInit ==
  /\ roles \in [Members -> [Homes -> {"owner", "member", "none"}]]
  /\ live = [a \in Homes |-> TRUE]
  /\ keys \in [KeyIds -> [account : Homes \cup {NoHome}, active : {TRUE}]]
  /\ \A k \in KeyIds :
       IF keys[k].account = NoHome THEN TRUE
       ELSE \E m \in Members : roles[m][keys[k].account] = "owner"
  /\ bearers = Members
  /\ accessCalls = [r \in AccessCalls |->
       [via |-> "none", who |-> NoHome, selected |-> NoHome, goal |-> "work", account |-> NoHome,
        step |-> "start"]]
  /\ entitled = [r \in AccessCalls |-> {}]
  /\ roleChanges = 0 /\ queryFaults = 0

HomesOf(m) == {a \in Homes : roles[m][a] # "none"}

\* Accounts that a session's request names, or may fall back to (LIMIT 1).
Candidates(m, selected) == IF selected = NoHome THEN HomesOf(m) ELSE HomesOf(m) \cap {selected}

\* Accounts that a request is entitled to act for; no account, if its user is in none
\* that it names.
Entitles(c, a) ==
  \/ /\ c.via = "key" /\ a \in Homes
     /\ keys[c.who] = [account |-> a, active |-> TRUE] /\ live[a]
  \/ c.via = "bearer" /\ c.who \in bearers /\ a \in HomesOf(c.who)
  \/ /\ c.via = "session" /\ c.goal = "work"
     /\ \/ Candidates(c.who, c.selected) = {} /\ a = NoHome
        \/ a \in Candidates(c.who, c.selected) /\ roles[c.who][a] # "viewer"
  \/ /\ c.via = "session" /\ c.goal # "work"
     /\ a \in Candidates(c.who, c.selected) /\ roles[c.who][a] \in {"owner", "admin"}

Entitlement(c) == {a \in Homes \cup {NoHome} : Entitles(c, a)}

RememberEntitled ==
  entitled' = [r \in AccessCalls |-> entitled[r] \cup Entitlement(accessCalls[r])']

SendTo(r, step) == accessCalls' = [accessCalls EXCEPT ![r].step = step]

Acting(r, a, step) == accessCalls' = [accessCalls EXCEPT ![r].step = step, ![r].account = a]

Arrive(r, via, who, selected, goal, step) ==
  /\ accessCalls[r].step = "start"
  /\ accessCalls' = [accessCalls EXCEPT ![r] =
       [via |-> via, who |-> who, selected |-> selected, goal |-> goal, account |-> NoHome,
        step |-> step]]
  /\ UNCHANGED <<roles, live, keys, bearers, roleChanges, queryFaults>> /\ RememberEntitled

SendKey(r, k) == keys[k].account # NoHome /\ Arrive(r, "key", k, NoHome, "work", "validate")

SendBearer(r, m) == Arrive(r, "bearer", m, NoHome, "work", "validate")

SendSession(r, m, selected, goal) ==
  Arrive(r, "session", m, selected, goal, IF goal = "work" THEN "context" ELSE "account")

CallAt(r, via, step) == accessCalls[r].via = via /\ accessCalls[r].step = step

\* validate_api_key, a function of the database; the handler needs no lookup.
ValidateKey(r) ==
  LET k == accessCalls[r].who
  IN  /\ CallAt(r, "key", "validate")
      /\ IF keys[k].active /\ live[keys[k].account] THEN Acting(r, keys[k].account, "act")
         ELSE SendTo(r, "refused")
      /\ UNCHANGED <<roles, live, keys, bearers, roleChanges, queryFaults>> /\ RememberEntitled

\* validate_bearer_token: one of the user's accounts, whichever comes first.
ValidateBearer(r) ==
  LET m == accessCalls[r].who
  IN  /\ CallAt(r, "bearer", "validate")
      /\ IF m \in bearers /\ HomesOf(m) # {}
         THEN \E a \in HomesOf(m) : Acting(r, a, "act")
         ELSE SendTo(r, "refused")
      /\ UNCHANGED <<roles, live, keys, bearers, roleChanges, queryFaults>> /\ RememberEntitled

\* extract_account_context and check_write_permission, for a session: a user of
\* no such account is served as if there were no accounts.
ReadContext_ViewersMutant(r) ==
  LET c == accessCalls[r]
      found == Candidates(c.who, c.selected)
  IN  /\ CallAt(r, "session", "context")
      /\ IF found = {} THEN Acting(r, NoHome, "act") ELSE \E a \in found : Acting(r, a, "act")
      /\ UNCHANGED <<roles, live, keys, bearers, roleChanges, queryFaults>> /\ RememberEntitled

ReadContext(r) ==
  LET c == accessCalls[r]
      found == Candidates(c.who, c.selected)
  IN  /\ CallAt(r, "session", "context")
      /\ IF found = {} THEN Acting(r, NoHome, "act")
         ELSE \E a \in found : IF roles[c.who][a] = "viewer" THEN SendTo(r, "refused")
                               ELSE Acting(r, a, "act")
      /\ UNCHANGED <<roles, live, keys, bearers, roleChanges, queryFaults>> /\ RememberEntitled

\* query.ok(): a failed lookup counts as no account.
ContextFails(r) ==
  /\ CallAt(r, "session", "context")
  /\ queryFaults < MaxQueryFaults /\ queryFaults' = queryFaults + 1
  /\ Acting(r, NoHome, "act")
  /\ entitled' = [entitled EXCEPT ![r] = @ \cup {NoHome}]
  /\ UNCHANGED <<roles, live, keys, bearers, roleChanges>>

\* get_user_account_id
FindAccount(r) ==
  LET found == Candidates(accessCalls[r].who, accessCalls[r].selected)
  IN  /\ CallAt(r, "session", "account")
      /\ IF found = {} THEN SendTo(r, "refused") ELSE \E a \in found : Acting(r, a, "role")
      /\ UNCHANGED <<roles, live, keys, bearers, roleChanges, queryFaults>> /\ RememberEntitled

\* get_user_role, require_role
ReadRole(r) ==
  LET c == accessCalls[r]
  IN  /\ CallAt(r, "session", "role")
      /\ SendTo(r, IF roles[c.who][c.account] \in {"owner", "admin"} THEN "act" ELSE "refused")
      /\ UNCHANGED <<roles, live, keys, bearers, roleChanges, queryFaults>> /\ RememberEntitled

DoWork(r) ==
  /\ accessCalls[r].step = "act" /\ accessCalls[r].goal = "work" /\ SendTo(r, "done")
  /\ UNCHANGED <<roles, live, keys, bearers, roleChanges, queryFaults>> /\ RememberEntitled

\* create_api_key
CreateKey(r, k) ==
  /\ accessCalls[r].step = "act" /\ accessCalls[r].goal = "newKey" /\ keys[k].account = NoHome
  /\ keys' = [keys EXCEPT ![k] = [account |-> accessCalls[r].account, active |-> TRUE]]
  /\ SendTo(r, "done")
  /\ UNCHANGED <<roles, live, bearers, roleChanges, queryFaults>> /\ RememberEntitled

\* revoke_api_key: only a key of that account.
RevokeKey(r, k) ==
  /\ accessCalls[r].step = "act" /\ accessCalls[r].goal = "revokeKey"
  /\ IF keys[k].account = accessCalls[r].account
     THEN keys' = [keys EXCEPT ![k].active = FALSE] /\ SendTo(r, "done")
     ELSE UNCHANGED keys /\ SendTo(r, "refused")
  /\ UNCHANGED <<roles, live, bearers, roleChanges, queryFaults>> /\ RememberEntitled

\* What the others do meanwhile.
Meanwhile == roleChanges < MaxRoleChanges /\ roleChanges' = roleChanges + 1

ChangeMember(m, a, role) ==
  /\ Meanwhile /\ roles[m][a] # role /\ roles' = [roles EXCEPT ![m][a] = role]
  /\ UNCHANGED <<live, keys, bearers, accessCalls, queryFaults>> /\ RememberEntitled

Suspend(a) ==
  /\ Meanwhile /\ live[a] /\ live' = [live EXCEPT ![a] = FALSE]
  /\ UNCHANGED <<roles, keys, bearers, accessCalls, queryFaults>> /\ RememberEntitled

EndBearer(m) ==
  /\ Meanwhile /\ m \in bearers /\ bearers' = bearers \ {m}
  /\ UNCHANGED <<roles, live, keys, accessCalls, queryFaults>> /\ RememberEntitled

AccessNext ==
  \/ \E r \in AccessCalls :
       \/ \E k \in KeyIds : SendKey(r, k) \/ CreateKey(r, k) \/ RevokeKey(r, k)
       \/ \E m \in Members : \/ SendBearer(r, m)
                             \/ \E selected \in Homes \cup {NoHome},
                                   goal \in {"work", "newKey", "revokeKey"} :
                                  SendSession(r, m, selected, goal)
       \/ ValidateKey(r) \/ ValidateBearer(r) \/ ReadContext(r) \/ ContextFails(r)
       \/ FindAccount(r) \/ ReadRole(r) \/ DoWork(r)
  \/ \E m \in Members, a \in Homes, role \in HomeRoles \cup {"none"} : ChangeMember(m, a, role)
  \/ \E a \in Homes : Suspend(a)
  \/ \E m \in Members : EndBearer(m)

-----------------------------------------------------------------------------
AccessTypeOK ==
  /\ roles \in [Members -> [Homes -> HomeRoles \cup {"none"}]] /\ live \in [Homes -> BOOLEAN]
  /\ keys \in [KeyIds -> [account : Homes \cup {NoHome}, active : BOOLEAN]]
  /\ bearers \subseteq Members /\ accessCalls \in [AccessCalls -> AccessCall]
  /\ entitled \in [AccessCalls -> SUBSET (Homes \cup {NoHome})]
  /\ roleChanges \in 0..MaxRoleChanges /\ queryFaults \in 0..MaxQueryFaults

\* A request has acted only for an account that its credential, with the role
\* the act needs, gave it at some moment since the request came; and for no
\* account only if its user was in none that it named, or the lookup failed
\* (the middleware and extract_account_context, whatever changes meanwhile).
ActsWereAllowed ==
  \A r \in AccessCalls : accessCalls[r].step = "done" => accessCalls[r].account \in entitled[r]

=============================================================================
