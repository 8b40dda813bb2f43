------------------------------- MODULE Teams -------------------------------
(***************************************************************************)
(* The members of an account and its invitations                           *)
(* (bins/scrapix-api/src/auth/handlers/team.rs, signup in auth.rs and      *)
(* find_or_create_user in social.rs).                                      *)
(*                                                                         *)
(* Every handler checks with some SELECTs and acts with a later statement, *)
(* and handlers run concurrently: BeginCall is the check, which leaves a   *)
(* call in flight, and one action per operation is the act.                *)
(*                                                                         *)
(* Abstractions.  One account; a user is known by the e-mail address.  An  *)
(* owner and an admin are the only roles that matter here; others are      *)
(* "member".  The SELECTs of one check are one step.  A call whose check   *)
(* fails changes nothing and is left out.  The database does not fail.     *)
(*                                                                         *)
(* The second part of the module is the saved Meilisearch engines of an    *)
(* account (bins/scrapix-api/src/engines.rs): one of them is the default.  *)
(* Making an engine the default, or creating it as the default, clears the *)
(* flag of the others and then sets it, in two statements without a        *)
(* transaction; other requests and failures come in between.  Of an engine *)
(* only the flag is kept: its name, address and key are data that an       *)
(* update replaces.                                                        *)
(***************************************************************************)
EXTENDS Naturals, FiniteSets

CONSTANTS
  Users, Founder,  \* Founder created the account
  Calls,           \* requests that may be in flight together
  Invites,         \* bound: ids of rows of account_invites
  Nobody,
  MaxCalls         \* bound: requests in all

ASSUME TeamsAssumption == Founder \in Users /\ MaxCalls \in Nat

\* A row of account_invites.
InviteRow ==
  [email : Users, role : {"admin", "member"}, status : {"pending", "accepted", "revoked"},
   expired : BOOLEAN]

ASSUME NobodyAssumption == Nobody \notin InviteRow /\ Nobody # "owner"

VARIABLES
  registered,  \* the users table
  members,     \* account_members: user -> role, or Nobody
  invites,     \* account_invites: id -> its row, or Nobody
  calls,       \* request -> the call it has checked and not made yet, or Nobody
  joining,     \* user who just signed up -> invitations read and still to accept
  stale,       \* a role was changed or a member removed on an outdated check
  begun        \* calls checked so far

teamVars == <<registered, members, invites, calls, joining, stale, begun>>

MemberRoles == {"owner", "admin", "member"}
InviteRoles == {"admin", "member"}

Call ==
  [op : {"invite"}, by : Users, email : Users, role : InviteRoles]
    \cup [op : {"role"}, by : Users, target : Users, role : MemberRoles]
    \cup [op : {"remove"}, by : Users, target : Users]
    \cup [op : {"revoke"}, by : Users, id : Invites]
    \cup [op : {"accept"}, by : Users, id : Invites, role : InviteRoles]
    \cup [op : {"register"}, by : Users]

Owners == {u \in Users : members[u] = "owner"}

Pending(i) == invites[i] # Nobody /\ invites[i].status = "pending"

\* A pending invitation that has not expired.
Open(i) == Pending(i) /\ ~invites[i].expired

TeamInit ==
  /\ registered = {Founder}
  /\ members = [u \in Users |-> IF u = Founder THEN "owner" ELSE Nobody]
  /\ invites = [i \in Invites |-> Nobody]
  /\ calls = [r \in Calls |-> Nobody]
  /\ joining = [u \in Users |-> {}]
  /\ stale = FALSE /\ begun = 0

-----------------------------------------------------------------------------
(* The checks                                                              *)

MayInvite(c) ==
  /\ members[c.by] \in {"owner", "admin"}
  /\ ~(members[c.by] = "admin" /\ c.role = "admin")
  /\ members[c.email] = Nobody

MayChangeRole(c) == members[c.by] = "owner" /\ c.target # c.by

\* The only owner may leave.
MayRemove_Mutant(c) ==
  IF c.target = c.by THEN members[c.by] # Nobody ELSE members[c.by] = "owner"

\* Anyone may leave, except the only owner; only an owner removes others.
MayRemove(c) ==
  IF c.target = c.by
  THEN members[c.by] # Nobody /\ (members[c.by] = "owner" => Cardinality(Owners) > 1)
  ELSE members[c.by] = "owner"

Allowed(c) ==
  CASE c.op = "invite"   -> MayInvite(c)
    [] c.op = "role"     -> MayChangeRole(c)
    [] c.op = "remove"   -> MayRemove(c)
    [] c.op = "revoke"   -> members[c.by] \in {"owner", "admin"} /\ Pending(c.id)
    [] c.op = "accept"   -> /\ c.by \in registered
                            /\ Open(c.id) /\ invites[c.id].email = c.by
                            /\ invites[c.id].role = c.role
    [] c.op = "register" -> c.by \notin registered

BeginCall(r, c) ==
  /\ begun < MaxCalls /\ calls[r] = Nobody /\ Allowed(c)
  /\ calls' = [calls EXCEPT ![r] = c]
  /\ begun' = begun + 1
  /\ UNCHANGED <<registered, members, invites, joining, stale>>

-----------------------------------------------------------------------------
(* The acts                                                                *)

Finish(r, op) == /\ calls[r] # Nobody /\ calls[r].op = op
                 /\ calls' = [calls EXCEPT ![r] = Nobody]

\* INSERT .. ON CONFLICT (account, email) WHERE pending DO UPDATE
Invite(r) ==
  /\ Finish(r, "invite")
  /\ LET row == [email |-> calls[r].email, role |-> calls[r].role,
                 status |-> "pending", expired |-> FALSE]
         same == {i \in Invites : Pending(i) /\ invites[i].email = row.email}
         free == {i \in Invites : invites[i] = Nobody}
     IN  \E i \in IF same # {} THEN same ELSE free : invites' = [invites EXCEPT ![i] = row]
  /\ UNCHANGED <<registered, members, joining, stale, begun>>

ChangeRole(r) ==
  /\ Finish(r, "role")
  /\ LET c == calls[r]
     IN  /\ members' = IF members[c.target] = Nobody THEN members
                       ELSE [members EXCEPT ![c.target] = c.role]
         /\ stale' = (stale \/ ~MayChangeRole(c))
  /\ UNCHANGED <<registered, invites, joining, begun>>

RemoveMember(r) ==
  /\ Finish(r, "remove")
  /\ LET c == calls[r]
     IN  /\ members' = [members EXCEPT ![c.target] = Nobody]
         /\ stale' = (stale \/ ~MayRemove(c))
  /\ UNCHANGED <<registered, invites, joining, begun>>

\* Whatever its status is.
Revoke_Mutant(r) ==
  /\ Finish(r, "revoke")
  /\ invites' = [invites EXCEPT ![calls[r].id].status = "revoked"]
  /\ UNCHANGED <<registered, members, joining, stale, begun>>

\* The update names the status, so an invitation accepted meanwhile stays so.
Revoke(r) ==
  /\ Finish(r, "revoke")
  /\ invites' = IF Pending(calls[r].id) THEN [invites EXCEPT ![calls[r].id].status = "revoked"]
                ELSE invites
  /\ UNCHANGED <<registered, members, joining, stale, begun>>

\* The role is the one that was read with the invitation.
Joined(u, role) == IF members[u] = Nobody THEN [members EXCEPT ![u] = role] ELSE members

\* One transaction, or only the mark for somebody who is a member already.
Accept(r) ==
  /\ Finish(r, "accept")
  /\ LET c == calls[r]
     IN  /\ members' = Joined(c.by, c.role)
         /\ invites' = [invites EXCEPT ![c.id].status = "accepted"]
  /\ UNCHANGED <<registered, joining, stale, begun>>

\* signup, or a social login: users.email is unique, so the second one fails.
\* The invitations to accept are read after the commit.
Register(r) ==
  /\ Finish(r, "register")
  /\ LET u == calls[r].by
     IN  /\ registered' = registered \cup {u}
         /\ joining' = IF u \in registered THEN joining
                       ELSE [joining EXCEPT
                         ![u] = {[id |-> i, role |-> invites[i].role] :
                                 i \in {k \in Invites : Open(k) /\ invites[k].email = u}}]
  /\ UNCHANGED <<members, invites, stale, begun>>

\* INSERT .. ON CONFLICT DO NOTHING, and the mark.
JoinInvited(u) ==
  /\ \E i \in joining[u] :
       /\ joining' = [joining EXCEPT ![u] = @ \ {i}]
       /\ members' = Joined(u, i.role)
       /\ invites' = [invites EXCEPT ![i.id].status = "accepted"]
  /\ UNCHANGED <<registered, calls, stale, begun>>

Expire(i) ==
  /\ Open(i)
  /\ invites' = [invites EXCEPT ![i].expired = TRUE]
  /\ UNCHANGED <<registered, members, calls, joining, stale, begun>>

TeamNext ==
  \/ \E r \in Calls :
       \/ \E c \in Call : BeginCall(r, c)
       \/ Invite(r) \/ ChangeRole(r) \/ RemoveMember(r) \/ Revoke(r) \/ Accept(r) \/ Register(r)
  \/ \E u \in Users : JoinInvited(u)
  \/ \E i \in Invites : Expire(i)

-----------------------------------------------------------------------------

TeamTypeOK ==
  /\ registered \subseteq Users /\ stale \in BOOLEAN /\ begun \in 0..MaxCalls
  /\ members \in [Users -> MemberRoles \cup {Nobody}]
  /\ invites \in [Invites -> InviteRow \cup {Nobody}]
  /\ calls \in [Calls -> Call \cup {Nobody}]
  /\ joining \in [Users -> SUBSET [id : Invites, role : InviteRoles]]

\* "Cannot leave: you are the only owner": an account has an owner.
AccountHasOwner == Owners # {}

\* The checks are sufficient: an account loses its last owner only through a
\* role change or a removal made on a check that no longer held.
OwnerLostOnlyByRace == stale \/ AccountHasOwner

\* Whoever is a member, and not the founder, has registered and was invited,
\* and the invitation stands as accepted whatever else was going on.
MemberWasInvited ==
  \A u \in Users \ {Founder} : members[u] # Nobody =>
    /\ u \in registered
    /\ \E i \in Invites :
         invites[i] # Nobody /\ invites[i].email = u /\ invites[i].status = "accepted"

\* The members of an account are those the rules allow: an owner stays, and
\* nobody came in without an invitation, however requests overlap.
MembershipsAreSound == OwnerLostOnlyByRace /\ MemberWasInvited

-----------------------------------------------------------------------------
(* Engines                                                                 *)

CONSTANTS
  EngineIds, Tabs,  \* engines that may be created; requests in flight together
  Ready,
  MaxSwitches       \* bound: requests that touch the flag

ASSUME EnginesAssumption == MaxSwitches \in Nat /\ IsFiniteSet(Tabs)

\* What a request does after clearing the flags.
SwitchRow == [op : {"set", "create"}, id : EngineIds]

ASSUME ReadyAssumption == Ready \notin SwitchRow

VARIABLES
  engines,   \* the ids of existing rows
  default,   \* those with is_default
  switches,  \* request -> what it does after clearing the flags, or Ready
  crossed,   \* the last requests cleared the flags before one of them had set one
  switched   \* requests so far

engineVars == <<engines, default, switches, crossed, switched>>

EnginesInit ==
  /\ engines = {} /\ default = {} /\ crossed = FALSE /\ switched = 0
  /\ switches = [t \in Tabs |-> Ready]

Switch(t, what) ==
  /\ switched < MaxSwitches /\ switched' = switched + 1
  /\ switches[t] = Ready /\ switches' = [switches EXCEPT ![t] = what]
  /\ crossed' = \E u \in Tabs : switches[u] # Ready

CreatePlain(e) ==
  /\ e \notin engines /\ engines' = engines \cup {e}
  /\ UNCHANGED <<default, switches, crossed, switched>>

\* The old default keeps its flag.
ClearDefault_Mutant(t, e) ==
  /\ Switch(t, [op |-> IF e \in engines THEN "set" ELSE "create", id |-> e])
  /\ UNCHANGED <<engines, default>>

\* create_engine with is_default, or set_default_engine: clear the flags.
ClearDefault(t, e) ==
  /\ Switch(t, [op |-> IF e \in engines THEN "set" ELSE "create", id |-> e])
  /\ default' = {}
  /\ UNCHANGED engines

SetFlag(t, e) ==
  /\ default' = default \cup {e}
  /\ switches' = [switches EXCEPT ![t] = Ready]
  /\ UNCHANGED <<crossed, switched>>

\* The name is unique: of two creations the second fails.
CreateDefault(t) ==
  /\ switches[t] # Ready /\ switches[t].op = "create"
  /\ switches[t].id \notin engines
  /\ engines' = engines \cup {switches[t].id}
  /\ SetFlag(t, switches[t].id)

SetDefault(t) ==
  /\ switches[t] # Ready /\ switches[t].op = "set"
  /\ switches[t].id \in engines
  /\ SetFlag(t, switches[t].id)
  /\ UNCHANGED engines

\* The row is gone or already there, the statement fails, the server stops.
SwitchFails(t) ==
  /\ switches[t] # Ready
  /\ switches' = [switches EXCEPT ![t] = Ready]
  /\ UNCHANGED <<engines, default, crossed, switched>>

DeleteEngine(e) ==
  /\ e \in engines
  /\ engines' = engines \ {e} /\ default' = default \ {e}
  /\ UNCHANGED <<switches, crossed, switched>>

EnginesNext ==
  \/ \E e \in EngineIds : CreatePlain(e) \/ DeleteEngine(e)
  \/ \E t \in Tabs :
       \/ \E e \in EngineIds : ClearDefault(t, e)
       \/ CreateDefault(t) \/ SetDefault(t) \/ SwitchFails(t)

EnginesTypeOK ==
  /\ engines \subseteq EngineIds /\ default \subseteq engines
  /\ switches \in [Tabs -> SwitchRow \cup {Ready}]
  /\ crossed \in BOOLEAN /\ switched \in 0..MaxSwitches

\* An account has at most one default engine, unless two requests cleared the
\* flags before either set one; then never more than requests that overlapped.
DefaultIsSingle ==
  /\ ~crossed => Cardinality(default) <= 1
  /\ Cardinality(default) <= Cardinality(Tabs)

=============================================================================
