--------------------------- MODULE HandlerProofs ---------------------------
(***************************************************************************)
(* Proofs about the handlers of the API server, for any number of users,   *)
(* requests, tokens and cards.                                             *)
(*                                                                         *)
(* Teams, Engines, OAuthTokens, Credentials, CliLogins: what can be done   *)
(* once is counted together with the handlers that have checked that it    *)
(* was not done yet.  A pair of tokens that a command is about to write is *)
(* in no other hand.                                                       *)
(*                                                                         *)
(* RateLimiter: the key in Redis counts every request of an interval that  *)
(* it has not yet outlived; an interval meets two windows in memory.       *)
(*                                                                         *)
(* StripePayments: while one request creates the customer nothing names    *)
(* one yet; an item is pending or on one invoice.                          *)
(*                                                                         *)
(* Access, SignIn, SyncRequests: what a request has read is still right    *)
(* for the account, the identity or the balance that it will act on, or    *)
(* somebody else has acted since.                                          *)
(*                                                                         *)
(* What the theorems say of pages and URLs follows from the invariants of  *)
(* PageProofs.                                                             *)
(***************************************************************************)
EXTENDS MCHandlers, PageProofs, FiniteSetTheorems, TLAPS

-----------------------------------------------------------------------------
(* Teams                                                                   *)

\* The invitation stands, for the user who is about to join by it.
Invited(i, u) == u \in registered /\ invites[i] # Nobody /\ invites[i].email = u

TeamInv ==
  /\ TeamTypeOK
  /\ OwnerLostOnlyByRace /\ MemberWasInvited
  /\ \A r \in Calls : calls[r] # Nobody /\ calls[r].op = "accept" =>
       Invited(calls[r].id, calls[r].by)
  /\ \A u \in Users : \A i \in joining[u] : Invited(i.id, u)

LEMMA TeamInvInit == TeamInit => TeamInv
<1> SUFFICES ASSUME TeamInit PROVE TeamInv
  OBVIOUS
<1> USE TeamsAssumption
<1>1. TeamTypeOK
  <2>1. registered \subseteq Users /\ begun \in 0..MaxCalls
    BY DEF TeamInit
  <2>2. stale \in BOOLEAN
    BY DEF TeamInit
  <2>3. members \in [Users -> MemberRoles \cup {Nobody}]
    BY DEF TeamInit, MemberRoles
  <2>4. /\ invites \in [Invites -> InviteRow \cup {Nobody}] /\ calls \in [Calls -> Call \cup {Nobody}]
        /\ joining \in [Users -> SUBSET [id : Invites, role : InviteRoles]]
    BY DEF TeamInit
  <2> QED
    BY <2>1, <2>2, <2>3, <2>4 DEF TeamTypeOK
<1>2. Founder \in Owners
  BY DEF TeamInit, Owners
<1>3. MemberWasInvited
  BY DEF TeamInit, MemberWasInvited
<1> QED
  BY <1>1, <1>2, <1>3 DEF TeamInv, TeamInit, OwnerLostOnlyByRace, AccountHasOwner

\* An invitation that stands is accepted, and keeps its e-mail address.
LEMMA AcceptedRow ==
  ASSUME TeamTypeOK, NEW i \in Invites, invites[i] # Nobody,
         invites' = [invites EXCEPT ![i].status = "accepted"]
  PROVE  /\ invites' \in [Invites -> InviteRow \cup {Nobody}]
         /\ \A j \in Invites : invites[j] # Nobody =>
              /\ invites'[j] # Nobody /\ invites'[j].email = invites[j].email
              /\ invites'[j].status = "accepted" \/ invites'[j].status = invites[j].status
         /\ invites'[i].status = "accepted"
<1> DEFINE row == [invites[i] EXCEPT !.status = "accepted"]
<1>1. invites[i] \in InviteRow /\ invites \in [Invites -> InviteRow \cup {Nobody}]
  BY DEF TeamTypeOK
<1>2. row \in InviteRow /\ row.email = invites[i].email /\ row.status = "accepted"
  BY <1>1 DEF InviteRow
<1>3. invites' = [invites EXCEPT ![i] = row]
  OBVIOUS
<1> HIDE DEF row
<1> QED
  BY <1>1, <1>2, <1>3, NobodyAssumption

LEMMA TeamTypeNext == TeamInv /\ [TeamNext]_teamVars => TeamTypeOK'
<1> SUFFICES ASSUME TeamInv, [TeamNext]_teamVars PROVE TeamTypeOK'
  OBVIOUS
<1>a. TeamTypeOK
  BY DEF TeamInv
<1> USE <1>a, TeamsAssumption DEF TeamTypeOK
<1>1. ASSUME NEW r \in Calls, NEW c \in Call, BeginCall(r, c) PROVE TeamTypeOK'
  <2>1. calls' \in [Calls -> Call \cup {Nobody}]
    BY <1>1 DEF BeginCall
  <2> QED
    BY <1>1, <2>1 DEF BeginCall
<1>2. ASSUME NEW r \in Calls, Invite(r) PROVE TeamTypeOK'
  <2>1. /\ calls[r] \in Call /\ calls[r].op = "invite"
        /\ calls' \in [Calls -> Call \cup {Nobody}]
    BY <1>2 DEF Invite, Finish
  <2>2. calls[r].email \in Users /\ calls[r].role \in InviteRoles
    BY <2>1 DEF Call
  <2> DEFINE row == [email |-> calls[r].email, role |-> calls[r].role,
                     status |-> "pending", expired |-> FALSE]
  <2>3. row \in InviteRow
    BY <2>2 DEF InviteRow, InviteRoles
  <2>4. \E i \in Invites : invites' = [invites EXCEPT ![i] = row]
    BY <1>2 DEF Invite
  <2> HIDE DEF row
  <2>5. invites' \in [Invites -> InviteRow \cup {Nobody}]
    BY <2>3, <2>4
  <2> QED
    BY <1>2, <2>1, <2>5 DEF Invite
<1>3. ASSUME NEW r \in Calls, ChangeRole(r) PROVE TeamTypeOK'
  <2>1. /\ calls[r] \in Call /\ calls[r].op = "role"
        /\ calls' \in [Calls -> Call \cup {Nobody}]
    BY <1>3 DEF ChangeRole, Finish
  <2>2. calls[r].role \in MemberRoles
    BY <2>1 DEF Call
  <2>3. members' \in [Users -> MemberRoles \cup {Nobody}]
    BY <1>3, <2>2 DEF ChangeRole
  <2>4. stale' \in BOOLEAN
    BY <1>3 DEF ChangeRole
  <2> QED
    BY <1>3, <2>1, <2>3, <2>4 DEF ChangeRole
<1>4. ASSUME NEW r \in Calls, RemoveMember(r) PROVE TeamTypeOK'
  <2>1. calls' \in [Calls -> Call \cup {Nobody}]
    BY <1>4 DEF RemoveMember, Finish
  <2>2. members' \in [Users -> MemberRoles \cup {Nobody}]
    BY <1>4 DEF RemoveMember
  <2>3. stale' \in BOOLEAN
    BY <1>4 DEF RemoveMember
  <2> QED
    BY <1>4, <2>1, <2>2, <2>3 DEF RemoveMember
<1>5. ASSUME NEW r \in Calls, Revoke(r) PROVE TeamTypeOK'
  <2>1. calls' \in [Calls -> Call \cup {Nobody}]
    BY <1>5 DEF Revoke, Finish
  <2>2. invites' \in [Invites -> InviteRow \cup {Nobody}]
    BY <1>5 DEF Revoke, Pending, InviteRow
  <2> QED
    BY <1>5, <2>1, <2>2 DEF Revoke
<1>6. ASSUME NEW r \in Calls, Accept(r) PROVE TeamTypeOK'
  <2>1. /\ calls[r] # Nobody /\ calls[r] \in Call /\ calls[r].op = "accept"
        /\ calls' \in [Calls -> Call \cup {Nobody}]
    BY <1>6 DEF Accept, Finish
  <2>2. calls[r].id \in Invites /\ calls[r].by \in Users /\ calls[r].role \in InviteRoles
    BY <2>1 DEF Call
  <2>3. invites[calls[r].id] # Nobody
    BY <2>1 DEF TeamInv, Invited
  <2>4. invites' \in [Invites -> InviteRow \cup {Nobody}]
    BY <1>6, <2>2, <2>3, AcceptedRow DEF Accept
  <2>5. members' \in [Users -> MemberRoles \cup {Nobody}]
    BY <1>6, <2>2 DEF Accept, Joined, InviteRoles, MemberRoles
  <2> QED
    BY <1>6, <2>1, <2>4, <2>5 DEF Accept
<1>7. ASSUME NEW r \in Calls, Register(r) PROVE TeamTypeOK'
  <2>1. /\ calls[r] \in Call /\ calls[r].op = "register"
        /\ calls' \in [Calls -> Call \cup {Nobody}]
    BY <1>7 DEF Register, Finish
  <2>2. calls[r].by \in Users
    BY <2>1 DEF Call
  <2>3. \A i \in Invites : Open(i) => invites[i].role \in InviteRoles
    BY DEF Open, Pending, InviteRow, InviteRoles
  <2> DEFINE read == {[id |-> i, role |-> invites[i].role] :
                        i \in {k \in Invites : Open(k) /\ invites[k].email = calls[r].by}}
  <2>4. read \in SUBSET [id : Invites, role : InviteRoles]
    BY <2>3
  <2>5. joining' = joining \/ joining' = [joining EXCEPT ![calls[r].by] = read]
    BY <1>7 DEF Register
  <2> HIDE DEF read
  <2>6. joining' \in [Users -> SUBSET [id : Invites, role : InviteRoles]]
    BY <2>4, <2>5
  <2> QED
    BY <1>7, <2>1, <2>2, <2>6 DEF Register
<1>8. ASSUME NEW u \in Users, JoinInvited(u) PROVE TeamTypeOK'
  <2>1. PICK i \in joining[u] :
          /\ joining' = [joining EXCEPT ![u] = @ \ {i}]
          /\ members' = Joined(u, i.role)
          /\ invites' = [invites EXCEPT ![i.id].status = "accepted"]
    BY <1>8 DEF JoinInvited
  <2>2. i \in [id : Invites, role : InviteRoles] /\ invites[i.id] # Nobody
    BY DEF TeamInv, Invited
  <2>3. invites' \in [Invites -> InviteRow \cup {Nobody}]
    BY <2>1, <2>2, AcceptedRow
  <2>4. members' \in [Users -> MemberRoles \cup {Nobody}]
    BY <2>1, <2>2 DEF Joined, InviteRoles, MemberRoles
  <2>5. joining' \in [Users -> SUBSET [id : Invites, role : InviteRoles]]
    BY <2>1
  <2> QED
    BY <1>8, <2>3, <2>4, <2>5 DEF JoinInvited
<1>9. ASSUME NEW i \in Invites, Expire(i) PROVE TeamTypeOK'
  <2>1. invites' \in [Invites -> InviteRow \cup {Nobody}]
    BY <1>9 DEF Expire, Open, Pending, InviteRow
  <2> QED
    BY <1>9, <2>1 DEF Expire
<1>10. ASSUME UNCHANGED teamVars PROVE TeamTypeOK'
  BY <1>10 DEF teamVars
<1> QED
  BY <1>1, <1>2, <1>3, <1>4, <1>5, <1>6, <1>7, <1>8, <1>9, <1>10 DEF TeamNext

\* No step takes back an invitation's address or its acceptance, or a registration.
LEMMA InvitesStay ==
  ASSUME TeamInv, TeamNext
  PROVE  /\ \A i \in Invites : invites[i] # Nobody =>
              /\ invites'[i] # Nobody /\ invites'[i].email = invites[i].email
              /\ invites[i].status = "accepted" => invites'[i].status = "accepted"
         /\ registered \subseteq registered'
<1> DEFINE Kept ==
      /\ \A i \in Invites : invites[i] # Nobody =>
           /\ invites'[i] # Nobody /\ invites'[i].email = invites[i].email
           /\ invites[i].status = "accepted" => invites'[i].status = "accepted"
      /\ registered \subseteq registered'
<1>a. TeamTypeOK
  BY DEF TeamInv
<1>1. ASSUME NEW r \in Calls, Invite(r) PROVE Kept
  <2>1. calls[r] \in Call /\ calls[r].op = "invite"
    BY <1>1, <1>a DEF Invite, Finish, TeamTypeOK
  <2>2. calls[r].email \in Users /\ calls[r].role \in InviteRoles
    BY <2>1 DEF Call
  <2> DEFINE row == [email |-> calls[r].email, role |-> calls[r].role,
                     status |-> "pending", expired |-> FALSE]
  <2>3. row \in InviteRow /\ row.email = calls[r].email
    BY <2>2 DEF InviteRow, InviteRoles
  <2> DEFINE same == {i \in Invites : Pending(i) /\ invites[i].email = row.email}
             free == {i \in Invites : invites[i] = Nobody}
  <2>6. \E i \in IF same # {} THEN same ELSE free : invites' = [invites EXCEPT ![i] = row]
    BY <1>1 DEF Invite
  <2>4. PICK i \in Invites :
          /\ invites' = [invites EXCEPT ![i] = row]
          /\ invites[i] = Nobody \/ (Pending(i) /\ invites[i].email = calls[r].email)
    <3>1. PICK i \in IF same # {} THEN same ELSE free : invites' = [invites EXCEPT ![i] = row]
      BY <2>6
    <3>2. i \in Invites /\ (invites[i] = Nobody \/ (Pending(i) /\ invites[i].email = row.email))
      OBVIOUS
    <3> HIDE DEF row
    <3> QED
      BY <2>3, <3>1, <3>2
  <2> HIDE DEF row
  <2>5. invites' = [invites EXCEPT ![i] = row] /\ registered' = registered
    BY <1>1, <2>4 DEF Invite
  <2> QED
    BY <2>3, <2>4, <2>5, <1>a, NobodyAssumption DEF Pending, TeamTypeOK
<1>2. ASSUME NEW r \in Calls, Revoke(r) PROVE Kept
  <2>1. calls[r] \in Call /\ calls[r].op = "revoke"
    BY <1>2, <1>a DEF Revoke, Finish, TeamTypeOK
  <2>2. calls[r].id \in Invites
    BY <2>1 DEF Call
  <2>3. CASE ~Pending(calls[r].id)
    BY <2>3, <1>2 DEF Revoke
  <2>4. CASE Pending(calls[r].id)
    <3> DEFINE row == [invites[calls[r].id] EXCEPT !.status = "revoked"]
    <3>1. invites[calls[r].id] \in InviteRow
      BY <2>2, <2>4, <1>a DEF Pending, TeamTypeOK
    <3>2. row \in InviteRow /\ row.email = invites[calls[r].id].email
      BY <3>1 DEF InviteRow
    <3>3. invites' = [invites EXCEPT ![calls[r].id] = row] /\ registered' = registered
      BY <1>2, <2>4 DEF Revoke
    <3> HIDE DEF row
    <3> QED
      BY <2>2, <2>4, <3>2, <3>3, <1>a, NobodyAssumption DEF Pending, TeamTypeOK
  <2> QED
    BY <2>3, <2>4
<1>3. ASSUME NEW r \in Calls, Accept(r) PROVE Kept
  <2>1. calls[r] # Nobody /\ calls[r] \in Call /\ calls[r].op = "accept"
    BY <1>3, <1>a DEF Accept, Finish, TeamTypeOK
  <2>2. calls[r].id \in Invites
    BY <2>1 DEF Call
  <2>3. invites[calls[r].id] # Nobody
    BY <2>1 DEF TeamInv, Invited
  <2> QED
    BY <1>3, <2>2, <2>3, <1>a, AcceptedRow DEF Accept
<1>4. ASSUME NEW u \in Users, JoinInvited(u) PROVE Kept
  <2>1. PICK i \in joining[u] : invites' = [invites EXCEPT ![i.id].status = "accepted"]
    BY <1>4 DEF JoinInvited
  <2>2. i.id \in Invites /\ invites[i.id] # Nobody
    BY <1>a DEF TeamInv, Invited, TeamTypeOK
  <2> QED
    BY <1>4, <2>1, <2>2, <1>a, AcceptedRow DEF JoinInvited
<1>5. ASSUME NEW i \in Invites, Expire(i) PROVE Kept
  <2> DEFINE row == [invites[i] EXCEPT !.expired = TRUE]
  <2>1. invites[i] \in InviteRow /\ invites[i].status = "pending"
    BY <1>5, <1>a DEF Expire, Open, Pending, TeamTypeOK
  <2>2. row \in InviteRow /\ row.email = invites[i].email
    BY <2>1 DEF InviteRow
  <2>3. invites' = [invites EXCEPT ![i] = row] /\ registered' = registered
    BY <1>5 DEF Expire
  <2> HIDE DEF row
  <2> QED
    BY <2>1, <2>2, <2>3, <1>a, NobodyAssumption DEF TeamTypeOK
<1>6. ASSUME NEW r \in Calls, NEW c \in Call,
             BeginCall(r, c) \/ ChangeRole(r) \/ RemoveMember(r) \/ Register(r)
      PROVE  Kept
  BY <1>6 DEF BeginCall, ChangeRole, RemoveMember, Register
<1>7. ASSUME NEW r \in Calls, ChangeRole(r) \/ RemoveMember(r) \/ Register(r) PROVE Kept
  BY <1>7 DEF ChangeRole, RemoveMember, Register
<1> QED
  BY <1>1, <1>2, <1>3, <1>4, <1>5, <1>6, <1>7 DEF TeamNext

\* A check that holds when its call acts leaves an owner.
LEMMA OwnerStays ==
  ASSUME TeamTypeOK, Owners # {}, NEW c \in Call,
         \/ /\ c.op = "remove" /\ MayRemove(c)
            /\ members' = [members EXCEPT ![c.target] = Nobody]
         \/ /\ c.op = "role" /\ MayChangeRole(c)
            /\ members' = [members EXCEPT ![c.target] = c.role]
  PROVE  Owners' # {}
<1>1. ASSUME NEW u \in Users, members[u] = "owner", u # c.target PROVE Owners' # {}
  <2>1. members'[u] = "owner"
    BY <1>1 DEF TeamTypeOK
  <2> QED
    BY <2>1 DEF Owners
<1>2. c.op \in {"remove", "role"} => c.by \in Users /\ c.target \in Users
  BY DEF Call
<1>3. CASE c.op = "role"
  BY <1>1, <1>2, <1>3 DEF MayChangeRole
<1>4. CASE c.op = "remove" /\ c.target # c.by
  BY <1>1, <1>2, <1>4 DEF MayRemove
<1>5. CASE c.op = "remove" /\ c.target = c.by
  <2>1. MayRemove(c)
    BY <1>5
  <2>2. CASE members[c.by] # "owner"
    BY <1>1, <1>5, <2>2 DEF Owners
  <2>3. CASE members[c.by] = "owner"
    <3>1. Cardinality(Owners) > 1
      BY <1>5, <2>1, <2>3 DEF MayRemove
    <3>2. Owners # {c.by}
      <4>1. Cardinality({c.by}) = 1
        BY FS_Singleton
      <4> QED
        BY <3>1, <4>1
    <3>3. c.by \in Owners
      BY <1>2, <1>5, <2>3 DEF Owners
    <3>4. PICK u \in Owners : u # c.by
      BY <3>2, <3>3
    <3> QED
      BY <1>1, <1>5, <3>4 DEF Owners
  <2> QED
    BY <2>2, <2>3
<1> QED
  BY <1>3, <1>4, <1>5

LEMMA OwnerStep == TeamInv /\ [TeamNext]_teamVars => OwnerLostOnlyByRace'
<1> SUFFICES ASSUME TeamInv, [TeamNext]_teamVars PROVE OwnerLostOnlyByRace'
  OBVIOUS
<1>a. TeamTypeOK /\ OwnerLostOnlyByRace
  BY DEF TeamInv
<1>1. ASSUME NEW r \in Calls, ChangeRole(r) PROVE OwnerLostOnlyByRace'
  <2>1. calls[r] \in Call /\ calls[r].op = "role"
    BY <1>1, <1>a DEF ChangeRole, Finish, TeamTypeOK
  <2>2. CASE stale'
    BY <2>2 DEF OwnerLostOnlyByRace
  <2>3. CASE ~stale'
    <3>1. ~stale /\ MayChangeRole(calls[r])
      BY <1>1, <2>3 DEF ChangeRole
    <3>2. Owners # {}
      BY <3>1, <1>a DEF OwnerLostOnlyByRace, AccountHasOwner
    <3>3. CASE members' = members
      BY <3>2, <3>3 DEF Owners, OwnerLostOnlyByRace, AccountHasOwner
    <3>4. CASE members' # members
      <4>1. members' = [members EXCEPT ![calls[r].target] = calls[r].role]
        BY <1>1, <3>4 DEF ChangeRole
      <4> QED
        BY <2>1, <3>1, <3>2, <4>1, <1>a, OwnerStays DEF OwnerLostOnlyByRace, AccountHasOwner
    <3> QED
      BY <3>3, <3>4
  <2> QED
    BY <2>2, <2>3
<1>2. ASSUME NEW r \in Calls, RemoveMember(r) PROVE OwnerLostOnlyByRace'
  <2>1. calls[r] \in Call /\ calls[r].op = "remove"
    BY <1>2, <1>a DEF RemoveMember, Finish, TeamTypeOK
  <2>2. CASE stale'
    BY <2>2 DEF OwnerLostOnlyByRace
  <2>3. CASE ~stale'
    <3>1. ~stale /\ MayRemove(calls[r])
      BY <1>2, <2>3 DEF RemoveMember
    <3>2. Owners # {}
      BY <3>1, <1>a DEF OwnerLostOnlyByRace, AccountHasOwner
    <3>3. members' = [members EXCEPT ![calls[r].target] = Nobody]
      BY <1>2 DEF RemoveMember
    <3> QED
      BY <2>1, <3>1, <3>2, <3>3, <1>a, OwnerStays DEF OwnerLostOnlyByRace, AccountHasOwner
  <2> QED
    BY <2>2, <2>3
<1>3. ASSUME stale' = stale, NEW u \in Users, NEW role,
             members' = members \/ members' = Joined(u, role)
      PROVE  OwnerLostOnlyByRace'
  <2>1. \A o \in Users : members[o] = "owner" => members'[o] = members[o]
    BY <1>3, <1>a, NobodyAssumption DEF Joined, TeamTypeOK
  <2> QED
    BY <2>1, <1>3, <1>a DEF OwnerLostOnlyByRace, AccountHasOwner, Owners
<1>4. ASSUME NEW r \in Calls, Accept(r) PROVE OwnerLostOnlyByRace'
  <2>1. calls[r] \in Call /\ calls[r].op = "accept"
    BY <1>4, <1>a DEF Accept, Finish, TeamTypeOK
  <2>2. calls[r].by \in Users
    BY <2>1 DEF Call
  <2> QED
    BY <1>3, <1>4, <2>2 DEF Accept
<1>5. ASSUME NEW u \in Users, JoinInvited(u) PROVE OwnerLostOnlyByRace'
  BY <1>3, <1>5 DEF JoinInvited
<1>6. ASSUME UNCHANGED <<members, stale>> PROVE OwnerLostOnlyByRace'
  BY <1>6, <1>a DEF OwnerLostOnlyByRace, AccountHasOwner, Owners
<1>7. ASSUME NEW r \in Calls, NEW c \in Call, BeginCall(r, c) PROVE OwnerLostOnlyByRace'
  BY <1>6, <1>7 DEF BeginCall
<1>8. ASSUME NEW r \in Calls, Invite(r) \/ Revoke(r) \/ Register(r) PROVE OwnerLostOnlyByRace'
  BY <1>6, <1>8 DEF Invite, Revoke, Register
<1>9. ASSUME NEW i \in Invites, Expire(i) PROVE OwnerLostOnlyByRace'
  BY <1>6, <1>9 DEF Expire
<1>10. ASSUME UNCHANGED teamVars PROVE OwnerLostOnlyByRace'
  BY <1>6, <1>10 DEF teamVars
<1> QED
  BY <1>1, <1>2, <1>4, <1>5, <1>7, <1>8, <1>9, <1>10 DEF TeamNext

LEMMA InvitedStep == TeamInv /\ [TeamNext]_teamVars => MemberWasInvited'
<1> SUFFICES ASSUME TeamInv, [TeamNext]_teamVars PROVE MemberWasInvited'
  OBVIOUS
<1>a. TeamTypeOK /\ MemberWasInvited
  BY DEF TeamInv
<1>1. CASE UNCHANGED teamVars
  BY <1>1, <1>a DEF teamVars, MemberWasInvited
<1>2. CASE TeamNext
  <2> DEFINE Came(u) == /\ u \in registered'
                        /\ \E i \in Invites : /\ invites'[i] # Nobody /\ invites'[i].email = u
                                             /\ invites'[i].status = "accepted"
  <2>1. ASSUME NEW u \in Users \ {Founder}, members[u] # Nobody PROVE Came(u)
    BY <1>2, <1>a, <2>1, InvitesStay DEF MemberWasInvited
  <2>2. ASSUME NEW v \in Users, NEW i \in Invites, Invited(i, v),
               invites' = [invites EXCEPT ![i].status = "accepted"], registered' = registered
        PROVE  Came(v)
    BY <2>2, <1>a, AcceptedRow DEF Invited
  <2>3. SUFFICES ASSUME NEW u \in Users \ {Founder}, members'[u] # Nobody, members[u] = Nobody
                 PROVE  Came(u)
    BY <2>1 DEF MemberWasInvited
  <2> HIDE DEF Came
  <2>4. ASSUME NEW r \in Calls, Accept(r) PROVE Came(u)
    <3>1. calls[r] # Nobody /\ calls[r] \in Call /\ calls[r].op = "accept"
      BY <2>4, <1>a DEF Accept, Finish, TeamTypeOK
    <3>2. calls[r].by \in Users /\ calls[r].id \in Invites
      BY <3>1 DEF Call
    <3>3. Invited(calls[r].id, calls[r].by)
      BY <3>1 DEF TeamInv
    <3>4. Came(calls[r].by)
      BY <2>2, <2>4, <3>2, <3>3 DEF Accept
    <3>5. u = calls[r].by
      BY <2>3, <2>4, <1>a DEF Accept, Joined, TeamTypeOK
    <3> QED
      BY <3>4, <3>5
  <2>5. ASSUME NEW v \in Users, JoinInvited(v) PROVE Came(u)
    <3>1. PICK i \in joining[v] : /\ invites' = [invites EXCEPT ![i.id].status = "accepted"]
                                  /\ members' = Joined(v, i.role)
      BY <2>5 DEF JoinInvited
    <3>2. i.id \in Invites /\ Invited(i.id, v)
      BY <1>a DEF TeamInv, TeamTypeOK
    <3>3. Came(v)
      BY <2>2, <2>5, <3>1, <3>2 DEF JoinInvited
    <3>4. u = v
      BY <2>3, <3>1, <1>a DEF Joined, TeamTypeOK
    <3> QED
      BY <3>3, <3>4
  <2>6. ASSUME NEW r \in Calls, ChangeRole(r) PROVE Came(u)
    BY <2>3, <2>6, <1>a DEF ChangeRole, TeamTypeOK
  <2>7. ASSUME NEW r \in Calls, RemoveMember(r) PROVE Came(u)
    BY <2>3, <2>7, <1>a DEF RemoveMember, TeamTypeOK
  <2>8. ASSUME NEW r \in Calls, Invite(r) \/ Revoke(r) \/ Register(r) PROVE Came(u)
    BY <2>3, <2>8 DEF Invite, Revoke, Register
  <2>9. ASSUME NEW r \in Calls, NEW c \in Call, BeginCall(r, c) PROVE Came(u)
    BY <2>3, <2>9 DEF BeginCall
  <2>10. ASSUME NEW i \in Invites, Expire(i) PROVE Came(u)
    BY <2>3, <2>10 DEF Expire
  <2> QED
    BY <1>2, <2>4, <2>5, <2>6, <2>7, <2>8, <2>9, <2>10 DEF TeamNext
<1> QED
  BY <1>1, <1>2

LEMMA TeamInvNext == TeamInv /\ [TeamNext]_teamVars => TeamInv'
<1> SUFFICES ASSUME TeamInv, [TeamNext]_teamVars PROVE TeamInv'
  OBVIOUS
<1>a. TeamTypeOK /\ TeamTypeOK'
  BY TeamTypeNext DEF TeamInv
<1>b. OwnerLostOnlyByRace' /\ MemberWasInvited'
  BY OwnerStep, InvitedStep
<1>1. CASE UNCHANGED teamVars
  BY <1>1, <1>a, <1>b DEF teamVars, TeamInv, Invited
<1>2. CASE TeamNext
  <2>a. ASSUME NEW i \in Invites, NEW u \in Users, Invited(i, u) PROVE Invited(i, u)'
    BY <1>2, <2>a, InvitesStay DEF Invited
  <2>1. ASSUME NEW r \in Calls, calls'[r] # Nobody, calls'[r].op = "accept"
        PROVE  Invited(calls[r].id, calls[r].by)'
    <3>1. calls'[r] \in Call
      BY <2>1, <1>a DEF TeamTypeOK
    <3>2. calls'[r].id \in Invites /\ calls'[r].by \in Users
      BY <2>1, <3>1 DEF Call
    <3>3. CASE calls'[r] = calls[r]
      BY <2>a, <2>1, <3>2, <3>3 DEF TeamInv
    <3>4. CASE calls'[r] # calls[r]
      <4>1. PICK q \in Calls, c \in Call : BeginCall(q, c)
        BY <1>2, <1>a, <2>1, <3>4
          DEF TeamNext, Invite, ChangeRole, RemoveMember, Revoke, Accept, Register, Finish,
              JoinInvited, Expire, TeamTypeOK
      <4>2. calls'[r] = c
        BY <3>4, <4>1, <1>a DEF BeginCall, TeamTypeOK
      <4>3. c.by \in registered /\ Open(c.id) /\ invites[c.id].email = c.by
        BY <2>1, <4>1, <4>2 DEF BeginCall, Allowed
      <4> QED
        BY SMTT(40), <2>a, <3>2, <4>2, <4>3 DEF Invited, Open, Pending
    <3> QED
      BY <3>3, <3>4
  <2>2. ASSUME NEW u \in Users, NEW i \in joining'[u] PROVE Invited(i.id, u)'
    <3>1. i.id \in Invites
      BY <1>a DEF TeamTypeOK
    <3>2. CASE i \in joining[u]
      BY <2>a, <3>1, <3>2 DEF TeamInv
    <3>3. CASE i \notin joining[u]
      <4>1. PICK r \in Calls : Register(r)
        BY <1>2, <1>a, <2>2, <3>3
          DEF TeamNext, BeginCall, Invite, ChangeRole, RemoveMember, Revoke, Accept, JoinInvited,
              Expire, TeamTypeOK
      <4>2. u = calls[r].by /\ u \in registered' /\ invites' = invites
        BY <2>2, <3>3, <4>1, <1>a DEF Register, TeamTypeOK
      <4>3. Open(i.id) /\ invites[i.id].email = u
        BY <2>2, <3>3, <4>1, <4>2, <1>a DEF Register, TeamTypeOK
      <4> QED
        BY SMTT(40), <3>1, <4>2, <4>3 DEF Invited, Open, Pending
    <3> QED
      BY <3>2, <3>3
  <2> QED
    BY <1>a, <1>b, <2>1, <2>2 DEF TeamInv, Invited
<1> QED
  BY <1>1, <1>2

-----------------------------------------------------------------------------
(* Engines                                                                 *)

\* Requests that have cleared the flags and may still set one.
Switching == {t \in Tabs : switches[t] # Ready}

EnginesInv ==
  /\ EnginesTypeOK
  /\ ~crossed => Cardinality(default) + Cardinality(Switching) <= 1
  /\ Cardinality(default) + Cardinality(Switching) <= Cardinality(Tabs)
  /\ IsFiniteSet(default)

LEMMA EnginesInvInit == EnginesInit => EnginesInv
<1> SUFFICES ASSUME EnginesInit PROVE EnginesInv
  OBVIOUS
<1>1. EnginesTypeOK
  <2>1. engines \subseteq EngineIds /\ default \subseteq engines /\ switched \in 0..MaxSwitches
    BY EnginesAssumption DEF EnginesInit
  <2>2. switches \in [Tabs -> SwitchRow \cup {Ready}]
    BY DEF EnginesInit
  <2>3. crossed \in BOOLEAN
    BY DEF EnginesInit
  <2> QED
    BY <2>1, <2>2, <2>3 DEF EnginesTypeOK
<1>2. Switching = {}
  BY DEF EnginesInit, Switching
<1>3. Cardinality(Switching) = 0 /\ Cardinality(default) = 0 /\ IsFiniteSet(default)
  BY <1>2, FS_EmptySet DEF EnginesInit
<1>4. Cardinality(Tabs) \in Nat
  BY EnginesAssumption, FS_CardinalityType
<1> QED
  BY <1>1, <1>3, <1>4 DEF EnginesInv

LEMMA EnginesTypeNext == EnginesTypeOK /\ [EnginesNext]_engineVars => EnginesTypeOK'
<1> SUFFICES ASSUME EnginesTypeOK, [EnginesNext]_engineVars PROVE EnginesTypeOK'
  OBVIOUS
<1> USE EnginesAssumption DEF EnginesTypeOK
<1>1. ASSUME NEW e \in EngineIds, CreatePlain(e) PROVE EnginesTypeOK'
  BY <1>1 DEF CreatePlain
<1>2. ASSUME NEW e \in EngineIds, DeleteEngine(e) PROVE EnginesTypeOK'
  BY <1>2 DEF DeleteEngine
<1>3. ASSUME NEW t \in Tabs, NEW e \in EngineIds, ClearDefault(t, e) PROVE EnginesTypeOK'
  <2>1. [op |-> IF e \in engines THEN "set" ELSE "create", id |-> e] \in SwitchRow
    BY DEF SwitchRow
  <2>2. switches' \in [Tabs -> SwitchRow \cup {Ready}]
    BY <1>3, <2>1 DEF ClearDefault, Switch
  <2>3. crossed' \in BOOLEAN
    BY <1>3 DEF ClearDefault, Switch
  <2>4. switched' \in 0..MaxSwitches /\ engines' = engines /\ default' = {}
    BY <1>3 DEF ClearDefault, Switch
  <2> QED
    BY <2>2, <2>3, <2>4
<1>4. ASSUME NEW t \in Tabs, CreateDefault(t) PROVE EnginesTypeOK'
  <2>1. switches[t].id \in EngineIds
    BY <1>4 DEF CreateDefault, SwitchRow
  <2> QED
    BY <1>4, <2>1 DEF CreateDefault, SetFlag
<1>5. ASSUME NEW t \in Tabs, SetDefault(t) PROVE EnginesTypeOK'
  BY <1>5 DEF SetDefault, SetFlag
<1>6. ASSUME NEW t \in Tabs, SwitchFails(t) PROVE EnginesTypeOK'
  BY <1>6 DEF SwitchFails
<1>7. ASSUME UNCHANGED engineVars PROVE EnginesTypeOK'
  BY <1>7 DEF engineVars
<1> QED
  BY <1>1, <1>2, <1>3, <1>4, <1>5, <1>6, <1>7 DEF EnginesNext

\* A request that has cleared the flags takes the place of the default that it
\* removed, and the default that it sets its own.
LEMMA EnginesInvNext == EnginesInv /\ [EnginesNext]_engineVars => EnginesInv'
<1> SUFFICES ASSUME EnginesInv, [EnginesNext]_engineVars PROVE EnginesInv'
  OBVIOUS
<1>a. EnginesTypeOK /\ EnginesTypeOK'
  BY EnginesTypeNext DEF EnginesInv
<1>b. Switching \subseteq Tabs /\ IsFiniteSet(Tabs) /\ Cardinality(Tabs) \in Nat
  BY EnginesAssumption, FS_CardinalityType DEF Switching
<1>c. IsFiniteSet(Switching) /\ Cardinality(Switching) \in Nat
  BY <1>b, FS_Subset, FS_CardinalityType
<1>d. IsFiniteSet(default) /\ Cardinality(default) \in Nat
  BY FS_CardinalityType DEF EnginesInv
<1>e. /\ ~crossed => Cardinality(default) + Cardinality(Switching) <= 1
      /\ Cardinality(default) + Cardinality(Switching) <= Cardinality(Tabs)
  BY DEF EnginesInv
<1>f. ASSUME NEW t \in Tabs, switches[t] # Ready,
             switches' = [switches EXCEPT ![t] = Ready]
      PROVE  Cardinality(Switching') = Cardinality(Switching) - 1
  <2>1. Switching' = Switching \ {t} /\ t \in Switching
    BY <1>f, <1>a DEF Switching, EnginesTypeOK
  <2> QED
    BY <2>1, <1>c, FS_RemoveElement
<1>1. ASSUME NEW e \in EngineIds, CreatePlain(e) PROVE EnginesInv'
  BY <1>1, <1>a, <1>d, <1>e DEF CreatePlain, EnginesInv, Switching
<1>2. ASSUME NEW e \in EngineIds, DeleteEngine(e) PROVE EnginesInv'
  <2>1. default' \subseteq default /\ Switching' = Switching /\ crossed' = crossed
    BY <1>2 DEF DeleteEngine, Switching
  <2>2. IsFiniteSet(default') /\ Cardinality(default') \in Nat
          /\ Cardinality(default') <= Cardinality(default)
    BY <2>1, <1>d, FS_Subset, FS_CardinalityType
  <2> QED
    BY <2>1, <2>2, <1>a, <1>b, <1>c, <1>d, <1>e DEF EnginesInv
<1>3. ASSUME NEW t \in Tabs, NEW e \in EngineIds, ClearDefault(t, e) PROVE EnginesInv'
  <2>1. Switching' = Switching \cup {t} /\ t \notin Switching
    <3>1. [op |-> IF e \in engines THEN "set" ELSE "create", id |-> e] \in SwitchRow
      BY DEF SwitchRow
    <3> QED
      BY <1>3, <1>a, <3>1, ReadyAssumption DEF ClearDefault, Switch, Switching, EnginesTypeOK
  <2>2. Cardinality(Switching') = Cardinality(Switching) + 1
    BY <2>1, <1>c, FS_AddElement
  <2>3. Cardinality(default') = 0 /\ IsFiniteSet(default')
    BY <1>3, FS_EmptySet DEF ClearDefault
  <2>4. Switching' \subseteq Tabs
    BY <2>1, <1>b
  <2>5. Cardinality(Switching') <= Cardinality(Tabs)
    BY <2>4, <1>b, FS_Subset
  <2>6. ASSUME ~crossed' PROVE Cardinality(Switching) = 0
    <3>1. Switching = {}
      BY <2>6, <1>3 DEF ClearDefault, Switch, Switching
    <3> QED
      BY <3>1, FS_EmptySet
  <2>7. ~crossed' => Cardinality(default') + Cardinality(Switching') <= 1
    BY <2>6, <2>2, <2>3, <1>c
  <2>8. Cardinality(Tabs') = Cardinality(Tabs)
    OBVIOUS
  <2> QED
    BY <2>2, <2>3, <2>5, <2>7, <2>8, <1>a, <1>b, <1>c DEF EnginesInv
<1>4. ASSUME NEW t \in Tabs, CreateDefault(t) \/ SetDefault(t) PROVE EnginesInv'
  <2>1. /\ switches[t] # Ready /\ switches' = [switches EXCEPT ![t] = Ready]
        /\ default' = default \cup {switches[t].id} /\ crossed' = crossed
    BY <1>4 DEF CreateDefault, SetDefault, SetFlag
  <2>2. IsFiniteSet(default') /\ Cardinality(default') \in Nat
          /\ Cardinality(default') <= Cardinality(default) + 1
    BY <2>1, <1>d, FS_AddElement, FS_CardinalityType
  <2>3. Cardinality(Switching') = Cardinality(Switching) - 1
    BY <1>f, <2>1
  <2> QED
    BY <2>1, <2>2, <2>3, <1>a, <1>b, <1>c, <1>d, <1>e DEF EnginesInv
<1>5. ASSUME NEW t \in Tabs, SwitchFails(t) PROVE EnginesInv'
  <2>1. Cardinality(Switching') = Cardinality(Switching) - 1 /\ default' = default /\ crossed' = crossed
    BY <1>5, <1>f DEF SwitchFails
  <2> QED
    BY <2>1, <1>a, <1>b, <1>c, <1>d, <1>e DEF EnginesInv
<1>6. ASSUME UNCHANGED engineVars PROVE EnginesInv'
  BY <1>6, <1>a, <1>d, <1>e DEF engineVars, EnginesInv, Switching
<1> QED
  BY <1>1, <1>2, <1>3, <1>4, <1>5, <1>6 DEF EnginesNext

LEMMA EnginesInvHolds == EnginesInv => DefaultIsSingle
<1> SUFFICES ASSUME EnginesInv PROVE DefaultIsSingle
  OBVIOUS
<1>1. Switching \subseteq Tabs /\ IsFiniteSet(Tabs)
  BY EnginesAssumption DEF Switching
<1>2. IsFiniteSet(Switching) /\ Cardinality(Switching) \in Nat /\ Cardinality(Tabs) \in Nat
  BY <1>1, FS_Subset, FS_CardinalityType
<1>3. Cardinality(default) \in Nat
  BY FS_CardinalityType DEF EnginesInv
<1> QED
  BY <1>2, <1>3 DEF EnginesInv, DefaultIsSingle

-----------------------------------------------------------------------------
(* OAuthTokens                                                             *)

\* The refresh tokens of a grant that can be used, the exchanges that are about to issue
\* one, and whether its code still can.
Usable(c)  == {t \in Rows : tokens[t].kind = "refresh" /\ tokens[t].code = c /\ ~tokens[t].revoked}
Issuing(c) == {r \in Exchanges : /\ exchanges[r] # NoToken /\ exchanges[r].code = c
                                 /\ exchanges[r].step # "use"}
Unspent(c) == IF codes[c].state \in {"new", "live"} THEN 1 ELSE 0

\* Ids are used once, so the token that an exchange has read is of its grant as long as
\* there is one.
ParentsMatch ==
  \A r \in Exchanges : exchanges[r] # NoToken /\ exchanges[r].parent # NoToken =>
    /\ exchanges[r].parent \in 1..issued
    /\ exchanges[r].parent \in Rows => /\ tokens[exchanges[r].parent].kind = "refresh"
                                       /\ tokens[exchanges[r].parent].code = exchanges[r].code

OAuthInv ==
  /\ OAuthTypeOK
  /\ Rows \subseteq 1..issued
  /\ ParentsMatch
  /\ \A c \in Codes : Cardinality(Usable(c)) + Cardinality(Issuing(c)) + Unspent(c)
                        <= 1 + overlaps[c]

LEMMA GrantsAreFinite ==
  ASSUME NEW c \in Codes
  PROVE  /\ IsFiniteSet(Usable(c)) /\ IsFiniteSet(Issuing(c))
         /\ Cardinality(Usable(c)) \in Nat /\ Cardinality(Issuing(c)) \in Nat
         /\ IsFiniteSet(Usable(c)') /\ IsFiniteSet(Issuing(c)')
         /\ Cardinality(Usable(c)') \in Nat /\ Cardinality(Issuing(c)') \in Nat
<1>1. IsFiniteSet(TokenIds)
  BY OAuthAssumption, FS_Interval DEF TokenIds
<1>2. Usable(c) \subseteq TokenIds /\ Usable(c)' \subseteq TokenIds
  BY DEF Usable, Rows
<1>3. Issuing(c) \subseteq Exchanges /\ Issuing(c)' \subseteq Exchanges
  BY DEF Issuing
<1>4. IsFiniteSet(Usable(c)) /\ IsFiniteSet(Usable(c)')
  BY <1>1, <1>2, FS_Subset
<1>5. IsFiniteSet(Issuing(c)) /\ IsFiniteSet(Issuing(c)')
  BY <1>3, OAuthAssumption, FS_Subset
<1> QED
  BY <1>4, <1>5, FS_CardinalityType

LEMMA OAuthInvInit == OAuthInit => OAuthInv
<1> SUFFICES ASSUME OAuthInit PROVE OAuthInv
  OBVIOUS
<1>1. OAuthTypeOK
  BY OAuthAssumption DEF OAuthInit, OAuthTypeOK
<1>2. ParentsMatch
  BY DEF OAuthInit, ParentsMatch
<1>3. ASSUME NEW c \in Codes
      PROVE  Cardinality(Usable(c)) + Cardinality(Issuing(c)) + Unspent(c) <= 1 + overlaps[c]
  <2>1. Usable(c) = {} /\ Issuing(c) = {}
    BY DEF OAuthInit, Usable, Issuing, Rows
  <2>2. Cardinality(Usable(c)) = 0 /\ Cardinality(Issuing(c)) = 0
    BY <2>1, FS_EmptySet
  <2>3. Unspent(c) = 1 /\ overlaps[c] = 0
    BY DEF OAuthInit, Unspent
  <2> QED
    BY <2>2, <2>3
<1> QED
  BY <1>1, <1>2, <1>3 DEF OAuthInv, OAuthInit, Rows

LEMMA OAuthTypeNext == OAuthTypeOK /\ [OAuthNext]_oauthVars => OAuthTypeOK'
<1> SUFFICES ASSUME OAuthTypeOK, [OAuthNext]_oauthVars PROVE OAuthTypeOK'
  OBVIOUS
<1> USE OAuthAssumption DEF OAuthTypeOK
\* An exchange goes on.
<1>a. ASSUME NEW r \in Exchanges, exchanges[r] # NoToken,
             NEW step \in {"use", "access", "refresh"},
             exchanges' = [exchanges EXCEPT ![r].step = step]
      PROVE  exchanges' \in [Exchanges -> Exchange \cup {NoToken}]
  <2> DEFINE x == [exchanges[r] EXCEPT !.step = step]
  <2>1. exchanges[r] \in Exchange
    BY <1>a
  <2>2. x \in Exchange
    BY <2>1 DEF Exchange
  <2>3. exchanges' = [exchanges EXCEPT ![r] = x]
    BY <1>a
  <2> HIDE DEF x
  <2> QED
    BY <2>2, <2>3
<1>b. ASSUME NEW t \in TokenIds, tokens[t] # NoToken,
             tokens' = [tokens EXCEPT ![t].revoked = TRUE]
      PROVE  tokens' \in [TokenIds -> Token \cup {NoToken}]
  <2> DEFINE row == [tokens[t] EXCEPT !.revoked = TRUE]
  <2>1. tokens[t] \in Token
    BY <1>b
  <2>2. row \in Token
    BY <2>1 DEF Token
  <2>3. tokens' = [tokens EXCEPT ![t] = row]
    BY <1>b
  <2> HIDE DEF row
  <2> QED
    BY <2>2, <2>3
<1>1. ASSUME NEW c \in Codes, Authorize(c) PROVE OAuthTypeOK'
  BY <1>1 DEF Authorize
<1>2. ASSUME NEW r \in Exchanges, NEW c \in Codes, LookUpCode(r, c) PROVE OAuthTypeOK'
  <2>1. [step |-> "use", code |-> c, parent |-> NoToken] \in Exchange
    BY DEF Exchange
  <2> QED
    BY <1>2, <2>1 DEF LookUpCode
<1>3. ASSUME NEW r \in Exchanges, NEW t \in TokenIds, LookUpRefresh(r, t) PROVE OAuthTypeOK'
  <2>1. tokens[t] \in Token
    BY <1>3 DEF LookUpRefresh, Rows
  <2>2. [step |-> "use", code |-> tokens[t].code, parent |-> t] \in Exchange
    BY <2>1 DEF Exchange, Token
  <2> QED
    BY <1>3, <2>2 DEF LookUpRefresh
<1>4. ASSUME NEW r \in Exchanges, UseCode(r) PROVE OAuthTypeOK'
  <2>1. exchanges[r] \in Exchange
    BY <1>4 DEF UseCode
  <2>2. exchanges' \in [Exchanges -> Exchange \cup {NoToken}]
    BY <1>a, <1>4 DEF UseCode
  <2>3. overlaps' \in [Codes -> Nat]
    <3>1. exchanges[r].code \in Codes
      BY <1>4 DEF UseCode, Exchange
    <3>2. \/ overlaps' = overlaps
          \/ overlaps' = [overlaps EXCEPT ![exchanges[r].code] = @ + 1]
      BY <1>4 DEF UseCode
    <3> QED
      BY <3>1, <3>2
  <2>4. codes' \in [Codes -> [state : {"new", "live", "used", "deleted"}, lastDay : Nat]]
    <3>1. CASE codes' = codes
      BY <3>1
    <3>2. CASE codes' = [codes EXCEPT ![exchanges[r].code].state = "used"]
      BY <2>1, <3>2 DEF Exchange
    <3> QED
      BY <1>4, <3>1, <3>2 DEF UseCode
  <2>5. UNCHANGED <<today, tokens, issued>>
    BY <1>4 DEF UseCode
  <2> QED
    BY <2>2, <2>3, <2>4, <2>5
<1>5. ASSUME NEW r \in Exchanges, RotateRefresh(r) PROVE OAuthTypeOK'
  <2>2. exchanges' \in [Exchanges -> Exchange \cup {NoToken}]
    BY <1>a, <1>5 DEF RotateRefresh
  <2>3. overlaps' \in [Codes -> Nat]
    <3>1. exchanges[r].code \in Codes
      BY <1>5 DEF RotateRefresh, Exchange
    <3>2. \/ overlaps' = overlaps
          \/ overlaps' = [overlaps EXCEPT ![exchanges[r].code] = @ + 1]
      BY <1>5 DEF RotateRefresh
    <3> QED
      BY <3>1, <3>2
  <2>4. tokens' \in [TokenIds -> Token \cup {NoToken}]
    BY <1>b, <1>5 DEF RotateRefresh, Rows
  <2>5. UNCHANGED <<today, codes, issued>>
    BY <1>5 DEF RotateRefresh
  <2> QED
    BY <2>2, <2>3, <2>4, <2>5
<1>6. ASSUME NEW r \in Exchanges, NEW kind \in {"access", "refresh"}, Insert(r, kind)
      PROVE  OAuthTypeOK'
  <2> DEFINE x == exchanges[r]
             row == [kind |-> kind, code |-> x.code, parent |-> x.parent, created |-> today,
                     revoked |-> FALSE]
  <2>1. x \in Exchange
    BY <1>6 DEF Insert
  <2>2. row \in Token
    BY <2>1 DEF Exchange, Token
  <2>3. tokens' = [tokens EXCEPT ![issued + 1] = row] /\ issued + 1 \in TokenIds
    BY <1>6 DEF Insert, TokenIds
  <2>4. issued' \in 0..MaxTokens
    BY <1>6 DEF Insert
  <2>5. exchanges' = [exchanges EXCEPT ![r] =
          IF kind = "access" THEN [x EXCEPT !.step = "refresh"] ELSE NoToken]
    BY <1>6 DEF Insert
  <2>6. [x EXCEPT !.step = "refresh"] \in Exchange
    BY <2>1 DEF Exchange
  <2>7. UNCHANGED <<today, codes, overlaps>>
    BY <1>6 DEF Insert
  <2> HIDE DEF x, row
  <2>8. exchanges' \in [Exchanges -> Exchange \cup {NoToken}]
    BY <2>5, <2>6
  <2>9. tokens' \in [TokenIds -> Token \cup {NoToken}]
    BY <2>2, <2>3
  <2> QED
    BY <2>4, <2>7, <2>8, <2>9
<1>7. ASSUME NEW r \in Exchanges, AbortExchange(r) PROVE OAuthTypeOK'
  BY <1>7 DEF AbortExchange
<1>8. ASSUME NEW t \in TokenIds, RevokeToken(t) PROVE OAuthTypeOK'
  BY <1>8, <1>b DEF RevokeToken, Rows
<1>9. ASSUME CleanCodes PROVE OAuthTypeOK'
  <2>1. \A c \in Codes : [codes[c] EXCEPT !.state = "deleted"]
          \in [state : {"new", "live", "used", "deleted"}, lastDay : Nat]
    OBVIOUS
  <2>2. codes' \in [Codes -> [state : {"new", "live", "used", "deleted"}, lastDay : Nat]]
    BY <1>9, <2>1 DEF CleanCodes
  <2> QED
    BY <1>9, <2>2 DEF CleanCodes
<1>10. ASSUME CleanTokens PROVE OAuthTypeOK'
  BY <1>10 DEF CleanTokens
<1>11. ASSUME NextDay PROVE OAuthTypeOK'
  BY <1>11 DEF NextDay
<1>12. ASSUME UNCHANGED oauthVars PROVE OAuthTypeOK'
  BY <1>12 DEF oauthVars
<1> QED
  BY <1>1, <1>2, <1>3, <1>4, <1>5, <1>6, <1>7, <1>8, <1>9, <1>10, <1>11, <1>12 DEF OAuthNext

\* What an exchange has read stays of its grant, however the tokens change.
LEMMA ParentsNext == OAuthInv /\ [OAuthNext]_oauthVars => ParentsMatch' /\ Rows' \subseteq 1..issued'
<1> SUFFICES ASSUME OAuthInv, [OAuthNext]_oauthVars
             PROVE  ParentsMatch' /\ Rows' \subseteq 1..issued'
  OBVIOUS
<1>a. OAuthTypeOK /\ OAuthTypeOK' /\ ParentsMatch /\ Rows \subseteq 1..issued
  BY OAuthTypeNext DEF OAuthInv
<1> DEFINE Same(t) == tokens'[t].kind = tokens[t].kind /\ tokens'[t].code = tokens[t].code
           From(x) == /\ x.parent \in 1..issued'
                      /\ x.parent \in Rows' => /\ tokens'[x.parent].kind = "refresh"
                                               /\ tokens'[x.parent].code = x.code
\* Rows are deleted or keep their kind and their code.
<1>1. /\ issued' \in Nat /\ issued \in Nat /\ issued <= issued'
      /\ \A t \in Rows' : t <= issued => t \in Rows /\ Same(t)
      /\ Rows' \subseteq 1..issued'
  <2>1. ASSUME tokens' = tokens, issued' = issued
        PROVE  issued <= issued' /\ \A t \in Rows' : t \in Rows /\ Same(t)
    BY <1>a, <2>1 DEF Rows, OAuthTypeOK
  <2>2. ASSUME NEW r \in Exchanges, NEW kind \in {"access", "refresh"}, Insert(r, kind)
        PROVE  /\ issued <= issued'
               /\ \A t \in Rows' : t <= issued => t \in Rows /\ Same(t)
               /\ Rows' \subseteq 1..issued'
    <3>1. /\ issued' = issued + 1 /\ issued \in Nat
          /\ \A t \in TokenIds : t # issued + 1 => tokens'[t] = tokens[t]
      BY <1>a, <2>2 DEF Insert, OAuthTypeOK, TokenIds
    <3>2. \A t \in Rows' : t \in Nat /\ t >= 1
      BY OAuthAssumption DEF Rows, TokenIds
    <3>3. \A t \in Rows' : t # issued + 1 => t \in Rows /\ Same(t)
      BY <3>1 DEF Rows
    <3> QED
      BY <1>a, <3>1, <3>2, <3>3
  <2>3. ASSUME NEW t \in TokenIds, t \in Rows, tokens' = [tokens EXCEPT ![t].revoked = TRUE],
               issued' = issued
        PROVE  issued <= issued' /\ \A u \in Rows' : u \in Rows /\ Same(u)
    <3> DEFINE row == [tokens[t] EXCEPT !.revoked = TRUE]
    <3>1. tokens[t] \in Token
      BY <1>a, <2>3 DEF Rows, OAuthTypeOK
    <3>2. row.kind = tokens[t].kind /\ row.code = tokens[t].code
      BY <3>1 DEF Token
    <3>3. tokens' = [tokens EXCEPT ![t] = row]
      BY <2>3
    <3> HIDE DEF row
    <3> QED
      BY <1>a, <2>3, <3>2, <3>3 DEF Rows, OAuthTypeOK
  <2>4. ASSUME CleanTokens
        PROVE  issued <= issued' /\ \A u \in Rows' : u \in Rows /\ Same(u)
    BY <1>a, <2>4 DEF CleanTokens, Rows, OAuthTypeOK
  <2>5. issued' \in Nat /\ issued \in Nat
    BY <1>a DEF OAuthTypeOK
  <2>6. \/ tokens' = tokens /\ issued' = issued
        \/ \E r \in Exchanges, kind \in {"access", "refresh"} : Insert(r, kind)
        \/ \E t \in Rows : tokens' = [tokens EXCEPT ![t].revoked = TRUE] /\ issued' = issued
        \/ CleanTokens
    BY DEF OAuthNext, oauthVars, Authorize, LookUpCode, UseCode, LookUpRefresh, RotateRefresh,
           AbortExchange, RevokeToken, CleanCodes, NextDay
  <2>7. Rows \subseteq TokenIds
    BY DEF Rows
  <2>8. ASSUME issued' = issued, \A t \in Rows' : t \in Rows /\ Same(t)
        PROVE  /\ issued' \in Nat /\ issued \in Nat /\ issued <= issued'
               /\ \A t \in Rows' : t <= issued => t \in Rows /\ Same(t)
               /\ Rows' \subseteq 1..issued'
    <3>1. Rows' \subseteq Rows
      BY <2>8
    <3>2. Rows' \subseteq 1..issued'
      BY <1>a, <2>8, <3>1
    <3>3. issued <= issued'
      BY <2>5, <2>8
    <3>4. \A t \in Rows' : t <= issued => t \in Rows /\ Same(t)
      BY <2>8
    <3> HIDE DEF Same
    <3> QED
      BY <2>5, <3>2, <3>3, <3>4
  <2>9. CASE tokens' = tokens /\ issued' = issued
    BY <2>1, <2>8, <2>9
  <2>10. CASE \E r \in Exchanges, kind \in {"access", "refresh"} : Insert(r, kind)
    BY <2>2, <2>5, <2>10
  <2>11. CASE \E t \in Rows : tokens' = [tokens EXCEPT ![t].revoked = TRUE] /\ issued' = issued
    BY <2>3, <2>7, <2>8, <2>11
  <2>12. CASE CleanTokens
    BY <2>4, <2>8, <2>12 DEF CleanTokens
  <2> QED
    BY <2>6, <2>9, <2>10, <2>11, <2>12
<1> HIDE DEF Same
\* An exchange keeps what it has read, or has just read it.
<1>2. ASSUME NEW x, x.parent \in 1..issued, x.parent \in TokenIds,
             x.parent \in Rows => tokens[x.parent].kind = "refresh" /\ tokens[x.parent].code = x.code
      PROVE  From(x)
  BY <1>1, <1>2 DEF Same
<1> HIDE DEF From
<1>3. ASSUME NEW r \in Exchanges, exchanges'[r] # NoToken, exchanges'[r].parent # NoToken
      PROVE  From(exchanges'[r])
  <2>1. exchanges'[r].parent \in TokenIds
    BY <1>a, <1>3 DEF OAuthTypeOK, Exchange
  <2>2. CASE exchanges[r] # NoToken /\ exchanges'[r].parent = exchanges[r].parent
               /\ exchanges'[r].code = exchanges[r].code
    <3>1. /\ exchanges[r].parent \in 1..issued
          /\ exchanges[r].parent \in Rows => /\ tokens[exchanges[r].parent].kind = "refresh"
                                             /\ tokens[exchanges[r].parent].code = exchanges[r].code
      BY <1>a, <1>3, <2>2 DEF ParentsMatch
    <3> QED
      BY <1>2, <2>1, <2>2, <3>1
  <2>3. ASSUME NEW q \in Exchanges, NEW t \in TokenIds, LookUpRefresh(q, t), q = r
        PROVE  From(exchanges'[r])
    <3>1. /\ exchanges'[r] = [step |-> "use", code |-> tokens[t].code, parent |-> t]
          /\ t \in Rows /\ tokens[t].kind = "refresh"
      BY <1>a, <2>3 DEF LookUpRefresh, OAuthTypeOK
    <3>2. t \in 1..issued
      BY <1>a, <3>1
    <3> QED
      BY <1>2, <2>1, <3>1, <3>2
  <2>4. ASSUME NEW q \in Exchanges, NEW step \in {"use", "access", "refresh"},
               exchanges[q] # NoToken, exchanges' = [exchanges EXCEPT ![q].step = step]
        PROVE  /\ exchanges[r] # NoToken /\ exchanges'[r].parent = exchanges[r].parent
               /\ exchanges'[r].code = exchanges[r].code
    <3> DEFINE x == [exchanges[q] EXCEPT !.step = step]
    <3>1. exchanges[q] \in Exchange
      BY <1>a, <2>4 DEF OAuthTypeOK
    <3>2. x.parent = exchanges[q].parent /\ x.code = exchanges[q].code
      BY <3>1 DEF Exchange
    <3>3. exchanges' = [exchanges EXCEPT ![q] = x]
      BY <2>4
    <3> HIDE DEF x
    <3> QED
      BY <1>3, <1>a, <2>4, <3>2, <3>3 DEF OAuthTypeOK
  <2>5. CASE exchanges' = exchanges
    BY <1>3, <2>2, <2>5
  <2>6. CASE \E q \in Exchanges, c \in Codes : LookUpCode(q, c)
    <3>1. PICK q \in Exchanges, c \in Codes : LookUpCode(q, c)
      BY <2>6
    <3>2. q # r
      BY <1>3, <1>a, <3>1 DEF LookUpCode, OAuthTypeOK
    <3>3. exchanges'[r] = exchanges[r]
      BY <1>a, <3>1, <3>2 DEF LookUpCode, OAuthTypeOK
    <3> QED
      BY <1>3, <2>2, <3>3
  <2>7. CASE \E q \in Exchanges, t \in TokenIds : LookUpRefresh(q, t)
    <3>1. PICK q \in Exchanges, t \in TokenIds : LookUpRefresh(q, t)
      BY <2>7
    <3>2. CASE q = r
      BY <2>3, <3>1, <3>2
    <3>3. CASE q # r
      <4>1. exchanges'[r] = exchanges[r]
        BY <1>a, <3>1, <3>3 DEF LookUpRefresh, OAuthTypeOK
      <4> QED
        BY <1>3, <2>2, <4>1
    <3> QED
      BY <3>2, <3>3
  <2>8. CASE \E q \in Exchanges : /\ exchanges[q] # NoToken
                                 /\ \/ exchanges' = [exchanges EXCEPT ![q].step = "access"]
                                    \/ exchanges' = [exchanges EXCEPT ![q].step = "refresh"]
    BY <2>2, <2>4, <2>8
  <2>9. CASE \E q \in Exchanges : exchanges' = [exchanges EXCEPT ![q] = NoToken]
    <3>1. exchanges'[r] = exchanges[r]
      BY <1>3, <1>a, <2>9 DEF OAuthTypeOK
    <3> QED
      BY <1>3, <2>2, <3>1
  <2>10. \/ exchanges' = exchanges
         \/ \E q \in Exchanges, c \in Codes : LookUpCode(q, c)
         \/ \E q \in Exchanges, t \in TokenIds : LookUpRefresh(q, t)
         \/ \E q \in Exchanges : /\ exchanges[q] # NoToken
                                 /\ \/ exchanges' = [exchanges EXCEPT ![q].step = "access"]
                                    \/ exchanges' = [exchanges EXCEPT ![q].step = "refresh"]
         \/ \E q \in Exchanges : exchanges' = [exchanges EXCEPT ![q] = NoToken]
    BY DEF OAuthNext, oauthVars, Authorize, UseCode, RotateRefresh, Insert,
           AbortExchange, RevokeToken, CleanCodes, CleanTokens, NextDay
  <2> QED
    BY <2>5, <2>6, <2>7, <2>8, <2>9, <2>10
<1> QED
  <2>1. ParentsMatch'
    BY <1>3 DEF ParentsMatch, From
  <2> QED
    BY <1>1, <2>1

\* Rotation, step by step: what may issue a refresh token is a live code, a usable
\* token or an exchange that used one of them up, and each is spent for the next.
LEMMA OAuthInvNext == OAuthInv /\ [OAuthNext]_oauthVars => OAuthInv'
<1> SUFFICES ASSUME OAuthInv, [OAuthNext]_oauthVars PROVE OAuthInv'
  OBVIOUS
<1>a. OAuthTypeOK /\ OAuthTypeOK' /\ ParentsMatch
  BY OAuthTypeNext DEF OAuthInv
<1>b. ParentsMatch' /\ Rows' \subseteq 1..issued'
  BY ParentsNext
<1>c. SUFFICES ASSUME NEW c \in Codes
               PROVE  Cardinality(Usable(c)') + Cardinality(Issuing(c)') + Unspent(c)'
                        <= 1 + overlaps'[c]
  <2>1. \A c \in Codes : Cardinality(Usable(c)') + Cardinality(Issuing(c)') + Unspent(c)'
                            <= 1 + overlaps'[c]
    BY <1>c
  <2>2. \A c \in Codes : (Cardinality(Usable(c)) + Cardinality(Issuing(c)) + Unspent(c)
                            <= 1 + overlaps[c])'
    BY <2>1
  <2> QED
    BY <1>a, <1>b, <2>2 DEF OAuthInv
<1>d. /\ Cardinality(Usable(c)) + Cardinality(Issuing(c)) + Unspent(c) <= 1 + overlaps[c]
      /\ IsFiniteSet(Usable(c)) /\ IsFiniteSet(Issuing(c))
      /\ Cardinality(Usable(c)) \in Nat /\ Cardinality(Issuing(c)) \in Nat
      /\ Cardinality(Usable(c)') \in Nat /\ Cardinality(Issuing(c)') \in Nat
  BY GrantsAreFinite DEF OAuthInv
<1>e. overlaps[c] \in Nat /\ overlaps'[c] \in Nat /\ Unspent(c) \in {0, 1} /\ Unspent(c)' \in {0, 1}
  BY <1>a DEF OAuthTypeOK, Unspent
\* What the parts of the sum do in the steps.
<1>f. ASSUME Usable(c)' \subseteq Usable(c) PROVE Cardinality(Usable(c)') <= Cardinality(Usable(c))
  BY <1>d, <1>f, FS_Subset
<1>g. ASSUME Issuing(c)' \subseteq Issuing(c)
      PROVE  Cardinality(Issuing(c)') <= Cardinality(Issuing(c))
  BY <1>d, <1>g, FS_Subset
<1>h. ASSUME NEW r \in Exchanges, Issuing(c)' \subseteq Issuing(c) \cup {r}
      PROVE  Cardinality(Issuing(c)') <= Cardinality(Issuing(c)) + 1
  BY <1>d, <1>h, OneMore
<1> DEFINE Bound == Cardinality(Usable(c)') + Cardinality(Issuing(c)') + Unspent(c)'
                      <= 1 + overlaps'[c]
\* Steps that add nothing to any part.
<1>j. ASSUME Usable(c)' \subseteq Usable(c), Issuing(c)' \subseteq Issuing(c),
             Unspent(c)' <= Unspent(c), overlaps'[c] = overlaps[c]
      PROVE  Bound
  BY <1>d, <1>e, <1>f, <1>g, <1>j
\* The step in which an exchange uses up what it has read.
<1>k. ASSUME NEW r \in Exchanges, exchanges[r] # NoToken,
             exchanges' = [exchanges EXCEPT ![r].step = "access"]
      PROVE  IF exchanges[r].code = c THEN Issuing(c)' \subseteq Issuing(c) \cup {r}
             ELSE Issuing(c)' \subseteq Issuing(c)
  <2> DEFINE x == [exchanges[r] EXCEPT !.step = "access"]
  <2>1. x.code = exchanges[r].code /\ exchanges' = [exchanges EXCEPT ![r] = x]
    BY <1>a, <1>k DEF OAuthTypeOK, Exchange
  <2> HIDE DEF x
  <2>2. \A q \in Exchanges : q # r => exchanges'[q] = exchanges[q]
    BY <2>1
  <2>3. exchanges'[r].code = exchanges[r].code
    BY <2>1, <1>a DEF OAuthTypeOK
  <2> QED
    BY <2>2, <2>3 DEF Issuing
<1>1. ASSUME NEW d \in Codes, Authorize(d) PROVE Bound
  <2>1. Unspent(c)' <= Unspent(c)
    BY <1>1, <1>a DEF Authorize, Unspent, OAuthTypeOK
  <2>2. UNCHANGED <<tokens, exchanges, overlaps>>
    BY <1>1 DEF Authorize
  <2> QED
    BY <1>j, <2>1, <2>2 DEF Usable, Issuing, Rows
<1>2. ASSUME NEW r \in Exchanges, NEW d \in Codes, LookUpCode(r, d) PROVE Bound
  <2>1. Issuing(c)' \subseteq Issuing(c)
    BY <1>2, <1>a DEF LookUpCode, Issuing, OAuthTypeOK
  <2>2. UNCHANGED <<tokens, codes, overlaps>>
    BY <1>2 DEF LookUpCode
  <2> QED
    BY <1>e, <1>j, <2>1, <2>2 DEF Usable, Rows, Unspent
<1>3. ASSUME NEW r \in Exchanges, NEW t \in TokenIds, LookUpRefresh(r, t) PROVE Bound
  <2>1. Issuing(c)' \subseteq Issuing(c)
    BY <1>3, <1>a DEF LookUpRefresh, Issuing, OAuthTypeOK
  <2>2. UNCHANGED <<tokens, codes, overlaps>>
    BY <1>3 DEF LookUpRefresh
  <2> QED
    BY <1>e, <1>j, <2>1, <2>2 DEF Usable, Rows, Unspent
<1>4. ASSUME NEW r \in Exchanges, UseCode(r) PROVE Bound
  <2>1. /\ exchanges[r] # NoToken /\ exchanges' = [exchanges EXCEPT ![r].step = "access"]
        /\ UNCHANGED <<tokens, issued>>
    BY <1>4 DEF UseCode
  <2>2. exchanges[r].code \in Codes
    BY <2>1, <1>a DEF OAuthTypeOK, Exchange
  <2>3. Cardinality(Usable(c)') <= Cardinality(Usable(c))
    BY <1>f, <2>1 DEF Usable, Rows
  <2>4. CASE exchanges[r].code # c
    <3>1. Cardinality(Issuing(c)') <= Cardinality(Issuing(c))
      BY <1>g, <1>k, <2>1, <2>4
    <3>2. codes'[c] = codes[c] /\ overlaps'[c] = overlaps[c]
      BY <1>4, <1>a, <2>2, <2>4 DEF UseCode, OAuthTypeOK
    <3>3. Unspent(c)' = Unspent(c)
      BY <3>2 DEF Unspent
    <3> QED
      BY <1>d, <1>e, <2>3, <3>1, <3>2, <3>3
  <2>5. CASE exchanges[r].code = c
    <3>1. Cardinality(Issuing(c)') <= Cardinality(Issuing(c)) + 1
      BY <1>h, <1>k, <2>1, <2>5
    <3>2. CASE codes[c].state = "live"
      <4>1. codes'[c].state = "used" /\ overlaps'[c] = overlaps[c]
        BY <1>4, <1>a, <2>5, <3>2 DEF UseCode, OAuthTypeOK
      <4>2. Unspent(c)' = 0 /\ Unspent(c) = 1
        BY <3>2, <4>1 DEF Unspent
      <4> QED
        BY <1>d, <1>e, <2>3, <3>1, <4>1, <4>2
    <3>3. CASE codes[c].state # "live"
      <4>1. codes' = codes /\ overlaps'[c] = overlaps[c] + 1
        BY <1>4, <1>a, <2>5, <3>3 DEF UseCode, OAuthTypeOK
      <4>2. Unspent(c)' = Unspent(c)
        BY <4>1 DEF Unspent
      <4> QED
        BY <1>d, <1>e, <2>3, <3>1, <4>1, <4>2
    <3> QED
      BY <3>2, <3>3
  <2> QED
    BY <2>4, <2>5
<1>l. ASSUME NEW t \in Rows, tokens' = [tokens EXCEPT ![t].revoked = TRUE]
      PROVE  Usable(c)' = Usable(c) \ {t}
  <2> DEFINE row == [tokens[t] EXCEPT !.revoked = TRUE]
  <2>1. tokens[t] \in Token /\ t \in TokenIds
    BY <1>a DEF OAuthTypeOK, Rows
  <2>2. row.revoked /\ tokens' = [tokens EXCEPT ![t] = row]
    BY <1>l, <2>1 DEF Token
  <2> HIDE DEF row
  <2>3. tokens'[t].revoked /\ \A u \in TokenIds : u # t => tokens'[u] = tokens[u]
    BY <1>a, <2>1, <2>2 DEF OAuthTypeOK
  <2> QED
    BY <2>3 DEF Usable, Rows
<1>5. ASSUME NEW r \in Exchanges, RotateRefresh(r) PROVE Bound
  <2> DEFINE p == exchanges[r].parent
  <2>1. /\ exchanges[r] # NoToken /\ exchanges' = [exchanges EXCEPT ![r].step = "access"]
        /\ p # NoToken /\ UNCHANGED <<codes, issued>>
    BY <1>5 DEF RotateRefresh
  <2>2. exchanges[r].code \in Codes
    BY <2>1, <1>a DEF OAuthTypeOK, Exchange
  <2>3. Unspent(c)' = Unspent(c)
    BY <2>1 DEF Unspent
  <2>4. CASE ~(p \in Rows /\ ~tokens[p].revoked)
    <3>1. tokens' = tokens /\ overlaps' = [overlaps EXCEPT ![exchanges[r].code] = @ + 1]
      BY <1>5, <2>4 DEF RotateRefresh
    <3>2. Cardinality(Usable(c)') <= Cardinality(Usable(c))
      BY <1>f, <3>1 DEF Usable, Rows
    <3>3. CASE exchanges[r].code = c
      <4>1. Cardinality(Issuing(c)') <= Cardinality(Issuing(c)) + 1
        BY <1>h, <1>k, <2>1, <3>3
      <4>2. overlaps'[c] = overlaps[c] + 1
        BY <1>a, <3>1, <3>3 DEF OAuthTypeOK
      <4> QED
        BY <1>d, <1>e, <2>3, <3>2, <4>1, <4>2
    <3>4. CASE exchanges[r].code # c
      <4>1. Cardinality(Issuing(c)') <= Cardinality(Issuing(c))
        BY <1>g, <1>k, <2>1, <3>4
      <4>2. overlaps'[c] = overlaps[c]
        BY <1>a, <2>2, <3>1, <3>4 DEF OAuthTypeOK
      <4> QED
        BY <1>d, <1>e, <2>3, <3>2, <4>1, <4>2
    <3> QED
      BY <3>3, <3>4
  <2>5. CASE p \in Rows /\ ~tokens[p].revoked
    <3>1. tokens' = [tokens EXCEPT ![p].revoked = TRUE] /\ overlaps' = overlaps
      BY <1>5, <2>5 DEF RotateRefresh
    <3>2. Usable(c)' = Usable(c) \ {p}
      BY <1>l, <2>5, <3>1
    <3>3. tokens[p].kind = "refresh" /\ tokens[p].code = exchanges[r].code
      BY <1>a, <2>1, <2>5 DEF ParentsMatch
    <3>4. CASE exchanges[r].code = c
      <4>1. Cardinality(Issuing(c)') <= Cardinality(Issuing(c)) + 1
        BY <1>h, <1>k, <2>1, <3>4
      <4>2. p \in Usable(c)
        BY <2>5, <3>3, <3>4 DEF Usable
      <4>3. Cardinality(Usable(c)') <= Cardinality(Usable(c)) - 1
        BY <1>d, <3>2, <4>2, OneLess
      <4> QED
        BY <1>d, <1>e, <2>3, <3>1, <4>1, <4>3
    <3>5. CASE exchanges[r].code # c
      <4>1. Issuing(c)' \subseteq Issuing(c)
        BY <1>k, <2>1, <3>5
      <4> QED
        BY <1>e, <1>j, <2>3, <3>1, <3>2, <4>1
    <3> QED
      BY <3>4, <3>5
  <2> QED
    BY <2>4, <2>5
<1>6. ASSUME NEW r \in Exchanges, Insert(r, "access") PROVE Bound
  <2> DEFINE x == [exchanges[r] EXCEPT !.step = "refresh"]
  <2>1. /\ exchanges[r] # NoToken /\ exchanges[r].step = "access"
        /\ exchanges' = [exchanges EXCEPT ![r] = x]
        /\ UNCHANGED <<codes, overlaps>>
    BY <1>6 DEF Insert
  <2>2. x.code = exchanges[r].code
    BY <2>1, <1>a DEF OAuthTypeOK, Exchange
  <2>3. tokens'[issued + 1].kind = "access"
          /\ \A t \in TokenIds : t # issued + 1 => tokens'[t] = tokens[t]
    BY <1>6, <1>a DEF Insert, OAuthTypeOK, TokenIds
  <2>4. Usable(c)' \subseteq Usable(c)
    BY <2>3 DEF Usable, Rows
  <2> HIDE DEF x
  <2>5. exchanges'[r].code = exchanges[r].code /\ \A q \in Exchanges : q # r => exchanges'[q] = exchanges[q]
    BY <1>a, <2>1, <2>2 DEF OAuthTypeOK
  <2>6. Issuing(c)' \subseteq Issuing(c)
    BY <2>1, <2>5 DEF Issuing
  <2> QED
    BY <1>e, <1>j, <2>1, <2>4, <2>6 DEF Unspent
<1>7. ASSUME NEW r \in Exchanges, Insert(r, "refresh") PROVE Bound
  <2>1. /\ exchanges[r] # NoToken /\ exchanges[r].step = "refresh"
        /\ exchanges' = [exchanges EXCEPT ![r] = NoToken]
        /\ UNCHANGED <<codes, overlaps>>
    BY <1>7 DEF Insert
  <2>2. tokens'[issued + 1].code = exchanges[r].code
          /\ \A t \in TokenIds : t # issued + 1 => tokens'[t] = tokens[t]
    BY <1>7, <1>a DEF Insert, OAuthTypeOK, TokenIds
  <2>3. Issuing(c)' = Issuing(c) \ {r}
    BY <1>a, <2>1 DEF Issuing, OAuthTypeOK
  <2>4. CASE exchanges[r].code # c
    <3>1. Usable(c)' \subseteq Usable(c)
      BY <2>2, <2>4 DEF Usable, Rows
    <3> QED
      BY <1>e, <1>j, <2>1, <2>3, <3>1 DEF Unspent
  <2>5. CASE exchanges[r].code = c
    <3>1. Usable(c)' \subseteq Usable(c) \cup {issued + 1}
      BY <2>2 DEF Usable, Rows
    <3>2. Cardinality(Usable(c)') <= Cardinality(Usable(c)) + 1
      BY <1>d, <3>1, OneMore
    <3>4. r \in Issuing(c)
      BY <2>1, <2>5 DEF Issuing
    <3>5. Cardinality(Issuing(c)') <= Cardinality(Issuing(c)) - 1
      BY <1>d, <2>3, <3>4, OneLess
    <3>6. Unspent(c)' = Unspent(c) /\ overlaps'[c] = overlaps[c]
      BY <2>1 DEF Unspent
    <3> QED
      BY <1>d, <1>e, <3>2, <3>5, <3>6
  <2> QED
    BY <2>4, <2>5
<1>8. ASSUME NEW r \in Exchanges, AbortExchange(r) PROVE Bound
  <2>1. Issuing(c)' \subseteq Issuing(c) /\ UNCHANGED <<codes, tokens, overlaps>>
    BY <1>8, <1>a DEF AbortExchange, Issuing, OAuthTypeOK
  <2> QED
    BY <1>e, <1>j, <2>1 DEF Usable, Rows, Unspent
<1>9. ASSUME NEW t \in TokenIds, RevokeToken(t) PROVE Bound
  <2>1. /\ t \in Rows /\ tokens' = [tokens EXCEPT ![t].revoked = TRUE]
        /\ UNCHANGED <<codes, exchanges, overlaps>>
    BY <1>9 DEF RevokeToken
  <2>2. Usable(c)' = Usable(c) \ {t}
    BY <1>l, <2>1
  <2> QED
    BY <1>e, <1>j, <2>1, <2>2 DEF Issuing, Unspent
<1>10. ASSUME CleanCodes PROVE Bound
  <2>1. codes'[c].state = codes[c].state \/ codes'[c].state = "deleted"
    BY <1>10, <1>a DEF CleanCodes, OAuthTypeOK
  <2>2. Unspent(c)' <= Unspent(c)
    BY <2>1 DEF Unspent
  <2>3. UNCHANGED <<tokens, exchanges, overlaps>>
    BY <1>10 DEF CleanCodes
  <2> QED
    BY <1>j, <2>2, <2>3 DEF Usable, Issuing, Rows
<1>11. ASSUME CleanTokens PROVE Bound
  <2>1. \A t \in TokenIds : tokens'[t] = NoToken \/ tokens'[t] = tokens[t]
    BY <1>11 DEF CleanTokens
  <2>2. UNCHANGED <<codes, exchanges, overlaps>>
    BY <1>11 DEF CleanTokens
  <2>3. Usable(c)' \subseteq Usable(c)
    BY <2>1 DEF Usable, Rows
  <2> QED
    BY <1>e, <1>j, <2>2, <2>3 DEF Issuing, Unspent
<1>12. ASSUME NextDay \/ UNCHANGED oauthVars PROVE Bound
  <2>1. UNCHANGED <<codes, tokens, exchanges, overlaps>>
    BY <1>12 DEF NextDay, oauthVars
  <2> QED
    BY <1>e, <1>j, <2>1 DEF Usable, Rows, Issuing, Unspent
<1> HIDE DEF Bound
<1>13. ASSUME NEW r \in Exchanges, NEW kind \in {"access", "refresh"}, Insert(r, kind) PROVE Bound
  BY <1>6, <1>7, <1>13
<1>14. Bound
  BY <1>1, <1>2, <1>3, <1>4, <1>5, <1>8, <1>9, <1>10, <1>11, <1>12, <1>13 DEF OAuthNext
<1> QED
  BY <1>14 DEF Bound

LEMMA OAuthInvHolds == OAuthInv => OneRefreshPerGrant
<1> SUFFICES ASSUME OAuthInv, NEW c \in Codes
             PROVE  Cardinality(Usable(c)) + Cardinality(Issuing(c)) <= 1 + overlaps[c]
  BY DEF OneRefreshPerGrant, Usable, Issuing
<1>1. Cardinality(Usable(c)) \in Nat /\ Cardinality(Issuing(c)) \in Nat
  BY GrantsAreFinite
<1>2. overlaps[c] \in Nat /\ Unspent(c) \in {0, 1}
  BY DEF OAuthInv, OAuthTypeOK, Unspent
<1> QED
  BY <1>1, <1>2 DEF OAuthInv

-----------------------------------------------------------------------------
(* Credentials                                                             *)

Live         == {t \in Mails : resets[t] = "live"}
Resetting(t) == {f \in Forms : /\ forms[f] # Unset /\ forms[f].op = "reset"
                               /\ forms[f].token = t}

CredentialsInv ==
  /\ CredentialsTypeOK
  /\ welcomes <= IF verified THEN 1 ELSE 0
  /\ \A f \in Forms : forms[f] # Unset /\ forms[f].op = "reset" => forms[f].token \in 1..made
  /\ \A t \in Mails : /\ t > made => resets[t] = "unmade" /\ resetBy[t] = 0
                      /\ resets[t] = "live" => resetBy[t] = 0
                      /\ resetBy[t] + Cardinality(Resetting(t)) <= Cardinality(Forms)
  /\ Cardinality(Live) + Cardinality(Forgetting) <= 1 + unseen

LEMMA FormsAreFinite ==
  /\ IsFiniteSet(Live) /\ IsFiniteSet(Forgetting)
  /\ IsFiniteSet(Live') /\ IsFiniteSet(Forgetting')
  /\ Cardinality(Forgetting') <= Cardinality(Forms)
  /\ \A t : /\ IsFiniteSet(Resetting(t)) /\ IsFiniteSet(Resetting(t)')
            /\ Cardinality(Resetting(t)') <= Cardinality(Forms)
<1>1. IsFiniteSet(Forms) /\ IsFiniteSet(Mails)
  BY CredentialsAssumption, FS_Interval DEF Mails
<1>2. Live \subseteq Mails /\ Live' \subseteq Mails
  BY DEF Live
<1>3. Forgetting \subseteq Forms /\ Forgetting' \subseteq Forms
  BY DEF Forgetting
<1>4. \A t : Resetting(t) \subseteq Forms /\ Resetting(t)' \subseteq Forms
  BY DEF Resetting
<1> QED
  BY <1>1, <1>2, <1>3, <1>4, FS_Subset

LEMMA CredentialsInvInit == CredentialsInit => CredentialsInv
<1> SUFFICES ASSUME CredentialsInit PROVE CredentialsInv
  OBVIOUS
<1>1. CredentialsTypeOK
  <2>1. verified \in BOOLEAN
    BY DEF CredentialsInit
  <2>2. /\ verification \in Mails \cup {Unset} /\ mailed \in Mails /\ welcomes \in Nat
        /\ made \in 0..MaxMails /\ unseen \in Nat
    BY CredentialsAssumption DEF CredentialsInit, Mails
  <2>3. /\ resets \in [Mails -> {"unmade", "live", "used", "expired"}]
        /\ forms \in [Forms -> Form \cup {Unset}] /\ resetBy \in [Mails -> Nat]
    BY DEF CredentialsInit
  <2> QED
    BY <2>1, <2>2, <2>3 DEF CredentialsTypeOK
<1>2. Live = {} /\ Forgetting = {} /\ \A t : Resetting(t) = {}
  BY DEF CredentialsInit, Live, Forgetting, Resetting
<1>3. Cardinality({}) = 0 /\ Cardinality(Forms) \in Nat
  BY CredentialsAssumption, FS_EmptySet, FS_CardinalityType
<1>4. /\ \A f \in Forms : forms[f] = Unset
      /\ \A t \in Mails : resets[t] = "unmade" /\ resetBy[t] = 0
      /\ welcomes = 0 /\ verified = FALSE /\ unseen = 0
  BY DEF CredentialsInit
<1> QED
  BY <1>1, <1>2, <1>3, <1>4 DEF CredentialsInv

LEMMA CredentialsTypeNext ==
  CredentialsInv /\ [CredentialsNext]_credentialVars => CredentialsTypeOK'
<1> SUFFICES ASSUME CredentialsInv, [CredentialsNext]_credentialVars PROVE CredentialsTypeOK'
  OBVIOUS
<1>a. CredentialsTypeOK
  BY DEF CredentialsInv
<1> USE <1>a, CredentialsAssumption DEF CredentialsTypeOK, Mails
<1>1. ASSUME NEW t \in Mails, VerifyEmail(t) PROVE CredentialsTypeOK'
  <2>1. verified' \in BOOLEAN
    BY <1>1 DEF VerifyEmail
  <2> QED
    BY <1>1, <2>1 DEF VerifyEmail
<1>2. ASSUME NEW t \in Mails, ExpireReset(t) PROVE CredentialsTypeOK'
  BY <1>2 DEF ExpireReset
<1>3. ASSUME LinkIdentity PROVE CredentialsTypeOK'
  <2>1. verified' \in BOOLEAN
    BY <1>3 DEF LinkIdentity
  <2> QED
    BY <1>3, <2>1 DEF LinkIdentity
<1>4. ASSUME NEW f \in Forms, AskAgain(f) PROVE CredentialsTypeOK'
  BY <1>4 DEF AskAgain, Form
<1>5. ASSUME NEW f \in Forms, ResendVerification(f) PROVE CredentialsTypeOK'
  BY <1>5 DEF ResendVerification
<1>6. ASSUME NEW f \in Forms, ForgetOld(f) PROVE CredentialsTypeOK'
  <2>1. unseen' \in Nat
    BY <1>6, FormsAreFinite, FS_CardinalityType DEF ForgetOld
  <2> QED
    BY <1>6, <2>1 DEF ForgetOld, Form
<1>7. ASSUME NEW f \in Forms, MailReset(f) PROVE CredentialsTypeOK'
  BY <1>7 DEF MailReset
<1>8. ASSUME NEW f \in Forms, NEW t \in Mails, CheckReset(f, t) PROVE CredentialsTypeOK'
  BY <1>8 DEF CheckReset, Form
<1>9. ASSUME NEW f \in Forms, ResetPassword(f) PROVE CredentialsTypeOK'
  <2>1. forms[f].token \in Mails
    BY <1>9 DEF ResetPassword, CredentialsInv
  <2> QED
    BY <1>9, <2>1 DEF ResetPassword
<1>10. ASSUME NEW f \in Forms, AbandonForm(f) PROVE CredentialsTypeOK'
  BY <1>10 DEF AbandonForm
<1>11. ASSUME UNCHANGED credentialVars PROVE CredentialsTypeOK'
  BY <1>11 DEF credentialVars
<1> QED
  BY <1>1, <1>2, <1>3, <1>4, <1>5, <1>6, <1>7, <1>8, <1>9, <1>10, <1>11 DEF CredentialsNext

\* The steps that end a request or begin one that is not about a reset token, and change
\* no token.
LEMMA CredentialsInvNext == CredentialsInv /\ [CredentialsNext]_credentialVars => CredentialsInv'
<1> SUFFICES ASSUME CredentialsInv, [CredentialsNext]_credentialVars PROVE CredentialsInv'
  OBVIOUS
<1>a. CredentialsTypeOK /\ CredentialsTypeOK'
  BY CredentialsTypeNext DEF CredentialsInv
<1>b. /\ Cardinality(Forms) \in Nat /\ Cardinality(Live) \in Nat /\ Cardinality(Live') \in Nat
      /\ Cardinality(Forgetting) \in Nat /\ Cardinality(Forgetting') \in Nat
      /\ \A t : Cardinality(Resetting(t)) \in Nat /\ Cardinality(Resetting(t)') \in Nat
  BY FormsAreFinite, CredentialsAssumption, FS_CardinalityType
<1>c. \A t : Resetting(t)' \subseteq Resetting(t) =>
        Cardinality(Resetting(t)') <= Cardinality(Resetting(t))
  BY FormsAreFinite, FS_Subset
<1>d. Forgetting' \subseteq Forgetting => Cardinality(Forgetting') <= Cardinality(Forgetting)
  BY FormsAreFinite, FS_Subset
<1>e. Live' \subseteq Live => Cardinality(Live') <= Cardinality(Live)
  BY FormsAreFinite, FS_Subset
<1>f. /\ unseen \in Nat /\ unseen' \in Nat
      /\ made \in 0..MaxMails /\ made' \in 0..MaxMails /\ welcomes \in Nat /\ MaxMails \in Nat
      /\ \A t \in Mails : resetBy[t] \in Nat /\ t \in Nat
      /\ resets \in [Mails -> {"unmade", "live", "used", "expired"}]
      /\ forms \in [Forms -> Form \cup {Unset}] /\ resetBy \in [Mails -> Nat]
  BY <1>a, CredentialsAssumption DEF CredentialsTypeOK, Mails
\* Nothing new: of requests and of tokens there are those of before, in part.
<1>g. ASSUME \A f \in Forms : forms'[f] = forms[f] \/ forms'[f] = Unset \/ forms'[f].op = "resend",
             \A t \in Mails : resets'[t] = resets[t] \/ (resets[t] = "live" /\ resets'[t] # "live"),
             resetBy' = resetBy, made' = made, unseen' = unseen,
             welcomes' <= IF verified' THEN 1 ELSE 0
      PROVE  CredentialsInv'
  <2>1. Forgetting' \subseteq Forgetting
    BY <1>g DEF Forgetting
  <2>2. \A t : Resetting(t)' \subseteq Resetting(t)
    BY <1>g DEF Resetting
  <2>3. Live' \subseteq Live
    BY <1>g DEF Live
  <2>4. Cardinality(Live') + Cardinality(Forgetting') <= 1 + unseen'
    BY <1>b, <1>d, <1>e, <1>f, <1>g, <2>1, <2>3 DEF CredentialsInv
  <2>5. \A t \in Mails : resetBy'[t] + Cardinality(Resetting(t)') <= Cardinality(Forms)
    BY <1>b, <1>c, <1>f, <1>g, <2>2 DEF CredentialsInv
  <2>6. \A t \in Mails : /\ t > made' => resets'[t] = "unmade" /\ resetBy'[t] = 0
                         /\ resets'[t] = "live" => resetBy'[t] = 0
    BY <1>f, <1>g DEF CredentialsInv
  <2>7. \A f \in Forms : forms'[f] # Unset /\ forms'[f].op = "reset" => forms'[f].token \in 1..made'
    BY <1>g DEF CredentialsInv
  <2> QED
    BY <1>a, <1>g, <2>4, <2>5, <2>6, <2>7 DEF CredentialsInv
<1>w. welcomes <= IF verified THEN 1 ELSE 0
  BY DEF CredentialsInv
<1>1. ASSUME NEW t \in Mails, VerifyEmail(t) PROVE CredentialsInv'
  <2>1. welcomes' <= IF verified' THEN 1 ELSE 0
    BY <1>1, <1>f, <1>w DEF VerifyEmail
  <2>2. UNCHANGED <<resets, made, forms, resetBy, unseen>>
    BY <1>1 DEF VerifyEmail
  <2> QED
    BY <1>g, <2>1, <2>2
<1>2. ASSUME NEW t \in Mails, ExpireReset(t) PROVE CredentialsInv'
  <2>1. \A u \in Mails : resets'[u] = resets[u] \/ (resets[u] = "live" /\ resets'[u] # "live")
    BY <1>2, <1>f DEF ExpireReset
  <2>2. UNCHANGED <<verified, welcomes, made, forms, resetBy, unseen>>
    BY <1>2 DEF ExpireReset
  <2> QED
    BY <1>g, <1>w, <2>1, <2>2
<1>3. ASSUME LinkIdentity PROVE CredentialsInv'
  <2>1. welcomes' <= IF verified' THEN 1 ELSE 0
    BY <1>3, <1>f, <1>w DEF LinkIdentity
  <2>2. UNCHANGED <<resets, made, forms, resetBy, unseen>>
    BY <1>3 DEF LinkIdentity
  <2> QED
    BY <1>g, <2>1, <2>2
<1>4. ASSUME NEW f \in Forms, AskAgain(f) \/ ResendVerification(f) \/ AbandonForm(f)
      PROVE  CredentialsInv'
  <2>1. \A e \in Forms : forms'[e] = forms[e] \/ forms'[e] = Unset \/ forms'[e].op = "resend"
    BY <1>4, <1>f DEF AskAgain, ResendVerification, AbandonForm
  <2>2. UNCHANGED <<verified, welcomes, resets, made, resetBy, unseen>>
    BY <1>4 DEF AskAgain, ResendVerification, AbandonForm
  <2> QED
    BY <1>g, <1>w, <2>1, <2>2
<1>5. ASSUME NEW f \in Forms, ForgetOld(f) PROVE CredentialsInv'
  <2>1. /\ forms[f] = Unset
        /\ forms' = [forms EXCEPT ![f] = [op |-> "forgot", token |-> Unset]]
        /\ \A t \in Mails : resets'[t] = resets[t] \/ (resets[t] = "live" /\ resets'[t] = "used")
        /\ UNCHANGED <<verified, welcomes, made, resetBy>>
    BY <1>5, <1>f DEF ForgetOld
  <2>2. Cardinality(Forgetting') <= Cardinality(Forgetting) + 1
    <3>1. Forgetting' \subseteq Forgetting \cup {f}
      BY <1>f, <2>1 DEF Forgetting
    <3> QED
      BY <3>1, FormsAreFinite, OneMore
  <2>3. Cardinality(Live') + Cardinality(Forgetting') <= 1 + unseen'
    <3>1. CASE /\ resets' = [t \in Mails |-> IF resets[t] = "live" THEN "used" ELSE resets[t]]
               /\ unseen' = Cardinality(Forgetting)
      <4>1. Live' = {}
        BY <3>1 DEF Live
      <4>2. Cardinality(Live') = 0
        BY <4>1, FS_EmptySet
      <4> QED
        BY <1>b, <2>2, <3>1, <4>2
    <3>2. CASE unseen' = unseen + 1 /\ UNCHANGED resets
      <4>1. Live' = Live
        BY <3>2 DEF Live
      <4>2. Cardinality(Live) + Cardinality(Forgetting) <= 1 + unseen
        BY DEF CredentialsInv
      <4> QED
        BY <1>b, <1>f, <2>2, <3>2, <4>1, <4>2
    <3> QED
      BY <1>5, <3>1, <3>2 DEF ForgetOld
  <2>4. \A t : Resetting(t)' \subseteq Resetting(t)
    BY <1>f, <2>1 DEF Resetting
  <2>5. \A t \in Mails : resetBy'[t] + Cardinality(Resetting(t)') <= Cardinality(Forms)
    BY <1>b, <1>c, <1>f, <2>1, <2>4 DEF CredentialsInv
  <2>6. \A t \in Mails : /\ t > made' => resets'[t] = "unmade" /\ resetBy'[t] = 0
                         /\ resets'[t] = "live" => resetBy'[t] = 0
    BY <1>f, <2>1 DEF CredentialsInv
  <2>7. \A e \in Forms : forms'[e] # Unset /\ forms'[e].op = "reset" => forms'[e].token \in 1..made'
    BY <1>f, <2>1 DEF CredentialsInv
  <2> QED
    BY <1>a, <1>w, <2>1, <2>3, <2>5, <2>6, <2>7 DEF CredentialsInv
<1>6. ASSUME NEW f \in Forms, MailReset(f) PROVE CredentialsInv'
  <2>1. /\ forms[f] # Unset /\ forms[f].op = "forgot" /\ forms' = [forms EXCEPT ![f] = Unset]
        /\ made' = made + 1 /\ made + 1 \in Mails /\ resets' = [resets EXCEPT ![made + 1] = "live"]
        /\ UNCHANGED <<verified, welcomes, resetBy, unseen>>
    BY <1>6, <1>f DEF MailReset, Mails
  <2>2. Live' \subseteq Live \cup {made + 1}
    BY <1>f, <2>1 DEF Live
  <2>3. f \in Forgetting /\ Forgetting' \subseteq Forgetting \ {f}
    BY <1>f, <2>1 DEF Forgetting
  <2>4. /\ Cardinality(Live') <= Cardinality(Live) + 1
        /\ Cardinality(Forgetting') <= Cardinality(Forgetting) - 1
    BY <2>2, <2>3, FormsAreFinite, OneMore, OneLess
  <2>5. Cardinality(Live') + Cardinality(Forgetting') <= 1 + unseen'
    BY <1>b, <1>f, <2>1, <2>4 DEF CredentialsInv
  <2>6. \A t : Resetting(t)' \subseteq Resetting(t)
    BY <1>f, <2>1 DEF Resetting
  <2>7. \A t \in Mails : resetBy'[t] + Cardinality(Resetting(t)') <= Cardinality(Forms)
    BY <1>b, <1>c, <1>f, <2>1, <2>6 DEF CredentialsInv
  <2>8. \A t \in Mails : /\ t > made' => resets'[t] = "unmade" /\ resetBy'[t] = 0
                         /\ resets'[t] = "live" => resetBy'[t] = 0
    BY <1>f, <2>1 DEF CredentialsInv
  <2>9. \A e \in Forms : forms'[e] # Unset /\ forms'[e].op = "reset" => forms'[e].token \in 1..made'
    BY <1>f, <2>1 DEF CredentialsInv
  <2> QED
    BY <1>a, <1>w, <2>1, <2>5, <2>7, <2>8, <2>9 DEF CredentialsInv
<1>7. ASSUME NEW f \in Forms, NEW t \in Mails, CheckReset(f, t) PROVE CredentialsInv'
  <2>1. /\ forms' = [forms EXCEPT ![f] = [op |-> "reset", token |-> t]] /\ resets[t] = "live"
        /\ UNCHANGED <<verified, welcomes, resets, made, resetBy, unseen>>
    BY <1>7 DEF CheckReset
  <2>2. Live' = Live /\ Forgetting' \subseteq Forgetting
    BY <1>f, <2>1 DEF Live, Forgetting
  <2>3. Cardinality(Live') + Cardinality(Forgetting') <= 1 + unseen'
    BY <1>b, <1>d, <1>f, <2>1, <2>2 DEF CredentialsInv
  <2>4. resetBy[t] = 0 /\ t <= made
    BY <1>f, <2>1 DEF CredentialsInv
  <2>5. \A u : u # t => Resetting(u)' \subseteq Resetting(u)
    BY <1>f, <2>1 DEF Resetting
  <2>6. ASSUME NEW u \in Mails PROVE resetBy'[u] + Cardinality(Resetting(u)') <= Cardinality(Forms)
    <3>1. CASE u = t
      BY <1>b, <2>1, <2>4, <3>1, FormsAreFinite
    <3>2. CASE u # t
      BY <1>b, <1>c, <1>f, <2>1, <2>5, <3>2 DEF CredentialsInv
    <3> QED
      BY <3>1, <3>2
  <2>7. \A u \in Mails : /\ u > made' => resets'[u] = "unmade" /\ resetBy'[u] = 0
                         /\ resets'[u] = "live" => resetBy'[u] = 0
    BY <1>f, <2>1 DEF CredentialsInv
  <2>8. \A e \in Forms : forms'[e] # Unset /\ forms'[e].op = "reset" => forms'[e].token \in 1..made'
    BY <1>f, <2>1, <2>4 DEF CredentialsInv, Mails
  <2> QED
    BY <1>a, <1>w, <2>1, <2>3, <2>6, <2>7, <2>8 DEF CredentialsInv
<1>8. ASSUME NEW f \in Forms, ResetPassword(f) PROVE CredentialsInv'
  <2> DEFINE t == forms[f].token
  <2>1. /\ forms[f] # Unset /\ forms[f].op = "reset" /\ forms' = [forms EXCEPT ![f] = Unset]
        /\ resets' = [resets EXCEPT ![t] = "used"] /\ resetBy' = [resetBy EXCEPT ![t] = @ + 1]
        /\ UNCHANGED <<verified, welcomes, made, unseen>>
    BY <1>8 DEF ResetPassword
  <2>2. t \in 1..made /\ t \in Mails
    BY <1>f, <2>1 DEF CredentialsInv, Mails
  <2>3. f \in Resetting(t)
    BY <2>1 DEF Resetting
  <2> HIDE DEF t
  <2>4. Live' \subseteq Live /\ Forgetting' \subseteq Forgetting
    BY <1>f, <2>1 DEF Live, Forgetting
  <2>5. Cardinality(Live') + Cardinality(Forgetting') <= 1 + unseen'
    BY <1>b, <1>d, <1>e, <1>f, <2>1, <2>4 DEF CredentialsInv
  <2>6. ASSUME NEW u \in Mails PROVE resetBy'[u] + Cardinality(Resetting(u)') <= Cardinality(Forms)
    <3>1. Resetting(u)' \subseteq Resetting(u) \ {f}
      BY <1>f, <2>1 DEF Resetting
    <3>2. resetBy[u] + Cardinality(Resetting(u)) <= Cardinality(Forms)
      BY DEF CredentialsInv
    <3>3. CASE u = t
      <4>1. Cardinality(Resetting(u)') <= Cardinality(Resetting(u)) - 1
        BY <2>3, <3>1, <3>3, FormsAreFinite, OneLess
      <4>2. resetBy'[u] = resetBy[u] + 1
        BY <1>f, <2>1, <3>3
      <4> QED
        BY <1>b, <1>f, <3>2, <4>1, <4>2
    <3>4. CASE u # t
      <4>1. resetBy'[u] = resetBy[u]
        BY <1>f, <2>1, <3>4
      <4>2. Cardinality(Resetting(u)') <= Cardinality(Resetting(u))
        BY <1>c, <3>1
      <4> QED
        BY <1>b, <1>f, <3>2, <4>1, <4>2
    <3> QED
      BY <3>3, <3>4
  <2>7. \A u \in Mails : /\ u > made' => resets'[u] = "unmade" /\ resetBy'[u] = 0
                         /\ resets'[u] = "live" => resetBy'[u] = 0
    BY <1>f, <2>1, <2>2 DEF CredentialsInv
  <2>8. \A e \in Forms : forms'[e] # Unset /\ forms'[e].op = "reset" => forms'[e].token \in 1..made'
    BY <1>f, <2>1 DEF CredentialsInv
  <2> QED
    BY <1>a, <1>w, <2>1, <2>5, <2>6, <2>7, <2>8 DEF CredentialsInv
<1>9. ASSUME UNCHANGED credentialVars PROVE CredentialsInv'
  BY <1>g, <1>w, <1>9 DEF credentialVars
<1> QED
  BY <1>1, <1>2, <1>3, <1>4, <1>5, <1>6, <1>7, <1>8, <1>9 DEF CredentialsNext

LEMMA CredentialsInvHolds == CredentialsInv => TokensActOnce
<1> SUFFICES ASSUME CredentialsInv PROVE TokensActOnce
  OBVIOUS
<1>1. /\ Cardinality(Forms) \in Nat /\ Cardinality(Live) \in Nat /\ Cardinality(Forgetting) \in Nat
      /\ \A t : Cardinality(Resetting(t)) \in Nat
  BY FormsAreFinite, CredentialsAssumption, FS_CardinalityType
<1>2. welcomes \in Nat /\ \A t \in Mails : resetBy[t] \in Nat
  BY DEF CredentialsInv, CredentialsTypeOK
<1>3. Cardinality(Live) <= 1 + unseen
  BY <1>1 DEF CredentialsInv, CredentialsTypeOK
<1>4. \A t \in Mails : resetBy[t] <= Cardinality(Forms)
  BY <1>1, <1>2 DEF CredentialsInv
<1>5. welcomes <= 1
  BY <1>2 DEF CredentialsInv
<1> QED
  BY <1>3, <1>4, <1>5 DEF TokensActOnce, Live


-----------------------------------------------------------------------------
(* CliLogins                                                               *)

OnTheWay(c) == AtPoint(c, "save") \/ AtPoint(c, "write")

\* A pair that a command is about to write is in no other hand, is not in the file,
\* and so cannot have been used up.
CommandHolds(c) ==
  /\ commands[c].mine.pair \in Pairs \cup {0}
  /\ AtPoint(c, "refresh") \/ AtPoint(c, "rotate") => commands[c].mine.pair \in Pairs
  /\ OnTheWay(c) /\ commands[c].mine.pair # 0 =>
       /\ commands[c].mine.pair # file.pair
       /\ commands[c].mine.pair \notin rotated
       /\ \A d \in Terminals \ {c} : commands[d].mine.pair # commands[c].mine.pair

CliInv ==
  /\ CliTypeOK
  /\ parents \in Seq(Nat)
  /\ file.pair \in Pairs \cup {0}
  /\ \A c \in Terminals : CommandHolds(c)
  /\ FileFollowsRotation

LEMMA ConfigsByPair ==
  /\ NoLogin \in Configs /\ Unreadable \in Configs /\ WithKey \in Configs
  /\ NoLogin # Unreadable /\ WithKey # Unreadable
  /\ NoLogin.pair = 0 /\ Unreadable.pair = 0 /\ WithKey.pair = 0
  /\ \A n \in 1..MaxPairs : /\ WithTokens(n) \in Configs /\ WithTokens(n) # Unreadable
                            /\ WithTokens(n).pair = n
  /\ \A x \in Configs : /\ x.pair \in 0..MaxPairs
                        /\ x.pair # 0 => x = WithTokens(x.pair) /\ x.kind = "tokens"
                        /\ x.kind = "tokens" => x.pair # 0
<1>1. MaxPairs \in Nat
  BY CliAssumption
<1>2. \A n \in 1..MaxPairs : WithTokens(n).pair = n /\ WithTokens(n).kind = "tokens"
  BY DEF WithTokens
<1>3. /\ NoLogin.kind = "none" /\ Unreadable.kind = "unreadable" /\ WithKey.kind = "key"
      /\ NoLogin.pair = 0 /\ Unreadable.pair = 0 /\ WithKey.pair = 0
  BY DEF NoLogin, Unreadable, WithKey
<1>4. ASSUME NEW x \in Configs
      PROVE  /\ x.pair \in 0..MaxPairs
             /\ x.pair # 0 => x = WithTokens(x.pair) /\ x.kind = "tokens"
             /\ x.kind = "tokens" => x.pair # 0
  BY <1>1, <1>2, <1>3 DEF Configs
<1>5. \A n \in 1..MaxPairs : WithTokens(n) \in Configs /\ WithTokens(n) # Unreadable
  BY <1>2, <1>3 DEF Configs
<1> QED
  BY <1>2, <1>3, <1>4, <1>5 DEF Configs

LEMMA CliInvInit == CliInit => CliInv
<1> SUFFICES ASSUME CliInit PROVE CliInv
  OBVIOUS
<1>1. parents = <<>> /\ parents \in Seq(Nat) /\ Len(parents) = 0 /\ Pairs = {}
  BY DEF CliInit, Pairs
<1>2. NoCommand \in Command
  BY ConfigsByPair DEF NoCommand, Command
<1>3. CliTypeOK
  BY <1>1, <1>2, ConfigsByPair, CliAssumption DEF CliInit, CliTypeOK, Pairs
<1>4. \A c \in Terminals : CommandHolds(c)
  BY ConfigsByPair DEF CliInit, CommandHolds, AtPoint, OnTheWay, NoCommand
<1> QED
  BY <1>1, <1>3, <1>4, ConfigsByPair DEF CliInv, CliInit, FileFollowsRotation

\* A command that goes on, with what it has, with what it read or with a key, and
\* that writes nothing: a pair on its way that it gives up is lost.
LEMMA CommandGoesOn ==
  ASSUME CliInv, NEW c \in Terminals, NEW to \in Command,
         commands' = [commands EXCEPT ![c] = to],
         to.mine.pair \in {0, commands[c].mine.pair, file.pair},
         to.at \in {"refresh", "rotate"} => to.mine.pair \in Pairs,
         to.at \in {"save", "write"} /\ to.mine.pair # 0 =>
           OnTheWay(c) /\ to.mine = commands[c].mine,
         OnTheWay(c) /\ commands[c].mine.pair # 0 =>
           \/ to.at \in {"save", "write"} /\ to.mine = commands[c].mine
           \/ commands[c].mine.pair \in lost',
         file' \in {file, NoLogin, Unreadable}, lost \subseteq lost', lost' \subseteq Pairs,
         ranSoFar' \in 0..MaxCommands,
         UNCHANGED <<parents, rotated, orphans, stalePairs>>
  PROVE  CliInv'
<1>a. CliTypeOK /\ parents \in Seq(Nat) /\ Len(parents) \in Nat
  BY DEF CliInv
<1>b. Pairs' = Pairs
  BY DEF Pairs
<1>c. rotated \subseteq Pairs /\ 0 \notin Pairs
  BY <1>a DEF CliTypeOK, Pairs
<1>d. commands \in [Terminals -> Command] /\ file \in Configs
  BY <1>a DEF CliTypeOK
<1>e. commands'[c] = to /\ \A d \in Terminals \ {c} : commands'[d] = commands[d]
  BY <1>d
<1>1. CliTypeOK'
  <2>1. file' \in Configs
    BY <1>d, ConfigsByPair
  <2>2. commands' \in [Terminals -> Command]
    BY <1>d
  <2> QED
    BY <1>a, <1>b, <2>1, <2>2 DEF CliTypeOK
<1>2. file'.pair \in {file.pair, 0}
  BY ConfigsByPair
<1>3. file'.pair \in Pairs' \cup {0}
  BY <1>2, <1>b DEF CliInv
<1>4. ASSUME NEW d \in Terminals PROVE CommandHolds(d)'
  <2>1. CommandHolds(c) /\ CommandHolds(d)
    BY DEF CliInv
  <2>2. file.pair \in Pairs \cup {0}
    BY DEF CliInv
  <2>3. \A e \in Terminals : /\ commands'[e].mine.pair \in Pairs \cup {0}
                             /\ commands'[e].mine.pair # 0 =>
                                  \/ commands'[e].mine.pair = commands[e].mine.pair
                                  \/ commands'[e].mine.pair = file.pair
    BY <1>e, <2>2 DEF CliInv, CommandHolds
  <2>4. commands'[d].at \in {"refresh", "rotate"} => commands'[d].mine.pair \in Pairs
    BY <1>e, <2>1 DEF CommandHolds, AtPoint
  <2>5. ASSUME commands'[d].at \in {"save", "write"}, commands'[d].mine.pair # 0
        PROVE  OnTheWay(d) /\ commands'[d].mine = commands[d].mine
    BY <1>e, <2>5 DEF OnTheWay, AtPoint
  <2>6. ASSUME commands'[d].at \in {"save", "write"}, commands'[d].mine.pair # 0
        PROVE  /\ commands'[d].mine.pair # file'.pair
               /\ commands'[d].mine.pair \notin rotated'
               /\ \A e \in Terminals \ {d} : commands'[e].mine.pair # commands'[d].mine.pair
    <3>1. OnTheWay(d) /\ commands'[d].mine = commands[d].mine
      BY <2>5, <2>6
    <3>2. /\ commands[d].mine.pair # file.pair /\ commands[d].mine.pair \notin rotated
          /\ \A e \in Terminals \ {d} : commands[e].mine.pair # commands[d].mine.pair
      BY <3>1, <2>6, <2>1 DEF CommandHolds
    <3> QED
      BY <3>1, <3>2, <2>6, <2>3, <1>2
  <2> QED
    BY <1>b, <2>3, <2>4, <2>6 DEF CommandHolds, AtPoint, OnTheWay
<1>5. ASSUME file'.pair \in rotated', file'.pair \notin orphans'
      PROVE  \E n \in Pairs' :
               /\ parents'[n] = file'.pair
               /\ n \in lost' \/ \E d \in Terminals :
                    commands'[d].at \in {"save", "write"} /\ commands'[d].mine = WithTokens(n)
  <2>1. file'.pair = file.pair /\ file.pair \in rotated /\ file.pair \notin orphans
    BY <1>2, <1>5, <1>c
  <2>2. PICK n \in Pairs : /\ parents[n] = file.pair
                           /\ n \in lost \/ \E d \in Terminals :
                                /\ commands[d].at \in {"save", "write"}
                                /\ commands[d].mine = WithTokens(n)
    BY <2>1 DEF CliInv, FileFollowsRotation
  <2>3. n \in 1..MaxPairs
    BY <1>a, CliAssumption DEF CliTypeOK, Pairs
  <2>4. CASE n \in lost
    BY <2>1, <2>2, <2>4, <1>b
  <2>5. ASSUME NEW d \in Terminals, commands[d].at \in {"save", "write"},
               commands[d].mine = WithTokens(n)
        PROVE  \/ n \in lost'
               \/ commands'[d].at \in {"save", "write"} /\ commands'[d].mine = WithTokens(n)
    <3>1. CASE d # c
      BY <3>1, <2>5, <1>e
    <3>2. CASE d = c
      <4>1. OnTheWay(c) /\ commands[c].mine.pair = n /\ n # 0
        BY <3>2, <2>3, <2>5, ConfigsByPair DEF OnTheWay, AtPoint
      <4> QED
        BY <4>1, <3>2, <2>5, <1>e
    <3> QED
      BY <3>1, <3>2
  <2> QED
    BY <2>1, <2>2, <2>4, <2>5, <1>b
<1>6. FileFollowsRotation'
  BY <1>5 DEF FileFollowsRotation
<1> QED
  BY <1>1, <1>3, <1>4, <1>6, <1>a DEF CliInv

\* A command that is given a new pair: it has no hand in what the others hold.
LEMMA PairIssued ==
  ASSUME CliInv, NEW c \in Terminals, NEW issuer \in Pairs \cup {0},
         NEW next \in {"ready", "work"},
         Issue(c, issuer, next), ~OnTheWay(c),
         rotated' \in {rotated, rotated \cup {issuer}}, rotated' \subseteq Pairs,
         issuer = commands[c].mine.pair \/ rotated' = rotated,
         UNCHANGED <<file, ranSoFar, orphans, stalePairs, lost>>
  PROVE  CliInv'
<1>a. CliTypeOK /\ parents \in Seq(Nat) /\ Len(parents) \in Nat /\ MaxPairs \in Nat
  BY CliAssumption DEF CliInv
<1> DEFINE fresh == Len(parents) + 1
<1>b. /\ parents' \in Seq(Nat) /\ Len(parents') = fresh /\ parents'[fresh] = issuer
      /\ \A n \in Pairs : parents'[n] = parents[n]
  BY <1>a DEF Issue, Pairs
<1>c. Pairs' = Pairs \cup {fresh} /\ fresh \in 1..MaxPairs /\ fresh \notin Pairs /\ fresh # 0
  BY <1>a, <1>b DEF Pairs, Issue
<1>d. commands \in [Terminals -> Command] /\ file \in Configs
  BY <1>a DEF CliTypeOK
<1> DEFINE to == [at |-> "save", mine |-> WithTokens(fresh), next |-> next]
<1>e. to \in Command /\ to.at = "save" /\ to.mine = WithTokens(fresh) /\ to.mine.pair = fresh
  BY <1>c, ConfigsByPair DEF Command
<1>f. commands' = [commands EXCEPT ![c] = to]
  BY DEF Issue
<1> HIDE DEF to
<1>g. commands'[c] = to /\ \A d \in Terminals \ {c} : commands'[d] = commands[d]
  BY <1>d, <1>f
<1>h. commands' \in [Terminals -> Command]
  BY <1>d, <1>e, <1>f
<1>1. CliTypeOK'
  <2>1. \A n \in Pairs' : parents'[n] \in 0 .. n - 1
    <3>1. \A n \in Pairs : parents'[n] \in 0 .. n - 1
      BY <1>a, <1>b DEF CliTypeOK
    <3>2. parents'[fresh] \in 0 .. fresh - 1
      BY <1>a, <1>b DEF Pairs
    <3> QED
      BY <3>1, <3>2, <1>c
  <2>2. Len(parents') <= MaxPairs
    BY <1>b, <1>c
  <2> QED
    BY <1>a, <1>c, <1>h, <2>1, <2>2 DEF CliTypeOK
<1>2. file'.pair \in Pairs' \cup {0} /\ file'.pair # fresh
  BY <1>c DEF CliInv
<1>3. ASSUME NEW d \in Terminals PROVE CommandHolds(d)'
  <2>1. CommandHolds(c) /\ CommandHolds(d)
    BY DEF CliInv
  <2>2. \A e \in Terminals : commands[e].mine.pair # fresh
    BY <1>c DEF CliInv, CommandHolds
  <2>3. CASE d = c
    <3>1. commands'[d].mine.pair = fresh /\ commands'[d].at = "save"
      BY <2>3, <1>e, <1>g
    <3>2. fresh \notin rotated'
      BY <1>c
    <3>3. \A e \in Terminals \ {d} : commands'[e].mine.pair # fresh
      BY <2>2, <2>3, <1>g
    <3> QED
      BY <3>1, <3>2, <3>3, <1>2, <1>c DEF CommandHolds, AtPoint, OnTheWay
  <2>4. CASE d # c
    <3>1. commands'[d] = commands[d]
      BY <2>4, <1>g
    <3>2. commands[d].mine.pair # fresh
      BY <2>2
    <3>3. ASSUME OnTheWay(d), commands[d].mine.pair # 0
          PROVE  /\ commands[d].mine.pair # file.pair /\ commands[d].mine.pair \notin rotated'
                 /\ \A e \in Terminals \ {d} : commands'[e].mine.pair # commands[d].mine.pair
      <4>1. /\ commands[d].mine.pair # file.pair /\ commands[d].mine.pair \notin rotated
            /\ \A e \in Terminals \ {d} : commands[e].mine.pair # commands[d].mine.pair
        BY <3>3, <2>1 DEF CommandHolds
      <4> QED
        BY <4>1, <3>2, <2>4, <1>e, <1>g
    <3> QED
      BY <3>1, <3>3, <2>1, <1>c DEF CommandHolds, AtPoint, OnTheWay
  <2> QED
    BY <2>3, <2>4
<1>4. ASSUME file'.pair \in rotated', file'.pair \notin orphans'
      PROVE  \E n \in Pairs' :
               /\ parents'[n] = file'.pair
               /\ n \in lost' \/ \E d \in Terminals :
                    commands'[d].at \in {"save", "write"} /\ commands'[d].mine = WithTokens(n)
  <2>1. CASE file.pair = issuer
    BY <2>1, <1>b, <1>c, <1>e, <1>g
  <2>2. CASE file.pair # issuer
    <3>1. file.pair \in rotated /\ file.pair \notin orphans
      BY <2>2, <1>4
    <3>2. PICK n \in Pairs : /\ parents[n] = file.pair
                             /\ n \in lost \/ \E d \in Terminals :
                                  /\ commands[d].at \in {"save", "write"}
                                  /\ commands[d].mine = WithTokens(n)
      BY <3>1 DEF CliInv, FileFollowsRotation
    <3>3. n \in lost' \/ \E d \in Terminals :
            commands'[d].at \in {"save", "write"} /\ commands'[d].mine = WithTokens(n)
      BY <3>2, <1>g DEF OnTheWay, AtPoint
    <3> QED
      BY <3>2, <3>3, <1>b, <1>c
  <2> QED
    BY <2>1, <2>2
<1>5. FileFollowsRotation'
  BY <1>4 DEF FileFollowsRotation
<1> QED
  BY <1>1, <1>2, <1>3, <1>5, <1>b DEF CliInv

\* What a command writes becomes the login of the file.
LEMMA LoginWritten ==
  ASSUME CliInv, NEW c \in Terminals, Write(c), file' = commands[c].mine
  PROVE  CliInv'
<1>a. CliTypeOK /\ parents \in Seq(Nat) /\ Len(parents) \in Nat
  BY DEF CliInv
<1>b. Pairs' = Pairs
  BY DEF Pairs, Write
<1>c. rotated \subseteq Pairs /\ 0 \notin Pairs
  BY <1>a DEF CliTypeOK, Pairs
<1>d. commands \in [Terminals -> Command] /\ file \in Configs
  BY <1>a DEF CliTypeOK
<1>e. OnTheWay(c) /\ CommandHolds(c)
  BY DEF CliInv, Write, OnTheWay
<1> DEFINE to == IF commands[c].next = "ready" THEN NoCommand
                 ELSE [commands[c] EXCEPT !.at = commands[c].next]
<1>f. /\ to \in Command /\ to.at \in {"ready", "work"}
      /\ to.mine.pair \in {0, commands[c].mine.pair}
  BY <1>d, ConfigsByPair DEF Command, NoCommand
<1>g. commands' = [commands EXCEPT ![c] = to]
  BY <1>d DEF Write, Continue, End
<1> HIDE DEF to
<1>h. commands'[c] = to /\ \A d \in Terminals \ {c} : commands'[d] = commands[d]
  BY <1>d, <1>g
<1>1. CliTypeOK'
  <2>1. file' \in Configs
    BY <1>d DEF Command
  <2>2. commands' \in [Terminals -> Command]
    BY <1>d, <1>f, <1>g
  <2> QED
    BY <1>a, <1>b, <2>1, <2>2 DEF CliTypeOK, Write
<1>2. file'.pair \in Pairs' \cup {0}
  BY <1>b, <1>e DEF CommandHolds
<1>3. file'.pair \notin rotated'
  BY <1>c, <1>e DEF CommandHolds, Write
<1>4. ASSUME NEW d \in Terminals PROVE CommandHolds(d)'
  <2>1. CommandHolds(d)
    BY DEF CliInv
  <2>2. CASE d = c
    BY <2>2, <1>b, <1>e, <1>f, <1>h DEF CommandHolds, AtPoint, OnTheWay
  <2>3. CASE d # c
    <3>1. commands'[d] = commands[d]
      BY <2>3, <1>h
    <3>2. ASSUME OnTheWay(d), commands[d].mine.pair # 0
          PROVE  /\ commands[d].mine.pair # file'.pair /\ commands[d].mine.pair \notin rotated'
                 /\ \A e \in Terminals \ {d} : commands'[e].mine.pair # commands[d].mine.pair
      <4>1. /\ commands[d].mine.pair \notin rotated
            /\ \A e \in Terminals \ {d} : commands[e].mine.pair # commands[d].mine.pair
        BY <3>2, <2>1 DEF CommandHolds
      <4>2. \A e \in Terminals \ {d} : commands'[e].mine.pair # commands[d].mine.pair
        BY <4>1, <3>2, <2>3, <1>f, <1>h
      <4> QED
        BY <4>1, <4>2, <2>3 DEF Write
    <3> QED
      BY <3>1, <3>2, <2>1, <1>b DEF CommandHolds, AtPoint, OnTheWay
  <2> QED
    BY <2>2, <2>3
<1>5. FileFollowsRotation'
  BY <1>3 DEF FileFollowsRotation
<1> QED
  BY <1>1, <1>2, <1>4, <1>5, <1>a DEF CliInv, Write

\* A rotation that fails has used up a pair that is on no command's way, and leaves
\* it among the orphans.
LEMMA RotationFails ==
  ASSUME CliInv, NEW c \in Terminals, RotateFails(c)
  PROVE  CliInv'
<1>a. CliTypeOK /\ parents \in Seq(Nat) /\ Len(parents) \in Nat
  BY DEF CliInv
<1>b. /\ UNCHANGED <<file, ranSoFar, parents, stalePairs, lost>>
      /\ rotated' = rotated \cup {commands[c].mine.pair}
      /\ orphans' = orphans \cup {commands[c].mine.pair}
      /\ commands' = [commands EXCEPT ![c].at = "work"]
  BY DEF RotateFails, Continue
<1>c. Pairs' = Pairs
  BY <1>b DEF Pairs
<1>d. commands \in [Terminals -> Command]
  BY <1>a DEF CliTypeOK
<1>e. CommandHolds(c) /\ commands[c].mine.pair \in Pairs
  BY DEF CliInv, RotateFails, CommandHolds, AtPoint
<1>f. /\ commands' \in [Terminals -> Command]
      /\ \A d \in Terminals : commands'[d].mine = commands[d].mine
      /\ commands'[c].at = "work" /\ \A d \in Terminals \ {c} : commands'[d] = commands[d]
  BY <1>b, <1>d DEF Command
<1>1. CliTypeOK'
  BY <1>a, <1>b, <1>c, <1>e, <1>f DEF CliTypeOK
<1>2. ASSUME NEW d \in Terminals PROVE CommandHolds(d)'
  <2>1. CommandHolds(d)
    BY DEF CliInv
  <2>2. CASE d = c
    BY <2>2, <1>c, <1>e, <1>f DEF AtPoint, OnTheWay, CommandHolds
  <2>3. CASE d # c
    <3>1. commands'[d] = commands[d]
      BY <2>3, <1>f
    <3>2. ASSUME OnTheWay(d), commands[d].mine.pair # 0
          PROVE  /\ commands[d].mine.pair # file'.pair /\ commands[d].mine.pair \notin rotated'
                 /\ \A e \in Terminals \ {d} : commands'[e].mine.pair # commands[d].mine.pair
      <4>1. /\ commands[d].mine.pair # file.pair /\ commands[d].mine.pair \notin rotated
            /\ \A e \in Terminals \ {d} : commands[e].mine.pair # commands[d].mine.pair
        BY <3>2, <2>1 DEF CommandHolds
      <4>2. commands[d].mine.pair \notin rotated'
        BY <4>1, <2>3, <1>b
      <4> QED
        BY <4>1, <4>2, <1>b, <1>f
    <3> QED
      BY <3>1, <3>2, <2>1, <1>c DEF CommandHolds, AtPoint, OnTheWay
  <2> QED
    BY <2>2, <2>3
<1>3. ASSUME file.pair \in rotated', file.pair \notin orphans'
      PROVE  \E n \in Pairs :
               /\ parents[n] = file.pair
               /\ n \in lost \/ \E d \in Terminals :
                    commands'[d].at \in {"save", "write"} /\ commands'[d].mine = WithTokens(n)
  <2>1. file.pair \in rotated /\ file.pair \notin orphans
    BY <1>3, <1>b
  <2>2. PICK n \in Pairs : /\ parents[n] = file.pair
                           /\ n \in lost \/ \E d \in Terminals :
                                /\ commands[d].at \in {"save", "write"}
                                /\ commands[d].mine = WithTokens(n)
    BY <2>1 DEF CliInv, FileFollowsRotation
  <2>3. ASSUME NEW d \in Terminals, commands[d].at \in {"save", "write"}
        PROVE  commands'[d] = commands[d]
    BY <2>3, <1>f DEF RotateFails, AtPoint
  <2> QED
    BY <2>2, <2>3
<1>4. FileFollowsRotation'
  BY <1>3, <1>b, <1>c DEF FileFollowsRotation
<1> QED
  BY <1>1, <1>2, <1>4, <1>a, <1>b, <1>c DEF CliInv

LEMMA CliInvNext == CliInv /\ [CliNext]_cliVars => CliInv'
<1> SUFFICES ASSUME CliInv, [CliNext]_cliVars PROVE CliInv'
  OBVIOUS
<1>a. CliTypeOK /\ MaxCommands \in Nat /\ Len(parents) \in Nat
  BY CliAssumption DEF CliInv
<1>b. /\ commands \in [Terminals -> Command] /\ file \in Configs /\ ranSoFar \in 0..MaxCommands
      /\ lost \subseteq Pairs /\ rotated \subseteq Pairs /\ stalePairs \subseteq Pairs
      /\ 0 \notin Pairs
  BY <1>a DEF CliTypeOK, Pairs
<1>c. NoCommand \in Command /\ NoCommand.mine.pair = 0 /\ NoCommand.at = "ready"
  BY ConfigsByPair DEF NoCommand, Command
<1>d. \A c \in Terminals : /\ CommandHolds(c) /\ commands[c] \in Command
                           /\ commands[c].mine \in Configs
                           /\ Losing(c) \subseteq Pairs
                           /\ commands[c].mine.pair # 0 => commands[c].mine.pair \in Losing(c)
  <2> SUFFICES ASSUME NEW c \in Terminals
               PROVE  /\ CommandHolds(c) /\ commands[c] \in Command
                      /\ commands[c].mine \in Configs /\ Losing(c) \subseteq Pairs
                      /\ commands[c].mine.pair # 0 => commands[c].mine.pair \in Losing(c)
    OBVIOUS
  <2>1. CommandHolds(c) /\ commands[c] \in Command /\ commands[c].mine \in Configs
    BY <1>b DEF CliInv, Command
  <2>2. /\ commands[c].mine.kind = "tokens" <=> commands[c].mine.pair # 0
        /\ commands[c].mine.pair \in Pairs \cup {0}
    BY <2>1, ConfigsByPair DEF CommandHolds
  <2> QED
    BY <2>1, <2>2 DEF Losing
\* Commands that end, and commands that only go on to the next point.
<1>1. ASSUME NEW c \in Terminals, End(c), file' \in {file, NoLogin, Unreadable},
             lost \subseteq lost', lost' \subseteq Pairs,
             OnTheWay(c) /\ commands[c].mine.pair # 0 => commands[c].mine.pair \in lost',
             UNCHANGED <<ranSoFar, parents, rotated, orphans, stalePairs>>
      PROVE  CliInv'
  BY <1>1, <1>b, <1>c, CommandGoesOn DEF End
<1>2. ASSUME NEW c \in Terminals, NEW point \in {"work", "rotate", "write", "browser", "exchange",
                                                "prompt"},
             commands' = [commands EXCEPT ![c].at = point],
             point = "rotate" => AtPoint(c, "refresh"), point = "write" => AtPoint(c, "save"),
             file' \in {file, NoLogin, Unreadable}, lost \subseteq lost', lost' \subseteq Pairs,
             OnTheWay(c) /\ commands[c].mine.pair # 0 =>
               point = "write" \/ commands[c].mine.pair \in lost',
             UNCHANGED <<ranSoFar, parents, rotated, orphans, stalePairs>>
      PROVE  CliInv'
  <2> DEFINE to == [commands[c] EXCEPT !.at = point]
  <2>1. to \in Command /\ to.at = point /\ to.mine = commands[c].mine
    BY <1>d DEF Command
  <2>2. commands' = [commands EXCEPT ![c] = to]
    BY <1>2
  <2> HIDE DEF to
  <2>3. to.at \in {"refresh", "rotate"} => to.mine.pair \in Pairs
    BY <2>1, <1>2, <1>d DEF CommandHolds
  <2>4. to.at \in {"save", "write"} => OnTheWay(c)
    BY <2>1, <1>2 DEF OnTheWay
  <2> QED
    BY <1>2, <1>b, <2>1, <2>2, <2>3, <2>4, CommandGoesOn
<1>3. ASSUME NEW c \in Terminals, StartCommand(c) PROVE CliInv'
  <2> DEFINE read == IF file = Unreadable THEN NoLogin ELSE file
             to   == [at |-> IF read.pair \in stalePairs THEN "refresh" ELSE "work",
                      mine |-> read, next |-> "work"]
  <2>1. read \in Configs \ {Unreadable} /\ read.pair \in {0, file.pair}
    BY <1>b, ConfigsByPair
  <2> HIDE DEF read
  <2>2. /\ to \in Command /\ to.mine = read /\ to.at \in {"refresh", "work"}
        /\ to.at = "refresh" => read.pair \in Pairs
    BY <2>1, <1>b DEF Command
  <2>3. commands' = [commands EXCEPT ![c] = to] /\ ranSoFar' \in 0..MaxCommands /\ ~OnTheWay(c)
    BY <1>3, <1>a, <1>b DEF StartCommand, read, AtPoint, OnTheWay
  <2>4. UNCHANGED <<file, parents, rotated, orphans, stalePairs, lost>>
    BY <1>3 DEF StartCommand
  <2> HIDE DEF to
  <2> QED
    BY <2>1, <2>2, <2>3, <2>4, <1>b, CommandGoesOn
<1>4. ASSUME NEW c \in Terminals, AskRefresh(c) PROVE CliInv'
  BY <1>4, <1>2, <1>b DEF AskRefresh, Continue, AtPoint, OnTheWay
<1>5. ASSUME NEW c \in Terminals, Rotate(c) PROVE CliInv'
  <2>1. commands[c].mine.pair \in Pairs /\ ~OnTheWay(c)
    BY <1>5, <1>d DEF Rotate, CommandHolds, AtPoint, OnTheWay
  <2>2. /\ Issue(c, commands[c].mine.pair, "work")
        /\ rotated' = rotated \cup {commands[c].mine.pair}
        /\ UNCHANGED <<file, ranSoFar, orphans, stalePairs, lost>>
    BY <1>5 DEF Rotate
  <2> QED
    BY <2>1, <2>2, <1>b, PairIssued
<1>6. ASSUME NEW c \in Terminals, Truncate(c) PROVE CliInv'
  BY <1>6, <1>2, <1>b DEF Truncate, Continue
<1>7. ASSUME NEW c \in Terminals, Write(c) PROVE CliInv'
  <2>1. CASE file' = commands[c].mine
    BY <1>7, <2>1, LoginWritten
  <2>2. CASE file' # commands[c].mine
    <3>1. /\ file' \in {file, NoLogin, Unreadable} /\ lost' = lost \cup Losing(c)
          /\ UNCHANGED <<ranSoFar, parents, rotated, orphans, stalePairs>>
      BY <1>7, <2>2 DEF Write
    <3>2. lost \subseteq lost' /\ lost' \subseteq Pairs
      BY <3>1, <1>b, <1>d
    <3>3. commands[c].mine.pair # 0 => commands[c].mine.pair \in lost'
      BY <3>1, <1>d
    <3>4. End(c) \/ commands' = [commands EXCEPT ![c].at = "work"]
      BY <1>7, <1>d DEF Write, Continue, Command
    <3> QED
      BY <3>1, <3>2, <3>3, <3>4, <1>1, <1>2
  <2> QED
    BY <2>1, <2>2
<1>8. ASSUME NEW c \in Terminals, SaveFails(c) PROVE CliInv'
  <2>1. /\ file' = file /\ lost' = lost \cup Losing(c)
        /\ UNCHANGED <<ranSoFar, parents, rotated, orphans, stalePairs>>
    BY <1>8 DEF SaveFails
  <2>2. lost \subseteq lost' /\ lost' \subseteq Pairs
    BY <2>1, <1>b, <1>d
  <2>3. commands[c].mine.pair # 0 => commands[c].mine.pair \in lost'
    BY <2>1, <1>d
  <2>4. End(c) \/ \E point \in {"work", "prompt"} : commands' = [commands EXCEPT ![c].at = point]
    BY <1>8, <1>d DEF SaveFails, Continue, Command
  <2> QED
    BY <2>1, <2>2, <2>3, <2>4, <1>1, <1>2
<1>9. ASSUME NEW c \in Terminals, FinishWork(c) \/ Logout(c) PROVE CliInv'
  BY <1>9, <1>1, <1>b DEF FinishWork, Logout, AtPoint, OnTheWay
<1>10. ASSUME NEW c \in Terminals, Login(c) \/ TakeCallback(c) PROVE CliInv'
  BY <1>10, <1>2, <1>b DEF Login, TakeCallback, Continue, AtPoint, OnTheWay
<1>11. ASSUME NEW c \in Terminals, ExchangeCode(c) PROVE CliInv'
  <2>1. ~OnTheWay(c) /\ UNCHANGED <<file, ranSoFar, rotated, orphans, stalePairs, lost>>
    BY <1>11 DEF ExchangeCode, AtPoint, OnTheWay
  <2>2. CASE Issue(c, 0, "ready")
    BY <2>1, <2>2, <1>b, PairIssued
  <2>3. CASE Continue(c, "prompt") /\ UNCHANGED parents
    BY <2>1, <2>3, <1>2, <1>b DEF Continue
  <2> QED
    BY <1>11, <2>2, <2>3 DEF ExchangeCode
<1>12. ASSUME NEW c \in Terminals, EnterKey(c) PROVE CliInv'
  <2>1. ~OnTheWay(c) /\ UNCHANGED <<file, ranSoFar, parents, rotated, orphans, stalePairs, lost>>
    BY <1>12 DEF EnterKey, AtPoint, OnTheWay
  <2> DEFINE to == [at |-> "save", mine |-> WithKey, next |-> "ready"]
  <2>2. to \in Command /\ to.mine.pair = 0 /\ to.at = "save"
    BY ConfigsByPair DEF Command
  <2>3. End(c) \/ commands' = [commands EXCEPT ![c] = to]
    BY <1>12 DEF EnterKey
  <2> HIDE DEF to
  <2> QED
    BY <2>1, <2>2, <2>3, <1>1, <1>b, CommandGoesOn
<1>13. ASSUME NEW c \in Terminals, Interrupt(c) PROVE CliInv'
  <2>1. End(c) /\ UNCHANGED <<file, ranSoFar, parents, rotated, orphans, stalePairs>>
    BY <1>13 DEF Interrupt
  <2>2. /\ OnTheWay(c) => lost' = lost \cup Losing(c)
        /\ ~OnTheWay(c) => lost' = lost
    BY <1>13 DEF Interrupt, AtPoint, OnTheWay
  <2>3. lost \subseteq lost' /\ lost' \subseteq Pairs
    BY <2>2, <1>b, <1>d
  <2>4. OnTheWay(c) /\ commands[c].mine.pair # 0 => commands[c].mine.pair \in lost'
    BY <2>2, <1>d
  <2> QED
    BY <2>1, <2>3, <2>4, <1>1
<1>14. ASSUME ExpireAccess PROVE CliInv'
  BY <1>14, <1>a DEF ExpireAccess, CliInv, CliTypeOK, CommandHolds, AtPoint, OnTheWay, Pairs,
                     FileFollowsRotation
<1>15. ASSUME NEW c \in Terminals, RotateFails(c) PROVE CliInv'
  BY <1>15, RotationFails
<1>16. ASSUME UNCHANGED cliVars PROVE CliInv'
  BY <1>16 DEF cliVars, CliInv, CliTypeOK, CommandHolds, AtPoint, OnTheWay, Pairs,
                FileFollowsRotation
<1> QED
  BY <1>3, <1>4, <1>5, <1>6, <1>7, <1>8, <1>9, <1>10, <1>11, <1>12, <1>13, <1>14, <1>15, <1>16
  DEF CliNext

-----------------------------------------------------------------------------
(* RateLimiter                                                             *)

\* The requests that memory admitted since its window began, and those of an
\* interval that an earlier window admitted.
InMemory   == {x \in log : x.where = "memory" /\ x.admitted}
Current    == {x \in InMemory : x.at >= started}
Earlier(t) == {x \in InWindow("memory", t) : x.at < started}

\* An interval that ends after the last request of Redis has no more admissions than
\* Redis has counted; a window in memory has no more than the quota, and what an
\* interval that reaches into it has from before is of one other window.
RateInv ==
  /\ time \in Nat /\ count \in Nat /\ expires \in Nat /\ local \in Nat /\ started \in Nat
  /\ started <= time /\ expires <= time + Window /\ IsFiniteSet(log)
  /\ \A x \in log : x.at \in Nat /\ x.at <= time
  /\ \A x \in log : x.where = "redis" => x.at + Window <= expires
  /\ \A t \in Nat : t + Window + Window > expires => Cardinality(InWindow("redis", t)) <= count
  /\ \A t \in Nat : Cardinality(InWindow("redis", t)) <= Quota
  /\ \A x \in InMemory : x.at < started + Window /\ local # 0
  /\ Cardinality(Current) <= local /\ Cardinality(Current) <= Quota
  /\ \A t \in Nat : t + Window > started => Cardinality(Earlier(t)) <= Quota
  /\ \A t \in Nat : Cardinality(InWindow("memory", t)) <= 2 * Quota

LEMMA RateInvInit == RateInit => RateInv
<1> SUFFICES ASSUME RateInit PROVE RateInv
  OBVIOUS
<1>1. /\ IsFiniteSet({}) /\ Cardinality({}) = 0 /\ Quota \in Nat /\ Window \in Nat
  BY FS_EmptySet, RateAssumption
<1>2. /\ InMemory = {} /\ Current = {}
      /\ \A t : Earlier(t) = {} /\ InWindow("memory", t) = {} /\ InWindow("redis", t) = {}
  BY DEF RateInit, InMemory, Current, Earlier, InWindow
<1>3. \A t \in Nat : /\ Cardinality(InWindow("redis", t)) = 0
                     /\ Cardinality(InWindow("memory", t)) = 0
                     /\ Cardinality(Earlier(t)) = 0
  BY <1>1, <1>2
<1>4. Cardinality(Current) = 0 /\ 0 <= 2 * Quota /\ 0 <= Quota
  BY <1>1, <1>2
<1>5. time = 0 /\ count = 0 /\ expires = 0 /\ local = 0 /\ started = 0 /\ log = {}
  BY DEF RateInit
<1> QED
  BY <1>1, <1>2, <1>3, <1>4, <1>5 DEF RateInv

LEMMA LogIsFinite ==
  /\ IsFiniteSet(log) =>
       /\ IsFiniteSet(Current) /\ Cardinality(Current) \in Nat
       /\ \A t : /\ IsFiniteSet(Earlier(t)) /\ Cardinality(Earlier(t)) \in Nat
                 /\ \A w : /\ IsFiniteSet(InWindow(w, t))
                           /\ Cardinality(InWindow(w, t)) \in Nat
  /\ IsFiniteSet(log') =>
       /\ IsFiniteSet(Current') /\ Cardinality(Current') \in Nat
       /\ \A t : /\ IsFiniteSet(Earlier(t)') /\ Cardinality(Earlier(t)') \in Nat
                 /\ \A w : /\ IsFiniteSet(InWindow(w, t)')
                           /\ Cardinality(InWindow(w, t)') \in Nat
<1>1. Current \subseteq log /\ Current' \subseteq log'
  BY DEF Current, InMemory
<1>2. \A t : /\ Earlier(t) \subseteq log /\ Earlier(t)' \subseteq log'
            /\ \A w : InWindow(w, t) \subseteq log /\ InWindow(w, t)' \subseteq log'
  BY DEF Earlier, InWindow
<1> QED
  BY <1>1, <1>2, FS_Subset, FS_CardinalityType

LEMMA RedisAnswers ==
  ASSUME RateInv, NEW n, CheckRedis(n)
  PROVE  RateInv'
<1>a. Quota \in Nat \ {0} /\ Window \in Nat \ {0}
  BY RateAssumption
<1>b. /\ time \in Nat /\ count \in Nat /\ expires \in Nat /\ local \in Nat /\ started \in Nat
      /\ started <= time /\ expires <= time + Window /\ IsFiniteSet(log)
      /\ \A x \in log : x.at \in Nat /\ x.at <= time
  BY DEF RateInv
<1> DEFINE x == [at |-> time, nth |-> Cardinality(log), where |-> "redis", admitted |-> n <= Quota]
<1>c. /\ log' = log \cup {x} /\ x.at = time /\ x.where = "redis"
      /\ x.admitted <=> n <= Quota
  BY DEF CheckRedis, Record
<1> HIDE DEF x
<1>d. /\ n = (IF expires <= time THEN 0 ELSE count) + 1 /\ n \in Nat
      /\ count' = n /\ expires' = time + Window
      /\ time' = time /\ local' = local /\ started' = started
  BY <1>b DEF CheckRedis
<1>1. IsFiniteSet(log')
  BY <1>b, <1>c, OneMore
<1>2. \A y \in log' : y.at \in Nat /\ y.at <= time /\ (y.where = "redis" => y.at + Window <= expires')
  BY <1>a, <1>b, <1>c, <1>d
<1>3. ASSUME NEW t \in Nat
      PROVE  /\ t + Window + Window > expires' => Cardinality(InWindow("redis", t)') <= count'
             /\ Cardinality(InWindow("redis", t)') <= Quota
  <2>1. Cardinality(InWindow("redis", t)) \in Nat /\ IsFiniteSet(InWindow("redis", t))
    BY <1>b, LogIsFinite
  <2>2. InWindow("redis", t)' \subseteq InWindow("redis", t) \cup {x}
    BY <1>c DEF InWindow
  <2>3. /\ Cardinality(InWindow("redis", t)') <= Cardinality(InWindow("redis", t)) + 1
        /\ Cardinality(InWindow("redis", t)') \in Nat
    BY <2>1, <2>2, OneMore, FS_CardinalityType
  <2>4. ASSUME t + Window > time PROVE Cardinality(InWindow("redis", t)) + 1 <= n
    <3>1. CASE expires <= time
      <4>1. InWindow("redis", t) = {}
        BY <2>4, <3>1, <1>a, <1>b DEF InWindow, RateInv
      <4> QED
        BY <4>1, <3>1, <1>d, FS_EmptySet
    <3>2. CASE expires > time
      <4>1. t + Window + Window > expires
        BY <2>4, <1>a, <1>b
      <4> QED
        BY <4>1, <3>2, <1>d, <2>1, <1>b DEF RateInv
    <3> QED
      BY <3>1, <3>2, <1>b
  <2>5. ASSUME ~(t + Window > time /\ n <= Quota)
        PROVE  InWindow("redis", t)' \subseteq InWindow("redis", t)
    BY <2>5, <1>a, <1>b, <1>c DEF InWindow
  <2>6. Cardinality(InWindow("redis", t)) <= Quota
    BY DEF RateInv
  <2>7. Cardinality(InWindow("redis", t)') <= Quota
    <3>1. CASE t + Window > time /\ n <= Quota
      BY <3>1, <2>1, <2>3, <2>4, <1>a, <1>d
    <3>2. CASE ~(t + Window > time /\ n <= Quota)
      BY <3>2, <2>1, <2>3, <2>5, <2>6, <1>a, FS_Subset
    <3> QED
      BY <3>1, <3>2
  <2>8. t + Window + Window > expires' => Cardinality(InWindow("redis", t)') <= count'
    BY <2>1, <2>3, <2>4, <1>a, <1>b, <1>d
  <2> QED
    BY <2>7, <2>8
<1>4. InMemory' = InMemory
  BY <1>c DEF InMemory
<1>5. Current' = Current
  BY <1>4, <1>d DEF Current
<1>6. \A t \in Nat : InWindow("memory", t)' = InWindow("memory", t)
  BY <1>c DEF InWindow
<1>7. \A t \in Nat : Earlier(t)' = Earlier(t)
  BY <1>6, <1>d DEF Earlier
<1> QED
  BY <1>a, <1>b, <1>d, <1>1, <1>2, <1>3, <1>4, <1>5, <1>6, <1>7 DEF RateInv

LEMMA MemoryAnswers ==
  ASSUME RateInv, NEW n, CheckLocal(n)
  PROVE  RateInv'
<1>a. Quota \in Nat \ {0} /\ Window \in Nat \ {0}
  BY RateAssumption
<1>b. /\ time \in Nat /\ count \in Nat /\ expires \in Nat /\ local \in Nat /\ started \in Nat
      /\ started <= time /\ expires <= time + Window /\ IsFiniteSet(log)
      /\ \A y \in log : y.at \in Nat /\ y.at <= time
  BY DEF RateInv
<1> DEFINE x    == [at |-> time, nth |-> Cardinality(log), where |-> "memory",
                    admitted |-> n <= Quota]
           over == local = 0 \/ time - started >= Window
<1>c. /\ log' = log \cup {x} /\ x.at = time /\ x.where = "memory"
      /\ x.admitted <=> n <= Quota
  BY DEF CheckLocal, Record
<1>d. /\ n = (IF over THEN 0 ELSE local) + 1 /\ n \in Nat
      /\ local' = n /\ started' = (IF over THEN time ELSE started)
      /\ time' = time /\ count' = count /\ expires' = expires
  BY <1>b DEF CheckLocal
<1> HIDE DEF x
<1>0. IsFiniteSet(log')
  BY <1>b, <1>c, OneMore
<1>1. IsFiniteSet(log') /\ \A y \in log' : y.at \in Nat /\ y.at <= time
  BY <1>0, <1>b, <1>c
<1>2. \A t \in Nat : InWindow("redis", t)' = InWindow("redis", t)
  BY <1>c DEF InWindow
<1>3. /\ IsFiniteSet(Current) /\ Cardinality(Current) \in Nat
      /\ Cardinality(Current) <= local /\ Cardinality(Current) <= Quota
      /\ IsFiniteSet(Current') /\ Cardinality(Current') \in Nat
  BY <1>b, <1>1, LogIsFinite DEF RateInv
<1>4. InMemory' \subseteq InMemory \cup {x} /\ (n > Quota => InMemory' = InMemory)
  BY <1>c, <1>d, <1>a DEF InMemory
<1>5. \A y \in InMemory' : y.at < started' + Window /\ local' # 0
  <2>1. \A y \in InMemory : y.at < started + Window /\ y.at \in Nat
    BY DEF RateInv, InMemory
  <2> QED
    BY <2>1, <1>4, <1>a, <1>b, <1>c, <1>d
\* Nothing of an old window is left in a new one.
<1>6. over => Current' \subseteq {x}
  BY <1>4, <1>a, <1>b, <1>d DEF RateInv, Current, InMemory
<1>7. ~over => Current' \subseteq Current \cup {x}
  BY <1>4, <1>d DEF Current
<1>8. Cardinality(Current') <= local'
  <2>1. CASE over
    <3>1. IsFiniteSet({x}) /\ Cardinality({x}) = 1
      BY FS_Singleton
    <3>2. Cardinality(Current') <= 1
      BY <3>1, <2>1, <1>6, FS_Subset
    <3> QED
      BY <3>2, <2>1, <1>d, <1>3
  <2>2. CASE ~over
    <3>1. Cardinality(Current') <= Cardinality(Current) + 1
      BY <2>2, <1>3, <1>7, OneMore
    <3> QED
      BY <3>1, <2>2, <1>b, <1>d, <1>3
  <2> QED
    BY <2>1, <2>2
<1>9. Cardinality(Current') <= Quota
  <2>1. CASE n <= Quota
    BY <2>1, <1>8, <1>d, <1>a, <1>3
  <2>2. CASE n > Quota
    <3>1. ~over
      BY <2>2, <1>a, <1>d
    <3>2. Current' = Current
      BY <3>1, <2>2, <1>4, <1>d DEF Current
    <3> QED
      BY <3>2, <1>3
  <2> QED
    BY <2>1, <2>2, <1>a, <1>d
<1>10. ASSUME NEW t \in Nat, t + Window > started' PROVE Cardinality(Earlier(t)') <= Quota
  <2>1. CASE over
    <3>1. Earlier(t)' \subseteq Current
      <4>1. Earlier(t)' \subseteq {y \in InMemory' : y.at >= t /\ y.at < time}
        BY <2>1, <1>1, <1>d DEF Earlier, InWindow, InMemory
      <4>2. Earlier(t)' \subseteq {y \in InMemory : y.at >= t}
        BY <4>1, <1>4, <1>c, <1>b
      <4>3. local # 0 => t >= started
        BY <1>10, <2>1, <1>a, <1>b, <1>d
      <4>4. local = 0 => InMemory = {}
        BY DEF RateInv
      <4>5. \A y \in InMemory : y.at \in Nat
        BY <1>b DEF InMemory
      <4> QED
        BY <4>2, <4>3, <4>4, <4>5, <1>b DEF Current
    <3> QED
      BY <3>1, <1>3, <1>a, FS_Subset, FS_CardinalityType
  <2>2. CASE ~over
    <3>1. Earlier(t)' \subseteq Earlier(t)
      BY <2>2, <1>b, <1>c, <1>d DEF Earlier, InWindow
    <3>2. /\ Cardinality(Earlier(t)) <= Quota
          /\ IsFiniteSet(Earlier(t)) /\ Cardinality(Earlier(t)) \in Nat
      BY <2>2, <1>10, <1>b, <1>d, LogIsFinite DEF RateInv
    <3> QED
      BY <3>1, <3>2, <1>a, FS_Subset, FS_CardinalityType
  <2> QED
    BY <2>1, <2>2
<1>11. ASSUME NEW t \in Nat PROVE Cardinality(InWindow("memory", t)') <= 2 * Quota
  <2>1. /\ IsFiniteSet(InWindow("memory", t)) /\ Cardinality(InWindow("memory", t)) \in Nat
        /\ Cardinality(InWindow("memory", t)) <= 2 * Quota
        /\ IsFiniteSet(InWindow("memory", t)') /\ Cardinality(InWindow("memory", t)') \in Nat
        /\ IsFiniteSet(Earlier(t)') /\ Cardinality(Earlier(t)') \in Nat
    BY <1>b, <1>1, LogIsFinite DEF RateInv
  <2>2. CASE t + Window > time
    <3>1. InWindow("memory", t)' \subseteq Earlier(t)' \cup Current'
      BY <1>1, <1>b, <1>d DEF InWindow, Earlier, Current, InMemory
    <3>2. Cardinality(InWindow("memory", t)') <= Cardinality(Earlier(t)') + Cardinality(Current')
      BY <3>1, <2>1, <1>3, UnionBound
    <3>3. Cardinality(Earlier(t)') <= Quota
      BY <2>2, <1>10, <1>a, <1>b, <1>d
    <3> QED
      BY <3>2, <3>3, <2>1, <1>3, <1>9, <1>a
  <2>3. CASE ~(t + Window > time)
    <3>1. InWindow("memory", t)' \subseteq InWindow("memory", t)
      BY <2>3, <1>a, <1>b, <1>c DEF InWindow
    <3> QED
      BY <3>1, <2>1, <1>a, FS_Subset
  <2> QED
    BY <2>2, <2>3
<1>12. \A y \in log' : y.where = "redis" => y.at + Window <= expires'
  BY <1>c, <1>d DEF RateInv
<1>13. started' \in Nat /\ started' <= time
  BY <1>b, <1>d
<1> QED
  BY <1>b, <1>d, <1>1, <1>2, <1>5, <1>8, <1>9, <1>10, <1>11, <1>12, <1>13 DEF RateInv

LEMMA RateInvNext == RateInv /\ [RateNext]_rateVars => RateInv'
<1> SUFFICES ASSUME RateInv, [RateNext]_rateVars PROVE RateInv'
  OBVIOUS
<1>1. ASSUME Pass \/ UNCHANGED rateVars PROVE RateInv'
  <2>1. /\ time' \in Nat /\ time' >= time
        /\ UNCHANGED <<count, expires, local, started, log>>
    BY <1>1 DEF Pass, rateVars, RateInv
  <2>2. /\ InMemory' = InMemory /\ Current' = Current
        /\ \A t : /\ Earlier(t)' = Earlier(t) /\ \A w : InWindow(w, t)' = InWindow(w, t)
    BY <2>1 DEF InMemory, Current, Earlier, InWindow
  <2>3. /\ time \in Nat /\ started \in Nat /\ expires \in Nat /\ Window \in Nat
        /\ started <= time /\ expires <= time + Window
        /\ \A x \in log : x.at \in Nat /\ x.at <= time
    BY RateAssumption DEF RateInv
  <2>4. started <= time'
    BY <2>1, <2>3
  <2>6. expires <= time' + Window
    <3>1. \A a, b, w, e \in Nat : a <= b /\ e <= a + w => e <= b + w
      OBVIOUS
    <3> QED
      BY <3>1, <2>1, <2>3
  <2>5. ASSUME NEW x \in log PROVE x.at \in Nat /\ x.at <= time'
    <3>1. x.at \in Nat /\ x.at <= time
      BY <2>3
    <3>2. time \in Nat /\ time' \in Nat /\ time <= time'
      BY <2>1, <2>3
    <3> QED
      BY <3>1, <3>2
  <2> QED
    BY <2>1, <2>2, <2>3, <2>4, <2>5, <2>6 DEF RateInv
<1> QED
  BY <1>1, RedisAnswers, MemoryAnswers DEF RateNext

LEMMA RateInvHolds == RateInv => AdmissionsAreBounded
<1>1. \A t \in 0..MaxClock : t \in Nat
  BY RateAssumption
<1> QED
  BY <1>1 DEF RateInv, AdmissionsAreBounded

-----------------------------------------------------------------------------
(* StripePayments: the cards                                               *)

CallState ==
  [op : {"none", "setup", "delete"},
   step : {"start", "create", "store", "offer", "detach", "read", "clear", "done"},
   customer : Nat, card : Cards \cup {NoCard}]

CardsTyped ==
  /\ stored \in Nat /\ customers \in Nat /\ together \in BOOLEAN
  /\ cards \in [Cards -> [state : {"new", "attached", "detached"}, customer : Nat]]
  /\ cardCalls \in [CardCalls -> CallState]
  /\ defaultCard \in Cards \cup {NoCard} /\ intents \subseteq Nat
  /\ \A r \in CardCalls :
       /\ cardCalls[r].op = "none" <=> cardCalls[r].step = "start"
       /\ cardCalls[r].op = "delete" => cardCalls[r].card \in Cards
       /\ cardCalls[r].step = "store" => cardCalls[r].customer # 0

\* Unless two requests created a customer at once: one creates it, before anything
\* names it, and what names one afterwards names the stored one.
OneCustomer ==
  ~together =>
    /\ \A r, s \in Creating : r = s
    /\ Creating # {} => stored = 0
    /\ \A x \in intents : x = stored /\ stored # 0
    /\ \A r \in CardCalls :
         cardCalls[r].step = "offer" => cardCalls[r].customer = stored /\ stored # 0
    /\ \A c \in Cards : cards[c].state = "attached" => cards[c].customer = stored /\ stored # 0

DefaultInView ==
  defaultCard # NoCard /\ cards[defaultCard].state = "detached"
    => defaultCard \in excused \/ Deleting(defaultCard)

CardsInv == CardsTyped /\ OneCustomer /\ DefaultInView

LEMMA CardsInvInit == CardsInit => CardsInv
<1> SUFFICES ASSUME CardsInit PROVE CardsInv
  OBVIOUS
<1>1. CardsTyped
  BY DEF CardsInit, CardsTyped, CallState
<1>2. OneCustomer
  BY DEF CardsInit, OneCustomer, Creating
<1>3. DefaultInView
  BY DEF CardsInit, DefaultInView
<1> QED
  BY <1>1, <1>2, <1>3 DEF CardsInv

LEMMA CardsInvHolds == CardsInv => CardsStayInView
<1> SUFFICES ASSUME CardsInv PROVE CardsStayInView
  OBVIOUS
<1>1. ASSUME ~together, NEW c \in Cards, cards[c].state = "attached"
      PROVE  cards[c] = [state |-> "attached", customer |-> stored] /\ stored # 0
  BY <1>1 DEF CardsInv, CardsTyped, OneCustomer
<1> QED
  BY <1>1 DEF CardsInv, CardsStayInView, Listed, DefaultInView

\* One handler takes a step, the cards stay as they are.
LEMMA HandlerStep ==
  ASSUME CardsInv, NEW r \in CardCalls, NEW to \in CallState,
         cardCalls' = [cardCalls EXCEPT ![r] = to],
         to.op # "none", to.step # "start",
         to.op = "delete" => to.card \in Cards,
         to.step = "store" => to.customer # 0,
         customers' \in Nat, together' \in BOOLEAN, together => together',
         UNCHANGED <<stored, cards, notices>>, excused \subseteq excused',
         intents' \subseteq intents \cup {cardCalls[r].customer},
         intents' = intents \/ cardCalls[r].step = "offer",
         defaultCard' \in {defaultCard, NoCard},
         ~together' /\ to.step \in {"create", "store"} =>
           \/ r \in Creating
           \/ Creating = {} /\ stored = 0,
         ~together' /\ to.step = "offer" => to.customer = stored /\ stored # 0,
         (cardCalls[r].step \in {"read", "clear"} /\ cardCalls[r].card = defaultCard
           /\ defaultCard' # NoCard)
           => \/ to.step \in {"read", "clear"} /\ to.card = cardCalls[r].card
              \/ defaultCard \in excused'
  PROVE  CardsInv'
<1>a. cardCalls \in [CardCalls -> CallState]
  BY DEF CardsInv, CardsTyped
<1>b. cardCalls'[r] = to /\ \A s \in CardCalls \ {r} : cardCalls'[s] = cardCalls[s]
  BY <1>a
<1>1. CardsTyped'
  <2>1. cardCalls' \in [CardCalls -> CallState]
    BY <1>a
  <2>2. \A s \in CardCalls :
          /\ cardCalls'[s].op = "none" <=> cardCalls'[s].step = "start"
          /\ cardCalls'[s].op = "delete" => cardCalls'[s].card \in Cards
          /\ cardCalls'[s].step = "store" => cardCalls'[s].customer # 0
    BY <1>b DEF CardsInv, CardsTyped
  <2>3. cardCalls[r].customer \in Nat
    BY <1>a DEF CallState
  <2> QED
    BY <2>1, <2>2, <2>3 DEF CardsInv, CardsTyped
<1>2. OneCustomer'
  <2> SUFFICES ASSUME ~together'
               PROVE  /\ \A s, q \in Creating' : s = q
                      /\ Creating' # {} => stored' = 0
                      /\ \A x \in intents' : x = stored' /\ stored' # 0
                      /\ \A s \in CardCalls : cardCalls'[s].step = "offer" =>
                           cardCalls'[s].customer = stored' /\ stored' # 0
                      /\ \A c \in Cards : cards'[c].state = "attached" =>
                           cards'[c].customer = stored' /\ stored' # 0
    BY DEF OneCustomer
  <2>1. ~together
    OBVIOUS
  <2>2. Creating' \subseteq Creating \cup {r} /\ (r \in Creating' => to.step \in {"create", "store"})
    BY <1>b DEF Creating
  <2>3. (\A s, q \in Creating' : s = q) /\ (Creating' # {} => stored' = 0)
    BY <2>1, <2>2 DEF CardsInv, OneCustomer
  <2>5. \A x \in intents' : x = stored' /\ stored' # 0
    BY <2>1 DEF CardsInv, OneCustomer
  <2>6. \A s \in CardCalls :
          cardCalls'[s].step = "offer" => cardCalls'[s].customer = stored' /\ stored' # 0
    BY <1>b, <2>1 DEF CardsInv, OneCustomer
  <2>7. \A c \in Cards : cards'[c].state = "attached" => cards'[c].customer = stored' /\ stored' # 0
    BY <2>1 DEF CardsInv, OneCustomer
  <2> QED
    BY <2>3, <2>5, <2>6, <2>7
<1>3. DefaultInView'
  <2> SUFFICES ASSUME defaultCard' # NoCard, cards'[defaultCard'].state = "detached"
               PROVE  defaultCard' \in excused' \/ \E s \in CardCalls :
                        cardCalls'[s].card = defaultCard' /\ cardCalls'[s].step \in {"read", "clear"}
    BY DEF DefaultInView, Deleting
  <2>1. defaultCard' = defaultCard /\ defaultCard # NoCard /\ cards[defaultCard].state = "detached"
    OBVIOUS
  <2>2. defaultCard \in excused \/ \E s \in CardCalls :
          cardCalls[s].card = defaultCard /\ cardCalls[s].step \in {"read", "clear"}
    BY <2>1 DEF CardsInv, DefaultInView, Deleting
  <2> QED
    BY <2>1, <2>2, <1>b
<1> QED
  BY <1>1, <1>2, <1>3 DEF CardsInv

LEMMA CardsInvNext == CardsInv /\ [CardsNext]_cardVars => CardsInv'
<1> SUFFICES ASSUME CardsInv, [CardsNext]_cardVars PROVE CardsInv'
  OBVIOUS
<1>a. /\ stored \in Nat /\ customers \in Nat /\ together \in BOOLEAN
      /\ cards \in [Cards -> [state : {"new", "attached", "detached"}, customer : Nat]]
      /\ cardCalls \in [CardCalls -> CallState] /\ defaultCard \in Cards \cup {NoCard}
      /\ intents \subseteq Nat
  BY DEF CardsInv, CardsTyped
<1>b. \A r \in CardCalls :
        /\ cardCalls[r].op = "none" <=> cardCalls[r].step = "start"
        /\ cardCalls[r].op = "delete" => cardCalls[r].card \in Cards
        /\ cardCalls[r].step = "store" => cardCalls[r].customer # 0
  BY DEF CardsInv, CardsTyped
<1>1. ASSUME NEW r \in CardCalls, LookUpCustomer(r) PROVE CardsInv'
  <2> DEFINE to == [op |-> "setup", step |-> IF stored = 0 THEN "create" ELSE "offer",
                    customer |-> stored, card |-> NoCard]
  <2>1. /\ to \in CallState /\ to.op = "setup" /\ to.customer = stored
        /\ to.step \in {"create", "offer"} /\ (to.step = "create" <=> stored = 0)
    BY <1>a DEF CallState
  <2>2. cardCalls' = [cardCalls EXCEPT ![r] = to] /\ cardCalls[r].step = "start"
    BY <1>1 DEF LookUpCustomer, AtStep
  <2> HIDE DEF to
  <2>3. together' = (together \/ (stored = 0 /\ Creating # {}))
    BY <1>1 DEF LookUpCustomer
  <2>4. together' \in BOOLEAN
    BY <2>3
  <2>5. UNCHANGED <<stored, customers, defaultCard, cards, intents, notices, excused>>
    BY <1>1 DEF LookUpCustomer
  <2> QED
    BY <1>a, <2>1, <2>2, <2>3, <2>4, <2>5, HandlerStep
<1>2. ASSUME NEW r \in CardCalls, CreateCustomer(r) PROVE CardsInv'
  <2> DEFINE to == [cardCalls[r] EXCEPT !.step = "store", !.customer = customers + 1]
  <2>0. customers + 1 \in Nat /\ customers + 1 # 0 /\ cardCalls[r].op = "setup"
    BY <1>a, <1>2 DEF CreateCustomer, AtStep
  <2>1. to \in CallState /\ to.op = "setup" /\ to.customer # 0 /\ to.step = "store"
    BY <1>a, <2>0 DEF CallState
  <2>2. cardCalls' = [cardCalls EXCEPT ![r] = to] /\ cardCalls[r].step = "create"
    BY <1>2, <1>a DEF CreateCustomer, AtStep, CallState
  <2> HIDE DEF to
  <2>3. customers' \in Nat /\ r \in Creating
    BY <1>2, <1>a, <2>2 DEF CreateCustomer, Creating
  <2>4. UNCHANGED <<stored, defaultCard, cards, intents, notices, together, excused>>
    BY <1>2 DEF CreateCustomer
  <2> QED
    BY <1>a, <2>1, <2>2, <2>3, <2>4, HandlerStep
<1>3. ASSUME NEW r \in CardCalls, StoreCustomer(r) PROVE CardsInv'
  <2> DEFINE to == [cardCalls[r] EXCEPT !.step = "offer"]
  <2>1. /\ to \in CallState /\ to.op = "setup" /\ to.customer = cardCalls[r].customer
        /\ to.step = "offer" /\ to.customer # 0
    BY <1>a, <1>b, <1>3 DEF CallState, StoreCustomer, AtStep
  <2>2. cardCalls' = [cardCalls EXCEPT ![r] = to] /\ r \in Creating
    BY <1>3, <1>a DEF StoreCustomer, AtStep, CallState, GoTo, Creating
  <2> HIDE DEF to
  <2>3. cardCalls'[r] = to /\ \A s \in CardCalls \ {r} : cardCalls'[s] = cardCalls[s]
    BY <2>2, <1>a
  <2>4. /\ stored' = to.customer
        /\ UNCHANGED <<customers, defaultCard, cards, intents, notices, together, excused>>
    BY <1>3, <2>1 DEF StoreCustomer
  <2>5. CardsTyped'
    <3>1. cardCalls' \in [CardCalls -> CallState] /\ stored' \in Nat
      BY <1>a, <2>1, <2>2, <2>4 DEF CallState
    <3>2. \A s \in CardCalls :
            /\ cardCalls'[s].op = "none" <=> cardCalls'[s].step = "start"
            /\ cardCalls'[s].op = "delete" => cardCalls'[s].card \in Cards
            /\ cardCalls'[s].step = "store" => cardCalls'[s].customer # 0
      BY <1>b, <2>1, <2>3
    <3> QED
      BY <1>a, <2>4, <3>1, <3>2 DEF CardsTyped
  <2>6. OneCustomer'
    <3> SUFFICES ASSUME ~together
                 PROVE  /\ Creating' = {} /\ intents = {}
                        /\ \A s \in CardCalls : cardCalls'[s].step = "offer" => s = r
                        /\ \A c \in Cards : cards[c].state # "attached"
      BY <2>1, <2>3, <2>4 DEF OneCustomer
    <3>1. stored = 0 /\ \A s \in Creating : s = r
      BY <2>2 DEF CardsInv, OneCustomer
    <3>2. Creating' = {}
      BY <3>1, <2>1, <2>3 DEF Creating
    <3> QED
      BY <3>1, <3>2, <2>3 DEF CardsInv, OneCustomer
  <2>7. DefaultInView'
    BY <1>3, <2>3, <2>4 DEF CardsInv, DefaultInView, Deleting, StoreCustomer, AtStep
  <2> QED
    BY <2>5, <2>6, <2>7 DEF CardsInv
<1>4. ASSUME NEW r \in CardCalls, OfferSetup(r) PROVE CardsInv'
  <2> DEFINE to == [cardCalls[r] EXCEPT !.step = "done"]
  <2>1. to \in CallState /\ to.op = "setup" /\ to.step = "done"
    BY <1>a, <1>4 DEF CallState, OfferSetup, AtStep
  <2>2. cardCalls' = [cardCalls EXCEPT ![r] = to] /\ cardCalls[r].step = "offer"
    BY <1>4 DEF OfferSetup, GoTo, AtStep
  <2> HIDE DEF to
  <2>3. /\ intents' = intents \cup {cardCalls[r].customer}
        /\ UNCHANGED <<stored, customers, defaultCard, cards, notices, together, excused>>
    BY <1>4 DEF OfferSetup
  <2> QED
    BY <1>a, <2>1, <2>2, <2>3, HandlerStep
<1>5. ASSUME NEW r \in CardCalls, NEW c \in Cards, CheckOwner(r, c) PROVE CardsInv'
  <2> DEFINE to == [op |-> "delete", step |-> "detach", customer |-> stored, card |-> c]
  <2>1. to \in CallState /\ to.op = "delete" /\ to.step = "detach" /\ to.card = c
    BY <1>a DEF CallState
  <2>2. cardCalls' = [cardCalls EXCEPT ![r] = to] /\ cardCalls[r].step = "start"
    BY <1>5 DEF CheckOwner, AtStep
  <2> HIDE DEF to
  <2>3. UNCHANGED <<stored, customers, defaultCard, cards, intents, notices, together, excused>>
    BY <1>5 DEF CheckOwner
  <2> QED
    BY <1>a, <2>1, <2>2, <2>3, HandlerStep
<1>6. ASSUME NEW r \in CardCalls, DetachCard(r) PROVE CardsInv'
  <2>1. /\ cardCalls[r].op = "delete" /\ cardCalls[r].step = "detach" /\ cardCalls[r].card \in Cards
        /\ UNCHANGED <<stored, customers, defaultCard, intents, notices, together, excused>>
    BY <1>6, <1>b DEF DetachCard, AtStep
  <2>2. CASE cards[cardCalls[r].card].state # "attached"
    <3> DEFINE to == [cardCalls[r] EXCEPT !.step = "done"]
    <3>1. to \in CallState /\ to.op = "delete" /\ to.step = "done" /\ to.card = cardCalls[r].card
      BY <1>a, <2>1 DEF CallState
    <3>2. cardCalls' = [cardCalls EXCEPT ![r] = to] /\ UNCHANGED cards
      BY <1>6, <2>2 DEF DetachCard, GoTo
    <3> HIDE DEF to
    <3> QED
      BY <1>a, <2>1, <3>1, <3>2, HandlerStep
  <2>3. CASE cards[cardCalls[r].card].state = "attached"
    <3> DEFINE to == [cardCalls[r] EXCEPT !.step = "read"]
               c  == cardCalls[r].card
    <3>1. /\ to \in CallState /\ to.op = "delete" /\ to.step = "read" /\ to.card = c
          /\ to.customer = cardCalls[r].customer /\ c \in Cards
      BY <1>a, <2>1 DEF CallState
    <3>2. cardCalls' = [cardCalls EXCEPT ![r] = to]
          /\ cards' = [cards EXCEPT ![c].state = "detached"]
      BY <1>6, <2>3 DEF DetachCard, GoTo
    <3> HIDE DEF to
    <3>3. cardCalls'[r] = to /\ \A s \in CardCalls \ {r} : cardCalls'[s] = cardCalls[s]
      BY <3>2, <1>a
    <3>4. cards'[c].state = "detached" /\ \A d \in Cards \ {c} : cards'[d] = cards[d]
      BY <3>1, <3>2, <1>a
    <3>5. CardsTyped'
      <4>1. /\ cardCalls' \in [CardCalls -> CallState]
            /\ cards' \in [Cards -> [state : {"new", "attached", "detached"}, customer : Nat]]
        BY <1>a, <3>1, <3>2
      <4>2. \A s \in CardCalls :
              /\ cardCalls'[s].op = "none" <=> cardCalls'[s].step = "start"
              /\ cardCalls'[s].op = "delete" => cardCalls'[s].card \in Cards
              /\ cardCalls'[s].step = "store" => cardCalls'[s].customer # 0
        BY <1>b, <3>1, <3>3
      <4> QED
        BY <1>a, <2>1, <4>1, <4>2 DEF CardsTyped
    <3>6. Creating' = Creating
      BY <2>1, <3>1, <3>3 DEF Creating
    <3>7. OneCustomer'
      <4>1. \A s \in CardCalls :
              cardCalls'[s].step = "offer" =>
                cardCalls[s].step = "offer" /\ cardCalls'[s].customer = cardCalls[s].customer
        BY <3>1, <3>3
      <4>2. \A d \in Cards : cards'[d].state = "attached" => cards'[d] = cards[d]
        BY <3>4
      <4> QED
        BY <2>1, <3>6, <4>1, <4>2 DEF CardsInv, OneCustomer
    <3>8. DefaultInView'
      BY <2>1, <3>1, <3>3, <3>4, <1>a DEF CardsInv, DefaultInView, Deleting
    <3> QED
      BY <3>5, <3>7, <3>8 DEF CardsInv
  <2> QED
    BY <2>2, <2>3
<1>7. ASSUME NEW r \in CardCalls, ReadDefault(r) PROVE CardsInv'
  <2> DEFINE to == [cardCalls[r] EXCEPT
                      !.step = IF defaultCard = cardCalls[r].card THEN "clear" ELSE "done"]
  <2>1. /\ to \in CallState /\ to.op = "delete" /\ to.card = cardCalls[r].card
        /\ to.card \in Cards /\ to.step \in {"clear", "done"}
        /\ defaultCard = cardCalls[r].card => to.step = "clear"
    BY <1>a, <1>b, <1>7 DEF CallState, ReadDefault, AtStep
  <2>2. cardCalls' = [cardCalls EXCEPT ![r] = to] /\ cardCalls[r].step = "read"
    BY <1>7 DEF ReadDefault, GoTo, AtStep
  <2> HIDE DEF to
  <2>3. UNCHANGED <<stored, customers, defaultCard, cards, intents, notices, together, excused>>
    BY <1>7 DEF ReadDefault
  <2> QED
    BY <1>a, <2>1, <2>2, <2>3, HandlerStep
<1>8. ASSUME NEW r \in CardCalls, ForgetDefault(r) PROVE CardsInv'
  <2> DEFINE to == [cardCalls[r] EXCEPT !.step = "done"]
  <2>1. to \in CallState /\ to.op = "delete" /\ to.card \in Cards /\ to.step = "done"
    BY <1>a, <1>b, <1>8 DEF CallState, ForgetDefault, AtStep
  <2>2. cardCalls' = [cardCalls EXCEPT ![r] = to] /\ cardCalls[r].step = "clear"
    BY <1>8 DEF ForgetDefault, GoTo, AtStep
  <2> HIDE DEF to
  <2>3. /\ defaultCard' = NoCard
        /\ UNCHANGED <<stored, customers, cards, intents, notices, together, excused>>
    BY <1>8 DEF ForgetDefault
  <2> QED
    BY <1>a, <2>1, <2>2, <2>3, HandlerStep
<1>9. ASSUME NEW r \in CardCalls, CardCallEnds(r) PROVE CardsInv'
  <2> DEFINE to == [cardCalls[r] EXCEPT !.step = "done"]
  <2>1. /\ to \in CallState /\ to.op # "none" /\ to.step = "done"
        /\ to.op = "delete" => to.card \in Cards
    BY <1>a, <1>b, <1>9 DEF CallState, CardCallEnds
  <2>2. cardCalls' = [cardCalls EXCEPT ![r] = to] /\ cardCalls[r].step # "done"
    BY <1>9 DEF CardCallEnds, GoTo
  <2> HIDE DEF to
  <2>3. /\ UNCHANGED <<stored, customers, defaultCard, cards, intents, notices, together>>
        /\ cardCalls[r].step \in {"read", "clear"} => cardCalls[r].card \in excused'
        /\ excused \subseteq excused'
    BY <1>9 DEF CardCallEnds
  <2> QED
    BY <1>a, <2>1, <2>2, <2>3, HandlerStep
\* The owner and Stripe.
<1>10. ASSUME NEW c \in Cards, NEW x \in intents, AttachCard(c, x) PROVE CardsInv'
  <2>1. /\ cards' = [cards EXCEPT ![c] = [state |-> "attached", customer |-> x]]
        /\ UNCHANGED <<stored, customers, defaultCard, intents, cardCalls, together, excused>>
    BY <1>10 DEF AttachCard
  <2>2. \A d \in Cards \ {c} : cards'[d] = cards[d]
    BY <2>1, <1>a
  <2>3. cards'[c].state = "attached" /\ cards'[c].customer = x /\ x \in intents
    BY <2>1, <1>a
  <2>4. together \/ (x = stored /\ stored # 0)
    BY DEF CardsInv, OneCustomer
  <2>5. CardsTyped'
    <3>1. cards' \in [Cards -> [state : {"new", "attached", "detached"}, customer : Nat]]
      BY <2>1, <1>a
    <3> QED
      BY <2>1, <3>1 DEF CardsInv, CardsTyped
  <2>6. OneCustomer'
    BY <2>1, <2>2, <2>3, <2>4 DEF CardsInv, OneCustomer, Creating
  <2>7. DefaultInView'
    BY <2>1, <2>2, <2>3 DEF CardsInv, CardsTyped, DefaultInView, Deleting
  <2> QED
    BY <2>5, <2>6, <2>7 DEF CardsInv
<1>11. ASSUME NEW c \in Cards, MakeDefault(c),
              UNCHANGED <<stored, customers, cards, intents, cardCalls, together>>
       PROVE  CardsInv'
  <2>1. CardsTyped'
    BY <1>11 DEF CardsInv, CardsTyped, MakeDefault
  <2>2. OneCustomer'
    BY <1>11 DEF CardsInv, OneCustomer, Creating
  <2>3. DefaultInView'
    BY <1>11 DEF DefaultInView, MakeDefault
  <2> QED
    BY <2>1, <2>2, <2>3 DEF CardsInv
<1>12. ASSUME NEW c \in Cards, SetDefaultCard(c) PROVE CardsInv'
  BY <1>11, <1>12 DEF SetDefaultCard
<1>13. ASSUME UNCHANGED <<stored, customers, defaultCard, cards, intents, cardCalls, together, excused>>
       PROVE  CardsInv'
  <2>1. CardsTyped'
    BY <1>13 DEF CardsInv, CardsTyped
  <2>2. OneCustomer'
    BY <1>13 DEF CardsInv, OneCustomer, Creating
  <2>3. DefaultInView'
    BY <1>13 DEF CardsInv, DefaultInView, Deleting
  <2> QED
    BY <2>1, <2>2, <2>3 DEF CardsInv
<1>14. ASSUME NEW c \in Cards, NEW again \in BOOLEAN, SetupSucceeded(c, again) PROVE CardsInv'
  BY <1>11, <1>13, <1>14 DEF SetupSucceeded
<1>15. ASSUME UNCHANGED cardVars PROVE CardsInv'
  BY <1>13, <1>15 DEF cardVars
<1> QED
  BY <1>1, <1>2, <1>3, <1>4, <1>5, <1>6, <1>7, <1>8, <1>9, <1>10, <1>12, <1>14, <1>15
  DEF CardsNext

-----------------------------------------------------------------------------
(* StripePayments: the invoices                                            *)

Invoiced(x) == \E q \in Purchases : x \in invoiceItems[q]

\* The item of a purchase is pending or on one invoice, from the time that it is
\* made, and on one when the purchase has an invoice; a paid invoice stays paid and
\* has its credits granted or its webhook on the way.
InvoicesInv ==
  /\ InvoicesTypeOK
  /\ \A p, q \in Purchases : p # q => invoiceItems[p] \cap invoiceItems[q] = {}
  /\ \A p \in Purchases :
       /\ invoiceItems[p] \cap pendingItems = {}
       /\ buying[p] \in {"start", "item"} => p \notin pendingItems /\ ~Invoiced(p)
       /\ buying[p] = "draft" => p \in pendingItems \/ Invoiced(p)
       /\ buying[p] \in {"start", "item", "draft"} => invoice[p] = "none"
       /\ buying[p] = "finalize" => invoice[p] = "draft"
       /\ buying[p] = "grant" => invoice[p] = "paid"
       /\ buying[p] = "pay" => invoice[p] # "none"
       /\ invoice[p] = "none" => invoiceItems[p] = {}
       /\ invoice[p] # "none" => Invoiced(p)
       /\ invoice[p] = "paid" => p \in paidHooks \/ p \in granted
       /\ p \in paidHooks \/ p \in granted => invoice[p] = "paid"

LEMMA InvoicesInvInit == InvoicesInit => InvoicesInv
<1> SUFFICES ASSUME InvoicesInit PROVE InvoicesInv
  OBVIOUS
<1>1. InvoicesTypeOK
  BY InvoicesAssumption DEF InvoicesInit, InvoicesTypeOK, BuyingSteps
<1> QED
  BY <1>1 DEF InvoicesInit, InvoicesInv, Invoiced

LEMMA InvoicesInvHolds == InvoicesInv => GrantsArePaid
<1> SUFFICES ASSUME InvoicesInv PROVE GrantsArePaid
  OBVIOUS
<1>1. ASSUME NEW p \in granted PROVE p \in PaidItems \/ p \in TakenItems
  <2>1. p \in Purchases /\ invoice[p] = "paid" /\ Invoiced(p)
    BY DEF InvoicesInv, InvoicesTypeOK
  <2>2. PICK q \in Purchases : p \in invoiceItems[q]
    BY <2>1 DEF Invoiced
  <2>3. CASE q = p
    BY <2>1, <2>2, <2>3 DEF PaidItems
  <2>4. CASE q # p
    BY <2>1, <2>2, <2>4 DEF TakenItems
  <2> QED
    BY <2>3, <2>4
<1>2. ASSUME NEW p \in PaidItems \ granted, invoice[p] = "paid" PROVE p \in paidHooks
  <2>1. p \in Purchases
    BY DEF PaidItems, InvoicesInv, InvoicesTypeOK
  <2> QED
    BY <2>1, <1>2 DEF InvoicesInv
<1> QED
  BY <1>1, <1>2 DEF InvoicesInv, GrantsArePaid

\* An invoice that had not been paid is charged.
LEMMA InvoiceCharged ==
  ASSUME InvoicesInv, NEW p \in Purchases, NEW outcome \in {"open", "paid", "authenticate"},
         NEW to \in {buying[p], "pay", "grant", "done"}, Charged(p, outcome),
         buying' = [buying EXCEPT ![p] = to],
         invoice[p] \notin {"none", "paid"}, to # "finalize", to = "grant" => outcome = "paid",
         UNCHANGED <<pendingItems, invoiceItems, granted, broken, invoiceFaults>>
  PROVE  InvoicesInv'
<1>a. InvoicesTypeOK
  BY DEF InvoicesInv
<1>b. /\ buying \in [Purchases -> BuyingSteps] /\ pendingItems \subseteq Purchases
      /\ invoice \in [Purchases -> {"none", "draft", "open", "authenticate", "paid"}]
      /\ paidHooks \subseteq Purchases
  BY <1>a DEF InvoicesTypeOK
<1>c. /\ buying'[p] = to /\ \A q \in Purchases \ {p} : buying'[q] = buying[q]
      /\ invoice'[p] = outcome /\ \A q \in Purchases \ {p} : invoice'[q] = invoice[q]
      /\ outcome = "paid" => p \in paidHooks'
      /\ paidHooks \subseteq paidHooks' /\ paidHooks' \subseteq paidHooks \cup {p}
      /\ p \in paidHooks' => p \in paidHooks \/ outcome = "paid"
  BY <1>b DEF Charged
<1>1. InvoicesTypeOK'
  <2>1. buying' \in [Purchases -> BuyingSteps]
    BY <1>b DEF BuyingSteps
  <2>2. invoice' \in [Purchases -> {"none", "draft", "open", "authenticate", "paid"}]
    BY <1>b DEF Charged
  <2> QED
    BY <1>a, <1>c, <2>1, <2>2 DEF InvoicesTypeOK
<1>2. \A q : Invoiced(q)' <=> Invoiced(q)
  BY DEF Invoiced
<1>3. buying[p] \notin {"start", "item", "draft"} /\ p \notin paidHooks /\ p \notin granted
  BY DEF InvoicesInv
<1>4. ASSUME NEW q \in Purchases
      PROVE  /\ buying'[q] \in {"start", "item"} => q \notin pendingItems /\ ~Invoiced(q)
             /\ buying'[q] = "draft" => q \in pendingItems \/ Invoiced(q)
             /\ buying'[q] \in {"start", "item", "draft"} => invoice'[q] = "none"
             /\ buying'[q] = "finalize" => invoice'[q] = "draft"
             /\ buying'[q] = "grant" => invoice'[q] = "paid"
             /\ buying'[q] = "pay" => invoice'[q] # "none"
             /\ invoice'[q] = "none" => invoiceItems[q] = {}
             /\ invoice'[q] # "none" => Invoiced(q)
             /\ invoice'[q] = "paid" => q \in paidHooks' \/ q \in granted
             /\ q \in paidHooks' \/ q \in granted => invoice'[q] = "paid"
  <2>1. CASE q = p
    <3>1. Invoiced(p)
      BY DEF InvoicesInv
    <3> QED
      BY <2>1, <3>1, <1>c, <1>3
  <2>2. CASE q # p
    BY <2>2, <1>c DEF InvoicesInv
  <2> QED
    BY <2>1, <2>2
<1> QED
  BY <1>1, <1>2, <1>4 DEF InvoicesInv

LEMMA InvoicesInvNext == InvoicesInv /\ [InvoicesNext]_invoiceVars => InvoicesInv'
<1> SUFFICES ASSUME InvoicesInv, [InvoicesNext]_invoiceVars PROVE InvoicesInv'
  OBVIOUS
<1>a. /\ InvoicesTypeOK
      /\ buying \in [Purchases -> BuyingSteps] /\ pendingItems \subseteq Purchases
      /\ invoiceItems \in [Purchases -> SUBSET Purchases]
      /\ invoice \in [Purchases -> {"none", "draft", "open", "authenticate", "paid"}]
      /\ paidHooks \subseteq Purchases /\ granted \subseteq Purchases
      /\ broken \subseteq Purchases /\ invoiceFaults \in 0..MaxInvoiceFaults
      /\ MaxInvoiceFaults \in Nat
  BY InvoicesAssumption DEF InvoicesInv, InvoicesTypeOK
<1>b. (UNCHANGED invoiceItems) => \A q : Invoiced(q)' <=> Invoiced(q)
  BY DEF Invoiced
\* A handler that goes on, and what a purchase that has its credits shows.
<1>1. ASSUME NEW p \in Purchases, NEW to \in BuyingSteps, buying' = [buying EXCEPT ![p] = to],
             \/ buying[p] = "start" /\ to = "item"
             \/ to = "done" /\ buying[p] # "start"
             \/ to = "grant" /\ invoice[p] = "paid" /\ buying[p] = "pay"
             \/ to = buying[p],
             broken' \subseteq Purchases, invoiceFaults' \in 0..MaxInvoiceFaults,
             granted \subseteq granted', granted' \subseteq granted \cup {p},
             paidHooks' \subseteq paidHooks, paidHooks \subseteq paidHooks' \cup granted',
             p \in granted' => p \in granted \/ invoice[p] = "paid",
             UNCHANGED <<pendingItems, invoiceItems, invoice>>
      PROVE  InvoicesInv'
  <2>1. buying'[p] = to /\ \A q \in Purchases \ {p} : buying'[q] = buying[q]
    BY <1>1, <1>a
  <2>2. InvoicesTypeOK'
    <3>1. buying' \in [Purchases -> BuyingSteps]
      BY <1>1, <1>a
    <3> QED
      BY <1>1, <1>a, <3>1 DEF InvoicesTypeOK
  <2>3. ASSUME NEW q \in Purchases
        PROVE  /\ buying'[q] \in {"start", "item"} => q \notin pendingItems /\ ~Invoiced(q)
               /\ buying'[q] = "draft" => q \in pendingItems \/ Invoiced(q)
               /\ buying'[q] \in {"start", "item", "draft"} => invoice[q] = "none"
               /\ buying'[q] = "finalize" => invoice[q] = "draft"
               /\ buying'[q] = "grant" => invoice[q] = "paid"
               /\ buying'[q] = "pay" => invoice[q] # "none"
    <3>1. CASE q = p
      BY <1>1, <2>1, <3>1 DEF InvoicesInv
    <3>2. CASE q # p
      BY <2>1, <3>2 DEF InvoicesInv
    <3> QED
      BY <3>1, <3>2
  <2>4. ASSUME NEW q \in Purchases
        PROVE  /\ invoice[q] = "paid" => q \in paidHooks' \/ q \in granted'
               /\ q \in paidHooks' \/ q \in granted' => invoice[q] = "paid"
    BY <1>1 DEF InvoicesInv
  <2> QED
    BY <1>1, <1>b, <2>2, <2>3, <2>4 DEF InvoicesInv
<1>2. ASSUME NEW p \in Purchases, StartPurchase(p) PROVE InvoicesInv'
  BY <1>1, <1>2, <1>a DEF StartPurchase, BuyStep, BuyingSteps
<1>3. ASSUME NEW p \in Purchases, CreateItem(p) PROVE InvoicesInv'
  <2>1. /\ buying[p] = "item" /\ buying' = [buying EXCEPT ![p] = "draft"]
        /\ pendingItems' = pendingItems \cup {p}
        /\ UNCHANGED <<invoiceItems, invoice, paidHooks, granted, broken, invoiceFaults>>
    BY <1>3 DEF CreateItem, BuyStep
  <2>2. buying'[p] = "draft" /\ \A q \in Purchases \ {p} : buying'[q] = buying[q]
    BY <2>1, <1>a
  <2>3. InvoicesTypeOK'
    <3>1. buying' \in [Purchases -> BuyingSteps]
      BY <2>1, <1>a DEF BuyingSteps
    <3> QED
      BY <2>1, <1>a, <3>1 DEF InvoicesTypeOK
  <2>4. ~Invoiced(p) /\ invoice[p] = "none"
    BY <2>1 DEF InvoicesInv
  <2>5. \A q \in Purchases : invoiceItems[q] \cap pendingItems' = {}
    BY <2>1, <2>4 DEF InvoicesInv, Invoiced
  <2>6. ASSUME NEW q \in Purchases
        PROVE  /\ buying'[q] \in {"start", "item"} => q \notin pendingItems' /\ ~Invoiced(q)
               /\ buying'[q] = "draft" => q \in pendingItems' \/ Invoiced(q)
               /\ buying'[q] \in {"start", "item", "draft"} => invoice[q] = "none"
               /\ buying'[q] = "finalize" => invoice[q] = "draft"
               /\ buying'[q] = "grant" => invoice[q] = "paid"
               /\ buying'[q] = "pay" => invoice[q] # "none"
    BY <2>1, <2>2, <2>4 DEF InvoicesInv
  <2> QED
    BY <1>b, <2>1, <2>3, <2>5, <2>6 DEF InvoicesInv
<1>4. ASSUME NEW p \in Purchases, CreateInvoice(p) PROVE InvoicesInv'
  <2>1. /\ buying[p] = "draft" /\ buying' = [buying EXCEPT ![p] = "finalize"]
        /\ invoiceItems' = [invoiceItems EXCEPT ![p] = pendingItems] /\ pendingItems' = {}
        /\ invoice' = [invoice EXCEPT ![p] = "draft"]
        /\ UNCHANGED <<paidHooks, granted, broken, invoiceFaults>>
    BY <1>4 DEF CreateInvoice, BuyStep
  <2>2. /\ buying'[p] = "finalize" /\ \A q \in Purchases \ {p} : buying'[q] = buying[q]
        /\ invoice'[p] = "draft" /\ \A q \in Purchases \ {p} : invoice'[q] = invoice[q]
        /\ invoiceItems'[p] = pendingItems
        /\ \A q \in Purchases \ {p} : invoiceItems'[q] = invoiceItems[q]
    BY <2>1, <1>a
  <2>3. InvoicesTypeOK'
    <3>1. buying' \in [Purchases -> BuyingSteps]
      BY <2>1, <1>a DEF BuyingSteps
    <3>2. /\ invoice' \in [Purchases -> {"none", "draft", "open", "authenticate", "paid"}]
          /\ invoiceItems' \in [Purchases -> SUBSET Purchases]
      BY <2>1, <1>a
    <3> QED
      BY <2>1, <1>a, <3>1, <3>2 DEF InvoicesTypeOK
  <2>4. invoice[p] = "none" /\ invoiceItems[p] = {} /\ (p \in pendingItems \/ Invoiced(p))
    BY <2>1 DEF InvoicesInv
  <2>5. \A x : Invoiced(x)' <=> Invoiced(x) \/ x \in pendingItems
    <3>1. ASSUME NEW x PROVE Invoiced(x)' => Invoiced(x) \/ x \in pendingItems
      BY <2>2 DEF Invoiced
    <3>2. ASSUME NEW x, Invoiced(x) PROVE Invoiced(x)'
      <4>1. PICK q \in Purchases : x \in invoiceItems[q]
        BY <3>2 DEF Invoiced
      <4>2. q # p
        BY <4>1, <2>4
      <4> QED
        BY <4>1, <4>2, <2>2 DEF Invoiced
    <3>3. ASSUME NEW x \in pendingItems PROVE Invoiced(x)'
      BY <2>2 DEF Invoiced
    <3> QED
      BY <3>1, <3>2, <3>3
  <2>6. ASSUME NEW q \in Purchases, NEW s \in Purchases, q # s
        PROVE  invoiceItems'[q] \cap invoiceItems'[s] = {}
    <3>1. \A u \in Purchases : invoiceItems[u] \cap pendingItems = {}
      BY DEF InvoicesInv
    <3>2. invoiceItems[q] \cap invoiceItems[s] = {}
      BY <2>6 DEF InvoicesInv
    <3> QED
      BY <3>1, <3>2, <2>2, <2>6
  <2>7. ASSUME NEW q \in Purchases
        PROVE  /\ buying'[q] \in {"start", "item"} => ~Invoiced(q)'
               /\ buying'[q] = "draft" => Invoiced(q)'
               /\ buying'[q] \in {"start", "item", "draft"} => invoice'[q] = "none"
               /\ buying'[q] = "finalize" => invoice'[q] = "draft"
               /\ buying'[q] = "grant" => invoice'[q] = "paid"
               /\ buying'[q] = "pay" => invoice'[q] # "none"
               /\ invoice'[q] = "none" => invoiceItems'[q] = {}
               /\ invoice'[q] # "none" => Invoiced(q)'
               /\ invoice'[q] = "paid" => q \in paidHooks \/ q \in granted
               /\ q \in paidHooks \/ q \in granted => invoice'[q] = "paid"
    <3>1. CASE q = p
      BY <2>2, <2>4, <2>5, <3>1 DEF InvoicesInv
    <3>2. CASE q # p
      BY <2>2, <2>5, <3>2 DEF InvoicesInv
    <3> QED
      BY <3>1, <3>2
  <2> QED
    BY <2>1, <2>3, <2>6, <2>7 DEF InvoicesInv
<1>5. ASSUME NEW p \in Purchases, NEW outcome, FinalizeInvoice(p, outcome) PROVE InvoicesInv'
  <2>1. buying[p] = "finalize" /\ invoice[p] = "draft"
    BY <1>5 DEF FinalizeInvoice, BuyStep, InvoicesInv
  <2> QED
    BY <1>5, <2>1, InvoiceCharged DEF FinalizeInvoice, BuyStep
<1>6. ASSUME NEW p \in Purchases, NEW outcome, PayInvoice(p, outcome) PROVE InvoicesInv'
  <2>1. /\ outcome \in {"paid", "authenticate"} /\ buying[p] = "pay"
        /\ buying' = [buying EXCEPT ![p] = IF outcome = "paid" THEN "grant" ELSE "done"]
        /\ UNCHANGED <<pendingItems, invoiceItems, granted, broken, invoiceFaults>>
    BY <1>6 DEF PayInvoice, BuyStep
  <2>2. CASE invoice[p] = "paid"
    <3>1. outcome = "paid" /\ UNCHANGED <<invoice, paidHooks>>
      BY <1>6, <2>2 DEF PayInvoice
    <3> QED
      BY <2>1, <2>2, <3>1, <1>1, <1>a DEF BuyingSteps
  <2>3. CASE invoice[p] # "paid"
    <3>1. Charged(p, outcome)
      BY <1>6, <2>3 DEF PayInvoice
    <3>2. invoice[p] # "none"
      BY <2>1 DEF InvoicesInv
    <3> QED
      BY <2>1, <2>3, <3>1, <3>2, InvoiceCharged
  <2> QED
    BY <2>2, <2>3
<1>7. ASSUME NEW p \in Purchases, PaymentDeclined(p) PROVE InvoicesInv'
  BY <1>1, <1>7, <1>a DEF PaymentDeclined, BuyStep, BuyingSteps
<1>8. ASSUME NEW p \in Purchases, GrantCredits(p) PROVE InvoicesInv'
  <2>1. invoice[p] = "paid"
    BY <1>8 DEF GrantCredits, BuyStep, InvoicesInv
  <2> QED
    BY <1>1, <1>8, <1>a, <2>1 DEF GrantCredits, BuyStep, BuyingSteps
<1>9. ASSUME NEW p \in Purchases, Authenticate(p) PROVE InvoicesInv'
  <2>1. buying' = [buying EXCEPT ![p] = buying[p]]
    BY <1>9, <1>a DEF Authenticate
  <2>2. invoice[p] = "authenticate"
    BY <1>9 DEF Authenticate
  <2>3. buying[p] \notin {"finalize", "grant"}
    BY <2>2 DEF InvoicesInv
  <2> QED
    BY <1>9, <2>1, <2>2, <2>3, InvoiceCharged DEF Authenticate
<1>10. ASSUME NEW p \in Purchases, InvoicePaid(p) PROVE InvoicesInv'
  <2>1. buying' = [buying EXCEPT ![p] = buying[p]] /\ buying[p] \in BuyingSteps
    BY <1>10, <1>a DEF InvoicePaid
  <2>2. invoice[p] = "paid"
    BY <1>10 DEF InvoicePaid, InvoicesInv
  <2> QED
    BY <1>1, <1>10, <1>a, <2>1, <2>2 DEF InvoicePaid
<1>11. ASSUME NEW p \in Purchases, PurchaseBreaks(p) PROVE InvoicesInv'
  <2>1. invoiceFaults' \in 0..MaxInvoiceFaults
    BY <1>11, <1>a DEF PurchaseBreaks
  <2> QED
    BY <1>1, <1>11, <1>a, <2>1 DEF PurchaseBreaks, BuyingSteps
<1>12. ASSUME UNCHANGED invoiceVars PROVE InvoicesInv'
  BY <1>12 DEF invoiceVars, InvoicesInv, InvoicesTypeOK, Invoiced
<1> QED
  BY <1>2, <1>3, <1>4, <1>5, <1>6, <1>7, <1>8, <1>9, <1>10, <1>11, <1>12 DEF InvoicesNext
-----------------------------------------------------------------------------
(* Access                                                                  *)

Steps == {"start", "validate", "context", "account", "role", "act", "done", "refused"}

\* A call acts for an account that it was entitled to, and each lookup on the way there
\* is of the credential, the selection and the goal that the request came with.
CallHolds(r) ==
  LET c == accessCalls[r]
  IN  /\ c.step \in {"act", "done"} => c.account \in entitled[r]
      /\ c.via = "key" => c.who \in KeyIds /\ keys[c.who].account # NoHome
      /\ c.via \in {"bearer", "session"} => c.who \in Members
      /\ c.via # "session" => c.goal = "work"
      /\ c.step = "role" => c.account \in Homes /\ c.selected \in {NoHome, c.account}
      /\ c.step \in {"account", "role"} => c.via = "session" /\ c.goal # "work"
      /\ c.step = "context" => c.via = "session" /\ c.goal = "work"
      /\ c.step = "act" /\ c.goal # "work" => c.account \in Homes

AccessInv == AccessTypeOK /\ \A r \in AccessCalls : CallHolds(r)

LEMMA AccessInvInit == AccessInit => AccessInv
<1> SUFFICES ASSUME AccessInit PROVE AccessInv
  OBVIOUS
<1>1. roles \in [Members -> [Homes -> HomeRoles \cup {"none"}]]
  BY DEF AccessInit, HomeRoles
<1>2. live \in [Homes -> BOOLEAN]
  BY DEF AccessInit
<1>3. keys \in [KeyIds -> [account : Homes \cup {NoHome}, active : BOOLEAN]]
  <2>1. keys \in [KeyIds -> [account : Homes \cup {NoHome}, active : {TRUE}]]
    BY DEF AccessInit
  <2>2. [account : Homes \cup {NoHome}, active : {TRUE}]
          \subseteq [account : Homes \cup {NoHome}, active : BOOLEAN]
    OBVIOUS
  <2> QED
    BY <2>1, <2>2
<1>4. accessCalls \in [AccessCalls -> AccessCall]
  BY DEF AccessInit, AccessCall
<1>5. /\ bearers \subseteq Members /\ entitled \in [AccessCalls -> SUBSET (Homes \cup {NoHome})]
      /\ roleChanges \in 0..MaxRoleChanges /\ queryFaults \in 0..MaxQueryFaults
  BY AccessAssumption DEF AccessInit
<1>6. AccessTypeOK
  BY <1>1, <1>2, <1>3, <1>4, <1>5 DEF AccessTypeOK
<1>7. ASSUME NEW r \in AccessCalls PROVE CallHolds(r)
  BY DEF AccessInit, CallHolds
<1> QED
  BY <1>6, <1>7 DEF AccessInv

LEMMA Remembered ==
  ASSUME AccessTypeOK, RememberEntitled
  PROVE  /\ entitled' \in [AccessCalls -> SUBSET (Homes \cup {NoHome})]
         /\ \A r \in AccessCalls : /\ entitled[r] \subseteq entitled'[r]
                                   /\ Entitlement(accessCalls[r])' \subseteq entitled'[r]
<1>1. \A r \in AccessCalls : entitled'[r] = entitled[r] \cup Entitlement(accessCalls[r])'
  BY DEF RememberEntitled
<1>2. \A r \in AccessCalls : Entitlement(accessCalls[r])' \subseteq Homes \cup {NoHome}
  BY DEF Entitlement
<1>3. entitled' = [r \in AccessCalls |-> entitled[r] \cup Entitlement(accessCalls[r])']
  BY DEF RememberEntitled
<1>4. entitled' \in [AccessCalls -> SUBSET (Homes \cup {NoHome})]
  BY <1>2, <1>3 DEF AccessTypeOK
<1> QED
  BY <1>1, <1>4

\* A call goes a step further, with the account that was candidates or without.
LEMMA CallMoved ==
  ASSUME AccessTypeOK, NEW r \in AccessCalls, NEW step \in Steps, NEW a \in Homes \cup {NoHome},
         SendTo(r, step) \/ Acting(r, a, step)
  PROVE  /\ accessCalls' \in [AccessCalls -> AccessCall]
         /\ \A q \in AccessCalls \ {r} : accessCalls'[q] = accessCalls[q]
         /\ accessCalls'[r].via = accessCalls[r].via /\ accessCalls'[r].who = accessCalls[r].who
         /\ accessCalls'[r].selected = accessCalls[r].selected
         /\ accessCalls'[r].goal = accessCalls[r].goal /\ accessCalls'[r].step = step
         /\ SendTo(r, step) => accessCalls'[r].account = accessCalls[r].account
         /\ ~SendTo(r, step) => accessCalls'[r].account = a
<1>1. accessCalls[r] \in AccessCall
  BY DEF AccessTypeOK
<1>2. CASE SendTo(r, step)
  <2> DEFINE call == [accessCalls[r] EXCEPT !.step = step]
  <2>1. /\ call \in AccessCall /\ call.via = accessCalls[r].via /\ call.who = accessCalls[r].who
        /\ call.selected = accessCalls[r].selected /\ call.goal = accessCalls[r].goal
        /\ call.step = step /\ call.account = accessCalls[r].account
    BY <1>1 DEF AccessCall, Steps
  <2>2. accessCalls' = [accessCalls EXCEPT ![r] = call]
    BY <1>2 DEF SendTo
  <2> HIDE DEF call
  <2> QED
    BY <1>2, <2>1, <2>2 DEF AccessTypeOK
<1>3. CASE ~SendTo(r, step)
  <2> DEFINE call == [[accessCalls[r] EXCEPT !.step = step] EXCEPT !.account = a]
  <2>1. /\ call \in AccessCall /\ call.via = accessCalls[r].via /\ call.who = accessCalls[r].who
        /\ call.selected = accessCalls[r].selected /\ call.goal = accessCalls[r].goal
        /\ call.step = step /\ call.account = a
    BY <1>1 DEF AccessCall, Steps
  <2>2. accessCalls' = [accessCalls EXCEPT ![r] = call]
    BY <1>1, <1>3 DEF Acting, AccessCall, AccessTypeOK
  <2> HIDE DEF call
  <2> QED
    BY <1>3, <2>1, <2>2 DEF AccessTypeOK
<1> QED
  BY <1>2, <1>3

\* The calls that a step leaves alone keep what they have.
LEMMA OthersHold ==
  ASSUME AccessInv, NEW q \in AccessCalls, accessCalls'[q] = accessCalls[q],
         entitled[q] \subseteq entitled'[q],
         \A k \in KeyIds : keys[k].account # NoHome => keys'[k].account # NoHome
  PROVE  CallHolds(q)'
  BY DEF AccessInv, CallHolds

LEMMA AccessInvNext == AccessInv /\ [AccessNext]_accessVars => AccessInv'
<1> SUFFICES ASSUME AccessInv, [AccessNext]_accessVars PROVE AccessInv'
  OBVIOUS
<1>a. AccessTypeOK
  BY DEF AccessInv
<1>b. AccessTypeOK /\ \A r \in AccessCalls : CallHolds(r)
  BY DEF AccessInv
\* Steps of a request that was already there.
<1>c. ASSUME NEW r \in AccessCalls, NEW step \in Steps, NEW a \in Homes \cup {NoHome},
             SendTo(r, step) \/ Acting(r, a, step),
             UNCHANGED <<roles, live, keys, bearers, roleChanges, queryFaults>>, RememberEntitled,
             step \in {"act", "done"} => accessCalls'[r].account \in entitled'[r],
             step = "role" => /\ accessCalls'[r].account \in Homes
                              /\ accessCalls[r].selected \in {NoHome, accessCalls'[r].account}
                              /\ accessCalls[r].via = "session" /\ accessCalls[r].goal # "work",
             step = "act" /\ accessCalls[r].goal # "work" => accessCalls'[r].account \in Homes,
             step \notin {"account", "context"}
      PROVE  AccessInv'
  <2>1. /\ accessCalls' \in [AccessCalls -> AccessCall]
        /\ \A q \in AccessCalls \ {r} : accessCalls'[q] = accessCalls[q]
        /\ accessCalls'[r].via = accessCalls[r].via /\ accessCalls'[r].who = accessCalls[r].who
        /\ accessCalls'[r].selected = accessCalls[r].selected
        /\ accessCalls'[r].goal = accessCalls[r].goal /\ accessCalls'[r].step = step
    BY <1>a, <1>c, CallMoved
  <2>2. /\ entitled' \in [AccessCalls -> SUBSET (Homes \cup {NoHome})]
        /\ \A q \in AccessCalls : entitled[q] \subseteq entitled'[q]
    BY <1>a, <1>c, Remembered
  <2>3. AccessTypeOK'
    BY <1>a, <1>c, <2>1, <2>2 DEF AccessTypeOK
  <2>4. \A q \in AccessCalls \ {r} : CallHolds(q)'
    BY <1>c, <2>1, <2>2, OthersHold
  <2>5. CallHolds(r)'
    BY <1>b, <1>c, <2>1 DEF CallHolds
  <2> QED
    BY <2>3, <2>4, <2>5 DEF AccessInv
\* Steps that leave the requests alone.
<1>d. ASSUME accessCalls' = accessCalls, keys' = keys, RememberEntitled,
             roles' \in [Members -> [Homes -> HomeRoles \cup {"none"}]], live' \in [Homes -> BOOLEAN],
             bearers' \subseteq Members, roleChanges' \in 0..MaxRoleChanges,
             queryFaults' = queryFaults
      PROVE  AccessInv'
  <2>2. /\ entitled' \in [AccessCalls -> SUBSET (Homes \cup {NoHome})]
        /\ \A q \in AccessCalls : entitled[q] \subseteq entitled'[q]
    BY <1>a, <1>d, Remembered
  <2>3. AccessTypeOK'
    BY <1>a, <1>d, <2>2 DEF AccessTypeOK
  <2>4. \A q \in AccessCalls : CallHolds(q)'
    BY <1>d, <2>2, OthersHold
  <2> QED
    BY <2>3, <2>4 DEF AccessInv
<1>e. ASSUME NEW r \in AccessCalls, NEW via \in {"key", "bearer", "session"},
             NEW who \in KeyIds \cup Members, NEW selected \in Homes \cup {NoHome},
             NEW goal \in {"work", "newKey", "revokeKey"},
             NEW step \in {"validate", "context", "account"},
             Arrive(r, via, who, selected, goal, step),
             via = "key" => who \in KeyIds /\ keys[who].account # NoHome,
             via # "key" => who \in Members, via # "session" => goal = "work" /\ step = "validate",
             step = "context" <=> via = "session" /\ goal = "work",
             step = "account" <=> via = "session" /\ goal # "work"
      PROVE  AccessInv'
  <2> DEFINE call == [via |-> via, who |-> who, selected |-> selected, goal |-> goal,
                      account |-> NoHome, step |-> step]
  <2>1. /\ call \in AccessCall /\ call.via = via /\ call.who = who /\ call.selected = selected
        /\ call.goal = goal /\ call.account = NoHome /\ call.step = step
    BY DEF AccessCall
  <2>2. accessCalls' = [accessCalls EXCEPT ![r] = call]
    BY <1>e DEF Arrive
  <2> HIDE DEF call
  <2>3. /\ accessCalls' \in [AccessCalls -> AccessCall] /\ accessCalls'[r] = call
        /\ \A q \in AccessCalls \ {r} : accessCalls'[q] = accessCalls[q]
    BY <1>a, <2>1, <2>2 DEF AccessTypeOK
  <2>4. /\ entitled' \in [AccessCalls -> SUBSET (Homes \cup {NoHome})]
        /\ \A q \in AccessCalls : entitled[q] \subseteq entitled'[q]
    BY <1>a, <1>e, Remembered DEF Arrive
  <2>5. AccessTypeOK'
    BY <1>a, <1>e, <2>3, <2>4 DEF AccessTypeOK, Arrive
  <2>6. keys' = keys
    BY <1>e DEF Arrive
  <2>7. \A q \in AccessCalls \ {r} : CallHolds(q)'
    BY <2>3, <2>4, <2>6, OthersHold
  <2>8. CallHolds(r)'
    BY <1>e, <2>1, <2>3, <2>6 DEF CallHolds
  <2> QED
    BY <2>5, <2>7, <2>8 DEF AccessInv
<1> USE DEF Steps
<1>1. ASSUME NEW r \in AccessCalls, NEW k \in KeyIds, SendKey(r, k) PROVE AccessInv'
  BY <1>1, <1>e DEF SendKey
<1>2. ASSUME NEW r \in AccessCalls, NEW m \in Members, SendBearer(r, m) PROVE AccessInv'
  BY <1>2, <1>e DEF SendBearer
<1>3. ASSUME NEW r \in AccessCalls, NEW m \in Members, NEW selected \in Homes \cup {NoHome},
             NEW goal \in {"work", "newKey", "revokeKey"}, SendSession(r, m, selected, goal)
      PROVE  AccessInv'
  <2>1. CASE goal = "work"
    BY <1>3, <1>e, <2>1 DEF SendSession
  <2>2. CASE goal # "work"
    BY <1>3, <1>e, <2>2 DEF SendSession
  <2> QED
    BY <2>1, <2>2
\* What the request was entitled to when it acted is remembered.
<1>f. ASSUME NEW r \in AccessCalls, NEW a \in Homes \cup {NoHome}, RememberEntitled,
             Entitles(accessCalls[r], a)'
      PROVE  a \in entitled'[r]
  <2>1. a \in Entitlement(accessCalls[r])'
    BY <1>f DEF Entitlement
  <2> QED
    BY <1>a, <1>f, <2>1, Remembered
<1>g. ASSUME NEW r \in AccessCalls, SendTo(r, "refused"), RememberEntitled,
             UNCHANGED <<roles, live, keys, bearers, roleChanges, queryFaults>>
      PROVE  AccessInv'
  BY <1>c, <1>g
<1>h. ASSUME NEW r \in AccessCalls, NEW a \in Homes \cup {NoHome}, NEW step \in Steps,
             Acting(r, a, step)
      PROVE  /\ accessCalls'[r].via = accessCalls[r].via /\ accessCalls'[r].who = accessCalls[r].who
             /\ accessCalls'[r].selected = accessCalls[r].selected
             /\ accessCalls'[r].goal = accessCalls[r].goal /\ accessCalls'[r].account = a
  <2>1. accessCalls[r] \in AccessCall /\ accessCalls \in [AccessCalls -> AccessCall]
    BY <1>a DEF AccessTypeOK
  <2> DEFINE call == [[accessCalls[r] EXCEPT !.step = step] EXCEPT !.account = a]
  <2>2. /\ call.via = accessCalls[r].via /\ call.who = accessCalls[r].who
        /\ call.selected = accessCalls[r].selected /\ call.goal = accessCalls[r].goal
        /\ call.account = a
    BY <2>1 DEF AccessCall
  <2>3. accessCalls' = [accessCalls EXCEPT ![r] = call]
    BY <1>h, <2>1 DEF Acting, AccessCall
  <2> HIDE DEF call
  <2> QED
    BY <2>1, <2>2, <2>3
<1>4. ASSUME NEW r \in AccessCalls, ValidateKey(r) PROVE AccessInv'
  <2>1. PICK k, a : k = accessCalls[r].who /\ a = keys[k].account
    OBVIOUS
  <2>2. /\ accessCalls[r].via = "key" /\ RememberEntitled
        /\ UNCHANGED <<roles, live, keys, bearers, roleChanges, queryFaults>>
        /\ SendTo(r, "refused") \/ (keys[k].active /\ live[a] /\ Acting(r, a, "act"))
    BY <1>4, <2>1 DEF ValidateKey, CallAt
  <2>3. k \in KeyIds /\ a # NoHome /\ accessCalls[r].goal = "work"
    BY <1>b, <2>1, <2>2 DEF CallHolds
  <2>4. keys[k] \in [account : Homes \cup {NoHome}, active : BOOLEAN]
    BY <1>a, <2>3 DEF AccessTypeOK
  <2>5. CASE SendTo(r, "refused")
    BY <1>g, <2>2, <2>5
  <2>6. CASE keys[k].active /\ live[a] /\ Acting(r, a, "act")
    <3>1. a \in Homes
      BY <2>1, <2>3, <2>4
    <3>2. keys[k] = [account |-> a, active |-> TRUE]
      BY <2>1, <2>4, <2>6
    <3>3. /\ accessCalls'[r].via = "key" /\ accessCalls'[r].who = k
          /\ accessCalls'[r].account = a
      BY <1>h, <2>1, <2>2, <2>6, <3>1
    <3>4. Entitles(accessCalls[r], a)'
      BY <2>2, <2>6, <3>1, <3>2, <3>3 DEF Entitles
    <3>5. a \in entitled'[r]
      BY <1>f, <2>2, <3>1, <3>4
    <3> QED
      BY <1>c, <2>2, <2>3, <2>6, <3>1, <3>3, <3>5
  <2> QED
    BY <2>2, <2>5, <2>6
<1>5. ASSUME NEW r \in AccessCalls, ValidateBearer(r) PROVE AccessInv'
  <2> DEFINE m == accessCalls[r].who
  <2>1. /\ accessCalls[r].via = "bearer" /\ RememberEntitled
        /\ UNCHANGED <<roles, live, keys, bearers, roleChanges, queryFaults>>
        /\ \/ SendTo(r, "refused")
           \/ m \in bearers /\ \E a \in HomesOf(m) : Acting(r, a, "act")
    BY <1>5 DEF ValidateBearer, CallAt
  <2>2. accessCalls[r].goal = "work"
    BY <1>b, <2>1 DEF CallHolds
  <2>3. CASE SendTo(r, "refused")
    BY <1>g, <2>1, <2>3
  <2>4. ASSUME m \in bearers, NEW a \in HomesOf(m), Acting(r, a, "act") PROVE AccessInv'
    <3>1. a \in Homes
      BY DEF HomesOf
    <3>3. /\ accessCalls'[r].via = "bearer" /\ accessCalls'[r].who = m
          /\ accessCalls'[r].account = a
      BY <1>h, <2>1, <2>4, <3>1
    <3>4. Entitles(accessCalls[r], a)'
      BY <2>1, <2>4, <3>1, <3>3 DEF Entitles, HomesOf
    <3>5. a \in entitled'[r]
      BY <1>f, <2>1, <3>1, <3>4
    <3> QED
      BY <1>c, <2>1, <2>2, <2>4, <3>1, <3>3, <3>5
  <2> QED
    BY <2>1, <2>3, <2>4
<1>6. ASSUME NEW r \in AccessCalls, ReadContext(r) PROVE AccessInv'
  <2> DEFINE c == accessCalls[r]
             candidates == Candidates(c.who, c.selected)
  <2>1. /\ CallAt(r, "session", "context") /\ RememberEntitled
        /\ UNCHANGED <<roles, live, keys, bearers, roleChanges, queryFaults>>
        /\ \/ candidates = {} /\ Acting(r, NoHome, "act")
           \/ SendTo(r, "refused")
           \/ \E a \in candidates : roles[c.who][a] # "viewer" /\ Acting(r, a, "act")
    BY <1>6 DEF ReadContext
  <2>2. c.via = "session" /\ c.goal = "work"
    BY <1>b, <2>1 DEF CallHolds, CallAt
  <2>3. CASE SendTo(r, "refused")
    BY <1>g, <2>1, <2>3
  <2>4. ASSUME NEW a \in Homes \cup {NoHome}, Acting(r, a, "act"),
               (candidates = {} /\ a = NoHome) \/ (a \in candidates /\ roles[c.who][a] # "viewer")
        PROVE  AccessInv'
    <3>3. /\ accessCalls'[r].via = "session" /\ accessCalls'[r].who = c.who
          /\ accessCalls'[r].selected = c.selected /\ accessCalls'[r].goal = "work"
          /\ accessCalls'[r].account = a
      BY <1>h, <2>2, <2>4
    <3>4. Entitles(accessCalls[r], a)'
      BY <2>1, <2>4, <3>3 DEF Entitles, Candidates, HomesOf
    <3>5. a \in entitled'[r]
      BY <1>f, <2>1, <3>4
    <3> QED
      BY <1>c, <2>1, <2>2, <2>4, <3>3, <3>5
  <2>5. candidates \subseteq Homes
    BY DEF Candidates, HomesOf
  <2> QED
    BY <2>1, <2>3, <2>4, <2>5
<1>7. ASSUME NEW r \in AccessCalls, ContextFails(r) PROVE AccessInv'
  <2>1. /\ CallAt(r, "session", "context") /\ Acting(r, NoHome, "act")
        /\ queryFaults < MaxQueryFaults /\ queryFaults' = queryFaults + 1
        /\ entitled' = [entitled EXCEPT ![r] = @ \cup {NoHome}]
        /\ UNCHANGED <<roles, live, keys, bearers, roleChanges>>
    BY <1>7 DEF ContextFails
  <2>2. accessCalls[r].via = "session" /\ accessCalls[r].goal = "work"
    BY <1>b, <2>1 DEF CallHolds, CallAt
  <2>3. /\ accessCalls' \in [AccessCalls -> AccessCall]
        /\ \A q \in AccessCalls \ {r} : accessCalls'[q] = accessCalls[q]
        /\ accessCalls'[r].step = "act"
    BY <1>a, <2>1, CallMoved
  <2>4. /\ accessCalls'[r].via = accessCalls[r].via /\ accessCalls'[r].who = accessCalls[r].who
        /\ accessCalls'[r].goal = accessCalls[r].goal /\ accessCalls'[r].account = NoHome
    BY <1>h, <2>1
  <2>5. /\ entitled' \in [AccessCalls -> SUBSET (Homes \cup {NoHome})] /\ NoHome \in entitled'[r]
        /\ \A q \in AccessCalls : entitled[q] \subseteq entitled'[q]
    BY <1>a, <2>1 DEF AccessTypeOK
  <2>6. queryFaults' \in 0..MaxQueryFaults
    BY <1>a, <2>1, AccessAssumption DEF AccessTypeOK
  <2>7. AccessTypeOK'
    BY <1>a, <2>1, <2>3, <2>5, <2>6 DEF AccessTypeOK
  <2>8. \A q \in AccessCalls \ {r} : CallHolds(q)'
    BY <2>1, <2>3, <2>5, OthersHold
  <2>9. CallHolds(r)'
    BY <1>b, <2>1, <2>2, <2>3, <2>4, <2>5 DEF CallHolds
  <2> QED
    BY <2>7, <2>8, <2>9 DEF AccessInv
<1>8. ASSUME NEW r \in AccessCalls, FindAccount(r) PROVE AccessInv'
  <2> DEFINE candidates == Candidates(accessCalls[r].who, accessCalls[r].selected)
  <2>1. /\ CallAt(r, "session", "account") /\ RememberEntitled
        /\ UNCHANGED <<roles, live, keys, bearers, roleChanges, queryFaults>>
        /\ SendTo(r, "refused") \/ \E a \in candidates : Acting(r, a, "role")
    BY <1>8 DEF FindAccount
  <2>2. accessCalls[r].via = "session" /\ accessCalls[r].goal # "work"
    BY <1>b, <2>1 DEF CallHolds, CallAt
  <2>3. CASE SendTo(r, "refused")
    BY <1>g, <2>1, <2>3
  <2>4. ASSUME NEW a \in candidates, Acting(r, a, "role") PROVE AccessInv'
    <3>1. a \in Homes /\ accessCalls[r].selected \in {NoHome, a}
      BY DEF Candidates, HomesOf
    <3>2. accessCalls'[r].account = a
      BY <1>h, <2>4, <3>1
    <3> QED
      BY <1>c, <2>1, <2>2, <2>4, <3>1, <3>2
  <2> QED
    BY <2>1, <2>3, <2>4
<1>9. ASSUME NEW r \in AccessCalls, ReadRole(r) PROVE AccessInv'
  <2> DEFINE c == accessCalls[r]
  <2>1. /\ CallAt(r, "session", "role") /\ RememberEntitled
        /\ UNCHANGED <<roles, live, keys, bearers, roleChanges, queryFaults>>
        /\ \/ SendTo(r, "refused")
           \/ roles[c.who][c.account] \in {"owner", "admin"} /\ SendTo(r, "act")
    BY <1>9 DEF ReadRole
  <2>2. /\ c.via = "session" /\ c.goal # "work" /\ c.account \in Homes
        /\ c.selected \in {NoHome, c.account}
    BY <1>b, <2>1 DEF CallHolds, CallAt
  <2>3. CASE SendTo(r, "refused")
    BY <1>g, <2>1, <2>3
  <2>4. CASE roles[c.who][c.account] \in {"owner", "admin"} /\ SendTo(r, "act")
    <3>1. /\ accessCalls'[r].via = c.via /\ accessCalls'[r].who = c.who
          /\ accessCalls'[r].selected = c.selected /\ accessCalls'[r].goal = c.goal
          /\ accessCalls'[r].account = c.account
      BY <1>a, <2>2, <2>4, CallMoved
    <3>2. PICK a \in Homes : a = c.account
      BY <2>2
    <3>3. Entitles(accessCalls[r], a)'
      BY <2>1, <2>2, <2>4, <3>1, <3>2 DEF Entitles, Candidates, HomesOf
    <3>4. a \in entitled'[r]
      BY <1>f, <2>1, <3>3
    <3> QED
      BY <1>c, <2>1, <2>2, <2>4, <3>1, <3>2, <3>4
  <2> QED
    BY <2>1, <2>3, <2>4
<1>10. ASSUME NEW r \in AccessCalls, DoWork(r) PROVE AccessInv'
  <2>1. /\ accessCalls[r].step = "act" /\ SendTo(r, "done") /\ RememberEntitled
        /\ UNCHANGED <<roles, live, keys, bearers, roleChanges, queryFaults>>
    BY <1>10 DEF DoWork
  <2>2. accessCalls'[r].account = accessCalls[r].account
    BY <1>a, <2>1, CallMoved
  <2>3. accessCalls[r].account \in entitled'[r]
    BY <1>a, <1>b, <2>1, Remembered DEF CallHolds
  <2> QED
    BY <1>c, <2>1, <2>2, <2>3
\* Keys of an account stay so.
<1>i. ASSUME NEW r \in AccessCalls, accessCalls[r].step = "act", RememberEntitled,
             SendTo(r, "done") \/ SendTo(r, "refused"),
             keys' \in [KeyIds -> [account : Homes \cup {NoHome}, active : BOOLEAN]],
             \A k \in KeyIds : keys[k].account # NoHome => keys'[k].account # NoHome,
             UNCHANGED <<roles, live, bearers, roleChanges, queryFaults>>
      PROVE  AccessInv'
  <2>1. /\ accessCalls' \in [AccessCalls -> AccessCall]
        /\ \A q \in AccessCalls \ {r} : accessCalls'[q] = accessCalls[q]
        /\ accessCalls'[r].via = accessCalls[r].via /\ accessCalls'[r].who = accessCalls[r].who
        /\ accessCalls'[r].goal = accessCalls[r].goal
        /\ accessCalls'[r].step \in {"done", "refused"}
        /\ accessCalls'[r].account = accessCalls[r].account
    BY <1>a, <1>i, CallMoved
  <2>2. /\ entitled' \in [AccessCalls -> SUBSET (Homes \cup {NoHome})]
        /\ \A q \in AccessCalls : entitled[q] \subseteq entitled'[q]
    BY <1>a, <1>i, Remembered
  <2>3. AccessTypeOK'
    BY <1>a, <1>i, <2>1, <2>2 DEF AccessTypeOK
  <2>4. \A q \in AccessCalls \ {r} : CallHolds(q)'
    BY <1>i, <2>1, <2>2, OthersHold
  <2>5. CallHolds(r)'
    BY <1>b, <1>i, <2>1, <2>2 DEF CallHolds
  <2> QED
    BY <2>3, <2>4, <2>5 DEF AccessInv
<1>11. ASSUME NEW r \in AccessCalls, NEW k \in KeyIds, CreateKey(r, k) PROVE AccessInv'
  <2>1. accessCalls[r].account \in Homes
    BY <1>b, <1>11 DEF CreateKey, CallHolds
  <2>2. /\ keys' \in [KeyIds -> [account : Homes \cup {NoHome}, active : BOOLEAN]]
        /\ \A j \in KeyIds : keys[j].account # NoHome => keys'[j].account # NoHome
    BY <1>a, <1>11, <2>1, AccessAssumption DEF CreateKey, AccessTypeOK
  <2> QED
    BY <1>i, <1>11, <2>2 DEF CreateKey
<1>12. ASSUME NEW r \in AccessCalls, NEW k \in KeyIds, RevokeKey(r, k) PROVE AccessInv'
  <2>1. keys' = keys \/ keys' = [keys EXCEPT ![k].active = FALSE]
    BY <1>12 DEF RevokeKey
  <2> DEFINE row == [keys[k] EXCEPT !.active = FALSE]
  <2>2. /\ row \in [account : Homes \cup {NoHome}, active : BOOLEAN]
        /\ row.account = keys[k].account
    BY <1>a DEF AccessTypeOK
  <2>3. keys' = keys \/ keys' = [keys EXCEPT ![k] = row]
    BY <2>1
  <2> HIDE DEF row
  <2>4. /\ keys' \in [KeyIds -> [account : Homes \cup {NoHome}, active : BOOLEAN]]
        /\ \A j \in KeyIds : keys[j].account # NoHome => keys'[j].account # NoHome
    BY <1>a, <2>2, <2>3 DEF AccessTypeOK
  <2> QED
    BY <1>i, <1>12, <2>4 DEF RevokeKey
<1>13. ASSUME NEW m \in Members, NEW a \in Homes, NEW role \in HomeRoles \cup {"none"},
              ChangeMember(m, a, role)
       PROVE  AccessInv'
  <2>1. roles' \in [Members -> [Homes -> HomeRoles \cup {"none"}]]
    BY <1>a, <1>13 DEF ChangeMember, AccessTypeOK
  <2> QED
    BY <1>a, <1>d, <1>13, <2>1, AccessAssumption DEF ChangeMember, Meanwhile, AccessTypeOK
<1>14. ASSUME NEW a \in Homes, Suspend(a) PROVE AccessInv'
  <2>1. live' \in [Homes -> BOOLEAN]
    BY <1>a, <1>14 DEF Suspend, AccessTypeOK
  <2> QED
    BY <1>a, <1>d, <1>14, <2>1, AccessAssumption DEF Suspend, Meanwhile, AccessTypeOK
<1>15. ASSUME NEW m \in Members, EndBearer(m) PROVE AccessInv'
  BY <1>a, <1>d, <1>15, AccessAssumption DEF EndBearer, Meanwhile, AccessTypeOK
<1>16. ASSUME UNCHANGED accessVars PROVE AccessInv'
  <2>1. AccessTypeOK'
    BY <1>a, <1>16 DEF accessVars, AccessTypeOK
  <2>2. \A q \in AccessCalls : CallHolds(q)'
    BY <1>16, OthersHold DEF accessVars
  <2> QED
    BY <2>1, <2>2 DEF AccessInv
<1> QED
  BY <1>1, <1>2, <1>3, <1>4, <1>5, <1>6, <1>7, <1>8, <1>9, <1>10, <1>11, <1>12, <1>13, <1>14,
     <1>15, <1>16 DEF AccessNext


-----------------------------------------------------------------------------
(* SignIn                                                                  *)

Unfinished == {"identity", "address", "link", "verify", "create"}
AttemptState ==
  [identity : Identities, address : Addresses \cup {NoAddress}, user : Nat,
   step : {"start", "away", "identity", "address", "link", "verify", "create", "done", "failed"}]

SignInTyped ==
  /\ addressOf \in [Identities -> Addresses] /\ userOf \in [Addresses -> Nat]
  /\ owner \in [Identities -> Nat] /\ attempts \in [Attempts -> AttemptState]
  /\ known \in [Attempts -> SUBSET Nat] /\ apart \subseteq Attempts
  /\ \A t \in Attempts :
       /\ attempts[t].step \in Unfinished => attempts[t].address \in Addresses
       /\ attempts[t].step \in {"link", "verify", "done"} => attempts[t].user # 0

\* An identity is linked to the user of an attempt that has linked it, and every
\* attempt that signed in has found it linked or has linked it.
Linked ==
  /\ \A i \in Identities : owner[i] # 0 =>
       \E s \in Attempts : /\ attempts[s].identity = i /\ attempts[s].user = owner[i]
                           /\ attempts[s].step \in {"verify", "done"}
  /\ \A s \in Attempts :
       attempts[s].step \in {"verify", "done"} => owner[attempts[s].identity] # 0

\* An attempt that no other overlaps finds the identity as it was when it came back.
FoundAlone(t) ==
  /\ attempts[t].step \in Unfinished =>
       \A s \in Attempts \ {t} :
         attempts[s].step \in Unfinished => attempts[s].identity # attempts[t].identity
  /\ attempts[t].step \in Unfinished \cup {"done"} /\ known[t] # {} =>
       /\ owner[attempts[t].identity] \in known[t] /\ owner[attempts[t].identity] # 0
       /\ attempts[t].step \in {"identity", "done"}
  /\ attempts[t].step \in {"address", "link", "create"} => owner[attempts[t].identity] = 0
  /\ attempts[t].step \in {"verify", "done"} => owner[attempts[t].identity] = attempts[t].user

SignInInv == SignInTyped /\ Linked /\ \A t \in apart : FoundAlone(t)

LEMMA SignInInvHolds == SignInInv => SignInsAgree
<1> SUFFICES ASSUME SignInInv, NEW t \in apart, attempts[t].step = "done"
             PROVE  /\ known[t] # {} => attempts[t].user \in known[t]
                    /\ owner[attempts[t].identity] = attempts[t].user
  BY DEF SignInsAgree
<1> QED
  BY DEF SignInInv, FoundAlone

LEMMA SignInInvInit == SignInInit => SignInInv
<1> SUFFICES ASSUME SignInInit PROVE SignInInv
  OBVIOUS
<1>0. (CHOOSE i \in Identities : TRUE) \in Identities
  BY SignInAssumption
<1>1. \A t \in Attempts : /\ attempts[t].step = "start"
                          /\ attempts[t] \in AttemptState
  BY <1>0 DEF SignInInit, AttemptState
<1> QED
  BY <1>1 DEF SignInInit, SignInInv, SignInTyped, Linked, FoundAlone, Unfinished

\* One attempt goes on; if it links its identity, no other had.
LEMMA AttemptMoves ==
  ASSUME SignInInv, NEW t \in Attempts, NEW to \in AttemptState,
         attempts' = [attempts EXCEPT ![t] = to],
         attempts[t].step = "start" \/ to.identity = attempts[t].identity,
         owner' \in [Identities -> Nat],
         \A j \in Identities : j # to.identity \/ owner[j] # 0 => owner'[j] = owner[j],
         owner'[to.identity] # owner[to.identity] =>
           /\ attempts[t].step \in Unfinished
           /\ to.step \in {"verify", "done"} /\ to.user = owner'[to.identity],
         attempts[t].step \in {"verify", "done"} =>
           to.step \in {"verify", "done"} /\ to.user = attempts[t].user,
         to.step \in Unfinished => attempts[t].step \in Unfinished /\ to.address \in Addresses,
         to.step \in {"link", "verify", "done"} => to.user # 0,
         to.step \in {"verify", "done"} => owner'[to.identity] # 0,
         t \in apart => FoundAlone(t)',
         userOf' \in [Addresses -> Nat], addressOf' \in [Identities -> Addresses],
         UNCHANGED <<known, apart>>
  PROVE  SignInInv'
<1>a. SignInTyped /\ attempts \in [Attempts -> AttemptState] /\ owner \in [Identities -> Nat]
  BY DEF SignInInv, SignInTyped
<1>b. attempts'[t] = to /\ \A s \in Attempts \ {t} : attempts'[s] = attempts[s]
  BY <1>a
<1>c. to.identity \in Identities /\ \A s \in Attempts : attempts[s].identity \in Identities
  BY <1>a DEF AttemptState
<1>1. SignInTyped'
  <2>1. attempts' \in [Attempts -> AttemptState]
    BY <1>a
  <2>2. \A s \in Attempts :
          /\ attempts'[s].step \in Unfinished => attempts'[s].address \in Addresses
          /\ attempts'[s].step \in {"link", "verify", "done"} => attempts'[s].user # 0
    BY <1>a, <1>b DEF SignInTyped
  <2> QED
    BY <1>a, <2>1, <2>2 DEF SignInTyped
<1>2. ASSUME NEW j \in Identities, owner'[j] # 0
      PROVE  \E s \in Attempts : /\ attempts'[s].identity = j /\ attempts'[s].user = owner'[j]
                                 /\ attempts'[s].step \in {"verify", "done"}
  <2>1. CASE owner'[j] = owner[j]
    <3>1. PICK s \in Attempts : /\ attempts[s].identity = j /\ attempts[s].user = owner[j]
                                /\ attempts[s].step \in {"verify", "done"}
      BY <1>2, <2>1 DEF SignInInv, Linked
    <3>2. attempts'[s].identity = j /\ attempts'[s].user = owner[j]
          /\ attempts'[s].step \in {"verify", "done"}
      BY <3>1, <1>b
    <3> QED
      BY <2>1, <3>2
  <2>2. CASE owner'[j] # owner[j]
    BY <2>2, <1>b
  <2> QED
    BY <2>1, <2>2
<1>3. \A s \in Attempts :
        attempts'[s].step \in {"verify", "done"} => owner'[attempts'[s].identity] # 0
  BY <1>b, <1>c DEF SignInInv, Linked
<1>4. ASSUME NEW s \in apart, s # t PROVE FoundAlone(s)'
  <2>1. s \in Attempts /\ FoundAlone(s) /\ attempts'[s] = attempts[s]
    BY <1>4, <1>a, <1>b DEF SignInInv, SignInTyped
  <2>2. attempts[s].step \in Unfinished =>
          \A u \in Attempts \ {s} :
            attempts'[u].step \in Unfinished => attempts'[u].identity # attempts[s].identity
    BY <2>1, <1>b, <1>4 DEF FoundAlone, Unfinished
  <2>3. CASE owner'[attempts[s].identity] = owner[attempts[s].identity]
    BY <2>1, <2>2, <2>3 DEF FoundAlone
  <2>4. CASE owner'[attempts[s].identity] # owner[attempts[s].identity]
    <3>1. attempts[s].identity = to.identity /\ owner[to.identity] = 0
      BY <2>4, <1>c, <2>1
    <3>2. attempts[t].step \in Unfinished /\ attempts[t].identity = to.identity
      BY <2>4, <3>1 DEF Unfinished
    <3>3. attempts[s].step \notin Unfinished
      BY <3>1, <3>2, <2>1, <1>4 DEF FoundAlone
    <3>4. attempts[s].step # "done"
      BY <3>1, <2>1 DEF SignInInv, Linked
    <3> QED
      BY <2>1, <3>3, <3>4 DEF FoundAlone, Unfinished
  <2> QED
    BY <2>3, <2>4
<1> QED
  BY <1>1, <1>2, <1>3, <1>4 DEF SignInInv, Linked

\* The users of the attempts that signed in, when an attempt comes back.
LEMMA ComesBack ==
  ASSUME SignInInv, NEW t \in Attempts, Callback(t)
  PROVE  SignInInv'
<1> DEFINE i      == attempts[t].identity
           others == {s \in OfIdentity(i) \ {t} : Underway(s)}
           before == {attempts[s].user : s \in {u \in OfIdentity(i) : attempts[u].step = "done"}}
           to     == [attempts[t] EXCEPT !.step = "identity", !.address = addressOf[i]]
<1>a. /\ SignInTyped /\ attempts \in [Attempts -> AttemptState] /\ owner \in [Identities -> Nat]
      /\ addressOf \in [Identities -> Addresses] /\ known \in [Attempts -> SUBSET Nat]
      /\ apart \subseteq Attempts
  BY DEF SignInInv, SignInTyped
<1>b. /\ to \in AttemptState /\ to.identity = i /\ to.step = "identity" /\ to.address \in Addresses
      /\ i \in Identities
  BY <1>a DEF AttemptState
<1>c. /\ attempts[t].step = "away" /\ attempts' = [attempts EXCEPT ![t] = to]
      /\ known' = [known EXCEPT ![t] = before]
      /\ apart' = IF others = {} THEN apart ELSE apart \ (others \cup {t})
      /\ UNCHANGED <<addressOf, userOf, owner>>
  BY DEF Callback
<1> HIDE DEF to
<1>d. attempts'[t] = to /\ \A s \in Attempts \ {t} : attempts'[s] = attempts[s]
  BY <1>a, <1>c
<1>e. before \subseteq Nat
  BY <1>a DEF OfIdentity, AttemptState
<1>f. known' \in [Attempts -> SUBSET Nat] /\ known'[t] = before
      /\ \A s \in Attempts \ {t} : known'[s] = known[s]
  BY <1>a, <1>c, <1>e
<1>g. others = {s \in Attempts \ {t} : attempts[s].identity = i /\ attempts[s].step \in Unfinished}
  BY <1>a DEF OfIdentity, Underway, Unfinished
<1>h. apart' \subseteq apart /\ (others # {} => t \notin apart' /\ \A s \in others : s \notin apart')
  BY <1>c
<1>1. SignInTyped'
  <2>1. attempts' \in [Attempts -> AttemptState]
    BY <1>a, <1>b, <1>c
  <2>2. \A s \in Attempts :
          /\ attempts'[s].step \in Unfinished => attempts'[s].address \in Addresses
          /\ attempts'[s].step \in {"link", "verify", "done"} => attempts'[s].user # 0
    BY <1>a, <1>b, <1>d DEF SignInTyped
  <2> QED
    BY <1>a, <1>c, <1>f, <1>h, <2>1, <2>2 DEF SignInTyped
<1>2. Linked'
  <2>1. ASSUME NEW j \in Identities, owner[j] # 0
        PROVE  \E s \in Attempts : /\ attempts'[s].identity = j /\ attempts'[s].user = owner[j]
                                   /\ attempts'[s].step \in {"verify", "done"}
    <3>1. PICK s \in Attempts : /\ attempts[s].identity = j /\ attempts[s].user = owner[j]
                                /\ attempts[s].step \in {"verify", "done"}
      BY <2>1 DEF SignInInv, Linked
    <3>2. s # t
      BY <3>1, <1>c
    <3>3. attempts'[s] = attempts[s]
      BY <3>2, <1>d
    <3> QED
      BY <3>1, <3>3
  <2>2. \A s \in Attempts :
          attempts'[s].step \in {"verify", "done"} => owner[attempts'[s].identity] # 0
    BY <1>b, <1>d DEF SignInInv, Linked
  <2> QED
    BY <1>c, <2>1, <2>2 DEF Linked
<1>3. ASSUME NEW s \in apart', s # t PROVE FoundAlone(s)'
  <2>1. /\ s \in Attempts /\ FoundAlone(s) /\ attempts'[s] = attempts[s] /\ known'[s] = known[s]
        /\ s \notin others
    BY <1>3, <1>a, <1>d, <1>f, <1>h DEF SignInInv
  <2>2. attempts[s].step \in Unfinished =>
          \A u \in Attempts \ {s} :
            attempts'[u].step \in Unfinished => attempts'[u].identity # attempts[s].identity
    <3> SUFFICES ASSUME attempts[s].step \in Unfinished, NEW u \in Attempts \ {s},
                        attempts'[u].step \in Unfinished
                 PROVE  attempts'[u].identity # attempts[s].identity
      OBVIOUS
    <3>1. CASE u = t
      BY <3>1, <2>1, <1>3, <1>b, <1>d, <1>g
    <3>2. CASE u # t
      BY <3>2, <2>1, <1>d DEF FoundAlone
    <3> QED
      BY <3>1, <3>2
  <2> QED
    BY <2>1, <2>2, <1>c DEF FoundAlone
<1>4. ASSUME t \in apart' PROVE FoundAlone(t)'
  <2>1. others = {}
    BY <1>4, <1>h
  <2>2. \A s \in Attempts \ {t} :
          attempts'[s].step \in Unfinished => attempts'[s].identity # i
    BY <2>1, <1>d, <1>g
  <2>3. before # {} => owner[i] \in before /\ owner[i] # 0
    <3> SUFFICES ASSUME before # {} PROVE owner[i] \in before /\ owner[i] # 0
      OBVIOUS
    <3>1. PICK s \in Attempts : attempts[s].identity = i /\ attempts[s].step = "done"
      BY DEF OfIdentity
    <3>2. owner[i] # 0
      BY <3>1 DEF SignInInv, Linked
    <3>3. PICK u \in Attempts : /\ attempts[u].identity = i /\ attempts[u].user = owner[i]
                                /\ attempts[u].step \in {"verify", "done"}
      BY <3>2, <1>b DEF SignInInv, Linked
    <3>4. attempts[u].step = "done"
      BY <3>3, <2>1, <1>c, <1>g DEF Unfinished
    <3>5. u \in {x \in OfIdentity(i) : attempts[x].step = "done"}
      BY <3>3, <3>4 DEF OfIdentity
    <3> QED
      BY <3>2, <3>3, <3>5
  <2> QED
    BY <2>2, <2>3, <1>b, <1>c, <1>d, <1>f DEF FoundAlone
<1> QED
  BY <1>1, <1>2, <1>3, <1>4 DEF SignInInv

LEMMA SignInInvNext == SignInInv /\ [SignInNext]_signInVars => SignInInv'
<1> SUFFICES ASSUME SignInInv, [SignInNext]_signInVars PROVE SignInInv'
  OBVIOUS
<1>a. /\ SignInTyped /\ attempts \in [Attempts -> AttemptState] /\ owner \in [Identities -> Nat]
      /\ userOf \in [Addresses -> Nat] /\ addressOf \in [Identities -> Addresses]
      /\ known \in [Attempts -> SUBSET Nat] /\ apart \subseteq Attempts
  BY DEF SignInInv, SignInTyped
<1>b. NewUser \in Nat /\ NewUser # 0
  <2>1. IsFiniteSet({a \in Addresses : userOf[a] # 0})
    BY SignInAssumption, FS_Subset
  <2> QED
    BY <2>1, FS_CardinalityType DEF NewUser
<1>c. \A t \in Attempts :
        /\ attempts[t].identity \in Identities /\ attempts[t].user \in Nat
        /\ attempts[t].step \in Unfinished => attempts[t].address \in Addresses
        /\ attempts[t].step \in {"link", "verify", "done"} => attempts[t].user # 0
        /\ t \in apart => FoundAlone(t)
        /\ attempts[t].step \in {"verify", "done"} => owner[attempts[t].identity] # 0
  BY <1>a DEF AttemptState, SignInTyped, SignInInv, Linked
<1>1. ASSUME NEW t \in Attempts, NEW i \in Identities, Initiate(t, i) PROVE SignInInv'
  <2> DEFINE to == [attempts[t] EXCEPT !.identity = i, !.step = "away"]
  <2>1. to \in AttemptState /\ to.step = "away" /\ to.identity = i
    BY <1>a DEF AttemptState
  <2>2. /\ attempts' = [attempts EXCEPT ![t] = to] /\ attempts[t].step = "start"
        /\ UNCHANGED <<addressOf, userOf, owner, known, apart>>
    BY <1>1 DEF Initiate
  <2> HIDE DEF to
  <2>3. attempts'[t] = to
    BY <2>2, <1>a
  <2>4. FoundAlone(t)'
    BY <2>1, <2>3 DEF FoundAlone, Unfinished
  <2> QED
    BY <1>a, <2>1, <2>2, <2>4, AttemptMoves DEF Unfinished
<1>2. ASSUME NEW t \in Attempts, CallbackFails(t) PROVE SignInInv'
  <2> DEFINE to == [attempts[t] EXCEPT !.step = "failed"]
  <2>1. to \in AttemptState /\ to.step = "failed" /\ to.identity = attempts[t].identity
    BY <1>a DEF AttemptState
  <2>2. /\ attempts' = [attempts EXCEPT ![t] = to] /\ attempts[t].step = "away"
        /\ UNCHANGED <<addressOf, userOf, owner, known, apart>>
    BY <1>2 DEF CallbackFails
  <2> HIDE DEF to
  <2>3. attempts'[t] = to
    BY <2>2, <1>a
  <2>4. FoundAlone(t)'
    BY <2>1, <2>3 DEF FoundAlone, Unfinished
  <2> QED
    BY <1>a, <2>1, <2>2, <2>4, AttemptMoves DEF Unfinished
\* The other steps of an attempt that came back: `to' is its next state.
<1>3. ASSUME NEW t \in Attempts, NEW u \in Nat,
             NEW step \in {"address", "link", "verify", "create", "done", "failed"},
             attempts[t].step \in Unfinished, attempts[t].step = "verify" => step = "done",
             step # "failed" /\ attempts[t].step = "verify" => u = attempts[t].user,
             step \in {"link", "verify", "done"} => u # 0,
             attempts' = [attempts EXCEPT ![t] =
                            [attempts[t] EXCEPT !.user = u, !.step = step]],
             owner' \in [Identities -> Nat],
             \A j \in Identities : j # attempts[t].identity \/ owner[j] # 0 => owner'[j] = owner[j],
             owner'[attempts[t].identity] # owner[attempts[t].identity] =>
               step \in {"verify", "done"} /\ u = owner'[attempts[t].identity],
             step \in {"verify", "done"} => owner'[attempts[t].identity] # 0,
             t \in apart =>
               /\ known[t] # {} /\ step # "failed" =>
                    step = "done" /\ owner'[attempts[t].identity] \in known[t]
               /\ step \in {"address", "link", "create"} => owner'[attempts[t].identity] = 0
               /\ step \in {"verify", "done"} => owner'[attempts[t].identity] = u,
             userOf' \in [Addresses -> Nat], UNCHANGED <<addressOf, known, apart>>
      PROVE  SignInInv'
  <2> DEFINE to == [attempts[t] EXCEPT !.user = u, !.step = step]
  <2>1. /\ to \in AttemptState /\ to.step = step /\ to.user = u
        /\ to.identity = attempts[t].identity /\ to.address = attempts[t].address
    BY <1>a DEF AttemptState
  <2>2. attempts' = [attempts EXCEPT ![t] = to]
    BY <1>3
  <2> HIDE DEF to
  <2>3. attempts'[t] = to /\ \A s \in Attempts \ {t} : attempts'[s] = attempts[s]
    BY <2>2, <1>a
  <2>4. ASSUME t \in apart PROVE FoundAlone(t)'
    <3>1. \A s \in Attempts \ {t} :
            attempts'[s].step \in Unfinished => attempts'[s].identity # to.identity
      BY <2>1, <2>3, <2>4, <1>3, <1>c DEF FoundAlone
    <3>2. step \in Unfinished \cup {"done"} => step # "failed"
      BY DEF Unfinished
    <3>3. step = "done" => owner'[to.identity] # 0
      BY <2>1, <1>3
    <3> QED
      BY <2>1, <2>3, <2>4, <3>1, <3>2, <3>3, <1>3 DEF FoundAlone
  <2>5. attempts[t].step # "done"
    BY <1>3 DEF Unfinished
  <2>6. \A j \in Identities : j # to.identity \/ owner[j] # 0 => owner'[j] = owner[j]
    BY <2>1, <1>3
  <2>7. owner'[to.identity] # owner[to.identity] =>
          /\ attempts[t].step \in Unfinished
          /\ to.step \in {"verify", "done"} /\ to.user = owner'[to.identity]
    BY <2>1, <1>3
  <2>8. attempts[t].step \in {"verify", "done"} =>
          to.step \in {"verify", "done"} /\ to.user = attempts[t].user
    BY <2>1, <2>5, <1>3
  <2>9. to.step \in Unfinished => attempts[t].step \in Unfinished /\ to.address \in Addresses
    BY <2>1, <1>3, <1>c
  <2>10. /\ to.step \in {"link", "verify", "done"} => to.user # 0
         /\ to.step \in {"verify", "done"} => owner'[to.identity] # 0
    BY <2>1, <1>3
  <2> QED
    BY <1>3, <1>a, <2>1, <2>2, <2>4, <2>6, <2>7, <2>8, <2>9, <2>10, AttemptMoves
<1>4. ASSUME NEW t \in Attempts, FindIdentity(t) PROVE SignInInv'
  <2> DEFINE u == owner[attempts[t].identity]
  <2>1. /\ attempts[t].step = "identity" /\ u \in Nat
        /\ attempts' = [attempts EXCEPT ![t] = [attempts[t] EXCEPT
             !.user = u, !.step = IF u # 0 THEN "done" ELSE "address"]]
        /\ UNCHANGED <<addressOf, userOf, owner, known, apart>>
    BY <1>4, <1>a, <1>c DEF FindIdentity, SignedInAs
  <2>2. t \in apart /\ known[t] # {} => u \in known[t] /\ u # 0
    BY <2>1, <1>c DEF FoundAlone, Unfinished
  <2> HIDE DEF u
  <2>3. CASE u = 0
    BY <1>3, <1>a, <2>1, <2>2, <2>3 DEF u, Unfinished
  <2>4. CASE u # 0
    BY <1>3, <1>a, <2>1, <2>2, <2>4 DEF u, Unfinished
  <2> QED
    BY <2>3, <2>4
<1>5. ASSUME NEW t \in Attempts, FindAddress(t) PROVE SignInInv'
  <2> DEFINE u == userOf[attempts[t].address]
  <2>1. attempts[t].step = "address" /\ attempts[t].address \in Addresses
    BY <1>5, <1>c DEF FindAddress, Unfinished
  <2>2. /\ u \in Nat
        /\ attempts' = [attempts EXCEPT ![t] = [attempts[t] EXCEPT
             !.user = u, !.step = IF u # 0 THEN "link" ELSE "create"]]
        /\ UNCHANGED <<addressOf, userOf, owner, known, apart>>
    BY <1>5, <1>a, <2>1 DEF FindAddress, SignedInAs
  <2>3. t \in apart => known[t] = {} /\ owner[attempts[t].identity] = 0
    BY <2>1, <1>c DEF FoundAlone, Unfinished
  <2> HIDE DEF u
  <2>4. CASE u = 0
    BY <1>3, <1>a, <2>1, <2>2, <2>3, <2>4 DEF Unfinished
  <2>5. CASE u # 0
    BY <1>3, <1>a, <2>1, <2>2, <2>3, <2>5 DEF Unfinished
  <2> QED
    BY <2>4, <2>5
<1>6. ASSUME NEW t \in Attempts, LinkIdentityTo(t) PROVE SignInInv'
  <2> DEFINE i == attempts[t].identity
             u == attempts[t].user
  <2>1. /\ attempts[t].step = "link" /\ u \in Nat /\ u # 0 /\ i \in Identities
        /\ UNCHANGED <<addressOf, userOf, known, apart>>
    BY <1>6, <1>c DEF LinkIdentityTo
  <2>2. attempts' = [attempts EXCEPT ![t] = [attempts[t] EXCEPT !.user = u, !.step = "verify"]]
    <3>1. [attempts[t] EXCEPT !.user = u, !.step = "verify"] = [attempts[t] EXCEPT !.step = "verify"]
      BY <1>a DEF AttemptState
    <3> QED
      BY <3>1, <1>6 DEF LinkIdentityTo
  <2>3. /\ owner' = (IF owner[i] = 0 THEN [owner EXCEPT ![i] = u] ELSE owner)
    BY <1>6 DEF LinkIdentityTo
  <2>4. /\ owner' \in [Identities -> Nat] /\ owner'[i] # 0
        /\ \A j \in Identities : j # i \/ owner[j] # 0 => owner'[j] = owner[j]
        /\ owner[i] = 0 => owner'[i] = u
        /\ owner'[i] # owner[i] => owner'[i] = u
    BY <2>1, <2>3, <1>a
  <2>5. t \in apart => known[t] = {} /\ owner[i] = 0
    BY <2>1, <1>c DEF FoundAlone, Unfinished
  <2> QED
    BY <1>3, <1>a, <2>1, <2>2, <2>4, <2>5 DEF Unfinished
<1>7. ASSUME NEW t \in Attempts, MarkVerified(t) PROVE SignInInv'
  <2> DEFINE u == attempts[t].user
  <2>1. /\ attempts[t].step = "verify" /\ u \in Nat /\ u # 0
        /\ UNCHANGED <<addressOf, userOf, owner, known, apart>>
    BY <1>7, <1>c DEF MarkVerified
  <2>2. attempts' = [attempts EXCEPT ![t] = [attempts[t] EXCEPT !.user = u, !.step = "done"]]
    <3>1. [attempts[t] EXCEPT !.user = u, !.step = "done"] = [attempts[t] EXCEPT !.step = "done"]
      BY <1>a DEF AttemptState
    <3> QED
      BY <3>1, <1>7 DEF MarkVerified
  <2>3. t \in apart => known[t] = {} /\ owner[attempts[t].identity] = u
    BY <2>1, <1>c DEF FoundAlone, Unfinished
  <2> QED
    BY <1>3, <1>a, <1>c, <2>1, <2>2, <2>3 DEF Unfinished
<1>8. ASSUME NEW t \in Attempts, CreateUser(t) PROVE SignInInv'
  <2> DEFINE i == attempts[t].identity
             a == attempts[t].address
  <2>1. /\ attempts[t].step = "create" /\ i \in Identities /\ a \in Addresses
        /\ UNCHANGED <<addressOf, known, apart>>
    BY <1>8, <1>c DEF CreateUser, Unfinished
  <2>2. t \in apart => known[t] = {} /\ owner[i] = 0
    BY SMTT(40), <2>1, <1>c DEF FoundAlone, Unfinished
  <2>3. CASE userOf[a] = 0 /\ owner[i] = 0
    <3>1. /\ userOf' = [userOf EXCEPT ![a] = NewUser] /\ owner' = [owner EXCEPT ![i] = NewUser]
          /\ attempts' = [attempts EXCEPT ![t] =
               [attempts[t] EXCEPT !.user = NewUser, !.step = "done"]]
      BY <1>8, <2>3 DEF CreateUser, SignedInAs
    <3>2. /\ owner' \in [Identities -> Nat] /\ owner'[i] = NewUser
          /\ \A j \in Identities : j # i \/ owner[j] # 0 => owner'[j] = owner[j]
          /\ userOf' \in [Addresses -> Nat]
      BY <1>a, <1>b, <2>1, <2>3, <3>1
    <3> QED
      BY <1>3, <1>b, <2>1, <2>2, <3>1, <3>2 DEF Unfinished
  <2>4. CASE ~(userOf[a] = 0 /\ owner[i] = 0)
    <3>1. /\ attempts' = [attempts EXCEPT ![t] =
               [attempts[t] EXCEPT !.user = 0, !.step = "failed"]]
          /\ UNCHANGED <<userOf, owner>>
      BY <1>8, <2>4 DEF CreateUser, SignedInAs
    <3> QED
      BY <1>3, <1>a, <2>1, <3>1 DEF Unfinished
  <2> QED
    BY <2>3, <2>4
<1>9. ASSUME userOf' \in [Addresses -> Nat], addressOf' \in [Identities -> Addresses],
             UNCHANGED <<owner, attempts, known, apart>>
      PROVE  SignInInv'
  <2>1. SignInTyped' /\ Linked'
    BY <1>9, <1>a DEF SignInTyped, SignInInv, Linked
  <2>2. \A t \in apart : FoundAlone(t)'
    BY <1>9 DEF SignInInv, FoundAlone
  <2> QED
    BY <1>9, <2>1, <2>2 DEF SignInInv
<1>10. ASSUME NEW f \in SignUps, NEW a \in Addresses, CheckAddress(f, a) PROVE SignInInv'
  BY <1>9, <1>10, <1>a DEF CheckAddress
<1>11. ASSUME NEW f \in SignUps, InsertUser(f) PROVE SignInInv'
  BY <1>9, <1>11, <1>a, <1>b DEF InsertUser
<1>12. ASSUME NEW i \in Identities, NEW a \in Addresses, MoveAddress(i, a) PROVE SignInInv'
  BY <1>9, <1>12, <1>a DEF MoveAddress
<1>13. ASSUME ForgetStates \/ UNCHANGED signInVars PROVE SignInInv'
  BY <1>9, <1>13, <1>a DEF ForgetStates, signInVars
<1> QED
  BY <1>1, <1>2, <1>4, <1>5, <1>6, <1>7, <1>8, <1>10, <1>11, <1>12, <1>13, ComesBack DEF SignInNext
-----------------------------------------------------------------------------
(* SyncRequests                                                            *)

\* Until its deduction a request can be paid for, unless somebody else paid since its
\* check.
SyncInv ==
  /\ SyncTypeOK
  /\ FreeWorkOverlapped
  /\ \A c \in Callers : request[c].at \in {"work", "ai", "deduct"} /\ ~overlapped[c] =>
       purse >= request[c].price

LEMMA PriceIsNat ==
  ASSUME NEW kind \in DOMAIN BasePrice, NEW ai \in SUBSET AiKinds PROVE Price(kind, ai) \in Nat
<1>1. Cardinality(ai) \in Nat
  BY SyncRequestsAssumption, FS_Subset, FS_CardinalityType
<1>2. BasePrice[kind] \in Nat /\ AiPrice \in Nat
  BY SyncRequestsAssumption
<1>3. AiPrice * Cardinality(ai) \in Nat
  BY <1>1, <1>2
<1> QED
  BY <1>2, <1>3 DEF Price

LEMMA NoAiType == NoAi \in [AiKinds -> [at : AiPlaces, tries : 0 .. AiTries]]
  BY SyncRequestsAssumption DEF NoAi, AiPlaces

LEMMA NoRequestType ==
  NoRequest \in [at : RequestPlaces, kind : DOMAIN BasePrice, price : Nat]
  BY SyncRequestsAssumption DEF NoRequest, RequestPlaces

LEMMA SyncInvInit == SyncInit => SyncInv
<1> SUFFICES ASSUME SyncInit PROVE SyncInv
  OBVIOUS
<1>1. request \in [Callers -> [at : RequestPlaces, kind : DOMAIN BasePrice, price : Nat]]
  BY NoRequestType DEF SyncInit
<1>2. aiCall \in [Callers -> [AiKinds -> [at : AiPlaces, tries : 0 .. AiTries]]]
  BY NoAiType DEF SyncInit
<1>3. overlapped \in [Callers -> BOOLEAN]
  BY DEF SyncInit
<1>4. /\ purse \in Nat /\ debits \in [Callers -> Nat]
      /\ logged \in Nat /\ used \in Nat /\ arrivals \in Nat /\ refills \in Nat /\ debitErrors \in Nat
  BY SyncRequestsAssumption DEF SyncInit
<1>5. \A c \in Callers : request[c].at = "none"
  BY DEF SyncInit, NoRequest
<1> QED
  BY <1>1, <1>2, <1>3, <1>4, <1>5 DEF SyncInv, SyncTypeOK, FreeWorkOverlapped

\* A caller at another place keeps its request.
LEMMA Moved ==
  ASSUME SyncTypeOK, NEW c \in Callers, NEW place \in RequestPlaces, Move(c, place)
  PROVE  /\ request' \in [Callers -> [at : RequestPlaces, kind : DOMAIN BasePrice, price : Nat]]
         /\ request'[c].at = place /\ request'[c].price = request[c].price
         /\ \A d \in Callers \ {c} : request'[d] = request[d]
<1> DEFINE moved == [request[c] EXCEPT !.at = place]
<1>1. request[c] \in [at : RequestPlaces, kind : DOMAIN BasePrice, price : Nat]
  BY DEF SyncTypeOK
<1>2. /\ moved \in [at : RequestPlaces, kind : DOMAIN BasePrice, price : Nat]
      /\ moved.at = place /\ moved.price = request[c].price
  BY <1>1
<1>3. request' = [request EXCEPT ![c] = moved]
  BY DEF Move
<1> HIDE DEF moved
<1> QED
  BY <1>2, <1>3 DEF SyncTypeOK

LEMMA AiMoved ==
  ASSUME SyncTypeOK, NEW c \in Callers, NEW a \in AiKinds,
         NEW x \in [at : AiPlaces, tries : 0 .. AiTries],
         aiCall' = [aiCall EXCEPT ![c][a] = x]
  PROVE  aiCall' \in [Callers -> [AiKinds -> [at : AiPlaces, tries : 0 .. AiTries]]]
  BY DEF SyncTypeOK

LEMMA SyncInvNext == SyncInv /\ [SyncNext]_syncVars => SyncInv'
<1> SUFFICES ASSUME SyncInv, [SyncNext]_syncVars PROVE SyncInv'
  OBVIOUS
<1>a. SyncTypeOK
  BY DEF SyncInv
<1> USE <1>a DEF RequestPlaces
<1>b. ASSUME NEW c \in Callers, request' = [request EXCEPT ![c] = NoRequest],
             aiCall' = aiCall \/ aiCall' = [aiCall EXCEPT ![c] = NoAi],
             UNCHANGED <<purse, debits, overlapped, logged, used, arrivals, refills, debitErrors>>
      PROVE  SyncInv'
  <2>1. request' \in [Callers -> [at : RequestPlaces, kind : DOMAIN BasePrice, price : Nat]]
    BY <1>b, NoRequestType DEF SyncTypeOK
  <2>2. aiCall' \in [Callers -> [AiKinds -> [at : AiPlaces, tries : 0 .. AiTries]]]
    BY <1>b, NoAiType DEF SyncTypeOK
  <2>3. request'[c].at = "none" /\ \A d \in Callers \ {c} : request'[d] = request[d]
    BY <1>b DEF SyncTypeOK, NoRequest
  <2>4. SyncTypeOK'
    BY <1>b, <2>1, <2>2 DEF SyncTypeOK
  <2> QED
    BY <1>b, <2>3, <2>4 DEF SyncInv, FreeWorkOverlapped
<1>c. ASSUME aiCall' \in [Callers -> [AiKinds -> [at : AiPlaces, tries : 0 .. AiTries]]],
             used' \in Nat,
             UNCHANGED <<purse, request, debits, overlapped, logged, arrivals, refills, debitErrors>>
      PROVE  SyncInv'
  BY <1>c DEF SyncInv, SyncTypeOK, FreeWorkOverlapped
<1>1. ASSUME NEW c \in Callers, SendRequest(c) PROVE SyncInv'
  <2>1. PICK kind \in DOMAIN BasePrice, ai \in SUBSET AiKinds :
          /\ CanPay(Price(kind, ai))
          /\ request' = [request EXCEPT
               ![c] = [at |-> "work", kind |-> kind, price |-> Price(kind, ai)]]
          /\ aiCall' = [aiCall EXCEPT
               ![c] = [a \in AiKinds |-> [at |-> IF a \in ai THEN "queued" ELSE "none",
                                          tries |-> 0]]]
    BY <1>1 DEF SendRequest
  <2>2. request' \in [Callers -> [at : RequestPlaces, kind : DOMAIN BasePrice, price : Nat]]
    BY <2>1, PriceIsNat DEF SyncTypeOK
  <2>3. [a \in AiKinds |-> [at |-> IF a \in ai THEN "queued" ELSE "none", tries |-> 0]]
          \in [AiKinds -> [at : AiPlaces, tries : 0 .. AiTries]]
    BY SyncRequestsAssumption DEF AiPlaces
  <2>4. aiCall' \in [Callers -> [AiKinds -> [at : AiPlaces, tries : 0 .. AiTries]]]
    BY <2>1, <2>3 DEF SyncTypeOK
  <2>5. /\ debits' \in [Callers -> Nat]
        /\ purse' \in Nat /\ logged' \in Nat /\ used' \in Nat /\ arrivals' \in Nat
        /\ refills' \in Nat /\ debitErrors' \in Nat
    BY <1>1 DEF SendRequest, SyncTypeOK
  <2>6. overlapped' \in [Callers -> BOOLEAN]
    BY <1>1 DEF SendRequest, SyncTypeOK
  <2>7. SyncTypeOK'
    BY <2>2, <2>4, <2>5, <2>6 DEF SyncTypeOK
  <2>8. /\ request'[c].at = "work" /\ request'[c].price = Price(kind, ai) /\ debits'[c] = 0
        /\ \A d \in Callers \ {c} : /\ request'[d] = request[d] /\ debits'[d] = debits[d]
                                    /\ overlapped'[d] = overlapped[d]
        /\ purse' = purse /\ purse >= Price(kind, ai) /\ debitErrors' = debitErrors
    BY <1>1, <2>1 DEF SendRequest, CanPay, SyncTypeOK
  <2> QED
    BY <2>7, <2>8 DEF SyncInv, FreeWorkOverlapped
<1>2. ASSUME NEW c \in Callers, WorkDone(c) \/ CallsEnd(c) PROVE SyncInv'
  <2>1. PICK place \in {"ai", "deduct"} : Move(c, place)
    BY <1>2 DEF WorkDone, CallsEnd
  <2>2. aiCall' = aiCall \/ aiCall' = [aiCall EXCEPT ![c] = NoAi]
    BY <1>2 DEF WorkDone, CallsEnd
  <2>3. /\ logged' = logged \/ logged' = logged + 1
        /\ UNCHANGED <<purse, debits, overlapped, used, arrivals, refills, debitErrors>>
    BY <1>2 DEF WorkDone, CallsEnd
  <2>4. aiCall' \in [Callers -> [AiKinds -> [at : AiPlaces, tries : 0 .. AiTries]]]
    BY <2>2, NoAiType DEF SyncTypeOK
  <2>5. /\ request' \in [Callers -> [at : RequestPlaces, kind : DOMAIN BasePrice, price : Nat]]
        /\ request'[c].at = place /\ request'[c].price = request[c].price
        /\ \A d \in Callers \ {c} : request'[d] = request[d]
    BY <2>1, Moved
  <2>6. SyncTypeOK'
    BY <2>3, <2>4, <2>5 DEF SyncTypeOK
  <2>7. request[c].at \in {"work", "ai"}
    BY <1>2 DEF WorkDone, CallsEnd
  <2> QED
    BY <2>1, <2>3, <2>5, <2>6, <2>7 DEF SyncInv, FreeWorkOverlapped
<1>3. ASSUME NEW c \in Callers, WorkFails(c) \/ AnswerCaller(c) \/ Disconnect(c) PROVE SyncInv'
  BY <1>b, <1>3 DEF WorkFails, AnswerCaller, Disconnect
<1>4. ASSUME NEW c \in Callers, Pay(c) PROVE SyncInv'
  <2>1. /\ request' \in [Callers -> [at : RequestPlaces, kind : DOMAIN BasePrice, price : Nat]]
        /\ request'[c].at = "topup"
        /\ \A d \in Callers \ {c} : request'[d] = request[d]
    BY <1>4, Moved DEF Pay
  <2>2. purse' \in Nat /\ debits' \in [Callers -> Nat]
    BY <1>4 DEF Pay, SyncTypeOK
  <2>3. overlapped' \in [Callers -> BOOLEAN]
    BY <1>4 DEF Pay, Overlaps
  <2>4. \A d \in Callers \ {c} : overlapped'[d]
    BY <1>4 DEF Pay, Overlaps
  <2>5. debits'[c] = debits[c] + 1 /\ \A d \in Callers \ {c} : debits'[d] = debits[d]
    BY <1>4 DEF Pay, SyncTypeOK
  <2>6. UNCHANGED <<aiCall, logged, used, arrivals, refills, debitErrors>>
          /\ request[c].at = "deduct"
    BY <1>4 DEF Pay
  <2>7. SyncTypeOK'
    BY <2>1, <2>2, <2>3, <2>6 DEF SyncTypeOK
  <2>8. debits[c] = 0
    BY <2>6 DEF SyncInv, FreeWorkOverlapped
  <2> QED
    BY <2>1, <2>4, <2>5, <2>6, <2>7, <2>8 DEF SyncInv, FreeWorkOverlapped
<1>5. ASSUME NEW c \in Callers, CannotPay(c) \/ DebitFails(c) PROVE SyncInv'
  <2>1. /\ request' \in [Callers -> [at : RequestPlaces, kind : DOMAIN BasePrice, price : Nat]]
        /\ request'[c].at = "free" /\ request'[c].price = request[c].price
        /\ \A d \in Callers \ {c} : request'[d] = request[d]
    BY <1>5, Moved DEF CannotPay, DebitFails
  <2>2. /\ UNCHANGED <<purse, aiCall, debits, overlapped, logged, used, arrivals, refills>>
        /\ request[c].at = "deduct"
    BY <1>5 DEF CannotPay, DebitFails
  <2>3. /\ debitErrors' \in Nat /\ debitErrors' >= debitErrors
        /\ purse < request[c].price \/ debitErrors' > 0
    BY <1>5 DEF CannotPay, DebitFails, SyncTypeOK
  <2>4. SyncTypeOK'
    BY <2>1, <2>2, <2>3 DEF SyncTypeOK
  <2>5. purse \in Nat /\ request[c].price \in Nat /\ debitErrors \in Nat
    BY DEF SyncTypeOK
  <2>6. overlapped[c] \/ debitErrors' > 0
    BY <2>2, <2>3, <2>5 DEF SyncInv
  <2> QED
    BY <2>1, <2>2, <2>3, <2>4, <2>5, <2>6 DEF SyncInv, FreeWorkOverlapped
<1>6. ASSUME NEW c \in Callers, TopUpOrNot(c) PROVE SyncInv'
  <2>1. /\ request' \in [Callers -> [at : RequestPlaces, kind : DOMAIN BasePrice, price : Nat]]
        /\ request'[c].at = "paid"
        /\ \A d \in Callers \ {c} : request'[d] = request[d]
    BY <1>6, Moved DEF TopUpOrNot
  <2>2. /\ UNCHANGED <<aiCall, debits, overlapped, logged, used, arrivals, debitErrors>>
        /\ request[c].at = "topup"
    BY <1>6 DEF TopUpOrNot
  <2>3. purse' \in Nat /\ refills' \in Nat /\ purse' >= purse /\ purse \in Nat
    BY <1>6, SyncRequestsAssumption DEF TopUpOrNot, SyncTypeOK
  <2>4. SyncTypeOK'
    BY <2>1, <2>2, <2>3 DEF SyncTypeOK
  <2>5. \A d \in Callers : request[d].price \in Nat
    BY DEF SyncTypeOK
  <2> QED
    BY <2>1, <2>2, <2>3, <2>4, <2>5 DEF SyncInv, FreeWorkOverlapped
<1>7. ASSUME NEW c \in Callers, NEW a \in AiKinds, Acquire(c, a) PROVE SyncInv'
  <2>1. aiCall' \in [Callers -> [AiKinds -> [at : AiPlaces, tries : 0 .. AiTries]]]
    <3>1. [at |-> "calling", tries |-> 1] \in [at : AiPlaces, tries : 0 .. AiTries]
      BY SyncRequestsAssumption DEF AiPlaces
    <3> QED
      BY <1>7, <3>1 DEF Acquire, SyncTypeOK
  <2> QED
    BY <1>c, <1>7, <2>1 DEF Acquire, SyncTypeOK
<1>8. ASSUME NEW c \in Callers, NEW a \in AiKinds, Responds(c, a) PROVE SyncInv'
  <2>1. aiCall' \in [Callers -> [AiKinds -> [at : AiPlaces, tries : 0 .. AiTries]]]
    <3> DEFINE x == [aiCall[c][a] EXCEPT !.at = "done"]
    <3>1. aiCall[c][a] \in [at : AiPlaces, tries : 0 .. AiTries]
      BY DEF SyncTypeOK
    <3>2. x \in [at : AiPlaces, tries : 0 .. AiTries]
      BY <3>1 DEF AiPlaces
    <3>3. aiCall' = [aiCall EXCEPT ![c][a] = x]
      BY <1>8 DEF Responds
    <3> QED
      BY <3>2, <3>3, AiMoved
  <2> QED
    BY <1>c, <1>8, <2>1 DEF Responds, SyncTypeOK
<1>9. ASSUME NEW c \in Callers, NEW a \in AiKinds, CallFails(c, a) PROVE SyncInv'
  <2>1. aiCall' \in [Callers -> [AiKinds -> [at : AiPlaces, tries : 0 .. AiTries]]]
    <3> DEFINE x == [aiCall[c][a] EXCEPT !.at = "failed"]
               y == [aiCall[c][a] EXCEPT !.tries = @ + 1]
    <3>1. aiCall[c][a] \in [at : AiPlaces, tries : 0 .. AiTries]
      BY DEF SyncTypeOK
    <3>2. x \in [at : AiPlaces, tries : 0 .. AiTries]
      BY <3>1 DEF AiPlaces
    <3>3. aiCall[c][a].tries < AiTries => y \in [at : AiPlaces, tries : 0 .. AiTries]
      BY <3>1, SyncRequestsAssumption
    <3>4. \/ aiCall' = [aiCall EXCEPT ![c][a] = x]
          \/ aiCall[c][a].tries < AiTries /\ aiCall' = [aiCall EXCEPT ![c][a] = y]
      BY <1>9 DEF CallFails
    <3> QED
      BY <3>2, <3>3, <3>4, AiMoved
  <2> QED
    BY <1>c, <1>9, <2>1 DEF CallFails, SyncTypeOK
<1>10. ASSUME BillCrawl PROVE SyncInv'
  <2>1. purse' \in Nat
    BY <1>10 DEF BillCrawl, SyncTypeOK
  <2>2. overlapped' \in [Callers -> BOOLEAN] /\ \A c \in Callers : overlapped'[c]
    BY <1>10 DEF BillCrawl, Overlaps
  <2> QED
    BY <1>10, <2>1, <2>2 DEF BillCrawl, SyncInv, SyncTypeOK, FreeWorkOverlapped
<1>11. ASSUME UNCHANGED syncVars PROVE SyncInv'
  BY <1>11 DEF syncVars, SyncInv, SyncTypeOK, FreeWorkOverlapped
<1> QED
  BY <1>1, <1>2, <1>3, <1>4, <1>5, <1>6, <1>7, <1>8, <1>9, <1>10, <1>11 DEF SyncNext


-----------------------------------------------------------------------------
(* The handlers together: a behaviour of the module is, for each part, a    *)
(* behaviour of that part.                                                 *)

LEMMA EachPartStarts ==
  HandlersInit =>
    /\ TeamInit /\ EnginesInit /\ OAuthInit /\ CredentialsInit /\ CliInit /\ RateInit
    /\ CardsInit /\ InvoicesInit /\ AccessInit /\ SignInInit /\ SyncInit
    /\ LocalInit /\ MemoryInit /\ MapInit /\ LinksInit
    /\ NearInit /\ DocumentsInit /\ BlocksInit /\ AiInit
BY DEF HandlersInit

LEMMA EachPartSteps ==
  [HandlersNext]_handlerVars =>
    /\ [TeamNext]_teamVars /\ [EnginesNext]_engineVars /\ [OAuthNext]_oauthVars
    /\ [CredentialsNext]_credentialVars /\ [CliNext]_cliVars /\ [RateNext]_rateVars
    /\ [CardsNext]_cardVars /\ [InvoicesNext]_invoiceVars /\ [AccessNext]_accessVars
    /\ [SignInNext]_signInVars /\ [SyncNext]_syncVars
    /\ [LocalNext]_localVars /\ [MemoryNext]_memoryVars
    /\ [MapNext]_mapVars /\ [LinksNext]_linkVars
    /\ [ComparePair \/ CheckAndAdd]_nearVars /\ [DocumentsNext]_documentVars
    /\ [BlocksNext]_blockVars /\ [AiNext]_aiVars
<1>1. [HandlersNext]_handlerVars => [TeamNext]_teamVars
  BY DEF HandlersNext, handlerVars, Only
<1>2. [HandlersNext]_handlerVars => [EnginesNext]_engineVars
  BY DEF HandlersNext, handlerVars, Only
<1>3. [HandlersNext]_handlerVars => [OAuthNext]_oauthVars
  BY DEF HandlersNext, handlerVars, Only
<1>4. [HandlersNext]_handlerVars => [CredentialsNext]_credentialVars
  BY DEF HandlersNext, handlerVars, Only
<1>5. [HandlersNext]_handlerVars => [CliNext]_cliVars
  BY DEF HandlersNext, handlerVars, Only
<1>6. [HandlersNext]_handlerVars => [RateNext]_rateVars
  BY DEF HandlersNext, handlerVars, Only
<1>7. [HandlersNext]_handlerVars => [CardsNext]_cardVars
  BY DEF HandlersNext, handlerVars, Only
<1>8. [HandlersNext]_handlerVars => [InvoicesNext]_invoiceVars
  BY DEF HandlersNext, handlerVars, Only
<1>9. [HandlersNext]_handlerVars => [AccessNext]_accessVars
  BY DEF HandlersNext, handlerVars, Only
<1>10. [HandlersNext]_handlerVars => [SignInNext]_signInVars
  BY DEF HandlersNext, handlerVars, Only
<1>11. [HandlersNext]_handlerVars => [SyncNext]_syncVars
  BY DEF HandlersNext, handlerVars, Only
<1>12. [HandlersNext]_handlerVars => [LocalNext]_localVars
  BY DEF HandlersNext, handlerVars, Only
<1>13. [HandlersNext]_handlerVars => [MemoryNext]_memoryVars
  BY DEF HandlersNext, handlerVars, Only
<1>14. [HandlersNext]_handlerVars => [MapNext]_mapVars
  BY DEF HandlersNext, handlerVars, Only
<1>15. [HandlersNext]_handlerVars => [LinksNext]_linkVars
  BY DEF HandlersNext, handlerVars, Only
<1>16. [HandlersNext]_handlerVars => [ComparePair \/ CheckAndAdd]_nearVars
  BY DEF HandlersNext, handlerVars, Only
<1>17. [HandlersNext]_handlerVars => [DocumentsNext]_documentVars
  BY DEF HandlersNext, handlerVars, Only
<1>18. [HandlersNext]_handlerVars => [BlocksNext]_blockVars
  BY DEF HandlersNext, handlerVars, Only
<1>19. [HandlersNext]_handlerVars => [AiNext]_aiVars
  BY DEF HandlersNext, handlerVars, Only
<1> QED
  BY <1>1, <1>2, <1>3, <1>4, <1>5, <1>6, <1>7, <1>8, <1>9, <1>10, <1>11, <1>12, <1>13, <1>14,
     <1>15, <1>16, <1>17, <1>18, <1>19

\* Whatever changes to a team and to its engines overlap: who is a member was invited as
\* one, an account loses its last owner only if two changes raced, and of its engines one
\* is the default at most, or as many as requests to set one crossed.
THEOREM TeamsAndEnginesAreSound == HandlersSpec => []AccountsAreSound
<1>1. HandlersInit => TeamInv /\ EnginesInv
  BY EachPartStarts, TeamInvInit, EnginesInvInit
<1>2. TeamInv /\ EnginesInv /\ [HandlersNext]_handlerVars => (TeamInv /\ EnginesInv)'
  BY EachPartSteps, TeamInvNext, EnginesInvNext
<1>3. TeamInv /\ EnginesInv => AccountsAreSound
  BY EnginesInvHolds DEF AccountsAreSound, MembershipsAreSound, TeamInv
<1> QED
  BY <1>1, <1>2, <1>3, PTL DEF HandlersSpec

\* However many requests present one token at once: a grant has one refresh token that can
\* be used, and one more for each overlap; a verification welcomes once and a reset acts
\* once for each form that is open; and the command line's file has the token that acts
\* next, or had it on its way.
THEOREM SpentTokensStaySpent == HandlersSpec => []TokensAreSpent
<1>1. HandlersInit => OAuthInv /\ CredentialsInv /\ CliInv
  BY EachPartStarts, OAuthInvInit, CredentialsInvInit, CliInvInit
<1>2. OAuthInv /\ CredentialsInv /\ CliInv /\ [HandlersNext]_handlerVars => (OAuthInv /\ CredentialsInv /\ CliInv)'
  BY EachPartSteps, OAuthInvNext, CredentialsInvNext, CliInvNext
<1>3. OAuthInv /\ CredentialsInv /\ CliInv => TokensAreSpent
  BY OAuthInvHolds, CredentialsInvHolds DEF TokensAreSpent, CliInv
<1> QED
  BY <1>1, <1>2, <1>3, PTL DEF HandlersSpec

\* For any quota and window and however Redis comes and goes: no interval as long as the
\* window has more admissions than the quota by Redis, or than twice the quota by memory.
THEOREM LimitersBoundAdmissions == HandlersSpec => []AdmissionsAreBounded
<1>1. HandlersInit => RateInv
  BY EachPartStarts, RateInvInit
<1>2. RateInv /\ [HandlersNext]_handlerVars => (RateInv)'
  BY EachPartSteps, RateInvNext
<1>3. RateInv => AdmissionsAreBounded
  BY RateInvHolds
<1> QED
  BY <1>1, <1>2, <1>3, PTL DEF HandlersSpec

\* Whatever requests overlap or break off: the cards are those of the customer on file,
\* unless two requests created one at once, a deleted card does not stay the default, and
\* credits are granted for items that were paid or that another's invoice took.
THEOREM PaymentsAreSound == HandlersSpec => []PaymentsHold
<1>1. HandlersInit => CardsInv /\ InvoicesInv
  BY EachPartStarts, CardsInvInit, InvoicesInvInit
<1>2. CardsInv /\ InvoicesInv /\ [HandlersNext]_handlerVars => (CardsInv /\ InvoicesInv)'
  BY EachPartSteps, CardsInvNext, InvoicesInvNext
<1>3. CardsInv /\ InvoicesInv => PaymentsHold
  BY CardsInvHolds, InvoicesInvHolds DEF PaymentsHold
<1> QED
  BY <1>1, <1>2, <1>3, PTL DEF HandlersSpec

\* Whatever roles, keys and accounts change while a request is checked: it acts only for an
\* account that its credential gave it at some moment since it came.
THEOREM OnlyEntitledActs == HandlersSpec => []ActsWereAllowed
<1>1. HandlersInit => AccessInv
  BY EachPartStarts, AccessInvInit
<1>2. AccessInv /\ [HandlersNext]_handlerVars => (AccessInv)'
  BY EachPartSteps, AccessInvNext
<1>3. AccessInv => ActsWereAllowed
  BY DEF ActsWereAllowed, AccessInv, CallHolds
<1> QED
  BY <1>1, <1>2, <1>3, PTL DEF HandlersSpec

\* For any number of identities, addresses and attempts: a sign-in that no other of its
\* identity overlaps ends as the user that the identity is linked to, who is one that it
\* signed in as before if it ever did.
THEOREM SignInsComeBack == HandlersSpec => []SignInsAgree
<1>1. HandlersInit => SignInInv
  BY EachPartStarts, SignInInvInit
<1>2. SignInInv /\ [HandlersNext]_handlerVars => (SignInInv)'
  BY EachPartSteps, SignInInvNext
<1>3. SignInInv => SignInsAgree
  BY SignInInvHolds
<1> QED
  BY <1>1, <1>2, <1>3, PTL DEF HandlersSpec

\* For any prices, sites, limits and concurrency: a request is debited once at most, and its
\* work is free only if another one was debited after its check, or a debit failed; a local
\* crawl fetches a URL once at most, keeps to its permits, exceeds its page limit by no more
\* than those, and reports about what it has.
THEOREM BudgetsAreKept == HandlersSpec => []BudgetsHold
<1>1. HandlersInit => SyncInv /\ LocalInv
  BY EachPartStarts, SyncInvInit, LocalInvInit
<1>2. SyncInv /\ LocalInv /\ [HandlersNext]_handlerVars => (SyncInv /\ LocalInv)'
  BY EachPartSteps, SyncInvNext, LocalInvNext
<1>3. SyncInv /\ LocalInv => BudgetsHold
  BY LocalInvHolds DEF SyncInv, BudgetsHold
<1> QED
  BY <1>1, <1>2, <1>3, PTL DEF HandlersSpec

\* For any capacities and whatever is crawled, forgotten and lost in restarts: the history
\* has the pages that were crawled last, and the link graph agrees in both directions and
\* exceeds its limit by one page's links at most.
THEOREM FrontierRemembersRight == HandlersSpec => []FrontierRemembers
<1>1. HandlersInit => MemoryInv
  BY EachPartStarts, MemoryInvInit
<1>2. MemoryInv /\ [HandlersNext]_handlerVars => (MemoryInv)'
  BY EachPartSteps, MemoryInvNext
<1>3. MemoryInv => FrontierRemembers
  BY MemoryInvHolds
<1> QED
  BY <1>1, <1>2, <1>3, PTL DEF HandlersSpec

\* For any site, sitemaps, limits and failures of pages, and any settings, hosts and
\* patterns: a mapping answers no more than was asked for, nothing twice, what is within
\* the depth and, where nothing failed or was cut short, all of it; and however long a
\* chain of links is, none leads out of the domains of the start URL, below the limit or
\* to what an excluded pattern means, and none that the settings mean to follow is missed.
THEOREM UrlSearchesAreComplete == HandlersSpec => []UrlSearchesHold
<1>1. HandlersInit => MapInv /\ LinksInv
  BY EachPartStarts, MapInvInit, LinksInvInit
<1>2. MapInv /\ LinksInv /\ [HandlersNext]_handlerVars => (MapInv /\ LinksInv)'
  BY EachPartSteps, MapInvStep, LinksInvNext
<1>3. MapInv /\ LinksInv => UrlSearchesHold
  BY LinksInvHolds DEF UrlSearchesHold, MapInv
<1> QED
  BY <1>1, <1>2, <1>3, PTL DEF HandlersSpec

\* For any pages, settings, failures and replies: as long as nothing failed every page that
\* could be read is in the index or was skipped as a copy of one that is; its blocks are
\* the page, cut at the headings that split, each under the headings it stands under;
\* documents are in one cluster if and only if pairs that matched lead from one to the
\* other; and what is taken from a model's reply is the lone value that it has.
THEOREM ContentStaysTrue == HandlersSpec => []ContentIsKept
<1>. DEFINE Inv == NearInv /\ DocumentsInv /\ BlocksInv /\ AiInv
<1>1. HandlersInit => Inv
  BY EachPartStarts, NearInvInit, DocumentsInvInit, BlocksInvInit, AiInvInit
<1>2. Inv /\ [HandlersNext]_handlerVars => Inv'
  <2>. SUFFICES ASSUME Inv, [HandlersNext]_handlerVars PROVE Inv'
    OBVIOUS
  <2>1. NearInv'
    BY EachPartSteps, ComparePairKeeps, CheckAndAddKeeps, NearInvStays
  <2>2. DocumentsInv'
    BY EachPartSteps, DocumentsInvNext, DocumentsInvStays
  <2>3. BlocksInv'
    BY EachPartSteps, BlocksInvNext, BlocksInvStays
  <2>4. AiInv'
    BY EachPartSteps, AiInvNext, AiInvStays
  <2>. QED
    BY <2>1, <2>2, <2>3, <2>4
<1>3. Inv => ContentIsKept
  BY NearInvHolds, DocumentsInvHolds, BlocksInvHolds DEF ContentIsKept, AiInv
<1> QED
  BY <1>1, <1>2, <1>3, PTL DEF HandlersSpec

=============================================================================
