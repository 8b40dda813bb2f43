------------------------------- MODULE SignIn -------------------------------
(***************************************************************************)
(* Signing in through a provider (bins/scrapix-api/src/auth/social.rs),    *)
(* beside signing up with a password (auth/handlers/auth.rs, signup).      *)
(*                                                                         *)
(* The way back from the provider looks for the identity, then for a user  *)
(* with the e-mail, then creates one: three lookups outside a transaction. *)
(* The database keeps e-mails and identities unique, and linking an        *)
(* identity that is linked already does nothing and says nothing.          *)
(*                                                                         *)
(* Abstractions.  A user is created with an account and its deposit, in    *)
(* one transaction; the invitations it accepts then are Teams'.            *)
(***************************************************************************)
EXTENDS Naturals, FiniteSets

CONSTANTS
  Attempts,   \* visits to the provider
  SignUps,    \* forms with a password
  Identities, \* accounts at the providers
  Addresses,  \* e-mail addresses
  NoAddress,  \* none yet
  MaxMoves    \* bound: addresses changed at a provider, and restarts of the server

ASSUME SignInAssumption == MaxMoves \in Nat /\ Identities # {} /\ IsFiniteSet(Addresses)

VARIABLES
  addressOf,   \* identity -> its address at the provider now
  stateTokens, \* attempts whose state token the server remembers
  userOf,      \* users: address -> the user with it, or 0
  verifiedUsers,    \* users whose address is verifiedUsers
  owner,       \* oauth_identities: identity -> user, or 0
  attempts,    \* attempt -> identity, profile and step
  signUps,     \* form -> address and step
  known,       \* attempt -> users its identity had signed in as before it came back
  apart,       \* attempts that no other of their identity overlapped
  moves

signInVars ==
  <<addressOf, stateTokens, userOf, verifiedUsers, owner, attempts, signUps, known, apart, moves>>

Users0 == 0..(Cardinality(Attempts) + Cardinality(SignUps))

NewUser == 1 + Cardinality({a \in Addresses : userOf[a] # 0})

Attempt == [identity : Identities, address : Addresses \cup {NoAddress}, user : Users0,
            step : {"start", "away", "identity", "address", "link", "verify", "create", "done",
                    "failed"}]

SignInInit ==
  /\ addressOf \in [Identities -> Addresses]
  /\ stateTokens = {} /\ userOf = [a \in Addresses |-> 0] /\ verifiedUsers = {}
  /\ owner = [i \in Identities |-> 0]
  /\ attempts = [t \in Attempts |->
       [identity |-> CHOOSE i \in Identities : TRUE, address |-> NoAddress, user |-> 0,
        step |-> "start"]]
  /\ signUps = [f \in SignUps |-> [address |-> NoAddress, step |-> "start"]]
  /\ known = [t \in Attempts |-> {}] /\ apart = Attempts /\ moves = 0

OfIdentity(i) == {t \in Attempts : attempts[t].step # "start" /\ attempts[t].identity = i}

Underway(t) == attempts[t].step \in {"identity", "address", "link", "verify", "create"}

\* initiate
Initiate(t, i) ==
  /\ attempts[t].step = "start"
  /\ attempts' = [attempts EXCEPT ![t].identity = i, ![t].step = "away"]
  /\ stateTokens' = stateTokens \cup {t}
  /\ UNCHANGED <<addressOf, userOf, verifiedUsers, owner, signUps, known, apart, moves>>

\* The token is good once, and the profile is fetched.
Callback(t) ==
  LET i == attempts[t].identity
      others == {s \in OfIdentity(i) \ {t} : Underway(s)}
  IN  /\ attempts[t].step = "away" /\ t \in stateTokens
      /\ stateTokens' = stateTokens \ {t}
      /\ attempts' = [attempts EXCEPT ![t].step = "identity", ![t].address = addressOf[i]]
      /\ known' = [known EXCEPT ![t] =
                     {attempts[s].user : s \in {u \in OfIdentity(i) : attempts[u].step = "done"}}]
      /\ apart' = IF others = {} THEN apart ELSE apart \ (others \cup {t})
      /\ UNCHANGED <<addressOf, userOf, verifiedUsers, owner, signUps, moves>>

\* Cancelled, refused by the provider, or sent to a server that has restarted.
CallbackFails(t) ==
  /\ attempts[t].step = "away"
  /\ stateTokens' = stateTokens \ {t}
  /\ attempts' = [attempts EXCEPT ![t].step = "failed"]
  /\ UNCHANGED <<addressOf, userOf, verifiedUsers, owner, signUps, known, apart, moves>>

SignedInAs(t, u, step) == attempts' = [attempts EXCEPT ![t].user = u, ![t].step = step]

FindIdentity_AddressFirstMutant(t) ==
  LET u == userOf[attempts[t].address]
  IN  /\ attempts[t].step = "identity"
      /\ IF u # 0 THEN SignedInAs(t, u, "done")
         ELSE IF owner[attempts[t].identity] # 0
         THEN SignedInAs(t, owner[attempts[t].identity], "done") ELSE SignedInAs(t, 0, "address")
      /\ UNCHANGED <<addressOf, stateTokens, userOf, verifiedUsers, owner, signUps, known, apart,
                     moves>>

FindIdentity(t) ==
  LET u == owner[attempts[t].identity]
  IN  /\ attempts[t].step = "identity"
      /\ SignedInAs(t, u, IF u # 0 THEN "done" ELSE "address")
      /\ UNCHANGED <<addressOf, stateTokens, userOf, verifiedUsers, owner, signUps, known, apart,
                     moves>>

FindAddress(t) ==
  LET u == userOf[attempts[t].address]
  IN  /\ attempts[t].step = "address"
      /\ SignedInAs(t, u, IF u # 0 THEN "link" ELSE "create")
      /\ UNCHANGED <<addressOf, stateTokens, userOf, verifiedUsers, owner, signUps, known, apart,
                     moves>>

\* ON CONFLICT DO NOTHING
LinkIdentityTo(t) ==
  LET i == attempts[t].identity
  IN  /\ attempts[t].step = "link"
      /\ owner' = IF owner[i] = 0 THEN [owner EXCEPT ![i] = attempts[t].user] ELSE owner
      /\ attempts' = [attempts EXCEPT ![t].step = "verify"]
      /\ UNCHANGED <<addressOf, stateTokens, userOf, verifiedUsers, signUps, known, apart, moves>>

MarkVerified(t) ==
  /\ attempts[t].step = "verify"
  /\ verifiedUsers' = verifiedUsers \cup {attempts[t].user}
  /\ attempts' = [attempts EXCEPT ![t].step = "done"]
  /\ UNCHANGED <<addressOf, stateTokens, userOf, owner, signUps, known, apart, moves>>

\* The transaction fails if the address or the identity is taken by now.
CreateUser(t) ==
  LET i == attempts[t].identity
      a == attempts[t].address
  IN  /\ attempts[t].step = "create"
      /\ IF userOf[a] = 0 /\ owner[i] = 0
         THEN /\ userOf' = [userOf EXCEPT ![a] = NewUser] /\ owner' = [owner EXCEPT ![i] = NewUser]
              /\ verifiedUsers' = verifiedUsers \cup {NewUser}
              /\ SignedInAs(t, NewUser, "done")
         ELSE /\ SignedInAs(t, 0, "failed") /\ UNCHANGED <<userOf, owner, verifiedUsers>>
      /\ UNCHANGED <<addressOf, stateTokens, signUps, known, apart, moves>>

\* signup
CheckAddress(f, a) ==
  /\ signUps[f].step = "start"
  /\ signUps' = [signUps EXCEPT ![f] = [address |-> a,
                                        step |-> IF userOf[a] = 0 THEN "insert" ELSE "taken"]]
  /\ UNCHANGED <<addressOf, stateTokens, userOf, verifiedUsers, owner, attempts, known, apart,
                 moves>>

InsertUser(f) ==
  LET a == signUps[f].address
  IN  /\ signUps[f].step = "insert"
      /\ userOf' = IF userOf[a] = 0 THEN [userOf EXCEPT ![a] = NewUser] ELSE userOf
      /\ signUps' = [signUps EXCEPT ![f].step = IF userOf[a] = 0 THEN "done" ELSE "failed"]
      /\ UNCHANGED <<addressOf, stateTokens, verifiedUsers, owner, attempts, known, apart, moves>>

MoveAddress(i, a) ==
  /\ moves < MaxMoves /\ moves' = moves + 1
  /\ addressOf[i] # a /\ addressOf' = [addressOf EXCEPT ![i] = a]
  /\ UNCHANGED <<stateTokens, userOf, verifiedUsers, owner, attempts, signUps, known, apart>>

\* The state tokens are in memory, of one server.
ForgetStates ==
  /\ moves < MaxMoves /\ moves' = moves + 1 /\ stateTokens # {} /\ stateTokens' = {}
  /\ UNCHANGED <<addressOf, userOf, verifiedUsers, owner, attempts, signUps, known, apart>>

SignInNext ==
  \/ \E t \in Attempts : \/ \E i \in Identities : Initiate(t, i)
                         \/ Callback(t) \/ CallbackFails(t) \/ FindIdentity(t) \/ FindAddress(t)
                         \/ LinkIdentityTo(t) \/ MarkVerified(t) \/ CreateUser(t)
  \/ \E f \in SignUps : InsertUser(f) \/ \E a \in Addresses : CheckAddress(f, a)
  \/ \E i \in Identities, a \in Addresses : MoveAddress(i, a)
  \/ ForgetStates

-----------------------------------------------------------------------------
SignInTypeOK ==
  /\ addressOf \in [Identities -> Addresses] /\ stateTokens \subseteq Attempts
  /\ userOf \in [Addresses -> Users0] /\ verifiedUsers \subseteq Users0 \ {0}
  /\ owner \in [Identities -> Users0] /\ attempts \in [Attempts -> Attempt]
  /\ signUps \in [SignUps -> [address : Addresses \cup {NoAddress},
                              step : {"start", "insert", "taken", "done", "failed"}]]
  /\ known \in [Attempts -> SUBSET Users0] /\ apart \subseteq Attempts /\ moves \in 0..MaxMoves

\* Who comes back is who they were (find_or_create_user): a sign-in that no other
\* of the same identity overlaps ends as a user that the identity signed in as
\* before, if it ever did, even if its e-mail has changed since, and otherwise
\* as the user to whom the identity is linked from then on.
SignInsAgree ==
  \A t \in apart :
    attempts[t].step = "done" =>
      /\ known[t] # {} => attempts[t].user \in known[t]
      /\ owner[attempts[t].identity] = attempts[t].user \/ known[t] # {}

=============================================================================
