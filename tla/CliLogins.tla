----------------------------- MODULE CliLogins ------------------------------
(***************************************************************************)
(* The logins of the command line (bins/scrapix-cli/src/commands/auth.rs,  *)
(* config.rs, lib.rs).  Every command reads config.toml first, and a       *)
(* command that finds an expired access token there trades the refresh     *)
(* token for a new pair, which it writes back, before it does its work.    *)
(* Commands run at the same time as others, of a script or of a second     *)
(* terminal, with no lock on the file.                                     *)
(*                                                                         *)
(* Abstractions.  A pair of tokens is a number; the server's part is the   *)
(* check of a refresh token and its rotation (OAuthTokens has the rest).   *)
(* A logout also revokes the access token, not the refresh token: the file *)
(* does not show it.                                                       *)
(*                                                                         *)
(* `lost' and `orphans' are history variables.                             *)
(***************************************************************************)
EXTENDS Naturals, Sequences

CONSTANTS
  Terminals,  \* commands that can run at the same time
  MaxPairs,   \* bound: pairs of tokens issued
  MaxCommands \* bound: commands run

ASSUME CliAssumption == MaxPairs \in Nat /\ MaxCommands \in Nat

VARIABLES
  file,       \* config.toml: what its reader finds in it
  commands,   \* terminal -> how far its command is
  ranSoFar,   \* commands so far
  parents,    \* pair -> the pair it replaces, 0 for a new login
  rotated,    \* pairs whose refresh token was used up
  orphans,    \* those of them that a failed rotation left without a successor
  stalePairs, \* pairs whose access token is past its time
  lost        \* pairs that were issued and are in no file, and will not be

cliVars == <<file, commands, ranSoFar, parents, rotated, orphans, stalePairs, lost>>

Pairs == 1 .. Len(parents)

\* A file that is absent, or is being written, or does not parse, is a default
\* configuration to its reader.
NoLogin == [kind |-> "none", pair |-> 0]
Unreadable == [kind |-> "unreadable", pair |-> 0]
WithKey == [kind |-> "key", pair |-> 0]
WithTokens(pair) == [kind |-> "tokens", pair |-> pair]
Configs == {NoLogin, Unreadable, WithKey} \cup {WithTokens(n) : n \in 1 .. MaxPairs}

\* `mine' is the configuration in a command's memory, `next' what comes after it is
\* saved.
Command ==
  [at : {"ready", "refresh", "rotate", "save", "write", "work", "browser", "exchange", "prompt"},
   mine : Configs \ {Unreadable}, next : {"ready", "work"}]
NoCommand == [at |-> "ready", mine |-> NoLogin, next |-> "ready"]

CliInit ==
  /\ file = NoLogin /\ commands = [c \in Terminals |-> NoCommand] /\ ranSoFar = 0
  /\ parents = <<>> /\ rotated = {} /\ orphans = {} /\ stalePairs = {} /\ lost = {}

AtPoint(c, point) == commands[c].at = point
End(c) == commands' = [commands EXCEPT ![c] = NoCommand]
Continue(c, point) ==
  IF point = "ready" THEN End(c) ELSE commands' = [commands EXCEPT ![c].at = point]

\* run_inner: load the file, and refresh a token that has expired.
StartCommand(c) ==
  /\ AtPoint(c, "ready") /\ ranSoFar < MaxCommands /\ ranSoFar' = ranSoFar + 1
  /\ LET read == IF file = Unreadable THEN NoLogin ELSE file
     IN commands' = [commands EXCEPT ![c] =
          [at |-> IF read.pair \in stalePairs THEN "refresh" ELSE "work", mine |-> read,
           next |-> "work"]]
  /\ UNCHANGED <<file, parents, rotated, orphans, stalePairs, lost>>

\* The server knows the refresh token and it was not used; otherwise, or if the
\* request fails, the command works with the token it has.
AskRefresh(c) ==
  /\ AtPoint(c, "refresh")
  /\ \/ commands[c].mine.pair \notin rotated /\ Continue(c, "rotate")
     \/ Continue(c, "work")
  /\ UNCHANGED <<file, ranSoFar, parents, rotated, orphans, stalePairs, lost>>

\* The server issues a pair, which the command is about to save.
Issue(c, parent, next) ==
  /\ Len(parents) < MaxPairs /\ parents' = Append(parents, parent)
  /\ commands' = [commands EXCEPT
       ![c] = [at |-> "save", mine |-> WithTokens(Len(parents) + 1), next |-> next]]

\* The command keeps the new pair to itself.
Rotate_Mutant(c) ==
  /\ AtPoint(c, "rotate") /\ Len(parents) < MaxPairs
  /\ parents' = Append(parents, commands[c].mine.pair)
  /\ Continue(c, "work")
  /\ rotated' = rotated \cup {commands[c].mine.pair}
  /\ UNCHANGED <<file, ranSoFar, orphans, stalePairs, lost>>

\* The refresh token is used up, without another look at it.
Rotate(c) ==
  /\ AtPoint(c, "rotate")
  /\ Issue(c, commands[c].mine.pair, "work")
  /\ rotated' = rotated \cup {commands[c].mine.pair}
  /\ UNCHANGED <<file, ranSoFar, orphans, stalePairs, lost>>

\* It is used up, and the insertion of the new pair fails: the command goes on with the
\* token it has, and the file keeps a refresh token that is good for nothing.
RotateFails(c) ==
  /\ AtPoint(c, "rotate") /\ Continue(c, "work")
  /\ rotated' = rotated \cup {commands[c].mine.pair}
  /\ orphans' = orphans \cup {commands[c].mine.pair}
  /\ UNCHANGED <<file, ranSoFar, parents, stalePairs, lost>>

\* CliConfig::save: the file is cut to nothing ...
Truncate(c) ==
  /\ AtPoint(c, "save")
  /\ file' = Unreadable /\ Continue(c, "write")
  /\ UNCHANGED <<ranSoFar, parents, rotated, orphans, stalePairs, lost>>

Losing(c) == IF commands[c].mine.kind = "tokens" THEN {commands[c].mine.pair} ELSE {}

\* ... and written.  Two writers can leave one another's file, or a mix that does
\* not parse; a file that was removed meanwhile stays so.
Write(c) ==
  /\ AtPoint(c, "write") /\ Continue(c, commands[c].next)
  /\ \/ file # NoLogin /\ file' = commands[c].mine
     \/ file # Unreadable /\ file' = file
     \/ file \notin {NoLogin, Unreadable} /\ file' = Unreadable
  /\ lost' = IF file' = commands[c].mine THEN lost ELSE lost \cup Losing(c)
  /\ UNCHANGED <<ranSoFar, parents, rotated, orphans, stalePairs>>

\* The answer with the tokens does not arrive, or the file cannot be opened: a
\* command goes on without, a login asks for a key.
SaveFails(c) ==
  /\ AtPoint(c, "save") /\ lost' = lost \cup Losing(c)
  /\ IF commands[c].next = "work" \/ commands[c].mine = WithKey
     THEN Continue(c, commands[c].next) ELSE Continue(c, "prompt")
  /\ UNCHANGED <<file, ranSoFar, parents, rotated, orphans, stalePairs>>

-----------------------------------------------------------------------------
(* What commands do.                                                        *)

FinishWork(c) ==
  /\ AtPoint(c, "work") /\ End(c)
  /\ UNCHANGED <<file, ranSoFar, parents, rotated, orphans, stalePairs, lost>>

\* handle_login_oauth: a listener, a registered client, a browser; or, with
\* --api-key, the prompt at once.
Login(c) ==
  /\ AtPoint(c, "work")
  /\ \E point \in {"browser", "prompt"} : Continue(c, point)
  /\ UNCHANGED <<file, ranSoFar, parents, rotated, orphans, stalePairs, lost>>

\* The listener takes one connection.  If it is not the redirect with the code and
\* the state, or none comes for five minutes, the browser login fails.
TakeCallback(c) ==
  /\ AtPoint(c, "browser")
  /\ \E point \in {"exchange", "prompt"} : Continue(c, point)
  /\ UNCHANGED <<file, ranSoFar, parents, rotated, orphans, stalePairs, lost>>

ExchangeCode(c) ==
  /\ AtPoint(c, "exchange")
  /\ \/ Issue(c, 0, "ready")
     \/ Continue(c, "prompt") /\ UNCHANGED parents
  /\ UNCHANGED <<file, ranSoFar, rotated, orphans, stalePairs, lost>>

\* handle_login_api_key: nothing is changed unless a key was entered and the server
\* answered.
EnterKey(c) ==
  /\ AtPoint(c, "prompt")
  /\ \/ commands' = [commands EXCEPT ![c] = [at |-> "save", mine |-> WithKey, next |-> "ready"]]
     \/ End(c)
  /\ UNCHANGED <<file, ranSoFar, parents, rotated, orphans, stalePairs, lost>>

\* handle_logout: the file is removed.
Logout(c) ==
  /\ AtPoint(c, "work") /\ End(c)
  /\ file' = NoLogin
  /\ UNCHANGED <<ranSoFar, parents, rotated, orphans, stalePairs, lost>>

\* Ctrl-C.  A save that was under way leaves the file cut.
Interrupt(c) ==
  /\ ~AtPoint(c, "ready") /\ End(c)
  /\ lost' = IF commands[c].at \in {"save", "write"} THEN lost \cup Losing(c) ELSE lost
  /\ UNCHANGED <<file, ranSoFar, parents, rotated, orphans, stalePairs>>

ExpireAccess ==
  /\ Pairs \ stalePairs # {} /\ stalePairs' = Pairs
  /\ UNCHANGED <<file, commands, ranSoFar, parents, rotated, orphans, lost>>

CliNext ==
  \/ \E c \in Terminals :
       \/ StartCommand(c) \/ AskRefresh(c) \/ Rotate(c) \/ RotateFails(c) \/ Truncate(c)
       \/ Write(c) \/ SaveFails(c) \/ FinishWork(c) \/ Login(c) \/ TakeCallback(c) \/ ExchangeCode(c)
       \/ EnterKey(c) \/ Logout(c) \/ Interrupt(c)
  \/ ExpireAccess

CliSpec == CliInit /\ [][CliNext]_cliVars

-----------------------------------------------------------------------------
(* Properties.                                                              *)

CliTypeOK ==
  /\ file \in Configs /\ ranSoFar \in 0 .. MaxCommands
  /\ commands \in [Terminals -> Command]
  /\ Len(parents) <= MaxPairs /\ \A n \in Pairs : parents[n] \in 0 .. n - 1
  /\ rotated \subseteq Pairs /\ orphans \subseteq rotated /\ stalePairs \subseteq Pairs /\ lost \subseteq Pairs

\* However commands overlap, the login in the file can be refreshed: a refresh token
\* there that was used up has a successor which a running command is about to
\* write, or which was lost on its way to the file, or the server failed between using
\* it up and issuing one.
FileFollowsRotation ==
  file.pair \in rotated =>
    \/ file.pair \in orphans
    \/ \E n \in Pairs :
         /\ parents[n] = file.pair
         /\ n \in lost \/ \E c \in Terminals :
              commands[c].at \in {"save", "write"} /\ commands[c].mine = WithTokens(n)

=============================================================================
