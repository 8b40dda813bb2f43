------------------------------ MODULE UrlLedger -----------------------------
(***************************************************************************)
(* What a frontier promises: per job, a URL is accepted at most once, and  *)
(* an accepted URL is either handed on once or dropped, never both, and    *)
(* never comes back.  Frontier implements this module; its bounded queue   *)
(* and its failing publishes are the drops.                                *)
(***************************************************************************)
CONSTANTS Jobs, Keys

VARIABLES accepted, handedOn, dropped

vars == <<accepted, handedOn, dropped>>

Urls == Jobs \X Keys

Open == accepted \ (handedOn \cup dropped)

Init == accepted = {} /\ handedOn = {} /\ dropped = {}

\* Accepting a URL may make room for it by dropping an open one, or drop it.
Accept(u, out) ==
  /\ u \notin accepted
  /\ accepted' = accepted \cup {u}
  /\ out \subseteq Open \cup {u}
  /\ dropped' = dropped \cup out
  /\ UNCHANGED handedOn

HandOn(u) ==
  /\ u \in Open
  /\ handedOn' = handedOn \cup {u}
  /\ UNCHANGED <<accepted, dropped>>

Drop(out) ==
  /\ out \subseteq Open
  /\ dropped' = dropped \cup out
  /\ UNCHANGED <<accepted, handedOn>>

Next ==
  \/ \E u \in Urls : HandOn(u) \/ \E out \in SUBSET (Open \cup {u}) : Accept(u, out)
  \/ \E out \in SUBSET Open : Drop(out)

Spec == Init /\ [][Next]_vars

=============================================================================
