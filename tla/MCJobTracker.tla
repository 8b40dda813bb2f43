---------------------------- MODULE MCJobTracker ----------------------------
(***************************************************************************)
(* JobTracker for TLC, in one of two regimes: two jobs of a server that is *)
(* never restarted, or one job and restarts.                               *)
(***************************************************************************)
EXTENDS JobTracker, FiniteSetsExt

CONSTANTS j1, j2

VARIABLE regime

allVars == <<vars, regime>>

MCInit == Init /\ regime \in {"pair", "restarts"}

\* The bounds of the two regimes.
InRegime ==
  LET sent == MapThenSumSet(LAMBDA j : events'[j], Jobs)
  IN  /\ regime = "pair" => restarts' = 0 /\ rejoins' = 0 /\ sent <= 1
      /\ regime = "restarts" => requests'[j2] = "none" /\ sent + restarts' + 2 * rejoins' <= 3

MCNext == Next /\ InRegime /\ regime' = regime

MCSpec ==
  /\ MCInit /\ [][MCNext]_allVars
  /\ \A j \in Jobs : WF_allVars(GoIdle(j) /\ InRegime /\ regime' = regime)
  /\ WF_allVars(IdleDetector /\ InRegime /\ regime' = regime)

=============================================================================
