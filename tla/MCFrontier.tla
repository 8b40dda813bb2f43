----------------------------- MODULE MCFrontier -----------------------------
(***************************************************************************)
(* Instances of Frontier for TLC.                                          *)
(***************************************************************************)
EXTENDS Frontier, TLC

CONSTANTS j1, j2, a, b, c, d, d1, d2

Msg(job, key, depth, priority, maxDepth, maxPages) ==
  [job |-> job, key |-> key, depth |-> depth, priority |-> priority,
   limits |-> [depth |-> maxDepth, pages |-> maxPages]]

\* a and b share a domain, c and d another one.
TwoDomains == a :> d1 @@ b :> d1 @@ c :> d2

FourPages == TwoDomains @@ d :> d2

\* One job with a page cap: a seed, pages one and two links deep (one of them
\* reached by two routes), and a message without limits, as the crawler's
\* sitemap discovery publishes them.
CappedMessages ==
  { Msg(j1, a, 0, 0, 1, 1), Msg(j1, b, 1, 0, 1, 1), Msg(j1, b, 2, 0, 1, 1),
    Msg(j1, c, 1, 1, NoLimit, NoLimit), Msg(j1, d, 1, 0, 1, 1) }

\* Two jobs that share the channel and a domain.
TwoJobMessages ==
  { Msg(j1, a, 0, 0, NoLimit, 1), Msg(j1, c, 1, 0, NoLimit, 1),
    Msg(j2, b, 0, 0, NoLimit, NoLimit), Msg(j2, a, 1, 0, NoLimit, NoLimit) }

=============================================================================
