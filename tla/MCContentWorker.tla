--------------------------- MODULE MCContentWorker ---------------------------
(***************************************************************************)
(* The content worker with the pages of two accounts.  The first page and  *)
(* the last are split into blocks; the second goes to another index than   *)
(* the first, on the same engine; the last resembles the first.            *)
(***************************************************************************)
EXTENDS ContentWorker

CONSTANTS e1, e2, i1, i2

MCPages == <<[engine |-> e1, index |-> i1, docs |-> 3, near |-> FALSE],
             [engine |-> e1, index |-> i2, docs |-> 1, near |-> FALSE],
             [engine |-> e2, index |-> i1, docs |-> 2, near |-> TRUE]>>

=============================================================================
