------------------------- MODULE MCResourceBudget -------------------------
(* Small instances of ResourceBudget for TLC.                              *)
EXTENDS ResourceBudget

(* A demand that fills a dimension, two that fit together in one dimension *)
(* but not in the other, and a resident-memory demand without CPU slots.   *)
MCDemands == {[cpu |-> 2, memory |-> 1], [cpu |-> 1, memory |-> 2], [cpu |-> 0, memory |-> 1]}
=============================================================================
