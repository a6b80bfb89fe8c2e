------------------------- MODULE MCFederationOutbox -------------------------
(* Model values for FederationOutbox.                                       *)
EXTENDS OutboxRefinement, TLC

(* The schedule 30, 60, 120 ... of the worker, as one tick per failure.     *)
OneTick == [n \in 1 .. MaxAttempts |-> 1]

Symmetry == Permutations(Workers) \cup Permutations(RowIds)
                \cup Permutations(Handlers)
=============================================================================
