--------------------------- MODULE MCTimedDispatch ---------------------------
(* Instances of TimedDispatch for TLC. *)
EXTENDS TimedDispatch, TLC

CONSTANTS w1, w2

WorkerSymmetry == Permutations(Workers)

\* A task of every few hours, one of every minute.
TwoPlans == {{1, 6}, {1, 2, 3}}

=============================================================================
