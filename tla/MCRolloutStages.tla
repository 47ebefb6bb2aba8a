---------------------------- MODULE MCRolloutStages ----------------------------
(* RolloutStages on a small instance: two operators, two possible presses.     *)
EXTENDS RolloutStages, TLC

CONSTANTS o1, o2, p1, p2

MCDefault == [mode |-> "advisory", allow_block |-> FALSE, enforced |-> {}]

Symmetry == Permutations(Operators) \cup Permutations(Presses)
=============================================================================
