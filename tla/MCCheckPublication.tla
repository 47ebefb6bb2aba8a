--------------------------- MODULE MCCheckPublication ---------------------------
(* CheckPublication on small instances: threads that are fine or fail a        *)
(* requirement, a global configuration that allows blocking, and a repository  *)
(* that starts without an opt-in, in human review, or enforcing.               *)
EXTENDS CheckPublication, TLC

CONSTANTS naming, w1, w2, c1, c2

Fine == [verdict |-> "SATISFIED", confidence |-> "MEDIUM", failed |-> {}]
Fails(failed) == [verdict |-> "NOT_SATISFIED", confidence |-> "MEDIUM", failed |-> failed]

MCResults == {Fine, Fails({naming})}
MCDefault == [mode |-> "enforcement", allow_block |-> TRUE, enforced |-> {}]
MCInitialRows == {None, [stage |-> "human_review", categories |-> {}],
                  [stage |-> "enforcement", categories |-> {naming}]}

\* One job at a time: any other stage is one change away.
MCSerialRows == {[stage |-> "human_review", categories |-> {}]}

\* The runs check no liveness property, so workers and threads are interchangeable.
Symmetry == Permutations(Workers) \cup Permutations(Comments)
=============================================================================
