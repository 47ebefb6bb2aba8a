------------------------------ MODULE RuleBase ------------------------------
(***************************************************************************)
(* What every rule returns and how the rules' results become one verdict    *)
(* per request (rules/base.py, rules/__init__.py).                          *)
(***************************************************************************)
EXTENDS CodeAnalysis

Statuses == {"satisfied", "not_satisfied", "inconclusive"}

\* already: satisfied by code that predates the comment.
Outcome(status, already) == [status |-> status, already |-> already]
Satisfied(already) == Outcome("satisfied", already)
NotSatisfied == Outcome("not_satisfied", FALSE)
Inconclusive == Outcome("inconclusive", FALSE)
=============================================================================
