---------------------------- MODULE PolicyDecision ----------------------------
(***************************************************************************)
(* What GitHub is told about a verification result: policy/decision.py,    *)
(* the effective policy of a repository (enforcement/stages.py), and the   *)
(* conclusion of its check (advisory/checks.py).  A category stands for a  *)
(* RequirementCategory; a requirement without one has category NoCategory. *)
(***************************************************************************)
EXTENDS Naturals

CONSTANTS
    Categories,   \* RequirementCategory
    NoCategory    \* the category of a requirement that has none

ASSUME CategoryAssumption == NoCategory \notin Categories

\* OperatingMode, in the order of enforcement/stages.py STAGES.
Modes == {"observe", "advisory", "human_review", "enforcement"}

StageIndex(mode) ==
    CASE mode = "observe"      -> 0
      [] mode = "advisory"     -> 1
      [] mode = "human_review" -> 2
      [] mode = "enforcement"  -> 3

Actions     == {"ALLOW", "WARN", "HUMAN_REVIEW", "BLOCK"}
Verdicts    == {"SATISFIED", "PARTIALLY_SATISFIED", "NOT_SATISFIED", "UNCERTAIN"}
Confidences == {"HIGH", "MEDIUM", "LOW"}

\* PolicyConfig and its validator: allow_block needs mode enforcement.
PolicyConfigs ==
    {p \in [mode : Modes, allow_block : BOOLEAN, enforced : SUBSET Categories] :
        p.allow_block => p.mode = "enforcement"}

\* A VerificationResult, as far as the policy looks at it: `failed` holds the
\* categories of its NOT_SATISFIED requirements.
VerificationResults ==
    [verdict : Verdicts, confidence : Confidences, failed : SUBSET (Categories \cup {NoCategory})]

\* A RepositoryPolicy row.
PolicyRows == [stage : Modes, categories : SUBSET Categories]

-----------------------------------------------------------------------------
\* _recommend
Recommend(result) ==
    LET strong == result.confidence \in {"HIGH", "MEDIUM"}
    IN  CASE result.verdict = "SATISFIED" /\ strong     -> "ALLOW"
          [] result.verdict = "NOT_SATISFIED" /\ strong -> "BLOCK"
          [] OTHER                                      -> "HUMAN_REVIEW"

\* _all_enforced
AllEnforced(result, enforced) == result.failed # {} /\ result.failed \subseteq enforced

MayBlock(result, policy) ==
    /\ policy.allow_block
    /\ policy.mode = "enforcement"
    /\ AllEnforced(result, policy.enforced)

\* decide: the recommendation, with a BLOCK downgraded unless every lock is open,
\* and a warning turned into a request for review in the human_review stage.
Decide(result, policy) ==
    LET recommended == Recommend(result)
        action == IF recommended = "BLOCK" /\ ~MayBlock(result, policy)
                  THEN "WARN" ELSE recommended
    IN  IF policy.mode = "human_review" /\ action \in {"WARN", "BLOCK"}
        THEN "HUMAN_REVIEW" ELSE action

-----------------------------------------------------------------------------
\* Faulty variant: the row's categories are not cut to the eligible ones.
OptedInPolicyUncut(row, default, eligible) ==
    IF row.stage = "enforcement"
    THEN [mode |-> row.stage, allow_block |-> default.allow_block, enforced |-> row.categories]
    ELSE [mode |-> row.stage, allow_block |-> FALSE, enforced |-> {}]

\* Faulty variant: allow_block is passed on whatever the stage.
OptedInPolicyUnlocked(row, default, eligible) ==
    [mode |-> row.stage, allow_block |-> default.allow_block,
     enforced |-> row.categories \cap eligible]

\* effective_policy for a repository with a row
OptedInPolicy(row, default, eligible) ==
    IF row.stage = "enforcement"
    THEN [mode |-> row.stage, allow_block |-> default.allow_block,
          enforced |-> row.categories \cap eligible]
    ELSE [mode |-> row.stage, allow_block |-> FALSE, enforced |-> {}]

\* effective_policy for one without: the global default, at most human_review
ImplicitPolicy(default) ==
    [mode |-> IF default.mode = "enforcement" THEN "human_review" ELSE default.mode,
     allow_block |-> FALSE, enforced |-> {}]

-----------------------------------------------------------------------------
\* conclusion_for: `actions` holds the audited action of every row of the check.
ConclusionFor(actions, policy) ==
    IF policy.mode = "enforcement" /\ policy.allow_block /\ "BLOCK" \in actions
    THEN "failure" ELSE "neutral"
=============================================================================
