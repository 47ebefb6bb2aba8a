---------------------------- MODULE Verification ----------------------------
(***************************************************************************)
(* From evidence to a verdict: the aggregators, the gates around them, and *)
(* the pipelines made of them (verification/*.py).                         *)
(***************************************************************************)
EXTENDS Evidence

X == INSTANCE Extraction

\* categories: whether the statuses carry their requirement's category.
Decision(verdict, confidence, statuses) ==
  [verdict |-> verdict, confidence |-> confidence, statuses |-> statuses]

\* cites: the kinds of the evidence a status refers to.
Status(verdict, category, cites) == [verdict |-> verdict, category |-> category, cites |-> cites]

Kinds(evidence) == {e.kind : e \in evidence}
KindsOf(evidence, reqs) == Kinds({e \in evidence : e.req \in reqs})

PassedKind(evidence, kind) == \E e \in evidence : e.kind = kind /\ e.passed = {TRUE}

-----------------------------------------------------------------------------
(***************************************************************************)
(* The aggregators.                                                        *)
(***************************************************************************)
\* The baselines: changed there, or tests changed, is satisfied.
Baseline(set, evidence, target, file) ==
  LET unavailable == "code_unavailable" \in Kinds(evidence)
      there == PassedKind(evidence, target) \/ PassedKind(evidence, "tests_changed")
      verdict == IF unavailable THEN "UNCERTAIN" ELSE IF there THEN "SATISFIED" ELSE "NOT_SATISFIED"
      sure == ~unavailable /\ ~there /\ ~PassedKind(evidence, file)
  IN  Decision(verdict, IF sure THEN "MEDIUM" ELSE "LOW",
               [k \in DOMAIN set.requirements |-> Status(verdict, None, KindsOf(evidence, {k, 0}))])

LocalityAggregator(case, set, evidence) ==
  Baseline(set, evidence, "change_near_target", "file_changed")

StructuralAggregator(case, set, evidence) ==
  Baseline(set, evidence, "target_changed_structurally", "file_changed_structurally")

VerdictOf(passed) ==
  IF passed = {TRUE} THEN "SATISFIED" ELSE IF passed = {FALSE} THEN "NOT_SATISFIED" ELSE "UNCERTAIN"

Overall(found) ==
  IF {"NOT_SATISFIED", "SATISFIED"} \subseteq found THEN "PARTIALLY_SATISFIED"
  ELSE IF "NOT_SATISFIED" \in found THEN "NOT_SATISFIED"
  ELSE IF "UNCERTAIN" \in found THEN "UNCERTAIN" ELSE "SATISFIED"

\* Faulty variant: one status per result, and none when there are none.
RuleAggregatorOfResults(case, set, evidence) ==
  LET results == {e \in evidence : e.kind = "rule_result"}
      statuses == [k \in {e.req : e \in results} |->
                     Status(VerdictOf(UNION {e.passed : e \in {f \in results : f.req = k}}),
                            None, {"rule_result"})]
      found == {statuses[k].verdict : k \in DOMAIN statuses}
  IN  Decision(IF results = {} THEN "UNCERTAIN" ELSE Overall(found), "LOW", statuses)

\* Faulty variant: every item about a requirement counts, whatever its kind.
RuleAggregatorOfAnyItem(case, set, evidence) ==
  LET verdict(k) == VerdictOf(UNION {e.passed : e \in {f \in evidence : f.req = k}})
      statuses == [k \in DOMAIN set.requirements |-> Status(verdict(k), None, {})]
      found == {statuses[k].verdict : k \in DOMAIN statuses}
  IN  Decision(Overall(found), IF "UNCERTAIN" \in found THEN "LOW" ELSE "MEDIUM", statuses)

RuleAggregator(case, set, evidence) ==
  LET result(k) == {e \in evidence : e.kind = "rule_result" /\ e.req = k}
      none == "rule_result" \notin Kinds(evidence)
      undecided == "code_unavailable" \in Kinds(evidence) \/ none
      verdict(k) == IF undecided THEN "UNCERTAIN" ELSE VerdictOf(UNION {e.passed : e \in result(k)})
      statuses == [k \in DOMAIN set.requirements |->
                     Status(verdict(k), set.requirements[k].category, KindsOf(evidence, {k}))]
      found == {statuses[k].verdict : k \in DOMAIN statuses}
  IN  Decision(IF undecided THEN "UNCERTAIN" ELSE Overall(found),
               IF "UNCERTAIN" \in found THEN "LOW" ELSE "MEDIUM", statuses)

-----------------------------------------------------------------------------
(***************************************************************************)
(* The gates.  inner is the decision they wrap.                            *)
(***************************************************************************)
Score(set) == IF set.ambiguity = NoScore THEN 0 ELSE set.ambiguity

\* An unclear request is not verified.
AmbiguityGate(set, evidence, inner) ==
  IF set.actionable /\ Score(set) < X!AmbiguityThreshold THEN inner
  ELSE Decision("UNCERTAIN", "LOW",
         [k \in DOMAIN set.requirements |->
            Status("UNCERTAIN", set.requirements[k].category,
                   Kinds(evidence) \cap {"requirements_extracted", "requirement_ambiguity"})])

UnreliableWindow ==
  {"history_rewritten", "ordered_by_timestamp", "ambiguous_rewritten_commits",
   "before_code_unavailable", "anchor_not_found", "commit_list_truncated",
   "changed_files_from_whole_pr"}

BorderlineAmbiguity == X!AmbiguityThreshold \div 2

Unreliable(case, set, evidence) ==
  \/ case.flags \cap UnreliableWindow # {}
  \/ "parse_error" \in Kinds(evidence)
  \/ Score(set) \in BorderlineAmbiguity..(X!AmbiguityThreshold - 1)

\* Faulty variant: only a satisfied verdict is made less sure.
ReliabilityOfSatisfied(case, set, evidence, inner) ==
  IF Unreliable(case, set, evidence) /\ inner.verdict = "SATISFIED"
  THEN [inner EXCEPT !.confidence = "LOW"] ELSE inner

\* Confidence is only ever lowered.
ReliabilityAdjusted(case, set, evidence, inner) ==
  IF Unreliable(case, set, evidence) THEN [inner EXCEPT !.confidence = "LOW"] ELSE inner

-----------------------------------------------------------------------------
(***************************************************************************)
(* The pipelines.                                                          *)
(***************************************************************************)
WholeCommentRequirement ==
  [requirements |-> <<X!Draft("other", None, <<>>)>>, actionable |-> TRUE, ambiguity |-> NoScore]

Pipelines == {"phase2-locality", "phase3-structure", "phase4-requirements",
              "phase5-rules", "mvp", "phase7-semantic"}

Gated == Pipelines \ {"phase2-locality", "phase3-structure"}
RuleBased == Gated \ {"phase4-requirements"}
Adjusted == RuleBased \ {"phase5-rules"}

RequirementStage(pipeline, case) ==
  IF pipeline \in Gated THEN X!ExtractRequirements(case.comment) ELSE WholeCommentRequirement

EvidenceStages(pipeline, case, set) ==
  IF pipeline = "phase2-locality" THEN LocalityEvidence(case, set)
  ELSE (IF pipeline \in Gated THEN RequirementEvidence(case, set) ELSE {})
         \cup StructuralEvidence(case, set) \cup ChangedTestsEvidence(case, set)
         \cup (IF pipeline \in RuleBased THEN RuleEvidence(case, set) ELSE {})
         \cup (IF pipeline = "phase7-semantic" THEN SemanticEvidence(case, set) ELSE {})

Aggregate(pipeline, case, set, evidence) ==
  LET inner == CASE pipeline = "phase2-locality" -> LocalityAggregator(case, set, evidence)
                 [] pipeline \in RuleBased -> RuleAggregator(case, set, evidence)
                 [] OTHER -> StructuralAggregator(case, set, evidence)
      adjusted == IF pipeline \in Adjusted
                  THEN ReliabilityAdjusted(case, set, evidence, inner) ELSE inner
  IN  IF pipeline \in Gated THEN AmbiguityGate(set, evidence, adjusted) ELSE adjusted

\* Pipeline.run, stage by stage.
Judged(pipeline, case, set, evidence) ==
  [pipeline |-> pipeline, set |-> set, evidence |-> evidence,
   decision |-> Aggregate(pipeline, case, set, evidence)]

RunOn(pipeline, case, set) == Judged(pipeline, case, set, EvidenceStages(pipeline, case, set))

Run(pipeline, case) == RunOn(pipeline, case, RequirementStage(pipeline, case))

\* What the policy looks at in a result.
PolicyView(decision) ==
  [verdict |-> decision.verdict, confidence |-> decision.confidence,
   failed |-> {decision.statuses[k].category :
                 k \in {j \in DOMAIN decision.statuses :
                          decision.statuses[j].verdict = "NOT_SATISFIED"}}]
=============================================================================
