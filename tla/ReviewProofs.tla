---------------------------- MODULE ReviewProofs ----------------------------
(***************************************************************************)
(* Proofs about the verification of review comments, for any comment, any  *)
(* code, any tests and any edits of them.                                  *)
(*                                                                         *)
(* A result is a function of the case, and is dropped when the case        *)
(* changes; so the theorems are about Run, and follow the stages of the    *)
(* pipeline backwards, from a verdict to the evidence it needs.            *)
(***************************************************************************)
EXTENDS CaseProofs

-----------------------------------------------------------------------------
(***************************************************************************)
(* The steps of reviewer, author and pipelines.                            *)
(***************************************************************************)
\* A case with its code, its tests or its sentences replaced is a case.
LEMMA CaseWith ==
  ASSUME NEW c, IsCase(c)
  PROVE  /\ \A code : IsCode(code) => IsCase([c EXCEPT !.after = code])
         /\ \A tests : IsCase([c EXCEPT !.tests = tests])
         /\ \A s : IsSequence(s) /\ (\A i \in DOMAIN s : IsSentence(s[i])) =>
                   IsCase([c EXCEPT !.comment.sentences = s])
<1>1. /\ DOMAIN c = {"comment", "before", "after", "anchor", "tests", "testsBefore",
                     "fetched", "broken", "flags", "known"}
      /\ DOMAIN c.comment = {"sentences", "suggestions"} /\ IsSequence(c.comment.suggestions)
      /\ IsComment(c.comment) /\ IsCode(c.after)
  BY DEF IsCase, IsComment
<1>2. ASSUME NEW code, IsCode(code)
      PROVE  IsCase([c EXCEPT !.after = code])
  BY <1>1, <1>2 DEF IsCase
<1>3. ASSUME NEW tests
      PROVE  IsCase([c EXCEPT !.tests = tests])
  BY <1>1, <1>3 DEF IsCase
<1>4. ASSUME NEW s, IsSequence(s), \A i \in DOMAIN s : IsSentence(s[i])
      PROVE  IsCase([c EXCEPT !.comment.sentences = s])
  <2> DEFINE d == [c EXCEPT !.comment.sentences = s]
  <2>1. /\ DOMAIN d = DOMAIN c /\ d.after = c.after /\ d.known = c.known
        /\ d.comment = [c.comment EXCEPT !.sentences = s]
    BY <1>1
  <2>2. /\ DOMAIN d.comment = DOMAIN c.comment /\ d.comment.sentences = s
        /\ d.comment.suggestions = c.comment.suggestions
    BY <1>1, <2>1
  <2> HIDE DEF d
  <2>3. IsComment(d.comment)
    BY <1>1, <1>4, <2>2 DEF IsComment
  <2>4. IsCase(d)
    <3>1. DOMAIN c.known = {"helpers", "models", "flags", "fixtures", "ownWords", "handlers",
                            "handlersBefore", "span"}
      BY DEF IsCase
    <3> QED
      BY <1>1, <2>1, <2>3, <3>1 DEF IsCase
  <2> QED
    BY <2>4 DEF d
<1> QED
  BY <1>2, <1>3, <1>4

\* What the reviewer adds leaves a case.
LEMMA WordsStep ==
  ASSUME name \in DOMAIN Starts, IsCase(case), AddWords
  PROVE  \E c : IsCase(c) /\ Edit(c)
<1> DEFINE sentences == case.comment.sentences
           last == Len(sentences)
<1>1. PICK s \in Words[name], signals \in {{}, {"question"}, {"hedged"}} :
        \/ Edit([case EXCEPT !.comment.sentences = Append(@, X!Sentence(<<s>>, signals))])
        \/ /\ last > 0 /\ signals = {}
           /\ Edit([case EXCEPT !.comment.sentences[last].segments = Append(@, s)])
  BY DEF AddWords
<1>2. /\ IsSequence(sentences) /\ Len(sentences) \in Nat /\ DOMAIN sentences = 1..Len(sentences)
      /\ \A i \in DOMAIN sentences : IsSentence(sentences[i])
  BY DEF IsCase, IsComment, IsSequence
<1>3. IsSegment(s)
  BY StartsAssumption
<1>4. CASE Edit([case EXCEPT !.comment.sentences = Append(@, X!Sentence(<<s>>, signals))])
  <2> DEFINE said == X!Sentence(<<s>>, signals)
             new == Append(sentences, said)
  <2>1. [case EXCEPT !.comment.sentences = Append(@, X!Sentence(<<s>>, signals))]
          = [case EXCEPT !.comment.sentences = new]
    OBVIOUS
  <2>2. IsSentence(said)
    <3>1. IsSequence(<<s>>) /\ <<s>> # <<>> /\ DOMAIN <<s>> = {1} /\ <<s>>[1] = s
      BY DEF IsSequence, ToSet
    <3>2. said.segments = <<s>> /\ DOMAIN said = {"segments", "signals"}
      BY DEF X!Sentence
    <3> QED
      BY <1>3, <3>1, <3>2 DEF IsSentence
  <2> HIDE DEF said
  <2>3. IsSequence(new) /\ \A i \in DOMAIN new : IsSentence(new[i])
    BY <1>2, <2>2, SequenceExtended
  <2> HIDE DEF new
  <2> QED
    BY <1>4, <2>1, <2>3, CaseWith
<1>5. CASE /\ last > 0
           /\ Edit([case EXCEPT !.comment.sentences[last].segments = Append(@, s)])
  <2> DEFINE e == [sentences[last] EXCEPT !.segments = Append(@, s)]
             new == [sentences EXCEPT ![last] = e]
  <2>1. [case EXCEPT !.comment.sentences[last].segments = Append(@, s)]
          = [case EXCEPT !.comment.sentences = new]
    OBVIOUS
  <2>2. last \in DOMAIN sentences
    BY <1>2, <1>5
  <2>3. IsSentence(e)
    <3> DEFINE old == sentences[last].segments
               longer == Append(old, s)
    <3>1. /\ DOMAIN sentences[last] = {"segments", "signals"} /\ IsSequence(old)
          /\ \A i \in DOMAIN old : IsSegment(old[i])
      BY <1>2, <2>2 DEF IsSentence
    <3>2. e.segments = longer /\ DOMAIN e = {"segments", "signals"}
      BY <3>1
    <3> HIDE DEF old
    <3>3. /\ IsSequence(longer) /\ longer # <<>>
          /\ \A i \in DOMAIN longer : IsSegment(longer[i])
      BY <1>3, <3>1, SequenceExtended
    <3> HIDE DEF longer, e
    <3> QED
      BY <3>2, <3>3 DEF IsSentence
  <2> HIDE DEF e
  <2>4. IsSequence(new) /\ \A i \in DOMAIN new : IsSentence(new[i])
    BY <1>2, <2>2, <2>3, SequenceChanged
  <2> HIDE DEF new
  <2> QED
    BY <1>5, <2>1, <2>4, CaseWith
<1> QED
  BY <1>1, <1>4, <1>5

\* What the author adds, deletes, wraps or tests leaves a case.
LEMMA CodeStep ==
  ASSUME name \in DOMAIN Starts, IsCase(case),
         InsertCode \/ DeleteCode \/ WrapCode \/ AddTest \/ DeleteTest
  PROVE  \E c : IsCase(c) /\ Edit(c)
<1> DEFINE code == case.after
<1>1. IsCode(code) /\ DOMAIN code = 1..Len(code) /\ Len(code) \in Nat
  BY LinesOfCode DEF IsCase, IsCode
<1>2. CASE InsertCode
  <2>1. PICK fragment \in Fragments[name], p \in 1..(Len(code) + 1), u \in 0..Len(code) :
          /\ Fits(code, p, u)
          /\ Edit([case EXCEPT !.after = Inserted(@, p, u, fragment)])
    BY <1>2 DEF InsertCode
  <2>2. u \in 0..(p - 1)
    <3>1. u = 0 \/ (p - 1 \in 1..Len(code) /\ u \in Around(code)[p - 1])
      BY <1>1, <2>1 DEF Fits
    <3>2. p - 1 \in 1..Len(code) => Around(code)[p - 1] \subseteq 1..(p - 1)
      BY <1>1, AroundLines
    <3> QED
      BY <1>1, <3>1, <3>2
  <2> DEFINE outer == IF u = 0 THEN "def" ELSE code[u].kind
  <2>3. outer \in Compound /\ IsCodeIn(fragment, outer)
    <3>1. outer \in Compound
      BY <2>1 DEF Fits, Compound
    <3>2. IsCode(fragment)
      BY StartsAssumption
    <3> HIDE DEF outer
    <3> QED
      BY <3>1, <3>2, CodeWithin
  <2>4. IsCode(Inserted(code, p, u, fragment))
    <3>1. outer = IF u = 0 THEN "def" ELSE code[u].kind
      OBVIOUS
    <3> HIDE DEF outer
    <3> QED
      BY <1>1, <2>2, <2>3, <3>1, CodeInserted
  <2>5. [case EXCEPT !.after = Inserted(@, p, u, fragment)]
          = [case EXCEPT !.after = Inserted(code, p, u, fragment)]
    OBVIOUS
  <2> QED
    BY <2>1, <2>4, <2>5, CaseWith
<1>3. CASE DeleteCode
  <2>1. PICK i \in DOMAIN code : Edit([case EXCEPT !.after = Removed(@, i)])
    BY <1>3 DEF DeleteCode
  <2>2. IsCode(Removed(code, i))
    BY <1>1, RestIsCode DEF Removed
  <2>3. [case EXCEPT !.after = Removed(@, i)] = [case EXCEPT !.after = Removed(code, i)]
    OBVIOUS
  <2> QED
    BY <2>1, <2>2, <2>3, CaseWith
<1>4. CASE WrapCode
  <2>1. PICK wrapper \in Wrappers[name], i \in DOMAIN code :
          /\ code[i].kind \notin Clauses
          /\ Edit([case EXCEPT !.after = Wrapped(@, i, wrapper)])
    BY <1>4 DEF WrapCode
  <2>2. /\ IsCode(<<wrapper.head>>) /\ wrapper.head.kind \in Compound
        /\ IsCodeIn(wrapper.tail, wrapper.head.kind)
    BY StartsAssumption
  <2>3. IsCode(Wrapped(code, i, wrapper))
    BY <1>1, <2>1, <2>2, CodeWrapped
  <2>4. [case EXCEPT !.after = Wrapped(@, i, wrapper)]
          = [case EXCEPT !.after = Wrapped(code, i, wrapper)]
    OBVIOUS
  <2> QED
    BY <2>1, <2>3, <2>4, CaseWith
<1>5. CASE AddTest \/ DeleteTest
  <2>1. \E tests : Edit([case EXCEPT !.tests = tests])
    BY <1>5 DEF AddTest, DeleteTest
  <2> QED
    BY <2>1, CaseWith
<1> QED
  BY <1>2, <1>3, <1>4, <1>5

\* Cases that can be, and a result, if any, of the case as it stands.
Counted == name \in DOMAIN Starts /\ edits \in 0..MaxEdits[name]

Verified == result # <<>> => \E p \in Pipelines : result = <<Run(p, case)>>

ReviewInv == Counted /\ IsCase(case) /\ Verified

\* Every review starts with a case, unverified.
LEMMA InitReview == Init => ReviewInv
<1> SUFFICES ASSUME Init
             PROVE  ReviewInv
  OBVIOUS
<1>1. IsCase(Starts[name]) /\ MaxEdits[name] \in Nat
  BY StartsAssumption DEF Init
<1> QED
  BY <1>1 DEF Init, ReviewInv, Counted, Verified

\* No step of reviewer, author or pipeline leaves a result of another case.
LEMMA ReviewStep == ReviewInv /\ [Next]_vars => ReviewInv'
<1> SUFFICES ASSUME ReviewInv, [Next]_vars
             PROVE  ReviewInv'
  OBVIOUS
<1>1. ASSUME NEW c, IsCase(c), Edit(c)
      PROVE  ReviewInv'
  <2>1. /\ case' = c /\ result' = <<>> /\ name' = name
        /\ edits < MaxEdits[name] /\ edits' = edits + 1
    BY <1>1 DEF Edit
  <2>2. MaxEdits[name] \in Nat /\ edits \in Nat
    BY StartsAssumption DEF ReviewInv, Counted
  <2> QED
    BY <1>1, <2>1, <2>2 DEF ReviewInv, Counted, Verified
<1>2. CASE InsertCode \/ DeleteCode \/ WrapCode \/ AddTest \/ DeleteTest
  BY <1>1, <1>2, CodeStep DEF ReviewInv, Counted
<1>3. CASE AddWords
  BY <1>1, <1>3, WordsStep DEF ReviewInv, Counted
<1>4. CASE Verify
  BY <1>4 DEF Verify, ReviewInv, Counted, Verified
<1>5. CASE UNCHANGED vars
  BY <1>5 DEF vars, ReviewInv, Counted, Verified
<1> QED
  BY <1>2, <1>3, <1>4, <1>5 DEF Next

\* A result is always that of the case as it stands.
THEOREM ReviewInvariant == Spec => []ReviewInv
  BY InitReview, ReviewStep, PTL DEF Spec

-----------------------------------------------------------------------------
(***************************************************************************)
(* Gates and aggregation, for any set of requirements and any evidence.    *)
(***************************************************************************)
Result(evidence, k) == {e \in evidence : e.kind = "rule_result" /\ e.req = k}

Undecided(evidence) ==
  "code_unavailable" \in Kinds(evidence) \/ "rule_result" \notin Kinds(evidence)

RuleVerdict(evidence, k) ==
  IF Undecided(evidence) THEN "UNCERTAIN"
  ELSE VerdictOf(UNION {e.passed : e \in Result(evidence, k)})

VerdictsFound(set, evidence) == {RuleVerdict(evidence, k) : k \in DOMAIN set.requirements}

IsDecision(d) == d = Decision(d.verdict, d.confidence, d.statuses)

\* What the aggregator of the rules finds, requirement by requirement.
LEMMA RulesDecide ==
  ASSUME NEW c, NEW set, NEW evidence, NEW d, d = RuleAggregator(c, set, evidence)
  PROVE  /\ IsDecision(d)
         /\ DOMAIN d.statuses = DOMAIN set.requirements
         /\ \A k \in DOMAIN set.requirements :
              /\ d.statuses[k].verdict = RuleVerdict(evidence, k)
              /\ d.statuses[k].category = set.requirements[k].category
         /\ d.verdict = IF Undecided(evidence) THEN "UNCERTAIN"
                        ELSE Overall(VerdictsFound(set, evidence))
         /\ d.confidence = IF "UNCERTAIN" \in VerdictsFound(set, evidence) THEN "LOW" ELSE "MEDIUM"
<1> DEFINE statuses == [k \in DOMAIN set.requirements |->
                          Status(RuleVerdict(evidence, k), set.requirements[k].category,
                                 KindsOf(evidence, {k}))]
           found == {statuses[k].verdict : k \in DOMAIN statuses}
           verdict == IF Undecided(evidence) THEN "UNCERTAIN" ELSE Overall(found)
           confidence == IF "UNCERTAIN" \in found THEN "LOW" ELSE "MEDIUM"
<1>1. d = Decision(verdict, confidence, statuses)
  BY DEF RuleAggregator, RuleVerdict, Undecided, Result
<1>2. \A k \in DOMAIN set.requirements :
        /\ statuses[k].verdict = RuleVerdict(evidence, k)
        /\ statuses[k].category = set.requirements[k].category
  BY DEF Status
<1>3. DOMAIN statuses = DOMAIN set.requirements
  OBVIOUS
<1> HIDE DEF statuses
<1>4. found = VerdictsFound(set, evidence)
  BY <1>2, <1>3 DEF VerdictsFound
<1> HIDE DEF found
<1>5. /\ verdict = IF Undecided(evidence) THEN "UNCERTAIN"
                   ELSE Overall(VerdictsFound(set, evidence))
      /\ confidence = IF "UNCERTAIN" \in VerdictsFound(set, evidence) THEN "LOW" ELSE "MEDIUM"
  BY <1>4
<1> HIDE DEF verdict, confidence
<1>6. d.verdict = verdict /\ d.confidence = confidence /\ d.statuses = statuses
  BY <1>1 DEF Decision
<1> QED
  BY <1>1, <1>2, <1>3, <1>5, <1>6 DEF IsDecision

\* They are verdicts of rules, or UNCERTAIN.
LEMMA VerdictsOfRules ==
  ASSUME NEW evidence, NEW k
  PROVE  RuleVerdict(evidence, k) \in {"SATISFIED", "NOT_SATISFIED", "UNCERTAIN"}
  BY DEF RuleVerdict, VerdictOf

\* The pipelines with rules, gate by gate.
LEMMA GatesOfRules ==
  ASSUME NEW p \in RuleBased, NEW c, NEW set, NEW evidence
  PROVE  LET inner == RuleAggregator(c, set, evidence)
             adjusted == IF p \in Adjusted THEN ReliabilityAdjusted(c, set, evidence, inner)
                         ELSE inner
         IN  Aggregate(p, c, set, evidence) = AmbiguityGate(set, evidence, adjusted)
  BY DEF RuleBased, Gated, Adjusted, Pipelines, Aggregate

\* What a gated pipeline is sure of, the rules have found, on reliable ground.
LEMMA SureDecisions ==
  ASSUME NEW p \in Adjusted, NEW c, NEW set, NEW evidence,
         Aggregate(p, c, set, evidence).confidence # "LOW"
  PROVE  /\ set.actionable /\ Score(set) < X!AmbiguityThreshold
         /\ ~Unreliable(c, set, evidence)
         /\ Aggregate(p, c, set, evidence) = RuleAggregator(c, set, evidence)
<1> DEFINE inner == RuleAggregator(c, set, evidence)
           adjusted == ReliabilityAdjusted(c, set, evidence, inner)
<1>1. Aggregate(p, c, set, evidence) = AmbiguityGate(set, evidence, adjusted)
  BY GatesOfRules DEF RuleBased, Gated, Adjusted
<1>2. IsDecision(inner)
  BY RulesDecide
<1> HIDE DEF inner
<1>3. set.actionable /\ Score(set) < X!AmbiguityThreshold
  BY <1>1 DEF AmbiguityGate, Decision
<1>4. Aggregate(p, c, set, evidence) = adjusted
  BY <1>1, <1>3 DEF AmbiguityGate
<1>5. ~Unreliable(c, set, evidence)
  BY <1>2, <1>4 DEF ReliabilityAdjusted, IsDecision, Decision
<1> QED
  BY <1>3, <1>4, <1>5 DEF ReliabilityAdjusted, inner

-----------------------------------------------------------------------------
(***************************************************************************)
(* What every pipeline returns.                                            *)
(***************************************************************************)
\* A decision on every requirement, that cites nothing but evidence.
WellFormed(d, set, evidence) ==
  /\ IsDecision(d)
  /\ d.verdict \in Policy!Verdicts /\ d.confidence \in {"MEDIUM", "LOW"}
  /\ DOMAIN d.statuses = DOMAIN set.requirements
  /\ \A k \in DOMAIN set.requirements :
       d.statuses[k].verdict \in Policy!Verdicts /\ d.statuses[k].cites \subseteq Kinds(evidence)

\* It is enough to have its parts so.
LEMMA WellFormedParts ==
  ASSUME NEW set, NEW evidence, NEW verdict \in Policy!Verdicts,
         NEW confidence \in {"MEDIUM", "LOW"}, NEW statuses,
         DOMAIN statuses = DOMAIN set.requirements,
         \A k \in DOMAIN set.requirements :
           /\ statuses[k].verdict \in Policy!Verdicts
           /\ statuses[k].cites \subseteq Kinds(evidence)
  PROVE  WellFormed(Decision(verdict, confidence, statuses), set, evidence)
<1> DEFINE d == Decision(verdict, confidence, statuses)
<1>1. d.verdict = verdict /\ d.confidence = confidence /\ d.statuses = statuses
  BY DEF Decision
<1>2. IsDecision(d)
  BY <1>1 DEF IsDecision
<1> HIDE DEF d
<1>3. WellFormed(d, set, evidence)
  BY <1>1, <1>2 DEF WellFormed
<1> QED
  BY <1>3 DEF d

\* The aggregators return such decisions.
LEMMA BaselinesAreWellFormed ==
  ASSUME NEW set, NEW evidence, NEW target, NEW file
  PROVE  WellFormed(Baseline(set, evidence, target, file), set, evidence)
<1> DEFINE unavailable == "code_unavailable" \in Kinds(evidence)
           there == PassedKind(evidence, target) \/ PassedKind(evidence, "tests_changed")
           verdict == IF unavailable THEN "UNCERTAIN"
                      ELSE IF there THEN "SATISFIED" ELSE "NOT_SATISFIED"
           confidence == IF ~unavailable /\ ~there /\ ~PassedKind(evidence, file)
                         THEN "MEDIUM" ELSE "LOW"
           statuses == [k \in DOMAIN set.requirements |->
                          Status(verdict, None, KindsOf(evidence, {k, 0}))]
<1>1. Baseline(set, evidence, target, file) = Decision(verdict, confidence, statuses)
  BY DEF Baseline
<1>2. verdict \in Policy!Verdicts /\ confidence \in {"MEDIUM", "LOW"}
  BY DEF Policy!Verdicts
<1> HIDE DEF verdict, confidence
<1>3. ASSUME NEW k \in DOMAIN set.requirements
      PROVE  /\ statuses[k].verdict \in Policy!Verdicts
             /\ statuses[k].cites \subseteq Kinds(evidence)
  BY <1>2 DEF Status, KindsOf, Kinds
<1>4. DOMAIN statuses = DOMAIN set.requirements
  OBVIOUS
<1> HIDE DEF statuses
<1> QED
  BY <1>1, <1>2, <1>3, <1>4, WellFormedParts

\* So does the aggregator of the rules.
LEMMA RulesAreWellFormed ==
  ASSUME NEW c, NEW set, NEW evidence
  PROVE  WellFormed(RuleAggregator(c, set, evidence), set, evidence)
<1> DEFINE d == RuleAggregator(c, set, evidence)
           statuses == [k \in DOMAIN set.requirements |->
                          Status(RuleVerdict(evidence, k), set.requirements[k].category,
                                 KindsOf(evidence, {k}))]
<1>1. d.statuses = statuses
  BY DEF RuleAggregator, RuleVerdict, Undecided, Result, Decision
<1>2. ASSUME NEW k \in DOMAIN set.requirements
      PROVE  statuses[k].cites \subseteq Kinds(evidence)
  BY DEF Status, KindsOf, Kinds
<1> HIDE DEF d, statuses
<1>3. /\ IsDecision(d)
      /\ DOMAIN d.statuses = DOMAIN set.requirements
      /\ \A k \in DOMAIN set.requirements : d.statuses[k].verdict = RuleVerdict(evidence, k)
      /\ d.verdict = IF Undecided(evidence) THEN "UNCERTAIN"
                     ELSE Overall(VerdictsFound(set, evidence))
      /\ d.confidence = IF "UNCERTAIN" \in VerdictsFound(set, evidence) THEN "LOW" ELSE "MEDIUM"
  BY RulesDecide DEF d
<1>4. d.verdict \in Policy!Verdicts /\ d.confidence \in {"MEDIUM", "LOW"}
  BY <1>3 DEF Overall, Policy!Verdicts
<1>5. \A k \in DOMAIN set.requirements : d.statuses[k].verdict \in Policy!Verdicts
  BY <1>3, VerdictsOfRules DEF Policy!Verdicts
<1>6. WellFormed(d, set, evidence)
  BY <1>1, <1>2, <1>3, <1>4, <1>5 DEF WellFormed
<1> QED
  BY <1>6 DEF d

\* The gates leave them so.
LEMMA GatesAreWellFormed ==
  ASSUME NEW c, NEW set, NEW evidence, NEW inner, WellFormed(inner, set, evidence)
  PROVE  /\ WellFormed(ReliabilityAdjusted(c, set, evidence, inner), set, evidence)
         /\ WellFormed(AmbiguityGate(set, evidence, inner), set, evidence)
<1>1. WellFormed(ReliabilityAdjusted(c, set, evidence, inner), set, evidence)
  <2> DEFINE low == [inner EXCEPT !.confidence = "LOW"]
  <2>1. low = Decision(inner.verdict, "LOW", inner.statuses)
    BY DEF WellFormed, IsDecision, Decision
  <2>2. WellFormed(Decision(inner.verdict, "LOW", inner.statuses), set, evidence)
    <3> DEFINE v == inner.verdict
               ss == inner.statuses
    <3>1. /\ v \in Policy!Verdicts /\ DOMAIN ss = DOMAIN set.requirements
          /\ \A k \in DOMAIN set.requirements :
               ss[k].verdict \in Policy!Verdicts /\ ss[k].cites \subseteq Kinds(evidence)
      BY DEF WellFormed
    <3> HIDE DEF v, ss
    <3>2. WellFormed(Decision(v, "LOW", ss), set, evidence)
      BY <3>1, WellFormedParts
    <3> QED
      BY <3>2 DEF v, ss
  <2> HIDE DEF low
  <2>3. ReliabilityAdjusted(c, set, evidence, inner) \in {low, inner}
    BY DEF ReliabilityAdjusted, low
  <2> QED
    BY <2>1, <2>2, <2>3
<1>2. WellFormed(AmbiguityGate(set, evidence, inner), set, evidence)
  <2> DEFINE cited == Kinds(evidence) \cap {"requirements_extracted", "requirement_ambiguity"}
             statuses == [k \in DOMAIN set.requirements |->
                            Status("UNCERTAIN", set.requirements[k].category, cited)]
             unclear == Decision("UNCERTAIN", "LOW", statuses)
  <2>1. \A k \in DOMAIN set.requirements :
          statuses[k].verdict = "UNCERTAIN" /\ statuses[k].cites = cited
    BY DEF Status
  <2>2. DOMAIN statuses = DOMAIN set.requirements /\ cited \subseteq Kinds(evidence)
    OBVIOUS
  <2>3. AmbiguityGate(set, evidence, inner) \in {inner, unclear}
    BY DEF AmbiguityGate
  <2> HIDE DEF statuses, cited
  <2>4. WellFormed(unclear, set, evidence)
    BY <2>1, <2>2, WellFormedParts DEF Policy!Verdicts
  <2> HIDE DEF unclear
  <2> QED
    BY <2>3, <2>4
<1> QED
  BY <1>1, <1>2

\* So whatever the pipeline, its decision is well formed.
LEMMA DecisionsAreWellFormed ==
  ASSUME NEW p \in Pipelines, NEW c, NEW set, NEW evidence
  PROVE  WellFormed(Aggregate(p, c, set, evidence), set, evidence)
<1>1. PICK inner : /\ WellFormed(inner, set, evidence)
                   /\ Aggregate(p, c, set, evidence) =
                        LET adjusted == IF p \in Adjusted
                                        THEN ReliabilityAdjusted(c, set, evidence, inner) ELSE inner
                        IN  IF p \in Gated THEN AmbiguityGate(set, evidence, adjusted) ELSE adjusted
  <2>1. CASE p = "phase2-locality"
    <3>1. p \notin RuleBased
      BY <2>1 DEF RuleBased, Gated
    <3> DEFINE inner == LocalityAggregator(c, set, evidence)
    <3>2. WellFormed(inner, set, evidence)
      BY BaselinesAreWellFormed DEF LocalityAggregator
    <3>3. Aggregate(p, c, set, evidence) =
            LET adjusted == IF p \in Adjusted
                            THEN ReliabilityAdjusted(c, set, evidence, inner) ELSE inner
            IN  IF p \in Gated THEN AmbiguityGate(set, evidence, adjusted) ELSE adjusted
      BY <2>1, <3>1, SMT DEF Aggregate
    <3> QED
      BY <3>2, <3>3
  <2>2. CASE p \in RuleBased
    <3>1. p # "phase2-locality"
      BY <2>2 DEF RuleBased, Gated, Pipelines
    <3> QED
      BY <2>2, <3>1, RulesAreWellFormed, Zenon DEF Aggregate
  <2>3. CASE p # "phase2-locality" /\ p \notin RuleBased
    BY <2>3, BaselinesAreWellFormed, Zenon DEF Aggregate, StructuralAggregator
  <2> QED
    BY <2>1, <2>2, <2>3
<1> QED
  BY <1>1, GatesAreWellFormed

\* The result of a pipeline has a status for every requirement, of the verdicts
\* and confidences there are, and cites only evidence collected; HIGH is never
\* given.  The code under review is code whatever the author does to it.
THEOREM TypeCorrect == Spec => []TypeOK
<1>1. ReviewInv => TypeOK
  <2> SUFFICES ASSUME ReviewInv
               PROVE  TypeOK
    OBVIOUS
  <2>1. name \in DOMAIN Starts /\ edits \in 0..MaxEdits[name] /\ IsCode(case.after)
    BY DEF ReviewInv, Counted, IsCase
  <2>2. ASSUME result # <<>>
        PROVE  /\ result[1].pipeline \in Pipelines
               /\ WellFormed(result[1].decision, result[1].set, result[1].evidence)
    <3>1. PICK p \in Pipelines : result = <<Run(p, case)>>
      BY <2>2 DEF ReviewInv, Verified
    <3> DEFINE set == RequirementStage(p, case)
               evidence == EvidenceStages(p, case, set)
    <3>2. /\ result[1].pipeline = p /\ result[1].set = set /\ result[1].evidence = evidence
          /\ result[1].decision = Aggregate(p, case, set, evidence)
      BY <3>1 DEF Run, RunOn, Judged
    <3> HIDE DEF set, evidence
    <3> QED
      BY <3>2, DecisionsAreWellFormed
  <2>3. {"MEDIUM", "LOW"} \subseteq Policy!Confidences \ {"HIGH"}
    BY DEF Policy!Confidences
  <2> QED
    BY <2>1, <2>2, <2>3 DEF TypeOK, WellFormed, ToSet
<1> QED
  BY <1>1, ReviewInvariant, PTL

-----------------------------------------------------------------------------
(***************************************************************************)
(* Evidence that only informs.                                             *)
(***************************************************************************)
Deciding == {"rule_result", "code_unavailable", "parse_error"}

DecidingOf(evidence) == {e \in evidence : e.kind \in Deciding}

\* What a pipeline says of a case is the same for evidence that differs in items of other kinds.
LEMMA OnlySomeKindsDecide ==
  ASSUME NEW p \in RuleBased, NEW q \in RuleBased, p \in Adjusted <=> q \in Adjusted,
         NEW c, NEW set, NEW evidence, NEW other, DecidingOf(evidence) = DecidingOf(other)
  PROVE  LET d == Aggregate(p, c, set, evidence)
             e == Aggregate(q, c, set, other)
         IN  /\ d.verdict = e.verdict /\ d.confidence = e.confidence
             /\ DOMAIN d.statuses = DOMAIN e.statuses
             /\ \A k \in DOMAIN d.statuses : d.statuses[k].verdict = e.statuses[k].verdict
<1>1. \A kind \in Deciding : kind \in Kinds(evidence) <=> kind \in Kinds(other)
  BY DEF DecidingOf, Kinds
<1>2. \A k : Result(evidence, k) = Result(other, k)
  BY DEF DecidingOf, Result, Deciding
<1>3. \A k : RuleVerdict(evidence, k) = RuleVerdict(other, k)
  BY <1>1, <1>2 DEF RuleVerdict, Undecided, Deciding
<1>4. Unreliable(c, set, evidence) <=> Unreliable(c, set, other)
  BY <1>1 DEF Unreliable, Deciding
<1>5. Undecided(evidence) <=> Undecided(other)
  BY <1>1 DEF Undecided, Deciding
<1> DEFINE d == RuleAggregator(c, set, evidence)
           e == RuleAggregator(c, set, other)
<1>6. /\ d.verdict = e.verdict /\ d.confidence = e.confidence
      /\ DOMAIN d.statuses = DOMAIN e.statuses
      /\ \A k \in DOMAIN d.statuses : d.statuses[k].verdict = e.statuses[k].verdict
  <2>1. VerdictsFound(set, evidence) = VerdictsFound(set, other)
    BY <1>3 DEF VerdictsFound
  <2> HIDE DEF d, e
  <2>2. /\ d.verdict = IF Undecided(evidence) THEN "UNCERTAIN"
                       ELSE Overall(VerdictsFound(set, evidence))
        /\ d.confidence = IF "UNCERTAIN" \in VerdictsFound(set, evidence) THEN "LOW" ELSE "MEDIUM"
        /\ DOMAIN d.statuses = DOMAIN set.requirements
        /\ \A k \in DOMAIN set.requirements : d.statuses[k].verdict = RuleVerdict(evidence, k)
    BY RulesDecide DEF d
  <2>3. /\ e.verdict = IF Undecided(other) THEN "UNCERTAIN"
                       ELSE Overall(VerdictsFound(set, other))
        /\ e.confidence = IF "UNCERTAIN" \in VerdictsFound(set, other) THEN "LOW" ELSE "MEDIUM"
        /\ DOMAIN e.statuses = DOMAIN set.requirements
        /\ \A k \in DOMAIN set.requirements : e.statuses[k].verdict = RuleVerdict(other, k)
    BY RulesDecide DEF e
  <2> QED
    BY <1>3, <1>5, <2>1, <2>2, <2>3
<1>7. IsDecision(d) /\ IsDecision(e)
  BY RulesDecide
<1> HIDE DEF d, e
<1> DEFINE f(pipeline, items, r) ==
             IF pipeline \in Adjusted THEN ReliabilityAdjusted(c, set, items, r) ELSE r
<1>8. /\ f(p, evidence, d).verdict = f(q, other, e).verdict
      /\ f(p, evidence, d).confidence = f(q, other, e).confidence
      /\ f(p, evidence, d).statuses = d.statuses /\ f(q, other, e).statuses = e.statuses
  BY <1>4, <1>6, <1>7 DEF ReliabilityAdjusted, IsDecision, Decision
<1>9. /\ Aggregate(p, c, set, evidence) = AmbiguityGate(set, evidence, f(p, evidence, d))
      /\ Aggregate(q, c, set, other) = AmbiguityGate(set, other, f(q, other, e))
  BY GatesOfRules DEF d, e
<1> HIDE DEF f
<1> QED
  BY <1>6, <1>8, <1>9 DEF AmbiguityGate, Decision, Status

\* The evidence of the code model is of no kind that decides.
LEMMA SemanticsOnlyInform ==
  ASSUME NEW c, NEW set
  PROVE  DecidingOf(EvidenceStages("phase7-semantic", c, set))
           = DecidingOf(EvidenceStages("mvp", c, set))
<1>1. EvidenceStages("phase7-semantic", c, set)
        = EvidenceStages("mvp", c, set) \cup SemanticEvidence(c, set)
  BY DEF EvidenceStages, Gated, RuleBased, Pipelines
<1>2. \A e \in SemanticEvidence(c, set) : e.kind \notin Deciding
  BY DEF SemanticEvidence, Item, Deciding
<1> QED
  BY <1>1, <1>2 DEF DecidingOf

\* The pipeline with the code model decides every case as the one without it.
THEOREM CodeModelOnlyInforms == Spec => []NeutralEvidenceChangesNothing
<1>1. ReviewInv => NeutralEvidenceChangesNothing
  <2> SUFFICES ASSUME ReviewInv, VerifiedBy({"phase7-semantic"})
               PROVE  LET said(d) == <<d.verdict, d.confidence,
                                       [k \in DOMAIN d.statuses |-> d.statuses[k].verdict]>>
                      IN  said(result[1].decision) = said(Run("mvp", case).decision)
    BY DEF NeutralEvidenceChangesNothing
  <2>1. result = <<Run("phase7-semantic", case)>>
    BY DEF ReviewInv, Verified, VerifiedBy, Run, RunOn, Judged
  <2> DEFINE set == X!ExtractRequirements(case.comment)
             of(p) == Aggregate(p, case, set, EvidenceStages(p, case, set))
  <2>2. /\ result[1].decision = of("phase7-semantic")
        /\ Run("mvp", case).decision = of("mvp")
    BY <2>1 DEF Run, RunOn, Judged, RequirementStage, Gated, Pipelines
  <2>3. /\ of("mvp").verdict = of("phase7-semantic").verdict
        /\ of("mvp").confidence = of("phase7-semantic").confidence
        /\ DOMAIN of("mvp").statuses = DOMAIN of("phase7-semantic").statuses
        /\ \A k \in DOMAIN of("mvp").statuses :
             of("mvp").statuses[k].verdict = of("phase7-semantic").statuses[k].verdict
    BY OnlySomeKindsDecide, SemanticsOnlyInform DEF RuleBased, Adjusted, Gated, Pipelines
  <2> HIDE DEF of
  <2> QED
    BY <2>2, <2>3
<1> QED
  BY <1>1, ReviewInvariant, PTL

-----------------------------------------------------------------------------
(***************************************************************************)
(* What the stages collect.                                                *)
(***************************************************************************)
\* The rule's verdict on the k-th requirement.
Outcome(c, set, k) == CheckRequirement(set.requirements[k], RuleContext(c)).status

\* What is said of it.
Found(c, set, k) ==
  [Item(k, "rule_result", Passed(Outcome(c, set, k)))
     EXCEPT !.old = CheckRequirement(set.requirements[k], RuleContext(c)).already]

\* A result is found, and at most noted to be old.
LEMMA ItemsOfAResult ==
  ASSUME NEW k, NEW requirement, NEW o
  PROVE  LET found == [Item(k, "rule_result", Passed(o.status)) EXCEPT !.old = o.already]
         IN  /\ found.req = k /\ found.kind = "rule_result"
             /\ found.passed = Passed(o.status) /\ found.old = o.already
             /\ found \in ResultEvidence(k, requirement, o)
             /\ \A e \in ResultEvidence(k, requirement, o) :
                  e.req = k /\ (e.kind = "rule_result" => e = found)
<1> DEFINE item == Item(k, "rule_result", Passed(o.status))
           found == [item EXCEPT !.old = o.already]
           note  == Item(k, "already_present", {TRUE})
<1>1. /\ found.req = k /\ found.kind = "rule_result"
      /\ found.passed = Passed(o.status) /\ found.old = o.already
  BY DEF Item
<1>2. note.req = k /\ note.kind # "rule_result"
  BY DEF Item
<1>3. ResultEvidence(k, requirement, o)
        = {found} \cup (IF o.already /\ NotesOldCode(requirement) THEN {note} ELSE {})
  BY DEF ResultEvidence, When
<1> HIDE DEF found, note
<1>4. /\ found \in ResultEvidence(k, requirement, o)
      /\ \A e \in ResultEvidence(k, requirement, o) : e \in {found, note}
  BY <1>3
<1>5. \A e \in ResultEvidence(k, requirement, o) :
        e.req = k /\ (e.kind = "rule_result" => e = found)
  BY <1>1, <1>2, <1>4
<1> QED
  BY <1>1, <1>4, <1>5 DEF found

\* Only the rules give results, one per requirement.
LEMMA ResultsOfRules ==
  ASSUME NEW p \in RuleBased, NEW c, NEW set, Available(c)
  PROVE  LET evidence == EvidenceStages(p, c, set)
         IN  \A k \in DOMAIN set.requirements : Result(evidence, k) = {Found(c, set, k)}
<1> DEFINE rules == RuleEvidence(c, set)
<1>1. EvidenceStages(p, c, set) \subseteq
        RequirementEvidence(c, set) \cup StructuralEvidence(c, set) \cup ChangedTestsEvidence(c, set)
          \cup rules \cup SemanticEvidence(c, set)
  BY DEF EvidenceStages, RuleBased, Gated, Pipelines
<1>2. rules \subseteq EvidenceStages(p, c, set)
  BY DEF EvidenceStages, RuleBased, Gated, Pipelines
<1>3. \A e \in RequirementEvidence(c, set) : e.kind # "rule_result"
  BY DEF RequirementEvidence, Neutral, Item
<1>4. \A e \in FactEvidence(
                 DiffFacts(ScopeBefore(c.before, ResolveTarget(c.before, c.after, c.anchor)),
                           ScopeAfter(c.after, ResolveTarget(c.before, c.after, c.anchor)))) :
        e.kind # "rule_result"
  BY DEF FactEvidence, When, Neutral, Item
<1>5. \A e \in StructuralEvidence(c, set) : e.kind # "rule_result"
  BY <1>4 DEF StructuralEvidence, TargetEvidence, When, Neutral, Item
<1>6. \A e \in ChangedTestsEvidence(c, set) : e.kind # "rule_result"
  BY DEF ChangedTestsEvidence, Item
<1>7. \A e \in SemanticEvidence(c, set) : e.kind # "rule_result"
  BY DEF SemanticEvidence, Item
<1>8. \A k \in DOMAIN set.requirements : Result(EvidenceStages(p, c, set), k) = Result(rules, k)
  BY <1>1, <1>2, <1>3, <1>5, <1>6, <1>7 DEF Result
<1> DEFINE of(k) == ResultEvidence(k, set.requirements[k],
                                   CheckRequirement(set.requirements[k], RuleContext(c)))
<1>9. rules = UNION {of(k) : k \in DOMAIN set.requirements}
  BY DEF RuleEvidence
<1>10. \A k : /\ Found(c, set, k) \in of(k)
              /\ Found(c, set, k).kind = "rule_result" /\ Found(c, set, k).req = k
              /\ \A e \in of(k) : e.req = k /\ (e.kind = "rule_result" => e = Found(c, set, k))
  BY ItemsOfAResult DEF Found, Outcome
<1> HIDE DEF rules, of
<1>11. \A k \in DOMAIN set.requirements : Result(rules, k) = {Found(c, set, k)}
  BY <1>9, <1>10 DEF Result
<1> QED
  BY <1>8, <1>11

\* What could not be read or parsed is always noted.
LEMMA TroubleIsNoted ==
  ASSUME NEW p \in RuleBased, NEW c, NEW set
  PROVE  /\ ~Available(c) => "code_unavailable" \in Kinds(EvidenceStages(p, c, set))
         /\ Available(c) /\ c.broken => "parse_error" \in Kinds(EvidenceStages(p, c, set))
<1>1. StructuralEvidence(c, set) \subseteq EvidenceStages(p, c, set)
  BY DEF EvidenceStages, RuleBased, Gated, Pipelines
<1>2. ~Available(c) => Neutral("code_unavailable") \in StructuralEvidence(c, set)
  BY DEF StructuralEvidence, TargetEvidence
<1>3. Available(c) /\ c.broken => Neutral("parse_error") \in StructuralEvidence(c, set)
  BY DEF StructuralEvidence, TargetEvidence, When
<1> QED
  BY <1>1, <1>2, <1>3 DEF Kinds, Neutral, Item

\* A verdict other than UNCERTAIN on a requirement is the verdict of its rule.
LEMMA RulesAreFollowed ==
  ASSUME NEW p \in RuleBased, NEW c, NEW set, NEW k \in DOMAIN set.requirements
  PROVE  LET verdict == RuleVerdict(EvidenceStages(p, c, set), k)
         IN  verdict # "UNCERTAIN" =>
               /\ Available(c)
               /\ verdict = "SATISFIED" => Outcome(c, set, k) = "satisfied"
               /\ verdict = "NOT_SATISFIED" => Outcome(c, set, k) = "not_satisfied"
<1> DEFINE evidence == EvidenceStages(p, c, set)
           passed == Passed(Outcome(c, set, k))
<1> SUFFICES ASSUME RuleVerdict(evidence, k) # "UNCERTAIN"
             PROVE  /\ Available(c)
                    /\ RuleVerdict(evidence, k) = "SATISFIED" => Outcome(c, set, k) = "satisfied"
                    /\ RuleVerdict(evidence, k) = "NOT_SATISFIED" => Outcome(c, set, k) = "not_satisfied"
  OBVIOUS
<1>1. ~Undecided(evidence) /\ Available(c)
  BY TroubleIsNoted DEF RuleVerdict, Undecided
<1>2. Result(evidence, k) = {Found(c, set, k)}
  BY <1>1, ResultsOfRules
<1>3. UNION {e.passed : e \in Result(evidence, k)} = passed
  <2>1. Found(c, set, k).passed = passed
    BY DEF Found, Item
  <2> HIDE DEF passed, evidence
  <2> QED
    BY <1>2, <2>1
<1>4. RuleVerdict(evidence, k) = VerdictOf(passed)
  BY <1>1, <1>3 DEF RuleVerdict
<1>5. /\ passed = {TRUE} => Outcome(c, set, k) = "satisfied"
      /\ passed = {FALSE} => Outcome(c, set, k) = "not_satisfied"
  <2>1. Outcome(c, set, k) \notin {"satisfied", "not_satisfied"} => passed = BOOLEAN
    BY Zenon DEF Passed
  <2>2. Outcome(c, set, k) = "satisfied" => passed = {TRUE}
    BY Zenon DEF Passed
  <2>3. Outcome(c, set, k) = "not_satisfied" => passed = {FALSE}
    BY Zenon DEF Passed
  <2> QED
    BY <2>1, <2>2, <2>3
<1> QED
  BY <1>1, <1>4, <1>5 DEF VerdictOf

\* What a pipeline with rules finds satisfied, the rule of the requirement does.
LEMMA SatisfiedByItsRule ==
  ASSUME ReviewInv, VerifiedBy(RuleBased), NEW k \in DOMAIN result[1].set.requirements,
         result[1].decision.statuses[k].verdict = "SATISFIED"
  PROVE  /\ Available(case)
         /\ CheckRequirement(result[1].set.requirements[k], RuleContext(case)).status = "satisfied"
<1>1. PICK p \in RuleBased : result = <<Run(p, case)>>
  BY DEF ReviewInv, Verified, VerifiedBy, Run, RunOn, Judged
<1> DEFINE set == X!ExtractRequirements(case.comment)
           evidence == EvidenceStages(p, case, set)
           inner == RuleAggregator(case, set, evidence)
           adjusted == IF p \in Adjusted THEN ReliabilityAdjusted(case, set, evidence, inner)
                       ELSE inner
<1>2. result[1].set = set /\ result[1].decision = Aggregate(p, case, set, evidence)
  BY <1>1 DEF Run, RunOn, Judged, RequirementStage, RuleBased
<1>3. result[1].decision = AmbiguityGate(set, evidence, adjusted)
  BY <1>2, GatesOfRules
<1>4. IsDecision(inner) /\ inner.statuses[k].verdict = RuleVerdict(evidence, k)
  BY <1>2, RulesDecide
<1>5. adjusted.statuses = inner.statuses
  <2> HIDE DEF inner
  <2> QED
    BY <1>4 DEF ReliabilityAdjusted, IsDecision, Decision
<1> HIDE DEF inner, adjusted, evidence, set
<1>6. result[1].decision.statuses[k].verdict \in {"UNCERTAIN", RuleVerdict(evidence, k)}
  BY <1>2, <1>3, <1>4, <1>5 DEF AmbiguityGate, Decision, Status
<1>7. RuleVerdict(evidence, k) = "SATISFIED"
  BY <1>6
<1> QED
  BY <1>2, <1>7, RulesAreFollowed DEF evidence, Outcome

\* And a result says that old code met it when its rule does.
LEMMA CreditOfAResult ==
  ASSUME ReviewInv, VerifiedBy(RuleBased), NEW k \in DOMAIN result[1].set.requirements,
         Available(case)
  PROVE  CreditedToOldCode(k)
           <=> CheckRequirement(result[1].set.requirements[k], RuleContext(case)).already
<1>1. PICK p \in RuleBased : result = <<Run(p, case)>>
  BY DEF ReviewInv, Verified, VerifiedBy, Run, RunOn, Judged
<1> DEFINE set == X!ExtractRequirements(case.comment)
           evidence == EvidenceStages(p, case, set)
           old == CheckRequirement(set.requirements[k], RuleContext(case)).already
<1>2. result[1].set = set /\ result[1].evidence = evidence
  BY <1>1 DEF Run, RunOn, Judged, RequirementStage, RuleBased
<1>3. Result(evidence, k) = {Found(case, set, k)}
  BY <1>2, ResultsOfRules
<1>4. Found(case, set, k).old = old
  BY DEF Found, Item
<1> HIDE DEF set, evidence
<1>5. (\E e \in Result(evidence, k) : e.old) <=> old
  <2> HIDE DEF old
  <2> QED
    BY <1>3, <1>4
<1>6. (\E e \in evidence : e.req = k /\ e.kind = "rule_result" /\ e.old)
        <=> \E e \in Result(evidence, k) : e.old
  BY DEF Result
<1> QED
  BY <1>2, <1>5, <1>6 DEF CreditedToOldCode

\* So a satisfied request has been found satisfied by the rules.
LEMMA SatisfiedRequirement ==
  ASSUME ReviewInv, NEW category, NEW k \in Satisfied(category)
  PROVE  LET asked == result[1].set.requirements[k]
             o     == CheckRequirement(asked, RuleContext(case))
         IN  /\ o.status = "satisfied" /\ (CreditedToOldCode(k) <=> o.already)
             /\ asked.category = category /\ asked.suggested = <<>>
<1> DEFINE all == result[1].set.requirements
<1>1. /\ VerifiedBy({"mvp"}) /\ k \in DOMAIN all
      /\ result[1].decision.statuses[k].verdict = "SATISFIED"
      /\ all[k].category = category /\ all[k].suggested = <<>>
  BY DEF Satisfied
<1>2. VerifiedBy(RuleBased)
  BY <1>1 DEF VerifiedBy, RuleBased, Gated, Pipelines
<1>3. Available(case) /\ CheckRequirement(all[k], RuleContext(case)).status = "satisfied"
  BY <1>1, <1>2, SatisfiedByItsRule
<1> QED
  BY <1>1, <1>2, <1>3, CreditOfAResult

LEMMA SatisfiedRequest ==
  ASSUME ReviewInv, NEW category, NEW req \in SatisfiedRequests(category)
  PROVE  \E asked : /\ CheckRequirement(asked, RuleContext(case)).status = "satisfied"
                    /\ asked.category = category /\ asked.suggested = <<>>
                    /\ req = asked.reads[category]
<1>1. PICK k \in Satisfied(category) : req = result[1].set.requirements[k].reads[category]
  BY DEF SatisfiedRequests
<1> QED
  BY <1>1, SatisfiedRequirement

-----------------------------------------------------------------------------
(***************************************************************************)
(* Requests for tests.                                                     *)
(***************************************************************************)
\* Without new tests and changed ones, every test was there before, under some name.
LEMMA TestsThatStayed ==
  ASSUME NEW after, NEW before, Testing!ChangedTests(after, before) = {}
  PROVE  \A u \in after : \E t \in before : u.file = t.file /\ u.body = t.body
<1> SUFFICES ASSUME NEW u \in after
             PROVE  \E t \in before : u.file = t.file /\ u.body = t.body
  OBVIOUS
<1> DEFINE in(tests) == {t \in tests : t.file = u.file}
<1>1. \/ \E t \in in(before) : Testing!Tokens(t) = Testing!Tokens(u)
      \/ \E t \in in(before) : t.body = u.body
  BY DEF Testing!ChangedTests
<1> QED
  BY <1>1 DEF Testing!Tokens

\* The rule finds a test that runs and covers the case: among those it collects now, or, when
\* the change adds no test code, among those before.
LEMMA TestingRuleNeedsATest ==
  ASSUME NEW req, NEW ctx, Testing!TestingRule(req, ctx).status = "satisfied"
  PROVE  IF Testing!TestingRule(req, ctx).already
         THEN /\ \E t \in ctx.testsBefore : Testing!RunsFor(t, req)
              /\ Testing!ChangedTests(ctx.tests, ctx.testsBefore) = {}
         ELSE \E t \in ctx.tests : Testing!Collected(t) /\ Testing!RunsFor(t, req)
<1> DEFINE changed == Testing!ChangedTests(ctx.tests, ctx.testsBefore)
           runnable == Testing!Runnable(changed)
           calling == {t \in runnable : Testing!Exercises(t, req)}
           asserting == {t \in calling : t.body.expects}
           existing == Testing!ExistingOrMissing(req, ctx)
           new == Testing!Scenario(req, ctx, asserting)
<1>1. /\ Testing!Inconclusive.status # "satisfied" /\ Testing!NotSatisfied.status # "satisfied"
      /\ \A b : Testing!Satisfied(b).already = b
  BY DEF Testing!Inconclusive, Testing!NotSatisfied, Testing!Satisfied, Testing!Outcome
<1>2. changed \subseteq ctx.tests
  BY DEF Testing!ChangedTests
<1>3. \/ Testing!TestingRule(req, ctx) = existing /\ changed = {}
      \/ Testing!TestingRule(req, ctx) = new
  <2> HIDE DEF changed, existing, new
  <2> QED
    BY <1>1 DEF Testing!TestingRule, changed, existing, new
<1>4. CASE Testing!TestingRule(req, ctx) = existing /\ changed = {}
  <2>1. existing = Testing!Satisfied(TRUE)
    BY <1>1, <1>4 DEF Testing!ExistingOrMissing
  <2>2. \E t \in ctx.testsBefore : Testing!RunsFor(t, req)
    BY <1>1, <1>4 DEF Testing!ExistingOrMissing
  <2> HIDE DEF existing, changed
  <2> QED
    BY <1>1, <1>4, <2>1, <2>2 DEF changed
<1>5. CASE Testing!TestingRule(req, ctx) = new
  <2> HIDE DEF asserting
  <2>1. new = Testing!Satisfied(FALSE)
    BY <1>1, <1>5 DEF Testing!Scenario
  <2>2. PICK t \in asserting : Testing!Covers(t, req)
    BY <1>1, <1>5 DEF Testing!Scenario
  <2>3. t \in changed /\ ~Testing!Skipped(t) /\ Testing!Collected(t)
        /\ Testing!Exercises(t, req) /\ t.body.expects
    BY <2>2 DEF asserting, Testing!Runnable
  <2>4. \E u \in ctx.tests : Testing!Collected(u) /\ Testing!RunsFor(u, req)
    <3> HIDE DEF changed
    <3> QED
      BY <1>2, <2>2, <2>3 DEF Testing!RunsFor
  <2> HIDE DEF new
  <2> QED
    BY <1>1, <1>5, <2>1, <2>4
<1> QED
  BY <1>3, <1>4, <1>5

\* The rules see the tests of the case.
LEMMA TestsOfTheContext ==
  ASSUME NEW c
  PROVE  RuleContext(c).tests = c.tests /\ RuleContext(c).testsBefore = c.testsBefore
<1>1. ASSUME NEW r, NEW new
      PROVE  /\ ContextOf(c, r, new).tests = c.tests
             /\ ContextOf(c, r, new).testsBefore = c.testsBefore
  BY DEF ContextOf, With
<1> QED
  BY <1>1 DEF RuleContext, ContextFor

\* A request for a test is satisfied only by a test of the changed version that runs, calls the
\* function, checks something and covers the case; or, with a result that says so, because one
\* did before the change and the change adds no test code.
THEOREM TestCredit == Spec => []TestCreditIsEarned
<1>1. ReviewInv => TestCreditIsEarned
  <2> SUFFICES ASSUME ReviewInv, NEW k \in Satisfied("testing")
               PROVE  LET req == result[1].set.requirements[k].reads["testing"]
                      IN  IF CreditedToOldCode(k)
                          THEN /\ \E t \in case.testsBefore : Testing!RunsFor(t, req)
                               /\ \A u \in case.tests : \E t \in case.testsBefore :
                                    u.file = t.file /\ u.body = t.body
                          ELSE \E t \in case.tests : Testing!Collected(t) /\ Testing!RunsFor(t, req)
    BY DEF TestCreditIsEarned
  <2> DEFINE asked == result[1].set.requirements[k]
             req == asked.reads["testing"]
             ctx == RuleContext(case)
  <2>1. /\ CheckRequirement(asked, ctx).status = "satisfied"
        /\ CreditedToOldCode(k) <=> CheckRequirement(asked, ctx).already
        /\ asked.category = "testing" /\ asked.suggested = <<>>
    BY SatisfiedRequirement
  <2>2. Other!Inconclusive.status # "satisfied"
    BY DEF Other!Inconclusive, Other!Outcome
  <2>3. CheckRequirement(asked, ctx) = Testing!TestingRule(req, ctx)
    <3> HIDE DEF ctx, asked
    <3> QED
      BY <2>1, <2>2, Zenon DEF CheckRequirement
  <2>4. ctx.tests = case.tests /\ ctx.testsBefore = case.testsBefore
    BY TestsOfTheContext
  <2> HIDE DEF ctx, req
  <2>5. IF Testing!TestingRule(req, ctx).already
        THEN /\ \E t \in case.testsBefore : Testing!RunsFor(t, req)
             /\ Testing!ChangedTests(case.tests, case.testsBefore) = {}
        ELSE \E t \in case.tests : Testing!Collected(t) /\ Testing!RunsFor(t, req)
    BY <2>1, <2>3, <2>4, TestingRuleNeedsATest
  <2> QED
    BY <2>1, <2>3, <2>5, TestsThatStayed DEF req
<1> QED
  BY <1>1, ReviewInvariant, PTL

-----------------------------------------------------------------------------
(***************************************************************************)
(* Requests for range checks.                                              *)
(***************************************************************************)
\* Whether a condition holds for a half of some number.
HoldsTwice(cond, twice) ==
  IF cond.join = "or" THEN \E a \in cond.atoms : Validation!Compare(a.rel, twice, 2 * a.n)
  ELSE \A a \in cond.atoms : Validation!Compare(a.rel, twice, 2 * a.n)

\* Comparing twice the numbers is comparing the numbers.
LEMMA Halves ==
  ASSUME NEW line, OneSided(line), NEW v \in Int
  PROVE  HoldsTwice(line.cond, 2 * v) <=> HoldsFor(line.cond, v)
<1>1. ASSUME NEW a \in line.cond.atoms
      PROVE  Validation!Compare(a.rel, 2 * v, 2 * a.n) <=> Validation!Compare(a.rel, v, a.n)
  <2>1. a.rel \in {"<", "<=", ">", ">="} /\ a.n \in Int
    BY DEF OneSided
  <2>2. /\ 2 * v < 2 * a.n <=> v < a.n
        /\ 2 * v <= 2 * a.n <=> v <= a.n
        /\ 2 * v > 2 * a.n <=> v > a.n
        /\ 2 * v >= 2 * a.n <=> v >= a.n
    BY <2>1
  <2> QED
    BY <2>1, <2>2 DEF Validation!Compare
<1> QED
  BY <1>1 DEF HoldsTwice, HoldsFor

\* For a guard on one name alone, what the rule evaluates is what holds.
LEMMA EvaluatedForOneName ==
  ASSUME NEW cond, NEW x, NEW value,
         \A a \in cond.atoms : /\ a.test = "cmp" /\ a.name = x
                               /\ Validation!Compare(a.rel, value, 2 * a.n) \in BOOLEAN
  PROVE  Validation!Evaluate(cond, x, value) = {HoldsTwice(cond, value)}
<1> DEFINE Truth(a) == Validation!Compare(a.rel, value, 2 * a.n)
           truths == {{Truth(a)} : a \in cond.atoms}
<1>1. {Validation!AtomTruth(a, x, value) : a \in cond.atoms} = truths
  BY DEF Validation!AtomTruth
<1>2. BOOLEAN \notin truths
  OBVIOUS
<1>3. \A b \in BOOLEAN : {b} \in truths <=> \E a \in cond.atoms : Truth(a) = b
  OBVIOUS
<1>4. Validation!Evaluate(cond, x, value) =
        IF {cond.join = "or"} \in truths THEN {cond.join = "or"} ELSE {~(cond.join = "or")}
  BY <1>1, <1>2 DEF Validation!Evaluate
<1>5. \A a \in cond.atoms : Truth(a) \in BOOLEAN
  OBVIOUS
<1> HIDE DEF truths, Truth
<1>6. CASE cond.join = "or"
  <2>1. HoldsTwice(cond, value) <=> \E a \in cond.atoms : Truth(a) = TRUE
    BY <1>5, <1>6 DEF HoldsTwice, Truth
  <2>2. HoldsTwice(cond, value) \in BOOLEAN
    BY DEF HoldsTwice
  <2>3. Validation!Evaluate(cond, x, value) = IF {TRUE} \in truths THEN {TRUE} ELSE {FALSE}
    BY <1>4, <1>6
  <2> QED
    BY <1>3, <2>1, <2>2, <2>3
<1>7. CASE cond.join # "or"
  <2>1. HoldsTwice(cond, value) <=> ~ \E a \in cond.atoms : Truth(a) = FALSE
    BY <1>5, <1>7 DEF HoldsTwice, Truth
  <2>2. HoldsTwice(cond, value) \in BOOLEAN
    BY DEF HoldsTwice
  <2>3. Validation!Evaluate(cond, x, value) = IF {FALSE} \in truths THEN {FALSE} ELSE {TRUE}
    BY <1>4, <1>7
  <2> QED
    BY <1>3, <2>1, <2>2, <2>3
<1> QED
  BY <1>6, <1>7

\* A one-sided guard that holds at a value and not at another holds, or fails,
\* at all values further on.
LEMMA FurtherOn ==
  ASSUME NEW line, OneSided(line), NEW inner \in Int, NEW outer \in Int, NEW v \in Int,
         \/ outer < inner /\ v <= outer
         \/ outer > inner /\ v >= outer,
         HoldsTwice(line.cond, inner) <=> line.kind = "assert",
         HoldsTwice(line.cond, outer) <=> line.kind # "assert"
  PROVE  HoldsTwice(line.cond, v) <=> line.kind # "assert"
<1> DEFINE atoms == line.cond.atoms
           Truth(a, w) == Validation!Compare(a.rel, w, 2 * a.n)
<1>2. ASSUME NEW a \in atoms
      PROVE  /\ Truth(a, outer) /\ ~Truth(a, inner) => Truth(a, v)
             /\ ~Truth(a, outer) /\ Truth(a, inner) => ~Truth(a, v)
  <2>1. a.rel \in {"<", "<=", ">", ">="} /\ a.n \in Int
    BY DEF OneSided
  <2>2. CASE a.rel = "<"
    <3>1. /\ Truth(a, outer) <=> outer < 2 * a.n
          /\ Truth(a, inner) <=> inner < 2 * a.n
          /\ Truth(a, v) <=> v < 2 * a.n
      BY <2>2 DEF Validation!Compare
    <3> HIDE DEF Truth
    <3> QED
      BY <2>1, <3>1
  <2>3. CASE a.rel = "<="
    <3>1. /\ Truth(a, outer) <=> outer <= 2 * a.n
          /\ Truth(a, inner) <=> inner <= 2 * a.n
          /\ Truth(a, v) <=> v <= 2 * a.n
      BY <2>3 DEF Validation!Compare
    <3> HIDE DEF Truth
    <3> QED
      BY <2>1, <3>1
  <2>4. CASE a.rel = ">"
    <3>1. /\ Truth(a, outer) <=> outer > 2 * a.n
          /\ Truth(a, inner) <=> inner > 2 * a.n
          /\ Truth(a, v) <=> v > 2 * a.n
      BY <2>4 DEF Validation!Compare
    <3> HIDE DEF Truth
    <3> QED
      BY <2>1, <3>1
  <2>5. CASE a.rel = ">="
    <3>1. /\ Truth(a, outer) <=> outer >= 2 * a.n
          /\ Truth(a, inner) <=> inner >= 2 * a.n
          /\ Truth(a, v) <=> v >= 2 * a.n
      BY <2>5 DEF Validation!Compare
    <3> HIDE DEF Truth
    <3> QED
      BY <2>1, <3>1
  <2> QED
    BY <2>1, <2>2, <2>3, <2>4, <2>5
<1> HIDE DEF Truth
<1>3. \A w : HoldsTwice(line.cond, w)
               <=> IF line.cond.join = "or" THEN \E a \in atoms : Truth(a, w)
                   ELSE \A a \in atoms : Truth(a, w)
  BY DEF HoldsTwice, Truth
<1>4. CASE \E a \in atoms : atoms = {a}
  <2>1. PICK a \in atoms : atoms = {a}
    BY <1>4
  <2>2. \A w : HoldsTwice(line.cond, w) <=> Truth(a, w)
    BY <1>3, <2>1
  <2> QED
    BY <1>2, <2>2
<1>5. CASE line.kind = "assert" /\ line.cond.join = "and"
  BY <1>2, <1>3, <1>5
<1>6. CASE line.kind # "assert" /\ line.cond.join = "or"
  BY <1>2, <1>3, <1>6
<1> QED
  BY <1>4, <1>5, <1>6 DEF OneSided

\* A one-sided guard the rule accepts for a bound turns away all outside it.
LEMMA AcceptedGuardsTurnAway ==
  ASSUME NEW line, OneSided(line), NEW names, Names(line.cond) \cap names # {},
         NEW bound, Validation!Stated(bound) \subseteq Int,
         Validation!BoundsOk(line.cond, bound), Validation!PolarityOk(line, names, bound),
         NEW v \in Int, Outside(bound, v)
  PROVE  HoldsFor(line.cond, v) # (line.kind = "assert")
<1> DEFINE Turned(w) == HoldsTwice(line.cond, w) <=> line.kind # "assert"
           Kept(w) == HoldsTwice(line.cond, w) <=> line.kind = "assert"
           u == 2 * v
<1>0. /\ \A w : HoldsTwice(line.cond, w) \in BOOLEAN
      /\ HoldsFor(line.cond, v) \in BOOLEAN /\ u \in Int
      /\ HoldsTwice(line.cond, u) <=> HoldsFor(line.cond, v)
  BY Halves DEF HoldsTwice, HoldsFor
<1>1. PICK x : Names(line.cond) = {x} /\ x \in names
  BY DEF OneSided
<1>2. Validation!Names(line.cond) \cap names = {x}
  BY <1>1 DEF Names, Validation!Names
<1>3. Cardinality({x}) = 1
  BY FS_Singleton
<1>4. (CHOOSE n \in {x} : TRUE) = x
  OBVIOUS
<1>5. /\ \A w \in Validation!Accepted(bound) :
           (line.kind = "assert") \in Validation!Evaluate(line.cond, x, w)
      /\ \A w \in Validation!Rejected(bound) :
           (line.kind # "assert") \in Validation!Evaluate(line.cond, x, w)
  <2> DEFINE tested == Validation!Names(line.cond) \cap names
             chosen == CHOOSE n \in tested : TRUE
             raises == line.kind # "assert"
  <2>0. Validation!Cardinality({x}) = Cardinality({x})
    BY DEF Cardinality, Validation!Cardinality
  <2>1. \/ Validation!Cardinality(tested) # 1
        \/ /\ \A w \in Validation!Accepted(bound) :
                (~raises) \in Validation!Evaluate(line.cond, chosen, w)
           /\ \A w \in Validation!Rejected(bound) :
                raises \in Validation!Evaluate(line.cond, chosen, w)
    BY Zenon DEF Validation!PolarityOk
  <2>2. Validation!Cardinality(tested) = 1 /\ chosen = x
    BY <2>0, <1>2, <1>3, <1>4
  <2> HIDE DEF tested, chosen
  <2> QED
    BY <2>1, <2>2
<1>6. ASSUME NEW w \in Int
      PROVE  Validation!Evaluate(line.cond, x, w) = {HoldsTwice(line.cond, w)}
  <2>1. ASSUME NEW a \in line.cond.atoms
        PROVE  /\ a.test = "cmp" /\ a.name = x
               /\ Validation!Compare(a.rel, w, 2 * a.n) \in BOOLEAN
    <3>1. a.test = "cmp" /\ a.rel \in {"<", "<=", ">", ">="}
      BY DEF OneSided
    <3>2. a.name = x
      BY <1>1 DEF Names
    <3>3. Validation!Compare(a.rel, w, 2 * a.n) \in BOOLEAN
      <4>1. CASE a.rel = "<"
        BY <4>1 DEF Validation!Compare
      <4>2. CASE a.rel = "<="
        BY <4>2 DEF Validation!Compare
      <4>3. CASE a.rel = ">"
        BY <4>3 DEF Validation!Compare
      <4>4. CASE a.rel = ">="
        BY <4>4 DEF Validation!Compare
      <4> QED
        BY <3>1, <4>1, <4>2, <4>3, <4>4
    <3> QED
      BY <3>1, <3>2, <3>3
  <2> QED
    BY <2>1, EvaluatedForOneName
<1>7. /\ \A w \in Validation!Accepted(bound) \cap Int : Kept(w)
      /\ \A w \in Validation!Rejected(bound) \cap Int : Turned(w)
  BY <1>0, <1>5, <1>6
<1> HIDE DEF Kept, Turned, u
<1>8. ASSUME NEW inner \in Int, NEW outer \in Int, Kept(inner), Turned(outer),
             \/ outer < inner /\ u <= outer
             \/ outer > inner /\ u >= outer
      PROVE  Turned(u)
  BY <1>0, <1>8, FurtherOn DEF Kept, Turned
<1>9. CASE bound.shape = "between"
  <2> DEFINE low == Validation!Low(bound)
             high == Validation!High(bound)
  <2>1. low \in Int /\ high \in Int /\ low <= high
    BY <1>9 DEF Validation!Stated, Validation!Low, Validation!High
  <2>2. /\ v < low \/ v > high
        /\ Validation!Accepted(bound) = {low + high}
        /\ Validation!Rejected(bound) = {2 * low - 2, 2 * high + 2}
    BY <1>9, Zenon DEF Validation!Accepted, Validation!Rejected, Outside
  <2> HIDE DEF low, high
  <2>3. /\ low + high \in Int /\ 2 * low - 2 \in Int /\ 2 * high + 2 \in Int
        /\ 2 * low - 2 < low + high /\ 2 * high + 2 > low + high
        /\ u <= 2 * low - 2 \/ u >= 2 * high + 2
    BY <2>1, <2>2 DEF u
  <2>4. Kept(low + high) /\ Turned(2 * low - 2) /\ Turned(2 * high + 2)
    BY <1>7, <2>2, <2>3
  <2>5. Turned(u)
    BY <1>8, <2>3, <2>4
  <2> QED
    BY <1>0, <2>5 DEF Turned
<1>10. CASE bound.shape = "at least"
  <2>0. /\ Validation!Stated(bound) = {bound.lo} /\ v < bound.lo
        /\ Validation!Accepted(bound) = {2 * bound.lo}
        /\ Validation!Rejected(bound) = {2 * bound.lo - 2}
    BY <1>10, Zenon DEF Validation!Stated, Validation!Accepted, Validation!Rejected, Outside
  <2>1. bound.lo \in Int
    BY <2>0
  <2>2. /\ 2 * bound.lo \in Int /\ 2 * bound.lo - 2 \in Int
        /\ 2 * bound.lo - 2 < 2 * bound.lo /\ u <= 2 * bound.lo - 2
    BY <2>0, <2>1 DEF u
  <2>3. Kept(2 * bound.lo) /\ Turned(2 * bound.lo - 2)
    BY <1>7, <2>0, <2>2
  <2>4. Turned(u)
    BY <1>8, <2>2, <2>3
  <2> QED
    BY <1>0, <2>4 DEF Turned
<1>11. CASE bound.shape = "at most"
  <2>0. /\ Validation!Stated(bound) = {bound.hi} /\ v > bound.hi
        /\ Validation!Accepted(bound) = {2 * bound.hi}
        /\ Validation!Rejected(bound) = {2 * bound.hi + 2}
    BY <1>11, Zenon DEF Validation!Stated, Validation!Accepted, Validation!Rejected, Outside
  <2>1. bound.hi \in Int
    BY <2>0
  <2>2. /\ 2 * bound.hi \in Int /\ 2 * bound.hi + 2 \in Int
        /\ 2 * bound.hi + 2 > 2 * bound.hi /\ u >= 2 * bound.hi + 2
    BY <2>0, <2>1 DEF u
  <2>3. Kept(2 * bound.hi) /\ Turned(2 * bound.hi + 2)
    BY <1>7, <2>0, <2>2
  <2>4. Turned(u)
    BY <1>8, <2>2, <2>3
  <2> QED
    BY <1>0, <2>4 DEF Turned
<1>12. CASE bound.shape = "not negative"
  <2>0. v < 0 /\ Validation!Accepted(bound) = {0, 2} /\ Validation!Rejected(bound) = {-2}
    BY <1>12, Zenon DEF Validation!Accepted, Validation!Rejected, Outside
  <2>1. u <= -2
    BY <2>0 DEF u
  <2>2. Kept(0) /\ Turned(-2)
    BY <1>7, <2>0
  <2>3. Turned(u)
    BY <1>8, <2>1, <2>2
  <2> QED
    BY <1>0, <2>3 DEF Turned
<1>13. CASE bound.shape = "positive"
  <2>0. v <= 0 /\ Validation!Accepted(bound) = {2} /\ Validation!Rejected(bound) = {-2}
    BY <1>13, Zenon DEF Validation!Accepted, Validation!Rejected, Outside
  <2>1. u <= 0
    BY <2>0 DEF u
  <2>2. Kept(2) /\ Turned(-2)
    BY <1>7, <2>0
  <2>3. PICK a \in line.cond.atoms :
          <<a.rel, a.n>> \in {<<"<=", 0>>, <<">", 0>>, <<"<", 1>>, <<">=", 1>>}
    <3>1. Validation!Stated(bound) = {}
      BY <1>13 DEF Validation!Stated
    <3>2. Validation!Comparisons(line.cond) \cap {<<"<=", 0>>, <<">", 0>>, <<"<", 1>>, <<">=", 1>>} # {}
      BY <1>13, <3>1 DEF Validation!BoundsOk
    <3> QED
      BY <3>2 DEF Validation!Comparisons
  <2>4. Turned(0)
    <3> DEFINE Truth(b, w) == Validation!Compare(b.rel, w, 2 * b.n)
    <3>1. \/ Truth(a, 0) = TRUE /\ Truth(a, 2) = FALSE
          \/ Truth(a, 0) = FALSE /\ Truth(a, 2) = TRUE
      <4>1. CASE a.rel = "<=" /\ a.n = 0
        BY <4>1 DEF Validation!Compare
      <4>2. CASE a.rel = ">" /\ a.n = 0
        BY <4>2 DEF Validation!Compare
      <4>3. CASE a.rel = "<" /\ a.n = 1
        BY <4>3 DEF Validation!Compare
      <4>4. CASE a.rel = ">=" /\ a.n = 1
        BY <4>4 DEF Validation!Compare
      <4> QED
        BY <2>3, <4>1, <4>2, <4>3, <4>4
    <3> HIDE DEF Truth
    <3>2. \A w : HoldsTwice(line.cond, w)
                   <=> IF line.cond.join = "or" THEN \E b \in line.cond.atoms : Truth(b, w)
                       ELSE \A b \in line.cond.atoms : Truth(b, w)
      BY DEF HoldsTwice, Truth
    <3>3. \/ \E b \in line.cond.atoms : line.cond.atoms = {b}
          \/ line.kind = "assert" /\ line.cond.join = "and"
          \/ line.kind # "assert" /\ line.cond.join = "or"
      BY DEF OneSided
    <3> QED
      BY <2>2, <3>1, <3>2, <3>3 DEF Kept, Turned
  <2>5. Turned(u)
    BY <1>8, <2>1, <2>2, <2>4
  <2> QED
    BY <1>0, <2>5 DEF Turned
<1>14. bound.shape \in {"between", "at least", "at most", "not negative", "positive"}
  BY Zenon DEF Outside
<1> QED
  BY <1>9, <1>10, <1>11, <1>12, <1>13, <1>14, Zenon

\* The queries on code are those of the analysis, whichever rule asks them.
LEMMA QueriesOfValidation ==
  ASSUME NEW code
  PROVE  /\ Validation!Guards(code) = Guards(code)
         /\ \A i : Validation!Rejects(code, i) = Rejects(code, i)
         /\ \A cond : Validation!Names(cond) = Names(cond)
<1>1. Validation!Around(code) = Around(code)
  BY Zenon DEF Validation!Around, Around
<1>2. \A i : Validation!Unreachable(code, i) = Unreachable(code, i)
  BY <1>1 DEF Validation!Unreachable, Unreachable, Validation!Clauses, Clauses,
              Validation!Exits, Exits
<1>3. \A i : Validation!Block(code, i) = Block(code, i)
  BY <1>1 DEF Validation!Block, Block, Validation!Clauses, Clauses
<1>4. \A i : Validation!Rejects(code, i) = Rejects(code, i)
  BY <1>3 DEF Validation!Rejects, Rejects
<1>5. Validation!Guards(code) = Guards(code)
  BY <1>2 DEF Validation!Guards, Guards
<1> QED
  BY <1>4, <1>5 DEF Validation!Names, Names

\* What the rule takes for a range check, it has judged.
LEMMA CandidatesAreJudged ==
  ASSUME NEW req, NEW ctx, NEW g \in Validation!Candidates(ctx, req, "range")
  PROVE  /\ g \in RejectingGuards(ctx.after)
         /\ Names(ctx.after[g].cond) \cap req.names # {}
         /\ Validation!BoundsOk(ctx.after[g].cond, req.bound)
         /\ Validation!PolarityOk(ctx.after[g], req.names, req.bound)
<1>1. /\ g \in Validation!OnTarget(ctx, req.names) /\ Validation!Rejects(ctx.after, g)
      /\ Validation!BoundsOk(ctx.after[g].cond, req.bound)
      /\ Validation!PolarityOk(ctx.after[g], req.names, req.bound)
  BY Zenon DEF Validation!Candidates
<1>2. g \in Validation!Guards(ctx.after)
      /\ Validation!Names(ctx.after[g].cond) \cap req.names # {}
  BY <1>1 DEF Validation!OnTarget
<1> QED
  BY <1>1, <1>2, QueriesOfValidation DEF RejectingGuards

\* A range request that no called helper answers is answered by such a check.
LEMMA RangeNeedsACandidate ==
  ASSUME NEW req, NEW ctx, Validation!ValidationRule(req, ctx).status = "satisfied",
         req.kinds = {"range"}, Validation!Delegated(ctx, req.names, {"range"}) # "satisfied"
  PROVE  Validation!Candidates(ctx, req, "range") # {}
<1> SUFFICES ASSUME Validation!Candidates(ctx, req, "range") = {}
             PROVE  FALSE
  OBVIOUS
<1>1. {k \in {"range"} : Validation!Candidates(ctx, req, k) = {}} = {"range"}
  OBVIOUS
<1> DEFINE delegated == Validation!Delegated(ctx, req.names, {"range"})
           undecided == delegated = "none" /\ Validation!BehindFlag(ctx, req.names) = "unknown"
<1>2. Validation!ValidationRule(req, ctx) =
        IF req.names = {} THEN Validation!Inconclusive
        ELSE CASE delegated = "satisfied" -> Validation!Satisfied(FALSE)
               [] delegated = "inconclusive" -> Validation!Inconclusive
               [] undecided -> Validation!Inconclusive
               [] OTHER -> Validation!NotSatisfied
  <2>1. Validation!Missing(req, ctx) = {"range"} /\ {"range"} # {}
    BY <1>1 DEF Validation!Missing, Validation!Kinds
  <2> QED
    BY <2>1 DEF Validation!ValidationRule
<1>3. Validation!ValidationRule(req, ctx)
        \in {Validation!Inconclusive, Validation!NotSatisfied}
  BY <1>2, Zenon
<1>4. /\ Validation!Inconclusive.status # "satisfied"
      /\ Validation!NotSatisfied.status # "satisfied"
  BY DEF Validation!Inconclusive, Validation!NotSatisfied, Validation!Outcome
<1> QED
  BY <1>3, <1>4

\* A range request is satisfied by a guard of the target only if the guards turn away every
\* value outside the bound, as far as the rule can judge them.
THEOREM RangeGuardsRejectOutside == Spec => []RangeGuardRejectsWhatWasAsked
<1>1. ReviewInv => RangeGuardRejectsWhatWasAsked
  <2> SUFFICES ASSUME ReviewInv, NEW req \in SatisfiedRequests("validation")
               PROVE  RejectsOutside(RuleContext(case), req)
    BY DEF RangeGuardRejectsWhatWasAsked, EverySatisfied
  <2> DEFINE ctx == RuleContext(case)
             code == ctx.after
  <2>1. Validation!ValidationRule(req, ctx).status = "satisfied"
    <3>1. PICK asked : /\ CheckRequirement(asked, ctx).status = "satisfied"
                       /\ asked.category = "validation" /\ asked.suggested = <<>>
                       /\ req = asked.reads["validation"]
      BY SatisfiedRequest
    <3>2. Other!Inconclusive.status # "satisfied"
      BY DEF Other!Inconclusive, Other!Outcome
    <3>3. CheckRequirement(asked, ctx) = Validation!ValidationRule(req, ctx)
      BY <3>1, <3>2, Zenon DEF CheckRequirement
    <3> QED
      BY <3>1, <3>3
  <2> HIDE DEF ctx
  <2>2. ASSUME req.kinds = {"range"}, Validation!Stated(req.bound) \subseteq Int,
               Validation!Delegated(ctx, req.names, {"range"}) # "satisfied",
               \A g \in Validation!Candidates(ctx, req, "range") : OneSided(code[g]),
               NEW v \in -2..6, Outside(req.bound, v)
        PROVE  \E g \in RejectingGuards(code) :
                 /\ Names(code[g].cond) \subseteq req.names
                 /\ HoldsFor(code[g].cond, v) # (code[g].kind = "assert")
    <3>1. PICK g \in Validation!Candidates(ctx, req, "range") : OneSided(code[g])
      BY <2>1, <2>2, RangeNeedsACandidate
    <3>2. /\ g \in RejectingGuards(code) /\ Names(code[g].cond) \cap req.names # {}
          /\ Validation!BoundsOk(code[g].cond, req.bound)
          /\ Validation!PolarityOk(code[g], req.names, req.bound)
      BY CandidatesAreJudged
    <3>3. Names(code[g].cond) \subseteq req.names
      BY <3>1, <3>2 DEF OneSided
    <3>4. v \in Int
      OBVIOUS
    <3>5. HoldsFor(code[g].cond, v) # (code[g].kind = "assert")
      BY <2>2, <3>1, <3>2, <3>4, AcceptedGuardsTurnAway
    <3> QED
      BY <3>2, <3>3, <3>5
  <2> QED
    BY <2>2 DEF RejectsOutside, ctx
<1> QED
  BY <1>1, ReviewInvariant, PTL

-----------------------------------------------------------------------------
(***************************************************************************)
(* Requests for an answer when something is missing.                       *)
(***************************************************************************)

\* A branch on one of the names, that means absent where one test decides, is one that
\* is taken without them.
LEMMA BranchesMeanAbsent ==
  ASSUME NEW b, NEW names, Names(b.cond) \cap names # {}, b.negated \in BOOLEAN,
         Api!Absent(b.cond) # b.negated, OneDecides(b)
  PROVE  IF b.negated THEN CanHoldWithout(b.cond, names).fails
         ELSE CanHoldWithout(b.cond, names).holds
<1> DEFINE atoms == b.cond.atoms
           join == b.cond.join
           isNone(a) == a.test = "is" /\ a.rel # "is not"
           can(a) == \/ a.name \notin names
                     \/ a.test \in {"not", "except", "cmp", "type"} \/ isNone(a)
           must(a) == a.name \in names /\ (a.test = "not" \/ isNone(a))
           notNone(a) == a.test = "is" /\ a.rel = "is not"
           absent(a) == a.test \in {"not", "is"} \/ (a.test = "cmp" /\ a.rel = "==" /\ a.n = 0)
<1>1. /\ CanHoldWithout(b.cond, names).holds
           <=> IF join = "and" THEN \A a \in atoms : can(a) ELSE \E a \in atoms : can(a)
      /\ CanHoldWithout(b.cond, names).fails
           <=> IF join = "or" THEN \A a \in atoms : ~must(a) ELSE \E a \in atoms : ~must(a)
  BY DEF CanHoldWithout
<1>2. Api!Absent(b.cond)
        <=> (\A a \in atoms : ~notNone(a)) /\ (join = "except" \/ \E a \in atoms : absent(a))
  BY DEF Api!Absent
<1>3. atoms # {}
  BY DEF Names
<1>4. \A a \in atoms : /\ absent(a) /\ ~notNone(a) => can(a)
                       /\ notNone(a) => ~must(a)
                       /\ ~absent(a) => ~must(a)
                       /\ a.test = "except" => can(a) /\ ~must(a)
  OBVIOUS
<1>5. /\ Api!Absent(b.cond) \in BOOLEAN
      /\ CanHoldWithout(b.cond, names).holds \in BOOLEAN
      /\ CanHoldWithout(b.cond, names).fails \in BOOLEAN
  BY DEF Api!Absent, CanHoldWithout
<1>6. \/ join # "except" /\ \E a \in atoms : atoms = {a}
      \/ join = IF b.negated THEN "and" ELSE "or"
      \/ \A a \in atoms : a.test = "except"
  BY DEF OneDecides
<1> HIDE DEF can, must, notNone, absent, atoms, join
<1>7. CASE b.negated
  <2>1. \/ \E a \in atoms : notNone(a)
        \/ join # "except" /\ \A a \in atoms : ~absent(a)
    BY <1>2, <1>5, <1>7
  <2>2. CASE join # "except" /\ \E a \in atoms : atoms = {a}
    BY <1>1, <1>4, <1>7, <2>1, <2>2
  <2>3. CASE join = "and"
    BY <1>1, <1>3, <1>4, <1>7, <2>1, <2>3
  <2>4. CASE \A a \in atoms : a.test = "except"
    BY <1>1, <1>3, <1>4, <1>7, <2>4
  <2> QED
    BY <1>6, <1>7, <2>2, <2>3, <2>4
<1>8. CASE ~b.negated
  <2>1. /\ \A a \in atoms : ~notNone(a)
        /\ join = "except" \/ \E a \in atoms : absent(a)
    BY <1>2, <1>5, <1>8
  <2>2. CASE join # "except" /\ \E a \in atoms : atoms = {a}
    BY <1>1, <1>4, <1>8, <2>1, <2>2
  <2>3. CASE join = "or"
    BY <1>1, <1>4, <1>8, <2>1, <2>3
  <2>4. CASE \A a \in atoms : a.test = "except"
    BY <1>1, <1>3, <1>4, <1>8, <2>4
  <2> QED
    BY <1>6, <1>8, <2>2, <2>3, <2>4
<1> QED
  BY <1>7, <1>8

\* A branch is the condition's or its else's.
LEMMA SidesOfBranches ==
  ASSUME NEW code, NEW handlers, NEW s \in Api!Sites(code, handlers), NEW b \in s.branch
  PROVE  b.negated \in BOOLEAN
<1>1. PICK i : s.branch = Api!Branch(code, i)
  BY DEF Api!Sites, Api!Responses
<1>2. PICK a \in DOMAIN code \cup Api!Around(code)[i] :
        b \in LET l == code[a] IN
                CASE l.kind \in {"if", "elif"} ->
                       IF i \in Api!Block(code, a) THEN {[cond |-> l.cond, negated |-> FALSE]} ELSE {}
                  [] l.kind = "else" /\ code[l.up].kind \in {"if", "while"} ->
                       {[cond |-> code[l.up].cond, negated |-> TRUE]}
                  [] l.kind = "except" -> {[cond |-> Api!ExceptCond(code, a), negated |-> FALSE]}
                  [] OTHER -> {}
  BY <1>1 DEF Api!Branch
<1>3. \E cond : \/ b = [cond |-> cond, negated |-> FALSE]
                \/ b = [cond |-> cond, negated |-> TRUE]
  BY <1>2
<1>4. PICK cond : \/ b = [cond |-> cond, negated |-> FALSE]
                  \/ b = [cond |-> cond, negated |-> TRUE]
  BY <1>3
<1>5. CASE b = [cond |-> cond, negated |-> FALSE]
  BY <1>5
<1>6. CASE b = [cond |-> cond, negated |-> TRUE]
  BY <1>6
<1> QED
  BY <1>4, <1>5, <1>6

\* A satisfied request for an answer under a condition has a response on such a branch.
LEMMA StatusNeedsABranch ==
  ASSUME NEW req, NEW ctx, Api!ApiRule(req, ctx).status = "satisfied",
         req.codes # {}, req.conditional, req.absence
  PROVE  \E s \in Api!Sites(ctx.after, ctx.handlers) : \E b \in s.branch :
           /\ s.code \in req.codes
           /\ Names(b.cond) \cap Api!ConditionNames(req, ctx.after) # {}
           /\ Api!Absent(b.cond) # b.negated
<1> DEFINE names == Api!ConditionNames(req, ctx.after)
           sites == Api!Sites(ctx.after, ctx.handlers)
           hits(code) == {s \in sites : s.code = code /\ Api!OnBranch(s, names, req)}
           unread == names = {} /\ \E s \in sites : s.code \in req.codes /\ s.branch # {}
           missing == \E code \in req.codes : hits(code) = {}
<1>1. Api!StatusRule(req, ctx).status = "satisfied"
  BY Zenon DEF Api!ApiRule
<1>2. /\ Api!Inconclusive.status # "satisfied" /\ Api!NotSatisfied.status # "satisfied"
  BY DEF Api!Inconclusive, Api!NotSatisfied, Api!Outcome
<1>3. ~unread /\ ~missing
  <2>1. CASE unread
    <3>1. Api!StatusRule(req, ctx) = Api!Inconclusive
      BY <2>1 DEF Api!StatusRule
    <3> QED
      BY <1>1, <1>2, <3>1
  <2>2. CASE ~unread /\ missing
    <3>1. Api!StatusRule(req, ctx) = Api!NotSatisfied
      BY <2>2 DEF Api!StatusRule
    <3> QED
      BY <1>1, <1>2, <3>1
  <2> QED
    BY <2>1, <2>2
<1>4. PICK code \in req.codes : hits(code) # {}
  BY <1>3
<1>5. PICK s \in sites : s.code = code /\ Api!OnBranch(s, names, req)
  BY <1>4
<1> HIDE DEF sites, names
<1>6. PICK b \in s.branch : /\ names = {} \/ Api!Names(b.cond) \cap names # {}
                            /\ Api!Absent(b.cond) # b.negated
  BY <1>5 DEF Api!OnBranch
<1>7. names # {}
  BY <1>3, <1>5, <1>6
<1> QED
  BY <1>5, <1>6, <1>7 DEF sites, names, Names, Api!Names

\* An answer asked for when something is missing is given where a missing one leads, as far
\* as one test decides it.
THEOREM AbsentIsAnswered == Spec => []AbsentGoesToItsBranch
<1>1. ReviewInv => AbsentGoesToItsBranch
  <2> SUFFICES ASSUME ReviewInv, NEW req \in SatisfiedRequests("api_behavior")
               PROVE  AnsweredWhenAbsent(RuleContext(case), req)
    BY DEF AbsentGoesToItsBranch, EverySatisfied
  <2> DEFINE ctx == RuleContext(case)
             names == Api!ConditionNames(req, ctx.after)
  <2>1. Api!ApiRule(req, ctx).status = "satisfied"
    <3>1. PICK asked : /\ CheckRequirement(asked, ctx).status = "satisfied"
                       /\ asked.category = "api_behavior" /\ asked.suggested = <<>>
                       /\ req = asked.reads["api_behavior"]
      BY SatisfiedRequest
    <3>2. Other!Inconclusive.status # "satisfied"
      BY DEF Other!Inconclusive, Other!Outcome
    <3>3. CheckRequirement(asked, ctx) = Api!ApiRule(req, ctx)
      BY <3>1, <3>2, Zenon DEF CheckRequirement
    <3> QED
      BY <3>1, <3>3
  <2> HIDE DEF ctx
  <2>2. ASSUME req.codes # {}, req.conditional, req.absence
        PROVE  \E s \in Api!Sites(ctx.after, ctx.handlers) : \E b \in s.branch :
                 /\ s.code \in req.codes /\ Names(b.cond) \cap names # {}
                 /\ OneDecides(b) => IF b.negated THEN CanHoldWithout(b.cond, names).fails
                                     ELSE CanHoldWithout(b.cond, names).holds
    BY <2>1, <2>2, StatusNeedsABranch, SidesOfBranches, BranchesMeanAbsent
  <2> HIDE DEF names
  <2> QED
    BY <2>2 DEF AnsweredWhenAbsent, ctx, names
<1> QED
  BY <1>1, ReviewInvariant, PTL

-----------------------------------------------------------------------------
(***************************************************************************)
(* What the rules look at.                                                 *)
(***************************************************************************)
\* The rules skip no line of the code that some run reaches.
THEOREM SkippedLinesAreDead == Spec => []SkippedLinesNeverRun
<1>1. ReviewInv => SkippedLinesNeverRun
  BY UnreachableIsNotLive DEF ReviewInv, IsCase, SkippedLinesNeverRun
<1> QED
  BY <1>1, ReviewInvariant, PTL

-----------------------------------------------------------------------------
(***************************************************************************)
(* Requests to handle a failure.                                           *)
(***************************************************************************)
\* Two pieces of code, one after the other, are code.
LEMMA JoinedIsCode ==
  ASSUME NEW p, IsCode(p), NEW q, IsCode(q)
  PROVE  IsCode(Joined(p, q))
<1> DEFINE m == Len(p)
           n == Len(q)
           moved == [k \in DOMAIN q |-> [q[k] EXCEPT !.up = IF @ = 0 THEN 0 ELSE @ + m]]
           new == p \o moved
<1>1. /\ m \in Nat /\ DOMAIN p = 1..m
      /\ \A i \in 1..m : /\ IsLine(p[i], i) /\ p[i].up \in 0..(i - 1)
                         /\ MayStand(p[i].kind, KindAround(p, i, "def"))
  BY LinesOfCode DEF IsCode
<1>2. /\ n \in Nat /\ DOMAIN q = 1..n
      /\ \A i \in 1..n : /\ IsLine(q[i], i) /\ q[i].up \in 0..(i - 1)
                         /\ MayStand(q[i].kind, KindAround(q, i, "def"))
  BY LinesOfCode DEF IsCode
<1>3. \A i \in 1..n : /\ {"kind", "up"} \subseteq DOMAIN moved[i] /\ moved[i].kind = q[i].kind
                      /\ moved[i].up = IF q[i].up = 0 THEN 0 ELSE q[i].up + m
  BY <1>2 DEF IsLine
<1>4. moved \in Seq(ToSet(moved)) /\ Len(moved) = n
  <2>1. DOMAIN moved = 1..n /\ moved = [i \in 1..n |-> moved[i]]
    BY <1>2
  <2> HIDE DEF moved
  <2> QED
    BY <1>2, <2>1 DEF ToSet
<1>5. p \in Seq(ToSet(p))
  BY DEF IsCode, IsCodeIn, IsSequence
<1> HIDE DEF moved
<1>6. /\ DOMAIN new = 1..(m + n) /\ new = [i \in 1..(m + n) |-> new[i]]
      /\ \A i \in 1..m : new[i] = p[i]
      /\ \A i \in 1..n : new[m + i] = moved[i]
  <2> DEFINE S == ToSet(p) \cup ToSet(moved)
  <2>0. ToSet(p) \subseteq S /\ ToSet(moved) \subseteq S
    OBVIOUS
  <2> HIDE DEF S
  <2>1. p \in Seq(S) /\ moved \in Seq(S)
    BY <1>4, <1>5, <2>0, SeqMonotonic
  <2> HIDE DEF n
  <2>2. new \in Seq(S) /\ Len(new) = m + n
    BY <1>4, <2>1, ConcatProperties
  <2>3. \A i \in 1..m : new[i] = p[i]
    BY <1>1, <1>2, <1>4, <2>1
  <2>4. \A i \in 1..n : new[m + i] = moved[i]
    BY <1>1, <1>2, <1>4, <2>1
  <2> HIDE DEF new
  <2> QED
    BY <1>1, <1>2, <2>2, <2>3, <2>4
<1> HIDE DEF new
<1>7. ASSUME NEW i \in 1..m
      PROVE  IsLine(new[i], i) /\ MayStand(new[i].kind, KindAround(new, i, "def"))
  <2>1. p[i].up # 0 => p[i].up \in 1..m
    BY <1>1
  <2>2. KindAround(new, i, "def") = KindAround(p, i, "def")
    BY <1>6, <2>1 DEF KindAround
  <2> QED
    BY <1>1, <1>6, <2>2
<1>8. ASSUME NEW i \in 1..n
      PROVE  IsLine(new[m + i], m + i) /\ MayStand(new[m + i].kind, KindAround(new, m + i, "def"))
  <2> DEFINE u == q[i].up
  <2>1. u \in 0..(i - 1) /\ (u # 0 => u \in 1..n)
    BY <1>2
  <2>2. /\ {"kind", "up"} \subseteq DOMAIN new[m + i] /\ new[m + i].kind = q[i].kind
        /\ new[m + i].up = IF u = 0 THEN 0 ELSE m + u
    <3>1. new[m + i] = moved[i]
      BY <1>6
    <3>2. m + u = u + m
      BY <1>1, <2>1
    <3> QED
      BY <1>3, <3>1, <3>2
  <2>3. u # 0 => new[m + u].kind = q[u].kind /\ m + u # 0
    <3> HIDE DEF u, m, n
    <3> SUFFICES ASSUME u # 0
                 PROVE  new[m + u].kind = q[u].kind /\ m + u # 0
      OBVIOUS
    <3>1. u \in 1..n
      BY <2>1
    <3>2. new[m + u] = moved[u] /\ moved[u].kind = q[u].kind
      BY <1>3, <1>6, <3>1
    <3>3. m + u # 0
      BY <1>1, <1>2, <3>1
    <3> QED
      BY <3>2, <3>3
  <2>4. KindAround(new, m + i, "def") = KindAround(q, i, "def")
    BY <2>2, <2>3 DEF KindAround
  <2>5. IsLine(new[m + i], m + i)
    BY <1>1, <2>1, <2>2 DEF IsLine
  <2> QED
    BY <1>2, <2>2, <2>4, <2>5
<1>9. ASSUME NEW i \in 1..(m + n)
      PROVE  IsLine(new[i], i) /\ MayStand(new[i].kind, KindAround(new, i, "def"))
  <2>1. CASE i <= m
    BY <1>1, <1>7, <2>1
  <2>2. CASE ~(i <= m)
    <3>1. i - m \in 1..n /\ m + (i - m) = i
      BY <1>1, <1>2, <2>2
    <3> QED
      BY <1>8, <3>1
  <2> QED
    BY <2>1, <2>2
<1>10. IsCodeIn(new, "def")
  <2>1. m + n \in Nat
    BY <1>1, <1>2
  <2> QED
    BY <1>6, <1>9, <2>1, CodeOfLines
<1> QED
  BY <1>10 DEF IsCode, new, moved, Joined

\* The symbol of one version in another, and the one the line moved to, are symbols.
LEMMA ResolvedSymbols ==
  ASSUME NEW before, NEW after, IsCode(after), NEW anchor,
         NEW r, r = ResolveTarget(before, after, anchor)
  PROVE  r.after \in {0} \cup Symbols(after) /\ r.moved \in {0} \cup Symbols(after)
<1> DEFINE n == Len(after)
<1>1. n \in Nat /\ Symbols(after) \subseteq 1..n
  BY LinesOfCode DEF IsCode, Symbols
<1>2. \A S : S # {} /\ S \subseteq Symbols(after) => Min(S) \in S
  <2> TAKE S
  <2> HAVE S # {} /\ S \subseteq Symbols(after)
  <2>1. PICK i \in S : \A j \in S : i <= j
    BY <1>1, FirstPosition
  <2> QED
    BY <2>1 DEF Min
<1>3. \A line : Enclosing(after, line) \in {0} \cup Symbols(after)
  <2> TAKE line
  <2> DEFINE S == {0} \cup (Around(after)[line] \cap Symbols(after))
  <2>1. Max(S) \in S
    <3>1. CASE S = {0}
      BY <3>1 DEF Max
    <3>2. CASE S # {0}
      <4>1. S \ {0} # {} /\ S \ {0} \subseteq 1..n
        BY <1>1, <3>2
      <4>2. PICK i \in S \ {0} : \A j \in S \ {0} : i >= j
        BY <1>1, <4>1, LastPosition
      <4>3. i \in S /\ \A j \in S : i >= j
        BY <4>1, <4>2
      <4> HIDE DEF S
      <4> QED
        BY <4>3 DEF Max
    <3> QED
      BY <3>1, <3>2
  <2> QED
    BY <2>1 DEF Enclosing
<1>4. \A q : FindSymbol(after, q) \in {0} \cup Symbols(after)
  BY <1>2 DEF FindSymbol
<1>5. \A target : BestRename(before, target, after) \in {0} \cup Symbols(after)
  <2>1. \A sim : DOMAIN sim \subseteq Symbols(after) => MostSimilar(sim) \in {0} \cup Symbols(after)
    BY <1>2 DEF MostSimilar
  <2> QED
    BY <2>1 DEF BestRename
<1>6. \A target : SameSymbol(before, target, after) \in {0} \cup Symbols(after)
  BY <1>4, <1>5 DEF SameSymbol
<1> QED
  BY <1>3, <1>6 DEF ResolveTarget, Resolved

\* So the code the rules look at is code.
LEMMA ScopeIsCode ==
  ASSUME NEW after, IsCode(after), NEW r,
         r.after \in {0} \cup Symbols(after), r.moved \in {0} \cup Symbols(after)
  PROVE  IsCode(ScopeAfter(after, r))
<1> DEFINE symbols == ScopeSymbols(r)
<1>1. /\ Len(after) \in Nat /\ Symbols(after) \subseteq 1..Len(after)
      /\ symbols \subseteq Symbols(after)
  BY LinesOfCode DEF IsCode, Symbols, ScopeSymbols
<1>2. \A s \in Symbols(after) : IsCode(Part(after, s))
  BY ExtentIsCode DEF Part, Symbols, Clauses
<1>3. ASSUME symbols # {}
      PROVE  Min(symbols) \in symbols /\ Max(symbols) \in symbols
  <2> HIDE DEF symbols
  <2>1. PICK i \in symbols : \A j \in symbols : i <= j
    BY <1>1, <1>3, FirstPosition
  <2>2. PICK k \in symbols : \A j \in symbols : k >= j
    BY <1>1, <1>3, LastPosition
  <2> QED
    BY <2>1, <2>2 DEF Min, Max
<1>4. IsCode(<<>>)
  BY DEF IsCode, IsCodeIn, IsSequence
<1>5. symbols # {} => /\ IsCode(Part(after, Min(symbols)))
                      /\ IsCode(Joined(Part(after, Min(symbols)), Part(after, Max(symbols))))
  BY <1>1, <1>2, <1>3, JoinedIsCode
<1> QED
  BY <1>4, <1>5 DEF ScopeAfter

\* The rules see the code of the case: that of its target.
LEMMA CodeOfTheContext ==
  ASSUME NEW c, IsCase(c)
  PROVE  IsCode(RuleContext(c).after)
<1> DEFINE r == ResolveTarget(c.before, c.after, c.anchor)
<1>1. \A x, new : ContextOf(c, x, new).after = ScopeAfter(c.after, x)
  BY DEF ContextOf, With
<1>2. RuleContext(c).after = ScopeAfter(c.after, r)
  BY <1>1 DEF RuleContext, ContextFor
<1>3. IsCode(c.after)
  BY DEF IsCase
<1> QED
  BY <1>2, <1>3, ResolvedSymbols, ScopeIsCode

\* The queries on code are those of the analysis, for this rule, too.
LEMMA QueriesOfErrors ==
  ASSUME NEW code
  PROVE  /\ Errors!RejectingGuards(code) = RejectingGuards(code)
         /\ Errors!Handlers(code) = Handlers(code)
         /\ \A h : /\ Errors!Swallows(code, h) <=> Swallows(code, h)
                   /\ Errors!Protected(code, h) = Protected(code, h)
                   /\ Errors!Caught(code, h) = Caught(code, h)
                   /\ Errors!IsBroad(code, h) <=> IsBroad(code, h)
                   /\ Errors!OnlyReraises(code, h) <=> OnlyReraises(code, h)
         /\ \A h, k : Errors!Precedes(code, h, k) <=> Precedes(code, h, k)
         /\ \A lines : Errors!CallsOf(code, lines) = CallsOf(code, lines)
         /\ \A cond : Errors!Names(cond) = Names(cond)
<1>1. Errors!Around(code) = Around(code)
  BY Zenon DEF Errors!Around, Around
<1>2. \A i : Errors!Unreachable(code, i) = Unreachable(code, i)
  BY <1>1 DEF Errors!Unreachable, Unreachable, Errors!Clauses, Clauses, Errors!Exits, Exits
<1>3. \A i : Errors!Block(code, i) = Block(code, i)
  BY <1>1 DEF Errors!Block, Block, Errors!Clauses, Clauses
<1>4. \A i : Errors!Rejects(code, i) = Rejects(code, i)
  BY <1>3 DEF Errors!Rejects, Rejects
<1>5. Errors!Guards(code) = Guards(code)
  BY <1>2 DEF Errors!Guards, Guards
<1>6. Errors!RejectingGuards(code) = RejectingGuards(code)
  BY <1>4, <1>5 DEF Errors!RejectingGuards, RejectingGuards
<1>7. \A line : Errors!Suppresses(line) = Suppresses(line)
  BY DEF Errors!Suppresses, Suppresses
<1>8. Errors!Suppressors(code) = Suppressors(code)
  BY <1>2, <1>3, <1>7 DEF Errors!Suppressors, Suppressors
<1>9. \A h, k : Errors!Precedes(code, h, k) <=> Precedes(code, h, k)
  BY DEF Errors!Precedes, Precedes
<1>10. Errors!Handlers(code) = Handlers(code)
  <2>1. {k \in DOMAIN code : code[k].kind = "except" /\ ~Errors!Unreachable(code, code[k].up)}
          = {k \in DOMAIN code : code[k].kind = "except" /\ ~Unreachable(code, code[k].up)}
    BY <1>2
  <2> QED
    BY <1>8, <2>1, Zenon DEF Errors!Handlers, Handlers
<1>11. \A h : Errors!HandlerBody(code, h) = HandlerBody(code, h)
  BY <1>3 DEF Errors!HandlerBody, HandlerBody
<1>12. \A h : Errors!Swallows(code, h) <=> Swallows(code, h)
  BY <1>11 DEF Errors!Swallows, Swallows
<1>13. \A h : Errors!Protected(code, h) = Protected(code, h)
  BY <1>3 DEF Errors!Protected, Protected
<1>14. \A h : Errors!Caught(code, h) = Caught(code, h)
  <2> TAKE h
  <2> DEFINE inner == {v \in Block(code, h) \cup {h} : Suppresses(code[v])}
  <2>1. {v \in Errors!Block(code, h) \cup {h} : Errors!Suppresses(code[v])} = inner
    BY <1>3, <1>7
  <2> HIDE DEF inner
  <2>2. Errors!Min(inner) = Min(inner)
    BY Zenon DEF Errors!Min, Min
  <2> QED
    BY <2>1, <2>2, Zenon DEF Errors!Caught, Caught, inner
<1>15. \A h : Errors!IsBroad(code, h) <=> IsBroad(code, h)
  BY <1>14 DEF Errors!IsBroad, IsBroad
<1>16. /\ \A lines : Errors!CallsOf(code, lines) = CallsOf(code, lines)
       /\ \A cond : Errors!Names(cond) = Names(cond)
  BY DEF Errors!CallsOf, CallsOf, Errors!Names, Names
<1>17. \A h : Errors!OnlyReraises(code, h) <=> OnlyReraises(code, h)
  BY <1>11, <1>16 DEF Errors!OnlyReraises, OnlyReraises, Errors!Reraises, Reraises
<1> QED
  BY <1>6, <1>9, <1>10, <1>12, <1>13, <1>14, <1>15, <1>16, <1>17

\* Of some handlers one is looked at before the others.
LEMMA FirstOfHandlers ==
  ASSUME NEW code, IsCode(code), NEW handlers, handlers \subseteq DOMAIN code, handlers # {}
  PROVE  /\ Errors!FirstHandler(code, handlers) \in handlers
         /\ \A k \in handlers \ {Errors!FirstHandler(code, handlers)} :
              Precedes(code, Errors!FirstHandler(code, handlers), k)
<1> DEFINE of(x) == IF code[x].kind = "except" THEN code[x].up ELSE 0
           n == Len(code)
           tries == {of(x) + 1 : x \in handlers}
<1>1. /\ n \in Nat /\ handlers \subseteq 1..n
      /\ \A x \in handlers : of(x) + 1 \in 1..n /\ of(x) \in Nat
  <2>1. n \in Nat /\ DOMAIN code = 1..n /\ \A i \in 1..n : code[i].up \in 0..(i - 1)
    BY LinesOfCode DEF IsCode
  <2> HIDE DEF n
  <2>2. ASSUME NEW x \in handlers
        PROVE  of(x) + 1 \in 1..n /\ of(x) \in Nat
    <3>1. x \in 1..n /\ code[x].up \in 0..(x - 1)
      BY <2>1
    <3>2. of(x) = code[x].up \/ of(x) = 0
      OBVIOUS
    <3> HIDE DEF of
    <3>3. x \in Nat /\ x >= 1 /\ x <= n
      BY <2>1, <3>1
    <3>4. \A u : u \in 0..(x - 1) \/ u = 0 => u \in Nat /\ u + 1 \in 1..n
      BY <2>1, <3>3
    <3> QED
      BY <3>1, <3>2, <3>4, Zenon
  <2> HIDE DEF of
  <2> QED
    BY <2>1, <2>2
<1>2. \A h, k : Precedes(code, h, k) <=> of(h) < of(k) \/ (of(h) = of(k) /\ h < k)
  BY DEF Precedes
<1> HIDE DEF n, of
<1>3. PICK t \in tries : \A u \in tries : t <= u
  <2>1. tries \subseteq 1..n /\ tries # {}
    BY <1>1
  <2> HIDE DEF tries
  <2> QED
    BY <1>1, <2>1, FirstPosition
<1> DEFINE outer == {x \in handlers : of(x) + 1 = t}
<1>4. PICK h \in outer : \A k \in outer : h <= k
  <2>1. outer \subseteq 1..n /\ outer # {}
    BY <1>1, <1>3
  <2> HIDE DEF outer
  <2> QED
    BY <1>1, <2>1, FirstPosition
<1>5. ASSUME NEW k \in handlers \ {h}
      PROVE  Precedes(code, h, k)
  <2>1. of(h) + 1 <= of(k) + 1 /\ of(h) \in Nat /\ of(k) \in Nat
    BY <1>1, <1>3, <1>4
  <2>2. CASE of(h) = of(k)
    <3>1. k \in outer
      BY <1>4, <2>2
    <3>2. h <= k /\ h \in 1..n /\ k \in 1..n
      BY <1>1, <1>4, <3>1
    <3> QED
      BY <1>1, <1>2, <1>5, <2>2, <3>2
  <2>3. CASE of(h) # of(k)
    BY <1>2, <2>1, <2>3
  <2> QED
    BY <2>2, <2>3
<1>6. h \in handlers
  BY <1>4
<1> DEFINE first(x) == x \in handlers /\ \A k \in handlers \ {x} : Precedes(code, x, k)
<1>7. first(h)
  BY <1>5, <1>6
<1>8. Errors!FirstHandler(code, handlers)
        = CHOOSE x \in handlers : \A k \in handlers \ {x} : Precedes(code, x, k)
  <2>1. \A x, k : Errors!Precedes(code, x, k) = Precedes(code, x, k)
    BY QueriesOfErrors DEF Errors!Precedes, Precedes
  <2> QED
    BY <2>1 DEF Errors!FirstHandler
<1> QED
  BY <1>7, <1>8

\* The try of a clause is a line, so that no `except` clause is looked at before a suppressor.
LEMMA SuppressorsComeFirst ==
  ASSUME NEW code, IsCode(code), NEW h \in DOMAIN code, code[h].kind = "except",
         NEW w \in Suppressors(code)
  PROVE  w # h /\ ~Precedes(code, h, w)
<1>1. code[h].up \in 1..Len(code) /\ Len(code) \in Nat
  BY LinesOfCode, LineAround DEF IsCode, Clauses
<1>2. code[w].kind = "with"
  BY DEF Suppressors
<1> QED
  BY <1>1, <1>2 DEF Precedes

\* Every exception to catch is an item of the checklist, and passes.
LEMMA EveryCatchPasses ==
  ASSUME NEW req, NEW ctx, Errors!ErrorRule(req, ctx).status = "satisfied", NEW e \in req.caught
  PROVE  Errors!Catch(ctx, ctx.after, req, e) \notin {Errors!No, Errors!Unknown}
<1> DEFINE item == Errors!Item("catch", e)
           results == Errors!Results(req, ctx, "after")
<1>1. item \in Errors!Checklist(req)
  BY ZenonT(60) DEF Errors!Checklist
<1>2. Errors!Test(item, ctx, "after", req) \in results
  BY <1>1 DEF Errors!Results
<1>3. item.name = "catch" /\ item.about = e
  BY DEF Errors!Item
<1>4. Errors!Test(item, ctx, "after", req) = Errors!Catch(ctx, ctx.after, req, e)
  <2> HIDE DEF item
  <2> QED
    BY <1>3, Zenon DEF Errors!Test
<1>5. /\ Errors!NotSatisfied.status # "satisfied" /\ Errors!Inconclusive.status # "satisfied"
  BY DEF Errors!NotSatisfied, Errors!Inconclusive, Errors!Outcome
<1> HIDE DEF results
<1>6. Errors!No \notin results /\ Errors!Unknown \notin results
  BY <1>5, Zenon DEF Errors!ErrorRule, Errors!Judged, results
<1> QED
  BY <1>2, <1>4, <1>6

\* A handler for an exception that covers the calls and does something is one they reach.
LEMMA CoveringHandlersCatch ==
  ASSUME NEW code, IsCode(code), NEW h \in DOMAIN code, code[h].kind = "except",
         NEW i \in Protected(code, h)
  PROVE  i \in DOMAIN code /\ h \in Failing(code, i)
<1> DEFINE t == code[h].up
<1>1. t \in 1..Len(code)
  BY LinesOfCode, LineAround DEF IsCode, Clauses
<1>2. i \in Block(code, t)
  BY DEF Protected
<1> HIDE DEF t
<1>3. i \in DOMAIN code /\ \E c \in Around(code)[i] : code[c].up = t /\ code[c].kind \notin Clauses
  BY <1>2 DEF Block
<1>4. PICK c \in Around(code)[i] : code[c].up = t /\ code[c].kind \notin Clauses
  BY <1>3
<1>5. t # 0
  BY <1>1, LinesOfCode DEF IsCode
<1>6. h \in ClausesOf(code, t, {"except", "finally"})
  BY DEF ClausesOf, t
<1> QED
  BY <1>3, <1>4, <1>5, <1>6 DEF Failing

\* What the rule finds for an exception to catch: that the first handler for it covers the
\* calls and does something, or a reason for the failure not to occur.
LEMMA CatchNeedsAHandler ==
  ASSUME NEW ctx, NEW req, NEW e, IsCode(ctx.after),
         Errors!Catch(ctx, ctx.after, req, e) \notin {Errors!No, Errors!Unknown},
         req.protected # {}, "ignore" \notin req.asks,
         ~ \E g \in RejectingGuards(ctx.after) : Names(ctx.after[g].cond) \cap req.names # {},
         ~ (/\ e = "KeyError"
            /\ \E c \in CallsOf(ctx.after, DOMAIN ctx.after) \ CallsOf(ctx.before, DOMAIN ctx.before) :
                 c.callee = "get")
  PROVE  LET code == ctx.after
             handling == {k \in Handlers(code) : e \in Caught(code, k) \/ IsBroad(code, k)}
         IN  \E h \in handling :
               /\ ~Swallows(code, h) /\ (OnlyReraises(code, h) => "re-raise" \in req.asks)
               /\ \A k \in handling \ {h} : Precedes(code, h, k)
               /\ \E i \in Protected(code, h) : \E c \in code[i].calls : c.callee \in req.protected
<1> DEFINE code == ctx.after
           handling == {k \in Errors!Handlers(code) : Errors!Handles(code, k, e)}
           mine == {k \in Handlers(code) : e \in Caught(code, k) \/ IsBroad(code, k)}
           h == Errors!FirstHandler(code, handling)
           acts == Errors!Swallows(code, h) => "ignore" \in req.asks
           raises == Errors!OnlyReraises(code, h) => "re-raise" \in req.asks
           covers == req.protected # {} =>
                       \E c \in Errors!CallsOf(code, Errors!Protected(code, h)) :
                         c.callee \in req.protected
           guarded == \E g \in Errors!RejectingGuards(code) :
                        Errors!Names(code[g].cond) \cap req.names # {}
           avoided == /\ e = "KeyError"
                      /\ \E c \in Errors!CallsOf(code, DOMAIN code)
                                    \ Errors!CallsOf(ctx.before, DOMAIN ctx.before) : c.callee = "get"
<1>1. Errors!Catch(ctx, ctx.after, req, e) =
        IF handling # {} THEN Errors!Is(acts /\ raises /\ covers)
        ELSE IF guarded \/ avoided THEN Errors!Yes ELSE Errors!UnknownOr(ctx, Errors!No)
  BY DEF Errors!Catch
<1>2. code = ctx.after
  OBVIOUS
<1>3. ~guarded /\ ~avoided
  BY <1>2, QueriesOfErrors
<1>4. handling = mine
  BY QueriesOfErrors DEF Errors!Handles
<1>5. mine \subseteq DOMAIN code
  BY DEF Handlers, Suppressors
<1> HIDE DEF h, handling, mine, raises, guarded, avoided
<1>6. handling # {}
  <2>1. handling = {} => Errors!Catch(ctx, ctx.after, req, e) \in {Errors!No, Errors!Unknown}
    BY <1>1, <1>3 DEF Errors!UnknownOr
  <2> QED
    BY <2>1
<1>7. acts /\ raises /\ covers
  <2>1. ~(acts /\ raises /\ covers) => Errors!Catch(ctx, ctx.after, req, e) = Errors!No
    BY <1>1, <1>6 DEF Errors!Is, Errors!No
  <2> QED
    BY <2>1
<1>8. h \in mine /\ \A k \in mine \ {h} : Precedes(code, h, k)
  <2>1. IsCode(code)
    BY <1>2
  <2> HIDE DEF code
  <2> QED
    BY <1>4, <1>5, <1>6, <2>1, FirstOfHandlers DEF h
<1>9. ~Swallows(code, h) /\ (OnlyReraises(code, h) => "re-raise" \in req.asks)
  BY <1>7, QueriesOfErrors DEF raises
<1>10. \E i \in Protected(code, h) : \E c \in code[i].calls : c.callee \in req.protected
  BY <1>7, QueriesOfErrors DEF CallsOf
<1> QED
  BY <1>2, <1>8, <1>9, <1>10 DEF mine

\* Control goes from line to line, past the ends of blocks and after a failure.
LEMMA FollowingIsLine ==
  ASSUME NEW code, IsCode(code), NEW i \in DOMAIN code
  PROVE  Following(code)[i] \subseteq DOMAIN code
<1> DEFINE n == Len(code)
           S == {k \in 1..n : ~(Following(code)[k] \subseteq 1..n)}
<1>1. n \in Nat /\ DOMAIN code = 1..n
  BY LinesOfCode DEF IsCode
<1> SUFFICES ASSUME S # {}
             PROVE  FALSE
  BY <1>1
<1>2. PICK k \in S : \A j \in S : k <= j
  BY <1>1, FirstPosition
<1> DEFINE u == CompoundOf(code, k)
<1>3. /\ Onward(code, k) \subseteq 1..n /\ u \in 0..(k - 1)
      /\ Following(code)[k] = IF Onward(code, k) # {} THEN Onward(code, k) ELSE Following(code)[u]
  BY OnwardIsLine, CompoundAround, FollowingUnfolds
<1> HIDE DEF u
<1>4. ~(Following(code)[u] \subseteq 1..n)
  BY <1>3
<1>5. u # 0
  BY <1>4, FollowingUnfolds
<1>6. k \in 1..n
  OBVIOUS
<1> HIDE DEF n
<1>7. u \in 1..n /\ ~(k <= u)
  BY <1>1, <1>3, <1>5, <1>6
<1> QED
  BY <1>2, <1>4, <1>7

LEMMA FailingIsLine ==
  ASSUME NEW code, IsCode(code), NEW i \in DOMAIN code
  PROVE  Failing(code, i) \subseteq DOMAIN code
<1> DEFINE handled(t) == ClausesOf(code, t, {"except", "finally"})
                           \cup (IF code[t].kind = "with" THEN Following(code)[t] ELSE {})
           from(c) == IF code[c].up = 0 THEN {}
                      ELSE IF code[c].kind \notin Clauses THEN handled(code[c].up)
                      ELSE ClausesOf(code, code[c].up, {"finally"}) \ {c}
<1>1. Len(code) \in Nat /\ DOMAIN code = 1..Len(code) /\ Around(code)[i] \subseteq 1..i
  BY LinesOfCode, AroundLines DEF IsCode
<1>2. ASSUME NEW c \in Around(code)[i]
      PROVE  from(c) \subseteq DOMAIN code
  <2>1. c \in 1..Len(code)
    BY <1>1
  <2>2. code[c].up # 0 => code[c].up \in DOMAIN code
    BY <1>1, <2>1, LineAround
  <2>3. \A t, kinds : ClausesOf(code, t, kinds) \subseteq DOMAIN code
    BY DEF ClausesOf
  <2>4. \A t \in DOMAIN code : handled(t) \subseteq DOMAIN code
    BY <2>3, FollowingIsLine
  <2> HIDE DEF handled
  <2> QED
    BY <2>2, <2>3, <2>4
<1>3. Failing(code, i) = UNION {from(c) : c \in Around(code)[i]}
  BY DEF Failing
<1> HIDE DEF from
<1> QED
  BY <1>2, <1>3

\* Such a handler is the outermost one the failure can reach, and nothing hides it.
LEMMA FirstIsOutermost ==
  ASSUME NEW code, IsCode(code), NEW e,
         NEW handling, handling = {k \in Handlers(code) : e \in Caught(code, k) \/ IsBroad(code, k)},
         NEW h \in handling, ~Swallows(code, h),
         \A k \in handling \ {h} : Precedes(code, h, k)
  PROVE  /\ h \in DOMAIN code /\ code[h].kind = "except" /\ ~Unreachable(code, code[h].up)
         /\ \A k \in DOMAIN code :
              /\ code[k].kind = "except" /\ (e \in Caught(code, k) \/ IsBroad(code, k))
              /\ ~Unreachable(code, code[k].up)
              => code[h].up < code[k].up \/ (code[h].up = code[k].up /\ h <= k)
         /\ \A w \in Suppressors(code) : ~(e \in Caught(code, w) \/ IsBroad(code, w))
<1>1. code[h].kind = "except"
  BY DEF Swallows, HandlerBody
<1>2. h \in Handlers(code)
  OBVIOUS
<1>3. h \in DOMAIN code /\ ~Unreachable(code, code[h].up)
  BY <1>1, <1>2 DEF Handlers, Suppressors
<1>4. ASSUME NEW k \in DOMAIN code, code[k].kind = "except",
             e \in Caught(code, k) \/ IsBroad(code, k), ~Unreachable(code, code[k].up)
      PROVE  code[h].up < code[k].up \/ (code[h].up = code[k].up /\ h <= k)
  <2>1. k \in handling
    BY <1>4 DEF Handlers
  <2>2. h \in Int /\ k \in Int
    BY <1>3, LinesOfCode DEF IsCode
  <2> QED
    BY <1>1, <1>4, <2>1, <2>2 DEF Precedes
<1>5. ASSUME NEW w \in Suppressors(code), e \in Caught(code, w) \/ IsBroad(code, w)
      PROVE  FALSE
  <2>1. w \in handling
    BY <1>5 DEF Handlers
  <2> QED
    BY <1>1, <1>3, <2>1, SuppressorsComeFirst
<1> QED
  BY <1>1, <1>3, <1>4, <1>5

\* "Catch E around this call" is satisfied only when the outermost handler that E, raised by the
\* call, can reach does something about it, and no `with suppress` hides it.
THEOREM FailuresReachHandlers == Spec => []CaughtWhereItFails
<1>1. ReviewInv => CaughtWhereItFails
  <2> SUFFICES ASSUME ReviewInv, NEW req \in SatisfiedRequests("error_handling")
               PROVE  FailureIsHandled(RuleContext(case), req)
    BY DEF CaughtWhereItFails, EverySatisfied
  <2> DEFINE ctx == RuleContext(case)
             code == ctx.after
  <2>1. Errors!ErrorRule(req, ctx).status = "satisfied"
    <3>1. PICK asked : /\ CheckRequirement(asked, ctx).status = "satisfied"
                       /\ asked.category = "error_handling" /\ asked.suggested = <<>>
                       /\ req = asked.reads["error_handling"]
      BY SatisfiedRequest
    <3>2. Other!Inconclusive.status # "satisfied"
      BY DEF Other!Inconclusive, Other!Outcome
    <3>3. CheckRequirement(asked, ctx) = Errors!ErrorRule(req, ctx)
      BY <3>1, <3>2, Zenon DEF CheckRequirement
    <3> QED
      BY <3>1, <3>3
  <2>2. IsCode(code)
    BY CodeOfTheContext DEF ReviewInv
  <2> HIDE DEF ctx
  <2> DEFINE guarded == \E g \in RejectingGuards(code) : Names(code[g].cond) \cap req.names # {}
             avoided(e) == /\ e = "KeyError"
                           /\ \E c \in CallsOf(code, DOMAIN code)
                                         \ CallsOf(ctx.before, DOMAIN ctx.before) : c.callee = "get"
             failing == {i \in DOMAIN code : \E c \in code[i].calls : c.callee \in req.protected}
             catches(k, e) == IsBroad(code, k) \/ e \in Caught(code, k)
             reached(i, e) == {k \in Failing(code, i) : /\ code[k].kind = "except" /\ catches(k, e)
                                                        /\ ~Unreachable(code, code[k].up)}
             outermost(k, handlers) ==
               \A h \in handlers : code[k].up < code[h].up \/ (code[k].up = code[h].up /\ k <= h)
             hidden(i, e) == \E w \in Suppressors(code) : i \in Block(code, w) /\ catches(w, e)
             acts(k) == ~Swallows(code, k) /\ (OnlyReraises(code, k) => "re-raise" \in req.asks)
  <2>3. ASSUME req.protected # {}, "ignore" \notin req.asks, ~guarded,
               NEW e \in req.caught, ~avoided(e)
        PROVE  \E i \in failing : \E k \in reached(i, e) :
                 acts(k) /\ outermost(k, reached(i, e)) /\ ~hidden(i, e)
    <3> DEFINE handling == {k \in Handlers(code) : e \in Caught(code, k) \/ IsBroad(code, k)}
    <3>1. Errors!Catch(ctx, ctx.after, req, e) \notin {Errors!No, Errors!Unknown}
      BY <2>1, EveryCatchPasses
    <3>2. PICK h \in handling :
            /\ acts(h) /\ \A k \in handling \ {h} : Precedes(code, h, k)
            /\ \E i \in Protected(code, h) : \E c \in code[i].calls : c.callee \in req.protected
      BY <2>2, <2>3, <3>1, CatchNeedsAHandler
    <3>3. /\ h \in DOMAIN code /\ code[h].kind = "except" /\ ~Unreachable(code, code[h].up)
          /\ \A k \in DOMAIN code :
               /\ code[k].kind = "except" /\ catches(k, e) /\ ~Unreachable(code, code[k].up)
               => code[h].up < code[k].up \/ (code[h].up = code[k].up /\ h <= k)
          /\ \A w \in Suppressors(code) : ~catches(w, e)
      <4>1. ~Swallows(code, h) /\ \A k \in handling \ {h} : Precedes(code, h, k)
        BY <3>2
      <4>2. /\ h \in DOMAIN code /\ code[h].kind = "except" /\ ~Unreachable(code, code[h].up)
            /\ \A k \in DOMAIN code :
                 /\ code[k].kind = "except" /\ (e \in Caught(code, k) \/ IsBroad(code, k))
                 /\ ~Unreachable(code, code[k].up)
                 => code[h].up < code[k].up \/ (code[h].up = code[k].up /\ h <= k)
            /\ \A w \in Suppressors(code) : ~(e \in Caught(code, w) \/ IsBroad(code, w))
        <5>1. handling = {k \in Handlers(code) : e \in Caught(code, k) \/ IsBroad(code, k)}
          OBVIOUS
        <5> HIDE DEF handling, code
        <5> QED
          BY <2>2, <4>1, <5>1, FirstIsOutermost
      <4> HIDE DEF code
      <4> QED
        BY <4>2, Zenon
    <3>4. PICK i \in Protected(code, h) : \E c \in code[i].calls : c.callee \in req.protected
      BY <3>2
    <3>5. i \in DOMAIN code /\ h \in Failing(code, i)
      BY <2>2, <3>3, CoveringHandlersCatch
    <3>6. Failing(code, i) \subseteq DOMAIN code
      BY <2>2, <3>5, FailingIsLine
    <3>7. catches(h, e)
      BY <3>2
    <3>8. i \in failing /\ h \in reached(i, e)
      BY <3>3, <3>4, <3>5, <3>7
    <3>9. outermost(h, reached(i, e))
      <4>1. \A k \in reached(i, e) : /\ k \in DOMAIN code /\ code[k].kind = "except"
                                     /\ catches(k, e) /\ ~Unreachable(code, code[k].up)
        BY <3>6
      <4> HIDE DEF reached, catches
      <4> QED
        BY <3>3, <4>1
    <3>10. ~hidden(i, e)
      BY <3>3
    <3>11. acts(h)
      BY <3>2
    <3> HIDE DEF handling, failing, reached, outermost, hidden, acts
    <3> QED
      BY <3>8, <3>9, <3>10, <3>11
  <2> HIDE DEF guarded, avoided, failing, catches, reached, outermost, hidden, acts
  <2>4. req.protected # {} /\ "ignore" \notin req.asks /\ ~guarded =>
          \A e \in req.caught : ~avoided(e) =>
            \E i \in failing : \E k \in reached(i, e) :
              acts(k) /\ outermost(k, reached(i, e)) /\ ~hidden(i, e)
    BY <2>3
  <2> QED
    BY <2>4 DEF FailureIsHandled, guarded, avoided, failing, catches, reached, outermost, hidden, acts, ctx
<1> QED
  BY <1>1, ReviewInvariant, PTL

-----------------------------------------------------------------------------
(***************************************************************************)
(* Requests of every kind.                                                 *)
(***************************************************************************)
\* No sentence that asks for a change is lost: whatever its words, it gives a requirement of
\* its own, unless all its requests are headers of each other.
THEOREM SentencesAreChecked == Spec => []ActionableSentencesAreChecked
<1>1. ReviewInv => ActionableSentencesAreChecked
  <2> SUFFICES ASSUME ReviewInv, VerifiedBy(Gated)
               PROVE  ActionableSentencesAreChecked
    BY DEF ActionableSentencesAreChecked
  <2>1. PICK p \in Gated : result = <<Run(p, case)>>
    BY DEF ReviewInv, Verified, VerifiedBy, Run, RunOn, Judged
  <2>2. result[1].set = X!ExtractRequirements(case.comment)
    BY <2>1 DEF Run, RunOn, Judged, RequirementStage
  <2>3. IsComment(case.comment)
    BY DEF ReviewInv, IsCase
  <2> QED
    BY <2>2, <2>3, EnoughRequirements DEF ActionableSentencesAreChecked
<1> QED
  BY <1>1, ReviewInvariant, PTL

-----------------------------------------------------------------------------
(***************************************************************************)
(* What can block.                                                         *)
(***************************************************************************)
\* The policy blocks only sure failures of enforced categories.
LEMMA BlocksAreSure ==
  ASSUME NEW view, NEW p, Policy!Decide(view, p) = "BLOCK"
  PROVE  /\ view.verdict = "NOT_SATISFIED" /\ view.confidence # "LOW"
         /\ view.failed \subseteq p.enforced
<1>1. Policy!Recommend(view) = "BLOCK" /\ Policy!MayBlock(view, p)
  BY DEF Policy!Decide
<1>2. view.verdict = "NOT_SATISFIED" /\ view.confidence \in {"HIGH", "MEDIUM"}
  BY <1>1, Zenon DEF Policy!Recommend
<1> QED
  BY <1>1, <1>2 DEF Policy!MayBlock, Policy!AllEnforced

\* When every requirement is decided and the whole is unmet, every one is.
LEMMA UnmetThroughout ==
  ASSUME NEW set, NEW evidence, "UNCERTAIN" \notin VerdictsFound(set, evidence),
         Overall(VerdictsFound(set, evidence)) = "NOT_SATISFIED"
  PROVE  \A k \in DOMAIN set.requirements : RuleVerdict(evidence, k) = "NOT_SATISFIED"
<1> DEFINE found == VerdictsFound(set, evidence)
<1>1. "SATISFIED" \notin found
  BY DEF Overall
<1>2. \A k \in DOMAIN set.requirements : RuleVerdict(evidence, k) \in found
  BY DEF VerdictsFound
<1> HIDE DEF found
<1> QED
  BY <1>1, <1>2, VerdictsOfRules DEF found

\* What a sure NOT_SATISFIED of an adjusted pipeline rests on.
LEMMA SureFailures ==
  ASSUME NEW p \in Adjusted, NEW c, NEW set,
         Aggregate(p, c, set, EvidenceStages(p, c, set)).confidence # "LOW",
         Aggregate(p, c, set, EvidenceStages(p, c, set)).verdict = "NOT_SATISFIED"
  PROVE  LET d == Aggregate(p, c, set, EvidenceStages(p, c, set))
         IN  /\ c.fetched /\ ~c.broken /\ c.flags \cap UnreliableWindow = {}
             /\ set.actionable /\ Score(set) < X!AmbiguityThreshold
             /\ DOMAIN d.statuses = DOMAIN set.requirements
             /\ \A k \in DOMAIN set.requirements :
                  /\ d.statuses[k].verdict = "NOT_SATISFIED"
                  /\ d.statuses[k].category = set.requirements[k].category
<1> DEFINE evidence == EvidenceStages(p, c, set)
           d == Aggregate(p, c, set, evidence)
           found == VerdictsFound(set, evidence)
<1>1. p \in RuleBased
  BY DEF Adjusted
<1> HIDE DEF evidence
<1>2. /\ set.actionable /\ Score(set) < X!AmbiguityThreshold
      /\ ~Unreliable(c, set, evidence) /\ d = RuleAggregator(c, set, evidence)
  BY SureDecisions DEF evidence
<1> HIDE DEF d
<1>3. /\ DOMAIN d.statuses = DOMAIN set.requirements
      /\ \A k \in DOMAIN set.requirements :
           /\ d.statuses[k].verdict = RuleVerdict(evidence, k)
           /\ d.statuses[k].category = set.requirements[k].category
      /\ d.verdict = IF Undecided(evidence) THEN "UNCERTAIN" ELSE Overall(found)
      /\ d.confidence = IF "UNCERTAIN" \in found THEN "LOW" ELSE "MEDIUM"
  BY <1>2, RulesDecide
<1>4. d.confidence # "LOW" /\ d.verdict = "NOT_SATISFIED"
  BY DEF d, evidence
<1>5. ~Undecided(evidence) /\ "UNCERTAIN" \notin found /\ Overall(found) = "NOT_SATISFIED"
  BY <1>3, <1>4
<1>6. \A k \in DOMAIN set.requirements : RuleVerdict(evidence, k) = "NOT_SATISFIED"
  BY <1>5, UnmetThroughout
<1>7. c.fetched /\ ~c.broken
  BY <1>1, <1>2, <1>5, TroubleIsNoted DEF Undecided, Unreliable, Available, evidence
<1>8. c.flags \cap UnreliableWindow = {}
  BY <1>2 DEF Unreliable
<1> QED
  BY <1>2, <1>3, <1>6, <1>7, <1>8 DEF d, evidence

\* No configuration of the policy blocks a change unless the code was there to read, the window
\* and the parse were sound, the comment asked for something clearly, and every request was
\* found unmet and is of an enforced category.
THEOREM BlocksAreGrounded == Spec => []BlockIsGrounded
<1>1. ReviewInv => BlockIsGrounded
  <2> SUFFICES ASSUME ReviewInv, VerifiedBy(Adjusted)
               PROVE  BlockIsGrounded
    BY DEF BlockIsGrounded
  <2> DEFINE comment == case.comment
             sentences == comment.sentences
             d == result[1].decision
             set == X!ExtractRequirements(comment)
             asked == {s \in ToSet(sentences) : X!ClassifySentence(s).actionable}
             open == {s \in asked : X!ClassifySentence(s).type = "question"}
             blocks(p) == Policy!Decide(PolicyView(d), p) = "BLOCK"
  <2> SUFFICES ASSUME NEW p \in Policies, blocks(p)
               PROVE  /\ case.fetched /\ ~case.broken
                      /\ case.flags \cap UnreliableWindow = {}
                      /\ open = {} /\ (asked # {} \/ comment.suggestions # <<>>
                                        \/ \E s \in ToSet(sentences) : "removal" \in s.signals)
                      /\ \A k \in DOMAIN d.statuses :
                           /\ d.statuses[k].verdict = "NOT_SATISFIED"
                           /\ \A q \in Policies :
                                blocks(q) => result[1].set.requirements[k].category \in q.enforced
    BY DEF BlockIsGrounded
  <2>1. PICK pipeline \in Adjusted : result = <<Run(pipeline, case)>>
    BY DEF ReviewInv, Verified, VerifiedBy, Run, RunOn, Judged
  <2>2. /\ result[1].set = set
        /\ d = Aggregate(pipeline, case, set, EvidenceStages(pipeline, case, set))
    BY <2>1 DEF Run, RunOn, Judged, RequirementStage, Adjusted, RuleBased
  <2> HIDE DEF d, set
  <2>3. d.verdict = "NOT_SATISFIED" /\ d.confidence # "LOW"
    BY BlocksAreSure DEF PolicyView
  <2>4. /\ case.fetched /\ ~case.broken /\ case.flags \cap UnreliableWindow = {}
        /\ set.actionable /\ Score(set) < X!AmbiguityThreshold
        /\ DOMAIN d.statuses = DOMAIN set.requirements
        /\ \A k \in DOMAIN set.requirements :
             /\ d.statuses[k].verdict = "NOT_SATISFIED"
             /\ d.statuses[k].category = set.requirements[k].category
    BY <2>2, <2>3, SureFailures
  <2>5. IsSequence(sentences)
    BY DEF ReviewInv, IsCase, IsComment
  <2>6. open = {}
    BY <2>4, <2>5, ClearCommentsDoNotAsk DEF set
  <2>7. \/ asked # {} \/ comment.suggestions # <<>>
        \/ \E s \in ToSet(sentences) : "removal" \in s.signals
    BY <2>4, <2>5, ActionableAsks DEF set
  <2>8. ASSUME NEW k \in DOMAIN d.statuses, NEW q \in Policies, blocks(q)
        PROVE  result[1].set.requirements[k].category \in q.enforced
    <3>1. d.statuses[k].category \in PolicyView(d).failed
      BY <2>4 DEF PolicyView
    <3>2. PolicyView(d).failed \subseteq q.enforced
      BY <2>8, BlocksAreSure
    <3> QED
      BY <2>2, <2>4, <3>1, <3>2
  <2> QED
    BY <2>4, <2>6, <2>7, <2>8
<1> QED
  BY <1>1, ReviewInvariant, PTL

-----------------------------------------------------------------------------
(***************************************************************************)
(* What was there before the comment.                                      *)
(***************************************************************************)
\* What the rules see of a file and of tests that are as they were.
Unchanged(ctx) ==
  /\ ctx.before = ctx.after /\ ctx.fileBefore = ctx.fileAfter /\ ctx.testsBefore = ctx.tests
  /\ ctx.linesAfter = ctx.lines /\ ctx.fileLinesAfter = ctx.fileLines
  /\ ctx.docstringBefore = ctx.docstring
  /\ ctx.handlersBefore = ctx.handlers
  /\ IsCode(ctx.after)
  /\ \E n \in Nat : DOMAIN ctx.lines = 1..n
  /\ \E n \in Nat : DOMAIN ctx.fileLines = 1..n

\* The guards that answer a request for a check were there.
LEMMA GuardsWereThere ==
  ASSUME NEW req, NEW ctx, Unchanged(ctx), Validation!Missing(req, ctx) = {},
         Validation!ValidationRule(req, ctx).status = "satisfied"
  PROVE  Validation!ValidationRule(req, ctx).already
<1> DEFINE code == ctx.after
           chosen == {Validation!Min(Validation!Candidates(ctx, req, k)) :
                        k \in Validation!Kinds(req) \ Validation!Missing(req, ctx)}
           old == Validation!CondsOf(ctx.before, Validation!RejectingGuards(ctx.before))
<1>1. /\ Validation!Inconclusive.status # "satisfied" /\ Validation!NotSatisfied.status # "satisfied"
  BY DEF Validation!Inconclusive, Validation!NotSatisfied, Validation!Outcome
<1>2. Validation!ValidationRule(req, ctx)
        = Validation!Satisfied(Validation!CondsOf(code, chosen) \subseteq old)
  <2> HIDE DEF old
  <2> QED
    BY <1>1, Zenon DEF Validation!ValidationRule, old
<1>3. \A k : Validation!Candidates(ctx, req, k) \subseteq Validation!RejectingGuards(code)
  <2> TAKE k
  <2> SUFFICES ASSUME NEW g \in Validation!Candidates(ctx, req, k)
               PROVE  g \in Validation!RejectingGuards(code)
    OBVIOUS
  <2>1. g \in Validation!OnTarget(ctx, req.names) /\ Validation!Rejects(code, g)
    BY Zenon DEF Validation!Candidates
  <2>2. g \in Validation!Guards(code)
    BY <2>1 DEF Validation!OnTarget
  <2> QED
    BY <2>1, <2>2 DEF Validation!RejectingGuards
<1>4. Len(code) \in Nat /\ Validation!RejectingGuards(code) \subseteq 1..Len(code)
  BY LinesOfCode DEF Unchanged, IsCode, Validation!RejectingGuards, Validation!Guards
<1>5. ASSUME NEW k \in Validation!Kinds(req)
      PROVE  Validation!Min(Validation!Candidates(ctx, req, k)) \in Validation!RejectingGuards(code)
  <2> DEFINE S == Validation!Candidates(ctx, req, k)
  <2>1. S # {} /\ S \subseteq Validation!RejectingGuards(code) /\ S \subseteq 1..Len(code)
    BY <1>3, <1>4 DEF Validation!Missing
  <2> HIDE DEF S
  <2>2. PICK i \in S : \A j \in S : i <= j
    BY <1>4, <2>1, FirstPosition
  <2>3. Validation!Min(S) \in S
    BY <2>2 DEF Validation!Min
  <2> QED
    BY <2>1, <2>3 DEF S
<1>6. chosen \subseteq Validation!RejectingGuards(code)
  BY <1>5
<1>7. Validation!CondsOf(code, chosen) \subseteq old
  <2> HIDE DEF chosen
  <2> QED
    BY <1>6 DEF Unchanged, Validation!CondsOf
<1>8. Validation!Satisfied(TRUE).already
  BY DEF Validation!Satisfied, Validation!Outcome
<1>9. (Validation!CondsOf(code, chosen) \subseteq old) = TRUE
  BY <1>7
<1> HIDE DEF chosen, old
<1> QED
  BY <1>2, <1>8, <1>9

\* A test of the code takes a side, or cannot tell.
Answers3 == {Errors!Yes, Errors!No, Errors!Unknown}

LEMMA Sides ==
  /\ Errors!Yes # Errors!No /\ Errors!Yes # Errors!Unknown
  /\ Errors!Is(TRUE) = Errors!Yes /\ Errors!Is(FALSE) = Errors!No
  /\ \A fact \in BOOLEAN : Errors!Is(fact) \in Answers3
<1>1. FALSE \in Errors!No /\ FALSE \in Errors!Unknown /\ FALSE \notin Errors!Yes
  BY DEF Errors!Yes, Errors!No, Errors!Unknown
<1>2. Errors!Is(TRUE) = Errors!Yes /\ Errors!Is(FALSE) = Errors!No
  BY DEF Errors!Yes, Errors!No, Errors!Is
<1> QED
  BY <1>1, <1>2 DEF Answers3

LEMMA TestsAnswer ==
  ASSUME NEW req, NEW ctx, NEW code, NEW x
  PROVE  /\ Errors!Catch(ctx, code, req, x) \in Answers3
         /\ Errors!RaisesIt(code, x) \in Answers3
         /\ Errors!Retry(code) \in Answers3
         /\ Errors!Chain(code) \in Answers3
         /\ Errors!Log(code, req) \in Answers3
         /\ Errors!Reraise(code) \in Answers3
         /\ Errors!Fallback(code, x) \in Answers3
         /\ Errors!NoBroad(code) \in Answers3
         /\ Errors!NotSwallowed(code) \in Answers3
         /\ Errors!Generic(ctx, code, req) \in Answers3
<1>0. /\ Errors!UnknownOr(ctx, Errors!No) \in Answers3 /\ Errors!Yes \in Answers3
  BY DEF Errors!UnknownOr, Answers3
<1>1. Errors!Catch(ctx, code, req, x) \in Answers3
  BY <1>0, Sides DEF Errors!Catch
<1>2. Errors!RaisesIt(code, x) \in Answers3
  BY Sides DEF Errors!RaisesIt
<1>3. Errors!Retry(code) \in Answers3
  BY Sides DEF Errors!Retry
<1>4. Errors!Chain(code) \in Answers3
  BY Sides DEF Errors!Chain
<1>5. Errors!Log(code, req) \in Answers3
  BY Sides DEF Errors!Log
<1>6. Errors!Reraise(code) \in Answers3
  BY Sides DEF Errors!Reraise
<1>7. Errors!Fallback(code, x) \in Answers3
  BY Sides DEF Errors!Fallback
<1>8. Errors!NoBroad(code) \in Answers3
  BY Sides DEF Errors!NoBroad
<1>9. Errors!NotSwallowed(code) \in Answers3
  BY Sides DEF Errors!NotSwallowed
<1>10. Errors!Generic(ctx, code, req) \in Answers3
  BY <1>0 DEF Errors!Generic
<1> QED
  BY <1>1, <1>2, <1>3, <1>4, <1>5, <1>6, <1>7, <1>8, <1>9, <1>10

\* On code that is as it was, the test of an item gives what it gave, except for cleaning up,
\* which has a test of its own.
LEMMA TestsOfItems ==
  ASSUME NEW req, NEW ctx, ctx["before"] = ctx["after"], NEW item \in Errors!Checklist(req)
  PROVE  LET test(scope) == Errors!Test(item, ctx, scope, req)
         IN  \/ \A scope : test(scope) = Errors!Cleanup(ctx, scope)
             \/ test("before") = test("after") /\ test("after") \in Answers3
<1> DEFINE code == ctx["after"]
           test(scope) == Errors!Test(item, ctx, scope, req)
           same == test("before") = test("after") /\ test("after") \in Answers3
<1>0. item.name \in {"catch", "raise", "retry", "chain", "log", "re-raise", "fall back", "only",
                     "not swallowed", "cleanup", "generic"}
  <2>1. \A n, about : Errors!Item(n, about).name = n
    BY DEF Errors!Item
  <2> DEFINE asked == {"retry", "chain", "log", "re-raise", "fall back", "only", "not swallowed",
                       "cleanup", "generic"}
  <2>2. \/ \E about : item = Errors!Item("catch", about) \/ item = Errors!Item("raise", about)
        \/ \E n \in asked : item = Errors!Item(n, Errors!None)
    BY DEF Errors!Checklist
  <2>3. CASE \E about : item = Errors!Item("catch", about) \/ item = Errors!Item("raise", about)
    <3>1. PICK about : item = Errors!Item("catch", about) \/ item = Errors!Item("raise", about)
      BY <2>3
    <3>2. item.name = "catch" \/ item.name = "raise"
      BY <2>1, <3>1
    <3> QED
      BY <3>2
  <2>4. CASE \E n \in asked : item = Errors!Item(n, Errors!None)
    <3>1. item.name \in asked
      <4> HIDE DEF asked
      <4> QED
        BY <2>1, <2>4
    <3> QED
      BY <3>1
  <2> QED
    BY <2>2, <2>3, <2>4
<1>1. item.name = "catch" => same
  <2>1. item.name = "catch" => \A scope \in {"before", "after"} : test(scope) = Errors!Catch(ctx, code, req, item.about)
    BY Zenon DEF Errors!Test
  <2> QED
    BY <2>1, TestsAnswer
<1>2. item.name = "raise" => same
  <2>1. item.name = "raise" => \A scope \in {"before", "after"} : test(scope) = Errors!RaisesIt(code, item.about)
    BY Zenon DEF Errors!Test
  <2> QED
    BY <2>1, TestsAnswer
<1>3. item.name = "retry" => same
  <2>1. item.name = "retry" => \A scope \in {"before", "after"} : test(scope) = Errors!Retry(code)
    BY Zenon DEF Errors!Test
  <2> QED
    BY <2>1, TestsAnswer
<1>4. item.name = "chain" => same
  <2>1. item.name = "chain" => \A scope \in {"before", "after"} : test(scope) = Errors!Chain(code)
    BY Zenon DEF Errors!Test
  <2> QED
    BY <2>1, TestsAnswer
<1>5. item.name = "log" => same
  <2>1. item.name = "log" => \A scope \in {"before", "after"} : test(scope) = Errors!Log(code, req)
    BY Zenon DEF Errors!Test
  <2> QED
    BY <2>1, TestsAnswer
<1>6. item.name = "re-raise" => same
  <2>1. item.name = "re-raise" => \A scope \in {"before", "after"} : test(scope) = Errors!Reraise(code)
    BY Zenon DEF Errors!Test
  <2> QED
    BY <2>1, TestsAnswer
<1>7. item.name = "fall back" => same
  <2>1. item.name = "fall back" => \A scope \in {"before", "after"} : test(scope) = Errors!Fallback(code, req.fallback)
    BY Zenon DEF Errors!Test
  <2> QED
    BY <2>1, TestsAnswer
<1>8. item.name = "only" => same
  <2>1. item.name = "only" => \A scope \in {"before", "after"} : test(scope) = Errors!NoBroad(code)
    BY Zenon DEF Errors!Test
  <2> QED
    BY <2>1, TestsAnswer
<1>9. item.name = "not swallowed" => same
  <2>1. item.name = "not swallowed" => \A scope \in {"before", "after"} : test(scope) = Errors!NotSwallowed(code)
    BY Zenon DEF Errors!Test
  <2> QED
    BY <2>1, TestsAnswer
<1>10. item.name = "generic" => same
  <2>1. item.name = "generic" => \A scope \in {"before", "after"} : test(scope) = Errors!Generic(ctx, code, req)
    BY Zenon DEF Errors!Test
  <2> QED
    BY <2>1, TestsAnswer
<1>11. item.name = "cleanup" => \A scope : test(scope) = Errors!Cleanup(ctx, scope)
  BY Zenon DEF Errors!Test
<1> HIDE DEF same, test
<1>12. same \/ item.name = "cleanup"
  BY <1>0, <1>1, <1>2, <1>3, <1>4, <1>5, <1>6, <1>7, <1>8, <1>9, <1>10
<1> QED
  BY <1>11, <1>12 DEF same, test

\* What the code does about a failure, it did.
LEMMA HandlingWasThere ==
  ASSUME NEW req, NEW ctx, ctx["before"] = ctx["after"],
         Errors!ErrorRule(req, ctx).status = "satisfied"
  PROVE  Errors!ErrorRule(req, ctx).already
<1> DEFINE results == Errors!Results(req, ctx, "after")
           earlier == Errors!Results(req, ctx, "before")
           items == Errors!Checklist(req)
           code == ctx["after"]
<1>1. /\ Errors!Inconclusive.status # "satisfied" /\ Errors!NotSatisfied.status # "satisfied"
  BY DEF Errors!Inconclusive, Errors!NotSatisfied, Errors!Outcome
<1>2. /\ Errors!No \notin results /\ Errors!Unknown \notin results
      /\ Errors!ErrorRule(req, ctx) = Errors!Satisfied(results \cup earlier = {Errors!Yes})
  <2> HIDE DEF results, earlier
  <2> QED
    BY <1>1, Zenon DEF Errors!ErrorRule, Errors!Judged, results, earlier
\* A cleanup that is there now was there, whatever made it one.
<1>3. Errors!Cleanup(ctx, "after") # Errors!No =>
        Errors!Cleanup(ctx, "after") = Errors!Yes /\ Errors!Cleanup(ctx, "before") = Errors!Yes
  <2> DEFINE releases == \E c \in Errors!FinallyCalls(code) : c.callee \in Errors!CleanupCalls
             others == \/ Errors!ContextsOf(code) # {}
                       \/ Errors!FinallyCalls(ctx.before) # {}
  <2>1. Errors!Cleanup(ctx, "after") = Errors!Is(releases)
    <3>1. Errors!ContextsOf(code) \ Errors!ContextsOf(ctx.before) = {}
      OBVIOUS
    <3>2. (\/ releases
           \/ Errors!ContextsOf(code) \ Errors!ContextsOf(ctx.before) # {}
           \/ "after" = "before" /\ Errors!FinallyCalls(ctx.before) # {}) = releases
      BY <3>1
    <3> HIDE DEF releases
    <3> QED
      BY <3>2, Zenon DEF Errors!Cleanup, releases
  <2>2. Errors!Cleanup(ctx, "before") = Errors!Is(releases \/ others)
    BY Zenon DEF Errors!Cleanup
  <2>3. CASE ~releases
    <3>1. releases = FALSE
      BY <2>3
    <3> HIDE DEF releases
    <3> QED
      BY <2>1, <3>1, Sides
  <2>4. CASE releases
    <3>1. releases = TRUE /\ (releases \/ others) = TRUE
      BY <2>4
    <3> HIDE DEF releases, others
    <3> QED
      BY <2>1, <2>2, <3>1, Sides
  <2> QED
    BY <2>3, <2>4
<1>4. ASSUME NEW item \in items
      PROVE  /\ Errors!Test(item, ctx, "after", req) = Errors!Yes
             /\ Errors!Test(item, ctx, "before", req) = Errors!Yes
  <2> DEFINE test(scope) == Errors!Test(item, ctx, scope, req)
  <2>1. test("after") \in results
    BY <1>4 DEF Errors!Results
  <2>2. test("after") # Errors!No /\ test("after") # Errors!Unknown
    BY <1>2, <2>1
  <2>3. \/ \A scope : test(scope) = Errors!Cleanup(ctx, scope)
        \/ test("before") = test("after") /\ test("after") \in Answers3
    BY TestsOfItems
  <2> HIDE DEF test
  <2>4. test("after") = Errors!Yes /\ test("before") = Errors!Yes
    BY <1>3, <2>2, <2>3 DEF Answers3
  <2> QED
    BY <2>4 DEF test
<1>5. items # {}
  BY DEF Errors!Checklist
<1>6. (results \cup earlier = {Errors!Yes}) = TRUE
  BY <1>4, <1>5 DEF Errors!Results
<1>7. Errors!Satisfied(TRUE).already
  BY DEF Errors!Satisfied, Errors!Outcome
<1> HIDE DEF results, earlier
<1> QED
  BY <1>2, <1>6, <1>7

\* A test that covers the case was there.
LEMMA TestWasThere ==
  ASSUME NEW req, NEW ctx, ctx.testsBefore = ctx.tests,
         Testing!TestingRule(req, ctx).status = "satisfied"
  PROVE  Testing!TestingRule(req, ctx).already
<1>1. /\ Testing!Inconclusive.status # "satisfied" /\ Testing!NotSatisfied.status # "satisfied"
      /\ Testing!Satisfied(TRUE).already
  BY DEF Testing!Inconclusive, Testing!NotSatisfied, Testing!Satisfied, Testing!Outcome
<1> DEFINE changed == Testing!ChangedTests(ctx.tests, ctx.testsBefore)
<1>2. changed = {}
  BY DEF Testing!ChangedTests
<1>3. Testing!Runnable(changed) = {}
  BY <1>2 DEF Testing!Runnable
<1> HIDE DEF changed
<1>4. Testing!TestingRule(req, ctx)
        \in {Testing!Inconclusive, Testing!ExistingOrMissing(req, ctx)}
  BY <1>2, <1>3, Zenon DEF Testing!TestingRule, changed
<1>5. Testing!ExistingOrMissing(req, ctx) \in {Testing!Satisfied(TRUE), Testing!NotSatisfied}
  BY DEF Testing!ExistingOrMissing
<1> QED
  BY <1>1, <1>4, <1>5

\* A status, on its branch, was there, and a header.
LEMMA ResponseWasThere ==
  ASSUME NEW req, NEW ctx, ctx.before = ctx.after,
         ctx.handlersBefore = ctx.handlers,
         req.codes # {} \/ req.shape \notin {"message", "return value"},
         Api!ApiRule(req, ctx).status = "satisfied"
  PROVE  Api!ApiRule(req, ctx).already
<1>1. /\ Api!Inconclusive.status # "satisfied" /\ Api!NotSatisfied.status # "satisfied"
      /\ \A b : Api!Satisfied(b).already = b
  BY DEF Api!Inconclusive, Api!NotSatisfied, Api!Satisfied, Api!Outcome
<1>2. CASE req.codes # {}
  <2> DEFINE names == Api!ConditionNames(req, ctx.after)
             sites == Api!Sites(ctx.after, ctx.handlers)
             hits(code) == {s \in sites : s.code = code /\ Api!OnBranch(s, names, req)}
             earlier == {Api!BranchText(s) : s \in Api!Sites(ctx.before, ctx.handlersBefore)}
             old == \A code \in req.codes : \A s \in hits(code) : Api!BranchText(s) \in earlier
  <2>1. Api!ApiRule(req, ctx) = Api!StatusRule(req, ctx)
    BY <1>2, Zenon DEF Api!ApiRule
  <2>2. Api!StatusRule(req, ctx) \in {Api!Inconclusive, Api!NotSatisfied, Api!Satisfied(old)}
    BY Zenon DEF Api!StatusRule
  <2>3. old = TRUE
    OBVIOUS
  <2> HIDE DEF old
  <2> QED
    BY <1>1, <2>1, <2>2, <2>3
<1>3. CASE req.codes = {}
  <2> DEFINE set == {q \in {"double", "single"} : <<q, req.header>> \in Api!Said(ctx.after)}
             quote == IF "double" \in set THEN "double" ELSE "single"
             old == <<quote, req.header>> \in Api!Said(ctx.before)
  <2>1. Api!ApiRule(req, ctx) \in {Api!Inconclusive, Api!HeaderRule(req, ctx)}
    BY <1>3, Zenon DEF Api!ApiRule
  <2>2. Api!HeaderRule(req, ctx) \in {Api!Inconclusive, Api!NotSatisfied, Api!Satisfied(old)}
    BY Zenon DEF Api!HeaderRule
  <2>3. set # {} => old = TRUE
    OBVIOUS
  <2>4. set = {} => Api!HeaderRule(req, ctx) \in {Api!Inconclusive, Api!NotSatisfied}
    BY Zenon DEF Api!HeaderRule
  <2> HIDE DEF old, set
  <2> QED
    BY <1>1, <2>1, <2>2, <2>3, <2>4
<1> QED
  BY <1>2, <1>3

\* An old name that is still used is no renaming.
LEMMA NameWasThere ==
  ASSUME NEW req, NEW ctx, ctx.before = ctx.after, ctx.fileBefore = ctx.fileAfter,
         ~Naming!KeepsAlias(req, ctx), Naming!NamingRule(req, ctx).status = "satisfied"
  PROVE  Naming!NamingRule(req, ctx).already
<1>1. /\ Naming!Inconclusive.status # "satisfied" /\ Naming!NotSatisfied.status # "satisfied"
      /\ Naming!Satisfied(TRUE).already
  BY DEF Naming!Inconclusive, Naming!NotSatisfied, Naming!Satisfied, Naming!Outcome
<1> DEFINE r == Naming!RenameRequest(req, ctx)
           before == Naming!ScopeBefore(r.old, ctx)
           after == Naming!ScopeAfter(r.old, ctx)
           alias == Naming!AliasLines(r.old, r.new, after)
           left == Naming!IdentifierLines(after, r.old) \ alias
           used == r.old # Naming!None /\ Naming!IdentifierLines(before, r.old) # {}
<1>2. before = after
  BY DEF Naming!ScopeBefore, Naming!ScopeAfter
<1>3. alias = {}
  BY DEF Naming!KeepsAlias
<1>4. used => left # {}
  BY <1>2, <1>3
<1>5. used /\ left # {} => Naming!NamingRule(req, ctx) \in {Naming!Inconclusive, Naming!NotSatisfied}
  BY Zenon DEF Naming!NamingRule
<1>6. ~used => Naming!NamingRule(req, ctx) \in {Naming!Inconclusive, Naming!Satisfied(TRUE)}
  BY Zenon DEF Naming!NamingRule
<1> HIDE DEF used, left
<1> QED
  BY <1>1, <1>4, <1>5, <1>6

\* Occurrences are counted.
LEMMA CountsAreNumbers ==
  ASSUME NEW lines, NEW n \in Nat, DOMAIN lines = 1..n, NEW block
  PROVE  /\ Other!Count(block, lines) \in Nat
         /\ \A text : Other!Cardinality({i \in DOMAIN lines : lines[i].text = text}) \in Nat
<1>1. \A S : S \subseteq 1..n => Other!Cardinality(S) \in Nat
  <2> TAKE S
  <2> HAVE S \subseteq 1..n
  <2>1. IsFiniteSet(1..n)
    BY FS_Interval
  <2>2. Cardinality(S) \in Nat
    BY <2>1, FS_Subset, FS_CardinalityType
  <2>3. Other!Cardinality(S) = Cardinality(S)
    BY Zenon DEF Other!Cardinality, Cardinality
  <2> QED
    BY <2>2, <2>3
<1> QED
  BY <1>1 DEF Other!Count

\* The lines that are not blank are as many as their numbers.
LEMMA FilledLines ==
  ASSUME NEW lines, NEW n \in Nat, DOMAIN lines = 1..n
  PROVE  /\ \E m \in Nat : DOMAIN Other!Filled(lines) = 1..m
         /\ \E m \in Nat : DOMAIN Other!Normalized(lines) = 1..m
<1> DEFINE S == {i \in DOMAIN lines : lines[i].text # Other!None}
<1>1. Cardinality(S) \in Nat
  <2>1. S \subseteq 1..n /\ IsFiniteSet(1..n)
    BY FS_Interval
  <2> HIDE DEF S
  <2> QED
    BY <2>1, FS_Subset, FS_CardinalityType
<1>2. Other!Cardinality(S) = Cardinality(S)
  BY Zenon DEF Other!Cardinality, Cardinality
<1>3. DOMAIN Other!InOrder(S) = 1..Cardinality(S)
  <2> HIDE DEF S
  <2> QED
    BY <1>2 DEF Other!InOrder
<1>4. DOMAIN Other!Filled(lines) = 1..Cardinality(S)
  <2>1. Other!Filled(lines) = [k \in DOMAIN Other!InOrder(S) |-> lines[Other!InOrder(S)[k]]]
    BY DEF Other!Filled
  <2> HIDE DEF S
  <2> QED
    BY <1>3, <2>1
<1> HIDE DEF S
<1>5. DOMAIN Other!Normalized(lines) = 1..Cardinality(S)
  BY <1>4 DEF Other!Normalized
<1> QED
  BY <1>1, <1>4, <1>5

\* Text that is as it was has not taken up a suggestion.
LEMMA SuggestionIsAChange ==
  ASSUME NEW req, NEW ctx, ctx.linesAfter = ctx.lines, NEW n \in Nat, DOMAIN ctx.lines = 1..n
  PROVE  Other!SuggestionRule(req, ctx).status # "satisfied"
<1>1. /\ Other!Inconclusive.status # "satisfied" /\ Other!NotSatisfied.status # "satisfied"
  BY DEF Other!Inconclusive, Other!NotSatisfied, Other!Outcome
<1> DEFINE old == Other!CommentedLines(ctx)
           exact == Other!Normalized(old) = Other!Normalized(req.suggested)
           norm(lines) == IF exact THEN Other!Filled(lines) ELSE Other!Normalized(lines)
           was(block) == Other!Count(norm(block), norm(ctx.lines))
           is(block) == Other!Count(norm(block), norm(ctx.linesAfter))
<1>2. \A block : is(block) = was(block) /\ was(block) \in Nat
  <2> TAKE block
  <2>1. PICK m \in Nat : DOMAIN norm(ctx.lines) = 1..m
    BY FilledLines
  <2> QED
    BY <2>1, CountsAreNumbers
<1> DEFINE fewer == is(old) < was(old)
           more == is(req.suggested) > was(req.suggested) \/ (is(req.suggested) >= 1 /\ fewer)
<1>3. ~fewer /\ ~more
  <2> HIDE DEF is, was
  <2> QED
    BY <1>2
<1>4. Other!SuggestionRule(req, ctx) \in {Other!Inconclusive, Other!NotSatisfied}
  BY <1>3, Zenon DEF Other!SuggestionRule
<1> QED
  BY <1>1, <1>4

\* Of the other requests, only one for a name in place of another is met by what was there.
LEMMA UseWasThere ==
  ASSUME NEW req, NEW ctx, ctx.before = ctx.after, ctx.docstringBefore = ctx.docstring,
         ctx.fileLinesAfter = ctx.fileLines, NEW n \in Nat, DOMAIN ctx.fileLines = 1..n,
         Other!OtherRule(req, ctx).status = "satisfied"
  PROVE  Other!OtherRule(req, ctx).already
<1>1. /\ Other!Inconclusive.status # "satisfied" /\ Other!NotSatisfied.status # "satisfied"
      /\ Other!Satisfied(TRUE).already
  BY DEF Other!Inconclusive, Other!NotSatisfied, Other!Satisfied, Other!Outcome
<1> DEFINE unmet == {Other!Inconclusive, Other!NotSatisfied}
<1>2. Other!DocstringRule(ctx) \in unmet
  BY Zenon DEF Other!DocstringRule
<1>3. Other!UseRule(req, ctx) \in unmet \cup {Other!Satisfied(TRUE)}
  <2> DEFINE used(x, code) == x \in Other!Identifiers(code) \cup {p[2] : p \in Other!Said(code)}
             was(x) == used(x, ctx.before)
             is(x) == used(x, ctx.after)
             old == was(req.new) /\ ~was(req.old)
  <2>1. is(req.new) /\ ~is(req.old) => old = TRUE
    OBVIOUS
  <2>2. is(req.new) /\ ~is(req.old) =>
          Other!UseRule(req, ctx) \in {Other!Inconclusive, Other!Satisfied(old)}
    BY Zenon DEF Other!UseRule
  <2>3. ~(is(req.new) /\ ~is(req.old)) => Other!UseRule(req, ctx) \in unmet
    BY Zenon DEF Other!UseRule
  <2> HIDE DEF old
  <2> QED
    BY <2>1, <2>2, <2>3
<1>4. Other!RemovalRule(req, ctx) \in unmet
  <2> DEFINE block == Other!Normalized(Other!CommentedLines(ctx))
             gone == Other!Count(block, Other!Normalized(ctx.fileLinesAfter))
                       < Other!Count(block, Other!Normalized(ctx.fileLines))
  <2>1. ~gone
    <3>1. PICK m \in Nat : DOMAIN Other!Normalized(ctx.fileLines) = 1..m
      BY FilledLines
    <3>2. Other!Count(block, Other!Normalized(ctx.fileLines)) \in Nat
      BY <3>1, CountsAreNumbers
    <3> HIDE DEF block
    <3> QED
      BY <3>2
  <2> QED
    BY <2>1, Zenon DEF Other!RemovalRule
<1>5. Other!CommentRule(req, ctx) \in unmet
  <2> DEFINE count(lines) == Other!Cardinality({i \in DOMAIN lines : lines[i].text = req.comment})
  <2>1. ~(count(ctx.fileLinesAfter) > count(ctx.fileLines))
    <3>1. count(ctx.fileLines) \in Nat
      BY CountsAreNumbers
    <3> HIDE DEF count
    <3> QED
      BY <3>1
  <2> QED
    BY <2>1, Zenon DEF Other!CommentRule
<1>6. Other!OtherRule(req, ctx)
        \in {Other!DocstringRule(ctx), Other!UseRule(req, ctx), Other!RemovalRule(req, ctx),
             Other!CommentRule(req, ctx), Other!Inconclusive}
  BY Zenon DEF Other!OtherRule
<1> QED
  BY <1>1, <1>2, <1>3, <1>4, <1>5, <1>6

\* In a file that is as it was, the commented symbol is where it was and nothing moved.
LEMMA NothingMoved ==
  ASSUME NEW code, IsCode(code), NEW anchor, NEW target, target = Enclosing(code, anchor),
         target # 0 => FindSymbol(code, Qualified(code, target)) = target,
         NEW r, r = ResolveTarget(code, code, anchor)
  PROVE  r.target = target /\ r.after = target /\ r.moved = 0
<1> DEFINE line == D!LineMapping(TextLines(code), TextLines(code), anchor)
           found == SameSymbol(code, target, code)
           holder == Enclosing(code, line)
<1>1. found = target
  BY DEF SameSymbol
<1>2. line = anchor \/ line = 0
  <2>1. Len(TextLines(code)) = Len(code) /\ Len(code) \in Nat
    <3>1. Len(code) \in Nat /\ DOMAIN code = 1..Len(code)
      BY LinesOfCode DEF IsCode
    <3>2. DOMAIN TextLines(code) = 1..Len(code)
      BY <3>1 DEF TextLines
    <3> QED
      BY <3>1, <3>2
  <2> QED
    BY <2>1, SelfMapping
<1>3. holder = target \/ holder = 0
  BY <1>2 DEF Enclosing
<1>4. r = Resolved(code, target, found, line)
  BY DEF ResolveTarget
<1> HIDE DEF line, found
<1>5. ~(target # 0 /\ MovedTo(code, holder, found))
  BY <1>1, <1>3 DEF MovedTo
<1> QED
  BY <1>1, <1>4, <1>5 DEF Resolved

\* What the rules see, by its name.
LEMMA FieldsOfTheContext ==
  ASSUME NEW c, IsCase(c), NEW r, NEW new
  PROVE  LET ctx == ContextOf(c, r, new)
             both == r.target # 0 /\ new # 0
         IN  /\ ctx.before = ScopeBefore(c.before, r) /\ ctx.after = ScopeAfter(c.after, r)
             /\ ctx.fileBefore = c.before /\ ctx.fileAfter = c.after
             /\ ctx.tests = c.tests /\ ctx.testsBefore = c.testsBefore
             /\ ctx.lines = TargetLines(c.before, r.target, both)
             /\ ctx.linesAfter = TargetLines(c.after, new, both)
             /\ ctx.fileLines = TextOf(c.before) /\ ctx.fileLinesAfter = TextOf(c.after)
             /\ ctx.docstring = DocstringOf(c.after, new)
             /\ ctx.docstringBefore = DocstringOf(c.before, r.target)
             /\ ctx.handlers = c.known.handlers /\ ctx.handlersBefore = c.known.handlersBefore
<1> DEFINE ctx == ContextOf(c, r, new)
           both == r.target # 0 /\ new # 0
<1>1. ctx.before = ScopeBefore(c.before, r) /\ ctx.after = ScopeAfter(c.after, r)
  BY DEF ContextOf, With
<1>2. ctx.fileBefore = c.before /\ ctx.fileAfter = c.after
  BY DEF ContextOf, With
<1>3. ctx.tests = c.tests /\ ctx.testsBefore = c.testsBefore
  BY DEF ContextOf, With
<1>4. /\ ctx.lines = TargetLines(c.before, r.target, both)
      /\ ctx.linesAfter = TargetLines(c.after, new, both)
  BY DEF ContextOf, With
<1>5. ctx.fileLines = TextOf(c.before) /\ ctx.fileLinesAfter = TextOf(c.after)
  BY DEF ContextOf, With
<1>6. /\ ctx.docstring = DocstringOf(c.after, new)
      /\ ctx.docstringBefore = DocstringOf(c.before, r.target)
  BY DEF ContextOf, With
<1>7. {"handlers", "handlersBefore"} \subseteq DOMAIN c.known
  BY DEF IsCase
<1>8. ctx.handlers = c.known.handlers /\ ctx.handlersBefore = c.known.handlersBefore
  BY <1>7 DEF ContextOf, With
<1> HIDE DEF ctx, both
<1>9. /\ ctx.before = ScopeBefore(c.before, r) /\ ctx.after = ScopeAfter(c.after, r)
       /\ ctx.fileBefore = c.before /\ ctx.fileAfter = c.after
       /\ ctx.tests = c.tests /\ ctx.testsBefore = c.testsBefore
       /\ ctx.lines = TargetLines(c.before, r.target, both)
       /\ ctx.linesAfter = TargetLines(c.after, new, both)
       /\ ctx.fileLines = TextOf(c.before) /\ ctx.fileLinesAfter = TextOf(c.after)
       /\ ctx.docstring = DocstringOf(c.after, new)
       /\ ctx.docstringBefore = DocstringOf(c.before, r.target)
       /\ ctx.handlers = c.known.handlers /\ ctx.handlersBefore = c.known.handlersBefore
  BY <1>1, <1>2, <1>3, <1>4, <1>5, <1>6, <1>8
<1> QED
  BY <1>9 DEF ctx, both

\* So the rules see the same before and after.
LEMMA ContextIsUnchanged ==
  ASSUME IsCase(case), Untouched
  PROVE  Unchanged(RuleContext(case))
<1> DEFINE code == case.after
           target == Enclosing(case.before, case.anchor)
           r == ResolveTarget(case.before, case.after, case.anchor)
           new == IF r.after # 0 THEN r.after ELSE r.moved
           both == r.target # 0 /\ new # 0
           ctx == ContextOf(case, r, new)
<1>1. /\ case.before = code /\ case.tests = case.testsBefore
      /\ case.known.handlers = case.known.handlersBefore
      /\ target # 0 => FindSymbol(code, Qualified(code, target)) = target
  BY DEF Untouched
<1>2. IsCode(code) /\ Len(code) \in Nat /\ DOMAIN code = 1..Len(code)
  BY LinesOfCode DEF IsCase, IsCode
<1>3. r.target = target /\ r.after = target /\ r.moved = 0
  BY <1>1, <1>2, NothingMoved
<1>4. new = target
  BY <1>3
<1>5. target \in {0} \cup Symbols(code)
  BY <1>2, <1>3, ResolvedSymbols
<1>6. IsCode(ctx.after)
  <2>1. RuleContext(case) = ctx
    BY DEF RuleContext, ContextFor
  <2> QED
    BY <2>1, CodeOfTheContext
<1> HIDE DEF target, r
<1>7. ScopeAfter(code, r) = ScopeBefore(code, r)
  <2>1. CASE target = 0
    BY <1>3, <2>1 DEF ScopeAfter, ScopeBefore
  <2>2. CASE target # 0
    <3>1. ScopeSymbols(r) = {target} /\ ScopeSymbols(r) # {}
      BY <1>3, <2>2 DEF ScopeSymbols
    <3>2. Min({target}) = target /\ Max({target}) = target
      <4>1. target \in Int
        BY <1>2, <1>5 DEF Symbols
      <4>2. \A x \in {target} : x = target /\ x <= target /\ x >= target
        BY <4>1
      <4> QED
        BY <4>2 DEF Min, Max
    <3> HIDE DEF code
    <3> QED
      BY <1>3, <2>2, <3>1, <3>2 DEF ScopeAfter, ScopeBefore
  <2> QED
    BY <2>1, <2>2
<1>8. /\ ctx.before = ScopeBefore(case.before, r) /\ ctx.after = ScopeAfter(case.after, r)
      /\ ctx.fileBefore = case.before /\ ctx.fileAfter = case.after
      /\ ctx.tests = case.tests /\ ctx.testsBefore = case.testsBefore
      /\ ctx.lines = TargetLines(case.before, r.target, both)
      /\ ctx.linesAfter = TargetLines(case.after, new, both)
      /\ ctx.fileLines = TextOf(case.before) /\ ctx.fileLinesAfter = TextOf(case.after)
      /\ ctx.docstring = DocstringOf(case.after, new)
      /\ ctx.docstringBefore = DocstringOf(case.before, r.target)
      /\ ctx.handlers = case.known.handlers /\ ctx.handlersBefore = case.known.handlersBefore
  BY FieldsOfTheContext
<1>9. \A p : IsCode(p) => \E n \in Nat : DOMAIN TextOf(p) = 1..n
  <2> TAKE p
  <2> HAVE IsCode(p)
  <2>1. Len(p) \in Nat /\ DOMAIN p = 1..Len(p)
    BY LinesOfCode DEF IsCode
  <2> QED
    BY <2>1 DEF TextOf
<1>10. \E n \in Nat : DOMAIN ctx.lines = 1..n
  <2>1. \A s \in Symbols(code) : IsCode(Part(code, s))
    BY <1>2, ExtentIsCode DEF Part, Symbols, Clauses
  <2>2. r.target # 0 => IsCode(Part(code, r.target))
    BY <1>3, <1>5, <2>1
  <2>3. ctx.lines = TextOf(IF r.target # 0 /\ both THEN Part(code, r.target) ELSE code)
    <3> HIDE DEF both, new, ctx
    <3> QED
      BY <1>1, <1>8 DEF TargetLines
  <2> HIDE DEF ctx, code, both
  <2>4. IsCode(IF r.target # 0 /\ both THEN Part(code, r.target) ELSE code)
    BY <1>2, <2>2
  <2> QED
    BY <1>9, <2>3, <2>4
<1>11. \E n \in Nat : DOMAIN ctx.fileLines = 1..n
  <2>1. ctx.fileLines = TextOf(code)
    BY <1>1, <1>8
  <2> HIDE DEF ctx, code
  <2> QED
    BY <1>2, <1>9, <2>1
<1> HIDE DEF ctx, both, new
<1>12. /\ ctx.before = ctx.after /\ ctx.fileBefore = ctx.fileAfter /\ ctx.testsBefore = ctx.tests
       /\ ctx.linesAfter = ctx.lines /\ ctx.fileLinesAfter = ctx.fileLines
       /\ ctx.docstringBefore = ctx.docstring
       /\ ctx.handlersBefore = ctx.handlers
  BY <1>1, <1>3, <1>4, <1>7, <1>8
<1>13. Unchanged(ctx)
  BY <1>6, <1>10, <1>11, <1>12 DEF Unchanged
<1> QED
  BY <1>13 DEF RuleContext, ContextFor, ctx, new, r

\* What is not taken for new was there: a satisfied request of an unchanged file is answered
\* by what it held before.
LEMMA AnswerWasThere ==
  ASSUME NEW asked, NEW ctx, Unchanged(ctx), ~TakenForNew(asked, ctx),
         CheckRequirement(asked, ctx).status = "satisfied"
  PROVE  CheckRequirement(asked, ctx).already
<1> DEFINE category == asked.category
           req == asked.reads[category]
           o == CheckRequirement(asked, ctx)
<1>1. Other!Inconclusive.status # "satisfied"
  BY DEF Other!Inconclusive, Other!Outcome
<1>2. /\ ctx.before = ctx.after /\ ctx.fileBefore = ctx.fileAfter /\ ctx.testsBefore = ctx.tests
      /\ ctx.linesAfter = ctx.lines /\ ctx.fileLinesAfter = ctx.fileLines
      /\ ctx.docstringBefore = ctx.docstring
      /\ ctx.handlersBefore = ctx.handlers
      /\ \E n \in Nat : DOMAIN ctx.lines = 1..n
      /\ \E n \in Nat : DOMAIN ctx.fileLines = 1..n
  BY DEF Unchanged
<1>3. asked.suggested = <<>>
  <2> SUFFICES ASSUME asked.suggested # <<>>
               PROVE  FALSE
    OBVIOUS
  <2>1. o = Other!SuggestionRule([suggested |-> asked.suggested[1]], ctx)
    BY Zenon DEF CheckRequirement
  <2> HIDE DEF o
  <2> QED
    BY <1>2, <2>1, SuggestionIsAChange DEF o
<1>4. category \in DOMAIN asked.reads
  <2> SUFFICES ASSUME category \notin DOMAIN asked.reads
               PROVE  FALSE
    OBVIOUS
  <2>1. o = Other!Inconclusive
    BY <1>3, Zenon DEF CheckRequirement
  <2> QED
    BY <1>1, <2>1
<1> DEFINE rule == CASE category = "naming" -> Naming!NamingRule(req, ctx)
                     [] category = "validation" -> Validation!ValidationRule(req, ctx)
                     [] category = "testing" -> Testing!TestingRule(req, ctx)
                     [] category = "error_handling" -> Errors!ErrorRule(req, ctx)
                     [] category = "api_behavior" -> Api!ApiRule(req, ctx)
                     [] OTHER -> Other!OtherRule(req, ctx)
<1>5. o = rule
  BY <1>3, <1>4, Zenon DEF CheckRequirement
<1>6. CASE category = "naming"
  <2>1. o = Naming!NamingRule(req, ctx)
    BY <1>5, <1>6, Zenon
  <2>2. ~Naming!KeepsAlias(req, ctx)
    BY <1>3, <1>6 DEF TakenForNew
  <2> QED
    BY <1>2, <2>1, <2>2, NameWasThere
<1>7. CASE category = "validation"
  <2>1. o = Validation!ValidationRule(req, ctx)
    BY <1>5, <1>7, Zenon
  <2>2. Validation!Missing(req, ctx) = {}
    BY <1>3, <1>7 DEF TakenForNew
  <2> QED
    BY <2>1, <2>2, GuardsWereThere
<1>8. CASE category = "testing"
  <2>1. o = Testing!TestingRule(req, ctx)
    BY <1>5, <1>8, Zenon
  <2> QED
    BY <1>2, <2>1, TestWasThere
<1>9. CASE category = "error_handling"
  <2>1. o = Errors!ErrorRule(req, ctx)
    BY <1>5, <1>9, Zenon
  <2> QED
    BY <1>2, <2>1, HandlingWasThere
<1>10. CASE category = "api_behavior"
  <2>1. o = Api!ApiRule(req, ctx)
    BY <1>5, <1>10, Zenon
  <2>2. req.codes # {} \/ req.shape \notin {"message", "return value"}
    BY <1>3, <1>10 DEF TakenForNew
  <2> QED
    BY <1>2, <2>1, <2>2, ResponseWasThere
<1>11. CASE category \notin {"naming", "validation", "testing", "error_handling", "api_behavior"}
  <2>1. o = Other!OtherRule(req, ctx)
    BY <1>5, <1>11, Zenon
  <2> QED
    BY <1>2, <2>1, UseWasThere
<1> QED
  BY <1>6, <1>7, <1>8, <1>9, <1>10, <1>11

\* When nothing changed, a request that is satisfied is marked as satisfied before, whichever
\* rule found it so, except for what the rules do not compare.
THEOREM OldCodeIsNotNew == Spec => []OldCodeEarnsNoNewCredit
<1>1. ReviewInv => OldCodeEarnsNoNewCredit
  <2> SUFFICES ASSUME ReviewInv, VerifiedBy(RuleBased), Untouched,
                      NEW k \in DOMAIN result[1].decision.statuses,
                      result[1].decision.statuses[k].verdict = "SATISFIED",
                      ~TakenForNew(result[1].set.requirements[k], RuleContext(case))
               PROVE  CreditedToOldCode(k)
    BY DEF OldCodeEarnsNoNewCredit
  <2> DEFINE asked == result[1].set.requirements[k]
             ctx == RuleContext(case)
  <2>1. k \in DOMAIN result[1].set.requirements
    <3>1. PICK p \in RuleBased : result = <<Run(p, case)>>
      BY DEF ReviewInv, Verified, VerifiedBy, Run, RunOn, Judged
    <3> DEFINE set == RequirementStage(p, case)
               evidence == EvidenceStages(p, case, set)
    <3>2. result[1].set = set /\ result[1].decision = Aggregate(p, case, set, evidence)
      BY <3>1 DEF Run, RunOn, Judged
    <3>3. p \in Pipelines
      BY DEF RuleBased, Gated
    <3> HIDE DEF set, evidence
    <3> QED
      BY <3>2, <3>3, DecisionsAreWellFormed DEF WellFormed
  <2>2. Available(case) /\ CheckRequirement(asked, ctx).status = "satisfied"
    BY <2>1, SatisfiedByItsRule
  <2>3. Unchanged(ctx)
    BY ContextIsUnchanged DEF ReviewInv
  <2> HIDE DEF ctx
  <2>4. CheckRequirement(asked, ctx).already
    BY <2>2, <2>3, AnswerWasThere DEF ctx
  <2> QED
    BY <2>1, <2>2, <2>4, CreditOfAResult DEF ctx
<1> QED
  BY <1>1, ReviewInvariant, PTL
=============================================================================
