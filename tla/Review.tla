------------------------------- MODULE Review -------------------------------
(***************************************************************************)
(* A review comment, the author's changes in answer to it, and VeriReview's *)
(* verification of them: the composition of requirement extraction, target *)
(* resolution, the rules, the pipelines and the policy.                    *)
(*                                                                         *)
(* The reviewer words the comment, the author edits the code and the tests *)
(* line by line, and any pipeline may verify the case at any time.         *)
(***************************************************************************)
EXTENDS Verification, ControlFlow

CONSTANTS
  Starts,     \* the cases reviews begin with, by name
  Words,      \* per case: the segments the reviewer may add
  Fragments,  \* per case: the code the author may insert
  Wrappers,   \* per case: [head, tail], what the author may put around a statement
  Tests,      \* per case: the tests the author may add
  MaxEdits    \* per case: bound on the steps of reviewer and author

IsSegment(s) ==
  /\ DOMAIN s = {"verb", "cues", "target", "reads", "condition", "colon", "contrast",
                 "raised", "exceptions", "parts"}
  /\ IsSequence(s.parts)

IsSentence(s) ==
  /\ DOMAIN s = {"segments", "signals"}
  /\ IsSequence(s.segments) /\ s.segments # <<>>
  /\ \A i \in DOMAIN s.segments : IsSegment(s.segments[i])

IsComment(c) ==
  /\ DOMAIN c = {"sentences", "suggestions"}
  /\ IsSequence(c.sentences) /\ IsSequence(c.suggestions)
  /\ \A i \in DOMAIN c.sentences : IsSentence(c.sentences[i])

IsCase(c) ==
  /\ DOMAIN c = {"comment", "before", "after", "anchor", "tests", "testsBefore",
                 "fetched", "broken", "flags", "known"}
  /\ IsComment(c.comment) /\ IsCode(c.after)
  /\ DOMAIN c.known = {"helpers", "models", "flags", "fixtures", "ownWords", "handlers",
                       "handlersBefore", "span"}

ASSUME StartsAssumption ==
  \A n \in DOMAIN Starts :
    /\ IsCase(Starts[n]) /\ MaxEdits[n] \in Nat
    /\ \A s \in Words[n] : IsSegment(s)
    /\ \A fragment \in Fragments[n] : IsCode(fragment)
    /\ \A wrapper \in Wrappers[n] :
         /\ IsCode(<<wrapper.head>>) /\ wrapper.head.kind \in Compound
         /\ IsCodeIn(wrapper.tail, wrapper.head.kind)

VARIABLES
  name,    \* which case this is
  case,    \* the case as it stands
  edits,   \* steps taken so far
  result   \* the last verification of the case, <<>> when it changed since

vars == <<name, case, edits, result>>

Policy == INSTANCE PolicyDecision
            WITH Categories <- {"naming", "validation", "testing",
                                "error_handling", "api_behavior", "other"},
                 NoCategory <- None

-----------------------------------------------------------------------------
(***************************************************************************)
(* Editing code.                                                           *)
(***************************************************************************)
\* Whether a statement can stand before line p with line u around it.
Fits(code, p, u) ==
  LET around(i) == {0} \cup (IF i \in DOMAIN code THEN Around(code)[i] ELSE {})
  IN  /\ u \in around(p - 1)
      /\ u # 0 => code[u].kind \in Compound
      /\ p \in DOMAIN code => code[p].up \in around(u)
      /\ \A j \in 1..(p - 1) : code[j].up = u => code[j].kind \notin Clauses

Inserted(code, p, u, fragment) ==
  LET n == Len(fragment)
      shifted(line) == [line EXCEPT !.up = IF @ >= p THEN @ + n ELSE @]
  IN  [i \in 1..(Len(code) + n) |->
         IF i < p THEN code[i]
         ELSE IF i < p + n
           THEN [fragment[i - p + 1] EXCEPT !.up = IF @ = 0 THEN u ELSE @ + p - 1]
         ELSE shifted(code[i - n])]

\* A statement goes with all it encloses; its block keeps another statement.
Removable(code, i) ==
  /\ code[i].kind \notin Clauses \cup {"def"}
  /\ \E j \in DOMAIN code \ {i} :
       code[j].up = code[i].up /\ code[j].kind \notin Clauses \cup {"comment"}

Removed(code, i) == Only(code, DOMAIN code \ Extent(code, i))

Wrapped(code, i, wrapper) ==
  LET m == Cardinality(Extent(code, i))
      opened == Inserted(code, i, code[i].up, <<wrapper.head>>)
      inside == [j \in DOMAIN opened |->
                   IF j = i + 1 THEN [opened[j] EXCEPT !.up = i] ELSE opened[j]]
  IN  Inserted(inside, i + m + 1, i, wrapper.tail)

-----------------------------------------------------------------------------
Init ==
  /\ name \in DOMAIN Starts
  /\ case = Starts[name]
  /\ edits = 0
  /\ result = <<>>

Edit(changed) ==
  /\ edits < MaxEdits[name]
  /\ case' = changed
  /\ edits' = edits + 1
  /\ result' = <<>>
  /\ UNCHANGED name

InsertCode ==
  \E fragment \in Fragments[name], p \in 1..(Len(case.after) + 1), u \in 0..Len(case.after) :
    /\ Fits(case.after, p, u)
    /\ Edit([case EXCEPT !.after = Inserted(@, p, u, fragment)])

DeleteCode ==
  \E i \in DOMAIN case.after :
    /\ Removable(case.after, i)
    /\ Edit([case EXCEPT !.after = Removed(@, i)])

WrapCode ==
  \E wrapper \in Wrappers[name], i \in DOMAIN case.after :
    /\ case.after[i].kind \notin Clauses \cup {"def", "class", "docstring", "comment"}
    /\ Edit([case EXCEPT !.after = Wrapped(@, i, wrapper)])

AddTest ==
  \E t \in Tests[name] \ case.tests :
    /\ \A u \in case.tests : <<u.file, u.name>> # <<t.file, t.name>>
    /\ Edit([case EXCEPT !.tests = @ \cup {t}])

DeleteTest == \E t \in case.tests : Edit([case EXCEPT !.tests = @ \ {t}])

\* Another segment of the last sentence, or the first of a new one.
AddWords ==
  \E s \in Words[name], signals \in {{}, {"question"}, {"hedged"}} :
    LET sentences == case.comment.sentences
        last == Len(sentences)
    IN  \/ Edit([case EXCEPT !.comment.sentences = Append(@, X!Sentence(<<s>>, signals))])
        \/ /\ last > 0 /\ signals = {}
           /\ Edit([case EXCEPT !.comment.sentences[last].segments = Append(@, s)])

Verify ==
  \E pipeline \in Pipelines :
    /\ result = <<>>
    /\ result' = <<Run(pipeline, case)>>
    /\ UNCHANGED <<name, case, edits>>

Next ==
  \/ InsertCode \/ DeleteCode \/ WrapCode
  \/ AddTest \/ DeleteTest
  \/ AddWords
  \/ Verify

Spec == Init /\ [][Next]_vars

-----------------------------------------------------------------------------
(***************************************************************************)
(* What has been verified.                                                 *)
(***************************************************************************)
VerifiedBy(pipelines) == result # <<>> /\ result[1].pipeline \in pipelines

\* The requirements of a category the rules found satisfied, and what they ask
\* for as the rules read them.
Satisfied(category) ==
  IF ~VerifiedBy({"mvp"}) THEN {}
  ELSE LET set == result[1].set.requirements
       IN  {k \in DOMAIN set : /\ result[1].decision.statuses[k].verdict = "SATISFIED"
                               /\ set[k].category = category
                               /\ set[k].suggested = <<>>}

SatisfiedRequests(category) ==
  {result[1].set.requirements[k].reads[category] : k \in Satisfied(category)}

\* Whether the result of a requirement says that old code met it.
CreditedToOldCode(k) ==
  \E e \in result[1].evidence : e.req = k /\ e.kind = "rule_result" /\ e.old

\* A property of what the rules looked at, for every satisfied request of a category.
EverySatisfied(category, Holds(_, _)) ==
  \A req \in SatisfiedRequests(category) : Holds(RuleContext(case), req)

-----------------------------------------------------------------------------
(***************************************************************************)
(* Properties of the rules.                                                *)
(***************************************************************************)
\* The last verification has a status for every requirement extracted, made of
\* the verdicts and confidences of contracts/verification.py, and cites evidence
\* the pipeline has collected; HIGH is never given before calibration.
TypeOK ==
  /\ name \in DOMAIN Starts
  /\ edits \in 0..MaxEdits[name]
  /\ IsCode(case.after)
  /\ result # <<>> =>
       /\ result[1].pipeline \in Pipelines
       /\ result[1].decision.verdict \in Policy!Verdicts
       /\ result[1].decision.confidence \in Policy!Confidences \ {"HIGH"}
       /\ DOMAIN result[1].decision.statuses = DOMAIN result[1].set.requirements
       /\ \A status \in ToSet(result[1].decision.statuses) :
            status.verdict \in Policy!Verdicts /\ status.cites \subseteq Kinds(result[1].evidence)

\* The rules ignore code that cannot run and no other: a line the analysis
\* takes for unreachable (analysis.py _unreachable) is one no run of the code
\* reaches, however loops, handlers and finally blocks are nested.
SkippedLinesNeverRun ==
  \A i \in DOMAIN case.after :
    Unreachable(case.after, i) => i \notin Live(case.after)

\* Whether a condition made of comparisons of one name holds for a value.
HoldsFor(cond, value) ==
  IF cond.join = "or" THEN \E a \in cond.atoms : Validation!Compare(a.rel, value, a.n)
  ELSE \A a \in cond.atoms : Validation!Compare(a.rel, value, a.n)

\* Whether a guard compares one name with whole numbers, so that it turns away
\* what is below or above them: `if x < 1 or x > 4`, `assert 1 <= x and x <= 4`.
OneSided(line) ==
  LET atoms == line.cond.atoms
  IN  /\ \E x \in Names(line.cond) : Names(line.cond) = {x}
      /\ \A a \in atoms : a.test = "cmp" /\ a.rel \in {"<", "<=", ">", ">="} /\ a.n \in Int
      /\ \/ \E a \in atoms : atoms = {a}
         \/ line.cond.join = IF line.kind = "assert" THEN "and" ELSE "or"

Outside(bound, v) ==
  CASE bound.shape = "between" -> v < Validation!Low(bound) \/ v > Validation!High(bound)
    [] bound.shape = "at least" -> v < bound.lo
    [] bound.shape = "at most" -> v > bound.hi
    [] bound.shape = "not negative" -> v < 0
    [] bound.shape = "positive" -> v <= 0
    [] OTHER -> FALSE

\* A range request is satisfied by a guard of the target only if the guards of
\* the target turn away every value outside the bound, though the rule tries no
\* more than the values next to it (validation.py _bounds_ok, _polarity_ok).
\* That is for guards it can judge: conditions with other tests, or of bounds
\* joined the other way, and checks a called helper makes, are taken on trust.
RejectsOutside(ctx, req) ==
  LET code == ctx.after
      guards == {g \in RejectingGuards(code) : Names(code[g].cond) \subseteq req.names}
      trusted == \/ Validation!Delegated(ctx, req.names, {"range"}) = "satisfied"
                 \/ \E g \in Validation!Candidates(ctx, req, "range") : ~OneSided(code[g])
  IN  req.kinds = {"range"} /\ Validation!Stated(req.bound) \subseteq Int /\ ~trusted =>
        \A v \in -2..6 : Outside(req.bound, v) =>
          \E g \in guards : HoldsFor(code[g].cond, v) # (code[g].kind = "assert")

RangeGuardRejectsWhatWasAsked == EverySatisfied("validation", RejectsOutside)

\* Whether a condition can hold, and can fail, while the names are absent.
CanHoldWithout(cond, absent) ==
  LET isNone(a) == a.test = "is" /\ a.rel # "is not"
      can(a) == a.name \notin absent \/ a.test \in {"not", "except", "cmp", "type"} \/ isNone(a)
      must(a) == a.name \in absent /\ (a.test = "not" \/ isNone(a))
  IN  [holds |-> IF cond.join = "and" THEN \A a \in cond.atoms : can(a)
                 ELSE \E a \in cond.atoms : can(a),
       fails |-> IF cond.join = "or" THEN \A a \in cond.atoms : ~must(a)
                 ELSE \E a \in cond.atoms : ~must(a)]

\* Whether one test decides a branch: it is the only one, or any of them does;
\* of several that fail together (`if item and not row`) the rule looks at one.
OneDecides(b) ==
  LET atoms == b.cond.atoms
  IN  \/ b.cond.join # "except" /\ \E a \in atoms : atoms = {a}
      \/ b.cond.join = IF b.negated THEN "and" ELSE "or"
      \/ \A a \in atoms : a.test = "except"

\* "Return 404 when the item is missing" is satisfied only by a response on a
\* branch that a missing item can take: not by one on the other side of the
\* check (api.py _on_branch, _absent).
AnsweredWhenAbsent(ctx, req) ==
  LET names == Api!ConditionNames(req, ctx.after)
      wanted == {s \in Api!Sites(ctx.after, ctx.handlers) : s.code \in req.codes}
      takes(b) == LET can == CanHoldWithout(b.cond, names)
                  IN  IF b.negated THEN can.fails ELSE can.holds
  IN  req.codes # {} /\ req.conditional /\ req.absence =>
        \E s \in wanted : \E b \in s.branch :
          Names(b.cond) \cap names # {} /\ (OneDecides(b) => takes(b))

AbsentGoesToItsBranch == EverySatisfied("api_behavior", AnsweredWhenAbsent)

\* A request for a test is satisfied only when a test of the changed version, in
\* a file test runners collect, is not skipped, calls the function, checks
\* something and covers the case; or when the result says that the case was
\* covered before, by such a test, and the change adds no test code of its own
\* (testing.py testing_rule).  Not that the earlier test is still there: the rule
\* looks for it among the tests before, where its docstring and ADR 001 speak of
\* an unchanged one.
TestCreditIsEarned ==
  \A k \in Satisfied("testing") :
    LET req == result[1].set.requirements[k].reads["testing"]
    IN  IF CreditedToOldCode(k)
        THEN /\ \E t \in case.testsBefore : Testing!RunsFor(t, req)
             /\ \A u \in case.tests : \E t \in case.testsBefore : u.file = t.file /\ u.body = t.body
        ELSE \E t \in case.tests : Testing!Collected(t) /\ Testing!RunsFor(t, req)

\* "Catch E around this call" is satisfied only when the outermost handler that E,
\* raised by the call, can reach does something about it: not when it is attached
\* to other code, hides the failure or, unasked, only passes it on, and not when
\* a `with suppress` around the call hides it (errors.py _catch).  A guard that
\* keeps the call from failing counts, too, and for KeyError a new `.get`.  Of
\* handlers within the outermost one nothing is said: the rule lets the outer
\* one decide, and an inner one may take E first.
FailureIsHandled(ctx, req) ==
  LET code == ctx.after
      failing == {i \in DOMAIN code : \E c \in code[i].calls : c.callee \in req.protected}
      catches(k, e) == IsBroad(code, k) \/ e \in Caught(code, k)
      reached(i, e) == {k \in Failing(code, i) : /\ code[k].kind = "except" /\ catches(k, e)
                                                 /\ ~Unreachable(code, code[k].up)}
      outermost(k, handlers) ==
        \A h \in handlers : code[k].up < code[h].up \/ (code[k].up = code[h].up /\ k <= h)
      hidden(i, e) == \E w \in Suppressors(code) : i \in Block(code, w) /\ catches(w, e)
      acts(k) == ~Swallows(code, k) /\ (OnlyReraises(code, k) => "re-raise" \in req.asks)
      guarded == \E g \in RejectingGuards(code) : Names(code[g].cond) \cap req.names # {}
      avoided(e) == /\ e = "KeyError"
                    /\ \E c \in CallsOf(code, DOMAIN code) \ CallsOf(ctx.before, DOMAIN ctx.before) :
                         c.callee = "get"
  IN  req.protected # {} /\ "ignore" \notin req.asks /\ ~guarded =>
        \A e \in req.caught : ~avoided(e) =>
          \E i \in failing : \E k \in reached(i, e) :
            acts(k) /\ outermost(k, reached(i, e)) /\ ~hidden(i, e)

CaughtWhereItFails == EverySatisfied("error_handling", FailureIsHandled)

-----------------------------------------------------------------------------
(***************************************************************************)
(* Properties of the verification as a whole.                              *)
(***************************************************************************)
\* File and tests are as they were when the comment was written, and so is what
\* a rule takes from the file.  Of definitions with one name the first is looked
\* at (symbols.py find_symbol), so the commented one is to be that.
Untouched ==
  LET target == Enclosing(case.before, case.anchor)
  IN  /\ case.after = case.before /\ case.tests = case.testsBefore
      /\ case.known.handlers = case.known.handlersBefore
      /\ target # 0 => FindSymbol(case.before, Qualified(case.before, target)) = target

\* What the rules take for new without a look at the code before: a check left to
\* a called function, a message or a value returned, an old name that is an alias.
TakenForNew(requirement, ctx) ==
  LET category == requirement.category
      req == requirement.reads[category]
  IN  /\ requirement.suggested = <<>>
      /\ \/ category = "validation" /\ Validation!Missing(req, ctx) # {}
         \/ /\ category = "api_behavior" /\ req.codes = {}
            /\ req.shape \in {"message", "return value"}
         \/ category = "naming" /\ Naming!KeepsAlias(req, ctx)

\* What was there before the comment is not credited to the change: when nothing
\* changed, the result of a satisfied request says that it was already present
\* (rules/*.py by ADR 001, evidence/rules.py), except for what the rules do not
\* compare.
OldCodeEarnsNoNewCredit ==
  VerifiedBy(RuleBased) /\ Untouched =>
    \A k \in DOMAIN result[1].decision.statuses :
      /\ result[1].decision.statuses[k].verdict = "SATISFIED"
      /\ ~TakenForNew(result[1].set.requirements[k], RuleContext(case))
      => CreditedToOldCode(k)

\* Every policy the service can be configured with.
Policies == Policy!PolicyConfigs

\* A change is blocked only on firm ground: the code was there to read, the
\* window and the parse were sound, the comment asked for something clearly,
\* every request was found not met, and all their categories are enforced
\* (the gates of verification/*.py together with policy/decision.py).
BlockIsGrounded ==
  VerifiedBy(Adjusted) =>
    LET run == result[1]
        asked == {s \in ToSet(case.comment.sentences) : X!ClassifySentence(s).actionable}
        open == {s \in asked : X!ClassifySentence(s).type = "question"}
        blocks(p) == Policy!Decide(PolicyView(run.decision), p) = "BLOCK"
    IN  (\E p \in Policies : blocks(p)) =>
          /\ case.fetched /\ ~case.broken
          /\ case.flags \cap UnreliableWindow = {}
          /\ open = {} /\ (asked # {} \/ case.comment.suggestions # <<>>
                            \/ \E s \in ToSet(case.comment.sentences) : "removal" \in s.signals)
          /\ \A k \in DOMAIN run.decision.statuses :
               /\ run.decision.statuses[k].verdict = "NOT_SATISFIED"
               /\ \A p \in Policies : blocks(p) => run.set.requirements[k].category \in p.enforced

\* The code model only informs: the pipeline that runs it decides every case
\* as the one without it (evidence/semantic.py, verification/rules.py).
NeutralEvidenceChangesNothing ==
  VerifiedBy({"phase7-semantic"}) =>
    LET said(d) == <<d.verdict, d.confidence, [k \in DOMAIN d.statuses |-> d.statuses[k].verdict]>>
    IN  said(result[1].decision) = said(Run("mvp", case).decision)

\* Whether all requests of a sentence say "handle ...:", so that each is taken
\* for the header of another (extraction.py _is_header).
Headed(clauses) ==
  LET requests == {k \in DOMAIN clauses : clauses[k].verb # None}
  IN  /\ Cardinality(requests) > 1
      /\ \A k \in requests : clauses[k].verb = "handle" /\ clauses[k].colon

\* No request is lost on the way: every sentence that asks for a change gives at
\* least one requirement, whatever its clauses are split, merged or skipped by
\* (extraction.py _sentence_drafts), unless nothing but headers is in it.
ActionableSentencesAreChecked ==
  VerifiedBy(Gated) =>
    LET sentences == case.comment.sentences
        asking == {i \in DOMAIN sentences :
                     /\ X!ClassifySentence(sentences[i]).actionable
                     /\ ~Headed(X!SplitClauses(sentences[i].segments))}
    IN  Cardinality(asking) <= Len(result[1].set.requirements)

\* A comment that quotes the header a request asks for.
QuotesHeader(line, requirement) ==
  LET req == requirement.reads["api_behavior"]
  IN  /\ requirement.category = "api_behavior" /\ req.codes = {} /\ req.shape = "header"
      /\ {"double", "single"} \X {req.header} \cap line.says # {}

=============================================================================
