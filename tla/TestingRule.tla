---------------------------- MODULE TestingRule ----------------------------
(***************************************************************************)
(* "Add a unit test for invalid username" (rules/testing.py over           *)
(* find_test_functions and changed_test_functions of rules/analysis.py).   *)
(*                                                                         *)
(* A test function has its file, name, the words of its name, whether a     *)
(* decorator skips it, the inputs a decorator gives it, the fixtures it     *)
(* asks for, and its body: calls, inputs, expected exceptions, identifiers, *)
(* whether it expects anything and whether it skips itself.                 *)
(***************************************************************************)
EXTENDS RuleBase

Body(calls, inputs, raises, uses, expects) ==
  [calls |-> calls, inputs |-> inputs, raises |-> raises, uses |-> uses,
   expects |-> expects, skips |-> FALSE]

Test(file, name, body) ==
  [file |-> file, name |-> name, words |-> {name}, skip |-> FALSE, given |-> {},
   fixtures |-> {}, body |-> body]

Skipped(t) == t.skip \/ t.body.skips

\* The inputs a test feeds in: from its body and from its decorators.
Inputs(t) == t.body.inputs \cup t.given

\* What the comparison of versions sees: the definition, without decorators.
Tokens(t) == <<t.name, t.fixtures, t.body>>

CollectedFiles == {"test_a.py", "tests/test_b.py"}
Collected(t) == t.file \in CollectedFiles

\* Test functions that are new or changed.  A test that only got a new name
\* (its body is that of one now gone from its file) is neither.
ChangedTests(after, before) ==
  LET in(tests, t) == {u \in tests : u.file = t.file}
      names(tests) == {u.name : u \in tests}
      renamed(t) == \E old \in in(before, t) :
                      old.name \notin names(in(after, t)) /\ old.body = t.body
  IN  {t \in after : /\ \A old \in in(before, t) : Tokens(old) # Tokens(t)
                     /\ t.name \notin names(in(before, t)) => ~renamed(t)}

-----------------------------------------------------------------------------
(***************************************************************************)
(* A request has the function under test (None when it cannot be told) and  *)
(* its route (None when it serves none), the case words, values and         *)
(* exceptions it asks for, its scenario words, whether other testing        *)
(* requests stand beside it (siblings) and the words of those.             *)
(***************************************************************************)
Request(function, route, wanted, values, raised, words, siblings, others) ==
  [function |-> function, route |-> route, wanted |-> wanted, values |-> values,
   raised |-> raised, words |-> words, siblings |-> siblings, others |-> others]

Checkable(req) == req.wanted # {} \/ req.values # {} \/ req.raised # {}

\* Calls the function, or requests its URL through a test client.
Exercises(t, req) == ({req.function, req.route} \ {None}) \cap t.body.calls # {}

Covers(t, req) ==
  /\ req.wanted \subseteq Inputs(t)
  /\ req.raised # {} => req.raised \cap t.body.raises # {}
  /\ req.values # {} => req.values \cap Inputs(t) # {}

BuiltinFixtures == {"client", "tmp_path", "monkeypatch"}

\* Fixtures a test uses that are defined outside the changed files.
OpaqueFixtures(t, ctx) ==
  (t.fixtures \cap (t.body.uses \cup t.body.calls)) \ (BuiltinFixtures \cup ctx.fixtures)

Mentions(t, stems) == (t.words \cup t.body.uses) \cap stems # {}

\* Scenario words the sibling requests lack; none when a case is checkable.
Distinctive(req) ==
  IF Checkable(req) \/ ~req.siblings THEN {} ELSE req.words \ req.others

\* Scenario words that are not the function's own or generic.
OwnScenario(req, ctx) == req.words \ (ctx.ownWords \cup {"cover", "funct", "code"})

\* Whether a test runs and covers the case.
RunsFor(t, req) == ~Skipped(t) /\ t.body.expects /\ Exercises(t, req) /\ Covers(t, req)

\* A test that covered the case before the change.  It is called an unchanged
\* one, but the change may have deleted it or switched it off.
ExistingOrMissing(req, ctx) ==
  IF Checkable(req) /\ \E t \in ctx.testsBefore : RunsFor(t, req)
  THEN Satisfied(TRUE) ELSE NotSatisfied

\* The verdict on new tests that call the function and expect something.
Scenario(req, ctx, asserting) ==
  LET covering == {t \in asserting : Covers(t, req)}
      specific == IF Distinctive(req) = {} THEN covering
                  ELSE {t \in covering : Mentions(t, Distinctive(req))}
      plain == ~Checkable(req) /\ Distinctive(req) = {} /\ ~req.siblings
      scenario == OwnScenario(req, ctx)
  IN  IF specific = {} THEN NotSatisfied
      ELSE IF plain /\ scenario # {} /\ \A t \in specific : ~Mentions(t, scenario) THEN Inconclusive
      ELSE Satisfied(FALSE)

\* Faulty variant: a skipped test counts as running.
RunnableOfSkipped(changed) == {t \in changed : Collected(t)}

Runnable(changed) == {t \in changed : ~Skipped(t) /\ Collected(t)}

TestingRule(req, ctx) ==
  LET changed == ChangedTests(ctx.tests, ctx.testsBefore)
      runnable == Runnable(changed)
      calling == {t \in runnable : Exercises(t, req)}
      asserting == {t \in calling : t.body.expects}
  IN  IF req.function = None THEN Inconclusive
      ELSE IF runnable = {}
        THEN IF \E t \in changed : ~Skipped(t) THEN Inconclusive
             ELSE IF changed # {} THEN NotSatisfied
             ELSE ExistingOrMissing(req, ctx)
      ELSE IF calling = {}
        THEN IF \E t \in runnable : OpaqueFixtures(t, ctx) # {} THEN Inconclusive ELSE NotSatisfied
      ELSE IF asserting = {} THEN NotSatisfied
      ELSE Scenario(req, ctx, asserting)
=============================================================================
