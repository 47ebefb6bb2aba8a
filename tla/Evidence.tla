------------------------------ MODULE Evidence ------------------------------
(***************************************************************************)
(* What the verification pipelines observe about a change (evidence/*.py), *)
(* one operator per evidence stage, and the rule chosen for a requirement  *)
(* (rules/__init__.py).                                                    *)
(*                                                                         *)
(* A case has the commented file before and after the change (fetched:      *)
(* whether both could be read and the commented line was found), the       *)
(* commented line, the tests, the window's flags, whether a version has     *)
(* syntax errors, and the facts the rules take from elsewhere (known).     *)
(***************************************************************************)
EXTENDS Target

Naming == INSTANCE NamingRule
Validation == INSTANCE ValidationRule
Testing == INSTANCE TestingRule
Errors == INSTANCE ErrorRule
Api == INSTANCE ApiRule
Other == INSTANCE OtherRule

\* passed: {TRUE}, {FALSE}, or BOOLEAN for an item that takes no side.  req is
\* the position of the requirement it belongs to, 0 for the whole case.  old:
\* its detail ends in "Already present before the comment."  Every kind that
\* decides something occurs once, or once per requirement, so the list the code
\* keeps is a set here.
Item(req, kind, passed) == [req |-> req, kind |-> kind, passed |-> passed, old |-> FALSE]
Neutral(kind) == Item(0, kind, BOOLEAN)

Available(case) == case.fetched

-----------------------------------------------------------------------------
(***************************************************************************)
(* The context of the rules.                                               *)
(***************************************************************************)
TextOf(code) ==
  [i \in DOMAIN code |-> Other!Text(code[i].value, Cardinality(Around(code)[i]))]

DefinedNames(code) == {code[s].value : s \in Symbols(code)}

\* The docstring that opens a symbol, None without one.  The rule takes the
\* first thing in the body, which may be a comment.
DocstringOf(code, s) ==
  LET body == {i \in DOMAIN code : s # 0 /\ code[i].up = s}
  IN  IF body # {} /\ code[Min(body)].kind = "docstring" THEN code[Min(body)].value ELSE None

\* The lines suggestions are compared in: the commented function's, or the
\* file's when it is gone.
TargetLines(code, s, known) == TextOf(IF s # 0 /\ known THEN Part(code, s) ELSE code)

With(r, s) == [f \in DOMAIN r \cup DOMAIN s |-> IF f \in DOMAIN r THEN r[f] ELSE s[f]]

\* A case whose target was resolved to r; the commented code is now in `new`.
ContextOf(case, r, new) ==
  LET both == r.target # 0 /\ new # 0
      own == [before |-> ScopeBefore(case.before, r), after |-> ScopeAfter(case.after, r),
              op |-> ScopeLine(case.after, r),
              fileBefore |-> case.before, fileAfter |-> case.after,
              definedBefore |-> DefinedNames(case.before), defined |-> DefinedNames(case.after),
              tests |-> case.tests, testsBefore |-> case.testsBefore,
              lines |-> TargetLines(case.before, r.target, both),
              linesAfter |-> TargetLines(case.after, new, both),
              fileLines |-> TextOf(case.before), fileLinesAfter |-> TextOf(case.after),
              anchor |-> case.anchor, known |-> Identifiers(case.before), hasSymbol |-> new # 0,
              docstring |-> DocstringOf(case.after, new),
              docstringBefore |-> DocstringOf(case.before, r.target)]
  IN  With(own, case.known)

ContextFor(case, r) == ContextOf(case, r, IF r.after # 0 THEN r.after ELSE r.moved)

RuleContext(case) == ContextFor(case, ResolveTarget(case.before, case.after, case.anchor))

\* A suggestion is checked against its exact code, whatever its category; a
\* text no rule can read is inconclusive.
CheckRequirement(requirement, ctx) ==
  LET category == requirement.category
      req == requirement.reads[category]
  IN  IF requirement.suggested # <<>>
        THEN Other!SuggestionRule([suggested |-> requirement.suggested[1]], ctx)
      ELSE IF category \notin DOMAIN requirement.reads THEN Other!Inconclusive
      ELSE CASE category = "naming" -> Naming!NamingRule(req, ctx)
             [] category = "validation" -> Validation!ValidationRule(req, ctx)
             [] category = "testing" -> Testing!TestingRule(req, ctx)
             [] category = "error_handling" -> Errors!ErrorRule(req, ctx)
             [] category = "api_behavior" -> Api!ApiRule(req, ctx)
             [] OTHER -> Other!OtherRule(req, ctx)

-----------------------------------------------------------------------------
(***************************************************************************)
(* The stages.                                                             *)
(***************************************************************************)
NoScore == -1

RequirementEvidence(case, set) ==
  {Neutral("requirements_extracted")}
    \cup (IF set.ambiguity = NoScore THEN {} ELSE {Neutral("requirement_ambiguity")})

ChangedTestsEvidence(case, set) == {Item(0, "tests_changed", {case.tests # {}})}

NearTargetRadius == 10

LocalityEvidence(case, set) ==
  LET changes == D!Changes(TextLines(case.before), TextLines(case.after))
      first == Max({1, case.anchor - NearTargetRadius})
      near == \E c \in changes : D!Touches(c, first, case.anchor + NearTargetRadius)
  IN  IF ~Available(case) THEN {Neutral("code_unavailable")}
      ELSE {Item(0, "file_changed", {changes # {}}), Item(1, "change_near_target", {near})}
             \cup ChangedTestsEvidence(case, set)

\* Whether the target's code changed: it is gone, moved, or says something else.
TargetChanged(case, r) ==
  \/ r.target # 0 /\ r.after = 0
  \/ r.moved # 0
  \/ StructuralTokens(ScopeBefore(case.before, r)) # StructuralTokens(ScopeAfter(case.after, r))

\* Symbols in or around the target are part of it.
PartOfTarget(code, s, related) ==
  \E name \in related : IsPrefix(Qualified(code, s), name) \/ IsPrefix(name, Qualified(code, s))

OtherSymbolsChanged(case, r) ==
  LET before == case.before
      after == case.after
      related == {Qualified(before, s) : s \in {r.target} \ {0}}
                   \cup {Qualified(after, s) : s \in {r.after, r.moved} \ {0}}
      old(s) == FindSymbol(before, Qualified(after, s))
  IN  \/ \E s \in Symbols(after) :
           /\ ~PartOfTarget(after, s, related)
           /\ \/ old(s) = 0
              \/ StructuralTokens(Part(before, old(s))) # StructuralTokens(Part(after, s))
      \/ \E s \in Symbols(before) :
           ~PartOfTarget(before, s, related) /\ FindSymbol(after, Qualified(before, s)) = 0

MaxFactEvidence == 12

When(condition, item) == IF condition THEN {item} ELSE {}

\* Facts added, and then facts removed, up to a limit of both.
FactEvidence(diff) ==
  LET added == Cardinality(diff.added)
      removed == Cardinality(diff.removed)
  IN  When(added > 0, Neutral("added"))
        \cup When(removed > 0 /\ added < MaxFactEvidence, Neutral("removed"))
        \cup When(added + removed > MaxFactEvidence, Neutral("more_structural_changes"))

TargetEvidence(case, r) ==
  IF ~Available(case) THEN {Neutral("code_unavailable")}
  ELSE {Neutral("target_symbol"),
        Item(0, "target_changed_structurally", {TargetChanged(case, r)}),
        Item(0, "file_changed_structurally",
             {StructuralTokens(case.before) # StructuralTokens(case.after)})}
         \cup When(case.broken, Neutral("parse_error"))
         \cup When(r.target # 0, Neutral("target_after"))
         \cup When(r.moved # 0, Neutral("target_moved"))
         \cup FactEvidence(DiffFacts(ScopeBefore(case.before, r), ScopeAfter(case.after, r)))
         \cup When(OtherSymbolsChanged(case, r), Neutral("other_symbols_changed"))

StructuralEvidence(case, set) ==
  TargetEvidence(case, ResolveTarget(case.before, case.after, case.anchor))

Passed(status) ==
  CASE status = "satisfied" -> {TRUE}
    [] status = "not_satisfied" -> {FALSE}
    [] OTHER -> BOOLEAN

\* The requests whose rules say in an item of their own that old code met them:
\* those for a status, a check, a test or error handling.
NotesOldCode(requirement) ==
  LET category == requirement.category
  IN  /\ requirement.suggested = <<>>
      /\ \/ category \in {"validation", "testing", "error_handling"}
         \/ category = "api_behavior" /\ requirement.reads[category].codes # {}

\* A result, which tells when old code already satisfied the requirement.
ResultEvidence(k, requirement, o) ==
  {[Item(k, "rule_result", Passed(o.status)) EXCEPT !.old = o.already]}
    \cup When(o.already /\ NotesOldCode(requirement), Item(k, "already_present", {TRUE}))

RuleEvidence(case, set) ==
  IF ~Available(case) THEN {}
  ELSE LET ctx == RuleContext(case)
           of(k) == ResultEvidence(k, set.requirements[k], CheckRequirement(set.requirements[k], ctx))
       IN  UNION {of(k) : k \in DOMAIN set.requirements}

\* Added lines of code, in the commented file or in a test: what the code model
\* is shown.  Comments and docstrings are no code.
CodeAdded(case) ==
  LET kept == {p[2] : p \in D!Matching(TextLines(case.before), TextLines(case.after))}
  IN  \/ \E i \in DOMAIN case.after \ kept :
           case.after[i].kind # "comment" /\ ~IsDocstring(case.after, i)
      \/ case.tests \ case.testsBefore # {}

\* How the added code relates to each requirement; nothing when none was added.
SemanticEvidence(case, set) ==
  IF ~CodeAdded(case) THEN {}
  ELSE {Item(k, "semantic_relevance", BOOLEAN) : k \in DOMAIN set.requirements}
=============================================================================
