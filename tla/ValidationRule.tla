--------------------------- MODULE ValidationRule ---------------------------
(***************************************************************************)
(* "Add a null check before saving" (rules/validation.py): the code after  *)
(* the change needs a rejecting guard of each requested kind on a requested *)
(* name, in front of the commented operation.                              *)
(*                                                                         *)
(* A request has the names it is about, the kinds of check it asks for and  *)
(* a bound; a context has the target's code before and after the change,    *)
(* the line of the commented operation (0 when it is gone), the helpers and *)
(* models defined in the file and the flags the module sets to a constant.  *)
(***************************************************************************)
EXTENDS RuleBase

\* kinds: of none, empty, type, range and any.
Request(names, kinds, bound) == [names |-> names, kinds |-> kinds, bound |-> bound]

Bound(shape, lo, hi) == [shape |-> shape, lo |-> lo, hi |-> hi]

\* The numbers a request states.
Stated(bound) ==
  CASE bound.shape = "between" -> {bound.lo, bound.hi}
    [] bound.shape = "at least" -> {bound.lo}
    [] bound.shape = "at most" -> {bound.hi}
    [] OTHER -> {}

-----------------------------------------------------------------------------
(***************************************************************************)
(* Range checks: the right bound, the right way round.                     *)
(***************************************************************************)
Compare(rel, left, right) ==
  CASE rel = "<" -> left < right
    [] rel = "<=" -> left <= right
    [] rel = ">" -> left > right
    [] rel = ">=" -> left >= right
    [] rel = "==" -> left = right
    [] rel = "!=" -> left # right

\* Three-valued: {TRUE}, {FALSE}, or both when it cannot be told.  The values
\* tried are given twice as large: the middle of a range may be a half.
AtomTruth(atom, name, twice) ==
  IF atom.test = "cmp" /\ atom.name = name THEN {Compare(atom.rel, twice, 2 * atom.n)} ELSE BOOLEAN

Evaluate(cond, name, twice) ==
  LET truths == {AtomTruth(a, name, twice) : a \in cond.atoms}
      decisive == cond.join = "or"
  IN  IF {decisive} \in truths THEN {decisive}
      ELSE IF BOOLEAN \in truths THEN BOOLEAN
      ELSE {~decisive}

Comparisons(cond) == {<<a.rel, a.n>> : a \in {b \in cond.atoms : b.test = "cmp"}}

UsesBound(n, pairs) ==
  \/ \E p \in pairs : p[2] = n
  \/ pairs \cap {<<"<=", n - 1>>, <<">", n - 1>>, <<">=", n + 1>>, <<"<", n + 1>>} # {}

BoundsOk(cond, bound) ==
  LET pairs == Comparisons(cond)
  IN  IF Stated(bound) # {} THEN \A n \in Stated(bound) : UsesBound(n, pairs)
      ELSE bound.shape = "positive"
             => pairs \cap {<<"<=", 0>>, <<">", 0>>, <<"<", 1>>, <<">=", 1>>} # {}

\* The ends of a range, whichever is stated first.
Low(bound) == IF bound.lo <= bound.hi THEN bound.lo ELSE bound.hi
High(bound) == IF bound.lo <= bound.hi THEN bound.hi ELSE bound.lo

\* The values that must pass and those that must be rejected, twice as large.
Accepted(bound) ==
  CASE bound.shape = "between" -> {Low(bound) + High(bound)}
    [] bound.shape = "at least" -> {2 * bound.lo}
    [] bound.shape = "at most" -> {2 * bound.hi}
    [] bound.shape = "not negative" -> {0, 2}
    [] bound.shape = "positive" -> {2}
    [] OTHER -> {}

Rejected(bound) ==
  CASE bound.shape = "between" -> {2 * Low(bound) - 2, 2 * High(bound) + 2}
    [] bound.shape = "at least" -> {2 * bound.lo - 2}
    [] bound.shape = "at most" -> {2 * bound.hi + 2}
    [] bound.shape \in {"not negative", "positive"} -> {-2}
    [] OTHER -> {}

\* Faulty variant: an assert is read as if it were an `if ...: raise`.
PolarityOkAssertsToo(line, names, bound) ==
  LET tested == Names(line.cond) \cap names
  IN  \/ Cardinality(tested) # 1
      \/ LET name == CHOOSE n \in tested : TRUE
         IN  /\ \A v \in Accepted(bound) : FALSE \in Evaluate(line.cond, name, v)
             /\ \A v \in Rejected(bound) : TRUE \in Evaluate(line.cond, name, v)

\* Only a condition on one requested name is judged, and only where it can be.
PolarityOk(line, names, bound) ==
  LET tested == Names(line.cond) \cap names
      raises == line.kind # "assert"
  IN  \/ Cardinality(tested) # 1
      \/ LET name == CHOOSE n \in tested : TRUE
         IN  /\ \A v \in Accepted(bound) : (~raises) \in Evaluate(line.cond, name, v)
             /\ \A v \in Rejected(bound) : raises \in Evaluate(line.cond, name, v)

-----------------------------------------------------------------------------
(***************************************************************************)
(* Checks behind a flag, and checks made by a called function.             *)
(***************************************************************************)
\* Conjuncts that are a bare name, possibly negated, and not requested, in
\* order; only the first is looked at.
UnrelatedFlags(line, names) ==
  IF line.kind = "assert" \/ line.cond.join # "and" \/ Cardinality(line.cond.atoms) < 2 THEN <<>>
  ELSE SelectSeq(line.cond.flags, LAMBDA a : a.name \notin names)

\* Known only for a flag the module sets to a constant.
FlagRuns(flag, flags) ==
  IF flag.name \in DOMAIN flags THEN {flags[flag.name] # (flag.test = "not")} ELSE BOOLEAN

IsKind(cond, kind) ==
  CASE kind = "none" -> ChecksNone(cond)
    [] kind = "empty" -> ChecksEmpty(cond)
    [] kind = "type" -> \E a \in cond.atoms : a.test = "type"
    [] kind = "range" -> \E a \in cond.atoms : a.test = "cmp" /\ a.rel \in {"<", "<=", ">", ">="}
    [] OTHER -> TRUE

ValidatorNames == {"validate", "check", "ensure", "verify", "assert", "require"}

\* What a call in front of the operation says about the missing checks.
Delegation(ctx, call, names, missing) ==
  LET helper == ctx.helpers[call.callee]
      checks == {g \in RejectingGuards(helper.code) : helper.param \in Names(helper.code[g].cond)}
  IN  IF call.args \cap names = {} THEN "unrelated"
      ELSE IF call.callee \in DOMAIN ctx.models /\ ctx.models[call.callee] \cap call.args \cap names # {}
        THEN "satisfied"
      ELSE IF call.callee \in DOMAIN ctx.helpers
        THEN IF \A k \in missing : \E g \in checks : IsKind(helper.code[g].cond, k)
             THEN "satisfied" ELSE "unrelated"
      ELSE IF call.callee \in ValidatorNames THEN "inconclusive" ELSE "unrelated"

\* The first call that decides; "none" when no call does.
Delegated(ctx, names, missing) ==
  LET deciding == {i \in DOMAIN ctx.after :
                     /\ ctx.op # 0 => i < ctx.op
                     /\ \E c \in ctx.after[i].calls : Delegation(ctx, c, names, missing) # "unrelated"}
  IN  IF deciding = {} THEN "none"
      ELSE LET c == CHOOSE c \in ctx.after[Min(deciding)].calls :
                      Delegation(ctx, c, names, missing) # "unrelated"
           IN  Delegation(ctx, c, names, missing)

-----------------------------------------------------------------------------
(***************************************************************************)
(* The rule.                                                               *)
(***************************************************************************)
\* The guards on a requested name, those behind an unrelated flag that is
\* not known to hold, and the rest.
OnTarget(ctx, names) == {g \in Guards(ctx.after) : Names(ctx.after[g].cond) \cap names # {}}

Flagged(ctx, names) ==
  LET flags(g) == UnrelatedFlags(ctx.after[g], names)
  IN  {g \in OnTarget(ctx, names) : flags(g) # <<>> /\ FlagRuns(flags(g)[1], ctx.flags) # {TRUE}}

Candidates(ctx, req, kind) ==
  {g \in OnTarget(ctx, req.names) \ Flagged(ctx, req.names) :
     /\ Rejects(ctx.after, g)
     /\ IsKind(ctx.after[g].cond, kind)
     /\ kind = "range" => /\ BoundsOk(ctx.after[g].cond, req.bound)
                          /\ PolarityOk(ctx.after[g], req.names, req.bound)}

\* The innermost function around a line, 0 for the target's own body.
EnclosingFunction(code, i) == Max({0} \cup {d \in Around(code)[i] : code[d].kind = "def"})

TooLate(ctx, g) ==
  /\ ctx.op # 0 /\ g > ctx.op
  /\ EnclosingFunction(ctx.after, g) = EnclosingFunction(ctx.after, ctx.op)

\* The only checks are behind a flag: known to be off, or not known.
BehindFlag(ctx, names) ==
  LET relevant == {g \in Flagged(ctx, names) : Rejects(ctx.after, g)}
      flag == UnrelatedFlags(ctx.after[Min(relevant)], names)[1]
  IN  IF relevant = {} THEN "none"
      ELSE IF FlagRuns(flag, ctx.flags) = {FALSE} THEN "off" ELSE "unknown"

Kinds(req) == IF req.kinds = {} THEN {"any"} ELSE req.kinds

\* The kinds no guard of the target checks.
Missing(req, ctx) == {k \in Kinds(req) : Candidates(ctx, req, k) = {}}

ValidationRule(req, ctx) ==
  LET missing == Missing(req, ctx)
      chosen == {Min(Candidates(ctx, req, k)) : k \in Kinds(req) \ missing}
      delegated == Delegated(ctx, req.names, missing)
  IN  IF req.names = {} THEN Inconclusive
      ELSE IF missing # {} THEN
        CASE delegated = "satisfied" -> Satisfied(FALSE)
          [] delegated = "inconclusive" -> Inconclusive
          [] delegated = "none" /\ BehindFlag(ctx, req.names) = "unknown" -> Inconclusive
          [] OTHER -> NotSatisfied
      ELSE IF \E g \in chosen : TooLate(ctx, g) THEN NotSatisfied
      ELSE Satisfied(CondsOf(ctx.after, chosen) \subseteq CondsOf(ctx.before, RejectingGuards(ctx.before)))
=============================================================================
