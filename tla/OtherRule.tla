----------------------------- MODULE OtherRule -----------------------------
(***************************************************************************)
(* GitHub suggestion blocks and the four checkable shapes of other requests *)
(* (rules/other.py).                                                       *)
(*                                                                         *)
(* Text is a sequence of lines [text, indent]; a blank line has no text.    *)
(* Comparing block lines that a formatter split over several lines is left  *)
(* out: a line is compared with a line.  A request has its shape and what   *)
(* the shape speaks of; a context has the lines of the commented function   *)
(* and of the file before and after, where the comment is anchored (the     *)
(* last line it spans) and how many lines it spans, and facts of the code.  *)
(***************************************************************************)
EXTENDS RuleBase

Text(text, indent) == [text |-> text, indent |-> indent]

Filled(lines) ==
  LET kept == InOrder({i \in DOMAIN lines : lines[i].text # None})
  IN  [k \in DOMAIN kept |-> lines[kept[k]]]
Normalized(lines) == LET kept == Filled(lines) IN [i \in DOMAIN kept |-> kept[i].text]

\* Occurrences of a block of lines.
Count(block, lines) ==
  IF block = <<>> THEN 0
  ELSE Cardinality({i \in DOMAIN lines : /\ i + Len(block) - 1 <= Len(lines)
                                         /\ SubSeq(lines, i, i + Len(block) - 1) = block})

CommentedLines(ctx) == SubSeq(ctx.fileLines, Max({1, ctx.anchor - ctx.span}), ctx.anchor)

\* Faulty variant: the new lines need only be there.
SuggestionRulePresent(req, ctx) ==
  IF Count(Normalized(req.suggested), Normalized(ctx.linesAfter)) > 0
  THEN Satisfied(FALSE) ELSE NotSatisfied

\* Only when nothing but whitespace differs are lines compared with theirs.
SuggestionRule(req, ctx) ==
  LET old == CommentedLines(ctx)
      exact == Normalized(old) = Normalized(req.suggested)
      norm(lines) == IF exact THEN Filled(lines) ELSE Normalized(lines)
      ob == Count(norm(old), norm(ctx.lines))
      oa == Count(norm(old), norm(ctx.linesAfter))
      nb == Count(norm(req.suggested), norm(ctx.lines))
      na == Count(norm(req.suggested), norm(ctx.linesAfter))
  IN  IF Filled(old) = <<>> THEN Inconclusive
      ELSE IF norm(req.suggested) = <<>> THEN IF oa < ob THEN Satisfied(FALSE) ELSE NotSatisfied
      ELSE IF na > nb \/ (na >= 1 /\ oa < ob) THEN Satisfied(FALSE)
      ELSE IF oa >= ob /\ na <= nb THEN NotSatisfied
      ELSE Inconclusive

-----------------------------------------------------------------------------
DocstringRule(ctx) ==
  IF ~ctx.hasSymbol THEN Inconclusive
  ELSE IF ctx.docstring # None /\ ctx.docstring # ctx.docstringBefore THEN Satisfied(FALSE)
  ELSE NotSatisfied

\* Use req.new instead of req.old.  Names are looked for in the text, where
\* strings and comments name them, too.
UseRule(req, ctx) ==
  LET used(name, code) == name \in Identifiers(code) \cup {p[2] : p \in Said(code)}
      was(name) == used(name, ctx.before)
      is(name) == used(name, ctx.after)
  IN  IF ~was(req.old) /\ ~was(req.new) THEN Inconclusive
      ELSE IF is(req.new) /\ ~is(req.old) THEN Satisfied(was(req.new) /\ ~was(req.old))
      ELSE IF is(req.old) /\ ~is(req.new) THEN NotSatisfied
      ELSE Inconclusive

\* A named identifier is removed from the target; "this", the commented lines.
RemovalRule(req, ctx) ==
  LET block == Normalized(CommentedLines(ctx))
      named == req.old \in Identifiers(ctx.before) \cup ctx.known
      gone == Count(block, Normalized(ctx.fileLinesAfter)) < Count(block, Normalized(ctx.fileLines))
  IN  IF named
      THEN IF IdentifierLines(ctx.before, req.old) = {} THEN Inconclusive
           ELSE IF IdentifierLines(ctx.after, req.old) = {} THEN Satisfied(FALSE) ELSE NotSatisfied
      ELSE IF ~req.this \/ block = <<>> THEN Inconclusive
      ELSE IF gone THEN Satisfied(FALSE) ELSE NotSatisfied

\* That exact comment, in more lines than before.
CommentRule(req, ctx) ==
  LET count(lines) == Cardinality({i \in DOMAIN lines : lines[i].text = req.comment})
  IN  IF count(ctx.fileLinesAfter) > count(ctx.fileLines) THEN Satisfied(FALSE)
      ELSE IF count(ctx.fileLinesAfter) = 0 THEN NotSatisfied
      ELSE Inconclusive

OtherRule(req, ctx) ==
  CASE req.shape = "docstring" -> DocstringRule(ctx)
    [] req.shape = "use" -> UseRule(req, ctx)
    [] req.shape = "removal" -> RemovalRule(req, ctx)
    [] req.shape = "comment" -> CommentRule(req, ctx)
    [] OTHER -> Inconclusive
=============================================================================
