----------------------------- MODULE NamingRule -----------------------------
(***************************************************************************)
(* Rename `old` to `new` (rules/naming.py).                                *)
(*                                                                         *)
(* A request has the rename pairs of its own text and of the whole comment, *)
(* its target, the names it quotes, the tokens of a suggested code, and the *)
(* name it demands ("to `b`") or offers ("like `b`"); None for what it does *)
(* not have.  A context has the target's code and the file's, before and    *)
(* after, and the functions and classes the file defined before.           *)
(***************************************************************************)
EXTENDS RuleBase

Rename(old, new, strict) == [old |-> old, new |-> new, strict |-> strict]

FirstOr(seq, P(_)) == LET hits == SelectSeq(seq, P) IN IF hits = <<>> THEN None ELSE hits[1]

\* Pairs first, the request's own and then those of the comment about its
\* target; else the target and a name said to be new.
RenameRequest(req, ctx) ==
  LET known == Identifiers(ctx.fileBefore)
      aimed == SelectSeq(req.commentPairs, LAMBDA p : p[1] = req.target)
      old == IF req.target \in known THEN req.target
             ELSE FirstOr(req.quoted, LAMBDA n : n \in known)
      suggested == FirstOr(req.suggested, LAMBDA t : t \notin known)
      new == FirstOr(<<suggested, req.demanded, req.offered>>, LAMBDA n : n # None)
  IN  IF req.pairs # <<>> THEN Rename(req.pairs[1][1], req.pairs[1][2], TRUE)
      ELSE IF aimed # <<>> THEN Rename(aimed[1][1], aimed[1][2], TRUE)
      ELSE Rename(old, IF new = old THEN None ELSE new, suggested # None \/ req.demanded # None)

\* A function or class is renamed across the file, another name in the target.
ScopeBefore(old, ctx) == IF old \in ctx.definedBefore THEN ctx.fileBefore ELSE ctx.before
ScopeAfter(old, ctx) == IF old \in ctx.definedBefore THEN ctx.fileAfter ELSE ctx.after

\* `old = new` keeps the old name only as a pointer to the new one.
AliasLines(old, new, code) == {i \in DOMAIN code : code[i].sets = old /\ new \in code[i].uses}

KeepsAlias(req, ctx) ==
  LET r == RenameRequest(req, ctx)
  IN  AliasLines(r.old, r.new, ScopeAfter(r.old, ctx)) # {}

NamingRule(req, ctx) ==
  LET r == RenameRequest(req, ctx)
      before == ScopeBefore(r.old, ctx)
      after == ScopeAfter(r.old, ctx)
      uses(code, name) == name # None /\ IdentifierLines(code, name) # {}
      left == IdentifierLines(after, r.old) \ AliasLines(r.old, r.new, after)
      renamed == \/ uses(after, r.new)
                 \/ ~(r.new # None /\ r.strict) /\ Identifiers(after) \ Identifiers(before) # {}
  IN  IF r.old = None THEN Inconclusive
      ELSE IF ~uses(before, r.old)
        THEN IF uses(after, r.new) /\ uses(before, r.new) THEN Satisfied(TRUE) ELSE Inconclusive
      ELSE IF left = {} /\ renamed THEN Satisfied(FALSE) ELSE NotSatisfied
=============================================================================
