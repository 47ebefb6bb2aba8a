------------------------------- MODULE Target -------------------------------
(***************************************************************************)
(* Following the commented line from one version of a file to the next     *)
(* (syntax/symbols.py, syntax/structure.py, syntax/location.py).           *)
(*                                                                         *)
(* A file is code whose symbols are its `def` and `class` lines; `value` is *)
(* the name a symbol defines.  A line's text is its record with its depth   *)
(* for the line around it.                                                 *)
(***************************************************************************)
EXTENDS CodeAnalysis

D == INSTANCE Diff

Symbols(code) == {i \in DOMAIN code : code[i].kind \in {"def", "class"}}

\* "Class.method", "outer.inner": the symbols around a symbol, and its own.
Qualified(code, s) ==
  LET chain == InOrder(Around(code)[s] \cap Symbols(code))
  IN  [k \in DOMAIN chain |-> code[chain[k]].value]

SymbolKind(code, s) ==
  LET outer == Max({0} \cup ((Around(code)[s] \ {s}) \cap Symbols(code)))
  IN  IF code[s].kind = "class" THEN "class"
      ELSE IF outer # 0 /\ code[outer].kind = "class" THEN "method" ELSE "function"

\* The innermost symbol around a line, 0 at module level.
Enclosing(code, i) ==
  IF i = 0 THEN 0 ELSE Max({0} \cup (Around(code)[i] \cap Symbols(code)))

FindSymbol(code, name) ==
  LET found == {s \in Symbols(code) : Qualified(code, s) = name}
  IN  IF found = {} THEN 0 ELSE Min(found)

\* A symbol's own lines.
Part(code, s) == Only(code, Extent(code, s))

Joined(p, q) ==
  p \o [k \in DOMAIN q |-> [q[k] EXCEPT !.up = IF @ = 0 THEN 0 ELSE @ + Len(p)]]

TextLines(code) ==
  [i \in DOMAIN code |-> [code[i] EXCEPT !.up = Cardinality(Around(code)[i])]]

-----------------------------------------------------------------------------
\* A docstring is the first statement of a definition, comments aside.
IsDocstring(code, i) ==
  /\ code[i].kind = "docstring"
  /\ code[i].up = 0 \/ code[code[i].up].kind \in {"def", "class"}
  /\ \A j \in DOMAIN code : code[j].up = code[i].up /\ j < i => code[j].kind = "comment"

\* What two versions are compared by: no comments, no docstrings, and no
\* indentation.
StructuralTokens(code) ==
  LET kept == InOrder({i \in DOMAIN code :
                         code[i].kind # "comment" /\ ~IsDocstring(code, i)})
  IN  [k \in DOMAIN kept |-> [code[kept[k]] EXCEPT !.up = 0]]

RenameThreshold == 60

\* The first of the most similar symbols, if similar enough.
MostSimilar(similarity) ==
  LET best == {s \in DOMAIN similarity :
                 /\ similarity[s] >= RenameThreshold
                 /\ \A t \in DOMAIN similarity : similarity[t] <= similarity[s]}
  IN  IF best = {} THEN 0 ELSE Min(best)

\* Among the new symbols of the same kind.
BestRename(before, target, after) ==
  LET existing == {Qualified(before, s) : s \in Symbols(before)}
      tokens(code, s) == StructuralTokens(Part(code, s))
      candidates == {s \in Symbols(after) : /\ SymbolKind(after, s) = SymbolKind(before, target)
                                            /\ Qualified(after, s) \notin existing}
  IN  MostSimilar([s \in candidates |-> D!Similarity(tokens(before, target), tokens(after, s))])

\* A symbol of the old version in the new one, by name or else by similarity.
SameSymbol(before, target, after) ==
  LET same == FindSymbol(after, Qualified(before, target))
  IN  IF target = 0 THEN 0 ELSE IF same # 0 THEN same ELSE BestRename(before, target, after)

\* Whether the commented line is in another symbol than the target, or one around it.
MovedTo(after, holder, found) ==
  /\ holder # 0
  /\ found = 0 \/ (Qualified(after, holder) # Qualified(after, found)
                   /\ holder \notin Around(after)[found])

Resolved(after, target, found, line) ==
  LET holder == Enclosing(after, line)
  IN  [target |-> target, after |-> found, line |-> line,
       moved |-> IF target # 0 /\ MovedTo(after, holder, found) THEN holder ELSE 0]

\* target: the symbol commented on, 0 at module level; after: that symbol in
\* the new version; line: where the commented line is; moved: the symbol that
\* holds it now, if it is another.
ResolveTarget(before, after, anchor) ==
  LET target == Enclosing(before, anchor)
  IN  Resolved(after, target, SameSymbol(before, target, after),
               D!LineMapping(TextLines(before), TextLines(after), anchor))

-----------------------------------------------------------------------------
\* The code a rule looks at: the target, and what its code moved to; the whole
\* file when the comment is at module level.
ScopeBefore(before, r) == IF r.target = 0 THEN before ELSE Part(before, r.target)

ScopeSymbols(r) == {r.after, r.moved} \ {0}

ScopeAfter(after, r) ==
  LET symbols == ScopeSymbols(r)
  IN  IF r.target = 0 THEN after
      ELSE IF symbols = {} THEN <<>>
      ELSE IF Min(symbols) = Max(symbols) THEN Part(after, Min(symbols))
      ELSE Joined(Part(after, Min(symbols)), Part(after, Max(symbols)))

\* The commented line within that scope; 0 when it is gone or outside it.
ScopeLine(after, r) ==
  LET symbols == ScopeSymbols(r)
      inside == {s \in symbols : r.line # 0 /\ s \in Around(after)[r.line]}
      last == Max(inside)
      above == {j \in Extent(after, last) : j <= r.line}
      joined == IF last = Min(symbols) THEN {} ELSE Extent(after, Min(symbols))
  IN  IF r.target = 0 THEN r.line
      ELSE IF inside = {} THEN 0
      ELSE Cardinality(joined) + Cardinality(above)

-----------------------------------------------------------------------------
\* What is counted: calls, conditions, raises, handlers, returns.
FactsOn(line) ==
  {<<"call", c>> : c \in line.calls}
    \cup (IF line.kind \in {"if", "elif", "while", "assert"} THEN {<<"condition", line.cond>>} ELSE {})
    \cup (IF line.kind \in {"raise", "return", "except"} THEN {<<line.kind, line.value, line.exc>>} ELSE {})

Facts(code) == UNION {FactsOn(code[i]) : i \in DOMAIN code}

Occurrences(code, fact) == Cardinality({i \in DOMAIN code : fact \in FactsOn(code[i])})

\* Facts that appear more often after, or before: by kind and text and not by
\* place, so that code that only moved is no change.
DiffFacts(before, after) ==
  LET more(p, q) == {f \in Facts(p) : Occurrences(p, f) > Occurrences(q, f)}
  IN  [added |-> more(after, before), removed |-> more(before, after)]
=============================================================================
