---------------------------- MODULE ControlFlow ----------------------------
(***************************************************************************)
(* How Python runs code, independently of the analysis: the lines control  *)
(* can pass to from a line, and so the lines that can run at all.  It errs  *)
(* on the side of running: any condition may hold, any line may fail.      *)
(***************************************************************************)
EXTENDS CodeAnalysis

Statements(code, up) == {j \in DOMAIN code : code[j].up = up /\ code[j].kind \notin Clauses}

ClausesOf(code, i, kinds) == {j \in DOMAIN code : code[j].up = i /\ code[j].kind \in kinds}

FirstOf(lines) == IF lines = {} THEN {} ELSE {Min(lines)}

\* The statement a line is in the block of, or in the block of a clause of.
CompoundOf(code, i) ==
  LET up == code[i].up
  IN  IF up # 0 /\ code[up].kind \in Clauses THEN code[up].up ELSE up

\* Where control goes from a statement that has run to its end, as far as its
\* own block and the statement around it say.
Onward(code, i) ==
  LET up == code[i].up
      later == {j \in Statements(code, up) : j > i}
      orElse == ClausesOf(code, up, {"else"})
  IN  IF later # {} THEN FirstOf(later)
      ELSE IF up = 0 \/ code[up].kind = "finally" THEN {}
      ELSE IF code[up].kind \in {"for", "while"} THEN {up}
      ELSE IF code[up].kind = "try" /\ orElse # {} THEN orElse
      ELSE ClausesOf(code, CompoundOf(code, i), {"finally"})

\* The same, past the ends of the blocks around it.
Following(code) ==
  LET after[i \in 0..Len(code)] ==
        IF i = 0 THEN {}
        ELSE LET onward == Onward(code, i)
             IN  IF onward # {} THEN onward ELSE after[CompoundOf(code, i)]
  IN  after

\* Where control goes from a line that fails: from the block of a `try` to its
\* handlers and its `finally`, from a handler or an `else` to the `finally`, and
\* past a `with` that suppresses.
Failing(code, i) ==
  LET handled(t) == ClausesOf(code, t, {"except", "finally"})
                      \cup (IF code[t].kind = "with" THEN Following(code)[t] ELSE {})
      from(c) == IF code[c].up = 0 THEN {}
                 ELSE IF code[c].kind \notin Clauses THEN handled(code[c].up)
                 ELSE ClausesOf(code, code[c].up, {"finally"}) \ {c}
  IN  UNION {from(c) : c \in Around(code)[i]}

NextClause(code, i) ==
  LET owner == IF code[i].kind \in Clauses THEN code[i].up ELSE i
      rest == {j \in ClausesOf(code, owner, {"elif", "else"}) : j > i}
  IN  IF rest # {} THEN FirstOf(rest) ELSE Following(code)[owner]

Successors(code, i) ==
  LET into == FirstOf(Statements(code, i))
      loops == {a \in Around(code)[i] : code[a].kind \in {"for", "while"}}
  IN  Failing(code, i) \cup
      CASE code[i].kind \in {"return", "raise"} -> {}
        [] code[i].kind = "break" -> IF loops = {} THEN {} ELSE Following(code)[Max(loops)]
        [] code[i].kind = "continue" -> IF loops = {} THEN {} ELSE {Max(loops)}
        [] code[i].kind \in {"if", "elif", "for", "while"} -> into \cup NextClause(code, i)
        [] code[i].kind \in {"try", "with", "else", "except", "finally"} -> into
        [] code[i].kind = "def" -> into \cup Following(code)[i]
        [] OTHER -> Following(code)[i]

\* The lines some run reaches.
Live(code) ==
  LET reached[n \in 0..Len(code)] ==
        IF n = 0 THEN FirstOf(Statements(code, 0))
        ELSE LET known == reached[n - 1]
             IN  known \cup UNION {Successors(code, i) : i \in known}
  IN  reached[Len(code)]
=============================================================================
