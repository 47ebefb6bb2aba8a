---------------------------- MODULE CodeAnalysis ----------------------------
(***************************************************************************)
(* The structural queries the verification rules are built on              *)
(* (rules/analysis.py over syntax/facts.py).                               *)
(*                                                                         *)
(* Code is the sequence of its statements and clauses, one per line.  A    *)
(* line names the line that encloses it (up, 0 for the function's body), so *)
(* `else:` and `except E:` are lines of their own, below their `if` or      *)
(* `try`, and the lines of a block are those with one `up` that are not     *)
(* clauses.  What a line says is kept only as far as some rule looks at it. *)
(* Two texts are the same when their records are.                          *)
(***************************************************************************)
EXTENDS Integers, FiniteSets, Sequences, SequencesExt

None == "None"

(***************************************************************************)
(* A condition is an `and` or `or` of atoms; a bare test is either.  An    *)
(* atom tests one name: against a number, for None, for emptiness, for its *)
(* type, as a flag, or (for an `except` clause read as a branch) for a      *)
(* failure.  Of the order they stand in only that of the bare names, negated *)
(* or not, is kept (flags).                                                *)
(***************************************************************************)
Atom(test, name, rel, n) == [test |-> test, name |-> name, rel |-> rel, n |-> n]
Cond(join, atoms) ==
  [join |-> join, atoms |-> atoms,
   flags |-> SetToSeq({a \in atoms : a.test \in {"name", "not"}})]
NoCond == Cond("none", {})

Names(cond) == {a.name : a \in cond.atoms}

ChecksNone(cond) == \E a \in cond.atoms : a.test = "is"
\* Any comparison with the literal 0, or any `not`, counts.
ChecksEmpty(cond) ==
  \E a \in cond.atoms : a.test = "not" \/ (a.test = "cmp" /\ a.n = 0)

\* A line that says nothing; the fields are set with EXCEPT.  says: the names
\* its strings and comments hold, as <<mark, name>>, where mark is "double" or
\* "single" for a name in such quotes and "bare" for any other.
Line(kind, up) ==
  [kind |-> kind, up |-> up, cond |-> NoCond, calls |-> {}, sets |-> None,
   uses |-> {}, exc |-> {}, chained |-> FALSE, value |-> None, codes |-> {}, says |-> {}]

Call(callee, args) == [callee |-> callee, args |-> args]

Clauses == {"elif", "else", "except", "finally"}
Owners == {"if", "for", "while", "try"}
Compound == Owners \cup Clauses \cup {"with", "def", "class"}
Exits == {"return", "raise", "continue", "break"}

IsSequence(s) == s \in Seq(ToSet(s))

\* Whether a line of some kind can stand within one of another.
MayStand(kind, around) ==
  around \in Compound /\ (kind \in Clauses => around \in Owners)

KindAround(code, i, outer) == IF code[i].up = 0 THEN outer ELSE code[code[i].up].kind

\* What the parser gives, to stand within a line of kind outer: every line is
\* within one before it, or within none, and may stand there.
IsCodeIn(code, outer) ==
  /\ IsSequence(code)
  /\ \A i \in DOMAIN code :
       /\ {"kind", "up"} \subseteq DOMAIN code[i] /\ code[i].up \in 0..(i - 1)
       /\ MayStand(code[i].kind, KindAround(code, i, outer))

IsCode(code) == IsCodeIn(code, "def")

\* Line numbers in ascending order.
InOrder(lines) ==
  LET before(i) == {j \in lines : j < i}
  IN  [k \in 1..Cardinality(lines) |-> CHOOSE i \in lines : Cardinality(before(i)) = k - 1]

-----------------------------------------------------------------------------
(***************************************************************************)
(* Where a line is.                                                        *)
(***************************************************************************)
\* The line itself and the lines around it.
Around(code) ==
  LET above[i \in 0..Len(code)] == IF i = 0 THEN {} ELSE {i} \cup above[code[i].up]
  IN  above

\* The lines of i's own block and below, its clauses left out.
Block(code, i) ==
  {j \in DOMAIN code : \E c \in Around(code)[j] : code[c].up = i /\ code[c].kind \notin Clauses}

\* Faulty variant: an exit inside an earlier compound statement counts too.
UnreachableDeep(code, i) ==
  \E a \in Around(code)[i], j \in DOMAIN code :
    /\ j < a
    /\ code[a].up \in Around(code)[j] \cup {0}
    /\ a \notin Around(code)[j] /\ j \notin Around(code)[i]
    /\ code[j].kind \in Exits
    /\ code[a].kind \notin Clauses

\* A line after an unconditional exit in its block, or in a block around it
\* inside the same function.
Unreachable(code, i) ==
  \E a \in Around(code)[i], j \in DOMAIN code :
    /\ \A d \in Around(code)[i] : code[d].kind = "def" /\ d # i => a > d
    /\ code[a].kind \notin Clauses
    /\ j < a /\ code[j].up = code[a].up
    /\ code[j].kind \in Exits

\* A line and all it encloses.
Extent(code, i) == {j \in DOMAIN code : i \in Around(code)[j]}

\* Some lines, as code of their own: no gaps, and a line whose surroundings
\* are left out stands within none.
Only(code, lines) ==
  LET kept == InOrder(lines)
      at(j) == IF j \in lines THEN Cardinality({k \in lines : k <= j}) ELSE 0
  IN  [k \in DOMAIN kept |-> [code[kept[k]] EXCEPT !.up = at(@)]]

\* Names of functions called are names, too.
NamesIn(line) ==
  Names(line.cond) \cup line.uses \cup ({line.sets} \ {None})
    \cup UNION {{c.callee} \cup c.args : c \in line.calls}

NamesOf(code, lines) == UNION {NamesIn(code[i]) : i \in lines}

Identifiers(code) == NamesOf(code, DOMAIN code)

IdentifierLines(code, name) == {i \in DOMAIN code : name \in NamesIn(code[i])}

\* What the text of some code holds outside its identifiers.
Said(code) == UNION {code[i].says : i \in DOMAIN code}

CallsOf(code, lines) == UNION {code[i].calls : i \in lines}

InLoop(code, i) == \E a \in Around(code)[i] : code[a].kind \in {"for", "while"}

-----------------------------------------------------------------------------
(***************************************************************************)
(* Guards and what their branch does.                                      *)
(***************************************************************************)
\* `elif` lines are not checked for reachability, `if` and `assert` are.
Guards(code) ==
  {i \in DOMAIN code : \/ code[i].kind \in {"if", "assert"} /\ ~Unreachable(code, i)
                       \/ code[i].kind = "elif"}

Rejects(code, i) ==
  code[i].kind = "assert" \/ \E j \in Block(code, i) : code[j].kind \in {"raise", "return"}

RejectingGuards(code) == {i \in Guards(code) : Rejects(code, i)}

CondsOf(code, lines) == {code[i].cond : i \in lines}

-----------------------------------------------------------------------------
(***************************************************************************)
(* Handlers: `except` clauses, and `with suppress(...)` read as one.       *)
(***************************************************************************)
Suppresses(line) == line.kind = "with" /\ \E c \in line.calls : c.callee = "suppress"

\* A `with` is a suppressor when it, or any `with` inside it, suppresses.
Suppressors(code) ==
  {w \in DOMAIN code :
     /\ code[w].kind = "with" /\ ~Unreachable(code, w)
     /\ \E v \in Block(code, w) \cup {w} : Suppresses(code[v])}

\* Suppressors and the `except` clauses of every reachable `try`.
Handlers(code) ==
  Suppressors(code)
    \cup {k \in DOMAIN code : code[k].kind = "except" /\ ~Unreachable(code, code[k].up)}

\* Faulty variant: in the order of their lines, those of an inner `try` first.
PrecedesByLine(code, h, k) == h < k

\* The order they are looked at: suppressors, and then the clauses of one `try`
\* after those of another, an outer one before those within it.
Precedes(code, h, k) ==
  LET of(x) == IF code[x].kind = "except" THEN code[x].up ELSE 0
  IN  of(h) < of(k) \/ (of(h) = of(k) /\ h < k)

FirstHandler(code, handlers) ==
  CHOOSE h \in handlers : \A k \in handlers \ {h} : Precedes(code, h, k)

\* The exceptions a handler names; a bare `except:` names none.
Caught(code, h) ==
  IF code[h].kind = "except" THEN code[h].exc
  ELSE UNION {c.args : c \in code[Min({v \in Block(code, h) \cup {h} : Suppresses(code[v])})].calls}

IsBroad(code, h) ==
  Caught(code, h) = {} \/ Caught(code, h) \cap {"Exception", "BaseException"} # {}

Protected(code, h) ==
  Block(code, IF code[h].kind = "except" THEN code[h].up ELSE h)

HandlerBody(code, h) == IF code[h].kind = "except" THEN Block(code, h) ELSE {}


\* A body that does nothing; a comment or a string is nothing.
Swallows(code, h) ==
  \A j \in HandlerBody(code, h) : code[j].kind \in {"pass", "comment", "docstring"}

Reraises(code, h) == \E j \in HandlerBody(code, h) : code[j].kind = "raise"

OnlyReraises(code, h) ==
  LET body == HandlerBody(code, h)
  IN  /\ Reraises(code, h)
      /\ CallsOf(code, body) = {}
      /\ \A j \in body : code[j].kind # "return" /\ (code[j].kind = "raise" => code[j].exc = {})

WithLines(code) == {i \in DOMAIN code : code[i].kind = "with"}

FinallyCalls(code) ==
  CallsOf(code, UNION {Block(code, k) : k \in {l \in DOMAIN code : code[l].kind = "finally"}})

-----------------------------------------------------------------------------
(***************************************************************************)
(* Responses: the status codes a function can produce, and their branch.   *)
(***************************************************************************)
\* An `except` clause as a condition: its exceptions and what its try uses.
ExceptCond(code, k) ==
  LET ids == (code[k].exc \ NamesOf(code, Block(code, k))) \cup NamesOf(code, Block(code, code[k].up))
  IN  Cond("except", {Atom("except", n, "is", 0) : n \in ids})

\* The conditions of the branches around a line.  For an `else` only the
\* condition of the `if` (or `while`) it belongs to, not of the `elif`s.
Branch(code, i) ==
  UNION {LET l == code[a] IN
           CASE l.kind \in {"if", "elif"} ->
                  IF i \in Block(code, a) THEN {[cond |-> l.cond, negated |-> FALSE]} ELSE {}
             [] l.kind = "else" /\ code[l.up].kind \in {"if", "while"} ->
                  {[cond |-> code[l.up].cond, negated |-> TRUE]}
             [] l.kind = "except" -> {[cond |-> ExceptCond(code, a), negated |-> FALSE]}
             [] OTHER -> {}
         : a \in Around(code)[i] \ {i}}

\* A status object that is a statement of its own is thrown away, unless the
\* call acts by itself (abort).
Discarded(line) ==
  line.kind = "stmt" /\ line.sets = None /\ \A c \in line.calls : c.callee # "abort"

\* mapped: the exceptions a framework or an error handler turns into a status.
Responses(code, mapped) ==
  UNION {{[code |-> s, line |-> i, branch |-> Branch(code, i)] :
            s \in code[i].codes \cup (IF code[i].kind = "raise"
                                      THEN {mapped[e] : e \in code[i].exc \cap DOMAIN mapped}
                                      ELSE {})}
         : i \in {j \in DOMAIN code : ~Unreachable(code, j) /\ ~Discarded(code[j])}}

-----------------------------------------------------------------------------
(***************************************************************************)
(* Names: a request's identifiers, carried along assignments.              *)
(***************************************************************************)
Related(names, code) ==
  LET carried(known) == known \cup {code[i].sets : i \in {j \in DOMAIN code : code[j].uses \cap known # {}}}
  IN  FoldLeft(LAMBDA known, line : carried(known), names, code) \ {None}
=============================================================================
