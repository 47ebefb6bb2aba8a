----------------------------- MODULE CaseProofs -----------------------------
(***************************************************************************)
(* Proofs about what a review is made of, of any length and nesting.  Code: *)
(* where its lines stand, that it stays code when lines are put in or left  *)
(* out, and that the analysis takes no line for unreachable that a run can  *)
(* reach.  A comment: the clauses, drafts and requirements its words give.  *)
(* Two versions: what comparing a sequence with itself finds.               *)
(***************************************************************************)
EXTENDS Review, TLAPS, SequenceTheorems, FiniteSetTheorems, WellFoundedInduction

-----------------------------------------------------------------------------
(***************************************************************************)
(* Positions, and functions defined along them.                            *)
(***************************************************************************)
\* A non-empty set of positions has a first one.
LEMMA FirstPosition ==
  ASSUME NEW n \in Nat, NEW S, S \subseteq 1..n, S # {}
  PROVE  \E i \in S : \A j \in S : i <= j
<1> DEFINE before(i) == {j \in 1..n : j < i}
           T == {before(i) : i \in S}
           F == FiniteSubsetsOf(1..n)
           R == StrictSubsetOrdering(1..n)
<1>1. T \subseteq F /\ T # {}
  <2>1. IsFiniteSet(1..n)
    BY FS_Interval
  <2>2. \A i \in S : before(i) \in SUBSET (1..n) /\ IsFiniteSet(before(i))
    BY <2>1, FS_Subset
  <2> QED
    BY <2>2 DEF FiniteSubsetsOf
<1>2. IsWellFoundedOn(R, F)
  BY FS_StrictSubsetOrderingWellFounded
<1> HIDE DEF T, R, F
<1>3. PICK x \in T : \A y \in T : <<y, x>> \notin R
  BY <1>1, <1>2, WFMin
<1>4. PICK i \in S : x = before(i)
  BY DEF T
<1>5. \A j \in S : i <= j
  <2> SUFFICES ASSUME NEW j \in S, j < i
               PROVE  FALSE
    OBVIOUS
  <2>1. before(j) \in T /\ before(i) \in T
    BY DEF T
  <2>2. before(j) \subseteq before(i) /\ j \in before(i) /\ j \notin before(j)
    OBVIOUS
  <2>3. <<before(j), before(i)>> \in R
    BY <2>2 DEF R, StrictSubsetOrdering
  <2> QED
    BY <1>3, <1>4, <2>1, <2>3
<1> QED
  BY <1>5

\* And a last one.
LEMMA LastPosition ==
  ASSUME NEW n \in Nat, NEW S, S \subseteq 1..n, S # {}
  PROVE  \E i \in S : \A j \in S : i >= j
<1> DEFINE T == {n - i + 1 : i \in S}
<1>1. T \subseteq 1..n /\ T # {}
  <2>1. \A i \in S : n - i + 1 \in 1..n
    OBVIOUS
  <2> QED
    BY <2>1
<1>2. PICK k \in T : \A j \in T : k <= j
  BY <1>1, FirstPosition
<1>3. PICK i \in S : k = n - i + 1
  OBVIOUS
<1>4. \A j \in S : n - j + 1 \in T /\ j \in Int
  OBVIOUS
<1> HIDE DEF T
<1>5. \A j \in S : n - i + 1 <= n - j + 1
  BY <1>2, <1>3, <1>4
<1> QED
  BY <1>3, <1>4, <1>5

\* How a function is given position by position: a value at 0, and elsewhere
\* one made of the value at an earlier position.
IsScheme(n, V, v, parent, step) ==
  /\ n \in Nat /\ v \in V
  /\ parent \in [1..n -> 0..n] /\ \A i \in 1..n : parent[i] < i
  /\ step \in [1..n -> [V -> V]]

Follows(f, n, V, v, parent, step) ==
  /\ f \in [0..n -> V] /\ f[0] = v
  /\ \A i \in 1..n : f[i] = step[i][f[parent[i]]]

\* There is such a function.
LEMMA DefinedAlong ==
  ASSUME NEW n, NEW V, NEW v, NEW parent, NEW step, IsScheme(n, V, v, parent, step)
  PROVE  \E f : Follows(f, n, V, v, parent, step)
<1> USE DEF IsScheme
<1> DEFINE Is(k, f) == /\ f \in [0..k -> V] /\ f[0] = v
                       /\ \A i \in 1..k : f[i] = step[i][f[parent[i]]]
           S == {k \in 1..n : \A f : ~Is(k, f)}
<1>1. \E f : Is(0, f)
  <2>1. Is(0, [i \in 0..0 |-> v])
    OBVIOUS
  <2> QED
    BY <2>1
<1>2. ASSUME NEW k \in 1..n, NEW f, Is(k - 1, f)
      PROVE  \E g : Is(k, g)
  <2>1. parent[k] \in 0..(k - 1) /\ f[parent[k]] \in V
    BY <1>2
  <2>2. step[k][f[parent[k]]] \in V
    BY <2>1
  <2> DEFINE g == [i \in 0..k |-> IF i = k THEN step[k][f[parent[k]]] ELSE f[i]]
  <2>3. g \in [0..k -> V] /\ g[0] = v
    BY <1>2, <2>2
  <2>4. \A i \in 0..(k - 1) : g[i] = f[i]
    OBVIOUS
  <2>5. g[k] = step[k][f[parent[k]]]
    OBVIOUS
  <2> HIDE DEF g
  <2>6. ASSUME NEW i \in 1..k
        PROVE  g[i] = step[i][g[parent[i]]]
    <3>1. parent[i] \in 0..(k - 1)
      OBVIOUS
    <3>2. g[parent[i]] = f[parent[i]]
      BY <2>4, <3>1
    <3>3. CASE i = k
      BY <2>5, <3>2, <3>3
    <3>4. CASE i # k
      BY <1>2, <2>4, <3>2, <3>4
    <3> QED
      BY <3>3, <3>4
  <2> QED
    BY <2>3, <2>6
<1>3. S = {}
  <2> SUFFICES ASSUME S # {}
               PROVE  FALSE
    OBVIOUS
  <2>1. PICK k \in S : \A j \in S : k <= j
    <3> HIDE DEF Is
    <3> QED
      BY FirstPosition
  <2>2. k = 1 \/ (k - 1 \in 1..n /\ k - 1 \notin S)
    <3> HIDE DEF Is
    <3>1. k \in 1..n
      OBVIOUS
    <3> HIDE DEF S
    <3> QED
      BY <2>1, <3>1
  <2>3. \E f : Is(k - 1, f)
    <3> HIDE DEF Is
    <3> QED
      BY <1>1, <2>2
  <2>4. \E g : Is(k, g)
    BY <1>2, <2>1, <2>3
  <2> QED
    BY <2>1, <2>4
<1>4. PICK f : Is(n, f)
  <2> HIDE DEF Is
  <2>1. n = 0 \/ n \in 1..n
    OBVIOUS
  <2>2. n \in 1..n => \E g : Is(n, g)
    BY <1>3
  <2> HIDE DEF S
  <2> QED
    BY <1>1, <2>1, <2>2
<1> QED
  BY <1>4 DEF Follows

-----------------------------------------------------------------------------
(***************************************************************************)
(* Sequences.                                                              *)
(***************************************************************************)
\* A sequence stays one when an element is appended or replaced.
LEMMA SequenceChanged ==
  ASSUME NEW s, IsSequence(s), NEW e, NEW i \in DOMAIN s
  PROVE  /\ IsSequence([s EXCEPT ![i] = e]) /\ Len([s EXCEPT ![i] = e]) = Len(s)
         /\ \A j \in DOMAIN [s EXCEPT ![i] = e] :
              [s EXCEPT ![i] = e][j] = IF j = i THEN e ELSE s[j]
<1>1. s \in Seq(ToSet(s)) /\ Len(s) \in Nat /\ DOMAIN s = 1..Len(s)
  BY DEF IsSequence
<1> DEFINE t == [s EXCEPT ![i] = e]
<1>2. t = [j \in DOMAIN s |-> IF j = i THEN e ELSE s[j]]
  OBVIOUS
<1>3. t = [j \in 1..Len(s) |-> IF j = i THEN e ELSE s[j]]
  BY <1>1, <1>2
<1> HIDE DEF t
<1>4. /\ DOMAIN t = 1..Len(s) /\ t = [j \in 1..Len(s) |-> t[j]]
      /\ \A j \in DOMAIN t : t[j] = IF j = i THEN e ELSE s[j]
  BY <1>3
<1>5. \A j \in 1..Len(s) : t[j] \in ToSet(t)
  BY <1>4 DEF ToSet
<1>6. t \in Seq(ToSet(t)) /\ Len(t) = Len(s)
  BY <1>1, <1>4, <1>5
<1> QED
  BY <1>4, <1>6 DEF IsSequence, t

\* The same for an element at its end.
LEMMA SequenceExtended ==
  ASSUME NEW s, IsSequence(s), NEW e
  PROVE  /\ IsSequence(Append(s, e)) /\ Len(Append(s, e)) = Len(s) + 1
         /\ Append(s, e) # <<>>
         /\ \A j \in DOMAIN Append(s, e) : IF j = Len(s) + 1 THEN Append(s, e)[j] = e
                                           ELSE j \in DOMAIN s /\ Append(s, e)[j] = s[j]
<1>1. s \in Seq(ToSet(s) \cup {e})
  BY SeqMonotonic DEF IsSequence
<1>2. Append(s, e) \in Seq(ToSet(s) \cup {e})
  BY <1>1
<1>3. /\ Len(Append(s, e)) \in Nat /\ DOMAIN Append(s, e) = 1..Len(Append(s, e))
  BY <1>2
<1> DEFINE t == Append(s, e)
<1> HIDE DEF t
<1>4. t \in Seq(ToSet(t))
  BY <1>2, <1>3 DEF ToSet, t
<1>5. /\ Append(s, e) # <<>> /\ Len(Append(s, e)) = Len(s) + 1
      /\ \A j \in DOMAIN Append(s, e) : IF j = Len(s) + 1 THEN Append(s, e)[j] = e
                                       ELSE j \in DOMAIN s /\ Append(s, e)[j] = s[j]
  BY <1>1
<1> QED
  BY <1>4, <1>5 DEF IsSequence, t

\* Sequences put together are one as long as both.
LEMMA SequenceJoined ==
  ASSUME NEW s, IsSequence(s), NEW t, IsSequence(t)
  PROVE  /\ IsSequence(s \o t) /\ Len(s \o t) = Len(s) + Len(t)
         /\ s # <<>> \/ t # <<>> => s \o t # <<>>
<1> DEFINE S == ToSet(s) \cup ToSet(t)
           u == s \o t
<1>1. s \in Seq(S) /\ t \in Seq(S) /\ Len(s) \in Nat /\ Len(t) \in Nat
  BY SeqMonotonic DEF IsSequence
<1> HIDE DEF S
<1>2. u \in Seq(S) /\ Len(u) = Len(s) + Len(t)
  BY <1>1, ConcatProperties
<1>3. s # <<>> \/ t # <<>> => Len(u) # 0
  BY <1>1, <1>2
<1> HIDE DEF u
<1>4. Len(u) \in Nat /\ DOMAIN u = 1..Len(u)
  BY <1>2
<1>5. u \in Seq(ToSet(u))
  BY <1>2, <1>4 DEF ToSet
<1>6. u = <<>> => Len(u) = 0
  OBVIOUS
<1> QED
  BY <1>2, <1>3, <1>5, <1>6 DEF IsSequence, u

-----------------------------------------------------------------------------
(***************************************************************************)
(* Code, line by line.                                                     *)
(***************************************************************************)
\* What a line has, at its position.
IsLine(line, i) == {"kind", "up"} \subseteq DOMAIN line /\ line.up \in 0..(i - 1)

LEMMA CodeOfLines ==
  ASSUME NEW n \in Nat, NEW code, DOMAIN code = 1..n, code = [i \in 1..n |-> code[i]],
         NEW outer,
         \A i \in 1..n : IsLine(code[i], i) /\ MayStand(code[i].kind, KindAround(code, i, outer))
  PROVE  IsCodeIn(code, outer) /\ Len(code) = n
<1>1. code \in Seq(ToSet(code))
  BY DEF ToSet
<1>2. Len(code) = n
  BY <1>1
<1> QED
  BY <1>1, <1>2 DEF IsCodeIn, IsSequence, IsLine

LEMMA LinesOfCode ==
  ASSUME NEW code, NEW outer, IsCodeIn(code, outer)
  PROVE  /\ Len(code) \in Nat /\ DOMAIN code = 1..Len(code)
         /\ \A i \in 1..Len(code) : /\ IsLine(code[i], i) /\ code[i].up \in 0..(i - 1)
                                    /\ MayStand(code[i].kind, KindAround(code, i, outer))
  BY DEF IsCodeIn, IsSequence, IsLine

\* What may stand in a function may stand in any block.
LEMMA CodeWithin ==
  ASSUME NEW code, IsCode(code), NEW outer \in Compound
  PROVE  IsCodeIn(code, outer)
<1>1. \A i \in DOMAIN code : code[i].up = 0 => code[i].kind \notin Clauses
  BY DEF IsCode, IsCodeIn, MayStand, KindAround, Owners
<1> QED
  BY <1>1 DEF IsCode, IsCodeIn, MayStand, KindAround

\* A line that encloses another can, and one with a clause has clauses.
LEMMA LineAround ==
  ASSUME NEW code, IsCode(code), NEW i \in 1..Len(code)
  PROVE  /\ code[i].up # 0 => code[i].up \in 1..Len(code) /\ code[code[i].up].kind \in Compound
         /\ code[i].kind \in Clauses =>
              code[i].up \in 1..Len(code) /\ code[code[i].up].kind \in Owners
<1>1. /\ Len(code) \in Nat /\ code[i].up \in 0..(i - 1)
      /\ MayStand(code[i].kind, KindAround(code, i, "def"))
  BY LinesOfCode DEF IsCode
<1> QED
  BY <1>1 DEF MayStand, KindAround, Owners

-----------------------------------------------------------------------------
(***************************************************************************)
(* The lines around a line.                                                *)
(***************************************************************************)
\* The line itself and the lines around it, unfolded.
LEMMA AroundUnfolds ==
  ASSUME NEW code, IsCode(code)
  PROVE  /\ Around(code)[0] = {}
         /\ \A i \in 1..Len(code) : Around(code)[i] = {i} \cup Around(code)[code[i].up]
<1> DEFINE n == Len(code)
           Unfolds(f) == f = [i \in 0..n |-> IF i = 0 THEN {} ELSE {i} \cup f[code[i].up]]
           V == SUBSET (1..n)
           parent == [i \in 1..n |-> code[i].up]
           step == [i \in 1..n |-> [lines \in V |-> {i} \cup lines]]
<1>1. n \in Nat /\ \A i \in 1..n : code[i].up \in 0..(i - 1)
  BY LinesOfCode DEF IsCode
<1>2. /\ parent \in [1..n -> 0..n] /\ \A i \in 1..n : parent[i] < i
      /\ step \in [1..n -> [V -> V]] /\ {} \in V
  BY <1>1
<1> HIDE DEF V, parent, step
<1>3. PICK f : Follows(f, n, V, {}, parent, step)
  BY <1>1, <1>2, DefinedAlong DEF IsScheme
<1>4. f \in [0..n -> V] /\ f[0] = {} /\ \A i \in 1..n : f[i] = step[i][f[parent[i]]]
  BY <1>3 DEF Follows
<1>5. \A i \in 1..n : f[i] = {i} \cup f[code[i].up]
  <2> TAKE i \in 1..n
  <2>1. parent[i] = code[i].up /\ f[parent[i]] \in V
    BY <1>2, <1>4 DEF parent
  <2>2. step[i][f[parent[i]]] = {i} \cup f[parent[i]]
    BY <2>1 DEF step
  <2> QED
    BY <1>4, <2>1, <2>2
<1>6. Unfolds(f)
  <2>1. \A i \in 0..n : f[i] = IF i = 0 THEN {} ELSE {i} \cup f[code[i].up]
    BY <1>1, <1>4, <1>5
  <2> QED
    BY <1>4, <2>1
<1>7. Around(code) = CHOOSE g : Unfolds(g)
  BY DEF Around
<1>8. Unfolds(Around(code))
  <2> HIDE DEF Unfolds
  <2> QED
    BY <1>6, <1>7
<1> DEFINE h == Around(code)
<1> HIDE DEF h
<1>9. \A i \in 0..n : h[i] = IF i = 0 THEN {} ELSE {i} \cup h[code[i].up]
  BY <1>8 DEF h
<1>10. 0 \in 0..n /\ \A i \in 1..n : i \in 0..n /\ i # 0
  BY <1>1
<1> QED
  BY <1>9, <1>10 DEF h

\* They come before it, and what is around one of them is around it.
LEMMA AroundLines ==
  ASSUME NEW code, IsCode(code), NEW i \in 0..Len(code)
  PROVE  /\ Around(code)[i] \subseteq 1..i
         /\ \A a \in Around(code)[i] : Around(code)[a] \subseteq Around(code)[i]
<1> DEFINE Fine(k) == /\ Around(code)[k] \subseteq 1..k
                      /\ \A a \in Around(code)[k] : Around(code)[a] \subseteq Around(code)[k]
           S == {k \in 1..Len(code) : ~Fine(k)}
<1>1. Len(code) \in Nat /\ \A k \in 1..Len(code) : code[k].up \in 0..(k - 1)
  BY LinesOfCode DEF IsCode
<1>2. Fine(0)
  BY AroundUnfolds
<1>3. ASSUME NEW k \in 1..Len(code), Fine(code[k].up)
      PROVE  Fine(k)
  <2>1. Around(code)[k] = {k} \cup Around(code)[code[k].up]
    BY AroundUnfolds
  <2>2. 1..code[k].up \subseteq 1..k /\ k \in 1..k
    BY <1>1
  <2> QED
    BY <1>3, <2>1, <2>2
<1>4. S = {}
  <2> SUFFICES ASSUME S # {}
               PROVE  FALSE
    OBVIOUS
  <2> HIDE DEF Fine
  <2>1. PICK k \in S : \A j \in S : k <= j
    BY <1>1, FirstPosition
  <2>2. k \in 1..Len(code) /\ ~Fine(k)
    OBVIOUS
  <2> DEFINE u == code[k].up
  <2>3. u = 0 \/ (u \in 1..Len(code) /\ ~(k <= u))
    BY <1>1, <2>2
  <2>4. Fine(u)
    BY <1>2, <2>1, <2>3
  <2> QED
    BY <1>3, <2>2, <2>4
<1>5. i = 0 \/ i \in 1..Len(code)
  BY <1>1
<1>6. Fine(i)
  <2> HIDE DEF Fine
  <2> QED
    BY <1>2, <1>4, <1>5
<1> QED
  BY <1>6

-----------------------------------------------------------------------------
(***************************************************************************)
(* Where control goes.                                                     *)
(***************************************************************************)
\* The first of some lines is one of them, with none before it.
LEMMA FirstOfLines ==
  ASSUME NEW n \in Nat, NEW lines, lines \subseteq 1..n
  PROVE  \A k \in FirstOf(lines) : k \in lines /\ \A j \in lines : k <= j
<1>1. CASE lines = {}
  BY <1>1 DEF FirstOf
<1>2. CASE lines # {}
  <2>1. \E k \in lines : \A j \in lines : k <= j
    BY <1>2, FirstPosition
  <2>2. Min(lines) \in lines /\ \A j \in lines : Min(lines) <= j
    BY <2>1 DEF Min
  <2> QED
    BY <1>2, <2>2 DEF FirstOf
<1> QED
  BY <1>1, <1>2

\* The statement around a line's block comes before it; if the block is a
\* clause, it is a statement with clauses.
LEMMA CompoundAround ==
  ASSUME NEW code, IsCode(code), NEW i \in 1..Len(code), NEW u, u = CompoundOf(code, i)
  PROVE  /\ u \in 0..(i - 1)
         /\ u # 0 => u \in 1..Len(code) /\ code[u].kind \in Compound \ Clauses
         /\ u = code[i].up \/ (code[i].up # 0 /\ code[code[i].up].kind \in Clauses
                                                  /\ u = code[code[i].up].up)
<1> DEFINE up == code[i].up
<1>1. Len(code) \in Nat /\ up \in 0..(i - 1)
  BY LinesOfCode DEF IsCode
<1>2. CASE up # 0 /\ code[up].kind \in Clauses
  <2>1. up \in 1..Len(code) /\ u = code[up].up
    BY <1>1, <1>2 DEF CompoundOf
  <2>2. code[up].up \in 0..(up - 1)
    BY <2>1, LinesOfCode DEF IsCode
  <2>3. u \in 1..Len(code) /\ code[u].kind \in Owners
    BY <1>2, <2>1, LineAround
  <2>4. Owners \subseteq Compound \ Clauses
    BY DEF Owners, Compound, Clauses
  <2> QED
    BY <1>1, <1>2, <2>1, <2>2, <2>3, <2>4
<1>3. CASE ~(up # 0 /\ code[up].kind \in Clauses)
  <2>1. u = up
    BY <1>3 DEF CompoundOf
  <2> QED
    BY <1>1, <1>3, <2>1, LineAround
<1> QED
  BY <1>2, <1>3

\* Where control goes from the end of a statement is a line.
LEMMA OnwardIsLine ==
  ASSUME NEW code, IsCode(code), NEW i \in 1..Len(code)
  PROVE  Onward(code, i) \subseteq 1..Len(code)
<1> DEFINE n == Len(code)
           up == code[i].up
           later == {j \in Statements(code, up) : j > i}
<1>1. /\ n \in Nat /\ DOMAIN code = 1..n /\ up \in 0..(i - 1)
  BY LinesOfCode DEF IsCode
<1>2. \A u, kinds : ClausesOf(code, u, kinds) \subseteq 1..n
  BY <1>1 DEF ClausesOf
<1>3. later \subseteq 1..n
  BY <1>1 DEF Statements
<1>4. FirstOf(later) \subseteq 1..n
  BY <1>1, <1>3, FirstOfLines
<1>5. up # 0 => up \in 1..n
  BY <1>1
<1>6. Onward(code, i) \in {FirstOf(later), {}, IF up = 0 THEN {} ELSE {up},
                           ClausesOf(code, up, {"else"}),
                           ClausesOf(code, CompoundOf(code, i), {"finally"})}
  BY DEF Onward
<1> QED
  BY <1>2, <1>4, <1>5, <1>6

\* Where control goes past the ends of blocks, unfolded.
LEMMA FollowingUnfolds ==
  ASSUME NEW code, IsCode(code)
  PROVE  /\ Following(code)[0] = {}
         /\ \A i \in 1..Len(code) :
              Following(code)[i] = IF Onward(code, i) # {} THEN Onward(code, i)
                                   ELSE Following(code)[CompoundOf(code, i)]
<1> DEFINE n == Len(code)
           at(f, i) == IF Onward(code, i) # {} THEN Onward(code, i) ELSE f[CompoundOf(code, i)]
           Unfolds(f) == f = [i \in 0..n |-> IF i = 0 THEN {} ELSE at(f, i)]
           V == SUBSET (1..n)
           parent == [i \in 1..n |-> CompoundOf(code, i)]
           step == [i \in 1..n |-> [lines \in V |->
                      IF Onward(code, i) # {} THEN Onward(code, i) ELSE lines]]
<1>1. n \in Nat /\ \A i \in 1..n : CompoundOf(code, i) \in 0..(i - 1)
  BY LinesOfCode, CompoundAround DEF IsCode
<1>2. /\ parent \in [1..n -> 0..n] /\ \A i \in 1..n : parent[i] < i
      /\ step \in [1..n -> [V -> V]] /\ {} \in V
  BY <1>1, OnwardIsLine
<1> HIDE DEF V, parent, step
<1>3. PICK f : Follows(f, n, V, {}, parent, step)
  BY <1>1, <1>2, DefinedAlong DEF IsScheme
<1>4. f \in [0..n -> V] /\ f[0] = {} /\ \A i \in 1..n : f[i] = step[i][f[parent[i]]]
  BY <1>3 DEF Follows
<1>5. \A i \in 1..n : f[i] = at(f, i)
  <2> TAKE i \in 1..n
  <2>1. parent[i] = CompoundOf(code, i) /\ f[parent[i]] \in V
    BY <1>2, <1>4 DEF parent
  <2>2. step[i][f[parent[i]]] = IF Onward(code, i) # {} THEN Onward(code, i) ELSE f[parent[i]]
    BY <2>1 DEF step
  <2> QED
    BY <1>4, <2>1, <2>2
<1> HIDE DEF at
<1>6. Unfolds(f)
  <2>1. \A i \in 0..n : f[i] = IF i = 0 THEN {} ELSE at(f, i)
    BY <1>1, <1>4, <1>5
  <2> QED
    BY <1>4, <2>1
<1>7. Following(code) = CHOOSE g : Unfolds(g)
  BY DEF Following, at
<1>8. Unfolds(Following(code))
  <2> HIDE DEF Unfolds
  <2> QED
    BY <1>6, <1>7
<1> DEFINE h == Following(code)
<1> HIDE DEF h
<1>9. \A i \in 0..n : h[i] = IF i = 0 THEN {} ELSE at(h, i)
  BY <1>8 DEF h
<1>10. 0 \in 0..n /\ \A i \in 1..n : i \in 0..n /\ i # 0
  BY <1>1
<1> QED
  BY <1>9, <1>10 DEF h, at

-----------------------------------------------------------------------------
(***************************************************************************)
(* Lines that can run.  A line is barred by an exit before it in its block; *)
(* an open line is one that is not barred and is in no block of a barred    *)
(* one.  Control passes from open lines to open lines only.                *)
(***************************************************************************)
Barred(code, i) ==
  /\ code[i].kind \notin Clauses
  /\ \E j \in DOMAIN code : j < i /\ code[j].up = code[i].up /\ code[j].kind \in Exits

Open(code) == {i \in DOMAIN code : \A a \in Around(code)[i] : ~Barred(code, a)}

\* A line is open if it is not barred and the line around it is open.
LEMMA OpenLines ==
  ASSUME NEW code, IsCode(code), NEW i \in 1..Len(code)
  PROVE  /\ i \in Open(code) <=> ~Barred(code, i) /\ code[i].up \in {0} \cup Open(code)
         /\ i \in Open(code) => Around(code)[i] \subseteq Open(code)
<1>1. /\ Len(code) \in Nat /\ DOMAIN code = 1..Len(code) /\ code[i].up \in 0..(i - 1)
  BY LinesOfCode DEF IsCode
<1>2. /\ Around(code)[i] = {i} \cup Around(code)[code[i].up] /\ Around(code)[0] = {}
      /\ Around(code)[i] \subseteq 1..Len(code)
      /\ \A a \in Around(code)[i] : Around(code)[a] \subseteq Around(code)[i]
  BY <1>1, AroundUnfolds, AroundLines
<1> QED
  BY <1>1, <1>2 DEF Open

\* The first statement of an open block is open.
LEMMA BlocksOpen ==
  ASSUME NEW code, IsCode(code), NEW u \in {0} \cup Open(code)
  PROVE  FirstOf(Statements(code, u)) \subseteq Open(code)
<1>1. Len(code) \in Nat /\ DOMAIN code = 1..Len(code)
  BY LinesOfCode DEF IsCode
<1> SUFFICES ASSUME NEW k \in FirstOf(Statements(code, u))
             PROVE  k \in Open(code)
  OBVIOUS
<1>2. Statements(code, u) \subseteq 1..Len(code)
  BY <1>1 DEF Statements
<1>3. k \in Statements(code, u) /\ \A j \in Statements(code, u) : k <= j
  BY <1>1, <1>2, FirstOfLines
<1>4. k \in 1..Len(code) /\ code[k].up = u
  BY <1>1, <1>3 DEF Statements
<1>5. ~Barred(code, k)
  <2> SUFFICES ASSUME NEW j \in 1..Len(code), j < k, code[j].up = u, code[j].kind \in Exits
               PROVE  FALSE
    BY <1>1, <1>4 DEF Barred
  <2>1. j \in Statements(code, u)
    BY <1>1 DEF Statements, Exits, Clauses
  <2> QED
    BY <1>1, <1>3, <1>4, <2>1
<1> QED
  BY <1>4, <1>5, OpenLines

\* The clauses of an open statement are open.
LEMMA ClausesOpen ==
  ASSUME NEW code, IsCode(code), NEW u \in Open(code), NEW kinds, kinds \subseteq Clauses
  PROVE  ClausesOf(code, u, kinds) \subseteq Open(code)
<1>1. DOMAIN code = 1..Len(code)
  BY LinesOfCode DEF IsCode
<1> SUFFICES ASSUME NEW k \in ClausesOf(code, u, kinds)
             PROVE  k \in Open(code)
  OBVIOUS
<1>2. k \in 1..Len(code) /\ code[k].up = u /\ code[k].kind \in Clauses
  BY <1>1 DEF ClausesOf
<1> QED
  BY <1>2, OpenLines DEF Barred

\* From the end of an open statement that is no exit, control goes on to open lines,
LEMMA OnwardOpen ==
  ASSUME NEW code, IsCode(code), NEW i \in Open(code), code[i].kind \notin Exits \cup Clauses
  PROVE  /\ Onward(code, i) \subseteq Open(code)
         /\ CompoundOf(code, i) \in {0} \cup Open(code)
<1> DEFINE n == Len(code)
           up == code[i].up
           later == {j \in Statements(code, up) : j > i}
           u == CompoundOf(code, i)
<1>1. /\ n \in Nat /\ DOMAIN code = 1..n /\ i \in 1..n /\ up \in 0..(i - 1)
  BY LinesOfCode DEF IsCode, Open
<1>2. ~Barred(code, i) /\ up \in {0} \cup Open(code)
  BY <1>1, OpenLines
<1>3. u \in {0} \cup Open(code)
  <2>1. u = up \/ (up # 0 /\ u = code[up].up)
    BY <1>1, CompoundAround
  <2>2. up # 0 => up \in 1..n /\ up \in Open(code)
    BY <1>1, <1>2
  <2>3. up # 0 => code[up].up \in {0} \cup Open(code)
    BY <2>2, OpenLines
  <2> QED
    BY <1>2, <2>1, <2>3
<1>4. FirstOf(later) \subseteq Open(code)
  <2> SUFFICES ASSUME NEW k \in FirstOf(later)
               PROVE  k \in Open(code)
    OBVIOUS
  <2>1. later \subseteq 1..n
    BY <1>1 DEF Statements
  <2>2. k \in later /\ \A j \in later : k <= j
    BY <1>1, <2>1, FirstOfLines
  <2>3. k \in 1..n /\ code[k].up = up /\ k > i
    BY <1>1, <2>2 DEF Statements
  <2>4. ~Barred(code, k)
    <3> SUFFICES ASSUME NEW j \in 1..n, j < k, code[j].up = up, code[j].kind \in Exits
                 PROVE  FALSE
      BY <1>1, <2>3 DEF Barred
    <3>1. j \in Statements(code, up)
      BY <1>1 DEF Statements, Exits, Clauses
    <3>2. ~(j > i)
      BY <1>1, <2>2, <2>3, <3>1
    <3>3. j # i
      OBVIOUS
    <3>4. j < i
      BY <1>1, <3>2, <3>3
    <3> QED
      BY <1>1, <1>2, <3>4 DEF Barred
  <2> QED
    BY <1>2, <2>3, <2>4, OpenLines
<1>5. CASE up = 0
  <2>1. Onward(code, i) \in {FirstOf(later), {}}
    BY <1>5 DEF Onward
  <2> QED
    BY <1>3, <1>4, <2>1
<1>6. CASE up # 0
  <2>1. up \in Open(code) /\ u \in Open(code)
    <3>1. u # 0
      <4>1. code[up].kind \in Clauses => code[up].up # 0
        BY <1>1, <1>6, LineAround
      <4> QED
        BY <1>6, <4>1 DEF CompoundOf
    <3> QED
      BY <1>2, <1>3, <1>6, <3>1
  <2>2. Onward(code, i) \in {FirstOf(later), {}, {up}, ClausesOf(code, up, {"else"}),
                             ClausesOf(code, u, {"finally"})}
    BY DEF Onward
  <2>3. {"else"} \subseteq Clauses /\ {"finally"} \subseteq Clauses
    BY DEF Clauses
  <2>4. /\ ClausesOf(code, up, {"else"}) \subseteq Open(code)
        /\ ClausesOf(code, u, {"finally"}) \subseteq Open(code)
    BY <2>1, <2>3, ClausesOpen
  <2> QED
    BY <1>3, <1>4, <2>1, <2>2, <2>4
<1> QED
  BY <1>5, <1>6

\* also past the ends of the blocks around it.
LEMMA FollowingOpen ==
  ASSUME NEW code, IsCode(code), NEW i \in Open(code), code[i].kind \notin Exits \cup Clauses
  PROVE  Following(code)[i] \subseteq Open(code)
<1> DEFINE Fine(k) == k = 0 \/ (k \in Open(code) /\ code[k].kind \notin Exits \cup Clauses)
           S == {k \in 1..Len(code) : Fine(k) /\ ~(Following(code)[k] \subseteq Open(code))}
<1>1. Len(code) \in Nat /\ DOMAIN code = 1..Len(code)
  BY LinesOfCode DEF IsCode
<1>2. ASSUME NEW k \in 1..Len(code), Fine(k)
      PROVE  /\ Fine(CompoundOf(code, k)) /\ CompoundOf(code, k) \in 0..(k - 1)
             /\ Onward(code, k) \subseteq Open(code)
  <2>1. k \in Open(code) /\ code[k].kind \notin Exits \cup Clauses
    BY <1>1, <1>2
  <2>2. /\ Onward(code, k) \subseteq Open(code)
        /\ CompoundOf(code, k) \in {0} \cup Open(code)
    BY <2>1, OnwardOpen
  <2> DEFINE u == CompoundOf(code, k)
  <2>3. u \in 0..(k - 1) /\ (u # 0 => code[u].kind \in Compound \ Clauses)
    BY CompoundAround
  <2>4. Compound \cap Exits = {}
    BY DEF Compound, Owners, Clauses, Exits
  <2> HIDE DEF u
  <2> QED
    BY <2>2, <2>3, <2>4 DEF u
<1>3. S = {}
  <2> SUFFICES ASSUME S # {}
               PROVE  FALSE
    OBVIOUS
  <2> HIDE DEF Fine
  <2>1. PICK k \in S : \A j \in S : k <= j
    BY <1>1, FirstPosition
  <2>2. k \in 1..Len(code) /\ Fine(k) /\ ~(Following(code)[k] \subseteq Open(code))
    OBVIOUS
  <2> DEFINE u == CompoundOf(code, k)
  <2>3. Fine(u) /\ u \in 0..(k - 1) /\ Onward(code, k) \subseteq Open(code)
    BY <1>2, <2>2
  <2>4. Following(code)[k] = IF Onward(code, k) # {} THEN Onward(code, k) ELSE Following(code)[u]
    BY <2>2, FollowingUnfolds
  <2> HIDE DEF u
  <2>5. ~(Following(code)[u] \subseteq Open(code))
    BY <2>2, <2>3, <2>4
  <2>6. u # 0
    BY <2>5, FollowingUnfolds
  <2>7. u \in 1..Len(code) /\ ~(k <= u)
    BY <1>1, <2>2, <2>3, <2>6
  <2>8. u \in S
    BY <2>3, <2>5, <2>7
  <2> QED
    BY <2>1, <2>7, <2>8
<1>4. i \in 1..Len(code) /\ Fine(i)
  BY <1>1 DEF Open
<1> HIDE DEF Fine
<1> QED
  BY <1>3, <1>4

\* A failure in an open line leads to open lines.
LEMMA FailingOpen ==
  ASSUME NEW code, IsCode(code), NEW i \in Open(code)
  PROVE  Failing(code, i) \subseteq Open(code)
<1>1. Len(code) \in Nat /\ DOMAIN code = 1..Len(code) /\ i \in 1..Len(code)
  BY LinesOfCode DEF IsCode, Open
<1> DEFINE handled(t) == ClausesOf(code, t, {"except", "finally"})
                           \cup (IF code[t].kind = "with" THEN Following(code)[t] ELSE {})
           from(c) == IF code[c].up = 0 THEN {}
                      ELSE IF code[c].kind \notin Clauses THEN handled(code[c].up)
                      ELSE ClausesOf(code, code[c].up, {"finally"}) \ {c}
<1>2. ASSUME NEW t \in Open(code)
      PROVE  handled(t) \subseteq Open(code)
  <2>1. ClausesOf(code, t, {"except", "finally"}) \subseteq Open(code)
    BY ClausesOpen DEF Clauses
  <2>2. code[t].kind = "with" => Following(code)[t] \subseteq Open(code)
    BY <1>2, FollowingOpen DEF Exits, Clauses
  <2> QED
    BY <2>1, <2>2
<1>3. ASSUME NEW c \in Around(code)[i]
      PROVE  from(c) \subseteq Open(code)
  <2>1. c \in Open(code) /\ c \in 1..Len(code)
    BY <1>1, OpenLines DEF Open
  <2>2. code[c].up \in {0} \cup Open(code)
    BY <2>1, OpenLines
  <2>3. code[c].up # 0 => ClausesOf(code, code[c].up, {"finally"}) \subseteq Open(code)
    BY <2>2, ClausesOpen DEF Clauses
  <2>4. code[c].up # 0 => handled(code[c].up) \subseteq Open(code)
    BY <1>2, <2>2
  <2> HIDE DEF handled
  <2> QED
    BY <2>3, <2>4
<1>4. Failing(code, i) = UNION {from(c) : c \in Around(code)[i]}
  BY DEF Failing
<1> HIDE DEF from
<1> QED
  BY <1>3, <1>4

\* Every step of control from an open line leads to open lines.
LEMMA SuccessorsOpen ==
  ASSUME NEW code, IsCode(code), NEW i \in Open(code)
  PROVE  Successors(code, i) \subseteq Open(code)
<1> DEFINE kind == code[i].kind
           into == FirstOf(Statements(code, i))
           loops == {a \in Around(code)[i] : code[a].kind \in {"for", "while"}}
           owner == IF kind \in Clauses THEN code[i].up ELSE i
           rest == {j \in ClausesOf(code, owner, {"elif", "else"}) : j > i}
<1>1. /\ Len(code) \in Nat /\ DOMAIN code = 1..Len(code) /\ i \in 1..Len(code)
      /\ Around(code)[i] \subseteq 1..Len(code) /\ Around(code)[i] \subseteq Open(code)
  <2>1. /\ Len(code) \in Nat /\ DOMAIN code = 1..Len(code) /\ i \in 1..Len(code)
    BY LinesOfCode DEF IsCode, Open
  <2> QED
    BY <2>1, AroundLines, OpenLines
<1>2. into \subseteq Open(code) /\ Failing(code, i) \subseteq Open(code)
  BY BlocksOpen, FailingOpen
<1>3. kind \notin Exits \cup Clauses => Following(code)[i] \subseteq Open(code)
  BY FollowingOpen
<1>4. ASSUME loops # {}
      PROVE  Max(loops) \in Open(code) /\ Following(code)[Max(loops)] \subseteq Open(code)
  <2>1. \E m \in loops : \A a \in loops : m >= a
    BY <1>1, <1>4, LastPosition
  <2>2. Max(loops) \in loops
    BY <2>1 DEF Max
  <2>3. Max(loops) \in Open(code) /\ code[Max(loops)].kind \in {"for", "while"}
    BY <1>1, <2>2
  <2> HIDE DEF loops
  <2> QED
    BY <2>3, FollowingOpen DEF Exits, Clauses
<1>5. ASSUME kind \in {"if", "elif", "for", "while"}
      PROVE  NextClause(code, i) \subseteq Open(code)
  <2>1. owner \in Open(code) /\ code[owner].kind \notin Exits \cup Clauses
    <3>1. CASE kind \in Clauses
      <4>1. code[i].up \in 1..Len(code) /\ code[code[i].up].kind \in Owners
        BY <1>1, <3>1, LineAround
      <4>2. code[i].up \in Open(code)
        BY <1>1, <4>1, OpenLines
      <4> QED
        BY <3>1, <4>1, <4>2 DEF Owners, Exits, Clauses
    <3>2. CASE kind \notin Clauses
      BY <1>5, <3>2 DEF Exits
    <3> QED
      BY <3>1, <3>2
  <2> HIDE DEF owner
  <2>2. rest \subseteq Open(code) /\ rest \subseteq 1..Len(code)
    <3>1. ClausesOf(code, owner, {"elif", "else"}) \subseteq Open(code)
      BY <2>1, ClausesOpen DEF Clauses
    <3> QED
      BY <1>1, <3>1 DEF Open
  <2>3. FirstOf(rest) \subseteq Open(code)
    BY <1>1, <2>2, FirstOfLines
  <2>4. Following(code)[owner] \subseteq Open(code)
    BY <2>1, FollowingOpen
  <2> HIDE DEF rest
  <2>5. NextClause(code, i) = IF rest # {} THEN FirstOf(rest) ELSE Following(code)[owner]
    BY DEF NextClause, rest, owner
  <2> QED
    BY <2>3, <2>4, <2>5
<1> DEFINE next == CASE kind \in {"return", "raise"} -> {}
                     [] kind = "break" -> IF loops = {} THEN {} ELSE Following(code)[Max(loops)]
                     [] kind = "continue" -> IF loops = {} THEN {} ELSE {Max(loops)}
                     [] kind \in {"if", "elif", "for", "while"} -> into \cup NextClause(code, i)
                     [] kind \in {"try", "with", "else", "except", "finally"} -> into
                     [] kind = "def" -> into \cup Following(code)[i]
                     [] OTHER -> Following(code)[i]
<1>6. Successors(code, i) = Failing(code, i) \cup next
  BY DEF Successors
<1>7. next \subseteq Open(code)
  <2> DEFINE kinds == {"return", "raise", "break", "continue", "if", "elif", "for", "while",
                       "try", "with", "else", "except", "finally", "def"}
  <2> HIDE DEF into, loops
  <2>1. CASE kind \in {"return", "raise"}
    BY <2>1, Zenon
  <2>2. CASE kind = "break"
    <3>1. next = IF loops = {} THEN {} ELSE Following(code)[Max(loops)]
      BY <2>2, Zenon
    <3> QED
      BY <1>4, <3>1
  <2>3. CASE kind = "continue"
    <3>1. next = IF loops = {} THEN {} ELSE {Max(loops)}
      BY <2>3, Zenon
    <3> QED
      BY <1>4, <3>1
  <2>4. CASE kind \in {"if", "elif", "for", "while"}
    <3>1. next = into \cup NextClause(code, i)
      BY <2>4, Zenon
    <3> QED
      BY <1>2, <1>5, <2>4, <3>1
  <2>5. CASE kind \in {"try", "with", "else", "except", "finally"}
    <3>1. next = into
      BY <2>5, Zenon
    <3> QED
      BY <1>2, <3>1
  <2>6. CASE kind = "def"
    <3>1. next = into \cup Following(code)[i]
      BY <2>6, Zenon
    <3> QED
      BY <1>2, <1>3, <2>6, <3>1 DEF Exits, Clauses
  <2>7. CASE kind \notin kinds
    <3>1. next = Following(code)[i]
      BY <2>7, Zenon
    <3> QED
      BY <1>3, <2>7, <3>1 DEF Exits, Clauses
  <2> QED
    BY <2>1, <2>2, <2>3, <2>4, <2>5, <2>6, <2>7
<1> HIDE DEF next
<1> QED
  BY <1>2, <1>6, <1>7

\* So the lines some run reaches are open.
LEMMA LiveIsOpen ==
  ASSUME NEW code, IsCode(code)
  PROVE  Live(code) \subseteq Open(code)
<1> DEFINE n == Len(code)
           start == FirstOf(Statements(code, 0))
           spread(known) == known \cup UNION {Successors(code, i) : i \in known}
           Unfolds(f) == f = [k \in 0..n |-> IF k = 0 THEN start ELSE spread(f[k - 1])]
           V == SUBSET Open(code)
           parent == [k \in 1..n |-> k - 1]
           step == [k \in 1..n |-> [known \in V |-> spread(known)]]
<1>1. n \in Nat
  BY LinesOfCode DEF IsCode
<1>2. start \in V
  BY BlocksOpen
<1>3. \A known \in V : spread(known) \in V
  BY SuccessorsOpen
<1> HIDE DEF start, spread
<1>4. IsScheme(n, V, start, parent, step)
  BY <1>1, <1>2, <1>3 DEF IsScheme
<1>5. PICK f : Follows(f, n, V, start, parent, step)
  BY <1>4, DefinedAlong
<1>6. f \in [0..n -> V] /\ f[0] = start /\ \A k \in 1..n : f[k] = step[k][f[parent[k]]]
  BY <1>5 DEF Follows
<1>7. \A k \in 1..n : f[k] = spread(f[k - 1])
  <2> TAKE k \in 1..n
  <2>1. parent[k] = k - 1 /\ f[k - 1] \in V
    BY <1>1, <1>6
  <2> HIDE DEF V
  <2>2. step[k][f[k - 1]] = spread(f[k - 1])
    BY <2>1
  <2> QED
    BY <1>6, <2>1, <2>2
<1>8. Unfolds(f)
  <2>1. \A k \in 0..n : f[k] = IF k = 0 THEN start ELSE spread(f[k - 1])
    BY <1>1, <1>6, <1>7
  <2> QED
    BY <1>6, <2>1
<1> DEFINE reached == CHOOSE g : Unfolds(g)
<1>9. Live(code) = reached[n]
  BY DEF Live, start, spread
<1>10. Unfolds(reached)
  <2> HIDE DEF Unfolds
  <2> QED
    BY <1>8
<1> HIDE DEF reached, V
<1>11. \A k \in 0..n : reached[k] = IF k = 0 THEN start ELSE spread(reached[k - 1])
  BY <1>10
<1> DEFINE S == {k \in 1..n : reached[k] \notin V}
<1>12. reached[0] \in V /\ \A k \in 1..n : reached[k - 1] \in V => reached[k] \in V
  BY <1>1, <1>2, <1>3, <1>11
<1>13. S = {}
  <2> SUFFICES ASSUME S # {}
               PROVE  FALSE
    OBVIOUS
  <2>1. PICK k \in S : \A j \in S : k <= j
    BY <1>1, FirstPosition
  <2>2. k = 1 \/ k - 1 \in 1..n
    BY <1>1
  <2> QED
    BY <1>1, <1>12, <2>1, <2>2
<1>14. n = 0 \/ n \in 1..n
  BY <1>1
<1>15. reached[n] \in V
  BY <1>12, <1>13, <1>14
<1> QED
  BY <1>9, <1>15 DEF V

\* A line the analysis takes for unreachable is reached by no run.
THEOREM UnreachableIsNotLive ==
  ASSUME NEW code, IsCode(code), NEW i \in DOMAIN code, Unreachable(code, i)
  PROVE  i \notin Live(code)
<1>1. \E a \in Around(code)[i] : Barred(code, a)
  BY DEF Unreachable, Barred
<1> QED
  BY <1>1, LiveIsOpen DEF Open

-----------------------------------------------------------------------------
(***************************************************************************)
(* Some lines of code as code of their own.                                *)
(***************************************************************************)
UpTo(lines, j) == {i \in lines : i <= j}

\* The numbers of lines, in ascending order: every line is there once, the k-th
\* with k - 1 before it.
LEMMA LinesInOrder ==
  ASSUME NEW n \in Nat, NEW lines, lines \subseteq 1..n, NEW kept, kept = InOrder(lines)
  PROVE  /\ Cardinality(lines) \in 0..n /\ DOMAIN kept = 1..Cardinality(lines)
         /\ \A k \in DOMAIN kept : kept[k] \in lines
         /\ \A k \in DOMAIN kept, j \in DOMAIN kept : j < k => kept[j] < kept[k]
         /\ \A k \in DOMAIN kept : Cardinality(UpTo(lines, kept[k])) = k
         /\ ToSet(kept) = lines
<1> DEFINE before(i) == {j \in lines : j < i}
           size == Cardinality(lines)
           rank == [i \in lines |-> Cardinality(before(i))]
<1>0. \A i \in lines : i \in Int
  OBVIOUS
<1>1. IsFiniteSet(lines) /\ size \in 0..n
  <2>1. IsFiniteSet(1..n) /\ Cardinality(1..n) = n
    BY FS_Interval
  <2>2. IsFiniteSet(lines) /\ size <= n
    BY <2>1, FS_Subset
  <2>3. size \in Nat
    BY <2>2, FS_CardinalityType
  <2> QED
    BY <2>2, <2>3
<1>2. ASSUME NEW i \in lines
      PROVE  IsFiniteSet(before(i)) /\ rank[i] \in 0..(size - 1)
  <2>1. before(i) \in SUBSET lines /\ before(i) # lines
    BY <1>2
  <2>2. IsFiniteSet(before(i)) /\ Cardinality(before(i)) <= size /\ Cardinality(before(i)) # size
    BY <1>1, <2>1, FS_Subset
  <2>3. Cardinality(before(i)) \in Nat
    BY <2>2, FS_CardinalityType
  <2> QED
    BY <1>1, <2>2, <2>3
<1>3. ASSUME NEW i \in lines, NEW j \in lines, i < j
      PROVE  rank[i] < rank[j]
  <2>0. i \in Int /\ j \in Int /\ \A k \in lines : k < i => k < j
    BY <1>0, <1>3
  <2>1. before(i) \in SUBSET before(j) /\ i \in before(j) /\ i \notin before(i)
    <3>1. before(i) \in SUBSET before(j)
      BY <2>0
    <3>2. i \in before(j)
      BY <1>3
    <3>3. ~(i < i)
      BY <2>0
    <3>4. i \notin before(i)
      BY <3>3
    <3> QED
      BY <3>1, <3>2, <3>4
  <2>2. IsFiniteSet(before(j))
    BY <1>2
  <2>3. Cardinality(before(i)) <= Cardinality(before(j))
        /\ Cardinality(before(i)) # Cardinality(before(j))
    BY <2>1, <2>2, FS_Subset
  <2>4. rank[i] \in 0..(size - 1) /\ rank[j] \in 0..(size - 1)
    BY <1>2
  <2>5. rank[i] = Cardinality(before(i)) /\ rank[j] = Cardinality(before(j))
    OBVIOUS
  <2> HIDE DEF rank, before
  <2> QED
    BY <1>1, <2>3, <2>4, <2>5
<1>4. rank \in Injection(lines, 0..(size - 1))
  <2>1. rank \in [lines -> 0..(size - 1)]
    BY <1>2
  <2> HIDE DEF rank
  <2>2. ASSUME NEW i \in lines, NEW j \in lines, rank[i] = rank[j]
        PROVE  i = j
    <3>1. rank[i] \in Int
      BY <1>1, <2>1
    <3> QED
      BY <1>3, <2>2, <3>1
  <2> QED
    BY <2>1, <2>2 DEF Injection, IsInjective
<1>5. rank \in Surjection(lines, 0..(size - 1))
  <2> HIDE DEF size
  <2>1. 0 \in Int /\ size - 1 \in Int /\ size \in Nat
    BY <1>1
  <2>2. IsFiniteSet(0..(size - 1)) /\ Cardinality(0..(size - 1)) = size
    BY <2>1, FS_Interval
  <2> QED
    BY <1>4, <2>2, FS_Injection DEF size
<1>6. /\ DOMAIN kept = 1..size
      /\ \A k \in 1..size : kept[k] = CHOOSE i \in lines : Cardinality(before(i)) = k - 1
  BY DEF InOrder
<1>7. ASSUME NEW k \in 1..size
      PROVE  kept[k] \in lines /\ rank[kept[k]] = k - 1
  <2>1. k - 1 \in 0..(size - 1)
    BY <1>1
  <2>2. \E i \in lines : rank[i] = k - 1
    BY <1>5, <2>1 DEF Surjection
  <2>3. \E i \in lines : Cardinality(before(i)) = k - 1
    BY <2>2
  <2> HIDE DEF before
  <2>4. kept[k] \in lines /\ Cardinality(before(kept[k])) = k - 1
    BY <1>6, <2>3
  <2> QED
    BY <2>4
<1> HIDE DEF rank
<1>8. ASSUME NEW k \in 1..size, NEW j \in 1..size, j < k
      PROVE  kept[j] < kept[k]
  <2>1. kept[j] \in lines /\ kept[k] \in lines /\ rank[kept[j]] = j - 1 /\ rank[kept[k]] = k - 1
    BY <1>7
  <2>2. kept[j] # kept[k] /\ ~(kept[k] < kept[j])
    <3>1. k - 1 # j - 1 /\ ~(k - 1 < j - 1)
      BY <1>1, <1>8
    <3>2. kept[k] < kept[j] => rank[kept[k]] < rank[kept[j]]
      BY <1>3, <2>1
    <3> QED
      BY <2>1, <3>1, <3>2
  <2>3. kept[j] \in Int /\ kept[k] \in Int
    BY <1>0, <2>1
  <2> QED
    BY <2>2, <2>3
<1>9. ASSUME NEW k \in 1..size
      PROVE  Cardinality(UpTo(lines, kept[k])) = k
  <2>1. kept[k] \in lines /\ Cardinality(before(kept[k])) = k - 1 /\ IsFiniteSet(before(kept[k]))
    BY <1>2, <1>7 DEF rank
  <2>2. UpTo(lines, kept[k]) = before(kept[k]) \cup {kept[k]} /\ kept[k] \notin before(kept[k])
    <3>1. ASSUME NEW m \in lines
          PROVE  UpTo(lines, m) = before(m) \cup {m} /\ m \notin before(m)
      <4>1. \A i \in lines : (i <= m <=> i < m \/ i = m) /\ ~(m < m)
        BY <1>0
      <4> QED
        BY <4>1, Zenon DEF UpTo
    <3> QED
      BY <2>1, <3>1
  <2> HIDE DEF before
  <2>3. Cardinality(before(kept[k]) \cup {kept[k]}) = (k - 1) + 1
    BY <2>1, <2>2, FS_AddElement
  <2> QED
    BY <1>1, <2>2, <2>3
<1>10. ASSUME NEW i \in lines
       PROVE  \E k \in 1..size : kept[k] = i
  <2> DEFINE k == rank[i] + 1
  <2>1. rank[i] \in 0..(size - 1) /\ k \in 1..size /\ k - 1 = rank[i]
    BY <1>1, <1>2 DEF rank
  <2>2. kept[k] \in lines /\ rank[kept[k]] = rank[i]
    BY <1>7, <2>1
  <2>3. kept[k] = i
    BY <1>4, <2>2 DEF Injection, IsInjective
  <2> QED
    BY <2>1, <2>3
<1>11. ToSet(kept) = lines
  <2> HIDE DEF size, before
  <2>1. \A i \in lines : i \in ToSet(kept)
    BY <1>6, <1>10 DEF ToSet
  <2>2. \A i \in ToSet(kept) : i \in lines
    BY <1>6, <1>7 DEF ToSet
  <2> QED
    BY <2>1, <2>2
<1> QED
  BY <1>1, <1>6, <1>7, <1>8, <1>9, <1>11

\* Lines are code of their own if no clause is left without its statement.
LEMMA OnlyIsCode ==
  ASSUME NEW code, IsCode(code), NEW lines, lines \subseteq 1..Len(code),
         \A i \in lines : code[i].kind \in Clauses => code[i].up \in lines
  PROVE  /\ IsCode(Only(code, lines))
         /\ Len(Only(code, lines)) = Cardinality(lines)
<1> DEFINE n == Len(code)
           kept == InOrder(lines)
           size == Cardinality(lines)
           at(j) == IF j \in lines THEN Cardinality({k \in lines : k <= j}) ELSE 0
           moved(line) == [line EXCEPT !.up = at(@)]
           new == Only(code, lines)
<1>1. /\ n \in Nat /\ DOMAIN code = 1..n
      /\ \A i \in 1..n : /\ IsLine(code[i], i) /\ code[i].up \in 0..(i - 1)
                         /\ MayStand(code[i].kind, KindAround(code, i, "def"))
  BY LinesOfCode DEF IsCode
<1>2. new = [k \in DOMAIN kept |-> moved(code[kept[k]])]
  BY DEF Only
<1>3. /\ size \in 0..n /\ DOMAIN kept = 1..size
      /\ \A k \in DOMAIN kept : kept[k] \in lines
      /\ \A k \in DOMAIN kept, j \in DOMAIN kept : j < k => kept[j] < kept[k]
      /\ \A k \in DOMAIN kept : Cardinality(UpTo(lines, kept[k])) = k
      /\ \A i \in lines : \E k \in DOMAIN kept : kept[k] = i
  <2> HIDE DEF kept
  <2>1. kept = InOrder(lines)
    BY DEF kept
  <2>2. Cardinality(lines) \in 0..n /\ DOMAIN kept = 1..Cardinality(lines)
    BY <1>1, <2>1, LinesInOrder
  <2>3. /\ \A k \in DOMAIN kept : kept[k] \in lines
        /\ \A k \in DOMAIN kept, j \in DOMAIN kept : j < k => kept[j] < kept[k]
    BY <1>1, <2>1, LinesInOrder
  <2>4. \A k \in DOMAIN kept : Cardinality(UpTo(lines, kept[k])) = k
    BY <1>1, <2>1, LinesInOrder
  <2>5. \A i \in lines : \E k \in DOMAIN kept : kept[k] = i
    <3>1. ToSet(kept) = lines
      BY <1>1, <2>1, LinesInOrder
    <3> QED
      BY <3>1 DEF ToSet
  <2> QED
    BY <2>2, <2>3, <2>4, <2>5, Zenon
<1> HIDE DEF kept, size, new
<1>4. size \in Nat /\ DOMAIN new = 1..size /\ new = [k \in 1..size |-> new[k]]
  BY <1>1, <1>2, <1>3
<1>5. ASSUME NEW k \in 1..size
      PROVE  /\ kept[k] \in lines /\ kept[k] \in 1..n
             /\ {"kind", "up"} \subseteq DOMAIN new[k] /\ new[k].kind = code[kept[k]].kind
             /\ new[k].up = at(code[kept[k]].up)
  <2>1. kept[k] \in lines /\ kept[k] \in 1..n
    BY <1>3
  <2>2. new[k] = moved(code[kept[k]]) /\ {"kind", "up"} \subseteq DOMAIN code[kept[k]]
    BY <1>1, <1>2, <1>3, <2>1 DEF IsLine
  <2> HIDE DEF at
  <2> QED
    BY <2>1, <2>2
<1>6. ASSUME NEW k \in 1..size
      PROVE  IsLine(new[k], k) /\ MayStand(new[k].kind, KindAround(new, k, "def"))
  <2> DEFINE i == kept[k]
             u == code[i].up
  <2>1. /\ i \in lines /\ i \in 1..n
        /\ {"kind", "up"} \subseteq DOMAIN new[k] /\ new[k].kind = code[i].kind /\ new[k].up = at(u)
    BY <1>5
  <2>2. u \in 0..(i - 1) /\ MayStand(code[i].kind, KindAround(code, i, "def"))
    BY <1>1, <2>1
  <2> HIDE DEF i
  <2>3. CASE u \in lines
    <3>1. PICK m \in 1..size : kept[m] = u
      BY <1>3, <2>3
    <3>2. at(u) = m
      BY <1>3, <2>3, <3>1 DEF UpTo
    <3>3. m < k
      <4> HIDE DEF at, u
      <4>1. ~(k < m) /\ k # m
        BY <1>3, <2>1, <2>2, <3>1 DEF i
      <4> QED
        BY <1>4, <4>1
    <3>4. new[m].kind = code[u].kind /\ u # 0
      <4> HIDE DEF at, u
      <4>1. new[m].kind = code[kept[m]].kind /\ kept[m] \in 1..n
        BY <1>5
      <4> QED
        BY <3>1, <4>1
    <3>5. new[k].up = m /\ m # 0
      <4> HIDE DEF at
      <4> QED
        BY <2>1, <3>2
    <3>6. KindAround(new, k, "def") = KindAround(code, i, "def")
      BY <3>4, <3>5 DEF KindAround
    <3>7. IsLine(new[k], k)
      BY <2>1, <3>3, <3>5 DEF IsLine
    <3> QED
      BY <2>1, <2>2, <3>6, <3>7
  <2>4. CASE u \notin lines
    <3>1. new[k].up = 0 /\ code[i].kind \notin Clauses
      BY <2>1, <2>4
    <3>2. KindAround(new, k, "def") = "def"
      BY <3>1 DEF KindAround
    <3> QED
      BY <2>1, <3>1, <3>2 DEF IsLine, MayStand, Compound
  <2> QED
    BY <2>3, <2>4
<1>7. IsCodeIn(new, "def") /\ Len(new) = size
  BY <1>4, <1>6, CodeOfLines
<1> QED
  BY <1>7 DEF IsCode, new, size

\* A line that is no clause is code with all it encloses,
LEMMA ExtentIsCode ==
  ASSUME NEW code, IsCode(code), NEW s, s \in DOMAIN code => code[s].kind \notin Clauses
  PROVE  /\ IsCode(Only(code, Extent(code, s)))
         /\ Len(Only(code, Extent(code, s))) = Cardinality(Extent(code, s))
<1> DEFINE n == Len(code)
<1>1. n \in Nat /\ DOMAIN code = 1..n /\ Extent(code, s) \subseteq 1..n
  BY LinesOfCode DEF IsCode, Extent
<1>2. ASSUME NEW i \in Extent(code, s), code[i].kind \in Clauses
      PROVE  code[i].up \in Extent(code, s)
  <2>1. i \in 1..n /\ s \in Around(code)[i] /\ s # i
    BY <1>1, <1>2 DEF Extent
  <2>2. s \in Around(code)[code[i].up]
    BY <2>1, AroundUnfolds
  <2>3. code[i].up \in 1..n
    BY <1>2, <2>1, LineAround
  <2> QED
    BY <1>1, <2>2, <2>3 DEF Extent
<1> QED
  BY <1>1, <1>2, OnlyIsCode

\* and so is the rest.
LEMMA RestIsCode ==
  ASSUME NEW code, IsCode(code), NEW s
  PROVE  IsCode(Only(code, DOMAIN code \ Extent(code, s)))
<1> DEFINE n == Len(code)
           rest == DOMAIN code \ Extent(code, s)
<1>1. n \in Nat /\ DOMAIN code = 1..n
  BY LinesOfCode DEF IsCode
<1>2. ASSUME NEW i \in rest, code[i].kind \in Clauses
      PROVE  code[i].up \in rest
  <2>1. i \in 1..n /\ s \notin Around(code)[i]
    BY <1>1 DEF Extent
  <2>2. s \notin Around(code)[code[i].up]
    BY <2>1, AroundUnfolds
  <2>3. code[i].up \in 1..n
    BY <1>2, <2>1, LineAround
  <2> QED
    BY <1>1, <2>2, <2>3 DEF Extent
<1>3. rest \subseteq 1..n
  BY <1>1
<1> HIDE DEF rest
<1>4. IsCode(Only(code, rest))
  BY <1>2, <1>3, OnlyIsCode
<1> QED
  BY <1>4 DEF rest

-----------------------------------------------------------------------------
(***************************************************************************)
(* Code and the changes of it.                                             *)
(***************************************************************************)
\* What is put in where it may stand leaves code.
LEMMA CodeInserted ==
  ASSUME NEW code, IsCode(code), NEW p \in 1..(Len(code) + 1), NEW u \in 0..(p - 1),
         NEW outer, outer = (IF u = 0 THEN "def" ELSE code[u].kind), outer \in Compound,
         NEW fragment, IsCodeIn(fragment, outer)
  PROVE  /\ IsCode(Inserted(code, p, u, fragment))
         /\ Len(Inserted(code, p, u, fragment)) = Len(code) + Len(fragment)
         /\ \A i \in 1..(p - 1) : Inserted(code, p, u, fragment)[i] = code[i]
         /\ \A i \in 1..Len(fragment) :
              Inserted(code, p, u, fragment)[p + i - 1].kind = fragment[i].kind
         /\ \A i \in p..Len(code) :
              Inserted(code, p, u, fragment)[Len(fragment) + i].kind = code[i].kind
<1> DEFINE n == Len(fragment)
           m == Len(code)
           shifted(line) == [line EXCEPT !.up = IF @ >= p THEN @ + n ELSE @]
           given(line) == [line EXCEPT !.up = IF @ = 0 THEN u ELSE @ + p - 1]
           new == Inserted(code, p, u, fragment)
           Fine(i) == IsLine(new[i], i) /\ MayStand(new[i].kind, KindAround(new, i, "def"))
<1>1. /\ n \in Nat /\ m \in Nat /\ p \in Nat /\ u \in Nat
      /\ \A i \in 1..m : /\ IsLine(code[i], i) /\ code[i].up \in 0..(i - 1)
                         /\ MayStand(code[i].kind, KindAround(code, i, "def"))
      /\ \A i \in 1..n : /\ IsLine(fragment[i], i) /\ fragment[i].up \in 0..(i - 1)
                         /\ MayStand(fragment[i].kind, KindAround(fragment, i, outer))
  BY LinesOfCode DEF IsCode
<1>2. new = [i \in 1..(m + n) |->
               IF i < p THEN code[i]
               ELSE IF i < p + n THEN given(fragment[i - p + 1]) ELSE shifted(code[i - n])]
  BY DEF Inserted
<1> HIDE DEF shifted, given, new
\* The lines before, those put in, and those after, with what they had around them.
<1>3. ASSUME NEW i \in 1..m, i < p
      PROVE  i \in 1..(m + n) /\ new[i] = code[i]
  BY <1>1, <1>2, <1>3
<1>4. ASSUME NEW i \in 1..n
      PROVE  /\ p + i - 1 \in 1..(m + n) /\ {"kind", "up"} \subseteq DOMAIN new[p + i - 1]
             /\ new[p + i - 1].kind = fragment[i].kind
             /\ new[p + i - 1].up = IF fragment[i].up = 0 THEN u ELSE fragment[i].up + p - 1
  <2>1. /\ p + i - 1 \in 1..(m + n) /\ ~(p + i - 1 < p) /\ p + i - 1 < p + n
        /\ (p + i - 1) - p + 1 = i
    BY <1>1
  <2>2. new[p + i - 1] = given(fragment[i])
    BY <1>2, <2>1
  <2>3. {"kind", "up"} \subseteq DOMAIN fragment[i]
    BY <1>1 DEF IsLine
  <2> QED
    BY <2>1, <2>2, <2>3 DEF given
<1>5. ASSUME NEW i \in 1..m, ~(i < p)
      PROVE  /\ n + i \in 1..(m + n) /\ {"kind", "up"} \subseteq DOMAIN new[n + i]
             /\ new[n + i].kind = code[i].kind
             /\ new[n + i].up = IF code[i].up >= p THEN code[i].up + n ELSE code[i].up
  <2>1. n + i \in 1..(m + n) /\ ~(n + i < p) /\ ~(n + i < p + n) /\ (n + i) - n = i
    BY <1>1, <1>5
  <2>2. new[n + i] = shifted(code[i])
    BY <1>2, <2>1
  <2>3. {"kind", "up"} \subseteq DOMAIN code[i]
    BY <1>1 DEF IsLine
  <2> QED
    BY <2>1, <2>2, <2>3 DEF shifted
<1>6. u # 0 => u \in 1..m /\ u < p
  BY <1>1
<1>7. ASSUME NEW i \in 1..m, i < p
      PROVE  Fine(i)
  <2>1. new[i] = code[i]
    BY <1>3, <1>7
  <2>2. /\ IsLine(code[i], i) /\ code[i].up \in 0..(i - 1)
        /\ MayStand(code[i].kind, KindAround(code, i, "def"))
    BY <1>1
  <2>3. code[i].up # 0 => new[code[i].up] = code[code[i].up]
    <3> DEFINE w == code[i].up
    <3>1. w # 0 => w \in 1..m /\ w < p
      <4>1. w \in 0..(i - 1)
        BY <2>2
      <4> HIDE DEF w
      <4> QED
        BY <1>1, <1>7, <4>1
    <3> HIDE DEF w
    <3>2. w # 0 => new[w] = code[w]
      BY <1>3, <3>1
    <3> QED
      BY <3>2 DEF w
  <2> QED
    BY <2>1, <2>2, <2>3 DEF KindAround
<1>8. ASSUME NEW i \in 1..n
      PROVE  Fine(p + i - 1)
  <2> DEFINE k == p + i - 1
             v == fragment[i].up
  <2>1. v \in 0..(i - 1) /\ MayStand(fragment[i].kind, KindAround(fragment, i, outer))
    BY <1>1
  <2>2. /\ {"kind", "up"} \subseteq DOMAIN new[k] /\ new[k].kind = fragment[i].kind
        /\ new[k].up = IF v = 0 THEN u ELSE v + p - 1
    BY <1>4
  <2> HIDE DEF v
  <2>3. CASE v = 0
    <3>1. new[k].up = u /\ u \in 0..(k - 1)
      BY <1>1, <2>2, <2>3
    <3>2. KindAround(new, k, "def") = outer
      BY <1>3, <1>6, <3>1 DEF KindAround
    <3>3. KindAround(fragment, i, outer) = outer
      BY <2>3 DEF KindAround, v
    <3>4. IsLine(new[k], k)
      BY <2>2, <3>1 DEF IsLine
    <3>5. MayStand(new[k].kind, KindAround(new, k, "def"))
      BY <2>1, <2>2, <3>2, <3>3
    <3> QED
      BY <3>4, <3>5
  <2>4. CASE v # 0
    <3>1. v \in 1..n /\ new[k].up = p + v - 1 /\ p + v - 1 \in 0..(k - 1) /\ p + v - 1 # 0
      BY <1>1, <2>1, <2>2, <2>4
    <3>2. new[p + v - 1].kind = fragment[v].kind
      BY <1>4, <3>1
    <3>3. KindAround(new, k, "def") = KindAround(fragment, i, outer)
      BY <2>4, <3>1, <3>2 DEF KindAround, v
    <3>4. IsLine(new[k], k)
      BY <2>2, <3>1 DEF IsLine
    <3>5. MayStand(new[k].kind, KindAround(new, k, "def"))
      BY <2>1, <2>2, <3>3
    <3> QED
      BY <3>4, <3>5
  <2> QED
    BY <2>3, <2>4
<1>9. ASSUME NEW i \in 1..m, ~(i < p)
      PROVE  Fine(n + i)
  <2> DEFINE k == n + i
             v == code[i].up
  <2>1. v \in 0..(i - 1) /\ MayStand(code[i].kind, KindAround(code, i, "def"))
    BY <1>1
  <2>2. /\ {"kind", "up"} \subseteq DOMAIN new[k] /\ new[k].kind = code[i].kind
        /\ new[k].up = IF v >= p THEN v + n ELSE v
    BY <1>5, <1>9
  <2> HIDE DEF v
  <2>3. CASE v >= p
    <3>1. v \in 1..m /\ ~(v < p) /\ new[k].up = n + v /\ n + v \in 0..(k - 1) /\ n + v # 0 /\ v # 0
      BY <1>1, <2>1, <2>2, <2>3
    <3>2. new[n + v].kind = code[v].kind
      BY <1>5, <3>1
    <3>3. KindAround(new, k, "def") = KindAround(code, i, "def")
      BY <3>1, <3>2 DEF KindAround, v
    <3>4. IsLine(new[k], k)
      BY <2>2, <3>1 DEF IsLine
    <3>5. MayStand(new[k].kind, KindAround(new, k, "def"))
      BY <2>1, <2>2, <3>3
    <3> QED
      BY <3>4, <3>5
  <2>4. CASE ~(v >= p)
    <3>1. new[k].up = v /\ v \in 0..(k - 1)
      BY <1>1, <2>1, <2>2, <2>4
    <3>2. v # 0 => v \in 1..m /\ v < p
      BY <1>1, <2>1, <2>4
    <3>3. KindAround(new, k, "def") = KindAround(code, i, "def")
      BY <1>3, <3>1, <3>2 DEF KindAround, v
    <3>4. IsLine(new[k], k)
      BY <2>2, <3>1 DEF IsLine
    <3>5. MayStand(new[k].kind, KindAround(new, k, "def"))
      BY <2>1, <2>2, <3>3
    <3> QED
      BY <3>4, <3>5
  <2> QED
    BY <2>3, <2>4
<1>10. \A i \in 1..(m + n) : Fine(i)
  <2> HIDE DEF Fine
  <2> TAKE i \in 1..(m + n)
  <2>1. CASE i < p
    BY <1>1, <1>7, <2>1
  <2>2. CASE ~(i < p) /\ i < p + n
    <3>1. i - p + 1 \in 1..n /\ p + (i - p + 1) - 1 = i
      BY <1>1, <2>2
    <3> QED
      BY <1>8, <3>1
  <2>3. CASE ~(i < p + n)
    <3>1. i - n \in 1..m /\ ~(i - n < p) /\ n + (i - n) = i
      BY <1>1, <2>3
    <3> QED
      BY <1>9, <3>1
  <2> QED
    BY <1>1, <2>1, <2>2, <2>3
<1>11. /\ DOMAIN new = 1..(m + n) /\ new = [i \in 1..(m + n) |-> new[i]] /\ m + n \in Nat
  BY <1>1, <1>2
<1>12. IsCodeIn(new, "def") /\ Len(new) = m + n
  BY <1>10, <1>11, CodeOfLines
<1>13. \A i \in 1..(p - 1) : i \in 1..m /\ i < p
  BY <1>1
<1>14. \A i \in p..m : i \in 1..m /\ ~(i < p)
  BY <1>1
<1> QED
  BY <1>3, <1>4, <1>5, <1>12, <1>13, <1>14 DEF IsCode, new

\* A line and what it encloses stand within the rest of the code.
LEMMA ExtentOfLine ==
  ASSUME NEW code, IsCode(code), NEW i \in 1..Len(code)
  PROVE  Cardinality(Extent(code, i)) \in 0..(Len(code) - i + 1)
<1> DEFINE n == Len(code)
<1>1. n \in Nat /\ DOMAIN code = 1..n
  BY LinesOfCode DEF IsCode
<1>2. ASSUME NEW j \in Extent(code, i)
      PROVE  j \in i..n
  <2>1. j \in 1..n /\ i \in Around(code)[j]
    BY <1>1 DEF Extent
  <2>2. Around(code)[j] \subseteq 1..j
    BY <1>1, <2>1, AroundLines
  <2> QED
    BY <1>1, <2>1, <2>2
<1>3. IsFiniteSet(i..n) /\ Cardinality(i..n) = n - i + 1
  BY <1>1, FS_Interval
<1>4. Extent(code, i) \in SUBSET (i..n)
  BY <1>2
<1>5. IsFiniteSet(Extent(code, i)) /\ Cardinality(Extent(code, i)) <= n - i + 1
  BY <1>3, <1>4, FS_Subset
<1>6. Cardinality(Extent(code, i)) \in Nat
  BY <1>5, FS_CardinalityType
<1> QED
  BY <1>1, <1>5, <1>6

\* What is wrapped around a statement leaves code.
LEMMA CodeWrapped ==
  ASSUME NEW code, IsCode(code), NEW i \in 1..Len(code), code[i].kind \notin Clauses,
         NEW wrapper, IsCode(<<wrapper.head>>), wrapper.head.kind \in Compound,
         IsCodeIn(wrapper.tail, wrapper.head.kind)
  PROVE  IsCode(Wrapped(code, i, wrapper))
<1> DEFINE n == Len(code)
           m == Cardinality(Extent(code, i))
           u == code[i].up
           around == IF u = 0 THEN "def" ELSE code[u].kind
           head == <<wrapper.head>>
           opened == Inserted(code, i, u, head)
           inside == [j \in DOMAIN opened |->
                        IF j = i + 1 THEN [opened[j] EXCEPT !.up = i] ELSE opened[j]]
<1>1. /\ n \in Nat /\ m \in 0..(n - i + 1) /\ u \in 0..(i - 1) /\ i \in 1..(n + 1) /\ i \in i..n
  BY LinesOfCode, ExtentOfLine DEF IsCode
<1>2. Len(head) = 1 /\ head[1] = wrapper.head /\ IsCode(head)
  OBVIOUS
<1>3. around \in Compound
  BY LineAround DEF Compound
<1>6. Wrapped(code, i, wrapper) = Inserted(inside, i + m + 1, i, wrapper.tail)
  BY DEF Wrapped
<1> HIDE DEF head, around
<1>4. IsCodeIn(head, around)
  BY <1>2, <1>3, CodeWithin
<1>5. /\ IsCode(opened) /\ Len(opened) = n + 1
      /\ opened[i].kind = wrapper.head.kind /\ opened[i + 1].kind = code[i].kind
  <2>1. around = IF u = 0 THEN "def" ELSE code[u].kind
    BY DEF around
  <2>2. /\ IsCode(opened) /\ Len(opened) = n + Len(head)
        /\ \A j \in 1..Len(head) : opened[i + j - 1].kind = head[j].kind
        /\ \A j \in i..n : opened[Len(head) + j].kind = code[j].kind
    <3> HIDE DEF n, u
    <3>1. n = Len(code)
      BY DEF n
    <3>2. i \in 1..(Len(code) + 1) /\ u \in 0..(i - 1)
      BY <1>1, <3>1
    <3>3. around = IF u = 0 THEN "def" ELSE code[u].kind
      BY <2>1
    <3>4. /\ IsCode(Inserted(code, i, u, head))
          /\ Len(Inserted(code, i, u, head)) = Len(code) + Len(head)
      BY <1>3, <1>4, <3>2, <3>3, CodeInserted
    <3>5. \A j \in 1..Len(head) : Inserted(code, i, u, head)[i + j - 1].kind = head[j].kind
      BY <1>3, <1>4, <3>2, <3>3, CodeInserted
    <3>6. \A j \in i..Len(code) :
            Inserted(code, i, u, head)[Len(head) + j].kind = code[j].kind
      BY <1>3, <1>4, <3>2, <3>3, CodeInserted
    <3> QED
      BY <3>1, <3>4, <3>5, <3>6 DEF n
  <2> HIDE DEF opened
  <2>3. opened[i + 1 - 1].kind = head[1].kind /\ opened[1 + i].kind = code[i].kind
    BY <1>1, <1>2, <2>2
  <2> QED
    BY <1>1, <1>2, <2>2, <2>3
<1> HIDE DEF opened, m
<1>7. /\ DOMAIN opened = 1..(n + 1)
      /\ \A j \in 1..(n + 1) : /\ IsLine(opened[j], j)
                               /\ MayStand(opened[j].kind, KindAround(opened, j, "def"))
  BY <1>5, LinesOfCode DEF IsCode
<1>8. /\ DOMAIN inside = 1..(n + 1) /\ inside = [j \in 1..(n + 1) |-> inside[j]]
      /\ \A j \in 1..(n + 1) : j # i + 1 => inside[j] = opened[j]
      /\ inside[i + 1].up = i /\ {"kind", "up"} \subseteq DOMAIN inside[i + 1]
      /\ inside[i + 1].kind = opened[i + 1].kind
  <2>1. i + 1 \in 1..(n + 1) /\ {"kind", "up"} \subseteq DOMAIN opened[i + 1]
    BY <1>1, <1>7 DEF IsLine
  <2> QED
    BY <1>7, <2>1
<1> HIDE DEF inside
<1>9. \A j \in 1..(n + 1) : inside[j].kind = opened[j].kind
  BY <1>8
<1>10. ASSUME NEW j \in 1..(n + 1)
       PROVE  IsLine(inside[j], j) /\ MayStand(inside[j].kind, KindAround(inside, j, "def"))
  <2>1. CASE j = i + 1
    <3>1. KindAround(inside, j, "def") = wrapper.head.kind
      BY <1>1, <1>5, <1>8, <1>9, <2>1 DEF KindAround
    <3>2. inside[j].kind \notin Clauses
      BY <1>5, <1>8, <2>1
    <3> QED
      BY <1>1, <1>8, <2>1, <3>1, <3>2 DEF IsLine, MayStand
  <2>2. CASE j # i + 1
    <3>1. inside[j] = opened[j] /\ IsLine(opened[j], j)
      BY <1>7, <1>8, <2>2
    <3>2. opened[j].up # 0 => opened[j].up \in 1..(n + 1)
      BY <1>1, <3>1 DEF IsLine
    <3>3. KindAround(inside, j, "def") = KindAround(opened, j, "def")
      BY <1>9, <3>1, <3>2 DEF KindAround
    <3> QED
      BY <1>7, <1>9, <3>1, <3>3
  <2> QED
    BY <2>1, <2>2
<1>11. IsCode(inside) /\ Len(inside) = n + 1
  <2>1. n + 1 \in Nat
    BY <1>1
  <2>2. IsCodeIn(inside, "def") /\ Len(inside) = n + 1
    BY <1>8, <1>10, <2>1, CodeOfLines
  <2> QED
    BY <2>2 DEF IsCode
<1>12. /\ i + m + 1 \in 1..(Len(inside) + 1) /\ i \in 0..((i + m + 1) - 1)
       /\ wrapper.head.kind = IF i = 0 THEN "def" ELSE inside[i].kind
  <2>1. i # 0 /\ i \in 1..(n + 1)
    BY <1>1
  <2>2. inside[i].kind = wrapper.head.kind
    BY <1>5, <1>9, <2>1
  <2>3. wrapper.head.kind = IF i = 0 THEN "def" ELSE inside[i].kind
    BY <2>1, <2>2
  <2>4. i + m + 1 \in 1..((n + 1) + 1) /\ i \in 0..((i + m + 1) - 1)
    BY <1>1, SMT
  <2>5. Len(inside) = n + 1
    BY <1>11
  <2> QED
    BY <2>3, <2>4, <2>5, Zenon
<1> DEFINE kind == wrapper.head.kind
           tail == wrapper.tail
<1>13. kind \in Compound /\ IsCodeIn(tail, kind)
  OBVIOUS
<1> HIDE DEF kind, tail
<1>14. kind = IF i = 0 THEN "def" ELSE inside[i].kind
  BY <1>12 DEF kind
<1>15. IsCode(Inserted(inside, i + m + 1, i, tail))
  BY <1>11, <1>12, <1>13, <1>14, CodeInserted
<1> QED
  BY <1>6, <1>15 DEF tail

-----------------------------------------------------------------------------
(***************************************************************************)
(* From a comment to requirements.                                         *)
(***************************************************************************)
\* Nothing put together is nothing.
LEMMA FlattenedNothing ==
  ASSUME NEW seqs, IsSequence(seqs), \A i \in DOMAIN seqs : seqs[i] = <<>>
  PROVE  X!FlattenSeq(seqs) = <<>>
<1>1. Len(seqs) \in Nat /\ DOMAIN seqs = 1..Len(seqs) /\ (Len(seqs) = 0 => seqs = <<>>)
  BY DEF IsSequence
<1> DEFINE n == Len(seqs)
           is(f) == f = [i \in 1..n |-> IF i = 1 THEN seqs[i] ELSE f[i - 1] \o seqs[i]]
           flatten == CHOOSE f : is(f)
           nothing == [i \in 1..n |-> <<>>]
<1>2. <<>> \o <<>> = <<>>
  OBVIOUS
<1>3. is(nothing)
  <2>1. \A i \in 1..n : nothing[i] = IF i = 1 THEN seqs[i] ELSE nothing[i - 1] \o seqs[i]
    BY <1>1, <1>2
  <2> QED
    BY <2>1
<1>4. is(flatten)
  <2> HIDE DEF is, nothing
  <2> QED
    BY <1>3
<1> HIDE DEF flatten
<1>5. \A i \in 1..n : flatten[i] = IF i = 1 THEN seqs[i] ELSE flatten[i - 1] \o seqs[i]
  BY <1>4
<1>6. \A i \in 1..n : flatten[i] = <<>>
  <2> DEFINE S == {i \in 1..n : flatten[i] # <<>>}
  <2> SUFFICES ASSUME S # {}
               PROVE  FALSE
    OBVIOUS
  <2>1. PICK i \in S : \A j \in S : i <= j
    BY <1>1, FirstPosition
  <2>2. CASE i = 1
    BY <1>1, <1>5, <2>1, <2>2
  <2>3. CASE i # 1
    <3>1. i - 1 \in 1..n /\ i - 1 \notin S
      BY <1>1, <2>1, <2>3
    <3>2. flatten[i - 1] = <<>> /\ seqs[i] = <<>>
      BY <1>1, <2>1, <3>1
    <3> QED
      BY <1>2, <1>5, <2>1, <2>3, <3>2
  <2> QED
    BY <2>2, <2>3
<1>7. X!FlattenSeq(seqs) = IF n = 0 THEN seqs ELSE flatten[n]
  BY DEF X!FlattenSeq, flatten
<1> QED
  BY <1>1, <1>6, <1>7

\* A comment in which nothing is asked for, suggested or called superfluous is not actionable.
LEMMA ActionableAsks ==
  ASSUME NEW comment, IsSequence(comment.sentences),
         X!ExtractRequirements(comment).actionable
  PROVE  \/ \E s \in ToSet(comment.sentences) : X!ClassifySentence(s).actionable
         \/ comment.suggestions # <<>>
         \/ \E s \in ToSet(comment.sentences) : "removal" \in s.signals
<1> SUFFICES ASSUME \A s \in ToSet(comment.sentences) : ~X!ClassifySentence(s).actionable,
                    comment.suggestions = <<>>,
                    \A s \in ToSet(comment.sentences) : "removal" \notin s.signals
             PROVE  ~X!ExtractRequirements(comment).actionable
  OBVIOUS
<1> DEFINE sentences == comment.sentences
           stated == [i \in DOMAIN sentences |-> X!ClassifySentence(sentences[i])]
           drafts == [i \in DOMAIN sentences |->
                        IF stated[i].actionable THEN X!SentenceDrafts(sentences[i]) ELSE <<>>]
<1>1. \A i \in DOMAIN sentences : ~stated[i].actionable /\ "removal" \notin sentences[i].signals
  BY DEF ToSet
<1>2. drafts = [i \in DOMAIN sentences |-> <<>>]
  BY <1>1
<1>3. IsSequence(drafts) /\ \A i \in DOMAIN drafts : drafts[i] = <<>>
  <2>1. DOMAIN sentences = 1..Len(sentences) /\ Len(sentences) \in Nat
    BY DEF IsSequence
  <2> QED
    BY <1>2, <2>1 DEF IsSequence, ToSet
<1> HIDE DEF drafts, stated
<1>4. X!FlattenSeq(drafts) = <<>>
  BY <1>3, FlattenedNothing
<1>5. X!Asked(comment, stated) = <<>>
  <2>1. /\ <<>> \o <<>> = <<>>
        /\ [k \in DOMAIN comment.suggestions |-> X!SuggestionDraft(comment.suggestions[k])] = <<>>
    OBVIOUS
  <2> QED
    BY <1>4, <2>1 DEF X!Asked, drafts, stated
<1>6. X!RemovalStatement(sentences, stated) = 0
  BY <1>1 DEF X!RemovalStatement
<1>7. X!ExtractRequirements(comment) = X!RequirementsOf(sentences, stated, <<>>, 0)
  BY <1>5, <1>6 DEF X!ExtractRequirements, X!FromUtterances, X!FromDrafts, stated
<1>8. X!RequirementsOf(sentences, stated, <<>>, 0) = X!Concluded(sentences, stated, 0, <<>>)
  BY DEF X!RequirementsOf
<1> QED
  BY <1>7, <1>8 DEF X!Concluded, X!RequirementSet

\* Questions alone make a comment too unclear to verify.
LEMMA QuestionsAreUnclear ==
  ASSUME NEW signals, NEW targets
  PROVE  X!Ambiguity(signals, TRUE, targets) \in Nat
         /\ X!Ambiguity(signals, TRUE, targets) >= X!AmbiguityThreshold
<1> DEFINE weight(present, w) == IF present THEN w ELSE 0
           rest == weight("hedged" \in signals, 35) + weight(targets = {X!None}, 20)
                     + weight("vague" \in signals, 15) + weight("manner" \in signals, 30)
                     + weight("unverifiable" \in signals, 20)
           sum == weight(TRUE, 50) + weight("hedged" \in signals, 35)
                    + weight(targets = {X!None}, 20) + weight("vague" \in signals, 15)
                    + weight("manner" \in signals, 30) + weight("unverifiable" \in signals, 20)
<1>1. sum \in Nat /\ sum >= 50
  OBVIOUS
<1>2. X!Ambiguity(signals, TRUE, targets) = X!Min({100, sum})
  BY DEF X!Ambiguity
<1> HIDE DEF sum
<1>3. \E x \in {100, sum} : \A y \in {100, sum} : x <= y
  BY <1>1
<1>4. X!Min({100, sum}) \in {100, sum}
  BY <1>3 DEF X!Min
<1> DEFINE score == X!Ambiguity(signals, TRUE, targets)
<1> HIDE DEF score
<1>5. score \in {100, sum}
  BY <1>2, <1>4 DEF score
<1>6. score \in Nat /\ score >= X!AmbiguityThreshold
  BY <1>1, <1>5 DEF X!AmbiguityThreshold
<1> QED
  BY <1>6 DEF score

\* A comment that is clear enough to verify asks no open question.
LEMMA ClearCommentsDoNotAsk ==
  ASSUME NEW comment, IsSequence(comment.sentences),
         X!ExtractRequirements(comment).actionable,
         Score(X!ExtractRequirements(comment)) < X!AmbiguityThreshold,
         NEW s \in ToSet(comment.sentences), X!ClassifySentence(s).actionable
  PROVE  X!ClassifySentence(s).type # "question"
<1> SUFFICES ASSUME X!ClassifySentence(s).type = "question"
             PROVE  FALSE
  OBVIOUS
<1> DEFINE sentences == comment.sentences
           stated == [i \in DOMAIN sentences |-> X!ClassifySentence(sentences[i])]
           asked == X!Asked(comment, stated)
           removal == IF asked = <<>> THEN X!RemovalStatement(sentences, stated) ELSE 0
           set == X!RequirementsOf(sentences, stated, asked, removal)
<1>1. X!ExtractRequirements(comment) = set
  BY DEF X!ExtractRequirements, X!FromUtterances, X!FromDrafts
<1>2. PICK i \in DOMAIN sentences : stated[i].actionable /\ stated[i].type = "question"
  BY DEF ToSet
<1>3. DOMAIN sentences = 1..Len(sentences) /\ Len(sentences) \in Nat
  BY DEF IsSequence
<1> HIDE DEF stated, asked
<1>4. removal # i
  <2> DEFINE saying == {j \in DOMAIN sentences :
                          ~stated[j].actionable /\ "removal" \in sentences[j].signals}
  <2>1. X!RemovalStatement(sentences, stated) = IF saying = {} THEN 0 ELSE X!Min(saying)
    BY DEF X!RemovalStatement
  <2>2. saying # {} => X!Min(saying) \in saying
    <3>1. saying \subseteq 1..Len(sentences)
      BY <1>3
    <3>2. saying # {} => \E j \in saying : \A k \in saying : j <= k
      BY <1>3, <3>1, FirstPosition
    <3> QED
      BY <3>2 DEF X!Min
  <2>3. i \notin saying /\ i # 0
    BY <1>2, <1>3
  <2> QED
    BY <2>1, <2>2, <2>3
<1> HIDE DEF removal
<1>5. PICK requirements : set = X!Concluded(sentences, stated, removal, requirements)
  BY DEF X!RequirementsOf
<1>6. set.ambiguity = X!AmbiguityOf(sentences, stated, removal, requirements)
  BY <1>1, <1>5 DEF X!Concluded, X!RequirementSet
<1>7. \E signals, targets :
        X!AmbiguityOf(sentences, stated, removal, requirements) = X!Ambiguity(signals, TRUE, targets)
  <2> DEFINE actionable == {j \in DOMAIN sentences : stated[j].actionable \/ j = removal}
             open == \E j \in actionable : stated[j].type = "question" /\ j # removal
             signals == UNION {sentences[j].signals : j \in actionable}
             targets == {requirements[k].target : k \in DOMAIN requirements}
  <2>1. open = TRUE
    BY <1>2, <1>4
  <2>2. X!AmbiguityOf(sentences, stated, removal, requirements) = X!Ambiguity(signals, open, targets)
    BY DEF X!AmbiguityOf
  <2> HIDE DEF open, signals, targets
  <2> QED
    BY <2>1, <2>2
<1> HIDE DEF set
<1>8. set.ambiguity \in Nat /\ set.ambiguity >= X!AmbiguityThreshold
  BY <1>6, <1>7, QuestionsAreUnclear
<1>9. Score(set) \in Nat /\ Score(set) >= X!AmbiguityThreshold
  BY <1>8 DEF Score, NoScore
<1> QED
  BY <1>1, <1>9 DEF X!AmbiguityThreshold

-----------------------------------------------------------------------------
(***************************************************************************)
(* From the clauses of a sentence to drafts.                               *)
(***************************************************************************)
\* What sequences are put together to: at least one element for each that is not empty.
LEMMA FlattenedSome ==
  ASSUME NEW seqs, IsSequence(seqs), \A i \in DOMAIN seqs : IsSequence(seqs[i])
  PROVE  /\ IsSequence(X!FlattenSeq(seqs))
         /\ Cardinality({i \in DOMAIN seqs : seqs[i] # <<>>}) <= Len(X!FlattenSeq(seqs))
<1> DEFINE n == Len(seqs)
           is(f) == f = [i \in 1..n |-> IF i = 1 THEN seqs[i] ELSE f[i - 1] \o seqs[i]]
           flatten == CHOOSE f : is(f)
           W == Seq(UNION {ToSet(seqs[i]) : i \in 1..n})
           parent == [i \in 1..n |-> i - 1]
           step == [i \in 1..n |-> [s \in W |-> s \o seqs[i]]]
<1>1. n \in Nat /\ DOMAIN seqs = 1..n /\ (n = 0 => seqs = <<>>)
  BY DEF IsSequence
<1>2. \A i \in 1..n : seqs[i] \in W
  <2> SUFFICES ASSUME NEW i \in 1..n
               PROVE  seqs[i] \in W
    OBVIOUS
  <2>1. seqs[i] \in Seq(ToSet(seqs[i]))
    BY <1>1 DEF IsSequence
  <2>2. ToSet(seqs[i]) \subseteq UNION {ToSet(seqs[j]) : j \in 1..n}
    OBVIOUS
  <2> QED
    BY <2>1, <2>2, SeqMonotonic
<1>3. \E f : is(f)
  <2>1. <<>> \in W /\ \A s \in W : <<>> \o s = s
    OBVIOUS
  <2>2. \A s, t \in W : s \o t \in W
    OBVIOUS
  <2> HIDE DEF W, n
  <2>3. IsScheme(n, W, <<>>, parent, step)
    BY <1>1, <1>2, <2>1, <2>2 DEF IsScheme
  <2>4. PICK g : Follows(g, n, W, <<>>, parent, step)
    BY <2>3, DefinedAlong
  <2>5. g[0] = <<>> /\ \A i \in 1..n : g[i - 1] \in W /\ g[i] = g[i - 1] \o seqs[i]
    <3>1. g \in [0..n -> W] /\ g[0] = <<>> /\ \A i \in 1..n : g[i] = step[i][g[parent[i]]]
      BY <2>4 DEF Follows
    <3>2. ASSUME NEW i \in 1..n
          PROVE  g[i - 1] \in W /\ g[i] = g[i - 1] \o seqs[i]
      <4>1. i - 1 \in 0..n
        BY <1>1
      <4>2. g[i - 1] \in W /\ parent[i] = i - 1
        BY <3>1, <4>1
      <4>3. step[i][g[i - 1]] = g[i - 1] \o seqs[i]
        BY <4>2
      <4> QED
        BY <3>1, <4>2, <4>3
    <3> QED
      BY <3>1, <3>2
  <2> DEFINE f == [i \in 1..n |-> g[i]]
  <2>6. \A i \in 1..n : f[i] = IF i = 1 THEN seqs[i] ELSE f[i - 1] \o seqs[i]
    <3> SUFFICES ASSUME NEW i \in 1..n
                 PROVE  f[i] = IF i = 1 THEN seqs[i] ELSE f[i - 1] \o seqs[i]
      OBVIOUS
    <3>1. CASE i = 1
      <4>1. i - 1 = 0 /\ g[i] = g[i - 1] \o seqs[i]
        <5>1. i - 1 = 0
          BY <3>1
        <5>2. g[i] = g[i - 1] \o seqs[i]
          BY <2>5
        <5> QED
          BY <5>1, <5>2
      <4>2. g[i] = seqs[i]
        <5>1. g[i - 1] = <<>>
          BY <2>5, <4>1
        <5>2. <<>> \o seqs[i] = seqs[i]
          BY <1>2, <2>1
        <5> QED
          BY <4>1, <5>1, <5>2
      <4> QED
        BY <3>1, <4>2
    <3>2. CASE i # 1
      <4>1. i - 1 \in 1..n
        BY <1>1, <3>2
      <4> QED
        BY <2>5, <3>2, <4>1
    <3> QED
      BY <3>1, <3>2
  <2>7. f = [i \in 1..n |-> IF i = 1 THEN seqs[i] ELSE f[i - 1] \o seqs[i]]
    BY <2>6
  <2> HIDE DEF f
  <2> QED
    BY <2>7
<1>4. is(flatten)
  <2> HIDE DEF is
  <2> QED
    BY <1>3
<1> HIDE DEF flatten, W
<1>5. \A i \in 1..n : flatten[i] = IF i = 1 THEN seqs[i] ELSE flatten[i - 1] \o seqs[i]
  BY <1>4
<1> DEFINE some(i) == {j \in 1..i : seqs[j] # <<>>}
           Good(i) == /\ IsSequence(flatten[i]) /\ IsFiniteSet(some(i))
                      /\ Cardinality(some(i)) <= Len(flatten[i])
<1>6. ASSUME NEW i \in 1..n, i # 1 => Good(i - 1)
      PROVE  Good(i)
  <2>1. IsSequence(seqs[i]) /\ Len(seqs[i]) \in Nat /\ (seqs[i] # <<>> => Len(seqs[i]) >= 1)
    BY <1>1 DEF IsSequence
  <2> DEFINE before == IF i = 1 THEN {} ELSE some(i - 1)
  <2>2. /\ some(i) = IF seqs[i] # <<>> THEN before \cup {i} ELSE before
        /\ i \notin before
    OBVIOUS
  <2>3. IsFiniteSet(before) /\ Cardinality(before) \in Nat
    <3> HIDE DEF some
    <3>1. IsFiniteSet(before)
      BY <1>6, FS_EmptySet
    <3> QED
      BY <3>1, FS_CardinalityType
  <2>4. /\ IsFiniteSet(some(i))
        /\ Cardinality(some(i)) = Cardinality(before) + IF seqs[i] # <<>> THEN 1 ELSE 0
    <3> HIDE DEF some, before
    <3>1. /\ IsFiniteSet(before \cup {i})
          /\ Cardinality(before \cup {i}) = Cardinality(before) + 1
      BY <2>2, <2>3, FS_AddElement
    <3> QED
      BY <2>2, <2>3, <3>1
  <2>5. CASE i = 1
    <3>1. flatten[i] = seqs[i] /\ Cardinality(before) = 0
      BY <1>5, <2>5, FS_EmptySet
    <3> HIDE DEF some, before
    <3> QED
      BY <2>1, <2>4, <3>1
  <2>6. CASE i # 1
    <3>1. flatten[i] = flatten[i - 1] \o seqs[i] /\ before = some(i - 1)
      BY <1>5, <2>6
    <3>2. /\ IsSequence(flatten[i - 1]) /\ Len(flatten[i - 1]) \in Nat
          /\ Cardinality(before) <= Len(flatten[i - 1])
      BY <1>6, <2>6, <3>1 DEF IsSequence
    <3>3. IsSequence(flatten[i]) /\ Len(flatten[i]) = Len(flatten[i - 1]) + Len(seqs[i])
      BY <2>1, <3>1, <3>2, SequenceJoined
    <3> DEFINE few == Cardinality(before)
               most == Cardinality(some(i))
               short == Len(flatten[i - 1])
               long == Len(flatten[i])
    <3>4. most = few + IF seqs[i] # <<>> THEN 1 ELSE 0
      BY <2>4
    <3>5. few \in Nat /\ short \in Nat /\ few <= short /\ long = short + Len(seqs[i])
      BY <2>3, <3>2, <3>3
    <3> HIDE DEF few, most, short, long
    <3>6. most <= long
      BY <2>1, <3>4, <3>5
    <3> QED
      BY <2>4, <3>3, <3>6 DEF most, long
  <2> QED
    BY <2>5, <2>6
<1> HIDE DEF Good
<1>7. \A i \in 1..n : Good(i)
  <2> DEFINE S == {i \in 1..n : ~Good(i)}
  <2> SUFFICES ASSUME S # {}
               PROVE  FALSE
    OBVIOUS
  <2>1. PICK i \in S : \A j \in S : i <= j
    BY <1>1, FirstPosition
  <2>2. i # 1 => i - 1 \in 1..n /\ i - 1 \notin S
    BY <1>1, <2>1
  <2> QED
    BY <1>6, <2>1, <2>2
<1>8. X!FlattenSeq(seqs) = IF n = 0 THEN seqs ELSE flatten[n]
  BY DEF X!FlattenSeq, flatten
<1>9. CASE n = 0
  <2>1. {i \in DOMAIN seqs : seqs[i] # <<>>} = {}
    BY <1>1, <1>9
  <2> QED
    BY <1>1, <1>8, <1>9, <2>1, FS_EmptySet
<1>10. CASE n # 0
  <2>1. n \in 1..n /\ {i \in DOMAIN seqs : seqs[i] # <<>>} = some(n)
    BY <1>1, <1>10
  <2> QED
    BY <1>7, <1>8, <1>10, <2>1 DEF Good
<1> QED
  BY <1>9, <1>10

\* Two segments read as one are a segment.
LEMMA MergedSegment ==
  ASSUME NEW s, IsSegment(s), NEW t, IsSegment(t)
  PROVE  IsSegment(X!Merged(s, t))
<1>1. DOMAIN X!Merged(s, t) = DOMAIN s /\ X!Merged(s, t).parts = s.parts \o t.parts
  BY DEF X!Merged, IsSegment
<1>2. IsSequence(s.parts \o t.parts)
  BY SequenceJoined DEF IsSegment
<1> QED
  BY <1>1, <1>2 DEF IsSegment

\* The clauses of segments: at least one, of the form of a segment.
IsClauses(c) == IsSequence(c) /\ \A i \in DOMAIN c : IsSegment(c[i])

LEMMA ClausesOfSegments ==
  ASSUME NEW segments, IsClauses(segments), segments # <<>>, NEW starts
  PROVE  IsClauses(X!ClausesFrom(segments, starts)) /\ X!ClausesFrom(segments, starts) # <<>>
<1> DEFINE n == Len(segments)
           next(c, k) == IF c = <<>> \/ k \in starts THEN Append(c, segments[k])
                         ELSE [c EXCEPT ![Len(c)] = X!Merged(@, segments[k])]
           is(f, m) == f = [k \in 0..m |-> IF k = 0 THEN <<>> ELSE next(f[k - 1], k)]
           upTo == CHOOSE f : is(f, n)
<1>1. n \in Nat /\ n # 0 /\ DOMAIN segments = 1..n
  BY DEF IsClauses, IsSequence
<1>2. X!ClausesFrom(segments, starts) = upTo[n]
  BY DEF X!ClausesFrom
<1> HIDE DEF next
<1>3. \E f : is(f, n)
  <2> DEFINE S == {m \in 1..n : ~\E f : is(f, m)}
  <2>1. \E f : is(f, 0)
    <3>1. is([k \in 0..0 |-> <<>>], 0)
      OBVIOUS
    <3> QED
      BY <3>1
  <2>2. ASSUME NEW m \in 1..n, NEW f, is(f, m - 1)
        PROVE  \E g : is(g, m)
    <3> DEFINE g == [k \in 0..m |-> IF k = m THEN next(f[m - 1], m) ELSE f[k]]
    <3>1. \A k \in 0..(m - 1) : f[k] = IF k = 0 THEN <<>> ELSE next(f[k - 1], k)
      BY <2>2
    <3>2. \A k \in 0..m : g[k] = IF k = 0 THEN <<>> ELSE next(g[k - 1], k)
      <4> SUFFICES ASSUME NEW k \in 0..m
                   PROVE  g[k] = IF k = 0 THEN <<>> ELSE next(g[k - 1], k)
        OBVIOUS
      <4>1. k # 0 => k - 1 \in 0..m /\ k - 1 # m
        BY <1>1
      <4>2. k # 0 => g[k - 1] = f[k - 1]
        BY <4>1
      <4>3. CASE k = m
        BY <1>1, <4>2, <4>3
      <4>4. CASE k # m
        <5>1. k \in 0..(m - 1) /\ g[k] = f[k]
          BY <1>1, <4>4
        <5> QED
          BY <3>1, <4>2, <5>1
      <4> QED
        BY <4>3, <4>4
    <3>3. g = [k \in 0..m |-> g[k]]
      OBVIOUS
    <3> HIDE DEF g
    <3>4. is(g, m)
      BY <3>2, <3>3
    <3> QED
      BY <3>4
  <2> HIDE DEF is
  <2> SUFFICES ASSUME S # {}
               PROVE  FALSE
    <3>1. n \in 1..n
      BY <1>1
    <3> HIDE DEF n
    <3> QED
      BY <3>1
  <2>3. PICK m \in S : \A j \in S : m <= j
    BY <1>1, FirstPosition
  <2>4. m - 1 = 0 \/ (m - 1 \in 1..n /\ m - 1 \notin S)
    BY <1>1, <2>3
  <2> QED
    BY <2>1, <2>2, <2>3, <2>4
<1>4. is(upTo, n)
  <2> HIDE DEF is
  <2> QED
    BY <1>3
<1> HIDE DEF upTo
<1>5. upTo[0] = <<>> /\ \A k \in 1..n : upTo[k] = next(upTo[k - 1], k)
  <2>1. \A k \in 0..n : upTo[k] = IF k = 0 THEN <<>> ELSE next(upTo[k - 1], k)
    BY <1>4
  <2>2. 0 \in 0..n /\ \A k \in 1..n : k \in 0..n /\ k # 0
    BY <1>1
  <2> QED
    BY <2>1, <2>2
<1> HIDE DEF is
<1>6. ASSUME NEW c, IsClauses(c), NEW k \in 1..n
      PROVE  IsClauses(next(c, k)) /\ next(c, k) # <<>>
  <2>1. IsSegment(segments[k])
    BY <1>1 DEF IsClauses
  <2>2. CASE c = <<>> \/ k \in starts
    <3>1. next(c, k) = Append(c, segments[k])
      BY <2>2 DEF next
    <3> QED
      BY <1>6, <2>1, <3>1, SequenceExtended DEF IsClauses
  <2>3. CASE ~(c = <<>> \/ k \in starts)
    <3>1. next(c, k) = [c EXCEPT ![Len(c)] = X!Merged(c[Len(c)], segments[k])]
      BY <2>3 DEF next
    <3>2. Len(c) \in DOMAIN c /\ Len(c) \in Nat /\ Len(c) # 0
      BY <1>6, <2>3 DEF IsClauses, IsSequence
    <3>3. IsSegment(X!Merged(c[Len(c)], segments[k]))
      BY <1>6, <2>1, <3>2, MergedSegment DEF IsClauses
    <3> DEFINE e == X!Merged(c[Len(c)], segments[k])
               d == [c EXCEPT ![Len(c)] = e]
    <3> HIDE DEF e
    <3>4. /\ IsSequence(d) /\ Len(d) = Len(c)
          /\ \A j \in DOMAIN d : d[j] = IF j = Len(c) THEN e ELSE c[j]
      BY <1>6, <3>2, SequenceChanged DEF IsClauses
    <3>5. DOMAIN d = DOMAIN c
      OBVIOUS
    <3> HIDE DEF d
    <3>6. \A j \in DOMAIN d : IsSegment(d[j])
      BY <1>6, <3>3, <3>4, <3>5 DEF IsClauses, e
    <3>7. d # <<>>
      BY <3>2, <3>4
    <3> QED
      BY <3>1, <3>4, <3>6, <3>7 DEF IsClauses, d, e
  <2> QED
    BY <2>2, <2>3
<1>7. IsClauses(<<>>)
  BY DEF IsClauses, IsSequence, ToSet
<1>8. \A k \in 1..n : IsClauses(upTo[k]) /\ upTo[k] # <<>>
  <2> DEFINE S == {k \in 1..n : ~(IsClauses(upTo[k]) /\ upTo[k] # <<>>)}
  <2> SUFFICES ASSUME S # {}
               PROVE  FALSE
    OBVIOUS
  <2>1. PICK k \in S : \A j \in S : k <= j
    BY <1>1, FirstPosition
  <2>2. k - 1 = 0 \/ (k - 1 \in 1..n /\ k - 1 \notin S)
    BY <1>1, <2>1
  <2>3. IsClauses(upTo[k - 1])
    BY <1>5, <1>7, <2>2
  <2> QED
    BY <1>5, <1>6, <2>1, <2>3
<1>9. n \in 1..n
  BY <1>1
<1> QED
  BY <1>2, <1>8, <1>9

\* A clause that is added gives at least one draft.
LEMMA ExpandsToSome ==
  ASSUME NEW clause, IsSegment(clause), NEW cued, IsSegment(cued), NEW category, NEW verb
  PROVE  /\ IsSequence(X!Expand(clause, cued, category, verb))
         /\ X!Expand(clause, cued, category, verb) # <<>>
<1> DEFINE parts == IF category = "error_handling" THEN cued.parts ELSE clause.parts
           own == {k \in DOMAIN parts :
                     /\ parts[k].category = category
                     /\ category = "validation" => verb \in X!ValidateVerbs
                     /\ category = "error_handling" => parts[k].target \notin clause.raised}
           n == Cardinality(own)
           nth(i) == parts[CHOOSE k \in own : X!Cardinality({j \in own : j < k}) = i - 1]
           each == [i \in 1..n |-> X!Draft(category, nth(i).target, nth(i).reads)]
           one == <<X!Draft(category, clause.target, clause.reads)>>
<1>1. X!Cardinality(own) = n
  BY DEF Cardinality, X!Cardinality
<1>2. X!Expand(clause, cued, category, verb)
        = IF n >= 2 \/ (n = 1 /\ category = "naming") THEN each ELSE one
  <2> HIDE DEF n
  <2> QED
    BY <1>1, Zenon DEF X!Expand
<1>3. n \in Nat
  <2>1. IsSequence(parts)
    BY DEF IsSegment
  <2>2. IsFiniteSet(DOMAIN parts)
    BY <2>1, FS_Interval DEF IsSequence
  <2>3. own \in SUBSET DOMAIN parts
    OBVIOUS
  <2> HIDE DEF own, parts
  <2> QED
    BY <2>2, <2>3, FS_Subset, FS_CardinalityType
<1> HIDE DEF n, nth
<1>4. IsSequence(each) /\ Len(each) = n
  BY <1>3 DEF IsSequence, ToSet
<1>5. IsSequence(one) /\ Len(one) = 1
  BY DEF IsSequence, ToSet
<1> HIDE DEF each, one
<1>6. Len(<<>>) = 0
  OBVIOUS
<1> QED
  BY <1>2, <1>3, <1>4, <1>5, <1>6

\* How far a sentence has been read.
IsProgress(p) ==
  /\ DOMAIN p = {"drafts", "previous", "verb", "pending"} /\ IsSequence(p.drafts)
  /\ p.pending = <<>> \/ \E s : p.pending = <<s>> /\ IsSegment(s)

\* Reading on loses no draft; a request, or a whole sentence, that is no header gives one.
LEMMA AddedClause ==
  ASSUME NEW p, IsProgress(p), NEW clause, IsSegment(clause), NEW clauses, NEW whole \in BOOLEAN
  PROVE  LET q == X!AddClause(p, clause, clauses, whole)
         IN  /\ IsProgress(q)
             /\ p.drafts # <<>> => q.drafts # <<>>
             /\ (clause.verb # X!None \/ whole) /\ ~X!IsHeader(clause, clauses) => q.drafts # <<>>
<1> DEFINE q == X!AddClause(p, clause, clauses, whole)
           cued == IF p.pending = <<>> THEN clause ELSE X!Merged(clause, p.pending[1])
           own == X!Categorize(cued, clause.verb)
           category == IF own # X!None THEN own
                       ELSE IF p.previous # X!None THEN p.previous ELSE "other"
           added == X!Expand(clause, cued, category, clause.verb)
           more == p.drafts \o added
<1>1. q = IF clause.verb = X!None /\ ~whole
            THEN IF clause.condition THEN [p EXCEPT !.pending = <<clause>>] ELSE p
          ELSE IF X!IsHeader(clause, clauses) \/ X!IsHandling(clause, p) THEN p
          ELSE X!Progress(more, category, clause.verb, <<>>)
  BY DEF X!AddClause
<1>2. IsSegment(cued)
  <2>1. CASE p.pending = <<>>
    BY <2>1
  <2>2. CASE p.pending # <<>>
    <3>1. PICK s : p.pending = <<s>> /\ IsSegment(s)
      BY <2>2 DEF IsProgress
    <3>2. cued = X!Merged(clause, s)
      BY <2>2, <3>1
    <3> QED
      BY <3>1, <3>2, MergedSegment
  <2> QED
    BY <2>1, <2>2
<1> HIDE DEF cued, category
<1>3. IsSequence(added) /\ added # <<>>
  BY <1>2, ExpandsToSome
<1> HIDE DEF added
<1>4. IsSequence(more) /\ more # <<>>
  BY <1>3, SequenceJoined DEF IsProgress
<1> HIDE DEF q, more
<1>5. CASE clause.verb = X!None /\ ~whole
  <2>1. q = p \/ q = [p EXCEPT !.pending = <<clause>>]
    BY <1>1, <1>5
  <2>2. q.drafts = p.drafts /\ IsProgress(q)
    BY <2>1 DEF IsProgress
  <2> QED
    BY <1>5, <2>2 DEF q
<1>6. CASE ~(clause.verb = X!None /\ ~whole) /\ (X!IsHeader(clause, clauses) \/ X!IsHandling(clause, p))
  <2>1. q = p
    BY <1>1, <1>6
  <2>2. X!IsHandling(clause, p) => p.drafts # <<>>
    BY DEF X!IsHandling
  <2> QED
    BY <1>6, <2>1, <2>2 DEF q
<1>7. CASE /\ ~(clause.verb = X!None /\ ~whole)
           /\ ~(X!IsHeader(clause, clauses) \/ X!IsHandling(clause, p))
  <2>1. q = X!Progress(more, category, clause.verb, <<>>)
    BY <1>1, <1>7
  <2>2. q.drafts = more /\ IsProgress(q)
    BY <1>4, <2>1 DEF IsProgress, X!Progress
  <2> QED
    BY <1>4, <2>2 DEF q
<1> QED
  BY <1>5, <1>6, <1>7

\* A sentence gives drafts, and some unless all its requests are headers.
LEMMA SentenceAsks ==
  ASSUME NEW s, IsSentence(s)
  PROVE  /\ IsSequence(X!SentenceDrafts(s))
         /\ ~Headed(X!SplitClauses(s.segments)) => X!SentenceDrafts(s) # <<>>
<1> DEFINE split == X!SplitClauses(s.segments)
           whole == \A i \in DOMAIN split : split[i].verb = X!None
           clauses == IF whole THEN <<X!Whole(s.segments)>> ELSE split
           n == Len(clauses)
           start == X!Progress(<<>>, X!None, X!None, <<>>)
           next(p, k) == X!AddClause(p, clauses[k], clauses, whole)
           is(f, m) == f = [k \in 0..m |-> IF k = 0 THEN start ELSE next(f[k - 1], k)]
           upTo == CHOOSE f : is(f, n)
<1>1. X!SentenceDrafts(s) = upTo[n].drafts
  BY DEF X!SentenceDrafts
<1>2. /\ IsClauses(split) /\ split # <<>>
      /\ IsSegment(X!Whole(s.segments))
  <2>1. IsClauses(s.segments) /\ s.segments # <<>>
    BY DEF IsSentence, IsClauses
  <2> DEFINE one == X!ClausesFrom(s.segments, {})
  <2>2. IsClauses(one) /\ one # <<>>
    BY <2>1, ClausesOfSegments
  <2> HIDE DEF one
  <2>3. 1 \in DOMAIN one
    BY <2>2 DEF IsClauses, IsSequence
  <2>4. IsSegment(X!Whole(s.segments))
    BY <2>2, <2>3 DEF X!Whole, one, IsClauses
  <2> QED
    BY <2>1, <2>4, ClausesOfSegments DEF X!SplitClauses
<1>3. whole \in BOOLEAN
  OBVIOUS
<1> HIDE DEF split
<1>4. n \in Nat /\ n # 0 /\ DOMAIN clauses = 1..n /\ \A k \in 1..n : IsSegment(clauses[k])
  <2>1. CASE whole
    <3>1. clauses = <<X!Whole(s.segments)>>
      BY <2>1
    <3> HIDE DEF clauses
    <3> QED
      BY <1>2, <3>1
  <2>2. CASE ~whole
    <3>1. clauses = split
      BY <2>2
    <3> HIDE DEF clauses
    <3> QED
      BY <1>2, <3>1 DEF IsClauses, IsSequence
  <2> QED
    BY <2>1, <2>2
<1>5. whole => clauses = <<X!Whole(s.segments)>>
  OBVIOUS
<1>6. ~whole => clauses = split
  OBVIOUS
<1>7. whole <=> \A i \in DOMAIN split : split[i].verb = X!None
  OBVIOUS
<1> HIDE DEF next, whole, clauses, start
<1>8. \E f : is(f, n)
  <2> DEFINE S == {m \in 1..n : ~\E f : is(f, m)}
  <2>1. \E f : is(f, 0)
    <3>1. is([k \in 0..0 |-> start], 0)
      OBVIOUS
    <3> QED
      BY <3>1
  <2>2. ASSUME NEW m \in 1..n, NEW f, is(f, m - 1)
        PROVE  \E g : is(g, m)
    <3> DEFINE g == [k \in 0..m |-> IF k = m THEN next(f[m - 1], m) ELSE f[k]]
    <3>1. \A k \in 0..(m - 1) : f[k] = IF k = 0 THEN start ELSE next(f[k - 1], k)
      BY <2>2
    <3>2. \A k \in 0..m : g[k] = IF k = 0 THEN start ELSE next(g[k - 1], k)
      <4> SUFFICES ASSUME NEW k \in 0..m
                   PROVE  g[k] = IF k = 0 THEN start ELSE next(g[k - 1], k)
        OBVIOUS
      <4>1. k # 0 => k - 1 \in 0..m /\ k - 1 # m
        BY <1>4
      <4>2. k # 0 => g[k - 1] = f[k - 1]
        BY <4>1
      <4>3. CASE k = m
        BY <1>4, <4>2, <4>3
      <4>4. CASE k # m
        <5>1. k \in 0..(m - 1) /\ g[k] = f[k]
          BY <1>4, <4>4
        <5> QED
          BY <3>1, <4>2, <5>1
      <4> QED
        BY <4>3, <4>4
    <3>3. g = [k \in 0..m |-> g[k]]
      OBVIOUS
    <3> HIDE DEF g
    <3>4. is(g, m)
      BY <3>2, <3>3
    <3> QED
      BY <3>4
  <2> HIDE DEF is
  <2> SUFFICES ASSUME S # {}
               PROVE  FALSE
    <3>1. n \in 1..n
      BY <1>4
    <3> HIDE DEF n
    <3> QED
      BY <3>1
  <2>3. PICK m \in S : \A j \in S : m <= j
    BY <1>4, FirstPosition
  <2>4. m - 1 = 0 \/ (m - 1 \in 1..n /\ m - 1 \notin S)
    BY <1>4, <2>3
  <2> QED
    BY <2>1, <2>2, <2>3, <2>4
<1>9. is(upTo, n)
  <2> HIDE DEF is
  <2> QED
    BY <1>8
<1> HIDE DEF upTo
<1>10. upTo[0] = start /\ \A k \in 1..n : upTo[k] = next(upTo[k - 1], k)
  <2>1. \A k \in 0..n : upTo[k] = IF k = 0 THEN start ELSE next(upTo[k - 1], k)
    BY <1>9
  <2>2. 0 \in 0..n /\ \A k \in 1..n : k \in 0..n /\ k # 0
    BY <1>4
  <2> QED
    BY <2>1, <2>2
<1> HIDE DEF is
<1>11. IsProgress(start) /\ start.drafts = <<>>
  BY DEF start, X!Progress, IsProgress, IsSequence, ToSet
<1>12. \A k \in 1..n : IsProgress(upTo[k])
  <2> DEFINE S == {k \in 1..n : ~IsProgress(upTo[k])}
  <2> SUFFICES ASSUME S # {}
               PROVE  FALSE
    OBVIOUS
  <2>1. PICK k \in S : \A j \in S : k <= j
    BY <1>4, FirstPosition
  <2>2. k - 1 = 0 \/ (k - 1 \in 1..n /\ k - 1 \notin S)
    BY <1>4, <2>1
  <2>3. IsProgress(upTo[k - 1])
    BY <1>10, <1>11, <2>2
  <2>4. IsProgress(next(upTo[k - 1], k))
    BY <1>3, <1>4, <2>1, <2>3, AddedClause DEF next
  <2> QED
    BY <1>10, <2>1, <2>4
<1>13. ASSUME NEW k \in 1..n
       PROVE  /\ IsProgress(upTo[k - 1])
              /\ upTo[k - 1].drafts # <<>> => upTo[k].drafts # <<>>
              /\ (clauses[k].verb # X!None \/ whole) /\ ~X!IsHeader(clauses[k], clauses)
                   => upTo[k].drafts # <<>>
  <2>1. k - 1 = 0 \/ k - 1 \in 1..n
    BY <1>4
  <2>2. IsProgress(upTo[k - 1])
    BY <1>10, <1>11, <1>12, <2>1
  <2> DEFINE p == upTo[k - 1]
             clause == clauses[k]
  <2> HIDE DEF p, clause
  <2>3. IsProgress(p) /\ IsSegment(clause)
    BY <1>4, <2>2 DEF p, clause
  <2>4. /\ p.drafts # <<>> => X!AddClause(p, clause, clauses, whole).drafts # <<>>
        /\ (clause.verb # X!None \/ whole) /\ ~X!IsHeader(clause, clauses)
             => X!AddClause(p, clause, clauses, whole).drafts # <<>>
    BY <1>3, <2>3, AddedClause
  <2>5. upTo[k] = X!AddClause(p, clause, clauses, whole)
    BY <1>10 DEF next, p, clause
  <2> QED
    BY <2>2, <2>4, <2>5 DEF p, clause
<1>14. n \in 1..n
  BY <1>4
<1>15. ASSUME NEW i \in 1..n, upTo[i].drafts # <<>>
       PROVE  upTo[n].drafts # <<>>
  <2> DEFINE S == {k \in 1..n : k >= i /\ upTo[k].drafts = <<>>}
  <2> SUFFICES ASSUME n \in S
               PROVE  FALSE
    BY <1>4, <1>14
  <2>1. PICK k \in S : \A j \in S : k <= j
    <3>1. S # {} /\ S \subseteq 1..n
      OBVIOUS
    <3> HIDE DEF S
    <3> QED
      BY <1>4, <3>1, FirstPosition
  <2>2. k # i
    BY <1>15, <2>1
  <2>3. k - 1 \in 1..n /\ k - 1 >= i /\ k - 1 \notin S
    BY <1>4, <2>1, <2>2
  <2> QED
    BY <1>13, <2>1, <2>3
<1>16. ASSUME ~Headed(split)
       PROVE  \E k \in 1..n : /\ clauses[k].verb # X!None \/ whole
                              /\ ~X!IsHeader(clauses[k], clauses)
  <2> DEFINE requests == {k \in DOMAIN clauses : clauses[k].verb # X!None}
  <2>1. X!Cardinality(requests) = Cardinality(requests)
    BY DEF Cardinality, X!Cardinality
  <2>2. ASSUME NEW clause, X!IsHeader(clause, clauses)
        PROVE  Cardinality(requests) > 1 /\ clause.verb = "handle" /\ clause.colon
    BY <2>1, <2>2 DEF X!IsHeader
  <2>3. CASE whole
    <3>1. DOMAIN clauses = {1} /\ n = 1
      BY <1>5, <2>3
    <3>2. requests \in SUBSET {1}
      BY <3>1
    <3> HIDE DEF requests
    <3>3. IsFiniteSet({1}) /\ Cardinality({1}) = 1
      BY FS_Singleton
    <3>4. Cardinality(requests) \in Nat /\ Cardinality(requests) <= 1
      BY <3>2, <3>3, FS_Subset, FS_CardinalityType
    <3>5. ~X!IsHeader(clauses[1], clauses)
      BY <2>2, <3>4
    <3> QED
      BY <1>14, <2>3, <3>1, <3>5
  <2>4. CASE ~whole
    <3>1. requests # {} /\ requests \subseteq 1..n
      BY <1>4, <1>6, <1>7, <2>4
    <3>2. ~(Cardinality(requests) > 1) \/ \E k \in requests : ~(clauses[k].verb = "handle" /\ clauses[k].colon)
      BY <1>6, <1>16, <2>4 DEF Headed, None, X!None
    <3>3. \E k \in requests : ~X!IsHeader(clauses[k], clauses)
      <4> HIDE DEF requests
      <4> QED
        BY <2>2, <3>1, <3>2
    <3> QED
      BY <3>1, <3>3
  <2> QED
    BY <2>3, <2>4
<1>17. ~Headed(split) => upTo[n].drafts # <<>>
  BY <1>13, <1>15, <1>16
<1> QED
  BY <1>1, <1>12, <1>14, <1>17 DEF IsProgress, split

\* The requirements of a comment are at least as many as its sentences that ask for something.
LEMMA EnoughRequirements ==
  ASSUME NEW comment, IsComment(comment)
  PROVE  LET sentences == comment.sentences
             asking == {i \in DOMAIN sentences :
                          /\ X!ClassifySentence(sentences[i]).actionable
                          /\ ~Headed(X!SplitClauses(sentences[i].segments))}
         IN  Cardinality(asking) <= Len(X!ExtractRequirements(comment).requirements)
<1> DEFINE sentences == comment.sentences
           asking == {i \in DOMAIN sentences :
                        /\ X!ClassifySentence(sentences[i]).actionable
                        /\ ~Headed(X!SplitClauses(sentences[i].segments))}
           stated == [i \in DOMAIN sentences |-> X!ClassifySentence(sentences[i])]
           drafts == [i \in DOMAIN sentences |->
                        IF stated[i].actionable THEN X!SentenceDrafts(sentences[i]) ELSE <<>>]
           given == {i \in DOMAIN drafts : drafts[i] # <<>>}
           suggested == [k \in DOMAIN comment.suggestions |-> X!SuggestionDraft(comment.suggestions[k])]
           flat == X!FlattenSeq(drafts)
           asked == flat \o suggested
           removal == IF asked = <<>> THEN X!RemovalStatement(sentences, stated) ELSE 0
           kept == IF removal = 0 THEN asked
                   ELSE <<X!Draft("other", X!None, X!Whole(sentences[removal].segments).reads)>>
           requirements == [k \in DOMAIN kept |-> X!Targeted(kept[k], sentences)]
           set == X!Concluded(sentences, stated, removal, requirements)
<1>1. X!ExtractRequirements(comment) = set
  BY DEF X!ExtractRequirements, X!FromUtterances, X!FromDrafts, X!RequirementsOf, X!Asked
<1>2. /\ IsSequence(sentences) /\ Len(sentences) \in Nat /\ DOMAIN sentences = 1..Len(sentences)
      /\ \A i \in DOMAIN sentences : IsSentence(sentences[i])
      /\ DOMAIN comment.suggestions = 1..Len(comment.suggestions) /\ Len(comment.suggestions) \in Nat
  BY DEF IsComment, IsSequence
<1>3. \A i \in DOMAIN sentences : IsSequence(drafts[i])
  <2>1. IsSequence(<<>>)
    BY DEF IsSequence, ToSet
  <2> QED
    BY <1>2, <2>1, SentenceAsks
<1>4. asking \in SUBSET given
  <2> SUFFICES ASSUME NEW i \in DOMAIN sentences, stated[i].actionable,
                      ~Headed(X!SplitClauses(sentences[i].segments))
               PROVE  drafts[i] # <<>>
    OBVIOUS
  <2> QED
    BY <1>2, SentenceAsks
<1>5. IsSequence(drafts) /\ DOMAIN drafts = 1..Len(sentences)
  <2>1. DOMAIN drafts = 1..Len(sentences)
    BY <1>2
  <2> QED
    BY <1>2, <2>1 DEF IsSequence, ToSet
<1>6. IsSequence(suggested)
  BY <1>2 DEF IsSequence, ToSet
<1> HIDE DEF stated, drafts, suggested, asking
<1>7. /\ IsSequence(flat) /\ Cardinality(given) <= Len(flat)
  BY <1>2, <1>3, <1>5, FlattenedSome
<1>8. /\ Cardinality(asking) \in Nat /\ Cardinality(given) \in Nat
      /\ Cardinality(asking) <= Cardinality(given)
  <2>1. given \in SUBSET (1..Len(sentences))
    BY <1>5
  <2>2. IsFiniteSet(1..Len(sentences))
    BY <1>2, FS_Interval
  <2> HIDE DEF given
  <2>3. IsFiniteSet(given)
    BY <2>1, <2>2, FS_Subset
  <2> QED
    BY <1>4, <2>3, FS_Subset, FS_CardinalityType
<1> HIDE DEF given, flat
<1>9. /\ IsSequence(asked) /\ Len(asked) \in Nat /\ DOMAIN asked = 1..Len(asked)
      /\ Len(flat) <= Len(asked)
  <2>1. IsSequence(asked) /\ Len(asked) = Len(flat) + Len(suggested)
    BY <1>6, <1>7, SequenceJoined
  <2>2. Len(flat) \in Nat /\ Len(suggested) \in Nat
    BY <1>6, <1>7 DEF IsSequence
  <2> HIDE DEF asked
  <2> QED
    BY <2>1, <2>2 DEF IsSequence
<1>10. Cardinality(asking) <= Len(asked)
  <2> DEFINE few == Cardinality(asking)
             some == Cardinality(given)
             long == Len(flat)
             longer == Len(asked)
  <2>1. few <= some /\ some <= long /\ long <= longer /\ few \in Nat /\ some \in Nat /\ longer \in Nat
    BY <1>7, <1>8, <1>9
  <2>2. long \in Nat
    BY <1>7 DEF IsSequence
  <2> HIDE DEF few, some, long, longer
  <2>3. few <= longer
    BY <2>1, <2>2
  <2> QED
    BY <2>3 DEF few, longer
<1> HIDE DEF asked
<1>11. /\ Len(kept) \in Nat /\ DOMAIN kept = 1..Len(kept)
       /\ asked # <<>> => kept = asked
  <2>1. CASE removal = 0
    <3>1. kept = asked
      BY <2>1
    <3> HIDE DEF kept
    <3> QED
      BY <1>9, <3>1
  <2>2. CASE removal # 0
    <3>1. asked = <<>> /\ \E d : kept = <<d>>
      BY <2>2
    <3> HIDE DEF kept
    <3> QED
      BY <3>1
  <2> QED
    BY <2>1, <2>2
<1> HIDE DEF kept
<1>12. Len(requirements) = Len(kept)
  BY <1>11
<1> HIDE DEF requirements
<1>13. \/ set.requirements = requirements
       \/ requirements = <<>> /\ Len(set.requirements) = 1
  BY DEF X!Concluded, X!RequirementSet
<1> HIDE DEF set
<1>14. Cardinality(asking) <= Len(set.requirements)
  <2>1. CASE asked = <<>>
    <3>1. Cardinality(asking) = 0
      BY <1>8, <1>10, <2>1
    <3>2. Len(set.requirements) \in Nat
      BY <1>11, <1>12, <1>13
    <3> QED
      BY <3>1, <3>2
  <2>2. CASE asked # <<>>
    <3>1. Len(requirements) = Len(asked) /\ Len(asked) # 0
      BY <1>9, <1>11, <1>12, <2>2 DEF IsSequence
    <3>2. requirements # <<>>
      BY <3>1
    <3> QED
      BY <1>10, <1>13, <3>1, <3>2
  <2> QED
    BY <2>1, <2>2
<1> QED
  BY <1>1, <1>14 DEF asking

-----------------------------------------------------------------------------
(***************************************************************************)
(* Comparing a sequence with itself.                                       *)
(***************************************************************************)
\* Values made of values of lower rank only.
MadeOfLower(A, V, N, rank, step) ==
  /\ N \in Nat /\ V # {} /\ rank \in [A -> 0..N] /\ step \in [[A -> V] -> [A -> V]]
  /\ \A f \in [A -> V], g \in [A -> V], x \in A :
       (\A y \in A : rank[y] < rank[x] => f[y] = g[y]) => step[f][x] = step[g][x]

\* A function whose values are made of values of lower rank exists.
LEMMA DefinedByRank ==
  ASSUME NEW A, NEW V, NEW N, NEW rank, NEW step, MadeOfLower(A, V, N, rank, step)
  PROVE  \E f \in [A -> V] : step[f] = f
<1> DEFINE Good(k, f) == \A x \in A : rank[x] < k => f[x] = step[f][x]
           Bad == {k \in 1..(N + 1) : \A f \in [A -> V] : ~Good(k, f)}
<1> USE DEF MadeOfLower
<1>1. N \in Nat /\ rank \in [A -> 0..N] /\ step \in [[A -> V] -> [A -> V]]
  OBVIOUS
<1>2. PICK v \in V : TRUE
  OBVIOUS
<1>3. \A f \in [A -> V], g \in [A -> V], x \in A :
        (\A y \in A : rank[y] < rank[x] => f[y] = g[y]) => step[f][x] = step[g][x]
  OBVIOUS
<1> USE <1>1
<1> HIDE DEF MadeOfLower
<1>4. \E f \in [A -> V] : Good(0, f)
  <2>1. [x \in A |-> v] \in [A -> V] /\ \A x \in A : ~(rank[x] < 0)
    OBVIOUS
  <2> QED
    BY <2>1
<1>5. ASSUME NEW k \in 0..N, NEW f \in [A -> V], Good(k, f)
      PROVE  step[f] \in [A -> V] /\ Good(k + 1, step[f])
  <2> DEFINE g == step[f]
  <2>1. g \in [A -> V]
    OBVIOUS
  <2>2. \A x \in A : rank[x] < k => f[x] = g[x]
    BY <1>5
  <2>3. ASSUME NEW x \in A, rank[x] < k + 1
        PROVE  g[x] = step[g][x]
    <3>1. \A y \in A : rank[y] < rank[x] => f[y] = g[y]
      <4>1. \A y \in A : rank[y] < rank[x] => rank[y] < k
        BY <2>3
      <4> QED
        BY <2>2, <4>1
    <3>2. step[f][x] = step[g][x]
      BY <2>1, <3>1, <1>3
    <3> QED
      BY <3>2
  <2> QED
    BY <2>1, <2>3
<1> HIDE DEF Good
<1>6. Bad = {}
  <2> SUFFICES ASSUME Bad # {}
               PROVE  FALSE
    OBVIOUS
  <2>1. PICK k \in Bad : \A j \in Bad : k <= j
    <3>1. N + 1 \in Nat /\ Bad \subseteq 1..(N + 1)
      OBVIOUS
    <3> HIDE DEF Bad
    <3> QED
      BY <3>1, FirstPosition
  <2>2. k \in 1..(N + 1) /\ k - 1 \in 0..N /\ k - 1 \notin Bad
    BY <2>1
  <2>3. \E f \in [A -> V] : Good(k - 1, f)
    BY <1>4, <2>2
  <2>4. \E f \in [A -> V] : Good((k - 1) + 1, f)
    BY <1>5, <2>2, <2>3
  <2> QED
    BY <2>1, <2>2, <2>4
<1>7. PICK f \in [A -> V] : Good(N + 1, f)
  <2>1. \A k \in 1..(N + 1) : \E f \in [A -> V] : Good(k, f)
    BY <1>6
  <2>2. N + 1 \in 1..(N + 1)
    OBVIOUS
  <2> QED
    BY <2>1, <2>2
<1>8. \A x \in A : f[x] = step[f][x]
  BY <1>7 DEF Good
<1> QED
  BY <1>8

\* The greatest of some numbers is one of them.
LEMMA GreatestNumber ==
  ASSUME NEW n \in Nat, NEW S, S \subseteq 0..n, S # {}
  PROVE  D!Max(S) \in S /\ \A k \in S : k <= D!Max(S)
<1>1. CASE S = {0}
  <2>1. 0 \in S /\ \A k \in S : 0 >= k
    BY <1>1
  <2> QED
    BY <2>1 DEF D!Max
<1>2. CASE S # {0}
  <2>1. S \ {0} # {} /\ S \ {0} \subseteq 1..n
    BY <1>2
  <2>2. PICK i \in S \ {0} : \A j \in S \ {0} : i >= j
    BY <2>1, LastPosition
  <2>3. i \in S /\ \A j \in S : i >= j
    BY <2>1, <2>2
  <2>4. D!Max(S) \in S /\ \A j \in S : D!Max(S) >= j
    BY <2>3 DEF D!Max
  <2> QED
    BY <2>4
<1> QED
  BY <1>1, <1>2

\* A run of equal elements stays within the parts compared and is the longest there.
LEMMA RunsOfEqual ==
  ASSUME NEW a, NEW b, NEW p, p.ahi \in Nat, p.bhi \in Nat,
         NEW i \in Nat, i <= p.ahi, NEW j \in Nat, j <= p.bhi, a[i] = b[j]
  PROVE  /\ D!Run(a, b, i, j, p) \in Nat /\ D!Run(a, b, i, j, p) >= 1
         /\ D!Run(a, b, i, j, p) <= p.ahi - i + 1 /\ D!Run(a, b, i, j, p) <= p.bhi - j + 1
         /\ \A k \in Nat :
              /\ k <= p.ahi - i + 1 /\ k <= p.bhi - j + 1
              /\ \A d \in 0..(k - 1) : a[i + d] = b[j + d]
              => k <= D!Run(a, b, i, j, p)
<1> DEFINE room == {k \in Nat : k <= p.ahi - i + 1 /\ k <= p.bhi - j + 1}
           agree(k) == \A d \in 0..(k - 1) : a[i + d] = b[j + d]
           S == {p.ahi - i, p.bhi - j}
           lengths == {k \in 0..(D!Min(S) + 1) : agree(k)}
           x == p.ahi - i
           y == p.bhi - j
<1>1. D!Min(S) = IF x <= y THEN x ELSE y
  <2>1. x \in Int /\ y \in Int
    OBVIOUS
  <2> HIDE DEF x, y
  <2>2. \A m \in {x, y} : (\A k \in {x, y} : m <= k) <=> m = IF x <= y THEN x ELSE y
    BY <2>1
  <2> QED
    BY <2>2 DEF D!Min, x, y
<1>2. D!Min(S) \in Nat /\ \A k : k \in room <=> k \in 0..(D!Min(S) + 1)
  BY <1>1
<1> HIDE DEF S
<1>3. 1 \in 0..(D!Min(S) + 1) /\ agree(1)
  <2>1. \A d \in 0..(1 - 1) : i + d = i /\ j + d = j
    OBVIOUS
  <2> QED
    BY <1>2, <2>1
<1>4. lengths \subseteq 0..(D!Min(S) + 1) /\ lengths # {} /\ 1 \in lengths
  BY <1>3
<1>5. D!Max(lengths) \in lengths /\ \A k \in lengths : k <= D!Max(lengths)
  <2>1. D!Min(S) + 1 \in Nat
    BY <1>2
  <2> HIDE DEF lengths
  <2> QED
    BY <1>4, <2>1, GreatestNumber
<1>6. D!Run(a, b, i, j, p) = D!Max(lengths)
  BY DEF D!Run, S
<1> HIDE DEF agree
<1>7. \A k \in room : agree(k) => k \in lengths
  BY <1>2
<1>8. D!Max(lengths) \in 0..(D!Min(S) + 1) /\ 1 <= D!Max(lengths)
  BY <1>4, <1>5
<1> HIDE DEF lengths
<1>9. D!Run(a, b, i, j, p) \in room /\ 1 <= D!Run(a, b, i, j, p)
  BY <1>2, <1>6, <1>8
<1>10. \A k \in room : agree(k) => k <= D!Run(a, b, i, j, p)
  BY <1>5, <1>6, <1>7
<1> QED
  BY <1>9, <1>10 DEF agree

\* What is matched first lies within the parts, and is no longer than they are.
LEMMA BlocksWithin ==
  ASSUME NEW a, NEW b, Len(a) \in Nat, Len(b) \in Nat, NEW p \in D!Parts(a, b),
         NEW m \in D!LongestMatch(a, b, p)
  PROVE  /\ m.a \in p.alo..p.ahi /\ m.b \in p.blo..p.bhi /\ m.size \in Nat /\ m.size >= 1
         /\ m.a + m.size <= p.ahi + 1 /\ m.b + m.size <= p.bhi + 1
<1>1. /\ p.alo \in 1..(Len(a) + 1) /\ p.ahi \in 0..Len(a)
      /\ p.blo \in 1..(Len(b) + 1) /\ p.bhi \in 0..Len(b)
  BY DEF D!Parts
<1>2. m \in D!CommonRuns(a, b, p)
  BY DEF D!LongestMatch
<1>3. PICK q \in (p.alo..p.ahi) \X (p.blo..p.bhi) :
        a[q[1]] = b[q[2]] /\ m = [a |-> q[1], b |-> q[2], size |-> D!Run(a, b, q[1], q[2], p)]
  BY <1>2 DEF D!CommonRuns
<1>4. /\ m.a \in p.alo..p.ahi /\ m.b \in p.blo..p.bhi /\ a[m.a] = b[m.b]
      /\ m.size = D!Run(a, b, m.a, m.b, p)
  BY <1>3
<1>5. /\ m.a \in Nat /\ m.b \in Nat /\ m.a <= p.ahi /\ m.b <= p.bhi
      /\ p.ahi \in Nat /\ p.bhi \in Nat
  <2>1. \A n \in Nat : \A lo \in 1..(n + 1), hi \in 0..n : \A i \in lo..hi :
          i \in Nat /\ i <= hi /\ hi \in Nat
    OBVIOUS
  <2> QED
    BY <1>1, <1>4, <2>1
<1>6. /\ m.size \in Nat /\ m.size <= p.ahi - m.a + 1 /\ m.size <= p.bhi - m.b + 1
      /\ m.size >= 1
  <2> DEFINE size == D!Run(a, b, m.a, m.b, p)
  <2>1. /\ size \in Nat /\ size <= p.ahi - m.a + 1 /\ size <= p.bhi - m.b + 1 /\ size >= 1
    <3>1. a[m.a] = b[m.b]
      BY <1>4
    <3> QED
      BY <1>5, <3>1, RunsOfEqual
  <2> HIDE DEF size
  <2> QED
    BY <1>4, <2>1 DEF size
<1>7. \A i, hi, size \in Nat : size <= hi - i + 1 => i + size <= hi + 1
  OBVIOUS
<1>8. m.a + m.size <= p.ahi + 1 /\ m.b + m.size <= p.bhi + 1
  BY <1>5, <1>6, <1>7
<1> QED
  BY <1>4, <1>6, <1>8

\* Around a block within lo..hi there is lo..i-1 before it and i+size..hi after it.
LEMMA AroundABlock ==
  ASSUME NEW n \in Nat, NEW lo \in 1..(n + 1), NEW hi \in 0..n, NEW i \in lo..hi,
         NEW size \in Nat, size >= 1, i + size <= hi + 1
  PROVE  /\ i - 1 \in 0..n /\ i + size \in 1..(n + 1)
         /\ \A d \in 0..(size - 1) : i + d \in 1..n
         /\ i - 1 - lo + n + 1 < hi - lo + n + 1
         /\ hi - (i + size) + n + 1 < hi - lo + n + 1
  OBVIOUS

\* The pairs a comparison of parts leaves equal: those of the block matched first and of
\* what is on either side of it.
PairsOf(m) == {<<m.a + d, m.b + d>> : d \in 0..(m.size - 1)}

Unfolded(a, b, f, p) ==
  UNION {PairsOf(m) \cup f[D!Before(p, m)] \cup f[D!After(p, m)] : m \in D!LongestMatch(a, b, p)}

LEMMA SidesOfABlock ==
  ASSUME NEW a, NEW b, NEW p \in D!Parts(a, b), NEW m,
         m.a - 1 \in 0..Len(a), m.a + m.size \in 1..(Len(a) + 1),
         m.b - 1 \in 0..Len(b), m.b + m.size \in 1..(Len(b) + 1)
  PROVE  /\ D!Before(p, m) \in D!Parts(a, b) /\ D!After(p, m) \in D!Parts(a, b)
         /\ D!Before(p, m).alo = p.alo /\ D!Before(p, m).ahi = m.a - 1
         /\ D!After(p, m).alo = m.a + m.size /\ D!After(p, m).ahi = p.ahi
  BY DEF D!Before, D!After, D!Parts

LEMMA MatchingUnfolds ==
  ASSUME NEW a, NEW b, Len(a) \in Nat, Len(b) \in Nat
  PROVE  \E f : /\ D!Matching(a, b) = f[D!Whole(a, b)]
                /\ \A p \in D!Parts(a, b) : f[p] = Unfolded(a, b, f, p)
<1> DEFINE A == D!Parts(a, b)
           V == SUBSET ((1..Len(a)) \X (1..Len(b)))
           N == 2 * Len(a)
           rank == [p \in A |-> p.ahi - p.alo + Len(a) + 1]
           step == [f \in [A -> V] |-> [p \in A |-> Unfolded(a, b, f, p)]]
           Unfolds(f) == f = [p \in A |-> Unfolded(a, b, f, p)]
<1>1. ASSUME NEW p \in A
      PROVE  /\ p.alo \in 1..(Len(a) + 1) /\ p.ahi \in 0..Len(a)
             /\ p.blo \in 1..(Len(b) + 1) /\ p.bhi \in 0..Len(b)
  BY <1>1 DEF D!Parts
<1>2. N \in Nat /\ rank \in [A -> 0..N]
  <2>1. \A p \in A : p.ahi - p.alo + Len(a) + 1 \in 0..N
    BY <1>1
  <2> QED
    BY <2>1
<1>3. ASSUME NEW p \in A, NEW m \in D!LongestMatch(a, b, p)
      PROVE  /\ D!Before(p, m) \in A /\ rank[D!Before(p, m)] < rank[p]
             /\ D!After(p, m) \in A /\ rank[D!After(p, m)] < rank[p]
             /\ PairsOf(m) \in V
  <2>1. /\ m.a \in p.alo..p.ahi /\ m.b \in p.blo..p.bhi /\ m.size \in Nat /\ m.size >= 1
        /\ m.a + m.size <= p.ahi + 1 /\ m.b + m.size <= p.bhi + 1
    BY <1>3, BlocksWithin
  <2> DEFINE before == D!Before(p, m)
             after == D!After(p, m)
  <2>2. /\ m.a - 1 \in 0..Len(a) /\ m.a + m.size \in 1..(Len(a) + 1)
        /\ \A d \in 0..(m.size - 1) : m.a + d \in 1..Len(a)
        /\ m.a - 1 - p.alo + Len(a) + 1 < p.ahi - p.alo + Len(a) + 1
        /\ p.ahi - (m.a + m.size) + Len(a) + 1 < p.ahi - p.alo + Len(a) + 1
    BY <1>1, <2>1, AroundABlock
  <2>3. /\ m.b - 1 \in 0..Len(b) /\ m.b + m.size \in 1..(Len(b) + 1)
        /\ \A d \in 0..(m.size - 1) : m.b + d \in 1..Len(b)
    BY <1>1, <2>1, AroundABlock
  <2>4. /\ before \in A /\ before.ahi = m.a - 1 /\ before.alo = p.alo
        /\ after \in A /\ after.alo = m.a + m.size /\ after.ahi = p.ahi
    BY <2>2, <2>3, SidesOfABlock
  <2>5. PairsOf(m) \in V
    BY <2>2, <2>3 DEF PairsOf
  <2> HIDE DEF A, before, after
  <2>6. rank[before] < rank[p] /\ rank[after] < rank[p]
    <3>1. /\ rank[before] = m.a - 1 - p.alo + Len(a) + 1
          /\ rank[after] = p.ahi - (m.a + m.size) + Len(a) + 1
          /\ rank[p] = p.ahi - p.alo + Len(a) + 1
      BY <2>4
    <3> HIDE DEF rank
    <3> QED
      BY <2>2, <3>1
  <2> QED
    BY <2>4, <2>5, <2>6 DEF before, after
<1> HIDE DEF A, V, rank
<1>4. ASSUME NEW f \in [A -> V], NEW p \in A
      PROVE  Unfolded(a, b, f, p) \in V
  <2>1. \A m \in D!LongestMatch(a, b, p) :
          PairsOf(m) \in V /\ f[D!Before(p, m)] \in V /\ f[D!After(p, m)] \in V
    BY <1>3
  <2> QED
    BY <2>1 DEF Unfolded, V
<1>5. step \in [[A -> V] -> [A -> V]]
  BY <1>4
<1>6. ASSUME NEW f \in [A -> V], NEW g \in [A -> V], NEW x \in A,
             \A y \in A : rank[y] < rank[x] => f[y] = g[y]
      PROVE  step[f][x] = step[g][x]
  <2>1. \A m \in D!LongestMatch(a, b, x) :
          f[D!Before(x, m)] = g[D!Before(x, m)] /\ f[D!After(x, m)] = g[D!After(x, m)]
    BY <1>3, <1>6
  <2>2. Unfolded(a, b, f, x) = Unfolded(a, b, g, x)
    BY <2>1 DEF Unfolded
  <2> QED
    BY <2>2
<1>7. {} \in V
  BY DEF V
<1> HIDE DEF step
<1>8. PICK f \in [A -> V] : step[f] = f
  <2> HIDE DEF N
  <2>1. MadeOfLower(A, V, N, rank, step)
    BY <1>2, <1>5, <1>6, <1>7 DEF MadeOfLower
  <2> QED
    BY <2>1, DefinedByRank
<1>9. Unfolds(f)
  BY <1>8 DEF step
<1> DEFINE g == CHOOSE h : Unfolds(h)
<1>10. Unfolds(g)
  <2> HIDE DEF Unfolds
  <2> QED
    BY <1>9
<1>11. D!Matching(a, b) = g[D!Whole(a, b)]
  BY DEF D!Matching, Unfolded, PairsOf, A
<1> HIDE DEF g
<1>12. \A p \in A : g[p] = Unfolded(a, b, g, p)
  BY <1>10
<1> QED
  BY <1>11, <1>12 DEF A

\* Nothing is matched in a part that is empty.
LEMMA NothingInAnEmptyPart ==
  ASSUME NEW a, NEW b, NEW f, NEW p, p.alo..p.ahi = {}
  PROVE  Unfolded(a, b, f, p) = {}
<1>1. D!CommonRuns(a, b, p) = {}
  BY DEF D!CommonRuns
<1>2. D!LongestMatch(a, b, p) = {}
  BY <1>1 DEF D!LongestMatch
<1> QED
  BY <1>2 DEF Unfolded

\* The block a sequence shares with itself first is the whole of it.
LEMMA WholeIsFirst ==
  ASSUME NEW a, Len(a) \in Nat, Len(a) >= 1
  PROVE  D!LongestMatch(a, a, D!Whole(a, a)) = {[a |-> 1, b |-> 1, size |-> Len(a)]}
<1> DEFINE n == Len(a)
           p == D!Whole(a, a)
           top == [a |-> 1, b |-> 1, size |-> n]
           runs == D!CommonRuns(a, a, p)
<1>1. p.alo = 1 /\ p.ahi = n /\ p.blo = 1 /\ p.bhi = n
  BY DEF D!Whole
<1>2. p \in D!Parts(a, a)
  BY DEF D!Whole, D!Parts
<1> HIDE DEF p
<1>3. D!Run(a, a, 1, 1, p) = n
  <2>1. /\ D!Run(a, a, 1, 1, p) \in Nat
        /\ D!Run(a, a, 1, 1, p) <= p.ahi - 1 + 1
        /\ \A k \in Nat :
             /\ k <= p.ahi - 1 + 1 /\ k <= p.bhi - 1 + 1
             /\ \A d \in 0..(k - 1) : a[1 + d] = a[1 + d]
             => k <= D!Run(a, a, 1, 1, p)
    BY <1>1, RunsOfEqual
  <2>2. n <= D!Run(a, a, 1, 1, p)
    BY <1>1, <2>1
  <2> QED
    BY <1>1, <2>1, <2>2
<1>4. top \in runs
  <2> DEFINE q == <<1, 1>>
  <2>1. q \in (p.alo..p.ahi) \X (p.blo..p.bhi) /\ a[q[1]] = a[q[2]]
    BY <1>1
  <2>2. top = [a |-> q[1], b |-> q[2], size |-> D!Run(a, a, q[1], q[2], p)]
    BY <1>3
  <2> QED
    BY <2>1, <2>2 DEF D!CommonRuns
<1>5. ASSUME NEW m \in runs
      PROVE  /\ m = [a |-> m.a, b |-> m.b, size |-> m.size]
             /\ m.a \in 1..n /\ m.b \in 1..n /\ m.size \in Nat
             /\ m.size <= n - m.a + 1 /\ m.size <= n - m.b + 1
  <2>1. PICK q \in (p.alo..p.ahi) \X (p.blo..p.bhi) :
          a[q[1]] = a[q[2]] /\ m = [a |-> q[1], b |-> q[2], size |-> D!Run(a, a, q[1], q[2], p)]
    BY DEF D!CommonRuns
  <2>2. /\ m = [a |-> m.a, b |-> m.b, size |-> m.size]
        /\ m.a \in 1..n /\ m.b \in 1..n /\ a[m.a] = a[m.b]
        /\ m.size = D!Run(a, a, m.a, m.b, p)
    BY <1>1, <2>1
  <2>3. /\ m.a \in Nat /\ m.b \in Nat /\ m.a <= p.ahi /\ m.b <= p.bhi
        /\ p.ahi \in Nat /\ p.bhi \in Nat
    BY <1>1, <2>2
  <2>4. m.size \in Nat /\ m.size <= p.ahi - m.a + 1 /\ m.size <= p.bhi - m.b + 1
    BY <2>2, <2>3, RunsOfEqual
  <2> QED
    BY <1>1, <2>2, <2>4
<1> HIDE DEF runs
<1>6. \A i, j \in 1..n, size \in Nat :
        size <= n - i + 1 /\ size <= n - j + 1
        => n > size \/ (n = size /\ i = 1 /\ j = 1)
  OBVIOUS
<1>7. \A m \in runs : D!ComesFirst(top, m)
  <2> TAKE m \in runs
  <2>1. n > m.size \/ (n = m.size /\ m.a = 1 /\ m.b = 1)
    BY <1>5, <1>6
  <2> QED
    BY <2>1 DEF D!ComesFirst
<1>8. ASSUME NEW m \in runs, D!ComesFirst(m, top)
      PROVE  m = top
  <2>1. n > m.size \/ (n = m.size /\ m.a = 1 /\ m.b = 1)
    BY <1>5, <1>6
  <2>2. m.size \in Nat /\ m.size >= n
    BY <1>5, <1>8 DEF D!ComesFirst
  <2>3. n = m.size /\ m.a = 1 /\ m.b = 1
    BY <2>1, <2>2
  <2> QED
    BY <1>5, <2>3
<1>9. D!LongestMatch(a, a, p) = {m \in runs : \A o \in runs : D!ComesFirst(m, o)}
  BY DEF D!LongestMatch, runs
<1> HIDE DEF top
<1>10. D!LongestMatch(a, a, p) = {top}
  BY <1>4, <1>7, <1>8, <1>9
<1> QED
  BY <1>10 DEF p, top

\* A sequence compared with itself is equal everywhere.
LEMMA SelfMatching ==
  ASSUME NEW a, Len(a) \in Nat
  PROVE  D!Matching(a, a) = {<<i, i>> : i \in 1..Len(a)}
<1> DEFINE n == Len(a)
           p == D!Whole(a, a)
           top == [a |-> 1, b |-> 1, size |-> n]
<1>1. PICK f : /\ D!Matching(a, a) = f[p]
               /\ \A q \in D!Parts(a, a) : f[q] = Unfolded(a, a, f, q)
  BY MatchingUnfolds
<1>2. p \in D!Parts(a, a)
  BY DEF D!Whole, D!Parts
<1>3. D!Matching(a, a) = Unfolded(a, a, f, p)
  BY <1>1, <1>2
<1>4. CASE n = 0
  <2>1. p.alo..p.ahi = {}
    BY <1>4 DEF D!Whole
  <2>2. Unfolded(a, a, f, p) = {}
    BY <2>1, NothingInAnEmptyPart
  <2> QED
    BY <1>3, <1>4, <2>2
<1>5. CASE n >= 1
  <2>1. D!LongestMatch(a, a, p) = {top}
    BY <1>5, WholeIsFirst
  <2> DEFINE before == D!Before(p, top)
             after == D!After(p, top)
  <2>2. /\ before \in D!Parts(a, a) /\ before.alo = 1 /\ before.ahi = 0
        /\ after \in D!Parts(a, a) /\ after.alo = n + 1 /\ after.ahi = n
    <3>1. /\ top.a - 1 = 0 /\ top.b - 1 = 0 /\ top.a + top.size = n + 1
          /\ top.b + top.size = n + 1 /\ p.alo = 1 /\ p.ahi = n
      BY DEF D!Whole
    <3> HIDE DEF top, p
    <3> QED
      BY <1>2, <1>5, <3>1, SidesOfABlock
  <2>3. before.alo..before.ahi = {} /\ after.alo..after.ahi = {}
    BY <2>2
  <2> HIDE DEF before, after
  <2>4. f[before] = {} /\ f[after] = {}
    BY <1>1, <2>2, <2>3, NothingInAnEmptyPart
  <2>5. Unfolded(a, a, f, p) = PairsOf(top) \cup f[before] \cup f[after]
    <3> HIDE DEF top
    <3> QED
      BY <2>1 DEF Unfolded, before, after
  <2>6. PairsOf(top) = {<<1 + d, 1 + d>> : d \in 0..(n - 1)}
    BY DEF PairsOf
  <2>7. {<<1 + d, 1 + d>> : d \in 0..(n - 1)} = {<<i, i>> : i \in 1..n}
    <3>1. \A d \in 0..(n - 1) : 1 + d \in 1..n
      OBVIOUS
    <3>2. \A i \in 1..n : i - 1 \in 0..(n - 1) /\ i = 1 + (i - 1)
      OBVIOUS
    <3> QED
      BY <3>1, <3>2
  <2> HIDE DEF n, top
  <2> QED
    BY <1>3, <2>4, <2>5, <2>6, <2>7 DEF n
<1> QED
  BY <1>4, <1>5

\* so every line of a text is where it was in the same text.
LEMMA SelfMapping ==
  ASSUME NEW a, Len(a) \in Nat, NEW i
  PROVE  /\ i \in 1..Len(a) => D!LineMapping(a, a, i) = i
         /\ i \notin 1..Len(a) => D!LineMapping(a, a, i) = 0
<1> DEFINE to == {q[2] : q \in {r \in D!Matching(a, a) : r[1] = i}}
<1>1. to = {j \in 1..Len(a) : j = i}
  <2>1. D!Matching(a, a) = {<<j, j>> : j \in 1..Len(a)}
    BY SelfMatching
  <2>2. \A j \in 1..Len(a) : j = i => <<j, j>> \in D!Matching(a, a) /\ <<j, j>>[2] \in to
    BY <2>1
  <2>3. \A x \in to : x \in 1..Len(a) /\ x = i
    BY <2>1
  <2> QED
    BY <2>2, <2>3
<1>2. D!LineMapping(a, a, i) = IF to = {} THEN 0 ELSE D!Min(to)
  BY DEF D!LineMapping
<1> HIDE DEF to
<1>3. CASE i \in 1..Len(a)
  <2>1. to = {i} /\ to # {} /\ \A k \in {i} : i <= k
    BY <1>1, <1>3
  <2>2. D!Min({i}) = i
    <3>1. \A x \in {i} : x = i
      OBVIOUS
    <3>2. \E x \in {i} : \A k \in {i} : x <= k
      BY <2>1
    <3> QED
      BY <3>1, <3>2 DEF D!Min
  <2> QED
    BY <1>2, <1>3, <2>1, <2>2
<1>4. CASE i \notin 1..Len(a)
  <2>1. to = {}
    BY <1>1, <1>4
  <2> QED
    BY <1>2, <1>4, <2>1
<1> QED
  BY <1>3, <1>4
=============================================================================
