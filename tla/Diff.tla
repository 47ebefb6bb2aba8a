-------------------------------- MODULE Diff --------------------------------
(***************************************************************************)
(* Comparing two sequences the way Python's difflib does (diff/textual.py): *)
(* the longest common block first, the earliest of equal length, then the  *)
(* rest on either side of it.                                              *)
(***************************************************************************)
EXTENDS Integers, FiniteSets, Sequences, SequencesExt

\* A part of a and a part of b: a[alo..ahi] and b[blo..bhi].
Parts(a, b) ==
  [alo : 1..(Len(a) + 1), ahi : 0..Len(a), blo : 1..(Len(b) + 1), bhi : 0..Len(b)]

Whole(a, b) == [alo |-> 1, ahi |-> Len(a), blo |-> 1, bhi |-> Len(b)]

\* How many elements agree from a[i] and b[j] on, inside the parts.
Run(a, b, i, j, p) ==
  LET lengths == {k \in 0..(Min({p.ahi - i, p.bhi - j}) + 1) :
                    \A d \in 0..(k - 1) : a[i + d] = b[j + d]}
  IN  Max(lengths)

CommonRuns(a, b, p) ==
  {[a |-> q[1], b |-> q[2], size |-> Run(a, b, q[1], q[2], p)] :
     q \in {x \in (p.alo..p.ahi) \X (p.blo..p.bhi) : a[x[1]] = b[x[2]]}}

\* A longer run comes first, then an earlier one.
ComesFirst(m, n) ==
  \/ m.size > n.size
  \/ m.size = n.size /\ (m.a < n.a \/ (m.a = n.a /\ m.b <= n.b))

\* The block matched first; {} when none.
LongestMatch(a, b, p) ==
  LET runs == CommonRuns(a, b, p)
  IN  {m \in runs : \A n \in runs : ComesFirst(m, n)}

\* What is left on either side of a block.
Before(p, m) == [p EXCEPT !.ahi = m.a - 1, !.bhi = m.b - 1]
After(p, m) == [p EXCEPT !.alo = m.a + m.size, !.blo = m.b + m.size]

\* The pairs of positions the comparison leaves equal.
Matching(a, b) ==
  LET matched[p \in Parts(a, b)] ==
        UNION {{<<m.a + d, m.b + d>> : d \in 0..(m.size - 1)}
                 \cup matched[Before(p, m)] \cup matched[After(p, m)] :
               m \in LongestMatch(a, b, p)}
  IN  matched[Whole(a, b)]

\* Where line i of a is in b, 0 when the comparison does not keep it.
LineMapping(a, b, i) ==
  LET to == {p[2] : p \in {q \in Matching(a, b) : q[1] = i}}
  IN  IF to = {} THEN 0 ELSE Min(to)

\* Neighbours among matched positions with something between them.
Gaps(kept) ==
  {g \in kept \X kept :
     /\ g[1][1] < g[2][1]
     /\ \A r \in kept : r[1] <= g[1][1] \/ g[2][1] <= r[1]
     /\ g[2][1] > g[1][1] + 1 \/ g[2][2] > g[1][2] + 1}

\* The regions between matched positions: lines from+1..to of a were replaced.
Changes(a, b) ==
  {[from |-> g[1][1], to |-> g[2][1] - 1, inserted |-> g[2][2] - 1 - g[1][2]] :
     g \in Gaps(Matching(a, b) \cup {<<0, 0>>, <<Len(a) + 1, Len(b) + 1>>})}

\* Whether a change touches lines first..last; an insertion touches the lines
\* on both its sides.
Touches(change, first, last) ==
  IF change.from = change.to THEN first - 1 <= change.from /\ change.from <= last
  ELSE change.from < last /\ change.to >= first

\* Twice the matched elements over all of them, in hundredths.
Similarity(a, b) ==
  IF Len(a) + Len(b) = 0 THEN 100
  ELSE (200 * Cardinality(Matching(a, b))) \div (Len(a) + Len(b))
=============================================================================
