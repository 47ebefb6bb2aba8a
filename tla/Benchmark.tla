----------------------------- MODULE Benchmark -----------------------------
(***************************************************************************)
(* The life of the benchmark: cases are collected, labelled, frozen,       *)
(* evaluated, relabelled and scored again (benchmark/, cli_benchmark.py).  *)
(*                                                                         *)
(* Versions are numbered.  Each has a directory of controlled test cases   *)
(* and one of real-world cases; the test cases of a version are dev cases  *)
(* of later ones.  A command may be interrupted between two files it       *)
(* writes, and people edit the files by hand as well.  A digest is modelled*)
(* as what is digested.                                                    *)
(***************************************************************************)
EXTENDS Integers, FiniteSets

CONSTANTS
  Last,         \* the newest version
  Candidates,   \* mined review threads: [repo, spelled, pull, thread], see Collect
  Labels,       \* what an annotator may say of a case: [include, verdict, count]
  MaxPerPull,   \* --max-per-pull
  Starts,       \* data sets to begin with
  MaxSteps      \* bound on the number of commands and edits

ASSUME BenchmarkAssumption ==
  Last \in Nat \ {0} /\ MaxPerPull \in Nat \ {0} /\ MaxSteps \in Nat

Versions == 1..Last
Splits == {"dev", "test"}

\* No pull request, as it was spelled, has cases in two versions.
PullsApart(collected) ==
  \A v, w \in Versions : \A c \in DOMAIN collected[v], d \in DOMAIN collected[w] :
    v # w /\ c.repo = d.repo /\ c.pull = d.pull => c.spelled # d.spelled

\* A case is a mined thread, unlike the controlled ones below; its gold label is kept beside it.
IsThread(c) == DOMAIN c = {"repo", "spelled", "pull", "thread"}
Files == [split : Splits, text : {"as collected", "edited"}]

ASSUME CandidatesAssumption == \A c \in Candidates : IsThread(c)

ASSUME StartsAssumption ==
  \A s \in Starts :
    /\ DOMAIN s.cases = Versions /\ DOMAIN s.gold = Versions /\ PullsApart(s.cases)
    /\ \A v \in Versions :
         /\ \A c \in DOMAIN s.cases[v] : IsThread(c) /\ s.cases[v][c] \in Files
         /\ DOMAIN s.gold[v] \subseteq DOMAIN s.cases[v]

VARIABLES
  fixtures,   \* per version, the controlled test case: <<>> (no directory) or <<its verdict>>
  cases,      \* per version, the collected candidates: [split, text]
  gold,       \* per version, the gold label of those that have one
  manifest,   \* per version, <<>> or <<what benchmark-freeze wrote>>
  reports,    \* what eval-benchmark wrote
  steps

vars == <<fixtures, cases, gold, manifest, reports, steps>>

\* The files of `old`, with those of `new` written over them.
Over(new, old) ==
  [x \in DOMAIN new \cup DOMAIN old |-> IF x \in DOMAIN new THEN new[x] ELSE old[x]]

Step == steps < MaxSteps /\ steps' = steps + 1

-----------------------------------------------------------------------------
(***************************************************************************)
(* Collecting.  A repository is named as whoever mined it spelled it; that *)
(* GitHub does not mind the case of letters is told apart by `repo`.       *)
(***************************************************************************)
Pulls(v) == {[spelled |-> c.spelled, pull |-> c.pull] : c \in DOMAIN cases[v]}

\* Faulty variant: only the earlier versions are looked at.
UsedByEarlier(v) == UNION {Pulls(w) : w \in {u \in Versions : u < v}}
UsedPulls(v) == UNION {Pulls(w) : w \in Versions \ {v}}

PerPull(v, c) == Cardinality({d \in DOMAIN cases[v] : d.spelled = c.spelled /\ d.pull = c.pull})

\* collect writes one case; its split depends on the case and a seed alone.
Collect(v, c, split) ==
  /\ Step
  /\ c \notin DOMAIN cases[v]
  /\ [spelled |-> c.spelled, pull |-> c.pull] \notin UsedPulls(v)
  /\ PerPull(v, c) < MaxPerPull
  /\ LET collected == [d \in {c} |-> [split |-> split, text |-> "as collected"]]
     IN  cases' = [cases EXCEPT ![v] = Over(collected, @)]
  /\ UNCHANGED <<fixtures, gold, manifest, reports>>

-----------------------------------------------------------------------------
(***************************************************************************)
(* Labelling.  build-gold makes each case's gold label of what one or two  *)
(* annotation files say of it, and of the adjudicator's decision when they *)
(* differ; it stops before it writes when a decision is missing or a case  *)
(* is unknown.                                                             *)
(***************************************************************************)
Gold(label, source, annotators, agreed) ==
  [label |-> label, source |-> source, annotators |-> annotators, agreed |-> agreed]

\* disagreement_fields finds none.
Agree(a, b) ==
  /\ a.include = b.include
  /\ a.include => a.verdict = b.verdict /\ a.count = b.count

DoubleGold(a, b, decision) ==
  IF Agree(a, b) THEN Gold(a, "human", 2, TRUE) ELSE Gold(decision, "human", 2, FALSE)

\* A human label is never replaced by a model label.
Writes(old, new) == ~(new.source = "model" /\ old.source = "human")

\* Labels are written one by one; `written` are those before an interruption, or all.
WriteGold(v, written) ==
  /\ Step
  /\ \A c \in DOMAIN written \cap DOMAIN gold[v] : Writes(gold[v][c], written[c])
  /\ gold' = [gold EXCEPT ![v] = Over(written, @)]
  /\ UNCHANGED <<fixtures, cases, manifest, reports>>

BuildSingleGold(v, some) ==
  \E source \in {"human", "model"} :
    \E written \in [some -> {Gold(a, source, 1, TRUE) : a \in Labels}] : WriteGold(v, written)

BuildDoubleGold(v, some) ==
  \E written \in [some -> {DoubleGold(a, b, decision) : a, b, decision \in Labels}] :
    WriteGold(v, written)

-----------------------------------------------------------------------------
(***************************************************************************)
(* Freezing.                                                               *)
(***************************************************************************)
TestCases(v) == {c \in DOMAIN cases[v] : cases[v][c].split = "test"}

\* Faulty variant: the labels are left out of the digest.
DigestOfCases(v, some) == {[case |-> c, file |-> cases[v][c]] : c \in some}
Digest(v, some) == {[case |-> c, file |-> cases[v][c], gold |-> gold[v][c]] : c \in some}

WithoutGold(v) == TestCases(v) \ DOMAIN gold[v]

Named(name, content) == [name |-> name, digest |-> content]

TestSets(v) == IF fixtures[v] = <<>> THEN {} ELSE {Named("controlled", fixtures[v])}

FrozenManifest(v) ==
  [testSets |-> TestSets(v), realWorldTest |-> TestCases(v),
   realWorldDigest |-> Digest(v, TestCases(v))]

-----------------------------------------------------------------------------
(***************************************************************************)
(* Evaluating.  The labelled and included cases of a version, as records   *)
(* [set, case, expected]; a controlled test set has one case here.         *)
(***************************************************************************)
Controlled(v, split) ==
  {[source |-> "controlled", from |-> w, case |-> [controlled |-> w], expected |-> fixtures[w][1]] :
     w \in {u \in 1..v : fixtures[u] # <<>> /\ (split = "test" <=> u = v)}}

SplitIn(v, w, c) == IF w < v THEN "dev" ELSE cases[w][c].split

RealWorld(v, split) ==
  UNION {{[source |-> "real_world", from |-> w, case |-> c, expected |-> gold[w][c].label.verdict] :
            c \in {d \in DOMAIN gold[w] : gold[w][d].label.include /\ SplitIn(v, w, d) = split}} :
           w \in 1..v}

IterBenchmark(v, split) == Controlled(v, split) \cup RealWorld(v, split)

CasesOf(records) == {r.case : r \in records}

\* The report names each set it used with a digest: of a real-world one, of its included cases.
SplitHashes(records) ==
  LET real == {r \in records : r.source = "real_world"}
      included(w) == CasesOf({r \in real : r.from = w})
  IN  {Named("controlled", fixtures[r.from]) : r \in records \ real}
      \cup {Named("real-world", Digest(r.from, included(r.from))) : r \in real}

(***************************************************************************)
(* A manifest also remembers, for the properties only, what it froze.      *)
(***************************************************************************)
Snapshot(v) ==
  [records |-> IterBenchmark(v, "test"), controlled |-> fixtures[v],
   realWorld |-> Digest(v, TestCases(v))]

\* benchmark-freeze; a manifest that exists is overwritten.
Freeze(v) ==
  /\ Step
  /\ WithoutGold(v) = {}
  /\ manifest' = [manifest EXCEPT ![v] = <<FrozenManifest(v), Snapshot(v)>>]
  /\ UNCHANGED <<fixtures, cases, gold, reports>>

\* eval-benchmark, for the test split with --final-test-run; it does not call verify.
Evaluate(v, split) ==
  /\ Step
  /\ manifest[v] # <<>>
  /\ LET records == IterBenchmark(v, split)
     IN  reports' = reports \cup
           {[version |-> v, split |-> split, records |-> records, hashes |-> SplitHashes(records)]}
  /\ UNCHANGED <<fixtures, cases, gold, manifest>>

\* verify: what it finds changed.  It freezes again, and so raises when a label is missing.
VerifyRaises(v) == WithoutGold(v) # {}

Problems(v) ==
  LET frozen == manifest[v][1]
  IN  {t.name : t \in frozen.testSets \ TestSets(v)}
      \cup (IF TestCases(v) # frozen.realWorldTest THEN {"case list"}
            ELSE IF Digest(v, TestCases(v)) # frozen.realWorldDigest THEN {"cases"} ELSE {})

-----------------------------------------------------------------------------
(***************************************************************************)
(* rescore-report: the records of a report with the labels version w gives *)
(* its real-world cases now.                                               *)
(***************************************************************************)
\* Faulty variant: only the cases that are included now are looked up.
IncludedNow(w) == [c \in {d \in DOMAIN gold[w] : gold[w][d].label.include} |-> gold[w][c].label]
CurrentLabels(w) == [c \in DOMAIN gold[w] |-> gold[w][c].label]

Rescore(report, w) ==
  LET current == CurrentLabels(w)
      looked == {r \in report.records : r.source = "real_world" /\ r.case \in DOMAIN current}
      excluded == {r \in looked : ~current[r.case].include}
      relabelled == {[r EXCEPT !.expected = current[r.case].verdict] : r \in looked \ excluded}
  IN  [kept |-> report.records \ excluded,
       current |-> (report.records \ looked) \cup relabelled,
       excluded |-> CasesOf(excluded),
       unseen |-> {c \in DOMAIN current : current[c].include} \ CasesOf(report.records),
       changed |-> CasesOf(relabelled \ report.records)]

-----------------------------------------------------------------------------
(***************************************************************************)
(* What people do to the files by hand.                                    *)
(***************************************************************************)
EditControlled(v, content) ==
  /\ Step
  /\ fixtures[v] # content
  /\ fixtures' = [fixtures EXCEPT ![v] = content]
  /\ UNCHANGED <<cases, gold, manifest, reports>>

EditCase(v, c) ==
  /\ Step
  /\ cases[v][c].text = "as collected"
  /\ cases' = [cases EXCEPT ![v][c].text = "edited"]
  /\ UNCHANGED <<fixtures, gold, manifest, reports>>

Without(f, c) == [d \in DOMAIN f \ {c} |-> f[d]]

RemoveCase(v, c) ==
  /\ Step
  /\ cases' = [cases EXCEPT ![v] = Without(@, c)]
  /\ gold' = [gold EXCEPT ![v] = Without(@, c)]
  /\ UNCHANGED <<fixtures, manifest, reports>>

-----------------------------------------------------------------------------
Init ==
  \E s \in Starts :
    /\ fixtures = s.fixtures /\ cases = s.cases /\ gold = s.gold
    /\ manifest = [v \in Versions |-> <<>>]
    /\ reports = {}
    /\ steps = 0

Next ==
  \E v \in Versions :
    \/ \E c \in Candidates, split \in Splits : Collect(v, c, split)
    \/ \E some \in SUBSET DOMAIN cases[v] : BuildSingleGold(v, some) \/ BuildDoubleGold(v, some)
    \/ Freeze(v)
    \/ \E split \in Splits : Evaluate(v, split)
    \/ \E content \in {<<>>} \cup {<<l.verdict>> : l \in {k \in Labels : k.include}} :
         EditControlled(v, content)
    \/ \E c \in DOMAIN cases[v] : EditCase(v, c) \/ RemoveCase(v, c)

Spec == Init /\ [][Next]_vars

-----------------------------------------------------------------------------
\* A test split that verify finds unchanged is the one that was frozen, case by case and label by
\* label, but for a test set whose directory did not exist then: verify only looks at those it
\* knows.  And a test report that names the digests of a manifest scored what was frozen.
FrozenIsFrozen ==
  \A v \in {w \in Versions : manifest[w] # <<>>} :
    LET frozen == manifest[v][2]
    IN  /\ ~VerifyRaises(v) /\ Problems(v) = {} =>
             /\ Snapshot(v).realWorld = frozen.realWorld
             /\ Snapshot(v).records = frozen.records \/ frozen.controlled = <<>>
        /\ \A r \in reports :
             /\ r.version = v /\ r.split = "test"
             /\ r.hashes = manifest[v][1].testSets \cup
                             (IF manifest[v][1].realWorldTest = {} THEN {}
                              ELSE {Named("real-world", manifest[v][1].realWorldDigest)})
             => r.records = frozen.records

\* A test case never shares a pull request with a case of another version, which may have been dev
\* data (mining.collect), in whatever order the versions are collected; unless its repository was
\* spelled with other letter cases, which collect takes for another repository.
NoPullInTwoVersions == PullsApart(cases)

\* A recorded run scored again is what an evaluation would now make of the same cases: those of
\* the version asked for have their current labels, those excluded since are gone, and those the
\* run never saw are reported.  Only a case that has no label any more keeps its old one.
RescoreIsARerun ==
  \A report \in reports, w \in Versions :
    LET again == Rescore(report, w)
        now == {r \in RealWorld(w, "dev") \cup RealWorld(w, "test") : r.from = w}
        scored(records) == {[case |-> r.case, expected |-> r.expected] : r \in records}
    IN  /\ scored({r \in again.current : r.case \in DOMAIN gold[w]})
             = scored({r \in now : r.case \in CasesOf(report.records)})
        /\ CasesOf(now) \subseteq CasesOf(report.records) \cup again.unseen
        /\ CasesOf(again.current) = CasesOf(again.kept)
        /\ again.changed = CasesOf(again.current \ again.kept)
=============================================================================
