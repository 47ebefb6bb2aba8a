-------------------------- MODULE BenchmarkProofs ---------------------------
(***************************************************************************)
(* Proofs about Benchmark, for any number of versions and any data set to  *)
(* begin with that keeps the pull requests of versions apart.              *)
(***************************************************************************)
EXTENDS Benchmark, TLAPS

\* Every version has its directories, whatever is in them.
Directories == DOMAIN cases = Versions /\ DOMAIN gold = Versions

\* The invariant: a new case is compared with the cases of every other version.
Inv == Directories /\ NoPullInTwoVersions

\* What a step may do to the cases: nothing, or to one version only.
LEMMA CasesAfterACollect ==
  ASSUME NEW v \in Versions, NEW c, NEW split, Inv, Collect(v, c, split)
  PROVE  Inv'
<1>1. DOMAIN cases' = Versions /\ DOMAIN gold' = Versions
  BY DEF Inv, Directories, Collect
<1>2. \A w \in Versions : w # v => cases'[w] = cases[w]
  BY DEF Inv, Directories, Collect
<1>3. DOMAIN cases'[v] = DOMAIN cases[v] \cup {c}
  BY DEF Inv, Directories, Collect, Over
<1>4. ASSUME NEW w \in Versions, w # v, NEW d \in DOMAIN cases[w]
      PROVE  ~(c.spelled = d.spelled /\ c.pull = d.pull)
  <2>1. [spelled |-> d.spelled, pull |-> d.pull] \in UsedPulls(v)
    BY <1>4 DEF UsedPulls, Pulls
  <2>2. [spelled |-> c.spelled, pull |-> c.pull] \notin UsedPulls(v)
    BY DEF Collect
  <2> QED
    BY <2>1, <2>2
<1>5. ASSUME NEW w \in Versions, NEW x \in Versions, w # x,
             NEW d \in DOMAIN cases'[w], NEW e \in DOMAIN cases'[x],
             d.repo = e.repo, d.pull = e.pull
      PROVE  d.spelled # e.spelled
  <2>1. CASE w = v /\ d = c
    BY <1>2, <1>4, <1>5, <2>1
  <2>2. CASE x = v /\ e = c
    BY <1>2, <1>4, <1>5, <2>2
  <2>3. CASE ~(w = v /\ d = c) /\ ~(x = v /\ e = c)
    BY <1>2, <1>3, <1>5, <2>3 DEF Inv, NoPullInTwoVersions, PullsApart
  <2> QED
    BY <2>1, <2>2, <2>3
<1> QED
  BY <1>1, <1>5 DEF Inv, Directories, NoPullInTwoVersions, PullsApart

\* A step that adds no case keeps the invariant.
LEMMA CasesNeverAdded ==
  ASSUME Inv, DOMAIN cases' = Versions, DOMAIN gold' = Versions,
         \A v \in Versions : DOMAIN cases'[v] \subseteq DOMAIN cases[v]
  PROVE  Inv'
BY DEF Inv, Directories, NoPullInTwoVersions, PullsApart

\* Every step keeps the invariant.
LEMMA InvStep == Inv /\ [Next]_vars => Inv'
<1> SUFFICES ASSUME Inv, [Next]_vars PROVE Inv'
  OBVIOUS
<1>1. ASSUME cases' = cases, DOMAIN gold' = Versions PROVE Inv'
  BY <1>1, CasesNeverAdded DEF Inv, Directories
<1>2. CASE UNCHANGED vars
  BY <1>1, <1>2 DEF vars, Inv, Directories
<1>3. ASSUME NEW v \in Versions, NEW c \in Candidates, NEW split \in Splits, Collect(v, c, split)
      PROVE  Inv'
  BY <1>3, CasesAfterACollect
<1>4. ASSUME NEW v \in Versions, NEW some, BuildSingleGold(v, some) \/ BuildDoubleGold(v, some)
      PROVE  Inv'
  <2>1. PICK written : WriteGold(v, written)
    <3>1. CASE BuildSingleGold(v, some)
      BY <3>1 DEF BuildSingleGold
    <3>2. CASE BuildDoubleGold(v, some)
      BY <3>2 DEF BuildDoubleGold
    <3> QED
      BY <1>4, <3>1, <3>2
  <2>2. cases' = cases /\ gold' = [gold EXCEPT ![v] = Over(written, gold[v])]
    BY <2>1 DEF WriteGold
  <2> QED
    BY <1>1, <2>2 DEF Inv, Directories
<1>5. ASSUME NEW v \in Versions, Freeze(v) PROVE Inv'
  BY <1>1, <1>5 DEF Freeze, Inv, Directories
<1>6. ASSUME NEW v \in Versions, NEW split, Evaluate(v, split) PROVE Inv'
  BY <1>1, <1>6 DEF Evaluate, Inv, Directories
<1>7. ASSUME NEW v \in Versions, NEW content, EditControlled(v, content) PROVE Inv'
  BY <1>1, <1>7 DEF EditControlled, Inv, Directories
<1>8. ASSUME NEW v \in Versions, NEW c, EditCase(v, c) PROVE Inv'
  <2>1. cases' = [cases EXCEPT ![v] = [cases[v] EXCEPT ![c].text = "edited"]]
    BY <1>8 DEF EditCase
  <2>2. DOMAIN [cases[v] EXCEPT ![c].text = "edited"] = DOMAIN cases[v]
    OBVIOUS
  <2> DEFINE edited == [cases[v] EXCEPT ![c].text = "edited"]
  <2>3. \A w \in Versions : DOMAIN cases'[w] = DOMAIN cases[w]
    <3>1. cases' = [cases EXCEPT ![v] = edited] /\ DOMAIN edited = DOMAIN cases[v]
      BY <2>1, <2>2
    <3> HIDE DEF edited
    <3> QED
      BY <3>1 DEF Inv, Directories
  <2>4. DOMAIN cases' = Versions /\ gold' = gold
    BY <1>8, <2>1 DEF EditCase, Inv, Directories
  <2> QED
    BY <2>3, <2>4, CasesNeverAdded DEF Inv, Directories
<1>9. ASSUME NEW v \in Versions, NEW c, RemoveCase(v, c) PROVE Inv'
  BY <1>9, CasesNeverAdded DEF RemoveCase, Without, Inv, Directories
<1> QED
  BY <1>2, <1>3, <1>4, <1>5, <1>6, <1>7, <1>8, <1>9 DEF Next

LEMMA Invariance == Spec => []Inv
<1>1. Init => Inv
  BY StartsAssumption DEF Init, Inv, Directories, NoPullInTwoVersions
<1> QED
  BY <1>1, InvStep, PTL DEF Spec

\* However the versions are collected, edited and emptied, a pull request never has cases in two
\* of them (mining.collect), as far as its repository is spelled alike.
THEOREM PullsStayApart == Spec => []NoPullInTwoVersions
<1>1. Inv => NoPullInTwoVersions
  BY DEF Inv
<1> QED
  BY <1>1, Invariance, PTL

-----------------------------------------------------------------------------
(***************************************************************************)
(* What is frozen, and what was scored.  Both are functions of a controlled *)
(* test set and a digest, so equal digests mean equal records.             *)
(***************************************************************************)
\* What an evaluation of a version's test split scores, out of what a digest digests.
Scored(v, controlled, digest) ==
  (IF controlled = <<>> THEN {}
   ELSE {[source |-> "controlled", from |-> v, case |-> [controlled |-> v],
          expected |-> controlled[1]]})
  \cup {[source |-> "real_world", from |-> v, case |-> d.case, expected |-> d.gold.label.verdict] :
          d \in {e \in digest : e.gold.label.include}}

SetsOf(controlled) == IF controlled = <<>> THEN {} ELSE {Named("controlled", controlled)}
RealWorldOf(digest) == IF digest = {} THEN {} ELSE {Named("real-world", digest)}

\* Cases are mined threads with files of their own, and every gold label is of a case.
Stored ==
  \A v \in Versions :
    /\ \A c \in DOMAIN cases[v] : IsThread(c) /\ cases[v][c] \in Files
    /\ DOMAIN gold[v] \subseteq DOMAIN cases[v]

\* A manifest digests what was there when it was written.
Frozen ==
  /\ DOMAIN manifest = Versions
  /\ \A v \in Versions : manifest[v] # <<>> =>
       /\ manifest[v][1].testSets = SetsOf(manifest[v][2].controlled)
       /\ manifest[v][1].realWorldTest = CasesOf(manifest[v][2].realWorld)
       /\ manifest[v][1].realWorldDigest = manifest[v][2].realWorld
       /\ manifest[v][2].records = Scored(v, manifest[v][2].controlled, manifest[v][2].realWorld)

\* A test report names the digests of exactly what it scored.
NamesWhatItScored(r) ==
  \E controlled, digest :
    /\ \A d \in digest : d.gold.label.include
    /\ r.records = Scored(r.version, controlled, digest)
    /\ r.hashes = SetsOf(controlled) \cup RealWorldOf(digest)

\* The records of a report are of two kinds, and only mined threads are real-world cases.
IsRecord(r) ==
  /\ r = [source |-> r.source, from |-> r.from, case |-> r.case, expected |-> r.expected]
  /\ r.source \in {"controlled", "real_world"}
  /\ r.source = "controlled" => ~IsThread(r.case)

Reported ==
  \A r \in reports :
    /\ r.split = "test" => NamesWhatItScored(r)
    /\ \A record \in r.records : IsRecord(record)

BenchmarkInv == Inv /\ Stored /\ Frozen /\ Reported

\* The test cases of a version that have labels.
Labelled(v) == TestCases(v) \cap DOMAIN gold[v]

\* The test split of a version consists of its controlled test set and its labelled test cases.
LEMMA TestSplit ==
  ASSUME Stored, NEW v \in Versions
  PROVE  IterBenchmark(v, "test") = Scored(v, fixtures[v], Digest(v, Labelled(v)))
<1>0. v \in Nat
  BY BenchmarkAssumption DEF Versions
<1>1. \A u \in 1..v : u \in Versions
  BY <1>0, BenchmarkAssumption DEF Versions
<1>2. {u \in 1..v : fixtures[u] # <<>> /\ ("test" = "test" <=> u = v)}
        = IF fixtures[v] = <<>> THEN {} ELSE {v}
  <2>1. v \in 1..v
    BY <1>0, BenchmarkAssumption DEF Versions
  <2> QED
    BY <2>1
<1>3. Controlled(v, "test") =
        IF fixtures[v] = <<>> THEN {}
        ELSE {[source |-> "controlled", from |-> v, case |-> [controlled |-> v],
               expected |-> fixtures[v][1]]}
  BY <1>2, Zenon DEF Controlled
<1>4. ASSUME NEW w \in 1..v, NEW c \in DOMAIN gold[w]
      PROVE  SplitIn(v, w, c) = "test" <=> w = v /\ c \in TestCases(v)
  <2>1. c \in DOMAIN cases[w]
    BY <1>1 DEF Stored
  <2>2. CASE w < v
    <3>1. w # v
      BY <1>0, <2>2
    <3> QED
      BY <2>2, <3>1 DEF SplitIn
  <2>3. CASE w = v
    <3>1. ~(w < v)
      BY <1>0, <2>3
    <3> QED
      BY <2>1, <2>3, <3>1 DEF SplitIn, TestCases
  <2> QED
    BY <1>0, <2>2, <2>3
<1>5. RealWorld(v, "test") =
        {[source |-> "real_world", from |-> v, case |-> c, expected |-> gold[v][c].label.verdict] :
           c \in {d \in Labelled(v) : gold[v][d].label.include}}
  <2> DEFINE record(w, c) == [source |-> "real_world", from |-> w, case |-> c,
                              expected |-> gold[w][c].label.verdict]
             some(w) == {d \in DOMAIN gold[w] : gold[w][d].label.include /\ SplitIn(v, w, d) = "test"}
  <2>1. v \in 1..v
    BY <1>0, BenchmarkAssumption DEF Versions
  <2>2. \A w \in 1..v : w # v => some(w) = {}
    BY <1>4
  <2>3. some(v) = {d \in Labelled(v) : gold[v][d].label.include}
    BY <1>4, <2>1 DEF Labelled
  <2>4. RealWorld(v, "test") = UNION {{record(w, c) : c \in some(w)} : w \in 1..v}
    BY DEF RealWorld
  <2> HIDE DEF some, record
  <2>5. RealWorld(v, "test") = {record(v, c) : c \in some(v)}
    BY <2>1, <2>2, <2>4
  <2> QED
    BY <2>3, <2>5 DEF record
<1>6. {[source |-> "real_world", from |-> v, case |-> d.case, expected |-> d.gold.label.verdict] :
          d \in {e \in Digest(v, Labelled(v)) : e.gold.label.include}}
      = RealWorld(v, "test")
  <2> DEFINE digested(c) == [case |-> c, file |-> cases[v][c], gold |-> gold[v][c]]
             record(d) == [source |-> "real_world", from |-> v, case |-> d.case,
                           expected |-> d.gold.label.verdict]
  <2>1. \A c : digested(c).case = c /\ digested(c).gold = gold[v][c]
    OBVIOUS
  <2>2. \A c : record(digested(c)) =
           [source |-> "real_world", from |-> v, case |-> c, expected |-> gold[v][c].label.verdict]
    OBVIOUS
  <2>3. Digest(v, Labelled(v)) = {digested(c) : c \in Labelled(v)}
    BY DEF Digest
  <2> HIDE DEF digested
  <2>4. {e \in Digest(v, Labelled(v)) : e.gold.label.include}
          = {digested(c) : c \in {d \in Labelled(v) : gold[v][d].label.include}}
    BY <2>1, <2>3
  <2> HIDE DEF record
  <2>5. {record(d) : d \in {e \in Digest(v, Labelled(v)) : e.gold.label.include}}
          = {record(digested(c)) : c \in {d \in Labelled(v) : gold[v][d].label.include}}
    BY <2>4
  <2>6. {record(digested(c)) : c \in {d \in Labelled(v) : gold[v][d].label.include}}
          = {[source |-> "real_world", from |-> v, case |-> c, expected |-> gold[v][c].label.verdict] :
               c \in {d \in Labelled(v) : gold[v][d].label.include}}
    BY <2>2
  <2> QED
    BY <1>5, <2>5, <2>6, Zenon DEF record
<1> QED
  BY <1>3, <1>6 DEF IterBenchmark, Scored

\* What a report of the test split names is what it scored.
LEMMA HashesOfTheTestSplit ==
  ASSUME Stored, NEW v \in Versions
  PROVE  \E controlled, digest :
           /\ \A d \in digest : d.gold.label.include
           /\ IterBenchmark(v, "test") = Scored(v, controlled, digest)
           /\ SplitHashes(IterBenchmark(v, "test")) = SetsOf(controlled) \cup RealWorldOf(digest)
<1> DEFINE records == IterBenchmark(v, "test")
           some == {c \in Labelled(v) : gold[v][c].label.include}
           digest == Digest(v, some)
           digested(c) == [case |-> c, file |-> cases[v][c], gold |-> gold[v][c]]
           record(c) == [source |-> "real_world", from |-> v, case |-> c,
                         expected |-> gold[v][c].label.verdict]
           controlled == IF fixtures[v] = <<>> THEN {}
                         ELSE {[source |-> "controlled", from |-> v, case |-> [controlled |-> v],
                                expected |-> fixtures[v][1]]}
           real == {r \in records : r.source = "real_world"}
<1>1. digest = {digested(c) : c \in some} /\ \A c \in some : digested(c).gold.label.include
  BY DEF Digest
<1>2. \A x : digested(x).case = x /\ digested(x).gold = gold[v][x]
  OBVIOUS
<1>3. \A d \in digest : d.gold.label.include
  BY <1>1
<1>4. Scored(v, fixtures[v], digest) = controlled \cup {record(c) : c \in some}
  <2> DEFINE scored(d) == [source |-> "real_world", from |-> v, case |-> d.case,
                           expected |-> d.gold.label.verdict]
  <2>1. {e \in digest : e.gold.label.include} = digest
    BY <1>3
  <2>2. \A c : scored(digested(c)) = record(c)
    OBVIOUS
  <2>3. Scored(v, fixtures[v], digest) = controlled \cup {scored(d) : d \in digest}
    BY <2>1, Zenon DEF Scored
  <2> HIDE DEF digested, record, scored, controlled, digest, some
  <2>4. {scored(d) : d \in digest} = {record(c) : c \in some}
    BY <1>1, <2>2
  <2> QED
    BY <2>3, <2>4
<1>5. records = Scored(v, fixtures[v], digest)
  <2> DEFINE all == Digest(v, Labelled(v))
  <2>1. {e \in all : e.gold.label.include} = {e \in digest : e.gold.label.include}
    <3>1. all = {digested(c) : c \in Labelled(v)}
      BY DEF Digest
    <3> HIDE DEF digested, digest, all
    <3> QED
      BY <1>1, <1>2, <3>1
  <2>2. Scored(v, fixtures[v], all) = Scored(v, fixtures[v], digest)
    <3> HIDE DEF digest, all
    <3> QED
      BY <2>1, Zenon DEF Scored
  <2> QED
    BY <2>2, TestSplit
<1>6. records = controlled \cup {record(c) : c \in some}
  BY <1>4, <1>5
<1>7. real = {record(c) : c \in some} /\ records \ real = controlled
  <2>1. \A r \in controlled : r.source = "controlled"
    OBVIOUS
  <2>2. \A c \in some : record(c).source = "real_world"
    OBVIOUS
  <2> HIDE DEF controlled, record, some, records
  <2> QED
    BY <1>6, <2>1, <2>2
<1>8. \A r \in real : r.from = v
  BY <1>7
<1>9. CasesOf({r \in real : r.from = v}) = some
  <2>1. \A c : record(c).case = c /\ record(c).from = v
    OBVIOUS
  <2> HIDE DEF record, some, real
  <2> QED
    BY <1>7, <2>1 DEF CasesOf
<1>10. {Named("controlled", fixtures[r.from]) : r \in records \ real} = SetsOf(fixtures[v])
  <2>1. \A r \in controlled : r.from = v
    OBVIOUS
  <2>2. controlled = {} <=> fixtures[v] = <<>>
    OBVIOUS
  <2> HIDE DEF controlled, records, real
  <2> QED
    BY <1>7, <2>1, <2>2 DEF SetsOf
<1>11. {Named("real-world", Digest(r.from, CasesOf({s \in real : s.from = r.from}))) : r \in real}
         = RealWorldOf(digest)
  <2>1. \A r \in real : Digest(r.from, CasesOf({s \in real : s.from = r.from})) = digest
    BY <1>8, <1>9
  <2>2. real = {} <=> digest = {}
    <3> HIDE DEF real, digest, digested, record, some
    <3> QED
      BY <1>1, <1>7
  <2> HIDE DEF real, digest
  <2> QED
    BY <2>1, <2>2 DEF RealWorldOf
<1>12. SplitHashes(records) = SetsOf(fixtures[v]) \cup RealWorldOf(digest)
  <2> HIDE DEF records, digest
  <2> QED
    BY <1>10, <1>11 DEF SplitHashes
<1> QED
  <2> HIDE DEF records, digest
  <2>1. \E c, d : /\ \A x \in d : x.gold.label.include
                  /\ records = Scored(v, c, d)
                  /\ SplitHashes(records) = SetsOf(c) \cup RealWorldOf(d)
    BY <1>3, <1>5, <1>12
  <2> QED
    BY <2>1, Zenon DEF records

\* What any evaluation scores are records of the two kinds.
LEMMA RecordsAreRecords ==
  ASSUME Stored, NEW v \in Versions, NEW split, NEW r \in IterBenchmark(v, split)
  PROVE  IsRecord(r)
<1>1. CASE r \in Controlled(v, split)
  <2>1. PICK w : r = [source |-> "controlled", from |-> w, case |-> [controlled |-> w],
                      expected |-> fixtures[w][1]]
    BY <1>1 DEF Controlled
  <2>2. ~IsThread([controlled |-> w])
    <3>1. DOMAIN [controlled |-> w] = {"controlled"}
      OBVIOUS
    <3> QED
      BY <3>1 DEF IsThread
  <2>3. r.case = [controlled |-> w] /\ r.source = "controlled"
    BY <2>1
  <2>4. r = [source |-> r.source, from |-> r.from, case |-> r.case, expected |-> r.expected]
    BY <2>1
  <2> QED
    BY <2>2, <2>3, <2>4 DEF IsRecord
<1>2. CASE r \in RealWorld(v, split)
  <2>1. PICK w, c : r = [source |-> "real_world", from |-> w, case |-> c,
                         expected |-> gold[w][c].label.verdict]
    BY <1>2 DEF RealWorld
  <2>2. r = [source |-> r.source, from |-> r.from, case |-> r.case, expected |-> r.expected]
    BY <2>1
  <2> QED
    BY <2>1, <2>2 DEF IsRecord
<1> QED
  BY <1>1, <1>2 DEF IterBenchmark

\* An evaluation adds a report of what it scored.
LEMMA ReportedAfterEvaluate ==
  ASSUME Stored, Reported, NEW v \in Versions, NEW split \in Splits, Evaluate(v, split)
  PROVE  Reported'
<1> DEFINE records == IterBenchmark(v, split)
           report == [version |-> v, split |-> split, records |-> records,
                      hashes |-> SplitHashes(records)]
<1>1. reports' = reports \cup {report}
  BY DEF Evaluate
<1>2. report.split = split /\ report.records = records /\ report.version = v
        /\ report.hashes = SplitHashes(records)
  OBVIOUS
<1>3. split = "test" => NamesWhatItScored(report)
  BY <1>2, HashesOfTheTestSplit DEF NamesWhatItScored
<1>4. \A r \in records : IsRecord(r)
  BY RecordsAreRecords
<1> HIDE DEF records, report
<1> QED
  BY <1>1, <1>2, <1>3, <1>4 DEF Reported

\* A freeze writes down what there is.
LEMMA FrozenAfterFreeze ==
  ASSUME Stored, Frozen, NEW v \in Versions, Freeze(v)
  PROVE  Frozen'
<1> DEFINE digest == Digest(v, TestCases(v))
<1>1. Labelled(v) = TestCases(v)
  BY DEF Freeze, WithoutGold, Labelled
<1>2. IterBenchmark(v, "test") = Scored(v, fixtures[v], digest)
  BY <1>1, TestSplit
<1>3. CasesOf(digest) = TestCases(v)
  <2> DEFINE digested(c) == [case |-> c, file |-> cases[v][c], gold |-> gold[v][c]]
  <2>1. \A c : digested(c).case = c
    OBVIOUS
  <2>2. digest = {digested(c) : c \in TestCases(v)}
    BY DEF Digest
  <2> HIDE DEF digested, digest
  <2> QED
    BY <2>1, <2>2 DEF CasesOf
<1>4. /\ manifest'[v] = <<FrozenManifest(v), Snapshot(v)>>
      /\ DOMAIN manifest' = Versions
      /\ \A w \in Versions \ {v} : manifest'[w] = manifest[w]
  BY DEF Freeze, Frozen
<1>5. /\ FrozenManifest(v).testSets = SetsOf(fixtures[v])
      /\ FrozenManifest(v).realWorldTest = TestCases(v)
      /\ FrozenManifest(v).realWorldDigest = digest
  BY DEF FrozenManifest, TestSets, SetsOf
<1>6. /\ Snapshot(v).records = IterBenchmark(v, "test")
      /\ Snapshot(v).controlled = fixtures[v]
      /\ Snapshot(v).realWorld = digest
  BY DEF Snapshot
<1>7. manifest'[v][1] = FrozenManifest(v) /\ manifest'[v][2] = Snapshot(v)
  BY <1>4
<1> HIDE DEF digest
<1> QED
  BY <1>2, <1>3, <1>4, <1>5, <1>6, <1>7 DEF Frozen

\* Only what a command stores changes what is stored, and it stores cases with their labels.
LEMMA StoredStep ==
  ASSUME BenchmarkInv, [Next]_vars
  PROVE  Stored'
<1>0. Stored /\ DOMAIN cases = Versions /\ DOMAIN gold = Versions
  BY DEF BenchmarkInv, Inv, Directories
<1>1. ASSUME cases' = cases, gold' = gold PROVE Stored'
  BY <1>0, <1>1 DEF Stored
<1>2. ASSUME NEW v \in Versions, NEW c \in Candidates, NEW split \in Splits, Collect(v, c, split)
      PROVE  Stored'
  <2> DEFINE file == [split |-> split, text |-> "as collected"]
             collected == [d \in {c} |-> file]
  <2>1. cases' = [cases EXCEPT ![v] = Over(collected, cases[v])] /\ gold' = gold
    BY <1>2 DEF Collect
  <2>2. file \in Files /\ IsThread(c)
    BY CandidatesAssumption DEF Files
  <2>3. /\ DOMAIN Over(collected, cases[v]) = {c} \cup DOMAIN cases[v]
        /\ \A d \in {c} \cup DOMAIN cases[v] :
             Over(collected, cases[v])[d] = IF d = c THEN file ELSE cases[v][d]
    BY DEF Over
  <2> HIDE DEF file, collected
  <2> DEFINE now == Over(collected, cases[v])
  <2>4. \A d \in DOMAIN now : IsThread(d) /\ now[d] \in Files
    BY <1>0, <2>2, <2>3 DEF Stored
  <2>5. DOMAIN gold[v] \subseteq DOMAIN now
    BY <1>0, <2>3 DEF Stored
  <2> HIDE DEF now
  <2>6. \A w \in Versions : cases'[w] = IF w = v THEN now ELSE cases[w]
    BY <1>0, <2>1 DEF now
  <2> QED
    BY <1>0, <2>1, <2>4, <2>5, <2>6 DEF Stored
<1>3. ASSUME NEW v \in Versions, NEW some \in SUBSET DOMAIN cases[v],
             NEW written, DOMAIN written = some, WriteGold(v, written)
      PROVE  Stored'
  <2>1. gold' = [gold EXCEPT ![v] = Over(written, gold[v])] /\ cases' = cases
    BY <1>3 DEF WriteGold
  <2>2. DOMAIN Over(written, gold[v]) \subseteq DOMAIN cases[v]
    BY <1>0, <1>3 DEF Over, Stored
  <2> QED
    BY <1>0, <2>1, <2>2 DEF Stored
<1>4. ASSUME NEW v \in Versions, NEW some \in SUBSET DOMAIN cases[v], BuildSingleGold(v, some)
      PROVE  Stored'
  <2>1. PICK source \in {"human", "model"} :
          \E written \in [some -> {Gold(a, source, 1, TRUE) : a \in Labels}] : WriteGold(v, written)
    BY <1>4 DEF BuildSingleGold
  <2> QED
    BY <1>3, <2>1
<1>5. ASSUME NEW v \in Versions, NEW some \in SUBSET DOMAIN cases[v], BuildDoubleGold(v, some)
      PROVE  Stored'
  BY <1>3, <1>5 DEF BuildDoubleGold
<1>6. ASSUME NEW v \in Versions, NEW c \in DOMAIN cases[v], EditCase(v, c)
      PROVE  Stored'
  <2> DEFINE file == [cases[v][c] EXCEPT !.text = "edited"]
             now == [cases[v] EXCEPT ![c] = file]
  <2>1. cases' = [cases EXCEPT ![v] = now] /\ gold' = gold
    BY <1>6 DEF EditCase
  <2>2. file \in Files
    BY <1>0 DEF Stored, Files
  <2> HIDE DEF file
  <2>3. DOMAIN now = DOMAIN cases[v] /\ \A d \in DOMAIN now : now[d] = IF d = c THEN file ELSE cases[v][d]
    OBVIOUS
  <2> HIDE DEF now
  <2>4. \A w \in Versions : cases'[w] = IF w = v THEN now ELSE cases[w]
    BY <1>0, <2>1
  <2> QED
    BY <1>0, <2>1, <2>2, <2>3, <2>4 DEF Stored
<1>7. ASSUME NEW v \in Versions, NEW c \in DOMAIN cases[v], RemoveCase(v, c)
      PROVE  Stored'
  <2>1. /\ cases' = [cases EXCEPT ![v] = Without(cases[v], c)]
        /\ gold' = [gold EXCEPT ![v] = Without(gold[v], c)]
    BY <1>7 DEF RemoveCase
  <2>2. /\ DOMAIN Without(cases[v], c) = DOMAIN cases[v] \ {c}
        /\ DOMAIN Without(gold[v], c) = DOMAIN gold[v] \ {c}
        /\ \A d \in DOMAIN cases[v] \ {c} : Without(cases[v], c)[d] = cases[v][d]
    BY DEF Without
  <2>3. \A w \in Versions : /\ cases'[w] = IF w = v THEN Without(cases[v], c) ELSE cases[w]
                            /\ gold'[w] = IF w = v THEN Without(gold[v], c) ELSE gold[w]
    BY <1>0, <2>1
  <2> QED
    BY <1>0, <2>2, <2>3 DEF Stored
<1> QED
  BY <1>1, <1>2, <1>4, <1>5, <1>6, <1>7
     DEF Next, vars, Freeze, Evaluate, EditControlled

LEMMA BenchmarkInvStep == BenchmarkInv /\ [Next]_vars => BenchmarkInv'
<1> SUFFICES ASSUME BenchmarkInv, [Next]_vars PROVE BenchmarkInv'
  OBVIOUS
<1>1. Inv'
  BY InvStep DEF BenchmarkInv
<1>2. Stored'
  BY StoredStep
<1>3. \A v \in Versions : \A some :
        BuildSingleGold(v, some) \/ BuildDoubleGold(v, some)
          => manifest' = manifest /\ reports' = reports
  <2>1. \A v \in Versions : \A written :
          WriteGold(v, written) => manifest' = manifest /\ reports' = reports
    BY DEF WriteGold
  <2>2. ASSUME NEW v \in Versions, NEW some, BuildSingleGold(v, some)
        PROVE  manifest' = manifest /\ reports' = reports
    BY <2>1, <2>2 DEF BuildSingleGold
  <2>3. ASSUME NEW v \in Versions, NEW some, BuildDoubleGold(v, some)
        PROVE  manifest' = manifest /\ reports' = reports
    BY <2>1, <2>3 DEF BuildDoubleGold
  <2> QED
    BY <2>2, <2>3
<1>4. Frozen'
  <2>1. ASSUME manifest' = manifest PROVE Frozen'
    BY <2>1 DEF BenchmarkInv, Frozen
  <2>2. ASSUME NEW v \in Versions, Freeze(v) PROVE Frozen'
    BY <2>2, FrozenAfterFreeze DEF BenchmarkInv
  <2> QED
    BY <1>3, <2>1, <2>2
       DEF Next, vars, Collect, Evaluate, EditControlled, EditCase, RemoveCase
<1>5. Reported'
  <2>1. ASSUME reports' = reports PROVE Reported'
    BY <2>1 DEF BenchmarkInv, Reported
  <2>2. ASSUME NEW v \in Versions, NEW split \in Splits, Evaluate(v, split) PROVE Reported'
    BY <2>2, ReportedAfterEvaluate DEF BenchmarkInv
  <2> QED
    BY <1>3, <2>1, <2>2
       DEF Next, vars, Collect, Freeze, EditControlled, EditCase, RemoveCase
<1> QED
  BY <1>1, <1>2, <1>4, <1>5 DEF BenchmarkInv

LEMMA BenchmarkInvariance == Spec => []BenchmarkInv
<1>1. Init => BenchmarkInv
  <2> SUFFICES ASSUME Init PROVE BenchmarkInv
    OBVIOUS
  <2>1. Inv
    BY StartsAssumption DEF Init, Inv, Directories, NoPullInTwoVersions
  <2>2. Stored
    BY StartsAssumption DEF Init, Stored
  <2>3. Frozen /\ Reported
    BY DEF Init, Frozen, Reported
  <2> QED
    BY <2>1, <2>2, <2>3 DEF BenchmarkInv
<1> QED
  BY <1>1, BenchmarkInvStep, PTL DEF Spec

\* What verify finds unchanged is what was frozen, and a report that names the digests of a manifest
\* scored what was frozen (benchmark/manifest.py): digests determine records.
THEOREM FrozenStaysFrozen == Spec => []FrozenIsFrozen
<1>1. BenchmarkInv => FrozenIsFrozen
  <2> SUFFICES ASSUME BenchmarkInv, NEW v \in Versions, manifest[v] # <<>>
               PROVE  LET frozen == manifest[v][2]
                      IN  /\ ~VerifyRaises(v) /\ Problems(v) = {} =>
                               /\ Snapshot(v).realWorld = frozen.realWorld
                               /\ Snapshot(v).records = frozen.records \/ frozen.controlled = <<>>
                          /\ \A r \in reports :
                               /\ r.version = v /\ r.split = "test"
                               /\ r.hashes = manifest[v][1].testSets \cup
                                     (IF manifest[v][1].realWorldTest = {} THEN {}
                                      ELSE {Named("real-world", manifest[v][1].realWorldDigest)})
                               => r.records = frozen.records
    BY Zenon DEF FrozenIsFrozen
  <2> DEFINE told == manifest[v][1]
             frozen == manifest[v][2]
  <2>1. /\ told.testSets = SetsOf(frozen.controlled)
        /\ told.realWorldTest = CasesOf(frozen.realWorld)
        /\ told.realWorldDigest = frozen.realWorld
        /\ frozen.records = Scored(v, frozen.controlled, frozen.realWorld)
    BY DEF BenchmarkInv, Frozen
  <2>2. ASSUME ~VerifyRaises(v), Problems(v) = {}
        PROVE  /\ Snapshot(v).realWorld = frozen.realWorld
               /\ Snapshot(v).records = frozen.records \/ frozen.controlled = <<>>
    <3>1. /\ Snapshot(v).realWorld = Digest(v, TestCases(v))
          /\ Snapshot(v).records = IterBenchmark(v, "test")
      BY DEF Snapshot
    <3>2. {t.name : t \in told.testSets \ TestSets(v)} = {}
      BY <2>2 DEF Problems
    <3>3. told.testSets \subseteq TestSets(v)
      <4> HIDE DEF told
      <4> QED
        BY <3>2
    <3>4. TestCases(v) = told.realWorldTest
      BY <2>2 DEF Problems
    <3>5. Digest(v, TestCases(v)) = told.realWorldDigest
      BY <2>2, <3>4 DEF Problems
    <3>6. Labelled(v) = TestCases(v)
      BY <2>2 DEF VerifyRaises, WithoutGold, Labelled
    <3>7. Snapshot(v).records = Scored(v, fixtures[v], frozen.realWorld)
      BY <2>1, <3>1, <3>5, <3>6, TestSplit DEF BenchmarkInv
    <3>8. ASSUME frozen.controlled # <<>> PROVE fixtures[v] = frozen.controlled
      <4> HIDE DEF told, frozen
      <4>1. Named("controlled", frozen.controlled) \in TestSets(v)
        BY <2>1, <3>3, <3>8 DEF SetsOf
      <4>2. Named("controlled", frozen.controlled) = Named("controlled", fixtures[v])
        BY <4>1 DEF TestSets
      <4> QED
        BY <4>2 DEF Named
    <3> HIDE DEF told, frozen
    <3> QED
      BY <2>1, <3>1, <3>5, <3>7, <3>8
  <2>3. ASSUME NEW r \in reports, r.version = v, r.split = "test",
               r.hashes = told.testSets \cup
                 (IF told.realWorldTest = {} THEN {}
                  ELSE {Named("real-world", told.realWorldDigest)})
        PROVE  r.records = frozen.records
    <3>1. NamesWhatItScored(r)
      BY <2>3, Zenon DEF BenchmarkInv, Reported
    <3>2. PICK controlled, digest :
            /\ r.records = Scored(v, controlled, digest)
            /\ r.hashes = SetsOf(controlled) \cup RealWorldOf(digest)
      BY <2>3, <3>1 DEF NamesWhatItScored
    <3> HIDE DEF told, frozen
    <3>3. told.realWorldTest = {} <=> frozen.realWorld = {}
      BY <2>1 DEF CasesOf
    <3>4. r.hashes = SetsOf(frozen.controlled) \cup RealWorldOf(frozen.realWorld)
      BY <2>1, <2>3, <3>3 DEF RealWorldOf
    <3>5. \A x, y : Named("controlled", x) # Named("real-world", y)
      BY DEF Named
    <3>6. \A x, y, n : Named(n, x) = Named(n, y) => x = y
      BY DEF Named
    <3>7. SetsOf(controlled) = SetsOf(frozen.controlled)
      BY <3>2, <3>4, <3>5 DEF SetsOf, RealWorldOf
    <3>8. RealWorldOf(digest) = RealWorldOf(frozen.realWorld)
      BY <3>2, <3>4, <3>5 DEF SetsOf, RealWorldOf
    <3>9. controlled = frozen.controlled
      BY <3>6, <3>7 DEF SetsOf
    <3>10. digest = frozen.realWorld
      BY <3>6, <3>8 DEF RealWorldOf
    <3> QED
      BY <2>1, <3>2, <3>9, <3>10
  <2> QED
    BY <2>2, <2>3, Zenon
<1> QED
  BY <1>1, BenchmarkInvariance, PTL

\* Scoring a report again gives what an evaluation would now give for its cases, and reports what
\* the run dropped, relabelled or never saw (evaluation/rescore.py).
THEOREM RescoringIsARerun == Spec => []RescoreIsARerun
<1>1. BenchmarkInv => RescoreIsARerun
  <2> SUFFICES ASSUME BenchmarkInv, NEW report \in reports, NEW w \in Versions
               PROVE  LET again == Rescore(report, w)
                          now == {r \in RealWorld(w, "dev") \cup RealWorld(w, "test") : r.from = w}
                          scored(records) == {[case |-> r.case, expected |-> r.expected] : r \in records}
                      IN  /\ scored({r \in again.current : r.case \in DOMAIN gold[w]})
                               = scored({r \in now : r.case \in CasesOf(report.records)})
                          /\ CasesOf(now) \subseteq CasesOf(report.records) \cup again.unseen
                          /\ CasesOf(again.current) = CasesOf(again.kept)
                          /\ again.changed = CasesOf(again.current \ again.kept)
    BY Zenon DEF RescoreIsARerun
  <2> DEFINE again == Rescore(report, w)
             now == {r \in RealWorld(w, "dev") \cup RealWorld(w, "test") : r.from = w}
             pair(c) == [case |-> c, expected |-> gold[w][c].label.verdict]
             scored(records) == {[case |-> r.case, expected |-> r.expected] : r \in records}
             included == {c \in DOMAIN gold[w] : gold[w][c].label.include}
             looked == {r \in report.records : r.source = "real_world" /\ r.case \in DOMAIN gold[w]}
             excluded == {r \in looked : ~gold[w][r.case].label.include}
             relabel(r) == [r EXCEPT !.expected = gold[w][r.case].label.verdict]
             relabelled == {relabel(r) : r \in looked \ excluded}
  <2>1. /\ again.kept = report.records \ excluded
        /\ again.current = (report.records \ looked) \cup relabelled
        /\ again.unseen = included \ CasesOf(report.records)
        /\ again.changed = CasesOf(relabelled \ report.records)
    <3>1. DOMAIN CurrentLabels(w) = DOMAIN gold[w]
            /\ \A c \in DOMAIN gold[w] : CurrentLabels(w)[c] = gold[w][c].label
      BY DEF CurrentLabels
    <3> DEFINE current == CurrentLabels(w)
               looked1 == {r \in report.records : r.source = "real_world" /\ r.case \in DOMAIN current}
               excluded1 == {r \in looked1 : ~current[r.case].include}
               relabelled1 == {[r EXCEPT !.expected = current[r.case].verdict] : r \in looked1 \ excluded1}
               included1 == {c \in DOMAIN current : current[c].include}
    <3>2. looked1 = looked
      BY <3>1
    <3>3. excluded1 = excluded
      BY <3>1, <3>2
    <3>4. included1 = included
      BY <3>1
    <3>5. relabelled1 = relabelled
      <4>1. \A r \in looked \ excluded :
              [r EXCEPT !.expected = current[r.case].verdict] = relabel(r)
        BY <3>1
      <4> HIDE DEF looked, excluded, relabel, current, looked1, excluded1
      <4> QED
        BY <3>2, <3>3, <4>1
    <3>6. /\ again.kept = report.records \ excluded1
          /\ again.current = (report.records \ looked1) \cup relabelled1
          /\ again.unseen = included1 \ CasesOf(report.records)
          /\ again.changed = CasesOf(relabelled1 \ report.records)
      BY DEF Rescore
    <3> HIDE DEF again, looked, excluded, relabelled, included, looked1, excluded1, relabelled1, included1
    <3> QED
      BY <3>2, <3>3, <3>4, <3>5, <3>6
  <2>2. \A r \in report.records : IsRecord(r)
    BY DEF BenchmarkInv, Reported
  <2>3. \A r \in report.records : r.case \in DOMAIN gold[w] => r \in looked
    BY <2>2 DEF BenchmarkInv, Stored, IsRecord
  <2>4. \A r \in looked : /\ relabel(r).case = r.case
                          /\ relabel(r).expected = gold[w][r.case].label.verdict
    <3> SUFFICES ASSUME NEW r \in looked PROVE relabel(r).case = r.case
                          /\ relabel(r).expected = gold[w][r.case].label.verdict
      OBVIOUS
    <3>1. r = [source |-> r.source, from |-> r.from, case |-> r.case, expected |-> r.expected]
      BY <2>2 DEF IsRecord
    <3>2. DOMAIN r = {"source", "from", "case", "expected"}
      BY <3>1
    <3> QED
      BY <3>2
  <2>5. now = {[source |-> "real_world", from |-> w, case |-> c, expected |-> gold[w][c].label.verdict] :
                 c \in included}
    <3>0. w \in Nat /\ w \in 1..w
      BY BenchmarkAssumption DEF Versions
    <3> DEFINE record(u, c) == [source |-> "real_world", from |-> u, case |-> c,
                                expected |-> gold[u][c].label.verdict]
               some(split, u) == {d \in DOMAIN gold[u] : gold[u][d].label.include /\ SplitIn(w, u, d) = split}
    <3>1. \A split : RealWorld(w, split) = UNION {{record(u, c) : c \in some(split, u)} : u \in 1..w}
      BY DEF RealWorld
    <3>2. some("dev", w) \cup some("test", w) = included
      <4>1. ~(w < w)
        BY <3>0
      <4>2. \A c \in DOMAIN gold[w] : SplitIn(w, w, c) \in {"dev", "test"}
        BY <4>1 DEF SplitIn, BenchmarkInv, Stored, Files, Splits
      <4> QED
        BY <4>2
    <3>3. \A u, c : record(u, c).from = u
      OBVIOUS
    <3> HIDE DEF record, some, included
    <3>4. now = {record(w, c) : c \in included}
      BY <3>0, <3>1, <3>2, <3>3
    <3> QED
      BY <3>4 DEF record
  <2>6. CasesOf(now) = included
    <3> DEFINE record(c) == [source |-> "real_world", from |-> w, case |-> c,
                             expected |-> gold[w][c].label.verdict]
    <3>1. \A c : record(c).case = c
      OBVIOUS
    <3>2. now = {record(c) : c \in included}
      BY <2>5
    <3> HIDE DEF record, now, included
    <3> QED
      BY <3>1, <3>2 DEF CasesOf
  <2>7. \A r \in now : r.expected = gold[w][r.case].label.verdict /\ r.case \in included
    BY <2>5
  <2>8. \A r \in relabelled : /\ r.expected = gold[w][r.case].label.verdict
                              /\ r.case \in included /\ r.case \in CasesOf(report.records)
    <3> HIDE DEF relabel
    <3> QED
      BY <2>4 DEF CasesOf
  <2>9. \A c \in included \cap CasesOf(report.records) : \E r \in relabelled : r.case = c
    <3> HIDE DEF relabel
    <3> QED
      BY <2>3, <2>4 DEF CasesOf
  <2>10. \A c \in included : \E r \in now : r.case = c
    <3> HIDE DEF now, included
    <3> QED
      BY <2>6 DEF CasesOf
  <2>11. {r \in again.current : r.case \in DOMAIN gold[w]} = relabelled
    <3> HIDE DEF again, relabelled, looked
    <3>1. \A r \in relabelled : r.case \in DOMAIN gold[w]
      BY <2>8
    <3> QED
      BY <2>1, <2>3, <3>1
  <2>12. scored(relabelled) = scored({r \in now : r.case \in CasesOf(report.records)})
    <3> HIDE DEF relabelled, now, included
    <3> QED
      BY <2>7, <2>8, <2>9, <2>10
  <2>13. CasesOf(relabelled) = CasesOf(looked \ excluded)
    <3> HIDE DEF relabel
    <3> QED
      BY <2>4 DEF CasesOf
  <2>14. CasesOf(again.current) = CasesOf(again.kept)
    <3> HIDE DEF relabelled, again
    <3> QED
      BY <2>1, <2>13 DEF CasesOf
  <2>15. again.current \ again.kept = relabelled \ report.records
    <3>1. \A r \in relabelled : r \notin excluded
      <4> HIDE DEF relabelled
      <4> QED
        BY <2>8
    <3>2. excluded \subseteq looked /\ looked \subseteq report.records
      OBVIOUS
    <3> HIDE DEF relabelled, again, excluded, looked
    <3> QED
      BY <2>1, <3>1, <3>2
  <2> HIDE DEF again, now, relabelled, included
  <2>16. scored({r \in again.current : r.case \in DOMAIN gold[w]})
           = scored({r \in now : r.case \in CasesOf(report.records)})
    BY <2>11, <2>12
  <2>17. CasesOf(now) \subseteq CasesOf(report.records) \cup again.unseen
    BY <2>1, <2>6
  <2>18. again.changed = CasesOf(again.current \ again.kept)
    BY <2>1, <2>15
  <2> QED
    BY <2>14, <2>16, <2>17, <2>18, Zenon DEF again, now
<1> QED
  BY <1>1, BenchmarkInvariance, PTL
=============================================================================
