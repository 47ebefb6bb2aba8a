-------------------------- MODULE RolloutStagesProofs --------------------------
(***************************************************************************)
(* Proofs about the rollout, for any number of operators, confirmations,   *)
(* days and stage changes.                                                 *)
(*                                                                         *)
(* What a call of change_stage checked, it checked of the row it had read. *)
(* The invariant says what remains true of a call between its read and its *)
(* write, and, while calls do not overlap, that the row is still the one   *)
(* that was read and that its history shows how it came to be.             *)
(***************************************************************************)
EXTENDS RolloutStages, FiniteSetTheorems, SequenceTheorems, TLAPS

\* Rows are never removed: a call that read one will find one.
RowsStay == \A o \in Operators : call[o] # None /\ row = None => call[o].read = None

Confirmed(since, upto) == {p \in Presses : confirmedAt[p] \in since .. upto}

\* The gates a call went through still stand open: confirmations are not taken back.
Permitted(c) ==
    /\ StageIndex(c.to) <= StageIndex(StageOf(c.read)) + 1
    /\ c.to = "enforcement" /\ StageOf(c.read) # "enforcement" =>
          /\ c.read # None /\ c.read.stage = "human_review"
          /\ c.at - c.read.since >= MinDays
          /\ Cardinality(Confirmed(c.read.since, c.at)) >= MinConfirmations

CallsPermitted == \A o \in Operators : call[o] # None => Permitted(call[o])

\* Nobody confirms in the future.
ConfirmedBefore == \A p \in Presses : confirmedAt[p] <= now

\* Without overlaps the only call in progress has read the row as it still is.
CallIsFresh ==
    serial => \A o \in Operators : call[o] # None =>
        /\ call[o].read = row
        /\ \A p \in Operators : call[p] # None => p = o

\* A period of human review is in the history from the change that opened it.
Reviewing(k) ==
    /\ log[k].at = row.since
    /\ \A m \in k .. Len(log) : log[m].to = "human_review"

ReviewIsRecorded ==
    serial /\ row # None /\ row.stage = "human_review" => \E k \in DOMAIN log : Reviewing(k)

IInv ==
    /\ TypeOK
    /\ RowsStay
    /\ CallsPermitted
    /\ ConfirmedBefore
    /\ CallIsFresh
    /\ HistoryIsAChain
    /\ ReviewIsRecorded
    /\ EnforcementIsEarned

LEMMA InitIInv == Init => IInv
  BY DEF Init, IInv, TypeOK, RowsStay, CallsPermitted, ConfirmedBefore, CallIsFresh,
         HistoryIsAChain, ReviewIsRecorded, EnforcementIsEarned, StageOf

-----------------------------------------------------------------------------
LEMMA StageIndexOrder ==
  /\ StageIndex("observe") = 0 /\ StageIndex("advisory") = 1
  /\ StageIndex("human_review") = 2 /\ StageIndex("enforcement") = 3
  BY Zenon DEF StageIndex

\* Confirmations are only added: what was enough stays enough.
LEMMA GatesStayOpen ==
  ASSUME IInv, NEW since \in Nat, NEW upto \in Nat,
         confirmedAt' \in [Presses -> Nat \cup {-1}],
         \A p \in Presses : confirmedAt[p] # -1 => confirmedAt'[p] = confirmedAt[p],
         Cardinality(Confirmed(since, upto)) >= MinConfirmations
  PROVE  Cardinality(Confirmed(since, upto)') >= MinConfirmations
<1> DEFINE old == Confirmed(since, upto)
           new == {p \in Presses : confirmedAt'[p] \in since .. upto}
<1>1. old \subseteq new
  BY DEF Confirmed, IInv, TypeOK
<1>2. IsFiniteSet(new)
  BY PressesAssumption, FS_Subset
<1>3. Cardinality(old) <= Cardinality(new) /\ Cardinality(old) \in Nat /\ Cardinality(new) \in Nat
  BY <1>1, <1>2, FS_Subset, FS_CardinalityType
<1>4. Confirmed(since, upto)' = new
  BY DEF Confirmed
<1> HIDE DEF old, new
<1>5. old = Confirmed(since, upto)
  BY DEF old
<1> QED
  BY <1>3, <1>4, <1>5, GateAssumption

LEMMA LogType ==
  ASSUME IInv
  PROVE  /\ Len(log) \in Nat /\ DOMAIN log = 1 .. Len(log)
         /\ \A i \in DOMAIN log : log[i] \in Changes /\ log[i].at \in Nat
<1>1. log \in Seq(Changes)
  BY DEF IInv, TypeOK
<1>2. Len(log) \in Nat /\ DOMAIN log = 1 .. Len(log) /\ \A i \in DOMAIN log : log[i] \in Changes
  BY <1>1, LenProperties, ElementOfSeq
<1> QED
  BY <1>2 DEF Changes

\* A step that leaves the row, its history and the calls alone.
LEMMA OutsideIInv ==
  ASSUME IInv, TypeOK', ConfirmedBefore', UNCHANGED <<row, log, call, serial>>,
         \A p \in Presses : confirmedAt[p] # -1 => confirmedAt'[p] = confirmedAt[p]
  PROVE  IInv'
<1>1. RowsStay' /\ CallIsFresh' /\ HistoryIsAChain' /\ ReviewIsRecorded'
  BY DEF IInv, RowsStay, CallIsFresh, HistoryIsAChain, ReviewIsRecorded, Reviewing
<1>2. CallsPermitted'
  <2> SUFFICES ASSUME NEW o \in Operators, call[o] # None
               PROVE  Permitted(call[o])'
    BY DEF CallsPermitted
  <2>1. Permitted(call[o]) /\ call[o] \in Calls
    BY DEF IInv, CallsPermitted, TypeOK
  <2>2. call'[o] = call[o]
    OBVIOUS
  <2>3. call[o].read # None => call[o].read.since \in Nat /\ call[o].at \in Nat
    BY <2>1 DEF Calls, Rows
  <2>4. confirmedAt' \in [Presses -> Nat \cup {-1}]
    BY DEF TypeOK
  <2> QED
    BY <2>1, <2>2, <2>3, <2>4, GatesStayOpen DEF Permitted, StageOf
<1>3. EnforcementIsEarned'
  <2> SUFFICES ASSUME serial, StageOf(row) = "enforcement"
               PROVE  \E k, i \in DOMAIN log : k < i /\ Earned(k, i)'
    BY DEF EnforcementIsEarned
  <2>1. PICK k \in DOMAIN log, i \in DOMAIN log : k < i /\ Earned(k, i)
    BY DEF IInv, EnforcementIsEarned
  <2>2. log[k].at \in Nat /\ log[i].at \in Nat
    BY LogType
  <2>3. Cardinality(Confirmed(log[k].at, log[i].at)) >= MinConfirmations
    BY <2>1 DEF Earned, Confirmed
  <2>4. Cardinality(Confirmed(log[k].at, log[i].at)') >= MinConfirmations
    BY <2>2, <2>3, GatesStayOpen DEF TypeOK
  <2>5. Earned(k, i)'
    BY <2>1, <2>4 DEF Earned, Confirmed
  <2> QED
    BY <2>1, <2>5
<1> QED
  BY <1>1, <1>2, <1>3 DEF IInv

LEMMA OtherIInv ==
  ASSUME IInv,
         \/ \E p \in Presses : Confirm(p)
         \/ \E categories \in SUBSET Categories : ShipEligibility(categories)
         \/ DayPasses
         \/ UNCHANGED vars
  PROVE  IInv'
<1>1. TypeOK' /\ ConfirmedBefore'
  BY BoundAssumption DEF IInv, TypeOK, ConfirmedBefore, Confirm, ShipEligibility, DayPasses, vars
<1> QED
  BY <1>1, OutsideIInv DEF Confirm, ShipEligibility, DayPasses, vars, IInv, TypeOK

-----------------------------------------------------------------------------
\* change_stage reads and checks.
LEMMA AskIInv ==
  ASSUME IInv, NEW o \in Operators, NEW to \in Modes, NEW wanted \in SUBSET Categories,
         Ask(o, to, wanted)
  PROVE  IInv'
<1> DEFINE c == [read |-> row, to |-> to, wanted |-> wanted, at |-> now]
<1>1. /\ c \in Calls /\ c.read = row /\ c.to = to /\ c.at = now
      /\ call' = [call EXCEPT ![o] = c]
      /\ UNCHANGED <<row, log, confirmedAt, eligible, now>>
      /\ serial' = (serial /\ \A p \in Operators : call[p] = None)
  BY DEF Ask, Calls, IInv, TypeOK
<1> HIDE DEF c
<1>2. \A p \in Operators : call'[p] = IF p = o THEN c ELSE call[p]
  BY <1>1 DEF IInv, TypeOK
<1>3. TypeOK'
  BY <1>1 DEF IInv, TypeOK
<1>4. RowsStay' /\ ConfirmedBefore'
  BY <1>1, <1>2 DEF IInv, RowsStay, ConfirmedBefore
<1>5. CallsPermitted'
  <2>1. Permitted(c)
    <3>1. /\ StageIndex(to) <= StageIndex(StageOf(row)) + 1
          /\ to = "enforcement" /\ StageOf(row) # "enforcement" => EntryAllowed(wanted)
      BY DEF Ask, ChangeAllowed
    <3>2. ASSUME EntryAllowed(wanted)
          PROVE  Cardinality(Confirmed(row.since, now)) >= MinConfirmations
      <4>1. \A p \in Presses : confirmedAt[p] \in Int /\ confirmedAt[p] <= now /\ now \in Nat
        BY DEF IInv, TypeOK, ConfirmedBefore
      <4>2. row.since \in Nat
        BY <3>2 DEF EntryAllowed, IInv, TypeOK, Rows
      <4>3. Confirmed(row.since, now) = {p \in Presses : confirmedAt[p] >= row.since}
        BY <4>1, <4>2 DEF Confirmed
      <4> QED
        BY <3>2, <4>3 DEF EntryAllowed, ConfirmationsSince
    <3> QED
      BY <1>1, <3>1, <3>2 DEF Permitted, EntryAllowed
  <2>2. \A d : Permitted(d)' <=> Permitted(d)
    BY <1>1 DEF Permitted, Confirmed, StageOf
  <2> QED
    BY <1>2, <2>1, <2>2 DEF IInv, CallsPermitted
<1>6. CallIsFresh'
  <2>1. serial' => \A p \in Operators : call[p] = None
    BY <1>1
  <2> QED
    BY <1>1, <1>2, <2>1 DEF CallIsFresh
<1>7. HistoryIsAChain' /\ ReviewIsRecorded'
  BY <1>1 DEF IInv, HistoryIsAChain, ReviewIsRecorded, Reviewing
<1>8. EnforcementIsEarned'
  BY <1>1 DEF IInv, EnforcementIsEarned, Earned, StageOf
<1> QED
  BY <1>3, <1>4, <1>5, <1>6, <1>7, <1>8 DEF IInv

-----------------------------------------------------------------------------
\* change_stage writes.  What a write makes of the row and of the history:
LEMMA WriteType ==
  ASSUME IInv, NEW c \in Calls,
         \/ c.read = None /\ row' = Inserted(c)
         \/ c.read # None /\ row \in Rows /\ row' = Written(c)
  PROVE  /\ row' \in Rows /\ row' # None /\ Change(c) \in Changes
         /\ Change(c).to = c.to /\ Change(c).at = c.at /\ Change(c).categories = c.wanted
         /\ Change(c).from = IF c.read = None THEN None ELSE c.read.stage
         /\ c.read = row =>
              /\ row'.stage = c.to /\ row'.categories = c.wanted
              /\ row'.since = IF row # None /\ row.stage = c.to THEN row.since ELSE c.at
<1>1. /\ c.read \in Rows \cup {None} /\ c.to \in Modes
      /\ c.wanted \in SUBSET Categories /\ c.at \in Nat
  BY DEF Calls
<1>2. row' \in Rows
  <2>1. CASE c.read = None /\ row' = Inserted(c)
    BY <1>1, <2>1 DEF Inserted, Rows
  <2>2. CASE row \in Rows /\ row' = Written(c)
    <3>1. /\ row.stage \in Modes /\ row.since \in Nat /\ row.categories \in SUBSET Categories
          /\ row = [stage |-> row.stage, categories |-> row.categories, since |-> row.since]
      BY <2>2 DEF Rows
    <3>2. row' = [stage |-> IF c.read.stage # c.to THEN c.to ELSE row.stage,
                  categories |-> IF c.read.categories # c.wanted THEN c.wanted ELSE row.categories,
                  since |-> IF c.read.stage # c.to THEN c.at ELSE row.since]
      BY <2>2, <3>1 DEF Written
    <3> QED
      BY <1>1, <3>1, <3>2 DEF Rows
  <2> QED
    BY <2>1, <2>2
<1>3. None \notin Rows
  BY NoneAssumption DEF Rows
<1>4. Change(c) \in Changes
  BY <1>1, <1>3 DEF Change, Changes, Rows
<1>5. ASSUME c.read = row
      PROVE  /\ row'.stage = c.to /\ row'.categories = c.wanted
             /\ row'.since = IF row # None /\ row.stage = c.to THEN row.since ELSE c.at
  <2>1. CASE c.read = None
    BY <1>5, <2>1 DEF Inserted
  <2>2. CASE c.read # None
    BY <1>5, <2>2, <1>3 DEF Written, Rows
  <2> QED
    BY <2>1, <2>2
<1> QED
  BY <1>2, <1>3, <1>4, <1>5 DEF Change

\* One more change of a repository whose row is as the call had read it.
LEMMA Recorded ==
  ASSUME IInv, serial, NEW c \in Calls, Permitted(c), c.read = row,
         log' = Append(log, Change(c)), Change(c) \in Changes,
         Change(c).to = c.to, Change(c).at = c.at, Change(c).categories = c.wanted,
         Change(c).from = IF c.read = None THEN None ELSE c.read.stage,
         row' # None, row'.stage = c.to, row'.categories = c.wanted,
         row'.since = IF row # None /\ row.stage = c.to THEN row.since ELSE c.at,
         confirmedAt' = confirmedAt
  PROVE  HistoryIsAChain' /\ ReviewIsRecorded' /\ EnforcementIsEarned'
<1>0. PICK n \in Nat : n = Len(log) + 1
  BY LogType
<1>1. /\ Len(log) \in Nat /\ DOMAIN log = 1 .. Len(log)
      /\ \A i \in DOMAIN log : log[i] \in Changes /\ log[i].at \in Nat
  BY LogType
<1>2. /\ Len(log') = n /\ DOMAIN log' = 1 .. n /\ log'[n] = Change(c)
      /\ \A i \in DOMAIN log : log'[i] = log[i]
      /\ log' # <<>>
  <2>1. log \in Seq(Changes)
    BY DEF IInv, TypeOK
  <2>2. log' \in Seq(Changes) /\ Len(log') = n
    BY <1>0, <2>1, AppendProperties
  <2>3. DOMAIN log' = 1 .. n
    BY <2>2, LenProperties
  <2> QED
    BY <1>0, <1>1, <2>1, <2>2, <2>3, AppendProperties
<1>3. n \in DOMAIN log' /\ n \notin DOMAIN log /\ DOMAIN log \subseteq DOMAIN log'
      /\ \A i \in DOMAIN log' : i \in DOMAIN log \/ i = n
  BY <1>0, <1>1, <1>2
<1>4. HistoryIsAChain'
  <2>1. ASSUME NEW i \in DOMAIN log'
        PROVE  log'[i].from = IF i = 1 THEN None ELSE log'[i - 1].to
    <3>1. CASE i \in DOMAIN log
      BY <1>1, <1>2, <3>1 DEF IInv, HistoryIsAChain
    <3>2. CASE i = n
      <4>1. log = <<>> <=> Len(log) = 0
        BY EmptySeq DEF IInv, TypeOK
      <4>2. CASE i = 1
        <5>1. log = <<>>
          BY <1>0, <1>1, <3>2, <4>1, <4>2
        <5>2. row = None
          BY <5>1 DEF IInv, HistoryIsAChain
        <5> QED
          BY <1>2, <3>2, <4>2, <5>2
      <4>3. CASE i # 1
        <5>1. i - 1 \in DOMAIN log /\ i - 1 = Len(log)
          BY <1>0, <1>1, <3>2, <4>3
        <5>2. log # <<>> /\ row # None /\ log'[i - 1].to = row.stage
          BY <1>2, <4>1, <5>1 DEF IInv, HistoryIsAChain
        <5> QED
          BY <1>2, <3>2, <4>3, <5>2
      <4> QED
        BY <4>2, <4>3
    <3> QED
      BY <1>3, <3>1, <3>2
  <2> QED
    BY <1>2, <2>1 DEF HistoryIsAChain
<1>5. ASSUME NEW k \in DOMAIN log, Reviewing(k)
      PROVE  \A m \in k .. Len(log) : log'[m].to = "human_review"
  BY <1>1, <1>2, <1>5 DEF Reviewing
<1>6. ReviewIsRecorded'
  <2> SUFFICES ASSUME row'.stage = "human_review"
               PROVE  \E k \in DOMAIN log' : Reviewing(k)'
    BY DEF ReviewIsRecorded
  <2>1. CASE row # None /\ row.stage = "human_review"
    <3>1. PICK k \in DOMAIN log : Reviewing(k)
      BY <2>1 DEF IInv, ReviewIsRecorded
    <3>2. \A m \in k .. n : log'[m].to = "human_review"
      BY <1>0, <1>1, <1>2, <1>5, <3>1
    <3>3. log'[k].at = row'.since
      BY <1>2, <2>1, <3>1 DEF Reviewing
    <3>4. Reviewing(k)'
      BY <1>2, <3>2, <3>3 DEF Reviewing
    <3> QED
      BY <1>3, <3>4
  <2>2. CASE ~(row # None /\ row.stage = "human_review")
    <3>1. Reviewing(n)'
      BY <1>0, <1>1, <1>2, <2>2 DEF Reviewing
    <3> QED
      BY <1>3, <3>1
  <2> QED
    BY <2>1, <2>2
<1>7. EnforcementIsEarned'
  <2> SUFFICES ASSUME row'.stage = "enforcement"
               PROVE  \E k, i \in DOMAIN log' : k < i /\ Earned(k, i)'
    BY DEF EnforcementIsEarned, StageOf
  <2>1. CASE StageOf(row) = "enforcement"
    <3>1. PICK k \in DOMAIN log, i \in DOMAIN log : k < i /\ Earned(k, i)
      BY <2>1 DEF IInv, EnforcementIsEarned
    <3>2. \A m \in k .. i - 1 : log'[m].to = "human_review"
      BY <1>1, <1>2, <3>1 DEF Earned
    <3>3. \A m \in i .. n : log'[m].to = "enforcement"
      BY <1>0, <1>1, <1>2, <3>1 DEF Earned
    <3>4. Earned(k, i)'
      BY <1>2, <3>1, <3>2, <3>3 DEF Earned
    <3> QED
      BY <1>3, <3>1, <3>4
  <2>2. CASE StageOf(row) # "enforcement"
    <3>1. /\ row # None /\ row.stage = "human_review"
          /\ c.at - row.since >= MinDays
          /\ Cardinality(Confirmed(row.since, c.at)) >= MinConfirmations
      BY <2>2 DEF Permitted
    <3>2. PICK k \in DOMAIN log : Reviewing(k)
      BY <3>1 DEF IInv, ReviewIsRecorded
    <3>3. \A m \in k .. n - 1 : log'[m].to = "human_review"
      BY <1>0, <1>1, <1>5, <3>2
    <3>4. \A m \in n .. Len(log') : log'[m].to = "enforcement"
      BY <1>1, <1>2
    <3>5. log'[k].at = row.since /\ log'[n].at = c.at
      BY <1>2, <3>2 DEF Reviewing
    <3>6. Cardinality({p \in Presses : confirmedAt[p] \in log'[k].at .. log'[n].at})
             >= MinConfirmations
      BY <3>1, <3>5 DEF Confirmed
    <3>7. Earned(k, n)'
      BY <3>1, <3>3, <3>4, <3>5, <3>6 DEF Earned
    <3> QED
      BY <1>0, <1>1, <1>3, <3>2, <3>7
  <2> QED
    BY <2>1, <2>2
<1> QED
  BY <1>4, <1>6, <1>7

LEMMA CommitIInv ==
  ASSUME IInv, NEW o \in Operators, Commit(o)
  PROVE  IInv'
<1> DEFINE c == call[o]
<1>1. /\ c \in Calls /\ c # None /\ Permitted(c)
      /\ call' = [call EXCEPT ![o] = None]
      /\ UNCHANGED <<confirmedAt, eligible, now, serial>>
  BY DEF Commit, IInv, TypeOK, CallsPermitted
<1>2. \A p \in Operators : call'[p] = IF p = o THEN None ELSE call[p]
  BY <1>1 DEF IInv, TypeOK
<1>3. CASE UNCHANGED <<row, log>>
  <2>1. TypeOK'
    BY <1>1, <1>3 DEF IInv, TypeOK
  <2>2. RowsStay' /\ ConfirmedBefore' /\ CallIsFresh'
    BY <1>1, <1>2, <1>3 DEF IInv, RowsStay, ConfirmedBefore, CallIsFresh
  <2>3. CallsPermitted'
    BY <1>1, <1>2 DEF IInv, CallsPermitted, Permitted, Confirmed, StageOf
  <2>4. row' = row /\ log' = log /\ serial' = serial /\ confirmedAt' = confirmedAt
    BY <1>1, <1>3
  <2>5. HistoryIsAChain'
    BY <2>4 DEF IInv, HistoryIsAChain, StageOf
  <2>6. ReviewIsRecorded'
    BY <2>4 DEF IInv, ReviewIsRecorded, Reviewing
  <2>7. EnforcementIsEarned'
    BY <2>4 DEF IInv, EnforcementIsEarned, Earned, StageOf
  <2> QED
    BY <2>1, <2>2, <2>3, <2>5, <2>6, <2>7 DEF IInv
<1>4. CASE ~UNCHANGED <<row, log>>
  <2>1. /\ \/ c.read = None /\ row' = Inserted(c)
           \/ c.read # None /\ row \in Rows /\ row' = Written(c)
        /\ log' = Append(log, Change(c))
    BY <1>1, <1>4 DEF Commit, IInv, TypeOK, RowsStay
  <2>2. /\ row' \in Rows /\ row' # None /\ Change(c) \in Changes
        /\ Change(c).to = c.to /\ Change(c).at = c.at /\ Change(c).categories = c.wanted
        /\ Change(c).from = IF c.read = None THEN None ELSE c.read.stage
        /\ c.read = row =>
             /\ row'.stage = c.to /\ row'.categories = c.wanted
             /\ row'.since = IF row # None /\ row.stage = c.to THEN row.since ELSE c.at
    BY <1>1, <2>1, WriteType
  <2>3. TypeOK'
    <3>1. log' \in Seq(Changes)
      BY <2>1, <2>2, AppendProperties DEF IInv, TypeOK
    <3> QED
      BY <1>1, <2>2, <3>1 DEF IInv, TypeOK
  <2>4. RowsStay' /\ ConfirmedBefore'
    BY <1>1, <2>2 DEF IInv, RowsStay, ConfirmedBefore
  <2>5. CallsPermitted'
    BY <1>1, <1>2 DEF IInv, CallsPermitted, Permitted, Confirmed, StageOf
  <2>6. CallIsFresh'
    BY <1>1, <1>2 DEF IInv, CallIsFresh
  <2>7. HistoryIsAChain' /\ ReviewIsRecorded' /\ EnforcementIsEarned'
    <3>1. CASE serial
      <4>1. c.read = row
        BY <1>1, <3>1 DEF IInv, CallIsFresh
      <4> HIDE DEF c
      <4> QED
        BY <1>1, <2>1, <2>2, <3>1, <4>1, Recorded
    <3>2. CASE ~serial
      BY <1>1, <3>2 DEF HistoryIsAChain, ReviewIsRecorded, EnforcementIsEarned
    <3> QED
      BY <3>1, <3>2
  <2> QED
    BY <2>3, <2>4, <2>5, <2>6, <2>7 DEF IInv
<1> QED
  BY <1>3, <1>4

LEMMA NextIInv == IInv /\ [Next]_vars => IInv'
  BY AskIInv, CommitIInv, OtherIInv DEF Next

\* The inductive invariant holds in every behaviour of the rollout.
THEOREM RolloutInvariant == Spec => []IInv
  BY InitIInv, NextIInv, PTL DEF Spec

\* Type correctness of the row, its history, the confirmations and the calls.
THEOREM RolloutTypeCorrect == Spec => []TypeOK
<1>1. IInv => TypeOK
  BY DEF IInv
<1> QED
  BY <1>1, RolloutInvariant, PTL

\* While operators take turns, the append-only history is an unbroken account of the
\* row: each change starts where the one before it ended (enforcement/stages.py).
THEOREM HistoryIsComplete == Spec => []HistoryIsAChain
<1>1. IInv => HistoryIsAChain
  BY DEF IInv
<1> QED
  BY <1>1, RolloutInvariant, PTL

\* While operators take turns, no order of promotions, demotions, confirmations and
\* days lets a repository enforce without the required human review right before.
THEOREM EnforcementIsAlwaysEarned == Spec => []EnforcementIsEarned
<1>1. IInv => EnforcementIsEarned
  BY DEF IInv
<1> QED
  BY <1>1, RolloutInvariant, PTL

-----------------------------------------------------------------------------
\* What a step does to the mode the worker applies.
LEMMA ClimbStep ==
  ASSUME Default.mode # "observe", IInv, [Next]_vars, serial'
  PROVE  Climb
<1>1. Default.mode \in Modes
  BY DefaultAssumption DEF PolicyConfigs
<1>2. \A m \in Modes : StageIndex(m) \in 0 .. 3
  BY StageIndexOrder DEF Modes
<1>3. Effective.mode \in Modes
  BY <1>1 DEF Effective, ImplicitPolicy, OptedInPolicy, IInv, TypeOK, Rows, Modes
<1>4. ASSUME row' = row
      PROVE  Effective'.mode = Effective.mode
  <2>1. CASE row = None
    BY <1>4, <2>1 DEF Effective, ImplicitPolicy
  <2>2. CASE row # None
    BY <1>4, <2>2 DEF Effective, OptedInPolicy
  <2> QED
    BY <2>1, <2>2
<1>5. CASE row' = row
  BY <1>2, <1>3, <1>4, <1>5 DEF Climb
<1>6. CASE row' # row
  <2>1. PICK o \in Operators : Commit(o)
    BY <1>6 DEF Next, Ask, Confirm, ShipEligibility, DayPasses, vars
  <2> DEFINE c == call[o]
  <2>2. c \in Calls /\ c # None /\ Permitted(c) /\ serial
    BY <2>1 DEF Commit, IInv, TypeOK, CallsPermitted
  <2>3. c.read = row
    BY <2>2 DEF IInv, CallIsFresh
  <2>4. \/ c.read = None /\ row' = Inserted(c)
        \/ c.read # None /\ row \in Rows /\ row' = Written(c)
    BY <1>6, <2>1, <2>2, <2>3 DEF Commit, IInv, TypeOK, RowsStay
  <2>5. row' # None /\ row'.stage = c.to
    BY <2>2, <2>3, <2>4, WriteType
  <2>6. Effective'.mode = c.to /\ c.to \in Modes
    BY <2>2, <2>5 DEF Effective, OptedInPolicy, Calls
  <2>7. StageIndex(c.to) <= StageIndex(StageOf(row)) + 1
    BY <2>2, <2>3 DEF Permitted
  <2>8. StageIndex(StageOf(row)) <= StageIndex(Effective.mode)
    <3>1. CASE row = None
      BY <1>1, <3>1, StageIndexOrder DEF StageOf, Effective, ImplicitPolicy, Modes
    <3>2. CASE row # None
      <4>1. Effective.mode = row.stage /\ StageOf(row) = row.stage /\ row.stage \in Modes
        BY <3>2 DEF StageOf, Effective, OptedInPolicy, IInv, TypeOK, Rows
      <4> QED
        BY <1>2, <4>1
    <3> QED
      BY <3>1, <3>2
  <2>9. StageOf(row) \in Modes
    BY DEF StageOf, Modes, IInv, TypeOK, Rows
  <2> QED
    BY <1>2, <1>3, <2>6, <2>7, <2>8, <2>9 DEF Climb
<1> QED
  BY <1>5, <1>6

\* While operators take turns, what the worker applies to a repository rises by at
\* most one stage per step.  A worker that only observes is the exception: a first
\* opt-in is counted from advisory (IMPLICIT_STAGE), two stages above it.
THEOREM TurnsClimbByOne ==
  ASSUME Default.mode # "observe"
  PROVE  Spec => SerialClimb
<1>1. IInv /\ [Next]_vars => [serial' => Climb]_vars
  BY ClimbStep
<1> QED
  BY <1>1, RolloutInvariant, PTL DEF Spec, SerialClimb
=============================================================================
