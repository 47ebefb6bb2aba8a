---------------------------- MODULE RolloutStages ----------------------------
(***************************************************************************)
(* How a repository climbs from observe to enforcement: change_stage and   *)
(* its gates (enforcement/stages.py), the confirmations that open one of   *)
(* them (advisory/jobs.py record_confirmation) and the append-only history.*)
(*                                                                         *)
(* change_stage reads the row, decides, and writes in one transaction that *)
(* locks nothing before the write, so a call is two steps.  An UPDATE sets *)
(* only the columns whose value differs from the row that was read.        *)
(***************************************************************************)
EXTENDS Integers, Sequences, FiniteSets, PolicyDecision

CONSTANTS
    Operators,          \* people running `verireview repo-policy set`
    Presses,            \* the <<head, reviewer>> pairs that may be confirmed
    MinDays,            \* enforcement_min_human_review_days
    MinConfirmations,   \* enforcement_min_confirmations
    Default,            \* the worker's PolicyConfig (the global settings)
    MaxNow,             \* bound: days
    MaxChanges,         \* bound: stage changes
    None                \* no row, no call

ASSUME GateAssumption == MinDays \in Nat /\ MinConfirmations \in Nat
ASSUME PressesAssumption == IsFiniteSet(Presses)
ASSUME DefaultAssumption == Default \in PolicyConfigs
ASSUME BoundAssumption == MaxNow \in Nat /\ MaxChanges \in Nat
ASSUME NoneAssumption == None \notin [stage : Modes, categories : SUBSET Categories, since : Nat]

VARIABLES
    row,           \* the RepositoryPolicy row, or None
    log,           \* RepositoryPolicyChange, oldest first
    confirmedAt,   \* confirmedAt[p]: the day p was first confirmed, or -1
    eligible,      \* the categories the shipped evidence makes eligible
    now,           \* the day
    call,          \* call[o]: operator o's call of change_stage, or None
    serial         \* no two calls overlapped so far

vars == <<row, log, confirmedAt, eligible, now, call, serial>>

Rows == [stage : Modes, categories : SUBSET Categories, since : Nat]

Changes == [from : Modes \cup {None}, to : Modes, categories : SUBSET Categories, at : Nat]

Calls == [read : Rows \cup {None}, to : Modes, wanted : SUBSET Categories, at : Nat]

TypeOK ==
    /\ row \in Rows \cup {None}
    /\ log \in Seq(Changes)
    /\ confirmedAt \in [Presses -> Nat \cup {-1}]
    /\ eligible \subseteq Categories
    /\ now \in Nat
    /\ call \in [Operators -> Calls \cup {None}]
    /\ serial \in BOOLEAN

Init ==
    /\ row = None
    /\ log = <<>>
    /\ confirmedAt = [p \in Presses |-> -1]
    /\ eligible \in SUBSET Categories
    /\ now = 0
    /\ call = [o \in Operators |-> None]
    /\ serial = TRUE

-----------------------------------------------------------------------------
\* IMPLICIT_STAGE: where a repository without a row is promoted from.
StageOf(r) == IF r = None THEN "advisory" ELSE r.stage

\* confirmations_since
ConfirmationsSince(day) == Cardinality({p \in Presses : confirmedAt[p] >= day})

\* _check_categories
CategoriesAllowed(wanted) == wanted # {} /\ wanted \subseteq eligible

\* _check_enforcement_entry
EntryAllowed(wanted) ==
    /\ CategoriesAllowed(wanted)
    /\ row # None
    /\ row.stage = "human_review"
    /\ now - row.since >= MinDays
    /\ ConfirmationsSince(row.since) >= MinConfirmations

\* Faulty variant: only the entry into enforcement is checked.
ChangeAllowedSkipping(to, wanted) ==
    /\ to # "enforcement" => wanted = {}
    /\ to = "enforcement" => IF StageOf(row) = "enforcement" THEN CategoriesAllowed(wanted)
                                                            ELSE EntryAllowed(wanted)

\* What change_stage refuses, it refuses by raising StageChangeError.
ChangeAllowed(to, wanted) ==
    /\ StageIndex(to) <= StageIndex(StageOf(row)) + 1
    /\ to # "enforcement" => wanted = {}
    /\ to = "enforcement" => IF StageOf(row) = "enforcement" THEN CategoriesAllowed(wanted)
                                                            ELSE EntryAllowed(wanted)

\* change_stage up to its write: the row is read and every rule is checked.
Ask(o, to, wanted) ==
    /\ call[o] = None
    /\ Len(log) < MaxChanges
    /\ ChangeAllowed(to, wanted)
    /\ call' = [call EXCEPT ![o] = [read |-> row, to |-> to, wanted |-> wanted, at |-> now]]
    /\ serial' = (serial /\ \A p \in Operators : call[p] = None)
    /\ UNCHANGED <<row, log, confirmedAt, eligible, now>>

\* Faulty variant: stage_since survives a change of stage.
WrittenUndated(c) ==
    [row EXCEPT !.stage = IF c.read.stage # c.to THEN c.to ELSE @,
                !.categories = IF c.read.categories # c.wanted THEN c.wanted ELSE @]

\* Faulty variant: a demotion leaves the enforced categories in place.
WrittenKeepingCategories(c) ==
    [row EXCEPT !.stage = IF c.read.stage # c.to THEN c.to ELSE @,
                !.since = IF c.read.stage # c.to THEN c.at ELSE @,
                !.categories = IF c.to = "enforcement" THEN c.wanted ELSE @]

\* The row an UPDATE leaves: the columns that differ from what the call had read.
Written(c) ==
    [row EXCEPT !.stage = IF c.read.stage # c.to THEN c.to ELSE @,
                !.since = IF c.read.stage # c.to THEN c.at ELSE @,
                !.categories = IF c.read.categories # c.wanted THEN c.wanted ELSE @]

\* Faulty variant: a new row gets no stage_since.
InsertedUndated(c) == [stage |-> c.to, since |-> None, categories |-> c.wanted]

\* A first opt-in.
Inserted(c) == [stage |-> c.to, since |-> c.at, categories |-> c.wanted]

Change(c) == [from |-> IF c.read = None THEN None ELSE c.read.stage,
              to |-> c.to, categories |-> c.wanted, at |-> c.at]

\* The write and its history entry, in one transaction.  An INSERT that finds a
\* row violates the unique constraint, and the whole transaction is rolled back.
Commit(o) ==
    LET c == call[o] IN
    /\ c # None
    /\ IF c.read = None
       THEN IF row = None THEN /\ row' = Inserted(c)
                               /\ log' = Append(log, Change(c))
                          ELSE UNCHANGED <<row, log>>
       ELSE /\ row' = Written(c)
            /\ log' = Append(log, Change(c))
    /\ call' = [call EXCEPT ![o] = None]
    /\ UNCHANGED <<confirmedAt, eligible, now, serial>>

-----------------------------------------------------------------------------
\* record_confirmation, ON CONFLICT DO NOTHING: the first press of a reviewer at a
\* head counts, in whatever stage the repository is by then.
Confirm(p) ==
    /\ confirmedAt[p] = -1
    /\ confirmedAt' = [confirmedAt EXCEPT ![p] = now]
    /\ UNCHANGED <<row, log, eligible, now, call, serial>>

ShipEligibility(categories) ==
    /\ eligible' = categories
    /\ UNCHANGED <<row, log, confirmedAt, now, call, serial>>

DayPasses ==
    /\ now < MaxNow
    /\ now' = now + 1
    /\ UNCHANGED <<row, log, confirmedAt, eligible, call, serial>>

Next ==
    \/ \E o \in Operators, to \in Modes, wanted \in SUBSET Categories : Ask(o, to, wanted)
    \/ \E o \in Operators : Commit(o)
    \/ \E p \in Presses : Confirm(p)
    \/ \E categories \in SUBSET Categories : ShipEligibility(categories)
    \/ DayPasses

Spec == Init /\ [][Next]_vars

-----------------------------------------------------------------------------
(* Properties. *)

\* effective_policy
Effective ==
    IF row = None THEN ImplicitPolicy(Default) ELSE OptedInPolicy(row, Default, eligible)

\* The history shows an unbroken stretch of human review, from change k to the
\* change i that entered enforcement, as long and as well confirmed as required.
Earned(k, i) ==
    /\ \A m \in k .. i - 1 : log[m].to = "human_review"
    /\ \A m \in i .. Len(log) : log[m].to = "enforcement"
    /\ log[i].at - log[k].at >= MinDays
    /\ Cardinality({p \in Presses : confirmedAt[p] \in log[k].at .. log[i].at})
            >= MinConfirmations

\* A repository enforces only after it earned it in the review period that led
\* there: days and confirmations of an earlier period, before a demotion, or of
\* the enforcement period itself never count.
EnforcementIsEarned ==
    serial /\ StageOf(row) = "enforcement" =>
        \E k, i \in DOMAIN log : k < i /\ Earned(k, i)

\* The append-only history is a chain that ends at the repository's row: no
\* change of stage or categories goes unrecorded or is recorded from the wrong
\* stage ("Every change is recorded").
HistoryIsAChain ==
    serial =>
        /\ log = <<>> <=> row = None
        /\ \A i \in DOMAIN log : log[i].from = IF i = 1 THEN None ELSE log[i - 1].to
        /\ log # <<>> => /\ row.stage = log[Len(log)].to
                         /\ row.categories = log[Len(log)].categories

Climb == StageIndex(Effective'.mode) <= StageIndex(Effective.mode) + 1

\* What the worker applies to a repository rises one stage at a time, as long as
\* no two operators change its stage at once.
SerialClimb == [][serial' => Climb]_vars

\* "One stage at a time upwards", unconditionally.  It does not hold: a call
\* writes the next stage of the row it read, after another call demoted it.
OneStageAtATime == [][Climb]_vars
=============================================================================
