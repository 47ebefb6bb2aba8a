------------------------- MODULE CheckPublicationProofs -------------------------
(***************************************************************************)
(* Proofs about the checks, for any number of workers, jobs, threads, head *)
(* commits, stage changes and failures.                                    *)
(*                                                                         *)
(* FailureIsBacked is about the last link of a chain: a check shows rows a *)
(* worker copied, which an earlier job audited, under the policy that job  *)
(* had read.  The inductive invariant says of each link what the check     *)
(* needs of it, and remembers (enforcedSets) what was enforced then.       *)
(***************************************************************************)
EXTENDS CheckPublication, PolicyDecisionProofs, SequenceTheorems

\* A job that was submitted asks for something.
TasksKnown == \A j \in Jobs : phase[j] # "absent" => task[j] \in Tasks

\* A worker at work has a job, a policy and a head; where it needs them, the
\* thread it ingests and the rows it read.
WorkersKnow ==
    \A w \in Workers :
        LET l == local[w] IN
        /\ l.pc # "idle" => /\ l.job \in Jobs
                            /\ l.policy \in PolicyConfigs
                            /\ l.head \in Heads
                            /\ task[l.job] \in Tasks
        /\ l.pc = "ingesting" => l.comment \in Comments /\ l.head <= head
        /\ l.pc \in {"looking", "writing"} => l.rows \in [Comments -> AuditRows \cup {None}]

\* A row is filed under its head and is about code no older than that; a BLOCK
\* rests on failed requirements that some job found enforced.
RowBacked(row, h, sets) ==
    /\ row # None => row.head = h /\ row.code >= h
    /\ row # None /\ row.action = "BLOCK" =>
        /\ row.failed # {}
        /\ \E set \in sets : row.failed \subseteq set

AuditBacked == \A h \in Heads, c \in Comments : RowBacked(audit[h][c], h, enforcedSets)

\* ... and so do the rows a worker has read and will publish.
ReadBacked ==
    \A w \in Workers : local[w].pc \in {"looking", "writing"} =>
        \A c \in Comments : RowBacked(local[w].rows[c], local[w].head, enforcedSets)

\* What a worker takes for enforced, a job (its own) found enforced.
PolicyRemembered ==
    \A w \in Workers : local[w].pc # "idle" /\ local[w].policy.mode = "enforcement" =>
        local[w].policy.enforced \in enforcedSets

IInv ==
    /\ TypeOK
    /\ TasksKnown
    /\ WorkersKnow
    /\ AuditBacked
    /\ ReadBacked
    /\ PolicyRemembered
    /\ FailureIsBacked

-----------------------------------------------------------------------------
LEMMA InitIInv == Init => IInv
<1> SUFFICES ASSUME Init PROVE IInv
  OBVIOUS
<1>1. TypeOK
  <2>1. Idle \in Locals
    BY DEF Idle, Locals, Points
  <2>2. 1 \in Heads
    BY NumberAssumption DEF Heads
  <2>3. phase \in [Jobs -> Queue!Phases] /\ attempts \in [Jobs -> 0 .. MaxAttempts]
    BY NumberAssumption DEF Init, Queue!Init, Queue!Phases
  <2>4. runs \in [Heads -> Seq(Checks)]
    BY DEF Init
  <2> QED
    BY <2>1, <2>2, <2>3, <2>4, RowsAssumption, NumberAssumption DEF Init, TypeOK, NoRows
<1>2. TasksKnown /\ WorkersKnow /\ ReadBacked /\ PolicyRemembered
  BY DEF Init, Queue!Init, Idle, TasksKnown, WorkersKnow, ReadBacked, PolicyRemembered
<1>3. AuditBacked
  BY DEF Init, NoRows, AuditBacked, RowBacked
<1>4. FailureIsBacked
  BY DEF Init, FailureIsBacked, Shown
<1> QED
  BY <1>1, <1>2, <1>3, <1>4 DEF IInv

-----------------------------------------------------------------------------
(* What never gets worse: sets found enforced are not forgotten. *)

LEMMA AuditStays ==
  ASSUME AuditBacked, audit' = audit, enforcedSets \subseteq enforcedSets'
  PROVE  AuditBacked'
  BY DEF AuditBacked, RowBacked

LEMMA ChecksStay ==
  ASSUME FailureIsBacked, runs' = runs, enforcedSets \subseteq enforcedSets'
  PROVE  FailureIsBacked'
  BY DEF FailureIsBacked, Shown, Backed

\* A step outside the workers that leaves them, the audit and the checks alone.
LEMMA OutsideIInv ==
  ASSUME IInv, TypeOK', TasksKnown',
         UNCHANGED <<local, audit, runs, enforcedSets>>, head <= head',
         \A j \in Jobs : task[j] \in Tasks => task'[j] \in Tasks
  PROVE  IInv'
<1>1. AuditBacked' /\ FailureIsBacked'
  BY AuditStays, ChecksStay DEF IInv
<1>2. WorkersKnow'
  <2>1. head \in Nat /\ head' \in Nat /\ \A h \in Heads : h \in Nat
    BY DEF IInv, TypeOK, Heads
  <2> QED
    BY <2>1 DEF IInv, WorkersKnow
<1>3. ReadBacked' /\ PolicyRemembered'
  BY DEF IInv, ReadBacked, PolicyRemembered
<1> QED
  BY <1>1, <1>2, <1>3 DEF IInv

\* A worker's step, which takes it to the variables l.
LEMMA WorkerIInv ==
  ASSUME IInv, TypeOK', TasksKnown', AuditBacked', FailureIsBacked',
         NEW w \in Workers, NEW l \in Locals,
         local' = [local EXCEPT ![w] = l],
         task' = task, head' = head,
         enforcedSets \subseteq enforcedSets',
         l.pc # "idle" => /\ l.job \in Jobs /\ task[l.job] \in Tasks
                          /\ l.policy \in PolicyConfigs /\ l.head \in Heads
                          /\ l.policy.mode = "enforcement" =>
                                l.policy.enforced \in enforcedSets',
         l.pc = "ingesting" => l.comment \in Comments /\ l.head <= head,
         l.pc \in {"looking", "writing"} =>
            /\ l.rows \in [Comments -> AuditRows \cup {None}]
            /\ \A c \in Comments : RowBacked(l.rows[c], l.head, enforcedSets)
  PROVE  IInv'
<1>1. \A v \in Workers : local'[v] = IF v = w THEN l ELSE local[v]
  BY DEF IInv, TypeOK
<1>2. WorkersKnow'
  BY <1>1 DEF IInv, WorkersKnow
<1>3. ReadBacked'
  BY <1>1 DEF IInv, ReadBacked, RowBacked
<1>4. PolicyRemembered'
  BY <1>1 DEF IInv, PolicyRemembered
<1> QED
  BY <1>2, <1>3, <1>4 DEF IInv

-----------------------------------------------------------------------------
(* GitHub and the settings. *)

LEMMA TaskTypes ==
  ASSUME NEW h \in Heads
  PROVE  /\ [kind |-> "pull_request", head |-> h] \in Tasks
         /\ \A c \in Comments : [kind |-> "thread", head |-> h, comment |-> c] \in Tasks
         /\ \A r \in Reviewers : [kind |-> "confirm", head |-> h, reviewer |-> r] \in Tasks
  BY DEF Tasks

LEMMA Happened ==
  ASSUME IInv, NEW event, Happens(event)
  PROVE  events' \in 0 .. MaxEvents
<1>1. events \in 0 .. MaxEvents /\ MaxEvents \in Nat
  BY NumberAssumption DEF IInv, TypeOK
<1> QED
  BY <1>1 DEF Happens

LEMMA HeadType == ASSUME IInv PROVE head \in Heads /\ head \in Nat /\ head <= head
  BY DEF IInv, TypeOK, Heads

\* A delivery adds a job or is lost; it touches nothing else.
LEMMA Delivered ==
  ASSUME IInv, NEW t \in Tasks, Deliver(t)
  PROVE  /\ task' \in [Jobs -> Tasks \cup {None}]
         /\ phase' \in [Jobs -> Queue!Phases]
         /\ attempts' = attempts
         /\ events' \in 0 .. MaxEvents
         /\ enforcedSets' = enforcedSets /\ serial' = serial /\ answered' \in BOOLEAN
         /\ TasksKnown'
         /\ \A j \in Jobs : task[j] \in Tasks => task'[j] \in Tasks
<1>1. CASE /\ Happens("lost") /\ Unanswered /\ UNCHANGED queue
  <2>1. events' \in 0 .. MaxEvents
    BY <1>1, Happened
  <2> QED
    BY <1>1, <2>1 DEF Unanswered, queue, IInv, TypeOK, TasksKnown
<1>2. ASSUME NEW j \in Jobs, Queue!Submit({j}), task' = [task EXCEPT ![j] = t],
             UNCHANGED <<events, history>>
      PROVE  /\ task' \in [Jobs -> Tasks \cup {None}]
             /\ phase' \in [Jobs -> Queue!Phases]
             /\ attempts' = attempts
             /\ events' \in 0 .. MaxEvents
             /\ enforcedSets' = enforcedSets /\ serial' = serial /\ answered' \in BOOLEAN
             /\ TasksKnown'
             /\ \A i \in Jobs : task[i] \in Tasks => task'[i] \in Tasks
  BY <1>2 DEF Queue!Submit, Queue!Phases, history, IInv, TypeOK, TasksKnown
<1> QED
  BY <1>1, <1>2 DEF Deliver

LEMMA EventIInv ==
  ASSUME IInv,
         \/ Push
         \/ \E c \in Comments : Resolve(c) \/ Unresolve(c)
         \/ \E h \in Heads : Rerun(h) \/ \E r \in Reviewers : PressConfirm(h, r)
  PROVE  IInv'
<1>1. ASSUME NEW t \in Tasks, Deliver(t), Elsewhere, UNCHANGED runs,
             head' \in Heads, head <= head', resolved' \subseteq Comments
      PROVE  IInv'
  <2>1. TypeOK' /\ TasksKnown'
    BY <1>1, Delivered DEF Elsewhere, settings, records, IInv, TypeOK
  <2> QED
    BY <1>1, <2>1, Delivered, OutsideIInv DEF Elsewhere, records
<1>2. CASE Push
  <2>1. head' \in Heads /\ head <= head'
    BY <1>2, NumberAssumption DEF Push, Heads, IInv, TypeOK
  <2> QED
    BY <1>1, <1>2, <2>1, TaskTypes DEF Push, IInv, TypeOK
<1>3. ASSUME NEW c \in Comments, Resolve(c)
      PROVE  IInv'
  BY <1>1, <1>3, HeadType, TaskTypes DEF Resolve, IInv, TypeOK
<1>4. ASSUME NEW c \in Comments, Unresolve(c)
      PROVE  IInv'
  <2>1. TypeOK' /\ TasksKnown'
    BY <1>4 DEF Unresolve, Elsewhere, queue, history, settings, records, IInv, TypeOK, TasksKnown
  <2> QED
    BY <1>4, <2>1, HeadType, OutsideIInv DEF Unresolve, Elsewhere, queue, history, records
<1>5. ASSUME NEW h \in Heads, Rerun(h)
      PROVE  IInv'
  BY <1>1, <1>5, HeadType, TaskTypes DEF Rerun, github, IInv, TypeOK
<1>6. ASSUME NEW h \in Heads, NEW r \in Reviewers, PressConfirm(h, r)
      PROVE  IInv'
  BY <1>1, <1>6, HeadType, TaskTypes DEF PressConfirm, github, IInv, TypeOK
<1> QED
  BY <1>2, <1>3, <1>4, <1>5, <1>6

LEMMA SettingsIInv ==
  ASSUME IInv,
         \/ \E stage \in Modes, cs \in SUBSET Categories : ChangeStage(stage, cs)
         \/ \E cs \in SUBSET Categories : ShipEligibility(cs)
  PROVE  IInv'
<1>1. /\ UNCHANGED <<github, records, queue, local, history>>
      /\ policyRow' \in PolicyRows \cup {None} /\ eligible' \subseteq Categories
      /\ events' \in 0 .. MaxEvents
  BY NumberAssumption DEF ChangeStage, ShipEligibility, Happens, PolicyRows, IInv, TypeOK
<1>2. TypeOK' /\ TasksKnown'
  BY <1>1 DEF github, records, queue, history, IInv, TypeOK, TasksKnown
<1> QED
  BY <1>1, <1>2, HeadType, OutsideIInv DEF github, records, queue, history

-----------------------------------------------------------------------------
(* The workers. *)

LEMMA EffectivePolicyType ==
  ASSUME IInv
  PROVE  /\ EffectivePolicy \in PolicyConfigs
         /\ EffectivePolicy.mode = "enforcement" =>
                /\ CurrentStage = "enforcement"
                /\ EffectivePolicy.enforced = policyRow.categories \cap eligible
<1>1. CASE policyRow = None
  BY <1>1, DefaultAssumption, ImplicitPolicyType DEF EffectivePolicy, ImplicitPolicy
<1>2. CASE policyRow # None
  <2>1. policyRow \in PolicyRows /\ eligible \in SUBSET Categories
    BY <1>2 DEF IInv, TypeOK
  <2>2. EffectivePolicy = OptedInPolicy(policyRow, Default, eligible)
    BY <1>2 DEF EffectivePolicy
  <2> QED
    BY <1>2, <2>1, <2>2, DefaultAssumption, OptedInPolicyType DEF OptedInPolicy, CurrentStage
<1> QED
  BY <1>1, <1>2

\* The variables of worker w, and what is known of them while it works.
LEMMA LocalType ==
  ASSUME IInv, NEW w \in Workers
  PROVE  /\ local[w] \in Locals
         /\ local[w].pc # "idle" =>
                /\ local[w].job \in Jobs /\ task[local[w].job] \in Tasks
                /\ local[w].policy \in PolicyConfigs /\ local[w].head \in Heads
                /\ local[w].policy.mode = "enforcement" =>
                        local[w].policy.enforced \in enforcedSets
         /\ local[w].pc = "ingesting" => local[w].comment \in Comments /\ local[w].head <= head
         /\ local[w].pc \in {"looking", "writing"} =>
                /\ local[w].rows \in [Comments -> AuditRows \cup {None}]
                /\ \A c \in Comments : RowBacked(local[w].rows[c], local[w].head, enforcedSets)
  BY DEF IInv, TypeOK, WorkersKnow, ReadBacked, PolicyRemembered

LEMMA IdleType == Idle \in Locals /\ Idle.pc = "idle"
  BY DEF Idle, Locals, Points

\* A step that only moves a worker along: everything else keeps its value.
LEMMA LocalIInv ==
  ASSUME IInv, NEW w \in Workers, NEW l \in Locals,
         local' = [local EXCEPT ![w] = l],
         UNCHANGED <<head, resolved, runs, policyRow, eligible, audit, task, phase, attempts>>,
         confirmed' \in [Heads -> SUBSET Reviewers],
         events' = events /\ enforcedSets' = enforcedSets,
         serial' \in BOOLEAN, answered' \in BOOLEAN,
         local[w].pc # "idle",
         l.pc # "idle", l.job = local[w].job, l.policy = local[w].policy, l.head \in Heads,
         l.pc = "ingesting" => l.comment \in Comments /\ l.head <= head,
         l.pc \in {"looking", "writing"} =>
            /\ l.rows \in [Comments -> AuditRows \cup {None}]
            /\ \A c \in Comments : RowBacked(l.rows[c], l.head, enforcedSets)
  PROVE  IInv'
<1>1. TypeOK'
  BY DEF IInv, TypeOK
<1>2. TasksKnown'
  BY DEF IInv, TasksKnown
<1>3. AuditBacked' /\ FailureIsBacked'
  BY AuditStays, ChecksStay DEF IInv
<1> QED
  BY <1>1, <1>2, <1>3, LocalType, WorkerIInv

LEMMA BeginIInv ==
  ASSUME IInv, NEW w \in Workers, Begin(w)
  PROVE  IInv'
<1>1. PICK j \in Jobs :
        /\ Queue!Take(j, "active")
        /\ Goes(w, [Idle EXCEPT !.pc = "listing", !.job = j, !.policy = EffectivePolicy,
                                !.head = task[j].head])
  BY DEF Begin
<1> DEFINE l == [Idle EXCEPT !.pc = "listing", !.job = j, !.policy = EffectivePolicy,
                             !.head = task[j].head]
<1>2. task[j] \in Tasks /\ task[j].head \in Heads
  BY <1>1 DEF Queue!Take, IInv, TasksKnown, Tasks
<1>3. l \in Locals /\ l.pc = "listing" /\ l.job = j /\ l.policy = EffectivePolicy
      /\ l.head = task[j].head
  BY <1>2, EffectivePolicyType DEF Idle, Locals, Points
<1>4. enforcedSets \subseteq enforcedSets' /\ enforcedSets' \subseteq SUBSET Categories
  BY DEF Begin, IInv, TypeOK
<1>5. l.policy.mode = "enforcement" => l.policy.enforced \in enforcedSets'
  BY <1>3, EffectivePolicyType DEF Begin
<1>6. /\ phase' \in [Jobs -> Queue!Phases] /\ attempts' \in [Jobs -> 0 .. MaxAttempts]
      /\ TasksKnown'
  <2>1. attempts[j] \in 0 .. MaxAttempts /\ attempts[j] < MaxAttempts /\ MaxAttempts \in Nat
    BY <1>1, NumberAssumption DEF Queue!Take, IInv, TypeOK
  <2> QED
    BY <1>1, <1>2, <2>1 DEF Begin, Queue!Take, Queue!Phases, IInv, TypeOK, TasksKnown
<1> HIDE DEF l
<1>7. TypeOK'
  <2>1. local' \in [Workers -> Locals]
    BY <1>1, <1>3 DEF Goes, l, IInv, TypeOK
  <2>2. serial' \in BOOLEAN
    BY DEF Begin
  <2> QED
    BY <1>4, <1>6, <2>1, <2>2 DEF Begin, github, settings, records, IInv, TypeOK
<1>8. AuditBacked' /\ FailureIsBacked'
  BY <1>4, AuditStays, ChecksStay DEF Begin, github, records, IInv
<1>9. local' = [local EXCEPT ![w] = l] /\ task' = task /\ head' = head
  BY <1>1 DEF Goes, Begin, github, l
<1> QED
  BY <1>2, <1>3, <1>4, <1>5, <1>6, <1>7, <1>8, <1>9, EffectivePolicyType, WorkerIInv

\* The steps of process() that read and write the worker's own variables, and the
\* confirmations: none of them touches the audit or a check.
LEMMA QuietIInv ==
  ASSUME IInv, NEW w \in Workers,
         \/ RecordConfirmation(w) \/ ListThreads(w) \/ ReadPull(w)
         \/ SkipPublishing(w) \/ ReadRows(w) \/ LookUpCheck(w)
  PROVE  IInv'
<1> USE DEF At, Goes, Quietly, github, settings, records, queue, history
<1>1. CASE RecordConfirmation(w)
  <2> DEFINE l == [local[w] EXCEPT !.pc = "reading"]
  <2>1. local[w] \in Locals /\ local[w].pc = "listing" /\ local[w].head \in Heads
    BY <1>1, LocalType DEF RecordConfirmation
  <2>2. /\ l \in Locals /\ l.pc = "reading" /\ l.job = local[w].job
        /\ l.policy = local[w].policy /\ l.head = local[w].head
    BY <2>1 DEF Locals, Points
  <2>3. confirmed' \in [Heads -> SUBSET Reviewers]
    <3>1. /\ task[local[w].job] \in Tasks /\ task[local[w].job].kind = "confirm"
          /\ confirmed \in [Heads -> SUBSET Reviewers]
      BY <1>1, <2>1, LocalType DEF RecordConfirmation, IInv, TypeOK
    <3>2. task[local[w].job].reviewer \in Reviewers
      BY <3>1 DEF Tasks
    <3> QED
      BY <1>1, <3>1, <3>2 DEF RecordConfirmation
  <2>4. serial' \in BOOLEAN /\ answered' \in BOOLEAN
    BY <1>1 DEF RecordConfirmation, IInv, TypeOK
  <2> QED
    BY <1>1, <2>1, <2>2, <2>3, <2>4, LocalIInv DEF RecordConfirmation
<1> DEFINE MovesTo(l) ==
        /\ l \in Locals /\ local' = [local EXCEPT ![w] = l]
        /\ local[w].pc # "idle"
        /\ l.pc # "idle" /\ l.job = local[w].job /\ l.policy = local[w].policy
        /\ l.head \in Heads
        /\ l.pc = "ingesting" => l.comment \in Comments /\ l.head <= head
        /\ l.pc \in {"looking", "writing"} =>
                /\ l.rows \in [Comments -> AuditRows \cup {None}]
                /\ \A c \in Comments : RowBacked(l.rows[c], l.head, enforcedSets)
<1>2. ASSUME NEW l, MovesTo(l),
             UNCHANGED <<github, settings, records, queue>>,
             UNCHANGED <<events, enforcedSets, serial>>, answered' \in BOOLEAN
      PROVE  IInv'
  <2>1. confirmed' \in [Heads -> SUBSET Reviewers] /\ serial' \in BOOLEAN
    BY <1>2 DEF IInv, TypeOK
  <2> QED
    BY <1>2, <2>1, LocalIInv
<1>3. CASE ListThreads(w)
  <2> DEFINE t == task[local[w].job]
             todo == IF t.kind = "thread" THEN {t.comment} ELSE resolved
             l == [local[w] EXCEPT !.pc = "verifying", !.todo = todo]
  <2>1. /\ local[w] \in Locals /\ local[w].pc = "listing"
        /\ local[w].head \in Heads /\ t \in Tasks
    BY <1>3, LocalType DEF ListThreads
  <2>2. todo \subseteq Comments
    BY <2>1 DEF Tasks, IInv, TypeOK
  <2>3. MovesTo(l)
    <3> HIDE DEF todo
    <3>1. /\ l \in Locals /\ l.pc = "verifying" /\ l.job = local[w].job
          /\ l.policy = local[w].policy /\ l.head = local[w].head
      BY <2>1, <2>2 DEF Locals, Points
    <3>2. local' = [local EXCEPT ![w] = l]
      BY <1>3 DEF ListThreads, todo
    <3> QED
      BY <2>1, <3>1, <3>2
  <2> QED
    BY <1>2, <1>3, <2>3 DEF ListThreads, IInv, TypeOK
<1>4. CASE ReadPull(w)
  <2>1. PICK c \in local[w].todo :
            local' = [local EXCEPT ![w] = [local[w] EXCEPT !.pc = "ingesting", !.comment = c,
                                                  !.head = head, !.todo = @ \ {c}]]
    BY <1>4 DEF ReadPull
  <2> DEFINE l == [local[w] EXCEPT !.pc = "ingesting", !.comment = c, !.head = head,
                                   !.todo = @ \ {c}]
  <2>2. /\ local[w] \in Locals /\ local[w].pc = "verifying" /\ head \in Heads
    BY <1>4, LocalType DEF ReadPull, IInv, TypeOK
  <2>3. c \in Comments
    BY <2>1, <2>2 DEF Locals
  <2>4. /\ l \in Locals /\ l.pc = "ingesting" /\ l.job = local[w].job /\ l.comment = c
        /\ l.policy = local[w].policy /\ l.head = head
    BY <2>2, <2>3 DEF Locals, Points
  <2>5. MovesTo(l)
    BY <2>1, <2>2, <2>3, <2>4, HeadType
  <2> QED
    BY <1>2, <1>4, <2>5 DEF ReadPull, IInv, TypeOK
<1>5. CASE SkipPublishing(w)
  <2> DEFINE l == [local[w] EXCEPT !.pc = "finishing"]
  <2>1. local[w] \in Locals /\ local[w].pc # "idle" /\ local[w].head \in Heads
    BY <1>5, LocalType DEF SkipPublishing, HasVerified
  <2>2. /\ l \in Locals /\ l.pc = "finishing" /\ l.job = local[w].job
        /\ l.policy = local[w].policy /\ l.head = local[w].head
    BY <2>1 DEF Locals, Points
  <2>3. MovesTo(l)
    BY <1>5, <2>1, <2>2 DEF SkipPublishing
  <2> QED
    BY <1>2, <1>5, <2>3 DEF SkipPublishing, IInv, TypeOK
<1>6. CASE ReadRows(w)
  <2> DEFINE l == [local[w] EXCEPT !.pc = "looking", !.rows = audit[local[w].head],
                                   !.reviewers = confirmed[local[w].head]]
  <2>1. local[w] \in Locals /\ local[w].pc # "idle" /\ local[w].head \in Heads
    BY <1>6, LocalType DEF ReadRows, HasVerified
  <2>2. /\ audit[local[w].head] \in [Comments -> AuditRows \cup {None}]
        /\ confirmed[local[w].head] \subseteq Reviewers
    BY <2>1 DEF IInv, TypeOK
  <2>3. /\ l \in Locals /\ l.pc = "looking" /\ l.job = local[w].job
        /\ l.policy = local[w].policy /\ l.head = local[w].head
        /\ l.rows = audit[local[w].head]
    BY <2>1, <2>2 DEF Locals, Points
  <2>4. \A c \in Comments : RowBacked(l.rows[c], l.head, enforcedSets)
    BY <2>1, <2>3 DEF IInv, AuditBacked
  <2>5. MovesTo(l)
    BY <1>6, <2>1, <2>2, <2>3, <2>4 DEF ReadRows
  <2> QED
    BY <1>2, <1>6, <2>5 DEF ReadRows, IInv, TypeOK
<1>7. CASE LookUpCheck(w)
  <2> DEFINE found == Len(runs[local[w].head])
             l == [local[w] EXCEPT !.pc = "writing", !.found = found]
  <2>1. local[w] \in Locals /\ local[w].pc = "looking" /\ local[w].head \in Heads
    BY <1>7, LocalType DEF LookUpCheck
  <2>2. found \in Nat
    BY <2>1, LenProperties DEF IInv, TypeOK
  <2> HIDE DEF found
  <2>3. /\ l \in Locals /\ l.pc = "writing" /\ l.job = local[w].job
        /\ l.policy = local[w].policy /\ l.head = local[w].head /\ l.rows = local[w].rows
    BY <2>1, <2>2 DEF Locals, Points
  <2>4. MovesTo(l)
    BY <1>7, <2>1, <2>3, LocalType DEF LookUpCheck, found
  <2> QED
    BY <1>2, <1>7, <2>4 DEF LookUpCheck, IInv, TypeOK
<1> QED
  BY <1>1, <1>3, <1>4, <1>5, <1>6, <1>7

\* What is audited as a BLOCK rests on the categories the worker's policy enforces,
\* which its job found enforced when it began.
LEMMA AuditIInv ==
  ASSUME IInv, NEW w \in Workers, Audit(w)
  PROVE  IInv'
<1> DEFINE old == local[w]
           l == [old EXCEPT !.pc = "verifying", !.comment = None]
<1>1. /\ old \in Locals /\ old.pc = "ingesting" /\ old.comment \in Comments
      /\ old.head \in Heads /\ old.head <= head /\ old.policy \in PolicyConfigs
      /\ old.policy.mode = "enforcement" => old.policy.enforced \in enforcedSets
  BY LocalType DEF Audit, At
<1>2. PICK result \in Results :
        audit' = [audit EXCEPT ![old.head][old.comment] =
                    [n |-> Number(@) + 1, head |-> old.head, code |-> head,
                     action |-> Decide(result, old.policy), failed |-> result.failed]]
  BY DEF Audit
<1> DEFINE row == [n |-> Number(audit[old.head][old.comment]) + 1, head |-> old.head, code |-> head,
                   action |-> Decide(result, old.policy), failed |-> result.failed]
<1>3. result \in VerificationResults
  BY ResultsAssumption
<1>4. row \in AuditRows
  <2>1. audit[old.head][old.comment] \in AuditRows \cup {None}
    BY <1>1 DEF IInv, TypeOK
  <2>2. Number(audit[old.head][old.comment]) + 1 \in Nat \ {0}
    BY <2>1 DEF Number, AuditRows
  <2> QED
    BY <1>1, <1>3, <2>2, DecideType DEF AuditRows, VerificationResults, IInv, TypeOK
<1>5. RowBacked(row, old.head, enforcedSets)
  <2>1. row.head = old.head /\ row.code >= old.head
    BY <1>1 DEF IInv, TypeOK, Heads
  <2> QED
    BY <1>1, <1>3, <2>1, BlockNeedsEveryLock DEF RowBacked
<1> HIDE DEF row
<1>6. \A h \in Heads, c \in Comments :
        audit'[h][c] = IF h = old.head /\ c = old.comment THEN row ELSE audit[h][c]
  BY <1>1, <1>2 DEF row, IInv, TypeOK
<1>7. audit' \in [Heads -> [Comments -> AuditRows \cup {None}]]
  BY <1>1, <1>2, <1>4 DEF row, IInv, TypeOK
<1>8. l \in Locals /\ l.pc = "verifying" /\ l.job = old.job /\ l.policy = old.policy
      /\ l.head = old.head
  BY <1>1 DEF Locals, Points
<1> HIDE DEF l
<1>9. /\ local' = [local EXCEPT ![w] = l]
      /\ UNCHANGED <<head, resolved, runs, policyRow, eligible, confirmed, task, phase,
                     attempts, events, enforcedSets, serial, answered>>
  BY DEF Audit, Goes, Quietly, github, settings, queue, history, l
<1>10. TypeOK' /\ TasksKnown'
  BY <1>7, <1>8, <1>9 DEF IInv, TypeOK, TasksKnown
<1>11. AuditBacked'
  BY <1>5, <1>6, <1>9 DEF IInv, AuditBacked
<1>12. FailureIsBacked'
  BY <1>9, ChecksStay DEF IInv
<1> QED
  BY <1>1, <1>8, <1>9, <1>10, <1>11, <1>12, LocalType, WorkerIInv

\* The check a worker renders fails only if a row it read is a BLOCK.
LEMMA CheckIsBacked ==
  ASSUME IInv, NEW w \in Workers, At(w, "writing")
  PROVE  /\ Check(local[w]) \in Checks
         /\ Check(local[w]).conclusion = "failure" => Backed(local[w].head, Check(local[w]))
<1> DEFINE l == local[w]
           actions == {l.rows[c].action : c \in {d \in Comments : l.rows[d] # None}}
<1>1. /\ l \in Locals /\ l.policy \in PolicyConfigs
      /\ l.rows \in [Comments -> AuditRows \cup {None}]
      /\ \A c \in Comments : RowBacked(l.rows[c], l.head, enforcedSets)
  BY LocalType DEF At
<1>2. Check(l) = [conclusion |-> ConclusionFor(actions, l.policy), rows |-> l.rows,
                  policy |-> l.policy, reviewers |-> l.reviewers]
  BY DEF Check
<1>3. Check(l) \in Checks
  BY <1>1, <1>2 DEF Checks, ConclusionFor, Locals
<1>4. ASSUME Check(l).conclusion = "failure"
      PROVE  Backed(l.head, Check(l))
  <2>1. l.policy.mode = "enforcement" /\ l.policy.allow_block /\ "BLOCK" \in actions
    BY <1>2, <1>4 DEF ConclusionFor
  <2>2. PICK c \in Comments : l.rows[c] # None /\ l.rows[c].action = "BLOCK"
    BY <2>1
  <2> QED
    BY <1>1, <1>2, <2>1, <2>2 DEF Backed, RowBacked
<1> QED
  BY <1>3, <1>4

\* A check of worker w is appended to those of its head, or takes the place of one.
LEMMA ChecksWritten ==
  ASSUME IInv, NEW w \in Workers, At(w, "writing"), enforcedSets' = enforcedSets,
         \/ runs' = [runs EXCEPT ![local[w].head] = Append(@, Check(local[w]))]
         \/ runs' = [runs EXCEPT ![local[w].head][local[w].found] = Check(local[w])]
  PROVE  runs' \in [Heads -> Seq(Checks)] /\ FailureIsBacked'
<1> DEFINE h == local[w].head
           check == Check(local[w])
           Good(g, x) == x.conclusion = "failure" => Backed(g, x)
<1>1. h \in Heads /\ check \in Checks /\ Good(h, check)
  BY LocalType, CheckIsBacked DEF At
<1>2. runs \in [Heads -> Seq(Checks)]
  BY DEF IInv, TypeOK
<1>3. \A g \in Heads : \A i \in DOMAIN runs[g] : Good(g, runs[g][i])
  BY DEF IInv, FailureIsBacked, Shown
<1> HIDE DEF Good, check, h
<1>4. ASSUME \A g \in Heads : \A i \in DOMAIN runs'[g] : Good(g, runs'[g][i])
      PROVE  FailureIsBacked'
  <2>1. \A g, x : Good(g, x) => (x.conclusion = "failure" => Backed(g, x))
    BY DEF Good
  <2>2. \A g \in Heads : \A x \in {runs'[g][i] : i \in DOMAIN runs'[g]} :
            x.conclusion = "failure" => Backed(g, x)
    BY <1>4, <2>1
  <2> QED
    BY <2>2 DEF FailureIsBacked, Shown, Backed
<1>5. CASE runs' = [runs EXCEPT ![h] = Append(@, check)]
  <2>1. runs' \in [Heads -> Seq(Checks)]
    BY <1>1, <1>2, <1>5
  <2>2. \A g \in Heads : \A i \in DOMAIN runs'[g] : Good(g, runs'[g][i])
    BY <1>1, <1>2, <1>3, <1>5
  <2> QED
    BY <1>4, <2>1, <2>2
<1>6. CASE runs' = [runs EXCEPT ![h][local[w].found] = check]
  <2> DEFINE new == [runs[h] EXCEPT ![local[w].found] = check]
  <2>1. new \in Seq(Checks) /\ \A i \in DOMAIN new : Good(h, new[i])
    <3>1. runs[h] \in Seq(Checks) /\ \A i \in DOMAIN runs[h] : Good(h, runs[h][i])
      BY <1>1, <1>2, <1>3
    <3>2. CASE local[w].found \in DOMAIN runs[h]
      BY <1>1, <3>1, <3>2, ExceptSeq
    <3>3. CASE local[w].found \notin DOMAIN runs[h]
      <4>1. new = runs[h]
        BY <3>1, <3>3
      <4> QED
        BY <3>1, <4>1
    <3> QED
      BY <3>2, <3>3
  <2> HIDE DEF new
  <2>2. runs' = [runs EXCEPT ![h] = new]
    BY <1>6 DEF new
  <2>3. runs' \in [Heads -> Seq(Checks)]
    BY <1>1, <1>2, <2>1, <2>2
  <2>4. \A g \in Heads : \A i \in DOMAIN runs'[g] : Good(g, runs'[g][i])
    BY <1>1, <1>2, <1>3, <2>1, <2>2
  <2> QED
    BY <1>4, <2>3, <2>4
<1> QED
  BY <1>5, <1>6 DEF h, check

LEMMA WriteIInv ==
  ASSUME IInv, NEW w \in Workers, WriteCheck(w) \/ LoseResponse(w)
  PROVE  IInv'
<1> USE DEF github, settings, records, queue, history
<1>1. /\ At(w, "writing") /\ enforcedSets' = enforcedSets
      /\ \/ runs' = [runs EXCEPT ![local[w].head] = Append(@, Check(local[w]))]
         \/ runs' = [runs EXCEPT ![local[w].head][local[w].found] = Check(local[w])]
      /\ UNCHANGED <<head, resolved, settings, records, queue, answered>>
  BY DEF WriteCheck, LoseResponse, Quietly
<1>2. runs' \in [Heads -> Seq(Checks)] /\ FailureIsBacked'
  BY <1>1, ChecksWritten
<1>3. events' \in 0 .. MaxEvents /\ serial' \in BOOLEAN
  BY Happened DEF WriteCheck, LoseResponse, Quietly, IInv, TypeOK
<1>4. AuditBacked' /\ TasksKnown'
  BY <1>1 DEF IInv, AuditBacked, TasksKnown
<1>5. CASE WriteCheck(w)
  <2> DEFINE l == [local[w] EXCEPT !.pc = "finishing"]
  <2>1. l \in Locals /\ l.pc = "finishing" /\ l.job = local[w].job
        /\ l.policy = local[w].policy /\ l.head = local[w].head
    BY LocalType DEF Locals, Points
  <2> HIDE DEF l
  <2>2. local' = [local EXCEPT ![w] = l]
    BY <1>5 DEF WriteCheck, Goes, l
  <2>3. TypeOK'
    BY <1>1, <1>2, <1>3, <2>1, <2>2 DEF IInv, TypeOK
  <2> QED
    BY <1>1, <1>2, <1>4, <2>1, <2>2, <2>3, LocalType, WorkerIInv DEF At
<1>6. CASE LoseResponse(w)
  <2>1. local' = local
    BY <1>6 DEF LoseResponse
  <2>2. TypeOK'
    BY <1>1, <1>2, <1>3, <2>1 DEF IInv, TypeOK
  <2>3. WorkersKnow' /\ ReadBacked' /\ PolicyRemembered'
    BY <1>1, <2>1 DEF IInv, WorkersKnow, ReadBacked, PolicyRemembered
  <2> QED
    BY <1>2, <1>4, <2>2, <2>3 DEF IInv
<1> QED
  BY <1>5, <1>6

\* A job ends, well or not, and its worker forgets it.
LEMMA LeaveIInv ==
  ASSUME IInv, NEW w \in Workers, Complete(w) \/ Fail(w) \/ Crash(w)
  PROVE  IInv'
<1> USE DEF github, settings, records, history
<1>1. /\ local' = [local EXCEPT ![w] = Idle]
      /\ \E next \in Queue!Phases : Queue!Leave(local[w].job, next) /\ next # "absent"
      /\ UNCHANGED <<github, settings, records, task, enforcedSets, serial>>
      /\ answered' \in BOOLEAN
      /\ local[w].pc # "idle"
  BY DEF Complete, Fail, Crash, At, Goes, Quietly, Unanswered, Queue!Phases, IInv, TypeOK
<1>2. events' \in 0 .. MaxEvents
  BY Happened DEF Complete, Fail, Crash, Quietly, IInv, TypeOK
<1>3. local' \in [Workers -> Locals]
  BY <1>1, IdleType DEF IInv, TypeOK
<1>4. /\ phase' \in [Jobs -> Queue!Phases] /\ attempts' = attempts
      /\ \A j \in Jobs : phase'[j] # "absent" => phase[j] # "absent"
  BY <1>1 DEF Queue!Leave, Queue!Phases, IInv, TypeOK
<1>5. TypeOK' /\ TasksKnown'
  BY <1>1, <1>2, <1>3, <1>4 DEF IInv, TypeOK, TasksKnown
<1>6. AuditBacked' /\ FailureIsBacked'
  BY <1>1, AuditStays, ChecksStay DEF IInv
<1> QED
  BY <1>1, <1>5, <1>6, IdleType, WorkerIInv

LEMMA NextIInv == IInv /\ [Next]_vars => IInv'
<1> SUFFICES ASSUME IInv, [Next]_vars
             PROVE  IInv'
  OBVIOUS
<1>1. ASSUME NEW w \in Workers, Process(w)
      PROVE  IInv'
  BY <1>1, BeginIInv, QuietIInv, AuditIInv, WriteIInv, LeaveIInv DEF Process
<1>2. CASE UNCHANGED vars
  <2>1. TypeOK' /\ TasksKnown'
    BY <1>2 DEF vars, github, settings, records, queue, history, IInv, TypeOK, TasksKnown
  <2> QED
    BY <1>2, <2>1, HeadType, OutsideIInv DEF vars, github, records, queue, history
<1> QED
  BY <1>1, <1>2, EventIInv, SettingsIInv DEF Next

\* The inductive invariant holds in every behaviour of the checks.
THEOREM ChecksInvariant == Spec => []IInv
  BY InitIInv, NextIInv, PTL DEF Spec

\* Type correctness of GitHub's, the database's and the workers' state.
THEOREM ChecksTypeCorrect == Spec => []TypeOK
<1>1. IInv => TypeOK
  BY DEF IInv
<1> QED
  BY <1>1, ChecksInvariant, PTL

\* No interleaving of workers, pushes, stage changes, retries and crashes makes a
\* check fail without an audited BLOCK whose failed categories were all enforced.
THEOREM FailuresAreBacked == Spec => []FailureIsBacked
<1>1. IInv => FailureIsBacked
  BY DEF IInv
<1> QED
  BY <1>1, ChecksInvariant, PTL

-----------------------------------------------------------------------------
(***************************************************************************)
(* One job at a time.  While no two jobs overlap, what the only worker at  *)
(* work has read is still so when it writes; and as long as every delivery *)
(* is answered, each resolved thread is shown as it was last verified, or  *)
(* some job is yet to verify it or to show it.                             *)
(***************************************************************************)
Busy(w) == local[w].pc # "idle"

OneAtWork == \A v, w \in Workers : Busy(v) /\ Busy(w) => v = w

\* The job of a worker is the worker's until it leaves it.
JobsHeld == \A w \in Workers : Busy(w) => phase[local[w].job] = "active"

ReadIsFresh ==
    \A w \in Workers :
        /\ local[w].pc \in {"looking", "writing"} => local[w].rows = audit[local[w].head]
        /\ local[w].pc = "writing" => local[w].found = Len(runs[local[w].head])

\* No check shows a row younger than the newest one.
ChecksAreOlder ==
    \A h \in Heads : \A i \in DOMAIN runs[h] : \A c \in Comments :
        Number(runs[h][i].rows[c]) <= Number(audit[h][c])

OneCheck == \A h \in Heads : Len(runs[h]) <= 1

\* Running task t verifies thread c, if it is resolved by then.
Covers(t, c) == t.kind = "pull_request" \/ (t.kind = "thread" /\ t.comment = c)

\* What a worker has set out to verify, its task covers.
TodoIsCovered ==
    \A w \in Workers :
        /\ local[w].pc \in {"verifying", "ingesting"} =>
                \A c \in local[w].todo : Covers(task[local[w].job], c)
        /\ local[w].pc = "ingesting" => Covers(task[local[w].job], local[w].comment)

Current(c) ==
    /\ audit[head][c] # None
    /\ \E check \in Shown(head) : check.rows[c] = audit[head][c]

Waiting(c) == \E j \in Jobs : phase[j] = "waiting" /\ Covers(task[j], c)

\* A worker with these variables is to list, to ingest, to audit or to show thread c.
IsYetTo(l, c) ==
    /\ l.pc # "idle" /\ Covers(task[l.job], c)
    /\ \/ l.pc = "listing"
       \/ l.pc \in {"verifying", "ingesting"} /\ c \in l.todo
       \/ l.pc = "ingesting" /\ l.comment = c /\ l.head = head
       \/ l.pc \in {"verifying", "ingesting", "looking", "writing"}
             /\ l.head = head /\ audit[head][c] # None

Cared(c) == Current(c) \/ Waiting(c) \/ \E w \in Workers : IsYetTo(local[w], c)

SerialInv ==
    serial =>
        /\ OneAtWork
        /\ JobsHeld
        /\ ReadIsFresh
        /\ ChecksAreOlder
        /\ OneCheck
        /\ TodoIsCovered
        /\ answered => \A c \in resolved : Cared(c)

LEMMA InitSerial == Init => SerialInv
<1> SUFFICES ASSUME Init PROVE SerialInv
  OBVIOUS
<1>1. \A w \in Workers : ~Busy(w) /\ local[w].pc = "idle"
  BY DEF Init, Idle, Busy
<1>2. OneAtWork /\ JobsHeld /\ ReadIsFresh /\ TodoIsCovered
  BY <1>1 DEF OneAtWork, JobsHeld, ReadIsFresh, TodoIsCovered
<1>3. ChecksAreOlder /\ OneCheck
  BY DEF Init, ChecksAreOlder, OneCheck
<1> QED
  BY <1>2, <1>3 DEF Init, SerialInv

-----------------------------------------------------------------------------
(* Steps outside the workers. *)

\* A job a worker holds is not a job that is only now submitted.
LEMMA HeldTaskStays ==
  ASSUME IInv, JobsHeld, NEW t \in Tasks, Deliver(t)
  PROVE  /\ \A w \in Workers : Busy(w) => /\ task'[local[w].job] = task[local[w].job]
                                          /\ phase'[local[w].job] = "active"
         /\ \A c \in Comments : Waiting(c) => Waiting(c)'
         /\ answered' => answered /\ \A c \in Comments : Covers(t, c) => Waiting(c)'
         /\ serial' = serial
<1>1. CASE /\ Happens("lost") /\ Unanswered /\ UNCHANGED queue
  BY <1>1 DEF Unanswered, queue, JobsHeld, Waiting
<1>2. ASSUME NEW j \in Jobs, Queue!Submit({j}), task' = [task EXCEPT ![j] = t],
             UNCHANGED <<events, history>>
      PROVE  /\ \A w \in Workers : Busy(w) => /\ task'[local[w].job] = task[local[w].job]
                                              /\ phase'[local[w].job] = "active"
             /\ \A c \in Comments : Waiting(c) => Waiting(c)'
             /\ answered' => answered /\ \A c \in Comments : Covers(t, c) => Waiting(c)'
             /\ serial' = serial
  <2>1. /\ phase[j] = "absent" /\ phase'[j] = "waiting" /\ task'[j] = t
        /\ \A i \in Jobs : i # j => phase'[i] = phase[i] /\ task'[i] = task[i]
        /\ answered' = answered /\ serial' = serial
    BY <1>2 DEF Queue!Submit, history, IInv, TypeOK
  <2>2. \A w \in Workers : Busy(w) => local[w].job \in Jobs /\ local[w].job # j
    BY <2>1 DEF JobsHeld, Busy, IInv, WorkersKnow
  <2>3. \A c \in Comments : Waiting(c) => Waiting(c)'
    BY <2>1 DEF Waiting, Covers
  <2>4. \A c \in Comments : Covers(t, c) => Waiting(c)'
    BY <2>1 DEF Waiting, Covers
  <2> QED
    BY <2>1, <2>2, <2>3, <2>4 DEF JobsHeld
<1> QED
  BY <1>1, <1>2 DEF Deliver

\* What does not depend on resolved threads survives any step that leaves alone the
\* workers, the audit and the checks.
LEMMA OutsideSerial ==
  ASSUME OneAtWork, JobsHeld, ReadIsFresh, ChecksAreOlder, OneCheck, TodoIsCovered,
         UNCHANGED <<local, audit, runs>>,
         \A w \in Workers : Busy(w) => /\ task'[local[w].job] = task[local[w].job]
                                       /\ phase'[local[w].job] = "active"
  PROVE  OneAtWork' /\ JobsHeld' /\ ReadIsFresh' /\ ChecksAreOlder' /\ OneCheck' /\ TodoIsCovered'
<1>1. OneAtWork' /\ JobsHeld'
  BY DEF OneAtWork, JobsHeld, Busy
<1>2. ReadIsFresh' /\ ChecksAreOlder' /\ OneCheck'
  BY DEF ReadIsFresh, ChecksAreOlder, OneCheck
<1>3. TodoIsCovered'
  BY DEF TodoIsCovered, Busy, Covers
<1> QED
  BY <1>1, <1>2, <1>3

\* On the same head, a thread that was cared for still is.
LEMMA CareStays ==
  ASSUME NEW c \in Comments, Cared(c), UNCHANGED <<head, local, audit, runs>>,
         Waiting(c) => Waiting(c)',
         \A w \in Workers : Busy(w) => task'[local[w].job] = task[local[w].job]
  PROVE  Cared(c)'
<1>1. Current(c) => Current(c)'
  BY DEF Current, Shown
<1>2. \A w \in Workers : IsYetTo(local[w], c) => IsYetTo(local[w], c)'
  BY DEF IsYetTo, Busy, Covers
<1> QED
  BY <1>1, <1>2 DEF Cared

LEMMA EventSerial ==
  ASSUME IInv, SerialInv,
         \/ Push
         \/ \E c \in Comments : Resolve(c) \/ Unresolve(c)
         \/ \E h \in Heads : Rerun(h) \/ \E r \in Reviewers : PressConfirm(h, r)
  PROVE  SerialInv'
<1> SUFFICES ASSUME serial'
             PROVE  SerialInv'
  BY DEF SerialInv
<1>1. ASSUME NEW t \in Tasks, Deliver(t), Elsewhere, UNCHANGED runs, resolved' \subseteq Comments,
             \A c \in resolved' : (head' = head /\ c \in resolved) \/ Covers(t, c)
      PROVE  SerialInv'
  <2>1. serial /\ UNCHANGED <<local, audit, runs>>
    BY <1>1, HeldTaskStays DEF SerialInv, Elsewhere, records, Deliver, Unanswered, history
  <2>2. JobsHeld
    BY <2>1 DEF SerialInv
  <2>3. OneAtWork' /\ JobsHeld' /\ ReadIsFresh' /\ ChecksAreOlder' /\ OneCheck' /\ TodoIsCovered'
    BY <1>1, <2>1, <2>2, HeldTaskStays, OutsideSerial DEF SerialInv
  <2>4. ASSUME answered', NEW c \in resolved'
        PROVE  Cared(c)'
    <3>1. CASE Covers(t, c)
      BY <1>1, <2>2, <2>4, <3>1, HeldTaskStays DEF Cared
    <3>2. CASE head' = head /\ c \in resolved
      <4>1. answered /\ c \in Comments
        BY <1>1, <2>2, <2>4, HeldTaskStays
      <4>2. Cared(c)
        BY <2>1, <3>2, <4>1 DEF SerialInv
      <4> QED
        BY <1>1, <2>1, <2>2, <3>2, <4>1, <4>2, HeldTaskStays, CareStays
    <3> QED
      BY <1>1, <2>4, <3>1, <3>2
  <2> QED
    BY <2>3, <2>4 DEF SerialInv
<1>2. CASE Push
  <2>1. head' \in Heads /\ head <= head'
    BY <1>2, NumberAssumption DEF Push, Heads, IInv, TypeOK
  <2> DEFINE t == [kind |-> "pull_request", head |-> head']
  <2>2. t \in Tasks /\ \A c : Covers(t, c)
    BY <2>1, TaskTypes DEF Covers
  <2>3. Deliver(t) /\ Elsewhere /\ UNCHANGED <<runs, resolved>>
    BY <1>2 DEF Push
  <2> HIDE DEF t
  <2> QED
    BY <1>1, <2>2, <2>3 DEF IInv, TypeOK
<1>3. ASSUME NEW c \in Comments, Resolve(c)
      PROVE  SerialInv'
  <2> DEFINE t == [kind |-> "thread", head |-> head, comment |-> c]
  <2>1. t \in Tasks /\ Covers(t, c)
    BY TaskTypes DEF Covers, IInv, TypeOK
  <2>2. Deliver(t) /\ Elsewhere /\ UNCHANGED <<runs, head>> /\ resolved' = resolved \cup {c}
    BY <1>3 DEF Resolve
  <2> HIDE DEF t
  <2> QED
    BY <1>1, <2>1, <2>2 DEF IInv, TypeOK
<1>4. ASSUME NEW c \in Comments, Unresolve(c)
      PROVE  SerialInv'
  <2>1. /\ UNCHANGED <<head, local, audit, runs, task, phase, serial, answered>>
        /\ resolved' \subseteq resolved
    BY <1>4 DEF Unresolve, Elsewhere, records, queue, history
  <2>2. serial
    BY <2>1
  <2>3. \A w \in Workers : Busy(w) => /\ task'[local[w].job] = task[local[w].job]
                                      /\ phase'[local[w].job] = "active"
    BY <2>1, <2>2 DEF SerialInv, JobsHeld
  <2>4. OneAtWork' /\ JobsHeld' /\ ReadIsFresh' /\ ChecksAreOlder' /\ OneCheck' /\ TodoIsCovered'
    BY <2>1, <2>2, <2>3, OutsideSerial DEF SerialInv
  <2>5. ASSUME answered', NEW d \in resolved'
        PROVE  Cared(d)'
    <3>1. d \in Comments /\ Cared(d)
      BY <2>1, <2>2, <2>5 DEF SerialInv, IInv, TypeOK
    <3> QED
      BY <2>1, <2>3, <3>1, CareStays DEF Waiting, Covers
  <2> QED
    BY <2>4, <2>5 DEF SerialInv
<1>5. ASSUME NEW h \in Heads, Rerun(h)
      PROVE  SerialInv'
  BY <1>1, <1>5, TaskTypes DEF Rerun, github, IInv, TypeOK
<1>6. ASSUME NEW h \in Heads, NEW r \in Reviewers, PressConfirm(h, r)
      PROVE  SerialInv'
  BY <1>1, <1>6, TaskTypes DEF PressConfirm, github, IInv, TypeOK
<1> QED
  BY <1>2, <1>3, <1>4, <1>5, <1>6

LEMMA SettingsSerial ==
  ASSUME SerialInv,
         \/ \E stage \in Modes, cs \in SUBSET Categories : ChangeStage(stage, cs)
         \/ \E cs \in SUBSET Categories : ShipEligibility(cs)
         \/ UNCHANGED vars
  PROVE  SerialInv'
<1>1. UNCHANGED <<head, resolved, runs, audit, local, task, phase, serial, answered>>
  BY DEF ChangeStage, ShipEligibility, vars, github, records, queue, history
<1> QED
  BY <1>1 DEF SerialInv, OneAtWork, JobsHeld, ReadIsFresh, ChecksAreOlder, OneCheck, TodoIsCovered,
              Cared, Current, Waiting, IsYetTo, Busy, Covers, Shown

-----------------------------------------------------------------------------
(* The workers. *)

\* While one worker is at work, what it is yet to do is all that any worker is.
LEMMA OnlyWorker ==
  ASSUME OneAtWork, NEW w \in Workers, Busy(w), NEW c \in Comments,
         \E v \in Workers : IsYetTo(local[v], c)
  PROVE  IsYetTo(local[w], c)
  BY DEF OneAtWork, Busy, IsYetTo

\* The worker moves along; the audit, the checks and the queue keep their value.
LEMMA MoveSerial ==
  ASSUME IInv, SerialInv, serial', NEW w \in Workers, NEW l \in Locals,
         local' = [local EXCEPT ![w] = l],
         UNCHANGED <<head, resolved, runs, audit, task, phase, serial>>,
         answered' => answered,
         Busy(w), l.pc # "idle", l.job = local[w].job,
         l.pc \in {"looking", "writing"} => l.rows = audit[l.head],
         l.pc = "writing" => l.found = Len(runs[l.head]),
         l.pc \in {"verifying", "ingesting"} => \A c \in l.todo : Covers(task[l.job], c),
         l.pc = "ingesting" => Covers(task[l.job], l.comment),
         answered' => \A c \in resolved : IsYetTo(local[w], c) => IsYetTo(l, c)
  PROVE  SerialInv'
<1>1. \A v \in Workers : local'[v] = IF v = w THEN l ELSE local[v]
  BY DEF IInv, TypeOK
<1>2. serial /\ OneAtWork /\ JobsHeld /\ ReadIsFresh /\ ChecksAreOlder /\ OneCheck /\ TodoIsCovered
  BY DEF SerialInv
<1>3. OneAtWork' /\ JobsHeld'
  BY <1>1, <1>2 DEF OneAtWork, JobsHeld, Busy
<1>4. ReadIsFresh' /\ ChecksAreOlder' /\ OneCheck'
  BY <1>1, <1>2 DEF ReadIsFresh, ChecksAreOlder, OneCheck
<1>5. TodoIsCovered'
  BY <1>1, <1>2 DEF TodoIsCovered, Covers
<1>6. ASSUME answered', NEW c \in resolved'
      PROVE  Cared(c)'
  <2>1. c \in resolved /\ c \in Comments /\ Cared(c)
    BY <1>2, <1>6 DEF SerialInv, IInv, TypeOK
  <2>2. CASE Current(c)
    BY <2>2 DEF Cared, Current, Shown
  <2>3. CASE Waiting(c)
    BY <2>3 DEF Cared, Waiting, Covers
  <2>4. CASE \E v \in Workers : IsYetTo(local[v], c)
    <3>1. IsYetTo(l, c)
      BY <1>2, <1>6, <2>1, <2>4, OnlyWorker
    <3>2. IsYetTo(local[w], c)'
      BY <1>1, <3>1 DEF IsYetTo, Covers
    <3> QED
      BY <3>2 DEF Cared
  <2> QED
    BY <2>1, <2>2, <2>3, <2>4 DEF Cared
<1> QED
  BY <1>3, <1>4, <1>5, <1>6 DEF SerialInv

LEMMA QuietSerial ==
  ASSUME IInv, SerialInv, serial', NEW w \in Workers,
         \/ RecordConfirmation(w) \/ ListThreads(w) \/ ReadPull(w) \/ SkipPublishing(w)
         \/ ReadRows(w) \/ LookUpCheck(w)
  PROVE  SerialInv'
<1> USE DEF At, Goes, Quietly, github, settings, records, queue, history
<1> DEFINE old == local[w]
           t == task[old.job]
           MovesTo(l) ==
             /\ l \in Locals /\ local' = [local EXCEPT ![w] = l] /\ l.pc # "idle"
             /\ l.job = old.job
             /\ l.pc \in {"looking", "writing"} => l.rows = audit[l.head]
             /\ l.pc = "writing" => l.found = Len(runs[l.head])
             /\ l.pc \in {"verifying", "ingesting"} => \A c \in l.todo : Covers(t, c)
             /\ l.pc = "ingesting" => Covers(t, l.comment)
             /\ answered' => \A c \in resolved : IsYetTo(old, c) => IsYetTo(l, c)
<1>1. ASSUME NEW l, MovesTo(l), Busy(w),
             UNCHANGED <<head, resolved, runs, audit, task, phase, serial>>, answered' => answered
      PROVE  SerialInv'
  BY <1>1, MoveSerial
<1>2. serial
  BY DEF RecordConfirmation, ListThreads, ReadPull, SkipPublishing, ReadRows, LookUpCheck
<1>3. /\ ReadIsFresh /\ TodoIsCovered /\ old \in Locals
      /\ old.pc # "idle" => old.head \in Heads /\ t \in Tasks
  BY <1>2, LocalType DEF SerialInv
<1>4. CASE RecordConfirmation(w)
  <2> DEFINE l == [old EXCEPT !.pc = "reading"]
  <2>1. l \in Locals /\ l.pc = "reading" /\ l.job = old.job /\ old.pc = "listing" /\ t.kind = "confirm"
    BY <1>3, <1>4 DEF RecordConfirmation, Locals, Points
  <2>2. \A c : ~Covers(t, c)
    BY <2>1 DEF Covers
  <2>3. \A c : ~IsYetTo(old, c)
    BY <2>2 DEF IsYetTo
  <2>4. local' = [local EXCEPT ![w] = l]
    BY <1>4 DEF RecordConfirmation
  <2> HIDE DEF l
  <2>5. MovesTo(l)
    BY <2>1, <2>3, <2>4
  <2> QED
    BY <1>1, <1>4, <2>1, <2>5 DEF RecordConfirmation, Busy
<1>5. CASE ListThreads(w)
  <2> DEFINE todo == IF t.kind = "thread" THEN {t.comment} ELSE resolved
             l == [old EXCEPT !.pc = "verifying", !.todo = todo]
  <2>1. old.pc = "listing" /\ t.kind # "confirm" /\ t \in Tasks /\ old.head \in Heads
    BY <1>3, <1>5 DEF ListThreads
  <2>2. todo \subseteq Comments /\ \A c \in todo : Covers(t, c)
    BY <2>1 DEF Tasks, Covers, IInv, TypeOK
  <2>3. \A c \in resolved : Covers(t, c) => c \in todo
    BY <2>1 DEF Tasks, Covers
  <2>4. local' = [local EXCEPT ![w] = l]
    BY <1>5 DEF ListThreads
  <2> HIDE DEF todo
  <2>5. l \in Locals /\ l.pc = "verifying" /\ l.job = old.job /\ l.todo = todo
    BY <1>3, <2>2 DEF Locals, Points
  <2> HIDE DEF l
  <2>6. \A c \in resolved : IsYetTo(old, c) => IsYetTo(l, c)
    BY <2>3, <2>5 DEF IsYetTo
  <2>7. MovesTo(l)
    BY <2>2, <2>4, <2>5, <2>6
  <2> QED
    BY <1>1, <1>5, <2>1, <2>7 DEF ListThreads, Busy
<1>6. CASE ReadPull(w)
  <2>1. PICK c \in old.todo :
            local' = [local EXCEPT ![w] = [old EXCEPT !.pc = "ingesting", !.comment = c,
                                                      !.head = head, !.todo = @ \ {c}]]
    BY <1>6 DEF ReadPull
  <2> DEFINE l == [old EXCEPT !.pc = "ingesting", !.comment = c, !.head = head, !.todo = @ \ {c}]
  <2>2. old.pc = "verifying" /\ head \in Heads
    BY <1>6 DEF ReadPull, IInv, TypeOK
  <2>3. c \in Comments
    BY <1>3, <2>1 DEF Locals
  <2>4. /\ l \in Locals /\ l.pc = "ingesting" /\ l.job = old.job /\ l.comment = c
        /\ l.head = head /\ l.todo = old.todo \ {c}
    BY <1>3, <2>2, <2>3 DEF Locals, Points
  <2>5. local' = [local EXCEPT ![w] = l]
    BY <2>1
  <2> HIDE DEF l
  <2>6. \A d \in old.todo : Covers(t, d)
    BY <1>3, <2>2 DEF TodoIsCovered
  <2>7. \A d \in resolved : IsYetTo(old, d) => IsYetTo(l, d)
    BY <2>2, <2>4 DEF IsYetTo
  <2>8. MovesTo(l)
    BY <2>1, <2>4, <2>5, <2>6, <2>7
  <2> QED
    BY <1>1, <1>6, <2>2, <2>8 DEF ReadPull, Busy
<1>7. CASE SkipPublishing(w)
  <2> DEFINE l == [old EXCEPT !.pc = "finishing"]
  <2>1. old.pc \in {"reading", "verifying"} /\ (old.pc = "verifying" => old.todo = {})
    BY <1>7 DEF SkipPublishing, HasVerified
  <2>2. l \in Locals /\ l.pc = "finishing" /\ l.job = old.job
    BY <1>3 DEF Locals, Points
  <2>3. local' = [local EXCEPT ![w] = l]
    BY <1>7 DEF SkipPublishing
  <2> HIDE DEF l
  <2>4. ASSUME answered', NEW c \in resolved
        PROVE  ~IsYetTo(old, c)
    <3>1. audit[old.head] = NoRows
      BY <1>7, <2>4 DEF SkipPublishing
    <3>2. c \in Comments
      BY <2>4 DEF IInv, TypeOK
    <3> QED
      BY <2>1, <3>1, <3>2 DEF IsYetTo, NoRows
  <2>5. MovesTo(l)
    BY <2>2, <2>3, <2>4
  <2>6. answered' => answered
    BY <1>7 DEF SkipPublishing, IInv, TypeOK
  <2> QED
    BY <1>1, <1>7, <2>1, <2>5, <2>6 DEF SkipPublishing, Busy
<1>8. CASE ReadRows(w)
  <2> DEFINE l == [old EXCEPT !.pc = "looking", !.rows = audit[old.head],
                              !.reviewers = confirmed[old.head]]
  <2>1. old.pc \in {"reading", "verifying"} /\ (old.pc = "verifying" => old.todo = {})
    BY <1>8 DEF ReadRows, HasVerified
  <2>2. /\ audit[old.head] \in [Comments -> AuditRows \cup {None}]
        /\ confirmed[old.head] \subseteq Reviewers
    BY <1>3, <2>1 DEF IInv, TypeOK
  <2>3. /\ l \in Locals /\ l.pc = "looking" /\ l.job = old.job /\ l.head = old.head
        /\ l.rows = audit[old.head]
    BY <1>3, <2>2 DEF Locals, Points
  <2>4. local' = [local EXCEPT ![w] = l]
    BY <1>8 DEF ReadRows
  <2> HIDE DEF l
  <2>5. \A c \in resolved : IsYetTo(old, c) => IsYetTo(l, c)
    BY <2>1, <2>3 DEF IsYetTo
  <2>6. MovesTo(l)
    BY <2>3, <2>4, <2>5
  <2> QED
    BY <1>1, <1>8, <2>1, <2>6 DEF ReadRows, Busy
<1>9. CASE LookUpCheck(w)
  <2> DEFINE found == Len(runs[old.head])
             l == [old EXCEPT !.pc = "writing", !.found = found]
  <2>1. old.pc = "looking" /\ old.head \in Heads
    BY <1>3, <1>9 DEF LookUpCheck
  <2>2. found \in Nat
    BY <2>1, LenProperties DEF IInv, TypeOK
  <2>3. local' = [local EXCEPT ![w] = l]
    BY <1>9 DEF LookUpCheck
  <2> HIDE DEF found
  <2>4. /\ l \in Locals /\ l.pc = "writing" /\ l.job = old.job /\ l.head = old.head
        /\ l.rows = old.rows /\ l.found = found
    BY <1>3, <2>2 DEF Locals, Points
  <2> HIDE DEF l
  <2>5. l.rows = audit[l.head]
    BY <1>3, <2>1, <2>4 DEF ReadIsFresh
  <2>6. \A c \in resolved : IsYetTo(old, c) => IsYetTo(l, c)
    BY <2>1, <2>4 DEF IsYetTo
  <2>7. MovesTo(l)
    BY <2>3, <2>4, <2>5, <2>6 DEF found
  <2> QED
    BY <1>1, <1>9, <2>1, <2>7 DEF LookUpCheck, Busy
<1> QED
  BY <1>4, <1>5, <1>6, <1>7, <1>8, <1>9

\* A worker that begins while the others rest is the only one at work, and what its
\* job waited to do is now the worker's to do.
LEMMA BeginSerial ==
  ASSUME IInv, SerialInv, serial', NEW w \in Workers, Begin(w)
  PROVE  SerialInv'
<1>1. PICK j \in Jobs :
        /\ Queue!Take(j, "active")
        /\ Goes(w, [Idle EXCEPT !.pc = "listing", !.job = j, !.policy = EffectivePolicy,
                                !.head = task[j].head])
  BY DEF Begin
<1> DEFINE l == [Idle EXCEPT !.pc = "listing", !.job = j, !.policy = EffectivePolicy,
                             !.head = task[j].head]
<1>2. l.pc = "listing" /\ l.job = j /\ local' = [local EXCEPT ![w] = l]
  BY <1>1 DEF Goes, Idle
<1> HIDE DEF l
<1>3. /\ serial /\ \A v \in Workers : local[v].pc = "idle"
      /\ UNCHANGED <<head, resolved, runs, audit, task, answered>>
  BY DEF Begin, At, github, records
<1>4. \A v \in Workers : local'[v] = IF v = w THEN l ELSE local[v]
  BY <1>2 DEF IInv, TypeOK
<1>5. \A i \in Jobs : phase'[i] = IF i = j THEN "active" ELSE phase[i]
  BY <1>1 DEF Queue!Take, IInv, TypeOK
<1>6. ChecksAreOlder /\ OneCheck /\ (answered => \A c \in resolved : Cared(c))
  BY <1>3 DEF SerialInv
<1>7. OneAtWork' /\ JobsHeld'
  BY <1>2, <1>3, <1>4, <1>5 DEF OneAtWork, JobsHeld, Busy
<1>8. ReadIsFresh' /\ TodoIsCovered'
  BY <1>2, <1>3, <1>4 DEF ReadIsFresh, TodoIsCovered
<1>9. ChecksAreOlder' /\ OneCheck'
  BY <1>3, <1>6 DEF ChecksAreOlder, OneCheck
<1>10. ASSUME answered', NEW c \in resolved'
       PROVE  Cared(c)'
  <2>1. Cared(c)
    BY <1>3, <1>6, <1>10
  <2>2. CASE Current(c)
    BY <1>3, <2>2 DEF Cared, Current, Shown
  <2>3. CASE Waiting(c)
    <3>1. PICK i \in Jobs : phase[i] = "waiting" /\ Covers(task[i], c)
      BY <2>3 DEF Waiting
    <3>2. CASE i = j
      BY <1>2, <1>3, <1>4, <3>1, <3>2 DEF Cared, IsYetTo, Covers
    <3>3. CASE i # j
      BY <1>3, <1>5, <3>1, <3>3 DEF Cared, Waiting, Covers
    <3> QED
      BY <3>2, <3>3
  <2> QED
    BY <1>3, <2>1, <2>2, <2>3 DEF Cared, IsYetTo
<1> QED
  BY <1>6, <1>7, <1>8, <1>9, <1>10 DEF SerialInv

\* A thread audited anew is no longer the one the check shows: its worker is yet to
\* show it.
LEMMA AuditSerial ==
  ASSUME IInv, SerialInv, serial', NEW w \in Workers, Audit(w)
  PROVE  SerialInv'
<1> DEFINE old == local[w]
           l == [old EXCEPT !.pc = "verifying", !.comment = None]
<1>1. /\ old \in Locals /\ old.pc = "ingesting" /\ old.comment \in Comments
      /\ old.head \in Heads
  BY LocalType DEF Audit, At
<1>2. PICK result \in Results :
        audit' = [audit EXCEPT ![old.head][old.comment] =
                    [n |-> Number(@) + 1, head |-> old.head, code |-> head,
                     action |-> Decide(result, old.policy), failed |-> result.failed]]
  BY DEF Audit
<1> DEFINE row == [n |-> Number(audit[old.head][old.comment]) + 1, head |-> old.head, code |-> head,
                   action |-> Decide(result, old.policy), failed |-> result.failed]
<1>3. row \in AuditRows /\ row.n = Number(audit[old.head][old.comment]) + 1
  <2>1. audit[old.head][old.comment] \in AuditRows \cup {None}
    BY <1>1 DEF IInv, TypeOK
  <2>2. Number(audit[old.head][old.comment]) + 1 \in Nat \ {0}
    BY <2>1 DEF Number, AuditRows
  <2>3. result \in VerificationResults
    BY ResultsAssumption
  <2> QED
    BY <1>1, <2>2, <2>3, DecideType DEF AuditRows, VerificationResults, IInv, TypeOK
<1> HIDE DEF row
<1>4. \A h \in Heads, c \in Comments :
        audit'[h][c] = IF h = old.head /\ c = old.comment THEN row ELSE audit[h][c]
  BY <1>1, <1>2 DEF row, IInv, TypeOK
<1>5. /\ l.pc = "verifying" /\ l.job = old.job /\ l.head = old.head /\ l.todo = old.todo
      /\ local' = [local EXCEPT ![w] = l]
  BY <1>1 DEF Locals, Audit, Goes
<1> HIDE DEF l
<1>6. UNCHANGED <<head, resolved, runs, task, phase, answered, serial>>
  BY DEF Audit, Quietly, github, queue, history
<1>7. \A v \in Workers : local'[v] = IF v = w THEN l ELSE local[v]
  BY <1>5 DEF IInv, TypeOK
<1>8. /\ OneAtWork /\ JobsHeld /\ ReadIsFresh /\ ChecksAreOlder /\ OneCheck /\ TodoIsCovered
      /\ answered => \A c \in resolved : Cared(c)
  BY <1>6 DEF SerialInv
<1>9. OneAtWork' /\ JobsHeld'
  BY <1>1, <1>5, <1>6, <1>7, <1>8 DEF OneAtWork, JobsHeld, Busy
<1>10. ReadIsFresh'
  <2>1. \A v \in Workers : v # w => local[v].pc = "idle"
    BY <1>1, <1>8 DEF OneAtWork, Busy
  <2> QED
    BY <1>5, <1>7, <2>1 DEF ReadIsFresh
<1>11. ChecksAreOlder'
  <2>1. ASSUME NEW h \in Heads, NEW i \in DOMAIN runs[h], NEW c \in Comments
        PROVE  Number(runs[h][i].rows[c]) <= Number(audit'[h][c])
    <3>1. /\ Number(runs[h][i].rows[c]) <= Number(audit[h][c])
          /\ Number(runs[h][i].rows[c]) \in Nat /\ Number(audit[h][c]) \in Nat
      <4>1. runs[h] \in Seq(Checks) /\ audit[h][c] \in AuditRows \cup {None}
        BY DEF IInv, TypeOK
      <4>2. runs[h][i] \in Checks
        BY <2>1, <4>1, ElementOfSeq, LenProperties
      <4>3. runs[h][i].rows[c] \in AuditRows \cup {None}
        BY <4>2 DEF Checks
      <4> QED
        BY <1>8, <4>1, <4>3 DEF ChecksAreOlder, Number, AuditRows
    <3>2. CASE h = old.head /\ c = old.comment
      <4>1. Number(audit'[h][c]) = Number(audit[h][c]) + 1
        BY <1>3, <1>4, <3>2, NoneAssumption DEF Number
      <4> QED
        BY <3>1, <4>1
    <3>3. CASE ~(h = old.head /\ c = old.comment)
      BY <1>4, <3>1, <3>3
    <3> QED
      BY <3>2, <3>3
  <2> QED
    BY <1>6, <2>1 DEF ChecksAreOlder
<1>12. OneCheck' /\ TodoIsCovered'
  BY <1>1, <1>5, <1>6, <1>7, <1>8 DEF OneCheck, TodoIsCovered, Covers
<1>13. ASSUME answered', NEW c \in resolved'
       PROVE  Cared(c)'
  <2>1. c \in Comments /\ Cared(c) /\ head \in Heads
    BY <1>6, <1>8, <1>13 DEF IInv, TypeOK
  <2>2. CASE old.head = head /\ old.comment = c
    <3>1. audit'[head][c] # None
      BY <1>3, <1>4, <2>1, <2>2, NoneAssumption
    <3>2. Covers(task[old.job], c)
      BY <1>1, <1>8, <2>2 DEF TodoIsCovered
    <3>3. IsYetTo(local[w], c)'
      BY <1>5, <1>6, <1>7, <2>2, <3>1, <3>2 DEF IsYetTo, Covers
    <3> QED
      BY <3>3 DEF Cared
  <2>3. CASE ~(old.head = head /\ old.comment = c)
    <3>1. audit'[head][c] = audit[head][c]
      BY <1>1, <1>4, <2>1, <2>3
    <3>2. CASE Current(c)
      BY <1>6, <3>1, <3>2 DEF Cared, Current, Shown
    <3>3. CASE Waiting(c)
      BY <1>6, <3>3 DEF Cared, Waiting, Covers
    <3>4. CASE \E v \in Workers : IsYetTo(local[v], c)
      <4>1. IsYetTo(old, c)
        BY <1>1, <1>8, <2>1, <3>4, OnlyWorker DEF Busy
      <4>2. IsYetTo(local[w], c)'
        BY <1>1, <1>5, <1>6, <1>7, <2>3, <3>1, <4>1 DEF IsYetTo, Covers
      <4> QED
        BY <4>2 DEF Cared
    <3> QED
      BY <2>1, <3>2, <3>3, <3>4 DEF Cared
  <2> QED
    BY <2>2, <2>3
<1> QED
  BY <1>8, <1>9, <1>10, <1>11, <1>12, <1>13 DEF SerialInv

\* The numbers of two rows can be compared.
LEMMA RowsAreNumbered ==
  ASSUME IInv, NEW h \in Heads, NEW c \in Comments
  PROVE  /\ Number(audit[h][c]) \in Nat
         /\ \A i \in DOMAIN runs[h] : Number(runs[h][i].rows[c]) \in Nat
<1>1. audit[h][c] \in AuditRows \cup {None}
  BY DEF IInv, TypeOK
<1>2. ASSUME NEW i \in DOMAIN runs[h]
      PROVE  runs[h][i].rows[c] \in AuditRows \cup {None}
  <2>1. runs[h] \in Seq(Checks)
    BY DEF IInv, TypeOK
  <2>2. runs[h][i] \in Checks
    BY <1>2, <2>1, ElementOfSeq, LenProperties
  <2> QED
    BY <2>2 DEF Checks
<1> QED
  BY <1>1, <1>2 DEF Number, AuditRows

\* While jobs do not overlap, the check a worker writes is the only one of its head,
\* and it shows the newest rows: nothing moved since the worker looked.
LEMMA TheCheckWritten ==
  ASSUME IInv, SerialInv, serial, NEW w \in Workers, WriteCheck(w)
  PROVE  /\ local[w].head \in Heads
         /\ Check(local[w]).rows = audit[local[w].head]
         /\ \A h \in Heads :
                IF h = local[w].head
                THEN DOMAIN runs'[h] = {1} /\ Len(runs'[h]) = 1 /\ runs'[h][1] = Check(local[w])
                ELSE runs'[h] = runs[h]
<1> DEFINE old == local[w]
           h == old.head
           check == Check(old)
<1>1. /\ h \in Heads /\ runs \in [Heads -> Seq(Checks)] /\ check \in Checks
      /\ old.found = Len(runs[h]) /\ old.rows = audit[h]
  BY LocalType, CheckIsBacked DEF WriteCheck, At, SerialInv, ReadIsFresh, IInv, TypeOK
<1>2. check.rows = audit[h]
  BY <1>1 DEF Check
<1>3. Len(runs[h]) \in {0, 1}
  <2>1. Len(runs[h]) <= 1
    BY <1>1 DEF SerialInv, OneCheck
  <2>2. Len(runs[h]) \in Nat
    BY <1>1, LenProperties
  <2>3. \A n \in Nat : n <= 1 => n \in {0, 1}
    OBVIOUS
  <2> QED
    BY <2>1, <2>2, <2>3
<1>4. runs' = IF old.found > 0 THEN [runs EXCEPT ![h][old.found] = check]
                               ELSE [runs EXCEPT ![h] = Append(@, check)]
  BY DEF WriteCheck
<1> HIDE DEF check
<1>5. DOMAIN runs'[h] = {1} /\ Len(runs'[h]) = 1 /\ runs'[h][1] = check
  <2>1. CASE Len(runs[h]) = 0
    <3>1. runs'[h] = Append(runs[h], check)
      BY <1>1, <1>4, <2>1
    <3> QED
      BY <1>1, <2>1, <3>1
  <2>2. CASE Len(runs[h]) = 1
    <3>1. runs'[h] = [runs[h] EXCEPT ![1] = check]
      BY <1>1, <1>4, <2>2
    <3> QED
      BY <1>1, <2>2, <3>1, ExceptSeq
  <2> QED
    BY <1>3, <2>1, <2>2
<1>6. \A g \in Heads : g # h => runs'[g] = runs[g]
  BY <1>1, <1>4
<1> QED
  BY <1>1, <1>2, <1>5, <1>6 DEF check

LEMMA WriteSerial ==
  ASSUME IInv, SerialInv, serial', NEW w \in Workers, WriteCheck(w) \/ LoseResponse(w)
  PROVE  SerialInv'
<1> DEFINE old == local[w]
           l == [old EXCEPT !.pc = "finishing"]
<1>1. WriteCheck(w) /\ serial
  BY DEF LoseResponse, WriteCheck, Quietly, history
<1>2. /\ old.head \in Heads
      /\ Check(old).rows = audit[old.head]
      /\ \A h \in Heads : IF h = old.head
                          THEN DOMAIN runs'[h] = {1} /\ Len(runs'[h]) = 1 /\ runs'[h][1] = Check(old)
                          ELSE runs'[h] = runs[h]
  BY <1>1, TheCheckWritten
<1>3. /\ l.pc = "finishing" /\ l.job = old.job /\ local' = [local EXCEPT ![w] = l]
      /\ old.pc = "writing"
      /\ UNCHANGED <<head, resolved, audit, task, phase, answered, serial>>
  BY <1>1, LocalType DEF WriteCheck, At, Goes, Quietly, records, queue, history, Locals
<1> HIDE DEF l
<1>4. \A v \in Workers : local'[v] = IF v = w THEN l ELSE local[v]
  BY <1>3 DEF IInv, TypeOK
<1>5. /\ OneAtWork /\ JobsHeld /\ ReadIsFresh /\ ChecksAreOlder /\ OneCheck /\ TodoIsCovered
      /\ answered => \A c \in resolved : Cared(c)
  BY <1>1 DEF SerialInv
<1>6. OneAtWork' /\ JobsHeld'
  BY <1>3, <1>4, <1>5 DEF OneAtWork, JobsHeld, Busy
<1>7. ReadIsFresh' /\ TodoIsCovered'
  <2>1. \A v \in Workers : v # w => local[v].pc = "idle"
    BY <1>3, <1>5 DEF OneAtWork, Busy
  <2> QED
    BY <1>3, <1>4, <2>1 DEF ReadIsFresh, TodoIsCovered
<1>8. ChecksAreOlder' /\ OneCheck'
  <2>1. ASSUME NEW h \in Heads, NEW i \in DOMAIN runs'[h], NEW c \in Comments
        PROVE  Number(runs'[h][i].rows[c]) <= Number(audit[h][c])
    <3>1. CASE h = old.head
      <4>1. runs'[h][i].rows = audit[h]
        BY <1>2, <2>1, <3>1
      <4> QED
        BY <4>1, RowsAreNumbered
    <3>2. CASE h # old.head
      BY <1>2, <1>5, <2>1, <3>2 DEF ChecksAreOlder
    <3> QED
      BY <3>1, <3>2
  <2>2. ChecksAreOlder'
    BY <1>3, <2>1 DEF ChecksAreOlder
  <2>3. ASSUME NEW h \in Heads
        PROVE  Len(runs'[h]) <= 1
    <3>1. h # old.head => runs'[h] = runs[h]
      BY <1>2
    <3>2. h = old.head => Len(runs'[h]) = 1
      BY <1>2
    <3>3. Len(runs[h]) <= 1
      BY <1>5 DEF OneCheck
    <3>4. CASE h = old.head
      <4>1. Len(runs'[h]) = 1 /\ 1 <= 1
        BY <3>2, <3>4
      <4> QED
        BY <4>1
    <3> QED
      BY <3>1, <3>3, <3>4
  <2> QED
    BY <2>2, <2>3 DEF OneCheck
<1>9. ASSUME answered', NEW c \in resolved'
      PROVE  Cared(c)'
  <2>1. c \in Comments /\ Cared(c) /\ head \in Heads
    BY <1>3, <1>5, <1>9 DEF IInv, TypeOK
  <2>2. CASE old.head = head /\ audit[head][c] # None
    <3>1. Check(old) \in {runs'[head][i] : i \in DOMAIN runs'[head]}
      BY <1>2, <2>1, <2>2
    <3>2. Check(old).rows[c] = audit[head][c]
      BY <1>2, <2>2
    <3>3. Current(c)'
      BY <1>3, <2>2, <3>1, <3>2 DEF Current, Shown
    <3> QED
      BY <3>3 DEF Cared
  <2>3. CASE ~(old.head = head /\ audit[head][c] # None)
    <3>1. ~IsYetTo(old, c)
      BY <1>3, <2>3 DEF IsYetTo
    <3>2. CASE Current(c)
      <4>1. runs'[head] = runs[head]
        BY <1>2, <2>1, <2>3, <3>2 DEF Current
      <4> QED
        BY <1>3, <3>2, <4>1 DEF Cared, Current, Shown
    <3>3. CASE Waiting(c)
      BY <1>3, <3>3 DEF Cared, Waiting, Covers
    <3>4. ~\E v \in Workers : IsYetTo(local[v], c)
      BY <1>3, <1>5, <2>1, <3>1, OnlyWorker DEF Busy
    <3> QED
      BY <2>1, <3>2, <3>3, <3>4 DEF Cared
  <2> QED
    BY <2>2, <2>3
<1> QED
  BY <1>5, <1>6, <1>7, <1>8, <1>9 DEF SerialInv

\* A job that ends has shown what it verified, or is put back, or is not answered.
LEMMA LeaveSerial ==
  ASSUME IInv, SerialInv, serial', NEW w \in Workers, Complete(w) \/ Fail(w) \/ Crash(w)
  PROVE  SerialInv'
<1> DEFINE old == local[w]
<1>1. /\ local' = [local EXCEPT ![w] = Idle] /\ Idle.pc = "idle"
      /\ UNCHANGED <<head, resolved, runs, audit, task, serial>>
      /\ answered' => answered
      /\ old.pc # "idle" /\ old.job \in Jobs
  <2>1. /\ local' = [local EXCEPT ![w] = Idle] /\ old.pc # "idle"
        /\ UNCHANGED <<github, records, task, serial>>
    BY DEF Complete, Fail, Crash, At, Goes, Quietly, Unanswered, history
  <2>2. answered' => answered
    BY DEF Complete, Fail, Crash, Quietly, Unanswered, history, IInv, TypeOK
  <2> QED
    BY <2>1, <2>2, LocalType, IdleType DEF github, records
<1>2. PICK next : Queue!Leave(old.job, next) /\ (answered' => next = "waiting" \/ old.pc = "finishing")
  BY DEF Complete, Fail, Crash, At, Unanswered, IInv, TypeOK
<1>3. \A j \in Jobs : phase'[j] = IF j = old.job THEN next ELSE phase[j]
  BY <1>2 DEF Queue!Leave, IInv, TypeOK
<1>4. \A v \in Workers : local'[v] = IF v = w THEN Idle ELSE local[v]
  BY <1>1 DEF IInv, TypeOK
<1>5. /\ OneAtWork /\ JobsHeld /\ ReadIsFresh /\ ChecksAreOlder /\ OneCheck /\ TodoIsCovered
      /\ answered => \A c \in resolved : Cared(c)
  BY <1>1 DEF SerialInv
<1>6. \A v \in Workers : local'[v].pc = "idle"
  BY <1>1, <1>4, <1>5 DEF OneAtWork, Busy
<1>7. OneAtWork' /\ JobsHeld' /\ ReadIsFresh' /\ TodoIsCovered'
  BY <1>6 DEF OneAtWork, JobsHeld, ReadIsFresh, TodoIsCovered, Busy
<1>8. ChecksAreOlder' /\ OneCheck'
  BY <1>1, <1>5 DEF ChecksAreOlder, OneCheck
<1>9. ASSUME answered', NEW c \in resolved'
      PROVE  Cared(c)'
  <2>1. c \in Comments /\ Cared(c)
    BY <1>1, <1>5, <1>9 DEF IInv, TypeOK
  <2>2. CASE Current(c)
    BY <1>1, <2>2 DEF Cared, Current, Shown
  <2>3. CASE Waiting(c)
    <3>1. PICK j \in Jobs : phase[j] = "waiting" /\ Covers(task[j], c)
      BY <2>3 DEF Waiting
    <3>2. phase[old.job] = "active"
      BY <1>1, <1>5 DEF JobsHeld, Busy
    <3> QED
      BY <1>1, <1>3, <3>1, <3>2 DEF Cared, Waiting, Covers
  <2>4. CASE \E v \in Workers : IsYetTo(local[v], c)
    <3>1. IsYetTo(old, c)
      BY <1>1, <1>5, <2>1, <2>4, OnlyWorker DEF Busy
    <3>2. next = "waiting" /\ Covers(task[old.job], c)
      BY <1>2, <1>9, <3>1 DEF IsYetTo
    <3> QED
      BY <1>1, <1>3, <3>2 DEF Cared, Waiting, Covers
  <2> QED
    BY <2>1, <2>2, <2>3, <2>4 DEF Cared
<1> QED
  BY <1>5, <1>7, <1>8, <1>9 DEF SerialInv

LEMMA NextSerial == IInv /\ SerialInv /\ [Next]_vars => SerialInv'
<1> SUFFICES ASSUME IInv, SerialInv, [Next]_vars
             PROVE  SerialInv'
  OBVIOUS
<1>1. ASSUME NEW w \in Workers, Process(w)
      PROVE  SerialInv'
  <2>1. CASE ~serial'
    BY <2>1 DEF SerialInv
  <2>2. CASE serial'
    BY <1>1, <2>2, BeginSerial, QuietSerial, AuditSerial, WriteSerial, LeaveSerial DEF Process
  <2> QED
    BY <2>1, <2>2
<1> QED
  BY <1>1, EventSerial, SettingsSerial DEF Next

\* The invariant of jobs that do not overlap holds in every behaviour.
THEOREM SerialInvariant == Spec => [](IInv /\ SerialInv)
  BY InitIInv, NextIInv, InitSerial, NextSerial, PTL DEF Spec

\* While no two jobs overlap and no answer of GitHub is lost, a head commit carries
\* at most one check of ours, whatever crashes, failures and retries the jobs see.
THEOREM ChecksAreNotDuplicated == Spec => []OneCheckPerHead
<1>1. SerialInv => OneCheckPerHead
  BY DEF SerialInv, OneCheck, OneCheckPerHead
<1> QED
  BY <1>1, SerialInvariant, PTL

\* Under the same conditions, once all jobs are done and every delivery was answered,
\* the check on the head shows the newest verification of every resolved thread.
THEOREM FinishedWorkIsShown == Spec => []CheckIsCurrent
<1>1. IInv /\ SerialInv => CheckIsCurrent
  <2> SUFFICES ASSUME IInv, SerialInv, serial, answered,
                      \A j \in Jobs : phase[j] \in {"absent", "done"},
                      NEW c \in resolved
               PROVE  Current(c)
    BY DEF CheckIsCurrent, Current
  <2>1. ~Waiting(c)
    BY DEF Waiting
  <2>2. \A w \in Workers : ~Busy(w)
    BY LocalType DEF SerialInv, JobsHeld, Busy
  <2> QED
    BY <2>1, <2>2 DEF SerialInv, Cared, IsYetTo, Busy
<1> QED
  BY <1>1, SerialInvariant, PTL

\* A step changes a check only to show the newest rows, which are at least as new as
\* those it showed: no check falls back to an older result, or drops a thread.
THEOREM ChecksOnlyMoveOn == Spec => ChecksNeverGoBack
<1>1. ASSUME IInv, SerialInv, [Next]_vars, serial',
             NEW h \in Heads, NEW i \in DOMAIN runs[h], NEW c \in Comments
      PROVE  Number(runs[h][i].rows[c]) <= Number(runs'[h][i].rows[c])
  <2>1. Number(runs[h][i].rows[c]) \in Nat
    BY <1>1, RowsAreNumbered
  <2>2. CASE runs' = runs
    BY <2>1, <2>2
  <2>3. CASE runs' # runs
    <3>1. PICK w \in Workers : WriteCheck(w)
      BY <1>1, <2>3 DEF Next, vars, github, Push, Resolve, Unresolve, Rerun, PressConfirm, ChangeStage,
            ShipEligibility, Process, Begin, RecordConfirmation, ListThreads, ReadPull, Audit,
            SkipPublishing, ReadRows, LookUpCheck, LoseResponse, Complete, Fail, Crash
    <3>2. serial
      BY <1>1, <3>1 DEF WriteCheck, Quietly, history
    <3>3. CASE h = local[w].head
      <4>1. i = 1
        <5>1. Len(runs[h]) <= 1 /\ runs[h] \in Seq(Checks)
          BY <1>1, <3>2 DEF SerialInv, OneCheck, IInv, TypeOK
        <5> QED
          BY <5>1, LenProperties
      <4>2. runs'[h][1].rows[c] = audit[h][c]
        BY <1>1, <3>1, <3>2, <3>3, TheCheckWritten
      <4> QED
        BY <1>1, <3>2, <4>1, <4>2 DEF SerialInv, ChecksAreOlder
    <3>4. CASE h # local[w].head
      <4>1. runs'[h] = runs[h]
        BY <1>1, <3>1, <3>2, <3>4, TheCheckWritten
      <4> QED
        BY <2>1, <4>1
    <3> QED
      BY <3>3, <3>4
  <2> QED
    BY <2>2, <2>3
<1>2. IInv /\ SerialInv /\ [Next]_vars =>
        [serial' => \A h \in Heads : \A i \in DOMAIN runs[h] : \A c \in Comments :
            Number(runs[h][i].rows[c]) <= Number(runs'[h][i].rows[c])]_vars
  BY <1>1
<1> QED
  BY <1>2, SerialInvariant, PTL DEF Spec, ChecksNeverGoBack
=============================================================================
