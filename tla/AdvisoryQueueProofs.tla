-------------------------- MODULE AdvisoryQueueProofs --------------------------
(***************************************************************************)
(* Proofs about the job queue, for every set of jobs and workers, every    *)
(* bound on the attempts and any number of faults.                         *)
(*                                                                         *)
(* OneWorkerPerJob is not inductive: that a worker about to lock a row is  *)
(* alone with it follows from the row being queued, which the holders of a *)
(* row must contradict.  The inductive invariant IInv therefore ties the   *)
(* row of a held job to its holder (MemoryMatchesRow), and AttemptsBounded *)
(* to the counting of claims.                                              *)
(***************************************************************************)
EXTENDS AdvisoryQueue, FiniteSetTheorems, TLAPS

Busy(w) == pc[w] \in {"claiming", "processing"}

\* A worker that is claiming or processing has a job object.
BusyHasJob == \A w \in Workers : Busy(w) => job[w] \in Jobs

\* A running row has been claimed at least once.
RunningIsCounted == \A j \in Jobs : table[j].status = "running" => table[j].attempts > 0

IInv ==
    /\ Types
    /\ BusyHasJob
    /\ RunningIsCounted
    /\ OneWorkerPerJob
    /\ MemoryMatchesRow
    /\ AttemptsBounded

-----------------------------------------------------------------------------
\* A power of two is a natural number: it counts the subsets of a finite set.
LEMMA PowerOfTwo == ASSUME NEW n \in Nat PROVE 2 ^ n \in Nat
<1> DEFINE S == 1 .. n
<1>1. IsFiniteSet(S) /\ Cardinality(S) = n
  BY FS_Interval
<1>2. IsFiniteSet(SUBSET S) /\ Cardinality(SUBSET S) = 2 ^ Cardinality(S)
  BY <1>1, FS_SUBSET
<1>3. Cardinality(SUBSET S) \in Nat
  BY <1>2, FS_CardinalityType
<1> QED
  BY <1>1, <1>2, <1>3

\* The wait of a retry is a number of half minutes.
LEMMA BackoffType == ASSUME NEW n \in Nat \ {0} PROVE Backoff(n) \in Nat
  BY PowerOfTwo DEF Backoff

LEMMA InitIInv == Init => IInv
  BY JobsAssumption, BoundAssumption
  DEF Init, IInv, Types, BusyHasJob, Busy, RunningIsCounted, OneWorkerPerJob, Holds,
      MemoryMatchesRow, AttemptsBounded, NoRow, Row, Statuses

\* A transaction of worker w that rewrites the row it holds, after which it holds
\* nothing, keeps the invariant: nobody else looks at that row.
LEMMA RowWritten ==
  ASSUME IInv,
         NEW w \in Workers, Busy(w),
         NEW row \in Row,
         row.status \in {"queued", "running", "done", "failed"},
         row.attempts <= MaxAttempts,
         row.attempts > 0,
         row.status = "queued" => row.attempts < MaxAttempts /\ row.error,
         row.status = "done" => ~row.error,
         row.status = "failed" => row.error,
         table' = [table EXCEPT ![job[w]] = row],
         pc' = [pc EXCEPT ![w] = "idle"],
         Released(w),
         faults' \in 0 .. MaxFaults
  PROVE  IInv'
<1> USE DEF IInv
<1>1. job[w] \in Jobs
  BY DEF BusyHasJob
<1>2. Types'
  BY <1>1 DEF Types, Released
<1>3. \A j \in Jobs : table'[j] = IF j = job[w] THEN row ELSE table[j]
  BY <1>1 DEF Types
<1>4. \A v \in Workers : v # w => pc'[v] = pc[v] /\ job'[v] = job[v] /\ seen'[v] = seen[v]
  BY DEF Types, Released
<1>5. ~Busy(w)'
  BY DEF Busy, Types
<1>6. \A v \in Workers : v # w /\ Busy(v) => job[v] # job[w]
  BY <1>1 DEF OneWorkerPerJob, Holds, Busy
<1>7. BusyHasJob'
  BY <1>4, <1>5 DEF BusyHasJob, Busy
<1>8. RunningIsCounted'
  BY <1>3 DEF RunningIsCounted
<1>9. OneWorkerPerJob'
  BY <1>4, <1>5 DEF OneWorkerPerJob, Holds, Busy
<1>10. MemoryMatchesRow'
  BY <1>3, <1>4, <1>5, <1>6 DEF MemoryMatchesRow, Busy, BusyHasJob
<1>11. AttemptsBounded'
  BY <1>3 DEF AttemptsBounded, Types, Row
<1> QED
  BY <1>2, <1>7, <1>8, <1>9, <1>10, <1>11

\* Worker w drops its session without touching the table.
LEMMA SessionDropped ==
  ASSUME IInv,
         NEW w \in Workers,
         NEW point \in {"idle", "down"},
         table' = table,
         pc' = [pc EXCEPT ![w] = point],
         Released(w),
         faults' \in 0 .. MaxFaults
  PROVE  IInv'
<1> USE DEF IInv
<1>1. Types'
  BY DEF Types, Released
<1>2. \A v \in Workers : v # w => pc'[v] = pc[v] /\ job'[v] = job[v] /\ seen'[v] = seen[v]
  BY DEF Types, Released
<1>3. ~Busy(w)'
  BY DEF Busy, Types
<1>4. BusyHasJob' /\ OneWorkerPerJob' /\ MemoryMatchesRow'
  BY <1>2, <1>3 DEF BusyHasJob, OneWorkerPerJob, Holds, MemoryMatchesRow, Busy
<1>5. RunningIsCounted' /\ AttemptsBounded'
  BY DEF RunningIsCounted, AttemptsBounded
<1> QED
  BY <1>1, <1>4, <1>5

\* The rows a worker may write over the one it is processing.
SettledRows(w) == {DoneRow(w), FailedRow(w), RetriedRow(w)}

LEMMA SettledRowsType ==
  ASSUME IInv, NEW w \in Workers, pc[w] = "processing", NEW row \in SettledRows(w)
  PROVE  /\ row \in Row
         /\ row.status \in {"queued", "done", "failed"}
         /\ row.attempts <= MaxAttempts
         /\ row.attempts > 0
         /\ row.status = "queued" => row.attempts < MaxAttempts /\ row.error
         /\ row.status = "done" => ~row.error
         /\ row.status = "failed" => row.error
<1> DEFINE old == table[job[w]]
<1>1. job[w] \in Jobs
  BY DEF IInv, BusyHasJob, Busy
<1>2. /\ old \in Row
      /\ old.attempts = seen[w]
      /\ old.attempts \in Nat /\ old.attempts > 0 /\ old.attempts <= MaxAttempts
  BY <1>1 DEF IInv, Types, MemoryMatchesRow, RunningIsCounted, AttemptsBounded, Row
<1>3. Backoff(seen[w]) \in Nat
  BY <1>2, BackoffType
<1>4. CASE row = DoneRow(w)
  BY <1>2, <1>4 DEF DoneRow, Row, Statuses
<1>5. CASE row = FailedRow(w)
  BY <1>2, <1>5 DEF FailedRow, Row, Statuses
<1>6. CASE row = RetriedRow(w)
  <2>1. CASE seen[w] >= MaxAttempts
    BY <1>2, <1>6, <2>1 DEF RetriedRow, FailedRow, Row, Statuses
  <2>2. CASE ~(seen[w] >= MaxAttempts)
    <3> DEFINE back == [old EXCEPT !.status = "queued", !.error = TRUE,
                                   !.wait = Backoff(seen[w])]
    <3>1. row = back
      BY <1>6, <2>2 DEF RetriedRow, RequeuedRow
    <3>2. /\ back \in Row
          /\ back.status = "queued" /\ back.attempts = old.attempts /\ back.error = TRUE
      BY <1>2, <1>3 DEF Row, Statuses
    <3> QED
      BY <1>2, <2>2, <3>1, <3>2, BoundAssumption
  <2> QED
    BY <2>1, <2>2
<1> QED
  BY <1>4, <1>5, <1>6 DEF SettledRows

\* A claim counts, and the counted row has not used more than its attempts.
LEMMA ClaimedRowType ==
  ASSUME IInv, NEW w \in Workers, pc[w] = "claiming"
  PROVE  /\ ClaimedRow(w) \in Row
         /\ ClaimedRow(w).status = "running"
         /\ ClaimedRow(w).attempts = seen[w] + 1
         /\ ClaimedRow(w).attempts <= MaxAttempts
         /\ ClaimedRow(w).attempts > 0
<1> DEFINE old == table[job[w]]
<1>1. job[w] \in Jobs
  BY DEF IInv, BusyHasJob, Busy
<1>2. old \in Row /\ old.attempts = seen[w] /\ old.attempts < MaxAttempts /\ seen[w] \in Nat
  BY <1>1 DEF IInv, Types, MemoryMatchesRow, AttemptsBounded
<1> DEFINE claimed == [old EXCEPT !.status = "running", !.attempts = seen[w] + 1]
<1>3. ClaimedRow(w) = claimed
  BY DEF ClaimedRow
<1>4. MaxAttempts \in Nat
  BY BoundAssumption
<1>5. seen[w] + 1 \in Nat /\ seen[w] + 1 <= MaxAttempts /\ seen[w] + 1 > 0
  BY <1>2, <1>4
<1>6. /\ claimed \in Row
      /\ claimed.status = "running" /\ claimed.attempts = seen[w] + 1
  BY <1>2, <1>5 DEF Row, Statuses
<1> QED
  BY <1>3, <1>5, <1>6

-----------------------------------------------------------------------------
LEMMA EnqueueIInv ==
  ASSUME IInv, NEW d \in Deliveries, Enqueue(d)
  PROVE  IInv'
<1> USE DEF IInv
<1>1. \A j \in Jobs : \/ table'[j] = table[j]
                      \/ table[j].status = "absent" /\ table'[j] = NewRow
  BY DEF Enqueue, Inserted
<1>2. NewRow \in Row
  BY DEF NewRow, Row, Statuses
<1>3. table' \in [Jobs -> Row]
  BY <1>2 DEF Enqueue, Inserted, Types
<1>4. Types' /\ BusyHasJob' /\ OneWorkerPerJob'
  BY <1>3 DEF Enqueue, Types, BusyHasJob, Busy, OneWorkerPerJob, Holds
<1>5. RunningIsCounted' /\ AttemptsBounded'
  BY <1>1, BoundAssumption DEF RunningIsCounted, AttemptsBounded, NewRow
<1>6. MemoryMatchesRow'
  BY <1>1 DEF Enqueue, MemoryMatchesRow, BusyHasJob, Busy
<1> QED
  BY <1>4, <1>5, <1>6

\* The row lock makes the new holder the only one: another claimer is excluded by
\* the lock, a processing one by the row being queued.
LEMMA LockIInv ==
  ASSUME IInv, NEW w \in Workers, LockOldest(w)
  PROVE  IInv'
<1> USE DEF IInv
<1>1. PICK j \in Jobs : /\ Claimable(j)
                        /\ job' = [job EXCEPT ![w] = j]
                        /\ seen' = [seen EXCEPT ![w] = table[j].attempts]
  BY DEF LockOldest
<1>2. /\ pc' = [pc EXCEPT ![w] = "claiming"]
      /\ table' = table /\ faults' = faults
  BY DEF LockOldest
<1>3. table[j].attempts \in Nat /\ table[j].status = "queued"
  BY <1>1 DEF Types, Row, Claimable
<1>4. Types'
  BY <1>1, <1>2, <1>3 DEF Types
<1>5. \A v \in Workers : IF v = w THEN pc'[v] = "claiming" /\ job'[v] = j
                                       /\ seen'[v] = table[j].attempts
                                  ELSE pc'[v] = pc[v] /\ job'[v] = job[v] /\ seen'[v] = seen[v]
  BY <1>1, <1>2 DEF Types
<1>6. \A v \in Workers : Busy(v) => job[v] # j
  BY <1>1, <1>3 DEF Claimable, Locked, Busy, MemoryMatchesRow
<1>7. BusyHasJob'
  BY <1>5 DEF BusyHasJob, Busy
<1>8. OneWorkerPerJob'
  BY <1>5, <1>6 DEF OneWorkerPerJob, Holds, Busy
<1>9. MemoryMatchesRow'
  BY <1>2, <1>3, <1>5 DEF MemoryMatchesRow
<1>10. RunningIsCounted' /\ AttemptsBounded'
  BY <1>2 DEF RunningIsCounted, AttemptsBounded
<1> QED
  BY <1>4, <1>7, <1>8, <1>9, <1>10

LEMMA CommitIInv ==
  ASSUME IInv, NEW w \in Workers, CommitClaim(w)
  PROVE  IInv'
<1> USE DEF IInv
<1> DEFINE row == ClaimedRow(w)
<1>1. /\ row \in Row /\ row.status = "running" /\ row.attempts = seen[w] + 1
      /\ row.attempts <= MaxAttempts /\ row.attempts > 0
  BY ClaimedRowType DEF CommitClaim
<1>2. job[w] \in Jobs
  BY DEF CommitClaim, BusyHasJob, Busy
<1> HIDE DEF row
<1>3. /\ table' = [table EXCEPT ![job[w]] = row]
      /\ pc' = [pc EXCEPT ![w] = "processing"]
      /\ seen' = [seen EXCEPT ![w] = seen[w] + 1]
      /\ job' = job /\ faults' = faults
  BY DEF CommitClaim, row
<1>4. Types'
  BY <1>1, <1>2, <1>3 DEF Types
<1>5. \A j \in Jobs : table'[j] = IF j = job[w] THEN row ELSE table[j]
  BY <1>2, <1>3 DEF Types
<1>6. \A v \in Workers : IF v = w THEN pc'[v] = "processing" /\ seen'[v] = seen[w] + 1
                                  ELSE pc'[v] = pc[v] /\ seen'[v] = seen[v]
  BY <1>3 DEF Types
<1>7. Busy(w) /\ \A v \in Workers : v # w /\ Busy(v) => job[v] # job[w]
  BY <1>2 DEF CommitClaim, OneWorkerPerJob, Holds, Busy
<1>8. BusyHasJob' /\ OneWorkerPerJob'
  BY <1>2, <1>3, <1>6, <1>7 DEF BusyHasJob, OneWorkerPerJob, Holds, Busy
<1>9. MemoryMatchesRow'
  BY <1>1, <1>3, <1>5, <1>6, <1>7 DEF MemoryMatchesRow, BusyHasJob, Busy
<1>10. RunningIsCounted' /\ AttemptsBounded'
  BY <1>1, <1>5 DEF RunningIsCounted, AttemptsBounded, Types, Row
<1> QED
  BY <1>4, <1>8, <1>9, <1>10

\* Any of the three transactions that settle a job, or one whose commit took
\* effect although the worker saw an error.
LEMMA SettledIInv ==
  ASSUME IInv, NEW w \in Workers, pc[w] = "processing",
         NEW row \in SettledRows(w),
         table' = [table EXCEPT ![job[w]] = row],
         pc' = [pc EXCEPT ![w] = "idle"],
         Released(w),
         faults' \in 0 .. MaxFaults
  PROVE  IInv'
<1>1. Busy(w)
  BY DEF Busy
<1> QED
  BY <1>1, SettledRowsType, RowWritten

LEMMA TickIInv ==
  ASSUME IInv, Tick
  PROVE  IInv'
<1> USE DEF IInv
<1>1. \A j \in Jobs : /\ table'[j] \in Row
                      /\ table'[j].status = table[j].status
                      /\ table'[j].attempts = table[j].attempts
                      /\ table'[j].error = table[j].error
  BY DEF Tick, Types, Row
<1>2. Types'
  BY <1>1 DEF Tick, Types
<1>3. BusyHasJob' /\ OneWorkerPerJob'
  BY DEF Tick, BusyHasJob, OneWorkerPerJob, Holds, Busy
<1>4. RunningIsCounted' /\ AttemptsBounded'
  BY <1>1 DEF RunningIsCounted, AttemptsBounded
<1>5. MemoryMatchesRow'
  BY <1>1 DEF Tick, MemoryMatchesRow, BusyHasJob, Busy
<1> QED
  BY <1>2, <1>3, <1>4, <1>5

LEMMA StruckFaults ==
  ASSUME IInv, NEW fault, Strikes(fault)
  PROVE  faults' \in 0 .. MaxFaults
  BY BoundAssumption DEF IInv, Types, Strikes

LEMMA StepIInv ==
  ASSUME IInv, NEW w \in Workers, Step(w)
  PROVE  IInv'
<1>1. CASE LockOldest(w)
  BY <1>1, LockIInv
<1>2. CASE CommitClaim(w)
  BY <1>2, CommitIInv
<1>3. CASE Settle(w)
  <2>1. PICK row \in SettledRows(w) : SettleAs(w, row)
    BY <1>3 DEF Settle, Succeed, FailPermanently, Retry, SettledRows
  <2>2. faults' \in 0 .. MaxFaults
    BY <2>1 DEF SettleAs, IInv, Types
  <2> QED
    BY <2>1, <2>2, SettledIInv DEF SettleAs
<1>4. CASE ClaimError(w)
  <2>1. /\ pc[w] = "claiming" /\ Busy(w)
        /\ pc' = [pc EXCEPT ![w] = "idle"] /\ Released(w)
        /\ faults' \in 0 .. MaxFaults
    BY <1>4, StruckFaults DEF ClaimError, Busy
  <2>2. CASE UNCHANGED table
    BY <2>1, <2>2, SessionDropped
  <2>3. CASE table' = [table EXCEPT ![job[w]] = ClaimedRow(w)]
    BY <2>1, <2>3, ClaimedRowType, RowWritten
  <2> QED
    BY <1>4, <2>2, <2>3 DEF ClaimError
<1>5. CASE SettleError(w)
  <2>1. /\ pc[w] = "processing"
        /\ pc' = [pc EXCEPT ![w] = "idle"] /\ Released(w)
        /\ faults' \in 0 .. MaxFaults
    BY <1>5, StruckFaults DEF SettleError
  <2>2. CASE UNCHANGED table
    BY <2>1, <2>2, SessionDropped
  <2>3. CASE \E row \in SettledRows(w) : table' = [table EXCEPT ![job[w]] = row]
    BY <2>1, <2>3, SettledIInv
  <2> QED
    BY <1>5, <2>2, <2>3 DEF SettleError, SettledRows
<1>6. CASE Crash(w)
  BY <1>6, StruckFaults, SessionDropped DEF Crash
<1>7. CASE Restart(w)
  <2>1. Types'
    BY <1>7 DEF Restart, IInv, Types
  <2>2. \A v \in Workers : /\ v # w => pc'[v] = pc[v]
                           /\ v = w => pc'[v] = "idle" /\ pc[v] = "down"
    BY <1>7 DEF Restart, IInv, Types
  <2> QED
    BY <1>7, <2>1, <2>2 DEF Restart, IInv, BusyHasJob, Busy, RunningIsCounted, OneWorkerPerJob,
                            Holds, MemoryMatchesRow, AttemptsBounded
<1> QED
  BY <1>1, <1>2, <1>3, <1>4, <1>5, <1>6, <1>7 DEF Step

LEMMA NextIInv == IInv /\ [Next]_vars => IInv'
<1> SUFFICES ASSUME IInv, [Next]_vars
             PROVE  IInv'
  OBVIOUS
<1>1. ASSUME NEW d \in Deliveries, Enqueue(d)
      PROVE  IInv'
  BY <1>1, EnqueueIInv
<1>2. ASSUME NEW w \in Workers, Step(w)
      PROVE  IInv'
  BY <1>2, StepIInv
<1>3. CASE Tick
  BY <1>3, TickIInv
<1>4. CASE UNCHANGED vars
  BY <1>4 DEF vars, IInv, Types, BusyHasJob, Busy, RunningIsCounted, OneWorkerPerJob, Holds,
              MemoryMatchesRow, AttemptsBounded
<1> QED
  BY <1>1, <1>2, <1>3, <1>4 DEF Next

\* The inductive invariant holds in every behaviour of the queue.
THEOREM InvariantHolds == Spec => []IInv
  BY InitIInv, NextIInv, PTL DEF Spec

\* jobs.py: "several workers never take the same job".
THEOREM ExclusiveOwnership == Spec => []OneWorkerPerJob
<1>1. IInv => OneWorkerPerJob
  BY DEF IInv
<1> QED
  BY <1>1, InvariantHolds, PTL

\* What a worker remembers of its job is what the row says.
THEOREM MemoryIsFresh == Spec => []MemoryMatchesRow
<1>1. IInv => MemoryMatchesRow
  BY DEF IInv
<1> QED
  BY <1>1, InvariantHolds, PTL

\* No job is claimed more than max_attempts times, and a queued one has one left.
THEOREM AttemptsAreBounded == Spec => []AttemptsBounded
<1>1. IInv => AttemptsBounded
  BY DEF IInv
<1> QED
  BY <1>1, InvariantHolds, PTL

-----------------------------------------------------------------------------
(***************************************************************************)
(* The queue keeps the promise of JobLifecycle, and a settled job stays     *)
(* settled.  A step of the queue is a step of the lifecycle for the job it *)
(* holds, or it is none: the invariant says which row that is, and that no *)
(* other worker holds it, so a worker that goes away orphans its own job    *)
(* and no other.                                                           *)
(***************************************************************************)
\* The backoff runs only while a row is queued: what SettledIsFinal needs of
\* time, which passes for every row.  A row that is not there was never claimed.
RowsAtRest ==
    /\ \A j \in Jobs : table[j].status = "absent" => table[j].attempts = 0
    /\ \A j \in Jobs : table[j].status # "queued" => table[j].wait = 0
    /\ \A w \in Workers : pc[w] = "claiming" => table[job[w]].wait = 0

LEMMA InitRest == Init => RowsAtRest
  BY DEF Init, RowsAtRest, NoRow

\* A worker with a job holds a row that is queued while it claims it, running then.
LEMMA HeldRow ==
  ASSUME IInv, NEW w \in Workers, Busy(w)
  PROVE  /\ job[w] \in Jobs
         /\ table[job[w]] \in Row
         /\ pc[w] = "claiming" => table[job[w]].status = "queued"
         /\ pc[w] = "processing" => table[job[w]].status = "running"
         /\ table[job[w]].attempts = seen[w]
  BY DEF IInv, Types, BusyHasJob, Busy, MemoryMatchesRow

LEMMA OtherHeldRows ==
  ASSUME IInv, NEW v \in Workers, NEW w \in Workers, v # w, Busy(v), Busy(w)
  PROVE  job[v] # job[w]
  BY HeldRow DEF IInv, OneWorkerPerJob, Holds, Busy

\* The row a worker may leave in place of the one it claims or processes.
WrittenRows(w) == IF pc[w] = "claiming" THEN {ClaimedRow(w)} ELSE SettledRows(w)

\* The steps of a worker fall into four kinds: it locks a row, it writes the row
\* it holds, it lets go of it, or it had none and starts again.
LEMMA StepKinds ==
  ASSUME IInv, NEW w \in Workers, Step(w)
  PROVE  \/ LockOldest(w)
         \/ /\ Busy(w)
            /\ \E row \in WrittenRows(w) : table' = [table EXCEPT ![job[w]] = row]
            /\ \/ pc' = [pc EXCEPT ![w] = "idle"] /\ Released(w)
               \/ CommitClaim(w)
         \/ /\ table' = table
            /\ \E point \in {"idle", "down"} : pc' = [pc EXCEPT ![w] = point]
            /\ Released(w) \/ (~Busy(w) /\ UNCHANGED job)
<1>1. CASE LockOldest(w)
  BY <1>1
<1>2. CASE CommitClaim(w)
  BY <1>2 DEF CommitClaim, Busy, WrittenRows
<1>3. CASE Settle(w)
  BY <1>3 DEF Settle, Succeed, FailPermanently, Retry, SettleAs, Busy, WrittenRows, SettledRows
<1>4. CASE ClaimError(w)
  BY <1>4 DEF ClaimError, Busy, WrittenRows
<1>5. CASE SettleError(w)
  BY <1>5 DEF SettleError, Busy, WrittenRows, SettledRows
<1>6. CASE Crash(w)
  BY <1>6 DEF Crash
<1>7. CASE Restart(w)
  BY <1>7 DEF Restart, Busy
<1> QED
  BY <1>1, <1>2, <1>3, <1>4, <1>5, <1>6, <1>7 DEF Step

\* Only a requeued row waits: a claimed or a settled one keeps the wait it had.
LEMMA WrittenWait ==
  ASSUME IInv, RowsAtRest, NEW w \in Workers, Busy(w), NEW row \in WrittenRows(w)
  PROVE  row.status # "absent" /\ (row.status # "queued" => row.wait = 0)
<1> DEFINE old == table[job[w]]
<1>1. old \in Row /\ old.wait = 0
  BY HeldRow DEF RowsAtRest, Busy
<1>2. CASE row = ClaimedRow(w) \/ row = DoneRow(w) \/ row = FailedRow(w)
  BY <1>1, <1>2 DEF ClaimedRow, DoneRow, FailedRow, Row
<1>3. CASE row = RequeuedRow(w)
  <2> DEFINE back == [old EXCEPT !.status = "queued", !.error = TRUE,
                                 !.wait = Backoff(seen[w])]
  <2>1. row = back
    BY <1>3 DEF RequeuedRow
  <2>2. back.status = "queued"
    BY <1>1 DEF Row
  <2> QED
    BY <2>1, <2>2
<1> QED
  BY <1>2, <1>3 DEF WrittenRows, SettledRows, RetriedRow

LEMMA StepRest ==
  ASSUME IInv, RowsAtRest, NEW w \in Workers, Step(w)
  PROVE  RowsAtRest'
<1>1. CASE LockOldest(w)
  <2>1. PICK j \in Jobs : Claimable(j) /\ job' = [job EXCEPT ![w] = j]
    BY <1>1 DEF LockOldest
  <2>2. pc' = [pc EXCEPT ![w] = "claiming"] /\ table' = table
    BY <1>1 DEF LockOldest
  <2> QED
    BY <2>1, <2>2 DEF RowsAtRest, Claimable, IInv, Types
<1>2. ASSUME Busy(w), NEW row \in WrittenRows(w), table' = [table EXCEPT ![job[w]] = row],
             \/ pc' = [pc EXCEPT ![w] = "idle"] /\ Released(w)
             \/ CommitClaim(w)
      PROVE  RowsAtRest'
  <2>1. job[w] \in Jobs /\ row.status # "absent" /\ (row.status # "queued" => row.wait = 0)
    BY <1>2, HeldRow, WrittenWait
  <2>2. \A k \in Jobs : table'[k] = IF k = job[w] THEN row ELSE table[k]
    BY <1>2, <2>1 DEF IInv, Types
  <2>3. \A v \in Workers : pc'[v] = "claiming" =>
            v # w /\ Busy(v) /\ pc[v] = "claiming" /\ job'[v] = job[v]
    BY <1>2 DEF CommitClaim, Released, IInv, Types, Busy
  <2>4. \A v \in Workers : pc'[v] = "claiming" => job'[v] # job[w] /\ job'[v] \in Jobs
    BY <1>2, <2>3, OtherHeldRows, HeldRow
  <2> QED
    BY <2>1, <2>2, <2>3, <2>4 DEF RowsAtRest
<1>3. ASSUME table' = table,
             NEW point \in {"idle", "down"}, pc' = [pc EXCEPT ![w] = point],
             Released(w) \/ UNCHANGED job
      PROVE  RowsAtRest'
  BY <1>3 DEF RowsAtRest, Released, IInv, Types
<1> QED
  BY <1>1, <1>2, <1>3, StepKinds

LEMMA NextRest == IInv /\ RowsAtRest /\ [Next]_vars => RowsAtRest'
<1> SUFFICES ASSUME IInv, RowsAtRest, [Next]_vars
             PROVE  RowsAtRest'
  OBVIOUS
<1>1. ASSUME NEW d \in Deliveries, Enqueue(d)
      PROVE  RowsAtRest'
  <2>1. \A j \in Jobs : \/ table'[j] = table[j]
                        \/ table[j].status = "absent" /\ table'[j] = NewRow
    BY <1>1 DEF Enqueue, Inserted
  <2> QED
    BY <1>1, <2>1, HeldRow DEF Enqueue, RowsAtRest, NewRow, Busy
<1>2. ASSUME NEW w \in Workers, Step(w)
      PROVE  RowsAtRest'
  BY <1>2, StepRest
<1>3. CASE Tick
  <2>1. \A j \in Jobs : /\ table'[j].status = table[j].status
                        /\ table'[j].attempts = table[j].attempts
                        /\ table[j].wait = 0 => table'[j].wait = 0
    BY <1>3 DEF Tick, IInv, Types, Row
  <2>2. \A v \in Workers : pc'[v] = "claiming" =>
            pc[v] = "claiming" /\ job'[v] = job[v] /\ job[v] \in Jobs
    BY <1>3, HeldRow DEF Tick, Busy
  <2> QED
    BY <2>1, <2>2 DEF RowsAtRest
<1>4. CASE UNCHANGED vars
  BY <1>4 DEF vars, RowsAtRest
<1> QED
  BY <1>1, <1>2, <1>3, <1>4 DEF Next

\* Settled jobs are at rest: nobody holds them, and they wait for nothing.
LEMMA SettledKept ==
  ASSUME IInv, RowsAtRest, [Next]_vars, NEW j \in Jobs, Settled(j)
  PROVE  table'[j] = table[j]
<1>1. ASSUME NEW d \in Deliveries, Enqueue(d)
      PROVE  table'[j] = table[j]
  BY <1>1 DEF Enqueue, Inserted, Settled
<1>2. ASSUME NEW w \in Workers, Step(w)
      PROVE  table'[j] = table[j]
  <2>1. Busy(w) => job[w] # j
    BY HeldRow DEF Settled, Busy
  <2> QED
    BY <1>2, <2>1, StepKinds DEF LockOldest, IInv, Types
<1>3. CASE Tick
  <2>1. table[j] \in Row /\ table[j].wait = 0
    BY DEF IInv, Types, RowsAtRest, Settled
  <2>2. table'[j] = [table[j] EXCEPT !.wait = 0]
    BY <1>3, <2>1 DEF Tick
  <2> QED
    BY <2>1, <2>2 DEF Row
<1>4. CASE UNCHANGED vars
  BY <1>4 DEF vars
<1> QED
  BY <1>1, <1>2, <1>3, <1>4 DEF Next

\* A done or failed job is never rewritten: not by a redelivery, nor by a late
\* worker, a restart or the passing of time.
THEOREM SettledStaysSettled == Spec => SettledIsFinal
<1>1. IInv /\ RowsAtRest /\ [Next]_vars
        => [\A j \in Jobs : Settled(j) => table'[j] = table[j]]_vars
  BY SettledKept
<1> QED
  BY <1>1, InvariantHolds, InitRest, NextRest, PTL DEF Spec, SettledIsFinal

-----------------------------------------------------------------------------
(* How late a row may be put off. *)

WaitsAreEarned ==
    \A j \in Jobs : table[j].wait > 0 =>
        table[j].attempts > 0 /\ table[j].wait <= Backoff(table[j].attempts)

\* A worker requeues with the backoff of the attempts the row has; otherwise the
\* row it writes does not wait.
LEMMA WrittenWaitIsEarned ==
  ASSUME IInv, RowsAtRest, NEW w \in Workers, Busy(w), NEW row \in WrittenRows(w), row.wait > 0
  PROVE  row.attempts > 0 /\ row.wait <= Backoff(row.attempts)
<1> DEFINE old == table[job[w]]
<1>1. old \in Row /\ old.wait = 0 /\ old.attempts = seen[w]
  BY HeldRow DEF RowsAtRest, Busy
<1>2. CASE row = ClaimedRow(w)
  BY <1>1, <1>2 DEF ClaimedRow, Row
<1>3. CASE row = DoneRow(w)
  BY <1>1, <1>3 DEF DoneRow, Row
<1>4. CASE row = FailedRow(w)
  BY <1>1, <1>4 DEF FailedRow, Row
<1>5. CASE row = RequeuedRow(w) /\ pc[w] = "processing"
  <2>1. old.attempts > 0
    BY <1>5, HeldRow DEF IInv, RunningIsCounted
  <2>2. row.attempts = seen[w] /\ row.wait = Backoff(seen[w])
    BY <1>1, <1>5 DEF RequeuedRow, Row
  <2>3. Backoff(seen[w]) \in Nat
    BY <1>1, <2>1, BackoffType DEF Row
  <2> QED
    BY <1>1, <2>1, <2>2, <2>3
<1> QED
  BY <1>2, <1>3, <1>4, <1>5 DEF WrittenRows, SettledRows, RetriedRow, Busy

LEMMA NextWaits == IInv /\ RowsAtRest /\ WaitsAreEarned /\ [Next]_vars => WaitsAreEarned'
<1> SUFFICES ASSUME IInv, RowsAtRest, WaitsAreEarned, [Next]_vars
             PROVE  WaitsAreEarned'
  OBVIOUS
<1>1. ASSUME NEW d \in Deliveries, Enqueue(d)
      PROVE  WaitsAreEarned'
  BY <1>1 DEF Enqueue, Inserted, WaitsAreEarned, NewRow
<1>2. ASSUME NEW w \in Workers, Step(w)
      PROVE  WaitsAreEarned'
  <2>1. CASE Busy(w) /\ \E row \in WrittenRows(w) : table' = [table EXCEPT ![job[w]] = row]
    <3>1. PICK row \in WrittenRows(w) : table' = [table EXCEPT ![job[w]] = row]
      BY <2>1
    <3>2. \A k \in Jobs : table'[k] = IF k = job[w] THEN row ELSE table[k]
      BY <2>1, <3>1, HeldRow DEF IInv, Types
    <3> QED
      BY <2>1, <3>2, WrittenWaitIsEarned DEF WaitsAreEarned
  <2>2. CASE table' = table
    BY <2>2 DEF WaitsAreEarned
  <2> QED
    BY <1>2, <2>1, <2>2, StepKinds DEF LockOldest
<1>3. CASE Tick
  <2> SUFFICES ASSUME NEW j \in Jobs, table'[j].wait > 0
               PROVE  table'[j].attempts > 0 /\ table'[j].wait <= Backoff(table'[j].attempts)
    BY DEF WaitsAreEarned
  <2>1. table[j] \in Row
    BY DEF IInv, Types
  <2>2. /\ table'[j].attempts = table[j].attempts
        /\ table'[j].wait = table[j].wait - 1
        /\ table[j].wait > 0
    BY <1>3, <2>1 DEF Tick, Row
  <2>3. /\ table[j].attempts > 0
        /\ table[j].wait <= Backoff(table[j].attempts)
        /\ Backoff(table[j].attempts) \in Nat
    BY <2>1, <2>2, BackoffType DEF WaitsAreEarned, Row
  <2>4. table[j].wait \in Nat
    BY <2>1 DEF Row
  <2> QED
    BY <2>2, <2>3, <2>4
<1>4. CASE UNCHANGED vars
  BY <1>4 DEF vars, WaitsAreEarned
<1> QED
  BY <1>1, <1>2, <1>3, <1>4 DEF Next

\* Type correctness of the queue (rows, worker points, attempts), and no row is
\* put off for longer than its attempts so far earn (retry_or_fail).
THEOREM TypeCorrect == Spec => []TypeOK
<1>1. Init => WaitsAreEarned
  BY DEF Init, WaitsAreEarned, NoRow
<1>2. IInv /\ RowsAtRest /\ WaitsAreEarned => TypeOK
  <2> SUFFICES ASSUME IInv, RowsAtRest, WaitsAreEarned
               PROVE  TypeOK
    OBVIOUS
  <2>1. \A j \in Jobs : table[j].wait > 0 => table[j].status = "queued"
    BY DEF RowsAtRest
  <2> QED
    BY <2>1 DEF TypeOK, IInv, WaitsAreEarned
<1> QED
  BY <1>1, <1>2, InvariantHolds, InitRest, NextRest, NextWaits, PTL DEF Spec

-----------------------------------------------------------------------------
(* The refinement. *)

LEMMA InitRefines == Init => Lifecycle!Init
  BY DEF Init, NoRow, Phase, Runs, Lifecycle!Init

LEMMA PhaseOfRow ==
  ASSUME NEW j \in Jobs
  PROVE  /\ table[j].status # "running" =>
                Phase[j] = IF table[j].status = "queued" THEN "waiting" ELSE table[j].status
         /\ table[j].status = "running" =>
                Phase[j] = IF \E w \in Workers : Holds(w, j) THEN "active" ELSE "lost"
  BY DEF Phase, Orphan

LEMMA NextPhaseOfRow ==
  ASSUME NEW j \in Jobs
  PROVE  /\ table'[j].status # "running" =>
                Phase'[j] = IF table'[j].status = "queued" THEN "waiting" ELSE table'[j].status
         /\ table'[j].status = "running" =>
                Phase'[j] = IF \E w \in Workers : /\ pc'[w] \in {"claiming", "processing"}
                                                  /\ job'[w] = j
                            THEN "active" ELSE "lost"
  BY DEF Phase, Orphan, Holds

\* A step moves only the job it is about: a row that keeps its status is in the
\* phase it was in, if it is held after the step by whom it was held before.
LEMMA OtherPhases ==
  ASSUME NEW j \in Jobs,
         table'[j].status = table[j].status,
         table[j].status = "running" =>
            \A w \in Workers : Holds(w, j) <=> /\ pc'[w] \in {"claiming", "processing"}
                                               /\ job'[w] = j
  PROVE  Phase'[j] = Phase[j]
  BY PhaseOfRow, NextPhaseOfRow

\* A step of the queue is a step of the lifecycle when it moves one job along.
LEMMA MovesOne ==
  ASSUME NEW j \in Jobs,
         \A k \in Jobs \ {j} : Phase'[k] = Phase[k] /\ Runs'[k] = Runs[k],
         \/ /\ Phase[j] = "waiting" /\ Phase'[j] \in {"active", "lost"}
            /\ Runs[j] < MaxAttempts
            /\ Runs'[j] = Runs[j] + 1
         \/ /\ Phase[j] = "active" /\ Phase'[j] \in {"waiting", "done", "failed", "lost"}
            /\ Phase'[j] = "waiting" => Runs[j] < MaxAttempts
            /\ Runs'[j] = Runs[j]
  PROVE  Lifecycle!Next
<1>1. Phase' = [Phase EXCEPT ![j] = Phase'[j]]
  BY DEF Phase
<1>2. Runs' = [Runs EXCEPT ![j] = Runs'[j]]
  BY DEF Runs
<1>3. CASE /\ Phase[j] = "waiting" /\ Phase'[j] \in {"active", "lost"}
           /\ Runs[j] < MaxAttempts
           /\ Runs'[j] = Runs[j] + 1
  <2>1. Lifecycle!Take(j, Phase'[j])
    BY <1>1, <1>2, <1>3 DEF Lifecycle!Take
  <2> QED
    BY <1>3, <2>1 DEF Lifecycle!Next
<1>4. CASE /\ Phase[j] = "active" /\ Phase'[j] \in {"waiting", "done", "failed", "lost"}
           /\ Phase'[j] = "waiting" => Runs[j] < MaxAttempts
           /\ Runs'[j] = Runs[j]
  <2>1. Runs' = Runs
    BY <1>2, <1>4 DEF Runs
  <2>2. Lifecycle!Leave(j, Phase'[j])
    BY <1>1, <1>4, <2>1 DEF Lifecycle!Leave
  <2> QED
    BY <1>4, <2>2 DEF Lifecycle!Next
<1> QED
  BY <1>3, <1>4

\* ... and a stuttering one when it moves none.
LEMMA MovesNone ==
  ASSUME \A k \in Jobs : Phase'[k] = Phase[k] /\ table'[k].attempts = table[k].attempts
  PROVE  UNCHANGED Lifecycle!vars
<1>1. Phase' = Phase
  BY DEF Phase
<1>2. Runs' = Runs
  BY DEF Runs
<1> QED
  BY <1>1, <1>2 DEF Lifecycle!vars

LEMMA EnqueueRefines ==
  ASSUME IInv, RowsAtRest, NEW d \in Deliveries, Enqueue(d)
  PROVE  Lifecycle!Next
<1> DEFINE S == {j \in Jobs : DeliveryOf[j] = d /\ table[j].status = "absent"}
<1>1. \A j \in S : table[j].status = "absent" /\ table'[j] = NewRow
  BY DEF Enqueue, Inserted
<1>2. \A j \in Jobs \ S : table'[j] = table[j]
  BY DEF Enqueue, Inserted
<1>3. \A j \in S : Phase[j] = "absent" /\ Phase'[j] = "waiting"
  BY <1>1, PhaseOfRow, NextPhaseOfRow DEF NewRow
<1>4. \A j \in Jobs \ S : Phase'[j] = Phase[j]
  BY <1>2, OtherPhases DEF Enqueue, Holds
<1>5. Phase' = [j \in Jobs |-> IF j \in S THEN "waiting" ELSE Phase[j]]
  BY <1>3, <1>4 DEF Phase
<1>6. Runs' = Runs
  BY <1>1, <1>2 DEF Runs, NewRow, RowsAtRest
<1>7. Lifecycle!Submit(S)
  BY <1>3, <1>5, <1>6 DEF Lifecycle!Submit
<1> QED
  BY <1>7 DEF Lifecycle!Next

\* A claim: the row is queued before, running after, and held unless its worker
\* has dropped it with its session.
LEMMA ClaimRefines ==
  ASSUME IInv, NEW w \in Workers, pc[w] = "claiming",
         table' = [table EXCEPT ![job[w]] = ClaimedRow(w)],
         \/ pc' = [pc EXCEPT ![w] = "idle"] /\ Released(w)
         \/ pc' = [pc EXCEPT ![w] = "processing"] /\ UNCHANGED job
  PROVE  Lifecycle!Next
<1> DEFINE j == job[w]
<1>1. /\ j \in Jobs /\ Busy(w)
      /\ table[j].status = "queued" /\ table[j].attempts = seen[w]
      /\ table[j].attempts < MaxAttempts
  BY HeldRow DEF Busy, IInv, AttemptsBounded
<1>2. table'[j].status = "running" /\ table'[j].attempts = seen[w] + 1
  BY <1>1, ClaimedRowType DEF IInv, Types
<1>3. \A k \in Jobs \ {j} : table'[k] = table[k]
  OBVIOUS
<1>4. \A k \in Jobs \ {j} : \A v \in Workers :
            Holds(v, k) <=> pc'[v] \in {"claiming", "processing"} /\ job'[v] = k
  BY <1>1 DEF Holds, Released, IInv, Types
<1>5. \A k \in Jobs \ {j} : Phase'[k] = Phase[k]
  BY <1>3, <1>4, OtherPhases
<1>6. Phase[j] = "waiting" /\ Phase'[j] \in {"active", "lost"}
  BY <1>1, <1>2, PhaseOfRow, NextPhaseOfRow
<1> QED
  BY <1>1, <1>2, <1>3, <1>5, <1>6, MovesOne DEF Runs

\* A settling transaction, whatever its worker learns of it.
LEMMA SettlingRefines ==
  ASSUME IInv, NEW w \in Workers, pc[w] = "processing",
         NEW row \in SettledRows(w),
         table' = [table EXCEPT ![job[w]] = row],
         pc' = [pc EXCEPT ![w] = "idle"], Released(w)
  PROVE  Lifecycle!Next
<1> DEFINE j == job[w]
<1>1. /\ j \in Jobs /\ Busy(w)
      /\ table[j].status = "running" /\ table[j].attempts = seen[w]
  BY HeldRow DEF Busy
<1>2. table'[j] = row
  BY <1>1 DEF IInv, Types
<1>3. /\ row.status \in {"queued", "done", "failed"}
      /\ row.status = "queued" => row.attempts < MaxAttempts
  BY SettledRowsType
<1>4. row.attempts = table[j].attempts
  BY <1>1, HeldRow DEF SettledRows, DoneRow, FailedRow, RetriedRow, RequeuedRow, Row
<1>5. \A k \in Jobs \ {j} : table'[k] = table[k]
  OBVIOUS
<1>6. \A k \in Jobs \ {j} : \A v \in Workers :
            Holds(v, k) <=> pc'[v] \in {"claiming", "processing"} /\ job'[v] = k
  BY <1>1 DEF Holds, Released, IInv, Types
<1>7. \A k \in Jobs \ {j} : Phase'[k] = Phase[k]
  BY <1>5, <1>6, OtherPhases
<1>8. /\ Phase[j] = "active"
      /\ Phase'[j] = IF row.status = "queued" THEN "waiting" ELSE row.status
  BY <1>1, <1>2, <1>3, PhaseOfRow, NextPhaseOfRow DEF Holds, Busy
<1> QED
  BY <1>1, <1>2, <1>3, <1>4, <1>5, <1>7, <1>8, MovesOne DEF Runs

\* A worker that lets go of a running job loses it; of a row it was claiming, or
\* of nothing, is no step of the lifecycle.
LEMMA DropRefines ==
  ASSUME IInv, NEW w \in Workers, table' = table,
         NEW point \in {"idle", "down"}, pc' = [pc EXCEPT ![w] = point],
         Released(w) \/ (~Busy(w) /\ UNCHANGED job)
  PROVE  [Lifecycle!Next]_(Lifecycle!vars)
<1>1. ASSUME NEW k \in Jobs, table[k].status = "running" => ~Holds(w, k)
      PROVE  Phase'[k] = Phase[k]
  <2>1. table[k].status = "running" => \A v \in Workers :
            Holds(v, k) <=> pc'[v] \in {"claiming", "processing"} /\ job'[v] = k
    BY <1>1 DEF Holds, Released, IInv, Types
  <2> QED
    BY <2>1, OtherPhases
<1>2. CASE pc[w] # "processing"
  <2>1. \A k \in Jobs : table[k].status = "running" => ~Holds(w, k)
    BY <1>2, HeldRow DEF Holds, Busy
  <2> QED
    BY <1>1, <2>1, MovesNone
<1>3. CASE pc[w] = "processing"
  <2> DEFINE j == job[w]
  <2>1. j \in Jobs /\ Busy(w) /\ table[j].status = "running"
    BY <1>3, HeldRow DEF Busy
  <2>2. \A k \in Jobs \ {j} : Phase'[k] = Phase[k]
    BY <1>1 DEF Holds
  <2>3. \A v \in Workers : ~(pc'[v] \in {"claiming", "processing"} /\ job'[v] = j)
    BY <1>3, <2>1, OtherHeldRows DEF Released, IInv, Types, Busy
  <2>4. Phase[j] = "active" /\ Phase'[j] = "lost"
    BY <1>3, <2>1, <2>3, PhaseOfRow, NextPhaseOfRow DEF Holds
  <2> QED
    BY <2>1, <2>2, <2>4, MovesOne DEF Runs
<1> QED
  BY <1>2, <1>3

LEMMA StepRefines ==
  ASSUME IInv, NEW w \in Workers, Step(w)
  PROVE  [Lifecycle!Next]_(Lifecycle!vars)
<1>1. CASE LockOldest(w)
  <2>1. PICK j \in Jobs : Claimable(j) /\ job' = [job EXCEPT ![w] = j]
    BY <1>1 DEF LockOldest
  <2>2. table' = table /\ pc[w] = "idle" /\ pc' = [pc EXCEPT ![w] = "claiming"]
    BY <1>1 DEF LockOldest
  <2>3. \A k \in Jobs : table[k].status = "running" => \A v \in Workers :
            Holds(v, k) <=> pc'[v] \in {"claiming", "processing"} /\ job'[v] = k
    BY <2>1, <2>2 DEF Holds, Claimable, IInv, Types
  <2>4. \A k \in Jobs : Phase'[k] = Phase[k]
    BY <2>2, <2>3, OtherPhases
  <2> QED
    BY <2>2, <2>4, MovesNone
<1>2. ASSUME Busy(w), NEW row \in WrittenRows(w), table' = [table EXCEPT ![job[w]] = row],
             \/ pc' = [pc EXCEPT ![w] = "idle"] /\ Released(w)
             \/ CommitClaim(w)
      PROVE  Lifecycle!Next
  <2>1. CASE pc[w] = "claiming"
    BY <1>2, <2>1, ClaimRefines DEF WrittenRows, CommitClaim
  <2>2. CASE pc[w] = "processing"
    BY <1>2, <2>2, SettlingRefines DEF WrittenRows, CommitClaim
  <2> QED
    BY <1>2, <2>1, <2>2 DEF Busy
<1>3. ASSUME table' = table,
             NEW point \in {"idle", "down"}, pc' = [pc EXCEPT ![w] = point],
             Released(w) \/ (~Busy(w) /\ UNCHANGED job)
      PROVE  [Lifecycle!Next]_(Lifecycle!vars)
  BY <1>3, DropRefines
<1> QED
  BY <1>1, <1>2, <1>3, StepKinds

LEMMA NextRefines == IInv /\ RowsAtRest /\ [Next]_vars => [Lifecycle!Next]_(Lifecycle!vars)
<1> SUFFICES ASSUME IInv, RowsAtRest, [Next]_vars
             PROVE  [Lifecycle!Next]_(Lifecycle!vars)
  OBVIOUS
<1>1. ASSUME NEW d \in Deliveries, Enqueue(d)
      PROVE  [Lifecycle!Next]_(Lifecycle!vars)
  BY <1>1, EnqueueRefines
<1>2. ASSUME NEW w \in Workers, Step(w)
      PROVE  [Lifecycle!Next]_(Lifecycle!vars)
  BY <1>2, StepRefines
<1>3. CASE Tick
  <2>1. \A k \in Jobs : /\ table'[k].status = table[k].status
                        /\ table'[k].attempts = table[k].attempts
    BY <1>3 DEF Tick, IInv, Types, Row
  <2>2. \A k \in Jobs : Phase'[k] = Phase[k]
    BY <1>3, <2>1, OtherPhases DEF Tick, Holds
  <2> QED
    BY <2>1, <2>2, MovesNone
<1>4. CASE UNCHANGED vars
  <2>1. \A k \in Jobs : Phase'[k] = Phase[k]
    BY <1>4, OtherPhases DEF vars, Holds
  <2> QED
    BY <1>4, <2>1, MovesNone DEF vars
<1> QED
  BY <1>1, <1>2, <1>3, <1>4 DEF Next

\* The table, its locks and its workers implement the abstract life of a job:
\* one runner at a time, at most MaxAttempts runs, one ending.
THEOREM QueueRefinesLifecycle == Spec => ImplementsLifecycle
  BY InvariantHolds, InitRefines, InitRest, NextRest, NextRefines, PTL
  DEF Spec, ImplementsLifecycle, Lifecycle!Spec
=============================================================================
