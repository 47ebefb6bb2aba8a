---------------------------- MODULE AdvisoryQueue ----------------------------
(***************************************************************************)
(* The PostgreSQL job queue of advisory mode (advisory/jobs.py) and the    *)
(* workers that drain it (advisory/worker.py, run_once and run_forever).   *)
(*                                                                         *)
(* A webhook inserts a delivery's rows in one transaction.  A worker       *)
(* claims the oldest available row with SELECT ... FOR UPDATE SKIP LOCKED, *)
(* commits it as running, processes it, and settles it in a second         *)
(* transaction.  Nothing but the settling transaction of the worker that   *)
(* holds a job ever takes the row out of "running".                        *)
(*                                                                         *)
(* What process() does in between is module CheckPublication; here it is   *)
(* the choice of how it ends.  A crash, a restart and a database error may *)
(* hit a worker between any two of its steps, MaxFaults times in all.      *)
(***************************************************************************)
EXTENDS Naturals, FiniteSets

CONSTANTS
    Jobs,          \* row ids, allocated by a sequence: a set of naturals
    Deliveries,    \* X-GitHub-Delivery ids
    DeliveryOf,    \* DeliveryOf[j]: the delivery whose task row j holds
    Workers,       \* worker processes sharing the table
    MaxAttempts,   \* AdvisoryWorker.max_attempts (3 in the code)
    Faults,        \* the faults that may happen: some of "crash", "database"
    MaxFaults,     \* bound: how many of them in one behaviour
    NoJob          \* a worker's job when it holds none

ASSUME JobsAssumption == Jobs \subseteq Nat /\ NoJob \notin Jobs
ASSUME DeliveryAssumption == DeliveryOf \in [Jobs -> Deliveries]
ASSUME BoundAssumption == MaxAttempts \in Nat \ {0} /\ MaxFaults \in Nat
ASSUME FaultAssumption == Faults \subseteq {"crash", "database"}

VARIABLES
    table,    \* table[j]: row j of advisory_jobs
    pc,       \* pc[w]: where worker w is in run_once
    job,      \* job[w]: the job object worker w holds
    seen,     \* seen[w]: the `attempts` of that object, in the worker's memory
    faults    \* faults that may still happen

vars == <<table, pc, job, seen, faults>>

\* advisory/jobs.py: QUEUED, RUNNING, DONE, FAILED; "absent" before the insert.
Statuses == {"absent", "queued", "running", "done", "failed"}

\* A row: `wait` is available_at - now in units of 30 s (0 once it is past), and
\* `error` whether last_error is set.
Row == [status : Statuses, attempts : Nat, wait : Nat, error : BOOLEAN]

NoRow  == [status |-> "absent", attempts |-> 0, wait |-> 0, error |-> FALSE]
NewRow == [status |-> "queued", attempts |-> 0, wait |-> 0, error |-> FALSE]

Settled(j) == table[j].status \in {"done", "failed"}

\* 30 * 2 ** (attempts - 1) seconds, in units of 30 s.
Backoff(attempts) == 2 ^ (attempts - 1)

Types ==
    /\ table \in [Jobs -> Row]
    /\ pc \in [Workers -> {"idle", "claiming", "processing", "down"}]
    /\ job \in [Workers -> Jobs \cup {NoJob}]
    /\ seen \in [Workers -> Nat]
    /\ faults \in 0 .. MaxFaults

\* The types, and how late a row may be put off: only a row that was requeued
\* waits, for no longer than the attempts it has had so far earn it.
TypeOK ==
    /\ Types
    /\ \A j \in Jobs : table[j].wait > 0 =>
            /\ table[j].status = "queued"
            /\ table[j].attempts > 0
            /\ table[j].wait <= Backoff(table[j].attempts)

Init ==
    /\ table = [j \in Jobs |-> NoRow]
    /\ pc = [w \in Workers |-> "idle"]
    /\ job = [w \in Workers |-> NoJob]
    /\ seen = [w \in Workers |-> 0]
    /\ faults = MaxFaults

-----------------------------------------------------------------------------
(* The webhook side. *)

\* Faulty variant: ON CONFLICT DO UPDATE, a redelivery resets its rows.
InsertedUpserting(d, j) == IF DeliveryOf[j] = d THEN NewRow ELSE table[j]

\* Row j after a delivery's INSERT ... ON CONFLICT DO NOTHING.
Inserted(d, j) ==
    IF DeliveryOf[j] = d /\ table[j].status = "absent" THEN NewRow ELSE table[j]

\* A delivery, or its redelivery: one transaction inserts all its tasks.  Ids
\* come from a sequence at insert and rows appear at commit, so a delivery may
\* appear after another one with larger ids.
Enqueue(d) ==
    /\ table' = [j \in Jobs |-> Inserted(d, j)]
    /\ UNCHANGED <<pc, job, seen, faults>>

-----------------------------------------------------------------------------
(* The worker. *)

Locked(j) == \E w \in Workers : pc[w] = "claiming" /\ job[w] = j

\* Faulty variants: a SELECT that takes no row lock; one that finds new rows only.
ClaimableUnlocked(j) == table[j].status = "queued" /\ table[j].wait = 0
ClaimableWhenNew(j) == table[j] = NewRow /\ ~Locked(j)

\* What claim's SELECT ... FOR UPDATE SKIP LOCKED can return.
Claimable(j) ==
    /\ table[j].status = "queued"
    /\ table[j].wait = 0
    /\ ~Locked(j)

\* claim, up to its row lock: the oldest available row, attempts loaded with it.
LockOldest(w) ==
    /\ pc[w] = "idle"
    /\ \E j \in Jobs :
        /\ Claimable(j)
        /\ \A k \in Jobs : Claimable(k) => j <= k
        /\ job' = [job EXCEPT ![w] = j]
        /\ seen' = [seen EXCEPT ![w] = table[j].attempts]
    /\ pc' = [pc EXCEPT ![w] = "claiming"]
    /\ UNCHANGED <<table, faults>>

ClaimedRow(w) == [table[job[w]] EXCEPT !.status = "running", !.attempts = seen[w] + 1]

\* claim's commit: the lock is gone, the row is running, attempts is counted.
CommitClaim(w) ==
    /\ pc[w] = "claiming"
    /\ table' = [table EXCEPT ![job[w]] = ClaimedRow(w)]
    /\ seen' = [seen EXCEPT ![w] = @ + 1]
    /\ pc' = [pc EXCEPT ![w] = "processing"]
    /\ UNCHANGED <<job, faults>>

Released(w) ==
    /\ job' = [job EXCEPT ![w] = NoJob]
    /\ seen' = [seen EXCEPT ![w] = 0]

\* The worker's settling transaction turns its row into `row`; it polls again.
SettleAs(w, row) ==
    /\ pc[w] = "processing"
    /\ table' = [table EXCEPT ![job[w]] = row]
    /\ pc' = [pc EXCEPT ![w] = "idle"]
    /\ Released(w)
    /\ UNCHANGED faults

\* complete
DoneRow(w) == [table[job[w]] EXCEPT !.status = "done", !.error = FALSE]

FailedRow(w) == [table[job[w]] EXCEPT !.status = "failed", !.error = TRUE]

\* Faulty variant: the exponent is the attempts, not one less.
RequeuedRowLater(w) ==
    [table[job[w]] EXCEPT !.status = "queued", !.error = TRUE, !.wait = 2 ^ seen[w]]

RequeuedRow(w) ==
    [table[job[w]] EXCEPT !.status = "queued", !.error = TRUE, !.wait = Backoff(seen[w])]

\* Faulty variant: an off-by-one in retry_or_fail's comparison (> for >=).
RetriedRowOffByOne(w) == IF seen[w] > MaxAttempts THEN FailedRow(w) ELSE RequeuedRow(w)

\* retry_or_fail for an error that is not permanent
RetriedRow(w) == IF seen[w] >= MaxAttempts THEN FailedRow(w) ELSE RequeuedRow(w)

\* The ways run_once can end a job it holds: process() returned, raised one of
\* PERMANENT_ERRORS, or raised anything else (RETRYABLE_ERRORS or unforeseen).
Succeed(w) == SettleAs(w, DoneRow(w))
FailPermanently(w) == SettleAs(w, FailedRow(w))
Retry(w) == SettleAs(w, RetriedRow(w))

-----------------------------------------------------------------------------
(* Faults and time. *)

Strikes(fault) == fault \in Faults /\ faults > 0 /\ faults' = faults - 1

\* A commit raises a database error, which run_forever swallows: the worker
\* drops its session and polls again.  The transaction was rolled back, or it
\* took effect and only its acknowledgement was lost.
ClaimError(w) ==
    /\ Strikes("database")
    /\ pc[w] = "claiming"
    /\ \/ UNCHANGED table
       \/ table' = [table EXCEPT ![job[w]] = ClaimedRow(w)]
    /\ pc' = [pc EXCEPT ![w] = "idle"]
    /\ Released(w)

\* The same for the commit of complete or retry_or_fail.
SettleError(w) ==
    /\ Strikes("database")
    /\ pc[w] = "processing"
    /\ \/ UNCHANGED table
       \/ \E row \in {DoneRow(w), FailedRow(w), RetriedRow(w)} :
            table' = [table EXCEPT ![job[w]] = row]
    /\ pc' = [pc EXCEPT ![w] = "idle"]
    /\ Released(w)

\* The process dies: an open transaction is rolled back, a committed claim stays.
Crash(w) ==
    /\ Strikes("crash")
    /\ pc[w] # "down"
    /\ pc' = [pc EXCEPT ![w] = "down"]
    /\ Released(w)
    /\ UNCHANGED table

\* Faulty variant: a starting worker puts every running job back.
RestartRequeueing(w) ==
    /\ pc[w] = "down"
    /\ pc' = [pc EXCEPT ![w] = "idle"]
    /\ table' = [j \in Jobs |->
                    IF table[j].status = "running" THEN [table[j] EXCEPT !.status = "queued"]
                                                   ELSE table[j]]
    /\ UNCHANGED <<job, seen, faults>>

\* docker-compose.yml, `restart: unless-stopped`: a new process starts polling.
Restart(w) ==
    /\ pc[w] = "down"
    /\ pc' = [pc EXCEPT ![w] = "idle"]
    /\ UNCHANGED <<table, job, seen, faults>>

\* 30 s pass: every available_at in the future comes closer.
Tick ==
    /\ \E j \in Jobs : table[j].wait > 0
    /\ table' = [j \in Jobs |->
                    [table[j] EXCEPT !.wait = IF @ > 0 THEN @ - 1 ELSE 0]]
    /\ UNCHANGED <<pc, job, seen, faults>>

Settle(w) == Succeed(w) \/ FailPermanently(w) \/ Retry(w)

Step(w) ==
    \/ LockOldest(w)
    \/ CommitClaim(w)
    \/ Settle(w)
    \/ ClaimError(w)
    \/ SettleError(w)
    \/ Crash(w)
    \/ Restart(w)

Next ==
    \/ \E d \in Deliveries : Enqueue(d)
    \/ \E w \in Workers : Step(w)
    \/ Tick

Spec == Init /\ [][Next]_vars

\* Workers poll and process without end (every request has a time limit and a
\* bounded number of retries), a dead worker is restarted, and time passes.
Fairness ==
    /\ \A w \in Workers :
        /\ WF_vars(LockOldest(w))
        /\ WF_vars(CommitClaim(w))
        /\ WF_vars(Settle(w))
        /\ WF_vars(Restart(w))
    /\ WF_vars(Tick)

FairSpec == Spec /\ Fairness

-----------------------------------------------------------------------------
(* Properties. *)

Holds(w, j) == pc[w] \in {"claiming", "processing"} /\ job[w] = j

\* A running row that no worker is working on any more.
Orphan(j) == table[j].status = "running" /\ \A w \in Workers : ~Holds(w, j)

\* No two workers ever hold the same job, from the row lock of claim to the
\* commit that settles it, whatever crashes, restarts and database errors
\* happen (jobs.py: "several workers never take the same job").
OneWorkerPerJob ==
    \A v, w \in Workers, j \in Jobs : Holds(v, j) /\ Holds(w, j) => v = w

\* The row and the worker's copy of it agree while the job is processed: the
\* attempts that retry_or_fail compares with max_attempts are the row's.
MemoryMatchesRow ==
    \A w \in Workers :
        /\ pc[w] = "processing" => /\ table[job[w]].status = "running"
                                   /\ table[job[w]].attempts = seen[w]
        /\ pc[w] = "claiming" => /\ table[job[w]].status = "queued"
                                 /\ table[job[w]].attempts = seen[w]

\* A job that can still be claimed has an attempt left, no job is ever claimed
\* more than max_attempts times, and last_error tells the story of the row:
\* a done job shows no error, a failed or requeued one does.
AttemptsBounded ==
    \A j \in Jobs :
        /\ table[j].attempts <= MaxAttempts
        /\ table[j].status = "queued" => table[j].attempts < MaxAttempts
        /\ table[j].status = "queued" => (table[j].error <=> table[j].attempts > 0)
        /\ table[j].status = "done" => ~table[j].error
        /\ table[j].status = "failed" => table[j].error

\* A settled job is settled for good: no redelivery, no other worker and no
\* restart brings a done or failed row back or rewrites its outcome.
SettledIsFinal ==
    [][\A j \in Jobs : Settled(j) => table'[j] = table[j]]_vars

\* Work is not forgotten: every queued job is eventually done or failed, or is
\* the job of a worker that died, or lost its database, while it held the job.
QueuedJobSettles ==
    \A j \in Jobs : table[j].status = "queued" ~> (Settled(j) \/ Orphan(j))

\* worker.py promises more: "Anything unforeseen is retried too".  It does not
\* hold: a database error of a commit is unforeseen, and leaves the row running.
EveryFailureIsRetried ==
    \A j \in Jobs : table[j].status = "queued" ~> Settled(j)

\* Where each job is in its life, and how often it was taken.
Phase ==
    [j \in Jobs |->
        CASE table[j].status = "queued"  -> "waiting"
          [] table[j].status = "running" -> IF Orphan(j) THEN "lost" ELSE "active"
          [] OTHER                       -> table[j].status]

Runs == [j \in Jobs |-> table[j].attempts]

Lifecycle == INSTANCE JobLifecycle WITH phase <- Phase, runs <- Runs

\* The queue implements the life of a job that JobLifecycle promises.
ImplementsLifecycle == Lifecycle!Spec
=============================================================================
