---------------------------- MODULE JobLifecycle ----------------------------
(***************************************************************************)
(* What the job queue promises about each piece of advisory work, with no  *)
(* table, no row lock and no worker in sight: a job is submitted once, is  *)
(* run by at most one worker at a time and at most MaxAttempts times, and  *)
(* ends exactly once.  The only way to miss an ending is to be lost while  *)
(* it is being run.  AdvisoryQueue is shown to implement this.             *)
(***************************************************************************)
EXTENDS Naturals

CONSTANTS
    Jobs,         \* the pieces of work that may ever be submitted
    MaxAttempts   \* how often one job may be run

VARIABLES
    phase,        \* phase[j]: where job j is in its life
    runs          \* runs[j]: how often job j was taken

vars == <<phase, runs>>

Phases == {"absent", "waiting", "active", "done", "failed", "lost"}

Init ==
    /\ phase = [j \in Jobs |-> "absent"]
    /\ runs = [j \in Jobs |-> 0]

\* A delivery's jobs appear together.
Submit(S) ==
    /\ \A j \in S : phase[j] = "absent"
    /\ phase' = [j \in Jobs |-> IF j \in S THEN "waiting" ELSE phase[j]]
    /\ UNCHANGED runs

\* Taking a job consumes one of its attempts; `next` is "lost" when the taker
\* is gone before it knows that it has the job.
Take(j, next) ==
    /\ phase[j] = "waiting"
    /\ runs[j] < MaxAttempts
    /\ phase' = [phase EXCEPT ![j] = next]
    /\ runs' = [runs EXCEPT ![j] = @ + 1]

\* A run ends in one of four ways; only an attempt that is not the last one
\* may put the job back.
Leave(j, next) ==
    /\ phase[j] = "active"
    /\ next = "waiting" => runs[j] < MaxAttempts
    /\ phase' = [phase EXCEPT ![j] = next]
    /\ UNCHANGED runs

Next ==
    \/ \E S \in SUBSET Jobs : Submit(S)
    \/ \E j \in Jobs, next \in {"active", "lost"} : Take(j, next)
    \/ \E j \in Jobs, next \in {"waiting", "done", "failed", "lost"} : Leave(j, next)

Spec == Init /\ [][Next]_vars
=============================================================================
