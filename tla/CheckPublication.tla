--------------------------- MODULE CheckPublication ---------------------------
(***************************************************************************)
(* From a GitHub event to the "VeriReview" check on a head commit: the     *)
(* tasks webhooks ask for (advisory/webhooks.py), AdvisoryWorker.process   *)
(* step by step (advisory/worker.py), the audit rows and confirmations it  *)
(* commits (advisory/jobs.py) and the check it creates or updates          *)
(* (advisory/checks.py), for one repository with one pull request.         *)
(*                                                                         *)
(* Every await of GitHub or the database is a step, so that pushes,        *)
(* resolved threads, stage changes and other workers fall in between.  The *)
(* queue is the abstraction JobLifecycle, which AdvisoryQueue implements.  *)
(***************************************************************************)
EXTENDS Naturals, Sequences, PolicyDecision

CONSTANTS
    Comments,      \* root comments of the review threads
    MaxHead,       \* bound: the commits that are ever the head, 1 .. MaxHead
    Reviewers,     \* GitHub logins that may press "Confirm reviewed"
    Results,       \* what the pipeline may say of a thread
    Default,       \* the worker's PolicyConfig (the global settings)
    Jobs,          \* job ids: bounds the number of deliveries
    MaxAttempts,   \* AdvisoryWorker.max_attempts
    Workers,       \* worker processes
    Events,        \* the rare events that may happen: of "crash", "failure" (a job
                   \* raises), "lost" (a delivery), "response" (an answer), "change"
    MaxEvents,     \* bound: how many of them in one behaviour
    InitialRows,   \* the RepositoryPolicy rows (or None) a behaviour may start with
    None           \* no policy row, no task, no result

ASSUME ResultsAssumption == Results \subseteq VerificationResults /\ Results # {}
ASSUME DefaultAssumption == Default \in PolicyConfigs
ASSUME NumberAssumption ==
    MaxHead \in Nat \ {0} /\ MaxAttempts \in Nat \ {0} /\ MaxEvents \in Nat
ASSUME RowsAssumption == InitialRows \subseteq PolicyRows \cup {None}

VARIABLES
    \* GitHub
    head,        \* the pull request's head commit
    resolved,    \* the threads that are resolved now
    runs,        \* runs[h]: our check runs on commit h, oldest first
    \* the database
    policyRow,   \* the RepositoryPolicy row, or None
    eligible,    \* the eligibility shipped with the running release
    audit,       \* audit[h][c]: the newest audit row of thread c at commit h
    confirmed,   \* confirmed[h]: reviewers who confirmed the result at commit h
    task,        \* task[j]: what job j asks for
    phase, attempts,   \* the queue (JobLifecycle)
    \* the workers
    local,       \* local[w]: worker w's variables in process()
    \* bounds and history
    events,         \* rare events that may still happen
    enforcedSets,   \* category sets some job has found enforced
    serial,         \* no two jobs overlapped, no answer of GitHub was lost
    answered        \* no delivery was lost, no job failed, died or was muted

github   == <<head, resolved, runs>>
settings == <<policyRow, eligible>>
records  == <<audit, confirmed>>
queue    == <<task, phase, attempts>>
history  == <<enforcedSets, serial, answered>>
vars == <<github, settings, records, queue, local, events, history>>

Queue == INSTANCE JobLifecycle WITH runs <- attempts

Heads == 1 .. MaxHead

Tasks ==
    [kind : {"thread"}, head : Heads, comment : Comments]
        \cup [kind : {"pull_request"}, head : Heads]
        \cup [kind : {"confirm"}, head : Heads, reviewer : Reviewers]

\* A VerificationAudit row: its number among the rows of its thread and head, the
\* head it is filed under, the commit whose code was verified, the action, and the
\* failed categories.
AuditRows == [n : Nat \ {0}, head : Heads, code : Heads, action : Actions,
              failed : SUBSET (Categories \cup {NoCategory})]

ASSUME NoneAssumption == None \notin AuditRows

\* A check run: its conclusion, what it lists, and the policy its text states.
Checks == [conclusion : {"neutral", "failure"}, rows : [Comments -> AuditRows \cup {None}],
           policy : PolicyConfigs, reviewers : SUBSET Reviewers]

Points == {"idle", "listing", "verifying", "ingesting", "reading", "looking",
           "writing", "finishing"}

Idle == [pc |-> "idle", job |-> None, policy |-> None, todo |-> {}, comment |-> None,
         head |-> None, rows |-> None, reviewers |-> {}, found |-> 0]

Locals == [pc : Points, job : Jobs \cup {None}, policy : PolicyConfigs \cup {None},
           todo : SUBSET Comments, comment : Comments \cup {None},
           head : Heads \cup {None}, rows : [Comments -> AuditRows \cup {None}] \cup {None},
           reviewers : SUBSET Reviewers, found : Nat]

NoRows == [c \in Comments |-> None]

TypeOK ==
    /\ head \in Heads /\ resolved \subseteq Comments
    /\ runs \in [Heads -> Seq(Checks)]
    /\ policyRow \in PolicyRows \cup {None} /\ eligible \subseteq Categories
    /\ audit \in [Heads -> [Comments -> AuditRows \cup {None}]]
    /\ confirmed \in [Heads -> SUBSET Reviewers]
    /\ task \in [Jobs -> Tasks \cup {None}]
    /\ phase \in [Jobs -> Queue!Phases] /\ attempts \in [Jobs -> 0 .. MaxAttempts]
    /\ local \in [Workers -> Locals]
    /\ events \in 0 .. MaxEvents
    /\ enforcedSets \subseteq SUBSET Categories /\ serial \in BOOLEAN /\ answered \in BOOLEAN

Init ==
    /\ head = 1 /\ resolved = {} /\ runs = [h \in Heads |-> <<>>]
    /\ policyRow \in InitialRows /\ eligible = Categories
    /\ audit = [h \in Heads |-> NoRows] /\ confirmed = [h \in Heads |-> {}]
    /\ task = [j \in Jobs |-> None] /\ Queue!Init
    /\ local = [w \in Workers |-> Idle]
    /\ events = MaxEvents
    /\ enforcedSets = {} /\ serial = TRUE /\ answered = TRUE

-----------------------------------------------------------------------------
Happens(event) == event \in Events /\ events > 0 /\ events' = events - 1

Unanswered == answered' = FALSE /\ UNCHANGED <<enforcedSets, serial>>

-----------------------------------------------------------------------------
(* What happens on GitHub, and the tasks webhooks make of it. *)

\* The delivery becomes a job (webhook, enqueue), or GitHub's delivery is lost:
\* it does not redeliver by itself.
Deliver(t) ==
    \/ /\ \E j \in Jobs :
            /\ \A i \in Jobs : phase[i] = "absent" => j <= i
            /\ Queue!Submit({j})
            /\ task' = [task EXCEPT ![j] = t]
       /\ UNCHANGED <<events, history>>
    \/ /\ Happens("lost")
       /\ Unanswered
       /\ UNCHANGED queue

Elsewhere == UNCHANGED <<settings, records, local>>

\* Faulty variant: check_suite/requested is ignored, checks do not follow new commits.
PushIgnored ==
    /\ head < MaxHead
    /\ head' = head + 1
    /\ UNCHANGED <<resolved, runs, queue, events, history>> /\ Elsewhere

\* check_suite/requested: every push asks for the whole pull request.
Push ==
    /\ head < MaxHead
    /\ head' = head + 1
    /\ Deliver([kind |-> "pull_request", head |-> head'])
    /\ UNCHANGED <<resolved, runs>> /\ Elsewhere

\* pull_request_review_thread/resolved
Resolve(c) ==
    /\ c \notin resolved
    /\ resolved' = resolved \cup {c}
    /\ Deliver([kind |-> "thread", head |-> head, comment |-> c])
    /\ UNCHANGED <<head, runs>> /\ Elsewhere

\* pull_request_review_thread/unresolved is acknowledged and ignored.
Unresolve(c) ==
    /\ c \in resolved
    /\ resolved' = resolved \ {c}
    /\ UNCHANGED <<head, runs, queue, events, history>> /\ Elsewhere

\* check_run/rerequested on our check, or check_suite/rerequested
Rerun(h) ==
    /\ runs[h] # <<>>
    /\ Deliver([kind |-> "pull_request", head |-> h])
    /\ UNCHANGED github /\ Elsewhere

\* check_run/requested_action: the "Confirm reviewed" button of a check
PressConfirm(h, r) ==
    /\ \E i \in DOMAIN runs[h] : runs[h][i].policy.mode = "human_review"
    /\ Deliver([kind |-> "confirm", head |-> h, reviewer |-> r])
    /\ UNCHANGED github /\ Elsewhere

-----------------------------------------------------------------------------
(* The settings: `repo-policy set`, and a release with other eligibility. *)

CurrentStage == IF policyRow = None THEN "advisory" ELSE policyRow.stage

\* change_stage, whose gates of time and confirmations may be open at any time
\* (module RolloutStages has them).
ChangeStage(stage, categories) ==
    /\ Happens("change")
    /\ StageIndex(stage) <= StageIndex(CurrentStage) + 1
    /\ categories # {} <=> stage = "enforcement"
    /\ categories \subseteq eligible
    /\ policyRow' = [stage |-> stage, categories |-> categories]
    /\ UNCHANGED <<eligible, github, records, queue, local, history>>

\* A release ships another eligibility.json.
ShipEligibility(categories) ==
    /\ Happens("change")
    /\ eligible' = categories
    /\ UNCHANGED <<policyRow, github, records, queue, local, history>>

-----------------------------------------------------------------------------
(* AdvisoryWorker.process *)

At(w, pc) == local[w].pc = pc

Goes(w, l) == local' = [local EXCEPT ![w] = l]

Quietly == UNCHANGED <<events, history>>

\* effective_policy
EffectivePolicy ==
    IF policyRow = None THEN ImplicitPolicy(Default)
                        ELSE OptedInPolicy(policyRow, Default, eligible)

\* claim, and process up to the policy it reads first of all
Begin(w) ==
    /\ At(w, "idle")
    /\ \E j \in Jobs :
        /\ Queue!Take(j, "active")
        /\ Goes(w, [Idle EXCEPT !.pc = "listing", !.job = j, !.policy = EffectivePolicy,
                                !.head = task[j].head])
    /\ enforcedSets' = IF CurrentStage = "enforcement"
                       THEN enforcedSets \cup {policyRow.categories \cap eligible}
                       ELSE enforcedSets
    /\ serial' = (serial /\ \A v \in Workers : At(v, "idle"))
    /\ UNCHANGED <<github, settings, records, task, events, answered>>

\* A confirm job: record_confirmation, nothing to verify.
RecordConfirmation(w) ==
    LET t == task[local[w].job] IN
    /\ At(w, "listing")
    /\ t.kind = "confirm"
    /\ confirmed' = [confirmed EXCEPT ![t.head] = @ \cup {t.reviewer}]
    /\ Goes(w, [local[w] EXCEPT !.pc = "reading"])
    /\ UNCHANGED <<github, settings, audit, queue>> /\ Quietly

\* _verify: the job's own thread, or those that are resolved now
ListThreads(w) ==
    LET t == task[local[w].job] IN
    /\ At(w, "listing")
    /\ t.kind # "confirm"
    /\ Goes(w, [local[w] EXCEPT !.pc = "verifying",
                    !.todo = IF t.kind = "thread" THEN {t.comment} ELSE resolved])
    /\ UNCHANGED <<github, settings, records, queue>> /\ Quietly

\* ingest_review_case, first request: get_pull, whose head the case is filed under
ReadPull(w) ==
    /\ At(w, "verifying")
    /\ \E c \in local[w].todo :
        Goes(w, [local[w] EXCEPT !.pc = "ingesting", !.comment = c, !.head = head,
                                 !.todo = @ \ {c}])
    /\ UNCHANGED <<github, settings, records, queue>> /\ Quietly

Number(row) == IF row = None THEN 0 ELSE row.n

\* The rest of ingest_review_case (the commits and the code as they are now), the
\* pipeline, decide and record_audit, which commits.
Audit(w) ==
    LET l == local[w] IN
    /\ At(w, "ingesting")
    /\ \E result \in Results :
        audit' = [audit EXCEPT ![l.head][l.comment] =
                    [n |-> Number(@) + 1, head |-> l.head, code |-> head,
                     action |-> Decide(result, l.policy), failed |-> result.failed]]
    /\ Goes(w, [l EXCEPT !.pc = "verifying", !.comment = None])
    /\ UNCHANGED <<github, settings, confirmed, queue>> /\ Quietly

HasVerified(w) == At(w, "reading") \/ (At(w, "verifying") /\ local[w].todo = {})

\* In observe mode nothing is posted, nor is a check without rows.
SkipPublishing(w) ==
    LET l == local[w] IN
    /\ HasVerified(w)
    /\ l.policy.mode = "observe" \/ audit[l.head] = NoRows
    /\ Goes(w, [l EXCEPT !.pc = "finishing"])
    /\ answered' = (answered /\ l.policy.mode # "observe")
    /\ UNCHANGED <<github, settings, records, queue, events, enforcedSets, serial>>

\* Faulty variant: only the threads of this job are listed.
ReadRowsOfJob(w) ==
    LET l == local[w]
        t == task[l.job]
    IN
    /\ HasVerified(w)
    /\ l.policy.mode # "observe"
    /\ audit[l.head] # NoRows
    /\ Goes(w, [l EXCEPT !.pc = "looking", !.reviewers = confirmed[l.head],
            !.rows = [c \in Comments |-> IF t.kind = "thread" /\ c # t.comment
                                         THEN None ELSE audit[l.head][c]]])
    /\ UNCHANGED <<github, settings, records, queue>> /\ Quietly

\* latest_results and confirmations
ReadRows(w) ==
    LET l == local[w] IN
    /\ HasVerified(w)
    /\ l.policy.mode # "observe"
    /\ audit[l.head] # NoRows
    /\ Goes(w, [l EXCEPT !.pc = "looking", !.rows = audit[l.head],
                         !.reviewers = confirmed[l.head]])
    /\ UNCHANGED <<github, settings, records, queue>> /\ Quietly

\* Faulty variant: publish always creates.
LookUpNothing(w) ==
    /\ At(w, "looking")
    /\ Goes(w, [local[w] EXCEPT !.pc = "writing", !.found = 0])
    /\ UNCHANGED <<github, settings, records, queue>> /\ Quietly

\* publish: GET check-runs, filter latest
LookUpCheck(w) ==
    /\ At(w, "looking")
    /\ Goes(w, [local[w] EXCEPT !.pc = "writing", !.found = Len(runs[local[w].head])])
    /\ UNCHANGED <<github, settings, records, queue>> /\ Quietly

\* conclusion_for and render
Check(l) ==
    [conclusion |-> ConclusionFor({l.rows[c].action : c \in {d \in Comments : l.rows[d] # None}},
                                  l.policy),
     rows |-> l.rows, policy |-> l.policy, reviewers |-> l.reviewers]

\* publish: PATCH the run that was found, or POST a new one
WriteCheck(w) ==
    LET l == local[w] IN
    /\ At(w, "writing")
    /\ runs' = IF l.found > 0 THEN [runs EXCEPT ![l.head][l.found] = Check(l)]
                              ELSE [runs EXCEPT ![l.head] = Append(@, Check(l))]
    /\ Goes(w, [l EXCEPT !.pc = "finishing"])
    /\ UNCHANGED <<head, resolved, settings, records, queue>> /\ Quietly

\* GitHub created the run but the answer is lost: the client's _request POSTs again.
LoseResponse(w) ==
    LET l == local[w] IN
    /\ Happens("response")
    /\ At(w, "writing")
    /\ l.found = 0
    /\ runs' = [runs EXCEPT ![l.head] = Append(@, Check(l))]
    /\ serial' = FALSE
    /\ UNCHANGED <<head, resolved, settings, records, queue, local, enforcedSets, answered>>

\* complete
Complete(w) ==
    /\ At(w, "finishing")
    /\ Queue!Leave(local[w].job, "done")
    /\ Goes(w, Idle)
    /\ UNCHANGED <<github, settings, records, task>> /\ Quietly

\* process raises: the job is put back for a retry, or fails for good.
Fail(w) ==
    /\ Happens("failure")
    /\ local[w].pc \notin {"idle", "finishing"}
    /\ \E next \in {"waiting", "failed"} :
        /\ Queue!Leave(local[w].job, next)
        /\ answered' = (answered /\ next = "waiting")
    /\ Goes(w, Idle)
    /\ UNCHANGED <<github, settings, records, task, enforcedSets, serial>>

\* The worker dies, and its job with it; a new one starts.
Crash(w) ==
    /\ Happens("crash")
    /\ local[w].pc # "idle"
    /\ Queue!Leave(local[w].job, "lost")
    /\ Goes(w, Idle)
    /\ Unanswered
    /\ UNCHANGED <<github, settings, records, task>>

Process(w) ==
    \/ Begin(w) \/ RecordConfirmation(w) \/ ListThreads(w) \/ ReadPull(w) \/ Audit(w)
    \/ SkipPublishing(w) \/ ReadRows(w) \/ LookUpCheck(w) \/ WriteCheck(w)
    \/ LoseResponse(w) \/ Complete(w) \/ Fail(w) \/ Crash(w)

Next ==
    \/ Push
    \/ \E c \in Comments : Resolve(c) \/ Unresolve(c)
    \/ \E h \in Heads : Rerun(h) \/ \E r \in Reviewers : PressConfirm(h, r)
    \/ \E stage \in Modes, cs \in SUBSET Categories : ChangeStage(stage, cs)
    \/ \E cs \in SUBSET Categories : ShipEligibility(cs)
    \/ \E w \in Workers : Process(w)

Spec == Init /\ [][Next]_vars

-----------------------------------------------------------------------------
(* Properties. *)

Shown(h) == {runs[h][i] : i \in DOMAIN runs[h]}

\* A check fails only on evidence: one of the threads it lists has a result filed
\* under the commit the check is on, of code no older than that commit (a push may
\* fall into an ingestion: ShowsTheVerifiedCommit), judged a BLOCK, and all its
\* failed requirements were in one set of categories that some job found enforced
\* and eligible.  It holds whatever workers, pushes, stage changes, retries and
\* crashes interleave.
Backed(h, check) ==
    /\ check.policy.mode = "enforcement"
    /\ check.policy.allow_block
    /\ \E c \in Comments :
        /\ check.rows[c] # None
        /\ check.rows[c].head = h
        /\ check.rows[c].code >= h
        /\ check.rows[c].action = "BLOCK"
        /\ check.rows[c].failed # {}
        /\ \E set \in enforcedSets : check.rows[c].failed \subseteq set

FailureIsBacked ==
    \A h \in Heads : \A check \in Shown(h) : check.conclusion = "failure" => Backed(h, check)

\* As long as no two jobs overlap and no answer of GitHub is lost, each head
\* commit carries at most one check of ours, through crashes, retries and lost
\* deliveries: it is updated rather than duplicated.
OneCheckPerHead == serial => \A h \in Heads : Len(runs[h]) <= 1

\* Under the same conditions a check never falls back to an older result of a
\* thread than the one it showed before, and never drops a thread.
ChecksNeverGoBack ==
    [][serial' => \A h \in Heads : \A i \in DOMAIN runs[h] : \A c \in Comments :
        Number(runs[h][i].rows[c]) <= Number(runs'[h][i].rows[c])]_vars

\* When all work is done, with every delivery answered, the check on the pull
\* request's head lists the newest verification of every resolved thread: no
\* push or resolution slips between the steps of the jobs that ran.
CheckIsCurrent ==
    serial /\ answered /\ (\A j \in Jobs : phase[j] \in {"absent", "done"}) =>
        \A c \in resolved :
            /\ audit[head][c] # None
            /\ \E check \in Shown(head) : check.rows[c] = audit[head][c]

\* What the check's own text says ("This check fails only when a thread whose
\* failed requirements are all in these categories ...") and phase 12's
\* documentation ("eligible now").  It does not hold: conclusion_for trusts the
\* audited action of a row decided under an earlier policy.
FailureFollowsItsHeader ==
    \A h \in Heads : \A check \in Shown(h) :
        check.conclusion = "failure" =>
            \E c \in Comments : /\ check.rows[c] # None
                                /\ check.rows[c].failed # {}
                                /\ check.rows[c].failed \subseteq check.policy.enforced

\* "One check per head commit, updated rather than duplicated", unconditionally.
\* It does not hold: between one worker's GET and POST another one POSTs too.
NeverDuplicated == \A h \in Heads : Len(runs[h]) <= 1

\* The worker "updates the check on the head commit that was verified".  It does
\* not always: the head is read before the commits, and a push falls in between.
ShowsTheVerifiedCommit ==
    \A h \in Heads : \A check \in Shown(h) : \A c \in Comments :
        check.rows[c] # None => check.rows[c].code = h
=============================================================================
