-------------------------- MODULE IngestionProofs ---------------------------
(***************************************************************************)
(* Proofs about the ingestion of a review thread, for pull requests of any *)
(* size, any number of events while the worker reads, any answers of       *)
(* GitHub and any page sizes.                                              *)
(*                                                                         *)
(* The inductive invariant has three parts, proved one after the other:    *)
(* the credentials, the pull request, and what the worker has read of it.  *)
(***************************************************************************)
EXTENDS Ingestion, TLAPS, SequenceTheorems, FiniteSetTheorems, WellFoundedInduction

WorkFields == {"call", "attempt", "from", "items", "jwt", "tries", "error", "rejected", "churn"}
PullFields == {"commits", "comments", "forced", "resolved"}
SeenFields == {"head", "states", "thread", "forced", "commits", "tip", "files", "comparison",
               "before", "after"}

Shapes == DOMAIN work = WorkFields /\ DOMAIN pull = PullFields /\ DOMAIN seen = SeenFields

-----------------------------------------------------------------------------
(***************************************************************************)
(* Credentials.  A punctual attempt takes three phases of the client and   *)
(* the wait after it MaxRateLimitWait at most; what is left of a JWT when  *)
(* an attempt begins is what it started with less that for each one        *)
(* before.  A token that was rejected has expired, and stays expired until *)
(* another one takes its place.                                            *)
(***************************************************************************)
Spent == (3 * RequestTimeout + MaxRateLimitWait) * (work.attempt - 1)

Steady == Punctual /\ job.skew \in -29..ClockSkew

IsToken(c) == c = <<>> \/ \E left \in 0..GitHubTokenLifetime : c = <<left>>

JwtLasts ==
  Steady /\ work.call = "token" =>
    /\ work.jwt.iat \in Int /\ work.jwt.iat <= 0
    /\ work.jwt.exp \in Int /\ work.jwt.exp <= GitHubMaxJwtLifetime
    /\ work.jwt.exp >= JwtLifetime - 29 - Spent

Rejections ==
  /\ work.call # "end" => work.rejected = "none"
  /\ Steady => work.rejected # "token"
  /\ work.rejected \notin {"none", "token"} => cache = <<>> \/ cache = <<0>>

CredentialsInv ==
  /\ Shapes /\ date \in Nat
  /\ IsJob(job, date)
  /\ IsToken(cache)
  /\ work.attempt \in 1..MaxRetries + 1
  /\ JwtLasts
  /\ Rejections

\* A request is repeated at most MaxRetries times, after a minute at most.
LEMMA RetriesAreBounded ==
  ASSUME NEW attempt \in 1..MaxRetries + 1, NEW r, IsAnswer(r) \/ r \in {Answer(401), Answer(404)},
         AfterAnswer(r, attempt).next = "again"
  PROVE  /\ IsAnswer(r) /\ attempt <= MaxRetries
         /\ AfterAnswer(r, attempt).wait \in 0..MaxRateLimitWait
<1> DEFINE wait == RateLimitWait(r)
           backoff == 2 ^ (attempt - 1)
<1>1. IsAnswer(r)
  BY DEF Answer, AfterAnswer, IsRateLimited, RetryableStatus, Raise
<1>2. attempt <= MaxRetries
  BY DEF AfterAnswer, MayRetry, Raise, Return
<1>3. backoff \in {1, 2, 4}
  <2>1. attempt - 1 = 0 \/ attempt - 1 = 1 \/ attempt - 1 = 2
    BY <1>2 DEF MaxRetries
  <2>2. 2 ^ 0 = 1 /\ 2 ^ 1 = 2 /\ 2 ^ 2 = 4
    OBVIOUS
  <2> QED
    BY <2>1, <2>2, Zenon
<1>4. wait # <<>> => wait[1] \in Nat
  BY <1>1 DEF IsAnswer, RateLimitWait
<1> HIDE DEF wait, backoff
<1>5. \/ AfterAnswer(r, attempt) = Again(backoff)
      \/ AfterAnswer(r, attempt) = Again(wait[1]) /\ wait # <<>> /\ wait[1] <= MaxRateLimitWait
  BY DEF AfterAnswer, Raise, Return, wait, backoff
<1> QED
  <2>1. CASE AfterAnswer(r, attempt) = Again(backoff)
    BY <1>1, <1>2, <1>3, <2>1 DEF Again, MaxRateLimitWait
  <2>2. CASE AfterAnswer(r, attempt) = Again(wait[1]) /\ wait # <<>> /\ wait[1] <= MaxRateLimitWait
    <3>1. \A n \in Nat : n <= 60 => n \in 0..60
      OBVIOUS
    <3>2. AfterAnswer(r, attempt).wait = wait[1]
      BY <2>2 DEF Again
    <3> QED
      BY <1>1, <1>2, <1>4, <2>2, <3>1, <3>2 DEF MaxRateLimitWait
  <2> QED
    BY <1>5, <2>1, <2>2

\* Time passes for the cached token.
LEMMA TokensAge ==
  ASSUME NEW c, IsToken(c), NEW d \in Nat
  PROVE  IsToken(Elapsed(c, d)) /\ (c = <<>> \/ c = <<0>> => Elapsed(c, d) = c)
<1>1. CASE c = <<>>
  BY <1>1 DEF IsToken, Elapsed
<1>2. ASSUME NEW left \in 0..GitHubTokenLifetime, c = <<left>>
      PROVE  IsToken(Elapsed(c, d)) /\ (c = <<>> \/ c = <<0>> => Elapsed(c, d) = c)
  <2> DEFINE rest == IF left > d THEN left - d ELSE 0
  <2>1. rest \in 0..GitHubTokenLifetime /\ (left = 0 => rest = 0)
    <3>1. CASE left > d
      <4>1. rest = left - d
        BY <3>1
      <4> QED
        BY <3>1, <4>1 DEF GitHubTokenLifetime
    <3>2. CASE ~(left > d)
      <4>1. rest = 0
        BY <3>2
      <4> QED
        BY <3>2, <4>1 DEF GitHubTokenLifetime
    <3> QED
      BY <3>1, <3>2
  <2>2. Elapsed(c, d) = <<rest>> /\ c[1] = left /\ c # <<>>
    BY <1>2 DEF Elapsed
  <2> HIDE DEF rest
  <2>3. c = <<0>> => left = 0
    BY <1>2, <2>2
  <2> QED
    BY <1>2, <2>1, <2>2, <2>3 DEF IsToken
<1> QED
  BY <1>1, <1>2 DEF IsToken

\* A token that is not accepted when a request arrives has expired when the answer comes.
LEMMA ExpiredTokens ==
  ASSUME NEW c, IsToken(c), NEW sent \in Nat, NEW took \in Nat, sent <= took,
         ~TokenAccepted(Elapsed(c, sent))
  PROVE  Elapsed(c, took) = <<>> \/ Elapsed(c, took) = <<0>>
<1>1. CASE c = <<>>
  BY <1>1 DEF Elapsed
<1>2. ASSUME NEW left \in 0..GitHubTokenLifetime, c = <<left>>
      PROVE  Elapsed(c, took) = <<0>>
  <2>1. c # <<>> /\ c[1] = left /\ left \in Nat
    BY <1>2 DEF GitHubTokenLifetime
  <2>2. Elapsed(c, sent) = <<IF left > sent THEN left - sent ELSE 0>>
    BY <2>1 DEF Elapsed
  <2>3. ~((IF left > sent THEN left - sent ELSE 0) > 0)
    BY <2>2 DEF TokenAccepted
  <2>4. ~(left > took)
    BY <2>1, <2>3
  <2> QED
    BY <2>1, <2>4 DEF Elapsed
<1> QED
  BY <1>1, <1>2 DEF IsToken

\* The fields of `work` after each way the worker moves.
LEMMA WorkMoves ==
  ASSUME Shapes
  PROVE  /\ \A call : /\ DOMAIN GoTo(call) = WorkFields
                      /\ GoTo(call).call = call /\ GoTo(call).attempt = 1
                      /\ GoTo(call).items = <<>>
                      /\ GoTo(call).from = (IF call = "states" THEN NoComment ELSE 1)
                      /\ GoTo(call).error = work.error /\ GoTo(call).rejected = work.rejected
                      /\ GoTo(call).churn = work.churn /\ GoTo(call).jwt = work.jwt
                      /\ GoTo(call).tries = work.tries
         /\ \A from, items :
               LET turned == TurnTo(from, items)
               IN  /\ DOMAIN turned = WorkFields
                   /\ turned.call = work.call /\ turned.attempt = 1
                   /\ turned.from = from /\ turned.items = items
                   /\ turned.error = work.error /\ turned.rejected = work.rejected
                   /\ turned.churn = work.churn
  BY DEF Shapes, WorkFields, GoTo, TurnTo

\* The worker before a job's first request.
LEMMA IdleFields ==
  \A tries : /\ DOMAIN Idle(tries) = WorkFields
             /\ Idle(tries).call = "idle" /\ Idle(tries).attempt = 1
             /\ Idle(tries).from = 1 /\ Idle(tries).items = <<>>
             /\ Idle(tries).error = "none" /\ Idle(tries).rejected = "none"
             /\ Idle(tries).churn = {}
  BY DEF Idle, WorkFields

\* A job begins with any token that is not older than GitHub makes them, and no request.
LEMMA InitCredentials == Init => CredentialsInv
<1> SUFFICES ASSUME NEW s \in Starts,
                    job = s.job, pull = s.pull, date = s.date, cache = s.cache,
                    work = Idle(1), seen = Unseen
             PROVE  CredentialsInv
  BY DEF Init
<1>1. IsStart(s)
  BY StartsAssumption
<1>2. Shapes
  BY <1>1, IdleFields DEF IsStart, Shapes, PullFields, SeenFields, Unseen
<1>3. IsToken(cache) /\ date \in Nat /\ IsJob(job, date)
  BY <1>1 DEF IsStart, IsToken
<1> QED
  BY <1>2, <1>3, IdleFields DEF CredentialsInv, JwtLasts, Rejections, MaxRetries

\* Whatever happens to the pull request, the worker at most notes that a list churned.
LEMMA MovesLeaveWorkAlone ==
  ASSUME Shapes, PullRequestMoves
  PROVE  /\ UNCHANGED <<job, cache, seen>> /\ date < job.lastDate /\ date' = date + 1
         /\ DOMAIN pull' = PullFields /\ DOMAIN work' = WorkFields
         /\ work'.call = work.call /\ work'.attempt = work.attempt /\ work'.from = work.from
         /\ work'.items = work.items /\ work'.jwt = work.jwt /\ work'.error = work.error
         /\ work'.rejected = work.rejected /\ work'.tries = work.tries
         /\ work.churn \subseteq work'.churn
<1> USE DEF Happens, Now, Shapes
<1>1. \A list : /\ DOMAIN Churned(list) = WorkFields
                /\ Churned(list).call = work.call /\ Churned(list).attempt = work.attempt
                /\ Churned(list).from = work.from /\ Churned(list).items = work.items
                /\ Churned(list).jwt = work.jwt /\ Churned(list).error = work.error
                /\ Churned(list).rejected = work.rejected /\ Churned(list).tries = work.tries
                /\ work.churn \subseteq Churned(list).churn
  BY DEF Churned, WorkFields
<1>2. \/ work' = work \/ \E list : work' = Churned(list)
  BY DEF PullRequestMoves, WriteCommit, Push, Rebase, Amend, Squash, Replace, PushRemade, AddComment,
         DeleteComment
<1>3. UNCHANGED <<job, cache, seen>> /\ date < job.lastDate /\ date' = date + 1
  BY DEF PullRequestMoves, WriteCommit, Push, Rebase, Amend, Squash, Replace, AddComment, DeleteComment
<1>4. DOMAIN pull' = PullFields
  BY DEF PullRequestMoves, WriteCommit, Push, Rebase, Amend, Squash, Replace, PushRemade, AddComment,
         DeleteComment
<1> QED
  BY <1>1, <1>2, <1>3, <1>4

\* A step of the worker other than one that signs a JWT or notes a rejection.
LEMMA ElsewhereCredentials ==
  ASSUME CredentialsInv, UNCHANGED <<job, pull, date>>, IsToken(cache'),
         DOMAIN work' = WorkFields, DOMAIN seen' = SeenFields,
         work'.call # "token", work'.attempt = 1, work'.rejected = "none"
  PROVE  CredentialsInv'
<1>1. JwtLasts'
  BY DEF JwtLasts
<1>2. Rejections'
  BY DEF Rejections
<1> QED
  BY <1>1, <1>2 DEF CredentialsInv, Shapes, MaxRetries

\* How long a job's attempts and pauses take, and how far off its clock is.
LEMMA JobTimes ==
  ASSUME CredentialsInv
  PROVE  /\ \A d \in job.durations : /\ d.sent \in Nat /\ d.took \in Nat /\ d.sent <= d.took
                                     /\ Steady => d.sent <= 60 /\ d.took <= 90
         /\ job.pauses \subseteq Nat /\ job.skew \in Int
<1>1. job.durations \subseteq Durations /\ job.pauses \subseteq Nat /\ job.skew \in ClockSkews
  BY DEF CredentialsInv, IsJob
<1>2. \A d \in job.durations : d.sent \in Nat /\ d.took \in Nat /\ d.sent <= d.took
  BY <1>1 DEF Durations
<1>3. Steady => \A d \in job.durations : d.sent <= 60 /\ d.took <= 90
  BY <1>2 DEF Steady, Punctual, RequestTimeout
<1> QED
  BY <1>1, <1>2, <1>3, SkewAssumption

\* client_for signs a JWT that lasts for a whole request, or reuses a token.
LEMMA BeginCredentials ==
  ASSUME CredentialsInv, Begin
  PROVE  CredentialsInv'
<1>1. /\ DOMAIN work' = WorkFields /\ work'.attempt = 1 /\ work'.rejected = "none"
      /\ UNCHANGED <<job, date, cache, pull, seen>>
  BY WorkMoves DEF Begin, WorkFields, CredentialsInv, Rejections
<1>2. CASE Cached(cache, job.skew)
  <2>1. work'.call = "pull"
    BY <1>2, WorkMoves DEF Begin, CredentialsInv
  <2> QED
    BY <1>1, <2>1, ElsewhereCredentials DEF CredentialsInv, Shapes
<1>3. CASE ~Cached(cache, job.skew)
  <2>1. work'.call = "token" /\ work'.jwt = AppJwt(job.skew)
    BY <1>3, WorkMoves DEF Begin, WorkFields, CredentialsInv
  <2>2. Spent' = 0
    BY <1>1 DEF Spent, RequestTimeout, MaxRateLimitWait
  <2>3. JwtLasts'
    <3> SUFFICES ASSUME job.skew \in -29..ClockSkew
                 PROVE  /\ work'.jwt.iat \in Int /\ work'.jwt.iat <= 0
                        /\ work'.jwt.exp \in Int /\ work'.jwt.exp <= GitHubMaxJwtLifetime
                        /\ work'.jwt.exp >= JwtLifetime - 29 - Spent'
      BY <1>1 DEF JwtLasts, Steady
    <3> QED
      BY <2>1, <2>2 DEF AppJwt, ClockSkew, JwtLifetime, GitHubMaxJwtLifetime
  <2> QED
    BY <1>1, <2>1, <2>3 DEF CredentialsInv, Shapes, Rejections, MaxRetries
<1> QED
  BY <1>2, <1>3

\* Where an answer takes the worker.
LEMMA ReceiveMoves ==
  ASSUME Shapes, NEW d \in job.durations,
         \/ ReceivePull(d) \/ ReceiveStates(d) \/ ReceiveComments(d) \/ ReceiveTimeline(d)
         \/ ReceiveCommits(d) \/ ReceiveFiles(d) \/ ReceiveComparison(d) \/ ReceiveBefore(d)
         \/ ReceiveAfter(d) \/ ReceiveTests(d)
  PROVE  /\ UNCHANGED <<job, pull, local, date>> /\ cache' = Elapsed(cache, d.took)
         /\ DOMAIN work' = WorkFields /\ DOMAIN seen' = SeenFields
         /\ work'.call \notin {"token", "pull", "idle"} /\ work'.attempt = 1
         /\ work'.rejected = work.rejected
<1>0. UNCHANGED <<job, pull, local, date>> /\ cache' = Elapsed(cache, d.took)
  BY DEF ReceivePull, ReceiveStates, ReceiveComments, ReceiveTimeline, ReceiveCommits, ReceiveFiles,
         ReceiveComparison, ReceiveBefore, ReceiveAfter, ReceiveTests, Answered, Keeps
<1> SUFFICES /\ DOMAIN work' = WorkFields /\ DOMAIN seen' = SeenFields
             /\ work'.call \notin {"token", "pull", "idle"} /\ work'.attempt = 1
             /\ work'.rejected = work.rejected
  BY <1>0
<1>1. ASSUME NEW call, call \notin {"token", "pull", "idle"}, work' = GoTo(call)
      PROVE  /\ DOMAIN work' = WorkFields /\ work'.attempt = 1 /\ work'.rejected = work.rejected
             /\ work'.call \notin {"token", "pull", "idle"}
  BY <1>1, WorkMoves
<1>2. ASSUME NEW from, NEW items, work.call \notin {"token", "pull", "idle"},
             work' = TurnTo(from, items)
      PROVE  /\ DOMAIN work' = WorkFields /\ work'.attempt = 1 /\ work'.rejected = work.rejected
             /\ work'.call \notin {"token", "pull", "idle"}
  BY <1>2, WorkMoves
<1>3. CASE ReceivePull(d) \/ ReceiveTimeline(d) \/ ReceiveFiles(d) \/ ReceiveComparison(d)
           \/ ReceiveBefore(d) \/ ReceiveTests(d)
  <2>1. DOMAIN seen' = SeenFields
    BY <1>3 DEF Shapes, ReceivePull, ReceiveTimeline, ReceiveFiles, ReceiveComparison,
                ReceiveBefore, ReceiveTests
  <2>2. \E call \in {"states", "commits", "compare", "before", "after", "end"} : work' = GoTo(call)
    BY <1>3 DEF ReceivePull, ReceiveTimeline, ReceiveFiles, ReceiveComparison, ReceiveBefore,
                ReceiveTests
  <2>3. PICK call \in {"states", "commits", "compare", "before", "after", "end"} : work' = GoTo(call)
    BY <2>2
  <2> QED
    BY <1>1, <2>1, <2>3
<1>4. CASE ReceiveStates(d)
  <2>1. DOMAIN seen' = SeenFields /\ work.call = "states"
    BY <1>4 DEF Shapes, ReceiveStates, Answered
  <2> DEFINE onward == EndCursor(AfterCursor(Roots, work.from), work.from)
  <2>2. CASE MoreAfter(Roots, work.from)
    <3>1. work' = TurnTo(onward, <<>>)
      BY <1>4, <2>2 DEF ReceiveStates
    <3> HIDE DEF onward
    <3> QED
      BY <1>2, <2>1, <3>1
  <2>3. CASE ~MoreAfter(Roots, work.from)
    <3>1. work' = GoTo("comments")
      BY <1>4, <2>3 DEF ReceiveStates
    <3> QED
      BY <1>1, <2>1, <3>1
  <2> QED
    BY <2>2, <2>3
<1>5. CASE ReceiveComments(d)
  <2>1. DOMAIN seen' = SeenFields /\ work.call = "comments"
    BY <1>5 DEF Shapes, ReceiveComments, Answered
  <2> DEFINE list == pull.comments
             items == work.items \o Page(list, work.from)
             found == FindThread(Threads(ToSet(Upto(items, MaxItems)), seen.states), job.wanted)
             stopped == [Stop("thread_not_found") EXCEPT
                           !.churn = @ \cup FlagIf(Len(list) > MaxItems, "rest")]
  <2>2. \/ work' = TurnTo(work.from + 1, items)
        \/ work' = (IF found # {} THEN GoTo("timeline") ELSE stopped)
    BY <1>5 DEF ReceiveComments
  <2>3. /\ DOMAIN stopped = WorkFields /\ stopped.call = "end"
        /\ stopped.attempt = 1 /\ stopped.rejected = work.rejected
    BY WorkMoves DEF Stop, WorkFields
  <2> HIDE DEF items, found, stopped
  <2>4. CASE work' = TurnTo(work.from + 1, items)
    BY <1>2, <2>1, <2>4
  <2>5. CASE work' = GoTo("timeline")
    BY <1>1, <2>1, <2>5
  <2>6. CASE work' = stopped
    BY <2>1, <2>3, <2>6
  <2> QED
    BY <2>2, <2>4, <2>5, <2>6
<1>6. CASE ReceiveCommits(d)
  <2>1. DOMAIN seen' = SeenFields /\ work.call = "commits"
    BY <1>6 DEF Shapes, ReceiveCommits, Answered
  <2> DEFINE list == Upto(pull.commits, PullCommitsLimit)
             items == work.items \o Page(list, work.from)
             call == AfterCommits(Upto(items, PullCommitsLimit))
  <2>2. work' = TurnTo(work.from + 1, items) \/ work' = GoTo(call)
    BY <1>6 DEF ReceiveCommits
  <2>3. call \in {"before", "files"}
    BY DEF AfterCommits
  <2> HIDE DEF items, call
  <2>4. CASE work' = TurnTo(work.from + 1, items)
    BY <1>2, <2>1, <2>4
  <2>5. CASE work' = GoTo(call)
    BY <1>1, <2>1, <2>3, <2>5
  <2> QED
    BY <2>2, <2>4, <2>5
<1>7. CASE ReceiveAfter(d)
  <2>1. DOMAIN seen' = SeenFields
    BY <1>7 DEF Shapes, ReceiveAfter
  <2>2. work' = GoTo(AfterAfter)
    BY <1>7 DEF ReceiveAfter
  <2>3. AfterAfter \in {"end", "tests"}
    BY DEF AfterAfter
  <2> QED
    BY <1>1, <2>1, <2>2, <2>3
<1> QED
  BY <1>3, <1>4, <1>5, <1>6, <1>7

\* After an answer only the first request under a new token has credentials that must last.
LEMMA ReceiveCredentials ==
  ASSUME CredentialsInv, Receive
  PROVE  CredentialsInv'
<1>1. PICK d \in job.durations :
        \/ ReceiveToken(d) \/ ReceivePull(d) \/ ReceiveStates(d) \/ ReceiveComments(d)
        \/ ReceiveTimeline(d) \/ ReceiveCommits(d) \/ ReceiveFiles(d) \/ ReceiveComparison(d)
        \/ ReceiveBefore(d) \/ ReceiveAfter(d) \/ ReceiveTests(d)
  BY DEF Receive
<1>2. work.rejected = "none"
  <2>1. work.call # "end"
    BY <1>1 DEF ReceiveToken, ReceivePull, ReceiveStates, ReceiveComments, ReceiveTimeline,
                ReceiveCommits, ReceiveFiles, ReceiveComparison, ReceiveBefore, ReceiveAfter,
                ReceiveTests, Answered
  <2> QED
    BY <2>1 DEF CredentialsInv, Rejections
<1>3. CASE ReceiveToken(d)
  <2>1. /\ UNCHANGED <<job, pull, date, seen>> /\ cache' = <<GitHubTokenLifetime>>
        /\ DOMAIN work' = WorkFields /\ work'.call = "pull" /\ work'.attempt = 1
        /\ work'.rejected = work.rejected
    BY <1>3, WorkMoves DEF ReceiveToken, Answered, CredentialsInv, WorkFields
  <2>2. IsToken(cache')
    BY <2>1 DEF IsToken, GitHubTokenLifetime
  <2> QED
    BY <1>2, <2>1, <2>2, ElsewhereCredentials DEF CredentialsInv, Shapes
<1>4. CASE ~ReceiveToken(d)
  <2>1. IsToken(Elapsed(cache, d.took))
    BY JobTimes, TokensAge DEF CredentialsInv
  <2> QED
    BY <1>1, <1>2, <1>4, <2>1, ReceiveMoves, ElsewhereCredentials DEF CredentialsInv
<1> QED
  BY <1>3, <1>4

\* What an error may be: one of job.responses, or one that says that something is missing.
LEMMA ErrorTypes ==
  ASSUME CredentialsInv, NEW d \in job.durations, NEW r \in Errors(d)
  PROVE  IsAnswer(r) \/ r \in {Answer(401), Answer(404)}
  BY DEF Errors, Refused, CredentialsInv, IsJob

\* A JWT that lasts is accepted when an attempt arrives, at its latest.
LEMMA JwtHolds ==
  ASSUME CredentialsInv, NEW d \in job.durations, work.call = "token", Steady
  PROVE  Credentials(d)
<1> DEFINE sent == d.sent
           iat == work.jwt.iat
           exp == work.jwt.exp
<1>1. sent \in Nat /\ sent <= 60
  BY JobTimes
<1>2. Spent \in Int /\ Spent <= 450
  BY DEF CredentialsInv, Spent, RequestTimeout, MaxRateLimitWait, MaxRetries
<1>3. iat \in Int /\ iat <= 0 /\ exp \in Int /\ exp <= 600 /\ exp >= 511 - Spent
  BY DEF CredentialsInv, JwtLasts, JwtLifetime, GitHubMaxJwtLifetime
<1>4. JwtLater(sent).iat = iat - sent /\ JwtLater(sent).exp = exp - sent
  BY DEF JwtLater
<1> HIDE DEF sent, iat, exp
<1>5. iat - sent <= 0 /\ exp - sent \in 1..GitHubMaxJwtLifetime
  BY <1>1, <1>2, <1>3 DEF GitHubMaxJwtLifetime
<1>6. JwtAccepted(JwtLater(sent))
  BY <1>4, <1>5, Zenon DEF JwtAccepted
<1> QED
  BY <1>6 DEF Credentials, sent

\* A repeated attempt spends its phases and a wait, which the lifetime of a JWT accounts for.
LEMMA TryAgainCredentials ==
  ASSUME CredentialsInv, TryAgain
  PROVE  CredentialsInv'
<1>0. PICK d \in job.durations : \E r \in Errors(d) :
        /\ AfterAnswer(r, work.attempt).next = "again"
        /\ cache' = Elapsed(cache, d.took + AfterAnswer(r, work.attempt).wait)
        /\ work' = [work EXCEPT
             !.attempt = @ + 1,
             !.jwt = IF work.call = "token" THEN JwtLater(d.took + AfterAnswer(r, work.attempt).wait)
                     ELSE @]
  BY DEF TryAgain
<1>1. PICK r \in Errors(d) :
        /\ AfterAnswer(r, work.attempt).next = "again"
        /\ cache' = Elapsed(cache, d.took + AfterAnswer(r, work.attempt).wait)
        /\ work' = [work EXCEPT
             !.attempt = @ + 1,
             !.jwt = IF work.call = "token" THEN JwtLater(d.took + AfterAnswer(r, work.attempt).wait)
                     ELSE @]
  BY <1>0
<1> DEFINE wait == AfterAnswer(r, work.attempt).wait
           took == d.took
           spent == took + wait
<1>2. UNCHANGED <<job, pull, date, seen>> /\ work.call # "end"
  BY DEF TryAgain, Asking
<1>3. work.attempt \in 1..MaxRetries + 1 /\ work.attempt <= MaxRetries /\ wait \in 0..MaxRateLimitWait
  BY <1>1, ErrorTypes, RetriesAreBounded DEF CredentialsInv
<1>4. took \in Nat /\ (Steady => took <= 90)
  BY JobTimes
<1>5. /\ cache' = Elapsed(cache, spent) /\ DOMAIN work' = WorkFields
      /\ work'.call = work.call /\ work'.attempt = work.attempt + 1
      /\ work'.rejected = work.rejected
      /\ work.call = "token" => work'.jwt = JwtLater(spent)
  BY <1>1 DEF CredentialsInv, Shapes, WorkFields
<1> HIDE DEF wait, took
<1>6. spent \in Nat /\ (Steady => spent <= 150)
  BY <1>3, <1>4 DEF MaxRateLimitWait
<1> HIDE DEF spent
<1>7. work'.attempt \in 1..MaxRetries + 1 /\ Spent' = Spent + 150 /\ Spent \in Int
  BY <1>3, <1>5 DEF Spent, RequestTimeout, MaxRateLimitWait, MaxRetries
<1>8. IsToken(cache') /\ Shapes'
  BY <1>2, <1>5, <1>6, TokensAge DEF CredentialsInv, Shapes
<1>9. JwtLasts'
  <2> SUFFICES ASSUME work.call = "token", Steady
               PROVE  JwtLasts'
    BY <1>2, <1>5 DEF JwtLasts, Steady, Punctual
  <2>1. work'.jwt.iat = work.jwt.iat - spent /\ work'.jwt.exp = work.jwt.exp - spent
    BY <1>5 DEF JwtLater
  <2>2. /\ work.jwt.iat \in Int /\ work.jwt.iat <= 0 /\ work.jwt.exp \in Int
        /\ work.jwt.exp <= 600 /\ work.jwt.exp >= 511 - Spent
    BY DEF CredentialsInv, JwtLasts, JwtLifetime, GitHubMaxJwtLifetime
  <2> DEFINE iat == work.jwt.iat
             exp == work.jwt.exp
  <2> HIDE DEF iat, exp
  <2>3. iat \in Int /\ iat <= 0 /\ exp \in Int /\ exp <= 600 /\ exp >= 511 - Spent
    BY <2>2 DEF iat, exp
  <2>4. /\ iat - spent \in Int /\ iat - spent <= 0 /\ exp - spent \in Int /\ exp - spent <= 600
        /\ exp - spent >= 511 - (Spent + 150)
    BY <1>6, <1>7, <2>3
  <2>5. /\ work'.jwt.iat \in Int /\ work'.jwt.iat <= 0 /\ work'.jwt.exp \in Int
        /\ work'.jwt.exp <= 600 /\ work'.jwt.exp >= 511 - Spent'
    BY <1>7, <2>1, <2>4 DEF iat, exp
  <2> QED
    BY <2>5 DEF JwtLasts, JwtLifetime, GitHubMaxJwtLifetime
<1>10. Rejections'
  BY <1>2, <1>5 DEF CredentialsInv, Rejections
<1> QED
  BY <1>2, <1>5, <1>7, <1>8, <1>9, <1>10 DEF CredentialsInv

\* A missing value is only accepted by later requests.
LEMMA NotThereCredentials ==
  ASSUME CredentialsInv, NotThere
  PROVE  CredentialsInv'
<1> DEFINE call == CASE work.call = "compare" -> "before"
                     [] work.call = "before" -> "after"
                     [] work.call = "after" -> AfterAfter
                     [] OTHER -> "end"
<1>1. PICK d \in job.durations : cache' = Elapsed(cache, d.took)
  BY DEF NotThere, Keeps
<1>2. UNCHANGED <<job, pull, date, seen>> /\ work' = GoTo(call)
  BY DEF NotThere
<1>3. call \in {"before", "after", "tests", "end"}
  BY Zenon DEF AfterAfter
<1> HIDE DEF call
<1>4. IsToken(cache')
  BY <1>1, JobTimes, TokensAge DEF CredentialsInv
<1>5. Shapes
  BY DEF CredentialsInv
<1>6. /\ DOMAIN work' = WorkFields /\ work'.call = call /\ work'.attempt = 1
      /\ work'.rejected = work.rejected
  BY <1>2, <1>5, WorkMoves
<1>7. work'.call # "token" /\ work'.rejected = "none"
  <2>1. work.call # "end"
    BY DEF NotThere, Optional
  <2> QED
    BY <1>3, <1>6, <2>1 DEF CredentialsInv, Rejections
<1> QED
  BY <1>2, <1>4, <1>5, <1>6, <1>7, ElsewhereCredentials DEF CredentialsInv, Shapes

\* A request gives up after a 401 only if its credentials were not accepted.
LEMMA GiveUpCredentials ==
  ASSUME CredentialsInv, GiveUp
  PROVE  CredentialsInv'
<1>0. PICK d \in job.durations : \E r \in Errors(d) :
        /\ cache' = Elapsed(cache, d.took)
        /\ work' = [Stop(AfterAnswer(r, work.attempt).error) EXCEPT
                      !.rejected = IF r.status = 401 THEN work.call ELSE "none"]
  BY DEF GiveUp, Keeps
<1>1. PICK r \in Errors(d) :
        /\ cache' = Elapsed(cache, d.took)
        /\ work' = [Stop(AfterAnswer(r, work.attempt).error) EXCEPT
                      !.rejected = IF r.status = 401 THEN work.call ELSE "none"]
  BY <1>0
<1>2. UNCHANGED <<job, pull, date, seen>>
  BY DEF GiveUp
<1>3. IsToken(cache') /\ Shapes
  BY <1>1, JobTimes, TokensAge DEF CredentialsInv
<1>4. /\ DOMAIN work' = WorkFields /\ work'.call = "end" /\ work'.attempt = 1
      /\ work'.rejected = IF r.status = 401 THEN work.call ELSE "none"
  BY <1>1, <1>3, WorkMoves DEF Stop, WorkFields
<1>5. ASSUME Credentials(d)
      PROVE  r.status # 401
  <2>1. Refused(d) = job.responses
    BY <1>5 DEF Refused
  <2>2. IsAnswer(r) \/ r = Answer(404)
    BY <2>1 DEF Errors, CredentialsInv, IsJob
  <2> QED
    BY <2>2 DEF IsAnswer, Answer
<1>6. Steady' => work'.rejected # "token"
  <2>1. Steady' = Steady
    BY <1>2 DEF Steady, Punctual
  <2> QED
    BY <1>4, <1>5, <2>1, JwtHolds
<1>7. ASSUME work'.rejected \notin {"none", "token"}
      PROVE  cache' = <<>> \/ cache' = <<0>>
  <2>1. r.status = 401 /\ work.call # "token"
    BY <1>4, <1>7
  <2>2. ~TokenAccepted(Elapsed(cache, d.sent))
    BY <1>5, <2>1 DEF Credentials
  <2> QED
    BY <1>1, <2>2, JobTimes, ExpiredTokens DEF CredentialsInv
<1>8. JwtLasts' /\ Rejections'
  BY <1>4, <1>6, <1>7 DEF JwtLasts, Rejections
<1> QED
  BY <1>2, <1>3, <1>4, <1>8 DEF CredentialsInv, Shapes, MaxRetries

\* A job given to the worker again begins as it began at first.
LEMMA RetryCredentials ==
  ASSUME CredentialsInv, Retry
  PROVE  CredentialsInv'
<1>1. PICK d \in job.pauses : cache' = Elapsed(cache, d)
  BY DEF Retry
<1>2. UNCHANGED <<job, pull, date>> /\ work' = Idle(work.tries + 1) /\ seen' = Unseen
  BY DEF Retry
<1>3. IsToken(cache')
  BY <1>1, JobTimes, TokensAge DEF CredentialsInv
<1>4. /\ DOMAIN work' = WorkFields /\ DOMAIN seen' = SeenFields /\ work'.attempt = 1
      /\ work'.call # "token" /\ work'.rejected = "none"
  BY <1>2, IdleFields DEF Unseen, SeenFields
<1> QED
  BY <1>2, <1>3, <1>4, ElsewhereCredentials

\* The job stays a possible one as events happen, up to its last.
LEMMA MovesCredentials ==
  ASSUME CredentialsInv, PullRequestMoves
  PROVE  CredentialsInv'
<1>1. Shapes /\ date \in Nat /\ IsJob(job, date)
  BY DEF CredentialsInv
<1>2. /\ UNCHANGED <<job, cache, seen>> /\ date < job.lastDate /\ date' = date + 1
      /\ DOMAIN pull' = PullFields /\ DOMAIN work' = WorkFields
      /\ work'.call = work.call /\ work'.attempt = work.attempt /\ work'.jwt = work.jwt
      /\ work'.rejected = work.rejected
  BY <1>1, MovesLeaveWorkAlone
<1>3. IsJob(job, date + 1)
  <2>1. /\ {job.wanted, job.root} \subseteq 1..date /\ job.on.sha[1] <= date
        /\ job.on.sha \in Nat \X Nat /\ job.lastDate \in Nat
    BY <1>1 DEF IsJob
  <2>2. job.on.sha[1] \in Nat
    BY <2>1
  <2>3. /\ {job.wanted, job.root} \subseteq 1..date + 1 /\ job.on.sha[1] <= date + 1
        /\ date + 1 <= job.lastDate
    BY <1>1, <1>2, <2>1, <2>2
  <2> QED
    BY <1>1, <2>3 DEF IsJob
<1>4. Steady' = Steady /\ Spent' = Spent
  BY <1>2 DEF Steady, Punctual, Spent
<1>5. JwtLasts' /\ Rejections'
  BY <1>2, <1>4 DEF CredentialsInv, JwtLasts, Rejections
<1> QED
  BY <1>2, <1>3, <1>5 DEF CredentialsInv, Shapes

\* Every step keeps the credentials' part of the invariant.
LEMMA NextCredentials ==
  ASSUME CredentialsInv, [Next]_vars
  PROVE  CredentialsInv'
<1>1. CASE UNCHANGED vars
  BY <1>1 DEF vars, CredentialsInv, Shapes, JwtLasts, Rejections, Steady, Punctual, Spent
<1>2. CASE Next
  BY <1>2, MovesCredentials, BeginCredentials, ReceiveCredentials, TryAgainCredentials,
     NotThereCredentials, GiveUpCredentials, RetryCredentials DEF Next, Worker
<1> QED
  BY <1>1, <1>2

\* A JWT lasts for a request, and a token GitHub rejected has expired.
THEOREM CredentialsLast == Spec => []CredentialsInv
<1>1. CredentialsInv /\ [Next]_vars => CredentialsInv'
  BY NextCredentials
<1> QED
  BY InitCredentials, <1>1, PTL DEF Spec

\* The token request is not rejected for its JWT while attempts are punctual and the clock is about
\* right, however long the waits between its attempts.
THEOREM JwtIsLongEnough == Spec => []JwtOutlivesItsRequest
<1>1. CredentialsInv => JwtOutlivesItsRequest
  BY DEF CredentialsInv, Rejections, Steady, JwtOutlivesItsRequest
<1> QED
  BY <1>1, CredentialsLast, PTL

\* However long attempts and pauses take, a token that was rejected is not handed out again.
THEOREM RejectedTokensAreReplaced == Spec => []RejectedTokenIsReplaced
<1>1. CredentialsInv => RejectedTokenIsReplaced
  <2> SUFFICES ASSUME CredentialsInv, work.rejected \notin {"none", "token"}, job.skew >= -300,
                      Cached(cache, job.skew)
               PROVE  FALSE
    BY DEF RejectedTokenIsReplaced
  <2>1. cache = <<>> \/ cache = <<0>>
    BY DEF CredentialsInv, Rejections
  <2>2. cache # <<>> /\ cache[1] - job.skew > 300
    BY DEF Cached, Fresh, RefreshMargin
  <2>3. cache[1] = 0
    BY <2>1, <2>2
  <2> QED
    BY <2>2, <2>3, JobTimes
<1> QED
  BY <1>1, CredentialsLast, PTL

-----------------------------------------------------------------------------
(***************************************************************************)
(* Sequences, seen as sequences of their own elements.                     *)
(***************************************************************************)
IsSequence(s) == s \in Seq(ToSet(s))

\* A sequence over any set is a sequence of its own elements.
LEMMA SequenceOfElements ==
  ASSUME NEW S, NEW s \in Seq(S)
  PROVE  IsSequence(s) /\ ToSet(s) \subseteq S
<1>1. Len(s) \in Nat /\ DOMAIN s = 1..Len(s) /\ \A i \in DOMAIN s : s[i] \in S
  OBVIOUS
<1>2. s \in Seq(ToSet(s))
  BY <1>1 DEF ToSet
<1> QED
  BY <1>1, <1>2 DEF IsSequence, ToSet

\* The positions of a sequence.
LEMMA SequenceShape ==
  ASSUME NEW s, IsSequence(s)
  PROVE  Len(s) \in Nat /\ DOMAIN s = 1..Len(s) /\ (s # <<>> <=> Len(s) > 0)
  BY DEF IsSequence

\* What a concatenation holds, and where.
LEMMA Concatenated ==
  ASSUME NEW s, NEW t, IsSequence(s), IsSequence(t)
  PROVE  /\ IsSequence(s \o t) /\ Len(s \o t) = Len(s) + Len(t)
         /\ DOMAIN (s \o t) = 1..Len(s) + Len(t)
         /\ \A i \in 1..Len(s) : (s \o t)[i] = s[i]
         /\ \A i \in 1..Len(t) : (s \o t)[Len(s) + i] = t[i]
         /\ ToSet(s \o t) = ToSet(s) \cup ToSet(t)
<1> DEFINE S == ToSet(s) \cup ToSet(t)
<1>1. s \in Seq(S) /\ t \in Seq(S)
  BY SeqMonotonic DEF IsSequence
<1> HIDE DEF S
<1>2. s \o t \in Seq(S)
  BY <1>1
<1>3. /\ Len(s \o t) = Len(s) + Len(t) /\ Len(s) \in Nat /\ Len(t) \in Nat
      /\ DOMAIN (s \o t) = 1..Len(s) + Len(t)
      /\ DOMAIN s = 1..Len(s) /\ DOMAIN t = 1..Len(t)
      /\ \A i \in 1..Len(s) : (s \o t)[i] = s[i]
      /\ \A i \in 1..Len(t) : (s \o t)[Len(s) + i] = t[i]
  BY <1>1
<1>4. ToSet(s) \subseteq ToSet(s \o t)
  BY <1>3 DEF ToSet
<1>5. ToSet(t) \subseteq ToSet(s \o t)
  <2> SUFFICES ASSUME NEW i \in 1..Len(t)
               PROVE  t[i] \in ToSet(s \o t)
    BY <1>3 DEF ToSet
  <2>1. Len(s) + i \in DOMAIN (s \o t) /\ (s \o t)[Len(s) + i] = t[i]
    BY <1>3
  <2> QED
    BY <2>1 DEF ToSet
<1> QED
  BY <1>2, <1>3, <1>4, <1>5, SequenceOfElements DEF S

\* What SubSeq holds, and where.
LEMMA Cut ==
  ASSUME NEW s, IsSequence(s), NEW a \in Nat \ {0}, NEW b \in Nat, b <= Len(s)
  PROVE  /\ IsSequence(SubSeq(s, a, b)) /\ ToSet(SubSeq(s, a, b)) \subseteq ToSet(s)
         /\ Len(SubSeq(s, a, b)) = IF a <= b THEN b - a + 1 ELSE 0
         /\ DOMAIN SubSeq(s, a, b) = 1..Len(SubSeq(s, a, b))
         /\ \A i \in 1..Len(SubSeq(s, a, b)) : SubSeq(s, a, b)[i] = s[a + i - 1]
<1> DEFINE part == SubSeq(s, a, b)
<1>1. s \in Seq(ToSet(s)) /\ Len(s) \in Nat
  BY DEF IsSequence
<1>2. \A i \in a..b : s[i] \in ToSet(s)
  BY <1>1
<1>3. /\ part \in Seq(ToSet(s))
      /\ Len(part) = IF a <= b THEN b - a + 1 ELSE 0
      /\ \A i \in 1 .. b - a + 1 : part[i] = s[a + i - 1]
  BY <1>2, SubSeqProperties
<1> HIDE DEF part
<1>4. IsSequence(part) /\ ToSet(part) \subseteq ToSet(s)
  BY <1>3, SequenceOfElements
<1>5. DOMAIN part = 1..Len(part) /\ 1..Len(part) \subseteq 1..b - a + 1
  BY <1>3
<1> QED
  BY <1>3, <1>4, <1>5 DEF part

\* Append as a concatenation.
LEMMA AppendedOne ==
  ASSUME NEW s, IsSequence(s), NEW e
  PROVE  Append(s, e) = s \o <<e>> /\ IsSequence(<<e>>) /\ ToSet(<<e>>) = {e}
<1>1. s \in Seq(ToSet(s) \cup {e})
  BY SeqMonotonic DEF IsSequence
<1>2. Append(s, e) = s \o <<e>>
  BY <1>1, AppendIsConcat
<1>3. ToSet(<<e>>) = {e}
  BY DEF ToSet
<1>4. IsSequence(<<e>>)
  BY <1>3 DEF IsSequence
<1> QED
  BY <1>2, <1>3, <1>4

\* Concatenation is associative, with the empty sequence as its unit.
LEMMA Joined ==
  ASSUME NEW s, NEW t, NEW u, IsSequence(s), IsSequence(t), IsSequence(u)
  PROVE  (s \o t) \o u = s \o (t \o u) /\ s \o <<>> = s
<1> DEFINE S == ToSet(s) \cup ToSet(t) \cup ToSet(u)
<1>1. s \in Seq(S) /\ t \in Seq(S) /\ u \in Seq(S)
  BY SeqMonotonic DEF IsSequence
<1> HIDE DEF S
<1>2. (s \o t) \o u = s \o (t \o u)
  BY <1>1, ConcatAssociative
<1>3. s \o <<>> = s
  BY <1>1, ConcatEmptySeq
<1> QED
  BY <1>2, <1>3

-----------------------------------------------------------------------------
\* A branch is a sequence of commits.
LEMMA BranchIsSequence ==
  ASSUME NEW commits, NEW on, NEW n, IsBranch(commits, on, n)
  PROVE  IsSequence(commits)
  BY DEF IsBranch, IsSequence

\* A commit stays one as time passes.
LEMMA CommitLater ==
  ASSUME NEW c, NEW n \in Nat, NEW m \in Nat, n <= m, IsCommit(c, n)
  PROVE  IsCommit(c, m)
<1>1. c.sha[1] \in Nat /\ c.committed \in Nat /\ c.sha[1] <= n /\ c.committed <= n
  BY DEF IsCommit
<1>2. c.sha[1] <= m /\ c.committed <= m
  BY <1>1
<1> QED
  BY <1>2 DEF IsCommit

\* So does a branch.
LEMMA BranchLater ==
  ASSUME NEW commits, NEW on, NEW n \in Nat, NEW m \in Nat, n <= m, IsBranch(commits, on, n)
  PROVE  IsBranch(commits, on, m)
  BY CommitLater DEF IsBranch

\* A list that another one goes on from.
Extended(list, longer) == Len(list) <= Len(longer) /\ \A i \in DOMAIN list : longer[i] = list[i]

\* The first commits of a branch are a branch.
LEMMA BranchPrefix ==
  ASSUME NEW commits, NEW on, NEW n, IsBranch(commits, on, n),
         NEW s, IsSequence(s), Extended(s, commits)
  PROVE  IsBranch(s, on, n)
<1> DEFINE m == Len(s)
<1>1. /\ IsSequence(commits) /\ DOMAIN commits = 1..Len(commits) /\ Len(commits) \in Nat
      /\ m \in Nat /\ DOMAIN s = 1..m
  BY BranchIsSequence, SequenceShape
<1>2. m <= Len(commits) /\ \A i \in 1..m : s[i] = commits[i]
  BY <1>1 DEF Extended
<1> HIDE DEF m
<1>3. \A i \in 1..m : i \in DOMAIN commits /\ 1..i \subseteq 1..m
  BY <1>1, <1>2
<1>4. s \in Seq(ToSet(s))
  BY DEF IsSequence
<1>5. \A i \in DOMAIN s : \A w \in s[i].tree : w.mine => \E j \in 1..i : w \in s[j].works
  <2> SUFFICES ASSUME NEW i \in 1..m, NEW w \in s[i].tree, w.mine
               PROVE  \E j \in 1..i : w \in s[j].works
    BY <1>1
  <2>1. PICK j \in 1..i : w \in commits[j].works
    BY <1>2, <1>3 DEF IsBranch
  <2> QED
    BY <1>2, <1>3, <2>1
<1> QED
  BY <1>1, <1>2, <1>3, <1>4, <1>5 DEF IsBranch

\* Commits made now continue a branch when each contains what is below it and the works of
\* those made before it.
LEMMA BranchContinues ==
  ASSUME NEW kept, NEW made, NEW on, NEW n \in Nat, NEW below,
         IsBranch(kept, on, n), IsSequence(made), on.sha \in Nat \X Nat, on.sha[1] <= n,
         \A i \in DOMAIN kept : kept[i].tree \subseteq below,
         \A w \in below : w.mine => \E j \in DOMAIN kept : w \in kept[j].works,
         \A i \in DOMAIN made : IsCommit(made[i], n + 1) /\ made[i].sha[1] = n + 1,
         \A i \in DOMAIN made : \A w :
           w \in made[i].tree <=> w \in below \/ \E j \in 1..i : w \in made[j].works,
         \A i, j \in DOMAIN made : made[i].sha = made[j].sha => i = j
  PROVE  IsBranch(kept \o made, on, n + 1)
<1> DEFINE all == kept \o made
           m == Len(kept)
<1>1. IsSequence(kept) /\ m \in Nat /\ DOMAIN kept = 1..m
  BY BranchIsSequence, SequenceShape
<1>2. Len(made) \in Nat /\ DOMAIN made = 1..Len(made)
  BY SequenceShape
<1>3. /\ IsSequence(all) /\ DOMAIN all = 1..m + Len(made)
      /\ \A i \in 1..m : all[i] = kept[i]
      /\ \A i \in 1..Len(made) : all[m + i] = made[i]
  BY <1>1, Concatenated
<1>4. \A i \in DOMAIN all : i \in 1..m \/ (i - m \in 1..Len(made) /\ i = m + (i - m))
  BY <1>1, <1>2, <1>3
<1>5. \A i \in DOMAIN all : i \notin 1..m => all[i] = made[i - m]
  BY <1>3, <1>4
<1> HIDE DEF all, m
<1>6. \A i \in 1..m : kept[i].sha[1] <= n /\ kept[i].sha[1] \in Nat
  BY <1>1 DEF IsBranch, IsCommit
<1>7. \A i \in DOMAIN all : IsCommit(all[i], n + 1) /\ all[i].works \subseteq all[i].tree
  <2> TAKE i \in DOMAIN all
  <2>1. CASE i \in 1..m
    <3>1. IsCommit(kept[i], n) /\ kept[i].works \subseteq kept[i].tree
      BY <1>1, <2>1 DEF IsBranch
    <3> QED
      BY <1>3, <2>1, <3>1, CommitLater
  <2>2. CASE i \notin 1..m
    <3>1. i - m \in 1..Len(made) /\ all[i] = made[i - m]
      BY <1>4, <1>5, <2>2
    <3> DEFINE k == i - m
    <3> HIDE DEF k
    <3>2. k \in 1..Len(made) /\ k \in 1..k /\ all[i] = made[k]
      BY <3>1 DEF k
    <3>3. made[k].works \subseteq made[k].tree
      BY <1>2, <3>2
    <3> QED
      BY <1>2, <3>2, <3>3
  <2> QED
    BY <2>1, <2>2
<1>8. \A i \in DOMAIN all : \A w \in all[i].tree : w.mine => \E j \in 1..i : w \in all[j].works
  <2> SUFFICES ASSUME NEW i \in DOMAIN all, NEW w \in all[i].tree, w.mine
               PROVE  \E j \in 1..i : w \in all[j].works
    OBVIOUS
  <2>1. CASE i \in 1..m
    <3>1. PICK j \in 1..i : w \in kept[j].works
      BY <1>1, <1>3, <2>1 DEF IsBranch
    <3> QED
      BY <1>1, <1>3, <2>1, <3>1
  <2>2. CASE i \notin 1..m
    <3>1. i - m \in 1..Len(made) /\ all[i] = made[i - m]
      BY <1>4, <1>5, <2>2
    <3>2. CASE w \in below
      <4>1. PICK j \in 1..m : w \in kept[j].works
        BY <1>1, <3>2
      <4>2. j \in 1..i /\ all[j] = kept[j]
        BY <1>1, <1>2, <1>3, <2>2
      <4> QED
        BY <4>1, <4>2
    <3>3. CASE w \notin below
      <4>1. PICK j \in 1..(i - m) : w \in made[j].works
        BY <1>2, <3>1, <3>3
      <4>2. j \in 1..Len(made) /\ m + j \in 1..i
        BY <1>1, <1>2, <1>3, <3>1
      <4> QED
        BY <1>3, <4>1, <4>2
    <3> QED
      BY <3>2, <3>3
  <2> QED
    BY <2>1, <2>2
<1>9. \A i \in DOMAIN all : all[i].sha = on.sha => all[i].tree = on.tree
  <2> TAKE i \in DOMAIN all
  <2>1. CASE i \in 1..m
    BY <1>1, <1>3, <2>1 DEF IsBranch
  <2>2. CASE i \notin 1..m
    <3>1. i - m \in 1..Len(made) /\ all[i] = made[i - m]
      BY <1>4, <1>5, <2>2
    <3>2. all[i].sha[1] = n + 1
      BY <1>2, <3>1
    <3>3. on.sha[1] \in Nat /\ on.sha[1] # n + 1
      OBVIOUS
    <3> QED
      BY <3>2, <3>3
  <2> QED
    BY <2>1, <2>2
<1>10. \A i, j \in DOMAIN all : all[i].sha = all[j].sha => i = j
  <2> SUFFICES ASSUME NEW i \in DOMAIN all, NEW j \in DOMAIN all, all[i].sha = all[j].sha
               PROVE  i = j
    OBVIOUS
  <2>1. \A k \in DOMAIN all : k \in 1..m <=> all[k].sha[1] <= n
    <3> TAKE k \in DOMAIN all
    <3>1. CASE k \in 1..m
      BY <1>3, <1>6, <3>1
    <3>2. CASE k \notin 1..m
      <4>1. k - m \in DOMAIN made /\ all[k] = made[k - m]
        BY <1>2, <1>4, <1>5, <3>2
      <4>2. all[k].sha[1] = n + 1
        BY <4>1
      <4> QED
        BY <3>2, <4>2
    <3> QED
      BY <3>1, <3>2
  <2>2. CASE i \in 1..m /\ j \in 1..m
    BY <1>1, <1>3, <2>2 DEF IsBranch
  <2>3. CASE i \notin 1..m /\ j \notin 1..m
    <3>1. /\ i - m \in DOMAIN made /\ all[i] = made[i - m]
          /\ j - m \in DOMAIN made /\ all[j] = made[j - m]
      BY <1>2, <1>4, <1>5, <2>3
    <3>2. i - m = j - m
      BY <3>1
    <3> QED
      BY <1>1, <1>3, <3>2
  <2> QED
    BY <2>1, <2>2, <2>3
<1>11. \A i, j \in DOMAIN all : i <= j => all[i].tree \subseteq all[j].tree
  <2> SUFFICES ASSUME NEW i \in DOMAIN all, NEW j \in DOMAIN all, i <= j
               PROVE  all[i].tree \subseteq all[j].tree
    OBVIOUS
  <2>1. CASE j \in 1..m
    <3>1. i \in 1..m
      BY <1>1, <1>3, <2>1
    <3> QED
      BY <1>1, <1>3, <2>1, <3>1 DEF IsBranch
  <2>2. CASE i \in 1..m /\ j \notin 1..m
    <3>1. j - m \in DOMAIN made /\ all[j] = made[j - m]
      BY <1>2, <1>4, <1>5, <2>2
    <3>2. all[i].tree \subseteq below
      BY <1>1, <1>3, <2>2
    <3> QED
      BY <3>1, <3>2
  <2>3. CASE i \notin 1..m /\ j \notin 1..m
    <3>1. /\ i - m \in DOMAIN made /\ all[i] = made[i - m]
          /\ j - m \in DOMAIN made /\ all[j] = made[j - m]
      BY <1>2, <1>4, <1>5, <2>3
    <3>2. 1..(i - m) \subseteq 1..(j - m)
      BY <1>1, <1>3
    <3> QED
      BY <3>1, <3>2
  <2>4. i \notin 1..m => j \notin 1..m
    BY <1>1, <1>3
  <2> QED
    BY <2>1, <2>2, <2>3, <2>4
<1>12. all \in Seq(ToSet(all))
  BY <1>3 DEF IsSequence
<1> QED
  BY <1>7, <1>8, <1>9, <1>10, <1>11, <1>12 DEF IsBranch, all

\* What a branch made again is made of: works no younger than the commit, one of them no older
\* than its date of authorship.
MadeAgain(c) ==
  /\ c.authored \in Nat /\ c.authored <= Now
  /\ \A w \in c.works : /\ DOMAIN w = {"at", "file", "mine"}
                        /\ w.at \in Nat /\ w.at <= Now
  /\ \E w \in c.works : c.authored <= w.at

PullInv ==
  /\ pull.commits # <<>> /\ IsBranch(pull.commits, job.on, date)
  /\ IsSequence(local) /\ IsBranch(Branch, job.on, date)
  /\ IsSequence(pull.comments) /\ IsDiscussion(ToSet(pull.comments), job, date)

\* The fields of a commit that is made.
LEMMA CommitFields ==
  ASSUME NEW sha, NEW authored, NEW committed, NEW works, NEW below
  PROVE  LET c == Commit(sha, authored, committed, works, below)
         IN  /\ DOMAIN c = {"sha", "authored", "committed", "works", "tree"}
             /\ c.sha = sha /\ c.authored = authored /\ c.committed = committed
             /\ c.works = works /\ c.tree = works \cup below
  BY DEF Commit

\* The plain facts about the branch that the steps of its author need.
LEMMA BranchFacts ==
  ASSUME CredentialsInv, PullInv
  PROVE  /\ IsSequence(pull.commits) /\ IsSequence(Branch)
         /\ Len(pull.commits) \in Nat \ {0} /\ Len(Branch) \in Nat \ {0}
         /\ Len(Branch) = Len(pull.commits) + Len(local) /\ Len(local) \in Nat
         /\ DOMAIN pull.commits = 1..Len(pull.commits) /\ DOMAIN Branch = 1..Len(Branch)
         /\ Extended(pull.commits, Branch)
         /\ job.on.sha \in Nat \X Nat /\ job.on.sha[1] <= date /\ date \in Nat /\ Now \in Nat
         /\ \A w \in job.base : ~w.mine
         /\ \A i \in DOMAIN Branch : IsCommit(Branch[i], date) /\ MadeAgain(Branch[i])
<1>1. /\ IsSequence(pull.commits) /\ IsSequence(Branch) /\ IsSequence(local)
      /\ pull.commits # <<>>
  BY BranchIsSequence DEF PullInv
<1>2. /\ Len(pull.commits) \in Nat \ {0} /\ Len(local) \in Nat
      /\ DOMAIN pull.commits = 1..Len(pull.commits)
  BY <1>1, SequenceShape
<1>3. /\ Len(Branch) = Len(pull.commits) + Len(local) /\ DOMAIN Branch = 1..Len(Branch)
      /\ \A i \in 1..Len(pull.commits) : Branch[i] = pull.commits[i]
  BY <1>1, Concatenated DEF Branch
<1>4. /\ job.on.sha \in Nat \X Nat /\ job.on.sha[1] <= date /\ date \in Nat
      /\ \A w \in job.base : ~w.mine
  BY DEF CredentialsInv, IsJob
<1>5. \A i \in DOMAIN Branch : IsCommit(Branch[i], date)
  BY DEF PullInv, IsBranch
<1>6. ASSUME NEW i \in DOMAIN Branch
      PROVE  MadeAgain(Branch[i])
  BY <1>4, <1>5 DEF IsCommit, MadeAgain, Now
<1> QED
  BY <1>1, <1>2, <1>3, <1>4, <1>5, <1>6 DEF Extended, Now

\* What lies below commit k is in the commits before it.
LEMMA BelowFacts ==
  ASSUME CredentialsInv, PullInv, NEW k \in 1..Len(Branch) + 1
  PROVE  LET kept == SubSeq(Branch, 1, k - 1)
         IN  /\ IsBranch(kept, job.on, date) /\ IsSequence(kept) /\ Len(kept) = k - 1
             /\ DOMAIN kept = 1..k - 1
             /\ \A i \in 1..k - 1 : kept[i] = Branch[i]
             /\ \A i \in 1..k - 1 : kept[i].tree \subseteq TreeBelow(Branch, k)
             /\ \A w \in TreeBelow(Branch, k) : w.mine => \E j \in 1..k - 1 : w \in kept[j].works
<1> DEFINE kept == SubSeq(Branch, 1, k - 1)
<1>1. /\ k - 1 \in 0..Len(Branch) /\ DOMAIN Branch = 1..Len(Branch) /\ IsSequence(Branch)
      /\ Len(Branch) \in Nat
  <2>1. DOMAIN Branch = 1..Len(Branch) /\ IsSequence(Branch) /\ Len(Branch) \in Nat
    BY BranchFacts
  <2> QED
    BY <2>1
<1>2. /\ IsSequence(kept) /\ Len(kept) = k - 1 /\ DOMAIN kept = 1..k - 1
      /\ \A i \in 1..k - 1 : kept[i] = Branch[i]
  BY <1>1, Cut
<1> HIDE DEF kept
<1>3. IsBranch(kept, job.on, date)
  <2>1. IsBranch(Branch, job.on, date) /\ Extended(kept, Branch)
    BY <1>1, <1>2 DEF PullInv, Extended
  <2> QED
    BY <1>2, <2>1, BranchPrefix
<1>4. CASE k = 1
  <2>1. TreeBelow(Branch, k) = {} /\ 1..k - 1 = {}
    BY <1>4 DEF TreeBelow
  <2> QED
    BY <1>2, <1>3, <2>1 DEF kept
<1>5. CASE k # 1
  <2>1. k - 1 \in 1..k - 1 /\ TreeBelow(Branch, k) = kept[k - 1].tree
    BY <1>1, <1>2, <1>5 DEF TreeBelow
  <2>2. \A i \in 1..k - 1 : i <= k - 1
    OBVIOUS
  <2>3. \A i \in 1..k - 1 : kept[i].tree \subseteq kept[k - 1].tree
    BY <1>2, <1>3, <2>1, <2>2 DEF IsBranch
  <2>4. \A w \in kept[k - 1].tree : w.mine => \E j \in 1..k - 1 : w \in kept[j].works
    BY <1>2, <1>3, <2>1 DEF IsBranch
  <2> QED
    BY <1>2, <1>3, <2>1, <2>3, <2>4 DEF kept
<1> QED
  BY <1>4, <1>5

\* A branch with its commits from k on made again is a branch.
LEMMA RemadeBranch ==
  ASSUME CredentialsInv, PullInv, NEW k \in 1..Len(Branch), NEW again, NEW below,
         IsSequence(again), again # <<>>, \A i \in DOMAIN again : MadeAgain(again[i]),
         TreeBelow(Branch, k) \subseteq below,
         \A w \in below : w.mine => w \in TreeBelow(Branch, k)
  PROVE  LET remade == SubSeq(Branch, 1, k - 1) \o Remade(again, below)
         IN  /\ remade # <<>> /\ IsBranch(remade, job.on, Now)
             /\ Len(remade) >= k - 1 /\ \A i \in 1..k - 1 : remade[i] = Branch[i]
<1> DEFINE kept == SubSeq(Branch, 1, k - 1)
           made == Remade(again, below)
<1>1. /\ IsBranch(kept, job.on, date) /\ IsSequence(kept) /\ Len(kept) = k - 1
      /\ DOMAIN kept = 1..k - 1 /\ \A i \in 1..k - 1 : kept[i] = Branch[i]
      /\ \A i \in 1..k - 1 : kept[i].tree \subseteq TreeBelow(Branch, k)
      /\ \A w \in TreeBelow(Branch, k) : w.mine => \E j \in 1..k - 1 : w \in kept[j].works
  <2>1. Len(Branch) \in Nat
    BY BranchFacts
  <2>2. k \in 1..Len(Branch) + 1
    BY <2>1
  <2> QED
    BY <2>2, BelowFacts
<1>2. DOMAIN again = 1..Len(again) /\ Len(again) \in Nat \ {0}
  BY SequenceShape
<1>3. IsSequence(made) /\ DOMAIN made = DOMAIN again /\ Len(made) = Len(again)
  <2>1. made = [i \in 1..Len(again) |-> made[i]]
    BY <1>2 DEF Remade
  <2> HIDE DEF made
  <2>2. DOMAIN made = 1..Len(again) /\ made \in [1..Len(again) -> ToSet(made)]
    BY <2>1 DEF ToSet
  <2>3. made \in Seq(ToSet(made))
    BY <1>2, <2>2, SeqDef
  <2> QED
    BY <1>2, <2>2, <2>3 DEF IsSequence
<1>4. \A i \in DOMAIN made :
        /\ DOMAIN made[i] = {"sha", "authored", "committed", "works", "tree"}
        /\ made[i].sha = <<Now, i>> /\ made[i].authored = again[i].authored
        /\ made[i].committed = Now /\ made[i].works = again[i].works
        /\ made[i].tree = again[i].works \cup (below \cup UNION {again[j].works : j \in 1..i - 1})
  BY <1>3, CommitFields DEF Remade
<1> HIDE DEF made, kept
<1>5. Now = date + 1 /\ date \in Nat /\ Now \in Nat
  BY BranchFacts DEF Now
<1>6. \A i \in DOMAIN made : IsCommit(made[i], date + 1) /\ made[i].sha[1] = date + 1
  <2> TAKE i \in DOMAIN made
  <2>1. i \in Nat /\ MadeAgain(again[i])
    BY <1>2, <1>3
  <2> DEFINE c == made[i]
  <2>2. /\ DOMAIN c = {"sha", "authored", "committed", "works", "tree"}
        /\ c.sha = <<Now, i>> /\ c.authored = again[i].authored
        /\ c.committed = Now /\ c.works = again[i].works
    BY <1>4
  <2> HIDE DEF c
  <2>3. c.sha \in Nat \X Nat /\ c.sha[1] = date + 1
    BY <1>5, <2>1, <2>2
  <2>4. /\ c.authored \in Nat /\ c.committed \in Nat /\ c.authored <= c.committed
        /\ c.committed = date + 1
    <3>1. again[i].authored \in Nat /\ again[i].authored <= Now
      BY <2>1 DEF MadeAgain
    <3> QED
      BY <1>5, <2>2, <3>1
  <2>5. /\ \A w \in c.works : /\ DOMAIN w = {"at", "file", "mine"}
                              /\ w.at \in Nat /\ w.at <= c.committed
        /\ \E w \in c.works : c.authored <= w.at
    BY <1>5, <2>1, <2>2 DEF MadeAgain
  <2>6. IsCommit(c, date + 1)
    BY <1>5, <2>2, <2>3, <2>4, <2>5 DEF IsCommit
  <2> QED
    BY <2>3, <2>6 DEF c
<1>7. \A i \in DOMAIN made : \A w :
        w \in made[i].tree <=> w \in below \/ \E j \in 1..i : w \in made[j].works
  <2> TAKE i \in DOMAIN made
  <2> TAKE w
  <2>1. 1..i = (1..i - 1) \cup {i} /\ 1..i \subseteq DOMAIN made
    BY <1>2, <1>3
  <2>2. \A j \in 1..i : made[j].works = again[j].works
    BY <1>4, <2>1
  <2> QED
    BY <1>4, <2>1, <2>2
<1>8. \A i, j \in DOMAIN made : made[i].sha = made[j].sha => i = j
  BY <1>4
<1>9. \A w \in below : w.mine => \E j \in DOMAIN kept : w \in kept[j].works
  BY <1>1
<1>10. IsBranch(kept \o made, job.on, date + 1)
  <2>1. job.on.sha \in Nat \X Nat /\ job.on.sha[1] <= date
    BY BranchFacts
  <2>2. \A i \in DOMAIN kept : kept[i].tree \subseteq below
    BY <1>1
  <2> QED
    BY <1>1, <1>3, <1>5, <1>6, <1>7, <1>8, <1>9, <2>1, <2>2, BranchContinues
<1>11. /\ Len(kept \o made) = k - 1 + Len(again)
       /\ \A i \in 1..k - 1 : (kept \o made)[i] = kept[i]
  BY <1>1, <1>3, Concatenated
<1>12. kept \o made # <<>> /\ Len(kept \o made) >= k - 1
  BY <1>2, <1>11
<1> QED
  BY <1>1, <1>5, <1>10, <1>11, <1>12 DEF kept, made

\* A step of the author: PullInv stays, and a listed commit is replaced only when the worker's
\* list is noted to have churned.
AuthorStep ==
  /\ PullInv'
  /\ pull'.comments = pull.comments
  /\ \/ work' = work /\ Extended(pull.commits, pull'.commits)
     \/ work' = Churned("commits")

\* A discussion stays one as time passes.
LEMMA DiscussionLater ==
  ASSUME NEW comments, NEW theJob, NEW n \in Nat, NEW m \in Nat, n <= m,
         IsDiscussion(comments, theJob, n)
  PROVE  IsDiscussion(comments, theJob, m)
<1>1. 1..n \subseteq 1..m /\ 0..n \subseteq 0..m
  OBVIOUS
<1> QED
  BY <1>1 DEF IsDiscussion

\* A pull request that nobody touches stays a possible one as time passes.
LEMMA PullLater ==
  ASSUME CredentialsInv, PullInv, PullRequestMoves
  PROVE  /\ UNCHANGED job /\ date' = Now /\ Now = date + 1 /\ date \in Nat /\ Now \in Nat
         /\ DOMAIN pull = PullFields
         /\ IsBranch(pull.commits, job.on, Now) /\ IsBranch(Branch, job.on, Now)
         /\ IsDiscussion(ToSet(pull.comments), job, Now)
<1>1. /\ UNCHANGED job /\ date' = Now /\ Now = date + 1 /\ date \in Nat /\ Now \in Nat
      /\ DOMAIN pull = PullFields
  BY MovesLeaveWorkAlone DEF CredentialsInv, Shapes, Now
<1>2. date <= Now
  BY <1>1
<1> QED
  BY <1>1, <1>2, BranchLater, DiscussionLater DEF PullInv

\* Nothing is left to push after a push.
LEMMA Pushed ==
  ASSUME NEW commits, IsSequence(commits), local' = <<>>, pull'.commits = commits
  PROVE  Branch' = commits /\ IsSequence(local')
<1>1. IsSequence(<<>>)
  BY DEF IsSequence
<1> QED
  BY <1>1, Joined DEF Branch

\* A new commit stays with its author until it is pushed.
LEMMA WriteCommitStep ==
  ASSUME CredentialsInv, PullInv, PullRequestMoves, NEW f, WriteCommit(f)
  PROVE  AuthorStep
<1> DEFINE new == Commit(<<Now, 0>>, Now, Now, {Work(Now, f, TRUE)}, TipOf(Branch).tree)
<1>1. local' = Append(local, new) /\ UNCHANGED <<pull, work>>
  BY DEF WriteCommit
<1>2. new.sha = <<Now, 0>> /\ new.authored = Now /\ new.committed = Now
      /\ new.works = {Work(Now, f, TRUE)} /\ new.tree = new.works \cup TipOf(Branch).tree
      /\ DOMAIN new = {"sha", "authored", "committed", "works", "tree"}
  BY DEF Commit
<1> HIDE DEF new
<1>3. /\ IsSequence(local) /\ IsSequence(pull.commits) /\ IsSequence(Branch)
      /\ Len(Branch) \in Nat \ {0} /\ DOMAIN Branch = 1..Len(Branch)
      /\ date \in Nat /\ Now = date + 1 /\ Now \in Nat
      /\ job.on.sha \in Nat \X Nat /\ job.on.sha[1] <= date
  BY BranchFacts DEF PullInv, Now
<1>4. /\ local' = local \o <<new>> /\ IsSequence(<<new>>) /\ IsSequence(local')
  <2>1. local' = local \o <<new>> /\ IsSequence(<<new>>)
    BY <1>1, <1>3, AppendedOne
  <2>2. IsSequence(local \o <<new>>)
    BY <1>3, <2>1, Concatenated
  <2> QED
    BY <2>1, <2>2
<1>5. Branch' = Branch \o <<new>>
  <2> DEFINE one == <<new>>
  <2>1. local' = local \o one /\ IsSequence(one) /\ pull' = pull
    BY <1>1, <1>4
  <2> HIDE DEF one
  <2>2. (pull.commits \o local) \o one = pull.commits \o (local \o one)
    <3> DEFINE listed == pull.commits
    <3>1. IsSequence(listed) /\ IsSequence(local) /\ IsSequence(one)
      BY <1>3, <2>1
    <3> HIDE DEF listed
    <3>2. (listed \o local) \o one = listed \o (local \o one)
      BY <3>1, Joined
    <3> QED
      BY <3>2 DEF listed
  <2>3. Branch' = Branch \o one
    BY <2>1, <2>2 DEF Branch
  <2> QED
    BY <2>3 DEF one
<1>6. IsBranch(Branch \o <<new>>, job.on, date + 1)
  <2> DEFINE made == <<new>>
             below == TipOf(Branch).tree
  <2>1. Len(made) = 1 /\ DOMAIN made = {1} /\ made[1] = new
    OBVIOUS
  <2>2. \A i \in DOMAIN Branch : Branch[i].tree \subseteq below
    BY <1>3 DEF TipOf, PullInv, IsBranch
  <2>3. \A w \in below : w.mine => \E j \in DOMAIN Branch : w \in Branch[j].works
    BY <1>3 DEF TipOf, PullInv, IsBranch
  <2>4. IsCommit(new, date + 1) /\ new.sha[1] = date + 1
    <3>1. new.sha \in Nat \X Nat /\ new.sha[1] = date + 1 /\ new.committed = date + 1
      BY <1>2, <1>3
    <3>2. /\ \A w \in new.works : /\ DOMAIN w = {"at", "file", "mine"}
                                  /\ w.at \in Nat /\ w.at <= new.committed
          /\ \E w \in new.works : new.authored <= w.at
      <4> DEFINE written == Work(Now, f, TRUE)
      <4>1. DOMAIN written = {"at", "file", "mine"} /\ written.at = Now
        BY DEF Work
      <4> HIDE DEF written
      <4>2. new.works = {written} /\ new.authored = Now /\ new.committed = Now
        BY <1>2 DEF written
      <4> QED
        BY <1>3, <4>1, <4>2
    <3>3. /\ new.authored \in Nat /\ new.committed \in Nat /\ new.authored <= new.committed
          /\ new.committed <= date + 1 /\ new.sha[1] <= date + 1
      BY <1>2, <1>3, <3>1
    <3>4. IsCommit(new, date + 1)
      BY <1>2, <3>1, <3>2, <3>3 DEF IsCommit
    <3> QED
      BY <3>1, <3>4
  <2>5. \A w : w \in new.tree <=> w \in below \/ \E j \in 1..1 : w \in made[j].works
    <3>1. 1..1 = {1}
      OBVIOUS
    <3> QED
      BY <1>2, <2>1, <3>1
  <2>6. IsBranch(Branch, job.on, date) /\ IsSequence(made)
    BY <1>4 DEF PullInv
  <2> HIDE DEF made, below
  <2>7. \A i, j \in DOMAIN made : made[i].sha = made[j].sha => i = j
    BY <2>1
  <2>8. IsBranch(Branch \o made, job.on, date + 1)
    BY <1>3, <2>1, <2>2, <2>3, <2>4, <2>5, <2>6, <2>7, BranchContinues
  <2> QED
    BY <2>8 DEF made
<1>7. PullInv'
  BY <1>1, <1>3, <1>4, <1>5, <1>6, PullLater DEF PullInv
<1>8. Extended(pull.commits, pull'.commits)
  <2>1. Len(pull.commits) \in Nat
    BY BranchFacts
  <2> QED
    BY <1>1, <2>1 DEF Extended
<1> QED
  BY <1>1, <1>7, <1>8 DEF AuthorStep

\* A push makes the list of commits longer and changes none of it.
LEMMA PushStep ==
  ASSUME CredentialsInv, PullInv, PullRequestMoves, Push
  PROVE  AuthorStep
<1>1. pull' = [pull EXCEPT !.commits = Branch] /\ local' = <<>> /\ work' = work
  BY DEF Push
<1>2. pull'.commits = Branch /\ pull'.comments = pull.comments
  BY <1>1, PullLater DEF PullFields
<1>3. Branch' = Branch /\ IsSequence(local') /\ Branch # <<>>
  <2>1. IsSequence(Branch) /\ Len(Branch) \in Nat \ {0}
    BY BranchFacts
  <2>2. Branch # <<>>
    BY <2>1, SequenceShape
  <2> QED
    BY <1>1, <1>2, <2>1, <2>2, Pushed
<1>4. PullInv'
  BY <1>2, <1>3, PullLater DEF PullInv
<1>5. Extended(pull.commits, Branch)
  BY BranchFacts
<1> QED
  BY <1>1, <1>2, <1>4, <1>5 DEF AuthorStep

\* A rewrite from commit k on.
LEMMA RewriteStep ==
  ASSUME CredentialsInv, PullInv, PullRequestMoves,
         NEW k \in 1..Len(Branch), NEW again, NEW below,
         IsSequence(again), again # <<>>, \A i \in DOMAIN again : MadeAgain(again[i]),
         TreeBelow(Branch, k) \subseteq below,
         \A w \in below : w.mine => w \in TreeBelow(Branch, k),
         PushRemade(k, again, below)
  PROVE  AuthorStep
<1> DEFINE remade == SubSeq(Branch, 1, k - 1) \o Remade(again, below)
<1>1. /\ local' = <<>>
      /\ work' = IF k <= Len(pull.commits) THEN Churned("commits") ELSE work
      /\ pull'.commits = remade /\ pull'.comments = pull.comments
  BY PullLater DEF PushRemade, PullFields
<1>2. /\ remade # <<>> /\ IsBranch(remade, job.on, Now)
      /\ Len(remade) >= k - 1 /\ \A i \in 1..k - 1 : remade[i] = Branch[i]
  BY RemadeBranch
<1> HIDE DEF remade
<1>3. IsSequence(remade) /\ Len(remade) \in Nat
  BY <1>2, BranchIsSequence, SequenceShape
<1>4. Branch' = remade /\ IsSequence(local')
  BY <1>1, <1>3, Pushed
<1>5. PullInv'
  BY <1>1, <1>2, <1>4, PullLater DEF PullInv
<1>6. k > Len(pull.commits) => Extended(pull.commits, remade)
  <2>1. /\ Len(pull.commits) \in Nat /\ DOMAIN pull.commits = 1..Len(pull.commits)
        /\ Extended(pull.commits, Branch)
    BY BranchFacts
  <2> QED
    BY <1>2, <1>3, <2>1 DEF Extended
<1>7. Len(pull.commits) \in Nat
  BY BranchFacts
<1> QED
  BY <1>1, <1>5, <1>6, <1>7 DEF AuthorStep

\* git rebase makes the commits from k on again, over the same works and maybe the base's.
LEMMA RebaseStep ==
  ASSUME CredentialsInv, PullInv, PullRequestMoves,
         NEW k \in 1..Len(Branch), NEW base \in {{}, job.base}, Rebase(k, base)
  PROVE  AuthorStep
<1> DEFINE again == SubSeq(Branch, k, Len(Branch))
           below == base \cup TreeBelow(Branch, k)
<1>1. PushRemade(k, again, below)
  BY DEF Rebase
<1>2. /\ IsSequence(Branch) /\ Len(Branch) \in Nat \ {0} /\ DOMAIN Branch = 1..Len(Branch)
      /\ \A i \in DOMAIN Branch : MadeAgain(Branch[i])
      /\ \A w \in base : ~w.mine
  BY BranchFacts
<1>3. k \in Nat \ {0} /\ k <= Len(Branch) /\ Len(Branch) <= Len(Branch)
  BY <1>2
<1>4. /\ IsSequence(again) /\ Len(again) = Len(Branch) - k + 1 /\ DOMAIN again = 1..Len(again)
      /\ \A i \in 1..Len(again) : again[i] = Branch[k + i - 1]
  BY <1>2, <1>3, Cut
<1> HIDE DEF again
<1>5. again # <<>> /\ \A i \in DOMAIN again : MadeAgain(again[i])
  <2>1. Len(again) > 0
    BY <1>2, <1>3, <1>4
  <2>2. \A i \in 1..Len(again) : k + i - 1 \in DOMAIN Branch
    BY <1>2, <1>3, <1>4
  <2> QED
    BY <1>2, <1>4, <2>1, <2>2, SequenceShape
<1>6. TreeBelow(Branch, k) \subseteq below /\ \A w \in below : w.mine => w \in TreeBelow(Branch, k)
  BY <1>2
<1> HIDE DEF below
<1> QED
  BY <1>1, <1>4, <1>5, <1>6, RewriteStep

\* git commit --amend and a fixup change when the works of commit k were written.
LEMMA AmendStep ==
  ASSUME CredentialsInv, PullInv, PullRequestMoves, NEW k \in 1..Len(Branch), Amend(k)
  PROVE  AuthorStep
<1> DEFINE c == Branch[k]
           fixed == [c EXCEPT !.works = {[w EXCEPT !.at = Now] : w \in c.works}]
           rest == SubSeq(Branch, k + 1, Len(Branch))
           again == <<fixed>> \o rest
           below == TreeBelow(Branch, k)
<1>1. PushRemade(k, again, below)
  BY DEF Amend
<1>2. /\ IsSequence(Branch) /\ Len(Branch) \in Nat \ {0} /\ DOMAIN Branch = 1..Len(Branch)
      /\ \A i \in DOMAIN Branch : MadeAgain(Branch[i]) /\ IsCommit(Branch[i], date)
      /\ date \in Nat /\ Now = date + 1 /\ Now \in Nat
  BY BranchFacts DEF Now
<1>3. k \in Nat /\ k + 1 \in Nat \ {0} /\ k <= Len(Branch) /\ Len(Branch) <= Len(Branch)
  BY <1>2
<1>4. MadeAgain(fixed)
  <2>1. IsCommit(c, date) /\ MadeAgain(c)
    BY <1>2
  <2>2. fixed.authored = c.authored /\ fixed.works = {[w EXCEPT !.at = Now] : w \in c.works}
    BY <2>1 DEF IsCommit
  <2>3. \A w \in c.works : [w EXCEPT !.at = Now].at = Now
                           /\ DOMAIN [w EXCEPT !.at = Now] = {"at", "file", "mine"}
    BY <2>1 DEF IsCommit
  <2>4. c.works # {}
    BY <2>1 DEF IsCommit
  <2> HIDE DEF fixed, c
  <2>5. \A w \in fixed.works : DOMAIN w = {"at", "file", "mine"} /\ w.at = Now
    BY <2>2, <2>3
  <2>6. fixed.works # {}
    BY <2>2, <2>4
  <2>7. fixed.authored \in Nat /\ fixed.authored <= Now
    BY <2>1, <2>2 DEF MadeAgain
  <2>8. \E w \in fixed.works : fixed.authored <= w.at
    BY <2>5, <2>6, <2>7
  <2> QED
    BY <1>2, <2>5, <2>7, <2>8 DEF MadeAgain
<1>5. /\ IsSequence(rest) /\ DOMAIN rest = 1..Len(rest) /\ Len(rest) \in Nat
      /\ Len(rest) = (IF k + 1 <= Len(Branch) THEN Len(Branch) - (k + 1) + 1 ELSE 0)
      /\ \A i \in 1..Len(rest) : rest[i] = Branch[(k + 1) + i - 1]
  <2> DEFINE next == k + 1
  <2> HIDE DEF next
  <2>1. next \in Nat \ {0}
    BY <1>3 DEF next
  <2>2. /\ IsSequence(SubSeq(Branch, next, Len(Branch)))
        /\ Len(SubSeq(Branch, next, Len(Branch))) =
             IF next <= Len(Branch) THEN Len(Branch) - next + 1 ELSE 0
        /\ DOMAIN SubSeq(Branch, next, Len(Branch)) = 1..Len(SubSeq(Branch, next, Len(Branch)))
        /\ \A i \in 1..Len(SubSeq(Branch, next, Len(Branch))) :
             SubSeq(Branch, next, Len(Branch))[i] = Branch[next + i - 1]
    BY <1>2, <1>3, <2>1, Cut
  <2>3. Len(SubSeq(Branch, next, Len(Branch))) \in Nat
    BY <2>2, SequenceShape
  <2> QED
    BY <2>2, <2>3 DEF next
<1> HIDE DEF fixed, rest
<1>6. IsSequence(<<fixed>>) /\ Len(<<fixed>>) = 1 /\ <<fixed>>[1] = fixed
  <2>1. ToSet(<<fixed>>) = {fixed}
    BY DEF ToSet
  <2> QED
    BY <2>1 DEF IsSequence
<1>7. \A i \in 1..Len(rest) : MadeAgain(rest[i])
  <2>1. \A i \in 1..Len(rest) : (k + 1) + i - 1 \in DOMAIN Branch
    <3> DEFINE n == Len(Branch)
               l == Len(rest)
    <3> HIDE DEF n, l
    <3>1. l \in Nat /\ l = (IF k + 1 <= n THEN n - (k + 1) + 1 ELSE 0)
      BY <1>5 DEF n, l
    <3>2. n \in Nat /\ k \in Nat \ {0} /\ DOMAIN Branch = 1..n
      BY <1>2, <1>3 DEF n
    <3>3. l = 0 \/ (k + 1 <= n /\ l = n - k)
      BY <3>1, <3>2
    <3>4. \A i \in 1..l : (k + 1) + i - 1 \in 1..n
      BY <3>1, <3>2, <3>3
    <3> QED
      BY <3>2, <3>4 DEF l
  <2> QED
    BY <1>2, <1>5, <2>1
<1>8. /\ IsSequence(again) /\ Len(again) = 1 + Len(rest) /\ DOMAIN again = 1..1 + Len(rest)
      /\ again[1] = fixed /\ \A i \in 1..Len(rest) : again[1 + i] = rest[i]
  <2>1. 1 \in 1..1
    OBVIOUS
  <2> QED
    BY <1>5, <1>6, <2>1, Concatenated
<1> HIDE DEF again
<1>9. \A i \in DOMAIN again : MadeAgain(again[i])
  <2>1. Len(rest) \in Nat
    BY <1>5, SequenceShape
  <2>2. \A i \in 1..1 + Len(rest) : i = 1 \/ (i - 1 \in 1..Len(rest) /\ i = 1 + (i - 1))
    BY <2>1
  <2> SUFFICES ASSUME NEW i \in 1..1 + Len(rest)
               PROVE  MadeAgain(again[i])
    BY <1>8
  <2>3. CASE i = 1
    BY <1>4, <1>8, <2>3
  <2>4. CASE i - 1 \in 1..Len(rest) /\ i = 1 + (i - 1)
    <3>1. again[1 + (i - 1)] = rest[i - 1]
      BY <1>8, <2>4
    <3> QED
      BY <1>7, <2>4, <3>1
  <2> QED
    BY <2>2, <2>3, <2>4
<1>10. again # <<>>
  <2>1. Len(rest) \in Nat /\ Len(again) > 0
    BY <1>5, <1>8, SequenceShape
  <2> QED
    BY <1>8, <2>1, SequenceShape
<1> QED
  BY <1>1, <1>8, <1>9, <1>10, RewriteStep

\* One commit as a sequence of commits to make again.
LEMMA OneCommit ==
  ASSUME NEW c, MadeAgain(c)
  PROVE  /\ IsSequence(<<c>>) /\ <<c>> # <<>>
         /\ \A i \in DOMAIN <<c>> : MadeAgain(<<c>>[i])
<1>1. ToSet(<<c>>) = {c}
  BY DEF ToSet
<1> QED
  BY <1>1 DEF IsSequence

\* Squashing joins the works of the last two commits.
LEMMA SquashStep ==
  ASSUME CredentialsInv, PullInv, PullRequestMoves, Squash
  PROVE  AuthorStep
<1> DEFINE k == Len(Branch) - 1
           both == [Branch[k] EXCEPT !.works = @ \cup Branch[k + 1].works]
<1>1. PushRemade(k, <<both>>, TreeBelow(Branch, k)) /\ Len(Branch) >= 2
  BY DEF Squash
<1>2. /\ Len(Branch) \in Nat \ {0} /\ DOMAIN Branch = 1..Len(Branch)
      /\ \A i \in DOMAIN Branch : MadeAgain(Branch[i]) /\ IsCommit(Branch[i], date)
  BY BranchFacts
<1>3. k \in 1..Len(Branch) /\ k + 1 \in 1..Len(Branch)
  BY <1>1, <1>2
<1>4. MadeAgain(both)
  <2>1. MadeAgain(Branch[k]) /\ MadeAgain(Branch[k + 1]) /\ IsCommit(Branch[k], date)
    BY <1>2, <1>3
  <2>2. /\ both.authored = Branch[k].authored
        /\ both.works = Branch[k].works \cup Branch[k + 1].works
    BY <2>1 DEF IsCommit
  <2> HIDE DEF both
  <2> QED
    BY <2>1, <2>2 DEF MadeAgain
<1> HIDE DEF both, k
<1>5. /\ IsSequence(<<both>>) /\ <<both>> # <<>>
      /\ \A i \in DOMAIN <<both>> : MadeAgain(<<both>>[i])
  BY <1>4, OneCommit
<1> QED
  BY <1>1, <1>3, <1>5, RewriteStep

\* Replacing the last commit throws its works away.
LEMMA ReplaceStep ==
  ASSUME CredentialsInv, PullInv, PullRequestMoves, NEW f, Replace(f)
  PROVE  AuthorStep
<1> DEFINE k == Len(Branch)
           other == Commit(<<Now, 1>>, Now, Now, {Work(Now, f, TRUE)}, {})
<1>1. PushRemade(k, <<other>>, TreeBelow(Branch, k))
  BY DEF Replace
<1>2. k \in 1..Len(Branch)
  <2>1. k \in Nat \ {0}
    BY BranchFacts
  <2> QED
    BY <2>1
<1>3. MadeAgain(other)
  <2>1. other.authored = Now /\ other.works = {Work(Now, f, TRUE)}
    BY DEF Commit
  <2>2. Now \in Nat
    BY BranchFacts
  <2> HIDE DEF other
  <2> QED
    BY <2>1, <2>2 DEF MadeAgain, Work
<1> HIDE DEF other, k
<1>4. /\ IsSequence(<<other>>) /\ <<other>> # <<>>
      /\ \A i \in DOMAIN <<other>> : MadeAgain(<<other>>[i])
  BY <1>3, OneCommit
<1> QED
  BY <1>1, <1>2, <1>4, RewriteStep

\* A comment that opens a thread, or replies to one that does, fits the discussion.
LEMMA DiscussionGrows ==
  ASSUME NEW comments, NEW n \in Nat, NEW c, IsDiscussion(comments, job, n),
         job.root \in 1..n, job.wanted \in 1..n, c.id = n + 1,
         \/ c.replyTo = NoComment
         \/ \E k \in comments : k.id = c.replyTo /\ k.replyTo = NoComment
  PROVE  IsDiscussion(comments \cup {c}, job, n + 1)
<1>1. IsDiscussion(comments, job, n + 1)
  BY DiscussionLater
<1>2. \A k \in comments : k.id \in 1..n /\ k.replyTo \in 0..n
  BY DEF IsDiscussion
<1>3. c.id \in 1..n + 1 /\ c.replyTo \in 0..n
  BY <1>2 DEF NoComment
<1>4. c.id # job.root /\ c.id # job.wanted
  OBVIOUS
<1>5. /\ c.id \in 1..n + 1 /\ c.replyTo \in 0..n + 1
      /\ c.id = job.root => /\ c.replyTo = NoComment
                            /\ c.created = job.created /\ c.commit = job.on.sha
      /\ c.id = job.wanted /\ job.wanted # job.root => c.replyTo = job.root
  BY <1>3, <1>4
<1>6. \A k \in comments : /\ c.id # k.id /\ k.replyTo # c.id /\ c.replyTo # c.id
                          /\ c.replyTo = k.id => k.replyTo = NoComment
  <2> TAKE k \in comments
  <2>1. k.id \in 1..n /\ k.replyTo \in 0..n
    BY <1>2
  <2>2. c.id # k.id /\ k.replyTo # c.id /\ c.replyTo # c.id
    BY <1>3, <2>1
  <2>3. c.replyTo = k.id => k.replyTo = NoComment
    BY <2>1 DEF IsDiscussion, NoComment
  <2> QED
    BY <2>2, <2>3
<1>7. c.replyTo # c.id
  BY <1>3
<1> QED
  BY <1>1, <1>5, <1>6, <1>7 DEF IsDiscussion

\* Part of a discussion is one.
LEMMA DiscussionPart ==
  ASSUME NEW comments, NEW part, NEW theJob, NEW n, IsDiscussion(comments, theJob, n),
         part \subseteq comments
  PROVE  IsDiscussion(part, theJob, n)
  BY DEF IsDiscussion

\* A step of the pull request: PullInv stays, what is said anywhere goes on being a discussion,
\* deleted ids stay deleted, and a list only fails to grow if the worker's is noted to have churned.
PullStep ==
  /\ PullInv'
  /\ \A S : ToSet(pull.comments) \subseteq S /\ IsDiscussion(S, job, date) =>
       IsDiscussion(S \cup ToSet(pull'.comments), job, Now)
  /\ Ids(ToSet(pull'.comments)) \subseteq Ids(ToSet(pull.comments)) \cup {Now}
  /\ \/ /\ work' = work
        /\ Extended(pull.commits, pull'.commits) /\ Extended(pull.comments, pull'.comments)
     \/ work' = Churned("commits") /\ pull'.comments = pull.comments
     \/ work' = Churned("comments") /\ pull'.commits = pull.commits

\* A new comment makes the list of comments longer and changes none of it.
LEMMA AddCommentStep ==
  ASSUME CredentialsInv, PullInv, PullRequestMoves,
         NEW replyTo \in {NoComment} \cup Roots, AddComment(replyTo)
  PROVE  PullStep
<1> DEFINE c == [id |-> Now, created |-> Now, replyTo |-> replyTo, commit |-> TipOf(pull.commits).sha]
           old == pull.comments
<1>1. pull'.comments = Append(old, c) /\ pull'.commits = pull.commits /\ UNCHANGED <<local, work>>
  BY PullLater DEF AddComment, PullFields
<1>2. IsSequence(old) /\ Len(old) \in Nat /\ DOMAIN old = 1..Len(old)
  BY SequenceShape DEF PullInv
<1>3. c.id = Now /\ c.replyTo = replyTo
  OBVIOUS
<1> HIDE DEF c
<1>4. /\ IsSequence(pull'.comments) /\ ToSet(pull'.comments) = ToSet(old) \cup {c}
      /\ Extended(old, pull'.comments)
  <2> DEFINE one == <<c>>
             list == old
  <2>1. Append(old, c) = old \o one /\ IsSequence(one) /\ ToSet(one) = {c} /\ Len(one) = 1
    BY <1>2, AppendedOne
  <2> HIDE DEF one, list
  <2>2. /\ IsSequence(list \o one) /\ ToSet(list \o one) = ToSet(list) \cup ToSet(one)
        /\ Len(list \o one) = Len(list) + Len(one)
        /\ \A i \in 1..Len(list) : (list \o one)[i] = list[i]
    BY <1>2, <2>1, Concatenated DEF list
  <2>3. Extended(list, list \o one)
    BY <1>2, <2>1, <2>2 DEF Extended, list
  <2> QED
    BY <1>1, <2>1, <2>2, <2>3 DEF list
<1>5. date \in Nat /\ Now = date + 1 /\ job.root \in 1..date /\ job.wanted \in 1..date
  BY DEF CredentialsInv, IsJob, Now
<1>6. \A S : ToSet(old) \subseteq S /\ IsDiscussion(S, job, date) => IsDiscussion(S \cup {c}, job, Now)
  <2> SUFFICES ASSUME NEW S, ToSet(old) \subseteq S, IsDiscussion(S, job, date)
               PROVE  IsDiscussion(S \cup {c}, job, Now)
    OBVIOUS
  <2>1. replyTo = NoComment \/ \E k \in S : k.id = replyTo /\ k.replyTo = NoComment
    BY DEF Roots
  <2> QED
    BY <1>3, <1>5, <2>1, DiscussionGrows
<1>7. \A S : ToSet(old) \subseteq S => S \cup {c} = S \cup ToSet(pull'.comments)
  BY <1>4
<1>8. IsDiscussion(ToSet(pull'.comments), job, Now)
  BY <1>4, <1>6 DEF PullInv
<1>9. PullInv'
  BY <1>1, <1>4, <1>8, PullLater DEF PullInv, Branch
<1>10. Ids(ToSet(pull'.comments)) \subseteq Ids(ToSet(old)) \cup {Now}
  BY <1>3, <1>4 DEF Ids
<1>11. Extended(pull.commits, pull'.commits)
  <2>1. Len(pull.commits) \in Nat
    BY BranchFacts
  <2> QED
    BY <1>1, <2>1 DEF Extended
<1>12. \A S : ToSet(old) \subseteq S /\ IsDiscussion(S, job, date) =>
         IsDiscussion(S \cup ToSet(pull'.comments), job, Now)
  BY <1>6, <1>7
<1> QED
  BY <1>1, <1>4, <1>9, <1>10, <1>11, <1>12 DEF PullStep

\* A deleted comment moves the others up, and the worker between two pages is marked.
LEMMA DeleteCommentStep ==
  ASSUME CredentialsInv, PullInv, PullRequestMoves,
         NEW i \in DOMAIN pull.comments, DeleteComment(i)
  PROVE  PullStep
<1> DEFINE old == pull.comments
<1>1. /\ pull'.comments = RemoveAt(old, i) /\ pull'.commits = pull.commits
      /\ local' = local /\ work' = Churned("comments")
  BY PullLater DEF DeleteComment, PullFields
<1>2. IsSequence(old) /\ Len(old) \in Nat /\ DOMAIN old = 1..Len(old)
  BY SequenceShape DEF PullInv
<1>3. IsSequence(pull'.comments) /\ ToSet(pull'.comments) \subseteq ToSet(old)
  <2> DEFINE list == old
             before == i - 1
             next == i + 1
             first == SubSeq(list, 1, before)
             last == SubSeq(list, next, Len(list))
  <2>1. before \in Nat /\ next \in Nat \ {0} /\ before <= Len(old)
    BY <1>2
  <2> HIDE DEF list, before, next
  <2>2. IsSequence(list) /\ Len(list) \in Nat /\ before <= Len(list) /\ Len(list) <= Len(list)
    BY <1>2, <2>1 DEF list
  <2>3. IsSequence(first) /\ ToSet(first) \subseteq ToSet(list)
    BY <2>1, <2>2, Cut
  <2>4. IsSequence(last) /\ ToSet(last) \subseteq ToSet(list)
    BY <2>1, <2>2, Cut
  <2>5. RemoveAt(old, i) = first \o last
    BY DEF RemoveAt, list, before, next
  <2> HIDE DEF first, last
  <2>6. IsSequence(first \o last) /\ ToSet(first \o last) = ToSet(first) \cup ToSet(last)
    BY <2>3, <2>4, Concatenated
  <2> QED
    BY <1>1, <2>3, <2>4, <2>5, <2>6 DEF list
<1>4. \A S : ToSet(old) \subseteq S /\ IsDiscussion(S, job, date) =>
        IsDiscussion(S \cup ToSet(pull'.comments), job, Now)
  <2> SUFFICES ASSUME NEW S, ToSet(old) \subseteq S, IsDiscussion(S, job, date)
               PROVE  IsDiscussion(S \cup ToSet(pull'.comments), job, Now)
    OBVIOUS
  <2>1. S \cup ToSet(pull'.comments) = S
    BY <1>3
  <2>2. date \in Nat /\ Now \in Nat /\ date <= Now
    BY PullLater
  <2> QED
    BY <2>1, <2>2, DiscussionLater
<1>5. IsDiscussion(ToSet(pull'.comments), job, Now)
  <2>1. IsDiscussion(ToSet(old), job, Now)
    BY PullLater
  <2> QED
    BY <1>3, <2>1, DiscussionPart
<1>6. PullInv'
  BY <1>1, <1>3, <1>5, PullLater DEF PullInv, Branch
<1>7. Ids(ToSet(pull'.comments)) \subseteq Ids(ToSet(old)) \cup {Now}
  BY <1>3 DEF Ids
<1> QED
  BY <1>1, <1>4, <1>6, <1>7 DEF PullStep

\* What the author does leaves the comments alone.
LEMMA AuthorPullStep ==
  ASSUME CredentialsInv, PullInv, PullRequestMoves, AuthorStep
  PROVE  PullStep
<1>1. \A S : ToSet(pull.comments) \subseteq S /\ IsDiscussion(S, job, date) =>
        IsDiscussion(S \cup ToSet(pull'.comments), job, Now)
  <2> SUFFICES ASSUME NEW S, ToSet(pull.comments) \subseteq S, IsDiscussion(S, job, date)
               PROVE  IsDiscussion(S \cup ToSet(pull'.comments), job, Now)
    OBVIOUS
  <2>1. S \cup ToSet(pull'.comments) = S
    BY DEF AuthorStep
  <2>2. date \in Nat /\ Now \in Nat /\ date <= Now
    BY PullLater
  <2> QED
    BY <2>1, <2>2, DiscussionLater
<1>2. Extended(pull.comments, pull.comments)
  <2>1. Len(pull.comments) \in Nat
    BY SequenceShape DEF PullInv
  <2> QED
    BY <2>1 DEF Extended
<1> QED
  BY <1>1, <1>2 DEF AuthorStep, PullStep

\* Every event of the pull request keeps its part of the invariant.
LEMMA PullRequestStep ==
  ASSUME CredentialsInv, PullInv, PullRequestMoves
  PROVE  PullStep
<1>1. CASE \E f \in Files : WriteCommit(f)
  BY <1>1, WriteCommitStep, AuthorPullStep
<1>2. CASE Push
  BY <1>2, PushStep, AuthorPullStep
<1>3. CASE \E k \in 1..Len(Branch), base \in {{}, job.base} : Rebase(k, base)
  BY <1>3, RebaseStep, AuthorPullStep
<1>4. CASE \E k \in 1..Len(Branch) : Amend(k)
  BY <1>4, AmendStep, AuthorPullStep
<1>5. CASE Squash
  BY <1>5, SquashStep, AuthorPullStep
<1>6. CASE \E f \in Files : Replace(f)
  BY <1>6, ReplaceStep, AuthorPullStep
<1>7. CASE \E replyTo \in {NoComment} \cup Roots : AddComment(replyTo)
  BY <1>7, AddCommentStep
<1>8. CASE \E i \in DOMAIN pull.comments : DeleteComment(i)
  BY <1>8, DeleteCommentStep
<1> QED
  BY <1>1, <1>2, <1>3, <1>4, <1>5, <1>6, <1>7, <1>8 DEF PullRequestMoves

\* The pull requests to begin with are possible ones.
LEMMA InitPull == Init => PullInv
<1> SUFFICES ASSUME NEW s \in Starts,
                    job = s.job, pull = s.pull, local = s.local, date = s.date
             PROVE  PullInv
  BY DEF Init
<1>1. IsStart(s)
  BY StartsAssumption
<1> QED
  BY <1>1 DEF IsStart, PullInv, Branch, IsSequence

-----------------------------------------------------------------------------
(***************************************************************************)
(* Threads.  Replies go to the first comment of a thread, so following     *)
(* them takes one step.                                                    *)
(***************************************************************************)
LEMMA RootOfReply ==
  ASSUME NEW comments,
         \A c, k \in comments : /\ c.id = k.id => c = k
                                /\ c.replyTo = k.id => k.replyTo = NoComment
  PROVE  /\ \A c \in comments :
              RootId(comments)[c.id] = IF c.replyTo = NoComment THEN c.id ELSE c.replyTo
         /\ \A c \in comments : ById(comments, c.id) = c
<1> DEFINE parent(i) == ById(comments, i).replyTo
           body(f) == [i \in Ids(comments) |->
                         IF parent(i) = NoComment THEN i
                         ELSE IF parent(i) \in Ids(comments) THEN f[parent(i)] ELSE parent(i)]
           flat == [i \in Ids(comments) |-> IF parent(i) = NoComment THEN i ELSE parent(i)]
           root == RootId(comments)
<1>1. \A c \in comments : ById(comments, c.id) = c /\ c.id \in Ids(comments)
  BY DEF ById, Ids
<1>2. \A i \in Ids(comments) : parent(i) \in Ids(comments) => parent(parent(i)) = NoComment
  BY <1>1 DEF Ids
<1>3. root = CHOOSE f : f = body(f)
  BY DEF RootId
<1>4. flat = body(flat)
  BY <1>2
<1>5. root = body(root)
  <2> HIDE DEF flat, body, root
  <2> QED
    BY <1>3, <1>4
<1> HIDE DEF root
<1>6. \A i \in Ids(comments) : root[i] = IF parent(i) = NoComment THEN i
                         ELSE IF parent(i) \in Ids(comments) THEN root[parent(i)] ELSE parent(i)
  BY <1>5
<1>7. \A c \in comments : root[c.id] = IF c.replyTo = NoComment THEN c.id ELSE c.replyTo
  BY <1>1, <1>2, <1>6
<1> QED
  BY <1>1, <1>7 DEF root

\* A thread is made of its root comment and of what replies to it.
LEMMA ThreadFields ==
  ASSUME NEW comments, NEW states, NEW t \in Threads(comments, states)
  PROVE  /\ t.root \in Ids(comments) /\ t.created = ById(comments, t.root).created
         /\ t.commit = ById(comments, t.root).commit
         /\ t.comments = {c.id : c \in {k \in comments : RootId(comments)[k.id] = t.root}}
<1> DEFINE resolved(r) == IF \E s \in states : s.root = r
                          THEN (IF [root |-> r, resolved |-> TRUE] \in states THEN "yes" ELSE "no")
                          ELSE "unknown"
           thread(r) == [root |-> r, created |-> ById(comments, r).created,
                         commit |-> ById(comments, r).commit, comments |-> Ids(Members(comments, r)),
                         resolved |-> resolved(r)]
<1>1. PICK r \in {RootId(comments)[i] : i \in Ids(comments)} \cap Ids(comments) : t = thread(r)
  BY Zenon DEF Threads
<1> HIDE DEF resolved
<1>2. /\ t.root = r /\ t.created = ById(comments, r).created
      /\ t.commit = ById(comments, r).commit /\ t.comments = Ids(Members(comments, r))
  BY <1>1
<1> QED
  BY <1>1, <1>2 DEF Members, Ids

\* The thread found is the one of the comment.
LEMMA FoundThread ==
  ASSUME NEW comments, NEW states, NEW n, IsDiscussion(comments, job, n),
         job.root \in Nat \ {NoComment},
         NEW t \in FindThread(Threads(comments, states), job.wanted)
  PROVE  /\ t.root = job.root /\ job.root \in t.comments
         /\ t.created = job.created /\ t.commit = job.on.sha
<1>1. t \in Threads(comments, states) /\ job.wanted \in t.comments
  BY DEF FindThread
<1>2. /\ \A c, k \in comments : /\ c.id = k.id => c = k
                                /\ c.replyTo = k.id => k.replyTo = NoComment
      /\ \A c \in comments :
           /\ c.id = job.root => /\ c.replyTo = NoComment
                                 /\ c.created = job.created /\ c.commit = job.on.sha
           /\ c.id = job.wanted /\ job.wanted # job.root => c.replyTo = job.root
  BY DEF IsDiscussion
<1>3. /\ \A c \in comments :
           RootId(comments)[c.id] = IF c.replyTo = NoComment THEN c.id ELSE c.replyTo
      /\ \A c \in comments : ById(comments, c.id) = c
  BY <1>2, RootOfReply
<1>4. /\ t.root \in Ids(comments) /\ t.created = ById(comments, t.root).created
      /\ t.commit = ById(comments, t.root).commit
      /\ t.comments = {c.id : c \in {k \in comments : RootId(comments)[k.id] = t.root}}
  BY <1>1, ThreadFields
<1>5. PICK c \in comments : c.id = job.wanted /\ RootId(comments)[c.id] = t.root
  BY <1>1, <1>4
<1>6. t.root = job.root
  BY <1>2, <1>3, <1>5
<1>7. PICK k \in comments : k.id = t.root
  BY <1>4 DEF Ids
<1>8. RootId(comments)[k.id] = t.root
  BY <1>2, <1>3, <1>6, <1>7
<1> QED
  BY <1>2, <1>3, <1>4, <1>6, <1>7, <1>8

\* A thread is found when its root and the comment are among those read.
LEMMA ThreadExists ==
  ASSUME NEW comments, NEW states, NEW n, IsDiscussion(comments, job, n),
         job.root \in Nat \ {NoComment}, {job.wanted, job.root} \subseteq Ids(comments)
  PROVE  FindThread(Threads(comments, states), job.wanted) # {}
<1>1. /\ \A c, k \in comments : /\ c.id = k.id => c = k
                                /\ c.replyTo = k.id => k.replyTo = NoComment
      /\ \A c \in comments :
           /\ c.id = job.root => c.replyTo = NoComment
           /\ c.id = job.wanted /\ job.wanted # job.root => c.replyTo = job.root
  BY DEF IsDiscussion
<1>2. \A c \in comments :
        RootId(comments)[c.id] = IF c.replyTo = NoComment THEN c.id ELSE c.replyTo
  BY <1>1, RootOfReply
<1> DEFINE r == job.root
           t == [root |-> r, created |-> ById(comments, r).created,
                 commit |-> ById(comments, r).commit, comments |-> Ids(Members(comments, r)),
                 resolved |-> IF \E s \in states : s.root = r
                              THEN (IF [root |-> r, resolved |-> TRUE] \in states THEN "yes" ELSE "no")
                              ELSE "unknown"]
<1>3. PICK c \in comments : c.id = job.wanted
  BY DEF Ids
<1>4. PICK k \in comments : k.id = r
  BY DEF Ids
<1>5. RootId(comments)[c.id] = r /\ RootId(comments)[k.id] = r
  BY <1>1, <1>2, <1>3, <1>4
<1>6. r \in {RootId(comments)[i] : i \in Ids(comments)} \cap Ids(comments)
  BY <1>4, <1>5 DEF Ids
<1>7. t \in Threads(comments, states)
  BY <1>6, Zenon DEF Threads
<1>8. job.wanted \in t.comments
  BY <1>3, <1>5 DEF Ids, Members
<1> QED
  BY <1>7, <1>8 DEF FindThread

-----------------------------------------------------------------------------
(***************************************************************************)
(* Pages.                                                                  *)
(***************************************************************************)
LEMMA FirstOnes ==
  ASSUME NEW list, IsSequence(list), NEW n \in Nat
  PROVE  /\ IsSequence(Upto(list, n)) /\ ToSet(Upto(list, n)) \subseteq ToSet(list)
         /\ Len(Upto(list, n)) = IF n < Len(list) THEN n ELSE Len(list)
         /\ Extended(Upto(list, n), list)
<1> DEFINE m == IF n < Len(list) THEN n ELSE Len(list)
           part == SubSeq(list, 1, m)
<1>1. Len(list) \in Nat
  BY SequenceShape
<1>2. m \in Nat /\ m <= Len(list) /\ Upto(list, n) = part
  BY <1>1 DEF Upto
<1> HIDE DEF m
<1>3. /\ IsSequence(part) /\ ToSet(part) \subseteq ToSet(list)
      /\ Len(part) = IF 1 <= m THEN m - 1 + 1 ELSE 0
      /\ DOMAIN part = 1..Len(part)
      /\ \A i \in 1..Len(part) : part[i] = list[1 + i - 1]
  BY <1>2, Cut
<1> HIDE DEF part
<1>4. Len(part) = m
  BY <1>2, <1>3
<1>5. \A i \in 1..m : 1 + i - 1 = i
  BY <1>2
<1>6. Extended(part, list)
  BY <1>2, <1>3, <1>4, <1>5 DEF Extended
<1> QED
  BY <1>2, <1>3, <1>4, <1>6 DEF m

\* Page n of a list goes on where n - 1 pages ended.
LEMMA PageFacts ==
  ASSUME NEW list, IsSequence(list), NEW n \in Nat \ {0}
  PROVE  LET page == Page(list, n)
             before == (n - 1) * PageSize
             upto == IF n * PageSize < Len(list) THEN n * PageSize ELSE Len(list)
         IN  /\ IsSequence(page) /\ ToSet(page) \subseteq ToSet(list)
             /\ before \in Nat /\ n * PageSize = before + PageSize
             /\ before <= Len(list) => /\ Len(page) = upto - before
                                       /\ \A i \in 1..Len(page) : page[i] = list[before + i]
<1> DEFINE before == (n - 1) * PageSize
           end == n * PageSize
           upto == IF end < Len(list) THEN end ELSE Len(list)
           first == Upto(list, end)
           page == SubSeq(first, before + 1, Len(first))
<1>1. PageSize \in Nat \ {0} /\ Len(list) \in Nat
  BY PagingAssumption, SequenceShape
<1>2. n - 1 \in Nat
  OBVIOUS
<1>3. before \in Nat /\ end = before + PageSize /\ end \in Nat
  BY <1>1, <1>2
<1>4. Page(list, n) = page
  BY DEF Page
<1> HIDE DEF before, end
<1>5. /\ IsSequence(first) /\ ToSet(first) \subseteq ToSet(list) /\ Len(first) = upto
      /\ Extended(first, list)
  BY <1>3, FirstOnes
<1> HIDE DEF first
<1>6. upto \in Nat /\ upto <= Len(list) /\ (before <= Len(list) => before <= upto)
  BY <1>1, <1>3
<1> HIDE DEF upto
<1> DEFINE a == before + 1
<1>7. a \in Nat \ {0}
  BY <1>3
<1>8. page = SubSeq(first, a, Len(first))
  OBVIOUS
<1> HIDE DEF a, page
<1>9. /\ IsSequence(page) /\ ToSet(page) \subseteq ToSet(first)
      /\ Len(page) = (IF a <= Len(first) THEN Len(first) - a + 1 ELSE 0)
      /\ DOMAIN page = 1..Len(page)
      /\ \A i \in 1..Len(page) : page[i] = first[a + i - 1]
  <2>1. Len(first) \in Nat /\ Len(first) <= Len(first)
    BY <1>5, <1>6
  <2> QED
    BY <1>5, <1>7, <1>8, <2>1, Cut
<1>10. ASSUME before <= Len(list)
       PROVE  Len(page) = upto - before /\ \A i \in 1..Len(page) : page[i] = list[before + i]
  <2>1. Len(page) = upto - before
    BY <1>3, <1>5, <1>6, <1>9, <1>10 DEF a
  <2>2. DOMAIN first = 1..upto
    BY <1>5, SequenceShape
  <2>3. \A i \in 1..Len(page) : a + i - 1 = before + i /\ before + i \in 1..upto
    BY <1>3, <1>6, <1>10, <2>1 DEF a
  <2>4. \A i \in 1..Len(page) : page[i] = list[before + i]
    BY <1>5, <1>9, <2>2, <2>3 DEF Extended
  <2> QED
    BY <2>1, <2>4
<1> QED
  BY <1>3, <1>4, <1>5, <1>9, <1>10 DEF before, end, upto

\* Items of one list and a page of another are items of the two.
LEMMA ReadMore ==
  ASSUME NEW list, IsSequence(list), NEW items, IsSequence(items), NEW n \in Nat \ {0}
  PROVE  LET more == items \o Page(list, n)
         IN  IsSequence(more) /\ ToSet(more) \subseteq ToSet(items) \cup ToSet(list)
  BY PageFacts, Concatenated

\* While a list only grows, what has been read of it is its beginning.
LEMMA ReadOn ==
  ASSUME NEW list, IsSequence(list), NEW items, IsSequence(items), NEW n \in Nat \ {0},
         Len(items) = (n - 1) * PageSize, Extended(items, list)
  PROVE  LET more == items \o Page(list, n)
         IN  /\ Extended(more, list)
             /\ Len(more) = IF n * PageSize < Len(list) THEN n * PageSize ELSE Len(list)
<1> DEFINE before == (n - 1) * PageSize
           upto == IF n * PageSize < Len(list) THEN n * PageSize ELSE Len(list)
           page == Page(list, n)
           more == items \o page
<1>1. /\ Len(list) \in Nat /\ DOMAIN list = 1..Len(list)
      /\ Len(items) \in Nat /\ DOMAIN items = 1..Len(items)
  BY SequenceShape
<1>2. before <= Len(list)
  BY DEF Extended
<1>3. /\ IsSequence(page) /\ before \in Nat /\ n * PageSize = before + PageSize
      /\ Len(page) = upto - before /\ \A i \in 1..Len(page) : page[i] = list[before + i]
  BY <1>2, PageFacts
<1>4. PageSize \in Nat
  BY PagingAssumption
<1>5. upto \in Nat /\ upto <= Len(list) /\ before <= upto
  BY <1>1, <1>2, <1>3, <1>4
<1>6. Len(items) = before /\ \A i \in 1..before : items[i] = list[i]
  BY <1>1 DEF Extended
<1> HIDE DEF page, upto, before
<1>7. /\ Len(more) = Len(items) + Len(page) /\ DOMAIN more = 1..Len(items) + Len(page)
      /\ \A i \in 1..Len(items) : more[i] = items[i]
      /\ \A i \in 1..Len(page) : more[Len(items) + i] = page[i]
  <2> HIDE DEF more
  <2>1. IsSequence(page) /\ IsSequence(items) /\ more = items \o page
    BY <1>3 DEF more
  <2>2. /\ Len(more) = Len(items) + Len(page) /\ DOMAIN more = 1..Len(items) + Len(page)
    BY <2>1, Concatenated
  <2>3. /\ \A i \in 1..Len(items) : more[i] = items[i]
    BY <2>1, Concatenated
  <2>4. /\ \A i \in 1..Len(page) : more[Len(items) + i] = page[i]
    BY <2>1, Concatenated
  <2> QED
    BY <2>2, <2>3, <2>4
<1> HIDE DEF more
<1>8. Len(more) = upto /\ DOMAIN more = 1..upto
  BY <1>3, <1>5, <1>6, <1>7
<1>9. \A i \in 1..upto : more[i] = list[i]
  <2> TAKE i \in 1..upto
  <2>1. CASE i \in 1..before
    BY <1>6, <1>7, <2>1
  <2>2. CASE i \notin 1..before
    <3>1. i - before \in 1..Len(page) /\ before + (i - before) = i
      BY <1>3, <1>5, <2>2
    <3> DEFINE k == i - before
    <3> HIDE DEF k
    <3>2. k \in 1..Len(page) /\ before + k = i
      BY <3>1 DEF k
    <3>3. more[before + k] = page[k] /\ page[k] = list[before + k]
      BY <1>3, <1>6, <1>7, <3>2
    <3> QED
      BY <3>2, <3>3
  <2> QED
    BY <2>1, <2>2
<1>10. Extended(more, list)
  BY <1>5, <1>8, <1>9 DEF Extended
<1> QED
  BY <1>8, <1>10 DEF more, upto, page

-----------------------------------------------------------------------------
(***************************************************************************)
(* What the worker has read.  While nothing but growth happened to a list, *)
(* the items read of it are its beginning; whatever happened, they are     *)
(* parts of one discussion, or commits with the dates of commits.          *)
(***************************************************************************)
ReadSoFar(list) == Len(work.items) = (work.from - 1) * PageSize /\ Extended(work.items, list)

CommentsRead ==
  work.call = "comments" =>
    /\ work.from \in Nat \ {0} /\ IsSequence(work.items)
    /\ IsDiscussion(ToSet(pull.comments) \cup ToSet(work.items), job, date)
    /\ "comments" \notin work.churn => ReadSoFar(pull.comments)

CommitsRead ==
  work.call = "commits" =>
    /\ work.from \in Nat \ {0} /\ IsSequence(work.items)
    /\ \A c \in ToSet(work.items) : IsCommit(c, date)
    /\ "commits" \notin work.churn => ReadSoFar(Upto(pull.commits, PullCommitsLimit))

WithCommits == {"files", "compare", "before", "after", "tests"}
WithThread == {"timeline", "commits"} \cup WithCommits
Calls == {"idle", "token", "pull", "states", "comments", "end"} \cup WithThread

\* The thread of the comment, for as long as it is needed.
ThreadRead ==
  /\ \A t \in seen.thread : /\ t.root = job.root /\ job.root \in t.comments
                            /\ t.created = job.created /\ t.commit = job.on.sha
  /\ work.call \in WithThread \/ Done => seen.thread # {}

\* A list read in peace is a branch, and one that was not cut is all of it.
ListRead ==
  work.call \in WithCommits \/ Done =>
    /\ IsSequence(seen.commits)
    /\ \A c \in ToSet(seen.commits) : IsCommit(c, date)
    /\ ListedInPeace =>
         /\ IsBranch(seen.commits, job.on, date)
         /\ Len(seen.commits) < PullCommitsLimit =>
              seen.commits # <<>> /\ seen.tip = TipOf(seen.commits).tree

\* Why a comment was not found.
Missed ==
  \/ ~({job.wanted, job.root} \subseteq Ids(ToSet(pull.comments)))
  \/ {"comments", "rest"} \cap work.churn # {}

ErrorsEnd ==
  /\ work.error # "none" => work.call = "end"
  /\ work.error = "thread_not_found" => Missed

CodeRead == seen.before = <<>> \/ seen.before = <<job.lines>>

ReadInv ==
  /\ work.call \in Calls
  /\ CommentsRead /\ CommitsRead /\ ThreadRead /\ ListRead /\ ErrorsEnd /\ CodeRead

\* At first nothing is read.
LEMMA InitRead == Init => ReadInv
<1> SUFFICES ASSUME work = Idle(1), seen = Unseen
             PROVE  ReadInv
  BY DEF Init
<1>1. work.call = "idle" /\ work.error = "none"
  BY IdleFields
<1>2. seen.thread = {} /\ seen.before = <<>>
  BY DEF Unseen
<1> QED
  BY <1>1, <1>2 DEF ReadInv, Calls, CommentsRead, CommitsRead, ThreadRead, ListRead, ErrorsEnd,
                    CodeRead, Done, WithThread, WithCommits

\* A longer list lists at least as much.
LEMMA UptoExtended ==
  ASSUME NEW list, IsSequence(list), NEW longer, IsSequence(longer), Extended(list, longer),
         NEW n \in Nat
  PROVE  Extended(Upto(list, n), Upto(longer, n))
<1> DEFINE s == Upto(list, n)
           t == Upto(longer, n)
<1>1. /\ IsSequence(s) /\ Len(s) = (IF n < Len(list) THEN n ELSE Len(list)) /\ Extended(s, list)
      /\ IsSequence(t) /\ Len(t) = (IF n < Len(longer) THEN n ELSE Len(longer))
      /\ Extended(t, longer)
  BY FirstOnes
<1> HIDE DEF s, t
<1>2. /\ Len(list) \in Nat /\ Len(longer) \in Nat /\ Len(s) \in Nat /\ Len(t) \in Nat
      /\ DOMAIN list = 1..Len(list) /\ DOMAIN s = 1..Len(s) /\ DOMAIN t = 1..Len(t)
  BY <1>1, SequenceShape
<1>3. Len(list) <= Len(longer)
  BY DEF Extended
<1>4. Len(s) <= Len(t) /\ Len(s) <= Len(list)
  BY <1>1, <1>2, <1>3
<1>5. \A i \in 1..Len(s) : i \in 1..Len(t) /\ i \in 1..Len(list)
  BY <1>2, <1>4
<1>6. \A i \in 1..Len(s) : t[i] = s[i]
  BY <1>1, <1>2, <1>5 DEF Extended
<1> QED
  BY <1>2, <1>4, <1>6 DEF Extended, s, t

\* Growing is transitive.
LEMMA ExtendedTwice ==
  ASSUME NEW s, IsSequence(s), NEW t, IsSequence(t), NEW u, IsSequence(u),
         Extended(s, t), Extended(t, u)
  PROVE  Extended(s, u)
<1>1. /\ Len(s) \in Nat /\ Len(t) \in Nat /\ Len(u) \in Nat
      /\ DOMAIN s = 1..Len(s) /\ DOMAIN t = 1..Len(t)
  BY SequenceShape
<1>2. Len(s) <= Len(t) /\ Len(t) <= Len(u)
  BY DEF Extended
<1>3. \A i \in 1..Len(s) : i \in 1..Len(t)
  BY <1>1, <1>2
<1> QED
  BY <1>1, <1>2, <1>3 DEF Extended

\* At its first page nothing of a list has been read.
LEMMA NothingRead ==
  ASSUME NEW list, IsSequence(list)
  PROVE  Extended(<<>>, list) /\ Len(<<>>) = (1 - 1) * PageSize
<1>1. Len(list) \in Nat /\ PageSize \in Nat
  BY SequenceShape, PagingAssumption
<1>2. Len(<<>>) = 0 /\ DOMAIN <<>> = {} /\ (1 - 1) * PageSize = 0
  BY <1>1
<1> QED
  BY <1>1, <1>2 DEF Extended

\* What the pull request does to the lists that are being read.
LEMMA MovesKeepReading ==
  ASSUME CredentialsInv, PullInv, ReadInv, PullRequestMoves
  PROVE  ReadInv'
<1> DEFINE limit == PullCommitsLimit
<1>1. PullStep /\ PullInv'
  BY PullRequestStep DEF PullStep
<1>2. Shapes
  BY DEF CredentialsInv
<1>3. /\ UNCHANGED <<job, cache, seen>> /\ date' = date + 1 /\ date \in Nat /\ Now = date + 1
      /\ work'.call = work.call /\ work'.from = work.from /\ work'.items = work.items
      /\ work'.error = work.error /\ work.churn \subseteq work'.churn
      /\ DOMAIN work = WorkFields
  BY <1>2, MovesLeaveWorkAlone DEF CredentialsInv, Now, Shapes
<1>4. \A c : IsCommit(c, date) => IsCommit(c, date')
  BY <1>3, CommitLater
<1>5. CommentsRead'
  <2> SUFFICES ASSUME work.call = "comments"
               PROVE  CommentsRead'
    BY <1>3 DEF CommentsRead
  <2> DEFINE all == ToSet(pull.comments) \cup ToSet(work.items)
  <2>1. /\ work.from \in Nat \ {0} /\ IsSequence(work.items) /\ IsDiscussion(all, job, date)
        /\ "comments" \notin work.churn => ReadSoFar(pull.comments)
    BY DEF ReadInv, CommentsRead
  <2>2. IsDiscussion(ToSet(pull'.comments) \cup ToSet(work.items), job, date + 1)
    <3>1. IsDiscussion(all \cup ToSet(pull'.comments), job, date + 1)
      BY <1>1, <1>3, <2>1 DEF PullStep
    <3>2. ToSet(pull'.comments) \cup ToSet(work.items) \subseteq all \cup ToSet(pull'.comments)
      OBVIOUS
    <3> QED
      BY <3>1, <3>2, DiscussionPart
  <2>3. ASSUME "comments" \notin work'.churn
        PROVE  Len(work.items) = (work.from - 1) * PageSize /\ Extended(work.items, pull'.comments)
    <3>1. Len(work.items) = (work.from - 1) * PageSize /\ Extended(work.items, pull.comments)
      BY <1>3, <2>1, <2>3 DEF ReadSoFar
    <3>2. IsSequence(pull.comments) /\ IsSequence(pull'.comments)
      BY <1>1 DEF PullInv
    <3>3. CASE Extended(pull.comments, pull'.comments)
      BY <2>1, <3>1, <3>2, <3>3, ExtendedTwice
    <3>4. CASE pull'.comments = pull.comments
      BY <3>1, <3>4
    <3>5. CASE work' = Churned("comments")
      <4>1. ~(work.from > 1)
        BY <1>3, <2>3, <3>5 DEF Churned, WorkFields
      <4>2. work.from = 1
        BY <2>1, <4>1
      <4>3. Len(work.items) = 0
        BY <3>1, <4>2, PagingAssumption
      <4>4. work.items = <<>>
        BY <2>1, <4>3, SequenceShape
      <4> QED
        BY <3>1, <3>2, <4>4, NothingRead
    <3> QED
      BY <1>1, <3>3, <3>4, <3>5 DEF PullStep
  <2> QED
    BY <1>3, <2>1, <2>2, <2>3 DEF CommentsRead, ReadSoFar
<1>6. CommitsRead'
  <2> SUFFICES ASSUME work.call = "commits"
               PROVE  CommitsRead'
    BY <1>3 DEF CommitsRead
  <2> DEFINE list == Upto(pull.commits, limit)
             then == Upto(pull'.commits, limit)
  <2>1. /\ work.from \in Nat \ {0} /\ IsSequence(work.items)
        /\ \A c \in ToSet(work.items) : IsCommit(c, date)
        /\ "commits" \notin work.churn => ReadSoFar(list)
    BY DEF ReadInv, CommitsRead
  <2>2. IsSequence(pull.commits) /\ IsSequence(pull'.commits) /\ limit \in Nat
    <3>1. IsBranch(pull.commits, job.on, date) /\ IsBranch(pull'.commits, job'.on, date')
      BY <1>1 DEF PullInv
    <3> QED
      BY <3>1, BranchIsSequence, PagingAssumption
  <2>3. IsSequence(list) /\ IsSequence(then)
    BY <2>2, FirstOnes
  <2>4. ASSUME "commits" \notin work'.churn
        PROVE  Len(work.items) = (work.from - 1) * PageSize /\ Extended(work.items, then)
    <3>1. Len(work.items) = (work.from - 1) * PageSize /\ Extended(work.items, list)
      BY <1>3, <2>1, <2>4 DEF ReadSoFar
    <3>2. CASE Extended(pull.commits, pull'.commits)
      <4>1. Extended(list, then)
        BY <2>2, <3>2, UptoExtended
      <4> HIDE DEF list, then
      <4> QED
        BY <2>1, <2>3, <3>1, <4>1, ExtendedTwice
    <3>3. CASE pull'.commits = pull.commits
      BY <3>1, <3>3
    <3>4. CASE work' = Churned("commits")
      <4>1. ~(work.from > 1)
        BY <1>3, <2>4, <3>4 DEF Churned, WorkFields
      <4>2. work.from = 1
        BY <2>1, <4>1
      <4>3. Len(work.items) = 0
        BY <3>1, <4>2, PagingAssumption
      <4>4. work.items = <<>>
        BY <2>1, <4>3, SequenceShape
      <4> QED
        BY <2>3, <3>1, <4>4, NothingRead
    <3> QED
      BY <1>1, <3>2, <3>3, <3>4 DEF PullStep
  <2> QED
    BY <1>3, <1>4, <2>1, <2>4 DEF CommitsRead, ReadSoFar
<1>7. ThreadRead'
  BY <1>3 DEF ReadInv, ThreadRead, Done
<1>8. ListRead'
  <2> SUFFICES ASSUME work.call \in WithCommits \/ Done
               PROVE  ListRead'
    BY <1>3 DEF ListRead, Done
  <2>1. /\ IsSequence(seen.commits) /\ \A c \in ToSet(seen.commits) : IsCommit(c, date)
        /\ ListedInPeace =>
             /\ IsBranch(seen.commits, job.on, date)
             /\ Len(seen.commits) < limit =>
                  seen.commits # <<>> /\ seen.tip = TipOf(seen.commits).tree
    BY DEF ReadInv, ListRead
  <2>2. ListedInPeace' => ListedInPeace
    BY <1>3 DEF ListedInPeace
  <2>3. IsBranch(seen.commits, job.on, date) => IsBranch(seen.commits, job.on, date')
    BY <1>3, BranchLater
  <2> QED
    BY <1>3, <1>4, <2>1, <2>2, <2>3 DEF ListRead
<1>9. ErrorsEnd'
  <2>1. ASSUME {job.wanted, job.root} \subseteq Ids(ToSet(pull'.comments))
        PROVE  {job.wanted, job.root} \subseteq Ids(ToSet(pull.comments))
    <3>1. {job.wanted, job.root} \subseteq 1..date
      BY DEF CredentialsInv, IsJob
    <3>2. Now \notin 1..date
      BY <1>3
    <3> QED
      BY <1>1, <2>1, <3>1, <3>2 DEF PullStep
  <2> QED
    BY <1>3, <2>1 DEF ReadInv, ErrorsEnd, Missed
<1> QED
  BY <1>3, <1>5, <1>6, <1>7, <1>8, <1>9 DEF ReadInv, CodeRead

\* At the first page of either list.
LEMMA FirstPages ==
  ASSUME PullInv, ReadInv, UNCHANGED <<job, pull, date>>,
         work'.call \in {"comments", "commits"} => work'.from = 1 /\ work'.items = <<>>
  PROVE  CommentsRead' /\ CommitsRead'
<1>1. IsSequence(pull.comments) /\ IsSequence(pull.commits)
  BY BranchIsSequence DEF PullInv
<1>2. IsSequence(Upto(pull.commits, PullCommitsLimit))
  BY <1>1, FirstOnes, PagingAssumption
<1>3. IsSequence(<<>>) /\ ToSet(<<>>) = {}
  BY DEF ToSet, IsSequence
<1>4. CommentsRead'
  <2> SUFFICES ASSUME work'.call = "comments"
               PROVE  CommentsRead'
    BY DEF CommentsRead
  <2>1. ReadSoFar(pull.comments)'
    BY <1>1, NothingRead DEF ReadSoFar
  <2>2. IsDiscussion(ToSet(pull.comments) \cup {}, job, date)
    BY DEF PullInv
  <2>3. work'.from = 1 /\ work'.items = <<>>
    OBVIOUS
  <2>4. ToSet(work'.items) = {} /\ IsSequence(work'.items) /\ work'.from \in Nat \ {0}
    BY <1>3, <2>3
  <2>5. IsDiscussion(ToSet(pull'.comments) \cup ToSet(work'.items), job', date')
    BY <2>2, <2>4, Zenon
  <2> QED
    BY <2>1, <2>4, <2>5, Zenon DEF CommentsRead
<1>5. CommitsRead'
  <2> SUFFICES ASSUME work'.call = "commits"
               PROVE  CommitsRead'
    BY DEF CommitsRead
  <2>1. ReadSoFar(Upto(pull.commits, PullCommitsLimit))'
    BY <1>2, NothingRead DEF ReadSoFar
  <2> QED
    BY <1>3, <2>1 DEF CommitsRead
<1> QED
  BY <1>4, <1>5

\* A step of the worker that reads neither of the two lists to its end.
Onward ==
  /\ UNCHANGED <<job, pull, local, date>>
  /\ work'.call \in Calls /\ work'.churn = work.churn
  /\ work'.call \in {"comments", "commits"} => work'.from = 1 /\ work'.items = <<>>
  /\ work'.call \in WithThread \/ Done' => work.call \in WithThread
  /\ work'.call \in WithCommits \/ Done' => work.call \in WithCommits
  /\ work'.error # "none" => work'.call = "end" /\ work'.error # "thread_not_found"
  /\ seen'.thread = seen.thread /\ seen'.commits = seen.commits /\ seen'.tip = seen.tip
  /\ seen'.before = seen.before \/ seen'.before = <<>> \/ seen'.before = <<job.lines>>

\* Such a step keeps what has been read.
LEMMA OnwardKeepsReading ==
  ASSUME PullInv, ReadInv, Onward
  PROVE  ReadInv'
<1>1. CommentsRead' /\ CommitsRead'
  BY FirstPages DEF Onward
<1>2. ThreadRead'
  BY DEF ReadInv, ThreadRead, Onward
<1>3. ListRead'
  BY DEF ReadInv, ListRead, ListedInPeace, Onward
<1>4. ErrorsEnd' /\ CodeRead'
  BY DEF ReadInv, ErrorsEnd, CodeRead, Onward
<1> QED
  BY <1>1, <1>2, <1>3, <1>4 DEF ReadInv, Onward

\* The worker goes on to its next request.
LEMMA GoesOn ==
  ASSUME Shapes, ReadInv, UNCHANGED <<job, pull, local, date>>,
         NEW call \in Calls \ {"idle", "end"}, work.call \notin {"idle", "end"},
         work' = GoTo(call),
         call \in WithThread => work.call \in WithThread,
         call \in WithCommits => work.call \in WithCommits,
         seen'.thread = seen.thread, seen'.commits = seen.commits, seen'.tip = seen.tip,
         seen'.before = seen.before \/ seen'.before = <<>> \/ seen'.before = <<job.lines>>
  PROVE  Onward
<1>1. work.error = "none"
  BY DEF ReadInv, ErrorsEnd
<1>2. /\ work'.call = call /\ work'.churn = work.churn /\ work'.error = "none"
      /\ work'.items = <<>> /\ work'.from = IF call = "states" THEN NoComment ELSE 1
  BY <1>1, WorkMoves
<1> QED
  BY <1>2 DEF Onward, Done

\* The worker ends with everything read.
LEMMA EndsWell ==
  ASSUME Shapes, ReadInv, UNCHANGED <<job, pull, local, date>>,
         work.call \in WithCommits, work' = GoTo("end"),
         seen'.thread = seen.thread, seen'.commits = seen.commits, seen'.tip = seen.tip,
         seen'.before = seen.before
  PROVE  Onward
<1>1. work.error = "none"
  BY DEF ReadInv, ErrorsEnd, WithCommits
<1>2. work'.call = "end" /\ work'.churn = work.churn /\ work'.error = "none"
  BY <1>1, WorkMoves
<1> QED
  BY <1>2 DEF Onward, Done, Calls, WithThread, WithCommits

\* client_for reads nothing of the pull request.
LEMMA BeginReads ==
  ASSUME CredentialsInv, PullInv, ReadInv, Begin
  PROVE  ReadInv'
<1>1. Shapes /\ work.error = "none"
  BY DEF CredentialsInv, ReadInv, ErrorsEnd, Begin
<1>2. /\ work'.call \in {"pull", "token"} /\ work'.churn = work.churn /\ work'.error = "none"
  BY <1>1, WorkMoves DEF Begin, WorkFields
<1>3. Onward
  BY <1>2 DEF Begin, Onward, Done, Calls, WithThread, WithCommits
<1> QED
  BY <1>3, OnwardKeepsReading

\* The requests whose answers are kept as they are.
LEMMA PlainReads ==
  ASSUME CredentialsInv, PullInv, ReadInv, NEW d \in job.durations,
         \/ ReceiveToken(d) \/ ReceivePull(d) \/ ReceiveTimeline(d) \/ ReceiveFiles(d)
         \/ ReceiveComparison(d) \/ ReceiveBefore(d) \/ ReceiveAfter(d) \/ ReceiveTests(d)
  PROVE  ReadInv'
<1>1. Shapes
  BY DEF CredentialsInv
<1> USE DEF Answered, Calls, WithThread, WithCommits, SeenFields, Shapes
<1>2. CASE ReceiveToken(d)
  <2>1. work.error = "none" /\ UNCHANGED <<job, pull, local, date, seen>>
    BY <1>2 DEF ReceiveToken, ReadInv, ErrorsEnd
  <2>2. work'.call = "pull" /\ work'.churn = work.churn /\ work'.error = "none"
    BY <1>1, <1>2, <2>1, WorkMoves DEF ReceiveToken, WorkFields
  <2>3. Onward
    BY <2>1, <2>2 DEF Onward, Done
  <2> QED
    BY <2>3, OnwardKeepsReading
<1>3. CASE ReceivePull(d)
  <2>1. Onward
    BY <1>1, <1>3, GoesOn DEF ReceivePull
  <2> QED
    BY <2>1, OnwardKeepsReading
<1>4. CASE ReceiveTimeline(d)
  <2>1. Onward
    BY <1>1, <1>4, GoesOn DEF ReceiveTimeline
  <2> QED
    BY <2>1, OnwardKeepsReading
<1>5. CASE ReceiveFiles(d)
  <2>1. Onward
    BY <1>1, <1>5, GoesOn DEF ReceiveFiles
  <2> QED
    BY <2>1, OnwardKeepsReading
<1>6. CASE ReceiveComparison(d)
  <2>1. Onward
    BY <1>1, <1>6, GoesOn DEF ReceiveComparison
  <2> QED
    BY <2>1, OnwardKeepsReading
<1>7. CASE ReceiveBefore(d)
  <2>1. Onward
    BY <1>1, <1>7, GoesOn DEF ReceiveBefore
  <2> QED
    BY <2>1, OnwardKeepsReading
<1>8. CASE ReceiveAfter(d)
  <2>1. /\ seen'.thread = seen.thread /\ seen'.commits = seen.commits /\ seen'.tip = seen.tip
        /\ seen'.before = seen.before /\ UNCHANGED <<job, pull, local, date>>
        /\ work.call = "after" /\ work' = GoTo(AfterAfter)
    BY <1>1, <1>8 DEF ReceiveAfter
  <2>2. AfterAfter \in {"end", "tests"}
    BY DEF AfterAfter
  <2>3. CASE AfterAfter = "end"
    <3>1. Onward
      BY <1>1, <2>1, <2>3, EndsWell
    <3> QED
      BY <3>1, OnwardKeepsReading
  <2>4. CASE AfterAfter = "tests"
    <3>1. Onward
      BY <1>1, <2>1, <2>4, GoesOn
    <3> QED
      BY <3>1, OnwardKeepsReading
  <2> QED
    BY <2>2, <2>3, <2>4
<1>9. CASE ReceiveTests(d)
  <2>1. Onward
    BY <1>1, <1>9, EndsWell DEF ReceiveTests
  <2> QED
    BY <2>1, OnwardKeepsReading
<1> QED
  BY <1>2, <1>3, <1>4, <1>5, <1>6, <1>7, <1>8, <1>9

\* list_thread_states keeps nothing the invariant speaks of.
LEMMA StatesReads ==
  ASSUME CredentialsInv, PullInv, ReadInv, NEW d \in job.durations, ReceiveStates(d)
  PROVE  ReadInv'
<1> DEFINE cursor == EndCursor(AfterCursor(Roots, work.from), work.from)
<1>1. /\ Shapes /\ work.call = "states" /\ work.error = "none"
      /\ UNCHANGED <<job, pull, local, date>>
  BY DEF CredentialsInv, ReceiveStates, Answered, ReadInv, ErrorsEnd
<1>2. /\ seen'.thread = seen.thread /\ seen'.commits = seen.commits /\ seen'.tip = seen.tip
      /\ seen'.before = seen.before
  BY <1>1 DEF ReceiveStates, Shapes, SeenFields
<1>3. CASE MoreAfter(Roots, work.from)
  <2>1. work' = TurnTo(cursor, <<>>)
    BY <1>3 DEF ReceiveStates
  <2> HIDE DEF cursor
  <2>2. work'.call = "states" /\ work'.churn = work.churn /\ work'.error = "none"
    BY <1>1, <2>1, WorkMoves
  <2>3. Onward
    BY <1>1, <1>2, <2>2 DEF Onward, Done, Calls, WithThread, WithCommits
  <2> QED
    BY <2>3, OnwardKeepsReading
<1>4. CASE ~MoreAfter(Roots, work.from)
  <2>1. work' = GoTo("comments")
    BY <1>4 DEF ReceiveStates
  <2>2. Onward
    BY <1>1, <1>2, <2>1, GoesOn DEF Calls, WithThread, WithCommits
  <2> QED
    BY <2>2, OnwardKeepsReading
<1> QED
  BY <1>3, <1>4

\* A missing value leaves what has been read alone.
LEMMA NotThereReads ==
  ASSUME CredentialsInv, PullInv, ReadInv, NotThere
  PROVE  ReadInv'
<1> DEFINE call == CASE work.call = "compare" -> "before"
                     [] work.call = "before" -> "after"
                     [] work.call = "after" -> AfterAfter
                     [] OTHER -> "end"
<1>1. /\ Shapes /\ work.call \in Optional
      /\ UNCHANGED <<job, pull, local, date, seen>> /\ work' = GoTo(call)
  BY DEF CredentialsInv, NotThere
<1>2. call \in {"before", "after", "tests", "end"}
  BY Zenon DEF AfterAfter
<1> HIDE DEF call
<1> USE DEF Optional, Calls, WithThread, WithCommits
<1>3. CASE call = "end"
  <2>1. Onward
    BY <1>1, <1>3, EndsWell
  <2> QED
    BY <2>1, OnwardKeepsReading
<1>4. CASE call # "end"
  <2>1. Onward
    BY <1>1, <1>2, <1>4, GoesOn
  <2> QED
    BY <2>1, OnwardKeepsReading
<1> QED
  BY <1>3, <1>4

\* A request that is given up ends the job with an error that is not ThreadNotFound.
LEMMA GiveUpReads ==
  ASSUME CredentialsInv, PullInv, ReadInv, GiveUp
  PROVE  ReadInv'
<1>1. PICK d \in job.durations : \E r \in Errors(d) :
        /\ AfterAnswer(r, work.attempt).next = "raise"
        /\ work' = [Stop(AfterAnswer(r, work.attempt).error) EXCEPT
                      !.rejected = IF r.status = 401 THEN work.call ELSE "none"]
  BY DEF GiveUp
<1>2. PICK r \in Errors(d) :
        /\ AfterAnswer(r, work.attempt).next = "raise"
        /\ work' = [Stop(AfterAnswer(r, work.attempt).error) EXCEPT
                      !.rejected = IF r.status = 401 THEN work.call ELSE "none"]
  BY <1>1
<1> DEFINE error == AfterAnswer(r, work.attempt).error
<1>3. error \in {"request", "not_found", "rate_limited"}
  BY <1>2 DEF AfterAnswer, Raise, Again, Return
<1> HIDE DEF error
<1>4. Shapes /\ UNCHANGED <<job, pull, local, date, seen>>
  BY DEF CredentialsInv, GiveUp
<1>5. work'.call = "end" /\ work'.churn = work.churn /\ work'.error = error
  BY <1>2, <1>4, WorkMoves DEF Stop, WorkFields, error
<1>6. Onward
  BY <1>3, <1>4, <1>5 DEF Onward, Done, Calls, WithThread, WithCommits
<1> QED
  BY <1>6, OnwardKeepsReading

\* A repeated attempt reads the same page again.
LEMMA TryAgainReads ==
  ASSUME CredentialsInv, PullInv, ReadInv, TryAgain
  PROVE  ReadInv'
<1>1. /\ work'.call = work.call /\ work'.from = work.from /\ work'.items = work.items
      /\ work'.churn = work.churn /\ work'.error = work.error
      /\ UNCHANGED <<job, pull, local, date, seen>>
  BY DEF CredentialsInv, Shapes, WorkFields, TryAgain
<1> QED
  BY <1>1 DEF ReadInv, CommentsRead, CommitsRead, ThreadRead, ListRead, ErrorsEnd, Missed, CodeRead,
              Done, ListedInPeace, ReadSoFar

\* A job given to the worker again has read nothing.
LEMMA RetryReads ==
  ASSUME CredentialsInv, PullInv, ReadInv, Retry
  PROVE  ReadInv'
<1>1. work'.call = "idle" /\ work'.error = "none"
  BY IdleFields DEF Retry
<1>2. seen'.thread = {} /\ seen'.before = <<>>
  BY DEF Retry, Unseen
<1> QED
  BY <1>1, <1>2 DEF ReadInv, Calls, CommentsRead, CommitsRead, ThreadRead, ListRead, ErrorsEnd,
                    CodeRead, Done, WithThread, WithCommits

\* A list no longer than the limit is read to its end.
LEMMA ReadToTheEnd ==
  ASSUME NEW list, IsSequence(list), NEW items, IsSequence(items), NEW n \in Nat \ {0},
         Len(items) = (n - 1) * PageSize, Extended(items, list),
         NEW limit \in Nat, Len(list) <= limit,
         ~ReadsOn(list, n, items \o Page(list, n), limit)
  PROVE  LET more == items \o Page(list, n)
         IN  Extended(more, list) /\ Len(more) = Len(list) /\ ToSet(more) = ToSet(list)
<1> DEFINE more == items \o Page(list, n)
<1>1. IsSequence(more)
  BY ReadMore
<1>2. /\ Extended(more, list)
      /\ Len(more) = IF n * PageSize < Len(list) THEN n * PageSize ELSE Len(list)
  BY ReadOn
<1> HIDE DEF more
<1>3. /\ Len(list) \in Nat /\ DOMAIN list = 1..Len(list)
      /\ Len(more) \in Nat /\ DOMAIN more = 1..Len(more)
  BY <1>1, SequenceShape
<1>4. ~(n * PageSize < Len(list)) \/ ~(Len(more) < limit)
  BY DEF ReadsOn, HasNext, more
<1>5. Len(more) = Len(list)
  BY <1>2, <1>3, <1>4 DEF Extended
<1>6. ToSet(more) = ToSet(list)
  BY <1>2, <1>3, <1>5 DEF Extended, ToSet
<1> QED
  BY <1>2, <1>5, <1>6 DEF more

\* A page of comments is added to those read, and the last one gives the thread of the comment
\* or the reason why there is none.
LEMMA CommentsKeepReading ==
  ASSUME CredentialsInv, PullInv, ReadInv, NEW d \in job.durations, ReceiveComments(d)
  PROVE  ReadInv'
<1> DEFINE list == pull.comments
           items == work.items \o Page(list, work.from)
           read == Upto(items, MaxItems)
           threads == Threads(ToSet(read), seen.states)
           found == FindThread(threads, job.wanted)
           all == ToSet(list) \cup ToSet(work.items)
<1>1. Shapes /\ work.call = "comments" /\ UNCHANGED <<job, pull, local, date>>
  BY DEF CredentialsInv, ReceiveComments, Answered
<1>2. /\ work.from \in Nat \ {0} /\ IsSequence(work.items) /\ IsDiscussion(all, job, date)
      /\ "comments" \notin work.churn => ReadSoFar(list)
      /\ IsSequence(list) /\ work.error = "none" /\ CodeRead
  <2>1. CommentsRead /\ ErrorsEnd /\ CodeRead
    BY DEF ReadInv
  <2>2. IsSequence(list)
    BY DEF PullInv
  <2>3. work.error = "none"
    BY <1>1, <2>1 DEF ErrorsEnd
  <2> QED
    BY <1>1, <2>1, <2>2, <2>3, Zenon DEF CommentsRead
<1>3. IsSequence(items) /\ ToSet(items) \subseteq all
  BY <1>2, ReadMore
<1>4. job.root \in Nat \ {NoComment}
  BY DEF CredentialsInv, IsJob, NoComment
<1>5. CASE ReadsOn(list, work.from, items, MaxItems)
  <2> DEFINE next == work.from + 1
  <2>1. work' = TurnTo(next, items) /\ seen' = seen
    BY <1>5 DEF ReceiveComments
  <2>2. next \in Nat \ {0} /\ next - 1 = work.from
    BY <1>2
  <2> HIDE DEF next
  <2>3. /\ work'.call = "comments" /\ work'.from = next /\ work'.items = items
        /\ work'.churn = work.churn /\ work'.error = "none"
    <3> HIDE DEF items
    <3> QED
      BY <1>1, <1>2, <2>1, WorkMoves
  <2>4. ToSet(list) \cup ToSet(items) \subseteq all
    BY <1>3
  <2>5. IsDiscussion(ToSet(list) \cup ToSet(items), job, date)
    BY <1>2, <2>4, DiscussionPart
  <2>6. ASSUME "comments" \notin work.churn
        PROVE  Len(items) = (next - 1) * PageSize /\ Extended(items, list)
    <3>1. Len(work.items) = (work.from - 1) * PageSize /\ Extended(work.items, list)
      BY <1>2, <2>6, Zenon DEF ReadSoFar
    <3>2. /\ Extended(items, list)
          /\ Len(items) = IF work.from * PageSize < Len(list) THEN work.from * PageSize
                          ELSE Len(list)
      BY <1>2, <3>1, ReadOn
    <3>3. work.from * PageSize < Len(list)
      BY <1>5 DEF ReadsOn, HasNext
    <3> QED
      BY <2>2, <3>2, <3>3
  <2> HIDE DEF items, list
  <2>7. CommentsRead'
    BY <1>1, <1>3, <2>2, <2>3, <2>5, <2>6 DEF CommentsRead, ReadSoFar, list
  <2>8. ThreadRead'
    BY <1>1, <2>1, <2>3 DEF ReadInv, ThreadRead, WithThread, WithCommits, Done
  <2> QED
    BY <1>1, <1>2, <2>1, <2>3, <2>7, <2>8
       DEF ReadInv, Calls, CommitsRead, ListRead, WithCommits, Done, ErrorsEnd, CodeRead
<1>6. CASE ~ReadsOn(list, work.from, items, MaxItems)
  <2>1. /\ seen' = [seen EXCEPT !.thread = found, !.states = {}]
        /\ work' = IF found # {} THEN GoTo("timeline")
                   ELSE [Stop("thread_not_found") EXCEPT
                           !.churn = @ \cup FlagIf(Len(list) > MaxItems, "rest")]
    BY <1>6 DEF ReceiveComments
  <2>2. ToSet(read) \subseteq all /\ MaxItems \in Nat
    BY <1>3, FirstOnes, PagingAssumption
  <2>3. IsDiscussion(ToSet(read), job, date)
    BY <1>2, <2>2, DiscussionPart
  <2>4. ASSUME NEW t \in found
        PROVE  /\ t.root = job.root /\ job.root \in t.comments
               /\ t.created = job.created /\ t.commit = job.on.sha
    BY <1>4, <2>3, FoundThread
  <2>5. ASSUME found = {}, {job.wanted, job.root} \subseteq Ids(ToSet(list)),
               "comments" \notin work.churn
        PROVE  Len(list) > MaxItems
    <3> SUFFICES ASSUME ~(Len(list) > MaxItems)
                 PROVE  FALSE
      OBVIOUS
    <3>1. Len(work.items) = (work.from - 1) * PageSize /\ Extended(work.items, list)
      BY <1>2, <2>5, Zenon DEF ReadSoFar
    <3>2. Len(list) <= MaxItems /\ Len(list) \in Nat
      BY <1>2, <2>2, SequenceShape
    <3>3. Len(items) = Len(list) /\ ToSet(items) = ToSet(list)
      BY <1>2, <1>6, <2>2, <3>1, <3>2, ReadToTheEnd
    <3> HIDE DEF items
    <3>4. Len(read) = Len(items) /\ Extended(read, items) /\ IsSequence(read)
      BY <1>3, <2>2, <3>2, <3>3, FirstOnes
    <3> HIDE DEF read
    <3>5. ToSet(read) = ToSet(items)
      BY <1>3, <3>4, SequenceShape DEF Extended, ToSet
    <3>6. {job.wanted, job.root} \subseteq Ids(ToSet(read))
      BY <2>5, <3>3, <3>5
    <3> QED
      BY <1>4, <2>3, <2>5, <3>6, ThreadExists
  <2> HIDE DEF found
  <2>6. seen'.thread = found /\ seen'.before = seen.before
    BY <1>1, <2>1 DEF Shapes, SeenFields
  <2>7. CodeRead'
    BY <1>1, <1>2, <2>6 DEF CodeRead
  <2>8. CASE found # {}
    <3>1. work'.call = "timeline" /\ work'.error = "none"
      BY <1>1, <1>2, <2>1, <2>8, WorkMoves
    <3>2. ThreadRead'
      BY <1>1, <2>4, <2>6, <2>8 DEF ThreadRead
    <3> QED
      BY <2>7, <3>1, <3>2
         DEF ReadInv, Calls, WithThread, CommentsRead, CommitsRead, ListRead, WithCommits, Done,
             ErrorsEnd
  <2>9. CASE found = {}
    <3> DEFINE rest == FlagIf(Len(list) > MaxItems, "rest")
    <3>1. work' = [Stop("thread_not_found") EXCEPT !.churn = @ \cup rest]
      BY <2>1, <2>9
    <3> HIDE DEF rest
    <3>2. /\ work'.call = "end" /\ work'.error = "thread_not_found"
          /\ work'.churn = work.churn \cup rest
      BY <1>1, <3>1, WorkMoves DEF Stop, WorkFields
    <3>3. Len(list) > MaxItems => "rest" \in rest
      BY DEF rest, FlagIf
    <3>4. Missed'
      BY <1>1, <2>5, <2>9, <3>2, <3>3 DEF Missed
    <3>5. ThreadRead'
      BY <1>1, <2>4, <2>6, <3>2 DEF ThreadRead, Done, WithThread, WithCommits
    <3> QED
      BY <2>7, <3>2, <3>4, <3>5
         DEF ReadInv, Calls, CommentsRead, CommitsRead, ListRead, WithCommits, Done, ErrorsEnd
  <2> QED
    BY <2>8, <2>9
<1> QED
  BY <1>5, <1>6

\* A page of commits is added to those read, and the last one gives a branch if it was listed in
\* peace.
LEMMA CommitsKeepReading ==
  ASSUME CredentialsInv, PullInv, ReadInv, NEW d \in job.durations, ReceiveCommits(d)
  PROVE  ReadInv'
<1> DEFINE limit == PullCommitsLimit
           listed == pull.commits
           list == Upto(listed, limit)
           items == work.items \o Page(list, work.from)
           commits == Upto(items, limit)
           call == AfterCommits(commits)
<1>1. Shapes /\ work.call = "commits" /\ UNCHANGED <<job, pull, local, date>>
  BY DEF CredentialsInv, ReceiveCommits, Answered
<1>2. IsSequence(listed) /\ limit \in Nat /\ IsBranch(listed, job.on, date) /\ listed # <<>>
  BY BranchIsSequence, PagingAssumption DEF PullInv
<1>3. /\ IsSequence(list) /\ ToSet(list) \subseteq ToSet(listed) /\ Extended(list, listed)
      /\ Len(list) = IF limit < Len(listed) THEN limit ELSE Len(listed)
  BY <1>2, FirstOnes
<1>4. /\ work.from \in Nat \ {0} /\ IsSequence(work.items)
      /\ \A c \in ToSet(work.items) : IsCommit(c, date)
      /\ "commits" \notin work.churn => ReadSoFar(list)
      /\ work.error = "none" /\ CodeRead
  <2>1. CommitsRead /\ ErrorsEnd /\ CodeRead
    BY DEF ReadInv
  <2>2. work.error = "none"
    BY <1>1, <2>1 DEF ErrorsEnd
  <2> QED
    BY <1>1, <2>1, <2>2, Zenon DEF CommitsRead
<1>5. /\ seen.thread # {}
      /\ \A t \in seen.thread : /\ t.root = job.root /\ job.root \in t.comments
                               /\ t.created = job.created /\ t.commit = job.on.sha
  BY <1>1 DEF ReadInv, ThreadRead, WithThread
<1> HIDE DEF list
<1>6. IsSequence(items) /\ ToSet(items) \subseteq ToSet(work.items) \cup ToSet(list)
  BY <1>3, <1>4, ReadMore
<1>7. \A c \in ToSet(items) : IsCommit(c, date)
  <2>1. \A c \in ToSet(listed) : IsCommit(c, date)
    BY <1>2 DEF IsBranch, ToSet
  <2> QED
    BY <1>3, <1>4, <1>6, <2>1
<1>8. CASE ReadsOn(list, work.from, items, limit)
  <2> DEFINE next == work.from + 1
  <2>1. work' = TurnTo(next, items) /\ seen' = seen
    BY <1>8 DEF ReceiveCommits, list
  <2>2. next \in Nat \ {0} /\ next - 1 = work.from
    BY <1>4
  <2> HIDE DEF next
  <2>3. /\ work'.call = "commits" /\ work'.from = next /\ work'.items = items
        /\ work'.churn = work.churn /\ work'.error = "none"
    <3> HIDE DEF items
    <3> QED
      BY <1>1, <1>4, <2>1, WorkMoves
  <2>4. ASSUME "commits" \notin work.churn
        PROVE  Len(items) = (next - 1) * PageSize /\ Extended(items, list)
    <3>1. Len(work.items) = (work.from - 1) * PageSize /\ Extended(work.items, list)
      BY <1>4, <2>4, Zenon DEF ReadSoFar
    <3>2. /\ Extended(items, list)
          /\ Len(items) = IF work.from * PageSize < Len(list) THEN work.from * PageSize
                          ELSE Len(list)
      BY <1>3, <1>4, <3>1, ReadOn
    <3>3. work.from * PageSize < Len(list)
      BY <1>8 DEF ReadsOn, HasNext
    <3> QED
      BY <2>2, <3>2, <3>3
  <2>5. list' = list
    BY <1>1 DEF list
  <2> HIDE DEF items
  <2>6. CommitsRead'
    BY <1>1, <1>6, <1>7, <2>2, <2>3, <2>4, <2>5 DEF CommitsRead, ReadSoFar, list
  <2>7. ThreadRead' /\ CodeRead'
    BY <1>1, <1>4, <1>5, <2>1 DEF ThreadRead, CodeRead
  <2> QED
    BY <2>3, <2>6, <2>7
       DEF ReadInv, Calls, WithThread, CommentsRead, ListRead, WithCommits, Done, ErrorsEnd
<1>9. CASE ~ReadsOn(list, work.from, items, limit)
  <2>1. /\ seen' = [seen EXCEPT !.commits = commits, !.tip = TipOf(listed).tree]
        /\ work' = GoTo(call)
    BY <1>9 DEF ReceiveCommits, list
  <2>2. call \in {"before", "files"}
    BY DEF AfterCommits
  <2>3. /\ IsSequence(commits) /\ ToSet(commits) \subseteq ToSet(items)
        /\ Len(commits) = (IF limit < Len(items) THEN limit ELSE Len(items))
        /\ Extended(commits, items)
    BY <1>2, <1>6, FirstOnes
  <2>4. ASSUME "commits" \notin work.churn
        PROVE  /\ IsBranch(commits, job.on, date)
               /\ Len(commits) < limit => commits # <<>> /\ TipOf(listed) = TipOf(commits)
    <3>1. Len(work.items) = (work.from - 1) * PageSize /\ Extended(work.items, list)
      BY <1>4, <2>4, Zenon DEF ReadSoFar
    <3>2. /\ Len(listed) \in Nat \ {0} /\ Len(list) \in Nat /\ Len(items) \in Nat
          /\ DOMAIN listed = 1..Len(listed) /\ DOMAIN commits = 1..Len(commits)
      <4> HIDE DEF items, commits, listed
      <4>1. Len(listed) \in Nat /\ DOMAIN listed = 1..Len(listed) /\ Len(listed) > 0
        BY <1>2, SequenceShape
      <4>2. Len(list) \in Nat /\ Len(items) \in Nat /\ DOMAIN commits = 1..Len(commits)
        BY <1>3, <1>6, <2>3, SequenceShape
      <4> QED
        BY <4>1, <4>2
    <3>3. Len(list) <= limit
      BY <1>2, <1>3, <3>2
    <3>4. Extended(items, list) /\ Len(items) = Len(list)
      BY <1>2, <1>3, <1>4, <1>9, <3>1, <3>3, ReadToTheEnd
    <3> HIDE DEF items, commits
    <3>5. Extended(commits, list)
      BY <1>3, <1>6, <2>3, <3>4, ExtendedTwice
    <3>6. Extended(commits, listed)
      BY <1>2, <1>3, <2>3, <3>5, ExtendedTwice
    <3>7. IsBranch(commits, job.on, date)
      BY <1>2, <2>3, <3>6, BranchPrefix
    <3>8. ASSUME Len(commits) < limit
          PROVE  commits # <<>> /\ TipOf(listed) = TipOf(commits)
      <4>1. Len(commits) = Len(listed)
        BY <1>2, <1>3, <2>3, <3>2, <3>4, <3>8
      <4>2. Len(commits) \in DOMAIN commits /\ commits # <<>>
        BY <2>3, <3>2, <4>1, SequenceShape
      <4> QED
        BY <3>6, <4>1, <4>2 DEF Extended, TipOf
    <3> QED
      BY <3>7, <3>8
  <2> HIDE DEF commits, call
  <2>5. /\ seen'.commits = commits /\ seen'.tip = TipOf(listed).tree
        /\ seen'.thread = seen.thread /\ seen'.before = seen.before
    BY <1>1, <2>1 DEF Shapes, SeenFields
  <2>6. work'.call = call /\ work'.churn = work.churn /\ work'.error = "none"
    BY <1>1, <1>4, <2>1, WorkMoves
  <2>7. \A c \in ToSet(commits) : IsCommit(c, date)
    BY <1>7, <2>3
  <2> HIDE DEF items
  <2>8. ListRead'
    BY <1>1, <2>3, <2>4, <2>5, <2>6, <2>7 DEF ListRead, ListedInPeace
  <2>9. ThreadRead' /\ CodeRead'
    BY <1>1, <1>4, <1>5, <2>5 DEF ThreadRead, CodeRead
  <2> QED
    BY <2>2, <2>6, <2>8, <2>9
       DEF ReadInv, Calls, WithThread, WithCommits, CommentsRead, CommitsRead, Done, ErrorsEnd
<1> QED
  BY <1>8, <1>9

-----------------------------------------------------------------------------
(***************************************************************************)
(* The whole invariant.                                                    *)
(***************************************************************************)
IngestionInv == CredentialsInv /\ PullInv /\ ReadInv

\* Every step keeps the whole invariant.
LEMMA NextReads ==
  ASSUME IngestionInv, [Next]_vars
  PROVE  IngestionInv'
<1>1. CredentialsInv'
  BY NextCredentials DEF IngestionInv
<1>2. CASE UNCHANGED vars
  BY <1>1, <1>2
     DEF IngestionInv, vars, PullInv, Branch, ReadInv, CommentsRead, CommitsRead, ReadSoFar,
         ThreadRead, ListRead, ListedInPeace, ErrorsEnd, Missed, CodeRead, Done
<1>3. CASE PullRequestMoves
  BY <1>1, <1>3, PullRequestStep, MovesKeepReading DEF IngestionInv, PullStep
<1>4. CASE Worker
  <2>1. UNCHANGED <<job, pull, local, date>>
    BY <1>4 DEF Worker, Begin, Receive, TryAgain, NotThere, GiveUp, Retry, ReceiveToken, ReceivePull,
                ReceiveStates, ReceiveComments, ReceiveTimeline, ReceiveCommits, ReceiveFiles,
                ReceiveComparison, ReceiveBefore, ReceiveAfter, ReceiveTests, Answered
  <2>2. PullInv'
    BY <2>1 DEF IngestionInv, PullInv, Branch
  <2>3. ASSUME Receive
        PROVE  ReadInv'
    <3>1. PICK d \in job.durations :
            \/ ReceiveToken(d) \/ ReceivePull(d) \/ ReceiveStates(d) \/ ReceiveComments(d)
            \/ ReceiveTimeline(d) \/ ReceiveCommits(d) \/ ReceiveFiles(d) \/ ReceiveComparison(d)
            \/ ReceiveBefore(d) \/ ReceiveAfter(d) \/ ReceiveTests(d)
      BY <2>3 DEF Receive
    <3> QED
      BY <3>1, PlainReads, StatesReads, CommentsKeepReading, CommitsKeepReading DEF IngestionInv
  <2>4. ReadInv'
    BY <1>4, <2>3, BeginReads, TryAgainReads, NotThereReads, GiveUpReads, RetryReads
       DEF IngestionInv, Worker
  <2> QED
    BY <1>1, <2>2, <2>4 DEF IngestionInv
<1> QED
  BY <1>2, <1>3, <1>4 DEF Next

\* The credentials last, the pull request stays a possible one, and what the worker has read of it
\* is the beginning of its lists, or is known to have been torn.
THEOREM IngestionInvariant == Spec => []IngestionInv
<1>1. Init => IngestionInv
  BY InitCredentials, InitPull, InitRead DEF IngestionInv
<1>2. IngestionInv /\ [Next]_vars => IngestionInv'
  BY NextReads
<1> QED
  BY <1>1, <1>2, PTL DEF Spec

\* The invariant says why a thread was not found.
LEMMA FoundIsRight == IngestionInv => ThreadIsFound
  BY DEF IngestionInv, ReadInv, ErrorsEnd, Missed, ThreadRead, ThreadIsFound

-----------------------------------------------------------------------------
(***************************************************************************)
(* The window.                                                             *)
(***************************************************************************)
\* Every set of positions up to some bound has a last one.
LEMMA LastPosition ==
  ASSUME NEW n \in Nat, NEW S, S \subseteq 1..n, S # {}
  PROVE  LastOf(S) \in S /\ \A j \in S : j <= LastOf(S)
<1> DEFINE after(i) == {j \in 1..n : j > i}
           T == {after(i) : i \in S}
           F == FiniteSubsetsOf(1..n)
           R == StrictSubsetOrdering(1..n)
<1>1. T \subseteq F /\ T # {}
  <2>1. IsFiniteSet(1..n)
    BY FS_Interval
  <2>2. \A i \in S : after(i) \in SUBSET (1..n) /\ IsFiniteSet(after(i))
    BY <2>1, FS_Subset
  <2> QED
    BY <2>2 DEF FiniteSubsetsOf
<1>2. IsWellFoundedOn(R, F)
  BY FS_StrictSubsetOrderingWellFounded
<1> HIDE DEF T, R, F
<1>3. PICK x \in T : \A y \in T : <<y, x>> \notin R
  BY <1>1, <1>2, WFMin
<1>4. PICK i \in S : x = after(i)
  BY DEF T
<1>5. \A j \in S : j <= i
  <2> SUFFICES ASSUME NEW j \in S, j > i
               PROVE  FALSE
    OBVIOUS
  <2>1. after(j) \in T /\ after(i) \in T
    BY DEF T
  <2>2. after(j) \subseteq after(i) /\ j \in after(i) /\ j \notin after(j)
    OBVIOUS
  <2>3. <<after(j), after(i)>> \in R
    BY <2>2 DEF R, StrictSubsetOrdering
  <2> QED
    BY <1>3, <1>4, <2>1, <2>3
<1> QED
  BY <1>5 DEF LastOf

\* What is read when everything is.
LEMMA ReadAtTheEnd ==
  ASSUME IngestionInv, Done
  PROVE  /\ Thread.commit = job.on.sha /\ Thread.created = job.created /\ job.created \in Nat
         /\ IsSequence(seen.commits) /\ Len(seen.commits) \in Nat
         /\ DOMAIN seen.commits = 1..Len(seen.commits)
         /\ \A i \in DOMAIN seen.commits : IsCommit(seen.commits[i], date)
         /\ ListedInPeace =>
              /\ IsBranch(seen.commits, job.on, date)
              /\ Len(seen.commits) < PullCommitsLimit =>
                   seen.commits # <<>> /\ seen.tip = TipOf(seen.commits).tree
<1>1. ThreadRead /\ ListRead
  BY DEF IngestionInv, ReadInv
<1>2. Thread \in seen.thread
  BY <1>1 DEF ThreadRead, Thread
<1>3. Thread.commit = job.on.sha /\ Thread.created = job.created
  BY <1>1, <1>2 DEF ThreadRead
<1>4. job.created \in Nat
  BY DEF IngestionInv, CredentialsInv, IsJob
<1>5. /\ IsSequence(seen.commits)
      /\ \A c \in ToSet(seen.commits) : IsCommit(c, date)
      /\ ListedInPeace =>
           /\ IsBranch(seen.commits, job.on, date)
           /\ Len(seen.commits) < PullCommitsLimit =>
                seen.commits # <<>> /\ seen.tip = TipOf(seen.commits).tree
  BY <1>1 DEF ListRead
<1>6. Len(seen.commits) \in Nat /\ DOMAIN seen.commits = 1..Len(seen.commits)
  BY <1>5, SequenceShape
<1>7. \A i \in DOMAIN seen.commits : seen.commits[i] \in ToSet(seen.commits)
  BY DEF ToSet
<1> QED
  BY <1>3, <1>4, <1>5, <1>6, <1>7

\* What BuildWindow says of a window, and its flags.
LEMMA WindowFields ==
  ASSUME NEW thread, NEW commits, NEW forced
  PROVE  LET w == BuildWindow(thread, commits, forced)
         IN  /\ w.subsequent = InWindow(thread, commits) \ Ambiguous(thread, commits)
             /\ Len(commits) >= PullCommitsLimit => "commit_list_truncated" \in w.flags
             /\ ~Listed(commits, thread.commit) => "ordered_by_timestamp" \in w.flags
             /\ w.flags \subseteq WindowFlags
<1> DEFINE w == BuildWindow(thread, commits, forced)
           listed == Listed(commits, thread.commit)
           truncated == Len(commits) >= PullCommitsLimit
           rewritten == \E at \in forced : at > thread.created
           ambiguous == Ambiguous(thread, commits)
           subsequent == InWindow(thread, commits) \ ambiguous
           excluded == Candidates(thread, commits) \ InWindow(thread, commits)
           flags == FlagIf(truncated, "commit_list_truncated")
             \cup FlagIf(~listed, "original_commit_not_in_pr")
             \cup FlagIf(~listed, "ordered_by_timestamp")
             \cup FlagIf(~listed /\ rewritten, "history_rewritten")
             \cup FlagIf(ambiguous # {}, "ambiguous_rewritten_commits")
             \cup FlagIf(excluded # {}, "pre_comment_commits_excluded")
             \cup FlagIf(subsequent = {}, "no_subsequent_commits")
             \cup FlagIf(thread.resolved = "unknown", "resolution_state_unknown")
             \cup FlagIf(thread.resolved = "yes", "resolution_time_unknown")
<1>1. w.flags = flags /\ w.subsequent = subsequent
  BY DEF BuildWindow
<1> HIDE DEF w, listed, truncated, rewritten, ambiguous, subsequent, excluded
<1>2. /\ truncated => "commit_list_truncated" \in flags
      /\ ~listed => "ordered_by_timestamp" \in flags
      /\ flags \subseteq WindowFlags
  BY DEF FlagIf, WindowFlags
<1> QED
  BY <1>1, <1>2 DEF w, listed, truncated, subsequent, ambiguous

\* Where the candidates are.
LEMMA WindowPositions ==
  ASSUME NEW thread, NEW commits, IsSequence(commits)
  PROVE  /\ InWindow(thread, commits) \subseteq 1..Len(commits)
         /\ Listed(commits, thread.commit) =>
              /\ IndexOf(commits, thread.commit) \in 1..Len(commits)
              /\ commits[IndexOf(commits, thread.commit)].sha = thread.commit
              /\ Candidates(thread, commits) = {i \in 1..Len(commits) : i > IndexOf(commits, thread.commit)}
         /\ ~Listed(commits, thread.commit) => Candidates(thread, commits) = 1..Len(commits)
<1>1. Len(commits) \in Nat /\ DOMAIN commits = 1..Len(commits)
  BY SequenceShape
<1>2. Listed(commits, thread.commit) =>
        /\ IndexOf(commits, thread.commit) \in 1..Len(commits)
        /\ commits[IndexOf(commits, thread.commit)].sha = thread.commit
  BY <1>1 DEF Listed, IndexOf
<1> DEFINE k == IndexOf(commits, thread.commit)
<1>3. Listed(commits, thread.commit) => Candidates(thread, commits) = k + 1..Len(commits)
  BY DEF Candidates
<1> HIDE DEF k
<1>4. k \in 1..Len(commits) => k + 1..Len(commits) = {i \in 1..Len(commits) : i > k}
  BY <1>1
<1>5. ~Listed(commits, thread.commit) => Candidates(thread, commits) = 1..Len(commits)
  BY <1>1 DEF Candidates
<1>6. Candidates(thread, commits) \subseteq 1..Len(commits)
  BY <1>2, <1>3, <1>4, <1>5 DEF k
<1>7. InWindow(thread, commits) \subseteq Candidates(thread, commits)
  BY DEF InWindow
<1> QED
  BY <1>2, <1>3, <1>4, <1>5, <1>6, <1>7 DEF k

\* Code is found by the sha of its commit.
LEMMA TreesByName ==
  ASSUME IsBranch(seen.commits, job.on, date), NEW i \in DOMAIN seen.commits
  PROVE  TreeOf(seen.commits[i].sha) = seen.commits[i].tree
<1>1. /\ seen.commits[i].sha = job.on.sha => seen.commits[i].tree = job.on.tree
      /\ \A j \in DOMAIN seen.commits : seen.commits[j].sha = seen.commits[i].sha => j = i
  BY DEF IsBranch
<1>2. IndexOf(seen.commits, seen.commits[i].sha) = i
  BY <1>1 DEF IndexOf
<1> QED
  BY <1>1, <1>2 DEF TreeOf

\* The end of the window contains its commits, and the reviewed commit while that is listed.
LEMMA EndContains ==
  ASSUME IngestionInv, Done, ListedInPeace
  PROVE  /\ \A i \in InWindow(Thread, seen.commits) : seen.commits[i].tree \subseteq TreeOf(WindowEnd)
         /\ Listed(seen.commits, job.on.sha) => job.on.tree \subseteq TreeOf(WindowEnd)
<1> DEFINE commits == seen.commits
           window == InWindow(Thread, commits)
           k == LastOf(window)
           m == IndexOf(commits, job.on.sha)
<1>1. /\ IsBranch(commits, job.on, date) /\ IsSequence(commits) /\ Thread.commit = job.on.sha
      /\ Len(commits) \in Nat /\ DOMAIN commits = 1..Len(commits)
  BY ReadAtTheEnd
<1>2. /\ window \subseteq 1..Len(commits)
      /\ Listed(commits, job.on.sha) =>
           /\ m \in 1..Len(commits) /\ commits[m].sha = job.on.sha
           /\ \A i \in window : i > m
  <2>1. window \subseteq Candidates(Thread, commits)
    BY DEF InWindow
  <2> QED
    BY <1>1, <2>1, WindowPositions
<1>3. \A i, j \in DOMAIN commits : i <= j => commits[i].tree \subseteq commits[j].tree
  BY <1>1 DEF IsBranch
<1>4. \A i \in DOMAIN commits : commits[i].sha = job.on.sha => commits[i].tree = job.on.tree
  BY <1>1 DEF IsBranch
<1>5. CASE window = {}
  <2>1. WindowEnd = job.on.sha
    BY <1>1, <1>5 DEF WindowEnd, EndOfWindow
  <2> QED
    BY <1>5, <2>1 DEF TreeOf
<1>6. CASE window # {}
  <2>1. WindowEnd = commits[k].sha
    BY <1>6 DEF WindowEnd, EndOfWindow
  <2> HIDE DEF window
  <2>2. k \in window /\ \A j \in window : j <= k
    BY <1>1, <1>2, <1>6, LastPosition
  <2> HIDE DEF k, m
  <2>3. k \in DOMAIN commits
    BY <1>1, <1>2, <2>2
  <2>4. TreeOf(WindowEnd) = commits[k].tree
    BY <1>1, <2>1, <2>3, TreesByName
  <2>5. \A i \in window : commits[i].tree \subseteq commits[k].tree
    BY <1>1, <1>2, <1>3, <2>2, <2>3
  <2>6. ASSUME Listed(commits, job.on.sha)
        PROVE  job.on.tree \subseteq commits[k].tree
    <3>1. m \in DOMAIN commits /\ commits[m].tree = job.on.tree /\ m <= k
      BY <1>1, <1>2, <1>4, <2>2, <2>3, <2>6
    <3> QED
      BY <1>3, <2>3, <3>1
  <2> QED
    BY <2>4, <2>5, <2>6 DEF window
<1> QED
  BY <1>5, <1>6

\* What lowers the confidence in a case.
LEMMA CaseIsDoubted ==
  ASSUME NEW flag, flag \in Window.flags, flag \in UnreliableWindow
  PROVE  Doubted
  BY DEF Doubted, CaseFlags

\* A reviewed commit that is listed is below the end of the window; one that is not raises a flag.
LEMMA AncestryHolds == IngestionInv => AncestryOrDoubt
<1> SUFFICES ASSUME IngestionInv, Done, ListedInPeace, ~(job.on.tree \subseteq TreeOf(WindowEnd))
             PROVE  Doubted
  BY DEF AncestryOrDoubt
<1>1. ~Listed(seen.commits, Thread.commit)
  BY EndContains, ReadAtTheEnd
<1>2. "ordered_by_timestamp" \in Window.flags
  BY <1>1, WindowFields DEF Window
<1> QED
  BY <1>2, CaseIsDoubted DEF UnreliableWindow

\* A work written after the comment is in a commit of the window, or below the reviewed commit,
\* and the end of the window contains both.
LEMMA AnswersAreThere == IngestionInv => AnswersAreJudged
<1> DEFINE commits == seen.commits
           n == Len(commits)
           window == InWindow(Thread, commits)
           m == IndexOf(commits, job.on.sha)
<1> SUFFICES ASSUME IngestionInv, Done, ListedInPeace, "commit_list_truncated" \notin CaseFlags,
                    NEW w \in seen.tip, w.mine, w.at > job.created
             PROVE  w \in TreeOf(WindowEnd)
  BY DEF AnswersAreJudged
<1>1. /\ Thread.commit = job.on.sha /\ Thread.created = job.created /\ job.created \in Nat
      /\ IsSequence(commits) /\ n \in Nat /\ DOMAIN commits = 1..n
      /\ \A i \in DOMAIN commits : IsCommit(commits[i], date)
      /\ IsBranch(commits, job.on, date)
      /\ n < PullCommitsLimit => commits # <<>> /\ seen.tip = TipOf(commits).tree
  BY ReadAtTheEnd
<1>2. ~(n >= PullCommitsLimit)
  BY WindowFields DEF CaseFlags, Window
<1>3. n < PullCommitsLimit
  BY <1>1, <1>2, PagingAssumption
<1>4. n \in DOMAIN commits /\ seen.tip = commits[n].tree
  BY <1>1, <1>3, SequenceShape DEF TipOf
<1>5. /\ \A i \in DOMAIN commits :
           \A v \in commits[i].tree : v.mine => \E j \in 1..i : v \in commits[j].works
      /\ \A i \in DOMAIN commits : commits[i].works \subseteq commits[i].tree
      /\ \A i \in DOMAIN commits : commits[i].sha = job.on.sha => commits[i].tree = job.on.tree
      /\ \A i, j \in DOMAIN commits : i <= j => commits[i].tree \subseteq commits[j].tree
  BY <1>1 DEF IsBranch
<1>6. PICK j \in 1..n : w \in commits[j].works
  BY <1>4, <1>5
<1>7. j \in DOMAIN commits /\ w \in commits[j].tree
  BY <1>1, <1>5, <1>6
<1>8. ~CommittedBefore(commits[j], Thread.created)
  <2>1. w.at \in Nat /\ w.at <= commits[j].committed /\ commits[j].committed \in Nat
    BY <1>1, <1>6, <1>7 DEF IsCommit
  <2>2. ~(commits[j].committed < job.created)
    BY <1>1, <2>1
  <2> QED
    BY <1>1, <2>2 DEF CommittedBefore
<1>9. CASE j \in Candidates(Thread, commits)
  <2>1. j \in window
    BY <1>8, <1>9 DEF InWindow
  <2> QED
    BY <1>7, <2>1, EndContains
<1>10. CASE j \notin Candidates(Thread, commits)
  <2>1. /\ Listed(commits, job.on.sha) /\ m \in 1..n /\ commits[m].sha = job.on.sha
        /\ ~(j > m)
    BY <1>1, <1>10, WindowPositions
  <2> HIDE DEF m
  <2>2. m \in DOMAIN commits /\ j <= m
    BY <1>1, <2>1
  <2>3. commits[m].tree = job.on.tree /\ commits[j].tree \subseteq commits[m].tree
    BY <1>5, <1>7, <2>1, <2>2
  <2> QED
    BY <1>7, <2>1, <2>3, EndContains
<1> QED
  BY <1>9, <1>10

\* A commit in the window was committed after the comment; one without a place in the list was
\* authored after it too, and so was one of its works.
LEMMA OldWorkIsLeftOut == IngestionInv => OldWorkIsNoAnswer
<1> DEFINE commits == seen.commits
<1> SUFFICES ASSUME IngestionInv, Done, NEW i \in Window.subsequent
             PROVE  \/ \E w \in commits[i].works : w.at >= job.created
                    \/ commits[i].committed > commits[i].authored /\ Listed(commits, job.on.sha)
  BY DEF OldWorkIsNoAnswer
<1>1. /\ Thread.commit = job.on.sha /\ Thread.created = job.created /\ job.created \in Nat
      /\ IsSequence(commits) /\ DOMAIN commits = 1..Len(commits)
      /\ \A j \in DOMAIN commits : IsCommit(commits[j], date)
  BY ReadAtTheEnd
<1>2. i \in InWindow(Thread, commits) \ Ambiguous(Thread, commits)
  BY WindowFields DEF Window
<1>3. i \in DOMAIN commits
  BY <1>1, <1>2, WindowPositions
<1> DEFINE c == commits[i]
<1>4. /\ ~CommittedBefore(c, job.created)
      /\ Listed(commits, job.on.sha) \/ ~AuthoredBefore(c, job.created)
  BY <1>1, <1>2 DEF InWindow, Ambiguous
<1>5. IsCommit(c, date)
  BY <1>1, <1>3
<1> HIDE DEF c
<1>6. c.authored \in Nat /\ c.committed \in Nat /\ c.authored <= c.committed
  BY <1>5 DEF IsCommit
<1>7. PICK w \in c.works : w.at \in Nat /\ c.authored <= w.at
  BY <1>5 DEF IsCommit
<1>8. CASE c.authored >= job.created
  <2>1. w.at >= job.created
    BY <1>1, <1>6, <1>7, <1>8
  <2> QED
    BY <1>7, <2>1 DEF c
<1>9. CASE ~(c.authored >= job.created)
  <2>1. c.authored < job.created
    BY <1>1, <1>6, <1>9
  <2>2. Listed(commits, job.on.sha) /\ ~(c.committed < job.created)
    BY <1>4, <2>1 DEF AuthoredBefore, CommittedBefore
  <2>3. c.committed > c.authored
    BY <1>1, <1>6, <2>1, <2>2
  <2> QED
    BY <2>2, <2>3 DEF c
<1> QED
  BY <1>8, <1>9

-----------------------------------------------------------------------------
(***************************************************************************)
(* Types.                                                                  *)
(***************************************************************************)
LEMMA FlagsOfACase == CaseFlags \subseteq WindowFlags
<1>1. Window.flags \subseteq WindowFlags
  BY WindowFields DEF Window
<1>2. FileFlags(Window, Changed, seen.comparison) \subseteq WindowFlags
  BY DEF FileFlags, FlagIf, WindowFlags
<1>3. FlagIf(Renames(Changed, "code") # {}, "file_renamed") \subseteq WindowFlags
  BY DEF FlagIf, WindowFlags
<1>4. CodeFlags(seen.before, seen.after, job) \subseteq WindowFlags
  BY DEF CodeFlags, FlagIf, WindowFlags
<1> QED
  BY <1>1, <1>2, <1>3, <1>4 DEF CaseFlags

\* The invariant has the types.
LEMMA TypesHold == IngestionInv => TypeOK
<1> SUFFICES ASSUME IngestionInv
             PROVE  TypeOK
  OBVIOUS
<1>1. date \in 0..job.lastDate
  <2>1. date \in Nat /\ job.lastDate \in Nat /\ date <= job.lastDate
    BY DEF IngestionInv, CredentialsInv, IsJob
  <2> QED
    BY <2>1
<1>2. \A i \in DOMAIN Branch :
        Branch[i].authored <= Branch[i].committed /\ Branch[i].committed <= date
  BY DEF IngestionInv, PullInv, IsBranch, IsCommit
<1>3. cache = <<>> \/ cache[1] \in 0..GitHubTokenLifetime
  BY DEF IngestionInv, CredentialsInv, IsToken
<1>4. work.attempt \in 1..MaxRetries + 1
  BY DEF IngestionInv, CredentialsInv
<1>5. work.call \in {"idle", "token", "pull", "states", "comments", "timeline", "commits", "files",
                     "compare", "before", "after", "tests", "end"}
  BY DEF IngestionInv, ReadInv, Calls, WithThread, WithCommits
<1> QED
  BY <1>1, <1>2, <1>3, <1>4, <1>5, FlagsOfACase DEF TypeOK

-----------------------------------------------------------------------------
(***************************************************************************)
(* The line of the comment.                                                *)
(***************************************************************************)
\* The last lines of a hunk occur where the hunk does.
LEMMA LastLinesOccur ==
  ASSUME NEW lines, IsSequence(lines), NEW new, NEW line \in 1..Len(lines), Len(new) \in 1..line,
         new = SubSeq(lines, line - Len(new) + 1, line), NEW size \in 1..Len(new)
  PROVE  line \in Occurrences(lines, new, size)
<1> DEFINE n == Len(new)
           from == line - n + 1
           a == line - size + 1
           b == n - size + 1
           s == SubSeq(lines, a, line)
           t == SubSeq(new, b, n)
<1>1. Len(lines) \in Nat /\ DOMAIN lines = 1..Len(lines)
  BY SequenceShape
<1>2. /\ n \in Nat \ {0} /\ line \in Nat /\ line <= Len(lines) /\ n <= line /\ size <= n
      /\ size \in Nat \ {0}
  BY <1>1
<1> HIDE DEF n
<1>3. /\ from \in Nat \ {0} /\ a \in Nat \ {0} /\ b \in Nat \ {0}
      /\ a <= line /\ b <= n /\ line - a + 1 = size /\ n - b + 1 = size
      /\ \A i \in 1..size : /\ b + i - 1 \in 1..n
                            /\ from + (b + i - 1) - 1 = a + i - 1
  BY <1>2
<1>4. new = SubSeq(lines, from, line)
  BY DEF n
<1> HIDE DEF from, a, b
<1>5. IsSequence(new) /\ DOMAIN new = 1..n /\ \A i \in 1..n : new[i] = lines[from + i - 1]
  <2>1. /\ IsSequence(SubSeq(lines, from, line))
        /\ \A i \in 1..Len(SubSeq(lines, from, line)) :
             SubSeq(lines, from, line)[i] = lines[from + i - 1]
    BY <1>2, <1>3, Cut
  <2> QED
    BY <1>4, <2>1, SequenceShape DEF n
<1>6. /\ IsSequence(s) /\ ToSet(s) \subseteq ToSet(lines) /\ Len(s) = size
      /\ \A i \in 1..size : s[i] = lines[a + i - 1]
  <2>1. Len(s) = IF a <= line THEN line - a + 1 ELSE 0
    BY <1>2, <1>3, Cut
  <2>2. Len(s) = size
    BY <1>3, <2>1
  <2> QED
    BY <1>2, <1>3, <2>2, Cut
<1>7. /\ IsSequence(t) /\ ToSet(t) \subseteq ToSet(new) /\ Len(t) = size
      /\ \A i \in 1..size : t[i] = new[b + i - 1]
  <2>0. n <= Len(new)
    BY <1>2 DEF n
  <2>1. Len(t) = IF b <= n THEN n - b + 1 ELSE 0
    BY <1>2, <1>3, <1>5, <2>0, Cut
  <2>2. Len(t) = size
    BY <1>3, <2>1
  <2> QED
    BY <1>2, <1>3, <1>5, <2>0, <2>2, Cut
<1> HIDE DEF s, t
<1>8. \A i \in 1..size : t[i] = s[i]
  <2> TAKE i \in 1..size
  <2> DEFINE j == b + i - 1
  <2>1. j \in 1..n /\ from + j - 1 = a + i - 1
    BY <1>3
  <2> HIDE DEF j
  <2>2. new[j] = lines[from + j - 1]
    BY <1>5, <2>1
  <2> QED
    BY <1>6, <1>7, <2>1, <2>2 DEF j
<1>9. s = t
  <2> DEFINE S == ToSet(s) \cup ToSet(t)
  <2>1. s \in Seq(S) /\ t \in Seq(S)
    BY <1>6, <1>7, SeqMonotonic DEF IsSequence
  <2> HIDE DEF S
  <2> QED
    BY <1>6, <1>7, <1>8, <2>1, SeqEqual
<1>10. line \in size..Len(lines)
  BY <1>1, <1>2
<1> QED
  BY <1>9, <1>10 DEF Occurrences, s, t, a, b, n

\* The line nearest to one of the ends is that end.
LEMMA NearestIsThere ==
  ASSUME NEW line \in Nat, NEW ends, ends \subseteq Nat, line \in ends
  PROVE  Nearest(ends, line) = line
<1>1. \A e \in ends : Distance(e, line) \in Nat /\ (Distance(e, line) = 0 <=> e = line)
  BY DEF Distance
<1> DEFINE best(e) == \A other \in ends : \/ Distance(e, line) < Distance(other, line)
                                          \/ Distance(e, line) = Distance(other, line) /\ e <= other
<1>2. best(line)
  BY <1>1
<1>3. \A e \in ends : best(e) => e = line
  BY <1>1
<1>4. Nearest(ends, line) = CHOOSE e \in ends : best(e)
  BY DEF Nearest
<1> HIDE DEF best
<1> QED
  BY <1>2, <1>3, <1>4

\* Of one end it is that one, whatever line is named.
LEMMA NearestOfOne ==
  ASSUME NEW line \in Nat, NEW other
  PROVE  Nearest({line}, other) = line
  BY DEF Nearest

\* An anchor that can be found is.
LEMMA LocatesTheLine ==
  ASSUME NEW lines, IsSequence(lines), NEW hunk, hunk # <<>>, hunk[Len(hunk)].sign # "-",
         NEW line \in 1..Len(lines), Len(NewSide(hunk)) \in 1..line,
         NewSide(hunk) = SubSeq(lines, line - Len(NewSide(hunk)) + 1, line),
         NEW originalLine
  PROVE  LET new == NewSide(hunk)
             context == IF Len(new) > MaxContext THEN MaxContext ELSE Len(new)
         IN  originalLine = <<line>> \/ Cardinality(Occurrences(lines, new, context)) = 1 =>
               LocateCommentLine(lines, hunk, "RIGHT", originalLine) = <<line>>
<1> DEFINE new == NewSide(hunk)
           context == IF Len(new) > MaxContext THEN MaxContext ELSE Len(new)
           sizes == {s \in 1..MaxContext : s <= Len(new) /\ Occurrences(lines, new, s) # {}}
           ends == Occurrences(lines, new, context)
<1>1. Len(lines) \in Nat /\ line \in Nat
  BY SequenceShape
<1>2. Len(new) \in Nat \ {0}
  BY <1>1
<1>3. LocateCommentLine(lines, hunk, "RIGHT", originalLine) =
        IF sizes = {} THEN <<>>
        ELSE IF originalLine # <<>>
             THEN <<Nearest(Occurrences(lines, new, Longest(sizes)), originalLine[1])>>
        ELSE IF Cardinality(Occurrences(lines, new, Longest(sizes))) = 1
             THEN <<CHOOSE e \in Occurrences(lines, new, Longest(sizes)) : TRUE>> ELSE <<>>
  BY DEF LocateCommentLine
<1>4. \A size \in 1..Len(new) : line \in Occurrences(lines, new, size)
  BY LastLinesOccur
<1> HIDE DEF new
<1>5. context \in 1..Len(new) /\ context \in 1..MaxContext
  <2> DEFINE n == Len(new)
  <2>1. n \in Nat \ {0} /\ context = IF n > 6 THEN 6 ELSE n
    BY <1>2 DEF MaxContext
  <2> HIDE DEF n, context
  <2>2. context \in 1..n /\ context \in 1..6
    BY <2>1
  <2> QED
    BY <2>2 DEF n, MaxContext
<1>6. \A s \in sizes : s \in Nat /\ s <= context
  BY <1>2 DEF MaxContext
<1> HIDE DEF context
<1>7. context \in sizes /\ line \in ends
  BY <1>2, <1>4, <1>5
<1>8. context \in Nat
  BY <1>5 DEF MaxContext
<1> HIDE DEF sizes
<1>9. Longest(sizes) = context
  <2>1. \A s \in sizes : (\A t \in sizes : t <= s) => s = context
    BY <1>6, <1>7, <1>8
  <2>2. context \in sizes /\ \A t \in sizes : t <= context
    BY <1>6, <1>7
  <2> QED
    BY <2>1, <2>2, Zenon DEF Longest
<1>10. ends \subseteq Nat /\ IsFiniteSet(ends)
  <2>1. IsFiniteSet(context..Len(lines)) /\ context..Len(lines) \subseteq Nat
    BY <1>1, <1>8, FS_Interval
  <2>2. ends \subseteq context..Len(lines)
    BY DEF Occurrences
  <2> QED
    BY <2>1, <2>2, FS_Subset
<1>11. LocateCommentLine(lines, hunk, "RIGHT", originalLine) =
        IF originalLine # <<>> THEN <<Nearest(ends, originalLine[1])>>
        ELSE IF Cardinality(ends) = 1 THEN <<CHOOSE e \in ends : TRUE>> ELSE <<>>
  BY <1>3, <1>7, <1>9
<1> HIDE DEF ends
<1>12. originalLine = <<line>> =>
         LocateCommentLine(lines, hunk, "RIGHT", originalLine) = <<line>>
  <2> SUFFICES ASSUME originalLine = <<line>>
               PROVE  LocateCommentLine(lines, hunk, "RIGHT", originalLine) = <<line>>
    OBVIOUS
  <2>1. originalLine # <<>> /\ originalLine[1] = line
    OBVIOUS
  <2>2. Nearest(ends, line) = line
    BY <1>1, <1>7, <1>10, NearestIsThere
  <2> QED
    BY <1>11, <2>1, <2>2
<1>13. Cardinality(ends) = 1 =>
         LocateCommentLine(lines, hunk, "RIGHT", originalLine) = <<line>>
  <2> SUFFICES ASSUME Cardinality(ends) = 1
               PROVE  LocateCommentLine(lines, hunk, "RIGHT", originalLine) = <<line>>
    OBVIOUS
  <2>1. ends = {line}
    BY <1>7, <1>10, FS_Singleton
  <2> QED
    BY <1>1, <1>11, <2>1, NearestOfOne
<1> QED
  BY <1>12, <1>13 DEF ends, context, new

\* The code before is that of the job, where the hunk ends at the commented line.
LEMMA AnchorIsRight == IngestionInv => AnchorIsTheCommentedLine
<1> DEFINE new == NewSide(job.hunk)
           context == IF Len(new) > MaxContext THEN MaxContext ELSE Len(new)
           once == Cardinality(Occurrences(job.lines, new, context)) = 1
<1> SUFFICES ASSUME IngestionInv, seen.before # <<>>, job.at # <<>>,
                    job.originalLine = job.at \/ once
             PROVE  Anchor(seen.before, job) = job.at
  BY DEF AnchorIsTheCommentedLine
<1>1. IsPlaced(job) /\ seen.before = <<job.lines>>
  BY DEF IngestionInv, CredentialsInv, IsJob, ReadInv, CodeRead
<1>2. IsSequence(job.lines)
  BY <1>1 DEF IsPlaced, IsSequence
<1>3. PICK line \in DOMAIN job.lines :
        /\ job.at = <<line>> /\ job.side = "RIGHT"
        /\ job.hunk # <<>> /\ job.hunk[Len(job.hunk)].sign # "-"
        /\ Len(new) \in 1..line /\ new = SubSeq(job.lines, line - Len(new) + 1, line)
  BY <1>1 DEF IsPlaced
<1>4. line \in 1..Len(job.lines)
  BY <1>2, SequenceShape
<1>5. Anchor(seen.before, job) = LocateCommentLine(job.lines, job.hunk, "RIGHT", job.originalLine)
  BY <1>1, <1>3 DEF Anchor
<1> DEFINE lines == job.lines
           hunk == job.hunk
           originalLine == job.originalLine
<1>6. /\ IsSequence(lines) /\ hunk # <<>> /\ hunk[Len(hunk)].sign # "-" /\ line \in 1..Len(lines)
      /\ Len(NewSide(hunk)) \in 1..line
      /\ NewSide(hunk) = SubSeq(lines, line - Len(NewSide(hunk)) + 1, line)
      /\ originalLine = <<line>> \/ once
  BY <1>2, <1>3, <1>4
<1> HIDE DEF lines, hunk, originalLine
<1>7. LocateCommentLine(lines, hunk, "RIGHT", originalLine) = <<line>>
  BY <1>6, LocatesTheLine DEF lines, hunk
<1> QED
  BY <1>3, <1>5, <1>7 DEF lines, hunk, originalLine

-----------------------------------------------------------------------------
(***************************************************************************)
(* What the runs check on small pull requests, for all of them.            *)
(***************************************************************************)
\* Every state has the types of its variables, and a case only has flags the code knows.
THEOREM IngestionTypeCorrect == Spec => []TypeOK
  BY IngestionInvariant, TypesHold, PTL

\* A job fails for good as ThreadNotFound only when its comment or the root of its thread is gone,
\* or the list of comments shifted while it was read, or is longer than the client reads.
THEOREM ThreadsAreFound == Spec => []ThreadIsFound
  BY IngestionInvariant, FoundIsRight, PTL

\* Whatever the author did to the branch between the reads, work from before the comment only
\* counts as an answer when it was made again after it while the reviewed commit stayed listed.
THEOREM OldWorkIsExcluded == Spec => []OldWorkIsNoAnswer
  BY IngestionInvariant, OldWorkIsLeftOut, PTL

\* The difference of the two codes is what the author did since, or the case says it may not be.
THEOREM AncestryIsKnownOrDoubted == Spec => []AncestryOrDoubt
  BY IngestionInvariant, AncestryHolds, PTL

\* No answer to the comment is left out of the code that is judged, unless the case says so.
THEOREM NoAnswerIsMissed == Spec => []AnswersAreJudged
  BY IngestionInvariant, AnswersAreThere, PTL

\* Whatever the length of the hunk and wherever its lines occur, the anchor is the commented line
\* when the longest context occurs once or GitHub names the line.
THEOREM AnchorIsFound == Spec => []AnchorIsTheCommentedLine
  BY IngestionInvariant, AnchorIsRight, PTL
=============================================================================
