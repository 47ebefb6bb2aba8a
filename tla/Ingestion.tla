----------------------------- MODULE Ingestion ------------------------------
(***************************************************************************)
(* One job of the worker ingests a review thread (ingest_review_case, with *)
(* client_for before it) while the pull request goes on living.            *)
(*                                                                         *)
(* The case is put together from ten reads of GitHub, each a request that  *)
(* may time out, be refused or be repeated, under a token that expires.    *)
(* Between any two of them, or between two pages of one, the author may    *)
(* commit, push, amend, rebase or squash, and people may write and delete  *)
(* comments.                                                               *)
(*                                                                         *)
(* Two clocks that no code compares: `date` numbers the events of the pull *)
(* request, which the dates of commits and comments come from; tokens and  *)
(* waits are in seconds.                                                   *)
(***************************************************************************)
EXTENDS AppAuth, ReviewThreads, ReviewWindow, SequencesExt

CONSTANTS
  Starts,   \* pull requests and jobs to begin with
  Files     \* what a piece of work can do to a file

(***************************************************************************)
(* What the pull requests and jobs to begin with are like.                 *)
(***************************************************************************)
\* A commit is made at `date` or before, of works changed no later than it was made, and one of
\* them no earlier than it was first written.
IsCommit(c, upto) ==
  /\ DOMAIN c = {"sha", "authored", "committed", "works", "tree"}
  /\ c.sha \in Nat \X Nat /\ c.sha[1] <= upto
  /\ c.authored \in Nat /\ c.committed \in Nat
  /\ c.authored <= c.committed /\ c.committed <= upto
  /\ \A w \in c.works : /\ DOMAIN w = {"at", "file", "mine"}
                         /\ w.at \in Nat /\ w.at <= c.committed
  /\ \E w \in c.works : c.authored <= w.at

\* Each commit of a branch contains those before it, and no works of the author but theirs.
IsBranch(commits, on, upto) ==
  /\ commits \in Seq(ToSet(commits))
  /\ \A i \in DOMAIN commits :
       /\ IsCommit(commits[i], upto)
       /\ commits[i].works \subseteq commits[i].tree
       /\ \A w \in commits[i].tree : w.mine => \E j \in 1..i : w \in commits[j].works
       /\ commits[i].sha = on.sha => commits[i].tree = on.tree
  /\ \A i, j \in DOMAIN commits :
       /\ commits[i].sha = commits[j].sha => i = j
       /\ i <= j => commits[i].tree \subseteq commits[j].tree

\* Comments reply to the first one of their thread.
IsDiscussion(comments, theJob, upto) ==
  /\ \A c \in comments :
       /\ c.id \in 1..upto /\ c.replyTo \in 0..upto
       /\ c.id = theJob.root => /\ c.replyTo = NoComment
                               /\ c.created = theJob.created /\ c.commit = theJob.on.sha
       /\ c.id = theJob.wanted /\ theJob.wanted # theJob.root => c.replyTo = theJob.root
  /\ \A c, k \in comments :
       /\ c.id = k.id => c = k
       /\ c.replyTo = k.id => k.replyTo = NoComment

\* Headers hold digits; a 401 only comes from credentials.
IsAnswer(r) ==
  /\ r.status \in Nat \ {401} /\ r.exhausted \in BOOLEAN
  /\ r.retryAfter \in Seq(Nat) /\ r.resetIn \in Seq(Int)

\* A hunk ends with the commented line (anchor.py); `at` is its place in the file, if there is one.
IsPlaced(theJob) ==
  LET new == NewSide(theJob.hunk)
  IN  /\ theJob.lines \in Seq(ToSet(theJob.lines))
      /\ theJob.originalLine # <<>> => theJob.originalLine[1] \in Nat
      /\ theJob.at # <<>> => \E line \in DOMAIN theJob.lines :
           /\ theJob.at = <<line>> /\ theJob.side = "RIGHT"
           /\ theJob.hunk # <<>> /\ theJob.hunk[Len(theJob.hunk)].sign # "-"
           /\ Len(new) \in 1..line /\ new = SubSeq(theJob.lines, line - Len(new) + 1, line)

\* How long an attempt may take: after `sent` seconds GitHub has the request, after `took` the worker
\* has the answer, or the error.
Durations == {d \in [sent : Nat, took : Nat] : d.sent <= d.took}

IsJob(theJob, upto) ==
  /\ IsPlaced(theJob)
  /\ theJob.durations \subseteq Durations /\ theJob.pauses \subseteq Nat
  /\ theJob.skew \in ClockSkews
  /\ \A r \in theJob.responses : IsAnswer(r)
  /\ {theJob.wanted, theJob.root} \subseteq 1..upto /\ theJob.created \in Nat
  /\ theJob.on.sha \in Nat \X Nat /\ theJob.on.sha[1] <= upto
  /\ theJob.lastDate \in Nat /\ upto <= theJob.lastDate
  /\ \A w \in theJob.base : ~w.mine

IsStart(s) ==
  /\ s.date \in Nat /\ IsJob(s.job, s.date)
  /\ DOMAIN s.pull = {"commits", "comments", "forced", "resolved"}
  /\ s.pull.commits # <<>> /\ IsBranch(s.pull.commits, s.job.on, s.date)
  /\ s.local \in Seq(ToSet(s.local)) /\ IsBranch(s.pull.commits \o s.local, s.job.on, s.date)
  /\ s.pull.comments \in Seq(ToSet(s.pull.comments))
  /\ IsDiscussion(ToSet(s.pull.comments), s.job, s.date)
  /\ s.cache = <<>> \/ \E left \in 0..GitHubTokenLifetime : s.cache = <<left>>

ASSUME StartsAssumption == \A s \in Starts : IsStart(s)

VARIABLES
  job,      \* what never changes: the comment to ingest, its file, what may go wrong
  pull,     \* the pull request on GitHub
  local,    \* the commits its author has not pushed
  date,     \* the number of its last event
  cache,    \* the worker's installation token
  work,     \* where the worker is
  seen      \* what its requests returned

vars == <<job, pull, local, date, cache, work, seen>>

-----------------------------------------------------------------------------
(***************************************************************************)
(* The pull request.  A commit stands for the works it contributes; its    *)
(* tree is all the works its code contains.  A work records when its text  *)
(* was last changed, which no date of a commit need tell.                  *)
(***************************************************************************)
Work(at, file, mine) == [at |-> at, file |-> file, mine |-> mine]

Commit(sha, authored, committed, works, below) ==
  [sha |-> sha, authored |-> authored, committed |-> committed, works |-> works,
   tree |-> works \cup below]

TipOf(commits) == commits[Len(commits)]
TreeBelow(commits, k) == IF k = 1 THEN {} ELSE commits[k - 1].tree
Branch == pull.commits \o local
Now == date + 1

Roots == {c.id : c \in {k \in ToSet(pull.comments) : k.replyTo = NoComment}}

\* A list changed other than by growing while the worker was between two of its pages.  `churn`
\* remembers what kept the worker from a list as it was: that, or the "rest" it does not read.
Churned(list) ==
  IF work.call = list /\ work.from > 1 THEN [work EXCEPT !.churn = @ \cup {list}] ELSE work

Happens == date < job.lastDate /\ date' = Now /\ UNCHANGED <<job, cache, seen>>

WriteCommit(f) ==
  /\ Happens
  /\ local' = Append(local, Commit(<<Now, 0>>, Now, Now, {Work(Now, f, TRUE)}, TipOf(Branch).tree))
  /\ UNCHANGED <<pull, work>>

Push ==
  /\ Happens
  /\ local # <<>>
  /\ pull' = [pull EXCEPT !.commits = Branch]
  /\ local' = <<>>
  /\ UNCHANGED work

\* Commits made again one after the other: dates of authorship stay.
Remade(again, below) ==
  [i \in DOMAIN again |->
    Commit(<<Now, i>>, again[i].authored, Now, again[i].works,
           below \cup UNION {again[j].works : j \in 1..i - 1})]

\* The branch with its commits from k on made again and pushed.
PushRemade(k, again, below) ==
  /\ pull' = [pull EXCEPT !.commits = SubSeq(Branch, 1, k - 1) \o Remade(again, below),
                          !.forced = IF k <= Len(pull.commits) THEN @ \cup {Now} ELSE @]
  /\ local' = <<>>
  /\ work' = IF k <= Len(pull.commits) THEN Churned("commits") ELSE work

\* git rebase from commit k on; a rebase of everything may bring in work of the base branch.
Rebase(k, base) ==
  /\ Happens
  /\ k \in DOMAIN Branch /\ (base # {} => k = 1)
  /\ PushRemade(k, SubSeq(Branch, k, Len(Branch)), base \cup TreeBelow(Branch, k))

\* git commit --amend, or a fixup of commit k: its text is changed now.
Amend(k) ==
  /\ Happens
  /\ k \in DOMAIN Branch
  /\ LET c == Branch[k]
         fixed == [c EXCEPT !.works = {[w EXCEPT !.at = Now] : w \in c.works}]
     IN  PushRemade(k, <<fixed>> \o SubSeq(Branch, k + 1, Len(Branch)), TreeBelow(Branch, k))

\* The last two commits become one.
Squash ==
  /\ Happens
  /\ Len(Branch) >= 2
  /\ LET k == Len(Branch) - 1
         both == [Branch[k] EXCEPT !.works = @ \cup Branch[k + 1].works]
     IN  PushRemade(k, <<both>>, TreeBelow(Branch, k))

\* The last commit is thrown away and another one made in its place.
Replace(f) ==
  /\ Happens
  /\ LET k == Len(Branch)
         other == Commit(<<Now, 1>>, Now, Now, {Work(Now, f, TRUE)}, {})
     IN  PushRemade(k, <<other>>, TreeBelow(Branch, k))

\* Anyone may comment on a listed commit, or reply to a thread, and delete a comment.
AddComment(replyTo) ==
  /\ Happens
  /\ pull' = [pull EXCEPT !.comments = Append(@,
       [id |-> Now, created |-> Now, replyTo |-> replyTo, commit |-> TipOf(pull.commits).sha])]
  /\ UNCHANGED <<local, work>>

DeleteComment(i) ==
  /\ Happens
  /\ pull' = [pull EXCEPT !.comments = RemoveAt(@, i)]
  /\ work' = Churned("comments")
  /\ UNCHANGED local

PullRequestMoves ==
  \/ job.moves = "commits" /\ \/ \E f \in Files : WriteCommit(f)
                              \/ Push
                              \/ \E k \in 1..Len(Branch), base \in {{}, job.base} : Rebase(k, base)
                              \/ \E k \in 1..Len(Branch) : Amend(k)
                              \/ Squash
                              \/ \E f \in Files : Replace(f)
  \/ job.moves = "comments" /\ \/ \E i \in {NoComment} \cup Roots : AddComment(i)
                               \/ \E i \in DOMAIN pull.comments : DeleteComment(i)

-----------------------------------------------------------------------------
(***************************************************************************)
(* The worker.  `call` is the request it is at; `from` the page or cursor  *)
(* it reads from and `items` what earlier pages returned.                  *)
(***************************************************************************)
NoJwt == [iat |-> 0, exp |-> 0]
Unseen == [head |-> <<>>, states |-> {}, thread |-> {}, forced |-> {}, commits |-> <<>>,
           tip |-> {}, files |-> {}, comparison |-> <<>>, before |-> <<>>, after |-> <<>>]

Idle(tries) ==
  [call |-> "idle", attempt |-> 1, from |-> 1, items |-> <<>>, jwt |-> NoJwt, tries |-> tries,
   error |-> "none", rejected |-> "none", churn |-> {}]

\* The next request; it starts at its first page with a first attempt.
GoTo(call) == [work EXCEPT !.call = call, !.attempt = 1, !.items = <<>>,
                           !.from = IF call = "states" THEN NoComment ELSE 1]
TurnTo(from, items) == [work EXCEPT !.attempt = 1, !.from = from, !.items = items]
Stop(error) == [GoTo("end") EXCEPT !.error = error]

PermanentErrors == {"not_found", "thread_not_found"}

Thread == CHOOSE t \in seen.thread : TRUE
Window == BuildWindow(Thread, seen.commits, seen.forced)
WindowEnd == EndOfWindow(Thread, seen.commits)
Changed == ChangedFiles(Window, seen.files, seen.comparison)

\* Everything after the commits depends on whether there is a window at all.
AfterCommits(commits) ==
  IF EndOfWindow(Thread, commits) = Thread.commit THEN "before" ELSE "files"
AfterAfter == IF TestFiles(Changed) = {} THEN "end" ELSE "tests"

TreeOf(sha) ==
  IF sha = job.on.sha THEN job.on.tree ELSE seen.commits[IndexOf(seen.commits, sha)].tree

FilesOf(works) == {w.file : w \in works}

\* client_for: a token that is fresh is reused; for another one a JWT is signed.
Begin ==
  /\ work.call = "idle"
  /\ work' = IF Cached(cache, job.skew) THEN GoTo("pull")
             ELSE [GoTo("token") EXCEPT !.jwt = AppJwt(job.skew)]
  /\ UNCHANGED <<job, pull, local, date, cache, seen>>

Asking == work.call \notin {"idle", "end"}

JwtLater(d) == [iat |-> work.jwt.iat - d, exp |-> work.jwt.exp - d]

\* GitHub looks at the credentials when the request arrives.
Credentials(d) ==
  IF work.call = "token" THEN JwtAccepted(JwtLater(d.sent)) ELSE TokenAccepted(Elapsed(cache, d.sent))

(***************************************************************************)
(* GitHub answers.                                                         *)
(***************************************************************************)
Answered(call, d) ==
  /\ work.call = call
  /\ Credentials(d)
  /\ UNCHANGED <<job, pull, local, date>>

Keeps(d) == cache' = Elapsed(cache, d.took)

ReceiveToken(d) ==
  /\ Answered("token", d)
  /\ cache' = <<GitHubTokenLifetime>>
  /\ work' = [GoTo("pull") EXCEPT !.jwt = NoJwt]
  /\ UNCHANGED seen

ReceivePull(d) ==
  /\ Answered("pull", d) /\ Keeps(d)
  /\ seen' = [seen EXCEPT !.head = TipOf(pull.commits).sha]
  /\ work' = GoTo("states")

\* list_thread_states: GitHub has a thread for every root comment.
ReceiveStates(d) ==
  /\ Answered("states", d) /\ Keeps(d)
  /\ LET nodes == AfterCursor(Roots, work.from)
     IN  /\ seen' = [seen EXCEPT !.states = @ \cup
                       {[root |-> r, resolved |-> r \in pull.resolved] : r \in nodes}]
         /\ work' = IF MoreAfter(Roots, work.from) THEN TurnTo(EndCursor(nodes, work.from), <<>>)
                    ELSE GoTo("comments")

\* list_review_comments, and on its last page reconstruct_threads and find_thread.
ReceiveComments(d) ==
  /\ Answered("comments", d) /\ Keeps(d)
  /\ LET list == pull.comments
         items == work.items \o Page(list, work.from)
         found == FindThread(Threads(ToSet(Upto(items, MaxItems)), seen.states), job.wanted)
     IN  IF ReadsOn(list, work.from, items, MaxItems)
         THEN work' = TurnTo(work.from + 1, items) /\ UNCHANGED seen
         ELSE /\ seen' = [seen EXCEPT !.thread = found, !.states = {}]
              /\ work' = IF found # {} THEN GoTo("timeline")
                         ELSE [Stop("thread_not_found") EXCEPT
                                 !.churn = @ \cup FlagIf(Len(list) > MaxItems, "rest")]

ReceiveTimeline(d) ==
  /\ Answered("timeline", d) /\ Keeps(d)
  /\ seen' = [seen EXCEPT !.forced = pull.forced]
  /\ work' = GoTo("commits")

\* list_pull_commits, and on its last page build_window.
ReceiveCommits(d) ==
  /\ Answered("commits", d) /\ Keeps(d)
  /\ LET list == Upto(pull.commits, PullCommitsLimit)
         items == work.items \o Page(list, work.from)
         commits == Upto(items, PullCommitsLimit)
     IN  IF ReadsOn(list, work.from, items, PullCommitsLimit)
         THEN work' = TurnTo(work.from + 1, items) /\ UNCHANGED seen
         ELSE /\ seen' = [seen EXCEPT !.commits = commits, !.tip = TipOf(pull.commits).tree]
              /\ work' = GoTo(AfterCommits(commits))

ReceiveFiles(d) ==
  /\ Answered("files", d) /\ Keeps(d)
  /\ seen' = [seen EXCEPT !.files = FilesOf({w \in TipOf(pull.commits).tree : w.mine})]
  /\ work' = GoTo("compare")

ReceiveComparison(d) ==
  /\ Answered("compare", d) /\ Keeps(d)
  /\ seen' = [seen EXCEPT !.comparison = <<FilesOf(TreeOf(WindowEnd) \ TreeOf(Thread.commit))>>]
  /\ work' = GoTo("before")

\* Code is named by its commit: it is the same whenever it is read.
ReceiveBefore(d) ==
  /\ Answered("before", d) /\ Keeps(d)
  /\ seen' = [seen EXCEPT !.before = <<job.lines>>]
  /\ work' = GoTo("after")

ReceiveAfter(d) ==
  /\ Answered("after", d) /\ Keeps(d)
  /\ seen' = [seen EXCEPT !.after = <<"code">>]
  /\ work' = GoTo(AfterAfter)

\* Stands for the requests of all test files; there are at most 20.
ReceiveTests(d) ==
  /\ Answered("tests", d) /\ Keeps(d)
  /\ work' = GoTo("end")
  /\ UNCHANGED seen

Receive ==
  \E d \in job.durations :
    \/ ReceiveToken(d) \/ ReceivePull(d) \/ ReceiveStates(d) \/ ReceiveComments(d)
    \/ ReceiveTimeline(d) \/ ReceiveCommits(d) \/ ReceiveFiles(d) \/ ReceiveComparison(d)
    \/ ReceiveBefore(d) \/ ReceiveAfter(d) \/ ReceiveTests(d)

(***************************************************************************)
(* GitHub does not answer, or answers with an error.                       *)
(***************************************************************************)
Refused(d) == job.responses \cup IF Credentials(d) THEN {} ELSE {Answer(401)}

\* A commit a force push removed may be gone; job.responses may hold a 404 for any other reason.
Gone ==
  \/ work.call \in {"compare", "before"} /\ ~Listed(pull.commits, job.on.sha)
  \/ work.call \in {"compare", "after", "tests"} /\ ~Listed(pull.commits, WindowEnd)

Errors(d) == Refused(d) \cup IF Asking /\ Gone THEN {Answer(404)} ELSE {}

\* These requests turn a 404 into a missing value.
Optional == {"compare", "before", "after", "tests"}

TryAgain ==
  /\ Asking
  /\ \E d \in job.durations : \E r \in Errors(d) :
       LET then == AfterAnswer(r, work.attempt)
       IN  /\ then.next = "again"
           /\ cache' = Elapsed(cache, d.took + then.wait)
           /\ work' = [work EXCEPT !.attempt = @ + 1,
                                   !.jwt = IF work.call = "token" THEN JwtLater(d.took + then.wait)
                                           ELSE @]
  /\ UNCHANGED <<job, pull, local, date, seen>>

\* seen holds <<>> for what was not found.
NotThere ==
  /\ work.call \in Optional
  /\ \E d \in job.durations : Answer(404) \in Errors(d) /\ Keeps(d)
  /\ work' = GoTo(CASE work.call = "compare" -> "before"
                    [] work.call = "before" -> "after"
                    [] work.call = "after" -> AfterAfter
                    [] OTHER -> "end")
  /\ UNCHANGED <<job, pull, local, date, seen>>

GiveUp ==
  /\ Asking
  /\ \E d \in job.durations : \E r \in Errors(d) :
       LET then == AfterAnswer(r, work.attempt)
       IN  /\ then.next = "raise"
           /\ ~(then.error = "not_found" /\ work.call \in Optional)
           /\ Keeps(d)
           /\ work' = [Stop(then.error) EXCEPT
                         !.rejected = IF r.status = 401 THEN work.call ELSE "none"]
  /\ UNCHANGED <<job, pull, local, date, seen>>

\* The queue gives a job that failed with a retryable error to the worker again, a while later.
Retry ==
  /\ work.call = "end"
  /\ work.error \notin PermanentErrors \cup {"none"}
  /\ work.tries < job.tries
  /\ \E d \in job.pauses : cache' = Elapsed(cache, d)
  /\ work' = Idle(work.tries + 1)
  /\ seen' = Unseen
  /\ UNCHANGED <<job, pull, local, date>>

Worker == Begin \/ Receive \/ TryAgain \/ NotThere \/ GiveUp \/ Retry

Init ==
  \E s \in Starts :
    /\ job = s.job /\ pull = s.pull /\ local = s.local /\ date = s.date /\ cache = s.cache
    /\ work = Idle(1) /\ seen = Unseen

Next == PullRequestMoves \/ Worker

Spec == Init /\ [][Next]_vars /\ WF_vars(Worker)

-----------------------------------------------------------------------------
(***************************************************************************)
(* The case, once every read has returned.                                 *)
(***************************************************************************)
Done == work.call = "end" /\ work.error = "none"

CaseFlags ==
  Window.flags \cup FileFlags(Window, Changed, seen.comparison)
  \cup FlagIf(Renames(Changed, "code") # {}, "file_renamed")
  \cup CodeFlags(seen.before, seen.after, job)

Doubted == CaseFlags \cap UnreliableWindow # {}

\* The commits were listed while nobody rewrote them.
ListedInPeace == "commits" \notin work.churn

TypeOK ==
  /\ date \in 0..job.lastDate
  /\ \A i \in DOMAIN Branch : Branch[i].authored <= Branch[i].committed /\ Branch[i].committed <= date
  /\ cache = <<>> \/ cache[1] \in 0..GitHubTokenLifetime
  /\ work.attempt \in 1..MaxRetries + 1
  /\ work.call \in {"idle", "token", "pull", "states", "comments", "timeline", "commits", "files",
                    "compare", "before", "after", "tests", "end"}
  /\ Done => CaseFlags \subseteq WindowFlags

\* The code that is judged contains every answer to the comment: whatever the author wrote after
\* it and the pull request contained when its commits were read, amended, rebased or squashed as
\* it may be, unless the case admits that the list was cut (window.py: excluded commits, the end
\* of the window).  A list torn by a force push between two of its pages is the exception.
AnswersAreJudged ==
  Done /\ ListedInPeace =>
    \/ {w \in seen.tip : w.mine /\ w.at > job.created} \subseteq TreeOf(WindowEnd)
    \/ "commit_list_truncated" \in CaseFlags

\* A commit that only holds work from before the comment counts as a response in one case: it was
\* made again after the comment while the reviewed commit stayed in the pull request.  Otherwise it
\* is excluded or ambiguous, at whatever moments the reads fell.
OldWorkIsNoAnswer ==
  Done =>
    \A i \in Window.subsequent :
      LET c == seen.commits[i]
      IN  \/ \E w \in c.works : w.at >= job.created
          \/ c.committed > c.authored /\ Listed(seen.commits, job.on.sha)

\* Without a doubt flag the code before is an ancestor of the code after, so that their difference
\* is what the author did since.  A force push at any moment, also after the timeline was read,
\* raises one; only a list torn between two pages escapes.
AncestryOrDoubt ==
  Done /\ ListedInPeace => Doubted \/ job.on.tree \subseteq TreeOf(WindowEnd)

\* A job fails for good as ThreadNotFound only if its comment or the root of its thread was
\* deleted, or a comment was deleted while the pages of the list were read, which moves the others
\* up by one, or the list is longer than the client reads.  The thread it finds is the one of the
\* comment.
ThreadIsFound ==
  /\ work.error = "thread_not_found" =>
       \/ ~({job.wanted, job.root} \subseteq Ids(ToSet(pull.comments)))
       \/ {"comments", "rest"} \cap work.churn # {}
  /\ \A t \in seen.thread : t.root = job.root /\ job.root \in t.comments

\* The comment is placed at the line it was written on if the text of its hunk occurs once there,
\* even when GitHub names another line (anchor.py), or if GitHub names the right one.
AnchorIsTheCommentedLine ==
  LET new == NewSide(job.hunk)
      context == IF Len(new) > MaxContext THEN MaxContext ELSE Len(new)
  IN  Done /\ seen.before # <<>> /\ job.at # <<>> =>
        \/ job.originalLine # job.at /\ Cardinality(Occurrences(job.lines, new, context)) # 1
        \/ Anchor(seen.before, job) = job.at

\* No code bounds an attempt: a handshake is a phase of its own, and a body may come in pieces.  These
\* reach GitHub within two phases of the client and are answered within three.
Punctual ==
  \A d \in job.durations : d.sent <= 2 * RequestTimeout /\ d.took <= 3 * RequestTimeout

\* The JWT a token request is signed with is accepted at each of its attempts, whatever backoffs and
\* rate limits lie between them, if the attempts are punctual and the worker's clock is a minute
\* ahead at most, or not quite half a minute behind (auth.py: 540 s, against four attempts of
\* client.py; the ten minutes GitHub allows leave no more).
JwtOutlivesItsRequest ==
  Punctual /\ job.skew \in -29..ClockSkew => work.rejected # "token"

\* A token that GitHub rejected in the middle of a job is never handed out again, though nothing
\* takes it out of the cache: when the queue retries the job it asks for another one first.  The
\* margin sees to that as long as the worker's clock is at most five minutes behind (auth.py, fresh).
RejectedTokenIsReplaced ==
  work.rejected \notin {"none", "token"} /\ job.skew >= -300 => ~Cached(cache, job.skew)

\* Whatever GitHub answers, the job ends: attempts are counted, waits bounded, and each page or
\* cursor is further on than the one before.
IngestionEnds == <>[](work.call = "end")
=============================================================================
