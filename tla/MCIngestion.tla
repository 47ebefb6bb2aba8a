---------------------------- MODULE MCIngestion -----------------------------
(***************************************************************************)
(* Ingestion on small pull requests: one that is pushed to and rewritten,  *)
(* one whose comments come and go, one on a bad network, and files that    *)
(* repeat their lines.                                                     *)
(***************************************************************************)
EXTENDS Ingestion

Code == [path |-> "code", previous |-> "none", test |-> FALSE, status |-> "modified"]
TestFile == [Code EXCEPT !.path = "test_code", !.test = TRUE, !.status = "added"]
Renamed == [Code EXCEPT !.path = "new_code", !.previous = "code", !.status = "renamed"]
Upstream == [Code EXCEPT !.path = "test_other", !.test = TRUE]

MCFiles == {TestFile}
MCSkews == {-300, -29, 0, 60}

\* Two commits pushed at 1 and 2, and perhaps one the author has not pushed.
C1 == Commit(<<1, 0>>, 1, 1, {Work(1, Code, TRUE)}, {})
C2 == Commit(<<2, 0>>, 2, 2, {Work(2, TestFile, TRUE)}, C1.tree)
C3 == Commit(<<3, 0>>, 3, 3, {Work(3, Renamed, TRUE)}, C2.tree)
C5 == Commit(<<5, 0>>, 5, 5, {Work(5, TestFile, TRUE)}, C3.tree)
C6 == Commit(<<6, 0>>, 6, 6, {Work(6, TestFile, TRUE)}, C5.tree)

Comment(id, replyTo, commit) == [id |-> id, created |-> id, replyTo |-> replyTo, commit |-> commit]

New(text) == [sign |-> "+", text |-> text]
Old(text) == [sign |-> "-", text |-> text]

AtOnce == [sent |-> 0, took |-> 0]
Slowest == [sent |-> 60, took |-> 90]
Trickling == [sent |-> 10, took |-> 400]

Job(on) ==
  [wanted |-> 4, root |-> 4, created |-> 4, on |-> on,
   lines |-> <<"a">>, hunk |-> <<New("a")>>, side |-> "RIGHT", at |-> <<1>>,
   originalLine |-> <<1>>,
   moves |-> "none", base |-> {}, lastDate |-> 4,
   responses |-> {}, durations |-> {AtOnce}, pauses |-> {}, tries |-> 1, skew |-> 0]

Start(theJob, commits, comments) ==
  [job |-> theJob,
   pull |-> [commits |-> commits, comments |-> comments, forced |-> {}, resolved |-> {4}],
   local |-> <<>>, date |-> 4, cache |-> <<3600>>]

\* The comment is on either commit; two or three events of the author follow.
Rewritten ==
  {[Start([Job(on) EXCEPT !.moves = "commits", !.base = {Work(0, Upstream, FALSE)},
                          !.lastDate = IF on = C1 /\ unpushed = <<>> THEN 7 ELSE 6],
          <<C1, C2>>, <<Comment(4, NoComment, on.sha)>>) EXCEPT !.local = unpushed] :
     on \in {C1, C2}, unpushed \in {<<>>, <<C3>>}}

\* A push takes the list beyond what GitHub lists.
Long ==
  {[Start([Job(C2) EXCEPT !.moves = "commits", !.lastDate = 7], <<C1, C2, C3>>,
          <<Comment(4, NoComment, C2.sha)>>) EXCEPT !.local = <<C5, C6>>, !.date = 6]}

\* Threads 4 and 5; 6 replies to 4; the reply or the root is what the job is about.  Another
\* reply, 7, is one comment more than the client reads, until one before it is deleted.
Discussed ==
  {[Start([Job(C2) EXCEPT !.moves = "comments", !.lastDate = 8, !.wanted = wanted],
          <<C1, C2>>,
          <<Comment(3, NoComment, C1.sha), Comment(4, NoComment, C2.sha),
            Comment(5, NoComment, C2.sha), Comment(6, 4, C2.sha)>>) EXCEPT !.date = 6] :
     wanted \in {4, 6}}
  \cup
  {[Start([Job(C2) EXCEPT !.moves = "comments", !.lastDate = 8, !.wanted = 7],
          <<C1, C2>>,
          <<Comment(3, NoComment, C1.sha), Comment(4, NoComment, C2.sha),
            Comment(5, NoComment, C2.sha), Comment(6, 4, C2.sha),
            Comment(7, 4, C2.sha)>>) EXCEPT !.date = 7]}

RateLimited == [Answer(429) EXCEPT !.retryAfter = <<60>>]
LongLimited == [Answer(429) EXCEPT !.retryAfter = <<61>>]
OutOfQuota == [Answer(403) EXCEPT !.exhausted = TRUE, !.resetIn = <<59>>]
JustReset == [Answer(403) EXCEPT !.exhausted = TRUE, !.resetIn = <<-5>>]

Troubled(responses, durations, tries, tokens, skews) ==
  {[Start([Job(C2) EXCEPT !.responses = responses, !.durations = durations, !.pauses = {30},
                          !.tries = tries, !.skew = skew],
          <<C1, C2>>, <<Comment(4, NoComment, C2.sha)>>) EXCEPT !.cache = token] :
     skew \in skews, token \in tokens}

\* GitHub is down, or limits the worker; and a token that is missing, about to be replaced, only
\* just fresh, or expires during the job.
BadNetwork == Troubled({Answer(0)}, {Slowest}, 1, {<<301>>}, {-29, 60})
BadQuota ==
  Troubled({Answer(429), RateLimited, LongLimited, OutOfQuota}, {AtOnce, Slowest}, 1,
           {<<>>, <<300>>, <<361>>}, {-29, 60})
Quick == Troubled({Answer(403), Answer(404), Answer(500), JustReset}, {AtOnce, Trickling}, 2, {<<330>>}, {-300, 0})

\* Files that repeat their lines, hunks of one to three lines, and what GitHub says of the place.
Anchored ==
  {Start([Job(C2) EXCEPT !.lines = lines, !.hunk = hunk, !.at = at,
                         !.originalLine = original, !.side = side],
         <<C1, C2>>, <<Comment(4, NoComment, C2.sha)>>) :
     lines \in [1..4 -> {"a", "b"}],
     hunk \in {<<>>, <<New("a")>>},
     at \in {<<>>}, original \in {<<>>, <<1>>, <<3>>}, side \in {"RIGHT", "LEFT"}}
  \cup
  {Start([Job(C2) EXCEPT !.lines = lines, !.at = <<at>>, !.originalLine = original,
                         !.hunk = SubSeq(<<Old("c")>> \o [i \in 1..at |-> New(lines[i])],
                                         from, at + 1)],
         <<C1, C2>>, <<Comment(4, NoComment, C2.sha)>>) :
     lines \in [1..4 -> {"a", "b"}], at \in 2..4, from \in 1..3,
     original \in {<<>>, <<1>>, <<2>>, <<4>>}}

MCStarts ==
  Rewritten \cup Long \cup Discussed \cup BadNetwork \cup BadQuota \cup Quick \cup Anchored
=============================================================================
