---------------------------- MODULE ReviewWindow ----------------------------
(***************************************************************************)
(* The resolution window of a review thread and the case made of it        *)
(* (ingestion/window.py, assemble.py, anchor.py): which commits may answer *)
(* the comment, the code before and after, where the comment points, and   *)
(* the flags that say how far all that can be trusted.                     *)
(*                                                                         *)
(* A commit has a sha and the dates it was authored and committed, set by  *)
(* its author's computer.  Commits and lines are sequences, oldest and     *)
(* first.  An optional value is <<>> or <<value>>.                         *)
(***************************************************************************)
EXTENDS GitHubClient

MaxContext == 6

\* Faulty variant: a window ordered by dates alone is trusted.
TrustsDates ==
  {"history_rewritten", "ambiguous_rewritten_commits", "before_code_unavailable",
   "anchor_not_found", "commit_list_truncated", "changed_files_from_whole_pr"}

\* The flags that lower the confidence of a verdict (verification/reliability.py).
UnreliableWindow ==
  {"history_rewritten", "ordered_by_timestamp", "ambiguous_rewritten_commits",
   "before_code_unavailable", "anchor_not_found", "commit_list_truncated",
   "changed_files_from_whole_pr"}

WindowFlags ==
  {"resolution_state_unknown", "resolution_time_unknown", "history_rewritten",
   "original_commit_not_in_pr", "ordered_by_timestamp", "pre_comment_commits_excluded",
   "no_subsequent_commits", "commit_list_truncated", "before_code_unavailable", "file_deleted",
   "file_renamed", "changed_files_from_whole_pr", "ambiguous_rewritten_commits",
   "base_drift_possible", "anchor_line_mismatch", "anchor_not_found"}

FlagIf(condition, flag) == IF condition THEN {flag} ELSE {}

Listed(commits, sha) == \E i \in DOMAIN commits : commits[i].sha = sha
IndexOf(commits, sha) == CHOOSE i \in DOMAIN commits : commits[i].sha = sha

\* Faulty variant, in place of AuthoredBefore: its date is not looked at.
CommittedEarlier(c, at) == c.committed < at
AuthoredBefore(c, at) == c.authored < at
CommittedBefore(c, at) == c.committed < at

(***************************************************************************)
(* build_window, by positions in the list of commits.  While the reviewed  *)
(* commit is listed, the commits after it are candidates; when it is not,  *)
(* all are, and only dates are left.  A candidate committed before the     *)
(* comment is excluded; one without a place in the list that was authored  *)
(* before the comment is old work rebased or a response amended.           *)
(***************************************************************************)
Candidates(thread, commits) ==
  IF Listed(commits, thread.commit) THEN IndexOf(commits, thread.commit) + 1..Len(commits)
  ELSE DOMAIN commits

InWindow(thread, commits) ==
  {i \in Candidates(thread, commits) : ~CommittedBefore(commits[i], thread.created)}

Ambiguous(thread, commits) ==
  {i \in InWindow(thread, commits) :
     ~Listed(commits, thread.commit) /\ AuthoredBefore(commits[i], thread.created)}

LastOf(positions) == CHOOSE i \in positions : \A j \in positions : j <= i

EndOfWindow(thread, commits) ==
  IF InWindow(thread, commits) = {} THEN thread.commit
  ELSE commits[LastOf(InWindow(thread, commits))].sha

BuildWindow(thread, commits, forcePushed) ==
  LET listed == Listed(commits, thread.commit)
      ambiguous == Ambiguous(thread, commits)
      subsequent == InWindow(thread, commits) \ ambiguous
      excluded == Candidates(thread, commits) \ InWindow(thread, commits)
  IN  [start |-> thread.commit,
       end |-> EndOfWindow(thread, commits),
       subsequent |-> subsequent,
       ambiguous |-> ambiguous,
       excluded |-> excluded,
       flags |->
         FlagIf(Len(commits) >= PullCommitsLimit, "commit_list_truncated")
         \cup FlagIf(~listed, "original_commit_not_in_pr")
         \cup FlagIf(~listed, "ordered_by_timestamp")
         \cup FlagIf(~listed /\ \E at \in forcePushed : at > thread.created, "history_rewritten")
         \cup FlagIf(ambiguous # {}, "ambiguous_rewritten_commits")
         \cup FlagIf(excluded # {}, "pre_comment_commits_excluded")
         \cup FlagIf(subsequent = {}, "no_subsequent_commits")
         \cup FlagIf(thread.resolved = "unknown", "resolution_state_unknown")
         \cup FlagIf(thread.resolved = "yes", "resolution_time_unknown")]

-----------------------------------------------------------------------------
(***************************************************************************)
(* The files changed in the window: those of the comparison of its ends,   *)
(* or, when GitHub cannot compare them, those of the whole pull request.   *)
(***************************************************************************)
ChangedFiles(window, pullFiles, comparison) ==
  IF window.start = window.end THEN {}
  ELSE {[file |-> f, inPull |-> \E g \in pullFiles : g.path = f.path] :
          f \in IF comparison = <<>> THEN pullFiles ELSE comparison[1]}

FileFlags(window, changed, comparison) ==
  FlagIf(window.start # window.end /\ comparison = <<>>, "changed_files_from_whole_pr")
  \cup FlagIf(\E f \in changed : ~f.inPull, "base_drift_possible")

Renames(changed, path) == {f \in changed : f.file.previous = path}

\* Test files to read: only the pull request's own.
TestFiles(changed) ==
  {f.file.path : f \in {g \in changed : g.file.test /\ g.inPull /\ g.file.status # "removed"}}

-----------------------------------------------------------------------------
(***************************************************************************)
(* locate_comment_line: GitHub cuts the diff hunk off at the commented     *)
(* line.  The longest run of at most MaxContext last lines of its new side *)
(* that occurs in the file places the comment; a tie goes to the place     *)
(* nearest to the line GitHub names, if it names one.                      *)
(***************************************************************************)
NewSide(hunk) ==
  LET new == SelectSeq(hunk, LAMBDA l : l.sign # "-") IN [i \in DOMAIN new |-> new[i].text]

\* Where the last `size` lines of `new` end in the file.
Occurrences(lines, new, size) ==
  {end \in size..Len(lines) :
     SubSeq(lines, end - size + 1, end) = SubSeq(new, Len(new) - size + 1, Len(new))}

Distance(a, b) == IF a < b THEN b - a ELSE a - b

Nearest(ends, line) ==
  CHOOSE e \in ends : \A other \in ends :
    \/ Distance(e, line) < Distance(other, line)
    \/ Distance(e, line) = Distance(other, line) /\ e <= other

\* Faulty variant: the shortest context that occurs.
Shortest(sizes) == CHOOSE s \in sizes : \A t \in sizes : s <= t
Longest(sizes) == CHOOSE s \in sizes : \A t \in sizes : t <= s

LocateCommentLine(lines, hunk, side, originalLine) ==
  LET new == NewSide(hunk)
      sizes == {s \in 1..MaxContext : s <= Len(new) /\ Occurrences(lines, new, s) # {}}
      ends == Occurrences(lines, new, Longest(sizes))
  IN  IF side = "LEFT" \/ hunk = <<>> THEN <<>>
      ELSE IF hunk[Len(hunk)].sign = "-" \/ sizes = {} THEN <<>>
      ELSE IF originalLine # <<>> THEN <<Nearest(ends, originalLine[1])>>
      ELSE IF Cardinality(ends) = 1 THEN <<CHOOSE e \in ends : TRUE>> ELSE <<>>

\* The flags of the code before and after, and the line the comment points at.
Anchor(before, comment) ==
  IF before = <<>> THEN <<>>
  ELSE LocateCommentLine(before[1], comment.hunk, comment.side, comment.originalLine)

CodeFlags(before, after, comment) ==
  LET anchor == Anchor(before, comment)
  IN  IF before = <<>> THEN {"before_code_unavailable"}
      ELSE FlagIf(after = <<>>, "file_deleted")
           \cup IF comment.side = "LEFT" THEN {}
                ELSE FlagIf(anchor = <<>>, "anchor_not_found")
                     \cup FlagIf(anchor # <<>> /\ anchor # comment.originalLine,
                                 "anchor_line_mismatch")
=============================================================================
