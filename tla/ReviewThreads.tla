--------------------------- MODULE ReviewThreads ----------------------------
(***************************************************************************)
(* From a flat list of review comments to threads (threads/reconstruct.py).*)
(*                                                                         *)
(* A comment has an id, the date it was created, the id of the comment it  *)
(* replies to (0: none) and the commit it was written on.  Ids and dates   *)
(* ascend together, so sorting by id is sorting by (created_at, id).       *)
(***************************************************************************)
EXTENDS Integers, FiniteSets, Sequences

NoComment == 0

Ids(comments) == {c.id : c \in comments}
ById(comments, i) == CHOOSE c \in comments : c.id = i

\* _root_id follows replies up to a comment that replies to none, or to the
\* first parent that is missing.  GitHub's replies are younger than what they
\* reply to, so its guard against cycles is never needed.
RootId(comments) ==
  LET root[i \in Ids(comments)] ==
        LET parent == ById(comments, i).replyTo
        IN  IF parent = NoComment THEN i
            ELSE IF parent \in Ids(comments) THEN root[parent] ELSE parent
  IN  root

Members(comments, r) ==
  LET root == RootId(comments) IN {c \in comments : root[c.id] = r}

\* reconstruct_threads: a thread without its root comment cannot be anchored and is left out.
\* The resolution of a thread is unknown when its state was not read.
Threads(comments, states) ==
  LET root == RootId(comments)
      roots == {root[i] : i \in Ids(comments)} \cap Ids(comments)
  IN  {[root |-> r, created |-> ById(comments, r).created, commit |-> ById(comments, r).commit,
        comments |-> Ids(Members(comments, r)),
        resolved |-> IF \E s \in states : s.root = r
                     THEN (IF [root |-> r, resolved |-> TRUE] \in states THEN "yes" ELSE "no")
                     ELSE "unknown"] : r \in roots}

\* find_thread; {} is ThreadNotFoundError.
FindThread(threads, id) == {t \in threads : id \in t.comments}
=============================================================================
