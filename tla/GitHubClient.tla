---------------------------- MODULE GitHubClient ----------------------------
(***************************************************************************)
(* One request to GitHub with its retries, and the two kinds of paging     *)
(* (gh/client.py, gh/api.py).                                              *)
(*                                                                         *)
(* Times are seconds.  An answer is its status and what its headers say of *)
(* the rate limit; an optional header is <<>> or <<value>>.  Status 0      *)
(* stands for a transport error: no answer came.                           *)
(***************************************************************************)
EXTENDS Integers, Sequences, FiniteSets

CONSTANTS
  PageSize,         \* items on a page
  MaxItems,         \* items get_paginated reads of a list
  PullCommitsLimit  \* commits GitHub lists of one pull request

ASSUME PagingAssumption ==
  PageSize \in Nat \ {0} /\ MaxItems \in Nat \ {0} /\ PullCommitsLimit \in Nat \ {0}

MaxRetries == 3
\* The client's timeout: how long each phase of an attempt (connecting, writing, each read) may take.
RequestTimeout == 30
MaxRateLimitWait == 60
RetryableStatus == {500, 502, 503, 504}

Answer(status) == [status |-> status, exhausted |-> FALSE, retryAfter |-> <<>>, resetIn |-> <<>>]

\* 403 means several things; it is a rate limit when a header says so.
IsRateLimited(r) ==
  r.status = 429 \/ (r.status = 403 /\ (r.exhausted \/ r.retryAfter # <<>>))

\* How long to wait, if GitHub says: the reset time may have passed already.
RateLimitWait(r) ==
  IF r.retryAfter # <<>> THEN r.retryAfter
  ELSE IF r.resetIn = <<>> THEN <<>>
  ELSE <<(IF r.resetIn[1] > 0 THEN r.resetIn[1] ELSE 0) + 1>>

Again(wait) == [next |-> "again", wait |-> wait, error |-> "none"]
Raise(error) == [next |-> "raise", wait |-> 0, error |-> error]
Return == [next |-> "return", wait |-> 0, error |-> "none"]

\* Faulty variant: one retry too many.
MayRetryOnceMore(attempt) == attempt <= MaxRetries + 1
MayRetry(attempt) == attempt <= MaxRetries

\* What _request does with the answer to its attempt-th try.
AfterAnswer(r, attempt) ==
  LET mayRetry == MayRetry(attempt)
      backoff == Again(2 ^ (attempt - 1))
      wait == RateLimitWait(r)
  IN  IF r.status = 0 THEN IF mayRetry THEN backoff ELSE Raise("request")
      ELSE IF r.status < 400 THEN Return
      ELSE IF r.status = 404 THEN Raise("not_found")
      ELSE IF IsRateLimited(r)
           THEN IF wait # <<>> /\ wait[1] <= MaxRateLimitWait /\ mayRetry
                THEN Again(wait[1]) ELSE Raise("rate_limited")
      ELSE IF r.status \in RetryableStatus /\ mayRetry THEN backoff
      ELSE Raise("request")

-----------------------------------------------------------------------------
(***************************************************************************)
(* A REST list is read page by page, each page cut from the list as it is  *)
(* then; the link to the next page is there when more items are.           *)
(***************************************************************************)
Upto(list, n) == SubSeq(list, 1, IF n < Len(list) THEN n ELSE Len(list))

Page(list, n) ==
  LET upto == Upto(list, n * PageSize) IN SubSeq(upto, (n - 1) * PageSize + 1, Len(upto))
HasNext(list, n) == n * PageSize < Len(list)

\* Faulty variant: only the first page is read.
NeverReadsOn(list, n, items, maxItems) == FALSE
\* get_paginated goes on with page n + 1 after it has read `items`.
ReadsOn(list, n, items, maxItems) == HasNext(list, n) /\ Len(items) < maxItems

-----------------------------------------------------------------------------
(***************************************************************************)
(* A GraphQL list is read from a cursor: the first PageSize ids after it.  *)
(* list_thread_states gives the last of them as the next cursor.           *)
(***************************************************************************)
AfterCursor(ids, cursor) ==
  LET later == {i \in ids : i > cursor}
  IN  {i \in later : Cardinality({j \in later : j <= i}) <= PageSize}

MoreAfter(ids, cursor) == Cardinality({i \in ids : i > cursor}) > PageSize

\* Faulty variant: the cursor is not moved.
SameCursor(nodes, cursor) == cursor
EndCursor(nodes, cursor) ==
  IF nodes = {} THEN cursor ELSE CHOOSE i \in nodes : \A j \in nodes : j <= i
=============================================================================
