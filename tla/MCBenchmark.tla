---------------------------- MODULE MCBenchmark ----------------------------
(***************************************************************************)
(* Two versions of the benchmark, from three data sets on.                 *)
(***************************************************************************)
EXTENDS Benchmark, TLC

Thread(spelled, pull, thread) ==
  [repo |-> "click", spelled |-> spelled, pull |-> pull, thread |-> thread]

T1 == Thread("click", 1, 1)
T2 == Thread("click", 1, 2)
T3 == Thread("Click", 1, 1)
T4 == Thread("click", 2, 1)

MCCandidates == {T1, T2, T3}

Label(include, verdict, count) == [include |-> include, verdict |-> verdict, count |-> count]
MCLabels ==
  {Label(TRUE, "satisfied", 1), Label(TRUE, "not_satisfied", 1), Label(FALSE, "none", 0)}

Collected(split) == [split |-> split, text |-> "as collected"]

Nothing == [v \in Versions |-> <<>>]

Start(verdicts, collected, labelled) ==
  [fixtures |-> verdicts, cases |-> collected, gold |-> labelled]

Satisfied == Label(TRUE, "satisfied", 1)

\* Nothing yet; a test case without a label; a version that waits to be frozen, and an older one
\* that a model has labelled.
MCStarts ==
  {Start(Nothing, Nothing, Nothing),
   Start(<<<<"satisfied">>, <<>>>>, <<T1 :> Collected("test"), <<>>>>, Nothing),
   Start(<<<<"satisfied">>, <<"satisfied">>>>,
         <<T1 :> Collected("test"), T4 :> Collected("test")>>,
         <<T1 :> Gold(Satisfied, "model", 1, TRUE), T4 :> Gold(Satisfied, "human", 2, FALSE)>>)}
=============================================================================
