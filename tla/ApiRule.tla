------------------------------ MODULE ApiRule ------------------------------
(***************************************************************************)
(* "Return HTTP 400 for invalid input" (rules/api.py): the wanted status    *)
(* must be produced, under a branch on the values the request is about.    *)
(*                                                                         *)
(* A request has the codes it wants, the names in it that the code knows,   *)
(* its other content words, whether it states a condition and whether that  *)
(* is an absence; without codes, what it asks for instead (shape).  A       *)
(* context has the target's code before and after and the error handlers of *)
(* each version of the file.                                               *)
(***************************************************************************)
EXTENDS RuleBase

\* A request for a status; the other shapes add what they name.
Request(codes, names, words, conditional, absence) ==
  [codes |-> codes, names |-> names, words |-> words, conditional |-> conditional,
   absence |-> absence, shape |-> "status", header |-> None, first |-> None,
   readable |-> FALSE, newValue |-> None, oldValue |-> None]

\* Exceptions web frameworks turn into a status.
FrameworkStatus == "NotFound" :> 404 @@ "BadRequest" :> 400

\* The file's error handlers, by exception: the first response of each is
\* the status of its exception, which overrides the framework's.  Within a
\* handler only the framework's are known.
ErrorHandlerCodes(handlers) ==
  LET sites(e) == Responses(handlers[e], FrameworkStatus)
  IN  [e \in {x \in DOMAIN handlers : sites(x) # {}} |->
         (CHOOSE s \in sites(e) : \A t \in sites(e) : s.line <= t.line).code]

Sites(code, handlers) == Responses(code, ErrorHandlerCodes(handlers) @@ FrameworkStatus)

\* Whether a condition holds when the value is absent.
Absent(cond) ==
  /\ \A a \in cond.atoms : ~(a.test = "is" /\ a.rel = "is not")
  /\ \/ cond.join = "except"
     \/ \E a \in cond.atoms : \/ a.test \in {"not", "is"}
                              \/ a.test = "cmp" /\ a.rel = "==" /\ a.n = 0

\* Faulty variant: the else of an absence check is an absence, too.
OnBranchAnyPolarity(site, names, req) ==
  \/ ~req.conditional
  \/ \E b \in site.branch : Names(b.cond) \cap names # {} \/ names = {}

\* Produced under a condition on the requested values; for an absence, under
\* one that means absent.
OnBranch(site, names, req) ==
  LET about(b) == names = {} \/ Names(b.cond) \cap names # {}
  IN  \/ ~req.conditional
      \/ /\ req.absence
         /\ \E b \in site.branch : about(b) /\ Absent(b.cond) # b.negated
      \/ /\ ~req.absence
         /\ \E b \in site.branch : about(b) /\ ~b.negated

\* What identifies a response across versions: its code and the conditions
\* it stands under, those of an else left out.
BranchText(site) == <<site.code, {b.cond : b \in {c \in site.branch : ~c.negated}}>>

\* The names the condition may be tested on, as far as the code has them.
ConditionNames(req, code) ==
  LET seeds == req.names \cup req.words
  IN  IF seeds = {} THEN {} ELSE Related(seeds, code) \cap Identifiers(code)

StatusRule(req, ctx) ==
  LET names == ConditionNames(req, ctx.after)
      sites == Sites(ctx.after, ctx.handlers)
      hits(code) == {s \in sites : s.code = code /\ OnBranch(s, names, req)}
      earlier == {BranchText(s) : s \in Sites(ctx.before, ctx.handlersBefore)}
  IN  IF req.conditional /\ names = {} /\ \E s \in sites : s.code \in req.codes /\ s.branch # {}
        THEN Inconclusive
      ELSE IF \E code \in req.codes : hits(code) = {} THEN NotSatisfied
      ELSE Satisfied(\A code \in req.codes : \A s \in hits(code) : BranchText(s) \in earlier)

-----------------------------------------------------------------------------
(***************************************************************************)
(* Requests without a status: a header, an error message, a return value.  *)
(***************************************************************************)
\* The header's name in quotes, anywhere in the text: a comment that quotes it
\* will do.  Double quotes are looked for first.
HeaderRule(req, ctx) ==
  LET set == {q \in {"double", "single"} : <<q, req.header>> \in Said(ctx.after)}
      quote == IF "double" \in set THEN "double" ELSE "single"
  IN  IF req.header = None THEN Inconclusive
      ELSE IF set = {} THEN NotSatisfied
      ELSE Satisfied(<<quote, req.header>> \in Said(ctx.before))

\* The first name must appear in an error response or a raised error.
MessageRule(req, ctx) ==
  LET code == ctx.after
      errors == {s.line : s \in {r \in Sites(code, ctx.handlers) : r.code >= 400}}
                  \cup {i \in DOMAIN code : code[i].kind = "raise" /\ code[i].exc # {}}
  IN  IF req.names = {} \/ errors = {} THEN Inconclusive
      ELSE IF \E i \in errors : req.first \in NamesIn(code[i]) THEN Satisfied(FALSE)
      ELSE NotSatisfied

ReturnValueRule(req, ctx) ==
  LET returned == {ctx.after[i].value : i \in {j \in DOMAIN ctx.after : ctx.after[j].kind = "return"}}
  IN  IF ~req.readable THEN Inconclusive
      ELSE IF req.oldValue \in returned THEN NotSatisfied
      ELSE IF req.newValue \in returned THEN Satisfied(FALSE)
      ELSE Inconclusive

ApiRule(req, ctx) ==
  CASE req.codes # {} -> StatusRule(req, ctx)
    [] req.codes = {} /\ req.shape = "header" -> HeaderRule(req, ctx)
    [] req.codes = {} /\ req.shape = "message" -> MessageRule(req, ctx)
    [] req.codes = {} /\ req.shape = "return value" -> ReturnValueRule(req, ctx)
    [] OTHER -> Inconclusive
=============================================================================
