----------------------------- MODULE ErrorRule -----------------------------
(***************************************************************************)
(* "Handle database failure" (rules/errors.py): the request is a checklist, *)
(* and every item is tested on the code after and before the change.       *)
(*                                                                         *)
(* A request has the exceptions to catch and to raise, the names and the    *)
(* calls it mentions, the set of things it asks for (asks), the values a    *)
(* log call must include and the value to fall back to.  A context has the  *)
(* target's code before and after and the names its file defines.          *)
(*                                                                         *)
(* An item's result is {TRUE}, {FALSE}, or BOOLEAN when it cannot be told.  *)
(***************************************************************************)
EXTENDS RuleBase

Request(caught, raised, names, protected, asks, logged, fallback) ==
  [caught |-> caught, raised |-> raised, names |-> names, protected |-> protected,
   asks |-> asks, logged |-> logged, fallback |-> fallback]

Yes == {TRUE}
No == {FALSE}
Unknown == BOOLEAN
Is(fact) == {fact}

KnownContexts == {"open", "suppress", "patch", "raises", "lock", "acquire",
                  "TemporaryDirectory", "closing"}
CleanupCalls == {"close", "release", "unlock", "cleanup", "shutdown", "rollback", "stop"}
LogCalls == {"log.error", "log.exception"}

ContextsOf(code) == CallsOf(code, WithLines(code))

\* A new `with helper():` defined elsewhere may handle the failure.
DelegatedContext(ctx) ==
  \E c \in ContextsOf(ctx.after) \ ContextsOf(ctx.before) :
    c.callee \notin ctx.defined \cup KnownContexts

UnknownOr(ctx, result) == IF DelegatedContext(ctx) THEN Unknown ELSE result

-----------------------------------------------------------------------------
(***************************************************************************)
(* The items.  A test takes the code after or before the change.           *)
(***************************************************************************)
Handles(code, h, exception) == exception \in Caught(code, h) \/ IsBroad(code, h)

\* The first handler for the exception decides, for nested `try`s the outer
\* one; then a rejecting guard on a name of the request; then an idiom that
\* cannot raise it.
Catch(ctx, code, req, exception) ==
  LET handling == {k \in Handlers(code) : Handles(code, k, exception)}
      h == FirstHandler(code, handling)
      guarded == \E g \in RejectingGuards(code) : Names(code[g].cond) \cap req.names # {}
      avoided == /\ exception = "KeyError"
                 /\ \E c \in CallsOf(code, DOMAIN code) \ CallsOf(ctx.before, DOMAIN ctx.before) :
                      c.callee = "get"
  IN  IF handling # {}
      THEN Is(/\ Swallows(code, h) => "ignore" \in req.asks
              /\ OnlyReraises(code, h) => "re-raise" \in req.asks
              /\ req.protected # {} =>
                   \E c \in CallsOf(code, Protected(code, h)) : c.callee \in req.protected)
      ELSE IF guarded \/ avoided THEN Yes ELSE UnknownOr(ctx, No)

\* A protected call inside a loop, or called more than once.
Retry(code) ==
  LET again(i, c) == InLoop(code, i) \/ \E j \in DOMAIN code \ {i} : \E d \in code[j].calls : d.callee = c.callee
  IN  Is(\E h \in Handlers(code) : \E i \in Protected(code, h) :
           \E c \in code[i].calls : again(i, c))

RaisesIt(code, exception) ==
  Is(\E i \in DOMAIN code : code[i].kind = "raise" /\ exception \in code[i].exc)

Chain(code) ==
  Is(\E i \in DOMAIN code : code[i].kind = "raise" /\ code[i].exc # {} /\ code[i].chained)

\* The first log call on a failure path: handlers first, then guards.
Log(code, req) ==
  LET logging(lines) == {j \in lines : \E c \in code[j].calls : c.callee \in LogCalls}
      handlers == {h \in Handlers(code) : logging(HandlerBody(code, h)) # {}}
      guards == {g \in Guards(code) : logging(Block(code, g)) # {}}
      path == IF handlers # {} THEN HandlerBody(code, FirstHandler(code, handlers))
              ELSE IF guards # {} THEN Block(code, Min(guards)) ELSE {}
  IN  Is(path # {} /\ \E c \in code[Min(logging(path))].calls :
                        /\ c.callee \in LogCalls
                        /\ req.logged \subseteq c.args
                        /\ "traceback" \in req.asks => c.callee = "log.exception" \/ "exc_info" \in c.args)

Reraise(code) == Is(\E h \in Handlers(code) : Reraises(code, h))

Fallback(code, value) ==
  LET returns(lines) == \E j \in lines : code[j].kind = "return" /\ code[j].value = value
  IN  Is(\/ \E h \in Handlers(code) : returns(HandlerBody(code, h))
         \/ \E g \in Guards(code) : returns(Block(code, g)))

\* Of the handlers, only `except` clauses count; there must be one.
NoBroad(code) ==
  LET excepts == {h \in Handlers(code) : code[h].kind = "except"}
  IN  Is(excepts # {} /\ \A h \in excepts : ~IsBroad(code, h))

NotSwallowed(code) ==
  Is(Handlers(code) # {} /\ \A h \in Handlers(code) : ~Swallows(code, h))

\* This one is told which code it is looking at: "before" or "after".
Cleanup(ctx, scope) ==
  LET code == ctx[scope]
  IN  Is(\/ \E c \in FinallyCalls(code) : c.callee \in CleanupCalls
         \/ ContextsOf(code) \ (IF scope = "before" THEN {} ELSE ContextsOf(ctx.before)) # {}
         \/ scope = "before" /\ FinallyCalls(ctx.before) # {})

\* The text of a handler is its header.
Header(code, h) == <<code[h].kind, Caught(code, h)>>

Generic(ctx, code, req) ==
  LET old == {Header(ctx.before, h) : h \in Handlers(ctx.before)}
      newHandler == \E h \in Handlers(code) :
                      Header(code, h) \notin old /\ (Swallows(code, h) => "ignore" \in req.asks)
      newGuard == \E g \in RejectingGuards(code) :
                    /\ code[g].cond \notin CondsOf(ctx.before, Guards(ctx.before))
                    /\ req.names # {} => Names(code[g].cond) \cap req.names # {}
  IN  IF newHandler \/ newGuard THEN Yes ELSE UnknownOr(ctx, No)

-----------------------------------------------------------------------------
(***************************************************************************)
(* The checklist and the rule.                                             *)
(***************************************************************************)
Item(name, about) == [name |-> name, about |-> about]

Checklist(req) ==
  LET asked(name, condition) == IF condition THEN {Item(name, None)} ELSE {}
      items == {Item("catch", e) : e \in req.caught}
                 \cup {Item("raise", e) : e \in req.raised}
                 \cup asked("retry", "retry" \in req.asks)
                 \cup asked("chain", "chain" \in req.asks)
                 \cup asked("log", "log" \in req.asks)
                 \cup asked("re-raise", "re-raise" \in req.asks)
                 \cup asked("fall back", req.fallback # None /\ req.raised = {})
                 \cup asked("only", "only" \in req.asks /\ req.caught # {})
                 \cup asked("not swallowed", "not swallowed" \in req.asks /\ "ignore" \notin req.asks)
                 \cup asked("cleanup", "cleanup" \in req.asks)
  IN  IF items = {} THEN {Item("generic", None)} ELSE items

Test(item, ctx, scope, req) ==
  LET code == ctx[scope]
  IN  CASE item.name = "catch" -> Catch(ctx, code, req, item.about)
        [] item.name = "raise" -> RaisesIt(code, item.about)
        [] item.name = "retry" -> Retry(code)
        [] item.name = "chain" -> Chain(code)
        [] item.name = "log" -> Log(code, req)
        [] item.name = "re-raise" -> Reraise(code)
        [] item.name = "fall back" -> Fallback(code, req.fallback)
        [] item.name = "only" -> NoBroad(code)
        [] item.name = "not swallowed" -> NotSwallowed(code)
        [] item.name = "cleanup" -> Cleanup(ctx, scope)
        [] item.name = "generic" -> Generic(ctx, code, req)

\* The results of all items on a version of the code.
Results(req, ctx, scope) == {Test(item, ctx, scope, req) : item \in Checklist(req)}

Judged(results, earlier) ==
  IF No \in results THEN NotSatisfied
  ELSE IF Unknown \in results THEN Inconclusive
  ELSE Satisfied(results \cup earlier = {Yes})

ErrorRule(req, ctx) == Judged(Results(req, ctx, "after"), Results(req, ctx, "before"))
=============================================================================
