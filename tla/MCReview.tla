------------------------------ MODULE MCReview ------------------------------
(***************************************************************************)
(* Review on small cases, one or more per kind of request.                 *)
(***************************************************************************)
EXTENDS Review

\* Lines.
Def(f, params) == [Line("def", 0) EXCEPT !.value = f, !.uses = {f} \cup params]
Do(up, callee, args) == [Line("stmt", up) EXCEPT !.calls = {Call(callee, args)}]
Assign(up, to, from) == [Line("stmt", up) EXCEPT !.sets = to, !.uses = from]
Test1(kind, up, atom) == [Line(kind, up) EXCEPT !.cond = Cond("and", {atom})]
TestAll(kind, up, join, atoms) == [Line(kind, up) EXCEPT !.cond = Cond(join, atoms)]
Raise(up, exceptions) == [Line("raise", up) EXCEPT !.exc = exceptions]
Return(up, code) == [Line("return", up) EXCEPT !.codes = code]
Returning(up, v) == [Line("return", up) EXCEPT !.value = v]
Except(up, exceptions) == [Line("except", up) EXCEPT !.exc = exceptions]
TextLine(up, text) == [Line("stmt", up) EXCEPT !.value = text]
Comment == Line("comment", 0)

IsNone(x) == Atom("is", x, "is", 0)
NotNone(x) == Atom("is", x, "is not", 0)
Cmp(x, rel, n) == Atom("cmp", x, rel, n)
Flag(x) == Atom("name", x, "", 0)
Not(x) == Atom("not", x, "", 0)

If(atom, body) == <<Test1("if", 0, atom), body>>

\* Requests.
Saying(verb, target, category, req) ==
  X!Segment(verb, X!NoCues, target, category :> req)

NoBound == Validation!Bound("none", 0, 0)

ErrorReq(caught, protected, asks) == Errors!Request(caught, {}, {}, protected, asks, {}, None)

TestReq(words, wanted, siblings) ==
  Testing!Request("f", None, wanted, {}, {}, words, siblings, {})

StatusReq(names, codes, absence) == Api!Request(codes, names, {}, TRUE, absence)

RenameReq(old, new) ==
  [pairs |-> <<<<old, new>>>>, commentPairs |-> <<>>, target |-> None, quoted |-> <<old>>,
   suggested |-> <<>>, demanded |-> None, offered |-> None]

HeaderReq(header) ==
  [Api!Request({}, {header}, {}, FALSE, FALSE) EXCEPT !.shape = "header", !.header = header]

OtherReq(shape, old, new) ==
  [shape |-> shape, old |-> old, new |-> new, this |-> FALSE, comment |-> "note"]

\* A segment with a verb and the words that lead to its category.
Ask(verb, category, target, req) ==
  [Saying(verb, target, category, req) EXCEPT !.cues =
     CASE category = "naming" -> X!Cues({"naming"}, 0, 0, 0)
       [] category = "testing" -> X!Cues({"testing"}, 0, 0, 0)
       [] category = "api_behavior" -> X!Cues({}, 1, 0, 0)
       [] category = "error_handling" -> X!Cues({}, 0, 1, 0)
       [] category = "validation" -> X!Cues({}, 0, 0, 1)
       [] OTHER -> X!NoCues]

Known ==
  [helpers |-> "ensure" :> [param |-> "y", code |-> <<Def("ensure", {"y"}),
                              Test1("if", 1, IsNone("y")), Raise(2, {"ValueError"})>>],
   models |-> "Model" :> {"x"}, flags |-> "debug" :> FALSE,
   fixtures |-> {}, ownWords |-> {"f"},
   handlers |-> <<>>, handlersBefore |-> <<>>, span |-> 0]

Case(segments, suggestions, code, anchor) ==
  [comment |-> [sentences |-> IF segments = <<>> THEN <<>> ELSE <<X!Sentence(segments, {})>>,
                suggestions |-> suggestions],
   before |-> code, after |-> code, anchor |-> anchor, tests |-> {}, testsBefore |-> {},
   fetched |-> TRUE, broken |-> FALSE, flags |-> {}, known |-> Known]

\* def f(x): save(x)
Saving == <<Def("f", {"x"}), Do(1, "save", {"x"})>>
\* def f(x): read(x); note()
Reading == <<Def("f", {"x"}), Do(1, "read", {"x"}), Do(1, "note", {})>>
\* def f(x): try: read(x); except Timeout: log.error()
Catching == <<Def("f", {"x"}), Line("try", 1), Do(2, "read", {"x"}), Except(2, {"Timeout"}), Do(4, "log.error", {})>>
\* def f(x): try: read(x); except Exception: pass
Hiding == <<Def("f", {"x"}), Line("try", 1), Do(2, "read", {"x"}), Except(2, {"Exception"}), Line("pass", 4)>>
\* def f(x): item = x; use(item)
Looking == <<Def("f", {"x"}), Assign(1, "item", {"x"}), Do(1, "use", {"item"})>>
\* def f(x): ensure(x); save(x), where ensure rejects None
Delegating == <<Def("f", {"x"}), Do(1, "ensure", {"x"}), Do(1, "save", {"x"})>>
\* def f(x): if x is None: raise ValueError; save(x)
Guarded == <<Def("f", {"x"}), Test1("if", 1, IsNone("x")), Raise(2, {"ValueError"}), Do(1, "save", {"x"})>>
Lettered == <<Def("f", {}), TextLine(1, "a"), TextLine(1, "b")>>

NoneCheck == Ask("check", "validation", "x", Validation!Request({"x"}, {"none"}, NoBound))
RangeCheck(shape, lo, hi) ==
  Ask("check", "validation", "x",
      Validation!Request({"x"}, {"range"}, Validation!Bound(shape, lo, hi)))
CatchTimeout == Ask("catch", "error_handling", "read", ErrorReq({"Timeout"}, {"read"}, {}))
NotFound404 == Ask("return", "api_behavior", "item", StatusReq({"item"}, {404}, TRUE))
SetEtag == Ask("set", "api_behavior", "etag", HeaderReq("etag"))
RenameItem == Ask("rename", "naming", "item", RenameReq("item", "found"))
AddATest == Ask("add", "testing", "f", TestReq({"empty"}, {"empty"}, FALSE))
UseLog == Ask("use", "other", "log", OtherReq("use", "save", "log"))

ATest(n, inputs) == Testing!Test("test_a.py", n, Testing!Body({"f"}, inputs, {}, {}, TRUE))
TestOne == ATest("test_one", {"one"})
TestEmpty == ATest("test_empty", {"empty"})

MCStarts ==
  "none" :> Case(<<NoneCheck>>, <<>>, Saving, 2) @@
  "guarded" :> Case(<<NoneCheck>>, <<>>, Guarded, 4) @@
  "helped" :> Case(<<NoneCheck>>, <<>>, Delegating, 3) @@
  "range" :> Case(<<RangeCheck("at least", 2, 0)>>, <<>>, Saving, 2) @@
  "between" :> Case(<<RangeCheck("between", 1, 4)>>, <<>>, Saving, 2) @@
  "positive" :> Case(<<RangeCheck("positive", 0, 0)>>, <<>>, Saving, 2) @@
  "flow" :> Case(<<NoneCheck>>, <<>>, Saving, 2) @@
  "error" :> Case(<<CatchTimeout>>, <<>>, Reading, 2) @@
  "caught" :> Case(<<CatchTimeout>>, <<>>, Catching, 3) @@
  "hidden" :> Case(<<CatchTimeout>>, <<>>, Hiding, 3) @@
  "status" :> Case(<<NotFound404>>, <<>>, Looking, 3) @@
  "header" :> Case(<<SetEtag>>, <<>>, Saving, 2) @@
  "naming" :> Case(<<RenameItem>>, <<>>, Looking, 2) @@
  "use" :> Case(<<UseLog>>, <<>>, Saving, 2) @@
  "suggest" :> Case(<<>>, <<[lines |-> <<Other!Text("b", 1)>>, renames |-> None]>>, Lettered, 2) @@
  "tests" :> [Case(<<AddATest>>, <<>>, Saving, 2) EXCEPT !.tests = {TestOne}, !.testsBefore = {TestOne}] @@
  "covered" :> [Case(<<AddATest>>, <<>>, Saving, 2)
                  EXCEPT !.tests = {TestEmpty}, !.testsBefore = {TestEmpty}] @@
  "words" :> Case(<<>>, <<>>, Saving, 2) @@
  "shaky" :> [Case(<<NoneCheck>>, <<>>, Saving, 2) EXCEPT !.flags = {"history_rewritten"}] @@
  "broken" :> [Case(<<NoneCheck>>, <<>>, Saving, 2) EXCEPT !.broken = TRUE] @@
  "missing" :> [Case(<<NoneCheck>>, <<>>, Saving, 2) EXCEPT !.fetched = FALSE]

NoneGuards ==
  {If(IsNone("x"), Raise(1, {"ValueError"})),
   <<Test1("assert", 0, NotNone("x"))>>,
   <<TestAll("if", 0, "and", {Flag("debug"), IsNone("x")}), Raise(1, {"ValueError"})>>,
   <<Do(0, "ensure", {"x"})>>, <<Do(0, "validate", {"x"})>>,
   <<Line("return", 0)>>, <<Comment>>}

RangeGuards ==
  {If(Cmp("x", "<", 2), Raise(1, {"ValueError"})),
   If(Cmp("x", "<=", 2), Raise(1, {"ValueError"})),
   <<Test1("assert", 0, Cmp("x", ">=", 2))>>,
   <<Test1("assert", 0, Cmp("x", "<", 2))>>,
   <<TestAll("if", 0, "or", {Cmp("x", "<", 0), Cmp("x", "<", 2)}), Return(1, {})>>,
   <<TestAll("if", 0, "and", {Cmp("x", ">", 0), Cmp("x", "<", 2)}), Raise(1, {"ValueError"})>>,
   <<TestAll("if", 0, "or", {IsNone("x"), Cmp("x", "<", 2)}), Raise(1, {"ValueError"})>>}

IntervalGuards ==
  {<<TestAll("if", 0, "or", {Cmp("x", "<", 1), Cmp("x", ">", 4)}), Raise(1, {"ValueError"})>>,
   <<TestAll("if", 0, "or", {Cmp("x", "<=", 1), Cmp("x", ">", 4)}), Raise(1, {"ValueError"})>>,
   <<TestAll("assert", 0, "and", {Cmp("x", ">=", 1), Cmp("x", "<=", 4)})>>,
   If(Cmp("x", "<=", 0), Raise(1, {"ValueError"}))}

SignGuards ==
  {If(Cmp("x", rel, 0), Raise(1, {"ValueError"})) : rel \in {"<", "<=", ">"}}
    \cup {<<Test1("assert", 0, Cmp("x", ">", 0))>>}

Flows ==
  {<<Line("return", 0)>>, <<Line("break", 0)>>,
   <<Test1("if", 0, Flag("c")), Line("return", 1), Line("else", 1), Line("pass", 3)>>,
   <<Test1("while", 0, Flag("c")), Line("continue", 1)>>,
   <<Line("try", 0), Line("pass", 1), Except(1, {"E"}), Line("continue", 3), Line("else", 1), Line("return", 5)>>,
   <<Line("try", 0), Raise(1, {"E"}), Except(1, {"E"}), Line("pass", 3), Line("finally", 1), Line("pass", 5)>>}

StatusCode ==
  {If(NotNone("item"), Return(1, {404})), If(Not("item"), Return(1, {404})),
   <<Test1("if", 0, NotNone("item")), Line("pass", 1), Line("else", 1), Return(3, {404})>>,
   <<Test1("if", 0, IsNone("item")), Line("pass", 1), Line("else", 1), Return(3, {404})>>,
   <<Assign(0, "row", {"item"})>>, If(IsNone("row"), Return(1, {404})),
   <<TestAll("if", 0, "or", {Not("item"), Flag("c")}), Return(1, {404})>>}

Quoting(line, mark, header) == [line EXCEPT !.says = {<<mark, header>>}]

HeaderCode ==
  {<<Quoting(Comment, "double", "etag")>>, <<Quoting(Comment, "bare", "etag")>>, <<Comment>>,
   <<Quoting(Do(0, "set", {"x"}), "single", "etag")>>}

MCFragments ==
  [n \in DOMAIN MCStarts |->
     CASE n = "none" -> NoneGuards
       [] n \in {"missing", "shaky", "broken"} ->
            {If(IsNone("x"), Raise(1, {"ValueError"})), <<Comment>>}
       [] n = "range" -> RangeGuards
       [] n = "between" -> IntervalGuards
       [] n = "positive" -> SignGuards
       [] n = "flow" -> Flows
       [] n = "status" -> StatusCode
       [] n = "naming" -> {<<Assign(0, "found", {"x"})>>, <<Do(0, "use", {"found"})>>,
                           <<Assign(0, "item", {"found"})>>, <<Comment>>}
       [] n = "header" -> HeaderCode
       [] n = "use" -> {<<Do(0, "log", {"x"})>>, <<Do(0, "save", {"x"})>>,
                        <<Quoting(Comment, "bare", "save")>>}
       [] n \in {"error", "caught", "hidden"} -> {<<Comment>>}
       [] n = "suggest" -> {<<TextLine(0, "a")>>, <<TextLine(0, "b")>>}
       [] OTHER -> {}]

MCWrappers ==
  [n \in DOMAIN MCStarts |->
     IF n \notin {"error", "caught", "hidden"} THEN {}
     ELSE {[head |-> Line("try", 0), tail |-> <<Except(0, {"Timeout"}), Do(1, "log.error", {})>>],
           [head |-> Line("try", 0), tail |-> <<Except(0, {"Exception"}), Line("pass", 1)>>],
           [head |-> Line("try", 0), tail |-> <<Except(0, {"Timeout"}), Raise(1, {})>>],
           [head |-> [Line("with", 0) EXCEPT !.calls = {Call("suppress", {"Timeout"})}], tail |-> <<>>],
           [head |-> [Line("with", 0) EXCEPT !.calls = {Call("helper", {})}], tail |-> <<>>]}]

MCTests ==
  [n \in DOMAIN MCStarts |->
     IF n \notin {"tests", "covered"} THEN {}
     ELSE {TestOne, TestEmpty, [TestEmpty EXCEPT !.name = "test_none"],
           [TestEmpty EXCEPT !.skip = TRUE], [TestEmpty EXCEPT !.file = "other.py"],
           [TestEmpty EXCEPT !.body.expects = FALSE], [TestOne EXCEPT !.given = {"empty"}]}]

MCWords ==
  [n \in DOMAIN MCStarts |->
     IF n # "words" THEN {}
     ELSE {NoneCheck, AddATest, CatchTimeout,
           [CatchTimeout EXCEPT !.verb = "handle", !.colon = TRUE],
           [Ask("return", "other", None, OtherReq("none", None, None)) EXCEPT !.cues = X!NoCues],
           [Ask(None, "other", "x", OtherReq("none", None, None)) EXCEPT !.condition = TRUE],
           [NoneCheck EXCEPT !.contrast = TRUE]}]

MCMaxEdits ==
  [n \in DOMAIN MCStarts |->
     IF n \in {"suggest", "tests"} THEN 3 ELSE IF n \in {"caught", "hidden"} THEN 1 ELSE 2]

=============================================================================
