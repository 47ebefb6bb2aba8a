----------------------------- MODULE Extraction -----------------------------
(***************************************************************************)
(* From a review comment to requirements (requirements/extraction.py with  *)
(* the clause splitting of requirements/text.py).                          *)
(*                                                                         *)
(* A comment is a sequence of sentences and a sequence of suggestions.  A   *)
(* sentence is a sequence of segments, split where a clause may begin, and  *)
(* the signals its words give.  A segment has the request verb it starts    *)
(* with (None), the words that are cues for a category, and how the rules   *)
(* read it, by category.  What a clause says after "and that" is a segment  *)
(* with the verb of the clause.                                            *)
(***************************************************************************)
EXTENDS Integers, FiniteSets, Sequences, SequencesExt

None == "None"

\* decisive: "testing", "naming", "docs" or "return value" words, or none.
Cues(decisive, api, errors, validation) ==
  [decisive |-> decisive, api |-> api, errors |-> errors, validation |-> validation]

NoCues == Cues({}, 0, 0, 0)

\* condition: starts with if/when; colon: a colon follows; contrast: "not ..."
\* or "instead of ..."; parts: what it coordinates, with the category that
\* splits them; reads: what a rule understands by it.
Segment(verb, cues, target, reads) ==
  [verb |-> verb, cues |-> cues, target |-> target, reads |-> reads,
   condition |-> FALSE, colon |-> FALSE, contrast |-> FALSE,
   raised |-> {}, exceptions |-> {}, parts |-> <<>>]

Part(category, target, reads) == [category |-> category, target |-> target, reads |-> reads]

\* signals: question, polite, chit-chat, arrow, modal, modal verb, implied,
\* "noun, please", hedged, vague, manner, unverifiable, removal
Sentence(segments, signals) == [segments |-> segments, signals |-> signals]

-----------------------------------------------------------------------------
(***************************************************************************)
(* Clauses.                                                                *)
(***************************************************************************)
\* Two segments read as one clause.
Merged(s, t) ==
  [s EXCEPT !.cues = Cues(@.decisive \cup t.cues.decisive, @.api + t.cues.api,
                          @.errors + t.cues.errors, @.validation + t.cues.validation),
            !.raised = @ \cup t.raised, !.exceptions = @ \cup t.exceptions,
            !.target = IF @ = None THEN t.target ELSE @,
            !.colon = t.colon, !.parts = @ \o t.parts]

\* The clauses of segments of which some start a new one.
ClausesFrom(segments, starts) ==
  LET upTo[k \in 0..Len(segments)] ==
        IF k = 0 THEN <<>>
        ELSE LET clauses == upTo[k - 1]
             IN  IF clauses = <<>> \/ k \in starts THEN Append(clauses, segments[k])
                 ELSE [clauses EXCEPT ![Len(clauses)] = Merged(@, segments[k])]
  IN  upTo[Len(segments)]

\* A delimiter starts a new clause only before a request verb.
SplitClauses(segments) ==
  ClausesFrom(segments, {i \in DOMAIN segments : segments[i].verb # None /\ ~segments[i].contrast})

Whole(segments) == ClausesFrom(segments, {})[1]

-----------------------------------------------------------------------------
(***************************************************************************)
(* Categories.                                                             *)
(***************************************************************************)
ValidationExceptions == {"ValueError", "TypeError"}
ValidateVerbs == {"validate", "check", "verify", "guard"}
CatchVerbs == {"catch", "handle"}
DocsVerbs == {"add", "write", "document", "update", "include", "mention", "fix"}

\* Testing and naming words decide; then documentation, then a return value;
\* then the count of cues, ties to the more specific category; then the verb.
Categorize(clause, verb) ==
  LET cues == clause.cues
      invalid == clause.raised \cap ValidationExceptions
      errors == cues.errors + Cardinality(clause.exceptions \ invalid)
      validation == cues.validation + 2 * Cardinality(invalid)
      best == Max({cues.api, errors, validation})
      says(word) == word \in cues.decisive
  IN  IF says("testing") \/ verb = "test" THEN "testing"
      ELSE IF verb = "rename" \/ says("naming") THEN "naming"
      ELSE IF verb \in DocsVerbs \cup {None} /\ says("docs") THEN "other"
      ELSE IF says("return value") THEN "api_behavior"
      ELSE IF best = 0 THEN IF verb \in ValidateVerbs \cup {"reject"} THEN "validation" ELSE None
      ELSE IF cues.api = best THEN "api_behavior"
      ELSE IF errors = best THEN "error_handling" ELSE "validation"

-----------------------------------------------------------------------------
(***************************************************************************)
(* Sentences: what kind of utterance, and whether it asks for a change.    *)
(***************************************************************************)
Utterance(type, actionable) == [type |-> type, actionable |-> actionable]

ClassifySentence(sentence) ==
  LET says(signal) == signal \in sentence.signals
      clauses == SplitClauses(sentence.segments)
      request == \E i \in DOMAIN clauses : clauses[i].verb # None
      category == Categorize(Whole(sentence.segments), None)
  IN  IF says("chit-chat") /\ ~request /\ ~says("arrow") THEN Utterance("chit_chat", FALSE)
      ELSE IF says("question")
        THEN Utterance(IF says("polite") /\ request THEN "requirement" ELSE "question",
                       request \/ says("arrow") \/ says("modal verb") \/ says("implied")
                         \/ category # None)
      ELSE IF request \/ says("arrow") \/ says("modal verb") \/ (says("modal") /\ category # None)
                \/ says("noun, please")
        THEN Utterance(IF says("hedged") THEN "suggestion" ELSE "requirement", TRUE)
      ELSE Utterance("explanation", FALSE)

-----------------------------------------------------------------------------
(***************************************************************************)
(* Drafts: one per request clause, then one per coordinated object.        *)
(***************************************************************************)
Draft(category, target, reads) ==
  [category |-> category, target |-> target, reads |-> reads, suggested |-> <<>>]

\* A naming pair gives its target even alone; a list of subjects splits only
\* after a verb of validation; exceptions, those of the condition included,
\* when they are not raised.  (cued: the clause with its condition.)
Expand(clause, cued, category, verb) ==
  LET parts == IF category = "error_handling" THEN cued.parts ELSE clause.parts
      own == {k \in DOMAIN parts :
                /\ parts[k].category = category
                /\ category = "validation" => verb \in ValidateVerbs
                /\ category = "error_handling" => parts[k].target \notin clause.raised}
      n == Cardinality(own)
      nth(i) == parts[CHOOSE k \in own : Cardinality({j \in own : j < k}) = i - 1]
      each == [i \in 1..n |-> Draft(category, nth(i).target, nth(i).reads)]
  IN  IF n >= 2 \/ (n = 1 /\ category = "naming") THEN each
      ELSE <<Draft(category, clause.target, clause.reads)>>

\* The last category and verb of a sentence carry over to its next clause.
Progress(drafts, previous, verb, pending) ==
  [drafts |-> drafts, previous |-> previous, verb |-> verb, pending |-> pending]

\* Faulty variant: a header is skipped even when it is the only request.
IsHeaderAlways(clause, clauses) == clause.verb = "handle" /\ clause.colon

\* "Handle X properly: log it and re-raise." names the failure only.
IsHeader(clause, clauses) ==
  /\ clause.verb = "handle" /\ clause.colon
  /\ Cardinality({i \in DOMAIN clauses : clauses[i].verb # None}) > 1

\* "Catch X and return None": the return says how, and adds no requirement.
IsHandling(clause, p) ==
  /\ clause.verb = "return" /\ clause.cues.api = 0
  /\ p.previous = "error_handling" /\ p.verb \in CatchVerbs /\ p.drafts # <<>>

AddClause(p, clause, clauses, whole) ==
  LET cued == IF p.pending = <<>> THEN clause ELSE Merged(clause, p.pending[1])
      own == Categorize(cued, clause.verb)
      category == IF own # None THEN own ELSE IF p.previous # None THEN p.previous ELSE "other"
  IN  IF clause.verb = None /\ ~whole
        THEN IF clause.condition THEN [p EXCEPT !.pending = <<clause>>] ELSE p
      ELSE IF IsHeader(clause, clauses) \/ IsHandling(clause, p) THEN p
      ELSE Progress(p.drafts \o Expand(clause, cued, category, clause.verb), category, clause.verb, <<>>)

\* A sentence without a request clause is one clause as a whole.
SentenceDrafts(sentence) ==
  LET split == SplitClauses(sentence.segments)
      whole == \A i \in DOMAIN split : split[i].verb = None
      clauses == IF whole THEN <<Whole(sentence.segments)>> ELSE split
      upTo[k \in 0..Len(clauses)] ==
        IF k = 0 THEN Progress(<<>>, None, None, <<>>)
        ELSE AddClause(upTo[k - 1], clauses[k], clauses, whole)
  IN  upTo[Len(clauses)].drafts

\* A suggestion is a rename when it differs from the closest line of the code
\* in words only (renames: the word that changes, None otherwise).
SuggestionDraft(suggestion) ==
  [category |-> IF suggestion.renames # None THEN "naming" ELSE "other",
   target |-> suggestion.renames, reads |-> <<>>, suggested |-> <<suggestion.lines>>]

\* Without any request, the first sentence that calls the code superfluous.
RemovalStatement(sentences, utterances) ==
  LET saying == {i \in DOMAIN sentences :
                   ~utterances[i].actionable /\ "removal" \in sentences[i].signals}
  IN  IF saying = {} THEN 0 ELSE Min(saying)

-----------------------------------------------------------------------------
(***************************************************************************)
(* Ambiguity, in hundredths: the sum of the weights of what is unclear.    *)
(***************************************************************************)
AmbiguityThreshold == 50

Ambiguity(signals, questions, targets) ==
  LET weight(present, w) == IF present THEN w ELSE 0
  IN  Min({100, weight(questions, 50) + weight("hedged" \in signals, 35)
                + weight(targets = {None}, 20) + weight("vague" \in signals, 15)
                + weight("manner" \in signals, 30) + weight("unverifiable" \in signals, 20)})

-----------------------------------------------------------------------------
(***************************************************************************)
(* The requirement stage.                                                  *)
(***************************************************************************)
\* A target: the draft's own, or the first one anywhere in the comment.
Targeted(draft, sentences) ==
  LET all == FlattenSeq([i \in DOMAIN sentences |-> sentences[i].segments])
      named == SelectSeq(all, LAMBDA s : s.target # None)
  IN  IF draft.target # None \/ named = <<>> THEN draft
      ELSE [draft EXCEPT !.target = named[1].target]

RequirementSet(requirements, actionable, ambiguity) ==
  [requirements |-> requirements, actionable |-> actionable, ambiguity |-> ambiguity]

\* The drafts of what the sentences ask for, and those of the suggestions.
Asked(comment, stated) ==
  FlattenSeq([i \in DOMAIN comment.sentences |->
    IF stated[i].actionable THEN SentenceDrafts(comment.sentences[i]) ELSE <<>>])
  \o [k \in DOMAIN comment.suggestions |-> SuggestionDraft(comment.suggestions[k])]

\* How unclear the sentences are that ask, one of which may be a removal.
AmbiguityOf(sentences, stated, removal, requirements) ==
  LET actionable == {i \in DOMAIN sentences : stated[i].actionable \/ i = removal}
  IN  Ambiguity(UNION {sentences[i].signals : i \in actionable},
                \E i \in actionable : stated[i].type = "question" /\ i # removal,
                {requirements[k].target : k \in DOMAIN requirements})

Concluded(sentences, stated, removal, requirements) ==
  IF requirements = <<>> THEN RequirementSet(<<Draft("other", None, <<>>)>>, FALSE, 100)
  ELSE RequirementSet(requirements, TRUE, AmbiguityOf(sentences, stated, removal, requirements))

RequirementsOf(sentences, stated, asked, removal) ==
  LET drafts == IF removal = 0 THEN asked
                ELSE <<Draft("other", None, Whole(sentences[removal].segments).reads)>>
  IN  Concluded(sentences, stated, removal,
                [k \in DOMAIN drafts |-> Targeted(drafts[k], sentences)])

FromDrafts(sentences, stated, asked) ==
  RequirementsOf(sentences, stated, asked,
                 IF asked = <<>> THEN RemovalStatement(sentences, stated) ELSE 0)

FromUtterances(comment, stated) ==
  FromDrafts(comment.sentences, stated, Asked(comment, stated))

ExtractRequirements(comment) ==
  FromUtterances(comment,
    [i \in DOMAIN comment.sentences |-> ClassifySentence(comment.sentences[i])])
=============================================================================
