---------------------------- MODULE SearchPlans ----------------------------
(***************************************************************************)
(* The plan of searches a run may buy, made and judged before any provider *)
(* is contacted: app/research_intelligence/query_generation.py, the gate   *)
(* of app/research_intelligence/enrichment.py, app/investigations/         *)
(* planning.py and app/integrations/openai/query_generator.py.             *)
(*                                                                         *)
(* Each family of searches is planned from tables first and by a model     *)
(* only when that plan is refused; the tables are SearchVocabulary.  What  *)
(* a model answers is chosen from a set, so it may answer anything there.  *)
(*                                                                         *)
(* A query is the sequence of its words: lower case and single spaces are  *)
(* what normalize_query leaves of it.  A subject's text is what lies       *)
(* between its separators: other separators than a single space or a       *)
(* table's own, which only the look-up of a whole industry can tell, leave *)
(* an empty word, as "Real-Estate" does, <<"real", "", "estate">>.         *)
(*                                                                         *)
(* The cap of 512 characters of a research query is left out: it is asked  *)
(* only of queries made from the tables, which come nowhere near it.       *)
(* A subject carries the models it is planned with: in production a        *)
(* research model is there when an API key is, and a web model never; the  *)
(* port for one is exercised by the tests.                                 *)
(***************************************************************************)
EXTENDS SearchVocabulary, Naturals, FiniteSets, SequencesExt

CONSTANTS
    Subjects,         \* what a run may be asked to research
    ResearchAnswers,  \* what the research model may answer
    WebAnswers,       \* what a web model may answer
    MaxQueryChars,    \* characters of a web query
    NoPlan

Text == Seq(STRING)

ResearchSubject ==
    [kind : {"opportunity", "investigation"},
     problem : Text, description : Text, industry : Text,
     researchModel : BOOLEAN, webModel : BOOLEAN]

ASSUME SubjectsAssumption == Subjects \subseteq ResearchSubject

ASSUME AnswersAssumption ==
    /\ ResearchAnswers \subseteq [queries : Seq(Text), concepts : Seq(Text)]
    /\ WebAnswers \subseteq [demand : Seq(Text), competitors : Seq(Text)]
    /\ NoPlan \notin [queries : Seq(Text), concepts : Seq(Text)]
    /\ NoPlan \notin [demand : Seq(Text), competitors : Seq(Text)]
    /\ MaxQueryChars \in Nat

VARIABLES
    subject,   \* the problem, its industry (<<>>: none) and the models wired
    stage,     \* what the run does next
    research,  \* ResearchQueryPlan
    web,       \* the demand and competitor families
    outcome,   \* how the run ended
    bought     \* the plan the providers were given

vars == <<subject, stage, research, web, outcome, bought>>

-----------------------------------------------------------------------------
Words(q) == ToSet(q)
RepeatsAToken(q) == Cardinality(Words(q)) # Len(q)

\* Jaccard over word sets, against NEAR_DUPLICATE_THRESHOLD = 0.8.
NearDuplicate(p, q) ==
    /\ p # <<>> /\ q # <<>>
    /\ 10 * Cardinality(Words(p) \cap Words(q))
         >= 8 * Cardinality(Words(p) \cup Words(q))

\* The positions of a list of n that are kept, from the first to the last:
\* those in ok that clash with none kept before.
Chosen(n, ok, clash) ==
    LET chosen[i \in 0 .. n] ==
            IF i = 0 THEN {}
            ELSE IF i \in ok /\ \A k \in chosen[i - 1] : <<k, i>> \notin clash
            THEN chosen[i - 1] \cup {i}
            ELSE chosen[i - 1]
    IN  chosen[n]

\* What a list holds at some of its positions, in its order.
At(list, positions) ==
    LET kept[i \in 0 .. Len(list)] ==
            IF i = 0 THEN <<>>
            ELSE IF i \in positions THEN Append(kept[i - 1], list[i])
            ELSE kept[i - 1]
    IN  kept[Len(list)]

Sift(list, ok, clash) == At(list, Chosen(Len(list), ok, clash))
First(n, list) == SubSeq(list, 1, IF Len(list) < n THEN Len(list) ELSE n)

\* A list without what it has held before, and without what is not wanted.
Distinct(ts) ==
    Sift(ts, DOMAIN ts, {p \in (DOMAIN ts) \X (DOMAIN ts) : ts[p[1]] = ts[p[2]]})

Keep(list, wanted) == At(list, {i \in DOMAIN list : list[i] \in wanted})

\* tokenize of query_generation.py, and the filter of a web topic.
Tokens(text) ==
    Keep(text, {w \in Words(text) : Len(w) > 2 /\ w \notin Stopwords})
TopicWords(text) ==
    Keep(text, {w \in Words(text) : Len(w) > 2 /\ w \notin QueryStopwords})

-----------------------------------------------------------------------------
\* ConceptQueryGenerator
QueriesPerOpportunity == 3

Recognised(text) ==
    LET known == Keep(Tokens(text), DOMAIN Lexicon)
    IN  [i \in DOMAIN known |-> Lexicon[known[i]]]

\* An industry without an entry is still a real subject word.
IndustryTerms(industry) ==
    IF industry \in DOMAIN IndustryLexicon THEN IndustryLexicon[industry]
    ELSE LET tokens == Tokens(industry) IN
         [i \in DOMAIN tokens |->
             IF tokens[i] \in DOMAIN Lexicon THEN Lexicon[tokens[i]]
             ELSE <<tokens[i], "systems">>]

DomainTerms(s) == Distinct(Recognised(s.problem) \o Recognised(s.description)
                             \o IndustryTerms(s.industry))

\* Defect: no fallback angles for a thin context.
CandidateAngles(terms) ==
    LET term(i) == terms[(i % Len(terms)) + 1]
        with(t, method) == t \o MethodTerms[method]
    IN  <<IF Len(terms) > 1 THEN term(0) \o term(1) ELSE with(term(0), 1),
          with(term(1), 1), with(term(2), 2)>>

CandidateQueries(terms) ==
    LET term(i) == terms[(i % Len(terms)) + 1]
        with(t, method) == t \o MethodTerms[method]
    IN  <<IF Len(terms) > 1 THEN term(0) \o term(1) ELSE with(term(0), 1),
          with(term(1), 1), with(term(2), 2),
          with(term(0), 2), with(term(0), 3), with(term(0), 4)>>

\* The first three that are no blank, no repetition and near none before.
SelectQueries(candidates) ==
    LET usable == {i \in DOMAIN candidates :
                      candidates[i] # <<>> /\ ~RepeatsAToken(candidates[i])}
        near == {p \in (DOMAIN candidates) \X (DOMAIN candidates) :
                      NearDuplicate(candidates[p[1]], candidates[p[2]])}
    IN  First(QueriesPerOpportunity, Sift(candidates, usable, near))

\* NoPlan: ResearchQueryGenerationError.
ConceptPlan(s) ==
    LET terms == DomainTerms(s)
        queries == SelectQueries(CandidateQueries(terms))
    IN  IF terms = <<>> \/ Len(queries) < QueriesPerOpportunity THEN NoPlan
        ELSE [queries |-> queries, concepts |-> terms]

-----------------------------------------------------------------------------
\* validate_plan of enrichment.py
IsFallbackConcept(c) ==
    /\ Len(c) > 1 /\ c[Len(c)] = "systems"
    /\ c \notin RealSystemsConcepts

ValidResearch(plan) ==
    /\ plan # NoPlan
    /\ plan.queries # <<>>
    /\ \A q \in ToSet(plan.queries) : q # <<>> /\ ~RepeatsAToken(q)
    /\ \E c \in ToSet(plan.concepts) : ~IsFallbackConcept(c)

\* _clean_queries: what is kept of a model's queries, in its order.
Usable(q, industry) ==
    /\ Len(q) \in 2 .. 6
    /\ ~RepeatsAToken(q)
    /\ Words(q) \cap MarketingTerms = {}
    /\ industry # <<>> => ~ Words(q) \subseteq Words(industry) \cup GenericTailWords
    /\ ~(q[Len(q)] \in GenericTailWords /\ Len(q) = 2)

CleanQueries(queries, industry) ==
    LET usable == {i \in DOMAIN queries : Usable(queries[i], industry)}
        same == {p \in (DOMAIN queries) \X (DOMAIN queries) :
                    Words(queries[p[1]]) = Words(queries[p[2]])}
    IN  Sift(queries, usable, same)

CleanConcepts(concepts) == Distinct(Keep(concepts, ToSet(concepts) \ {<<>>}))

\* Defect: the answer is taken as it came.
ModelPlanRaw(answer, s) == answer

\* NoPlan: LlmQueryPlanError.
ModelPlan(answer, s) ==
    LET plan == [queries |-> CleanQueries(answer.queries, s.industry),
                 concepts |-> CleanConcepts(answer.concepts)]
    IN  IF Len(plan.queries) = QueriesPerOpportunity /\ plan.concepts # <<>>
        THEN plan ELSE NoPlan

-----------------------------------------------------------------------------
\* What the searches rely on in the tables.  TLC evaluates it over every
\* entry; nothing is proved from the entries themselves.
TableTerms ==
    {Lexicon[w] : w \in DOMAIN Lexicon}
        \cup UNION {ToSet(IndustryLexicon[i]) : i \in DOMAIN IndustryLexicon}

\* The methods the first term is completed with, and the terms they repeat.
Angles == 2 .. 4
Repeats(t, m) == Words(t) \cap Words(MethodTerms[m]) # {}

ASSUME WordsAssumption ==
    /\ TableTerms \cup ToSet(MethodTerms) \subseteq Text
    /\ {"systems", "problems", "challenges", "why", "is", "so", "difficult",
        "software", "platform", "best", "tools"} \subseteq STRING
    /\ \A w \in DOMAIN Lexicon : Len(w) > 2 /\ w \notin Stopwords
    /\ \A i \in DOMAIN IndustryLexicon : IndustryLexicon[i] \in Seq(Text) \ {<<>>}

\* A term is two or three words that name a subject of their own; one that
\* repeats a method leaves the first term two more methods, and a second term
\* that is an optimization already has nothing in common with it.
ASSUME TermsAssumption ==
    \A t \in TableTerms :
        /\ Len(t) \in 2 .. 3 /\ ~RepeatsAToken(t) /\ ~IsFallbackConcept(t)
        /\ \A m, n \in Angles : Repeats(t, m) /\ Repeats(t, n) => m = n
        /\ Repeats(t, 1) => \A m \in Angles : ~Repeats(t, m)
        /\ \A u \in TableTerms, m \in Angles :
              /\ Repeats(t, m) /\ Repeats(u, 1) => Words(t) \cap Words(u) = {}
              /\ Len(t) = 2 /\ Len(u) = 3 =>
                    ~ Words(u) \subseteq Words(t) \cup Words(MethodTerms[m])

-----------------------------------------------------------------------------
\* TemplateWebQueryGenerator
Topic(s) ==
    LET words == TopicWords(s.problem)
        broad == IF Len(words) < 2 THEN words \o TopicWords(s.industry) ELSE words
    IN  First(3, Distinct(broad))

\* NoPlan: no searchable topic.
TemplatePlan(s) ==
    LET t == Topic(s) IN
    IF Len(t) < 2 THEN NoPlan
    ELSE [demand |-> <<t \o <<"problems">>, t \o <<"challenges">>,
                       <<"why", "is">> \o t \o <<"so", "difficult">>>>,
          competitors |-> <<t \o <<"software">>, t \o <<"platform">>,
                            <<"best">> \o t \o <<"tools">>>>]

\* A query is its words and the spaces between them.
ASSUME LengthsAssumption ==
    /\ \A s \in Subjects : \A w \in Words(s.problem \o s.industry) : Len(w) \in Nat
    /\ \A w \in {"why", "is", "so", "difficult", "problems", "challenges",
                "software", "platform", "best", "tools"} :
          Len(w) \in Nat /\ Len(w) < Len("why is  so difficult")
    /\ Len("why") + Len("is") + Len("so") + Len("difficult") + 4 = Len("why is  so difficult")
    /\ Len("best") + Len("tools") + 2 <= Len("why is  so difficult")

Chars(q) ==
    LET upto[i \in 0 .. Len(q)] == IF i = 0 THEN 0 ELSE upto[i - 1] + Len(q[i])
    IN  upto[Len(q)] + Len(q) - 1

\* validate_web_family
ValidFamily(queries, markers) ==
    /\ Len(queries) \in 2 .. 3
    /\ \A q \in ToSet(queries) :
          q # <<>> /\ Chars(q) <= MaxQueryChars /\ Words(q) \cap markers # {}
    /\ \A i, j \in DOMAIN queries : i < j => ~NearDuplicate(queries[i], queries[j])

\* Defect: the competitor family is judged by the demand markers too.
ValidByOneList(plan) ==
    /\ plan # NoPlan
    /\ ValidFamily(plan.demand, DemandMarkers)
    /\ ValidFamily(plan.competitors, DemandMarkers)

ValidWeb(plan) ==
    /\ plan # NoPlan
    /\ ValidFamily(plan.demand, DemandMarkers)
    /\ ValidFamily(plan.competitors, CompetitorMarkers)

\* validate_plan of planning.py
Acceptable(plan, families) ==
    /\ Len(plan.queries) = 3
    /\ ValidWeb(families)
    /\ Len(families.demand) + Len(families.competitors) <= 6

LocaleFor(s) ==
    IF Words(s.problem \o s.description \o s.industry) \cap IndiaMarkers # {}
    THEN "in" ELSE "us"

-----------------------------------------------------------------------------
Init == /\ subject \in Subjects
        /\ stage = "research"
        /\ research = NoPlan
        /\ web = NoPlan
        /\ outcome = "none"
        /\ bought = NoPlan

\* _fail of the run: nothing is searched.
End(how) == /\ stage' = "ended"
            /\ outcome' = how
            /\ UNCHANGED bought

\* An opportunity's plan is its research; an investigation has web families.
Planned(plan) ==
    /\ research' = plan
    /\ stage' = IF subject.kind = "opportunity" THEN "search" ELSE "web"
    /\ UNCHANGED <<outcome, bought>>

PlanResearch ==
    /\ stage = "research"
    /\ UNCHANGED <<subject, web>>
    /\ LET plan == ConceptPlan(subject) IN
       \/ ValidResearch(plan) /\ Planned(plan)
       \/ /\ ~ValidResearch(plan)
          /\ subject.researchModel
          /\ stage' = "ask_research"
          /\ UNCHANGED <<research, outcome, bought>>
       \/ /\ ~ValidResearch(plan)
          /\ ~subject.researchModel
          /\ UNCHANGED research
          /\ End("unavailable")

\* Defect: what the model answers is not judged.
AskUngated ==
    /\ stage = "ask_research"
    /\ UNCHANGED <<subject, web>>
    /\ \/ \E answer \in ResearchAnswers :
            LET plan == ModelPlan(answer, subject) IN
            \/ plan # NoPlan /\ Planned(plan)
            \/ plan = NoPlan /\ UNCHANGED research /\ End("unavailable")
       \/ UNCHANGED research /\ End("provider_error")

\* The model's answer, judged by the same gate.
AskResearchModel ==
    /\ stage = "ask_research"
    /\ UNCHANGED <<subject, web>>
    /\ \/ \E answer \in ResearchAnswers :
            LET plan == ModelPlan(answer, subject) IN
            \/ ValidResearch(plan) /\ Planned(plan)
            \/ /\ ~ValidResearch(plan)
               /\ UNCHANGED research
               /\ End("unavailable")
       \/ UNCHANGED research /\ End("provider_error")

PlanWeb ==
    /\ stage = "web"
    /\ UNCHANGED <<subject, research>>
    /\ LET plan == TemplatePlan(subject) IN
       \/ /\ ValidWeb(plan)
          /\ web' = plan
          /\ stage' = "assemble"
          /\ UNCHANGED <<outcome, bought>>
       \/ /\ ~ValidWeb(plan)
          /\ subject.webModel
          /\ stage' = "ask_web"
          /\ UNCHANGED <<web, outcome, bought>>
       \/ /\ ~ValidWeb(plan)
          /\ ~subject.webModel
          /\ UNCHANGED web
          /\ End("rejected")

\* A web model's answer, judged by the same gate.  What it raises nobody here
\* catches: whatever execute_run makes of it, the run ends with no web plan.
AskWebModel ==
    /\ stage = "ask_web"
    /\ UNCHANGED <<subject, research>>
    /\ \/ \E plan \in WebAnswers :
            \/ /\ ValidWeb(plan)
               /\ web' = plan
               /\ stage' = "assemble"
               /\ UNCHANGED <<outcome, bought>>
            \/ /\ ~ValidWeb(plan)
               /\ UNCHANGED web
               /\ End("rejected")
       \/ UNCHANGED web /\ End("web_error")

Assemble ==
    /\ stage = "assemble"
    /\ stage' = IF Acceptable(research, web) THEN "search" ELSE "ended"
    /\ outcome' = IF Acceptable(research, web) THEN outcome ELSE "rejected"
    /\ UNCHANGED <<subject, research, web, bought>>

\* Defect: the engine is handed the research plan alone.
SearchResearchOnly ==
    /\ stage = "search"
    /\ bought' = research
    /\ stage' = "ended"
    /\ outcome' = "searched"
    /\ UNCHANGED <<subject, research, web>>

\* _FixedPlanGenerator: the engine is handed the plan that was judged.
Search ==
    /\ stage = "search"
    /\ bought' = [research |-> research, web |-> web, locale |-> LocaleFor(subject)]
    /\ stage' = "ended"
    /\ outcome' = "searched"
    /\ UNCHANGED <<subject, research, web>>

Ended == stage = "ended" /\ UNCHANGED vars

Next == \/ PlanResearch \/ AskResearchModel
        \/ PlanWeb \/ AskWebModel
        \/ Assemble \/ Search
        \/ Ended

Spec == Init /\ [][Next]_vars

-----------------------------------------------------------------------------
Plans == {NoPlan} \cup [queries : Seq(Text), concepts : Seq(Text)]
Families == {NoPlan} \cup [demand : Seq(Text), competitors : Seq(Text)]

\* Type invariant.
TypeOK ==
    /\ subject \in ResearchSubject
    /\ stage \in {"research", "ask_research", "web", "ask_web", "assemble",
                  "search", "ended"}
    /\ research \in Plans
    /\ web \in Families
    /\ outcome \in {"none", "unavailable", "provider_error", "web_error", "rejected",
                    "searched"}
    /\ bought \in {NoPlan} \cup
           [research : Plans, web : Families, locale : {"in", "us"}]

\* No provider job is bought for a plan its gate would refuse, whichever of
\* the table or the model wrote it: build_plan_with_fallback and
\* _generate_web_families judge both stages.
GatedBeforeBought ==
    bought # NoPlan =>
        /\ ValidResearch(bought.research)
        /\ subject.kind = "investigation" =>
              /\ ValidFamily(bought.web.demand, DemandMarkers)
              /\ ValidFamily(bought.web.competitors, CompetitorMarkers)
              /\ Len(bought.web.demand) + Len(bought.web.competitors) <= 6

\* The research a run pays for is three searches of different words:
\* select_queries and _clean_queries, no gate, see to it.
ThreeDifferentSearches ==
    bought # NoPlan =>
        /\ Len(bought.research.queries) = 3
        /\ \A i, j \in 1 .. 3 :
              i < j => Words(bought.research.queries[i]) # Words(bought.research.queries[j])

\* The model is or would be asked for the research of this subject.
ModelNeeded == stage = "ask_research" \/ outcome \in {"unavailable", "provider_error"}

\* A subject the tables know: a word of the lexicon, or an industry of theirs.
Known(s) == \/ Words(s.problem \o s.description \o s.industry) \cap DOMAIN Lexicon # {}
            \/ s.industry \in DOMAIN IndustryLexicon

\* The words the generator adds to the terms it found.
AddedWords == {"systems"} \cup UNION {ToSet(MethodTerms[i]) : i \in DOMAIN MethodTerms}

\* "The model is reached only for the problems whose wording matched no
\* research vocabulary" (build_plan_with_fallback), as far as it is so: one
\* recognised word, or a known industry, is enough for three searches that the
\* gate accepts, unless the industry, unknown as a whole, is named with a word
\* that the generator adds itself: "systems systems" is no search.
KnownWordingIsServed ==
    ModelNeeded =>
        \/ ~Known(subject)
        \/ /\ subject.industry \notin DOMAIN IndustryLexicon
           /\ Words(subject.industry) \cap AddedWords # {}

\* A topic too thin, too long, or made of the templates' own words: with
\* those two of its queries are the same search.
HardTopic(s) ==
    LET topic == Words(Topic(s)) IN
    \/ Cardinality(topic) < 2
    \/ {"problems", "challenges"} \subseteq topic
    \/ {"software", "platform"} \subseteq topic
    \/ {"best", "tools"} \subseteq topic /\ topic \cap {"software", "platform"} # {}
    \/ Chars(Topic(s)) + Len("why is  so difficult") > MaxQueryChars

\* The templates of TemplateWebQueryGenerator serve every other topic; of the
\* hard ones no model is asked in production, and the run is refused.
TemplatesServeTheRest ==
    stage = "ask_web" \/ outcome = "rejected" => HardTopic(subject)
=============================================================================
