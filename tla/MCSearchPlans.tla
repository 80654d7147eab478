--------------------------- MODULE MCSearchPlans ---------------------------
EXTENDS SearchPlans

\* One word of each entry of the lexicon, and the entries whose terms share
\* words with each other or with a method.
OneOfEach == {CHOOSE w \in v[1] : TRUE : v \in Vocabulary}
Colliding == {"demand", "schedule", "workflow", "allocation", "energy", "solar",
              "payment", "recommend", "doctor", "retail"}

\* Every industry of the table, none, and some it does not have.
Unmapped == {<<"travel">>, <<"recommender">>, <<"payment", "kiosks">>,
             <<"predictive", "modelling">>, <<"energy", "systems">>,
             <<"it", "systems">>, <<"real", "", "estate">>}
AllIndustries == {<<>>} \cup DOMAIN IndustryLexicon \cup Unmapped

\* The words of the templates, of their families, and others of each kind:
\* recognised, unknown, and dropped by one filter or by both.
TopicPool == {"problems", "challenges", "software", "platform", "best", "tools",
              "waste", "tattoo", "transportation", "hard", "india", "how"}

Opportunity(p, d, i) ==
    [kind |-> "opportunity", problem |-> p, description |-> d, industry |-> i,
     researchModel |-> FALSE, webModel |-> FALSE]

Investigation(p, i, m, w) ==
    [kind |-> "investigation", problem |-> p, description |-> p, industry |-> i,
     researchModel |-> m, webModel |-> w]

MCSubjects ==
    {Opportunity(<<v, w>>, <<"it", "is", "hard">>, <<>>) : v, w \in OneOfEach}
    \cup {Opportunity(<<"tattoo", v>>, d, i) :
             v \in Colliding \cup {"ink"}, d \in {<<"payment">>, <<"still", "ink">>},
             i \in AllIndustries}
    \cup {Investigation(<<v, w>>, i, TRUE, FALSE) :
             v, w \in Colliding, i \in AllIndustries}
    \cup {Investigation(<<v>>, i, m, FALSE) :
             v \in {"tattoo", "hard", "how"}, i \in AllIndustries, m \in BOOLEAN}
    \cup {Investigation(<<u, v, w>>, <<"retail">>, FALSE, m) :
             u, v, w \in TopicPool, m \in BOOLEAN}

\* What the models may answer.
Topics == {<<"ink", "migration">>, <<"migration", "ink">>, <<"skin", "imaging">>,
           <<"pigment", "toxicology", "assays">>, <<"travel", "systems">>,
           <<"tattoo", "platform">>, <<"ink", "ink">>, <<"ink">>, <<>>,
           <<"a", "system", "that", "helps", "people", "find", "ink">>}

MCResearchAnswers ==
    [queries : {<<<<"ink", "migration">>, p, q>> : p, q \in Topics}
               \cup {<<p, <<"skin", "imaging">>, <<"ink", "migration">>,
                       <<"laser", "removal">>>> : p \in Topics}
               \cup {<<>>},
     concepts : {<<>>, <<<<"travel", "systems">>, <<>>>>,
                 <<<<"travel", "systems">>, <<"dermatology">>>>}]

Complaint == {<<"ink", "problems">>, <<"why", "ink", "fades">>,
              <<"ink", "fading">>, <<>>}
Offer == {<<"ink", "software">>, <<"tattoo", "apps">>, <<"software", "ink">>}

MCWebAnswers ==
    [demand : {<<p, q>> : p, q \in Complaint}
              \cup {<<<<"ink", "problems">>>>,
                    <<<<"ink", "problems">>, <<"ink", "waste">>, <<"ink", "errors">>,
                      <<"ink", "pain">>>>},
     competitors : {<<p, q>> : p, q \in Offer}]
=============================================================================
