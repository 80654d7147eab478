-------------------------- MODULE SearchVocabulary --------------------------
(***************************************************************************)
(* The tables the search plans are built from, entry by entry:             *)
(* app/research_intelligence/query_generation.py,                          *)
(* app/investigations/planning.py and                                      *)
(* app/integrations/openai/query_generator.py.  A text is the sequence of  *)
(* its lower-case words; a term and a query are texts.                     *)
(***************************************************************************)
EXTENDS Sequences

\* The words both token filters drop: research queries, then web topics.
Stopwords == {
    "a", "about", "all", "an", "and", "any", "are", "as", "at", "bad", "be",
    "been", "being", "both", "but", "by", "can", "cannot", "could", "did",
    "do", "does", "doing", "each", "easily", "easy", "few", "for", "from",
    "get", "gets", "getting", "good", "had", "hard", "harder", "has", "have",
    "he", "her", "his", "how", "i", "if", "in", "into", "is", "it", "its",
    "just", "like", "make", "makes", "making", "more", "most", "my", "need",
    "needed", "needs", "new", "no", "nor", "not", "of", "old", "on", "only",
    "or", "other", "others", "our", "over", "own", "same", "she", "should",
    "so", "some", "such", "than", "that", "the", "their", "them", "then",
    "there", "these", "they", "this", "those", "through", "to", "too",
    "under", "use", "used", "using", "very", "want", "wants", "was", "we",
    "were", "what", "when", "where", "which", "who", "whom", "why", "will",
    "with", "would", "you", "your"}

QueryStopwords == {
    "a", "an", "and", "are", "at", "be", "been", "being", "but", "by", "can",
    "cannot", "did", "do", "does", "for", "from", "get", "got", "had", "has",
    "have", "how", "i", "if", "in", "into", "is", "it", "its", "me", "my",
    "no", "not", "of", "on", "or", "our", "over", "so", "still", "than",
    "that", "the", "their", "them", "then", "there", "these", "they", "this",
    "those", "to", "was", "we", "were", "what", "when", "who", "why", "with",
    "you", "your"}

\* Pain vocabulary and the term the literature publishes it under.
Vocabulary == {
    <<{"cargo","freight","tempo"},<<"urban","freight">>>>,
    <<{"truck","trucks"},<<"freight","transport">>>>,
    <<{"shipping"},<<"freight","logistics">>>>,
    <<{"delivery","deliveries","courier"},<<"last-mile","delivery">>>>,
    <<{"warehouse"},<<"warehouse","operations">>>>,
    <<{"fleet"},<<"fleet","management">>>>,
    <<{"vehicle","vehicles","route","routing"},<<"vehicle","routing">>>>,
    <<{"driver","drivers","dispatch"},<<"driver","dispatch">>>>,
    <<{"ride"},<<"ride","sharing">>>>, <<{"traffic"},<<"traffic","flow">>>>,
    <<{"transport","transportation"},<<"transportation","networks">>>>,
    <<{"mobility"},<<"urban","mobility">>>>,
    <<{"booking","book","reservation"},<<"on-demand","allocation">>>>,
    <<{"match","matching"},<<"matching","markets">>>>,
    <<{"marketplace"},<<"two-sided","markets">>>>,
    <<{"price","prices","pricing","fare"},<<"dynamic","pricing">>>>,
    <<{"negotiate"},<<"automated","negotiation">>>>,
    <<{"transparency"},<<"market","transparency">>>>,
    <<{"auction"},<<"auction","design">>>>,
    <<{"payment","payments"},<<"payment","systems">>>>,
    <<{"invoice","billing"},<<"billing","automation">>>>,
    <<{"credit"},<<"credit","risk","modelling">>>>,
    <<{"loan","lending"},<<"credit","scoring">>>>,
    <<{"fraud"},<<"fraud","detection">>>>,
    <<{"settlement"},<<"payment","settlement">>>>,
    <<{"inventory","stock"},<<"inventory","management">>>>,
    <<{"supply"},<<"supply","chain">>>>,
    <<{"demand"},<<"demand","forecasting">>>>,
    <<{"schedule","scheduling"},<<"scheduling","optimization">>>>,
    <<{"queue","waiting"},<<"queueing","theory">>>>,
    <<{"capacity"},<<"capacity","planning">>>>,
    <<{"allocation"},<<"resource","allocation">>>>,
    <<{"workflow"},<<"process","optimization">>>>,
    <<{"patient","patients"},<<"clinical","workflow">>>>,
    <<{"doctor"},<<"clinical","decision","support">>>>,
    <<{"diagnosis"},<<"clinical","diagnosis">>>>,
    <<{"hospital"},<<"healthcare","operations">>>>,
    <<{"student","students"},<<"learning","analytics">>>>,
    <<{"teacher"},<<"education","technology">>>>,
    <<{"course"},<<"curriculum","modelling">>>>,
    <<{"farm","farmer"},<<"precision","agriculture">>>>,
    <<{"crop"},<<"crop","yield","prediction">>>>,
    <<{"soil"},<<"soil","monitoring">>>>,
    <<{"energy"},<<"energy","systems">>>>, <<{"grid"},<<"smart","grid">>>>,
    <<{"solar"},<<"renewable","energy","forecasting">>>>,
    <<{"rent","rental"},<<"housing","markets">>>>,
    <<{"property"},<<"real","estate","analytics">>>>,
    <<{"retail"},<<"retail","demand">>>>,
    <<{"customer","customers"},<<"customer","behaviour","modelling">>>>,
    <<{"recommend","recommendation"},<<"recommender","systems">>>>,
    <<{"search"},<<"information","retrieval">>>>,
    <<{"document"},<<"document","understanding">>>>,
    <<{"support"},<<"service","operations">>>>,
    <<{"waste"},<<"waste","management">>>>,
    <<{"water"},<<"water","resource","management">>>>}

Lexicon == [w \in UNION {v[1] : v \in Vocabulary} |->
             (CHOOSE v \in Vocabulary : w \in v[1])[2]]

\* What an industry contributes; an industry is looked up as a whole, in lower
\* case and with the separators that the table's entry has.
Sectors == {
    <<{<<"logistics">>},
        <<<<"urban","logistics">>,<<"freight","transport">>>>>>,
    <<{<<"transportation">>},
        <<<<"transportation","networks">>,<<"urban","mobility">>>>>>,
    <<{<<"mobility">>},<<<<"urban","mobility">>,<<"vehicle","routing">>>>>>,
    <<{<<"fintech">>},
        <<<<"financial","technology">>,<<"payment","systems">>>>>>,
    <<{<<"finance">>},
        <<<<"financial","technology">>,<<"credit","risk","modelling">>>>>>,
    <<{<<"banking">>},
        <<<<"payment","systems">>,<<"credit","risk","modelling">>>>>>,
    <<{<<"insurance">>},
        <<<<"risk","modelling">>,<<"actuarial","analytics">>>>>>,
    <<{<<"healthcare">>},
        <<<<"healthcare","operations">>,<<"clinical","decision","support">>>>>>,
    <<{<<"health">>},
        <<<<"healthcare","operations">>,<<"clinical","workflow">>>>>>,
    <<{<<"education">>},
        <<<<"education","technology">>,<<"learning","analytics">>>>>>,
    <<{<<"agriculture">>},
        <<<<"precision","agriculture">>,<<"crop","yield","prediction">>>>>>,
    <<{<<"energy">>},<<<<"energy","systems">>,<<"smart","grid">>>>>>,
    <<{<<"retail">>},<<<<"retail","demand">>,<<"inventory","management">>>>>>,
    <<{<<"ecommerce">>,<<"e","commerce">>},
        <<<<"online","marketplaces">>,<<"recommender","systems">>>>>>,
    <<{<<"real","estate">>},
        <<<<"real","estate","analytics">>,<<"housing","markets">>>>>>,
    <<{<<"manufacturing">>},
        <<<<"production","scheduling">>,<<"industrial","optimization">>>>>>,
    <<{<<"b2b","services">>},
        <<<<"service","operations">>,<<"process","optimization">>>>>>,
    <<{<<"saas">>},<<<<"software","analytics">>,<<"service","operations">>>>>>,
    <<{<<"media">>},
        <<<<"content","recommendation">>,<<"information","retrieval">>>>>>,
    <<{<<"telecom">>},
        <<<<"network","optimization">>,<<"resource","allocation">>>>>>}

IndustryLexicon == [i \in UNION {s[1] : s \in Sectors} |->
                     (CHOOSE s \in Sectors : i \in s[1])[2]]

MethodTerms == <<<<"optimization">>, <<"demand","forecasting">>,
                 <<"resource","allocation">>, <<"predictive","modelling">>>>

\* Terms of the literature that have the shape of an industry's name.
RealSystemsConcepts == {
    <<"payment","systems">>, <<"energy","systems">>,
    <<"recommender","systems">>,
    <<"clinical","decision","support","systems">>}

\* What a web query must, and a model's research query must not, contain.
DemandMarkers == {
    "challenge", "challenges", "complaint", "complaints", "difficulties",
    "difficulty", "errors", "frustration", "issue", "issues", "losing",
    "manual", "mistakes", "pain", "problem", "problems", "struggle",
    "struggles", "struggling", "waste", "why"}

CompetitorMarkers == {
    "alternatives", "app", "apps", "automation", "platform", "pricing",
    "product", "products", "saas", "software", "solution", "solutions",
    "system", "systems", "tool", "tools", "vendor", "vendors"}

IndiaMarkers == {
    "bharat", "gst", "india", "indian", "inr", "rupee", "rupees", "upi"}

MarketingTerms == {
    "ai-powered", "app", "b2b", "b2c", "best", "customers", "cutting-edge",
    "enterprise", "innovative", "market", "monetization", "next-generation",
    "platform", "product", "revenue", "saas", "scalable", "seamless",
    "solution", "startup", "state-of-the-art", "users"}

GenericTailWords == {"systems", "system", "technology", "tech"}
=============================================================================
