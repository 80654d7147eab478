------------------------- MODULE SearchPlans_proofs -------------------------
(***************************************************************************)
(* What the searches of a run are, for every subject, model and answer: no *)
(* plan is bought that its gate would refuse, the three searches differ,   *)
(* the tables serve the wording they know, and the templates every topic   *)
(* that is not hard.  Of the tables' entries the proofs use what the       *)
(* assumptions of SearchPlans state, which TLC evaluates.                  *)
(***************************************************************************)
EXTENDS SearchPlans, FiniteSetTheorems, WellFoundedInduction, TLAPS

-----------------------------------------------------------------------------
(* The gates: independent of the tables. *)

\* A run that plans its web families has research its gate accepted, and one
\* that may search has a whole plan.
StageIsEarned ==
    /\ stage \in {"web", "ask_web", "assemble", "search"} => ValidResearch(research)
    /\ stage = "search" /\ subject.kind = "investigation" => Acceptable(research, web)

Inv == StageIsEarned /\ GatedBeforeBought

\* An opportunity's plan goes straight to its searches.
LEMMA PlannedEarns ==
    ASSUME NEW plan, ValidResearch(plan), Planned(plan),
           subject' = subject, Inv
    PROVE  Inv'
<1>1. StageIsEarned'
  BY DEF Planned, StageIsEarned
<1>2. GatedBeforeBought'
  BY DEF Planned, Inv, GatedBeforeBought
<1> QED
  BY <1>1, <1>2 DEF Inv

\* Ending a run earns nothing and buys nothing.
LEMMA EndEarns ==
    ASSUME NEW how, End(how), subject' = subject, Inv
    PROVE  Inv'
<1>1. StageIsEarned'
  BY DEF End, StageIsEarned
<1>2. GatedBeforeBought'
  BY DEF End, Inv, GatedBeforeBought
<1> QED
  BY <1>1, <1>2 DEF Inv

\* The invariant: where a run is says what its plan has passed.
LEMMA Inductive == Spec => []Inv
<1>1. ASSUME Init PROVE Inv
  BY <1>1 DEF Init, Inv, StageIsEarned, GatedBeforeBought
<1>2. ASSUME Inv, [Next]_vars PROVE Inv'
  <2> USE <1>2
  <2>1. CASE PlanResearch
    <3> DEFINE plan == ConceptPlan(subject)
    <3>1. CASE ValidResearch(plan) /\ Planned(plan)
      BY <2>1, <3>1, PlannedEarns DEF PlanResearch
    <3>2. CASE stage' = "ask_research" /\ UNCHANGED bought
      BY <2>1, <3>2 DEF PlanResearch, Inv, StageIsEarned, GatedBeforeBought
    <3>3. CASE End("unavailable")
      BY <2>1, <3>3, EndEarns DEF PlanResearch
    <3> QED
      BY <2>1, <3>1, <3>2, <3>3 DEF PlanResearch
  <2>2. CASE AskResearchModel
    <3>1. CASE End("provider_error")
      BY <2>2, <3>1, EndEarns DEF AskResearchModel
    <3>2. CASE \E answer \in ResearchAnswers :
                  \/ /\ ValidResearch(ModelPlan(answer, subject))
                     /\ Planned(ModelPlan(answer, subject))
                  \/ End("unavailable")
      BY <2>2, <3>2, PlannedEarns, EndEarns DEF AskResearchModel
    <3> QED
      BY <2>2, <3>1, <3>2 DEF AskResearchModel
  <2>3. CASE PlanWeb
    <3>1. CASE stage' = "ask_web" /\ UNCHANGED bought
      BY <2>3, <3>1 DEF PlanWeb, Inv, StageIsEarned, GatedBeforeBought
    <3>2. CASE stage' = "assemble" /\ UNCHANGED bought
      BY <2>3, <3>2 DEF PlanWeb, Inv, StageIsEarned, GatedBeforeBought
    <3>3. CASE End("rejected")
      BY <2>3, <3>3, EndEarns DEF PlanWeb
    <3> QED
      BY <2>3, <3>1, <3>2, <3>3 DEF PlanWeb
  <2>4. CASE AskWebModel
    <3>1. CASE stage' = "assemble" /\ UNCHANGED bought
      BY <2>4, <3>1 DEF AskWebModel, Inv, StageIsEarned, GatedBeforeBought
    <3>2. CASE End("rejected")
      BY <2>4, <3>2, EndEarns DEF AskWebModel
    <3>3. CASE End("web_error")
      BY <2>4, <3>3, EndEarns DEF AskWebModel
    <3> QED
      BY <2>4, <3>1, <3>2, <3>3 DEF AskWebModel
  <2>5. CASE Assemble
    <3>1. StageIsEarned'
      BY <2>5 DEF Assemble, Inv, StageIsEarned
    <3>2. GatedBeforeBought'
      BY <2>5 DEF Assemble, Inv, GatedBeforeBought
    <3> QED
      BY <3>1, <3>2 DEF Inv
  <2>6. CASE Search
    <3>1. StageIsEarned'
      BY <2>6 DEF Search, StageIsEarned
    <3>2. bought'.research = research /\ bought'.web = web /\ subject' = subject
      BY <2>6 DEF Search
    <3>3. ValidResearch(research)
      BY <2>6 DEF Search, Inv, StageIsEarned
    <3>4. subject.kind = "investigation" => Acceptable(research, web)
      BY <2>6 DEF Search, Inv, StageIsEarned
    <3>5. GatedBeforeBought'
      BY <3>2, <3>3, <3>4 DEF GatedBeforeBought, Acceptable, ValidWeb
    <3> QED
      BY <3>1, <3>5 DEF Inv
  <2>7. CASE Ended \/ UNCHANGED vars
    BY <2>7 DEF Ended, vars, Inv, StageIsEarned, GatedBeforeBought
  <2> QED
    BY <2>1, <2>2, <2>3, <2>4, <2>5, <2>6, <2>7 DEF Next
<1> QED
  BY <1>1, <1>2, PTL DEF Spec

\* Every plan a provider is given passed its gates, the table's plan and the
\* model's alike: the cost control of build_plan_with_fallback and of
\* build_investigation_plan, for any tables and any model.
THEOREM PlansAreGated == Spec => []GatedBeforeBought
<1>1. Inv => GatedBeforeBought
  BY DEF Inv
<1> QED
  BY <1>1, Inductive, PTL

-----------------------------------------------------------------------------
(* Lists: what the recursive helpers return. *)

\* Induction up to n, for a set of numbers.
LEMMA Induction ==
    ASSUME NEW n \in Nat, NEW S, 0 \in S,
           \A i \in 0 .. n : i # n /\ i \in S => i + 1 \in S
    PROVE  \A i \in 0 .. n : i \in S
<1> DEFINE Bad == {i \in 0 .. n : i \notin S}
<1> SUFFICES ASSUME Bad # {} PROVE FALSE
  OBVIOUS
<1>1. PICK x \in Bad : \A y \in Bad : ~ (<<y, x>> \in OpToRel(<, Nat))
  <2>1. Bad \subseteq Nat
    OBVIOUS
  <2> HIDE DEF Bad
  <2> QED
    BY <2>1, NatLessThanWellFounded, WFMin, Zenon
<1>2. x \in Nat /\ x # 0 /\ x <= n
  OBVIOUS
<1>3. x - 1 \in Bad
  BY <1>2
<1>4. <<x - 1, x>> \in OpToRel(<, Nat)
  BY <1>2 DEF OpToRel
<1> QED
  BY <1>1, <1>3, <1>4

\* The values on the way of a fold in n steps.
Folds(n, A, base, step) ==
    \E f \in [0 .. n -> A] :
        f[0] = base /\ \A i \in 1 .. n : f[i] = step[<<i, f[i - 1]>>]

\* A fold whose steps stay in a set has them.
LEMMA FoldExists ==
    ASSUME NEW n \in Nat, NEW A, NEW base \in A,
           NEW step \in [(1 .. n) \X A -> A]
    PROVE  Folds(n, A, base, step)
<1> DEFINE Upto(m, f) == f[0] = base /\ \A i \in 1 .. m : f[i] = step[<<i, f[i - 1]>>]
           S == {m \in 0 .. n : \E f \in [0 .. m -> A] : Upto(m, f)}
<1>1. 0 \in S
  <2> DEFINE f == [i \in 0 .. 0 |-> base]
  <2>1. f \in [0 .. 0 -> A]
    OBVIOUS
  <2>2. Upto(0, f)
    OBVIOUS
  <2> HIDE DEF f, Upto
  <2> QED
    BY <2>1, <2>2
<1>2. ASSUME NEW m \in 0 .. n, m # n, m \in S PROVE m + 1 \in S
  <2>1. PICK f \in [0 .. m -> A] : Upto(m, f)
    BY <1>2
  <2> DEFINE g == [i \in 0 .. m + 1 |-> IF i = m + 1 THEN step[<<m + 1, f[m]>>] ELSE f[i]]
  <2>2. <<m + 1, f[m]>> \in (1 .. n) \X A
    BY <1>2
  <2>3. g \in [0 .. m + 1 -> A]
    BY <2>2
  <2>4. Upto(m + 1, g)
    <3>1. g[0] = base
      BY <2>1
    <3>2. ASSUME NEW i \in 1 .. m + 1 PROVE g[i] = step[<<i, g[i - 1]>>]
      <4>1. i - 1 \in 0 .. m /\ g[i - 1] = f[i - 1]
        BY DEF g
      <4>2. CASE i = m + 1
        <5>1. g[m + 1] = step[<<m + 1, f[m]>>] /\ g[(m + 1) - 1] = f[m]
          BY <4>1, <4>2
        <5> HIDE DEF g
        <5> QED
          BY <5>1, <4>2
      <4>3. CASE i # m + 1
        <5>1. i \in 1 .. m /\ g[i] = f[i]
          BY <4>3
        <5>2. f[i] = step[<<i, f[i - 1]>>]
          BY <5>1, <2>1
        <5> HIDE DEF g
        <5> QED
          BY <5>1, <5>2, <4>1
      <4> QED
        BY <4>2, <4>3
    <3> QED
      BY <3>1, <3>2
  <2>5. m + 1 \in 0 .. n
    BY <1>2
  <2> HIDE DEF g, Upto
  <2> QED
    BY <2>3, <2>4, <2>5
<1>3. n \in S
  <2> HIDE DEF S
  <2> QED
    BY <1>1, <1>2, Induction
<1>4. PICK f \in [0 .. n -> A] : Upto(n, f)
  BY <1>3
<1> QED
  BY <1>4 DEF Folds

\* What Chosen keeps: positions that are ok, no two of them in a clash, and
\* everything that is ok unless an earlier one kept it out.
LEMMA ChosenSound ==
    ASSUME NEW n \in Nat, NEW ok, NEW clash
    PROVE  /\ Chosen(n, ok, clash) \subseteq ok \cap 1 .. n
           /\ \A i, k \in Chosen(n, ok, clash) : k < i => <<k, i>> \notin clash
           /\ \A i \in ok \cap 1 .. n : i \notin Chosen(n, ok, clash) =>
                 \E k \in Chosen(n, ok, clash) : k < i /\ <<k, i>> \in clash
<1> DEFINE Take(i, C) == IF i \in ok /\ \A k \in C : <<k, i>> \notin clash
                         THEN C \cup {i} ELSE C
           A == SUBSET (1 .. n)
           step == [p \in (1 .. n) \X A |-> Take(p[1], p[2])]
           Rec(f) == f = [i \in 0 .. n |->
                            IF i = 0 THEN {}
                            ELSE IF i \in ok /\ \A k \in f[i - 1] : <<k, i>> \notin clash
                            THEN f[i - 1] \cup {i}
                            ELSE f[i - 1]]
           chosen == CHOOSE f : Rec(f)
<1>1. \E f : Rec(f)
  <2>1. step \in [(1 .. n) \X A -> A]
    OBVIOUS
  <2>2. {} \in A
    OBVIOUS
  <2>3. Folds(n, A, {}, step)
    <3> HIDE DEF step, A
    <3> QED
      BY <2>1, <2>2, FoldExists
  <2>f. PICK f \in [0 .. n -> A] :
            f[0] = {} /\ \A i \in 1 .. n : f[i] = step[<<i, f[i - 1]>>]
    <3> HIDE DEF step, A
    <3> QED
      BY <2>3 DEF Folds
  <2>4. ASSUME NEW i \in 1 .. n
        PROVE  step[<<i, f[i - 1]>>] = Take(i, f[i - 1])
    <3>1. f[i - 1] \in A
      BY <2>4
    <3>2. <<i, f[i - 1]>> \in (1 .. n) \X A
      BY <3>1
    <3> QED
      BY <3>2
  <2>5. ASSUME NEW i \in 0 .. n PROVE f[i] = IF i = 0 THEN {} ELSE Take(i, f[i - 1])
    <3>1. CASE i = 0
      BY <3>1, <2>f
    <3>2. CASE i # 0
      <4>1. i \in 1 .. n
        BY <3>2
      <4>2. f[i] = step[<<i, f[i - 1]>>]
        <5> HIDE DEF step
        <5> QED
          BY <4>1, <2>f
      <4>3. f[i] = Take(i, f[i - 1])
        <5> HIDE DEF step
        <5> QED
          BY <4>1, <4>2, <2>4
      <4> QED
        BY <3>2, <4>3
    <3> QED
      BY <3>1, <3>2
  <2>6. Rec(f)
    <3>1. f = [i \in 0 .. n |-> f[i]]
      BY <2>f
    <3> QED
      BY <2>5, <3>1
  <2> QED
    BY <2>6
<1>2. Rec(chosen)
  <2> HIDE DEF Rec
  <2> QED
    BY <1>1
<1>3. Chosen(n, ok, clash) = chosen[n]
  BY DEF Chosen
<1> HIDE DEF chosen
<1> DEFINE Good(m, C) ==
      /\ C \subseteq ok \cap 1 .. m
      /\ \A i, k \in C : k < i => <<k, i>> \notin clash
      /\ \A i \in ok \cap 1 .. m : i \notin C => \E k \in C : k < i /\ <<k, i>> \in clash
    S == {m \in 0 .. n : Good(m, chosen[m])}
<1>4. 0 \in S
  <2>1. chosen[0] = {}
    BY <1>2
  <2> QED
    BY <2>1
<1>5. ASSUME NEW m \in 0 .. n, m # n, m \in S PROVE m + 1 \in S
  <2>1. Good(m, chosen[m])
    BY <1>5
  <2>2. m + 1 \in 0 .. n /\ m + 1 # 0 /\ (m + 1) - 1 = m
    BY <1>5
  <2>3. chosen[m + 1] = Take(m + 1, chosen[m])
    BY <1>2, <2>2
  <2>4. Good(m + 1, chosen[m + 1])
    <3>1. CASE m + 1 \in ok /\ \A k \in chosen[m] : <<k, m + 1>> \notin clash
      <4>1. chosen[m + 1] = chosen[m] \cup {m + 1}
        BY <2>3, <3>1
      <4> QED
        BY <2>1, <3>1, <4>1
    <3>2. CASE ~ (m + 1 \in ok /\ \A k \in chosen[m] : <<k, m + 1>> \notin clash)
      <4>1. chosen[m + 1] = chosen[m]
        BY <2>3, <3>2
      <4> QED
        BY <2>1, <3>2, <4>1
    <3> QED
      BY <3>1, <3>2
  <2>5. m + 1 \in 0 .. n
    BY <2>2
  <2> HIDE DEF Good
  <2> QED
    BY <2>4, <2>5
<1>6. n \in S
  <2> HIDE DEF S
  <2> QED
    BY <1>4, <1>5, Induction
<1> QED
  BY <1>3, <1>6

\* r is what list holds at some positions, in order: its j-th is at pos[j].
Lists(r, list, positions) ==
    \E pos \in [DOMAIN r -> positions \cap DOMAIN list] :
        /\ \A j, k \in DOMAIN r : j < k => pos[j] < pos[k]
        /\ \A j \in DOMAIN r : r[j] = list[pos[j]]
        /\ \A i \in positions \cap DOMAIN list : \E j \in DOMAIN r : pos[j] = i

\* At returns such a list.
LEMMA AtSound ==
    ASSUME NEW X, NEW list \in Seq(X), NEW positions
    PROVE  /\ At(list, positions) \in Seq(X)
           /\ Lists(At(list, positions), list, positions)
<1>0. PICK n \in Nat : /\ n = Len(list) /\ DOMAIN list = 1 .. n
                        /\ \A i \in 1 .. n : list[i] \in X
  OBVIOUS
<1> DEFINE Take(i, s) == IF i \in positions THEN Append(s, list[i]) ELSE s
           A == Seq(X)
           step == [p \in (1 .. n) \X A |-> Take(p[1], p[2])]
           Rec(f) == f = [i \in 0 .. n |->
                            IF i = 0 THEN <<>>
                            ELSE IF i \in positions THEN Append(f[i - 1], list[i])
                            ELSE f[i - 1]]
           kept == CHOOSE f : Rec(f)
<1>1. \E f : Rec(f)
  <2>1. step \in [(1 .. n) \X A -> A]
    BY <1>0
  <2>2. <<>> \in A
    OBVIOUS
  <2>3. Folds(n, A, <<>>, step)
    <3> HIDE DEF step, A
    <3> QED
      BY <1>0, <2>1, <2>2, FoldExists
  <2>f. PICK f \in [0 .. n -> A] :
            f[0] = <<>> /\ \A i \in 1 .. n : f[i] = step[<<i, f[i - 1]>>]
    <3> HIDE DEF step, A
    <3> QED
      BY <2>3 DEF Folds
  <2>4. ASSUME NEW i \in 1 .. n
        PROVE  step[<<i, f[i - 1]>>] = Take(i, f[i - 1])
    <3>1. f[i - 1] \in A
      BY <2>4, <1>0
    <3>2. <<i, f[i - 1]>> \in (1 .. n) \X A
      BY <3>1
    <3> QED
      BY <3>2
  <2>5. ASSUME NEW i \in 0 .. n PROVE f[i] = IF i = 0 THEN <<>> ELSE Take(i, f[i - 1])
    <3>1. CASE i = 0
      BY <3>1, <2>f
    <3>2. CASE i # 0
      <4>1. i \in 1 .. n
        BY <3>2
      <4>2. f[i] = step[<<i, f[i - 1]>>]
        <5> HIDE DEF step
        <5> QED
          BY <4>1, <2>f
      <4>3. f[i] = Take(i, f[i - 1])
        <5> HIDE DEF step
        <5> QED
          BY <4>1, <4>2, <2>4
      <4> QED
        BY <3>2, <4>3
    <3> QED
      BY <3>1, <3>2
  <2>6. Rec(f)
    <3>1. f = [i \in 0 .. n |-> f[i]]
      BY <2>f
    <3> QED
      BY <2>5, <3>1
  <2> QED
    BY <2>6
<1>2. Rec(kept)
  <2> HIDE DEF Rec
  <2> QED
    BY <1>1
<1>3. At(list, positions) = kept[n]
  BY <1>0 DEF At
<1> HIDE DEF kept
<1> DEFINE Good(m, r) ==
      /\ r \in Seq(X)
      /\ \E pos \in [1 .. Len(r) -> positions \cap 1 .. m] :
            /\ \A j, k \in 1 .. Len(r) : j < k => pos[j] < pos[k]
            /\ \A j \in 1 .. Len(r) : r[j] = list[pos[j]]
            /\ \A i \in positions \cap 1 .. m : \E j \in 1 .. Len(r) : pos[j] = i
    S == {m \in 0 .. n : Good(m, kept[m])}
<1>4. 0 \in S
  <2>1. kept[0] = <<>>
    BY <1>0, <1>2
  <2>2. Good(0, <<>>)
    <3> DEFINE pos == [j \in 1 .. Len(<<>>) |-> 1]
    <3>1. Len(<<>>) = 0 /\ 1 .. 0 = {} /\ <<>> \in Seq(X)
      OBVIOUS
    <3>2. pos \in [1 .. Len(<<>>) -> positions \cap 1 .. 0]
      BY <3>1
    <3> HIDE DEF pos
    <3> QED
      BY <3>1, <3>2
  <2>3. 0 \in 0 .. n
    OBVIOUS
  <2> HIDE DEF Good
  <2> QED
    BY <2>1, <2>2, <2>3
<1>5. ASSUME NEW m \in 0 .. n, m # n, m \in S PROVE m + 1 \in S
  <2>1. Good(m, kept[m])
    BY <1>5
  <2>2. m + 1 \in 1 .. n /\ m + 1 # 0 /\ (m + 1) - 1 = m
    BY <1>0, <1>5
  <2>3. kept[m + 1] = Take(m + 1, kept[m])
    <3>1. \A i \in 0 .. n : kept[i] = IF i = 0 THEN <<>> ELSE Take(i, kept[i - 1])
      BY <1>2
    <3>2. m + 1 \in 0 .. n
      BY <2>2
    <3>3. kept[m + 1] = Take(m + 1, kept[(m + 1) - 1])
      <4> HIDE DEF Take
      <4> QED
        BY <2>2, <3>1, <3>2
    <3> QED
      BY <2>2, <3>3
  <2>4. Good(m + 1, kept[m + 1])
    <3> DEFINE r == kept[m]
    <3>0. PICK pos \in [1 .. Len(r) -> positions \cap 1 .. m] :
            /\ \A j, k \in 1 .. Len(r) : j < k => pos[j] < pos[k]
            /\ \A j \in 1 .. Len(r) : r[j] = list[pos[j]]
            /\ \A i \in positions \cap 1 .. m : \E j \in 1 .. Len(r) : pos[j] = i
      BY <2>1
    <3>r. r \in Seq(X) /\ Len(r) \in Nat
      BY <2>1
    <3>1. CASE m + 1 \in positions
      <4> DEFINE q == Append(r, list[m + 1])
                 new == [j \in 1 .. Len(q) |-> IF j = Len(q) THEN m + 1 ELSE pos[j]]
      <4>1. kept[m + 1] = q
        BY <2>3, <3>1
      <4>2. /\ q \in Seq(X) /\ Len(q) = Len(r) + 1 /\ q[Len(q)] = list[m + 1]
            /\ \A j \in 1 .. Len(r) : q[j] = r[j]
        BY <1>0, <2>2, <3>r
      <4> HIDE DEF q, r
      <4>3. new \in [1 .. Len(q) -> positions \cap 1 .. m + 1]
        BY <3>0, <3>1, <3>r, <4>2
      <4>4. new[Len(q)] = m + 1 /\ \A j \in 1 .. Len(r) : new[j] = pos[j]
        BY <3>r, <4>2
      <4> HIDE DEF new
      <4>5. \A j, k \in 1 .. Len(q) : j < k => new[j] < new[k]
        <5> SUFFICES ASSUME NEW j \in 1 .. Len(q), NEW k \in 1 .. Len(q), j < k
                     PROVE  new[j] < new[k]
          OBVIOUS
        <5>1. j \in 1 .. Len(r) /\ pos[j] \in 1 .. m /\ new[j] = pos[j]
          BY <3>0, <3>r, <4>2, <4>4
        <5>2. CASE k = Len(q)
          BY <5>1, <5>2, <4>4
        <5>3. CASE k # Len(q)
          <6>1. k \in 1 .. Len(r) /\ new[k] = pos[k]
            BY <5>3, <3>r, <4>2, <4>4
          <6> QED
            BY <5>1, <6>1, <3>0
        <5> QED
          BY <5>2, <5>3
      <4>6. \A j \in 1 .. Len(q) : q[j] = list[new[j]]
        BY <3>0, <3>r, <4>2, <4>4
      <4>7. \A i \in positions \cap 1 .. m + 1 : \E j \in 1 .. Len(q) : new[j] = i
        <5> SUFFICES ASSUME NEW i \in positions \cap 1 .. m + 1
                     PROVE  \E j \in 1 .. Len(q) : new[j] = i
          OBVIOUS
        <5>1. CASE i = m + 1
          BY <5>1, <3>r, <4>2, <4>4
        <5>2. CASE i # m + 1
          <6>1. i \in positions \cap 1 .. m
            BY <5>2
          <6>2. PICK j \in 1 .. Len(r) : pos[j] = i
            BY <6>1, <3>0
          <6> QED
            BY <6>2, <3>r, <4>2, <4>4
        <5> QED
          BY <5>1, <5>2
      <4> QED
        BY <4>1, <4>2, <4>3, <4>5, <4>6, <4>7
    <3>2. CASE m + 1 \notin positions
      <4>1. kept[m + 1] = r
        BY <2>3, <3>2
      <4>2. positions \cap 1 .. m + 1 = positions \cap 1 .. m
        BY <3>2
      <4> HIDE DEF r
      <4> QED
        BY <3>0, <3>r, <4>1, <4>2
    <3> QED
      BY <3>1, <3>2
  <2>5. m + 1 \in 0 .. n
    BY <2>2
  <2> HIDE DEF Good
  <2> QED
    BY <2>4, <2>5
<1>6. n \in S
  <2> HIDE DEF S
  <2> QED
    BY <1>0, <1>4, <1>5, Induction
<1>7. Good(n, kept[n])
  BY <1>6
<1>8. PICK pos \in [1 .. Len(kept[n]) -> positions \cap 1 .. n] :
        /\ \A j, k \in 1 .. Len(kept[n]) : j < k => pos[j] < pos[k]
        /\ \A j \in 1 .. Len(kept[n]) : kept[n][j] = list[pos[j]]
        /\ \A i \in positions \cap 1 .. n : \E j \in 1 .. Len(kept[n]) : pos[j] = i
  BY <1>7
<1>9. DOMAIN kept[n] = 1 .. Len(kept[n]) /\ kept[n] \in Seq(X)
  BY <1>7
<1>10. pos \in [DOMAIN kept[n] -> positions \cap DOMAIN list]
  BY <1>0, <1>9
<1>11. Lists(kept[n], list, positions)
  BY <1>0, <1>8, <1>9, <1>10 DEF Lists
<1> HIDE DEF Good
<1> QED
  BY <1>3, <1>9, <1>11

\* Keep leaves the wanted elements of a list.
LEMMA KeepSound ==
    ASSUME NEW X, NEW list \in Seq(X), NEW wanted
    PROVE  /\ Keep(list, wanted) \in Seq(X)
           /\ ToSet(Keep(list, wanted)) = ToSet(list) \cap wanted
<1> DEFINE there == {i \in DOMAIN list : list[i] \in wanted}
           r == At(list, there)
<1>2. r \in Seq(X) /\ Lists(r, list, there)
  <2> HIDE DEF there
  <2> QED
    BY AtSound
<1> HIDE DEF r
<1>1. PICK pos \in [DOMAIN r -> there \cap DOMAIN list] :
                 /\ \A j \in DOMAIN r : r[j] = list[pos[j]]
                 /\ \A i \in there \cap DOMAIN list : \E j \in DOMAIN r : pos[j] = i
  BY <1>2 DEF Lists
<1>4. ToSet(r) \subseteq ToSet(list) \cap wanted
  <2> SUFFICES ASSUME NEW j \in DOMAIN r PROVE r[j] \in ToSet(list) \cap wanted
    BY DEF ToSet
  <2>1. pos[j] \in there /\ r[j] = list[pos[j]]
    BY <1>1
  <2> QED
    BY <2>1 DEF ToSet
<1>5. ToSet(list) \cap wanted \subseteq ToSet(r)
  <2> SUFFICES ASSUME NEW i \in DOMAIN list, list[i] \in wanted
               PROVE  list[i] \in ToSet(r)
    BY DEF ToSet
  <2>1. i \in there \cap DOMAIN list
    OBVIOUS
  <2>2. PICK j \in DOMAIN r : pos[j] = i
    BY <1>1, <2>1
  <2>3. r[j] = list[i]
    BY <1>1, <2>2
  <2> QED
    BY <2>3 DEF ToSet
<1>6. Keep(list, wanted) = r
  BY DEF Keep, r
<1> QED
  BY <1>2, <1>4, <1>5, <1>6

\* Distinct leaves every element of a list once.
LEMMA DistinctSound ==
    ASSUME NEW X, NEW list \in Seq(X)
    PROVE  /\ Distinct(list) \in Seq(X)
           /\ ToSet(Distinct(list)) = ToSet(list)
           /\ \A j, k \in DOMAIN Distinct(list) :
                 j # k => Distinct(list)[j] # Distinct(list)[k]
<1> DEFINE same == {p \in (DOMAIN list) \X (DOMAIN list) : list[p[1]] = list[p[2]]}
           kept == Chosen(Len(list), DOMAIN list, same)
           r == At(list, kept)
<1>0. Len(list) \in Nat /\ DOMAIN list = 1 .. Len(list)
  OBVIOUS
<1>a. /\ kept \subseteq DOMAIN list
      /\ \A i, k \in kept : k < i => <<k, i>> \notin same
      /\ \A i \in DOMAIN list : i \notin kept => \E k \in kept : k < i /\ <<k, i>> \in same
  <2> HIDE DEF same
  <2> QED
    BY <1>0, ChosenSound
<1>b. \A i, k \in DOMAIN list : <<k, i>> \in same <=> list[k] = list[i]
  OBVIOUS
<1> HIDE DEF same, kept
<1>2. r \in Seq(X) /\ Lists(r, list, kept)
  BY AtSound
<1> HIDE DEF r
<1>1. PICK pos \in [DOMAIN r -> kept \cap DOMAIN list] :
                 /\ \A j, k \in DOMAIN r : j < k => pos[j] < pos[k]
                 /\ \A j \in DOMAIN r : r[j] = list[pos[j]]
                 /\ \A i \in kept \cap DOMAIN list : \E j \in DOMAIN r : pos[j] = i
  BY <1>2 DEF Lists
<1>4. ToSet(r) \subseteq ToSet(list)
  BY <1>1 DEF ToSet
<1>5. ToSet(list) \subseteq ToSet(r)
  <2> SUFFICES ASSUME NEW i \in DOMAIN list PROVE list[i] \in ToSet(r)
    BY DEF ToSet
  <2>1. PICK k \in kept : list[k] = list[i]
    BY <1>a, <1>b
  <2>2. PICK j \in DOMAIN r : pos[j] = k
    BY <1>a, <1>1, <2>1
  <2> QED
    BY <1>1, <2>1, <2>2 DEF ToSet
<1>6. ASSUME NEW j \in DOMAIN r, NEW k \in DOMAIN r, j < k PROVE r[j] # r[k]
  <2>1. pos[j] \in kept /\ pos[k] \in kept /\ pos[j] < pos[k]
    BY <1>1, <1>6
  <2>2. list[pos[j]] # list[pos[k]]
    BY <1>a, <1>b, <2>1
  <2> QED
    BY <1>1, <2>2
<1>7. \A j, k \in DOMAIN r : j # k => r[j] # r[k]
  <2> SUFFICES ASSUME NEW j \in DOMAIN r, NEW k \in DOMAIN r, j # k PROVE r[j] # r[k]
    OBVIOUS
  <2>1. j \in Nat /\ k \in Nat
    BY <1>2
  <2>2. CASE j < k
    BY <1>6, <2>2
  <2>3. CASE k < j
    BY <1>6, <2>3
  <2> QED
    BY <2>1, <2>2, <2>3
<1>8. Distinct(list) = r
  BY DEF Distinct, Sift, r, kept, same
<1> QED
  BY <1>2, <1>4, <1>5, <1>7, <1>8

\* First is no longer than asked, and shorter only with the whole list.
LEMMA FirstSound ==
    ASSUME NEW X, NEW list \in Seq(X), NEW n \in Nat
    PROVE  /\ First(n, list) \in Seq(X)
           /\ Len(First(n, list)) = IF Len(list) < n THEN Len(list) ELSE n
           /\ \A j \in DOMAIN First(n, list) :
                 j \in DOMAIN list /\ First(n, list)[j] = list[j]
<1> DEFINE m == IF Len(list) < n THEN Len(list) ELSE n
<1>1. m \in Nat /\ m <= Len(list)
  OBVIOUS
<1> HIDE DEF m
<1>2. SubSeq(list, 1, m) \in Seq(X) /\ Len(SubSeq(list, 1, m)) = m
  BY <1>1
<1>3. \A j \in 1 .. m : SubSeq(list, 1, m)[j] = list[j]
  BY <1>1
<1>4. First(n, list) = SubSeq(list, 1, m)
  BY DEF First, m
<1>5. DOMAIN SubSeq(list, 1, m) = 1 .. m /\ DOMAIN list = 1 .. Len(list)
  BY <1>2
<1> QED
  BY <1>1, <1>2, <1>4, <1>5 DEF m

\* r is what is sifted from list: positions that are ok, in order and without
\* a clash, and an earlier one of them clashes with every other that is ok.
Sifted(r, list, ok, clash) ==
    \E pos \in [DOMAIN r -> ok \cap DOMAIN list] :
        /\ \A j \in DOMAIN r : r[j] = list[pos[j]]
        /\ \A j, k \in DOMAIN r :
              j < k => pos[j] < pos[k] /\ <<pos[j], pos[k]>> \notin clash
        /\ \A i \in ok \cap DOMAIN list : \E j \in DOMAIN r :
              pos[j] = i \/ <<pos[j], i>> \in clash

\* Sift returns such a list.
LEMMA SiftSound ==
    ASSUME NEW X, NEW list \in Seq(X), NEW ok, NEW clash
    PROVE  /\ Sift(list, ok, clash) \in Seq(X)
           /\ Sifted(Sift(list, ok, clash), list, ok, clash)
<1> DEFINE kept == Chosen(Len(list), ok, clash)
           r == Sift(list, ok, clash)
<1>1. Len(list) \in Nat /\ DOMAIN list = 1 .. Len(list)
  OBVIOUS
<1>2. /\ kept \subseteq ok \cap DOMAIN list
      /\ \A i, k \in kept : k < i => <<k, i>> \notin clash
      /\ \A i \in ok \cap DOMAIN list : i \notin kept =>
            \E k \in kept : k < i /\ <<k, i>> \in clash
  BY <1>1, ChosenSound
<1> HIDE DEF kept
<1>3. r \in Seq(X) /\ Lists(r, list, kept)
  BY AtSound DEF Sift, kept
<1> HIDE DEF r
<1>4. PICK pos \in [DOMAIN r -> kept \cap DOMAIN list] :
        /\ \A j, k \in DOMAIN r : j < k => pos[j] < pos[k]
        /\ \A j \in DOMAIN r : r[j] = list[pos[j]]
        /\ \A i \in kept \cap DOMAIN list : \E j \in DOMAIN r : pos[j] = i
  BY <1>3 DEF Lists
<1>5. \A j \in DOMAIN r : pos[j] \in kept /\ pos[j] \in ok \cap DOMAIN list
  BY <1>2, <1>4
<1>6. \A j, k \in DOMAIN r : j < k => <<pos[j], pos[k]>> \notin clash
  BY <1>2, <1>4, <1>5
<1>7. ASSUME NEW i \in ok \cap DOMAIN list
      PROVE  \E j \in DOMAIN r : pos[j] = i \/ <<pos[j], i>> \in clash
  <2>1. PICK k \in kept : k = i \/ <<k, i>> \in clash
    BY <1>2
  <2>2. PICK j \in DOMAIN r : pos[j] = k
    BY <1>2, <1>4, <2>1
  <2> QED
    BY <2>1, <2>2
<1>8. pos \in [DOMAIN r -> ok \cap DOMAIN list]
  BY <1>2, <1>4
<1>9. Sifted(r, list, ok, clash)
  BY <1>4, <1>6, <1>7, <1>8 DEF Sifted
<1> QED
  BY <1>3, <1>9 DEF r

-----------------------------------------------------------------------------
(* Research: terms, candidates and the plans made of them. *)

\* A term of the tables is a text.
LEMMA TermsAreTexts ==
    /\ \A w \in DOMAIN Lexicon : Lexicon[w] \in TableTerms /\ Lexicon[w] \in Text
    /\ \A i \in DOMAIN IndustryLexicon :
          /\ IndustryLexicon[i] \in Seq(Text) /\ IndustryLexicon[i] # <<>>
          /\ ToSet(IndustryLexicon[i]) \subseteq TableTerms
BY WordsAssumption DEF TableTerms

\* The recognised terms of a text are those of its words in the lexicon: no
\* filter of words drops one that is there.
LEMMA RecognisedSound ==
    ASSUME NEW text \in Text
    PROVE  /\ Recognised(text) \in Seq(Text)
           /\ ToSet(Recognised(text)) = {Lexicon[w] : w \in Words(text) \cap DOMAIN Lexicon}
<1> DEFINE long == {w \in Words(text) : Len(w) > 2 /\ w \notin Stopwords}
           known == Keep(Tokens(text), DOMAIN Lexicon)
<1>1. Tokens(text) \in Seq(STRING) /\ ToSet(Tokens(text)) = ToSet(text) \cap long
  <2> HIDE DEF long
  <2>1. Tokens(text) = Keep(text, long)
    BY DEF Tokens, long
  <2> QED
    BY <2>1, KeepSound DEF Text
<1>2. known \in Seq(STRING) /\ ToSet(known) = ToSet(Tokens(text)) \cap DOMAIN Lexicon
  BY <1>1, KeepSound
<1>3. ToSet(known) = Words(text) \cap DOMAIN Lexicon
  BY <1>1, <1>2, WordsAssumption DEF Words
<1> HIDE DEF known
<1>4. Recognised(text) = [i \in DOMAIN known |-> Lexicon[known[i]]]
  BY DEF Recognised, known
<1>5. \A i \in DOMAIN known : known[i] \in DOMAIN Lexicon
  BY <1>2, <1>3 DEF ToSet
<1>6. Recognised(text) \in Seq(Text) /\ DOMAIN Recognised(text) = DOMAIN known
  <2>1. DOMAIN known = 1 .. Len(known) /\ Len(known) \in Nat
    BY <1>2
  <2> HIDE DEF Text
  <2>2. \A i \in 1 .. Len(known) : Lexicon[known[i]] \in Text
    BY <1>5, <2>1, TermsAreTexts
  <2> QED
    BY <1>4, <2>1, <2>2
<1> QED
  BY <1>3, <1>4, <1>6 DEF ToSet

\* An industry of the tables gives their terms; another one those of its
\* words, and a term of its own for each word that has none.
LEMMA IndustryTermsSound ==
    ASSUME NEW industry \in Text
    PROVE  /\ IndustryTerms(industry) \in Seq(Text)
           /\ industry \in DOMAIN IndustryLexicon =>
                 /\ ToSet(IndustryTerms(industry)) # {}
                 /\ ToSet(IndustryTerms(industry)) \subseteq TableTerms
           /\ industry \notin DOMAIN IndustryLexicon =>
                 /\ \A t \in ToSet(IndustryTerms(industry)) :
                       \/ t \in TableTerms
                       \/ \E w \in Words(industry) : w \in STRING /\ t = <<w, "systems">>
                 /\ \A w \in Words(industry) \cap DOMAIN Lexicon :
                       Lexicon[w] \in ToSet(IndustryTerms(industry))
<1>1. CASE industry \in DOMAIN IndustryLexicon
  <2>1. IndustryTerms(industry) = IndustryLexicon[industry]
    BY <1>1 DEF IndustryTerms
  <2>2. IndustryLexicon[industry] \in Seq(Text) /\ IndustryLexicon[industry] # <<>>
    BY <1>1, TermsAreTexts
  <2>3. ToSet(IndustryLexicon[industry]) # {}
    <3>1. 1 \in DOMAIN IndustryLexicon[industry]
      BY <2>2
    <3> QED
      BY <3>1 DEF ToSet
  <2> QED
    BY <1>1, <2>1, <2>2, <2>3, TermsAreTexts
<1>2. CASE industry \notin DOMAIN IndustryLexicon
  <2> DEFINE long == {w \in Words(industry) : Len(w) > 2 /\ w \notin Stopwords}
             tokens == Tokens(industry)
             r == [i \in DOMAIN tokens |->
                     IF tokens[i] \in DOMAIN Lexicon THEN Lexicon[tokens[i]]
                     ELSE <<tokens[i], "systems">>]
  <2>1. tokens \in Seq(STRING) /\ ToSet(tokens) = ToSet(industry) \cap long
    <3> HIDE DEF long
    <3>1. tokens = Keep(industry, long)
      BY DEF Tokens, long
    <3> HIDE DEF tokens
    <3> QED
      BY <3>1, KeepSound DEF Text
  <2> HIDE DEF tokens
  <2>2. IndustryTerms(industry) = r
    BY <1>2 DEF IndustryTerms, tokens
  <2>3. DOMAIN tokens = 1 .. Len(tokens) /\ Len(tokens) \in Nat
    BY <2>1
  <2>4. \A i \in DOMAIN tokens : tokens[i] \in STRING /\ tokens[i] \in Words(industry)
    BY <2>1, <2>3 DEF ToSet, Words
  <2>5. \A w \in STRING : <<w, "systems">> \in Text
    <3>1. "systems" \in STRING
      BY WordsAssumption
    <3>2. \A W : \A v, w \in W : <<v, w>> \in Seq(W)
      OBVIOUS
    <3> QED
      BY <3>1, <3>2 DEF Text
  <2>6. \A i \in DOMAIN tokens : r[i] \in Text
    BY <2>4, <2>5, TermsAreTexts
  <2>7. r \in Seq(Text)
    <3> HIDE DEF Text
    <3> QED
      BY <2>3, <2>6
  <2>8. ASSUME NEW t \in ToSet(r)
        PROVE  \/ t \in TableTerms
               \/ \E w \in Words(industry) : w \in STRING /\ t = <<w, "systems">>
    <3>1. PICK i \in DOMAIN tokens : t = r[i]
      BY DEF ToSet
    <3> QED
      BY <2>4, <3>1, TermsAreTexts
  <2>9. ASSUME NEW w \in Words(industry) \cap DOMAIN Lexicon
        PROVE  Lexicon[w] \in ToSet(r)
    <3>1. w \in ToSet(tokens)
      BY <2>1, WordsAssumption DEF Words
    <3>2. PICK i \in DOMAIN tokens : tokens[i] = w
      BY <3>1 DEF ToSet
    <3> QED
      BY <3>2 DEF ToSet
  <2> HIDE DEF r
  <2> QED
    BY <1>2, <2>2, <2>7, <2>8, <2>9
<1> QED
  BY <1>1, <1>2

\* What two lists hold together.
LEMMA ConcatSound ==
    ASSUME NEW X, NEW u \in Seq(X), NEW v \in Seq(X)
    PROVE  u \o v \in Seq(X) /\ ToSet(u \o v) = ToSet(u) \cup ToSet(v)
<1>1. ToSet(u \o v) \subseteq ToSet(u) \cup ToSet(v)
  BY DEF ToSet
<1>2. ToSet(u) \subseteq ToSet(u \o v)
  BY DEF ToSet
<1>3. ASSUME NEW j \in DOMAIN v PROVE v[j] \in ToSet(u \o v)
  <2>1. Len(u) + j \in DOMAIN (u \o v) /\ (u \o v)[Len(u) + j] = v[j]
    OBVIOUS
  <2> QED
    BY <2>1 DEF ToSet
<1> QED
  BY <1>1, <1>2, <1>3 DEF ToSet

\* What the terms of a subject are made of, none of them twice.
LEMMA DomainTermsSound ==
    ASSUME NEW s \in ResearchSubject
    PROVE  /\ DomainTerms(s) \in Seq(Text)
           /\ ToSet(DomainTerms(s)) =
                 ToSet(Recognised(s.problem)) \cup ToSet(Recognised(s.description))
                    \cup ToSet(IndustryTerms(s.industry))
           /\ \A i, j \in DOMAIN DomainTerms(s) :
                 i # j => DomainTerms(s)[i] # DomainTerms(s)[j]
<1> DEFINE p == Recognised(s.problem)
           d == Recognised(s.description)
           i == IndustryTerms(s.industry)
<1>1. s.problem \in Text /\ s.description \in Text /\ s.industry \in Text
  BY DEF ResearchSubject
<1>2. p \in Seq(Text) /\ d \in Seq(Text) /\ i \in Seq(Text)
  BY <1>1, RecognisedSound, IndustryTermsSound
<1> HIDE DEF p, d, i, Text
<1>3. p \o d \in Seq(Text) /\ ToSet(p \o d) = ToSet(p) \cup ToSet(d)
  BY <1>2, ConcatSound
<1>4. p \o d \o i \in Seq(Text) /\ ToSet(p \o d \o i) = ToSet(p) \cup ToSet(d) \cup ToSet(i)
  <2> DEFINE pd == p \o d
  <2>1. pd \in Seq(Text) /\ ToSet(pd) = ToSet(p) \cup ToSet(d)
    BY <1>3
  <2> HIDE DEF pd
  <2>2. pd \o i \in Seq(Text) /\ ToSet(pd \o i) = ToSet(pd) \cup ToSet(i)
    BY <1>2, <2>1, ConcatSound
  <2> QED
    BY <2>1, <2>2 DEF pd
<1>5. DomainTerms(s) = Distinct(p \o d \o i)
  BY DEF DomainTerms, p, d, i
<1>6. /\ Distinct(p \o d \o i) \in Seq(Text)
      /\ ToSet(Distinct(p \o d \o i)) = ToSet(p \o d \o i)
      /\ \A j, k \in DOMAIN Distinct(p \o d \o i) :
            j # k => Distinct(p \o d \o i)[j] # Distinct(p \o d \o i)[k]
  BY <1>4, DistinctSound
<1> QED
  BY <1>4, <1>5, <1>6 DEF p, d, i

\* The words of a text are finitely many, and no more than its length.
LEMMA WordsFinite ==
    ASSUME NEW X, NEW q \in Seq(X)
    PROVE  /\ IsFiniteSet(Words(q)) /\ Cardinality(Words(q)) \in Nat
           /\ Cardinality(Words(q)) <= Len(q)
<1>1. Len(q) \in Nat /\ q \in [1 .. Len(q) -> Words(q)]
  BY DEF Words, ToSet
<1>2. \A w \in Words(q) : \E i \in 1 .. Len(q) : q[i] = w
  BY DEF Words, ToSet
<1>3. q \in Surjection(1 .. Len(q), Words(q))
  BY <1>1, <1>2 DEF Surjection
<1>4. IsFiniteSet(1 .. Len(q)) /\ Cardinality(1 .. Len(q)) = Len(q)
  BY <1>1, FS_Interval
<1> QED
  BY <1>1, <1>3, <1>4, FS_Surjection, FS_CardinalityType

\* Queries of the same words are near duplicates.
LEMMA SameWordsAreNear ==
    ASSUME NEW p \in Text, NEW q \in Text, p # <<>>, q # <<>>, Words(p) = Words(q)
    PROVE  NearDuplicate(p, q)
<1> DEFINE c == Cardinality(Words(p))
<1>1. c \in Nat
  BY WordsFinite DEF Text
<1>2. Words(p) \cap Words(q) = Words(p) /\ Words(p) \cup Words(q) = Words(p)
  OBVIOUS
<1>3. Cardinality(Words(p) \cap Words(q)) = c /\ Cardinality(Words(p) \cup Words(q)) = c
  BY <1>2
<1> HIDE DEF c
<1>4. 10 * c >= 8 * c
  BY <1>1
<1> QED
  BY <1>3, <1>4 DEF NearDuplicate

\* Searches of a plan: three, of different words.
ThreeDifferent(queries) ==
    /\ Len(queries) = 3
    /\ \A i, j \in 1 .. 3 : i < j => Words(queries[i]) # Words(queries[j])

\* The queries of the tables are different and none of them is blank; there
\* are fewer than three only when each candidate that is left is near one.
LEMMA SelectQueriesSound ==
    ASSUME NEW candidates \in Seq(Text)
    PROVE  LET f == SelectQueries(candidates) IN
           /\ f \in Seq(Text) /\ Len(f) <= 3
           /\ \A j \in DOMAIN f : f[j] # <<>> /\ ~RepeatsAToken(f[j])
           /\ \A j, k \in DOMAIN f : j < k => Words(f[j]) # Words(f[k])
           /\ Len(f) < 3 =>
                 \A i \in DOMAIN candidates :
                    candidates[i] # <<>> /\ ~RepeatsAToken(candidates[i]) =>
                       \E j \in DOMAIN f :
                          f[j] = candidates[i] \/ NearDuplicate(f[j], candidates[i])
<1> DEFINE usable == {i \in DOMAIN candidates :
                         candidates[i] # <<>> /\ ~RepeatsAToken(candidates[i])}
           near == {p \in (DOMAIN candidates) \X (DOMAIN candidates) :
                         NearDuplicate(candidates[p[1]], candidates[p[2]])}
           r == Sift(candidates, usable, near)
           f == First(3, r)
<1>1. \A a, b \in DOMAIN candidates :
         <<a, b>> \in near <=> NearDuplicate(candidates[a], candidates[b])
  OBVIOUS
<1>2. \A a \in DOMAIN candidates :
         a \in usable <=> candidates[a] # <<>> /\ ~RepeatsAToken(candidates[a])
  OBVIOUS
<1>3. SelectQueries(candidates) = f
  BY DEF SelectQueries, QueriesPerOpportunity
<1> HIDE DEF usable, near
<1>4. r \in Seq(Text) /\ Sifted(r, candidates, usable, near)
  BY SiftSound
<1> HIDE DEF r
<1>5. PICK pos \in [DOMAIN r -> usable \cap DOMAIN candidates] :
        /\ \A j \in DOMAIN r : r[j] = candidates[pos[j]]
        /\ \A j, k \in DOMAIN r :
              j < k => pos[j] < pos[k] /\ <<pos[j], pos[k]>> \notin near
        /\ \A i \in usable \cap DOMAIN candidates : \E j \in DOMAIN r :
              pos[j] = i \/ <<pos[j], i>> \in near
  BY <1>4 DEF Sifted
<1>6. \A j \in DOMAIN r : pos[j] \in DOMAIN candidates /\ r[j] \in Text
  BY <1>4, <1>5
<1>7. \A j \in DOMAIN r : r[j] # <<>> /\ ~RepeatsAToken(r[j])
  BY <1>2, <1>5, <1>6
<1>8. ASSUME NEW j \in DOMAIN r, NEW k \in DOMAIN r, j < k PROVE Words(r[j]) # Words(r[k])
  <2>1. ~NearDuplicate(r[j], r[k])
    BY <1>1, <1>5, <1>6, <1>8
  <2> QED
    BY <1>6, <1>7, <2>1, SameWordsAreNear
<1>9. ASSUME NEW i \in DOMAIN candidates, candidates[i] # <<>>, ~RepeatsAToken(candidates[i])
      PROVE  \E j \in DOMAIN r : r[j] = candidates[i] \/ NearDuplicate(r[j], candidates[i])
  <2>1. PICK j \in DOMAIN r : pos[j] = i \/ <<pos[j], i>> \in near
    BY <1>2, <1>5, <1>9
  <2> QED
    BY <1>1, <1>5, <1>6, <2>1
<1>10. /\ f \in Seq(Text) /\ Len(f) = IF Len(r) < 3 THEN Len(r) ELSE 3
       /\ \A j \in DOMAIN f : j \in DOMAIN r /\ f[j] = r[j]
  <2>1. 3 \in Nat
    OBVIOUS
  <2> QED
    BY <1>4, <2>1, FirstSound
<1>11. Len(r) \in Nat /\ DOMAIN r = 1 .. Len(r) /\ DOMAIN f = 1 .. Len(f)
  BY <1>4, <1>10
<1> HIDE DEF f
<1>12. Len(f) < 3 => DOMAIN r = DOMAIN f
  BY <1>10, <1>11
<1>13. Len(f) <= 3
  BY <1>10, <1>11
<1> QED
  BY <1>3, <1>7, <1>8, <1>9, <1>10, <1>12, <1>13

\* The four methods are texts.
LEMMA MethodsAreTexts == \A m \in 1 .. 4 : MethodTerms[m] \in Text
<1>1. \A m \in 1 .. 4 : m \in DOMAIN MethodTerms
  BY DEF MethodTerms
<1>2. \A m \in 1 .. 4 : MethodTerms[m] \in ToSet(MethodTerms)
  BY <1>1 DEF ToSet
<1> QED
  BY <1>2, WordsAssumption

\* The words of two texts one after the other.
LEMMA JoinedTexts ==
    ASSUME NEW p \in Text, NEW q \in Text
    PROVE  p \o q \in Text /\ Words(p \o q) = Words(p) \cup Words(q)
BY ConcatSound DEF Text, Words

\* The six candidates are texts.
LEMMA CandidatesAreTexts ==
    ASSUME NEW terms \in Seq(Text), terms # <<>>
    PROVE  /\ CandidateQueries(terms) \in Seq(Text)
           /\ DOMAIN CandidateQueries(terms) = 1 .. 6
<1> DEFINE term(i) == terms[(i % Len(terms)) + 1]
           with(t, m) == t \o MethodTerms[m]
<1>1. Len(terms) \in Nat \ {0} /\ DOMAIN terms = 1 .. Len(terms)
  OBVIOUS
<1>2. ASSUME NEW i \in 0 .. 2 PROVE term(i) \in Text
  <2>1. (i % Len(terms)) + 1 \in 1 .. Len(terms)
    BY <1>1
  <2> HIDE DEF Text
  <2> QED
    BY <1>1, <2>1
<1>3. \A t \in Text, m \in 1 .. 4 : with(t, m) \in Text
  BY MethodsAreTexts, JoinedTexts
<1> DEFINE first == IF Len(terms) > 1 THEN term(0) \o term(1) ELSE with(term(0), 1)
<1> HIDE DEF term, with
<1>4. first \in Text
  BY <1>2, <1>3, JoinedTexts
<1>5. CandidateQueries(terms) = <<first, with(term(1), 1), with(term(2), 2),
          with(term(0), 2), with(term(0), 3), with(term(0), 4)>>
  BY DEF CandidateQueries, first, term, with
<1>6. /\ with(term(1), 1) \in Text /\ with(term(2), 2) \in Text
      /\ with(term(0), 2) \in Text /\ with(term(0), 3) \in Text /\ with(term(0), 4) \in Text
  BY <1>2, <1>3
<1> HIDE DEF first
<1>7. \A T : \A a, b, c, d, e, f \in T :
         <<a, b, c, d, e, f>> \in Seq(T) /\ DOMAIN <<a, b, c, d, e, f>> = 1 .. 6
  OBVIOUS
<1> QED
  BY <1>4, <1>5, <1>6, <1>7

\* What a plan of research is, when there is one.
PlanOfThree(plan) ==
    plan # NoPlan =>
        /\ plan \in [queries : Seq(Text), concepts : Seq(Text)]
        /\ ThreeDifferent(plan.queries)

\* The tables' plan has three different searches.
LEMMA ConceptPlanSound ==
    ASSUME NEW s \in ResearchSubject
    PROVE  PlanOfThree(ConceptPlan(s))
<1> DEFINE terms == DomainTerms(s)
           f == SelectQueries(CandidateQueries(terms))
<1>1. terms \in Seq(Text)
  BY DomainTermsSound
<1> SUFFICES ASSUME terms # <<>>, ~ Len(f) < QueriesPerOpportunity
             PROVE  PlanOfThree(ConceptPlan(s))
  BY DEF ConceptPlan, PlanOfThree
<1>2. ConceptPlan(s) = [queries |-> f, concepts |-> terms]
  BY DEF ConceptPlan
<1>3. CandidateQueries(terms) \in Seq(Text)
  BY <1>1, CandidatesAreTexts
<1>4. /\ f \in Seq(Text) /\ Len(f) <= 3
      /\ \A j, k \in DOMAIN f : j < k => Words(f[j]) # Words(f[k])
  BY <1>3, SelectQueriesSound
<1>5. ~ Len(f) < 3
  BY DEF QueriesPerOpportunity
<1> HIDE DEF f, terms, Text
<1>a. f \in Seq(Text) /\ Len(f) \in Nat
  BY <1>4
<1>b. Len(f) = 3
  <2> DEFINE n == Len(f)
  <2>1. n \in Nat /\ n <= 3 /\ ~ n < 3
    BY <1>4, <1>5, <1>a
  <2> HIDE DEF n
  <2>2. n = 3
    BY <2>1
  <2> QED
    BY <2>2 DEF n
<1>6. Len(f) = 3 /\ DOMAIN f = 1 .. 3
  BY <1>a, <1>b
<1>7. ThreeDifferent(f)
  BY <1>4, <1>6 DEF ThreeDifferent
<1> QED
  BY <1>1, <1>2, <1>4, <1>7 DEF PlanOfThree

\* And so has what is left of a model's answer.
LEMMA ModelPlanSound ==
    ASSUME NEW answer \in ResearchAnswers, NEW s \in ResearchSubject
    PROVE  PlanOfThree(ModelPlan(answer, s))
<1> DEFINE queries == answer.queries
           usable == {i \in DOMAIN queries : Usable(queries[i], s.industry)}
           same == {p \in (DOMAIN queries) \X (DOMAIN queries) :
                       Words(queries[p[1]]) = Words(queries[p[2]])}
           r == Sift(queries, usable, same)
           left == Keep(answer.concepts, ToSet(answer.concepts) \ {<<>>})
           c == Distinct(left)
<1>1. queries \in Seq(Text) /\ answer.concepts \in Seq(Text)
  BY AnswersAssumption
<1>2. c \in Seq(Text)
  <2>1. left \in Seq(Text)
    BY <1>1, KeepSound
  <2> HIDE DEF left
  <2> QED
    BY <2>1, DistinctSound
<1>3. \A a, b \in DOMAIN queries :
         Words(queries[a]) = Words(queries[b]) => <<a, b>> \in same
  OBVIOUS
<1>4. ModelPlan(answer, s) =
         IF Len(r) = QueriesPerOpportunity /\ c # <<>>
         THEN [queries |-> r, concepts |-> c] ELSE NoPlan
  BY DEF ModelPlan, CleanQueries, CleanConcepts
<1> HIDE DEF usable, same, c, queries
<1>5. r \in Seq(Text) /\ Sifted(r, queries, usable, same)
  BY <1>1, SiftSound
<1> HIDE DEF r
<1>6. PICK pos \in [DOMAIN r -> usable \cap DOMAIN queries] :
        /\ \A j \in DOMAIN r : r[j] = queries[pos[j]]
        /\ \A j, k \in DOMAIN r :
              j < k => pos[j] < pos[k] /\ <<pos[j], pos[k]>> \notin same
  BY <1>5 DEF Sifted
<1>7. \A j, k \in DOMAIN r : j < k => Words(r[j]) # Words(r[k])
  BY <1>3, <1>6
<1>8. Len(r) = 3 => DOMAIN r = 1 .. 3
  BY <1>5
<1>9. Len(r) = 3 => ThreeDifferent(r)
  BY <1>7, <1>8 DEF ThreeDifferent
<1> HIDE DEF Text
<1> QED
  BY <1>2, <1>4, <1>5, <1>9 DEF PlanOfThree, QueriesPerOpportunity

\* The topic of a subject: at most three words of its problem and of its
\* industry, none twice.
LEMMA TopicSound ==
    ASSUME NEW s \in ResearchSubject
    PROVE  /\ Topic(s) \in Text /\ Len(Topic(s)) <= 3
           /\ \A j, k \in DOMAIN Topic(s) : j # k => Topic(s)[j] # Topic(s)[k]
           /\ Words(Topic(s)) \subseteq
                 (Words(s.problem) \cup Words(s.industry)) \ QueryStopwords
<1> DEFINE long(text) == {w \in Words(text) : Len(w) > 2 /\ w \notin QueryStopwords}
           words == TopicWords(s.problem)
           more == TopicWords(s.industry)
           broad == IF Len(words) < 2 THEN words \o more ELSE words
           d == Distinct(broad)
<1>1. s.problem \in Text /\ s.industry \in Text
  BY DEF ResearchSubject
<1>2. ASSUME NEW text \in Text
      PROVE  TopicWords(text) \in Text /\ Words(TopicWords(text)) \subseteq Words(text) \ QueryStopwords
  <2>1. TopicWords(text) = Keep(text, long(text))
    BY DEF TopicWords
  <2>2. long(text) \cap QueryStopwords = {}
    OBVIOUS
  <2> HIDE DEF long
  <2>3. Keep(text, long(text)) \in Seq(STRING)
        /\ ToSet(Keep(text, long(text))) = ToSet(text) \cap long(text)
    BY KeepSound DEF Text
  <2> QED
    BY <2>1, <2>2, <2>3 DEF Text, Words
<1> HIDE DEF words, more
<1>3. /\ words \in Text /\ Words(words) \subseteq Words(s.problem) \ QueryStopwords
      /\ more \in Text /\ Words(more) \subseteq Words(s.industry) \ QueryStopwords
  BY <1>1, <1>2 DEF words, more
<1>4. words \o more \in Text /\ Words(words \o more) = Words(words) \cup Words(more)
  BY <1>3, JoinedTexts
<1>5. /\ broad \in Text
      /\ Words(broad) \subseteq (Words(s.problem) \cup Words(s.industry)) \ QueryStopwords
  BY <1>3, <1>4
<1> HIDE DEF broad
<1>6. /\ d \in Seq(STRING) /\ ToSet(d) = ToSet(broad)
      /\ \A j, k \in DOMAIN d : j # k => d[j] # d[k]
  BY <1>5, DistinctSound DEF Text
<1> HIDE DEF d
<1>7. Topic(s) = First(3, d)
  BY DEF Topic, d, broad, words, more
<1>8. 3 \in Nat
  OBVIOUS
<1>9. /\ First(3, d) \in Seq(STRING)
      /\ Len(First(3, d)) = IF Len(d) < 3 THEN Len(d) ELSE 3
      /\ \A j \in DOMAIN First(3, d) : j \in DOMAIN d /\ First(3, d)[j] = d[j]
  BY <1>6, <1>8, FirstSound
<1>10. Len(d) \in Nat
  BY <1>6
<1>11. ToSet(First(3, d)) \subseteq ToSet(d)
  BY <1>9 DEF ToSet
<1> QED
  BY <1>5, <1>6, <1>7, <1>9, <1>10, <1>11 DEF Text, Words

\* The families the templates make are texts.
LEMMA TemplatePlanTyped ==
    ASSUME NEW s \in ResearchSubject
    PROVE  TemplatePlan(s) \in Families
<1> DEFINE t == Topic(s)
<1>1. t \in Text
  BY TopicSound
<1> HIDE DEF t
<1>2. \A T : \A u, v, w \in T :
         <<u>> \in Seq(T) /\ <<u, v>> \in Seq(T) /\ <<u, v, w>> \in Seq(T)
  OBVIOUS
<1>3. /\ <<"problems">> \in Text /\ <<"challenges">> \in Text
      /\ <<"why", "is">> \in Text /\ <<"so", "difficult">> \in Text
      /\ <<"software">> \in Text /\ <<"platform">> \in Text
      /\ <<"best">> \in Text /\ <<"tools">> \in Text
  BY <1>2, WordsAssumption DEF Text
<1> DEFINE whyT == <<"why", "is">> \o t
           bestT == <<"best">> \o t
<1>4. whyT \in Text /\ bestT \in Text
  BY <1>1, <1>3, JoinedTexts
<1> DEFINE demand == <<t \o <<"problems">>, t \o <<"challenges">>, whyT \o <<"so", "difficult">>>>
           rivals == <<t \o <<"software">>, t \o <<"platform">>, bestT \o <<"tools">>>>
<1>5. TemplatePlan(s) = IF Len(t) < 2 THEN NoPlan
                        ELSE [demand |-> demand, competitors |-> rivals]
  BY DEF TemplatePlan, t
<1> HIDE DEF whyT, bestT
<1>6. demand \in Seq(Text) /\ rivals \in Seq(Text)
  BY <1>1, <1>2, <1>3, <1>4, JoinedTexts
<1> HIDE DEF demand, rivals, Text
<1> QED
  BY <1>5, <1>6 DEF Families

\* A run that is past its research has three different searches, and pays for
\* them.
ResearchInv ==
    /\ TypeOK
    /\ stage \in {"web", "ask_web", "assemble", "search"} =>
          research # NoPlan /\ PlanOfThree(research)
    /\ ThreeDifferentSearches

\* A plan that passes is one of research, and only the stage moves with it.
LEMMA PlannedIsResearch ==
    ASSUME NEW plan, PlanOfThree(plan), ValidResearch(plan), Planned(plan),
           UNCHANGED <<subject, web>>, ResearchInv
    PROVE  ResearchInv'
<1>1. plan \in [queries : Seq(Text), concepts : Seq(Text)] /\ plan # NoPlan
  BY DEF PlanOfThree, ValidResearch
<1>2. research' = plan /\ stage' \in {"search", "web"} /\ UNCHANGED <<outcome, bought>>
  BY DEF Planned
<1> HIDE DEF Text, ResearchSubject
<1>3. TypeOK'
  BY <1>1, <1>2 DEF ResearchInv, TypeOK, Plans, Families
<1>4. ThreeDifferentSearches'
  BY <1>2 DEF ResearchInv, ThreeDifferentSearches
<1> QED
  BY <1>1, <1>2, <1>3, <1>4 DEF ResearchInv

\* A run that ends keeps what it has.
LEMMA EndKeepsResearch ==
    ASSUME NEW how \in {"unavailable", "provider_error", "web_error", "rejected"}, End(how),
           UNCHANGED <<subject, web, research>>, ResearchInv
    PROVE  ResearchInv'
<1>1. stage' = "ended" /\ outcome' = how /\ UNCHANGED bought
  BY DEF End
<1>2. TypeOK'
  BY <1>1 DEF ResearchInv, TypeOK, Plans, Families
<1>3. ThreeDifferentSearches'
  BY <1>1 DEF ResearchInv, ThreeDifferentSearches
<1> QED
  BY <1>1, <1>2, <1>3 DEF ResearchInv

\* A step to another stage of the same plan.
LEMMA StageKeepsResearch ==
    ASSUME ResearchInv, web' \in Families, UNCHANGED <<subject, research, bought>>,
           outcome' \in {"none", "unavailable", "provider_error", "web_error",
                         "rejected", "searched"},
           stage' \in {"ask_research", "ended"}
              \/ /\ stage' \in {"web", "ask_web", "assemble", "search"}
                 /\ stage \in {"web", "ask_web", "assemble", "search"}
    PROVE  ResearchInv'
<1>1. TypeOK'
  BY DEF ResearchInv, TypeOK, Plans
<1>2. ThreeDifferentSearches'
  BY DEF ResearchInv, ThreeDifferentSearches
<1> QED
  BY <1>1, <1>2 DEF ResearchInv

\* The invariant of the research.
LEMMA ResearchInductive == Spec => []ResearchInv
<1>1. ASSUME Init PROVE ResearchInv
  BY <1>1, SubjectsAssumption
     DEF Init, ResearchInv, TypeOK, Plans, Families, ThreeDifferentSearches
<1>2. ASSUME ResearchInv, [Next]_vars PROVE ResearchInv'
  <2> USE <1>2
  <2>0. /\ subject \in ResearchSubject /\ web \in Families
        /\ outcome \in {"none", "unavailable", "provider_error", "web_error",
                       "rejected", "searched"}
    BY DEF ResearchInv, TypeOK
  <2>1. CASE PlanResearch
    <3> DEFINE plan == ConceptPlan(subject)
    <3>0. PlanOfThree(plan) /\ UNCHANGED <<subject, web>>
      BY <2>0, <2>1, ConceptPlanSound DEF PlanResearch
    <3>1. CASE ValidResearch(plan) /\ Planned(plan)
      BY <3>0, <3>1, PlannedIsResearch
    <3>2. CASE stage' = "ask_research" /\ UNCHANGED <<research, outcome, bought>>
      BY <2>0, <3>0, <3>2, StageKeepsResearch
    <3>3. CASE End("unavailable") /\ UNCHANGED research
      BY <3>0, <3>3, EndKeepsResearch
    <3> QED
      BY <2>1, <3>1, <3>2, <3>3 DEF PlanResearch
  <2>2. CASE AskResearchModel
    <3>0. UNCHANGED <<subject, web>>
      BY <2>2 DEF AskResearchModel
    <3>1. CASE End("provider_error") /\ UNCHANGED research
      BY <3>0, <3>1, EndKeepsResearch
    <3>2. ASSUME NEW answer \in ResearchAnswers,
                 \/ /\ ValidResearch(ModelPlan(answer, subject))
                    /\ Planned(ModelPlan(answer, subject))
                 \/ End("unavailable") /\ UNCHANGED research
          PROVE  ResearchInv'
      <4>1. PlanOfThree(ModelPlan(answer, subject))
        BY <2>0, ModelPlanSound
      <4> QED
        BY <3>0, <3>2, <4>1, PlannedIsResearch, EndKeepsResearch
    <3> QED
      BY <2>2, <3>1, <3>2 DEF AskResearchModel
  <2>3. CASE PlanWeb
    <3>0. /\ TemplatePlan(subject) \in Families
          /\ stage = "web" /\ UNCHANGED <<subject, research>>
      BY <2>0, <2>3, TemplatePlanTyped DEF PlanWeb
    <3>1. CASE web' = TemplatePlan(subject) /\ stage' = "assemble" /\ UNCHANGED <<outcome, bought>>
      BY <2>0, <3>0, <3>1, StageKeepsResearch
    <3>2. CASE stage' = "ask_web" /\ UNCHANGED <<web, outcome, bought>>
      BY <2>0, <3>0, <3>2, StageKeepsResearch
    <3>3. CASE End("rejected") /\ UNCHANGED web
      BY <3>0, <3>3, EndKeepsResearch
    <3> QED
      BY <2>3, <3>1, <3>2, <3>3 DEF PlanWeb
  <2>4. CASE AskWebModel
    <3>0. stage = "ask_web" /\ UNCHANGED <<subject, research>>
      BY <2>4 DEF AskWebModel
    <3>1. CASE web' \in WebAnswers /\ stage' = "assemble" /\ UNCHANGED <<outcome, bought>>
      <4>1. web' \in Families
        BY <3>1, AnswersAssumption DEF Families
      <4> QED
        BY <2>0, <3>0, <3>1, <4>1, StageKeepsResearch
    <3>2. CASE End("rejected") /\ UNCHANGED web
      BY <3>0, <3>2, EndKeepsResearch
    <3>3. CASE End("web_error") /\ UNCHANGED web
      BY <3>0, <3>3, EndKeepsResearch
    <3> QED
      BY <2>4, <3>1, <3>2, <3>3 DEF AskWebModel
  <2>5. CASE Assemble
    <3>1. /\ stage = "assemble" /\ stage' \in {"search", "ended"}
          /\ outcome' \in {outcome, "rejected"}
          /\ UNCHANGED <<subject, research, web, bought>>
      BY <2>5 DEF Assemble
    <3> QED
      BY <2>0, <3>1, StageKeepsResearch
  <2>6. CASE Search
    <3>1. /\ stage = "search" /\ stage' = "ended" /\ outcome' = "searched"
          /\ bought' = [research |-> research, web |-> web, locale |-> LocaleFor(subject)]
          /\ UNCHANGED <<subject, research, web>>
      BY <2>6 DEF Search
    <3>2. LocaleFor(subject) \in {"in", "us"}
      BY DEF LocaleFor
    <3>3. research \in Plans /\ web \in Families
      BY DEF ResearchInv, TypeOK
    <3>4. bought' \in [research : Plans, web : Families, locale : {"in", "us"}]
      BY <3>1, <3>2, <3>3
    <3>5. TypeOK'
      BY <3>1, <3>4 DEF ResearchInv, TypeOK
    <3>6. bought'.research = research /\ ThreeDifferent(research.queries)
      BY <3>1 DEF ResearchInv, PlanOfThree
    <3>7. ThreeDifferentSearches'
      BY <3>6 DEF ThreeDifferentSearches, ThreeDifferent
    <3> QED
      BY <3>1, <3>5, <3>7 DEF ResearchInv
  <2>7. CASE Ended \/ UNCHANGED vars
    <3>1. UNCHANGED vars
      BY <2>7 DEF Ended
    <3> QED
      BY <3>1 DEF vars, ResearchInv, TypeOK, ThreeDifferentSearches, Plans, Families
  <2> QED
    BY <2>1, <2>2, <2>3, <2>4, <2>5, <2>6, <2>7 DEF Next
<1> QED
  BY <1>1, <1>2, PTL DEF Spec

\* Whatever the models answer, every plan is a list of texts: _clean_queries
\* and the templates make nothing else of their words.
THEOREM PlansAreTyped == Spec => []TypeOK
<1>1. ResearchInv => TypeOK
  BY DEF ResearchInv
<1> QED
  BY <1>1, ResearchInductive, PTL

\* The research a run pays for is three searches of different words, for any
\* subject and any answer of the model (select_queries, _clean_queries).
THEOREM ThreeSearchesDiffer == Spec => []ThreeDifferentSearches
<1>1. ResearchInv => ThreeDifferentSearches
  BY DEF ResearchInv
<1> QED
  BY <1>1, ResearchInductive, PTL

-----------------------------------------------------------------------------
(* Web families: the length and the words of the templates. *)

\* The texts whose words have a length.
Spelled(q) == q \in Text /\ \A i \in 1 .. Len(q) : Len(q[i]) \in Nat

\* f adds up the lengths of the words of q.
Sums(f, q) ==
    /\ f \in [0 .. Len(q) -> Nat]
    /\ f[0] = 0
    /\ \A i \in 1 .. Len(q) : f[i] = f[i - 1] + Len(q[i])

\* The characters of a text are those of its words and the spaces between.
LEMMA CharsSound ==
    ASSUME NEW q, Spelled(q)
    PROVE  \E f : Sums(f, q) /\ Chars(q) = f[Len(q)] + Len(q) - 1
<1>0. PICK n \in Nat : n = Len(q) /\ \A i \in 1 .. n : Len(q[i]) \in Nat
  BY DEF Spelled, Text
<1> DEFINE step == [p \in (1 .. n) \X Nat |-> p[2] + Len(q[p[1]])]
           Rec(f) == f = [i \in 0 .. n |-> IF i = 0 THEN 0 ELSE f[i - 1] + Len(q[i])]
           upto == CHOOSE f : Rec(f)
<1>1. \E f : Rec(f)
  <2>1. step \in [(1 .. n) \X Nat -> Nat]
    BY <1>0
  <2>2. Folds(n, Nat, 0, step)
    <3> HIDE DEF step
    <3> QED
      BY <1>0, <2>1, FoldExists
  <2>3. PICK f \in [0 .. n -> Nat] :
           f[0] = 0 /\ \A i \in 1 .. n : f[i] = step[<<i, f[i - 1]>>]
    <3> HIDE DEF step
    <3> QED
      BY <2>2 DEF Folds
  <2>4. ASSUME NEW i \in 1 .. n PROVE f[i] = f[i - 1] + Len(q[i])
    <3>1. f[i - 1] \in Nat
      BY <2>4
    <3>2. <<i, f[i - 1]>> \in (1 .. n) \X Nat
      BY <3>1
    <3>3. step[<<i, f[i - 1]>>] = f[i - 1] + Len(q[i])
      BY <3>2
    <3> HIDE DEF step
    <3> QED
      BY <2>3, <3>3
  <2>5. f = [i \in 0 .. n |-> f[i]]
    BY <2>3
  <2>6. \A i \in 0 .. n : f[i] = IF i = 0 THEN 0 ELSE f[i - 1] + Len(q[i])
    <3> SUFFICES ASSUME NEW i \in 0 .. n
                 PROVE  f[i] = IF i = 0 THEN 0 ELSE f[i - 1] + Len(q[i])
      OBVIOUS
    <3>1. CASE i = 0
      BY <2>3, <3>1
    <3>2. CASE i # 0
      <4>1. i \in 1 .. n
        BY <3>2
      <4> QED
        BY <2>4, <3>2, <4>1
    <3> QED
      BY <3>1, <3>2
  <2>7. Rec(f)
    BY <2>5, <2>6
  <2> QED
    BY <2>7
<1>2. Rec(upto)
  <2> HIDE DEF Rec
  <2> QED
    BY <1>1
<1>3. Chars(q) = upto[n] + n - 1
  BY <1>0 DEF Chars
<1> HIDE DEF upto
<1> DEFINE S == {i \in 0 .. n : upto[i] \in Nat}
<1>4. /\ upto[0] = 0 /\ DOMAIN upto = 0 .. n
      /\ \A i \in 1 .. n : upto[i] = upto[i - 1] + Len(q[i])
  BY <1>2
<1>5. \A i \in 0 .. n : i \in S
  <2>1. 0 \in S
    BY <1>4
  <2>2. ASSUME NEW i \in 0 .. n, i # n, i \in S PROVE i + 1 \in S
    <3>1. i + 1 \in 1 .. n /\ (i + 1) - 1 = i
      BY <2>2
    <3>2. upto[i + 1] = upto[i] + Len(q[i + 1])
      BY <1>4, <3>1
    <3> QED
      BY <1>0, <2>2, <3>1, <3>2
  <2> HIDE DEF S
  <2> QED
    BY <2>1, <2>2, Induction
<1>6. upto \in [0 .. n -> Nat]
  BY <1>2, <1>5
<1>7. Sums(upto, q)
  BY <1>0, <1>4, <1>6 DEF Sums
<1> QED
  BY <1>0, <1>3, <1>7

\* Two texts one after the other are a space longer than the two.
LEMMA CharsJoined ==
    ASSUME NEW p, NEW q, Spelled(p), Spelled(q)
    PROVE  /\ Spelled(p \o q)
           /\ Chars(p) \in Int /\ Chars(q) \in Int
           /\ Chars(p \o q) = Chars(p) + Chars(q) + 1
<1>0. PICK m \in Nat, n \in Nat : m = Len(p) /\ n = Len(q)
  BY DEF Spelled, Text
<1> DEFINE r == p \o q
<1>1. /\ r \in Text /\ Len(r) = m + n
      /\ \A i \in 1 .. m : r[i] = p[i]
      /\ \A i \in 1 .. n : r[m + i] = q[i]
  BY <1>0 DEF Spelled, Text
<1> HIDE DEF r
<1>2. Spelled(r)
  <2> SUFFICES ASSUME NEW i \in 1 .. m + n PROVE Len(r[i]) \in Nat
    BY <1>1 DEF Spelled
  <2>1. CASE i \in 1 .. m
    BY <1>0, <1>1, <2>1 DEF Spelled
  <2>2. CASE i \notin 1 .. m
    <3>1. i - m \in 1 .. n /\ m + (i - m) = i
      BY <2>2
    <3>2. r[i] = q[i - m]
      BY <1>1, <3>1
    <3> QED
      BY <1>0, <3>1, <3>2 DEF Spelled
  <2> QED
    BY <2>1, <2>2
<1>3. PICK f : Sums(f, p) /\ Chars(p) = f[Len(p)] + Len(p) - 1
  BY CharsSound
<1>4. PICK g : Sums(g, q) /\ Chars(q) = g[Len(q)] + Len(q) - 1
  BY CharsSound
<1>5. PICK h : Sums(h, r) /\ Chars(r) = h[Len(r)] + Len(r) - 1
  BY <1>2, CharsSound
<1>6. /\ f[0] = 0 /\ \A i \in 0 .. m : f[i] \in Nat
      /\ \A i \in 1 .. m : f[i] = f[i - 1] + Len(p[i])
  BY <1>0, <1>3 DEF Sums
<1>7. /\ g[0] = 0 /\ \A i \in 0 .. n : g[i] \in Nat
      /\ \A i \in 1 .. n : g[i] = g[i - 1] + Len(q[i])
  BY <1>0, <1>4 DEF Sums
<1>8. /\ h[0] = 0 /\ \A i \in 0 .. m + n : h[i] \in Nat
      /\ \A i \in 1 .. m + n : h[i] = h[i - 1] + Len(r[i])
  BY <1>0, <1>1, <1>5 DEF Sums
<1>9. h[m] = f[m]
  <2> DEFINE S == {i \in 0 .. m : h[i] = f[i]}
  <2>1. 0 \in S
    BY <1>6, <1>8
  <2>2. ASSUME NEW i \in 0 .. m, i # m, i \in S PROVE i + 1 \in S
    <3>1. i + 1 \in 1 .. m /\ i + 1 \in 1 .. m + n /\ (i + 1) - 1 = i
      BY <2>2
    <3>2. h[i + 1] = h[i] + Len(r[i + 1]) /\ f[i + 1] = f[i] + Len(p[i + 1])
      BY <1>6, <1>8, <3>1
    <3> QED
      BY <1>1, <2>2, <3>1, <3>2
  <2>3. m \in 0 .. m
    OBVIOUS
  <2> HIDE DEF S
  <2>4. m \in S
    BY <2>1, <2>2, <2>3, Induction
  <2> QED
    BY <2>4 DEF S
<1>10. h[m + n] = f[m] + g[n]
  <2> DEFINE S == {i \in 0 .. n : h[m + i] = f[m] + g[i]}
  <2>1. 0 \in S
    BY <1>6, <1>7, <1>9
  <2>2. ASSUME NEW i \in 0 .. n, i # n, i \in S PROVE i + 1 \in S
    <3>1. i + 1 \in 1 .. n /\ (i + 1) - 1 = i
      BY <2>2
    <3>2. m + (i + 1) \in 1 .. m + n /\ (m + (i + 1)) - 1 = m + i
      BY <3>1
    <3>3. h[m + (i + 1)] = h[m + i] + Len(r[m + (i + 1)])
      BY <1>8, <3>2
    <3>4. g[i + 1] = g[i] + Len(q[i + 1]) /\ r[m + (i + 1)] = q[i + 1]
      BY <1>1, <1>7, <3>1
    <3>5. h[m + i] = f[m] + g[i] /\ f[m] \in Nat /\ g[i] \in Nat
      BY <1>6, <1>7, <2>2
    <3>6. Len(q[i + 1]) \in Nat
      BY <1>0, <3>1 DEF Spelled
    <3>7. h[m + (i + 1)] = f[m] + g[i + 1]
      BY <3>3, <3>4, <3>5, <3>6
    <3> QED
      BY <3>1, <3>7
  <2>3. n \in 0 .. n
    OBVIOUS
  <2> HIDE DEF S
  <2>4. n \in S
    BY <2>1, <2>2, <2>3, Induction
  <2> QED
    BY <2>4 DEF S
<1>11. f[m] \in Nat /\ g[n] \in Nat
  BY <1>6, <1>7
<1>12. Chars(p) = f[m] + m - 1 /\ Chars(q) = g[n] + n - 1 /\ Chars(r) = h[m + n] + (m + n) - 1
  BY <1>0, <1>1, <1>3, <1>4, <1>5
<1> QED
  BY <1>2, <1>10, <1>11, <1>12 DEF r

\* A word is as long as it is spelled.
LEMMA CharsOfAWord ==
    ASSUME NEW w, <<w>> \in Text, Len(w) \in Nat
    PROVE  Spelled(<<w>>) /\ Chars(<<w>>) = Len(w)
<1> DEFINE q == <<w>>
<1>1. q \in Text /\ Len(q) = 1 /\ q[1] = w
  OBVIOUS
<1> HIDE DEF q
<1>2. Spelled(q)
  BY <1>1 DEF Spelled
<1>3. PICK f : Sums(f, q) /\ Chars(q) = f[Len(q)] + Len(q) - 1
  BY <1>2, CharsSound
<1>4. 1 \in 1 .. Len(q) /\ 1 - 1 = 0
  BY <1>1
<1>5. f[0] = 0 /\ f[1] = f[1 - 1] + Len(q[1])
  BY <1>3, <1>4 DEF Sums
<1>6. f[1] = Len(w)
  BY <1>1, <1>4, <1>5
<1>7. Chars(q) = f[1] + 1 - 1
  BY <1>1, <1>3
<1>8. Chars(q) = Len(w)
  BY <1>6, <1>7
<1> QED
  BY <1>2, <1>8 DEF q

\* Queries that share no more than three words, and not all of theirs, are
\* not near duplicates.
LEMMA FewCommonWordsAreFar ==
    ASSUME NEW p \in Text, NEW q \in Text, NEW W, NEW x,
           IsFiniteSet(W), Cardinality(W) <= 3,
           Words(p) \cap Words(q) \subseteq W, W \subseteq Words(p) \cup Words(q),
           x \in (Words(p) \cup Words(q)) \ W
    PROVE  ~NearDuplicate(p, q)
<1> DEFINE both == Words(p) \cap Words(q)
           any == Words(p) \cup Words(q)
           w == Cardinality(W)
           b == Cardinality(both)
           a == Cardinality(any)
<1>1. IsFiniteSet(Words(p)) /\ IsFiniteSet(Words(q))
  BY WordsFinite DEF Text
<1>2. IsFiniteSet(any)
  BY <1>1, FS_Union
<1>3. IsFiniteSet(both) /\ b <= w
  <2>1. both \subseteq W
    OBVIOUS
  <2> HIDE DEF both
  <2> QED
    BY <2>1, FS_Subset
<1>4. w < a
  <2>1. W \subseteq any /\ W # any
    OBVIOUS
  <2> HIDE DEF any
  <2>2. Cardinality(W) <= Cardinality(any) /\ (Cardinality(W) = Cardinality(any) => W = any)
    BY <1>2, <2>1, FS_Subset
  <2>3. Cardinality(W) \in Nat /\ Cardinality(any) \in Nat
    BY <1>2, FS_CardinalityType
  <2> QED
    BY <2>1, <2>2, <2>3
<1>5. w \in Nat /\ a \in Nat /\ b \in Nat
  BY <1>2, <1>3, FS_CardinalityType
<1>6. w <= 3
  OBVIOUS
<1> HIDE DEF w, a, b
<1>7. ~ 10 * b >= 8 * a
  BY <1>3, <1>4, <1>5, <1>6
<1> QED
  BY <1>7 DEF NearDuplicate, a, b, both, any

\* A family of three texts that are short enough, of its intent, and far from
\* one another.
LEMMA FamilyOfThree ==
    ASSUME NEW p \in Text, NEW q \in Text, NEW r \in Text, NEW markers,
           p # <<>>, q # <<>>, r # <<>>,
           Chars(p) <= MaxQueryChars, Chars(q) <= MaxQueryChars, Chars(r) <= MaxQueryChars,
           Words(p) \cap markers # {}, Words(q) \cap markers # {}, Words(r) \cap markers # {},
           ~NearDuplicate(p, q), ~NearDuplicate(p, r), ~NearDuplicate(q, r)
    PROVE  ValidFamily(<<p, q, r>>, markers)
<1> DEFINE f == <<p, q, r>>
<1>1. Len(f) = 3 /\ DOMAIN f = 1 .. 3 /\ f[1] = p /\ f[2] = q /\ f[3] = r
  OBVIOUS
<1> HIDE DEF f
<1>2. \A x \in ToSet(f) : x \in {p, q, r}
  BY <1>1 DEF ToSet
<1>3. \A x \in ToSet(f) :
         x # <<>> /\ Chars(x) <= MaxQueryChars /\ Words(x) \cap markers # {}
  BY <1>2
<1>4. ASSUME NEW i \in 1 .. 3, NEW j \in 1 .. 3, i < j PROVE ~NearDuplicate(f[i], f[j])
  <2>1. i \in {1, 2, 3} /\ j \in {1, 2, 3}
    OBVIOUS
  <2> QED
    BY <1>1, <1>4, <2>1
<1>5. ValidFamily(f, markers)
  BY <1>1, <1>3, <1>4 DEF ValidFamily
<1> QED
  BY <1>5 DEF f

\* One word as a text.
LEMMA OneWord ==
    ASSUME NEW w \in STRING
    PROVE  <<w>> \in Text /\ Words(<<w>>) = {w} /\ <<w>> # <<>>
<1>1. \A W : \A v \in W : /\ <<v>> \in Seq(W) /\ <<v>> # <<>>
                          /\ {<<v>>[i] : i \in DOMAIN <<v>>} = {v}
  OBVIOUS
<1> QED
  BY <1>1 DEF Text, Words, ToSet

\* The words of the templates.
TemplateWords == {"why", "is", "so", "difficult", "problems", "challenges",
                  "software", "platform", "best", "tools"}

\* Each of them is a text of its own, shorter than the longest template.
LEMMA TemplateWordsSound ==
    ASSUME NEW w \in TemplateWords
    PROVE  /\ <<w>> \in Text /\ Words(<<w>>) = {w} /\ <<w>> # <<>>
           /\ Spelled(<<w>>) /\ Chars(<<w>>) = Len(w)
           /\ Len(w) \in Nat /\ Len(w) < Len("why is  so difficult")
<1>1. w \in STRING
  BY WordsAssumption DEF TemplateWords
<1>2. Len(w) \in Nat /\ Len(w) < Len("why is  so difficult")
  BY LengthsAssumption DEF TemplateWords
<1> QED
  BY <1>1, <1>2, OneWord, CharsOfAWord

\* Two texts one after the other: their words, their length, and not blank.
LEMMA SpelledJoined ==
    ASSUME NEW p, NEW q, Spelled(p), Spelled(q), p # <<>> \/ q # <<>>
    PROVE  /\ Spelled(p \o q) /\ p \o q \in Text /\ p \o q # <<>>
           /\ Words(p \o q) = Words(p) \cup Words(q)
           /\ Chars(p) \in Int /\ Chars(q) \in Int
           /\ Chars(p \o q) = Chars(p) + Chars(q) + 1
<1>1. p \in Text /\ q \in Text
  BY DEF Spelled
<1>2. p \o q # <<>>
  BY <1>1 DEF Text
<1> QED
  BY <1>1, <1>2, JoinedTexts, CharsJoined

\* The topic of a subject to research is spelled.
LEMMA TopicSpelled ==
    ASSUME NEW s \in Subjects
    PROVE  /\ Spelled(Topic(s))
           /\ IsFiniteSet(Words(Topic(s)))
           /\ Cardinality(Words(Topic(s))) <= Len(Topic(s)) /\ Len(Topic(s)) <= 3
           /\ Words(Topic(s)) \cap QueryStopwords = {}
<1>1. s \in ResearchSubject
  BY SubjectsAssumption
<1>2. s.problem \in Text /\ s.industry \in Text
  BY <1>1 DEF ResearchSubject
<1>3. Words(s.problem \o s.industry) = Words(s.problem) \cup Words(s.industry)
  BY <1>2, JoinedTexts
<1> DEFINE t == Topic(s)
<1>4. /\ t \in Text /\ Len(t) <= 3
      /\ Words(t) \subseteq (Words(s.problem) \cup Words(s.industry)) \ QueryStopwords
  BY <1>1, TopicSound
<1> HIDE DEF t
<1>5. \A w \in Words(t) : Len(w) \in Nat
  BY <1>3, <1>4, LengthsAssumption
<1>6. \A i \in 1 .. Len(t) : t[i] \in Words(t)
  BY <1>4 DEF Words, ToSet, Text
<1>7. Spelled(t)
  BY <1>4, <1>5, <1>6 DEF Spelled
<1>8. IsFiniteSet(Words(t)) /\ Cardinality(Words(t)) <= Len(t)
  BY <1>4, WordsFinite DEF Text
<1>9. Words(t) \cap QueryStopwords = {}
  BY <1>4
<1> QED
  BY <1>4, <1>7, <1>8, <1>9 DEF t

\* A template that adds one word to its topic.
LEMMA CompletedTopic ==
    ASSUME NEW t, Spelled(t), NEW w \in TemplateWords
    PROVE  /\ t \o <<w>> \in Text /\ t \o <<w>> # <<>>
           /\ Words(t \o <<w>>) = Words(t) \cup {w}
           /\ Chars(t) \in Int /\ Chars(t \o <<w>>) = Chars(t) + Len(w) + 1
<1>1. Spelled(<<w>>) /\ <<w>> # <<>> /\ Words(<<w>>) = {w} /\ Chars(<<w>>) = Len(w)
  BY TemplateWordsSound
<1> QED
  BY <1>1, SpelledJoined

\* The longest template: why is the topic so difficult.
LEMMA WhyTopic ==
    ASSUME NEW t, Spelled(t)
    PROVE  LET q == <<"why", "is">> \o t \o <<"so", "difficult">> IN
           /\ q \in Text /\ q # <<>>
           /\ Words(q) = Words(t) \cup {"why", "is", "so", "difficult"}
           /\ Chars(q) = Chars(t) + Len("why is  so difficult")
<1> DEFINE pair(u, v) == <<u>> \o <<v>>
<1>1. <<"why", "is">> = pair("why", "is") /\ <<"so", "difficult">> = pair("so", "difficult")
  OBVIOUS
<1>2. ASSUME NEW u \in TemplateWords, NEW v \in TemplateWords
      PROVE  /\ Spelled(pair(u, v)) /\ pair(u, v) # <<>>
             /\ Words(pair(u, v)) = {u, v}
             /\ Chars(pair(u, v)) = Len(u) + Len(v) + 1
             /\ Len(u) \in Nat /\ Len(v) \in Nat
  <2>1. /\ Spelled(<<u>>) /\ <<u>> # <<>> /\ Words(<<u>>) = {u} /\ Chars(<<u>>) = Len(u)
        /\ Spelled(<<v>>) /\ <<v>> # <<>> /\ Words(<<v>>) = {v} /\ Chars(<<v>>) = Len(v)
        /\ Len(u) \in Nat /\ Len(v) \in Nat
    BY TemplateWordsSound
  <2>2. Words(<<u>>) \cup Words(<<v>>) = {u, v}
    BY <2>1
  <2> QED
    BY <2>1, <2>2, SpelledJoined
<1> DEFINE a == pair("why", "is")
           b == pair("so", "difficult")
<1>3. /\ Spelled(a) /\ a # <<>> /\ Words(a) = {"why", "is"}
      /\ Chars(a) = Len("why") + Len("is") + 1
      /\ Len("why") \in Nat /\ Len("is") \in Nat
  BY <1>2 DEF TemplateWords
<1>4. /\ Spelled(b) /\ b # <<>> /\ Words(b) = {"so", "difficult"}
      /\ Chars(b) = Len("so") + Len("difficult") + 1
      /\ Len("so") \in Nat /\ Len("difficult") \in Nat
  BY <1>2 DEF TemplateWords
<1> HIDE DEF a, b
<1> DEFINE at == a \o t
<1>5. /\ Spelled(at) /\ at # <<>> /\ Words(at) = Words(a) \cup Words(t)
      /\ Chars(at) = Chars(a) + Chars(t) + 1 /\ Chars(t) \in Int
  BY <1>3, SpelledJoined
<1> HIDE DEF at
<1>6. /\ at \o b \in Text /\ at \o b # <<>> /\ Words(at \o b) = Words(at) \cup Words(b)
      /\ Chars(at \o b) = Chars(at) + Chars(b) + 1
  BY <1>4, <1>5, SpelledJoined
<1>7. Words(at \o b) = Words(t) \cup {"why", "is", "so", "difficult"}
  BY <1>3, <1>4, <1>5, <1>6
<1>8. Chars(at \o b) = Chars(t) + (Len("why") + Len("is") + Len("so") + Len("difficult") + 4)
  BY <1>3, <1>4, <1>5, <1>6
<1>9. Chars(at \o b) = Chars(t) + Len("why is  so difficult")
  BY <1>8, LengthsAssumption
<1> QED
  BY <1>1, <1>6, <1>7, <1>9 DEF at, a, b

\* The best tools of a topic.
LEMMA BestTopic ==
    ASSUME NEW t, Spelled(t)
    PROVE  LET q == <<"best">> \o t \o <<"tools">> IN
           /\ q \in Text /\ q # <<>>
           /\ Words(q) = Words(t) \cup {"best", "tools"}
           /\ Chars(q) = Chars(t) + (Len("best") + Len("tools") + 2)
<1>1. /\ Spelled(<<"best">>) /\ <<"best">> # <<>> /\ Words(<<"best">>) = {"best"}
      /\ Chars(<<"best">>) = Len("best") /\ Len("best") \in Nat
      /\ Len("tools") \in Nat
  BY TemplateWordsSound DEF TemplateWords
<1> DEFINE bt == <<"best">> \o t
<1>2. /\ Spelled(bt) /\ Words(bt) = {"best"} \cup Words(t)
      /\ Chars(bt) = Len("best") + Chars(t) + 1 /\ Chars(t) \in Int
  BY <1>1, SpelledJoined
<1> HIDE DEF bt
<1>3. "tools" \in TemplateWords
  BY DEF TemplateWords
<1>4. /\ bt \o <<"tools">> \in Text /\ bt \o <<"tools">> # <<>>
      /\ Words(bt \o <<"tools">>) = Words(bt) \cup {"tools"}
      /\ Chars(bt \o <<"tools">>) = Chars(bt) + Len("tools") + 1
  BY <1>2, <1>3, CompletedTopic
<1>5. Words(bt \o <<"tools">>) = Words(t) \cup {"best", "tools"}
  BY <1>2, <1>4
<1>6. Chars(bt \o <<"tools">>) = Chars(t) + (Len("best") + Len("tools") + 2)
  BY <1>1, <1>2, <1>4
<1> QED
  BY <1>4, <1>5, <1>6 DEF bt

\* The templates serve a topic that is not hard.
LEMMA TemplatesServe ==
    ASSUME NEW s \in Subjects, ~HardTopic(s)
    PROVE  ValidWeb(TemplatePlan(s))
<1> DEFINE t == Topic(s)
           W == Words(t)
           N == Len("why is  so difficult")
<1>1. /\ Spelled(t) /\ IsFiniteSet(W) /\ Cardinality(W) <= Len(t) /\ Len(t) <= 3
      /\ W \cap QueryStopwords = {} /\ Cardinality(W) \in Nat /\ Len(t) \in Nat
  BY TopicSpelled, FS_CardinalityType DEF Spelled, Text
<1>2. /\ ~ Cardinality(W) < 2
      /\ ~ {"problems", "challenges"} \subseteq W
      /\ ~ {"software", "platform"} \subseteq W
      /\ ~ ({"best", "tools"} \subseteq W /\ W \cap {"software", "platform"} # {})
      /\ ~ Chars(t) + N > MaxQueryChars
  BY DEF HardTopic
<1> HIDE DEF W
<1>3. ~ Len(t) < 2 /\ Cardinality(W) <= 3
  <2> DEFINE n == Len(t)
             m == Cardinality(W)
  <2>1. n \in Nat /\ m \in Nat /\ m <= n /\ n <= 3 /\ ~ m < 2
    BY <1>1, <1>2
  <2> HIDE DEF n, m
  <2>2. ~ n < 2 /\ m <= 3
    BY <2>1
  <2> QED
    BY <2>2 DEF n, m
<1> DEFINE p == t \o <<"problems">>
           c == t \o <<"challenges">>
           y == <<"why", "is">> \o t \o <<"so", "difficult">>
           o == t \o <<"software">>
           f == t \o <<"platform">>
           b == <<"best">> \o t \o <<"tools">>
<1>4. TemplatePlan(s) = [demand |-> <<p, c, y>>, competitors |-> <<o, f, b>>]
  BY <1>3 DEF TemplatePlan
<1> HIDE DEF t
<1>5. "why" \notin W
  BY <1>1 DEF QueryStopwords
<1>6. \A w \in TemplateWords : Len(w) \in Nat /\ Len(w) < N
  BY TemplateWordsSound
<1>7. \A w \in TemplateWords :
         /\ t \o <<w>> \in Text /\ t \o <<w>> # <<>>
         /\ Words(t \o <<w>>) = W \cup {w}
         /\ Chars(t) \in Int /\ Chars(t \o <<w>>) = Chars(t) + Len(w) + 1
  BY <1>1, CompletedTopic DEF W
<1>8. N \in Nat /\ Chars(t) \in Int /\ MaxQueryChars \in Nat
      /\ Len("best") + Len("tools") + 2 <= N
      /\ Len("best") \in Nat /\ Len("tools") \in Nat
  <2>1. /\ Len("why") \in Nat /\ Len("is") \in Nat /\ Len("so") \in Nat
        /\ Len("difficult") \in Nat /\ Len("best") \in Nat /\ Len("tools") \in Nat
    BY <1>6 DEF TemplateWords
  <2>a. /\ Len("why") + Len("is") + Len("so") + Len("difficult") + 4 = N
        /\ Len("best") + Len("tools") + 2 <= N
    BY LengthsAssumption
  <2> HIDE DEF N
  <2>2. N \in Nat /\ Len("best") + Len("tools") + 2 <= N
    BY <2>1, <2>a
  <2>3. Chars(t) \in Int
    BY <1>7 DEF TemplateWords
  <2> QED
    BY <2>1, <2>2, <2>3, AnswersAssumption
<1> HIDE DEF N
<1>9. Chars(t) + N <= MaxQueryChars
  BY <1>2, <1>8
<1>10. ASSUME NEW w \in TemplateWords PROVE Chars(t \o <<w>>) <= MaxQueryChars
  <2>1. Chars(t \o <<w>>) = Chars(t) + Len(w) + 1 /\ Len(w) \in Nat /\ Len(w) < N
    BY <1>6, <1>7
  <2> DEFINE l == Len(w)
             x == Chars(t)
             z == Chars(t \o <<w>>)
  <2>2. z = x + l + 1 /\ l \in Nat /\ l < N /\ x \in Int /\ x + N <= MaxQueryChars
    BY <1>8, <1>9, <2>1
  <2> HIDE DEF l, x, z
  <2>3. z <= MaxQueryChars
    BY <1>8, <2>2
  <2> QED
    BY <2>3 DEF z
<1>p. /\ p \in Text /\ p # <<>> /\ Words(p) = W \cup {"problems"}
      /\ Chars(p) <= MaxQueryChars
  BY <1>7, <1>10 DEF TemplateWords
<1>c. /\ c \in Text /\ c # <<>> /\ Words(c) = W \cup {"challenges"}
      /\ Chars(c) <= MaxQueryChars
  BY <1>7, <1>10 DEF TemplateWords
<1>o. /\ o \in Text /\ o # <<>> /\ Words(o) = W \cup {"software"}
      /\ Chars(o) <= MaxQueryChars
  BY <1>7, <1>10 DEF TemplateWords
<1>f. /\ f \in Text /\ f # <<>> /\ Words(f) = W \cup {"platform"}
      /\ Chars(f) <= MaxQueryChars
  BY <1>7, <1>10 DEF TemplateWords
<1>y. /\ y \in Text /\ y # <<>> /\ Words(y) = W \cup {"why", "is", "so", "difficult"}
      /\ Chars(y) <= MaxQueryChars
  BY <1>1, <1>9, WhyTopic DEF W, N
<1>b. /\ b \in Text /\ b # <<>> /\ Words(b) = W \cup {"best", "tools"}
      /\ Chars(b) <= MaxQueryChars
  <2>1. /\ b \in Text /\ b # <<>> /\ Words(b) = W \cup {"best", "tools"}
        /\ Chars(b) = Chars(t) + (Len("best") + Len("tools") + 2)
    BY <1>1, BestTopic DEF W
  <2> QED
    BY <1>8, <1>9, <2>1
<1> HIDE DEF p, c, y, o, f, b
<1>11. ~NearDuplicate(p, c) /\ ~NearDuplicate(p, y) /\ ~NearDuplicate(c, y)
  <2>1. PICK x \in {"problems", "challenges"} : x \notin W
    BY <1>2
  <2>2. ~NearDuplicate(p, c)
    BY <1>1, <1>3, <1>p, <1>c, <2>1, FewCommonWordsAreFar
  <2>3. ~NearDuplicate(p, y)
    BY <1>1, <1>3, <1>5, <1>p, <1>y, FewCommonWordsAreFar
  <2>4. ~NearDuplicate(c, y)
    BY <1>1, <1>3, <1>5, <1>c, <1>y, FewCommonWordsAreFar
  <2> QED
    BY <2>2, <2>3, <2>4
<1>12. ~NearDuplicate(o, f) /\ ~NearDuplicate(o, b) /\ ~NearDuplicate(f, b)
  <2>1. PICK x \in {"software", "platform"} : x \notin W
    BY <1>2
  <2>2. ~NearDuplicate(o, f)
    BY <1>1, <1>3, <1>o, <1>f, <2>1, FewCommonWordsAreFar
  <2>3. PICK u \in {"software", "best", "tools"} : u \notin W
    BY <1>2
  <2>4. ~NearDuplicate(o, b)
    BY <1>1, <1>3, <1>o, <1>b, <2>3, FewCommonWordsAreFar
  <2>5. PICK v \in {"platform", "best", "tools"} : v \notin W
    BY <1>2
  <2>6. ~NearDuplicate(f, b)
    BY <1>1, <1>3, <1>f, <1>b, <2>5, FewCommonWordsAreFar
  <2> QED
    BY <2>2, <2>4, <2>6
<1>13. /\ Words(p) \cap DemandMarkers # {} /\ Words(c) \cap DemandMarkers # {}
       /\ Words(y) \cap DemandMarkers # {}
  BY <1>p, <1>c, <1>y DEF DemandMarkers
<1>14. /\ Words(o) \cap CompetitorMarkers # {} /\ Words(f) \cap CompetitorMarkers # {}
       /\ Words(b) \cap CompetitorMarkers # {}
  BY <1>o, <1>f, <1>b DEF CompetitorMarkers
<1>15. ValidFamily(<<p, c, y>>, DemandMarkers)
  BY <1>p, <1>c, <1>y, <1>11, <1>13, FamilyOfThree
<1>16. ValidFamily(<<o, f, b>>, CompetitorMarkers)
  BY <1>o, <1>f, <1>b, <1>12, <1>14, FamilyOfThree
<1>17. [demand |-> <<p, c, y>>, competitors |-> <<o, f, b>>] # NoPlan
  <2>1. \A T : \A u, v, w \in T : <<u, v, w>> \in Seq(T)
    OBVIOUS
  <2>2. <<p, c, y>> \in Seq(Text) /\ <<o, f, b>> \in Seq(Text)
    BY <1>p, <1>c, <1>y, <1>o, <1>f, <1>b, <2>1
  <2> DEFINE d == <<p, c, y>>
             r == <<o, f, b>>
  <2> HIDE DEF d, r
  <2>3. [demand |-> d, competitors |-> r] \in [demand : Seq(Text), competitors : Seq(Text)]
    BY <2>2 DEF d, r
  <2> QED
    BY <2>3, AnswersAssumption DEF d, r
<1> QED
  BY <1>4, <1>15, <1>16, <1>17 DEF ValidWeb

\* What a refusal says of a subject: a run that has its research and its web
\* families is never refused where they are put together.
WebInv ==
    /\ subject \in Subjects
    /\ stage = "assemble" => ValidWeb(web)
    /\ stage = "ask_web" \/ outcome = "rejected" => ~ValidWeb(TemplatePlan(subject))

\* Three searches and two families of three at most are never too many.
LEMMA AssembleAccepts ==
    ASSUME ResearchInv, WebInv, stage = "assemble"
    PROVE  Acceptable(research, web)
<1>1. ValidWeb(web) /\ Len(research.queries) = 3
  BY DEF ResearchInv, PlanOfThree, ThreeDifferent, WebInv
<1>2. Len(web.demand) \in 2 .. 3 /\ Len(web.competitors) \in 2 .. 3
  BY <1>1 DEF ValidWeb, ValidFamily
<1>3. Len(web.demand) + Len(web.competitors) <= 6
  <2> DEFINE d == Len(web.demand)
             c == Len(web.competitors)
  <2>1. d \in 2 .. 3 /\ c \in 2 .. 3
    BY <1>2
  <2> HIDE DEF d, c
  <2>2. d + c <= 6
    BY <2>1
  <2> QED
    BY <2>2 DEF d, c
<1> QED
  BY <1>1, <1>3 DEF Acceptable

\* The invariant of the web families.
LEMMA WebInductive == Spec => []WebInv
<1>1. ASSUME Init PROVE WebInv
  BY <1>1 DEF Init, WebInv
<1>2. ASSUME ResearchInv, WebInv, [Next]_vars PROVE WebInv'
  <2> USE <1>2
  <2>1. CASE PlanResearch
    BY <2>1 DEF PlanResearch, Planned, End, WebInv
  <2>2. CASE AskResearchModel
    BY <2>2 DEF AskResearchModel, Planned, End, WebInv
  <2>3. CASE PlanWeb
    BY <2>3 DEF PlanWeb, End, WebInv
  <2>4. CASE AskWebModel
    BY <2>4 DEF AskWebModel, End, WebInv
  <2>5. CASE Assemble
    <3>1. Acceptable(research, web)
      BY <2>5, AssembleAccepts DEF Assemble
    <3>2. stage' = "search" /\ UNCHANGED <<subject, web, outcome>>
      BY <2>5, <3>1 DEF Assemble
    <3> QED
      BY <3>2 DEF WebInv
  <2>6. CASE Search
    BY <2>6 DEF Search, WebInv
  <2>7. CASE Ended \/ UNCHANGED vars
    BY <2>7 DEF Ended, vars, WebInv
  <2> QED
    BY <2>1, <2>2, <2>3, <2>4, <2>5, <2>6, <2>7 DEF Next
<1> QED
  BY <1>1, <1>2, ResearchInductive, PTL DEF Spec

\* Only a hard topic is ever refused or handed to a web model: the templates
\* of TemplateWebQueryGenerator pass validate_web_family for every other one,
\* and validate_plan refuses nothing that came so far.
THEOREM TemplatesAreEnough == Spec => []TemplatesServeTheRest
<1>1. WebInv => TemplatesServeTheRest
  BY TemplatesServe DEF WebInv, TemplatesServeTheRest
<1> QED
  BY <1>1, WebInductive, PTL

-----------------------------------------------------------------------------
(* The wording the tables know is served by them. *)

\* How many words are in one query and not in the other: at least three.
Far(p, q) ==
    Cardinality(Words(p)) + Cardinality(Words(q))
      >= 2 * Cardinality(Words(p) \cap Words(q)) + 3

\* A search that can be kept: none of its words twice, and at most six.
Fit(q) == q \in Text /\ q # <<>> /\ ~RepeatsAToken(q) /\ Len(q) <= 6

\* The words two queries share are no more than those of either.
LEMMA SharedWords ==
    ASSUME NEW p \in Text, NEW q \in Text
    PROVE  /\ IsFiniteSet(Words(p)) /\ IsFiniteSet(Words(q)) /\ IsFiniteSet(Words(p) \cap Words(q))
           /\ Cardinality(Words(p)) \in Nat /\ Cardinality(Words(q)) \in Nat
           /\ Cardinality(Words(p) \cap Words(q)) \in Nat
           /\ Cardinality(Words(p) \cap Words(q)) <= Cardinality(Words(q))
           /\ Cardinality(Words(p) \cup Words(q)) =
                 Cardinality(Words(p)) + Cardinality(Words(q)) - Cardinality(Words(p) \cap Words(q))
<1>1. IsFiniteSet(Words(p)) /\ IsFiniteSet(Words(q))
  BY WordsFinite DEF Text
<1> DEFINE both == Words(p) \cap Words(q)
<1>2. both \subseteq Words(q)
  OBVIOUS
<1>3. IsFiniteSet(both) /\ Cardinality(both) <= Cardinality(Words(q))
  <2> HIDE DEF both
  <2> QED
    BY <1>1, <1>2, FS_Subset
<1>4. Cardinality(Words(p) \cup Words(q)) =
        Cardinality(Words(p)) + Cardinality(Words(q)) - Cardinality(both)
  BY <1>1, FS_Union
<1> QED
  BY <1>1, <1>3, <1>4, FS_CardinalityType

\* A near duplicate of a query of six words differs from it in one at most.
LEMMA NearIsClose ==
    ASSUME NEW x \in Text, NEW q, Fit(q), x = q \/ NearDuplicate(x, q)
    PROVE  Cardinality(Words(x)) + Cardinality(Words(q))
              <= 2 * Cardinality(Words(x) \cap Words(q)) + 1
<1>0. q \in Text
  BY DEF Fit
<1> DEFINE a == Cardinality(Words(x))
           b == Cardinality(Words(q))
           i == Cardinality(Words(x) \cap Words(q))
           u == Cardinality(Words(x) \cup Words(q))
<1>1. /\ a \in Nat /\ b \in Nat /\ i \in Nat /\ i <= b /\ u = a + b - i
  BY <1>0, SharedWords
<1>2. b <= 6
  <2>1. b <= Len(q) /\ Len(q) \in Nat
    BY <1>0, WordsFinite DEF Text
  <2>2. Len(q) <= 6
    BY DEF Fit
  <2> DEFINE n == Len(q)
  <2>3. b <= n /\ n \in Nat /\ n <= 6
    BY <2>1, <2>2
  <2> HIDE DEF n, b
  <2> QED
    BY <1>1, <2>3
<1>3. CASE x = q
  <2>1. Words(x) \cap Words(q) = Words(q)
    BY <1>3
  <2>2. a = b /\ i = b
    BY <1>3, <2>1
  <2> HIDE DEF a, b, i
  <2>3. a + b <= 2 * i + 1
    BY <1>1, <2>2
  <2> QED
    BY <2>3 DEF a, b, i
<1>4. CASE NearDuplicate(x, q)
  <2>1. 10 * i >= 8 * u
    BY <1>4 DEF NearDuplicate
  <2> HIDE DEF a, b, i, u
  <2>2. a + b <= 2 * i + 1
    BY <1>1, <1>2, <2>1
  <2> QED
    BY <2>2 DEF a, b, i
<1> QED
  BY <1>3, <1>4

\* No query is near two that are far from each other.
LEMMA FarFromOneAnother ==
    ASSUME NEW p, NEW q, Fit(p), Fit(q), Far(p, q), NEW x \in Text,
           x = p \/ NearDuplicate(x, p), x = q \/ NearDuplicate(x, q)
    PROVE  FALSE
<1>0. p \in Text /\ q \in Text
  BY DEF Fit
<1> DEFINE P == Words(x) \cap Words(p)
           Q == Words(x) \cap Words(q)
           B == Words(p) \cap Words(q)
           cx == Cardinality(Words(x))
           cp == Cardinality(Words(p))
           cq == Cardinality(Words(q))
           ip == Cardinality(P)
           iq == Cardinality(Q)
           b == Cardinality(B)
           u == Cardinality(P \cup Q)
           i == Cardinality(P \cap Q)
<1>1. /\ cx + cp <= 2 * ip + 1 /\ cx + cq <= 2 * iq + 1
  BY NearIsClose
<1>2. /\ IsFiniteSet(Words(x)) /\ IsFiniteSet(P) /\ IsFiniteSet(Q) /\ IsFiniteSet(B)
      /\ cx \in Nat /\ cp \in Nat /\ cq \in Nat /\ ip \in Nat /\ iq \in Nat /\ b \in Nat
  BY <1>0, SharedWords
<1>3. cp + cq >= 2 * b + 3
  BY DEF Far
<1>4. P \cup Q \subseteq Words(x) /\ P \cap Q \subseteq B
  OBVIOUS
<1> HIDE DEF P, Q, B
<1>5. u <= cx
  BY <1>2, <1>4, FS_Subset
<1>6. i <= b
  BY <1>2, <1>4, FS_Subset
<1>7. u = ip + iq - i
  BY <1>2, FS_Union
<1>8. i \in Nat
  <2>1. IsFiniteSet(P \cap Q)
    BY <1>2, <1>4, FS_Subset
  <2> QED
    BY <2>1, FS_CardinalityType
<1> HIDE DEF cx, cp, cq, ip, iq, b, u, i
<1> QED
  BY <1>1, <1>2, <1>3, <1>5, <1>6, <1>7, <1>8

\* Three candidates far from one another are enough for a plan.
LEMMA ThreeAreFound ==
    ASSUME NEW candidates \in Seq(Text),
           NEW i \in DOMAIN candidates, NEW j \in DOMAIN candidates, NEW k \in DOMAIN candidates,
           Fit(candidates[i]), Fit(candidates[j]), Fit(candidates[k]),
           Far(candidates[i], candidates[j]), Far(candidates[i], candidates[k]),
           Far(candidates[j], candidates[k])
    PROVE  Len(SelectQueries(candidates)) = 3
<1> DEFINE f == SelectQueries(candidates)
           close(q, x) == x = q \/ NearDuplicate(x, q)
<1>1. /\ f \in Seq(Text) /\ Len(f) <= 3
      /\ Len(f) < 3 =>
            \A h \in DOMAIN candidates :
               candidates[h] # <<>> /\ ~RepeatsAToken(candidates[h]) =>
                  \E l \in DOMAIN f : close(candidates[h], f[l])
  BY SelectQueriesSound
<1> HIDE DEF f
<1>2. Len(f) \in Nat /\ DOMAIN f = 1 .. Len(f)
  BY <1>1
<1>3. SUFFICES ASSUME Len(f) < 3 PROVE FALSE
  <2> DEFINE n == Len(f)
  <2>1. n \in Nat /\ n <= 3 /\ ~ n < 3
    BY <1>1, <1>2, <1>3
  <2> HIDE DEF n
  <2>2. n = 3
    BY <2>1
  <2> QED
    BY <2>2 DEF n, f
<1> DEFINE a == candidates[i]
           b == candidates[j]
           c == candidates[k]
<1>4. /\ a # <<>> /\ ~RepeatsAToken(a) /\ b # <<>> /\ ~RepeatsAToken(b)
      /\ c # <<>> /\ ~RepeatsAToken(c)
  BY DEF Fit
<1>5. /\ \E l \in DOMAIN f : close(a, f[l])
      /\ \E l \in DOMAIN f : close(b, f[l])
      /\ \E l \in DOMAIN f : close(c, f[l])
  BY <1>1, <1>3, <1>4
<1>6. /\ Fit(a) /\ Fit(b) /\ Fit(c) /\ Far(a, b) /\ Far(a, c) /\ Far(b, c)
  OBVIOUS
<1> HIDE DEF a, b, c
<1>7. PICK la \in DOMAIN f : close(a, f[la])
  BY <1>5
<1>8. PICK lb \in DOMAIN f : close(b, f[lb])
  BY <1>5
<1>9. PICK lc \in DOMAIN f : close(c, f[lc])
  BY <1>5
<1>10. f[la] \in Text /\ f[lb] \in Text /\ f[lc] \in Text
  BY <1>1
<1>11. la # lb
  BY <1>6, <1>7, <1>8, <1>10, FarFromOneAnother
<1>12. la # lc
  BY <1>6, <1>7, <1>9, <1>10, FarFromOneAnother
<1>13. lb # lc
  BY <1>6, <1>8, <1>9, <1>10, FarFromOneAnother
<1>14. la \in {1, 2} /\ lb \in {1, 2} /\ lc \in {1, 2}
  BY <1>2, <1>3
<1> QED
  BY <1>11, <1>12, <1>13, <1>14

\* A term of the tables, or one of the generator's own for a word it does not
\* know, when it does not add that word itself.
GoodTerm(t) == t \in TableTerms \/ \E w \in STRING \ AddedWords : t = <<w, "systems">>

\* The methods share no word.
LEMMA MethodsApart ==
    /\ Words(MethodTerms[1]) = {"optimization"} /\ Len(MethodTerms[1]) = 1
    /\ Words(MethodTerms[2]) = {"demand", "forecasting"} /\ Len(MethodTerms[2]) = 2
    /\ Words(MethodTerms[3]) = {"resource", "allocation"} /\ Len(MethodTerms[3]) = 2
    /\ Words(MethodTerms[4]) = {"predictive", "modelling"} /\ Len(MethodTerms[4]) = 2
<1>1. /\ MethodTerms[1] = <<"optimization">>
      /\ MethodTerms[2] = <<"demand", "forecasting">>
      /\ MethodTerms[3] = <<"resource", "allocation">>
      /\ MethodTerms[4] = <<"predictive", "modelling">>
  BY DEF MethodTerms
<1>2. \A u : Words(<<u>>) = {u} /\ Len(<<u>>) = 1
  <2> SUFFICES ASSUME NEW u PROVE Words(<<u>>) = {u} /\ Len(<<u>>) = 1
    OBVIOUS
  <2> QED
    BY DEF Words, ToSet
<1>3. \A u, v : Words(<<u, v>>) = {u, v} /\ Len(<<u, v>>) = 2
  <2> SUFFICES ASSUME NEW u, NEW v PROVE Words(<<u, v>>) = {u, v} /\ Len(<<u, v>>) = 2
    OBVIOUS
  <2>1. DOMAIN <<u, v>> = {1, 2} /\ <<u, v>>[1] = u /\ <<u, v>>[2] = v
    OBVIOUS
  <2> QED
    BY <2>1 DEF Words, ToSet
<1> QED
  BY <1>1, <1>2, <1>3

\* Two different words are a set of two.
LEMMA PairsCount ==
    ASSUME NEW u, NEW v, u # v
    PROVE  IsFiniteSet({u, v}) /\ Cardinality({u, v}) = 2
<1>1. IsFiniteSet({u}) /\ Cardinality({u}) = 1
  BY FS_Singleton
<1>2. {u, v} = {u} \cup {v} /\ v \notin {u}
  OBVIOUS
<1> QED
  BY <1>1, <1>2, FS_AddElement

\* No method repeats a word.
LEMMA MethodsDoNotRepeat == \A m \in 1 .. 4 : ~RepeatsAToken(MethodTerms[m])
<1>1. ~RepeatsAToken(MethodTerms[1])
  <2>1. Cardinality({"optimization"}) = 1
    BY FS_Singleton
  <2> QED
    BY <2>1, MethodsApart DEF RepeatsAToken
<1>2. ~RepeatsAToken(MethodTerms[2])
  <2>1. Cardinality({"demand", "forecasting"}) = 2
    BY PairsCount
  <2> QED
    BY <2>1, MethodsApart DEF RepeatsAToken
<1>3. ~RepeatsAToken(MethodTerms[3])
  <2>1. Cardinality({"resource", "allocation"}) = 2
    BY PairsCount
  <2> QED
    BY <2>1, MethodsApart DEF RepeatsAToken
<1>4. ~RepeatsAToken(MethodTerms[4])
  <2>1. Cardinality({"predictive", "modelling"}) = 2
    BY PairsCount
  <2> QED
    BY <2>1, MethodsApart DEF RepeatsAToken
<1>5. \A m \in 1 .. 4 : m \in {1, 2, 3, 4}
  OBVIOUS
<1> QED
  BY <1>1, <1>2, <1>3, <1>4, <1>5

\* What is so of every term, and of those that repeat a method.
LEMMA GoodTermsSound ==
    ASSUME NEW t, GoodTerm(t)
    PROVE  /\ t \in Text /\ Len(t) \in 2 .. 3 /\ ~RepeatsAToken(t)
           /\ t \notin TableTerms => Len(t) = 2
           /\ t \notin TableTerms => \A m \in 1 .. 4 : ~Repeats(t, m)
           /\ \A m, n \in Angles : Repeats(t, m) /\ Repeats(t, n) => m = n
<1>1. CASE t \in TableTerms
  BY <1>1, WordsAssumption, TermsAssumption
<1>2. CASE t \notin TableTerms
  <2>1. PICK w \in STRING : w \notin AddedWords /\ t = <<w, "systems">>
    BY <1>2 DEF GoodTerm
  <2>2. w # "systems"
    BY <2>1 DEF AddedWords
  <2>3. \A m \in 1 .. 4 : w \notin Words(MethodTerms[m])
    <3>1. \A m \in 1 .. 4 : m \in DOMAIN MethodTerms
      BY DEF MethodTerms
    <3> QED
      BY <2>1, <3>1 DEF AddedWords, Words
  <2>4. \A m \in 1 .. 4 : "systems" \notin Words(MethodTerms[m])
    <3>1. \A m \in 1 .. 4 : m \in {1, 2, 3, 4}
      OBVIOUS
    <3> QED
      BY <3>1, MethodsApart
  <2>5. \A u, v : Words(<<u, v>>) = {u, v} /\ Len(<<u, v>>) = 2
    <3> SUFFICES ASSUME NEW u, NEW v PROVE Words(<<u, v>>) = {u, v} /\ Len(<<u, v>>) = 2
      OBVIOUS
    <3>1. DOMAIN <<u, v>> = {1, 2} /\ <<u, v>>[1] = u /\ <<u, v>>[2] = v
      OBVIOUS
    <3> QED
      BY <3>1 DEF Words, ToSet
  <2>6. Words(t) = {w, "systems"} /\ Len(t) = 2
    BY <2>1, <2>5
  <2>7. \A m \in 1 .. 4 : ~Repeats(t, m)
    BY <2>3, <2>4, <2>6 DEF Repeats
  <2>8. Cardinality(Words(t)) = 2
    BY <2>2, <2>6, PairsCount
  <2>9. ~RepeatsAToken(t)
    BY <2>6, <2>8 DEF RepeatsAToken
  <2>10. t \in Text
    <3>1. "systems" \in STRING
      BY WordsAssumption
    <3>2. \A W : \A u, v \in W : <<u, v>> \in Seq(W)
      OBVIOUS
    <3> QED
      BY <2>1, <3>1, <3>2 DEF Text
  <2>11. \A m \in Angles : m \in 1 .. 4
    BY DEF Angles
  <2> QED
    BY <1>2, <2>6, <2>7, <2>9, <2>10, <2>11
<1> QED
  BY <1>1, <1>2

\* Two texts without a word twice, and none in both, one after the other.
LEMMA JoinedIsFit ==
    ASSUME NEW p, NEW q, p \in Text, q \in Text, ~RepeatsAToken(p), ~RepeatsAToken(q),
           Len(p) \in 2 .. 3, Len(q) \in 1 .. 3, Words(p) \cap Words(q) = {}
    PROVE  /\ Fit(p \o q) /\ Words(p \o q) = Words(p) \cup Words(q)
           /\ Cardinality(Words(p)) = Len(p) /\ Cardinality(Words(q)) = Len(q)
           /\ Cardinality(Words(p \o q)) = Len(p) + Len(q)
<1> DEFINE r == p \o q
<1>1. r \in Text /\ Words(r) = Words(p) \cup Words(q)
  BY JoinedTexts
<1>2. Len(r) = Len(p) + Len(q)
  BY DEF Text
<1>3. Cardinality(Words(p)) = Len(p) /\ Cardinality(Words(q)) = Len(q)
  BY DEF RepeatsAToken
<1>4. Cardinality(Words(p) \cap Words(q)) = 0
  BY FS_EmptySet
<1> HIDE DEF r
<1> DEFINE m == Len(p)
           n == Len(q)
           c == Cardinality(Words(r))
<1>5. c = m + n - 0
  BY <1>1, <1>3, <1>4, SharedWords
<1>6. m \in 2 .. 3 /\ n \in 1 .. 3 /\ Len(r) = m + n
  BY <1>2
<1> HIDE DEF m, n, c
<1>7. c = m + n
  BY <1>5, <1>6
<1>8. Len(r) <= 6 /\ Len(r) # 0
  BY <1>6
<1>9. r # <<>>
  BY <1>8
<1>10. ~RepeatsAToken(r)
  BY <1>6, <1>7 DEF RepeatsAToken, c
<1>11. Fit(r)
  BY <1>1, <1>8, <1>9, <1>10 DEF Fit
<1> QED
  BY <1>1, <1>3, <1>7, <1>11 DEF r, m, n, c

\* The methods that complete a term, where they repeat nothing of it.
LEMMA CompletedIsFit ==
    ASSUME NEW t, GoodTerm(t), NEW m \in 1 .. 4, ~Repeats(t, m)
    PROVE  /\ Fit(t \o MethodTerms[m])
           /\ Words(t \o MethodTerms[m]) = Words(t) \cup Words(MethodTerms[m])
           /\ Cardinality(Words(t)) = Len(t)
           /\ Cardinality(Words(t \o MethodTerms[m])) = Len(t) + (IF m = 1 THEN 1 ELSE 2)
<1>1. t \in Text /\ Len(t) \in 2 .. 3 /\ ~RepeatsAToken(t)
  BY GoodTermsSound
<1>2. MethodTerms[m] \in Text /\ ~RepeatsAToken(MethodTerms[m])
  BY MethodsAreTexts, MethodsDoNotRepeat
<1>3. Len(MethodTerms[m]) = IF m = 1 THEN 1 ELSE 2
  <2>1. m \in {1, 2, 3, 4}
    OBVIOUS
  <2> QED
    BY <2>1, MethodsApart
<1>4. Len(MethodTerms[m]) \in 1 .. 3
  BY <1>3
<1>5. Words(t) \cap Words(MethodTerms[m]) = {}
  BY DEF Repeats
<1> QED
  BY <1>1, <1>2, <1>3, <1>4, <1>5, JoinedIsFit

\* A term with two different angles.
LEMMA TwoAnglesAreFar ==
    ASSUME NEW t, GoodTerm(t), NEW m \in Angles, NEW n \in Angles, m # n,
           ~Repeats(t, m), ~Repeats(t, n)
    PROVE  /\ Fit(t \o MethodTerms[m]) /\ Fit(t \o MethodTerms[n])
           /\ Far(t \o MethodTerms[m], t \o MethodTerms[n])
<1>1. m \in 1 .. 4 /\ n \in 1 .. 4 /\ m # 1 /\ n # 1
  BY DEF Angles
<1> DEFINE p == t \o MethodTerms[m]
           q == t \o MethodTerms[n]
           l == Len(t)
<1>2. /\ Fit(p) /\ Words(p) = Words(t) \cup Words(MethodTerms[m])
      /\ Cardinality(Words(p)) = l + 2 /\ Cardinality(Words(t)) = l
  BY <1>1, CompletedIsFit
<1>3. /\ Fit(q) /\ Words(q) = Words(t) \cup Words(MethodTerms[n])
      /\ Cardinality(Words(q)) = l + 2
  BY <1>1, CompletedIsFit
<1> HIDE DEF p, q
<1>4. Words(MethodTerms[m]) \cap Words(MethodTerms[n]) = {}
  <2>1. m \in {2, 3, 4} /\ n \in {2, 3, 4}
    BY DEF Angles
  <2> QED
    BY <2>1, MethodsApart
<1>5. Words(p) \cap Words(q) = Words(t)
  BY <1>2, <1>3, <1>4
<1>6. l \in 2 .. 3
  BY GoodTermsSound
<1> HIDE DEF l
<1>7. (l + 2) + (l + 2) >= 2 * l + 3
  BY <1>6
<1>8. Far(p, q)
  BY <1>2, <1>3, <1>5, <1>7 DEF Far
<1> QED
  BY <1>2, <1>3, <1>8 DEF p, q

\* The optimization of a term, and an angle of a term of the tables.
LEMMA OptimizationIsFar ==
    ASSUME NEW t \in TableTerms, NEW u, GoodTerm(u), NEW n \in Angles,
           ~Repeats(t, n), ~Repeats(t, 1), ~Repeats(u, 1)
    PROVE  /\ Fit(u \o MethodTerms[1])
           /\ Far(u \o MethodTerms[1], t \o MethodTerms[n])
<1>0. GoodTerm(t)
  BY DEF GoodTerm
<1>1. n \in 1 .. 4 /\ n # 1 /\ 1 \in 1 .. 4
  BY DEF Angles
<1> DEFINE p == u \o MethodTerms[1]
           q == t \o MethodTerms[n]
           T == Words(t) \cup Words(MethodTerms[n])
           B == Words(u) \cap T
           k == Len(u)
           l == Len(t)
           b == Cardinality(B)
<1>2. /\ Fit(p) /\ Words(p) = Words(u) \cup Words(MethodTerms[1])
      /\ Cardinality(Words(p)) = k + 1 /\ Cardinality(Words(u)) = k
  BY <1>1, CompletedIsFit
<1>3. /\ Fit(q) /\ Words(q) = T
      /\ Cardinality(Words(q)) = l + 2
  BY <1>0, <1>1, CompletedIsFit
<1> HIDE DEF p, q
<1>4. Words(MethodTerms[1]) \cap T = {}
  <2>1. n \in {2, 3, 4}
    BY DEF Angles
  <2>2. Words(MethodTerms[1]) \cap Words(MethodTerms[n]) = {}
    BY <2>1, MethodsApart
  <2>3. Words(MethodTerms[1]) \cap Words(t) = {}
    BY DEF Repeats
  <2> QED
    BY <2>2, <2>3
<1>5. Words(p) \cap Words(q) = B
  BY <1>2, <1>3, <1>4
<1>6. k \in 2 .. 3 /\ l \in 2 .. 3 /\ u \in Text /\ (u \notin TableTerms => k = 2)
  BY <1>0, GoodTermsSound
<1>7. IsFiniteSet(Words(u)) /\ B \subseteq Words(u)
  BY <1>6, WordsFinite DEF Text
<1> HIDE DEF B
<1>8. b \in Nat /\ b <= k /\ (b = k => B = Words(u))
  BY <1>2, <1>7, FS_Subset, FS_CardinalityType
<1>9. k = 3 /\ l = 2 => b # k
  <2> SUFFICES ASSUME k = 3, l = 2 PROVE b # k
    OBVIOUS
  <2>1. u \in TableTerms
    BY <1>6
  <2>2. ~ Words(u) \subseteq T
    BY <2>1, TermsAssumption
  <2>3. B # Words(u)
    BY <2>2 DEF B
  <2> QED
    BY <1>8, <2>3
<1> HIDE DEF k, l, b
<1>10. (k + 1) + (l + 2) >= 2 * b + 3
  BY <1>6, <1>8, <1>9
<1>11. Far(p, q)
  BY <1>2, <1>3, <1>5, <1>10 DEF Far, b
<1> QED
  BY <1>2, <1>11 DEF p, q

\* Two terms without a word in common, and an angle of the first that repeats
\* neither.
LEMMA PairIsFar ==
    ASSUME NEW t, GoodTerm(t), NEW u, GoodTerm(u), NEW n \in Angles,
           ~Repeats(t, n), ~Repeats(u, n), Words(t) \cap Words(u) = {}
    PROVE  /\ Fit(t \o u)
           /\ Far(t \o u, t \o MethodTerms[n])
<1>1. n \in 1 .. 4 /\ n # 1
  BY DEF Angles
<1> DEFINE p == t \o u
           q == t \o MethodTerms[n]
           k == Len(u)
           l == Len(t)
<1>2. /\ t \in Text /\ l \in 2 .. 3 /\ ~RepeatsAToken(t)
      /\ u \in Text /\ k \in 2 .. 3 /\ ~RepeatsAToken(u)
  BY GoodTermsSound
<1>3. k \in 1 .. 3
  BY <1>2
<1>4. /\ Fit(p) /\ Words(p) = Words(t) \cup Words(u)
      /\ Cardinality(Words(p)) = l + k /\ Cardinality(Words(t)) = l
  BY <1>2, <1>3, JoinedIsFit
<1>5. /\ Words(q) = Words(t) \cup Words(MethodTerms[n])
      /\ Cardinality(Words(q)) = l + 2
  BY <1>1, CompletedIsFit
<1>6. Words(u) \cap Words(MethodTerms[n]) = {}
  BY DEF Repeats
<1> HIDE DEF p, q
<1>7. Words(p) \cap Words(q) = Words(t)
  BY <1>4, <1>5, <1>6
<1> HIDE DEF k, l
<1>8. (l + k) + (l + 2) >= 2 * l + 3
  BY <1>2
<1>9. Far(p, q)
  BY <1>4, <1>5, <1>7, <1>8 DEF Far
<1> QED
  BY <1>4, <1>9 DEF p, q

\* The candidates a plan of the tables is always found among.
LEMMA CandidatesSound ==
    ASSUME NEW terms \in Seq(Text), terms # <<>>
    PROVE  LET c == CandidateQueries(terms)
               t == terms[1]
               u == IF Len(terms) > 1 THEN terms[2] ELSE terms[1]
           IN  /\ c[1] = t \o (IF Len(terms) > 1 THEN u ELSE MethodTerms[1])
               /\ c[2] = u \o MethodTerms[1]
               /\ \A m \in Angles : m + 2 \in 1 .. 6 /\ c[m + 2] = t \o MethodTerms[m]
<1> DEFINE n == Len(terms)
           term(i) == terms[(i % n) + 1]
           with(t, m) == t \o MethodTerms[m]
<1>1. n \in Nat \ {0}
  OBVIOUS
<1>2. 0 % n = 0 /\ 1 % n = IF n > 1 THEN 1 ELSE 0
  <2> HIDE DEF n
  <2>1. CASE n = 1
    BY <2>1
  <2>2. CASE n # 1
    BY <1>1, <2>2
  <2> QED
    BY <2>1, <2>2
<1>3. term(0) = terms[1] /\ term(1) = IF n > 1 THEN terms[2] ELSE terms[1]
  <2> HIDE DEF n
  <2> QED
    BY <1>1, <1>2
<1> DEFINE first == IF Len(terms) > 1 THEN term(0) \o term(1) ELSE with(term(0), 1)
<1> HIDE DEF term, with
<1>4. CandidateQueries(terms) = <<first, with(term(1), 1), with(term(2), 2),
          with(term(0), 2), with(term(0), 3), with(term(0), 4)>>
  BY DEF CandidateQueries, first, term, with
<1> HIDE DEF first
<1>5. /\ CandidateQueries(terms)[1] = first
      /\ CandidateQueries(terms)[2] = with(term(1), 1)
      /\ CandidateQueries(terms)[4] = with(term(0), 2)
      /\ CandidateQueries(terms)[5] = with(term(0), 3)
      /\ CandidateQueries(terms)[6] = with(term(0), 4)
  BY <1>4
<1>6. ASSUME NEW m \in Angles
      PROVE  m + 2 \in 1 .. 6 /\ CandidateQueries(terms)[m + 2] = with(term(0), m)
  <2>1. m \in {2, 3, 4}
    BY DEF Angles
  <2>2. CASE m = 2
    BY <1>5, <2>2
  <2>3. CASE m = 3
    BY <1>5, <2>3
  <2>4. CASE m = 4
    BY <1>5, <2>4
  <2> QED
    BY <2>1, <2>2, <2>3, <2>4
<1>7. first = term(0) \o (IF n > 1 THEN term(1) ELSE MethodTerms[1])
  BY DEF first, with
<1> HIDE DEF n
<1>8. n = Len(terms)
  BY DEF n
<1> QED
  BY <1>3, <1>5, <1>6, <1>7, <1>8 DEF with

\* Whatever the terms are, three searches are found: a term repeats one angle
\* at most, and one that does leaves the optimization of the next term, or the
\* two terms together.
LEMMA TermsGiveThree ==
    ASSUME NEW terms \in Seq(Text), terms # <<>>,
           \A i \in DOMAIN terms : GoodTerm(terms[i])
    PROVE  Len(SelectQueries(CandidateQueries(terms))) = 3
<1> DEFINE c == CandidateQueries(terms)
           more == Len(terms) > 1
           t == terms[1]
           u == IF more THEN terms[2] ELSE terms[1]
<1>1. c \in Seq(Text) /\ DOMAIN c = 1 .. 6
  BY CandidatesAreTexts
<1>2. /\ c[1] = t \o (IF more THEN u ELSE MethodTerms[1])
      /\ c[2] = u \o MethodTerms[1]
      /\ \A m \in Angles : m + 2 \in 1 .. 6 /\ c[m + 2] = t \o MethodTerms[m]
  BY CandidatesSound
<1>3. GoodTerm(t) /\ GoodTerm(u) /\ (~more => u = t)
  <2>1. 1 \in DOMAIN terms /\ (more => 2 \in DOMAIN terms)
    OBVIOUS
  <2> QED
    BY <2>1
<1> HIDE DEF c, t, u, more
<1>4. \A m, n \in Angles : Repeats(t, m) /\ Repeats(t, n) => m = n
  BY <1>3, GoodTermsSound
<1>5. 1 \in DOMAIN c /\ 2 \in DOMAIN c /\ \A m \in Angles : m + 2 \in DOMAIN c
  BY <1>1, <1>2
<1>6. ASSUME NEW m \in Angles, NEW n \in Angles, m # n, ~Repeats(t, m), ~Repeats(t, n)
      PROVE  Fit(c[m + 2]) /\ Fit(c[n + 2]) /\ Far(c[m + 2], c[n + 2])
  BY <1>2, <1>3, <1>6, TwoAnglesAreFar
<1>7. CASE \A m \in Angles : ~Repeats(t, m)
  <2>1. 2 \in Angles /\ 3 \in Angles /\ 4 \in Angles
    BY DEF Angles
  <2>2. /\ Fit(c[2 + 2]) /\ Fit(c[3 + 2]) /\ Fit(c[4 + 2])
        /\ Far(c[2 + 2], c[3 + 2]) /\ Far(c[2 + 2], c[4 + 2]) /\ Far(c[3 + 2], c[4 + 2])
    BY <1>6, <1>7, <2>1
  <2>3. Len(SelectQueries(c)) = 3
    BY <1>1, <1>5, <2>1, <2>2, ThreeAreFound
  <2> QED
    BY <2>3 DEF c
<1>8. CASE \E m \in Angles : Repeats(t, m)
  <2>1. PICK m \in Angles : Repeats(t, m)
    BY <1>8
  <2>2. PICK n1 \in Angles, n2 \in Angles : n1 # n2 /\ n1 # m /\ n2 # m
    BY DEF Angles
  <2>3. ~Repeats(t, n1) /\ ~Repeats(t, n2)
    BY <1>4, <2>1, <2>2
  <2>4. t \in TableTerms
    <3>1. m \in 1 .. 4
      BY DEF Angles
    <3> QED
      BY <1>3, <2>1, <3>1, GoodTermsSound
  <2>5. ~Repeats(t, 1)
    BY <2>1, <2>4, TermsAssumption
  <2>6. /\ Fit(c[n1 + 2]) /\ Fit(c[n2 + 2]) /\ Far(c[n1 + 2], c[n2 + 2])
    BY <1>6, <2>2, <2>3
  <2>7. /\ c[n1 + 2] = t \o MethodTerms[n1] /\ c[n2 + 2] = t \o MethodTerms[n2]
    BY <1>2
  <2>8. CASE ~Repeats(u, 1)
    <3>1. Fit(c[2]) /\ Far(c[2], c[n1 + 2]) /\ Far(c[2], c[n2 + 2])
      BY <1>2, <1>3, <2>3, <2>4, <2>5, <2>7, <2>8, OptimizationIsFar
    <3>2. Len(SelectQueries(c)) = 3
      BY <1>1, <1>5, <2>6, <3>1, ThreeAreFound
    <3> QED
      BY <3>2 DEF c
  <2>9. CASE Repeats(u, 1)
    <3>1. more
      BY <1>3, <2>5, <2>9
    <3>2. u \in TableTerms
      <4>1. 1 \in 1 .. 4
        OBVIOUS
      <4> QED
        BY <1>3, <2>9, <4>1, GoodTermsSound
    <3>3. Words(t) \cap Words(u) = {}
      BY <2>1, <2>4, <2>9, <3>2, TermsAssumption
    <3>4. ~Repeats(u, n1) /\ ~Repeats(u, n2)
      BY <2>9, <3>2, TermsAssumption
    <3>5. c[1] = t \o u
      BY <1>2, <3>1
    <3>6. Fit(c[1]) /\ Far(c[1], c[n1 + 2]) /\ Far(c[1], c[n2 + 2])
      BY <1>3, <2>3, <2>7, <3>3, <3>4, <3>5, PairIsFar
    <3>7. Len(SelectQueries(c)) = 3
      BY <1>1, <1>5, <2>6, <3>6, ThreeAreFound
    <3> QED
      BY <3>7 DEF c
  <2> QED
    BY <2>8, <2>9
<1> QED
  BY <1>7, <1>8

\* The words the generator would stumble over, in an industry it has no entry
\* for.
Stumbles(s) ==
    s.industry \notin DOMAIN IndustryLexicon /\ Words(s.industry) \cap AddedWords # {}

\* The terms of a subject the tables know, one of them at least from a table.
LEMMA KnownTerms ==
    ASSUME NEW s \in ResearchSubject, Known(s), ~Stumbles(s)
    PROVE  /\ \E t \in ToSet(DomainTerms(s)) : t \in TableTerms
           /\ \A t \in ToSet(DomainTerms(s)) : GoodTerm(t)
<1> DEFINE p == Recognised(s.problem)
           d == Recognised(s.description)
           i == IndustryTerms(s.industry)
           all == ToSet(DomainTerms(s))
<1>1. s.problem \in Text /\ s.description \in Text /\ s.industry \in Text
  BY DEF ResearchSubject
<1>2. /\ ToSet(p) = {Lexicon[w] : w \in Words(s.problem) \cap DOMAIN Lexicon}
      /\ ToSet(d) = {Lexicon[w] : w \in Words(s.description) \cap DOMAIN Lexicon}
  BY <1>1, RecognisedSound
<1>3. all = ToSet(p) \cup ToSet(d) \cup ToSet(i)
  BY DomainTermsSound
<1>4. /\ s.industry \in DOMAIN IndustryLexicon =>
            ToSet(i) # {} /\ ToSet(i) \subseteq TableTerms
      /\ s.industry \notin DOMAIN IndustryLexicon =>
            /\ \A t \in ToSet(i) :
                  \/ t \in TableTerms
                  \/ \E w \in Words(s.industry) : w \in STRING /\ t = <<w, "systems">>
            /\ \A w \in Words(s.industry) \cap DOMAIN Lexicon : Lexicon[w] \in ToSet(i)
  BY <1>1, IndustryTermsSound
<1> HIDE DEF p, d, i, all
<1>5. \A w \in DOMAIN Lexicon : Lexicon[w] \in TableTerms
  BY TermsAreTexts
<1>6. ASSUME NEW t \in all PROVE GoodTerm(t)
  <2>1. CASE t \in ToSet(p) \cup ToSet(d)
    BY <1>2, <1>5, <2>1 DEF GoodTerm
  <2>2. CASE t \in ToSet(i)
    <3>1. CASE s.industry \in DOMAIN IndustryLexicon
      BY <1>4, <2>2, <3>1 DEF GoodTerm
    <3>2. CASE s.industry \notin DOMAIN IndustryLexicon
      <4>1. CASE t \in TableTerms
        BY <4>1 DEF GoodTerm
      <4>2. CASE t \notin TableTerms
        <5>1. PICK w \in Words(s.industry) : w \in STRING /\ t = <<w, "systems">>
          BY <1>4, <2>2, <3>2, <4>2
        <5>2. w \notin AddedWords
          BY <3>2 DEF Stumbles
        <5> QED
          BY <5>1, <5>2 DEF GoodTerm
      <4> QED
        BY <4>1, <4>2
    <3> QED
      BY <3>1, <3>2
  <2> QED
    BY <1>3, <2>1, <2>2
<1>7. \E t \in all : t \in TableTerms
  <2>1. CASE s.industry \in DOMAIN IndustryLexicon
    BY <1>3, <1>4, <2>1
  <2>2. CASE s.industry \notin DOMAIN IndustryLexicon
    <3> DEFINE pd == s.problem \o s.description
    <3>1. pd \in Text /\ Words(pd) = Words(s.problem) \cup Words(s.description)
      BY <1>1, JoinedTexts
    <3> HIDE DEF pd
    <3>2. Words(pd \o s.industry) = Words(pd) \cup Words(s.industry)
      BY <1>1, <3>1, JoinedTexts
    <3>3. PICK w \in Words(pd \o s.industry) : w \in DOMAIN Lexicon
      BY <2>2 DEF Known, pd
    <3>4. Lexicon[w] \in ToSet(p) \cup ToSet(d) \cup ToSet(i)
      BY <1>2, <1>4, <2>2, <3>1, <3>2, <3>3
    <3> QED
      BY <1>3, <1>5, <3>3, <3>4
  <2> QED
    BY <2>1, <2>2
<1> QED
  BY <1>6, <1>7 DEF all

\* The tables plan the research of every such subject.
LEMMA TablesServe ==
    ASSUME NEW s \in ResearchSubject, Known(s), ~Stumbles(s)
    PROVE  ValidResearch(ConceptPlan(s))
<1> DEFINE terms == DomainTerms(s)
           f == SelectQueries(CandidateQueries(terms))
<1>1. terms \in Seq(Text)
  BY DomainTermsSound
<1>2. PICK t \in ToSet(terms) : t \in TableTerms
  BY KnownTerms
<1>3. \A i \in DOMAIN terms : GoodTerm(terms[i])
  BY KnownTerms DEF ToSet
<1> HIDE DEF terms
<1>4. terms # <<>>
  BY <1>2 DEF ToSet
<1>5. Len(f) = 3
  BY <1>1, <1>3, <1>4, TermsGiveThree
<1>6. /\ f \in Seq(Text) /\ \A j \in DOMAIN f : f[j] # <<>> /\ ~RepeatsAToken(f[j])
  BY <1>1, <1>4, CandidatesAreTexts, SelectQueriesSound
<1> HIDE DEF f
<1> DEFINE plan == [queries |-> f, concepts |-> terms]
<1>7. ConceptPlan(s) = plan
  BY <1>4, <1>5 DEF ConceptPlan, QueriesPerOpportunity, f, terms
<1>8. plan # NoPlan
  <2>1. plan \in [queries : Seq(Text), concepts : Seq(Text)]
    <3> HIDE DEF Text
    <3> QED
      BY <1>1, <1>6
  <2> QED
    BY <2>1, AnswersAssumption
<1>9. f # <<>> /\ \A q \in ToSet(f) : q # <<>> /\ ~RepeatsAToken(q)
  <2>1. f # <<>>
    BY <1>5
  <2> QED
    BY <1>6, <2>1 DEF ToSet
<1>10. ~IsFallbackConcept(t)
  BY <1>2, TermsAssumption
<1> QED
  BY <1>2, <1>7, <1>8, <1>9, <1>10 DEF ValidResearch

\* A model is or was to be asked only for what the tables could not plan.
ModelInv ==
    /\ subject \in ResearchSubject
    /\ ModelNeeded => ~ValidResearch(ConceptPlan(subject))

\* The invariant of the model: only PlanResearch hands a subject to it.
LEMMA ModelInductive == Spec => []ModelInv
<1> USE DEF ModelInv, ModelNeeded
<1>1. ASSUME Init PROVE ModelInv
  BY <1>1, SubjectsAssumption DEF Init
<1>2. ASSUME ModelInv, [Next]_vars PROVE ModelInv'
  <2> USE <1>2
  <2>1. CASE PlanResearch
    BY <2>1 DEF PlanResearch, Planned, End
  <2>2. CASE AskResearchModel
    BY <2>2 DEF AskResearchModel, Planned, End
  <2>3. CASE PlanWeb
    BY <2>3 DEF PlanWeb, End
  <2>4. CASE AskWebModel
    BY <2>4 DEF AskWebModel, End
  <2>5. CASE Assemble
    BY <2>5 DEF Assemble
  <2>6. CASE Search
    BY <2>6 DEF Search
  <2>7. CASE Ended \/ UNCHANGED vars
    BY <2>7 DEF Ended, vars
  <2> QED
    BY <2>1, <2>2, <2>3, <2>4, <2>5, <2>6, <2>7 DEF Next
<1> QED
  BY <1>1, <1>2, PTL DEF Spec

\* build_plan_with_fallback asks no model for a subject whose wording the
\* tables know, but for the industries the generator stumbles over: three
\* searches are always found among its six candidates.
THEOREM KnownWordingGetsItsPlan == Spec => []KnownWordingIsServed
<1>1. ModelInv => KnownWordingIsServed
  BY TablesServe DEF ModelInv, KnownWordingIsServed, Stumbles
<1> QED
  BY <1>1, ModelInductive, PTL
=============================================================================
