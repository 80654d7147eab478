-------------------------- MODULE WebDiscovery_proofs --------------------------
(***************************************************************************)
(* Proofs about WebDiscovery, for any runs, pages and plan.                *)
(***************************************************************************)
EXTENDS WebDiscovery, FiniteSetTheorems, TLAPS

\* What an executor has in hand, or has written and not committed, are
\* candidates that its searches brought.
InHand ==
    \A r \in Runs, c \in Candidate :
        \/ c \in todo[r]
        \/ c \in written[r]
        \/ upsert[r] # NoUpsert /\ upsert[r].candidate = c
        => c[2] \in found[r][c[1]].pages

\* The searches of a run are committed once, at the end of its judgement.
UncommittedBefore ==
    \A r \in Runs :
        stage[r] \in {"researching", "searching", "judging", "aborted"} => rows[r] = NoRows

\* A run that is not judging yet has nothing in hand.
Blank ==
    \A r \in Runs :
        stage[r] \in {"researching", "searching"} => written[r] = {} /\ upsert[r] = NoUpsert

IInv == TypeOK /\ InHand /\ UncommittedBefore /\ Blank /\ EvidenceHasProvenance

-----------------------------------------------------------------------------
\* The constant values of Init and Forget have their types.
LEMMA EmptyTypes ==
    /\ NoneFound \in AllFound
    /\ NoTally \in Tally
    /\ \A s \in PhaseState : Phases(s) \in [Families -> Phase]
    /\ \A b \in AllFound, f \in Families :
          /\ b[f].served \in Nat
          /\ b[f].pages \in SUBSET Pages
          /\ Cardinality(b[f].pages) \in Nat
<1>1. \A f \in Families : [served |-> 0, pages |-> {}] \in Found(f)
  BY PlannedAssumption, SMT DEF Found
<1>2. NoneFound \in AllFound
  <2>1. \A f \in Families : NoneFound[f] \in Found(f)
    BY <1>1 DEF NoneFound
  <2>2. \A f \in Families : NoneFound[f] \in UNION {Found(g) : g \in Families}
    BY <2>1
  <2>3. NoneFound \in [Families -> UNION {Found(g) : g \in Families}]
    BY <2>2 DEF NoneFound
  <2> QED
    BY <2>1, <2>3 DEF AllFound
<1>3. NoTally \in Tally
  BY SMT DEF NoTally, Tally
<1>4. ASSUME NEW s \in PhaseState PROVE Phases(s) \in [Families -> Phase]
  BY PlannedAssumption, SMT DEF Phases, Phase
<1>5. ASSUME NEW b \in AllFound, NEW f \in Families
      PROVE  /\ b[f].served \in Nat
             /\ b[f].pages \in SUBSET Pages
             /\ Cardinality(b[f].pages) \in Nat
  <2>1. b[f] \in Found(f)
    BY DEF AllFound
  <2>2. b[f].served \in 0 .. Planned[f] /\ b[f].pages \in SUBSET Reach[f]
    BY <2>1, SMT DEF Found
  <2>3. b[f].pages \in SUBSET Pages
    BY <2>2, ReachAssumption
  <2>4. IsFiniteSet(b[f].pages)
    BY <2>3, ReachAssumption, FS_Subset
  <2> QED
    BY <2>2, <2>3, <2>4, PlannedAssumption, FS_CardinalityType, SMT
<1> QED
  BY <1>2, <1>3, <1>4, <1>5

-----------------------------------------------------------------------------
\* The initial states satisfy the invariant.
LEMMA InitInvariant == Init => IInv
<1> SUFFICES ASSUME Init PROVE IInv
  OBVIOUS
<1>1. TypeOK
  <2>1. Phases("pending") \in [Families -> Phase]
    BY EmptyTypes DEF PhaseState
  <2> QED
    BY <2>1, EmptyTypes DEF Init, TypeOK, Stage
<1>2. InHand
  BY DEF Init, InHand
<1>3. UncommittedBefore
  BY DEF Init, UncommittedBefore
<1>4. EvidenceHasProvenance
  BY DEF Init, EvidenceHasProvenance
<1>5. Blank
  BY DEF Init, Blank
<1> QED
  BY <1>1, <1>2, <1>3, <1>4, <1>5 DEF IInv

\* What a run says when it closes is a value of the phases.
LEMMA ResultType ==
    ASSUME TypeOK, NEW r \in Runs
    PROVE  Result(r) \in [Families -> Phase]
<1>1. CASE stage[r] = "aborted"
  BY <1>1, EmptyTypes DEF Result, PhaseState
<1>2. CASE stage[r] # "aborted"
  <2>1. ASSUME NEW f \in Families PROVE FamilyResult(r, f) \in Phase
    <3>1. found[r] \in AllFound /\ tally[r] \in Tally
      BY DEF TypeOK
    <3>2. /\ found[r][f].served \in Nat
          /\ Cardinality(found[r][f].pages) \in Nat
          /\ tally[r][f].judged \in Nat
          /\ tally[r][f].accepted \in Nat
          /\ Planned[f] \in Nat
      BY <3>1, EmptyTypes, PlannedAssumption DEF Tally
    <3> QED
      BY <3>2, SMT DEF FamilyResult, Phase, PhaseState
  <2>2. \A f \in Families : Phases("running")[f] \in Phase
    BY EmptyTypes DEF PhaseState
  <2> QED
    BY <1>2, <2>1, <2>2 DEF Result
<1> QED
  BY <1>1, <1>2

-----------------------------------------------------------------------------
(* Preservation, one lemma per action.                                     *)

\* A run without a provider.
LEMMA SkipInvariant == ASSUME IInv, NEW r \in Runs, Skip(r) PROVE IInv'
<1> USE DEF IInv
<1>1. TypeOK'
  <2>1. Phases("skipped") \in [Families -> Phase]
    BY EmptyTypes DEF PhaseState
  <2> QED
    BY <2>1, SMT DEF TypeOK, Skip, To, local, Stage
<1>2. InHand'
  BY DEF InHand, Skip, local
<1>3. UncommittedBefore'
  BY DEF UncommittedBefore, Skip, To, TypeOK
<1>4. EvidenceHasProvenance'
  BY DEF EvidenceHasProvenance, Skip
<1>5. Blank'
  BY DEF Blank, Skip, To, local, TypeOK
<1> QED
  BY <1>1, <1>2, <1>3, <1>4, <1>5

\* A run whose searches start.
LEMMA StartInvariant == ASSUME IInv, NEW r \in Runs, Start(r) PROVE IInv'
<1> USE DEF IInv
<1>1. TypeOK'
  <2>1. Phases("running") \in [Families -> Phase]
    BY EmptyTypes DEF PhaseState
  <2>2. phases' \in [Runs -> [Families -> Phase]]
    BY <2>1 DEF TypeOK, Start
  <2>3. stage' \in [Runs -> Stage]
    BY DEF TypeOK, Start, To, Stage
  <2>4. UNCHANGED <<found, todo, upsert, written, tally, rows, evidence>>
    BY DEF Start, local
  <2> QED
    BY <2>2, <2>3, <2>4 DEF TypeOK
<1>2. InHand'
  BY DEF InHand, Start, local
<1>3. UncommittedBefore'
  BY DEF UncommittedBefore, Start, To, TypeOK
<1>4. EvidenceHasProvenance'
  BY DEF EvidenceHasProvenance, Start
<1>5. Blank'
  BY DEF Blank, Start, To, local, TypeOK
<1> QED
  BY <1>1, <1>2, <1>3, <1>4, <1>5

\* A run whose searches have returned.
LEMMA SearchesReturnInvariant == ASSUME IInv, NEW r \in Runs, SearchesReturn(r) PROVE IInv'
<1> USE DEF IInv
<1>1. PICK b \in AllFound :
         /\ found' = [found EXCEPT ![r] = b]
         /\ todo' = [todo EXCEPT ![r] = {c \in Candidate : c[2] \in b[c[1]].pages}]
  BY DEF SearchesReturn
<1>2. /\ stage[r] = "searching"
      /\ stage' = [stage EXCEPT ![r] = "judging"]
      /\ UNCHANGED <<upsert, written, tally, rows, evidence, phases>>
  BY DEF SearchesReturn, To
<1>3. TypeOK'
  <2>1. found' \in [Runs -> AllFound] /\ todo' \in [Runs -> SUBSET Candidate]
    BY <1>1 DEF TypeOK
  <2>2. stage' \in [Runs -> Stage]
    BY <1>2 DEF TypeOK, Stage
  <2> QED
    BY <1>2, <2>1, <2>2 DEF TypeOK
<1>4. InHand'
  <2> SUFFICES ASSUME NEW s \in Runs, NEW c \in Candidate,
                      \/ c \in todo'[s]
                      \/ c \in written'[s]
                      \/ upsert'[s] # NoUpsert /\ upsert'[s].candidate = c
               PROVE  c[2] \in found'[s][c[1]].pages
    BY DEF InHand
  <2>1. CASE s = r
    <3>1. written[r] = {} /\ upsert[r] = NoUpsert
      BY <1>2 DEF Blank
    <3>2. found'[r] = b /\ todo'[r] = {d \in Candidate : d[2] \in b[d[1]].pages}
      BY <1>1 DEF TypeOK
    <3> QED
      BY <1>2, <2>1, <3>1, <3>2
  <2>2. CASE s # r
    <3>1. found'[s] = found[s] /\ todo'[s] = todo[s]
      BY <1>1, <2>2 DEF TypeOK
    <3> QED
      BY <1>2, <3>1 DEF InHand
  <2> QED
    BY <2>1, <2>2
<1>5. UncommittedBefore'
  BY <1>2 DEF UncommittedBefore, TypeOK
<1>6. EvidenceHasProvenance'
  BY <1>2 DEF EvidenceHasProvenance
<1>7. Blank'
  BY <1>2 DEF Blank, TypeOK
<1> QED
  BY <1>3, <1>4, <1>5, <1>6, <1>7

\* Counting a verdict.
LEMMA TallyType ==
    ASSUME tally \in [Runs -> Tally], NEW r \in Runs, NEW f \in Families
    PROVE  /\ [tally EXCEPT ![r][f].judged = @ + 1] \in [Runs -> Tally]
           /\ [tally EXCEPT ![r][f].judged = @ + 1,
                             ![r][f].accepted = @ + 1] \in [Runs -> Tally]
<1>1. tally[r] \in Tally /\ tally[r][f] \in [judged : Nat, accepted : Nat]
  BY DEF Tally
<1>2. /\ tally[r][f].judged + 1 \in Nat
      /\ tally[r][f].accepted + 1 \in Nat
  BY <1>1
<1>3. [tally EXCEPT ![r][f].judged = @ + 1] \in [Runs -> Tally]
  BY <1>1, <1>2 DEF Tally
<1>4. [tally EXCEPT ![r][f].judged = @ + 1, ![r][f].accepted = @ + 1] \in [Runs -> Tally]
  BY <1>1, <1>2 DEF Tally
<1> QED
  BY <1>3, <1>4

\* What the three verdicts have in common.
LEMMA TakeFacts ==
    ASSUME IInv, NEW r \in Runs, NEW c \in Candidate, Take(r, c)
    PROVE  /\ c \in todo[r]
           /\ c[2] \in found[r][c[1]].pages
           /\ stage[r] = "judging"
           /\ todo' \in [Runs -> SUBSET Candidate]
           /\ \A s \in Runs : todo'[s] \subseteq todo[s]
           /\ UNCHANGED <<stage, found, written, rows, evidence, phases>>
<1>1. c \in todo[r]
  BY DEF Take, Due
<1>2. todo' = [todo EXCEPT ![r] = todo[r] \ {c}]
  BY DEF Take
<1>3. todo' \in [Runs -> SUBSET Candidate] /\ \A s \in Runs : todo'[s] \subseteq todo[s]
  BY <1>2 DEF IInv, TypeOK
<1> QED
  BY <1>1, <1>3 DEF IInv, InHand, Take, Idle

\* A candidate the classifier gives no verdict on, or dismisses.
LEMMA PassInvariant ==
    ASSUME IInv, NEW r \in Runs, NEW c \in Candidate, Decline(r, c) \/ Dismiss(r, c)
    PROVE  IInv'
<1> USE DEF IInv
<1>1. Take(r, c) /\ UNCHANGED upsert
  BY DEF Decline, Dismiss
<1>2. /\ todo' \in [Runs -> SUBSET Candidate]
      /\ \A s \in Runs : todo'[s] \subseteq todo[s]
      /\ UNCHANGED <<stage, found, written, upsert, rows, evidence, phases>>
  BY <1>1, TakeFacts
<1>3. TypeOK'
  <2>1. c[1] \in Families
    BY DEF Candidate
  <2>2. tally' \in [Runs -> Tally]
    <3>1. CASE Decline(r, c)
      BY <3>1 DEF Decline, TypeOK
    <3>2. CASE Dismiss(r, c)
      <4>1. tally' = [tally EXCEPT ![r][c[1]].judged = @ + 1]
        BY <3>2 DEF Dismiss
      <4> QED
        BY <2>1, <4>1, TallyType DEF TypeOK
    <3> QED
      BY <3>1, <3>2
  <2> QED
    BY <1>2, <2>2 DEF TypeOK
<1>4. InHand'
  BY <1>2 DEF InHand
<1>5. UncommittedBefore' /\ Blank' /\ EvidenceHasProvenance'
  BY <1>2 DEF UncommittedBefore, Blank, EvidenceHasProvenance
<1> QED
  BY <1>3, <1>4, <1>5

\* A verdict worth keeping.
LEMMA AcceptInvariant ==
    ASSUME IInv, NEW r \in Runs, NEW c \in Candidate, Accept(r, c)
    PROVE  IInv'
<1> USE DEF IInv
<1> DEFINE up == [candidate |-> c, exists |-> evidence[c] # NoRun]
<1>1. /\ Take(r, c)
      /\ upsert' = [upsert EXCEPT ![r] = up]
  BY DEF Accept
<1>2. /\ c \in todo[r]
      /\ c[2] \in found[r][c[1]].pages
      /\ stage[r] = "judging"
      /\ todo' \in [Runs -> SUBSET Candidate]
      /\ \A s \in Runs : todo'[s] \subseteq todo[s]
      /\ UNCHANGED <<stage, found, written, rows, evidence, phases>>
  BY <1>1, TakeFacts
<1>3. TypeOK'
  <2>1. c[1] \in Families
    BY DEF Candidate
  <2>2. tally' \in [Runs -> Tally]
    <3>1. tally' = [tally EXCEPT ![r][c[1]].judged = @ + 1, ![r][c[1]].accepted = @ + 1]
      BY DEF Accept
    <3> QED
      BY <2>1, <3>1, TallyType DEF TypeOK
  <2>3. up \in Upsert
    BY DEF Upsert
  <2>4. upsert' \in [Runs -> Upsert \cup {NoUpsert}]
    BY <1>1, <2>3 DEF TypeOK
  <2> QED
    BY <1>2, <2>2, <2>4 DEF TypeOK
<1>4. InHand'
  <2> SUFFICES ASSUME NEW s \in Runs, NEW d \in Candidate,
                      \/ d \in todo'[s]
                      \/ d \in written'[s]
                      \/ upsert'[s] # NoUpsert /\ upsert'[s].candidate = d
               PROVE  d[2] \in found'[s][d[1]].pages
    BY DEF InHand
  <2>1. CASE s = r /\ upsert'[s].candidate = d
    BY <1>1, <1>2, <2>1 DEF TypeOK
  <2>2. CASE s # r
    BY <1>1, <1>2, <2>2 DEF InHand, TypeOK
  <2>3. CASE d \in todo'[s] \/ d \in written'[s]
    BY <1>2, <2>3 DEF InHand
  <2> QED
    BY <2>1, <2>2, <2>3
<1>5. UncommittedBefore' /\ EvidenceHasProvenance'
  BY <1>2 DEF UncommittedBefore, EvidenceHasProvenance
<1>6. Blank'
  BY <1>1, <1>2 DEF Blank, TypeOK
<1> QED
  BY <1>3, <1>4, <1>5, <1>6

\* A flushed evidence row.
LEMMA WriteInvariant == ASSUME IInv, NEW r \in Runs, Write(r) PROVE IInv'
<1> USE DEF IInv
<1> DEFINE c == upsert[r].candidate
<1>1. /\ stage[r] = "judging"
      /\ upsert[r] # NoUpsert
      /\ written' = [written EXCEPT ![r] = written[r] \cup {c}]
      /\ upsert' = [upsert EXCEPT ![r] = NoUpsert]
      /\ UNCHANGED <<stage, found, todo, tally, rows, evidence, phases>>
  BY DEF Write, Writing
<1>2. c \in Candidate
  BY <1>1 DEF TypeOK, Upsert
<1>3. TypeOK'
  BY <1>1, <1>2 DEF TypeOK
<1>4. InHand'
  BY <1>1, <1>2 DEF InHand, TypeOK
<1>5. UncommittedBefore' /\ EvidenceHasProvenance'
  BY <1>1 DEF UncommittedBefore, EvidenceHasProvenance
<1>6. Blank'
  BY <1>1 DEF Blank, TypeOK
<1> QED
  BY <1>3, <1>4, <1>5, <1>6

\* The commit: what it makes visible has its searches beside it.
LEMMA CommitInvariant == ASSUME IInv, NEW r \in Runs, Commit(r) PROVE IInv'
<1> USE DEF IInv
<1>1. /\ stage[r] = "judging"
      /\ evidence' = [c \in Candidate |-> IF c \in written[r] THEN r ELSE evidence[c]]
      /\ rows' = [rows EXCEPT ![r] = found[r]]
      /\ written' = [written EXCEPT ![r] = {}]
      /\ stage' = [stage EXCEPT ![r] = "committed"]
      /\ UNCHANGED <<found, todo, upsert, tally, phases>>
  BY DEF Commit, Idle, To
<1>2. rows[r] = NoRows
  BY <1>1 DEF UncommittedBefore
<1>3. found[r] \in AllFound
  BY DEF TypeOK
<1>4. TypeOK'
  BY <1>1, <1>3 DEF TypeOK, Stage
<1>5. InHand'
  BY <1>1 DEF InHand, TypeOK
<1>6. UncommittedBefore' /\ Blank'
  BY <1>1 DEF UncommittedBefore, Blank, TypeOK
<1>7. EvidenceHasProvenance'
  <2> SUFFICES ASSUME NEW c \in Candidate, evidence'[c] # NoRun
               PROVE  /\ rows'[evidence'[c]] # NoRows
                      /\ c[2] \in rows'[evidence'[c]][c[1]].pages
    BY DEF EvidenceHasProvenance
  <2>1. CASE c \in written[r]
    <3>1. evidence'[c] = r /\ rows'[r] = found[r]
      BY <1>1, <2>1 DEF TypeOK
    <3>2. c[2] \in found[r][c[1]].pages
      BY <2>1 DEF InHand
    <3> QED
      BY <1>3, <3>1, <3>2, RowsAssumption
  <2>2. CASE c \notin written[r]
    <3>1. evidence'[c] = evidence[c]
      BY <1>1, <2>2
    <3>2. rows[evidence[c]] # NoRows /\ c[2] \in rows[evidence[c]][c[1]].pages
      BY <3>1 DEF EvidenceHasProvenance
    <3>3. evidence[c] # r
      BY <1>2, <3>2
    <3>4. rows'[evidence[c]] = rows[evidence[c]]
      BY <1>1, <3>1, <3>3 DEF TypeOK
    <3> QED
      BY <3>1, <3>2, <3>4
  <2> QED
    BY <2>1, <2>2
<1> QED
  BY <1>4, <1>5, <1>6, <1>7

\* Leaving a run discards what is in hand.
LEMMA ForgetInvariant ==
    ASSUME IInv, NEW r \in Runs, NEW s \in {"aborted", "closed", "dead"},
           Forget(r), To(r, s), UNCHANGED <<rows, evidence>>,
           phases' \in [Runs -> [Families -> Phase]],
           s = "aborted" => rows[r] = NoRows
    PROVE  IInv'
<1> USE DEF IInv
<1>1. /\ found' = [found EXCEPT ![r] = NoneFound]
      /\ todo' = [todo EXCEPT ![r] = {}]
      /\ upsert' = [upsert EXCEPT ![r] = NoUpsert]
      /\ written' = [written EXCEPT ![r] = {}]
      /\ tally' = [tally EXCEPT ![r] = NoTally]
      /\ stage' = [stage EXCEPT ![r] = s]
  BY DEF Forget, To
<1>2. TypeOK'
  BY <1>1, EmptyTypes DEF TypeOK, Stage
<1>3. InHand'
  BY <1>1 DEF InHand, TypeOK
<1>4. UncommittedBefore' /\ Blank'
  BY <1>1 DEF UncommittedBefore, Blank, TypeOK
<1>5. EvidenceHasProvenance'
  BY DEF EvidenceHasProvenance
<1> QED
  BY <1>2, <1>3, <1>4, <1>5

\* An exception, or the end of the server.
LEMMA LeaveInvariant ==
    ASSUME IInv, NEW r \in Runs, Fail(r) \/ Conflict(r) \/ Victim(r) \/ Die(r)
    PROVE  IInv'
<1>1. UNCHANGED phases => phases' \in [Runs -> [Families -> Phase]]
  BY DEF IInv, TypeOK
<1>2. CASE Die(r)
  BY <1>1, <1>2, ForgetInvariant DEF Die
<1>3. CASE stage[r] = "judging" /\ Abort(r)
  <2>1. rows[r] = NoRows
    BY <1>3 DEF IInv, UncommittedBefore
  <2> QED
    BY <1>1, <1>3, <2>1, ForgetInvariant DEF Abort
<1> QED
  BY <1>2, <1>3 DEF Fail, Conflict, Victim, Writing, Waits

\* What the run says of its phases.
LEMMA ReportInvariant == ASSUME IInv, NEW r \in Runs, Report(r) \/ Close(r) PROVE IInv'
<1>1. phases' \in [Runs -> [Families -> Phase]]
  BY ResultType DEF Report, Close, IInv, TypeOK
<1>2. CASE Close(r)
  BY <1>1, <1>2, ForgetInvariant DEF Close
<1>3. CASE Report(r)
  <2>1. UNCHANGED <<stage, found, todo, upsert, written, tally, rows, evidence>>
    BY <1>3 DEF Report, local
  <2> QED
    BY <1>1, <2>1 DEF IInv, TypeOK, InHand, UncommittedBefore, Blank, EvidenceHasProvenance
<1> QED
  BY <1>2, <1>3

-----------------------------------------------------------------------------
\* Types, what an executor has in hand and the provenance of the evidence hold
\* for any number of runs, pages and searches.
THEOREM InductiveInvariant == Spec => []IInv
<1>1. Init => IInv
  BY InitInvariant
<1>2. IInv /\ [Next]_vars => IInv'
  <2> SUFFICES ASSUME IInv, [Next]_vars PROVE IInv'
    OBVIOUS
  <2>1. CASE UNCHANGED vars
    BY <2>1 DEF vars, local, IInv, TypeOK, InHand, UncommittedBefore, Blank,
                EvidenceHasProvenance
  <2>2. ASSUME NEW r \in Runs, Step(r) \/ Fail(r) \/ Die(r) PROVE IInv'
    <3>1. CASE Judge(r)
      BY <3>1, PassInvariant, AcceptInvariant DEF Judge
    <3>2. CASE Skip(r) \/ Start(r) \/ SearchesReturn(r)
      BY <3>2, SkipInvariant, StartInvariant, SearchesReturnInvariant
    <3>3. CASE Write(r) \/ Commit(r)
      BY <3>3, WriteInvariant, CommitInvariant
    <3>4. CASE Fail(r) \/ Conflict(r) \/ Victim(r) \/ Die(r)
      BY <3>4, LeaveInvariant
    <3>5. CASE Report(r) \/ Close(r)
      BY <3>5, ReportInvariant
    <3> QED
      BY <2>2, <3>1, <3>2, <3>3, <3>4, <3>5 DEF Step
  <2> QED
    BY <2>1, <2>2 DEF Next
<1> QED
  BY <1>1, <1>2, PTL DEF Spec

\* TypeOK, for all values of the constants.
THEOREM TypeCorrect == Spec => []TypeOK
<1>1. IInv => TypeOK
  BY DEF IInv
<1> QED
  BY <1>1, InductiveInvariant, PTL

\* EvidenceHasProvenance: whichever runs of an investigation overlap, fail or
\* die, a committed verdict has the committed search that found its page.
THEOREM EvidenceIsTraceable == Spec => []EvidenceHasProvenance
<1>1. IInv => EvidenceHasProvenance
  BY DEF IInv
<1> QED
  BY <1>1, InductiveInvariant, PTL

-----------------------------------------------------------------------------
(* What the run row says of a family is what the database holds of it.     *)

\* The pages of a family still to be judged, those accepted and not committed,
\* and those with an evidence row.
Left(r, f) == {p \in Pages : <<f, p>> \in todo[r]}
Kept(r, f) == {p \in Pages : \/ <<f, p>> \in written[r]
                             \/ upsert[r] # NoUpsert /\ upsert[r].candidate = <<f, p>>}
Shown(f) == {u \in Pages : evidence[<<f, u>>] # NoRun}

\* While the candidates are judged, each is counted at most once.
CountedOnce(r, f) ==
    stage[r] = "judging" =>
        /\ tally[r][f].accepted <= tally[r][f].judged
        /\ tally[r][f].judged + Cardinality(Left(r, f)) <= Cardinality(found[r][f].pages)
        /\ tally[r][f].accepted <= Cardinality(Kept(r, f))
        /\ Left(r, f) \cap Kept(r, f) = {}

\* Between the commit and the end of the run, the counts are those of the rows.
CountedAsStored(r, f) ==
    stage[r] = "committed" =>
        /\ rows[r] = found[r]
        /\ tally[r][f].accepted <= tally[r][f].judged
        /\ tally[r][f].judged <= Cardinality(found[r][f].pages)
        /\ tally[r][f].accepted <= Cardinality(Shown(f))

\* A run that has committed nothing reports nothing; one that has not begun to
\* judge has counted nothing.
Silent(r, f) ==
    /\ stage[r] \in {"researching", "searching", "judging"} =>
           phases[r][f].state \in {"pending", "running"}
    /\ stage[r] \in {"researching", "searching"} => tally[r] = NoTally

\* What ReportedAsStored says of the report p of one family of one run.
Faithful(p, r, f) ==
    /\ p.state \in {"complete", "partial"} =>
           /\ rows[r] # NoRows
           /\ p.served = rows[r][f].served
           /\ (p.state = "complete") <=> (p.served = Planned[f])
           /\ p.candidates = Cardinality(rows[r][f].pages)
           /\ p.judged <= p.candidates
           /\ p.accepted <= p.judged
           /\ p.accepted <= Cardinality(Shown(f))
    /\ p.state = "failed" /\ rows[r] # NoRows => rows[r][f].served = 0

Reported(r, f) == Faithful(phases[r][f], r, f)

Reports(r) ==
    \A f \in Families :
        CountedOnce(r, f) /\ CountedAsStored(r, f) /\ Silent(r, f) /\ Reported(r, f)

RInv == \A r \in Runs : Reports(r)

\* The sets that are counted are finite.
LEMMA Counts ==
    ASSUME NEW S \in SUBSET Pages
    PROVE  IsFiniteSet(S) /\ Cardinality(S) \in Nat
BY ReachAssumption, FS_Subset, FS_CardinalityType

\* A larger set of pages has no fewer.
LEMMA CountsGrow ==
    ASSUME NEW S \in SUBSET Pages, NEW T \in SUBSET Pages, S \subseteq T
    PROVE  Cardinality(S) <= Cardinality(T)
BY Counts, FS_Subset

\* One page more, or less, counts for one.
LEMMA CountsByOne ==
    ASSUME NEW S \in SUBSET Pages, NEW p \in Pages
    PROVE  /\ p \notin S => Cardinality(S \cup {p}) = Cardinality(S) + 1
           /\ p \in S => Cardinality(S \ {p}) = Cardinality(S) - 1
BY Counts, FS_AddElement, FS_RemoveElement

-----------------------------------------------------------------------------
\* The initial states.
LEMMA InitReports == Init => RInv
<1> SUFFICES ASSUME Init, NEW r \in Runs, NEW f \in Families
             PROVE  CountedOnce(r, f) /\ CountedAsStored(r, f) /\ Silent(r, f) /\ Reported(r, f)
  BY DEF RInv, Reports
<1>1. stage[r] = "researching" /\ tally[r] = NoTally /\ phases[r][f].state = "pending"
  BY DEF Init, Phases
<1> QED
  BY <1>1 DEF CountedOnce, CountedAsStored, Silent, Reported, Faithful

\* A step of another run.
Alone(r) ==
    \A s \in Runs \ {r} :
        /\ stage'[s] = stage[s]
        /\ found'[s] = found[s]
        /\ todo'[s] = todo[s]
        /\ upsert'[s] = upsert[s]
        /\ written'[s] = written[s]
        /\ tally'[s] = tally[s]
        /\ rows'[s] = rows[s]
        /\ phases'[s] = phases[s]

Grows == \A c \in Candidate : evidence[c] # NoRun => evidence'[c] # NoRun

\* An evidence row that is there stays there: no count of them falls.
LEMMA ShownGrows ==
    ASSUME Grows, NEW f \in Families
    PROVE  /\ Cardinality(Shown(f)) \in Nat
           /\ Cardinality(Shown(f)') \in Nat
           /\ Cardinality(Shown(f)) <= Cardinality(Shown(f)')
<1>1. Shown(f) \in SUBSET Pages /\ Shown(f)' \in SUBSET Pages
  BY DEF Shown
<1>2. Shown(f) \subseteq Shown(f)'
  BY DEF Shown, Grows, Candidate
<1> QED
  BY <1>1, <1>2, Counts, CountsGrow

\* A run's report survives the steps of the others.
LEMMA OthersReport ==
    ASSUME IInv, IInv', RInv, NEW r \in Runs, Alone(r), Grows, NEW s \in Runs, s # r
    PROVE  Reports(s)'
<1> SUFFICES ASSUME NEW f \in Families
             PROVE  /\ CountedOnce(s, f)' /\ CountedAsStored(s, f)'
                    /\ Silent(s, f)' /\ Reported(s, f)'
  BY DEF Reports
<1>1. /\ stage'[s] = stage[s]
      /\ found'[s] = found[s]
      /\ todo'[s] = todo[s]
      /\ upsert'[s] = upsert[s]
      /\ written'[s] = written[s]
      /\ tally'[s] = tally[s]
      /\ rows'[s] = rows[s]
      /\ phases'[s] = phases[s]
  BY DEF Alone
<1>2. CountedOnce(s, f) /\ CountedAsStored(s, f) /\ Silent(s, f) /\ Reported(s, f)
  BY DEF RInv, Reports
<1>3. Left(s, f)' = Left(s, f) /\ Kept(s, f)' = Kept(s, f)
  BY <1>1 DEF Left, Kept
<1>4. /\ tally[s][f].accepted \in Nat
      /\ phases[s][f].accepted \in Nat
  BY DEF IInv, TypeOK, Tally, Phase
<1>5. /\ Cardinality(Shown(f)) \in Nat
      /\ Cardinality(Shown(f)') \in Nat
      /\ Cardinality(Shown(f)) <= Cardinality(Shown(f)')
  BY ShownGrows
<1>6. CountedOnce(s, f)'
  BY <1>1, <1>2, <1>3 DEF CountedOnce
<1>7. CountedAsStored(s, f)'
  <2> SUFFICES ASSUME stage[s] = "committed" PROVE tally[s][f].accepted <= Cardinality(Shown(f)')
    BY <1>1, <1>2 DEF CountedAsStored
  <2>1. tally[s][f].accepted <= Cardinality(Shown(f))
    BY <1>2 DEF CountedAsStored
  <2> QED
    BY <1>4, <1>5, <2>1
<1>8. Silent(s, f)'
  BY <1>1, <1>2 DEF Silent
<1>9. Reported(s, f)'
  <2>1. phases[s][f].state \in {"complete", "partial"} =>
            phases[s][f].accepted <= Cardinality(Shown(f)')
    BY <1>2, <1>4, <1>5 DEF Reported, Faithful
  <2> QED
    BY <1>1, <1>2, <2>1 DEF Reported, Faithful
<1> QED
  BY <1>6, <1>7, <1>8, <1>9

\* So it is enough to look at the run that takes the step.
LEMMA OneRunAtATime ==
    ASSUME IInv, IInv', RInv, NEW r \in Runs, Alone(r), Grows, Reports(r)'
    PROVE  RInv'
BY OthersReport DEF RInv

-----------------------------------------------------------------------------
(* The step of each action.                                                *)

\* A run that begins, or is skipped.
LEMMA BeginReports ==
    ASSUME IInv, IInv', RInv, NEW r \in Runs, Skip(r) \/ Start(r)
    PROVE  RInv'
<1>1. /\ stage[r] = "researching"
      /\ UNCHANGED <<found, todo, upsert, written, tally, rows, evidence>>
      /\ \/ stage' = [stage EXCEPT ![r] = "closed"]
         \/ stage' = [stage EXCEPT ![r] = "searching"]
      /\ \/ phases' = [phases EXCEPT ![r] = Phases("skipped")]
         \/ phases' = [phases EXCEPT ![r] = Phases("running")]
         \/ phases' = phases
  BY DEF Skip, Start, To, local
<1>2. Alone(r) /\ Grows
  BY <1>1 DEF Alone, Grows, IInv, TypeOK
<1>3. Reports(r)'
  <2> SUFFICES ASSUME NEW f \in Families
               PROVE  /\ CountedOnce(r, f)' /\ CountedAsStored(r, f)'
                      /\ Silent(r, f)' /\ Reported(r, f)'
    BY DEF Reports
  <2>1. Silent(r, f)
    BY DEF RInv, Reports
  <2>2. /\ phases[r][f].state \in {"pending", "running"}
        /\ tally[r] = NoTally
    BY <1>1, <2>1 DEF Silent
  <2>3. /\ phases'[r] \in {phases[r], Phases("skipped"), Phases("running")}
        /\ stage'[r] = "closed" \/ stage'[r] = "searching"
    BY <1>1 DEF IInv, TypeOK
  <2>4. phases'[r][f].state \in {"pending", "running", "skipped"}
    BY <2>2, <2>3 DEF Phases
  <2>5. stage'[r] = "searching" => phases'[r][f].state \in {"pending", "running"}
    <3>1. CASE Skip(r)
      BY <3>1 DEF Skip, To, IInv, TypeOK
    <3>2. CASE Start(r)
      <4>1. phases'[r] \in {phases[r], Phases("running")}
        BY <3>2 DEF Start, IInv, TypeOK
      <4> QED
        BY <2>2, <4>1 DEF Phases
    <3> QED
      BY <3>1, <3>2
  <2>6. CountedOnce(r, f)' /\ CountedAsStored(r, f)'
    BY <2>3 DEF CountedOnce, CountedAsStored
  <2>7. Silent(r, f)'
    BY <1>1, <2>2, <2>3, <2>5 DEF Silent
  <2>8. Reported(r, f)'
    BY <2>4 DEF Reported, Faithful
  <2> QED
    BY <2>6, <2>7, <2>8
<1> QED
  BY <1>2, <1>3, OneRunAtATime

\* The searches of a run return: nothing is counted, everything is left.
LEMMA SearchesReturnReports ==
    ASSUME IInv, IInv', RInv, NEW r \in Runs, SearchesReturn(r)
    PROVE  RInv'
<1>1. PICK b \in AllFound :
         /\ found' = [found EXCEPT ![r] = b]
         /\ todo' = [todo EXCEPT ![r] = {c \in Candidate : c[2] \in b[c[1]].pages}]
  BY DEF SearchesReturn
<1>2. /\ stage[r] = "searching"
      /\ stage' = [stage EXCEPT ![r] = "judging"]
      /\ UNCHANGED <<upsert, written, tally, rows, evidence, phases>>
  BY DEF SearchesReturn, To
<1>3. Alone(r) /\ Grows
  BY <1>1, <1>2 DEF Alone, Grows, IInv, TypeOK
<1>4. /\ stage'[r] = "judging" /\ found'[r] = b /\ tally'[r] = NoTally
      /\ todo'[r] = {c \in Candidate : c[2] \in b[c[1]].pages}
      /\ written'[r] = {} /\ upsert'[r] = NoUpsert
      /\ \A f \in Families : phases'[r][f].state \in {"pending", "running"}
  <2>1. stage'[r] = "judging" /\ found'[r] = b
    BY <1>1, <1>2 DEF IInv, TypeOK
  <2>2. todo'[r] = {c \in Candidate : c[2] \in b[c[1]].pages}
    BY <1>1 DEF IInv, TypeOK
  <2>3. written'[r] = {} /\ upsert'[r] = NoUpsert
    BY <1>2 DEF IInv, Blank
  <2>4. \A f \in Families : Silent(r, f)
    BY DEF RInv, Reports
  <2>5. /\ tally'[r] = NoTally
        /\ \A f \in Families : phases'[r][f].state \in {"pending", "running"}
    BY <1>2, <2>4 DEF Silent, Families
  <2> QED
    BY <2>1, <2>2, <2>3, <2>5
<1>5. Reports(r)'
  <2> SUFFICES ASSUME NEW f \in Families
               PROVE  /\ CountedOnce(r, f)' /\ CountedAsStored(r, f)'
                      /\ Silent(r, f)' /\ Reported(r, f)'
    BY DEF Reports
  <2>1. b[f].pages \in SUBSET Pages /\ Cardinality(b[f].pages) \in Nat
    BY EmptyTypes
  <2>2. Left(r, f)' = b[f].pages
    BY <1>4, <2>1 DEF Left, Candidate
  <2>3. Kept(r, f)' = {}
    BY <1>4 DEF Kept
  <2>4. Cardinality(Kept(r, f)') = 0
    BY <2>3, FS_EmptySet
  <2>5. CountedOnce(r, f)'
    BY <1>4, <2>1, <2>2, <2>3, <2>4 DEF CountedOnce, NoTally
  <2>6. CountedAsStored(r, f)' /\ Silent(r, f)' /\ Reported(r, f)'
    BY <1>4 DEF CountedAsStored, Silent, Reported, Faithful
  <2> QED
    BY <2>5, <2>6
<1> QED
  BY <1>3, <1>5, OneRunAtATime

\* A candidate is judged: one page less is left, and at most one more is
\* counted, of the same family.
LEMMA JudgeReports ==
    ASSUME IInv, IInv', RInv, NEW r \in Runs, NEW c \in Candidate,
           Decline(r, c) \/ Dismiss(r, c) \/ Accept(r, c)
    PROVE  RInv'
<1> DEFINE g == c[1]
           p == c[2]
<1>1. /\ Take(r, c)
      /\ \/ UNCHANGED <<upsert, tally>>
         \/ /\ tally' = [tally EXCEPT ![r][g].judged = @ + 1]
            /\ UNCHANGED upsert
         \/ /\ tally' = [tally EXCEPT ![r][g].judged = @ + 1, ![r][g].accepted = @ + 1]
            /\ upsert' = [upsert EXCEPT ![r] = [candidate |-> c, exists |-> evidence[c] # NoRun]]
  BY DEF Decline, Dismiss, Accept
<1>2. /\ c \in todo[r]
      /\ stage[r] = "judging"
      /\ upsert[r] = NoUpsert
      /\ todo' = [todo EXCEPT ![r] = todo[r] \ {c}]
      /\ UNCHANGED <<stage, found, written, rows, evidence, phases>>
  BY <1>1 DEF Take, Due, Idle
<1>3. g \in Families /\ p \in Pages /\ c = <<g, p>>
  BY DEF Candidate
<1>4. Alone(r) /\ Grows
  BY <1>1, <1>2 DEF Alone, Grows, IInv, TypeOK
<1>5. Reports(r)'
  <2> SUFFICES ASSUME NEW f \in Families
               PROVE  /\ CountedOnce(r, f)' /\ CountedAsStored(r, f)'
                      /\ Silent(r, f)' /\ Reported(r, f)'
    BY DEF Reports
  <2>1. CountedOnce(r, f) /\ Silent(r, f)
    BY DEF RInv, Reports
  <2>2. /\ tally[r][f] \in [judged : Nat, accepted : Nat]
        /\ Cardinality(found[r][f].pages) \in Nat
    BY EmptyTypes DEF IInv, TypeOK, Tally
  <2>3. /\ Left(r, f) \in SUBSET Pages /\ Kept(r, f) \in SUBSET Pages
        /\ Cardinality(Left(r, f)) \in Nat /\ Cardinality(Kept(r, f)) \in Nat
    BY Counts DEF Left, Kept
  <2>4. /\ tally[r][f].accepted <= tally[r][f].judged
        /\ tally[r][f].judged + Cardinality(Left(r, f)) <= Cardinality(found[r][f].pages)
        /\ tally[r][f].accepted <= Cardinality(Kept(r, f))
        /\ Left(r, f) \cap Kept(r, f) = {}
    BY <1>2, <2>1 DEF CountedOnce
  <2>5. CASE f # g
    <3>1. Left(r, f)' = Left(r, f)
      BY <1>2, <1>3, <2>5 DEF Left, IInv, TypeOK
    <3>2. Kept(r, f)' = Kept(r, f)
      BY <1>1, <1>2, <1>3, <2>5 DEF Kept, IInv, TypeOK, NoUpsert
    <3>3. tally'[r][f] = tally[r][f]
      BY <1>1, <1>3, <2>5 DEF IInv, TypeOK, Tally
    <3> QED
      BY <1>2, <2>1, <3>1, <3>2, <3>3 DEF CountedOnce, CountedAsStored, Silent,
                                          Reported, Faithful, RInv, Reports
  <2>6. CASE f = g
    <3>1. p \in Left(r, f) /\ p \notin Kept(r, f)
      BY <1>2, <1>3, <2>4, <2>6 DEF Left
    <3>2. Left(r, f)' = Left(r, f) \ {p}
      BY <1>2, <1>3, <2>6 DEF Left, IInv, TypeOK
    <3>3. Cardinality(Left(r, f)') = Cardinality(Left(r, f)) - 1
      BY <1>3, <2>3, <3>1, <3>2, CountsByOne
    <3>4. ASSUME UNCHANGED upsert PROVE CountedOnce(r, f)'
      <4>1. Kept(r, f)' = Kept(r, f)
        BY <1>2, <3>4 DEF Kept
      <4>2. \/ tally'[r][f] = tally[r][f]
            \/ /\ tally'[r][f].judged = tally[r][f].judged + 1
               /\ tally'[r][f].accepted = tally[r][f].accepted
        BY <1>1, <1>3, <2>6, <3>4, <1>2 DEF IInv, TypeOK, Tally, NoUpsert
      <4>3. /\ tally'[r][f].accepted <= tally'[r][f].judged
            /\ tally'[r][f].judged + Cardinality(Left(r, f)') <= Cardinality(found[r][f].pages)
            /\ tally'[r][f].accepted <= Cardinality(Kept(r, f)')
        BY <2>2, <2>3, <2>4, <3>3, <4>1, <4>2
      <4>4. Left(r, f)' \cap Kept(r, f)' = {}
        BY <2>4, <3>2, <4>1
      <4>5. found'[r] = found[r]
        BY <1>2
      <4> QED
        BY <4>3, <4>4, <4>5 DEF CountedOnce
    <3>5. ASSUME tally' = [tally EXCEPT ![r][g].judged = @ + 1, ![r][g].accepted = @ + 1],
                 upsert' = [upsert EXCEPT ![r] = [candidate |-> c, exists |-> evidence[c] # NoRun]]
          PROVE  CountedOnce(r, f)'
      <4>1. upsert'[r] # NoUpsert /\ upsert'[r].candidate = c
        BY <3>5 DEF IInv, TypeOK, NoUpsert
      <4>2. Kept(r, f)' = Kept(r, f) \cup {p}
        BY <1>2, <1>3, <2>6, <4>1 DEF Kept
      <4>3. Cardinality(Kept(r, f)') = Cardinality(Kept(r, f)) + 1
        BY <1>3, <2>3, <3>1, <4>2, CountsByOne
      <4>4. /\ tally'[r][f].judged = tally[r][f].judged + 1
            /\ tally'[r][f].accepted = tally[r][f].accepted + 1
        BY <1>3, <2>6, <3>5 DEF IInv, TypeOK, Tally
      <4>5. /\ tally'[r][f].accepted <= tally'[r][f].judged
            /\ tally'[r][f].judged + Cardinality(Left(r, f)') <= Cardinality(found[r][f].pages)
            /\ tally'[r][f].accepted <= Cardinality(Kept(r, f)')
        BY <2>2, <2>3, <2>4, <3>3, <4>3, <4>4
      <4>6. Left(r, f)' \cap Kept(r, f)' = {}
        BY <2>4, <3>2, <4>2
      <4>7. found'[r] = found[r]
        BY <1>2
      <4> QED
        BY <4>5, <4>6, <4>7 DEF CountedOnce
    <3>6. CountedOnce(r, f)'
      BY <1>1, <3>4, <3>5
    <3>7. CountedAsStored(r, f)' /\ Silent(r, f)' /\ Reported(r, f)'
      BY <1>2, <2>1 DEF CountedAsStored, Silent, Reported, Faithful
    <3> QED
      BY <3>6, <3>7
  <2> QED
    BY <2>5, <2>6
<1> QED
  BY <1>4, <1>5, OneRunAtATime

\* A flushed row was kept before it was flushed.
LEMMA WriteReports ==
    ASSUME IInv, IInv', RInv, NEW r \in Runs, Write(r)
    PROVE  RInv'
<1>1. /\ stage[r] = "judging"
      /\ upsert[r] # NoUpsert
      /\ written' = [written EXCEPT ![r] = written[r] \cup {upsert[r].candidate}]
      /\ upsert' = [upsert EXCEPT ![r] = NoUpsert]
      /\ UNCHANGED <<stage, found, todo, tally, rows, evidence, phases>>
  BY DEF Write, Writing
<1>2. Alone(r) /\ Grows
  BY <1>1 DEF Alone, Grows, IInv, TypeOK
<1>3. Reports(r)'
  <2> SUFFICES ASSUME NEW f \in Families
               PROVE  /\ CountedOnce(r, f)' /\ CountedAsStored(r, f)'
                      /\ Silent(r, f)' /\ Reported(r, f)'
    BY DEF Reports
  <2>1. Kept(r, f)' = Kept(r, f)
    BY <1>1 DEF Kept, IInv, TypeOK
  <2>2. Left(r, f)' = Left(r, f)
    BY <1>1 DEF Left
  <2>3. CountedOnce(r, f) /\ Silent(r, f)
    BY DEF RInv, Reports
  <2> QED
    BY <1>1, <2>1, <2>2, <2>3 DEF CountedOnce, CountedAsStored, Silent, Reported, Faithful
<1> QED
  BY <1>2, <1>3, OneRunAtATime

\* The commit makes what is kept visible.
LEMMA CommitReports ==
    ASSUME IInv, IInv', RInv, NEW r \in Runs, Commit(r)
    PROVE  RInv'
<1>1. /\ stage[r] = "judging" /\ upsert[r] = NoUpsert /\ todo[r] = {}
      /\ evidence' = [c \in Candidate |-> IF c \in written[r] THEN r ELSE evidence[c]]
      /\ rows' = [rows EXCEPT ![r] = found[r]]
      /\ written' = [written EXCEPT ![r] = {}]
      /\ stage' = [stage EXCEPT ![r] = "committed"]
      /\ UNCHANGED <<found, todo, upsert, tally, phases>>
  BY DEF Commit, Idle, To
<1>2. Alone(r)
  BY <1>1 DEF Alone, IInv, TypeOK
<1>3. Grows
  BY <1>1, RunAssumption DEF Grows
<1>4. Reports(r)'
  <2> SUFFICES ASSUME NEW f \in Families
               PROVE  /\ CountedOnce(r, f)' /\ CountedAsStored(r, f)'
                      /\ Silent(r, f)' /\ Reported(r, f)'
    BY DEF Reports
  <2>1. CountedOnce(r, f) /\ Silent(r, f)
    BY DEF RInv, Reports
  <2>2. stage'[r] = "committed" /\ rows'[r] = found[r]
    BY <1>1 DEF IInv, TypeOK
  <2>3. Kept(r, f) \subseteq Shown(f)'
    BY <1>1, RunAssumption DEF Kept, Shown, Candidate
  <2>4. /\ Kept(r, f) \in SUBSET Pages /\ Shown(f)' \in SUBSET Pages
        /\ Left(r, f) = {}
    BY <1>1 DEF Kept, Shown, Left
  <2>5. /\ Cardinality(Kept(r, f)) \in Nat
        /\ Cardinality(Shown(f)') \in Nat
        /\ Cardinality(Kept(r, f)) <= Cardinality(Shown(f)')
        /\ Cardinality(Left(r, f)) = 0
    BY <2>3, <2>4, Counts, CountsGrow, FS_EmptySet
  <2>6. /\ tally[r][f] \in [judged : Nat, accepted : Nat]
        /\ Cardinality(found[r][f].pages) \in Nat
    BY EmptyTypes DEF IInv, TypeOK, Tally
  <2>7. /\ tally[r][f].accepted <= tally[r][f].judged
        /\ tally[r][f].judged <= Cardinality(found[r][f].pages)
        /\ tally[r][f].accepted <= Cardinality(Shown(f)')
    BY <1>1, <2>1, <2>5, <2>6 DEF CountedOnce
  <2>8. CountedAsStored(r, f)'
    BY <1>1, <2>2, <2>7 DEF CountedAsStored
  <2>9. CountedOnce(r, f)' /\ Silent(r, f)'
    BY <2>2 DEF CountedOnce, Silent
  <2>10. phases'[r][f].state \in {"pending", "running"}
    BY <1>1, <2>1 DEF Silent
  <2>11. Reported(r, f)'
    BY <2>10 DEF Reported, Faithful
  <2> QED
    BY <2>8, <2>9, <2>11
<1> QED
  BY <1>2, <1>3, <1>4, OneRunAtATime

\* A rolled-back or lost run counts nothing, and its report is what it was.
LEMMA LeaveReports ==
    ASSUME IInv, IInv', RInv, NEW r \in Runs,
           Fail(r) \/ Conflict(r) \/ Victim(r) \/ Die(r)
    PROVE  RInv'
<1>1. /\ Forget(r)
      /\ To(r, "aborted") \/ To(r, "dead")
      /\ UNCHANGED <<rows, evidence, phases>>
  BY DEF Fail, Conflict, Victim, Die, Abort
<1>2. /\ found' = [found EXCEPT ![r] = NoneFound]
      /\ todo' = [todo EXCEPT ![r] = {}]
      /\ upsert' = [upsert EXCEPT ![r] = NoUpsert]
      /\ written' = [written EXCEPT ![r] = {}]
      /\ tally' = [tally EXCEPT ![r] = NoTally]
      /\ stage' = [stage EXCEPT ![r] = "aborted"] \/ stage' = [stage EXCEPT ![r] = "dead"]
  BY <1>1 DEF Forget, To
<1>3. Alone(r) /\ Grows
  BY <1>1, <1>2 DEF Alone, Grows, IInv, TypeOK
<1>4. stage'[r] \in {"aborted", "dead"}
  BY <1>2 DEF IInv, TypeOK
<1>5. Reports(r)'
  <2> SUFFICES ASSUME NEW f \in Families
               PROVE  /\ CountedOnce(r, f)' /\ CountedAsStored(r, f)'
                      /\ Silent(r, f)' /\ Reported(r, f)'
    BY DEF Reports
  <2>1. CountedOnce(r, f)' /\ CountedAsStored(r, f)' /\ Silent(r, f)'
    BY <1>4 DEF CountedOnce, CountedAsStored, Silent
  <2>2. Reported(r, f)
    BY DEF RInv, Reports
  <2>3. Shown(f)' = Shown(f)
    BY <1>1 DEF Shown
  <2>4. Reported(r, f)'
    BY <1>1, <2>2, <2>3 DEF Reported, Faithful
  <2> QED
    BY <2>1, <2>4
<1> QED
  BY <1>3, <1>5, OneRunAtATime

\* What a run reports when its discovery is over is what it stored.
LEMMA ResultIsStored ==
    ASSUME IInv, RInv, NEW r \in Runs, NEW f \in Families,
           stage[r] \in {"committed", "aborted"}
    PROVE  Faithful(Result(r)[f], r, f)
<1>1. CASE stage[r] = "aborted"
  <2>1. rows[r] = NoRows
    BY <1>1 DEF IInv, UncommittedBefore
  <2>2. Result(r)[f].state = "failed"
    BY <1>1 DEF Result, Phases
  <2> QED
    BY <2>1, <2>2 DEF Faithful
<1>2. CASE stage[r] = "committed" /\ Planned[f] = 0
  <2>1. Result(r)[f].state = "running"
    BY <1>2 DEF Result, Phases
  <2> QED
    BY <2>1 DEF Faithful
<1>3. CASE stage[r] = "committed" /\ Planned[f] # 0
  <2>1. Result(r)[f] = FamilyResult(r, f)
    BY <1>3 DEF Result
  <2>2. CountedAsStored(r, f)
    BY DEF RInv, Reports
  <2>3. /\ rows[r] = found[r]
        /\ tally[r][f].accepted <= tally[r][f].judged
        /\ tally[r][f].judged <= Cardinality(found[r][f].pages)
        /\ tally[r][f].accepted <= Cardinality(Shown(f))
    BY <1>3, <2>2 DEF CountedAsStored
  <2>4. found[r] \in AllFound /\ rows[r] # NoRows
    BY <2>3, RowsAssumption DEF IInv, TypeOK
  <2>5. found[r][f].served \in 0 .. Planned[f]
    <3>1. found[r][f] \in Found(f)
      BY <2>4 DEF AllFound
    <3> QED
      BY <3>1 DEF Found
  <2>6. Planned[f] \in Nat
    BY PlannedAssumption
  <2> DEFINE served == found[r][f].served
             p == FamilyResult(r, f)
  <2>7. /\ p.served = served
        /\ p.candidates = Cardinality(found[r][f].pages)
        /\ p.judged = tally[r][f].judged
        /\ p.accepted = tally[r][f].accepted
        /\ p.state = IF served = 0 THEN "failed"
                     ELSE IF served < Planned[f] THEN "partial" ELSE "complete"
    BY DEF FamilyResult
  <2>8. /\ p.state = "complete" => served = Planned[f]
        /\ p.state = "partial" => served # Planned[f]
        /\ p.state = "failed" => served = 0
    BY <2>5, <2>6, <2>7
  <2>9. p.state \in {"complete", "partial"} => (p.state = "complete" <=> p.served = Planned[f])
    BY <2>7, <2>8
  <2> HIDE DEF p
  <2>10. Faithful(p, r, f)
    BY <2>3, <2>4, <2>7, <2>8, <2>9 DEF Faithful
  <2> QED
    BY <2>1, <2>10 DEF p
<1> QED
  BY <1>1, <1>2, <1>3

\* A run reports, or closes.
LEMMA ReportReports ==
    ASSUME IInv, IInv', RInv, NEW r \in Runs, Report(r) \/ Close(r)
    PROVE  RInv'
<1>1. /\ stage[r] \in {"committed", "aborted"}
      /\ phases' = [phases EXCEPT ![r] = Result(r)]
      /\ UNCHANGED <<rows, evidence>>
  BY DEF Report, Close
<1>2. \/ UNCHANGED <<stage, found, todo, upsert, written, tally>>
      \/ /\ found' = [found EXCEPT ![r] = NoneFound]
         /\ todo' = [todo EXCEPT ![r] = {}]
         /\ upsert' = [upsert EXCEPT ![r] = NoUpsert]
         /\ written' = [written EXCEPT ![r] = {}]
         /\ tally' = [tally EXCEPT ![r] = NoTally]
         /\ stage' = [stage EXCEPT ![r] = "closed"]
  BY DEF Report, Close, Forget, To, local
<1>3. Alone(r) /\ Grows
  BY <1>1, <1>2 DEF Alone, Grows, IInv, TypeOK
<1>4. \/ UNCHANGED <<stage, found, tally>>
      \/ stage'[r] = "closed"
  BY <1>2 DEF IInv, TypeOK
<1>5. Reports(r)'
  <2> SUFFICES ASSUME NEW f \in Families
               PROVE  /\ CountedOnce(r, f)' /\ CountedAsStored(r, f)'
                      /\ Silent(r, f)' /\ Reported(r, f)'
    BY DEF Reports
  <2>1. Shown(f)' = Shown(f)
    BY <1>1 DEF Shown
  <2>2. CountedAsStored(r, f)
    BY DEF RInv, Reports
  <2>3. CountedOnce(r, f)' /\ CountedAsStored(r, f)' /\ Silent(r, f)'
    BY <1>1, <1>4, <2>1, <2>2 DEF CountedOnce, CountedAsStored, Silent
  <2>4. phases'[r] = Result(r)
    BY <1>1 DEF IInv, TypeOK
  <2>5. Reported(r, f)'
    BY <1>1, <2>1, <2>4, ResultIsStored DEF Reported, Faithful
  <2> QED
    BY <2>3, <2>5
<1> QED
  BY <1>3, <1>5, OneRunAtATime

\* ReportedAsStored: whatever the other runs of the investigation commit, roll
\* back or wait for, what a run reports of a family is what it stored of it.
THEOREM ReportsAreTrue == Spec => []ReportedAsStored
<1>1. Init => RInv
  BY InitReports
<1>2. IInv /\ IInv' /\ RInv /\ [Next]_vars => RInv'
  <2> SUFFICES ASSUME IInv, IInv', RInv, [Next]_vars PROVE RInv'
    OBVIOUS
  <2>1. CASE UNCHANGED vars
    <3> SUFFICES ASSUME NEW r \in Runs, NEW f \in Families
                 PROVE  /\ CountedOnce(r, f)' /\ CountedAsStored(r, f)'
                        /\ Silent(r, f)' /\ Reported(r, f)'
      BY DEF RInv, Reports
    <3>1. UNCHANGED <<stage, found, todo, upsert, written, tally, rows, evidence, phases>>
      BY <2>1 DEF vars, local
    <3>2. /\ CountedOnce(r, f) /\ CountedAsStored(r, f)
          /\ Silent(r, f) /\ Reported(r, f)
      BY DEF RInv, Reports
    <3>3. Left(r, f)' = Left(r, f) /\ Kept(r, f)' = Kept(r, f) /\ Shown(f)' = Shown(f)
      BY <3>1 DEF Left, Kept, Shown
    <3>4. CountedOnce(r, f)' /\ CountedAsStored(r, f)' /\ Silent(r, f)'
      BY <3>1, <3>2, <3>3 DEF CountedOnce, CountedAsStored, Silent
    <3>5. Reported(r, f)'
      BY <3>1, <3>2, <3>3 DEF Reported, Faithful
    <3> QED
      BY <3>4, <3>5
  <2>2. ASSUME NEW r \in Runs, Step(r) \/ Fail(r) \/ Die(r) PROVE RInv'
    <3>1. CASE Judge(r)
      BY <3>1, JudgeReports DEF Judge
    <3>2. CASE Skip(r) \/ Start(r) \/ SearchesReturn(r)
      BY <3>2, BeginReports, SearchesReturnReports
    <3>3. CASE Write(r) \/ Commit(r)
      BY <3>3, WriteReports, CommitReports
    <3>4. CASE Fail(r) \/ Conflict(r) \/ Victim(r) \/ Die(r)
      BY <3>4, LeaveReports
    <3>5. CASE Report(r) \/ Close(r)
      BY <3>5, ReportReports
    <3> QED
      BY <2>2, <3>1, <3>2, <3>3, <3>4, <3>5 DEF Step
  <2> QED
    BY <2>1, <2>2 DEF Next
<1>3. RInv => ReportedAsStored
  BY DEF RInv, Reports, Reported, Faithful, ReportedAsStored, Shown
<1> QED
  BY <1>1, <1>2, <1>3, InductiveInvariant, PTL DEF Spec
=============================================================================
