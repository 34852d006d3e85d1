-------------------------- MODULE MCReducer_proofs --------------------------
(***************************************************************************)
(* The properties of the input family, for every evidence, injection and   *)
(* override it may be given: a behaviour is at rest or has answered one    *)
(* admissible input.                                                       *)
(***************************************************************************)
EXTENDS MCReducer, Reducer_proofs

\* The answer is that of reduce() to the input.
Answered == out = Idle \/ (Admissible(inp) /\ out = Reduce(inp))

\* The inputs of the family are admissible, whatever its bounds.
LEMMA CallIsAdmissible == ASSUME Call PROVE Admissible(inp')
<1>1. PICK p \in AllowedPairs, t \in Pointers, i \in InjectedSets,
           o \in Targets \cup {NoOverride}, h \in SUBSET Hints,
           d \in {s \in SUBSET Signals : Cardinality(s) <= MaxDetected} :
        inp' = [state |-> p[1], bucket |-> p[2], task |-> t.task,
                completion |-> t.completion, detected |-> d,
                injected |-> i, override |-> o, hints |-> h]
  BY DEF Call
<1>2. p[1] \in States /\ p[2] \in BucketOrNull /\ p = <<p[1], p[2]>>
  BY HomeEntries, HomeStates DEF AllowedPairs, States, Buckets, BucketOrNull
<1>3. t.task \in BOOLEAN /\ t.completion \in Completions
  <2>1. CASE t = [task |-> FALSE, completion |-> "none"]
    BY <2>1 DEF Completions
  <2>2. CASE t \in [task : {TRUE}, completion : Completions]
    <3>1. t.task = TRUE /\ t.completion \in Completions
      BY <2>2
    <3>2. QED
      BY <3>1
  <2>3. QED
    BY <2>1, <2>2 DEF Pointers
<1>4. /\ i \in SUBSET Evidence /\ o \in Overrides
      /\ d \in SUBSET Evidence /\ "override" \notin d
  BY FamilyAssumption DEF Overrides
<1>5. inp' \in Inputs
  BY <1>1, <1>2, <1>3, <1>4 DEF Inputs
<1>6. QED
  BY <1>1, <1>2, <1>4, <1>5 DEF Admissible

LEMMA AlwaysAnswered == Spec => []Answered
<1>1. Init => Answered
  BY DEF Init, Answered
<1>2. Answered /\ [Next]_vars => Answered'
  <2> SUFFICES ASSUME Answered, [Next]_vars PROVE Answered'
    OBVIOUS
  <2>1. CASE Next
    <3>1. Admissible(inp')
      BY <2>1, CallIsAdmissible DEF Next
    <3>2. out' = Reduce(inp')
      BY <2>1 DEF Next, Call
    <3>3. QED
      BY <3>1, <3>2 DEF Answered
  <2>2. CASE UNCHANGED vars
    BY <2>2 DEF vars, Answered
  <2>3. QED
    BY <2>1, <2>2
<1>3. QED
  BY <1>1, <1>2, PTL DEF Spec

\* Inputs and results have their types: reduce() is total on the family.
THEOREM TypesHold == Spec => []TypeOK
<1>1. Answered => TypeOK
  BY ReduceSound DEF Answered, TypeOK, Called, Admissible, Sound
<1>2. QED
  BY <1>1, AlwaysAnswered, PTL

\* G5: reduce() never raises because the table asked for a forbidden pair.
THEOREM ContractHolds == Spec => []NoContractError
<1>1. Answered => NoContractError
  BY ReduceKeepsContract DEF Answered, NoContractError, Called
<1>2. QED
  BY <1>1, AlwaysAnswered, PTL

\* I4: evidence of a lower tier never decides.
THEOREM TiersDoNotBlend == Spec => []LowerTiersNeverDecide
<1>1. Answered => LowerTiersNeverDecide
  BY ReduceIgnoresLower
     DEF Answered, LowerTiersNeverDecide, Called, Admissible, Top
<1>2. QED
  BY <1>1, AlwaysAnswered, PTL

\* I6: an operation key fixes the effect it stands for.
THEOREM KeysFixEffects == Spec => []KeyFixesEffect
<1>1. Answered => KeyFixesEffect
  BY ReduceKeepsContract DEF Answered, KeyFixesEffect, Called, KeyTells
<1>2. QED
  BY <1>1, AlwaysAnswered, PTL

\* I7/I3: a lag report or a conflict stops every writeback, and a review stays
\* closed to evidence.
THEOREM ReviewsStopWritebacks == Spec => []ReviewStopsWriteback
<1>1. Answered => ReviewStopsWriteback
  BY ReduceStops DEF Answered, ReviewStopsWriteback, Called, All
<1>2. QED
  BY <1>1, AlwaysAnswered, PTL

\* A winning ask opens the state of its own kind, with a To Do task for it,
\* but for the four exceptions AskOpens names.
THEOREM AsksOpen == Spec => []AskOpens
<1>1. Answered => AskOpens
  BY ReduceOpens DEF Answered, AskOpens, Called, OpeningKinds
<1>2. QED
  BY <1>1, AlwaysAnswered, PTL
=============================================================================
