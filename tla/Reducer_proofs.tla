--------------------------- MODULE Reducer_proofs ---------------------------
(***************************************************************************)
(* What reduce() returns, for every input and every done-category policy.  *)
(***************************************************************************)
EXTENDS Reducer, TLAPS

\* What the columns of a row may hold.
RowFits(r) ==
    /\ r.id \in Nat
    /\ r.next \in States \cup {"preserve"}
    /\ r.bucket \in BucketOrNull \cup {"preserve"}
    /\ r.task \in TaskKinds
    /\ r.category \in {"noop", "apply", "clear"}
    /\ r.label \in BucketOrNull \cup {"policy", "preserve"}
    /\ r.category = "clear" => r.guard = "archive_window_elapsed"

\* The state-to-bucket map, entry by entry.
LEMMA HomeEntries ==
    /\ Home["none"] = "null" /\ Home["act_open"] = "Act"
    /\ Home["respond_open"] = "Respond" /\ Home["delegate_open"] = "Delegate"
    /\ Home["deferred"] = "Defer" /\ Home["waiting_on"] = "WaitingOn"
    /\ Home["fyi_context"] = "FYI"
    /\ Home["noise_transient"] = "DeleteOrUnsubscribe"
  BY DEF Home

LEMMA RowsFromNone == \A r \in FromNone : RowFits(r)
  BY HomeEntries DEF FromNone, RowFits, Row, Stay, Move, States, Buckets,
     BucketOrNull, TaskKinds

LEMMA RowsFromAct == \A r \in FromAct : RowFits(r)
  BY HomeEntries DEF FromAct, RowFits, Row, Stay, Refresh, Move, Finish,
     States, Buckets, BucketOrNull, TaskKinds

LEMMA RowsFromDelegate == \A r \in FromDelegate : RowFits(r)
  BY HomeEntries DEF FromDelegate, RowFits, Row, Stay, Refresh, Move, Finish,
     States, Buckets, BucketOrNull, TaskKinds

LEMMA RowsFromRespond == \A r \in FromRespond : RowFits(r)
  BY HomeEntries DEF FromRespond, RowFits, Row, Stay, Refresh, Move, Finish,
     States, Buckets, BucketOrNull, TaskKinds

LEMMA RowsFromDeferred == \A r \in FromDeferred : RowFits(r)
  BY HomeEntries DEF FromDeferred, RowFits, Row, Stay, Move, Finish,
     States, Buckets, BucketOrNull, TaskKinds

LEMMA RowsFromWaiting == \A r \in FromWaiting : RowFits(r)
  BY HomeEntries DEF FromWaiting, RowFits, Row, Stay, Refresh, Move, Finish,
     States, Buckets, BucketOrNull, TaskKinds

LEMMA RowsFromDone == \A r \in FromDone : RowFits(r)
  BY HomeEntries DEF FromDone, RowFits, Row, StayDone, Move,
     States, Buckets, BucketOrNull, TaskKinds

LEMMA RowsFromContext == \A r \in FromContext : RowFits(r)
  BY HomeEntries DEF FromContext, RowFits, Row, Stay,
     States, Buckets, BucketOrNull, TaskKinds

LEMMA RowsGuardedNoops == \A r \in GuardedNoops : RowFits(r)
  BY HomeEntries DEF GuardedNoops, RowFits, Row, StayDone, Stay, Refresh,
     States, Buckets, BucketOrNull, TaskKinds

\* Every row of the table is well formed, and only the archive row clears.
LEMMA RowsFit == \A r \in Rows : RowFits(r)
  BY RowsFromNone, RowsFromAct, RowsFromRespond, RowsFromDelegate,
     RowsFromDeferred, RowsFromWaiting, RowsFromDone, RowsFromContext,
     RowsGuardedNoops DEF Rows

-----------------------------------------------------------------------------
\* A result a run can write back: of the right type, with a key for every To
\* Do intent.
Sound(result) ==
    /\ result \in Results
    /\ result.task # "noop" => result.tkey # NoKey

\* The result names a key for whatever label it asks for.
Keyed(result) == result.category \in {"apply", "clear"} => result.ckey # NoKey

\* A key names a kind and the state it leads to, and is never the empty one.
LEMMA TaskKeyType ==
  ASSUME NEW kind \in TaskKinds, NEW next \in States
  PROVE  /\ TaskKey(kind, next) \in TaskKeys \cup {NoKey}
         /\ kind # "noop" => TaskKey(kind, next) # NoKey
  BY DEF TaskKey, TaskKeys, NoKey, TaskKinds

LEMMA NoopSound ==
  ASSUME NEW inp \in Inputs, NEW row \in Nat,
         NEW winning \in Evidence \cup {NoEvidence}
  PROVE  Sound(NoopResult(inp, row, winning))
         /\ Keyed(NoopResult(inp, row, winning))
  BY DEF NoopResult, Sound, Keyed, Results, Inputs, TaskKinds, CategoryKinds,
     BucketOrNull

LEMMA RaisedSound ==
  ASSUME NEW inp \in Inputs, NEW row \in Nat,
         NEW winning \in Evidence \cup {NoEvidence}
  PROVE  Sound(RaisedResult(inp, row, winning))
         /\ Keyed(RaisedResult(inp, row, winning))
  BY DEF RaisedResult, NoopResult, Sound, Keyed, Results, Inputs, TaskKinds,
     CategoryKinds, BucketOrNull

LEMMA NeedsReviewSound ==
  ASSUME NEW inp \in Inputs, NEW row \in Nat, NEW task \in TaskKinds,
         NEW winning \in Evidence \cup {NoEvidence}
  PROVE  Sound(NeedsReviewResult(inp, row, task, winning))
         /\ Keyed(NeedsReviewResult(inp, row, task, winning))
<1>1. /\ TaskKey(task, "needs_review") \in TaskKeys \cup {NoKey}
      /\ task # "noop" => TaskKey(task, "needs_review") # NoKey
  BY TaskKeyType DEF States
<1>2. QED
  BY <1>1 DEF NeedsReviewResult, NoopResult, Sound, Keyed, Results, Inputs,
     States, CategoryKinds, BucketOrNull

\* The category intent of a row: its kind, its label and the key of both.
LEMMA CategoryIntentType ==
  ASSUME NEW inp \in Inputs, NEW r, RowFits(r),
         NEW bucket \in BucketOrNull
  PROVE  LET cat == CategoryIntent(r, inp, bucket)
         IN  /\ cat.kind \in CategoryKinds
             /\ cat.label \in BucketOrNull
             /\ cat.key \in CategoryKeys \cup {NoKey}
             /\ cat.kind \in {"apply", "clear"} /\ r.category # "clear"
                   => cat.key # NoKey
<1>1. PolicyKind \in CategoryKinds
  BY DonePolicyAssumption DEF PolicyKind, CategoryKinds
<1>2. PolicyKeyKind \in {"category_apply", "category_clear",
                         "category_preserve"}
  BY DonePolicyAssumption DEF PolicyKeyKind
<1>3. PolicyBucket(inp) \in BucketOrNull
  BY DonePolicyAssumption DEF PolicyBucket, Inputs, BucketOrNull, Buckets
<1>4. \A k \in {"category_apply", "category_clear", "category_preserve"},
         b \in BucketOrNull :
        <<k, b>> \in CategoryKeys /\ <<k, b>> # NoKey
  BY DEF CategoryKeys, NoKey
<1>5. CASE r.category # "apply"
  BY <1>5 DEF CategoryIntent, RowFits, CategoryKinds, BucketOrNull
<1>6. CASE r.category = "apply" /\ r.label = "policy"
  BY <1>1, <1>2, <1>3, <1>4, <1>6 DEF CategoryIntent
<1>7. CASE r.category = "apply" /\ r.label # "policy"
  BY <1>4, <1>7 DEF CategoryIntent, RowFits, CategoryKinds
<1>8. QED
  BY <1>5, <1>6, <1>7

\* What a row of the table makes of an input.
LEMMA RowResultSound ==
  ASSUME NEW inp \in Inputs, NEW r \in Rows, NEW winning \in Evidence
  PROVE  /\ Sound(RowResult(r, inp, winning))
         /\ r.category # "clear" => Keyed(RowResult(r, inp, winning))
<1> DEFINE next == NextState(r, inp, winning)
           bucket == NextBucket(r, inp, winning)
           kind == TaskKind(r, inp)
           cat == CategoryIntent(r, inp, bucket)
<1>1. RowFits(r)
  BY RowsFit
<1>2. \A w \in DOMAIN AskState :
        AskState[w] \in States /\ Home[AskState[w]] \in BucketOrNull
  BY HomeEntries DEF AskState, States, BucketOrNull, Buckets
<1>3. next \in States
  BY <1>1, <1>2 DEF NextState, RowFits, Inputs
<1>4. bucket \in BucketOrNull
  BY <1>1, <1>2 DEF NextBucket, RowFits, Inputs
<1>5. kind \in TaskKinds
  BY <1>1 DEF TaskKind, RowFits, TaskKinds
<1>6. /\ TaskKey(kind, next) \in TaskKeys \cup {NoKey}
      /\ kind # "noop" => TaskKey(kind, next) # NoKey
  BY <1>3, <1>5, TaskKeyType
<1>7. /\ cat.kind \in CategoryKinds
      /\ cat.label \in BucketOrNull
      /\ cat.key \in CategoryKeys \cup {NoKey}
      /\ cat.kind \in {"apply", "clear"} /\ r.category # "clear"
            => cat.key # NoKey
  BY <1>1, <1>4, CategoryIntentType
<1>8. r.id \in Nat
  BY <1>1 DEF RowFits
<1>9. CASE \/ Guard(r.guard, inp) = "raise"
           \/ <<next, bucket>> \notin AllowedPairs
  BY <1>8, <1>9, RaisedSound DEF RowResult
<1>10. CASE ~(\/ Guard(r.guard, inp) = "raise"
              \/ <<next, bucket>> \notin AllowedPairs)
  <2>1. RowResult(r, inp, winning) =
          [next |-> next, bucket |-> bucket, task |-> kind, target |-> bucket,
           tkey |-> TaskKey(kind, next), category |-> cat.kind,
           label |-> cat.label, ckey |-> cat.key, row |-> r.id,
           winning |-> winning, raised |-> FALSE]
    BY <1>10 DEF RowResult
  <2> HIDE DEF next, bucket, kind, cat
  <2>2. QED
    BY <1>3, <1>4, <1>5, <1>6, <1>7, <1>8, <2>1 DEF Sound, Keyed, Results
<1>11. QED
  BY <1>9, <1>10

\* An override is written verbatim, with the label of its bucket if it has one.
LEMMA OverrideSound ==
  ASSUME NEW inp \in Inputs, inp.override # NoOverride, NEW row \in Nat
  PROVE  Sound(OverrideResult(inp, row)) /\ Keyed(OverrideResult(inp, row))
<1> DEFINE to == inp.override
           kind == IF inp.task THEN "update_fields" ELSE "noop"
           label == to.bucket # "null"
           ckey == IF label THEN <<"category_apply", to.bucket>> ELSE NoKey
<1>1. "override" \in Evidence
  BY DEF Evidence, Tier
<1>2. to.state \in States /\ to.bucket \in BucketOrNull
  BY DEF Inputs, Overrides
<1>3. kind \in TaskKinds
  BY DEF TaskKinds
<1>4. /\ TaskKey(kind, to.state) \in TaskKeys \cup {NoKey}
      /\ kind # "noop" => TaskKey(kind, to.state) # NoKey
  BY <1>2, <1>3, TaskKeyType
<1>5. ckey \in CategoryKeys \cup {NoKey} /\ (label => ckey # NoKey)
  BY <1>2 DEF CategoryKeys, NoKey
<1>6. CASE <<to.state, to.bucket>> \notin AllowedPairs
  BY <1>1, <1>6, RaisedSound DEF OverrideResult
<1>7. CASE <<to.state, to.bucket>> \in AllowedPairs
  <2>1. OverrideResult(inp, row) =
          [next |-> to.state, bucket |-> to.bucket, task |-> kind,
           target |-> to.bucket, tkey |-> TaskKey(kind, to.state),
           category |-> IF label THEN "apply" ELSE "noop",
           label |-> to.bucket, ckey |-> ckey, row |-> row,
           winning |-> "override", raised |-> FALSE]
    BY <1>7 DEF OverrideResult
  <2> HIDE DEF kind, ckey, to, label
  <2>2. QED
    BY <1>1, <1>2, <1>3, <1>4, <1>5, <2>1 DEF Sound, Keyed, Results,
       CategoryKinds
<1>8. QED
  BY <1>6, <1>7

-----------------------------------------------------------------------------
\* The winner is a piece of the evidence, or none is.
LEMMA WinnerType ==
  ASSUME NEW evidence \in SUBSET Evidence
  PROVE  Winner(evidence) \in evidence \cup {NoEvidence}
<1> DEFINE tiered == evidence \ NonTier
           best == {e \in tiered : \A f \in tiered : Outranks(e, f)}
<1>1. best # {} => (CHOOSE e \in best : TRUE) \in evidence
  OBVIOUS
<1>2. QED
  BY <1>1 DEF Winner

\* The table is answered by one of its rows, whose guard did not refuse, or by
\* a result that changes nothing.
LEMMA TableResultSound ==
  ASSUME NEW inp \in Inputs, NEW evidence \in SUBSET Evidence
  PROVE  /\ Sound(TableResult(inp, evidence))
         /\ "archive_window_elapsed" \notin inp.hints
               => Keyed(TableResult(inp, evidence))
<1> DEFINE drivers == Drivers(inp, evidence)
           answer(e) == {RowResult(r, inp, e) : r \in FindTransition(inp, e)}
           results == UNION {answer(e) : e \in drivers}
           ignored == {NoopResult(inp, 0, e) : e \in drivers}
           choices == IF results # {} THEN results
                      ELSE IF drivers # {} THEN ignored
                      ELSE {NoopResult(inp, 0, NoEvidence)}
           Good(result) ==
              /\ Sound(result)
              /\ "archive_window_elapsed" \notin inp.hints => Keyed(result)
<1>1. drivers \subseteq Evidence
  BY WinnerType DEF Drivers
<1>2. ASSUME NEW e \in drivers, NEW r \in FindTransition(inp, e)
      PROVE  Good(RowResult(r, inp, e))
  <2>1. r \in Rows /\ Guard(r.guard, inp) # "no"
    BY DEF FindTransition, Candidates
  <2>2. /\ Sound(RowResult(r, inp, e))
        /\ r.category # "clear" => Keyed(RowResult(r, inp, e))
    BY <1>1, <2>1, RowResultSound
  <2>3. r.category = "clear" => "archive_window_elapsed" \in inp.hints
    BY <2>1, RowsFit DEF RowFits, Guard, YesNo
  <2>4. QED
    BY <2>2, <2>3
<1>3. \A result \in results : Good(result)
  BY <1>2
<1>4. \A result \in ignored \cup {NoopResult(inp, 0, NoEvidence)} :
        Good(result)
  BY <1>1, NoopSound
<1>5. TableResult(inp, evidence) = CHOOSE result \in choices : TRUE
  BY DEF TableResult
<1>6. choices # {} /\ \A result \in choices : Good(result)
  <2>1. drivers # {} => ignored # {}
    OBVIOUS
  <2> HIDE DEF drivers, results, ignored, Good
  <2>2. QED
    BY <1>3, <1>4, <2>1
<1> HIDE DEF choices, Good
<1>7. Good(TableResult(inp, evidence))
  BY <1>5, <1>6
<1>8. QED
  BY <1>7 DEF Good

\* reduce() is total: on every input it returns a sound result (or raises), and
\* unless the archive window is over every label it asks for has a key.
THEOREM ReduceSound ==
  ASSUME NEW inp \in Inputs
  PROVE  /\ Sound(Reduce(inp))
         /\ "archive_window_elapsed" \notin inp.hints => Keyed(Reduce(inp))
<1> DEFINE asked == inp.override # NoOverride
           evidence == inp.injected \cup inp.detected
                         \cup (IF asked THEN {"override"} ELSE {})
           winning == Winner(evidence)
<1>1. "override" \in Evidence
  BY DEF Evidence, Tier
<1>2. evidence \in SUBSET Evidence
  BY <1>1 DEF Inputs
<1>3. winning \in Evidence \cup {NoEvidence}
  BY <1>2, WinnerType
<1>4. {"noop", "dead_letter"} \subseteq TaskKinds
  BY DEF TaskKinds
<1>5. CASE inp.state = "needs_review"
  BY <1>5, OverrideSound, NoopSound DEF Reduce
<1>6. CASE /\ inp.state # "needs_review"
           /\ evidence \cap {"conflict", "failures", "lag"} # {}
  BY <1>3, <1>4, <1>6, NeedsReviewSound DEF Reduce
<1>7. CASE /\ inp.state # "needs_review"
           /\ evidence \cap {"conflict", "failures", "lag"} = {}
           /\ winning = "override"
  BY <1>1, <1>7, OverrideSound, RaisedSound DEF Reduce
<1>8. CASE /\ inp.state # "needs_review"
           /\ evidence \cap {"conflict", "failures", "lag"} = {}
           /\ winning # "override"
  BY <1>2, <1>8, TableResultSound DEF Reduce
<1>9. QED
  BY <1>5, <1>6, <1>7, <1>8

-----------------------------------------------------------------------------
(* The contract of the table: where a row leads, what it does about an ask,  *)
(* and what the two mean for the result of reduce().                         *)


\* A pair is allowed when its state is free of bucket, or has this one.
LEMMA PairAllowed ==
  \A s, b : <<s, b>> \in AllowedPairs <=>
      \/ s \in {"done", "needs_review"} /\ b \in BucketOrNull
      \/ s \in DOMAIN Home /\ b = Home[s]
  BY DEF AllowedPairs

\* The end of a soft window is only looked at for a finished conversation.
ComparesWindow == {"hard_or_soft_in_window", "soft_expired_window",
                   "soft_window_open_continuation", "soft_in_window"}

\* The states that have one bucket.
LEMMA HomeStates == DOMAIN Home = States \ {"done", "needs_review"}
  BY DEF Home, States

\* The guards of the table.
GuardNames == {"always", "not_handoff_confirmed", "original_ask_was_act",
               "original_ask_was_respond", "hard", "archive_window_elapsed",
               "delegate_hint_only"} \cup ComparesWindow

\* Where a row leads: a bucket that its state may have, and no To Do task that
\* needs a list for a review.
RowLeads(r) ==
    /\ \/ r.next \in {"preserve", "done", "needs_review"}
             /\ r.bucket = "preserve"
       \/ r.next \in DOMAIN Home /\ r.bucket = Home[r.next]
    /\ r.next = "needs_review" => r.task = "noop"
    /\ r.guard \in GuardNames
    /\ r.guard \in ComparesWindow => r.from = {"done"}

\* The first row that answers an ask.
FirstRow ==
    [deliverable |-> [none |-> 1, act_open |-> 10, respond_open |-> 21,
                      delegate_open |-> 32, deferred |-> 42,
                      waiting_on |-> 52, done |-> 60, fyi_context |-> 70,
                      noise_transient |-> 72],
     reply |-> [none |-> 2, act_open |-> 11, respond_open |-> 20,
                deferred |-> 43, waiting_on |-> 53, done |-> 61,
                fyi_context |-> 70, noise_transient |-> 72]]

OpeningKinds == {"create", "update_fields", "move_list", "reopen"}

\* What a row does about an ask that it answers; a row without a trigger
\* answers any.
RowOpens(r) ==
    \A w \in DOMAIN AskState, s \in r.from :
        w \in r.on \/ r.on = {} =>
            /\ w \in r.on => s \in DOMAIN FirstRow[w]
            /\ s \in DOMAIN FirstRow[w] => r.id >= FirstRow[w][s]
            /\ s = "done" /\ r.id < 62 => r.guard = "hard_or_soft_in_window"
            /\ \/ r.next \in {AskState[w], "preserve"}
                    /\ r.task \in OpeningKinds
               \/ r.next = "needs_review"
               \/ r.on = {} /\ r.id \in {66, 104}

LEMMA LeadsNone == \A r \in FromNone : RowLeads(r)
  BY HomeEntries, HomeStates DEF FromNone, RowLeads, Row, Stay, Move,
     GuardNames, ComparesWindow, States

LEMMA LeadsAct == \A r \in FromAct : RowLeads(r)
  BY HomeEntries, HomeStates DEF FromAct, RowLeads, Row, Stay, Refresh, Move,
     Finish, GuardNames, ComparesWindow, States

LEMMA LeadsRespond == \A r \in FromRespond : RowLeads(r)
  BY HomeEntries, HomeStates DEF FromRespond, RowLeads, Row, Stay, Refresh,
     Move, Finish, GuardNames, ComparesWindow, States

LEMMA LeadsDelegate == \A r \in FromDelegate : RowLeads(r)
  BY HomeEntries, HomeStates DEF FromDelegate, RowLeads, Row, Stay, Move,
     Finish, GuardNames, ComparesWindow, States

LEMMA LeadsDeferred == \A r \in FromDeferred : RowLeads(r)
  BY HomeEntries, HomeStates DEF FromDeferred, RowLeads, Row, Stay, Move,
     Finish, GuardNames, ComparesWindow, States

LEMMA LeadsWaiting == \A r \in FromWaiting : RowLeads(r)
  BY HomeEntries, HomeStates DEF FromWaiting, RowLeads, Row, Stay, Refresh,
     Move, Finish, GuardNames, ComparesWindow, States

LEMMA LeadsDone == \A r \in FromDone : RowLeads(r)
  BY HomeEntries, HomeStates DEF FromDone, RowLeads, Row, StayDone, Move,
     GuardNames, ComparesWindow, States

LEMMA LeadsContext == \A r \in FromContext : RowLeads(r)
  BY HomeEntries, HomeStates DEF FromContext, RowLeads, Row, Stay,
     GuardNames, ComparesWindow, States

LEMMA LeadsNoops == \A r \in GuardedNoops : RowLeads(r)
  BY HomeEntries, HomeStates DEF GuardedNoops, RowLeads, Row, StayDone, Stay,
     Refresh, GuardNames, ComparesWindow, States

LEMMA LeadsAll == \A r \in Rows : RowLeads(r)
  BY LeadsNone, LeadsAct, LeadsRespond, LeadsDelegate, LeadsDeferred,
     LeadsWaiting, LeadsDone, LeadsContext, LeadsNoops DEF Rows

LEMMA OpensNone == \A r \in FromNone : RowOpens(r)
  BY HomeEntries, HomeStates DEF FromNone, RowOpens, Row, Stay, Move,
     AskState, FirstRow, OpeningKinds, States

LEMMA OpensAct == \A r \in FromAct : RowOpens(r)
  BY HomeEntries, HomeStates DEF FromAct, RowOpens, Row, Stay, Refresh, Move,
     Finish, AskState, FirstRow, OpeningKinds, States

LEMMA OpensRespond == \A r \in FromRespond : RowOpens(r)
  BY HomeEntries, HomeStates DEF FromRespond, RowOpens, Row, Stay, Refresh,
     Move, Finish, AskState, FirstRow, OpeningKinds, States

LEMMA OpensDelegate == \A r \in FromDelegate : RowOpens(r)
  BY HomeEntries, HomeStates DEF FromDelegate, RowOpens, Row, Stay, Move,
     Finish, AskState, FirstRow, OpeningKinds, States

LEMMA OpensDeferred == \A r \in FromDeferred : RowOpens(r)
  BY HomeEntries, HomeStates DEF FromDeferred, RowOpens, Row, Stay, Move,
     Finish, AskState, FirstRow, OpeningKinds, States

LEMMA OpensWaiting == \A r \in FromWaiting : RowOpens(r)
  BY HomeEntries, HomeStates DEF FromWaiting, RowOpens, Row, Stay, Refresh,
     Move, Finish, AskState, FirstRow, OpeningKinds, States

LEMMA OpensDone == \A r \in FromDone : RowOpens(r)
  BY HomeEntries, HomeStates DEF FromDone, RowOpens, Row, StayDone, Move,
     AskState, FirstRow, OpeningKinds, States

LEMMA OpensContext == \A r \in FromContext : RowOpens(r)
  BY HomeEntries, HomeStates DEF FromContext, RowOpens, Row, Stay, AskState,
     FirstRow, OpeningKinds, States

LEMMA OpensNoops == \A r \in GuardedNoops : RowOpens(r)
  BY HomeEntries, HomeStates DEF GuardedNoops, RowOpens, Row, StayDone, Stay,
     Refresh, AskState, FirstRow, OpeningKinds, States

LEMMA OpensAll == \A r \in Rows : RowOpens(r)
  BY OpensNone, OpensAct, OpensRespond, OpensDelegate, OpensDeferred,
     OpensWaiting, OpensDone, OpensContext, OpensNoops DEF Rows

LEMMA FirstRowExists ==
  \A w \in DOMAIN AskState : \A s \in DOMAIN FirstRow[w] : \E r \in Rows :
      /\ r.id = FirstRow[w][s] /\ s \in r.from /\ w \in r.on
      /\ r.guard = IF s = "done" THEN "hard_or_soft_in_window" ELSE "always"
  BY HomeEntries DEF Rows, FromNone, FromAct, FromRespond, FromDelegate,
     FromDeferred,
     FromWaiting, FromDone, FromContext, GuardedNoops, AskState, FirstRow,
     Move, Row, Stay, Refresh, Finish, StayDone

\* The row that asks again once the soft window is over.
LEMMA ExpiredRowExists ==
  \E r \in Rows : /\ r.id = 62 /\ r.from = {"done"} /\ r.on = DOMAIN AskState
                  /\ r.guard = "soft_expired_window"
<1> DEFINE again == Row(62, {"done"}, {"deliverable", "reply"},
                        "soft_expired_window", "preserve", "preserve",
                        "create", "apply", "preserve")
<1>1. again \in Rows
  BY DEF Rows, FromDone
<1>2. DOMAIN AskState = {"deliverable", "reply"}
  BY DEF AskState
<1>3. /\ again.id = 62 /\ again.from = {"done"}
      /\ again.on = {"deliverable", "reply"}
      /\ again.guard = "soft_expired_window"
  BY DEF Row
<1> HIDE DEF again
<1>4. QED
  BY <1>1, <1>2, <1>3

-----------------------------------------------------------------------------
\* Where the table's answer comes from: a row, or no row for the driver, or no
\* driver at all.
LEMMA TableAnswer ==
  ASSUME NEW inp, NEW evidence
  PROVE  LET result == TableResult(inp, evidence)
             drivers == Drivers(inp, evidence)
         IN  \/ \E e \in drivers : \E r \in FindTransition(inp, e) :
                   result = RowResult(r, inp, e)
             \/ \E e \in drivers : /\ FindTransition(inp, e) = {}
                                   /\ result = NoopResult(inp, 0, e)
             \/ drivers = {} /\ result = NoopResult(inp, 0, NoEvidence)
<1> DEFINE drivers == Drivers(inp, evidence)
           answer(e) == {RowResult(r, inp, e) : r \in FindTransition(inp, e)}
           results == UNION {answer(e) : e \in drivers}
           ignored == {NoopResult(inp, 0, e) : e \in drivers}
           choices == IF results # {} THEN results
                      ELSE IF drivers # {} THEN ignored
                      ELSE {NoopResult(inp, 0, NoEvidence)}
<1>1. choices # {}
  <2>1. drivers # {} => ignored # {}
    OBVIOUS
  <2> HIDE DEF drivers, results, ignored
  <2>2. QED
    BY <2>1
<1>2. TableResult(inp, evidence) \in choices
  <2> HIDE DEF choices
  <2>1. (CHOOSE result \in choices : TRUE) \in choices
    BY <1>1
  <2>2. QED
    BY <2>1 DEF TableResult, choices
<1>3. results = {} => \A e \in drivers : FindTransition(inp, e) = {}
  OBVIOUS
<1>4. CASE results # {}
  BY <1>2, <1>4
<1>5. CASE results = {}
  BY <1>2, <1>3, <1>5
<1>6. QED
  BY <1>4, <1>5

\* What the guards say that decide about asks.
LEMMA GuardEntries ==
  ASSUME NEW inp
  PROVE  /\ Guard("always", inp) = "yes"
         /\ Guard("hard_or_soft_in_window", inp) =
              IF inp.completion = "hard" THEN "yes"
              ELSE Windowed(inp, {"soft_in"})
         /\ Guard("soft_expired_window", inp) = Windowed(inp, {"soft_expired"})
  BY DEF Guard

\* A guard only fails on a soft window without a time zone.
LEMMA GuardRaises ==
  ASSUME NEW inp, NEW name \in GuardNames, Guard(name, inp) = "raise"
  PROVE  name \in ComparesWindow /\ inp.completion = "soft_naive"
<1>1. CASE name \in ComparesWindow
  <2>1. CASE name = "hard_or_soft_in_window"
    BY <2>1 DEF Guard, Windowed, YesNo, ComparesWindow
  <2>2. CASE name = "soft_expired_window"
    BY <2>2 DEF Guard, Windowed, YesNo, ComparesWindow
  <2>3. CASE name = "soft_window_open_continuation"
    BY <2>3 DEF Guard, Windowed, YesNo, ComparesWindow
  <2>4. CASE name = "soft_in_window"
    BY <2>4 DEF Guard, Windowed, YesNo, ComparesWindow
  <2>5. QED
    BY <1>1, <2>1, <2>2, <2>3, <2>4 DEF ComparesWindow
<1>2. CASE name \notin ComparesWindow
  BY <1>2 DEF Guard, YesNo, GuardNames
<1>3. QED
  BY <1>1, <1>2

\* A guard looks at what the caller knows and never at what was detected.
LEMMA GuardIgnoresDetected ==
  ASSUME NEW inp, NEW other, NEW name,
         other.completion = inp.completion, other.injected = inp.injected,
         other.bucket = inp.bucket, other.hints = inp.hints
  PROVE  Guard(name, other) = Guard(name, inp)
  BY DEF Guard, Windowed, YesNo

\* An input the pipeline can hand over: an allowed prior pair, and no override
\* among the evidence the snapshot shows (only an operator asks for one).
Admissible(inp) ==
    /\ inp \in Inputs
    /\ <<inp.state, inp.bucket>> \in AllowedPairs
    /\ "override" \notin inp.detected

\* A key says what the effect does: a To Do key of a kind that needs a list
\* fixes the list, and a category key fixes the label.
KeyTells(result) ==
    /\ result.task \in {"create", "move_list"} /\ result.next # "done" =>
           result.target = Home[result.tkey[2]]
    /\ result.category = "apply" => result.label = result.ckey[2]

\* A row of the table leads to an allowed pair, unless its guard cannot be
\* evaluated.
LEMMA RowResultKeepsContract ==
  ASSUME NEW inp, Admissible(inp), inp.state # "needs_review",
         NEW r \in Rows, inp.state \in r.from, NEW winning \in Evidence
  PROVE  LET result == RowResult(r, inp, winning)
         IN  /\ result.raised => inp.state = "done"
                                   /\ inp.completion = "soft_naive"
             /\ ~result.raised => KeyTells(result)
<1> DEFINE next == NextState(r, inp, winning)
           bucket == NextBucket(r, inp, winning)
           kind == TaskKind(r, inp)
           cat == CategoryIntent(r, inp, bucket)
           result == RowResult(r, inp, winning)
<1>1. RowFits(r) /\ RowLeads(r)
  BY RowsFit, LeadsAll
<1>2. \A w \in DOMAIN AskState : AskState[w] \in DOMAIN Home
  BY HomeStates DEF AskState, States
<1>3. /\ next \in States
      /\ bucket \in BucketOrNull
      /\ <<next, bucket>> \in AllowedPairs
  <2>1. \A s \in DOMAIN Home : Home[s] \in BucketOrNull /\ Home[s] # "preserve"
    BY HomeEntries, HomeStates DEF States, BucketOrNull, Buckets
  <2>2. inp.state \in States /\ inp.bucket \in BucketOrNull
    BY DEF Admissible, Inputs
  <2>3. CASE r.next = "preserve"
    <3>1. r.bucket = "preserve"
      BY <1>1, <2>3, HomeStates DEF RowLeads, States
    <3>2. CASE winning \in DOMAIN AskState
      BY <1>2, <2>1, <2>3, <3>1, <3>2, PairAllowed, HomeStates
         DEF NextState, NextBucket
    <3>3. CASE winning \notin DOMAIN AskState
      BY <2>2, <2>3, <3>1, <3>3 DEF NextState, NextBucket, Admissible
    <3>4. QED
      BY <3>2, <3>3
  <2>4. CASE r.next \in {"done", "needs_review"}
    <3>1. bucket \in BucketOrNull
      BY <1>1, <1>2, <2>1, <2>2 DEF RowFits, NextBucket
    <3>2. QED
      BY <2>4, <3>1, PairAllowed DEF NextState, States
  <2>5. CASE r.next \in DOMAIN Home /\ r.bucket = Home[r.next]
    BY <2>1, <2>5, PairAllowed, HomeStates DEF NextState, NextBucket, States
  <2>6. QED
    BY <1>1, <2>3, <2>4, <2>5 DEF RowLeads
<1>4. Guard(r.guard, inp) = "raise" =>
        inp.state = "done" /\ inp.completion = "soft_naive"
  BY <1>1, GuardRaises DEF RowLeads
<1>5. next = "needs_review" => kind \notin {"create", "move_list"}
  BY <1>1, <1>2, HomeStates DEF RowLeads, NextState, TaskKind
<1>6. CASE Guard(r.guard, inp) = "raise"
  BY <1>4, <1>6 DEF RowResult, RaisedResult, NoopResult
<1>7. CASE Guard(r.guard, inp) # "raise"
  <2>1. result =
          [next |-> next, bucket |-> bucket, task |-> kind, target |-> bucket,
           tkey |-> TaskKey(kind, next), category |-> cat.kind,
           label |-> cat.label, ckey |-> cat.key, row |-> r.id,
           winning |-> winning, raised |-> FALSE]
    BY <1>3, <1>7 DEF RowResult
  <2>2. cat.kind = "apply" => cat.label = cat.key[2]
    BY DonePolicyAssumption DEF CategoryIntent, PolicyKind, PolicyKeyKind,
       PolicyBucket
  <2>3. kind \in {"create", "move_list"} =>
          TaskKey(kind, next) = <<kind, next>>
    BY DEF TaskKey
  <2>4. kind \in {"create", "move_list"} /\ next # "done" =>
          bucket = Home[next]
    BY <1>3, <1>5, PairAllowed
  <2> HIDE DEF next, bucket, kind, cat, result
  <2>5. ~result.raised /\ KeyTells(result)
    BY <2>1, <2>2, <2>3, <2>4 DEF KeyTells
  <2>6. QED
    BY <2>5 DEF result
<1>8. QED
  BY <1>6, <1>7

\* An override that raises was asked for, and what it writes has its key.
LEMMA OverrideKeepsContract ==
  ASSUME NEW inp, inp.override \in Overrides, NEW row
  PROVE  ~OverrideResult(inp, row).raised => KeyTells(OverrideResult(inp, row))
<1> DEFINE to == inp.override
           kind == IF inp.task THEN "update_fields" ELSE "noop"
           key == IF to.bucket # "null" THEN <<"category_apply", to.bucket>>
                  ELSE NoKey
<1>1. CASE <<to.state, to.bucket>> \in AllowedPairs
  <2>1. OverrideResult(inp, row) =
          [next |-> to.state, bucket |-> to.bucket, task |-> kind,
           target |-> to.bucket, tkey |-> TaskKey(kind, to.state),
           category |-> IF to.bucket # "null" THEN "apply" ELSE "noop",
           label |-> to.bucket, ckey |-> key, row |-> row,
           winning |-> "override", raised |-> FALSE]
    BY <1>1 DEF OverrideResult
  <2>2. kind \notin {"create", "move_list"}
    OBVIOUS
  <2>3. to.bucket # "null" => key[2] = to.bucket
    OBVIOUS
  <2> HIDE DEF kind, key, to
  <2>4. QED
    BY <2>1, <2>2, <2>3 DEF KeyTells
<1>2. CASE <<to.state, to.bucket>> \notin AllowedPairs
  BY <1>2 DEF OverrideResult, RaisedResult, NoopResult
<1>3. QED
  BY <1>1, <1>2

LEMMA NoopKeepsContract ==
  \A inp, row, winning : /\ ~NoopResult(inp, row, winning).raised
                         /\ KeyTells(NoopResult(inp, row, winning))
  BY DEF NoopResult, KeyTells

LEMMA ReviewKeepsContract ==
  \A inp, row, winning : \A task \in {"noop", "dead_letter"} :
      LET result == NeedsReviewResult(inp, row, task, winning)
      IN  ~result.raised /\ KeyTells(result)
  BY DEF NeedsReviewResult, NoopResult, KeyTells

\* reduce() raises for an override, or on a soft window without a time zone,
\* and never because the table asks for a forbidden pair; and what it returns
\* otherwise is told by its keys.
THEOREM ReduceKeepsContract ==
  ASSUME NEW inp, Admissible(inp)
  PROVE  /\ Reduce(inp).raised =>
                \/ inp.override # NoOverride
                \/ "override" \in inp.injected
                \/ inp.state = "done" /\ inp.completion = "soft_naive"
         /\ ~Reduce(inp).raised => KeyTells(Reduce(inp))
<1> DEFINE asked == inp.override # NoOverride
           evidence == inp.injected \cup inp.detected
                         \cup (IF asked THEN {"override"} ELSE {})
           winning == Winner(evidence)
<1>1. inp \in Inputs /\ inp.override \in Overrides
  BY DEF Admissible, Inputs
<1>2. "override" \in Evidence
  BY DEF Evidence, Tier
<1>3. evidence \in SUBSET Evidence
  BY <1>1, <1>2 DEF Inputs
<1>4. CASE inp.state = "needs_review"
  BY <1>1, <1>4, OverrideKeepsContract, NoopKeepsContract DEF Reduce
<1>5. CASE /\ inp.state # "needs_review"
           /\ evidence \cap {"conflict", "failures", "lag"} # {}
  BY <1>5, ReviewKeepsContract DEF Reduce
<1>6. CASE /\ inp.state # "needs_review"
           /\ evidence \cap {"conflict", "failures", "lag"} = {}
           /\ winning = "override"
  <2>1. CASE asked
    BY <1>1, <1>6, <2>1, OverrideKeepsContract DEF Reduce
  <2>2. CASE ~asked
    <3>1. "override" \in inp.injected
      BY <1>3, <1>6, <2>2, WinnerType DEF Admissible, NoEvidence
    <3>2. Reduce(inp) = RaisedResult(inp, 90, winning)
      BY <1>6, <2>2 DEF Reduce
    <3>3. RaisedResult(inp, 90, winning).raised
      BY DEF RaisedResult, NoopResult
    <3>4. QED
      BY <3>1, <3>2, <3>3
  <2>3. QED
    BY <2>1, <2>2
<1>7. CASE /\ inp.state # "needs_review"
           /\ evidence \cap {"conflict", "failures", "lag"} = {}
           /\ winning # "override"
  <2>1. Reduce(inp) = TableResult(inp, evidence)
    BY <1>7 DEF Reduce
  <2>2. Drivers(inp, evidence) \subseteq Evidence
    BY <1>3, WinnerType DEF Drivers
  <2> DEFINE Good(result) ==
               /\ result.raised => inp.state = "done"
                                     /\ inp.completion = "soft_naive"
               /\ ~result.raised => KeyTells(result)
  <2>3. ASSUME NEW e \in Drivers(inp, evidence),
               NEW r \in FindTransition(inp, e)
        PROVE  Good(RowResult(r, inp, e))
    <3>1. r \in Rows /\ inp.state \in r.from
      BY DEF FindTransition, Candidates
    <3>2. QED
      BY <1>7, <2>2, <3>1, RowResultKeepsContract
  <2>4. \A e : Good(NoopResult(inp, 0, e))
    BY NoopKeepsContract
  <2> HIDE DEF Good, evidence
  <2>5. Good(TableResult(inp, evidence))
    BY <2>3, <2>4, TableAnswer
  <2>6. QED
    BY <2>1, <2>5 DEF Good
<1>8. QED
  BY <1>4, <1>5, <1>6, <1>7

\* Whatever else was seen, a lag report or a conflict takes the conversation to
\* review, with its bucket as it was and nothing to write, and a review stays
\* closed to evidence.
THEOREM ReduceStops ==
  ASSUME NEW inp, inp.override = NoOverride,
         \/ inp.state = "needs_review"
         \/ (inp.detected \cup inp.injected) \cap {"lag", "conflict"} # {}
  PROVE  /\ Reduce(inp).next = "needs_review"
         /\ Reduce(inp).bucket = inp.bucket
         /\ Reduce(inp).task \in {"noop", "dead_letter"}
         /\ Reduce(inp).category = "noop"
<1>1. CASE inp.state = "needs_review"
  BY <1>1 DEF Reduce, NoopResult
<1>2. CASE inp.state # "needs_review"
  BY <1>2 DEF Reduce, NeedsReviewResult, NoopResult
<1>3. QED
  BY <1>1, <1>2

\* An ask that wins the table finds a row, unless the thread is under review or
\* finished with nothing to reopen, or a reply is asked of a delegated thread.
LEMMA AskIsAnswered ==
  ASSUME NEW inp, inp \in Inputs, NEW w \in DOMAIN AskState,
         inp.state # "needs_review",
         ~(inp.state = "done" /\ inp.completion = "none"),
         ~(inp.state = "delegate_open" /\ w = "reply")
  PROVE  /\ FindTransition(inp, w) # {}
         /\ \A r \in FindTransition(inp, w) : r.id \notin {66, 104}
<1> DEFINE Tried(r) == /\ inp.state \in r.from
                       /\ w \in r.on \/ (r.on = {} /\ r.guard # "always")
<1>1. inp.state \in DOMAIN FirstRow[w]
  BY DEF Inputs, States, FirstRow, AskState
<1>2. PICK first \in Rows :
        /\ first.id = FirstRow[w][inp.state]
        /\ inp.state \in first.from /\ w \in first.on
        /\ first.guard = IF inp.state = "done" THEN "hard_or_soft_in_window"
                         ELSE "always"
  BY <1>1, FirstRowExists
<1>3. \A r \in Rows : Tried(r) => first.id <= r.id
  BY <1>1, <1>2, OpensAll, RowsFit DEF RowOpens, RowFits
<1>4. first.id \in Nat /\ first.id \notin {66, 104}
  BY <1>1, <1>2, RowsFit DEF FirstRow, AskState, RowFits
<1>5. CASE ~(inp.state = "done" /\ inp.completion = "soft_expired")
  <2>1. Guard(first.guard, inp) # "no"
    BY <1>2, <1>5, GuardEntries DEF Inputs, Completions, Windowed, YesNo
  <2>2. first \in Candidates(inp, w)
    BY <1>2, <2>1 DEF Candidates
  <2>3. \A r \in Candidates(inp, w) : r \in Rows /\ Tried(r)
    BY DEF Candidates
  <2>4. first \in FindTransition(inp, w)
    BY <1>3, <2>2, <2>3 DEF FindTransition
  <2>5. ASSUME NEW r \in FindTransition(inp, w) PROVE r.id \notin {66, 104}
    <3>1. r \in Rows /\ Tried(r) /\ r.id <= first.id
      BY <2>2, <2>3 DEF FindTransition
    <3>2. r.id = first.id
      BY <1>3, <1>4, <3>1, RowsFit DEF RowFits
    <3>3. QED
      BY <1>4, <3>2
  <2>6. QED
    BY <2>4, <2>5
<1>6. CASE inp.state = "done" /\ inp.completion = "soft_expired"
  <2>1. PICK again \in Rows : /\ again.id = 62 /\ again.from = {"done"}
                              /\ again.on = DOMAIN AskState
                              /\ again.guard = "soft_expired_window"
    BY ExpiredRowExists
  <2>2. Guard(again.guard, inp) = "yes"
    BY <1>6, <2>1, GuardEntries DEF Windowed, YesNo
  <2>3. again \in Candidates(inp, w)
    BY <1>6, <2>1, <2>2 DEF Candidates
  <2>4. ASSUME NEW r \in Candidates(inp, w) PROVE 62 <= r.id
    <3>1. r \in Rows /\ Tried(r) /\ Guard(r.guard, inp) # "no"
      BY DEF Candidates
    <3>2. Guard("hard_or_soft_in_window", inp) = "no"
      BY <1>6, GuardEntries DEF Windowed, YesNo
    <3>3. r.id \in Nat
      BY <3>1, RowsFit DEF RowFits
    <3>4. QED
      BY <1>6, <3>1, <3>2, <3>3, OpensAll DEF RowOpens
  <2>5. again \in FindTransition(inp, w)
    BY <2>1, <2>3, <2>4 DEF FindTransition
  <2>6. \A r \in FindTransition(inp, w) : r.id \in Nat /\ r.id <= 62
    BY <2>1, <2>3, RowsFit DEF FindTransition, RowFits, Candidates
  <2>7. QED
    BY <2>5, <2>6
<1>7. QED
  BY <1>5, <1>6

\* An ask that wins opens the state of its own kind, with a To Do task for it.
THEOREM ReduceOpens ==
  ASSUME NEW inp, Admissible(inp),
         Reduce(inp).winning \in DOMAIN AskState, ~Reduce(inp).raised,
         Reduce(inp).next # "needs_review",
         ~(inp.state = "done" /\ inp.completion = "none"),
         ~(inp.state = "delegate_open" /\ Reduce(inp).winning = "reply")
  PROVE  /\ Reduce(inp).next = AskState[Reduce(inp).winning]
         /\ Reduce(inp).task \in OpeningKinds
<1> DEFINE asked == inp.override # NoOverride
           evidence == inp.injected \cup inp.detected
                         \cup (IF asked THEN {"override"} ELSE {})
           winning == Winner(evidence)
<1>1. "override" \notin DOMAIN AskState /\ NoEvidence \notin DOMAIN AskState
  BY DEF AskState, NoEvidence
<1>2. \A row : OverrideResult(inp, row).winning = "override"
  BY DEF OverrideResult, RaisedResult, NoopResult
<1>3. inp.state # "needs_review"
  BY <1>1, <1>2 DEF Reduce, NoopResult
<1>4. evidence \cap {"conflict", "failures", "lag"} = {}
  BY <1>3 DEF Reduce, NeedsReviewResult, NoopResult
<1>5. winning # "override"
  BY <1>1, <1>2, <1>3, <1>4 DEF Reduce, RaisedResult, NoopResult
<1>6. Reduce(inp) = TableResult(inp, evidence)
  BY <1>3, <1>4, <1>5 DEF Reduce
<1> DEFINE Opens(result) ==
             result.winning \in DOMAIN AskState /\ ~result.raised
             /\ result.next # "needs_review"
             /\ ~(inp.state = "delegate_open" /\ result.winning = "reply")
               => /\ result.next = AskState[result.winning]
                  /\ result.task \in OpeningKinds
<1>7. ASSUME NEW e, NEW r \in FindTransition(inp, e)
      PROVE  Opens(RowResult(r, inp, e))
  <2> DEFINE result == RowResult(r, inp, e)
  <2> SUFFICES ASSUME result.winning \in DOMAIN AskState, ~result.raised,
                      result.next # "needs_review",
                      ~(inp.state = "delegate_open" /\ result.winning = "reply")
               PROVE  /\ result.next = AskState[result.winning]
                      /\ result.task \in OpeningKinds
    OBVIOUS
  <2>1. r \in Rows /\ inp.state \in r.from /\ (e \in r.on \/ r.on = {})
    BY DEF FindTransition, Candidates
  <2>2. /\ result.winning = e
        /\ result.next = NextState(r, inp, e)
        /\ result.task = TaskKind(r, inp)
    BY DEF RowResult, RaisedResult, NoopResult
  <2>3. r.id \notin {66, 104}
    BY <1>3, <2>2, AskIsAnswered DEF Admissible
  <2>4. r.next # "needs_review"
    BY <2>2 DEF NextState
  <2>5. r.next \in {AskState[e], "preserve"} /\ r.task \in OpeningKinds
    BY <2>1, <2>2, <2>3, <2>4, OpensAll DEF RowOpens
  <2>6. NextState(r, inp, e) = AskState[e]
    BY <2>2, <2>5 DEF NextState
  <2>7. TaskKind(r, inp) \in OpeningKinds
    BY <2>5 DEF TaskKind, OpeningKinds
  <2>8. QED
    BY <2>2, <2>6, <2>7
<1>8. ASSUME NEW e, FindTransition(inp, e) = {}
      PROVE  Opens(NoopResult(inp, 0, e))
  BY <1>3, <1>8, AskIsAnswered DEF Admissible, NoopResult
<1>9. Opens(NoopResult(inp, 0, NoEvidence))
  BY <1>1 DEF NoopResult
<1> HIDE DEF Opens, evidence
<1>10. Opens(TableResult(inp, evidence))
  BY <1>7, <1>8, <1>9, TableAnswer
<1>11. QED
  BY <1>6, <1>10 DEF Opens

-----------------------------------------------------------------------------
(* Where reduce() leads without an operator: what brings a review, noise or  *)
(* a delegation about, and that no ask is awaited without a task.            *)

\* The states in which somebody's answer is awaited under a task.
Awaiting == {"act_open", "respond_open", "waiting_on"}

\* Where a row takes a thread in state s when w wins.
Leads(r, s, w) == IF r.next # "preserve" THEN r.next
                  ELSE IF w \in DOMAIN AskState THEN AskState[w] ELSE s

RowEnters(r) ==
    /\ r.next = "needs_review" => r.from = {"noise_transient"}
    /\ r.next = "noise_transient" => r.on = {"bulk"}
    /\ r.next = "delegate_open" => r.from = {"delegate_open"}
    /\ \A s \in r.from \ {"done", "needs_review", "delegate_open"} :
       \A w \in Evidence :
          /\ w \in r.on \/ (r.on = {} /\ r.guard # "always")
          /\ Leads(r, s, w) \in Awaiting
          => s \in Awaiting \/ r.task \in {"create", "reopen"}

LEMMA EntersNone == \A r \in FromNone : RowEnters(r)
  BY HomeEntries DEF FromNone, RowEnters, Row, Stay, Move, Leads, Awaiting,
     AskState, States

LEMMA EntersAct == \A r \in FromAct : RowEnters(r)
  BY HomeEntries DEF FromAct, RowEnters, Row, Stay, Refresh, Move, Finish,
     Leads, Awaiting, AskState, States

LEMMA EntersRespond == \A r \in FromRespond : RowEnters(r)
  BY HomeEntries DEF FromRespond, RowEnters, Row, Stay, Refresh, Move, Finish,
     Leads, Awaiting, AskState, States

LEMMA EntersDelegate == \A r \in FromDelegate : RowEnters(r)
  BY HomeEntries DEF FromDelegate, RowEnters, Row, Stay, Move, Finish, Leads,
     Awaiting, AskState, States

LEMMA EntersDeferred == \A r \in FromDeferred : RowEnters(r)
  BY HomeEntries DEF FromDeferred, RowEnters, Row, Stay, Move, Finish, Leads,
     Awaiting, AskState, States

LEMMA EntersWaiting == \A r \in FromWaiting : RowEnters(r)
  BY HomeEntries DEF FromWaiting, RowEnters, Row, Stay, Refresh, Move, Finish,
     Leads, Awaiting, AskState, States

LEMMA EntersDone == \A r \in FromDone : RowEnters(r)
  BY HomeEntries DEF FromDone, RowEnters, Row, StayDone, Move, Leads, Awaiting,
     AskState, States

LEMMA EntersContext == \A r \in FromContext : RowEnters(r)
  BY HomeEntries DEF FromContext, RowEnters, Row, Stay, Leads, Awaiting,
     AskState, States

LEMMA EntersNoops == \A r \in GuardedNoops : RowEnters(r)
  BY HomeEntries DEF GuardedNoops, RowEnters, Row, StayDone, Stay, Refresh,
     Leads, Awaiting, AskState, States

LEMMA EntersAll == \A r \in Rows : RowEnters(r)
  BY EntersNone, EntersAct, EntersRespond, EntersDelegate, EntersDeferred,
     EntersWaiting, EntersDone, EntersContext, EntersNoops DEF Rows

\* What is asked of reduce() when no operator speaks.
Unattended(inp) ==
    /\ Admissible(inp) /\ inp.override = NoOverride
    /\ "override" \notin inp.injected

\* Nothing changes, or the evidence calls for review, or a row answers it.
LEMMA ReduceCases ==
  ASSUME NEW inp, Unattended(inp)
  PROVE  LET evidence == inp.injected \cup inp.detected
             result == Reduce(inp)
         IN  \/ \E row, w : result = NoopResult(inp, row, w)
             \/ /\ evidence \cap {"conflict", "failures", "lag"} # {}
                /\ inp.state # "needs_review"
                /\ \E row, task, w :
                      result = NeedsReviewResult(inp, row, task, w)
             \/ /\ inp.state # "needs_review"
                /\ \E w \in evidence : \E r \in FindTransition(inp, w) :
                      result = RowResult(r, inp, w)
<1> DEFINE evidence == inp.injected \cup inp.detected
           winning == Winner(evidence)
           Reviewed(result) ==
              \E row, task, w : result = NeedsReviewResult(inp, row, task, w)
           Told(result) ==
              \E w \in evidence : \E r \in FindTransition(inp, w) :
                 result = RowResult(r, inp, w)
<1>1. evidence \in SUBSET Evidence /\ "override" \notin evidence
  BY DEF Unattended, Admissible, Inputs
<1>2. inp.override = NoOverride
      /\ inp.injected \cup inp.detected
           \cup (IF inp.override # NoOverride THEN {"override"} ELSE {})
         = evidence
  BY DEF Unattended
<1>3. winning \in evidence \cup {NoEvidence}
  BY <1>1, WinnerType
<1>4. winning # "override"
  BY <1>1, <1>3 DEF NoEvidence
<1> HIDE DEF evidence, winning
<1>5. CASE inp.state = "needs_review"
  BY <1>2, <1>5 DEF Reduce
<1>6. CASE /\ inp.state # "needs_review"
           /\ evidence \cap {"conflict", "failures", "lag"} # {}
  <2>1. Reviewed(Reduce(inp))
    BY <1>2, <1>6 DEF Reduce
  <2>2. QED
    BY <1>6, <2>1 DEF evidence
<1>7. CASE /\ inp.state # "needs_review"
           /\ evidence \cap {"conflict", "failures", "lag"} = {}
  <2>1. Reduce(inp) = TableResult(inp, evidence)
    BY <1>2, <1>4, <1>7 DEF Reduce, winning
  <2>2. Drivers(inp, evidence) \subseteq evidence
    BY <1>3 DEF Drivers, winning
  <2>3. \/ \E w : Reduce(inp) = NoopResult(inp, 0, w)
        \/ Told(Reduce(inp))
    BY <2>1, <2>2, TableAnswer
  <2>4. QED
    BY <1>7, <2>3 DEF evidence
<1>8. QED
  BY <1>5, <1>6, <1>7

\* What reduce() answers for a thread that is not finished.  It never raises;
\* a review, noise or a delegation has its cause, and an ask is not awaited
\* without a task.
Answers(inp, evidence, result) ==
    /\ ~result.raised /\ <<result.next, result.bucket>> \in AllowedPairs
    /\ result.next = "needs_review" =>
          \/ inp.state \in {"needs_review", "noise_transient"}
          \/ evidence \cap {"conflict", "failures", "lag"} # {}
    /\ result.next = "noise_transient" =>
          inp.state = "noise_transient" \/ "bulk" \in evidence
    /\ result.next = "delegate_open" => inp.state = "delegate_open"
    /\ result.next \in Awaiting =>
          \/ inp.state \in Awaiting \cup {"delegate_open"}
          \/ inp.task \/ result.task \in {"create", "reopen"}

LEMMA RowResultAnswers ==
  ASSUME NEW inp, Unattended(inp), inp.state \notin {"done", "needs_review"},
         NEW evidence \in SUBSET Evidence, NEW w \in evidence,
         NEW r \in FindTransition(inp, w)
  PROVE  Answers(inp, evidence, RowResult(r, inp, w))
<1> DEFINE next == NextState(r, inp, w)
           bucket == NextBucket(r, inp, w)
           kind == TaskKind(r, inp)
           result == RowResult(r, inp, w)
<1>1. /\ r \in Rows /\ inp.state \in r.from
      /\ w \in r.on \/ (r.on = {} /\ r.guard # "always")
  BY DEF FindTransition, Candidates
<1>2. RowEnters(r)
  BY <1>1, EntersAll
<1>3. ~result.raised
  BY <1>1, RowResultKeepsContract DEF Unattended
<1>4. /\ <<next, bucket>> \in AllowedPairs
      /\ result.next = next /\ result.bucket = bucket /\ result.task = kind
  <2>1. Guard(r.guard, inp) # "raise" /\ <<next, bucket>> \in AllowedPairs
    BY <1>3 DEF RowResult, RaisedResult, NoopResult
  <2>2. QED
    BY <2>1 DEF RowResult
<1>5. next = Leads(r, inp.state, w)
  BY DEF NextState, Leads
<1>6. next \notin {"act_open", "respond_open", inp.state} => r.next = next
  BY <1>5 DEF Leads, AskState
<1>7. next = "needs_review" => inp.state = "noise_transient"
  BY <1>1, <1>2, <1>6 DEF RowEnters
<1>8. next = "noise_transient" => inp.state = next \/ "bulk" \in evidence
  BY <1>1, <1>2, <1>6 DEF RowEnters
<1>9. next = "delegate_open" => inp.state = "delegate_open"
  BY <1>1, <1>2, <1>6 DEF RowEnters
<1>10. ASSUME next \in Awaiting,
              inp.state \notin Awaiting \cup {"delegate_open"}, ~inp.task
       PROVE  kind \in {"create", "reopen"}
  <2>1. r.task \in {"create", "reopen"}
    BY <1>1, <1>2, <1>5, <1>10 DEF RowEnters
  <2>2. QED
    BY <1>10, <2>1 DEF TaskKind
<1> HIDE DEF next, bucket, kind, result
<1>11. Answers(inp, evidence, result)
  BY <1>3, <1>4, <1>7, <1>8, <1>9, <1>10 DEF Answers
<1>12. QED
  BY <1>11 DEF result

\* Without an operator and short of the end of a thread, reduce() returns, and
\* what it returns has its cause in the evidence.
THEOREM ReduceAnswers ==
  ASSUME NEW inp, Unattended(inp), inp.state # "done"
  PROVE  Answers(inp, inp.injected \cup inp.detected, Reduce(inp))
<1> DEFINE evidence == inp.injected \cup inp.detected
<1>1. /\ inp.state \in States /\ <<inp.state, inp.bucket>> \in AllowedPairs
      /\ evidence \in SUBSET Evidence
      /\ <<"needs_review", inp.bucket>> \in AllowedPairs
  BY PairAllowed DEF Unattended, Admissible, Inputs
<1>2. \A row, w : Answers(inp, evidence, NoopResult(inp, row, w))
  BY <1>1 DEF NoopResult, Answers, Awaiting
<1>3. evidence \cap {"conflict", "failures", "lag"} # {} =>
        \A row, task, w :
           Answers(inp, evidence, NeedsReviewResult(inp, row, task, w))
  BY <1>1 DEF NeedsReviewResult, NoopResult, Answers, Awaiting
<1>4. inp.state # "needs_review" =>
        \A w \in evidence : \A r \in FindTransition(inp, w) :
           Answers(inp, evidence, RowResult(r, inp, w))
  BY <1>1, RowResultAnswers
<1> HIDE DEF evidence
<1>5. \/ \E row, w : Reduce(inp) = NoopResult(inp, row, w)
      \/ /\ evidence \cap {"conflict", "failures", "lag"} # {}
         /\ \E row, task, w :
               Reduce(inp) = NeedsReviewResult(inp, row, task, w)
      \/ /\ inp.state # "needs_review"
         /\ \E w \in evidence : \E r \in FindTransition(inp, w) :
               Reduce(inp) = RowResult(r, inp, w)
  BY ReduceCases DEF evidence
<1>6. Answers(inp, evidence, Reduce(inp))
  BY <1>2, <1>3, <1>4, <1>5
<1>7. QED
  BY <1>6 DEF evidence

\* Nothing outranks an ask but a resolution.
LEMMA AskWins ==
  ASSUME NEW E \in SUBSET Evidence,
         E \cap {"override", "explicit", "soft"} = {},
         E \cap DOMAIN AskState # {}
  PROVE  Winner(E) \in DOMAIN AskState
<1> DEFINE tiered == E \ NonTier
           best == {e \in tiered : \A f \in tiered : Outranks(e, f)}
           ask == IF "deliverable" \in E THEN "deliverable" ELSE "reply"
<1>1. DOMAIN AskState = {"deliverable", "reply"}
  BY DEF AskState
<1>2. ask \in tiered /\ ask \in DOMAIN AskState
  BY <1>1 DEF NonTier
<1>3. \A e \in tiered : /\ Tier[e] >= 2 /\ Tier[e] \in Nat
                        /\ Tier[e] = 2 => e \in DOMAIN AskState
  BY <1>1 DEF Evidence, Tier, NonTier
<1>4. Tier[ask] = 2
  BY <1>1 DEF Tier
<1>5. \A e \in tiered : Outranks(ask, e)
  <2>1. Order["deliverable"] = 1 /\ Order["reply"] = 2
    BY DEF Order
  <2>2. \A e \in tiered : Tier[e] = 2 => Order[ask] <= Order[e]
    BY <1>1, <1>3, <2>1
  <2>3. QED
    BY <1>3, <1>4, <2>2 DEF Outranks
<1>6. best # {} /\ \A e \in best : e \in DOMAIN AskState /\ Tier[e] # 3
  <2>1. \A e \in best : Tier[e] <= Tier[ask]
    BY <1>2, <1>3, <1>4 DEF Outranks
  <2>2. QED
    BY <1>2, <1>3, <1>4, <1>5, <2>1
<1> HIDE DEF tiered
<1>7. Winner(E) = CHOOSE e \in best : TRUE
  BY <1>6 DEF Winner, tiered
<1>8. QED
  BY <1>6, <1>7

\* An ask that no resolution outranks opens the thread, or takes it to review.
THEOREM ReduceHears ==
  ASSUME NEW inp, Unattended(inp),
         inp.state \notin {"done", "needs_review", "delegate_open"},
         (inp.injected \cup inp.detected) \cap {"explicit", "soft"} = {},
         (inp.injected \cup inp.detected) \cap DOMAIN AskState # {}
  PROVE  Reduce(inp).next \in {"needs_review", "act_open", "respond_open"}
<1> DEFINE evidence == inp.injected \cup inp.detected
<1>1. /\ evidence \in SUBSET Evidence /\ "override" \notin evidence
      /\ inp.override = NoOverride
      /\ inp.injected \cup inp.detected
           \cup (IF inp.override # NoOverride THEN {"override"} ELSE {})
         = evidence
  BY DEF Unattended, Admissible, Inputs
<1>2. Winner(evidence) \in DOMAIN AskState
  BY <1>1, AskWins
<1>3. "override" \notin DOMAIN AskState /\ NoEvidence \notin DOMAIN AskState
  BY DEF AskState, NoEvidence
<1> HIDE DEF evidence
<1>4. CASE evidence \cap {"conflict", "failures", "lag"} # {}
  BY <1>1, <1>4 DEF Reduce, NeedsReviewResult, NoopResult
<1>5. CASE evidence \cap {"conflict", "failures", "lag"} = {}
  <2>1. Reduce(inp) = TableResult(inp, evidence)
    BY <1>1, <1>2, <1>3, <1>5 DEF Reduce
  <2>2. Drivers(inp, evidence) = {Winner(evidence)}
    BY <1>2, <1>3 DEF Drivers
  <2>3. /\ \A r, w : RowResult(r, inp, w).winning = w
        /\ \A row, w : NoopResult(inp, row, w).winning = w
    BY DEF RowResult, RaisedResult, NoopResult
  <2>4. Reduce(inp).winning = Winner(evidence)
    BY <2>1, <2>2, <2>3, TableAnswer
  <2>5. ~Reduce(inp).raised
    BY ReduceAnswers DEF Answers
  <2>6. Reduce(inp).next # "needs_review" =>
          Reduce(inp).next = AskState[Winner(evidence)]
    BY <1>2, <2>4, <2>5, ReduceOpens DEF Unattended
  <2>7. QED
    BY <1>2, <2>6 DEF AskState
<1>6. QED
  BY <1>4, <1>5

-----------------------------------------------------------------------------
(* Where reduce() leads a thread without an operator: along the life cycle.  *)

\* The steps of the Lifecycle, and staying where one is.
Moves(s, b, s2, b2) ==
    \/ s2 = s /\ b2 = b
    \/ \E k \in {<<"act_open", "Act">>, <<"respond_open", "Respond">>} :
          /\ s # "needs_review" /\ b2 = k[2]
          /\ s2 = IF s = "noise_transient" THEN "needs_review" ELSE k[1]
    \/ /\ s \in {"none", "act_open", "respond_open", "delegate_open"}
       /\ \/ s2 = "waiting_on" /\ b2 = "WaitingOn"
          \/ s2 = "deferred" /\ b2 = "Defer"
    \/ /\ s \in {"act_open", "respond_open", "delegate_open", "deferred",
                 "waiting_on"}
       /\ s2 = "done" /\ b2 = b
    \/ /\ s = "none"
       /\ \/ s2 = "fyi_context" /\ b2 = "FYI"
          \/ s2 = "noise_transient" /\ b2 = "DeleteOrUnsubscribe"
    \/ s = "done" /\ s2 = "none" /\ b2 = "null"
    \/ s2 = "needs_review" /\ b2 = b

\* The bucket in which row r leaves a thread of bucket b when w wins.
LeadsTo(r, b, w) == IF r.bucket # "preserve" THEN r.bucket
                  ELSE IF w \in DOMAIN AskState THEN Home[AskState[w]] ELSE b

RowMoves(r) ==
    \A s \in r.from \ {"needs_review"}, w \in Evidence, b \in BucketOrNull :
        /\ w \in r.on \/ r.on = {}
        /\ s = "done" \/ b = Home[s]
        => Moves(s, b, Leads(r, s, w), LeadsTo(r, b, w))

LEMMA AskEntries ==
    /\ DOMAIN AskState = {"deliverable", "reply"}
    /\ AskState["deliverable"] = "act_open"
    /\ AskState["reply"] = "respond_open"
  BY DEF AskState

LEMMA MovesNone == \A r \in FromNone : RowMoves(r)
  BY HomeEntries, AskEntries DEF FromNone, RowMoves, Row, Stay, Move,
     Moves, Leads, LeadsTo, States

LEMMA MovesAct == \A r \in FromAct : RowMoves(r)
  BY HomeEntries, AskEntries DEF FromAct, RowMoves, Row, Stay, Refresh,
     Move, Finish, Moves, Leads, LeadsTo, States

LEMMA MovesRespond == \A r \in FromRespond : RowMoves(r)
  BY HomeEntries, AskEntries DEF FromRespond, RowMoves, Row, Stay, Refresh,
     Move, Finish, Moves, Leads, LeadsTo, States

LEMMA MovesDelegate == \A r \in FromDelegate : RowMoves(r)
  BY HomeEntries, AskEntries DEF FromDelegate, RowMoves, Row, Stay, Move,
     Finish, Moves, Leads, LeadsTo, States

LEMMA MovesDeferred == \A r \in FromDeferred : RowMoves(r)
  BY HomeEntries, AskEntries DEF FromDeferred, RowMoves, Row, Stay, Move,
     Finish, Moves, Leads, LeadsTo, States

LEMMA MovesWaiting == \A r \in FromWaiting : RowMoves(r)
  BY HomeEntries, AskEntries DEF FromWaiting, RowMoves, Row, Stay, Refresh,
     Move, Finish, Moves, Leads, LeadsTo, States

LEMMA MovesDone == \A r \in FromDone : RowMoves(r)
  BY HomeEntries, AskEntries DEF FromDone, RowMoves, Row, StayDone, Move,
     Moves, Leads, LeadsTo, States

LEMMA MovesContext == \A r \in FromContext : RowMoves(r)
  BY HomeEntries, AskEntries DEF FromContext, RowMoves, Row, Stay, Moves,
     Leads, LeadsTo, States

LEMMA MovesNoops == \A r \in GuardedNoops : RowMoves(r)
  BY HomeEntries, AskEntries DEF GuardedNoops, RowMoves, Row, StayDone,
     Stay, Refresh, Moves, Leads, LeadsTo, States

LEMMA MovesAll == \A r \in Rows : RowMoves(r)
  BY MovesNone, MovesAct, MovesRespond, MovesDelegate, MovesDeferred,
     MovesWaiting, MovesDone, MovesContext, MovesNoops DEF Rows

LEMMA RowResultMoves ==
  ASSUME NEW inp, inp.state \in States, inp.bucket \in BucketOrNull,
         <<inp.state, inp.bucket>> \in AllowedPairs,
         inp.state # "needs_review", NEW r \in Rows, inp.state \in r.from,
         NEW w \in Evidence, w \in r.on \/ r.on = {},
         ~RowResult(r, inp, w).raised
  PROVE  Moves(inp.state, inp.bucket, RowResult(r, inp, w).next,
               RowResult(r, inp, w).bucket)
<1> DEFINE next == NextState(r, inp, w)
           bucket == NextBucket(r, inp, w)
<1>1. next = Leads(r, inp.state, w) /\ bucket = LeadsTo(r, inp.bucket, w)
  BY DEF NextState, NextBucket, Leads, LeadsTo
<1>2. inp.state = "done" \/ inp.bucket = Home[inp.state]
  BY PairAllowed
<1>3. Moves(inp.state, inp.bucket, next, bucket)
  BY <1>1, <1>2, MovesAll DEF RowMoves
<1>4. RowResult(r, inp, w).next = next /\ RowResult(r, inp, w).bucket = bucket
  BY DEF RowResult, RaisedResult, NoopResult
<1>5. QED
  BY <1>3, <1>4

\* Without an operator, and unless it raises, reduce() takes a thread along the
\* life cycle or leaves it where it is.
THEOREM ReduceMoves ==
  ASSUME NEW inp, Unattended(inp), ~Reduce(inp).raised
  PROVE  Moves(inp.state, inp.bucket, Reduce(inp).next, Reduce(inp).bucket)
<1> DEFINE evidence == inp.injected \cup inp.detected
           result == Reduce(inp)
           Moved == Moves(inp.state, inp.bucket, result.next, result.bucket)
<1>1. /\ inp.state \in States /\ inp.bucket \in BucketOrNull
      /\ <<inp.state, inp.bucket>> \in AllowedPairs
      /\ evidence \in SUBSET Evidence
  BY DEF Unattended, Admissible, Inputs
<1>2. CASE \E row, w : result = NoopResult(inp, row, w)
  BY <1>2 DEF NoopResult, Moves
<1>3. CASE \E row, task, w : result = NeedsReviewResult(inp, row, task, w)
  BY <1>3 DEF NeedsReviewResult, NoopResult, Moves
<1>4. CASE /\ inp.state # "needs_review"
           /\ \E w \in evidence : \E r \in FindTransition(inp, w) :
                 result = RowResult(r, inp, w)
  <2>1. PICK w \in evidence : \E r \in FindTransition(inp, w) :
          result = RowResult(r, inp, w)
    BY <1>4
  <2>2. PICK r \in FindTransition(inp, w) : result = RowResult(r, inp, w)
    BY <2>1
  <2>3. /\ r \in Rows /\ inp.state \in r.from
        /\ w \in r.on \/ r.on = {}
    BY DEF FindTransition, Candidates
  <2> HIDE DEF result
  <2>4. QED
    BY <1>1, <1>4, <2>2, <2>3, RowResultMoves DEF result
<1>5. QED
  BY <1>2, <1>3, <1>4, ReduceCases

-----------------------------------------------------------------------------
(* Replies.                                                                  *)

\* The row that ends an open ask.
SettlingRow ==
    [explicit |-> [act_open |-> 13, respond_open |-> 23],
     soft |-> [act_open |-> 14, respond_open |-> 24],
     replied |-> [act_open |-> 12, respond_open |-> 22]]

\* The rows that answer a reply of the user's, or a resolution, leave no ask
\* open.
RowSettles(r) ==
    \A s \in r.from \ {"done", "needs_review", "delegate_open"} :
    \A w \in {"explicit", "soft", "replied"} :
        w \in r.on \/ (r.on = {} /\ r.guard # "always") =>
            /\ Leads(r, s, w) \notin {"act_open", "respond_open"}
            /\ s \in {"act_open", "respond_open"} =>
                  r.id >= SettlingRow[w][s]

LEMMA SettlesNone == \A r \in FromNone : RowSettles(r)
  BY HomeEntries DEF FromNone, RowSettles, Row, Stay, Move, Leads,
     AskState, SettlingRow

LEMMA SettlesAct == \A r \in FromAct : RowSettles(r)
  BY HomeEntries DEF FromAct, RowSettles, Row, Stay, Refresh, Move, Finish,
     Leads, AskState, SettlingRow

LEMMA SettlesRespond == \A r \in FromRespond : RowSettles(r)
  BY HomeEntries DEF FromRespond, RowSettles, Row, Stay, Refresh, Move,
     Finish, Leads,
     AskState, SettlingRow

LEMMA SettlesDelegate == \A r \in FromDelegate : RowSettles(r)
  BY HomeEntries DEF FromDelegate, RowSettles, Row, Stay, Move, Finish, Leads,
     AskState, SettlingRow

LEMMA SettlesDeferred == \A r \in FromDeferred : RowSettles(r)
  BY HomeEntries DEF FromDeferred, RowSettles, Row, Stay, Move, Finish, Leads,
     AskState, SettlingRow

LEMMA SettlesWaiting == \A r \in FromWaiting : RowSettles(r)
  BY HomeEntries DEF FromWaiting, RowSettles, Row, Stay, Refresh, Move,
     Finish, Leads,
     AskState, SettlingRow

LEMMA SettlesDone == \A r \in FromDone : RowSettles(r)
  BY HomeEntries DEF FromDone, RowSettles, Row, StayDone, Move, Leads,
     AskState, SettlingRow

LEMMA SettlesContext == \A r \in FromContext : RowSettles(r)
  BY HomeEntries DEF FromContext, RowSettles, Row, Stay, Leads, AskState,
     SettlingRow

LEMMA SettlesNoops == \A r \in GuardedNoops : RowSettles(r)
  BY HomeEntries DEF GuardedNoops, RowSettles, Row, StayDone, Stay, Refresh,
     Leads, AskState, SettlingRow

LEMMA SettlesAll == \A r \in Rows : RowSettles(r)
  BY SettlesNone, SettlesAct, SettlesRespond, SettlesDelegate,
     SettlesDeferred, SettlesWaiting, SettlesDone, SettlesContext,
     SettlesNoops DEF Rows

LEMMA SettlingRowExists ==
  ASSUME NEW w \in {"explicit", "soft", "replied"},
         NEW s \in {"act_open", "respond_open"}
  PROVE  \E r \in Rows : /\ r.id = SettlingRow[w][s] /\ s \in r.from
                         /\ w \in r.on /\ r.guard = "always"
<1>1. /\ Move(12, "act_open", "replied", "waiting_on", "move_list") \in Rows
      /\ Finish(13, "act_open", "explicit", "hard_complete") \in Rows
      /\ Finish(14, "act_open", "soft", "soft_complete") \in Rows
  BY DEF Rows, FromAct
<1>2. /\ Move(22, "respond_open", "replied", "waiting_on", "move_list")
            \in Rows
      /\ Finish(23, "respond_open", "explicit", "hard_complete") \in Rows
      /\ Finish(24, "respond_open", "soft", "soft_complete") \in Rows
  BY DEF Rows, FromRespond
<1>3. \A id, to, task :
        LET moved == Move(id, s, w, to, task)
            finished == Finish(id, s, w, task)
        IN  /\ moved.id = id /\ moved.from = {s} /\ moved.on = {w}
            /\ moved.guard = "always"
            /\ finished.id = id /\ finished.from = {s} /\ finished.on = {w}
            /\ finished.guard = "always"
  BY DEF Move, Finish, Row
<1>4. CASE w = "replied"
  BY <1>1, <1>2, <1>3, <1>4 DEF SettlingRow
<1>5. CASE w = "explicit"
  BY <1>1, <1>2, <1>3, <1>5 DEF SettlingRow
<1>6. CASE w = "soft"
  BY <1>1, <1>2, <1>3, <1>6 DEF SettlingRow
<1>7. QED
  BY <1>4, <1>5, <1>6

\* An open ask is not passed over.
LEMMA OpenIsSettled ==
  ASSUME NEW inp, inp.state \in {"act_open", "respond_open"},
         NEW w \in {"explicit", "soft", "replied"}
  PROVE  FindTransition(inp, w) # {}
<1>1. PICK first \in Rows :
        /\ first.id = SettlingRow[w][inp.state] /\ inp.state \in first.from
        /\ w \in first.on /\ first.guard = "always"
  BY SettlingRowExists
<1>2. Guard("always", inp) # "no"
  BY DEF Guard
<1>3. first \in Candidates(inp, w)
  BY <1>1, <1>2 DEF Candidates
<1>4. ASSUME NEW r \in Candidates(inp, w) PROVE first.id <= r.id
  <2>1. /\ r \in Rows /\ inp.state \in r.from
        /\ w \in r.on \/ (r.on = {} /\ r.guard # "always")
    BY DEF Candidates
  <2>2. RowSettles(r) /\ r.id \in Nat
    BY <2>1, SettlesAll, RowsFit DEF RowFits
  <2>3. r.id >= SettlingRow[w][inp.state]
    BY <2>1, <2>2 DEF RowSettles
  <2>4. first.id \in Nat
    BY <1>1, RowsFit DEF RowFits
  <2>5. QED
    BY <1>1, <2>2, <2>3, <2>4
<1>5. QED
  BY <1>3, <1>4 DEF FindTransition

\* When nobody asks, nothing outranks the user's reply but a resolution.
LEMMA ReplyWins ==
  ASSUME NEW E \in SUBSET Evidence, "replied" \in E,
         E \cap {"override", "lag", "deliverable", "reply"} = {}
  PROVE  Winner(E) \in {"explicit", "soft", "replied"}
<1> DEFINE tiered == E \ NonTier
           best == {e \in tiered : \A f \in tiered : Outranks(e, f)}
           first == IF "explicit" \in E THEN "explicit"
                    ELSE IF "soft" \in E THEN "soft" ELSE "replied"
<1>1. /\ first \in tiered /\ Tier[first] \in {1, 3}
      /\ first \in {"explicit", "soft", "replied"}
  BY DEF NonTier, Tier
<1>2. \A e \in tiered :
        /\ Tier[e] \in Nat
        /\ Tier[e] <= 3 => e \in {"explicit", "soft", "replied"}
  BY DEF Evidence, Tier, NonTier
<1>3. \A e \in tiered : Outranks(first, e)
  <2>1. /\ Tier["explicit"] = 1 /\ Tier["soft"] = 1 /\ Tier["replied"] = 3
        /\ Order["explicit"] = 4 /\ Order["soft"] = 5
        /\ Order["replied"] = 3
    BY DEF Order, Tier
  <2>2. ASSUME NEW e \in tiered PROVE Outranks(first, e)
    <3>1. CASE e \in {"explicit", "soft", "replied"}
      BY <2>1, <3>1 DEF Outranks
    <3>2. CASE ~(Tier[e] <= 3)
      BY <1>1, <1>2, <3>2 DEF Outranks
    <3>3. QED
      BY <1>2, <3>1, <3>2
  <2>3. QED
    BY <2>2
<1>4. \A e \in best : Tier[e] <= 3 /\ e \in tiered
  BY <1>1, <1>2 DEF Outranks
<1>5. best # {} /\ \A e \in best : e \in {"explicit", "soft", "replied"}
  BY <1>1, <1>2, <1>3, <1>4
<1> HIDE DEF tiered
<1>6. Winner(E) = CHOOSE e \in best : TRUE
  BY <1>5 DEF Winner, tiered
<1>7. QED
  BY <1>5, <1>6

\* Once the user has replied and nobody asks, reduce() leaves no ask open.
THEOREM ReduceSettles ==
  ASSUME NEW inp, Unattended(inp),
         inp.state \notin {"done", "delegate_open"},
         "replied" \in inp.injected \cup inp.detected,
         (inp.injected \cup inp.detected) \cap DOMAIN AskState = {}
  PROVE  Reduce(inp).next \notin {"act_open", "respond_open"}
<1> DEFINE evidence == inp.injected \cup inp.detected
<1>1. /\ evidence \in SUBSET Evidence /\ "override" \notin evidence
      /\ inp.override = NoOverride
      /\ inp.injected \cup inp.detected
           \cup (IF inp.override # NoOverride THEN {"override"} ELSE {})
         = evidence
  BY DEF Unattended, Admissible, Inputs
<1>2. "replied" \in evidence /\ evidence \cap DOMAIN AskState = {}
  OBVIOUS
<1> HIDE DEF evidence
<1>3. CASE inp.state = "needs_review"
  BY <1>1, <1>3 DEF Reduce, NoopResult
<1>4. CASE /\ inp.state # "needs_review"
           /\ evidence \cap {"conflict", "failures", "lag"} # {}
  BY <1>1, <1>4 DEF Reduce, NeedsReviewResult, NoopResult
<1>5. CASE /\ inp.state # "needs_review"
           /\ evidence \cap {"conflict", "failures", "lag"} = {}
  <2> DEFINE w == Winner(evidence)
  <2>1. w \in {"explicit", "soft", "replied"}
    BY <1>1, <1>2, <1>5, ReplyWins DEF AskState
  <2>2. w \in Evidence /\ w # NoEvidence /\ w # "override"
    BY <2>1 DEF Evidence, Tier, NoEvidence
  <2> HIDE DEF w
  <2>3. Reduce(inp) = TableResult(inp, evidence)
    BY <1>1, <1>5, <2>2 DEF Reduce, w
  <2>4. Drivers(inp, evidence) = {w}
    BY <2>2 DEF Drivers, w
  <2>5. CASE \E e : Reduce(inp) = NoopResult(inp, 0, e)
            /\ inp.state \notin {"act_open", "respond_open"}
    BY <2>5 DEF NoopResult
  <2>6. CASE \E r \in FindTransition(inp, w) :
                Reduce(inp) = RowResult(r, inp, w)
    <3>1. PICK r \in FindTransition(inp, w) :
            Reduce(inp) = RowResult(r, inp, w)
      BY <2>6
    <3>2. /\ r \in Rows /\ inp.state \in r.from
          /\ w \in r.on \/ (r.on = {} /\ r.guard # "always")
      BY DEF FindTransition, Candidates
    <3>3. RowSettles(r)
      BY <3>2, SettlesAll
    <3>4. Leads(r, inp.state, w) \notin {"act_open", "respond_open"}
      BY <1>5, <2>1, <3>2, <3>3 DEF RowSettles
    <3>5. ~Reduce(inp).raised
      BY ReduceAnswers DEF Answers
    <3>6. Reduce(inp).next = NextState(r, inp, w)
      BY <3>1, <3>5 DEF RowResult, RaisedResult, NoopResult
    <3>7. QED
      BY <3>4, <3>6 DEF NextState, Leads
  <2>7. CASE FindTransition(inp, w) = {}
    <3>1. inp.state \notin {"act_open", "respond_open"}
      BY <1>5, <2>1, <2>7, OpenIsSettled
    <3>2. \E e : Reduce(inp) = NoopResult(inp, 0, e)
      BY <2>3, <2>4, <2>7, TableAnswer
    <3>3. QED
      BY <2>5, <3>1, <3>2
  <2>8. QED
    BY <2>3, <2>4, <2>6, <2>7, TableAnswer
<1>6. QED
  BY <1>3, <1>4, <1>5

-----------------------------------------------------------------------------
\* Inputs that differ at most in the evidence the snapshot shows.
SameButDetected(inp, other) ==
    /\ other.state = inp.state /\ other.bucket = inp.bucket
    /\ other.task = inp.task /\ other.completion = inp.completion
    /\ other.injected = inp.injected /\ other.override = inp.override
    /\ other.hints = inp.hints

LEMMA SameTransition ==
  ASSUME NEW inp, NEW other, SameButDetected(inp, other), NEW e
  PROVE  FindTransition(other, e) = FindTransition(inp, e)
<1>1. \A name : Guard(name, other) = Guard(name, inp)
  BY GuardIgnoresDetected DEF SameButDetected
<1>2. Candidates(other, e) = Candidates(inp, e)
  BY <1>1 DEF Candidates, SameButDetected
<1>3. QED
  BY <1>2 DEF FindTransition

LEMMA SameResults ==
  ASSUME NEW inp, NEW other, SameButDetected(inp, other)
  PROVE  /\ \A row, w : NoopResult(other, row, w) = NoopResult(inp, row, w)
         /\ \A row, w : RaisedResult(other, row, w) = RaisedResult(inp, row, w)
         /\ \A row, task, w : NeedsReviewResult(other, row, task, w)
                               = NeedsReviewResult(inp, row, task, w)
         /\ \A row : OverrideResult(other, row) = OverrideResult(inp, row)
         /\ \A r, w : RowResult(r, other, w) = RowResult(r, inp, w)
<1>1. \A row, w : NoopResult(other, row, w) = NoopResult(inp, row, w)
  BY DEF NoopResult, SameButDetected
<1>2. \A row, w : RaisedResult(other, row, w) = RaisedResult(inp, row, w)
  BY <1>1 DEF RaisedResult
<1>3. \A row, task, w : NeedsReviewResult(other, row, task, w)
                         = NeedsReviewResult(inp, row, task, w)
  BY <1>1 DEF NeedsReviewResult
<1>4. \A row : OverrideResult(other, row) = OverrideResult(inp, row)
  BY <1>2 DEF OverrideResult, SameButDetected
<1>5. ASSUME NEW r, NEW w PROVE RowResult(r, other, w) = RowResult(r, inp, w)
  <2>1. Guard(r.guard, other) = Guard(r.guard, inp)
    BY GuardIgnoresDetected DEF SameButDetected
  <2>2. /\ NextState(r, other, w) = NextState(r, inp, w)
        /\ NextBucket(r, other, w) = NextBucket(r, inp, w)
        /\ TaskKind(r, other) = TaskKind(r, inp)
    BY DEF NextState, NextBucket, TaskKind, SameButDetected
  <2>3. \A b : CategoryIntent(r, other, b) = CategoryIntent(r, inp, b)
    BY DEF CategoryIntent, PolicyBucket, SameButDetected
  <2>4. QED
    BY <1>2, <2>1, <2>2, <2>3 DEF RowResult
<1>6. QED
  BY <1>1, <1>2, <1>3, <1>4, <1>5

LEMMA SameTable ==
  ASSUME NEW inp, NEW other, SameButDetected(inp, other),
         NEW E, NEW T, Winner(T) = Winner(E), T \cap NonTier = E \cap NonTier
  PROVE  TableResult(other, T) = TableResult(inp, E)
<1> DEFINE there(e) == {RowResult(r, other, e) :
                            r \in FindTransition(other, e)}
           here(e) == {RowResult(r, inp, e) : r \in FindTransition(inp, e)}
<1>1. Drivers(other, T) = Drivers(inp, E)
  <2>1. {e \in T \cap NonTier : FindTransition(other, e) # {}}
          = {e \in E \cap NonTier : FindTransition(inp, e) # {}}
    BY SameTransition
  <2>2. QED
    BY <2>1 DEF Drivers
<1>2. \A e : there(e) = here(e)
  BY SameTransition, SameResults
<1>3. UNION {there(e) : e \in Drivers(other, T)}
        = UNION {here(e) : e \in Drivers(inp, E)}
  <2> HIDE DEF there, here
  <2>1. {there(e) : e \in Drivers(other, T)}
          = {here(e) : e \in Drivers(inp, E)}
    BY <1>1, <1>2
  <2>2. QED
    BY <2>1
<1>4. {NoopResult(other, 0, e) : e \in Drivers(other, T)}
        = {NoopResult(inp, 0, e) : e \in Drivers(inp, E)}
  BY <1>1, SameResults
<1>5. NoopResult(other, 0, NoEvidence) = NoopResult(inp, 0, NoEvidence)
  BY SameResults
<1>6. QED
  BY <1>1, <1>3, <1>4, <1>5 DEF TableResult

\* The best tier decides who wins, whatever lies below it.
LEMMA TopWins ==
  ASSUME NEW E \in SUBSET Evidence, NEW T \in SUBSET E,
         T \cap NonTier = E \cap NonTier,
         T \ NonTier = {e \in E \ NonTier :
                          \A f \in E \ NonTier : Tier[e] <= Tier[f]}
  PROVE  Winner(T) = Winner(E)
<1> DEFINE Best(S) == {e \in S : \A f \in S : Outranks(e, f)}
           E1 == E \ NonTier
           T1 == T \ NonTier
<1>1. \A e \in Evidence : Tier[e] \in Nat
  BY DEF Evidence, Tier
<1>2. \A e \in T1, f \in E1 : Tier[e] <= Tier[f]
  OBVIOUS
<1>3. \A e \in E1 : (\A f \in E1 : Tier[e] <= Tier[f]) => e \in T1
  OBVIOUS
<1>4. T1 \subseteq E1 /\ E1 \subseteq Evidence
  OBVIOUS
<1> HIDE DEF E1, T1
<1>5. \A e \in Best(T1), f \in E1 : Outranks(e, f)
  <2> SUFFICES ASSUME NEW e \in Best(T1), NEW f \in E1 PROVE Outranks(e, f)
    OBVIOUS
  <2>1. CASE f \in T1
    BY <2>1
  <2>2. CASE f \notin T1
    <3>1. PICK g \in E1 : ~(Tier[f] <= Tier[g])
      BY <1>3, <2>2
    <3>2. Tier[e] <= Tier[g]
      BY <1>2
    <3>3. Tier[e] < Tier[f]
      BY <1>1, <1>4, <3>1, <3>2
    <3>4. QED
      BY <3>3 DEF Outranks
  <2>3. QED
    BY <2>1, <2>2
<1>6. \A e \in Best(E1) : e \in T1
  <2>1. \A e \in Best(E1), f \in E1 : Tier[e] <= Tier[f]
    BY <1>1, <1>4 DEF Outranks
  <2>2. QED
    BY <1>3, <2>1
<1>7. Best(T1) = Best(E1)
  BY <1>4, <1>5, <1>6
<1>8. "override" \in E <=> "override" \in T
  BY DEF NonTier
<1>9. "lag" \in E <=> "lag" \in T
  BY DEF NonTier
<1> DEFINE Wins(S, best) ==
             IF "override" \in S THEN "override"
             ELSE IF best = {} \/ ("lag" \in S /\ \A e \in best : Tier[e] = 3)
             THEN NoEvidence
             ELSE CHOOSE e \in best : TRUE
<1>10. Winner(T) = Wins(T, Best(T1)) /\ Winner(E) = Wins(E, Best(E1))
  BY DEF Winner, E1, T1
<1>11. \A best : Wins(T, best) = Wins(E, best)
  BY <1>8, <1>9
<1> HIDE DEF Wins, Best
<1>12. QED
  BY <1>7, <1>10, <1>11

\* Some tier is the best of those seen.
LEMMA BestTier ==
  ASSUME NEW E \in SUBSET Evidence, E # {}
  PROVE  \E e \in E : \A f \in E : Tier[e] <= Tier[f]
<1>1. \A e \in E : Tier[e] \in {1, 2, 3, 4, 5, 99}
  BY DEF Evidence, Tier
<1>2. CASE \E e \in E : Tier[e] = 1
  BY <1>1, <1>2
<1>3. CASE (\E e \in E : Tier[e] = 2) /\ \A e \in E : Tier[e] # 1
  BY <1>1, <1>3
<1>4. CASE (\E e \in E : Tier[e] = 3) /\ \A e \in E : Tier[e] \notin {1, 2}
  BY <1>1, <1>4
<1>5. CASE (\E e \in E : Tier[e] = 4) /\ \A e \in E : Tier[e] \notin {1, 2, 3}
  BY <1>1, <1>5
<1>6. CASE (\E e \in E : Tier[e] = 5)
              /\ \A e \in E : Tier[e] \notin {1, 2, 3, 4}
  BY <1>1, <1>6
<1>7. CASE \A e \in E : Tier[e] = 99
  BY <1>7
<1>8. QED
  BY <1>1, <1>2, <1>3, <1>4, <1>5, <1>6, <1>7

\* The evidence of the best tier, with the annotations.
Top(detected) ==
    {e \in detected :
        Tier[e] # 99 => \A f \in detected : Tier[e] <= Tier[f]}

\* Tiers do not blend: dropping all evidence but that of the best tier (and the
\* annotations) changes nothing, as long as nothing was injected.
THEOREM ReduceIgnoresLower ==
  ASSUME NEW inp, inp \in Inputs, inp.injected = {}
  PROVE  Reduce([inp EXCEPT !.detected = Top(inp.detected)]) = Reduce(inp)
<1> DEFINE other == [inp EXCEPT !.detected = Top(inp.detected)]
           asked == inp.override # NoOverride
           more == IF asked THEN {"override"} ELSE {}
           E == inp.injected \cup inp.detected \cup more
           T == inp.injected \cup Top(inp.detected) \cup more
<1>1. SameButDetected(inp, other) /\ other.detected = Top(inp.detected)
  BY DEF Inputs, SameButDetected
<1>2. \A e \in Evidence : Tier[e] \in Nat /\ (e \in NonTier <=> Tier[e] = 99)
                           /\ Tier[e] <= 99
  BY DEF Evidence, Tier, NonTier
<1>3. E \in SUBSET Evidence /\ T \in SUBSET E
  BY DEF Inputs, Evidence, Tier, Top
<1>4. T \cap NonTier = E \cap NonTier
  BY <1>2, <1>3 DEF Top
<1>5. T \ NonTier = {e \in E \ NonTier :
                       \A f \in E \ NonTier : Tier[e] <= Tier[f]}
  <2>1. "override" \in NonTier
    BY DEF NonTier
  <2>2. \A e \in E \ NonTier : e \in inp.detected
    BY <2>1
  <2>3. ASSUME NEW e \in E \ NonTier
        PROVE  e \in T <=> \A f \in E \ NonTier : Tier[e] <= Tier[f]
    <3>1. e \in T <=> \A f \in inp.detected : Tier[e] <= Tier[f]
      BY <1>2, <1>3, <2>1, <2>2 DEF Top
    <3>2. \A f \in inp.detected : f \in NonTier => Tier[e] <= Tier[f]
      BY <1>2, <1>3
    <3>3. QED
      BY <2>2, <3>1, <3>2
  <2>4. QED
    BY <1>3, <2>3
<1>6. Winner(T) = Winner(E)
  BY <1>3, <1>4, <1>5, TopWins
<1>7. T = {} <=> E = {}
  <2>1. inp.detected # {} => Top(inp.detected) # {}
    BY <1>3, BestTier DEF Top
  <2>2. QED
    BY <1>3, <2>1
<1>8. \A e \in {"conflict", "failures", "lag"} : e \in T <=> e \in E
  BY <1>4 DEF NonTier
<1>9. TableResult(other, T) = TableResult(inp, E)
  BY <1>1, <1>4, <1>6, SameTable
<1>10. T = other.injected \cup other.detected
             \cup (IF other.override # NoOverride THEN {"override"} ELSE {})
  BY <1>1 DEF SameButDetected
<1> DEFINE Reduced(i, evidence) ==
             LET winning == Winner(evidence)
             IN  IF i.state = "needs_review"
                 THEN IF i.override # NoOverride THEN OverrideResult(i, 83)
                      ELSE NoopResult(i, IF evidence # {} THEN 103 ELSE 85,
                                      NoEvidence)
                 ELSE IF "conflict" \in evidence
                 THEN NeedsReviewResult(i, 81, "noop", winning)
                 ELSE IF "failures" \in evidence
                 THEN NeedsReviewResult(i, 82, "dead_letter", winning)
                 ELSE IF "lag" \in evidence
                 THEN NeedsReviewResult(i, 80, "noop", winning)
                 ELSE IF winning = "override"
                 THEN IF i.override # NoOverride THEN OverrideResult(i, 90)
                      ELSE RaisedResult(i, 90, winning)
                 ELSE TableResult(i, evidence)
<1> HIDE DEF T, E, other
<1>11. Reduced(other, T) = Reduced(inp, E)
  BY <1>1, <1>6, <1>7, <1>8, <1>9, SameResults DEF SameButDetected
<1>12. Reduce(other) = Reduced(other, T)
  BY <1>10 DEF Reduce
<1>13. Reduce(inp) = Reduced(inp, E)
  BY DEF Reduce, E
<1>14. QED
  BY <1>11, <1>12, <1>13 DEF other
=============================================================================
