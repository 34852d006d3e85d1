------------------------------ MODULE Reducer ------------------------------
(***************************************************************************)
(* The pure reducer (reducer/reducer.py, guards.py, priority.py,           *)
(* transitions.py): from a conversation's prior state and a set of         *)
(* evidence to the next state, the To Do intent and the category intent.   *)
(*                                                                         *)
(* An input is a record                                                    *)
(*   state, bucket   the conversation row as the run loaded it             *)
(*   task            TRUE iff open_action_task_id is not null              *)
(*   completion      what the row it points at says: "none", "hard",       *)
(*                   "soft_in" / "soft_expired" (the soft window is still  *)
(*                   open / over), or "soft_naive": a soft window stored   *)
(*                   without a time zone, which cannot be compared with    *)
(*                   the aware `now` (the comparison raises TypeError)     *)
(*   detected        the evidence detect_evidence found in the snapshot    *)
(*   injected        ReducerInput.evidence_set, what the caller added      *)
(*   override        NoOverride, or the pair a manual override asks for    *)
(*   hints           the flags the latest classification carries           *)
(***************************************************************************)
EXTENDS Naturals

CONSTANT DonePolicy       \* settings.DONE_CATEGORY_POLICY

ASSUME DonePolicyAssumption == DonePolicy \in {"clear", "fyi", "preserve"}

States == {"none", "act_open", "respond_open", "delegate_open", "deferred",
           "waiting_on", "done", "fyi_context", "noise_transient",
           "needs_review"}
Buckets == {"Act", "Respond", "Delegate", "Defer", "WaitingOn", "FYI",
            "DeleteOrUnsubscribe"}
BucketOrNull == Buckets \cup {"null"}

TaskKinds == {"noop", "create", "update_fields", "move_list",
              "soft_complete", "hard_complete", "reopen", "dead_letter"}
CategoryKinds == {"noop", "apply", "clear", "preserve"}

NonTier == {"handoff", "due", "override", "lag", "conflict", "failures"}

\* Layer-1 evidence with its priority tier (99 for the annotations).
Tier == [explicit |-> 1, soft |-> 1, deliverable |-> 2, reply |-> 2,
         replied |-> 3, defer |-> 4, timer |-> 4, bulk |-> 5, fyi |-> 5,
         handoff |-> 99, due |-> 99, override |-> 99, lag |-> 99,
         conflict |-> 99, failures |-> 99]

\* Declaration order of the enum, which breaks every tie.
Order == [deliverable |-> 1, reply |-> 2, replied |-> 3, explicit |-> 4,
          soft |-> 5, defer |-> 6, timer |-> 7, bulk |-> 8, fyi |-> 9,
          handoff |-> 10, due |-> 11, override |-> 12, lag |-> 13,
          conflict |-> 14, failures |-> 15]

Evidence == DOMAIN Tier
NoEvidence == "nothing"

\* The bucket of a state that has exactly one.
Home == [none |-> "null", act_open |-> "Act", respond_open |-> "Respond",
         delegate_open |-> "Delegate", deferred |-> "Defer",
         waiting_on |-> "WaitingOn", fyi_context |-> "FYI",
         noise_transient |-> "DeleteOrUnsubscribe"]

AllowedPairs ==
    {<<s, Home[s]>> : s \in DOMAIN Home}
        \cup ({"done", "needs_review"} \X BucketOrNull)

\* What a "preserve" sentinel becomes when a new ask wins.
AskState == [deliverable |-> "act_open", reply |-> "respond_open"]

NoOverride == [state |-> "nothing", bucket |-> "null"]
Overrides == [state : States, bucket : BucketOrNull] \cup {NoOverride}

Completions == {"none", "hard", "soft_in", "soft_expired", "soft_naive"}
Hints == {"archive_window_elapsed", "delegate_hint"}

Inputs == [state : States, bucket : BucketOrNull, task : BOOLEAN,
           completion : Completions, detected : SUBSET Evidence,
           injected : SUBSET Evidence, override : Overrides,
           hints : SUBSET Hints]

-----------------------------------------------------------------------------
(* The transition table.  A row that names a To Do target bucket always    *)
(* names its own next bucket, so the target is not a column here.          *)

Row(id, from, on, guard, next, bucket, task, category, label) ==
    [id |-> id, from |-> from, on |-> on, guard |-> guard, next |-> next,
     bucket |-> bucket, task |-> task, category |-> category,
     label |-> label]

\* Nothing to do, in the state's own bucket.
Stay(id, s, e) ==
    Row(id, {s}, {e}, "always", s, Home[s], "noop", "noop", "null")

\* The task is patched in place and nothing else moves.
Refresh(id, s, e) == [Stay(id, s, e) EXCEPT !.task = "update_fields"]

\* The conversation moves to `to`, and its message is labelled accordingly.
Move(id, s, e, to, task) ==
    Row(id, {s}, {e}, "always", to, Home[to], task, "apply", Home[to])

\* Mutant: a resolved thread starts over.
FinishForgets(id, s, e, task) ==
    Row(id, {s}, {e}, "always", "none", "null", task, "apply", "policy")

\* The ask is over; the label is up to the done-category policy.
Finish(id, s, e, task) ==
    Row(id, {s}, {e}, "always", "done", "preserve", task, "apply", "policy")

\* A finished conversation that new evidence does not reopen.
StayDone(id, guard) ==
    Row(id, {"done"}, {"fyi"}, guard, "done", "preserve", "noop", "noop",
        "null")

FromNone ==
    {Move(1, "none", "deliverable", "act_open", "create"),
     Move(2, "none", "reply", "respond_open", "create"),
     Move(3, "none", "replied", "waiting_on", "create"),
     Move(4, "none", "defer", "deferred", "noop"),
     Move(5, "none", "bulk", "noise_transient", "noop"),
     Move(6, "none", "fyi", "fyi_context", "noop"),
     Stay(7, "none", "explicit"), Stay(8, "none", "soft"),
     Stay(9, "none", "handoff")}

FromAct ==
    {Refresh(10, "act_open", "deliverable"),
     Move(11, "act_open", "reply", "respond_open", "move_list"),
     Move(12, "act_open", "replied", "waiting_on", "move_list"),
     Finish(13, "act_open", "explicit", "hard_complete"),
     Finish(14, "act_open", "soft", "soft_complete"),
     Move(15, "act_open", "defer", "deferred", "update_fields"),
     Stay(16, "act_open", "fyi"),
     Row(17, States, {"due"}, "always", "preserve", "preserve",
         "update_fields", "noop", "null")}

FromRespond ==
    {Refresh(20, "respond_open", "reply"),
     Move(21, "respond_open", "deliverable", "act_open", "move_list"),
     Move(22, "respond_open", "replied", "waiting_on", "move_list"),
     Finish(23, "respond_open", "explicit", "hard_complete"),
     Finish(24, "respond_open", "soft", "soft_complete"),
     Move(25, "respond_open", "defer", "deferred", "update_fields"),
     Stay(26, "respond_open", "fyi")}

FromDelegate ==
    {Move(30, "delegate_open", "handoff", "waiting_on", "move_list"),
     [Stay(31, "delegate_open", "replied")
        EXCEPT !.guard = "not_handoff_confirmed"],
     Move(32, "delegate_open", "deliverable", "act_open", "move_list"),
     Finish(33, "delegate_open", "explicit", "hard_complete"),
     Stay(34, "delegate_open", "soft"),
     Move(35, "delegate_open", "defer", "deferred", "update_fields")}

FromDeferred ==
    {[Move(40, "deferred", "timer", "act_open", "reopen")
        EXCEPT !.guard = "original_ask_was_act"],
     [Move(41, "deferred", "timer", "respond_open", "reopen")
        EXCEPT !.guard = "original_ask_was_respond"],
     Move(42, "deferred", "deliverable", "act_open", "reopen"),
     Move(43, "deferred", "reply", "respond_open", "reopen"),
     Finish(44, "deferred", "explicit", "hard_complete"),
     Stay(45, "deferred", "fyi")}

FromWaiting ==
    {Finish(50, "waiting_on", "explicit", "hard_complete"),
     Finish(51, "waiting_on", "soft", "soft_complete"),
     Move(52, "waiting_on", "deliverable", "act_open", "move_list"),
     Move(53, "waiting_on", "reply", "respond_open", "move_list"),
     Refresh(54, "waiting_on", "replied"),
     Stay(55, "waiting_on", "fyi")}

FromDone ==
    {[Move(60, "done", "deliverable", "act_open", "reopen")
        EXCEPT !.guard = "hard_or_soft_in_window"],
     [Move(61, "done", "reply", "respond_open", "reopen")
        EXCEPT !.guard = "hard_or_soft_in_window"],
     Row(62, {"done"}, {"deliverable", "reply"}, "soft_expired_window",
         "preserve", "preserve", "create", "apply", "preserve"),
     Row(63, {"done"}, {}, "soft_window_open_continuation",
         "preserve", "preserve", "reopen", "apply", "preserve"),
     StayDone(64, "hard"), StayDone(65, "soft_in_window"),
     Row(66, {"done"}, {}, "archive_window_elapsed", "none", "null",
         "noop", "clear", "null")}

FromContext ==
    {Row(70, {"fyi_context"}, {"deliverable", "reply"}, "always",
         "preserve", "preserve", "create", "apply", "preserve"),
     Stay(71, "fyi_context", "fyi"),
     Row(72, {"noise_transient"}, {"deliverable", "reply"}, "always",
         "needs_review", "preserve", "noop", "noop", "null"),
     Stay(73, "noise_transient", "bulk")}

GuardedNoops ==
    {StayDone(100, "hard"), StayDone(101, "soft_expired_window"),
     Refresh(102, "waiting_on", "replied"),
     Row(104, {"delegate_open"}, {}, "delegate_hint_only", "delegate_open",
         "Delegate", "noop", "noop", "null")}

\* T080-T085, T090 and T103 are missing: reduce() returns through its own
\* branches before the table is searched for their evidence.
Rows == FromNone \cup FromAct \cup FromRespond \cup FromDelegate
          \cup FromDeferred \cup FromWaiting \cup FromDone
          \cup FromContext \cup GuardedNoops

-----------------------------------------------------------------------------
(* Priority: the lowest tier wins, the declaration order breaks ties.      *)

\* Mutant: the tiers are forgotten.
OutranksByOrder(e, f) == Order[e] <= Order[f]

Outranks(e, f) ==
    \/ Tier[e] < Tier[f]
    \/ Tier[e] = Tier[f] /\ Order[e] <= Order[f]

\* Manual override bypasses the tiers; a lag report withdraws a tier-3 winner.
Winner(evidence) ==
    LET tiered == evidence \ NonTier
        best == {e \in tiered : \A f \in tiered : Outranks(e, f)}
        withdrawn == "lag" \in evidence
                        /\ \A e \in best : Tier[e] = 3
    IN  IF "override" \in evidence THEN "override"
        ELSE IF best = {} \/ withdrawn THEN NoEvidence
        ELSE CHOOSE e \in best : TRUE

YesNo(b) == IF b THEN "yes" ELSE "no"

\* The outcome of a guard that compares `now` with the end of the soft window.
Windowed(inp, kinds) ==
    IF inp.completion = "soft_naive" THEN "raise"
    ELSE YesNo(inp.completion \in kinds)

\* A guard says yes or no, or raises.  Guards look at the evidence the caller
\* injected and never at the evidence detected in the snapshot.
Guard(name, inp) ==
    CASE name = "always" -> "yes"
      [] name = "not_handoff_confirmed" -> YesNo("handoff" \notin inp.injected)
      [] name = "original_ask_was_act" -> YesNo(inp.bucket = "Act")
      [] name = "original_ask_was_respond" -> YesNo(inp.bucket = "Respond")
      [] name = "hard_or_soft_in_window" ->
            IF inp.completion = "hard" THEN "yes"
            ELSE Windowed(inp, {"soft_in"})
      [] name = "soft_expired_window" -> Windowed(inp, {"soft_expired"})
      [] name = "soft_window_open_continuation" ->
            IF Windowed(inp, {"soft_in"}) # "yes"
            THEN Windowed(inp, {"soft_in"})
            ELSE YesNo(/\ inp.injected \cap {"deliverable", "reply"} = {}
                       /\ inp.injected \cap {"replied", "due"} # {})
      [] name = "hard" -> YesNo(inp.completion = "hard")
      [] name = "soft_in_window" -> Windowed(inp, {"soft_in"})
      [] name = "archive_window_elapsed" ->
            YesNo("archive_window_elapsed" \in inp.hints)
      [] name = "delegate_hint_only" ->
            YesNo(/\ "handoff" \notin inp.injected
                  /\ "delegate_hint" \in inp.hints)

\* The rows the search stops at: those that fit and whose guard does not say
\* no.  A row without a trigger is only tried when it has a guard.
Candidates(inp, winning) ==
    {r \in Rows : /\ inp.state \in r.from
                  /\ winning \in r.on \/ (r.on = {} /\ r.guard # "always")
                  /\ Guard(r.guard, inp) # "no"}

\* The first of them in table order, as a set of at most one row.
FindTransition(inp, winning) ==
    LET found == Candidates(inp, winning)
    IN  {r \in found : \A q \in found : r.id <= q.id}

-----------------------------------------------------------------------------
(* Building the result.                                                    *)

NoKey == <<"", "">>
TaskKeys == TaskKinds \X States
CategoryKeys == {"category_apply", "category_clear", "category_preserve"}
                    \X BucketOrNull

Results == [next : States, bucket : BucketOrNull,
            task : TaskKinds, target : BucketOrNull,
            tkey : TaskKeys \cup {NoKey},
            category : CategoryKinds, label : BucketOrNull,
            ckey : CategoryKeys \cup {NoKey},
            row : Nat, winning : Evidence \cup {NoEvidence},
            raised : BOOLEAN]

\* Mutant: the key forgets the state the intent leads to.
TaskKeyByKind(kind, next) == IF kind = "noop" THEN NoKey ELSE <<kind, "none">>

TaskKey(kind, next) == IF kind = "noop" THEN NoKey ELSE <<kind, next>>

\* T000 and its kin: nothing changes.
NoopResult(inp, row, winning) ==
    [next |-> inp.state, bucket |-> inp.bucket,
     task |-> "noop", target |-> "null", tkey |-> NoKey,
     category |-> "noop", label |-> "null", ckey |-> NoKey,
     row |-> row, winning |-> winning, raised |-> FALSE]

\* A TypeError of a guard or a ReducerContractError: no result at all.
RaisedResult(inp, row, winning) ==
    [NoopResult(inp, row, winning) EXCEPT !.raised = TRUE]

\* Mutant: a review takes the thread out of its bucket.
NeedsReviewUnfiled(inp, row, task, winning) ==
    [NoopResult(inp, row, winning) EXCEPT
        !.next = "needs_review", !.bucket = "null"]

NeedsReviewResult(inp, row, task, winning) ==
    [NoopResult(inp, row, winning) EXCEPT
        !.next = "needs_review", !.task = task,
        !.tkey = TaskKey(task, "needs_review")]

\* Mutant: the state is preserved whatever ask won.
NextStateKept(r, inp, winning) ==
    IF r.next # "preserve" THEN r.next ELSE inp.state

NextState(r, inp, winning) ==
    IF r.next # "preserve" THEN r.next
    ELSE IF winning \in DOMAIN AskState THEN AskState[winning]
    ELSE inp.state

\* Mutant: the bucket is preserved whatever ask won.
NextBucketKept(r, inp, winning) ==
    IF r.bucket # "preserve" THEN r.bucket ELSE inp.bucket

NextBucket(r, inp, winning) ==
    IF r.bucket # "preserve" THEN r.bucket
    ELSE IF winning \in DOMAIN AskState THEN Home[AskState[winning]]
    ELSE inp.bucket

\* Mutant: a reopen without a task stays a reopen.
TaskKindReopens(r, inp) ==
    IF r.task = "create" /\ inp.task /\ r.guard # "soft_expired_window"
    THEN "update_fields"
    ELSE r.task

\* One active task: a create becomes an update when a task is known, unless
\* its soft window is over, and a reopen without a task becomes a create.
TaskKind(r, inp) ==
    IF r.task = "create" /\ inp.task /\ r.guard # "soft_expired_window"
    THEN "update_fields"
    ELSE IF r.task = "reopen" /\ ~inp.task THEN "create"
    ELSE r.task

PolicyKind ==
    [clear |-> "clear", fyi |-> "apply", preserve |-> "preserve"][DonePolicy]

PolicyKeyKind ==
    [clear |-> "category_clear", fyi |-> "category_apply",
     preserve |-> "category_preserve"][DonePolicy]

PolicyBucket(inp) ==
    [clear |-> "null", fyi |-> "FYI", preserve |-> inp.bucket][DonePolicy]

\* Mutant: the "preserve" label is passed on unresolved.
CategoryIntentUnresolved(r, inp, bucket) ==
    IF r.category # "apply"
    THEN [kind |-> r.category, label |-> "null", key |-> NoKey]
    ELSE [kind |-> "apply", label |-> r.label,
          key |-> <<"category_apply", r.label>>]

CategoryIntent(r, inp, bucket) ==
    IF r.category # "apply"
    THEN [kind |-> r.category, label |-> "null", key |-> NoKey]
    ELSE IF r.label = "policy"
    THEN [kind |-> PolicyKind, label |-> PolicyBucket(inp),
          key |-> <<PolicyKeyKind, PolicyBucket(inp)>>]
    ELSE LET label == IF r.label = "preserve" THEN bucket ELSE r.label
         IN  [kind |-> "apply", label |-> label,
              key |-> <<"category_apply", label>>]

RowResult(r, inp, winning) ==
    LET next == NextState(r, inp, winning)
        bucket == NextBucket(r, inp, winning)
        kind == TaskKind(r, inp)
        cat == CategoryIntent(r, inp, bucket)
    IN  IF Guard(r.guard, inp) = "raise" \/ <<next, bucket>> \notin AllowedPairs
        THEN RaisedResult(inp, r.id, winning)
        ELSE [next |-> next, bucket |-> bucket,
              task |-> kind, target |-> bucket, tkey |-> TaskKey(kind, next),
              category |-> cat.kind, label |-> cat.label, ckey |-> cat.key,
              row |-> r.id, winning |-> winning, raised |-> FALSE]

\* The override is taken verbatim; its task is only patched, never created.
OverrideResult(inp, row) ==
    LET to == inp.override
        kind == IF inp.task THEN "update_fields" ELSE "noop"
        labelled == to.bucket # "null"
    IN  IF <<to.state, to.bucket>> \notin AllowedPairs
        THEN RaisedResult(inp, row, "override")
        ELSE [next |-> to.state, bucket |-> to.bucket,
              task |-> kind, target |-> to.bucket,
              tkey |-> TaskKey(kind, to.state),
              category |-> IF labelled THEN "apply" ELSE "noop",
              label |-> to.bucket,
              ckey |-> IF labelled THEN <<"category_apply", to.bucket>>
                       ELSE NoKey,
              row |-> row, winning |-> "override", raised |-> FALSE]

\* The evidence that drives the table, as a set of at most one: the winner, or
\* else the first of the annotations (in declaration order) that a row answers.
Drivers(inp, evidence) ==
    LET driving == {e \in evidence \cap NonTier : FindTransition(inp, e) # {}}
    IN  IF Winner(evidence) # NoEvidence THEN {Winner(evidence)}
        ELSE {e \in driving : \A f \in driving : Order[e] <= Order[f]}

\* The table proper, once no review and no override intervenes.
TableResult(inp, evidence) ==
    LET drivers == Drivers(inp, evidence)
        answer(e) == {RowResult(r, inp, e) : r \in FindTransition(inp, e)}
        results == UNION {answer(e) : e \in drivers}
        ignored == {NoopResult(inp, 0, e) : e \in drivers}
    IN  CHOOSE result \in IF results # {} THEN results
                          ELSE IF drivers # {} THEN ignored
                          ELSE {NoopResult(inp, 0, NoEvidence)} : TRUE

Reduce(inp) ==
    LET asked == inp.override # NoOverride
        evidence == inp.injected \cup inp.detected
                      \cup (IF asked THEN {"override"} ELSE {})
        winning == Winner(evidence)
    IN  IF inp.state = "needs_review"
        THEN IF asked THEN OverrideResult(inp, 83)
             ELSE NoopResult(inp, IF evidence # {} THEN 103 ELSE 85,
                             NoEvidence)
        ELSE IF "conflict" \in evidence
        THEN NeedsReviewResult(inp, 81, "noop", winning)
        ELSE IF "failures" \in evidence
        THEN NeedsReviewResult(inp, 82, "dead_letter", winning)
        ELSE IF "lag" \in evidence
        THEN NeedsReviewResult(inp, 80, "noop", winning)
        ELSE IF winning = "override"
        THEN IF asked THEN OverrideResult(inp, 90)
             ELSE RaisedResult(inp, 90, winning)
        ELSE TableResult(inp, evidence)
=============================================================================
