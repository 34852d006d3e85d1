------------------------- MODULE PipelineSolo_proofs -------------------------
(***************************************************************************)
(* Theorems about the pipeline with one worker, which the races between    *)
(* workers would break: what a run loaded is still what is committed when  *)
(* it writes.                                                              *)
(***************************************************************************)
EXTENDS Pipeline_proofs

-----------------------------------------------------------------------------
(* What reduce() can answer a run.                                           *)

\* The To Do intent that goes with a step; known says that the thread points
\* at a task.
Answer(s, known, s2, kind) ==
    \/ s2 = s /\ kind \in {"noop", "update_fields"}
    \/ /\ s \in {"none", "fyi_context"} /\ s2 \in Awaiting
       /\ known \/ kind = "create"
    \/ /\ s = "none" /\ s2 \in {"deferred", "noise_transient", "fyi_context"}
       /\ kind = "noop"
    \/ /\ s \in Awaiting /\ s2 \in Awaiting \cup {"deferred"}
       /\ kind \in {"move_list", "update_fields", "noop"}
    \/ /\ s \in Awaiting /\ s2 = "done"
       /\ kind \in {"hard_complete", "soft_complete"}
    \/ /\ s = "deferred" /\ s2 \in Awaiting
       /\ kind = IF known THEN "reopen" ELSE "create"
    \/ s = "deferred" /\ s2 = "done" /\ kind = "hard_complete"
    \/ s2 = "needs_review"

\* The guards that say yes without an open window, a hard completion or a hint.
Plain == {"always", "not_handoff_confirmed"}

RowAnswers(r) ==
    /\ r.guard \in {"original_ask_was_act", "original_ask_was_respond"}
          => r.from = {"deferred"}
    /\ \A s \in r.from \ {"needs_review", "delegate_open"}, w \in Evidence :
          /\ r.guard \in Plain
          /\ w \in r.on \/ (r.on = {} /\ r.guard # "always")
          =>
             /\ r.next # "needs_review" /\ r.task = "create" =>
                   /\ s \in {"none", "fyi_context"}
                   /\ Leads(r, s, w) \in Awaiting
             /\ r.task = "reopen" =>
                   s = "deferred" /\ Leads(r, s, w) \in Awaiting
             /\ r.task \notin {"create", "reopen"} =>
                   \A known \in BOOLEAN :
                      Answer(s, known, Leads(r, s, w), r.task)

LEMMA AnswersNone == \A r \in FromNone : RowAnswers(r)
  BY HomeEntries, AskEntries DEF FromNone, RowAnswers, Row, Stay, Move,
     Answer, Leads, Plain, Awaiting, States

LEMMA AnswersAct == \A r \in FromAct : RowAnswers(r)
  BY HomeEntries, AskEntries DEF FromAct, RowAnswers, Row, Stay, Refresh,
     Move, Finish, Answer, Leads, Plain, Awaiting, States

LEMMA AnswersRespond == \A r \in FromRespond : RowAnswers(r)
  BY HomeEntries, AskEntries DEF FromRespond, RowAnswers, Row, Stay,
     Refresh, Move, Finish, Answer, Leads, Plain, Awaiting, States

LEMMA AnswersDelegate == \A r \in FromDelegate : RowAnswers(r)
  BY HomeEntries, AskEntries DEF FromDelegate, RowAnswers, Row, Stay, Move,
     Finish, Answer, Leads, Plain, Awaiting, States

LEMMA AnswersDeferred == \A r \in FromDeferred : RowAnswers(r)
  BY HomeEntries, AskEntries DEF FromDeferred, RowAnswers, Row, Stay, Move,
     Finish, Answer, Leads, Plain, Awaiting, States

LEMMA AnswersWaiting == \A r \in FromWaiting : RowAnswers(r)
  BY HomeEntries, AskEntries DEF FromWaiting, RowAnswers, Row, Stay,
     Refresh, Move, Finish, Answer, Leads, Plain, Awaiting, States

LEMMA AnswersDone == \A r \in FromDone : RowAnswers(r)
  BY HomeEntries, AskEntries DEF FromDone, RowAnswers, Row, StayDone, Move,
     Answer, Leads, Plain, Awaiting, States

LEMMA AnswersContext == \A r \in FromContext : RowAnswers(r)
  BY HomeEntries, AskEntries DEF FromContext, RowAnswers, Row, Stay,
     Answer, Leads, Plain, Awaiting, States

LEMMA AnswersNoops == \A r \in GuardedNoops : RowAnswers(r)
  BY HomeEntries, AskEntries DEF GuardedNoops, RowAnswers, Row, StayDone,
     Stay, Refresh, Answer, Leads, Plain, Awaiting, States

LEMMA AnswersAll == \A r \in Rows : RowAnswers(r)
  BY AnswersNone, AnswersAct, AnswersRespond, AnswersDelegate, AnswersDeferred,
     AnswersWaiting, AnswersDone, AnswersContext, AnswersNoops DEF Rows

\* For a thread that points at no hard-completed row, the guards that look for
\* an open window, an original ask or a hint do not say yes.
LEMMA PlainGuard ==
  ASSUME NEW s \in Snapshots, <<s.state, s.bucket>> \in AllowedPairs,
         s.status # "hard", NEW r \in Rows, s.state \in r.from,
         Guard(r.guard, ReducerInput(s)) \notin {"no", "raise"}
  PROVE  r.guard \in Plain
<1> DEFINE inp == ReducerInput(s)
<1>1. /\ inp.completion \in {"none", "soft_naive"}
      /\ inp.injected = {} /\ inp.hints = {} /\ inp.bucket = s.bucket
  BY DEF ReducerInput
<1>2. r.guard \in GuardNames /\ RowAnswers(r)
  BY LeadsAll, AnswersAll DEF RowLeads
<1> HIDE DEF inp
<1>3. /\ Guard("hard", inp) = "no"
      /\ Guard("archive_window_elapsed", inp) = "no"
      /\ Guard("delegate_hint_only", inp) = "no"
  BY <1>1 DEF Guard, YesNo
<1>4. /\ Guard("hard_or_soft_in_window", inp) \in {"no", "raise"}
      /\ Guard("soft_expired_window", inp) \in {"no", "raise"}
      /\ Guard("soft_in_window", inp) \in {"no", "raise"}
  BY <1>1 DEF Guard, Windowed, YesNo
<1>5. Guard("soft_window_open_continuation", inp) \in {"no", "raise"}
  BY <1>1 DEF Guard, Windowed, YesNo
<1>6. s.state = "deferred" => s.bucket = "Defer"
  BY PairAllowed, HomeEntries
<1>7. CASE r.guard \in {"original_ask_was_act", "original_ask_was_respond"}
  <2>1. inp.bucket = "Defer"
    BY <1>1, <1>2, <1>6, <1>7 DEF RowAnswers
  <2>2. /\ Guard("original_ask_was_act", inp) = "no"
        /\ Guard("original_ask_was_respond", inp) = "no"
    BY <2>1 DEF Guard, YesNo
  <2>3. QED
    BY <1>7, <2>2 DEF inp
<1>8. QED
  BY <1>2, <1>3, <1>4, <1>5, <1>7 DEF GuardNames, ComparesWindow, Plain, inp

\* What a run may expect of a result that is no exception.
Told(s, result) ==
    /\ Moves(s.state, s.bucket, result.next, result.bucket)
    /\ <<result.next, result.bucket>> \in AllowedPairs
    /\ result.tkey = TaskKey(result.task, result.next)
    /\ s.state = "needs_review" => result.next = "needs_review"
    /\ s.state # "delegate_open" /\ s.status # "hard" =>
          Answer(s.state, s.ptr # Nil, result.next, result.task)

LEMMA RowTold ==
  ASSUME NEW s \in Snapshots, <<s.state, s.bucket>> \in AllowedPairs,
         s.state # "needs_review", NEW r \in Rows, s.state \in r.from,
         NEW w \in Evidence, w \in r.on \/ (r.on = {} /\ r.guard # "always"),
         Guard(r.guard, ReducerInput(s)) # "no",
         ~RowResult(r, ReducerInput(s), w).raised
  PROVE  Told(s, RowResult(r, ReducerInput(s), w))
<1> DEFINE inp == ReducerInput(s)
           next == NextState(r, inp, w)
           bucket == NextBucket(r, inp, w)
           kind == TaskKind(r, inp)
           result == RowResult(r, inp, w)
<1>1. inp.state = s.state /\ inp.bucket = s.bucket /\ inp.task = (s.ptr # Nil)
  BY DEF ReducerInput
<1>2. next = Leads(r, s.state, w)
  BY <1>1 DEF NextState, Leads
<1> HIDE DEF inp
<1>3. /\ Guard(r.guard, inp) # "raise" /\ <<next, bucket>> \in AllowedPairs
      /\ result.next = next /\ result.bucket = bucket /\ result.task = kind
      /\ result.tkey = TaskKey(kind, next)
  <2>1. Guard(r.guard, inp) # "raise" /\ <<next, bucket>> \in AllowedPairs
    BY DEF RowResult, RaisedResult, NoopResult, inp
  <2>2. QED
    BY <2>1 DEF RowResult
<1>4. RowAnswers(r)
  BY AnswersAll
<1>5. s.state \in States /\ s.bucket \in BucketOrNull
  BY DEF Snapshots
<1>6. Moves(s.state, s.bucket, result.next, result.bucket)
  BY <1>1, <1>5, RowResultMoves DEF inp
<1>7. ASSUME s.state # "delegate_open", s.status # "hard"
      PROVE  Answer(s.state, s.ptr # Nil, next, kind)
  <2>1. r.guard \in Plain
    BY <1>3, <1>7, PlainGuard DEF inp
  <2>2. next # "needs_review" /\ r.task = "create" =>
          s.state \in {"none", "fyi_context"} /\ next \in Awaiting
    <3>1. next # "needs_review" => r.next # "needs_review"
      BY <1>2 DEF Leads
    <3>2. QED
      BY <1>2, <1>4, <1>7, <2>1, <3>1 DEF RowAnswers
  <2>3. r.task = "reopen" => s.state = "deferred" /\ next \in Awaiting
    BY <1>2, <1>4, <1>7, <2>1 DEF RowAnswers
  <2>4. r.task \notin {"create", "reopen"} =>
          \A known \in BOOLEAN : Answer(s.state, known, next, r.task)
    BY <1>2, <1>4, <1>7, <2>1 DEF RowAnswers
  <2>5. CASE r.task = "create"
    <3>1. s.ptr = Nil => kind = "create"
      BY <1>1, <2>5 DEF TaskKind
    <3>2. CASE next = "needs_review"
      BY <3>2 DEF Answer
    <3>3. CASE next # "needs_review"
      BY <2>2, <2>5, <3>1, <3>3 DEF Answer
    <3>4. QED
      BY <3>2, <3>3
  <2>6. CASE r.task = "reopen"
    <3>1. kind = IF s.ptr # Nil THEN "reopen" ELSE "create"
      BY <1>1, <2>6 DEF TaskKind
    <3>2. QED
      BY <2>3, <2>6, <3>1 DEF Answer
  <2>7. CASE r.task \notin {"create", "reopen"}
    <3>1. kind = r.task
      BY <2>7 DEF TaskKind
    <3>2. QED
      BY <2>4, <2>7, <3>1
  <2>8. QED
    BY <2>5, <2>6, <2>7
<1>8. Told(s, result)
  BY <1>3, <1>6, <1>7 DEF Told
<1>9. QED
  BY <1>8 DEF inp

LEMMA NoopTold ==
  ASSUME NEW s \in Snapshots, <<s.state, s.bucket>> \in AllowedPairs,
         NEW row, NEW w
  PROVE  Told(s, NoopResult(ReducerInput(s), row, w))
  BY DEF Told, NoopResult, ReducerInput, Moves, Answer, TaskKey

LEMMA ReviewTold ==
  ASSUME NEW s \in Snapshots, <<s.state, s.bucket>> \in AllowedPairs,
         NEW row, NEW task, NEW w
  PROVE  Told(s, NeedsReviewResult(ReducerInput(s), row, task, w))
<1>1. <<"needs_review", s.bucket>> \in AllowedPairs
  BY PairAllowed DEF Snapshots
<1>2. QED
  BY <1>1 DEF Told, NeedsReviewResult, NoopResult, ReducerInput, Moves, Answer,
              TaskKey

\* What reduce() answers a run, if it does not raise.
LEMMA DecisionTold ==
  ASSUME NEW s \in Snapshots, <<s.state, s.bucket>> \in AllowedPairs,
         ~Decision(s).raised
  PROVE  Told(s, Decision(s))
<1> DEFINE inp == ReducerInput(s)
           evidence == s.evidence
           winning == Winner(evidence)
<1>1. inp \in PipelineInputs
  BY DEF ReducerInput, PipelineInputs, Snapshots
<1>2. Decision(s) = Reduce(inp)
  BY <1>1 DEF Decision, Reduced
<1>3. /\ inp.injected = {} /\ inp.detected = evidence
      /\ inp.override = NoOverride /\ inp.state = s.state
  BY DEF ReducerInput
<1>4. evidence \subseteq Evidence
  BY PipelineAssumption DEF Snapshots
<1>5. inp.injected \cup inp.detected
         \cup (IF inp.override # NoOverride THEN {"override"} ELSE {}) = evidence
  BY <1>3
<1>6. CASE s.state = "needs_review"
  <2>1. Decision(s) = NoopResult(inp, IF evidence # {} THEN 103 ELSE 85,
                                 NoEvidence)
    BY <1>2, <1>3, <1>5, <1>6 DEF Reduce
  <2>2. QED
    BY <2>1, NoopTold
<1>7. CASE /\ s.state # "needs_review"
           /\ evidence \cap {"conflict", "failures", "lag"} # {}
  <2>1. \E row, task : Decision(s) = NeedsReviewResult(inp, row, task, winning)
    <3> HIDE DEF inp, evidence
    <3>1. QED
      BY <1>2, <1>3, <1>5, <1>7 DEF Reduce
  <2>2. QED
    BY <2>1, ReviewTold
<1>8. CASE /\ s.state # "needs_review"
           /\ evidence \cap {"conflict", "failures", "lag"} = {}
  <2>1. \/ Decision(s) = RaisedResult(inp, 90, winning)
        \/ winning # "override" /\ Decision(s) = TableResult(inp, evidence)
    <3> HIDE DEF inp, evidence
    <3>1. QED
      BY <1>2, <1>3, <1>5, <1>8 DEF Reduce
  <2>2. Decision(s) = TableResult(inp, evidence)
    BY <2>1 DEF RaisedResult, NoopResult
  <2>3. CASE \E w : Decision(s) = NoopResult(inp, 0, w)
    BY <2>3, NoopTold
  <2>4. CASE \E w \in Drivers(inp, evidence) : \E r \in FindTransition(inp, w) :
               Decision(s) = RowResult(r, inp, w)
    <3> PICK w \in Drivers(inp, evidence) : \E r \in FindTransition(inp, w) :
            Decision(s) = RowResult(r, inp, w)
      BY <2>4
    <3>1. PICK r \in FindTransition(inp, w) :
            Decision(s) = RowResult(r, inp, w)
      OBVIOUS
    <3>2. w \in Evidence
      BY <1>4, WinnerType DEF Drivers
    <3>3. /\ r \in Rows /\ s.state \in r.from
          /\ w \in r.on \/ (r.on = {} /\ r.guard # "always")
          /\ Guard(r.guard, inp) # "no"
      BY <1>3 DEF FindTransition, Candidates
    <3>4. QED
      BY <1>8, <3>1, <3>2, <3>3, RowTold
  <2>5. QED
    BY <2>2, <2>3, <2>4, TableAnswer
<1>9. QED
  BY <1>6, <1>7, <1>8

-----------------------------------------------------------------------------
(* With one worker nothing is stale: what the run loaded is what is          *)
(* committed, until its own commit.                                          *)

\* The pointer names every active row, and no hard-completed one.
Named(d) ==
    /\ \A t \in Active(d) : d.ptr = t
    /\ d.ptr # Nil => d.rows[d.ptr] \in {"active", "soft"}

Current(s) ==
    /\ s.state = db.state /\ s.bucket = db.bucket /\ s.ptr = db.ptr
    /\ s.status = IF db.ptr = Nil THEN "absent" ELSE db.rows[db.ptr]

Solo(w) ==
    /\ seen[w] # Unread => Current(seen[w])
    /\ writer = w => /\ seen[w] # Unread /\ Told(seen[w], plan)
                     /\ tx.state = plan.next /\ tx.bucket = plan.bucket
    /\ stage = "task" => /\ tx.ptr = db.ptr /\ tx.keys = db.keys
                         /\ tx.failures = db.failures
    /\ stage \in {"task", "category"} =>
          writer = w /\ plan.next # "needs_review"
    /\ Named(db) /\ Named(tx)
    /\ <<db.state, db.bucket>> \in AllowedPairs

\* What a To Do step that is neither skipped, failed nor refused leaves.
Turned(rows, ptr) ==
    \/ /\ rows = tx.rows /\ ptr = tx.ptr
       /\ plan.task # "create"
       /\ plan.task \in {"soft_complete", "hard_complete"} => Active(tx) = {}
    \/ /\ plan.task \in {"create", "reopen", "move_list"}
       /\ ptr \in TaskIds /\ rows[ptr] = "active" /\ Alone(rows)
    \/ /\ plan.task \in {"soft_complete", "hard_complete"}
       /\ \E t \in Active(tx), status \in {"soft", "hard"} :
             /\ rows = [tx.rows EXCEPT ![t] = status]
             /\ ptr = IF status = "hard" THEN Nil ELSE tx.ptr

Outcome(w) ==
    \/ Failed
    \/ Refused(w)
    \/ \E rows, n, ptr : Wrote(rows, n, ptr) /\ Turned(rows, ptr)

LEMMA SoloPoints ==
  ASSUME TypeOK, NEW w \in Workers, Solo(w), writer = w, stage = "task"
  PROVE  /\ \A t : Pointing(t, w) = t
         /\ PointerAfter("soft", w) = tx.ptr
         /\ PointerAfter("hard", w) = Nil
  BY DEF Solo, Current, Pointing, PointerAfter, Column

\* One row is active after it was stored.
LEMMA StoredTurned ==
  ASSUME TypeOK, NEW w, NEW rows, NEW n, NEW t \in TaskIds,
         plan.task \in {"create", "reopen", "move_list"},
         rows[t] = "active", Stored(w, rows, n, t)
  PROVE  Outcome(w)
  BY DEF Stored, Outcome, Turned

LEMMA SoloTaskStep ==
  ASSUME TypeOK, NEW w \in Workers, Solo(w), writer = w, stage = "task",
         TaskStep(w)
  PROVE  \/ TaskSkipped(w)
         \/ Outcome(w) /\ plan.task # "noop" /\ plan.tkey \notin tx.keys
<1>1. Core /\ tx.rows \in [TaskIds -> RowStatus]
  BY Halves DEF TypeOK, Store
<1>2. /\ \A t : Pointing(t, w) = t
      /\ PointerAfter("soft", w) = tx.ptr
      /\ PointerAfter("hard", w) = Nil
  BY SoloPoints
<1>3. TaskSkipped(w) \/ (plan.task # "noop" /\ plan.tkey \notin tx.keys)
  BY DEF TaskStep, TaskNothing, TaskCreate, TaskCreateTwice, TaskUpdate,
         TaskMoveUncreated, TaskMoveUnclosed, TaskMove,
         TaskMoveTwice, MoveTurn, TaskComplete,
         TaskReopen, Performs
<1>4. \A t \in TaskIds : [tx.rows EXCEPT ![t] = "active"][t] = "active"
  BY <1>1
<1>5. CASE TaskNothing(w)
  <2>1. Wrote(tx.rows, tx.newest, tx.ptr)
    BY <1>1, <1>5, NothingEffect DEF NothingDone
  <2>2. Turned(tx.rows, tx.ptr)
    BY <1>5 DEF TaskNothing, Performs, Turned
  <2>3. QED
    BY <1>3, <2>1, <2>2 DEF Outcome
<1>6. CASE TaskCreate(w)
  <2>1. plan.task = "create"
    BY <1>6 DEF TaskCreate, Performs
  <2>2. PICK t \in TaskIds : Failed \/ \E n :
          Stored(w, [tx.rows EXCEPT ![t] = "active"], n, Pointing(t, w))
    BY <1>1, <1>6, CreateEffect, FreshType DEF CreateDone
  <2>3. Outcome(w)
    BY <1>2, <1>4, <2>1, <2>2, StoredTurned DEF Outcome
  <2>4. QED
    BY <1>3, <2>3
<1>7. CASE TaskCreateTwice(w)
  <2>1. plan.task = "create"
    BY <1>7 DEF TaskCreateTwice, Performs
  <2>2. PICK u \in TaskIds : \E n :
          Stored(w, [tx.rows EXCEPT ![u] = "active"], n, Pointing(u, w))
    BY <1>1, <1>7, TwiceEffect DEF TwiceDone
  <2>3. Outcome(w)
    BY <1>2, <1>4, <2>1, <2>2, StoredTurned
  <2>4. QED
    BY <1>3, <2>3
<1>8. CASE TaskUpdate(w)
  <2>1. plan.task = "update_fields"
    BY <1>8 DEF TaskUpdate, Performs
  <2>2. Failed \/ \E n : Wrote(tx.rows, n, tx.ptr)
    BY <1>1, <1>8, UpdateEffect DEF UpdateDone
  <2>3. Turned(tx.rows, tx.ptr)
    BY <2>1 DEF Turned
  <2>4. QED
    BY <1>3, <2>2, <2>3 DEF Outcome
<1>9. CASE TaskMoveUncreated(w) \/ TaskMoveUnclosed(w)
  BY <1>1, <1>3, <1>9, MoveUndoneEffect DEF MoveUndone, Outcome
<1>10. CASE TaskMove(w) \/ TaskMoveTwice(w)
  <2>1. plan.task = "move_list"
    BY <1>10 DEF TaskMove, TaskMoveTwice, MoveTurn, Performs
  <2>2. PICK t \in TaskIds : \E n : Stored(w, MovedRows(t), n, Pointing(t, w))
    BY <1>1, <1>10, MoveEffect, MoveTwiceEffect, FreshType
       DEF MoveDone, MoveTwiceDone
  <2>3. MovedRows(t)[t] = "active"
    BY DEF MovedRows
  <2>4. Outcome(w)
    BY <1>2, <2>1, <2>2, <2>3, StoredTurned
  <2>5. QED
    BY <1>3, <2>4
<1>11. ASSUME NEW status \in {"soft", "hard"}, NEW kind, kind \in
                 {"soft_complete", "hard_complete"},
              TaskComplete(w, kind, status)
       PROVE  Outcome(w)
  <2>1. plan.task \in {"soft_complete", "hard_complete"}
    BY <1>11 DEF TaskComplete, Performs
  <2>2. PICK t \in Active(tx) : Failed \/ \E n :
          Wrote([tx.rows EXCEPT ![t] = status], n, PointerAfter(status, w))
    BY <1>1, <1>11, CompleteEffect DEF CompleteDone
  <2>3. PointerAfter(status, w) = IF status = "hard" THEN Nil ELSE tx.ptr
    BY <1>2
  <2>4. Turned([tx.rows EXCEPT ![t] = status], PointerAfter(status, w))
    BY <2>1, <2>3 DEF Turned
  <2>5. QED
    BY <2>2, <2>4 DEF Outcome
<1>12. CASE TaskReopen(w)
  <2>1. plan.task = "reopen"
    BY <1>12 DEF TaskReopen, Performs
  <2>2. tx.newest \in TaskIds
    BY <1>1, <1>12 DEF TaskReopen, Core, Store
  <2>3. Failed \/ \E n :
          Stored(w, [tx.rows EXCEPT ![tx.newest] = "active"], n,
                 Pointing(tx.newest, w))
    BY <1>1, <1>12, ReopenEffect DEF ReopenDone
  <2>4. Outcome(w)
    BY <1>2, <1>4, <2>1, <2>2, <2>3, StoredTurned DEF Outcome
  <2>5. QED
    BY <1>3, <2>4
<1>13. QED
  BY <1>3, <1>5, <1>6, <1>7, <1>8, <1>9, <1>10, <1>11, <1>12 DEF TaskStep

\* A row store that is named stays named when only its other columns change.
LEMMA SameNamed ==
  ASSUME NEW d, NEW e, Named(d), e.rows = d.rows, e.ptr = d.ptr
  PROVE  Named(e)
  BY DEF Named, Active

LEMMA TurnedNamed ==
  ASSUME NEW rows \in [TaskIds -> RowStatus], NEW ptr, Named(tx),
         tx.rows \in [TaskIds -> RowStatus], Turned(rows, ptr),
         NEW e, e.rows = rows, e.ptr = ptr
  PROVE  Named(e)
<1>1. CASE rows = tx.rows /\ ptr = tx.ptr
  BY <1>1, SameNamed
<1>2. CASE ptr \in TaskIds /\ rows[ptr] = "active" /\ Alone(rows)
  BY <1>2 DEF Named, Active, Alone
<1>3. ASSUME NEW t \in Active(tx), NEW status \in {"soft", "hard"},
             rows = [tx.rows EXCEPT ![t] = status],
             ptr = IF status = "hard" THEN Nil ELSE tx.ptr
      PROVE  Named(e)
  <2>1. t \in TaskIds /\ tx.ptr = t /\ \A u \in Active(tx) : u = t
    BY DEF Named, Active
  <2>2. \A u \in TaskIds : rows[u] = IF u = t THEN status ELSE tx.rows[u]
    BY <1>3
  <2>3. Active(e) = {}
    BY <2>1, <2>2 DEF Active
  <2>4. ptr # Nil => rows[ptr] = "soft"
    BY <1>3, <2>1, <2>2
  <2>5. QED
    BY <2>3, <2>4 DEF Named
<1>4. QED
  BY <1>1, <1>2, <1>3 DEF Turned

LEMMA SoloInit ==
  ASSUME Init, NEW w \in Workers
  PROVE  Solo(w)
<1>1. Named(EmptyStore)
  BY DEF Named, EmptyStore, Active
<1>2. <<"none", "null">> \in AllowedPairs
  BY PairAllowed, HomeEntries, HomeStates DEF States
<1>3. EmptyStore.state = "none" /\ EmptyStore.bucket = "null"
  BY DEF EmptyStore
<1>4. writer # w
  BY PipelineAssumption DEF Init
<1>5. seen[w] = Unread /\ stage = "free" /\ db = EmptyStore /\ tx = EmptyStore
  BY DEF Init
<1>6. QED
  BY <1>1, <1>2, <1>3, <1>4, <1>5 DEF Solo

\* A run ends with these rows: nothing is left that could be stale.
LEMMA SoloRelease ==
  ASSUME NEW w \in Workers, seen \in [Workers -> Snapshots \cup {Unread}],
         Release(w), Named(db'), tx' = db',
         <<db'.state, db'.bucket>> \in AllowedPairs
  PROVE  Solo(w)'
<1>1. /\ seen'[w] = Unread /\ stage' = "free" /\ writer' # w
  BY PipelineAssumption DEF Release
<1>2. QED
  BY <1>1 DEF Solo

\* The run goes on after its To Do or label step.
LEMMA SoloGoesOn ==
  ASSUME NEW w \in Workers, Solo(w), writer = w, stage \in {"task", "category"},
         UNCHANGED <<db, writer, plan, seen>>,
         stage' \in {"category", "commit"},
         tx'.state = tx.state, tx'.bucket = tx.bucket, Named(tx')
  PROVE  Solo(w)'
<1>1. Current(seen[w])'
  BY DEF Solo, Current
<1>2. Told(seen[w], plan)'
  BY DEF Solo, Told
<1>3. Named(db)'
  BY DEF Solo, Named, Active
<1>4. QED
  BY <1>1, <1>2, <1>3 DEF Solo

LEMMA SoloTask ==
  ASSUME TypeOK, NEW w \in Workers, Solo(w), TaskStep(w)
  PROVE  Solo(w)'
<1>1. writer = w /\ stage = "task"
  BY DEF TaskStep, TaskSkipped, TaskNothing, TaskCreate, TaskCreateTwice,
         TaskUpdate, TaskMoveUncreated, TaskMoveUnclosed, TaskMove,
         TaskMoveTwice, MoveTurn,
         TaskComplete, TaskReopen, Performs, TaskTurn
<1>2. tx.rows \in [TaskIds -> RowStatus] /\ tx'.rows \in [TaskIds -> RowStatus]
  BY TaskStepType DEF TypeOK, Store
<1>3. CASE TaskSkipped(w)
  BY <1>1, <1>3, SoloGoesOn DEF TaskSkipped, Solo, Named, Active
<1>4. CASE Failed
  <2>1. Named(tx')
    BY <1>4, SameNamed DEF Failed, Solo
  <2>2. QED
    BY <1>1, <1>4, <2>1, SoloGoesOn DEF Failed
<1>5. CASE Refused(w)
  <2>1. db' = db /\ tx' = db'
    BY <1>5 DEF Refused, Rollback
  <2>2. QED
    BY <1>5, <2>1, SoloRelease DEF Refused, Rollback, Solo, TypeOK
<1>6. ASSUME NEW rows, NEW n, NEW ptr, Wrote(rows, n, ptr), Turned(rows, ptr)
      PROVE  Solo(w)'
  <2>1. Named(tx')
    BY <1>2, <1>6, TurnedNamed DEF Wrote, Solo
  <2>2. QED
    BY <1>1, <1>6, <2>1, SoloGoesOn DEF Wrote
<1>7. QED
  BY <1>1, <1>3, <1>4, <1>5, <1>6, SoloTaskStep DEF Outcome

LEMMA SoloLabel ==
  ASSUME TypeOK, NEW w \in Workers, Solo(w),
         LabelSkipped(w) \/ LabelUnchanged(w) \/ LabelPatch(w)
  PROVE  Solo(w)'
<1>1. /\ writer = w /\ stage = "category" /\ stage' = "commit"
      /\ UNCHANGED <<db, writer, plan, seen>>
  BY DEF LabelSkipped, LabelUnchanged, LabelPatch, LabelTurn
<1>2. /\ tx'.rows = tx.rows /\ tx'.ptr = tx.ptr
      /\ tx'.state = tx.state /\ tx'.bucket = tx.bucket
  BY DEF LabelSkipped, LabelUnchanged, LabelPatch, TypeOK, Store
<1>3. Named(tx')
  BY <1>2, SameNamed DEF Solo
<1>4. QED
  BY <1>1, <1>2, <1>3, SoloGoesOn

LEMMA SoloCommit ==
  ASSUME TypeOK, NEW w \in Workers, Solo(w), Commit(w)
  PROVE  Solo(w)'
<1>1. /\ db'.rows = tx.rows /\ db'.ptr = tx.ptr /\ tx' = db'
      /\ db'.state = tx.state /\ db'.bucket = tx.bucket
  BY DEF Commit, TypeOK, Store
<1>2. Named(db')
  BY <1>1, SameNamed DEF Solo
<1>3. <<db'.state, db'.bucket>> \in AllowedPairs
  BY <1>1 DEF Commit, Solo, Told
<1>4. QED
  BY <1>1, <1>2, <1>3, SoloRelease DEF Commit, TypeOK

LEMMA SoloBegin ==
  ASSUME TypeOK, Accounts, NEW w \in Workers, Solo(w), Begin(w)
  PROVE  Solo(w)'
<1> DEFINE s == seen[w]
<1>1. /\ s \in Snapshots /\ s # Unread /\ Current(s)
      /\ s.state = db.state /\ s.bucket = db.bucket
  BY DEF Begin, TypeOK, Solo, Current
<1>2. plan' = Decision(s) /\ ~plan'.raised
  BY DEF Begin, Rejected
<1>3. Told(s, plan')
  BY <1>1, <1>2, DecisionTold DEF Solo
<1>4. plan' \in Results
  BY <1>1, <1>2, DecisionSound DEF Sound
<1>5. /\ tx'.state = plan'.next /\ tx'.bucket = plan'.bucket
      /\ tx'.rows = db.rows /\ tx'.ptr = db.ptr /\ tx'.keys = db.keys
      /\ tx'.failures = db.failures
  BY <1>1, <1>4 DEF Begin, StateWritten, Column, TypeOK, Store
<1>6. Named(tx')
  BY <1>5, SameNamed DEF Solo
<1>7. UNCHANGED <<db, seen>> /\ writer' = w
  BY DEF Begin
<1>8. stage' \in {"task", "category"} => plan'.next # "needs_review"
  BY DEF Begin
<1>9. Current(seen[w])' /\ Told(seen[w], plan)' /\ seen'[w] # Unread
  BY <1>1, <1>3, <1>7 DEF Current, Told
<1>10. Named(db)'
  BY <1>7 DEF Solo, Named, Active
<1>11. QED
  BY <1>5, <1>6, <1>7, <1>8, <1>9, <1>10 DEF Solo

LEMMA SoloElsewhere ==
  ASSUME TypeOK, Accounts, NEW w \in Workers, Solo(w),
         ReviewClear \/ Deliver \/ Age
  PROVE  Solo(w)'
<1>1. /\ writer = Nobody /\ tx' = db' /\ UNCHANGED <<writer, stage, plan, seen>>
  BY DEF ReviewClear, Deliver, Age, Elsewhere
<1>2. /\ db'.rows = db.rows /\ db'.ptr = db.ptr
      /\ db'.state = db.state /\ db'.bucket = db.bucket
  BY DEF ReviewClear, Deliver, Age, Elsewhere, TypeOK, Store
<1>3. Named(db')
  BY <1>2, SameNamed DEF Solo
<1>4. writer # w
  BY <1>1, PipelineAssumption
<1>5. seen'[w] # Unread => Current(seen[w])'
  BY <1>1, <1>2 DEF Current, Solo
<1>6. stage' \notin {"task", "category"}
  BY <1>1, <1>4 DEF Solo
<1>7. QED
  BY <1>1, <1>2, <1>3, <1>4, <1>5, <1>6 DEF Solo

\* Begin, Reject and the end of a run apart, nothing happens to the rows.
LEMMA SoloRead ==
  ASSUME TypeOK, NEW w \in Workers, Solo(w), Read(w)
  PROVE  Solo(w)'
<1>1. UNCHANGED <<db, tx, writer, stage, plan>>
  BY DEF Read
<1>2. seen[w] = Unread /\ writer # w
  BY DEF Read, Solo
<1>3. PICK evidence \in Signals : seen'[w] = Snapshot(evidence)
  BY DEF Read, TypeOK
<1>4. Current(seen[w])'
  BY <1>1, <1>3 DEF Current, Snapshot
<1>5. Named(db)' /\ Named(tx)'
  BY <1>1 DEF Solo, Named, Active
<1>6. QED
  BY <1>1, <1>2, <1>4, <1>5 DEF Solo

LEMMA SoloReject ==
  ASSUME TypeOK, NEW w \in Workers, Solo(w), Reject(w)
  PROVE  Solo(w)'
<1>1. db' = db /\ tx' = db' /\ Release(w)
  BY DEF Reject, Rollback
<1>2. Named(db)' /\ <<db'.state, db'.bucket>> \in AllowedPairs
  BY <1>1 DEF Solo, Named, Active
<1>3. QED
  BY <1>1, <1>2, SoloRelease DEF TypeOK

LEMMA SoloCrash ==
  ASSUME NEW w \in Workers, Solo(w), Crash
  PROVE  Solo(w)'
<1>1. /\ db' = db /\ tx' = db /\ seen'[w] = Unread /\ writer' # w
      /\ stage' = "free"
  BY PipelineAssumption DEF Crash
<1>2. Named(db)' /\ Named(tx)'
  BY <1>1 DEF Solo, Named, Active
<1>3. QED
  BY <1>1, <1>2 DEF Solo

LEMMA SoloNext ==
  ASSUME NEW w, Workers = {w}, TypeOK, Accounts, Solo(w), [Next]_vars
  PROVE  Solo(w)'
<1>1. CASE UNCHANGED vars
  BY <1>1 DEF vars, Solo, Current, Told, Named, Active
<1>2. ~LockTimeout(w)
  BY DEF LockTimeout, TypeOK
<1>3. CASE WriteBack(w)
  BY <1>3, SoloTask, SoloLabel, SoloCommit DEF WriteBack
<1>4. QED
  BY <1>1, <1>2, <1>3, SoloRead, SoloBegin, SoloReject, SoloCrash,
     SoloElsewhere DEF Next

\* Everything known of a single worker.
Lone(w) == TypeOK /\ Accounts /\ Solo(w)

LEMMA SoloAlways ==
  ASSUME NEW w, Workers = {w}
  PROVE  Spec => []Lone(w)
<1>1. Init => Lone(w)
  BY InitType, InitAccounts, SoloInit DEF Lone
<1>2. Lone(w) /\ [Next]_vars => Lone(w)'
  BY NextType, NextAccounts, SoloNext DEF Lone
<1>3. QED
  BY <1>1, <1>2, PTL DEF Spec

\* I2 for a single worker, whatever fails, whatever is lost and wherever it
\* dies: the conversation's pointer names its active row.
THEOREM ActiveRowsAreNamed ==
  ASSUME NEW w, Workers = {w}
  PROVE  Spec => []ActiveRowIsNamed
<1>1. Lone(w) => ActiveRowIsNamed
  BY DEF Lone, Solo, Named, ActiveRowIsNamed
<1>2. QED
  BY <1>1, SoloAlways, PTL

\* A single worker never leaves a pointer at a row that was hard-completed.
THEOREM PointersStayLive ==
  ASSUME NEW w, Workers = {w}
  PROVE  Spec => []PointerIsLive
<1>1. Lone(w) => PointerIsLive
  BY DEF Lone, Solo, Named, PointerIsLive
<1>2. QED
  BY <1>1, SoloAlways, PTL

-----------------------------------------------------------------------------
(* The action properties of a single worker.                                 *)

\* Graph is only written by a run at its To Do or label step.
LEMMA GraphWriter ==
  ASSUME TypeOK, [Next]_vars, gtask' # gtask \/ WritebackStep
  PROVE  stage \in {"task", "category"}
<1>1. ASSUME NEW w \in Workers, TaskStep(w)
      PROVE  stage = "task"
  BY <1>1 DEF TaskStep, TaskSkipped, TaskNothing, TaskCreate, TaskCreateTwice,
         TaskUpdate, TaskMoveUncreated, TaskMoveUnclosed, TaskMove,
         TaskMoveTwice, MoveTurn,
         TaskComplete, TaskReopen, Performs, TaskTurn
<1>2. ASSUME NEW w \in Workers,
             LabelSkipped(w) \/ LabelUnchanged(w) \/ LabelPatch(w)
      PROVE  stage = "category"
  BY <1>2 DEF LabelSkipped, LabelUnchanged, LabelPatch, LabelTurn
<1>3. CASE \E w \in Workers : \/ Read(w) \/ Begin(w) \/ Reject(w)
                              \/ LockTimeout(w) \/ Commit(w)
  BY <1>3 DEF Read, Begin, Reject, LockTimeout, Commit, external, WritebackStep
<1>4. CASE UNCHANGED vars \/ Crash \/ ReviewClear \/ Age
  BY <1>4 DEF vars, Crash, ReviewClear, Age, Elsewhere, external, WritebackStep
<1>5. CASE Deliver
  BY <1>5 DEF Deliver, Elsewhere, TypeOK, WritebackStep
<1>6. QED
  BY <1>1, <1>2, <1>3, <1>4, <1>5 DEF Next, WriteBack

\* I7 for a single worker: while the committed conversation is under review,
\* no task and no label is written.
THEOREM ReviewsFreeze ==
  ASSUME NEW w, Workers = {w}
  PROVE  Spec => ReviewFreezes
<1>1. ASSUME Lone(w), stage \in {"task", "category"}
      PROVE  db.state # "needs_review"
  BY <1>1 DEF Lone, Solo, Told, Current
<1>2. Lone(w) /\ [Next]_vars =>
         [gtask' # gtask \/ WritebackStep => db.state # "needs_review"]_vars
  BY <1>1, GraphWriter DEF Lone
<1>3. QED
  BY <1>2, SoloAlways, PTL DEF Spec, ReviewFreezes

\* Only a commit changes the committed state and bucket.
LEMMA CommitsOnly ==
  ASSUME TypeOK, [Next]_vars, ~\E w \in Workers : Commit(w)
  PROVE  db'.state = db.state /\ db'.bucket = db.bucket
<1>1. CASE \E w \in Workers : TaskStep(w)
  <2>1. PICK w \in Workers : TaskStep(w)
    BY <1>1
  <2>2. db' = db
    BY <2>1, TaskStepType DEF Ends, TaskSkipped, TaskFails, TaskSucceeds,
       Rollback
  <2>3. QED
    BY <2>2
<1>2. CASE \E w \in Workers : \/ Read(w) \/ Begin(w) \/ Reject(w)
                              \/ LockTimeout(w) \/ LabelSkipped(w)
                              \/ LabelUnchanged(w) \/ LabelPatch(w)
  BY <1>2 DEF Read, Begin, Reject, Rollback, LockTimeout, LabelSkipped,
              LabelUnchanged, LabelPatch
<1>3. CASE UNCHANGED vars \/ Crash \/ ReviewClear \/ Age \/ Deliver
  BY <1>3 DEF vars, Crash, ReviewClear, Age, Deliver, Elsewhere, TypeOK, Store
<1>4. QED
  BY <1>1, <1>2, <1>3 DEF Next, WriteBack

\* A move of reduce() is a step of the life cycle, or none.
LEMMA MovesFollow ==
  ASSUME NEW s, NEW b, s = db.state, b = db.bucket,
         Moves(s, b, db'.state, db'.bucket)
  PROVE  [Matrix!Next]_(Matrix!vars)
  BY DEF Moves, Matrix!Next, Matrix!vars, Matrix!Ask, Matrix!Await,
         Matrix!Defer, Matrix!Resolve, Matrix!File, Matrix!Archive,
         Matrix!Raise, Matrix!Become

LEMMA CommitFollows ==
  ASSUME TypeOK, NEW w \in Workers, Solo(w), Commit(w)
  PROVE  [Matrix!Next]_(Matrix!vars)
<1>1. db'.state = tx.state /\ db'.bucket = tx.bucket
  BY DEF Commit, TypeOK, Store
<1>2. Moves(db.state, db.bucket, db'.state, db'.bucket)
  BY <1>1 DEF Commit, Solo, Told, Current
<1>3. QED
  BY <1>2, MovesFollow

\* The pipeline with a single worker implements the life cycle: with its
\* locks, failed calls, lost answers and crashes, the committed state and
\* bucket move along the transition matrix and in no other way.
THEOREM MatrixIsFollowed ==
  ASSUME NEW w, Workers = {w}
  PROVE  Spec => FollowsMatrix
<1>1. Init => Matrix!Init
  BY DEF Init, EmptyStore, Matrix!Init
<1>2. Lone(w) /\ [Next]_vars => [Matrix!Next]_(Matrix!vars)
  <2> SUFFICES ASSUME Lone(w), [Next]_vars
               PROVE  [Matrix!Next]_(Matrix!vars)
    OBVIOUS
  <2>1. CASE Commit(w)
    BY <2>1, CommitFollows DEF Lone
  <2>2. CASE ~Commit(w)
    BY <2>2, CommitsOnly DEF Lone, Matrix!vars
  <2>3. QED
    BY <2>1, <2>2
<1>3. QED
  BY <1>1, <1>2, SoloAlways, PTL DEF Spec, FollowsMatrix, Matrix!Spec

-----------------------------------------------------------------------------
(* StateMatchesTask.  It is kept because no key that a thread still needs is *)
(* used up: a thread that may yet be opened has no used create key, and one  *)
(* that may yet be closed no used completion key.                            *)

Completes == {"hard_complete", "soft_complete"}
Unused(d, kind) == \A n \in States : <<kind, n>> \notin d.keys
Idle(d) == Active(d) = {} /\ d.ptr = Nil /\ Unused(d, "create")

Matches(d) ==
    /\ d.state # "delegate_open"
    /\ d.failures = 0 =>
          /\ d.state \in Awaiting => Active(d) # {}
          /\ d.state \in {"none", "fyi_context", "noise_transient"} => Idle(d)
          /\ d.state = "done" => Active(d) = {}
          /\ d.state = "deferred" => Active(d) # {} \/ Idle(d)
          /\ d.state \notin {"done", "needs_review"} =>
                \A kind \in Completes : Unused(d, kind)

Tasked == Matches(db) /\ (stage \in {"category", "commit"} => Matches(tx))

\* What Matches looks at.
LEMMA SameMatches ==
  ASSUME NEW d, NEW e, Matches(d), e.state = d.state, e.rows = d.rows,
         e.ptr = d.ptr, e.failures = 0 => d.failures = 0,
         \A kind \in Completes \cup {"create"}, n \in States :
            <<kind, n>> \in e.keys => <<kind, n>> \in d.keys
  PROVE  Matches(e)
  BY DEF Matches, Idle, Unused, Active

\* What performing an intent does to the active rows.
After(d, e, kind) ==
    /\ kind = "create" => Active(e) # {}
    /\ kind \in {"reopen", "move_list"} /\ Active(d) # {} => Active(e) # {}
    /\ kind = "update_fields" => e.rows = d.rows /\ e.ptr = d.ptr
    /\ kind \in Completes => Active(e) = {}

\* An intent whose key was used changes no row ...
LEMMA KeptMatches ==
  ASSUME NEW d, NEW e, Matches(d), Named(d), d.failures = 0,
         NEW kind, e.state \in States \ {"needs_review"},
         Answer(d.state, d.ptr # Nil, e.state, kind),
         kind = "noop" \/ TaskKey(kind, e.state) \in d.keys,
         e.rows = d.rows, e.ptr = d.ptr, e.keys = d.keys
  PROVE  Matches(e)
<1>1. Active(e) = Active(d) /\ (Idle(d) <=> Idle(e))
  BY DEF Active, Idle, Unused
<1>2. \A k : Unused(e, k) <=> Unused(d, k)
  BY DEF Unused
<1>3. d.ptr = Nil => Active(d) = {}
  BY DEF Named, Active, Nil, TaskIds
<1>4. /\ kind = "create" => ~Unused(d, "create")
      /\ kind \in Completes => ~Unused(d, kind)
  BY DEF TaskKey, Unused, Completes
<1>5. QED
  BY <1>1, <1>2, <1>3, <1>4 DEF Answer, Matches, Awaiting, Completes, Idle

\* ... and one whose key is new leaves the rows the next state asks for.
LEMMA DoneMatches ==
  ASSUME NEW d, NEW e, Matches(d), Named(d), d.failures = 0,
         NEW kind, e.state \in States \ {"needs_review"},
         Answer(d.state, d.ptr # Nil, e.state, kind), kind # "noop",
         e.keys = d.keys \cup {TaskKey(kind, e.state)}, After(d, e, kind)
  PROVE  Matches(e)
<1>1. \A k, n : <<k, n>> \in e.keys => <<k, n>> \in d.keys \/ k = kind
  BY DEF TaskKey
<1>2. \A k : k # kind /\ Unused(d, k) => Unused(e, k)
  BY <1>1 DEF Unused
<1>3. d.ptr = Nil => Active(d) = {}
  BY DEF Named, Active, Nil, TaskIds
<1>4. kind = "update_fields" => Active(e) = Active(d) /\ (Idle(d) => Idle(e))
  BY <1>2 DEF After, Active, Idle
<1>5. QED
  BY <1>2, <1>3, <1>4 DEF Answer, Matches, Awaiting, Completes, Idle, After

LEMMA TurnedAfter ==
  ASSUME TypeOK, Named(tx), Turned(tx'.rows, tx'.ptr),
         NEW d, d.rows = tx.rows, d.ptr = tx.ptr
  PROVE  After(d, tx', plan.task)
<1>1. Active(d) = Active(tx)
  BY DEF Active
<1>2. CASE /\ tx'.rows = tx.rows /\ tx'.ptr = tx.ptr /\ plan.task # "create"
           /\ plan.task \in Completes => Active(tx) = {}
  BY <1>1, <1>2 DEF After, Active
<1>3. CASE /\ plan.task \in {"create", "reopen", "move_list"}
           /\ tx'.ptr \in TaskIds /\ tx'.rows[tx'.ptr] = "active"
  BY <1>3 DEF After, Active, Completes
<1>4. ASSUME plan.task \in Completes,
             NEW t \in Active(tx), NEW status \in {"soft", "hard"},
             tx'.rows = [tx.rows EXCEPT ![t] = status]
      PROVE  After(d, tx', plan.task)
  <2>1. \A u \in TaskIds : tx.rows[u] = "active" => u = t
    BY DEF Named, Active
  <2>2. tx.rows \in [TaskIds -> RowStatus]
    BY DEF TypeOK, Store
  <2>3. \A u \in TaskIds : tx'.rows[u] # "active"
    BY <1>4, <2>1, <2>2
  <2>4. Active(tx') = {}
    BY <2>3 DEF Active
  <2>5. QED
    BY <1>4, <2>4 DEF After, Completes
<1>5. QED
  BY <1>2, <1>3, <1>4 DEF Turned, Completes

LEMMA TaskTasked ==
  ASSUME TypeOK, Accounts, NEW w \in Workers, Solo(w), Tasked, TaskStep(w)
  PROVE  Tasked'
<1>1. writer = w /\ stage = "task"
  BY DEF TaskStep, TaskSkipped, TaskNothing, TaskCreate, TaskCreateTwice,
         TaskUpdate, TaskMoveUncreated, TaskMoveUnclosed, TaskMove,
         TaskMoveTwice, MoveTurn,
         TaskComplete, TaskReopen, Performs, TaskTurn
<1>2. /\ tx.rows = db.rows /\ tx.ptr = db.ptr /\ tx.keys = db.keys
      /\ tx.failures = db.failures /\ tx.state = plan.next
  BY <1>1 DEF Solo, Accounts
<1>3. /\ Current(seen[w]) /\ Told(seen[w], plan)
      /\ plan.next \in States \ {"needs_review"}
  BY <1>1 DEF Solo, TypeOK, Results
<1>4. /\ Named(db) /\ Named(tx) /\ Matches(db)
      /\ plan.tkey = TaskKey(plan.task, plan.next)
  BY <1>3 DEF Solo, Tasked, Told
<1>5. Answer(db.state, db.ptr # Nil, plan.next, plan.task)
  <2>1. seen[w].status # "hard"
    BY <1>3, <1>4 DEF Current, Named
  <2>2. QED
    BY <1>3, <1>4, <2>1 DEF Told, Current, Matches
<1>6. plan.next # "delegate_open"
  BY <1>3, <1>4 DEF Told, Current, Moves, Matches
<1>7. db.failures \in Nat
  BY DEF TypeOK, Store
<1>8. CASE TaskSkipped(w)
  <2>1. db' = db /\ tx' = tx /\ (plan.task = "noop" \/ plan.tkey \in db.keys)
    BY <1>2, <1>8 DEF TaskSkipped
  <2>2. CASE db.failures = 0
    <3>1. Matches(tx)
      BY <1>2, <1>3, <1>4, <1>5, <2>1, <2>2, KeptMatches
    <3>2. QED
      BY <1>4, <2>1, <3>1 DEF Tasked
  <2>3. CASE db.failures # 0
    <3>1. Matches(tx)
      BY <1>2, <1>6, <2>3 DEF Matches
    <3>2. QED
      BY <1>4, <2>1, <3>1 DEF Tasked
  <2>4. QED
    BY <2>2, <2>3
<1>9. CASE Failed
  <2>1. db' = db /\ tx'.failures # 0 /\ tx'.state = plan.next
    BY <1>2, <1>7, <1>9 DEF Failed
  <2>2. Matches(tx')
    BY <1>6, <2>1 DEF Matches
  <2>3. QED
    BY <1>4, <2>1, <2>2 DEF Tasked
<1>10. CASE Refused(w)
  <2>1. db' = db /\ tx' = db
    BY <1>10 DEF Refused, Rollback
  <2>2. QED
    BY <1>4, <2>1 DEF Tasked
<1>11. ASSUME NEW rows, NEW n, NEW ptr, Wrote(rows, n, ptr), Turned(rows, ptr),
              plan.task # "noop"
       PROVE  Tasked'
  <2>1. /\ db' = db /\ tx'.state = plan.next /\ tx'.failures = db.failures
        /\ tx'.keys = db.keys \cup {TaskKey(plan.task, plan.next)}
        /\ Turned(tx'.rows, tx'.ptr)
    BY <1>2, <1>4, <1>11 DEF Wrote
  <2>2. CASE db.failures = 0
    <3>1. After(db, tx', plan.task)
      BY <1>2, <1>4, <2>1, TurnedAfter
    <3>2. Matches(tx')
      BY <1>3, <1>4, <1>5, <1>11, <2>1, <2>2, <3>1, DoneMatches
    <3>3. QED
      BY <1>4, <2>1, <3>2 DEF Tasked
  <2>3. CASE db.failures # 0
    <3>1. Matches(tx')
      BY <1>6, <2>1, <2>3 DEF Matches
    <3>2. QED
      BY <1>4, <2>1, <3>1 DEF Tasked
  <2>4. QED
    BY <2>2, <2>3
<1>12. QED
  BY <1>1, <1>8, <1>9, <1>10, <1>11, SoloTaskStep DEF Outcome

\* The label's keys are none of the To Do keys.
LEMMA LabelTasked ==
  ASSUME TypeOK, NEW w \in Workers, Tasked,
         LabelSkipped(w) \/ LabelUnchanged(w) \/ LabelPatch(w)
  PROVE  Tasked'
<1>1. stage = "category" /\ db' = db
  BY DEF LabelSkipped, LabelUnchanged, LabelPatch, LabelTurn
<1>2. /\ tx'.rows = tx.rows /\ tx'.ptr = tx.ptr /\ tx'.state = tx.state
      /\ tx'.failures = 0 => tx.failures = 0
      /\ tx'.keys = tx.keys \/ tx'.keys = tx.keys \cup LabelKey
  <2>1. tx.failures \in Nat
    BY DEF TypeOK, Store
  <2>2. \A n \in Nat : n + 1 # 0
    OBVIOUS
  <2>3. QED
    BY <2>1, <2>2 DEF LabelSkipped, LabelUnchanged, LabelPatch, TypeOK, Store
<1>3. \A k \in LabelKey : k \in CategoryKeys
  BY DEF LabelKey, TypeOK, Results
<1>4. \A kind \in Completes \cup {"create"}, n \in States :
         <<kind, n>> \notin LabelKey
  BY <1>3 DEF CategoryKeys, Completes
<1>5. \A kind \in Completes \cup {"create"}, n \in States :
         <<kind, n>> \in tx'.keys => <<kind, n>> \in tx.keys
  BY <1>2, <1>4
<1>6. Matches(tx')
  BY <1>1, <1>2, <1>5, SameMatches DEF Tasked
<1>7. QED
  BY <1>1, <1>6 DEF Tasked

LEMMA CommitTasked ==
  ASSUME TypeOK, NEW w \in Workers, Tasked, Commit(w)
  PROVE  Tasked'
<1>1. /\ db'.rows = tx.rows /\ db'.ptr = tx.ptr /\ db'.state = tx.state
      /\ db'.failures = tx.failures /\ db'.keys = tx.keys /\ tx' = db'
  BY DEF Commit, TypeOK, Store
<1>2. Matches(db')
  BY <1>1, SameMatches DEF Commit, Tasked
<1>3. QED
  BY <1>1, <1>2 DEF Tasked

\* A thread that goes to review needs no task.
LEMMA BeginTasked ==
  ASSUME TypeOK, Accounts, NEW w \in Workers, Solo(w), Tasked, Begin(w)
  PROVE  Tasked'
<1>1. db' = db /\ (stage' \in {"category", "commit"} =>
                      plan'.next = "needs_review")
  BY DEF Begin
<1>2. tx'.state = plan'.next
  <2>1. Solo(w)' /\ writer' = w
    BY SoloBegin DEF Begin
  <2>2. QED
    BY <2>1 DEF Solo
<1>3. plan'.next = "needs_review" => Matches(tx')
  BY <1>2 DEF Matches, Awaiting
<1>4. QED
  BY <1>1, <1>3 DEF Tasked

LEMMA ElsewhereTasked ==
  ASSUME TypeOK, Accounts, NEW w \in Workers, Solo(w), Tasked,
         ReviewClear \/ Deliver \/ Age
  PROVE  Tasked'
<1>1. /\ tx' = db' /\ db'.rows = db.rows /\ db'.ptr = db.ptr
      /\ db'.state = db.state /\ db'.failures = db.failures
      /\ db'.keys = db.keys
  BY DEF ReviewClear, Deliver, Age, Elsewhere, TypeOK, Store
<1>2. Matches(db')
  BY <1>1, SameMatches DEF Tasked
<1>3. QED
  BY <1>1, <1>2 DEF Tasked

LEMMA TaskedNext ==
  ASSUME NEW w, Workers = {w}, TypeOK, Accounts, Solo(w), Tasked, [Next]_vars
  PROVE  Tasked'
<1>1. CASE UNCHANGED vars
  BY <1>1 DEF vars, Tasked
<1>2. CASE WriteBack(w)
  BY <1>2, TaskTasked, LabelTasked, CommitTasked DEF WriteBack
<1>3. CASE Read(w) \/ LockTimeout(w)
  BY <1>3 DEF Read, LockTimeout, Tasked
<1>4. CASE Reject(w) \/ Crash
  <2>1. db' = db /\ tx' = db
    BY <1>4 DEF Reject, Rollback, Crash
  <2>2. QED
    BY <2>1 DEF Tasked
<1>5. QED
  BY <1>1, <1>2, <1>3, <1>4, BeginTasked, ElsewhereTasked DEF Next

\* For a single worker, as long as no writeback has failed: a thread that
\* waits for somebody has an active task, a thread that is closed or filed has
\* none.  Skipping used keys, crashing and starting over never lose a task.
THEOREM StatesMatchTasks ==
  ASSUME NEW w, Workers = {w}
  PROVE  Spec => []StateMatchesTask
<1>1. Init => Matches(EmptyStore)
  BY DEF Matches, EmptyStore, Idle, Unused, Active, Awaiting
<1>2. Init => Tasked
  BY <1>1 DEF Init, Tasked
<1>3. Tasked /\ Lone(w) /\ [Next]_vars => Tasked'
  BY TaskedNext DEF Lone
<1>4. Tasked => StateMatchesTask
  BY DEF Tasked, Matches, StateMatchesTask, Idle, Awaiting
<1>5. QED
  BY <1>2, <1>3, <1>4, SoloAlways, PTL DEF Spec
=============================================================================
