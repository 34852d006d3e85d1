------------------------------ MODULE Pipeline ------------------------------
(***************************************************************************)
(* One conversation, the workers that classify, reduce and write it back   *)
(* (pipeline.py, writeback/*.py), the SQLite row set they share, and what  *)
(* they leave behind in Microsoft To Do and Outlook.                       *)
(*                                                                         *)
(* A run of a worker is                                                    *)
(*   Read        load the conversation and its snapshot, classify (no lock *)
(*               is held, and the loaded object is never refreshed)        *)
(*   Begin       the first INSERT takes SQLite's write lock; reduce() and  *)
(*               the state columns follow                                  *)
(*   To Do step  one action per intent kind and outcome of the Graph call  *)
(*   label step  the Outlook category of the latest message                *)
(*   Commit      the failure threshold, then COMMIT releases the lock      *)
(* and an exception nobody handles, or a crash, rolls the database back    *)
(* but not what Graph has already done.                                    *)
(***************************************************************************)
EXTENDS Reducer, FiniteSets

CONSTANTS
    Workers,         \* the processes that run the pipeline
    Signals,         \* the evidence sets a snapshot may show
    MaxTasks,        \* bound: To Do tasks ever created
    MaxRuns,         \* bound: runs started
    MaxMessages,     \* bound: messages delivered after the first
    MaxFaults,       \* bound: failed or unanswered Graph calls, and crashes
    FailThreshold,   \* DEAD_LETTER_THRESHOLD
    Nobody           \* who holds the write lock when it is free

ASSUME PipelineAssumption ==
    /\ Nobody \notin Workers
    /\ Signals \subseteq SUBSET Evidence
    /\ MaxTasks \in Nat /\ MaxRuns \in Nat /\ MaxMessages \in Nat
    /\ MaxFaults \in Nat /\ FailThreshold \in Nat

TaskIds == 1..MaxTasks
Nil == 0
RowStatus == {"absent", "active", "soft", "hard"}
Absent == [status |-> "absent", list |-> "null"]
Keys == TaskKeys \cup CategoryKeys

VARIABLES
    db,        \* the committed rows of this conversation
    tx,        \* the rows as the lock holder sees them (db when none)
    writer,    \* the holder of SQLite's write lock, or Nobody
    stage,     \* what the lock holder does next
    plan,      \* the reducer result the lock holder is writing back
    seen,      \* what each worker loaded before it asked for the lock
    gtask,     \* Microsoft To Do: the tasks linked to this conversation
    label,     \* Outlook: the AI category on the latest message
    faults, runs, messages,  \* what the bounds count
    refused    \* Graph calls whose rows the unique index then refused
vars == <<db, tx, writer, stage, plan, seen, gtask, label,
          faults, runs, messages, refused>>
external == <<gtask, label>>
counters == <<faults, runs, messages, refused>>

(* A database snapshot of the conversation: its columns (review stands for *)
(* a non-null state_review_reason), its todo_tasks rows, which of them has *)
(* the latest updated_at, its operation_keys (finished: the ones that have *)
(* a result), its failure events (recent: those of the last 24 hours), and *)
(* the AI category recorded for the latest message.                        *)
Store == [state : States, bucket : BucketOrNull, ptr : TaskIds \cup {Nil},
          review : BOOLEAN, rows : [TaskIds -> RowStatus],
          newest : TaskIds \cup {Nil},
          keys : SUBSET (Keys \cup {NoKey}),
          finished : SUBSET (Keys \cup {NoKey}),
          failures : Nat, recent : Nat, cat : BucketOrNull]

Snapshots == [state : States, bucket : BucketOrNull,
              ptr : TaskIds \cup {Nil}, status : RowStatus,
              review : BOOLEAN, evidence : Signals,
              cat : BucketOrNull, mail : Nat]
Unread == [state |-> "unread"]

EmptyStore ==
    [state |-> "none", bucket |-> "null", ptr |-> Nil, review |-> FALSE,
     rows |-> [t \in TaskIds |-> "absent"], newest |-> Nil, keys |-> {},
     finished |-> {}, failures |-> 0, recent |-> 0, cat |-> "null"]

NoPlan ==
    [next |-> "none", bucket |-> "null", task |-> "noop", target |-> "null",
     tkey |-> NoKey, category |-> "noop", label |-> "null", ckey |-> NoKey,
     row |-> 0, winning |-> NoEvidence, raised |-> FALSE]

Init ==
    /\ db = EmptyStore /\ tx = EmptyStore
    /\ writer = Nobody /\ stage = "free" /\ plan = NoPlan
    /\ seen = [w \in Workers |-> Unread]
    /\ gtask = [t \in TaskIds |-> Absent] /\ label = "null"
    /\ faults = 0 /\ runs = 0 /\ messages = 0 /\ refused = 0

-----------------------------------------------------------------------------
(* SQLAlchemy emits an UPDATE only for a column whose new value differs    *)
(* from the value this session loaded.  That matters for the conversation, *)
(* which the run holds on to; a task row is loaded again by the step that  *)
(* writes it (the identity map only refers to it weakly).                  *)
Column(new, loaded, current) == IF new # loaded THEN new ELSE current

Active(d) == {t \in TaskIds : d.rows[t] = "active"}

\* The id Graph gives the next task.
Fresh == {t \in TaskIds : /\ gtask[t] = Absent
                          /\ \A u \in TaskIds : gtask[u] = Absent => t <= u}

\* The CHECK constraint on (open_action_state, open_action_bucket).  A null
\* bucket makes no comparison false, and so passes.
Storable(d) ==
    \/ d.bucket = "null"
    \/ <<d.state, d.bucket>> \in AllowedPairs
    \/ d.state = "deferred" /\ d.bucket \in {"Act", "Respond", "Delegate",
                                             "WaitingOn"}

\* What a run loads: the conversation, the row its pointer names, and the
\* latest message (mail counts the messages there were).
Snapshot(evidence) ==
    [state |-> db.state, bucket |-> db.bucket, ptr |-> db.ptr,
     status |-> IF db.ptr = Nil THEN "absent" ELSE db.rows[db.ptr],
     review |-> db.review, evidence |-> evidence,
     cat |-> db.cat, mail |-> messages]

\* Mutant: a thread whose review was cleared is reduced from scratch.
ReducerInputRestarted(s) ==
    LET cleared == s.state = "needs_review" /\ ~s.review
    IN  [state |-> IF cleared THEN "none" ELSE s.state,
         bucket |-> IF cleared THEN "null" ELSE s.bucket,
         task |-> s.ptr # Nil, completion |-> "none",
         detected |-> s.evidence, injected |-> {}, override |-> NoOverride,
         hints |-> {}]

\* What reduce() is given.  A soft window comes back from SQLite naive.
ReducerInput(s) ==
    [state |-> s.state, bucket |-> s.bucket, task |-> s.ptr # Nil,
     completion |-> CASE s.status = "soft" -> "soft_naive"
                      [] s.status = "hard" -> "hard"
                      [] OTHER -> "none",
     detected |-> s.evidence, injected |-> {}, override |-> NoOverride,
     hints |-> {}]

\* reduce() is pure: a function, on the inputs a run can give it.
PipelineInputs ==
    [state : States, bucket : BucketOrNull, task : BOOLEAN,
     completion : {"none", "hard", "soft_naive"}, detected : Signals,
     injected : {{}}, override : {NoOverride}, hints : {{}}]

Reduced == [input \in PipelineInputs |-> Reduce(input)]

Decision(s) == Reduced[ReducerInput(s)]

\* Mutant: the lock is kept after the run.
ReleaseForgotten(w) ==
    /\ writer' = writer /\ stage' = "free" /\ plan' = NoPlan
    /\ seen' = [seen EXCEPT ![w] = Unread]

\* The lock is free again, and the run of w is over.
Release(w) ==
    /\ writer' = Nobody /\ stage' = "free" /\ plan' = NoPlan
    /\ seen' = [seen EXCEPT ![w] = Unread]

Rollback(w) == Release(w) /\ db' = db /\ tx' = db

\* The unique index refused a row: the session is unusable, the run is lost.
Refused(w) == Rollback(w) /\ refused' = refused + 1

\* What the partial unique index on the active rows forbids.
Crowded(d) == \E t, u \in Active(d) : t # u

\* A Graph call answers, fails without an effect, or takes effect and never
\* answers.
Replies == {"ok", "failed", "lost"}

Spend(reply) ==
    /\ reply # "ok" => faults < MaxFaults
    /\ faults' = IF reply = "ok" THEN faults ELSE faults + 1

-----------------------------------------------------------------------------
Read(w) ==
    /\ seen[w] = Unread /\ runs < MaxRuns
    /\ \E evidence \in Signals :
          seen' = [seen EXCEPT ![w] = Snapshot(evidence)]
    /\ runs' = runs + 1
    /\ UNCHANGED <<db, tx, writer, stage, plan, external, faults, messages,
                   refused>>

\* The state columns as the flush before writeback leaves them.
StateWritten(s, r) ==
    [db EXCEPT !.state = Column(r.next, s.state, @),
               !.bucket = Column(r.bucket, s.bucket, @)]

\* reduce() raised, or the CHECK constraint refused the pair.
Rejected(s, r) == r.raised \/ ~Storable(StateWritten(s, r))

Begin(w) ==
    /\ writer = Nobody /\ seen[w] # Unread
    /\ plan' = Decision(seen[w])
    /\ ~Rejected(seen[w], plan')
    /\ tx' = [StateWritten(seen[w], plan') EXCEPT !.review =
                @ \/ (plan'.next = "needs_review" /\ ~seen[w].review)]
    /\ stage' = IF plan'.next = "needs_review" THEN "commit" ELSE "task"
    /\ writer' = w
    /\ UNCHANGED <<db, seen, external, counters>>

Reject(w) ==
    /\ writer = Nobody /\ seen[w] # Unread
    /\ \E r \in {Decision(seen[w])} : Rejected(seen[w], r)
    /\ Rollback(w)
    /\ UNCHANGED <<external, counters>>

\* "database is locked": the wait for the write lock is bounded.
LockTimeout(w) ==
    /\ writer \notin {Nobody, w} /\ seen[w] # Unread
    /\ seen' = [seen EXCEPT ![w] = Unread]
    /\ UNCHANGED <<db, tx, writer, stage, plan, external, counters>>

-----------------------------------------------------------------------------
(* The To Do step.                                                         *)

TaskTurn(w) == writer = w /\ stage = "task"

\* Mutant: the operation key is not looked up.
PerformsAgain(w, kind) == TaskTurn(w) /\ plan.task = kind

\* The key is new: this run performs the intent.
Performs(w, kind) ==
    TaskTurn(w) /\ plan.task = kind /\ plan.tkey \notin tx.keys

Claimed == [tx EXCEPT !.keys = @ \cup {plan.tkey}]

\* Mutant: the failure is not recorded.
TaskFailsSilently ==
    /\ tx' = Claimed
    /\ stage' = "category"
    /\ UNCHANGED <<db, writer, plan, seen, refused>>

\* record_failure: the key stays claimed, without a result.
TaskFails ==
    /\ tx' = [Claimed EXCEPT !.failures = @ + 1, !.recent = @ + 1]
    /\ stage' = "category"
    /\ UNCHANGED <<db, writer, plan, seen, refused>>

TaskSucceeds(d) ==
    /\ tx' = [d EXCEPT !.finished = @ \cup {plan.tkey}]
    /\ stage' = "category"
    /\ UNCHANGED <<db, writer, plan, seen, refused>>

\* New or reopened rows are flushed after the Graph call was made.
TaskStored(w, d) == IF Crowded(d) THEN Refused(w) ELSE TaskSucceeds(d)

\* Nothing to do, or a duplicate key: the stored result is returned.
TaskSkipped(w) ==
    /\ TaskTurn(w)
    /\ plan.task = "noop" \/ plan.tkey \in tx.keys
    /\ stage' = "category"
    /\ UNCHANGED <<db, tx, writer, plan, seen, external, counters>>

\* updated_at orders the rows for reopen.  A run stamps rows with the time its
\* batch started, so with other workers about its stamp may not be the latest.
Latest(stamped) ==
    IF Workers = {writer} \/ tx.newest = Nil THEN {stamped}
    ELSE {stamped, tx.newest}

\* The intent names no row it could act on, or the task already is in the
\* target list: an empty result, without a Graph call.
TaskNothing(w) ==
    /\ \/ /\ \E kind \in {"update_fields", "soft_complete", "hard_complete"} :
                Performs(w, kind)
          /\ Active(tx) = {}
       \/ Performs(w, "reopen") /\ tx.newest = Nil
       \/ /\ Performs(w, "move_list")
          /\ \E t \in Active(tx) : gtask[t].list = plan.target
    /\ TaskSucceeds(Claimed)
    /\ UNCHANGED <<external, faults, runs, messages>>

\* Mutant: the pointer is only set when it was null.
PointingKept(t, w) == IF tx.ptr = Nil THEN t ELSE tx.ptr

\* The conversation points at task t from now on.
Pointing(t, w) == Column(t, seen[w].ptr, tx.ptr)

\* Mutant: the list is looked up by the state instead of the bucket.
OpenedByState(t) == [status |-> "open", list |-> plan.next]

Opened(t) == [status |-> "open", list |-> plan.target]

\* When another row is active the unique index refuses the new one: the run is
\* lost, the new To Do task is not.
TaskCreate(w) ==
    /\ Performs(w, "create")
    /\ \E reply \in Replies, t \in Fresh :
          /\ Spend(reply)
          /\ gtask' = IF reply = "failed" THEN gtask
                      ELSE [gtask EXCEPT ![t] = Opened(t)]
          /\ IF reply # "ok" THEN TaskFails
             ELSE \E n \in Latest(t) :
                    TaskStored(w, [Claimed EXCEPT
                        !.rows[t] = "active", !.newest = n,
                        !.ptr = Pointing(t, w)])
    /\ UNCHANGED <<label, runs, messages>>

\* The client retried a POST whose answer was lost: two tasks, one of them
\* known.
TaskCreateTwice(w) ==
    /\ Performs(w, "create") /\ Spend("lost")
    /\ \E t \in Fresh, u, n \in TaskIds :
          /\ gtask[u] = Absent /\ u = t + 1 /\ n \in Latest(u)
          /\ gtask' = [gtask EXCEPT ![t] = Opened(t), ![u] = Opened(u)]
          /\ TaskStored(w, [Claimed EXCEPT
                 !.rows[u] = "active", !.newest = n, !.ptr = Pointing(u, w)])
    /\ UNCHANGED <<label, runs, messages>>

TaskUpdate(w) ==
    /\ Performs(w, "update_fields")
    /\ \E reply \in Replies, t \in Active(tx) :
          /\ Spend(reply)
          /\ IF reply # "ok" THEN TaskFails
             ELSE \E n \in Latest(t) : TaskSucceeds([Claimed EXCEPT !.newest = n])
    /\ UNCHANGED <<external, runs, messages>>

\* To Do cannot move a task: a new one is created in the target list, then
\* the old one is completed.  The old row is stamped with the start of the
\* batch and the new one with the database clock, in whole seconds.
MoveTurn(w) ==
    /\ Performs(w, "move_list")
    /\ \A t \in Active(tx) : gtask[t].list # plan.target

TaskMoveUncreated(w) ==
    /\ MoveTurn(w)
    /\ \E reply \in Replies \ {"ok"}, t \in Fresh :
          /\ Spend(reply)
          /\ gtask' = IF reply = "failed" THEN gtask
                      ELSE [gtask EXCEPT ![t] = Opened(t)]
    /\ TaskFails
    /\ UNCHANGED <<label, runs, messages>>

\* Mutant: the old task is left open.
MovedWithoutClosing(t) == [gtask EXCEPT ![t] = Opened(t)]

MovedTo(t) ==
    [u \in TaskIds |->
        IF u = t THEN Opened(t)
        ELSE IF u \in Active(tx) THEN [gtask[u] EXCEPT !.status = "closed"]
        ELSE gtask[u]]

MovedRows(t) ==
    [u \in TaskIds |-> IF u = t THEN "active"
                       ELSE IF u \in Active(tx) THEN "hard" ELSE tx.rows[u]]

TaskMoveUnclosed(w) ==
    /\ MoveTurn(w) /\ Active(tx) # {}
    /\ \E reply \in Replies \ {"ok"}, t \in Fresh :
          /\ Spend(reply)
          /\ gtask' = IF reply = "lost" THEN MovedTo(t)
                      ELSE [gtask EXCEPT ![t] = Opened(t)]
    /\ TaskFails
    /\ UNCHANGED <<label, runs, messages>>

TaskMove(w) ==
    /\ MoveTurn(w)
    /\ \E t \in Fresh, n \in TaskIds :
          /\ n \in Active(tx) \cup Latest(t)
          /\ gtask' = MovedTo(t)
          /\ TaskStored(w, [Claimed EXCEPT
                 !.rows = MovedRows(t), !.newest = n, !.ptr = Pointing(t, w)])
    /\ UNCHANGED <<label, faults, runs, messages>>

\* The client retried the POST of the new task.
TaskMoveTwice(w) ==
    /\ MoveTurn(w) /\ Spend("lost")
    /\ \E t \in Fresh, u, n \in TaskIds :
          /\ gtask[u] = Absent /\ u = t + 1
          /\ n \in Active(tx) \cup Latest(u)
          /\ gtask' = [MovedTo(u) EXCEPT ![t] = Opened(t)]
          /\ TaskStored(w, [Claimed EXCEPT
                 !.rows = MovedRows(u), !.newest = n, !.ptr = Pointing(u, w)])
    /\ UNCHANGED <<label, runs, messages>>

\* Mutant: it is the soft completion that clears the pointer.
PointerAfterSwapped(status, w) ==
    IF status = "soft" THEN Column(Nil, seen[w].ptr, tx.ptr) ELSE tx.ptr

\* Only a hard completion clears the conversation's pointer to the task.
PointerAfter(status, w) ==
    IF status = "hard" THEN Column(Nil, seen[w].ptr, tx.ptr) ELSE tx.ptr

TaskComplete(w, kind, status) ==
    /\ Performs(w, kind)
    /\ \E reply \in Replies, t \in Active(tx) :
          /\ Spend(reply)
          /\ gtask' = IF reply = "failed" THEN gtask
                      ELSE [gtask EXCEPT ![t].status = "closed"]
          /\ IF reply # "ok" THEN TaskFails
             ELSE \E n \in Latest(t) :
                    TaskSucceeds([Claimed EXCEPT
                        !.rows[t] = status, !.newest = n,
                        !.ptr = PointerAfter(status, w)])
    /\ UNCHANGED <<label, runs, messages>>

\* The row with the latest updated_at is reopened, whatever its status.
TaskReopen(w) ==
    /\ Performs(w, "reopen") /\ tx.newest # Nil
    /\ LET t == tx.newest
       IN  \E reply \in Replies :
             /\ Spend(reply)
             /\ gtask' = IF reply = "failed" THEN gtask
                         ELSE [gtask EXCEPT ![t].status = "open"]
             /\ IF reply # "ok" THEN TaskFails
                ELSE \E n \in Latest(t) :
                       TaskStored(w, [Claimed EXCEPT
                           !.rows[t] = "active", !.newest = n,
                           !.ptr = Pointing(t, w)])
    /\ UNCHANGED <<label, runs, messages>>

TaskStep(w) ==
    \/ TaskSkipped(w) \/ TaskNothing(w)
    \/ TaskCreate(w) \/ TaskCreateTwice(w) \/ TaskUpdate(w)
    \/ TaskMoveUncreated(w) \/ TaskMoveUnclosed(w)
    \/ TaskMove(w) \/ TaskMoveTwice(w)
    \/ TaskComplete(w, "soft_complete", "soft")
    \/ TaskComplete(w, "hard_complete", "hard")
    \/ TaskReopen(w)

-----------------------------------------------------------------------------
(* The label step, the end of a run, and the environment.                  *)

LabelTurn(w) == writer = w /\ stage = "category"

NewLabel == IF plan.category = "clear" THEN "null" ELSE plan.label

\* Intents without a key (a bare clear) claim none.
LabelKey == {plan.ckey} \ {NoKey}

\* Mutant: the operation key is not looked up.
LabelClaimedAgain == plan.category \in {"apply", "clear"}

LabelClaimed ==
    /\ LabelKey \cap tx.keys = {}
    /\ plan.category \in {"apply", "clear"}

LabelSkipped(w) ==
    /\ LabelTurn(w) /\ ~LabelClaimed
    /\ stage' = "commit"
    /\ UNCHANGED <<db, tx, writer, plan, seen, external, counters>>

\* The mirror, as it was loaded, already shows the label: no PATCH, whatever
\* Outlook shows.
LabelUnchanged(w) ==
    /\ LabelTurn(w) /\ LabelClaimed /\ NewLabel = seen[w].cat
    /\ tx' = [tx EXCEPT !.keys = @ \cup LabelKey,
                        !.finished = @ \cup LabelKey]
    /\ stage' = "commit"
    /\ UNCHANGED <<db, writer, plan, seen, external, counters>>

\* A message that came after the load is not the one that is patched.
LabelPatch(w) ==
    /\ LabelTurn(w) /\ LabelClaimed /\ NewLabel # seen[w].cat
    /\ \E reply \in Replies :
          LET latest == seen[w].mail = messages
          IN  /\ Spend(reply)
              /\ label' = IF reply # "failed" /\ latest THEN NewLabel ELSE label
              /\ tx' = IF reply = "ok"
                       THEN [tx EXCEPT !.keys = @ \cup LabelKey,
                                       !.finished = @ \cup LabelKey,
                                       !.cat = IF latest THEN NewLabel ELSE @]
                       ELSE [tx EXCEPT !.keys = @ \cup LabelKey,
                                       !.failures = @ + 1, !.recent = @ + 1]
    /\ stage' = "commit"
    /\ UNCHANGED <<db, writer, plan, seen, gtask, runs, messages, refused>>

\* Too many recent failures set the review reason (and only that column).  Its
\* text holds the count: the same text as the one loaded is not written again.
ReviewReasons(w) ==
    IF plan.next = "needs_review" \/ tx.recent < FailThreshold
    THEN {tx.review}
    ELSE IF seen[w].review THEN {TRUE, tx.review} ELSE {TRUE}

Commit(w) ==
    /\ writer = w /\ stage = "commit"
    /\ \E reason \in ReviewReasons(w) :
          db' = [tx EXCEPT !.review = reason]
    /\ tx' = db'
    /\ Release(w)
    /\ UNCHANGED <<external, counters>>

\* The process dies: every session is gone, what was committed stays.
Crash ==
    /\ \E w \in Workers : seen[w] # Unread
    /\ faults < MaxFaults /\ faults' = faults + 1
    /\ writer' = Nobody /\ stage' = "free" /\ plan' = NoPlan
    /\ seen' = [w \in Workers |-> Unread]
    /\ tx' = db
    /\ UNCHANGED <<db, external, runs, messages, refused>>

\* Between two writers anyone else may write this conversation.
Elsewhere(d) ==
    /\ writer = Nobody
    /\ db' = d /\ tx' = d
    /\ UNCHANGED <<writer, stage, plan, seen, gtask, runs, refused>>

\* The review UI (override and clear-review alike) clears the reason.
ReviewClear ==
    /\ db.review
    /\ Elsewhere([db EXCEPT !.review = FALSE])
    /\ UNCHANGED <<label, faults, messages>>

\* Delta sync stores a newer message: the label of the thread starts over.
Deliver ==
    /\ messages < MaxMessages /\ messages' = messages + 1
    /\ label' = "null"
    /\ Elsewhere([db EXCEPT !.cat = "null"])
    /\ UNCHANGED faults

\* Failures leave the 24-hour window, the oldest first.
Age ==
    /\ \E n \in 0..db.recent :
          n < db.recent /\ Elsewhere([db EXCEPT !.recent = n])
    /\ UNCHANGED <<label, faults, messages>>

\* What the lock holder does until it lets go.
WriteBack(w) ==
    TaskStep(w) \/ LabelSkipped(w) \/ LabelUnchanged(w) \/ LabelPatch(w)
        \/ Commit(w)

Next ==
    \/ \E w \in Workers : \/ Read(w) \/ Begin(w) \/ Reject(w)
                         \/ LockTimeout(w) \/ WriteBack(w)
    \/ Crash \/ ReviewClear \/ Deliver \/ Age

\* The holder of the lock waits for nothing but Graph, and every Graph call
\* ends: the HTTP client times out and retries a bounded number of times.
Fairness == \A w \in Workers : WF_vars(WriteBack(w))

Spec == Init /\ [][Next]_vars /\ Fairness

-----------------------------------------------------------------------------
(* Properties.                                                             *)

\* Every variable keeps its type (the bounds of the counters included).
TypeOK ==
    /\ db \in Store /\ tx \in Store
    /\ writer \in Workers \cup {Nobody}
    /\ stage \in {"free", "task", "category", "commit"}
    /\ plan \in Results
    /\ seen \in [Workers -> Snapshots \cup {Unread}]
    /\ gtask \in [TaskIds -> [status : {"absent", "open", "closed"},
                             list : BucketOrNull]]
    /\ label \in BucketOrNull
    /\ faults \in Nat /\ runs \in Nat /\ messages \in Nat /\ refused \in Nat

\* I2: at most one active task row, and the conversation's pointer names it.
\* (For a single worker: a run that is stale may leave an active row without a
\* pointer.)
ActiveRowIsNamed == \A t \in Active(db) : db.ptr = t

\* A pointer names a task that is active or may still be reopened, never one
\* that was hard-completed.
PointerIsLive == db.ptr # Nil => db.rows[db.ptr] \in {"active", "soft"}

\* As long as no writeback of this conversation has failed, a thread that
\* waits for somebody has a task and a thread that is closed or filed has none:
\* skipping used keys never loses a task.
StateMatchesTask ==
    db.failures = 0 =>
        /\ db.state \in {"act_open", "respond_open", "waiting_on"}
               => Active(db) # {}
        /\ db.state \in {"none", "done", "fyi_context", "noise_transient"}
               => Active(db) = {}

\* To Do tasks left open that no active row accounts for: each has a failed
\* or unanswered call, a crash or a refused row behind it.
Leaked == {t \in TaskIds : gtask[t].status = "open" /\ db.rows[t] # "active"}
LeaksAreAccounted ==
    writer = Nobody => Cardinality(Leaked) <= faults + refused

\* Dead-lettering and idempotency agree: one recorded failure for every claimed
\* key without a result, so a key is never burnt in silence.
BurntKeysAreFailures ==
    Cardinality(db.keys \ db.finished) = db.failures

\* I6: what Graph did under a committed key is never done again, however the
\* runs interleave and whatever is retried.
WritebackStep == label' # label /\ messages' = messages
CommittedKeyNeverReexecuted ==
    [][/\ gtask' # gtask => plan.tkey \notin db.keys
       /\ WritebackStep => plan.ckey \notin db.keys]_vars

\* I7: no Graph write while the committed conversation is under review.
ReviewFreezes ==
    [][gtask' # gtask \/ WritebackStep => db.state # "needs_review"]_vars

\* The committed state and bucket only ever move along the matrix.
Matrix == INSTANCE Lifecycle WITH state <- db.state, bucket <- db.bucket
FollowsMatrix == Matrix!Spec

\* Whoever takes the write lock lets go of it again, whichever call fails.
LockIsReleased == writer # Nobody ~> writer = Nobody

\* reducer-spec.md G7 and runbook.md: clearing the reason re-enables writeback
\* on the next reducer run.
ClearedReviewRuns ==
    [][\A w \in Workers :
          writer' = w /\ plan'.row \in {85, 103} => seen[w].review]_vars

\* project-plan.md I5: hard-complete is sticky, "only a new ask reopens it", so
\* a new ask on a thread whose task was hard-completed does reopen it.
HardDoneReopens ==
    [][\A w \in Workers :
          /\ writer = Nobody /\ writer' = w /\ seen[w].state = "done"
          /\ plan'.winning \in DOMAIN AskState
          /\ Active(db) = {} /\ \E t \in TaskIds : db.rows[t] = "hard"
          => plan'.next = AskState[plan'.winning]]_vars

\* project-plan.md on existing tasks: moved between task lists if the bucket
\* changes.  With no fault at all the active task is in its bucket's list.
ListFollowsBucket ==
    faults = 0 /\ db.state \in {"act_open", "respond_open", "waiting_on"} =>
        \A t \in Active(db) : gtask[t].list = db.bucket

\* project-plan.md I2: one active task per conversation, "enforced by DB unique
\* index and by operation_keys".  With no fault at all and no run under way, To
\* Do shows at most one open task.
OneOpenTask ==
    faults = 0 /\ writer = Nobody =>
        Cardinality({t \in TaskIds : gtask[t].status = "open"}) <= 1
=============================================================================
