--------------------------- MODULE Pipeline_proofs ---------------------------
(***************************************************************************)
(* Theorems about the pipeline, for any number of workers, any evidence    *)
(* and any bounds.                                                         *)
(***************************************************************************)
EXTENDS Pipeline, Reducer_proofs, FiniteSetTheorems

\* What a run gives to reduce() is an input of the reducer.
LEMMA DecisionSound ==
  ASSUME NEW s \in Snapshots
  PROVE  Sound(Decision(s)) /\ Keyed(Decision(s))
<1>1. ReducerInput(s) \in PipelineInputs
  BY DEF ReducerInput, PipelineInputs, Snapshots
<1>2. ReducerInput(s) \in Inputs
  BY <1>1, PipelineAssumption DEF PipelineInputs, Inputs, Completions, Overrides
<1>3. Decision(s) = Reduce(ReducerInput(s))
  BY <1>1 DEF Decision, Reduced
<1>4. ReducerInput(s).hints = {}
  BY DEF ReducerInput
<1>5. QED
  BY <1>2, <1>3, <1>4, ReduceSound

Tasks == [TaskIds -> [status : {"absent", "open", "closed"},
                      list : BucketOrNull]]

\* The empty database and an idle worker have their types.
LEMMA InitType == Init => TypeOK
<1> SUFFICES ASSUME Init PROVE TypeOK
  OBVIOUS
<1>1. EmptyStore \in Store
  BY DEF EmptyStore, Store, States, BucketOrNull, RowStatus
<1>2. NoPlan \in Results
  BY DEF NoPlan, Results, States, BucketOrNull, TaskKinds, CategoryKinds
<1>3. gtask \in Tasks /\ label \in BucketOrNull
  BY DEF Init, Tasks, Absent, BucketOrNull
<1>4. QED
  BY <1>1, <1>2, <1>3 DEF Init, TypeOK, Tasks

\* Writing the state columns back keeps a row a row.
LEMMA StateWrittenType ==
  ASSUME db \in Store, NEW s \in Snapshots, NEW r \in Results
  PROVE  StateWritten(s, r) \in Store
  BY DEF StateWritten, Column, Store, Results

LEMMA SnapshotType ==
  ASSUME TypeOK, NEW evidence \in Signals
  PROVE  Snapshot(evidence) \in Snapshots
  BY DEF Snapshot, Snapshots, TypeOK, Store, RowStatus

-----------------------------------------------------------------------------
\* How a run ends or goes on, whatever it did in between.

\* The half of TypeOK the database and the workers are in ...
Core ==
    /\ db \in Store /\ tx \in Store
    /\ writer \in Workers \cup {Nobody}
    /\ stage \in {"free", "task", "category", "commit"}
    /\ plan \in Results
    /\ seen \in [Workers -> Snapshots \cup {Unread}]
    /\ refused \in Nat

\* ... and the half Graph and the bounds are in.
Outer ==
    /\ gtask \in Tasks /\ label \in BucketOrNull
    /\ faults \in Nat /\ runs \in Nat /\ messages \in Nat

LEMMA Halves ==
    /\ TypeOK <=> Core /\ Outer
    /\ TypeOK' <=> Core' /\ Outer'
  BY DEF TypeOK, Core, Outer, Tasks

LEMMA NoPlanType == NoPlan \in Results
  BY DEF NoPlan, Results, States, BucketOrNull, TaskKinds, CategoryKinds

\* A run ends, with these rows committed and in view.
LEMMA ReleaseType ==
  ASSUME Core, NEW w \in Workers, Release(w), db' \in Store, tx' \in Store,
         refused' \in Nat
  PROVE  Core'
  BY NoPlanType DEF Core, Release

LEMMA RollbackType ==
  ASSUME Core, NEW w \in Workers, Rollback(w), refused' \in Nat
  PROVE  Core'
  BY ReleaseType DEF Core, Rollback

\* The rows of a run that performed its To Do intent: the key is claimed, the
\* failures are what they were.
Booking(d) ==
    /\ d \in Store
    /\ d.keys = Claimed.keys /\ d.finished = Claimed.finished
    /\ d.failures = Claimed.failures

\* How a To Do step that performed its intent can end.
Ends(w) ==
    \/ TaskFails
    \/ Rollback(w)
    \/ \E d : Booking(d) /\ TaskSucceeds(d)

LEMMA ClaimedType ==
  ASSUME Core
  PROVE  Booking(Claimed)
<1>1. plan.tkey \in Keys \cup {NoKey}
  BY DEF Core, Results, Keys
<1>2. tx.keys \cup {plan.tkey} \in SUBSET (Keys \cup {NoKey})
  BY <1>1 DEF Core, Store
<1>3. Claimed \in Store
  BY <1>2 DEF Claimed, Core, Store
<1>4. QED
  BY <1>3 DEF Booking

\* One more recorded failure.
LEMMA FailureType ==
  ASSUME NEW d \in Store
  PROVE  [d EXCEPT !.failures = @ + 1, !.recent = @ + 1] \in Store
<1>1. d.failures + 1 \in Nat /\ d.recent + 1 \in Nat
  BY DEF Store
<1>2. \A f, g \in Nat : [d EXCEPT !.failures = f, !.recent = g] \in Store
  BY DEF Store
<1>3. QED
  BY <1>1, <1>2

LEMMA TaskFailsType ==
  ASSUME Core, NEW w, TaskFails
  PROVE  Core' /\ Ends(w)
<1>1. Core'
  BY ClaimedType, FailureType DEF TaskFails, Core, Booking
<1>2. QED
  BY <1>1 DEF Ends

LEMMA TaskSucceedsType ==
  ASSUME Core, NEW w, NEW d, Booking(d), TaskSucceeds(d)
  PROVE  Core' /\ Ends(w)
<1>1. plan.tkey \in Keys \cup {NoKey}
  BY DEF Core, Results, Keys
<1>2. tx' \in Store
  BY <1>1 DEF TaskSucceeds, Booking, Store
<1>3. Core'
  BY <1>2 DEF TaskSucceeds, Core
<1>4. QED
  BY <1>3 DEF Ends

LEMMA TaskStoredType ==
  ASSUME Core, NEW w \in Workers, NEW d, Booking(d), TaskStored(w, d)
  PROVE  Core' /\ Ends(w)
<1>1. CASE Crowded(d)
  BY <1>1, RollbackType DEF TaskStored, Refused, Core, Ends
<1>2. CASE ~Crowded(d)
  BY <1>2, TaskSucceedsType DEF TaskStored
<1>3. QED
  BY <1>1, <1>2

\* Spending a fault on a call, and what the To Do steps leave of the outside.
LEMMA SpendType ==
  ASSUME faults \in Nat, NEW reply \in Replies, Spend(reply)
  PROVE  faults' \in Nat
  BY DEF Spend

LEMMA OpenedType ==
  ASSUME Core, NEW t
  PROVE  Opened(t) \in [status : {"absent", "open", "closed"},
                        list : BucketOrNull]
  BY DEF Opened, Core, Results

LEMMA OpeningType ==
  ASSUME Core, NEW g \in Tasks, NEW t \in TaskIds
  PROVE  [g EXCEPT ![t] = Opened(t)] \in Tasks
  BY OpenedType DEF Tasks

LEMMA StatusType ==
  ASSUME NEW g \in Tasks, NEW t \in TaskIds,
         NEW status \in {"absent", "open", "closed"}
  PROVE  [g EXCEPT ![t].status = status] \in Tasks
  BY DEF Tasks

LEMMA MovedToType ==
  ASSUME Core, gtask \in Tasks, NEW t \in TaskIds
  PROVE  MovedTo(t) \in Tasks
<1>1. \A u \in TaskIds : [gtask[u] EXCEPT !.status = "closed"] \in
         [status : {"absent", "open", "closed"}, list : BucketOrNull]
  BY DEF Tasks
<1>2. QED
  BY <1>1, OpenedType DEF MovedTo, Tasks

LEMMA LatestType ==
  ASSUME Core, NEW t \in TaskIds
  PROVE  Latest(t) \subseteq TaskIds
  BY DEF Latest, Core, Store

LEMMA PointingType ==
  ASSUME Core, NEW w \in Workers, NEW t \in TaskIds
  PROVE  Pointing(t, w) \in TaskIds \cup {Nil}
  BY DEF Pointing, Column, Core, Store

\* The row the active one is replaced by, or joined by.
LEMMA RowStoreType ==
  ASSUME NEW d, Booking(d), NEW rows \in [TaskIds -> RowStatus],
         NEW n \in TaskIds, NEW p \in TaskIds \cup {Nil}
  PROVE  Booking([d EXCEPT !.rows = rows, !.newest = n, !.ptr = p])
  BY DEF Booking, Store

-----------------------------------------------------------------------------
\* Every To Do step keeps the types.

LEMMA FreshType == Fresh \subseteq TaskIds
  BY DEF Fresh

\* The rows of a created or reopened task, as a change of Claimed.
LEMMA ActivatedType ==
  ASSUME Core, NEW w \in Workers, NEW t \in TaskIds, NEW status \in RowStatus,
         NEW n \in TaskIds, NEW p \in TaskIds \cup {Nil}
  PROVE  Booking([Claimed EXCEPT !.rows[t] = status, !.newest = n, !.ptr = p])
<1>1. Booking(Claimed)
  BY ClaimedType
<1>2. \A d : Booking(d) =>
         Booking([d EXCEPT !.rows[t] = status, !.newest = n, !.ptr = p])
  BY DEF Booking, Store
<1>3. QED
  BY <1>1, <1>2

LEMMA TaskCreateType ==
  ASSUME TypeOK, NEW w \in Workers, TaskCreate(w)
  PROVE  TypeOK' /\ Ends(w)
<1>1. Core /\ Outer
  BY Halves
<1>2. PICK reply \in Replies, t \in Fresh :
        /\ Spend(reply)
        /\ gtask' = IF reply = "failed" THEN gtask
                    ELSE [gtask EXCEPT ![t] = Opened(t)]
        /\ IF reply # "ok" THEN TaskFails
           ELSE \E n \in Latest(t) :
                  TaskStored(w, [Claimed EXCEPT
                      !.rows[t] = "active", !.newest = n,
                      !.ptr = Pointing(t, w)])
  BY DEF TaskCreate
<1>3. t \in TaskIds
  BY FreshType
<1>4. Core' /\ Ends(w)
  <2>1. CASE reply # "ok"
    BY <1>1, <1>2, <2>1, TaskFailsType
  <2>2. CASE reply = "ok"
    <3>1. PICK n \in Latest(t) :
            TaskStored(w, [Claimed EXCEPT
                !.rows[t] = "active", !.newest = n, !.ptr = Pointing(t, w)])
      BY <1>2, <2>2
    <3>2. Booking([Claimed EXCEPT !.rows[t] = "active", !.newest = n,
                          !.ptr = Pointing(t, w)])
      BY <1>1, <1>3, ActivatedType, LatestType, PointingType DEF RowStatus
    <3>3. QED
      BY <1>1, <3>1, <3>2, TaskStoredType
  <2>3. QED
    BY <2>1, <2>2
<1>5. Outer'
  BY <1>1, <1>2, <1>3, OpenedType, SpendType DEF Outer, Tasks, TaskCreate
<1>6. QED
  BY <1>4, <1>5, Halves

LEMMA TaskCreateTwiceType ==
  ASSUME TypeOK, NEW w \in Workers, TaskCreateTwice(w)
  PROVE  TypeOK' /\ Ends(w)
<1>1. Core /\ Outer
  BY Halves
<1>2. PICK t \in Fresh, u \in TaskIds, n \in TaskIds :
        /\ gtask' = [gtask EXCEPT ![t] = Opened(t), ![u] = Opened(u)]
        /\ TaskStored(w, [Claimed EXCEPT
               !.rows[u] = "active", !.newest = n, !.ptr = Pointing(u, w)])
  BY DEF TaskCreateTwice
<1>3. Booking([Claimed EXCEPT !.rows[u] = "active", !.newest = n,
                      !.ptr = Pointing(u, w)])
  BY <1>1, ActivatedType, PointingType DEF RowStatus
<1>4. Core' /\ Ends(w)
  BY <1>1, <1>2, <1>3, TaskStoredType
<1>5. faults' \in Nat
  BY <1>1, SpendType DEF TaskCreateTwice, Replies, Outer
<1>6. Outer'
  BY <1>1, <1>2, <1>5, FreshType, OpenedType DEF Outer, Tasks, TaskCreateTwice
<1>7. QED
  BY <1>4, <1>6, Halves

LEMMA TaskUpdateType ==
  ASSUME TypeOK, NEW w \in Workers, TaskUpdate(w)
  PROVE  TypeOK' /\ Ends(w)
<1>1. Core /\ Outer
  BY Halves
<1>2. PICK reply \in Replies, t \in Active(tx) :
        /\ Spend(reply)
        /\ IF reply # "ok" THEN TaskFails
           ELSE \E n \in Latest(t) : TaskSucceeds([Claimed EXCEPT !.newest = n])
  BY DEF TaskUpdate
<1>3. Core' /\ Ends(w)
  <2>1. CASE reply # "ok"
    BY <1>1, <1>2, <2>1, TaskFailsType
  <2>2. CASE reply = "ok"
    <3>1. PICK n \in Latest(t) : TaskSucceeds([Claimed EXCEPT !.newest = n])
      BY <1>2, <2>2
    <3>2. n \in TaskIds
      BY <1>1, LatestType DEF Active
    <3>3. \A d : Booking(d) => Booking([d EXCEPT !.newest = n])
      BY <3>2 DEF Booking, Store
    <3>4. QED
      BY <1>1, <3>1, <3>3, ClaimedType, TaskSucceedsType
  <2>3. QED
    BY <2>1, <2>2
<1>4. Outer'
  BY <1>1, <1>2, SpendType DEF Outer, TaskUpdate, external
<1>5. QED
  BY <1>3, <1>4, Halves

LEMMA TaskMoveFailsType ==
  ASSUME TypeOK, NEW w \in Workers,
         TaskMoveUncreated(w) \/ TaskMoveUnclosed(w)
  PROVE  TypeOK' /\ Ends(w)
<1>1. Core /\ Outer
  BY Halves
<1>2. Core' /\ Ends(w)
  BY <1>1, TaskFailsType DEF TaskMoveUncreated, TaskMoveUnclosed
<1>3. CASE TaskMoveUncreated(w)
  <2>1. PICK reply \in Replies, t \in TaskIds :
          /\ Spend(reply)
          /\ gtask' = IF reply = "failed" THEN gtask
                      ELSE [gtask EXCEPT ![t] = Opened(t)]
    BY <1>3, FreshType DEF TaskMoveUncreated
  <2>2. gtask' \in Tasks
    BY <1>1, <2>1, OpeningType DEF Outer
  <2>3. QED
    BY <1>1, <1>2, <1>3, <2>1, <2>2, SpendType, Halves
       DEF Outer, TaskMoveUncreated
<1>4. CASE TaskMoveUnclosed(w)
  <2>1. PICK reply \in Replies, t \in TaskIds :
          /\ Spend(reply)
          /\ gtask' = IF reply = "lost" THEN MovedTo(t)
                      ELSE [gtask EXCEPT ![t] = Opened(t)]
    BY <1>4, FreshType DEF TaskMoveUnclosed
  <2>2. gtask' \in Tasks
    BY <1>1, <2>1, MovedToType, OpeningType DEF Outer
  <2>3. QED
    BY <1>1, <1>2, <1>4, <2>1, <2>2, SpendType, Halves
       DEF Outer, TaskMoveUnclosed
<1>5. QED
  BY <1>3, <1>4

\* The rows after a move, and its end.
LEMMA MovedRowsType == Core => \A t : MovedRows(t) \in [TaskIds -> RowStatus]
  BY DEF MovedRows, Core, Store, RowStatus

LEMMA TaskMovedType ==
  ASSUME Core, NEW w \in Workers, NEW t \in TaskIds, NEW n \in TaskIds,
         TaskStored(w, [Claimed EXCEPT !.rows = MovedRows(t), !.newest = n,
                                       !.ptr = Pointing(t, w)])
  PROVE  Core' /\ Ends(w)
<1>1. Pointing(t, w) \in TaskIds \cup {Nil} /\ Booking(Claimed)
      /\ MovedRows(t) \in [TaskIds -> RowStatus]
  BY PointingType, ClaimedType, MovedRowsType
<1>2. Booking([Claimed EXCEPT !.rows = MovedRows(t), !.newest = n,
                              !.ptr = Pointing(t, w)])
  BY <1>1, RowStoreType
<1>3. QED
  BY <1>2, TaskStoredType

LEMMA TaskMoveType ==
  ASSUME TypeOK, NEW w \in Workers, TaskMove(w)
  PROVE  TypeOK' /\ Ends(w)
<1>1. Core /\ Outer
  BY Halves
<1>2. PICK t \in TaskIds, n \in TaskIds :
        /\ gtask' = MovedTo(t)
        /\ TaskStored(w, [Claimed EXCEPT !.rows = MovedRows(t), !.newest = n,
                                         !.ptr = Pointing(t, w)])
  BY FreshType DEF TaskMove
<1>3. Core' /\ Ends(w)
  BY <1>1, <1>2, TaskMovedType
<1>4. Outer'
  BY <1>1, <1>2, MovedToType DEF Outer, TaskMove
<1>5. QED
  BY <1>3, <1>4, Halves

LEMMA TaskMoveTwiceType ==
  ASSUME TypeOK, NEW w \in Workers, TaskMoveTwice(w)
  PROVE  TypeOK' /\ Ends(w)
<1>1. Core /\ Outer
  BY Halves
<1>2. PICK t \in TaskIds, u \in TaskIds, n \in TaskIds :
        /\ gtask' = [MovedTo(u) EXCEPT ![t] = Opened(t)]
        /\ TaskStored(w, [Claimed EXCEPT !.rows = MovedRows(u), !.newest = n,
                                         !.ptr = Pointing(u, w)])
  BY FreshType DEF TaskMoveTwice
<1>3. Core' /\ Ends(w)
  BY <1>1, <1>2, TaskMovedType
<1>4. gtask' \in Tasks
  <2>1. MovedTo(u) \in Tasks
    BY <1>1, MovedToType DEF Outer
  <2>2. QED
    BY <1>1, <1>2, <2>1, OpeningType
<1>5. faults' \in Nat
  BY <1>1, SpendType DEF TaskMoveTwice, Replies, Outer
<1>6. Outer'
  BY <1>1, <1>4, <1>5 DEF Outer, TaskMoveTwice
<1>7. QED
  BY <1>3, <1>6, Halves

LEMMA TaskCompleteType ==
  ASSUME TypeOK, NEW w \in Workers, NEW kind, NEW status \in {"soft", "hard"},
         TaskComplete(w, kind, status)
  PROVE  TypeOK' /\ Ends(w)
<1>1. Core /\ Outer
  BY Halves
<1>2. PICK reply \in Replies, t \in Active(tx) :
        /\ Spend(reply)
        /\ gtask' = IF reply = "failed" THEN gtask
                    ELSE [gtask EXCEPT ![t].status = "closed"]
        /\ IF reply # "ok" THEN TaskFails
           ELSE \E n \in Latest(t) :
                  TaskSucceeds([Claimed EXCEPT
                      !.rows[t] = status, !.newest = n,
                      !.ptr = PointerAfter(status, w)])
  BY DEF TaskComplete
<1>3. t \in TaskIds
  BY DEF Active
<1>4. Core' /\ Ends(w)
  <2>1. CASE reply # "ok"
    BY <1>1, <1>2, <2>1, TaskFailsType
  <2>2. CASE reply = "ok"
    <3>1. PICK n \in Latest(t) :
            TaskSucceeds([Claimed EXCEPT
                !.rows[t] = status, !.newest = n,
                !.ptr = PointerAfter(status, w)])
      BY <1>2, <2>2
    <3>2. n \in TaskIds
      BY <1>1, <1>3, LatestType
    <3>3. PointerAfter(status, w) \in TaskIds \cup {Nil}
      BY <1>1 DEF PointerAfter, Column, Core, Store
    <3>4. status \in RowStatus
      BY DEF RowStatus
    <3>5. Booking([Claimed EXCEPT !.rows[t] = status, !.newest = n,
                          !.ptr = PointerAfter(status, w)])
      BY <1>1, <1>3, <3>2, <3>3, <3>4, ActivatedType
    <3>6. QED
      BY <1>1, <3>1, <3>5, TaskSucceedsType
  <2>3. QED
    BY <2>1, <2>2
<1>5. Outer'
  BY <1>1, <1>2, <1>3, StatusType, SpendType DEF Outer, TaskComplete
<1>6. QED
  BY <1>4, <1>5, Halves

LEMMA TaskReopenType ==
  ASSUME TypeOK, NEW w \in Workers, TaskReopen(w)
  PROVE  TypeOK' /\ Ends(w)
<1>1. Core /\ Outer
  BY Halves
<1> DEFINE t == tx.newest
<1>2. t \in TaskIds
  BY <1>1 DEF TaskReopen, Core, Store
<1>3. PICK reply \in Replies :
        /\ Spend(reply)
        /\ gtask' = IF reply = "failed" THEN gtask
                    ELSE [gtask EXCEPT ![t].status = "open"]
        /\ IF reply # "ok" THEN TaskFails
           ELSE \E n \in Latest(t) :
                  TaskStored(w, [Claimed EXCEPT
                      !.rows[t] = "active",
                      !.newest = n, !.ptr = Pointing(t, w)])
  BY DEF TaskReopen
<1> HIDE DEF t
<1>4. Core' /\ Ends(w)
  <2>1. CASE reply # "ok"
    BY <1>1, <1>3, <2>1, TaskFailsType
  <2>2. CASE reply = "ok"
    <3>1. PICK n \in Latest(t) :
            TaskStored(w, [Claimed EXCEPT
                !.rows[t] = "active", !.newest = n,
                !.ptr = Pointing(t, w)])
      BY <1>3, <2>2
    <3>2. n \in TaskIds
      BY <1>1, <1>2, LatestType
    <3>3. Pointing(t, w) \in TaskIds \cup {Nil}
      BY <1>1, <1>2, PointingType
    <3>4. "active" \in RowStatus
      BY DEF RowStatus
    <3>5. Booking([Claimed EXCEPT !.rows[t] = "active",
                          !.newest = n, !.ptr = Pointing(t, w)])
      BY <1>1, <1>2, <3>2, <3>3, <3>4, ActivatedType
    <3>6. QED
      BY <1>1, <3>1, <3>5, TaskStoredType
  <2>3. QED
    BY <2>1, <2>2
<1>5. Outer'
  BY <1>1, <1>2, <1>3, StatusType, SpendType DEF Outer, TaskReopen
<1>6. QED
  BY <1>4, <1>5, Halves

\* A run that has nothing to do at To Do still claims its key.
LEMMA TaskNothingType ==
  ASSUME TypeOK, NEW w \in Workers, TaskNothing(w)
  PROVE  TypeOK' /\ Ends(w)
<1>1. Core /\ Outer
  BY Halves
<1>2. Core' /\ Ends(w)
  BY <1>1, ClaimedType, TaskSucceedsType DEF TaskNothing
<1>3. Outer'
  BY <1>1 DEF TaskNothing, Outer, external
<1>4. QED
  BY <1>2, <1>3, Halves

LEMMA TaskSkippedType ==
  ASSUME TypeOK, NEW w \in Workers, TaskSkipped(w)
  PROVE  TypeOK'
  BY DEF TaskSkipped, TypeOK, external, counters

\* Every To Do step is skipped or ends in one of three ways.
LEMMA TaskStepType ==
  ASSUME TypeOK, NEW w \in Workers, TaskStep(w)
  PROVE  TypeOK' /\ (TaskSkipped(w) \/ Ends(w))
  BY TaskSkippedType, TaskNothingType, TaskCreateType, TaskCreateTwiceType,
     TaskUpdateType, TaskMoveFailsType, TaskMoveType, TaskMoveTwiceType,
     TaskCompleteType, TaskReopenType DEF TaskStep

-----------------------------------------------------------------------------
\* Every other step keeps the types.

LEMMA LabelKeyType ==
  ASSUME Core
  PROVE  LabelKey \subseteq Keys \cup {NoKey}
  BY DEF LabelKey, Core, Results, Keys

LEMMA NewLabelType ==
  ASSUME Core
  PROVE  NewLabel \in BucketOrNull
  BY DEF NewLabel, Core, Results, BucketOrNull

LEMMA LabelUnchangedType ==
  ASSUME TypeOK, NEW w \in Workers, LabelUnchanged(w)
  PROVE  TypeOK'
<1>1. Core /\ Outer
  BY Halves
<1>2. \A d \in Store, k \in SUBSET (Keys \cup {NoKey}) :
         [d EXCEPT !.keys = @ \cup k, !.finished = @ \cup k] \in Store
  BY DEF Store
<1>3. tx' \in Store
  BY <1>1, <1>2, LabelKeyType DEF LabelUnchanged, Core
<1>4. QED
  BY <1>3 DEF LabelUnchanged, TypeOK, external, counters

LEMMA LabelPatchType ==
  ASSUME TypeOK, NEW w \in Workers, LabelPatch(w)
  PROVE  TypeOK'
<1>1. Core /\ Outer
  BY Halves
<1> DEFINE latest == seen[w].mail = messages
<1>2. PICK reply \in Replies :
        /\ Spend(reply)
        /\ label' = IF reply # "failed" /\ latest THEN NewLabel ELSE label
        /\ tx' = IF reply = "ok"
                 THEN [tx EXCEPT !.keys = @ \cup LabelKey,
                                 !.finished = @ \cup LabelKey,
                                 !.cat = IF latest THEN NewLabel ELSE @]
                 ELSE [tx EXCEPT !.keys = @ \cup LabelKey,
                                 !.failures = @ + 1, !.recent = @ + 1]
  BY DEF LabelPatch
<1>3. label' \in BucketOrNull /\ faults' \in Nat
  BY <1>1, <1>2, NewLabelType, SpendType DEF Outer
<1> DEFINE cat == IF latest THEN NewLabel ELSE tx.cat
<1>4. /\ cat \in BucketOrNull
      /\ tx.failures + 1 \in Nat /\ tx.recent + 1 \in Nat
  BY <1>1, NewLabelType DEF Core, Store
<1>5. LabelKey \in SUBSET (Keys \cup {NoKey})
  BY <1>1, LabelKeyType
<1>6. CASE reply = "ok"
  <2>1. tx' = [tx EXCEPT !.keys = @ \cup LabelKey,
                         !.finished = @ \cup LabelKey, !.cat = cat]
    BY <1>2, <1>6
  <2>2. \A d \in Store, k \in SUBSET (Keys \cup {NoKey}), c \in BucketOrNull :
          [d EXCEPT !.keys = @ \cup k, !.finished = @ \cup k, !.cat = c]
            \in Store
    BY DEF Store
  <2> HIDE DEF cat
  <2>3. tx' \in Store
    BY <1>1, <1>4, <1>5, <2>1, <2>2 DEF Core
  <2>4. QED
    BY <1>3, <2>3 DEF LabelPatch, TypeOK
<1>7. CASE reply # "ok"
  <2>1. tx' = [tx EXCEPT !.keys = @ \cup LabelKey,
                         !.failures = tx.failures + 1,
                         !.recent = tx.recent + 1]
    BY <1>2, <1>7
  <2>2. \A d \in Store, k \in SUBSET (Keys \cup {NoKey}), f, g \in Nat :
          [d EXCEPT !.keys = @ \cup k, !.failures = f, !.recent = g] \in Store
    BY DEF Store
  <2>3. tx' \in Store
    BY <1>1, <1>4, <1>5, <2>1, <2>2 DEF Core
  <2>4. QED
    BY <1>3, <2>3 DEF LabelPatch, TypeOK
<1>8. QED
  BY <1>6, <1>7

LEMMA CommitType ==
  ASSUME TypeOK, NEW w \in Workers, Commit(w)
  PROVE  TypeOK'
<1>1. Core /\ Outer
  BY Halves
<1>2. PICK reason \in ReviewReasons(w) : db' = [tx EXCEPT !.review = reason]
  BY DEF Commit
<1>3. reason \in BOOLEAN
  BY <1>1, <1>2 DEF ReviewReasons, Core, Store
<1>4. db' \in Store /\ tx' \in Store
  BY <1>1, <1>2, <1>3 DEF Commit, Core, Store
<1>5. Core'
  BY <1>1, <1>4, ReleaseType DEF Commit, counters, Core
<1>6. Outer'
  BY <1>1 DEF Commit, external, counters, Outer
<1>7. QED
  BY <1>5, <1>6, Halves

LEMMA WriteBackType ==
  ASSUME TypeOK, NEW w \in Workers, WriteBack(w)
  PROVE  TypeOK'
<1>1. CASE LabelSkipped(w)
  BY <1>1 DEF LabelSkipped, TypeOK, external, counters
<1>2. QED
  BY <1>1, TaskStepType, LabelUnchangedType, LabelPatchType, CommitType
     DEF WriteBack

LEMMA ReadType ==
  ASSUME TypeOK, NEW w \in Workers, Read(w)
  PROVE  TypeOK'
  BY SnapshotType DEF Read, TypeOK, external

LEMMA BeginType ==
  ASSUME TypeOK, NEW w \in Workers, Begin(w)
  PROVE  TypeOK'
<1>1. seen[w] \in Snapshots
  BY DEF Begin, TypeOK
<1>2. plan' \in Results
  BY <1>1, DecisionSound DEF Begin, Sound
<1>3. StateWritten(seen[w], plan') \in Store
  BY <1>1, <1>2, StateWrittenType DEF TypeOK
<1>4. tx' \in Store
  <2>1. \A d \in Store, r \in BOOLEAN : [d EXCEPT !.review = r] \in Store
    BY DEF Store
  <2>2. \A d \in Store, r \in BOOLEAN : (d.review \/ r) \in BOOLEAN
    OBVIOUS
  <2>3. QED
    BY <1>3, <2>1, <2>2 DEF Begin
<1>5. QED
  BY <1>2, <1>4 DEF Begin, TypeOK, external, counters

LEMMA RejectType ==
  ASSUME TypeOK, NEW w \in Workers, Reject(w)
  PROVE  TypeOK'
  BY RollbackType, Halves DEF Reject, Core, Outer, external, counters

LEMMA LockTimeoutType ==
  ASSUME TypeOK, NEW w \in Workers, LockTimeout(w)
  PROVE  TypeOK'
  BY DEF LockTimeout, TypeOK, external, counters

LEMMA CrashType ==
  ASSUME TypeOK, Crash
  PROVE  TypeOK'
  BY NoPlanType DEF Crash, TypeOK, external

LEMMA ElsewhereType ==
  ASSUME TypeOK, ReviewClear \/ Deliver \/ Age
  PROVE  TypeOK'
<1>1. CASE ReviewClear
  BY <1>1 DEF ReviewClear, Elsewhere, TypeOK, Store
<1>2. CASE Deliver
  BY <1>2 DEF Deliver, Elsewhere, TypeOK, Store, BucketOrNull
<1>3. CASE Age
  BY <1>3 DEF Age, Elsewhere, TypeOK, Store
<1>4. QED
  BY <1>1, <1>2, <1>3

LEMMA NextType ==
  ASSUME TypeOK, [Next]_vars
  PROVE  TypeOK'
<1>1. CASE UNCHANGED vars
  BY <1>1 DEF vars, TypeOK
<1>2. CASE Next
  BY <1>2, WriteBackType, ReadType, BeginType, RejectType, LockTimeoutType,
     CrashType, ElsewhereType DEF Next
<1>3. QED
  BY <1>1, <1>2

\* The types hold in every reachable state, whatever the constants: what a run
\* loads is always an input reduce() knows, and what it writes back a row.
THEOREM TypeCorrect == Spec => []TypeOK
<1>1. Init => TypeOK
  BY InitType
<1>2. TypeOK /\ [Next]_vars => TypeOK'
  BY NextType
<1>3. QED
  BY <1>1, <1>2, PTL DEF Spec

-----------------------------------------------------------------------------
(* The ledger of operation keys.  BurntKeysAreFailures is about what is      *)
(* committed; to be kept it has to hold of the rows in view too, and no To   *)
(* Do intent may come without a key.                                         *)

Booked(d) ==
    /\ d.finished \subseteq d.keys /\ NoKey \notin d.keys
    /\ IsFiniteSet(d.keys)
    /\ Cardinality(d.keys \ d.finished) = d.failures

\* What is in view holds all keys that are committed.
Books ==
    /\ Booked(db) /\ Booked(tx) /\ db.keys \subseteq tx.keys
    /\ Sound(plan) /\ Keyed(plan)

LEMMA NoPlanSound == Sound(NoPlan) /\ Keyed(NoPlan)
  BY NoPlanType DEF Sound, Keyed, NoPlan

\* Rows with the same ledger are booked alike.
LEMMA SameBooks ==
  ASSUME NEW d, Booked(d), NEW e, e.keys = d.keys,
         e.finished = d.finished, e.failures = d.failures
  PROVE  Booked(e)
  BY DEF Booked

LEMMA BookedFailure ==
  ASSUME NEW d, Booked(d), NEW key, key \notin d.keys, key # NoKey,
         NEW e, e.keys = d.keys \cup {key}, e.finished = d.finished,
         e.failures = d.failures + 1
  PROVE  Booked(e)
<1>1. IsFiniteSet(d.keys \ d.finished)
  BY FS_Subset DEF Booked
<1>2. e.keys \ e.finished = (d.keys \ d.finished) \cup {key}
  BY DEF Booked
<1>3. Cardinality(e.keys \ e.finished) = Cardinality(d.keys \ d.finished) + 1
  BY <1>1, <1>2, FS_AddElement
<1>4. IsFiniteSet(e.keys)
  BY FS_AddElement DEF Booked
<1>5. QED
  BY <1>3, <1>4 DEF Booked

LEMMA BookedResult ==
  ASSUME NEW d, Booked(d), NEW key, key \notin d.keys, key # NoKey,
         NEW e, e.keys = d.keys \cup {key}, e.finished = d.finished \cup {key},
         e.failures = d.failures
  PROVE  Booked(e)
<1>1. e.keys \ e.finished = d.keys \ d.finished
  BY DEF Booked
<1>2. IsFiniteSet(e.keys)
  BY FS_AddElement DEF Booked
<1>3. QED
  BY <1>1, <1>2 DEF Booked

LEMMA InitBooks == Init => Books
  BY NoPlanSound, FS_EmptySet DEF Init, EmptyStore, Books, Booked

\* A step that is not skipped has a key, and a new one.
LEMMA TaskKeyIsNew ==
  ASSUME Books, NEW w \in Workers, TaskStep(w)
  PROVE  TaskSkipped(w) \/ (plan.tkey # NoKey /\ plan.tkey \notin tx.keys)
<1>1. TaskSkipped(w) \/ \E kind : kind # "noop" /\ Performs(w, kind)
  BY DEF TaskStep, TaskNothing, TaskCreate, TaskCreateTwice, TaskUpdate,
         TaskMoveUncreated, TaskMoveUnclosed, TaskMove,
         TaskMoveTwice, MoveTurn, TaskComplete,
         TaskReopen
<1>2. QED
  BY <1>1 DEF Performs, Books, Sound

\* However a To Do step ends, the books balance.
LEMMA EndsBooks ==
  ASSUME TypeOK, Books, NEW w \in Workers, Ends(w),
         plan.tkey # NoKey, plan.tkey \notin tx.keys
  PROVE  Books'
<1>1. /\ Claimed.keys = tx.keys \cup {plan.tkey}
      /\ Claimed.finished = tx.finished /\ Claimed.failures = tx.failures
  BY DEF Claimed, TypeOK, Store
<1>2. Booked(db) /\ Booked(tx) /\ db.keys \subseteq tx.keys
  BY DEF Books
<1>3. CASE TaskFails
  <2>1. /\ tx'.keys = tx.keys \cup {plan.tkey}
        /\ tx'.finished = tx.finished /\ tx'.failures = tx.failures + 1
    BY <1>1, <1>3, ClaimedType, Halves DEF TaskFails, Booking, Store
  <2>2. Booked(tx')
    BY <1>2, <2>1, BookedFailure
  <2>3. QED
    BY <1>2, <1>3, <2>1, <2>2 DEF Books, TaskFails
<1>4. CASE Rollback(w)
  BY <1>2, <1>4, NoPlanSound DEF Rollback, Release, Books
<1>5. CASE \E d : Booking(d) /\ TaskSucceeds(d)
  <2>1. /\ tx'.keys = tx.keys \cup {plan.tkey}
        /\ tx'.finished = tx.finished \cup {plan.tkey}
        /\ tx'.failures = tx.failures
    BY <1>1, <1>5 DEF TaskSucceeds, Booking, Store
  <2>2. Booked(tx')
    BY <1>2, <2>1, BookedResult
  <2>3. QED
    BY <1>2, <1>5, <2>1, <2>2 DEF Books, TaskSucceeds
<1>6. QED
  BY <1>3, <1>4, <1>5 DEF Ends

LEMMA TaskStepBooks ==
  ASSUME TypeOK, Books, NEW w \in Workers, TaskStep(w)
  PROVE  Books'
<1>1. CASE TaskSkipped(w)
  BY <1>1 DEF TaskSkipped, Books
<1>2. QED
  BY <1>1, TaskStepType, TaskKeyIsNew, EndsBooks

\* A label that is asked for has a key, and the step claims it if it is new.
LEMMA LabelKeyIsNew ==
  ASSUME Books, LabelClaimed
  PROVE  /\ LabelKey = {plan.ckey} /\ plan.ckey # NoKey
         /\ plan.ckey \notin tx.keys
  BY DEF Books, Keyed, LabelClaimed, LabelKey

LEMMA LabelBooks ==
  ASSUME TypeOK, Books, NEW w \in Workers,
         LabelUnchanged(w) \/ LabelPatch(w)
  PROVE  Books'
<1>1. Booked(db) /\ Booked(tx) /\ db.keys \subseteq tx.keys
  BY DEF Books
<1>2. /\ LabelKey = {plan.ckey} /\ plan.ckey # NoKey
      /\ plan.ckey \notin tx.keys
  BY LabelKeyIsNew DEF LabelUnchanged, LabelPatch
<1>3. /\ db' = db /\ plan' = plan
      /\ tx'.keys = tx.keys \cup {plan.ckey}
      /\ \/ /\ tx'.finished = tx.finished \cup {plan.ckey}
            /\ tx'.failures = tx.failures
         \/ /\ tx'.finished = tx.finished
            /\ tx'.failures = tx.failures + 1
  <2>1. CASE LabelUnchanged(w)
    BY <1>2, <2>1 DEF LabelUnchanged, TypeOK, Store
  <2>2. CASE LabelPatch(w)
    BY <1>2, <2>2 DEF LabelPatch, TypeOK, Store
  <2>3. QED
    BY <2>1, <2>2
<1>4. Booked(tx')
  BY <1>1, <1>2, <1>3, BookedFailure, BookedResult
<1>5. QED
  BY <1>1, <1>3, <1>4 DEF Books

LEMMA CommitBooks ==
  ASSUME TypeOK, Books, NEW w \in Workers, Commit(w)
  PROVE  Books'
<1>1. /\ db'.keys = tx.keys /\ db'.finished = tx.finished
      /\ db'.failures = tx.failures /\ tx' = db' /\ plan' = NoPlan
  BY DEF Commit, Release, TypeOK, Store
<1>2. Booked(db')
  BY <1>1, SameBooks DEF Books
<1>3. QED
  BY <1>1, <1>2, NoPlanSound DEF Books

LEMMA BeginBooks ==
  ASSUME TypeOK, Books, NEW w \in Workers, Begin(w)
  PROVE  Books'
<1>1. Sound(plan') /\ Keyed(plan')
  BY DecisionSound DEF Begin, TypeOK
<1>2. /\ tx'.keys = db.keys /\ tx'.finished = db.finished
      /\ tx'.failures = db.failures /\ db' = db
  BY DEF Begin, StateWritten, TypeOK, Store
<1>3. Booked(tx')
  BY <1>2, SameBooks DEF Books
<1>4. QED
  BY <1>1, <1>2, <1>3 DEF Books

LEMMA ElsewhereBooks ==
  ASSUME TypeOK, Books, ReviewClear \/ Deliver \/ Age
  PROVE  Books'
<1>1. /\ db'.keys = db.keys /\ db'.finished = db.finished
      /\ db'.failures = db.failures /\ tx' = db' /\ plan' = plan
  BY DEF ReviewClear, Deliver, Age, Elsewhere, TypeOK, Store
<1>2. Booked(db')
  BY <1>1, SameBooks DEF Books
<1>3. QED
  BY <1>1, <1>2 DEF Books

LEMMA NextBooks ==
  ASSUME TypeOK, Books, [Next]_vars
  PROVE  Books'
<1>1. CASE UNCHANGED vars
  BY <1>1 DEF vars, Books
<1>2. ASSUME NEW w \in Workers, Read(w) \/ LockTimeout(w) \/ LabelSkipped(w)
      PROVE  Books'
  BY <1>2 DEF Read, LockTimeout, LabelSkipped, Books
<1>3. CASE Crash \/ \E w \in Workers : Reject(w)
  BY <1>3, NoPlanSound DEF Crash, Reject, Rollback, Release, Books
<1>4. ASSUME NEW w \in Workers, WriteBack(w)
      PROVE  Books'
  BY <1>2, <1>4, TaskStepBooks, LabelBooks, CommitBooks DEF WriteBack
<1>5. QED
  BY <1>1, <1>2, <1>3, <1>4, BeginBooks, ElsewhereBooks DEF Next

LEMMA BooksBalance == Spec => [](TypeOK /\ Books)
<1>1. Init => TypeOK /\ Books
  BY InitType, InitBooks
<1>2. TypeOK /\ Books /\ [Next]_vars => (TypeOK /\ Books)'
  BY NextType, NextBooks
<1>3. QED
  BY <1>1, <1>2, PTL DEF Spec

\* A key is never burnt in silence: whatever the interleaving, the failures,
\* the crashes and the rollbacks, the committed keys without a result are as
\* many as the failure events that were committed with them.
THEOREM KeysAreAccounted == Spec => []BurntKeysAreFailures
<1>1. Books => BurntKeysAreFailures
  BY DEF Books, Booked, BurntKeysAreFailures
<1>2. QED
  BY <1>1, BooksBalance, PTL

\* Who changes Microsoft To Do has a key that is new in its own view, ...
LEMMA TaskChangeIsNew ==
  ASSUME TypeOK, Books, [Next]_vars, gtask' # gtask
  PROVE  plan.tkey \notin tx.keys
<1>1. CASE \E w \in Workers : TaskStep(w)
  BY <1>1, TaskKeyIsNew DEF TaskSkipped, external
<1>2. CASE \E w \in Workers : \/ Read(w) \/ Begin(w) \/ Reject(w)
                              \/ LockTimeout(w) \/ LabelSkipped(w)
                              \/ LabelUnchanged(w) \/ LabelPatch(w) \/ Commit(w)
  BY <1>2 DEF Read, Begin, Reject, LockTimeout, LabelSkipped, LabelUnchanged,
              LabelPatch, Commit, external
<1>3. CASE UNCHANGED vars \/ Crash \/ ReviewClear \/ Deliver \/ Age
  BY <1>3 DEF vars, Crash, ReviewClear, Deliver, Age, Elsewhere, external
<1>4. QED
  BY <1>1, <1>2, <1>3 DEF Next, WriteBack

\* ... and so has who changes the label.
LEMMA LabelChangeIsNew ==
  ASSUME TypeOK, Books, [Next]_vars, WritebackStep
  PROVE  plan.ckey \notin tx.keys
<1>1. CASE \E w \in Workers : LabelPatch(w)
  BY <1>1, LabelKeyIsNew DEF LabelPatch
<1>2. CASE \E w \in Workers : TaskStep(w)
  BY <1>2 DEF TaskStep, TaskSkipped, TaskNothing, TaskCreate, TaskCreateTwice,
              TaskUpdate, TaskMoveUncreated, TaskMoveUnclosed, TaskMove,
              TaskMoveTwice,
              TaskComplete, TaskReopen, external, WritebackStep
<1>3. CASE \E w \in Workers : \/ Read(w) \/ Begin(w) \/ Reject(w)
                              \/ LockTimeout(w) \/ LabelSkipped(w)
                              \/ LabelUnchanged(w) \/ Commit(w)
  BY <1>3 DEF Read, Begin, Reject, LockTimeout, LabelSkipped, LabelUnchanged,
              Commit, external, WritebackStep
<1>4. CASE UNCHANGED vars \/ Crash \/ ReviewClear \/ Age
  BY <1>4 DEF vars, Crash, ReviewClear, Age, external, WritebackStep
<1>5. CASE Deliver
  BY <1>5 DEF Deliver, TypeOK, WritebackStep
<1>6. QED
  BY <1>1, <1>2, <1>3, <1>4, <1>5 DEF Next, WriteBack

\* I6 for every interleaving: once a key is committed, no run of any worker
\* changes a task or a label under it again.
THEOREM CommittedKeysAreSpent == Spec => CommittedKeyNeverReexecuted
<1>1. TypeOK /\ Books /\ [Next]_vars =>
         [/\ gtask' # gtask => plan.tkey \notin db.keys
          /\ WritebackStep => plan.ckey \notin db.keys]_vars
  BY TaskChangeIsNew, LabelChangeIsNew DEF Books
<1>2. QED
  BY <1>1, BooksBalance, PTL DEF Spec, CommittedKeyNeverReexecuted

-----------------------------------------------------------------------------
(* What a To Do step does to the rows in view and to Microsoft To Do, in     *)
(* equations: what the invariants about tasks are proved from.               *)

\* The step ends with these rows in view; the key is claimed.
Wrote(rows, newest, ptr) ==
    /\ tx'.rows = rows /\ tx'.newest = newest /\ tx'.ptr = ptr
    /\ tx'.state = tx.state /\ tx'.bucket = tx.bucket
    /\ tx'.keys = tx.keys \cup {plan.tkey}
    /\ tx'.failures = tx.failures
    /\ stage' = "category"
    /\ UNCHANGED <<db, writer, plan, seen, refused>>

Failed ==
    /\ tx'.rows = tx.rows /\ tx'.newest = tx.newest /\ tx'.ptr = tx.ptr
    /\ tx'.state = tx.state /\ tx'.bucket = tx.bucket
    /\ tx'.keys = tx.keys \cup {plan.tkey}
    /\ tx'.failures = tx.failures + 1
    /\ stage' = "category"
    /\ UNCHANGED <<db, writer, plan, seen, refused>>

\* The rows hold at most one active one.
Alone(rows) ==
    \A t, u \in TaskIds : rows[t] = "active" /\ rows[u] = "active" => t = u

\* The unique index has its say.
Stored(w, rows, newest, ptr) ==
    \/ Refused(w)
    \/ Alone(rows) /\ Wrote(rows, newest, ptr)

LEMMA FailedEffect ==
  ASSUME Core, TaskFails
  PROVE  Failed
<1>1. Claimed.keys = tx.keys \cup {plan.tkey}
  BY DEF Claimed, Core, Store
<1>2. /\ Claimed.rows = tx.rows /\ Claimed.newest = tx.newest
      /\ Claimed.ptr = tx.ptr /\ Claimed.state = tx.state
      /\ Claimed.bucket = tx.bucket /\ Claimed.failures = tx.failures
  BY DEF Claimed, Core, Store
<1>3. Claimed \in Store
  BY ClaimedType DEF Booking
<1> DEFINE c == Claimed
<1>4. tx' = [c EXCEPT !.failures = @ + 1, !.recent = @ + 1]
  BY DEF TaskFails
<1> HIDE DEF c
<1>5. /\ tx'.rows = c.rows /\ tx'.newest = c.newest /\ tx'.ptr = c.ptr
      /\ tx'.state = c.state /\ tx'.bucket = c.bucket
      /\ tx'.keys = c.keys /\ tx'.failures = c.failures + 1
  BY <1>3, <1>4 DEF Store, c
<1>6. QED
  BY <1>1, <1>2, <1>5 DEF c, Failed, TaskFails

\* The rows a step is about to store: Claimed, with these three columns new.
Shows(d, rows, newest, ptr) ==
    /\ d \in Store
    /\ d.rows = rows /\ d.newest = newest /\ d.ptr = ptr
    /\ d.state = tx.state /\ d.bucket = tx.bucket
    /\ d.keys = tx.keys \cup {plan.tkey} /\ d.failures = tx.failures

LEMMA ClaimedShows ==
  ASSUME Core
  PROVE  Shows(Claimed, tx.rows, tx.newest, tx.ptr)
<1>1. Claimed \in Store
  BY ClaimedType DEF Booking
<1>2. QED
  BY <1>1 DEF Shows, Claimed, Core, Store

LEMMA RowsShow ==
  ASSUME Core, NEW rows \in [TaskIds -> RowStatus],
         NEW n \in TaskIds \cup {Nil}, NEW p \in TaskIds \cup {Nil},
         NEW d, d = [Claimed EXCEPT !.rows = rows, !.newest = n, !.ptr = p]
  PROVE  Shows(d, rows, n, p)
<1>1. \A c : Shows(c, tx.rows, tx.newest, tx.ptr) =>
        Shows([c EXCEPT !.rows = rows, !.newest = n, !.ptr = p], rows, n, p)
  BY DEF Shows, Store
<1>2. QED
  BY <1>1, ClaimedShows

LEMMA OneRowShows ==
  ASSUME Core, NEW t \in TaskIds, NEW status \in RowStatus,
         NEW n \in TaskIds \cup {Nil}, NEW p \in TaskIds \cup {Nil},
         NEW d, d = [Claimed EXCEPT !.rows[t] = status, !.newest = n, !.ptr = p]
  PROVE  Shows(d, [tx.rows EXCEPT ![t] = status], n, p)
<1>1. \A c : Shows(c, tx.rows, tx.newest, tx.ptr) =>
        Shows([c EXCEPT !.rows[t] = status, !.newest = n, !.ptr = p],
              [tx.rows EXCEPT ![t] = status], n, p)
  BY DEF Shows, Store
<1>2. QED
  BY <1>1, ClaimedShows

LEMMA WroteEffect ==
  ASSUME NEW rows, NEW n, NEW p, NEW d, Shows(d, rows, n, p), TaskSucceeds(d)
  PROVE  Wrote(rows, n, p)
<1>1. tx' = [d EXCEPT !.finished = @ \cup {plan.tkey}]
  BY DEF TaskSucceeds
<1>2. /\ tx'.rows = d.rows /\ tx'.newest = d.newest /\ tx'.ptr = d.ptr
      /\ tx'.state = d.state /\ tx'.bucket = d.bucket
      /\ tx'.keys = d.keys /\ tx'.failures = d.failures
  BY <1>1 DEF Shows, Store
<1>3. QED
  BY <1>2 DEF Wrote, Shows, TaskSucceeds

LEMMA StoredEffect ==
  ASSUME NEW w, NEW rows, NEW n, NEW p, NEW d, Shows(d, rows, n, p),
         TaskStored(w, d)
  PROVE  Stored(w, rows, n, p)
<1>1. CASE Crowded(d)
  BY <1>1 DEF TaskStored, Stored
<1>2. CASE ~Crowded(d)
  <2>1. Alone(rows)
    BY <1>2 DEF Alone, Crowded, Active, Shows
  <2>2. TaskSucceeds(d)
    BY <1>2 DEF TaskStored
  <2>3. QED
    BY <2>1, <2>2, WroteEffect DEF Stored
<1>3. QED
  BY <1>1, <1>2

Closing(t) == [gtask EXCEPT ![t].status = "closed"]

\* The outcomes of the To Do steps, in these terms.
NothingDone(w) ==
    /\ UNCHANGED <<gtask, faults>>
    /\ Wrote(tx.rows, tx.newest, tx.ptr)

CreateDone(w) == \E t \in Fresh :
    \/ /\ gtask' \in {gtask, [gtask EXCEPT ![t] = Opened(t)]}
       /\ faults' = faults + 1 /\ Failed
    \/ /\ gtask' = [gtask EXCEPT ![t] = Opened(t)] /\ faults' = faults
       /\ \E n \in Latest(t) :
             Stored(w, [tx.rows EXCEPT ![t] = "active"], n, Pointing(t, w))

TwiceDone(w) == \E t \in Fresh, u, n \in TaskIds :
    /\ gtask' = [gtask EXCEPT ![t] = Opened(t), ![u] = Opened(u)]
    /\ faults' = faults + 1
    /\ Stored(w, [tx.rows EXCEPT ![u] = "active"], n, Pointing(u, w))

UpdateDone(w) == \E t \in Active(tx) :
    /\ gtask' = gtask
    /\ \/ faults' = faults + 1 /\ Failed
       \/ faults' = faults /\ \E n \in Latest(t) : Wrote(tx.rows, n, tx.ptr)

MoveUndone(w) == \E t \in Fresh :
    /\ gtask' \in {gtask, [gtask EXCEPT ![t] = Opened(t)], MovedTo(t)}
    /\ faults' = faults + 1 /\ Failed

MoveDone(w) == \E t \in Fresh, n \in TaskIds :
    /\ gtask' = MovedTo(t) /\ faults' = faults
    /\ Stored(w, MovedRows(t), n, Pointing(t, w))

MoveTwiceDone(w) == \E t \in Fresh, u, n \in TaskIds :
    /\ t # u /\ gtask' = [MovedTo(u) EXCEPT ![t] = Opened(t)]
    /\ faults' = faults + 1
    /\ Stored(w, MovedRows(u), n, Pointing(u, w))

CompleteDone(w, status) == \E t \in Active(tx) :
    \/ /\ gtask' \in {gtask, Closing(t)}
       /\ faults' = faults + 1 /\ Failed
    \/ /\ gtask' = Closing(t) /\ faults' = faults
       /\ \E n \in Latest(t) : Wrote([tx.rows EXCEPT ![t] = status], n,
                                     PointerAfter(status, w))

ReopenDone(w) ==
    LET t == tx.newest
        opening == [gtask EXCEPT ![t].status = "open"]
    IN  /\ t # Nil
        /\ \/ /\ gtask' \in {gtask, opening}
              /\ faults' = faults + 1 /\ Failed
           \/ /\ gtask' = opening /\ faults' = faults
              /\ \E n \in Latest(t) :
                    Stored(w, [tx.rows EXCEPT ![t] = "active"], n,
                           Pointing(t, w))

LEMMA OneRowStored ==
  ASSUME Core, NEW w \in Workers, NEW t \in TaskIds,
         NEW n \in TaskIds, NEW p \in TaskIds \cup {Nil},
         TaskStored(w, [Claimed EXCEPT !.rows[t] = "active", !.newest = n,
                                       !.ptr = p])
  PROVE  Stored(w, [tx.rows EXCEPT ![t] = "active"], n, p)
<1> DEFINE d == [Claimed EXCEPT !.rows[t] = "active", !.newest = n, !.ptr = p]
<1>1. TaskStored(w, d) /\ "active" \in RowStatus
  BY DEF RowStatus
<1>2. d = [Claimed EXCEPT !.rows[t] = "active", !.newest = n, !.ptr = p]
  OBVIOUS
<1> HIDE DEF d
<1>3. Shows(d, [tx.rows EXCEPT ![t] = "active"], n, p)
  BY <1>1, <1>2, OneRowShows
<1>4. QED
  BY <1>1, <1>3, StoredEffect

LEMMA CreateEffect ==
  ASSUME Core, NEW w \in Workers, TaskCreate(w)
  PROVE  CreateDone(w)
<1>1. PICK reply \in Replies, t \in Fresh :
        /\ Spend(reply)
        /\ gtask' = IF reply = "failed" THEN gtask
                    ELSE [gtask EXCEPT ![t] = Opened(t)]
        /\ IF reply # "ok" THEN TaskFails
           ELSE \E n \in Latest(t) :
                  TaskStored(w, [Claimed EXCEPT
                      !.rows[t] = "active", !.newest = n,
                      !.ptr = Pointing(t, w)])
  BY DEF TaskCreate
<1>2. CASE reply # "ok"
  BY <1>1, <1>2, FailedEffect DEF CreateDone, Spend
<1>3. CASE reply = "ok"
  <2>1. t \in TaskIds
    BY FreshType
  <2>2. PICK n \in Latest(t) :
          TaskStored(w, [Claimed EXCEPT
              !.rows[t] = "active", !.newest = n, !.ptr = Pointing(t, w)])
    BY <1>1, <1>3
  <2>3. Stored(w, [tx.rows EXCEPT ![t] = "active"], n, Pointing(t, w))
    BY <2>1, <2>2, LatestType, PointingType, OneRowStored
  <2>4. /\ gtask' = [gtask EXCEPT ![t] = Opened(t)]
        /\ faults' = faults
    BY <1>1, <1>3 DEF Spend
  <2>5. QED
    BY <2>2, <2>3, <2>4 DEF CreateDone
<1>4. QED
  BY <1>2, <1>3

LEMMA TwiceEffect ==
  ASSUME Core, NEW w \in Workers, TaskCreateTwice(w)
  PROVE  TwiceDone(w)
<1>1. PICK t \in Fresh, u \in TaskIds, n \in TaskIds :
        /\ gtask' = [gtask EXCEPT ![t] = Opened(t), ![u] = Opened(u)]
        /\ TaskStored(w, [Claimed EXCEPT
               !.rows[u] = "active", !.newest = n, !.ptr = Pointing(u, w)])
  BY DEF TaskCreateTwice
<1>2. Stored(w, [tx.rows EXCEPT ![u] = "active"], n, Pointing(u, w))
  BY <1>1, PointingType, OneRowStored
<1>3. faults' = faults + 1
  BY DEF TaskCreateTwice, Spend
<1>4. QED
  BY <1>1, <1>2, <1>3 DEF TwiceDone

LEMMA UpdateEffect ==
  ASSUME Core, NEW w \in Workers, TaskUpdate(w)
  PROVE  UpdateDone(w)
<1>1. PICK reply \in Replies, t \in Active(tx) :
        /\ Spend(reply)
        /\ IF reply # "ok" THEN TaskFails
           ELSE \E n \in Latest(t) : TaskSucceeds([Claimed EXCEPT !.newest = n])
  BY DEF TaskUpdate
<1>2. gtask' = gtask
  BY DEF TaskUpdate, external
<1>3. CASE reply # "ok"
  BY <1>1, <1>2, <1>3, FailedEffect DEF UpdateDone, Spend
<1>4. CASE reply = "ok"
  <2>1. PICK n \in Latest(t) : TaskSucceeds([Claimed EXCEPT !.newest = n])
    BY <1>1, <1>4
  <2>2. n \in TaskIds
    BY LatestType DEF Active
  <2>3. \A c : Shows(c, tx.rows, tx.newest, tx.ptr) =>
          Shows([c EXCEPT !.newest = n], tx.rows, n, tx.ptr)
    BY <2>2 DEF Shows, Store
  <2> DEFINE d == [Claimed EXCEPT !.newest = n]
  <2>4. TaskSucceeds(d) /\ Shows(d, tx.rows, n, tx.ptr)
    BY <2>1, <2>3, ClaimedShows
  <2> HIDE DEF d
  <2>5. Wrote(tx.rows, n, tx.ptr)
    BY <2>4, WroteEffect
  <2>6. QED
    BY <1>1, <1>2, <1>4, <2>1, <2>5 DEF UpdateDone, Spend
<1>5. QED
  BY <1>3, <1>4

LEMMA NothingEffect ==
  ASSUME Core, NEW w \in Workers, TaskNothing(w)
  PROVE  NothingDone(w)
<1>1. Wrote(tx.rows, tx.newest, tx.ptr)
  BY ClaimedShows, WroteEffect DEF TaskNothing
<1>2. QED
  BY <1>1 DEF TaskNothing, NothingDone, external

LEMMA MoveUndoneEffect ==
  ASSUME Core, NEW w \in Workers, TaskMoveUncreated(w) \/ TaskMoveUnclosed(w)
  PROVE  MoveUndone(w)
  BY FailedEffect DEF TaskMoveUncreated, TaskMoveUnclosed, MoveUndone, Spend

LEMMA MovedStored ==
  ASSUME Core, NEW w \in Workers, NEW t \in TaskIds, NEW n \in TaskIds,
         TaskStored(w, [Claimed EXCEPT !.rows = MovedRows(t), !.newest = n,
                                       !.ptr = Pointing(t, w)])
  PROVE  Stored(w, MovedRows(t), n, Pointing(t, w))
<1>1. MovedRows(t) \in [TaskIds -> RowStatus]
      /\ Pointing(t, w) \in TaskIds \cup {Nil}
  BY MovedRowsType, PointingType
<1> DEFINE d == [Claimed EXCEPT !.rows = MovedRows(t), !.newest = n,
                                !.ptr = Pointing(t, w)]
<1>2. TaskStored(w, d)
  OBVIOUS
<1>3. d = [Claimed EXCEPT !.rows = MovedRows(t), !.newest = n,
                          !.ptr = Pointing(t, w)]
  OBVIOUS
<1> HIDE DEF d
<1>4. Shows(d, MovedRows(t), n, Pointing(t, w))
  BY <1>1, <1>3, RowsShow
<1>5. QED
  BY <1>2, <1>4, StoredEffect

LEMMA MoveEffect ==
  ASSUME Core, NEW w \in Workers, TaskMove(w)
  PROVE  MoveDone(w)
<1>1. PICK t \in Fresh, n \in TaskIds :
        /\ gtask' = MovedTo(t)
        /\ TaskStored(w, [Claimed EXCEPT !.rows = MovedRows(t), !.newest = n,
                                         !.ptr = Pointing(t, w)])
  BY DEF TaskMove
<1>2. Stored(w, MovedRows(t), n, Pointing(t, w))
  BY <1>1, FreshType, MovedStored
<1>3. QED
  BY <1>1, <1>2 DEF MoveDone, TaskMove

LEMMA MoveTwiceEffect ==
  ASSUME Core, NEW w \in Workers, TaskMoveTwice(w)
  PROVE  MoveTwiceDone(w)
<1>1. PICK t \in Fresh, u \in TaskIds, n \in TaskIds :
        /\ u = t + 1 /\ gtask' = [MovedTo(u) EXCEPT ![t] = Opened(t)]
        /\ TaskStored(w, [Claimed EXCEPT !.rows = MovedRows(u), !.newest = n,
                                         !.ptr = Pointing(u, w)])
  BY DEF TaskMoveTwice
<1>2. Stored(w, MovedRows(u), n, Pointing(u, w))
  BY <1>1, MovedStored
<1>3. faults' = faults + 1 /\ t # u
  BY <1>1, FreshType DEF TaskMoveTwice, Spend, TaskIds
<1>4. QED
  BY <1>1, <1>2, <1>3 DEF MoveTwiceDone

LEMMA CompleteEffect ==
  ASSUME Core, NEW w \in Workers, NEW kind, NEW status \in {"soft", "hard"},
         TaskComplete(w, kind, status)
  PROVE  CompleteDone(w, status)
<1>1. PICK reply \in Replies, t \in Active(tx) :
        /\ Spend(reply)
        /\ gtask' = IF reply = "failed" THEN gtask ELSE Closing(t)
        /\ IF reply # "ok" THEN TaskFails
           ELSE \E n \in Latest(t) :
                  TaskSucceeds([Claimed EXCEPT
                      !.rows[t] = status, !.newest = n,
                      !.ptr = PointerAfter(status, w)])
  BY DEF TaskComplete, Closing
<1>2. CASE reply # "ok"
  BY <1>1, <1>2, FailedEffect DEF CompleteDone, Spend
<1>3. CASE reply = "ok"
  <2>1. t \in TaskIds /\ status \in RowStatus
    BY DEF Active, RowStatus
  <2>2. PICK n \in Latest(t) :
          TaskSucceeds([Claimed EXCEPT
              !.rows[t] = status, !.newest = n,
              !.ptr = PointerAfter(status, w)])
    BY <1>1, <1>3
  <2> DEFINE p == PointerAfter(status, w)
             d == [Claimed EXCEPT !.rows[t] = status, !.newest = n, !.ptr = p]
  <2>3. n \in TaskIds /\ p \in TaskIds \cup {Nil}
    BY <2>1, LatestType DEF PointerAfter, Column, Core, Store
  <2>4. TaskSucceeds(d)
    BY <2>2
  <2>5. d = [Claimed EXCEPT !.rows[t] = status, !.newest = n, !.ptr = p]
    OBVIOUS
  <2> HIDE DEF d, p
  <2>6. Shows(d, [tx.rows EXCEPT ![t] = status], n, p)
    BY <2>1, <2>3, <2>5, OneRowShows
  <2>7. Wrote([tx.rows EXCEPT ![t] = status], n, p)
    BY <2>4, <2>6, WroteEffect
  <2>8. gtask' = Closing(t) /\ faults' = faults
    BY <1>1, <1>3 DEF Spend
  <2>9. QED
    BY <2>2, <2>7, <2>8 DEF CompleteDone, p
<1>4. QED
  BY <1>2, <1>3

LEMMA ReopenEffect ==
  ASSUME Core, NEW w \in Workers, TaskReopen(w)
  PROVE  ReopenDone(w)
<1> DEFINE t == tx.newest
           opening == [gtask EXCEPT ![t].status = "open"]
<1>1. PICK reply \in Replies :
        /\ Spend(reply)
        /\ gtask' = IF reply = "failed" THEN gtask ELSE opening
        /\ IF reply # "ok" THEN TaskFails
           ELSE \E n \in Latest(t) :
                  TaskStored(w, [Claimed EXCEPT
                      !.rows[t] = "active",
                      !.newest = n, !.ptr = Pointing(t, w)])
  BY DEF TaskReopen
<1>2. t \in TaskIds /\ t # Nil
  BY DEF TaskReopen, Core, Store
<1>3. CASE reply # "ok"
  BY <1>1, <1>2, <1>3, FailedEffect DEF ReopenDone, Spend
<1>4. CASE reply = "ok"
  <2> HIDE DEF t, opening
  <2>1. PICK n \in Latest(t) :
          TaskStored(w, [Claimed EXCEPT
              !.rows[t] = "active", !.newest = n, !.ptr = Pointing(t, w)])
    BY <1>1, <1>4
  <2>2. Stored(w, [tx.rows EXCEPT ![t] = "active"], n, Pointing(t, w))
    BY <1>2, <2>1, LatestType, PointingType, OneRowStored
  <2>3. gtask' = opening /\ faults' = faults
    BY <1>1, <1>4 DEF Spend
  <2>4. QED
    BY <1>2, <2>1, <2>2, <2>3 DEF ReopenDone, t, opening
<1>5. QED
  BY <1>3, <1>4

LEMMA TaskStepEffect ==
  ASSUME Core, NEW w \in Workers, TaskStep(w)
  PROVE  \/ TaskSkipped(w) \/ NothingDone(w) \/ CreateDone(w)
         \/ TwiceDone(w) \/ UpdateDone(w) \/ MoveUndone(w) \/ MoveDone(w)
         \/ MoveTwiceDone(w)
         \/ CompleteDone(w, "soft") \/ CompleteDone(w, "hard")
         \/ ReopenDone(w)
  BY NothingEffect, CreateEffect, TwiceEffect, UpdateEffect, MoveUndoneEffect,
     MoveEffect, MoveTwiceEffect, CompleteEffect, ReopenEffect DEF TaskStep

-----------------------------------------------------------------------------
(* LeaksAreAccounted is about the committed rows when nobody holds the lock. *)
(* While a run is under way it holds of the rows in view, and of the         *)
(* committed ones but for the task the run has just opened; and up to its    *)
(* To Do step a run sees the rows that are committed.                        *)

Stray(rows) == {t \in TaskIds : gtask[t].status = "open" /\ rows[t] # "active"}

Accounts ==
    /\ Cardinality(Stray(tx.rows)) <= faults + refused
    /\ Cardinality(Stray(db.rows)) <= faults + refused + 1
    /\ writer = Nobody => tx = db
    /\ stage = "task" => tx.rows = db.rows

StrayAfter(rows) ==
    {t \in TaskIds : gtask'[t].status = "open" /\ rows[t] # "active"}

\* What a step may add to the stray tasks, against what it spends.
Grows(cost, inView, committed) ==
    /\ faults' + refused' = faults + refused + cost
    /\ StrayAfter(tx'.rows) \subseteq Stray(tx.rows) \cup inView
    /\ StrayAfter(db'.rows) \subseteq Stray(db.rows) \cup committed

StepGrows == \E t, u : \/ Grows(0, {}, {t})
                       \/ Grows(1, {t}, {t, u})
                       \/ Grows(2, {t, u}, {t, u})

\* One element more.
LEMMA OneMore ==
  ASSUME NEW S \in SUBSET TaskIds, NEW x, NEW T, T \subseteq S \cup {x}
  PROVE  /\ Cardinality(T) <= Cardinality(S) + 1
         /\ Cardinality(S) \in Nat /\ Cardinality(T) \in Nat
<1>1. IsFiniteSet(TaskIds)
  BY FS_Interval, PipelineAssumption DEF TaskIds
<1>2. IsFiniteSet(S)
  BY <1>1, FS_Subset
<1>3. /\ IsFiniteSet(S \cup {x})
      /\ Cardinality(S \cup {x}) = IF x \in S THEN Cardinality(S)
                                   ELSE Cardinality(S) + 1
  BY <1>2, FS_AddElement
<1>4. Cardinality(T) <= Cardinality(S \cup {x}) /\ IsFiniteSet(T)
  BY <1>3, FS_Subset
<1>5. Cardinality(S) \in Nat /\ Cardinality(T) \in Nat
  BY <1>2, <1>4, FS_CardinalityType
<1>6. QED
  BY <1>3, <1>4, <1>5

\* None, one or two elements more.
LEMMA Growth ==
  ASSUME NEW S \in SUBSET TaskIds, NEW T \in SUBSET TaskIds, NEW t, NEW u
  PROVE  /\ T \subseteq S => Cardinality(T) <= Cardinality(S)
         /\ T \subseteq S \cup {t} => Cardinality(T) <= Cardinality(S) + 1
         /\ T \subseteq S \cup {t, u} => Cardinality(T) <= Cardinality(S) + 2
         /\ Cardinality(S) \in Nat /\ Cardinality(T) \in Nat
<1> IsFiniteSet(TaskIds)
  BY FS_Interval, PipelineAssumption DEF TaskIds
<1>1. IsFiniteSet(S)
  BY FS_Subset
<1>2. T \subseteq S => Cardinality(T) <= Cardinality(S)
  BY <1>1, FS_Subset
<1>3. /\ T \subseteq S \cup {t} => Cardinality(T) <= Cardinality(S) + 1
      /\ Cardinality(S) \in Nat
  BY OneMore
<1>4. ASSUME T \subseteq S \cup {t, u}
      PROVE  Cardinality(T) <= Cardinality(S) + 2
  <2> DEFINE R == T \ {u}
  <2>1. R \in SUBSET TaskIds /\ R \subseteq S \cup {t} /\ T \subseteq R \cup {u}
    BY <1>4
  <2>2. Cardinality(R) <= Cardinality(S) + 1
    BY <2>1, OneMore
  <2>3. Cardinality(T) <= Cardinality(R) + 1 /\ Cardinality(R) \in Nat
    BY <2>1, OneMore
  <2>4. Cardinality(T) \in Nat
    BY <2>1, OneMore
  <2>5. QED
    BY <1>3, <2>2, <2>3, <2>4
<1>5. Cardinality(T) \in Nat
  BY OneMore
<1>6. QED
  BY <1>2, <1>3, <1>4, <1>5

LEMMA Sums ==
  ASSUME NEW a \in Nat, NEW b \in Nat, NEW c \in Nat, NEW d \in Nat,
         NEW n \in Nat, NEW m \in Nat, a <= n, b <= n,
         \/ m = n + 0 /\ c <= a /\ d <= b + 1
         \/ m = n + 1 /\ c <= a + 1 /\ d <= b + 2
         \/ m = n + 2 /\ c <= a + 2 /\ d <= b + 2
  PROVE  c <= m /\ d <= m + 1
  OBVIOUS

\* A step that pays for what it leaves behind keeps the account.
LEMMA GrowsBounded ==
  ASSUME faults \in Nat, refused \in Nat, faults' \in Nat, refused' \in Nat,
         Accounts, tx.rows = db.rows, StepGrows
  PROVE  /\ Cardinality(StrayAfter(tx'.rows)) <= faults' + refused'
         /\ Cardinality(StrayAfter(db'.rows)) <= faults' + refused' + 1
<1>2. \A f, r \in Nat : f + r \in Nat
  OBVIOUS
<1> DEFINE A == Stray(tx.rows)
           B == Stray(db.rows)
           C == StrayAfter(tx'.rows)
           D == StrayAfter(db'.rows)
           n == faults + refused
           m == faults' + refused'
<1>1. /\ A \in SUBSET TaskIds /\ B \in SUBSET TaskIds
      /\ C \in SUBSET TaskIds /\ D \in SUBSET TaskIds
  BY DEF Stray, StrayAfter
<1>0. n \in Nat /\ m \in Nat
  BY <1>2
<1>3. Cardinality(A) <= n /\ Cardinality(B) <= n
  BY DEF Accounts
<1>4. PICK t, u : \/ Grows(0, {}, {t})
                  \/ Grows(1, {t}, {t, u})
                  \/ Grows(2, {t, u}, {t, u})
  BY DEF StepGrows
<1>5. \/ m = n + 0 /\ C \subseteq A /\ D \subseteq B \cup {t}
      \/ m = n + 1 /\ C \subseteq A \cup {t} /\ D \subseteq B \cup {t, u}
      \/ m = n + 2 /\ C \subseteq A \cup {t, u} /\ D \subseteq B \cup {t, u}
  BY <1>4 DEF Grows
<1>6. Cardinality(A) \in Nat /\ Cardinality(B) \in Nat
      /\ Cardinality(C) \in Nat /\ Cardinality(D) \in Nat
  BY <1>1, Growth
<1> HIDE DEF A, B, C, D, n, m
<1>7. /\ C \subseteq A => Cardinality(C) <= Cardinality(A)
      /\ C \subseteq A \cup {t} => Cardinality(C) <= Cardinality(A) + 1
      /\ C \subseteq A \cup {t, u} => Cardinality(C) <= Cardinality(A) + 2
  BY <1>1, Growth
<1>8. /\ D \subseteq B \cup {t} => Cardinality(D) <= Cardinality(B) + 1
      /\ D \subseteq B \cup {t, u} => Cardinality(D) <= Cardinality(B) + 2
  BY <1>1, Growth
<1> DEFINE a == Cardinality(A)
           b == Cardinality(B)
           c == Cardinality(C)
           d == Cardinality(D)
<1>9. \/ m = n + 0 /\ c <= a /\ d <= b + 1
      \/ m = n + 1 /\ c <= a + 1 /\ d <= b + 2
      \/ m = n + 2 /\ c <= a + 2 /\ d <= b + 2
  BY <1>5, <1>7, <1>8
<1>10. /\ a \in Nat /\ b \in Nat /\ c \in Nat /\ d \in Nat
       /\ a <= n /\ b <= n
  BY <1>3, <1>6
<1> HIDE DEF a, b, c, d
<1>11. c <= m /\ d <= m + 1
  BY <1>0, <1>9, <1>10, Sums
<1>12. QED
  BY <1>11 DEF C, D, c, d, m

\* Only the tasks of N are opened by the step.
Opens(N) ==
    \A t \in TaskIds : gtask'[t].status = "open" =>
        gtask[t].status = "open" \/ t \in N

\* The rows stay as they are, and something is paid.
LEMMA KeptGrows ==
  ASSUME faults \in Nat, refused \in Nat, tx.rows = db.rows,
         NEW t, NEW u, Opens({t, u}),
         tx'.rows = tx.rows, db'.rows = db.rows,
         \/ u = t /\ faults' + refused' = faults + refused + 1
         \/ faults' + refused' = faults + refused + 2
  PROVE  StepGrows
<1>1. /\ StrayAfter(tx'.rows) \subseteq Stray(tx.rows) \cup {t, u}
      /\ StrayAfter(db'.rows) \subseteq Stray(db.rows) \cup {t, u}
  BY DEF Stray, StrayAfter, Opens
<1>2. QED
  BY <1>1 DEF StepGrows, Grows

\* The unique index refuses the row: what was opened stays open.
LEMMA RefusedGrows ==
  ASSUME TypeOK, tx.rows = db.rows, NEW w, NEW t, NEW u, Opens({t, u}),
         Refused(w), \/ u = t /\ faults' = faults
                     \/ faults' = faults + 1
  PROVE  StepGrows
<1>1. tx'.rows = tx.rows /\ db'.rows = db.rows
  BY DEF Refused, Rollback
<1>2. faults \in Nat /\ refused \in Nat /\ refused' = refused + 1
  BY DEF TypeOK, Refused
<1>3. \/ u = t /\ faults' + refused' = faults + refused + 1
      \/ faults' + refused' = faults + refused + 2
  BY <1>2
<1>4. QED
  BY <1>1, <1>2, <1>3, KeptGrows

\* A failed call may have opened one task.
LEMMA FailedGrows ==
  ASSUME TypeOK, tx.rows = db.rows, NEW t, Opens({t}),
         Failed, faults' = faults + 1
  PROVE  StepGrows
<1>1. /\ faults \in Nat /\ refused \in Nat /\ refused' = refused
      /\ tx'.rows = tx.rows /\ db'.rows = db.rows
  BY DEF TypeOK, Failed
<1>2. faults' + refused' = faults + refused + 1
  BY <1>1
<1>3. Opens({t, t})
  BY DEF Opens
<1>4. QED
  BY <1>1, <1>2, <1>3, KeptGrows

\* Every open task is one of an active row, or was one of the same row before,
\* or is the task t that was opened besides u.
Settled(rows, t, u) ==
    \A x \in TaskIds : \/ rows[x] = "active"
                       \/ gtask'[x].status # "open"
                       \/ x # u /\ rows[x] = tx.rows[x]
                       \/ x # u /\ x = t

\* Rows are written: the tasks of the rows that stop being active are closed,
\* and a task that is opened is one of an active row, or paid for.
LEMMA WroteGrows ==
  ASSUME TypeOK, NEW t, NEW u, NEW rows, NEW n, NEW p, Wrote(rows, n, p),
         Opens({t, u}), Settled(rows, t, u),
         \/ u = t /\ faults' = faults
         \/ faults' = faults + 1
  PROVE  StepGrows
<1>1. /\ faults \in Nat /\ refused \in Nat /\ refused' = refused
      /\ tx'.rows = rows /\ db' = db
  BY DEF TypeOK, Wrote
<1>2. StrayAfter(db'.rows) \subseteq Stray(db.rows) \cup {t, u}
  BY <1>1 DEF Stray, StrayAfter, Opens
<1>3. StrayAfter(tx'.rows) \subseteq Stray(tx.rows) \cup ({t} \ {u})
  BY <1>1 DEF Stray, StrayAfter, Opens, Settled
<1>4. CASE u = t /\ faults' = faults
  <2>1. faults' + refused' = faults + refused + 0
    BY <1>1, <1>4
  <2>2. Grows(0, {}, {t})
    BY <1>2, <1>3, <1>4, <2>1 DEF Grows
  <2>3. QED
    BY <2>2 DEF StepGrows
<1>5. CASE faults' = faults + 1
  <2>1. faults' + refused' = faults + refused + 1
    BY <1>1, <1>5
  <2>2. Grows(1, {t}, {t, u})
    BY <1>2, <1>3, <2>1 DEF Grows
  <2>3. QED
    BY <2>2 DEF StepGrows
<1>6. QED
  BY <1>4, <1>5

\* What the steps open.
LEMMA OpensOne ==
  ASSUME gtask \in Tasks, NEW t \in TaskIds,
         gtask' \in {gtask, [gtask EXCEPT ![t] = Opened(t)], MovedTo(t),
                    Closing(t), [gtask EXCEPT ![t].status = "open"]}
  PROVE  Opens({t}) /\ Opens({t, t})
<1>1. Opens({t})
  BY DEF Opens, Tasks, Opened, MovedTo, Closing
<1>2. QED
  BY <1>1 DEF Opens

LEMMA CreateGrows ==
  ASSUME TypeOK, tx.rows = db.rows, NEW w \in Workers, CreateDone(w)
  PROVE  StepGrows
<1>1. PICK t \in TaskIds :
        \/ /\ gtask' \in {gtask, [gtask EXCEPT ![t] = Opened(t)]}
           /\ faults' = faults + 1 /\ Failed
        \/ /\ gtask' = [gtask EXCEPT ![t] = Opened(t)] /\ faults' = faults
           /\ \E n \in Latest(t) :
                 Stored(w, [tx.rows EXCEPT ![t] = "active"], n, Pointing(t, w))
  BY FreshType DEF CreateDone
<1>2. gtask \in Tasks /\ tx.rows \in [TaskIds -> RowStatus]
  BY DEF TypeOK, Tasks, Store
<1>3. Opens({t}) /\ Opens({t, t})
  BY <1>1, <1>2, OpensOne
<1>4. CASE Failed /\ faults' = faults + 1
  BY <1>3, <1>4, FailedGrows
<1>5. ASSUME NEW n, faults' = faults,
             Stored(w, [tx.rows EXCEPT ![t] = "active"], n, Pointing(t, w))
      PROVE  StepGrows
  <2>1. Settled([tx.rows EXCEPT ![t] = "active"], t, t)
    BY <1>2 DEF Settled
  <2>2. CASE Refused(w)
    BY <1>3, <1>5, <2>2, RefusedGrows
  <2>3. CASE Wrote([tx.rows EXCEPT ![t] = "active"], n, Pointing(t, w))
    BY <1>3, <1>5, <2>1, <2>3, WroteGrows
  <2>4. QED
    BY <1>5, <2>2, <2>3 DEF Stored
<1>6. QED
  BY <1>1, <1>4, <1>5

LEMMA ReopenGrows ==
  ASSUME TypeOK, tx.rows = db.rows, NEW w \in Workers, ReopenDone(w)
  PROVE  StepGrows
<1> DEFINE t == tx.newest
<1>1. t \in TaskIds
  BY DEF ReopenDone, TypeOK, Store
<1>2. gtask \in Tasks /\ tx.rows \in [TaskIds -> RowStatus]
  BY DEF TypeOK, Tasks, Store
<1>3. \/ /\ gtask' \in {gtask, [gtask EXCEPT ![t].status = "open"]}
         /\ faults' = faults + 1 /\ Failed
      \/ /\ gtask' = [gtask EXCEPT ![t].status = "open"] /\ faults' = faults
         /\ \E n \in Latest(t) :
               Stored(w, [tx.rows EXCEPT ![t] = "active"], n, Pointing(t, w))
  BY DEF ReopenDone
<1> HIDE DEF t
<1>4. Opens({t}) /\ Opens({t, t})
  BY <1>1, <1>2, <1>3, OpensOne
<1>5. CASE Failed /\ faults' = faults + 1
  BY <1>4, <1>5, FailedGrows
<1>6. ASSUME NEW n, faults' = faults,
             Stored(w, [tx.rows EXCEPT ![t] = "active"], n, Pointing(t, w))
      PROVE  StepGrows
  <2>1. Settled([tx.rows EXCEPT ![t] = "active"], t, t)
    BY <1>1, <1>2 DEF Settled
  <2>2. CASE Refused(w)
    BY <1>4, <1>6, <2>2, RefusedGrows
  <2>3. CASE Wrote([tx.rows EXCEPT ![t] = "active"], n, Pointing(t, w))
    BY <1>4, <1>6, <2>1, <2>3, WroteGrows
  <2>4. QED
    BY <1>6, <2>2, <2>3 DEF Stored
<1>7. QED
  BY <1>3, <1>5, <1>6

LEMMA TwiceGrows ==
  ASSUME TypeOK, tx.rows = db.rows, NEW w \in Workers, TwiceDone(w)
  PROVE  StepGrows
<1>1. PICK t \in TaskIds, u \in TaskIds, n \in TaskIds :
        /\ gtask' = [gtask EXCEPT ![t] = Opened(t), ![u] = Opened(u)]
        /\ faults' = faults + 1
        /\ Stored(w, [tx.rows EXCEPT ![u] = "active"], n, Pointing(u, w))
  BY FreshType DEF TwiceDone
<1>2. gtask \in Tasks /\ tx.rows \in [TaskIds -> RowStatus]
  BY DEF TypeOK, Tasks, Store
<1>3. Opens({t, u})
  BY <1>1, <1>2 DEF Opens, Tasks
<1>4. Settled([tx.rows EXCEPT ![u] = "active"], t, u)
  BY <1>2 DEF Settled
<1>5. CASE Refused(w)
  BY <1>1, <1>3, <1>5, RefusedGrows
<1>6. CASE Wrote([tx.rows EXCEPT ![u] = "active"], n, Pointing(u, w))
  BY <1>1, <1>3, <1>4, <1>6, WroteGrows
<1>7. QED
  BY <1>1, <1>5, <1>6 DEF Stored

LEMMA MoveGrows ==
  ASSUME TypeOK, tx.rows = db.rows, NEW w \in Workers, MoveDone(w)
  PROVE  StepGrows
<1>1. PICK t \in TaskIds, n \in TaskIds :
        /\ gtask' = MovedTo(t) /\ faults' = faults
        /\ Stored(w, MovedRows(t), n, Pointing(t, w))
  BY FreshType DEF MoveDone
<1>2. gtask \in Tasks
  BY DEF TypeOK, Tasks
<1>3. Opens({t, t})
  BY <1>1, <1>2, OpensOne
<1>4. Settled(MovedRows(t), t, t)
  BY <1>1, <1>2 DEF Settled, MovedRows, MovedTo, Active, Tasks
<1>5. CASE Refused(w)
  BY <1>1, <1>3, <1>5, RefusedGrows
<1>6. CASE Wrote(MovedRows(t), n, Pointing(t, w))
  BY <1>1, <1>3, <1>4, <1>6, WroteGrows
<1>7. QED
  BY <1>1, <1>5, <1>6 DEF Stored

LEMMA MoveTwiceGrows ==
  ASSUME TypeOK, tx.rows = db.rows, NEW w \in Workers, MoveTwiceDone(w)
  PROVE  StepGrows
<1>1. PICK t \in TaskIds, u \in TaskIds, n \in TaskIds :
        /\ t # u /\ gtask' = [MovedTo(u) EXCEPT ![t] = Opened(t)]
        /\ faults' = faults + 1
        /\ Stored(w, MovedRows(u), n, Pointing(u, w))
  BY FreshType DEF MoveTwiceDone
<1>2. gtask \in Tasks
  BY DEF TypeOK, Tasks
<1>3. Opens({t, u})
  BY <1>1, <1>2 DEF Opens, MovedTo, Tasks
<1>4. Settled(MovedRows(u), t, u)
  <2>1. \A x \in TaskIds : gtask'[x] = IF x = t THEN Opened(t) ELSE MovedTo(u)[x]
    BY <1>1 DEF MovedTo
  <2>2. \A x \in TaskIds : x \notin {t, u} /\ x \in Active(tx) =>
           gtask'[x].status = "closed"
    BY <1>2, <2>1 DEF MovedTo, Tasks
  <2>3. QED
    BY <2>2 DEF Settled, MovedRows, Active
<1>5. CASE Refused(w)
  BY <1>1, <1>3, <1>5, RefusedGrows
<1>6. CASE Wrote(MovedRows(u), n, Pointing(u, w))
  BY <1>1, <1>3, <1>4, <1>6, WroteGrows
<1>7. QED
  BY <1>1, <1>5, <1>6 DEF Stored

LEMMA CompleteGrows ==
  ASSUME TypeOK, tx.rows = db.rows, NEW w \in Workers,
         NEW status \in {"soft", "hard"}, CompleteDone(w, status)
  PROVE  StepGrows
<1>1. PICK t \in TaskIds :
        \/ /\ gtask' \in {gtask, Closing(t)}
           /\ faults' = faults + 1 /\ Failed
        \/ /\ gtask' = Closing(t) /\ faults' = faults
           /\ \E n \in Latest(t) : Wrote([tx.rows EXCEPT ![t] = status], n,
                                         PointerAfter(status, w))
  BY DEF CompleteDone, Active
<1>2. gtask \in Tasks /\ tx.rows \in [TaskIds -> RowStatus]
  BY DEF TypeOK, Tasks, Store
<1>3. Opens({t}) /\ Opens({t, t})
  BY <1>1, <1>2, OpensOne
<1>4. CASE Failed /\ faults' = faults + 1
  BY <1>3, <1>4, FailedGrows
<1>5. ASSUME NEW n, gtask' = Closing(t), faults' = faults,
             Wrote([tx.rows EXCEPT ![t] = status], n, PointerAfter(status, w))
      PROVE  StepGrows
  <2>1. Settled([tx.rows EXCEPT ![t] = status], t, t)
    BY <1>2, <1>5 DEF Settled, Closing, Tasks
  <2>2. QED
    BY <1>3, <1>5, <2>1, WroteGrows
<1>6. QED
  BY <1>1, <1>4, <1>5

\* A step that opens nothing and leaves the rows alone.
LEMMA QuietGrows ==
  ASSUME TypeOK, tx.rows = db.rows, gtask' = gtask,
         NEW n, NEW p, Wrote(tx.rows, n, p), faults' = faults
  PROVE  StepGrows
<1>1. /\ tx'.rows = tx.rows /\ db'.rows = db.rows
      /\ faults \in Nat /\ refused \in Nat /\ refused' = refused
  BY DEF Wrote, TypeOK
<1>2. faults' + refused' = faults + refused + 0
  BY <1>1
<1>3. Grows(0, {}, {0})
  BY <1>1, <1>2 DEF Grows, Stray, StrayAfter
<1>4. QED
  BY <1>3 DEF StepGrows

LEMMA UpdateGrows ==
  ASSUME TypeOK, tx.rows = db.rows, NEW w \in Workers, UpdateDone(w)
  PROVE  StepGrows
<1>1. PICK t \in Active(tx) :
        /\ gtask' = gtask
        /\ \/ faults' = faults + 1 /\ Failed
           \/ faults' = faults /\ \E n \in Latest(t) :
                                    Wrote(tx.rows, n, tx.ptr)
  BY DEF UpdateDone
<1>2. Opens({t})
  BY <1>1 DEF Opens
<1>3. QED
  BY <1>1, <1>2, FailedGrows, QuietGrows

LEMMA MoveUndoneGrows ==
  ASSUME TypeOK, tx.rows = db.rows, NEW w \in Workers, MoveUndone(w)
  PROVE  StepGrows
<1>1. PICK t \in TaskIds :
        /\ gtask' \in {gtask, [gtask EXCEPT ![t] = Opened(t)], MovedTo(t)}
        /\ faults' = faults + 1 /\ Failed
  BY FreshType DEF MoveUndone
<1>2. gtask \in Tasks
  BY DEF TypeOK, Tasks
<1>3. Opens({t})
  BY <1>1, <1>2, OpensOne
<1>4. QED
  BY <1>1, <1>3, FailedGrows

LEMMA TaskStepGrows ==
  ASSUME TypeOK, tx.rows = db.rows, NEW w \in Workers, TaskStep(w),
         ~TaskSkipped(w)
  PROVE  StepGrows
<1>1. Core
  BY Halves
<1>2. QED
  BY <1>1, TaskStepEffect, QuietGrows, CreateGrows, TwiceGrows, UpdateGrows,
     MoveUndoneGrows, MoveGrows, MoveTwiceGrows, CompleteGrows, ReopenGrows
     DEF NothingDone

\* After a To Do step the lock is free and the rows are the committed ones,
\* or the run is at its label step.
LEMMA TaskStepLeaves ==
  ASSUME TypeOK, Accounts, NEW w \in Workers, TaskStep(w)
  PROVE  /\ writer' = Nobody => tx' = db'
         /\ stage' # "task"
<1>1. writer = w /\ w # Nobody
  BY PipelineAssumption
     DEF TaskStep, TaskSkipped, TaskNothing, TaskCreate, TaskCreateTwice,
         TaskUpdate, TaskMoveUncreated, TaskMoveUnclosed, TaskMove,
         TaskMoveTwice, MoveTurn,
         TaskComplete, TaskReopen, Performs, TaskTurn
<1>2. CASE TaskSkipped(w)
  BY <1>1, <1>2 DEF TaskSkipped
<1>3. CASE Ends(w)
  BY <1>1, <1>3 DEF Ends, TaskFails, TaskSucceeds, Rollback, Release
<1>4. QED
  BY <1>2, <1>3, TaskStepType

LEMMA TaskStepAccounts ==
  ASSUME TypeOK, Accounts, NEW w \in Workers, TaskStep(w)
  PROVE  Accounts'
<1>1. stage = "task"
  BY DEF TaskStep, TaskSkipped, TaskNothing, TaskCreate, TaskCreateTwice,
         TaskUpdate, TaskMoveUncreated, TaskMoveUnclosed, TaskMove,
         TaskMoveTwice, MoveTurn,
         TaskComplete, TaskReopen, Performs, TaskTurn
<1>2. tx.rows = db.rows
  BY <1>1 DEF Accounts
<1>3. (writer' = Nobody => tx' = db') /\ stage' # "task"
  BY TaskStepLeaves
<1>4. CASE TaskSkipped(w)
  BY <1>3, <1>4 DEF TaskSkipped, Accounts, Stray, external, counters
<1>5. CASE ~TaskSkipped(w)
  <2>1. TypeOK'
    BY TaskStepType
  <2>2. /\ faults \in Nat /\ refused \in Nat
        /\ faults' \in Nat /\ refused' \in Nat
    BY <2>1 DEF TypeOK
  <2>3. StepGrows
    BY <1>2, <1>5, TaskStepGrows
  <2>4. /\ Cardinality(StrayAfter(tx'.rows)) <= faults' + refused'
        /\ Cardinality(StrayAfter(db'.rows)) <= faults' + refused' + 1
    BY <1>2, <2>2, <2>3, GrowsBounded
  <2>5. StrayAfter(tx'.rows) = Stray(tx.rows)'
        /\ StrayAfter(db'.rows) = Stray(db.rows)'
    BY DEF Stray, StrayAfter
  <2>6. QED
    BY <1>3, <2>4, <2>5 DEF Accounts
<1>6. QED
  BY <1>4, <1>5

\* Steps that leave the tasks and their rows alone.
LEMMA StillAccounts ==
  ASSUME TypeOK, Accounts, gtask' = gtask, refused' = refused,
         tx'.rows = tx.rows, db'.rows = db.rows,
         faults' \in {faults, faults + 1},
         writer' = Nobody => tx' = db',
         stage' = "task" => tx'.rows = db'.rows
  PROVE  Accounts'
<1>1. /\ Stray(tx.rows)' = Stray(tx.rows)
      /\ Stray(db.rows)' = Stray(db.rows)
  BY DEF Stray
<1>2. /\ Stray(tx.rows) \in SUBSET TaskIds
      /\ Stray(db.rows) \in SUBSET TaskIds
  BY DEF Stray
<1>3. Cardinality(Stray(tx.rows)) \in Nat /\ Cardinality(Stray(db.rows)) \in Nat
  BY <1>2, OneMore
<1>4. \A a, b, f, r, g \in Nat :
        a <= f + r /\ b <= f + r + 1 /\ g \in {f, f + 1}
        => a <= g + r /\ b <= g + r + 1
  OBVIOUS
<1>5. faults \in Nat /\ refused \in Nat /\ faults' \in Nat
  BY DEF TypeOK
<1>6. /\ Cardinality(Stray(tx.rows)) <= faults' + refused
      /\ Cardinality(Stray(db.rows)) <= faults' + refused + 1
  BY <1>3, <1>4, <1>5 DEF Accounts
<1>7. QED
  BY <1>1, <1>6 DEF Accounts

\* The rows in view are committed, and nobody holds the lock.
LEMMA CommitAccounts ==
  ASSUME TypeOK, Accounts, NEW w \in Workers, Commit(w)
  PROVE  Accounts'
<1>1. /\ tx' = db' /\ tx'.rows = tx.rows /\ gtask' = gtask
      /\ faults' = faults /\ refused' = refused /\ stage' = "free"
  BY DEF Commit, Release, external, counters, TypeOK, Store
<1>2. Stray(tx.rows)' = Stray(tx.rows) /\ Stray(db.rows)' = Stray(tx.rows)
  BY <1>1 DEF Stray
<1>3. Stray(tx.rows) \in SUBSET TaskIds
  BY DEF Stray
<1>4. Cardinality(Stray(tx.rows)) \in Nat
  BY <1>3, OneMore
<1>5. \A a, f, r \in Nat : a <= f + r => a <= f + r + 1
  OBVIOUS
<1>6. faults \in Nat /\ refused \in Nat
  BY DEF TypeOK
<1>7. Cardinality(Stray(tx.rows)) <= faults + refused + 1
  BY <1>4, <1>5, <1>6 DEF Accounts
<1>8. QED
  BY <1>1, <1>2, <1>7 DEF Accounts

\* A run that dies leaves its open task behind: it counts as a fault.
LEMMA CrashAccounts ==
  ASSUME TypeOK, Accounts, Crash
  PROVE  Accounts'
<1>1. /\ tx' = db /\ db' = db /\ gtask' = gtask
      /\ faults' = faults + 1 /\ refused' = refused /\ stage' = "free"
  BY DEF Crash, external
<1>2. Stray(tx.rows)' = Stray(db.rows) /\ Stray(db.rows)' = Stray(db.rows)
  BY <1>1 DEF Stray
<1>3. Stray(db.rows) \in SUBSET TaskIds
  BY DEF Stray
<1>4. Cardinality(Stray(db.rows)) \in Nat
  BY <1>3, OneMore
<1>5. \A a, f, r, g \in Nat : a <= f + r + 1 /\ g = f + 1
        => a <= g + r /\ a <= g + r + 1
  OBVIOUS
<1>6. faults \in Nat /\ refused \in Nat /\ faults' \in Nat
  BY <1>1 DEF TypeOK
<1>7. /\ Cardinality(Stray(db.rows)) <= faults' + refused
      /\ Cardinality(Stray(db.rows)) <= faults' + refused + 1
  BY <1>1, <1>4, <1>5, <1>6 DEF Accounts
<1>8. QED
  BY <1>1, <1>2, <1>7 DEF Accounts

LEMMA LabelAccounts ==
  ASSUME TypeOK, Accounts, NEW w \in Workers,
         LabelSkipped(w) \/ LabelUnchanged(w) \/ LabelPatch(w)
  PROVE  Accounts'
<1>1. w # Nobody
  BY PipelineAssumption
<1>2. /\ gtask' = gtask /\ refused' = refused /\ db' = db
      /\ writer' = w /\ stage' = "commit"
  BY DEF LabelSkipped, LabelUnchanged, LabelPatch, LabelTurn, external, counters
<1>3. tx'.rows = tx.rows
  BY DEF LabelSkipped, LabelUnchanged, LabelPatch, TypeOK, Store
<1>4. faults' \in {faults, faults + 1}
  BY DEF LabelSkipped, LabelUnchanged, LabelPatch, Spend, counters
<1>5. QED
  BY <1>1, <1>2, <1>3, <1>4, StillAccounts

LEMMA BeginAccounts ==
  ASSUME TypeOK, Accounts, NEW w \in Workers, Begin(w)
  PROVE  Accounts'
<1>1. /\ gtask' = gtask /\ refused' = refused /\ faults' = faults
      /\ db' = db /\ writer' = w /\ tx = db
  BY DEF Begin, Accounts, external, counters
<1>2. tx'.rows = db.rows
  BY DEF Begin, StateWritten, TypeOK, Store
<1>3. w # Nobody
  BY PipelineAssumption
<1>4. QED
  BY <1>1, <1>2, <1>3, StillAccounts

LEMMA ElsewhereAccounts ==
  ASSUME TypeOK, Accounts, ReviewClear \/ Deliver \/ Age
  PROVE  Accounts'
<1>1. /\ gtask' = gtask /\ refused' = refused /\ faults' = faults
      /\ tx' = db' /\ tx = db
  BY DEF ReviewClear, Deliver, Age, Elsewhere, Accounts
<1>2. db'.rows = db.rows
  BY DEF ReviewClear, Deliver, Age, Elsewhere, TypeOK, Store
<1>3. QED
  BY <1>1, <1>2, StillAccounts

LEMMA NextAccounts ==
  ASSUME TypeOK, Accounts, [Next]_vars
  PROVE  Accounts'
<1>1. CASE UNCHANGED vars
  BY <1>1 DEF vars, Accounts, Stray
<1>2. ASSUME NEW w \in Workers, Read(w) \/ LockTimeout(w)
      PROVE  Accounts'
  BY <1>2 DEF Read, LockTimeout, Accounts, Stray, external, counters
<1>3. ASSUME NEW w \in Workers, Reject(w)
      PROVE  Accounts'
  <2>1. /\ gtask' = gtask /\ refused' = refused /\ faults' = faults
        /\ db' = db /\ tx' = db /\ tx = db
    BY <1>3 DEF Reject, Rollback, Release, Accounts, external, counters
  <2>2. QED
    BY <2>1, StillAccounts
<1>4. ASSUME NEW w \in Workers, WriteBack(w)
      PROVE  Accounts'
  BY <1>4, TaskStepAccounts, LabelAccounts, CommitAccounts DEF WriteBack
<1>5. QED
  BY <1>1, <1>2, <1>3, <1>4, BeginAccounts, CrashAccounts, ElsewhereAccounts
     DEF Next

LEMMA InitAccounts == Init => Accounts
<1> SUFFICES ASSUME Init PROVE Accounts
  OBVIOUS
<1>1. Stray(tx.rows) = {} /\ Stray(db.rows) = {}
  BY DEF Init, Stray, Absent
<1>2. Cardinality({}) = 0
  BY FS_EmptySet
<1>3. faults = 0 /\ refused = 0 /\ tx = db /\ stage = "free"
  BY DEF Init
<1>4. QED
  BY <1>1, <1>2, <1>3 DEF Accounts

\* Whatever the workers, the failures, the lost answers, the crashes and the
\* rows the unique index refuses: every open task that no active row accounts
\* for was paid for by one of them.
THEOREM LeaksArePaidFor == Spec => []LeaksAreAccounted
<1>1. Init => TypeOK /\ Accounts
  BY InitType, InitAccounts
<1>2. TypeOK /\ Accounts /\ [Next]_vars => (TypeOK /\ Accounts)'
  BY NextType, NextAccounts
<1>3. Accounts => LeaksAreAccounted
  BY DEF Accounts, LeaksAreAccounted, Leaked, Stray
<1>4. QED
  BY <1>1, <1>2, <1>3, PTL DEF Spec
=============================================================================
