----------------------------- MODULE Ingestion -----------------------------
(***************************************************************************)
(* The jobs that turn new mail into reducer runs (pipeline.py,             *)
(* scheduler.py): the delta poll (run_full_reducer_cycle) and the folder   *)
(* job (process_folder_sync_job).  Each syncs in one session, commits, and *)
(* then runs a batch of conversations in that session, one transaction     *)
(* each.  What a run does to a conversation is Pipeline's; here it leaves  *)
(* it open or done, or fails and is rolled back.                           *)
(***************************************************************************)
EXTENDS DeltaSync, Sequences

CONSTANTS
    NumConvs,      \* conversations, numbered as the queries list them
    ConvOf,        \* the conversation of each message
    Order,         \* the folders, Sent Items first, then Inbox
    MaxNotes       \* bound: folder jobs started

Convs == 1..NumConvs

ASSUME IngestionAssumption ==
    /\ Jobs \subseteq {"poll", "folder"} /\ ConvOf \in [Messages -> Convs]
    /\ Order \in Seq(Folders) /\ Order # <<>>
    /\ MaxNotes \in Nat

VARIABLES
    open,      \* the conversations that are not in done
    news,      \* ghost: conversations with committed mail no run has seen
    batch,     \* what each job's batch is at
    notes
vars == <<deltaVars, open, news, batch, notes>>

\* at: the folder being synced, by its place in the job's list; queue: the
\* conversation ids still to process; expired: a rollback has expired the
\* session's objects, the user among them.
NoBatch == [phase |-> "off"]
Batches == [phase : {"sync", "batch"}, at : DOMAIN Order, queue : SUBSET Convs,
            expired : BOOLEAN]

TypeOK ==
    /\ DeltaTypeOK
    /\ open \in SUBSET Convs /\ news \in SUBSET Convs
    /\ batch \in [Jobs -> Batches \cup {NoBatch}] /\ notes \in 0..MaxNotes

Init ==
    /\ DeltaInit /\ open \in SUBSET Convs /\ news = {}
    /\ batch = [j \in Jobs |-> NoBatch] /\ notes = 0

Keeps == UNCHANGED <<open, news, batch, notes>>
Is(j, phase) == batch[j] # NoBatch /\ batch[j].phase = phase
ConvsOf(ms) == {ConvOf[m] : m \in ms}

-----------------------------------------------------------------------------
\* The scheduler starts a poll when none is running (max_instances is 1);
\* nothing ever sets last_webhook_at, so none is skipped.  A folder job syncs
\* one folder of the list.
StartPoll ==
    /\ "poll" \in Jobs /\ batch["poll"] = NoBatch
    /\ batch' = [batch EXCEPT !["poll"] =
          [phase |-> "sync", at |-> 1, queue |-> {}, expired |-> FALSE]]
    /\ OpenRound("poll", Order[1], db.tokens)
    /\ UNCHANGED <<open, news, notes>>

StartFolder(i) ==
    /\ "folder" \in Jobs /\ batch["folder"] = NoBatch
    /\ notes < MaxNotes /\ notes' = notes + 1
    /\ batch' = [batch EXCEPT !["folder"] =
          [phase |-> "sync", at |-> i, queue |-> {}, expired |-> FALSE]]
    /\ OpenRound("folder", Order[i], db.tokens) /\ UNCHANGED <<open, news>>

RoundStep(j) ==
    /\ Is(j, "sync") /\ Keeps
    /\ \/ FirstPage(j)
       \/ \E i \in round[j].due : Deliver(j, i)
       \/ LastPage(j) \/ CutShort(j) \/ Reset(j)

\* sync_all_folders: the next folder, in the same session, with the token it
\* was loaded with when the poll began.
NextFolder ==
    /\ "poll" \in Jobs /\ Is("poll", "sync") /\ round["poll"].phase = "closed"
    /\ batch["poll"].at < Len(Order)
    /\ batch' = [batch EXCEPT !["poll"].at = @ + 1]
    /\ OpenRound("poll", Order[batch["poll"].at + 1], round["poll"].loaded)
    /\ UNCHANGED <<open, news, notes>>

\* Mutant: the poll too runs what its sync touched.
CommittedTouched(j) ==
    /\ Is(j, "sync") /\ CommitSync(j)
    /\ j = "poll" => batch[j].at = Len(Order)
    /\ news' = news \cup ConvsOf({m \in Messages :
          tx.rows[m].status = "live" /\ tx.rows[m] # db.rows[m]})
    /\ batch' = [batch EXCEPT
          ![j].phase = "batch",
          ![j].queue = ConvsOf(round[j].touched)]
    /\ UNCHANGED <<open, notes>>

\* The sync is committed, and the batch selected: by the poll every
\* conversation that is not done, by the folder job those it touched.
Committed(j) ==
    /\ Is(j, "sync") /\ CommitSync(j)
    /\ j = "poll" => batch[j].at = Len(Order)
    /\ news' = news \cup ConvsOf({m \in Messages :
          tx.rows[m].status = "live" /\ tx.rows[m] # db.rows[m]})
    /\ batch' = [batch EXCEPT
          ![j].phase = "batch",
          ![j].queue = IF j = "poll" THEN open ELSE ConvsOf(round[j].touched)]
    /\ UNCHANGED <<open, notes>>

\* The next conversation of the batch, in the order of the query.
Turn(j, c) ==
    /\ Is(j, "batch") /\ c \in batch[j].queue
    /\ \A d \in batch[j].queue : c <= d
    /\ writer = Nobody

\* Its run commits.
Reduced(j, c) ==
    /\ Turn(j, c) /\ ~batch[j].expired
    /\ batch' = [batch EXCEPT ![j].queue = @ \ {c}]
    /\ news' = news \ {c}
    /\ open' \in {open \cup {c}, open \ {c}}
    /\ UNCHANGED <<deltaVars, notes>>

\* Its run raises; the session is rolled back, which expires its objects.
Failed(j, c) ==
    /\ Turn(j, c) /\ ~batch[j].expired /\ Fault
    /\ batch' = [batch EXCEPT ![j].queue = @ \ {c}, ![j].expired = TRUE]
    /\ UNCHANGED <<mailbox, db, tx, writer, round, missed, open, news, notes>>

\* user.email of the expired user is loaded outside an await: MissingGreenlet
\* is raised and handled like any other failure.
UserExpired(j, c) ==
    /\ Turn(j, c) /\ batch[j].expired
    /\ batch' = [batch EXCEPT ![j].queue = @ \ {c}]
    /\ UNCHANGED <<deltaVars, open, news, notes>>

EndBatch(j) ==
    /\ Is(j, "batch") /\ batch[j].queue = {}
    /\ batch' = [batch EXCEPT ![j] = NoBatch]
    /\ UNCHANGED <<deltaVars, open, news, notes>>

\* The flush at the end of a folder is refused: rollback.
FlushFails(j) ==
    /\ Is(j, "sync") /\ round[j].phase = "pages" /\ round[j].due = {}
    /\ Locks(j) /\ Clash(j) /\ Abandoned(j)
    /\ batch' = [batch EXCEPT ![j] = NoBatch]
    /\ UNCHANGED <<mailbox, db, missed, faults, open, news, notes>>

\* Graph fails for good during the sync, the flush of a cut round or a reset is
\* refused, or the session breaks: rollback.
SyncFails(j) ==
    /\ Is(j, "sync") /\ Fault /\ Abandoned(j)
    /\ batch' = [batch EXCEPT ![j] = NoBatch]
    /\ UNCHANGED <<mailbox, db, missed, open, news, notes>>

\* The process ends; its jobs go with it.
Crash ==
    /\ \E j \in Jobs : batch[j] # NoBatch
    /\ Fault
    /\ round' = [j \in Jobs |-> NoRound] /\ writer' = Nobody /\ tx' = db
    /\ batch' = [j \in Jobs |-> NoBatch]
    /\ UNCHANGED <<mailbox, db, missed, open, news, notes>>

-----------------------------------------------------------------------------
Mail ==
    /\ Keeps
    /\ \E m \in Messages : Arrive(m) \/ Update(m) \/ Remove(m)
Job(j) ==
    \/ RoundStep(j)
    \/ Committed(j)
    \/ \E c \in Convs : Reduced(j, c) \/ Failed(j, c) \/ UserExpired(j, c)
    \/ EndBatch(j)
    \/ FlushFails(j) \/ SyncFails(j)
Start == StartPoll \/ (\E i \in DOMAIN Order : StartFolder(i))
Next == Mail \/ Start \/ NextFolder \/ Crash \/ (\E j \in Jobs : Job(j))

\* The interval trigger fires for ever, and a job that runs goes on.
Polls == StartPoll \/ NextFolder \/ Job("poll")
Spec == Init /\ [][Next]_vars /\ WF_vars(Polls)
            /\ \A j \in Jobs \ {"poll"} : WF_vars(Job(j))

-----------------------------------------------------------------------------
\* Once mail and faults stop, the polls bring the mirror up to date for good.
MirrorCatchesUp ==
    <>[](\A m \in Messages : Mirrored(m) \/ m \in missed)

\* New mail of an open conversation is reduced in the end, or the conversation
\* is closed: a failure in a batch, which takes the rest of the batch with it,
\* a crash between the sync and the batch, and a lost round only put it off.
OpenMailIsReduced ==
    \A c \in Convs :
        c \in news /\ c \in open ~> c \notin news \/ c \notin open

=============================================================================
