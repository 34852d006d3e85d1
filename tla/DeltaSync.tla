----------------------------- MODULE DeltaSync -----------------------------
(***************************************************************************)
(* The mirror of a mailbox (ingestion/delta_sync.py, normalizer.py): what  *)
(* Graph has, the messages rows and delta tokens in the database, and the  *)
(* rounds of delta pages that jobs run to bring the second up to date.     *)
(* Autoflush is off (db/session.py): an item of a page is read and changed *)
(* in the session only; the flush at the end of the folder takes SQLite's  *)
(* write lock and writes the columns that differ from what was read.       *)
(*                                                                         *)
(* The changes of a folder are numbered; a delta token is the number of    *)
(* the last change its holder has been told of, 0 the null token.  Ids     *)
(* are not immutable ids, so a message that moves to another folder is     *)
(* deleted there and another message here.                                 *)
(***************************************************************************)
EXTENDS Naturals, FiniteSets

CONSTANTS
    Messages,
    Folders,       \* mail_folders rows
    FolderOf,      \* the folder of each message
    ContentOf,     \* what each change makes of its message
    Jobs,          \* sessions that may sync
    MaxChanges,    \* bound: changes of a folder
    MaxFaults,     \* bound: 410s, cut rounds, repeats, failures, crashes
    Nobody         \* who holds SQLite's write lock when it is free

ASSUME DeltaAssumption ==
    /\ Nobody \notin Jobs /\ FolderOf \in [Messages -> Folders]
    /\ MaxChanges \in Nat /\ MaxFaults \in Nat

VARIABLES
    box,       \* the mailbox: each message's status and last change
    clock,     \* the number of each folder's last change, plus one
    db,        \* committed rows and tokens
    tx,        \* the same as the holder of the write lock sees them (or db)
    writer,    \* the holder, or Nobody
    round,     \* what each job's delta round is at
    missed,    \* ghost: messages a flush left behind the mailbox
    faults
mailbox == <<box, clock>>
deltaVars == <<box, clock, db, tx, writer, round, missed, faults>>

Versions == 0..MaxChanges + 1

\* ver stands for the etag, content for the columns a later change may set
\* back to what they were (categories_json, is_read).
Rows == [status : {"absent", "live", "deleted"}, ver : Versions,
         content : {ContentOf[v] : v \in Versions}]
NoRow == [status |-> "absent", ver |-> 0, content |-> ContentOf[0]]
RowAt(v) == [status |-> "live", ver |-> v, content |-> ContentOf[v]]
Stores == [rows : [Messages -> Rows], tokens : [Folders -> Versions]]

\* An item of a page: a message, or its tombstone.
Items == [id : Messages, status : {"live", "gone"}, ver : Versions]

\* A message in a session: as it was read, as it is to be, and whether a
\* second object was added for it.
Objects == [base : Rows, now : Rows, twice : BOOLEAN]
NotLoaded == [twice |-> FALSE]
Empty == [m \in Messages |-> NotLoaded]

\* folder: the one being synced; loaded: delta_token of each folder as the
\* session has it; due: items Graph still owes this round; link: the token it
\* ends with; objects: the messages its pages have brought so far; reset:
\* attempted_reset; touched: the messages whose conversations it touched.
NoRound == [phase |-> "off"]
Rounds ==
    [phase : {"open", "pages", "closed"}, folder : Folders,
     loaded : [Folders -> Versions], due : SUBSET Items, link : Versions,
     objects : [Messages -> Objects \cup {NotLoaded}],
     reset : BOOLEAN, touched : SUBSET Messages]

DeltaTypeOK ==
    /\ box \in [Messages -> [status : {"unborn", "live", "gone"},
                             ver : Versions]]
    /\ clock \in [Folders -> Versions] /\ db \in Stores /\ tx \in Stores
    /\ writer \in Jobs \cup {Nobody}
    /\ round \in [Jobs -> Rounds \cup {NoRound}]
    /\ missed \in SUBSET Messages /\ faults \in 0..MaxFaults

DeltaInit ==
    /\ box = [m \in Messages |-> [status |-> "unborn", ver |-> 0]]
    /\ clock = [f \in Folders |-> 1]
    /\ db = [rows |-> [m \in Messages |-> NoRow],
             tokens |-> [f \in Folders |-> 0]]
    /\ tx = db /\ writer = Nobody /\ round = [j \in Jobs |-> NoRound]
    /\ missed = {} /\ faults = 0

Fault == faults < MaxFaults /\ faults' = faults + 1

-----------------------------------------------------------------------------
(* Graph.                                                                  *)

Change(m, status) ==
    /\ clock[FolderOf[m]] <= MaxChanges
    /\ clock' = [clock EXCEPT ![FolderOf[m]] = @ + 1]
    /\ box' = [box EXCEPT ![m] =
          [status |-> status, ver |-> clock'[FolderOf[m]]]]
    /\ UNCHANGED <<db, tx, writer, round, missed, faults>>

Arrive(m) == box[m].status = "unborn" /\ Change(m, "live")
Update(m) == box[m].status = "live" /\ Change(m, "live")
Remove(m) == box[m].status = "live" /\ Change(m, "gone")

Item(m) == [id |-> m, status |-> box[m].status, ver |-> box[m].ver]

\* What a delta request owes: without a token, the messages there are; with
\* one, a message or a tombstone for everything changed since.
Owed(f, token) ==
    {Item(m) : m \in {n \in Messages :
        /\ FolderOf[n] = f
        /\ IF token = 0 THEN box[n].status = "live" ELSE box[n].ver > token}}

-----------------------------------------------------------------------------
(* The session of job j.                                                   *)

Locks(j) == writer \in {j, Nobody}

\* What a SELECT of j sees: its own flushes, once it has taken the lock.
Working(j) == IF writer = j THEN tx ELSE db

\* The first request for folder f; tokens: delta_token of the folders as this
\* session loaded them.
OpenRound(j, f, tokens) ==
    /\ round' = [round EXCEPT ![j] =
          [phase |-> "open", folder |-> f, loaded |-> tokens,
           due |-> {}, link |-> 0, objects |-> Empty,
           reset |-> FALSE, touched |-> {}]]
    /\ UNCHANGED <<mailbox, db, tx, writer, missed, faults>>

\* The token the round starts from; a reset has set it to None.
RoundToken(j) == round[j].loaded[round[j].folder]

FirstPage(j) ==
    /\ round[j] # NoRound /\ round[j].phase = "open"
    /\ round' = [round EXCEPT ![j].phase = "pages",
          ![j].link = clock[round[j].folder],
          ![j].due = Owed(round[j].folder, RoundToken(j))]
    /\ UNCHANGED <<mailbox, db, tx, writer, missed, faults>>

\* Mutant: a tombstone is stored under Graph's word for it.
UpsertedRaw(row, i) ==
    [RowAt(i.ver) EXCEPT !.status = i.status]

\* Mutant: tombstones of messages that have a row are skipped.
UpsertedKept(row, i) ==
    IF i.status # "gone" THEN RowAt(i.ver)
    ELSE IF row.status = "live" THEN row ELSE [row EXCEPT !.status = "deleted"]

\* _upsert_message: a tombstone says that the message is deleted, no more.
Upserted(row, i) ==
    IF i.status = "gone" THEN [row EXCEPT !.status = "deleted"]
    ELSE RowAt(i.ver)

\* The SELECT finds a row, once read, as the session has it; it does not find
\* what the session has added, and another object is added.
Taken(o, row, i) ==
    IF o = NotLoaded
    THEN [base |-> row, now |-> Upserted(row, i), twice |-> FALSE]
    ELSE [o EXCEPT !.now = Upserted(@, i),
                   !.twice = o.base.status = "absent"]

\* An item of a page, as it was when the round began or as it is by now,
\* for the last time or, by a fault, not.  Tombstones carry no conversation id.
Deliver(j, i) ==
    /\ round[j] # NoRound /\ round[j].phase = "pages" /\ i \in round[j].due
    /\ \E item \in {i, Item(i.id)}, last \in BOOLEAN :
          /\ IF last THEN UNCHANGED faults ELSE Fault
          /\ round' = [round EXCEPT
                ![j].objects[i.id] = Taken(@, Working(j).rows[i.id], item),
                ![j].due = IF last THEN @ \ {i} ELSE @,
                ![j].touched = IF item.status = "gone" THEN @
                               ELSE @ \cup {i.id}]
    /\ UNCHANGED <<mailbox, db, tx, writer, missed>>

-----------------------------------------------------------------------------
(* The flush, at the end of sync_folder and when a reset clears the token.   *)

Pending(j) == {m \in Messages : round[j].objects[m] # NotLoaded}

\* An attribute set to the value it was read with is not written.
Column(new, loaded, current) == IF new = loaded THEN current ELSE new

Written(o, row) ==
    [status |-> Column(o.now.status, o.base.status, row.status),
     ver |-> Column(o.now.ver, o.base.ver, row.ver),
     content |-> Column(o.now.content, o.base.content, row.content)]

\* graph_message_id is unique: a message is added twice, or has got a row
\* since it was looked for.
Clash(j) ==
    \E m \in Pending(j) :
        /\ round[j].objects[m].base.status = "absent"
        /\ \/ round[j].objects[m].twice
           \/ Working(j).rows[m].status # "absent"

Flushed(j) ==
    [m \in Messages |->
        IF m \in Pending(j)
        THEN Written(round[j].objects[m], Working(j).rows[m])
        ELSE Working(j).rows[m]]

\* The row shows the message as it is in the mailbox.
Shows(row, m) ==
    CASE box[m].status = "unborn" -> row.status = "absent"
      [] box[m].status = "live" -> row = RowAt(box[m].ver)
      [] box[m].status = "gone" -> row.status # "live"

\* Another job has committed a newer token since this round's first page.
Overtaken(j) == Working(j).tokens[round[j].folder] > round[j].link

\* Messages this flush leaves behind the mailbox and the next round may not
\* mend: their rows mix two versions, as another job wrote them after they
\* were read; they are written as they were before a newer token; they are
\* gone, which a round without a token does not mention.
LeftBehind(j, token) ==
    {m \in Messages :
        /\ ~Shows(Flushed(j)[m], m)
        /\ \/ /\ m \in Pending(j)
              /\ Flushed(j)[m] # round[j].objects[m].now \/ Overtaken(j)
           \/ /\ RoundToken(j) = 0 /\ FolderOf[m] = round[j].folder
              /\ box[m].status = "gone" /\ box[m].ver <= token}

Flush(j, token) ==
    /\ Locks(j) /\ writer' = j /\ ~Clash(j)
    /\ tx' = [rows |-> Flushed(j),
              tokens |-> [Working(j).tokens EXCEPT ![round[j].folder] =
                             Column(token, RoundToken(j), @)]]
    /\ missed' = missed \cup LeftBehind(j, token)

\* The end of sync_folder: the link is kept if a page had one.
Closed(j, link) ==
    /\ Flush(j, link)
    /\ round' = [round EXCEPT ![j].phase = "closed", ![j].objects = Empty,
          ![j].loaded[round[j].folder] = link]
    /\ UNCHANGED <<mailbox, db>>

LastPage(j) ==
    /\ round[j] # NoRound /\ round[j].phase = "pages" /\ round[j].due = {}
    /\ Closed(j, round[j].link) /\ UNCHANGED faults

\* Mutant: the round's link is kept though pages are missing.
CutShortLinked(j) ==
    /\ round[j] # NoRound /\ round[j].phase = "pages"
    /\ Fault
    /\ Closed(j, round[j].link)

\* A page is gone (404): the generator returns, the round ends without link.
CutShort(j) ==
    /\ round[j] # NoRound /\ round[j].phase = "pages"
    /\ Fault
    /\ Closed(j, RoundToken(j))

\* 410, once per round: the token is cleared, what came so far is flushed, and
\* the round starts again.  A flush that has nothing to write takes no lock.
Reset(j) ==
    /\ round[j] # NoRound /\ round[j].phase \in {"open", "pages"}
    /\ ~round[j].reset /\ Fault
    /\ IF Pending(j) = {} /\ RoundToken(j) = 0
       THEN UNCHANGED <<tx, writer, missed>>
       ELSE Flush(j, 0)
    /\ round' = [round EXCEPT ![j].phase = "open", ![j].reset = TRUE,
          ![j].loaded[round[j].folder] = 0, ![j].objects = Empty,
          ![j].due = {}, ![j].link = 0, ![j].touched = {}]
    /\ UNCHANGED <<mailbox, db>>

\* The caller commits; the next step is the caller's.  What is up to date
\* again is no longer missed.
CommitSync(j) ==
    /\ round[j] # NoRound /\ round[j].phase = "closed" /\ writer = j
    /\ db' = tx /\ tx' = tx /\ writer' = Nobody
    /\ round' = [round EXCEPT ![j] = NoRound]
    /\ missed' = {m \in missed : ~Shows(tx.rows[m], m)}
    /\ UNCHANGED <<mailbox, faults>>

\* An exception or the end of the process: the session is closed, SQLite
\* rolls back.
Abandoned(j) ==
    /\ round' = [round EXCEPT ![j] = NoRound]
    /\ writer' = IF writer = j THEN Nobody ELSE writer
    /\ tx' = IF writer = j THEN db ELSE tx

-----------------------------------------------------------------------------
Mirrored(m) == Shows(db.rows[m], m)

\* A delta token never runs ahead of the rows: what Graph will not send again
\* is in the database as it is in the mailbox, in spite of resets, cut and
\* abandoned rounds, repeats and overlapping jobs, but for what a flush is
\* known to have left behind (LeftBehind).
TokenVouches ==
    \A m \in Messages :
        box[m].status # "unborn" /\ box[m].ver <= db.tokens[FolderOf[m]] =>
            Mirrored(m) \/ m \in missed

=============================================================================
