-------------------------- MODULE Ingestion_proofs --------------------------
(***************************************************************************)
(* A delta token never runs ahead of the rows, for any mailbox, any number *)
(* of folders and of faults, and the two jobs the scheduler can run, but   *)
(* for the messages that a flush is known to leave behind.                 *)
(***************************************************************************)
EXTENDS Ingestion, TLAPS

Born(m) == box[m].status # "unborn"

\* The row of a message as a store has it is the one the mailbox calls for.
Excused(store, m) == Shows(store.rows[m], m) \/ m \in missed

\* All that a token of this folder promises not to need again is in the store.
Vouched(store, f, token) ==
    \A m \in Messages :
        Born(m) /\ FolderOf[m] = f /\ box[m].ver <= token => Excused(store, m)

Runs(j) == round[j] # NoRound
Paging(j) == Runs(j) /\ round[j].phase = "pages"

\* Changes are numbered from 1 on.
BoxOK == \A m \in Messages : /\ Born(m) <=> 1 <= box[m].ver
                             /\ box[m].ver <= clock[FolderOf[m]]

\* Nobody has been told of a change to come.
ClockOK ==
    /\ \A f \in Folders : db.tokens[f] <= clock[f] /\ tx.tokens[f] <= clock[f]
    /\ \A j \in Jobs : Runs(j) =>
          /\ \A f \in Folders : round[j].loaded[f] <= clock[f]
          /\ round[j].link <= clock[round[j].folder]

LockOK ==
    /\ writer = Nobody => tx = db
    /\ \A j \in Jobs : writer = j => Runs(j)

\* The tokens, committed or not, vouch for the rows; and the rows the holder
\* of the lock works on are still vouched for by the committed tokens.
TokensOK ==
    \A f \in Folders : /\ Vouched(db, f, db.tokens[f])
                       /\ Vouched(tx, f, tx.tokens[f])
                       /\ Vouched(tx, f, db.tokens[f])

\* So do the tokens a session has loaded, of all folders.
LoadedOK ==
    \A j \in Jobs : Runs(j) =>
        \A f \in Folders : /\ Vouched(tx, f, round[j].loaded[f])
                           /\ writer # j => Vouched(db, f, round[j].loaded[f])

\* What Graph still owes a round, or has told its session, or need not tell.
Linked(j) ==
    /\ RoundToken(j) <= round[j].link
    /\ \A i \in round[j].due :
          /\ FolderOf[i.id] = round[j].folder /\ Born(i.id)
          /\ box[i.id].ver <= round[j].link => i = Item(i.id)
    /\ \A m \in Messages :
          /\ Born(m) /\ FolderOf[m] = round[j].folder
                  /\ box[m].ver <= round[j].link =>
              \/ box[m].ver <= RoundToken(j)
              \/ Item(m) \in round[j].due
              \/ RoundToken(j) = 0 /\ box[m].status = "gone"
              \/ m \in Pending(j)
          /\ m \in Pending(j) =>
              /\ FolderOf[m] = round[j].folder
              /\ box[m].ver <= round[j].link =>
                    Shows(round[j].objects[m].now, m)

LinkOK ==
    \A j \in Jobs : Runs(j) =>
        IF round[j].phase = "pages" THEN Linked(j)
        ELSE round[j].objects = Empty

\* A round that has been overtaken sees it in the token it works with.
Ahead(k) ==
    LET f == round[k].folder
    IN  /\ writer = k /\ db.tokens[f] > round[k].link =>
              tx.tokens[f] > round[k].link
        /\ \A j \in Jobs \ {k} :
              Runs(j) /\ round[j].loaded[f] > round[k].link =>
                  tx.tokens[f] > round[k].link

OvertakenOK == \A k \in Jobs : Paging(k) => Ahead(k)

Inv ==
    /\ DeltaTypeOK /\ BoxOK /\ ClockOK /\ LockOK
    /\ TokensOK /\ LoadedOK /\ LinkOK /\ OvertakenOK

\* Only a session that is syncing has a round.
BatchOK == \A j \in Jobs : Runs(j) => Is(j, "sync")

-----------------------------------------------------------------------------
(* Types.                                                                  *)

LEMMA VersionsType ==
  /\ Versions \subseteq Nat /\ 0 \in Versions /\ 1 \in Versions
  BY DeltaAssumption DEF Versions

LEMMA HomeType == ASSUME NEW m \in Messages PROVE FolderOf[m] \in Folders
  BY DeltaAssumption

LEMMA BoxType ==
  ASSUME DeltaTypeOK, NEW m \in Messages
  PROVE  /\ box[m].ver \in Nat /\ box[m].ver \in Versions
         /\ box[m].status \in {"unborn", "live", "gone"}
  BY VersionsType DEF DeltaTypeOK

LEMMA ClockType ==
  ASSUME DeltaTypeOK, NEW f \in Folders
  PROVE  clock[f] \in Nat /\ clock[f] \in Versions
  BY VersionsType DEF DeltaTypeOK

\* A store is its rows and its tokens.
LEMMA StoreType ==
  ASSUME NEW s \in Stores
  PROVE  /\ s.rows \in [Messages -> Rows]
         /\ s.tokens \in [Folders -> Versions]
         /\ \A f \in Folders : s.tokens[f] \in Nat
  BY VersionsType DEF Stores

\* What a job's round says has the types of a round.
LEMMA RoundType ==
  ASSUME DeltaTypeOK, NEW j \in Jobs, Runs(j)
  PROVE  /\ round[j] \in Rounds
         /\ round[j].folder \in Folders
         /\ round[j].loaded \in [Folders -> Versions]
         /\ \A f \in Folders : round[j].loaded[f] \in Nat
         /\ round[j].link \in Versions /\ round[j].link \in Nat
         /\ RoundToken(j) \in Versions /\ RoundToken(j) \in Nat
         /\ round[j].due \in SUBSET Items
         /\ round[j].objects \in [Messages -> Objects \cup {NotLoaded}]
<1>1. round[j] \in Rounds
  BY DEF DeltaTypeOK, Runs
<1>2. QED
  BY <1>1, VersionsType DEF Rounds, RoundToken

LEMMA ItemType ==
  ASSUME DeltaTypeOK, NEW m \in Messages, Born(m)
  PROVE  Item(m) \in Items
  BY BoxType DEF Item, Items, Born

\* What Graph owes is made of messages that were born.
LEMMA OwedType ==
  ASSUME DeltaTypeOK, BoxOK, NEW f \in Folders, NEW token \in Versions
  PROVE  /\ Owed(f, token) \in SUBSET Items
         /\ \A i \in Owed(f, token) :
               i.id \in Messages /\ Born(i.id) /\ i = Item(i.id)
                 /\ FolderOf[i.id] = f
<1> SUFFICES ASSUME NEW n \in Messages, FolderOf[n] = f,
                    IF token = 0 THEN box[n].status = "live"
                    ELSE box[n].ver > token
             PROVE  Born(n) /\ Item(n) \in Items /\ Item(n).id = n
  BY DEF Owed
<1>1. token \in Nat
  BY VersionsType
<1>2. Born(n)
  BY <1>1, BoxType DEF BoxOK, Born
<1>3. QED
  BY <1>2, ItemType DEF Item

\* A row after an item is a row; a newer version of a message shows it.
LEMMA UpsertedType ==
  ASSUME NEW row \in Rows, NEW i \in Items
  PROVE  Upserted(row, i) \in Rows
<1>1. i.ver \in Versions
  BY DEF Items
<1>2. RowAt(i.ver) \in Rows
  BY <1>1 DEF RowAt, Rows
<1>3. [row EXCEPT !.status = "deleted"] \in Rows
  BY DEF Rows
<1>4. QED
  BY <1>2, <1>3 DEF Upserted

LEMMA UpsertedShows ==
  ASSUME DeltaTypeOK, NEW m \in Messages, Born(m), NEW row \in Rows
  PROVE  Shows(Upserted(row, Item(m)), m)
<1>1. CASE box[m].status = "live"
  BY <1>1 DEF Shows, Upserted, Item
<1>2. CASE box[m].status = "gone"
  <2>1. Upserted(row, Item(m)).status = "deleted"
    BY <1>2 DEF Upserted, Item, Rows
  <2>2. QED
    BY <1>2, <2>1 DEF Shows
<1>3. QED
  BY <1>1, <1>2, BoxType DEF Born

\* An object of a session that has loaded the message.
LEMMA LoadedObject ==
  ASSUME DeltaTypeOK, NEW j \in Jobs, Runs(j), NEW m \in Pending(j)
  PROVE  /\ m \in Messages /\ round[j].objects[m] \in Objects
         /\ round[j].objects[m].base \in Rows
         /\ round[j].objects[m].now \in Rows
<1>1. m \in Messages /\ round[j].objects[m] \in Objects
  BY RoundType DEF Pending
<1>2. QED
  BY <1>1 DEF Objects

LEMMA NotLoadedIsNoObject == NotLoaded \notin Objects
<1>1. \A o \in Objects : "base" \in DOMAIN o
  BY DEF Objects
<1>2. "base" \notin DOMAIN NotLoaded
  BY DEF NotLoaded
<1>3. QED
  BY <1>1, <1>2

LEMMA TakenType ==
  ASSUME NEW o \in Objects \cup {NotLoaded}, NEW row \in Rows,
         NEW i \in Items
  PROVE  LET t == Taken(o, row, i)
         IN  /\ t \in Objects /\ t # NotLoaded
             /\ \E r \in Rows : t.now = Upserted(r, i)
<1> DEFINE t == Taken(o, row, i)
<1>1. t \in Objects /\ \E r \in Rows : t.now = Upserted(r, i)
  <2>1. CASE o = NotLoaded
    BY <2>1, UpsertedType DEF Taken, Objects
  <2>2. CASE o \in Objects /\ o # NotLoaded
    <3> DEFINE now == Upserted(o.now, i)
    <3>1. o.now \in Rows /\ now \in Rows
      BY <2>2, UpsertedType DEF Objects
    <3> HIDE DEF now
    <3> DEFINE u == [o EXCEPT !.now = now, !.twice = o.base.status = "absent"]
    <3>2. u \in Objects
      BY <2>2, <3>1 DEF Objects
    <3>3. u.now = now
      BY <2>2 DEF Objects
    <3>4. t = u
      BY <2>2 DEF Taken, now
    <3> HIDE DEF t, u
    <3>5. QED
      BY <3>1, <3>2, <3>3, <3>4 DEF now
  <2>3. QED
    BY <2>1, <2>2
<1>2. QED
  BY <1>1, NotLoadedIsNoObject

\* The row as it was first read stays with it.
LEMMA TakenBase ==
  ASSUME NEW o \in Objects \cup {NotLoaded}, NEW row, NEW i
  PROVE  Taken(o, row, i).base = IF o = NotLoaded THEN row ELSE o.base
  BY DEF Taken, Objects

\* What is written is a row, and no other when nothing has changed it.
LEMMA WrittenType ==
  ASSUME NEW o \in Objects, NEW row \in Rows
  PROVE  Written(o, row) \in Rows
  BY DEF Written, Column, Objects, Rows

\* There is no third job.
LEMMA TwoJobs ==
  ASSUME NEW j \in Jobs, NEW k \in Jobs, j # k, NEW l \in Jobs
  PROVE  l \in {j, k}
  BY IngestionAssumption

-----------------------------------------------------------------------------
(* The mailbox.                                                            *)

\* A change of the mailbox is newer than every token.
LEMMA ChangeInv ==
  ASSUME Inv, NEW m \in Messages, NEW status \in {"live", "gone"},
         Change(m, status)
  PROVE  Inv'
<1>1. /\ DeltaTypeOK /\ BoxOK /\ ClockOK /\ LockOK
      /\ TokensOK /\ LoadedOK /\ LinkOK /\ OvertakenOK
  BY DEF Inv
<1> DEFINE f == FolderOf[m]
<1>2. /\ f \in Folders /\ clock[f] \in Nat
      /\ clock' = [clock EXCEPT ![f] = @ + 1]
      /\ box' = [box EXCEPT ![m] = [status |-> status, ver |-> clock'[f]]]
      /\ UNCHANGED <<db, tx, writer, round, missed, faults>>
  BY <1>1, HomeType, ClockType DEF Change
<1>3. /\ clock'[f] = clock[f] + 1 /\ clock'[f] \in Versions
      /\ \A g \in Folders : clock'[g] \in Nat /\ clock[g] <= clock'[g]
      /\ clock' \in [Folders -> Versions]
  <2>1. clock[f] + 1 \in Versions
    BY <1>2, DeltaAssumption DEF Change, Versions
  <2>2. \A g \in Folders : clock'[g] = IF g = f THEN clock[f] + 1 ELSE clock[g]
    BY <1>1, <1>2 DEF DeltaTypeOK
  <2>3. clock' \in [Folders -> Versions]
    BY <1>1, <1>2, <2>1 DEF DeltaTypeOK
  <2>4. QED
    BY <1>1, <1>2, <2>1, <2>2, <2>3, ClockType
<1>4. /\ box'[m] = [status |-> status, ver |-> clock[f] + 1]
      /\ \A n \in Messages : n # m => box'[n] = box[n]
  BY <1>1, <1>2, <1>3 DEF DeltaTypeOK
<1>5. DeltaTypeOK'
  <2>1. [status |-> status, ver |-> clock'[f]] \in
          [status : {"unborn", "live", "gone"}, ver : Versions]
    BY <1>3
  <2>2. QED
    BY <1>1, <1>2, <1>3, <2>1 DEF DeltaTypeOK
<1>6. BoxOK'
  <2> SUFFICES ASSUME NEW n \in Messages
               PROVE  /\ Born(n)' <=> 1 <= box'[n].ver
                      /\ box'[n].ver <= clock'[FolderOf[n]]
    BY DEF BoxOK
  <2>1. CASE n = m
    BY <1>2, <1>3, <1>4, <2>1 DEF Born
  <2>2. CASE n # m
    <3>1. box[n].ver <= clock[FolderOf[n]] /\ FolderOf[n] \in Folders
      BY <1>1, HomeType DEF BoxOK
    <3>2. box[n].ver <= clock'[FolderOf[n]]
      BY <1>1, <1>3, <3>1, BoxType, ClockType
    <3>3. QED
      BY <1>1, <1>4, <2>2, <3>2 DEF BoxOK, Born
  <2>3. QED
    BY <2>1, <2>2
<1>7. \A t \in Nat, g \in Folders : t <= clock[g] => t <= clock'[g]
  BY <1>1, <1>3, ClockType
<1>8. ClockOK'
  <2>1. \A g \in Folders : db.tokens[g] \in Nat /\ tx.tokens[g] \in Nat
    BY <1>1, StoreType DEF DeltaTypeOK
  <2>2. ASSUME NEW j \in Jobs, Runs(j)
        PROVE  /\ \A g \in Folders : round[j].loaded[g] <= clock'[g]
               /\ round[j].link <= clock'[round[j].folder]
    BY <1>1, <1>7, <2>2, RoundType DEF ClockOK
  <2>3. QED
    BY <1>1, <1>2, <1>7, <2>1, <2>2 DEF ClockOK, Runs
<1>9. LockOK'
  BY <1>1, <1>2 DEF LockOK, Runs
<1>10. ASSUME NEW s, NEW g \in Folders, NEW t \in Nat, t <= clock[g],
              Vouched(s, g, t)
       PROVE  Vouched(s, g, t)'
  <2> SUFFICES ASSUME NEW n \in Messages, Born(n)', FolderOf[n] = g,
                      box'[n].ver <= t
               PROVE  Excused(s, n)'
    BY DEF Vouched
  <2>1. n # m
    BY <1>2, <1>4, <1>10
  <2>2. QED
    BY <1>2, <1>4, <1>10, <2>1 DEF Vouched, Excused, Shows, Born
<1>11. TokensOK'
  <2>1. \A g \in Folders : /\ db.tokens[g] \in Nat /\ tx.tokens[g] \in Nat
                           /\ db.tokens[g] <= clock[g]
                           /\ tx.tokens[g] <= clock[g]
    BY <1>1, StoreType DEF DeltaTypeOK, ClockOK
  <2>2. \A g \in Folders : /\ Vouched(db, g, db.tokens[g])'
                           /\ Vouched(tx, g, tx.tokens[g])'
                           /\ Vouched(tx, g, db.tokens[g])'
    BY <1>1, <1>2, <1>10, <2>1 DEF TokensOK
  <2>3. QED
    BY <2>2 DEF TokensOK
<1>12. LoadedOK'
  <2> SUFFICES ASSUME NEW j \in Jobs, Runs(j), NEW g \in Folders
               PROVE  /\ Vouched(tx, g, round[j].loaded[g])'
                      /\ writer # j => Vouched(db, g, round[j].loaded[g])'
    BY <1>2 DEF LoadedOK, Runs
  <2>1. round[j].loaded[g] \in Nat /\ round[j].loaded[g] <= clock[g]
    BY <1>1, RoundType DEF ClockOK
  <2>2. QED
    BY <1>1, <1>2, <1>10, <2>1 DEF LoadedOK
<1>13. LinkOK'
  <2> SUFFICES ASSUME NEW j \in Jobs, Runs(j), round[j].phase = "pages"
               PROVE  Linked(j)'
    BY <1>1, <1>2 DEF LinkOK, Runs
  <2>1. Linked(j) /\ RoundToken(j)' = RoundToken(j) /\ Pending(j)' = Pending(j)
    BY <1>1, <1>2 DEF LinkOK, RoundToken, Pending
  <2>2. /\ round[j].link \in Nat /\ round[j].folder \in Folders
        /\ round[j].link <= clock[round[j].folder]
    BY <1>1, RoundType DEF ClockOK
  <2>3. f = round[j].folder => ~(box'[m].ver <= round[j].link)
    BY <1>2, <1>4, <2>2
  <2>4. \A n \in Messages : n # m =>
           (Born(n)' <=> Born(n)) /\ Item(n)' = Item(n)
             /\ \A row : Shows(row, n)' <=> Shows(row, n)
    BY <1>4 DEF Born, Item, Shows
  <2>5. ASSUME NEW i \in round[j].due
        PROVE  /\ FolderOf[i.id] = round[j].folder /\ Born(i.id)'
               /\ box'[i.id].ver <= round[j].link => i = Item(i.id)'
    <3>1. i.id \in Messages
      BY <1>1, RoundType DEF Items
    <3>2. FolderOf[i.id] = round[j].folder /\ Born(i.id)
      BY <2>1 DEF Linked
    <3>3. CASE i.id = m
      BY <1>4, <2>3, <3>2, <3>3 DEF Born
    <3>4. CASE i.id # m
      BY <1>4, <2>1, <2>4, <3>1, <3>2, <3>4 DEF Linked
    <3>5. QED
      BY <3>3, <3>4
  <2>6. ASSUME NEW n \in Messages
        PROVE  /\ Born(n)' /\ FolderOf[n] = round[j].folder
                      /\ box'[n].ver <= round[j].link =>
                   \/ box'[n].ver <= RoundToken(j)
                   \/ Item(n)' \in round[j].due
                   \/ RoundToken(j) = 0 /\ box'[n].status = "gone"
                   \/ n \in Pending(j)
               /\ n \in Pending(j) =>
                   /\ FolderOf[n] = round[j].folder
                   /\ box'[n].ver <= round[j].link =>
                         Shows(round[j].objects[n].now, n)'
    <3>1. CASE n = m
      BY <2>1, <2>3, <3>1 DEF Linked
    <3>2. CASE n # m
      <4>1. box'[n] = box[n]
        BY <1>4, <3>2
      <4>2. Shows(round[j].objects[n].now, n)'
               <=> Shows(round[j].objects[n].now, n)
        BY <1>2, <4>1 DEF Shows
      <4>3. QED
        BY <2>1, <2>4, <3>2, <4>1, <4>2 DEF Linked
    <3>3. QED
      BY <3>1, <3>2
  <2>7. QED
    BY <1>2, <2>1, <2>5, <2>6 DEF Linked
<1>14. OvertakenOK'
  BY <1>1, <1>2 DEF OvertakenOK, Ahead, Paging, Runs
<1>15. QED
  BY <1>5, <1>6, <1>8, <1>9, <1>11, <1>12, <1>13, <1>14 DEF Inv

\* The jobs' own steps leave the mailbox alone, and a message stays excused.
LEMMA Steady ==
  ASSUME UNCHANGED box, missed \subseteq missed',
         NEW s, NEW f, NEW t, Vouched(s, f, t)
  PROVE  Vouched(s, f, t)'
  BY DEF Vouched, Excused, Shows, Born

\* What a round knows of the mailbox is between it and the mailbox.
LEMMA StaysLinked ==
  ASSUME UNCHANGED box, NEW k \in Jobs, Linked(k), round'[k] = round[k]
  PROVE  Linked(k)'
<1>1. \A n : (Born(n)' <=> Born(n)) /\ Item(n)' = Item(n) /\ box'[n] = box[n]
  BY DEF Born, Item
<1>2. RoundToken(k)' = RoundToken(k) /\ Pending(k)' = Pending(k)
  BY DEF RoundToken, Pending
<1>3. \A n : Shows(round[k].objects[n].now, n)'
               <=> Shows(round[k].objects[n].now, n)
  BY DEF Shows
<1>4. QED
  BY <1>1, <1>2, <1>3 DEF Linked

\* A session that reads no page, having loaded tokens when nothing of its own
\* was in the way, or before.
LEMMA RoundInv ==
  ASSUME Inv, NEW j \in Jobs, NEW r \in Rounds, r.phase # "pages",
         r.objects = Empty, r.link <= clock[r.folder],
         \/ ~Runs(j) /\ r.loaded = db.tokens
         \/ Runs(j) /\ r.loaded = round[j].loaded,
         round' = [round EXCEPT ![j] = r], faults' \in 0..MaxFaults,
         UNCHANGED <<box, clock, db, tx, writer, missed>>
  PROVE  Inv'
<1>1. /\ DeltaTypeOK /\ BoxOK /\ ClockOK /\ LockOK
      /\ TokensOK /\ LoadedOK /\ LinkOK /\ OvertakenOK
  BY DEF Inv
<1>2. /\ round'[j] = r
      /\ \A k \in Jobs : k # j => round'[k] = round[k]
  BY <1>1 DEF DeltaTypeOK
<1>3. Runs(j)'
  <2>1. NoRound \notin Rounds
    <3>1. \A x \in Rounds : "folder" \in DOMAIN x
      BY DEF Rounds
    <3>2. "folder" \notin DOMAIN NoRound
      BY DEF NoRound
    <3>3. QED
      BY <3>1, <3>2
  <2>2. QED
    BY <1>2, <2>1 DEF Runs
<1>4. /\ \A g \in Folders : r.loaded[g] <= clock[g]
      /\ \A g \in Folders : /\ Vouched(tx, g, r.loaded[g])
                            /\ writer # j => Vouched(db, g, r.loaded[g])
  <2>1. CASE ~Runs(j) /\ r.loaded = db.tokens
    BY <1>1, <2>1 DEF ClockOK, TokensOK
  <2>2. CASE Runs(j) /\ r.loaded = round[j].loaded
    BY <1>1, <2>2 DEF ClockOK, LoadedOK
  <2>3. QED
    BY <2>1, <2>2
<1>5. DeltaTypeOK' /\ BoxOK'
  BY <1>1 DEF DeltaTypeOK, BoxOK, Born
<1>6. ClockOK'
  BY <1>1, <1>2, <1>4 DEF ClockOK, Runs
<1>7. LockOK'
  BY <1>1, <1>2, <1>3 DEF LockOK, Runs
<1>8. TokensOK'
  BY <1>1, Steady DEF TokensOK
<1>9. LoadedOK'
  <2> SUFFICES ASSUME NEW k \in Jobs, Runs(k)', NEW g \in Folders
               PROVE  /\ Vouched(tx, g, round'[k].loaded[g])
                      /\ writer # k => Vouched(db, g, round'[k].loaded[g])
    BY Steady DEF LoadedOK
  <2>1. CASE k = j
    BY <1>2, <1>4, <2>1
  <2>2. CASE k # j
    BY <1>1, <1>2, <2>2 DEF LoadedOK, Runs
  <2>3. QED
    BY <2>1, <2>2
<1>10. LinkOK'
  <2> SUFFICES ASSUME NEW k \in Jobs, Runs(k)', k # j
               PROVE  IF round'[k].phase = "pages" THEN Linked(k)'
                      ELSE round'[k].objects = Empty
    BY <1>2 DEF LinkOK
  <2>1. Runs(k) /\ round'[k] = round[k]
    BY <1>2 DEF Runs
  <2>2. QED
    BY <1>1, <2>1, StaysLinked DEF LinkOK
<1>11. OvertakenOK'
  <2> SUFFICES ASSUME NEW k \in Jobs, Paging(k)' PROVE Ahead(k)'
    BY DEF OvertakenOK
  <2>1. k # j
    BY <1>2 DEF Paging
  <2>2. Paging(k) /\ Runs(k) /\ round'[k] = round[k] /\ Ahead(k)
    BY <1>1, <1>2, <2>1 DEF Paging, Runs, OvertakenOK
  <2> DEFINE f == round[k].folder
  <2>3. ASSUME r.loaded[f] > round[k].link
        PROVE  tx.tokens[f] > round[k].link
    <3>1. CASE ~Runs(j) /\ r.loaded = db.tokens
      <4>1. writer # j
        BY <1>1, <3>1 DEF LockOK
      <4>2. writer \in {k, Nobody}
        BY <1>1, <2>1, <4>1, TwoJobs DEF DeltaTypeOK
      <4>3. CASE writer = k
        BY <2>2, <2>3, <3>1, <4>3 DEF Ahead
      <4>4. CASE writer = Nobody
        BY <1>1, <2>3, <3>1, <4>4 DEF LockOK
      <4>5. QED
        BY <4>2, <4>3, <4>4
    <3>2. CASE Runs(j) /\ r.loaded = round[j].loaded
      BY <2>1, <2>2, <2>3, <3>2 DEF Ahead
    <3>3. QED
      BY <3>1, <3>2
  <2>4. ASSUME NEW i \in Jobs \ {k}, Runs(i)',
               round'[i].loaded[f] > round[k].link
        PROVE  tx.tokens[f] > round[k].link
    <3>1. CASE i = j
      BY <1>2, <2>3, <2>4, <3>1
    <3>2. CASE i # j
      BY <1>2, <2>2, <2>4, <3>2 DEF Ahead, Runs
    <3>3. QED
      BY <3>1, <3>2
  <2>5. QED
    BY <2>2, <2>4 DEF Ahead
<1>12. QED
  BY <1>5, <1>6, <1>7, <1>8, <1>9, <1>10, <1>11 DEF Inv

\* A folder is begun with the tokens the session has loaded.
LEMMA OpenRoundInv ==
  ASSUME Inv, NEW j \in Jobs, NEW f \in Folders, NEW tokens,
         \/ ~Runs(j) /\ tokens = db.tokens
         \/ Runs(j) /\ tokens = round[j].loaded,
         OpenRound(j, f, tokens)
  PROVE  Inv'
<1>1. DeltaTypeOK /\ faults \in 0..MaxFaults
  BY DEF Inv, DeltaTypeOK
<1> DEFINE r == [phase |-> "open", folder |-> f, loaded |-> tokens,
                 due |-> {}, link |-> 0, objects |-> Empty,
                 reset |-> FALSE, touched |-> {}]
<1>2. tokens \in [Folders -> Versions]
  BY <1>1, StoreType, RoundType DEF DeltaTypeOK
<1>3. r \in Rounds
  BY <1>2, VersionsType DEF Rounds, Empty
<1>4. r.link <= clock[r.folder]
  BY <1>1, ClockType
<1>5. r.phase # "pages" /\ r.objects = Empty /\ r.loaded = tokens
  OBVIOUS
<1>6. /\ round' = [round EXCEPT ![j] = r]
      /\ UNCHANGED <<box, clock, db, tx, writer, missed>> /\ faults' = faults
  BY DEF OpenRound, mailbox
<1> HIDE DEF r
<1>7. QED
  BY <1>1, <1>3, <1>4, <1>5, <1>6, RoundInv

\* The first page fixes the link and what is owed.
LEMMA FirstPageInv == ASSUME Inv, NEW j \in Jobs, FirstPage(j) PROVE Inv'
<1>1. /\ DeltaTypeOK /\ BoxOK /\ ClockOK /\ LockOK
      /\ TokensOK /\ LoadedOK /\ LinkOK /\ OvertakenOK
  BY DEF Inv
<1> DEFINE f == round[j].folder
           token == RoundToken(j)
           owed == Owed(f, token)
<1>2. /\ Runs(j) /\ round[j].phase = "open" /\ round[j] \in Rounds
      /\ f \in Folders /\ token \in Versions /\ token \in Nat
      /\ clock[f] \in Nat /\ clock[f] \in Versions /\ token <= clock[f]
      /\ round[j].objects = Empty
  BY <1>1, RoundType, ClockType
     DEF FirstPage, Runs, ClockOK, RoundToken, LinkOK
<1>3. /\ round' = [round EXCEPT ![j].phase = "pages", ![j].link = clock[f],
                                ![j].due = owed]
      /\ UNCHANGED <<box, clock, db, tx, writer, missed, faults>>
  BY DEF FirstPage, mailbox
<1>4. /\ owed \in SUBSET Items
      /\ \A i \in owed : i.id \in Messages /\ Born(i.id) /\ i = Item(i.id)
                            /\ FolderOf[i.id] = f
  BY <1>1, <1>2, OwedType
<1>5. \A m \in Messages : Born(m) /\ FolderOf[m] = f =>
         \/ box[m].ver <= token
         \/ Item(m) \in owed
         \/ token = 0 /\ box[m].status = "gone"
  BY <1>1, <1>2, BoxType DEF Owed, Born
<1> HIDE DEF owed
<1>6. /\ round'[j] = [round[j] EXCEPT !.phase = "pages", !.link = clock[f],
                                      !.due = owed]
      /\ \A k \in Jobs : k # j => round'[k] = round[k]
  BY <1>1, <1>3 DEF DeltaTypeOK
<1>7. /\ round'[j] \in Rounds /\ round'[j].phase = "pages"
      /\ round'[j].folder = f /\ round'[j].loaded = round[j].loaded
      /\ round'[j].objects = Empty /\ round'[j].link = clock[f]
      /\ round'[j].due = owed
  BY <1>2, <1>4, <1>6 DEF Rounds
<1>8. \A k \in Jobs : /\ RoundToken(k)' = RoundToken(k)
                      /\ Runs(k)' => Runs(k)
                      /\ round'[k].folder = round[k].folder
                      /\ round'[k].loaded = round[k].loaded
  BY <1>2, <1>6, <1>7 DEF RoundToken, Runs
<1>9. DeltaTypeOK' /\ BoxOK'
  BY <1>1, <1>3, <1>7 DEF DeltaTypeOK, BoxOK, Born
<1>10. ClockOK'
  <2>1. round'[j].link <= clock[round'[j].folder]
    BY <1>2, <1>7
  <2>2. \A k \in Jobs \ {j} :
           Runs(k)' => round'[k].link <= clock[round'[k].folder]
    BY <1>1, <1>6, <1>8 DEF ClockOK
  <2>3. QED
    BY <1>1, <1>3, <1>8, <2>1, <2>2 DEF ClockOK
<1>11. LockOK'
  <2>1. Runs(j)'
    BY <1>7 DEF Runs, NoRound
  <2>2. QED
    BY <1>1, <1>3, <1>6, <2>1 DEF LockOK, Runs
<1>12. TokensOK' /\ LoadedOK'
  BY <1>1, <1>3, <1>8, Steady DEF TokensOK, LoadedOK
<1>13. LinkOK'
  <2> SUFFICES ASSUME NEW k \in Jobs, Runs(k)'
               PROVE  IF round'[k].phase = "pages" THEN Linked(k)'
                      ELSE round'[k].objects = Empty
    BY DEF LinkOK
  <2>1. CASE k = j
    <3>1. \A m : (Born(m)' <=> Born(m)) /\ Item(m)' = Item(m)
                  /\ box'[m] = box[m]
      BY <1>3 DEF Born, Item
    <3>2. Pending(j)' = {}
      BY <1>7 DEF Pending, Empty
    <3>3. QED
      BY <1>2, <1>4, <1>5, <1>7, <1>8, <2>1, <3>1, <3>2 DEF Linked
  <2>2. CASE k # j
    BY <1>1, <1>3, <1>6, <2>2, StaysLinked DEF LinkOK, Runs
  <2>3. QED
    BY <2>1, <2>2
<1>14. OvertakenOK'
  <2> SUFFICES ASSUME NEW k \in Jobs, Paging(k)' PROVE Ahead(k)'
    BY DEF OvertakenOK
  <2>1. CASE k = j
    <3>1. db.tokens[f] \in Nat /\ db.tokens[f] <= clock[f]
      BY <1>1, <1>2, StoreType DEF DeltaTypeOK, ClockOK
    <3>2. \A i \in Jobs : Runs(i) =>
             round[i].loaded[f] \in Nat /\ round[i].loaded[f] <= clock[f]
      BY <1>1, <1>2, RoundType DEF ClockOK
    <3>3. ~(db.tokens[f] > clock[f])
      BY <1>2, <3>1
    <3>4. \A i \in Jobs : Runs(i)' => ~(round'[i].loaded[f] > clock[f])
      BY <1>2, <1>8, <3>2
    <3>5. QED
      BY <1>3, <1>7, <2>1, <3>3, <3>4 DEF Ahead
  <2>2. CASE k # j
    <3>1. Paging(k) /\ round'[k] = round[k]
      BY <1>6, <2>2 DEF Paging, Runs
    <3>2. QED
      BY <1>1, <1>3, <1>8, <3>1 DEF OvertakenOK, Ahead
  <2>3. QED
    BY <2>1, <2>2
<1>15. QED
  BY <1>9, <1>10, <1>11, <1>12, <1>13, <1>14 DEF Inv

\* An item of a page is read and changed in the session.
LEMMA DeliverInv ==
  ASSUME Inv, NEW j \in Jobs, NEW i \in round[j].due, Deliver(j, i)
  PROVE  Inv'
<1>1. /\ DeltaTypeOK /\ BoxOK /\ ClockOK /\ LockOK
      /\ TokensOK /\ LoadedOK /\ LinkOK /\ OvertakenOK
  BY DEF Inv
<1> DEFINE f == round[j].folder
           row == Working(j).rows[i.id]
           old == round[j].objects
<1>2. Paging(j) /\ Runs(j) /\ Linked(j)
  BY <1>1 DEF Deliver, Paging, Runs, LinkOK
<1>3. /\ round[j] \in Rounds /\ i \in Items /\ i.id \in Messages
      /\ round[j].due \in SUBSET Items
      /\ old \in [Messages -> Objects \cup {NotLoaded}]
  BY <1>1, <1>2, RoundType DEF Items
<1>4. PICK item \in {i, Item(i.id)}, last \in BOOLEAN :
        /\ IF last THEN UNCHANGED faults ELSE Fault
        /\ round' = [round EXCEPT
              ![j].objects[i.id] = Taken(@, row, item),
              ![j].due = IF last THEN @ \ {i} ELSE @,
              ![j].touched = IF item.status = "gone" THEN @
                             ELSE @ \cup {i.id}]
  BY DEF Deliver
<1>5. UNCHANGED <<box, clock, db, tx, writer, missed>>
  BY DEF Deliver, mailbox
<1>6. /\ Born(i.id) /\ FolderOf[i.id] = f /\ item \in Items
      /\ box[i.id].ver <= round[j].link => item = Item(i.id)
  <2>1. /\ Born(i.id) /\ FolderOf[i.id] = f
        /\ box[i.id].ver <= round[j].link => i = Item(i.id)
    BY <1>2 DEF Linked
  <2>2. QED
    BY <1>1, <1>3, <2>1, ItemType
<1> DEFINE new == Taken(old[i.id], row, item)
           objects == [old EXCEPT ![i.id] = new]
           due == IF last THEN round[j].due \ {i} ELSE round[j].due
           touched == IF item.status = "gone" THEN round[j].touched
                      ELSE round[j].touched \cup {i.id}
<1>7. /\ new \in Objects /\ new # NotLoaded
      /\ box[i.id].ver <= round[j].link => Shows(new.now, i.id)
  <2>1. row \in Rows
    BY <1>1, <1>3, StoreType DEF DeltaTypeOK, Working
  <2>2. /\ new \in Objects /\ new # NotLoaded
        /\ \E r \in Rows : new.now = Upserted(r, item)
    BY <1>3, <1>6, <2>1, TakenType
  <2>3. QED
    BY <1>1, <1>3, <1>6, <2>2, UpsertedShows
<1> HIDE DEF new, row
<1>8. /\ objects \in [Messages -> Objects \cup {NotLoaded}]
      /\ objects[i.id] = new
      /\ \A m \in Messages : m # i.id => objects[m] = old[m]
  BY <1>3, <1>7
<1>9. /\ due \subseteq round[j].due /\ due \in SUBSET Items
      /\ \A d \in round[j].due : d # i => d \in due
      /\ touched \in SUBSET Messages
  BY <1>3 DEF Rounds
<1>10. /\ round'[j] = [round[j] EXCEPT !.objects = objects, !.due = due,
                                       !.touched = touched]
       /\ \A k \in Jobs : k # j => round'[k] = round[k]
  <2>1. round[j].objects[i.id] = old[i.id]
    OBVIOUS
  <2>2. QED
    BY <1>1, <1>4, <2>1 DEF DeltaTypeOK, new
<1> HIDE DEF objects, due, touched
<1>11. /\ round'[j] \in Rounds /\ round'[j].phase = "pages"
       /\ round'[j].folder = f /\ round'[j].loaded = round[j].loaded
       /\ round'[j].link = round[j].link
       /\ round'[j].due = due /\ round'[j].objects = objects
  <2>1. round[j].phase = "pages"
    BY <1>2 DEF Paging
  <2>2. QED
    BY <1>3, <1>8, <1>9, <1>10, <2>1 DEF Rounds
<1>12. \A k \in Jobs : /\ RoundToken(k)' = RoundToken(k)
                       /\ Runs(k)' => Runs(k)
                       /\ Paging(k)' => Paging(k)
                       /\ round'[k].folder = round[k].folder
                       /\ round'[k].loaded = round[k].loaded
                       /\ round'[k].link = round[k].link
  BY <1>2, <1>10, <1>11 DEF RoundToken, Runs, Paging
<1>13. DeltaTypeOK' /\ BoxOK'
  <2>1. faults' \in 0..MaxFaults
    BY <1>1, <1>4, DeltaAssumption DEF DeltaTypeOK, Fault
  <2>2. round' \in [Jobs -> Rounds \cup {NoRound}]
    BY <1>1, <1>4, <1>11 DEF DeltaTypeOK
  <2>3. QED
    BY <1>1, <1>5, <2>1, <2>2 DEF DeltaTypeOK, BoxOK, Born
<1>14. ClockOK'
  BY <1>1, <1>5, <1>12 DEF ClockOK
<1>15. LockOK'
  <2>1. Runs(j)'
    BY <1>11 DEF Runs, NoRound
  <2>2. QED
    BY <1>1, <1>5, <1>10, <2>1 DEF LockOK, Runs
<1>16. TokensOK' /\ LoadedOK'
  BY <1>1, <1>5, <1>12, Steady DEF TokensOK, LoadedOK
<1>17. LinkOK'
  <2> SUFFICES ASSUME NEW k \in Jobs, Runs(k)'
               PROVE  IF round'[k].phase = "pages" THEN Linked(k)'
                      ELSE round'[k].objects = Empty
    BY DEF LinkOK
  <2>1. CASE k = j
    <3>1. \A m : /\ (Born(m)' <=> Born(m)) /\ Item(m)' = Item(m)
                 /\ box'[m] = box[m]
                 /\ \A r : Shows(r, m)' <=> Shows(r, m)
      BY <1>5 DEF Born, Item, Shows
    <3>2. Pending(j)' = Pending(j) \cup {i.id}
      BY <1>3, <1>7, <1>8, <1>11 DEF Pending
    <3>3. \A m \in Messages : Item(m) \in round[j].due =>
             Item(m) \in due \/ m \in Pending(j)'
      <4> SUFFICES ASSUME NEW m \in Messages, Item(m) \in round[j].due,
                          m # i.id
                   PROVE  Item(m) \in due
        BY <3>2
      <4>1. Item(m) # i
        BY DEF Item
      <4>2. QED
        BY <1>9, <4>1
    <3>4. ASSUME NEW m \in Pending(j)'
          PROVE  /\ FolderOf[m] = f
                 /\ box[m].ver <= round[j].link => Shows(objects[m].now, m)
      <4>1. CASE m = i.id
        BY <1>6, <1>7, <1>8, <4>1
      <4>2. CASE m # i.id
        <5>1. m \in Messages /\ m \in Pending(j) /\ objects[m] = old[m]
          BY <1>8, <3>2, <3>4, <4>2 DEF Pending
        <5>2. QED
          BY <1>2, <5>1 DEF Linked
      <4>3. QED
        BY <4>1, <4>2
    <3>5. \A m \in Messages :
             Born(m) /\ FolderOf[m] = f /\ box[m].ver <= round[j].link =>
                \/ box[m].ver <= RoundToken(j)
                \/ Item(m) \in due
                \/ RoundToken(j) = 0 /\ box[m].status = "gone"
                \/ m \in Pending(j)'
      BY <1>2, <3>2, <3>3 DEF Linked
    <3>6. /\ RoundToken(j) <= round[j].link
          /\ \A d \in due : /\ FolderOf[d.id] = f /\ Born(d.id)
                            /\ box[d.id].ver <= round[j].link => d = Item(d.id)
      BY <1>2, <1>9 DEF Linked
    <3>7. QED
      BY <1>11, <1>12, <2>1, <3>1, <3>4, <3>5, <3>6 DEF Linked
  <2>2. CASE k # j
    BY <1>1, <1>5, <1>10, <2>2, StaysLinked DEF LinkOK, Runs
  <2>3. QED
    BY <2>1, <2>2
<1>18. OvertakenOK'
  <2> SUFFICES ASSUME NEW k \in Jobs, Paging(k)' PROVE Ahead(k)'
    BY DEF OvertakenOK
  <2>1. Paging(k) /\ Ahead(k)
    BY <1>1, <1>12 DEF OvertakenOK
  <2>2. QED
    BY <1>5, <1>12, <2>1 DEF Ahead
<1>19. QED
  BY <1>13, <1>14, <1>15, <1>16, <1>17, <1>18 DEF Inv

-----------------------------------------------------------------------------
(* The flush.  The holder of the lock is j from now on.                     *)

\* What the flush starts from is what the holder of the lock sees.
LEMMA Takes ==
  ASSUME Inv, NEW j \in Jobs, Locks(j)
  PROVE  /\ Working(j) = tx /\ Working(j) \in Stores
         /\ writer # j => db = tx
  BY DEF Inv, DeltaTypeOK, LockOK, Locks, Working

\* The rows a flush writes, and the token: what a token no newer than the
\* round's link has vouched for, or any token of a round that knows it has
\* been overtaken, is vouched for afterwards.
LEMMA FlushKeeps ==
  ASSUME Inv, NEW j \in Jobs, Runs(j), NEW token \in Versions,
         Flush(j, token), UNCHANGED box
  PROVE  /\ tx' \in Stores /\ writer' = j
         /\ missed \subseteq missed' /\ missed' \in SUBSET Messages
         /\ \A g \in Folders : tx'.tokens[g] =
               IF g = round[j].folder /\ token # RoundToken(j)
               THEN token ELSE tx.tokens[g]
         /\ \A g \in Folders, t \in Nat :
               /\ Vouched(tx, g, t)
               /\ Paging(j) /\ g = round[j].folder /\ t > round[j].link =>
                     tx.tokens[g] > round[j].link
               => Vouched(tx, g, t)'
<1>1. DeltaTypeOK /\ LinkOK
  BY DEF Inv
<1> DEFINE f == round[j].folder
<1>2. /\ Locks(j) /\ writer' = j /\ Working(j) = tx /\ tx \in Stores
      /\ tx' = [rows |-> Flushed(j),
                tokens |-> [tx.tokens EXCEPT ![f] =
                               Column(token, RoundToken(j), @)]]
      /\ missed' = missed \cup LeftBehind(j, token)
  BY Takes DEF Flush
<1>3. /\ f \in Folders /\ RoundToken(j) \in Nat /\ round[j].link \in Nat
      /\ tx.rows \in [Messages -> Rows] /\ tx.tokens \in [Folders -> Versions]
  BY <1>1, <1>2, RoundType, StoreType
<1>4. /\ Flushed(j) \in [Messages -> Rows]
      /\ \A m \in Messages : m \notin Pending(j) => Flushed(j)[m] = tx.rows[m]
  <2>1. ASSUME NEW m \in Messages, m \in Pending(j)
        PROVE  Written(round[j].objects[m], tx.rows[m]) \in Rows
    BY <1>1, <1>3, <2>1, LoadedObject, WrittenType
  <2>2. QED
    BY <1>2, <1>3, <2>1 DEF Flushed
<1> DEFINE column == Column(token, RoundToken(j), tx.tokens[f])
           tokens == [tx.tokens EXCEPT ![f] = column]
<1>5. /\ column \in Versions
      /\ column = IF token # RoundToken(j) THEN token ELSE tx.tokens[f]
  BY <1>3 DEF Column
<1> HIDE DEF column
<1>6. /\ tokens \in [Folders -> Versions]
      /\ \A g \in Folders : tokens[g] = IF g = f THEN column ELSE tx.tokens[g]
  BY <1>3, <1>5
<1>7. /\ tx' = [rows |-> Flushed(j), tokens |-> tokens]
      /\ tx'.rows = Flushed(j) /\ tx'.tokens = tokens
  BY <1>2 DEF column
<1> HIDE DEF tokens
<1>8. tx' \in Stores
  BY <1>4, <1>6, <1>7 DEF Stores
<1>9. missed \subseteq missed' /\ missed' \in SUBSET Messages
  BY <1>1, <1>2 DEF DeltaTypeOK, LeftBehind
<1>10. ASSUME NEW g \in Folders, NEW t \in Nat, Vouched(tx, g, t),
              Paging(j) /\ g = f /\ t > round[j].link =>
                 tx.tokens[g] > round[j].link
       PROVE  Vouched(tx, g, t)'
  <2> SUFFICES ASSUME NEW m \in Messages, Born(m), FolderOf[m] = g,
                      box[m].ver <= t
               PROVE  Shows(Flushed(j)[m], m) \/ m \in missed'
    BY <1>7 DEF Vouched, Excused, Born, Shows
  <2>1. CASE m \notin Pending(j)
    BY <1>4, <1>9, <1>10, <2>1 DEF Vouched, Excused
  <2>2. CASE m \in Pending(j)
    <3>1. round[j].phase = "pages" /\ Paging(j)
      BY <1>1, <2>2 DEF LinkOK, Paging, Pending, Empty
    <3>2. /\ FolderOf[m] = f
          /\ box[m].ver <= round[j].link => Shows(round[j].objects[m].now, m)
      BY <1>1, <2>2, <3>1 DEF LinkOK, Linked
    <3>3. CASE box[m].ver <= round[j].link
      BY <1>2, <2>2, <3>2, <3>3 DEF LeftBehind
    <3>4. CASE ~(box[m].ver <= round[j].link)
      <4>1. t > round[j].link
        BY <1>1, <1>3, <3>4, BoxType
      <4>2. Overtaken(j)
        BY <1>2, <1>10, <3>1, <3>2, <4>1 DEF Overtaken
      <4>3. QED
        BY <1>2, <2>2, <4>2 DEF LeftBehind
    <3>5. QED
      BY <3>3, <3>4
  <2>3. QED
    BY <2>1, <2>2
<1>11. QED
  BY <1>2, <1>5, <1>6, <1>7, <1>8, <1>9, <1>10

\* A flush ends the reading of pages; its token must vouch for the rows.
LEMMA FlushInv ==
  ASSUME Inv, NEW j \in Jobs, Runs(j), NEW token \in Versions,
         Flush(j, token), UNCHANGED <<box, clock, db>>,
         NEW r \in Rounds, r.phase # "pages", r.objects = Empty,
         r.folder = round[j].folder, r.link <= clock[r.folder],
         r.loaded = [round[j].loaded EXCEPT ![round[j].folder] = token],
         token <= clock[round[j].folder],
         Vouched(tx, r.folder, token)',
         round' = [round EXCEPT ![j] = r], faults' \in 0..MaxFaults
  PROVE  Inv'
<1>1. /\ DeltaTypeOK /\ BoxOK /\ ClockOK /\ LockOK
      /\ TokensOK /\ LoadedOK /\ LinkOK /\ OvertakenOK
  BY DEF Inv
<1> DEFINE f == round[j].folder
<1>2. /\ tx' \in Stores /\ writer' = j
      /\ missed \subseteq missed' /\ missed' \in SUBSET Messages
      /\ \A g \in Folders : tx'.tokens[g] =
            IF g = f /\ token # RoundToken(j) THEN token ELSE tx.tokens[g]
      /\ \A g \in Folders, t \in Nat :
            /\ Vouched(tx, g, t)
            /\ Paging(j) /\ g = f /\ t > round[j].link =>
                  tx.tokens[g] > round[j].link
            => Vouched(tx, g, t)'
  BY FlushKeeps
<1>3. /\ f \in Folders /\ token \in Nat /\ RoundToken(j) \in Nat
      /\ round[j].link \in Nat
      /\ RoundToken(j) = round[j].loaded[f]
      /\ \A g \in Folders : r.loaded[g] =
            IF g = f THEN token ELSE round[j].loaded[g]
  BY <1>1, RoundType, VersionsType DEF RoundToken
<1>4. /\ round'[j] = r
      /\ \A k \in Jobs : k # j => round'[k] = round[k]
  BY <1>1 DEF DeltaTypeOK
<1>5. Runs(j)'
  BY <1>4 DEF Runs, NoRound, Rounds
<1>6. writer # j => tx = db
  BY Takes DEF Flush
<1>7. \A g \in Folders : /\ tx.tokens[g] \in Nat /\ db.tokens[g] \in Nat
                         /\ tx.tokens[g] <= clock[g]
                         /\ db.tokens[g] <= clock[g]
  BY <1>1, StoreType DEF DeltaTypeOK, ClockOK
<1>8. DeltaTypeOK' /\ BoxOK'
  <2>1. round' \in [Jobs -> Rounds \cup {NoRound}]
    BY <1>1 DEF DeltaTypeOK
  <2>2. QED
    BY <1>1, <1>2, <2>1 DEF DeltaTypeOK, BoxOK, Born
<1>9. ClockOK'
  <2>1. \A g \in Folders : tx'.tokens[g] <= clock[g]
    BY <1>2, <1>7
  <2>2. ASSUME NEW k \in Jobs, Runs(k)'
        PROVE  /\ \A g \in Folders : round'[k].loaded[g] <= clock[g]
               /\ round'[k].link <= clock[round'[k].folder]
    <3>1. CASE k = j
      <4>1. \A g \in Folders : round[j].loaded[g] <= clock[g]
        BY <1>1 DEF ClockOK
      <4>2. \A g \in Folders : r.loaded[g] <= clock[g]
        BY <1>3, <4>1
      <4>3. QED
        BY <1>4, <3>1, <4>2
    <3>2. CASE k # j
      BY <1>1, <1>4, <2>2, <3>2 DEF ClockOK, Runs
    <3>3. QED
      BY <3>1, <3>2
  <2>3. QED
    BY <1>7, <2>1, <2>2 DEF ClockOK
<1>10. LockOK'
  BY <1>2, <1>5, DeltaAssumption DEF LockOK
<1>11. TokensOK'
  <2> SUFFICES ASSUME NEW g \in Folders
               PROVE  /\ Vouched(db, g, db.tokens[g])'
                      /\ Vouched(tx, g, tx.tokens[g])'
                      /\ Vouched(tx, g, db.tokens[g])'
    BY DEF TokensOK
  <2>1. Vouched(db, g, db.tokens[g])'
    BY <1>1, <1>2, Steady DEF TokensOK
  <2>2. Vouched(tx, g, tx.tokens[g])'
    <3>1. CASE g = f /\ token # RoundToken(j)
      <4>1. tx'.tokens[g] = token
        BY <1>2, <3>1
      <4>2. QED
        BY <3>1, <4>1
    <3>2. CASE ~(g = f /\ token # RoundToken(j))
      <4>1. tx'.tokens[g] = tx.tokens[g]
        BY <1>2, <3>2
      <4>2. Vouched(tx, g, tx.tokens[g])
        BY <1>1 DEF TokensOK
      <4> DEFINE t == tx.tokens[g]
      <4>3. t \in Nat /\ (g = f /\ t > round[j].link => t > round[j].link)
        BY <1>7
      <4>4. \A u \in Nat : u = t => Vouched(tx, g, u)'
        BY <1>2, <4>2, <4>3
      <4>5. QED
        BY <4>1, <4>3, <4>4
    <3>3. QED
      BY <3>1, <3>2
  <2>3. Vouched(tx, g, db.tokens[g])'
    <3>1. Vouched(tx, g, db.tokens[g])
      BY <1>1 DEF TokensOK
    <3>2. Paging(j) /\ g = f /\ db.tokens[g] > round[j].link =>
             tx.tokens[g] > round[j].link
      BY <1>1, <1>6 DEF OvertakenOK, Ahead
    <3>3. QED
      BY <1>2, <1>7, <3>1, <3>2
  <2>4. QED
    BY <2>1, <2>2, <2>3
<1>12. LoadedOK'
  <2> SUFFICES ASSUME NEW k \in Jobs, Runs(k)', NEW g \in Folders
               PROVE  /\ Vouched(tx, g, round[k].loaded[g])'
                      /\ k # j => Vouched(db, g, round[k].loaded[g])'
    BY <1>2 DEF LoadedOK
  <2>1. CASE k = j
    <3>1. CASE g = f
      <4>1. round'[j].loaded[g] = token
        BY <1>3, <1>4, <3>1
      <4>2. QED
        BY <2>1, <3>1, <4>1
    <3>2. CASE g # f
      <4>1. round'[j].loaded[g] = round[j].loaded[g]
        BY <1>3, <1>4, <3>2
      <4>2. /\ round[j].loaded[g] \in Nat
            /\ Vouched(tx, g, round[j].loaded[g])
        BY <1>1, RoundType DEF LoadedOK
      <4>3. \A u \in Nat : u = round[j].loaded[g] => Vouched(tx, g, u)'
        BY <1>2, <3>2, <4>2
      <4>4. QED
        BY <2>1, <4>1, <4>2, <4>3
    <3>3. QED
      BY <3>1, <3>2
  <2>2. CASE k # j
    <3>1. Runs(k) /\ round'[k] = round[k]
      BY <1>4, <2>2 DEF Runs
    <3>2. /\ round[k].loaded[g] \in Nat
          /\ Vouched(tx, g, round[k].loaded[g])
          /\ Vouched(db, g, round[k].loaded[g])
      BY <1>1, <1>6, <2>2, <3>1, RoundType DEF LoadedOK
    <3>3. Paging(j) /\ g = f /\ round[k].loaded[g] > round[j].link =>
             tx.tokens[g] > round[j].link
      BY <1>1, <2>2, <3>1 DEF OvertakenOK, Ahead
    <3>4. \A u \in Nat : u = round[k].loaded[g] => Vouched(tx, g, u)'
      BY <1>2, <3>2, <3>3
    <3>5. Vouched(db, g, round[k].loaded[g])'
      BY <1>2, <3>1, <3>2, Steady
    <3>6. QED
      BY <3>1, <3>2, <3>4, <3>5
  <2>3. QED
    BY <2>1, <2>2
<1>13. LinkOK'
  <2> SUFFICES ASSUME NEW k \in Jobs, Runs(k)', k # j
               PROVE  IF round'[k].phase = "pages" THEN Linked(k)'
                      ELSE round'[k].objects = Empty
    BY <1>4 DEF LinkOK
  <2>1. Runs(k) /\ round'[k] = round[k]
    BY <1>4 DEF Runs
  <2>2. QED
    BY <1>1, <2>1, StaysLinked DEF LinkOK
<1>14. OvertakenOK'
  <2> SUFFICES ASSUME NEW k \in Jobs, Paging(k)' PROVE Ahead(k)'
    BY DEF OvertakenOK
  <2>1. k # j
    BY <1>4 DEF Paging
  <2>2. Paging(k) /\ Runs(k) /\ round'[k] = round[k] /\ Ahead(k)
    BY <1>1, <1>4, <2>1 DEF Paging, Runs, OvertakenOK
  <2> DEFINE h == round[k].folder
  <2>3. h \in Folders
    BY <1>1, <2>2, RoundType
  <2>4. r.loaded[h] > round[k].link => tx'.tokens[h] > round[k].link
    <3>1. CASE h = f /\ token # RoundToken(j)
      BY <1>2, <1>3, <2>3, <3>1
    <3>2. CASE ~(h = f /\ token # RoundToken(j))
      <4>1. r.loaded[h] = round[j].loaded[h] /\ tx'.tokens[h] = tx.tokens[h]
        BY <1>2, <1>3, <2>3, <3>2
      <4>2. QED
        BY <2>1, <2>2, <4>1 DEF Ahead
    <3>3. QED
      BY <3>1, <3>2
  <2>5. \A i \in Jobs \ {k} : i = j
    BY <2>1, TwoJobs
  <2>6. QED
    BY <1>2, <1>4, <2>1, <2>2, <2>4, <2>5 DEF Ahead
<1>15. QED
  BY <1>8, <1>9, <1>10, <1>11, <1>12, <1>13, <1>14 DEF Inv

LEMMA EmptyType == Empty \in [Messages -> Objects \cup {NotLoaded}]
  BY DEF Empty

\* The round is over; its link is kept when all it owed has been delivered.
LEMMA ClosedInv ==
  ASSUME Inv, NEW j \in Jobs, Paging(j), NEW token \in Versions,
         Closed(j, token), faults' \in 0..MaxFaults,
         \/ token = RoundToken(j)
         \/ token = round[j].link /\ round[j].due = {}
  PROVE  Inv'
<1>1. DeltaTypeOK /\ ClockOK /\ TokensOK /\ LoadedOK /\ LinkOK
  BY DEF Inv
<1>2. Runs(j) /\ Linked(j) /\ Flush(j, token) /\ round[j] \in Rounds
  BY <1>1, RoundType DEF Paging, LinkOK, Closed
<1>3. PICK f \in Folders, start \in Nat, loaded \in [Folders -> Versions] :
         /\ f = round[j].folder /\ start = RoundToken(j)
         /\ loaded = [round[j].loaded EXCEPT ![f] = token]
  BY <1>1, <1>2, RoundType
<1>4. /\ round[j].link \in Nat /\ token \in Nat /\ clock[f] \in Nat
      /\ start <= round[j].link /\ round[j].link <= clock[f]
  BY <1>1, <1>2, <1>3, RoundType, ClockType, VersionsType DEF Linked, ClockOK
<1>5. PICK r : r = [round[j] EXCEPT !.phase = "closed", !.objects = Empty,
                                    !.loaded = loaded]
  OBVIOUS
<1>6. /\ r \in Rounds /\ r.phase # "pages" /\ r.objects = Empty
      /\ r.folder = f /\ r.link = round[j].link /\ r.loaded = loaded
  BY <1>2, <1>3, <1>5, EmptyType DEF Rounds
<1>7. round' = [round EXCEPT ![j] = r] /\ UNCHANGED <<box, clock, db>>
  <2>1. /\ round' = [round EXCEPT ![j].phase = "closed", ![j].objects = Empty,
                                  ![j].loaded[round[j].folder] = token]
        /\ UNCHANGED <<box, clock, db>>
    BY DEF Closed, mailbox
  <2>2. round \in [Jobs -> Rounds \cup {NoRound}]
    BY <1>1 DEF DeltaTypeOK
  <2>3. round'[j] = r /\ \A k \in Jobs : k # j => round'[k] = round[k]
    BY <1>2, <1>3, <1>5, <2>1, <2>2
  <2>4. round' = [k \in Jobs |-> round'[k]]
    BY <2>1, <2>2
  <2>5. [round EXCEPT ![j] = r]
           = [k \in Jobs |-> IF k = j THEN r ELSE round[k]]
    BY <2>2
  <2>6. QED
    BY <2>1, <2>3, <2>4, <2>5
<1>8. /\ \A g \in Folders, t \in Nat :
            /\ Vouched(tx, g, t)
            /\ Paging(j) /\ g = f /\ t > round[j].link =>
                  tx.tokens[g] > round[j].link
            => Vouched(tx, g, t)'
      /\ tx'.rows = Flushed(j) /\ missed' = missed \cup LeftBehind(j, token)
  BY <1>2, <1>3, <1>7, FlushKeeps DEF Flush
<1>9. Vouched(tx, f, start)'
  <2>1. Vouched(tx, f, start)
    BY <1>1, <1>2, <1>3 DEF LoadedOK, RoundToken
  <2>2. ~(start > round[j].link)
    BY <1>4
  <2>3. QED
    BY <1>8, <2>1, <2>2
<1>10. Vouched(tx, f, token)'
  <2>1. CASE token = start
    BY <1>9, <2>1
  <2>2. CASE token = round[j].link /\ round[j].due = {}
    <3> SUFFICES ASSUME NEW m \in Messages, Born(m), FolderOf[m] = f,
                        box[m].ver <= token
                 PROVE  Shows(Flushed(j)[m], m) \/ m \in missed'
      BY <1>7, <1>8 DEF Vouched, Excused, Born, Shows
    <3>1. CASE box[m].ver <= start
      BY <1>7, <1>8, <1>9, <3>1 DEF Vouched, Excused, Born, Shows
    <3>2. CASE start = 0 /\ box[m].status = "gone"
      BY <1>3, <1>8, <3>2 DEF LeftBehind
    <3>3. CASE m \in Pending(j)
      BY <1>2, <1>3, <1>8, <2>2, <3>3 DEF LeftBehind, Linked
    <3>4. QED
      BY <1>2, <1>3, <2>2, <3>1, <3>2, <3>3 DEF Linked
  <2>3. QED
    BY <1>3, <2>1, <2>2
<1>11. token <= clock[f] /\ r.link <= clock[r.folder]
  BY <1>3, <1>4, <1>6
<1>12. /\ r.loaded = [round[j].loaded EXCEPT ![round[j].folder] = token]
       /\ r.folder = round[j].folder /\ token <= clock[round[j].folder]
  BY <1>3, <1>6, <1>11
<1>13. Vouched(tx, r.folder, token)'
  BY <1>6, <1>10
<1>14. QED
  BY <1>2, <1>6, <1>7, <1>11, <1>12, <1>13, FlushInv

\* 410: nothing is promised, and the round begins again.
LEMMA ResetInv == ASSUME Inv, NEW j \in Jobs, Reset(j) PROVE Inv'
<1>1. DeltaTypeOK /\ ClockOK /\ BoxOK
  BY DEF Inv
<1>2. Runs(j) /\ round[j] \in Rounds /\ 0 \in Versions
  BY <1>1, RoundType, VersionsType DEF Reset, Runs
<1>3. PICK f \in Folders, loaded \in [Folders -> Versions] :
         /\ f = round[j].folder
         /\ loaded = [round[j].loaded EXCEPT ![f] = 0]
  BY <1>1, <1>2, RoundType
<1>4. PICK r : r = [round[j] EXCEPT !.phase = "open", !.reset = TRUE,
                       !.loaded = loaded, !.objects = Empty, !.due = {},
                       !.link = 0, !.touched = {}]
  OBVIOUS
<1>5. /\ r \in Rounds /\ r.phase # "pages" /\ r.objects = Empty
      /\ r.folder = f /\ r.link = 0 /\ r.loaded = loaded
  BY <1>2, <1>3, <1>4, EmptyType DEF Rounds
<1>6. /\ round' = [round EXCEPT ![j] = r] /\ UNCHANGED <<box, clock, db>>
      /\ faults' \in 0..MaxFaults
  <2>1. round' = [round EXCEPT ![j] = r] /\ UNCHANGED <<box, clock, db>>
    <3>1. /\ round' = [round EXCEPT ![j].phase = "open", ![j].reset = TRUE,
                ![j].loaded[round[j].folder] = 0, ![j].objects = Empty,
                ![j].due = {}, ![j].link = 0, ![j].touched = {}]
          /\ UNCHANGED <<box, clock, db>>
      BY DEF Reset, mailbox
    <3>2. round \in [Jobs -> Rounds \cup {NoRound}]
      BY <1>1 DEF DeltaTypeOK
    <3>3. round'[j] = r /\ \A k \in Jobs : k # j => round'[k] = round[k]
      BY <1>2, <1>3, <1>4, <3>1, <3>2
    <3>4. round' = [k \in Jobs |-> round'[k]]
      BY <3>1, <3>2
    <3>5. [round EXCEPT ![j] = r]
             = [k \in Jobs |-> IF k = j THEN r ELSE round[k]]
      BY <3>2
    <3>6. \A k \in Jobs : round'[k] = IF k = j THEN r ELSE round[k]
      BY <3>3
    <3>7. QED
      BY <3>1, <3>4, <3>5, <3>6
  <2>2. faults' \in 0..MaxFaults
    BY <1>1, DeltaAssumption DEF Reset, DeltaTypeOK, Fault
  <2>3. QED
    BY <2>1, <2>2
<1>7. r.link <= clock[r.folder] /\ 0 <= clock[f]
  BY <1>1, <1>3, <1>5, ClockType
<1>8. CASE Flush(j, 0)
  <2>1. Vouched(tx, f, 0)'
    BY <1>1, <1>6, BoxType DEF Vouched, BoxOK, Born
  <2>2. /\ r.loaded = [round[j].loaded EXCEPT ![round[j].folder] = 0]
        /\ r.folder = round[j].folder /\ 0 <= clock[round[j].folder]
    BY <1>3, <1>5, <1>7
  <2>3. Vouched(tx, r.folder, 0)'
    BY <1>5, <2>1
  <2>4. QED
    BY <1>2, <1>5, <1>6, <1>7, <1>8, <2>2, <2>3, FlushInv
<1>9. CASE RoundToken(j) = 0 /\ UNCHANGED <<tx, writer, missed>>
  <2>1. r.loaded = round[j].loaded
    BY <1>1, <1>2, <1>3, <1>5, <1>9, RoundType DEF RoundToken
  <2>2. QED
    BY <1>2, <1>5, <1>6, <1>7, <1>9, <2>1, RoundInv
<1>10. QED
  BY <1>8, <1>9 DEF Reset

-----------------------------------------------------------------------------
(* The end of a session.                                                   *)

\* A round that is off is nobody's.
LEMMA RoundOff ==
  ASSUME DeltaTypeOK, NEW j \in Jobs,
         round' = [round EXCEPT ![j] = NoRound]
  PROVE  \A k \in Jobs :
            /\ Runs(k)' => Runs(k) /\ k # j /\ round'[k] = round[k]
            /\ Paging(k)' => Paging(k) /\ \A i \in Jobs \ {k} : ~Runs(i)'
<1>1. /\ round'[j] = NoRound
      /\ \A k \in Jobs : k # j => round'[k] = round[k]
  BY DEF DeltaTypeOK
<1>2. \A k \in Jobs : Runs(k)' => Runs(k) /\ k # j /\ round'[k] = round[k]
  BY <1>1 DEF Runs
<1>3. \A k \in Jobs : Paging(k)' => Paging(k)
  BY <1>2 DEF Paging
<1>4. ASSUME NEW k \in Jobs, k # j, NEW i \in Jobs \ {k} PROVE ~Runs(i)'
  BY <1>2, <1>4, TwoJobs
<1>5. QED
  BY <1>2, <1>3, <1>4 DEF Paging

\* The sync is committed: what the session has written is what there is.
LEMMA CommitSyncInv == ASSUME Inv, NEW j \in Jobs, CommitSync(j) PROVE Inv'
<1>1. /\ DeltaTypeOK /\ BoxOK /\ ClockOK /\ LockOK
      /\ TokensOK /\ LoadedOK /\ LinkOK /\ OvertakenOK
  BY DEF Inv
<1>2. /\ writer = j /\ writer' = Nobody /\ j # Nobody
      /\ db' = tx /\ tx' = tx /\ UNCHANGED <<box, clock, faults>>
      /\ round' = [round EXCEPT ![j] = NoRound]
      /\ missed' = {m \in missed : ~Shows(tx.rows[m], m)}
  BY DeltaAssumption DEF CommitSync, mailbox
<1>3. \A k \in Jobs :
         /\ Runs(k)' => Runs(k) /\ k # j /\ round'[k] = round[k]
         /\ Paging(k)' => Paging(k) /\ \A i \in Jobs \ {k} : ~Runs(i)'
  BY <1>1, <1>2, RoundOff
<1>4. \A g, t : Vouched(tx, g, t) => Vouched(tx, g, t)' /\ Vouched(db, g, t)'
  <2>1. \A m \in Messages :
           Excused(tx, m) => Excused(tx, m)' /\ Excused(db, m)'
    BY <1>2 DEF Excused, Shows
  <2>2. QED
    BY <1>2, <2>1 DEF Vouched, Born
<1>5. DeltaTypeOK' /\ BoxOK'
  BY <1>1, <1>2 DEF DeltaTypeOK, BoxOK, Born
<1>6. ClockOK' /\ LockOK'
  BY <1>1, <1>2, <1>3, DeltaAssumption DEF ClockOK, LockOK
<1>7. TokensOK'
  BY <1>1, <1>2, <1>4 DEF TokensOK
<1>8. LoadedOK'
  <2> SUFFICES ASSUME NEW k \in Jobs, Runs(k)', NEW g \in Folders
               PROVE  /\ Vouched(tx, g, round[k].loaded[g])'
                      /\ Vouched(db, g, round[k].loaded[g])'
    BY DEF LoadedOK
  <2>1. Vouched(tx, g, round[k].loaded[g]) /\ round'[k] = round[k]
    BY <1>1, <1>3 DEF LoadedOK
  <2>2. /\ round'[k].loaded[g] = round[k].loaded[g]
        /\ \A t : t = round[k].loaded[g] =>
              Vouched(tx, g, t)' /\ Vouched(db, g, t)'
    BY <1>4, <2>1
  <2>3. QED
    BY <2>2
<1>9. LinkOK'
  BY <1>1, <1>2, <1>3, StaysLinked DEF LinkOK
<1>10. OvertakenOK'
  BY <1>2, <1>3, DeltaAssumption DEF OvertakenOK, Ahead
<1>11. QED
  BY <1>5, <1>6, <1>7, <1>8, <1>9, <1>10 DEF Inv

\* The sync is abandoned: SQLite rolls back what the session has written.
LEMMA AbandonedInv ==
  ASSUME Inv, NEW j \in Jobs, Abandoned(j), faults' \in 0..MaxFaults,
         UNCHANGED <<box, clock, db, missed>>
  PROVE  Inv'
<1>1. /\ DeltaTypeOK /\ BoxOK /\ ClockOK /\ LockOK
      /\ TokensOK /\ LoadedOK /\ LinkOK /\ OvertakenOK
  BY DEF Inv
<1>2. /\ round' = [round EXCEPT ![j] = NoRound]
      /\ writer = j => writer' = Nobody /\ tx' = db
      /\ writer # j => writer' = writer /\ tx' = tx
      /\ j # Nobody
  BY DeltaAssumption DEF Abandoned
<1>3. \A k \in Jobs :
         /\ Runs(k)' => Runs(k) /\ k # j /\ round'[k] = round[k]
         /\ Paging(k)' => Paging(k) /\ \A i \in Jobs \ {k} : ~Runs(i)'
  BY <1>1, <1>2, RoundOff
<1>4. DeltaTypeOK' /\ BoxOK'
  <2>1. tx' \in Stores /\ writer' \in Jobs \cup {Nobody}
    BY <1>1, <1>2 DEF DeltaTypeOK
  <2>2. QED
    BY <1>1, <1>2, <2>1 DEF DeltaTypeOK, BoxOK, Born
<1>5. ClockOK'
  BY <1>1, <1>2, <1>3 DEF ClockOK
<1>6. LockOK'
  <2>1. \A k \in Jobs : writer' = k => Runs(k)'
    <3> SUFFICES ASSUME NEW k \in Jobs, writer' = k PROVE Runs(k)'
      OBVIOUS
    <3>1. writer = k /\ k # j
      BY <1>2, DeltaAssumption
    <3>2. Runs(k) /\ round'[k] = round[k]
      BY <1>1, <1>2, <3>1 DEF LockOK, DeltaTypeOK
    <3>3. QED
      BY <3>2 DEF Runs
  <2>2. QED
    BY <1>1, <1>2, <2>1 DEF LockOK
<1>7. TokensOK'
  BY <1>1, <1>2, Steady DEF TokensOK
<1>8. LoadedOK'
  <2> SUFFICES ASSUME NEW k \in Jobs, Runs(k)', NEW g \in Folders
               PROVE  /\ Vouched(tx, g, round[k].loaded[g])'
                      /\ writer' # k => Vouched(db, g, round[k].loaded[g])'
    BY DEF LoadedOK
  <2>1. /\ Vouched(tx, g, round[k].loaded[g])
        /\ writer # k => Vouched(db, g, round[k].loaded[g])
        /\ round'[k] = round[k] /\ k # j
    BY <1>1, <1>3 DEF LoadedOK
  <2>2. QED
    BY <1>2, <2>1, Steady
<1>9. LinkOK'
  BY <1>1, <1>3, StaysLinked DEF LinkOK
<1>10. OvertakenOK'
  <2> SUFFICES ASSUME NEW k \in Jobs, Paging(k)' PROVE Ahead(k)'
    BY DEF OvertakenOK
  <2>1. Paging(k) /\ Ahead(k) /\ round'[k] = round[k]
    BY <1>1, <1>3 DEF OvertakenOK, Paging
  <2>2. \A i \in Jobs \ {k} : ~Runs(i)'
    BY <1>3
  <2>3. writer' = k => writer = k /\ tx' = tx
    BY <1>2, DeltaAssumption
  <2>4. QED
    BY <2>1, <2>2, <2>3 DEF Ahead
<1>11. QED
  BY <1>4, <1>5, <1>6, <1>7, <1>8, <1>9, <1>10 DEF Inv

\* The process ends: only what was committed is left.
LEMMA CrashInv == ASSUME Inv, Crash PROVE Inv'
<1>1. /\ DeltaTypeOK /\ BoxOK /\ ClockOK /\ LockOK /\ TokensOK
  BY DEF Inv
<1>2. /\ round' = [j \in Jobs |-> NoRound] /\ writer' = Nobody /\ tx' = db
      /\ UNCHANGED <<box, clock, db, missed>> /\ faults' \in 0..MaxFaults
  BY <1>1, DeltaAssumption DEF Crash, mailbox, Fault, DeltaTypeOK
<1>3. \A j \in Jobs : ~Runs(j)' /\ j # Nobody
  BY <1>2, DeltaAssumption DEF Runs
<1>4. DeltaTypeOK' /\ BoxOK' /\ ClockOK' /\ LockOK'
  BY <1>1, <1>2, <1>3 DEF DeltaTypeOK, BoxOK, Born, ClockOK, LockOK
<1>5. TokensOK'
  BY <1>1, <1>2, Steady DEF TokensOK
<1>6. LoadedOK' /\ LinkOK' /\ OvertakenOK'
  BY <1>3 DEF LoadedOK, LinkOK, OvertakenOK, Paging
<1>7. QED
  BY <1>4, <1>5, <1>6 DEF Inv

-----------------------------------------------------------------------------
(* The jobs.                                                               *)

LEMMA InitInv == Init => Inv /\ BatchOK
<1> SUFFICES ASSUME Init PROVE Inv /\ BatchOK
  OBVIOUS
<1>1. /\ \A m \in Messages : ~Born(m) /\ box[m].ver = 0
      /\ \A f \in Folders : clock[f] = 1 /\ db.tokens[f] = 0
      /\ tx = db /\ \A j \in Jobs : ~Runs(j) /\ writer # j
  BY DeltaAssumption DEF Init, DeltaInit, Born, Runs
<1>2. DeltaTypeOK
  <2>1. NoRow \in Rows
    BY VersionsType DEF NoRow, Rows
  <2>2. db \in Stores
    BY <2>1, VersionsType DEF Init, DeltaInit, Stores
  <2>3. QED
    BY <2>2, VersionsType, DeltaAssumption DEF Init, DeltaInit, DeltaTypeOK
<1>3. BoxOK /\ ClockOK /\ LockOK
  BY <1>1, HomeType DEF BoxOK, ClockOK, LockOK
<1>4. QED
  BY <1>1, <1>2, <1>3 DEF Inv, TokensOK, LoadedOK, LinkOK, OvertakenOK,
     Paging, Vouched, BatchOK

\* A step that is not about the mirror leaves it as it is.
LEMMA IdleInv ==
  ASSUME Inv, UNCHANGED <<box, clock, db, tx, writer, round, missed>>,
         faults' \in 0..MaxFaults
  PROVE  Inv'
<1>1. /\ DeltaTypeOK /\ BoxOK /\ ClockOK /\ LockOK
      /\ TokensOK /\ LoadedOK /\ LinkOK /\ OvertakenOK
  BY DEF Inv
<1>2. DeltaTypeOK' /\ BoxOK' /\ ClockOK' /\ LockOK'
  BY <1>1 DEF DeltaTypeOK, BoxOK, Born, ClockOK, LockOK, Runs
<1>3. TokensOK' /\ LoadedOK'
  BY <1>1, Steady DEF TokensOK, LoadedOK, Runs
<1>4. LinkOK'
  BY <1>1, StaysLinked DEF LinkOK, Runs
<1>5. OvertakenOK'
  BY <1>1 DEF OvertakenOK, Ahead, Paging, Runs
<1>6. QED
  BY <1>2, <1>3, <1>4, <1>5 DEF Inv

LEMMA NextInv == Inv /\ BatchOK /\ TypeOK /\ [Next]_vars => Inv'
<1> SUFFICES ASSUME Inv, BatchOK, TypeOK, [Next]_vars PROVE Inv'
  OBVIOUS
<1>1. \A i \in DOMAIN Order : Order[i] \in Folders
  BY IngestionAssumption
<1>2. faults' = faults \/ Fault => faults' \in 0..MaxFaults
  BY DeltaAssumption DEF Inv, DeltaTypeOK, Fault
<1>3. CASE Mail
  BY <1>3, ChangeInv DEF Mail, Arrive, Update, Remove
<1>4. CASE StartPoll
  <2>1. 1 \in DOMAIN Order
    BY IngestionAssumption
  <2>2. ~Runs("poll")
    BY <1>4 DEF StartPoll, BatchOK, Is
  <2>3. QED
    BY <1>1, <1>4, <2>1, <2>2, OpenRoundInv DEF StartPoll
<1>5. ASSUME NEW i \in DOMAIN Order, StartFolder(i) PROVE Inv'
  <2>1. ~Runs("folder")
    BY <1>5 DEF StartFolder, BatchOK, Is
  <2>2. QED
    BY <1>1, <1>5, <2>1, OpenRoundInv DEF StartFolder
<1>6. CASE NextFolder
  <2>1. batch["poll"] \in Batches
    BY <1>6 DEF NextFolder, Is, TypeOK
  <2>2. batch["poll"].at + 1 \in DOMAIN Order
    BY <1>6, <2>1, IngestionAssumption DEF NextFolder, Batches
  <2>3. Runs("poll")
    BY <1>6 DEF NextFolder, Runs, NoRound
  <2>4. QED
    BY <1>1, <1>6, <2>2, <2>3, OpenRoundInv DEF NextFolder
<1>7. CASE Crash
  BY <1>7, CrashInv
<1>8. ASSUME NEW j \in Jobs, RoundStep(j) PROVE Inv'
  <2>1. CASE FirstPage(j)
    BY <2>1, FirstPageInv
  <2>2. CASE \E i \in round[j].due : Deliver(j, i)
    BY <2>2, DeliverInv
  <2>3. CASE LastPage(j)
    <3>1. Paging(j) /\ round[j].link \in Versions
      BY <2>3, RoundType DEF LastPage, Paging, Runs, Inv
    <3>2. QED
      BY <1>2, <2>3, <3>1, ClosedInv DEF LastPage
  <2>4. CASE CutShort(j)
    <3>1. Paging(j) /\ RoundToken(j) \in Versions
      BY <2>4, RoundType DEF CutShort, Paging, Runs, Inv
    <3>2. QED
      BY <1>2, <2>4, <3>1, ClosedInv DEF CutShort
  <2>5. CASE Reset(j)
    BY <2>5, ResetInv
  <2>6. QED
    BY <1>8, <2>1, <2>2, <2>3, <2>4, <2>5 DEF RoundStep
<1>9. ASSUME NEW j \in Jobs, Job(j) PROVE Inv'
  <2>1. CASE Committed(j)
    BY <2>1, CommitSyncInv DEF Committed
  <2>2. CASE SyncFails(j) \/ FlushFails(j)
    BY <1>2, <2>2, AbandonedInv DEF SyncFails, FlushFails, mailbox
  <2>3. CASE \E c \in Convs : Failed(j, c)
    BY <1>2, <2>3, IdleInv DEF Failed, mailbox
  <2>4. CASE EndBatch(j) \/ \E c \in Convs : Reduced(j, c) \/ UserExpired(j, c)
    BY <1>2, <2>4, IdleInv DEF EndBatch, Reduced, UserExpired, deltaVars
  <2>5. QED
    BY <1>8, <1>9, <2>1, <2>2, <2>3, <2>4 DEF Job
<1>10. CASE UNCHANGED vars
  BY <1>2, <1>10, IdleInv DEF vars, deltaVars
<1>11. QED
  BY <1>3, <1>4, <1>5, <1>6, <1>7, <1>9, <1>10 DEF Next, Start

\* A round is on only as long as its job syncs.
LEMMA NextBatch == DeltaTypeOK /\ TypeOK /\ BatchOK /\ [Next]_vars => BatchOK'
<1> SUFFICES ASSUME DeltaTypeOK, TypeOK, BatchOK, [Next]_vars,
                    NEW k \in Jobs, Runs(k)'
             PROVE  Is(k, "sync")'
  BY DEF BatchOK
<1>1. /\ round \in [Jobs -> Rounds \cup {NoRound}]
      /\ batch \in [Jobs -> Batches \cup {NoBatch}]
  BY DEF DeltaTypeOK, TypeOK
<1>2. Runs(k) => Is(k, "sync")
  BY DEF BatchOK
<1>3. \A b \in Batches : b # NoBatch
  <2>1. \A b \in Batches : "at" \in DOMAIN b
    BY DEF Batches
  <2>2. "at" \notin DOMAIN NoBatch
    BY DEF NoBatch
  <2>3. QED
    BY <2>1, <2>2
<1>4. ASSUME UNCHANGED <<round, batch>> PROVE Is(k, "sync")'
  BY <1>2, <1>4 DEF Runs, Is
<1>5. CASE Mail
  BY <1>4, <1>5 DEF Mail, Keeps, Arrive, Update, Remove, Change
<1>6. ASSUME NEW j \in Jobs, NEW i \in DOMAIN Order,
             batch' = [batch EXCEPT ![j] =
                [phase |-> "sync", at |-> i, queue |-> {}, expired |-> FALSE]],
             NEW f, NEW tokens, OpenRound(j, f, tokens)
      PROVE  Is(k, "sync")'
  <2>1. CASE k = j
    <3> DEFINE b == [phase |-> "sync", at |-> i, queue |-> {},
                     expired |-> FALSE]
    <3>1. b \in Batches /\ b.phase = "sync"
      BY DEF Batches
    <3>2. batch'[k] = b
      BY <1>1, <1>6, <2>1
    <3> HIDE DEF b
    <3>3. QED
      BY <1>3, <3>1, <3>2 DEF Is
  <2>2. CASE k # j
    BY <1>1, <1>2, <1>6, <2>2 DEF OpenRound, Runs, Is
  <2>3. QED
    BY <2>1, <2>2
<1>7. CASE StartPoll
  <2>1. 1 \in DOMAIN Order
    BY IngestionAssumption
  <2>2. QED
    BY <1>6, <1>7, <2>1 DEF StartPoll
<1>8. ASSUME NEW i \in DOMAIN Order, StartFolder(i) PROVE Is(k, "sync")'
  BY <1>6, <1>8 DEF StartFolder
<1>9. CASE NextFolder
  <2>1. CASE k = "poll"
    <3>1. batch["poll"] \in Batches /\ batch["poll"].phase = "sync"
      BY <1>1, <1>9, <2>1 DEF NextFolder, Is
    <3>2. batch["poll"].at + 1 \in DOMAIN Order
      BY <1>9, <3>1, IngestionAssumption DEF NextFolder, Batches
    <3> DEFINE b == [batch["poll"] EXCEPT !.at = @ + 1]
    <3>3. b \in Batches /\ b.phase = "sync"
      BY <3>1, <3>2 DEF Batches
    <3>4. batch'[k] = b
      BY <1>1, <1>9, <2>1 DEF NextFolder
    <3> HIDE DEF b
    <3>5. QED
      BY <1>3, <3>3, <3>4 DEF Is
  <2>2. CASE k # "poll"
    BY <1>1, <1>2, <1>9, <2>2 DEF NextFolder, OpenRound, Runs, Is
  <2>3. QED
    BY <2>1, <2>2
<1>10. CASE Crash
  BY <1>10 DEF Crash, Runs
<1>11. ASSUME NEW j \in Jobs, Job(j) PROVE Is(k, "sync")'
  <2>1. CASE RoundStep(j)
    <3>1. batch' = batch /\ Is(j, "sync")
      BY <2>1 DEF RoundStep, Keeps
    <3>2. k # j => round'[k] = round[k]
      BY <1>1, <2>1 DEF RoundStep, FirstPage, Deliver, LastPage, CutShort,
         Closed, Reset
    <3>3. QED
      BY <1>2, <3>1, <3>2 DEF Runs, Is
  <2>2. ASSUME round' = [round EXCEPT ![j] = NoRound],
               \A l \in Jobs : l # j => batch'[l] = batch[l]
        PROVE  Is(k, "sync")'
    <3>1. k # j
      BY <1>1, <2>2 DEF Runs
    <3>2. QED
      BY <1>1, <1>2, <2>2, <3>1 DEF Runs, Is
  <2>3. CASE Committed(j)
    BY <1>1, <2>2, <2>3 DEF Committed, CommitSync
  <2>4. CASE SyncFails(j) \/ FlushFails(j)
    BY <1>1, <2>2, <2>4 DEF SyncFails, FlushFails, Abandoned
  <2>5. ASSUME UNCHANGED round, Is(j, "batch"),
               \A l \in Jobs : l # j => batch'[l] = batch[l]
        PROVE  Is(k, "sync")'
    BY <1>2, <2>5 DEF Runs, Is
  <2>6. CASE EndBatch(j) \/ \E c \in Convs :
               Reduced(j, c) \/ Failed(j, c) \/ UserExpired(j, c)
    BY <1>1, <2>5, <2>6
       DEF EndBatch, Reduced, Failed, UserExpired, Turn, deltaVars
  <2>7. QED
    BY <1>11, <2>1, <2>3, <2>4, <2>6 DEF Job
<1>12. CASE UNCHANGED vars
  BY <1>4, <1>12 DEF vars, deltaVars
<1>13. QED
  BY <1>5, <1>7, <1>8, <1>9, <1>10, <1>11, <1>12 DEF Next, Start

\* What the jobs remember of their batches has its type.
LEMMA NextType == TypeOK /\ DeltaTypeOK' /\ [Next]_vars => TypeOK'
<1> SUFFICES ASSUME TypeOK, [Next]_vars
             PROVE  /\ open' \in SUBSET Convs /\ news' \in SUBSET Convs
                    /\ batch' \in [Jobs -> Batches \cup {NoBatch}]
                    /\ notes' \in 0..MaxNotes
  BY DEF TypeOK
<1>1. /\ open \in SUBSET Convs /\ news \in SUBSET Convs
      /\ batch \in [Jobs -> Batches \cup {NoBatch}] /\ notes \in 0..MaxNotes
      /\ MaxNotes \in Nat
  BY IngestionAssumption DEF TypeOK
<1>2. CASE Mail
  BY <1>1, <1>2 DEF Mail, Keeps
<1>3. CASE StartPoll
  <2>1. [phase |-> "sync", at |-> 1, queue |-> {}, expired |-> FALSE]
           \in Batches
    BY IngestionAssumption DEF Batches
  <2>2. QED
    BY <1>1, <1>3, <2>1 DEF StartPoll
<1>4. ASSUME NEW i \in DOMAIN Order, StartFolder(i)
      PROVE  /\ open' \in SUBSET Convs /\ news' \in SUBSET Convs
             /\ batch' \in [Jobs -> Batches \cup {NoBatch}]
             /\ notes' \in 0..MaxNotes
  <2>1. [phase |-> "sync", at |-> i, queue |-> {}, expired |-> FALSE]
           \in Batches
    BY IngestionAssumption DEF Batches
  <2>2. QED
    BY <1>1, <1>4, <2>1 DEF StartFolder
<1>5. CASE NextFolder
  <2>1. batch["poll"] \in Batches
    BY <1>1, <1>5 DEF NextFolder, Is
  <2>2. batch["poll"].at + 1 \in DOMAIN Order
    BY <1>5, <2>1, IngestionAssumption DEF NextFolder, Batches
  <2>3. [batch["poll"] EXCEPT !.at = @ + 1] \in Batches
    BY <2>1, <2>2 DEF Batches
  <2>4. QED
    BY <1>1, <1>5, <2>3 DEF NextFolder
<1>6. CASE Crash
  BY <1>1, <1>6 DEF Crash
<1>7. ASSUME NEW j \in Jobs, Job(j)
      PROVE  /\ open' \in SUBSET Convs /\ news' \in SUBSET Convs
             /\ batch' \in [Jobs -> Batches \cup {NoBatch}]
             /\ notes' \in 0..MaxNotes
  <2>1. CASE RoundStep(j)
    BY <1>1, <2>1 DEF RoundStep, Keeps
  <2>2. CASE Committed(j)
    <3>1. batch[j] \in Batches
      BY <1>1, <2>2 DEF Committed, Is
    <3>2. \A ms \in SUBSET Messages : ConvsOf(ms) \in SUBSET Convs
      BY IngestionAssumption DEF ConvsOf
    <3>3. round[j].touched \in SUBSET Messages
      BY <2>2 DEF TypeOK, DeltaTypeOK, Committed, CommitSync, Rounds
    <3> DEFINE queue == IF j = "poll" THEN open ELSE ConvsOf(round[j].touched)
    <3>4. queue \in SUBSET Convs
      BY <1>1, <3>2, <3>3
    <3> HIDE DEF queue
    <3>5. [batch[j] EXCEPT !.phase = "batch", !.queue = queue] \in Batches
      BY <3>1, <3>4 DEF Batches
    <3>6. batch' = [batch EXCEPT ![j].phase = "batch", ![j].queue = queue]
      BY <2>2 DEF Committed, queue
    <3>7. news' \in SUBSET Convs
      BY <1>1, <2>2, <3>2 DEF Committed
    <3>8. QED
      BY <1>1, <2>2, <3>5, <3>6, <3>7 DEF Committed
  <2>3. ASSUME NEW c \in Convs,
               Reduced(j, c) \/ Failed(j, c) \/ UserExpired(j, c)
        PROVE  /\ open' \in SUBSET Convs /\ news' \in SUBSET Convs
               /\ batch' \in [Jobs -> Batches \cup {NoBatch}]
               /\ notes' \in 0..MaxNotes
    <3>1. batch[j] \in Batches
      BY <1>1, <2>3 DEF Reduced, Failed, UserExpired, Turn, Is
    <3>2. /\ [batch[j] EXCEPT !.queue = @ \ {c}] \in Batches
          /\ [batch[j] EXCEPT !.queue = @ \ {c}, !.expired = TRUE] \in Batches
      BY <3>1 DEF Batches
    <3>3. CASE Reduced(j, c)
      BY <1>1, <3>2, <3>3 DEF Reduced
    <3>4. CASE Failed(j, c)
      BY <1>1, <3>2, <3>4 DEF Failed
    <3>5. CASE UserExpired(j, c)
      BY <1>1, <3>2, <3>5 DEF UserExpired
    <3>6. QED
      BY <2>3, <3>3, <3>4, <3>5
  <2>4. CASE EndBatch(j)
    BY <1>1, <2>4 DEF EndBatch
  <2>5. CASE SyncFails(j) \/ FlushFails(j)
    BY <1>1, <2>5 DEF SyncFails, FlushFails
  <2>6. QED
    BY <1>7, <2>1, <2>2, <2>3, <2>4, <2>5 DEF Job
<1>8. CASE UNCHANGED vars
  BY <1>1, <1>8 DEF vars
<1>9. QED
  BY <1>2, <1>3, <1>4, <1>5, <1>6, <1>7, <1>8 DEF Next, Start

\* The rows a vouched token stands for are mirrored.
LEMMA InvVouches == Inv => TokenVouches
<1> SUFFICES ASSUME Inv, NEW m \in Messages, box[m].status # "unborn",
                    box[m].ver <= db.tokens[FolderOf[m]]
             PROVE  Mirrored(m) \/ m \in missed
  BY DEF TokenVouches
<1>1. Vouched(db, FolderOf[m], db.tokens[FolderOf[m]])
  BY HomeType DEF Inv, TokensOK
<1>2. QED
  BY <1>1 DEF Vouched, Excused, Born, Mirrored

LEMMA InvHolds == Spec => [](Inv /\ BatchOK /\ TypeOK)
<1>1. Init => Inv /\ BatchOK /\ TypeOK
  <2>1. Init => Inv /\ BatchOK
    BY InitInv
  <2>2. Init /\ Inv => TypeOK
    BY IngestionAssumption DEF Init, Inv, TypeOK
  <2>3. QED
    BY <2>1, <2>2
<1>2. Inv /\ BatchOK /\ TypeOK /\ [Next]_vars => (Inv /\ BatchOK /\ TypeOK)'
  <2>1. Inv /\ BatchOK /\ TypeOK /\ [Next]_vars => Inv' /\ BatchOK'
    BY NextInv, NextBatch DEF Inv
  <2>2. Inv' => DeltaTypeOK'
    BY DEF Inv
  <2>3. QED
    BY <2>1, <2>2, NextType
<1>3. QED
  BY <1>1, <1>2, PTL DEF Spec

\* The mirror and the batches keep their types (delta_sync.py, pipeline.py):
\* the poll's place in its list of folders never runs past its end.
THEOREM TypeCorrect == Spec => []TypeOK
  BY InvHolds, PTL

\* Whatever the poll and the folder job, their failures, restarts, resets and
\* overlaps do: a message Graph will not send again is in the database as it
\* is in the mailbox, or among those that a flush was seen to leave behind, as
\* its row mixed two versions, it was older than a newer token's, or it was
\* gone when a round had no token (sync_folder, delta_sync.py).
THEOREM TokensVouch == Spec => []TokenVouches
<1>1. Inv => TokenVouches
  BY InvVouches
<1>2. QED
  BY <1>1, InvHolds, PTL

-----------------------------------------------------------------------------
(* The poll alone.  Nothing in the repository calls the folder job.        *)

LiveMailIsMirrored ==
    \A m \in Messages :
        box[m].status = "live" /\ box[m].ver <= db.tokens[FolderOf[m]] =>
            Mirrored(m)

\* A session that is alone sees the tokens and the rows it has read, and has
\* left behind nothing but messages that are gone.
Lone ==
    /\ \A m \in missed : m \in Messages => box[m].status = "gone"
    /\ \A j \in Jobs : Runs(j) =>
          /\ tx.tokens = round[j].loaded
          /\ \A m \in Pending(j) : round[j].objects[m].base = tx.rows[m]

\* What it writes are its objects as they are to be, and it is not overtaken.
LEMMA LoneFlush ==
  ASSUME Inv, Lone, NEW j \in Jobs, Runs(j), NEW token \in Versions,
         Flush(j, token), UNCHANGED box
  PROVE  /\ tx'.tokens = [round[j].loaded EXCEPT ![round[j].folder] = token]
         /\ \A m \in missed' : m \in Messages => box[m].status = "gone"
<1>1. DeltaTypeOK /\ LinkOK
  BY DEF Inv
<1> DEFINE f == round[j].folder
<1>2. /\ Locks(j) /\ Working(j) = tx
      /\ tx'.tokens = [tx.tokens EXCEPT ![f] = Column(token, RoundToken(j), @)]
      /\ missed' = missed \cup LeftBehind(j, token)
  BY Takes DEF Flush
<1>3. /\ f \in Folders /\ tx.tokens = round[j].loaded
      /\ tx.tokens[f] = RoundToken(j)
      /\ RoundToken(j) \in Nat /\ round[j].link \in Nat
      /\ tx.rows \in [Messages -> Rows]
  BY <1>1, RoundType, StoreType DEF Lone, RoundToken, DeltaTypeOK
<1>4. tx'.tokens = [round[j].loaded EXCEPT ![f] = token]
  BY <1>2, <1>3 DEF Column
<1>5. ASSUME NEW m \in Pending(j), Flushed(j)[m] # round[j].objects[m].now
      PROVE  FALSE
  <2> DEFINE o == round[j].objects[m]
  <2>1. /\ m \in Messages /\ o.base = tx.rows[m]
        /\ o.base \in Rows /\ o.now \in Rows
    BY <1>1, LoadedObject DEF Lone
  <2>2. Flushed(j)[m] = Written(o, o.base)
    BY <1>2, <2>1 DEF Flushed
  <2> HIDE DEF o
  <2>3. Written(o, o.base) = [status |-> o.now.status, ver |-> o.now.ver,
                              content |-> o.now.content]
    BY DEF Written, Column
  <2>4. Written(o, o.base) = o.now
    BY <2>1, <2>3 DEF Rows
  <2>5. QED
    BY <1>5, <2>2, <2>4 DEF o
<1>6. ASSUME NEW m \in Pending(j) PROVE ~Overtaken(j)
  <2>1. round[j].phase = "pages"
    BY <1>1 DEF LinkOK, Pending, Empty
  <2>2. RoundToken(j) <= round[j].link
    BY <1>1, <2>1 DEF LinkOK, Linked
  <2>3. QED
    BY <1>2, <1>3, <2>2 DEF Overtaken
<1>7. \A m \in LeftBehind(j, token) : box[m].status = "gone"
  BY <1>5, <1>6 DEF LeftBehind
<1>8. QED
  BY <1>2, <1>4, <1>7 DEF Lone

LEMMA LoneNext ==
  ASSUME Jobs = {"poll"}, Inv, BatchOK, TypeOK, Lone, [Next]_vars
  PROVE  Lone'
<1>1. DeltaTypeOK /\ LockOK /\ LinkOK
  BY DEF Inv
<1> DEFINE j == "poll"
           Gone == \A m \in missed : m \in Messages => box[m].status = "gone"
<1>2. /\ j \in Jobs /\ writer \in {j, Nobody}
      /\ round \in [Jobs -> Rounds \cup {NoRound}]
  BY <1>1 DEF DeltaTypeOK
<1>3. ~Runs(j) => tx = db
  BY <1>1, <1>2 DEF LockOK
<1>4. /\ Gone
      /\ Runs(j) =>
            /\ tx.tokens = round[j].loaded
            /\ \A m \in Pending(j) : round[j].objects[m].base = tx.rows[m]
  BY <1>2 DEF Lone
<1>5. ASSUME UNCHANGED <<box, tx, round, missed>> PROVE Lone'
  BY <1>4, <1>5 DEF Lone, Runs, Pending
<1>6. ASSUME UNCHANGED box, missed' \subseteq missed, ~Runs(j)' PROVE Lone'
  BY <1>4, <1>6 DEF Lone
<1>7. CASE Mail
  <2>1. PICK m \in Messages : Arrive(m) \/ Update(m) \/ Remove(m)
    BY <1>7 DEF Mail
  <2>2. /\ box[m].status # "gone" /\ UNCHANGED <<tx, round, missed>>
        /\ \A n \in Messages \ {m} : box'[n] = box[n]
    BY <1>1, <2>1 DEF Arrive, Update, Remove, Change, DeltaTypeOK
  <2>3. QED
    BY <1>4, <2>2 DEF Lone, Runs, Pending
<1>8. ASSUME NEW f, NEW tokens, OpenRound(j, f, tokens), tx.tokens = tokens
      PROVE  Lone'
  <2>1. /\ round'[j].objects = Empty /\ round'[j].loaded = tokens
        /\ UNCHANGED <<box, tx, missed>>
    BY <1>2, <1>8 DEF OpenRound, mailbox
  <2>2. Pending(j)' = {}
    BY <2>1 DEF Pending, Empty
  <2>3. QED
    BY <1>4, <1>8, <2>1, <2>2 DEF Lone
<1>9. CASE StartPoll
  <2>1. ~Runs(j)
    BY <1>2, <1>9 DEF StartPoll, BatchOK, Is
  <2>2. QED
    BY <1>3, <1>8, <1>9, <2>1 DEF StartPoll
<1>10. CASE NextFolder
  <2>1. Runs(j)
    BY <1>10 DEF NextFolder, Runs, NoRound
  <2>2. QED
    BY <1>4, <1>8, <1>10, <2>1 DEF NextFolder
<1>11. CASE Crash
  BY <1>2, <1>6, <1>11 DEF Crash, mailbox, Runs
<1>12. CASE FirstPage(j)
  <2>1. /\ round'[j].objects = round[j].objects
        /\ round'[j].loaded = round[j].loaded
        /\ UNCHANGED <<box, tx, missed>> /\ Runs(j)
    BY <1>2, <1>12 DEF FirstPage, mailbox, Runs
  <2>2. QED
    BY <1>4, <2>1 DEF Lone, Pending
<1>13. ASSUME NEW i \in round[j].due, Deliver(j, i) PROVE Lone'
  <2> DEFINE row == Working(j).rows[i.id]
             old == round[j].objects
  <2>1. /\ Runs(j) /\ round[j] \in Rounds /\ i \in Items /\ i.id \in Messages
        /\ old \in [Messages -> Objects \cup {NotLoaded}] /\ Born(i.id)
    BY <1>1, <1>2, <1>13, RoundType DEF Deliver, Runs, Items, LinkOK, Linked
  <2>2. PICK item \in {i, Item(i.id)}, last \in BOOLEAN :
          round' = [round EXCEPT
                ![j].objects[i.id] = Taken(@, row, item),
                ![j].due = IF last THEN @ \ {i} ELSE @,
                ![j].touched = IF item.status = "gone" THEN @
                               ELSE @ \cup {i.id}]
    BY <1>13 DEF Deliver
  <2>3. UNCHANGED <<box, tx, missed>>
    BY <1>13 DEF Deliver, mailbox
  <2>4. /\ round'[j].objects = [old EXCEPT ![i.id] = Taken(@, row, item)]
        /\ round'[j].loaded = round[j].loaded
    BY <1>2, <2>1, <2>2 DEF Rounds
  <2>5. row = tx.rows[i.id] /\ row \in Rows /\ item \in Items
    BY <1>1, <1>2, <2>1, StoreType, ItemType DEF LockOK, Working, DeltaTypeOK
  <2> DEFINE new == Taken(old[i.id], row, item)
  <2>6. new.base = IF old[i.id] = NotLoaded THEN row ELSE old[i.id].base
    BY <2>1, TakenBase
  <2> HIDE DEF new
  <2>7. ASSUME NEW m \in Pending(j)'
        PROVE  round'[j].objects[m].base = tx.rows[m]
    <3>1. m \in Messages
      BY DEF Pending
    <3>2. CASE m = i.id
      <4>1. round'[j].objects[m] = new
        BY <2>1, <2>4, <3>2 DEF new
      <4>2. old[m] # NotLoaded => m \in Pending(j)
        BY <3>1 DEF Pending
      <4>3. QED
        BY <1>4, <2>1, <2>5, <2>6, <3>2, <4>1, <4>2
    <3>3. CASE m # i.id
      <4>1. round'[j].objects[m] = old[m] /\ m \in Pending(j)
        BY <2>1, <2>4, <2>7, <3>1, <3>3 DEF Pending
      <4>2. QED
        BY <1>4, <2>1, <4>1
    <3>4. QED
      BY <3>2, <3>3
  <2>8. QED
    BY <1>4, <2>1, <2>3, <2>4, <2>7 DEF Lone
<1>14. ASSUME Runs(j), UNCHANGED box, round'[j].objects = Empty,
              NEW token \in Versions, Flush(j, token),
              round'[j].loaded = [round[j].loaded EXCEPT
                                     ![round[j].folder] = token]
       PROVE  Lone'
  <2>1. /\ tx'.tokens = [round[j].loaded EXCEPT ![round[j].folder] = token]
        /\ \A m \in missed' : m \in Messages => box[m].status = "gone"
    BY <1>2, <1>14, LoneFlush
  <2>2. Pending(j)' = {}
    BY <1>14 DEF Pending, Empty
  <2>3. QED
    BY <1>14, <2>1, <2>2 DEF Lone
<1>15. ASSUME NEW token \in Versions, Closed(j, token), Runs(j) PROVE Lone'
  <2>1. round[j] \in Rounds
    BY <1>1, <1>2, <1>15, RoundType
  <2>2. /\ round'[j].objects = Empty /\ UNCHANGED box
        /\ round'[j].loaded = [round[j].loaded EXCEPT
                                  ![round[j].folder] = token]
    BY <1>2, <1>15, <2>1 DEF Closed, mailbox, Rounds
  <2>3. QED
    BY <1>14, <1>15, <2>2 DEF Closed
<1>16. CASE LastPage(j) \/ CutShort(j)
  <2>1. Runs(j)
    BY <1>16 DEF LastPage, CutShort, Runs
  <2>2. round[j].link \in Versions /\ RoundToken(j) \in Versions
    BY <1>1, <1>2, <2>1, RoundType
  <2>3. QED
    BY <1>15, <1>16, <2>1, <2>2 DEF LastPage, CutShort
<1>17. CASE Reset(j)
  <2>1. Runs(j) /\ round[j] \in Rounds
    BY <1>1, <1>2, <1>17, RoundType DEF Reset, Runs
  <2>2. /\ round'[j].objects = Empty /\ UNCHANGED box
        /\ round'[j].loaded = [round[j].loaded EXCEPT ![round[j].folder] = 0]
    BY <1>2, <1>17, <2>1 DEF Reset, mailbox, Rounds
  <2>3. CASE Flush(j, 0)
    BY <1>14, <2>1, <2>2, <2>3, VersionsType
  <2>4. CASE RoundToken(j) = 0 /\ UNCHANGED <<tx, missed>>
    <3>1. round'[j].loaded = round[j].loaded
      BY <1>1, <1>2, <2>1, <2>2, <2>4, RoundType DEF RoundToken
    <3>2. Pending(j)' = {}
      BY <2>2 DEF Pending, Empty
    <3>3. QED
      BY <1>4, <2>1, <2>2, <2>4, <3>1, <3>2 DEF Lone
  <2>5. QED
    BY <1>17, <2>3, <2>4 DEF Reset
<1>18. CASE Committed(j)
  <2>1. missed' \subseteq missed /\ UNCHANGED box /\ round'[j] = NoRound
    BY <1>2, <1>18 DEF Committed, CommitSync, mailbox
  <2>2. QED
    BY <1>6, <2>1 DEF Runs
<1>19. CASE SyncFails(j) \/ FlushFails(j)
  <2>1. UNCHANGED <<box, missed>> /\ round'[j] = NoRound
    BY <1>2, <1>19 DEF SyncFails, FlushFails, Abandoned, mailbox
  <2>2. QED
    BY <1>6, <2>1 DEF Runs
<1>20. CASE EndBatch(j) \/ \E c \in Convs :
               Reduced(j, c) \/ Failed(j, c) \/ UserExpired(j, c)
  BY <1>5, <1>20
     DEF EndBatch, Reduced, Failed, UserExpired, deltaVars, mailbox
<1>21. CASE UNCHANGED vars
  BY <1>5, <1>21 DEF vars, deltaVars
<1>22. ~\E i \in DOMAIN Order : StartFolder(i)
  BY DEF StartFolder
<1>23. CASE Job(j)
  BY <1>12, <1>13, <1>16, <1>17, <1>18, <1>19, <1>20, <1>23
     DEF Job, RoundStep
<1>24. QED
  BY <1>7, <1>9, <1>10, <1>11, <1>21, <1>22, <1>23 DEF Next, Start

\* With the poll alone no exception is needed for mail that is there: every
\* live message a delta token is past is in the database with its latest
\* version, whatever fails, is cut or reset on the way (delta_sync.py).
THEOREM PollMirrorsLiveMail ==
  ASSUME Jobs = {"poll"}
  PROVE  Spec => []LiveMailIsMirrored
<1>1. Init => Lone
  BY DEF Init, DeltaInit, Lone, Runs
<1>2. Inv /\ BatchOK /\ TypeOK /\ Lone /\ [Next]_vars => Lone'
  BY LoneNext
<1>3. Inv /\ Lone => LiveMailIsMirrored
  <2>1. Inv => TokenVouches
    BY InvVouches
  <2>2. TokenVouches /\ Lone => LiveMailIsMirrored
    BY DEF TokenVouches, Lone, LiveMailIsMirrored
  <2>3. QED
    BY <2>1, <2>2
<1>4. QED
  BY <1>1, <1>2, <1>3, InvHolds, PTL DEF Spec
=============================================================================
