-------------------------- MODULE ThreadRuns_proofs --------------------------
(***************************************************************************)
(* The safety properties of one thread under the delta poll, for any mail  *)
(* that may arrive and any number of it.                                   *)
(***************************************************************************)
EXTENDS Thread_proofs, Reducer_proofs, WellFoundedInduction

-----------------------------------------------------------------------------
(* Mail comes to stay: a step adds a mail or syncs some, and changes none.   *)

\* The mails of `more` are those of `some`, synced or not, and later ones.
Extends(more, some) ==
    /\ DOMAIN some \subseteq DOMAIN more
    /\ \A i \in DOMAIN some :
          /\ more[i].user = some[i].user /\ more[i].marks = some[i].marks
          /\ more[i].to = some[i].to
          /\ some[i].seen => more[i].seen

\* No other mail has been synced.
SeesNoMore(more, some) ==
    \A i \in DOMAIN more : more[i].seen => i \in DOMAIN some /\ some[i].seen

LEMMA MailKept ==
  ASSUME NEW mail \in Mail, NEW seen \in BOOLEAN
  PROVE  LET synced == [mail EXCEPT !.seen = @ \/ seen]
         IN  /\ synced \in Mail
             /\ synced.user = mail.user /\ synced.marks = mail.marks
             /\ synced.to = mail.to /\ (synced.seen <=> mail.seen \/ seen)
  BY DEF Mail

LEMMA SyncedKeeps ==
  ASSUME mails \in Seq(Mail), NEW who \in BOOLEAN
  PROVE  /\ Synced(who) \in Seq(Mail) /\ Len(Synced(who)) = Len(mails)
         /\ Extends(Synced(who), mails)
         /\ \A i \in DOMAIN mails :
               Synced(who)[i].seen => mails[i].seen \/ mails[i].user = who
<1>1. /\ Len(mails) \in Nat /\ DOMAIN mails = 1..Len(mails)
      /\ \A i \in DOMAIN mails : mails[i] \in Mail
  BY LenProperties, ElementOfSeq
<1>2. ASSUME NEW i \in DOMAIN mails
      PROVE  LET synced == Synced(who)[i]
             IN  /\ synced \in Mail
                 /\ synced.user = mails[i].user
                 /\ synced.marks = mails[i].marks
                 /\ synced.to = mails[i].to
                 /\ synced.seen <=> mails[i].seen \/ mails[i].user = who
  <2> DEFINE same == mails[i].user = who
  <2>1. mails[i] \in Mail /\ same \in BOOLEAN
    BY <1>1
  <2>2. Synced(who)[i] = [mails[i] EXCEPT !.seen = @ \/ same]
    BY DEF Synced
  <2> HIDE DEF same
  <2>3. LET synced == [mails[i] EXCEPT !.seen = @ \/ same]
        IN  /\ synced \in Mail
            /\ synced.user = mails[i].user /\ synced.marks = mails[i].marks
            /\ synced.to = mails[i].to
            /\ synced.seen <=> mails[i].seen \/ same
    BY <2>1, MailKept
  <2>4. QED
    BY <2>2, <2>3 DEF same
<1>3. DOMAIN Synced(who) = DOMAIN mails
  BY DEF Synced
<1>4. Synced(who) \in [1..Len(mails) -> Mail]
  BY <1>1, <1>2, <1>3 DEF Synced
<1>5. Synced(who) \in Seq(Mail)
  BY <1>1, <1>4, SeqDef
<1>6. Len(Synced(who)) = Len(mails)
  BY <1>1, <1>3, <1>5, LenProperties
<1>7. QED
  BY <1>2, <1>3, <1>5, <1>6 DEF Extends

LEMMA AppendKeeps ==
  ASSUME mails \in Seq(Mail), NEW mail \in Mail, ~mail.seen
  PROVE  /\ Append(mails, mail) \in Seq(Mail)
         /\ Len(Append(mails, mail)) = Len(mails) + 1
         /\ Extends(Append(mails, mail), mails)
         /\ SeesNoMore(Append(mails, mail), mails)
         /\ \A i \in DOMAIN Append(mails, mail) :
               Append(mails, mail)[i] = IF i \in DOMAIN mails THEN mails[i]
                                        ELSE mail
<1>1. /\ Append(mails, mail) \in Seq(Mail)
      /\ Len(Append(mails, mail)) = Len(mails) + 1
      /\ \A i \in 1..Len(mails) : Append(mails, mail)[i] = mails[i]
      /\ Append(mails, mail)[Len(mails) + 1] = mail
  BY AppendProperties
<1>2. /\ DOMAIN mails = 1..Len(mails) /\ Len(mails) \in Nat
      /\ DOMAIN Append(mails, mail) = 1..Len(mails) + 1
  BY <1>1, LenProperties
<1>3. QED
  BY <1>1, <1>2 DEF Extends, SeesNoMore

-----------------------------------------------------------------------------
(* What a run makes of the row and of the history.                           *)

\* The row keeps to the matrix, is never delegated, and awaits nothing without
\* a task.
RowOK ==
    /\ <<row.state, row.bucket>> \in AllowedPairs /\ row.task \in BOOLEAN
    /\ row.state # "delegate_open"
    /\ row.state \in Awaiting => row.task

Found(s) == DetectEvidence(s, history, Lagging)

LEMMA InputUnattended ==
  ASSUME RowOK, NEW s
  PROVE  /\ Unattended(Input(s))
         /\ Input(s).state = row.state /\ Input(s).task = row.task
         /\ Input(s).injected \cup Input(s).detected = Found(s)
<1>1. \A p \in AllowedPairs : p[1] \in States /\ p[2] \in BucketOrNull
  BY HomeEntries, HomeStates DEF AllowedPairs, States, Buckets, BucketOrNull
<1>2. row.state \in States /\ row.bucket \in BucketOrNull
  BY <1>1 DEF RowOK
<1>3. Found(s) \subseteq Evidence /\ "override" \notin Found(s)
  BY DEF Found, DetectEvidence, Evidence, Tier
<1>4. NoOverride \in Overrides /\ "none" \in Completions
  BY DEF Overrides, Completions
<1>5. Input(s) =
        [state |-> row.state, bucket |-> row.bucket, task |-> row.task,
         completion |-> "none", detected |-> Found(s),
         injected |-> {}, override |-> NoOverride, hints |-> {}]
  BY DEF Input, Found
<1>6. Input(s) \in Inputs
  BY <1>2, <1>3, <1>4, <1>5 DEF Inputs, RowOK
<1>7. QED
  BY <1>3, <1>5, <1>6 DEF Unattended, Admissible, RowOK

\* A run that comes to anything stores what the rules make of the snapshot,
\* newest first, and takes the row where reduce() says.
LEMMA RunPipelineDoes ==
  ASSUME RowOK, row.state # "done", NEW s, RunPipeline(s)
  PROVE  /\ RowOK'
         /\ row'.state = Reduce(Input(s)).next
         /\ Answers(Input(s), Found(s), Reduce(Input(s)))
         /\ history' = Remember(history, Classify(s))
<1> DEFINE result == Reduce(Input(s))
<1>1. Answers(Input(s), Found(s), result)
  BY InputUnattended, ReduceAnswers
<1>2. Input(s).state = row.state /\ Input(s).task = row.task
  BY InputUnattended
<1> HIDE DEF result
<1>3. /\ row' = [state |-> result.next, bucket |-> result.bucket,
                 task |-> row.task \/ result.task \in {"create", "reopen"}]
      /\ history' = IF result.raised THEN history
                    ELSE Remember(history, Classify(s))
  BY DEF RunPipeline, result
<1>4. history' = Remember(history, Classify(s))
  BY <1>1, <1>3 DEF Answers
<1>5. RowOK'
  <2>1. row'.state = result.next /\ row'.bucket = result.bucket
        /\ row'.task = (row.task \/ result.task \in {"create", "reopen"})
    BY <1>3
  <2>2. <<row'.state, row'.bucket>> \in AllowedPairs
    BY <1>1, <2>1 DEF Answers
  <2>3. row'.state # "delegate_open"
    BY <1>1, <1>2, <2>1 DEF Answers, RowOK
  <2>4. row'.state \in Awaiting => row'.task
    BY <1>1, <1>2, <2>1 DEF Answers, RowOK
  <2>5. row'.task \in BOOLEAN
    BY <2>1 DEF RowOK
  <2>6. QED
    BY <2>2, <2>3, <2>4, <2>5 DEF RowOK
<1>6. QED
  BY <1>1, <1>3, <1>4, <1>5 DEF result

\* A run passes the thread over, or runs the pipeline on what is seen of it.
LEMMA RunDoes ==
  ASSUME Run
  PROVE  /\ poll = "synced" /\ poll' = "idle" /\ UNCHANGED <<mails, cursor>>
         /\ \/ /\ row.state = "done" \/ Empty(Seen(mails))
               /\ UNCHANGED <<row, history>>
            \/ /\ row.state # "done" /\ ~Empty(Seen(mails))
               /\ RunPipeline(Seen(mails))
  BY DEF Run, Advances, Stage

-----------------------------------------------------------------------------
(* Types.                                                                    *)

MailsOK ==
    /\ mails \in Seq(Mail) /\ Len(mails) <= MaxMails
    /\ \A i \in DOMAIN mails : Coherent(mails[i])

TypeInv ==
    /\ MailsOK /\ RowOK
    /\ cursor \in 0..Len(mails) /\ poll \in DOMAIN Stage
    /\ history \in Seq(Classifications) /\ Len(history) <= Listed

LEMMA ExtendsCoherent ==
  ASSUME NEW more, NEW some, Extends(more, some), NEW i \in DOMAIN some,
         Coherent(some[i])
  PROVE  Coherent(more[i])
  BY DEF Extends, Coherent

LEMMA NextTypeInv == ASSUME TypeInv, [Next]_vars PROVE TypeInv'
<1>1. /\ mails \in Seq(Mail) /\ Len(mails) \in Nat
      /\ DOMAIN mails = 1..Len(mails)
  BY LenProperties DEF TypeInv, MailsOK
<1>2. ASSUME NEW mail \in Mails, Receive(mail) PROVE TypeInv'
  <2>1. mail \in Mail /\ ~mail.seen /\ Coherent(mail)
    BY ThreadAssumption
  <2>2. /\ mails' = Append(mails, mail) /\ Len(mails) < MaxMails
        /\ UNCHANGED <<cursor, poll, row, history>>
    BY <1>2 DEF Receive
  <2>3. /\ mails' \in Seq(Mail) /\ Len(mails') = Len(mails) + 1
        /\ \A i \in DOMAIN mails' :
              mails'[i] = IF i \in DOMAIN mails THEN mails[i] ELSE mail
    BY <1>1, <2>1, <2>2, AppendKeeps
  <2>4. MailsOK'
    BY <1>1, <2>1, <2>2, <2>3, ThreadAssumption DEF TypeInv, MailsOK
  <2>5. cursor' \in 0..Len(mails')
    BY <1>1, <2>2, <2>3 DEF TypeInv
  <2>6. RowOK'
    BY <2>2 DEF TypeInv, RowOK
  <2>7. QED
    BY <2>2, <2>4, <2>5, <2>6 DEF TypeInv
<1>3. ASSUME NEW who \in BOOLEAN, mails' = Synced(who), poll' \in DOMAIN Stage,
             UNCHANGED <<cursor, row, history>>
      PROVE  TypeInv'
  <2>1. /\ mails' \in Seq(Mail) /\ Len(mails') = Len(mails)
        /\ Extends(mails', mails) /\ DOMAIN mails' = DOMAIN mails
    BY <1>1, <1>3, SyncedKeeps, LenProperties
  <2>2. MailsOK'
    BY <1>1, <2>1, ExtendsCoherent DEF TypeInv, MailsOK
  <2>3. RowOK' /\ cursor' \in 0..Len(mails')
    BY <1>3, <2>1 DEF TypeInv, RowOK
  <2>4. QED
    BY <1>3, <2>2, <2>3 DEF TypeInv
<1>4. CASE SyncSent
  BY <1>3, <1>4 DEF SyncSent, Advances, Stage
<1>5. CASE StampSent
  <2>1. cursor' \in 0..Len(mails)
    BY <1>1, <1>5 DEF StampSent
  <2>2. QED
    BY <1>5, <2>1 DEF StampSent, Advances, Stage, TypeInv, MailsOK, RowOK
<1>6. CASE SyncInbox
  BY <1>3, <1>6 DEF SyncInbox, Advances, Stage
<1>7. CASE Run
  <2>1. /\ UNCHANGED <<mails, cursor>> /\ poll' = "idle"
        /\ MailsOK' /\ cursor' \in 0..Len(mails') /\ poll' \in DOMAIN Stage
    BY <1>7, RunDoes DEF TypeInv, MailsOK, Stage
  <2>2. CASE UNCHANGED <<row, history>>
    BY <2>1, <2>2 DEF TypeInv, RowOK
  <2>3. CASE row.state # "done" /\ RunPipeline(Seen(mails))
    <3>1. /\ RowOK'
          /\ history' = Remember(history, Classify(Seen(mails)))
      BY <2>3, RunPipelineDoes DEF TypeInv
    <3>2. Classify(Seen(mails)) \in Classifications
      BY ClassifyAuthorizesNothing
    <3>3. history' \in Seq(Classifications) /\ Len(history') <= Listed
      BY <3>1, <3>2, RememberLists DEF TypeInv
    <3>4. QED
      BY <2>1, <3>1, <3>3 DEF TypeInv
  <2>4. QED
    BY <1>7, <2>2, <2>3, RunDoes
<1>8. CASE UNCHANGED vars
  BY <1>8 DEF vars, TypeInv, MailsOK, RowOK
<1>9. QED
  BY <1>2, <1>4, <1>5, <1>6, <1>7, <1>8 DEF Next

LEMMA TypeInvHolds == Spec => []TypeInv
<1>1. Init => TypeInv
  <2>1. ASSUME Init PROVE TypeInv
    <3>1. RowOK
      BY <2>1, PairAllowed, HomeEntries, HomeStates
         DEF Init, RowOK, Awaiting, States
    <3>2. MailsOK
      BY <2>1, ThreadAssumption DEF Init, MailsOK
    <3>3. QED
      BY <2>1, <3>1, <3>2 DEF Init, TypeInv, Stage, Listed
  <2>2. QED
    BY <2>1
<1>2. TypeInv /\ [Next]_vars => TypeInv'
  BY NextTypeInv
<1>3. QED
  BY <1>1, <1>2, PTL DEF Spec

\* Every variable keeps to its type, and no more classifications are kept than
\* the snapshot lists.
THEOREM ThreadTypesHold == Spec => []TypeOK
<1>1. TypeInv => TypeOK
  <2>1. ASSUME TypeInv PROVE TypeOK
    <3>1. /\ \A i \in DOMAIN mails : mails[i] \in Mail
          /\ Len(mails) \in Nat
      BY <2>1, LenProperties, ElementOfSeq DEF TypeInv, MailsOK
    <3>2. cursor \in 0..MaxMails
      BY <2>1, <3>1, ThreadAssumption DEF TypeInv, MailsOK
    <3>3. QED
      BY <2>1, <3>1, <3>2 DEF TypeInv, MailsOK, RowOK, TypeOK
  <2>2. QED
    BY <2>1
<1>2. QED
  BY <1>1, TypeInvHolds, PTL

-----------------------------------------------------------------------------
(* Snapshots.                                                                *)

LEMMA MaxOfNumbers ==
  ASSUME NEW n \in Nat, NEW D \in SUBSET (1..n), D # {}
  PROVE  Max(D) \in D /\ \A y \in D : y <= Max(D)
<1> DEFINE T == {n - x : x \in D}
<1>1. T \subseteq Nat /\ T # {}
  <2>1. \A x \in 1..n : n - x \in Nat
    OBVIOUS
  <2>2. QED
    BY <2>1
<1>2. PICK k \in T : \A y \in T : ~(<<y, k>> \in OpToRel(<, Nat))
  BY <1>1, NatLessThanWellFounded, WFMin
<1>3. \A y \in T : ~(y < k)
  BY <1>1, <1>2 DEF OpToRel
<1>4. PICK x \in D : k = n - x
  OBVIOUS
<1>5. \A y \in D : x >= y
  <2> SUFFICES ASSUME NEW y \in D PROVE x >= y
    OBVIOUS
  <2>1. n - y \in T
    OBVIOUS
  <2> HIDE DEF T
  <2>2. QED
    BY <1>3, <1>4, <2>1
<1>6. Max(D) \in D /\ \A y \in D : Max(D) >= y
  BY <1>5 DEF Max
<1>7. QED
  BY <1>6

\* The latest inbound mail of a snapshot is one of the mails.
LEMMA LatestInboundCame ==
  ASSUME mails \in Seq(Mail), ~Empty(Inbound(Seen(mails)))
  PROVE  \E j \in DOMAIN mails :
            /\ mails[j].seen /\ ~mails[j].user
            /\ Latest(Inbound(Seen(mails))) = mails[j]
<1> DEFINE D == DOMAIN Inbound(Seen(mails))
<1>1. /\ D = {i \in DOMAIN mails : mails[i].seen /\ ~mails[i].user}
      /\ \A i \in D : Inbound(Seen(mails))[i] = mails[i]
  BY DEF Inbound, Seen, RestrictValues, Restrict
<1>2. DOMAIN mails = 1..Len(mails) /\ Len(mails) \in Nat
  BY LenProperties
<1>3. Max(D) \in D
  BY <1>1, <1>2, MaxOfNumbers DEF Empty
<1>4. QED
  BY <1>1, <1>3 DEF Latest

\* A mail that has not been synced is not in the snapshot.
LEMMA UnsyncedIsUnseen ==
  ASSUME mails \in Seq(Mail), NEW mail \in Mail, ~mail.seen
  PROVE  Seen(Append(mails, mail)) = Seen(mails)
<1> DEFINE more == Append(mails, mail)
           there == {i \in DOMAIN more : more[i].seen}
           here == {i \in DOMAIN mails : mails[i].seen}
<1>1. \A i \in DOMAIN more : more[i] = IF i \in DOMAIN mails THEN mails[i]
                                       ELSE mail
  BY AppendKeeps
<1>2. DOMAIN mails \subseteq DOMAIN more
  BY AppendKeeps DEF Extends
<1> HIDE DEF more
<1>3. there = here /\ \A i \in here : more[i] = mails[i]
  BY <1>1, <1>2
<1>4. QED
  BY <1>3 DEF Seen, RestrictValues, Restrict, more

-----------------------------------------------------------------------------
(* Between two polls, a thread that is not done is as the last run left it,  *)
(* and that run saw all that has been synced.                                *)

Resolving(s) ==
    \E mark \in {"resolution", "soft"} : LatestInboundHas(s, mark)

\* What asks in words is heard.
Heard(s) ==
    AsksInText(s) /\ ~Resolving(s) =>
        row.state \in {"needs_review", "act_open", "respond_open"}

Fresh ==
    poll = "idle" /\ history # <<>> /\ row.state # "done"
        /\ ~Empty(Seen(mails)) =>
        history[1] = Classify(Seen(mails)) /\ Heard(Seen(mails))

\* Whatever was classified before, an ask in words is evidence of an ask.
LEMMA AsksAreFound ==
  ASSUME MailsOK, AsksInText(Seen(mails))
  PROVE  Found(Seen(mails)) \cap DOMAIN AskState # {}
<1> DEFINE s == Seen(mails)
           asks == LatestInboundHas(s, "asks")
           question == LatestInboundHas(s, "question")
<1>1. asks => question
  <2>1. ASSUME asks PROVE question
    <3>1. ~Empty(Inbound(s)) /\ "asks" \in Latest(Inbound(s)).marks
      BY <2>1 DEF LatestInboundHas
    <3>2. PICK j \in DOMAIN mails : Latest(Inbound(s)) = mails[j]
      BY <3>1, LatestInboundCame DEF MailsOK
    <3>3. "question" \in Latest(Inbound(s)).marks
      BY <3>1, <3>2 DEF MailsOK, Coherent
    <3>4. QED
      BY <3>1, <3>3 DEF LatestInboundHas
  <2>2. QED
    BY <2>1
<1> HIDE DEF s
<1>2. NewDeliverable(s, history) \/ NewReply(s, history)
  BY <1>1 DEF AsksInText, NewDeliverable, NewReply, LatestIs, s
<1>3. /\ NewDeliverable(s, history) => "deliverable" \in Found(s)
      /\ NewReply(s, history) => "reply" \in Found(s)
  BY DEF Found, DetectEvidence
<1>4. QED
  BY <1>2, <1>3 DEF AskState, s

LEMMA RunIsFresh ==
  ASSUME TypeInv, row.state # "done", RunPipeline(Seen(mails)),
         UNCHANGED mails
  PROVE  history'[1] = Classify(Seen(mails)) /\ Heard(Seen(mails))'
<1> DEFINE s == Seen(mails)
           inp == Input(s)
<1>1. /\ row'.state = Reduce(inp).next
      /\ history' = Remember(history, Classify(s))
      /\ Answers(inp, Found(s), Reduce(inp))
  BY RunPipelineDoes DEF TypeInv
<1>2. history'[1] = Classify(s)
  BY <1>1, RememberLists, ClassifyAuthorizesNothing DEF TypeInv
<1>3. /\ Unattended(inp) /\ inp.state = row.state
      /\ inp.injected \cup inp.detected = Found(s)
  BY InputUnattended DEF TypeInv
<1>4. ASSUME AsksInText(s), ~Resolving(s)
      PROVE  row'.state \in {"needs_review", "act_open", "respond_open"}
  <2>1. Found(s) \cap DOMAIN AskState # {}
    BY <1>4, AsksAreFound DEF TypeInv
  <2>2. Found(s) \cap {"explicit", "soft"} = {}
    BY <1>4 DEF Found, DetectEvidence, Resolving
  <2>3. CASE row.state # "needs_review"
    BY <1>1, <1>3, <2>1, <2>2, <2>3, ReduceHears DEF TypeInv, RowOK
  <2>4. CASE row.state = "needs_review"
    <3>1. Reduce(inp).next = "needs_review"
      BY <1>3, <2>4, ReduceStops DEF Unattended
    <3>2. QED
      BY <1>1, <3>1
  <2>5. QED
    BY <2>3, <2>4
<1>5. s' = s
  OBVIOUS
<1>6. Heard(s)'
  BY <1>4, <1>5 DEF Heard
<1>7. QED
  BY <1>2, <1>6

LEMMA NextFresh == ASSUME TypeInv, Fresh, [Next]_vars PROVE Fresh'
<1>1. ASSUME NEW mail \in Mails, Receive(mail) PROVE Fresh'
  <2>1. /\ mails' = Append(mails, mail)
        /\ UNCHANGED <<poll, row, history>>
    BY <1>1 DEF Receive
  <2>2. Seen(mails)' = Seen(mails)
    <3>1. mails \in Seq(Mail) /\ mail \in Mail /\ ~mail.seen
      BY ThreadAssumption DEF TypeInv, MailsOK
    <3>2. QED
      BY <2>1, <3>1, UnsyncedIsUnseen
  <2>3. QED
    BY <2>1, <2>2 DEF Fresh, Heard
<1>2. CASE SyncSent \/ StampSent \/ SyncInbox
  <2>1. /\ Stage["idle"] = "sent" /\ Stage["sent"] = "stamped"
        /\ Stage["stamped"] = "synced"
    BY DEF Stage
  <2>2. poll' # "idle"
    BY <1>2, <2>1 DEF SyncSent, StampSent, SyncInbox, Advances
  <2>3. QED
    BY <2>2 DEF Fresh
<1>3. CASE Run
  <2>1. CASE (row.state = "done" \/ Empty(Seen(mails)))
               /\ UNCHANGED <<mails, row, history>>
    BY <2>1 DEF Fresh
  <2>2. CASE row.state # "done" /\ RunPipeline(Seen(mails))
               /\ UNCHANGED mails
    <3>1. history'[1] = Classify(Seen(mails)) /\ Heard(Seen(mails))'
      BY <2>2, RunIsFresh
    <3>2. QED
      BY <2>2, <3>1 DEF Fresh
  <2>3. QED
    BY <1>3, <2>1, <2>2, RunDoes
<1>4. CASE UNCHANGED vars
  BY <1>4 DEF vars, Fresh, Heard
<1>5. QED
  BY <1>1, <1>2, <1>3, <1>4 DEF Next

LEMMA FreshHolds == Spec => []Fresh
<1>1. Init => Fresh
  BY DEF Init, Fresh
<1>2. TypeInv /\ Fresh /\ [Next]_vars => Fresh'
  BY NextFresh
<1>3. QED
  BY <1>1, <1>2, TypeInvHolds, PTL DEF Spec

LEMMA NothingInNothing == \A s, mark : Empty(s) => ~LatestInboundHas(s, mark)
  BY DEF Empty, LatestInboundHas, Inbound, RestrictValues, Restrict

\* Mail of a no-reply sender or a list is filed as FYI or noise, and surely
\* enough to pass the gate, whatever it says and whoever has answered it.
THEOREM MachineMailStays == Spec => []MachineMailIsFiled
<1>1. Fresh => MachineMailIsFiled
  <2>1. FromMachine(Seen(mails)) => ~Empty(Seen(mails))
    BY NothingInNothing DEF FromMachine
  <2>2. QED
    BY <2>1, MachineMailStaysFiled DEF Fresh, MachineMailIsFiled, Rested, Shelf
<1>2. QED
  BY <1>1, FreshHolds, PTL

\* After a run, a thread whose latest mail asks for something in words is open
\* with a task, or resolved, or under review.
THEOREM AsksAreHeard == Spec => []AskIsHeard
<1>1. TypeInv /\ Fresh => AskIsHeard
  <2>1. AsksInText(Seen(mails)) => ~Empty(Seen(mails))
    BY NothingInNothing DEF AsksInText, NewDeliverable, NewReply, LatestIs
  <2>2. QED
    BY <2>1 DEF Fresh, Heard, Resolving, TypeInv, RowOK, Awaiting, AskIsHeard,
                Rested
<1>2. QED
  BY <1>1, TypeInvHolds, FreshHolds, PTL

-----------------------------------------------------------------------------
(* An ask is held for review unless a VIP wrote.                             *)

\* Not more than fairly sure of an ask.
Lowly(o) == o \in Opinions /\ (o.bucket \in {"Act", "Respond"} => o.conf <= 70)

LEMMA OverrideLowly ==
  ASSUME NEW o, Lowly(o), NEW fires, NEW bucket \in Filed \ {"Act", "Respond"},
         NEW conf \in Confidences
  PROVE  Lowly(Override(o, fires, bucket, conf))
<1>1. AtLeast(o.conf, conf) \in Confidences
  BY AtLeastRates DEF Lowly, Opinions
<1>2. CASE fires
  BY <1>1, <1>2 DEF Override, Overriding, Filing, Lowly, Opinions
<1>3. CASE ~fires
  BY <1>3 DEF Override
<1>4. QED
  BY <1>2, <1>3

LEMMA OverridesLowly ==
  ASSUME NEW p, Lowly(p), NEW marks
  PROVE  Lowly(MachineOverrides(p, marks))
<1> DEFINE noreply == Override(p, "noreply" \in marks,
               IF "unsubscribe" \in marks THEN "DeleteOrUnsubscribe" ELSE "FYI",
               95)
           listed == Override(noreply,
               "unsubscribe" \in marks /\ "ends_q" \notin marks,
               "DeleteOrUnsubscribe", 90)
           accepted == Override(listed, "accepted" \in marks, "FYI", 90)
<1>1. {"FYI", "DeleteOrUnsubscribe"} \subseteq Filed \ {"Act", "Respond"}
  BY DEF Filed
<1>2. Lowly(noreply)
  BY RuleConstants, <1>1, OverrideLowly
<1> HIDE DEF noreply
<1>3. Lowly(listed)
  BY RuleConstants, <1>1, <1>2, OverrideLowly
<1> HIDE DEF listed
<1>4. Lowly(accepted)
  BY RuleConstants, <1>1, <1>3, OverrideLowly
<1> HIDE DEF accepted
<1>5. Lowly(Override(accepted, "blocked" \in marks, "DeleteOrUnsubscribe", 95))
  BY RuleConstants, <1>1, <1>4, OverrideLowly
<1>6. QED
  BY <1>5 DEF MachineOverrides, noreply, listed, accepted

LEMMA ProvisionalLowly == \A r : Modest(r) => Lowly(Provisional(r))
  BY DEF Modest, Lowly, Provisional, Opinions, Ratings

LEMMA StageCLowly ==
  ASSUME NEW p, Lowly(p), NEW s, ~LatestInboundHas(s, "vip")
  PROVE  Lowly(StageC(p, s))
<1> DEFINE marks == Latest(Inbound(s)).marks
           o == MachineOverrides(p, marks)
<1>1. CASE Empty(Inbound(s))
  BY <1>1 DEF StageC
<1>2. CASE ~Empty(Inbound(s))
  <2>1. Lowly(o)
    BY OverridesLowly
  <2>2. "vip" \notin marks
    BY <1>2 DEF LatestInboundHas
  <2> HIDE DEF o
  <2>3. VipOverride(o, p, marks) = o
    BY <2>2 DEF VipOverride, File
  <2>4. "WaitingOn" \in Filed \ {"Act", "Respond"}
    BY DEF Filed
  <2>5. Lowly(Override(o, o.bucket = "Respond" /\ UserSentLast(s), "WaitingOn",
                       70))
    BY RuleConstants, <2>1, <2>4, OverrideLowly
  <2>6. QED
    BY <1>2, <2>3, <2>5 DEF StageC, o
<1>3. QED
  BY <1>1, <1>2

\* What is held for review if it is an ask.
Careful == {c \in Classifications :
              c.bucket \in {"Act", "Respond"} => c.review # "none"}

LEMMA ClassifyCareful ==
  ASSUME NEW s, ~LatestInboundHas(s, "vip") PROVE Classify(s) \in Careful
<1> DEFINE o == StageC(Provisional(StageA(s)), s)
<1>1. Lowly(o)
  BY StageAModest, ProvisionalLowly, StageCLowly
<1> HIDE DEF o
<1>2. o.bucket \in {"Act", "Respond"} => ReviewReason(o.conf) # "none"
  BY <1>1 DEF Lowly, Opinions, Confidences, ReviewReason, Write, Review
<1>3. Gate(o).bucket = o.bucket /\ Gate(o).review = ReviewReason(o.conf)
  BY DEF Gate
<1>4. Classify(s) = Gate(o)
  BY DEF Classify, o
<1>5. QED
  BY <1>2, <1>3, <1>4, ClassifyAuthorizesNothing DEF Careful

\* Some mail of the thread carries the mark.
Came(mark) == \E j \in DOMAIN mails : mark \in mails[j].marks

LEMMA NextCame ==
  ASSUME TypeInv, [Next]_vars, NEW mark, Came(mark) PROVE Came(mark)'
<1>1. mails \in Seq(Mail)
  BY DEF TypeInv, MailsOK
<1>2. ASSUME Extends(mails', mails) PROVE Came(mark)'
  BY <1>2 DEF Extends, Came
<1>3. \A mail \in Mails : Receive(mail) => Extends(mails', mails)
  BY <1>1, AppendKeeps, ThreadAssumption DEF Receive
<1>4. SyncSent \/ SyncInbox => Extends(mails', mails)
  BY <1>1, SyncedKeeps DEF SyncSent, SyncInbox
<1>5. UNCHANGED mails => Extends(mails', mails)
  BY DEF Extends
<1>6. QED
  BY <1>2, <1>3, <1>4, <1>5 DEF Next, vars, StampSent, Run

LEMMA LatestCame ==
  ASSUME TypeInv, NEW mark, LatestInboundHas(Seen(mails), mark)
  PROVE  Came(mark)
  BY LatestInboundCame DEF TypeInv, MailsOK, LatestInboundHas, Came

CarefulInv == Came("vip") \/ history \in Seq(Careful)

LEMMA NextCareful ==
  ASSUME TypeInv, CarefulInv, [Next]_vars PROVE CarefulInv'
<1>1. CASE Came("vip")
  BY <1>1, NextCame DEF CarefulInv
<1>2. CASE ~Came("vip") /\ history \in Seq(Careful)
  <2>1. CASE UNCHANGED history
    BY <1>2, <2>1 DEF CarefulInv
  <2>2. CASE Run
    <3>1. CASE row.state # "done" /\ RunPipeline(Seen(mails))
      <4>1. history' = Remember(history, Classify(Seen(mails)))
        BY <3>1, RunPipelineDoes DEF TypeInv
      <4>2. Classify(Seen(mails)) \in Careful
        BY <1>2, LatestCame, ClassifyCareful
      <4>3. history' \in Seq(Careful)
        BY <1>2, <4>1, <4>2, RememberLists
      <4>4. QED
        BY <4>3 DEF CarefulInv
    <3>2. QED
      BY <2>1, <2>2, <3>1, RunDoes
  <2>3. QED
    BY <2>1, <2>2 DEF Next, vars, Receive, SyncSent, StampSent, SyncInbox
<1>3. QED
  BY <1>1, <1>2 DEF CarefulInv

\* ADR-002, "marginal cases go through the review queue": an ask is held for
\* review unless a VIP wrote.
THEOREM AsksStayHeld == Spec => []AsksAreHeld
<1>1. Init => CarefulInv
  BY DEF Init, CarefulInv
<1>2. TypeInv /\ CarefulInv /\ [Next]_vars => CarefulInv'
  BY NextCareful
<1>3. CarefulInv => AsksAreHeld
  <2>1. CASE Came("vip")
    BY <2>1 DEF Came, AsksAreHeld
  <2>2. CASE history \in Seq(Careful)
    <3>1. \A i \in DOMAIN history : history[i] \in Careful
      BY <2>2, LenProperties, ElementOfSeq
    <3>2. QED
      BY <3>1 DEF Careful, AsksAreHeld
  <2>3. QED
    BY <2>1, <2>2 DEF CarefulInv
<1>4. QED
  BY <1>1, <1>2, <1>3, TypeInvHolds, PTL DEF Spec

-----------------------------------------------------------------------------
(* Sent Items is synced before the cursor is stamped, so a reply that has    *)
(* been synced is never ahead of it.                                         *)

LagFree ==
    poll # "sent" =>
        \A i \in DOMAIN mails : mails[i].user /\ mails[i].seen => i <= cursor

LEMMA NextLagFree == ASSUME TypeInv, LagFree, [Next]_vars PROVE LagFree'
<1>1. /\ mails \in Seq(Mail) /\ Len(mails) \in Nat
      /\ DOMAIN mails = 1..Len(mails) /\ cursor \in Nat
  BY LenProperties DEF TypeInv, MailsOK
<1>2. ASSUME NEW mail \in Mails, Receive(mail) PROVE LagFree'
  <2>1. SeesNoMore(mails', mails) /\ Extends(mails', mails)
    BY <1>1, <1>2, AppendKeeps, ThreadAssumption DEF Receive
  <2>2. UNCHANGED <<poll, cursor>>
    BY <1>2 DEF Receive
  <2>3. QED
    BY <2>1, <2>2 DEF LagFree, SeesNoMore, Extends
<1>3. CASE SyncSent
  <2>1. poll' = "sent"
    BY <1>3 DEF SyncSent, Advances, Stage
  <2>2. QED
    BY <2>1 DEF LagFree
<1>4. CASE StampSent
  <2>1. mails' = mails /\ cursor' = Len(mails)
    BY <1>4 DEF StampSent
  <2>2. \A i \in DOMAIN mails : i <= Len(mails)
    BY <1>1
  <2>3. QED
    BY <2>1, <2>2 DEF LagFree
<1>5. CASE SyncInbox
  <2>1. mails' = Synced(FALSE) /\ UNCHANGED cursor /\ poll # "sent"
    BY <1>5 DEF SyncInbox
  <2>2. /\ Extends(mails', mails) /\ DOMAIN mails' = DOMAIN mails
        /\ \A i \in DOMAIN mails :
              mails'[i].seen => mails[i].seen \/ mails[i].user = FALSE
    BY <1>1, <2>1, SyncedKeeps DEF Synced
  <2>3. QED
    BY <2>1, <2>2 DEF LagFree, Extends
<1>6. CASE Run
  BY <1>6, RunDoes DEF LagFree
<1>7. CASE UNCHANGED vars
  BY <1>7 DEF vars, LagFree
<1>8. QED
  BY <1>2, <1>3, <1>4, <1>5, <1>6, <1>7 DEF Next

LEMMA LagFreeHolds == Spec => []LagFree
<1>1. Init => LagFree
  BY DEF Init, LagFree
<1>2. TypeInv /\ LagFree /\ [Next]_vars => LagFree'
  BY NextLagFree
<1>3. QED
  BY <1>1, <1>2, TypeInvHolds, PTL DEF Spec

\* When the user has sent last, nothing received is later than the reply.
LEMMA NoLagReported ==
  ASSUME TypeInv, LagFree, poll = "synced"
  PROVE  "lag" \notin Found(Seen(mails))
<1> DEFINE s == Seen(mails)
           D == DOMAIN s
<1>1. /\ mails \in Seq(Mail) /\ Len(mails) \in Nat
      /\ DOMAIN mails = 1..Len(mails) /\ cursor \in Nat
  BY LenProperties DEF TypeInv, MailsOK
<1>2. /\ D = {i \in DOMAIN mails : mails[i].seen}
      /\ \A i \in D : s[i] = mails[i]
  BY DEF Seen, RestrictValues, Restrict
<1>3. ASSUME UserReplied(s, history) PROVE ~Lagging
  <2>1. D # {} /\ Latest(s).user
    BY <1>3 DEF UserReplied, UserSentLast, Empty
  <2>2. Max(D) \in D /\ \A i \in D : i <= Max(D)
    BY <1>1, <1>2, <2>1, MaxOfNumbers
  <2>3. Max(D) <= cursor
    BY <1>2, <2>1, <2>2 DEF Latest, LagFree
  <2>4. \A i \in D : i <= cursor
    BY <1>1, <1>2, <2>2, <2>3
  <2>5. QED
    BY <1>1, <1>2, <2>4 DEF Lagging
<1> HIDE DEF s
<1>4. "lag" \in Found(s) => UserReplied(s, history) /\ Lagging
  BY DEF Found, DetectEvidence
<1>5. QED
  BY <1>3, <1>4 DEF s

-----------------------------------------------------------------------------
(* A review has its cause in a mail of the thread.                           *)

\* Neither sure nor noise.
Faint(r) == r.conf <= 70 /\ r.bucket # "DeleteOrUnsubscribe"

LEMMA FileFaint ==
  ASSUME NEW r \in Ratings, Faint(r), NEW fires,
         NEW bucket \in Filed \ {"DeleteOrUnsubscribe"}, NEW conf \in {60, 70}
  PROVE  File(r, fires, bucket, conf) \in Ratings
         /\ Faint(File(r, fires, bucket, conf))
<1>1. conf \in Confidences
  BY DEF Confidences
<1>2. CASE fires
  <2>1. /\ Filing(r, bucket, conf) \in Ratings
        /\ Filing(r, bucket, conf).bucket = bucket
        /\ Filing(r, bucket, conf).conf = AtLeast(r.conf, conf)
    BY <1>1, FilingRates
  <2>2. AtLeast(r.conf, conf) <= 70
    BY DEF AtLeast, Faint, Ratings, Confidences
  <2>3. QED
    BY <1>2, <2>1, <2>2 DEF File, Faint
<1>3. CASE ~fires
  BY <1>3 DEF File
<1>4. QED
  BY <1>2, <1>3

LEMMA StageAFaint ==
  ASSUME NEW s, \A mark \in Causes : ~LatestInboundHas(s, mark)
  PROVE  StageA(s) \in Ratings /\ Faint(StageA(s))
<1> DEFINE mail == Latest(Inbound(s))
           marks == mail.marks
           machine == File(Unfiled, "automation" \in marks
                                      /\ Unfiled.bucket = "null", "FYI", 70)
           question == File(machine, AsksUser(mail) /\ Unsure(machine, 70),
                            "Respond", 70)
           asked == File(question,
                         "please" \in marks /\ Unsure(question, 70), "Act", 70)
           sent == File(asked,
                        UserSentLast(s) /\ asked.bucket \in {"null", "Respond"},
                        "WaitingOn", 70)
           copied == File(sent,
               /\ mail.to = "CC" /\ sent.bucket = "null"
               /\ ~AsksUser(mail) /\ "please" \notin marks, "FYI", 60)
           invited == File(copied, "invite" \in marks /\ Unsure(copied, 60),
                           "Respond", 60)
<1>1. Unfiled \in Ratings /\ Faint(Unfiled)
  BY DEF Unfiled, Ratings, Filed, Confidences, Faint
<1>2. {"WaitingOn", "FYI", "Respond", "Act"}
        \subseteq Filed \ {"DeleteOrUnsubscribe"}
  BY DEF Filed
<1>3. CASE Empty(Inbound(s))
  BY <1>1, <1>2, <1>3, FileFaint DEF StageA
<1>4. CASE ~Empty(Inbound(s))
  <2>1. \A mark \in {"noreply", "unsubscribe", "bulkname", "accepted"} :
          mark \notin marks
    BY <1>4 DEF LatestInboundHas, Causes
  <2>2. machine \in Ratings /\ Faint(machine)
    BY <1>1, <1>2, FileFaint
  <2>3. MachineRules(marks) = machine
    BY <2>1 DEF MachineRules, File
  <2> HIDE DEF machine
  <2>4. question \in Ratings /\ Faint(question)
    BY <1>2, <2>2, FileFaint
  <2> HIDE DEF question
  <2>5. asked \in Ratings /\ Faint(asked)
    BY <1>2, <2>4, FileFaint
  <2>6. AskRules(machine, mail) = asked
    BY DEF AskRules, question
  <2> HIDE DEF asked
  <2>7. sent \in Ratings /\ Faint(sent)
    BY <1>2, <2>5, FileFaint
  <2> HIDE DEF sent
  <2>8. copied \in Ratings /\ Faint(copied)
    BY <1>2, <2>7, FileFaint
  <2> HIDE DEF copied
  <2>9. invited \in Ratings /\ Faint(invited)
    BY <1>2, <2>8, FileFaint
  <2>10. ThreadRules(asked, mail, UserSentLast(s)) = invited
    BY DEF ThreadRules, sent, copied
  <2>11. StageA(s) = invited
    BY <1>4, <2>3, <2>6, <2>10 DEF StageA
  <2>12. QED
    BY <2>9, <2>11
<1>5. QED
  BY <1>3, <1>4

Doubtful == {c \in Classifications : Faint(c)}

LEMMA ClassifyDoubtful ==
  ASSUME NEW s, \A mark \in Causes : ~LatestInboundHas(s, mark)
  PROVE  Classify(s) \in Doubtful
<1> DEFINE p == Provisional(StageA(s))
           marks == Latest(Inbound(s)).marks
           o == StageC(p, s)
<1>1. p \in Opinions /\ Faint(p)
  <2>1. \A r \in Ratings : Faint(r) =>
          Provisional(r) \in Opinions /\ Faint(Provisional(r))
    BY DEF Provisional, Opinions, Ratings, Faint
  <2>2. QED
    BY <2>1, StageAFaint
<1> HIDE DEF p
<1>2. Faint(o)
  <2>1. CASE Empty(Inbound(s))
    BY <1>1, <2>1 DEF StageC
  <2>2. CASE ~Empty(Inbound(s))
    <3>1. \A mark \in {"noreply", "unsubscribe", "accepted", "blocked", "vip"} :
            mark \notin marks
      BY <2>2 DEF LatestInboundHas, Causes
    <3>2. MachineOverrides(p, marks) = p
      BY <3>1 DEF MachineOverrides, Override
    <3>3. VipOverride(p, p, marks) = p
      BY <3>1 DEF VipOverride, File
    <3>4. o = Override(p, p.bucket = "Respond" /\ UserSentLast(s), "WaitingOn",
                       70)
      BY <2>2, <3>2, <3>3 DEF StageC
    <3>5. Faint(Overriding(p, "WaitingOn", 70))
      BY <1>1 DEF Overriding, Filing, AtLeast, Faint, Opinions, Confidences
    <3>6. QED
      BY <1>1, <3>4, <3>5 DEF Override
  <2>3. QED
    BY <2>1, <2>2
<1>3. Classify(s) = Gate(o)
  BY DEF Classify, p
<1> HIDE DEF o
<1>4. Faint(Gate(o))
  BY <1>2 DEF Gate, Faint
<1>5. QED
  BY <1>3, <1>4, ClassifyAuthorizesNothing DEF Doubtful

Caused == \E mark \in Causes : Came(mark)

CauseInv ==
    \/ Caused
    \/ /\ row.state \notin {"noise_transient", "needs_review"}
       /\ history \in Seq(Doubtful)

\* Doubtful classifications do not conflict, and make no noise.
LEMMA DoubtfulFound ==
  ASSUME history \in Seq(Doubtful), NEW s,
         \A mark \in Causes : ~LatestInboundHas(s, mark)
  PROVE  Found(s) \cap {"conflict", "bulk", "failures"} = {}
<1>1. Len(history) \in Nat /\ DOMAIN history = 1..Len(history)
  BY LenProperties
<1>2. \A i \in 1..Len(history) :
        /\ history[i].conf \in Confidences /\ history[i].conf <= 70
        /\ history[i].bucket # "DeleteOrUnsubscribe"
  BY ElementOfSeq DEF Doubtful, Faint, Classifications
<1>3. ~SignalConflict(history)
  <2> DEFINE first == IF Len(history) > 3 THEN Len(history) - 2 ELSE 1
  <2>1. first..Len(history) \subseteq 1..Len(history)
    BY <1>1
  <2>2. \A i \in first..Len(history) : ~(history[i].conf >= Write)
    BY <1>2, <2>1 DEF Write, Confidences
  <2> HIDE DEF first
  <2>3. QED
    BY <2>2 DEF SignalConflict, first
<1>4. ~BulkNoise(s, history)
  <2>1. history # <<>> => Len(history) \in 1..Len(history)
    BY <1>1, EmptySeq
  <2>2. ~LatestIs(history, "DeleteOrUnsubscribe")
    BY <1>2, <2>1 DEF LatestIs
  <2>3. QED
    BY <2>2 DEF BulkNoise, Causes
<1>5. QED
  BY <1>3, <1>4 DEF Found, DetectEvidence

LEMMA NextCause ==
  ASSUME TypeInv, LagFree, CauseInv, [Next]_vars PROVE CauseInv'
<1>1. CASE Caused
  BY <1>1, NextCame DEF CauseInv, Caused
<1>2. CASE /\ ~Caused /\ history \in Seq(Doubtful)
           /\ row.state \notin {"noise_transient", "needs_review"}
  <2>1. CASE UNCHANGED <<row, history>>
    BY <1>2, <2>1 DEF CauseInv
  <2>2. CASE Run
    <3>1. CASE row.state # "done" /\ RunPipeline(Seen(mails))
      <4> DEFINE s == Seen(mails)
      <4>1. /\ history' = Remember(history, Classify(s))
            /\ row'.state = Reduce(Input(s)).next
            /\ Answers(Input(s), Found(s), Reduce(Input(s)))
        BY <3>1, RunPipelineDoes DEF TypeInv
      <4>2. \A mark \in Causes : ~LatestInboundHas(s, mark)
        BY <1>2, LatestCame DEF Caused
      <4>3. history' \in Seq(Doubtful)
        BY <1>2, <4>1, <4>2, ClassifyDoubtful, RememberLists
      <4>4. "lag" \notin Found(s)
        BY <2>2, NoLagReported DEF Run
      <4>5. Found(s) \cap {"conflict", "bulk", "failures"} = {}
        BY <1>2, <4>2, DoubtfulFound
      <4>6. Input(s).state = row.state
        BY InputUnattended DEF TypeInv
      <4>7. row'.state \notin {"noise_transient", "needs_review"}
        BY <1>2, <4>1, <4>4, <4>5, <4>6 DEF Answers
      <4>8. QED
        BY <4>3, <4>7 DEF CauseInv
    <3>2. QED
      BY <2>1, <2>2, <3>1, RunDoes
  <2>3. QED
    BY <2>1, <2>2 DEF Next, vars, Receive, SyncSent, StampSent, SyncInbox
<1>3. QED
  BY <1>1, <1>2 DEF CauseInv

\* The poll never sends a thread to review for a lag, and for a conflict or an
\* ask under noise only where sure rules were at work: on mail of a machine or
\* of somebody on the user's lists.
THEOREM ReviewsHaveCauses == Spec => []ReviewHasACause
<1>1. Init => CauseInv
  BY DEF Init, CauseInv
<1>2. TypeInv /\ LagFree /\ CauseInv /\ [Next]_vars => CauseInv'
  BY NextCause
<1>3. CauseInv => ReviewHasACause
  BY DEF CauseInv, Caused, Came, ReviewHasACause
<1>4. QED
  BY <1>1, <1>2, <1>3, TypeInvHolds, LagFreeHolds, PTL DEF Spec

-----------------------------------------------------------------------------
(* A run on an answered thread.                                              *)

\* Whoever wrote last wins: what the user has answered is not filed as a
\* question.
LEMMA AnsweredIsNoRespond ==
  ASSUME NEW s, AnsweredIn(s) PROVE Classify(s).bucket # "Respond"
<1> DEFINE p == Provisional(StageA(s))
           marks == Latest(Inbound(s)).marks
           o == VipOverride(MachineOverrides(p, marks), p, marks)
<1>1. StageC(p, s) = Override(o, o.bucket = "Respond" /\ UserSentLast(s),
                              "WaitingOn", 70)
  BY DEF StageC, AnsweredIn
<1>2. Idle(p)
  BY StageAModest, ProvisionalIdle
<1> HIDE DEF p
<1>3. Idle(o)
  BY <1>2, OverridesIdle
<1> HIDE DEF o
<1>4. Overriding(o, "WaitingOn", 70).bucket = "WaitingOn"
  BY <1>3 DEF Overriding, Filing, Idle, Opinions
<1>5. StageC(p, s).bucket # "Respond"
  BY <1>1, <1>4 DEF Override, AnsweredIn
<1>6. QED
  BY <1>5 DEF Classify, Gate, p

\* A reply is evidence as such, and without an ask filed or in the text it is
\* not taken for one.
LEMMA ReplyIsFound ==
  ASSUME RulesAuthorizeNothing, history \in Seq(Classifications),
         NEW s, AnsweredIn(s)
  PROVE  /\ "replied" \in Found(s)
         /\ ~AsksInText(s) /\ ~LatestIs(history, "Respond") =>
               Found(s) \cap DOMAIN AskState = {}
<1>1. ~LatestCreates(history)
  <2>1. CASE history = <<>>
    BY <2>1 DEF LatestCreates
  <2>2. CASE history # <<>>
    <3>1. Len(history) \in DOMAIN history
      BY <2>2, LenProperties, EmptySeq
    <3>2. QED
      BY <3>1 DEF RulesAuthorizeNothing, LatestCreates
  <2>3. QED
    BY <2>1, <2>2
<1>2. UserReplied(s, history)
  BY <1>1 DEF UserReplied, AnsweredIn
<1>3. "replied" \in Found(s)
  BY <1>2 DEF Found, DetectEvidence
<1>4. ASSUME ~AsksInText(s), ~LatestIs(history, "Respond")
      PROVE  ~NewDeliverable(s, history) /\ ~NewReply(s, history)
  <2>1. ~NewDeliverable(s, <<>>) /\ ~NewReply(s, <<>>)
    BY <1>4 DEF AsksInText
  <2>2. ~NewDeliverable(s, history)
    BY <1>1, <2>1 DEF NewDeliverable
  <2>3. ~NewReply(s, history)
    BY <1>4, <2>1 DEF NewReply
  <2>4. QED
    BY <2>2, <2>3
<1>5. /\ "deliverable" \in Found(s) => NewDeliverable(s, history)
      /\ "reply" \in Found(s) => NewReply(s, history)
  BY DEF Found, DetectEvidence
<1>6. QED
  BY <1>3, <1>4, <1>5 DEF AskState

LEMMA RunSettles ==
  ASSUME TypeInv, RulesAuthorizeNothing, Run, row.state # "done",
         AnsweredIn(Seen(mails))
  PROVE  /\ history'[1].bucket # "Respond"
         /\ ~AsksInText(Seen(mails)) /\ ~LatestIs(history, "Respond")
               => ~Owing'
<1> DEFINE s == Seen(mails)
           inp == Input(s)
<1>1. RunPipeline(s)
  <2>1. ~Empty(s)
    BY DEF AnsweredIn, UserSentLast
  <2>2. QED
    BY <2>1, RunDoes
<1>2. /\ row'.state = Reduce(inp).next
      /\ history' = Remember(history, Classify(s))
  BY <1>1, RunPipelineDoes DEF TypeInv
<1>3. history'[1] = Classify(s)
  <2>1. history \in Seq(Classifications) /\ Classify(s) \in Classifications
    BY ClassifyAuthorizesNothing DEF TypeInv
  <2>2. Remember(history, Classify(s))[1] = Classify(s)
    BY <2>1, RememberLists
  <2>3. QED
    BY <1>2, <2>2
<1>4. history'[1].bucket # "Respond"
  BY <1>3, AnsweredIsNoRespond
<1>5. ASSUME ~AsksInText(s), ~LatestIs(history, "Respond")
      PROVE  row'.state \notin {"act_open", "respond_open"}
  <2>1. /\ "replied" \in Found(s)
        /\ Found(s) \cap DOMAIN AskState = {}
    BY <1>5, ReplyIsFound DEF TypeInv
  <2>2. /\ Unattended(inp) /\ inp.state = row.state
        /\ inp.injected \cup inp.detected = Found(s)
    BY InputUnattended DEF TypeInv
  <2>3. Reduce(inp).next \notin {"act_open", "respond_open"}
    BY <2>1, <2>2, ReduceSettles DEF TypeInv, RowOK
  <2>4. QED
    BY <1>2, <2>3
<1>6. QED
  BY <1>4, <1>5 DEF Owing

\* A run on a thread the user has answered files no ask, and leaves none open
\* that the oldest classification listed does not speak for, unless the text
\* goes on asking.
THEOREM AnswersAreSettled == Spec => AnswersSettle
<1>1. TypeInv /\ RulesAuthorizeNothing /\ [Next]_vars =>
        [Run /\ row.state # "done" /\ AnsweredIn(Seen(mails)) =>
            /\ history'[1].bucket # "Respond"
            /\ ~AsksInText(Seen(mails)) /\ ~LatestIs(history, "Respond")
                  => ~Owing']_vars
  BY RunSettles
<1>2. QED
  BY <1>1, TypeInvHolds, HistoriesAuthorizeNothing, PTL
     DEF Spec, AnswersSettle

-----------------------------------------------------------------------------
(* The life cycle.                                                           *)

LEMMA MovesAlong ==
  ASSUME NEW s, NEW b, s = row.state, b = row.bucket,
         Moves(s, b, row'.state, row'.bucket)
  PROVE  [Matrix!Next]_(Matrix!vars)
  BY DEF Moves, Matrix!Next, Matrix!vars, Matrix!Ask, Matrix!Await,
         Matrix!Defer, Matrix!Resolve, Matrix!File, Matrix!Archive,
         Matrix!Raise, Matrix!Become

\* Polls implement the life cycle: whatever mail comes, and whatever the rules
\* make of it, the thread moves along the transition matrix only.
THEOREM ThreadFollowsMatrix == Spec => FollowsMatrix
<1>1. Init => Matrix!Init
  BY DEF Init, Matrix!Init
<1>2. TypeInv /\ [Next]_vars => [Matrix!Next]_(Matrix!vars)
  <2> SUFFICES ASSUME TypeInv, [Next]_vars PROVE [Matrix!Next]_(Matrix!vars)
    OBVIOUS
  <2>1. CASE UNCHANGED row
    BY <2>1 DEF Matrix!vars
  <2>2. CASE row.state # "done" /\ \E s : RunPipeline(s)
    <3>1. PICK s : RunPipeline(s)
      BY <2>2
    <3> DEFINE inp == Input(s)
               result == Reduce(inp)
    <3>2. /\ Unattended(inp) /\ inp.state = row.state
          /\ inp.bucket = row.bucket
      BY InputUnattended DEF TypeInv, Input
    <3>3. ~result.raised
      BY <2>2, <3>1, RunPipelineDoes DEF TypeInv, Answers
    <3> HIDE DEF inp
    <3>4. Moves(row.state, row.bucket, result.next, result.bucket)
      BY <3>2, <3>3, ReduceMoves
    <3> HIDE DEF result
    <3>5. row' = [state |-> result.next, bucket |-> result.bucket,
                  task |-> row.task \/ result.task \in {"create", "reopen"}]
      BY <3>1 DEF RunPipeline, result, inp
    <3>6. row'.state = result.next /\ row'.bucket = result.bucket
      BY <3>5
    <3>7. QED
      BY <3>4, <3>6, MovesAlong
  <2>3. QED
    BY <2>1, <2>2, RunDoes DEF Next, vars, Receive, SyncSent, StampSent,
       SyncInbox
<1>3. QED
  BY <1>1, <1>2, TypeInvHolds, PTL DEF Spec, FollowsMatrix, Matrix!Spec

=============================================================================
