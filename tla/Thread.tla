------------------------------- MODULE Thread -------------------------------
(***************************************************************************)
(* One thread under the delta poll: mail comes in, the poll syncs Sent     *)
(* Items, then Inbox, and runs the pipeline on the snapshot: classify,     *)
(* store the classification, detect evidence, reduce, apply.  Writeback    *)
(* succeeds here; Pipeline has what else it can do.                        *)
(***************************************************************************)
EXTENDS Reducer, EvidenceRules

CONSTANTS Mails,       \* what may arrive
          MaxMails     \* bound: mails of the thread

ASSUME ThreadAssumption ==
    /\ Mails \subseteq Mail /\ \A mail \in Mails : Coherent(mail) /\ ~mail.seen
    /\ MaxMails \in Nat

VARIABLES
    mails,      \* the mails of the thread in the order they are received
    cursor,     \* last_sync_at of Sent Items: how many had come in by then
    poll,       \* what the poll has done
    row,        \* the conversation
    history     \* its classifications, newest first
vars == <<mails, cursor, poll, row, history>>

\* The stages of a poll.
Stage == [idle |-> "sent", sent |-> "stamped", stamped |-> "synced",
          synced |-> "idle"]

TypeOK ==
    /\ Len(mails) <= MaxMails
    /\ \A i \in DOMAIN mails : mails[i] \in Mail
    /\ cursor \in 0..MaxMails
    /\ poll \in DOMAIN Stage
    /\ <<row.state, row.bucket>> \in AllowedPairs /\ row.task \in BOOLEAN
    /\ history \in Seq(Classifications) /\ Len(history) <= Listed

Init ==
    /\ mails = <<>> /\ cursor = 0 /\ poll = "idle" /\ history = <<>>
    /\ row = [state |-> "none", bucket |-> "null", task |-> FALSE]

-----------------------------------------------------------------------------
Receive(mail) ==
    /\ Len(mails) < MaxMails
    /\ mails' = Append(mails, mail)
    /\ UNCHANGED <<cursor, poll, row, history>>

Advances == poll' = Stage[poll]

Synced(fromUser) ==
    [i \in DOMAIN mails |->
        [mails[i] EXCEPT !.seen = @ \/ mails[i].user = fromUser]]

\* Sent Items is synced first; last_sync_at is stamped after its last page.
SyncSent ==
    /\ poll = "idle" /\ Advances
    /\ mails' = Synced(TRUE)
    /\ UNCHANGED <<cursor, row, history>>

StampSent ==
    /\ poll = "sent" /\ Advances
    /\ cursor' = Len(mails)
    /\ UNCHANGED <<mails, row, history>>

SyncInbox ==
    /\ poll = "stamped" /\ Advances
    /\ mails' = Synced(FALSE)
    /\ UNCHANGED <<cursor, row, history>>

\* latest_inbound_ts is after the cursor.
Lagging ==
    \E i \in DOMAIN mails : ~mails[i].user /\ mails[i].seen /\ i > cursor

\* While a conversation is not done, its task, if it has one, is not completed.
Input(s) ==
    [state |-> row.state, bucket |-> row.bucket, task |-> row.task,
     completion |-> "none", detected |-> DetectEvidence(s, history, Lagging),
     injected |-> {}, override |-> NoOverride, hints |-> {}]

\* The snapshot is built before the new classification is stored.  An
\* exception rolls both back.
RunPipeline(s) ==
    LET result == Reduce(Input(s))
    IN  /\ row' = [state |-> result.next, bucket |-> result.bucket,
                   task |-> row.task \/ result.task \in {"create", "reopen"}]
        /\ history' = IF result.raised THEN history
                      ELSE Remember(history, Classify(s))

\* The poll passes over what is done, and over a thread it has no mail of.
Run ==
    /\ poll = "synced" /\ Advances
    /\ IF row.state = "done" \/ Empty(Seen(mails))
       THEN UNCHANGED <<row, history>>
       ELSE RunPipeline(Seen(mails))
    /\ UNCHANGED <<mails, cursor>>

Next ==
    \/ \E mail \in Mails : Receive(mail)
    \/ SyncSent \/ StampSent \/ SyncInbox \/ Run

\* Polls come for ever and go on once started; only they move poll.
Spec == Init /\ [][Next]_vars /\ WF_poll(Advances)

-----------------------------------------------------------------------------
Rested == poll = "idle" /\ history # <<>>
FromMachine(s) ==
    LatestInboundHas(s, "noreply") \/ LatestInboundHas(s, "unsubscribe")
AsksInText(s) == NewDeliverable(s, <<>>) \/ NewReply(s, <<>>)

\* With rules alone nothing is ever sure enough to authorize a task: the
\* overrides raise a confidence past the threshold that should_create_task was
\* seeded with, and must not take the seed along.
RulesAuthorizeNothing == \A i \in DOMAIN history : ~history[i].create

\* ADR-002, "marginal cases go through the review queue": an ask is held for
\* review unless a VIP wrote, and must not inherit the confidence of machine
\* mail.
AsksAreHeld ==
    \A i \in DOMAIN history :
        history[i].bucket \in {"Act", "Respond"} =>
            \/ history[i].review # "none"
            \/ \E j \in DOMAIN mails : "vip" \in mails[j].marks

\* Mail of a no-reply sender or a list is filed as FYI or noise, and surely
\* enough to pass the gate, whatever it says and whoever has answered it.
MachineMailIsFiled ==
    Rested /\ row.state # "done" /\ FromMachine(Seen(mails)) =>
        /\ history[1].bucket \in {"FYI", "DeleteOrUnsubscribe"}
        /\ history[1].review = "none"

\* After a run, a thread whose latest mail asks for something in words is open
\* with a task, however it was filed before, unless it is resolved or under
\* review, or the same mail speaks of a resolution, which outranks an ask.
AskIsHeard ==
    /\ Rested /\ row.state # "needs_review" /\ AsksInText(Seen(mails))
    /\ \A mark \in {"resolution", "soft"} :
          ~LatestInboundHas(Seen(mails), mark)
    => \/ row.state \in {"act_open", "respond_open"} /\ row.task
       \/ row.state = "done"

\* A poll syncs Sent Items first, so it never sends a thread to review for a
\* lag.  For a conflict, or for an ask in a thread filed as noise, it does only
\* where sure rules were at work: on machine mail or the user's lists.
Causes == {"noreply", "unsubscribe", "bulkname", "bulkaddress", "accepted",
           "vip", "blocked"}
ReviewHasACause ==
    row.state = "needs_review" =>
        \E i \in DOMAIN mails : mails[i].marks \cap Causes # {}

\* Whatever mail comes, the thread moves along the matrix only.
Matrix == INSTANCE Lifecycle WITH state <- row.state, bucket <- row.bucket
FollowsMatrix == Matrix!Spec

AnsweredIn(s) == UserSentLast(s) /\ ~Empty(Inbound(s))
Answered == AnsweredIn(mails)
Owing == row.state \in {"act_open", "respond_open"}

\* Whoever wrote last decides (project-plan 13.3: "User replied last"): a run
\* on an answered thread files no ask, and leaves none open that the oldest
\* classification listed does not speak for, unless the text goes on asking.
AnswersSettle ==
    [][Run /\ row.state # "done" /\ AnsweredIn(Seen(mails)) =>
          /\ history'[1].bucket # "Respond"
          /\ ~AsksInText(Seen(mails)) /\ ~LatestIs(history, "Respond")
                => ~Owing']_vars

\* A thread the user has answered leaves the open states (project-plan 13.3:
\* "User replied last"), though for up to five runs the oldest classification
\* listed still speaks for the ask.  Text that asks goes on asking, and is
\* excepted.
ReplyIsSeen ==
    Answered /\ ~AsksInText(mails) /\ Owing ~> ~Answered \/ ~Owing

\* The same without the exception.
EveryReplyIsSeen == Answered /\ Owing ~> ~Answered \/ ~Owing

=============================================================================
