--------------------------- MODULE EvidenceRules ---------------------------
(***************************************************************************)
(* detect_evidence (reducer/evidence.py): from a snapshot s and the        *)
(* classifications it carries to Layer-1 evidence.  The snapshot lists the *)
(* classifications newest first, and the rules read the end of the list,   *)
(* the oldest of those listed.                                             *)
(*                                                                         *)
(* Of a classification they get to see the bucket, the confidence and      *)
(* should_create_task; defer_until, due_at, the candidate and newsletter   *)
(* flags and the failure count they look up under keys the snapshot does   *)
(* not use, so DUE_DATE_UPDATE and WRITEBACK_FAILURE_THRESHOLD are never   *)
(* detected, and no rule's id speaks of confirming or of soft completion.  *)
(***************************************************************************)
EXTENDS Classifier

\* The N newest are listed.
Listed == 5

\* Mutant: nothing limits the list.
RememberAll(history, c) == <<c>> \o history

\* Mutant: once the list is full it stays as it is.
RememberFirst(history, c) ==
    IF Len(history) = Listed THEN history ELSE <<c>> \o history

Remember(history, c) ==
    SubSeq(<<c>> \o history, 1,
           IF Len(history) < Listed THEN Len(history) + 1 ELSE Listed)

LatestIs(history, bucket) ==
    history # <<>> /\ history[Len(history)].bucket = bucket
LatestCreates(history) ==
    history # <<>> /\ history[Len(history)].create

-----------------------------------------------------------------------------
\* Mutant: an ask need not be authorized.
NewDeliverableFiled(s, history) ==
    \/ LatestIs(history, "Act")
    \/ /\ LatestInboundHas(s, "verb")
       /\ Latest(Inbound(s)).to \in {"TO", "CC"}
    \/ LatestInboundHas(s, "asks") /\ history = <<>>

\* E01: an ask filed and authorized, an imperative, or an unclassified ask.
NewDeliverable(s, history) ==
    \/ LatestIs(history, "Act") /\ LatestCreates(history)
    \/ /\ LatestInboundHas(s, "verb")
       /\ Latest(Inbound(s)).to \in {"TO", "CC"}
    \/ LatestInboundHas(s, "asks") /\ history = <<>>

\* Mutant: once there is a classification the text is not looked at.
NewReplyFiled(s, history) ==
    \/ LatestIs(history, "Respond")
    \/ /\ history = <<>>
       /\ LatestInboundHas(s, "question") \/ LatestInboundHas(s, "rsvp")

\* E02.
NewReply(s, history) ==
    \/ LatestIs(history, "Respond")
    \/ LatestInboundHas(s, "question")
    \/ LatestInboundHas(s, "rsvp")

\* E03.
UserReplied(s, history) ==
    /\ UserSentLast(s) /\ ~Empty(Inbound(s))
    /\ ~LatestCreates(history)

\* E08.
BulkNoise(s, history) ==
    \/ LatestIs(history, "DeleteOrUnsubscribe")
    \/ LatestInboundHas(s, "unsubscribe")
    \/ LatestInboundHas(s, "bulkaddress")

\* E09.
FyiOnly(s, history) ==
    \/ LatestIs(history, "FYI")
    \/ /\ ~Empty(Inbound(s))
       /\ Latest(Inbound(s)).to = "CC"
       /\ ~LatestInboundHas(s, "question")
       /\ ~LatestInboundHas(s, "unsubscribe")

\* E10.
Handoff(s) == ~Empty(Outbound(s)) /\ "handoff" \in Latest(Outbound(s)).marks

SameTier(b, c) ==
    \/ {b, c} \subseteq {"Act", "Respond"}
    \/ {b, c} \subseteq {"FYI", "DeleteOrUnsubscribe"}

\* Mutant: what the gate holds back counts as well.
SignalConflictUnsure(history) ==
    LET first == IF Len(history) > 3 THEN Len(history) - 2 ELSE 1
    IN  \E i, j \in first..Len(history) :
            /\ history[i].conf >= Review /\ history[j].conf >= Review
            /\ history[i].bucket # history[j].bucket
            /\ SameTier(history[i].bucket, history[j].bucket)

\* E14: two of the last three of the list, both sure, disagree within a tier.
SignalConflict(history) ==
    LET first == IF Len(history) > 3 THEN Len(history) - 2 ELSE 1
    IN  \E i, j \in first..Len(history) :
            /\ history[i].conf >= Write /\ history[j].conf >= Write
            /\ history[i].bucket # history[j].bucket
            /\ SameTier(history[i].bucket, history[j].bucket)

\* lagging: the Sent Items cursor is before the latest mail received (E13).
\* The sweeper's timer (E07) needs a deferred_until, which nothing sets.
DetectEvidence(s, history, lagging) ==
    {e \in {"deliverable", "reply", "replied", "explicit", "soft", "defer",
            "bulk", "fyi", "handoff", "lag", "conflict"} :
        CASE e = "deliverable" -> NewDeliverable(s, history)
          [] e = "reply" -> NewReply(s, history)
          [] e = "replied" -> UserReplied(s, history)
          [] e = "explicit" -> LatestInboundHas(s, "resolution")
          [] e = "soft" -> LatestInboundHas(s, "soft")
          [] e = "defer" -> LatestInboundHas(s, "future")
          [] e = "bulk" -> BulkNoise(s, history)
          [] e = "fyi" -> FyiOnly(s, history)
          [] e = "handoff" -> Handoff(s)
          [] e = "lag" -> UserReplied(s, history) /\ lagging
          [] e = "conflict" -> SignalConflict(history)}

=============================================================================
