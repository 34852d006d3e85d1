----------------------------- MODULE Classifier -----------------------------
(***************************************************************************)
(* The rules-only classifier (classify/): Stage A, Stage C and the gate,   *)
(* without the due date and the wording of the reasons, which nothing      *)
(* after it reads.  Confidences are in hundredths.                         *)
(***************************************************************************)
EXTENDS Snapshot

Write == 75
Review == 50
Confidences == {0, 60, 70, 80, 90, 95}

Filed == {"Act", "Respond", "WaitingOn", "FYI", "DeleteOrUnsubscribe", "null"}

Classifications ==
    [bucket : Filed, conf : Confidences, create : BOOLEAN,
     review : {"none", "below_write_threshold", "below_review_threshold"}]

Unfiled == [bucket |-> "null", conf |-> 0]

AtLeast(conf, floor) == IF conf < floor THEN floor ELSE conf

\* A rule that fires files the thread and may raise the confidence.
Filing(r, bucket, conf) ==
    [r EXCEPT !.bucket = bucket, !.conf = AtLeast(@, conf)]
File(r, fires, bucket, conf) == IF fires THEN Filing(r, bucket, conf) ELSE r

-----------------------------------------------------------------------------
(* Stage A: each rule sees what those before it have filed.                *)

MachineRules(marks) ==
    LET noreply == File(Unfiled, "noreply" \in marks, "FYI", 95)
        listed == File(noreply,
            "unsubscribe" \in marks /\ noreply.bucket \in {"null", "FYI"},
            "DeleteOrUnsubscribe", 90)
        bulk == File(listed,
            "bulkname" \in marks /\ listed.bucket = "null",
            "DeleteOrUnsubscribe", 80)
        accepted == File(bulk, "accepted" \in marks, "FYI", 90)
    IN  File(accepted,
            "automation" \in marks /\ accepted.bucket = "null", "FYI", 70)

Unsure(r, conf) == r.bucket = "null" \/ r.conf < conf

AsksUser(mail) == "ends_q" \in mail.marks /\ mail.to = "TO"

\* Mutant: an ask is filed as one whatever machine sent it.
AskRulesAlways(r, mail) ==
    LET question == File(r, AsksUser(mail), "Respond", 70)
    IN  File(question, "please" \in mail.marks /\ Unsure(question, 70),
             "Act", 70)

AskRules(r, mail) ==
    LET question == File(r, AsksUser(mail) /\ Unsure(r, 70), "Respond", 70)
    IN  File(question, "please" \in mail.marks /\ Unsure(question, 70),
             "Act", 70)

ThreadRules(r, mail, userLast) ==
    LET sent == File(r, userLast /\ r.bucket \in {"null", "Respond"},
                     "WaitingOn", 70)
        copied == File(sent,
            /\ mail.to = "CC" /\ sent.bucket = "null"
            /\ ~AsksUser(mail) /\ "please" \notin mail.marks, "FYI", 60)
    IN  File(copied, "invite" \in mail.marks /\ Unsure(copied, 60),
             "Respond", 60)

StageA(s) ==
    IF Empty(Inbound(s))
    THEN File(Unfiled, UserSentLast(s), "WaitingOn", 70)
    ELSE LET mail == Latest(Inbound(s))
         IN  ThreadRules(AskRules(MachineRules(mail.marks), mail), mail,
                         UserSentLast(s))

\* Mutant: the seed asks for less than the gate will.
ProvisionalEager(r) ==
    [bucket |-> r.bucket, conf |-> r.conf,
     create |-> r.bucket \in {"Act", "Respond"} /\ r.conf >= 70]

\* should_create_task is seeded on a sure and actionable bucket.
Provisional(r) ==
    [bucket |-> r.bucket, conf |-> r.conf,
     create |-> r.bucket \in {"Act", "Respond"} /\ r.conf >= Write]

-----------------------------------------------------------------------------
(* Stage C, each override on top of the ones before it.                    *)

Overriding(o, bucket, conf) == [Filing(o, bucket, conf) EXCEPT !.create = FALSE]
Override(o, fires, bucket, conf) ==
    IF fires THEN Overriding(o, bucket, conf) ELSE o

MachineOverrides(p, marks) ==
    LET noreply == Override(p, "noreply" \in marks,
            IF "unsubscribe" \in marks THEN "DeleteOrUnsubscribe" ELSE "FYI",
            95)
        listed == Override(noreply,
            "unsubscribe" \in marks /\ "ends_q" \notin marks,
            "DeleteOrUnsubscribe", 90)
        accepted == Override(listed, "accepted" \in marks, "FYI", 90)
    IN  Override(accepted, "blocked" \in marks, "DeleteOrUnsubscribe", 95)

\* An important sender gets an actionable bucket back, or more confidence.
VipOverride(o, p, marks) ==
    LET downgraded == /\ o.bucket \in {"FYI", "DeleteOrUnsubscribe"}
                      /\ p.bucket \in {"Act", "Respond", "WaitingOn"}
    IN  File(o, "vip" \in marks /\ (downgraded \/ o.conf < 80),
             IF downgraded THEN p.bucket ELSE o.bucket, 80)

StageC(p, s) ==
    IF Empty(Inbound(s)) THEN p
    ELSE LET marks == Latest(Inbound(s)).marks
             o == VipOverride(MachineOverrides(p, marks), p, marks)
         IN  Override(o, o.bucket = "Respond" /\ UserSentLast(s),
                   "WaitingOn", 70)

\* Mutant: what the rules call fairly sure passes.
ReviewReasonLax(conf) ==
    CASE conf >= 70 -> "none"
      [] conf < 70 /\ conf >= Review -> "below_write_threshold"
      [] conf < Review -> "below_review_threshold"

ReviewReason(conf) ==
    CASE conf >= Write -> "none"
      [] conf < Write /\ conf >= Review -> "below_write_threshold"
      [] conf < Review -> "below_review_threshold"

\* Below the write threshold nothing is authorized.
Gate(o) ==
    [bucket |-> o.bucket, conf |-> o.conf,
     create |-> o.create /\ o.conf >= Write, review |-> ReviewReason(o.conf)]

Classify(s) == Gate(StageC(Provisional(StageA(s)), s))

=============================================================================
