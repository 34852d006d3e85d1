---------------------------- MODULE Thread_proofs ----------------------------
(***************************************************************************)
(* What the rules-only classifier makes of any thread, whatever its mail.  *)
(***************************************************************************)
EXTENDS Thread, SequenceTheorems, TLAPS

Ratings == [bucket : Filed, conf : Confidences]
Opinions == [bucket : Filed, conf : Confidences, create : BOOLEAN]

LEMMA AtLeastRates ==
  ASSUME NEW c \in Confidences, NEW floor \in Confidences
  PROVE  /\ AtLeast(c, floor) \in Confidences
         /\ AtLeast(c, floor) >= floor /\ AtLeast(c, floor) >= c
         /\ c <= floor => AtLeast(c, floor) = floor
  BY DEF AtLeast, Confidences

\* A rule that fires files the thread; the confidence is raised to conf.
LEMMA FilingRates ==
  ASSUME NEW r \in Ratings, NEW bucket \in Filed, NEW conf \in Confidences
  PROVE  /\ Filing(r, bucket, conf) \in Ratings
         /\ Filing(r, bucket, conf).bucket = bucket
         /\ Filing(r, bucket, conf).conf = AtLeast(r.conf, conf)
<1>1. AtLeast(r.conf, conf) \in Confidences
  BY AtLeastRates DEF Ratings
<1>2. QED
  BY <1>1 DEF Filing, Ratings

-----------------------------------------------------------------------------
(* Stage A is modest: what it files as an ask it is not sure of.           *)

Modest(r) ==
    r \in Ratings /\ (r.bucket \in {"Act", "Respond", "null"} => r.conf <= 70)

LEMMA FilingModest ==
  ASSUME NEW r, Modest(r), NEW bucket \in Filed \ {"null"},
         NEW conf \in Confidences,
         \/ bucket \notin {"Act", "Respond"}
         \/ conf <= 70 /\ (r.bucket = "null" \/ r.conf < 70)
  PROVE  Modest(Filing(r, bucket, conf))
<1>1. /\ Filing(r, bucket, conf) \in Ratings
      /\ Filing(r, bucket, conf).bucket = bucket
      /\ Filing(r, bucket, conf).conf = AtLeast(r.conf, conf)
  BY FilingRates DEF Modest
<1>2. r.conf \in Confidences /\ (r.bucket = "null" => r.conf <= 70)
  BY DEF Modest, Ratings
<1>3. conf <= 70 /\ (r.bucket = "null" \/ r.conf < 70)
         => AtLeast(r.conf, conf) <= 70
  BY <1>2 DEF AtLeast, Confidences
<1>4. QED
  BY <1>1, <1>3 DEF Modest

LEMMA UnfiledModest == Modest(Unfiled)
  BY DEF Modest, Unfiled, Ratings, Filed, Confidences

LEMMA RuleConstants ==
  /\ {"FYI", "DeleteOrUnsubscribe", "WaitingOn"}
        \subseteq Filed \ {"null", "Act", "Respond"}
  /\ {"Act", "Respond"} \subseteq Filed \ {"null"}
  /\ {95, 90, 80, 70, 60, 0} \subseteq Confidences
  /\ \A c \in Confidences : c \in Nat
  BY DEF Filed, Confidences

LEMMA MachineRulesModest == ASSUME NEW marks PROVE Modest(MachineRules(marks))
<1> DEFINE noreply == File(Unfiled, "noreply" \in marks, "FYI", 95)
           listed == File(noreply,
               "unsubscribe" \in marks /\ noreply.bucket \in {"null", "FYI"},
               "DeleteOrUnsubscribe", 90)
           bulk == File(listed,
               "bulkname" \in marks /\ listed.bucket = "null",
               "DeleteOrUnsubscribe", 80)
           accepted == File(bulk, "accepted" \in marks, "FYI", 90)
<1>2. Modest(noreply)
  BY RuleConstants, UnfiledModest, FilingModest DEF File
<1>3. Modest(listed)
  BY RuleConstants, <1>2, FilingModest DEF File
<1>4. Modest(bulk)
  BY RuleConstants, <1>3, FilingModest DEF File
<1>5. Modest(accepted)
  BY RuleConstants, <1>4, FilingModest DEF File
<1>6. Modest(File(accepted, "automation" \in marks /\ accepted.bucket = "null",
                  "FYI", 70))
  BY RuleConstants, <1>5, FilingModest DEF File
<1>7. QED
  BY <1>6 DEF MachineRules, noreply, listed, bulk, accepted

LEMMA AskRulesModest ==
  ASSUME NEW r, Modest(r), NEW mail PROVE Modest(AskRules(r, mail))
<1> DEFINE question == File(r, AsksUser(mail) /\ Unsure(r, 70), "Respond", 70)
<1>1. Modest(question)
  BY RuleConstants, FilingModest DEF File, Unsure
<1>2. Modest(File(question, "please" \in mail.marks /\ Unsure(question, 70),
                  "Act", 70))
  BY RuleConstants, <1>1, FilingModest DEF File, Unsure
<1>3. QED
  BY <1>2 DEF AskRules, question

LEMMA ThreadRulesModest ==
  ASSUME NEW r, Modest(r), NEW mail, NEW userLast
  PROVE  Modest(ThreadRules(r, mail, userLast))
<1> DEFINE sent == File(r, userLast /\ r.bucket \in {"null", "Respond"},
                        "WaitingOn", 70)
           copied == File(sent,
               /\ mail.to = "CC" /\ sent.bucket = "null"
               /\ ~AsksUser(mail) /\ "please" \notin mail.marks, "FYI", 60)
<1>1. Modest(sent)
  BY RuleConstants, FilingModest DEF File
<1>2. Modest(copied)
  BY RuleConstants, <1>1, FilingModest DEF File
<1> HIDE DEF copied
<1>3. Unsure(copied, 60) => copied.bucket = "null" \/ copied.conf < 70
  BY <1>2 DEF Unsure, Modest, Ratings, Confidences
<1>4. Modest(File(copied, "invite" \in mail.marks /\ Unsure(copied, 60),
                  "Respond", 60))
  BY RuleConstants, <1>2, <1>3, FilingModest DEF File
<1>5. QED
  BY <1>4 DEF ThreadRules, sent, copied

LEMMA StageAModest == ASSUME NEW s PROVE Modest(StageA(s))
<1>1. Modest(File(Unfiled, UserSentLast(s), "WaitingOn", 70))
  BY RuleConstants, UnfiledModest, FilingModest DEF File
<1>2. QED
  BY <1>1, MachineRulesModest, AskRulesModest, ThreadRulesModest DEF StageA

-----------------------------------------------------------------------------
(* Stage C and the gate authorize nothing.                                 *)

Idle(o) == o \in Opinions /\ o.create = FALSE

LEMMA FilingIdle ==
  ASSUME NEW o, Idle(o), NEW bucket \in Filed, NEW conf \in Confidences
  PROVE  Idle(Filing(o, bucket, conf)) /\ Idle(Overriding(o, bucket, conf))
<1>1. AtLeast(o.conf, conf) \in Confidences
  BY AtLeastRates DEF Opinions, Idle
<1>2. QED
  BY <1>1 DEF Filing, Overriding, Opinions, Idle

LEMMA ProvisionalIdle == ASSUME NEW r, Modest(r) PROVE Idle(Provisional(r))
<1>1. ~(r.bucket \in {"Act", "Respond"} /\ r.conf >= Write)
  BY DEF Modest, Ratings, Confidences, Write
<1>2. QED
  BY <1>1 DEF Provisional, Idle, Opinions, Modest, Ratings

LEMMA OverridesIdle ==
  ASSUME NEW p, Idle(p), NEW marks
  PROVE  /\ Idle(MachineOverrides(p, marks))
         /\ \A o : Idle(o) => Idle(VipOverride(o, p, marks))
<1> DEFINE noreply == Override(p, "noreply" \in marks,
               IF "unsubscribe" \in marks THEN "DeleteOrUnsubscribe" ELSE "FYI",
               95)
           listed == Override(noreply,
               "unsubscribe" \in marks /\ "ends_q" \notin marks,
               "DeleteOrUnsubscribe", 90)
           accepted == Override(listed, "accepted" \in marks, "FYI", 90)
<1>1. Idle(noreply)
  BY RuleConstants, FilingIdle DEF Override
<1>2. Idle(listed)
  BY RuleConstants, <1>1, FilingIdle DEF Override
<1>3. Idle(accepted)
  BY RuleConstants, <1>2, FilingIdle DEF Override
<1> HIDE DEF accepted
<1>4. Idle(Override(accepted, "blocked" \in marks, "DeleteOrUnsubscribe", 95))
  BY RuleConstants, <1>3, FilingIdle DEF Override
<1>5. ASSUME NEW o, Idle(o) PROVE Idle(VipOverride(o, p, marks))
  <2>1. o.bucket \in Filed /\ p.bucket \in Filed
    BY <1>5 DEF Idle, Opinions
  <2>2. /\ Idle(Filing(o, p.bucket, 80)) /\ Idle(Filing(o, o.bucket, 80))
    BY RuleConstants, <1>5, <2>1, FilingIdle
  <2>3. QED
    BY <1>5, <2>2 DEF VipOverride, File
<1>6. QED
  BY <1>4, <1>5 DEF MachineOverrides, noreply, listed, accepted

LEMMA StageCIdle ==
  ASSUME NEW p, Idle(p), NEW s PROVE Idle(StageC(p, s))
<1> DEFINE marks == Latest(Inbound(s)).marks
           o == VipOverride(MachineOverrides(p, marks), p, marks)
<1>1. Idle(o)
  BY OverridesIdle
<1>2. Idle(Override(o, o.bucket = "Respond" /\ UserSentLast(s), "WaitingOn", 70))
  BY RuleConstants, <1>1, FilingIdle DEF Override
<1>3. QED
  BY <1>2 DEF StageC, o, marks

LEMMA GateIdle ==
  ASSUME NEW o, Idle(o)
  PROVE  Gate(o) \in Classifications /\ ~Gate(o).create
<1>1. ReviewReason(o.conf)
         \in {"none", "below_write_threshold", "below_review_threshold"}
  BY DEF ReviewReason, Idle, Opinions, Confidences, Write, Review
<1>2. QED
  BY <1>1 DEF Gate, Classifications, Idle, Opinions

\* The rules alone authorize a task for no thread whatever.
THEOREM ClassifyAuthorizesNothing ==
  ASSUME NEW s
  PROVE  Classify(s) \in Classifications /\ ~Classify(s).create
BY StageAModest, ProvisionalIdle, StageCIdle, GateIdle DEF Classify

-----------------------------------------------------------------------------
(* Mail of a machine: once filed surely, it stays filed.                   *)

Shelf == {"FYI", "DeleteOrUnsubscribe"}
Shelved(r) == r \in Ratings /\ r.bucket \in Shelf /\ r.conf >= 90
Silenced(o) == o \in Opinions /\ o.bucket \in Shelf /\ o.conf >= 90

LEMMA FilingShelved ==
  ASSUME NEW r \in Ratings, NEW bucket \in Shelf, NEW conf \in Confidences,
         r.conf >= 90 \/ conf >= 90
  PROVE  Shelved(Filing(r, bucket, conf))
<1>1. AtLeast(r.conf, conf) >= 90
  BY DEF AtLeast, Ratings, Confidences
<1>2. bucket \in Filed
  BY DEF Shelf, Filed
<1>3. QED
  BY <1>1, <1>2, FilingRates DEF Shelved

LEMMA MachineRulesShelve ==
  ASSUME NEW marks, "noreply" \in marks \/ "unsubscribe" \in marks
  PROVE  Shelved(MachineRules(marks))
<1> DEFINE noreply == File(Unfiled, "noreply" \in marks, "FYI", 95)
           listed == File(noreply,
               "unsubscribe" \in marks /\ noreply.bucket \in {"null", "FYI"},
               "DeleteOrUnsubscribe", 90)
           bulk == File(listed,
               "bulkname" \in marks /\ listed.bucket = "null",
               "DeleteOrUnsubscribe", 80)
           accepted == File(bulk, "accepted" \in marks, "FYI", 90)
<1>1. Shelf \subseteq Filed \ {"null"} /\ "FYI" \in Shelf
      /\ "DeleteOrUnsubscribe" \in Shelf /\ 95 >= 90 /\ 90 >= 90
  BY DEF Filed, Shelf
<1>2. Unfiled \in Ratings /\ Unfiled.bucket = "null"
  BY DEF Unfiled, Ratings, Filed, Confidences
<1>3. IF "noreply" \in marks THEN Shelved(noreply) ELSE noreply = Unfiled
  BY RuleConstants, <1>1, <1>2, FilingShelved DEF File
<1> HIDE DEF noreply
<1>4. Shelved(listed)
  <2>1. CASE "unsubscribe" \in marks /\ noreply.bucket \in {"null", "FYI"}
    <3>1. noreply \in Ratings
      BY <1>2, <1>3 DEF Shelved
    <3>2. QED
      BY RuleConstants, <1>1, <2>1, <3>1, FilingShelved DEF File
  <2>2. CASE ~("unsubscribe" \in marks /\ noreply.bucket \in {"null", "FYI"})
    <3>1. Shelved(noreply)
      BY <1>2, <1>3, <2>2
    <3>2. QED
      BY <2>2, <3>1 DEF File
  <2>3. QED
    BY <2>1, <2>2
<1> HIDE DEF listed
<1>5. Shelved(bulk)
  BY <1>1, <1>4 DEF File, Shelved
<1> HIDE DEF bulk
<1>6. Shelved(accepted)
  BY RuleConstants, <1>1, <1>5, FilingShelved DEF File, Shelved
<1> HIDE DEF accepted
<1>7. File(accepted, "automation" \in marks /\ accepted.bucket = "null",
           "FYI", 70) = accepted
  BY <1>1, <1>6 DEF File, Shelved
<1>8. QED
  BY <1>6, <1>7 DEF MachineRules, noreply, listed, bulk, accepted

\* The rules about asks and about the thread pass over what is shelved.
LEMMA ShelvedStays ==
  ASSUME NEW r, Shelved(r), NEW mail, NEW userLast
  PROVE  ThreadRules(AskRules(r, mail), mail, userLast) = r
<1>1. ~Unsure(r, 70) /\ ~Unsure(r, 60) /\ r.bucket \notin {"null", "Respond"}
  BY DEF Shelved, Shelf, Unsure, Ratings, Confidences
<1>2. AskRules(r, mail) = r
  BY <1>1 DEF AskRules, File
<1>3. QED
  BY <1>1, <1>2 DEF ThreadRules, File

LEMMA OverridingSilences ==
  ASSUME NEW o, Silenced(o), NEW bucket \in Shelf, NEW conf \in Confidences
  PROVE  Silenced(Overriding(o, bucket, conf))
<1>1. AtLeast(o.conf, conf) \in Confidences /\ AtLeast(o.conf, conf) >= 90
  BY DEF AtLeast, Silenced, Opinions, Confidences
<1>2. bucket \in Filed
  BY DEF Shelf, Filed
<1>3. QED
  BY <1>1, <1>2 DEF Overriding, Filing, Silenced, Opinions

LEMMA OverridesSilenced ==
  ASSUME NEW p, Silenced(p), NEW marks
  PROVE  LET o == MachineOverrides(p, marks)
         IN  Silenced(o) /\ VipOverride(o, p, marks) = o
<1> DEFINE noreply == Override(p, "noreply" \in marks,
               IF "unsubscribe" \in marks THEN "DeleteOrUnsubscribe" ELSE "FYI",
               95)
           listed == Override(noreply,
               "unsubscribe" \in marks /\ "ends_q" \notin marks,
               "DeleteOrUnsubscribe", 90)
           accepted == Override(listed, "accepted" \in marks, "FYI", 90)
<1>1. "FYI" \in Shelf /\ "DeleteOrUnsubscribe" \in Shelf
  BY DEF Shelf
<1>2. Silenced(noreply)
  BY RuleConstants, <1>1, OverridingSilences DEF Override
<1> HIDE DEF noreply
<1>3. Silenced(listed)
  BY RuleConstants, <1>1, <1>2, OverridingSilences DEF Override
<1> HIDE DEF listed
<1>4. Silenced(accepted)
  BY RuleConstants, <1>1, <1>3, OverridingSilences DEF Override
<1> HIDE DEF accepted
<1>5. Silenced(Override(accepted, "blocked" \in marks, "DeleteOrUnsubscribe",
                        95))
  BY RuleConstants, <1>1, <1>4, OverridingSilences DEF Override
<1>6. Silenced(MachineOverrides(p, marks))
  BY <1>5 DEF MachineOverrides, noreply, listed, accepted
<1>7. ASSUME NEW o, Silenced(o) PROVE VipOverride(o, p, marks) = o
  <2>1. /\ p.bucket \notin {"Act", "Respond", "WaitingOn"} /\ ~(o.conf < 80)
    BY <1>7 DEF Silenced, Shelf, Opinions, Confidences
  <2>2. QED
    BY <2>1 DEF VipOverride, File
<1>8. QED
  BY <1>6, <1>7

\* Whatever it says, whoever answered it and whoever is on the user's lists:
\* mail of a no-reply sender or a list is filed as FYI or noise and is not held
\* for review.
THEOREM MachineMailStaysFiled ==
  ASSUME NEW s, FromMachine(s)
  PROVE  Classify(s).bucket \in Shelf /\ Classify(s).review = "none"
<1> DEFINE mail == Latest(Inbound(s))
           p == Provisional(StageA(s))
           o == MachineOverrides(p, mail.marks)
<1>1. /\ ~Empty(Inbound(s))
      /\ "noreply" \in mail.marks \/ "unsubscribe" \in mail.marks
  BY DEF FromMachine, LatestInboundHas
<1>2. Shelved(StageA(s))
  BY <1>1, MachineRulesShelve, ShelvedStays DEF StageA
<1>3. Silenced(p)
  <2>1. \A r : Shelved(r) => Silenced(Provisional(r))
    BY DEF Shelved, Silenced, Provisional, Opinions, Ratings
  <2>2. QED
    BY <1>2, <2>1
<1> HIDE DEF p
<1>4. Silenced(o) /\ VipOverride(o, p, mail.marks) = o
  BY <1>3, OverridesSilenced
<1>5. StageC(p, s) = o
  <2>1. o.bucket # "Respond"
    BY <1>4 DEF Silenced, Shelf
  <2>2. QED
    BY <1>1, <1>4, <2>1 DEF StageC, Override
<1> HIDE DEF o
<1>6. Gate(o).bucket \in Shelf /\ Gate(o).review = "none"
  <2>1. o.conf \in Confidences /\ o.conf >= 90 /\ o.bucket \in Shelf
    BY <1>4 DEF Silenced, Opinions
  <2>2. ReviewReason(o.conf) = "none"
    BY <2>1 DEF Confidences, ReviewReason, Write, Review
  <2>3. QED
    BY <2>1, <2>2 DEF Gate
<1>7. QED
  BY <1>5, <1>6 DEF Classify, p

-----------------------------------------------------------------------------
(* The classifications of a thread, all made by Classify.                  *)

Holding == {c \in Classifications : ~c.create}

\* The newest classification comes first, the older ones that are still listed
\* behind it.
LEMMA RememberLists ==
  ASSUME NEW S, NEW h \in Seq(S), NEW c \in S
  PROVE  /\ Remember(h, c) \in Seq(S)
         /\ Remember(h, c) # <<>> /\ Remember(h, c)[1] = c
         /\ Len(h) <= Listed => Len(Remember(h, c)) <= Listed
<1> DEFINE all == <<c>> \o h
           n == IF Len(h) < Listed THEN Len(h) + 1 ELSE Listed
<1>1. <<c>> \in Seq(S) /\ Len(<<c>>) = 1 /\ <<c>>[1] = c
  OBVIOUS
<1>2. Len(h) \in Nat /\ Listed = 5
  BY LenProperties DEF Listed
<1>3. all \in Seq(S) /\ Len(all) = 1 + Len(h) /\ all[1] = c
  BY <1>1, <1>2, ConcatProperties
<1>4. n \in 1..Len(all) /\ n <= Listed
  BY <1>2, <1>3
<1> HIDE DEF all, n
<1>5. \A i \in 1..n : all[i] \in S
  BY <1>3, <1>4, ElementOfSeq
<1>6. /\ SubSeq(all, 1, n) \in Seq(S) /\ Len(SubSeq(all, 1, n)) = n
      /\ SubSeq(all, 1, n)[1] = all[1]
  BY <1>4, <1>5, SubSeqProperties
<1>7. SubSeq(all, 1, n) # <<>>
  BY <1>4, <1>6
<1>8. Remember(h, c) = SubSeq(all, 1, n)
  BY DEF Remember, all, n
<1>9. QED
  BY <1>3, <1>4, <1>6, <1>7, <1>8

\* Only a run changes the history.
LEMMA NextHolding ==
  ASSUME history \in Seq(Holding), [Next]_vars
  PROVE  history' \in Seq(Holding)
<1>1. CASE UNCHANGED history
  BY <1>1
<1>2. CASE Run
  <2>1. \A s : Classify(s) \in Holding
    BY ClassifyAuthorizesNothing DEF Holding
  <2>2. \A s : RunPipeline(s) => \/ UNCHANGED history
                                 \/ history' = Remember(history, Classify(s))
    BY DEF RunPipeline
  <2>3. QED
    BY <1>2, <2>1, <2>2, RememberLists DEF Run
<1>3. QED
  BY <1>1, <1>2 DEF Next, vars, Receive, SyncSent, StampSent, SyncInbox

\* Nothing the rules made of a thread ever authorizes a task.
THEOREM HistoriesAuthorizeNothing == Spec => []RulesAuthorizeNothing
<1>1. Init => history \in Seq(Holding)
  BY DEF Init
<1>2. history \in Seq(Holding) /\ [Next]_vars => (history \in Seq(Holding))'
  BY NextHolding
<1>3. history \in Seq(Holding) => RulesAuthorizeNothing
  <2> SUFFICES ASSUME history \in Seq(Holding), NEW i \in DOMAIN history
               PROVE  ~history[i].create
    BY DEF RulesAuthorizeNothing
  <2>1. history[i] \in Holding
    BY ElementOfSeq, LenProperties
  <2>2. QED
    BY <2>1 DEF Holding
<1>4. QED
  BY <1>1, <1>2, <1>3, PTL DEF Spec

=============================================================================
