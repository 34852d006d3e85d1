------------------------------ MODULE Snapshot ------------------------------
(***************************************************************************)
(* What build_snapshot (ingestion/snapshot_builder.py) shows the           *)
(* classifier and the evidence rules of a thread.  A mail is its marks:    *)
(* for every pattern, header or list the rules look for, whether it is     *)
(* there.                                                                  *)
(***************************************************************************)
EXTENDS Naturals, Sequences, FiniteSetsExt

\* By its sender: no-reply addresses; the bulk names Stage A knows; the bulk
\* addresses E08 knows; an automation domain with one of its phrases.
SenderMarks == {"noreply", "bulkname", "bulkaddress", "automation"}

\* On the user's own lists.
ListMarks == {"vip", "blocked"}

\* By its headers and its subject.
HeaderMarks == {"unsubscribe", "invite", "accepted"}

\* What Stage A looks for in the body: an imperative; a question at the end.
AskMarks == {"please", "ends_q"}

\* What the evidence rules look for in subject and body.
TextMarks == {"resolution", "soft", "future", "verb", "question", "handoff",
              "rsvp"}

\* A sentence of the body ends in a question mark (unresolved_asks).
AskingMarks == {"asks"}

Marks == SenderMarks \cup ListMarks \cup HeaderMarks \cup AskMarks
           \cup TextMarks \cup AskingMarks

\* Where the user stands among the recipients.
Positions == {"TO", "CC", "NONE"}

\* seen: the message has been synced and is not deleted.
Mail == [user : BOOLEAN, marks : SUBSET Marks, to : Positions, seen : BOOLEAN]

\* The patterns overlap: a question mark is a question, an accepted meeting is
\* an rsvp.
Coherent(mail) ==
    /\ mail.marks \cap {"ends_q", "asks"} # {} => "question" \in mail.marks
    /\ "accepted" \in mail.marks => "rsvp" \in mail.marks

-----------------------------------------------------------------------------
(* A snapshot is the mails seen, each at its place in the order of         *)
(* received_at.                                                            *)

Seen(mails) == RestrictValues(mails, LAMBDA mail : mail.seen)

Inbound(s) == RestrictValues(s, LAMBDA mail : ~mail.user)
Outbound(s) == RestrictValues(s, LAMBDA mail : mail.user)
Empty(s) == DOMAIN s = {}
Latest(s) == s[Max(DOMAIN s)]

\* user_sent_last.
UserSentLast(s) == ~Empty(s) /\ Latest(s).user

LatestInboundHas(s, mark) ==
    ~Empty(Inbound(s)) /\ mark \in Latest(Inbound(s)).marks

=============================================================================
