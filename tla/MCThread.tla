------------------------------ MODULE MCThread ------------------------------
(***************************************************************************)
(* The mails TLC tries: the kinds the rules tell apart, and mixtures that  *)
(* set them against each other.                                            *)
(***************************************************************************)
EXTENDS Thread

From(user, to, marks) ==
    [user |-> user, to |-> to, marks |-> marks, seen |-> FALSE]

Question == {"ends_q", "asks", "question"}

MCMails ==
    {From(TRUE, "NONE", {}), From(TRUE, "NONE", {"handoff"}),
     From(FALSE, "CC", {})}
      \cup {From(FALSE, "TO", marks) : marks \in {
              {}, Question, {"please", "verb"}, {"resolution"}, {"future"},
              {"invite"}, {"vip"} \cup Question, {"vip", "please", "verb"},
              {"unsubscribe", "bulkname"} \cup Question,
              {"noreply", "bulkaddress"}, {"bulkaddress"},
              {"automation", "verb"}, {"resolution"} \cup Question,
              {"accepted", "rsvp", "blocked"}}}

=============================================================================
