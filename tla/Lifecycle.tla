----------------------------- MODULE Lifecycle ------------------------------
(***************************************************************************)
(* What the transition matrix promises about a conversation's state and    *)
(* bucket, whatever evidence arrives and in which order: an abstract       *)
(* specification.  The pipeline, with its locks, snapshots, failed calls   *)
(* and crashes, is shown to implement it, and so is a thread with its      *)
(* mails, rules and classifications.                                       *)
(***************************************************************************)
VARIABLES state, bucket
vars == <<state, bucket>>

Become(s, b) == state' = s /\ bucket' = b

Init == state = "none" /\ bucket = "null"

\* A new inbound ask opens the thread for its own kind of answer.  Known noise
\* is not reopened: it is sent to review, under the bucket the ask suggests.
Ask == \E k \in {<<"act_open", "Act">>, <<"respond_open", "Respond">>} :
          IF state = "noise_transient" THEN Become("needs_review", k[2])
          ELSE state # "needs_review" /\ Become(k[1], k[2])

\* The ball is in the other court after the user answers, or hands over.
Await == /\ state \in {"none", "act_open", "respond_open", "delegate_open"}
         /\ Become("waiting_on", "WaitingOn")

Defer == /\ state \in {"none", "act_open", "respond_open", "delegate_open"}
         /\ Become("deferred", "Defer")

\* A resolution ends an open thread, and the bucket remembers what it was.
Resolve == /\ state \in {"act_open", "respond_open", "delegate_open",
                         "deferred", "waiting_on"}
           /\ Become("done", bucket)

\* Only a thread nobody acted on is filed away.
File == /\ state = "none"
        /\ \/ Become("fyi_context", "FYI")
           \/ Become("noise_transient", "DeleteOrUnsubscribe")

Archive == state = "done" /\ Become("none", "null")

\* A review can be raised at any time, and keeps the bucket.
Raise == Become("needs_review", bucket)

Next == Ask \/ Await \/ Defer \/ Resolve \/ File \/ Archive \/ Raise

Spec == Init /\ [][Next]_vars
=============================================================================
