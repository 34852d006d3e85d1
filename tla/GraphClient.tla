---------------------------- MODULE GraphClient ----------------------------
(***************************************************************************)
(* GraphClient.request (graph/client.py): one HTTP call to Microsoft       *)
(* Graph, with its bearer token (graph/auth.py), its retries and the one   *)
(* token refresh.  What the server does to its data when it answers is the *)
(* composing module's.                                                     *)
(***************************************************************************)
EXTENDS Naturals

CONSTANTS MaxAttempts    \* _MAX_ATTEMPTS

ASSUME AttemptsAssumption == MaxAttempts \in Nat \ {0}

VARIABLES
    call,     \* the call in progress, or the last one
    token     \* what the token cache holds
clientVars == <<call, token>>

Methods == {"GET", "PATCH"}

\* live: accepted; rejected: the cache still takes it for valid, Graph does
\* not; expired: the cache knows; none: no account.
Tokens == {"live", "rejected", "expired", "none"}

\* lost: no answer (httpx.HTTPError), or a status of _RETRY_STATUSES;
\* unauthorized 401, missing 404, mismatch 412, refused any other error.
Answers == {"ok", "lost", "unauthorized", "missing", "mismatch", "refused"}
Outcomes == {"pending", "answer", "null", "mismatch", "error"}

\* fresh: the refresh of this call got a new token, not yet sent.
Calls == [phase : {"idle", "token", "exchange", "refresh", "backoff", "done"},
          method : Methods, attempt : 1..MaxAttempts, refreshed : BOOLEAN,
          outcome : Outcomes, fresh : BOOLEAN]

Idle == [phase |-> "idle", method |-> "GET", attempt |-> 1,
         refreshed |-> FALSE, outcome |-> "pending", fresh |-> FALSE]

ClientTypeOK == call \in Calls /\ token \in Tokens
ClientInit == call = Idle /\ token = "live"

Start(method) == [Idle EXCEPT !.phase = "token", !.method = method]

\* The call as it is when it ends.
Ended(outcome) == [call EXCEPT !.phase = "done", !.outcome = outcome]

\* Mutant: one attempt too many.
NextAttemptUnbounded ==
    [call EXCEPT !.phase = "token", !.attempt = @ + 1]

\* Mutant: gives up before the last attempt.
NextAttemptEarly ==
    IF call.attempt + 1 >= MaxAttempts
    THEN Ended("error")
    ELSE [call EXCEPT !.phase = "token", !.attempt = @ + 1]

\* The for loop goes round; after the last attempt it falls through to the
\* 599 error.
NextAttempt ==
    IF call.attempt = MaxAttempts
    THEN Ended("error")
    ELSE [call EXCEPT !.phase = "token", !.attempt = @ + 1]

-----------------------------------------------------------------------------
(* _acquire_silent answers from the cache while the cached token has time  *)
(* left, rejected or not, and turns to the refresh token only after that.  *)
Acquired == IF token = "expired" THEN {"live", "none"} ELSE {token}

\* The request goes out with a token, or GraphAuthError ends the call.
GetToken ==
    /\ call.phase = "token"
    /\ \E t \in Acquired :
          IF t = "none"
          THEN /\ call' = [Ended("error") EXCEPT !.fresh = FALSE]
               /\ UNCHANGED token
          ELSE /\ token' = t
               /\ call' = [call EXCEPT !.phase = "exchange", !.fresh = FALSE]

\* 401, once per call: refresh_if_needed, and the loop goes round.
Refresh ==
    /\ call.phase = "refresh"
    /\ \E t \in Acquired :
          IF t = "none"
          THEN call' = Ended("error") /\ UNCHANGED token
          ELSE /\ token' = t
               /\ call' = [NextAttempt EXCEPT !.fresh = (t # token)]

\* asyncio.sleep(_compute_backoff(...)) is over.
Wake ==
    call.phase = "backoff" /\ call' = NextAttempt /\ UNCHANGED token

\* Graph checks the token before anything else; the network or a proxy may
\* fail whatever the token.
Answerable(a) ==
    CASE a = "unauthorized" -> token # "live"
      [] a = "lost" -> TRUE
      [] OTHER -> token = "live"

\* One exchange answered with a.
Reply(a) ==
    /\ call.phase = "exchange" /\ Answerable(a) /\ UNCHANGED token
    /\ \/ /\ a = "lost" /\ call.attempt < MaxAttempts
          /\ call' = [call EXCEPT !.phase = "backoff"]
       \/ /\ a = "lost" /\ call.attempt = MaxAttempts
          /\ call' = Ended("error")
       \/ /\ a = "unauthorized" /\ ~call.refreshed
          /\ call' = [call EXCEPT !.phase = "refresh", !.refreshed = TRUE]
       \/ /\ a = "unauthorized" /\ call.refreshed
          /\ call' = Ended("error")
       \/ /\ a = "missing"
          /\ call' = Ended(IF call.method = "GET" THEN "null" ELSE "error")
       \/ a = "mismatch" /\ call' = Ended("mismatch")
       \/ a = "refused" /\ call' = Ended("error")
       \/ a = "ok" /\ call' = Ended("answer")

\* The token between calls and under them: it runs out, Graph stops
\* accepting it, or somebody completes the device flow.
TokenChanges ==
    /\ UNCHANGED call
    /\ \/ token \in {"live", "rejected"} /\ token' = "expired"
       \/ token = "live" /\ token' = "rejected"
       \/ token # "live" /\ token' = "live"

ClientStep == GetToken \/ Refresh \/ Wake

-----------------------------------------------------------------------------
\* A call gives up on a token that its own refresh replaced only when the 401
\* had used up the last attempt (client.py, the `continue` after the 401).
FreshTokenIsTried ==
    call.phase = "done" /\ call.fresh =>
        call.attempt = MaxAttempts /\ call.outcome = "error"

=============================================================================
