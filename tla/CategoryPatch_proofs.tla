------------------------ MODULE CategoryPatch_proofs ------------------------
(***************************************************************************)
(* What holds of the category of a message for any labels, any number of   *)
(* edits, jobs, faults and attempts.                                       *)
(***************************************************************************)
EXTENDS CategoryPatch, FiniteSetTheorems, TLAPS

(* Types.                                                                  *)

LEMMA NoJobIsNone == \A j \in JobRecords : j # NoJob
<1>1. NoJob.step = "idle" /\ "idle" \notin Steps
  BY DEF NoJob, Steps
<1>2. QED
  BY <1>1 DEF JobRecords

LEMMA MergeType ==
  ASSUME NEW cats \in Categories, NEW intent \in Intents
  PROVE  Merge(cats, intent) \in Categories /\ User(cats) \in Categories
  BY DEF Merge, User, Categories, Intents

LEMMA NextAttemptType ==
  ASSUME call \in Calls
  PROVE  /\ NextAttempt \in Calls
         /\ NextAttempt.phase \in {"token", "done"}
         /\ NextAttempt.method = call.method
         /\ NextAttempt.refreshed = call.refreshed
         /\ NextAttempt.fresh = call.fresh
         /\ NextAttempt.phase = "token" => NextAttempt.outcome = call.outcome
         /\ NextAttempt.phase = "done" =>
               NextAttempt.outcome = "error" /\ NextAttempt.attempt = MaxAttempts
<1>1. CASE call.attempt = MaxAttempts
  BY <1>1 DEF NextAttempt, Ended, Calls, Outcomes
<1>2. CASE call.attempt # MaxAttempts
  <2>1. call.attempt + 1 \in 1..MaxAttempts
    BY <1>2, AttemptsAssumption DEF Calls
  <2>2. \A n \in 1..MaxAttempts :
           LET c == [call EXCEPT !.phase = "token", !.attempt = n]
           IN  /\ c \in Calls /\ c.phase = "token" /\ c.method = call.method
               /\ c.refreshed = call.refreshed /\ c.fresh = call.fresh
               /\ c.outcome = call.outcome
    BY DEF Calls
  <2>3. NextAttempt = [call EXCEPT !.phase = "token",
                                   !.attempt = call.attempt + 1]
    BY <1>2 DEF NextAttempt
  <2>4. QED
    BY <2>1, <2>2, <2>3
<1>3. QED
  BY <1>1, <1>2

LEMMA IdleType == Idle \in Calls
<1>1. 1 \in 1..MaxAttempts
  BY AttemptsAssumption
<1>2. QED
  BY <1>1 DEF Idle, Calls, Methods, Outcomes

LEMMA StartType ==
  ASSUME NEW method \in Methods
  PROVE  /\ Start(method) \in Calls /\ Start(method).method = method
         /\ Start(method).phase = "token" /\ Start(method).outcome = "pending"
         /\ ~Start(method).fresh
<1>1. Idle.outcome = "pending" /\ Idle.fresh = FALSE
  BY DEF Idle
<1>2. QED
  BY IdleType, <1>1 DEF Start, Calls

LEMMA InitType == Init => TypeOK
<1>1. \A n \in {0, 1} : [cats |-> {}, etag |-> n] \in Versions
  BY DEF Versions, Categories
<1>2. [cats |-> {}, etag |-> 1, there |-> TRUE]
         \in [cats : Categories, etag : Nat, there : BOOLEAN]
  BY DEF Categories
<1>3. QED
  BY IdleType, <1>1, <1>2
     DEF Init, TypeOK, ClientInit, ClientTypeOK, Tokens, NoCopy

-----------------------------------------------------------------------------
(* The calls.                                                              *)

\* A call that has not ended has no outcome; a fresh token is a token the next
\* attempt, if there is one, goes out with.
CallOK ==
    /\ call.phase # "done" => call.outcome = "pending"
    /\ call.fresh => call.phase \in {"token", "done"}
    /\ call.phase = "done" /\ call.fresh =>
          call.attempt = MaxAttempts /\ call.outcome = "error"

\* What a step of the client does to a call.
Steady == /\ call' \in Calls /\ token' \in Tokens /\ CallOK'
          /\ call'.method = call.method

LEMMA AcquiredType ==
  ASSUME token \in Tokens PROVE Acquired \subseteq Tokens
  BY DEF Acquired, Tokens

LEMMA EndedType ==
  ASSUME call \in Calls, NEW outcome \in Outcomes
  PROVE  /\ Ended(outcome) \in Calls /\ Ended(outcome).phase = "done"
         /\ Ended(outcome).outcome = outcome
         /\ Ended(outcome).method = call.method
         /\ Ended(outcome).fresh = call.fresh
         /\ Ended(outcome).attempt = call.attempt
  BY DEF Ended, Calls

NoAnswer == call'.outcome \in {"pending", "error"}

LEMMA ClientStepSteady ==
  ASSUME ClientTypeOK, CallOK, ClientStep PROVE Steady /\ NoAnswer
<1> USE DEF ClientTypeOK
<1>1. CASE GetToken
  <2>1. PICK t \in Acquired :
           IF t = "none"
           THEN /\ call' = [Ended("error") EXCEPT !.fresh = FALSE]
                /\ UNCHANGED token
           ELSE /\ token' = t
                /\ call' = [call EXCEPT !.phase = "exchange", !.fresh = FALSE]
    BY <1>1 DEF GetToken
  <2>2. CASE t = "none"
    BY <2>1, <2>2, EndedType DEF Steady, NoAnswer, CallOK, Calls, Outcomes
  <2>3. CASE t # "none"
    <3>1. token' \in Tokens
      BY <2>1, <2>3, AcquiredType
    <3>2. call.outcome = "pending"
      BY <1>1 DEF GetToken, CallOK
    <3>3. QED
      BY <2>1, <2>3, <3>1, <3>2 DEF Steady, NoAnswer, CallOK, Calls
  <2>4. QED
    BY <2>2, <2>3
<1>2. CASE Refresh
  <2>1. call.outcome = "pending" /\ ~call.fresh
    BY <1>2 DEF Refresh, CallOK
  <2>2. PICK t \in Acquired :
           IF t = "none"
           THEN call' = Ended("error") /\ UNCHANGED token
           ELSE /\ token' = t
                /\ call' = [NextAttempt EXCEPT !.fresh = (t # token)]
    BY <1>2 DEF Refresh
  <2>3. CASE t = "none"
    BY <2>1, <2>2, <2>3, EndedType DEF Steady, NoAnswer, CallOK, Outcomes
  <2>4. CASE t # "none"
    <3>1. token' \in Tokens
      BY <2>2, <2>4, AcquiredType
    <3>2. \A c \in Calls, b \in BOOLEAN :
             LET d == [c EXCEPT !.fresh = b]
             IN  /\ d \in Calls /\ d.phase = c.phase /\ d.method = c.method
                 /\ d.outcome = c.outcome /\ d.attempt = c.attempt
      BY DEF Calls
    <3>3. QED
      BY <2>1, <2>2, <2>4, <3>1, <3>2, NextAttemptType DEF Steady, NoAnswer, CallOK
  <2>5. QED
    BY <2>3, <2>4
<1>3. CASE Wake
  <2>1. call.outcome = "pending" /\ ~call.fresh
    BY <1>3 DEF Wake, CallOK
  <2>2. QED
    BY <1>3, <2>1, NextAttemptType DEF Wake, Steady, NoAnswer, CallOK
<1>4. QED
  BY <1>1, <1>2, <1>3 DEF ClientStep

LEMMA ReplySteady ==
  ASSUME ClientTypeOK, CallOK, NEW a \in Answers, Reply(a)
  PROVE  /\ Steady
         /\ call'.outcome = "answer" => a = "ok"
         /\ call'.outcome = "null" => a = "missing" /\ call.method = "GET"
<1> USE DEF ClientTypeOK
<1>1. call.outcome = "pending" /\ ~call.fresh /\ UNCHANGED token
  BY DEF Reply, CallOK
<1>2. \A c \in Calls : /\ [c EXCEPT !.phase = "backoff"] \in Calls
                       /\ [c EXCEPT !.phase = "refresh", !.refreshed = TRUE]
                             \in Calls
  BY DEF Calls
<1>3. CASE call' = [call EXCEPT !.phase = "backoff"]
  BY <1>1, <1>2, <1>3 DEF Steady, CallOK, Calls
<1>4. CASE call' = [call EXCEPT !.phase = "refresh", !.refreshed = TRUE]
  BY <1>1, <1>2, <1>4 DEF Steady, CallOK, Calls
<1>5. ASSUME NEW o \in Outcomes, call' = Ended(o) PROVE Steady
  BY <1>1, <1>5, EndedType DEF Steady, CallOK
<1>6. QED
  BY <1>1, <1>3, <1>4, <1>5, EndedType DEF Reply, Outcomes, Answers

-----------------------------------------------------------------------------
(* The invariant.                                                          *)

\* A job that writes is at a PATCH.
Writing == job.step \in {"guarded", "patch"}

\* What a job sends has its own label and no other.
JobOK ==
    job # NoJob =>
        /\ call.method = IF Writing THEN "PATCH" ELSE "GET"
        /\ job.new \cap Labels = Merge({}, job.intent)
        /\ job.body \cap Labels = Merge({}, job.intent)

\* A copy is no newer than the message, and as new only if it is the same.
Dated(copy, m, excused) ==
    /\ copy.etag <= m.etag
    /\ copy.etag = m.etag => excused \/ copy.cats = m.cats

CopiesOK ==
    /\ mail.etag > 0
    /\ Dated(page, mail, FALSE) /\ Dated(row, mail, torn)
    /\ loaded # Unread => Dated(loaded, mail, loaded.torn)
    /\ job # NoJob => /\ Dated(job.seen, mail, job.stale)
                      /\ Dated(job.got, mail, FALSE)
                      /\ job.etag <= mail.etag

\* What the merge was made from, step by step.
MergeOK ==
    job # NoJob =>
        /\ job.step = "guarded" =>
              job.body = job.new /\ User(job.new) = User(job.seen.cats)
        /\ job.step = "refetch" /\ call.outcome = "answer" => job.got # NoCopy
        /\ call.outcome = "null" => ~mail.there
        /\ job.step = "reread" =>
              /\ job.got # NoCopy => job.got.etag >= job.etag
              /\ job.etag = mail.etag /\ mail.there =>
                    User(job.new) = User(mail.cats)
        /\ job.step = "patch" /\ job.etag = mail.etag /\ mail.there =>
              User(job.body) = User(mail.cats)

\* An answered PATCH has put its label on a message newer than any copy.
WrittenOK ==
    job # NoJob /\ Writing /\ call.outcome = "answer" =>
        /\ mail.cats \cap Labels = Merge({}, job.intent)
        /\ job.etag < mail.etag /\ row.etag < mail.etag

Single(cats) == \A x, y \in cats \cap Labels : x = y

Inv == /\ TypeOK /\ CallOK /\ JobOK /\ CopiesOK /\ MergeOK /\ WrittenOK
       /\ Single(mail.cats)

LEMMA InitInv == Init => Inv
<1> SUFFICES ASSUME Init PROVE Inv
  OBVIOUS
<1>1. /\ mail.etag = 1 /\ mail.cats = {} /\ page.etag = 0 /\ call = Idle
      /\ row.etag \in {0, 1} /\ row.cats = {} /\ loaded = Unread
      /\ job = NoJob
  BY DEF Init, NoCopy, ClientInit
<1>2. CopiesOK
  BY <1>1 DEF CopiesOK, Dated
<1>3. CallOK
  BY <1>1 DEF CallOK, Idle
<1>4. QED
  BY <1>1, <1>2, <1>3, InitType
     DEF Inv, JobOK, MergeOK, WrittenOK, Single

-----------------------------------------------------------------------------
(* The world.                                                              *)

\* How the message changes.
LEMMA NextMail ==
  ASSUME TypeOK, NEW cats \in Categories
  PROVE  /\ LET m == [mail EXCEPT !.etag = @ + 1, !.cats = cats]
            IN  /\ m \in [cats : Categories, etag : Nat, there : BOOLEAN]
                /\ m.cats = cats /\ m.etag = mail.etag + 1
                /\ m.there = mail.there
         /\ LET m == [mail EXCEPT !.cats = cats, !.etag = @ + 1]
            IN  /\ m \in [cats : Categories, etag : Nat, there : BOOLEAN]
                /\ m.cats = cats /\ m.etag = mail.etag + 1
                /\ m.there = mail.there
<1>1. \A n \in Nat :
         /\ LET m == [mail EXCEPT !.etag = n, !.cats = cats]
            IN  /\ m \in [cats : Categories, etag : Nat, there : BOOLEAN]
                /\ m.cats = cats /\ m.etag = n /\ m.there = mail.there
         /\ LET m == [mail EXCEPT !.cats = cats, !.etag = n]
            IN  /\ m \in [cats : Categories, etag : Nat, there : BOOLEAN]
                /\ m.cats = cats /\ m.etag = n /\ m.there = mail.there
  BY DEF TypeOK
<1>2. mail.etag + 1 \in Nat
  BY DEF TypeOK
<1>3. QED
  BY <1>1, <1>2

\* The numbers and the sets of it all.
LEMMA Fields ==
  ASSUME TypeOK
  PROVE  /\ mail.etag \in Nat /\ page.etag \in Nat /\ row.etag \in Nat
         /\ mail.cats \in Categories /\ page.cats \in Categories
         /\ row.cats \in Categories
         /\ base # Unread => base.etag \in Nat /\ base.cats \in Categories
         /\ loaded # Unread =>
               /\ loaded.etag \in Nat /\ loaded.cats \in Categories
               /\ loaded.torn \in BOOLEAN
         /\ job # NoJob =>
               /\ job \in JobRecords /\ job.step \in Steps
               /\ job.seen \in Versions /\ job.got \in Versions
               /\ job.seen.etag \in Nat /\ job.got.etag \in Nat
               /\ job.etag \in Nat
               /\ job.seen.cats \in Categories /\ job.got.cats \in Categories
               /\ job.new \in Categories /\ job.body \in Categories
               /\ job.intent \in Intents /\ job.stale \in BOOLEAN
<1>1. /\ mail.etag \in Nat /\ page.etag \in Nat /\ row.etag \in Nat
      /\ mail.cats \in Categories /\ page.cats \in Categories
      /\ row.cats \in Categories
  BY DEF TypeOK, Versions
<1>2. loaded # Unread => loaded \in LoadedRows
  BY DEF TypeOK
<1>3. job # NoJob => job \in JobRecords
  BY DEF TypeOK
<1>4. \A v \in Versions : v.etag \in Nat /\ v.cats \in Categories
  BY DEF Versions
<1>5. job # NoJob => job.seen \in Versions /\ job.got \in Versions
  BY <1>3 DEF JobRecords
<1>6. base # Unread => base.etag \in Nat /\ base.cats \in Categories
  BY <1>4 DEF TypeOK
<1>7. QED
  BY <1>1, <1>2, <1>3, <1>4, <1>5, <1>6 DEF LoadedRows, JobRecords

\* A newer message makes no copy newer than it is.
LEMMA StillDated ==
  ASSUME NEW copy, copy.etag \in Nat, NEW m, m.etag \in Nat, NEW n,
         n.etag = m.etag + 1, NEW excused, Dated(copy, m, excused)
  PROVE  \A e : Dated(copy, n, e)
  BY DEF Dated

LEMMA EditInv ==
  ASSUME Inv, NEW c \in UserCats, Edit(c) PROVE Inv'
<1>1. /\ mail'.cats = (IF c \in mail.cats THEN mail.cats \ {c}
                       ELSE mail.cats \cup {c})
      /\ mail'.etag = mail.etag + 1 /\ mail'.there = mail.there
      /\ mail' \in [cats : Categories, etag : Nat, there : BOOLEAN]
      /\ UNCHANGED <<clientVars, row, page, base, loaded, job, torn>>
  <2> DEFINE cats == IF c \in mail.cats THEN mail.cats \ {c}
                     ELSE mail.cats \cup {c}
  <2>1. cats \in Categories
    BY DEF Inv, TypeOK, Categories
  <2>2. mail' = [mail EXCEPT !.etag = @ + 1, !.cats = cats]
    BY DEF Edit, Inv, TypeOK
  <2>3. QED
    BY <2>1, <2>2, NextMail DEF Edit, Inv
<1>2. TypeOK'
  BY <1>1 DEF Inv, TypeOK, clientVars, ClientTypeOK
<1>3. mail'.cats \cap Labels = mail.cats \cap Labels
  BY <1>1, CategoryAssumption
<1>4. CopiesOK'
  <2>1. Dated(page, mail', FALSE) /\ Dated(row, mail', torn)
    BY <1>1, Fields, StillDated DEF Inv, CopiesOK
  <2>2. loaded # Unread => Dated(loaded, mail', loaded.torn)
    BY <1>1, Fields, StillDated DEF Inv, CopiesOK
  <2>3. job # NoJob => /\ Dated(job.seen, mail', job.stale)
                       /\ Dated(job.got, mail', FALSE)
    BY <1>1, Fields, StillDated DEF Inv, CopiesOK
  <2>4. mail'.etag > 0 /\ (job # NoJob => job.etag <= mail'.etag)
    <3>1. mail'.etag = mail.etag + 1 /\ mail.etag \in Nat
      BY <1>1, Fields DEF Inv
    <3>2. job # NoJob => job.etag \in Nat /\ job.etag <= mail.etag
      BY Fields DEF Inv, CopiesOK
    <3>3. QED
      BY <3>1, <3>2
  <2>5. QED
    BY <1>1, <2>1, <2>2, <2>3, <2>4 DEF CopiesOK
<1>5. MergeOK' /\ WrittenOK'
  <2>1. job # NoJob => job.etag < mail'.etag /\ row.etag < mail'.etag
    BY <1>1, Fields DEF Inv, CopiesOK, Dated
  <2>2. job # NoJob => job.etag # mail'.etag
    BY <1>1, <2>1, Fields
  <2>3. QED
    BY <1>1, <1>3, <2>1, <2>2 DEF Inv, MergeOK, WrittenOK, clientVars, Writing
<1>6. CallOK' /\ JobOK' /\ Single(mail'.cats)
  BY <1>1, <1>3 DEF Inv, CallOK, JobOK, Single, clientVars, Writing
<1>7. QED
  BY <1>2, <1>4, <1>5, <1>6 DEF Inv

LEMMA DeleteInv == Inv /\ Delete => Inv'
<1> SUFFICES ASSUME Inv, Delete PROVE Inv'
  OBVIOUS
<1>1. /\ mail'.cats = mail.cats /\ mail'.etag = mail.etag
      /\ mail'.there = FALSE
      /\ mail' \in [cats : Categories, etag : Nat, there : BOOLEAN]
      /\ UNCHANGED <<clientVars, row, page, base, loaded, job, torn>>
  BY DEF Delete, Inv, TypeOK
<1>2. TypeOK' /\ CallOK' /\ JobOK' /\ Single(mail'.cats)
  BY <1>1 DEF Inv, TypeOK, clientVars, ClientTypeOK, CallOK, JobOK, Single,
              Writing
<1>3. CopiesOK'
  BY <1>1 DEF Inv, CopiesOK, Dated
<1>4. MergeOK' /\ WrittenOK'
  BY <1>1 DEF Inv, MergeOK, WrittenOK, clientVars, Writing
<1>5. QED
  BY <1>2, <1>3, <1>4 DEF Inv

LEMMA FetchPageInv == Inv /\ FetchPage => Inv'
<1> SUFFICES ASSUME Inv, FetchPage PROVE Inv'
  OBVIOUS
<1>1. /\ page' = [cats |-> mail.cats, etag |-> mail.etag]
      /\ UNCHANGED <<clientVars, mail, row, loaded, job, torn>>
      /\ base' \in {base, Unread}
  BY DEF FetchPage
<1>2. page' \in Versions
  BY <1>1, Fields DEF Inv, Versions
<1>3. TypeOK' /\ CallOK' /\ JobOK' /\ MergeOK' /\ WrittenOK'
  BY <1>1, <1>2 DEF Inv, TypeOK, clientVars, ClientTypeOK, CallOK, JobOK,
                    MergeOK, WrittenOK, Writing
<1>4. Dated(page', mail, FALSE)
  BY <1>1, Fields DEF Inv, Dated
<1>5. QED
  BY <1>1, <1>3, <1>4 DEF Inv, CopiesOK, Single

LEMMA SelectRowInv == Inv /\ SelectRow => Inv'
<1> SUFFICES ASSUME Inv, SelectRow PROVE Inv'
  OBVIOUS
<1>1. /\ base' = row
      /\ UNCHANGED <<clientVars, mail, row, page, loaded, job, torn>>
  BY DEF SelectRow
<1>2. TypeOK' /\ CallOK' /\ JobOK' /\ MergeOK' /\ WrittenOK'
  BY <1>1 DEF Inv, TypeOK, clientVars, ClientTypeOK, CallOK, JobOK, MergeOK,
              WrittenOK, Writing
<1>3. QED
  BY <1>1, <1>2 DEF Inv, CopiesOK, Single

\* The row after a flush is the page, or is torn, or is what it was.
LEMMA ApplyPageInv == Inv /\ ApplyPage => Inv'
<1> SUFFICES ASSUME Inv, ApplyPage PROVE Inv'
  OBVIOUS
<1> DEFINE cats == Column(page.cats, base.cats, row.cats)
           etag == Column(page.etag, base.etag, row.etag)
<1>1. /\ row' = [cats |-> cats, etag |-> etag]
      /\ torn' = (Overtaken /\ (torn \/ row' # row))
      /\ page' = NoCopy /\ base' = Unread /\ job = NoJob
      /\ UNCHANGED <<clientVars, mail, loaded, job>>
  BY DEF ApplyPage
<1>2. /\ cats \in Categories /\ cats \in {page.cats, row.cats}
      /\ etag \in Nat /\ etag \in {page.etag, row.etag}
  BY Fields DEF Inv, Column
<1>3. ~Overtaken => cats = page.cats /\ etag = page.etag
  BY DEF Overtaken, Column
<1>4. NoCopy \in Versions
  BY DEF NoCopy, Versions, Categories
<1>5. row' \in Versions /\ row'.cats = cats /\ row'.etag = etag
      /\ torn' \in BOOLEAN
  BY <1>1, <1>2 DEF Versions, Overtaken, Inv, TypeOK
<1> HIDE DEF cats, etag
<1>6. TypeOK' /\ CallOK' /\ JobOK' /\ MergeOK' /\ WrittenOK'
  BY <1>1, <1>4, <1>5 DEF Inv, TypeOK, clientVars, ClientTypeOK, CallOK, JobOK,
                          MergeOK, WrittenOK
<1>7. Dated(NoCopy, mail, FALSE)
  BY Fields DEF Inv, CopiesOK, Dated, NoCopy
<1>8. Dated(row', mail, torn')
  <2>1. row'.etag <= mail.etag
    BY <1>2, <1>5 DEF Inv, CopiesOK, Dated
  <2>2. CASE ~Overtaken
    BY <1>3, <1>5, <2>2 DEF Inv, CopiesOK, Dated
  <2>3. CASE Overtaken /\ row' = row
    BY <1>1, <2>3 DEF Inv, CopiesOK, Dated
  <2>4. CASE Overtaken /\ row' # row
    BY <1>1, <2>1, <2>4 DEF Dated
  <2>5. QED
    BY <2>2, <2>3, <2>4
<1>9. QED
  BY <1>1, <1>6, <1>7, <1>8 DEF Inv, CopiesOK, Single

LEMMA TokenEventInv == Inv /\ TokenEvent => Inv'
<1> SUFFICES ASSUME Inv, TokenEvent PROVE Inv'
  OBVIOUS
<1>1. UNCHANGED <<call, data>> /\ token' \in Tokens
  BY DEF TokenEvent, TokenChanges, Tokens
<1>2. TypeOK' /\ CallOK' /\ CopiesOK'
  BY <1>1 DEF Inv, TypeOK, ClientTypeOK, CallOK, CopiesOK, data
<1>3. JobOK' /\ MergeOK' /\ WrittenOK'
  BY <1>1 DEF Inv, JobOK, MergeOK, WrittenOK, Writing, data
<1>4. QED
  BY <1>1, <1>2, <1>3 DEF Inv, Single, data

LEMMA LoadInv == Inv /\ Load => Inv'
<1> SUFFICES ASSUME Inv, Load PROVE Inv'
  OBVIOUS
<1>1. /\ loaded' = [cats |-> row.cats, etag |-> row.etag, torn |-> torn]
      /\ UNCHANGED <<clientVars, mail, row, page, base, job, torn>>
  BY DEF Load
<1>2. loaded' \in LoadedRows
  <2>1. torn \in BOOLEAN
    BY DEF Inv, TypeOK
  <2>2. QED
    BY <1>1, <2>1, Fields DEF Inv, LoadedRows
<1>3. TypeOK' /\ CallOK' /\ JobOK' /\ MergeOK' /\ WrittenOK'
  BY <1>1, <1>2 DEF Inv, TypeOK, clientVars, ClientTypeOK, CallOK, JobOK,
                    MergeOK, WrittenOK, Writing
<1>4. Dated(loaded', mail, loaded'.torn)
  BY <1>1 DEF Inv, CopiesOK, Dated
<1>5. QED
  BY <1>1, <1>3, <1>4 DEF Inv, CopiesOK, Single

-----------------------------------------------------------------------------
(* The job.                                                                *)

\* A merge keeps the user's categories and has the label it is for.
LEMMA MergeMeans ==
  ASSUME NEW cats \in Categories, NEW intent \in Intents
  PROVE  /\ Merge(cats, intent) \in Categories
         /\ User(Merge(cats, intent)) = User(cats)
         /\ Merge(cats, intent) \cap Labels = Merge({}, intent)
         /\ User(cats) \subseteq UserCats /\ User(cats) \in Categories
  BY CategoryAssumption DEF Merge, User, Categories, Intents

LEMMA BeginInv == ASSUME Inv, NEW i \in Intents, Begin(i) PROVE Inv'
<1> DEFINE seen == [cats |-> loaded.cats, etag |-> loaded.etag]
           new == Merge(seen.cats, i)
           step == IF seen.etag # 0 THEN "guarded" ELSE "reread"
           j == [step |-> step, intent |-> i, seen |-> seen,
                 stale |-> loaded.torn, new |-> new, body |-> new,
                 etag |-> seen.etag, got |-> NoCopy]
<1>1. /\ loaded # Unread /\ job = NoJob /\ loaded' = Unread
      /\ UNCHANGED <<token, mail, row, page, base, torn>>
      /\ \/ job' = NoJob /\ UNCHANGED call
         \/ /\ job' = j
            /\ call' = Start(IF seen.etag # 0 THEN "PATCH" ELSE "GET")
  BY DEF Begin
<1>2. CASE job' = NoJob /\ UNCHANGED call
  BY <1>1, <1>2 DEF Inv, TypeOK, ClientTypeOK, CallOK, JobOK, MergeOK,
                    WrittenOK, CopiesOK, Single
<1>3. CASE /\ job' = j
           /\ call' = Start(IF seen.etag # 0 THEN "PATCH" ELSE "GET")
  <2>1. seen \in Versions /\ new \in Categories /\ NoCopy \in Versions
        /\ loaded.torn \in BOOLEAN /\ seen.etag \in Nat
        /\ User(new) = User(seen.cats) /\ new \cap Labels = Merge({}, i)
    <3>1. NoCopy \in Versions
      BY DEF NoCopy, Versions, Categories
    <3>2. QED
      BY <1>1, <3>1, Fields, MergeMeans DEF Inv, Versions
  <2>2. j \in JobRecords
    BY <2>1 DEF JobRecords, Steps
  <2>3. /\ j.step = step /\ j.intent = i /\ j.seen = seen /\ j.got = NoCopy
        /\ j.stale = loaded.torn /\ j.new = new /\ j.body = new
        /\ j.etag = seen.etag
    OBVIOUS
  <2> HIDE DEF j
  <2>4. /\ call' \in Calls /\ call'.outcome = "pending" /\ ~call'.fresh
        /\ call'.phase = "token"
        /\ call'.method = IF seen.etag # 0 THEN "PATCH" ELSE "GET"
    BY <1>3, StartType DEF Methods
  <2>5. TypeOK' /\ CallOK'
    BY <1>1, <1>3, <2>2, <2>4 DEF Inv, TypeOK, ClientTypeOK, CallOK
  <2>6. Dated(seen, mail, loaded.torn) /\ Dated(NoCopy, mail, FALSE)
        /\ seen.etag <= mail.etag
    BY <1>1, Fields DEF Inv, CopiesOK, Dated, NoCopy
  <2>7. CopiesOK'
    BY <1>1, <1>3, <2>3, <2>6 DEF Inv, CopiesOK
  <2>8. JobOK' /\ WrittenOK'
    BY <1>3, <2>1, <2>3, <2>4 DEF JobOK, WrittenOK, Writing
  <2>9. MergeOK'
    <3>1. step = "reread" => seen.etag # mail.etag
      BY <1>1 DEF Inv, CopiesOK
    <3>2. QED
      BY <1>1, <1>3, <2>1, <2>3, <2>4, <3>1 DEF MergeOK
  <2>10. QED
    BY <1>1, <2>5, <2>7, <2>8, <2>9 DEF Inv, Single
<1>4. QED
  BY <1>1, <1>2, <1>3

\* What an answer to a GET leaves in job.got.
Got(a) == IF a = "ok" THEN [cats |-> mail.cats, etag |-> mail.etag] ELSE NoCopy

\* An exchange that carries out a PATCH, and one that does not.
PatchDone == call.method = "PATCH" /\ mail.there /\ Matches /\ mail' = Patched
PatchNot(a) == UNCHANGED mail /\ (call.method = "PATCH" => a # "ok")

LEMMA ExchangeCases ==
  ASSUME Inv, NEW a \in Answers, Exchange(a)
  PROVE  /\ job # NoJob /\ Reply(a) /\ UNCHANGED <<row, page, base, loaded, torn>>
         /\ a = "missing" => ~mail.there
         /\ PatchDone \/ PatchNot(a)
         /\ call.method = "PATCH" => UNCHANGED job
         /\ call.method = "GET" => job' = [job EXCEPT !.got = Got(a)]
<1>1. call.method \in Methods
  BY DEF Inv, TypeOK, ClientTypeOK, Calls
<1>2. \/ a = "ok" /\ call.method = "PATCH" /\ mail' = Patched
      \/ a = "lost" /\ Writes /\ mail' = Patched
      \/ a = "refused" /\ UNCHANGED mail
      \/ a # "refused" /\ ~(a = "ok" /\ call.method = "PATCH") /\ UNCHANGED mail
  BY DEF Exchange
<1>3. a = "ok" /\ call.method = "PATCH" => mail.there /\ Matches
  BY DEF Exchange
<1>4. PatchDone \/ PatchNot(a)
  BY <1>2, <1>3 DEF PatchDone, PatchNot, Writes
<1>5. QED
  BY <1>1, <1>4 DEF Exchange, Got, Methods

LEMMA PatchDoneInv ==
  ASSUME Inv, NEW a \in Answers, Exchange(a), PatchDone PROVE Inv'
<1>1. /\ job # NoJob /\ UNCHANGED <<job, row, page, base, loaded, torn>>
      /\ job.step \in {"guarded", "patch"} /\ call.method = "PATCH"
  BY ExchangeCases DEF PatchDone, Inv, JobOK, Writing
<1>2. /\ call' \in Calls /\ token' \in Tokens /\ CallOK'
      /\ call'.method = call.method /\ call'.outcome # "null"
  BY <1>1, ReplySteady, ExchangeCases DEF Inv, TypeOK, Steady
<1>3. /\ mail' \in [cats : Categories, etag : Nat, there : BOOLEAN]
      /\ mail'.cats = job.body /\ mail'.etag = mail.etag + 1
      /\ mail'.there = mail.there /\ mail.etag \in Nat
      /\ job.body \cap Labels = Merge({}, job.intent) /\ job.intent \in Intents
  BY <1>1, Fields, NextMail DEF PatchDone, Patched, Inv, JobOK
<1>4. TypeOK'
  BY <1>1, <1>2, <1>3 DEF Inv, TypeOK, ClientTypeOK
<1>5. JobOK'
  BY <1>1, <1>2 DEF Inv, JobOK, Writing
<1>6. CopiesOK'
  <2>1. Dated(page, mail', FALSE) /\ Dated(row, mail', torn)
    BY <1>3, Fields, StillDated DEF Inv, CopiesOK
  <2>2. loaded # Unread => Dated(loaded, mail', loaded.torn)
    BY <1>3, Fields, StillDated DEF Inv, CopiesOK
  <2>3. Dated(job.seen, mail', job.stale) /\ Dated(job.got, mail', FALSE)
    BY <1>1, <1>3, Fields, StillDated DEF Inv, CopiesOK
  <2>4. job.etag \in Nat /\ job.etag <= mail.etag
    BY <1>1, Fields DEF Inv, CopiesOK
  <2>5. mail'.etag > 0 /\ job.etag <= mail'.etag
    BY <1>3, <2>4
  <2>6. QED
    BY <1>1, <2>1, <2>2, <2>3, <2>5 DEF CopiesOK
<1>7. job.etag < mail'.etag /\ row.etag < mail'.etag
  <2>1. /\ job.etag \in Nat /\ job.etag <= mail.etag
        /\ row.etag \in Nat /\ row.etag <= mail.etag
    BY <1>1, Fields DEF Inv, CopiesOK, Dated
  <2>2. QED
    BY <1>3, <2>1
<1>8. MergeOK'
  <2>1. job.etag # mail'.etag
    BY <1>1, <1>3, <1>7, Fields DEF Inv
  <2>2. QED
    BY <1>1, <1>2, <2>1 DEF Inv, MergeOK
<1>9. WrittenOK' /\ Single(mail'.cats)
  BY <1>1, <1>3, <1>7, CategoryAssumption
     DEF WrittenOK, Single, Merge, User, Writing
<1>10. QED
  BY <1>2, <1>4, <1>5, <1>6, <1>8, <1>9 DEF Inv

LEMMA PatchNotInv ==
  ASSUME Inv, NEW a \in Answers, Exchange(a), PatchNot(a) PROVE Inv'
<1>1. /\ job # NoJob /\ UNCHANGED <<mail, row, page, base, loaded, torn>>
      /\ call.method = "PATCH" => UNCHANGED job
      /\ call.method = "GET" => job' = [job EXCEPT !.got = Got(a)]
      /\ call.method = IF Writing THEN "PATCH" ELSE "GET"
  BY ExchangeCases DEF PatchNot, Inv, JobOK
<1>2. /\ call' \in Calls /\ token' \in Tokens /\ CallOK'
      /\ call'.method = call.method
      /\ call'.outcome = "answer" => a = "ok"
      /\ call'.outcome = "null" => ~mail.there
  BY ReplySteady, ExchangeCases DEF Inv, TypeOK, Steady
<1>3. CASE Writing
  <2>1. UNCHANGED job /\ call'.outcome # "answer"
    BY <1>1, <1>2, <1>3 DEF PatchNot
  <2>2. TypeOK' /\ JobOK' /\ CopiesOK' /\ WrittenOK' /\ Single(mail'.cats)
    BY <1>1, <1>2, <2>1 DEF Inv, TypeOK, ClientTypeOK, JobOK, CopiesOK,
                            WrittenOK, Writing, Single
  <2>3. MergeOK'
    BY <1>1, <1>2, <2>1 DEF Inv, MergeOK
  <2>4. QED
    BY <1>2, <2>2, <2>3 DEF Inv
<1>4. CASE ~Writing
  <2>1. Got(a) \in Versions /\ Dated(Got(a), mail, FALSE)
        /\ (a = "ok" => Got(a).etag = mail.etag /\ Got(a) # NoCopy)
        /\ (a # "ok" => Got(a) = NoCopy)
    <3>1. CASE a = "ok"
      <4>1. Got(a).etag = mail.etag /\ Got(a).cats = mail.cats
            /\ Got(a) \in Versions /\ NoCopy.etag = 0 /\ mail.etag > 0
        BY <3>1, Fields DEF Inv, Got, Versions, CopiesOK, NoCopy
      <4>2. QED
        BY <3>1, <4>1, Fields DEF Inv, Dated
    <3>2. CASE a # "ok"
      BY <3>2, Fields DEF Inv, Got, NoCopy, Versions, Categories, CopiesOK,
                          Dated
    <3>3. QED
      BY <3>1, <3>2
  <2>2. /\ job' \in JobRecords /\ job'.got = Got(a) /\ job'.step = job.step
        /\ job'.intent = job.intent /\ job'.seen = job.seen
        /\ job'.stale = job.stale /\ job'.new = job.new
        /\ job'.body = job.body /\ job'.etag = job.etag
    BY <1>1, <1>4, <2>1, Fields DEF Inv, JobRecords
  <2>3. job.step \notin {"guarded", "patch"} /\ ~Writing'
    BY <1>4, <2>2 DEF Writing
  <2>4. TypeOK' /\ JobOK' /\ CopiesOK' /\ WrittenOK' /\ Single(mail'.cats)
    BY <1>1, <1>2, <1>4, <2>1, <2>2, <2>3
       DEF Inv, TypeOK, ClientTypeOK, JobOK, CopiesOK, WrittenOK, Single
  <2>5. MergeOK'
    <3>1. job.etag <= mail.etag
      BY <1>1 DEF Inv, CopiesOK
    <3>2. job'.step = "reread" /\ job'.got # NoCopy => job'.got.etag >= job'.etag
      BY <2>1, <2>2, <3>1, <1>1, Fields DEF Inv
    <3>3. QED
      BY <1>1, <1>2, <2>1, <2>2, <2>3, <3>2 DEF Inv, MergeOK
  <2>6. QED
    BY <1>2, <2>4, <2>5 DEF Inv
<1>5. QED
  BY <1>3, <1>4

LEMMA ExchangeInv == ASSUME Inv, NEW a \in Answers, Exchange(a) PROVE Inv'
  BY ExchangeCases, PatchDoneInv, PatchNotInv

LEMMA ClientMovesInv == Inv /\ ClientMoves => Inv'
<1> SUFFICES ASSUME Inv, ClientMoves PROVE Inv'
  OBVIOUS
<1>1. UNCHANGED data /\ ClientStep /\ job # NoJob
  BY DEF ClientMoves
<1>2. Steady
  BY <1>1, ClientStepSteady DEF Inv, TypeOK
<1>3. call'.outcome \in {"pending", "error"}
  BY <1>1, ClientStepSteady DEF Inv, TypeOK, NoAnswer
<1>4. TypeOK' /\ CallOK' /\ JobOK' /\ CopiesOK' /\ Single(mail'.cats)
  BY <1>1, <1>2 DEF Inv, TypeOK, ClientTypeOK, Steady, JobOK, CopiesOK, Single,
                    Writing, data
<1>5. MergeOK' /\ WrittenOK'
  BY <1>1, <1>3 DEF Inv, MergeOK, WrittenOK, data
<1>6. QED
  BY <1>4, <1>5 DEF Inv

\* The next call of a job that goes on: it is enough to look at the job.
LEMMA ContinueInv ==
  ASSUME Inv, job # NoJob, NEW step \in Steps, NEW method \in Methods,
         NEW next \in JobRecords, Continue(step, method, next),
         method = IF step \in {"guarded", "patch"} THEN "PATCH" ELSE "GET",
         next.intent = job.intent, next.seen = job.seen,
         next.stale = job.stale,
         next.new \cap Labels = Merge({}, job.intent),
         next.body \cap Labels = Merge({}, job.intent),
         Dated(next.got, mail, FALSE), next.etag <= mail.etag,
         step # "guarded",
         step = "reread" =>
            /\ next.got = NoCopy
            /\ next.etag = mail.etag /\ mail.there =>
                  User(next.new) = User(mail.cats),
         step = "patch" /\ next.etag = mail.etag /\ mail.there =>
            User(next.body) = User(mail.cats)
  PROVE  Inv'
<1>1. /\ job' = [next EXCEPT !.step = step] /\ call' = Start(method)
      /\ UNCHANGED <<token, mail, row, page, base, loaded, torn>>
  BY DEF Continue
<1>2. /\ job' \in JobRecords /\ job'.step = step /\ job'.intent = next.intent
      /\ job'.seen = next.seen /\ job'.stale = next.stale
      /\ job'.new = next.new /\ job'.body = next.body
      /\ job'.etag = next.etag /\ job'.got = next.got
  BY <1>1 DEF JobRecords
<1>3. /\ call' \in Calls /\ call'.method = method /\ call'.phase = "token"
      /\ call'.outcome = "pending" /\ ~call'.fresh
  BY <1>1, StartType
<1>4. TypeOK' /\ CallOK'
  BY <1>1, <1>2, <1>3 DEF Inv, TypeOK, ClientTypeOK, CallOK
<1>5. JobOK' /\ WrittenOK' /\ MergeOK'
  BY <1>1, <1>2, <1>3 DEF JobOK, WrittenOK, MergeOK, Writing
<1>6. CopiesOK'
  BY <1>1, <1>2 DEF Inv, CopiesOK
<1>7. QED
  BY <1>1, <1>4, <1>5, <1>6 DEF Inv, Single

\* What is known of a job when a call of it is over.
LEMMA JobFacts ==
  ASSUME Inv, job # NoJob
  PROVE  /\ job \in JobRecords /\ job.intent \in Intents /\ NoCopy \in Versions
         /\ job.new \cap Labels = Merge({}, job.intent)
         /\ job.body \cap Labels = Merge({}, job.intent)
         /\ Dated(job.got, mail, FALSE) /\ Dated(NoCopy, mail, FALSE)
         /\ job.etag <= mail.etag
<1>1. NoCopy \in Versions
  BY DEF NoCopy, Versions, Categories
<1>2. Dated(NoCopy, mail, FALSE)
  BY Fields DEF Inv, CopiesOK, Dated, NoCopy
<1>3. QED
  BY <1>1, <1>2, Fields DEF Inv, JobOK, CopiesOK

LEMMA MismatchedInv == Inv /\ job # NoJob /\ Mismatched => Inv'
  BY JobFacts, ContinueInv DEF Mismatched, Steps, Methods

LEMMA RemergeInv == Inv /\ job # NoJob /\ Remerge => Inv'
<1> SUFFICES ASSUME Inv, job # NoJob, Remerge PROVE Inv'
  OBVIOUS
<1> DEFINE new == Merge(job.got.cats, job.intent)
           next == IF job.got = NoCopy THEN job
                   ELSE [job EXCEPT !.new = new, !.etag = job.got.etag,
                                    !.got = NoCopy]
<1>1. /\ Continue("reread", "GET", next) /\ job.step = "refetch"
      /\ call.outcome \in {"answer", "null"}
  BY DEF Remerge
<1>2. /\ new \in Categories /\ User(new) = User(job.got.cats)
      /\ new \cap Labels = Merge({}, job.intent) /\ job.got.etag \in Nat
      /\ NoCopy \in Versions
  BY JobFacts, Fields, MergeMeans DEF Inv
<1>3. CASE job.got = NoCopy
  <2>1. ~mail.there
    BY <1>1, <1>3 DEF Inv, MergeOK
  <2>2. QED
    BY <1>1, <1>3, <2>1, JobFacts, ContinueInv DEF Steps, Methods
<1>4. CASE job.got # NoCopy
  <2>1. /\ next \in JobRecords /\ next.intent = job.intent
        /\ next.seen = job.seen /\ next.stale = job.stale
        /\ next.new = new /\ next.body = job.body
        /\ next.etag = job.got.etag /\ next.got = NoCopy
    BY <1>2, <1>4, JobFacts DEF JobRecords
  <2>2. Dated(job.got, mail, FALSE)
    BY JobFacts
  <2>3. next.etag <= mail.etag
        /\ (next.etag = mail.etag => User(next.new) = User(mail.cats))
    BY <1>2, <2>1, <2>2 DEF Dated
  <2> HIDE DEF next, new
  <2>4. QED
    BY <1>1, <1>2, <2>1, <2>3, JobFacts, ContinueInv DEF Steps, Methods
<1>5. QED
  BY <1>3, <1>4

LEMMA RereadInv == Inv /\ job # NoJob /\ Reread => Inv'
<1> SUFFICES ASSUME Inv, job # NoJob, Reread PROVE Inv'
  OBVIOUS
<1> DEFINE read == IF job.got = NoCopy THEN {} ELSE User(job.got.cats)
           body == read \cup job.new
           next == [job EXCEPT !.got = NoCopy, !.body = body]
<1>1. Continue("patch", "PATCH", next) /\ job.step = "reread"
  BY DEF Reread
<1>2. read \in Categories /\ read \subseteq UserCats
      /\ job.new \in Categories /\ job.got.etag \in Nat /\ job.etag \in Nat
      /\ mail.etag \in Nat
  BY JobFacts, Fields, MergeMeans DEF Inv, Categories
<1>3. body \in Categories /\ body \cap Labels = job.new \cap Labels
      /\ User(body) = read \cup User(job.new)
  BY <1>2, CategoryAssumption DEF Categories, User
<1>4. /\ next \in JobRecords /\ next.intent = job.intent
      /\ next.seen = job.seen /\ next.stale = job.stale
      /\ next.new = job.new /\ next.body = body
      /\ next.etag = job.etag /\ next.got = NoCopy
  BY <1>3, JobFacts DEF JobRecords
<1>5. job.etag = mail.etag /\ mail.there => User(body) = User(mail.cats)
  <2> SUFFICES ASSUME job.etag = mail.etag, mail.there
               PROVE  User(body) = User(mail.cats)
    OBVIOUS
  <2>1. User(job.new) = User(mail.cats)
    BY <1>1 DEF Inv, MergeOK
  <2>2. CASE job.got = NoCopy
    BY <1>3, <2>1, <2>2
  <2>3. CASE job.got # NoCopy
    <3>1. job.got.etag >= job.etag /\ job.got.etag <= mail.etag
      BY <1>1, <2>3, JobFacts DEF Inv, MergeOK, Dated
    <3>2. job.got.etag = mail.etag
      BY <1>2, <3>1
    <3>3. job.got.cats = mail.cats
      BY <3>2, JobFacts DEF Dated
    <3>4. QED
      BY <1>3, <2>1, <2>3, <3>3
  <2>4. QED
    BY <2>2, <2>3
<1> HIDE DEF next, body
<1>6. QED
  BY <1>1, <1>3, <1>4, <1>5, JobFacts, ContinueInv DEF Steps, Methods

\* The end of a job: the row it leaves is dated like any other copy.
LEMMA OverInv ==
  ASSUME Inv, JobOver, row' \in Versions, torn' \in BOOLEAN,
         Dated(row', mail, torn')
  PROVE  Inv'
<1>1. /\ job' = NoJob /\ call' = Idle
      /\ UNCHANGED <<token, mail, page, base, loaded>>
  BY DEF JobOver
<1>2. TypeOK' /\ CallOK'
  BY <1>1, IdleType DEF Inv, TypeOK, ClientTypeOK, CallOK, Idle
<1>3. JobOK' /\ MergeOK' /\ WrittenOK' /\ CopiesOK'
  BY <1>1 DEF Inv, JobOK, MergeOK, WrittenOK, CopiesOK
<1>4. QED
  BY <1>1, <1>2, <1>3 DEF Inv, Single

LEMMA SucceedInv == Inv /\ job # NoJob /\ Succeed => Inv'
<1> SUFFICES ASSUME Inv, job # NoJob, Succeed PROVE Inv'
  OBVIOUS
<1>1. row' = [cats |-> job.new, etag |-> Etag] /\ torn' = FALSE /\ JobOver
  BY DEF Succeed
<1>2. job.etag < mail.etag /\ row.etag < mail.etag
  BY DEF Succeed, Inv, WrittenOK, Writing
<1>3. Etag \in Nat /\ Etag < mail.etag /\ mail.etag \in Nat
      /\ job.new \in Categories
  BY <1>2, Fields DEF Inv, Etag, Column
<1>4. row' \in Versions /\ row'.etag = Etag
  BY <1>1, <1>3 DEF Versions
<1>5. Dated(row', mail, FALSE)
  BY <1>3, <1>4 DEF Dated
<1>6. QED
  BY <1>1, <1>4, <1>5, OverInv

LEMMA FailInv == Inv /\ job # NoJob /\ Fail => Inv'
<1> SUFFICES ASSUME Inv, job # NoJob, Fail PROVE Inv'
  OBVIOUS
<1>1. /\ row' = [row EXCEPT !.etag = Etag] /\ JobOver
      /\ torn' = (torn \/ job.etag # job.seen.etag)
  BY DEF Fail
<1>2. Etag \in Nat /\ Etag <= mail.etag
  BY Fields DEF Inv, Etag, Column, CopiesOK, Dated
<1>3. row' \in Versions /\ row'.etag = Etag /\ row'.cats = row.cats
      /\ torn' \in BOOLEAN
  BY <1>1, <1>2 DEF Inv, TypeOK, Versions
<1>4. ~torn' => ~torn /\ Etag = row.etag
  BY <1>1 DEF Etag, Column
<1>5. Dated(row', mail, torn')
  BY <1>2, <1>3, <1>4 DEF Inv, CopiesOK, Dated
<1>6. QED
  BY <1>1, <1>3, <1>5, OverInv

LEMMA CrashInv == Inv /\ Crash => Inv'
<1> SUFFICES ASSUME Inv, Crash PROVE Inv'
  OBVIOUS
<1>1. /\ job' = NoJob /\ call' = Idle
      /\ UNCHANGED <<token, mail, row, page, base, loaded, torn>>
  BY DEF Crash
<1>2. TypeOK' /\ CallOK'
  BY <1>1, IdleType DEF Inv, TypeOK, ClientTypeOK, CallOK, Idle
<1>3. QED
  BY <1>1, <1>2 DEF Inv, JobOK, MergeOK, WrittenOK, CopiesOK, Single

LEMMA NextInv == Inv /\ [Next]_vars => Inv'
<1> SUFFICES ASSUME Inv, [Next]_vars PROVE Inv'
  OBVIOUS
<1>1. CASE World
  BY <1>1, EditInv, DeleteInv, FetchPageInv, SelectRowInv, ApplyPageInv,
     TokenEventInv, CrashInv DEF World
<1>2. CASE Resume
  BY <1>2, MismatchedInv, RemergeInv, RereadInv, SucceedInv, FailInv
     DEF Resume
<1>3. CASE \E a \in Answers : Exchange(a)
  BY <1>3, ExchangeInv
<1>4. CASE Load \/ ClientMoves \/ \E i \in Intents : Begin(i)
  BY <1>4, LoadInv, ClientMovesInv, BeginInv
<1>5. CASE UNCHANGED vars
  <2>1. UNCHANGED <<clientVars, data>>
    BY <1>5 DEF vars
  <2>2. TypeOK' /\ CallOK' /\ CopiesOK'
    BY <2>1 DEF clientVars, data, Inv, TypeOK, ClientTypeOK, CallOK, CopiesOK
  <2>3. JobOK' /\ MergeOK' /\ WrittenOK' /\ Single(mail'.cats)
    BY <2>1 DEF clientVars, data, Inv, JobOK, MergeOK, WrittenOK, Single,
                Writing
  <2>4. QED
    BY <2>2, <2>3 DEF Inv
<1>6. QED
  BY <1>1, <1>2, <1>3, <1>4, <1>5 DEF Next, Job

LEMMA Invariance == Spec => []Inv
  BY InitInv, NextInv, PTL DEF Spec

-----------------------------------------------------------------------------
(* What it means.                                                          *)

\* Every variable stays in its type.
THEOREM LabelTypeCorrect == Spec => []TypeOK
  BY Invariance, PTL DEF Inv

LEMMA SingleIsOne == TypeOK /\ Single(mail.cats) => OneLabel
<1> SUFFICES ASSUME Single(mail.cats) PROVE OneLabel
  OBVIOUS
<1> DEFINE L == mail.cats \cap Labels
<1>1. CASE L = {}
  BY <1>1, FS_EmptySet DEF OneLabel
<1>2. CASE L # {}
  <2>1. PICK x \in L : TRUE
    BY <1>2
  <2>2. L = {x}
    BY <2>1 DEF Single
  <2>3. QED
    BY <2>2, FS_Singleton DEF OneLabel
<1>3. QED
  BY <1>1, <1>2

\* Outlook never shows two labels of one message.
THEOREM LabelsNeverStack == Spec => []OneLabel
  BY Invariance, SingleIsOne, PTL DEF Inv

\* A row with the current etag has the current categories, but for a row that
\* a failed job or an overtaken flush of the sync tore.
THEOREM EtagsVouch == Spec => []EtagVouches
<1>1. Inv => EtagVouches
  BY DEF Inv, CopiesOK, Dated, EtagVouches
<1>2. QED
  BY <1>1, Invariance, PTL

\* A refreshed token is only dropped when the attempts are used up.
THEOREM FreshTokensAreTried == Spec => []FreshTokenIsTried
<1>1. Inv => FreshTokenIsTried
  BY DEF Inv, CallOK, FreshTokenIsTried
<1>2. QED
  BY <1>1, Invariance, PTL

\* The counters of edits and faults.
Counted == edits \in Nat /\ faults \in Nat

LEMMA Counts == Spec => []Counted
<1>1. Init => Counted
  BY DEF Init, Counted
<1>2. Counted /\ [Next]_vars => Counted'
  <2> SUFFICES ASSUME Counted, [Next]_vars PROVE Counted'
    OBVIOUS
  <2>1. edits' \in {edits, edits + 1} /\ faults' \in {faults, faults + 1}
    BY DEF Next, World, Edit, Delete, FetchPage, SelectRow, ApplyPage, TokenEvent, Crash,
           Fault, Job, Exchange, ClientMoves, Resume, Mismatched, Remerge,
           Reread, Succeed, Fail, Continue, JobOver, Load, Begin, bounds, vars
  <2>2. QED
    BY <2>1 DEF Counted
<1>3. QED
  BY <1>1, <1>2, PTL DEF Spec

\* Only an exchange that carries out a PATCH changes categories and leaves the
\* count of the user's edits alone.
LEMMA OnlyPatchesWrite ==
  ASSUME Inv, Counted, [Next]_vars, edits' = edits, mail'.cats # mail.cats
  PROVE  \E a \in Answers : Exchange(a) /\ PatchDone
<1>1. UNCHANGED mail \/ World \/ \E a \in Answers : Exchange(a)
  BY DEF Next, Job, Load, Begin, ClientMoves, Resume, Mismatched, Remerge,
         Reread, Succeed, Fail, Continue, JobOver, vars, data
<1>2. World => UNCHANGED mail \/ Delete \/ \E c \in UserCats : Edit(c)
  BY DEF World, FetchPage, SelectRow, ApplyPage, TokenEvent, Crash, data
<1>3. edits + 1 # edits
  BY DEF Counted
<1>4. ~Delete /\ \A c \in UserCats : ~Edit(c)
  BY <1>3 DEF Delete, Edit
<1>5. QED
  BY <1>1, <1>2, <1>4, ExchangeCases DEF PatchNot

\* A PATCH takes a user's edit back only where If-Match cannot protect it:
\* on a torn row, or when the message changed after the refetch.
THEOREM EditsAreLostOnlySo == Spec => LostEditsAreAccounted
<1>1. ASSUME Inv, Counted, [Next]_vars, edits' = edits,
             User(mail'.cats) # User(mail.cats)
      PROVE  \/ job.step = "guarded" /\ job.stale
             \/ job.step = "patch" /\ job.etag # mail.etag
  <2>1. PICK a \in Answers : Exchange(a) /\ PatchDone
    BY <1>1, OnlyPatchesWrite
  <2>2. /\ job # NoJob /\ mail.there /\ mail'.cats = job.body
        /\ job.step \in {"guarded", "patch"}
        /\ job.step = "guarded" => mail.etag = job.seen.etag
    BY <1>1, <2>1, ExchangeCases, Fields, NextMail
       DEF PatchDone, Patched, Matches, Inv, JobOK, Writing
  <2>3. CASE job.step = "guarded"
    <3>1. job.body = job.new /\ User(job.new) = User(job.seen.cats)
      BY <1>1, <2>2, <2>3 DEF Inv, MergeOK
    <3>2. job.seen.cats # mail.cats
      BY <1>1, <2>2, <3>1
    <3>3. QED
      BY <1>1, <2>2, <2>3, <3>2 DEF Inv, CopiesOK, Dated
  <2>4. CASE job.step = "patch"
    BY <1>1, <2>2, <2>4 DEF Inv, MergeOK
  <2>5. QED
    BY <2>2, <2>3, <2>4
<1>2. Inv /\ Counted /\ [Next]_vars =>
         [ /\ edits' = edits
           /\ User(mail'.cats) # User(mail.cats)
           => \/ job.step = "guarded" /\ job.stale
              \/ job.step = "patch" /\ job.etag # mail.etag ]_vars
  BY <1>1
<1>3. QED
  BY <1>2, Invariance, Counts, PTL DEF Spec, LostEditsAreAccounted

\* A job that ends well has put its label, and no other, on the message and on
\* the row.
THEOREM AppliedLabelsShow == Spec => AppliedLabelShows
<1>1. ASSUME Inv, Counted, [Next]_vars, Succeeds
      PROVE  /\ mail.cats \cap Labels = Merge({}, job.intent)
             /\ row'.cats \cap Labels = Merge({}, job.intent)
  <2>1. faults + 1 # faults /\ call.outcome = "answer" /\ job # NoJob
        /\ job' = NoJob /\ faults' = faults
    BY <1>1 DEF Counted, Succeeds
  <2>2. ~Crash /\ ~Fail /\ ~UNCHANGED job
    BY <2>1 DEF Crash, Fault, Fail
  <2>3. ~Mismatched /\ ~Remerge /\ ~Reread
    <3>1. \A next \in JobRecords, step \in Steps :
             [next EXCEPT !.step = step] \in JobRecords
      BY DEF JobRecords
    <3>2. ~Mismatched
      BY <1>1, <2>1, <3>1, JobFacts, NoJobIsNone
         DEF Mismatched, Continue, Steps
    <3>3. ASSUME Remerge PROVE FALSE
      <4> DEFINE next == IF job.got = NoCopy THEN job
                   ELSE [job EXCEPT !.new = Merge(job.got.cats, job.intent),
                                    !.etag = job.got.etag, !.got = NoCopy]
      <4>1. next \in JobRecords
        BY <1>1, <2>1, JobFacts, Fields, MergeMeans DEF Inv, JobRecords
      <4>2. job' = [next EXCEPT !.step = "reread"]
        BY <3>3 DEF Remerge, Continue
      <4> HIDE DEF next
      <4>3. QED
        BY <2>1, <3>1, <4>1, <4>2, NoJobIsNone DEF Steps
    <3>4. ASSUME Reread PROVE FALSE
      <4> DEFINE body == (IF job.got = NoCopy THEN {}
                          ELSE User(job.got.cats)) \cup job.new
                 next == [job EXCEPT !.got = NoCopy, !.body = body]
      <4>1. body \in Categories
        BY <1>1, <2>1, JobFacts, Fields, MergeMeans DEF Inv, Categories
      <4> HIDE DEF body
      <4>2. next \in JobRecords
        BY <1>1, <2>1, <4>1, JobFacts DEF JobRecords
      <4>3. job' = [next EXCEPT !.step = "patch"]
        BY <3>4 DEF Reread, Continue, body
      <4> HIDE DEF next
      <4>4. QED
        BY <2>1, <3>1, <4>2, <4>3, NoJobIsNone DEF Steps
    <3>5. QED
      BY <3>2, <3>3, <3>4
  <2>4. \A a \in Answers : ~Exchange(a)
    <3> SUFFICES ASSUME NEW a \in Answers, Exchange(a) PROVE FALSE
      OBVIOUS
    <3>1. call.phase = "exchange"
      BY DEF Exchange, Reply
    <3>2. QED
      BY <1>1, <2>1, <3>1 DEF Inv, CallOK
  <2>5. Succeed
    BY <1>1, <2>1, <2>2, <2>3, <2>4
       DEF Next, World, Edit, Delete, FetchPage, SelectRow, ApplyPage, TokenEvent, Job,
           ClientMoves, Resume, Load, Begin, vars, data
  <2>6. job.step \in {"guarded", "patch"} /\ row'.cats = job.new
    BY <2>5 DEF Succeed
  <2>7. QED
    BY <1>1, <2>1, <2>6 DEF Inv, WrittenOK, Writing, JobOK
<1>2. Inv /\ Counted /\ [Next]_vars =>
         [ Succeeds =>
           /\ mail.cats \cap Labels = Merge({}, job.intent)
           /\ row'.cats \cap Labels = Merge({}, job.intent) ]_vars
  BY <1>1
<1>3. QED
  BY <1>2, Invariance, Counts, PTL DEF Spec, AppliedLabelShows

=============================================================================
