--------------------------- MODULE CategoryPatch ---------------------------
(***************************************************************************)
(* The Outlook category of one message (writeback/categories.py,           *)
(* graph/mail.py): the message as Graph has it, its mirrored row, a user   *)
(* who edits categories in Outlook, the delta sync that refreshes the row, *)
(* and the workers that patch the label through GraphClient.               *)
(*                                                                         *)
(* Workers and the sync load the row before their transaction has the      *)
(* write lock.  A job holds the lock: one runs at a time, no sync flushes  *)
(* under it, and another worker that has loaded the row waits for it; a    *)
(* flush writes the columns that differ from the row as loaded.            *)
(* The review guard and the operation key are in Pipeline.                 *)
(***************************************************************************)
EXTENDS GraphClient, FiniteSets

CONSTANTS
    Labels,       \* the AI-* categories
    UserCats,     \* categories the user assigns
    MaxEdits,     \* bound: edits in Outlook
    MaxJobs,      \* bound: label intents
    MaxFaults,    \* bound: refused or unanswered writes, crashes
    MaxTokens     \* bound: token events

ASSUME CategoryAssumption ==
    /\ Labels \cap UserCats = {} /\ "clear" \notin Labels
    /\ MaxEdits \in Nat /\ MaxJobs \in Nat /\ MaxFaults \in Nat
    /\ MaxTokens \in Nat

VARIABLES
    mail,      \* the message in Outlook; its etag counts its versions
    row,       \* its messages row; etag 0 is NULL
    page,      \* what a running delta sync has fetched of it
    base,      \* the row as that sync has selected it
    loaded,    \* the row as the worker that is next loaded it
    job,       \* the category intent the lock holder carries out
    torn,      \* ghost: the row has an etag and categories of two versions
    edits, jobs, faults, tokens
data == <<mail, row, page, base, loaded, job, torn>>
bounds == <<edits, jobs, faults, tokens>>
vars == <<clientVars, data, bounds>>

Categories == SUBSET (Labels \cup UserCats)
Intents == Labels \cup {"clear"}
Versions == [cats : Categories, etag : Nat]
LoadedRows == [cats : Categories, etag : Nat, torn : BOOLEAN]
NoCopy == [cats |-> {}, etag |-> 0]

\* guarded: PATCH with If-Match; refetch: get_message after the mismatch;
\* reread: the GET of patch_categories without etag; patch: its PATCH.
Steps == {"guarded", "refetch", "reread", "patch"}
Unread == [torn |-> "unread"]
NoJob == [step |-> "idle"]
JobRecords ==
    [step : Steps, intent : Intents, seen : Versions,
     stale : BOOLEAN, new : Categories, body : Categories, etag : Nat,
     got : Versions]

\* Mutant: the labels already there are not stripped.
UserUnstripped(cats) == cats

User(cats) == cats \cap UserCats
Merge(cats, intent) ==
    User(cats) \cup (IF intent = "clear" THEN {} ELSE {intent})

Init ==
    /\ ClientInit
    /\ mail = [cats |-> {}, etag |-> 1, there |-> TRUE]
    /\ row \in {[cats |-> {}, etag |-> 0], [cats |-> {}, etag |-> 1]}
    /\ page = NoCopy /\ base = Unread /\ loaded = Unread
    /\ job = NoJob /\ torn = FALSE
    /\ edits = 0 /\ jobs = 0 /\ faults = 0 /\ tokens = 0

TypeOK ==
    /\ ClientTypeOK
    /\ mail \in [cats : Categories, etag : Nat, there : BOOLEAN]
    /\ row \in Versions /\ page \in Versions
    /\ base \in {Unread} \cup Versions
    /\ loaded \in {Unread} \cup LoadedRows
    /\ job \in JobRecords \cup {NoJob} /\ torn \in BOOLEAN

-----------------------------------------------------------------------------
(* The world: Outlook and the delta sync.                                  *)

\* The user adds or removes one of their own categories.
Edit(c) ==
    /\ mail.there /\ edits < MaxEdits /\ edits' = edits + 1
    /\ mail' = [mail EXCEPT !.etag = @ + 1,
                            !.cats = IF c \in @ THEN @ \ {c} ELSE @ \cup {c}]
    /\ UNCHANGED <<clientVars, row, page, base, loaded, job, torn, jobs,
                   faults, tokens>>

\* The user deletes the message for good.
Delete ==
    /\ mail.there /\ edits < MaxEdits /\ edits' = edits + 1
    /\ mail' = [mail EXCEPT !.there = FALSE]
    /\ UNCHANGED <<clientVars, row, page, base, loaded, job, torn, jobs,
                   faults, tokens>>

\* The unit of work writes a column only when the value set on it differs
\* from the one the session loaded.
Column(new, before, current) == IF new # before THEN new ELSE current

\* A sync is delivered the message: the one that has selected the row, or one
\* that starts over.
FetchPage ==
    /\ mail.there /\ page.etag # mail.etag
    /\ page' = [cats |-> mail.cats, etag |-> mail.etag]
    /\ base' \in {base, Unread}
    /\ UNCHANGED <<clientVars, mail, row, loaded, job, torn, bounds>>

\* _upsert_message: the row as committed, with no lock.
SelectRow ==
    /\ page # NoCopy /\ base = Unread
    /\ base' = row
    /\ UNCHANGED <<clientVars, mail, row, page, loaded, job, torn, bounds>>

\* A column that the flush leaves alone has changed since the SELECT.
Overtaken == \/ page.cats = base.cats /\ row.cats # base.cats
             \/ page.etag = base.etag /\ row.etag # base.etag

\* Mutant: an empty category list counts as no value and is not stored.
ApplyPageFilled ==
    /\ base # Unread /\ job = NoJob
    /\ row' = [cats |-> IF page.cats = {} THEN row.cats
                        ELSE Column(page.cats, base.cats, row.cats),
               etag |-> Column(page.etag, base.etag, row.etag)]
    /\ torn' = (Overtaken /\ (torn \/ row' # row))
    /\ page' = NoCopy /\ base' = Unread
    /\ UNCHANGED <<clientVars, mail, loaded, job, bounds>>

\* The flush of the sync, maybe much later, when nobody has the lock.
ApplyPage ==
    /\ base # Unread /\ job = NoJob
    /\ row' = [cats |-> Column(page.cats, base.cats, row.cats),
               etag |-> Column(page.etag, base.etag, row.etag)]
    /\ torn' = (Overtaken /\ (torn \/ row' # row))
    /\ page' = NoCopy /\ base' = Unread
    /\ UNCHANGED <<clientVars, mail, loaded, job, bounds>>

TokenEvent ==
    /\ tokens < MaxTokens /\ tokens' = tokens + 1
    /\ TokenChanges /\ UNCHANGED <<data, edits, jobs, faults>>

-----------------------------------------------------------------------------
(* The job.                                                                *)

\* _latest_message_for_conv: the row, before the first INSERT of the run.
Load ==
    /\ loaded = Unread /\ jobs < MaxJobs
    /\ loaded' = [cats |-> row.cats, etag |-> row.etag, torn |-> torn]
    /\ UNCHANGED <<clientVars, mail, row, page, base, job, torn, bounds>>

\* apply_category_intent up to its first call.  The lists are compared with
\* their order: the same categories with the label in front of a user's are
\* patched again.
Begin(intent) ==
    /\ loaded # Unread /\ job = NoJob
    /\ jobs < MaxJobs /\ jobs' = jobs + 1
    /\ LET seen == [cats |-> loaded.cats, etag |-> loaded.etag]
           new == Merge(seen.cats, intent)
           wanted == new # seen.cats \/ (intent # "clear" /\ User(new) # {})
       IN  /\ \/ new = seen.cats /\ job' = NoJob /\ UNCHANGED call
              \/ /\ wanted
                 /\ job' = [step |-> IF seen.etag # 0 THEN "guarded"
                                     ELSE "reread",
                            intent |-> intent, seen |-> seen,
                            stale |-> loaded.torn, new |-> new, body |-> new,
                            etag |-> seen.etag, got |-> NoCopy]
                 /\ call' = Start(IF seen.etag # 0 THEN "PATCH" ELSE "GET")
           /\ loaded' = Unread
    /\ UNCHANGED <<token, mail, row, page, base, torn, edits, faults, tokens>>

\* What Graph answers to the request on the wire, and what it does to the
\* message.  A PATCH without an answer, or that a gateway gives up on, may
\* have been carried out.
Matches == job.step = "guarded" => mail.etag = job.seen.etag
Patched == [mail EXCEPT !.cats = job.body, !.etag = @ + 1]
Fault == faults < MaxFaults /\ faults' = faults + 1
Writes == call.method = "PATCH" /\ mail.there /\ Matches /\ token = "live"

Exchange(a) ==
    /\ job # NoJob /\ Reply(a)
    /\ a = "missing" => ~mail.there
    /\ a = "mismatch" => mail.there /\ call.method = "PATCH" /\ ~Matches
    /\ a = "ok" => mail.there /\ (call.method = "PATCH" => Matches)
    /\ \/ a = "ok" /\ call.method = "PATCH" /\ mail' = Patched
          /\ UNCHANGED faults
       \/ a = "lost" /\ Writes /\ mail' = Patched /\ Fault
       \/ a = "refused" /\ UNCHANGED mail /\ Fault
       \/ /\ a # "refused" /\ ~(a = "ok" /\ call.method = "PATCH")
          /\ UNCHANGED <<mail, faults>>
    /\ job' = IF call.method = "GET"
              THEN [job EXCEPT !.got = IF a = "ok"
                                       THEN [cats |-> mail.cats,
                                             etag |-> mail.etag]
                                       ELSE NoCopy]
              ELSE job
    /\ UNCHANGED <<row, page, base, loaded, torn, edits, jobs, tokens>>

ClientMoves == job # NoJob /\ ClientStep /\ UNCHANGED <<data, bounds>>

\* After a call: the next one.
Continue(step, method, next) ==
    /\ job' = [next EXCEPT !.step = step]
    /\ call' = Start(method)
    /\ UNCHANGED <<token, mail, row, page, base, loaded, torn, bounds>>

\* Mutant: after a 412 the guarded PATCH is sent once more.
MismatchedAgain ==
    /\ job.step = "guarded" /\ call.outcome = "mismatch"
    /\ Continue("guarded", "PATCH", job)

\* 412: the message is fetched again ...
Mismatched ==
    /\ job.step = "guarded" /\ call.outcome = "mismatch"
    /\ Continue("refetch", "GET", job)

\* Mutant: the refetch only brings the etag.
RemergeNothing ==
    /\ job.step = "refetch" /\ call.outcome \in {"answer", "null"}
    /\ Continue("reread", "GET",
          IF job.got = NoCopy THEN job
          ELSE [job EXCEPT !.etag = job.got.etag, !.got = NoCopy])

\* ... and merged again, unless it is gone; patch_categories without an etag
\* then reads it once more.
Remerge ==
    /\ job.step = "refetch" /\ call.outcome \in {"answer", "null"}
    /\ Continue("reread", "GET",
          IF job.got = NoCopy THEN job
          ELSE [job EXCEPT !.new = Merge(job.got.cats, job.intent),
                           !.etag = job.got.etag, !.got = NoCopy])

\* Mutant: the labels just read are sent back too.
RereadAll ==
    /\ job.step = "reread" /\ call.outcome \in {"answer", "null"}
    /\ Continue("patch", "PATCH",
          [job EXCEPT !.got = NoCopy, !.body = job.got.cats \cup job.new])

\* The categories sent are the user's as just read, with the merged ones.
Reread ==
    /\ job.step = "reread" /\ call.outcome \in {"answer", "null"}
    /\ Continue("patch", "PATCH",
          [job EXCEPT !.got = NoCopy,
                      !.body = (IF job.got = NoCopy THEN {}
                                ELSE User(job.got.cats)) \cup job.new])

\* The row at the end of the job: the unit of work writes the etag only when
\* it differs from the one loaded.
Etag == Column(job.etag, job.seen.etag, row.etag)
JobOver ==
    /\ job' = NoJob /\ call' = Idle
    /\ UNCHANGED <<token, mail, page, base, loaded, bounds>>

Succeed ==
    /\ job.step \in {"guarded", "patch"} /\ call.outcome = "answer"
    /\ row' = [cats |-> job.new, etag |-> Etag] /\ torn' = FALSE
    /\ JobOver

\* apply.py records the failure and commits the rest of the unit of work,
\* with the etag the refetch left on the message and the categories it had.
Fail ==
    /\ call.outcome = "error"
    /\ row' = [row EXCEPT !.etag = Etag]
    /\ torn' = (torn \/ job.etag # job.seen.etag)
    /\ JobOver

Resume ==
    /\ job # NoJob /\ call.phase = "done"
    /\ (Mismatched \/ Remerge \/ Reread \/ Succeed \/ Fail)

\* The process dies, or a later step of the run raises: rollback.
Crash ==
    /\ job # NoJob /\ Fault
    /\ job' = NoJob /\ call' = Idle
    /\ UNCHANGED <<token, mail, row, page, base, loaded, torn, edits, jobs,
                   tokens>>

World == \/ \E c \in UserCats : Edit(c)
         \/ Delete
         \/ FetchPage
         \/ SelectRow
         \/ ApplyPage
         \/ TokenEvent
         \/ Crash
Job == \/ \E a \in Answers : Exchange(a)
       \/ ClientMoves
       \/ Resume
Next == World \/ Job \/ Load \/ (\E i \in Intents : Begin(i))

\* A running job goes on: the client's timeout answers what nobody answers.
Spec == Init /\ [][Next]_vars /\ WF_vars(Job)

-----------------------------------------------------------------------------
\* "remove every other AI-* category to avoid stacking": whatever races with
\* what, Outlook never shows two labels.
OneLabel == Cardinality(mail.cats \cap Labels) <= 1

\* What If-Match relies on: a row with the current etag has the current
\* categories, unless a failed job left a refetched etag on old ones, or a
\* sync flushed only part of its page over a row that changed since its SELECT.
EtagVouches == ~torn /\ row.etag = mail.etag => row.cats = mail.cats

\* A PATCH takes a user's edit back only when it goes out without If-Match
\* and the message changed after the fetch it was merged from, or when it
\* was merged from a row whose etag and categories are of two versions.
LostEditsAreAccounted ==
    [][ /\ edits' = edits
        /\ User(mail'.cats) # User(mail.cats)
        => \/ job.step = "guarded" /\ job.stale
           \/ job.step = "patch" /\ job.etag # mail.etag ]_vars

\* A job that ends well leaves exactly its label, in Outlook and in the row,
\* even when its own lost PATCH is what it collided with.
Succeeds == job # NoJob /\ job' = NoJob /\ faults' = faults
                /\ call.outcome = "answer"
AppliedLabelShows ==
    [][ Succeeds =>
        /\ mail.cats \cap Labels = Merge({}, job.intent)
        /\ row'.cats \cap Labels = Merge({}, job.intent) ]_vars

\* The write lock is not kept for ever: a job ends, whatever Graph answers.
JobEnds == job # NoJob ~> job = NoJob

=============================================================================
