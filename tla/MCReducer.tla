----------------------------- MODULE MCReducer -----------------------------
(***************************************************************************)
(* Runs the reducer on every input of a finite family, one input per       *)
(* behaviour: an allowed prior pair, what its task pointer shows, and up   *)
(* to MaxDetected pieces of detected evidence.                             *)
(***************************************************************************)
EXTENDS Reducer, FiniteSets

CONSTANTS MaxDetected,     \* bound on the evidence detected at once
          Signals,         \* the evidence a run may detect
          InjectedSets,    \* what callers may inject
          Targets          \* overrides tried besides NoOverride

\* detect_evidence never reports an override: only an operator asks for one.
ASSUME FamilyAssumption ==
    /\ Signals \subseteq Evidence \ {"override"}
    /\ InjectedSets \subseteq SUBSET Evidence
    /\ Targets \subseteq Overrides

\* Two overrides an operator could ask for, the second with a forbidden pair.
MCTargets == {[state |-> "done", bucket |-> "Act"],
              [state |-> "act_open", bucket |-> "null"]}

VARIABLES inp, out
vars == <<inp, out>>

Idle == [row |-> 999]

Pointers == {[task |-> FALSE, completion |-> "none"]}
              \cup [task : {TRUE}, completion : Completions]

Init == inp = Idle /\ out = Idle

Call == \E p \in AllowedPairs, t \in Pointers, i \in InjectedSets,
           o \in Targets \cup {NoOverride}, h \in SUBSET Hints,
           d \in {s \in SUBSET Signals : Cardinality(s) <= MaxDetected} :
          /\ h # {} => p[1] \in {"done", "delegate_open"}
          /\ inp' = [state |-> p[1], bucket |-> p[2], task |-> t.task,
                     completion |-> t.completion, detected |-> d,
                     injected |-> i, override |-> o, hints |-> h]
          /\ out' = Reduce(inp')

Next == out = Idle /\ Call
Spec == Init /\ [][Next]_vars

-----------------------------------------------------------------------------
Called == out # Idle
All == inp.detected \cup inp.injected

\* Every input is in the input type and every result in the result type.
TypeOK == Called => inp \in Inputs /\ out \in Results

\* G5: the table never asks for a forbidden (state, bucket) pair; reduce()
\* only raises for an override nobody validated, for an injected override
\* without a target, or on a soft window stored without a time zone.
NoContractError ==
    Called /\ out.raised =>
        \/ inp.override # NoOverride
        \/ "override" \in inp.injected
        \/ inp.state = "done" /\ inp.completion = "soft_naive"

\* I4: tiers are total-ordered, without blending: dropping all evidence but that
\* of the best tier (and the annotations) changes nothing.  The guard of T063
\* reads injected evidence of any tier and is left out.
LowerTiersNeverDecide ==
    Called /\ inp.injected = {} =>
        LET top == {e \in inp.detected :
                       Tier[e] # 99 => \A f \in inp.detected : Tier[e] <= Tier[f]}
        IN  Reduce([inp EXCEPT !.detected = top]) = out

\* I6: an operation key fixes the effect it stands for, so skipping a second
\* use of a key cannot skip a different effect: a To Do key of a kind that
\* needs a list fixes the list, and a category key fixes the label.
KeyFixesEffect ==
    Called /\ ~out.raised =>
        /\ out.task \in {"create", "move_list"} /\ out.next # "done" =>
               out.target = Home[out.tkey[2]]
        /\ out.category = "apply" => out.label = out.ckey[2]

\* I7/I3: whatever else was seen, a lag report or a conflict stops every
\* writeback and leaves the bucket as it was, and a review stays closed to
\* evidence.
ReviewStopsWriteback ==
    Called /\ inp.override = NoOverride
           /\ (inp.state = "needs_review" \/ All \cap {"lag", "conflict"} # {})
        => /\ out.next = "needs_review" /\ out.bucket = inp.bucket
           /\ out.task \in {"noop", "dead_letter"} /\ out.category = "noop"

\* Tier 2 opens: a winning ask ends in the open state of its own kind, with
\* a To Do task kept, moved, reopened or created for it, unless the thread
\* is under review, known noise, finished with nothing to reopen, or
\* delegated and asked for a reply, which leaves it with the delegate.
AskOpens ==
    Called /\ out.winning \in DOMAIN AskState /\ ~out.raised
           /\ out.next # "needs_review"
           /\ ~(inp.state = "done" /\ inp.completion = "none")
           /\ ~(inp.state = "delegate_open" /\ out.winning = "reply") =>
        /\ out.next = AskState[out.winning]
        /\ out.task \in {"create", "update_fields", "move_list", "reopen"}

=============================================================================
