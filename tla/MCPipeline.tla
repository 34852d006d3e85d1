----------------------------- MODULE MCPipeline -----------------------------
(* The evidence the checked instances of Pipeline run on.                  *)
EXTENDS Pipeline

Heard(S) == {{e} : e \in S}

\* The evidence a pipeline run detects one piece at a time ...
AnySignal == {{}} \cup
    Heard({"deliverable", "reply", "replied", "explicit", "soft", "defer",
           "bulk", "fyi", "handoff", "conflict"})

\* ... and what two workers race on.
RaceSignals == Heard({"deliverable", "reply", "defer", "explicit", "conflict"})

\* Asks alone, and with what closes or parks them.
AskSignals == Heard({"deliverable", "reply"})
ReviewSignals == Heard({"deliverable", "conflict"})
ReopenSignals == Heard({"deliverable", "reply", "defer"})
=============================================================================
