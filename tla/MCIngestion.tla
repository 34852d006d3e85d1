---------------------------- MODULE MCIngestion ----------------------------
(***************************************************************************)
(* The instance TLC checks: a message of Inbox, the folder the poll syncs  *)
(* last; its second change sets back what its first one set.               *)
(***************************************************************************)
EXTENDS Ingestion, TLC

CONSTANTS m1, sent, inbox

MCConvOf == m1 :> 2
MCFolderOf == m1 :> inbox
MCContentOf == [v \in 0..4 |-> v % 2]
MCOrder == <<sent, inbox>>

=============================================================================
