----------------------------- MODULE MCTransfers -----------------------------
(***************************************************************************)
(* Instances of Transfers: an upload, a striped copy and a shorter upload. *)
(***************************************************************************)
EXTENDS Transfers

CONSTANTS up1, cp1, up2

MCSize == [t \in Transfers |-> IF t = up2 THEN {1} ELSE {1, 2}]
==============================================================================
