---------------------------- MODULE MCConnectPool ----------------------------
(***************************************************************************)
(* Instances of ConnectPool: two execs and a file transfer on `inner`,     *)
(* which a reload puts behind a bastion and another removes (MCConfigs),   *)
(* or behind which a reload puts the bastion itself (MCTurned).            *)
(***************************************************************************)
EXTENDS ConnectPool, TLC

CONSTANTS bastion, inner, e1, e2, f1, o1

To(j) == [addr |-> 1, jump |-> j]
Flat == bastion :> To(Direct) @@ inner :> To(Direct)
Chain == bastion :> To(Direct) @@ inner :> To(bastion)
Alone == bastion :> To(Direct)
Turned == bastion :> To(inner) @@ inner :> To(Direct)
MCConfigs == <<Flat, Chain, Alone>>
MCTurned == <<Chain, Turned>>
MCHostOf == [c \in Calls |-> IF c = o1 THEN bastion ELSE inner]
==============================================================================
