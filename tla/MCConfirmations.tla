--------------------------- MODULE MCConfirmations ---------------------------
(***************************************************************************)
(* Instances of Confirmations: an exec, a batch and a multi-round batch;   *)
(* a reload puts one more command under the pattern and denies another.    *)
(***************************************************************************)
EXTENDS Confirmations

CONSTANTS stop, wipe, halt, danger, ex, ba, mu

MCCmds == {stop, wipe, halt}
MCCmdsOf == [c \in Calls |-> IF c = ex THEN <<halt>> ELSE IF c = ba THEN <<stop, wipe>> ELSE <<stop, wipe, halt>>]

Before == [d \in MCCmds |-> IF d = wipe THEN "allow" ELSE danger]
After == [d \in MCCmds |-> IF d = halt THEN "deny" ELSE danger]
MCGuardSets == <<Before, After>>
MCPlainSets == <<Before>>
==============================================================================
