----------------------------- MODULE MCPtyShells -----------------------------
(***************************************************************************)
(* Instances of PtyShells: two calls on one named shell, the first of      *)
(* which never ends by itself, and one on another.                         *)
(***************************************************************************)
EXTENDS PtyShells, TLC
CONSTANTS s1, s2, s3, default, work, logs
MCNameOf == s1 :> work @@ s2 :> work @@ s3 :> logs
MCOutput == s1 :> 1 @@ s2 :> 1 @@ s3 :> 3
=============================================================================
