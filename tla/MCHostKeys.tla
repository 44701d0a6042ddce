------------------------------ MODULE MCHostKeys ------------------------------
(***************************************************************************)
(* Instances of HostKeys: three handshakes that may pin a key, two of them *)
(* to an endpoint three aliases share, and one to it under the alias an    *)
(* old file pins, which gets a fingerprint in hosts.toml.                  *)
(***************************************************************************)
EXTENDS HostKeys, TLC
CONSTANTS h1, h2, h3, h4, web, www, db, old, e1, e2, k1, k2
MCAliasOf == h1 :> web @@ h2 :> www @@ h3 :> db @@ h4 :> old
MCEndpointOf == h1 :> e1 @@ h2 :> e1 @@ h3 :> e2 @@ h4 :> e1
MCConfigKeys == [a \in Aliases |-> IF a = old THEN {NoKey, k1} ELSE {NoKey}]
MCModesFor == [a \in Aliases |-> CASE a = old -> {"off", "strict"} [] a = db -> {"strict", "tofu"} [] OTHER -> {"tofu"}]
MCLegacy == [a \in Aliases |-> IF a = old THEN k1 ELSE NoKey]
=============================================================================
