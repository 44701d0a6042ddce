----------------------------- MODULE MCToolCalls -----------------------------
(***************************************************************************)
(* Instances of ToolCalls: one call of any tool beside one `forward`.  The *)
(* second host has its own, read-only guards; a reload turns them over.    *)
(* The link starts out harmless in one state of the files, not in the next.*)
(***************************************************************************)
EXTENDS ToolCalls, TLC

CONSTANTS c1, c2, web, db, plain, secret, link, show, stop, doc, key, own, p1

Lax(ask) == [readOnly |-> FALSE, deny |-> {}, ask |-> ask, allow |-> {key, own}]
ReadOnly == [readOnly |-> TRUE, deny |-> {}, ask |-> {}, allow |-> {}]
MCGuardSets == <<[default |-> Lax({stop}), byHost |-> db :> ReadOnly],
                 [default |-> ReadOnly, byHost |-> db :> Lax({})]>>

Real(t) == (link :> t) @@ [p \in Paths |-> p]
MCTargets == <<Real(plain), Real(secret), Real(plain)>>

Filed == {"up", "dn", "cp", "ls", "stat", "tail", "wr", "mkdir", "rm"}
Spoken == {"exec", "batch", "sh", "svcChange"}
(* An argument a tool does not have is one value.                          *)
Argument(t) == [to : [host : {web, db}, path : IF t \in Filed THEN Paths ELSE {plain}],
                from : [host : {web}, path : IF t = "cp" THEN {plain, link} ELSE {plain}],
                cmd : IF t \in Spoken THEN Commands ELSE {show},
                local : IF t \in {"up", "dn", "shot"} THEN Locals ELSE {doc},
                port : {p1}, recursive : IF t = "rm" THEN BOOLEAN ELSE {FALSE}]
MCInputsOf == [t \in Tools |-> IF t = "forward" THEN {a \in Argument(t) : a.to.host = web} ELSE Argument(t)]
MCToolsOf == [c \in Calls |-> IF c = c1 THEN Tools ELSE {"forward"}]
=============================================================================
