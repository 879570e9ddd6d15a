------------------------------ MODULE MCDesign ------------------------------
(***************************************************************************)
(* Instances of Design.  The graph A is an ordinary LITE design, B another *)
(* one for the same feature whose screen overrides a binding rule, C one   *)
(* whose exception nobody grants.  Of B only direction and system are      *)
(* signed.                                                                 *)
(***************************************************************************)
EXTENDS Design

MCPayloads == {"lite", "na", "std", "crit", "p", "o", "g"}

MCLevelOf ==
    [p \in MCPayloads |->
        CASE p = "na" -> "NOT_APPLICABLE" [] p = "std" -> "STANDARD"
          [] p = "crit" -> "CRITICAL" [] OTHER -> "LITE"]

MCBriefOf == [NOT_APPLICABLE |-> "na", LITE |-> "lite", STANDARD |-> "std", CRITICAL |-> "crit"]

MCReports == [p \in MCPayloads |-> IF p = "o" THEN "FAIL" ELSE "PASS"]

(* The graph of a level; odd gives the payload of the types it names.      *)
Graph(brief, level, odd) ==
    {[type |-> t, payload |-> IF t = "design-brief" THEN brief
                              ELSE IF t \in DOMAIN odd THEN odd[t] ELSE "p"] :
        t \in Required(level)}

Plain == <<>>
A == Graph("lite", "LITE", Plain)
B == Graph("lite", "LITE", ("screen-spec" :> "o") @@ ("design-audit" :> "o")
                             @@ ("design-approval" :> "g"))
C == Graph("lite", "LITE", "screen-spec" :> "o")
Na == Graph("na", "NOT_APPLICABLE", Plain)
Std == Graph("std", "STANDARD", Plain)

MCGraphs == {A, B, C, Na, Std}

Sign(kind, level, g) ==
    [kind |-> kind, level |-> level, docs |-> OfType(g, BoundTypes(kind, level))]

MCSigned ==
    {Sign(k, "LITE", A) : k \in Kinds}
        \union {Sign(k, "LITE", B) : k \in {"VISUAL_DIRECTION", "DESIGN_SYSTEM"}}
        \union {Sign(k, "STANDARD", Std) : k \in Kinds \ {"CRITICAL_DOWNGRADE"}}

(* Beside them a final approval for B that nobody trusted has signed, and  *)
(* a direction approval for another level.                                 *)
MCRecords == MCSigned \union {Sign("FINAL", "LITE", B), Sign("VISUAL_DIRECTION", "STANDARD", A)}

Class(scope, ui, risk, requested) ==
    [scope |-> scope, ui |-> ui, risk |-> risk, requested |-> requested, na |-> ~ui]

MCClasses ==
    {Class("project", TRUE, "NONE", "AUTO"), Class("project", FALSE, "NONE", "AUTO"),
     Class("project", TRUE, "STANDARD", "AUTO"), Class("project", TRUE, "CRITICAL", "LITE"),
     Class("feature", TRUE, "NONE", "LITE"), Class("feature", FALSE, "NONE", "AUTO"),
     Class("feature", TRUE, "CRITICAL", "LITE")}
=============================================================================
