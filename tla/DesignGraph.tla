---------------------------- MODULE DesignGraph ----------------------------
(***************************************************************************)
(* The documents of a design, their levels and the rules that make a set   *)
(* of them a valid design graph: design-level.js, design-contracts.js,     *)
(* design-auditor.js and design-readiness.js of src/pipeline.              *)
(*                                                                         *)
(* Abstractions: a document is its type and its payload; all revisions are *)
(* revision 1 and all documents of a design share its source, as the       *)
(* commands require.  Schema, hash, asset and entity-identity rules speak  *)
(* of one document and are taken as met by every payload; the references   *)
(* between documents, the exceptions to binding rules and the closure of   *)
(* the final approval, which relate several documents, are kept.  What the *)
(* auditor finds inside one document is a constant of its payload.         *)
(***************************************************************************)
EXTENDS Naturals, FiniteSets

CONSTANTS
    Payloads,
    LevelOf,        \* LevelOf[p]: orchestration.level of a brief with payload p
    Overriding,     \* screens that override a binding rule under an exception
    Granting,       \* approvals that grant the exceptions of the design
    Gaps,           \* payloads with a blocking finding of auditCoverage
    Orphans,        \* payloads with a non-blocking one
    Reports         \* Reports[p]: the status an audit with payload p declares

Levels == {"NOT_APPLICABLE", "LITE", "STANDARD", "CRITICAL"}

ASSUME GraphAssumption ==
    /\ LevelOf \in [Payloads -> Levels]
    /\ Overriding \union Granting \union Gaps \union Orphans \subseteq Payloads
    /\ Reports \in [Payloads -> {"PASS", "WARN", "FAIL"}]

-----------------------------------------------------------------------------
(* Levels *)

LiteTypes == {"design-brief", "user-flow", "design-system", "screen-spec",
              "design-audit", "design-approval"}
StandardTypes == LiteTypes \union {"ux-analysis", "information-architecture",
              "wireframe-plan", "visual-direction", "prototype-manifest"}
CriticalTypes == StandardTypes \union {"usability-evidence"}

Required(level) ==
    CASE level = "NOT_APPLICABLE" -> {"design-brief"}
      [] level = "LITE" -> LiteTypes
      [] level = "STANDARD" -> StandardTypes
      [] level = "CRITICAL" -> CriticalTypes

Types == CriticalTypes
Closing == {"design-audit", "design-approval"}
NonFinal(level) == Required(level) \ {"design-approval"}

DirectionTypes == {"design-brief", "ux-analysis", "information-architecture",
                   "user-flow", "wireframe-plan", "visual-direction"}
SystemTypes == DirectionTypes \union {"design-system"}

(* ui: a user-interface target or an affected surface; na: the declared    *)
(* source is NOT_APPLICABLE.                                               *)
Classification ==
    [scope : {"project", "feature"}, ui : BOOLEAN, risk : {"NONE", "STANDARD", "CRITICAL"},
     requested : Levels \union {"AUTO"}, na : BOOLEAN]

Recommended(c) ==
    CASE ~c.ui -> "NOT_APPLICABLE"
      [] c.ui /\ c.risk = "NONE" -> "LITE"
      [] c.ui /\ c.risk # "NONE" -> c.risk

(* A request below a critical recommendation takes effect only once it is  *)
(* approved.                                                               *)
NeedsDowngrade(c) ==
    Recommended(c) = "CRITICAL" /\ c.requested \notin {"AUTO", "CRITICAL"}

Effective(c) ==
    CASE c.requested = "AUTO" -> Recommended(c)
      [] NeedsDowngrade(c) -> "CRITICAL"
      [] OTHER -> c.requested

Classifiable(c) ==
    /\ ~(c.ui /\ c.requested = "NOT_APPLICABLE")
    /\ c.na => Effective(c) = "NOT_APPLICABLE"
    /\ (~c.ui /\ Effective(c) = "NOT_APPLICABLE") => c.na

-----------------------------------------------------------------------------
(* Documents and graphs *)

Document == [type : Types, payload : Payloads]

TypesOf(g) == {d.type : d \in g}
OfType(g, types) == {d \in g : d.type \in types}
Single(g) == \A d, e \in g : d.type = e.type => d = e

(* The envelope inputs of a document: INPUT_TYPES_BY_DOCUMENT.             *)
InputsOf(t) ==
    CASE t = "design-brief" -> {}
      [] t \in {"ux-analysis", "user-flow", "visual-direction", "design-system"}
            -> {"design-brief"}
      [] t = "information-architecture" -> {"design-brief", "screen-spec"}
      [] t = "wireframe-plan" -> {"design-brief", "user-flow", "screen-spec"}
      [] t = "screen-spec" -> {"design-brief", "user-flow", "design-system"}
      [] t = "prototype-manifest" -> {"screen-spec"}
      [] t = "usability-evidence" -> {"user-flow", "prototype-manifest"}
      [] t = "design-audit" -> {"design-system", "screen-spec"}
      [] t = "design-approval" -> {"design-audit"}

(* What the content names beyond the inputs: the steps of a flow name      *)
(* screens, the audit and the approval name every document they cover.     *)
NamedBy(t, level) ==
    CASE t = "user-flow" -> {"screen-spec"}
      [] t = "design-audit" -> Required(level) \ Closing
      [] t = "design-approval" -> NonFinal(level)
      [] OTHER -> {}

LevelIn(g) == LevelOf[(CHOOSE d \in g : d.type = "design-brief").payload]

(* referenceFindings, linkedEntityFindings, approvalGraphFindings          *)
Linked(g) ==
    \A d \in g : InputsOf(d.type) \union NamedBy(d.type, LevelIn(g)) \subseteq TypesOf(g)

(* approvalClosure: an approval stands in exactly the graph of its level.  *)
Closed(g) ==
    "design-approval" \in TypesOf(g) =>
        /\ LevelIn(g) # "NOT_APPLICABLE"
        /\ TypesOf(g) = Required(LevelIn(g))

(* bindingFindings: an exception counts only with a grant in the graph.    *)
Authorized(g) ==
    (\E d \in g : d.type = "screen-spec" /\ d.payload \in Overriding) =>
        \E d \in g : d.type = "design-approval" /\ d.payload \in Granting

Briefed(g) == "design-brief" \in TypesOf(g)

(* validateDesignArtifact and validateDesignSystemRules on every document. *)
ValidGraph(g) ==
    g # {} => /\ Briefed(g)
              /\ Single(g)
              /\ Linked(g)
              /\ Closed(g)
              /\ Authorized(g)

(* assertExactLevelGraph *)
ExactGraph(g, level) ==
    /\ Single(g)
    /\ TypesOf(g) = Required(level)
    /\ LevelIn(g) = level

-----------------------------------------------------------------------------
(* Audit and readiness *)

Work(g) == {d \in g : d.type \notin Closing}

(* auditCoverage: what it finds in the content of single documents.        *)
Uncovered(g) == \E d \in Work(g) : d.payload \in Gaps
Untraversed(g) == \E d \in Work(g) : d.payload \in Orphans

(* auditDesign looks at the work alone, never at its audit and approval.   *)
AuditStatus(g) ==
    CASE \/ ~ValidGraph(Work(g))
         \/ TypesOf(Work(g)) # Required(LevelIn(g)) \ Closing
         \/ Uncovered(g) -> "FAIL"
      [] OTHER -> IF Untraversed(g) THEN "WARN" ELSE "PASS"

(* auditFailures: the audit in the graph says what a fresh audit finds.    *)
AuditHonest(g) ==
    \E d \in g : d.type = "design-audit" /\ Reports[d.payload] = AuditStatus(g)

(* approvalFailures: the approval in the graph covers exactly the graph.   *)
ApprovalStands(g) == "design-approval" \in TypesOf(g) /\ ValidGraph(g)

(* evaluateDesignReadiness on a persisted graph, issue traces left out.    *)
DesignReady(g) ==
    /\ Briefed(g)
    /\ AuditStatus(g) # "FAIL"
    /\ LevelIn(g) # "NOT_APPLICABLE" => AuditHonest(g) /\ ApprovalStands(g)
=============================================================================
