--------------------------- MODULE SpecDocuments ---------------------------
(***************************************************************************)
(* The documents between the PM analysis and the issues, and the five      *)
(* validators that judge them: architecture.js, issue-plan.js,             *)
(* spec-auditor.js, traceability.js and readiness.js of src/pipeline.      *)
(* What module Analysis takes as constants (Design, Outline) is computed   *)
(* here from the documents.                                                *)
(*                                                                         *)
(* A bundle b is what a validator is given: the questions b.asked of the   *)
(* PM analysis, the architecture b.arch with its ADRs, the ADRs b.approved *)
(* by an authority, the decision package b.package or None, and the issue  *)
(* plan b.plan.                                                            *)
(*                                                                         *)
(* Abstractions: an entity is its id, unique in its document; of the PM    *)
(* analysis, valid by itself, only the open questions vary.  Schema and    *)
(* hash rules speak of one document and are taken as met; so are the       *)
(* texts, and with them the rules on repeated meanings, except that of an  *)
(* epic candidate.                                                         *)
(***************************************************************************)
EXTENDS DecisionPackage

CONSTANTS
    Functional, NonFunctional, Limits,  \* requirements of the PM analysis
    Asks,           \* Asks[q]: the requirements architecture question q affects
    Candidates,     \* epic candidates of the PM analysis
    Adrs

Requirements == Functional \union NonFunctional \union Limits
ArchQuestions == DOMAIN Asks

(* architectureQuestionLinkFindings                                        *)
ASSUME PmAssumption ==
    \A q \in ArchQuestions :
        /\ Asks[q] \subseteq Functional \union Limits
        /\ Asks[q] \intersect Functional # {} /\ Asks[q] \intersect Limits # {}

(* The ids of different kinds of entities differ (the id patterns of the   *)
(* schemas), those of a PM analysis from each other.                       *)
ASSUME KindAssumption ==
    /\ IsFiniteSet(Requirements) /\ IsFiniteSet(ArchQuestions)
    /\ Requirements \intersect ArchQuestions = {}
    /\ (Requirements \union ArchQuestions) \intersect Adrs = {}

(* adr.v1.schema.json: an ADR resolves a question.                         *)
AdrsWellFormed(a) ==
    /\ DOMAIN a.adrs \subseteq Adrs /\ IsFiniteSet(DOMAIN a.adrs)
    /\ \A d \in DOMAIN a.adrs : a.adrs[d].questions # {}

(* issue-plan.v1.schema.json: a criterion verifies a requirement, and ids  *)
(* tell the kinds of entities apart.                                       *)
PlanWellFormed(p) ==
    LET kinds == <<Requirements \union ArchQuestions \union Adrs,
                   DOMAIN p.epics, DOMAIN p.issues, DOMAIN p.criteria>>
    IN  /\ \A k \in 2..4 : IsFiniteSet(kinds[k])
        /\ \A k, l \in 1..4 : k # l => kinds[k] \intersect kinds[l] = {}
        /\ \A c \in DOMAIN p.criteria : p.criteria[c].verifies # {}

BlockingQuestions(b) == {q \in b.asked : Blocking(Facts[q].severity)}

-----------------------------------------------------------------------------
(* Architecture and ADRs.  An architecture a copies PM entities, affects   *)
(* requirements, answers a.questions[q] \in BOOLEAN (resolved), has        *)
(* unresolved findings of severities a.open and comes with a.adrs.         *)

SettledBy(package) == IF package = None THEN {} ELSE Settled(package)

(* ADR_STATUS_APPROVAL_MATRIX                                              *)
StatusApproval ==
    {<<"proposed", "pending">>, <<"accepted", "approved">>, <<"blocked", "pending">>,
     <<"superseded", "approved">>, <<"rejected", "rejected">>}

AnsweredBy(a) == {q \in DOMAIN a.questions : a.questions[q]}

(* assertExactPmSnapshots                                                  *)
PmCopied(a) == a.copied = Requirements

(* architectureLinkFindings                                                *)
LinksResolve(a) ==
    /\ a.affected \subseteq Requirements
    /\ DOMAIN a.questions \subseteq ArchQuestions

(* adrSemanticFindings and adrStatusApprovalFindings                       *)
AdrsSound(a) ==
    \A d \in DOMAIN a.adrs :
        /\ a.adrs[d].questions \subseteq AnsweredBy(a)
        /\ a.adrs[d].affected \subseteq Requirements
        /\ <<a.adrs[d].status, a.adrs[d].approval>> \in StatusApproval

(* validateArchitecture(...).valid                                         *)
ArchitectureValid(b) ==
    /\ PmCopied(b.arch) /\ LinksResolve(b.arch) /\ AdrsSound(b.arch)
    /\ b.approved \subseteq DOMAIN b.arch.adrs
    /\ b.package # None => CanContinue(b.package)

DeclaredApproved(a, d) == a.adrs[d].status = "accepted" /\ a.adrs[d].approval = "approved"

Approved(b) == {d \in DOMAIN b.arch.adrs : d \in b.approved \/ DeclaredApproved(b.arch, d)}

ResolvedByAdr(a) == UNION {a.adrs[d].questions : d \in DOMAIN a.adrs}

(* architectureReadinessFindings                                           *)
AdrsReady(b) ==
    /\ DOMAIN b.arch.adrs # {}
    /\ Approved(b) = DOMAIN b.arch.adrs
    /\ \A d \in DOMAIN b.arch.adrs : b.arch.adrs[d].status # "blocked"
    /\ ArchQuestions \subseteq AnsweredBy(b.arch)
    /\ AnsweredBy(b.arch) \subseteq ResolvedByAdr(b.arch)

(* validateArchitecture(...).complete                                      *)
ArchitectureComplete(b) ==
    /\ ArchitectureValid(b)
    /\ BlockingQuestions(b) \subseteq SettledBy(b.package)
    /\ \A s \in b.arch.open : ~Blocking(s)
    /\ AdrsReady(b)

-----------------------------------------------------------------------------
(* Issue plans.  A plan p binds p.inputs, the ADRs it was written for; its *)
(* epics have source requirements, its issues an epic (or None), sources,  *)
(* criteria, ADRs and dependencies, its criteria an issue and what they    *)
(* verify; p.renamed are the candidate ids it gives to other epics.        *)

Sourced(p) == UNION {p.issues[i].sources : i \in DOMAIN p.issues}
Verified(p) == UNION {p.criteria[c].verifies : c \in DOMAIN p.criteria}
OwnedBy(p, i) ==
    {c \in p.issues[i].criteria \intersect DOMAIN p.criteria : p.criteria[c].issue = i}

(* What the schema asks of an issue, and the auditor asks again            *)
IssueComplete(p, i) ==
    /\ p.issues[i].criteria # {}
    /\ p.issues[i].requires => p.issues[i].adrs # {}
    /\ p.issues[i].sources # {} \/ p.issues[i].governance

(* The references of a plan lead somewhere; criteria and issues name each  *)
(* other.                                                                  *)
ReferencesResolve(p, a) ==
    /\ \A e \in DOMAIN p.epics : p.epics[e] \subseteq Requirements /\ p.epics[e] # {}
    /\ \A i \in DOMAIN p.issues :
          /\ p.issues[i].epic # None => p.issues[i].epic \in DOMAIN p.epics
          /\ p.issues[i].sources \subseteq Requirements
          /\ p.issues[i].adrs \subseteq DOMAIN a.adrs
          /\ p.issues[i].dependencies \subseteq DOMAIN p.issues
          /\ OwnedBy(p, i) = p.issues[i].criteria
    /\ \A c \in DOMAIN p.criteria :
          /\ p.criteria[c].issue \in DOMAIN p.issues
          /\ c \in p.issues[p.criteria[c].issue].criteria
          /\ p.criteria[c].verifies \subseteq Requirements

(* dependencyCycle                                                         *)
Startable(p) ==
    Acyclic(DOMAIN p.issues,
            {x \in (DOMAIN p.issues) \X (DOMAIN p.issues) :
                x[1] \in p.issues[x[2]].dependencies})

(* finalEpicCandidateFindings                                              *)
CandidatesKept(p) == p.renamed \intersect Candidates = {}

(* requiredApprovedAdrs                                                    *)
RelevantAdrs(b, i) ==
    {d \in Approved(b) : b.arch.adrs[d].affected \intersect b.plan.issues[i].sources # {}}

(* Faulty: an ADR named by one issue need not be named by another.         *)
AdrsNamedSomewhere(b) ==
    \A i \in DOMAIN b.plan.issues :
        \A d \in RelevantAdrs(b, i) :
            \E j \in DOMAIN b.plan.issues : d \in b.plan.issues[j].adrs

(* issueAdrTraceabilityFindings: an issue names exactly its relevant ADRs. *)
AdrsNamed(b) ==
    \A i \in DOMAIN b.plan.issues :
        /\ b.plan.issues[i].adrs = RelevantAdrs(b, i)
        /\ b.plan.issues[i].requires <=> RelevantAdrs(b, i) # {}

(* calculateCoverage and coverageFindings: every functional requirement is *)
(* a must; the declared summary and status are the computed ones.          *)
CoverageDeclared(p) ==
    Functional \subseteq Verified(p) /\ p.uncovered = {} /\ p.status = "ready-for-issues"

(* validateIssuePlan(...).valid, which is also complete                    *)
PlanValid(b) ==
    /\ b.plan.inputs = DOMAIN b.arch.adrs
    /\ ArchitectureComplete(b)
    /\ CandidatesKept(b.plan)
    /\ ReferencesResolve(b.plan, b.arch)
    /\ AdrsNamed(b)
    /\ Startable(b.plan)
    /\ CoverageDeclared(b.plan)

-----------------------------------------------------------------------------
(* The specification audit.  P0, P1 and P2 findings block, P3 findings     *)
(* warn.                                                                   *)

(* Faulty: a criterion of any issue verifies the sources of every issue.   *)
VerifiedAnywhere(p) ==
    /\ Functional \subseteq Sourced(p) \union Verified(p)
    /\ Verified(p) \subseteq Sourced(p)
    /\ Sourced(p) \subseteq Verified(p)

(* coverageFindings                                                        *)
RequirementsOwned(p) ==
    /\ Functional \subseteq Sourced(p) \union Verified(p)
    /\ Verified(p) \subseteq Sourced(p)
    /\ \A i \in DOMAIN p.issues : \A r \in p.issues[i].sources :
          \E c \in OwnedBy(p, i) : r \in p.criteria[c].verifies

(* issueAndReferenceFindings: no epic without an issue                     *)
EpicsUsed(p) == \A e \in DOMAIN p.epics : \E i \in DOMAIN p.issues : p.issues[i].epic = e

LinkedAdrs(p) == UNION {p.issues[i].adrs : i \in DOMAIN p.issues}

(* adrFindings: what affects a source of an issue is linked by an issue.   *)
AdrsConsistent(p, a) ==
    /\ \A d \in DOMAIN a.adrs :
          a.adrs[d].affected \intersect Sourced(p) # {} => d \in LinkedAdrs(p)
    /\ AnsweredBy(a) \subseteq ResolvedByAdr(a)

AuditBlocks(b) ==
    \/ ~PlanValid(b)
    \/ ~RequirementsOwned(b.plan)
    \/ ~EpicsUsed(b.plan)
    \/ \E i \in DOMAIN b.plan.issues : ~IssueComplete(b.plan, i)
    \/ ~AdrsConsistent(b.plan, b.arch)

(* ORPHAN_REQUIREMENT of a requirement that is not functional, ORPHAN_ADR  *)
AuditWarns(p, a) ==
    \/ ~(Requirements \subseteq Sourced(p) \union Verified(p))
    \/ ~(DOMAIN a.adrs \subseteq LinkedAdrs(p))

(* auditSpecification                                                      *)
AuditStatus(b) ==
    IF AuditBlocks(b) THEN "FAIL" ELSE IF AuditWarns(b.plan, b.arch) THEN "WARN" ELSE "PASS"

ReadyForGithub(status) == status # "FAIL"

-----------------------------------------------------------------------------
(* The trace graph *)

Nodes(p, a) ==
    Requirements \union ArchQuestions \union DOMAIN a.adrs
        \union DOMAIN p.epics \union DOMAIN p.issues \union DOMAIN p.criteria

Addresses == {x \in Requirements \X ArchQuestions : x[1] \in Asks[x[2]]}
ResolvedByEdges(a) ==
    {x \in ArchQuestions \X (DOMAIN a.adrs) : x[1] \in a.adrs[x[2]].questions}
Affects(a) == {x \in Requirements \X (DOMAIN a.adrs) : x[1] \in a.adrs[x[2]].affected}
Scopes(p) == {x \in Requirements \X (DOMAIN p.epics) : x[1] \in p.epics[x[2]]}
HasIssue(p) ==
    {x \in (DOMAIN p.epics) \X (DOMAIN p.issues) : x[1] = p.issues[x[2]].epic}
SourceOf(p) ==
    {x \in Requirements \X (DOMAIN p.issues) : x[1] \in p.issues[x[2]].sources}
RequiresDecision(p) == {x \in Adrs \X (DOMAIN p.issues) : x[1] \in p.issues[x[2]].adrs}
Blocks(p) ==
    {x \in (DOMAIN p.issues) \X (DOMAIN p.issues) : x[1] \in p.issues[x[2]].dependencies}
Owns(p) ==
    {x \in (DOMAIN p.issues) \X (DOMAIN p.criteria) : x[2] \in p.issues[x[1]].criteria}
VerifiedBy(p) ==
    {x \in Requirements \X (DOMAIN p.criteria) : x[1] \in p.criteria[x[2]].verifies}

Edges(p, a) ==
    Addresses \union ResolvedByEdges(a) \union Affects(a) \union Scopes(p) \union HasIssue(p)
        \union SourceOf(p) \union RequiresDecision(p) \union Blocks(p) \union Owns(p)
        \union VerifiedBy(p)

Starts(edges) == {e[1] : e \in edges}
Ends(edges) == {e[2] : e \in edges}

(* assertNoDownstreamOrphans                                               *)
NoOrphans(p, a) ==
    /\ ArchQuestions \subseteq Ends(Addresses) \intersect Starts(ResolvedByEdges(a))
    /\ DOMAIN a.adrs \subseteq Ends(ResolvedByEdges(a)) \intersect Starts(RequiresDecision(p))
    /\ DOMAIN p.epics \subseteq Ends(Scopes(p)) \intersect Starts(HasIssue(p))
    /\ DOMAIN p.issues \subseteq
         Ends(SourceOf(p) \union RequiresDecision(p) \union HasIssue(p) \union Blocks(p))
             \intersect Starts(Owns(p))
    /\ DOMAIN p.criteria \subseteq Ends(Owns(p)) \intersect Ends(VerifiedBy(p))

(* buildTraceGraph returns: assertUpstream, then assertGraph               *)
TraceBuilds(b) ==
    /\ AuditStatus(b) # "FAIL"
    /\ Acyclic(Nodes(b.plan, b.arch), Edges(b.plan, b.arch))
    /\ NoOrphans(b.plan, b.arch)

(* calculateRequirementCoverage                                            *)
Covered(p) ==
    {r \in Requirements :
        \E i \in DOMAIN p.issues : \E c \in p.issues[i].criteria :
            <<r, i>> \in SourceOf(p) /\ <<r, c>> \in VerifiedBy(p)}

(* traceEntity: what is reachable from an entity                           *)
Downstream(edges, x) ==
    LET reached[k \in Nat] ==
            IF k = 0 THEN {e[2] : e \in {f \in edges : f[1] = x}}
            ELSE LET known == reached[k-1]
                 IN  known \union {e[2] : e \in {f \in edges : f[1] \in known}}
    IN  reached[Cardinality(Ends(edges))]

-----------------------------------------------------------------------------
(* Project readiness: the blocking rules of evaluateProjectReadiness that  *)
(* a bundle fails, given the latest audit and the latest transition.  The  *)
(* rules on sections that the schema makes non-empty are left out.         *)

(* epicMapRule                                                             *)
EpicMap(p) ==
    /\ DOMAIN p.epics # {}
    /\ \A i \in DOMAIN p.issues : p.issues[i].epic \in DOMAIN p.epics
    /\ EpicsUsed(p)
    /\ Candidates \subseteq DOMAIN p.epics

IntegrityRule(b) == ArchitectureValid(b) /\ PlanValid(b) /\ TraceBuilds(b)

(* evaluateDecisions                                                       *)
BlockingDecisionsRule(b) ==
    IF b.package = None THEN BlockingQuestions(b) = {}
    ELSE Builds(b.package) /\ CanContinue(b.package)

ArchitectureQuestionsRule(b) ==
    ArchQuestions \subseteq AnsweredBy(b.arch) \intersect ResolvedByAdr(b.arch)

ApprovedAdrsRule(b) == DOMAIN b.arch.adrs # {} /\ Approved(b) = DOMAIN b.arch.adrs

CoverageRule(b) == TraceBuilds(b) /\ Covered(b.plan) = Requirements

(* audit is what is stored, binding what it was taken over; expected is    *)
(* the same recomputed.                                                    *)
LatestAuditRule(audit, expected) == audit = expected /\ audit.status = "PASS"

Failed(rule, holds) == IF holds THEN {} ELSE {rule}

(* advanced: analysisStateRule, the latest transition is AUDIT_PASSED over *)
(* exactly this evidence.                                                  *)
Failures(b, audit, expected, advanced) ==
    UNION {
        Failed("ARTIFACT-INTEGRITY", IntegrityRule(b)),
        Failed("BLOCKING-DECISIONS", BlockingDecisionsRule(b)),
        Failed("ARCHITECTURE-QUESTIONS", ArchitectureQuestionsRule(b)),
        Failed("APPROVED-ADRS", ApprovedAdrsRule(b)),
        Failed("EPIC-MAP", EpicMap(b.plan)),
        Failed("REQUIREMENT-AC-COVERAGE", CoverageRule(b)),
        Failed("LATEST-SPEC-AUDIT", LatestAuditRule(audit, expected)),
        Failed("ANALYSIS-STATE", advanced)}
=============================================================================
