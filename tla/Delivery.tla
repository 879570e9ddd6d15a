------------------------------ MODULE Delivery ------------------------------
(***************************************************************************)
(* One source on its way from the PM analysis to READY_FOR_ISSUES, with    *)
(* the documents themselves: the commands of src/commands over the         *)
(* decision packages of DecisionPackage and the validators of              *)
(* SpecDocuments.  What a command decides is computed here; module         *)
(* Analysis, which takes those outcomes as given, has the interleavings,   *)
(* crashes and changed sources.  A command is one step here.               *)
(*                                                                         *)
(* Abstractions: only genuine ADR approvals arrive, each with a record of  *)
(* its own.  The caller supplies the revision that the store has room for. *)
(* A design is an architecture with its ADRs.  Commands that only read     *)
(* (plan show, decisions list, architecture review) are no steps.          *)
(***************************************************************************)
EXTENDS SpecDocuments, Sequences, SequencesExt

CONSTANTS
    QuestionSets,   \* open questions a PM analysis may come with
    Submissions,    \* answers a user may submit, good and bad
    Designs,        \* architectures a user may supply
    Plans,          \* issue plans a user may supply
    MaxRevisions    \* bound on the revisions of a design and of a plan

ASSUME DeliveryAssumption ==
    /\ QuestionSets \subseteq SUBSET Questions
    /\ RegistryValid
    /\ \A s \in Submissions : \A q \in DOMAIN s.given :
          s.given[q] \in Resolution /\ s.given[q] # None
    /\ \A design \in Designs : AdrsWellFormed(design)
    /\ \A plan \in Plans : PlanWellFormed(plan)
    /\ None \notin Plans /\ None # {}
    /\ MaxRevisions \in Nat

VARIABLES
    asked,          \* open questions of the PM analysis
    event,          \* the latest transition
    rows,           \* stored decision answers
    designs,        \* stored revisions of the design
    approvals,      \* ADRs of the latest design with a stored approval
    plans,          \* stored revisions of the issue plan
    audit,          \* the stored specification audit, or None
    verdict         \* what readiness check said last, or None

vars == <<asked, event, rows, designs, approvals, plans, audit, verdict>>

States ==
    {"ANALYZING", "QUESTIONS_PENDING", "USER_DECISION", "ARCHITECTURE_PENDING",
     "ADR_PENDING_APPROVAL", "PM_FINALIZATION", "SPEC_AUDIT", "READY_FOR_ISSUES", "BLOCKED"}

(* A transition embeds a decision package or the ADRs that wait for an     *)
(* approval, and registers answers, approvals and a plan.                  *)
Start ==
    [state |-> "ANALYZING", before |-> "ANALYZING", package |-> None, pending |-> {},
     answers |-> {}, approvals |-> {}, plan |-> None]

Init ==
    /\ asked \in QuestionSets
    /\ event = Start
    /\ rows = {} /\ designs = <<>> /\ approvals = {} /\ plans = <<>>
    /\ audit = None /\ verdict = None

(* Faulty: approvals are not handed on.                                    *)
Forgetful(state, package, answers, approved, plan) ==
    [state |-> state, before |-> event.state,
     package |-> IF answers = {} THEN None ELSE package,
     pending |-> {}, answers |-> answers, approvals |-> {}, plan |-> plan]

(* The next transition; it keeps a decision package only with answers.     *)
Transition(state, package, answers, approved, plan) ==
    [state |-> state, before |-> event.state,
     package |-> IF answers = {} THEN None ELSE package,
     pending |-> {}, answers |-> answers, approvals |-> approved, plan |-> plan]

-----------------------------------------------------------------------------
(* Answers *)

(* applyDecisionHistory: the answers given to exactly this package         *)
Applied(package) == {r \in rows : r.base = package}

Given(answers) ==
    [q \in UNION {DOMAIN r.given : r \in answers} |->
        (CHOOSE r \in answers : q \in DOMAIN r.given).given[q]]

Reduced(package) == Resolve(package, Given(Applied(package)))

Claims(answers) == {c \in answers \X Questions : c[2] \in DOMAIN c[1].given}

(* answerHistory: a record of an authority serves one source of one row.   *)
HistoryReplays ==
    \A c, d \in Claims(rows) : c[1].given[c[2]].record = d[1].given[d[2]].record => c = d

(* Faulty: a record claimed by an earlier answer is taken again.           *)
AnyRecord(given) == TRUE

(* answerDecision: authorityRecordKey needs an attestation, and no earlier *)
(* answer has claimed the record.                                          *)
Unclaimed(given) ==
    \A q \in DOMAIN given :
        /\ Attested(given[q])
        /\ \A c \in Claims(rows) : c[1].given[c[2]].record # given[q].record

Answer(s) ==
    LET package == event.package
        row == [decision |-> s.decision, base |-> package, answer |-> s.answer, given |-> s.given]
        answers == Applied(package) \union {row}
        reduced == Resolve(package, Given(answers))
        started == [event EXCEPT !.state = "USER_DECISION"]
    IN  /\ package # None
        /\ s.decision \in Decisions(package)
        /\ HistoryReplays
        /\ Unclaimed(s.given)
        /\ Answers(package, s.decision, s.answer, s.given)
        /\ \A r \in Applied(package) : r.decision # s.decision
        /\ rows' = rows \union {row}
        /\ event' =
             IF event.state \notin {"QUESTIONS_PENDING", "USER_DECISION"} \/ ~Builds(reduced)
             THEN event
             ELSE IF CanContinue(reduced)
                  THEN Transition("ARCHITECTURE_PENDING", reduced, answers, {}, None)
             ELSE started
        /\ UNCHANGED <<asked, designs, approvals, plans, audit, verdict>>

-----------------------------------------------------------------------------
(* project analyze and project prepare *)

(* ANALYZING: the questions make a package, which may block.               *)
Analyze ==
    /\ event.state = "ANALYZING"
    /\ Builds(Unresolved(asked))
    /\ event' =
         IF CanContinue(Unresolved(asked))
         THEN [event EXCEPT !.state = "ARCHITECTURE_PENDING"]
         ELSE [event EXCEPT !.state = "QUESTIONS_PENDING", !.package = Unresolved(asked)]
    /\ UNCHANGED <<asked, rows, designs, approvals, plans, audit, verdict>>

(* Faulty: a document that is stored is stored again.                      *)
Restored(history, document) == Append(history, document)

(* persistStage: the latest revision is reused, else the next is stored.   *)
Persisted(history, document) ==
    IF history # <<>> /\ Last(history) = document THEN history ELSE Append(history, document)

HasRoom(history, document) ==
    \/ Len(history) < MaxRevisions
    \/ history # <<>> /\ Last(history) = document

Bundle(design, approved, package, plan) ==
    [asked |-> asked, arch |-> design, approved |-> approved, package |-> package, plan |-> plan]

PendingAdrs(design) == {d \in DOMAIN design.adrs : design.adrs[d].approval # "approved"}

(* ARCHITECTURE_PENDING: the design is stored, then it is complete, or has *)
(* ADRs to approve, or blocks; an invalid one is stored and refused.       *)
PrepareArchitecture(design) ==
    LET package == IF asked = {} THEN None ELSE Reduced(Unresolved(asked))
        answers == IF asked = {} THEN {} ELSE Applied(Unresolved(asked))
        b == Bundle(design, {}, package, None)
        Moved(state) == Transition(state, package, answers, {}, None)
    IN  /\ event.state = "ARCHITECTURE_PENDING"
        /\ HasRoom(designs, design)
        /\ designs' = Persisted(designs, design)
        /\ event' =
             IF ~ArchitectureValid(b) THEN event
             ELSE IF ArchitectureComplete(b) THEN Moved("PM_FINALIZATION")
             ELSE IF PendingAdrs(design) # {}
                  THEN [Moved("ADR_PENDING_APPROVAL") EXCEPT
                          !.package = None, !.pending = PendingAdrs(design)]
             ELSE Moved("BLOCKED")
        /\ UNCHANGED <<asked, rows, approvals, plans, audit, verdict>>

(* architecture approve: the approval is stored; with the last one the     *)
(* architecture must be complete, but the package that goes with it is the *)
(* list of ADRs and not the one with the decisions.                        *)
ApproveAdr(d) ==
    LET approved == approvals \union {d}
        b == Bundle(Last(designs), approved, None, None)
    IN  /\ d \in event.pending \ approvals
        /\ approvals' = approved
        /\ event' =
             IF approved = event.pending /\ ArchitectureComplete(b)
             THEN [Transition("PM_FINALIZATION", None, {}, approved, None) EXCEPT
                     !.pending = event.pending]
             ELSE event
        /\ UNCHANGED <<asked, rows, designs, plans, audit, verdict>>

-----------------------------------------------------------------------------
(* The evidence behind a gate *)

Bases == {r.base : r \in rows}

CurrentAnswers == IF Cardinality(Bases) = 1 THEN rows ELSE {}

(* currentAdrApprovalEvidence: approvals count when the package they were  *)
(* given for lists all ADRs of the design.                                 *)
CurrentApprovals ==
    IF PendingAdrs(Last(designs)) = DOMAIN Last(designs).adrs THEN approvals ELSE {}

(* verifiedGateEvidence: one history of answers, and the latest transition *)
(* registers exactly the current answers and approvals.                    *)
EvidenceVerified ==
    /\ Cardinality(Bases) <= 1
    /\ HistoryReplays
    /\ event.answers = CurrentAnswers
    /\ event.approvals = CurrentApprovals

Answered == Reduced(CHOOSE p \in Bases : TRUE)

(* The package that project prepare hands on, and the one of audit run and *)
(* readiness check                                                         *)
PreparePackage ==
    IF Bases # {} THEN Answered ELSE IF asked = {} THEN None ELSE Unresolved(asked)

GatePackage == IF Bases # {} THEN Answered ELSE event.package

(* PM_FINALIZATION: the plan is stored, then it must be valid.             *)
Finalize(plan) ==
    LET b == Bundle(Last(designs), CurrentApprovals, PreparePackage, plan)
    IN  /\ event.state = "PM_FINALIZATION"
        /\ EvidenceVerified
        /\ HasRoom(plans, plan)
        /\ plans' = Persisted(plans, plan)
        /\ event' =
             IF PlanValid(b)
             THEN Transition("SPEC_AUDIT", PreparePackage, CurrentAnswers, CurrentApprovals, plan)
             ELSE event
        /\ UNCHANGED <<asked, rows, designs, approvals, audit, verdict>>

(* analysisStateRule                                                       *)
AnalysisStateRule == event.state = "READY_FOR_ISSUES" /\ event.plan = Last(plans)

AuditOf(b) ==
    [plan |-> b.plan, answers |-> CurrentAnswers, approvals |-> b.approved,
     status |-> AuditStatus(b)]

(* The audit has the revision of its plan and no parent: the store takes   *)
(* that of the first revision only.                                        *)
Storable(a) == audit = None /\ a.plan = plans[1]

(* SPEC_AUDIT: the audit is taken, stored or found again, and decides.     *)
Audit(plan) ==
    LET b == Bundle(Last(designs), CurrentApprovals, PreparePackage, plan)
        a == AuditOf(b)
    IN  /\ event.state = "SPEC_AUDIT"
        /\ EvidenceVerified
        /\ audit = a \/ Storable(a)
        /\ audit' = a
        /\ event' = Transition(IF ReadyForGithub(a.status) THEN "READY_FOR_ISSUES" ELSE "BLOCKED",
                               PreparePackage, CurrentAnswers, CurrentApprovals, plan)
        /\ UNCHANGED <<asked, rows, designs, approvals, plans, verdict>>

(* project resume with documents that are valid without any evidence       *)
Resume(design, plan) ==
    LET b == Bundle(design, {}, None, plan)
    IN  /\ event.state = "BLOCKED"
        /\ ArchitectureValid(b) /\ PlanValid(b)
        /\ event' = Transition(event.before, None, {}, {}, None)
        /\ UNCHANGED <<asked, rows, designs, approvals, plans, audit, verdict>>

-----------------------------------------------------------------------------
(* audit run and readiness check, in any state *)

(* resolveGateBundle: the plan of the latest transition is the latest one. *)
PlanCurrent == plans # <<>> /\ event.plan \in {None, Last(plans)}

Gate == Bundle(Last(designs), CurrentApprovals, GatePackage, Last(plans))

AuditRun ==
    /\ PlanCurrent
    /\ EvidenceVerified
    /\ Storable(AuditOf(Gate))
    /\ audit' = AuditOf(Gate)
    /\ UNCHANGED <<asked, event, rows, designs, approvals, plans, verdict>>

CheckReadiness ==
    /\ PlanCurrent
    /\ audit # None
    /\ EvidenceVerified
    /\ TraceBuilds(Gate)
    /\ verdict' = Failures(Gate, audit, AuditOf(Gate), AnalysisStateRule)
    /\ UNCHANGED <<asked, event, rows, designs, approvals, plans, audit>>

Next ==
    \/ Analyze
    \/ \E s \in Submissions : Answer(s)
    \/ \E design \in Designs : PrepareArchitecture(design)
    \/ \E d \in event.pending : ApproveAdr(d)
    \/ \E plan \in Plans : Finalize(plan)
    \/ \E plan \in ToSet(plans) : Audit(plan)
    \/ \E design \in Designs, plan \in Plans : Resume(design, plan)
    \/ AuditRun
    \/ CheckReadiness

Spec == Init /\ [][Next]_vars

-----------------------------------------------------------------------------
(* What the delivery promises *)

(* Values have their types, and the bounded histories their bounds.        *)
TypeOK ==
    /\ asked \in QuestionSets
    /\ event.state \in States /\ event.before \in States
    /\ event.package # None => IsPackage(event.package)
    /\ event.pending \subseteq Adrs /\ event.approvals \subseteq event.pending \union approvals
    /\ event.answers \subseteq rows
    /\ event.plan # None => event.plan \in ToSet(plans)
    /\ \A r \in rows : IsPackage(r.base) /\ DOMAIN r.given \subseteq DOMAIN r.base
    /\ designs \in BoundedSeq(Designs, MaxRevisions)
    /\ plans \in BoundedSeq(Plans, MaxRevisions)
    /\ approvals \subseteq Adrs
    /\ audit # None => audit.plan \in ToSet(plans) /\ audit.answers \subseteq rows

(* Someone of the right role signed this answer to exactly this question.  *)
Earned(q, r) ==
    LET roles == IF Facts[q].severity = 1 /\ ~Facts[q].missing
                 THEN {"ARCHITECT", "SPECIALIST"} ELSE {"CEO", "USER"}
    IN  /\ r.actor \in DOMAIN Registry /\ Registry[r.actor].role \in roles
        /\ r.authority \in Registry[r.actor].routes
        /\ [source |-> q, decision |-> r.decision, authority |-> r.authority,
            actor |-> r.actor, record |-> r.record] \in Signed

(* Beyond the decision gate every blocking source question, also one that  *)
(* was merged with others, has an answer that somebody of the right role   *)
(* signed for this question, and no record of an authority has served two  *)
(* questions (decisions.js recomputeGate, commands/decisions.js            *)
(* answerDecision).                                                        *)
GateIsEarned ==
    event.state \notin {"ANALYZING", "QUESTIONS_PENDING", "USER_DECISION"} =>
        /\ \A q \in asked : Facts[q].severity <= 2 =>
              \E r \in rows : q \in DOMAIN r.given /\ Earned(q, r.given[q])
        /\ HistoryReplays

(* The cases in which the evidence is known not to verify: an answer to a  *)
(* question that is already resolved, a design whose ADRs are in part      *)
(* approved beforehand, a recovery, which registers nothing.               *)
AnsweredAgain == \E r \in rows : r.base # Unresolved(asked)

PartlyApproved(design) == PendingAdrs(design) \notin {{}, DOMAIN design.adrs}

Recovered == event.before = "BLOCKED"

(* Otherwise what each command hands on to the next transition, and what   *)
(* the next gate computes again from the stored history, stay the same:    *)
(* no gate refuses evidence that an earlier one has accepted               *)
(* (commands/evidence.js verifiedGateEvidence).                            *)
EvidenceHolds ==
    /\ event.state \in {"PM_FINALIZATION", "SPEC_AUDIT", "READY_FOR_ISSUES"}
    /\ ~AnsweredAgain /\ ~PartlyApproved(Last(designs)) /\ ~Recovered
    => EvidenceVerified

(* The issues can be started one after the other.                          *)
Plannable(p) ==
    \E rank \in [DOMAIN p.issues -> 1..Cardinality(DOMAIN p.issues)] :
        \A i \in DOMAIN p.issues : \A j \in p.issues[i].dependencies : rank[j] < rank[i]

(* Every requirement leads to an issue and a criterion of that issue which *)
(* verifies it, every architecture question to an approved ADR, every      *)
(* issue names the approved ADRs that affect it, and the issues can be put *)
(* in an order.                                                            *)
Deliverable(p, a, approved) ==
    LET leads == [x \in Requirements \union ArchQuestions |-> Downstream(Edges(p, a), x)]
    IN  /\ \A r \in Requirements :
              \E i \in (DOMAIN p.issues) \intersect leads[r] :
                  \E c \in p.issues[i].criteria \intersect leads[r] :
                      r \in p.issues[i].sources /\ r \in p.criteria[c].verifies
        /\ \A q \in ArchQuestions : (DOMAIN a.adrs) \intersect leads[q] # {}
        /\ \A d \in DOMAIN a.adrs :
              /\ d \in approved \/ a.adrs[d].approval = "approved"
              /\ \A i \in DOMAIN p.issues :
                    a.adrs[d].affected \intersect p.issues[i].sources # {}
                        => d \in p.issues[i].adrs
        /\ Plannable(p)

(* What readiness check calls ready can be delivered                       *)
(* (readiness.js evaluateProjectReadiness).                                *)
ReadyIsDeliverable == verdict = {} => Deliverable(Last(plans), Last(designs), approvals)

Standalone(p) == \E i \in DOMAIN p.issues : p.issues[i].epic = None

(* The validators agree: a plan that the audit passed without a warning is *)
(* ready by every rule of readiness, unless an issue stands alone or an    *)
(* epic candidate was left out, which only readiness looks at              *)
(* (spec-auditor.js, traceability.js, readiness.js).                       *)
ValidatorsAgree ==
    /\ event.state = "READY_FOR_ISSUES" /\ audit.status = "PASS"
    /\ PlanCurrent /\ EvidenceVerified
    /\ ~Standalone(Last(plans)) /\ Candidates \subseteq DOMAIN Last(plans).epics
    => /\ TraceBuilds(Gate)
       /\ Failures(Gate, audit, AuditOf(Gate), TRUE) = {}

(* When every pending ADR is approved and the architecture is complete     *)
(* under the stored answers and approvals, the analysis has moved on       *)
(* (gate-publish-commands-v1.md:71-73, analysis-state-machine.md:51;       *)
(* commands/architecture.js approveArchitecture).                          *)
ApprovalsAdvance ==
    /\ event.state = "ADR_PENDING_APPROVAL"
    /\ ArchitectureComplete(Bundle(Last(designs), approvals, PreparePackage, None))
    => approvals # event.pending
=============================================================================
