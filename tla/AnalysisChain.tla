--------------------------- MODULE AnalysisChain ---------------------------
(***************************************************************************)
(* The transition function of the analysis state machine and the           *)
(* verification of a stored transition stream: transition of               *)
(* src/pipeline/state-machine.js, verifyTransitionChain and resumeAnalysis *)
(* of src/pipeline/orchestrator.js.                                        *)
(*                                                                         *)
(* An event carries what its transition-event artifact binds: the two      *)
(* states, the source, the embedded package, the answers, approvals and    *)
(* documents among its inputs, and the recovery state.                     *)
(*                                                                         *)
(* Abstractions: a reference is the artifact it names.  The PM analysis of *)
(* a source is the source.  An architecture stands for itself and its      *)
(* ADRs, an issue plan for itself; what the validators conclude about them *)
(* (architecture.js, issue-plan.js, spec-auditor.js) is constant.          *)
(* Documents are valid under their schemas and non-blocking questions,     *)
(* which stop no gate, are left out.                                       *)
(***************************************************************************)
EXTENDS Naturals, Sequences, FiniteSets

CONSTANTS
    Sources,            \* source revisions of the project
    Questions,          \* the questions a PM analysis may leave open
    Adrs,               \* the identities of architecture decision records
    Records,            \* record ids of decisions signed by an authority
    Architectures,
    Plans,              \* issue plans, every revision of every identity
    PlanIds,            \* the identities of issue plans
    QuestionsOf,        \* QuestionsOf[s]: the blocking questions of source s
    Design,             \* Design[a]: what the validators find in architecture a
    Outline,            \* Outline[p]: what they find in issue plan p
    None

(* sound: no finding besides unapproved ADRs; pending: the ADRs that       *)
(* declare no approval; settled: some ADR already declares one.            *)
ArchitectureFacts ==
    [source : Sources, sound : BOOLEAN, pending : SUBSET Adrs, settled : BOOLEAN]

(* complete: validateIssuePlan finds nothing in the plan itself;           *)
(* ready: neither do the auditor's own rules.                              *)
PlanFacts == [id : PlanIds, arch : Architectures, complete : BOOLEAN, ready : BOOLEAN]

ASSUME DocumentsAssumption ==
    /\ QuestionsOf \in [Sources -> SUBSET Questions]
    /\ Design \in [Architectures -> ArchitectureFacts]
    /\ Outline \in [Plans -> PlanFacts]

-----------------------------------------------------------------------------
(* Packages, answers and approvals *)

(* A decision package holds the questions of its source and the resolution *)
(* records, so a package with answers is another package.                  *)
DecisionPackage ==
    [kind : {"decision"}, source : Sources, settled : SUBSET (Questions \X Records)]

AdrPackage == [kind : {"adr"}, arch : Architectures]

Package == DecisionPackage \union AdrPackage

ASSUME NoneAssumption ==
    None \notin Architectures /\ None \notin Plans /\ None \notin Package

(* base, arch: the package the row answers; at: the revision of its source *)
(* transition.                                                             *)
Answer == [question : Questions, base : DecisionPackage, record : Records, at : Nat]
Approval == [adr : Adrs, arch : Architectures, record : Records, at : Nat]

Open(s) == [kind |-> "decision", source |-> s, settled |-> {}]

Resolve(p, pairs) ==
    [p EXCEPT !.settled =
        {e \in p.settled : \A d \in pairs : d[1] # e[1]} \union pairs]

(* The gate of a package: can_continue.                                    *)
Clear(p) == \A q \in QuestionsOf[p.source] : \E e \in p.settled : e[1] = q

IsDecision(p) == p \in DecisionPackage
IsAdr(p) == p \in AdrPackage

-----------------------------------------------------------------------------
(* States and events *)

Terminal == {"READY_FOR_ISSUES", "FAILED_TERMINAL"}
Halted == {"BLOCKED", "FAILED_RETRYABLE"}
Active == {"ANALYZING", "QUESTIONS_PENDING", "USER_DECISION",
           "ARCHITECTURE_PENDING", "ADR_PENDING_APPROVAL", "PM_FINALIZATION",
           "SPEC_AUDIT"}
States == Active \union Halted \union Terminal

Declared == {
    <<"ANALYZING", "SOURCE_RESTARTED", "ANALYZING">>,
    <<"ANALYZING", "QUESTIONS_FOUND", "QUESTIONS_PENDING">>,
    <<"ANALYZING", "ANALYSIS_COMPLETED", "ARCHITECTURE_PENDING">>,
    <<"QUESTIONS_PENDING", "DECISION_STARTED", "USER_DECISION">>,
    <<"USER_DECISION", "DECISIONS_RESOLVED", "ARCHITECTURE_PENDING">>,
    <<"ARCHITECTURE_PENDING", "ADR_APPROVAL_REQUIRED", "ADR_PENDING_APPROVAL">>,
    <<"ARCHITECTURE_PENDING", "ARCHITECTURE_COMPLETED", "PM_FINALIZATION">>,
    <<"ADR_PENDING_APPROVAL", "ADR_APPROVED", "PM_FINALIZATION">>,
    <<"PM_FINALIZATION", "FINALIZATION_COMPLETED", "SPEC_AUDIT">>,
    <<"SPEC_AUDIT", "AUDIT_PASSED", "READY_FOR_ISSUES">>,
    <<"SPEC_AUDIT", "AUDIT_BLOCKED", "BLOCKED">>}

Stops == {<<"BLOCK", "BLOCKED">>, <<"FAIL_RETRYABLE", "FAILED_RETRYABLE">>,
          <<"FAIL_TERMINAL", "FAILED_TERMINAL">>}

Recoveries == {<<"BLOCKED", "RESUME">>, <<"FAILED_RETRYABLE", "RETRY">>}

EventNames == {d[2] : d \in Declared} \union {d[1] : d \in Stops}
                                     \union {d[2] : d \in Recoveries}

Event == [prev : States, event : EventNames, state : States, source : Sources,
          package : Package \union {None}, answers : SUBSET Answer,
          approvals : SUBSET Approval, arch : Architectures \union {None},
          plan : Plans \union {None}, resume : States \union {None},
          by : Nat \union Records]

(* resolveDeclaredTarget *)
Legal(x) ==
    \/ <<x.prev, x.event, x.state>> \in Declared /\ x.resume = None
    \/ <<x.prev, x.event>> \in Recoveries /\ x.state \in Active /\ x.resume = x.state
    \/ /\ x.prev \notin Terminal
       /\ <<x.event, x.state>> \in Stops
       /\ x.resume = IF x.event = "BLOCK" THEN None ELSE x.prev

(* REQUIRED_ARTIFACT_KEYS, without pm_analysis and spec_audit              *)
BindsPlan(x) ==
    \/ x.event \in {"FINALIZATION_COMPLETED", "AUDIT_PASSED", "AUDIT_BLOCKED"}
    \/ x.prev = "PM_FINALIZATION" /\ x.event = "BLOCK"
BindsArchitecture(x) ==
    \/ BindsPlan(x)
    \/ x.event \in {"ADR_APPROVAL_REQUIRED", "ARCHITECTURE_COMPLETED", "ADR_APPROVED"}
    \/ x.prev = "ARCHITECTURE_PENDING" /\ x.event = "BLOCK"

(* assertArtifact and assertExactInputs: every document is of the event's  *)
(* source and of its lineage.                                              *)
Bound(x) ==
    /\ BindsArchitecture(x) => x.arch # None /\ Design[x.arch].source = x.source
    /\ BindsPlan(x) => x.plan # None /\ Outline[x.plan].arch = x.arch
    /\ \A a \in x.answers : a.base.source = x.source
    /\ \A a \in x.approvals : a.arch = x.arch

Decided(x) == IsDecision(x.package) /\ x.package.source = x.source /\ Clear(x.package)

(* validateArchitecture(...).valid: a decision package is given clear.     *)
ArchitectureValid(x) == IsDecision(x.package) => Decided(x)

Approved(x) == {a.adr : a \in x.approvals}

(* validateArchitecture(...).complete                                      *)
ArchitectureComplete(x) ==
    /\ ArchitectureValid(x)
    /\ Design[x.arch].sound
    /\ QuestionsOf[x.source] = {} \/ Decided(x)
    /\ Design[x.arch].pending \subseteq Approved(x)

(* validateIssuePlan(...).valid, which implies .complete                   *)
PlanComplete(x) == ArchitectureComplete(x) /\ Outline[x.plan].complete

AuditReady(x) == PlanComplete(x) /\ Outline[x.plan].ready

(* assertGraphEvidence and the checks of transition itself                 *)
Evidence(x) ==
    /\ x.event \in {"QUESTIONS_FOUND", "DECISION_STARTED"} =>
         IsDecision(x.package) /\ x.package.source = x.source /\ ~Clear(x.package)
    /\ x.event = "DECISIONS_RESOLVED" => Decided(x)
    /\ x.event = "ADR_APPROVAL_REQUIRED" =>
         Design[x.arch].pending # {} /\ x.package = [kind |-> "adr", arch |-> x.arch]
    /\ x.event = "ARCHITECTURE_COMPLETED" => ArchitectureComplete(x)
    /\ x.event = "ADR_APPROVED" => IsAdr(x.package) /\ ArchitectureComplete(x)
    /\ x.event = "BLOCK" /\ BindsArchitecture(x) => ArchitectureValid(x)
    /\ x.event = "BLOCK" /\ BindsPlan(x) => PlanComplete(x)
    /\ x.event = "FINALIZATION_COMPLETED" => PlanComplete(x)
    /\ x.event = "AUDIT_PASSED" => AuditReady(x)
    /\ x.event = "AUDIT_BLOCKED" => ~AuditReady(x)

(* transition(state, event, context) returns and does not throw.           *)
Accepts(x) == Legal(x) /\ Bound(x) /\ Evidence(x)

(* The content of the event: the package is embedded when the event is     *)
(* about it or when answers given to it are among the inputs.              *)
Recorded(x) ==
    IF \/ x.event \in {"QUESTIONS_FOUND", "DECISION_STARTED", "DECISIONS_RESOLVED",
                       "ADR_APPROVAL_REQUIRED", "ADR_APPROVED"}
       \/ x.answers # {} /\ IsDecision(x.package)
    THEN x ELSE [x EXCEPT !.package = None]

-----------------------------------------------------------------------------
(* The stream *)

(* x may follow log[1], ..., log[i-1]: the generation boundary, the        *)
(* predecessor state and the continuity of a pending package.              *)
Continues(log, i, x) ==
    IF i = 1
    THEN x.prev = "ANALYZING" /\ x.event # "SOURCE_RESTARTED"
    ELSE LET last == log[i-1] IN
         IF x.source # last.source
         THEN /\ \A j \in 1..(i-1) : log[j].source # x.source
              /\ x.event = "SOURCE_RESTARTED"
         ELSE /\ x.event # "SOURCE_RESTARTED"
              /\ x.prev = last.state
              /\ x.event \in {"DECISION_STARTED", "ADR_APPROVED"} =>
                   x.package = last.package /\ x.package # None

(* verifyTransitionChain: every event follows from those before it and is  *)
(* what transition returns for its own recorded inputs.                    *)
ChainVerifies(log) ==
    \A i \in 1..Len(log) :
        /\ Continues(log, i, log[i])
        /\ Accepts(log[i])
        /\ Recorded(log[i]) = log[i]

Latest(log) == log[Len(log)]

(* resumeAnalysis: the state of the pipeline for a source.                 *)
StateOf(log, s) ==
    IF log # <<>> /\ Latest(log).source = s THEN Latest(log).state ELSE "ANALYZING"

RecoveryState(log) ==
    IF Latest(log).state = "BLOCKED" THEN Latest(log).prev ELSE Latest(log).resume

(* transition.content.decision_package, of an event that has one; the      *)
(* package in next_action is the same.                                     *)
PackageOf(log) == IF log = <<>> THEN None ELSE Latest(log).package
=============================================================================
