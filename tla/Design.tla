------------------------------- MODULE Design -------------------------------
(***************************************************************************)
(* The design pipeline: src/commands/design.js over                        *)
(* src/pipeline/design-orchestrator.js, and the feature commands that      *)
(* start a design, src/commands/feature.js over                            *)
(* src/pipeline/feature-delta.js.                                          *)
(*                                                                         *)
(* Every command works like the others of the program: it reads a snapshot *)
(* of the artifact store, verifies it, decides on it alone what it will    *)
(* append, and appends one revision after the other.  Other commands may   *)
(* append between any two of these steps, the command may die between      *)
(* them, and an append that meets another revision of the same number ends *)
(* the command with an error.  A command that is refused changes nothing   *)
(* and is not a step.                                                      *)
(*                                                                         *)
(* "prepare" stands for every design command but approve and status, which *)
(* differ in nothing but their name.  status only reads.                   *)
(*                                                                         *)
(* Abstractions: one design and, for a feature, one feature id; the        *)
(* classification and the source of the design are given once; the         *)
(* envelope of a revision that two runs of one input append is the same;   *)
(* a signature verifies exactly when its record is in Signed.              *)
(***************************************************************************)
EXTENDS DesignGraph, SequencesExt

CONSTANTS
    Clients,
    Classes,        \* the classifications a design may start with
    Graphs,         \* the sets of documents that inputs supply
    BriefOf,        \* BriefOf[l]: the payload of the brief a feature derives
    Records,        \* the approval records that inputs may carry
    Signed,         \* those of them that a trusted A3 actor has signed
    MaxDeaths,      \* bound: how many commands are killed
    MaxRevision     \* bound: how often the base project is analysed

Kinds == {"CRITICAL_DOWNGRADE", "VISUAL_DIRECTION", "DESIGN_SYSTEM", "FINAL"}

(* level is to_level for a downgrade; docs are the commitments it signs.   *)
Record == [kind : Kinds, level : Levels, docs : SUBSET Document]

ASSUME ClassAssumption ==
    Classes \subseteq Classification /\ \A c \in Classes : Classifiable(c)
ASSUME GraphsAssumption == Graphs \subseteq SUBSET Document
ASSUME BriefAssumption ==
    BriefOf \in [Levels -> Payloads] /\ \A l \in Levels : LevelOf[BriefOf[l]] = l
ASSUME RecordAssumption == Records \subseteq Record /\ Signed \subseteq Records
ASSUME BoundAssumption == MaxDeaths \in Nat /\ MaxRevision \in Nat \ {0}

VARIABLES
    class,      \* the classification that every input of the design declares
    docs,       \* the documents of the design in the artifact store
    states,     \* the revisions of its design-orchestration-state
    feature,    \* the revisions of its feature-delta
    project,    \* the base project: its latest revision and whether it is READY
    work,       \* work[c]: the drafts that the command of client c will append
    deaths

vars == <<class, docs, states, feature, project, work, deaths>>

Stages == <<"ADDED", "ANALYZED", "PREPARED">>
StageRank(stage) == CHOOSE n \in 1 .. 3 : Stages[n] = stage

Rank(state) ==
    CASE state \in {"INITIALIZED", "DOWNGRADE_PENDING"} -> 0
      [] state = "DIRECTION_PENDING" -> 1
      [] state = "SYSTEM_PENDING" -> 2
      [] state = "SYSTEM_APPROVED" -> 3
      [] state = "FINAL_APPROVAL_PENDING" -> 4
      [] state \in {"APPROVED", "NOT_APPLICABLE"} -> 5

StateNames == {"INITIALIZED", "DOWNGRADE_PENDING", "DIRECTION_PENDING", "SYSTEM_PENDING",
               "SYSTEM_APPROVED", "FINAL_APPROVAL_PENDING", "APPROVED", "NOT_APPLICABLE"}

(* The content of a state: pending is requires_downgrade_approval, commits *)
(* the payload commitments, kept the documents they know to be persisted,  *)
(* source the feature-delta revision it is bound to (0 for a project).     *)
State == [state : StateNames, level : Levels, pending : BOOLEAN,
          approvals : Seq(Records), commits : SUBSET Document, kept : SUBSET Document,
          source : 0 .. 3]

FeatureRow == [stage : {"ADDED", "ANALYZED", "PREPARED"}, base : 1 .. MaxRevision]

(* A draft: the log it goes to, its revision and its content.              *)
Draft == [to : {"docs"}, rev : {1}, row : Document]
   \union [to : {"states"}, rev : Nat \ {0}, row : State]
   \union [to : {"feature"}, rev : Nat \ {0}, row : FeatureRow]

TypeOK ==
    /\ class \in Classes
    /\ docs \subseteq Document
    /\ states \in Seq(State)
    /\ feature \in Seq(FeatureRow) /\ Len(feature) <= 3
    /\ project \in [rev : 1 .. MaxRevision, ready : BOOLEAN]
    /\ work \in [Clients -> Seq(Draft)]
    /\ deaths \in 0 .. MaxDeaths

Init ==
    /\ class \in Classes
    /\ docs = {}
    /\ states = <<>>
    /\ feature = <<>>
    /\ project = [rev |-> 1, ready |-> TRUE]
    /\ work = [c \in Clients |-> <<>>]
    /\ deaths = 0

-----------------------------------------------------------------------------
(* Approvals *)

KindsOf(approvals) == [i \in DOMAIN approvals |-> approvals[i].kind]
Holds(approvals, kind) == \E i \in DOMAIN approvals : approvals[i].kind = kind

(* The approvals of a design in their one canonical order.                 *)
KindOrder ==
    (IF NeedsDowngrade(class) THEN <<"CRITICAL_DOWNGRADE">> ELSE <<>>)
        \o <<"VISUAL_DIRECTION", "DESIGN_SYSTEM", "FINAL">>

(* The documents a record of this kind must name, no more and no less.     *)
BoundTypes(kind, level) ==
    CASE kind = "VISUAL_DIRECTION" -> DirectionTypes
      [] kind = "DESIGN_SYSTEM" -> SystemTypes
      [] kind \in {"FINAL", "CRITICAL_DOWNGRADE"} -> Required(level)

Bound(record, level, g) ==
    record.level = level /\ record.docs = OfType(g, BoundTypes(record.kind, level))

Genuine(approvals, level, g) ==
    \A i \in DOMAIN approvals : approvals[i] \in Signed /\ Bound(approvals[i], level, g)

(* The level of a design once its downgrade, if it needs one, is approved. *)
ApprovedLevel == IF NeedsDowngrade(class) THEN class.requested ELSE Effective(class)

(* State and gate follow from the approvals and from what is persisted.    *)
StateOf(level, approvals, kept) ==
    CASE level = "NOT_APPLICABLE" -> "NOT_APPLICABLE"
      [] level # "NOT_APPLICABLE" /\ ~Holds(approvals, "VISUAL_DIRECTION")
            -> "DIRECTION_PENDING"
      [] Holds(approvals, "VISUAL_DIRECTION") /\ ~Holds(approvals, "DESIGN_SYSTEM")
            -> "SYSTEM_PENDING"
      [] Holds(approvals, "DESIGN_SYSTEM") /\ ~(NonFinal(level) \subseteq TypesOf(kept))
            -> "SYSTEM_APPROVED"
      [] OTHER ->
            IF Holds(approvals, "FINAL") /\ "design-approval" \in TypesOf(kept)
            THEN "APPROVED" ELSE "FINAL_APPROVAL_PENDING"

-----------------------------------------------------------------------------
(* Verification of what is stored *)

(* Mutant of DerivedBrief: the level in place of the content.              *)
BriefWithoutContent(level) == [type |-> "design-brief", payload |-> level]
DerivedBrief(level) == [type |-> "design-brief", payload |-> BriefOf[level]]

Bootstrapped(s) == s.state \in {"INITIALIZED", "DOWNGRADE_PENDING"}

(* verifyStateSnapshot: classification, level and required documents.      *)
LevelValid(s) ==
    /\ \A i \in DOMAIN s.approvals : s.approvals[i] \in Signed
    /\ s.pending = (NeedsDowngrade(class) /\ ~Holds(s.approvals, "CRITICAL_DOWNGRADE"))
    /\ s.level = IF s.pending THEN Effective(class) ELSE ApprovedLevel
    /\ s.kept \subseteq s.commits
    /\ Single(s.commits)
    /\ TypesOf(s.commits) = IF Bootstrapped(s) THEN {"design-brief"} ELSE Required(s.level)
    /\ s.pending => s.state = "DOWNGRADE_PENDING"
    /\ Bootstrapped(s) =>
           s.approvals = <<>> /\ s.kept = {} /\ s.level # "NOT_APPLICABLE"

(* ... and the state and gate that the approvals and documents amount to.  *)
ProgressValid(s) ==
    /\ s.level = "NOT_APPLICABLE" => s.approvals = <<>>
    /\ IsPrefix(KindsOf(s.approvals), KindOrder)
    /\ Genuine(s.approvals, s.level, s.commits)
    /\ s.state = StateOf(s.level, s.approvals, s.kept)
    /\ s.state \in {"DIRECTION_PENDING", "SYSTEM_PENDING"} => s.kept = {}

SnapshotValid(s) == LevelValid(s) /\ (~Bootstrapped(s) => ProgressValid(s))

IsRoot(s) ==
    s.state \in {"INITIALIZED", "DOWNGRADE_PENDING", "DIRECTION_PENDING", "NOT_APPLICABLE"}

Follows(s, previous) ==
    /\ s.source = previous.source
    /\ \/ s.pending = previous.pending /\ s.level = previous.level
       \/ /\ previous.state = "DOWNGRADE_PENDING"
          /\ previous.pending /\ ~s.pending /\ s.level = class.requested
    /\ IsPrefix(previous.approvals, s.approvals)
    /\ CASE previous.state = "DOWNGRADE_PENDING" -> TRUE
         [] previous.state = "INITIALIZED" -> previous.commits \subseteq s.commits
         [] OTHER -> previous.commits = s.commits
    /\ Rank(s.state) = Rank(previous.state) + 1

(* verifyStateHistory without the state of the base project *)
Replays(history) ==
    /\ \A n \in DOMAIN history : SnapshotValid(history[n])
    /\ history # <<>> => IsRoot(history[1])
    /\ \A n \in 2 .. Len(history) : Follows(history[n], history[n - 1])

(* featureHistory *)
ChainValid(rows) ==
    \A n \in 2 .. Len(rows) :
        /\ StageRank(rows[n].stage) > StageRank(rows[n - 1].stage)
        /\ rows[n].base = rows[1].base

(* readyBase and verifyBaseSnapshot *)
BaseCurrent(row) == project.ready /\ row.base = project.rev

(* assertStateEnvelopeInputs *)
SourceVerifies(s) ==
    IF class.scope = "project" THEN s.source = 0
    ELSE /\ s.source # 0 /\ s.source = Len(feature)
         /\ ChainValid(feature)
         /\ feature[s.source].stage = "PREPARED"
         /\ BaseCurrent(feature[s.source])
         /\ OfType(s.commits, {"design-brief"}) = {DerivedBrief(s.level)}

(* Mutant of HistoryVerifies: only the latest state is verified.           *)
LatestVerifies ==
    states # <<>> => SnapshotValid(states[Len(states)]) /\ SourceVerifies(states[Len(states)])

HistoryVerifies ==
    (\A n \in DOMAIN states : SourceVerifies(states[n])) /\ Replays(states)

-----------------------------------------------------------------------------
(* What a design command decides on its snapshot *)

(* The approval that each gate asks for.                                   *)
GateKind == [DOWNGRADE_PENDING |-> "CRITICAL_DOWNGRADE", DIRECTION_PENDING |-> "VISUAL_DIRECTION",
             SYSTEM_PENDING |-> "DESIGN_SYSTEM", FINAL_APPROVAL_PENDING |-> "FINAL"]

Started == states # <<>>
Latest == states[Len(states)]
PriorApprovals == IF Started THEN Latest.approvals ELSE <<>>
AtGate == Started /\ Latest.state \in DOMAIN GateKind

(* assertApprovalHistoryTransition *)
Additions(command) ==
    CASE command = "approve" -> IF AtGate THEN <<GateKind[Latest.state]>> ELSE <<>>
      [] command = "prepare" /\ ~Started /\ NeedsDowngrade(class) -> <<"CRITICAL_DOWNGRADE">>
      [] OTHER -> <<>>

ApprovalsAllowed(command, approvals) ==
    /\ command = "approve" => AtGate
    /\ IsPrefix(PriorApprovals, approvals)
    /\ KindsOf(approvals) = KindsOf(PriorApprovals) \o Additions(command)

ExactReplay(g, approvals) ==
    \/ g = Latest.commits
    \/ Latest.state = "INITIALIZED" /\ Latest.commits \subseteq g
    \/ Latest.state = "DOWNGRADE_PENDING" /\ Holds(approvals, "CRITICAL_DOWNGRADE")

(* Mutant of NoConflict: a stored document is taken for a conflict.        *)
NothingStored(g) == docs \intersect g = {}

(* persistedCandidates: the documents of the input that are stored already.*)
Stored(g) == docs \intersect g
NoConflict(g) == \A d \in docs, e \in g : d.type = e.type => d = e

(* prepareDesign: the checks of levelFromApprovedDowngrade,                *)
(* assertExactLevelGraph and outcome.                                      *)
Preparable(g, kept, approvals) ==
    LET level == ApprovedLevel IN
    /\ NeedsDowngrade(class) => Holds(approvals, "CRITICAL_DOWNGRADE")
    /\ ExactGraph(g, level)
    /\ level = "NOT_APPLICABLE" => approvals = <<>>
    /\ Genuine(approvals, level, g)
    /\ Holds(approvals, "FINAL") => NonFinal(level) \subseteq TypesOf(kept)

Outcome(g, kept, approvals, source) ==
    [state |-> StateOf(ApprovedLevel, approvals, kept), level |-> ApprovedLevel,
     pending |-> FALSE, approvals |-> approvals, commits |-> g, kept |-> kept,
     source |-> source]

(* assertTargetCommand *)
TargetLegal(command, outcome) ==
    command = "approve" =>
        /\ outcome.state # "NOT_APPLICABLE"
        /\ outcome.state = "DIRECTION_PENDING" => Holds(outcome.approvals, "CRITICAL_DOWNGRADE")

(* topologicalArtifacts: layer by layer, a layer in the order of its names.*)
PersistOrder ==
    <<"design-brief",
      "design-system", "user-flow", "ux-analysis", "visual-direction",
      "screen-spec",
      "design-audit", "information-architecture", "prototype-manifest", "wireframe-plan",
      "design-approval", "usability-evidence">>

ASSUME OrderAssumption ==
    \A i, j \in DOMAIN PersistOrder : PersistOrder[j] \in InputsOf(PersistOrder[i]) => j < i

(* Mutants of ToPersist: the final approval goes with the other documents; *)
(* an approval persists what it has just made ready.                       *)
PersistAll(command, outcome) ==
    CASE outcome.level = "NOT_APPLICABLE" -> outcome.commits
      [] outcome.state = "SYSTEM_APPROVED" /\ command # "approve" -> outcome.commits
      [] outcome.state = "FINAL_APPROVAL_PENDING" /\ command = "approve" -> outcome.commits
      [] OTHER -> {}

PersistOnApproval(command, outcome) ==
    CASE outcome.level = "NOT_APPLICABLE" -> outcome.commits
      [] outcome.state = "SYSTEM_APPROVED" -> OfType(outcome.commits, NonFinal(outcome.level))
      [] outcome.state = "FINAL_APPROVAL_PENDING" /\ command = "approve" -> outcome.commits
      [] OTHER -> {}

(* The documents that runWithInput persists in view of its first outcome.  *)
ToPersist(command, outcome) ==
    CASE outcome.level = "NOT_APPLICABLE" -> outcome.commits
      [] outcome.state = "SYSTEM_APPROVED" /\ command # "approve"
            -> OfType(outcome.commits, NonFinal(outcome.level))
      [] outcome.state = "FINAL_APPROVAL_PENDING" /\ command = "approve" -> outcome.commits
      [] OTHER -> {}

(* The missing documents in this order, each as a draft.                   *)
DocumentDrafts(missing) ==
    LET Of(t) == IF t \in TypesOf(missing)
                 THEN <<[to |-> "docs", rev |-> 1, row |-> CHOOSE d \in missing : d.type = t]>>
                 ELSE <<>>
        Nth(i) == Of(PersistOrder[i])
    IN  Nth(1) \o Nth(2) \o Nth(3) \o Nth(4) \o Nth(5) \o Nth(6)
            \o Nth(7) \o Nth(8) \o Nth(9) \o Nth(10) \o Nth(11) \o Nth(12)

(* Mutant of StateDrafts: every command appends a revision.                *)
StateDraftsAlways(content) ==
    <<[to |-> "states", rev |-> Len(states) + 1, row |-> content]>>

(* appendState: nothing when the content is the latest one.                *)
StateDrafts(content) ==
    IF Started /\ Latest = content THEN <<>>
    ELSE <<[to |-> "states", rev |-> Len(states) + 1, row |-> content]>>

DesignDrafts(command, g, approvals) ==
    LET source == IF Started THEN Latest.source ELSE 0
        first == Outcome(g, Stored(g), approvals, source)
        missing == ToPersist(command, first) \ docs
        last == Outcome(g, Stored(g) \union missing, approvals, source)
    IN  DocumentDrafts(missing) \o StateDrafts(last)

(* An input replays the approvals that are stored, or leaves out the last  *)
(* one, and may carry one more.                                            *)
Inputs ==
    LET prior == {PriorApprovals, Front(PriorApprovals)}
    IN  prior \union {Append(a, r) : a \in prior, r \in Records}

(* runWithInput, up to its first append *)
DesignCommand(c, command) ==
    /\ work[c] = <<>>
    /\ HistoryVerifies
    /\ \E approvals \in {a \in Inputs : ApprovalsAllowed(command, a)}, g \in Graphs :
          /\ Started => ExactReplay(g, approvals)
          /\ NoConflict(g)
          /\ Preparable(g, Stored(g), approvals)
          /\ ValidGraph(g)
          /\ LET source == IF Started THEN Latest.source ELSE 0
                 outcome == Outcome(g, Stored(g), approvals, source)
             IN  TargetLegal(command, outcome) /\ SourceVerifies(outcome)
          /\ work' = [work EXCEPT ![c] = DesignDrafts(command, g, approvals)]
    /\ UNCHANGED <<class, docs, states, feature, project, deaths>>

Prepare(c) == DesignCommand(c, "prepare")
Approve(c) == DesignCommand(c, "approve")

-----------------------------------------------------------------------------
(* Feature commands *)

(* initialFeatureState *)
Bootstrap(source) ==
    LET level == Effective(class) IN
    LET brief == {DerivedBrief(level)} IN
    [state |-> CASE level = "NOT_APPLICABLE" -> "NOT_APPLICABLE"
                 [] NeedsDowngrade(class) -> "DOWNGRADE_PENDING"
                 [] OTHER -> "INITIALIZED",
     level |-> level, pending |-> NeedsDowngrade(class), approvals |-> <<>>,
     commits |-> brief, kept |-> IF level = "NOT_APPLICABLE" THEN brief ELSE {},
     source |-> source]

(* startFeatureDesign: the brief of a design that is not applicable, and   *)
(* the first state.                                                        *)
StartDrafts(source) ==
    LET bootstrap == Bootstrap(source) IN
    DocumentDrafts(bootstrap.kept \ docs)
        \o (IF Started THEN <<>>
            ELSE <<[to |-> "states", rev |-> 1, row |-> bootstrap]>>)

FeatureDrafts(target) ==
    LET current == IF feature = <<>> THEN 0 ELSE StageRank(feature[Len(feature)].stage)
        rows == IF current >= StageRank(target) THEN <<>>
                ELSE <<[to |-> "feature", rev |-> Len(feature) + 1,
                        row |-> [stage |-> target, base |-> project.rev]]>>
    IN  rows \o (IF target = "PREPARED" THEN StartDrafts(Len(feature) + Len(rows)) ELSE <<>>)

(* Mutant of FeatureCommand: the base of the stored stages is not compared.*)
FeatureCommandAnyBase(c, target) ==
    /\ work[c] = <<>>
    /\ class.scope = "feature"
    /\ project.ready
    /\ ChainValid(feature)
    /\ target = "PREPARED" => NoConflict(Bootstrap(1).kept)
    /\ work' = [work EXCEPT ![c] = FeatureDrafts(target)]
    /\ UNCHANGED <<class, docs, states, feature, project, deaths>>

(* runStages, up to its first append: a stage may be skipped.              *)
FeatureCommand(c, target) ==
    /\ work[c] = <<>>
    /\ class.scope = "feature"
    /\ project.ready
    /\ ChainValid(feature)
    /\ feature # <<>> => BaseCurrent(feature[Len(feature)])
    /\ target = "PREPARED" => NoConflict(Bootstrap(1).kept)
    /\ work' = [work EXCEPT ![c] = FeatureDrafts(target)]
    /\ UNCHANGED <<class, docs, states, feature, project, deaths>>

FeatureStep(c) == \E target \in Range(Stages) : FeatureCommand(c, target)

-----------------------------------------------------------------------------
(* The appends of a command, its death, and the base project *)

(* append of the store: a stored revision is returned when it is equal.    *)
Fits(draft) ==
    CASE draft.to = "docs" -> \A d \in docs : d.type = draft.row.type => d = draft.row
      [] draft.to = "states" ->
            \/ draft.rev = Len(states) + 1
            \/ draft.rev \in DOMAIN states /\ states[draft.rev] = draft.row
      [] draft.to = "feature" ->
            \/ draft.rev = Len(feature) + 1
            \/ draft.rev \in DOMAIN feature /\ feature[draft.rev] = draft.row

Logged(log, draft, name) ==
    IF draft.to = name /\ draft.rev = Len(log) + 1 THEN Append(log, draft.row) ELSE log

AppendNext(c) ==
    /\ work[c] # <<>>
    /\ LET draft == Head(work[c]) IN
       /\ Fits(draft)
       /\ docs' = IF draft.to = "docs" THEN docs \union {draft.row} ELSE docs
       /\ states' = Logged(states, draft, "states")
       /\ feature' = Logged(feature, draft, "feature")
    /\ work' = [work EXCEPT ![c] = Tail(@)]
    /\ UNCHANGED <<class, project, deaths>>

(* The store refuses the draft: the command ends with an error.            *)
Refused(c) ==
    /\ work[c] # <<>>
    /\ ~Fits(Head(work[c]))
    /\ work' = [work EXCEPT ![c] = <<>>]
    /\ UNCHANGED <<class, docs, states, feature, project, deaths>>

Die(c) ==
    /\ work[c] # <<>>
    /\ deaths < MaxDeaths
    /\ deaths' = deaths + 1
    /\ work' = [work EXCEPT ![c] = <<>>]
    /\ UNCHANGED <<class, docs, states, feature, project>>

(* The base project is analysed again, and is READY again some time later. *)
Reanalyze ==
    /\ class.scope = "feature"
    /\ project.ready /\ project.rev < MaxRevision
    /\ project' = [rev |-> project.rev + 1, ready |-> FALSE]
    /\ UNCHANGED <<class, docs, states, feature, work, deaths>>

ProjectReady ==
    /\ ~project.ready
    /\ project' = [project EXCEPT !.ready = TRUE]
    /\ UNCHANGED <<class, docs, states, feature, work, deaths>>

Next ==
    \/ \E c \in Clients : \/ Prepare(c) \/ Approve(c) \/ FeatureStep(c)
                          \/ AppendNext(c) \/ Refused(c) \/ Die(c)
    \/ Reanalyze \/ ProjectReady

Safety == Init /\ [][Next]_vars

-----------------------------------------------------------------------------
(* Readiness *)

(* verifyDesignStateGraph: a state on its own, with its documents.         *)
StateGraphVerified(s) ==
    /\ SnapshotValid(s)
    /\ s.kept = s.commits /\ s.kept \subseteq docs
    /\ ValidGraph(s.kept)

(* designReadinessFromCatalog: the one complete state is the verdict's.    *)
UiReady ==
    \E n \in DOMAIN states :
        /\ {m \in DOMAIN states : Rank(states[m].state) = 5} = {n}
        /\ StateGraphVerified(states[n])
        /\ DesignReady(states[n].kept)

-----------------------------------------------------------------------------
(* Properties *)

(* The stored history of a design passes verifyStateHistory, which every   *)
(* design command runs first: one that fails stops the design for ever.    *)
(* The code does not keep it, see HistoryReplaysUntilFinal.                *)
HistoryReplays == Replays(states)

(* As long as the final approval document is not stored, the history of    *)
(* the design replays, however commands interleave and wherever they die.  *)
HistoryReplaysUntilFinal == "design-approval" \notin TypesOf(docs) => HistoryReplays

(* The stages of a feature that two clients write at the same time, in any *)
(* order and with stages left out, form a chain that featureHistory takes, *)
(* over one revision of the base project.                                  *)
FeatureChainReplays == ChainValid(feature)

(* No document of a design reaches the store before its gate: all of them  *)
(* are those of a recorded state with a genuine direction and system       *)
(* approval, and the final approval document comes last, to a design that  *)
(* waited for it and that a trusted actor signed document by document.     *)
GateBeforePersist ==
    docs # {} =>
        IF ApprovedLevel = "NOT_APPLICABLE" THEN TypesOf(docs) = {"design-brief"}
        ELSE \E n \in DOMAIN states :
                /\ states[n].state = "SYSTEM_APPROVED"
                /\ docs \subseteq states[n].commits
                /\ Genuine(states[n].approvals, ApprovedLevel, states[n].commits)
                /\ "design-approval" \in TypesOf(docs) =>
                       /\ docs = states[n].commits
                       /\ \E m \in DOMAIN states : states[m].state = "FINAL_APPROVAL_PENDING"
                       /\ \E r \in Signed : r.kind = "FINAL" /\ Bound(r, ApprovedLevel, docs)

(* The readiness verdict rests on one state and never reads its history;   *)
(* when it passes, the history replays, every approval of the level has    *)
(* been recorded, and the store holds the approved documents and no other. *)
ReadyIsEarned ==
    UiReady =>
        /\ HistoryReplays
        /\ docs = Latest.commits
        /\ ApprovedLevel # "NOT_APPLICABLE" => KindsOf(Latest.approvals) = KindOrder

(* The pipeline implements the ladder: gates are passed one by one, and    *)
(* the store admits a document only on its rung.                           *)
Rung == IF Started THEN Rank(Latest.state) ELSE 0
Ladder == INSTANCE ApprovalLadder WITH
    goal <- ApprovedLevel, rung <- Rung, kept <- TypesOf(docs)
ImplementsLadder == Ladder!Spec

(* The command that next_action of the latest state names; before there is *)
(* one, the command that starts the design.                                *)
Advance(c) ==
    \/ ~Started /\ class.scope = "feature" /\ FeatureCommand(c, "PREPARED")
    \/ ~Started /\ class.scope = "project" /\ Prepare(c)
    \/ Started /\ ~AtGate /\ Rung < 5 /\ Prepare(c)
    \/ AtGate /\ Approve(c)

(* Commands end; an analysis of the base project ends; somebody keeps      *)
(* running the command that is due, as soon as it can succeed.             *)
Fairness ==
    /\ \A c \in Clients : WF_vars(AppendNext(c) \/ Refused(c))
    /\ WF_vars(ProjectReady)
    /\ SF_vars(\E c \in Clients : Advance(c))

Spec == Safety /\ Fairness

(* A gate whose approval no trusted actor has signed for this design.      *)
Unsigned ==
    /\ AtGate
    /\ \A r \in Signed :
           r.kind = GateKind[Latest.state] =>
               Latest.state # "DOWNGRADE_PENDING" /\ ~Bound(r, ApprovedLevel, Latest.commits)

(* The feature was taken up on a base project that has been superseded.    *)
Superseded == feature # <<>> /\ feature[1].base # project.rev

(* A design whose approvals are given is completed, whatever the clients   *)
(* do beside it and wherever commands die, unless its base is analysed     *)
(* again or its history is broken (HistoryReplays).                        *)
EventuallyApproved == <>(Rung = 5 \/ Superseded \/ Unsigned \/ ~HistoryReplays)
=============================================================================
