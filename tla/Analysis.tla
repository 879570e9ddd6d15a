------------------------------ MODULE Analysis ------------------------------
(***************************************************************************)
(* The commands that drive the analysis pipeline over one artifact store:  *)
(* project create, analyze, prepare and resume (src/commands/project.js),  *)
(* decisions answer (decisions.js), architecture approve (architecture.js) *)
(* and a direct runNextStage (src/pipeline/orchestrator.js).               *)
(*                                                                         *)
(* A client is one command-line process at a time.  A command reads the    *)
(* whole store once, into the catalog of createVerifiedArtifactCatalog,    *)
(* and decides everything on that snapshot and on what it has appended     *)
(* itself.  Every append goes through the real store, which refuses a      *)
(* revision that is not the next one and returns an equal one that exists  *)
(* (module ArtifactStore), so it is one step and the only place where two  *)
(* commands meet.  A process may die between any two appends.              *)
(*                                                                         *)
(* What a command knows of a stream is a prefix of it: the store only      *)
(* appends, and an append is accepted only as the revision after those the *)
(* command knows.  So a catalog is kept as the lengths of these prefixes.  *)
(*                                                                         *)
(* The authority's answers and the project's documents come from outside:  *)
(* Inputs is the sequence of aggregates that project create is given.      *)
(***************************************************************************)
EXTENDS AnalysisChain, Functions

CONSTANTS
    Clients,
    Inputs,             \* the aggregates supplied, oldest first: an issue plan
                        \* with its architecture, ADRs and PM analysis
    Resolutions,        \* <<q, r>>: the authority signs record r for question q
    Approvals,          \* <<a, r>>: the authority signs record r for ADR a
    Reports,            \* stops that a caller of runNextStage may report
    MaxMishaps,         \* bound: processes that die in a command, stops reported
    MaxEvents           \* bound: a longer stream takes no recovery

ASSUME InputAssumption == Inputs \in Seq(Plans)
ASSUME AuthorityAssumption ==
    /\ Resolutions \subseteq Questions \X Records
    /\ Approvals \subseteq Adrs \X Records
    /\ Reports \subseteq {"BLOCK", "FAIL_RETRYABLE", "FAIL_TERMINAL"}
ASSUME BoundAssumption ==
    MaxMishaps \in Nat /\ MaxEvents \in Nat

VARIABLES
    events,         \* the transition-event stream
    rows,           \* rows[d]: the revisions of every other identity d
    supplied,       \* how many aggregates have been persisted
    catalog,        \* catalog[c]: how much of the store c's command knows
    job,            \* job[c]: the command of c and what is left of it
    mishaps         \* the deaths and the reported stops, in their order

vars == <<events, rows, supplied, catalog, job, mishaps>>

Pm == <<"pm-analysis", None>>
Arch == <<"architecture", None>>
AdrSet == <<"adr", None>>
Plan(p) == <<"issue-plan", p>>
Audit(p) == <<"spec-audit", p>>
AnswersTo(q) == <<"decision-answer", q>>
ApprovalsOf(a) == <<"adr-approval", a>>

Identities ==
    {Pm, Arch, AdrSet} \union {Plan(p) : p \in PlanIds} \union {Audit(p) : p \in PlanIds}
        \union {AnswersTo(q) : q \in Questions} \union {ApprovalsOf(a) : a \in Adrs}

AuditArtifact == [plan : Plans, answers : SUBSET Answer,
                  approvals : SUBSET Approval, passed : BOOLEAN]

Item == Sources \union Architectures \union Plans \union AuditArtifact
            \union Answer \union Approval

Catalog == [events : Nat, rows : [Identities -> Nat], supplied : Nat]

Kinds == {"idle", "analyze", "prepare", "recover", "answer", "settle", "approve",
          "confirm", "report", "return"}

(* about: the question, ADR or event of the command, with its record       *)
Job == [kind : Kinds, input : Nat, about : Questions \union Adrs \union EventNames
            \union {None}, record : Records \union {None}, changed : BOOLEAN]

(* How long the stream was, and whether a decision has been lost by it     *)
Mishap == [at : Nat, lost : BOOLEAN]

Idle == [kind |-> "idle", input |-> 0, about |-> None, record |-> None,
         changed |-> FALSE]

TypeOK ==
    /\ events \in Seq(Event)
    /\ rows \in [Identities -> Seq(Item)]
    /\ supplied \in 0..Len(Inputs)
    /\ catalog \in [Clients -> Catalog]
    /\ job \in [Clients -> Job]
    /\ mishaps \in Seq(Mishap) /\ Len(mishaps) <= MaxMishaps

Snapshot == [events |-> Len(events), rows |-> [d \in Identities |-> Len(rows[d])],
             supplied |-> supplied]

Nothing == [events |-> 0, rows |-> [d \in Identities |-> 0], supplied |-> 0]

(* The verified rows of a store and, among them, answerHistory and         *)
(* approvalHistory                                                         *)
Documents(log, store) ==
    [events |-> log, rows |-> store,
     answers |-> UNION {Range(store[AnswersTo(q)]) : q \in Questions},
     approvals |-> UNION {Range(store[ApprovalsOf(a)]) : a \in Adrs}]

View(n) ==
    Documents(SubSeq(events, 1, n.events),
              [d \in Identities |-> SubSeq(rows[d], 1, n.rows[d])])

Store == Documents(events, rows)

Init ==
    /\ events = <<>>
    /\ rows = [d \in Identities |-> <<>>]
    /\ supplied = 0
    /\ catalog = [c \in Clients |-> Nothing]
    /\ job = [c \in Clients |-> Idle]
    /\ mishaps = <<>>

-----------------------------------------------------------------------------
(* What the next call of a command is: an append to an identity, an append *)
(* to the transition stream, the return or a throw.                        *)

Put(d, i) == [op |-> "put", identity |-> d, item |-> i]
Return == [op |-> "return"]
Throw == [op |-> "throw"]

(* runNextStage up to its append: transition accepts the event in a stream *)
(* that verifies.                                                          *)
RunNextStage(log, x) ==
    IF \E y \in {x} : Continues(log, Len(log) + 1, y) /\ Accepts(y)
    THEN [op |-> "emit", event |-> Recorded(x)]
    ELSE Throw

SourceOf(plan) == Design[Outline[plan].arch].source

HasStored(v, d, i) == i \in Range(v.rows[d])
IsCurrent(v, d, i) == v.rows[d] # <<>> /\ Latest(v.rows[d]) = i

(* Faulty: what has been persisted before is never persisted again.        *)
PersistOnce(v, d, i, next) == IF HasStored(v, d, i) THEN Throw ELSE Put(d, i)

(* persistStage: the latest revision is reused, an older one is stale.  A   *)
(* new document is numbered after those stored; a draft numbered otherwise *)
(* is refused until its producer supplies it again, which is left out.     *)
Persist(v, d, i, next) ==
    IF IsCurrent(v, d, i) THEN next
    ELSE IF HasStored(v, d, i) THEN Throw ELSE Put(d, i)

-----------------------------------------------------------------------------
(* Answers and approvals *)

(* No record of the authority is claimed by two rows.                      *)
Unclaimed(rowset) == \A a, b \in rowset : a.record = b.record => a = b

(* reduceDecisionAnswers: the answers to a package and their effect        *)
AnswersFor(v, p) == {a \in v.answers : a.base = p}
Reduced(v, p) == Resolve(p, {<<a.question, a.record>> : a \in AnswersFor(v, p)})
Reducible(v, p) ==
    /\ Unclaimed(v.answers)
    /\ \A a, b \in AnswersFor(v, p) : a.question = b.question => a = b

(* currentDecisionAnswerEvidence: the packages of s that have answers      *)
AnsweredPackages(v, s) == {p \in {a.base : a \in v.answers} : p.source = s}
CurrentAnswers(v, s) == {a \in v.answers : a.base.source = s}

(* currentAdrApprovalEvidence: an approval package counts when it lists    *)
(* exactly the ADRs supplied, the ones approved beforehand included.       *)
ApprovalsFor(v, arch) == {a \in v.approvals : a.arch = arch}
CurrentApprovals(v, arch) == IF Design[arch].settled THEN {} ELSE ApprovalsFor(v, arch)

(* verifiedGateEvidence returns.                                           *)
EvidenceVerified(v, arch) ==
    /\ Unclaimed(v.answers) /\ Unclaimed(v.approvals)
    /\ Cardinality(AnsweredPackages(v, Design[arch].source)) <= 1
    /\ Latest(v.events).answers = CurrentAnswers(v, Design[arch].source)
    /\ Latest(v.events).approvals = CurrentApprovals(v, arch)

(* The decision package that prepareProject hands on; None without open    *)
(* questions.                                                              *)
EffectivePackage(v, s) ==
    IF AnsweredPackages(v, s) # {}
    THEN Reduced(v, CHOOSE p \in AnsweredPackages(v, s) : TRUE)
    ELSE IF QuestionsOf[s] # {} THEN Open(s) ELSE None

-----------------------------------------------------------------------------
(* prepareProject, stage by stage *)

Blank(v, s, n) ==
    [prev |-> StateOf(v.events, s), event |-> "BLOCK", state |-> "BLOCKED",
     source |-> s, package |-> None, answers |-> {}, approvals |-> {},
     arch |-> None, plan |-> None, resume |-> None, by |-> n]

AnalyzeCall(v, s, n) ==
    LET x == [Blank(v, s, n) EXCEPT !.prev = "ANALYZING"]
        found == [x EXCEPT !.event = "QUESTIONS_FOUND", !.package = Open(s),
                           !.state = "QUESTIONS_PENDING"]
        completed == [x EXCEPT !.event = "ANALYSIS_COMPLETED",
                               !.state = "ARCHITECTURE_PENDING"]
        restarted == [x EXCEPT !.event = "SOURCE_RESTARTED", !.state = "ANALYZING"]
    IN  Persist(v, Pm, s, RunNextStage(v.events,
            IF v.events # <<>> /\ Latest(v.events).source # s THEN restarted
            ELSE IF QuestionsOf[s] # {} THEN found ELSE completed))

ArchitectureCall(v, arch, n) ==
    LET s == Design[arch].source
        x == [Blank(v, s, n) EXCEPT
                !.arch = arch,
                !.package = IF QuestionsOf[s] # {} THEN Reduced(v, Open(s)) ELSE None,
                !.answers = AnswersFor(v, Open(s))]
        completed == [x EXCEPT !.event = "ARCHITECTURE_COMPLETED",
                               !.state = "PM_FINALIZATION"]
        required == [x EXCEPT !.event = "ADR_APPROVAL_REQUIRED",
                              !.state = "ADR_PENDING_APPROVAL",
                              !.package = [kind |-> "adr", arch |-> arch]]
    IN  IF ~Reducible(v, Open(s)) THEN Throw
        ELSE Persist(v, Arch, arch, Persist(v, AdrSet, arch,
                IF ~ArchitectureValid(x) THEN Throw
                ELSE RunNextStage(v.events,
                       IF ArchitectureComplete(completed) THEN completed
                       ELSE IF Design[arch].pending # {} THEN required ELSE x)))

(* The event of a later stage: all the documents and all the evidence      *)
Evidenced(v, plan, n) ==
    LET arch == Outline[plan].arch
        s == Design[arch].source
    IN  [Blank(v, s, n) EXCEPT
            !.arch = arch, !.plan = plan, !.package = EffectivePackage(v, s),
            !.answers = CurrentAnswers(v, s), !.approvals = CurrentApprovals(v, arch)]

(* An incomplete plan is invalid too, so the BLOCK derived for it throws.  *)
FinalizeCall(v, plan, n) ==
    LET x == Evidenced(v, plan, n)
        completed == [x EXCEPT !.event = "FINALIZATION_COMPLETED", !.state = "SPEC_AUDIT"]
    IN  Persist(v, Plan(Outline[plan].id), plan,
            RunNextStage(v.events, IF PlanComplete(x) THEN completed ELSE x))

(* Faulty: the audit is taken over the plan alone.                         *)
AuditOfPlan(x) ==
    [plan |-> x.plan, answers |-> {}, approvals |-> {}, passed |-> AuditReady(x)]

AuditOf(x) == [plan |-> x.plan, answers |-> x.answers, approvals |-> x.approvals,
               passed |-> AuditReady(x)]

(* The audit takes the plan's revision and no parent, so the store has     *)
(* room only for the audit of revision 1 of a plan.                        *)
AuditCall(v, plan, n) ==
    LET x == Evidenced(v, plan, n)
        passed == [x EXCEPT !.event = "AUDIT_PASSED", !.state = "READY_FOR_ISSUES"]
        blocked == [x EXCEPT !.event = "AUDIT_BLOCKED"]
        audit == Audit(Outline[plan].id)
    IN  IF ~HasStored(v, Plan(Outline[plan].id), plan) THEN Throw
        ELSE IF IsCurrent(v, audit, AuditOf(x))
             THEN RunNextStage(v.events, IF AuditReady(x) THEN passed ELSE blocked)
        ELSE IF v.rows[audit] = <<>> /\ v.rows[Plan(Outline[plan].id)][1] = plan
             THEN Put(audit, AuditOf(x))
        ELSE Throw

PrepareCall(v, kind, n) ==
    LET plan == Inputs[n]
        arch == Outline[plan].arch
        state == StateOf(v.events, Design[arch].source)
    IN  CASE state = "ANALYZING" -> AnalyzeCall(v, Design[arch].source, n)
          [] state = "ARCHITECTURE_PENDING" ->
               IF kind = "analyze" THEN Return ELSE ArchitectureCall(v, arch, n)
          [] state \in {"PM_FINALIZATION", "SPEC_AUDIT", "READY_FOR_ISSUES"} ->
               IF \/ ~HasStored(v, Arch, arch) \/ ~HasStored(v, AdrSet, arch)
                  \/ ~EvidenceVerified(v, arch) THEN Throw
               ELSE IF state = "PM_FINALIZATION" THEN FinalizeCall(v, plan, n)
               ELSE IF state = "SPEC_AUDIT" THEN AuditCall(v, plan, n)
               ELSE Return
          [] OTHER -> Return

(* assertRecoveryEvidence: the aggregate is complete without any answer or *)
(* approval.                                                               *)
Recoverable(plan) ==
    LET design == Design[Outline[plan].arch] IN
    /\ design.sound /\ design.pending = {} /\ QuestionsOf[design.source] = {}
    /\ Outline[plan].complete

RecoverCall(v, n) ==
    LET s == SourceOf(Inputs[n])
        target == RecoveryState(v.events)
    IN  IF ~Recoverable(Inputs[n]) THEN Throw
        ELSE RunNextStage(v.events, [Blank(v, s, n) EXCEPT
                !.event = IF StateOf(v.events, s) = "BLOCKED" THEN "RESUME" ELSE "RETRY",
                !.state = target, !.resume = target])

-----------------------------------------------------------------------------
(* answerDecision and approveArchitecture *)

(* Faulty: the question and the record change places.                      *)
AnswerRowSwapped(v, q, r) ==
    [question |-> r, base |-> PackageOf(v.events), record |-> q, at |-> Len(v.events)]

AnswerRow(v, q, r) ==
    [question |-> q, base |-> PackageOf(v.events), record |-> r, at |-> Len(v.events)]

(* Faulty: only the record of an answer is compared, not the question.     *)
NotAnswered(v, p, q) == TRUE

(* No other answer to the question in the package                          *)
Unanswered(v, p, q) == \A a \in AnswersFor(v, p) : a.question # q

AnswerCall(v, q, r) ==
    LET p == PackageOf(v.events)
        claims == {a \in v.answers : a.record = r}
    IN  IF ~IsDecision(p) THEN Throw
        ELSE IF q \notin QuestionsOf[p.source] \/ ~Unclaimed(v.answers) THEN Throw
        ELSE IF claims # {}
             THEN IF \E a \in claims : a.question = q THEN Return ELSE Throw
        ELSE IF Unanswered(v, p, q) THEN Put(AnswersTo(q), AnswerRow(v, q, r)) ELSE Throw

(* After the append of the answer                                          *)
SettleCall(v, r) ==
    LET p == PackageOf(v.events)
        state == Latest(v.events).state
        x == [Blank(v, Latest(v.events).source, r) EXCEPT !.answers = AnswersFor(v, p)]
        started == [x EXCEPT !.event = "DECISION_STARTED", !.state = "USER_DECISION",
                             !.package = p]
        resolved == [x EXCEPT !.event = "DECISIONS_RESOLVED",
                              !.state = "ARCHITECTURE_PENDING", !.package = Reduced(v, p)]
    IN  CASE state = "QUESTIONS_PENDING" -> RunNextStage(v.events, started)
          [] state = "USER_DECISION" /\ Clear(Reduced(v, p)) ->
               RunNextStage(v.events, resolved)
          [] OTHER -> Return

ApproveCall(v, a, r) ==
    LET p == PackageOf(v.events)
        claims == {b \in v.approvals : b.record = r}
    IN  IF ~IsAdr(p) THEN Throw
        ELSE IF \/ a \notin Design[p.arch].pending
                \/ ~IsCurrent(v, AdrSet, p.arch)
                \/ ~Unclaimed(v.approvals) THEN Throw
        ELSE IF claims # {}
             THEN IF \E b \in claims : b.adr = a /\ b.arch = p.arch THEN Return ELSE Throw
        ELSE IF \E b \in ApprovalsFor(v, p.arch) : b.adr = a THEN Throw
        ELSE Put(ApprovalsOf(a),
                 [adr |-> a, arch |-> p.arch, record |-> r, at |-> Len(v.events)])

(* resolveGateBundle: one plan identity at most, and nothing newer         *)
BundleCurrent(v, arch) ==
    /\ IsCurrent(v, Pm, Design[arch].source) /\ IsCurrent(v, Arch, arch)
    /\ Cardinality({p \in PlanIds : v.rows[Plan(p)] # <<>>}) <= 1

(* After the append of the approval                                        *)
ConfirmCall(v, r) ==
    LET p == PackageOf(v.events)
        given == ApprovalsFor(v, p.arch)
        x == [Blank(v, Latest(v.events).source, r) EXCEPT
                !.event = "ADR_APPROVED", !.state = "PM_FINALIZATION",
                !.package = p, !.arch = p.arch, !.approvals = given]
    IN  IF \/ Latest(v.events).state # "ADR_PENDING_APPROVAL"
           \/ {a.adr : a \in given} # Design[p.arch].pending THEN Return
        ELSE IF BundleCurrent(v, p.arch) THEN RunNextStage(v.events, x) ELSE Throw

(* runNextStage called with an explicit stop; it names no documents.       *)
ReportCall(v, e) ==
    LET last == Latest(v.events)
        x == [Blank(v, last.source, 0) EXCEPT
                !.event = e,
                !.state = (CHOOSE d \in Stops : d[1] = e)[2],
                !.resume = IF e = "BLOCK" THEN None ELSE last.state]
    IN  IF v.events = <<>> THEN Throw ELSE RunNextStage(v.events, x)

-----------------------------------------------------------------------------
(* The steps of a command *)

Call(v, j) ==
    CASE j.kind \in {"analyze", "prepare"} -> PrepareCall(v, j.kind, j.input)
      [] j.kind = "recover" -> RecoverCall(v, j.input)
      [] j.kind = "answer"  -> AnswerCall(v, j.about, j.record)
      [] j.kind = "settle"  -> SettleCall(v, j.record)
      [] j.kind = "approve" -> ApproveCall(v, j.about, j.record)
      [] j.kind = "confirm" -> ConfirmCall(v, j.record)
      [] j.kind = "report"  -> ReportCall(v, j.about)
      [] OTHER -> Return

(* The call that the command of c makes next, when it has one              *)
NextCall(c) ==
    IF job[c].kind = "idle" THEN {} ELSE {Call(v, job[c]) : v \in {View(catalog[c])}}

(* What is left of the command after its next append                       *)
After(kind) ==
    CASE kind = "recover" -> "prepare"
      [] kind = "answer"  -> "settle"
      [] kind = "approve" -> "confirm"
      [] kind = "report"  -> "return"
      [] OTHER -> kind

Advance(c) == job' = [job EXCEPT ![c].kind = After(@), ![c].changed = TRUE]

(* append of module ArtifactStore: the next revision is written, an equal  *)
(* one that exists is returned.                                            *)
Accepted(log, n, item) == Len(log) > n => log[n + 1] = item
Grown(log, n, item) == IF Len(log) = n THEN Append(log, item) ELSE log

AppendArtifact(c, call) ==
    /\ call.op = "put"
    /\ LET d == call.identity
           n == catalog[c].rows[d]
       IN  /\ Accepted(rows[d], n, call.item)
           /\ rows' = [rows EXCEPT ![d] = Grown(@, n, call.item)]
           /\ catalog' = [catalog EXCEPT ![c].rows[d] = n + 1]
    /\ Advance(c)
    /\ UNCHANGED <<events, supplied, mishaps>>

(* Faulty: the stream takes an event on top of whatever it holds by now.   *)
AppendEventUnchecked(c, call) ==
    /\ call.op = "emit"
    /\ events' = Append(events, call.event)
    /\ catalog' = [catalog EXCEPT ![c].events = Len(events')]
    /\ Advance(c)
    /\ UNCHANGED <<rows, supplied, mishaps>>

AppendEvent(c, call) ==
    /\ call.op = "emit"
    /\ Accepted(events, catalog[c].events, call.event)
    /\ events' = Grown(events, catalog[c].events, call.event)
    /\ catalog' = [catalog EXCEPT ![c].events = @ + 1]
    /\ Advance(c)
    /\ UNCHANGED <<rows, supplied, mishaps>>

End(c) ==
    /\ job' = [job EXCEPT ![c] = Idle]
    /\ catalog' = [catalog EXCEPT ![c] = Nothing]
    /\ UNCHANGED <<events, rows, supplied>>

(* Faulty: the catalog is not compared with the store at the end.          *)
ReturnUnchecked(c, call) ==
    /\ call.op = "return"
    /\ End(c)
    /\ UNCHANGED mishaps

(* A command that has appended compares its catalog with the store before  *)
(* it returns.                                                             *)
ReturnResult(c, call) ==
    /\ call.op = "return"
    /\ job[c].changed => catalog[c] = Snapshot
    /\ End(c)
    /\ UNCHANGED mishaps

(* A check of the command throws, the store refuses the append, or the     *)
(* store has been changed by somebody else when the command returns.       *)
Fail(c, call) ==
    /\ \/ call.op = "throw"
       \/ /\ call.op = "put"
          /\ ~Accepted(rows[call.identity], catalog[c].rows[call.identity], call.item)
       \/ call.op = "emit" /\ ~Accepted(events, catalog[c].events, call.event)
       \/ call.op = "return" /\ job[c].changed /\ catalog[c] # Snapshot
    /\ End(c)
    /\ UNCHANGED mishaps

(* The decisions that the pipeline waits for have all been taken.          *)
Unnoticed ==
    LET p == PackageOf(events) IN
    /\ events # <<>>
    /\ \/ /\ Latest(events).state \in {"QUESTIONS_PENDING", "USER_DECISION"}
          /\ Clear(Reduced(Store, p))
       \/ /\ Latest(events).state = "ADR_PENDING_APPROVAL"
          /\ Design[p.arch].pending = {a.adr : a \in ApprovalsFor(Store, p.arch)}

Befalls(lost) ==
    /\ Len(mishaps) < MaxMishaps
    /\ mishaps' = Append(mishaps, [at |-> Len(events), lost |-> lost])

(* The process dies between two appends; the last decision is lost by it   *)
(* when its row is stored and the transition it makes possible is not.     *)
Interrupt(c) ==
    /\ job[c].kind # "idle"
    /\ Befalls(job[c].kind \in {"settle", "confirm"} /\ Unnoticed)
    /\ End(c)

Step(c) ==
    \E call \in NextCall(c) :
        \/ AppendArtifact(c, call) \/ AppendEvent(c, call)
        \/ ReturnResult(c, call) \/ Fail(c, call)

-----------------------------------------------------------------------------
(* The commands *)

(* A command starts with a snapshot of the store.  One that is refused or  *)
(* satisfied on this snapshot ends as it began and leaves no trace; it is  *)
(* not begun.                                                              *)
Begin(c, kind, about, record) ==
    LET j == [kind |-> kind, input |-> supplied, about |-> about,
              record |-> record, changed |-> FALSE]
    IN
    /\ job[c].kind = "idle"
    /\ \E v \in {Store} : Call(v, j).op \in {"put", "emit"}
    /\ job' = [job EXCEPT ![c] = j]
    /\ catalog' = [catalog EXCEPT ![c] = Snapshot]
    /\ UNCHANGED <<events, rows, supplied>>

Present == StateOf(events, SourceOf(Inputs[supplied]))

(* project create with the next aggregate                                  *)
Create ==
    /\ supplied < Len(Inputs)
    /\ supplied' = supplied + 1
    /\ UNCHANGED <<events, rows, catalog, job, mishaps>>

(* project analyze and project prepare on the latest aggregate; in a       *)
(* halted state they report it and change nothing.                         *)
BeginAnalyze(c) ==
    /\ supplied > 0
    /\ Present = "ANALYZING"
    /\ Begin(c, "analyze", None, None)
    /\ UNCHANGED mishaps

BeginPrepare(c) ==
    /\ supplied > 0
    /\ Present \notin Halted
    /\ Begin(c, "prepare", None, None)
    /\ UNCHANGED mishaps

(* project resume in a halted state; in any other it is project prepare.   *)
BeginResume(c) ==
    /\ supplied > 0
    /\ Present \in Halted
    /\ Len(events) < MaxEvents
    /\ Begin(c, "recover", None, None)
    /\ UNCHANGED mishaps

BeginAnswer(c, q, r) == Begin(c, "answer", q, r) /\ UNCHANGED mishaps

BeginApprove(c, a, r) == Begin(c, "approve", a, r) /\ UNCHANGED mishaps

BeginReport(c, e) ==
    /\ Befalls(FALSE)
    /\ Begin(c, "report", e, None)

(* What the user of the pipeline does to get on with it                    *)
Proceed(c) ==
    \/ BeginPrepare(c) \/ BeginResume(c)
    \/ \E d \in Resolutions : BeginAnswer(c, d[1], d[2])
    \/ \E d \in Approvals : BeginApprove(c, d[1], d[2])

Command(c) == Proceed(c) \/ BeginAnalyze(c) \/ \E e \in Reports : BeginReport(c, e)

Next ==
    \/ Create
    \/ \E c \in Clients : Command(c) \/ Step(c) \/ Interrupt(c)

Spec == Init /\ [][Next]_vars

(* A command that has begun takes its steps, and the user gives some next  *)
(* command as long as one has something to do.  Nobody has to supply       *)
(* another aggregate or to report a stop.                                  *)
Fairness == \A c \in Clients : WF_vars(Step(c) \/ Proceed(c))

FairSpec == Spec /\ Fairness

-----------------------------------------------------------------------------
(* Properties *)

(* Whatever commands run beside each other and wherever they die, the      *)
(* stream replays: verifyTransitionChain accepts it, and no later command  *)
(* is stopped by what an earlier one has written.                          *)
ChainReplays == ChainVerifies(events)

(* The rows that an event names as its inputs *)
InputsStored(x) ==
    /\ x.answers \subseteq Store.answers
    /\ x.approvals \subseteq Store.approvals
    /\ x.event # "SOURCE_RESTARTED" /\ x.arch # None =>
         HasStored(Store, Arch, x.arch) /\ HasStored(Store, AdrSet, x.arch)
    /\ x.plan # None => HasStored(Store, Plan(Outline[x.plan].id), x.plan)

(* A source is ready for issues only when each blocking question has an    *)
(* answer of the authority and each pending ADR an approval, when they,    *)
(* the architecture and the plan are in the store, and when the audit that *)
(* is stored for the plan has passed over exactly this evidence.           *)
ReadyIsEarned ==
    \A i \in 1..Len(events) : events[i].event = "AUDIT_PASSED" =>
        LET x == events[i] IN
        /\ InputsStored(x)
        /\ QuestionsOf[x.source] = {a.question : a \in x.answers}
        /\ Design[x.arch].pending = Approved(x)
        /\ \E a \in Range(rows[Audit(Outline[x.plan].id)]) :
             a = [plan |-> x.plan, answers |-> x.answers,
                  approvals |-> x.approvals, passed |-> TRUE]

(* Concurrent answers: a question has one answer in any package.           *)
NoConflictingAnswers ==
    \A q \in Questions : \A a, b \in Range(rows[AnswersTo(q)]) :
        a.base = b.base => a = b

(* A command that has appended an answer or an approval does not report    *)
(* success and leave the pipeline waiting for decisions that are all there *)
(* (two clients, one answer each, may leave it so, but one of them learns  *)
(* that the store has changed under it).                                   *)
SuccessIsHonest ==
    [][\A c \in Clients :
         (/\ job[c].kind \in {"settle", "confirm"}
          /\ \E call \in NextCall(c) : ReturnResult(c, call)) => ~Unnoticed]_vars

(* Nothing in the aggregate keeps it from READY_FOR_ISSUES.                *)
Sound(plan) ==
    /\ Design[Outline[plan].arch].sound
    /\ Outline[plan].complete /\ Outline[plan].ready

(* The aggregate is ready for issues, or another one is supplied.          *)
Finished(n) == supplied # n \/ Present = "READY_FOR_ISSUES"

(* The pipeline waits, at the source of the aggregate, for     *)
(* decisions that are all stored, and no command is about to notice.       *)
Waiting(n) ==
    /\ Unnoticed
    /\ Latest(events).source = SourceOf(Inputs[n])
    /\ \A c \in Clients : job[c].kind \notin {"settle", "confirm"}

(* A process has died after the append of the last answer or approval and  *)
(* before the transition that it makes possible.                           *)
DecisionLost(n) ==
    /\ Waiting(n)
    /\ \E i \in 1..Len(mishaps) : mishaps[i].lost /\ mishaps[i].at = Len(events)

(* The last approval was stored beside issue plans of two identities, and  *)
(* no command resolves the bundle of documents any more.                   *)
PlansAmbiguous(n) ==
    /\ Waiting(n)
    /\ Latest(events).state = "ADR_PENDING_APPROVAL"
    /\ Cardinality({p \in PlanIds : rows[Plan(p)] # <<>>}) > 1

(* A stop was reported where resume cannot verify the aggregate, or on top *)
(* of another stop.                                                        *)
Unresumable(n) ==
    /\ Present \in Halted
    /\ ~Recoverable(Inputs[n]) \/ RecoveryState(events) \notin Active

(* Under the fairness above every sound aggregate becomes ready for        *)
(* issues, although commands die and stops are reported, except where one  *)
(* of these three has happened.                                            *)
CompletesUnlessStuck ==
    \A n \in 1..Len(Inputs) : Sound(Inputs[n]) =>
        (supplied = n ~> \/ Finished(n) \/ Unresumable(n)
                         \/ DecisionLost(n) \/ PlansAmbiguous(n))
=============================================================================
