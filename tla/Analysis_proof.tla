--------------------------- MODULE Analysis_proof ---------------------------
(***************************************************************************)
(* Proofs about Analysis, for any clients, sources, decisions, documents   *)
(* and bounds: the type invariant, and that the transition stream replays. *)
(*                                                                         *)
(* A call is proper when what it appends is typed and, for an event, when  *)
(* transition accepts the event as it is recorded, in a stream that ends   *)
(* where the caller's view of it ends.  Every call over a typed view is    *)
(* proper (CallProper); an event is appended only when that view is the    *)
(* whole stream, so the stream goes on replaying (StepPreserves).          *)
(***************************************************************************)
EXTENDS Analysis, SequenceTheorems, TLAPS

Carried == {"QUESTIONS_FOUND", "DECISION_STARTED", "DECISIONS_RESOLVED",
            "ADR_APPROVAL_REQUIRED", "ADR_APPROVED"}

(* The package of an event is either carried by it or known from answers.  *)
Evident(x) ==
    \/ x.event \in Carried
    \/ IsDecision(x.package) =>
         /\ x.package.source = x.source
         /\ Clear(x.package) /\ QuestionsOf[x.source] # {} => x.answers # {}

ProperEvent(log, x) ==
    /\ x \in Event
    /\ Continues(log, Len(log) + 1, x)
    /\ Accepts(x)
    /\ Recorded(x) = x

ProperPut(d, item) ==
    /\ d \in Identities
    /\ item \in Item
    /\ \A q \in Questions : d = AnswersTo(q) => item \in Answer
    /\ \A a \in Adrs : d = ApprovalsOf(a) => item \in Approval

Proper(log, call) ==
    /\ call.op = "emit" => ProperEvent(log, call.event)
    /\ call.op = "put" => ProperPut(call.identity, call.item)

(* A typed view of the store                                               *)
Typed(v) ==
    /\ v.events \in Seq(Event)
    /\ v.answers \subseteq Answer
    /\ v.approvals \subseteq Approval

-----------------------------------------------------------------------------
(* transition *)

LEMMA NoneIsNoPackage == ~IsDecision(None) /\ ~IsAdr(None)
BY NoneAssumption DEF IsDecision, IsAdr, Package

LEMMA PackageKinds == \A p : ~(IsDecision(p) /\ IsAdr(p))
BY DEF IsDecision, IsAdr, DecisionPackage, AdrPackage

(* Leaving a package out of the event changes no verdict of transition,    *)
(* because no verdict rested on it.                                        *)
LEMMA RecordedAccepted ==
    ASSUME NEW x \in Event, Accepts(x), Evident(x)
    PROVE  /\ Recorded(x) \in Event
           /\ Accepts(Recorded(x))
           /\ Recorded(Recorded(x)) = Recorded(x)
           /\ \A log, i : Continues(log, i, x) => Continues(log, i, Recorded(x))
<1> DEFINE y == [x EXCEPT !.package = None]
<1>1. CASE Recorded(x) = x
  BY <1>1
<1>2. CASE Recorded(x) = y /\ x.event \notin Carried
                           /\ ~(x.answers # {} /\ IsDecision(x.package))
  <2>1. /\ y \in Event /\ y.package = None
        /\ y.prev = x.prev /\ y.event = x.event /\ y.state = x.state
        /\ y.source = x.source /\ y.answers = x.answers /\ y.approvals = x.approvals
        /\ y.arch = x.arch /\ y.plan = x.plan /\ y.resume = x.resume
    BY DEF Event
  <2>2. Recorded(y) = y
    <3>1. y = [y EXCEPT !.package = None]
      BY <2>1 DEF Event
    <3> QED
      BY <3>1 DEF Recorded
  <2>3. Legal(y) /\ Bound(y)
    <3>1. BindsPlan(y) <=> BindsPlan(x)
      BY <2>1 DEF BindsPlan
    <3>2. BindsArchitecture(y) <=> BindsArchitecture(x)
      BY <2>1, <3>1 DEF BindsArchitecture
    <3> QED
      BY <2>1, <3>1, <3>2 DEF Accepts, Legal, Bound
  <2>4. ArchitectureValid(y) /\ ~Decided(y)
    BY <2>1, NoneIsNoPackage DEF ArchitectureValid, Decided
  <2>5. Decided(x) => QuestionsOf[x.source] = {}
    BY <1>2 DEF Decided, Evident
  <2>6. IsDecision(x.package) /\ ~Decided(x) => QuestionsOf[x.source] # {}
    BY <1>2 DEF Decided, Evident, Clear
  <2>7. Approved(y) = Approved(x)
    BY <2>1 DEF Approved
  <2>8. ArchitectureComplete(y) <=> ArchitectureComplete(x)
    BY <2>1, <2>4, <2>5, <2>6, <2>7 DEF ArchitectureComplete, ArchitectureValid
  <2>9. /\ PlanComplete(y) <=> PlanComplete(x)
        /\ AuditReady(y) <=> AuditReady(x)
    BY <2>1, <2>8 DEF PlanComplete, AuditReady
  <2>10. Evidence(y)
    <3>1. BindsPlan(y) <=> BindsPlan(x)
      BY <2>1 DEF BindsPlan
    <3> QED
      BY <1>2, <2>1, <2>4, <2>8, <2>9, <3>1 DEF Accepts, Evidence, Carried
  <2>11. \A log, i : Continues(log, i, x) => Continues(log, i, y)
    BY <1>2, <2>1 DEF Continues, Carried
  <2> QED
    BY <1>2, <2>1, <2>2, <2>3, <2>10, <2>11 DEF Accepts
<1> QED
  BY <1>1, <1>2 DEF Recorded, Carried

(* runNextStage appends only events that replay.                           *)
THEOREM RunNextStageProper ==
    ASSUME NEW log, NEW x, Legal(x) => x \in Event, Evident(x)
    PROVE  Proper(log, RunNextStage(log, x))
<1>1. CASE Continues(log, Len(log) + 1, x) /\ Accepts(x)
  <2>1. x \in Event
    BY <1>1 DEF Accepts
  <2>2. RunNextStage(log, x) = [op |-> "emit", event |-> Recorded(x)]
    BY <1>1 DEF RunNextStage
  <2> QED
    BY <1>1, <2>1, <2>2, RecordedAccepted DEF Proper, ProperEvent
<1>2. CASE ~(Continues(log, Len(log) + 1, x) /\ Accepts(x))
  BY <1>2 DEF RunNextStage, Proper, Throw
<1> QED
  BY <1>1, <1>2

-----------------------------------------------------------------------------
(* The calls of the commands *)

LEMMA OutcomesProper == \A log : Proper(log, Return) /\ Proper(log, Throw)
BY DEF Proper, Return, Throw

LEMMA PersistProper ==
    ASSUME NEW log, NEW v, NEW d, NEW item, NEW next, ProperPut(d, item), Proper(log, next)
    PROVE  Proper(log, Persist(v, d, item, next))
BY OutcomesProper DEF Persist, Proper, Put

LEMMA IdentitiesDiffer ==
    /\ \A q : AnswersTo(q) \notin {Pm, Arch, AdrSet}
    /\ \A a : ApprovalsOf(a) \notin {Pm, Arch, AdrSet}
    /\ \A q, p : AnswersTo(q) # Plan(p) /\ AnswersTo(q) # Audit(p)
    /\ \A a, p : ApprovalsOf(a) # Plan(p) /\ ApprovalsOf(a) # Audit(p)
    /\ \A a, q : ApprovalsOf(a) # AnswersTo(q)
BY DEF AnswersTo, ApprovalsOf, Pm, Arch, AdrSet, Plan, Audit

LEMMA DocumentsProper ==
    /\ \A s \in Sources : ProperPut(Pm, s)
    /\ \A a \in Architectures : ProperPut(Arch, a) /\ ProperPut(AdrSet, a)
    /\ \A p \in Plans : ProperPut(Plan(Outline[p].id), p)
    /\ \A p \in Plans, b \in AuditArtifact : ProperPut(Audit(Outline[p].id), b)
<1>1. \A p \in Plans : Outline[p].id \in PlanIds
  BY DocumentsAssumption DEF PlanFacts
<1> QED
  BY <1>1, IdentitiesDiffer DEF ProperPut, Identities, Item

LEMMA LatestTyped ==
    ASSUME NEW log \in Seq(Event), log # <<>>
    PROVE  /\ Latest(log) \in Event
           /\ Latest(log).source \in Sources /\ Latest(log).state \in States
<1>1. Latest(log) \in Event
  BY DEF Latest
<1> QED
  BY <1>1 DEF Event

LEMMA StateTyped ==
    ASSUME NEW v, Typed(v), NEW s
    PROVE  StateOf(v.events, s) \in States
<1>1. CASE v.events = <<>>
  BY <1>1 DEF StateOf, States, Active
<1>2. CASE v.events # <<>>
  BY <1>2, LatestTyped DEF Typed, StateOf, States, Active
<1> QED
  BY <1>1, <1>2

(* The event that a command starts from *)
LEMMA BlankTyped ==
    ASSUME NEW v, Typed(v), NEW s \in Sources, NEW n \in Nat \union Records
    PROVE  /\ Blank(v, s, n) \in Event
           /\ Blank(v, s, n).package = None /\ Blank(v, s, n).source = s
           /\ Blank(v, s, n).event = "BLOCK"
<1>1. "BLOCK" \in EventNames /\ "BLOCKED" \in States
  BY DEF EventNames, Stops, States, Halted
<1> QED
  BY <1>1, StateTyped DEF Event, Blank

LEMMA ResolveTyped ==
    ASSUME NEW p \in DecisionPackage, NEW pairs \in SUBSET (Questions \X Records)
    PROVE  /\ Resolve(p, pairs) \in DecisionPackage
           /\ Resolve(p, pairs).source = p.source
           /\ Resolve(p, pairs).settled =
                {e \in p.settled : \A d \in pairs : d[1] # e[1]} \union pairs
BY DEF Resolve, DecisionPackage

(* The package that a view reduces an open one to is clear only by answers *)
LEMMA ReducedTyped ==
    ASSUME NEW v, Typed(v), NEW p \in DecisionPackage
    PROVE  /\ Reduced(v, p) \in DecisionPackage
           /\ Reduced(v, p).source = p.source
           /\ AnswersFor(v, p) \in SUBSET Answer
           /\ \A a \in AnswersFor(v, p) : a.base = p
<1>1. AnswersFor(v, p) \in SUBSET Answer /\ \A a \in AnswersFor(v, p) : a.base = p
  BY DEF AnswersFor, Typed
<1>2. {<<a.question, a.record>> : a \in AnswersFor(v, p)} \in SUBSET (Questions \X Records)
  BY <1>1 DEF Answer
<1> QED
  BY <1>1, <1>2, ResolveTyped DEF Reduced

LEMMA OpenTyped ==
    ASSUME NEW s \in Sources
    PROVE  Open(s) \in DecisionPackage /\ Open(s).source = s /\ Open(s).settled = {}
BY DEF Open, DecisionPackage

LEMMA ReducedOpen ==
    ASSUME NEW v, Typed(v), NEW s \in Sources, QuestionsOf[s] # {},
           Clear(Reduced(v, Open(s)))
    PROVE  AnswersFor(v, Open(s)) # {}
<1> SUFFICES ASSUME AnswersFor(v, Open(s)) = {} PROVE FALSE
  OBVIOUS
<1>1. {<<a.question, a.record>> : a \in AnswersFor(v, Open(s))} = {}
  OBVIOUS
<1>2. Reduced(v, Open(s)).settled = {} /\ Reduced(v, Open(s)).source = s
  BY <1>1, OpenTyped, ResolveTyped DEF Reduced
<1> QED
  BY <1>2 DEF Clear

LEMMA Names ==
    /\ {"ANALYZING", "QUESTIONS_PENDING", "USER_DECISION", "ARCHITECTURE_PENDING",
        "ADR_PENDING_APPROVAL", "PM_FINALIZATION", "SPEC_AUDIT", "READY_FOR_ISSUES",
        "BLOCKED"} \subseteq States
    /\ {d[2] : d \in Declared} \subseteq EventNames
    /\ Carried \subseteq EventNames
    /\ {"ANALYSIS_COMPLETED", "SOURCE_RESTARTED", "ARCHITECTURE_COMPLETED",
        "FINALIZATION_COMPLETED", "AUDIT_PASSED", "AUDIT_BLOCKED"} \subseteq EventNames
BY DEF States, Active, Halted, Terminal, EventNames, Declared, Carried

LEMMA AnalyzeProper ==
    ASSUME NEW v, Typed(v), NEW s \in Sources, NEW n \in Nat
    PROVE  Proper(v.events, AnalyzeCall(v, s, n))
<1> DEFINE b == Blank(v, s, n)
           x == [b EXCEPT !.prev = "ANALYZING"]
           found == [x EXCEPT !.event = "QUESTIONS_FOUND", !.package = Open(s),
                              !.state = "QUESTIONS_PENDING"]
           completed == [x EXCEPT !.event = "ANALYSIS_COMPLETED",
                                  !.state = "ARCHITECTURE_PENDING"]
           restarted == [x EXCEPT !.event = "SOURCE_RESTARTED", !.state = "ANALYZING"]
<1>1. b \in Event /\ b.package = None
  BY BlankTyped
<1>2. Open(s) \in Package
  BY OpenTyped DEF Package
<1> HIDE DEF b
<1>3. x \in Event /\ x.package = None
  BY <1>1, Names DEF Event
<1> HIDE DEF x
<1>4. found \in Event /\ found.event = "QUESTIONS_FOUND"
  BY <1>2, <1>3, Names DEF Event, Carried
<1>5. completed \in Event /\ completed.package = None
  BY <1>3, Names DEF Event
<1>6. restarted \in Event /\ restarted.package = None
  BY <1>3, Names DEF Event
<1> HIDE DEF found, completed, restarted
<1>7. Evident(found) /\ Evident(completed) /\ Evident(restarted)
  BY <1>4, <1>5, <1>6, NoneIsNoPackage DEF Evident, Carried
<1>8. Proper(v.events, RunNextStage(v.events,
          IF v.events # <<>> /\ Latest(v.events).source # s THEN restarted
          ELSE IF QuestionsOf[s] # {} THEN found ELSE completed))
  BY <1>4, <1>5, <1>6, <1>7, RunNextStageProper
<1>9. AnalyzeCall(v, s, n) = Persist(v, Pm, s, RunNextStage(v.events,
          IF v.events # <<>> /\ Latest(v.events).source # s THEN restarted
          ELSE IF QuestionsOf[s] # {} THEN found ELSE completed))
  BY DEF AnalyzeCall, b, x, found, completed, restarted
<1> QED
  BY <1>8, <1>9, DocumentsProper, PersistProper

LEMMA ArchitectureProper ==
    ASSUME NEW v, Typed(v), NEW arch \in Architectures, NEW n \in Nat
    PROVE  Proper(v.events, ArchitectureCall(v, arch, n))
<1> DEFINE s == Design[arch].source
           b == Blank(v, s, n)
           x == [b EXCEPT
                   !.arch = arch,
                   !.package = IF QuestionsOf[s] # {} THEN Reduced(v, Open(s)) ELSE None,
                   !.answers = AnswersFor(v, Open(s))]
           completed == [x EXCEPT !.event = "ARCHITECTURE_COMPLETED",
                                  !.state = "PM_FINALIZATION"]
           required == [x EXCEPT !.event = "ADR_APPROVAL_REQUIRED",
                                 !.state = "ADR_PENDING_APPROVAL",
                                 !.package = [kind |-> "adr", arch |-> arch]]
           next == IF ~ArchitectureValid(x) THEN Throw
                   ELSE RunNextStage(v.events,
                          IF ArchitectureComplete(completed) THEN completed
                          ELSE IF Design[arch].pending # {} THEN required ELSE x)
<1>1. s \in Sources
  BY DocumentsAssumption DEF ArchitectureFacts
<1>2. /\ Open(s) \in DecisionPackage /\ Reduced(v, Open(s)) \in Package
      /\ Reduced(v, Open(s)).source = s
      /\ AnswersFor(v, Open(s)) \in SUBSET Answer
  BY <1>1, OpenTyped, ReducedTyped DEF Package
<1>3. [kind |-> "adr", arch |-> arch] \in Package
  BY DEF Package, AdrPackage
<1>4. QuestionsOf[s] # {} /\ Clear(Reduced(v, Open(s))) => AnswersFor(v, Open(s)) # {}
  BY <1>1, ReducedOpen
<1>5. b \in Event /\ b.source = s
  BY <1>1, BlankTyped
<1> HIDE DEF s, b
<1>6. /\ x \in Event /\ x.source = s /\ x.answers = AnswersFor(v, Open(s))
      /\ x.package = IF QuestionsOf[s] # {} THEN Reduced(v, Open(s)) ELSE None
  BY <1>2, <1>5 DEF Event
<1> HIDE DEF x
<1>7. /\ completed \in Event /\ completed.source = x.source
      /\ completed.answers = x.answers /\ completed.package = x.package
  BY <1>6, Names DEF Event
<1>8. required \in Event /\ required.event = "ADR_APPROVAL_REQUIRED"
  BY <1>3, <1>6, Names DEF Event, Carried
<1> HIDE DEF completed, required
<1>9. Evident(x) /\ Evident(completed) /\ Evident(required)
  BY <1>2, <1>4, <1>6, <1>7, <1>8, NoneIsNoPackage DEF Evident, Carried
<1>10. Proper(v.events, next)
  BY <1>6, <1>7, <1>8, <1>9, RunNextStageProper, OutcomesProper
<1>11. ArchitectureCall(v, arch, n) =
          IF ~Reducible(v, Open(s)) THEN Throw
          ELSE Persist(v, Arch, arch, Persist(v, AdrSet, arch, next))
  BY DEF ArchitectureCall, s, b, x, completed, required
<1> HIDE DEF next
<1> QED
  BY <1>10, <1>11, DocumentsProper, PersistProper, OutcomesProper

(* The package of the current evidence is clear only by answers of its     *)
(* source.                                                                 *)
LEMMA EffectiveTyped ==
    ASSUME NEW v, Typed(v), NEW s \in Sources
    PROVE  /\ EffectivePackage(v, s) \in Package \union {None}
           /\ CurrentAnswers(v, s) \in SUBSET Answer
           /\ IsDecision(EffectivePackage(v, s)) =>
                /\ EffectivePackage(v, s).source = s
                /\ Clear(EffectivePackage(v, s)) /\ QuestionsOf[s] # {} =>
                     CurrentAnswers(v, s) # {}
<1>1. CurrentAnswers(v, s) \in SUBSET Answer
  BY DEF CurrentAnswers, Typed
<1>2. CASE AnsweredPackages(v, s) # {}
  <2> DEFINE p == CHOOSE q \in AnsweredPackages(v, s) : TRUE
  <2>1. p \in AnsweredPackages(v, s)
    BY <1>2
  <2> HIDE DEF p
  <2>2. PICK a \in v.answers : a.base = p /\ p.source = s
    BY <2>1 DEF AnsweredPackages
  <2>3. p \in DecisionPackage
    BY <2>2 DEF Typed, Answer
  <2>4. EffectivePackage(v, s) = Reduced(v, p)
    BY <1>2 DEF EffectivePackage, p
  <2>5. a \in CurrentAnswers(v, s)
    BY <2>2 DEF CurrentAnswers
  <2> QED
    BY <1>1, <2>2, <2>3, <2>4, <2>5, ReducedTyped DEF Package
<1>3. CASE AnsweredPackages(v, s) = {} /\ QuestionsOf[s] # {}
  <2>1. EffectivePackage(v, s) = Open(s)
    BY <1>3 DEF EffectivePackage
  <2>2. ~Clear(Open(s))
    BY <1>3, OpenTyped DEF Clear
  <2> QED
    BY <1>1, <2>1, <2>2, OpenTyped DEF Package
<1>4. CASE AnsweredPackages(v, s) = {} /\ QuestionsOf[s] = {}
  BY <1>1, <1>4, NoneIsNoPackage DEF EffectivePackage
<1> QED
  BY <1>2, <1>3, <1>4

LEMMA EvidencedProper ==
    ASSUME NEW v, Typed(v), NEW plan \in Plans, NEW n \in Nat
    PROVE  /\ Evidenced(v, plan, n) \in Event /\ Evident(Evidenced(v, plan, n))
           /\ Evidenced(v, plan, n).event = "BLOCK"
           /\ Evidenced(v, plan, n).plan = plan
<1> DEFINE arch == Outline[plan].arch
           s == Design[arch].source
           b == Blank(v, s, n)
           x == Evidenced(v, plan, n)
<1>1. arch \in Architectures /\ s \in Sources
  BY DocumentsAssumption DEF ArchitectureFacts, PlanFacts
<1>2. b \in Event /\ b.source = s /\ b.event = "BLOCK"
  BY <1>1, BlankTyped
<1>3. CurrentApprovals(v, arch) \in SUBSET Approval
  BY DEF CurrentApprovals, ApprovalsFor, Typed
<1>4. x = [b EXCEPT !.arch = arch, !.plan = plan, !.package = EffectivePackage(v, s),
                    !.answers = CurrentAnswers(v, s), !.approvals = CurrentApprovals(v, arch)]
  BY DEF Evidenced
<1> HIDE DEF arch, s, b, x
<1>5. /\ x \in Event /\ x.source = s /\ x.answers = CurrentAnswers(v, s)
      /\ x.package = EffectivePackage(v, s) /\ x.event = "BLOCK" /\ x.plan = plan
  BY <1>1, <1>2, <1>3, <1>4, EffectiveTyped DEF Event
<1>6. Evident(x)
  BY <1>1, <1>5, EffectiveTyped DEF Evident
<1> QED
  BY <1>5, <1>6 DEF x

(* Renaming an event that is not carried leaves its evidence what it was.  *)
LEMMA RenamedProper ==
    ASSUME NEW x \in Event, Evident(x), x.event = "BLOCK",
           NEW e \in EventNames, NEW t \in States
    PROVE  LET y == [x EXCEPT !.event = e, !.state = t]
           IN  y \in Event /\ Evident(y)
<1> DEFINE y == [x EXCEPT !.event = e, !.state = t]
<1>1. /\ y \in Event /\ y.package = x.package /\ y.source = x.source
      /\ y.answers = x.answers
  BY DEF Event
<1>2. x.event \notin Carried
  BY DEF Carried
<1> HIDE DEF y
<1>3. Evident(y)
  BY <1>1, <1>2 DEF Evident
<1> QED
  BY <1>1, <1>3 DEF y

LEMMA FinalizeProper ==
    ASSUME NEW v, Typed(v), NEW plan \in Plans, NEW n \in Nat
    PROVE  Proper(v.events, FinalizeCall(v, plan, n))
<1> DEFINE x == Evidenced(v, plan, n)
           completed == [x EXCEPT !.event = "FINALIZATION_COMPLETED", !.state = "SPEC_AUDIT"]
           next == RunNextStage(v.events, IF PlanComplete(x) THEN completed ELSE x)
<1>1. x \in Event /\ Evident(x) /\ x.event = "BLOCK"
  BY EvidencedProper
<1> HIDE DEF x
<1>2. completed \in Event /\ Evident(completed)
  BY <1>1, RenamedProper, Names
<1> HIDE DEF completed
<1>3. Proper(v.events, next)
  BY <1>1, <1>2, RunNextStageProper
<1>4. FinalizeCall(v, plan, n) = Persist(v, Plan(Outline[plan].id), plan, next)
  BY DEF FinalizeCall, x, completed
<1> HIDE DEF next
<1> QED
  BY <1>3, <1>4, DocumentsProper, PersistProper

LEMMA AuditProper ==
    ASSUME NEW v, Typed(v), NEW plan \in Plans, NEW n \in Nat
    PROVE  Proper(v.events, AuditCall(v, plan, n))
<1> DEFINE x == Evidenced(v, plan, n)
           passed == [x EXCEPT !.event = "AUDIT_PASSED", !.state = "READY_FOR_ISSUES"]
           blocked == [x EXCEPT !.event = "AUDIT_BLOCKED"]
           next == RunNextStage(v.events, IF AuditReady(x) THEN passed ELSE blocked)
           put == Put(Audit(Outline[plan].id), AuditOf(x))
<1>1. x \in Event /\ Evident(x) /\ x.event = "BLOCK" /\ x.plan = plan
  BY EvidencedProper
<1>2. AuditOf(x) \in AuditArtifact
  <2>1. AuditReady(x) \in BOOLEAN
    BY DEF AuditReady
  <2> HIDE DEF x
  <2> QED
    BY <1>1, <2>1 DEF AuditOf, AuditArtifact, Event
<1> HIDE DEF x
<1>3. Proper(v.events, put)
  BY <1>2, DocumentsProper DEF Proper, Put
<1>4. passed \in Event /\ Evident(passed)
  BY <1>1, RenamedProper, Names
<1>5. blocked = [x EXCEPT !.event = "AUDIT_BLOCKED", !.state = x.state] /\ x.state \in States
  BY <1>1 DEF Event
<1>6. blocked \in Event /\ Evident(blocked)
  BY <1>1, <1>5, RenamedProper, Names
<1> HIDE DEF passed, blocked
<1>7. Proper(v.events, next)
  BY <1>4, <1>6, RunNextStageProper
<1>8. AuditCall(v, plan, n) \in {next, put, Throw}
  BY DEF AuditCall, x, passed, blocked
<1> HIDE DEF next, put
<1> QED
  BY <1>3, <1>7, <1>8, OutcomesProper

LEMMA PrepareProper ==
    ASSUME NEW v, Typed(v), NEW kind, NEW n \in 1..Len(Inputs)
    PROVE  Proper(v.events, PrepareCall(v, kind, n))
<1> DEFINE plan == Inputs[n]
           arch == Outline[plan].arch
<1>1. plan \in Plans
  BY InputAssumption
<1>2. arch \in Architectures /\ Design[arch].source \in Sources
  BY <1>1, DocumentsAssumption DEF ArchitectureFacts, PlanFacts
<1>3. n \in Nat
  BY InputAssumption
<1>4. PrepareCall(v, kind, n) \in
        {AnalyzeCall(v, Design[arch].source, n), ArchitectureCall(v, arch, n),
         FinalizeCall(v, plan, n), AuditCall(v, plan, n), Return, Throw}
  BY DEF PrepareCall
<1> QED
  BY <1>1, <1>2, <1>3, <1>4, AnalyzeProper, ArchitectureProper, FinalizeProper,
     AuditProper, OutcomesProper

(* transition accepts no recovery into a state that is not one.            *)
LEMMA RecoverProper ==
    ASSUME NEW v, Typed(v), NEW n \in 1..Len(Inputs)
    PROVE  Proper(v.events, RecoverCall(v, n))
<1> DEFINE s == SourceOf(Inputs[n])
           target == RecoveryState(v.events)
           b == Blank(v, s, n)
           e == IF StateOf(v.events, s) = "BLOCKED" THEN "RESUME" ELSE "RETRY"
           x == [b EXCEPT !.event = e, !.state = target, !.resume = target]
<1>1. s \in Sources /\ n \in Nat
  BY InputAssumption, DocumentsAssumption DEF SourceOf, ArchitectureFacts, PlanFacts
<1>2. b \in Event /\ b.package = None
  BY <1>1, BlankTyped
<1>3. e \in EventNames /\ e \in {"RESUME", "RETRY"}
  BY DEF EventNames, Recoveries
<1> HIDE DEF b, e, target
<1>4. x.event = e /\ x.state = target /\ x.package = None
  BY <1>2 DEF Event
<1>5. Legal(x) => target \in States
  BY <1>3, <1>4 DEF Legal, Declared, Stops, States
<1>6. target \in States => x \in Event
  BY <1>2, <1>3 DEF Event
<1> HIDE DEF x
<1>7. Evident(x)
  BY <1>4, NoneIsNoPackage DEF Evident
<1>8. Proper(v.events, RunNextStage(v.events, x))
  BY <1>5, <1>6, <1>7, RunNextStageProper
<1>9. RecoverCall(v, n) \in {RunNextStage(v.events, x), Throw}
  BY DEF RecoverCall, s, target, b, e, x
<1> QED
  BY <1>8, <1>9, OutcomesProper

LEMMA AnswerProper ==
    ASSUME NEW v, Typed(v), NEW q \in Questions, NEW r \in Records
    PROVE  /\ Proper(v.events, AnswerCall(v, q, r))
           /\ AnswerCall(v, q, r).op # "emit"
           /\ AnswerCall(v, q, r).op = "put" => IsDecision(PackageOf(v.events))
<1>1. CASE IsDecision(PackageOf(v.events))
  <2>1. AnswerRow(v, q, r) \in Answer
    BY <1>1 DEF AnswerRow, Answer, IsDecision, Typed
  <2>2. ProperPut(AnswersTo(q), AnswerRow(v, q, r))
    BY <2>1, IdentitiesDiffer DEF ProperPut, Identities, Item
  <2>3. AnswerCall(v, q, r) \in {Put(AnswersTo(q), AnswerRow(v, q, r)), Return, Throw}
    BY DEF AnswerCall
  <2> QED
    BY <1>1, <2>2, <2>3, OutcomesProper DEF Proper, Put, Return, Throw
<1>2. CASE ~IsDecision(PackageOf(v.events))
  <2>1. AnswerCall(v, q, r) = Throw
    BY <1>2 DEF AnswerCall
  <2> QED
    BY <2>1, OutcomesProper DEF Throw
<1> QED
  BY <1>1, <1>2

LEMMA SettleProper ==
    ASSUME NEW v, Typed(v), NEW r \in Records, v.events # <<>>,
           IsDecision(PackageOf(v.events))
    PROVE  LET call == SettleCall(v, r)
           IN  /\ Proper(v.events, call)
               /\ call.op # "put"
               /\ call.op = "emit" => IsDecision(call.event.package)
<1> DEFINE p == PackageOf(v.events)
           state == Latest(v.events).state
           b == Blank(v, Latest(v.events).source, r)
           x == [b EXCEPT !.answers = AnswersFor(v, p)]
           started == [x EXCEPT !.event = "DECISION_STARTED", !.state = "USER_DECISION",
                                !.package = p]
           resolved == [x EXCEPT !.event = "DECISIONS_RESOLVED",
                                 !.state = "ARCHITECTURE_PENDING", !.package = Reduced(v, p)]
<1>1. Latest(v.events).source \in Sources
  BY LatestTyped DEF Typed
<1>2. b \in Event
  BY <1>1, BlankTyped
<1>3. /\ p \in DecisionPackage /\ p \in Package
      /\ Reduced(v, p) \in DecisionPackage /\ Reduced(v, p) \in Package
      /\ AnswersFor(v, p) \in SUBSET Answer
  BY ReducedTyped DEF IsDecision, Package
<1> HIDE DEF p, b
<1>4. x \in Event
  BY <1>2, <1>3 DEF Event
<1> HIDE DEF x
<1>5. started \in Event /\ started.event = "DECISION_STARTED" /\ started.package = p
  BY <1>3, <1>4, Names DEF Event, Carried
<1>6. /\ resolved \in Event /\ resolved.event = "DECISIONS_RESOLVED"
      /\ resolved.package = Reduced(v, p)
  BY <1>3, <1>4, Names DEF Event, Carried
<1> HIDE DEF started, resolved
<1>7. Evident(started) /\ Evident(resolved)
  BY <1>5, <1>6 DEF Evident, Carried
<1>8. \A y \in {started, resolved} :
         LET call == RunNextStage(v.events, y)
         IN  /\ Proper(v.events, call) /\ call.op # "put"
             /\ call.op = "emit" => IsDecision(call.event.package)
  <2> SUFFICES ASSUME NEW y \in {started, resolved}
               PROVE  LET call == RunNextStage(v.events, y)
                      IN  /\ Proper(v.events, call) /\ call.op # "put"
                          /\ call.op = "emit" => IsDecision(call.event.package)
    OBVIOUS
  <2>1. Recorded(y) = y /\ IsDecision(y.package)
    BY <1>3, <1>5, <1>6 DEF Recorded, IsDecision
  <2>2. Proper(v.events, RunNextStage(v.events, y))
    BY <1>5, <1>6, <1>7, RunNextStageProper
  <2> QED
    BY <2>1, <2>2 DEF RunNextStage, Throw
<1>9. SettleCall(v, r) \in {RunNextStage(v.events, started),
                            RunNextStage(v.events, resolved), Return}
  BY DEF SettleCall, p, b, x, started, resolved
<1> QED
  BY <1>8, <1>9, OutcomesProper DEF Return

LEMMA ApproveProper ==
    ASSUME NEW v, Typed(v), NEW a \in Adrs, NEW r \in Records
    PROVE  /\ Proper(v.events, ApproveCall(v, a, r))
           /\ ApproveCall(v, a, r).op # "emit"
           /\ ApproveCall(v, a, r).op = "put" => IsAdr(PackageOf(v.events))
<1> DEFINE p == PackageOf(v.events)
           row == [adr |-> a, arch |-> p.arch, record |-> r, at |-> Len(v.events)]
<1>1. CASE IsAdr(p)
  <2>1. row \in Approval
    BY <1>1 DEF Approval, IsAdr, AdrPackage, Typed
  <2>2. ProperPut(ApprovalsOf(a), row)
    BY <2>1, IdentitiesDiffer DEF ProperPut, Identities, Item
  <2>3. ApproveCall(v, a, r) \in {Put(ApprovalsOf(a), row), Return, Throw}
    BY DEF ApproveCall
  <2> QED
    BY <1>1, <2>2, <2>3, OutcomesProper DEF Proper, Put, Return, Throw
<1>2. CASE ~IsAdr(p)
  <2>1. ApproveCall(v, a, r) = Throw
    BY <1>2 DEF ApproveCall
  <2> QED
    BY <2>1, OutcomesProper DEF Throw
<1> QED
  BY <1>1, <1>2

LEMMA ConfirmProper ==
    ASSUME NEW v, Typed(v), NEW r \in Records, v.events # <<>>,
           IsAdr(PackageOf(v.events))
    PROVE  LET call == ConfirmCall(v, r)
           IN  /\ Proper(v.events, call)
               /\ call.op # "put"
               /\ call.op = "emit" => IsAdr(call.event.package)
<1> DEFINE p == PackageOf(v.events)
           b == Blank(v, Latest(v.events).source, r)
           given == ApprovalsFor(v, p.arch)
           x == [b EXCEPT
                   !.event = "ADR_APPROVED", !.state = "PM_FINALIZATION",
                   !.package = p, !.arch = p.arch, !.approvals = given]
           next == RunNextStage(v.events, x)
<1>1. Latest(v.events).source \in Sources
  BY LatestTyped DEF Typed
<1>2. b \in Event
  BY <1>1, BlankTyped
<1>3. p \in Package /\ p.arch \in Architectures /\ given \in SUBSET Approval
  BY DEF IsAdr, AdrPackage, Package, ApprovalsFor, Typed
<1> HIDE DEF p, b, given
<1>4. x \in Event /\ x.event = "ADR_APPROVED" /\ x.package = p
  BY <1>2, <1>3, Names DEF Event, Carried
<1> HIDE DEF x
<1>5. Evident(x) /\ Recorded(x) = x
  BY <1>4 DEF Evident, Carried, Recorded
<1>6. Proper(v.events, next)
  BY <1>4, <1>5, RunNextStageProper
<1>7. next.op # "put" /\ (next.op = "emit" => IsAdr(next.event.package))
  BY <1>4, <1>5 DEF RunNextStage, Throw, p
<1>8. ConfirmCall(v, r) \in {next, Return, Throw}
  BY DEF ConfirmCall, p, b, given, x
<1> HIDE DEF next
<1> QED
  BY <1>6, <1>7, <1>8, OutcomesProper DEF Return, Throw

LEMMA ReportProper ==
    ASSUME NEW v, Typed(v), NEW e \in Reports
    PROVE  Proper(v.events, ReportCall(v, e)) /\ ReportCall(v, e).op # "put"
<1> DEFINE last == Latest(v.events)
           b == Blank(v, last.source, 0)
           target == (CHOOSE d \in Stops : d[1] = e)[2]
           before == IF e = "BLOCK" THEN None ELSE last.state
           x == [b EXCEPT !.event = e, !.state = target, !.resume = before]
<1>1. CASE v.events = <<>>
  <2>1. ReportCall(v, e) = Throw
    BY <1>1 DEF ReportCall
  <2> QED
    BY <2>1, OutcomesProper DEF Throw
<1>2. CASE v.events # <<>>
  <2>1. last.source \in Sources /\ last.state \in States
    BY <1>2, LatestTyped DEF Typed
  <2>2. b \in Event /\ b.package = None
    BY <2>1, BlankTyped
  <2>3. e \in EventNames /\ target \in States
    <3>1. \E d \in Stops : d[1] = e
      BY AuthorityAssumption DEF Stops
    <3>2. PICK d \in Stops : target = d[2] /\ d[1] = e
      BY <3>1
    <3> QED
      BY <3>2 DEF EventNames, Stops, States, Halted, Terminal
  <2>4. before \in States \union {None}
    BY <2>1
  <2> HIDE DEF last, b, target, before
  <2>5. x \in Event /\ x.package = None
    BY <2>2, <2>3, <2>4 DEF Event
  <2>6. Evident(x)
    BY <2>5, NoneIsNoPackage DEF Evident
  <2>7. ReportCall(v, e) = RunNextStage(v.events, x)
    BY <1>2 DEF ReportCall, last, b, target, before
  <2> HIDE DEF x
  <2> QED
    BY <2>5, <2>6, <2>7, RunNextStageProper DEF RunNextStage, Throw
<1> QED
  BY <1>1, <1>2

(* What the job of a command takes for granted about its arguments and     *)
(* about the stream it knows                                               *)
JobProper(j, log) ==
    /\ j.kind \in {"analyze", "prepare", "recover"} => j.input \in 1..Len(Inputs)
    /\ j.kind \in {"answer", "settle", "approve", "confirm"} => j.record \in Records
    /\ j.kind = "answer" => j.about \in Questions
    /\ j.kind = "approve" => j.about \in Adrs
    /\ j.kind = "report" => j.about \in Reports
    /\ j.kind = "settle" => log # <<>> /\ IsDecision(PackageOf(log))
    /\ j.kind = "confirm" => log # <<>> /\ IsAdr(PackageOf(log))

Advanced(j) == [j EXCEPT !.kind = After(@), !.changed = TRUE]

LEMMA AdvancedFields ==
    ASSUME NEW j \in Job
    PROVE  /\ Advanced(j) \in Job
           /\ Advanced(j).kind = After(j.kind) /\ Advanced(j).input = j.input
           /\ Advanced(j).about = j.about /\ Advanced(j).record = j.record
<1>1. After(j.kind) \in Kinds
  BY DEF After, Job, Kinds
<1> QED
  BY <1>1 DEF Advanced, Job

LEMMA PackageOfAppend ==
    ASSUME NEW log \in Seq(Event), NEW x \in Event
    PROVE  Append(log, x) # <<>> /\ PackageOf(Append(log, x)) = x.package
BY DEF PackageOf, Latest

(* Every call of a command is proper, and so is what is left of its job    *)
(* once the append is done.                                                *)
LEMMA CallProper ==
    ASSUME NEW v, Typed(v), NEW j \in Job, JobProper(j, v.events)
    PROVE  LET call == Call(v, j)
           IN  /\ Proper(v.events, call)
               /\ call.op = "put" => JobProper(Advanced(j), v.events)
               /\ call.op = "emit" =>
                    JobProper(Advanced(j), Append(v.events, call.event))
<1> DEFINE call == Call(v, j)
<1>1. CASE j.kind \in {"analyze", "prepare"}
  <2>1. call = PrepareCall(v, j.kind, j.input)
    BY <1>1 DEF Call
  <2>2. \A log : JobProper(Advanced(j), log)
    BY <1>1, AdvancedFields DEF JobProper, After
  <2> QED
    BY <1>1, <2>1, <2>2, PrepareProper DEF JobProper
<1>2. CASE j.kind = "recover"
  <2>1. call = RecoverCall(v, j.input)
    BY <1>2 DEF Call
  <2>2. \A log : JobProper(Advanced(j), log)
    BY <1>2, AdvancedFields DEF JobProper, After
  <2> QED
    BY <1>2, <2>1, <2>2, RecoverProper DEF JobProper
<1>3. CASE j.kind = "answer"
  <2>1. call = AnswerCall(v, j.about, j.record)
    BY <1>3 DEF Call
  <2>2. j.about \in Questions /\ j.record \in Records
    BY <1>3 DEF JobProper
  <2>3. IsDecision(PackageOf(v.events)) => JobProper(Advanced(j), v.events)
    BY <1>3, <2>2, AdvancedFields, NoneIsNoPackage DEF JobProper, After, PackageOf
  <2> QED
    BY <2>1, <2>2, <2>3, AnswerProper
<1>4. CASE j.kind = "settle"
  <2>1. call = SettleCall(v, j.record)
    BY <1>4 DEF Call
  <2>2. j.record \in Records /\ v.events # <<>> /\ IsDecision(PackageOf(v.events))
    BY <1>4 DEF JobProper
  <2>3. /\ Proper(v.events, call) /\ call.op # "put"
        /\ call.op = "emit" => IsDecision(call.event.package)
    BY <2>1, <2>2, SettleProper
  <2>4. ASSUME call.op = "emit"
        PROVE  JobProper(Advanced(j), Append(v.events, call.event))
    <3>1. call.event \in Event
      BY <2>3, <2>4 DEF Proper, ProperEvent
    <3>2. PackageOf(Append(v.events, call.event)) = call.event.package
          /\ Append(v.events, call.event) # <<>>
      BY <3>1, PackageOfAppend DEF Typed
    <3> HIDE DEF call
    <3> QED
      BY <1>4, <2>2, <2>3, <2>4, <3>2, AdvancedFields DEF JobProper, After
  <2> QED
    BY <2>3, <2>4
<1>5. CASE j.kind = "approve"
  <2>1. call = ApproveCall(v, j.about, j.record)
    BY <1>5 DEF Call
  <2>2. j.about \in Adrs /\ j.record \in Records
    BY <1>5 DEF JobProper
  <2>3. IsAdr(PackageOf(v.events)) => JobProper(Advanced(j), v.events)
    BY <1>5, <2>2, AdvancedFields, NoneIsNoPackage DEF JobProper, After, PackageOf
  <2> QED
    BY <2>1, <2>2, <2>3, ApproveProper
<1>6. CASE j.kind = "confirm"
  <2>1. call = ConfirmCall(v, j.record)
    BY <1>6 DEF Call
  <2>2. j.record \in Records /\ v.events # <<>> /\ IsAdr(PackageOf(v.events))
    BY <1>6 DEF JobProper
  <2>3. /\ Proper(v.events, call) /\ call.op # "put"
        /\ call.op = "emit" => IsAdr(call.event.package)
    BY <2>1, <2>2, ConfirmProper
  <2>4. ASSUME call.op = "emit"
        PROVE  JobProper(Advanced(j), Append(v.events, call.event))
    <3>1. call.event \in Event
      BY <2>3, <2>4 DEF Proper, ProperEvent
    <3>2. PackageOf(Append(v.events, call.event)) = call.event.package
          /\ Append(v.events, call.event) # <<>>
      BY <3>1, PackageOfAppend DEF Typed
    <3> HIDE DEF call
    <3> QED
      BY <1>6, <2>2, <2>3, <2>4, <3>2, AdvancedFields DEF JobProper, After
  <2> QED
    BY <2>3, <2>4
<1>7. CASE j.kind = "report"
  <2>1. call = ReportCall(v, j.about)
    BY <1>7 DEF Call
  <2>2. \A log : JobProper(Advanced(j), log)
    BY <1>7, AdvancedFields DEF JobProper, After
  <2> QED
    BY <1>7, <2>1, <2>2, ReportProper DEF JobProper
<1>8. CASE j.kind \in {"idle", "return"}
  <2>1. call = Return
    BY <1>8 DEF Call
  <2> QED
    BY <2>1, OutcomesProper DEF Return
<1> QED
  BY <1>1, <1>2, <1>3, <1>4, <1>5, <1>6, <1>7, <1>8 DEF Job, Kinds

-----------------------------------------------------------------------------
(* The inductive invariant *)

RowsTyped ==
    /\ \A q \in Questions : rows[AnswersTo(q)] \in Seq(Answer)
    /\ \A a \in Adrs : rows[ApprovalsOf(a)] \in Seq(Approval)

(* The transition stream as the command of c knows it                      *)
Known(c) == SubSeq(events, 1, catalog[c].events)

(* A command knows no more than the store holds, and its job is proper on  *)
(* what it knows.                                                          *)
CommandsProper ==
    \A c \in Clients :
        /\ catalog[c].events <= Len(events)
        /\ \A d \in Identities : catalog[c].rows[d] <= Len(rows[d])
        /\ JobProper(job[c], Known(c))

Consistent == TypeOK /\ ChainReplays /\ RowsTyped /\ CommandsProper

LEMMA ViewTyped ==
    ASSUME Consistent, NEW c \in Clients
    PROVE  Typed(View(catalog[c])) /\ View(catalog[c]).events = Known(c)
<1> DEFINE v == View(catalog[c])
           known(d) == SubSeq(rows[d], 1, catalog[c].rows[d])
<1>1. /\ events \in Seq(Event) /\ rows \in [Identities -> Seq(Item)]
      /\ catalog[c].events \in Nat /\ catalog[c].events <= Len(events)
      /\ \A d \in Identities : catalog[c].rows[d] \in Nat /\ catalog[c].rows[d] <= Len(rows[d])
  BY DEF Consistent, TypeOK, CommandsProper, Catalog
<1>2. /\ v.events = Known(c)
      /\ v.answers = UNION {Range([d \in Identities |-> known(d)][AnswersTo(q)]) : q \in Questions}
      /\ v.approvals = UNION {Range([d \in Identities |-> known(d)][ApprovalsOf(a)]) : a \in Adrs}
  BY DEF View, Documents, Known
<1> HIDE DEF v
<1>3. Known(c) \in Seq(Event)
  BY <1>1 DEF Known
<1>4. ASSUME NEW q \in Questions
      PROVE  Range([d \in Identities |-> known(d)][AnswersTo(q)]) \subseteq Answer
  <2>1. AnswersTo(q) \in Identities
    BY DEF Identities
  <2>2. rows[AnswersTo(q)] \in Seq(Answer)
    BY DEF Consistent, RowsTyped
  <2>3. known(AnswersTo(q)) \in Seq(Answer)
    BY <1>1, <2>1, <2>2
  <2> HIDE DEF known
  <2> QED
    BY <2>1, <2>3 DEF Range
<1>5. ASSUME NEW a \in Adrs
      PROVE  Range([d \in Identities |-> known(d)][ApprovalsOf(a)]) \subseteq Approval
  <2>1. ApprovalsOf(a) \in Identities
    BY DEF Identities
  <2>2. rows[ApprovalsOf(a)] \in Seq(Approval)
    BY DEF Consistent, RowsTyped
  <2>3. known(ApprovalsOf(a)) \in Seq(Approval)
    BY <1>1, <2>1, <2>2
  <2> HIDE DEF known
  <2> QED
    BY <2>1, <2>3 DEF Range
<1> HIDE DEF known
<1>6. v.answers \subseteq Answer /\ v.approvals \subseteq Approval
  BY <1>2, <1>4, <1>5
<1> QED
  BY <1>2, <1>3, <1>6 DEF Typed, v

(* The next call of c is proper on what its command knows.                 *)
LEMMA NextCallProper ==
    ASSUME Consistent, NEW c \in Clients, NEW call \in NextCall(c)
    PROVE  /\ Proper(Known(c), call)
           /\ call.op = "put" => JobProper(Advanced(job[c]), Known(c))
           /\ call.op = "emit" => JobProper(Advanced(job[c]), Append(Known(c), call.event))
<1>1. call = Call(View(catalog[c]), job[c])
  BY DEF NextCall
<1>2. job[c] \in Job /\ JobProper(job[c], Known(c))
  BY DEF Consistent, TypeOK, CommandsProper
<1> QED
  BY <1>1, <1>2, ViewTyped, CallProper

LEMMA InitConsistent == Init => Consistent
<1> SUFFICES ASSUME Init PROVE Consistent
  OBVIOUS
<1>1. Idle \in Job /\ Nothing \in Catalog
  BY DEF Idle, Job, Kinds, Nothing, Catalog
<1>2. TypeOK
  <2>1. 0 \in 0..Len(Inputs) /\ 0 \in 0..MaxMishaps
    BY InputAssumption, BoundAssumption
  <2> QED
    BY <1>1, <2>1 DEF Init, TypeOK
<1>3. ChainReplays
  BY DEF Init, ChainReplays, ChainVerifies
<1>4. RowsTyped
  BY DEF Init, RowsTyped, Identities
<1>5. CommandsProper
  BY DEF Init, CommandsProper, Nothing, Idle, JobProper
<1> QED
  BY <1>2, <1>3, <1>4, <1>5 DEF Consistent

(* The stream goes on replaying when an event that may follow it follows.  *)
LEMMA ChainGrows ==
    ASSUME NEW log \in Seq(Event), NEW x, ChainVerifies(log), ProperEvent(log, x)
    PROVE  ChainVerifies(Append(log, x))
<1> DEFINE new == Append(log, x)
<1>1. /\ Len(new) = Len(log) + 1 /\ Len(log) \in Nat
      /\ \A i \in 1..Len(log) : new[i] = log[i]
      /\ new[Len(log) + 1] = x
  BY DEF ProperEvent
<1> HIDE DEF new
<1>2. ASSUME NEW i \in 1..(Len(log) + 1), NEW y, Continues(log, i, y)
      PROVE  Continues(new, i, y)
  <2>1. CASE i = 1
    BY <1>2, <2>1 DEF Continues
  <2>2. CASE i # 1
    <3>1. /\ new[i-1] = log[i-1]
          /\ \A j \in 1..(i-1) : new[j] = log[j]
      BY <1>1, <2>2
    <3> QED
      BY <1>2, <2>2, <3>1 DEF Continues
  <2> QED
    BY <2>1, <2>2
<1>3. ASSUME NEW i \in 1..Len(new)
      PROVE  /\ Continues(new, i, new[i])
             /\ Accepts(new[i])
             /\ Recorded(new[i]) = new[i]
  <2>1. CASE i \in 1..Len(log)
    BY <1>1, <1>2, <2>1 DEF ChainVerifies
  <2>2. CASE i = Len(log) + 1
    BY <1>1, <1>2, <2>2 DEF ProperEvent
  <2> QED
    BY <1>1, <2>1, <2>2
<1> QED
  BY <1>3 DEF ChainVerifies, new

(* What a command knows of a stream is not changed by what comes after it. *)
LEMMA PrefixKept ==
    ASSUME NEW log \in Seq(Event), NEW x \in Event, NEW n \in 0..Len(log)
    PROVE  SubSeq(Append(log, x), 1, n) = SubSeq(log, 1, n)
OBVIOUS

LEMMA WholePrefix ==
    ASSUME NEW log \in Seq(Event)
    PROVE  SubSeq(log, 1, Len(log)) = log
OBVIOUS

LEMMA ArtifactConsistent ==
    ASSUME Consistent, NEW c \in Clients, NEW call \in NextCall(c),
           AppendArtifact(c, call)
    PROVE  Consistent'
<1>1. /\ call.op = "put"
      /\ LET d == call.identity
             n == catalog[c].rows[d]
         IN  /\ Accepted(rows[d], n, call.item)
             /\ rows' = [rows EXCEPT ![d] = Grown(@, n, call.item)]
             /\ catalog' = [catalog EXCEPT ![c].rows[d] = n + 1]
      /\ Advance(c)
      /\ UNCHANGED <<events, supplied, mishaps>>
  BY DEF AppendArtifact
<1> DEFINE d == call.identity
           n == catalog[c].rows[d]
<1>2. ProperPut(d, call.item) /\ JobProper(Advanced(job[c]), Known(c))
  BY <1>1, NextCallProper DEF Proper
<1>3. /\ d \in Identities /\ call.item \in Item
      /\ rows \in [Identities -> Seq(Item)] /\ catalog \in [Clients -> Catalog]
      /\ n \in Nat /\ n <= Len(rows[d])
  BY <1>2 DEF ProperPut, Consistent, TypeOK, Catalog, CommandsProper
<1> HIDE DEF d, n
<1>4. /\ rows' = [rows EXCEPT ![d] = Grown(@, n, call.item)]
      /\ catalog' = [catalog EXCEPT ![c].rows[d] = n + 1]
      /\ job' = [job EXCEPT ![c] = Advanced(@)]
      /\ UNCHANGED <<events, supplied, mishaps>>
  BY <1>1 DEF d, n, Advance, Advanced
<1>5. /\ Grown(rows[d], n, call.item) \in Seq(Item)
      /\ Len(rows[d]) <= Len(Grown(rows[d], n, call.item))
      /\ n + 1 <= Len(Grown(rows[d], n, call.item))
  BY <1>3 DEF Grown
<1>6. /\ rows' \in [Identities -> Seq(Item)]
      /\ \A e \in Identities : Len(rows[e]) <= Len(rows'[e])
      /\ n + 1 <= Len(rows'[d])
  <2>1. /\ rows' \in [Identities -> Seq(Item)]
        /\ rows'[d] = Grown(rows[d], n, call.item)
        /\ \A e \in Identities : e # d => rows'[e] = rows[e]
    BY <1>3, <1>4, <1>5
  <2>2. ASSUME NEW e \in Identities PROVE Len(rows[e]) <= Len(rows'[e])
    <3>1. CASE e = d
      BY <1>5, <2>1, <3>1
    <3>2. CASE e # d
      <4>1. Len(rows[e]) \in Nat
        BY <1>3
      <4> QED
        BY <2>1, <3>2, <4>1
    <3> QED
      BY <3>1, <3>2
  <2> QED
    BY <1>5, <2>1, <2>2
<1>7. /\ catalog' \in [Clients -> Catalog]
      /\ \A b \in Clients : catalog'[b].events = catalog[b].events
      /\ \A b \in Clients, e \in Identities :
           \/ catalog'[b].rows[e] = catalog[b].rows[e]
           \/ e = d /\ catalog'[b].rows[e] = n + 1
  <2>1. [catalog[c].rows EXCEPT ![d] = n + 1] \in [Identities -> Nat]
    BY <1>3 DEF Catalog
  <2>2. catalog' = [catalog EXCEPT ![c] =
                     [@ EXCEPT !.rows = [catalog[c].rows EXCEPT ![d] = n + 1]]]
    BY <1>3, <1>4
  <2> QED
    BY <1>3, <2>1, <2>2 DEF Catalog
<1>8. /\ job' \in [Clients -> Job] /\ job'[c] = Advanced(job[c])
      /\ \A b \in Clients : b # c => job'[b] = job[b]
  BY <1>4, AdvancedFields DEF Consistent, TypeOK
<1>9. TypeOK'
  BY <1>4, <1>6, <1>7, <1>8 DEF Consistent, TypeOK
<1>10. ChainReplays'
  BY <1>4 DEF Consistent, ChainReplays
<1>11. RowsTyped'
  <2>1. ASSUME NEW q \in Questions PROVE rows'[AnswersTo(q)] \in Seq(Answer)
    <3>1. rows[AnswersTo(q)] \in Seq(Answer) /\ AnswersTo(q) \in Identities
      BY DEF Consistent, RowsTyped, Identities
    <3>2. CASE d = AnswersTo(q)
      BY <1>2, <1>3, <1>4, <3>1, <3>2 DEF ProperPut, Grown
    <3>3. CASE d # AnswersTo(q)
      BY <1>3, <1>4, <3>1, <3>3
    <3> QED
      BY <3>2, <3>3
  <2>2. ASSUME NEW a \in Adrs PROVE rows'[ApprovalsOf(a)] \in Seq(Approval)
    <3>1. rows[ApprovalsOf(a)] \in Seq(Approval) /\ ApprovalsOf(a) \in Identities
      BY DEF Consistent, RowsTyped, Identities
    <3>2. CASE d = ApprovalsOf(a)
      BY <1>2, <1>3, <1>4, <3>1, <3>2 DEF ProperPut, Grown
    <3>3. CASE d # ApprovalsOf(a)
      BY <1>3, <1>4, <3>1, <3>3
    <3> QED
      BY <3>2, <3>3
  <2> QED
    BY <2>1, <2>2 DEF RowsTyped
<1>12. CommandsProper'
  <2> SUFFICES ASSUME NEW b \in Clients
               PROVE  /\ catalog'[b].events <= Len(events')
                      /\ \A e \in Identities : catalog'[b].rows[e] <= Len(rows'[e])
                      /\ JobProper(job'[b], Known(b)')
    BY DEF CommandsProper
  <2>1. Known(b)' = Known(b)
    BY <1>4, <1>7 DEF Known
  <2>2. JobProper(job'[b], Known(b)')
    BY <1>2, <1>8, <2>1 DEF Consistent, CommandsProper
  <2>3. catalog'[b].events <= Len(events')
    BY <1>4, <1>7 DEF Consistent, CommandsProper
  <2>4. \A e \in Identities : catalog'[b].rows[e] <= Len(rows'[e])
    <3>1. \A e \in Identities : /\ catalog[b].rows[e] \in Nat
                                /\ catalog[b].rows[e] <= Len(rows[e])
                                /\ Len(rows[e]) \in Nat /\ Len(rows'[e]) \in Nat
      BY <1>3, <1>6 DEF Consistent, CommandsProper, Catalog
    <3> QED
      BY <1>6, <1>7, <3>1
  <2> QED
    BY <2>2, <2>3, <2>4
<1> QED
  BY <1>9, <1>10, <1>11, <1>12 DEF Consistent


LEMMA EventConsistent ==
    ASSUME Consistent, NEW c \in Clients, NEW call \in NextCall(c),
           AppendEvent(c, call)
    PROVE  Consistent'
<1>1. /\ call.op = "emit"
      /\ Accepted(events, catalog[c].events, call.event)
      /\ events' = Grown(events, catalog[c].events, call.event)
      /\ catalog' = [catalog EXCEPT ![c].events = @ + 1]
      /\ Advance(c)
      /\ UNCHANGED <<rows, supplied, mishaps>>
  BY DEF AppendEvent
<1> DEFINE x == call.event
           n == catalog[c].events
<1>2. ProperEvent(Known(c), x) /\ JobProper(Advanced(job[c]), Append(Known(c), x))
  BY <1>1, NextCallProper DEF Proper
<1>3. /\ x \in Event /\ events \in Seq(Event) /\ catalog \in [Clients -> Catalog]
      /\ n \in Nat /\ n <= Len(events)
  BY <1>2 DEF ProperEvent, Consistent, TypeOK, Catalog, CommandsProper
<1>4. Known(c) = SubSeq(events, 1, n)
  BY DEF Known
<1> HIDE DEF x, n
<1>5. /\ Accepted(events, n, x) /\ events' = Grown(events, n, x)
      /\ catalog' = [catalog EXCEPT ![c].events = n + 1]
      /\ job' = [job EXCEPT ![c] = Advanced(@)]
      /\ UNCHANGED <<rows, supplied, mishaps>>
  BY <1>1 DEF n, x, Advance, Advanced
<1>6. /\ catalog' \in [Clients -> Catalog]
      /\ catalog'[c].events = n + 1 /\ catalog'[c].rows = catalog[c].rows
      /\ \A b \in Clients : b # c => catalog'[b] = catalog[b]
  <2> DEFINE known == [catalog[c] EXCEPT !.events = n + 1]
  <2>1. known \in Catalog /\ known.events = n + 1 /\ known.rows = catalog[c].rows
    <3>1. catalog[c] \in Catalog /\ n + 1 \in Nat
      BY <1>3
    <3> QED
      BY <3>1 DEF Catalog
  <2>2. catalog' = [catalog EXCEPT ![c] = known]
    BY <1>3, <1>5
  <2> HIDE DEF known
  <2> QED
    BY <1>3, <2>1, <2>2
<1>7. /\ job' \in [Clients -> Job] /\ job'[c] = Advanced(job[c])
      /\ \A b \in Clients : b # c => job'[b] = job[b]
  BY <1>5, AdvancedFields DEF Consistent, TypeOK
(* Either the command knows the whole stream, or the event is there.       *)
<1>8. /\ events' \in Seq(Event) /\ ChainVerifies(events')
      /\ Len(events) <= Len(events') /\ n + 1 <= Len(events')
      /\ SubSeq(events', 1, n + 1) = Append(Known(c), x)
      /\ \A m \in 0..Len(events) : SubSeq(events', 1, m) = SubSeq(events, 1, m)
  <2>1. CASE Len(events) = n
    <3>1. events' = Append(events, x) /\ Known(c) = events
      BY <1>3, <1>4, <1>5, <2>1, WholePrefix DEF Grown
    <3>2. ChainVerifies(events')
      BY <1>2, <1>3, <3>1, ChainGrows DEF Consistent, ChainReplays
    <3>3. Len(events') = n + 1 /\ events' \in Seq(Event)
      BY <1>3, <2>1, <3>1
    <3>4. SubSeq(events', 1, n + 1) = Append(Known(c), x)
      BY <3>1, <3>3, WholePrefix
    <3> QED
      BY <1>3, <2>1, <3>1, <3>2, <3>3, <3>4, PrefixKept
  <2>2. CASE Len(events) # n
    <3>1. Len(events) > n /\ events' = events /\ events[n + 1] = x
      BY <1>3, <1>5, <2>2 DEF Accepted, Grown
    <3>2. SubSeq(events, 1, n + 1) = Append(SubSeq(events, 1, n), x)
      BY <1>3, <3>1
    <3> QED
      BY <1>3, <1>4, <3>1, <3>2 DEF Consistent, ChainReplays
  <2> QED
    BY <2>1, <2>2
<1>9. TypeOK'
  BY <1>5, <1>6, <1>7, <1>8 DEF Consistent, TypeOK
<1>10. ChainReplays' /\ RowsTyped'
  BY <1>5, <1>8 DEF Consistent, ChainReplays, RowsTyped
<1>11. CommandsProper'
  <2> SUFFICES ASSUME NEW b \in Clients
               PROVE  /\ catalog'[b].events <= Len(events')
                      /\ \A e \in Identities : catalog'[b].rows[e] <= Len(rows'[e])
                      /\ JobProper(job'[b], Known(b)')
    BY DEF CommandsProper
  <2>1. /\ catalog[b].events \in 0..Len(events)
        /\ \A e \in Identities : catalog[b].rows[e] <= Len(rows[e])
        /\ JobProper(job[b], Known(b))
    BY <1>3 DEF Consistent, CommandsProper, Catalog
  <2>2. CASE b = c
    <3>1. Known(c)' = Append(Known(c), x)
      BY <1>6, <1>8 DEF Known
    <3> QED
      BY <1>2, <1>5, <1>6, <1>7, <1>8, <2>1, <2>2, <3>1 DEF x
  <2>3. CASE b # c
    <3>1. Known(b)' = Known(b)
      BY <1>6, <1>8, <2>1, <2>3 DEF Known
    <3>2. Len(events) \in Nat /\ Len(events') \in Nat
      BY <1>3, <1>8
    <3> QED
      BY <1>5, <1>6, <1>7, <1>8, <2>1, <2>3, <3>1, <3>2
  <2> QED
    BY <2>2, <2>3
<1> QED
  BY <1>9, <1>10, <1>11 DEF Consistent

MishapsTyped == mishaps \in Seq(Mishap) /\ Len(mishaps) <= MaxMishaps

LEMMA BefallsTyped ==
    ASSUME TypeOK, NEW lost \in BOOLEAN, Befalls(lost)
    PROVE  MishapsTyped'
<1>1. mishaps \in Seq(Mishap) /\ Len(events) \in Nat
  BY DEF TypeOK
<1> DEFINE m == [at |-> Len(events), lost |-> lost]
<1>2. m \in Mishap
  BY <1>1 DEF Mishap
<1>3. mishaps' = Append(mishaps, m) /\ Len(mishaps) < MaxMishaps
  BY DEF Befalls
<1> HIDE DEF m
<1> QED
  BY <1>1, <1>2, <1>3, BoundAssumption DEF MishapsTyped

(* A command that ends, however it ends, leaves the store as it is.        *)
LEMMA EndConsistent ==
    ASSUME Consistent, NEW c \in Clients, End(c), MishapsTyped'
    PROVE  Consistent'
<1>1. Idle \in Job /\ Nothing \in Catalog
  BY DEF Idle, Job, Kinds, Nothing, Catalog
<1>2. /\ job' = [job EXCEPT ![c] = Idle] /\ catalog' = [catalog EXCEPT ![c] = Nothing]
      /\ UNCHANGED <<events, rows, supplied>>
  BY DEF End
<1>3. TypeOK'
  BY <1>1, <1>2 DEF Consistent, TypeOK, MishapsTyped
<1>4. ChainReplays' /\ RowsTyped'
  BY <1>2 DEF Consistent, ChainReplays, RowsTyped
<1>5. CommandsProper'
  <2> SUFFICES ASSUME NEW b \in Clients
               PROVE  /\ catalog'[b].events <= Len(events')
                      /\ \A e \in Identities : catalog'[b].rows[e] <= Len(rows'[e])
                      /\ JobProper(job'[b], Known(b)')
    BY DEF CommandsProper
  <2>1. CASE b = c
    <3>1. job'[b] = Idle /\ catalog'[b] = Nothing
      BY <1>2, <2>1 DEF Consistent, TypeOK
    <3>2. JobProper(Idle, Known(b)')
      BY DEF JobProper, Idle
    <3>3. 0 <= Len(events') /\ \A e \in Identities : 0 <= Len(rows'[e])
      BY <1>3 DEF TypeOK
    <3> QED
      BY <3>1, <3>2, <3>3 DEF Nothing
  <2>2. CASE b # c
    <3>1. job'[b] = job[b] /\ catalog'[b] = catalog[b]
      BY <1>2, <2>2 DEF Consistent, TypeOK
    <3> QED
      BY <1>2, <3>1 DEF Consistent, CommandsProper, Known
  <2> QED
    BY <2>1, <2>2
<1> QED
  BY <1>3, <1>4, <1>5 DEF Consistent

(* A command that begins knows the whole store.                            *)
LEMMA BeginConsistent ==
    ASSUME Consistent, NEW c \in Clients, NEW kind, NEW about, NEW record,
           Begin(c, kind, about, record), MishapsTyped',
           LET j == [kind |-> kind, input |-> supplied, about |-> about,
                     record |-> record, changed |-> FALSE]
           IN  j \in Job /\ \A log : JobProper(j, log)
    PROVE  Consistent'
<1> DEFINE j == [kind |-> kind, input |-> supplied, about |-> about,
                 record |-> record, changed |-> FALSE]
<1>1. /\ job' = [job EXCEPT ![c] = j] /\ catalog' = [catalog EXCEPT ![c] = Snapshot]
      /\ UNCHANGED <<events, rows, supplied>>
  BY DEF Begin
<1>2. j \in Job /\ \A log : JobProper(j, log)
  OBVIOUS
<1> HIDE DEF j
<1>3. supplied \in Nat
  BY InputAssumption DEF Consistent, TypeOK
<1>4. Snapshot \in Catalog
  BY <1>3 DEF Snapshot, Catalog, Consistent, TypeOK
<1>5. TypeOK'
  BY <1>1, <1>2, <1>4 DEF Consistent, TypeOK, MishapsTyped
<1>6. ChainReplays' /\ RowsTyped'
  BY <1>1 DEF Consistent, ChainReplays, RowsTyped
<1>7. CommandsProper'
  <2> SUFFICES ASSUME NEW b \in Clients
               PROVE  /\ catalog'[b].events <= Len(events')
                      /\ \A e \in Identities : catalog'[b].rows[e] <= Len(rows'[e])
                      /\ JobProper(job'[b], Known(b)')
    BY DEF CommandsProper
  <2>1. CASE b = c
    <3>1. job'[b] = j /\ catalog'[b] = Snapshot
      BY <1>1, <2>1 DEF Consistent, TypeOK
    <3>2. /\ Len(events) <= Len(events)
          /\ \A e \in Identities : Len(rows[e]) <= Len(rows[e])
      BY DEF Consistent, TypeOK
    <3>3. catalog'[b].events = Len(events)
          /\ \A e \in Identities : catalog'[b].rows[e] = Len(rows[e])
      BY <3>1 DEF Snapshot
    <3> QED
      BY <1>1, <1>2, <3>1, <3>2, <3>3
  <2>2. CASE b # c
    <3>1. job'[b] = job[b] /\ catalog'[b] = catalog[b]
      BY <1>1, <2>2 DEF Consistent, TypeOK
    <3> QED
      BY <1>1, <3>1 DEF Consistent, CommandsProper, Known
  <2> QED
    BY <2>1, <2>2
<1> QED
  BY <1>5, <1>6, <1>7 DEF Consistent


LEMMA StepConsistent ==
    ASSUME Consistent, NEW c \in Clients, Step(c)
    PROVE  Consistent'
<1>0. PICK call \in NextCall(c) : \/ AppendArtifact(c, call) \/ AppendEvent(c, call)
                                 \/ ReturnResult(c, call) \/ Fail(c, call)
  BY DEF Step
<1>1. CASE AppendArtifact(c, call)
  BY <1>1, ArtifactConsistent
<1>2. CASE AppendEvent(c, call)
  BY <1>2, EventConsistent
<1>3. CASE ReturnResult(c, call) \/ Fail(c, call)
  <2>1. End(c) /\ mishaps' = mishaps
    BY <1>3 DEF ReturnResult, Fail
  <2> QED
    BY <2>1, EndConsistent DEF Consistent, TypeOK, MishapsTyped
<1> QED
  BY <1>0, <1>1, <1>2, <1>3

LEMMA CommandConsistent ==
    ASSUME Consistent, NEW c \in Clients, Command(c)
    PROVE  Consistent'
<1>1. supplied \in 0..Len(Inputs) /\ Len(Inputs) \in Nat
  BY InputAssumption DEF Consistent, TypeOK
<1>6. UNCHANGED mishaps => MishapsTyped'
  BY DEF Consistent, TypeOK, MishapsTyped
<1>2. CASE BeginAnalyze(c) \/ BeginPrepare(c) \/ BeginResume(c)
  <2>1. PICK kind \in {"analyze", "prepare", "recover"} :
           supplied > 0 /\ Begin(c, kind, None, None) /\ UNCHANGED mishaps
    BY <1>2 DEF BeginAnalyze, BeginPrepare, BeginResume
  <2> DEFINE j == [kind |-> kind, input |-> supplied, about |-> None,
                   record |-> None, changed |-> FALSE]
  <2>2. j \in Job
    BY <1>1, <2>1 DEF Job, Kinds
  <2>3. \A log : JobProper(j, log)
    BY <1>1, <2>1 DEF JobProper
  <2> QED
    BY <1>6, <2>1, <2>2, <2>3, BeginConsistent
<1>3. CASE \E d \in Resolutions : BeginAnswer(c, d[1], d[2])
  <2>1. PICK d \in Resolutions : BeginAnswer(c, d[1], d[2])
    BY <1>3
  <2>2. d[1] \in Questions /\ d[2] \in Records
    BY AuthorityAssumption
  <2> DEFINE j == [kind |-> "answer", input |-> supplied, about |-> d[1],
                   record |-> d[2], changed |-> FALSE]
  <2>3. j \in Job /\ \A log : JobProper(j, log)
    BY <1>1, <2>2 DEF Job, Kinds, JobProper
  <2> QED
    BY <1>6, <2>1, <2>3, BeginConsistent DEF BeginAnswer
<1>4. CASE \E d \in Approvals : BeginApprove(c, d[1], d[2])
  <2>1. PICK d \in Approvals : BeginApprove(c, d[1], d[2])
    BY <1>4
  <2>2. d[1] \in Adrs /\ d[2] \in Records
    BY AuthorityAssumption
  <2> DEFINE j == [kind |-> "approve", input |-> supplied, about |-> d[1],
                   record |-> d[2], changed |-> FALSE]
  <2>3. j \in Job /\ \A log : JobProper(j, log)
    BY <1>1, <2>2 DEF Job, Kinds, JobProper
  <2> QED
    BY <1>6, <2>1, <2>3, BeginConsistent DEF BeginApprove
<1>5. CASE \E e \in Reports : BeginReport(c, e)
  <2>1. PICK e \in Reports : BeginReport(c, e)
    BY <1>5
  <2>2. e \in EventNames
    BY AuthorityAssumption DEF EventNames, Stops
  <2> DEFINE j == [kind |-> "report", input |-> supplied, about |-> e,
                   record |-> None, changed |-> FALSE]
  <2>3. j \in Job /\ \A log : JobProper(j, log)
    BY <1>1, <2>2 DEF Job, Kinds, JobProper
  <2>4. MishapsTyped'
    BY <2>1, BefallsTyped DEF BeginReport, Consistent
  <2> QED
    BY <2>1, <2>3, <2>4, BeginConsistent DEF BeginReport
<1> QED
  BY <1>2, <1>3, <1>4, <1>5 DEF Command, Proceed

LEMMA NextConsistent == Consistent /\ [Next]_vars => Consistent'
<1> SUFFICES ASSUME Consistent, [Next]_vars PROVE Consistent'
  OBVIOUS
<1>1. CASE Create
  <2>1. supplied' \in 0..Len(Inputs)
    BY <1>1, InputAssumption DEF Create, Consistent, TypeOK
  <2>2. UNCHANGED <<events, rows, catalog, job, mishaps>>
    BY <1>1 DEF Create
  <2> QED
    BY <2>1, <2>2 DEF Consistent, TypeOK, ChainReplays, RowsTyped, CommandsProper, Known
<1>2. ASSUME NEW c \in Clients, Command(c) \/ Step(c) PROVE Consistent'
  BY <1>2, CommandConsistent, StepConsistent
<1>3. ASSUME NEW c \in Clients, Interrupt(c) PROVE Consistent'
  <2>1. End(c) /\ MishapsTyped'
    BY <1>3, BefallsTyped DEF Interrupt, Consistent
  <2> QED
    BY <2>1, EndConsistent
<1>4. CASE UNCHANGED vars
  BY <1>4 DEF vars, Consistent, TypeOK, ChainReplays, RowsTyped, CommandsProper, Known
<1> QED
  BY <1>1, <1>2, <1>3, <1>4 DEF Next

-----------------------------------------------------------------------------
(* Concurrent answers *)

(* An answer is filed under its own question.                              *)
AnswersFiled ==
    \A q \in Questions : \A i \in 1..Len(rows[AnswersTo(q)]) :
        rows[AnswersTo(q)][i].question = q

LEMMA IdentityOfQuestion ==
    ASSUME NEW q, NEW r, AnswersTo(q) = AnswersTo(r)
    PROVE  q = r
BY DEF AnswersTo

LEMMA RunNextStageOp ==
    ASSUME NEW log, NEW x
    PROVE  RunNextStage(log, x).op # "put"
BY DEF RunNextStage, Throw

(* What project prepare appends are documents and no answers.              *)
LEMMA PrepareElsewhere ==
    ASSUME NEW v, NEW kind, NEW n, NEW e,
           e \notin {Pm, Arch, AdrSet}, \A p : e # Plan(p) /\ e # Audit(p)
    PROVE  LET call == PrepareCall(v, kind, n)
           IN  call.op = "put" => call.identity # e
<1> DEFINE Elsewhere(call) == call.op = "put" => call.identity # e
<1>1. Elsewhere(Return) /\ Elsewhere(Throw)
  BY DEF Return, Throw
<1>2. \A d, i, next : d # e /\ Elsewhere(next) => Elsewhere(Persist(v, d, i, next))
  BY <1>1 DEF Persist, Put
<1>3. \A log, x : Elsewhere(RunNextStage(log, x))
  BY RunNextStageOp
<1>4. Pm # e /\ Arch # e /\ AdrSet # e /\ \A p : Plan(p) # e /\ Audit(p) # e
  OBVIOUS
<1>5. \A d, i : d # e => Elsewhere(Put(d, i))
  BY DEF Put
<1> HIDE DEF Elsewhere
<1>6. \A s, m : Elsewhere(AnalyzeCall(v, s, m))
  BY <1>2, <1>3, <1>4 DEF AnalyzeCall
<1>7. \A arch, m : Elsewhere(ArchitectureCall(v, arch, m))
  BY <1>1, <1>2, <1>3, <1>4 DEF ArchitectureCall
<1>8. \A plan, m : Elsewhere(FinalizeCall(v, plan, m))
  BY <1>2, <1>3, <1>4 DEF FinalizeCall
<1>9. \A plan, m : Elsewhere(AuditCall(v, plan, m))
  BY <1>1, <1>3, <1>4, <1>5 DEF AuditCall
<1>10. Elsewhere(PrepareCall(v, kind, n))
  BY <1>1, <1>6, <1>7, <1>8, <1>9 DEF PrepareCall
<1> QED
  BY <1>10 DEF Elsewhere

(* Only decisions answer files an answer, and only to a question that has  *)
(* none in the package as far as the command knows.                        *)
LEMMA OnlyAnswersAnswer ==
    ASSUME NEW v, Typed(v), NEW j \in Job, JobProper(j, v.events), NEW q \in Questions,
           Call(v, j).op = "put", Call(v, j).identity = AnswersTo(q)
    PROVE  /\ Call(v, j).item.question = q
           /\ \A a \in v.answers : a.base = Call(v, j).item.base => a.question # q
<1>1. CASE j.kind \in {"analyze", "prepare"}
  <2>1. Call(v, j) = PrepareCall(v, j.kind, j.input)
    BY <1>1 DEF Call
  <2>2. AnswersTo(q) \notin {Pm, Arch, AdrSet}
        /\ \A p : AnswersTo(q) # Plan(p) /\ AnswersTo(q) # Audit(p)
    BY IdentitiesDiffer
  <2> QED
    BY <2>1, <2>2, PrepareElsewhere
<1>2. CASE j.kind = "recover"
  <2>1. Call(v, j) = RecoverCall(v, j.input)
    BY <1>2 DEF Call
  <2>2. RecoverCall(v, j.input).op # "put"
    BY RunNextStageOp DEF RecoverCall, Throw
  <2> QED
    BY <2>1, <2>2
<1>3. CASE j.kind = "answer"
  <2> DEFINE p == PackageOf(v.events)
             row == AnswerRow(v, j.about, j.record)
  <2>1. Call(v, j) = AnswerCall(v, j.about, j.record)
    BY <1>3 DEF Call
  <2>2. Call(v, j) = Put(AnswersTo(j.about), row) /\ Unanswered(v, p, j.about)
    BY <2>1 DEF AnswerCall, Return, Throw
  <2>3. j.about = q
    BY <2>2, IdentityOfQuestion DEF Put
  <2>4. Call(v, j).item = row /\ row.question = q /\ row.base = p
    BY <2>2, <2>3 DEF Put, AnswerRow
  <2>5. \A a \in v.answers : a.base = p => a.question # q
    BY <2>2, <2>3 DEF Unanswered, AnswersFor
  <2> QED
    BY <2>4, <2>5
<1>4. CASE j.kind = "settle"
  <2>1. Call(v, j) = SettleCall(v, j.record) /\ j.record \in Records
        /\ v.events # <<>> /\ IsDecision(PackageOf(v.events))
    BY <1>4 DEF Call, JobProper
  <2> QED
    BY <2>1, SettleProper
<1>5. CASE j.kind = "approve"
  <2>1. Call(v, j) = ApproveCall(v, j.about, j.record)
    BY <1>5 DEF Call
  <2>2. ApproveCall(v, j.about, j.record).op = "put" =>
          ApproveCall(v, j.about, j.record).identity = ApprovalsOf(j.about)
    BY DEF ApproveCall, Put, Return, Throw
  <2> QED
    BY <2>1, <2>2, IdentitiesDiffer
<1>6. CASE j.kind = "confirm"
  <2>1. Call(v, j) = ConfirmCall(v, j.record) /\ j.record \in Records
        /\ v.events # <<>> /\ IsAdr(PackageOf(v.events))
    BY <1>6 DEF Call, JobProper
  <2> QED
    BY <2>1, ConfirmProper
<1>7. CASE j.kind = "report"
  <2>1. Call(v, j) = ReportCall(v, j.about) /\ j.about \in Reports
    BY <1>7 DEF Call, JobProper
  <2> QED
    BY <2>1, ReportProper
<1>8. CASE j.kind \in {"idle", "return"}
  <2>1. Call(v, j) = Return
    BY <1>8 DEF Call
  <2> QED
    BY <2>1 DEF Return
<1> QED
  BY <1>1, <1>2, <1>3, <1>4, <1>5, <1>6, <1>7, <1>8 DEF Job, Kinds

(* A command whose view of an identity is complete knows all its answers.  *)
LEMMA ViewComplete ==
    ASSUME Consistent, NEW c \in Clients, NEW q \in Questions,
           catalog[c].rows[AnswersTo(q)] = Len(rows[AnswersTo(q)])
    PROVE  Range(rows[AnswersTo(q)]) \subseteq View(catalog[c]).answers
<1> DEFINE store == [d \in Identities |-> SubSeq(rows[d], 1, catalog[c].rows[d])]
<1>1. AnswersTo(q) \in Identities /\ rows[AnswersTo(q)] \in Seq(Answer)
  BY DEF Identities, Consistent, RowsTyped
<1>2. store[AnswersTo(q)] = rows[AnswersTo(q)]
  BY <1>1
<1>3. View(catalog[c]).answers = UNION {Range(store[AnswersTo(r)]) : r \in Questions}
  BY DEF View, Documents
<1> HIDE DEF store
<1> QED
  BY <1>2, <1>3

LEMMA AppendKeepsAnswers ==
    ASSUME Consistent, AnswersFiled, NoConflictingAnswers,
           NEW c \in Clients, NEW call \in NextCall(c), AppendArtifact(c, call)
    PROVE  AnswersFiled' /\ NoConflictingAnswers'
<1> DEFINE d == call.identity
           n == catalog[c].rows[d]
           i == call.item
<1>1. /\ call.op = "put" /\ d \in Identities
      /\ rows \in [Identities -> Seq(Item)]
      /\ rows' = [rows EXCEPT ![d] = Grown(@, n, i)]
  BY NextCallProper DEF AppendArtifact, Proper, ProperPut, Consistent, TypeOK
<1>2. \A q \in Questions : AnswersTo(q) \in Identities /\ rows[AnswersTo(q)] \in Seq(Answer)
  BY DEF Identities, Consistent, RowsTyped
<1>3. ASSUME NEW q \in Questions
      PROVE  \/ rows'[AnswersTo(q)] = rows[AnswersTo(q)]
             \/ /\ rows'[AnswersTo(q)] = Append(rows[AnswersTo(q)], i)
                /\ i.question = q
                /\ \A a \in Range(rows[AnswersTo(q)]) : a.base # i.base
  <2>1. CASE d # AnswersTo(q) \/ Len(rows[d]) # n
    BY <1>1, <1>2, <2>1 DEF Grown
  <2>2. CASE d = AnswersTo(q) /\ Len(rows[d]) = n
    <3> DEFINE v == View(catalog[c])
    <3>1. call = Call(v, job[c]) /\ job[c] \in Job
      BY DEF NextCall, Consistent, TypeOK
    <3>2. Typed(v) /\ JobProper(job[c], v.events)
      BY ViewTyped DEF Consistent, CommandsProper
    <3>3. Range(rows[AnswersTo(q)]) \subseteq v.answers
      BY <2>2, ViewComplete
    <3> HIDE DEF v
    <3>4. /\ i.question = q
          /\ \A a \in v.answers : a.base = i.base => a.question # q
      BY <1>1, <2>2, <3>1, <3>2, OnlyAnswersAnswer
    <3>5. \A a \in Range(rows[AnswersTo(q)]) : a.question = q
      BY <1>2 DEF AnswersFiled, Range
    <3>6. rows'[AnswersTo(q)] = Append(rows[AnswersTo(q)], i)
      BY <1>1, <2>2 DEF Grown
    <3> QED
      BY <3>3, <3>4, <3>5, <3>6
  <2> QED
    BY <2>1, <2>2
<1> HIDE DEF i
<1>4. \A q \in Questions :
         \/ rows'[AnswersTo(q)] = rows[AnswersTo(q)]
         \/ /\ Range(rows'[AnswersTo(q)]) \subseteq Range(rows[AnswersTo(q)]) \union {i}
            /\ \A a \in Range(rows[AnswersTo(q)]) : a.base # i.base
  BY <1>2, <1>3 DEF Range
<1>5. NoConflictingAnswers'
  BY <1>4 DEF NoConflictingAnswers
<1>6. ASSUME NEW q \in Questions, NEW k \in 1..Len(rows'[AnswersTo(q)])
      PROVE  rows'[AnswersTo(q)][k].question = q
  <2>1. \A m \in 1..Len(rows[AnswersTo(q)]) : rows[AnswersTo(q)][m].question = q
    BY DEF AnswersFiled
  <2>2. CASE rows'[AnswersTo(q)] = rows[AnswersTo(q)]
    BY <1>6, <2>1, <2>2
  <2>3. CASE rows'[AnswersTo(q)] = Append(rows[AnswersTo(q)], i) /\ i.question = q
    BY <1>2, <1>6, <2>1, <2>3
  <2> QED
    BY <1>3, <2>2, <2>3
<1> QED
  BY <1>5, <1>6 DEF AnswersFiled

LEMMA NextKeepsAnswers ==
    ASSUME Consistent, AnswersFiled, NoConflictingAnswers, [Next]_vars
    PROVE  AnswersFiled' /\ NoConflictingAnswers'
<1>1. CASE UNCHANGED rows
  BY <1>1 DEF AnswersFiled, NoConflictingAnswers
<1>2. CASE \E c \in Clients : Step(c)
  <2>0. PICK c \in Clients : Step(c)
    BY <1>2
  <2>1. PICK call \in NextCall(c) :
           \/ AppendArtifact(c, call) \/ AppendEvent(c, call)
           \/ ReturnResult(c, call) \/ Fail(c, call)
    BY <2>0 DEF Step
  <2>2. CASE AppendArtifact(c, call)
    BY <2>2, AppendKeepsAnswers
  <2>3. CASE ~AppendArtifact(c, call)
    BY <1>1, <2>1, <2>3 DEF AppendEvent, ReturnResult, Fail, End
  <2> QED
    BY <2>2, <2>3
<1>3. CASE Create \/ \E c \in Clients : Interrupt(c)
  BY <1>1, <1>3 DEF Create, Interrupt, End
<1>4. CASE \E c \in Clients : Command(c)
  BY <1>1, <1>4 DEF Command, Proceed, BeginPrepare, BeginResume, BeginAnswer, BeginApprove,
     BeginAnalyze, BeginReport, Begin
<1> QED
  BY <1>1, <1>2, <1>3, <1>4 DEF Next, vars

-----------------------------------------------------------------------------
(* The store, the catalogs and the jobs keep their types: what any command *)
(* appends is what the schema of its identity admits.                      *)
THEOREM TypeCorrect == Spec => []TypeOK
<1>1. Consistent => TypeOK
  BY DEF Consistent
<1> QED
  BY <1>1, InitConsistent, NextConsistent, PTL DEF Spec

(* However many commands run beside each other and wherever they die, the  *)
(* stream of transitions that they leave is one that                       *)
(* verifyTransitionChain accepts: no later command is stopped by it.       *)
THEOREM StreamReplays == Spec => []ChainReplays
<1>1. Consistent => ChainReplays
  BY DEF Consistent
<1> QED
  BY <1>1, InitConsistent, NextConsistent, PTL DEF Spec

(* Two answers to one question of one package are never both stored: of    *)
(* commands that answer it at the same time, one is refused by the store   *)
(* (answerDecision in commands/decisions.js).                              *)
THEOREM OneAnswerPerPackage == Spec => []NoConflictingAnswers
<1>1. Init => AnswersFiled /\ NoConflictingAnswers
  BY DEF Init, AnswersFiled, NoConflictingAnswers, Identities, Range
<1>2. /\ Consistent /\ AnswersFiled /\ NoConflictingAnswers /\ [Next]_vars
      => AnswersFiled' /\ NoConflictingAnswers'
  BY NextKeepsAnswers
<1> QED
  BY <1>1, <1>2, InitConsistent, NextConsistent, PTL DEF Spec

-----------------------------------------------------------------------------
(* What a command reports *)

(* An event with the fields that runNextStage looks at                     *)
Named(x) == x = [f \in DOMAIN x |-> x[f]] /\ {"event", "package"} \subseteq DOMAIN x

Recovering == {"RESUME", "RETRY"}

(* A recovery says nothing of a package.                                   *)
BareCall(call) ==
    call.op = "emit" /\ call.event.event \in Recovering => call.event.package = None

RecoveriesBare ==
    \A i \in 1..Len(events) : events[i].event \in Recovering => events[i].package = None

LEMMA RunNextStageBare ==
    ASSUME NEW log, NEW x, Named(x), x.event \in Recovering => x.package = None
    PROVE  BareCall(RunNextStage(log, x))
<1>1. Recorded(x) \in {x, [x EXCEPT !.package = None]}
  BY DEF Recorded
<1>2. [x EXCEPT !.package = None].package = None
  BY DEF Named
<1> DEFINE y == Recorded(x)
           call == RunNextStage(log, x)
<1>3. y.event \in Recovering => y.package = None
  <2>1. CASE y = x
    BY <2>1
  <2>2. CASE y = [x EXCEPT !.package = None]
    BY <1>2, <2>2
  <2> QED
    BY <1>1, <2>1, <2>2
<1>4. call.op = "emit" => call.event = y
  BY DEF RunNextStage, Throw
<1> HIDE DEF y, call
<1>5. BareCall(call)
  BY <1>3, <1>4 DEF BareCall
<1> QED
  BY <1>5 DEF call



(* Only project resume emits a recovery.                                   *)
LEMMA OutcomesBare ==
    /\ BareCall(Return) /\ BareCall(Throw) /\ \A d, i : BareCall(Put(d, i))
    /\ \A v, d, i, next : BareCall(next) => BareCall(Persist(v, d, i, next))
BY DEF BareCall, Return, Throw, Put, Persist

LEMMA AnalyzeBare ==
    ASSUME NEW v, NEW s, NEW n
    PROVE  BareCall(AnalyzeCall(v, s, n))
<1> DEFINE b == Blank(v, s, n)
           x == [b EXCEPT !.prev = "ANALYZING"]
           found == [x EXCEPT !.event = "QUESTIONS_FOUND", !.package = Open(s),
                              !.state = "QUESTIONS_PENDING"]
           completed == [x EXCEPT !.event = "ANALYSIS_COMPLETED",
                                  !.state = "ARCHITECTURE_PENDING"]
           restarted == [x EXCEPT !.event = "SOURCE_RESTARTED", !.state = "ANALYZING"]
           y == IF v.events # <<>> /\ Latest(v.events).source # s THEN restarted
                ELSE IF QuestionsOf[s] # {} THEN found ELSE completed
<1>1. Named(found) /\ found.event = "QUESTIONS_FOUND"
  BY DEF Named, Blank
<1>2. Named(completed) /\ completed.event = "ANALYSIS_COMPLETED"
  BY DEF Named, Blank
<1>3. Named(restarted) /\ restarted.event = "SOURCE_RESTARTED"
  BY DEF Named, Blank
<1>4. AnalyzeCall(v, s, n) = Persist(v, Pm, s, RunNextStage(v.events, y))
  BY DEF AnalyzeCall
<1> HIDE DEF found, completed, restarted
<1>5. Named(y) /\ y.event \notin Recovering
  BY <1>1, <1>2, <1>3 DEF Recovering
<1> HIDE DEF y
<1> QED
  BY <1>4, <1>5, RunNextStageBare, OutcomesBare

LEMMA ArchitectureBare ==
    ASSUME NEW v, NEW arch, NEW n
    PROVE  BareCall(ArchitectureCall(v, arch, n))
<1> DEFINE s == Design[arch].source
           package == IF QuestionsOf[s] # {} THEN Reduced(v, Open(s)) ELSE None
           answers == AnswersFor(v, Open(s))
           x == [Blank(v, s, n) EXCEPT !.arch = arch, !.package = package, !.answers = answers]
           completed == [x EXCEPT !.event = "ARCHITECTURE_COMPLETED",
                                  !.state = "PM_FINALIZATION"]
           required == [x EXCEPT !.event = "ADR_APPROVAL_REQUIRED",
                                 !.state = "ADR_PENDING_APPROVAL",
                                 !.package = [kind |-> "adr", arch |-> arch]]
           y == IF ArchitectureComplete(completed) THEN completed
                ELSE IF Design[arch].pending # {} THEN required ELSE x
           next == IF ~ArchitectureValid(x) THEN Throw ELSE RunNextStage(v.events, y)
<1>1. ArchitectureCall(v, arch, n) \in
        {Throw, Persist(v, Arch, arch, Persist(v, AdrSet, arch, next))}
  BY DEF ArchitectureCall
<1> HIDE DEF s, package, answers
<1>2. Named(x) /\ x.event = "BLOCK"
  BY DEF Named, Blank
<1>3. Named(completed) /\ completed.event = "ARCHITECTURE_COMPLETED"
  BY DEF Named, Blank
<1>4. Named(required) /\ required.event = "ADR_APPROVAL_REQUIRED"
  BY DEF Named, Blank
<1> HIDE DEF x, completed, required
<1>5. Named(y) /\ y.event \notin Recovering
  BY <1>2, <1>3, <1>4 DEF Recovering
<1> HIDE DEF y
<1>6. BareCall(next)
  BY <1>5, RunNextStageBare, OutcomesBare
<1> HIDE DEF next
<1> QED
  BY <1>1, <1>6, OutcomesBare

LEMMA EvidencedNamed ==
    ASSUME NEW v, NEW plan, NEW n
    PROVE  Named(Evidenced(v, plan, n)) /\ Evidenced(v, plan, n).event = "BLOCK"
<1> DEFINE arch == Outline[plan].arch
           s == Design[arch].source
           package == EffectivePackage(v, s)
           answers == CurrentAnswers(v, s)
           approvals == CurrentApprovals(v, arch)
           x == [Blank(v, s, n) EXCEPT !.arch = arch, !.plan = plan, !.package = package,
                                       !.answers = answers, !.approvals = approvals]
<1>1. x = Evidenced(v, plan, n)
  BY DEF Evidenced
<1> HIDE DEF arch, s, package, answers, approvals
<1>2. Named(x) /\ x.event = "BLOCK"
  BY DEF Named, Blank
<1> QED
  BY <1>1, <1>2

LEMMA FinalizeBare ==
    ASSUME NEW v, NEW plan, NEW n
    PROVE  BareCall(FinalizeCall(v, plan, n))
<1> DEFINE x == Evidenced(v, plan, n)
           completed == [x EXCEPT !.event = "FINALIZATION_COMPLETED", !.state = "SPEC_AUDIT"]
           y == IF PlanComplete(x) THEN completed ELSE x
<1>1. Named(x) /\ x.event = "BLOCK"
  BY EvidencedNamed
<1>2. FinalizeCall(v, plan, n) =
        Persist(v, Plan(Outline[plan].id), plan, RunNextStage(v.events, y))
  BY DEF FinalizeCall
<1> HIDE DEF x
<1>3. Named(completed) /\ completed.event = "FINALIZATION_COMPLETED"
  BY <1>1 DEF Named
<1> HIDE DEF completed
<1>4. Named(y) /\ y.event \notin Recovering
  BY <1>1, <1>3 DEF Recovering
<1> HIDE DEF y
<1> QED
  BY <1>2, <1>4, RunNextStageBare, OutcomesBare

LEMMA AuditBare ==
    ASSUME NEW v, NEW plan, NEW n
    PROVE  BareCall(AuditCall(v, plan, n))
<1> DEFINE x == Evidenced(v, plan, n)
           passed == [x EXCEPT !.event = "AUDIT_PASSED", !.state = "READY_FOR_ISSUES"]
           blocked == [x EXCEPT !.event = "AUDIT_BLOCKED"]
           y == IF AuditReady(x) THEN passed ELSE blocked
           audit == Audit(Outline[plan].id)
<1>1. Named(x)
  BY EvidencedNamed
<1>2. AuditCall(v, plan, n) \in
        {Throw, RunNextStage(v.events, y), Put(audit, AuditOf(x))}
  BY DEF AuditCall
<1> HIDE DEF x, audit
<1>3. Named(passed) /\ passed.event = "AUDIT_PASSED"
  BY <1>1 DEF Named
<1>4. Named(blocked) /\ blocked.event = "AUDIT_BLOCKED"
  BY <1>1 DEF Named
<1> HIDE DEF passed, blocked
<1>5. Named(y) /\ y.event \notin Recovering
  BY <1>3, <1>4 DEF Recovering
<1> HIDE DEF y
<1>6. BareCall(RunNextStage(v.events, y))
  BY <1>5, RunNextStageBare
<1> QED
  BY <1>2, <1>6, OutcomesBare

LEMMA RecoverBare ==
    ASSUME NEW v, NEW n
    PROVE  BareCall(RecoverCall(v, n))
<1> DEFINE s == SourceOf(Inputs[n])
           target == RecoveryState(v.events)
           e == IF StateOf(v.events, s) = "BLOCKED" THEN "RESUME" ELSE "RETRY"
           x == [Blank(v, s, n) EXCEPT !.event = e, !.state = target, !.resume = target]
<1>1. RecoverCall(v, n) \in {Throw, RunNextStage(v.events, x)}
  BY DEF RecoverCall
<1> HIDE DEF s, target, e
<1>2. Named(x) /\ x.package = None
  BY DEF Named, Blank
<1> HIDE DEF x
<1> QED
  BY <1>1, <1>2, RunNextStageBare, OutcomesBare

LEMMA SettleBare ==
    ASSUME NEW v, NEW r
    PROVE  BareCall(SettleCall(v, r))
<1> DEFINE p == PackageOf(v.events)
           s == Latest(v.events).source
           answers == AnswersFor(v, p)
           reduced == Reduced(v, p)
           x == [Blank(v, s, r) EXCEPT !.answers = answers]
           started == [x EXCEPT !.event = "DECISION_STARTED", !.state = "USER_DECISION",
                                !.package = p]
           resolved == [x EXCEPT !.event = "DECISIONS_RESOLVED",
                                 !.state = "ARCHITECTURE_PENDING", !.package = reduced]
<1>1. SettleCall(v, r) \in
        {Return, RunNextStage(v.events, started), RunNextStage(v.events, resolved)}
  BY DEF SettleCall
<1> HIDE DEF p, s, answers, reduced
<1>2. Named(started) /\ started.event = "DECISION_STARTED"
  BY DEF Named, Blank
<1>3. Named(resolved) /\ resolved.event = "DECISIONS_RESOLVED"
  BY DEF Named, Blank
<1> HIDE DEF started, resolved
<1> QED
  BY <1>1, <1>2, <1>3, RunNextStageBare, OutcomesBare DEF Recovering

LEMMA ConfirmBare ==
    ASSUME NEW v, NEW r
    PROVE  BareCall(ConfirmCall(v, r))
<1> DEFINE p == PackageOf(v.events)
           s == Latest(v.events).source
           arch == p.arch
           given == ApprovalsFor(v, p.arch)
           x == [Blank(v, s, r) EXCEPT
                   !.event = "ADR_APPROVED", !.state = "PM_FINALIZATION",
                   !.package = p, !.arch = arch, !.approvals = given]
<1>1. ConfirmCall(v, r) \in {Return, Throw, RunNextStage(v.events, x)}
  BY DEF ConfirmCall
<1> HIDE DEF p, s, arch, given
<1>2. Named(x) /\ x.event = "ADR_APPROVED"
  BY DEF Named, Blank
<1> HIDE DEF x
<1> QED
  BY <1>1, <1>2, RunNextStageBare, OutcomesBare DEF Recovering

LEMMA ReportBare ==
    ASSUME NEW v, NEW e
    PROVE  BareCall(ReportCall(v, e))
<1> DEFINE last == Latest(v.events)
           target == (CHOOSE d \in Stops : d[1] = e)[2]
           before == IF e = "BLOCK" THEN None ELSE last.state
           s == last.source
           x == [Blank(v, s, 0) EXCEPT !.event = e, !.state = target, !.resume = before]
<1>1. ReportCall(v, e) \in {Throw, RunNextStage(v.events, x)}
  BY DEF ReportCall
<1> HIDE DEF last, target, before, s
<1>2. Named(x) /\ x.package = None
  BY DEF Named, Blank
<1> HIDE DEF x
<1> QED
  BY <1>1, <1>2, RunNextStageBare, OutcomesBare

LEMMA CallBare ==
    ASSUME NEW v, NEW j \in Job
    PROVE  BareCall(Call(v, j))
<1>1. \A q, r : BareCall(AnswerCall(v, q, r)) /\ BareCall(ApproveCall(v, q, r))
  BY OutcomesBare DEF AnswerCall, ApproveCall
<1>2. \A kind, n : BareCall(PrepareCall(v, kind, n))
  BY OutcomesBare, AnalyzeBare, ArchitectureBare, FinalizeBare, AuditBare DEF PrepareCall
<1> QED
  BY <1>1, <1>2, OutcomesBare, RecoverBare, SettleBare, ConfirmBare, ReportBare DEF Call

-----------------------------------------------------------------------------
(* A command that settles or confirms has appended.                        *)
Changed == \A c \in Clients : job[c].kind \in {"settle", "confirm"} => job[c].changed

LEMMA EventBare ==
    ASSUME Consistent, RecoveriesBare, NEW c \in Clients, NEW call \in NextCall(c),
           AppendEvent(c, call)
    PROVE  RecoveriesBare'
<1>1. BareCall(call) /\ call.op = "emit"
  BY CallBare DEF NextCall, AppendEvent, Consistent, TypeOK
<1>2. events \in Seq(Event) /\ events' \in {events, Append(events, call.event)}
  BY DEF AppendEvent, Grown, Consistent, TypeOK
<1>3. CASE events' = events
  BY <1>3 DEF RecoveriesBare
<1>4. CASE events' = Append(events, call.event)
  <2>1. /\ Len(events') = Len(events) + 1 /\ events'[Len(events) + 1] = call.event
        /\ \A i \in 1..Len(events) : events'[i] = events[i]
    BY <1>2, <1>4
  <2>2. ASSUME NEW i \in 1..(Len(events) + 1), events'[i].event \in Recovering
        PROVE  events'[i].package = None
    <3>1. CASE i = Len(events) + 1
      BY <1>1, <2>1, <2>2, <3>1 DEF BareCall
    <3>2. CASE i \in 1..Len(events)
      BY <2>1, <2>2, <3>2 DEF RecoveriesBare
    <3> QED
      BY <1>2, <3>1, <3>2
  <2> QED
    BY <2>1, <2>2 DEF RecoveriesBare
<1> QED
  BY <1>2, <1>3, <1>4

LEMMA NextBare == Consistent /\ RecoveriesBare /\ [Next]_vars => RecoveriesBare'
<1> SUFFICES ASSUME Consistent, RecoveriesBare, [Next]_vars PROVE RecoveriesBare'
  OBVIOUS
<1>1. CASE UNCHANGED events
  BY <1>1 DEF RecoveriesBare
<1>2. CASE \E c \in Clients : Step(c)
  <2>1. PICK c \in Clients : Step(c)
    BY <1>2
  <2>2. PICK call \in NextCall(c) :
           \/ AppendArtifact(c, call) \/ AppendEvent(c, call)
           \/ ReturnResult(c, call) \/ Fail(c, call)
    BY <2>1 DEF Step
  <2>3. CASE AppendEvent(c, call)
    BY <2>3, EventBare
  <2>4. CASE ~AppendEvent(c, call)
    BY <1>1, <2>2, <2>4 DEF AppendArtifact, ReturnResult, Fail, End
  <2> QED
    BY <2>3, <2>4
<1>3. CASE Create \/ \E c \in Clients : Interrupt(c)
  BY <1>1, <1>3 DEF Create, Interrupt, End
<1>4. CASE \E c \in Clients : Command(c)
  BY <1>1, <1>4 DEF Command, Proceed, BeginPrepare, BeginResume, BeginAnswer, BeginApprove,
     BeginAnalyze, BeginReport, Begin
<1> QED
  BY <1>1, <1>2, <1>3, <1>4 DEF Next, vars

(* A job goes on marked, ends, or begins as none of the two.               *)
LEMMA NextChanged == Consistent /\ Changed /\ [Next]_vars => Changed'
<1> SUFFICES ASSUME Consistent, Changed, [Next]_vars, NEW b \in Clients,
                    job'[b].kind \in {"settle", "confirm"}
             PROVE  job'[b].changed
  BY DEF Changed
<1>1. job \in [Clients -> Job]
  BY DEF Consistent, TypeOK
<1>2. CASE job'[b] = job[b]
  BY <1>2 DEF Changed
<1>3. ASSUME NEW c \in Clients, Advance(c) PROVE job'[b].changed
  <2>1. CASE b = c
    <3>1. job'[b] = [job[b] EXCEPT !.kind = After(@), !.changed = TRUE]
      BY <1>1, <1>3, <2>1 DEF Advance
    <3> QED
      BY <1>1, <3>1 DEF Job
  <2>2. CASE b # c
    BY <1>1, <1>2, <1>3, <2>2 DEF Advance
  <2> QED
    BY <2>1, <2>2
<1>4. ASSUME NEW c \in Clients, End(c) PROVE job'[b].changed
  <2>1. CASE b = c
    <3>1. job'[b] = Idle
      BY <1>1, <1>4, <2>1 DEF End
    <3> QED
      BY <3>1 DEF Idle
  <2>2. CASE b # c
    BY <1>1, <1>2, <1>4, <2>2 DEF End
  <2> QED
    BY <2>1, <2>2
<1>5. ASSUME NEW c \in Clients, NEW kind, kind \notin {"settle", "confirm"},
             NEW about, NEW record, Begin(c, kind, about, record)
      PROVE  job'[b].changed
  <2>1. CASE b = c
    <3>1. job'[b].kind = kind
      BY <1>1, <1>5, <2>1 DEF Begin
    <3> QED
      BY <1>5, <3>1
  <2>2. CASE b # c
    BY <1>1, <1>2, <1>5, <2>2 DEF Begin
  <2> QED
    BY <2>1, <2>2
<1>6. CASE \E c \in Clients : Step(c) \/ Interrupt(c)
  BY <1>3, <1>4, <1>6 DEF Step, Interrupt, AppendArtifact, AppendEvent, ReturnResult, Fail
<1>7. CASE \E c \in Clients : Command(c)
  BY <1>5, <1>7 DEF Command, Proceed, BeginPrepare, BeginResume, BeginAnswer, BeginApprove,
     BeginAnalyze, BeginReport
<1>8. CASE Create \/ UNCHANGED vars
  BY <1>2, <1>8 DEF Create, vars
<1> QED
  BY <1>6, <1>7, <1>8 DEF Next

(* A catalog that equals the store shows the store.                        *)
LEMMA WholeView ==
    ASSUME Consistent, NEW c \in Clients, catalog[c] = Snapshot
    PROVE  View(catalog[c]) = Store
<1>1. events \in Seq(Event) /\ rows \in [Identities -> Seq(Item)]
  BY DEF Consistent, TypeOK
<1>2. SubSeq(events, 1, catalog[c].events) = events
  BY <1>1 DEF Snapshot
<1>3. \A d \in Identities : SubSeq(rows[d], 1, catalog[c].rows[d]) = rows[d]
  <2> TAKE d \in Identities
  <2>1. catalog[c].rows[d] = Len(rows[d]) /\ rows[d] \in Seq(Item)
    BY <1>1 DEF Snapshot
  <2> QED
    BY <2>1, WholePrefix
<1>4. [d \in Identities |-> SubSeq(rows[d], 1, catalog[c].rows[d])] = rows
  BY <1>1, <1>3
<1> QED
  BY <1>2, <1>4 DEF View, Store

(* The package of an event that waits for a decision fits that decision.     *)
LEMMA WaitingFits ==
    ASSUME NEW x, Legal(x), Evidence(x), x.event \in Recovering => x.package = None
    PROVE  /\ x.state = "ADR_PENDING_APPROVAL" => ~IsDecision(x.package)
           /\ x.state \in {"QUESTIONS_PENDING", "USER_DECISION"} => ~IsAdr(x.package)
<1>1. CASE x.event \in Recovering
  BY <1>1, NoneIsNoPackage
<1>2. CASE x.event \notin Recovering
  <2>1. x.state \in Active => <<x.prev, x.event, x.state>> \in Declared
    BY <1>2 DEF Legal, Recovering, Recoveries, Stops, Active
  <2>2. x.state = "ADR_PENDING_APPROVAL" => x.event = "ADR_APPROVAL_REQUIRED"
    BY <2>1 DEF Active, Declared
  <2>3. x.state \in {"QUESTIONS_PENDING", "USER_DECISION"}
          => x.event \in {"QUESTIONS_FOUND", "DECISION_STARTED"}
    BY <2>1 DEF Active, Declared
  <2>4. x.event = "ADR_APPROVAL_REQUIRED" => ~IsDecision(x.package)
    BY DEF Evidence, IsDecision, DecisionPackage
  <2>5. x.event \in {"QUESTIONS_FOUND", "DECISION_STARTED"} => IsDecision(x.package)
    BY DEF Evidence
  <2>6. ~(IsDecision(x.package) /\ IsAdr(x.package))
    BY PackageKinds
  <2> QED
    BY <2>2, <2>3, <2>4, <2>5, <2>6
<1> QED
  BY <1>1, <1>2

(* The package of the stream fits the decision that the stream waits for.    *)
LEMMA PackageFits ==
    ASSUME Consistent, RecoveriesBare, events # <<>>
    PROVE  /\ Latest(events).state = "ADR_PENDING_APPROVAL"
                  => ~IsDecision(Latest(events).package)
           /\ Latest(events).state \in {"QUESTIONS_PENDING", "USER_DECISION"}
                  => ~IsAdr(Latest(events).package)
<1>1. Len(events) \in 1..Len(events) /\ Latest(events) = events[Len(events)]
  BY DEF Latest, Consistent, TypeOK
<1>2. Legal(Latest(events)) /\ Evidence(Latest(events))
  BY <1>1 DEF Consistent, ChainReplays, ChainVerifies, Accepts
<1>3. Latest(events).event \in Recovering => Latest(events).package = None
  BY <1>1 DEF RecoveriesBare
<1> QED
  BY <1>2, <1>3, WaitingFits

LEMMA ReturnIsHonest ==
    ASSUME Consistent, RecoveriesBare, Changed, NEW c \in Clients,
           job[c].kind \in {"settle", "confirm"},
           NEW call \in NextCall(c), ReturnResult(c, call)
    PROVE  ~Unnoticed
<1>1. catalog[c] = Snapshot /\ call.op = "return"
  BY DEF ReturnResult, Changed
<1>2. call = Call(Store, job[c])
  BY <1>1, WholeView DEF NextCall
<1>3. /\ Known(c) = events /\ Store.events = events
      /\ JobProper(job[c], events)
  <2>1. Known(c) = events
    BY <1>1, WholePrefix DEF Known, Snapshot, Consistent, TypeOK
  <2> QED
    BY <2>1 DEF Store, Documents, Consistent, CommandsProper
<1> DEFINE p == PackageOf(events)
           state == Latest(events).state
<1>4. \A x : RunNextStage(events, x).op # "return"
  BY DEF RunNextStage, Throw
<1>5. events # <<>> => p = Latest(events).package
  BY DEF PackageOf
<1>6. CASE job[c].kind = "settle"
  <2>1. events # <<>> /\ IsDecision(p)
    BY <1>3, <1>6 DEF JobProper
  <2>2. call = SettleCall(Store, job[c].record)
    BY <1>2, <1>6 DEF Call
  <2>3. /\ state # "QUESTIONS_PENDING"
        /\ ~(state = "USER_DECISION" /\ Clear(Reduced(Store, p)))
    BY <1>1, <1>3, <1>4, <2>2 DEF SettleCall
  <2>4. state # "ADR_PENDING_APPROVAL"
    BY <1>5, <2>1, PackageFits
  <2> QED
    BY <2>3, <2>4 DEF Unnoticed
<1>7. CASE job[c].kind = "confirm"
  <2>1. events # <<>> /\ IsAdr(p)
    BY <1>3, <1>7 DEF JobProper
  <2>2. call = ConfirmCall(Store, job[c].record)
    BY <1>2, <1>7 DEF Call
  <2>3. \/ state # "ADR_PENDING_APPROVAL"
        \/ {a.adr : a \in ApprovalsFor(Store, p.arch)} # Design[p.arch].pending
    BY <1>1, <1>3, <1>4, <2>2 DEF ConfirmCall, Throw
  <2>4. state \notin {"QUESTIONS_PENDING", "USER_DECISION"}
    BY <1>5, <2>1, PackageFits
  <2> QED
    BY <2>3, <2>4 DEF Unnoticed
<1> QED
  BY <1>6, <1>7

(* A command that has stored an answer or an approval and reports success  *)
(* does not leave the analysis waiting for decisions that are all stored,  *)
(* however many commands run beside it (assertCatalogCurrent at the end of *)
(* answerDecision and approveArchitecture).                                *)
THEOREM SuccessHonest == Spec => SuccessIsHonest
<1> DEFINE HInv == Consistent /\ RecoveriesBare /\ Changed
           A == \A c \in Clients :
                  (/\ job[c].kind \in {"settle", "confirm"}
                   /\ \E call \in NextCall(c) : ReturnResult(c, call)) => ~Unnoticed
<1>1. Init => HInv
  BY InitConsistent DEF Init, RecoveriesBare, Changed, Idle
<1>2. HInv /\ [Next]_vars => HInv'
  BY NextConsistent, NextBare, NextChanged
<1>3. HInv => A
  BY ReturnIsHonest
<1>4. SuccessIsHonest <=> [][A]_vars
  BY DEF SuccessIsHonest
<1> HIDE DEF HInv, A
<1>5. HInv /\ [Next]_vars => [A]_vars
  BY <1>3
<1> QED
  BY <1>1, <1>2, <1>4, <1>5, PTL DEF Spec
=============================================================================
