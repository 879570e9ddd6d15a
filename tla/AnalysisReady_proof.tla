------------------------- MODULE AnalysisReady_proof -------------------------
(***************************************************************************)
(* Proof that a source which the stream of Analysis calls ready for issues *)
(* has earned it, on top of the invariant of Analysis_proof.               *)
(*                                                                         *)
(* A decision package that a command finds in the stream, or under an      *)
(* answer, may come with questions that are settled already.  Whatever the *)
(* command knows of the store also holds the answers that settled them     *)
(* (Grounded): a snapshot holds everything, and a command extends what it  *)
(* knows only by what follows from it.  So the evidence that the audit     *)
(* takes, which is read from one such snapshot, is complete.               *)
(***************************************************************************)
EXTENDS Analysis_proof

(* An answer known in v is there for every question settled in p.          *)
Answered(v, p) ==
    IsDecision(p) =>
        \A e \in p.settled :
            \E a \in v.answers : a.base.source = p.source /\ a.question = e[1]

GoodAnswer(v, a) ==
    a.question \in QuestionsOf[a.base.source] /\ Answered(v, a.base)

GoodApproval(b) == b.adr \in Design[b.arch].pending

Grounded(v) ==
    /\ \A a \in v.answers : GoodAnswer(v, a)
    /\ \A b \in v.approvals : GoodApproval(b)
    /\ Answered(v, PackageOf(v.events))

(* What ReadyIsEarned asks of an event, in the documents v                 *)
Earned(v, x) ==
    /\ x.answers \subseteq v.answers /\ x.approvals \subseteq v.approvals
    /\ HasStored(v, Arch, x.arch) /\ HasStored(v, AdrSet, x.arch)
    /\ HasStored(v, Plan(Outline[x.plan].id), x.plan)
    /\ QuestionsOf[x.source] = {a.question : a \in x.answers}
    /\ Design[x.arch].pending = Approved(x)
    /\ HasStored(v, Audit(Outline[x.plan].id),
                 [plan |-> x.plan, answers |-> x.answers,
                  approvals |-> x.approvals, passed |-> TRUE])
    /\ x.arch \in Architectures /\ x.plan \in Plans

(* What a call adds to the documents v that its command knows is grounded. *)
Adds(v, call) ==
    /\ call.op = "emit" =>
         /\ Answered(v, call.event.package)
         /\ call.event.event = "AUDIT_PASSED" => Earned(v, call.event)
    /\ call.op = "put" =>
         /\ \A q \in Questions : call.identity = AnswersTo(q) => GoodAnswer(v, call.item)
         /\ \A a \in Adrs : call.identity = ApprovalsOf(a) => GoodApproval(call.item)

-----------------------------------------------------------------------------
(* Packages *)

LEMMA AnsweredNone == \A v : Answered(v, None)
BY NoneIsNoPackage DEF Answered

LEMMA AnsweredOpen == \A v, s : Answered(v, Open(s))
BY DEF Answered, Open

LEMMA AnsweredReduced ==
    ASSUME NEW v, Typed(v), NEW p \in DecisionPackage, Answered(v, p)
    PROVE  Answered(v, Reduced(v, p))
<1> DEFINE pairs == {<<a.question, a.record>> : a \in AnswersFor(v, p)}
<1>1. pairs \in SUBSET (Questions \X Records)
  BY ReducedTyped DEF Answer
<1>2. /\ Reduced(v, p).source = p.source
      /\ Reduced(v, p).settled =
           {e \in p.settled : \A d \in pairs : d[1] # e[1]} \union pairs
  BY <1>1, ResolveTyped DEF Reduced
<1>3. ASSUME NEW e \in pairs
      PROVE  \E a \in v.answers : a.base.source = p.source /\ a.question = e[1]
  <2>1. PICK a \in AnswersFor(v, p) : e = <<a.question, a.record>>
    OBVIOUS
  <2> QED
    BY <2>1 DEF AnswersFor
<1>4. \A e \in p.settled : \E a \in v.answers : a.base.source = p.source /\ a.question = e[1]
  BY DEF Answered, IsDecision
<1> HIDE DEF pairs
<1> QED
  BY <1>2, <1>3, <1>4 DEF Answered

LEMMA AnsweredPackage ==
    ASSUME NEW v, Typed(v), Grounded(v), NEW s
    PROVE  \A p \in AnsweredPackages(v, s) : p \in DecisionPackage /\ Answered(v, p)
BY DEF AnsweredPackages, Grounded, GoodAnswer, Typed, Answer

LEMMA AnsweredEffective ==
    ASSUME NEW v, Typed(v), Grounded(v), NEW s \in Sources
    PROVE  Answered(v, EffectivePackage(v, s))
<1>1. CASE AnsweredPackages(v, s) # {}
  <2> DEFINE p == CHOOSE q \in AnsweredPackages(v, s) : TRUE
  <2>1. p \in AnsweredPackages(v, s)
    BY <1>1
  <2>2. EffectivePackage(v, s) = Reduced(v, p)
    BY <1>1 DEF EffectivePackage
  <2> HIDE DEF p
  <2> QED
    BY <2>1, <2>2, AnsweredPackage, AnsweredReduced
<1>2. CASE AnsweredPackages(v, s) = {}
  BY <1>2, AnsweredNone, AnsweredOpen DEF EffectivePackage
<1> QED
  BY <1>1, <1>2

(* A clear package has an answer for each of its questions.                *)
LEMMA DecidedByAnswers ==
    ASSUME NEW v, Typed(v), Grounded(v), NEW s \in Sources,
           \/ QuestionsOf[s] = {}
           \/ LET p == EffectivePackage(v, s)
              IN  IsDecision(p) /\ p.source = s /\ Clear(p)
    PROVE  QuestionsOf[s] = {a.question : a \in CurrentAnswers(v, s)}
<1>1. ASSUME NEW a \in CurrentAnswers(v, s)
      PROVE  a.question \in QuestionsOf[s]
  BY DEF CurrentAnswers, Grounded, GoodAnswer
<1>2. ASSUME NEW q \in QuestionsOf[s]
      PROVE  \E a \in CurrentAnswers(v, s) : a.question = q
  <2> DEFINE p == EffectivePackage(v, s)
  <2>1. IsDecision(p) /\ p.source = s /\ Clear(p)
    OBVIOUS
  <2>2. Answered(v, p)
    BY AnsweredEffective
  <2> HIDE DEF p
  <2>3. PICK e \in p.settled : e[1] = q
    BY <2>1 DEF Clear
  <2>4. PICK a \in v.answers : a.base.source = s /\ a.question = q
    BY <2>1, <2>2, <2>3 DEF Answered
  <2> QED
    BY <2>4 DEF CurrentAnswers
<1> QED
  BY <1>1, <1>2

-----------------------------------------------------------------------------
(* The calls *)

LEMMA OutcomesAdd == \A v : Adds(v, Return) /\ Adds(v, Throw)
BY DEF Adds, Return, Throw

LEMMA StageAdds ==
    ASSUME NEW v, NEW log, NEW x, {"package", "event"} \subseteq DOMAIN x,
           Answered(v, x.package), x.event # "AUDIT_PASSED"
    PROVE  Adds(v, RunNextStage(log, x))
<1> DEFINE y == [x EXCEPT !.package = None]
<1>1. y.event = x.event /\ y.package = None
  OBVIOUS
<1>2. Recorded(x) \in {x, y}
  BY DEF Recorded
<1> HIDE DEF y
<1>3. Answered(v, Recorded(x).package) /\ Recorded(x).event # "AUDIT_PASSED"
  BY <1>1, <1>2, AnsweredNone
<1>4. RunNextStage(log, x) \in {[op |-> "emit", event |-> Recorded(x)], Throw}
  BY DEF RunNextStage
<1> QED
  BY <1>3, <1>4 DEF Adds, Throw

LEMMA PersistAdds ==
    ASSUME NEW v, NEW d, NEW i, NEW next, Adds(v, next),
           d \in {Pm, Arch, AdrSet} \/ \E p : d = Plan(p) \/ d = Audit(p)
    PROVE  Adds(v, Persist(v, d, i, next))
<1>1. /\ \A q : d # AnswersTo(q)
      /\ \A a : d # ApprovalsOf(a)
  BY IdentitiesDiffer
<1>2. Adds(v, Put(d, i))
  BY <1>1 DEF Adds, Put
<1> QED
  BY <1>2, OutcomesAdd DEF Persist

Fields == {"prev", "event", "state", "source", "package", "answers", "approvals",
           "arch", "plan", "resume", "by"}

LEMMA BlankFields ==
    ASSUME NEW v, NEW s, NEW n
    PROVE  DOMAIN Blank(v, s, n) = Fields /\ Blank(v, s, n).package = None
           /\ Blank(v, s, n).event = "BLOCK"
BY DEF Blank, Fields

LEMMA AnalyzeAdds ==
    ASSUME NEW v, NEW s, NEW n
    PROVE  Adds(v, AnalyzeCall(v, s, n))
<1> DEFINE b == Blank(v, s, n)
           x == [b EXCEPT !.prev = "ANALYZING"]
           found == [x EXCEPT !.event = "QUESTIONS_FOUND", !.package = Open(s),
                              !.state = "QUESTIONS_PENDING"]
           completed == [x EXCEPT !.event = "ANALYSIS_COMPLETED",
                                  !.state = "ARCHITECTURE_PENDING"]
           restarted == [x EXCEPT !.event = "SOURCE_RESTARTED", !.state = "ANALYZING"]
           event == IF v.events # <<>> /\ Latest(v.events).source # s THEN restarted
                    ELSE IF QuestionsOf[s] # {} THEN found ELSE completed
<1>1. AnalyzeCall(v, s, n) = Persist(v, Pm, s, RunNextStage(v.events, event))
  BY DEF AnalyzeCall
<1>2. DOMAIN b = Fields /\ b.package = None
  BY BlankFields
<1> HIDE DEF b
<1>3. DOMAIN x = Fields /\ x.package = None
  BY <1>2 DEF Fields
<1> HIDE DEF x
<1>4. /\ DOMAIN found = Fields /\ found.package = Open(s) /\ found.event = "QUESTIONS_FOUND"
      /\ DOMAIN completed = Fields /\ completed.package = None
      /\ completed.event = "ANALYSIS_COMPLETED"
      /\ DOMAIN restarted = Fields /\ restarted.package = None
      /\ restarted.event = "SOURCE_RESTARTED"
  BY <1>3 DEF Fields
<1> HIDE DEF found, completed, restarted
<1>5. Adds(v, RunNextStage(v.events, event))
  BY <1>4, AnsweredNone, AnsweredOpen, StageAdds DEF Fields
<1> HIDE DEF event
<1> QED
  BY <1>1, <1>5, PersistAdds

LEMMA ArchitectureAdds ==
    ASSUME NEW v, Typed(v), NEW arch \in Architectures, NEW n
    PROVE  Adds(v, ArchitectureCall(v, arch, n))
<1> DEFINE s == Design[arch].source
           b == Blank(v, s, n)
           package == IF QuestionsOf[s] # {} THEN Reduced(v, Open(s)) ELSE None
           adrs == [kind |-> "adr", arch |-> arch]
           x == [b EXCEPT !.arch = arch, !.package = package,
                          !.answers = AnswersFor(v, Open(s))]
           completed == [x EXCEPT !.event = "ARCHITECTURE_COMPLETED",
                                  !.state = "PM_FINALIZATION"]
           required == [x EXCEPT !.event = "ADR_APPROVAL_REQUIRED",
                                 !.state = "ADR_PENDING_APPROVAL", !.package = adrs]
           event == IF ArchitectureComplete(completed) THEN completed
                    ELSE IF Design[arch].pending # {} THEN required ELSE x
           next == IF ~ArchitectureValid(x) THEN Throw ELSE RunNextStage(v.events, event)
<1>1. ArchitectureCall(v, arch, n) =
        IF ~Reducible(v, Open(s)) THEN Throw
        ELSE Persist(v, Arch, arch, Persist(v, AdrSet, arch, next))
  BY DEF ArchitectureCall
<1>2. s \in Sources
  BY DocumentsAssumption DEF ArchitectureFacts
<1>3. Answered(v, package)
  BY <1>2, OpenTyped, AnsweredNone, AnsweredOpen, AnsweredReduced
<1>4. Answered(v, adrs)
  BY PackageKinds DEF Answered, IsDecision, DecisionPackage
<1>5. DOMAIN b = Fields /\ b.event = "BLOCK"
  BY BlankFields
<1> HIDE DEF s, b, package, adrs
<1>6. DOMAIN x = Fields /\ x.package = package /\ x.event = "BLOCK"
  BY <1>5 DEF Fields
<1> HIDE DEF x
<1>7. /\ DOMAIN completed = Fields /\ completed.package = package
      /\ completed.event = "ARCHITECTURE_COMPLETED"
      /\ DOMAIN required = Fields /\ required.package = adrs
      /\ required.event = "ADR_APPROVAL_REQUIRED"
  BY <1>6 DEF Fields
<1> HIDE DEF completed, required
<1>8. Adds(v, RunNextStage(v.events, event))
  BY <1>3, <1>4, <1>6, <1>7, StageAdds DEF Fields
<1> HIDE DEF event
<1>9. Adds(v, next)
  BY <1>8, OutcomesAdd
<1> HIDE DEF next
<1> QED
  BY <1>1, <1>9, PersistAdds, OutcomesAdd

LEMMA EvidencedFields ==
    ASSUME NEW v, NEW plan, NEW n
    PROVE  LET x == Evidenced(v, plan, n)
               arch == Outline[plan].arch
           IN  /\ DOMAIN x = Fields /\ x.event = "BLOCK"
               /\ x.source = Design[arch].source /\ x.arch = arch /\ x.plan = plan
               /\ x.package = EffectivePackage(v, Design[arch].source)
               /\ x.answers = CurrentAnswers(v, Design[arch].source)
               /\ x.approvals = CurrentApprovals(v, arch)
<1> DEFINE arch == Outline[plan].arch
           s == Design[arch].source
           b == Blank(v, s, n)
           x == Evidenced(v, plan, n)
<1>1. DOMAIN b = Fields /\ b.event = "BLOCK" /\ b.source = s
  BY BlankFields DEF Blank
<1>2. x = [b EXCEPT !.arch = arch, !.plan = plan, !.package = EffectivePackage(v, s),
                    !.answers = CurrentAnswers(v, s), !.approvals = CurrentApprovals(v, arch)]
  BY DEF Evidenced
<1> HIDE DEF arch, s, b, x
<1>3. /\ DOMAIN x = Fields /\ x.event = "BLOCK" /\ x.source = s
      /\ x.arch = arch /\ x.plan = plan /\ x.package = EffectivePackage(v, s)
      /\ x.answers = CurrentAnswers(v, s) /\ x.approvals = CurrentApprovals(v, arch)
  BY <1>1, <1>2 DEF Fields
<1> QED
  BY <1>3 DEF x, s, arch

LEMMA PlanTyped ==
    ASSUME NEW plan \in Plans
    PROVE  Outline[plan].arch \in Architectures /\ Design[Outline[plan].arch].source \in Sources
BY DocumentsAssumption DEF ArchitectureFacts, PlanFacts

LEMMA FinalizeAdds ==
    ASSUME NEW v, Typed(v), Grounded(v), NEW plan \in Plans, NEW n
    PROVE  Adds(v, FinalizeCall(v, plan, n))
<1> DEFINE x == Evidenced(v, plan, n)
           completed == [x EXCEPT !.event = "FINALIZATION_COMPLETED", !.state = "SPEC_AUDIT"]
           event == IF PlanComplete(x) THEN completed ELSE x
<1>1. FinalizeCall(v, plan, n) =
        Persist(v, Plan(Outline[plan].id), plan, RunNextStage(v.events, event))
  BY DEF FinalizeCall
<1>2. DOMAIN x = Fields /\ x.event = "BLOCK" /\ Answered(v, x.package)
  BY EvidencedFields, PlanTyped, AnsweredEffective
<1> HIDE DEF x
<1>3. /\ DOMAIN completed = Fields /\ completed.package = x.package
      /\ completed.event = "FINALIZATION_COMPLETED"
  BY <1>2 DEF Fields
<1> HIDE DEF completed
<1>4. Adds(v, RunNextStage(v.events, event))
  BY <1>2, <1>3, StageAdds DEF Fields
<1> HIDE DEF event
<1> QED
  BY <1>1, <1>4, PersistAdds

(* The audit passes over answers and approvals that are all there.         *)
LEMMA AuditAdds ==
    ASSUME NEW v, Typed(v), Grounded(v), v.rows \in [Identities -> Seq(Item)], NEW plan \in Plans, NEW n,
           HasStored(v, Arch, Outline[plan].arch), HasStored(v, AdrSet, Outline[plan].arch)
    PROVE  Adds(v, AuditCall(v, plan, n))
<1> DEFINE arch == Outline[plan].arch
           s == Design[arch].source
           x == Evidenced(v, plan, n)
           passed == [x EXCEPT !.event = "AUDIT_PASSED", !.state = "READY_FOR_ISSUES"]
           blocked == [x EXCEPT !.event = "AUDIT_BLOCKED"]
           audit == Audit(Outline[plan].id)
           content == AuditOf(x)
<1>1. AuditCall(v, plan, n) =
        IF ~HasStored(v, Plan(Outline[plan].id), plan) THEN Throw
        ELSE IF IsCurrent(v, audit, content)
             THEN RunNextStage(v.events, IF AuditReady(x) THEN passed ELSE blocked)
        ELSE IF v.rows[audit] = <<>> /\ v.rows[Plan(Outline[plan].id)][1] = plan
             THEN Put(audit, content)
        ELSE Throw
  BY DEF AuditCall
<1>2. /\ DOMAIN x = Fields /\ x.source = s /\ x.arch = arch /\ x.plan = plan
      /\ x.package = EffectivePackage(v, s)
      /\ x.answers = CurrentAnswers(v, s) /\ x.approvals = CurrentApprovals(v, arch)
  BY EvidencedFields
<1>3. arch \in Architectures /\ s \in Sources
  BY PlanTyped
<1>4. Answered(v, x.package)
  BY <1>2, <1>3, AnsweredEffective
<1>5. Adds(v, Put(audit, content))
  BY IdentitiesDiffer DEF Adds, Put
<1>6. content = [plan |-> x.plan, answers |-> x.answers,
                 approvals |-> x.approvals, passed |-> AuditReady(x)]
  BY DEF AuditOf
<1>7. AuditReady(x) \in BOOLEAN
  BY DEF AuditReady
<1> HIDE DEF x
<1>8. Adds(v, RunNextStage(v.events, blocked))
  <2>1. DOMAIN blocked = Fields /\ blocked.package = x.package
        /\ blocked.event = "AUDIT_BLOCKED"
    BY <1>2 DEF Fields
  <2> HIDE DEF blocked
  <2> QED
    BY <1>4, <2>1, StageAdds DEF Fields
<1>9. ASSUME AuditReady(x), HasStored(v, Plan(Outline[plan].id), plan),
             IsCurrent(v, audit, content)
      PROVE  Adds(v, RunNextStage(v.events, passed))
  <2>1. QuestionsOf[s] = {} \/ Decided(x)
    BY <1>2, <1>9 DEF AuditReady, PlanComplete, ArchitectureComplete
  <2>2. QuestionsOf[s] = {a.question : a \in CurrentAnswers(v, s)}
    BY <1>2, <1>3, <2>1, DecidedByAnswers DEF Decided
  <2>3. Design[arch].pending = Approved(x)
    <3>1. Design[arch].pending \subseteq Approved(x)
      BY <1>2, <1>9 DEF AuditReady, PlanComplete, ArchitectureComplete
    <3>2. ASSUME NEW b \in x.approvals
          PROVE  b.adr \in Design[arch].pending
      <4>1. b \in v.approvals /\ b.arch = arch
        BY <1>2 DEF CurrentApprovals, ApprovalsFor
      <4> QED
        BY <4>1 DEF Grounded, GoodApproval
    <3> QED
      BY <3>1, <3>2 DEF Approved
  <2>4. x.answers \subseteq v.answers /\ x.approvals \subseteq v.approvals
    BY <1>2 DEF CurrentAnswers, CurrentApprovals, ApprovalsFor
  <2>5. HasStored(v, audit, content)
    <3>1. v.rows[audit] \in Seq(Item)
      BY DocumentsAssumption DEF Identities, PlanFacts
    <3> QED
      BY <1>9, <3>1 DEF IsCurrent, HasStored, Latest, Range
  <2>6. content = [plan |-> x.plan, answers |-> x.answers,
                   approvals |-> x.approvals, passed |-> TRUE]
    BY <1>6, <1>7, <1>9
  <2> HIDE DEF content
  <2>7. Earned(v, x)
    BY <1>2, <1>3, <1>9, <2>2, <2>3, <2>4, <2>5, <2>6 DEF Earned
  <2>8. ASSUME NEW p
        PROVE  LET y == [passed EXCEPT !.package = p]
               IN  y.package = p /\ Earned(v, y)
    <3> DEFINE y == [passed EXCEPT !.package = p]
    <3>1. /\ y.answers = x.answers /\ y.approvals = x.approvals /\ y.arch = x.arch
          /\ y.plan = x.plan /\ y.source = x.source /\ y.package = p
      BY <1>2 DEF Fields
    <3> HIDE DEF y
    <3>2. Approved(y) = Approved(x)
      BY <3>1 DEF Approved
    <3>3. Earned(v, y)
      BY <2>7, <3>1, <3>2 DEF Earned
    <3> QED
      BY <3>1, <3>3 DEF y
  <2>9. passed.package = x.package /\ DOMAIN passed = Fields
    BY <1>2 DEF Fields
  <2>10. passed = [passed EXCEPT !.package = x.package]
    BY <2>9
  <2>11. Recorded(passed) \in {[passed EXCEPT !.package = x.package],
                               [passed EXCEPT !.package = None]}
    BY <2>10 DEF Recorded
  <2> HIDE DEF passed
  <2>12. Answered(v, Recorded(passed).package) /\ Earned(v, Recorded(passed))
    BY <1>4, <2>8, <2>11, AnsweredNone
  <2>13. RunNextStage(v.events, passed) \in
           {[op |-> "emit", event |-> Recorded(passed)], Throw}
    BY DEF RunNextStage
  <2> QED
    BY <2>12, <2>13 DEF Adds, Throw
<1> HIDE DEF passed, blocked, content, audit
<1> QED
  BY <1>1, <1>5, <1>8, <1>9, OutcomesAdd

LEMMA PrepareAdds ==
    ASSUME NEW v, Typed(v), Grounded(v), v.rows \in [Identities -> Seq(Item)],
           NEW kind, NEW n \in 1..Len(Inputs)
    PROVE  Adds(v, PrepareCall(v, kind, n))
<1> DEFINE plan == Inputs[n]
           arch == Outline[plan].arch
<1>1. plan \in Plans
  BY InputAssumption
<1>2. arch \in Architectures
  BY <1>1, PlanTyped
<1>3. \/ PrepareCall(v, kind, n) \in
           {AnalyzeCall(v, Design[arch].source, n), ArchitectureCall(v, arch, n),
            FinalizeCall(v, plan, n), Return, Throw}
      \/ /\ PrepareCall(v, kind, n) = AuditCall(v, plan, n)
         /\ HasStored(v, Arch, arch) /\ HasStored(v, AdrSet, arch)
  BY DEF PrepareCall
<1> QED
  BY <1>1, <1>2, <1>3, AnalyzeAdds, ArchitectureAdds, FinalizeAdds, AuditAdds, OutcomesAdd

LEMMA RecoverAdds ==
    ASSUME NEW v, NEW n
    PROVE  Adds(v, RecoverCall(v, n))
<1> DEFINE s == SourceOf(Inputs[n])
           target == RecoveryState(v.events)
           b == Blank(v, s, n)
           e == IF StateOf(v.events, s) = "BLOCKED" THEN "RESUME" ELSE "RETRY"
           x == [b EXCEPT !.event = e, !.state = target, !.resume = target]
<1>1. RecoverCall(v, n) \in {RunNextStage(v.events, x), Throw}
  BY DEF RecoverCall
<1>2. DOMAIN b = Fields /\ b.package = None
  BY BlankFields
<1>3. e # "AUDIT_PASSED"
  OBVIOUS
<1> HIDE DEF b, e, target
<1>4. DOMAIN x = Fields /\ x.package = None /\ x.event = e
  BY <1>2 DEF Fields
<1> HIDE DEF x
<1> QED
  BY <1>1, <1>3, <1>4, StageAdds, AnsweredNone, OutcomesAdd DEF Fields

LEMMA AnswerAdds ==
    ASSUME NEW v, Typed(v), Grounded(v), NEW q \in Questions, NEW r \in Records
    PROVE  Adds(v, AnswerCall(v, q, r))
<1> DEFINE p == PackageOf(v.events)
           row == AnswerRow(v, q, r)
<1>1. CASE AnswerCall(v, q, r) \in {Return, Throw}
  BY <1>1, OutcomesAdd
<1>2. CASE /\ AnswerCall(v, q, r) = Put(AnswersTo(q), row)
           /\ q \in QuestionsOf[p.source]
  <2>1. row.question = q /\ row.base = p
    BY DEF AnswerRow
  <2>2. GoodAnswer(v, row)
    BY <1>2, <2>1 DEF Grounded, GoodAnswer
  <2> HIDE DEF row
  <2> QED
    BY <1>2, <2>2, IdentitiesDiffer DEF Adds, Put
<1>3. \/ AnswerCall(v, q, r) \in {Return, Throw}
      \/ /\ AnswerCall(v, q, r) = Put(AnswersTo(q), row)
         /\ q \in QuestionsOf[p.source]
  BY DEF AnswerCall
<1> QED
  BY <1>1, <1>2, <1>3

LEMMA SettleAdds ==
    ASSUME NEW v, Typed(v), Grounded(v), NEW r, IsDecision(PackageOf(v.events))
    PROVE  Adds(v, SettleCall(v, r))
<1> DEFINE p == PackageOf(v.events)
           b == Blank(v, Latest(v.events).source, r)
           x == [b EXCEPT !.answers = AnswersFor(v, p)]
           started == [x EXCEPT !.event = "DECISION_STARTED", !.state = "USER_DECISION",
                                !.package = p]
           resolved == [x EXCEPT !.event = "DECISIONS_RESOLVED",
                                 !.state = "ARCHITECTURE_PENDING", !.package = Reduced(v, p)]
<1>1. SettleCall(v, r) \in {RunNextStage(v.events, started),
                            RunNextStage(v.events, resolved), Return}
  BY DEF SettleCall
<1>2. Answered(v, p) /\ Answered(v, Reduced(v, p))
  BY AnsweredReduced DEF Grounded, IsDecision
<1>3. DOMAIN b = Fields
  BY BlankFields
<1> HIDE DEF p, b
<1>4. DOMAIN x = Fields
  BY <1>3
<1> HIDE DEF x
<1>5. /\ DOMAIN started = Fields /\ started.event = "DECISION_STARTED" /\ started.package = p
      /\ DOMAIN resolved = Fields /\ resolved.event = "DECISIONS_RESOLVED"
      /\ resolved.package = Reduced(v, p)
  BY <1>4 DEF Fields
<1> HIDE DEF started, resolved
<1> QED
  BY <1>1, <1>2, <1>5, StageAdds, OutcomesAdd DEF Fields

LEMMA ApproveAdds ==
    ASSUME NEW v, NEW a, NEW r
    PROVE  Adds(v, ApproveCall(v, a, r))
<1> DEFINE p == PackageOf(v.events)
           row == [adr |-> a, arch |-> p.arch, record |-> r, at |-> Len(v.events)]
<1>1. \/ ApproveCall(v, a, r) \in {Return, Throw}
      \/ /\ ApproveCall(v, a, r) = Put(ApprovalsOf(a), row)
         /\ a \in Design[p.arch].pending
  BY DEF ApproveCall
<1>2. a \in Design[p.arch].pending => GoodApproval(row)
  BY DEF GoodApproval
<1> HIDE DEF row
<1> QED
  BY <1>1, <1>2, OutcomesAdd, IdentitiesDiffer DEF Adds, Put

LEMMA ConfirmAdds ==
    ASSUME NEW v, NEW r, IsAdr(PackageOf(v.events))
    PROVE  Adds(v, ConfirmCall(v, r))
<1> DEFINE p == PackageOf(v.events)
           b == Blank(v, Latest(v.events).source, r)
           given == ApprovalsFor(v, p.arch)
           x == [b EXCEPT
                   !.event = "ADR_APPROVED", !.state = "PM_FINALIZATION",
                   !.package = p, !.arch = p.arch, !.approvals = given]
<1>1. ConfirmCall(v, r) \in {RunNextStage(v.events, x), Return, Throw}
  BY DEF ConfirmCall
<1>2. Answered(v, p)
  BY PackageKinds DEF Answered
<1>3. DOMAIN b = Fields
  BY BlankFields
<1> HIDE DEF p, b, given
<1>4. DOMAIN x = Fields /\ x.event = "ADR_APPROVED" /\ x.package = p
  BY <1>3 DEF Fields
<1> HIDE DEF x
<1> QED
  BY <1>1, <1>2, <1>4, StageAdds, OutcomesAdd DEF Fields

LEMMA ReportAdds ==
    ASSUME NEW v, NEW e \in Reports
    PROVE  Adds(v, ReportCall(v, e))
<1> DEFINE last == Latest(v.events)
           b == Blank(v, last.source, 0)
           target == (CHOOSE d \in Stops : d[1] = e)[2]
           before == IF e = "BLOCK" THEN None ELSE last.state
           x == [b EXCEPT !.event = e, !.state = target, !.resume = before]
<1>1. ReportCall(v, e) \in {RunNextStage(v.events, x), Throw}
  BY DEF ReportCall
<1>2. DOMAIN b = Fields /\ b.package = None
  BY BlankFields
<1>3. e # "AUDIT_PASSED"
  BY AuthorityAssumption
<1> HIDE DEF b, target, before
<1>4. DOMAIN x = Fields /\ x.package = None /\ x.event = e
  BY <1>2 DEF Fields
<1> HIDE DEF x
<1> QED
  BY <1>1, <1>3, <1>4, StageAdds, AnsweredNone, OutcomesAdd DEF Fields

LEMMA CallAdds ==
    ASSUME NEW v, Typed(v), Grounded(v), v.rows \in [Identities -> Seq(Item)],
           NEW j \in Job, JobProper(j, v.events)
    PROVE  Adds(v, Call(v, j))
<1>1. CASE j.kind \in {"analyze", "prepare"}
  BY <1>1, PrepareAdds DEF Call, JobProper
<1>2. CASE j.kind = "recover"
  BY <1>2, RecoverAdds DEF Call
<1>3. CASE j.kind = "answer"
  BY <1>3, AnswerAdds DEF Call, JobProper
<1>4. CASE j.kind = "settle"
  BY <1>4, SettleAdds DEF Call, JobProper
<1>5. CASE j.kind = "approve"
  BY <1>5, ApproveAdds DEF Call
<1>6. CASE j.kind = "confirm"
  BY <1>6, ConfirmAdds DEF Call, JobProper
<1>7. CASE j.kind = "report"
  BY <1>7, ReportAdds DEF Call, JobProper
<1>8. CASE j.kind \in {"idle", "return"}
  <2>1. Call(v, j) = Return
    BY <1>8 DEF Call
  <2> QED
    BY <2>1, OutcomesAdd
<1> QED
  BY <1>1, <1>2, <1>3, <1>4, <1>5, <1>6, <1>7, <1>8 DEF Job, Kinds

-----------------------------------------------------------------------------
(* Documents that grow *)

(* All that is in v is in w, and an event of v may still be the latest.    *)
Within(v, w) ==
    /\ v.answers \subseteq w.answers /\ v.approvals \subseteq w.approvals
    /\ \A d \in Identities : Range(v.rows[d]) \subseteq Range(w.rows[d])

LEMMA AnsweredWithin ==
    ASSUME NEW v, NEW w, Within(v, w), NEW p, Answered(v, p)
    PROVE  Answered(w, p)
BY DEF Within, Answered

LEMMA EarnedWithin ==
    ASSUME NEW v, NEW w, Within(v, w), NEW x, Earned(v, x)
    PROVE  Earned(w, x)
<1>1. x.plan \in Plans
  BY DEF Earned
<1>2. {Arch, AdrSet, Plan(Outline[x.plan].id), Audit(Outline[x.plan].id)} \subseteq Identities
  BY <1>1, DocumentsAssumption DEF Identities, PlanFacts
<1> QED
  BY <1>2 DEF Within, Earned, HasStored

LEMMA AddsWithin ==
    ASSUME NEW v, NEW w, Within(v, w), NEW call, Adds(v, call)
    PROVE  Adds(w, call)
BY AnsweredWithin, EarnedWithin DEF Adds, GoodAnswer, GoodApproval

LEMMA RangeOfAppend ==
    ASSUME NEW S, NEW s \in Seq(S), NEW i \in S
    PROVE  Range(Append(s, i)) = Range(s) \union {i}
<1> DEFINE t == Append(s, i)
<1>1. /\ DOMAIN t = 1..(Len(s) + 1) /\ DOMAIN s = 1..Len(s) /\ Len(s) \in Nat
      /\ t[Len(s) + 1] = i /\ \A k \in 1..Len(s) : t[k] = s[k]
  OBVIOUS
<1> HIDE DEF t
<1>2. Range(t) = Range(s) \union {i}
  BY <1>1 DEF Range
<1> QED
  BY <1>2 DEF t

LEMMA RangeOfPrefix ==
    ASSUME NEW S, NEW s \in Seq(S), NEW n \in 0..Len(s)
    PROVE  Range(SubSeq(s, 1, n)) \subseteq Range(s)
BY DEF Range

(* An append that the store accepts is the next of what its writer knows,  *)
(* and leaves alone what others know.                                      *)
GrowsPrefix(s, n, i) ==
    /\ Grown(s, n, i) \in {s, Append(s, i)}
    /\ SubSeq(Grown(s, n, i), 1, n + 1) = Append(SubSeq(s, 1, n), i)
    /\ \A m \in 0..Len(s) : SubSeq(Grown(s, n, i), 1, m) = SubSeq(s, 1, m)

LEMMA GrownPrefix ==
    ASSUME NEW S, NEW s \in Seq(S), NEW i \in S, NEW n \in 0..Len(s), Accepted(s, n, i)
    PROVE  GrowsPrefix(s, n, i)
<1>1. CASE Len(s) = n
  BY <1>1 DEF Grown, GrowsPrefix
<1>2. CASE Len(s) # n
  BY <1>2 DEF Grown, Accepted, GrowsPrefix
<1> QED
  BY <1>1, <1>2

LEMMA StoresWithin ==
    ASSUME NEW log, NEW new, NEW store, NEW grown,
           \A d \in Identities : Range(store[d]) \subseteq Range(grown[d])
    PROVE  Within(Documents(log, store), Documents(new, grown))
<1>1. \A q \in Questions : AnswersTo(q) \in Identities
  BY DEF Identities
<1>2. \A a \in Adrs : ApprovalsOf(a) \in Identities
  BY DEF Identities
<1> QED
  BY <1>1, <1>2 DEF Within, Documents

LEMMA PutGrounded ==
    ASSUME NEW log, NEW store \in [Identities -> Seq(Item)],
           NEW call, call.op = "put", call.identity \in Identities, call.item \in Item,
           Grounded(Documents(log, store)), Adds(Documents(log, store), call)
    PROVE  Grounded(Documents(log,
                      [store EXCEPT ![call.identity] = Append(@, call.item)]))
<1> DEFINE d == call.identity
           i == call.item
           grown == [store EXCEPT ![d] = Append(@, i)]
           v == Documents(log, store)
           w == Documents(log, grown)
<1>1. \A e \in Identities : Range(grown[e]) = IF e = d THEN Range(store[e]) \union {i}
                                              ELSE Range(store[e])
  <2>1. d \in Identities /\ i \in Item /\ store[d] \in Seq(Item)
    OBVIOUS
  <2>2. Range(Append(store[d], i)) = Range(store[d]) \union {i}
    BY <2>1, RangeOfAppend
  <2>3. grown[d] = Append(store[d], i) /\ \A e \in Identities : e # d => grown[e] = store[e]
    BY <2>1
  <2> HIDE DEF grown, d, i
  <2> QED
    BY <2>2, <2>3
<1>2. /\ v.events = log /\ w.events = log
      /\ v.answers = UNION {Range(store[AnswersTo(q)]) : q \in Questions}
      /\ w.answers = UNION {Range(grown[AnswersTo(q)]) : q \in Questions}
      /\ v.approvals = UNION {Range(store[ApprovalsOf(a)]) : a \in Adrs}
      /\ w.approvals = UNION {Range(grown[ApprovalsOf(a)]) : a \in Adrs}
  BY DEF Documents
<1>3. /\ \A q \in Questions : AnswersTo(q) \in Identities
      /\ \A a \in Adrs : ApprovalsOf(a) \in Identities
  BY DEF Identities
<1>4. Within(v, w)
  BY <1>1, StoresWithin
<1> HIDE DEF grown, v, w
<1>5. ASSUME NEW a \in w.answers PROVE GoodAnswer(w, a)
  <2>1. GoodAnswer(v, a)
    <3>1. PICK q \in Questions : a \in Range(grown[AnswersTo(q)])
      BY <1>2, <1>5
    <3>2. CASE a \in Range(store[AnswersTo(q)])
      <4>1. a \in v.answers
        BY <1>2, <3>2
      <4> QED
        BY <4>1 DEF Grounded, v
    <3>3. CASE AnswersTo(q) = d /\ a = i
      BY <3>3 DEF Adds, v
    <3> QED
      BY <1>1, <1>3, <3>1, <3>2, <3>3
  <2> QED
    BY <1>4, <2>1, AnsweredWithin DEF GoodAnswer
<1>6. ASSUME NEW b \in w.approvals PROVE GoodApproval(b)
  <2>1. PICK a \in Adrs : b \in Range(grown[ApprovalsOf(a)])
    BY <1>2, <1>6
  <2>2. CASE b \in Range(store[ApprovalsOf(a)])
    BY <1>2, <2>2 DEF Grounded, v
  <2>3. CASE ApprovalsOf(a) = d /\ b = i
    BY <2>3 DEF Adds, v
  <2> QED
    BY <1>1, <1>3, <2>1, <2>2, <2>3
<1>7. Answered(w, PackageOf(w.events))
  BY <1>2, <1>4, AnsweredWithin DEF Grounded, v
<1>8. Grounded(w)
  BY <1>5, <1>6, <1>7 DEF Grounded
<1> QED
  BY <1>8 DEF w, grown

LEMMA EmitGrounded ==
    ASSUME NEW log \in Seq(Event), NEW store, NEW x \in Event,
           Grounded(Documents(log, store)), Answered(Documents(log, store), x.package)
    PROVE  Grounded(Documents(Append(log, x), store))
<1> DEFINE v == Documents(log, store)
           w == Documents(Append(log, x), store)
<1>1. /\ w.events = Append(log, x)
      /\ w.answers = v.answers /\ w.approvals = v.approvals
  BY DEF Documents
<1>2. PackageOf(Append(log, x)) = x.package
  BY PackageOfAppend
<1>3. Grounded(v) /\ Answered(v, x.package)
  OBVIOUS
<1> HIDE DEF v, w
<1>4. Grounded(w)
  BY <1>1, <1>2, <1>3 DEF Grounded, GoodAnswer, Answered
<1> QED
  BY <1>4 DEF w

-----------------------------------------------------------------------------
(* The steps of the commands *)

(* What the command of c knows of the documents                            *)
Held(c) == [d \in Identities |-> SubSeq(rows[d], 1, catalog[c].rows[d])]

Earns ==
    /\ Grounded(Store)
    /\ \A c \in Clients : Grounded(View(catalog[c]))
    /\ \A i \in 1..Len(events) : events[i].event = "AUDIT_PASSED" => Earned(Store, events[i])

LEMMA ViewOf ==
    ASSUME Consistent, NEW c \in Clients
    PROVE  /\ View(catalog[c]) = Documents(Known(c), Held(c))
           /\ Known(c) \in Seq(Event) /\ Held(c) \in [Identities -> Seq(Item)]
           /\ \A d \in Identities : Range(Held(c)[d]) \subseteq Range(rows[d])
           /\ Within(View(catalog[c]), Store)
           /\ View(catalog[c]).rows \in [Identities -> Seq(Item)]
<1>1. View(catalog[c]) = Documents(Known(c), Held(c))
  BY DEF View, Known, Held
<1>2. Known(c) \in Seq(Event)
  BY ViewTyped DEF Typed
<1>3. ASSUME NEW d \in Identities
      PROVE  /\ SubSeq(rows[d], 1, catalog[c].rows[d]) \in Seq(Item)
             /\ Range(SubSeq(rows[d], 1, catalog[c].rows[d])) \subseteq Range(rows[d])
  <2>1. rows[d] \in Seq(Item) /\ catalog[c].rows[d] \in 0..Len(rows[d])
    BY DEF Consistent, TypeOK, CommandsProper, Catalog
  <2>2. SubSeq(rows[d], 1, catalog[c].rows[d]) \in Seq(Item)
    BY <2>1
  <2> QED
    BY <2>1, <2>2, RangeOfPrefix
<1>4. /\ Held(c) \in [Identities -> Seq(Item)]
      /\ \A d \in Identities : Range(Held(c)[d]) \subseteq Range(rows[d])
  BY <1>3 DEF Held
<1>5. Within(View(catalog[c]), Store)
  BY <1>1, <1>4, StoresWithin DEF Store
<1>6. View(catalog[c]).rows = Held(c)
  BY <1>1 DEF Documents
<1> QED
  BY <1>1, <1>2, <1>4, <1>5, <1>6

LEMMA NextCallAdds ==
    ASSUME Consistent, Earns, NEW c \in Clients, NEW call \in NextCall(c)
    PROVE  Adds(View(catalog[c]), call) /\ Adds(Store, call)
<1>1. call = Call(View(catalog[c]), job[c]) /\ job[c] \in Job
  BY DEF NextCall, Consistent, TypeOK
<1>2. /\ Typed(View(catalog[c])) /\ Grounded(View(catalog[c]))
      /\ JobProper(job[c], View(catalog[c]).events)
  BY ViewTyped DEF Consistent, CommandsProper, Earns
<1>3. View(catalog[c]).rows \in [Identities -> Seq(Item)] /\ Within(View(catalog[c]), Store)
  BY ViewOf
<1>4. Adds(View(catalog[c]), call)
  BY <1>1, <1>2, <1>3, CallAdds
<1> QED
  BY <1>3, <1>4, AddsWithin

LEMMA ArtifactEarns ==
    ASSUME Consistent, Earns, NEW c \in Clients, NEW call \in NextCall(c),
           AppendArtifact(c, call)
    PROVE  Earns'
<1> DEFINE d == call.identity
           i == call.item
           n == catalog[c].rows[d]
<1>1. /\ call.op = "put" /\ d \in Identities /\ i \in Item
      /\ Accepted(rows[d], n, i)
      /\ rows' = [rows EXCEPT ![d] = Grown(@, n, i)]
      /\ catalog' = [catalog EXCEPT ![c].rows[d] = n + 1]
      /\ events' = events
  BY NextCallProper DEF AppendArtifact, Proper, ProperPut
<1>2. Adds(View(catalog[c]), call) /\ Adds(Store, call)
  BY NextCallAdds
<1>3. rows \in [Identities -> Seq(Item)] /\ catalog \in [Clients -> Catalog]
  BY DEF Consistent, TypeOK
<1>4. \A b \in Clients : catalog[b].rows \in [Identities -> Nat]
                         /\ \A e \in Identities : catalog[b].rows[e] \in 0..Len(rows[e])
  BY <1>3 DEF Consistent, CommandsProper, Catalog
<1>5. /\ Grown(rows[d], n, i) \in {rows[d], Append(rows[d], i)}
      /\ SubSeq(Grown(rows[d], n, i), 1, n + 1) = Append(SubSeq(rows[d], 1, n), i)
      /\ \A m \in 0..Len(rows[d]) : SubSeq(Grown(rows[d], n, i), 1, m) = SubSeq(rows[d], 1, m)
  <2>1. rows[d] \in Seq(Item) /\ n \in 0..Len(rows[d])
    BY <1>1, <1>3, <1>4
  <2> HIDE DEF d, i, n
  <2>2. GrowsPrefix(rows[d], n, i)
    BY <1>1, <2>1, GrownPrefix
  <2> QED
    BY <2>2 DEF GrowsPrefix
<1>6. rows'[d] = Grown(rows[d], n, i) /\ \A e \in Identities : e # d => rows'[e] = rows[e]
  BY <1>1, <1>3
<1>7. /\ catalog'[c].events = catalog[c].events
      /\ catalog'[c].rows = [catalog[c].rows EXCEPT ![d] = n + 1]
      /\ \A b \in Clients : b # c => catalog'[b] = catalog[b]
  BY <1>1, <1>3, <1>4 DEF Catalog
<1> HIDE DEF d, i, n
(* The store has grown by the item, or had it already.                     *)
<1>8. Grounded(Store')
  <2>1. CASE rows' = rows
    <3>1. Store' = Store
      BY <1>1, <2>1 DEF Store
    <3> QED
      BY <3>1 DEF Earns
  <2>2. CASE rows' = [rows EXCEPT ![d] = Append(@, i)]
    <3>1. Store' = Documents(events, [rows EXCEPT ![d] = Append(@, i)])
      BY <1>1, <2>2 DEF Store
    <3>2. Grounded(Documents(events, rows)) /\ Adds(Documents(events, rows), call)
      BY <1>2 DEF Earns, Store
    <3> QED
      BY <1>1, <1>3, <3>1, <3>2, PutGrounded DEF d, i
  <2> QED
    BY <1>1, <1>3, <1>5, <2>1, <2>2
<1>9. Within(Store, Store')
  <2>1. \A e \in Identities : Range(rows[e]) \subseteq Range(rows'[e])
    <3>1. rows[d] \in Seq(Item)
      BY <1>1, <1>3
    <3>2. Range(Append(rows[d], i)) = Range(rows[d]) \union {i}
      BY <1>1, <3>1, RangeOfAppend
    <3> QED
      BY <1>5, <1>6, <3>2
  <2>2. Store' = Documents(events, rows')
    BY <1>1 DEF Store
  <2> QED
    BY <2>1, <2>2, StoresWithin DEF Store
<1>10. Grounded(View(catalog[c])')
  <2>1. Known(c)' = Known(c)
    BY <1>1, <1>7 DEF Known
  <2>2. Held(c)' = [Held(c) EXCEPT ![d] = Append(@, i)]
    <3>1. ASSUME NEW e \in Identities
          PROVE  SubSeq(rows'[e], 1, catalog'[c].rows[e]) =
                   IF e = d THEN Append(SubSeq(rows[d], 1, n), i)
                            ELSE SubSeq(rows[e], 1, catalog[c].rows[e])
      <4>1. CASE e = d
        <5>1. catalog'[c].rows[d] = n + 1
          BY <1>1, <1>4, <1>7
        <5> QED
          BY <1>5, <1>6, <4>1, <5>1
      <4>2. CASE e # d
        <5>1. catalog'[c].rows[e] = catalog[c].rows[e]
          BY <1>1, <1>4, <1>7, <4>2
        <5> QED
          BY <1>6, <4>2, <5>1
      <4> QED
        BY <4>1, <4>2
    <3> QED
      BY <1>1, <3>1 DEF Held, n
  <2>3. View(catalog[c])' = Documents(Known(c)', Held(c)')
    BY DEF View, Known, Held
  <2>4. /\ View(catalog[c]) = Documents(Known(c), Held(c))
        /\ Held(c) \in [Identities -> Seq(Item)]
    BY ViewOf
  <2>5. /\ Grounded(Documents(Known(c), Held(c)))
        /\ Adds(Documents(Known(c), Held(c)), call)
    BY <1>2, <2>4 DEF Earns
  <2>6. Grounded(Documents(Known(c), [Held(c) EXCEPT ![d] = Append(@, i)]))
    BY <1>1, <2>4, <2>5, PutGrounded DEF d, i
  <2> QED
    BY <2>1, <2>2, <2>3, <2>6
<1>11. ASSUME NEW b \in Clients, b # c PROVE View(catalog[b])' = View(catalog[b])
  <2>1. Known(b)' = Known(b)
    BY <1>1, <1>7, <1>11 DEF Known
  <2>2. Held(b)' = Held(b)
    <3>1. ASSUME NEW e \in Identities
          PROVE  SubSeq(rows'[e], 1, catalog'[b].rows[e]) = SubSeq(rows[e], 1, catalog[b].rows[e])
      BY <1>4, <1>5, <1>6, <1>7, <1>11
    <3> QED
      BY <3>1 DEF Held
  <2> QED
    BY <2>1, <2>2 DEF View, Known, Held
<1>12. \A b \in Clients : Grounded(View(catalog[b])')
  BY <1>10, <1>11 DEF Earns
<1>13. \A k \in 1..Len(events) : events[k].event = "AUDIT_PASSED" => Earned(Store', events[k])
  BY <1>9, EarnedWithin DEF Earns
<1> QED
  BY <1>1, <1>8, <1>12, <1>13 DEF Earns

LEMMA EventEarns ==
    ASSUME Consistent, Earns, NEW c \in Clients, NEW call \in NextCall(c),
           AppendEvent(c, call)
    PROVE  Earns'
<1> DEFINE x == call.event
           n == catalog[c].events
<1>1. /\ call.op = "emit" /\ x \in Event
      /\ Accepted(events, n, x)
      /\ events' = Grown(events, n, x)
      /\ catalog' = [catalog EXCEPT ![c].events = n + 1]
      /\ rows' = rows
  BY NextCallProper DEF AppendEvent, Proper, ProperEvent
<1>2. /\ Answered(View(catalog[c]), x.package) /\ Answered(Store, x.package)
      /\ x.event = "AUDIT_PASSED" => Earned(Store, x)
  BY <1>1, NextCallAdds DEF Adds
<1>3. events \in Seq(Event) /\ catalog \in [Clients -> Catalog]
  BY DEF Consistent, TypeOK
<1>4. \A b \in Clients : catalog[b].events \in 0..Len(events)
  BY <1>3 DEF Consistent, CommandsProper, Catalog
<1> HIDE DEF x, n
<1>5. /\ events' \in {events, Append(events, x)}
      /\ SubSeq(events', 1, n + 1) = Append(SubSeq(events, 1, n), x)
      /\ \A m \in 0..Len(events) : SubSeq(events', 1, m) = SubSeq(events, 1, m)
  <2>1. n \in 0..Len(events)
    BY <1>4 DEF n
  <2>2. GrowsPrefix(events, n, x)
    BY <1>1, <1>3, <2>1, GrownPrefix
  <2> QED
    BY <1>1, <2>2 DEF GrowsPrefix
<1>6. /\ catalog'[c].events = n + 1 /\ catalog'[c].rows = catalog[c].rows
      /\ \A b \in Clients : b # c => catalog'[b] = catalog[b]
  BY <1>1, <1>3 DEF Catalog
<1>7. /\ Store' = Documents(events', rows)
      /\ Store = Documents(events, rows)
      /\ Within(Store, Store')
  <2>1. Store' = Documents(events', rows) /\ Store = Documents(events, rows)
    BY <1>1 DEF Store
  <2> QED
    BY <2>1, StoresWithin
<1>8. Grounded(Store')
  <2>1. CASE events' = events
    BY <1>7, <2>1 DEF Earns
  <2>2. CASE events' = Append(events, x)
    <3>1. Grounded(Documents(events, rows)) /\ Answered(Documents(events, rows), x.package)
      BY <1>2, <1>7 DEF Earns
    <3> QED
      BY <1>1, <1>3, <1>7, <2>2, <3>1, EmitGrounded
  <2> QED
    BY <1>5, <2>1, <2>2
<1>9. Grounded(View(catalog[c])')
  <2>1. Known(c)' = Append(Known(c), x)
    BY <1>5, <1>6 DEF Known, n
  <2>2. Held(c)' = Held(c)
    BY <1>1, <1>6 DEF Held
  <2>3. View(catalog[c])' = Documents(Known(c)', Held(c)')
    BY DEF View, Known, Held
  <2>4. View(catalog[c]) = Documents(Known(c), Held(c)) /\ Known(c) \in Seq(Event)
    BY ViewOf
  <2>5. /\ Grounded(Documents(Known(c), Held(c)))
        /\ Answered(Documents(Known(c), Held(c)), x.package)
    BY <1>2, <2>4 DEF Earns
  <2>6. Grounded(Documents(Append(Known(c), x), Held(c)))
    BY <1>1, <2>4, <2>5, EmitGrounded
  <2> QED
    BY <2>1, <2>2, <2>3, <2>6
<1>10. ASSUME NEW b \in Clients, b # c PROVE View(catalog[b])' = View(catalog[b])
  <2>1. Known(b)' = Known(b)
    BY <1>4, <1>5, <1>6, <1>10 DEF Known
  <2>2. Held(b)' = Held(b)
    BY <1>1, <1>6, <1>10 DEF Held
  <2> QED
    BY <2>1, <2>2 DEF View, Known, Held
<1>11. \A b \in Clients : Grounded(View(catalog[b])')
  BY <1>9, <1>10 DEF Earns
<1>12. ASSUME NEW k \in 1..Len(events'), events'[k].event = "AUDIT_PASSED"
       PROVE  Earned(Store', events'[k])
  <2>1. Earned(Store, events'[k])
    <3>1. CASE events' = events
      BY <1>12, <3>1 DEF Earns
    <3>2. CASE events' = Append(events, x)
      <4>1. CASE k = Len(events) + 1
        BY <1>2, <1>3, <1>12, <3>2, <4>1
      <4>2. CASE k # Len(events) + 1
        <5>1. k \in 1..Len(events) /\ events'[k] = events[k]
          BY <1>3, <1>12, <3>2, <4>2
        <5> QED
          BY <1>12, <5>1 DEF Earns
      <4> QED
        BY <4>1, <4>2
    <3> QED
      BY <1>5, <3>1, <3>2
  <2> QED
    BY <1>7, <2>1, EarnedWithin
<1> QED
  BY <1>8, <1>11, <1>12 DEF Earns

LEMMA NothingGrounded == Grounded(View(Nothing))
<1> DEFINE v == View(Nothing)
<1>1. v.events = SubSeq(events, 1, 0)
  BY DEF View, Documents, Nothing
<1>2. ASSUME NEW d \in Identities PROVE v.rows[d] = SubSeq(rows[d], 1, 0)
  BY DEF View, Documents, Nothing
<1>3. \A s : SubSeq(s, 1, 0) = <<>>
  OBVIOUS
<1>4. Range(<<>>) = {}
  BY DEF Range
<1>5. v.answers = {} /\ v.approvals = {}
  <2>1. /\ v.answers = UNION {Range(v.rows[AnswersTo(q)]) : q \in Questions}
        /\ v.approvals = UNION {Range(v.rows[ApprovalsOf(a)]) : a \in Adrs}
    BY DEF View, Documents
  <2>2. /\ \A q \in Questions : AnswersTo(q) \in Identities
        /\ \A a \in Adrs : ApprovalsOf(a) \in Identities
    BY DEF Identities
  <2>3. \A d \in Identities : Range(v.rows[d]) = {}
    BY <1>2, <1>3, <1>4
  <2> HIDE DEF v
  <2> QED
    BY <2>1, <2>2, <2>3
<1>6. PackageOf(v.events) = None
  BY <1>1, <1>3 DEF PackageOf
<1> HIDE DEF v
<1>7. Grounded(v)
  BY <1>5, <1>6, AnsweredNone DEF Grounded
<1> QED
  BY <1>7 DEF v

LEMMA InitEarns == Init => Earns
<1> SUFFICES ASSUME Init PROVE Earns
  OBVIOUS
<1>1. /\ events = <<>> /\ rows = [d \in Identities |-> <<>>]
      /\ catalog = [c \in Clients |-> Nothing]
  BY DEF Init
<1>2. \A c \in Clients : Grounded(View(catalog[c]))
  BY <1>1, NothingGrounded
<1>3. Store.answers = {} /\ Store.approvals = {} /\ Store.events = <<>>
  <2>1. /\ Store.answers = UNION {Range(rows[AnswersTo(q)]) : q \in Questions}
        /\ Store.approvals = UNION {Range(rows[ApprovalsOf(a)]) : a \in Adrs}
        /\ Store.events = events
    BY DEF Store, Documents
  <2>2. /\ \A q \in Questions : AnswersTo(q) \in Identities
        /\ \A a \in Adrs : ApprovalsOf(a) \in Identities
    BY DEF Identities
  <2>3. Range(<<>>) = {}
    BY DEF Range
  <2> QED
    BY <1>1, <2>1, <2>2, <2>3
<1>4. Grounded(Store)
  BY <1>3, AnsweredNone DEF Grounded, PackageOf
<1> QED
  BY <1>1, <1>2, <1>4 DEF Earns

(* A command that begins knows the store, one that ends knows nothing.     *)
LEMMA CatalogEarns ==
    ASSUME Consistent, Earns, UNCHANGED <<events, rows>>, NEW c \in Clients,
           \/ catalog' = catalog
           \/ catalog' = [catalog EXCEPT ![c] = Nothing]
           \/ catalog' = [catalog EXCEPT ![c] = Snapshot]
    PROVE  Earns'
<1>1. events' = events /\ rows' = rows
  OBVIOUS
<1>2. Store' = Store
  BY <1>1 DEF Store
<1>3. \A m : Documents(SubSeq(events', 1, m.events),
                       [d \in Identities |-> SubSeq(rows'[d], 1, m.rows[d])]) = View(m)
  BY <1>1 DEF View
<1>4. View(Snapshot) = Store
  <2>1. SubSeq(events, 1, Len(events)) = events
    BY WholePrefix DEF Consistent, TypeOK
  <2>2. /\ rows \in [Identities -> Seq(Item)]
        /\ \A d \in Identities : SubSeq(rows[d], 1, Len(rows[d])) = rows[d]
    BY DEF Consistent, TypeOK
  <2>3. [d \in Identities |-> SubSeq(rows[d], 1, Len(rows[d]))] = rows
    BY <2>2
  <2> QED
    BY <2>1, <2>3 DEF View, Snapshot, Store
<1>5. ASSUME NEW b \in Clients PROVE Grounded(View(catalog[b])')
  <2>1. View(catalog[b])' = View(catalog'[b])
    BY <1>1 DEF View
  <2>2. catalog'[b] \in {catalog[b], Nothing, Snapshot}
    BY DEF Consistent, TypeOK
  <2>3. Grounded(View(catalog'[b]))
    BY <1>4, <2>2, NothingGrounded DEF Earns
  <2> QED
    BY <2>1, <2>3
<1>6. \A k \in 1..Len(events') : events'[k].event = "AUDIT_PASSED" => Earned(Store', events'[k])
  BY <1>1, <1>2 DEF Earns
<1> QED
  BY <1>2, <1>5, <1>6 DEF Earns

LEMMA NextEarns ==
    ASSUME Consistent, Earns, [Next]_vars
    PROVE  Earns'
<1>1. CASE \E c \in Clients : Step(c)
  <2>0. PICK c \in Clients : Step(c)
    BY <1>1
  <2>1. PICK call \in NextCall(c) :
           \/ AppendArtifact(c, call) \/ AppendEvent(c, call)
           \/ ReturnResult(c, call) \/ Fail(c, call)
    BY <2>0 DEF Step
  <2>2. CASE ReturnResult(c, call) \/ Fail(c, call)
    BY <2>2, CatalogEarns DEF ReturnResult, Fail, End
  <2> QED
    BY <2>1, <2>2, ArtifactEarns, EventEarns
<1>2. CASE \E c \in Clients : Interrupt(c)
  BY <1>2, CatalogEarns DEF Interrupt, End
<1>3. CASE \E c \in Clients : Command(c)
  BY <1>3, CatalogEarns DEF Command, Proceed, BeginPrepare, BeginResume, BeginAnswer,
     BeginApprove, BeginAnalyze, BeginReport, Begin
<1>4. CASE Create \/ UNCHANGED vars
  <2>1. UNCHANGED <<events, rows, catalog>>
    BY <1>4 DEF Create, vars
  <2>2. /\ Store' = Store
        /\ \A c \in Clients : View(catalog[c])' = View(catalog[c])
    BY <2>1 DEF Store, View
  <2> QED
    BY <2>1, <2>2 DEF Earns
<1> QED
  BY <1>1, <1>2, <1>3, <1>4 DEF Next

(* A source becomes ready for issues only over answers to all of its       *)
(* questions and approvals of all of its pending ADRs, which are stored    *)
(* with the architecture, the plan and the audit that the event names      *)
(* (prepareProject in commands/project.js and transition in                *)
(* pipeline/state-machine.js), whatever runs beside the command.           *)
THEOREM ReadyEarned == Spec => []ReadyIsEarned
<1>1. Earns => ReadyIsEarned
  <2> SUFFICES ASSUME Earns, NEW i \in 1..Len(events), events[i].event = "AUDIT_PASSED"
               PROVE  LET x == events[i]
                      IN  /\ InputsStored(x)
                          /\ QuestionsOf[x.source] = {a.question : a \in x.answers}
                          /\ Design[x.arch].pending = Approved(x)
                          /\ \E a \in Range(rows[Audit(Outline[x.plan].id)]) :
                               a = [plan |-> x.plan, answers |-> x.answers,
                                    approvals |-> x.approvals, passed |-> TRUE]
    BY DEF ReadyIsEarned
  <2>1. Earned(Store, events[i])
    BY DEF Earns
  <2>2. Store.rows = rows
    BY DEF Store, Documents
  <2> QED
    BY <2>1, <2>2 DEF Earned, InputsStored, HasStored
<1> QED
  BY <1>1, InitConsistent, NextConsistent, InitEarns, NextEarns, PTL DEF Spec
=============================================================================
