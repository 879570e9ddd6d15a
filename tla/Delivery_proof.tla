--------------------------- MODULE Delivery_proof ---------------------------
(***************************************************************************)
(* Proofs about Delivery, for any questions, documents, actors and         *)
(* signatures: the decision gate is earned, the evidence is handed on,     *)
(* what is called ready can be delivered, and the validators agree.        *)
(*                                                                         *)
(* Along the way to a decision gate the latest transition holds the        *)
(* package of the questions as the PM analysis asked them (PackageIsOpen). *)
(* A stored answer resolves a blocking question only with what somebody of *)
(* the right role has signed for it (RowsEarned), because the package that *)
(* the answer leads to has to build.  So when the gate opens, every        *)
(* blocking question is in such an answer.  Rows are never taken back.     *)
(*                                                                         *)
(* Beyond the gate the latest transition registers what the store holds    *)
(* (HandedOn), which needs the order in which answers, approvals and       *)
(* designs may come (PackageBeyond, ApprovalsInOrder); what is ready was   *)
(* audited over what is stored (AuditHandedOn) and stays as it was judged  *)
(* (VerdictStands).  About the documents: Acyclic and Downstream are       *)
(* recursive functions, so what they compute is shown by induction over a  *)
(* set of naturals, whose complement would have a least element            *)
(* (Induction); a graph is acyclic exactly when its nodes can be ranked    *)
(* along the edges (AcyclicIsRankable).                                    *)
(***************************************************************************)
EXTENDS Delivery, FiniteSetTheorems, WellFoundedInduction, TLAPS

Early == {"ANALYZING", "QUESTIONS_PENDING", "USER_DECISION"}

IsRecord(e) ==
    e = [state |-> e.state, before |-> e.before, package |-> e.package,
         pending |-> e.pending, answers |-> e.answers, approvals |-> e.approvals,
         plan |-> e.plan]

(* A blocking question of a stored answer was answered by the right role.  *)
RowsEarned ==
    \A r \in rows : \A q \in DOMAIN r.given :
        Facts[q].severity <= 2 => Earned(q, r.given[q])

Typed(package) == package = None \/ DOMAIN package \subseteq Questions

RowsTyped ==
    \A r \in rows : DOMAIN r.given \subseteq Questions /\ DOMAIN r.base \subseteq Questions

(* No record of an authority serves two questions (HistoryReplays).        *)
RecordsOnce ==
    \A r, s \in rows : \A q \in Questions \intersect DOMAIN r.given,
                       t \in Questions \intersect DOMAIN s.given :
        r.given[q].record = s.given[t].record => r = s /\ q = t

PackageIsOpen ==
    event.state \in {"QUESTIONS_PENDING", "USER_DECISION"} => event.package = Unresolved(asked)

NothingToApprove == event.state \in Early => event.pending = {}

(* project resume goes back to where the analysis was blocked.             *)
BlockedLate == event.state = "BLOCKED" => event.before \notin Early

AllEarned ==
    \A q \in asked : Facts[q].severity <= 2 =>
        \E r \in rows : q \in DOMAIN r.given /\ Earned(q, r.given[q])

Inv ==
    /\ asked \subseteq Questions
    /\ IsRecord(event) /\ Typed(event.package)
    /\ RowsTyped
    /\ RowsEarned
    /\ RecordsOnce
    /\ PackageIsOpen
    /\ NothingToApprove
    /\ BlockedLate
    /\ event.state \notin Early => AllEarned

-----------------------------------------------------------------------------
(* Decisions *)

LEMMA MinExists ==
    ASSUME NEW S \in SUBSET Nat, S # {}
    PROVE  Min(S) \in S /\ \A n \in S : Min(S) <= n
<1> DEFINE less == {e \in Nat \X Nat : e[1] < e[2]}
<1>1. IsWellFoundedOn(less, Nat)
  BY NatLessThanWellFounded, Zenon DEF OpToRel
<1> HIDE DEF less
<1>2. PICK x \in S : \A y \in S : <<y, x>> \notin less
  BY <1>1, WFMin
<1>3. ASSUME NEW y \in S PROVE x <= y
  <2>1. <<y, x>> \in Nat \X Nat /\ <<y, x>>[1] = y /\ <<y, x>>[2] = x
    OBVIOUS
  <2>2. ~(y < x)
    BY <1>2, <2>1 DEF less
  <2> QED
    BY <2>2
<1> QED
  BY <1>3 DEF Min

LEMMA FactsTyped ==
    ASSUME NEW q \in Questions
    PROVE  q \in Nat /\ Facts[q].severity \in 0..4 /\ Facts[q].missing \in BOOLEAN
BY DecisionAssumption DEF QuestionFacts

(* A decision gate that is open leaves no blocking source question, merged *)
(* or not, without a resolution.                                           *)
LEMMA GateResolves ==
    ASSUME NEW p, DOMAIN p \subseteq Questions, CanContinue(p),
           NEW q \in DOMAIN p, Facts[q].severity <= 2
    PROVE  p[q].resolved
<1> DEFINE d == CanonicalId(p, q)
           levels == {Facts[r].severity : r \in Sources(p, d)}
<1>1. q \in Sources(p, q) /\ Sources(p, q) \in SUBSET Nat
  BY FactsTyped DEF Sources
<1>2. d \in Sources(p, q)
  BY <1>1, MinExists DEF CanonicalId
<1>3. Sources(p, d) = Sources(p, q)
  BY <1>2 DEF Sources
<1>4. levels \in SUBSET Nat /\ Facts[q].severity \in levels
  BY <1>1, <1>3, FactsTyped DEF Sources
<1>5. Min(levels) \in Nat /\ Min(levels) <= Facts[q].severity
  BY <1>4, MinExists
<1>6. Blocking(Severity(p, d))
  BY <1>5, FactsTyped DEF Blocking, Severity
<1>7. d \in Decisions(p)
  BY DEF Decisions
<1>8. Resolved(p, d)
  BY <1>6, <1>7 DEF CanContinue, OpenDecisions
<1> QED
  BY <1>1, <1>3, <1>8 DEF Resolved

(* A resolution that a package builds with is one of the right role.       *)
LEMMA BuildsEarned ==
    ASSUME NEW p, Builds(p), NEW q \in DOMAIN p, q \in Questions,
           p[q].resolved, Facts[q].severity <= 2
    PROVE  Earned(q, p[q].resolution)
<1> DEFINE r == p[q].resolution
           s == [source |-> q, decision |-> r.decision, authority |-> r.authority,
                 actor |-> r.actor, record |-> r.record]
<1>1. Blocking(Facts[q].severity)
  BY FactsTyped DEF Blocking
<1>2. ResolutionValid(q, r)
  BY <1>1 DEF Builds, Analyzed
<1>3. r.authority = AuthorityOf(q) /\ AttestationValid(q, r)
  BY <1>1, <1>2 DEF ResolutionValid
<1>4. s \in Signed
  BY <1>3 DEF AttestationValid, Genuine
<1>5. r.actor \in DOMAIN Registry
  BY <1>4, DecisionAssumption DEF Payload
<1>6. Roles(AuthorityOf(q)) = IF Facts[q].severity = 1 /\ ~Facts[q].missing
                              THEN {"ARCHITECT", "SPECIALIST"} ELSE {"CEO", "USER"}
  BY FactsTyped DEF Roles, AuthorityOf, Authority
<1> QED
  BY <1>3, <1>4, <1>5, <1>6 DEF AttestationValid, Earned

LEMMA ReplaysPointwise == HistoryReplays <=> RecordsOnce
<1>1. \A r, q : <<r, q>> \in Claims(rows) <=>
                   r \in rows /\ q \in Questions /\ q \in DOMAIN r.given
  BY DEF Claims
<1>2. \A c \in Claims(rows) : c = <<c[1], c[2]>>
  BY DEF Claims
<1>3. ASSUME HistoryReplays, NEW r \in rows, NEW s \in rows,
             NEW q \in Questions \intersect DOMAIN r.given,
             NEW t \in Questions \intersect DOMAIN s.given,
             r.given[q].record = s.given[t].record
      PROVE  r = s /\ q = t
  <2>1. <<r, q>> \in Claims(rows) /\ <<s, t>> \in Claims(rows)
    BY <1>1
  <2>2. <<r, q>> = <<s, t>>
    BY <1>3, <2>1 DEF HistoryReplays
  <2> QED
    BY <2>2
<1>4. ASSUME RecordsOnce, NEW c \in Claims(rows), NEW d \in Claims(rows),
             c[1].given[c[2]].record = d[1].given[d[2]].record
      PROVE  c = d
  <2>1. /\ c[1] \in rows /\ c[2] \in Questions /\ c[2] \in DOMAIN c[1].given
        /\ d[1] \in rows /\ d[2] \in Questions /\ d[2] \in DOMAIN d[1].given
    BY <1>1, <1>2
  <2>2. c[1] = d[1] /\ c[2] = d[2]
    BY <1>4, <2>1 DEF RecordsOnce
  <2> QED
    BY <1>2, <2>2
<1> QED
  BY <1>3, <1>4 DEF HistoryReplays, RecordsOnce

-----------------------------------------------------------------------------
(* decisions answer *)

(* The row that an answer stores                                           *)
Row(s) == [decision |-> s.decision, base |-> event.package, answer |-> s.answer,
           given |-> s.given]

LEMMA AnswerRow ==
    ASSUME Inv, NEW s \in Submissions, Answer(s)
    PROVE  /\ rows' = rows \union {Row(s)}
           /\ Typed(event.package) /\ event.package # None
           /\ DOMAIN s.given \subseteq DOMAIN event.package
           /\ DOMAIN s.given \subseteq Questions
           /\ Builds(Resolve(event.package, s.given))
           /\ Unclaimed(s.given)
BY DEF Answer, Answers, Sources, Row, Inv, Typed

LEMMA AnswerRowsEarned ==
    ASSUME Inv, NEW s \in Submissions, Answer(s)
    PROVE  RowsTyped' /\ RowsEarned'
<1> DEFINE p == Resolve(event.package, s.given)
<1>1. \A q \in DOMAIN s.given : q \in DOMAIN p /\ q \in Questions
                                /\ p[q].resolved /\ p[q].resolution = s.given[q]
  BY AnswerRow DEF Resolve
<1>2. Builds(p)
  BY AnswerRow
<1> HIDE DEF p
<1>3. \A q \in DOMAIN s.given : Facts[q].severity <= 2 => Earned(q, s.given[q])
  BY <1>1, <1>2, BuildsEarned
<1>4. Row(s).given = s.given /\ Row(s).base = event.package
  BY DEF Row
<1>5. DOMAIN event.package \subseteq Questions
  BY AnswerRow DEF Typed
<1> QED
  BY <1>1, <1>3, <1>4, <1>5, AnswerRow DEF RowsTyped, RowsEarned, Inv

LEMMA AnswerReplays ==
    ASSUME Inv, NEW s \in Submissions, Answer(s)
    PROVE  RecordsOnce'
<1> DEFINE p == Resolve(event.package, s.given)
<1>1. \A q \in DOMAIN s.given : q \in DOMAIN p /\ q \in Questions
                                /\ p[q].resolution = s.given[q]
  BY AnswerRow DEF Resolve
<1>2. RecordsUnique(p)
  BY AnswerRow DEF Builds
<1> HIDE DEF p
<1>3. \A q \in DOMAIN s.given : s.given[q] # None /\ s.given[q].record # None
  BY AnswerRow, DeliveryAssumption DEF Unclaimed, Attested
<1>4. ASSUME NEW q \in DOMAIN s.given, NEW t \in DOMAIN s.given,
             s.given[q].record = s.given[t].record
      PROVE  q = t
  <2>1. RecordOf(p, q) = s.given[q].record /\ RecordOf(p, t) = s.given[t].record
    BY <1>1, <1>3 DEF RecordOf
  <2> QED
    BY <1>1, <1>2, <1>3, <1>4, <2>1 DEF RecordsUnique
<1>5. ASSUME NEW q \in DOMAIN s.given, NEW r \in rows,
             NEW t \in Questions \intersect DOMAIN r.given
      PROVE  r.given[t].record # s.given[q].record
  <2>1. <<r, t>> \in Claims(rows)
    BY DEF Claims
  <2> QED
    BY <2>1, AnswerRow DEF Unclaimed
<1>6. Row(s).given = s.given
  BY DEF Row
<1>7. RecordsOnce
  BY DEF Inv
<1>8. RecordsOnce'
  BY <1>4, <1>5, <1>6, <1>7, AnswerRow DEF RecordsOnce
<1> QED
  BY <1>8

(* An answer that opens the gate completes the open package.               *)
LEMMA AnswerInv ==
    ASSUME Inv, NEW s \in Submissions, Answer(s)
    PROVE  Inv'
<1> DEFINE answers == Applied(event.package) \union {Row(s)}
           reduced == Resolve(event.package, Given(answers))
<1>1. /\ UNCHANGED asked
      /\ event' = IF event.state \notin {"QUESTIONS_PENDING", "USER_DECISION"} \/ ~Builds(reduced)
                  THEN event
                  ELSE IF CanContinue(reduced)
                       THEN Transition("ARCHITECTURE_PENDING", reduced, answers, {}, None)
                  ELSE [event EXCEPT !.state = "USER_DECISION"]
  BY DEF Answer, Row
<1>2. RowsTyped' /\ RowsEarned' /\ RecordsOnce' /\ rows \subseteq rows'
  BY AnswerRow, AnswerRowsEarned, AnswerReplays
<1>3. answers \subseteq rows'
  BY AnswerRow DEF Applied
<1>4. DOMAIN reduced = DOMAIN event.package /\ DOMAIN reduced \subseteq Questions
  BY AnswerRow DEF Resolve, Typed
<1> HIDE DEF answers
<1>5. CASE event' = event
  BY <1>1, <1>2, <1>5 DEF Inv, PackageIsOpen, NothingToApprove, BlockedLate, AllEarned
<1>6. CASE /\ event.state \in {"QUESTIONS_PENDING", "USER_DECISION"}
           /\ CanContinue(reduced)
           /\ event' = Transition("ARCHITECTURE_PENDING", reduced, answers, {}, None)
  <2>1. event.package = Unresolved(asked)
    BY <1>6 DEF Inv, PackageIsOpen
  <2>2. ASSUME NEW q \in asked, Facts[q].severity <= 2
        PROVE  \E r \in rows' : q \in DOMAIN r.given /\ Earned(q, r.given[q])
    <3>1. q \in DOMAIN reduced /\ ~event.package[q].resolved
      BY <1>4, <2>1 DEF Unresolved
    <3>2. reduced[q].resolved
      BY <1>4, <1>6, <2>2, <3>1, GateResolves
    <3>3. q \in DOMAIN Given(answers)
      BY <1>4, <3>1, <3>2 DEF Resolve
    <3>4. PICK r \in answers : q \in DOMAIN r.given
      BY <3>3 DEF Given
    <3> QED
      BY <1>2, <1>3, <2>2, <3>4 DEF RowsEarned
  <2>3. AllEarned'
    BY <1>1, <2>2 DEF AllEarned
  <2> HIDE DEF reduced
  <2>4. /\ event'.state = "ARCHITECTURE_PENDING" /\ event'.pending = {}
        /\ event'.package \in {None, reduced} /\ IsRecord(event')
    BY <1>6 DEF Transition, IsRecord
  <2> QED
    BY <1>1, <1>2, <1>4, <2>3, <2>4
    DEF Inv, Typed, PackageIsOpen, NothingToApprove, BlockedLate, Early
<1>7. CASE /\ event.state \in {"QUESTIONS_PENDING", "USER_DECISION"}
           /\ event' = [event EXCEPT !.state = "USER_DECISION"]
  <2>1. /\ event'.state = "USER_DECISION" /\ event'.package = event.package
        /\ event'.pending = event.pending /\ IsRecord(event')
    BY <1>7 DEF Inv, IsRecord
  <2> QED
    BY <1>1, <1>2, <1>7, <2>1
    DEF Inv, Typed, PackageIsOpen, NothingToApprove, BlockedLate, Early
<1> HIDE DEF reduced
<1> QED
  BY <1>1, <1>5, <1>6, <1>7

-----------------------------------------------------------------------------
(* The other commands *)

LEMMA InitInv == Init => Inv
BY DeliveryAssumption DEF Init, Start, Inv, IsRecord, Typed, RowsTyped, RowsEarned,
   RecordsOnce, PackageIsOpen, NothingToApprove, BlockedLate, Early

(* A gate that opens at once has no blocking question to answer.           *)
LEMMA AnalyzeInv ==
    ASSUME Inv, Analyze
    PROVE  Inv'
<1>1. /\ UNCHANGED <<asked, rows>> /\ event.state = "ANALYZING"
      /\ event' =
           IF CanContinue(Unresolved(asked))
           THEN [event EXCEPT !.state = "ARCHITECTURE_PENDING"]
           ELSE [event EXCEPT !.state = "QUESTIONS_PENDING", !.package = Unresolved(asked)]
  BY DEF Analyze
<1>2. asked \subseteq Questions /\ DOMAIN Unresolved(asked) = asked
  BY DEF Inv, Unresolved
<1>3. ASSUME CanContinue(Unresolved(asked)), NEW q \in asked
      PROVE  ~(Facts[q].severity <= 2)
  <2>1. ~Unresolved(asked)[q].resolved
    BY DEF Unresolved
  <2> QED
    BY <1>2, <1>3, <2>1, GateResolves
<1>4. CASE CanContinue(Unresolved(asked))
  <2>1. /\ event'.state = "ARCHITECTURE_PENDING" /\ event'.package = event.package
        /\ IsRecord(event')
    BY <1>1, <1>4 DEF Inv, IsRecord
  <2> QED
    BY <1>1, <1>3, <1>4, <2>1
    DEF Inv, Typed, RowsTyped, RowsEarned, RecordsOnce, PackageIsOpen, NothingToApprove,
        BlockedLate, AllEarned, Early
<1>5. CASE ~CanContinue(Unresolved(asked))
  <2>1. /\ event'.state = "QUESTIONS_PENDING" /\ event'.package = Unresolved(asked)
        /\ event'.pending = event.pending /\ IsRecord(event')
    BY <1>1, <1>5 DEF Inv, IsRecord
  <2> QED
    BY <1>1, <1>2, <2>1
    DEF Inv, Typed, RowsTyped, RowsEarned, RecordsOnce, PackageIsOpen, NothingToApprove,
        BlockedLate, AllEarned, Early
<1> QED
  BY <1>4, <1>5

(* Beyond the gate the rows and the questions stay, whatever is decided.   *)
LEMMA LaterInv ==
    ASSUME Inv, UNCHANGED <<asked, rows>>, event.state \notin Early,
           IsRecord(event'), Typed(event'.package), event'.state \notin Early,
           event'.state = "BLOCKED" => event'.before \notin Early
    PROVE  Inv'
BY DEF Inv, RowsTyped, RowsEarned, RecordsOnce, PackageIsOpen, NothingToApprove, BlockedLate,
       AllEarned, Early

LEMMA ReducedTyped ==
    /\ \A p : DOMAIN Reduced(p) = DOMAIN p
    /\ \A p \in Bases : Inv => DOMAIN p \subseteq Questions
    /\ Inv => Typed(PreparePackage)
<1>1. \A p : DOMAIN Reduced(p) = DOMAIN p
  BY DEF Reduced, Resolve
<1>2. \A p \in Bases : Inv => DOMAIN p \subseteq Questions
  BY DEF Bases, Inv, RowsTyped
<1>3. DOMAIN Unresolved(asked) = asked
  BY DEF Unresolved
<1>4. Bases # {} => (CHOOSE p \in Bases : TRUE) \in Bases
  OBVIOUS
<1>5. Inv => Typed(PreparePackage)
  BY <1>1, <1>2, <1>3, <1>4 DEF PreparePackage, Answered, Typed, Inv
<1> QED
  BY <1>1, <1>2, <1>5

LEMMA TransitionFields ==
    ASSUME NEW state, NEW package, NEW answers, NEW approved, NEW plan
    PROVE  LET t == Transition(state, package, answers, approved, plan)
           IN  /\ IsRecord(t) /\ t.state = state /\ t.before = event.state
               /\ Typed(package) => Typed(t.package)
BY DEF Transition, IsRecord, Typed

LEMMA ArchitectureInv ==
    ASSUME Inv, NEW design, PrepareArchitecture(design)
    PROVE  Inv'
<1> DEFINE package == IF asked = {} THEN None ELSE Reduced(Unresolved(asked))
           answers == IF asked = {} THEN {} ELSE Applied(Unresolved(asked))
           Moved(state) == Transition(state, package, answers, {}, None)
           asking == Moved("ADR_PENDING_APPROVAL")
           waiting == [asking EXCEPT !.package = None, !.pending = PendingAdrs(design)]
<1>1. /\ event.state = "ARCHITECTURE_PENDING" /\ UNCHANGED <<asked, rows>>
      /\ event' \in {event, Moved("PM_FINALIZATION"), waiting, Moved("BLOCKED")}
  BY DEF PrepareArchitecture
<1>2. Typed(package)
  BY ReducedTyped DEF Typed, Inv, Unresolved
<1> HIDE DEF package, answers
<1>3. waiting.state = "ADR_PENDING_APPROVAL" /\ waiting.package = None /\ IsRecord(waiting)
  <2>1. asking.state = "ADR_PENDING_APPROVAL" /\ IsRecord(asking)
    BY TransitionFields
  <2> DEFINE open == [asking EXCEPT !.package = None]
  <2>2. waiting = [open EXCEPT !.pending = PendingAdrs(design)]
    OBVIOUS
  <2> HIDE DEF asking, waiting
  <2>3. open.state = "ADR_PENDING_APPROVAL" /\ open.package = None /\ IsRecord(open)
    BY <2>1 DEF IsRecord
  <2> HIDE DEF open
  <2> QED
    BY <2>2, <2>3 DEF IsRecord
<1> HIDE DEF asking, waiting
<1>4. \A state : /\ IsRecord(Moved(state)) /\ Moved(state).state = state
                 /\ Moved(state).before = "ARCHITECTURE_PENDING"
                 /\ Typed(Moved(state).package)
  BY <1>1, <1>2, TransitionFields
<1> HIDE DEF Moved
<1>5. CASE event' = event
  BY <1>1, <1>5 DEF Inv, RowsTyped, RowsEarned, RecordsOnce, PackageIsOpen, NothingToApprove,
     BlockedLate, AllEarned
<1>6. CASE event' # event
  BY <1>1, <1>3, <1>4, <1>6, LaterInv DEF Early, Typed
<1> QED
  BY <1>5, <1>6

LEMMA LaterCommandsInv ==
    ASSUME Inv,
           \/ \E d \in event.pending : ApproveAdr(d)
           \/ \E plan \in Plans : Finalize(plan)
           \/ \E plan \in ToSet(plans) : Audit(plan)
           \/ \E design \in Designs, plan \in Plans : Resume(design, plan)
    PROVE  Inv'
<1>1. CASE event' = event /\ UNCHANGED <<asked, rows>>
  BY <1>1 DEF Inv, RowsTyped, RowsEarned, RecordsOnce, PackageIsOpen, NothingToApprove,
     BlockedLate, AllEarned
<1>2. Typed(None)
  BY DEF Typed
<1>3. ASSUME NEW d \in event.pending, ApproveAdr(d) PROVE Inv'
  <2> DEFINE t == Transition("PM_FINALIZATION", None, {}, approvals \union {d}, None)
             moved == [t EXCEPT !.pending = event.pending]
  <2>1. event' \in {event, moved} /\ UNCHANGED <<asked, rows>>
    BY <1>3 DEF ApproveAdr
  <2>2. t.state = "PM_FINALIZATION" /\ t.package = None /\ IsRecord(t)
    BY DEF Transition, IsRecord
  <2> HIDE DEF t
  <2>3. moved.state = "PM_FINALIZATION" /\ moved.package = None /\ IsRecord(moved)
    BY <2>2 DEF IsRecord
  <2> HIDE DEF moved
  <2>4. event.state \notin Early
    BY <1>3 DEF Inv, NothingToApprove
  <2> QED
    BY <1>1, <1>2, <2>1, <2>3, <2>4, LaterInv DEF Early
<1>4. ASSUME NEW plan \in Plans, Finalize(plan) PROVE Inv'
  <2> DEFINE t == Transition("SPEC_AUDIT", PreparePackage, CurrentAnswers, CurrentApprovals, plan)
  <2>1. /\ event' \in {event, t} /\ UNCHANGED <<asked, rows>>
        /\ event.state = "PM_FINALIZATION"
    BY <1>4 DEF Finalize
  <2>2. t.state = "SPEC_AUDIT" /\ Typed(t.package) /\ IsRecord(t)
    BY ReducedTyped, TransitionFields
  <2> HIDE DEF t
  <2> QED
    BY <1>1, <2>1, <2>2, LaterInv DEF Early
<1>5. ASSUME NEW plan \in ToSet(plans), Audit(plan) PROVE Inv'
  <2>1. PICK state \in {"READY_FOR_ISSUES", "BLOCKED"} :
           event' = Transition(state, PreparePackage, CurrentAnswers, CurrentApprovals, plan)
    BY <1>5 DEF Audit
  <2>2. /\ event'.state = state /\ event'.before = event.state
        /\ Typed(event'.package) /\ IsRecord(event')
    BY <2>1, ReducedTyped, TransitionFields
  <2>3. event.state = "SPEC_AUDIT" /\ UNCHANGED <<asked, rows>>
    BY <1>5 DEF Audit
  <2> QED
    BY <2>2, <2>3, LaterInv DEF Early
<1>6. ASSUME NEW design \in Designs, NEW plan \in Plans, Resume(design, plan) PROVE Inv'
  <2>1. /\ event' = Transition(event.before, None, {}, {}, None)
        /\ event.state = "BLOCKED" /\ UNCHANGED <<asked, rows>>
    BY <1>6 DEF Resume
  <2>2. /\ event'.state = event.before /\ event'.before = event.state
        /\ Typed(event'.package) /\ IsRecord(event')
    BY <1>2, <2>1, TransitionFields
  <2>3. event.before \notin Early /\ event.state \notin Early
    BY <2>1 DEF Inv, BlockedLate, Early
  <2> QED
    BY <2>1, <2>2, <2>3, LaterInv
<1> QED
  BY <1>3, <1>4, <1>5, <1>6

LEMMA NextInv == Inv /\ [Next]_vars => Inv'
<1> SUFFICES ASSUME Inv, [Next]_vars PROVE Inv'
  OBVIOUS
<1>1. CASE AuditRun \/ CheckReadiness \/ UNCHANGED vars
  BY <1>1 DEF AuditRun, CheckReadiness, vars, Inv, RowsTyped, RowsEarned, RecordsOnce,
     PackageIsOpen, NothingToApprove, BlockedLate, AllEarned
<1> QED
  BY <1>1, AnalyzeInv, AnswerInv, ArchitectureInv, LaterCommandsInv DEF Next

-----------------------------------------------------------------------------
(* Whatever is asked, answered and supplied: beyond the decision gate      *)
(* every blocking question, also one that was merged with others, has an   *)
(* answer that somebody of the right role signed for this question, and no *)
(* record of an authority has served two questions (recomputeGate of       *)
(* pipeline/decisions.js, answerDecision of commands/decisions.js).        *)
THEOREM DecisionGateIsEarned == Spec => []GateIsEarned
<1>1. Inv => GateIsEarned
  BY ReplaysPointwise DEF Inv, GateIsEarned, AllEarned, Early
<1> QED
  BY <1>1, InitInv, NextInv, PTL DEF Spec

-----------------------------------------------------------------------------
(* What the commands keep *)

Gates == {"PM_FINALIZATION", "SPEC_AUDIT", "READY_FOR_ISSUES"}

OpenAnswers == Applied(Unresolved(asked))

(* A stored answer answers something, with typed resolutions.              *)
RowWellFormed(r) ==
    /\ DOMAIN r.given # {} /\ DOMAIN r.given \subseteq DOMAIN r.base
    /\ IsPackage(r.base)
    /\ \A q \in DOMAIN r.given : r.given[q] \in Resolution

RowsWellFormed == IsFiniteSet(rows) /\ \A r \in rows : RowWellFormed(r)

(* Only a package that is not clear as it is asked gets answers.           *)
AskedToAnswer ==
    event.package # None \/ rows # {} => ~CanContinue(Unresolved(asked))

Begun(package) == package = None \/ \E q \in DOMAIN package : package[q].resolved

(* An answer beyond the gate is to another package than the one asked.     *)
PackageBeyond ==
    event.state \notin Early =>
        /\ Begun(event.package)
        /\ event.answers = {} => event.package = None
        /\ rows # {} => Builds(Reduced(Unresolved(asked)))

(* Approvals are given between the design and the finalization.            *)
ApprovalsInOrder ==
    /\ event.state \in Early \union {"ARCHITECTURE_PENDING"} => approvals = {}
    /\ event.state = "BLOCKED" =>
          /\ event.before \in {"ARCHITECTURE_PENDING", "SPEC_AUDIT"}
          /\ event.before = "ARCHITECTURE_PENDING" => approvals = {}
    /\ event.state = "ADR_PENDING_APPROVAL" =>
          /\ event.pending = PendingAdrs(Last(designs)) /\ event.pending # {}
          /\ approvals \subseteq event.pending
    /\ event.state # "ADR_PENDING_APPROVAL" => event.pending \subseteq approvals
    /\ event.state \notin {"ADR_PENDING_APPROVAL", "PM_FINALIZATION"} => event.pending = {}

(* What is stored was supplied, what an event registers is stored.         *)
Supplied ==
    /\ asked \in QuestionSets
    /\ designs \in Seq(Designs) /\ Len(designs) <= MaxRevisions
    /\ plans \in Seq(Plans) /\ Len(plans) <= MaxRevisions
    /\ event.state \notin Early \union {"ARCHITECTURE_PENDING"} => designs # <<>>
    /\ audit # None => audit.plan \in ToSet(plans) /\ audit.answers \subseteq rows
    /\ approvals \subseteq Adrs

EventTyped ==
    /\ event.state \in States /\ event.before \in States
    /\ event.package # None => IsPackage(event.package)
    /\ event.pending \subseteq Adrs
    /\ event.answers \subseteq rows
    /\ event.approvals \subseteq approvals
    /\ event.plan # None => event.plan \in ToSet(plans)
    /\ event.state = "READY_FOR_ISSUES" => event.plan \in ToSet(plans)

(* The latest transition registers what is stored.                         *)
HandedOn ==
    /\ event.state \in Gates
    /\ ~AnsweredAgain /\ ~PartlyApproved(Last(designs)) /\ ~Recovered
    => event.answers = rows /\ event.approvals = CurrentApprovals

Kept ==
    /\ Inv
    /\ RowsWellFormed /\ AskedToAnswer /\ PackageBeyond
    /\ ApprovalsInOrder /\ Supplied /\ EventTyped
    /\ HandedOn

-----------------------------------------------------------------------------
(* Packages *)

LEMMA DecisionSources ==
    ASSUME NEW p, DOMAIN p \subseteq Questions, NEW d \in Decisions(p)
    PROVE  /\ Sources(p, d) # {} /\ Sources(p, d) \subseteq DOMAIN p
           /\ \E r \in Sources(p, d) : Severity(p, d) = Facts[r].severity
<1>1. PICK q \in DOMAIN p : d = CanonicalId(p, q)
  BY DEF Decisions
<1>2. q \in Sources(p, q) /\ Sources(p, q) \in SUBSET Nat
  BY FactsTyped DEF Sources
<1>3. d \in Sources(p, q)
  BY <1>1, <1>2, MinExists DEF CanonicalId
<1>4. Sources(p, d) = Sources(p, q)
  BY <1>3 DEF Sources
<1> DEFINE levels == {Facts[r].severity : r \in Sources(p, d)}
<1>5. levels \in SUBSET Nat /\ levels # {}
  BY <1>2, <1>4, FactsTyped DEF Sources
<1>6. Min(levels) \in levels
  BY <1>5, MinExists
<1> QED
  BY <1>2, <1>4, <1>6 DEF Severity, Sources

(* Questions of which none blocks keep no gate closed.                     *)
LEMMA HarmlessContinue ==
    ASSUME asked \subseteq Questions, \A q \in asked : ~Blocking(Facts[q].severity)
    PROVE  CanContinue(Unresolved(asked))
<1>1. DOMAIN Unresolved(asked) = asked
  BY DEF Unresolved
<1>2. ASSUME NEW d \in Decisions(Unresolved(asked)) PROVE ~Blocking(Severity(Unresolved(asked), d))
  BY <1>1, DecisionSources
<1> QED
  BY <1>2 DEF CanContinue, OpenDecisions

LEMMA UnresolvedTyped ==
    ASSUME asked \subseteq Questions
    PROVE  /\ IsPackage(Unresolved(asked)) /\ DOMAIN Unresolved(asked) = asked
           /\ ~Begun(Unresolved(asked)) \/ Unresolved(asked) = None
BY DEF IsPackage, Unresolved, Evidence, Begun

LEMMA GivenTyped ==
    ASSUME NEW answers, \A r \in answers : RowWellFormed(r)
    PROVE  /\ \A q \in DOMAIN Given(answers) : Given(answers)[q] \in Resolution
           /\ \A r \in answers : DOMAIN r.given \subseteq DOMAIN Given(answers)
<1>1. ASSUME NEW q \in DOMAIN Given(answers) PROVE Given(answers)[q] \in Resolution
  <2>1. \E r \in answers : q \in DOMAIN r.given
    BY DEF Given
  <2> DEFINE row == CHOOSE r \in answers : q \in DOMAIN r.given
  <2>2. row \in answers /\ q \in DOMAIN row.given
    BY <2>1
  <2>3. Given(answers)[q] = row.given[q]
    BY DEF Given
  <2> HIDE DEF row
  <2> QED
    BY <2>2, <2>3 DEF RowWellFormed
<1>2. \A r \in answers : DOMAIN r.given \subseteq DOMAIN Given(answers)
  BY DEF Given
<1> QED
  BY <1>1, <1>2

LEMMA ResolveTyped ==
    ASSUME NEW p, IsPackage(p), NEW answers, \A r \in answers : RowWellFormed(r)
    PROVE  /\ IsPackage(Resolve(p, Given(answers)))
           /\ DOMAIN Resolve(p, Given(answers)) = DOMAIN p
           /\ \A r \in answers : r.base = p => Begun(Resolve(p, Given(answers)))
<1> DEFINE given == Given(answers)
<1>1. /\ \A q \in DOMAIN given : given[q] \in Resolution
      /\ \A r \in answers : DOMAIN r.given \subseteq DOMAIN given
  BY GivenTyped
<1> HIDE DEF given
<1>2. IsPackage(Resolve(p, given)) /\ DOMAIN Resolve(p, given) = DOMAIN p
  BY <1>1 DEF Resolve, IsPackage, Evidence
<1>3. ASSUME NEW r \in answers, r.base = p PROVE Begun(Resolve(p, given))
  <2>1. PICK q \in DOMAIN r.given : q \in DOMAIN p
    BY <1>3 DEF RowWellFormed
  <2>2. q \in DOMAIN given
    BY <1>1
  <2> QED
    BY <2>1, <2>2 DEF Begun, Resolve
<1> QED
  BY <1>2, <1>3 DEF given

LEMMA PersistedFacts ==
    ASSUME NEW S, NEW history \in Seq(S), NEW x \in S,
           Len(history) <= MaxRevisions, HasRoom(history, x)
    PROVE  /\ Persisted(history, x) \in Seq(S) /\ Len(Persisted(history, x)) <= MaxRevisions
           /\ Persisted(history, x) # <<>> /\ Last(Persisted(history, x)) = x
           /\ ToSet(history) \subseteq ToSet(Persisted(history, x))
           /\ x \in ToSet(Persisted(history, x))
<1>1. MaxRevisions \in Nat
  BY DeliveryAssumption
<1>2. CASE history # <<>> /\ Last(history) = x
  <2>1. Persisted(history, x) = history
    BY <1>2 DEF Persisted
  <2>2. Len(history) \in 1..Len(history) /\ history[Len(history)] = x
    BY <1>2 DEF Last
  <2> QED
    BY <1>2, <2>1, <2>2 DEF ToSet
<1>3. CASE ~(history # <<>> /\ Last(history) = x)
  <2> DEFINE h == Append(history, x)
  <2>1. Persisted(history, x) = h /\ Len(history) < MaxRevisions
    BY <1>3 DEF Persisted, HasRoom
  <2>2. /\ h \in Seq(S) /\ Len(h) = Len(history) + 1 /\ h[Len(history) + 1] = x
        /\ \A i \in 1..Len(history) : h[i] = history[i]
    OBVIOUS
  <2> HIDE DEF h
  <2>3. Len(history) \in Nat
    OBVIOUS
  <2>4. h # <<>> /\ Last(h) = x
    BY <2>2, <2>3 DEF Last
  <2>5. ToSet(history) \subseteq ToSet(h) /\ x \in ToSet(h)
    BY <2>2, <2>3 DEF ToSet
  <2> QED
    BY <1>1, <2>1, <2>2, <2>3, <2>4, <2>5
<1> QED
  BY <1>2, <1>3

LEMMA SetOfSequence ==
    ASSUME NEW S, NEW s \in Seq(S), s # <<>>
    PROVE  Last(s) \in S /\ Last(s) \in ToSet(s)
BY DEF Last, ToSet

LEMMA TransitionParts ==
    ASSUME NEW state, NEW package, NEW answers, NEW approved, NEW plan
    PROVE  /\ Transition(state, package, answers, approved, plan).state = state
           /\ Transition(state, package, answers, approved, plan).before = event.state
           /\ Transition(state, package, answers, approved, plan).package
                = IF answers = {} THEN None ELSE package
           /\ Transition(state, package, answers, approved, plan).pending = {}
           /\ Transition(state, package, answers, approved, plan).answers = answers
           /\ Transition(state, package, answers, approved, plan).approvals = approved
           /\ Transition(state, package, answers, approved, plan).plan = plan
BY DEF Transition

LEMMA CurrentParts ==
    ASSUME Inv, RowsWellFormed
    PROVE  /\ CurrentAnswers \subseteq rows /\ CurrentApprovals \subseteq approvals
           /\ PreparePackage # None => IsPackage(PreparePackage)
           /\ CurrentAnswers # {} => Begun(PreparePackage)
           /\ ~AnsweredAgain => CurrentAnswers = rows
<1>1. CurrentAnswers \subseteq rows /\ CurrentApprovals \subseteq approvals
  BY DEF CurrentAnswers, CurrentApprovals
<1>2. asked \subseteq Questions
  BY DEF Inv
<1>3. ASSUME NEW b \in Bases
      PROVE  IsPackage(Reduced(b)) /\ Begun(Reduced(b))
  <2>1. PICK r \in rows : r.base = b
    BY DEF Bases
  <2>2. r \in Applied(b) /\ \A s \in Applied(b) : RowWellFormed(s)
    BY <2>1 DEF Applied, RowsWellFormed
  <2>3. IsPackage(b)
    BY <2>1 DEF RowsWellFormed, RowWellFormed
  <2> QED
    BY <2>1, <2>2, <2>3, ResolveTyped DEF Reduced
<1>4. Bases # {} => (CHOOSE p \in Bases : TRUE) \in Bases
  OBVIOUS
<1>5. PreparePackage # None => IsPackage(PreparePackage)
  BY <1>2, <1>3, <1>4, UnresolvedTyped DEF PreparePackage, Answered
<1>6. rows # {} => Bases # {}
  BY DEF Bases
<1>7. CurrentAnswers # {} => Begun(PreparePackage)
  BY <1>1, <1>3, <1>4, <1>6 DEF PreparePackage, Answered
<1>8. ASSUME ~AnsweredAgain PROVE CurrentAnswers = rows
  <2>1. CASE rows = {}
    BY <1>1, <2>1
  <2>2. CASE rows # {}
    <3>1. Bases = {Unresolved(asked)}
      BY <1>6, <1>8, <2>2 DEF AnsweredAgain, Bases
    <3>2. Cardinality(Bases) = 1
      BY <3>1, FS_Singleton
    <3> QED
      BY <3>2 DEF CurrentAnswers
  <2> QED
    BY <2>1, <2>2
<1> QED
  BY <1>1, <1>5, <1>7, <1>8

LEMMA InitKept == Init => Kept
<1> SUFFICES ASSUME Init PROVE Kept
  OBVIOUS
<1>1. Inv
  BY InitInv
<1>2. /\ asked \in QuestionSets
      /\ rows = {} /\ designs = <<>> /\ approvals = {} /\ plans = <<>> /\ audit = None
      /\ event = Start
  BY DEF Init
<1>3. /\ event.state = "ANALYZING" /\ event.before = "ANALYZING" /\ event.package = None
      /\ event.pending = {} /\ event.answers = {} /\ event.approvals = {} /\ event.plan = None
  BY <1>2 DEF Start
<1>4. RowsWellFormed
  BY <1>2, FS_EmptySet DEF RowsWellFormed
<1>5. AskedToAnswer /\ PackageBeyond /\ ApprovalsInOrder
  BY <1>2, <1>3 DEF AskedToAnswer, PackageBeyond, ApprovalsInOrder, Early
<1>6. Supplied
  BY <1>2, <1>3, DeliveryAssumption DEF Supplied, Early
<1>7. EventTyped /\ HandedOn
  BY <1>2, <1>3 DEF EventTyped, HandedOn, States, Gates
<1> QED
  BY <1>1, <1>4, <1>5, <1>6, <1>7 DEF Kept

LEMMA AnalyzeKept ==
    ASSUME Kept, Analyze
    PROVE  Kept'
<1>1. /\ UNCHANGED <<asked, rows, designs, approvals, plans, audit>>
      /\ event.state = "ANALYZING"
      /\ event' =
           IF CanContinue(Unresolved(asked))
           THEN [event EXCEPT !.state = "ARCHITECTURE_PENDING"]
           ELSE [event EXCEPT !.state = "QUESTIONS_PENDING", !.package = Unresolved(asked)]
  BY DEF Analyze
<1>2. IsRecord(event) /\ asked \subseteq Questions
  BY DEF Kept, Inv
<1>3. /\ event'.before = event.before /\ event'.pending = event.pending
      /\ event'.answers = event.answers /\ event'.approvals = event.approvals
      /\ event'.plan = event.plan
      /\ \/ /\ CanContinue(Unresolved(asked))
            /\ event'.state = "ARCHITECTURE_PENDING" /\ event'.package = event.package
         \/ /\ ~CanContinue(Unresolved(asked))
            /\ event'.state = "QUESTIONS_PENDING" /\ event'.package = Unresolved(asked)
  BY <1>1, <1>2 DEF IsRecord
<1>4. Inv'
  BY AnalyzeInv DEF Kept
<1>5. RowsWellFormed'
  BY <1>1 DEF Kept, RowsWellFormed
<1>6. AskedToAnswer'
  BY <1>1, <1>3 DEF Kept, AskedToAnswer
<1>7. PackageBeyond'
  BY <1>1, <1>3 DEF Kept, AskedToAnswer, PackageBeyond, Begun, Early
<1>8. ApprovalsInOrder'
  BY <1>1, <1>3 DEF Kept, ApprovalsInOrder, Early
<1>9. Supplied'
  BY <1>1, <1>3 DEF Kept, Supplied, Early
<1>10. EventTyped'
  BY <1>1, <1>2, <1>3, UnresolvedTyped DEF Kept, EventTyped, States
<1>11. HandedOn'
  BY <1>3 DEF HandedOn, Gates
<1> QED
  BY <1>4, <1>5, <1>6, <1>7, <1>8, <1>9, <1>10, <1>11 DEF Kept

(* The row of an answer, and when it is to the questions as they are asked *)
LEMMA AnswerAdds ==
    ASSUME Kept, NEW s \in Submissions, Answer(s)
    PROVE  /\ rows' = rows \union {Row(s)} /\ UNCHANGED <<asked, designs, approvals, plans, audit>>
           /\ event.package # None /\ IsPackage(event.package)
           /\ RowWellFormed(Row(s)) /\ Row(s).base = event.package
           /\ event.state \notin Early => Row(s).base # Unresolved(asked)
<1>1. /\ rows' = rows \union {Row(s)} /\ event.package # None
      /\ UNCHANGED <<asked, designs, approvals, plans, audit>>
      /\ s.decision \in Decisions(event.package)
      /\ DOMAIN s.given = Sources(event.package, s.decision)
  BY DEF Answer, Answers, Row
<1>2. IsPackage(event.package)
  BY <1>1 DEF Kept, EventTyped
<1>3. /\ Sources(event.package, s.decision) # {}
      /\ Sources(event.package, s.decision) \subseteq DOMAIN event.package
  BY <1>1, <1>2, DecisionSources DEF IsPackage
<1>4. \A q \in DOMAIN s.given : s.given[q] \in Resolution
  BY DeliveryAssumption
<1>5. Row(s).given = s.given /\ Row(s).base = event.package
  BY DEF Row
<1>6. event.state \notin Early => Begun(event.package)
  BY DEF Kept, PackageBeyond
<1>7. event.state \notin Early => event.package # Unresolved(asked)
  BY <1>1, <1>6, UnresolvedTyped DEF Kept, Inv
<1> QED
  BY <1>1, <1>2, <1>3, <1>4, <1>5, <1>7 DEF RowWellFormed

LEMMA AnswerKept ==
    ASSUME Kept, NEW s \in Submissions, Answer(s)
    PROVE  Kept'
<1> DEFINE answers == Applied(event.package) \union {Row(s)}
           reduced == Resolve(event.package, Given(answers))
           moved == Transition("ARCHITECTURE_PENDING", reduced, answers, {}, None)
<1>1. /\ rows' = rows \union {Row(s)} /\ UNCHANGED <<asked, designs, approvals, plans, audit>>
      /\ event.package # None /\ IsPackage(event.package)
      /\ RowWellFormed(Row(s)) /\ Row(s).base = event.package
      /\ event.state \notin Early => Row(s).base # Unresolved(asked)
  BY AnswerAdds
<1>2. \/ event' = event
      \/ /\ event.state \in {"QUESTIONS_PENDING", "USER_DECISION"}
         /\ Builds(reduced) /\ event' = moved
      \/ /\ event.state \in {"QUESTIONS_PENDING", "USER_DECISION"}
         /\ event' = [event EXCEPT !.state = "USER_DECISION"]
  BY DEF Answer, Row
<1>3. /\ answers \subseteq rows' /\ answers # {} /\ \A r \in answers : RowWellFormed(r)
      /\ Row(s) \in answers
  BY <1>1 DEF Applied, Kept, RowsWellFormed
<1>4. IsPackage(reduced) /\ Begun(reduced)
  BY <1>1, <1>3, ResolveTyped
<1>5. /\ event.package = Unresolved(asked) => Reduced(Unresolved(asked))' = reduced
      /\ event.package # Unresolved(asked) =>
            Reduced(Unresolved(asked))' = Reduced(Unresolved(asked))
  <2>1. Applied(Unresolved(asked))' = {r \in rows' : r.base = Unresolved(asked)}
    BY <1>1 DEF Applied
  <2>2. event.package = Unresolved(asked) => Applied(Unresolved(asked))' = answers
    BY <1>1, <2>1 DEF Applied
  <2>3. event.package # Unresolved(asked) =>
           Applied(Unresolved(asked))' = Applied(Unresolved(asked))
    BY <1>1, <2>1 DEF Applied
  <2>4. Reduced(Unresolved(asked))' = Resolve(Unresolved(asked), Given(Applied(Unresolved(asked))'))
    BY <1>1 DEF Reduced
  <2> QED
    BY <2>2, <2>3, <2>4 DEF Reduced
<1>6. Inv'
  BY AnswerInv DEF Kept
<1>7. RowsWellFormed'
  BY <1>1, FS_AddElement DEF Kept, RowsWellFormed
<1>8. ~CanContinue(Unresolved(asked)) /\ AskedToAnswer'
  BY <1>1 DEF Kept, AskedToAnswer
<1>9. Supplied' \/ event'.state # event.state
  BY <1>1 DEF Kept, Supplied
<1> HIDE DEF answers, reduced
<1>10. CASE event' = event
  <2>1. PackageBeyond'
    <3> SUFFICES ASSUME event.state \notin Early
                 PROVE  PackageBeyond'
      BY <1>10 DEF PackageBeyond
    <3>1. rows # {} /\ Builds(Reduced(Unresolved(asked)))
      BY <1>1 DEF Kept, PackageBeyond, EventTyped
    <3>2. Builds(Reduced(Unresolved(asked))')
      BY <1>1, <1>5, <3>1
    <3> QED
      BY <1>10, <3>2 DEF Kept, PackageBeyond
  <2>2. ApprovalsInOrder' /\ EventTyped'
    BY <1>1, <1>10 DEF Kept, ApprovalsInOrder, EventTyped
  <2>3. HandedOn'
    <3>1. event.state \in Gates => AnsweredAgain'
      BY <1>1 DEF AnsweredAgain, Gates, Early
    <3> QED
      BY <1>10, <3>1 DEF HandedOn
  <2> QED
    BY <1>6, <1>7, <1>8, <1>9, <1>10, <2>1, <2>2, <2>3 DEF Kept
<1>11. CASE /\ event.state \in {"QUESTIONS_PENDING", "USER_DECISION"}
            /\ Builds(reduced) /\ event' = moved
  <2>1. /\ event'.state = "ARCHITECTURE_PENDING" /\ event'.before = event.state
        /\ event'.package = reduced /\ event'.pending = {} /\ event'.answers = answers
        /\ event'.approvals = {} /\ event'.plan = None
    BY <1>3, <1>11, TransitionParts
  <2>2. event.package = Unresolved(asked)
    BY <1>11 DEF Kept, Inv, PackageIsOpen
  <2>3. PackageBeyond'
    BY <1>3, <1>4, <1>5, <1>11, <2>1, <2>2 DEF PackageBeyond
  <2>4. ApprovalsInOrder' /\ Supplied'
    BY <1>1, <1>11, <2>1 DEF Kept, ApprovalsInOrder, Supplied, Early
  <2>5. EventTyped'
    BY <1>3, <1>4, <1>11, <2>1 DEF EventTyped, States
  <2>6. HandedOn'
    BY <2>1 DEF HandedOn, Gates
  <2> QED
    BY <1>6, <1>7, <1>8, <2>3, <2>4, <2>5, <2>6 DEF Kept
<1>12. CASE /\ event.state \in {"QUESTIONS_PENDING", "USER_DECISION"}
            /\ event' = [event EXCEPT !.state = "USER_DECISION"]
  <2>1. /\ event'.state = "USER_DECISION" /\ event'.before = event.before
        /\ event'.package = event.package /\ event'.pending = event.pending
        /\ event'.answers = event.answers /\ event'.approvals = event.approvals
        /\ event'.plan = event.plan
    BY <1>12 DEF Kept, Inv, IsRecord
  <2>2. PackageBeyond' /\ HandedOn'
    BY <2>1 DEF PackageBeyond, HandedOn, Gates, Early
  <2>3. ApprovalsInOrder' /\ Supplied'
    BY <1>1, <1>12, <2>1 DEF Kept, ApprovalsInOrder, Supplied, Early
  <2>4. EventTyped'
    BY <1>1, <1>12, <2>1 DEF Kept, EventTyped, States
  <2> QED
    BY <1>6, <1>7, <1>8, <2>2, <2>3, <2>4 DEF Kept
<1> QED
  BY <1>2, <1>10, <1>11, <1>12

LEMMA PrepareKept ==
    ASSUME Kept, NEW design \in Designs, PrepareArchitecture(design)
    PROVE  Kept'
<1> DEFINE package == IF asked = {} THEN None ELSE Reduced(Unresolved(asked))
           answers == IF asked = {} THEN {} ELSE OpenAnswers
           Moved(state) == Transition(state, package, answers, {}, None)
           waiting == [Moved("ADR_PENDING_APPROVAL") EXCEPT
                          !.package = None, !.pending = PendingAdrs(design)]
<1>1. /\ UNCHANGED <<asked, rows, approvals, plans, audit>>
      /\ event.state = "ARCHITECTURE_PENDING"
      /\ HasRoom(designs, design) /\ designs' = Persisted(designs, design)
      /\ \/ event' = event
         \/ event' = Moved("PM_FINALIZATION")
         \/ PendingAdrs(design) # {} /\ event' = waiting
         \/ event' = Moved("BLOCKED")
  BY DEF PrepareArchitecture, OpenAnswers
<1>2. /\ answers \subseteq rows
      /\ package # None => IsPackage(package)
      /\ answers # {} => Begun(package)
      /\ ~AnsweredAgain => answers = rows
  <2>1. asked \subseteq Questions /\ OpenAnswers \subseteq rows
    BY DEF Kept, Inv, OpenAnswers, Applied
  <2>2. \A r \in OpenAnswers : RowWellFormed(r) /\ r.base = Unresolved(asked)
    BY DEF Kept, RowsWellFormed, OpenAnswers, Applied
  <2>3. /\ IsPackage(Reduced(Unresolved(asked)))
        /\ OpenAnswers # {} => Begun(Reduced(Unresolved(asked)))
    BY <2>1, <2>2, UnresolvedTyped, ResolveTyped DEF Reduced, OpenAnswers
  <2>4. asked = {} => rows = {}
    BY HarmlessContinue DEF Kept, AskedToAnswer
  <2>5. ~AnsweredAgain => OpenAnswers = rows
    BY DEF AnsweredAgain, OpenAnswers, Applied
  <2> QED
    BY <2>1, <2>3, <2>4, <2>5
<1> HIDE DEF package, answers
<1>3. /\ designs' \in Seq(Designs) /\ Len(designs') <= MaxRevisions
      /\ designs' # <<>> /\ Last(designs') = design
  BY <1>1, PersistedFacts DEF Kept, Supplied
<1>4. PendingAdrs(design) \subseteq Adrs
  BY DeliveryAssumption DEF PendingAdrs, AdrsWellFormed
<1>5. Inv'
  BY ArchitectureInv DEF Kept
<1>6. RowsWellFormed' /\ approvals = {}
  BY <1>1 DEF Kept, RowsWellFormed, ApprovalsInOrder
<1>7. Supplied'
  BY <1>1, <1>3 DEF Kept, Supplied
<1>8. rows # {} => Builds(Reduced(Unresolved(asked))')
  <2>1. Reduced(Unresolved(asked))' = Reduced(Unresolved(asked))
    BY <1>1 DEF Reduced, Applied
  <2> QED
    BY <1>1, <2>1 DEF Kept, PackageBeyond, Early
<1>9. CASE event' = event
  <2>1. AskedToAnswer' /\ PackageBeyond'
    BY <1>1, <1>8, <1>9 DEF Kept, AskedToAnswer, PackageBeyond
  <2>2. ApprovalsInOrder' /\ EventTyped' /\ HandedOn'
    BY <1>1, <1>9 DEF Kept, ApprovalsInOrder, EventTyped, HandedOn, Gates
  <2> QED
    BY <1>5, <1>6, <1>7, <2>1, <2>2 DEF Kept
<1>10. ASSUME NEW state \in {"PM_FINALIZATION", "BLOCKED"}, event' = Moved(state) PROVE Kept'
  <2>1. /\ event'.state = state /\ event'.before = "ARCHITECTURE_PENDING"
        /\ event'.package = IF answers = {} THEN None ELSE package
        /\ event'.pending = {} /\ event'.answers = answers
        /\ event'.approvals = {} /\ event'.plan = None
    BY <1>1, <1>10, TransitionParts
  <2> HIDE DEF Moved
  <2>2. /\ event'.package = None \/ (answers # {} /\ event'.package = package)
        /\ answers = {} => event'.package = None
    BY <2>1
  <2>3. AskedToAnswer'
    BY <1>1, <1>2, <2>2 DEF Kept, AskedToAnswer
  <2>4. Begun(event'.package)
    BY <1>2, <2>2 DEF Begun
  <2>5. PackageBeyond'
    BY <1>1, <1>8, <2>1, <2>2, <2>4 DEF PackageBeyond, Begun
  <2>6. ApprovalsInOrder'
    BY <1>1, <1>6, <2>1 DEF ApprovalsInOrder, Early
  <2>7. EventTyped'
    BY <1>1, <1>2, <1>6, <2>1, <2>2 DEF EventTyped, States
  <2>8. CurrentApprovals' = {}
    BY <1>1, <1>6 DEF CurrentApprovals
  <2>9. HandedOn'
    BY <1>1, <1>2, <2>1, <2>8 DEF HandedOn, AnsweredAgain
  <2> QED
    BY <1>5, <1>6, <1>7, <2>3, <2>5, <2>6, <2>7, <2>9 DEF Kept
<1>11. CASE PendingAdrs(design) # {} /\ event' = waiting
  <2>1. /\ event'.state = "ADR_PENDING_APPROVAL" /\ event'.before = "ARCHITECTURE_PENDING"
        /\ event'.package = None /\ event'.pending = PendingAdrs(design)
        /\ event'.answers = answers /\ event'.approvals = {} /\ event'.plan = None
    BY <1>1, <1>11 DEF Transition
  <2>2. AskedToAnswer' /\ PackageBeyond'
    BY <1>1, <1>8, <2>1 DEF Kept, AskedToAnswer, PackageBeyond, Begun
  <2> HIDE DEF waiting
  <2>3. ApprovalsInOrder'
    BY <1>1, <1>3, <1>6, <1>11, <2>1 DEF ApprovalsInOrder, Early
  <2>4. EventTyped' /\ HandedOn'
    BY <1>1, <1>2, <1>4, <1>6, <2>1 DEF EventTyped, HandedOn, States, Gates
  <2> QED
    BY <1>5, <1>6, <1>7, <2>2, <2>3, <2>4 DEF Kept
<1> QED
  BY <1>1, <1>9, <1>10, <1>11

(* What a step keeps that leaves the questions and the answers alone       *)
LEMMA RowsStay ==
    ASSUME Kept, UNCHANGED <<asked, rows>>
    PROVE  /\ RowsWellFormed'
           /\ event.state \notin Early /\ rows # {} => Builds(Reduced(Unresolved(asked))')
           /\ CurrentAnswers' = CurrentAnswers
<1>1. Reduced(Unresolved(asked))' = Reduced(Unresolved(asked))
  BY DEF Reduced, Applied
<1> QED
  BY <1>1 DEF Kept, RowsWellFormed, PackageBeyond, CurrentAnswers, Bases

LEMMA ApproveKept ==
    ASSUME Kept, NEW d \in event.pending, ApproveAdr(d)
    PROVE  Kept'
<1> DEFINE approved == approvals \union {d}
           b == Bundle(Last(designs), approved, None, None)
           moved == [Transition("PM_FINALIZATION", None, {}, approved, None) EXCEPT
                       !.pending = event.pending]
<1>1. /\ UNCHANGED <<asked, rows, designs, plans, audit>> /\ approvals' = approved
      /\ d \in event.pending \ approvals
      /\ \/ event' = event
         \/ approved = event.pending /\ ArchitectureComplete(b) /\ event' = moved
  BY DEF ApproveAdr
<1>2. /\ event.state = "ADR_PENDING_APPROVAL"
      /\ event.pending = PendingAdrs(Last(designs)) /\ event.pending # {}
      /\ approved \subseteq event.pending /\ event.pending \subseteq Adrs
  BY <1>1 DEF Kept, ApprovalsInOrder, EventTyped
<1>3. Inv'
  BY LaterCommandsInv DEF Kept
<1>4. RowsWellFormed' /\ (rows # {} => Builds(Reduced(Unresolved(asked))'))
  BY <1>1, <1>2, RowsStay DEF Early
<1>5. CASE event' = event
  <2>1. AskedToAnswer' /\ PackageBeyond'
    BY <1>1, <1>4, <1>5 DEF Kept, AskedToAnswer, PackageBeyond
  <2>2. ApprovalsInOrder' /\ Supplied' /\ EventTyped' /\ HandedOn'
    BY <1>1, <1>2, <1>5 DEF Kept, ApprovalsInOrder, Supplied, EventTyped, HandedOn, Gates, Early
  <2> QED
    BY <1>3, <1>4, <2>1, <2>2 DEF Kept
<1>6. CASE approved = event.pending /\ ArchitectureComplete(b) /\ event' = moved
  <2>1. /\ event'.state = "PM_FINALIZATION" /\ event'.before = "ADR_PENDING_APPROVAL"
        /\ event'.package = None /\ event'.pending = event.pending /\ event'.answers = {}
        /\ event'.approvals = approved /\ event'.plan = None
    BY <1>2, <1>6 DEF Transition
  <2>2. rows = {}
    <3>1. BlockingQuestions(b) = {}
      BY <1>6 DEF ArchitectureComplete, Bundle, SettledBy
    <3>2. CanContinue(Unresolved(asked))
      BY <3>1, HarmlessContinue DEF BlockingQuestions, Bundle, Kept, Inv
    <3> QED
      BY <3>2 DEF Kept, AskedToAnswer
  <2> HIDE DEF moved, b
  <2>3. AskedToAnswer' /\ PackageBeyond'
    BY <1>1, <2>1, <2>2 DEF AskedToAnswer, PackageBeyond, Begun
  <2>4. ApprovalsInOrder' /\ EventTyped'
    BY <1>1, <1>2, <1>6, <2>1 DEF ApprovalsInOrder, EventTyped, States, Early
  <2>5. Supplied'
    BY <1>1, <1>2, <2>1 DEF Kept, Supplied, Early
  <2>6. ~PartlyApproved(Last(designs)) => CurrentApprovals' = approved
    BY <1>1, <1>2 DEF PartlyApproved, CurrentApprovals
  <2>7. HandedOn'
    BY <1>1, <2>1, <2>2, <2>6 DEF HandedOn
  <2> QED
    BY <1>3, <1>4, <2>3, <2>4, <2>5, <2>7 DEF Kept
<1> QED
  BY <1>1, <1>5, <1>6

(* What a step keeps that hands on the evidence as it is stored            *)
LEMMA GateKept ==
    ASSUME Kept, EvidenceVerified, event.state \in {"PM_FINALIZATION", "SPEC_AUDIT"},
           UNCHANGED <<asked, rows, designs, approvals>>,
           NEW state \in {"SPEC_AUDIT", "READY_FOR_ISSUES", "BLOCKED"},
           state = "BLOCKED" => event.state = "SPEC_AUDIT",
           NEW plan \in ToSet(plans'),
           event' = Transition(state, PreparePackage, CurrentAnswers, CurrentApprovals, plan),
           Inv', Supplied'
    PROVE  Kept'
<1>1. /\ event'.state = state /\ event'.before = event.state
      /\ event'.package = IF CurrentAnswers = {} THEN None ELSE PreparePackage
      /\ event'.pending = {} /\ event'.answers = CurrentAnswers
      /\ event'.approvals = CurrentApprovals /\ event'.plan = plan
  BY TransitionParts
<1>2. /\ CurrentAnswers \subseteq rows /\ CurrentApprovals \subseteq approvals
      /\ PreparePackage # None => IsPackage(PreparePackage)
      /\ CurrentAnswers # {} => Begun(PreparePackage)
      /\ ~AnsweredAgain => CurrentAnswers = rows
  BY CurrentParts DEF Kept
<1>3. RowsWellFormed' /\ (rows # {} => Builds(Reduced(Unresolved(asked))'))
  BY RowsStay DEF Early
<1>4. CurrentApprovals' = CurrentApprovals
  BY DEF CurrentApprovals
<1>5. AskedToAnswer' /\ PackageBeyond'
  BY <1>1, <1>2, <1>3 DEF Kept, AskedToAnswer, PackageBeyond, Begun
<1>6. ApprovalsInOrder' /\ EventTyped'
  BY <1>1, <1>2 DEF Kept, ApprovalsInOrder, EventTyped, States, Early
<1>7. HandedOn'
  BY <1>1, <1>2, <1>4 DEF HandedOn, AnsweredAgain
<1> QED
  BY <1>3, <1>5, <1>6, <1>7 DEF Kept

LEMMA FinalizeKept ==
    ASSUME Kept, NEW plan \in Plans, Finalize(plan)
    PROVE  Kept'
<1>1. /\ UNCHANGED <<asked, rows, designs, approvals, audit>>
      /\ event.state = "PM_FINALIZATION" /\ EvidenceVerified
      /\ HasRoom(plans, plan) /\ plans' = Persisted(plans, plan)
      /\ \/ event' = event
         \/ event' =
              Transition("SPEC_AUDIT", PreparePackage, CurrentAnswers, CurrentApprovals, plan)
  BY DEF Finalize
<1>2. /\ plans' \in Seq(Plans) /\ Len(plans') <= MaxRevisions
      /\ ToSet(plans) \subseteq ToSet(plans') /\ plan \in ToSet(plans')
  BY <1>1, PersistedFacts DEF Kept, Supplied
<1>3. designs # <<>>
  BY <1>1 DEF Kept, Supplied, Early
<1>4. Inv' /\ Supplied'
  BY <1>1, <1>2, <1>3, LaterCommandsInv DEF Kept, Supplied
<1>5. CASE event' = event
  <2>1. RowsWellFormed' /\ (rows # {} => Builds(Reduced(Unresolved(asked))'))
    BY <1>1, RowsStay DEF Early
  <2>2. AskedToAnswer' /\ PackageBeyond' /\ ApprovalsInOrder' /\ EventTyped'
    BY <1>1, <1>2, <1>5, <2>1 DEF Kept, AskedToAnswer, PackageBeyond, ApprovalsInOrder, EventTyped
  <2>3. CurrentApprovals' = CurrentApprovals
    BY <1>1 DEF CurrentApprovals
  <2>4. HandedOn'
    BY <1>1, <1>5, <2>3 DEF Kept, HandedOn, AnsweredAgain, Recovered
  <2> QED
    BY <1>4, <2>1, <2>2, <2>4 DEF Kept
<1>6. CASE event' = Transition("SPEC_AUDIT", PreparePackage, CurrentAnswers, CurrentApprovals, plan)
  BY <1>1, <1>2, <1>4, <1>6, GateKept
<1> QED
  BY <1>1, <1>5, <1>6

LEMMA AuditKept ==
    ASSUME Kept, NEW plan \in ToSet(plans), Audit(plan)
    PROVE  Kept'
<1> DEFINE a == AuditOf(Bundle(Last(designs), CurrentApprovals, PreparePackage, plan))
           state == IF ReadyForGithub(a.status) THEN "READY_FOR_ISSUES" ELSE "BLOCKED"
<1>1. /\ UNCHANGED <<asked, rows, designs, approvals, plans>>
      /\ event.state = "SPEC_AUDIT" /\ EvidenceVerified /\ audit' = a
      /\ event' = Transition(state, PreparePackage, CurrentAnswers, CurrentApprovals, plan)
  BY DEF Audit
<1>2. a.plan = plan /\ a.answers = CurrentAnswers /\ CurrentAnswers \subseteq rows
  BY CurrentParts DEF AuditOf, Bundle, Kept
<1>3. designs # <<>>
  BY <1>1 DEF Kept, Supplied, Early
<1>4. Inv' /\ Supplied'
  BY <1>1, <1>2, <1>3, LaterCommandsInv DEF Kept, Supplied
<1>5. state \in {"READY_FOR_ISSUES", "BLOCKED"}
  OBVIOUS
<1> HIDE DEF a, state
<1> QED
  BY <1>1, <1>4, <1>5, GateKept

LEMMA ResumeKept ==
    ASSUME Kept, NEW design \in Designs, NEW plan \in Plans, Resume(design, plan)
    PROVE  Kept'
<1>1. /\ UNCHANGED <<asked, rows, designs, approvals, plans, audit>>
      /\ event.state = "BLOCKED" /\ event' = Transition(event.before, None, {}, {}, None)
  BY DEF Resume
<1>2. /\ event'.state = event.before /\ event'.before = "BLOCKED" /\ event'.package = None
      /\ event'.pending = {} /\ event'.answers = {} /\ event'.approvals = {}
      /\ event'.plan = None
  BY <1>1, TransitionParts
<1>3. /\ event.before \in {"ARCHITECTURE_PENDING", "SPEC_AUDIT"}
      /\ event.before = "ARCHITECTURE_PENDING" => approvals = {}
      /\ designs # <<>>
  BY <1>1 DEF Kept, ApprovalsInOrder, Supplied, Early
<1>4. Inv'
  BY LaterCommandsInv DEF Kept
<1>5. RowsWellFormed' /\ (rows # {} => Builds(Reduced(Unresolved(asked))'))
  BY <1>1, RowsStay DEF Early
<1>6. AskedToAnswer' /\ PackageBeyond'
  BY <1>1, <1>2, <1>5 DEF Kept, AskedToAnswer, PackageBeyond, Begun
<1>7. ApprovalsInOrder' /\ Supplied' /\ EventTyped'
  BY <1>1, <1>2, <1>3 DEF Kept, ApprovalsInOrder, Supplied, EventTyped, States, Early
<1>8. HandedOn'
  BY <1>2 DEF HandedOn, Recovered
<1> QED
  BY <1>4, <1>5, <1>6, <1>7, <1>8 DEF Kept

(* audit run stores at most an audit, readiness check nothing but its      *)
(* verdict.                                                                *)
LEMMA ReadKept ==
    ASSUME Kept, UNCHANGED <<asked, event, rows, designs, approvals, plans>>,
           Supplied', Inv'
    PROVE  Kept'
<1>1. RowsWellFormed' /\ (event.state \notin Early /\ rows # {}
                            => Builds(Reduced(Unresolved(asked))'))
  BY RowsStay
<1>2. AskedToAnswer' /\ PackageBeyond'
  BY <1>1 DEF Kept, AskedToAnswer, PackageBeyond
<1>3. ApprovalsInOrder' /\ EventTyped'
  BY DEF Kept, ApprovalsInOrder, EventTyped
<1>4. CurrentApprovals' = CurrentApprovals
  BY DEF CurrentApprovals
<1>5. HandedOn'
  BY <1>4 DEF Kept, HandedOn, AnsweredAgain, Recovered
<1> QED
  BY <1>1, <1>2, <1>3, <1>5 DEF Kept

LEMMA NextKept == Kept /\ [Next]_vars => Kept'
<1> SUFFICES ASSUME Kept, [Next]_vars PROVE Kept'
  OBVIOUS
<1>1. Inv'
  BY NextInv DEF Kept
<1>2. CASE AuditRun
  <2>1. /\ UNCHANGED <<asked, event, rows, designs, approvals, plans>>
        /\ plans # <<>> /\ audit' = AuditOf(Gate)
    BY <1>2 DEF AuditRun, PlanCurrent
  <2>2. audit'.plan = Last(plans) /\ audit'.answers = CurrentAnswers
    BY <2>1 DEF AuditOf, Gate, Bundle
  <2>3. Last(plans) \in ToSet(plans)
    BY <2>1, SetOfSequence DEF Kept, Supplied
  <2>4. CurrentAnswers \subseteq rows
    BY CurrentParts DEF Kept
  <2>5. Supplied'
    BY <2>1, <2>2, <2>3, <2>4 DEF Kept, Supplied
  <2> QED
    BY <1>1, <2>1, <2>5, ReadKept
<1>3. CASE CheckReadiness \/ UNCHANGED vars
  <2>1. UNCHANGED <<asked, event, rows, designs, approvals, plans, audit>>
    BY <1>3 DEF CheckReadiness, vars
  <2>2. Supplied'
    BY <2>1 DEF Kept, Supplied
  <2> QED
    BY <1>1, <2>1, <2>2, ReadKept
<1> QED
  BY <1>2, <1>3, AnalyzeKept, AnswerKept, PrepareKept, ApproveKept, FinalizeKept, AuditKept,
     ResumeKept
  DEF Next

(* Types: what is stored was supplied or computed from it, and a transition*)
(* registers only answers, approvals and a plan that are stored.           *)
THEOREM DeliveryTypes == Spec => []TypeOK
<1>1. ASSUME Kept PROVE TypeOK
  <2>1. /\ designs \in BoundedSeq(Designs, MaxRevisions)
        /\ plans \in BoundedSeq(Plans, MaxRevisions)
    BY <1>1, DeliveryAssumption DEF Kept, Supplied, BoundedSeq, SeqOf
  <2> QED
    BY <1>1, <2>1 DEF TypeOK, Kept, EventTyped, Supplied, RowsWellFormed, RowWellFormed
<1> QED
  BY <1>1, InitKept, NextKept, PTL DEF Spec

(* No gate refuses evidence that an earlier one has accepted: except after *)
(* an answer to a resolved question, over a design with some ADRs approved *)
(* beforehand, and after a recovery, the latest transition registers       *)
(* exactly the answers and approvals that the next command reads from the  *)
(* store (verifiedGateEvidence of commands/evidence.js).                   *)
THEOREM EvidenceIsHandedOn == Spec => []EvidenceHolds
<1>1. ASSUME Kept PROVE EvidenceHolds
  <2> SUFFICES ASSUME /\ event.state \in Gates
                      /\ ~AnsweredAgain /\ ~PartlyApproved(Last(designs)) /\ ~Recovered
               PROVE  EvidenceVerified
    BY DEF EvidenceHolds, Gates
  <2>1. event.answers = rows /\ event.approvals = CurrentApprovals
    BY <1>1 DEF Kept, HandedOn
  <2>2. CurrentAnswers = rows
    BY <1>1, CurrentParts DEF Kept
  <2>3. HistoryReplays
    BY <1>1, ReplaysPointwise DEF Kept, Inv
  <2>4. Bases \subseteq {Unresolved(asked)}
    BY DEF AnsweredAgain, Bases
  <2>5. Bases = {} \/ Bases = {Unresolved(asked)}
    BY <2>4
  <2>6. Cardinality({}) = 0 /\ Cardinality({Unresolved(asked)}) = 1
    BY FS_Singleton, FS_EmptySet
  <2>7. Cardinality(Bases) <= 1
    BY <2>5, <2>6
  <2> QED
    BY <2>1, <2>2, <2>3, <2>7 DEF EvidenceVerified
<1> QED
  BY <1>1, InitKept, NextKept, PTL DEF Spec

-----------------------------------------------------------------------------
(* Recursive functions on the naturals: induction over sets of naturals    *)

LEMMA Induction ==
    ASSUME NEW S \in SUBSET Nat, 0 \in S, \A n \in S : n + 1 \in S
    PROVE  S = Nat
<1> SUFFICES ASSUME Nat \ S # {} PROVE FALSE
  OBVIOUS
<1>1. PICK x \in Nat \ S : \A y \in Nat \ S : x <= y
  BY MinExists
<1>2. x - 1 \in Nat
  BY <1>1
<1>3. x - 1 \in S
  BY <1>1, <1>2
<1> QED
  BY <1>1, <1>3

Iterates(f, start, step) ==
    /\ f[0] = start /\ DOMAIN f = Nat /\ f = [k \in Nat |-> f[k]]
    /\ \A k \in Nat : k # 0 => f[k] = step[f[k-1]]

(* A step that is iterated on sets gives a function.                       *)
LEMMA Iteration ==
    ASSUME NEW U, NEW step \in [SUBSET U -> SUBSET U], NEW start \in SUBSET U
    PROVE  \E f \in [Nat -> SUBSET U] : Iterates(f, start, step)
<1> DEFINE Begins(n) == {g \in [0..n -> SUBSET U] :
                           g[0] = start /\ \A k \in 1..n : g[k] = step[g[k-1]]}
<1>0. \A n \in Nat : \A g : g \in Begins(n) <=>
         /\ g \in [0..n -> SUBSET U] /\ g[0] = start
         /\ \A k \in 1..n : g[k] = step[g[k-1]]
  OBVIOUS
<1> HIDE DEF Begins
<1>1. \A n \in Nat : Begins(n) # {}
  <2> DEFINE S == {n \in Nat : Begins(n) # {}}
  <2>1. 0 \in S
    <3> DEFINE g == [k \in 0..0 |-> start]
    <3>1. g \in [0..0 -> SUBSET U] /\ g[0] = start /\ 1..0 = {}
      OBVIOUS
    <3> HIDE DEF g
    <3>2. g \in Begins(0)
      BY <1>0, <3>1
    <3> QED
      BY <3>2
  <2>2. ASSUME NEW n \in S PROVE n + 1 \in S
    <3>1. PICK g : g \in Begins(n)
      BY <2>2
    <3>2. /\ n \in Nat /\ g \in [0..n -> SUBSET U] /\ g[0] = start
          /\ \A k \in 1..n : g[k] = step[g[k-1]]
      BY <1>0, <2>2, <3>1
    <3> DEFINE h == [k \in 0..(n+1) |-> IF k = n + 1 THEN step[g[n]] ELSE g[k]]
    <3>3. h \in [0..(n+1) -> SUBSET U]
      BY <3>2
    <3>4. h[n+1] = step[g[n]] /\ \A k \in 0..n : h[k] = g[k]
      BY <3>2
    <3> HIDE DEF h
    <3>5. ASSUME NEW k \in 1..(n+1) PROVE h[k] = step[h[k-1]]
      <4>1. CASE k = n + 1
        BY <3>2, <3>4, <4>1
      <4>2. CASE k \in 1..n
        BY <3>2, <3>4, <4>2
      <4> QED
        BY <3>2, <4>1, <4>2
    <3>6. h[0] = start /\ n + 1 \in Nat
      BY <3>2, <3>4
    <3>7. h \in Begins(n + 1)
      BY <1>0, <3>3, <3>5, <3>6
    <3> QED
      BY <3>6, <3>7
  <2>3. S \in SUBSET Nat
    OBVIOUS
  <2> HIDE DEF S
  <2>4. S = Nat
    BY <2>1, <2>2, <2>3, Induction
  <2> QED
    BY <2>4 DEF S
<1>2. \A k \in Nat : \A n, m \in Nat : k <= n /\ k <= m =>
         \A g \in Begins(n), h \in Begins(m) : g[k] = h[k]
  <2> DEFINE Agree(k) == \A n, m \in Nat : k <= n /\ k <= m =>
                            \A g \in Begins(n), h \in Begins(m) : g[k] = h[k]
             S == {k \in Nat : Agree(k)}
  <2>1. Agree(0)
    BY <1>0
  <2>2. ASSUME NEW k \in Nat, Agree(k) PROVE Agree(k + 1)
    <3> SUFFICES ASSUME NEW n \in Nat, NEW m \in Nat, k + 1 <= n, k + 1 <= m,
                        NEW g \in Begins(n), NEW h \in Begins(m)
                 PROVE  g[k + 1] = h[k + 1]
      OBVIOUS
    <3>1. g[k] = h[k]
      BY <2>2
    <3>2. k + 1 \in 1..n /\ k + 1 \in 1..m /\ (k + 1) - 1 = k
      OBVIOUS
    <3>3. g[k+1] = step[g[(k+1)-1]] /\ h[k+1] = step[h[(k+1)-1]]
      BY <1>0, <3>2
    <3> QED
      BY <3>1, <3>2, <3>3
  <2> HIDE DEF Agree
  <2>3. S \in SUBSET Nat /\ 0 \in S /\ \A k \in S : k + 1 \in S
    BY <2>1, <2>2
  <2> HIDE DEF S
  <2>4. S = Nat
    BY <2>3, Induction
  <2> QED
    BY <2>4 DEF S, Agree
<1> DEFINE some(n) == CHOOSE g : g \in Begins(n)
           f == [k \in Nat |-> some(k)[k]]
<1>3. \A n \in Nat : some(n) \in Begins(n)
  BY <1>1
<1> HIDE DEF some
<1>4. ASSUME NEW k \in Nat PROVE f[k] \in SUBSET U /\ f[k] = some(k)[k]
  <2>1. k \in 0..k
    OBVIOUS
  <2> QED
    BY <1>0, <1>3, <2>1
<1>5. f[0] = start
  BY <1>0, <1>3
<1>6. ASSUME NEW k \in Nat, k # 0 PROVE f[k] = step[f[k-1]]
  <2>1. k - 1 \in Nat /\ k \in 1..k /\ k - 1 <= k /\ k - 1 <= k - 1
    BY <1>6
  <2>2. some(k)[k] = step[some(k)[k-1]]
    BY <1>0, <1>3, <2>1
  <2>3. some(k) \in Begins(k) /\ some(k-1) \in Begins(k-1)
    BY <1>3, <2>1
  <2>4. some(k)[k-1] = some(k-1)[k-1]
    BY <1>2, <2>1, <2>3
  <2> QED
    BY <1>4, <2>1, <2>2, <2>4
<1>7. f \in [Nat -> SUBSET U]
  BY <1>4
<1> QED
  BY <1>5, <1>6, <1>7 DEF Iterates

-----------------------------------------------------------------------------
(* Graphs *)

(* What Acyclic leaves of the nodes after so many rounds                   *)
Peels(f, nodes, edges) ==
    /\ f \in [Nat -> SUBSET nodes] /\ f[0] = nodes
    /\ \A k \in Nat : f[k+1] = {n \in f[k] : \E m \in f[k] : <<m, n>> \in edges}

LEMMA AcyclicPeels ==
    ASSUME NEW nodes, NEW edges
    PROVE  \E f : /\ Peels(f, nodes, edges)
                  /\ Acyclic(nodes, edges) <=> f[Cardinality(nodes)] = {}
<1> DEFINE rest(S) == {n \in S : \E m \in S : <<m, n>> \in edges}
           Is(f) == f = [k \in Nat |-> IF k = 0 THEN nodes ELSE rest(f[k-1])]
           step == [S \in SUBSET nodes |-> rest(S)]
<1>1. step \in [SUBSET nodes -> SUBSET nodes]
  OBVIOUS
<1>2. nodes \in SUBSET nodes /\ \A S \in SUBSET nodes : step[S] = rest(S)
  OBVIOUS
<1> HIDE DEF step
<1>3. PICK g \in [Nat -> SUBSET nodes] : Iterates(g, nodes, step)
  BY <1>1, <1>2, Iteration
<1>4. Is(g)
  <2>1. \A k \in Nat : k # 0 => g[k-1] \in SUBSET nodes
    OBVIOUS
  <2> HIDE DEF rest
  <2>2. \A k \in Nat : g[k] = IF k = 0 THEN nodes ELSE rest(g[k-1])
    BY <1>2, <1>3, <2>1 DEF Iterates
  <2> QED
    BY <1>3, <2>2 DEF Iterates
<1>5. PICK f : Is(f) /\ (Acyclic(nodes, edges) <=> f[Cardinality(nodes)] = {})
  BY <1>4 DEF Acyclic
<1>6. f[0] = nodes /\ \A k \in Nat : f[k+1] = rest(f[k])
  <2>1. ASSUME NEW k \in Nat PROVE f[k+1] = rest(f[k])
    <3>1. k + 1 \in Nat /\ k + 1 # 0 /\ (k + 1) - 1 = k
      OBVIOUS
    <3> HIDE DEF rest
    <3> QED
      BY <1>5, <3>1
  <2> QED
    BY <1>5, <2>1
<1>7. f \in [Nat -> SUBSET nodes]
  <2> DEFINE S == {k \in Nat : f[k] \in SUBSET nodes}
  <2>1. 0 \in S /\ \A k \in S : k + 1 \in S
    BY <1>6
  <2>2. S \in SUBSET Nat
    OBVIOUS
  <2> HIDE DEF S
  <2>3. S = Nat
    BY <2>1, <2>2, Induction
  <2>4. \A k \in Nat : f[k] \in SUBSET nodes
    BY <2>3 DEF S
  <2>5. DOMAIN f = Nat /\ f = [k \in Nat |-> f[k]]
    BY <1>5
  <2> QED
    BY <2>4, <2>5
<1> QED
  BY <1>5, <1>6, <1>7 DEF Peels

(* Where Acyclic holds the nodes can be ranked along the edges.            *)
LEMMA AcyclicRanks ==
    ASSUME NEW nodes, IsFiniteSet(nodes), NEW edges, Acyclic(nodes, edges)
    PROVE  \E rank \in [nodes -> 1..Cardinality(nodes)] :
              \A m, n \in nodes : <<m, n>> \in edges => rank[m] < rank[n]
<1>1. PICK f : Peels(f, nodes, edges) /\ f[Cardinality(nodes)] = {}
  BY AcyclicPeels
<1> DEFINE N == Cardinality(nodes)
           gone(n) == {k \in Nat : n \notin f[k]}
           rank == [n \in nodes |-> Min(gone(n))]
<1>2. N \in Nat
  BY FS_CardinalityType
<1>3. ASSUME NEW n \in nodes
      PROVE  /\ Min(gone(n)) \in gone(n) /\ Min(gone(n)) <= N
             /\ \A k \in Nat : k < Min(gone(n)) => n \in f[k]
  <2>1. N \in gone(n) /\ gone(n) \in SUBSET Nat
    BY <1>1, <1>2
  <2>2. Min(gone(n)) \in gone(n) /\ \A k \in gone(n) : Min(gone(n)) <= k
    BY <2>1, MinExists
  <2>3. Min(gone(n)) \in Nat /\ \A k \in Nat : k \notin gone(n) => n \in f[k]
    BY <2>1, <2>2
  <2> HIDE DEF gone
  <2>4. \A k \in Nat : k < Min(gone(n)) => k \notin gone(n)
    BY <2>2, <2>3
  <2> QED
    BY <2>1, <2>2, <2>3, <2>4
<1> HIDE DEF N
<1>4. ASSUME NEW n \in nodes PROVE Min(gone(n)) \in 1..N
  <2>1. 0 \notin gone(n)
    BY <1>1 DEF Peels
  <2>2. Min(gone(n)) \in Nat
    BY <1>3
  <2> HIDE DEF gone
  <2> QED
    BY <1>2, <1>3, <2>1, <2>2
<1>5. ASSUME NEW m \in nodes, NEW n \in nodes, <<m, n>> \in edges
      PROVE  Min(gone(m)) < Min(gone(n))
  <2> DEFINE k == Min(gone(n)) - 1
  <2>1. k \in Nat /\ Min(gone(n)) = k + 1 /\ k < Min(gone(n))
    BY <1>2, <1>4
  <2>2. n \in f[k] /\ n \notin f[k+1]
    BY <1>3, <2>1
  <2>3. m \notin f[k]
    BY <1>1, <1>5, <2>1, <2>2 DEF Peels
  <2>4. Min(gone(m)) <= k
    BY <1>2, <1>3, <1>4, <2>1, <2>3
  <2> QED
    BY <1>2, <1>4, <2>1, <2>4
<1>6. rank \in [nodes -> 1..N]
  BY <1>4
<1> HIDE DEF gone
<1> QED
  BY <1>5, <1>6 DEF N

(* And where they can be ranked it holds.                                  *)
LEMMA RankedAcyclic ==
    ASSUME NEW nodes, IsFiniteSet(nodes), NEW edges, NEW rank \in [nodes -> Nat],
           \A m, n \in nodes : <<m, n>> \in edges => rank[m] < rank[n]
    PROVE  Acyclic(nodes, edges)
<1>1. PICK f : /\ Peels(f, nodes, edges)
               /\ Acyclic(nodes, edges) <=> f[Cardinality(nodes)] = {}
  BY AcyclicPeels
<1> DEFINE N == Cardinality(nodes)
<1>2. N \in Nat
  BY FS_CardinalityType
<1>3. \A k \in Nat : f[k] \subseteq nodes /\ IsFiniteSet(f[k]) /\ Cardinality(f[k]) \in Nat
  <2> TAKE k \in Nat
  <2>1. f[k] \subseteq nodes
    BY <1>1 DEF Peels
  <2> QED
    BY <2>1, FS_Subset, FS_CardinalityType
<1>4. ASSUME NEW k \in Nat, f[k] # {}
      PROVE  /\ f[k+1] \subseteq f[k]
             /\ Cardinality(f[k+1]) + 1 <= Cardinality(f[k])
  <2> DEFINE ranks == {rank[n] : n \in f[k]}
  <2>1. ranks \in SUBSET Nat /\ ranks # {}
    BY <1>3, <1>4
  <2>2. Min(ranks) \in ranks /\ \A r \in ranks : Min(ranks) <= r
    BY <2>1, MinExists
  <2>3. PICK n \in f[k] : rank[n] = Min(ranks)
    BY <2>2
  <2>4. \A m \in f[k] : rank[m] \in ranks /\ rank[m] \in Nat
    BY <1>3
  <2> HIDE DEF ranks
  <2>9. \A m \in f[k] : ~(rank[m] < rank[n])
    BY <2>2, <2>3, <2>4
  <2>5. \A m \in f[k] : <<m, n>> \notin edges
    BY <1>3, <2>9
  <2>6. f[k+1] \subseteq f[k] \ {n}
    BY <1>1, <2>5 DEF Peels
  <2>7. IsFiniteSet(f[k] \ {n}) /\ Cardinality(f[k] \ {n}) = Cardinality(f[k]) - 1
    BY <1>3, FS_RemoveElement
  <2>8. Cardinality(f[k+1]) <= Cardinality(f[k] \ {n})
    BY <2>6, <2>7, FS_Subset
  <2> QED
    BY <1>3, <2>6, <2>7, <2>8
<1> DEFINE S == {k \in Nat : f[k] = {} \/ Cardinality(f[k]) + k <= N}
<1>5. 0 \in S
  BY <1>1, <1>2 DEF Peels
<1>6. ASSUME NEW k \in S PROVE k + 1 \in S
  <2>1. k \in Nat /\ k + 1 \in Nat
    BY <1>6
  <2>2. CASE f[k] = {}
    BY <1>1, <2>1, <2>2 DEF Peels
  <2>3. CASE f[k] # {}
    BY <1>2, <1>3, <1>4, <1>6, <2>1, <2>3
  <2> QED
    BY <2>2, <2>3
<1>7. S \in SUBSET Nat
  OBVIOUS
<1>8. S = Nat
  <2> HIDE DEF S
  <2> QED
    BY <1>5, <1>6, <1>7, Induction
<1>9. f[N] = {} \/ Cardinality(f[N]) + N <= N
  BY <1>2, <1>8
<1>10. f[N] = {} \/ Cardinality(f[N]) = 0
  BY <1>2, <1>3, <1>9
<1>11. f[N] = {}
  BY <1>2, <1>3, <1>10, FS_EmptySet
<1> QED
  BY <1>1, <1>11

(* Taking away, again and again, what nothing points to leaves nothing of  *)
(* a finite graph exactly when its nodes can be put in an order along the  *)
(* edges: what the cycle checks of decisions.js (stableTopologicalOrder),  *)
(* issue-plan.js (dependencyCycle) and traceability.js stand for.          *)
THEOREM AcyclicIsRankable ==
    ASSUME NEW nodes, IsFiniteSet(nodes), NEW edges
    PROVE  Acyclic(nodes, edges) <=>
              \E rank \in [nodes -> Nat] :
                  \A m, n \in nodes : <<m, n>> \in edges => rank[m] < rank[n]
<1>1. ASSUME Acyclic(nodes, edges)
      PROVE  \E rank \in [nodes -> Nat] :
                \A m, n \in nodes : <<m, n>> \in edges => rank[m] < rank[n]
  <2>1. PICK rank \in [nodes -> 1..Cardinality(nodes)] :
           \A m, n \in nodes : <<m, n>> \in edges => rank[m] < rank[n]
    BY <1>1, AcyclicRanks
  <2>2. rank \in [nodes -> Nat]
    OBVIOUS
  <2> QED
    BY <2>1, <2>2
<1> QED
  BY <1>1, RankedAcyclic

(* The ends of the edges from a node are downstream of it.                 *)
LEMMA DirectlyDownstream ==
    ASSUME NEW edges, IsFiniteSet(Ends(edges)), NEW x, NEW y, <<x, y>> \in edges
    PROVE  y \in Downstream(edges, x)
<1> DEFINE U == Ends(edges)
           direct == {e[2] : e \in {f \in edges : f[1] = x}}
           more(S) == S \union {e[2] : e \in {f \in edges : f[1] \in S}}
           Is(f) == f = [k \in Nat |-> IF k = 0 THEN direct ELSE more(f[k-1])]
           step == [S \in SUBSET U |-> more(S)]
<1>1. direct \in SUBSET U
  BY DEF Ends
<1>2. step \in [SUBSET U -> SUBSET U]
  BY DEF Ends
<1>3. \A S \in SUBSET U : step[S] = more(S)
  OBVIOUS
<1> HIDE DEF step, direct
<1>4. PICK g \in [Nat -> SUBSET U] : Iterates(g, direct, step)
  BY <1>1, <1>2, Iteration
<1>5. Is(g)
  <2>1. \A k \in Nat : k # 0 => g[k-1] \in SUBSET U
    OBVIOUS
  <2> HIDE DEF more
  <2>2. \A k \in Nat : g[k] = IF k = 0 THEN direct ELSE more(g[k-1])
    BY <1>3, <1>4, <2>1 DEF Iterates
  <2> QED
    BY <1>4, <2>2 DEF Iterates
<1> USE DEF direct
<1>6. PICK f : Is(f) /\ Downstream(edges, x) = f[Cardinality(Ends(edges))]
  BY <1>5 DEF Downstream
<1>7. y \in direct
  <2>1. <<x, y>>[1] = x /\ <<x, y>>[2] = y
    OBVIOUS
  <2> QED
    BY <2>1
<1> DEFINE S == {k \in Nat : y \in f[k]}
<1>8. 0 \in S
  BY <1>6, <1>7
<1>9. ASSUME NEW k \in S PROVE k + 1 \in S
  <2>1. k + 1 \in Nat /\ k + 1 # 0 /\ (k + 1) - 1 = k
    BY <1>9
  <2>2. f[k+1] = more(f[k])
    <3> HIDE DEF more, direct
    <3> QED
      BY <1>6, <2>1
  <2> QED
    BY <1>9, <2>1, <2>2
<1>10. S \in SUBSET Nat
  OBVIOUS
<1>11. S = Nat
  <2> HIDE DEF S
  <2> QED
    BY <1>8, <1>9, <1>10, Induction
<1>12. Cardinality(Ends(edges)) \in Nat
  BY FS_CardinalityType
<1> QED
  BY <1>6, <1>11, <1>12

-----------------------------------------------------------------------------
(* What the validators accept *)

LEMMA PlanKinds ==
    ASSUME NEW p, PlanWellFormed(p)
    PROVE  /\ IsFiniteSet(DOMAIN p.epics) /\ IsFiniteSet(DOMAIN p.issues)
           /\ IsFiniteSet(DOMAIN p.criteria)
           /\ (Requirements \union ArchQuestions \union Adrs) \intersect DOMAIN p.epics = {}
           /\ (Requirements \union ArchQuestions \union Adrs) \intersect DOMAIN p.issues = {}
           /\ (Requirements \union ArchQuestions \union Adrs) \intersect DOMAIN p.criteria = {}
           /\ (DOMAIN p.epics) \intersect DOMAIN p.issues = {}
           /\ (DOMAIN p.epics) \intersect DOMAIN p.criteria = {}
           /\ (DOMAIN p.issues) \intersect DOMAIN p.criteria = {}
           /\ \A c \in DOMAIN p.criteria : p.criteria[c].verifies # {}
<1> DEFINE kinds == <<Requirements \union ArchQuestions \union Adrs,
                      DOMAIN p.epics, DOMAIN p.issues, DOMAIN p.criteria>>
<1>1. /\ \A k \in 2..4 : IsFiniteSet(kinds[k])
      /\ \A k, l \in 1..4 : k # l => kinds[k] \intersect kinds[l] = {}
      /\ \A c \in DOMAIN p.criteria : p.criteria[c].verifies # {}
  BY DEF PlanWellFormed
<1>2. /\ kinds[1] = Requirements \union ArchQuestions \union Adrs
      /\ kinds[2] = DOMAIN p.epics /\ kinds[3] = DOMAIN p.issues /\ kinds[4] = DOMAIN p.criteria
  OBVIOUS
<1> HIDE DEF kinds
<1>3. 2 \in 2..4 /\ 3 \in 2..4 /\ 4 \in 2..4
  OBVIOUS
<1>4. IsFiniteSet(kinds[2]) /\ IsFiniteSet(kinds[3]) /\ IsFiniteSet(kinds[4])
  BY <1>1, <1>3
<1>5. /\ kinds[1] \intersect kinds[2] = {} /\ kinds[1] \intersect kinds[3] = {}
      /\ kinds[1] \intersect kinds[4] = {} /\ kinds[2] \intersect kinds[3] = {}
      /\ kinds[2] \intersect kinds[4] = {} /\ kinds[3] \intersect kinds[4] = {}
  BY <1>1
<1> QED
  BY <1>1, <1>2, <1>4, <1>5

LEMMA NodesFinite ==
    ASSUME NEW p, PlanWellFormed(p), NEW a, AdrsWellFormed(a)
    PROVE  IsFiniteSet(Nodes(p, a)) /\ IsFiniteSet(Ends(Edges(p, a)))
<1>1. /\ IsFiniteSet(Requirements) /\ IsFiniteSet(ArchQuestions) /\ IsFiniteSet(DOMAIN a.adrs)
      /\ IsFiniteSet(DOMAIN p.epics) /\ IsFiniteSet(DOMAIN p.issues)
      /\ IsFiniteSet(DOMAIN p.criteria)
  BY PlanKinds, KindAssumption DEF AdrsWellFormed
<1>2. IsFiniteSet(Nodes(p, a))
  BY <1>1, FS_Union DEF Nodes
<1>3. \A x \in Edges(p, a) : x[2] \in Nodes(p, a)
  <2>1. \A x \in Addresses : x[2] \in ArchQuestions
    BY DEF Addresses
  <2>2. \A x \in ResolvedByEdges(a) \union Affects(a) : x[2] \in DOMAIN a.adrs
    BY DEF ResolvedByEdges, Affects
  <2>3. \A x \in Scopes(p) : x[2] \in DOMAIN p.epics
    BY DEF Scopes
  <2>4. \A x \in HasIssue(p) \union SourceOf(p) : x[2] \in DOMAIN p.issues
    BY DEF HasIssue, SourceOf
  <2>5. \A x \in RequiresDecision(p) \union Blocks(p) : x[2] \in DOMAIN p.issues
    BY DEF RequiresDecision, Blocks
  <2>6. \A x \in Owns(p) \union VerifiedBy(p) : x[2] \in DOMAIN p.criteria
    BY DEF Owns, VerifiedBy
  <2> QED
    BY <2>1, <2>2, <2>3, <2>4, <2>5, <2>6 DEF Edges, Nodes
<1>4. Ends(Edges(p, a)) \subseteq Nodes(p, a)
  BY <1>3 DEF Ends
<1> QED
  BY <1>2, <1>4, FS_Subset

(* Issues that can be started form an order.                               *)
LEMMA StartableRanks ==
    ASSUME NEW p, PlanWellFormed(p), NEW a, ReferencesResolve(p, a), Startable(p)
    PROVE  \E rank \in [DOMAIN p.issues -> 1..Cardinality(DOMAIN p.issues)] :
              \A i \in DOMAIN p.issues : \A j \in p.issues[i].dependencies :
                  j \in DOMAIN p.issues /\ rank[j] < rank[i]
<1> DEFINE nodes == DOMAIN p.issues
           edges == {x \in nodes \X nodes : x[1] \in p.issues[x[2]].dependencies}
<1>1. IsFiniteSet(nodes) /\ Acyclic(nodes, edges)
  BY PlanKinds DEF Startable
<1>2. \A i \in nodes : \A j \in p.issues[i].dependencies : j \in nodes /\ <<j, i>> \in edges
  BY DEF ReferencesResolve
<1> HIDE DEF edges
<1>3. PICK rank \in [nodes -> 1..Cardinality(nodes)] :
         \A m, n \in nodes : <<m, n>> \in edges => rank[m] < rank[n]
  BY <1>1, AcyclicRanks
<1> QED
  BY <1>2, <1>3

LEMMA NoFailures ==
    ASSUME NEW b, NEW audited, NEW expected, NEW advanced
    PROVE  Failures(b, audited, expected, advanced) = {} <=>
              /\ IntegrityRule(b) /\ BlockingDecisionsRule(b) /\ ArchitectureQuestionsRule(b)
              /\ ApprovedAdrsRule(b) /\ EpicMap(b.plan) /\ CoverageRule(b)
              /\ LatestAuditRule(audited, expected) /\ advanced
<1> DEFINE A == Failed("ARTIFACT-INTEGRITY", IntegrityRule(b))
           B == Failed("BLOCKING-DECISIONS", BlockingDecisionsRule(b))
           C == Failed("ARCHITECTURE-QUESTIONS", ArchitectureQuestionsRule(b))
           D == Failed("APPROVED-ADRS", ApprovedAdrsRule(b))
           E == Failed("EPIC-MAP", EpicMap(b.plan))
           F == Failed("REQUIREMENT-AC-COVERAGE", CoverageRule(b))
           G == Failed("LATEST-SPEC-AUDIT", LatestAuditRule(audited, expected))
           H == Failed("ANALYSIS-STATE", advanced)
<1>1. Failures(b, audited, expected, advanced) = UNION {A, B, C, D, E, F, G, H}
  BY DEF Failures
<1>2. /\ A = {} <=> IntegrityRule(b)
      /\ B = {} <=> BlockingDecisionsRule(b)
      /\ C = {} <=> ArchitectureQuestionsRule(b)
      /\ D = {} <=> ApprovedAdrsRule(b)
      /\ E = {} <=> EpicMap(b.plan)
      /\ F = {} <=> CoverageRule(b)
      /\ G = {} <=> LatestAuditRule(audited, expected)
      /\ H = {} <=> advanced
  BY DEF Failed
<1> HIDE DEF A, B, C, D, E, F, G, H
<1>3. UNION {A, B, C, D, E, F, G, H} = {} <=>
         /\ A = {} /\ B = {} /\ C = {} /\ D = {} /\ E = {} /\ F = {} /\ G = {} /\ H = {}
  OBVIOUS
<1> QED
  BY <1>1, <1>2, <1>3

(* What every rule of readiness accepts can be delivered.                  *)
LEMMA AcceptedDelivers ==
    ASSUME NEW b, AdrsWellFormed(b.arch), PlanWellFormed(b.plan),
           IntegrityRule(b), ArchitectureQuestionsRule(b), ApprovedAdrsRule(b), CoverageRule(b)
    PROVE  Deliverable(b.plan, b.arch, b.approved)
<1> DEFINE p == b.plan
           a == b.arch
           edges == Edges(p, a)
           leads == [x \in Requirements \union ArchQuestions |-> Downstream(edges, x)]
<1>1. IsFiniteSet(Ends(edges))
  BY NodesFinite
<1>2. \A x \in Requirements \union ArchQuestions : \A y : <<x, y>> \in edges => y \in leads[x]
  <2> HIDE DEF edges
  <2> QED
    BY <1>1, DirectlyDownstream
<1> HIDE DEF leads
<1>3. ASSUME NEW r \in Requirements
      PROVE  \E i \in (DOMAIN p.issues) \intersect leads[r] :
                \E c \in p.issues[i].criteria \intersect leads[r] :
                    r \in p.issues[i].sources /\ r \in p.criteria[c].verifies
  <2>1. PICK i \in DOMAIN p.issues : \E c \in p.issues[i].criteria :
           <<r, i>> \in SourceOf(p) /\ <<r, c>> \in VerifiedBy(p)
    BY DEF CoverageRule, Covered
  <2>2. PICK c \in p.issues[i].criteria : <<r, i>> \in SourceOf(p) /\ <<r, c>> \in VerifiedBy(p)
    BY <2>1
  <2>3. r \in p.issues[i].sources /\ r \in p.criteria[c].verifies
    BY <2>2 DEF SourceOf, VerifiedBy
  <2>4. <<r, i>> \in edges /\ <<r, c>> \in edges
    BY <2>2 DEF Edges
  <2> QED
    BY <1>2, <2>3, <2>4
<1>4. ASSUME NEW q \in ArchQuestions PROVE (DOMAIN a.adrs) \intersect leads[q] # {}
  <2>1. PICK d \in DOMAIN a.adrs : q \in a.adrs[d].questions
    BY DEF ArchitectureQuestionsRule, ResolvedByAdr
  <2>2. <<q, d>> \in edges
    BY <2>1 DEF Edges, ResolvedByEdges
  <2> QED
    BY <1>2, <2>2
<1>5. ASSUME NEW d \in DOMAIN a.adrs
      PROVE  /\ d \in b.approved \/ a.adrs[d].approval = "approved"
             /\ \A i \in DOMAIN p.issues :
                   a.adrs[d].affected \intersect p.issues[i].sources # {}
                       => d \in p.issues[i].adrs
  <2>1. d \in Approved(b)
    BY DEF ApprovedAdrsRule
  <2>2. AdrsNamed(b)
    BY DEF IntegrityRule, PlanValid
  <2> QED
    BY <2>1, <2>2 DEF Approved, DeclaredApproved, AdrsNamed, RelevantAdrs
<1>6. Plannable(p)
  <2>1. ReferencesResolve(p, a) /\ Startable(p)
    BY DEF IntegrityRule, PlanValid
  <2> QED
    BY <2>1, StartableRanks DEF Plannable
<1> QED
  BY <1>3, <1>4, <1>5, <1>6 DEF Deliverable, leads

(* The trace graph of a plan whose references resolve and whose issues can *)
(* be started has no cycle.                                                *)
LEMMA TraceAcyclic ==
    ASSUME NEW p, PlanWellFormed(p), NEW a, AdrsWellFormed(a),
           ReferencesResolve(p, a), Startable(p)
    PROVE  Acyclic(Nodes(p, a), Edges(p, a))
<1>1. PICK order \in [DOMAIN p.issues -> 1..Cardinality(DOMAIN p.issues)] :
         \A i \in DOMAIN p.issues : \A j \in p.issues[i].dependencies :
             j \in DOMAIN p.issues /\ order[j] < order[i]
  BY StartableRanks
<1> DEFINE N == Cardinality(DOMAIN p.issues)
           rank == [x \in Nodes(p, a) |->
                      IF x \in Requirements THEN 0
                      ELSE IF x \in ArchQuestions THEN 1
                      ELSE IF x \in (DOMAIN a.adrs) \union DOMAIN p.epics THEN 2
                      ELSE IF x \in DOMAIN p.issues THEN 2 + order[x]
                      ELSE N + 3]
<1>2. N \in Nat
  BY PlanKinds, FS_CardinalityType
<1>3. DOMAIN a.adrs \subseteq Adrs
  BY DEF AdrsWellFormed
<1> HIDE DEF N
<1>4. \A i \in DOMAIN p.issues : order[i] \in 1..N
  BY <1>1 DEF N
<1>5. rank \in [Nodes(p, a) -> Nat]
  BY <1>2, <1>4
<1>6. /\ \A x \in Requirements : rank[x] = 0
      /\ \A x \in ArchQuestions : rank[x] = 1
      /\ \A x \in (DOMAIN a.adrs) \union DOMAIN p.epics : rank[x] = 2
      /\ \A x \in DOMAIN p.issues : rank[x] = 2 + order[x]
      /\ \A x \in DOMAIN p.criteria : rank[x] = N + 3
  BY <1>3, PlanKinds, KindAssumption DEF Nodes
<1> HIDE DEF rank
<1>7. ASSUME NEW x \in Edges(p, a) PROVE rank[x[1]] < rank[x[2]]
  <2>1. CASE x \in Addresses
    BY <1>6, <2>1 DEF Addresses
  <2>2. CASE x \in ResolvedByEdges(a)
    BY <1>6, <2>2 DEF ResolvedByEdges
  <2>3. CASE x \in Affects(a)
    BY <1>6, <2>3 DEF Affects
  <2>4. CASE x \in Scopes(p)
    BY <1>6, <2>4 DEF Scopes
  <2>5. CASE x \in HasIssue(p)
    BY <1>4, <1>6, <2>5 DEF HasIssue
  <2>6. CASE x \in SourceOf(p)
    BY <1>4, <1>6, <2>6 DEF SourceOf
  <2>7. CASE x \in RequiresDecision(p)
    <3>1. x[2] \in DOMAIN p.issues /\ x[1] \in DOMAIN a.adrs
      BY <2>7 DEF RequiresDecision, ReferencesResolve
    <3> QED
      BY <1>4, <1>6, <3>1
  <2>8. CASE x \in Blocks(p)
    <3>1. /\ x[1] \in DOMAIN p.issues /\ x[2] \in DOMAIN p.issues
          /\ order[x[1]] < order[x[2]]
      BY <1>1, <2>8 DEF Blocks
    <3> QED
      BY <1>2, <1>4, <1>6, <3>1
  <2>9. CASE x \in Owns(p)
    <3>1. x[1] \in DOMAIN p.issues /\ x[2] \in DOMAIN p.criteria
      BY <2>9 DEF Owns
    <3> QED
      BY <1>2, <1>4, <1>6, <3>1
  <2>10. CASE x \in VerifiedBy(p)
    BY <1>2, <1>6, <2>10 DEF VerifiedBy
  <2> QED
    BY <2>1, <2>2, <2>3, <2>4, <2>5, <2>6, <2>7, <2>8, <2>9, <2>10 DEF Edges
<1>8. \A m, n \in Nodes(p, a) : <<m, n>> \in Edges(p, a) => rank[m] < rank[n]
  BY <1>7
<1> QED
  BY <1>5, <1>8, NodesFinite, RankedAcyclic

(* What the audit passes without a warning leaves nothing in the trace     *)
(* graph without a way in and out.                                         *)
LEMMA PassedTraces ==
    ASSUME NEW b, AdrsWellFormed(b.arch), PlanWellFormed(b.plan),
           AuditStatus(b) = "PASS", ~Standalone(b.plan)
    PROVE  TraceBuilds(b)
<1> DEFINE p == b.plan
           a == b.arch
<1>1. /\ PlanValid(b) /\ RequirementsOwned(p) /\ EpicsUsed(p) /\ AdrsConsistent(p, a)
      /\ \A i \in DOMAIN p.issues : IssueComplete(p, i)
      /\ DOMAIN a.adrs \subseteq LinkedAdrs(p)
  BY DEF AuditStatus, AuditBlocks, AuditWarns
<1>2. /\ ReferencesResolve(p, a) /\ Startable(p) /\ AdrsReady(b) /\ AdrsSound(a)
      /\ DOMAIN a.questions \subseteq ArchQuestions
  BY <1>1 DEF PlanValid, ArchitectureComplete, ArchitectureValid, LinksResolve
<1>3. Acyclic(Nodes(p, a), Edges(p, a))
  BY <1>2, TraceAcyclic
<1>4. ASSUME NEW q \in ArchQuestions
      PROVE  q \in Ends(Addresses) /\ q \in Starts(ResolvedByEdges(a))
  <2>1. PICK r \in Requirements : r \in Asks[q]
    BY PmAssumption DEF Requirements
  <2>2. <<r, q>> \in Addresses
    BY <2>1 DEF Addresses
  <2>3. q \in ResolvedByAdr(a)
    BY <1>2 DEF AdrsReady
  <2>4. PICK d \in DOMAIN a.adrs : q \in a.adrs[d].questions
    BY <2>3 DEF ResolvedByAdr
  <2>5. <<q, d>> \in ResolvedByEdges(a)
    BY <2>4 DEF ResolvedByEdges
  <2> QED
    BY <2>2, <2>5 DEF Ends, Starts
<1>5. ASSUME NEW d \in DOMAIN a.adrs
      PROVE  d \in Ends(ResolvedByEdges(a)) /\ d \in Starts(RequiresDecision(p))
  <2>1. PICK q \in a.adrs[d].questions : TRUE
    BY DEF AdrsWellFormed
  <2>2. q \in ArchQuestions
    BY <1>2 DEF AdrsSound, AnsweredBy
  <2>3. <<q, d>> \in ResolvedByEdges(a)
    BY <2>2 DEF ResolvedByEdges
  <2>4. PICK i \in DOMAIN p.issues : d \in p.issues[i].adrs
    BY <1>1 DEF LinkedAdrs
  <2>5. <<d, i>> \in RequiresDecision(p)
    BY <2>4 DEF RequiresDecision, AdrsWellFormed
  <2> QED
    BY <2>3, <2>5 DEF Ends, Starts
<1>6. ASSUME NEW e \in DOMAIN p.epics
      PROVE  e \in Ends(Scopes(p)) /\ e \in Starts(HasIssue(p))
  <2>1. PICK r \in Requirements : r \in p.epics[e]
    BY <1>2 DEF ReferencesResolve
  <2>2. <<r, e>> \in Scopes(p)
    BY <2>1 DEF Scopes
  <2>3. PICK i \in DOMAIN p.issues : p.issues[i].epic = e
    BY <1>1 DEF EpicsUsed
  <2>4. <<e, i>> \in HasIssue(p)
    BY <2>3 DEF HasIssue
  <2> QED
    BY <2>2, <2>4 DEF Ends, Starts
<1>7. ASSUME NEW i \in DOMAIN p.issues
      PROVE  i \in Ends(HasIssue(p)) /\ i \in Starts(Owns(p))
  <2>1. p.issues[i].epic \in DOMAIN p.epics
    BY <1>2 DEF Standalone, ReferencesResolve
  <2>2. <<p.issues[i].epic, i>> \in HasIssue(p)
    BY <2>1 DEF HasIssue
  <2>3. PICK c \in p.issues[i].criteria : TRUE
    BY <1>1 DEF IssueComplete
  <2>4. c \in DOMAIN p.criteria
    BY <1>2 DEF ReferencesResolve, OwnedBy
  <2>5. <<i, c>> \in Owns(p)
    BY <2>4 DEF Owns
  <2> QED
    BY <2>2, <2>5 DEF Ends, Starts
<1>8. ASSUME NEW c \in DOMAIN p.criteria
      PROVE  c \in Ends(Owns(p)) /\ c \in Ends(VerifiedBy(p))
  <2>1. /\ p.criteria[c].issue \in DOMAIN p.issues
        /\ c \in p.issues[p.criteria[c].issue].criteria
        /\ p.criteria[c].verifies \subseteq Requirements
    BY <1>2 DEF ReferencesResolve
  <2>2. <<p.criteria[c].issue, c>> \in Owns(p)
    BY <2>1 DEF Owns
  <2>3. PICK r \in Requirements : r \in p.criteria[c].verifies
    BY <2>1, PlanKinds
  <2>4. <<r, c>> \in VerifiedBy(p)
    BY <2>3 DEF VerifiedBy
  <2> QED
    BY <2>2, <2>4 DEF Ends
<1>9. Ends(HasIssue(p)) \subseteq
        Ends(SourceOf(p) \union RequiresDecision(p) \union HasIssue(p) \union Blocks(p))
  BY DEF Ends
<1>10. NoOrphans(p, a)
  BY <1>4, <1>5, <1>6, <1>7, <1>8, <1>9 DEF NoOrphans
<1> QED
  BY <1>3, <1>10 DEF TraceBuilds

(* And it meets every rule of readiness about the documents, unless a      *)
(* candidate was left out.                                                 *)
LEMMA PassedIsReady ==
    ASSUME NEW b, AdrsWellFormed(b.arch), PlanWellFormed(b.plan),
           AuditStatus(b) = "PASS", ~Standalone(b.plan), Candidates \subseteq DOMAIN b.plan.epics
    PROVE  /\ IntegrityRule(b) /\ ArchitectureQuestionsRule(b) /\ ApprovedAdrsRule(b)
           /\ EpicMap(b.plan) /\ CoverageRule(b)
<1> DEFINE p == b.plan
           a == b.arch
<1>1. /\ PlanValid(b) /\ RequirementsOwned(p) /\ EpicsUsed(p)
      /\ Requirements \subseteq Sourced(p) \union Verified(p)
  BY DEF AuditStatus, AuditBlocks, AuditWarns
<1>2. /\ ReferencesResolve(p, a) /\ AdrsReady(b) /\ ArchitectureValid(b) /\ AdrsSound(a)
      /\ DOMAIN a.questions \subseteq ArchQuestions /\ CoverageDeclared(p)
  BY <1>1 DEF PlanValid, ArchitectureComplete, ArchitectureValid, LinksResolve
<1>3. TraceBuilds(b)
  BY PassedTraces
<1>4. IntegrityRule(b)
  BY <1>1, <1>2, <1>3 DEF IntegrityRule
<1>5. ArchitectureQuestionsRule(b) /\ ApprovedAdrsRule(b)
  BY <1>2 DEF ArchitectureQuestionsRule, ApprovedAdrsRule, AdrsReady
<1>6. \A i \in DOMAIN p.issues : p.issues[i].epic \in DOMAIN p.epics
  BY <1>2 DEF Standalone, ReferencesResolve
<1>7. DOMAIN p.epics # {}
  <2>1. PICK d \in DOMAIN a.adrs : TRUE
    BY <1>2 DEF AdrsReady
  <2>2. PICK q \in ArchQuestions : q \in a.adrs[d].questions
    BY <1>2 DEF AdrsWellFormed, AdrsSound, AnsweredBy
  <2>3. PICK r \in Functional : TRUE
    BY PmAssumption
  <2>4. r \in Verified(p)
    BY <1>2 DEF CoverageDeclared
  <2>5. PICK c \in DOMAIN p.criteria : r \in p.criteria[c].verifies
    BY <2>4 DEF Verified
  <2>6. p.criteria[c].issue \in DOMAIN p.issues
    BY <1>2 DEF ReferencesResolve
  <2> QED
    BY <1>6, <2>6
<1>8. EpicMap(p)
  BY <1>1, <1>6, <1>7 DEF EpicMap
<1>9. ASSUME NEW r \in Requirements PROVE r \in Covered(p)
  <2>1. r \in Sourced(p)
    BY <1>1 DEF RequirementsOwned
  <2>2. PICK i \in DOMAIN p.issues : r \in p.issues[i].sources
    BY <2>1 DEF Sourced
  <2>3. PICK c \in OwnedBy(p, i) : r \in p.criteria[c].verifies
    BY <1>1, <2>2 DEF RequirementsOwned
  <2>4. <<r, i>> \in SourceOf(p) /\ <<r, c>> \in VerifiedBy(p) /\ c \in p.issues[i].criteria
    BY <2>2, <2>3 DEF SourceOf, VerifiedBy, OwnedBy
  <2> QED
    BY <2>4 DEF Covered
<1>10. CoverageRule(b)
  BY <1>3, <1>9 DEF CoverageRule, Covered
<1> QED
  BY <1>4, <1>5, <1>8, <1>10

-----------------------------------------------------------------------------
(* Readiness *)

LEMMA SuppliedWellFormed ==
    ASSUME Kept
    PROVE  /\ designs # <<>> => AdrsWellFormed(Last(designs))
           /\ plans # <<>> => PlanWellFormed(Last(plans))
           /\ PlanCurrent => plans # <<>> /\ (event.plan # None => event.plan = Last(plans))
           /\ event.state = "READY_FOR_ISSUES" => designs # <<>> /\ event.plan # None
<1>1. designs \in Seq(Designs) /\ plans \in Seq(Plans)
  BY DEF Kept, Supplied
<1>2. /\ designs # <<>> => Last(designs) \in Designs
      /\ plans # <<>> => Last(plans) \in Plans
  BY <1>1, SetOfSequence
<1>3. ToSet(plans) \subseteq Plans
  BY <1>1 DEF ToSet
<1>4. event.state = "READY_FOR_ISSUES" => designs # <<>> /\ event.plan # None
  BY <1>3, DeliveryAssumption DEF Kept, Supplied, EventTyped, Early
<1> QED
  BY <1>2, <1>4, DeliveryAssumption DEF PlanCurrent

(* A step in READY_FOR_ISSUES is an answer, an audit, a check or nothing.  *)
LEMMA ReadySteps ==
    ASSUME Kept, [Next]_vars, event.state = "READY_FOR_ISSUES"
    PROVE  /\ UNCHANGED <<asked, event, designs, approvals, plans>>
           /\ CheckReadiness \/ UNCHANGED verdict
           /\ \/ \E s \in Submissions : Answer(s)
              \/ AuditRun
              \/ UNCHANGED <<rows, audit>>
<1>1. event.pending = {}
  BY DEF Kept, ApprovalsInOrder
<1>2. ASSUME NEW s \in Submissions, Answer(s)
      PROVE  UNCHANGED <<asked, event, designs, approvals, plans, verdict>>
  BY <1>2 DEF Answer
<1>3. CASE AuditRun \/ CheckReadiness \/ UNCHANGED vars
  BY <1>3 DEF AuditRun, CheckReadiness, vars
<1>4. CASE \E s \in Submissions : Answer(s)
  BY <1>2, <1>4
<1>5. ~Analyze /\ \A design : ~PrepareArchitecture(design)
  BY DEF Analyze, PrepareArchitecture
<1>6. \A plan : ~Finalize(plan) /\ ~Audit(plan) /\ \A design : ~Resume(design, plan)
  BY DEF Finalize, Audit, Resume
<1> QED
  BY <1>1, <1>3, <1>4, <1>5, <1>6 DEF Next

(* A clear verdict is about what is stored, and stays so.                  *)
VerdictStands ==
    verdict = {} =>
        event.state = "READY_FOR_ISSUES" /\ Deliverable(Last(plans), Last(designs), approvals)

LEMMA CheckStands ==
    ASSUME Kept, CheckReadiness, verdict' = {}
    PROVE  event.state = "READY_FOR_ISSUES" /\ Deliverable(Last(plans), Last(designs), approvals)
<1>1. /\ PlanCurrent
      /\ Failures(Gate, audit, AuditOf(Gate), AnalysisStateRule) = {}
  BY DEF CheckReadiness
<1>2. /\ IntegrityRule(Gate) /\ ArchitectureQuestionsRule(Gate) /\ ApprovedAdrsRule(Gate)
      /\ CoverageRule(Gate) /\ AnalysisStateRule
  BY <1>1, NoFailures
<1>3. event.state = "READY_FOR_ISSUES"
  BY <1>2 DEF AnalysisStateRule
<1>4. /\ Gate.arch = Last(designs) /\ Gate.plan = Last(plans) /\ Gate.approved = CurrentApprovals
  BY DEF Gate, Bundle
<1>5. AdrsWellFormed(Gate.arch) /\ PlanWellFormed(Gate.plan)
  BY <1>1, <1>3, <1>4, SuppliedWellFormed
<1>6. Deliverable(Last(plans), Last(designs), CurrentApprovals)
  BY <1>2, <1>4, <1>5, AcceptedDelivers
<1>7. CurrentApprovals \subseteq approvals
  BY DEF CurrentApprovals
<1> QED
  BY <1>3, <1>6, <1>7 DEF Deliverable

LEMMA NextStands == Kept /\ VerdictStands /\ [Next]_vars => VerdictStands'
<1> SUFFICES ASSUME Kept, VerdictStands, [Next]_vars, verdict' = {}
             PROVE  /\ event'.state = "READY_FOR_ISSUES"
                    /\ Deliverable(Last(plans'), Last(designs'), approvals')
  BY DEF VerdictStands
<1>1. CASE CheckReadiness
  <2>1. UNCHANGED <<event, designs, approvals, plans>>
    BY <1>1 DEF CheckReadiness
  <2> QED
    BY <1>1, <2>1, CheckStands
<1>2. CASE ~CheckReadiness
  <2>1. UNCHANGED verdict
    BY <1>2 DEF Next, vars, Analyze, Answer, PrepareArchitecture, ApproveAdr, Finalize, Audit,
       Resume, AuditRun
  <2>2. event.state = "READY_FOR_ISSUES" /\ Deliverable(Last(plans), Last(designs), approvals)
    BY <2>1 DEF VerdictStands
  <2>3. UNCHANGED <<event, designs, approvals, plans>>
    BY <2>2, ReadySteps
  <2> QED
    BY <2>2, <2>3
<1> QED
  BY <1>1, <1>2

(* What readiness check calls ready can be delivered, for any documents:   *)
(* the requirements lead to criteria that verify them, the architecture    *)
(* questions to ADRs, which are approved and named by every issue they     *)
(* affect, and the issues can be put in an order                           *)
(* (evaluateProjectReadiness of pipeline/readiness.js).                    *)
THEOREM ReadyDelivers == Spec => []ReadyIsDeliverable
<1>1. Init => VerdictStands
  BY DeliveryAssumption DEF Init, VerdictStands
<1>2. VerdictStands => ReadyIsDeliverable
  BY DEF VerdictStands, ReadyIsDeliverable
<1> QED
  BY <1>1, <1>2, InitKept, NextKept, NextStands, PTL DEF Spec

-----------------------------------------------------------------------------
(* The validators over the same evidence *)

(* Answers beyond the gate follow one to the questions as they were asked. *)
GateOpened == event.state \notin Early /\ rows # {} => OpenAnswers # {}

(* What is ready has been audited over what is stored.                     *)
AuditHandedOn ==
    event.state = "READY_FOR_ISSUES" /\ EvidenceVerified =>
        audit = AuditOf(Bundle(Last(designs), CurrentApprovals, PreparePackage, event.plan))

LEMMA OpenAnswersGrow ==
    ASSUME UNCHANGED asked, rows \subseteq rows'
    PROVE  OpenAnswers \subseteq OpenAnswers'
<1>1. OpenAnswers' = {r \in rows' : r.base = Unresolved(asked)}
  BY DEF OpenAnswers, Applied
<1> QED
  BY <1>1 DEF OpenAnswers, Applied

LEMMA AnswerOpens ==
    ASSUME Kept, GateOpened, NEW s \in Submissions, Answer(s)
    PROVE  GateOpened'
<1>1. /\ rows' = rows \union {Row(s)} /\ UNCHANGED asked
      /\ event.package # None /\ Row(s).base = event.package
  BY AnswerAdds
<1>2. OpenAnswers \subseteq OpenAnswers'
  BY <1>1, OpenAnswersGrow
<1>3. CASE event.state \notin Early
  <2>1. rows # {}
    BY <1>1, <1>3 DEF Kept, PackageBeyond, EventTyped
  <2> QED
    BY <1>2, <1>3, <2>1 DEF GateOpened
<1>4. CASE event.state \in {"QUESTIONS_PENDING", "USER_DECISION"}
  <2>1. Row(s).base = Unresolved(asked)
    BY <1>1, <1>4 DEF Kept, Inv, PackageIsOpen
  <2>2. Row(s) \in OpenAnswers'
    BY <1>1, <2>1 DEF OpenAnswers, Applied
  <2> QED
    BY <2>2 DEF GateOpened
<1>5. CASE event.state = "ANALYZING"
  BY <1>5 DEF Answer, GateOpened, Early
<1> QED
  BY <1>3, <1>4, <1>5 DEF Early

LEMMA NextOpens == Kept /\ GateOpened /\ [Next]_vars => GateOpened'
<1> SUFFICES ASSUME Kept, GateOpened, [Next]_vars PROVE GateOpened'
  OBVIOUS
<1>1. CASE \E s \in Submissions : Answer(s)
  BY <1>1, AnswerOpens
<1>2. CASE Analyze
  <2>1. CanContinue(Unresolved(asked)) \/ event'.state = "QUESTIONS_PENDING"
    BY <1>2 DEF Analyze, Kept, Inv, IsRecord
  <2>2. rows # {} => event'.state = "QUESTIONS_PENDING"
    BY <2>1 DEF Kept, AskedToAnswer
  <2>3. UNCHANGED rows
    BY <1>2 DEF Analyze
  <2> QED
    BY <2>2, <2>3 DEF GateOpened, Early
<1>3. CASE UNCHANGED <<asked, rows>> /\ (event.state \notin Early \/ UNCHANGED event)
  <2>1. OpenAnswers \subseteq OpenAnswers'
    BY <1>3, OpenAnswersGrow
  <2> QED
    BY <1>3, <2>1 DEF GateOpened
<1>4. ASSUME NEW d \in event.pending, ApproveAdr(d) PROVE event.state \notin Early
  BY DEF Kept, Inv, NothingToApprove
<1>5. CASE \E d \in event.pending : ApproveAdr(d)
  BY <1>3, <1>4, <1>5 DEF ApproveAdr
<1>6. CASE \/ \E design \in Designs : PrepareArchitecture(design)
           \/ \E plan \in Plans : Finalize(plan)
           \/ \E plan \in ToSet(plans) : Audit(plan)
           \/ \E design \in Designs, plan \in Plans : Resume(design, plan)
  BY <1>3, <1>6 DEF PrepareArchitecture, Finalize, Audit, Resume, Early
<1>7. CASE AuditRun \/ CheckReadiness \/ UNCHANGED vars
  BY <1>3, <1>7 DEF AuditRun, CheckReadiness, vars
<1> QED
  BY <1>1, <1>2, <1>5, <1>6, <1>7 DEF Next

LEMMA OneBase ==
    ASSUME NEW R, IsFiniteSet(R), R # {}, Cardinality({r.base : r \in R}) <= 1
    PROVE  Cardinality({r.base : r \in R}) = 1 /\ \E p : {r.base : r \in R} = {p}
<1> DEFINE bases == {r.base : r \in R}
           f == [r \in R |-> r.base]
<1>1. f \in Surjection(R, bases)
  BY DEF Surjection
<1>2. IsFiniteSet(bases) /\ bases # {}
  BY <1>1, FS_Surjection
<1> HIDE DEF bases, f
<1>3. Cardinality(bases) \in Nat /\ Cardinality(bases) # 0
  BY <1>2, FS_CardinalityType, FS_EmptySet
<1>4. Cardinality(bases) = 1
  BY <1>3 DEF bases
<1>5. \E p : bases = {p}
  BY <1>2, <1>4, FS_Singleton
<1> QED
  BY <1>4, <1>5 DEF bases

(* An answer beyond the gate is evidence that no transition registers.     *)
LEMMA LateAnswer ==
    ASSUME Kept, NEW s \in Submissions, Answer(s), event.state = "READY_FOR_ISSUES"
    PROVE  ~EvidenceVerified'
<1> SUFFICES ASSUME EvidenceVerified' PROVE FALSE
  OBVIOUS
<1>1. /\ rows' = rows \union {Row(s)} /\ UNCHANGED event
      /\ \A r \in Applied(event.package) : r.decision # s.decision
  BY DEF Answer, Row
<1>2. RowsWellFormed' /\ event.answers \subseteq rows
  BY AnswerKept DEF Kept, EventTyped
<1>3. (Cardinality(Bases) <= 1)' /\ (rows # {})' /\ event'.answers = CurrentAnswers'
  BY <1>1 DEF EvidenceVerified
<1>4. CurrentAnswers' = rows'
  <2>1. IsFiniteSet(rows') /\ Cardinality({r.base : r \in rows'}) <= 1
    BY <1>2, <1>3 DEF RowsWellFormed, Bases
  <2>2. Cardinality({r.base : r \in rows'}) = 1
    BY <1>3, <2>1, OneBase
  <2> QED
    BY <2>2 DEF CurrentAnswers, Bases
<1>5. Row(s) \in rows
  BY <1>1, <1>2, <1>3, <1>4
<1>6. Row(s) \in Applied(event.package) /\ Row(s).decision = s.decision
  BY <1>5 DEF Applied, Row
<1> QED
  BY <1>1, <1>6

(* With nothing answered it does not matter whether the validators get no  *)
(* package or the questions as they were asked.                            *)
LEMMA PackagesAgree ==
    ASSUME asked \subseteq Questions, NEW design, NEW approved, NEW plan
    PROVE  AuditStatus(Bundle(design, approved, None, plan))
             = AuditStatus(Bundle(design, approved, Unresolved(asked), plan))
<1> DEFINE p == Unresolved(asked)
           b == Bundle(design, approved, None, plan)
           c == Bundle(design, approved, p, plan)
<1>1. /\ b.asked = asked /\ c.asked = asked /\ b.arch = design /\ c.arch = design
      /\ b.approved = approved /\ c.approved = approved /\ b.plan = plan /\ c.plan = plan
      /\ b.package = None /\ c.package = p
  BY DEF Bundle
<1>2. DOMAIN p = asked /\ \A q \in asked : ~p[q].resolved
  BY DEF Unresolved
<1> HIDE DEF p, b, c
<1>3. Settled(p) = {}
  <2>1. ASSUME NEW q \in DOMAIN p PROVE ~Resolved(p, CanonicalId(p, q))
    <3>1. CanonicalId(p, q) \in Decisions(p) /\ DOMAIN p \subseteq Questions
      BY <1>2 DEF Decisions
    <3>2. /\ Sources(p, CanonicalId(p, q)) # {}
          /\ Sources(p, CanonicalId(p, q)) \subseteq DOMAIN p
      BY <3>1, DecisionSources
    <3> QED
      BY <1>2, <3>2 DEF Resolved
  <2> QED
    BY <2>1 DEF Settled
<1>4. SettledBy(None) = {} /\ SettledBy(p) = {}
  BY <1>3 DEF SettledBy
<1>5. BlockingQuestions(b) = BlockingQuestions(c)
  BY <1>1 DEF BlockingQuestions
<1>6. BlockingQuestions(c) = {} => CanContinue(p)
  BY <1>1, HarmlessContinue DEF BlockingQuestions, p
<1>7. AdrsReady(b) <=> AdrsReady(c)
  BY <1>1 DEF AdrsReady, Approved
<1>8. ArchitectureComplete(b) <=> ArchitectureComplete(c)
  BY <1>1, <1>4, <1>5, <1>6, <1>7 DEF ArchitectureComplete, ArchitectureValid
<1>9. AdrsNamed(b) <=> AdrsNamed(c)
  BY <1>1 DEF AdrsNamed, RelevantAdrs, Approved
<1>10. PlanValid(b) <=> PlanValid(c)
  BY <1>1, <1>8, <1>9 DEF PlanValid
<1>11. AuditBlocks(b) <=> AuditBlocks(c)
  BY <1>1, <1>10 DEF AuditBlocks
<1>12. AuditStatus(b) = AuditStatus(c)
  BY <1>1, <1>11 DEF AuditStatus
<1> QED
  BY <1>12 DEF b, c, p

(* audit run and readiness check audit as project prepare did.             *)
LEMMA SameAudit ==
    ASSUME Kept, event.state = "READY_FOR_ISSUES", PlanCurrent
    PROVE  AuditOf(Gate)
             = AuditOf(Bundle(Last(designs), CurrentApprovals, PreparePackage, event.plan))
<1> DEFINE b == Bundle(Last(designs), CurrentApprovals, PreparePackage, event.plan)
<1>1. event.plan = Last(plans)
  BY SuppliedWellFormed
<1>2. AuditStatus(Gate) = AuditStatus(b)
  <2>1. CASE Bases # {}
    BY <1>1, <2>1 DEF Gate, GatePackage, PreparePackage
  <2>2. CASE Bases = {}
    <3>1. rows = {}
      BY <2>2 DEF Bases
    <3>2. event.package = None
      BY <3>1 DEF Kept, EventTyped, PackageBeyond, Early
    <3>3. GatePackage = None
      BY <2>2, <3>2 DEF GatePackage
    <3>4. PreparePackage \in {None, Unresolved(asked)}
      BY <2>2 DEF PreparePackage
    <3> QED
      BY <1>1, <3>3, <3>4, PackagesAgree DEF Gate, Kept, Inv
  <2> QED
    BY <2>1, <2>2
<1>3. Gate.plan = b.plan /\ Gate.approved = b.approved
  BY <1>1 DEF Gate, Bundle
<1> QED
  BY <1>2, <1>3 DEF AuditOf

LEMMA SameEvidence ==
    ASSUME UNCHANGED <<asked, rows, designs, approvals>>
    PROVE  AuditOf(Bundle(Last(designs), CurrentApprovals, PreparePackage, event.plan))'
             = AuditOf(Bundle(Last(designs), CurrentApprovals, PreparePackage, event'.plan))
<1>1. /\ CurrentAnswers' = CurrentAnswers /\ CurrentApprovals' = CurrentApprovals
      /\ Bases' = Bases
  BY DEF CurrentAnswers, CurrentApprovals, Bases
<1>2. \A p : Reduced(p)' = Reduced(p)
  BY DEF Reduced, Applied
<1>3. PreparePackage' = PreparePackage
  BY <1>1, <1>2 DEF PreparePackage, Answered
<1>4. Bundle(Last(designs), CurrentApprovals, PreparePackage, event.plan)'
        = Bundle(Last(designs), CurrentApprovals, PreparePackage, event'.plan)
  BY <1>1, <1>3 DEF Bundle
<1> QED
  BY <1>1, <1>4 DEF AuditOf

LEMMA BecomesReady ==
    ASSUME Kept, [Next]_vars, event.state # "READY_FOR_ISSUES",
           event'.state = "READY_FOR_ISSUES"
    PROVE  \E plan \in ToSet(plans) : Audit(plan)
<1>1. IsRecord(event)
  BY DEF Kept, Inv
<1>2. ASSUME NEW s \in Submissions, Answer(s) PROVE FALSE
  <2>1. PICK package, answers :
           \/ event' = event
           \/ event' = Transition("ARCHITECTURE_PENDING", package, answers, {}, None)
           \/ event' = [event EXCEPT !.state = "USER_DECISION"]
    BY <1>2 DEF Answer
  <2> QED
    BY <1>1, <2>1, TransitionParts DEF IsRecord
<1>3. ASSUME NEW design, PrepareArchitecture(design) PROVE FALSE
  <2> DEFINE package == IF asked = {} THEN None ELSE Reduced(Unresolved(asked))
             answers == IF asked = {} THEN {} ELSE Applied(Unresolved(asked))
             Moved(state) == Transition(state, package, answers, {}, None)
             waiting == [Moved("ADR_PENDING_APPROVAL") EXCEPT
                           !.package = None, !.pending = PendingAdrs(design)]
  <2>1. \/ event' = event
        \/ event' = Moved("PM_FINALIZATION")
        \/ event' = waiting
        \/ event' = Moved("BLOCKED")
    BY <1>3 DEF PrepareArchitecture
  <2>2. waiting.state = "ADR_PENDING_APPROVAL"
    BY DEF Transition
  <2>3. Moved("PM_FINALIZATION").state = "PM_FINALIZATION" /\ Moved("BLOCKED").state = "BLOCKED"
    BY TransitionParts
  <2> HIDE DEF waiting, Moved
  <2> QED
    BY <2>1, <2>2, <2>3
<1>4. ASSUME NEW d, ApproveAdr(d) PROVE FALSE
  <2>1. [Transition("PM_FINALIZATION", None, {}, approvals \union {d}, None) EXCEPT
           !.pending = event.pending].state = "PM_FINALIZATION"
    BY DEF Transition
  <2> QED
    BY <1>4, <2>1 DEF ApproveAdr
<1>5. ASSUME NEW plan, Finalize(plan) PROVE FALSE
  BY <1>5, TransitionParts DEF Finalize
<1>6. ASSUME NEW design, NEW plan, Resume(design, plan) PROVE FALSE
  BY <1>6, TransitionParts DEF Resume, Kept, ApprovalsInOrder
<1>7. ~Analyze /\ ~AuditRun /\ ~CheckReadiness /\ ~UNCHANGED vars
  BY <1>1 DEF Analyze, AuditRun, CheckReadiness, vars, IsRecord
<1> QED
  BY <1>2, <1>3, <1>4, <1>5, <1>6, <1>7 DEF Next

LEMMA NextHandsOn == Kept /\ AuditHandedOn /\ [Next]_vars => AuditHandedOn'
<1> SUFFICES ASSUME Kept, AuditHandedOn, [Next]_vars,
                    event'.state = "READY_FOR_ISSUES", EvidenceVerified'
             PROVE  audit' = AuditOf(Bundle(Last(designs), CurrentApprovals, PreparePackage,
                                            event.plan))'
  BY DEF AuditHandedOn
<1>1. CASE event.state = "READY_FOR_ISSUES"
  <2>1. /\ UNCHANGED <<asked, event, designs, approvals, plans>>
        /\ \/ \E s \in Submissions : Answer(s)
           \/ AuditRun
           \/ UNCHANGED <<rows, audit>>
    BY <1>1, ReadySteps
  <2>2. ~\E s \in Submissions : Answer(s)
    BY <1>1, LateAnswer
  <2>3. UNCHANGED rows
    BY <2>1, <2>2 DEF AuditRun
  <2>4. EvidenceVerified
    BY <2>1, <2>3 DEF EvidenceVerified, HistoryReplays, Claims, CurrentAnswers, CurrentApprovals,
       Bases
  <2>5. audit' = AuditOf(Bundle(Last(designs), CurrentApprovals, PreparePackage, event.plan))
    <3>1. CASE AuditRun
      BY <1>1, <3>1, SameAudit DEF AuditRun
    <3>2. CASE UNCHANGED audit
      BY <1>1, <2>4, <3>2 DEF AuditHandedOn
    <3> QED
      BY <2>1, <2>2, <3>1, <3>2
  <2> QED
    BY <2>1, <2>3, <2>5, SameEvidence
<1>2. CASE event.state # "READY_FOR_ISSUES"
  <2>1. PICK plan \in ToSet(plans) : Audit(plan)
    BY <1>2, BecomesReady
  <2>2. /\ UNCHANGED <<asked, rows, designs, approvals>>
        /\ audit' = AuditOf(Bundle(Last(designs), CurrentApprovals, PreparePackage, plan))
        /\ event'.plan = plan
    BY <2>1, TransitionParts DEF Audit
  <2> QED
    BY <2>2, SameEvidence
<1> QED
  BY <1>1, <1>2

(* A plan that the audit passed without a warning fails no rule of         *)
(* readiness, whatever the documents and the answers, unless an issue      *)
(* stands alone or an epic candidate was left out (auditSpecification,     *)
(* buildTraceGraph and evaluateProjectReadiness of src/pipeline).          *)
THEOREM ValidatorsConsistent == Spec => []ValidatorsAgree
<1>1. ASSUME Kept, GateOpened, AuditHandedOn PROVE ValidatorsAgree
  <2> SUFFICES ASSUME event.state = "READY_FOR_ISSUES", audit.status = "PASS",
                      PlanCurrent, EvidenceVerified, ~Standalone(Last(plans)),
                      Candidates \subseteq DOMAIN Last(plans).epics
               PROVE  /\ TraceBuilds(Gate)
                      /\ Failures(Gate, audit, AuditOf(Gate), TRUE) = {}
    BY DEF ValidatorsAgree
  <2>1. audit = AuditOf(Gate)
    BY <1>1, SameAudit DEF AuditHandedOn
  <2>2. /\ Gate.arch = Last(designs) /\ Gate.plan = Last(plans) /\ Gate.package = GatePackage
        /\ Gate.asked = asked
    BY DEF Gate, Bundle
  <2>3. AuditStatus(Gate) = "PASS"
    BY <2>1 DEF AuditOf
  <2>4. AdrsWellFormed(Gate.arch) /\ PlanWellFormed(Gate.plan)
    BY <1>1, <2>2, SuppliedWellFormed
  <2>5. /\ IntegrityRule(Gate) /\ ArchitectureQuestionsRule(Gate) /\ ApprovedAdrsRule(Gate)
        /\ EpicMap(Gate.plan) /\ CoverageRule(Gate)
    BY <2>2, <2>3, <2>4, PassedIsReady
  <2>6. ArchitectureComplete(Gate)
    BY <2>5 DEF IntegrityRule, PlanValid
  <2>7. BlockingDecisionsRule(Gate)
    <3>1. CASE GatePackage = None
      BY <2>2, <2>6, <3>1 DEF BlockingDecisionsRule, ArchitectureComplete, SettledBy
    <3>2. CASE GatePackage # None
      <4>1. CanContinue(GatePackage)
        BY <2>2, <2>6, <3>2 DEF ArchitectureComplete, ArchitectureValid
      <4>2. rows # {}
        <5>1. rows = {} => event.package = None /\ Bases = {}
          BY <1>1 DEF Kept, EventTyped, PackageBeyond, Early, Bases
        <5> QED
          BY <3>2, <5>1 DEF GatePackage
      <4>3. \E r \in rows : r.base = Unresolved(asked)
        BY <1>1, <4>2 DEF GateOpened, OpenAnswers, Applied, Early
      <4>4. Unresolved(asked) \in Bases
        BY <4>3 DEF Bases
      <4>5. \E p : Bases = {p}
        BY <1>1, <4>2, OneBase DEF EvidenceVerified, Bases, Kept, RowsWellFormed
      <4>6. Bases = {Unresolved(asked)}
        BY <4>4, <4>5
      <4>7. GatePackage = Reduced(Unresolved(asked))
        BY <4>6 DEF GatePackage, Answered
      <4>8. Builds(GatePackage)
        BY <1>1, <4>2, <4>7 DEF Kept, PackageBeyond, Early
      <4> QED
        BY <2>2, <3>2, <4>1, <4>8 DEF BlockingDecisionsRule
    <3> QED
      BY <3>1, <3>2
  <2>8. LatestAuditRule(audit, AuditOf(Gate))
    BY <2>1 DEF LatestAuditRule
  <2> QED
    BY <2>5, <2>7, <2>8, NoFailures DEF CoverageRule
<1>2. Init => GateOpened /\ AuditHandedOn
  BY DEF Init, Start, GateOpened, AuditHandedOn
<1> QED
  BY <1>1, <1>2, InitKept, NextKept, NextOpens, NextHandsOn, PTL DEF Spec
=============================================================================
