----------------------------- MODULE MCDelivery -----------------------------
(***************************************************************************)
(* Instances of Delivery: a PM analysis with two functional requirements,  *)
(* a non-functional one, a constraint and one architecture question.       *)
(* Question 1 is critical and 4 depends on it; 2 and 3 ask the same of     *)
(* different people; 5 only matters little; 6 and 7 ask the same with      *)
(* different severities, 7 cannot go without 1 and 4 waits for it.         *)
(***************************************************************************)
EXTENDS Delivery

MCQuestions == 1..8

Fact(key, severity, options, dependencies) ==
    [key |-> key, severity |-> severity, missing |-> FALSE, preference |-> FALSE,
     options |-> options, dependencies |-> dependencies]

MCFacts ==
    <<Fact(1, 0, {<<"o1", "yes">>}, {}),
      Fact(2, 1, {<<"o1", "yes">>}, {}),
      Fact(2, 2, {<<"o1", "yes">>, <<"o2", "no">>}, {}),
      Fact(4, 3, {}, {1}),
      Fact(5, 4, {}, {}),
      Fact(6, 3, {}, {}),
      Fact(6, 2, {}, {}),
      Fact(1, 1, {}, {4})>>

MCRegistry ==
    [ceo |-> [role |-> "CEO", routes |-> {"A3"}],
     arch |-> [role |-> "ARCHITECT", routes |-> {"A2"}]]

Sign(q, decision, authority, actor, record) ==
    [source |-> q, decision |-> decision, authority |-> authority,
     actor |-> actor, record |-> record]

(* 1 is signed twice, and what is signed for 1 would do for 3; the         *)
(* architect has signed 3, which is not his to decide.                     *)
MCSigned ==
    {Sign(1, "yes", "A3", "ceo", "r1"), Sign(1, "yes", "A3", "ceo", "r2"),
     Sign(2, "yes", "A2", "arch", "r3"), Sign(3, "yes", "A3", "ceo", "r4"),
     Sign(3, "yes", "A3", "ceo", "r2"), Sign(3, "yes", "A2", "arch", "r4"),
     Sign(7, "yes", "A3", "ceo", "r4")}

By(decision, authority, actor, record) ==
    [decision |-> decision, authority |-> authority, actor |-> actor, record |-> record]

(* Genuine answers by option and by text, a record used again, a signature *)
(* for another question, an incomplete answer and one without authority.   *)
MCSubmissions ==
    {[decision |-> 1, answer |-> "o1", given |-> 1 :> By("yes", "A3", "ceo", r)] :
        r \in {"r1", "r2"}}
    \union
    {[decision |-> 2, answer |-> "yes",
      given |-> 2 :> By("yes", "A2", "arch", "r3") @@ 3 :> By("yes", "A3", "ceo", r)] :
        r \in {"r1", "r2", "r4"}}
    \union
    {[decision |-> 2, answer |-> "o1",
      given |-> 2 :> By("yes", "A2", "arch", "r3") @@ 3 :> By("yes", "A2", "arch", "r4")],
     [decision |-> 2, answer |-> "yes", given |-> 2 :> By("yes", "A2", "arch", "r3")],
     [decision |-> 6, answer |-> "yes",
      given |-> 6 :> By("yes", "A1", None, None) @@ 7 :> By("yes", "A3", "ceo", "r4")]}

MCQuestionSets ==
    {{}, {5}, {1}, {1, 4}, {1, 2, 3}, {4}, {1, 4, 8}, {6, 7}}

MCAsks == "archq" :> {"f1", "c1"}

Adr(status, approval, affected) ==
    [status |-> status, approval |-> approval, questions |-> {"archq"}, affected |-> affected]

Design(adrs, open) ==
    [copied |-> {"f1", "f2", "n1", "c1"}, affected |-> {"f1"},
     questions |-> ("archq" :> TRUE), open |-> open, adrs |-> adrs]

Accepted == "d1" :> Adr("accepted", "approved", {"f1"})
Proposed == "d1" :> Adr("proposed", "pending", {"f1"})

(* Approved beforehand, to approve, in part, two to approve, with an open  *)
(* finding, and one whose ADR contradicts itself                           *)
MCDesigns ==
    {Design(Accepted, {}), Design(Proposed, {3}),
     Design(Proposed @@ "d2" :> Adr("accepted", "approved", {"f2"}), {}),
     Design(Proposed @@ "d2" :> Adr("proposed", "pending", {"f2"}), {}),
     Design(Accepted, {1}),
     Design("d1" :> Adr("accepted", "pending", {"f1"}), {})}

Issue(epic, sources, criteria, adrs, dependencies) ==
    [epic |-> epic, sources |-> sources, criteria |-> criteria, adrs |-> adrs,
     requires |-> adrs # {}, governance |-> FALSE, dependencies |-> dependencies]

Criterion(issue, verifies) == [issue |-> issue, verifies |-> verifies]

I1 == Issue("e1", {"f1", "n1", "c1"}, {"k1"}, {"d1"}, {})
I2 == Issue("e1", {"f2"}, {"k2"}, {}, {"i1"})

Good ==
    [inputs |-> {"d1"}, epics |-> [e1 |-> {"f1", "f2"}],
     issues |-> [i1 |-> I1, i2 |-> I2],
     criteria |-> [k1 |-> Criterion("i1", {"f1", "n1", "c1"}), k2 |-> Criterion("i2", {"f2"})],
     renamed |-> {}, uncovered |-> {}, status |-> "ready-for-issues"]

MCPlans ==
    {Good,
     \* for the design with two ADRs
     [Good EXCEPT !.inputs = {"d1", "d2"}, !.issues.i2.adrs = {"d2"}, !.issues.i2.requires = TRUE],
     \* criteria of each other's requirements
     [Good EXCEPT !.criteria.k1.verifies = {"f2"}, !.criteria.k2.verifies = {"f1", "n1", "c1"}],
     \* an issue that stands alone, a candidate under another name
     [Good EXCEPT !.issues.i2.epic = None],
     [Good EXCEPT !.epics = [e2 |-> {"f1", "f2"}], !.issues.i1.epic = "e2", !.issues.i2.epic = "e2"],
     \* an epic without an issue
     [Good EXCEPT !.epics = @ @@ "e2" :> {"f2"}],
     \* a requirement that no issue has
     [Good EXCEPT !.issues.i1.sources = {"f1", "c1"}, !.criteria.k1.verifies = {"f1", "c1"}],
     \* issues that wait for each other, ADRs named by the wrong issue
     [Good EXCEPT !.issues.i1.dependencies = {"i2"}],
     [Good EXCEPT !.issues.i1 = [I1 EXCEPT !.adrs = {}, !.requires = FALSE],
                  !.issues.i2 = [I2 EXCEPT !.adrs = {"d1"}, !.requires = TRUE]]}

(* For the disagreement about approvals                                    *)
ProposedOnly == {Design(Proposed, {})}
CriticalOnly == {{1}}
=============================================================================
