----------------------------- MODULE MCAnalysis -----------------------------
(* Small instances of Analysis.                                            *)
EXTENDS Analysis, TLC

CONSTANTS c1, c2, s1, s2, s3, q1, q2, a1, a2, arch1, arch2, arch3, arch4,
          plan1, plan2, plan3, plan4, p1, p2, p3, r1, r2, r3

(* The blocking questions: two in the first source                         *)
MCQuestionsOf == [s \in Sources |-> IF s = s1 THEN {q1, q2} \cap Questions ELSE {}]

Facts(s, sound, pending) ==
    [source |-> s, sound |-> sound, pending |-> pending, settled |-> FALSE]

(* s1 has questions, s2 ADRs; arch3 is unsound.                            *)
MCDesign == [a \in Architectures |->
    CASE a = arch1 -> Facts(s1, TRUE, {})
      [] a = arch2 -> Facts(s2, TRUE, {a1, a2} \cap Adrs)
      [] a = arch3 -> Facts(s3, FALSE, {})
      [] OTHER     -> Facts(s3, TRUE, {})]

MCOutline == [p \in Plans |->
    CASE p = plan1 -> [id |-> p1, arch |-> arch1, complete |-> TRUE, ready |-> TRUE]
      [] p = plan2 -> [id |-> p2, arch |-> arch2, complete |-> TRUE, ready |-> TRUE]
      [] p = plan3 -> [id |-> p3, arch |-> arch3, complete |-> TRUE, ready |-> TRUE]
      [] OTHER     -> [id |-> p3, arch |-> arch4, complete |-> TRUE, ready |-> TRUE]]

DecisionsThenAdrs == <<plan1, plan2>>
WithCorrection == <<plan3, plan4, plan1, plan2>>

(* Two answers of the authority that disagree on q1                        *)
MCResolutions == {<<q1, r1>>, <<q1, r2>>, <<q2, r3>>} \cap (Questions \X Records)
OneAnswerEach == {<<q1, r1>>, <<q2, r3>>} \cap (Questions \X Records)
MCApprovals == {<<a1, r1>>, <<a2, r2>>} \cap (Adrs \X Records)

Symmetric == Permutations({c1, c2})
=============================================================================
