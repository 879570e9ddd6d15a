--------------------------- MODULE ApprovalLadder ---------------------------
(***************************************************************************)
(* What the design pipeline promises, whatever clients run it and wherever *)
(* they die: a ladder that is climbed one rung at a time and that decides  *)
(* which documents of the design may be kept in the artifact store.        *)
(*                                                                         *)
(*   0  the design is collected       3  the design system is approved     *)
(*   1  direction is asked for        4  the final approval is asked for   *)
(*   2  the system is asked for       5  the design is approved            *)
(*                                                                         *)
(* A design that is not applicable keeps its brief and goes from 0 to 5.   *)
(***************************************************************************)
EXTENDS Naturals

CONSTANTS Types, Required(_), Levels

VARIABLES goal, rung, kept

vars == <<goal, rung, kept>>

Inapplicable == goal = "NOT_APPLICABLE"
NonFinalTypes == Required(goal) \ {"design-approval"}

Init == goal \in Levels /\ rung = 0 /\ kept = {}

(* The documents that the rung admits to the store.                        *)
Admitted ==
    CASE Inapplicable -> Required(goal)
      [] ~Inapplicable /\ rung = 3 -> NonFinalTypes
      [] ~Inapplicable /\ rung = 4 -> Required(goal)
      [] OTHER -> {}

Keep(t) ==
    /\ t \in Admitted
    /\ kept' = kept \union {t}
    /\ UNCHANGED <<goal, rung>>

Climb ==
    /\ ~Inapplicable /\ rung < 5
    /\ rung = 3 => NonFinalTypes \subseteq kept
    /\ rung = 4 => Required(goal) \subseteq kept
    /\ rung' = rung + 1
    /\ UNCHANGED <<goal, kept>>

Finish ==
    /\ Inapplicable /\ kept = Required(goal)
    /\ rung' = 5
    /\ UNCHANGED <<goal, kept>>

Next == Climb \/ Finish \/ \E t \in Types : Keep(t)

Spec == Init /\ [][Next]_vars
=============================================================================
