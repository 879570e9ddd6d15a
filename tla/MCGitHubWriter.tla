--------------------------- MODULE MCGitHubWriter ---------------------------
(* The instances of GitHubWriter that TLC checks.                          *)
EXTENDS GitHubWriter, TLC

CONSTANTS u1, u2, r1, r2, r3, ceo, architect

Approval(id, plan) == [id |-> id, plan |-> plan, actor |-> ceo]

Actors ==
    {[actor |-> ceo, role |-> "CEO", publishes |-> TRUE],
     [actor |-> architect, role |-> "ARCHITECT", publishes |-> TRUE]}

(* A record that was signed for both plans, one of the second plan alone,  *)
(* and one whose signer may not publish.                                   *)
SignedTwice ==
    {Approval(r1, 1), Approval(r1, 2), Approval(r2, 2),
     [Approval(r3, 1) EXCEPT !.actor = architect]}

(* Two records for the first plan and one for the second.                  *)
Distinct == {Approval(r1, 1), Approval(r2, 1), Approval(r3, 2)}

Rivals == Permutations(Publishers)
=============================================================================
