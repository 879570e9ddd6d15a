------------------------ MODULE PublicationRegistry ------------------------
(***************************************************************************)
(* What the history of publication results promises, whatever the tracker, *)
(* the publishers and their failures do: a registry that gives a planned   *)
(* item an issue number once and for ever, and no number to two items.     *)
(***************************************************************************)
EXTENDS Naturals

CONSTANTS Markers, MaxIssues

Numbers == 1 .. MaxIssues

VARIABLE number     \* number[m]: the issue recorded for m, 0 when there is none

Init == number = [m \in Markers |-> 0]

Record(m, n) ==
    /\ number[m] = 0
    /\ \A other \in Markers : number[other] # n
    /\ number' = [number EXCEPT ![m] = n]

Next == \E m \in Markers, n \in Numbers : Record(m, n)

Spec == Init /\ [][Next]_number
=============================================================================
