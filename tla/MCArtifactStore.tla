-------------------------- MODULE MCArtifactStore --------------------------
(***************************************************************************)
(* Instances of ArtifactStore for TLC.  The drafts are chosen so that every *)
(* outcome of append is possible: first revisions, a successor, a draft    *)
(* beyond the last revision, a conflicting and a reused revision, and a    *)
(* draft of another artifact that needs a revision of the first.           *)
(***************************************************************************)
EXTENDS ArtifactStore, TLC

CONSTANTS A, B, t1, t2, x, y

Ref(id, rev, content) == [id |-> id, rev |-> rev, content |-> content]

Draft(type, id, rev, content, parents, inputs) ==
    [type |-> type, id |-> id, rev |-> rev, content |-> content,
     parents |-> parents, inputs |-> inputs]

FirstA == Draft(t1, A, 0, x, {}, {})
SecondA == Draft(t1, A, 0, y, {Ref(A, 1, x)}, {})
ThirdA == Draft(t1, A, 0, x, {Ref(A, 2, y)}, {})
ConflictA == Draft(t1, A, 1, y, {}, {})
LateB == Draft(t1, B, 1, y, {}, {Ref(A, 2, y)})

\* Every outcome of append, against one reader.
ManyDrafts == {FirstA, SecondA, ThirdA, ConflictA, LateB}

\* One revision, which every append wants to write.
OneDraft == {FirstA}

Symmetry == Permutations(Appenders)
=============================================================================
