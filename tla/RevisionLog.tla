---------------------------- MODULE RevisionLog ----------------------------
(***************************************************************************)
(* What the artifact store promises: one append-only log of revisions per  *)
(* artifact identity.  The entry at position n is revision n; its parent   *)
(* is the entry before it; its inputs name entries that are already in the *)
(* logs.  Nothing is ever removed, rewritten or inserted.                  *)
(*                                                                         *)
(* The contract is the section "Immutable Artifact Store" of               *)
(* docs/superpowers/specs/2026-08-17-v2.1.0-agent-pipeline-design.md.      *)
(***************************************************************************)
EXTENDS Naturals, Sequences

CONSTANTS
    Ids,        \* artifact identities
    Entries     \* what callers may publish: records of a content and inputs

VARIABLE log    \* log[id]: the revisions of artifact id, oldest first

(* An exact reference holds an identity, a revision and a content hash.    *)
Resolves(ref) ==
    /\ ref.rev \in 1..Len(log[ref.id])
    /\ log[ref.id][ref.rev].content = ref.content

Init == log = [id \in Ids |-> << >>]

Publish(id, entry) ==
    /\ \A ref \in entry.inputs : Resolves(ref)
    /\ log' = [log EXCEPT ![id] = Append(@, entry)]

Next == \E id \in Ids, entry \in Entries : Publish(id, entry)

Spec == Init /\ [][Next]_log
=============================================================================
