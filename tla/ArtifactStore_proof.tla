------------------------ MODULE ArtifactStore_proof ------------------------
(***************************************************************************)
(* Proofs about ArtifactStore, for any number of clients, identities,      *)
(* contents and drafts and whatever is interrupted, as long as the append  *)
(* lock excludes: the store directory is always a store that every         *)
(* operation accepts, it implements RevisionLog, what append returns is    *)
(* committed and what is stored is never refused, and a read without the   *)
(* lock is consistent, and recover never misses a file that it has listed. *)
(* Whatever the lock does, the variables keep their types and temporary    *)
(* files are accounted for.                                                *)
(***************************************************************************)
EXTENDS ArtifactStore, FiniteSetTheorems, SequenceTheorems, TLAPS

(* With an exclusive lock, an append between lock and unlock holds it.     *)
GuardedHolds == \A c \in Clients : pc[c] \in Guarded => holder = c

(* Between its decision and its rename, an append owns a target that does  *)
(* not exist yet and that completes the files on disk.                     *)
Completes(a) ==
    /\ a \in Artifact /\ a.rev \in 1..MaxRevision
    /\ \A b \in files : b.id = a.id => b.rev < a.rev
    /\ Lineage(files, a)
    /\ \A ref \in a.parents \union a.inputs : Resolved(files, ref)

TargetReady ==
    \A c \in Clients : pc[c] \in {"temp", "write", "check", "rename"} => Completes(target[c])

StoreInv == TypeOK /\ GuardedHolds /\ TargetReady /\ StoreReadable

-----------------------------------------------------------------------------
(* Lemmas about snapshots *)

(* A complete target extends a readable set of files to a readable one.    *)
LEMMA Extension ==
    ASSUME StoreReadable, NEW a, Completes(a)
    PROVE  Unique(files \union {a}) /\ Closed(files \union {a})
<1>1. Unique(files \union {a})
  <2> SUFFICES ASSUME NEW b \in files \union {a}, NEW d \in files \union {a},
                      b.id = d.id, b.rev = d.rev
               PROVE  b = d
    BY DEF Unique
  <2>1. \A e \in files : e.id = a.id => e.rev # a.rev
    BY DEF Completes, Artifact
  <2> QED
    BY <2>1 DEF StoreReadable, NeverForked, Unique
<1>2. \A ref : Resolved(files, ref) => Resolved(files \union {a}, ref)
  BY DEF Resolved
<1>3. \A b : Lineage(files, b) => Lineage(files \union {a}, b)
  BY DEF Lineage
<1> QED
  BY <1>1, <1>2, <1>3 DEF StoreReadable, Closed, Completes

(* The artifact that append decides to write completes the files.          *)
LEMMA AcceptableCompletes ==
    ASSUME TypeOK, NEW d \in Drafts, Sound(files, d), NEW a \in Acceptable(files, d)
    PROVE  Completes(a)
<1>1. PICK n \in 1..MaxRevision : a = AtRevision(d, n) /\ Follows(files, a)
  BY DEF Acceptable
<1>2. d \in Artifact
  BY DraftAssumption
<1>3. a \in Artifact /\ a.rev = n /\ a.id = d.id /\ a.type = d.type /\ a.inputs = d.inputs
        /\ a.parents = d.parents
  BY <1>1, <1>2, StoreAssumption DEF AtRevision, Artifact
<1>4. History(files, a) = {b \in files : b.id = a.id}
  BY <1>3 DEF History, Sound
<1>5. \A b \in files : b.id = a.id => b.rev < a.rev
  <2> SUFFICES ASSUME NEW b \in History(files, a) PROVE b.rev < a.rev
    BY <1>4
  <2>1. PICK p \in History(files, a) :
            (\A e \in History(files, a) : e.rev <= p.rev) /\ a.rev = p.rev + 1
    <3>1. PICK p \in History(files, a) : IsLast(files, p) /\ a.rev = p.rev + 1
      BY <1>1 DEF Follows
    <3>2. History(files, p) = History(files, a)
      BY DEF History
    <3> QED
      BY <3>1, <3>2 DEF IsLast
  <2>2. b \in Artifact /\ p \in Artifact
    BY DEF TypeOK, History
  <2>3. b.rev \in Nat /\ p.rev \in Nat /\ b.rev <= p.rev
    BY <2>1, <2>2 DEF Artifact
  <2> QED
    BY <2>1, <2>3
<1>6. Lineage(files, a)
  <2>1. CASE a.rev = 1 /\ a.parents = {}
    BY <2>1 DEF Lineage
  <2>2. ASSUME NEW p \in History(files, a), a.rev = p.rev + 1, a.parents = {RefOf(p)}
        PROVE  Lineage(files, a)
    BY <2>2 DEF Lineage, History, TypeOK
  <2> QED
    BY <1>1, <2>1, <2>2 DEF Follows
<1>7. \A ref \in a.parents \union a.inputs : Resolved(files, ref)
  BY <1>3 DEF Sound, Resolved
<1> QED
  BY <1>1, <1>3, <1>5, <1>6, <1>7 DEF Completes

-----------------------------------------------------------------------------
(* Types *)

LEMMA InitTypeOK == Init => TypeOK
<1> SUFFICES ASSUME Init PROVE TypeOK
  OBVIOUS
<1>1. AnyDraft \in Drafts
  BY DraftAssumption DEF AnyDraft
<1> QED
  BY <1>1, DraftAssumption, ClientAssumption DEF Init, TypeOK, Phases

(* A target has a revision number within the limit: Acceptable offers no    *)
(* other, whatever the files are by the time of the rename.                *)
TargetNumbered ==
    \A c \in Clients : pc[c] \in {"temp", "write", "check", "rename"} =>
        target[c].rev \in 1..MaxRevision

LEMMA AcceptableTyped ==
    ASSUME NEW S, NEW d \in Drafts, NEW a \in Acceptable(S, d)
    PROVE  a \in Artifact /\ a.rev \in 1..MaxRevision
<1>1. PICK n \in 1..MaxRevision : a = [d EXCEPT !.rev = n]
  BY DEF Acceptable, AtRevision
<1> QED
  BY <1>1, DraftAssumption, StoreAssumption DEF Artifact

LEMMA NextTypeOK ==
    ASSUME TypeOK, TargetNumbered, [Next]_vars PROVE TypeOK'
<1> USE StoreAssumption DEF TypeOK, Goto, Return, Answer, Throw, ScanFails, Leave, Listing,
        Phases, Guarded, Writing, Scanning, Sweeping
<1>1. ASSUME NEW c \in Clients, Begin(c) PROVE TypeOK'
  BY <1>1 DEF Begin, BeginAppend, BeginRecover, BeginRead
<1>2. ASSUME NEW c \in Clients, Acquire(c) PROVE TypeOK'
  BY <1>2 DEF Acquire
<1>3. ASSUME NEW c \in Clients, AcquireFails(c) PROVE TypeOK'
  BY <1>3 DEF AcquireFails
<1>4. ASSUME NEW c \in Clients, Release(c) PROVE TypeOK'
  BY <1>4 DEF Release
<1>5. ASSUME NEW c \in Clients, AppendReuses(c) PROVE TypeOK'
  BY <1>5 DEF AppendReuses, Reusable, History
<1>6. ASSUME NEW c \in Clients, AppendRejects(c) PROVE TypeOK'
  BY <1>6 DEF AppendRejects
<1>7. ASSUME NEW c \in Clients, AppendAccepts(c) PROVE TypeOK'
  <2>1. PICK a \in Acceptable(files, draft[c]) : target' = [target EXCEPT ![c] = a]
    BY <1>7 DEF AppendAccepts
  <2>2. a \in Artifact
    BY <2>1, AcceptableTyped
  <2> QED
    BY <1>7, <2>1, <2>2 DEF AppendAccepts
<1>8. ASSUME NEW c \in Clients, CreateTemp(c) \/ WriteTemp(c) \/ WriteFails(c)
      PROVE  TypeOK'
  BY <1>8 DEF CreateTemp, WriteTemp, WriteFails
<1>9. ASSUME NEW c \in Clients, CheckAbsent(c) PROVE TypeOK'
  BY <1>9 DEF CheckAbsent
<1>10. ASSUME NEW c \in Clients, Rename(c) PROVE TypeOK'
  BY <1>10 DEF Rename, TargetNumbered
<1>11. ASSUME NEW c \in Clients, Confirm(c) \/ SyncFails(c) PROVE TypeOK'
  BY <1>11 DEF Confirm, SyncFails
<1>12. ASSUME NEW c \in Clients, SweepStep(c) PROVE TypeOK'
  BY <1>12 DEF SweepStep, BeginSweep, SweepOne,
     Sweep, SweepUnlink, SweepEnds, Dead
<1>13. ASSUME NEW c \in Clients, ReadRoot(c) \/ StatRoot(c) PROVE TypeOK'
  BY <1>13 DEF ReadRoot, StatRoot
<1>14. ASSUME NEW c \in Clients, ListDirectory(c) PROVE TypeOK'
  BY <1>14 DEF ListDirectory
<1>15. ASSUME NEW c \in Clients, StatEntries(c) \/ FinishRead(c) PROVE TypeOK'
  <2>1. CASE StatEntries(c)
    BY <2>1 DEF StatEntries
  <2>2. Rows(c) \in SUBSET Artifact
    BY DEF Rows
  <2>3. CASE FinishRead(c)
    <3>1. \/ Throw(c)
          \/ Answer(c, "listed", Rows(c))
          \/ \E ref : Answer(c, "got", {a \in Rows(c) : RefOf(a) = ref})
      BY <2>3 DEF FinishRead
    <3>2. /\ status' \in [Clients -> {"none", "returned", "listed", "got", "threw"}]
          /\ value' \in [Clients -> SUBSET Artifact]
      BY <2>2, <3>1
    <3> QED
      BY <2>3, <3>2 DEF FinishRead
  <2> QED
    BY <1>15, <2>1, <2>3
<1>16. ASSUME NEW c \in Clients, Die(c) PROVE TypeOK'
  BY <1>16 DEF Die
<1>17. CASE UNCHANGED vars
  BY <1>17 DEF vars
<1> QED
  BY <1>1, <1>2, <1>3, <1>4, <1>5, <1>6, <1>7, <1>8, <1>9, <1>10, <1>11, <1>12,
     <1>13, <1>14, <1>15, <1>16, <1>17 DEF Next, Step, AppendStep, Scan

LEMMA NextTargetNumbered ==
    ASSUME TypeOK, TargetNumbered, [Next]_vars PROVE TargetNumbered'
<1> USE DEF TypeOK, TargetNumbered, Goto, Leave, ScanFails, Listing
<1>1. ASSUME NEW c \in Clients, AppendAccepts(c) PROVE TargetNumbered'
  <2>1. PICK a \in Acceptable(files, draft[c]) : target' = [target EXCEPT ![c] = a]
    BY <1>1 DEF AppendAccepts
  <2>2. a.rev \in 1..MaxRevision
    BY <2>1, AcceptableTyped
  <2> QED
    BY <1>1, <2>1, <2>2 DEF AppendAccepts
<1>2. ASSUME NEW c \in Clients, Begin(c) \/ Acquire(c) \/ AcquireFails(c) \/ Release(c)
      PROVE  TargetNumbered'
  BY <1>2 DEF Begin, BeginAppend, BeginRecover, BeginRead, Acquire, AcquireFails, Release
<1>3. ASSUME NEW c \in Clients, AppendStep(c), ~AppendAccepts(c) PROVE TargetNumbered'
  BY <1>3 DEF AppendStep, AppendReuses, AppendRejects, CreateTemp, WriteTemp, WriteFails,
     CheckAbsent, Rename, Confirm, SyncFails
<1>4. ASSUME NEW c \in Clients, Scan(c) \/ FinishRead(c) \/ Die(c) PROVE TargetNumbered'
  BY <1>4 DEF Scan, ReadRoot, StatRoot, ListDirectory, StatEntries, FinishRead, Die
<1>5. ASSUME NEW c \in Clients, SweepStep(c) PROVE TargetNumbered'
  BY <1>5 DEF SweepStep, BeginSweep, SweepOne, Sweep, SweepUnlink, SweepEnds
<1>6. CASE UNCHANGED vars
  BY <1>6 DEF vars
<1> QED
  BY <1>1, <1>2, <1>3, <1>4, <1>5, <1>6 DEF Next, Step

(* Whatever the lock does and whoever dies, the variables of the store     *)
(* keep their types, and no revision file has a number beyond the limit    *)
(* (MAX_REVISION in append): the number is chosen within the limit, and    *)
(* nothing changes it until the rename.                                    *)
THEOREM TypeCorrect == Spec => []TypeOK
<1>1. Init => TypeOK /\ TargetNumbered
  BY InitTypeOK DEF Init, TargetNumbered
<1>2. TypeOK /\ TargetNumbered /\ [Next]_vars => (TypeOK /\ TargetNumbered)'
  BY NextTypeOK, NextTargetNumbered
<1> QED
  BY <1>1, <1>2, PTL DEF Spec

-----------------------------------------------------------------------------
(* The store invariant *)

LEMMA InitStoreInv == Init => StoreInv
  BY InitTypeOK DEF Init, StoreInv, GuardedHolds, TargetReady, StoreReadable,
     NeverForked, Unique, Closed, Guarded, Writing

(* A step that keeps the files and the targets, and neither enters the     *)
(* guarded section nor changes the holder, keeps the invariant.            *)
LEMMA QuietStep ==
    ASSUME StoreInv, TypeOK',
           UNCHANGED <<files, target, holder>>,
           \A c \in Clients : pc'[c] \in Guarded => pc[c] \in Guarded,
           \A c \in Clients : pc'[c] \in {"temp", "write", "check", "rename"}
                             => pc[c] \in {"temp", "write", "check", "rename"}
    PROVE  StoreInv'
  BY DEF StoreInv, GuardedHolds, TargetReady, Completes, Lineage, Resolved,
         StoreReadable, NeverForked, Unique, Closed

LEMMA NextStoreInv ==
    ASSUME LockIsExclusive, StoreInv, [Next]_vars PROVE StoreInv'
<1>1. TypeOK'
  <2>1. TargetNumbered
    BY DEF StoreInv, TargetReady, TargetNumbered, Completes
  <2> QED
    BY <2>1, NextTypeOK DEF StoreInv
<1> USE <1>1 DEF Goto, Throw, ScanFails, Leave, Listing, Guarded, Writing, Scanning,
        Sweeping, Phases
<1>2. ASSUME NEW c \in Clients, Begin(c) PROVE StoreInv'
  BY <1>2, QuietStep DEF Begin, BeginAppend, BeginRecover, BeginRead, StoreInv, TypeOK
<1>3. ASSUME NEW c \in Clients, Acquire(c) PROVE StoreInv'
  <2>1. \A d \in Clients : pc[d] \notin Guarded
    BY <1>3, ClientAssumption DEF Acquire, Dead, StoreInv, GuardedHolds
  <2>2. GuardedHolds'
    BY <1>3, <2>1 DEF Acquire, GuardedHolds, StoreInv, TypeOK
  <2>3. TargetReady'
    BY <1>3, <2>1 DEF Acquire, TargetReady, StoreInv, TypeOK
  <2>4. StoreReadable'
    BY <1>3 DEF Acquire, StoreInv, StoreReadable, NeverForked, Unique, Closed, Lineage,
                Resolved
  <2> QED
    BY <2>2, <2>3, <2>4 DEF StoreInv
<1>4. ASSUME NEW c \in Clients, AcquireFails(c) PROVE StoreInv'
  BY <1>4, QuietStep DEF AcquireFails, StoreInv, TypeOK
<1>5. ASSUME NEW c \in Clients, Release(c) PROVE StoreInv'
  <2>1. \A d \in Clients : pc'[d] \in Guarded => pc[d] \in Guarded /\ d # c
    BY <1>5 DEF Release, StoreInv, TypeOK
  <2>2. GuardedHolds'
    BY <1>5, <2>1 DEF Release, GuardedHolds, StoreInv
  <2>3. TargetReady'
    BY <1>5, <2>1 DEF Release, TargetReady, StoreInv, TypeOK, Completes, Lineage, Resolved
  <2>4. StoreReadable'
    BY <1>5 DEF Release, StoreInv, StoreReadable, NeverForked, Unique, Closed, Lineage,
                Resolved
  <2> QED
    BY <2>2, <2>3, <2>4 DEF StoreInv
<1>6. ASSUME NEW c \in Clients, AppendReuses(c) \/ AppendRejects(c) PROVE StoreInv'
  BY <1>6, QuietStep DEF AppendReuses, AppendRejects, StoreInv, TypeOK
<1>7. ASSUME NEW c \in Clients, AppendAccepts(c) PROVE StoreInv'
  <2>1. PICK a \in Acceptable(files, draft[c]) : target' = [target EXCEPT ![c] = a]
    BY <1>7 DEF AppendAccepts
  <2>2. Completes(a)
    BY <1>7, <2>1, AcceptableCompletes DEF AppendAccepts, StoreInv, TypeOK
  <2>3. GuardedHolds'
    BY <1>7 DEF AppendAccepts, GuardedHolds, StoreInv, TypeOK
  <2>4. TargetReady'
    BY <1>7, <2>1, <2>2 DEF AppendAccepts, TargetReady, StoreInv, TypeOK, Completes,
                            Lineage, Resolved
  <2>5. StoreReadable'
    BY <1>7 DEF AppendAccepts, StoreInv, StoreReadable, NeverForked, Unique, Closed,
                Lineage, Resolved
  <2> QED
    BY <2>3, <2>4, <2>5 DEF StoreInv
<1>8. ASSUME NEW c \in Clients,
             CreateTemp(c) \/ WriteTemp(c) \/ WriteFails(c) \/ CheckAbsent(c)
      PROVE  StoreInv'
  BY <1>8, QuietStep DEF CreateTemp, WriteTemp, WriteFails, CheckAbsent, StoreInv, TypeOK
<1>9. ASSUME NEW c \in Clients, Rename(c) PROVE StoreInv'
  <2>1. Completes(target[c])
    BY <1>9 DEF Rename, StoreInv, TargetReady
  <2>2. files' = files \union {target[c]}
    BY <1>9, <2>1 DEF Rename, SamePath, RefOf, Completes
  <2>3. \A d \in Clients : d # c => pc'[d] \notin Guarded
    BY <1>9 DEF Rename, StoreInv, GuardedHolds, TypeOK
  <2>4. GuardedHolds'
    BY <1>9, <2>3 DEF Rename, StoreInv, GuardedHolds, TypeOK
  <2>5. TargetReady'
    BY <1>9, <2>3 DEF Rename, TargetReady, StoreInv, TypeOK
  <2>6. StoreReadable'
    <3>1. Unique(files \union {target[c]}) /\ Closed(files \union {target[c]})
      BY <2>1, Extension DEF StoreInv
    <3> QED
      BY <2>2, <3>1 DEF StoreReadable, NeverForked
  <2> QED
    BY <2>4, <2>5, <2>6 DEF StoreInv
<1>10. ASSUME NEW c \in Clients,
              Confirm(c) \/ SyncFails(c) \/ SweepStep(c)
       PROVE  StoreInv'
  BY <1>10, QuietStep DEF Confirm, SyncFails, SweepStep, BeginSweep, SweepOne,
     Sweep, SweepUnlink, SweepEnds, StoreInv, TypeOK
<1>11. ASSUME NEW c \in Clients, Scan(c) \/ FinishRead(c) PROVE StoreInv'
  BY <1>11, QuietStep DEF Scan, ReadRoot, StatRoot, ListDirectory, StatEntries,
                          FinishRead, StoreInv, TypeOK
<1>12. ASSUME NEW c \in Clients, Die(c) PROVE StoreInv'
  BY <1>12, QuietStep DEF Die, StoreInv, TypeOK
<1>13. CASE UNCHANGED vars
  BY <1>13, QuietStep DEF vars
<1> QED
  BY <1>2, <1>3, <1>4, <1>5, <1>6, <1>7, <1>8, <1>9, <1>10, <1>11, <1>12, <1>13
     DEF Next, Step, AppendStep

(* Under an exclusive append lock the store stays readable: history never  *)
(* forks, lineages are unbroken and every reference resolves, whatever is  *)
(* interrupted and whoever dies.                                           *)
THEOREM Readable == ASSUME LockIsExclusive PROVE Spec => []StoreReadable
<1>1. StoreInv /\ [Next]_vars => StoreInv'
  BY NextStoreInv
<1>2. StoreInv => StoreReadable
  BY DEF StoreInv
<1> QED
  BY InitStoreInv, <1>1, <1>2, PTL DEF Spec

-----------------------------------------------------------------------------
(* The file protocol implements RevisionLog: every step of append,         *)
(* recover, a reader or a death appends one entry to one log or leaves the *)
(* logs alone.  The logs are read off the files by revision number, so the *)
(* proof needs that the revisions of an identity are 1 to their count      *)
(* (Numbered).  An append lands after the last one, because the target     *)
(* that it decided on still follows the files at its rename (TargetReady   *)
(* of StoreInv).                                                           *)

Entry(a) == [content |-> a.content, inputs |-> a.inputs]

Published == {[content |-> d.content, inputs |-> d.inputs] : d \in Drafts}

(* The revisions M of one identity are numbered without a gap.             *)
Numbered(M) == IsFiniteSet(M) /\ {a.rev : a \in M} = 1..Cardinality(M)

RevisionsOf(S, id) == {a \in S : a.id = id}

LogOf(M) == [n \in 1..Cardinality(M) |-> Entry(CHOOSE b \in M : b.rev = n)]

(* What an append is about to rename is the content of a draft.            *)
TargetDrafted ==
    \A c \in Clients : pc[c] \in {"temp", "write", "check", "rename"} =>
        Entry(target[c]) \in Published

LogInv ==
    /\ StoreInv
    /\ \A id \in Ids : Numbered(RevisionsOf(files, id))
    /\ TargetDrafted

-----------------------------------------------------------------------------
(* Logs *)

LEMMA LogsByIdentity == Logs = [id \in Ids |-> LogOf(RevisionsOf(files, id))]
BY DEF Logs, LogOf, RevisionsOf, Entry

LEMMA LogOfTyped ==
    ASSUME NEW M, M \subseteq Artifact, Numbered(M), NEW n \in 1..Cardinality(M)
    PROVE  \E a \in M : a.rev = n /\ LogOf(M)[n] = Entry(CHOOSE b \in M : b.rev = n)
BY DEF Numbered, LogOf

LEMMA LogOfIsLog ==
    ASSUME NEW M, M \subseteq Artifact, Numbered(M)
    PROVE  /\ Cardinality(M) \in Nat
           /\ LogOf(M) \in Seq({Entry(a) : a \in M})
           /\ Len(LogOf(M)) = Cardinality(M)
<1> DEFINE n == Cardinality(M)
           E == {Entry(a) : a \in M}
<1>1. n \in Nat
  BY FS_CardinalityType DEF Numbered
<1>2. LogOf(M) \in [1..n -> E]
  <2> SUFFICES ASSUME NEW k \in 1..n PROVE Entry(CHOOSE b \in M : b.rev = k) \in E
    BY DEF LogOf
  <2>1. \E b \in M : b.rev = k
    BY DEF Numbered
  <2> QED
    BY <2>1
<1> HIDE DEF n, E
<1>3. LogOf(M) \in Seq(E)
  BY <1>1, <1>2, SeqDef
<1>4. Len(LogOf(M)) = n
  BY <1>1, <1>2, <1>3, LenProperties
<1> QED
  BY <1>1, <1>3, <1>4 DEF n, E

(* The entry at a position is the one of the revision with this number.    *)
LEMMA LogOfAt ==
    ASSUME NEW M, M \subseteq Artifact, Numbered(M),
           \A a, b \in M : a.rev = b.rev => a = b,
           NEW a \in M
    PROVE  a.rev \in 1..Cardinality(M) /\ LogOf(M)[a.rev] = Entry(a)
<1>1. a.rev \in 1..Cardinality(M)
  BY DEF Numbered
<1>2. (CHOOSE b \in M : b.rev = a.rev) = a
  OBVIOUS
<1> QED
  BY <1>1, <1>2 DEF LogOf

(* The next revision is the next entry.                                    *)
LEMMA LogOfGrows ==
    ASSUME NEW M, M \subseteq Artifact, Numbered(M),
           \A b, d \in M : b.rev = d.rev => b = d,
           NEW a \in Artifact, a.rev = Cardinality(M) + 1
    PROVE  /\ Numbered(M \union {a})
           /\ LogOf(M \union {a}) = Append(LogOf(M), Entry(a))
<1> DEFINE N == M \union {a}
           n == Cardinality(M)
           E == {Entry(b) : b \in N}
<1>1. n \in Nat /\ IsFiniteSet(M)
  BY LogOfIsLog DEF Numbered
<1>2. \A b \in M : b.rev \in 1..n
  BY DEF Numbered
<1>3. a \notin M
  BY <1>1, <1>2
<1>4. IsFiniteSet(N) /\ Cardinality(N) = n + 1
  BY <1>1, <1>3, FS_AddElement
<1>5. {b.rev : b \in N} = 1..(n + 1)
  <2>1. {b.rev : b \in N} = (1..n) \union {n + 1}
    BY DEF Numbered
  <2> QED
    BY <1>1, <2>1
<1>6. Numbered(N) /\ N \subseteq Artifact
  BY <1>4, <1>5 DEF Numbered
<1>7. \A b, d \in N : b.rev = d.rev => b = d
  BY <1>1, <1>2
<1>8. /\ LogOf(N) \in Seq(E) /\ Len(LogOf(N)) = n + 1
      /\ \A b \in N : LogOf(N)[b.rev] = Entry(b)
  BY <1>4, <1>6, <1>7, LogOfIsLog, LogOfAt
<1>9. /\ LogOf(M) \in Seq({Entry(b) : b \in M}) /\ Len(LogOf(M)) = n
      /\ \A b \in M : LogOf(M)[b.rev] = Entry(b)
  BY LogOfIsLog, LogOfAt
<1>10. LogOf(M) \in Seq(E) /\ Entry(a) \in E
  <2>1. {Entry(b) : b \in M} \subseteq E
    OBVIOUS
  <2> QED
    BY <1>9, <2>1, SeqMonotonic
<1>11. /\ Append(LogOf(M), Entry(a)) \in Seq(E)
       /\ Len(Append(LogOf(M), Entry(a))) = n + 1
       /\ \A k \in 1..n : Append(LogOf(M), Entry(a))[k] = LogOf(M)[k]
       /\ Append(LogOf(M), Entry(a))[n + 1] = Entry(a)
  BY <1>9, <1>10, AppendProperties
<1>12. ASSUME NEW k \in 1..(n + 1) PROVE LogOf(N)[k] = Append(LogOf(M), Entry(a))[k]
  <2>1. CASE k = n + 1
    BY <1>8, <1>11, <2>1
  <2>2. CASE k \in 1..n
    <3>1. PICK b \in M : b.rev = k
      BY <2>2 DEF Numbered
    <3> QED
      BY <1>8, <1>9, <1>11, <2>2, <3>1
  <2>3. k = n + 1 \/ k \in 1..n
    BY <1>1, <1>12
  <2> QED
    BY <2>1, <2>2, <2>3
<1> HIDE DEF N, n, E
<1>13. LogOf(N) = Append(LogOf(M), Entry(a))
  BY <1>8, <1>11, <1>12, SeqEqual
<1> QED
  BY <1>6, <1>13 DEF N

-----------------------------------------------------------------------------
(* The steps *)

LEMMA SameLogs ==
    ASSUME files' = files PROVE Logs' = Logs
BY DEF Logs

LEMMA DraftedKept ==
    ASSUME TargetDrafted, UNCHANGED target,
           \A c \in Clients : pc'[c] \in {"temp", "write", "check", "rename"}
                             => pc[c] \in {"temp", "write", "check", "rename"}
    PROVE  TargetDrafted'
BY DEF TargetDrafted

(* Every step but the rename of an append leaves the files alone.          *)
LEMMA OtherSteps ==
    ASSUME LogInv, [Next]_vars, ~\E c \in Clients : Rename(c)
    PROVE  files' = files /\ TargetDrafted'
<1> USE DEF LogInv, StoreInv, TypeOK, Goto, Throw, ScanFails, Leave, Listing, Phases
<1>1. ASSUME NEW c \in Clients, AppendAccepts(c) PROVE files' = files /\ TargetDrafted'
  <2>1. PICK a \in Acceptable(files, draft[c]) : target' = [target EXCEPT ![c] = a]
    BY <1>1 DEF AppendAccepts
  <2>2. draft[c] \in Drafts /\ draft[c] \in Artifact
    BY DraftAssumption
  <2>3. Entry(a) \in Published
    <3>1. PICK n \in 1..MaxRevision : a = [draft[c] EXCEPT !.rev = n]
      BY <2>1 DEF Acceptable, AtRevision
    <3>2. a.content = draft[c].content /\ a.inputs = draft[c].inputs
      BY <2>2, <3>1 DEF Artifact
    <3> QED
      BY <2>2, <3>2 DEF Entry, Published
  <2> QED
    BY <1>1, <2>1, <2>3 DEF AppendAccepts, TargetDrafted
<1>2. ASSUME NEW c \in Clients, Begin(c) \/ Acquire(c) \/ AcquireFails(c) \/ Release(c)
      PROVE  files' = files /\ TargetDrafted'
  BY <1>2, DraftedKept DEF Begin, BeginAppend, BeginRecover, BeginRead, Acquire,
     AcquireFails, Release
<1>3. ASSUME NEW c \in Clients, AppendReuses(c) \/ AppendRejects(c) \/ CreateTemp(c)
                                \/ WriteTemp(c) \/ WriteFails(c) \/ CheckAbsent(c)
      PROVE  files' = files /\ TargetDrafted'
  BY <1>3, DraftedKept DEF AppendReuses, AppendRejects, CreateTemp, WriteTemp, WriteFails,
     CheckAbsent
<1>4. ASSUME NEW c \in Clients, Confirm(c) \/ SyncFails(c) \/ SweepStep(c)
      PROVE  files' = files /\ TargetDrafted'
  BY <1>4, DraftedKept DEF Confirm, SyncFails, SweepStep, BeginSweep, SweepOne,
     Sweep, SweepUnlink, SweepEnds
<1>5. ASSUME NEW c \in Clients, Scan(c) \/ FinishRead(c) \/ Die(c)
      PROVE  files' = files /\ TargetDrafted'
  BY <1>5, DraftedKept DEF Scan, ReadRoot, StatRoot, ListDirectory, StatEntries,
     FinishRead, Die
<1>6. CASE UNCHANGED vars
  BY <1>6, DraftedKept DEF vars
<1> QED
  BY <1>1, <1>2, <1>3, <1>4, <1>5, <1>6 DEF Next, Step, AppendStep

(* The target is the revision after those of its identity.                 *)
LEMMA TargetIsNext ==
    ASSUME LogInv, NEW a, Completes(a)
    PROVE  a.rev = Cardinality(RevisionsOf(files, a.id)) + 1
<1> DEFINE M == RevisionsOf(files, a.id)
           n == Cardinality(M)
<1>1. a.id \in Ids /\ a.rev \in Nat /\ M \subseteq Artifact
  BY DEF Completes, Artifact, LogInv, StoreInv, TypeOK, RevisionsOf
<1>2. Numbered(M) /\ n \in Nat
  BY <1>1, LogOfIsLog DEF LogInv
<1>3. \A b \in M : b.rev < a.rev
  BY DEF Completes, RevisionsOf
<1>4. \A k \in 1..n : k < a.rev
  BY <1>2, <1>3 DEF Numbered
<1>5. CASE a.rev = 1
  BY <1>2, <1>4, <1>5
<1>6. CASE \E p \in M : p.rev + 1 = a.rev
  <2>1. PICK p \in M : p.rev + 1 = a.rev
    BY <1>6
  <2>2. p.rev \in 1..n
    BY <1>2 DEF Numbered
  <2> QED
    BY <1>2, <1>4, <2>1, <2>2
<1>7. a.rev = 1 \/ \E p \in M : p.rev + 1 = a.rev
  BY DEF Completes, Lineage, RevisionsOf
<1> QED
  BY <1>5, <1>6, <1>7

(* The rename publishes: references resolve, one log grows by one entry.   *)
LEMMA RenamePublishes ==
    ASSUME LogInv, NEW c \in Clients, Rename(c)
    PROVE  /\ Log!Next
           /\ \A id \in Ids : Numbered(RevisionsOf(files', id))
           /\ TargetDrafted'
<1> DEFINE a == target[c]
           M == RevisionsOf(files, a.id)
<1>1. /\ Completes(a) /\ Entry(a) \in Published /\ pc[c] = "rename"
      /\ a \in Artifact /\ a.id \in Ids
  BY DEF Rename, LogInv, StoreInv, TargetReady, TargetDrafted, Completes, Artifact
<1>2. files' = files \union {a}
  BY <1>1 DEF Rename, SamePath, RefOf, Completes
<1>3. a.rev = Cardinality(M) + 1
  BY <1>1, TargetIsNext
<1>4. ASSUME NEW id \in Ids
      PROVE  /\ RevisionsOf(files, id) \subseteq Artifact
             /\ Numbered(RevisionsOf(files, id))
             /\ \A b, d \in RevisionsOf(files, id) : b.rev = d.rev => b = d
  BY DEF LogInv, StoreInv, TypeOK, StoreReadable, NeverForked, Unique, RevisionsOf
<1>5. /\ RevisionsOf(files', a.id) = M \union {a}
      /\ \A id \in Ids : id # a.id => RevisionsOf(files', id) = RevisionsOf(files, id)
  BY <1>2 DEF RevisionsOf
<1> HIDE DEF a
<1>6. /\ Numbered(M \union {a})
      /\ LogOf(M \union {a}) = Append(LogOf(M), Entry(a))
  BY <1>1, <1>3, <1>4, LogOfGrows
<1>7. \A id \in Ids : Numbered(RevisionsOf(files', id))
  BY <1>4, <1>5, <1>6
<1>8. TargetDrafted'
  BY DEF Rename, Goto, LogInv, StoreInv, TypeOK, TargetDrafted
<1>9. Logs' = [Logs EXCEPT ![a.id] = Append(@, Entry(a))]
  <2>1. Logs' = [id \in Ids |-> LogOf(RevisionsOf(files', id))]
    BY DEF Logs, LogOf, RevisionsOf, Entry
  <2> QED
    BY <1>1, <1>5, <1>6, <2>1, LogsByIdentity
<1>10. ASSUME NEW ref \in a.inputs
       PROVE  /\ ref.rev \in 1..Len(Logs[ref.id])
              /\ Logs[ref.id][ref.rev].content = ref.content
  <2>1. PICK b \in files : RefOf(b) = ref
    BY <1>1 DEF Completes, Resolved
  <2>2. /\ b.id = ref.id /\ b.rev = ref.rev /\ b.content = ref.content
        /\ ref.id \in Ids /\ b \in RevisionsOf(files, ref.id)
    BY <2>1 DEF RefOf, RevisionsOf, LogInv, StoreInv, TypeOK, Artifact
  <2>3. Logs[ref.id] = LogOf(RevisionsOf(files, ref.id))
    BY <2>2, LogsByIdentity
  <2>4. /\ b.rev \in 1..Len(Logs[ref.id])
        /\ Logs[ref.id][b.rev] = Entry(b)
    <3> DEFINE R == RevisionsOf(files, ref.id)
    <3>1. /\ R \subseteq Artifact /\ Numbered(R) /\ b \in R
          /\ \A e, d \in R : e.rev = d.rev => e = d
      BY <1>4, <2>2
    <3> HIDE DEF R
    <3>2. b.rev \in 1..Cardinality(R) /\ LogOf(R)[b.rev] = Entry(b)
      BY <3>1, LogOfAt
    <3>3. Len(LogOf(R)) = Cardinality(R)
      BY <3>1, LogOfIsLog
    <3> QED
      BY <2>3, <3>2, <3>3 DEF R
  <2> QED
    BY <2>2, <2>4 DEF Entry
<1>11. Log!Publish(a.id, Entry(a))
  BY <1>9, <1>10 DEF Log!Publish, Log!Resolves, Entry
<1> QED
  BY <1>1, <1>7, <1>8, <1>11 DEF Log!Next, Published

LEMMA InitLog == Init => LogInv /\ Log!Init
<1> SUFFICES ASSUME Init PROVE LogInv /\ Log!Init
  OBVIOUS
<1>1. files = {} /\ \A c \in Clients : pc[c] = "begin"
  BY DEF Init
<1>2. \A id : RevisionsOf(files, id) = {}
  BY <1>1 DEF RevisionsOf
<1>3. Numbered({}) /\ LogOf({}) = << >>
  <2>1. IsFiniteSet({}) /\ Cardinality({}) = 0
    BY FS_EmptySet
  <2> QED
    BY <2>1 DEF Numbered, LogOf
<1>4. LogInv
  BY <1>1, <1>2, <1>3, InitStoreInv DEF LogInv, TargetDrafted
<1>5. Logs = [id \in Ids |-> << >>]
  BY <1>2, <1>3, LogsByIdentity
<1> QED
  BY <1>4, <1>5 DEF Log!Init

LEMMA NextLog ==
    ASSUME LockIsExclusive, LogInv, [Next]_vars
    PROVE  LogInv' /\ [Log!Next]_Logs
<1>1. StoreInv'
  BY NextStoreInv DEF LogInv
<1>2. CASE \E c \in Clients : Rename(c)
  BY <1>1, <1>2, RenamePublishes DEF LogInv
<1>3. CASE ~\E c \in Clients : Rename(c)
  BY <1>1, <1>3, OtherSteps, SameLogs DEF LogInv
<1> QED
  BY <1>2, <1>3

(* Under an exclusive append lock the store implements an append-only log  *)
(* per identity: whatever clients append, recover and read beside each     *)
(* other and wherever they are killed, each step appends one revision,     *)
(* whose references resolve, or changes no log (append in                  *)
(* artifacts/store.js).                                                    *)
THEOREM Implementation == ASSUME LockIsExclusive PROVE Spec => ImplementsRevisionLog
<1>1. LogInv /\ [Next]_vars => LogInv' /\ [Log!Next]_Logs
  BY NextLog
<1> QED
  BY InitLog, <1>1, PTL DEF Spec, ImplementsRevisionLog, Log!Spec

-----------------------------------------------------------------------------
(* What the callers of the store see.  With an exclusive lock the files    *)
(* only grow (FilesGrow), so what a client has seen in them stays there;   *)
(* the rest relates what a client holds to the files: the draft to the     *)
(* target, the directories that a reader has listed to the files that it   *)
(* found when it began.                                                    *)

(* What append makes of its draft                                          *)
MadeFrom(a, d) == a.content = d.content /\ SameEnvelope(a, d)

(* An identity has one type.                                               *)
OneType == \A a, b \in files : a.id = b.id => a.type = b.type

(* An append writes what it was asked to write; what it has renamed into   *)
(* place stays there, and what it returned is that or what it found.       *)
AppendTracked(c) ==
    /\ pc[c] \notin Sweeping
    /\ pc[c] = "begin" => status[c] = "none"
    /\ pc[c] \in Writing => MadeFrom(target[c], draft[c])
    /\ pc[c] = "confirm" => target[c] \in files
    /\ status[c] = "returned" => \E a \in files : value[c] = {a} /\ MadeFrom(a, draft[c])

(* A reader has seen nothing that is not stored, and all that was stored   *)
(* when it began, up to the directories that it has yet to list.           *)
ReadTracked(c) ==
    /\ before[c] \subseteq files
    /\ snapshot[c] \subseteq files
    /\ pc[c] = "begin" => snapshot[c] = {} /\ status[c] = "none"
    /\ pc[c] \in Scanning =>
         \A a \in before[c] : a \in snapshot[c] \/ <<a.type, a.id>> \in unlisted[c]
    /\ status[c] = "listed" =>
         before[c] \subseteq value[c] /\ value[c] \subseteq files /\ Closed(value[c])
    /\ status[c] = "got" =>
         value[c] \subseteq files /\ \A a \in value[c] : Verifies(files, a)

Tracked(c) ==
    /\ c \in Appenders => AppendTracked(c)
    /\ c \in Readers => ReadTracked(c)

UseInv == StoreInv /\ OneType /\ \A c \in Clients : Tracked(c)

-----------------------------------------------------------------------------
(* Growing files *)

LEMMA VerifiesMore ==
    ASSUME NEW S, NEW T, S \subseteq T, NEW a, Verifies(S, a)
    PROVE  Verifies(T, a)
BY DEF Verifies

(* Rows that verify one by one form a set that is closed.                  *)
LEMMA AllVerify ==
    ASSUME NEW S, \A a \in S : Verifies(S, a)
    PROVE  Closed(S)
<1> SUFFICES ASSUME NEW a \in S
             PROVE  Lineage(S, a) /\ \A ref \in a.parents \union a.inputs : Resolved(S, ref)
  BY DEF Closed
<1>1. PICK T \in SUBSET S : a \in T /\ Closed(T)
  BY DEF Verifies
<1> QED
  BY <1>1 DEF Closed, Lineage, Resolved

LEMMA RenameAdds ==
    ASSUME StoreInv, OneType, NEW c \in Clients, Rename(c)
    PROVE  files' = files \union {target[c]} /\ OneType' /\ Completes(target[c])
<1>1. Completes(target[c])
  BY DEF Rename, StoreInv, TargetReady
<1>2. files' = files \union {target[c]}
  BY <1>1 DEF Rename, SamePath, RefOf, Completes
<1>3. ASSUME NEW b \in files, b.id = target[c].id PROVE b.type = target[c].type
  <2>1. b \in Artifact /\ b.rev \in 1..MaxRevision /\ b.rev < target[c].rev
    BY <1>1, <1>3 DEF Completes, StoreInv, TypeOK
  <2>2. target[c].rev # 1
    BY <2>1, StoreAssumption
  <2>3. PICK p \in files : p.type = target[c].type /\ p.id = target[c].id
    BY <1>1, <2>2 DEF Completes, Lineage
  <2> QED
    BY <1>3, <2>3 DEF OneType
<1> QED
  BY <1>1, <1>2, <1>3 DEF OneType

LEMMA FilesGrow ==
    ASSUME StoreInv, OneType, [Next]_vars
    PROVE  files \subseteq files' /\ OneType'
<1>1. CASE \E c \in Clients : Rename(c)
  BY <1>1, RenameAdds
<1>2. CASE ~\E c \in Clients : Rename(c)
  <2>1. files' = files
    BY <1>2 DEF Next, Begin, BeginAppend, BeginRecover, BeginRead, Step, Acquire,
       AcquireFails, Release, AppendStep, AppendReuses, AppendRejects, AppendAccepts,
       CreateTemp, WriteTemp, WriteFails, CheckAbsent, Confirm, SyncFails, SweepStep,
       BeginSweep, SweepOne, Sweep, SweepUnlink, SweepEnds, Scan, ReadRoot, StatRoot,
       ListDirectory, StatEntries, FinishRead, Die, vars
  <2> QED
    BY <2>1 DEF OneType
<1> QED
  BY <1>1, <1>2

-----------------------------------------------------------------------------
(* One client moves *)

(* What a client holds, its temporary file and its listing apart.          *)
Held(d) == <<pc[d], draft[d], target[d], snapshot[d], unlisted[d], before[d], status[d],
             value[d]>>

LEMMA OthersStay ==
    ASSUME TypeOK, NEW c \in Clients, Begin(c) \/ Step(c) \/ Die(c),
           NEW d \in Clients, d # c
    PROVE  UNCHANGED Held(d)
<1> USE DEF TypeOK, Goto, Return, Answer, Throw, ScanFails, Leave, Listing, Held
<1>1. CASE Begin(c)
  BY <1>1 DEF Begin, BeginAppend, BeginRecover, BeginRead
<1>2. CASE Acquire(c) \/ AcquireFails(c) \/ Release(c)
  BY <1>2 DEF Acquire, AcquireFails, Release
<1>3. CASE AppendReuses(c) \/ AppendRejects(c) \/ AppendAccepts(c)
  BY <1>3 DEF AppendReuses, AppendRejects, AppendAccepts
<1>4. CASE CreateTemp(c) \/ WriteTemp(c) \/ WriteFails(c) \/ CheckAbsent(c) \/ Rename(c)
  BY <1>4 DEF CreateTemp, WriteTemp, WriteFails, CheckAbsent, Rename
<1>5. CASE Confirm(c) \/ SyncFails(c) \/ SweepStep(c)
  BY <1>5 DEF Confirm, SyncFails, SweepStep, BeginSweep, SweepOne,
     Sweep, SweepUnlink, SweepEnds
<1>6. CASE ReadRoot(c) \/ StatRoot(c) \/ ListDirectory(c) \/ StatEntries(c)
  BY <1>6 DEF ReadRoot, StatRoot, ListDirectory, StatEntries
<1>7. CASE FinishRead(c)
  BY <1>7 DEF FinishRead
<1>8. CASE Die(c)
  BY <1>8 DEF Die
<1> QED
  BY <1>1, <1>2, <1>3, <1>4, <1>5, <1>6, <1>7, <1>8 DEF Step, AppendStep, Scan

(* Growing files leave alone what a resting client knows of them.          *)
LEMMA RestTracked ==
    ASSUME NEW d, Tracked(d), files \subseteq files', UNCHANGED Held(d)
    PROVE  Tracked(d)'
<1>1. ASSUME d \in Appenders PROVE AppendTracked(d)'
  BY <1>1 DEF Tracked, AppendTracked, Held, MadeFrom, SameEnvelope
<1>2. ASSUME d \in Readers PROVE ReadTracked(d)'
  <2>1. \A a : Verifies(files, a) => Verifies(files', a)
    BY VerifiesMore
  <2> QED
    BY <1>2, <2>1 DEF Tracked, ReadTracked, Held, Closed, Lineage, Resolved, Verifies
<1> QED
  BY <1>1, <1>2 DEF Tracked

-----------------------------------------------------------------------------
(* The moves of an append *)

LEMMA AppendMoves ==
    ASSUME UseInv, UseInv => files \subseteq files', NEW c \in Appenders,
           Begin(c) \/ Step(c) \/ Die(c)
    PROVE  AppendTracked(c)'
<1>0. c \in Clients /\ c \notin Readers /\ c \notin Recoverers /\ AppendTracked(c)
        /\ files \subseteq files'
  BY ClientAssumption DEF Clients, UseInv, Tracked
<1>t. TypeOK
  BY DEF UseInv, StoreInv
<1> USE <1>0, <1>t DEF TypeOK, Goto, Return, Answer, Throw, ScanFails, Leave, Listing,
        AppendTracked, Writing, Sweeping, MadeFrom, SameEnvelope
<1>1. CASE Begin(c)
  BY <1>1 DEF Begin, BeginAppend, BeginRecover, BeginRead
<1>2. CASE Acquire(c) \/ AcquireFails(c) \/ Release(c)
  BY <1>2 DEF Acquire, AcquireFails, Release
<1>3. CASE AppendReuses(c) \/ AppendRejects(c)
  BY <1>3 DEF AppendReuses, AppendRejects, Reusable, History
<1>4. CASE AppendAccepts(c)
  <2>1. PICK a \in Acceptable(files, draft[c]) : target' = [target EXCEPT ![c] = a]
    BY <1>4 DEF AppendAccepts
  <2>2. PICK n \in 1..MaxRevision : a = AtRevision(draft[c], n)
    BY <2>1 DEF Acceptable
  <2>3. draft[c] \in Artifact
    BY DraftAssumption
  <2>4. MadeFrom(a, draft[c])
    BY <2>2, <2>3 DEF AtRevision, Artifact
  <2>5. status[c] = status'[c] /\ value[c] = value'[c] /\ draft[c] = draft'[c]
          /\ pc'[c] = "temp" /\ target'[c] = a /\ files' = files
    BY <1>4, <2>1 DEF AppendAccepts
  <2> QED
    BY <2>4, <2>5
<1>5. CASE CreateTemp(c) \/ WriteTemp(c) \/ WriteFails(c) \/ CheckAbsent(c)
  BY <1>5 DEF CreateTemp, WriteTemp, WriteFails, CheckAbsent
<1>6. CASE Rename(c)
  BY <1>6 DEF Rename
<1>7. CASE Confirm(c) \/ SyncFails(c)
  <2>1. target[c] \in files /\ MadeFrom(target[c], draft[c])
    BY <1>7 DEF Confirm, SyncFails
  <2>2. {a \in files : SamePath(a, target[c])} = {target[c]}
    <3>1. Unique(files)
      BY DEF UseInv, StoreInv, StoreReadable, NeverForked
    <3> QED
      BY <2>1, <3>1 DEF SamePath, RefOf, Unique
  <2>3. /\ files' = files /\ draft' = draft /\ pc'[c] = "unlock"
        /\ \/ status'[c] = "returned" /\ value'[c] = {target[c]}
           \/ status'[c] = "threw"
    BY <1>7, <2>2 DEF Confirm, SyncFails
  <2> QED
    BY <2>1, <2>3
<1>8. CASE SweepStep(c)
  BY <1>8 DEF SweepStep, BeginSweep, SweepOne,
     Sweep, SweepUnlink, SweepEnds
<1>9. CASE ReadRoot(c) \/ StatRoot(c) \/ ListDirectory(c) \/ StatEntries(c)
  BY <1>9 DEF ReadRoot, StatRoot, ListDirectory, StatEntries
<1>10. CASE FinishRead(c)
  <2>1. /\ pc'[c] = "ended" /\ status'[c] \in {"listed", "got", "threw"}
    BY <1>10 DEF FinishRead
  <2> QED
    BY <2>1
<1>11. CASE Die(c)
  BY <1>11 DEF Die
<1> QED
  BY <1>1, <1>2, <1>3, <1>4, <1>5, <1>6, <1>7, <1>8, <1>9, <1>10, <1>11
     DEF Step, AppendStep, Scan

-----------------------------------------------------------------------------
(* The moves of a reader *)

(* A reader that moves without an answer, and without losing what it has   *)
(* listed, stays tracked.                                                  *)
LEMMA SilentMove ==
    ASSUME NEW c \in Readers, ReadTracked(c), files \subseteq files', before'[c] = before[c],
           snapshot'[c] \subseteq files', pc'[c] # "begin",
           \/ pc'[c] \notin Scanning
           \/ /\ pc[c] \in Scanning
              /\ \A a \in before[c] :
                   a \in snapshot[c] \/ <<a.type, a.id>> \in unlisted[c]
                   => a \in snapshot'[c] \/ <<a.type, a.id>> \in unlisted'[c],
           \/ status'[c] = status[c] /\ value'[c] = value[c]
           \/ status'[c] \in {"threw", "returned"}
    PROVE  ReadTracked(c)'
<1>1. \A a : Verifies(files, a) => Verifies(files', a)
  BY VerifiesMore
<1>2. ASSUME status'[c] = status[c] /\ value'[c] = value[c]
      PROVE  /\ status'[c] = "listed" =>
                   before'[c] \subseteq value'[c] /\ value'[c] \subseteq files'
                     /\ Closed(value'[c])
             /\ status'[c] = "got" =>
                   value'[c] \subseteq files' /\ \A a \in value'[c] : Verifies(files', a)
  BY <1>1, <1>2 DEF ReadTracked
<1> QED
  BY <1>2 DEF ReadTracked, Closed, Lineage, Resolved, Verifies

LEMMA ReaderMoves ==
    ASSUME UseInv, UseInv => files \subseteq files', NEW c \in Readers,
           Begin(c) \/ Step(c) \/ Die(c)
    PROVE  ReadTracked(c)'
<1>0. c \in Clients /\ c \notin Appenders /\ c \notin Recoverers /\ ReadTracked(c)
        /\ files \subseteq files'
  BY ClientAssumption DEF Clients, UseInv, Tracked
<1>t. TypeOK
  BY DEF UseInv, StoreInv
<1>s. snapshot[c] \subseteq files
  BY <1>0 DEF ReadTracked
<1> USE <1>0, <1>t, <1>s DEF TypeOK, Goto, Return, Answer, Throw, ScanFails, Leave, Listing,
        Scanning, Sweeping
<1>1. CASE Begin(c)
  BY <1>1 DEF Begin, BeginAppend, BeginRecover, BeginRead, ReadTracked,
     Directories, Artifact
<1>2. CASE Acquire(c) \/ AcquireFails(c) \/ Release(c)
  BY <1>2, SilentMove DEF Acquire, AcquireFails, Release
<1>3. CASE AppendReuses(c) \/ AppendRejects(c) \/ AppendAccepts(c)
  BY <1>3, SilentMove DEF AppendReuses, AppendRejects, AppendAccepts
<1>4. CASE CreateTemp(c) \/ WriteTemp(c) \/ WriteFails(c) \/ CheckAbsent(c) \/ Rename(c)
  BY <1>4, SilentMove DEF CreateTemp, WriteTemp, WriteFails, CheckAbsent, Rename
<1>5. CASE Confirm(c) \/ SyncFails(c) \/ SweepStep(c)
  BY <1>5, SilentMove DEF Confirm, SyncFails, SweepStep, BeginSweep, SweepOne,
     Sweep, SweepUnlink, SweepEnds
<1>6. CASE ReadRoot(c) \/ StatRoot(c) \/ StatEntries(c)
  BY <1>6, SilentMove DEF ReadRoot, StatRoot, StatEntries
<1>7. CASE ListDirectory(c)
  <2>1. PICK dir \in unlisted[c] :
          /\ unlisted' = [unlisted EXCEPT ![c] = @ \ {dir}]
          /\ snapshot' = [snapshot EXCEPT ![c] = @ \union {a \in files : InDirectory(a, dir)}]
    BY <1>7 DEF ListDirectory
  <2>2. /\ pc[c] = "listing" /\ pc'[c] \in {"listing", "entryStat"} /\ files' = files
        /\ UNCHANGED <<before, status, value>>
    BY <1>7 DEF ListDirectory
  <2>3. /\ unlisted'[c] = unlisted[c] \ {dir}
        /\ snapshot'[c] = snapshot[c] \union {a \in files : InDirectory(a, dir)}
    BY <2>1
  <2>4. \A a \in before[c] :
          a \in snapshot[c] \/ <<a.type, a.id>> \in unlisted[c]
          => a \in snapshot'[c] \/ <<a.type, a.id>> \in unlisted'[c]
    BY <2>3 DEF ReadTracked, InDirectory
  <2> QED
    BY <2>2, <2>3, <2>4, SilentMove
<1>8. CASE FinishRead(c)
  <2>1. /\ files' = files /\ UNCHANGED <<before, snapshot, unlisted>> /\ pc'[c] = "ended"
        /\ pc[c] = "listing" /\ unlisted[c] = {}
    BY <1>8 DEF FinishRead
  <2>2. before[c] \subseteq Rows(c) /\ Rows(c) \subseteq files
    BY <2>1 DEF ReadTracked, Rows, SamePath, RefOf
  <2>3. \/ status'[c] = "threw"
        \/ /\ status'[c] = "listed" /\ value'[c] = Rows(c)
           /\ \A a \in Rows(c) : Verifies(Rows(c), a)
        \/ /\ status'[c] = "got" /\ value'[c] \subseteq Rows(c)
           /\ \A a \in value'[c] : Verifies(Rows(c), a)
    <3>1. CASE Throw(c)
      BY <3>1
    <3>2. CASE /\ \A a \in Rows(c) : Verifies(Rows(c), a)
               /\ Answer(c, "listed", Rows(c))
      BY <3>2
    <3>3. ASSUME NEW asked \in SUBSET Rows(c), \A a \in asked : Verifies(Rows(c), a),
                 Answer(c, "got", asked)
          PROVE  /\ status'[c] = "got" /\ value'[c] \subseteq Rows(c)
                 /\ \A a \in value'[c] : Verifies(Rows(c), a)
      BY <3>3
    <3> QED
      BY <1>8, <3>1, <3>2, <3>3 DEF FinishRead
  <2>4. \A a : Verifies(Rows(c), a) => Verifies(files, a)
    BY <2>2, VerifiesMore
  <2>5. (\A a \in Rows(c) : Verifies(Rows(c), a)) => Closed(Rows(c))
    BY AllVerify
  <2>6. before'[c] \subseteq files' /\ snapshot'[c] \subseteq files'
    BY <2>1, <2>2
  <2>7. status'[c] = "listed" =>
          before'[c] \subseteq value'[c] /\ value'[c] \subseteq files' /\ Closed(value'[c])
    BY <2>1, <2>2, <2>3, <2>5
  <2>8. status'[c] = "got" =>
          value'[c] \subseteq files' /\ \A a \in value'[c] : Verifies(files', a)
    BY <2>1, <2>2, <2>3, <2>4
  <2> QED
    BY <2>1, <2>6, <2>7, <2>8 DEF ReadTracked, Closed, Lineage, Resolved, Verifies
<1>9. CASE Die(c)
  BY <1>9, SilentMove DEF Die
<1> QED
  BY <1>1, <1>2, <1>3, <1>4, <1>5, <1>6, <1>7, <1>8, <1>9 DEF Step, AppendStep, Scan

-----------------------------------------------------------------------------
(* What the callers see *)

LEMMA InitUseInv == Init => UseInv
  BY InitStoreInv, ClientAssumption DEF Init, UseInv, OneType, Tracked, AppendTracked,
     ReadTracked, Clients, Writing, Scanning, Sweeping

LEMMA NextUseInv ==
    ASSUME LockIsExclusive, UseInv, [Next]_vars PROVE UseInv'
<1>1. StoreInv' /\ files \subseteq files' /\ OneType'
  BY NextStoreInv, FilesGrow DEF UseInv
<1>2. ASSUME NEW d \in Clients PROVE Tracked(d)'
  <2>1. CASE UNCHANGED Held(d)
    BY <1>1, <2>1, RestTracked DEF UseInv
  <2>2. CASE Begin(d) \/ Step(d) \/ Die(d)
    BY <1>1, <2>2, AppendMoves, ReaderMoves DEF Tracked
  <2>3. ASSUME NEW c \in Clients, c # d, Begin(c) \/ Step(c) \/ Die(c)
        PROVE  UNCHANGED Held(d)
    BY <2>3, OthersStay DEF UseInv, StoreInv
  <2>4. CASE UNCHANGED vars
    BY <2>1, <2>4 DEF vars, Held
  <2> QED
    BY <2>1, <2>2, <2>3, <2>4 DEF Next
<1> QED
  BY <1>1, <1>2 DEF UseInv

(* What append has returned is what its caller asked for and it is on disk *)
(* for good.                                                               *)
THEOREM Committed == ASSUME LockIsExclusive PROVE Spec => []ReturnedIsCommitted
<1>1. UseInv /\ [Next]_vars => UseInv'
  BY NextUseInv
<1>2. UseInv => ReturnedIsCommitted
  BY DEF UseInv, Tracked, AppendTracked, ReturnedIsCommitted, MadeFrom, Clients
<1> QED
  BY InitUseInv, <1>1, <1>2, PTL DEF Spec

(* A list without the lock returns all that was stored when it began,      *)
(* nothing that is not stored, and every reference resolved; a get returns *)
(* a stored revision with its whole ancestry.                              *)
THEOREM ReadsConsistent == ASSUME LockIsExclusive PROVE Spec => []ReadIsConsistent
<1>1. UseInv /\ [Next]_vars => UseInv'
  BY NextUseInv
<1>2. UseInv => ReadIsConsistent
  BY DEF UseInv, Tracked, ReadTracked, ReadIsConsistent, Clients
<1> QED
  BY InitUseInv, <1>1, <1>2, PTL DEF Spec

-----------------------------------------------------------------------------
(* Retries *)

(* A draft that was stored is sound against the files that hold it.        *)
LEMMA StoredIsSound ==
    ASSUME UseInv, NEW a \in files, NEW d, MadeFrom(a, d)
    PROVE  Sound(files, d)
<1>1. \A b \in files : Verifies(files, b)
  BY DEF UseInv, StoreInv, StoreReadable, Verifies
<1>2. \A b \in files : b.id = d.id => b.type = d.type
  BY DEF UseInv, OneType, MadeFrom, SameEnvelope
<1>3. \A ref \in d.parents \union d.inputs : \E b \in files : RefOf(b) = ref
  BY DEF UseInv, StoreInv, StoreReadable, Closed, Resolved, MadeFrom, SameEnvelope
<1> QED
  BY <1>1, <1>2, <1>3 DEF Sound, UseInv, StoreInv, StoreReadable, NeverForked, History

(* An append that holds the lock never refuses what is stored already, so  *)
(* a caller that lost the answer may repeat its request.                   *)
THEOREM RetriesAccepted == ASSUME LockIsExclusive PROVE Spec => StoredIsNeverRefused
<1> DEFINE Refused(c) ==
             pc[c] = "scan" /\ status[c] = "none" /\ status'[c] = "threw" =>
               ~\E a \in files : /\ SameEnvelope(a, draft[c])
                                 /\ a.content = draft[c].content
                                 /\ draft[c].rev \in {0, a.rev}
<1>1. ASSUME UseInv, [Next]_vars, NEW c \in Appenders PROVE Refused(c)
  <2>t. TypeOK /\ c \in Clients
    BY <1>1 DEF UseInv, StoreInv, Clients
  <2>1. CASE UNCHANGED Held(c)
    BY <2>1 DEF Held
  <2>2. ASSUME NEW d \in Clients, d # c, Begin(d) \/ Step(d) \/ Die(d)
        PROVE  UNCHANGED Held(c)
    BY <2>t, <2>2, OthersStay
  <2>3. CASE AppendRejects(c)
    <3> SUFFICES ASSUME NEW a \in files, MadeFrom(a, draft[c]), draft[c].rev \in {0, a.rev}
                 PROVE  FALSE
      BY DEF MadeFrom
    <3>1. Sound(files, draft[c])
      BY <1>1, StoredIsSound
    <3>2. a \in Reusable(files, draft[c])
      BY DEF Reusable, History, MadeFrom, SameEnvelope
    <3> QED
      BY <2>3, <3>1, <3>2 DEF AppendRejects
  <2>4. CASE Begin(c) \/ Die(c) \/ (Step(c) /\ ~AppendRejects(c))
    BY <2>t, <2>4 DEF Begin, BeginAppend, BeginRecover, BeginRead, Die, Step, Acquire,
       AcquireFails, Release, AppendStep, AppendReuses, AppendAccepts, CreateTemp, WriteTemp,
       WriteFails, CheckAbsent, Rename, Confirm, SyncFails, SweepStep, BeginSweep, SweepOne,
       Sweep, SweepUnlink, SweepEnds, ScanFails, Scan,
       ReadRoot, StatRoot, ListDirectory, StatEntries, FinishRead, TypeOK, Return, Answer
  <2>5. CASE UNCHANGED vars
    BY <2>1, <2>5 DEF vars, Held
  <2> QED
    BY <1>1, <2>1, <2>2, <2>3, <2>4, <2>5 DEF Next
<1>2. UseInv /\ [Next]_vars => [\A c \in Appenders : Refused(c)]_vars
  BY <1>1
<1>3. UseInv /\ [Next]_vars => UseInv'
  BY NextUseInv
<1> QED
  BY InitUseInv, <1>2, <1>3, PTL DEF Spec, StoredIsNeverRefused

-----------------------------------------------------------------------------
(* Temporary files, with or without an exclusive lock *)

TempInv ==
    /\ temp \in [Clients -> {"none", "partial", "full"}]
    /\ pc \in [Clients -> Phases]
    /\ pending \in [Clients -> SUBSET Clients]
    /\ temporaryPaths \in [Clients -> SUBSET Clients]
    /\ TempsAccounted
    /\ \A c \in Clients : pc[c] = "unlink" => pending[c] \subseteq Dead

LEMMA NextTempInv == ASSUME TempInv, [Next]_vars PROVE TempInv'
<1> USE DEF TempInv, TempsAccounted, Dead, Goto, Leave, ScanFails, Listing, Phases,
        Guarded, Writing, Scanning, Sweeping
<1>1. ASSUME NEW c \in Clients, Begin(c) \/ Die(c) PROVE TempInv'
  BY <1>1 DEF Begin, BeginAppend, BeginRecover, BeginRead, Die
<1>2. ASSUME NEW c \in Clients, Acquire(c) \/ AcquireFails(c) \/ Release(c) PROVE TempInv'
  BY <1>2 DEF Acquire, AcquireFails, Release
<1>3. ASSUME NEW c \in Clients, AppendStep(c) PROVE TempInv'
  BY <1>3 DEF AppendStep, AppendReuses, AppendRejects, AppendAccepts, CreateTemp, WriteTemp,
     WriteFails, CheckAbsent, Rename, Confirm, SyncFails
<1>4. ASSUME NEW c \in Clients, SweepStep(c) PROVE TempInv'
  <2>1. CASE BeginSweep(c) \/ SweepEnds(c)
    BY <2>1 DEF BeginSweep, SweepEnds
  <2>2. CASE SweepOne(c)
    <3>1. PICK d \in temporaryPaths[c] :
            /\ temporaryPaths' = [temporaryPaths EXCEPT ![c] = @ \ {d}]
            /\ \/ d \in Clients \ Dead /\ UNCHANGED <<pc, pending, status, value>>
               \/ /\ d \notin Clients \ Dead /\ temp[d] # "none"
                  /\ pending' = [pending EXCEPT ![c] = {d}]
                  /\ Goto(c, "unlink") /\ UNCHANGED <<status, value>>
               \/ /\ d \notin Clients \ Dead /\ temp[d] = "none" /\ ScanFails(c)
                  /\ UNCHANGED pending
      BY <2>2 DEF SweepOne, Sweep
    <3>2. d \in Clients /\ temp' = temp /\ pc[c] = "sweep"
      BY <2>2 DEF SweepOne, Sweep
    <3> QED
      BY <3>1, <3>2
  <2>3. CASE SweepUnlink(c)
    BY <2>3 DEF SweepUnlink
  <2> QED
    BY <1>4, <2>1, <2>2, <2>3 DEF SweepStep
<1>5. ASSUME NEW c \in Clients, Scan(c) \/ FinishRead(c) PROVE TempInv'
  BY <1>5 DEF Scan, ReadRoot, StatRoot, ListDirectory, StatEntries, FinishRead
<1>6. CASE UNCHANGED vars
  BY <1>6 DEF vars
<1> QED
  BY <1>1, <1>2, <1>3, <1>4, <1>5, <1>6 DEF Next, Step

LEMMA InitTempInv == Init => TempInv
  BY DEF Init, TempInv, TempsAccounted, Phases

(* Whatever the lock does, an append that ends leaves no temporary file:   *)
(* each belongs to a writer at work or to a dead process.                  *)
THEOREM NoTempLeft == Spec => []TempsAccounted
<1>1. TempInv /\ [Next]_vars => TempInv'
  BY NextTempInv
<1>2. TempInv => TempsAccounted
  BY DEF TempInv
<1> QED
  BY InitTempInv, <1>1, <1>2, PTL DEF Spec

(* A temporary file goes by a step of its own writer or after the writer's *)
(* death, even when the lock is lost: recover sweeps no live writer's.     *)
THEOREM LiveTempsSafe == Spec => LiveTempsKept
<1> DEFINE Kept(c) ==
             temp[c] # "none" /\ temp'[c] = "none" => c \in Dead \/ pc'[c] # pc[c]
<1>1. ASSUME TempInv, [Next]_vars, NEW c \in Clients PROVE Kept(c)
  <2> USE <1>1 DEF TempInv, Goto, Leave
  <2>1. ASSUME NEW d \in Clients, SweepUnlink(d) PROVE Kept(c)
    BY <2>1 DEF SweepUnlink
  <2>2. ASSUME NEW d \in Clients, BeginSweep(d) \/ SweepOne(d) \/ SweepEnds(d)
                                  \/ Begin(d) \/ Die(d)
        PROVE  Kept(c)
    BY <2>2 DEF BeginSweep, SweepOne, Sweep, SweepEnds, Begin, BeginAppend, BeginRecover,
       BeginRead, Die
  <2>3. ASSUME NEW d \in Clients, AppendStep(d) PROVE Kept(c)
    BY <2>3 DEF AppendStep, AppendReuses, AppendRejects, AppendAccepts, CreateTemp,
       WriteTemp, WriteFails, CheckAbsent, Rename, Confirm, SyncFails
  <2>4. ASSUME NEW d \in Clients, Acquire(d) \/ AcquireFails(d) \/ Release(d) PROVE Kept(c)
    BY <2>4 DEF Acquire, AcquireFails, Release
  <2>5. ASSUME NEW d \in Clients, Scan(d) \/ FinishRead(d) PROVE Kept(c)
    BY <2>5 DEF Scan, ReadRoot, StatRoot, ListDirectory, StatEntries, FinishRead
  <2>6. CASE UNCHANGED vars
    BY <2>6 DEF vars
  <2> HIDE DEF Kept
  <2> QED
    BY <1>1, <2>1, <2>2, <2>3, <2>4, <2>5, <2>6 DEF Next, Step, SweepStep
<1>2. TempInv /\ [Next]_vars => [\A c \in Clients : Kept(c)]_vars
  BY <1>1
<1>3. TempInv /\ [Next]_vars => TempInv'
  BY NextTempInv
<1> QED
  BY InitTempInv, <1>2, <1>3, PTL DEF Spec, LiveTempsKept

-----------------------------------------------------------------------------
(* recover under an exclusive lock: no writer is at work while recover     *)
(* holds the lock, so what it has listed belongs to the dead and waits for *)
(* it.                                                                     *)

ListedFilesStay(c) ==
    \A d \in pending[c] \union temporaryPaths[c] : temp[d] # "none" /\ pc[d] = "dead"

RecoverTracked(c) ==
    /\ pc[c] \notin Guarded
    /\ pc[c] \in {"begin", "lock"} => pending[c] = {} /\ temporaryPaths[c] = {}
    /\ pc[c] \in Scanning \union Sweeping \union {"unlock"} => holder = c
    /\ pc[c] \in Scanning \union Sweeping => ListedFilesStay(c)
    /\ pc[c] = "unlink" =>
         pending[c] # {} /\ pending[c] \intersect temporaryPaths[c] = {}
    /\ status[c] # "threw"

RecoverInv ==
    /\ StoreInv /\ TempInv
    /\ \A c \in Clients : pc[c] \in Sweeping => c \in Recoverers
    /\ \A c \in Recoverers : RecoverTracked(c)

(* recover does not end in an error.                                       *)
RecoverNeverFails == \A c \in Recoverers : status[c] # "threw"

(* A step of another client                                                *)
LEMMA RecoverUndisturbed ==
    ASSUME LockIsExclusive, RecoverInv, NEW c \in Recoverers, NEW d \in Clients, d # c,
           Begin(d) \/ Step(d) \/ Die(d)
    PROVE  RecoverTracked(c)'
<1> USE DEF Goto, Leave, Return, Throw, Answer, ScanFails, Listing, Scanning, Sweeping,
        Guarded, Writing, RecoverInv, TempInv, StoreInv, TypeOK
<1>0. c \in Clients
  BY DEF Clients
<1>1. /\ pc'[c] = pc[c] /\ status'[c] = status[c]
      /\ pending'[c] = pending[c] /\ temporaryPaths'[c] = temporaryPaths[c]
      /\ \A e \in Clients \ {d} : pc'[e] = pc[e]
      /\ pc[d] # "dead"
  <2>1. CASE Begin(d) \/ Die(d)
    BY <1>0, <2>1 DEF Begin, BeginAppend, BeginRecover, BeginRead, Die
  <2>2. CASE Acquire(d) \/ AcquireFails(d) \/ Release(d)
    BY <1>0, <2>2 DEF Acquire, AcquireFails, Release
  <2>3. CASE AppendStep(d)
    BY <1>0, <2>3 DEF AppendStep, AppendReuses, AppendRejects, AppendAccepts, CreateTemp,
       WriteTemp, WriteFails, CheckAbsent, Rename, Confirm, SyncFails
  <2>4. CASE Scan(d) \/ FinishRead(d)
    BY <1>0, <2>4 DEF Scan, ReadRoot, StatRoot, ListDirectory, StatEntries, FinishRead
  <2>5. CASE SweepStep(d)
    BY <1>0, <2>5 DEF SweepStep, BeginSweep, SweepOne, Sweep, SweepUnlink, SweepEnds
  <2> QED
    BY <2>1, <2>2, <2>3, <2>4, <2>5 DEF Step
<1>2. CASE pc[c] \in Scanning \union Sweeping \union {"unlock"}
  <2>1. holder = c /\ pc[c] # "dead"
    BY <1>2 DEF RecoverTracked
  <2>2. holder' = c
    <3>1. ~Acquire(d)
      BY <2>1, ClientAssumption DEF Acquire, Dead, Clients
    <3>2. Release(d) => holder' = holder
      BY <2>1 DEF Release
    <3> QED
      BY <2>1, <3>1, <3>2 DEF Begin, BeginAppend, BeginRecover, BeginRead, Die, Step,
         AcquireFails, AppendStep, AppendReuses, AppendRejects, AppendAccepts, CreateTemp,
         WriteTemp, WriteFails, CheckAbsent, Rename, Confirm, SyncFails, Scan, ReadRoot,
         StatRoot, ListDirectory, StatEntries, FinishRead, SweepStep, BeginSweep, SweepOne,
         Sweep, SweepUnlink, SweepEnds
  <2>3. ~SweepUnlink(d)
    BY <2>1 DEF SweepUnlink, RecoverTracked
  <2>4. \A e \in Clients \ {d} : temp'[e] = temp[e]
    BY <2>3 DEF Begin, BeginAppend, BeginRecover, BeginRead, Die, Step, Acquire,
       AcquireFails, Release, AppendStep, AppendReuses, AppendRejects, AppendAccepts,
       CreateTemp, WriteTemp, WriteFails, CheckAbsent, Rename, Confirm, SyncFails, Scan,
       ReadRoot, StatRoot, ListDirectory, StatEntries, FinishRead, SweepStep, BeginSweep,
       SweepOne, Sweep, SweepEnds
  <2>5. pc[c] \in Scanning \union Sweeping => ListedFilesStay(c)'
    <3>1. pending[c] \union temporaryPaths[c] \subseteq Clients
      BY DEF Clients
    <3> QED
      BY <1>1, <2>4, <3>1 DEF RecoverTracked, ListedFilesStay
  <2> QED
    BY <1>1, <2>2, <2>5 DEF RecoverTracked
<1>3. CASE pc[c] \notin Scanning \union Sweeping \union {"unlock"}
  BY <1>1, <1>3 DEF RecoverTracked
<1> QED
  BY <1>2, <1>3

(* A step of recover itself                                                *)
LEMMA RecoverMoves ==
    ASSUME LockIsExclusive, RecoverInv, NEW c \in Recoverers,
           Begin(c) \/ Step(c) \/ Die(c)
    PROVE  RecoverTracked(c)'
<1> USE DEF Goto, Return, Throw, Answer, ScanFails, Listing, Scanning, Sweeping,
        Guarded, Writing, RecoverInv, TempInv, StoreInv, TypeOK
<1>0. c \in Clients /\ c \notin Appenders /\ c \notin Readers /\ c # NoClient
  BY ClientAssumption DEF Clients
<1>1. CASE Begin(c) \/ Die(c)
  BY <1>0, <1>1 DEF Begin, BeginAppend, BeginRecover, BeginRead, Die, RecoverTracked
<1>2. CASE Acquire(c)
  BY <1>0, <1>2 DEF Acquire, RecoverTracked, ListedFilesStay
<1>3. CASE AcquireFails(c) \/ Release(c)
  BY <1>0, <1>3 DEF AcquireFails, Release, RecoverTracked
<1>4. ~AppendStep(c) /\ ~FinishRead(c)
  BY <1>0 DEF AppendStep, AppendReuses, AppendRejects, AppendAccepts, CreateTemp,
     WriteTemp, WriteFails, CheckAbsent, Rename, Confirm, SyncFails, FinishRead,
     RecoverTracked
<1>5. CASE ReadRoot(c) \/ StatRoot(c) \/ BeginSweep(c) \/ SweepEnds(c)
  BY <1>0, <1>5 DEF ReadRoot, StatRoot, BeginSweep, SweepEnds, RecoverTracked,
     ListedFilesStay
<1>6. CASE ListDirectory(c)
  <2>1. PICK dir \in unlisted[c] :
          LET temporary == {d \in Clients : temp[d] # "none" /\ InDirectory(target[d], dir)}
          IN  /\ pending' = [pending EXCEPT ![c] = temporary]
              /\ Goto(c, IF temporary = {} THEN "listing" ELSE "entryStat")
    BY <1>6 DEF ListDirectory
  <2>2. /\ pc[c] = "listing" /\ holder = c
        /\ UNCHANGED <<temp, holder, temporaryPaths, status>>
    BY <1>6 DEF ListDirectory, RecoverTracked
  <2>3. \A d \in Clients : temp[d] # "none" => pc[d] = "dead"
    BY <2>2 DEF TempsAccounted, GuardedHolds
  <2>4. \A d \in pending'[c] \union temporaryPaths'[c] : temp[d] # "none" /\ pc[d] = "dead"
    BY <1>0, <2>1, <2>2, <2>3 DEF RecoverTracked, ListedFilesStay
  <2>5. /\ pc'[c] \in {"listing", "entryStat"}
        /\ \A d \in Clients \ {c} : pc'[d] = pc[d]
    BY <1>0, <2>1
  <2>6. pending'[c] \union temporaryPaths'[c] \subseteq Clients
    BY <1>0, <2>1, <2>2
  <2>7. ListedFilesStay(c)'
    BY <2>2, <2>4, <2>5, <2>6 DEF ListedFilesStay
  <2> QED
    BY <2>2, <2>5, <2>7 DEF RecoverTracked
<1>7. CASE StatEntries(c)
  <2>1. \A d \in pending[c] : temp[d] # "none"
    BY <1>7 DEF StatEntries, RecoverTracked, ListedFilesStay
  <2>2. /\ pc' = [pc EXCEPT ![c] = "listing"] /\ pc[c] = "entryStat"
        /\ temporaryPaths'[c] = temporaryPaths[c] \union pending[c]
        /\ pending'[c] = {} /\ UNCHANGED <<temp, holder, status>>
    BY <1>0, <1>7, <2>1 DEF StatEntries
  <2>3. ListedFilesStay(c)'
    BY <1>0, <2>2 DEF RecoverTracked, ListedFilesStay
  <2> QED
    BY <1>0, <2>2, <2>3 DEF RecoverTracked
<1>8. CASE SweepOne(c)
  <2>1. PICK d \in temporaryPaths[c] :
          /\ temporaryPaths' = [temporaryPaths EXCEPT ![c] = @ \ {d}]
          /\ \/ d \in Clients \ Dead /\ UNCHANGED <<pc, pending, status, value>>
             \/ /\ d \notin Clients \ Dead /\ temp[d] # "none"
                /\ pending' = [pending EXCEPT ![c] = {d}]
                /\ Goto(c, "unlink") /\ UNCHANGED <<status, value>>
             \/ /\ d \notin Clients \ Dead /\ temp[d] = "none" /\ ScanFails(c)
                /\ UNCHANGED pending
    BY <1>8 DEF SweepOne, Sweep
  <2>2. pc[c] = "sweep" /\ UNCHANGED <<temp, holder>>
    BY <1>8 DEF SweepOne, Sweep
  <2>3. ListedFilesStay(c) /\ holder = c
    BY <2>2 DEF RecoverTracked
  <2>4. temp[d] # "none" /\ d \in Dead /\ d \in Clients
    BY <1>0, <2>1, <2>3 DEF ListedFilesStay, Dead
  <2>5. /\ pc' = [pc EXCEPT ![c] = "unlink"]
        /\ pending'[c] = {d} /\ temporaryPaths'[c] = temporaryPaths[c] \ {d}
        /\ status' = status
    BY <1>0, <2>1, <2>4
  <2>6. ListedFilesStay(c)'
    BY <1>0, <2>1, <2>2, <2>3, <2>5 DEF ListedFilesStay
  <2> QED
    BY <1>0, <2>2, <2>3, <2>5, <2>6 DEF RecoverTracked
<1>9. CASE SweepUnlink(c)
  <2>1. pc[c] = "unlink" /\ ListedFilesStay(c) /\ holder = c /\ pending[c] # {}
        /\ pending[c] \intersect temporaryPaths[c] = {}
    BY <1>9 DEF SweepUnlink, RecoverTracked
  <2>2. \E d \in pending[c] : temp[d] # "none"
    BY <2>1 DEF ListedFilesStay
  <2>3. /\ temp' = [d \in Clients |-> IF d \in pending[c] THEN "none" ELSE temp[d]]
        /\ pc' = [pc EXCEPT ![c] = "sweep"] /\ pending' = [pending EXCEPT ![c] = {}]
        /\ UNCHANGED <<holder, status, temporaryPaths>>
    BY <1>9, <2>2 DEF SweepUnlink
  <2>4. ListedFilesStay(c)'
    BY <1>0, <2>1, <2>3 DEF ListedFilesStay
  <2> QED
    BY <1>0, <2>1, <2>3, <2>4 DEF RecoverTracked
<1> QED
  BY <1>1, <1>2, <1>3, <1>4, <1>5, <1>6, <1>7, <1>8, <1>9 DEF Step, Scan, SweepStep

LEMMA NextRecoverInv ==
    ASSUME LockIsExclusive, RecoverInv, [Next]_vars PROVE RecoverInv'
<1>1. StoreInv' /\ TempInv'
  BY NextStoreInv, NextTempInv DEF RecoverInv
<1>2. CASE Next
  <2>1. PICK d \in Clients : Begin(d) \/ Step(d) \/ Die(d)
    BY <1>2 DEF Next
  <2>2. ASSUME NEW c \in Recoverers PROVE RecoverTracked(c)'
    <3>1. CASE c = d
      BY <2>1, <3>1, RecoverMoves
    <3>2. CASE c # d
      BY <2>1, <3>2, RecoverUndisturbed
    <3> QED
      BY <3>1, <3>2
  <2>3. \A c \in Clients : pc'[c] \in Sweeping => c \in Recoverers
    BY <2>1 DEF RecoverInv, TempInv, Sweeping, Goto, Leave, ScanFails, Begin, BeginAppend,
       BeginRecover, BeginRead, Die, Step, Acquire, AcquireFails, Release, AppendStep,
       AppendReuses, AppendRejects, AppendAccepts, CreateTemp, WriteTemp, WriteFails,
       CheckAbsent, Rename, Confirm, SyncFails, Scan, ReadRoot, StatRoot, ListDirectory,
       StatEntries, FinishRead, SweepStep, BeginSweep, SweepOne, Sweep, SweepUnlink,
       SweepEnds
  <2> QED
    BY <1>1, <2>2, <2>3 DEF RecoverInv
<1>3. CASE UNCHANGED vars
  BY <1>1, <1>3 DEF vars, RecoverInv, RecoverTracked, ListedFilesStay
<1> QED
  BY <1>2, <1>3

LEMMA InitRecoverInv == Init => RecoverInv
  BY InitStoreInv, InitTempInv DEF Init, RecoverInv, RecoverTracked, Guarded, Writing,
     Scanning, Sweeping, Clients

(* Under an exclusive lock recover never fails on a file that has gone:    *)
(* none that it has listed goes before it is looked up, and nobody takes   *)
(* the lock that it has to release.                                        *)
THEOREM RecoverSucceeds == ASSUME LockIsExclusive PROVE Spec => []RecoverNeverFails
<1>1. RecoverInv /\ [Next]_vars => RecoverInv'
  BY NextRecoverInv
<1>2. RecoverInv => RecoverNeverFails
  BY DEF RecoverInv, RecoverTracked, RecoverNeverFails
<1> QED
  BY InitRecoverInv, <1>1, <1>2, PTL DEF Spec
=============================================================================
