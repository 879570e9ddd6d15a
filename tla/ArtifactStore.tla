--------------------------- MODULE ArtifactStore ---------------------------
(***************************************************************************)
(* The file-backed artifact store of src/artifacts/store.js: append, list, *)
(* get (verify is the same operation) and recover, issued by processes     *)
(* that share one store directory and that may be killed at any step.      *)
(*                                                                         *)
(* The append lock is the one of module StoreLock, seen from above: a lock *)
(* left by a dead process is broken by the next client that wants it.  The *)
(* constant LockIsExclusive states whether breaking it keeps the mutual    *)
(* exclusion (which StoreLock proves up to the death of an owner) or may   *)
(* lose it (which StoreLock's run lock_stale_race shows).                  *)
(*                                                                         *)
(* append, between lock and unlock, works in separate steps: snapshot and  *)
(* decide, create the temporary file, write it, check that the revision    *)
(* file is absent, rename, reread.  The tree is scanned one directory      *)
(* after the other, by readers without a lock and by recover under it;     *)
(* recover then goes through the temporary files that its scan has listed. *)
(*                                                                         *)
(* Abstractions: a content hash is the content, a path is the identity,    *)
(* revision and content that it is built from, the envelope of an artifact *)
(* is its type, parents and inputs.  Files are never edited from outside.  *)
(***************************************************************************)
EXTENDS Naturals, FiniteSets

CONSTANTS
    Appenders, Readers, Recoverers,
                        \* the operations issued against the store
    Ids, Types, Contents,
    Drafts,             \* the drafts that callers hand to append
    MaxRevision,        \* MAX_REVISION, 999999 in the code
    MaxDeaths,          \* bound: how many processes may be killed or exit
    LockIsExclusive,    \* TRUE: breaking a stale lock excludes
    NoClient

Clients == Appenders \union Readers \union Recoverers

Directories == Types \X Ids

Reference == [id : Ids, rev : Nat, content : Contents]

(* An immutable revision, as stored.                                       *)
Artifact == [type : Types, id : Ids, rev : Nat, content : Contents,
             parents : SUBSET Reference, inputs : SUBSET Reference]

(* A draft asks for a revision or, with rev = 0, for the next one.         *)
ASSUME DraftAssumption == Drafts # {} /\ Drafts \subseteq Artifact
ASSUME ClientAssumption ==
    /\ NoClient \notin Clients
    /\ Appenders \intersect (Readers \union Recoverers) = {}
    /\ Recoverers \intersect Readers = {}
ASSUME StoreAssumption ==
    MaxRevision \in Nat /\ MaxDeaths \in Nat /\ LockIsExclusive \in BOOLEAN

VARIABLES
    files,      \* the revision files: the artifacts that were renamed in place
    temp,       \* temp[c]: the temporary file of c, "none", "partial" or "full"
    holder,     \* the client whose append lock is on disk
    pc,         \* pc[c]: the next step of client c
    draft,      \* draft[c]: what c appends
    target,     \* target[c]: the artifact that c has decided to write
    snapshot,   \* snapshot[c]: the artifacts that c has read from disk
    unlisted,   \* unlisted[c]: the directories that the scan of c has yet to list
    pending,    \* pending[c]: entries that c has yet to lstat, or to unlink
    temporaryPaths,     \* temporaryPaths[c]: temporary files listed, yet to be swept
    before,     \* before[c]: history, the revision files when the reader c began
    status,     \* status[c]: how the operation of c ended
    value       \* value[c]: the artifacts that c returned

vars == <<files, temp, holder, pc, draft, target, snapshot, unlisted, pending,
          temporaryPaths, before, status, value>>

Writing == {"temp", "write", "check", "rename", "confirm"}
Guarded == Writing \union {"scan"}
Scanning == {"root", "rootStat", "listing", "entryStat"}
Sweeping == {"sweep", "unlink"}
Phases == {"begin", "lock", "unlock", "ended", "dead"}
              \union Guarded \union Scanning \union Sweeping

Dead == {c \in Clients : pc[c] = "dead"}

AnyDraft == CHOOSE d \in Drafts : TRUE

Init ==
    /\ files = {}
    /\ temp = [c \in Clients |-> "none"]
    /\ holder = NoClient
    /\ pc = [c \in Clients |-> "begin"]
    /\ draft = [c \in Clients |-> AnyDraft]
    /\ target = [c \in Clients |-> AnyDraft]
    /\ snapshot = [c \in Clients |-> {}]
    /\ unlisted = [c \in Clients |-> {}]
    /\ pending = [c \in Clients |-> {}]
    /\ temporaryPaths = [c \in Clients |-> {}]
    /\ before = [c \in Clients |-> {}]
    /\ status = [c \in Clients |-> "none"]
    /\ value = [c \in Clients |-> {}]

-----------------------------------------------------------------------------
(* Snapshots and their verification *)

RefOf(a) == [id |-> a.id, rev |-> a.rev, content |-> a.content]

(* artifactFileName and the directories around it.                         *)
SamePath(a, b) == a.type = b.type /\ RefOf(a) = RefOf(b)

(* assertUniqueSnapshotIdentities *)
Unique(S) == \A a, b \in S : a.id = b.id /\ a.rev = b.rev => a = b

(* findArtifact: the row with the identity of the reference and its hash.  *)
Resolved(S, ref) == \E a \in S : RefOf(a) = ref

(* assertPersistedLineage *)
Lineage(S, a) ==
    \/ a.rev = 1 /\ a.parents = {}
    \/ \E p \in S : /\ a.rev > 1
                    /\ p.type = a.type /\ p.id = a.id /\ p.rev + 1 = a.rev
                    /\ a.parents = {RefOf(p)}

(* verifyArtifact recurses over parents and inputs: the rows it reaches    *)
(* have their lineage and all their references resolve.                    *)
Closed(S) ==
    \A a \in S : Lineage(S, a) /\ \A ref \in a.parents \union a.inputs : Resolved(S, ref)

Verifies(S, a) == \E T \in SUBSET S : a \in T /\ Closed(T)

(* artifactsForIdentity *)
History(S, d) == {a \in S : a.type = d.type /\ a.id = d.id}

(* existing.at(-1): no row of the history has a higher revision.           *)
IsLast(S, p) == p \in History(S, p) /\ \A a \in History(S, p) : a.rev <= p.rev

(* immutableEnvelopeEquivalent, without the creation time                  *)
SameEnvelope(a, d) ==
    a.type = d.type /\ a.id = d.id /\ a.parents = d.parents /\ a.inputs = d.inputs

(* assertDraftLineage and the monotonic revision: a is the revision that   *)
(* follows the last one of its history, and names it as its only parent.   *)
Follows(S, a) ==
    \/ History(S, a) = {} /\ a.rev = 1 /\ a.parents = {}
    \/ \E p \in History(S, a) :
         IsLast(S, p) /\ a.rev = p.rev + 1 /\ a.parents = {RefOf(p)}

-----------------------------------------------------------------------------
(* How a step of client c ends *)

Goto(c, phase) == pc' = [pc EXCEPT ![c] = phase]

Answer(c, how, result) ==
    /\ status' = [status EXCEPT ![c] = how]
    /\ value' = [value EXCEPT ![c] = result]

Return(c, result) == Answer(c, "returned", result)

Throw(c) ==
    /\ status' = [status EXCEPT ![c] = "threw"]
    /\ UNCHANGED value

(* Faulty: the temporary file is not removed when an append fails.         *)
LeaveTemp(c) == Goto(c, "unlock") /\ UNCHANGED temp

(* The operation leaves the guarded section, to release the lock.          *)
Leave(c) == Goto(c, "unlock") /\ temp' = [temp EXCEPT ![c] = "none"]

Listing == <<unlisted, pending, temporaryPaths, before>>

-----------------------------------------------------------------------------
(* Requests and the append lock *)

BeginAppend(c) ==
    /\ c \in Appenders /\ pc[c] = "begin"
    /\ \E d \in Drafts : draft' = [draft EXCEPT ![c] = d]
    /\ Goto(c, "lock")
    /\ UNCHANGED <<files, temp, holder, target, snapshot, Listing, status, value>>

BeginRecover(c) ==
    /\ c \in Recoverers /\ pc[c] = "begin"
    /\ unlisted' = [unlisted EXCEPT ![c] = Directories]
    /\ Goto(c, "lock")
    /\ UNCHANGED <<files, temp, holder, draft, target, snapshot, pending, temporaryPaths,
                   before, status, value>>

(* acquireStoreLock: the lock is free, or its owner is dead and the lock is *)
(* broken; when breaking does not exclude, then once a process is dead a   *)
(* live holder may lose its lock to a client that takes it for the dead's. *)
Acquire(c) ==
    /\ pc[c] = "lock"
    /\ \/ holder \in Dead \union {NoClient}
       \/ ~LockIsExclusive /\ Dead # {}
    /\ holder' = c
    /\ Goto(c, IF c \in Recoverers THEN "root" ELSE "scan")
    /\ UNCHANGED <<files, temp, draft, target, snapshot, Listing, status, value>>

(* A taken lock makes append give up with an error, recover with nothing.  *)
AcquireFails(c) ==
    /\ pc[c] = "lock"
    /\ holder # NoClient
    /\ IF c \in Recoverers THEN Return(c, {}) ELSE Throw(c)
    /\ Goto(c, "ended")
    /\ UNCHANGED <<files, temp, holder, draft, target, snapshot, Listing>>

(* releaseStoreLock throws when the lock is no longer the client's.        *)
Release(c) ==
    /\ pc[c] = "unlock"
    /\ \/ holder = c /\ holder' = NoClient /\ UNCHANGED <<status, value>>
       \/ /\ holder # c
          /\ status' = [status EXCEPT ![c] = "threw"]
          /\ value' = [value EXCEPT ![c] = {}]
          /\ UNCHANGED holder
    /\ Goto(c, "ended")
    /\ UNCHANGED <<files, temp, draft, target, snapshot, Listing>>

-----------------------------------------------------------------------------
(* append: the snapshot and the decision *)

(* Faulty: the references of the draft are not verified.                   *)
SoundWithoutReferences(S, d) ==
    /\ Unique(S)
    /\ \A a \in S : a.id = d.id => a.type = d.type
    /\ \A a \in History(S, d) : Verifies(S, a)

(* The checks that come before any reuse: the whole snapshot, the binding  *)
(* of the identity to a type, its history and the draft's references.      *)
Sound(S, d) ==
    /\ Unique(S)
    /\ \A a \in S : a.id = d.id => a.type = d.type
    /\ \A a \in History(S, d) : Verifies(S, a)
    /\ \A ref \in d.parents \union d.inputs :
         \E a \in S : RefOf(a) = ref /\ Verifies(S, a)

AtRequested(S, d) == {a \in History(S, d) : d.rev # 0 /\ a.rev = d.rev}

(* Faulty: the content alone decides whether a revision is reused.         *)
ReusableByContent(S, d) ==
    {a \in History(S, d) : d.rev \in {0, a.rev} /\ a.content = d.content}

(* Faulty: only the latest revision is considered for reuse.               *)
ReusableLatest(S, d) ==
    {a \in History(S, d) : /\ IsLast(S, a) /\ d.rev \in {0, a.rev}
                           /\ a.content = d.content /\ SameEnvelope(a, d)}

(* The revision that makes the append idempotent.                          *)
Reusable(S, d) ==
    {a \in History(S, d) : /\ d.rev \in {0, a.rev}
                           /\ a.content = d.content /\ SameEnvelope(a, d)}

(* The artifact that a draft becomes as revision n.                        *)
AtRevision(d, n) == [d EXCEPT !.rev = n]

(* Faulty: no limit on the revision number.                                *)
AcceptableUnbounded(S, d) ==
    {AtRevision(d, n) : n \in {m \in 1..MaxRevision + 1 :
        d.rev \in {0, m} /\ Follows(S, AtRevision(d, m))}}

(* Faulty: the parent of the draft is not compared with the predecessor.   *)
AcceptableAnyParent(S, d) ==
    {AtRevision(d, n) : n \in {m \in 1..MaxRevision :
        /\ d.rev \in {0, m}
        /\ \A a \in History(S, d) : a.rev < m
        /\ m > 1 => \E a \in History(S, d) : a.rev + 1 = m}}

(* The artifacts that may be written for a draft, one at most.             *)
Acceptable(S, d) ==
    {AtRevision(d, n) : n \in {m \in 1..MaxRevision :
        d.rev \in {0, m} /\ Follows(S, AtRevision(d, m))}}

(* The draft names what is stored already: return the stored revision.     *)
AppendReuses(c) ==
    /\ pc[c] = "scan"
    /\ Sound(files, draft[c])
    /\ \E a \in Reusable(files, draft[c]) : Return(c, {a})
    /\ Leave(c)
    /\ UNCHANGED <<files, holder, draft, target, snapshot, Listing>>

(* Any failed check throws before anything is written.                     *)
AppendRejects(c) ==
    /\ pc[c] = "scan"
    /\ \/ ~Sound(files, draft[c])
       \/ /\ Reusable(files, draft[c]) = {}
          /\ AtRequested(files, draft[c]) # {} \/ Acceptable(files, draft[c]) = {}
    /\ Throw(c)
    /\ Leave(c)
    /\ UNCHANGED <<files, holder, draft, target, snapshot, Listing>>

AppendAccepts(c) ==
    /\ pc[c] = "scan"
    /\ Sound(files, draft[c])
    /\ Reusable(files, draft[c]) = {} /\ AtRequested(files, draft[c]) = {}
    /\ \E a \in Acceptable(files, draft[c]) : target' = [target EXCEPT ![c] = a]
    /\ snapshot' = [snapshot EXCEPT ![c] = files]
    /\ Goto(c, "temp")
    /\ UNCHANGED <<files, temp, holder, draft, Listing, status, value>>

-----------------------------------------------------------------------------
(* writeAtomically, then the reread and the verification of append *)

CreateTemp(c) ==
    /\ pc[c] = "temp"
    /\ temp' = [temp EXCEPT ![c] = "partial"]
    /\ Goto(c, "write")
    /\ UNCHANGED <<files, holder, draft, target, snapshot, Listing, status, value>>

(* Write, sync, close, reread and compare the temporary file.              *)
WriteTemp(c) ==
    /\ pc[c] = "write"
    /\ temp' = [temp EXCEPT ![c] = "full"]
    /\ Goto(c, "check")
    /\ UNCHANGED <<files, holder, draft, target, snapshot, Listing, status, value>>

(* A file operation fails before the rename: the temporary file goes.      *)
WriteFails(c) ==
    /\ pc[c] \in {"temp", "write"}
    /\ Throw(c)
    /\ Leave(c)
    /\ UNCHANGED <<files, holder, draft, target, snapshot, Listing>>

Occupied(c) == \E a \in files : SamePath(a, target[c])

CheckAbsent(c) ==
    /\ pc[c] = "check"
    /\ \/ Occupied(c) /\ Throw(c) /\ Leave(c)
       \/ ~Occupied(c) /\ Goto(c, "rename") /\ UNCHANGED <<temp, status, value>>
    /\ UNCHANGED <<files, holder, draft, target, snapshot, Listing>>

(* rename replaces whatever the path names by then.                        *)
Rename(c) ==
    /\ pc[c] = "rename"
    /\ files' = {a \in files : ~SamePath(a, target[c])} \union {target[c]}
    /\ temp' = [temp EXCEPT ![c] = "none"]
    /\ Goto(c, "confirm")
    /\ UNCHANGED <<holder, draft, target, snapshot, Listing, status, value>>

(* The revision file is read back, joins the snapshot taken before the     *)
(* write, and is verified there.                                           *)
Confirm(c) ==
    LET persisted == {a \in files : SamePath(a, target[c])}
        S == snapshot[c] \union persisted
    IN  /\ pc[c] = "confirm"
        /\ IF Unique(S) /\ \A a \in persisted : Verifies(S, a)
           THEN Return(c, persisted) ELSE Throw(c)
        /\ Leave(c)
        /\ UNCHANGED <<files, holder, draft, target, snapshot, Listing>>

(* The directory cannot be synced: append throws, the revision stays.      *)
SyncFails(c) ==
    /\ pc[c] = "confirm"
    /\ Throw(c)
    /\ Leave(c)
    /\ UNCHANGED <<files, holder, draft, target, snapshot, Listing>>

-----------------------------------------------------------------------------
(* scanArtifactTree, of list and get without the lock and of recover       *)

BeginRead(c) ==
    /\ c \in Readers /\ pc[c] = "begin"
    /\ before' = [before EXCEPT ![c] = files]
    /\ unlisted' = [unlisted EXCEPT ![c] = Directories]
    /\ Goto(c, "root")
    /\ UNCHANGED <<files, temp, holder, draft, target, snapshot, pending, temporaryPaths,
                   status, value>>

(* An entry is gone between readdir and lstat; recover releases the lock.  *)
ScanFails(c) == Goto(c, IF c \in Recoverers THEN "unlock" ELSE "ended") /\ Throw(c)

(* readdir of the artifact root may show the lock file, which is then      *)
(* looked up.                                                              *)
ReadRoot(c) ==
    /\ pc[c] = "root"
    /\ Goto(c, IF holder = NoClient THEN "listing" ELSE "rootStat")
    /\ UNCHANGED <<files, temp, holder, draft, target, snapshot, Listing, status, value>>

StatRoot(c) ==
    /\ pc[c] = "rootStat"
    /\ \/ holder # NoClient /\ Goto(c, "listing") /\ UNCHANGED <<status, value>>
       \/ holder = NoClient /\ ScanFails(c)
    /\ UNCHANGED <<files, temp, holder, draft, target, snapshot, Listing>>

InDirectory(a, dir) == dir = <<a.type, a.id>>

(* readdir of one artifact directory: revision files, which only list and  *)
(* get go on to read, and temporary files, which only recover goes through. *)
ListDirectory(c) ==
    /\ pc[c] = "listing"
    /\ \E dir \in unlisted[c] :
         LET temporary == {d \in Clients : temp[d] # "none" /\ InDirectory(target[d], dir)}
         IN  /\ unlisted' = [unlisted EXCEPT ![c] = @ \ {dir}]
             /\ snapshot' = [snapshot EXCEPT ![c] =
                  IF c \in Readers THEN @ \union {a \in files : InDirectory(a, dir)} ELSE @]
             /\ pending' = [pending EXCEPT ![c] = temporary]
             /\ Goto(c, IF temporary = {} THEN "listing" ELSE "entryStat")
    /\ UNCHANGED <<files, temp, holder, draft, target, temporaryPaths, before, status, value>>

(* lstat of the listed temporary files: one that is gone by now fails.     *)
StatEntries(c) ==
    /\ pc[c] = "entryStat"
    /\ \/ /\ \A d \in pending[c] : temp[d] # "none"
          /\ temporaryPaths' = [temporaryPaths EXCEPT ![c] =
               IF c \in Recoverers THEN @ \union pending[c] ELSE @]
          /\ Goto(c, "listing") /\ UNCHANGED <<status, value>>
       \/ /\ \E d \in pending[c] : temp[d] = "none"
          /\ ScanFails(c) /\ UNCHANGED temporaryPaths
    /\ pending' = [pending EXCEPT ![c] = {}]
    /\ UNCHANGED <<files, temp, holder, draft, target, snapshot, unlisted, before>>

-----------------------------------------------------------------------------
(* recover: the temporary files that its one scan has listed               *)

BeginSweep(c) ==
    /\ c \in Recoverers /\ pc[c] = "listing" /\ unlisted[c] = {}
    /\ Goto(c, "sweep")
    /\ UNCHANGED <<files, temp, holder, draft, target, snapshot, Listing, status, value>>

(* The next listed file is passed over when its owner is spared; otherwise *)
(* it is looked up again, which fails when another recover has removed it. *)
Sweep(c, spared) ==
    /\ pc[c] = "sweep"
    /\ \E d \in temporaryPaths[c] :
         /\ temporaryPaths' = [temporaryPaths EXCEPT ![c] = @ \ {d}]
         /\ \/ d \in spared /\ UNCHANGED <<pc, pending, status, value>>
            \/ /\ d \notin spared /\ temp[d] # "none"
               /\ pending' = [pending EXCEPT ![c] = {d}]
               /\ Goto(c, "unlink") /\ UNCHANGED <<status, value>>
            \/ d \notin spared /\ temp[d] = "none" /\ ScanFails(c) /\ UNCHANGED pending
    /\ UNCHANGED <<files, temp, holder, draft, target, snapshot, unlisted, before>>

(* Faulty: recover removes every temporary file it finds.                  *)
SweepAny(c) == Sweep(c, {})

(* Faulty: recover keeps temporary files that were never fully written.    *)
SweepFull(c) == Sweep(c, {d \in Clients : d \notin Dead \/ temp[d] = "partial"})

SweepOne(c) == Sweep(c, Clients \ Dead)

(* unlinkIfSame: a file that another recover has removed since is passed   *)
(* over, or, when it goes between its lstat and its unlink, an error.      *)
SweepUnlink(c) ==
    /\ pc[c] = "unlink"
    /\ \/ /\ temp' = [d \in Clients |-> IF d \in pending[c] THEN "none" ELSE temp[d]]
          /\ Goto(c, "sweep") /\ UNCHANGED <<status, value>>
       \/ (\A d \in pending[c] : temp[d] = "none") /\ ScanFails(c) /\ UNCHANGED temp
    /\ pending' = [pending EXCEPT ![c] = {}]
    /\ UNCHANGED <<files, holder, draft, target, snapshot, unlisted, temporaryPaths, before>>

SweepEnds(c) ==
    /\ pc[c] = "sweep" /\ temporaryPaths[c] = {}
    /\ Return(c, {})
    /\ Goto(c, "unlock")
    /\ UNCHANGED <<files, temp, holder, draft, target, snapshot, Listing>>

-----------------------------------------------------------------------------
(* list and get: the rows of the scan and their verification               *)

(* The listed revision files, read once every directory was listed.        *)
Rows(c) == {a \in files : \E s \in snapshot[c] : SamePath(a, s)}

References == {RefOf(AtRevision(d, n)) : d \in Drafts, n \in 1..MaxRevision}

(* Faulty: the rows are returned without following their references.       *)
FinishUnverified(c) ==
    /\ c \in Readers /\ pc[c] = "listing" /\ unlisted[c] = {}
    /\ IF Unique(Rows(c)) THEN Answer(c, "listed", Rows(c)) ELSE Throw(c)
    /\ Goto(c, "ended")
    /\ UNCHANGED <<files, temp, holder, draft, target, snapshot, Listing>>

(* list verifies every row, get and verify the one they are asked for.     *)
FinishRead(c) ==
    /\ c \in Readers /\ pc[c] = "listing" /\ unlisted[c] = {}
    /\ \/ IF Unique(Rows(c)) /\ \A a \in Rows(c) : Verifies(Rows(c), a)
          THEN Answer(c, "listed", Rows(c)) ELSE Throw(c)
       \/ \E ref \in References :
            LET asked == {a \in Rows(c) : RefOf(a) = ref}
            IN  IF /\ Unique(Rows(c)) /\ asked # {}
                   /\ \A a \in asked : Verifies(Rows(c), a)
                THEN Answer(c, "got", asked) ELSE Throw(c)
    /\ Goto(c, "ended")
    /\ UNCHANGED <<files, temp, holder, draft, target, snapshot, Listing>>

-----------------------------------------------------------------------------
(* The process of c is killed, or exits: its files and its lock stay.      *)
Die(c) ==
    /\ pc[c] \notin {"begin", "dead"}
    /\ Cardinality(Dead) < MaxDeaths
    /\ Goto(c, "dead")
    /\ UNCHANGED <<files, temp, holder, draft, target, snapshot, Listing, status, value>>

AppendStep(c) ==
    \/ AppendReuses(c) \/ AppendRejects(c) \/ AppendAccepts(c)
    \/ CreateTemp(c) \/ WriteTemp(c) \/ WriteFails(c)
    \/ CheckAbsent(c) \/ Rename(c) \/ Confirm(c) \/ SyncFails(c)

Scan(c) == ReadRoot(c) \/ StatRoot(c) \/ ListDirectory(c) \/ StatEntries(c)

SweepStep(c) == BeginSweep(c) \/ SweepOne(c) \/ SweepUnlink(c) \/ SweepEnds(c)

Step(c) ==
    \/ Acquire(c) \/ AcquireFails(c) \/ Release(c)
    \/ AppendStep(c) \/ Scan(c) \/ SweepStep(c) \/ FinishRead(c)

Begin(c) == BeginAppend(c) \/ BeginRecover(c) \/ BeginRead(c)

Next == \E c \in Clients : Begin(c) \/ Step(c) \/ Die(c)

Spec == Init /\ [][Next]_vars

(* The event loop of a live process completes every awaited call.          *)
FairSpec == Spec /\ \A c \in Clients : WF_vars(Step(c))

-----------------------------------------------------------------------------
(* Properties *)

TypeOK ==
    /\ files \subseteq Artifact
    /\ \A a \in files : a.rev \in 1..MaxRevision
    /\ temp \in [Clients -> {"none", "partial", "full"}]
    /\ holder \in Clients \union {NoClient}
    /\ pc \in [Clients -> Phases]
    /\ draft \in [Clients -> Drafts]
    /\ target \in [Clients -> Artifact]
    /\ snapshot \in [Clients -> SUBSET Artifact]
    /\ unlisted \in [Clients -> SUBSET Directories]
    /\ pending \in [Clients -> SUBSET Clients]
    /\ temporaryPaths \in [Clients -> SUBSET Clients]
    /\ before \in [Clients -> SUBSET Artifact]
    /\ status \in [Clients -> {"none", "returned", "listed", "got", "threw"}]
    /\ value \in [Clients -> SUBSET Artifact]

(* Persisted history never forks: one artifact per identity and revision.  *)
(* A fork makes assertUniqueSnapshotIdentities refuse every later read and *)
(* append of the whole store.                                              *)
NeverForked == Unique(files)

(* The files are a store that every operation accepts: no fork, unbroken   *)
(* lineages from revision 1, and every parent and input present, whatever  *)
(* was interrupted where.                                                  *)
StoreReadable == NeverForked /\ Closed(files)

(* The logs that the files stand for; the implementation refines them.     *)
Logs == [id \in Ids |->
           LET mine == {a \in files : a.id = id}
           IN  [n \in 1..Cardinality(mine) |->
                  LET a == CHOOSE b \in mine : b.rev = n
                  IN  [content |-> a.content, inputs |-> a.inputs]]]

Log == INSTANCE RevisionLog WITH
         log <- Logs,
         Entries <- {[content |-> d.content, inputs |-> d.inputs] : d \in Drafts}

(* Every step of the store, interrupted or not, appends one revision to    *)
(* one log or changes no log at all.                                       *)
ImplementsRevisionLog == Log!Spec

(* What append returned is what the caller asked for, and it is on disk.   *)
ReturnedIsCommitted ==
    \A c \in Appenders : status[c] = "returned" =>
        \E a \in files : /\ value[c] = {a}
                         /\ a.content = draft[c].content /\ SameEnvelope(a, draft[c])

(* Retrying an append is safe: a draft that is stored is never refused by  *)
(* an append that got the lock, however many revisions came after it.      *)
StoredIsNeverRefused ==
    [][\A c \in Appenders :
         pc[c] = "scan" /\ status[c] = "none" /\ status'[c] = "threw" =>
            ~\E a \in files : /\ SameEnvelope(a, draft[c])
                              /\ a.content = draft[c].content
                              /\ draft[c].rev \in {0, a.rev}]_vars

(* Reads take no lock.  list still returns a consistent state of the store *)
(* that is no older than its call: all that was stored then, nothing that  *)
(* is not stored now, and every reference inside it resolved.  get and     *)
(* verify return what is stored, with its whole ancestry.                  *)
ReadIsConsistent ==
    \A c \in Readers :
        /\ status[c] = "listed" =>
             before[c] \subseteq value[c] /\ value[c] \subseteq files /\ Closed(value[c])
        /\ status[c] = "got" =>
             value[c] \subseteq files /\ \A a \in value[c] : Verifies(files, a)

(* Only a writer at work or a dead process has a temporary file: an append *)
(* that ends, in success or in error, leaves none behind.                  *)
TempsAccounted ==
    \A c \in Clients : temp[c] # "none" => pc[c] \in {"write", "check", "rename", "dead"}

(* A temporary file disappears by its owner's own step or after its death: *)
(* recover never takes it from a live writer, even one without the lock.   *)
LiveTempsKept ==
    [][\A c \in Clients :
         temp[c] # "none" /\ temp'[c] = "none" => c \in Dead \/ pc'[c] # pc[c]]_vars

(* recover lists the tree once and lets files come and go after that.  It  *)
(* still removes what a process left behind that was dead before it listed *)
(* anything, unless it dies itself or fails because of a listed file that  *)
(* has gone.                                                               *)
RecoverSweeps ==
    \A c \in Recoverers, d \in Appenders :
        pc[c] = "root" /\ d \in Dead ~>
            temp[d] = "none" \/ pc[c] = "dead" \/ status[c] = "threw"
=============================================================================
