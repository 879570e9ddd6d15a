----------------------------- MODULE StoreLock -----------------------------
(***************************************************************************)
(* The append lock of the artifact store: the file .append.lock that       *)
(* createStoreLock, readLockState, acquireStoreLock and releaseStoreLock   *)
(* of src/artifacts/store.js create, read, break and remove.               *)
(*                                                                         *)
(* A client is one append or one recover, issued by a process of its own.  *)
(* Every awaited file-system call is one step, so the clients interleave   *)
(* between any two of them: between the lstat and the unlink of            *)
(* unlinkIfSame, between the lstat and the open of readRegularFileNoFollow *)
(* and between the creation of the lock file and the write of its owner.   *)
(* A process may be killed at any step, and it exits some time after its   *)
(* operation has ended; from then on kill(pid,0) answers ESRCH.            *)
(*                                                                         *)
(* File identity is the inode number, as in sameFile: an inode that no     *)
(* path and no open handle refers to may be given to the next lock file.   *)
(***************************************************************************)
EXTENDS Naturals, FiniteSets

CONSTANTS
    Clients,        \* the operations that compete for one store
    Recovers,       \* those that are recover, the others being append
    Inodes,         \* the inode numbers of the file system
    NoInode,        \* lstat answered ENOENT, or no file is held
    NoOwner,        \* lock text that JSON.parse rejects: empty or half written
    RetryLimit,     \* LOCK_RETRY_LIMIT, 200 in the code
    MaxDeaths       \* bound: how many processes may be killed or exit

ASSUME NoInodeAssumption == NoInode \notin Inodes
ASSUME RecoversAssumption == Recovers \subseteq Clients
ASSUME NoOwnerAssumption == NoOwner \notin Clients
ASSUME BoundAssumption == RetryLimit \in Nat /\ MaxDeaths \in Nat

VARIABLES
    lockFile,   \* the inode that the path .append.lock names, or NoInode
    text,       \* text[i]: the client that inode i names as its owner
    aged,       \* inodes whose mtime is older than LOCK_INITIALIZING_GRACE_MS
    pc,         \* pc[c]: the next call of client c
    own,        \* own[c]: the inode of the lock file that c created
    seen,       \* seen[c]: the inode that c captured while reading the lock
    attempt,    \* attempt[c]: the loop counter of acquireStoreLock
    outcome,    \* outcome[c]: how the operation of c ended
    named       \* history: the clients whose identity reached a lock file

vars == <<lockFile, text, aged, pc, own, seen, attempt, outcome, named>>

(* Calls made with the handle of the lock file still open.                 *)
Owning == {"check", "write", "held"}

(* Calls made by a client that has created a lock and not given it up.     *)
InPossession == Owning \union {"undoStat", "undoUnlink", "release", "unlink"}

Acquiring == {"create", "stat", "open", "read", "breakStat", "breakUnlink"}

Phases == {"ended", "dead"} \union Acquiring \union InPossession

Outcomes == {"none", "ok", "refused", "timeout", "integrity", "ENOENT",
             "ownershipChanged", "writeFailed"}

TypeOK ==
    /\ lockFile \in Inodes \union {NoInode}
    /\ text \in [Inodes -> Clients \union {NoOwner}]
    /\ aged \subseteq Inodes
    /\ pc \in [Clients -> Phases]
    /\ own \in [Clients -> Inodes \union {NoInode}]
    /\ seen \in [Clients -> Inodes \union {NoInode}]
    /\ attempt \in [Clients -> 0..RetryLimit]
    /\ outcome \in [Clients -> Outcomes]
    /\ named \subseteq Clients

Dead == {c \in Clients : pc[c] = "dead"}

(* An inode is free once no path names it and no client has it open.       *)
InUse == {lockFile} \union {own[c] : c \in {d \in Clients : pc[d] \in Owning}}
                    \union {seen[c] : c \in {d \in Clients : pc[d] = "read"}}

Init ==
    /\ lockFile = NoInode
    /\ text = [i \in Inodes |-> NoOwner]
    /\ aged = {}
    /\ pc = [c \in Clients |-> "create"]
    /\ own = [c \in Clients |-> NoInode]
    /\ seen = [c \in Clients |-> NoInode]
    /\ attempt = [c \in Clients |-> 0]
    /\ outcome = [c \in Clients |-> "none"]
    /\ named = {}

-----------------------------------------------------------------------------
(* Helpers: the ways a step of client c ends.                              *)

Goto(c, phase) == pc' = [pc EXCEPT ![c] = phase]

(* The operation of c returns to its caller or throws.                     *)
End(c, result) ==
    /\ Goto(c, "ended")
    /\ outcome' = [outcome EXCEPT ![c] = result]

(* Faulty: the sleeping branch counts its attempt a second time.           *)
RetryCountedTwice(c) ==
    /\ attempt' = [attempt EXCEPT ![c] = @ + 2]
    /\ Goto(c, "create")

(* Faulty: `continue` skips the increment of the loop.                     *)
RetryUncounted(c) ==
    /\ Goto(c, "create")
    /\ UNCHANGED attempt

(* The `continue` of the acquire loop, after the sleep where there is one. *)
Retry(c) ==
    /\ attempt' = [attempt EXCEPT ![c] = @ + 1]
    /\ Goto(c, "create")

-----------------------------------------------------------------------------
(* acquireStoreLock *)

(* open(O_CREAT|O_EXCL) succeeds: the path names a new, empty file.        *)
CreateLock(c) ==
    /\ pc[c] = "create"
    /\ attempt[c] < RetryLimit
    /\ lockFile = NoInode
    /\ \E i \in Inodes \ InUse :
         /\ lockFile' = i
         /\ text' = [text EXCEPT ![i] = NoOwner]
         /\ aged' = aged \ {i}
         /\ own' = [own EXCEPT ![c] = i]
    /\ Goto(c, "check")
    /\ UNCHANGED <<seen, attempt, outcome, named>>

(* open(O_CREAT|O_EXCL) fails with EEXIST: read the lock that is there.    *)
LockExists(c) ==
    /\ pc[c] = "create"
    /\ attempt[c] < RetryLimit
    /\ lockFile # NoInode
    /\ Goto(c, "stat")
    /\ UNCHANGED <<lockFile, text, aged, own, seen, attempt, outcome, named>>

(* The loop has used its attempts.                                         *)
GiveUp(c) ==
    /\ pc[c] = "create"
    /\ attempt[c] = RetryLimit
    /\ End(c, IF c \in Recovers THEN "refused" ELSE "timeout")
    /\ UNCHANGED <<lockFile, text, aged, own, seen, attempt, named>>

-----------------------------------------------------------------------------
(* createStoreLock after the open *)

(* openNewRegularFile compares the path with the handle it has just        *)
(* opened; when they differ it closes the handle and throws.               *)
CheckCreated(c) ==
    /\ pc[c] = "check"
    /\ \/ /\ lockFile = own[c]
          /\ Goto(c, "write")
          /\ UNCHANGED <<own, outcome>>
       \/ /\ lockFile # own[c]
          /\ End(c, IF lockFile = NoInode THEN "ENOENT" ELSE "integrity")
          /\ own' = [own EXCEPT ![c] = NoInode]
    /\ UNCHANGED <<lockFile, text, aged, seen, attempt, named>>

(* writeFile and sync put the owner's identity into the file.              *)
WriteOwner(c) ==
    /\ pc[c] = "write"
    /\ text' = [text EXCEPT ![own[c]] = c]
    /\ named' = named \union {c}
    /\ Goto(c, "held")
    /\ UNCHANGED <<lockFile, aged, own, seen, attempt, outcome>>

(* The write or the sync fails (a full disk): the lock is taken back.      *)
WriteFails(c) ==
    /\ pc[c] = "write"
    /\ Goto(c, "undoStat")
    /\ UNCHANGED <<lockFile, text, aged, own, seen, attempt, outcome, named>>

-----------------------------------------------------------------------------
(* readLockState *)

(* lstat of the lock path; ENOENT is the state "gone".                     *)
StatLock(c) ==
    /\ pc[c] = "stat"
    /\ \/ lockFile = NoInode /\ Retry(c) /\ UNCHANGED seen
       \/ /\ lockFile # NoInode
          /\ seen' = [seen EXCEPT ![c] = lockFile]
          /\ Goto(c, "open")
          /\ UNCHANGED attempt
    /\ UNCHANGED <<lockFile, text, aged, own, outcome, named>>

(* open and fstat: another inode than the one lstat saw is an error.       *)
OpenLock(c) ==
    /\ pc[c] = "open"
    /\ \/ lockFile = NoInode /\ Retry(c) /\ UNCHANGED outcome
       \/ lockFile = seen[c] /\ Goto(c, "read") /\ UNCHANGED <<attempt, outcome>>
       \/ /\ lockFile \notin {NoInode, seen[c]}
          /\ End(c, "integrity")
          /\ UNCHANGED attempt
    /\ UNCHANGED <<lockFile, text, aged, own, seen, named>>

Initializing(i) == text[i] = NoOwner /\ i \notin aged
Unreadable(i) == text[i] = NoOwner /\ i \in aged

(* Faulty: a lock whose owner is not written yet counts as abandoned.      *)
StaleWhenUnwritten(i) == text[i] \in Dead \union {NoOwner}

Stale(i) == text[i] \in Dead
Live(i) == text[i] \in Clients \ Dead

(* Read the text, close the handle, and judge the owner with kill(pid,0).  *)
JudgeLock(c) ==
    LET i == seen[c] IN
    /\ pc[c] = "read"
    /\ \/ /\ Initializing(i) \/ Live(i)
          /\ \/ c \notin Recovers /\ Retry(c) /\ UNCHANGED outcome
             \/ c \in Recovers /\ End(c, "refused") /\ UNCHANGED attempt
       \/ Unreadable(i) /\ End(c, "integrity") /\ UNCHANGED attempt
       \/ Stale(i) /\ Goto(c, "breakStat") /\ UNCHANGED <<attempt, outcome>>
    /\ UNCHANGED <<lockFile, text, aged, own, seen, named>>

-----------------------------------------------------------------------------
(* unlinkIfSame, from its three callers: lstat the path, compare the inode *)
(* with the expected one, then unlink whatever the path names by then.     *)

(* Faulty: a stale lock is compared with the lock the client itself made.  *)
BreakStatForgets(c) ==
    /\ pc[c] = "breakStat"
    /\ \/ lockFile = own[c] /\ Goto(c, "breakUnlink") /\ UNCHANGED attempt
       \/ lockFile # own[c] /\ Retry(c)
    /\ UNCHANGED <<lockFile, text, aged, own, seen, outcome, named>>

BreakStat(c) ==
    /\ pc[c] = "breakStat"
    /\ \/ lockFile = seen[c] /\ Goto(c, "breakUnlink") /\ UNCHANGED attempt
       \/ lockFile # seen[c] /\ Retry(c)
    /\ UNCHANGED <<lockFile, text, aged, own, seen, outcome, named>>

BreakUnlink(c) ==
    /\ pc[c] = "breakUnlink"
    /\ \/ /\ lockFile # NoInode
          /\ lockFile' = NoInode
          /\ Retry(c)
          /\ UNCHANGED outcome
       \/ /\ lockFile = NoInode
          /\ End(c, "ENOENT")
          /\ UNCHANGED <<lockFile, attempt>>
    /\ UNCHANGED <<text, aged, own, seen, named>>

(* The catch of createStoreLock: close, unlinkIfSame, rethrow.             *)
UndoStat(c) ==
    /\ pc[c] = "undoStat"
    /\ \/ lockFile = own[c] /\ Goto(c, "undoUnlink") /\ UNCHANGED <<own, outcome>>
       \/ /\ lockFile # own[c]
          /\ End(c, "writeFailed")
          /\ own' = [own EXCEPT ![c] = NoInode]
    /\ UNCHANGED <<lockFile, text, aged, seen, attempt, named>>

UndoUnlink(c) ==
    /\ pc[c] = "undoUnlink"
    /\ lockFile' = NoInode
    /\ End(c, IF lockFile = NoInode THEN "ENOENT" ELSE "writeFailed")
    /\ own' = [own EXCEPT ![c] = NoInode]
    /\ UNCHANGED <<text, aged, seen, attempt, named>>

-----------------------------------------------------------------------------
(* withStoreLock and releaseStoreLock *)

(* The guarded operation settles and the lock's handle is closed.          *)
Settle(c) ==
    /\ pc[c] = "held"
    /\ Goto(c, "release")
    /\ UNCHANGED <<lockFile, text, aged, own, seen, attempt, outcome, named>>

ReleaseStat(c) ==
    /\ pc[c] = "release"
    /\ \/ lockFile = own[c] /\ Goto(c, "unlink") /\ UNCHANGED <<own, outcome>>
       \/ /\ lockFile # own[c]
          /\ End(c, "ownershipChanged")
          /\ own' = [own EXCEPT ![c] = NoInode]
    /\ UNCHANGED <<lockFile, text, aged, seen, attempt, named>>

ReleaseUnlink(c) ==
    /\ pc[c] = "unlink"
    /\ lockFile' = NoInode
    /\ End(c, IF lockFile = NoInode THEN "ENOENT" ELSE "ok")
    /\ own' = [own EXCEPT ![c] = NoInode]
    /\ UNCHANGED <<text, aged, seen, attempt, named>>

-----------------------------------------------------------------------------
(* The environment *)

(* The process of c is killed, or exits once its operation has ended: its  *)
(* handles close and its files stay.                                       *)
Die(c) ==
    /\ pc[c] # "dead"
    /\ Cardinality(Dead) < MaxDeaths
    /\ Goto(c, "dead")
    /\ UNCHANGED <<lockFile, text, aged, own, seen, attempt, outcome, named>>

(* A lock file stays unwritten for longer than the initializing grace.     *)
Age(i) ==
    /\ i \in InUse \ aged
    /\ text[i] = NoOwner
    /\ aged' = aged \union {i}
    /\ UNCHANGED <<lockFile, text, pc, own, seen, attempt, outcome, named>>

(* The step that the event loop takes for a client in the middle of a call *)
Step(c) ==
    \/ CreateLock(c) \/ LockExists(c) \/ GiveUp(c)
    \/ CheckCreated(c) \/ WriteOwner(c) \/ WriteFails(c)
    \/ StatLock(c) \/ OpenLock(c) \/ JudgeLock(c)
    \/ BreakStat(c) \/ BreakUnlink(c)
    \/ UndoStat(c) \/ UndoUnlink(c)
    \/ Settle(c) \/ ReleaseStat(c) \/ ReleaseUnlink(c)

Next ==
    \/ \E c \in Clients : Step(c) \/ Die(c)
    \/ \E i \in Inodes : Age(i)

Spec == Init /\ [][Next]_vars

(* The event loop of a live process completes every awaited call.          *)
Fairness == \A c \in Clients : WF_vars(Step(c))

FairSpec == Spec /\ Fairness

-----------------------------------------------------------------------------
(* Properties *)

(* The writer lock: at most one client is inside the guarded operation of  *)
(* withStoreLock.  It fails once a lock has to be broken, see the run      *)
(* lock_stale_race.                                                        *)
Exclusive == \A c, d \in Clients : pc[c] = "held" /\ pc[d] = "held" => c = d

(* No process has died that ever wrote its identity into a lock file.      *)
OwnersAlive == named \intersect Dead = {}

(* What the protocol does guarantee: as long as no process that ever       *)
(* completed a lock file has died, withStoreLock excludes, even though     *)
(* clients die before they own the lock, stall past the grace period, fail *)
(* to write it and reuse inode numbers.                                    *)
ExclusiveUntilOwnerDies == OwnersAlive => Exclusive

(* Under the same condition every client in possession of a lock still     *)
(* finds its own file at the path, so releaseStoreLock never throws        *)
(* "ownership changed" and no unlink meets ENOENT.                         *)
NoFalseAlarmUntilOwnerDies ==
    OwnersAlive =>
        /\ \A c \in Clients : pc[c] \in InPossession => lockFile = own[c]
        /\ \A c \in Clients : outcome[c] \notin {"ENOENT", "ownershipChanged"}

(* acquireStoreLock terminates: a client that asks for the lock ends its   *)
(* operation, with the lock or with an error, whatever the others do.      *)
OperationEnds ==
    \A c \in Clients : pc[c] = "create" ~> pc[c] \in {"ended", "dead"}

(* A complete lock left by a dead process does not survive one acquire of  *)
(* a live client, waiting or not.                                          *)
StaleLockIsBroken ==
    \A c \in Clients, i \in Inodes :
        pc[c] = "create" /\ attempt[c] = 0 /\ lockFile = i /\ Stale(i)
            ~> lockFile # i \/ pc[c] = "dead"
=============================================================================
