-------------------------- MODULE StoreLock_proof --------------------------
(***************************************************************************)
(* Proofs that the append lock excludes, for any number of clients, any    *)
(* set of inodes and any retry limit, until a process dies that once wrote *)
(* its identity into a lock file.                                          *)
(***************************************************************************)
EXTENDS StoreLock, TLAPS

(* A client past the create call of an attempt has attempts left.          *)
AttemptsLeft ==
    \A c \in Clients : pc[c] \in Acquiring \ {"create"} => attempt[c] < RetryLimit

(* The owner that an inode names has been recorded.                        *)
OwnersNamed == \A i \in Inodes : text[i] # NoOwner => text[i] \in named

(* A client in possession has created a file, and knows its inode.         *)
OwnKnown == \A c \in Clients : pc[c] \in InPossession => own[c] \in Inodes

(* A client that judges or breaks a lock has captured its inode.           *)
SeenKnown ==
    \A c \in Clients :
        pc[c] \in {"open", "read", "breakStat", "breakUnlink"} => seen[c] \in Inodes

(* While the owners live, the possessor is unique, its file is the one at  *)
(* the path, and nobody breaks a lock.                                     *)
OneLivePossessor ==
    OwnersAlive =>
        /\ \A c, d \in Clients :
             pc[c] \in InPossession /\ pc[d] \in InPossession => c = d
        /\ \A c \in Clients : pc[c] \notin {"breakStat", "breakUnlink"}
        /\ NoFalseAlarmUntilOwnerDies

(* TypeOK needs AttemptsLeft: the loop counter is incremented without a    *)
(* test, the test being at the head of the loop.                           *)
TypeInv == TypeOK /\ AttemptsLeft

LockInv == TypeInv /\ OwnersNamed /\ OwnKnown /\ SeenKnown /\ OneLivePossessor

-----------------------------------------------------------------------------

LEMMA InitTypeInv == Init => TypeInv
  BY BoundAssumption DEF Init, TypeInv, TypeOK, AttemptsLeft, Phases, Acquiring,
                         InPossession, Owning, Outcomes

LEMMA NextTypeInv == TypeInv /\ [Next]_vars => TypeInv'
<1> SUFFICES ASSUME TypeInv, [Next]_vars PROVE TypeInv'
  OBVIOUS
<1> USE BoundAssumption DEF TypeInv, TypeOK, AttemptsLeft, Goto, End, Retry, Phases,
        Acquiring, InPossession, Owning, Outcomes
<1>1. ASSUME NEW c \in Clients, CreateLock(c) PROVE TypeInv'
  BY <1>1 DEF CreateLock
<1>2. ASSUME NEW c \in Clients, LockExists(c) PROVE TypeInv'
  BY <1>2 DEF LockExists
<1>3. ASSUME NEW c \in Clients, GiveUp(c) PROVE TypeInv'
  BY <1>3 DEF GiveUp
<1>4. ASSUME NEW c \in Clients, CheckCreated(c) PROVE TypeInv'
  BY <1>4 DEF CheckCreated
<1>5. ASSUME NEW c \in Clients, WriteOwner(c) PROVE TypeInv'
  BY <1>5 DEF WriteOwner
<1>6. ASSUME NEW c \in Clients, WriteFails(c) PROVE TypeInv'
  BY <1>6 DEF WriteFails
<1>7. ASSUME NEW c \in Clients, StatLock(c) PROVE TypeInv'
  BY <1>7 DEF StatLock
<1>8. ASSUME NEW c \in Clients, OpenLock(c) PROVE TypeInv'
  BY <1>8 DEF OpenLock
<1>9. ASSUME NEW c \in Clients, JudgeLock(c) PROVE TypeInv'
  BY <1>9 DEF JudgeLock
<1>10. ASSUME NEW c \in Clients, BreakStat(c) PROVE TypeInv'
  BY <1>10 DEF BreakStat
<1>11. ASSUME NEW c \in Clients, BreakUnlink(c) PROVE TypeInv'
  BY <1>11 DEF BreakUnlink
<1>12. ASSUME NEW c \in Clients, UndoStat(c) \/ UndoUnlink(c) PROVE TypeInv'
  BY <1>12 DEF UndoStat, UndoUnlink
<1>13. ASSUME NEW c \in Clients, Settle(c) PROVE TypeInv'
  BY <1>13 DEF Settle
<1>14. ASSUME NEW c \in Clients, ReleaseStat(c) \/ ReleaseUnlink(c) PROVE TypeInv'
  BY <1>14 DEF ReleaseStat, ReleaseUnlink
<1>15. ASSUME NEW c \in Clients, Die(c) PROVE TypeInv'
  BY <1>15 DEF Die
<1>16. ASSUME NEW i \in Inodes, Age(i) PROVE TypeInv'
  BY <1>16 DEF Age
<1>17. CASE UNCHANGED vars
  BY <1>17 DEF vars
<1> QED
  BY <1>1, <1>2, <1>3, <1>4, <1>5, <1>6, <1>7, <1>8, <1>9, <1>10, <1>11, <1>12,
     <1>13, <1>14, <1>15, <1>16, <1>17 DEF Next, Step

(* The variables of the lock keep their types: in particular no client     *)
(* ever counts more attempts than the retry limit of acquireStoreLock.     *)
THEOREM TypeCorrect == Spec => []TypeOK
<1>1. TypeInv => TypeOK
  BY DEF TypeInv
<1> QED
  BY InitTypeInv, NextTypeInv, <1>1, PTL DEF Spec

-----------------------------------------------------------------------------
(* The lock invariant: one step per action.                                *)

LEMMA InitLockInv == Init => LockInv
  BY InitTypeInv, NoInodeAssumption
     DEF Init, LockInv, OwnersNamed, OwnKnown, SeenKnown, OneLivePossessor, Phases, Acquiring,
         InPossession, Owning, NoFalseAlarmUntilOwnerDies

(* Owners stay dead and recorded, so the condition is never regained.      *)
LEMMA OwnersAliveBackwards ==
    ASSUME TypeOK, [Next]_vars, OwnersAlive' PROVE OwnersAlive
<1> USE DEF OwnersAlive, Dead, TypeOK, Goto, End, Retry
<1>1. named \subseteq named'
  BY DEF Next, Step, vars, CreateLock, LockExists, GiveUp, CheckCreated, WriteOwner,
         WriteFails, StatLock, OpenLock, JudgeLock, BreakStat, BreakUnlink, UndoStat,
         UndoUnlink, Settle, ReleaseStat, ReleaseUnlink, Die, Age
<1>2. Dead \subseteq Dead'
  BY DEF Next, Step, vars, CreateLock, LockExists, GiveUp, CheckCreated, WriteOwner,
         WriteFails, StatLock, OpenLock, JudgeLock, BreakStat, BreakUnlink, UndoStat,
         UndoUnlink, Settle, ReleaseStat, ReleaseUnlink, Die, Age
<1> QED
  BY <1>1, <1>2

LEMMA NextLockInv == LockInv /\ [Next]_vars => LockInv'
<1> SUFFICES ASSUME LockInv, [Next]_vars PROVE LockInv'
  OBVIOUS
<1>1. TypeInv' /\ (OwnersAlive' => OwnersAlive)
  BY NextTypeInv, OwnersAliveBackwards DEF LockInv, TypeInv
<1> USE NoInodeAssumption, NoOwnerAssumption
    DEF LockInv, TypeInv, TypeOK, OwnersNamed, OwnKnown, SeenKnown, OneLivePossessor,
        NoFalseAlarmUntilOwnerDies, Goto, End, Retry, InPossession, Owning
<1>2. ASSUME NEW c \in Clients, CreateLock(c) PROVE LockInv'
  <2>1. OwnersAlive => \A d \in Clients : pc[d] \notin InPossession
    BY <1>2 DEF CreateLock
  <2> QED
    BY <1>1, <1>2, <2>1 DEF CreateLock
<1>3. ASSUME NEW c \in Clients, LockExists(c) \/ GiveUp(c) PROVE LockInv'
  BY <1>1, <1>3 DEF LockExists, GiveUp
<1>4. ASSUME NEW c \in Clients, CheckCreated(c) PROVE LockInv'
  BY <1>1, <1>4 DEF CheckCreated
<1>5. ASSUME NEW c \in Clients, WriteOwner(c) PROVE LockInv'
  BY <1>1, <1>5 DEF WriteOwner
<1>6. ASSUME NEW c \in Clients, WriteFails(c) \/ Settle(c) PROVE LockInv'
  BY <1>1, <1>6 DEF WriteFails, Settle
<1>7. ASSUME NEW c \in Clients, StatLock(c) \/ OpenLock(c) PROVE LockInv'
  BY <1>1, <1>7 DEF StatLock, OpenLock
<1>8. ASSUME NEW c \in Clients, JudgeLock(c) PROVE LockInv'
  <2>1. CASE Stale(seen[c]) /\ pc' = [pc EXCEPT ![c] = "breakStat"]
    BY <1>1, <1>8, <2>1 DEF JudgeLock, Stale, OwnersAlive, Dead
  <2>2. CASE pc' # [pc EXCEPT ![c] = "breakStat"]
    BY <1>1, <1>8, <2>2 DEF JudgeLock
  <2> QED
    BY <1>8, <2>1, <2>2 DEF JudgeLock
<1>9. ASSUME NEW c \in Clients, BreakStat(c) \/ BreakUnlink(c) PROVE LockInv'
  BY <1>1, <1>9 DEF BreakStat, BreakUnlink
<1>10. ASSUME NEW c \in Clients, UndoStat(c) \/ UndoUnlink(c) PROVE LockInv'
  BY <1>1, <1>10 DEF UndoStat, UndoUnlink
<1>11. ASSUME NEW c \in Clients, ReleaseStat(c) \/ ReleaseUnlink(c) PROVE LockInv'
  BY <1>1, <1>11 DEF ReleaseStat, ReleaseUnlink
<1>12. ASSUME NEW c \in Clients, Die(c) PROVE LockInv'
  BY <1>1, <1>12 DEF Die
<1>13. ASSUME NEW i \in Inodes, Age(i) PROVE LockInv'
  BY <1>1, <1>13 DEF Age
<1>14. CASE UNCHANGED vars
  BY <1>1, <1>14 DEF vars
<1> QED
  BY <1>2, <1>3, <1>4, <1>5, <1>6, <1>7, <1>8, <1>9, <1>10, <1>11, <1>12, <1>13,
     <1>14 DEF Next, Step

(* withStoreLock excludes two live holders until a process dies that once  *)
(* wrote its identity into a lock file.                                    *)
THEOREM Exclusion == Spec => []ExclusiveUntilOwnerDies
<1>1. LockInv => ExclusiveUntilOwnerDies
  BY DEF LockInv, OneLivePossessor, ExclusiveUntilOwnerDies, Exclusive, InPossession, Owning
<1> QED
  BY InitLockInv, NextLockInv, <1>1, PTL DEF Spec

(* Until then a possessor never finds another file in the place of its     *)
(* own, so withStoreLock reports no lock that was broken when none was.    *)
THEOREM NoFalseAlarm == Spec => []NoFalseAlarmUntilOwnerDies
<1>1. LockInv => NoFalseAlarmUntilOwnerDies
  BY DEF LockInv, OneLivePossessor, NoFalseAlarmUntilOwnerDies, InPossession, Owning
<1> QED
  BY InitLockInv, NextLockInv, <1>1, PTL DEF Spec
=============================================================================
