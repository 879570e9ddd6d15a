------------------------- MODULE GitHubHistory_proof -------------------------
(***************************************************************************)
(* Proofs about GitHubWriter, continued: what publish appends can be read  *)
(* again, no issue is created twice, and the results refine a registry     *)
(* that is written once per item.                                          *)
(*                                                                         *)
(* They rest on what a publisher knows of the store and of the tracker     *)
(* between its calls.  Its history is a prefix of the stored results, and  *)
(* all of them if it runs alone (Fresh); it is at most one mapping ahead   *)
(* of that history (OneAhead); and its preflight has missed no issue of an *)
(* item that it will create, if it runs alone (NothingMissed).             *)
(***************************************************************************)
EXTENDS GitHubWriter_proof

(* No step of another publisher disturbs what one holds, so a step is      *)
(* judged at the publisher that takes it.                                  *)
Busy == {"find", "apply", "transient", "persist"}

OthersKept(u) ==
    \A v \in Publishers \ {u} :
        /\ pc'[v] = pc[v] /\ job'[v] = job[v] /\ history'[v] = history[v]
        /\ mappings'[v] = mappings[v] /\ found'[v] = found[v]
        /\ cursor'[v] = cursor[v] /\ failed'[v] = failed[v]

(* The moves of a publisher, at the publisher: it holds nothing or only an *)
(* approval, it loads, finds, meets a failure, settles an item, takes a    *)
(* failure into its draft, or goes on to the next item.                    *)
Forgets(u) ==
    /\ pc'[u] \in {"idle", "load"}
    /\ cursor'[u] = 1 \/ (pc[u] = "idle" /\ cursor'[u] = cursor[u])

Loads(u) ==
    /\ pc[u] = "load" /\ pc'[u] = "find"
    /\ history'[u] = results
    /\ mappings'[u] = LatestMappings(results[Plan(u)])
    /\ job'[u] = job[u] /\ found'[u] = found[u]
    /\ cursor'[u] = cursor[u] /\ failed'[u] = failed[u]

Finds(u) ==
    /\ pc[u] = "find"
    /\ \/ Matches(Marker(u, cursor[u])) = {} /\ found'[u] = found[u]
       \/ /\ found'[u][cursor[u]].number # 0
          /\ \A i \in Items \ {cursor[u]} : found'[u][i] = found[u][i]
    /\ \/ /\ cursor[u] # ItemCount
          /\ pc'[u] = "find" /\ cursor'[u] = cursor[u] + 1
       \/ /\ cursor[u] = ItemCount
          /\ pc'[u] = "apply" /\ cursor'[u] = 1
    /\ job'[u] = job[u] /\ history'[u] = history[u]
    /\ mappings'[u] = mappings[u] /\ failed'[u] = failed[u]

Stumbles(u) ==
    /\ pc[u] \in {"find", "apply"} /\ pc'[u] = "transient"
    /\ job'[u] = job[u] /\ history'[u] = history[u]
    /\ mappings'[u] = mappings[u] /\ found'[u] = found[u]
    /\ cursor'[u] = cursor[u] /\ failed'[u] = failed[u]

Settles(u) ==
    /\ pc[u] = "apply" /\ pc'[u] = "persist"
    /\ \E n \in Numbers :
         /\ Recorded(u, cursor[u]) \in {0, n}
         /\ mappings'[u][cursor[u]] = n
         /\ \A i \in Items \ {cursor[u]} : mappings'[u][i] = mappings[u][i]
    /\ job'[u] = job[u] /\ history'[u] = history[u] /\ found'[u] = found[u]
    /\ cursor'[u] = cursor[u] /\ failed'[u] = failed[u]

Notes(u) ==
    /\ pc[u] = "transient" /\ pc'[u] = "persist"
    /\ failed'[u] = cursor[u]
    /\ job'[u] = job[u] /\ history'[u] = history[u]
    /\ mappings'[u] = mappings[u] /\ found'[u] = found[u]
    /\ cursor'[u] = cursor[u]

Advances(u) ==
    /\ pc[u] = "persist" /\ pc'[u] = "apply"
    /\ failed[u] = 0 /\ cursor[u] # ItemCount
    /\ \/ PersistUnchanged(u) /\ history'[u] = history[u]
       \/ Persist(u) /\ history'[u] = WithDraft(u)
    /\ job'[u] = job[u]
    /\ mappings'[u] = mappings[u] /\ found'[u] = found[u]
    /\ cursor'[u] = cursor[u] + 1 /\ failed'[u] = failed[u]

Moves(u) ==
    \/ Forgets(u) \/ Loads(u) \/ Finds(u) \/ Stumbles(u)
    \/ Settles(u) \/ Notes(u) \/ Advances(u)

LEMMA ResetMoves ==
    ASSUME TypeOK, NEW u \in Publishers, Reset(u)
    PROVE  OthersKept(u) /\ Moves(u)
<1>1. OthersKept(u)
  BY DEF TypeOK, Reset, OthersKept
<1>2. Forgets(u)
  BY DEF TypeOK, Reset, Forgets
<1> QED
  BY <1>1, <1>2 DEF Moves

LEMMA FaultMoves ==
    ASSUME TypeOK, NEW u \in Publishers, pc[u] \in {"find", "apply"}, Fault(u)
    PROVE  OthersKept(u) /\ Moves(u)
<1>1. CASE Throw(u)
  BY <1>1, ResetMoves DEF Throw
<1>2. CASE /\ pc' = [pc EXCEPT ![u] = "transient"]
           /\ UNCHANGED <<job, history, mappings, found, cursor, failed>>
  <2>1. OthersKept(u)
    BY <1>2 DEF TypeOK, OthersKept
  <2>2. Stumbles(u)
    BY <1>2 DEF TypeOK, Stumbles
  <2> QED
    BY <2>1, <2>2 DEF Moves
<1> QED
  BY <1>1, <1>2 DEF Fault

LEMMA SettleMoves ==
    ASSUME TypeOK, NEW u \in Publishers, NEW n \in Numbers, pc[u] = "apply", Settle(u, n)
    PROVE  OthersKept(u) /\ Moves(u)
<1>1. CASE Throw(u)
  BY <1>1, ResetMoves DEF Throw
<1>2. CASE /\ Recorded(u, cursor[u]) \in {0, n}
           /\ mappings' = [mappings EXCEPT ![u][cursor[u]] = n]
           /\ pc' = [pc EXCEPT ![u] = "persist"]
           /\ UNCHANGED <<job, history, found, cursor, failed>>
  <2>1. OthersKept(u)
    BY <1>2 DEF TypeOK, OthersKept
  <2>2. mappings[u] \in [Items -> Numbers \union {0}] /\ cursor[u] \in Items
    BY DEF TypeOK, Mappings
  <2>3. mappings'[u] = [mappings[u] EXCEPT ![cursor[u]] = n]
    BY <1>2 DEF TypeOK
  <2>4. /\ mappings'[u][cursor[u]] = n
        /\ \A i \in Items \ {cursor[u]} : mappings'[u][i] = mappings[u][i]
    BY <2>2, <2>3
  <2>5. Settles(u)
    BY <1>2, <2>4 DEF TypeOK, Settles
  <2> QED
    BY <2>1, <2>5 DEF Moves
<1> QED
  BY <1>1, <1>2 DEF Settle

LEMMA FindMoves ==
    ASSUME TypeOK, NEW u \in Publishers, Find(u)
    PROVE  OthersKept(u) /\ Moves(u)
<1>1. OthersKept(u)
  BY DEF TypeOK, Find, OthersKept
<1>2. cursor[u] \in Items /\ found[u] \in [Items -> Remote]
  BY DEF TypeOK
<1>3. \/ Matches(Marker(u, cursor[u])) = {} /\ found'[u] = found[u]
      \/ /\ found'[u][cursor[u]].number # 0
         /\ \A i \in Items \ {cursor[u]} : found'[u][i] = found[u][i]
  <2>1. CASE Matches(Marker(u, cursor[u])) = {} /\ UNCHANGED found
    BY <2>1
  <2>2. ASSUME NEW n \in Matches(Marker(u, cursor[u])),
               found' = [found EXCEPT ![u][cursor[u]] = [number |-> n, text |-> tracker[n].text]]
        PROVE  /\ found'[u][cursor[u]].number # 0
               /\ \A i \in Items \ {cursor[u]} : found'[u][i] = found[u][i]
    <3>1. n # 0
      BY <2>2 DEF Matches, TypeOK
    <3>2. found'[u] = [found[u] EXCEPT ![cursor[u]] = [number |-> n, text |-> tracker[n].text]]
      BY <2>2 DEF TypeOK
    <3> QED
      BY <1>2, <3>1, <3>2
  <2> QED
    BY <2>1, <2>2 DEF Find
<1>4. \/ /\ cursor[u] # ItemCount
         /\ pc'[u] = "find" /\ cursor'[u] = cursor[u] + 1
      \/ /\ cursor[u] = ItemCount
         /\ pc'[u] = "apply" /\ cursor'[u] = 1
  BY <1>2, Constants DEF TypeOK, Find, Items
<1>5. Finds(u)
  BY <1>3, <1>4 DEF TypeOK, Find, Finds
<1> QED
  BY <1>1, <1>5 DEF Moves

LEMMA ContinueMoves ==
    ASSUME TypeOK, NEW u \in Publishers, pc[u] = "persist",
           \/ PersistUnchanged(u) /\ Continue(u, history[u])
           \/ Persist(u) /\ Continue(u, WithDraft(u))
    PROVE  OthersKept(u) /\ Moves(u)
<1>1. CASE Return(u)
  BY <1>1, ResetMoves DEF Return
<1>2. ASSUME NEW rows,
             /\ failed[u] = 0 /\ cursor[u] # ItemCount
             /\ history' = [history EXCEPT ![u] = rows]
             /\ cursor' = [cursor EXCEPT ![u] = @ + 1]
             /\ pc' = [pc EXCEPT ![u] = "apply"]
             /\ UNCHANGED <<job, mappings, found, failed>>,
             \/ PersistUnchanged(u) /\ rows = history[u]
             \/ Persist(u) /\ rows = WithDraft(u)
      PROVE  OthersKept(u) /\ Moves(u)
  <2>1. OthersKept(u)
    BY <1>2 DEF TypeOK, OthersKept
  <2>2. history'[u] = rows
    BY <1>2 DEF TypeOK
  <2>3. Advances(u)
    BY <1>2, <2>2 DEF TypeOK, Advances
  <2> QED
    BY <2>1, <2>3 DEF Moves
<1> QED
  BY <1>1, <1>2 DEF Continue

(* Every step is a move of one publisher, or leaves them all.              *)
LEMMA PublisherMoves ==
    ASSUME TypeOK, [Next]_vars
    PROVE  UNCHANGED local \/ \E u \in Publishers : OthersKept(u) /\ Moves(u)
<1>1. ASSUME NEW u \in Publishers, NEW a \in Approvals, Start(u, a)
      PROVE  OthersKept(u) /\ Moves(u)
  <2>1. OthersKept(u)
    BY <1>1 DEF TypeOK, Start, OthersKept
  <2>2. Forgets(u)
    BY <1>1 DEF TypeOK, Start, Forgets
  <2> QED
    BY <2>1, <2>2 DEF Moves
<1>2. ASSUME NEW u \in Publishers, Load(u) PROVE OthersKept(u) /\ Moves(u)
  <2>1. OthersKept(u)
    BY <1>2 DEF TypeOK, Load, OthersKept
  <2>2. Loads(u)
    BY <1>2 DEF TypeOK, Load, Loads
  <2> QED
    BY <2>1, <2>2 DEF Moves
<1>3. ASSUME NEW u \in Publishers,
             LoadRefused(u) \/ FindRefused(u) \/ PersistRefused(u) \/ Crash(u)
      PROVE  OthersKept(u) /\ Moves(u)
  BY <1>3, ResetMoves DEF LoadRefused, FindRefused, PersistRefused, Crash, Throw
<1>4. ASSUME NEW u \in Publishers, Adopt(u) \/ Create(u) \/ Update(u)
      PROVE  OthersKept(u) /\ Moves(u)
  <2>1. Created(u) => Len(tracker) + 1 \in Numbers
    BY CreatedType
  <2>2. \E n \in Numbers : pc[u] = "apply" /\ Settle(u, n)
    BY <1>4, <2>1 DEF Adopt, Create, Created, Update, Updated, AtItem
  <2> QED
    BY <2>2, SettleMoves
<1>5. ASSUME NEW u \in Publishers, TrackerFault(u) PROVE OthersKept(u) /\ Moves(u)
  <2>1. pc[u] \in {"find", "apply"} /\ Fault(u)
    BY <1>5 DEF TrackerFault, FindFails, CreateFails, CreateAnswerLost, UpdateFails,
       UpdateAnswerLost, Created, Updated, AtItem
  <2> QED
    BY <2>1, FaultMoves
<1>6. ASSUME NEW u \in Publishers, Transient(u) PROVE OthersKept(u) /\ Moves(u)
  <2>1. CASE Return(u)
    BY <2>1, ResetMoves DEF Return
  <2>2. CASE /\ failed' = [failed EXCEPT ![u] = cursor[u]]
             /\ pc' = [pc EXCEPT ![u] = "persist"]
             /\ UNCHANGED <<job, history, mappings, found, cursor>>
    <3>1. OthersKept(u)
      BY <2>2 DEF TypeOK, OthersKept
    <3>2. Notes(u)
      BY <1>6, <2>2 DEF TypeOK, Transient, Notes
    <3> QED
      BY <3>1, <3>2 DEF Moves
  <2> QED
    BY <1>6, <2>1, <2>2 DEF Transient
<1>7. ASSUME NEW u \in Publishers, Persist(u) \/ PersistUnchanged(u)
      PROVE  OthersKept(u) /\ Moves(u)
  BY <1>7, ContinueMoves DEF Persist, PersistUnchanged
<1>8. CASE Supersede \/ People \/ UNCHANGED vars
  BY <1>8 DEF Supersede, People, Edit, Retag, vars
<1> QED
  BY <1>1, <1>2, <1>3, <1>4, <1>5, <1>6, <1>7, <1>8, FindMoves DEF Next, Publish

-----------------------------------------------------------------------------
(* A publisher starts its lookup at the first item.                        *)
AtFirst == \A u \in Publishers : pc[u] \in {"idle", "load"} => cursor[u] = 1

(* A publisher holds at most one mapping that its history does not record: *)
(* the one of its item, which had none, while it is being appended.        *)
OneAheadOf(u) ==
    pc[u] \in Busy => \A i \in Items :
        mappings[u][i] # Recorded(u, i)
            => pc[u] = "persist" /\ i = cursor[u] /\ Recorded(u, i) = 0

OneAhead == \A u \in Publishers : OneAheadOf(u)

(* A number is changed by hand only in an edit that is counted.            *)
NoRetag == edits = 0 => Untouched

LEMMA AtFirstNext == TypeOK /\ AtFirst /\ [Next]_vars => AtFirst'
<1> SUFFICES ASSUME TypeOK, AtFirst, [Next]_vars, NEW v \in Publishers,
                    pc'[v] \in {"idle", "load"}
             PROVE  cursor'[v] = 1
  BY DEF AtFirst
<1>1. CASE UNCHANGED local
  BY <1>1 DEF local, AtFirst
<1>2. ASSUME NEW u \in Publishers, OthersKept(u), Moves(u) PROVE cursor'[v] = 1
  <2>1. CASE v # u
    BY <1>2, <2>1 DEF OthersKept, AtFirst
  <2>2. CASE v = u
    BY <1>2, <2>2 DEF AtFirst, Moves, Forgets, Loads, Finds, Stumbles, Settles, Notes, Advances
  <2> QED
    BY <2>1, <2>2
<1> QED
  BY <1>1, <1>2, PublisherMoves

(* What the history of a publisher records is read at its end.             *)
LEMMA RecordedNext ==
    ASSUME NEW u \in Publishers, NEW i \in Items, job'[u] = job[u]
    PROVE  Recorded(u, i)' = LatestMappings(history'[u][Plan(u)])[i]
BY DEF Recorded, Plan, LatestMappings, Unmapped

LEMMA OneAheadNext == TypeOK /\ OneAhead /\ [Next]_vars => OneAhead'
<1> SUFFICES ASSUME TypeOK, OneAhead, [Next]_vars, NEW v \in Publishers, NEW i \in Items,
                    pc'[v] \in Busy, mappings'[v][i] # Recorded(v, i)'
             PROVE  pc'[v] = "persist" /\ i = cursor'[v] /\ Recorded(v, i)' = 0
  BY DEF OneAhead, OneAheadOf, Recorded, Plan, LatestMappings, Unmapped
<1>1. CASE UNCHANGED local
  BY <1>1 DEF local, OneAhead, OneAheadOf, Recorded, Plan, LatestMappings, Unmapped
<1>2. ASSUME NEW u \in Publishers, OthersKept(u), Moves(u)
      PROVE  pc'[v] = "persist" /\ i = cursor'[v] /\ Recorded(v, i)' = 0
  <2>1. CASE v # u \/ Stumbles(u) \/ Notes(u) \/ Finds(u)
    <3>1. job'[v] = job[v] /\ history'[v] = history[v] /\ mappings'[v] = mappings[v]
      BY <1>2, <2>1 DEF OthersKept, Stumbles, Notes, Finds
    <3>2. Recorded(v, i)' = Recorded(v, i)
      BY <3>1, RecordedNext DEF Recorded
    <3>3. mappings[v][i] # Recorded(v, i)
      BY <3>1, <3>2
    <3>4. pc[v] \in Busy
      BY <1>2, <2>1 DEF OthersKept, Stumbles, Notes, Finds, Busy
    <3>5. pc[v] = "persist" /\ i = cursor[v] /\ Recorded(v, i) = 0
      BY <3>3, <3>4 DEF OneAhead, OneAheadOf
    <3>6. CASE v # u
      BY <1>2, <3>2, <3>5, <3>6 DEF OthersKept
    <3>7. CASE v = u
      BY <2>1, <3>5, <3>7 DEF Stumbles, Notes, Finds
    <3> QED
      BY <3>6, <3>7
  <2>2. CASE v = u /\ Forgets(u)
    BY <2>2 DEF Forgets, Busy
  <2>3. CASE v = u /\ Loads(u)
    <3>1. Recorded(v, i)' = mappings'[v][i]
      BY <2>3, RecordedNext DEF Loads
    <3> QED
      BY <3>1
  <2>4. CASE v = u /\ Settles(u)
    <3>1. Recorded(v, i)' = Recorded(v, i)
      BY <2>4, RecordedNext DEF Settles, Recorded
    <3>2. pc[u] \in Busy /\ pc[u] # "persist"
      BY <2>4 DEF Settles, Busy
    <3>3. mappings[u][i] = Recorded(u, i)
      BY <3>2 DEF OneAhead, OneAheadOf
    <3>4. i = cursor[u]
      BY <2>4, <3>1, <3>3 DEF Settles
    <3>5. Recorded(u, i) = 0
      BY <2>4, <3>1, <3>4 DEF Settles
    <3> QED
      BY <2>4, <3>1, <3>4, <3>5 DEF Settles
  <2>5. CASE v = u /\ Advances(u)
    <3> DEFINE h == history[u][Plan(u)]
    <3>1. job'[u] = job[u] /\ mappings'[u] = mappings[u]
      BY <2>5 DEF Advances
    <3>2. h \in Seq(Result) /\ Content(u) \in Result
      BY ContentType, DraftType DEF TypeOK
    <3>3. history'[u][Plan(u)] # <<>>
          /\ history'[u][Plan(u)][Len(history'[u][Plan(u)])] = Content(u)
      <4>1. CASE PersistUnchanged(u) /\ history'[u] = history[u]
        BY <4>1 DEF PersistUnchanged, Unchanged
      <4>2. CASE history'[u] = WithDraft(u)
        <5>1. history'[u][Plan(u)] = Append(h, Content(u))
          BY <4>2, DraftType
        <5> HIDE DEF h
        <5> QED
          BY <3>2, <5>1
      <4> QED
        BY <2>5, <4>1, <4>2 DEF Advances
    <3>4. Recorded(u, i)' = Content(u).mappings[i]
      BY <3>1, <3>3, RecordedNext DEF LatestMappings
    <3>5. Content(u).mappings = mappings[u]
      BY DEF Content
    <3> QED
      BY <2>5, <3>1, <3>4, <3>5
  <2> QED
    BY <1>2, <2>1, <2>2, <2>3, <2>4, <2>5 DEF Moves
<1> QED
  BY <1>1, <1>2, PublisherMoves

LEMMA NoRetagNext == TypeOK /\ NoRetag /\ [Next]_vars => NoRetag'
<1> SUFFICES ASSUME TypeOK, NoRetag, [Next]_vars, edits' = 0, NEW n \in DOMAIN tracker'
             PROVE  ~tracker'[n].retagged
  BY DEF NoRetag, Untouched
<1>1. CASE People
  <2>1. edits' = edits + 1
    BY <1>1, Zenon DEF People, Edit, Retag
  <2>2. edits \in Nat
    BY Constants DEF TypeOK
  <2> QED
    BY <2>1, <2>2
<1>2. CASE UNCHANGED <<tracker, edits>>
  BY <1>2 DEF NoRetag, Untouched
<1>3. ASSUME NEW u \in Publishers, Created(u), UNCHANGED edits PROVE ~tracker'[n].retagged
  <2>1. n \in DOMAIN tracker \/ n = Len(tracker) + 1
    BY <1>3, CreatedType DEF TypeOK
  <2>2. CASE n \in DOMAIN tracker
    <3>1. tracker'[n] = tracker[n]
      BY <1>3, <2>2, CreatedType
    <3> QED
      BY <1>3, <2>2, <3>1, Zenon DEF NoRetag, Untouched
  <2>3. CASE n = Len(tracker) + 1
    <3>1. tracker'[n] = NewIssue(u)
      BY <1>3, <2>3, CreatedType
    <3>2. ~NewIssue(u).retagged
      BY DEF NewIssue
    <3> QED
      BY <3>1, <3>2, Zenon
  <2> QED
    BY <2>1, <2>2, <2>3
<1>4. ASSUME NEW u \in Publishers, NEW k \in Numbers, Updated(u, k), UNCHANGED edits
      PROVE  ~tracker'[n].retagged
  <2>1. n \in DOMAIN tracker /\ tracker'[n].retagged = tracker[n].retagged
    BY <1>4, UpdatedType
  <2> QED
    BY <1>4, <2>1, Zenon DEF NoRetag, Untouched
<1>5. \/ People \/ UNCHANGED <<tracker, edits>>
      \/ \E u \in Publishers :
           (Created(u) \/ \E k \in Numbers : Updated(u, k)) /\ UNCHANGED edits
  BY DEF Next, vars, counters, Start, Publish, Load, LoadRefused, Find, FindRefused, Adopt,
         Create, Update, Transient, PersistUnchanged, Persist, PersistRefused, TrackerFault,
         Fault, FindFails, CreateFails, CreateAnswerLost, UpdateFails, UpdateAnswerLost,
         Crash, Supersede
<1> QED
  BY <1>1, <1>2, <1>3, <1>4, <1>5

-----------------------------------------------------------------------------
(* Persist appends to the history that the publisher knows, or finds the   *)
(* revision stored already.                                                *)
LEMMA Appended ==
    ASSUME IInv, NEW u \in Publishers, Persist(u), results' # results
    PROVE  /\ Plan(u) \in Plans
           /\ history[u][Plan(u)] = results[Plan(u)]
           /\ results'[Plan(u)] = WithDraft(u)[Plan(u)]
           /\ results' = [results EXCEPT ![Plan(u)] = Append(@, Content(u))]
           /\ \A p \in Plans : p # Plan(u) => results'[p] = results[p]
<1> DEFINE p == Plan(u)
           rows == results[p]
           h == history[u][p]
           next == Len(h) + 1
<1>1. TypeOK /\ HistoryKnown
  BY DEF IInv
<1>2. /\ p \in Plans /\ rows \in Seq(Result) /\ h \in Seq(Result)
      /\ results \in [Plans -> Seq(Result)]
      /\ WithDraft(u)[p] = Append(h, Content(u))
  BY <1>1, DraftType DEF TypeOK
<1>3. Len(h) <= Len(rows) /\ \A k \in 1 .. Len(h) : h[k] = rows[k]
  BY <1>1, <1>2 DEF HistoryKnown
<1>4. results' = [results EXCEPT ![p] = IF next <= Len(rows)
                                        THEN [rows EXCEPT ![next] = Content(u)]
                                        ELSE Append(rows, Content(u))]
  BY DEF Persist, Stored
<1>5. next <= Len(rows) => rows[next] = Content(u)
  BY DEF Persist, Appendable
<1> HIDE DEF p, rows, h
<1>6. ~(next <= Len(rows))
  <2> SUFFICES ASSUME next <= Len(rows) PROVE FALSE
    OBVIOUS
  <2>1. next \in 1 .. Len(rows)
    BY <1>2
  <2>2. [rows EXCEPT ![next] = Content(u)] = rows
    BY <1>2, <1>5, <2>1
  <2>3. results' = [results EXCEPT ![p] = results[p]]
    BY <1>4, <2>2 DEF rows
  <2> QED
    BY <1>2, <2>3
<1>7. h = rows
  BY <1>2, <1>3, <1>6
<1>8. results' = [results EXCEPT ![p] = Append(rows, Content(u))]
  BY <1>4, <1>6
<1>9. results'[p] = Append(h, Content(u)) /\ \A q \in Plans : q # p => results'[q] = results[q]
  BY <1>2, <1>7, <1>8
<1> QED
  BY <1>2, <1>7, <1>8, <1>9 DEF p, rows, h

(* Every result is bound to its plan, and the mappings only grow.          *)
RowsSound ==
    \A p \in Plans :
        Cumulative(results[p]) /\ \A k \in DOMAIN results[p] : RowSound(p, results[p][k])

LEMMA RowsSoundNext == IInv /\ RowsSound /\ [Next]_vars => RowsSound'
<1> SUFFICES ASSUME IInv, RowsSound, [Next]_vars, results' # results, NEW p \in Plans
             PROVE  /\ Cumulative(results'[p])
                    /\ \A k \in DOMAIN results'[p] : RowSound(p, results'[p][k])
  BY DEF RowsSound, Cumulative, MappedItems, RowSound, Authentic, Trusted
<1>1. PICK u \in Publishers : Persist(u)
  BY HistorySteps
<1>2. CASE p = Plan(u)
  <2>1. results'[p] = WithDraft(u)[p]
    BY <1>1, <1>2, Appended
  <2>2. Readable(WithDraft(u))
    BY <1>1 DEF Persist
  <2> QED
    BY <2>1, <2>2 DEF Readable
<1>3. CASE p # Plan(u)
  <2>1. results'[p] = results[p]
    BY <1>1, <1>3, Appended
  <2> QED
    BY <2>1 DEF RowsSound
<1> QED
  BY <1>2, <1>3

(* Numbers that are all owned as they were created are not mapped twice.   *)
NumbersDiffer ==
    \A p, q \in Plans : \A k \in DOMAIN results[p], l \in DOMAIN results[q] :
        NumbersAgree(p, results[p][k], q, results[q][l])

LEMMA OwnersDiffer == IInv /\ Untouched => NumbersDiffer
<1> SUFFICES ASSUME IInv, Untouched, NEW p \in Plans, NEW q \in Plans,
                    NEW k \in DOMAIN results[p], NEW l \in DOMAIN results[q],
                    NEW i \in Items, NEW j \in Items,
                    results[p][k].mappings[i] # 0,
                    results[p][k].mappings[i] = results[q][l].mappings[j]
             PROVE  p = q /\ i = j
  BY DEF NumbersDiffer, NumbersAgree, MappedItems
<1> DEFINE n == results[p][k].mappings[i]
<1>1. k \in 1 .. Len(results[p]) /\ l \in 1 .. Len(results[q])
  BY DEF IInv, TypeOK
<1>2. Own(p, i, n) /\ Own(q, j, n)
  BY <1>1 DEF IInv, ResultsOwn
<1> HIDE DEF n
<1>3. tracker[n].born = <<p, i>> /\ tracker[n].born = <<q, j>>
  BY <1>2, Zenon DEF Own, Untouched
<1> QED
  BY <1>3

-----------------------------------------------------------------------------
(* A publisher that runs alone.                                            *)
Alone == \A u, v \in Publishers : u = v

Fresh == \A u \in Publishers : pc[u] \in Busy => history[u] = results

(* The items that the preflight of the publisher has passed and that it    *)
(* has not yet settled.                                                    *)
Looked(u, i) ==
    \/ pc[u] = "find" /\ i < cursor[u]
    \/ pc[u] = "apply" /\ i >= cursor[u]
    \/ pc[u] = "persist" /\ failed[u] = 0 /\ i > cursor[u]

NothingMissed ==
    \A u \in Publishers, i \in Items :
        Looked(u, i) /\ found[u][i].number = 0
            => \A n \in DOMAIN tracker : tracker[n].born = Marker(u, i) => tracker[n].retagged

LEMMA FreshNext == Alone /\ IInv /\ Fresh /\ [Next]_vars => Fresh'
<1> SUFFICES ASSUME Alone, IInv, Fresh, [Next]_vars, NEW v \in Publishers, pc'[v] \in Busy
             PROVE  history'[v] = results'
  BY DEF Fresh
<1>1. TypeOK
  BY DEF IInv
<1>2. CASE UNCHANGED local
  <2>1. results' = results
    <3> SUFFICES ASSUME results' # results PROVE FALSE
      OBVIOUS
    <3>1. PICK u \in Publishers : Persist(u)
      BY HistorySteps
    <3>2. pc[u] = "persist" /\ pc'[u] # "persist"
      BY <1>1, <3>1 DEF Persist, Continue, Return, Reset, TypeOK
    <3> QED
      BY <1>2, <3>2 DEF local
  <2> QED
    BY <1>2, <2>1 DEF local, Fresh
<1>3. ASSUME NEW u \in Publishers, OthersKept(u), Moves(u) PROVE history'[v] = results'
  <2>1. u = v
    BY DEF Alone
  <2>2. ASSUME NEW w \in Publishers, Persist(w)
        PROVE  pc[v] = "persist" /\ results' = WithDraft(v)
    <3>1. w = v /\ pc[v] \in Busy
      BY <2>2 DEF Alone, Persist, Busy
    <3>2. history[v] = results
      BY <3>1 DEF Fresh
    <3>3. results' = [results EXCEPT ![Plan(v)] = Append(@, Content(v))]
      <4> DEFINE rows == results[Plan(v)]
      <4>1. Len(rows) \in Nat
        BY <1>1, DraftType DEF TypeOK
      <4>2. results' = [results EXCEPT ![Plan(v)] =
                          IF Len(rows) + 1 <= Len(rows)
                          THEN [rows EXCEPT ![Len(rows) + 1] = Content(v)]
                          ELSE Append(rows, Content(v))]
        BY <2>2, <3>1, <3>2 DEF Persist, Stored
      <4>3. ~(Len(rows) + 1 <= Len(rows))
        BY <4>1
      <4> QED
        BY <4>2, <4>3
    <3> QED
      BY <2>2, <3>1, <3>2, <3>3 DEF WithDraft, Persist
  <2>3. CASE \E w \in Publishers : Persist(w)
    <3>1. pc[v] = "persist" /\ results' = WithDraft(v) /\ Persist(v)
      BY <2>2, <2>3 DEF Alone
    <3>2. Advances(v) /\ ~PersistUnchanged(v)
      BY <1>3, <2>1, <3>1 DEF Moves, Forgets, Loads, Finds, Stumbles, Settles, Notes, Busy,
         Persist, PersistUnchanged
    <3> QED
      BY <3>1, <3>2 DEF Advances
  <2>4. CASE ~\E w \in Publishers : Persist(w)
    <3>1. results' = results
      BY <2>4, HistorySteps
    <3>2. CASE Loads(v)
      BY <3>1, <3>2 DEF Loads
    <3>3. CASE ~Loads(v)
      BY <1>3, <2>1, <2>4, <3>1, <3>3
         DEF Moves, Forgets, Finds, Stumbles, Settles, Notes, Advances, Busy, Fresh
    <3> QED
      BY <3>2, <3>3
  <2> QED
    BY <2>3, <2>4
<1> QED
  BY <1>1, <1>2, <1>3, PublisherMoves

(* What is stored alone passes the checks that were made of the draft.     *)
LEMMA ReadableNext ==
    Alone /\ IInv /\ Fresh /\ Readable(results) /\ [Next]_vars => Readable(results)'
<1> SUFFICES ASSUME Alone, IInv, Fresh, Readable(results), [Next]_vars
             PROVE  Readable(results')
  BY DEF Readable, Cumulative, RowSound, ApprovalsAgree, NumbersAgree, MappedItems, Authentic,
         Trusted
<1>1. CASE results' = results
  BY <1>1
<1>2. CASE results' # results
  <2>1. PICK u \in Publishers : Persist(u)
    BY <1>2, HistorySteps
  <2>2. history[u] = results
    BY <2>1 DEF Fresh, Persist, Busy
  <2>3. results' = WithDraft(u)
    BY <1>2, <2>1, <2>2, Appended DEF WithDraft
  <2> QED
    BY <2>1, <2>3 DEF Persist
<1> QED
  BY <1>1, <1>2

(* A new issue is created by a publisher for an item that it looked for    *)
(* and did not find.                                                       *)
LEMMA NewBorn ==
    ASSUME TypeOK, [Next]_vars, NEW n \in DOMAIN tracker', n \notin DOMAIN tracker
    PROVE  /\ n = Len(tracker) + 1
           /\ \E u \in Publishers :
                /\ pc[u] = "apply" /\ found[u][cursor[u]].number = 0
                /\ tracker'[n].born = Marker(u, cursor[u])
                /\ \/ pc'[u] \in {"idle", "transient"}
                   \/ pc'[u] = "persist" /\ job'[u] = job[u] /\ cursor'[u] = cursor[u]
<1>1. PICK u \in Publishers : Create(u) \/ CreateAnswerLost(u)
  <2>1. \/ UNCHANGED tracker \/ People
        \/ \E u \in Publishers : \/ Create(u) \/ CreateAnswerLost(u)
                                 \/ \E k \in Numbers : Updated(u, k)
    BY DEF Next, vars, Start, Publish, Load, LoadRefused, Find, FindRefused, Adopt,
       Update, Transient, PersistUnchanged, Persist, PersistRefused, TrackerFault,
       FindFails, CreateFails, UpdateFails, UpdateAnswerLost, Crash, Supersede
  <2> QED
    BY <2>1, PeopleType, UpdatedType
<1>2. Created(u)
  BY <1>1 DEF Create, CreateAnswerLost
<1>3. n = Len(tracker) + 1 /\ tracker'[n] = NewIssue(u)
  <2>1. n = Len(tracker) + 1
    BY <1>2, CreatedType DEF TypeOK
  <2> QED
    BY <1>2, <2>1, CreatedType
<1>4. pc[u] = "apply" /\ found[u][cursor[u]].number = 0
  BY <1>2 DEF Created, AtItem, Absent
<1>5. \/ pc'[u] \in {"idle", "transient"}
      \/ pc'[u] = "persist" /\ job'[u] = job[u] /\ cursor'[u] = cursor[u]
  BY <1>1 DEF Create, CreateAnswerLost, Settle, Fault, Throw, Reset, TypeOK
<1> QED
  BY <1>3, <1>4, <1>5 DEF NewIssue

LEMMA NothingMissedNext ==
    Alone /\ IInv /\ AtFirst /\ NothingMissed /\ [Next]_vars => NothingMissed'
<1> SUFFICES ASSUME Alone, IInv, AtFirst, NothingMissed, [Next]_vars,
                    NEW v \in Publishers, NEW i \in Items, Looked(v, i)',
                    found'[v][i].number = 0,
                    NEW n \in DOMAIN tracker', tracker'[n].born = <<job'[v].plan, i>>
             PROVE  tracker'[n].retagged
  BY DEF NothingMissed, Looked, Marker, Plan
<1>1. TypeOK /\ Grows /\ MarkersTrue
  BY TrackerGrows DEF IInv
<1>2. CASE n \notin DOMAIN tracker
  <2>1. /\ pc[v] = "apply"
        /\ tracker'[n].born = Marker(v, cursor[v])
        /\ \/ pc'[v] \in {"idle", "transient"}
           \/ pc'[v] = "persist" /\ job'[v] = job[v] /\ cursor'[v] = cursor[v]
    BY <1>1, <1>2, NewBorn DEF Alone
  <2>2. pc'[v] = "persist" /\ i > cursor'[v] /\ cursor'[v] = cursor[v]
    BY <2>1 DEF Looked
  <2>3. i = cursor[v]
    BY <2>1 DEF Marker
  <2> QED
    BY <1>1, <2>2, <2>3, Constants DEF TypeOK, Items
<1>3. CASE n \in DOMAIN tracker
  <2>1. tracker'[n].born = tracker[n].born /\ (tracker[n].retagged => tracker'[n].retagged)
    BY <1>1, <1>3, Zenon DEF Grows
  <2>2. ASSUME job'[v] = job[v], Looked(v, i), found[v][i].number = 0
        PROVE  tracker[n].retagged
    BY <1>3, <2>1, <2>2, Zenon DEF NothingMissed, Marker, Plan
  <2>3. CASE UNCHANGED local
    <3>1. job'[v] = job[v] /\ Looked(v, i) /\ found[v][i].number = 0
      BY <2>3 DEF local, Looked
    <3> QED
      BY <2>1, <2>2, <3>1, Zenon
  <2>4. ASSUME NEW u \in Publishers, OthersKept(u), Moves(u) PROVE tracker[n].retagged
    <3>1. u = v /\ cursor[v] \in Items /\ ItemCount \in Nat \ {0}
      BY <1>1, Constants DEF Alone, TypeOK
    <3>2. CASE Forgets(v)
      BY <3>2 DEF Forgets, Looked
    <3>3. CASE Loads(v)
      BY <3>3 DEF Loads, Looked, AtFirst, Items
    <3>4. CASE Finds(v) /\ i = cursor[v]
      <4>1. Matches(Marker(v, i)) = {} /\ job'[v] = job[v]
        BY <3>4 DEF Finds
      <4>2. tracker[n].marker # Marker(v, i)
        BY <1>3, <4>1 DEF Matches
      <4>3. tracker[n].born = Marker(v, i)
        BY <2>1, <4>1 DEF Marker, Plan
      <4> QED
        BY <1>1, <1>3, <4>2, <4>3, Zenon DEF MarkersTrue
    <3>5. CASE Finds(v) /\ i # cursor[v]
      <4>1. job'[v] = job[v] /\ found[v][i].number = 0
        BY <3>5 DEF Finds
      <4>2. Looked(v, i)
        BY <3>1, <3>5 DEF Finds, Looked, Items
      <4> QED
        BY <2>2, <4>1, <4>2, Zenon
    <3>6. CASE Stumbles(v) \/ Notes(v)
      BY <3>1, <3>6 DEF Stumbles, Notes, Looked, Items
    <3>7. CASE Settles(v) \/ Advances(v)
      <4>1. job'[v] = job[v] /\ found[v][i].number = 0
        BY <3>7 DEF Settles, Advances
      <4>2. Looked(v, i)
        BY <3>1, <3>7 DEF Settles, Advances, Looked, Items
      <4> QED
        BY <2>2, <4>1, <4>2, Zenon
    <3> QED
      BY <2>4, <3>1, <3>2, <3>3, <3>4, <3>5, <3>6, <3>7, Zenon DEF Moves
  <2> QED
    BY <1>1, <2>1, <2>3, <2>4, PublisherMoves, Zenon
<1> QED
  BY <1>2, <1>3

LEMMA AtMostOneNext ==
    Alone /\ IInv /\ NothingMissed /\ AtMostOneIssue /\ [Next]_vars => AtMostOneIssue'
<1> SUFFICES ASSUME Alone, IInv, NothingMissed, AtMostOneIssue, [Next]_vars,
                    NEW n1 \in DOMAIN tracker', NEW n2 \in DOMAIN tracker',
                    tracker'[n1].born = tracker'[n2].born, n1 < n2
             PROVE  tracker'[n1].retagged
  BY DEF AtMostOneIssue
<1>1. TypeOK /\ Grows
  BY TrackerGrows DEF IInv
<1>2. n1 \in DOMAIN tracker
  <2>1. n1 \notin DOMAIN tracker => n1 = Len(tracker) + 1
    BY <1>1, NewBorn
  <2>2. n2 \in DOMAIN tracker \/ n2 = Len(tracker) + 1
    BY <1>1, NewBorn
  <2> QED
    BY <1>1, <2>1, <2>2 DEF TypeOK
<1>3. tracker'[n1].born = tracker[n1].born /\ (tracker[n1].retagged => tracker'[n1].retagged)
  BY <1>1, <1>2, Zenon DEF Grows
<1>4. CASE n2 \in DOMAIN tracker
  <2>1. tracker'[n2].born = tracker[n2].born
    BY <1>1, <1>4, Zenon DEF Grows
  <2> QED
    BY <1>2, <1>3, <1>4, <2>1, Zenon DEF AtMostOneIssue
<1>5. CASE n2 \notin DOMAIN tracker
  <2>1. PICK u \in Publishers :
          /\ pc[u] = "apply" /\ found[u][cursor[u]].number = 0
          /\ tracker'[n2].born = Marker(u, cursor[u])
    BY <1>1, <1>5, NewBorn
  <2>2. cursor[u] \in Items /\ Looked(u, cursor[u])
    BY <1>1, <2>1, Constants DEF TypeOK, Looked, Items
  <2>3. tracker[n1].retagged
    BY <1>2, <1>3, <2>1, <2>2, Zenon DEF NothingMissed
  <2> QED
    BY <1>3, <2>3, Zenon
<1> QED
  BY <1>4, <1>5

-----------------------------------------------------------------------------
(* The inductive invariants: of any publishers, and of one that is alone.  *)
KInv == IInv /\ AtFirst /\ OneAhead /\ NoRetag /\ RowsSound

AInv == KInv /\ Fresh /\ NothingMissed /\ AtMostOneIssue /\ Readable(results)

LEMMA KnownInit == Init => KInv
<1> SUFFICES ASSUME Init PROVE KInv
  OBVIOUS
<1>1. AtFirst /\ OneAhead
  BY DEF Init, AtFirst, OneAhead, OneAheadOf, Busy
<1>2. NoRetag
  BY DEF Init, NoRetag, Untouched
<1>3. RowsSound
  BY DEF Init, Nothing, RowsSound, Cumulative
<1> QED
  BY <1>1, <1>2, <1>3, InvInit DEF KInv

LEMMA KnownNext == KInv /\ [Next]_vars => KInv'
BY InvNext, AtFirstNext, OneAheadNext, NoRetagNext, RowsSoundNext DEF KInv, IInv

LEMMA AloneInit == Init => AInv
<1> SUFFICES ASSUME Init PROVE AInv
  OBVIOUS
<1>1. Fresh /\ NothingMissed
  BY DEF Init, Fresh, Busy, NothingMissed, Looked
<1>2. AtMostOneIssue /\ Readable(results)
  BY DEF Init, Nothing, AtMostOneIssue, Readable, Cumulative
<1> QED
  BY <1>1, <1>2, KnownInit DEF AInv

LEMMA AloneNext == Alone /\ AInv /\ [Next]_vars => AInv'
BY KnownNext, FreshNext, NothingMissedNext, AtMostOneNext, ReadableNext DEF AInv, KInv

LEMMA StatusesCurrent == IInv => \A p \in Plans : Current(results, p)
<1> SUFFICES ASSUME IInv, NEW p \in Plans, NEW k \in DOMAIN results[p]
             PROVE  StatusTrue(results[p][k])
  BY DEF Current
<1>1. k \in 1 .. Len(results[p])
  BY DEF IInv, TypeOK
<1> QED
  BY <1>1 DEF IInv, StatusesTrue

(* A publisher that runs alone creates no second issue for a marker while  *)
(* the first one carries it, wherever it is killed and whatever calls of   *)
(* the tracker fail: its preflight has missed no issue of an item that it  *)
(* creates, and its history is the store's.                                *)
THEOREM NoDuplicateAlone == ASSUME Alone PROVE Spec => []AtMostOneIssue
<1>1. AInv => AtMostOneIssue
  BY DEF AInv
<1>2. AInv /\ [Next]_vars => AInv'
  BY AloneNext
<1> QED
  BY <1>1, <1>2, AloneInit, PTL DEF Spec

(* What a publisher that runs alone appends never locks publish out,       *)
(* whatever approvals are signed and whatever people edit.                 *)
THEOREM ReadableAlone == ASSUME Alone PROVE Spec => []HistoryReadable
<1>1. AInv => HistoryReadable
  BY StatusesCurrent DEF AInv, KInv, HistoryReadable
<1>2. AInv /\ [Next]_vars => AInv'
  BY AloneNext
<1> QED
  BY <1>1, <1>2, AloneInit, PTL DEF Spec

(* An approval record is signed once.                                      *)
DistinctRecords == \A a, b \in Approvals : a.id = b.id => a = b

LEMMA ReadableUntouched ==
    DistinctRecords /\ KInv /\ Untouched => Readable(results)
<1> SUFFICES ASSUME DistinctRecords, KInv, Untouched PROVE Readable(results)
  OBVIOUS
<1>1. NumbersDiffer
  BY OwnersDiffer DEF KInv
<1>2. \A p, q \in Plans : \A k \in DOMAIN results[p], l \in DOMAIN results[q] :
        ApprovalsAgree(results[p][k], results[q][l])
  <2> SUFFICES ASSUME NEW p \in Plans, NEW q \in Plans,
                      NEW k \in DOMAIN results[p], NEW l \in DOMAIN results[q]
               PROVE  ApprovalsAgree(results[p][k], results[q][l])
    OBVIOUS
  <2>1. results[p][k] \in Result /\ results[q][l] \in Result
    BY DEF KInv, IInv, TypeOK
  <2>2. results[p][k].approval \in Approvals /\ results[q][l].approval \in Approvals
    BY <2>1 DEF Result
  <2> QED
    BY <2>2 DEF ApprovalsAgree, DistinctRecords
<1> QED
  BY <1>1, <1>2 DEF Readable, NumbersDiffer, KInv, RowsSound

(* Publishers that run beside each other append nothing that locks publish *)
(* out either, as long as nobody has changed a marker and every approval   *)
(* record is a record of its own.                                          *)
THEOREM ReadableTogether ==
    ASSUME DistinctRecords
    PROVE  Spec => [](Untouched => HistoryReadable)
<1>1. KInv => (Untouched => HistoryReadable)
  BY ReadableUntouched, StatusesCurrent DEF KInv, HistoryReadable
<1> QED
  BY <1>1, KnownInit, KnownNext, PTL DEF Spec

-----------------------------------------------------------------------------
(* The registry that the results refine.                                   *)
Recording(p, i) == LatestMappings(results[p])[i]

RegistryNumber == [m \in Markers |-> LatestMappings(results[m[1]])[m[2]]]

LEMMA RecordingRow ==
    ASSUME TypeOK, NEW p \in Plans, NEW i \in Items
    PROVE  /\ Recording(p, i) \in Numbers \union {0}
           /\ Recording(p, i) # 0 => \E k \in DOMAIN results[p] :
                Recording(p, i) = results[p][k].mappings[i]
<1>1. results[p] \in Seq(Result)
  BY DEF TypeOK
<1>2. CASE results[p] = <<>>
  BY <1>2 DEF Recording, LatestMappings, Unmapped
<1>3. CASE results[p] # <<>>
  <2>1. Len(results[p]) \in DOMAIN results[p] /\ results[p][Len(results[p])] \in Result
    BY <1>1, <1>3
  <2>2. Recording(p, i) = results[p][Len(results[p])].mappings[i]
    BY <1>3 DEF Recording, LatestMappings
  <2>3. results[p][Len(results[p])].mappings \in Mappings
    BY <2>1 DEF Result
  <2> QED
    BY <2>1, <2>2, <2>3 DEF Mappings
<1> QED
  BY <1>2, <1>3

(* Where the numbers of all rows differ, so do those of the last rows.     *)
DifferentNumbers ==
    \A p, q \in Plans, i, j \in Items :
        Recording(p, i) # 0 /\ Recording(p, i) = Recording(q, j) => p = q /\ i = j

LEMMA LastDiffer == TypeOK /\ NumbersDiffer => DifferentNumbers
<1> SUFFICES ASSUME TypeOK, NumbersDiffer, NEW p \in Plans, NEW q \in Plans,
                    NEW i \in Items, NEW j \in Items,
                    Recording(p, i) # 0, Recording(p, i) = Recording(q, j)
             PROVE  p = q /\ i = j
  BY DEF DifferentNumbers
<1>1. PICK k \in DOMAIN results[p] : Recording(p, i) = results[p][k].mappings[i]
  BY RecordingRow
<1>2. PICK l \in DOMAIN results[q] : Recording(q, j) = results[q][l].mappings[j]
  BY RecordingRow
<1>3. NumbersAgree(p, results[p][k], q, results[q][l])
  BY DEF NumbersDiffer
<1> QED
  BY <1>1, <1>2, <1>3 DEF NumbersAgree, MappedItems

(* Persist changes the recording of one item at most, which had none.      *)
LEMMA RecordsOne ==
    ASSUME KInv, NEW u \in Publishers, Persist(u), results' # results,
           NEW p \in Plans, NEW i \in Items, Recording(p, i)' # Recording(p, i)
    PROVE  p = Plan(u) /\ i = cursor[u] /\ Recording(p, i) = 0
<1>1. TypeOK /\ OneAheadOf(u)
  BY DEF KInv, IInv, OneAhead
<1>2. /\ history[u][Plan(u)] = results[Plan(u)]
      /\ results'[Plan(u)] = WithDraft(u)[Plan(u)]
      /\ \A q \in Plans : q # Plan(u) => results'[q] = results[q]
  BY Appended DEF KInv
<1>3. p = Plan(u)
  BY <1>2 DEF Recording, LatestMappings, Unmapped
<1>4. /\ results'[p] = Append(results[p], Content(u))
      /\ results[p] \in Seq(Result) /\ Content(u) \in Result
  BY <1>1, <1>2, <1>3, DraftType, ContentType DEF TypeOK
<1>5. results'[p] # <<>> /\ results'[p][Len(results'[p])] = Content(u)
  BY <1>4
<1>6. Recording(p, i)' = mappings[u][i]
  BY <1>5 DEF Recording, LatestMappings, Content
<1>7. Recording(p, i) = Recorded(u, i)
  BY <1>2, <1>3 DEF Recording, Recorded
<1>8. pc[u] \in Busy
  BY DEF Persist, Busy
<1> QED
  BY <1>1, <1>3, <1>6, <1>7, <1>8 DEF OneAheadOf

LEMMA RecordStep ==
    ASSUME KInv, TypeOK', DifferentNumbers', [Next]_vars
    PROVE  [Numbering!Next]_RegistryNumber
<1>1. \A m \in Markers : m[1] \in Plans /\ m[2] \in Items /\ m = <<m[1], m[2]>>
  BY DEF Markers
<1>2. /\ RegistryNumber = [m \in Markers |-> Recording(m[1], m[2])]
      /\ RegistryNumber' = [m \in Markers |-> Recording(m[1], m[2])']
  BY DEF RegistryNumber, Recording
<1>3. CASE \A m \in Markers : Recording(m[1], m[2])' = Recording(m[1], m[2])
  BY <1>2, <1>3
<1>4. ASSUME NEW m \in Markers, Recording(m[1], m[2])' # Recording(m[1], m[2])
      PROVE  Numbering!Next
  <2>1. results' # results
    BY <1>4 DEF Recording, LatestMappings, Unmapped
  <2>2. PICK u \in Publishers : Persist(u)
    BY <2>1, HistorySteps
  <2>3. ASSUME NEW o \in Markers, Recording(o[1], o[2])' # Recording(o[1], o[2])
        PROVE  o = <<Plan(u), cursor[u]>> /\ Recording(o[1], o[2]) = 0
    <3>1. o[1] \in Plans /\ o[2] \in Items /\ o = <<o[1], o[2]>>
      BY <1>1
    <3> QED
      BY <2>1, <2>2, <2>3, <3>1, RecordsOne
  <2>4. m = <<Plan(u), cursor[u]>> /\ Recording(m[1], m[2]) = 0
    BY <1>4, <2>3
  <2> DEFINE n == Recording(m[1], m[2])'
  <2>5. n \in Numbers
    <3>1. n \in Numbers \union {0}
      <4>1. m[1] \in Plans /\ m[2] \in Items
        BY <1>1
      <4>2. results'[m[1]] \in Seq(Result)
        BY <4>1 DEF TypeOK
      <4>3. CASE results'[m[1]] = <<>>
        BY <4>1, <4>3 DEF Recording, LatestMappings, Unmapped
      <4>4. CASE results'[m[1]] # <<>>
        <5>1. results'[m[1]][Len(results'[m[1]])] \in Result
          BY <4>2, <4>4
        <5>2. results'[m[1]][Len(results'[m[1]])].mappings \in Mappings
          BY <5>1 DEF Result
        <5>3. n = results'[m[1]][Len(results'[m[1]])].mappings[m[2]]
          BY <4>4 DEF Recording, LatestMappings
        <5> QED
          BY <4>1, <5>2, <5>3 DEF Mappings
      <4> QED
        BY <4>3, <4>4
    <3> QED
      BY <1>4, <2>4, <3>1
  <2>6. \A o \in Markers : o # m => Recording(o[1], o[2])' = Recording(o[1], o[2])
    BY <2>3, <2>4
  <2>7. \A o \in Markers : RegistryNumber[o] # n
    <3> SUFFICES ASSUME NEW o \in Markers, Recording(o[1], o[2]) = n PROVE FALSE
      BY <1>2
    <3>1. o # m
      BY <1>4
    <3>2. Recording(o[1], o[2])' = n
      BY <2>6, <3>1
    <3>3. n # 0
      BY <2>5 DEF Numbers
    <3>4. m[1] = o[1] /\ m[2] = o[2]
      BY <1>1, <3>2, <3>3 DEF DifferentNumbers
    <3> QED
      BY <1>1, <3>1, <3>4
  <2>8. RegistryNumber' = [RegistryNumber EXCEPT ![m] = n]
    BY <1>2, <2>6
  <2>9. RegistryNumber[m] = 0
    BY <1>2, <2>4
  <2> HIDE DEF n
  <2> QED
    BY <2>5, <2>7, <2>8, <2>9
       DEF Numbering!Next, Numbering!Record, Numbering!Numbers, Numbers, RegistryNumber
<1> QED
  BY <1>3, <1>4

(* The results refine a registry that gives an item an issue number once   *)
(* and no number to two items, for a publisher that runs alone and for any *)
(* number of them where nobody edits an issue.                             *)
THEOREM RegistryImplemented == ASSUME Alone \/ MaxEdits = 0 PROVE Spec => WrittenOnce
<1>1. Init => RegistryNumber = [m \in Markers |-> 0]
  BY DEF Init, Nothing, RegistryNumber, LatestMappings, Unmapped, Markers
<1>2. Spec => [](KInv /\ NumbersDiffer)
  <2>1. CASE Alone
    <3>1. AInv => KInv /\ NumbersDiffer
      BY DEF AInv, Readable, NumbersDiffer
    <3>2. AInv /\ [Next]_vars => AInv'
      BY <2>1, AloneNext
    <3> QED
      BY <3>1, <3>2, AloneInit, PTL DEF Spec
  <2>2. CASE MaxEdits = 0
    <3>1. KInv => NumbersDiffer
      <4>1. KInv => edits = 0
        BY <2>2 DEF KInv, IInv, TypeOK
      <4> QED
        BY <4>1, OwnersDiffer DEF KInv, NoRetag
    <3> QED
      BY <3>1, KnownInit, KnownNext, PTL DEF Spec
  <2> QED
    BY <2>1, <2>2
<1>3. KInv /\ NumbersDiffer => TypeOK /\ DifferentNumbers
  BY LastDiffer DEF KInv, IInv
<1>4. KInv /\ TypeOK' /\ DifferentNumbers' /\ [Next]_vars => [Numbering!Next]_RegistryNumber
  BY RecordStep
<1>5. Spec => RegistryNumber = [m \in Markers |-> 0] /\ [][Numbering!Next]_RegistryNumber
  BY <1>1, <1>2, <1>3, <1>4, PTL DEF Spec
<1> QED
  BY <1>5, PTL DEF WrittenOnce, Numbering!Spec, Numbering!Init, RegistryNumber
=============================================================================
