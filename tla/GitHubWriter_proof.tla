------------------------- MODULE GitHubWriter_proof -------------------------
(***************************************************************************)
(* Proofs about GitHubWriter, for any number of publishers, plans, items   *)
(* and failures: its type invariant, the ownership of recorded numbers     *)
(* and the stability of a completed publication.                           *)
(***************************************************************************)
EXTENDS GitHubWriter, TLAPS

(* The bounds and counts are natural numbers, an approval exists.          *)
LEMMA Constants ==
    /\ PlanCount \in Nat \ {0} /\ ItemCount \in Nat \ {0}
    /\ MaxIssues \in Nat /\ MaxRevision \in Nat
    /\ MaxFaults \in Nat /\ MaxEdits \in Nat
    /\ 1 \in Plans /\ 1 \in Items
    /\ AnyApproval \in Approvals
    /\ \A a \in Approvals : a.plan \in Plans
BY CountAssumption, IssueAssumption, BoundAssumption, ApprovalAssumption
   DEF Plans, Items, AnyApproval

(* What a reset leaves has its type.                                       *)
LEMMA ResetType ==
    ASSUME TypeOK, NEW u \in Publishers, Reset(u)
    PROVE  /\ pc' \in [Publishers -> Phases]
           /\ job' \in [Publishers -> Approvals]
           /\ history' \in [Publishers -> [Plans -> Seq(Result)]]
           /\ mappings' \in [Publishers -> Mappings]
           /\ found' \in [Publishers -> [Items -> Remote]]
           /\ cursor' \in [Publishers -> Items]
           /\ failed' \in [Publishers -> Items \union {0}]
<1>1. Nothing \in [Plans -> Seq(Result)]
  BY DEF Nothing
<1>2. Unmapped \in Mappings /\ [i \in Items |-> Absent] \in [Items -> Remote]
  BY DEF Unmapped, Mappings, Absent, Remote
<1>3. "idle" \in Phases
  BY DEF Phases
<1> QED
  BY <1>1, <1>2, <1>3, Constants DEF TypeOK, Reset

(* The local state of the publishers, as a part of TypeOK.                 *)
LocalType ==
    /\ pc \in [Publishers -> Phases]
    /\ job \in [Publishers -> Approvals]
    /\ history \in [Publishers -> [Plans -> Seq(Result)]]
    /\ mappings \in [Publishers -> Mappings]
    /\ found \in [Publishers -> [Items -> Remote]]
    /\ cursor \in [Publishers -> Items]
    /\ failed \in [Publishers -> Items \union {0}]

LEMMA ContentType ==
    ASSUME TypeOK, NEW u \in Publishers
    PROVE  Content(u) \in Result
<1>1. job[u] \in Approvals /\ mappings[u] \in Mappings /\ failed[u] \in Items \union {0}
  BY DEF TypeOK
<1> QED
  BY <1>1 DEF Content, Result

(* The draft of a publisher extends the history of its plan.               *)
LEMMA DraftType ==
    ASSUME TypeOK, NEW u \in Publishers
    PROVE  /\ Plan(u) \in Plans
           /\ WithDraft(u) \in [Plans -> Seq(Result)]
           /\ WithDraft(u)[Plan(u)] = Append(history[u][Plan(u)], Content(u))
           /\ \A p \in Plans : p # Plan(u) => WithDraft(u)[p] = history[u][p]
<1>1. Plan(u) \in Plans
  BY Constants DEF TypeOK, Plan
<1>2. history[u] \in [Plans -> Seq(Result)]
  BY DEF TypeOK
<1>3. Append(history[u][Plan(u)], Content(u)) \in Seq(Result)
  BY <1>1, <1>2, ContentType
<1> QED
  BY <1>1, <1>2, <1>3 DEF WithDraft

(* A transient failure keeps the types of the local state.                 *)
LEMMA FaultType ==
    ASSUME TypeOK, NEW u \in Publishers, Fault(u)
    PROVE  LocalType' /\ faults' \in 0 .. MaxFaults
<1>1. LocalType'
  <2>1. CASE Throw(u)
    BY <2>1, ResetType DEF Throw, LocalType
  <2>2. CASE pc' = [pc EXCEPT ![u] = "transient"]
             /\ UNCHANGED <<job, history, mappings, found, cursor, failed>>
    BY <2>2 DEF TypeOK, LocalType, Phases
  <2> QED
    BY <2>1, <2>2 DEF Fault
<1> QED
  BY <1>1, Constants DEF Fault, TypeOK

(* So does the settlement of an item with an issue number.                 *)
LEMMA SettleType ==
    ASSUME TypeOK, NEW u \in Publishers, NEW n \in Numbers, Settle(u, n)
    PROVE  LocalType'
<1>1. CASE Throw(u)
  BY <1>1, ResetType DEF Throw, LocalType
<1>2. CASE /\ mappings' = [mappings EXCEPT ![u][cursor[u]] = n]
           /\ pc' = [pc EXCEPT ![u] = "persist"]
           /\ UNCHANGED <<job, history, found, cursor, failed>>
  BY <1>2 DEF TypeOK, LocalType, Phases, Mappings
<1> QED
  BY <1>1, <1>2 DEF Settle

(* And the step to the next item, with rows as the known history.          *)
LEMMA ContinueType ==
    ASSUME TypeOK, NEW u \in Publishers, NEW rows \in [Plans -> Seq(Result)],
           Continue(u, rows)
    PROVE  LocalType'
<1>1. CASE Return(u)
  BY <1>1, ResetType DEF Return, LocalType
<1>2. CASE /\ cursor[u] # ItemCount
           /\ history' = [history EXCEPT ![u] = rows]
           /\ cursor' = [cursor EXCEPT ![u] = @ + 1]
           /\ pc' = [pc EXCEPT ![u] = "apply"]
           /\ UNCHANGED <<job, mappings, found, failed>>
  <2>1. cursor[u] + 1 \in Items
    BY <1>2, Constants DEF TypeOK, Items
  <2> QED
    BY <1>2, <2>1 DEF TypeOK, LocalType, Phases
<1> QED
  BY <1>1, <1>2 DEF Continue

(* The number that a new issue gets is within the bound.                   *)
LEMMA CreatedType ==
    ASSUME TypeOK, NEW u \in Publishers, Created(u)
    PROVE  /\ tracker' \in Seq(Issue) /\ Len(tracker') <= MaxIssues
           /\ Len(tracker) + 1 \in Numbers
           /\ Len(tracker') = Len(tracker) + 1
           /\ tracker'[Len(tracker) + 1] = NewIssue(u)
           /\ \A n \in DOMAIN tracker : n \in DOMAIN tracker' /\ tracker'[n] = tracker[n]
<1>1. NewIssue(u) \in Issue
  <2>1. job[u] \in Approvals /\ cursor[u] \in Items
    BY DEF TypeOK
  <2>2. Marker(u, cursor[u]) \in Markers
    BY <2>1, Constants DEF Marker, Plan, Markers
  <2> QED
    BY <2>2 DEF NewIssue, Issue
<1>2. tracker \in Seq(Issue) /\ Len(tracker) < MaxIssues /\ Len(tracker) \in Nat
  BY DEF TypeOK, Created
<1> QED
  BY <1>1, <1>2, Constants DEF Created, Numbers

(* A function on an initial interval is a sequence of that length.         *)
LEMMA FunctionIsSeq ==
    ASSUME NEW S, NEW k \in Nat, NEW f \in [1 .. k -> S]
    PROVE  f \in Seq(S) /\ Len(f) = k
OBVIOUS

(* A field of an issue is replaced by a value of its type.                 *)
LEMMA IssueFields ==
    ASSUME NEW r \in Issue, NEW mk \in Markers \union {NoMarker}, NEW tx \in {"planned", "edited"}
    PROVE  /\ [r EXCEPT !.text = tx, !.marker = mk] \in Issue
           /\ [r EXCEPT !.text = tx, !.marker = mk].born = r.born
           /\ [r EXCEPT !.text = tx, !.marker = mk].retagged = r.retagged
           /\ [r EXCEPT !.text = tx, !.marker = mk].marker = mk
           /\ [r EXCEPT !.text = tx].born = r.born
           /\ [r EXCEPT !.text = tx].retagged = r.retagged
           /\ [r EXCEPT !.text = tx].marker = r.marker
           /\ [r EXCEPT !.text = tx] \in Issue
           /\ [r EXCEPT !.text = tx, !.marker = mk, !.retagged = TRUE] \in Issue
           /\ [r EXCEPT !.text = tx, !.marker = mk, !.retagged = TRUE].born = r.born
           /\ [r EXCEPT !.text = tx, !.marker = mk, !.retagged = TRUE].retagged = TRUE
<1> DEFINE r1 == [r EXCEPT !.text = tx]
<1> DEFINE r2 == [r1 EXCEPT !.marker = mk]
<1> DEFINE r3 == [r2 EXCEPT !.retagged = TRUE]
<1>1. r1 \in Issue /\ r1.born = r.born /\ r1.retagged = r.retagged /\ r1.marker = r.marker
  BY DEF Issue
<1> HIDE DEF r1
<1>2. r2 \in Issue /\ r2.born = r1.born /\ r2.retagged = r1.retagged /\ r2.marker = mk
  BY <1>1 DEF Issue
<1> HIDE DEF r2
<1>3. r3 \in Issue /\ r3.born = r2.born /\ r3.retagged = TRUE
  BY <1>2 DEF Issue
<1>4. /\ [r EXCEPT !.text = tx, !.marker = mk] = r2
      /\ [r EXCEPT !.text = tx, !.marker = mk, !.retagged = TRUE] = r3
  BY DEF r1, r2, r3
<1> QED
  BY <1>1, <1>2, <1>3, <1>4 DEF r1

(* An update changes the text and restores the marker of one issue.        *)
LEMMA UpdatedType ==
    ASSUME TypeOK, NEW u \in Publishers, NEW n \in Numbers, Updated(u, n)
    PROVE  /\ tracker' \in Seq(Issue) /\ Len(tracker') = Len(tracker)
           /\ DOMAIN tracker' = DOMAIN tracker
           /\ \A m \in DOMAIN tracker :
                /\ tracker'[m].born = tracker[m].born
                /\ tracker'[m].retagged = tracker[m].retagged
                /\ m # n => tracker'[m] = tracker[m]
                /\ m = n => tracker'[m].marker = Marker(u, cursor[u])
<1>1. job[u] \in Approvals /\ cursor[u] \in Items
  BY DEF TypeOK
<1> DEFINE mk == Marker(u, cursor[u])
<1>2. mk \in Markers
  BY <1>1, Constants DEF Marker, Plan, Markers
<1>3. tracker' = [tracker EXCEPT ![n] = [@ EXCEPT !.text = "planned", !.marker = mk]]
  BY DEF Updated
<1>4. tracker \in Seq(Issue)
  BY DEF TypeOK
<1> HIDE DEF mk
<1>5. \A m \in DOMAIN tracker : tracker[m] \in Issue
  BY <1>4
<1>6. /\ DOMAIN tracker' = DOMAIN tracker
      /\ \A m \in DOMAIN tracker :
           tracker'[m] = IF m = n
                         THEN [tracker[m] EXCEPT !.text = "planned", !.marker = mk]
                         ELSE tracker[m]
  BY <1>3, <1>4
<1>7. \A m \in DOMAIN tracker :
        /\ tracker'[m] \in Issue
        /\ tracker'[m].born = tracker[m].born
        /\ tracker'[m].retagged = tracker[m].retagged
        /\ m = n => tracker'[m].marker = mk
  <2> TAKE m \in DOMAIN tracker
  <2> DEFINE r == tracker[m]
  <2>1. r \in Issue /\ mk \in Markers \union {NoMarker} /\ "planned" \in {"planned", "edited"}
    BY <1>2, <1>5
  <2> HIDE DEF r
  <2>2. /\ [r EXCEPT !.text = "planned", !.marker = mk] \in Issue
        /\ [r EXCEPT !.text = "planned", !.marker = mk].born = r.born
        /\ [r EXCEPT !.text = "planned", !.marker = mk].retagged = r.retagged
        /\ [r EXCEPT !.text = "planned", !.marker = mk].marker = mk
    BY <2>1, IssueFields, Zenon
  <2> QED
    BY <1>6, <2>1, <2>2 DEF r
<1>8. tracker' \in Seq(Issue) /\ Len(tracker') = Len(tracker)
  <2>1. DOMAIN tracker = 1 .. Len(tracker) /\ Len(tracker) \in Nat
    BY <1>4
  <2>2. tracker' = [m \in 1 .. Len(tracker) |-> tracker'[m]]
    BY <1>3, <1>6, <2>1
  <2>3. tracker' \in [1 .. Len(tracker) -> Issue]
    BY <1>7, <2>1, <2>2
  <2> QED
    BY <2>1, <2>3, FunctionIsSeq
<1> QED
  BY <1>4, <1>6, <1>7, <1>8 DEF mk

-----------------------------------------------------------------------------
(* One issue of the tracker is replaced by one with the same birth.        *)
LEMMA Replaced ==
    ASSUME TypeOK, NEW n \in DOMAIN tracker, NEW e \in Issue,
           tracker' = [tracker EXCEPT ![n] = e],
           e.born = tracker[n].born,
           e.retagged \/ e = [tracker[n] EXCEPT !.text = "edited"]
    PROVE  /\ tracker' \in Seq(Issue) /\ Len(tracker') = Len(tracker)
           /\ DOMAIN tracker' = DOMAIN tracker
           /\ \A m \in DOMAIN tracker :
                /\ tracker'[m].born = tracker[m].born
                /\ \/ tracker'[m].retagged
                   \/ /\ tracker'[m].marker = tracker[m].marker
                      /\ tracker'[m].retagged = tracker[m].retagged
<1>1. tracker \in Seq(Issue) /\ tracker[n] \in Issue
  BY DEF TypeOK
<1>2. /\ DOMAIN tracker' = DOMAIN tracker
      /\ \A m \in DOMAIN tracker : tracker'[m] = IF m = n THEN e ELSE tracker[m]
  BY <1>1
<1>3. tracker' \in Seq(Issue) /\ Len(tracker') = Len(tracker)
  <2>1. DOMAIN tracker = 1 .. Len(tracker) /\ Len(tracker) \in Nat
    BY <1>1
  <2>2. tracker' \in [1 .. Len(tracker) -> Issue]
    BY <1>1, <2>1
  <2> QED
    BY <2>1, <2>2, FunctionIsSeq
<1>4. e.retagged \/ (e.marker = tracker[n].marker /\ e.retagged = tracker[n].retagged)
  <2> DEFINE r == tracker[n]
  <2>1. r \in Issue /\ "edited" \in {"planned", "edited"} /\ NoMarker \in Markers \union {NoMarker}
    BY <1>1
  <2> HIDE DEF r
  <2>2. /\ [r EXCEPT !.text = "edited"].retagged = r.retagged
        /\ [r EXCEPT !.text = "edited"].marker = r.marker
    BY <2>1, IssueFields, Zenon
  <2>3. e.retagged \/ e = [r EXCEPT !.text = "edited"]
    BY DEF r
  <2>4. e.retagged \/ (e.marker = r.marker /\ e.retagged = r.retagged)
    BY <2>2, <2>3, Zenon
  <2> QED
    BY <2>4 DEF r
<1>5. ASSUME NEW m \in DOMAIN tracker
      PROVE  /\ tracker'[m].born = tracker[m].born
             /\ \/ tracker'[m].retagged
                \/ /\ tracker'[m].marker = tracker[m].marker
                   /\ tracker'[m].retagged = tracker[m].retagged
  <2>1. CASE m = n
    <3>1. tracker'[m] = e
      BY <1>2, <2>1
    <3> QED
      BY <1>4, <2>1, <3>1, Zenon
  <2>2. CASE m # n
    <3>1. tracker'[m] = tracker[m]
      BY <1>2, <2>2
    <3> QED
      BY <3>1, Zenon
  <2> QED
    BY <2>1, <2>2
<1> QED
  BY <1>2, <1>3, <1>5

(* What is known of a person's edit: one issue, whose birth stays.         *)
LEMMA PeopleType ==
    ASSUME TypeOK, People
    PROVE  /\ tracker' \in Seq(Issue) /\ Len(tracker') = Len(tracker)
           /\ DOMAIN tracker' = DOMAIN tracker
           /\ \A m \in DOMAIN tracker :
                /\ tracker'[m].born = tracker[m].born
                /\ \/ tracker'[m].retagged
                   \/ /\ tracker'[m].marker = tracker[m].marker
                      /\ tracker'[m].retagged = tracker[m].retagged
           /\ edits' \in 0 .. MaxEdits
           /\ UNCHANGED <<current, results, local, faults>>
<1>1. PICK n \in DOMAIN tracker :
        Edit(n) \/ \E m \in Markers \union {NoMarker} : Retag(n, m)
  BY DEF People
<1>2. tracker[n] \in Issue
  BY <1>1 DEF TypeOK
<1>3. /\ edits' \in 0 .. MaxEdits
      /\ UNCHANGED <<current, results, local, faults>>
  <2>1. edits < MaxEdits /\ edits' = edits + 1
    BY <1>1 DEF Edit, Retag
  <2>2. UNCHANGED <<current, results, local, faults>>
    BY <1>1 DEF Edit, Retag
  <2> QED
    BY <2>1, <2>2, Constants DEF TypeOK
<1>4. ASSUME Edit(n)
      PROVE  \E e \in Issue :
               /\ tracker' = [tracker EXCEPT ![n] = e]
               /\ e.born = tracker[n].born
               /\ e = [tracker[n] EXCEPT !.text = "edited"]
  <2> DEFINE r == tracker[n]
  <2>1. r \in Issue /\ "edited" \in {"planned", "edited"} /\ NoMarker \in Markers \union {NoMarker}
    BY <1>2
  <2>2. tracker' = [tracker EXCEPT ![n] = [r EXCEPT !.text = "edited"]]
    BY <1>4 DEF Edit
  <2> HIDE DEF r
  <2>3. /\ [r EXCEPT !.text = "edited"] \in Issue
        /\ [r EXCEPT !.text = "edited"].born = r.born
    BY <2>1, IssueFields, Zenon
  <2>4. \E e \in Issue : /\ tracker' = [tracker EXCEPT ![n] = e]
                        /\ e.born = r.born
                        /\ e = [r EXCEPT !.text = "edited"]
    BY <2>2, <2>3, Zenon
  <2> QED
    BY <2>4 DEF r
<1>5. ASSUME NEW m \in Markers \union {NoMarker}, Retag(n, m)
      PROVE  \E e \in Issue :
               /\ tracker' = [tracker EXCEPT ![n] = e]
               /\ e.born = tracker[n].born
               /\ e.retagged
  <2> DEFINE r == tracker[n]
  <2>1. r \in Issue /\ "edited" \in {"planned", "edited"}
    BY <1>2
  <2>2. tracker' = [tracker EXCEPT ![n] =
                     [r EXCEPT !.text = "edited", !.marker = m, !.retagged = TRUE]]
    BY <1>5 DEF Retag
  <2> HIDE DEF r
  <2>3. /\ [r EXCEPT !.text = "edited", !.marker = m, !.retagged = TRUE] \in Issue
        /\ [r EXCEPT !.text = "edited", !.marker = m, !.retagged = TRUE].born = r.born
        /\ [r EXCEPT !.text = "edited", !.marker = m, !.retagged = TRUE].retagged = TRUE
    BY <2>1, IssueFields, Zenon
  <2>4. \E e \in Issue : /\ tracker' = [tracker EXCEPT ![n] = e]
                        /\ e.born = r.born
                        /\ e.retagged
    BY <2>2, <2>3, Zenon
  <2> QED
    BY <2>4 DEF r
<1>6. \E e \in Issue :
        /\ tracker' = [tracker EXCEPT ![n] = e]
        /\ e.born = tracker[n].born
        /\ e.retagged \/ e = [tracker[n] EXCEPT !.text = "edited"]
  BY <1>1, <1>4, <1>5, Zenon
<1> QED
  BY <1>3, <1>6, Replaced

(* The type invariant holds at first and is kept by every step.            *)
LEMMA TypeInit == Init => TypeOK
<1> SUFFICES ASSUME Init PROVE TypeOK
  OBVIOUS
<1>1. Nothing \in [Plans -> Seq(Result)]
  BY DEF Nothing
<1>2. Unmapped \in Mappings /\ [i \in Items |-> Absent] \in [Items -> Remote]
  BY DEF Unmapped, Mappings, Absent, Remote
<1>3. "idle" \in Phases
  BY DEF Phases
<1>4. tracker \in Seq(Issue) /\ Len(tracker) <= MaxIssues
  BY Constants DEF Init
<1> QED
  BY <1>1, <1>2, <1>3, <1>4, Constants DEF Init, TypeOK

LEMMA TypeNext == TypeOK /\ [Next]_vars => TypeOK'
<1> SUFFICES ASSUME TypeOK, [Next]_vars PROVE TypeOK'
  OBVIOUS
<1>1. ASSUME NEW u \in Publishers, NEW a \in Approvals, Start(u, a)
      PROVE  TypeOK'
  BY <1>1 DEF Start, TypeOK, Phases, counters
<1>2. ASSUME NEW u \in Publishers, Load(u) PROVE TypeOK'
  <2>1. LatestMappings(results[Plan(u)]) \in Mappings
    <3>1. results[Plan(u)] \in Seq(Result)
      BY Constants DEF TypeOK, Plan
    <3> DEFINE rows == results[Plan(u)]
    <3>2. CASE rows = <<>>
      BY <3>2 DEF LatestMappings, Unmapped, Mappings
    <3>3. CASE rows # <<>>
      <4>1. rows[Len(rows)] \in Result
        BY <3>1, <3>3
      <4> QED
        BY <3>3, <4>1 DEF LatestMappings, Result
    <3> QED
      BY <3>2, <3>3
  <2> QED
    BY <1>2, <2>1 DEF Load, TypeOK, Phases, counters
<1>3. ASSUME NEW u \in Publishers, LoadRefused(u) \/ FindRefused(u) \/ PersistRefused(u)
      PROVE  TypeOK'
  <2>1. Reset(u) /\ UNCHANGED <<current, tracker, results, counters>>
    BY <1>3 DEF LoadRefused, FindRefused, PersistRefused, Throw
  <2> QED
    BY <2>1, ResetType DEF TypeOK, counters
<1>4. ASSUME NEW u \in Publishers, Find(u) PROVE TypeOK'
  <2>1. found' \in [Publishers -> [Items -> Remote]]
    <3>1. ASSUME NEW n \in Matches(Marker(u, cursor[u])),
                 found' = [found EXCEPT ![u][cursor[u]] =
                             [number |-> n, text |-> tracker[n].text]]
          PROVE  found' \in [Publishers -> [Items -> Remote]]
      <4>1. tracker[n] \in Issue /\ n \in Numbers
        BY <3>1, Constants DEF Matches, TypeOK, Numbers
      <4>2. [number |-> n, text |-> tracker[n].text] \in Remote
        BY <4>1 DEF Issue, Remote
      <4> QED
        BY <3>1, <4>2 DEF TypeOK
    <3> QED
      BY <1>4, <3>1 DEF Find, TypeOK
  <2>2. cursor' \in [Publishers -> Items] /\ pc' \in [Publishers -> Phases]
    <3>1. cursor \in [Publishers -> Items] /\ pc \in [Publishers -> Phases]
          /\ "apply" \in Phases
      BY DEF TypeOK, Phases
    <3>2. CASE cursor[u] < ItemCount
      <4>1. cursor[u] + 1 \in Items
        BY <3>1, <3>2, Constants DEF Items
      <4> QED
        BY <1>4, <3>1, <3>2, <4>1 DEF Find
    <3>3. CASE ~(cursor[u] < ItemCount)
      BY <1>4, <3>1, <3>3, Constants DEF Find
    <3> QED
      BY <3>2, <3>3
  <2> QED
    BY <1>4, <2>1, <2>2 DEF Find, TypeOK, counters
<1>5. ASSUME NEW u \in Publishers, TrackerFault(u) PROVE TypeOK'
  <2>1. CASE FindFails(u) \/ CreateFails(u) \/ UpdateFails(u)
    BY <2>1, FaultType DEF FindFails, CreateFails, UpdateFails, Fault, LocalType, TypeOK
  <2>2. CASE CreateAnswerLost(u)
    BY <2>2, FaultType, CreatedType DEF CreateAnswerLost, Fault, LocalType, TypeOK
  <2>3. CASE UpdateAnswerLost(u)
    BY <2>3, FaultType, UpdatedType DEF UpdateAnswerLost, Fault, LocalType, TypeOK
  <2> QED
    BY <1>5, <2>1, <2>2, <2>3 DEF TrackerFault
<1>6. ASSUME NEW u \in Publishers, Adopt(u) \/ Create(u) \/ Update(u) PROVE TypeOK'
  <2>1. CASE Adopt(u)
    BY <2>1, SettleType DEF Adopt, LocalType, TypeOK, counters
  <2>2. CASE Create(u)
    BY <2>2, SettleType, CreatedType DEF Create, LocalType, TypeOK, counters
  <2>3. CASE Update(u)
    BY <2>3, SettleType, UpdatedType DEF Update, LocalType, TypeOK, counters
  <2> QED
    BY <1>6, <2>1, <2>2, <2>3
<1>7. ASSUME NEW u \in Publishers, Transient(u) PROVE TypeOK'
  <2>1. CASE Return(u)
    BY <1>7, <2>1, ResetType DEF Transient, Return, TypeOK, counters
  <2>2. CASE /\ failed' = [failed EXCEPT ![u] = cursor[u]]
             /\ pc' = [pc EXCEPT ![u] = "persist"]
             /\ UNCHANGED <<job, history, mappings, found, cursor>>
    <3>1. failed' \in [Publishers -> Items \union {0}] /\ pc' \in [Publishers -> Phases]
      BY <2>2 DEF TypeOK, Phases
    <3> QED
      BY <1>7, <2>2, <3>1 DEF Transient, TypeOK, counters
  <2> QED
    BY <1>7, <2>1, <2>2 DEF Transient
<1>8. ASSUME NEW u \in Publishers, PersistUnchanged(u) PROVE TypeOK'
  <2>1. history[u] \in [Plans -> Seq(Result)]
    BY DEF TypeOK
  <2> QED
    BY <1>8, <2>1, ContinueType DEF PersistUnchanged, LocalType, TypeOK, counters
<1>9. ASSUME NEW u \in Publishers, Persist(u) PROVE TypeOK'
  <2>1. LocalType'
    BY <1>9, DraftType, ContinueType DEF Persist
  <2>2. results' \in [Plans -> Seq(Result)]
    <3> DEFINE rows == results[Plan(u)]
               next == Len(history[u][Plan(u)]) + 1
    <3>1. rows \in Seq(Result) /\ next \in Nat \ {0}
      BY DraftType DEF TypeOK
    <3>2. (IF next <= Len(rows) THEN [rows EXCEPT ![next] = Content(u)]
           ELSE Append(rows, Content(u))) \in Seq(Result)
      BY <3>1, ContentType
    <3> QED
      BY <1>9, <3>2, DraftType DEF Persist, Stored, TypeOK
  <2> QED
    BY <1>9, <2>1, <2>2 DEF Persist, LocalType, TypeOK, counters
<1>10. ASSUME NEW u \in Publishers, Crash(u) PROVE TypeOK'
  BY <1>10, ResetType, Constants DEF Crash, TypeOK
<1>11. CASE Supersede
  BY <1>11, Constants DEF Supersede, TypeOK, Plans, local, counters
<1>12. CASE People
  BY <1>12, PeopleType DEF TypeOK, local
<1>13. CASE UNCHANGED vars
  BY <1>13 DEF vars, local, counters, TypeOK
<1> QED
  BY <1>1, <1>2, <1>3, <1>4, <1>5, <1>6, <1>7, <1>8, <1>9, <1>10, <1>11, <1>12, <1>13
     DEF Next, Publish

(* The publishers keep to the types of their state.                        *)
THEOREM WriterTypeCorrect == Spec => []TypeOK
<1> QED
  BY TypeInit, TypeNext, PTL DEF Spec

-----------------------------------------------------------------------------
(* The inductive invariant.  What a publisher holds as history is a prefix *)
(* of what the store holds, every stored status is true, and every number  *)
(* that is found, mapped or recorded for an item is that of an issue which *)
(* was created for the item or whose marker people changed.                *)
Own(p, i, n) ==
    /\ n \in DOMAIN tracker
    /\ tracker[n].born = <<p, i>> \/ tracker[n].retagged

HistoryKnown ==
    \A u \in Publishers, p \in Plans :
        /\ Len(history[u][p]) <= Len(results[p])
        /\ \A k \in 1 .. Len(history[u][p]) : history[u][p][k] = results[p][k]

StatusesTrue == \A p \in Plans : \A k \in 1 .. Len(results[p]) : StatusTrue(results[p][k])

MarkersTrue ==
    \A n \in DOMAIN tracker : tracker[n].marker = tracker[n].born \/ tracker[n].retagged

Blank ==
    \A u \in Publishers : pc[u] \in {"idle", "load"} =>
        \A i \in Items : found[u][i].number = 0 /\ mappings[u][i] = 0

FoundOwn ==
    \A u \in Publishers, i \in Items :
        found[u][i].number # 0 => Own(Plan(u), i, found[u][i].number)

MappingsOwn ==
    \A u \in Publishers, i \in Items :
        mappings[u][i] # 0 => Own(Plan(u), i, mappings[u][i])

ResultsOwn ==
    \A p \in Plans : \A k \in 1 .. Len(results[p]) : \A i \in Items :
        results[p][k].mappings[i] # 0 => Own(p, i, results[p][k].mappings[i])

IInv ==
    /\ TypeOK
    /\ HistoryKnown /\ StatusesTrue
    /\ MarkersTrue /\ Blank /\ FoundOwn /\ MappingsOwn /\ ResultsOwn

(* Issues are never removed, never reborn, and a change of hand is seen.   *)
Grows ==
    \A n \in DOMAIN tracker :
        /\ n \in DOMAIN tracker'
        /\ tracker'[n].born = tracker[n].born
        /\ tracker[n].retagged => tracker'[n].retagged

LEMMA OwnKept ==
    ASSUME Grows, NEW p, NEW i, NEW n, Own(p, i, n)
    PROVE  Own(p, i, n)'
BY DEF Grows, Own

(* Every step keeps the issues, and their markers true.                    *)
LEMMA TrackerGrows ==
    ASSUME IInv, [Next]_vars
    PROVE  Grows /\ MarkersTrue'
<1>1. CASE UNCHANGED tracker
  BY <1>1 DEF Grows, MarkersTrue, IInv
<1>2. ASSUME NEW u \in Publishers, Created(u) PROVE Grows /\ MarkersTrue'
  <2>1. NewIssue(u).marker = NewIssue(u).born
    BY DEF NewIssue
  <2>2. TypeOK /\ MarkersTrue
    BY DEF IInv
  <2>3. \A n \in DOMAIN tracker : n \in DOMAIN tracker' /\ tracker'[n] = tracker[n]
    BY <1>2, <2>2, CreatedType
  <2>4. Grows
    BY <2>3, Zenon DEF Grows
  <2>5. ASSUME NEW n \in DOMAIN tracker'
        PROVE  tracker'[n].marker = tracker'[n].born \/ tracker'[n].retagged
    <3>1. n \in DOMAIN tracker \/ n = Len(tracker) + 1
      BY <1>2, <2>2, CreatedType DEF TypeOK
    <3>2. CASE n \in DOMAIN tracker
      BY <2>2, <2>3, <3>2, Zenon DEF MarkersTrue
    <3>3. CASE n = Len(tracker) + 1
      <4>1. tracker'[n] = NewIssue(u)
        BY <1>2, <2>2, <3>3, CreatedType
      <4> QED
        BY <2>1, <4>1, Zenon
    <3> QED
      BY <3>1, <3>2, <3>3
  <2> QED
    BY <2>4, <2>5 DEF MarkersTrue
<1>3. ASSUME NEW u \in Publishers, NEW n \in Numbers, Updated(u, n) PROVE Grows /\ MarkersTrue'
  <2>1. TypeOK /\ MarkersTrue /\ FoundOwn
    BY DEF IInv
  <2>2. cursor[u] \in Items /\ found[u][cursor[u]].number = n /\ n # 0
    BY <1>3, <2>1, Constants DEF Updated, AtItem, TypeOK, Numbers
  <2>3. Own(Plan(u), cursor[u], n)
    BY <2>1, <2>2 DEF FoundOwn
  <2>4. n \in DOMAIN tracker /\ (tracker[n].born = Marker(u, cursor[u]) \/ tracker[n].retagged)
    BY <2>3 DEF Own, Marker
  <2>5. /\ DOMAIN tracker' = DOMAIN tracker
        /\ \A m \in DOMAIN tracker :
             /\ tracker'[m].born = tracker[m].born
             /\ tracker'[m].retagged = tracker[m].retagged
             /\ m # n => tracker'[m] = tracker[m]
             /\ m = n => tracker'[m].marker = Marker(u, cursor[u])
    BY <1>3, <2>1, UpdatedType
  <2> QED
    BY <2>1, <2>4, <2>5, Zenon DEF Grows, MarkersTrue
<1>4. ASSUME People PROVE Grows /\ MarkersTrue'
  <2>1. TypeOK /\ MarkersTrue
    BY DEF IInv
  <2>2. /\ DOMAIN tracker' = DOMAIN tracker
        /\ \A m \in DOMAIN tracker :
             /\ tracker'[m].born = tracker[m].born
             /\ \/ tracker'[m].retagged
                \/ /\ tracker'[m].marker = tracker[m].marker
                   /\ tracker'[m].retagged = tracker[m].retagged
    BY <1>4, <2>1, PeopleType
  <2> QED
    BY <2>1, <2>2, Zenon DEF Grows, MarkersTrue
<1>5. \/ UNCHANGED tracker
      \/ People
      \/ \E u \in Publishers : Created(u) \/ \E n \in Numbers : Updated(u, n)
  BY DEF Next, vars, Start, Publish, Load, LoadRefused, Find, FindRefused, Adopt, Create,
         Update, Transient, PersistUnchanged, Persist, PersistRefused, TrackerFault,
         FindFails, CreateFails, CreateAnswerLost, UpdateFails, UpdateAnswerLost, Crash,
         Supersede
<1> QED
  BY <1>1, <1>2, <1>3, <1>4, <1>5

-----------------------------------------------------------------------------
(* The store: what Persist writes, and what publishers know of it.         *)
LEMMA Persisted ==
    ASSUME IInv, NEW u \in Publishers, Persist(u)
    PROVE  /\ Plan(u) \in Plans
           /\ \A p \in Plans : /\ Len(results[p]) <= Len(results'[p])
                              /\ \A k \in 1 .. Len(results[p]) : results'[p][k] = results[p][k]
           /\ \A p \in Plans : p # Plan(u) => results'[p] = results[p]
           /\ \A k \in 1 .. Len(results'[Plan(u)]) :
                k \in 1 .. Len(results[Plan(u)]) \/ results'[Plan(u)][k] = Content(u)
           /\ Len(history[u][Plan(u)]) + 1 <= Len(results'[Plan(u)])
           /\ results'[Plan(u)][Len(history[u][Plan(u)]) + 1] = Content(u)
           /\ Len(results'[Plan(u)]) \in {Len(results[Plan(u)]), Len(history[u][Plan(u)]) + 1}
<1> DEFINE p == Plan(u)
           rows == results[p]
           next == Len(history[u][p]) + 1
<1>1. TypeOK /\ HistoryKnown
  BY DEF IInv
<1>2. p \in Plans /\ rows \in Seq(Result) /\ history[u][p] \in Seq(Result)
  BY <1>1, DraftType DEF TypeOK
<1>3. next \in Nat \ {0} /\ next <= Len(rows) + 1 /\ Len(rows) \in Nat
  BY <1>1, <1>2 DEF HistoryKnown
<1>4. results' = [results EXCEPT ![p] = IF next <= Len(rows)
                                        THEN [rows EXCEPT ![next] = Content(u)]
                                        ELSE Append(rows, Content(u))]
  BY DEF Persist, Stored
<1>5. next <= Len(rows) => rows[next] = Content(u)
  BY DEF Persist, Appendable
<1>6. /\ \A q \in Plans : q # p => results'[q] = results[q]
      /\ results'[p] = IF next <= Len(rows) THEN [rows EXCEPT ![next] = Content(u)]
                       ELSE Append(rows, Content(u))
  BY <1>1, <1>2, <1>4 DEF TypeOK
<1> HIDE DEF p, next
<1>7. CASE next <= Len(rows)
  <2>1. [rows EXCEPT ![next] = Content(u)] = rows
    BY <1>2, <1>3, <1>5, <1>7
  <2>2. results'[p] = rows
    BY <1>6, <1>7, <2>1
  <2> QED
    BY <1>2, <1>3, <1>5, <1>6, <1>7, <2>2 DEF p, next
<1>8. CASE ~(next <= Len(rows))
  <2>1. next = Len(rows) + 1
    BY <1>3, <1>8
  <2>2. results'[p] = Append(rows, Content(u))
    BY <1>6, <1>8
  <2>3. /\ Len(results'[p]) = next
        /\ results'[p][next] = Content(u)
        /\ \A k \in 1 .. Len(rows) : results'[p][k] = rows[k]
    BY <1>2, <1>3, <2>1, <2>2, ContentType, <1>1
  <2>4. \A q \in Plans : /\ Len(results[q]) <= Len(results'[q])
                         /\ \A k \in 1 .. Len(results[q]) : results'[q][k] = results[q][k]
    <3> TAKE q \in Plans
    <3>1. CASE q = p
      BY <1>3, <2>1, <2>3, <3>1
    <3>2. CASE q # p
      <4>1. results'[q] = results[q] /\ Len(results[q]) \in Nat
        BY <1>1, <1>6, <3>2 DEF TypeOK
      <4> QED
        BY <4>1
    <3> QED
      BY <3>1, <3>2
  <2>5. \A k \in 1 .. Len(results'[p]) : k \in 1 .. Len(rows) \/ results'[p][k] = Content(u)
    BY <1>3, <2>1, <2>3
  <2> HIDE DEF rows
  <2> QED
    BY <1>2, <1>3, <1>6, <2>1, <2>3, <2>4, <2>5 DEF p, next, rows
<1> QED
  BY <1>7, <1>8

(* A step other than Persist leaves the store, and a publisher may take    *)
(* the store for its history, or forget it.                                *)
LEMMA HistorySteps ==
    ASSUME [Next]_vars
    PROVE  \/ \E u \in Publishers : Persist(u)
           \/ /\ results' = results
              /\ \/ history' = history
                 \/ \E u \in Publishers : \E h \in {Nothing, results, history[u]} :
                       history' = [history EXCEPT ![u] = h]
<1>1. ASSUME NEW u \in Publishers, Reset(u)
      PROVE  \E h \in {Nothing, results, history[u]} : history' = [history EXCEPT ![u] = h]
  BY <1>1 DEF Reset
<1>2. ASSUME NEW u \in Publishers, Fault(u)
      PROVE  \/ history' = history
             \/ \E h \in {Nothing, results, history[u]} : history' = [history EXCEPT ![u] = h]
  BY <1>1, <1>2 DEF Fault, Throw
<1>3. ASSUME NEW u \in Publishers, NEW n, Settle(u, n)
      PROVE  \/ history' = history
             \/ \E h \in {Nothing, results, history[u]} : history' = [history EXCEPT ![u] = h]
  BY <1>1, <1>3 DEF Settle, Throw
<1>4. ASSUME NEW u \in Publishers, PersistUnchanged(u) \/ Load(u)
      PROVE  \E h \in {Nothing, results, history[u]} : history' = [history EXCEPT ![u] = h]
  BY <1>1, <1>4 DEF PersistUnchanged, Load, Continue, Return
<1>5. ASSUME NEW u \in Publishers, Transient(u) \/ Find(u)
      PROVE  \/ history' = history
             \/ \E h \in {Nothing, results, history[u]} : history' = [history EXCEPT ![u] = h]
  BY <1>1, <1>5 DEF Transient, Return, Find
<1>6. ASSUME NEW u \in Publishers, TrackerFault(u) PROVE Fault(u)
  BY <1>6 DEF TrackerFault, FindFails, CreateFails, CreateAnswerLost, UpdateFails, UpdateAnswerLost
<1>7. ASSUME NEW u \in Publishers, Adopt(u) \/ Create(u) \/ Update(u)
      PROVE  results' = results /\ \E n : Settle(u, n)
  BY <1>7 DEF Adopt, Create, Update
<1>8. ASSUME NEW u \in Publishers, LoadRefused(u) \/ FindRefused(u) \/ PersistRefused(u) \/ Crash(u)
      PROVE  results' = results /\ Reset(u)
  BY <1>8 DEF LoadRefused, FindRefused, PersistRefused, Crash, Throw
<1>9. \/ \E u \in Publishers : Persist(u)
      \/ results' = results
  BY <1>6, <1>7, <1>8 DEF Next, vars, Start, Publish, Load, Find, Transient, PersistUnchanged,
     Fault, Supersede, People, Edit, Retag
<1>10. \/ \E u \in Publishers :
             \/ Persist(u) \/ PersistUnchanged(u) \/ Load(u) \/ Transient(u) \/ Find(u)
             \/ TrackerFault(u) \/ Adopt(u) \/ Create(u) \/ Update(u)
             \/ LoadRefused(u) \/ FindRefused(u) \/ PersistRefused(u) \/ Crash(u)
       \/ history' = history
  BY DEF Next, vars, local, Publish, Start, Supersede, People, Edit, Retag
<1> QED
  BY <1>1, <1>2, <1>3, <1>4, <1>5, <1>6, <1>7, <1>8, <1>9, <1>10

LEMMA StoreNext ==
    ASSUME IInv, [Next]_vars, Grows
    PROVE  HistoryKnown' /\ StatusesTrue' /\ ResultsOwn'
<1>1. TypeOK /\ HistoryKnown /\ StatusesTrue /\ ResultsOwn /\ MappingsOwn
  BY DEF IInv
<1>2. ASSUME NEW u \in Publishers, Persist(u)
      PROVE  HistoryKnown' /\ StatusesTrue' /\ ResultsOwn'
  <2> DEFINE pl == Plan(u)
             h == history[u][pl]
  <2>1. /\ pl \in Plans
        /\ \A p \in Plans : /\ Len(results[p]) <= Len(results'[p])
                           /\ \A k \in 1 .. Len(results[p]) : results'[p][k] = results[p][k]
        /\ \A p \in Plans : p # pl => results'[p] = results[p]
        /\ \A k \in 1 .. Len(results'[pl]) :
             k \in 1 .. Len(results[pl]) \/ results'[pl][k] = Content(u)
        /\ Len(h) + 1 <= Len(results'[pl])
        /\ results'[pl][Len(h) + 1] = Content(u)
    BY <1>2, Persisted
  <2>2. /\ WithDraft(u)[pl] = Append(h, Content(u))
        /\ \A p \in Plans : p # pl => WithDraft(u)[p] = history[u][p]
        /\ WithDraft(u) \in [Plans -> Seq(Result)]
    BY <1>1, DraftType
  <2>3. /\ \A p \in Plans : results[p] \in Seq(Result)
        /\ \A v \in Publishers, p \in Plans : history[v][p] \in Seq(Result)
        /\ results' \in [Plans -> Seq(Result)]
        /\ Content(u) \in Result
    BY <1>1, TypeNext, ContentType DEF TypeOK
  <2> HIDE DEF pl, h
  <2>4. \A p \in Plans : /\ Len(WithDraft(u)[p]) <= Len(results'[p])
                         /\ \A k \in 1 .. Len(WithDraft(u)[p]) :
                              WithDraft(u)[p][k] = results'[p][k]
    <3> TAKE p \in Plans
    <3>1. CASE p # pl
      BY <1>1, <2>1, <2>2, <3>1 DEF HistoryKnown
    <3>2. CASE p = pl
      <4>1. h \in Seq(Result) /\ Len(h) <= Len(results[pl])
            /\ \A k \in 1 .. Len(h) : h[k] = results[pl][k]
        BY <1>1, <2>1, <2>3 DEF HistoryKnown, h
      <4>2. /\ Len(WithDraft(u)[pl]) = Len(h) + 1
            /\ WithDraft(u)[pl][Len(h) + 1] = Content(u)
            /\ \A k \in 1 .. Len(h) : WithDraft(u)[pl][k] = h[k]
        BY <2>2, <2>3, <4>1
      <4>3. \A k \in 1 .. Len(h) : h[k] = results'[pl][k]
        <5> TAKE k \in 1 .. Len(h)
        <5>1. k \in 1 .. Len(results[pl])
          BY <2>1, <2>3, <4>1
        <5> QED
          BY <2>1, <4>1, <5>1
      <4> QED
        BY <2>1, <2>3, <3>2, <4>1, <4>2, <4>3
    <3> QED
      BY <3>1, <3>2
  <2>5. history' \in {[history EXCEPT ![u] = Nothing], [history EXCEPT ![u] = WithDraft(u)]}
    BY <1>2 DEF Persist, Continue, Return, Reset
  <2>6. HistoryKnown'
    <3> SUFFICES ASSUME NEW v \in Publishers, NEW p \in Plans
                 PROVE  /\ Len(history'[v][p]) <= Len(results'[p])
                        /\ \A k \in 1 .. Len(history'[v][p]) : history'[v][p][k] = results'[p][k]
      BY DEF HistoryKnown
    <3>0. results'[p] \in Seq(Result)
      BY <2>3
    <3>1. CASE v # u
      <4>1. history'[v][p] = history[v][p]
        BY <1>1, <2>5, <3>1 DEF TypeOK
      <4> QED
        BY <1>1, <2>1, <2>3, <3>0, <4>1 DEF HistoryKnown
    <3>2. CASE v = u /\ history' = [history EXCEPT ![u] = Nothing]
      <4>1. history'[v][p] = <<>>
        BY <1>1, <3>2 DEF TypeOK, Nothing
      <4> QED
        BY <3>0, <4>1
    <3>3. CASE v = u /\ history' = [history EXCEPT ![u] = WithDraft(u)]
      <4>1. history'[v][p] = WithDraft(u)[p]
        BY <1>1, <3>3 DEF TypeOK
      <4> QED
        BY <2>4, <4>1
    <3> QED
      BY <2>5, <3>1, <3>2, <3>3
  <2>7. StatusTrue(Content(u))
    <3>1. mappings[u] \in Mappings
      BY <1>1 DEF TypeOK
    <3>2. Content(u).status = IF \A i \in Items : mappings[u][i] # 0 THEN "complete" ELSE "retryable"
      BY DEF Content
    <3>3. MappedItems(Content(u)) = {i \in Items : mappings[u][i] # 0}
      BY DEF Content, MappedItems
    <3> QED
      BY <3>2, <3>3 DEF StatusTrue
  <2>8. StatusesTrue'
    <3> SUFFICES ASSUME NEW p \in Plans, NEW k \in 1 .. Len(results'[p])
                 PROVE  StatusTrue(results'[p][k])
      BY DEF StatusesTrue, StatusTrue, MappedItems
    <3>1. CASE k \in 1 .. Len(results[p])
      BY <1>1, <2>1, <3>1 DEF StatusesTrue
    <3>2. CASE k \notin 1 .. Len(results[p])
      BY <2>1, <2>7, <3>2
    <3> QED
      BY <3>1, <3>2
  <2>9. ResultsOwn'
    <3> SUFFICES ASSUME NEW p \in Plans, NEW k \in 1 .. Len(results'[p]), NEW i \in Items,
                        NEW n, n = results'[p][k].mappings[i], n # 0
                 PROVE  Own(p, i, n)'
      BY DEF ResultsOwn, Own
    <3>1. CASE k \in 1 .. Len(results[p])
      <4>1. results'[p][k] = results[p][k]
        BY <2>1, <3>1
      <4>2. Own(p, i, n)
        BY <1>1, <3>1, <4>1 DEF ResultsOwn
      <4> QED
        BY <4>2, OwnKept
    <3>2. CASE k \notin 1 .. Len(results[p])
      <4>1. p = pl /\ results'[p][k] = Content(u)
        BY <2>1, <3>2
      <4>2. results'[p][k].mappings[i] = mappings[u][i]
        BY <4>1 DEF Content
      <4>3. Own(p, i, n)
        BY <1>1, <4>1, <4>2 DEF MappingsOwn, pl
      <4> QED
        BY <4>3, OwnKept
    <3> QED
      BY <3>1, <3>2
  <2> QED
    BY <2>6, <2>8, <2>9
<1>3. ASSUME results' = results,
             \/ history' = history
             \/ \E u \in Publishers : \E h \in {Nothing, results, history[u]} :
                   history' = [history EXCEPT ![u] = h]
      PROVE  HistoryKnown' /\ StatusesTrue' /\ ResultsOwn'
  <2>1. StatusesTrue'
    BY <1>1, <1>3 DEF StatusesTrue, StatusTrue, MappedItems
  <2>2. ResultsOwn'
    <3> SUFFICES ASSUME NEW p \in Plans, NEW k \in 1 .. Len(results[p]), NEW i \in Items,
                        NEW n, n = results[p][k].mappings[i], n # 0
                 PROVE  Own(p, i, n)'
      BY <1>3 DEF ResultsOwn, Own
    <3>1. Own(p, i, n)
      BY <1>1 DEF ResultsOwn
    <3> QED
      BY <3>1, OwnKept
  <2>3. HistoryKnown'
    <3>1. CASE history' = history
      BY <1>1, <1>3, <3>1 DEF HistoryKnown
    <3>2. ASSUME NEW u \in Publishers, NEW h \in {Nothing, results, history[u]},
                 history' = [history EXCEPT ![u] = h]
          PROVE  HistoryKnown'
      <4> SUFFICES ASSUME NEW v \in Publishers, NEW p \in Plans
                   PROVE  /\ Len(history'[v][p]) <= Len(results[p])
                          /\ \A k \in 1 .. Len(history'[v][p]) :
                               history'[v][p][k] = results[p][k]
        BY <1>3 DEF HistoryKnown
      <4>1. results[p] \in Seq(Result)
        BY <1>1 DEF TypeOK
      <4>2. CASE v # u \/ h = history[u]
        <5>1. history'[v][p] = history[v][p]
          BY <1>1, <3>2, <4>2 DEF TypeOK
        <5> QED
          BY <1>1, <5>1 DEF HistoryKnown
      <4>3. CASE v = u /\ h = results
        <5>1. history'[v][p] = results[p]
          BY <1>1, <3>2, <4>3 DEF TypeOK
        <5> QED
          BY <4>1, <5>1
      <4>4. CASE v = u /\ h = Nothing
        <5>1. history'[v][p] = <<>>
          BY <1>1, <3>2, <4>4 DEF TypeOK, Nothing
        <5> QED
          BY <4>1, <5>1
      <4> QED
        BY <4>2, <4>3, <4>4
    <3> QED
      BY <1>3, <3>1, <3>2
  <2> QED
    BY <2>1, <2>2, <2>3
<1> QED
  BY <1>2, <1>3, HistorySteps

-----------------------------------------------------------------------------
(* The publishers: what they find and map.                                 *)
Pockets == Blank /\ FoundOwn /\ MappingsOwn

(* Own in the next state.                                                  *)
OwnNext(p, i, n) ==
    /\ n \in DOMAIN tracker'
    /\ tracker'[n].born = <<p, i>> \/ tracker'[n].retagged

LEMMA OwnStays ==
    ASSUME Grows, NEW p, NEW i, NEW n, Own(p, i, n)
    PROVE  OwnNext(p, i, n)
BY DEF Grows, Own, OwnNext

(* A step of one publisher is judged by what it holds afterwards.          *)
LEMMA PocketsKept ==
    ASSUME IInv, Grows, NEW u \in Publishers,
           \A v \in Publishers \ {u} :
               /\ pc'[v] = pc[v] /\ job'[v] = job[v]
               /\ found'[v] = found[v] /\ mappings'[v] = mappings[v],
           pc'[u] \in {"idle", "load"} =>
               \A i \in Items : found'[u][i].number = 0 /\ mappings'[u][i] = 0,
           \A i \in Items :
               /\ found'[u][i].number # 0 => OwnNext(job'[u].plan, i, found'[u][i].number)
               /\ mappings'[u][i] # 0 => OwnNext(job'[u].plan, i, mappings'[u][i])
    PROVE  Pockets'
<1>1. TypeOK /\ Blank /\ FoundOwn /\ MappingsOwn
  BY DEF IInv
<1>2. Blank'
  BY <1>1 DEF Blank
<1>3. ASSUME NEW v \in Publishers, NEW i \in Items
      PROVE  /\ found'[v][i].number # 0 => OwnNext(job'[v].plan, i, found'[v][i].number)
             /\ mappings'[v][i] # 0 => OwnNext(job'[v].plan, i, mappings'[v][i])
  <2>1. CASE v = u
    BY <2>1
  <2>2. CASE v # u
    <3>1. /\ job'[v] = job[v] /\ found'[v] = found[v] /\ mappings'[v] = mappings[v]
      BY <2>2
    <3>2. /\ found[v][i].number # 0 => Own(job[v].plan, i, found[v][i].number)
          /\ mappings[v][i] # 0 => Own(job[v].plan, i, mappings[v][i])
      BY <1>1 DEF FoundOwn, MappingsOwn, Plan
    <3> QED
      BY <3>1, <3>2, OwnStays
  <2> QED
    BY <2>1, <2>2
<1>4. FoundOwn' /\ MappingsOwn'
  BY <1>3 DEF FoundOwn, MappingsOwn, Own, OwnNext, Plan
<1> QED
  BY <1>2, <1>4 DEF Pockets

(* A publisher that returns or throws holds nothing.                       *)
LEMMA ResetPockets ==
    ASSUME IInv, Grows, NEW u \in Publishers, Reset(u)
    PROVE  Pockets'
<1>1. TypeOK
  BY DEF IInv
<1>2. \A v \in Publishers \ {u} :
        /\ pc'[v] = pc[v] /\ job'[v] = job[v]
        /\ found'[v] = found[v] /\ mappings'[v] = mappings[v]
  BY <1>1 DEF Reset, TypeOK
<1>3. \A i \in Items : found'[u][i].number = 0 /\ mappings'[u][i] = 0
  BY <1>1 DEF Reset, TypeOK, Absent, Unmapped
<1> QED
  BY <1>2, <1>3, PocketsKept

(* A step that leaves what the publishers hold.                            *)
LEMMA SamePockets ==
    ASSUME IInv, Grows, UNCHANGED <<job, found, mappings>>,
           \A v \in Publishers : pc'[v] \in {"idle", "load"} => pc'[v] = pc[v]
    PROVE  Pockets'
<1>1. TypeOK /\ Blank /\ FoundOwn /\ MappingsOwn
  BY DEF IInv
<1>2. Blank'
  BY <1>1 DEF Blank
<1>3. ASSUME NEW v \in Publishers, NEW i \in Items
      PROVE  /\ found[v][i].number # 0 => OwnNext(job[v].plan, i, found[v][i].number)
             /\ mappings[v][i] # 0 => OwnNext(job[v].plan, i, mappings[v][i])
  <2>1. /\ found[v][i].number # 0 => Own(job[v].plan, i, found[v][i].number)
        /\ mappings[v][i] # 0 => Own(job[v].plan, i, mappings[v][i])
    BY <1>1 DEF FoundOwn, MappingsOwn, Plan
  <2> QED
    BY <2>1, OwnStays
<1>4. FoundOwn' /\ MappingsOwn'
  BY <1>3 DEF FoundOwn, MappingsOwn, Own, OwnNext, Plan
<1> QED
  BY <1>2, <1>4 DEF Pockets

(* A settled number is one of an issue of the item.                        *)
LEMMA SettlePockets ==
    ASSUME IInv, Grows, NEW u \in Publishers, NEW n,
           Settle(u, n), OwnNext(Plan(u), cursor[u], n)
    PROVE  Pockets'
<1>1. TypeOK /\ FoundOwn /\ MappingsOwn
  BY DEF IInv
<1>2. CASE Throw(u)
  BY <1>2, ResetPockets DEF Throw
<1>3. CASE /\ mappings' = [mappings EXCEPT ![u][cursor[u]] = n]
           /\ pc' = [pc EXCEPT ![u] = "persist"]
           /\ UNCHANGED <<job, history, found, cursor, failed>>
  <2>1. \A v \in Publishers \ {u} : pc'[v] = pc[v] /\ mappings'[v] = mappings[v]
    BY <1>1, <1>3 DEF TypeOK
  <2>2. pc'[u] = "persist"
    BY <1>1, <1>3 DEF TypeOK
  <2>3. \A i \in Items : mappings'[u][i] = IF i = cursor[u] THEN n ELSE mappings[u][i]
    <3>1. mappings[u] \in [Items -> Numbers \union {0}]
      BY <1>1 DEF TypeOK, Mappings
    <3>2. mappings'[u] = [mappings[u] EXCEPT ![cursor[u]] = n]
      BY <1>1, <1>3 DEF TypeOK
    <3> QED
      BY <3>1, <3>2
  <2>4. ASSUME NEW i \in Items
        PROVE  /\ found[u][i].number # 0 => OwnNext(job[u].plan, i, found[u][i].number)
               /\ mappings'[u][i] # 0 => OwnNext(job[u].plan, i, mappings'[u][i])
    <3>1. /\ found[u][i].number # 0 => Own(job[u].plan, i, found[u][i].number)
          /\ mappings[u][i] # 0 => Own(job[u].plan, i, mappings[u][i])
      BY <1>1 DEF FoundOwn, MappingsOwn, Plan
    <3> QED
      BY <2>3, <3>1, OwnStays DEF Plan
  <2> QED
    BY <1>3, <2>1, <2>2, <2>4, PocketsKept
<1> QED
  BY <1>2, <1>3 DEF Settle

LEMMA FaultPockets ==
    ASSUME IInv, Grows, NEW u \in Publishers, Fault(u)
    PROVE  Pockets'
<1>1. CASE Throw(u)
  BY <1>1, ResetPockets DEF Throw
<1>2. CASE pc' = [pc EXCEPT ![u] = "transient"]
           /\ UNCHANGED <<job, history, mappings, found, cursor, failed>>
  <2>1. \A v \in Publishers : pc'[v] \in {"idle", "load"} => pc'[v] = pc[v]
    BY <1>2 DEF IInv, TypeOK
  <2> QED
    BY <1>2, <2>1, SamePockets
<1> QED
  BY <1>1, <1>2 DEF Fault

LEMMA ContinuePockets ==
    ASSUME IInv, Grows, NEW u \in Publishers, NEW rows, Continue(u, rows)
    PROVE  Pockets'
<1>1. CASE Return(u)
  BY <1>1, ResetPockets DEF Return
<1>2. CASE pc' = [pc EXCEPT ![u] = "apply"] /\ UNCHANGED <<job, mappings, found, failed>>
  <2>1. \A v \in Publishers : pc'[v] \in {"idle", "load"} => pc'[v] = pc[v]
    BY <1>2 DEF IInv, TypeOK
  <2> QED
    BY <1>2, <2>1, SamePockets
<1> QED
  BY <1>1, <1>2 DEF Continue

(* The mappings that are loaded are recorded ones.                         *)
LEMMA LoadPockets ==
    ASSUME IInv, Grows, NEW u \in Publishers, Load(u)
    PROVE  Pockets'
<1>1. TypeOK /\ Blank /\ ResultsOwn
  BY DEF IInv
<1>2. \A v \in Publishers \ {u} :
        /\ pc'[v] = pc[v] /\ job'[v] = job[v]
        /\ found'[v] = found[v] /\ mappings'[v] = mappings[v]
  BY <1>1 DEF Load, TypeOK
<1>3. /\ pc'[u] = "find" /\ job'[u] = job[u] /\ found'[u] = found[u]
      /\ mappings'[u] = LatestMappings(results[Plan(u)])
  BY <1>1 DEF Load, TypeOK
<1>4. Plan(u) \in Plans /\ results[Plan(u)] \in Seq(Result)
  BY <1>1, Constants DEF TypeOK, Plan
<1>5. ASSUME NEW i \in Items, mappings'[u][i] # 0
      PROVE  OwnNext(Plan(u), i, mappings'[u][i])
  <2> DEFINE rows == results[Plan(u)]
  <2>1. CASE rows = <<>>
    BY <1>3, <1>5, <2>1 DEF LatestMappings, Unmapped
  <2>2. CASE rows # <<>>
    <3>1. Len(rows) \in 1 .. Len(rows)
      BY <1>4, <2>2
    <3>2. mappings'[u][i] = rows[Len(rows)].mappings[i]
      BY <1>3, <2>2 DEF LatestMappings
    <3>3. Own(Plan(u), i, rows[Len(rows)].mappings[i])
      BY <1>1, <1>4, <1>5, <3>1, <3>2 DEF ResultsOwn
    <3> QED
      BY <3>2, <3>3, OwnStays
  <2> QED
    BY <2>1, <2>2
<1>6. \A i \in Items : found'[u][i].number = 0
  BY <1>1, <1>3 DEF Blank, Load
<1> QED
  BY <1>2, <1>3, <1>5, <1>6, PocketsKept DEF Plan

(* An issue that is found carries the marker of the item.                  *)
LEMMA FindPockets ==
    ASSUME IInv, Grows, NEW u \in Publishers, Find(u)
    PROVE  Pockets'
<1>1. TypeOK /\ MarkersTrue /\ FoundOwn /\ MappingsOwn
  BY DEF IInv
<1>2. pc'[u] \in {"find", "apply"} /\ UNCHANGED <<job, mappings>>
  BY <1>1 DEF Find, TypeOK
<1>3. \A v \in Publishers \ {u} : pc'[v] = pc[v] /\ found'[v] = found[v]
  BY <1>1 DEF Find, TypeOK
<1>4. ASSUME NEW i \in Items, found'[u][i].number # 0
      PROVE  OwnNext(Plan(u), i, found'[u][i].number)
  <2>1. CASE found'[u][i] = found[u][i]
    <3>1. Own(Plan(u), i, found[u][i].number)
      BY <1>1, <1>4, <2>1 DEF FoundOwn
    <3> QED
      BY <2>1, <3>1, OwnStays
  <2>2. CASE found'[u][i] # found[u][i]
    <3>1. PICK n \in Matches(Marker(u, cursor[u])) :
            found' = [found EXCEPT ![u][cursor[u]] = [number |-> n, text |-> tracker[n].text]]
      BY <2>2 DEF Find
    <3>2. found[u] \in [Items -> Remote]
      BY <1>1 DEF TypeOK
    <3>3. found'[u] = [found[u] EXCEPT ![cursor[u]] = [number |-> n, text |-> tracker[n].text]]
      BY <1>1, <3>1 DEF TypeOK
    <3>4. i = cursor[u] /\ found'[u][i].number = n
      BY <2>2, <3>2, <3>3
    <3>5. n \in DOMAIN tracker /\ tracker[n].marker = <<Plan(u), i>>
      BY <3>4 DEF Matches, Marker
    <3>6. Own(Plan(u), i, n)
      BY <1>1, <3>5, Zenon DEF MarkersTrue, Own
    <3> QED
      BY <3>4, <3>6, OwnStays
  <2> QED
    BY <2>1, <2>2
<1>5. \A i \in Items : mappings[u][i] # 0 => OwnNext(Plan(u), i, mappings[u][i])
  BY <1>1, OwnStays DEF MappingsOwn
<1> QED
  BY <1>2, <1>3, <1>4, <1>5, PocketsKept DEF Plan

LEMMA PocketsNext ==
    ASSUME IInv, [Next]_vars, Grows
    PROVE  Pockets'
<1>1. TypeOK /\ FoundOwn /\ Blank
  BY DEF IInv
<1>2. ASSUME NEW u \in Publishers, NEW a \in Approvals, Start(u, a) PROVE Pockets'
  <2>1. \A v \in Publishers \ {u} :
          /\ pc'[v] = pc[v] /\ job'[v] = job[v]
          /\ found'[v] = found[v] /\ mappings'[v] = mappings[v]
    BY <1>1, <1>2 DEF Start, TypeOK
  <2>2. \A i \in Items : found'[u][i].number = 0 /\ mappings'[u][i] = 0
    BY <1>1, <1>2 DEF Start, Blank
  <2> QED
    BY <2>1, <2>2, PocketsKept
<1>3. ASSUME NEW u \in Publishers, Adopt(u) PROVE Pockets'
  <2>1. PICK n \in Numbers : AtItem(u, [number |-> n, text |-> "planned"]) /\ Settle(u, n)
    BY <1>3 DEF Adopt
  <2>2. cursor[u] \in Items /\ found[u][cursor[u]].number = n /\ n # 0
    BY <1>1, <2>1, Constants DEF AtItem, TypeOK, Numbers
  <2>3. Own(Plan(u), cursor[u], n)
    BY <1>1, <2>2 DEF FoundOwn
  <2> QED
    BY <2>1, <2>3, OwnStays, SettlePockets
<1>4. ASSUME NEW u \in Publishers, Create(u) PROVE Pockets'
  <2>1. Created(u) /\ Settle(u, Len(tracker) + 1)
    BY <1>4 DEF Create
  <2>2. /\ Len(tracker) + 1 \in DOMAIN tracker'
        /\ tracker'[Len(tracker) + 1] = NewIssue(u)
    BY <1>1, <2>1, CreatedType DEF TypeOK
  <2>3. OwnNext(Plan(u), cursor[u], Len(tracker) + 1)
    BY <2>2 DEF OwnNext, NewIssue, Marker
  <2> QED
    BY <2>1, <2>3, SettlePockets
<1>5. ASSUME NEW u \in Publishers, Update(u) PROVE Pockets'
  <2>1. PICK n \in Numbers : Updated(u, n) /\ Settle(u, n)
    BY <1>5 DEF Update
  <2>2. cursor[u] \in Items /\ found[u][cursor[u]].number = n /\ n # 0
    BY <1>1, <2>1, Constants DEF Updated, AtItem, TypeOK, Numbers
  <2>3. Own(Plan(u), cursor[u], n)
    BY <1>1, <2>2 DEF FoundOwn
  <2> QED
    BY <2>1, <2>3, OwnStays, SettlePockets
<1>6. ASSUME NEW u \in Publishers, Transient(u) PROVE Pockets'
  <2>1. CASE Return(u)
    BY <2>1, ResetPockets DEF Return
  <2>2. CASE pc' = [pc EXCEPT ![u] = "persist"]
             /\ UNCHANGED <<job, history, mappings, found, cursor>>
    <3>1. \A v \in Publishers : pc'[v] \in {"idle", "load"} => pc'[v] = pc[v]
      BY <1>1, <2>2 DEF TypeOK
    <3> QED
      BY <2>2, <3>1, SamePockets
  <2> QED
    BY <1>6, <2>1, <2>2 DEF Transient
<1>7. ASSUME NEW u \in Publishers, TrackerFault(u) PROVE Pockets'
  BY <1>7, FaultPockets
     DEF TrackerFault, FindFails, CreateFails, CreateAnswerLost, UpdateFails, UpdateAnswerLost
<1>8. ASSUME NEW u \in Publishers,
             LoadRefused(u) \/ FindRefused(u) \/ PersistRefused(u) \/ Crash(u)
      PROVE  Pockets'
  BY <1>8, ResetPockets DEF LoadRefused, FindRefused, PersistRefused, Crash, Throw
<1>9. ASSUME NEW u \in Publishers, Persist(u) \/ PersistUnchanged(u) PROVE Pockets'
  BY <1>9, ContinuePockets DEF Persist, PersistUnchanged
<1>10. CASE UNCHANGED local
  BY <1>10, SamePockets DEF local
<1>11. CASE Supersede \/ People \/ UNCHANGED vars
  BY <1>10, <1>11 DEF Supersede, People, Edit, Retag, vars
<1> QED
  BY <1>2, <1>3, <1>4, <1>5, <1>6, <1>7, <1>8, <1>9, <1>11, LoadPockets, FindPockets
     DEF Next, Publish

LEMMA InvNext == IInv /\ [Next]_vars => IInv'
<1> SUFFICES ASSUME IInv, [Next]_vars PROVE IInv'
  OBVIOUS
<1>1. Grows /\ MarkersTrue'
  BY TrackerGrows
<1>2. TypeOK'
  BY TypeNext DEF IInv
<1>3. HistoryKnown' /\ StatusesTrue' /\ ResultsOwn'
  BY <1>1, StoreNext
<1>4. Pockets'
  BY <1>1, PocketsNext
<1> QED
  BY <1>1, <1>2, <1>3, <1>4 DEF IInv, Pockets

LEMMA InvInit == Init => IInv
<1> SUFFICES ASSUME Init PROVE IInv
  OBVIOUS
<1>1. TypeOK
  BY TypeInit
<1>2. \A p \in Plans : results[p] = <<>> /\ \A u \in Publishers : history[u][p] = <<>>
  BY DEF Init, Nothing
<1>3. HistoryKnown /\ StatusesTrue /\ ResultsOwn
  BY <1>2 DEF HistoryKnown, StatusesTrue, ResultsOwn
<1>4. \A u \in Publishers, i \in Items : found[u][i].number = 0 /\ mappings[u][i] = 0
  BY DEF Init, Absent, Unmapped
<1>5. Blank /\ FoundOwn /\ MappingsOwn
  BY <1>4 DEF Blank, FoundOwn, MappingsOwn
<1>6. MarkersTrue
  BY DEF Init, MarkersTrue
<1> QED
  BY <1>1, <1>3, <1>5, <1>6 DEF IInv

-----------------------------------------------------------------------------
(* A recorded mapping names an issue that was created for its item, or one *)
(* whose marker people changed, whoever publishes beside whom.             *)
THEOREM OwnIssues == Spec => []MappedToOwn
<1>1. IInv => MappedToOwn
  <2> SUFFICES ASSUME IInv, NEW p \in Plans, NEW k \in DOMAIN results[p],
                      NEW i \in MappedItems(results[p][k])
               PROVE  Own(p, i, results[p][k].mappings[i])
    BY DEF MappedToOwn, Own
  <2>1. k \in 1 .. Len(results[p])
    BY DEF IInv, TypeOK
  <2> QED
    BY <2>1 DEF IInv, ResultsOwn, MappedItems
<1> QED
  BY <1>1, InvInit, InvNext, PTL DEF Spec

(* No later result, of whichever publisher, takes back that a plan is      *)
(* completely published.                                                   *)
THEOREM CompleteForEver == Spec => StaysComplete
<1>1. ASSUME IInv, [Next]_vars, NEW p \in Plans, Complete(p) PROVE Complete(p)'
  <2>1. TypeOK /\ HistoryKnown /\ StatusesTrue
    BY <1>1 DEF IInv
  <2>2. results[p] \in Seq(Result) /\ results[p] # <<>>
        /\ results[p][Len(results[p])].status = "complete"
    BY <1>1, <2>1 DEF TypeOK, Complete
  <2>3. CASE results' = results
    BY <1>1, <2>3 DEF Complete
  <2>4. ASSUME NEW u \in Publishers, Persist(u) PROVE Complete(p)'
    <3>1. /\ Plan(u) \in Plans
          /\ \A q \in Plans : q # Plan(u) => results'[q] = results[q]
          /\ \A k \in 1 .. Len(results[p]) : results'[p][k] = results[p][k]
      BY <1>1, <2>4, Persisted
    <3>2. /\ results'[Plan(u)][Len(history[u][Plan(u)]) + 1] = Content(u)
          /\ Len(results'[Plan(u)]) \in {Len(results[Plan(u)]), Len(history[u][Plan(u)]) + 1}
      BY <1>1, <2>4, Persisted
    <3>3. CASE p # Plan(u)
      BY <2>2, <3>1, <3>3 DEF Complete
    <3>4. CASE p = Plan(u) /\ Len(results'[p]) = Len(results[p])
      <4>1. Len(results[p]) \in 1 .. Len(results[p])
        BY <2>2
      <4>2. results'[p] \in Seq(Result)
        BY <1>1, <2>1, TypeNext DEF TypeOK
      <4>3. results'[p][Len(results'[p])].status = "complete" /\ results'[p] # <<>>
        BY <2>2, <3>1, <3>4, <4>1, <4>2
      <4> QED
        BY <4>3 DEF Complete
    <3>5. CASE p = Plan(u) /\ Len(results'[p]) # Len(results[p])
      <4> DEFINE h == history[u][p]
                 last == results[p][Len(results[p])]
      <4>1. h \in Seq(Result) /\ Len(h) <= Len(results[p])
            /\ \A k \in 1 .. Len(h) : h[k] = results[p][k]
        BY <2>1 DEF TypeOK, HistoryKnown
      <4>2. results'[p] \in Seq(Result) /\ Len(results[p]) <= Len(results'[p])
        BY <1>1, <2>1, <2>4, TypeNext, Persisted DEF TypeOK
      <4>3. Len(h) = Len(results[p]) /\ Len(h) \in Nat \ {0} /\ h[Len(h)] = last
        BY <2>2, <3>2, <3>5, <4>1, <4>2
      <4>4. WithDraft(u)[p] = Append(h, Content(u))
        BY <2>1, <3>5, DraftType
      <4>5. Cumulative(WithDraft(u)[p])
        BY <2>4 DEF Persist, Readable
      <4>6. /\ Len(WithDraft(u)[p]) = Len(h) + 1
            /\ WithDraft(u)[p][Len(h) + 1] = Content(u)
            /\ WithDraft(u)[p][Len(h)] = last
        BY <2>1, <4>1, <4>3, <4>4, ContentType
      <4> HIDE DEF last, h
      <4>7. \A i \in MappedItems(last) : Content(u).mappings[i] = last.mappings[i]
        <5>1. Len(h) + 1 \in 2 .. Len(WithDraft(u)[p])
          BY <4>3, <4>6
        <5>2. \A i \in MappedItems(WithDraft(u)[p][(Len(h) + 1) - 1]) :
                WithDraft(u)[p][Len(h) + 1].mappings[i]
                  = WithDraft(u)[p][(Len(h) + 1) - 1].mappings[i]
          BY <4>5, <5>1 DEF Cumulative
        <5>3. (Len(h) + 1) - 1 = Len(h)
          BY <4>3
        <5> QED
          BY <4>6, <5>2, <5>3
      <4>8. MappedItems(last) = Items
        BY <2>1, <2>2 DEF StatusesTrue, StatusTrue, last
      <4>9. \A i \in Items : mappings[u][i] # 0
        BY <4>7, <4>8 DEF MappedItems, Content
      <4>10. Content(u).status = "complete"
        BY <4>9 DEF Content
      <4> QED
        BY <2>2, <3>2, <3>5, <4>2, <4>3, <4>10 DEF Complete, h
    <3> QED
      BY <3>3, <3>4, <3>5
  <2> QED
    BY <1>1, <2>3, <2>4, HistorySteps
<1>2. IInv /\ [Next]_vars => [\A p \in Plans : Complete(p) => Complete(p)']_vars
  BY <1>1
<1> QED
  BY <1>2, InvInit, InvNext, PTL DEF Spec, StaysComplete
=============================================================================
