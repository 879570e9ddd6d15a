---------------------------- MODULE GitHubWriter ----------------------------
(***************************************************************************)
(* Issue publication: createGitHubWriter().publish of                      *)
(* src/pipeline/github-writer.js with apply set.                           *)
(*                                                                         *)
(* A publisher is a process that runs publish for the plan its approval    *)
(* names: it loads the history of publication results from the artifact    *)
(* store, looks up the marker of every planned item in the tracker, and    *)
(* only then creates or updates the issues one by one, appending a result  *)
(* to the store after each.  It may be killed between any two calls, a     *)
(* call of the tracker may fail before or after it took effect, people     *)
(* edit issues meanwhile, a new analysis may replace the plan, and other   *)
(* publishers may run beside it.  The user repeats the command.            *)
(*                                                                         *)
(* Abstractions: the gates of publish (a valid plan, the audit, the state, *)
(* the readiness verdict) are functions of the immutable artifacts that    *)
(* the command found for the plan, and pass; there is one                  *)
(* repository; the title, body, labels and milestone of an issue are one   *)
(* text, as planned or edited; a URL is its issue number; the artifact     *)
(* store appends atomically (module ArtifactStore); the tracker finds an   *)
(* issue as soon as it exists.                                             *)
(***************************************************************************)
EXTENDS Naturals, Sequences, FiniteSets

CONSTANTS
    Publishers,
    PlanCount,      \* the plans that follow each other in the artifact store
    ItemCount,      \* the issues of a plan, in the order of their ids
    Approvals,      \* the signed approval records: [id, plan, actor]
    Registry,       \* the trusted authority registry: [actor, role, publishes]
    MaxRevision,    \* MAX_REVISION of the artifact store, 999999 in the code
    MaxIssues,      \* bound: the issues the tracker can hold
    MaxFaults,      \* bound: how many calls fail and publishers are killed
    MaxEdits        \* bound: how often people edit an issue or its marker

Plans == 1 .. PlanCount
Items == 1 .. ItemCount
Numbers == 1 .. MaxIssues
Markers == Plans \X Items
NoMarker == <<>>

ASSUME CountAssumption == PlanCount \in Nat \ {0} /\ ItemCount \in Nat \ {0}
ASSUME IssueAssumption == MaxIssues \in Nat /\ MaxRevision \in Nat
ASSUME ApprovalAssumption == Approvals # {} /\ \A a \in Approvals : a.plan \in Plans
ASSUME BoundAssumption == MaxFaults \in Nat /\ MaxEdits \in Nat

(* The mappings of a publication result, 0 where an item has none.         *)
Mappings == [Items -> Numbers \union {0}]

(* canonicalAuthorityRegistry accepts an actor once.                       *)
ASSUME RegistryAssumption ==
    \A row, other \in Registry : row.actor = other.actor => row = other

(* The actors that may approve a publication: their role and their routes. *)
Trusted ==
    {row.actor : row \in {r \in Registry : r.publishes /\ r.role \in {"CEO", "USER"}}}

(* A github-publication-result artifact; failed = 0 when it has no failure.*)
Result == [approval : Approvals, mappings : Mappings,
           failed : Items \union {0}, status : {"complete", "retryable"}]

(* A planned item as reconciled against the tracker.                       *)
Remote == [number : Numbers \union {0}, text : {"planned", "edited"}]

Issue == [marker : Markers \union {NoMarker}, text : {"planned", "edited"},
          born : Markers, retagged : BOOLEAN]

VARIABLES
    current,    \* the plan that the artifact store holds last
    tracker,    \* the issues of the repository; an issue's number is its index
    results,    \* results[p]: the publication results of plan p in the store
    pc,         \* pc[u]: the next step of publisher u
    job,        \* job[u]: the approval that u publishes under
    history,    \* history[u]: the results that u has loaded or appended
    mappings,   \* mappings[u]: the issues u knows for the items of its plan
    found,      \* found[u]: what the preflight of u found for each item
    cursor,     \* cursor[u]: the item u is at
    failed,     \* failed[u]: the item whose transient failure u records
    faults, edits

local == <<pc, job, history, mappings, found, cursor, failed>>
counters == <<faults, edits>>
vars == <<current, tracker, results, local, counters>>

Phases == {"idle", "load", "find", "apply", "transient", "persist"}

Nothing == [p \in Plans |-> <<>>]
Unmapped == [i \in Items |-> 0]
Absent == [number |-> 0, text |-> "planned"]
AnyApproval == CHOOSE a \in Approvals : TRUE

TypeOK ==
    /\ current \in Plans
    /\ tracker \in Seq(Issue) /\ Len(tracker) <= MaxIssues
    /\ results \in [Plans -> Seq(Result)]
    /\ pc \in [Publishers -> Phases]
    /\ job \in [Publishers -> Approvals]
    /\ history \in [Publishers -> [Plans -> Seq(Result)]]
    /\ mappings \in [Publishers -> Mappings]
    /\ found \in [Publishers -> [Items -> Remote]]
    /\ cursor \in [Publishers -> Items]
    /\ failed \in [Publishers -> Items \union {0}]
    /\ faults \in 0 .. MaxFaults
    /\ edits \in 0 .. MaxEdits

Init ==
    /\ current = 1
    /\ tracker = <<>>
    /\ results = Nothing
    /\ pc = [u \in Publishers |-> "idle"]
    /\ job = [u \in Publishers |-> AnyApproval]
    /\ history = [u \in Publishers |-> Nothing]
    /\ mappings = [u \in Publishers |-> Unmapped]
    /\ found = [u \in Publishers |-> [i \in Items |-> Absent]]
    /\ cursor = [u \in Publishers |-> 1]
    /\ failed = [u \in Publishers |-> 0]
    /\ faults = 0 /\ edits = 0

-----------------------------------------------------------------------------
(* What a publisher accepts as history *)

MappedItems(r) == {i \in Items : r.mappings[i] # 0}

(* canonicalApproval: the approval names this plan, and its signature is   *)
(* that of an actor whom the registry lets publish.                        *)
Authentic(a, p) == a.plan = p /\ a.actor \in Trusted

(* The rows of validateHistorySemantics: an approval bound to the plan,    *)
(* at most one failure and none of a mapped item, no failure when complete.*)
RowSound(p, r) ==
    /\ Authentic(r.approval, p)
    /\ r.failed \notin MappedItems(r)
    /\ r.status = "complete" => r.failed = 0

(* The mappings of a revision contain those of the revision before it.     *)
Cumulative(rows) ==
    \A k \in 2 .. Len(rows) : \A i \in MappedItems(rows[k - 1]) :
        rows[k].mappings[i] = rows[k - 1].mappings[i]

(* An approval record is used in one form only.                            *)
ApprovalsAgree(r, other) == r.approval.id = other.approval.id => r.approval = other.approval

(* A number, like a local issue, is mapped by one fact only.               *)
NumbersAgree(p, r, q, other) ==
    \A i \in MappedItems(r), j \in MappedItems(other) :
        r.mappings[i] = other.mappings[j] => p = q /\ i = j

(* validateHistorySemantics *)
Readable(rows) ==
    /\ \A p \in Plans :
         Cumulative(rows[p]) /\ \A k \in DOMAIN rows[p] : RowSound(p, rows[p][k])
    /\ \A p, q \in Plans : \A k \in DOMAIN rows[p], l \in DOMAIN rows[q] :
         /\ ApprovalsAgree(rows[p][k], rows[q][l])
         /\ NumbersAgree(p, rows[p][k], q, rows[q][l])

(* currentHistory: a status that says what the mappings say.               *)
StatusTrue(r) == (r.status = "complete") <=> (MappedItems(r) = Items)

Current(rows, p) == \A k \in DOMAIN rows[p] : StatusTrue(rows[p][k])

(* The replay check of publish itself: the approval against the history.   *)
NotReplayed(rows, a) ==
    \A p \in Plans : \A k \in DOMAIN rows[p] :
        rows[p][k].approval.id = a.id => rows[p][k].approval = a

(* mappingsFromHistory, for a history that is cumulative.                  *)
LatestMappings(rows) == IF rows = <<>> THEN Unmapped ELSE rows[Len(rows)].mappings

-----------------------------------------------------------------------------
(* Moves of a publisher *)

Plan(u) == job[u].plan
(* A slip for Marker: the marker does not name the plan.                   *)
MarkerOfItem(u, i) == <<1, i>>

Marker(u, i) == <<Plan(u), i>>

(* publish returns or throws: whatever it held is gone with it.            *)
Reset(u) ==
    /\ pc' = [pc EXCEPT ![u] = "idle"]
    /\ job' = [job EXCEPT ![u] = AnyApproval]
    /\ history' = [history EXCEPT ![u] = Nothing]
    /\ mappings' = [mappings EXCEPT ![u] = Unmapped]
    /\ found' = [found EXCEPT ![u] = [i \in Items |-> Absent]]
    /\ cursor' = [cursor EXCEPT ![u] = 1]
    /\ failed' = [failed EXCEPT ![u] = 0]

Throw(u) == Reset(u)
Return(u) == Reset(u)

(* retryableFailure: a code of the closed registry goes to the transient   *)
(* result, any other error is thrown.                                      *)
Fault(u) ==
    /\ faults < MaxFaults
    /\ faults' = faults + 1
    /\ \/ /\ pc' = [pc EXCEPT ![u] = "transient"]
          /\ UNCHANGED <<job, history, mappings, found, cursor, failed>>
       \/ Throw(u)
    /\ UNCHANGED <<current, results, edits>>

(* claimMapping: n is claimed for item i unless another item of this or of *)
(* another plan claims it, in the history or in this run.                  *)
Claimable(u, i, n) ==
    /\ \A p \in Plans : \A k \in DOMAIN history[u][p] :
         \A j \in MappedItems(history[u][p][k]) :
            history[u][p][k].mappings[j] = n => p = Plan(u) /\ j = i
    /\ \A j \in Items \ {i} : found[u][j].number # n /\ mappings[u][j] # n

(* A slip for Content: the status says that the last item is reached.      *)
ContentByCursor(u) ==
    [approval |-> job[u], mappings |-> mappings[u], failed |-> failed[u],
     status |-> IF cursor[u] = ItemCount THEN "complete" ELSE "retryable"]

(* The result that u is about to append: publicationContent.               *)
Content(u) ==
    [approval |-> job[u], mappings |-> mappings[u], failed |-> failed[u],
     status |-> IF \A i \in Items : mappings[u][i] # 0 THEN "complete" ELSE "retryable"]

-----------------------------------------------------------------------------
(* The operation *)

(* The user runs issues publish --apply: the command reads the current     *)
(* plan and its evidence, the approval is for it and the gates pass.       *)
Start(u, a) ==
    /\ pc[u] = "idle"
    /\ Authentic(a, current)
    /\ pc' = [pc EXCEPT ![u] = "load"]
    /\ job' = [job EXCEPT ![u] = a]
    /\ UNCHANGED <<current, tracker, results, history, mappings, found, cursor, failed, counters>>

Admissible(u) ==
    Readable(results) /\ Current(results, Plan(u)) /\ NotReplayed(results, job[u])

Load(u) ==
    /\ pc[u] = "load"
    /\ Admissible(u)
    /\ history' = [history EXCEPT ![u] = results]
    /\ mappings' = [mappings EXCEPT ![u] = LatestMappings(results[Plan(u)])]
    /\ pc' = [pc EXCEPT ![u] = "find"]
    /\ UNCHANGED <<current, tracker, results, job, found, cursor, failed, counters>>

LoadRefused(u) ==
    /\ pc[u] = "load"
    /\ ~Admissible(u)
    /\ Throw(u)
    /\ UNCHANGED <<current, tracker, results, counters>>

(* A slip for Matches: an issue is looked for by its whole body.           *)
MatchesByBody(m) == {n \in DOMAIN tracker : tracker[n] = [marker |-> m, text |-> "planned",
                                                         born |-> m, retagged |-> FALSE]}

(* findByMarker *)
Matches(m) == {n \in DOMAIN tracker : tracker[n].marker = m}

Recorded(u, i) == LatestMappings(history[u][Plan(u)])[i]

(* A slip for Consistent: a marker that no mapping records is a duplicate. *)
ConsistentRecorded(u, i) ==
    Matches(Marker(u, i)) = IF Recorded(u, i) = 0 THEN {} ELSE {Recorded(u, i)}

(* The preflight of one item accepts what the tracker answers: nothing, if *)
(* no issue is recorded, or one issue, the recorded one if there is one.   *)
Consistent(u, i) ==
    LET matches == Matches(Marker(u, i)) IN
    /\ Cardinality(matches) <= 1
    /\ Recorded(u, i) # 0 => matches = {Recorded(u, i)}
    /\ \A n \in matches : Claimable(u, i, n)

Find(u) ==
    /\ pc[u] = "find"
    /\ Consistent(u, cursor[u])
    /\ \/ /\ Matches(Marker(u, cursor[u])) = {}
          /\ UNCHANGED found
       \/ \E n \in Matches(Marker(u, cursor[u])) :
            found' = [found EXCEPT ![u][cursor[u]] = [number |-> n, text |-> tracker[n].text]]
    /\ IF cursor[u] < ItemCount
       THEN cursor' = [cursor EXCEPT ![u] = @ + 1] /\ UNCHANGED pc
       ELSE cursor' = [cursor EXCEPT ![u] = 1] /\ pc' = [pc EXCEPT ![u] = "apply"]
    /\ UNCHANGED <<current, tracker, results, job, history, mappings, failed, counters>>

FindRefused(u) ==
    /\ pc[u] = "find"
    /\ ~Consistent(u, cursor[u])
    /\ Throw(u)
    /\ UNCHANGED <<current, tracker, results, counters>>

FindFails(u) ==
    /\ pc[u] = "find"
    /\ Fault(u)
    /\ UNCHANGED tracker

(* A slip for Settle: one result is appended, after the last item.         *)
SettleInBatch(u, n) ==
    /\ mappings' = [mappings EXCEPT ![u][cursor[u]] = n]
    /\ IF cursor[u] < ItemCount
       THEN cursor' = [cursor EXCEPT ![u] = @ + 1] /\ UNCHANGED pc
       ELSE pc' = [pc EXCEPT ![u] = "persist"] /\ UNCHANGED cursor
    /\ UNCHANGED <<job, history, found, failed>>

(* The issue of the item is known and verified: it becomes a mapping that  *)
(* is to be appended, unless its number is claimed or is not the recorded. *)
Settle(u, n) ==
    LET i == cursor[u] IN
    IF Claimable(u, i, n) /\ Recorded(u, i) \in {0, n}
    THEN /\ mappings' = [mappings EXCEPT ![u][i] = n]
         /\ pc' = [pc EXCEPT ![u] = "persist"]
         /\ UNCHANGED <<job, history, found, cursor, failed>>
    ELSE Throw(u)

AtItem(u, remote) == pc[u] = "apply" /\ found[u][cursor[u]] = remote

(* The preflight found the issue as planned: no call is made.              *)
Adopt(u) ==
    \E n \in Numbers :
      /\ AtItem(u, [number |-> n, text |-> "planned"])
      /\ Settle(u, n)
      /\ UNCHANGED <<current, tracker, results, counters>>

NewIssue(u) ==
    [marker |-> Marker(u, cursor[u]), text |-> "planned",
     born |-> Marker(u, cursor[u]), retagged |-> FALSE]

(* createIssue at the tracker.                                             *)
Created(u) ==
    /\ AtItem(u, Absent)
    /\ Len(tracker) < MaxIssues
    /\ tracker' = Append(tracker, NewIssue(u))

Create(u) ==
    /\ Created(u)
    /\ Settle(u, Len(tracker) + 1)
    /\ UNCHANGED <<current, results, counters>>

(* The issue exists, but the answer is lost or is not the desired issue.   *)
CreateAnswerLost(u) ==
    /\ Created(u)
    /\ Fault(u)

CreateFails(u) ==
    /\ AtItem(u, Absent)
    /\ Fault(u)
    /\ UNCHANGED tracker

(* updateIssue: the body, with the marker in it, is the planned one again. *)
Updated(u, n) ==
    /\ AtItem(u, [number |-> n, text |-> "edited"])
    /\ tracker' = [tracker EXCEPT ![n] =
                    [@ EXCEPT !.text = "planned", !.marker = Marker(u, cursor[u])]]

Update(u) ==
    \E n \in Numbers :
      /\ Updated(u, n)
      /\ Settle(u, n)
      /\ UNCHANGED <<current, results, counters>>

UpdateAnswerLost(u) == \E n \in Numbers : Updated(u, n) /\ Fault(u)

UpdateFails(u) ==
    /\ \E n \in Numbers : AtItem(u, [number |-> n, text |-> "edited"])
    /\ Fault(u)
    /\ UNCHANGED tracker

(* transientResult: the failure of an item that is mapped is returned and  *)
(* not recorded, the failure of another is appended with the mappings.     *)
Transient(u) ==
    /\ pc[u] = "transient"
    /\ IF mappings[u][cursor[u]] # 0
       THEN Return(u)
       ELSE /\ failed' = [failed EXCEPT ![u] = cursor[u]]
            /\ pc' = [pc EXCEPT ![u] = "persist"]
            /\ UNCHANGED <<job, history, mappings, found, cursor>>
    /\ UNCHANGED <<current, tracker, results, counters>>

(* A slip for Continue: publish ends after a failure only.                 *)
ContinueUnbounded(u, rows) ==
    IF failed[u] # 0
    THEN Return(u)
    ELSE /\ history' = [history EXCEPT ![u] = rows]
         /\ cursor' = [cursor EXCEPT ![u] = @ + 1]
         /\ pc' = [pc EXCEPT ![u] = "apply"]
         /\ UNCHANGED <<job, mappings, found, failed>>

(* After persist: the next item, or the end of publish.                    *)
Continue(u, rows) ==
    IF failed[u] # 0 \/ cursor[u] = ItemCount
    THEN Return(u)
    ELSE /\ history' = [history EXCEPT ![u] = rows]
         /\ cursor' = [cursor EXCEPT ![u] = @ + 1]
         /\ pc' = [pc EXCEPT ![u] = "apply"]
         /\ UNCHANGED <<job, mappings, found, failed>>

(* The content of the latest known revision is not appended again.         *)
Unchanged(u) ==
    LET rows == history[u][Plan(u)] IN rows # <<>> /\ rows[Len(rows)] = Content(u)

WithDraft(u) == [history[u] EXCEPT ![Plan(u)] = Append(@, Content(u))]

(* A slip for Appendable: a stored revision is overwritten.                *)
Overwritable(u) == Len(history[u][Plan(u)]) + 1 <= MaxRevision

(* store.append of the revision after the latest known one: a revision that*)
(* is stored already and equal, or a new one up to the last there can be.  *)
Appendable(u) ==
    LET next == Len(history[u][Plan(u)]) + 1
        stored == results[Plan(u)] IN
    IF next <= Len(stored) THEN stored[next] = Content(u) ELSE next <= MaxRevision

Stored(u) ==
    LET next == Len(history[u][Plan(u)]) + 1 IN
    [results EXCEPT ![Plan(u)] =
        IF next <= Len(@) THEN [@ EXCEPT ![next] = Content(u)] ELSE Append(@, Content(u))]

PersistUnchanged(u) ==
    /\ pc[u] = "persist"
    /\ Unchanged(u)
    /\ Continue(u, history[u])
    /\ UNCHANGED <<current, tracker, results, counters>>

Persist(u) ==
    /\ pc[u] = "persist"
    /\ ~Unchanged(u)
    /\ Readable(WithDraft(u)) /\ Appendable(u)
    /\ results' = Stored(u)
    /\ Continue(u, WithDraft(u))
    /\ UNCHANGED <<current, tracker, counters>>

(* The draft contradicts the history, or the store refuses the revision.   *)
PersistRefused(u) ==
    /\ pc[u] = "persist"
    /\ ~Unchanged(u)
    /\ ~(Readable(WithDraft(u)) /\ Appendable(u))
    /\ Throw(u)
    /\ UNCHANGED <<current, tracker, results, counters>>

-----------------------------------------------------------------------------
(* The environment *)

(* The process is killed, or a call of the artifact store fails.           *)
Crash(u) ==
    /\ pc[u] # "idle"
    /\ faults < MaxFaults
    /\ faults' = faults + 1
    /\ Reset(u)
    /\ UNCHANGED <<current, tracker, results, edits>>

(* A new analysis stores the next plan; publishers are not told.           *)
Supersede ==
    /\ current < PlanCount
    /\ current' = current + 1
    /\ UNCHANGED <<tracker, results, local, counters>>

(* Someone edits the text of an issue and keeps its marker.                *)
Edit(n) ==
    /\ edits < MaxEdits
    /\ edits' = edits + 1
    /\ tracker[n].text = "planned"
    /\ tracker' = [tracker EXCEPT ![n].text = "edited"]
    /\ UNCHANGED <<current, results, local, faults>>

(* Someone removes the marker of an issue or replaces it by another one.   *)
Retag(n, m) ==
    /\ edits < MaxEdits
    /\ edits' = edits + 1
    /\ tracker[n].marker # m
    /\ tracker' = [tracker EXCEPT ![n] =
                    [@ EXCEPT !.text = "edited", !.marker = m, !.retagged = TRUE]]
    /\ UNCHANGED <<current, results, local, faults>>

Publish(u) ==
    \/ Load(u) \/ LoadRefused(u)
    \/ Find(u) \/ FindRefused(u)
    \/ Adopt(u) \/ Create(u) \/ Update(u)
    \/ Transient(u)
    \/ PersistUnchanged(u) \/ Persist(u) \/ PersistRefused(u)

TrackerFault(u) ==
    \/ FindFails(u)
    \/ CreateFails(u) \/ CreateAnswerLost(u)
    \/ UpdateFails(u) \/ UpdateAnswerLost(u)

People ==
    \E n \in DOMAIN tracker :
        Edit(n) \/ \E m \in Markers \union {NoMarker} : Retag(n, m)

Next ==
    \/ \E u \in Publishers :
         (\E a \in Approvals : Start(u, a)) \/ Publish(u) \/ TrackerFault(u) \/ Crash(u)
    \/ Supersede
    \/ People

Spec == Init /\ [][Next]_vars

(* A publisher that is not killed goes on, and a user with an approval     *)
(* publishes again and again.                                              *)
Fairness ==
    \A u \in Publishers :
        WF_vars(Publish(u)) /\ \A a \in Approvals : SF_vars(Start(u, a))

FairSpec == Spec /\ Fairness

-----------------------------------------------------------------------------
(* Properties *)

(* A publisher that runs alone creates no second issue for a marker while  *)
(* the first one carries it: neither a crash after createIssue, nor a lost *)
(* answer, nor a rerun does (the preflight of publish finds the marker).   *)
AtMostOneIssue ==
    \A n1, n2 \in DOMAIN tracker :
        /\ tracker[n1].born = tracker[n2].born
        /\ n1 < n2
        => tracker[n1].retagged

(* What publish appends never locks publish out: the whole history passes  *)
(* the checks that loadHistory and currentHistory will apply to it.        *)
HistoryReadable == Readable(results) /\ \A p \in Plans : Current(results, p)

(* A recorded mapping names an issue that was created for that item, or    *)
(* one whose marker people changed to it.                                  *)
MappedToOwn ==
    \A p \in Plans : \A k \in DOMAIN results[p] : \A i \in MappedItems(results[p][k]) :
        LET n == results[p][k].mappings[i] IN
        /\ n \in DOMAIN tracker
        /\ tracker[n].born = <<p, i>> \/ tracker[n].retagged

(* A plan that is recorded as completely published stays so: no later      *)
(* result, of whichever publisher or approval, is retryable.               *)
Complete(p) == results[p] # <<>> /\ results[p][Len(results[p])].status = "complete"

StaysComplete == [][\A p \in Plans : Complete(p) => Complete(p)']_vars

(* The results refine a registry that is written once per item.            *)
Numbering ==
    INSTANCE PublicationRegistry
    WITH number <- [m \in Markers |-> LatestMappings(results[m[1]])[m[2]]]

WrittenOnce == Numbering!Spec

(* A user who repeats the command gets the current plan published,         *)
(* whatever failed before, unless somebody changed a marker or no record   *)
(* is left that was not signed for an earlier plan too.                    *)
Unspent(a) == \A b \in Approvals : b.id = a.id => b.plan >= a.plan

Publishable(p) == \E a \in Approvals : Authentic(a, p) /\ Unspent(a)

Untouched == \A n \in DOMAIN tracker : ~tracker[n].retagged

EventuallyPublished ==
    \A p \in Plans :
        current = p /\ Publishable(p) /\ Untouched
            ~> Complete(p) \/ current # p \/ ~Untouched
=============================================================================
