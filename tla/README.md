# Verification of toss-cli

TLA+ models of toss-cli, the TLC runs that check them on small instances, and
TLAPS proofs of the most important results for every value of the constants.
Every definition is translated from `src/`; `PROJECT.json` maps each one to the
lines it stands for, lists the runs, the hazards they are aimed at and, for each
checked property, a plausible bug of the code (a *faulty* operator) that breaks it.

## 1. Inventory

toss-cli turns a project description into GitHub issues through a pipeline of
JSON artifacts: a PM analysis, decisions on its questions, an architecture with
ADRs, an issue plan, an audit, and a publication. Every command is one Node.js
process; processes share nothing but the artifact directory on disk (and, for
publication, the GitHub tracker). There is no server and no daemon: concurrency
is *two command lines at the same time*, failure is *a process killed between
two awaited calls*, and recovery is *typing the command again*.

| component (source) | state | operations | hard behaviour | what makes it correct |
|---|---|---|---|---|
| append lock (`artifacts/store.js` 350-530, 940-1035) | the file `.append.lock`: inode, owner text, mtime | acquire, judge, break, release | every file-system call is a point of interleaving; owners die; inode numbers come back | exclusion, no false alarm, termination, stale locks broken, an interrupted creation recoverable |
| artifact store (`artifacts/store.js`) | revision files, temporary files | `append`, `list`, `get`, `verify`, `recover` | crash before/after rename, failed sync after rename, readers without lock | append-only revision log, never forked, no dangling reference, retries idempotent, consistent reads |
| analysis state machine (`pipeline/state-machine.js`) | none (a function of state, event, context) | `transition` | embedded packages, gates, which documents an event must bind | only declared and evidenced transitions |
| analysis orchestrator (`pipeline/orchestrator.js`) | the transition stream in the store | `runNextStage`, `resumeAnalysis`, `verifyTransitionChain` | derives an event on a snapshot, appends it later; halts and recoveries; restart by a new source | what is appended always replays |
| project commands (`commands/project.js`, `evidence.js`) | the catalog of one command | create, analyze, prepare, resume | several appends per command, death in between, concurrent commands | READY only on stored, audited evidence; a retry completes |
| decision and architecture commands (`commands/decisions.js`, `architecture.js`, `gate-support.js`) | rows of answers and approvals | `decisions answer`, `architecture approve` | row first, transition second; records claimed twice; conflicting answers | one answer per question; success is honest |
| catalog and project input (`pipeline/project-input.js`) | snapshot of the store per command | read, append, refresh | stale snapshot | optimistic appends refused when stale |
| validators (`pm-analysis.js`, `architecture.js`, `issue-plan.js`, `spec-auditor.js`) | none | validate, audit | verdicts combine with answers and approvals | a verdict never rests on what is not bound |
| decision packages (`pipeline/decisions.js`) | none | build, resolve, gate | classification, merging by meaning, dependencies, signatures | the gate opens only when each source question has been decided by its own authority |
| GitHub publication (`github-writer.js`, `github-adapter.js`, `commands/issues.js`) | the stored publication results, the remote issues, mappings in the memory of one publisher | preflight, create, update, persist | lost answers, death between create and persist, two publishers, people who edit issues | at most one issue per planned item, results written once and always readable, a rerun finishes |
| design pipeline (`design-*.js`, `commands/design.js`) | design documents, one state history | classify, prepare, approve, continue | documents first, state last; two commands on one snapshot; a base that moves | gates in order, nothing stored before its gate, the history replays, readiness earned |
| readiness, traceability, audit reports (`readiness.js`, `traceability.js`, `commands/readiness.js`, `audit.js`, `trace.js`, `plan.js`) | the stored audit | audit, check, trace | five validators with rules of their own over the same documents | what is called ready can be delivered; what the audit passed is not refused later |
| feature delta (`feature-delta.js`, `commands/feature.js`) | stages of a delta | add, analyze, prepare | stages written by two clients, a base analysed again | one chain over one base |
| contracts, CLI, governance, release tooling | none | validation, parsing, formatting, scripts | none that a model checker reaches | — |

Interactions: commands call the orchestrator and the verified catalog; both call
the store; the store calls the lock. Commands see each other only through
revisions that the other has appended, and through the store refusing a revision
that is not the next.

## 2. Modules

```
StoreLock ──────────── MCStoreLock       StoreLock_proof
   (seen from above as LockIsExclusive)
RevisionLog <= ArtifactStore ── MCArtifactStore   ArtifactStore_proof
   (one append = one step, refused when stale)
AnalysisChain <- Analysis ── MCAnalysis   Analysis_proof <- AnalysisReady_proof
   (what Analysis takes as verdicts is computed from documents in)
DecisionPackage <- SpecDocuments <- Delivery ── MCDelivery   Delivery_proof
   (a source that is READY_FOR_ISSUES is published by)
PublicationRegistry <= GitHubWriter ── MCGitHubWriter   GitHubWriter_proof <- GitHubHistory_proof
   (beside the analysis, over the same store)
ApprovalLadder <= Design -> DesignGraph,  Design ── MCDesign   Design_proof
```

`<-` extends, `<=` is implemented by.

### StoreLock: the append lock

One client is one `append` or `recover`. Every awaited call of
`acquireStoreLock`, `readLockState`, `unlinkIfSame`, `createStoreLock` and
`releaseStoreLock` is an action: `CreateLock`/`LockExists` (`open` with
`O_EXCL`), `CheckCreated`, `WriteOwner`, `StatLock`, `OpenLock`, `JudgeLock`,
`BreakStat`/`BreakUnlink` (the two calls of `unlinkIfSame`),
`UndoStat`/`UndoUnlink`, `ReleaseStat`/`ReleaseUnlink`. `text[i]` is what inode
`i` says about its owner, `aged` the inodes past `LOCK_INITIALIZING_GRACE_MS`.
`Die` kills a process at any step, and a free inode number may be given out again.

### ArtifactStore and RevisionLog: the store

`append` is split where the code awaits: snapshot and decision
(`AppendReuses`, `AppendRejects`, `AppendAccepts`), `CreateTemp`, `WriteTemp`,
`CheckAbsent`, `Rename`, `Confirm`, with `WriteFails` and `SyncFails` for the
error paths. The tree is scanned one directory after the other (`ReadRoot`,
`StatRoot`, `ListDirectory`, `StatEntries`), by a reader without a lock and by
`recover` under it; files come and go between these calls, and an entry that is
gone at its `lstat` ends the operation in an error (`ScanFails`). `recover` keeps
the list of its one scan (`temporaryPaths`) and takes it up file by file: the
owner is judged and the file looked up (`SweepOne`), then unlinked
(`SweepUnlink`). The lock appears as `holder`;
`LockIsExclusive` says whether breaking it can let a second client in: TRUE is
what StoreLock guarantees until an owner dies, FALSE is what the run
`lock_stale_race` shows afterwards.

`RevisionLog` is what the store promises: per identity an append-only log, one
entry at a time. `ArtifactStore` implements it (`Log == INSTANCE RevisionLog WITH
log <- Logs`, checked and proved as the property `ImplementsRevisionLog`).

### AnalysisChain: transition and verification

`Accepts(x)` is `transition` returning for the event `x`: `Legal` is
`resolveDeclaredTarget` with the table `Declared`, `Bound` the required
artifacts and their lineage, `Evidence` the gates (`assertGraphEvidence`).
`Recorded(x)` is what of the package the event embeds; `ChainVerifies` is
`verifyTransitionChain`. Documents are model values; what the validators say of
them is a constant (`Design[a]`, `Outline[p]`), and how this combines with
answers, approvals and packages is modelled (`ArchitectureComplete`,
`PlanComplete`, `AuditReady`).

### Analysis: the commands over one store

State: the transition stream `events`, the revisions `rows[d]` of every other
identity, how many aggregates have been `supplied`, and for each client its
`catalog` and its `job`. A catalog is kept as the *lengths* of the prefixes the
command knows, which is exact because streams only grow and an append is accepted
only after what the command knows. `Call(v, j)` is the next call a command makes
on its view `v`: an append to an identity (`put`), an append to the stream
(`emit`), the return, or a throw. Each `...Call` operator is one handler:

| operator | code |
|---|---|
| `AnalyzeCall`, `ArchitectureCall`, `FinalizeCall`, `AuditCall`, `PrepareCall` | the stages of `prepareProject` |
| `RecoverCall` | `resumeProject` with `assertRecoveryEvidence` |
| `AnswerCall`, `SettleCall` | `answerDecision` before and after its append |
| `ApproveCall`, `ConfirmCall` | `approveArchitecture` before and after its append |
| `ReportCall` | `runNextStage` with an explicit stop |
| `Persist` | `persistStage` |
| `RunNextStage` | `runNextStage` up to its append |

The steps are `AppendArtifact`, `AppendEvent` (one append through the store),
`ReturnResult` (a command that has appended compares its catalog with the store),
`Fail` (a throw or a refused append) and `Interrupt` (the process dies).
`mishaps` is a history: the deaths and the reported stops, with the length of the
stream at each and whether a last decision was lost by it.

Modelling decisions a reader should know:

- A supplied document is numbered after those stored. One numbered otherwise is
  refused as stale until its producer supplies it again; this is left out.
- A command that is refused or satisfied on its first snapshot ends as it began
  and leaves no trace; it is not begun.
- The audit's revision is the plan's revision and it has no parent, so the store
  takes it only for revision 1 (see the findings).
- Non-blocking questions, which stop no gate, are left out. `decisions list`,
  `review`, the readiness report and the trace graph only read.

### DecisionPackage, SpecDocuments and Delivery: the documents themselves

`Analysis` takes the verdicts on documents as constants so that commands can
interleave; `Delivery` computes them. `DecisionPackage` is `decisions.js` as
operators over what the evidence says of each source question: `Authority`,
`RegistryValid`, `AttestationValid` (a signature verifies exactly when what it
covers is in the constant `Signed`), the merge of questions of one meaning
(`Sources`, `Severity`, `Substantiated`), their order (`Ordered`), the gate
(`CanContinue`) and the effect of an answer (`Answers`, `Resolve`).
`SpecDocuments` is the five validators over one *bundle* of documents:
`ArchitectureValid`/`ArchitectureComplete`, `PlanValid`, `AuditStatus`,
`TraceBuilds` with the trace graph edge by edge, and the rules of readiness
(`Failures`), which keep the names of the code's handlers.

`Delivery` runs the commands one after the other over them: `Analyze`, `Answer`,
`PrepareArchitecture`, `ApproveAdr`, `Finalize`, `Audit`, `Resume`, `AuditRun`
and `CheckReadiness`. `event` is the latest transition with the evidence that it
registers, `rows` the stored answers, `audit` and `verdict` the stored audit and
the last report of readiness. A command is one step: interleavings, deaths and
restarts are the subject of `Analysis`.

### GitHubWriter and PublicationRegistry: publication

One publisher is one `publish` with `apply`. Its actions are its calls: `Load`
(the history of results, verified as `Readable` and `Current`), `Find` (one
marker of the preflight), `Adopt`, `Create`, `Update`, `Persist`, each with its
refusals; `FindFails`, `CreateFails`, `CreateAnswerLost`, `UpdateFails`,
`UpdateAnswerLost` are the tracker, `Crash` the death of the process, `Edit`,
`Retag` and `Supersede` other people. `results[p]` are the stored revisions of
plan `p`, `history[u]` what publisher `u` has loaded and extended.
`PublicationRegistry` is the promise: an item is given a number once and for
ever, no number is given twice; `WrittenOnce` is the refinement.

### DesignGraph, Design and ApprovalLadder: design and features

`DesignGraph` holds the levels, the documents each requires and the rules that
make a set of documents a valid graph. In `Design` a command reads a snapshot,
verifies the whole state history (`HistoryVerifies`), computes all the drafts it
will append (`DesignDrafts`: the documents its gate admits in topological order,
then the state; `FeatureDrafts`: the stage of a delta, then the first state) and
appends them one by one (`AppendNext`) while others do the same; `Refused` is
the store's conflict, `Die` the death of the process, `Reanalyze` a new revision
of the base project. `ApprovalLadder` is the promise: rungs are climbed one at a
time, and a document is admitted to the store only on its rung.

## 3. Runs

| run | instance | shows |
|---|---|---|
| `lock` | 1 append, 1 recover, 3 inodes, 3 attempts, 2 deaths | exclusion and no false alarm until an owner dies; acquisition ends; a stale complete lock is broken |
| `lock_stale_race` (violation) | 3 appends, 1 death | breaking a stale lock is not atomic: two clients inside `withStoreLock` |
| `store` | 3 appends over 5 drafts, 1 reader, 1 death, exclusive lock | always readable, refines the log, consistent reads, idempotent retries |
| `store_lock_lost` | 2 appends of one draft, 2 recovers, 1 death, lock not exclusive | no temporary file is lost track of or taken from a live writer; recover sweeps, or fails on a file that has gone |
| `analysis` | 2 clients, 2 sources (a question with two rival answers; two ADRs) supplied at any time | stream replays, READY is earned, no conflicting answers, success is honest |
| `analysis_alone` | 1 client, 4 aggregates (an unsound one and its correction, two questions, an ADR), 1 death or one reported failure | completion under fairness, except in the three named situations, each of which is reached |
| `delivery` | 8 question sets, 9 submissions, 6 designs, 9 plans, good and bad, 2 revisions | the gate is earned, evidence is handed on, ready is deliverable, the validators agree |
| `delivery_adrs` (violation) | one critical question, one ADR to approve | the last approval is stored and the analysis never moves on |
| `publication` | 1 publisher, 2 plans of 2 items, 1 fault, 1 edit | one issue per item, own issues, written once, a rerun finishes |
| `publication_rivals` | 2 publishers, 2 plans of 1 item, 3 approvals, 1 fault | the history stays readable and a complete plan complete |
| `design` | 2 clients, 7 classifications, 5 graphs, 1 death, 1 new base | gates before documents, the history replays until the final approval, readiness earned, the ladder, completion |
| `design_bricked` (violation) | 2 clients, no death | after the final approval a second command makes the history unreadable |

The three violations are the `findings` of `PROJECT.json`, each with the line of
the repository it contradicts.

**Properties worth a comment.** `ReadyIsEarned` relates the last event of the
pipeline to the rows of the store at any later time. `SuccessIsHonest` is about two clients that
take the last two decisions (two approvals, or an answer twice) at the same time:
neither makes the transition, and the property says that not both are told they
succeeded.
`CompletesUnlessStuck` is the liveness of the whole pipeline. Its three exceptions
are `DecisionLost` (all decisions are stored, no command is about to notice, and
`mishaps` has a death between the last row and its transition, with the stream as
it was then), `PlansAmbiguous` (the same, where issue plans of two identities are
stored when the last approval arrives and `latestRows` throws: no death is needed)
and `Unresumable` (a halt that `resume` cannot verify). Without any one of them
the run has a counterexample.
`RecoverSweeps` promises what one listing under a lock that may be lost can
promise: what was left by a process that was dead before the scan. Its exception,
a recover that throws, is one of a lost lock only (`RecoverSucceeds`, section 4).
`EvidenceHolds` is what links the commands of `Delivery`: what one registers is
what the next reduces from the store, except in the three situations it names
(`AnsweredAgain`, `PartlyApproved`, `Recovered`), each of which the code does
lose. `ReadyIsDeliverable` states readiness in terms of the documents, not of the
rules: every requirement reaches an issue that has it and a criterion of this
issue that verifies it, and `Plannable` asks for an order of the issues instead
of the absence of a cycle. `ValidatorsAgree` compares audit and readiness, which
share no code. `HistoryReadable`, `HistoryReplaysUntilFinal` and `ChainReplays`
are of one kind: what a command appends never locks the next command out.
`EventuallyPublished` and `EventuallyApproved` name the situations in which a
person has to step in.

**Bounds.** Two clients are enough for the races of the commands, because each
race is between one decision on a snapshot and one foreign append; three are
needed for the lock (the one that judges, the one that breaks, the one that
died), and `lock_stale_race` has three. Two ADRs in `analysis`, and two questions
in `analysis_alone`, make "all decided" different from "one decided"; a second
question beside the two ADRs multiplies the states by four and adds no kind of step. `MaxMishaps` bounds deaths and reported
stops together (1 in `analysis_alone`, 0 in `analysis`, where a client that never
takes another step stands for a death as far as safety goes). `RetryLimit` is 3
for 200: the loop has no step that depends on the number. `MaxRevision` is 2 for
999999, so that the last revision is reached. `MaxDeaths` bounds killed processes.
`MaxEvents` ends recovery in streams longer than any run reaches otherwise.
Records are one per question in `analysis_alone`. Of its four plans two share an
identity, and the corrected one and the plan of the next source can both be stored
when the last source gets its approval, which makes two identities. In
`store_lock_lost` one draft and one directory are enough, because temporary files
meet in a directory and nothing there depends on what they hold; the second
recover is the one that removes a file under the first. `Delivery` has answers with a record used before, a signature given
for another question or by the wrong role; its `MaxRevisions` is 2, so that a
plan can be stored again after its audit. `MaxFaults` and `MaxEdits` are 1: a
rerun after one interruption starts from a state that any earlier interruption
could have left. In `publication` two items make "some are mapped" different from
"all are"; in `publication_rivals` one item per plan is enough, because
publishers meet only in the history. Of the levels of a design, the graphs of
STANDARD and CRITICAL differ from LITE by their documents only; the instance has
a STANDARD graph and a downgrade from CRITICAL.

**Deadlock.** The lock and store runs end when every operation has ended. A
pipeline, a delivery or a design that is finished or stuck has no command with an
effect. Hence `CHECK_DEADLOCK FALSE` in these runs; a publisher can always start
again, and deadlock is checked in the two publication runs.

**Fairness.** `StoreLock` and `ArtifactStore`: weak fairness of each live
client's next step, which is the event loop of its process completing the awaited
call; no fairness on deaths or on time. `Analysis`: weak fairness of `Step(c) \/
Proceed(c)`: a command that has begun goes on, and the user gives *some* next
command as long as one has an effect. Nobody is obliged to supply another
aggregate, to report a stop or to die, and the user may choose any of the
commands that have an effect. `GitHubWriter`: weak fairness of the calls of a
publisher, strong fairness of starting again with each approval, because a start
is possible only between two runs. `Design`: weak fairness of the appends and of
the end of an analysis of the base; strong fairness of the one command that
`next_action` names (`Advance`), because it is refused again and again while
another client is between its document and its state.

## 4. Proofs

| theorem | module | statement |
|---|---|---|
| `TypeCorrect` | `StoreLock_proof` | `Spec => []TypeOK` |
| `Exclusion` | `StoreLock_proof` | `Spec => []ExclusiveUntilOwnerDies` |
| `NoFalseAlarm` | `StoreLock_proof` | `Spec => []NoFalseAlarmUntilOwnerDies` |
| `TypeCorrect` | `ArtifactStore_proof` | `Spec => []TypeOK` |
| `Readable` | `ArtifactStore_proof` | with `LockIsExclusive`, `Spec => []StoreReadable` |
| `Implementation` | `ArtifactStore_proof` | with `LockIsExclusive`, `Spec => ImplementsRevisionLog` |
| `Committed` | `ArtifactStore_proof` | with `LockIsExclusive`, `Spec => []ReturnedIsCommitted` |
| `ReadsConsistent` | `ArtifactStore_proof` | with `LockIsExclusive`, `Spec => []ReadIsConsistent` |
| `RetriesAccepted` | `ArtifactStore_proof` | with `LockIsExclusive`, `Spec => StoredIsNeverRefused` |
| `NoTempLeft` | `ArtifactStore_proof` | `Spec => []TempsAccounted` |
| `LiveTempsSafe` | `ArtifactStore_proof` | `Spec => LiveTempsKept` |
| `RecoverSucceeds` | `ArtifactStore_proof` | with `LockIsExclusive`, `Spec => []RecoverNeverFails` |
| `RunNextStageProper` | `Analysis_proof` | what `runNextStage` appends is accepted as it is recorded |
| `TypeCorrect` | `Analysis_proof` | `Spec => []TypeOK` |
| `StreamReplays` | `Analysis_proof` | `Spec => []ChainReplays` |
| `OneAnswerPerPackage` | `Analysis_proof` | `Spec => []NoConflictingAnswers` |
| `SuccessHonest` | `Analysis_proof` | `Spec => SuccessIsHonest` |
| `ReadyEarned` | `AnalysisReady_proof` | `Spec => []ReadyIsEarned` |
| `DecisionGateIsEarned` | `Delivery_proof` | `Spec => []GateIsEarned` |
| `DeliveryTypes` | `Delivery_proof` | `Spec => []TypeOK` |
| `EvidenceIsHandedOn` | `Delivery_proof` | `Spec => []EvidenceHolds` |
| `AcyclicIsRankable` | `Delivery_proof` | a finite graph is `Acyclic` exactly when its nodes can be ranked |
| `ReadyDelivers` | `Delivery_proof` | `Spec => []ReadyIsDeliverable` |
| `ValidatorsConsistent` | `Delivery_proof` | `Spec => []ValidatorsAgree` |
| `WriterTypeCorrect` | `GitHubWriter_proof` | `Spec => []TypeOK` |
| `OwnIssues` | `GitHubWriter_proof` | `Spec => []MappedToOwn` |
| `CompleteForEver` | `GitHubWriter_proof` | `Spec => StaysComplete` |
| `NoDuplicateAlone` | `GitHubHistory_proof` | for one publisher, `Spec => []AtMostOneIssue` |
| `ReadableAlone` | `GitHubHistory_proof` | for one publisher, `Spec => []HistoryReadable` |
| `ReadableTogether` | `GitHubHistory_proof` | with `DistinctRecords`, `Spec => [](Untouched => HistoryReadable)` |
| `RegistryImplemented` | `GitHubHistory_proof` | for one publisher or without edits, `Spec => WrittenOnce` |
| `DesignTypes` | `Design_proof` | `Spec => []TypeOK` |
| `HistoriesReplay` | `Design_proof` | `Spec => []HistoryReplaysUntilFinal` |
| `FeatureChains` | `Design_proof` | `Spec => []FeatureChainReplays` |
| `GatesHold` | `Design_proof` | `Spec => []GateBeforePersist` |
| `ReadyEarned` | `Design_proof` | `Spec => []ReadyIsEarned` |
| `LadderImplemented` | `Design_proof` | `Spec => ImplementsLadder` |

*Exclusion.* `Exclusive` says nothing about clients on their way in or out. The
invariant `LockInv` adds that the client in possession is unique from its create
to its unlink, that its own file is at the path, and that nobody is between
judging and breaking a lock (`OneLivePossessor`); breaking needs a dead owner
that was named in a file, which `OwnersNamed` ties to the history `named`.
*NoFalseAlarm* is read off the same invariant: a file that nobody may break is
still there, with the same inode, when its owner checks or removes it.

*Readable.* A decision made on the snapshot must still be right at the rename.
`TargetReady` says that between them the target completes the files; it is kept
because an append between lock and unlock holds the lock (`GuardedHolds`).

*Implementation.* A log is the files of one identity read by revision. `Numbered`
says that these revisions are exactly 1 to their number, so that the logs are
well defined; a rename adds the next number to one identity, because the target
completes the files, and is the one step that changes a log.

*Committed, ReadsConsistent, RetriesAccepted.* Under an exclusive lock the files
only grow (`FilesGrow`), so what a client has seen in them stays there.
`AppendTracked` ties the target of an append to its draft and to the file that it
has renamed, `ReadTracked` says that everything that was stored when a reader
began is in its snapshot or in a directory that it has yet to list. A retry finds
its stored revision reusable, and the checks before that cannot fail over a
readable store (`StoredIsSound`).

*TypeCorrect, NoTempLeft, LiveTempsSafe* need no exclusive lock, and so hold after
the race of `lock_stale_race` too. That revision numbers stay in range takes that
a target has one (`TargetNumbered`), whatever became of the files meanwhile.

*RecoverSucceeds.* While recover holds an exclusive lock no live writer has a
temporary file, so what it lists belongs to the dead, and only the holder could
remove it: each file it has yet to look up is still there (`ListedFilesStay`), and
the one it is about to unlink is no longer among them.

*StreamReplays.* `ChainReplays` alone is not inductive: an event derived on a
snapshot is appended later. `CommandsProper` says that a command knows a prefix of
the stream and that its job is proper on this prefix (an answer that is about to
settle knows a stream that ends in a decision package, and so on). `CallProper`
then shows, handler by handler, that every call over a typed view is proper: the
event it emits may follow that prefix and is accepted *as recorded*. The last
point is the delicate one: `Recorded` may leave the package out, and
`RecordedAccepted` shows that no verdict rested on it, because a package that is
clear although it asks questions comes with answers (`Evident`). Since the store
takes an event only as the next one, or returns the equal one that is there, the
prefix is the whole stream or the event is in it already (`EventConsistent`).

*OneAnswerPerPackage.* Beside `Consistent`, the invariant of `StreamReplays`, an
answer is filed under its own question (`AnswersFiled`), and only `AnswerCall`
files one (`OnlyAnswersAnswer`). It does so when its view has no answer to the
question in the package; the store takes the row only when the view of this
identity is complete (`ViewComplete`), so what the view does not have is not
there.

*SuccessHonest.* The catalog a command looked at when it stored its answer may be
old by the time it decides that nothing is left to do. A command that settles or
confirms has changed the store (`Changed`), so it returns only over a catalog
equal to the store (`WholeView`), and what it decides on is the stream as it is.
There the package fits the decision that is waited for (`PackageFits`), because a
recovery, which could lead back to such a state with anything, embeds no package
(`RecoveriesBare`); so "nothing to do" means that the question or the ADR is
still open.

*ReadyEarned.* What the event AUDIT_PASSED rests on was read from a snapshot: a
package that is clear could owe a settled question to an answer the snapshot does
not have. `Grounded` says of the store, and of what each command knows of it,
that the stored answers and approvals are about questions and ADRs that exist
and that for every question settled in the latest package, or in the package
under an answer, the answer is known too. It is kept because every call adds only
what follows from what its command knows (`CallAdds`, handler by handler), and
because a view grows with the store by the same item (`ArtifactEarns`,
`EventEarns`). `DecidedByAnswers` is the point of it: a clear package has an
answer for each question. Rows are never taken back, so what an event has earned
stays earned (`EarnedWithin`).

*DecisionGateIsEarned.* The gate is judged on the package that the transition
holds, and the answers arrive one command at a time. The invariant `Inv` says
that along the way this is the package of the questions as they were asked
(`PackageIsOpen`), that a stored answer to a blocking question was signed by the
right role (`RowsEarned`), because the package it leads to has to build, and that
`project resume` does not lead back past the gate (`BlockedLate`). `GateResolves`
shows that an open gate leaves no blocking question without a resolution, also
when questions are merged under the strictest of their severities; it rests on
the existence of the least element of a set of naturals, which is taken from the
library's well-foundedness of `<`.

*DeliveryTypes, EvidenceIsHandedOn.* What the latest transition registers was
computed from the store as it was then; the next gate computes it again. The
invariant `Kept` adds to `Inv` that the two agree beyond the gate (`HandedOn`),
and the order in which things may come, without which that is not inductive:
approvals are given to exactly the pending ADRs of the latest design, between it
and the finalization (`ApprovalsInOrder`); the last approval drops the decision
package, which is harmless only because an architecture that is complete without
one has no blocking question and so no answers (`AskedToAnswer`,
`HarmlessContinue`); and the package of a transition beyond the gate has something
resolved, so an answer that arrives late is to another package than the one that
was asked (`PackageBeyond`), which is the case `AnsweredAgain` names.

*AcyclicIsRankable.* `Acyclic` and `Downstream` are recursive functions, and the
library's induction theorems cannot be instantiated. The proofs need only
induction over a *set* of naturals: a set that holds 0 and the successor of each
of its members leaves no least element outside (`Induction`, from the library's
well-foundedness of `<`). From it follow the existence of an iterated function
(`Iteration`), hence what the two definitions compute step by step, and that a
graph without a cycle can be ranked by the round in which a node is taken away.

*ReadyDelivers.* `AcceptedDelivers` is about documents only: what all rules of
readiness accept leads from each requirement to a criterion that verifies it, and
its issues can be put in an order. `VerdictStands` carries this through the
behaviour: a clear verdict is given in READY_FOR_ISSUES only, where no step
changes the documents or the approvals (`ReadySteps`).

*ValidatorsConsistent.* Over one bundle, an audit that passes without a warning
implies every rule of readiness about the documents (`PassedIsReady`) and a trace
graph without orphans and cycles (`PassedTraces`; the ranking goes requirement,
question, ADR and epic, the issues in their order, criterion). But the two
commands are given different bundles: `AuditHandedOn` says that the stored audit
was taken over what is stored now, which a late answer can only break by breaking
the evidence as well (`LateAnswer`); and `SameAudit` that the package which
`project prepare` computes and the one which `audit run` and `readiness check`
take lead to the same audit, although one is the questions as they were asked and
the other is none (`PackagesAgree`). That the decisions of the bundle build takes
`GateOpened`: the single history of answers is that to the questions as asked.

*OwnIssues, CompleteForEver.* A recorded number comes from a publisher's memory,
and that from the tracker or from a history that was loaded earlier. The
invariant adds that everything a publisher carries (`mappings`, `found`, its
loaded `history`) names issues that are its own, and that a loaded history is a
prefix of the stored one; an append happens only at the end of the stored one,
so a complete result is never followed by one built on less.

*NoDuplicateAlone, ReadableAlone, ReadableTogether, RegistryImplemented.* A create
is safe when the preflight, some steps earlier, missed no issue that is there. Of
one publisher that holds: its history is what is stored (`Fresh`), and each item
before its cursor is settled, and each later one found or absent
(`NothingMissed`), also when an answer was lost after the create. An appended
result is the history with at most one mapping more (`OneAhead`), and the stored
results of one plan are sound by themselves (`RowsSound`); that they are readable
together takes that no number and no approval record serves two plans. Each hypothesis is one that the code needs (section 5): a
second publisher that starts while the first still runs does create issues twice
(`Alone`), two publishers that use one approval record for two plans do break
the replay check (`DistinctRecords`), and people who change a marker under two
publishers let a number serve two items (`Untouched`, `MaxEdits = 0`).

*The design proofs.* Builders decide on what they read, append some steps later
and share no lock over a command; what stops them is that a revision number can
be taken. So the inductive invariant `DInv` says of every queued draft that it
may be recorded after *whatever* others record before it: a state if its number
is still free (`StateAllowed`), a document always, because some recorded state
admits it (`DocAllowed`), a stage if its number is free (`FeatureAllowed`). These
are stable under every step (`Grown`), so the proof of an append is short and the
weight is on the decisions: one lemma for each state a design command can find
as the latest. A new state `Follows` its predecessor in all but one case: after
FINAL_APPROVAL_PENDING the same state may come again, if the final approval
document is stored already (`Repeats`). That is the defect of the run
`design_bricked`, and the reason why `HistoriesReplay` ends with that document.
For *ReadyEarned* the single complete state is the latest, because states climb
(`StatesClimb`); those before a recorded state follow each other
(`StateAllowed`), and a complete state is no repetition itself.
*LadderImplemented* maps each recorded state to a rung and each document
to `Keep`; a document whose rung is passed is one the store holds already.

Assumptions are the named `ASSUME`s of the modules: types of the constants, that
`None`, `NoInode`, `NoOwner`, `NoClient` are none of the things they stand beside,
and that the bounds are naturals. `DeliveryAssumption` also says that the
question registry is valid (a precondition of a PM analysis) and that answers and
documents are what their schemas let through: a supplied answer gives a resolution
for each question it names; ADRs and plans are finite, an ADR resolves a question,
a criterion verifies a requirement (`AdrsWellFormed`, `PlanWellFormed`, after
`adr.v1.schema.json` and `issue-plan.v1.schema.json`). `KindAssumption` says that
ids of different kinds of entities differ, which their patterns in the schemas
see to; the ranking of the trace graph rests on it. TLC evaluates the assumptions
in every run.

Only model-checked: liveness (`OperationEnds`, `StaleLockIsBroken`,
`RecoverSweeps`, `CompletesUnlessStuck`, `EventuallyPublished`,
`EventuallyApproved`), which is out of the prover's reach together with ENABLED.
Every invariant, action property and refinement that a passing run checks is
stated by a theorem, under the hypotheses in the table: `LockIsExclusive` where the
files of the store have to be right, and those of the publication.

## 5. Limits

**What the code does and no run asserts.** Met while modelling; each follows from
definitions of the modules, and the properties name it as an exception where
they have to.

- *Lock.* A process killed between the creation of the lock file and the write of
  its owner leaves a file that makes every append and recover throw until it is
  removed by hand (`store.js` 957-962).
- *Second answer.* After DECISIONS_RESOLVED a different answer to an answered
  question is accepted, because the resolved package is another package
  (`commands/decisions.js` 440); from then on the evidence is ambiguous for every
  command.
- *Lost decision.* A death between the append of the last answer or approval and
  its transition is never repaired: a retry finds the row and returns
  (`commands/decisions.js` 470, `commands/architecture.js` 431). Two clients that
  answer the last two questions at the same time end the same way.
- *Two plan identities.* When the last approval is stored beside issue plans of
  two identities, `architecture approve` throws before its transition
  (`commands/gate-support.js` 172), and so does every later command that resolves
  the bundle: the approval is on disk and the pipeline stays where it is.
- *Recover.* A recover that lost its lock ends in an error when a writer or another
  recover takes away a file that it has listed (`store.js` 590), and leaves the
  rest; a temporary file that appears after the listing waits for the next recover.
- *Recovery.* `resume` validates an aggregate without its answers and approvals
  and refuses every source that has some (`commands/project.js` 173); what it
  resumes registers none, so the next gate refuses the evidence.
- *Second revision of a plan.* The audit takes the plan's revision and no parent,
  and the store wants one from revision 2 on (`spec-auditor.js` 1017): the plan
  never leaves SPEC_AUDIT.
- *One record, two questions.* Two concurrent answers that claim one authority
  record are both stored, and `answerHistory` throws for everybody.
- *Unanswerable questions.* A P3 or P4 question, or a blocking decision merged
  with one, cannot be answered: `authorityRecordKey` reads the attestation that
  such a resolution must not have (`commands/decisions.js` 139).
- *ADRs in part approved beforehand.* The registered approvals never match again
  (`commands/architecture.js` 285); pending ADRs beside other open findings stay
  in ADR_PENDING_APPROVAL.
- *Validators.* An audit with warnings leads to READY_FOR_ISSUES, while readiness,
  `project prepare` and `github-writer.js` 174 ask for PASS. An issue without an
  epic, or an epic candidate that was left out, passes the plan and the audit and
  is refused by readiness. `toss trace` over the store leaves out answers and
  approvals, and fails for sources that have them.
- *Publication.* A rerun that starts while the first publication still runs
  creates the issues a second time; two publishers that use one approval record
  for two plans at the same time both pass the replay check, and no later one
  does.
- *Design.* `status` reports stale input after an interruption between user flow
  and screen specification; a screen that overrides a binding rule under an
  exception makes `status` throw at FINAL_APPROVAL_PENDING and readiness fail;
  `status` is ambiguous as soon as two designs exist; a feature whose base became
  stale cannot be added again under its id.

**Not reached by any run.** Process ids that are given out again; the migration of the legacy artifact directory.

**Not modelled.** Argument parsing, routing, output and project scaffolding
(`cli.js`, `commands/router.js`, `output/`); JSON schemas, digests, canonical
JSON and symbolic-link checks, which are taken as met; governance, profiles and
reference integrity, which are one-shot reads of configuration; release and test
tooling. The normalisation of input files, what a feature delta says of each
artifact, and reports that only read (`toss trace`, `plan show`, `decisions list`,
`architecture review`, `status`).
