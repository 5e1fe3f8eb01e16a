# Singularity Flow: a TLA+ verification project

Singularity Flow keeps the lifecycle of software work (Stories, Initiatives, Goals, ad hoc work) as
governed files on ordinary Git branches. Every decision becomes one signed-off commit, produced by a
command of the CLI or of the VS Code extension and pushed to a shared remote. There is no server: the
processes of one clone coordinate through files in the clone's Git directory, and the clones through
the remote branch. What can go wrong is therefore what goes wrong in a distributed system that has
only a file system and `git push` to build on: a process dies between two writes, two processes hold
different views of the same records, a push is taken by the remote after its client has given up.

The project models the part of the program that has to survive all of this: the *publication
transaction* of a subject with everything that shares its records (`Publication`), the local
protocols that it and the rest of the program are built on (`SubjectLock`, `FileLease`,
`ResetBarrier`, `DraftTransaction`), above them the decisions that are published: the phases of
a Story with their approvals and every way back (`PhaseLifecycle`), and, beside them, the outbox by
which everything else that is pushed gets to its remote (`TransportIntent`). Paths are relative to the
repository; the program is in `src/`, and line numbers are of that commit.

## 1. Inventory

The program has about 720 JavaScript modules. The table lists every component; `PROJECT.json` repeats
it with its files. *State* is what outlives a step.

| Component | State | Operations | Interacts with | Correct when |
|---|---|---|---|---|
| Publication unit of work (`publication-unit-of-work.mjs`) | the worktree's governed bytes, the branch ref | `publishLifecycleChange`: preflight, journal, state write, candidate, commit, push, unwind | lock, journal, marker, Git, the wrapper that calls it | one unfinished decision at a time; undone only before its commit; after it, published or retained |
| Publication journal (`publication-journal.mjs`) | one JSON record per subject | begin, update, clear, each bound to a transaction ID | read by every recovery | uncommitted governed bytes are always explained by it |
| Pending publication (`publication-pending.mjs`) | one sealed marker per subject | read (which may promote a journal), write, clear, sync, prepared recovery | journal, lock, remote | an unpublished commit is always named; a landed one can be reconciled |
| Preimage (`publication-recovery.mjs`) | blobs beside the journal | capture, restore | unit of work, prepared recovery | a restore is exact, or fails and can be repeated |
| Isolated commit, leased push (`git.mjs`) | objects, refs, tracking refs | commit-tree, compare-and-swap, push with lease, observe | remote | the ref moves only from the expected parent, the remote only from the lease |
| Story wrapper (`state.mjs`: `commitAndPublish`, `syncPublication`) | the loaded aggregate and its revision | plan a lease, call the unit of work, clean up; sync | unit of work, pending publication, capability siblings, ledger | its unlocked accesses do not disturb other transactions |
| Initiative wrapper (`initiative-state.mjs`) | the same | the same | the same | the same |
| Goals (`governed-goals.mjs`) | linked worktrees | call the exported unit of work and sync directly | unit of work | as the unit of work |
| Local identities (`local-identity.mjs`) | reservations | reserve an ID by a create-only push, clear the records of a lost one after the lock | unit of work | an ID is reserved once |
| Subject lock (`subject-lock.mjs`) | a lock directory with owner link, heartbeat, claims | acquire, reclaim, renew, release, inherit | everything above | one live holder unless a holder missed its lease or a claimant was held up, and then the loser is told; a dead one is replaced |
| Repository reset barrier (`subject-lock.mjs`, `factory-reset.mjs`, `governance-rebuild.mjs`) | a barrier directory; the runtime root with the locks in it | raise, check, scan, move, roll back, lower | subject lock, inherited frames | no callback runs inside a reset, no inherited callback outlives its lock, nobody waits for ever |
| File leases (`file-lease.mjs`) | a lease file, claim generations, fences | acquire, reclaim, renew, release, protect a child | registries, caches | one live holder; nobody rebuilds beneath a live child; a reclaimer knows that it must rebuild |
| Draft transaction (`draft-unit-of-work.mjs`) | a journal that may nest another | execute, roll back, hand over | unit of work, syncs | a nested publication never erases its parent's preimage, and is never rolled back under |
| Capability ledger (`ledger.mjs`) | intents, outbox, append-only chain | persist, append, reconcile | unit of work's tail | one entry per published event |
| Capability siblings (`capability-start.mjs`, `capability-publication-recovery.mjs`) | per-branch progress in the marker's tail | publish several branches, resume | Story wrapper | each sibling is published once |
| Story start (`story-start*.mjs`) | a start journal | create branch, snapshot configuration, first commit | unit of work | a half-started Story is resumed or undone |
| Ad hoc sessions (`adhoc/`) | session receipts | open, land with the expected head as lease, clear the records after the lock, promote | unit of work | a landed session is closed once |
| Phase lifecycle and approvals (`state.mjs`, `lifecycle-transitions.mjs`, `workflow-decisions.mjs`, `phase-retention.mjs`, `forward-amendments.mjs`, `inputs.mjs`) | `workflow.json`, the artifacts of the phases | publish, submit, approve, decide, return, reopen, amend, revalidate, roll forward | published through the unit of work | an approval stands only on what it decided over; no phase is left behind; a generation number is given once |
| Action plans, authorization (`action-plans.mjs`, `action-authorization.mjs`) | plan files with digests | plan, confirm, consume | commands | a confirmation is used once, for what was shown |
| Transport intents (`transport-intents.mjs`), step actions | one sealed record per exact commit, branch and expected commit: status, attempts, budget, circuit | create or join, reserve, retry: read, dry-run, receipt, push, verify, reconcile | subject lock, remote; configuration editor, proposals, workspace creation, `push retry` | nothing is pushed that is not installed, no push of others is claimed, automatic retries stop, a person can always go on |
| Initiative orchestration, workspaces | repositories of a workspace | seed, refresh, materialise | the transactions of each repository | each repository is consistent alone |
| Branch refresh (`branch-refresh.mjs`) | tracking ref, branch | fetch, fast-forward | people, other clones | never rewinds |
| Publication storage, schema migrations | legacy records | relocate, upgrade | reads of the records | one-off, idempotent |
| Configuration and workflow snapshots | digests | resolve, pin | lifecycle | pure |
| REV loop, SGOS, auto execution, gateway, evidence, WEL | receipts, schedules | around commands | the transactions | out of this project's scope |
| World model, AST, knowledge, model runner, integrations, Git execution caches, CLI, extension, installers | derived data, I/O | - | - | no protocol of their own |

### How the core works together

1. A wrapper loads the aggregate, refuses while a publication is pending, and fixes the local parent
   and the *lease*: the commit that the remote branch must be at for the push to be accepted. None of
   this is under the lock.
2. The unit of work takes the subject lock, checks again that nothing is pending and that the parent
   did not move, captures the preimage and writes the journal.
3. It writes the aggregate, verifies the candidate, creates the commit object and moves the branch ref
   by compare-and-swap. A failure before the ref moved restores the preimage. After it, a rollback is
   forbidden.
4. It pushes with the lease. A failure leaves a *marker* that names the commit and says whether the
   push was `rejected` or is `transport-indeterminate`.
5. A later command finds a journal or a marker. A journal before the ref is undone under the lock
   (prepared recovery). A journal after the ref is promoted to a marker. A marker is synced: pushed
   again with the lease, and, when the outcome of an earlier push was left open, reconciled by
   observing that the remote tip is exactly the commit.

### What is hard

Deaths between any two of these writes; the restore that fails half-way; a ref update or a push whose
outcome is unknown; pushes that arrive late; leases chosen from observations that are old by the time
they are used; records read or deleted without the lock; lists of stages that must agree across
files; and liveness, because nothing retries but the next command. `PROJECT.json` lists each hazard
at its line with the property that covers it, or why none does yet.

## 2. The modules

| Module | What it is |
|---|---|
| `PublicationContract` | the promise: at most one unfinished decision, undone only before its commit, published or retained after it |
| `Publication` | the detailed model: processes, records, refs, remote, crashes, people; its properties and the refinement mapping to the contract |
| `PublicationInvariants` | the inductive invariants behind the properties, used by the proofs |
| `SubjectLock` | the lock directory of one subject, one access to the file system per step |
| `ResetBarrier` | factory reset and governance rebuild against the locked calls of a clone |
| `FileLease` | the leases of registries and of private caches, one access to the file system per step |
| `DraftTransaction` | drafts of one subject, the publications nested in them, and what later syncs make of their journals |
| `PhaseLifecycle` | the phases of one Story: one step per published decision |
| `TransportIntent` | the outbox: intents for one branch, their retries, the remote and who else writes it |
| `MCPublication`, `MCSubjectLock`, `MCFileLease`, `MCDraftTransaction`, `MCResetBarrier`, `MCPhaseLifecycle`, `MCTransportIntent` | the instances for TLC: symmetry, the pinned workflows, the commit of each intent |
| `PublicationProofs`, `PublicationKernelProofs`, `SubjectLockProofs`, `FileLeaseProofs`, `ResetBarrierProofs`, `DraftTransactionProofs`, `PhaseLifecycleProofs`, `TransportIntentProofs` | the proofs (section 6) |

The modules meet at named interfaces. `Publication` and `DraftTransaction` take the lock as a mutex
that is released by death: `SubjectLock` says under which assumptions about time the directory is one,
and what its loser is told otherwise. `SubjectLock` treats a refusal by the barrier as the end of a
call: `ResetBarrier` models both sides of that refusal, and takes from the lock only that the lock of a
dead process is replaced. `DraftTransaction` has the nested publication of `Publication` in the
coarse steps that a draft can tell apart. Each step of `PhaseLifecycle` is one transaction of
`Publication`: either it is committed as a whole, or it did not happen. A retry of `TransportIntent`
holds the lock of `SubjectLock` for its record from its first read to its last write, so that there is
one retry of an intent at a time; the local commit that it needs is there (`Installed`) or it is not.

### `Publication`: state and code

| Variable | Code |
|---|---|
| `history`, `content` | the object store: what a commit reaches, and which transactions' governed bytes it carries |
| `local`, `remote`, `tracking` | the branch ref, the remote branch, `refs/remotes/...` (also moved by `recordBranchPublication`) |
| `late` | pushes that a client gave up on and that `receive-pack` may still complete |
| `dirty` | which transactions have uncommitted writes in the worktree (the content of the governed paths) |
| `lock` | the holder of `withSubjectLock` |
| `journal` | `publication-journal/<kind>--<id>.json`: transaction, stage, whether the commit is recorded, push outcome |
| `pending` | `pending-publication/<kind>--<id>.json`: transaction, push outcome, `rootPublished` |
| `plan` | what the transaction sealed: `expectedHead`, `expectedRemoteSha`, its source, the mode, the preimage |
| `pc`, `txn`, `target`, `outcome`, `lease`, `back` | the program counter and the local variables of each process |

A transaction and the one commit it may make share an identity, so a record names its commit by naming
its transaction. A process that dies keeps nothing; `Crash` also stands for a step that throws where
the code has no handler, after which the lock is released and the records stay.

| Actions | Code |
|---|---|
| `Plan` | `commitAndPublish` and its Initiative counterpart up to the call of the unit of work; for a Goal, its caller |
| `Lock`, `Begin`, `Refuse` | the preflight and `beginPublicationJournal` |
| `WriteState`, `VerifyCandidate`, `CreateCommit`, `AdvanceRef`, `RefOutcomeUnknown`, `RecordAdvanced` | `execute` up to the ref |
| `FailBeforeCommit`, `Restore`, `RestoreFails`, `ClearRestored` | `unwind` |
| `FailAfterRef`, `MarkCommitted`, `StartPush`, `PushLands`, `PushVanishes`, `PushRejected`, `NoteFailure`, `Retain`, `ClearRetained`, `MarkPushed`, `Finish` | `execute` after the ref |
| `ClearMarker`, `CleanupJournal` | `clearPendingPublication`: two deletions, called by the wrappers without the lock and by the syncs under it |
| `DropJournal`, `StartPromotion`, `PromoteMarker`, `PromoteClear` | `readPendingPublication` of a post-commit journal |
| `StartRecover`, `RecoverLock`, `RecoverLeave` with `Restore...` | `recoverPreparedPublication` |
| `StartSync`, `SyncPrepare`, `SyncLands`, `SyncVanishes`, `SyncRejected`, `SyncRefused`, `ProbeFinds`, `ProbeMisses`, `SyncReceiptWritten`, `SyncAlreadyPublished`, `SettleJournal`, `SyncLeaves` | the three syncs (Story, Initiative, generic) |
| `LocalCommit`, `OtherPush`, `Fetch`, `FastForward`, `LateArrives` | a person's other commit, another clone, `refresh-branch`, the network |

`Kind` selects the wrapper. `"story"` and `"initiative"` read (and promote) without the lock before a
sync or a plan, and clear the records without the lock after a pushed transaction; they differ in how
they choose a lease and in what a sync re-observes. `"kernel"` is a Goal, whose callers use the
exported functions directly: it leases its tracking ref (`governed-goals.mjs:571-573`), reads without
migrating, and leaves the records to the unit of work. The other direct callers are not a `Kind`: an ad
hoc landing leases its expected head (`adhoc/landing.mjs:621`), a local identity the absence of its
branch, a seed the remote head it observed, and the first two clear the records after the lock
(`adhoc/landing.mjs:723`, `local-identity.mjs:315`).

### The local protocols: state and code

| `SubjectLock` | Code |
|---|---|
| `at`, `used` | the directory at the lock's pathname; every directory ever made is a generation (device, inode, birth time) |
| `owner`, `pending` | the published owner record of a generation; the records written into it but not linked yet |
| `aged`, `lapsed`, `hbFailed` | older than the grace period; a holder whose lease ran out; a heartbeat that reported it stopped |
| `claim` | claim directories, named by the observed identity and a number |
| `Mkdir`, `Prepare`, `Publish`, `Confirm`, `Refuse`, `Cleanup` | `acquireLockDirectory`, `acquireSubjectLock`: create, write the record, publish it by link, look again, withdraw after a failure |
| `Observe`, `Claim`, `Inspect`, `Fence`, `Revalidate`, `Rename`, `RenameError`, `Sweep`, `Restore`, `Relink` | `activeDirectoryOwner` and the retirement of an observed directory: numbered claim, second look, rename, check of what was moved, restoration of a foreign directory |
| `Release` | the end of `withSubjectLock`, with the warning or the failure of a holder that lost its lock |
| `Age`, `Lapse`, `Renew`, `HeartbeatFails` | the grace period, the lease and its heartbeat |

| `FileLease` | Code |
|---|---|
| `at`, `text`, `by` | the lease file, its bytes (empty while it is created or rewritten), the process it names |
| `claim` | claim generations with their fences |
| `children`, `abandoned` | the process that a lease protects (`protect`, `retainQuarantine` of `acquireFileLease`) and that outlives its parent; a store left half-way |
| `policy` | whose lease it is: a registry, judged by age, or a private cache, judged by the death of its owner |
| `Open`, `Fill`, `FillFails`, `Rebuild`, `Remove` | `acquireFileLease` and `withRegistryFileLease`: exclusive creation, record, `onReclaimed`, release |
| `Truncate`, `Protect`, `Spawn`, `ChildExits`, `Complete`, `Abandon`, `Retain` | the record rewritten around a child process, and what a failed operation retains |
| `Claim`, `Inspect`, `Fence`, `Revalidate`, `Rename` | `reclaimRegistryFileLease` |

| `ResetBarrier` | Code |
|---|---|
| `lock`, `runtime` | the lock directories below the runtime root, and whether the root is there |
| `barrier` | `repositoryResetBarrierPath` |
| `root`, `from`, `lease`, `count` | the outermost call of a call, the call that made it, the lease its callback runs under, the inherited frames still open |
| `entries`, `plan`, `before`, `kept` | the scans, the snapshot and the moved root of a reset |
| `FirstCheck`, `Create`, `Publish`, `SecondCheck`, `Withdraw`, `Begin`, `Settle`, `Drain`, `Release` | an outermost call: look for the barrier, take the lock, look again, run, wait for inherited frames |
| `Spawn`, `Enter`, `NestedCheck`, `Inherit` | a call made by a callback |
| `Raise`, `List`, `Inspect`, `Prepare`, `Work`, `Verify`, `Move`, `Recheck`, `Undo`, `Lower` | `withRepositoryResetBarrier`, `factoryResetRepositoryLocked`, governance rebuild |

| `DraftTransaction` | Code |
|---|---|
| `journal` | the journal at the shared path, with the parent journals it keeps inside |
| `dirty`, `landed`, `log`, `remote` | bytes in the working tree only, bytes in a commit, commits of the branch and of the remote by author |
| `marker`, `late` | the pending marker, by the author of its commit; history: a marker was made of a journal that was gone |
| `seen`, `base`, `pre`, `returned` | the HEAD a draft was loaded at, the one it found under the lock, its preimage, and what its nested publication returned or threw |
| `Load`, `Enter`, `Begin`, `Write`, `Accept`, `Invalid`, `Catch`, `Restore`, `Restored` | `DraftUnitOfWork.execute` |
| `Nest`, `NestedWrite`, `VerifyCandidate`, `CommitTree`, `Advance`, `OutcomeUnknown`, `Unwind`, `Unwound`, `Push`, `Pushed`, `Retain`, `Retained`, `PublishFails`, `CleanUp` | the publication made inside a draft, with the update of the branch whose outcome is unknown and the writes of records that fail after the commit |
| `Read`, `Promote`, `Drop`, `Recover`, `Undo`, `Undone`, `Sync`, `Published`, `Cleared` | a later sync or recovery |

### `PhaseLifecycle`: state and code

| Variable | Code |
|---|---|
| `plan` | `workflow.resolution`, pinned when the Story starts: the approvals each phase needs, where it may be rejected to, the inputs it reads, the routes of the decision after it, who takes it, the limit of rounds |
| `status`, `current`, `pending` | `workflow.status`, `currentPhase`, `pendingDecision` |
| `phase` | `workflow.phases`: status, `generation`, `generationHighWatermark`, the approvals in force, `reworkRevalidation` with the approvals it may retain, `retention`, `inputContext` |
| `requests` | open `changeRequests`, with their `forwardCheckpoint` |
| `proposal`, `listed`, `decided`, `bindings` | `forwardAmendments`, their decisions, `amendmentRevalidations` |
| `bytes` | the content of each phase's artifact, named by the generation that it is of |
| `made`, `astray` | history: how many generations were made; whether a roll-forward met a changed earlier phase |

| Actions | Code |
|---|---|
| `Publish`, `Submit`, `Approve`, `Choose` | `publishGeneration`, `submitPhaseTransition`, `approvePhase`, `decideStory`; the completion they share is `Completed`: change requests resolved, approvals retained (`RetainUnchanged`), then the next phase, a skip, a loop or a question |
| `Reject`, `Reopen`, `Detach`, `Promote`, `Return` | `rejectPhase`, `reopenWorkflow`, `detachDocuments`, `promoteDesignSource`, the outcome `return` of a revalidation; all of them reset a range (`SendBack`) |
| `Propose`, `Decline`, `Amend`, `Revalidate` | `proposeForwardAmendment`, `decideForwardAmendment`, `revalidateAfterForwardAmendment` |
| `RollForward`, `Cancel` | `rollForwardRework`, `cancelWorkflow` |
| `Valid`, `FinalEvaluation`, `GateHolds` | the `validate` callback of every publication, and the terminal transition with the governance gate |

### `TransportIntent`: state and code

| Variable | Code |
|---|---|
| `intent` | the record: `status`, `expectedRemote`, whether `scope.requiredLocalRef` is set, stage and result of the last attempt, whether any attempt came to its push stage, the classification of `fault`, what is left of `attemptBudget`, `circuit` |
| `local` | the ref of `requiredLocalRef`: still to be moved, at the commit, given up, moved on |
| `target`, `late` | the branch at the remote; pushes that outlived their client |
| `pc`, `asked`, `report` | the running retry, `allowNeedsUser`, the classified result of its push |
| `by`, `landed`, `published`, `auto` | history: whose push put the branch where it is, whose ever did, whose commit was there since its record was made, attempts that nobody asked for |

| Actions | Code |
|---|---|
| `Create`, `Install`, `MoveOn` | `createTransportIntent`, the editor's compare-and-swap after its reservation, a person at the local branch |
| `StartRetry`, `ProbeFails`, `Reconcile`, `Diverge`, `CoolDown`, `Exhaust`, `Spend` | `retryTransportIntent` up to the attempt: admission, the first read of the branch and what it decides |
| `DryRunFails`, `Receipt` | the dry-run, and the record written before the real push |
| `PushLands`, `PushMisses`, `PushFails` | `executeIntentPush`, with the compare at the remote and the answer of the client |
| `Succeed`, `Overtaken`, `Refused`, `Unanswered` | the second read and the record that closes the attempt |
| `Crash`, `LateLands`, `Foreign` | deaths between any two writes, the network, everybody else at the branch |

### Abstractions, and what they leave out

`Publication`:

* **Lock.** One variable; acquiring waits. A timeout of the real lock is a `Crash` of the waiter. What
  the directory protocol makes of it is `SubjectLock`.
* **Governed bytes.** `dirty` is the set of transactions whose writes are in the worktree. A commit
  carries what is dirty, a restore brings back the set that was there at the preimage. A person who
  edits or commits governed files by hand is not modelled.
* **Merged steps.** The pending check and the begin of a journal under one lock; creating the commit
  object and recording it (a death in between leaves only unreachable objects); the check of the
  transaction ID and the deletion it guards; deleting the journal and releasing the lock at the end of
  a callback; prepared recovery's check under the lock and its `restoring` stage. Each pair is under
  the lock, and no other actor writes what the first step read. Where the code does *not* hold the
  lock (promotion, cleanup), every read and write is a step of its own.
* **The compare-and-swap.** Its failure is reported as an unknown outcome and keeps the journal.
* **Candidate.** Verification always runs; some callers have no candidate, which removes one stage.
* **Modes.** `required` and `off`. `warn` returns instead of throwing after the same writes.
* **Not in the model.** The retained tail of a Story with siblings, the REV attestation, the ledger
  append after the push, `conflictStrategy` (no caller passes one), local-only syncs in mode `off`,
  legacy records, the mutex of a Goal's worktree (without it the model has more behaviours), and
  divergence reports, which only refuse.

`SubjectLock`: one host; both reads of `activeDirectoryOwner` are one step; an invalid owner record is
like a missing one; ageing of claims and directories, lapses and refused renames happen at any time,
counted by `Strains`; the first of two revalidations before a rename is subsumed by the second;
`Refuse` stands for the refusal of the barrier and for a heartbeat that does not start;
`prepareHeldLockRemoval` and the shared pool of heartbeat timers are not modelled.

`FileLease`: a heartbeat that stopped does not resume; `childPids`, which no caller passes, are not
modelled; claims are never deleted (the code deletes none that could be used again).

`ResetBarrier`: only locks of dead processes are stale; raising the barrier is one step; the contents
of control roots, agents and machine state are not modelled, what happens to the locks in the runtime
root is.

`DraftTransaction`: the lock is a mutex released by death; a commit is named by its author. Every
subject has a Candidate. The stages of the journal after `commit-created` are left out: readers judge
such a journal by whether its commit is on the branch. `afterRollback` only restores copies of callers;
Story and Initiative start have no earlier state to restore and are not drafts here.

`PhaseLifecycle`: a command is one step. Decision values are abstracted to the route they choose, a
set of reviewers to its size, an artifact to the generation whose bytes it has, an approval's
`upstream` to the status and generation of the producers. A phase that reads nothing is judged over
all earlier phases, as in the code. Inputs are those of `inputsMode` `enforce`; `off` is a workflow whose
phases read nothing (its approvals are then judged over all earlier phases, where the code judges them
over what is declared), and `record`, which turns a finding into a warning, is not modelled. An
optional input may be skipped, missing or unapproved; an input record holds the status and generation
of each producer, which stand for its bytes. The final evaluation and the validation of every
publication are guards: a refusal leaves everything as it was. The preview at the submission of the
last phase judges the phases only, and leaves proposals and owed revalidations to the ending, as
`evidence/terminal.mjs:177-180` does. Of several revalidations of one phase the binding of the highest
generation counts.

`TransportIntent`: the attempts of a record are told apart by the last one and by whether any came to
its push stage, which is all that the code reads of them; cool-downs end at any time. A fault is of the
network, a rate limit or another one: a deadline is another one (`operation-timeout`). Push answers
are lost in two ways, as a network failure or as a deadline. The refusals of a retry when the
repository or its remote was replaced, the seal of the record, the proof of a healer and the tracking
ref, which is written as a convenience, leave the protocol as it is and are left out. An intent whose
expected commit is its own commit is not made by any caller.

## 3. Properties

| Property | Says | Hazard it is for |
|---|---|---|
| **Publication** | | |
| `DirtyIsJournaled` | uncommitted governed bytes are those of the one journaled transaction, still before its commit, with a clean preimage | a death anywhere before the commit |
| `CommitCarriesOneEvent` | a governed commit carries its own transaction and no other | residue of an earlier one swept into signed history |
| `NoLostCommit` | a commit that must be published is on the remote, or a record names it | the order of marker and journal |
| `OnlyInterruptedIsPromoted` | no marker for a transaction that its live owner is executing | reads that write |
| `OneHolder` | whoever is between acquire and release is the lock's holder, and nobody else is | recovery and sync next to a transaction |
| `RemoteNeverRewinds` (action) | no step takes a commit off the remote branch | leases from old observations, retries, late pushes |
| `KeepsContract` (refinement) | the model implements `PublicationContract` | all of them together |
| `AbandonedIsUndone` (liveness) | an abandoned transaction does not stay abandoned | second death during recovery |
| `RetainedIsPublished` (liveness) | a retained commit does not stay retained beside a remote that is where its lease says | retries that cannot succeed |
| **SubjectLock** | | |
| `MutualExclusion` | until time or the file system fails somebody, no two callbacks overlap | a rename of a lock that is not the observed one |
| `OverlapIsReported` | after such a failure two overlapping callbacks do not both end as released, unless a foreign directory was moved | a machine that sleeps past the lease |
| `NothingLeftBehind` | until such a failure, the directory at the pathname has no owner record of a command that ended alive | failures in the middle of an acquisition |
| `MovesOnlyObserved` (action) | until such a failure a rename takes exactly the directory its claim observed | claims that were waited for |
| **FileLease** | | |
| `Exclusive` | two live operations never hold the lease | empty and half-written records that look abandoned |
| `NoneBeneathAChild` | nobody works in a cache while the child of a dead operation still does | the parent dies while it rewrites its record |
| `ReclaimerRebuilds` | an operation that retired the lease of a dead one itself does not work in an abandoned cache: it has rebuilt it | releases and vacancies that race with an open |
| `VacatesOnlyItsOwn` (action) | the pathname is emptied only of what was observed stale, or created | a delayed rename after a new claim generation |
| **ResetBarrier** | | |
| `WorksAlone` | no callback runs while a reset works on the control roots | both sides look first and mark later |
| `RunsCovered` | a running callback is covered by a lock that is still there, also when it inherited it | a detached nested call; a moved runtime root |
| `CallsEnd` (liveness) | every call ends, however calls and resets refuse and drain each other | waiting for each other |
| **DraftTransaction** | | |
| `UncommittedIsJournaled` | bytes nobody accepted have a journal that undoes them | nested journals at one path |
| `AcceptedStays` | what an ended draft accepted is in the tree or in a commit | a late rollback of an older preimage |
| `CommittedIsOwed` | a nested commit that the remote may lack is named by a record | the hand-over to the nested publication |
| `StuckIsExplained` | a journal that no recovery takes is of a command that died or whose nested publication broke, with its commit on the branch or at `candidate-verified`, unless somebody committed by hand | unknown outcomes, failed writes of records, stages recovery does not know |
| `RollbackBelowNoCommit` (action) | no rollback of a command, of its nested publication or by a later sync restores a preimage once the nested commit of that command is on the branch | decisions taken from a moved HEAD |
| **PhaseLifecycle** | | |
| `NoPhaseLeftBehind` | everything before the current phase is settled, nothing after it is, and a closed Story is settled everywhere | ranges reset, skipped, retained and restored one after the other |
| `ApprovalStands` | the inputs of an approved phase are the generations its approvers saw, or an amendment listed it for revalidation | retained approvals; amendments that reset nothing |
| `EnoughApproved` | an approved phase has enough distinct approvals of the generation it is at | approvals that survive a reset, retention or roll-forward |
| `AllocatedOnce` | a generation number is never given twice | checkpoints that restore an older counter |
| **TransportIntent** | | |
| `ReceiptPrecedesPush` | whatever an intent put at the branch, its record has the receipt of a real push | deaths and late pushes around the receipt |
| `SucceededWasPushed` | a success reached the receipt of a real push of its own, and its commit was at the branch since the record was made | an identical push by others, claimed on the strength of a dry-run; lost answers |
| `OnlyInstalledIsPushed` | a reserved commit is pushed only after it came to its local ref | retries that find the reservation before the compare-and-swap, or after it failed |
| `RetriesAreBounded` | automatic retries never make more attempts than the budget | deaths in the middle of attempts; budgets raised by persons |
| `Settles` (liveness) | while a person keeps asking, an intent ends as succeeded or diverged | states that nobody can get an upload out of |
| **Violated (section 5)** | | |
| `LandedIsReconcilable` | what a comment of the program says of the receipt of an indeterminate push | sealed outcomes |
| `FinishedIsVerified` | a closed Story is as its final evaluation judged it | restoring a finished Story |
| `LandedCompletes` (action) | no retry finds at the branch what its own intent put there and calls it diverged | faults that overwrite what reconciliation reads |

Each module has one `TypeOK` besides: it is proved (section 6), and the runs of `DraftTransaction` and
`ResetBarrier` check it. Stories and Initiatives under several processes have no
run: what the unlocked accesses of their wrappers leave true, `OneHolder` and `RemoteNeverRewinds`, is
proved for every kind of subject and every number of processes, and what they break is in section 5.
`RetainedIsPublished` says nothing about a remote that moved away from the lease: then the code
refuses, by design, until a person reconciles the branches.
`NoPhaseLeftBehind` and `ApprovalStands` stop at `astray`, the roll-forward of section 5.
`EveryAbandonedIsUndone` and `NoSilentOverlap` are stated in their modules and have no run; section 5
says what is known of them.

## 4. Runs

| Run | Instance | Checks | States | Why this size |
|---|---|---|---|---|
| `kernel` | 2 processes, 2 transactions, 2 foreign commits, both modes, late pushes, failing probes | all safety, the contract | 1.3 million | two of each is what a race needs: a live and a dead owner, a transaction and its successor; a foreign commit before and after a push |
| `story_serial` | 1 process, 2 transactions, 1 foreign commit | `DirtyIsJournaled`, `NoLostCommit`, `RemoteNeverRewinds` | 0.6 million | every crash point, with what the next command does about it |
| `initiative_serial` | the same, fair | `NoLostCommit`, both liveness properties | 0.3 million | the other lease rule; a transaction that finds what its predecessor left, and is left itself; no symmetry |
| `lock` | 3 acquisitions, one may die, 3 directories, 2 claims, 2 attempts, 1 strain | all of `SubjectLock` | 4.5 million | a holder, a claimant and a successor; two claim numbers, so that a claim is passed over; one strain is enough for each kind of overlap |
| `lease` | 4 operations that may all die, 4 files, 2 claims, either policy | all of `FileLease` | 0.2 million | a dead owner, its reclaimer, a second claimant and a bystander |
| `barrier` | 2 calls, 2 subjects, 2 resets, one of each may die | all of `ResetBarrier` | 1.1 million | an outer and a nested call, a reset and its successor |
| `draft` | 3 drafts, 1 syncing process, 1 commit by hand, all may die | all of `DraftTransaction` | 2.2 million | a draft, one whose publication nests in it, and one that finds what they left |
| `lifecycle` | 3 phases, 2 people, 2 pinned workflows, 2 generations, 2 open returns | all of `PhaseLifecycle` | 5.3 million | a phase before and one after the target of a return; a second return while one is open; a generation abandoned and made anew |
| `transport` | 1 intent, 2 commits, budget 2, late pushes, failing reads; fair | all of `TransportIntent` | 0.18 million | to an intent, every other one is somebody else who pushes, its own commit perhaps; two attempts are the budget of the code, and what a person adds comes after them |
| `landed_probe`, `roll_forward`, `landed_intent` | the smallest in which it happens | one property each, violated | - | section 5 |

`CHECK_DEADLOCK FALSE` everywhere: identities of transactions, acquisitions, calls and drafts are
finite supplies, a closed Story is at rest and so is an outbox that is done, so behaviours really
stop. Symmetry is used in safety runs only. Late pushes (`LateLanding`) and failing probes (`ProbeMayFail`) are switched off only in
the runs that look for one particular behaviour without them. The bounds that are counters are named:
`Claims` (16 and 32 in the code), `Attempts` (8), `Strains`, `MaxGen`, `MaxRework`, `Budget` (2); the others are the sizes of sets.

### Fairness

`FairSpec` assumes, per process: weak fairness of going on with a started command (`Proceed`, which
contains `Restart`: somebody eventually runs the next command); strong fairness of *starting* a recovery and a sync while
they are owed, which stands for operators who keep retrying what the program tells them to retry; and
strong fairness of a restore and of a sync's push landing: a disk does not refuse every restore, nor a
remote every push that it would accept. There is no fairness of `Crash`, of new transactions, or of
other clones, and both liveness properties are conditional on `Calm`, that processes stop dying. The
lock is not assumed fair: the strong fairness of starting covers a process that keeps finding it taken.

`ResetBarrier` assumes weak fairness of every step of a live call and of a live reset, which is what
the event loop gives a running process, and that callbacks end. It assumes nothing of deaths, of new
nested calls, or of who wins a race for a lock.

`TransportIntent` assumes that a running retry goes on (weak fairness of `Proceed`), that a person
repeats the retry that the record asks for (`push retry`, which passes `allowNeedsUser`), and that
neither the reads of the branch, nor the dry-runs, nor the pushes fail for ever (strong fairness of the
outcome in which they do not). `Settles` is conditional on what the code cannot help: that deaths and
foreign pushes stop, and that the commit stays on its local ref. A retry that ends with its record as
it was makes the step that a death would; such steps are not counted as deaths (`Disturb`), so that
endless retries to no effect do not escape the property.

## 5. Where the code departs from its own texts

Each was met while translating the code; for the three with a run `PROJECT.json` quotes the text.

1. **`landed_probe`.** After a push that landed without an answer, a refused retry whose read-only
   probe fails seals `rejected` over it. From then on equality with the remote tip is never accepted.
2. **`roll_forward`.** A closed Story is reopened at a later phase; meanwhile an earlier phase is
   amended (or an amendment of it proposed). Rolling the reopening forward restores the phases from
   the target on and the stored final evaluation, so none is made: the Story is closed with inputs
   that do not verify, with revalidations owed and perhaps with an undecided proposal.
3. **`landed_intent`.** A push lands, its client's deadline passes and the branch cannot be read: the
   outcome is unknown, as documented, but with a fault that is not one of the network. The next retry
   finds the intent's own commit at the branch and seals it as diverged. The same happens when a
   process dies after its push and the next retry cannot read the branch, because that retry
   overwrites the `pushing` that the reconciliation asks for.

The following are found by the same models, with the constants and the property named, and have no run
of their own.

* *Cleanup after the lock* (`state.mjs:9843`, `initiative-state.mjs:1222`). After a pushed
  transaction the wrapper calls `clearPendingPublication`, which clears the journal of the subject
  whatever transaction it is of, without the lock. A second command that began in between loses its
  journal; its death leaves uncommitted bytes that nothing explains (`DirtyIsJournaled` with
  `Kind = "story"` and two processes), against `docs/GOVERNED-EXECUTION.md:54-56`.
* *`candidate-verified`* (`publication-pending.mjs:1062`). That stage is written before the commit
  exists and is not among those that prepared recovery accepts: a death there is announced as
  recoverable (line 674) and never recovered (`EveryAbandonedIsUndone`). `AbandonedIsUndone`, the same
  without that stage, holds. In a draft, such a record covers the draft's own as well
  (`StuckIsExplained` names the stage).
* *Promotion without the lock* (`state.mjs:9896`). A sync reads before it locks, and reading a
  post-commit journal promotes it without asking whether its owner lives
  (`OnlyInterruptedIsPromoted` with `Kind = "story"`).
* *Marker and journal deleted one after the other.* A death in between, with a journal of an earlier
  death below, revives the outcome from before the push (`LandedIsReconcilable`).
* *A rename after a claim vanished.* Claims of the subject lock are deleted when they are done; a slow
  claimant may then rename a directory that is not the one it observed. It notices and restores it,
  and of two callbacks that overlapped meanwhile neither is told (`NoSilentOverlap`, with one strain).
* *A lapsed heartbeat* lets a second operation into a registry or a cache (`Exclusive` with
  `Lapses = TRUE`), and its successor's file may be taken (`VacatesOnlyItsOwn`): file leases check
  nothing after the rename.
* *A reclaimer that dies before it rebuilds.* The next operation finds no lease, reclaims nothing and
  works in what was left, against the comment at `capability-authority-link.mjs:197-199`;
  `ReclaimerRebuilds` therefore speaks of the process that retired the lease.
* *A draft that is promoted late.* A sync that read a journal outside the lock may write a marker for
  a journal that is gone by then, and the cleanup of that marker takes whatever journal is there;
  `late` marks it in `DraftTransaction`.
* *A death after the nested commit and before the draft's own clear* leaves the draft's journal
  diverged for ever: no recovery takes it, and a person has to (`StuckIsExplained` names the cause).
  Without any death the same is left by a nested publication that throws over its own record: an
  update of the branch whose outcome is unknown and that was applied, or a failed write after the
  commit. A sync promotes the nested record; the draft's, which comes back below it, has diverged.
* *A reset that dies with the locks moved* takes the lock directories of calls that were dead already;
  a reset that dies half-way leaves a barrier that the next command reclaims.
* *A cancelled Story comes back.* A roll-forward of a request that was open when the Story was
  cancelled, and the promotion of a design source, make it `in_progress` again, although
  `state.mjs:8646` calls cancellation terminal.
* *An amendment of a phase nobody approves* (`state.mjs:7826`) can be proposed, and such a phase can be
  listed for revalidation, but a phase of mode `none` names no authority: nobody can decide it, and
  the final evaluation waits for it for ever. The Story can still be sent back or cancelled.
* *Whose commit it is.* Reconciliation reads the last attempt and the last fault, whichever retry wrote
  them. A push that was refused for its rate, followed by a read that fails for the network, lets an
  intent claim the identical commit that somebody else pushed; so does a death between the receipt and
  the push. `SucceededWasPushed` therefore asks for the receipt of a real push and for the commit, not
  for the push to have done it. A dry-run of a second attempt hides
  the push of the first, should that one still land.
* *A cool-down over a receipt* (`transport-intents.mjs:552-554`). It replaces `pushing` by `pending`: an intent
  that died after its push is refused reconciliation from then on (`LandedCompletes`).
* *A deleted branch.* An intent for a new branch expects none. If its answer was lost and the
  branch was merged and deleted meanwhile, the next retry creates it again.
* *A reserved branch that moved on.* Once a person commits on the branch of a reservation, no retry is
  admitted any more (`TRANSPORT_SOURCE_NOT_INSTALLED`), though the commit is still on that branch.
* *A revalidation that returned, rolled forward.* The phase is approved again, its revalidation counts
  as decided, and its inputs do not verify: the final evaluation refuses until the phase is sent back.

## 6. Proofs

`PublicationProofs` (every kind of subject) and `PublicationKernelProofs` (the kernel, and the contract)
are about `Publication`; each of the other six proof modules is about the module in its name.

Proved by TLAPS for every number of processes, transactions and foreign commits, every kind of subject
and every mode, from the assumptions named in `Publication` (the sets are disjoint, `None` is in none
of them and no record is `None`):

* `TypeCorrect` (`TypeOK`). `TypeOK` is not inductive: a register or a record is dereferenced through
  `plan`, which is only a plan once it is sealed. `TypeInv` adds `SealedInv`: at the labels that use
  them, registers and records name sealed transactions. One lemma per group of actions.
* `MutualExclusion` (`OneHolder`). Inductive together with `TypeInv`: every label in `Holding` is
  entered by a step that takes the lock or from another such label, and is left by one that releases
  it; an unlocked promotion remembers in `back` that it has no lock.
* `NeverRewinds` (`RemoteNeverRewinds`). The invariant is `CommonInv`. The step that could break the
  property replaces `remote = l` by `t`, so what is needed is that each lease ever used, by a first
  push, by a retry with a re-observed lease or by a push in `late`, is an ancestor of the commit it is
  used with, and that `history` is transitively closed. For the first, `Planned` follows a lease from
  the check in the preflight to the commit (the commit's history is that of its sealed parent, which
  contains the lease); `Executors` says that one process executes a plan, so that nobody commits under
  it; `OnBranchInv` says that whatever may be pushed is on the branch of the clone, which is what makes
  the records of earlier processes usable. The proof has a history half (`HistoryInv`: the object store
  and the plans) and a process half (`ProcessInv`: registers and records).

For `Kind = "kernel"`, the Goals, which call the exported functions without a wrapper:

* `KernelJournalsDirty` (`DirtyIsJournaled`), `KernelLosesNoCommit` (`NoLostCommit`),
  `KernelCommitsOneEvent` (`CommitCarriesOneEvent`), `KernelPromotesInterrupted`
  (`OnlyInterruptedIsPromoted`). The invariant is `KernelInv`. None of the four is inductive: that the
  commit of a transaction carries its own event only follows from what was in the worktree when the
  process was at `verified`, and that a marker may be cleared only from what the process saw of the
  remote several steps before. `OwnedBy` says, label by label, what the holder of the lock relies on;
  `Recorded` relates the two records, the worktree and the branch; `KernelLabels` is where the kind
  enters: no unlocked promotion and no cleanup after the release, hence nobody else changes what
  `OwnedBy` says (`HolderIsAlone`). The cleanup and the promotion without the
  lock that section 5 describes are what happens to the same properties without it.
* `KernelKeepsContract` (`KeepsContract`). The state write, the ref update and the two restorations
  are the contract's `Write`, `Commit` and `Undo`. All other steps leave worktree and branch alone
  (`BranchIsKept`), and the remote only grows (`RemoteStep`, from the proof of `NeverRewinds`), so they
  publish what was retained or stutter. That what is retained is a single commit, as `Publish` wants
  it, is `NoLostCommit` with the agreement of the two records.

For `SubjectLock`, for every number of acquisitions, directories, claims, attempts and strains:

* `LockTyped` (`TypeOK`), and `LockReportsOverlap` (`OverlapIsReported`). The argument of the second
  does not need mutual exclusion at all: a command ends as released only if it retired the directory
  it had made; two callbacks that overlapped have two directories, and a directory that has left the
  pathname does not come back unless a rename carried away what its claim had not observed. So of two
  that met, the one whose directory is gone is told.
* `LockExcludes` (`MutualExclusion`), `LockLeavesNothing` (`NothingLeftBehind`),
  `LockMovesOnlyObserved` (`MovesOnlyObserved`), as long as nothing strained the protocol (no lease
  lapsed, no acquirer was held up past the grace period, no rename was refused). The invariant is
  `CalmInv`. Whoever fills the directory or works under it finds its own one at the pathname (`Fills`);
  what a reclaimer observed has lost its owner for good (`Observed`), because only a directory that
  nobody fills any more grows old without an owner (`AgedIsOrphan`); the claims of a live owner's
  record are its own (`OwnClaims`), so whoever gives the lock back still has it (`GivesBack`). The two
  races that remain are between reclaimers of one dead record and between a reclaimer and a delayed
  rename: a claim exists only above fenced ones (`FencedBelow`, `PassedClaims`), so at most one is
  open, and while it is open the pathname has not changed (`ClaimIsCurrent`).

For `FileLease`, while no live holder's heartbeat lapses:

* `LeaseTyped` (`TypeOK`), `LeaseExclusive` (`Exclusive`), `LeaseVacatesOnlyItsOwn`
  (`VacatesOnlyItsOwn`), and, for the policy of the caches, `LeaseFencesChildren`
  (`NoneBeneathAChild`), and `LeaseReclaimerRebuilds` (`ReclaimerRebuilds`), from exclusion and
  `RebuildsFirst`: nobody works beside a reclaimer, so nothing is left there after its rebuild. The
  invariant follows the claims of one identity: a claim exists only above
  fenced ones (`FencedBelow`), so one claim of it at most is open; who is about to rename made its
  claim (`OwnsClaim`); and while that claim is open the renamer still faces what it observed
  (`OpenIsCurrent`), because an orphaned file no longer changes (`Observed`). That only orphans age
  (`AgedIsOrphan`) is where the assumption on heartbeats enters.

For `ResetBarrier`, for every number of calls, subjects and resets:

* `BarrierTyped` (`TypeOK`), `ResetWorksAlone` (`WorksAlone`), `RunsAreCovered` (`RunsCovered`). The
  invariant is `BarrierInv`. Its first half is about calls: whatever runs, runs under the lease of a
  call of the same process and subject that is still running or draining, and the count that the drain
  waits for is the number of inherited frames (`CallInv`). Its second half is the two-sided check: a
  call that has entered published its lock and then found no barrier, so every scan begun since either
  is before it or still has its subject on the list (`Seen`). A reset scans twice and moves the whole
  runtime only later: `Surveyed` carries what a snapshot of the locks says of the calls in it through
  these steps (a lock that is gone was of a call that has ended), so that what it moves is of calls
  that ended, or is put back (`Covered`).

For `DraftTransaction`, for every number of drafts, syncing processes and commits by hand, and any of
the processes dying anywhere:

* `DraftTyped` (`TypeOK`), `DraftsStay` (`AcceptedStays`), `RollsBackBelowNoCommit`
  (`RollbackBelowNoCommit`). These hold whatever markers are made, and follow from `SafeInv`: the
  journal at the path is of one command, as its draft's record alone or below that of its nested
  publication (`Chain`), and that command holds the lock or left it behind; the branch, the files and
  each preimage agree with its program point (`Shaped`, `Branched`, `Written`, `Kept`); what a sync
  holds in its hands since it read outside the lock is still harmless (`Observed`).
* `UncommittedJournaled` (`UncommittedIsJournaled`), `CommittedOwed` (`CommittedIsOwed`),
  `StuckExplained` (`StuckIsExplained`), as long as no marker was made of a journal that was gone. The
  invariant is `DraftInv`, which adds `StageInv` and `TimelyInv` to `SafeInv`. `StageInv` says which stage
  a record can be in at each program point of its command, and which one a death or a broken nested
  publication leaves: that is what decides which journals a recovery takes. `TimelyInv` says that
  uncommitted bytes are accepted or of the command in the journal (`Explained`), every preimage has
  accepted bytes only and every nested commit is published, marked or named by its record (`Proven`,
  `Owed`), a marker beside a journal is of the same command (`Marked`), and while nobody commits by
  hand HEAD is where the command in the journal began or its own commit (`Alone`). One lemma per step and half: the steps under the lock
  share `TimelyStep`, the others `TimelyFrame` and `SyncTimely`. TLC finds `DraftInv` true of the
  instance of `draft`. The proof needed `None` to be no process: otherwise a free lock would be one
  that a process named `None` holds, and `DraftAssumption` says so.

For `PhaseLifecycle`, for every number of phases, any pinned workflow that satisfies
`LifecycleAssumption`, any people, generations and open requests:

* `LifecycleTyped` (`TypeOK`), `NothingLeftBehind` (`NoPhaseLeftBehind`), `ApprovalsStand`
  (`ApprovalStands`), `ApprovalsSuffice` (`EnoughApproved`), `GenerationsAllocatedOnce`
  (`AllocatedOnce`). The invariant is `LifecycleInv`, which TLC also finds true of the instance of
  `lifecycle`. A phase's votes are for its generation, and those it kept for the one it left
  (`Sound`); nothing behind the current phase has started, astray or not, because the target of a
  checkpoint is never after the phase that was current (`Ahead`); phases are settled in order
  (`Orderly`); what approved a phase still stands (`Stands`). A roll-forward brings a checkpoint back,
  so every saved checkpoint has to satisfy the same and to know no generation that was not made
  (`Known`): that is why the properties themselves are not inductive. One lemma per command shows
  `StepGood`, from which the invariant follows again (`StepGoodInv`); completions, continuations,
  jumps and returns move the Story in one way and share `Moved`.

For `TransportIntent`, for every number of intents for a branch, any commits and any budget:

* `TransportTyped` (`TypeOK`), `ReceiptsPrecedePushes` (`ReceiptPrecedesPush`), `SuccessesWerePushed`
  (`SucceededWasPushed`), `ReservationsAreNotPushed` (`OnlyInstalledIsPushed`), `BudgetBoundsRetries`
  (`RetriesAreBounded`). The invariant is `TransportInv`. A retry that runs was admitted for a commit
  that was installed (`Guarded`); a push, running or late, has its receipt (`Receipted`); a record
  whose last attempt may be reconciled was really pushed (`Recorded`); a commit that is at the branch
  was seen there by the history of every record for it (`Seen`); and what is spent and what is left do
  not exceed the budget together (`Counted`), which is why an attempt a person adds to an exhausted
  budget leaves nothing for the next automatic one. Ten of the steps end a retry and share `RetryEnds`.

Only model-checked, not proved: the properties of Story and Initiative subjects other than
`RemoteNeverRewinds`, `OneHolder` and `TypeOK` (`story_serial` and `initiative_serial` have one process
of each kind; with more, section 5 says what the unlocked accesses break), and the liveness properties
(`AbandonedIsUndone`, `RetainedIsPublished`, `CallsEnd`, `Settles`), which are out of TLAPS's reach
because they rest on fairness.

## 7. Not modelled, and what is next

Not modelled, of the components above:

* of the lifecycle: soft sequence gates that a person confirms (`switchCurrentPhase`), intent
  amendments and the approvals they retain (rule E8), skill-version amendments, convergence, code
  delivery and its evidence, repair budgets, policy waivers, steps that may run in any order, dropped
  obligations, returns for an upstream issue other than an amendment's;
* of the publication: its direct callers other than Goals (ad hoc landings, local identities, the seeds
  of an Initiative's repositories), the retained tail of a Story with siblings, the ledger append after
  the push, the REV attestation;
* of the outbox: the step actions that run after a published step;
* the capability ledger, Story start, ad hoc sessions, action plans, workspaces,
  configuration snapshots, REV, SGOS and auto execution: protocols of their own that use the kernel,
  not reached yet;
* evidence, verification, world model, knowledge, integrations, Git caches, the CLI, the extension and
  the installers: derived data, formatting and I/O without a protocol that a model checker would reach.

Next, in order of importance:

1. The safety of a Story or Initiative subject with one process (`story_serial`) as theorems: `KernelInv`
   without `KernelLabels`, with the unlocked promotion and cleanup as steps of their own.
2. `RetainedTail`: `rootPublished`, sibling branches and the tail of ad hoc work, as an extension of
   the syncs.
3. `LedgerPlane`: intent, outbox, append, reconcile; one entry per published event.
4. Intent amendments and skill-version amendments in `PhaseLifecycle`.
5. `ActionPlan`: one-time confirmations; `StoryStart`: its start journal and resumption.
