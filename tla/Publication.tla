---------------------------- MODULE Publication ----------------------------
(***************************************************************************)
(* The publication transaction of one lifecycle subject in one clone: the  *)
(* unit of work that every mutation passes through, its write-ahead        *)
(* journal, the pending-publication marker, and the two recoveries (of a   *)
(* transaction that died before its commit, and of a commit that was not   *)
(* pushed).  Several processes of the clone run them; other clones push to *)
(* the same remote branch, and people commit and fetch in between.         *)
(*                                                                         *)
(* A commit is an identity.  history[c] is the set of commits reachable    *)
(* from c, itself included; it is {} while the object does not exist.  The *)
(* transaction t and the one commit it may create share the identity t.    *)
(***************************************************************************)
EXTENDS FiniteSets

CONSTANTS
    Proc,        \* processes of this clone (CLI invocations, the editor)
    Txn,         \* publication transactions, and the commits they create
    Foreign,     \* commits made by other clones or by hand
    Base,        \* the commit the branch starts from
    None,        \* no process, no transaction, no record, no remote branch
    Kind,        \* whose wrapper surrounds the unit of work
    Modes,       \* publication modes the configuration may select
    LateLanding,     \* a push the client gave up on may land later
    ProbeMayFail     \* the read-only remote observation may fail

\* A Story or an Initiative calls the unit of work from a wrapper of its own;
\* "kernel" is a Goal, whose callers use the exported functions directly. (Ad hoc
\* landings, local identities and seeds do so as well, with other leases, and the
\* first two with a cleanup after the lock: no kind stands for them.)
Kinds == {"story", "initiative", "kernel"}
Commit == Txn \cup Foreign \cup {Base}

ASSUME ConstantsAssumption ==
    /\ Kind \in Kinds
    /\ Modes \subseteq {"required", "off"}
    /\ LateLanding \in BOOLEAN /\ ProbeMayFail \in BOOLEAN
    /\ Txn \cap Foreign = {} /\ Base \notin Txn \cup Foreign
    /\ None \notin Commit /\ None \notin Proc

Outcomes == {"not-attempted", "rejected", "transport-indeterminate"}
BeforeRef == {"prepared", "candidate-verified", "commit-created", "restoring", "rollback-failed"}
AfterRef == {"ref-advanced", "committed", "publishing", "push-rejected", "push-indeterminate", "pushed"}
Stages == BeforeRef \cup AfterRef

\* What a transaction seals: the local parent it extends, the remote tip its
\* push is conditional on and where that lease came from, the publication
\* mode, and the preimage (which uncommitted writes were there before it).
Sources == {"observed-remote", "implicit-local-parent", "explicit"}
Plans == [base: Commit, lease: Commit \cup {None}, source: Sources,
          mode: {"required", "off"}, before: SUBSET Txn]
Journals == [txn: Txn, stage: Stages, created: BOOLEAN, outcome: Outcomes]
Markers == [txn: Txn, outcome: Outcomes, published: BOOLEAN]
Pushes == [commit: Txn, lease: Commit \cup {None}]

\* A record that is absent is not a record.
ASSUME NoneAssumption ==
    None \notin Plans /\ None \notin Journals /\ None \notin Markers

\* Where a process is.  Owning: it executes a transaction it has journaled.
Owning == {"begun", "written", "verified", "created", "advanced", "recorded", "committed",
           "pushing", "failed", "noted", "retaining", "pushed", "done", "unwinding", "unwound"}
SyncLabels == {"syncing", "syncPushing", "probeLost", "probeRejected", "syncPublished",
               "settling", "settled"}
Waiting == {"idle", "dead", "planned", "recoverWaiting", "cleanMarker", "cleanJournal"}
Labels == Owning \cup SyncLabels \cup Waiting
          \cup {"locked", "promoting", "promoted", "restoring", "restored"}

VARIABLES
    history,     \* the object store: commits and what they contain
    content,     \* the transactions whose governed bytes a commit carries
    local,       \* the branch ref of this clone
    remote,      \* the branch ref of the shared remote
    tracking,    \* this clone's remote-tracking ref
    late,        \* pushes a client gave up on that may still reach the remote
    dirty,       \* transactions whose writes are in the worktree, uncommitted
    lock,        \* the holder of the subject lock
    journal,     \* the publication journal
    pending,     \* the pending-publication marker
    plan,        \* what each transaction sealed
    pc,          \* where each process is
    txn,         \* the transaction a process executes, recovers or syncs
    target,      \* the transaction whose journal a process is promoting
    outcome,     \* the push outcome a process carries
    lease,       \* the lease a sync pushes with
    back         \* where a process goes on after a promotion

commits == <<history, content>>
net == <<remote, tracking, late>>
refs == <<commits, local, net>>
records == <<journal, pending>>
regs == <<txn, target, outcome, lease, back>>
vars == <<refs, dirty, lock, records, plan, pc, regs>>

-----------------------------------------------------------------------------
Contains(ref, c) == ref # None /\ c \in history[ref]
Mode(t) == plan[t].mode

\* The wrappers that read recovery state without the lock and promote it, and
\* that clear the marker after the unit of work has released the lock. A Goal
\* reads without migrating and leaves the records to the unit of work.
PromotingReads == Kind \in {"story", "initiative"}
UnlockedCleanup == Kind \in {"story", "initiative"}
\* The syncs that record the landed root before they clear the marker.
SyncReceipt == Kind \in {"story", "initiative"}

\* The journal primitives: an update or a clear is for one transaction, and
\* does nothing when the record on disk belongs to another.
HasJournal(t) == journal # None /\ journal.txn = t
SetStage(t, s) ==
    journal' = IF HasJournal(t) THEN [journal EXCEPT !.stage = s] ELSE journal
ClearJournal(t) ==
    journal' = IF HasJournal(t) THEN None ELSE journal

Marker(t, o) == [txn |-> t, outcome |-> o, published |-> FALSE]

\* What a reader concludes from a journal it does not own.
RefAdvanced(j) == j.created /\ local # plan[j.txn].base /\ Contains(local, j.txn)
PostCommitJournal == journal # None /\ RefAdvanced(journal)
Interrupted(j) == j.stage \in BeforeRef /\ local = plan[j.txn].base
Recoverable == {"prepared", "commit-created", "restoring", "rollback-failed"}
\* The journal's owner still holds the lock it took.
OwnerLive(t) == \E p \in Proc : lock = p /\ txn[p] = t /\ pc[p] \in Owning

Goto(p, l) == pc' = [pc EXCEPT ![p] = l]
ResetRegisters(p) ==
    /\ txn' = [txn EXCEPT ![p] = None]
    /\ target' = [target EXCEPT ![p] = None]
    /\ outcome' = [outcome EXCEPT ![p] = "not-attempted"]
    /\ lease' = [lease EXCEPT ![p] = None]
    /\ back' = [back EXCEPT ![p] = "idle"]
\* The callback of withSubjectLock settles: the lock is released.
Release(p) == lock' = None /\ Goto(p, "idle") /\ ResetRegisters(p)

-----------------------------------------------------------------------------
Init ==
    /\ history = [c \in Commit |-> IF c = Base THEN {Base} ELSE {}]
    /\ content = [t \in Txn |-> {}]
    /\ local = Base
    /\ remote \in {Base, None}
    /\ tracking = remote
    /\ late = {} /\ dirty = {}
    /\ lock = None /\ journal = None /\ pending = None
    /\ plan = [t \in Txn |-> None]
    /\ pc = [p \in Proc |-> "idle"]
    /\ txn = [p \in Proc |-> None]
    /\ target = [p \in Proc |-> None]
    /\ outcome = [p \in Proc |-> "not-attempted"]
    /\ lease = [p \in Proc |-> None]
    /\ back = [p \in Proc |-> "idle"]

-----------------------------------------------------------------------------
(* The transaction, up to its commit.                                       *)

\* The lease a wrapper seals with a transaction on top of the local head.  The
\* first commit of a Story leases the absence of its branch, or its seed.
StoryLease(l, s) ==
    \/ s = "explicit" /\ local = Base /\ l \in {None, Base}
    \/ s = "observed-remote" /\ l = remote /\ Contains(local, l)
    \/ s = "implicit-local-parent" /\ l = local /\ (remote = None \/ ProbeMayFail)
InitiativeLease(l, s) ==
    s = "explicit" /\ l = IF remote = None THEN None ELSE local
\* A Goal leases its tracking ref, which has to be at the local parent or absent.
KernelLease(l, s) ==
    s = "explicit" /\ l = tracking /\ l \in {None, local}
SealedLease(m, l, s) ==
    CASE m = "off"              -> l = None /\ s = "explicit"
      [] Kind = "story"         -> StoryLease(l, s)
      [] Kind = "initiative"    -> InitiativeLease(l, s)
      [] OTHER                  -> KernelLease(l, s)

\* A wrapper loads the aggregate, refuses while recovery is owed, and fixes
\* the parent and the lease; all of it before the lock is taken.
Plan(p, t) ==
    /\ pc[p] = "idle" /\ plan[t] = None
    /\ Kind = "kernel" \/ (journal = None /\ pending = None)
    /\ \E m \in Modes, l \in Commit \cup {None}, s \in Sources :
         /\ SealedLease(m, l, s)
         /\ plan' = [plan EXCEPT ![t] = [base |-> local, lease |-> l, source |-> s,
                                         mode |-> m, before |-> {}]]
    /\ txn' = [txn EXCEPT ![p] = t]
    /\ Goto(p, "planned")
    /\ UNCHANGED <<refs, dirty, lock, records, target, outcome, lease, back>>

Lock(p) ==
    /\ pc[p] = "planned" /\ lock = None
    /\ lock' = p
    /\ Goto(p, "locked")
    /\ UNCHANGED <<refs, dirty, records, plan, regs>>

LeaseIsAncestor(t) ==
    Mode(t) = "off" \/ plan[t].lease = None \/ plan[t].lease \in history[local]

\* Mutant: the preflight looks only for a marker, not for a journal.
BeginOverInterrupted(p) == LET t == txn[p] IN
    /\ pc[p] = "locked"
    /\ pending = None
    /\ local = plan[t].base /\ LeaseIsAncestor(t)
    /\ plan' = [plan EXCEPT ![t].before = dirty]
    /\ journal' = [txn |-> t, stage |-> "prepared", created |-> FALSE, outcome |-> "not-attempted"]
    /\ Goto(p, "begun")
    /\ UNCHANGED <<refs, dirty, lock, pending, regs>>

\* Mutant: the preflight looks only for a journal, not for a marker.
BeginWhilePending(p) == LET t == txn[p] IN
    /\ pc[p] = "locked"
    /\ journal = None
    /\ local = plan[t].base /\ LeaseIsAncestor(t)
    /\ plan' = [plan EXCEPT ![t].before = dirty]
    /\ journal' = [txn |-> t, stage |-> "prepared", created |-> FALSE, outcome |-> "not-attempted"]
    /\ Goto(p, "begun")
    /\ UNCHANGED <<refs, dirty, lock, pending, regs>>

Begin(p) == LET t == txn[p] IN
    /\ pc[p] = "locked"
    /\ journal = None /\ pending = None
    /\ local = plan[t].base /\ LeaseIsAncestor(t)
    /\ plan' = [plan EXCEPT ![t].before = dirty]
    /\ journal' = [txn |-> t, stage |-> "prepared", created |-> FALSE, outcome |-> "not-attempted"]
    /\ Goto(p, "begun")
    /\ UNCHANGED <<refs, dirty, lock, pending, regs>>

\* A preflight refuses: nothing was written, the transaction ID is not used.
Refuse(p) == LET t == txn[p] IN
    /\ pc[p] = "locked"
    /\ \/ pending # None
       \/ journal # None /\ ~RefAdvanced(journal)
       \/ local # plan[t].base
       \/ ~LeaseIsAncestor(t)
    /\ Release(p)
    /\ UNCHANGED <<refs, dirty, records, plan>>

WriteState(p) ==
    /\ pc[p] = "begun"
    /\ dirty' = dirty \cup {txn[p]}
    /\ Goto(p, "written")
    /\ UNCHANGED <<refs, lock, records, plan, regs>>

VerifyCandidate(p) ==
    /\ pc[p] = "written"
    /\ SetStage(txn[p], "candidate-verified")
    /\ Goto(p, "verified")
    /\ UNCHANGED <<refs, dirty, lock, pending, plan, regs>>

\* commit-tree on the admitted tree, then the journal learns the commit.
CreateCommit(p) == LET t == txn[p] IN
    /\ pc[p] = "verified"
    /\ history' = [history EXCEPT ![t] = history[plan[t].base] \cup {t}]
    /\ content' = [content EXCEPT ![t] = dirty]
    /\ journal' = IF HasJournal(t)
                    THEN [journal EXCEPT !.stage = "commit-created", !.created = TRUE]
                    ELSE journal
    /\ Goto(p, "created")
    /\ UNCHANGED <<local, net, dirty, lock, pending, plan, regs>>

\* update-ref with the expected old commit: the commit is on the branch, and
\* what it carries is no longer an uncommitted change.
AdvanceRef(p) == LET t == txn[p] IN
    /\ pc[p] = "created" /\ local = plan[t].base
    /\ local' = t
    /\ dirty' = dirty \ content[t]
    /\ Goto(p, "advanced")
    /\ UNCHANGED <<commits, net, lock, records, plan, regs>>

\* update-ref failed or its answer was lost: neither rollback nor a marker is
\* safe, the commit-created journal stays for recovery.
RefOutcomeUnknown(p) ==
    /\ pc[p] \in {"created", "advanced"}
    /\ Release(p)
    /\ UNCHANGED <<refs, dirty, records, plan>>

RecordAdvanced(p) ==
    /\ pc[p] = "advanced"
    /\ SetStage(txn[p], "ref-advanced")
    /\ Goto(p, "recorded")
    /\ UNCHANGED <<refs, dirty, lock, pending, plan, regs>>

-----------------------------------------------------------------------------
(* The unwinding of a transaction that failed before its commit.            *)

\* Mutant: a transaction that wrote but has no candidate is taken for one that
\* has nothing to restore.
FailBeforeCommitUnrestored(p) ==
    /\ pc[p] \in {"begun", "written", "verified", "created"}
    /\ SetStage(txn[p], "restoring")
    /\ Goto(p, IF pc[p] = "written" THEN "unwound" ELSE "unwinding")
    /\ UNCHANGED <<refs, dirty, lock, pending, plan, regs>>

\* Any step from the first state write to the ref update throws.
FailBeforeCommit(p) ==
    /\ pc[p] \in {"begun", "written", "verified", "created"}
    /\ SetStage(txn[p], "restoring")
    /\ Goto(p, "unwinding")
    /\ UNCHANGED <<refs, dirty, lock, pending, plan, regs>>

\* The exact preimage replaces the governed files; unwind holds it in memory,
\* recovery reads it from the journal.
Restore(p, from, to) ==
    /\ pc[p] = from
    /\ dirty' = plan[txn[p]].before
    /\ Goto(p, to)
    /\ UNCHANGED <<refs, lock, records, plan, regs>>

RestoreFails(p, from) ==
    /\ pc[p] = from
    /\ SetStage(txn[p], "rollback-failed")
    /\ Release(p)
    /\ UNCHANGED <<refs, dirty, pending, plan>>

ClearRestored(p, from) ==
    /\ pc[p] = from
    /\ ClearJournal(txn[p])
    /\ Release(p)
    /\ UNCHANGED <<refs, dirty, pending, plan>>

Unwind(p) ==
    \/ FailBeforeCommit(p)
    \/ Restore(p, "unwinding", "unwound")
    \/ RestoreFails(p, "unwinding")
    \/ ClearRestored(p, "unwound")

-----------------------------------------------------------------------------
(* The transaction after its commit: rollback is forbidden from here on.    *)

\* Something failed after the ref advanced (the journal, the attestation, the
\* checkout): a commit that is to be published is retained, a local one is done.
FailAfterRef(p) ==
    /\ pc[p] \in {"advanced", "recorded"}
    /\ Goto(p, IF Mode(txn[p]) = "off" THEN "retaining" ELSE "noted")
    /\ UNCHANGED <<refs, dirty, lock, records, plan, regs>>

MarkCommitted(p) ==
    /\ pc[p] = "recorded"
    /\ SetStage(txn[p], "committed")
    /\ Goto(p, IF Mode(txn[p]) = "off" THEN "done" ELSE "committed")
    /\ UNCHANGED <<refs, dirty, lock, pending, plan, regs>>

\* From the moment this stage is durable, a death cannot tell whether the
\* remote took the update.
StartPush(p) ==
    /\ pc[p] = "committed"
    /\ journal' = IF HasJournal(txn[p])
                    THEN [journal EXCEPT !.outcome = "transport-indeterminate", !.stage = "publishing"]
                    ELSE journal
    /\ Goto(p, "pushing")
    /\ UNCHANGED <<refs, dirty, lock, pending, plan, regs>>

\* Mutant: the push carries no lease.
AcceptsForced(l, t) == remote # t

\* The remote accepts t in place of exactly l.  A branch that is already at t
\* reports "up to date", which a conditional push does not count as its own.
Accepts(l, t) == remote = l /\ remote # t

Lands(t, l) ==
    /\ Accepts(l, t)
    /\ remote' = t /\ tracking' = t
    /\ UNCHANGED late
\* The transport died: the update was taken, or was not, or is still under way.
Vanishes(t, l) ==
    /\ \/ Accepts(l, t) /\ remote' = t /\ UNCHANGED late
       \/ UNCHANGED <<remote, late>>
       \/ LateLanding /\ late' = late \cup {[commit |-> t, lease |-> l]} /\ UNCHANGED remote
    /\ UNCHANGED tracking

PushLands(p) ==
    /\ pc[p] = "pushing"
    /\ Lands(txn[p], plan[txn[p]].lease)
    /\ Goto(p, "pushed")
    /\ UNCHANGED <<commits, local, dirty, lock, records, plan, regs>>

PushVanishes(p) ==
    /\ pc[p] = "pushing"
    /\ Vanishes(txn[p], plan[txn[p]].lease)
    /\ outcome' = [outcome EXCEPT ![p] = "transport-indeterminate"]
    /\ Goto(p, "failed")
    /\ UNCHANGED <<commits, local, dirty, lock, records, plan, txn, target, lease, back>>

\* The lease does not hold, or a rule of the remote refuses the update.
PushRejected(p) ==
    /\ pc[p] = "pushing"
    /\ outcome' = [outcome EXCEPT ![p] = "rejected"]
    /\ Goto(p, "failed")
    /\ UNCHANGED <<refs, dirty, lock, records, plan, txn, target, lease, back>>

\* Mutant: the journal is cleared before the marker is written.
NoteFailureThenClear(p) ==
    /\ pc[p] = "failed"
    /\ ClearJournal(txn[p])
    /\ Goto(p, "noted")
    /\ UNCHANGED <<refs, dirty, lock, pending, plan, regs>>

NoteFailure(p) == LET o == outcome[p] IN
    /\ pc[p] = "failed"
    /\ journal' = IF HasJournal(txn[p])
                    THEN [journal EXCEPT !.outcome = o,
                            !.stage = IF o = "rejected" THEN "push-rejected" ELSE "push-indeterminate"]
                    ELSE journal
    /\ Goto(p, "noted")
    /\ UNCHANGED <<refs, dirty, lock, pending, plan, regs>>

Retain(p) ==
    /\ pc[p] = "noted"
    /\ pending' = Marker(txn[p], outcome[p])
    /\ Goto(p, "retaining")
    /\ UNCHANGED <<refs, dirty, lock, journal, plan, regs>>

ClearRetained(p) ==
    /\ pc[p] = "retaining"
    /\ ClearJournal(txn[p])
    /\ Release(p)
    /\ UNCHANGED <<refs, dirty, pending, plan>>

MarkPushed(p) ==
    /\ pc[p] = "pushed"
    /\ SetStage(txn[p], "pushed")
    /\ Goto(p, "done")
    /\ UNCHANGED <<refs, dirty, lock, pending, plan, regs>>

\* The unit of work succeeded: it clears its journal and releases the lock; the
\* wrapper of a pushed Story or Initiative goes on to clear the marker.
Finish(p) ==
    /\ pc[p] = "done"
    /\ ClearJournal(txn[p])
    /\ lock' = None
    /\ Goto(p, IF UnlockedCleanup /\ Mode(txn[p]) = "required" THEN "cleanMarker" ELSE "idle")
    /\ ResetRegisters(p)
    /\ UNCHANGED <<refs, dirty, pending, plan>>

\* clearPendingPublication: the marker, whosever it is, then the journal,
\* whosever it is.
ClearMarker(p, from, to) ==
    /\ pc[p] = from
    /\ pending' = None
    /\ Goto(p, to)
    /\ UNCHANGED <<refs, dirty, lock, journal, plan, regs>>

CleanupJournal(p) ==
    /\ pc[p] = "cleanJournal"
    /\ journal' = None
    /\ Goto(p, "idle")
    /\ UNCHANGED <<refs, dirty, lock, pending, plan, regs>>

Publish(p) ==
    \/ FailAfterRef(p) \/ MarkCommitted(p) \/ StartPush(p)
    \/ PushLands(p) \/ PushVanishes(p) \/ PushRejected(p)
    \/ NoteFailure(p) \/ Retain(p) \/ ClearRetained(p)
    \/ MarkPushed(p) \/ Finish(p)
    \/ ClearMarker(p, "cleanMarker", "cleanJournal") \/ CleanupJournal(p)

-----------------------------------------------------------------------------
(* readPendingPublication: a journal whose commit is on the branch becomes  *)
(* a marker.  The read and the two writes are separate, and a wrapper may   *)
(* read without the lock.                                                   *)

\* Mutant: every reader promotes, with or without the lock.
MayPromoteUnlocked(p) == pc[p] \in {"locked", "syncing", "idle"}

MayPromote(p) == pc[p] \in {"locked", "syncing"} \/ (pc[p] = "idle" /\ PromotingReads)

\* Mutant: a lease is taken for proof that the commit was published.
NothingOwedByLease(t) ==
    Mode(t) = "off" \/ plan[t].lease # None

\* Nothing is owed: the commit is local by choice, or is known to be published.
\* A create-only publication never infers that from reachability.
NothingOwed(t) ==
    Mode(t) = "off" \/ (plan[t].lease # None /\ Contains(tracking, t))

DropJournal(p) ==
    /\ MayPromote(p)
    /\ pending = None /\ PostCommitJournal /\ NothingOwed(journal.txn)
    /\ journal' = None
    /\ UNCHANGED <<refs, dirty, lock, pending, plan, pc, regs>>

StartPromotion(p) ==
    /\ MayPromote(p)
    /\ pending = None /\ PostCommitJournal /\ ~NothingOwed(journal.txn)
    /\ target' = [target EXCEPT ![p] = journal.txn]
    /\ outcome' = [outcome EXCEPT ![p] = journal.outcome]
    /\ back' = [back EXCEPT ![p] = pc[p]]
    /\ Goto(p, "promoting")
    /\ UNCHANGED <<refs, dirty, lock, records, plan, txn, lease>>

PromoteMarker(p) ==
    /\ pc[p] = "promoting"
    /\ pending' = Marker(target[p], outcome[p])
    /\ Goto(p, "promoted")
    /\ UNCHANGED <<refs, dirty, lock, journal, plan, regs>>

PromoteClear(p) ==
    /\ pc[p] = "promoted"
    /\ ClearJournal(target[p])
    /\ target' = [target EXCEPT ![p] = None]
    /\ outcome' = [outcome EXCEPT ![p] = "not-attempted"]
    /\ back' = [back EXCEPT ![p] = "idle"]
    /\ Goto(p, back[p])
    /\ UNCHANGED <<refs, dirty, lock, pending, plan, txn, lease>>

Promote(p) ==
    DropJournal(p) \/ StartPromotion(p) \/ PromoteMarker(p) \/ PromoteClear(p)

-----------------------------------------------------------------------------
(* recoverPreparedPublication: the pre-commit journal of a dead owner.      *)

StartRecover(p) ==
    /\ pc[p] = "idle"
    /\ pending = None /\ journal # None
    /\ Interrupted(journal) /\ journal.stage \in Recoverable
    /\ ~OwnerLive(journal.txn)
    /\ txn' = [txn EXCEPT ![p] = journal.txn]
    /\ Goto(p, "recoverWaiting")
    /\ UNCHANGED <<refs, dirty, lock, records, plan, target, outcome, lease, back>>

\* Mutant: the second check forgets the stages that an earlier recovery leaves.
StillRecoverablePrepared(t) ==
    HasJournal(t) /\ journal.stage = "prepared" /\ local = plan[t].base

\* Everything is checked again under the lock; otherwise recovery returns null.
StillRecoverable(t) ==
    HasJournal(t) /\ journal.stage \in Recoverable /\ local = plan[t].base

\* Mutant: recovery restores without taking the subject lock.
RecoverWithoutLock(p) ==
    /\ pc[p] = "recoverWaiting"
    /\ StillRecoverable(txn[p])
    /\ SetStage(txn[p], "restoring")
    /\ Goto(p, "restoring")
    /\ UNCHANGED <<refs, dirty, lock, pending, plan, regs>>

RecoverLock(p) ==
    /\ pc[p] = "recoverWaiting" /\ lock = None
    /\ StillRecoverable(txn[p])
    /\ lock' = p
    /\ SetStage(txn[p], "restoring")
    /\ Goto(p, "restoring")
    /\ UNCHANGED <<refs, dirty, pending, plan, regs>>

RecoverLeave(p) ==
    /\ pc[p] = "recoverWaiting" /\ lock = None
    /\ ~StillRecoverable(txn[p])
    /\ Goto(p, "idle") /\ ResetRegisters(p)
    /\ UNCHANGED <<refs, dirty, lock, records, plan>>

Recover(p) ==
    \/ RecoverLock(p) \/ RecoverLeave(p)
    \/ Restore(p, "restoring", "restored")
    \/ RestoreFails(p, "restoring")
    \/ ClearRestored(p, "restored")

-----------------------------------------------------------------------------
(* The sync of a retained commit, under the subject lock.                   *)

\* Mutant: a rejected publication is not retried.
StartSyncUnlessRejected(p) ==
    /\ pc[p] = "idle" /\ lock = None
    /\ (pending # None /\ pending.outcome # "rejected") \/ PostCommitJournal
    /\ lock' = p
    /\ Goto(p, "syncing")
    /\ UNCHANGED <<refs, dirty, records, plan, regs>>

StartSync(p) ==
    /\ pc[p] = "idle" /\ lock = None
    /\ pending # None \/ PostCommitJournal
    /\ lock' = p
    /\ Goto(p, "syncing")
    /\ UNCHANGED <<refs, dirty, records, plan, regs>>

\* Nothing to sync, an interrupted transaction, or a landed root that the
\* remote no longer advertises exactly.
SyncLeaves(p) ==
    /\ pc[p] = "syncing"
    /\ \/ pending = None /\ ~PostCommitJournal
       \/ pending # None /\ pending.published /\ (remote # pending.txn \/ ProbeMayFail)
    /\ Release(p)
    /\ UNCHANGED <<refs, dirty, records, plan>>

\* Mutant: whatever the remote holds becomes the lease of the retry.
ReobservedAny(t) ==
    /\ Kind = "story" /\ plan[t].source = "implicit-local-parent"
    /\ remote # t

\* A Story whose lease was only a fallback observes the remote again.
Reobserved(t) ==
    /\ Kind = "story" /\ plan[t].source = "implicit-local-parent"
    /\ remote # t /\ Contains(t, remote)

\* The marker says "indeterminate" before the push may move the remote.
SyncPrepare(p) == LET t == pending.txn IN
    /\ pc[p] = "syncing" /\ pending # None /\ ~pending.published
    /\ txn' = [txn EXCEPT ![p] = t]
    /\ outcome' = [outcome EXCEPT ![p] = pending.outcome]
    /\ \E l \in {plan[t].lease, remote} :
         /\ \/ l = plan[t].lease /\ (ProbeMayFail \/ ~Reobserved(t))
            \/ l = remote /\ Reobserved(t)
         /\ lease' = [lease EXCEPT ![p] = l]
    /\ pending' = [pending EXCEPT !.outcome = "transport-indeterminate"]
    /\ Goto(p, "syncPushing")
    /\ UNCHANGED <<refs, dirty, lock, journal, plan, target, back>>

Landed == IF SyncReceipt THEN "syncPublished" ELSE "settling"

SyncLands(p) ==
    /\ pc[p] = "syncPushing"
    /\ Lands(txn[p], lease[p])
    /\ Goto(p, Landed)
    /\ UNCHANGED <<commits, local, dirty, lock, records, plan, regs>>

SyncVanishes(p) ==
    /\ pc[p] = "syncPushing"
    /\ Vanishes(txn[p], lease[p])
    /\ Goto(p, "probeLost")
    /\ UNCHANGED <<commits, local, dirty, lock, records, plan, regs>>

\* A refused retry may still find that an earlier attempt had landed, but only
\* if the sealed marker left that open.
SyncRejected(p) ==
    /\ pc[p] = "syncPushing"
    /\ outcome[p] = "transport-indeterminate"
    /\ Goto(p, "probeRejected")
    /\ UNCHANGED <<refs, dirty, lock, records, plan, regs>>

SyncRefused(p) ==
    /\ pc[p] = "syncPushing"
    /\ outcome[p] # "transport-indeterminate"
    /\ pending' = Marker(txn[p], "rejected")
    /\ Release(p)
    /\ UNCHANGED <<refs, dirty, journal, plan>>

ProbeFinds(p) ==
    /\ pc[p] \in {"probeLost", "probeRejected"}
    /\ remote = txn[p]
    /\ Goto(p, Landed)
    /\ UNCHANGED <<refs, dirty, lock, records, plan, regs>>

\* The tip is another commit, or the remote could not be observed.  After a
\* rejection the marker says "rejected"; otherwise it stays indeterminate.
ProbeMisses(p) ==
    /\ pc[p] \in {"probeLost", "probeRejected"}
    /\ remote # txn[p] \/ ProbeMayFail
    /\ pending' = IF pc[p] = "probeRejected" THEN Marker(txn[p], "rejected") ELSE pending
    /\ Release(p)
    /\ UNCHANGED <<refs, dirty, journal, plan>>

\* Story and Initiative: the landed root is durable before the marker goes.
SyncReceiptWritten(p) ==
    /\ pc[p] = "syncPublished"
    /\ pending' = [txn |-> txn[p], published |-> TRUE,
                   outcome |-> IF Kind = "story" THEN "transport-indeterminate" ELSE "not-attempted"]
    /\ Goto(p, "settling")
    /\ UNCHANGED <<refs, dirty, lock, journal, plan, regs>>

SyncAlreadyPublished(p) ==
    /\ pc[p] = "syncing" /\ pending # None /\ pending.published
    /\ remote = pending.txn
    /\ txn' = [txn EXCEPT ![p] = pending.txn]
    /\ Goto(p, "settling")
    /\ UNCHANGED <<refs, dirty, lock, records, plan, target, outcome, lease, back>>

SettleJournal(p) ==
    /\ pc[p] = "settled"
    /\ journal' = None
    /\ Release(p)
    /\ UNCHANGED <<refs, dirty, pending, plan>>

Sync(p) ==
    \/ SyncLeaves(p) \/ SyncPrepare(p) \/ SyncLands(p) \/ SyncVanishes(p)
    \/ SyncRejected(p) \/ SyncRefused(p) \/ ProbeFinds(p) \/ ProbeMisses(p)
    \/ SyncReceiptWritten(p) \/ SyncAlreadyPublished(p)
    \/ ClearMarker(p, "settling", "settled") \/ SettleJournal(p)

-----------------------------------------------------------------------------
(* A process dies (or a step throws) anywhere: memory and the lock go, the  *)
(* files, the refs and the records stay.                                    *)
Crash(p) ==
    /\ pc[p] \notin {"idle", "dead"}
    /\ lock' = IF lock = p THEN None ELSE lock
    /\ Goto(p, "dead") /\ ResetRegisters(p)
    /\ UNCHANGED <<refs, dirty, records, plan>>

\* The next command starts in a fresh process.
Restart(p) ==
    /\ pc[p] = "dead"
    /\ Goto(p, "idle")
    /\ UNCHANGED <<refs, dirty, lock, records, plan, regs>>

(* What happens around the program.                                         *)

NewCommit(f, parent) ==
    /\ history[f] = {}
    /\ history' = [history EXCEPT ![f] = history[parent] \cup {f}]

\* A person commits something else on the branch.
LocalCommit(f) ==
    /\ NewCommit(f, local)
    /\ local' = f
    /\ UNCHANGED <<content, net, dirty, lock, records, plan, pc, regs>>

\* Another clone creates the branch or pushes on top of it.
OtherPush(f) ==
    /\ NewCommit(f, IF remote = None THEN Base ELSE remote)
    /\ remote' = f
    /\ UNCHANGED <<content, local, tracking, late, dirty, lock, records, plan, pc, regs>>

Fetch ==
    /\ remote # None /\ tracking # remote
    /\ tracking' = remote
    /\ UNCHANGED <<commits, local, remote, late, dirty, lock, records, plan, pc, regs>>

\* refresh-branch only fast-forwards, and not over uncommitted governed bytes.
FastForward ==
    /\ tracking # None /\ local # tracking /\ local \in history[tracking]
    /\ dirty = {}
    /\ local' = tracking
    /\ UNCHANGED <<commits, net, dirty, lock, records, plan, pc, regs>>

LateArrives(push) ==
    /\ push \in late
    /\ late' = late \ {push}
    /\ remote' = IF Accepts(push.lease, push.commit) THEN push.commit ELSE remote
    /\ UNCHANGED <<commits, local, tracking, dirty, lock, records, plan, pc, regs>>

Environment ==
    \/ \E f \in Foreign : LocalCommit(f) \/ OtherPush(f)
    \/ Fetch \/ FastForward
    \/ \E push \in late : LateArrives(push)

-----------------------------------------------------------------------------
Execute(p) ==
    \/ Lock(p) \/ Begin(p) \/ Refuse(p) \/ WriteState(p) \/ VerifyCandidate(p)
    \/ CreateCommit(p) \/ AdvanceRef(p) \/ RefOutcomeUnknown(p) \/ RecordAdvanced(p)

Start(p) == (\E t \in Txn : Plan(p, t)) \/ StartRecover(p) \/ StartSync(p)
Proceed(p) ==
    Execute(p) \/ Unwind(p) \/ Publish(p) \/ Promote(p) \/ Recover(p) \/ Sync(p) \/ Restart(p)

Next ==
    \/ \E p \in Proc : Start(p) \/ Proceed(p) \/ Crash(p)
    \/ Environment

Spec == Init /\ [][Next]_vars

\* A started command keeps running, operators retry recovery and sync for as
\* long as they are owed, and neither the disk that refuses a restore nor the
\* remote that refuses a push it would take does so for ever.
Fairness ==
    \A p \in Proc :
        /\ WF_vars(Proceed(p))
        /\ SF_vars(StartRecover(p)) /\ SF_vars(Restore(p, "restoring", "restored"))
        /\ SF_vars(StartSync(p)) /\ SF_vars(SyncLands(p))

FairSpec == Spec /\ Fairness

-----------------------------------------------------------------------------
(* Properties.                                                              *)

AtRest == \A p \in Proc : pc[p] \in {"idle", "dead"}
Named(t) == HasJournal(t) \/ (pending # None /\ pending.txn = t)

\* Every variable has its type; in particular the records name transactions
\* that sealed a plan (the JSON schemas of the journal and of the marker).
TypeOK ==
    /\ history \in [Commit -> SUBSET Commit]
    /\ content \in [Txn -> SUBSET Txn]
    /\ local \in Commit
    /\ remote \in Commit \cup {None} /\ tracking \in Commit \cup {None}
    /\ late \subseteq Pushes
    /\ dirty \subseteq Txn
    /\ lock \in Proc \cup {None}
    /\ journal \in Journals \cup {None}
    /\ pending \in Markers \cup {None}
    /\ plan \in [Txn -> Plans \cup {None}]
    /\ pc \in [Proc -> Labels]
    /\ txn \in [Proc -> Txn \cup {None}]
    /\ target \in [Proc -> Txn \cup {None}]
    /\ outcome \in [Proc -> Outcomes]
    /\ lease \in [Proc -> Commit \cup {None}]
    /\ back \in [Proc -> {"idle", "locked", "syncing"}]

\* Uncommitted governed bytes in the worktree are always those of the one
\* transaction the journal names, which is still before its commit and holds a
\* clean preimage: a death before the commit stays discoverable and undoable
\* (publication-unit-of-work.mjs:166-175, docs/GOVERNED-EXECUTION.md:54-57).
DirtyIsJournaled ==
    dirty # {} =>
        /\ journal # None /\ dirty = {journal.txn}
        /\ journal.stage \in BeforeRef
        /\ plan[journal.txn].before = {}

\* A governed commit carries the event of its own transaction and of no other:
\* what an earlier transaction left behind is never swept into signed history.
CommitCarriesOneEvent ==
    \A t \in Txn : history[t] # {} => content[t] = {t}

\* A commit that must be published and is on the branch is on the remote, or is
\* named by the journal or by the marker: no death, failure or recovery forgets
\* an unpublished commit (docs/GDP-CONTRACT-VNEXT.md:249).
NoLostCommit ==
    \A t \in Txn :
        (plan[t] # None /\ Mode(t) = "required" /\ t \in history[local])
            => Contains(remote, t) \/ Named(t)

\* A marker is written for what was interrupted, never while the process that
\* owns the transaction is still committing or pushing it
\* (docs/GOVERNED-EXECUTION.md:56-57, publication-pending.mjs:1028).
OnlyInterruptedIsPromoted ==
    \A p \in Proc :
        (lock = p /\ pc[p] \in Owning \ {"retaining"})
            => ~(pending # None /\ pending.txn = txn[p])

\* At rest, a marker whose commit is the tip of the remote can still be
\* reconciled: its sealed outcome leaves open that the push landed
\* (state.mjs:10081-10085).
LandedIsReconcilable ==
    (AtRest /\ pending # None /\ remote = pending.txn)
        => pending.outcome = "transport-indeterminate" \/ pending.published

\* At most one process works under the subject lock, whatever it does there.
Holding == Owning \cup SyncLabels \cup {"locked", "restoring", "restored"}
OneHolder ==
    \A p \in Proc :
        (pc[p] \in Holding \/ (pc[p] \in {"promoting", "promoted"} /\ back[p] # "idle")) <=> lock = p

\* No push of this clone, first try, retry or one that arrives late, ever takes
\* a commit off the remote branch: every lease is an ancestor of the commit it
\* protects (state.mjs:9557-9577, publication-unit-of-work.mjs:190-204).
RemoteNeverRewinds ==
    [][\A c \in Commit : Contains(remote, c) => Contains(remote, c)']_vars

\* The refinement mapping to the promise: what is uncommitted is what the
\* worktree holds, what is retained is what the branch holds and the remote
\* owes, what is final has reached the place its mode names.
OnBranch(m) == {t \in Txn : plan[t] # None /\ Mode(t) = m /\ t \in history[local]}
OnRemote == {t \in Txn : Contains(remote, t)}
Contract == INSTANCE PublicationContract WITH
    uncommitted <- dirty,
    retained <- OnBranch("required") \ OnRemote,
    final <- OnBranch("off") \cup OnRemote

\* The transaction keeps the promise of PublicationContract (docs/
\* GDP-CONTRACT-VNEXT.md:249): one unfinished decision at a time, undone only
\* before its commit, published or retained after it.
KeepsContract == Contract!Spec

\* Processes stop dying.
Calm == <>[](\A p \in Proc : pc[p] # "dead")

\* A journal of transaction t that stopped before its commit, its owner gone.
Abandoned(t) ==
    HasJournal(t) /\ pending = None /\ Interrupted(journal) /\ ~OwnerLive(t)

\* Once processes stop dying, a transaction abandoned in a stage the recovery
\* lists is undone: it does not stay abandoned for ever.
AbandonedIsUndone ==
    Calm => \A t \in Txn : ~<>[](Abandoned(t) /\ journal.stage \in Recoverable)

\* The same for every stage before the ref advances, as the recovery record
\* says of each of them: "exact pre-transaction recovery is available"
\* (publication-pending.mjs:669-676).
EveryAbandonedIsUndone ==
    Calm => \A t \in Txn : ~<>[]Abandoned(t)

\* Once processes stop dying, a retained commit does not stay retained for ever
\* beside a remote branch that is still where its lease says.
RetainedIsPublished ==
    Calm => \A t \in Txn :
        ~<>[](pending # None /\ pending.txn = t /\ remote = plan[t].lease)
=============================================================================
