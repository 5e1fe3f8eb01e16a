----------------------- MODULE PublicationInvariants -----------------------
(***************************************************************************)
(* The inductive invariants behind the safety properties of Publication.   *)
(* Graph, Planned and OnBranch hold for every kind of subject and give     *)
(* RemoteNeverRewinds.  Recorded and Owned need readers that stay under    *)
(* the lock and a caller that leaves the records alone: they give the      *)
(* other properties, of Goals (Kind = "kernel").                           *)
(***************************************************************************)
EXTENDS Publication

Exists(c) == history[c] # {}
Refs == {local, remote, tracking} \ {None}
Sealed(t) == t \in Txn /\ plan[t] # None
\* On the branch of this clone, and owed to the remote.
Owed(t) == Sealed(t) /\ Mode(t) = "required" /\ t \in history[local]
Leased(l, c) == l # None => l \in history[c]

\* Who executes which transaction: from its plan to the release of the lock.
Executing(p) ==
    \/ pc[p] \in Owning \cup {"planned", "locked"}
    \/ pc[p] \in {"promoting", "promoted"} /\ back[p] = "locked"
Uncreated(p) == Executing(p) /\ pc[p] \notin Owning \ {"begun", "written", "verified"}
OnBranchLabels == {"advanced", "recorded", "committed", "pushing", "failed", "noted",
                   "retaining", "pushed", "done"}
PublishingLabels == {"committed", "pushing", "failed", "noted", "pushed"}
SyncingLabels == SyncLabels \ {"syncing"}

-----------------------------------------------------------------------------
\* The registers and the records name transactions that have sealed a plan.
NamesTxn == Owning \cup SyncingLabels
            \cup {"planned", "locked", "recoverWaiting", "restoring", "restored"}
SealedInv ==
    /\ \A p \in Proc : pc[p] \in NamesTxn => Sealed(txn[p])
    /\ \A p \in Proc : pc[p] \in {"promoting", "promoted"} =>
         Sealed(target[p]) /\ (back[p] = "locked" => Sealed(txn[p]))
    /\ journal # None => Sealed(journal.txn)
    /\ pending # None => Sealed(pending.txn)
TypeInv == TypeOK /\ SealedInv

\* The object store is closed under reachability, and the refs exist.
Graph ==
    /\ history[Base] = {Base}
    /\ \A c \in Commit : \A d \in history[c] : Exists(d) /\ history[d] \subseteq history[c]
    /\ \A c \in Commit : Exists(c) => c \in history[c]
    /\ \A c \in Refs : Exists(c)
    /\ tracking # None => Contains(remote, tracking)

\* A plan has one executor, which makes its one commit.
Executors ==
    /\ \A p, q \in Proc : Executing(p) /\ Executing(q) /\ txn[p] = txn[q] => p = q
    /\ \A p \in Proc : Uncreated(p) => ~Exists(txn[p])
    /\ \A p \in Proc : pc[p] = "created" => Exists(txn[p])

\* The commit of a plan is made on top of the sealed parent, of which the sealed
\* lease is an ancestor.
Planned ==
    /\ \A t \in Txn : Exists(t) => Sealed(t)
    /\ \A t \in Txn : Sealed(t) => Exists(plan[t].base) /\ t \notin history[plan[t].base]
    /\ \A t \in Txn : Exists(t) => history[t] = history[plan[t].base] \cup {t}
    /\ \A t \in Txn : Exists(t) /\ Mode(t) = "required" => Leased(plan[t].lease, plan[t].base)
Journaled ==
    \A p \in Proc : pc[p] \in {"begun", "written", "verified"} /\ Mode(txn[p]) = "required"
        => Leased(plan[txn[p]].lease, plan[txn[p]].base)

\* Whatever may be pushed, or was, is on the branch of this clone.
OnBranchInv ==
    /\ \A p \in Proc : pc[p] \in OnBranchLabels => txn[p] \in history[local]
    /\ \A p \in Proc : pc[p] \in PublishingLabels => Mode(txn[p]) = "required"
    /\ \A p \in Proc : pc[p] \in SyncingLabels => Owed(txn[p])
    /\ \A p \in Proc : pc[p] \in {"promoting", "promoted"} => Owed(target[p])
    /\ \A p \in Proc : pc[p] = "syncPushing" => Leased(lease[p], txn[p])
    /\ pending # None => Owed(pending.txn)
    /\ \A push \in late : push.commit \in history[local] /\ Leased(push.lease, push.commit)
    /\ \A c \in Refs : \A t \in Txn : t \in history[c] => t \in history[local]

-----------------------------------------------------------------------------
\* Readers promote under the lock only, and no wrapper touches the records
\* after the lock is released.
KernelLabels ==
    \A p \in Proc :
        /\ pc[p] \notin {"cleanMarker", "cleanJournal", "syncPublished"}
        /\ pc[p] \in {"promoting", "promoted"} => back[p] # "idle"

\* What the records say of each other and of the worktree.
Recorded ==
    /\ \A t \in Txn : Sealed(t) => plan[t].before = {}
    /\ pending # None => dirty = {}
    /\ pending # None /\ journal # None => journal.txn = pending.txn
    /\ dirty # {} => journal # None /\ journal.txn \notin history[local]

\* What the process that works under the lock may rely on.
OwnedBy(p) == LET t == txn[p] IN
    /\ pc[p] \in Owning => HasJournal(t)
    /\ pc[p] \in Owning \ {"retaining"} => pending = None
    /\ pc[p] = "begun" => dirty = {} /\ journal.stage = "prepared"
    /\ pc[p] \in {"written", "verified", "created"} => dirty = {t}
    /\ pc[p] \in {"written", "verified", "created", "unwinding", "unwound"} =>
         journal.stage \in BeforeRef /\ t \notin history[local]
    /\ pc[p] \in OnBranchLabels \cup {"unwound"} => dirty = {}
    /\ pc[p] = "pushed" => Contains(remote, t)
    /\ pc[p] = "done" /\ Mode(t) = "required" => Contains(remote, t)
    /\ pc[p] = "retaining" /\ Mode(t) = "required" => pending # None /\ pending.txn = t
    /\ pc[p] \in {"restoring", "restored"} =>
         HasJournal(t) /\ journal.stage = "restoring" /\ t \notin history[local]
    /\ pc[p] = "restored" => dirty = {}
    /\ pc[p] \in {"promoting", "promoted"} => HasJournal(target[p]) /\ dirty = {}
    /\ pc[p] = "promoting" => pending = None
    /\ pc[p] = "promoted" => pending # None /\ pending.txn = target[p]
    /\ pc[p] \in SyncingLabels => dirty = {} /\ (journal # None => journal.txn = t)
    /\ pc[p] \in SyncingLabels \ {"settled"} => pending # None /\ pending.txn = t
    /\ pc[p] \in {"settling", "settled"} => Contains(remote, t)
    /\ pc[p] = "settled" => pending = None
Owned == \A p \in Proc : OwnedBy(p)

-----------------------------------------------------------------------------
\* The inductive invariant of every kind, and the one of the kernel.
CommonInv == TypeInv /\ OneHolder /\ Graph /\ Executors /\ Planned /\ Journaled /\ OnBranchInv
KernelInv ==
    /\ CommonInv /\ KernelLabels /\ Recorded /\ Owned
    /\ DirtyIsJournaled /\ CommitCarriesOneEvent /\ NoLostCommit
=============================================================================
