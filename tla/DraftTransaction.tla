--------------------------- MODULE DraftTransaction ---------------------------
(***************************************************************************)
(* The draft transaction (src/src/draft-unit-of-work.mjs): governed files  *)
(* are written under the subject lock and a journal with their preimage,   *)
(* but not committed. The write may hand its preimage to a nested          *)
(* publication, whose journal replaces the draft's at the one shared path  *)
(* and carries it as its parent. A failure is rolled back unless HEAD      *)
(* moved; a death leaves the journal to a later sync.                      *)
(*                                                                         *)
(* The bytes of the governed files are the set of transactions whose       *)
(* writes they contain. HEAD is the length of the branch's history; a      *)
(* commit is named by its author, for a draft publishes at most once.      *)
(***************************************************************************)
EXTENDS Naturals, Sequences

CONSTANTS
    Drafter,        \* commands that run one draft transaction each
    Syncer,         \* processes that synchronize, again and again
    Manual,         \* commits made outside the lock, by hand
    None,
    MayCrash        \* processes that may die

ASSUME DraftAssumption ==
    /\ None \notin Drafter \cup Syncer \cup Manual
    /\ Drafter \cap Syncer = {} /\ Drafter \cap Manual = {}
    /\ MayCrash \subseteq Drafter \cup Syncer

VARIABLES
    holder,     \* the process that holds the subject lock, or None
    log,        \* authors of the branch's commits since the base
    dirty,      \* transactions whose bytes are in the working tree only
    landed,     \* transactions whose bytes are in a commit
    remote,     \* authors whose commits the remote is known to have
    journal,    \* the journal at the shared path, innermost record first
    marker,     \* the author of the commit that a marker retains, or None
    late,       \* a marker was made of a journal that was gone (history)
    pc, seen, base, pre, returned, obs  \* per process, see Init

files == <<dirty, landed>>
records == <<journal, marker, late>>
regs == <<seen, base, pre, returned, obs>>
vars == <<holder, log, files, remote, records, pc, regs>>

Proc == Drafter \cup Syncer
Tx == Drafter \X {"draft", "nested"}
Draft(p) == <<p, "draft">>
Nested(p) == <<p, "nested">>
Ended == {"done", "failed", "refused", "dead"}

Tip == Len(log)
Content == dirty \cup landed
Top == journal[1]
OnBranch(author) == \E i \in DOMAIN log : log[i] = author

Nothing == [tx |-> <<None, "none">>]  \* no journal

Init ==
    /\ holder = None /\ log = <<>> /\ dirty = {} /\ landed = {} /\ remote = {}
    /\ journal = <<>> /\ marker = None /\ late = FALSE
    /\ pc = [p \in Proc |-> IF p \in Drafter THEN "load" ELSE "idle"]
    /\ seen = [p \in Drafter |-> <<0, {}>>]     \* the aggregate it has loaded
    /\ base = [p \in Drafter |-> 0]             \* expectedHead
    /\ pre = [p \in Drafter |-> {}]            \* recoveryPreimage
    /\ returned = [p \in Drafter |-> "nothing"] \* by its nested publication
    /\ obs = [s \in Syncer |-> Nothing]           \* the journal it has read

Go(p, label) == pc' = [pc EXCEPT ![p] = label]
End(p, label) == Go(p, label) /\ holder' = None

(***************************************************************************)
(* The journal.                                                            *)
(***************************************************************************)
Owner(r) == r.tx[1]
LeaseIsLive(r) == holder = Owner(r)

Fresh(tx, head, preimage) ==
    [tx |-> tx, stage |-> "prepared", head |-> head, commit |-> None, preimage |-> preimage]

BeginJournal(tx, head, preimage) == journal' = <<Fresh(tx, head, preimage)>> \o journal

IsTop(tx) == journal # <<>> /\ Top.tx = tx

\* updatePublicationJournal: nothing happens when the transaction is not on top.
SetStage(tx, stage) ==
    journal' = IF IsTop(tx) THEN [journal EXCEPT ![1].stage = stage] ELSE journal

\* clearPublicationJournal: the parent, if there is one, takes its place.
ClearJournal(tx) == journal' = IF IsTop(tx) THEN Tail(journal) ELSE journal
ClearAnyJournal == journal' = IF journal = <<>> THEN journal ELSE Tail(journal)

Interrupted(r) == ~OnBranch(r.commit) /\ Tip = r.head
Recoverable == {"prepared", "commit-created", "restoring", "rollback-failed"}
CanRecover(r) == Interrupted(r) /\ r.stage \in Recoverable

\* readPendingPublication finds something that is not the caller's own; the
\* conflict check of beginPublicationJournal repeats it for journals.
Pending(p) == marker # None \/ (journal # <<>> /\ Owner(Top) # p)

(***************************************************************************)
(* DraftUnitOfWork.execute.                                                *)
(***************************************************************************)
Load(p) ==
    /\ pc[p] = "load"
    /\ seen' = [seen EXCEPT ![p] = <<Tip, Content>>]
    /\ Go(p, "enter")
    /\ UNCHANGED <<holder, log, files, remote, records, base, pre, returned, obs>>

\* Mutant: only HEAD is compared, not the fingerprint of the state file.
EnterByHead(p) ==
    /\ pc[p] = "enter" /\ holder = None
    /\ IF seen[p][1] = Tip /\ ~Pending(p)
       THEN /\ holder' = p /\ base' = [base EXCEPT ![p] = Tip]
            /\ Go(p, "begin")
       ELSE Go(p, "refused") /\ UNCHANGED <<holder, base>>
    /\ UNCHANGED <<log, files, remote, records, seen, pre, returned, obs>>

\* Under the lock: a moved HEAD, a changed state file or a pending record refuse.
Enter(p) ==
    /\ pc[p] = "enter" /\ holder = None
    /\ IF seen[p] = <<Tip, Content>> /\ ~Pending(p)
       THEN /\ holder' = p /\ base' = [base EXCEPT ![p] = Tip]
            /\ Go(p, "begin")
       ELSE Go(p, "refused") /\ UNCHANGED <<holder, base>>
    /\ UNCHANGED <<log, files, remote, records, seen, pre, returned, obs>>

Begin(p) ==
    /\ pc[p] = "begin"
    /\ pre' = [pre EXCEPT ![p] = dirty]
    /\ BeginJournal(Draft(p), base[p], dirty)
    /\ Go(p, "write")
    /\ UNCHANGED <<holder, log, files, remote, marker, late, seen, base, returned, obs>>

\* The aggregate is saved from the copy that was loaded.
Write(p) ==
    /\ pc[p] = "write"
    /\ dirty' = (dirty \cap seen[p][2]) \cup {Draft(p)}
    /\ \/ Go(p, "nest") \/ Go(p, "validate") \/ Go(p, "catch")
    /\ UNCHANGED <<holder, log, landed, remote, records, regs>>

\* Accepted: the journal is removed, the files stay uncommitted.
Accept(p) ==
    /\ pc[p] = "validate"
    /\ ClearJournal(Draft(p))
    /\ End(p, "done")
    /\ UNCHANGED <<log, files, remote, marker, late, regs>>

Invalid(p) ==
    /\ pc[p] = "validate"
    /\ Go(p, "catch")
    /\ UNCHANGED <<holder, log, files, remote, records, regs>>

\* The exact nested commit is HEAD, and a marker or a receipt proves it.
Verified(p) == log # <<>> /\ log[Tip] = p /\ (marker = p \/ returned[p] = "receipt")

\* Mutant: whatever HEAD is, the draft is rolled back.
CatchAlwaysRestores(p) ==
    /\ pc[p] = "catch"
    /\ SetStage(Draft(p), "restoring") /\ Go(p, "restore") /\ UNCHANGED holder
    /\ UNCHANGED <<log, files, remote, marker, late, regs>>

Catch(p) ==
    /\ pc[p] = "catch"
    /\ \/ /\ Tip = base[p]
          /\ SetStage(Draft(p), "restoring") /\ Go(p, "restore") /\ UNCHANGED holder
       \/ /\ Tip # base[p] /\ Verified(p)
          /\ ClearJournal(Draft(p)) /\ End(p, "failed")
       \/ /\ Tip # base[p] /\ ~Verified(p)
          /\ SetStage(Draft(p), "draft-head-diverged") /\ End(p, "failed")
    /\ UNCHANGED <<log, files, remote, marker, late, regs>>

\* Bytes that some commit has taken meanwhile are back in the tree as well.
RestoreTo(preimage) == dirty' = preimage \ landed

\* Mutant: the journal is cleared although the restoration failed.
RestoreAndForget(p) ==
    /\ pc[p] = "restore"
    /\ \/ RestoreTo(pre[p]) /\ Go(p, "restored") /\ UNCHANGED <<holder, journal>>
       \/ ClearJournal(Draft(p)) /\ End(p, "failed") /\ UNCHANGED dirty
    /\ UNCHANGED <<log, landed, remote, marker, late, regs>>

Restore(p) ==
    /\ pc[p] = "restore"
    /\ \/ RestoreTo(pre[p]) /\ Go(p, "restored") /\ UNCHANGED <<holder, journal>>
       \/ /\ SetStage(Draft(p), "rollback-failed") /\ End(p, "failed")
          /\ UNCHANGED dirty
    /\ UNCHANGED <<log, landed, remote, marker, late, regs>>

Restored(p) ==
    /\ pc[p] = "restored"
    /\ ClearJournal(Draft(p)) /\ End(p, "failed")
    /\ UNCHANGED <<log, files, remote, marker, late, regs>>

(***************************************************************************)
(* The nested publication (commitAndPublish with recoveryPreimage).        *)
(***************************************************************************)

\* Its journal may only replace one of the same lease; its parent revision
\* and any marker refuse it before.
Nest(p) ==
    /\ pc[p] = "nest"
    /\ IF Tip = base[p] /\ ~Pending(p)
       THEN BeginJournal(Nested(p), base[p], pre[p]) /\ Go(p, "nested write")
       ELSE Go(p, "catch") /\ UNCHANGED journal
    /\ UNCHANGED <<holder, log, files, remote, marker, late, regs>>

NestedWrite(p) ==
    /\ pc[p] = "nested write"
    /\ dirty' = dirty \cup {Nested(p)}
    /\ \/ Go(p, "candidate") \/ Go(p, "unwind")
    /\ UNCHANGED <<holder, log, landed, remote, records, regs>>

\* Every draft's subject has a Candidate; no recovery knows this stage.
VerifyCandidate(p) ==
    /\ pc[p] = "candidate"
    /\ \/ SetStage(Nested(p), "candidate-verified") /\ Go(p, "commit")
       \/ Go(p, "unwind") /\ UNCHANGED journal
    /\ UNCHANGED <<holder, log, files, remote, marker, late, regs>>

\* commit-tree; the journal names the commit before the branch has it.
CommitTree(p) ==
    /\ pc[p] = "commit"
    /\ \/ /\ journal' = [journal EXCEPT ![1].commit = p, ![1].stage = "commit-created"]
          /\ Go(p, "advance")
       \/ Go(p, "unwind") /\ UNCHANGED journal
    /\ UNCHANGED <<holder, log, files, remote, marker, late, regs>>

\* It throws where no marker and no receipt tell of its commit.
Break(p) == Go(p, "catch") /\ returned' = [returned EXCEPT ![p] = "broken"]

Commits(p) == Tip = base[p] /\ log' = Append(log, p) /\ landed' = Content /\ dirty' = {}

\* The compare-and-swap of the branch, unless a check before it fails. (The
\* stages after it are left out: OnBranch tells readers what they would.)
Advance(p) ==
    /\ pc[p] = "advance"
    /\ \/ Commits(p) /\ Go(p, "push")
       \/ Go(p, "unwind") /\ UNCHANGED <<log, files>>
    /\ UNCHANGED <<holder, remote, records, regs>>

\* Mutant: an update that failed is taken for one that did not happen.
OutcomeTakenForRefusal(p) ==
    /\ pc[p] = "advance"
    /\ Commits(p) \/ UNCHANGED <<log, files>>
    /\ Go(p, "unwind")
    /\ UNCHANGED <<holder, remote, records, regs>>

\* PUBLICATION_REF_OUTCOME_UNKNOWN: applied or not, there is no rollback, and
\* the record with its commit stays over the draft's.
OutcomeUnknown(p) ==
    /\ pc[p] = "advance"
    /\ Commits(p) \/ UNCHANGED <<log, files>>
    /\ Break(p)
    /\ UNCHANGED <<holder, remote, records, seen, base, pre, obs>>

\* Mutant: the stage of a rollback is one that recovery does not know.
UnwindUnknownStage(p) ==
    /\ pc[p] = "unwind"
    /\ \/ RestoreTo(pre[p]) /\ SetStage(Nested(p), "unwinding")
          /\ Go(p, "unwound") /\ UNCHANGED returned
       \/ SetStage(Nested(p), "rollback-failed") /\ UNCHANGED dirty /\ Break(p)
    /\ UNCHANGED <<holder, log, landed, remote, marker, late, seen, base, pre, obs>>

\* unwind: back to the preimage of the draft, then the draft's journal again.
Unwind(p) ==
    /\ pc[p] = "unwind"
    /\ \/ RestoreTo(pre[p]) /\ SetStage(Nested(p), "restoring")
          /\ Go(p, "unwound") /\ UNCHANGED returned
       \/ /\ SetStage(Nested(p), "rollback-failed") \/ UNCHANGED journal
          /\ UNCHANGED dirty /\ Break(p)
    /\ UNCHANGED <<holder, log, landed, remote, marker, late, seen, base, pre, obs>>

Unwound(p) ==
    /\ pc[p] = "unwound"
    /\ ClearJournal(Nested(p)) /\ Go(p, "catch")
    /\ UNCHANGED <<holder, log, files, remote, marker, late, regs>>

Push(p) ==
    /\ pc[p] = "push"
    /\ \/ remote' = remote \cup {p} /\ Go(p, "pushed")
       \/ Go(p, "retain") /\ UNCHANGED remote
    /\ UNCHANGED <<holder, log, files, records, regs>>

\* Mutant: no marker is written for a commit whose push failed.
RetainNothing(p) ==
    /\ pc[p] = "retain"
    /\ Go(p, "retained")
    /\ UNCHANGED <<holder, log, files, remote, records, regs>>

Retain(p) ==
    /\ pc[p] = "retain"
    /\ marker' = p /\ Go(p, "retained")
    /\ UNCHANGED <<holder, log, files, remote, journal, late, regs>>

\* A write of the record, the marker or the outbox fails after the commit.
PublishFails(p) ==
    /\ pc[p] \in {"push", "retain", "retained", "pushed", "clean up"}
    /\ Break(p)
    /\ UNCHANGED <<holder, log, files, remote, records, seen, base, pre, obs>>

\* A push that is required throws, one that is not returns its receipt.
Retained(p) ==
    /\ pc[p] = "retained"
    /\ ClearJournal(Nested(p))
    /\ \/ Go(p, "catch") /\ UNCHANGED returned
       \/ Go(p, "validate") /\ returned' = [returned EXCEPT ![p] = "receipt"]
    /\ UNCHANGED <<holder, log, files, remote, marker, late, seen, base, pre, obs>>

Pushed(p) ==
    /\ pc[p] = "pushed"
    /\ ClearJournal(Nested(p)) /\ Go(p, "clean up")
    /\ UNCHANGED <<holder, log, files, remote, marker, late, regs>>

\* The wrapper's clearPendingPublication, which names no transaction: by now
\* the draft's own journal is at the path. A failure only warns.
CleanUp(p) ==
    /\ pc[p] = "clean up"
    /\ \/ marker' = None /\ ClearAnyJournal
       \/ UNCHANGED <<marker, journal>>
    /\ UNCHANGED late
    /\ returned' = [returned EXCEPT ![p] = "receipt"]
    /\ Go(p, "validate")
    /\ UNCHANGED <<holder, log, files, remote, seen, base, pre, obs>>

(***************************************************************************)
(* Synchronization by any other process.                                   *)
(***************************************************************************)
Idle(s) == Go(s, "idle") /\ obs' = [obs EXCEPT ![s] = Nothing]

\* readPendingPublication, outside the lock.
Read(s) ==
    /\ pc[s] = "idle"
    /\ \/ /\ marker # None
          /\ Go(s, "sync") /\ UNCHANGED obs
       \/ /\ marker = None /\ journal # <<>>
          /\ \/ CanRecover(Top) /\ ~LeaseIsLive(Top) /\ Go(s, "recover")
             \/ OnBranch(Top.commit) /\ Go(s, "promote")
             \/ Top.commit \in remote /\ Go(s, "drop")
          /\ obs' = [obs EXCEPT ![s] = Top]
    /\ UNCHANGED <<holder, log, files, remote, records, seen, base, pre, returned>>

\* The record becomes a marker, then it is cleared; a commit that is known to
\* be published is cleared at once, unless its branch was to be created.
Promote(s) ==
    /\ pc[s] = "promote"
    /\ marker' = obs[s].commit /\ Go(s, "drop")
    /\ late' = (late \/ ~IsTop(obs[s].tx))
    /\ UNCHANGED <<holder, log, files, remote, journal, regs>>

Drop(s) ==
    /\ pc[s] = "drop"
    /\ ClearJournal(obs[s].tx) /\ Idle(s)
    /\ UNCHANGED <<holder, log, files, remote, marker, late, seen, base, pre, returned>>

\* recoverPreparedPublication: the same journal, looked at under the lock.
Recover(s) ==
    /\ pc[s] = "recover" /\ holder = None
    /\ IF IsTop(obs[s].tx) /\ CanRecover(Top)
       THEN holder' = s /\ Go(s, "undo") /\ obs' = [obs EXCEPT ![s] = Top]
       ELSE Idle(s) /\ UNCHANGED holder
    /\ UNCHANGED <<log, files, remote, records, seen, base, pre, returned>>

Undo(s) ==
    /\ pc[s] = "undo"
    /\ \/ /\ RestoreTo(obs[s].preimage) /\ SetStage(obs[s].tx, "restoring")
          /\ Go(s, "undone") /\ UNCHANGED <<holder, obs>>
       \/ /\ SetStage(obs[s].tx, "rollback-failed") /\ UNCHANGED dirty
          /\ Idle(s) /\ holder' = None
    /\ UNCHANGED <<log, landed, remote, marker, late, seen, base, pre, returned>>

Undone(s) ==
    /\ pc[s] = "undone"
    /\ ClearJournal(obs[s].tx) /\ Idle(s) /\ holder' = None
    /\ UNCHANGED <<log, files, remote, marker, late, seen, base, pre, returned>>

\* The retained commit is pushed under the lock; its marker and then whatever
\* journal is at the path are cleared.
Sync(s) ==
    /\ pc[s] = "sync" /\ holder = None
    /\ \/ /\ marker # None
          /\ remote' = remote \cup {marker} /\ holder' = s /\ Go(s, "published")
          /\ UNCHANGED obs
       \/ Idle(s) /\ UNCHANGED <<remote, holder>>
    /\ UNCHANGED <<log, files, records, seen, base, pre, returned>>

Published(s) ==
    /\ pc[s] = "published"
    /\ marker' = None /\ Go(s, "cleared")
    /\ UNCHANGED <<holder, log, files, remote, journal, late, regs>>

Cleared(s) ==
    /\ pc[s] = "cleared"
    /\ ClearAnyJournal /\ Idle(s) /\ holder' = None
    /\ UNCHANGED <<log, files, remote, marker, late, seen, base, pre, returned>>

(***************************************************************************)
(* A commit by hand, of all the files or of none; deaths.                  *)
(***************************************************************************)
CommitByHand(m) ==
    /\ ~OnBranch(m)
    /\ log' = Append(log, m)
    /\ \/ landed' = Content /\ dirty' = {}
       \/ UNCHANGED files
    /\ UNCHANGED <<holder, remote, records, pc, regs>>

Crash(p) ==
    /\ p \in MayCrash /\ pc[p] \notin Ended
    /\ IF p \in Drafter
       THEN Go(p, "dead") /\ UNCHANGED obs
       ELSE Idle(p)
    /\ holder' = IF holder = p THEN None ELSE holder
    /\ UNCHANGED <<log, files, remote, records, seen, base, pre, returned>>

Step(p) ==
    \/ Load(p) \/ Enter(p) \/ Begin(p) \/ Write(p) \/ Accept(p) \/ Invalid(p)
    \/ Catch(p) \/ Restore(p) \/ Restored(p)
    \/ Nest(p) \/ NestedWrite(p) \/ VerifyCandidate(p) \/ CommitTree(p)
    \/ Advance(p) \/ OutcomeUnknown(p) \/ Unwind(p) \/ Unwound(p)
    \/ Push(p) \/ Retain(p) \/ Retained(p) \/ Pushed(p) \/ CleanUp(p) \/ PublishFails(p)

SyncStep(s) ==
    \/ Read(s) \/ Promote(s) \/ Drop(s) \/ Recover(s) \/ Undo(s) \/ Undone(s)
    \/ Sync(s) \/ Published(s) \/ Cleared(s)

Next ==
    \/ \E p \in Drafter : Step(p)
    \/ \E s \in Syncer : SyncStep(s)
    \/ \E p \in Proc : Crash(p)
    \/ \E m \in Manual : CommitByHand(m)

Spec == Init /\ [][Next]_vars

-----------------------------------------------------------------------------
DraftLabel == Ended \cup
    {"load", "enter", "begin", "write", "nest", "nested write", "candidate",
     "commit", "advance", "unwind", "unwound", "push", "pushed", "clean up", "retain", "retained",
     "validate", "catch", "restore", "restored"}
SyncLabel == {"idle", "promote", "drop", "recover", "undo", "undone", "sync",
              "published", "cleared"}
Stage == Recoverable \cup {"candidate-verified", "draft-head-diverged"}
Author == Drafter \cup Manual
Record == [tx : Tx, stage : Stage, head : Nat, commit : Drafter \cup {None},
           preimage : SUBSET Tx]

TypeOK ==
    /\ holder \in Proc \cup {None}
    /\ log \in Seq(Author)
    /\ dirty \subseteq Tx /\ landed \subseteq Tx /\ remote \subseteq Drafter
    /\ journal \in Seq(Record) /\ marker \in Drafter \cup {None} /\ late \in BOOLEAN
    /\ \A p \in Drafter : pc[p] \in DraftLabel
    /\ \A s \in Syncer : pc[s] \in SyncLabel
    /\ DOMAIN pc = Proc
    /\ seen \in [Drafter -> Nat \X SUBSET Tx] /\ base \in [Drafter -> Nat]
    /\ returned \in [Drafter -> {"nothing", "receipt", "broken"}]
    /\ pre \in [Drafter -> SUBSET Tx]
    /\ obs \in [Syncer -> Record \cup {Nothing}]

\* Uncommitted bytes of a transaction that was not accepted are explained by a
\* journal, at the path or beneath the one there, whose preimage is without them:
\* whatever dies or fails, the way back exists. (A sync that reads outside the
\* lock may write a marker for a journal that is gone by then, and the cleanup
\* of that marker takes whatever journal is there.)
UncommittedIsJournaled ==
    ~late => \A tx \in dirty : pc[tx[1]] # "done" =>
        \E i \in DOMAIN journal : Owner(journal[i]) = tx[1] /\ tx \notin journal[i].preimage

\* An accepted draft stays: no rollback, recovery or later save of another
\* command takes its bytes out of the files.
AcceptedStays == \A p \in Drafter : pc[p] = "done" => Draft(p) \in Content

\* "Once its exact governed commit is proven, rollback is forbidden": what a
\* nested publication has committed is retained until it is published (again
\* unless a late marker replaced it).
CommittedIsOwed ==
    ~late => \A p \in Drafter : OnBranch(p) =>
        \/ p \in remote \/ marker = p
        \/ \E i \in DOMAIN journal : journal[i].commit = p

\* "treating any movement as nested success erased the only draft preimage": no
\* rollback, the draft's, its nested publication's or a later sync's, restores a
\* preimage once the nested commit of that command is on the branch.
RollbackBelowNoCommit ==
    [][/\ \A p \in Drafter :
            \/ pc[p] = "restore" /\ pc'[p] = "restored"
            \/ pc[p] = "unwind" /\ pc'[p] = "unwound"
            => ~OnBranch(p)
       /\ \A s \in Syncer :
            pc[s] = "undo" /\ pc'[s] = "undone" => ~OnBranch(Owner(obs[s]))]_vars

\* A journal that no sync can recover or promote was left there by a command that
\* died or whose nested publication broke, with its commit on the branch or between
\* the Candidate and the commit, unless somebody moved the branch by hand: no order
\* of drafts, failures and syncs that came to their end leaves one.
StuckIsExplained ==
    LET p == Owner(Top) IN
    journal # <<>> /\ marker = None /\ ~LeaseIsLive(Top)
    /\ ~CanRecover(Top) /\ ~OnBranch(Top.commit) =>
        \/ late \/ \E m \in Manual : OnBranch(m)
        \/ /\ pc[p] = "dead" \/ returned[p] = "broken"
           /\ OnBranch(p) \/ Top.stage = "candidate-verified"
=============================================================================
