------------------------- MODULE PublicationProofs -------------------------
(***************************************************************************)
(* Type correctness and mutual exclusion of Publication, for any number of *)
(* processes, transactions and commits and for every kind of subject.      *)
(*                                                                         *)
(* TypeInv is TypeOK with the fact that registers and records name only    *)
(* transactions that have sealed a plan.  There is one lemma for each      *)
(* group of actions, one step in it for each action, and a *Step lemma     *)
(* that gathers the groups.                                                *)
(***************************************************************************)
EXTENDS PublicationInvariants, TLAPS

USE
   DEF Commit, Kinds, Outcomes, BeforeRef, AfterRef, Stages, Sources, Plans, Journals, Markers,
        Pushes, Owning, SyncLabels, Waiting, Labels, NamesTxn, SyncingLabels, Sealed,
        commits, net, refs, records, regs, vars

\* An update of the journal keeps its type and the transaction it is for.
LEMMA StageKeepsJournal ==
    ASSUME journal \in Journals \cup {None}, NEW t, NEW s \in Stages, SetStage(t, s)
    PROVE  /\ journal' \in Journals \cup {None}
           /\ journal # None => journal' # None /\ journal'.txn = journal.txn
           /\ journal = None => journal' = None
<1>1. CASE HasJournal(t)
  <2>1. journal \in Journals /\ journal' = [journal EXCEPT !.stage = s]
    BY <1>1, NoneAssumption DEF SetStage, HasJournal
  <2> QED BY <2>1, NoneAssumption
<1>2. CASE ~HasJournal(t)
    BY <1>2 DEF SetStage
<1> QED BY <1>1, <1>2

\* The initial state has its types.
LEMMA TypeInit == Init => TypeInv
BY ConstantsAssumption DEF Init, TypeInv, TypeOK, SealedInv

\* The steps of the unit of work up to its commit (publication-unit-of-work.mjs:132-507).
LEMMA TypeExecute ==
    ASSUME TypeInv, NEW p \in Proc, Execute(p) PROVE TypeInv'
<1>1. CASE Lock(p)
    BY <1>1, ConstantsAssumption DEF TypeInv, TypeOK, SealedInv, Lock, Goto
<1>2. CASE Begin(p)
  <2> DEFINE t == txn[p]
  <2>1. Sealed(t) /\ plan[t] \in Plans
    BY <1>2 DEF TypeInv, TypeOK, SealedInv, Begin
  <2>2. [plan[t] EXCEPT !.before = dirty] \in Plans
    BY <2>1 DEF TypeInv, TypeOK
  <2>3. plan' = [plan EXCEPT ![t] = [plan[t] EXCEPT !.before = dirty]]
    BY <1>2 DEF Begin
  <2>4. plan' \in [Txn -> Plans \cup {None}] /\ \A u : Sealed(u) => Sealed(u)'
    BY <2>1, <2>2, <2>3, NoneAssumption DEF TypeInv, TypeOK
  <2>5. journal' \in Journals /\ journal'.txn = t
    BY <1>2, <2>1 DEF Begin
  <2> QED BY <1>2, <2>1, <2>4, <2>5, ConstantsAssumption
     DEF TypeInv, TypeOK, SealedInv, Begin, Goto
<1>3. CASE Refuse(p)
    BY <1>3, ConstantsAssumption
       DEF TypeInv, TypeOK, SealedInv, Refuse, Release, Goto, ResetRegisters
<1>4. CASE WriteState(p)
    BY <1>4, ConstantsAssumption DEF TypeInv, TypeOK, SealedInv, WriteState, Goto
<1>5. CASE VerifyCandidate(p)
  <2>1. SetStage(txn[p], "candidate-verified") BY <1>5 DEF VerifyCandidate
  <2>2. /\ journal' \in Journals \cup {None}
        /\ journal # None => journal' # None /\ journal'.txn = journal.txn
        /\ journal = None => journal' = None
    BY <2>1, StageKeepsJournal DEF TypeInv, TypeOK
  <2> QED  BY <1>5, <2>2, ConstantsAssumption
     DEF TypeInv, TypeOK, SealedInv, VerifyCandidate, Goto
<1>6. CASE CreateCommit(p)
  <2> DEFINE t == txn[p]
  <2>1. Sealed(t) /\ plan[t].base \in Commit
    BY <1>6 DEF TypeInv, TypeOK, SealedInv, CreateCommit
  <2>2. history' \in [Commit -> SUBSET Commit] /\ content' \in [Txn -> SUBSET Txn]
    BY <1>6, <2>1 DEF TypeInv, TypeOK, CreateCommit
  <2>3. journal' \in Journals \cup {None} /\ (journal' # None => journal # None /\ journal'.txn = journal.txn)
    BY <1>6, ConstantsAssumption DEF TypeInv, TypeOK, CreateCommit, HasJournal
  <2> QED BY <1>6, <2>2, <2>3, ConstantsAssumption
     DEF TypeInv, TypeOK, SealedInv, CreateCommit, Goto
<1>7. CASE AdvanceRef(p)
    BY <1>7, ConstantsAssumption DEF TypeInv, TypeOK, SealedInv, AdvanceRef, Goto
<1>8. CASE RefOutcomeUnknown(p)
    BY <1>8, ConstantsAssumption
       DEF TypeInv, TypeOK, SealedInv, RefOutcomeUnknown, Release, Goto, ResetRegisters
<1>9. CASE RecordAdvanced(p)
  <2>1. SetStage(txn[p], "ref-advanced") BY <1>9 DEF RecordAdvanced
  <2>2. /\ journal' \in Journals \cup {None}
        /\ journal # None => journal' # None /\ journal'.txn = journal.txn
        /\ journal = None => journal' = None
    BY <2>1, StageKeepsJournal DEF TypeInv, TypeOK
  <2> QED  BY <1>9, <2>2, ConstantsAssumption
     DEF TypeInv, TypeOK, SealedInv, RecordAdvanced, Goto
<1> QED BY <1>1, <1>2, <1>3, <1>4, <1>5, <1>6, <1>7, <1>8, <1>9 DEF Execute

\* The unwinding of a failure before the commit (publication-unit-of-work.mjs:263-309).
LEMMA TypeUnwind ==
    ASSUME TypeInv, NEW p \in Proc, Unwind(p) PROVE TypeInv'
<1>2. CASE FailBeforeCommit(p)
  <2>1. SetStage(txn[p], "restoring") BY <1>2 DEF FailBeforeCommit
  <2>2. /\ journal' \in Journals \cup {None}
        /\ journal # None => journal' # None /\ journal'.txn = journal.txn
        /\ journal = None => journal' = None
    BY <2>1, StageKeepsJournal DEF TypeInv, TypeOK
  <2> QED  BY <1>2, <2>2, ConstantsAssumption
     DEF TypeInv, TypeOK, SealedInv, FailBeforeCommit, Goto
<1>3. CASE Restore(p, "unwinding", "unwound")
    BY <1>3, ConstantsAssumption DEF TypeInv, TypeOK, SealedInv, Restore, Goto
<1>4. CASE RestoreFails(p, "unwinding")
  <2>1. SetStage(txn[p], "rollback-failed") BY <1>4 DEF RestoreFails
  <2>2. /\ journal' \in Journals \cup {None}
        /\ journal # None => journal' # None /\ journal'.txn = journal.txn
        /\ journal = None => journal' = None
    BY <2>1, StageKeepsJournal DEF TypeInv, TypeOK
  <2> QED  BY <1>4, <2>2, ConstantsAssumption
     DEF TypeInv, TypeOK, SealedInv, RestoreFails, Release, Goto, ResetRegisters
<1>5. CASE ClearRestored(p, "unwound")
    BY <1>5, ConstantsAssumption
       DEF TypeInv, TypeOK, SealedInv, ClearRestored, ClearJournal, HasJournal, Release, Goto, ResetRegisters
<1> QED BY <1>2, <1>3, <1>4, <1>5 DEF Unwind

\* The steps after the commit (publication-unit-of-work.mjs:508-793).
LEMMA TypePublish ==
    ASSUME TypeInv, NEW p \in Proc, Publish(p) PROVE TypeInv'
<1>1. CASE FailAfterRef(p)
    BY <1>1, ConstantsAssumption DEF TypeInv, TypeOK, SealedInv, FailAfterRef, Goto, Mode
<1>2. CASE MarkCommitted(p)
  <2>1. SetStage(txn[p], "committed") BY <1>2 DEF MarkCommitted
  <2>2. /\ journal' \in Journals \cup {None}
        /\ journal # None => journal' # None /\ journal'.txn = journal.txn
        /\ journal = None => journal' = None
    BY <2>1, StageKeepsJournal DEF TypeInv, TypeOK
  <2> QED  BY <1>2, <2>2, ConstantsAssumption
     DEF TypeInv, TypeOK, SealedInv, MarkCommitted, Goto, Mode
<1>3. CASE StartPush(p)
  <2>1. CASE HasJournal(txn[p])
    <3>1. journal \in Journals /\ journal' = [journal EXCEPT !.stage = "publishing", !.outcome = "transport-indeterminate"]
      BY <1>3, <2>1, NoneAssumption DEF StartPush, HasJournal, TypeInv, TypeOK
    <3>2. journal' \in Journals /\ journal'.txn = journal.txn
      BY <3>1 DEF TypeInv, TypeOK
    <3> QED BY <1>3, <2>1, <3>2, ConstantsAssumption, NoneAssumption
       DEF TypeInv, TypeOK, SealedInv, StartPush, HasJournal, Goto
  <2>2. CASE ~HasJournal(txn[p])
    BY <1>3, <2>2, ConstantsAssumption DEF TypeInv, TypeOK, SealedInv, StartPush, Goto
  <2> QED BY <2>1, <2>2
<1>4. CASE PushLands(p)
    BY <1>4, ConstantsAssumption
       DEF TypeInv, TypeOK, SealedInv, PushLands, Lands, Accepts, Goto
<1>5. CASE PushVanishes(p)
    BY <1>5, ConstantsAssumption
       DEF TypeInv, TypeOK, SealedInv, PushVanishes, Vanishes, Accepts, Goto
<1>6. CASE PushRejected(p)
    BY <1>6, ConstantsAssumption DEF TypeInv, TypeOK, SealedInv, PushRejected, Goto
<1>7. CASE NoteFailure(p)
  <2>1. CASE HasJournal(txn[p])
    <3>1. journal \in Journals /\ journal' = [journal EXCEPT !.outcome = outcome[p],
              !.stage = IF outcome[p] = "rejected" THEN "push-rejected" ELSE "push-indeterminate"]
      BY <1>7, <2>1, NoneAssumption DEF NoteFailure, HasJournal, TypeInv, TypeOK
    <3>2. journal' \in Journals /\ journal'.txn = journal.txn
      BY <3>1 DEF TypeInv, TypeOK
    <3> QED BY <1>7, <2>1, <3>2, ConstantsAssumption, NoneAssumption
       DEF TypeInv, TypeOK, SealedInv, NoteFailure, HasJournal, Goto
  <2>2. CASE ~HasJournal(txn[p])
    BY <1>7, <2>2, ConstantsAssumption DEF TypeInv, TypeOK, SealedInv, NoteFailure, Goto
  <2> QED BY <2>1, <2>2
<1>8. CASE Retain(p)
    BY <1>8, ConstantsAssumption DEF TypeInv, TypeOK, SealedInv, Retain, Marker, Goto
<1>9. CASE ClearRetained(p)
    BY <1>9, ConstantsAssumption
       DEF TypeInv, TypeOK, SealedInv, ClearRetained, ClearJournal, HasJournal, Release, Goto, ResetRegisters
<1>10. CASE MarkPushed(p)
  <2>1. SetStage(txn[p], "pushed") BY <1>10 DEF MarkPushed
  <2>2. /\ journal' \in Journals \cup {None}
        /\ journal # None => journal' # None /\ journal'.txn = journal.txn
        /\ journal = None => journal' = None
    BY <2>1, StageKeepsJournal DEF TypeInv, TypeOK
  <2> QED  BY <1>10, <2>2, ConstantsAssumption
     DEF TypeInv, TypeOK, SealedInv, MarkPushed, Goto
<1>11. CASE Finish(p)
    BY <1>11, ConstantsAssumption
       DEF TypeInv, TypeOK, SealedInv, Finish, ClearJournal, HasJournal, Goto, ResetRegisters, UnlockedCleanup, Mode
<1>12. CASE ClearMarker(p, "cleanMarker", "cleanJournal")
    BY <1>12, ConstantsAssumption DEF TypeInv, TypeOK, SealedInv, ClearMarker, Goto
<1>13. CASE CleanupJournal(p)
    BY <1>13, ConstantsAssumption DEF TypeInv, TypeOK, SealedInv, CleanupJournal, Goto
<1> QED BY <1>1, <1>2, <1>3, <1>4, <1>5, <1>6, <1>7, <1>8, <1>9, <1>10, <1>11, <1>12, <1>13
   DEF Publish

\* A reader that promotes a post-commit journal (publication-pending.mjs:689-742).
LEMMA TypePromote ==
    ASSUME TypeInv, NEW p \in Proc, Promote(p) PROVE TypeInv'
<1>1. CASE DropJournal(p)
    BY <1>1, ConstantsAssumption DEF TypeInv, TypeOK, SealedInv, DropJournal
<1>2. CASE StartPromotion(p)
    BY <1>2, ConstantsAssumption
       DEF TypeInv, TypeOK, SealedInv, StartPromotion, MayPromote, PostCommitJournal, Goto
<1>3. CASE PromoteMarker(p)
    BY <1>3, ConstantsAssumption DEF TypeInv, TypeOK, SealedInv, PromoteMarker, Marker, Goto
<1>4. CASE PromoteClear(p)
    BY <1>4, ConstantsAssumption
       DEF TypeInv, TypeOK, SealedInv, PromoteClear, ClearJournal, HasJournal, Goto
<1> QED BY <1>1, <1>2, <1>3, <1>4 DEF Promote

\* The recovery of a dead pre-commit transaction (publication-pending.mjs:1056-1101).
LEMMA TypeRecover ==
    ASSUME TypeInv, NEW p \in Proc, Recover(p) PROVE TypeInv'
<1>1. CASE RecoverLock(p)
  <2>1. SetStage(txn[p], "restoring") BY <1>1 DEF RecoverLock
  <2>2. /\ journal' \in Journals \cup {None}
        /\ journal # None => journal' # None /\ journal'.txn = journal.txn
        /\ journal = None => journal' = None
    BY <2>1, StageKeepsJournal DEF TypeInv, TypeOK
  <2> QED  BY <1>1, <2>2, ConstantsAssumption
     DEF TypeInv, TypeOK, SealedInv, RecoverLock, Goto
<1>2. CASE RecoverLeave(p)
    BY <1>2, ConstantsAssumption
       DEF TypeInv, TypeOK, SealedInv, RecoverLeave, Goto, ResetRegisters
<1>3. CASE Restore(p, "restoring", "restored")
    BY <1>3, ConstantsAssumption DEF TypeInv, TypeOK, SealedInv, Restore, Goto
<1>4. CASE RestoreFails(p, "restoring")
  <2>1. SetStage(txn[p], "rollback-failed") BY <1>4 DEF RestoreFails
  <2>2. /\ journal' \in Journals \cup {None}
        /\ journal # None => journal' # None /\ journal'.txn = journal.txn
        /\ journal = None => journal' = None
    BY <2>1, StageKeepsJournal DEF TypeInv, TypeOK
  <2> QED  BY <1>4, <2>2, ConstantsAssumption
     DEF TypeInv, TypeOK, SealedInv, RestoreFails, Release, Goto, ResetRegisters
<1>5. CASE ClearRestored(p, "restored")
    BY <1>5, ConstantsAssumption
       DEF TypeInv, TypeOK, SealedInv, ClearRestored, ClearJournal, HasJournal, Release, Goto, ResetRegisters
<1> QED BY <1>1, <1>2, <1>3, <1>4, <1>5 DEF Recover

\* The sync of a retained commit (publication-pending.mjs:849-995).
LEMMA TypeSync ==
    ASSUME TypeInv, NEW p \in Proc, Sync(p) PROVE TypeInv'
<1>1. CASE SyncLeaves(p)
    BY <1>1, ConstantsAssumption
       DEF TypeInv, TypeOK, SealedInv, SyncLeaves, Release, Goto, ResetRegisters
<1>2. CASE SyncPrepare(p)
    BY <1>2, ConstantsAssumption DEF TypeInv, TypeOK, SealedInv, SyncPrepare, Goto
<1>3. CASE SyncLands(p)
    BY <1>3, ConstantsAssumption
       DEF TypeInv, TypeOK, SealedInv, SyncLands, Landed, Lands, Accepts, Goto
<1>4. CASE SyncVanishes(p)
    BY <1>4, ConstantsAssumption
       DEF TypeInv, TypeOK, SealedInv, SyncVanishes, Vanishes, Accepts, Goto
<1>5. CASE SyncRejected(p)
    BY <1>5, ConstantsAssumption DEF TypeInv, TypeOK, SealedInv, SyncRejected, Goto
<1>6. CASE SyncRefused(p)
    BY <1>6, ConstantsAssumption
       DEF TypeInv, TypeOK, SealedInv, SyncRefused, Marker, Release, Goto, ResetRegisters
<1>7. CASE ProbeFinds(p)
    BY <1>7, ConstantsAssumption DEF TypeInv, TypeOK, SealedInv, ProbeFinds, Landed, Goto
<1>8. CASE ProbeMisses(p)
    BY <1>8, ConstantsAssumption
       DEF TypeInv, TypeOK, SealedInv, ProbeMisses, Marker, Release, Goto, ResetRegisters
<1>9. CASE SyncReceiptWritten(p)
    BY <1>9, ConstantsAssumption DEF TypeInv, TypeOK, SealedInv, SyncReceiptWritten, Goto
<1>10. CASE SyncAlreadyPublished(p)
    BY <1>10, ConstantsAssumption DEF TypeInv, TypeOK, SealedInv, SyncAlreadyPublished, Goto
<1>11. CASE ClearMarker(p, "settling", "settled")
    BY <1>11, ConstantsAssumption DEF TypeInv, TypeOK, SealedInv, ClearMarker, Goto
<1>12. CASE SettleJournal(p)
    BY <1>12, ConstantsAssumption
       DEF TypeInv, TypeOK, SealedInv, SettleJournal, Release, Goto, ResetRegisters
<1> QED BY <1>1, <1>2, <1>3, <1>4, <1>5, <1>6, <1>7, <1>8, <1>9, <1>10, <1>11, <1>12
   DEF Sync

\* A new plan has its type and unseals no other.
LEMMA PlanSeals ==
    ASSUME TypeInv, NEW p \in Proc, NEW t \in Txn, Plan(p, t)
    PROVE  /\ plan' \in [Txn -> Plans \cup {None}]
           /\ plan'[t] \in Plans /\ plan'[t].base = local
           /\ \A u \in Txn \ {t} : plan'[u] = plan[u]
<1> HIDE DEF Commit, Sources, Plans
<1>1. PICK m \in Modes, l \in Commit \cup {None}, s \in Sources :
        plan' = [plan EXCEPT ![t] = [base |-> local, lease |-> l, source |-> s,
                                     mode |-> m, before |-> {}]]
  BY DEF Plan
<1>2. [base |-> local, lease |-> l, source |-> s, mode |-> m, before |-> {}] \in Plans
  <2>1. local \in Commit
    BY DEF TypeInv, TypeOK
  <2>2. m \in {"required", "off"} /\ {} \in SUBSET Txn
    BY ConstantsAssumption
  <2> QED BY <2>1, <2>2 DEF Plans
<1> DEFINE sealed == [base |-> local, lease |-> l, source |-> s, mode |-> m, before |-> {}]
<1>3. plan' = [plan EXCEPT ![t] = sealed] /\ sealed \in Plans /\ sealed.base = local
  BY <1>1, <1>2
<1>4. plan \in [Txn -> Plans \cup {None}]
  BY DEF TypeInv, TypeOK
<1> HIDE DEF sealed
<1> QED BY <1>3, <1>4

\* The steps that start a command.
LEMMA TypeStart ==
    ASSUME TypeInv, NEW p \in Proc, Start(p) PROVE TypeInv'
<1>1. CASE \E t \in Txn : Plan(p, t)
  <2>1. PICK t \in Txn : Plan(p, t) BY <1>1
  <2>2. \A u : Sealed(u) => Sealed(u)'
    BY <2>1, PlanSeals, NoneAssumption DEF TypeInv, TypeOK
  <2>3. Sealed(t)'
    BY <2>1, PlanSeals, NoneAssumption
  <2> QED BY <2>1, <2>2, <2>3, PlanSeals, ConstantsAssumption DEF TypeInv, TypeOK, SealedInv, Plan, Goto
<1>2. CASE StartRecover(p)
    BY <1>2, ConstantsAssumption, NoneAssumption
       DEF TypeInv, TypeOK, SealedInv, StartRecover, Goto
<1>3. CASE StartSync(p)
    BY <1>3, ConstantsAssumption DEF TypeInv, TypeOK, SealedInv, StartSync, Goto
<1> QED BY <1>1, <1>2, <1>3 DEF Start

\* A death and a restart.
LEMMA TypeCrashRestart ==
    ASSUME TypeInv, NEW p \in Proc, Crash(p) \/ Restart(p) PROVE TypeInv'
<1>1. CASE Crash(p)
    BY <1>1, ConstantsAssumption DEF TypeInv, TypeOK, SealedInv, Crash, Goto, ResetRegisters
<1>2. CASE Restart(p)
    BY <1>2 DEF TypeInv, TypeOK, SealedInv, Restart, Goto
<1> QED BY <1>1, <1>2

\* Other clones, people, the network.
LEMMA TypeEnvironment ==
    ASSUME TypeInv, Environment PROVE TypeInv'
<1>1. ASSUME NEW f \in Foreign, LocalCommit(f) PROVE TypeInv'
    BY <1>1 DEF TypeInv, TypeOK, SealedInv, LocalCommit, NewCommit
<1>2. ASSUME NEW f \in Foreign, OtherPush(f) PROVE TypeInv'
    BY <1>2 DEF TypeInv, TypeOK, SealedInv, OtherPush, NewCommit
<1>3. CASE Fetch
    BY <1>3 DEF TypeInv, TypeOK, SealedInv, Fetch
<1>4. CASE FastForward
    BY <1>4 DEF TypeInv, TypeOK, SealedInv, FastForward
<1>5. ASSUME NEW push \in late, LateArrives(push) PROVE TypeInv'
    BY <1>5 DEF TypeInv, TypeOK, SealedInv, LateArrives, Accepts
<1> QED BY <1>1, <1>2, <1>3, <1>4, <1>5 DEF Environment

\* Every step keeps the types and the names.
LEMMA TypeStep == TypeInv /\ [Next]_vars => TypeInv'
<1> SUFFICES ASSUME TypeInv, [Next]_vars PROVE TypeInv'
    OBVIOUS
<1>1. CASE UNCHANGED vars
    BY <1>1 DEF TypeInv, TypeOK, SealedInv
<1>2. CASE Environment
    BY <1>2, TypeEnvironment
<1>3. ASSUME NEW p \in Proc, Start(p) \/ Proceed(p) \/ Crash(p) PROVE TypeInv'
    BY <1>3, TypeStart, TypeExecute, TypeUnwind, TypePublish, TypePromote, TypeRecover,
       TypeSync, TypeCrashRestart DEF Proceed
<1> QED BY <1>1, <1>2, <1>3 DEF Next

\* The records, the registers and the refs always have their types, and name
\* transactions that sealed a plan (publication-journal.mjs:86-157).
THEOREM TypeCorrect == Spec => []TypeOK
<1>1. TypeInv => TypeOK
    BY DEF TypeInv
<1> QED BY <1>1, TypeInit, TypeStep, PTL DEF Spec

-----------------------------------------------------------------------------
(* The subject lock has one holder, whatever it does under it.              *)

\* Nobody holds the lock at first.
LEMMA HolderInit == Init => OneHolder
BY ConstantsAssumption DEF Init, OneHolder, Holding

\* Only the holder runs the unit of work, up to its commit.
LEMMA HolderExecute ==
    ASSUME TypeInv, OneHolder, NEW p \in Proc, Execute(p) PROVE OneHolder'
<1>1. CASE Lock(p)
    BY <1>1, ConstantsAssumption DEF TypeInv, TypeOK, OneHolder, Holding, Lock, Goto
<1>2. CASE Begin(p)
    BY <1>2, ConstantsAssumption DEF TypeInv, TypeOK, OneHolder, Holding, Begin, Goto
<1>3. CASE Refuse(p)
    BY <1>3, ConstantsAssumption
       DEF TypeInv, TypeOK, OneHolder, Holding, Refuse, Release, Goto, ResetRegisters
<1>4. CASE WriteState(p)
    BY <1>4, ConstantsAssumption DEF TypeInv, TypeOK, OneHolder, Holding, WriteState, Goto
<1>5. CASE VerifyCandidate(p)
    BY <1>5, ConstantsAssumption
       DEF TypeInv, TypeOK, OneHolder, Holding, VerifyCandidate, Goto
<1>6. CASE CreateCommit(p)
    BY <1>6, ConstantsAssumption DEF TypeInv, TypeOK, OneHolder, Holding, CreateCommit, Goto
<1>7. CASE AdvanceRef(p)
    BY <1>7, ConstantsAssumption DEF TypeInv, TypeOK, OneHolder, Holding, AdvanceRef, Goto
<1>8. CASE RefOutcomeUnknown(p)
    BY <1>8, ConstantsAssumption
       DEF TypeInv, TypeOK, OneHolder, Holding, RefOutcomeUnknown, Release, Goto, ResetRegisters
<1>9. CASE RecordAdvanced(p)
    BY <1>9, ConstantsAssumption
       DEF TypeInv, TypeOK, OneHolder, Holding, RecordAdvanced, Goto
<1> QED BY <1>1, <1>2, <1>3, <1>4, <1>5, <1>6, <1>7, <1>8, <1>9 DEF Execute

\* The unwinding keeps the lock or gives it back.
LEMMA HolderUnwind ==
    ASSUME TypeInv, OneHolder, NEW p \in Proc, Unwind(p) PROVE OneHolder'
<1>2. CASE FailBeforeCommit(p)
    BY <1>2, ConstantsAssumption
       DEF TypeInv, TypeOK, OneHolder, Holding, FailBeforeCommit, Goto
<1>3. CASE Restore(p, "unwinding", "unwound")
    BY <1>3, ConstantsAssumption DEF TypeInv, TypeOK, OneHolder, Holding, Restore, Goto
<1>4. CASE RestoreFails(p, "unwinding")
    BY <1>4, ConstantsAssumption
       DEF TypeInv, TypeOK, OneHolder, Holding, RestoreFails, Release, Goto, ResetRegisters
<1>5. CASE ClearRestored(p, "unwound")
    BY <1>5, ConstantsAssumption
       DEF TypeInv, TypeOK, OneHolder, Holding, ClearRestored, Release, Goto, ResetRegisters
<1> QED BY <1>2, <1>3, <1>4, <1>5 DEF Unwind

\* The publication keeps the lock until it is done.
LEMMA HolderPublish ==
    ASSUME TypeInv, OneHolder, NEW p \in Proc, Publish(p) PROVE OneHolder'
<1>1. CASE FailAfterRef(p)
    BY <1>1, ConstantsAssumption
       DEF TypeInv, TypeOK, OneHolder, Holding, FailAfterRef, Goto, Mode
<1>2. CASE MarkCommitted(p)
    BY <1>2, ConstantsAssumption
       DEF TypeInv, TypeOK, OneHolder, Holding, MarkCommitted, Goto, Mode
<1>3. CASE StartPush(p)
    BY <1>3, ConstantsAssumption DEF TypeInv, TypeOK, OneHolder, Holding, StartPush, Goto
<1>4. CASE PushLands(p)
    BY <1>4, ConstantsAssumption DEF TypeInv, TypeOK, OneHolder, Holding, PushLands, Goto
<1>5. CASE PushVanishes(p)
    BY <1>5, ConstantsAssumption DEF TypeInv, TypeOK, OneHolder, Holding, PushVanishes, Goto
<1>6. CASE PushRejected(p)
    BY <1>6, ConstantsAssumption DEF TypeInv, TypeOK, OneHolder, Holding, PushRejected, Goto
<1>7. CASE NoteFailure(p)
    BY <1>7, ConstantsAssumption DEF TypeInv, TypeOK, OneHolder, Holding, NoteFailure, Goto
<1>8. CASE Retain(p)
    BY <1>8, ConstantsAssumption DEF TypeInv, TypeOK, OneHolder, Holding, Retain, Goto
<1>9. CASE ClearRetained(p)
    BY <1>9, ConstantsAssumption
       DEF TypeInv, TypeOK, OneHolder, Holding, ClearRetained, Release, Goto, ResetRegisters
<1>10. CASE MarkPushed(p)
    BY <1>10, ConstantsAssumption DEF TypeInv, TypeOK, OneHolder, Holding, MarkPushed, Goto
<1>11. CASE Finish(p)
    BY <1>11, ConstantsAssumption
       DEF TypeInv, TypeOK, OneHolder, Holding, Finish, Goto, ResetRegisters, UnlockedCleanup, Mode
<1>12. CASE ClearMarker(p, "cleanMarker", "cleanJournal")
    BY <1>12, ConstantsAssumption DEF TypeInv, TypeOK, OneHolder, Holding, ClearMarker, Goto
<1>13. CASE CleanupJournal(p)
    BY <1>13, ConstantsAssumption
       DEF TypeInv, TypeOK, OneHolder, Holding, CleanupJournal, Goto
<1> QED BY <1>1, <1>2, <1>3, <1>4, <1>5, <1>6, <1>7, <1>8, <1>9, <1>10, <1>11, <1>12, <1>13
   DEF Publish

\* A promotion goes back to where the reader was, with or without the lock.
LEMMA HolderPromote ==
    ASSUME TypeInv, OneHolder, NEW p \in Proc, Promote(p) PROVE OneHolder'
<1>1. CASE DropJournal(p)
    BY <1>1, ConstantsAssumption DEF TypeInv, TypeOK, OneHolder, Holding, DropJournal
<1>2. CASE StartPromotion(p)
    BY <1>2, ConstantsAssumption
       DEF TypeInv, TypeOK, OneHolder, Holding, StartPromotion, MayPromote, PostCommitJournal, Goto
<1>3. CASE PromoteMarker(p)
    BY <1>3, ConstantsAssumption
       DEF TypeInv, TypeOK, OneHolder, Holding, PromoteMarker, Goto
<1>4. CASE PromoteClear(p)
    BY <1>4, ConstantsAssumption DEF TypeInv, TypeOK, OneHolder, Holding, PromoteClear, Goto
<1> QED BY <1>1, <1>2, <1>3, <1>4 DEF Promote

\* Recovery takes the lock before its second look and gives it back.
LEMMA HolderRecover ==
    ASSUME TypeInv, OneHolder, NEW p \in Proc, Recover(p) PROVE OneHolder'
<1>1. CASE RecoverLock(p)
    BY <1>1, ConstantsAssumption DEF TypeInv, TypeOK, OneHolder, Holding, RecoverLock, Goto
<1>2. CASE RecoverLeave(p)
    BY <1>2, ConstantsAssumption
       DEF TypeInv, TypeOK, OneHolder, Holding, RecoverLeave, Goto, ResetRegisters
<1>3. CASE Restore(p, "restoring", "restored")
    BY <1>3, ConstantsAssumption DEF TypeInv, TypeOK, OneHolder, Holding, Restore, Goto
<1>4. CASE RestoreFails(p, "restoring")
    BY <1>4, ConstantsAssumption
       DEF TypeInv, TypeOK, OneHolder, Holding, RestoreFails, Release, Goto, ResetRegisters
<1>5. CASE ClearRestored(p, "restored")
    BY <1>5, ConstantsAssumption
       DEF TypeInv, TypeOK, OneHolder, Holding, ClearRestored, Release, Goto, ResetRegisters
<1> QED BY <1>1, <1>2, <1>3, <1>4, <1>5 DEF Recover

\* The sync keeps the lock until it leaves.
LEMMA HolderSync ==
    ASSUME TypeInv, OneHolder, NEW p \in Proc, Sync(p) PROVE OneHolder'
<1>1. CASE SyncLeaves(p)
    BY <1>1, ConstantsAssumption
       DEF TypeInv, TypeOK, OneHolder, Holding, SyncLeaves, Release, Goto, ResetRegisters
<1>2. CASE SyncPrepare(p)
    BY <1>2, ConstantsAssumption DEF TypeInv, TypeOK, OneHolder, Holding, SyncPrepare, Goto
<1>3. CASE SyncLands(p)
    BY <1>3, ConstantsAssumption
       DEF TypeInv, TypeOK, OneHolder, Holding, SyncLands, Landed, Goto
<1>4. CASE SyncVanishes(p)
    BY <1>4, ConstantsAssumption DEF TypeInv, TypeOK, OneHolder, Holding, SyncVanishes, Goto
<1>5. CASE SyncRejected(p)
    BY <1>5, ConstantsAssumption DEF TypeInv, TypeOK, OneHolder, Holding, SyncRejected, Goto
<1>6. CASE SyncRefused(p)
    BY <1>6, ConstantsAssumption
       DEF TypeInv, TypeOK, OneHolder, Holding, SyncRefused, Release, Goto, ResetRegisters
<1>7. CASE ProbeFinds(p)
    BY <1>7, ConstantsAssumption
       DEF TypeInv, TypeOK, OneHolder, Holding, ProbeFinds, Landed, Goto
<1>8. CASE ProbeMisses(p)
    BY <1>8, ConstantsAssumption
       DEF TypeInv, TypeOK, OneHolder, Holding, ProbeMisses, Release, Goto, ResetRegisters
<1>9. CASE SyncReceiptWritten(p)
    BY <1>9, ConstantsAssumption
       DEF TypeInv, TypeOK, OneHolder, Holding, SyncReceiptWritten, Goto
<1>10. CASE SyncAlreadyPublished(p)
    BY <1>10, ConstantsAssumption
       DEF TypeInv, TypeOK, OneHolder, Holding, SyncAlreadyPublished, Goto
<1>11. CASE ClearMarker(p, "settling", "settled")
    BY <1>11, ConstantsAssumption DEF TypeInv, TypeOK, OneHolder, Holding, ClearMarker, Goto
<1>12. CASE SettleJournal(p)
    BY <1>12, ConstantsAssumption
       DEF TypeInv, TypeOK, OneHolder, Holding, SettleJournal, Release, Goto, ResetRegisters
<1> QED BY <1>1, <1>2, <1>3, <1>4, <1>5, <1>6, <1>7, <1>8, <1>9, <1>10, <1>11, <1>12
   DEF Sync

\* A command starts without the lock, a sync by taking it.
LEMMA HolderStart ==
    ASSUME TypeInv, OneHolder, NEW p \in Proc, Start(p) PROVE OneHolder'
<1>1. ASSUME NEW t \in Txn, Plan(p, t) PROVE OneHolder'
    BY <1>1 DEF TypeInv, TypeOK, OneHolder, Holding, Plan, Goto
<1>2. CASE StartRecover(p)
    BY <1>2 DEF TypeInv, TypeOK, OneHolder, Holding, StartRecover, Goto
<1>3. CASE StartSync(p)
    BY <1>3, ConstantsAssumption DEF TypeInv, TypeOK, OneHolder, Holding, StartSync, Goto
<1> QED BY <1>1, <1>2, <1>3 DEF Start

\* A dead process holds nothing.
LEMMA HolderCrashRestart ==
    ASSUME TypeInv, OneHolder, NEW p \in Proc, Crash(p) \/ Restart(p) PROVE OneHolder'
<1>1. CASE Crash(p)
    BY <1>1, ConstantsAssumption
       DEF TypeInv, TypeOK, OneHolder, Holding, Crash, Goto, ResetRegisters
<1>2. CASE Restart(p)
    BY <1>2 DEF TypeInv, TypeOK, OneHolder, Holding, Restart, Goto
<1> QED BY <1>1, <1>2

\* Every step keeps one holder.
LEMMA HolderStep == TypeInv /\ OneHolder /\ [Next]_vars => OneHolder'
<1> SUFFICES ASSUME TypeInv, OneHolder, [Next]_vars PROVE OneHolder'
    OBVIOUS
<1>1. CASE UNCHANGED vars
    BY <1>1 DEF OneHolder
<1>2. CASE Environment
    BY <1>2
       DEF OneHolder, Environment, LocalCommit, OtherPush, Fetch, FastForward, LateArrives
<1>3. ASSUME NEW p \in Proc, Start(p) \/ Proceed(p) \/ Crash(p) PROVE OneHolder'
    BY <1>3, HolderStart, HolderExecute, HolderUnwind, HolderPublish, HolderPromote,
       HolderRecover, HolderSync, HolderCrashRestart DEF Proceed
<1> QED BY <1>1, <1>2, <1>3 DEF Next

\* Two processes never work under the lock of the subject at the same time, and
\* every way out of its callback gives the lock back, for any number of
\* processes (publication-unit-of-work.mjs:132, subject-lock.mjs).
THEOREM MutualExclusion == Spec => []OneHolder
BY TypeInit, TypeStep, HolderInit, HolderStep, PTL DEF Spec

-----------------------------------------------------------------------------
(***************************************************************************)
(* The history of the remote branch is never rewritten by this program,    *)
(* whatever wrapper surrounds the unit of work.                            *)
(*                                                                         *)
(* A push replaces exactly its lease, so it takes nothing off the remote   *)
(* when the lease is an ancestor of the pushed commit.  That is sealed     *)
(* with the plan (Journaled, Planned), and carried by every retry and by   *)
(* every push still in flight (OnBranchInv); Graph says that ancestors     *)
(* stay ancestors, Executors that a plan makes no second commit.           *)
(***************************************************************************)

\* The part of CommonInv that is about commits, and its part about processes.
HistoryInv == Graph /\ Executors /\ Planned /\ Journaled /\ OnBranchInv
ProcessInv == Executors /\ Journaled /\ OnBranchInv

USE ConstantsAssumption, NoneAssumption
    DEF Exists, Contains, Refs, Owed, Mode, Leased, Executing, Uncreated, OnBranchLabels,
        PublishingLabels, Goto, Release, ResetRegisters, Marker, HistoryInv, ProcessInv, CommonInv,
        TypeInv, TypeOK, SealedInv, Executors, Journaled, OnBranchInv

\* A step that leaves the commits, the refs and the plans keeps their invariants.
LEMMA QuietHistory ==
    ASSUME Graph, Planned, UNCHANGED <<history, local, remote, tracking, plan>>
    PROVE  Graph' /\ Planned'
BY DEF Graph, Planned

LEMMA QuietStep ==
    ASSUME CommonInv, UNCHANGED <<history, local, remote, tracking, plan>>, ProcessInv'
    PROVE  HistoryInv'
<1>1. Graph' /\ Planned' BY QuietHistory
<1> QED BY <1>1

\* So does a step that changes only the preimage of a sealed plan, or seals nothing.
LEMMA KeptPlans ==
    ASSUME TypeOK, Planned, UNCHANGED history,
           \A u \in Txn :
             /\ plan'[u] = None <=> plan[u] = None
             /\ plan[u] # None => /\ plan'[u].base = plan[u].base
                                 /\ plan'[u].lease = plan[u].lease
                                 /\ plan'[u].mode = plan[u].mode
    PROVE  Planned'
<1>1. \A u \in Txn : Exists(u)' <=> Exists(u) OBVIOUS
<1>2. \A u \in Txn : Sealed(u)' <=> Sealed(u) OBVIOUS
<1>3. \A u \in Txn : Sealed(u) => (Mode(u) = "required")' <=> (Mode(u) = "required") OBVIOUS
<1>4. \A u \in Txn : Sealed(u) => (history'[plan'[u].base] = history[plan[u].base]) OBVIOUS
<1>5. \A u \in Txn : Sealed(u) => (Exists(plan[u].base)' <=> Exists(plan[u].base)) OBVIOUS
<1>6. \A u \in Txn : Sealed(u) => 
         (Leased(plan[u].lease, plan[u].base)' <=> Leased(plan[u].lease, plan[u].base)) OBVIOUS
<1> QED BY <1>1, <1>2, <1>3, <1>4, <1>5, <1>6 DEF Planned

\* A commit made elsewhere disturbs no plan.
LEMMA KeptHistory ==
    ASSUME TypeOK, Planned, UNCHANGED plan, NEW f \in Foreign, history[f] = {},
           NEW S, history' = [history EXCEPT ![f] = S]
    PROVE  Planned'
<1>1. \A u \in Txn : history'[u] = history[u]
    OBVIOUS
<1>2. \A u \in Txn : Sealed(u) => history'[plan[u].base] = history[plan[u].base]
    BY DEF Planned
<1> QED BY <1>1, <1>2 DEF Planned

HIDE DEF CommonInv, HistoryInv, ProcessInv

\* The steps up to the commit: the parent and the lease are checked under the lock.
LEMMA HistoryExecute ==
    ASSUME CommonInv, NEW p \in Proc, Execute(p) PROVE HistoryInv'
<1>1. CASE Lock(p)
  <2>1. UNCHANGED <<history, local, remote, tracking, plan>> BY <1>1 DEF Lock
  <2>2. ProcessInv' BY <1>1 DEF Lock, CommonInv, ProcessInv
  <2> QED BY <2>1, <2>2, QuietStep
<1>2. CASE Begin(p)
  <2>1. Graph' BY <1>2 DEF Graph, Planned, Begin, CommonInv
  <2> DEFINE t == txn[p]
  <2>2. t \in Txn /\ plan[t] \in Plans
    BY <1>2 DEF Begin, CommonInv
  <2>3. plan' = [plan EXCEPT ![t] = [plan[t] EXCEPT !.before = dirty]]
    BY <1>2 DEF Begin, CommonInv
  <2>4. \A u \in Txn :
          /\ plan'[u] = None <=> plan[u] = None
          /\ plan[u] # None => /\ plan'[u].base = plan[u].base
                              /\ plan'[u].lease = plan[u].lease
                              /\ plan'[u].mode = plan[u].mode
    BY <2>2, <2>3 DEF CommonInv
  <2>5. UNCHANGED <<history, local, remote, tracking, late, txn, target, lease, pending, back>>
        /\ pc' = [pc EXCEPT ![p] = "begun"] /\ pc[p] = "locked"
    BY <1>2 DEF Begin, CommonInv
  <2>6. Planned' BY <2>4, <2>5, KeptPlans DEF CommonInv
  <2>7. Leased(plan[t].lease, plan[t].base) \/ Mode(t) # "required"
    BY <1>2, <2>2 DEF Begin, LeaseIsAncestor, CommonInv
  <2>8. Executors' /\ Journaled' BY <2>4, <2>5, <2>7 DEF CommonInv
  <2>9. OnBranchInv' BY <2>4, <2>5 DEF CommonInv
  <2> QED BY <2>1, <2>6, <2>8, <2>9 DEF HistoryInv, ProcessInv
<1>3. CASE Refuse(p)
  <2>1. UNCHANGED <<history, local, remote, tracking, plan>> BY <1>3 DEF Refuse
  <2>2. ProcessInv'
    <3>1. Executors' BY <1>3 DEF Refuse, CommonInv
    <3>2. Journaled' BY <1>3 DEF Refuse, CommonInv
    <3>3. OnBranchInv' BY <1>3 DEF Refuse, CommonInv
    <3> QED BY <3>1, <3>2, <3>3 DEF ProcessInv
  <2> QED BY <2>1, <2>2, QuietStep
<1>4. CASE WriteState(p)
  <2>1. UNCHANGED <<history, local, remote, tracking, plan>> BY <1>4 DEF WriteState
  <2>2. ProcessInv' BY <1>4 DEF WriteState, CommonInv, ProcessInv
  <2> QED BY <2>1, <2>2, QuietStep
<1>5. CASE VerifyCandidate(p)
  <2>1. UNCHANGED <<history, local, remote, tracking, plan>> BY <1>5 DEF VerifyCandidate
  <2>2. ProcessInv' BY <1>5 DEF VerifyCandidate, CommonInv, ProcessInv
  <2> QED BY <2>1, <2>2, QuietStep
<1>6. CASE CreateCommit(p)
  <2>1. Graph'
    <3> DEFINE t == txn[p]
    <3>1. t \in Txn /\ plan[t] \in Plans /\ history[t] = {} /\ Exists(plan[t].base)
      BY <1>6 DEF Planned, CreateCommit, CommonInv
    <3>2. /\ history' = [history EXCEPT ![t] = history[plan[t].base] \cup {t}]
          /\ UNCHANGED <<local, remote, tracking>>
      BY <1>6 DEF CreateCommit
    <3>3. \A c \in Commit : c # t => history'[c] = history[c] /\ t \notin history[c]
      BY <3>1, <3>2 DEF Graph, CommonInv
    <3> QED BY <3>1, <3>2, <3>3 DEF Graph, CommonInv
  <2>2. Planned'
    <3> DEFINE t == txn[p]
    <3>1. /\ t \in Txn /\ plan[t] \in Plans /\ UNCHANGED plan
          /\ history' = [history EXCEPT ![t] = history[plan[t].base] \cup {t}]
      BY <1>6 DEF CreateCommit, CommonInv
    <3>2. history[t] = {} /\ \A u \in Txn : plan[u] # None => plan[u].base # t
      BY <1>6 DEF CreateCommit, Planned, CommonInv
    <3>3. Mode(t) = "required" => Leased(plan[t].lease, plan[t].base)
      BY <1>6 DEF CreateCommit, CommonInv
    <3>4. \A u \in Txn : plan[u] # None => plan[u].base \in Commit
                                          /\ history'[plan[u].base] = history[plan[u].base]
      BY <3>1, <3>2 DEF CommonInv
    <3>5. history'[t] = history[plan[t].base] \cup {t}
          /\ \A u \in Txn : u # t => history'[u] = history[u]
      BY <3>1 DEF CommonInv
    <3> QED BY <3>1, <3>3, <3>4, <3>5 DEF Planned, CommonInv
  <2>3. ProcessInv'
    <3>1. Executors' BY <1>6 DEF Graph, Planned, CreateCommit, CommonInv
    <3>2. Journaled' BY <1>6 DEF Graph, Planned, CreateCommit, CommonInv
    <3>3. OnBranchInv' BY <1>6 DEF Graph, Planned, CreateCommit, CommonInv
    <3> QED BY <3>1, <3>2, <3>3 DEF ProcessInv
  <2> QED BY <2>1, <2>2, <2>3 DEF HistoryInv, ProcessInv
<1>7. CASE AdvanceRef(p)
  <2>1. Graph' BY <1>7 DEF Graph, Planned, AdvanceRef, CommonInv
  <2>2. Planned' BY <1>7 DEF Planned, AdvanceRef, CommonInv
  <2>3. Executors' BY <1>7 DEF AdvanceRef, CommonInv
  <2>4. Journaled' BY <1>7 DEF AdvanceRef, CommonInv
  <2>5. OnBranchInv' BY <1>7 DEF Graph, Planned, AdvanceRef, CommonInv
  <2> QED BY <2>1, <2>2, <2>3, <2>4, <2>5 DEF HistoryInv, ProcessInv
<1>8. CASE RefOutcomeUnknown(p)
  <2>1. UNCHANGED <<history, local, remote, tracking, plan>> BY <1>8 DEF RefOutcomeUnknown
  <2>2. ProcessInv'
    <3>1. Executors' BY <1>8 DEF RefOutcomeUnknown, CommonInv
    <3>2. Journaled' BY <1>8 DEF RefOutcomeUnknown, CommonInv
    <3>3. OnBranchInv' BY <1>8 DEF RefOutcomeUnknown, CommonInv
    <3> QED BY <3>1, <3>2, <3>3 DEF ProcessInv
  <2> QED BY <2>1, <2>2, QuietStep
<1>9. CASE RecordAdvanced(p)
  <2>1. UNCHANGED <<history, local, remote, tracking, plan>> BY <1>9 DEF RecordAdvanced
  <2>2. ProcessInv' BY <1>9 DEF RecordAdvanced, CommonInv, ProcessInv
  <2> QED BY <2>1, <2>2, QuietStep
<1> QED BY <1>1, <1>2, <1>3, <1>4, <1>5, <1>6, <1>7, <1>8, <1>9 DEF Execute

\* The unwinding touches no commit.
LEMMA HistoryUnwind ==
    ASSUME CommonInv, NEW p \in Proc, Unwind(p) PROVE HistoryInv'
<1>2. CASE FailBeforeCommit(p)
  <2>1. UNCHANGED <<history, local, remote, tracking, plan>> BY <1>2 DEF FailBeforeCommit
  <2>2. ProcessInv' BY <1>2 DEF FailBeforeCommit, CommonInv, ProcessInv
  <2> QED BY <2>1, <2>2, QuietStep
<1>3. CASE Restore(p, "unwinding", "unwound")
  <2>1. UNCHANGED <<history, local, remote, tracking, plan>> BY <1>3 DEF Restore
  <2>2. ProcessInv' BY <1>3 DEF Restore, CommonInv, ProcessInv
  <2> QED BY <2>1, <2>2, QuietStep
<1>4. CASE RestoreFails(p, "unwinding")
  <2>1. UNCHANGED <<history, local, remote, tracking, plan>> BY <1>4 DEF RestoreFails
  <2>2. ProcessInv'
    <3>1. Executors' BY <1>4 DEF RestoreFails, CommonInv
    <3>2. Journaled' BY <1>4 DEF RestoreFails, CommonInv
    <3>3. OnBranchInv' BY <1>4 DEF RestoreFails, CommonInv
    <3> QED BY <3>1, <3>2, <3>3 DEF ProcessInv
  <2> QED BY <2>1, <2>2, QuietStep
<1>5. CASE ClearRestored(p, "unwound")
  <2>1. UNCHANGED <<history, local, remote, tracking, plan>> BY <1>5 DEF ClearRestored
  <2>2. ProcessInv'
    <3>1. Executors' BY <1>5 DEF ClearRestored, CommonInv
    <3>2. Journaled' BY <1>5 DEF ClearRestored, CommonInv
    <3>3. OnBranchInv' BY <1>5 DEF ClearRestored, CommonInv
    <3> QED BY <3>1, <3>2, <3>3 DEF ProcessInv
  <2> QED BY <2>1, <2>2, QuietStep
<1> QED BY <1>2, <1>3, <1>4, <1>5 DEF Unwind

\* The push, its loss and what is retained of it.
LEMMA HistoryPublish ==
    ASSUME CommonInv, NEW p \in Proc, Publish(p) PROVE HistoryInv'
<1>1. CASE FailAfterRef(p)
  <2>1. UNCHANGED <<history, local, remote, tracking, plan>> BY <1>1 DEF FailAfterRef
  <2>2. ProcessInv' BY <1>1 DEF FailAfterRef, CommonInv, ProcessInv
  <2> QED BY <2>1, <2>2, QuietStep
<1>2. CASE MarkCommitted(p)
  <2>1. UNCHANGED <<history, local, remote, tracking, plan>> BY <1>2 DEF MarkCommitted
  <2>2. ProcessInv' BY <1>2 DEF MarkCommitted, CommonInv, ProcessInv
  <2> QED BY <2>1, <2>2, QuietStep
<1>3. CASE StartPush(p)
  <2>1. UNCHANGED <<history, local, remote, tracking, plan>> BY <1>3 DEF StartPush
  <2>2. ProcessInv' BY <1>3 DEF StartPush, CommonInv, ProcessInv
  <2> QED BY <2>1, <2>2, QuietStep
<1>4. CASE PushLands(p)
  <2>1. Graph' BY <1>4 DEF Graph, Planned, PushLands, Lands, Accepts, CommonInv
  <2>2. Planned' BY <1>4 DEF Graph, Planned, PushLands, Lands, Accepts, CommonInv
  <2>3. ProcessInv' BY <1>4 DEF Graph, Planned, PushLands, Lands, Accepts, CommonInv, ProcessInv
  <2> QED BY <2>1, <2>2, <2>3 DEF HistoryInv, ProcessInv
<1>5. CASE PushVanishes(p)
  <2>1. Graph' BY <1>5 DEF Graph, Planned, PushVanishes, Vanishes, Accepts, CommonInv
  <2>2. Planned' BY <1>5 DEF Graph, Planned, PushVanishes, Vanishes, Accepts, CommonInv
  <2>3. ProcessInv'
    <3>1. Executors' BY <1>5 DEF PushVanishes, Vanishes, CommonInv
    <3>2. Journaled' BY <1>5 DEF PushVanishes, Vanishes, CommonInv
    <3>3. OnBranchInv' BY <1>5 DEF Graph, Planned, PushVanishes, Vanishes, Accepts, CommonInv
    <3> QED BY <3>1, <3>2, <3>3 DEF ProcessInv
  <2> QED BY <2>1, <2>2, <2>3 DEF HistoryInv, ProcessInv
<1>6. CASE PushRejected(p)
  <2>1. UNCHANGED <<history, local, remote, tracking, plan>> BY <1>6 DEF PushRejected
  <2>2. ProcessInv' BY <1>6 DEF PushRejected, CommonInv, ProcessInv
  <2> QED BY <2>1, <2>2, QuietStep
<1>7. CASE NoteFailure(p)
  <2>1. UNCHANGED <<history, local, remote, tracking, plan>> BY <1>7 DEF NoteFailure
  <2>2. ProcessInv' BY <1>7 DEF NoteFailure, CommonInv, ProcessInv
  <2> QED BY <2>1, <2>2, QuietStep
<1>8. CASE Retain(p)
  <2>1. UNCHANGED <<history, local, remote, tracking, plan>> BY <1>8 DEF Retain
  <2>2. ProcessInv' BY <1>8 DEF Retain, CommonInv, ProcessInv
  <2> QED BY <2>1, <2>2, QuietStep
<1>9. CASE ClearRetained(p)
  <2>1. UNCHANGED <<history, local, remote, tracking, plan>> BY <1>9 DEF ClearRetained
  <2>2. ProcessInv'
    <3>1. Executors' BY <1>9 DEF ClearRetained, CommonInv
    <3>2. Journaled' BY <1>9 DEF ClearRetained, CommonInv
    <3>3. OnBranchInv' BY <1>9 DEF ClearRetained, CommonInv
    <3> QED BY <3>1, <3>2, <3>3 DEF ProcessInv
  <2> QED BY <2>1, <2>2, QuietStep
<1>10. CASE MarkPushed(p)
  <2>1. UNCHANGED <<history, local, remote, tracking, plan>> BY <1>10 DEF MarkPushed
  <2>2. ProcessInv' BY <1>10 DEF MarkPushed, CommonInv, ProcessInv
  <2> QED BY <2>1, <2>2, QuietStep
<1>11. CASE Finish(p)
  <2>1. UNCHANGED <<history, local, remote, tracking, plan>> BY <1>11 DEF Finish
  <2>2. ProcessInv'
    <3>1. Executors' BY <1>11 DEF Finish, UnlockedCleanup, CommonInv
    <3>2. Journaled' BY <1>11 DEF Finish, UnlockedCleanup, CommonInv
    <3>3. OnBranchInv' BY <1>11 DEF Finish, UnlockedCleanup, CommonInv
    <3> QED BY <3>1, <3>2, <3>3 DEF ProcessInv
  <2> QED BY <2>1, <2>2, QuietStep
<1>12. CASE ClearMarker(p, "cleanMarker", "cleanJournal")
  <2>1. UNCHANGED <<history, local, remote, tracking, plan>> BY <1>12 DEF ClearMarker
  <2>2. ProcessInv' BY <1>12 DEF ClearMarker, CommonInv, ProcessInv
  <2> QED BY <2>1, <2>2, QuietStep
<1>13. CASE CleanupJournal(p)
  <2>1. UNCHANGED <<history, local, remote, tracking, plan>> BY <1>13 DEF CleanupJournal
  <2>2. ProcessInv' BY <1>13 DEF CleanupJournal, CommonInv, ProcessInv
  <2> QED BY <2>1, <2>2, QuietStep
<1> QED BY <1>1, <1>2, <1>3, <1>4, <1>5, <1>6, <1>7, <1>8, <1>9, <1>10, <1>11, <1>12, <1>13 DEF Publish

\* A promotion names a commit that is on the branch and is owed.
LEMMA HistoryPromote ==
    ASSUME CommonInv, NEW p \in Proc, Promote(p) PROVE HistoryInv'
<1>1. CASE DropJournal(p)
  <2>1. UNCHANGED <<history, local, remote, tracking, plan>> BY <1>1 DEF DropJournal
  <2>2. ProcessInv' BY <1>1 DEF DropJournal, CommonInv, ProcessInv
  <2> QED BY <2>1, <2>2, QuietStep
<1>2. CASE StartPromotion(p)
  <2>1. UNCHANGED <<history, local, remote, tracking, plan>> BY <1>2 DEF StartPromotion
  <2>2. ProcessInv' BY <1>2 DEF StartPromotion, MayPromote, PostCommitJournal, RefAdvanced, NothingOwed, CommonInv, ProcessInv
  <2> QED BY <2>1, <2>2, QuietStep
<1>3. CASE PromoteMarker(p)
  <2>1. UNCHANGED <<history, local, remote, tracking, plan>> BY <1>3 DEF PromoteMarker
  <2>2. ProcessInv' BY <1>3 DEF PromoteMarker, CommonInv, ProcessInv
  <2> QED BY <2>1, <2>2, QuietStep
<1>4. CASE PromoteClear(p)
  <2>1. UNCHANGED <<history, local, remote, tracking, plan>> BY <1>4 DEF PromoteClear
  <2>2. ProcessInv' BY <1>4 DEF PromoteClear, CommonInv, ProcessInv
  <2> QED BY <2>1, <2>2, QuietStep
<1> QED BY <1>1, <1>2, <1>3, <1>4 DEF Promote

\* The recovery touches no commit.
LEMMA HistoryRecover ==
    ASSUME CommonInv, NEW p \in Proc, Recover(p) PROVE HistoryInv'
<1>1. CASE RecoverLock(p)
  <2>1. UNCHANGED <<history, local, remote, tracking, plan>> BY <1>1 DEF RecoverLock
  <2>2. ProcessInv' BY <1>1 DEF RecoverLock, CommonInv, ProcessInv
  <2> QED BY <2>1, <2>2, QuietStep
<1>2. CASE RecoverLeave(p)
  <2>1. UNCHANGED <<history, local, remote, tracking, plan>> BY <1>2 DEF RecoverLeave
  <2>2. ProcessInv'
    <3>1. Executors' BY <1>2 DEF RecoverLeave, CommonInv
    <3>2. Journaled' BY <1>2 DEF RecoverLeave, CommonInv
    <3>3. OnBranchInv' BY <1>2 DEF RecoverLeave, CommonInv
    <3> QED BY <3>1, <3>2, <3>3 DEF ProcessInv
  <2> QED BY <2>1, <2>2, QuietStep
<1>3. CASE Restore(p, "restoring", "restored")
  <2>1. UNCHANGED <<history, local, remote, tracking, plan>> BY <1>3 DEF Restore
  <2>2. ProcessInv' BY <1>3 DEF Restore, CommonInv, ProcessInv
  <2> QED BY <2>1, <2>2, QuietStep
<1>4. CASE RestoreFails(p, "restoring")
  <2>1. UNCHANGED <<history, local, remote, tracking, plan>> BY <1>4 DEF RestoreFails
  <2>2. ProcessInv'
    <3>1. Executors' BY <1>4 DEF RestoreFails, CommonInv
    <3>2. Journaled' BY <1>4 DEF RestoreFails, CommonInv
    <3>3. OnBranchInv' BY <1>4 DEF RestoreFails, CommonInv
    <3> QED BY <3>1, <3>2, <3>3 DEF ProcessInv
  <2> QED BY <2>1, <2>2, QuietStep
<1>5. CASE ClearRestored(p, "restored")
  <2>1. UNCHANGED <<history, local, remote, tracking, plan>> BY <1>5 DEF ClearRestored
  <2>2. ProcessInv'
    <3>1. Executors' BY <1>5 DEF ClearRestored, CommonInv
    <3>2. Journaled' BY <1>5 DEF ClearRestored, CommonInv
    <3>3. OnBranchInv' BY <1>5 DEF ClearRestored, CommonInv
    <3> QED BY <3>1, <3>2, <3>3 DEF ProcessInv
  <2> QED BY <2>1, <2>2, QuietStep
<1> QED BY <1>1, <1>2, <1>3, <1>4, <1>5 DEF Recover

\* A retry pushes with the sealed lease, or with a newer ancestor of the commit.
LEMMA HistorySync ==
    ASSUME CommonInv, NEW p \in Proc, Sync(p) PROVE HistoryInv'
<1>1. CASE SyncLeaves(p)
  <2>1. UNCHANGED <<history, local, remote, tracking, plan>> BY <1>1 DEF SyncLeaves
  <2>2. ProcessInv'
    <3>1. Executors' BY <1>1 DEF SyncLeaves, CommonInv
    <3>2. Journaled' BY <1>1 DEF SyncLeaves, CommonInv
    <3>3. OnBranchInv' BY <1>1 DEF SyncLeaves, CommonInv
    <3> QED BY <3>1, <3>2, <3>3 DEF ProcessInv
  <2> QED BY <2>1, <2>2, QuietStep
<1>2. CASE SyncPrepare(p)
  <2>1. UNCHANGED <<history, local, remote, tracking, plan>> BY <1>2 DEF SyncPrepare
  <2>2. Executors' /\ Journaled'
    <3>1. Executors' BY <1>2 DEF SyncPrepare, CommonInv
    <3>2. Journaled' BY <1>2 DEF SyncPrepare, CommonInv
    <3> QED BY <3>1, <3>2
  <2>3. OnBranchInv'
    <3> DEFINE t == pending.txn
    <3>1. /\ pending \in Markers /\ Owed(t) /\ Leased(plan[t].lease, t)
          /\ UNCHANGED <<history, local, remote, tracking, late, plan, target>>
      BY <1>2 DEF SyncPrepare, Planned, Graph, CommonInv
    <3>2. txn' = [txn EXCEPT ![p] = t] /\ pc' = [pc EXCEPT ![p] = "syncPushing"]
      BY <1>2 DEF SyncPrepare, CommonInv
    <3>3. PICK l \in {plan[t].lease, remote} :
            lease' = [lease EXCEPT ![p] = l] /\ (l # plan[t].lease => Reobserved(t))
      BY <1>2 DEF SyncPrepare, CommonInv
    <3>4. Leased(l, t)
      BY <3>1, <3>3 DEF Reobserved, CommonInv
    <3>5. pending' \in Markers /\ pending'.txn = t
      BY <1>2, <3>1 DEF SyncPrepare, CommonInv
    <3> QED BY <3>1, <3>2, <3>3, <3>4, <3>5 DEF CommonInv, ProcessInv
  <2> QED BY <2>1, <2>2, <2>3, QuietHistory DEF CommonInv, HistoryInv, ProcessInv
<1>3. CASE SyncLands(p)
  <2>1. Graph' BY <1>3 DEF Graph, Planned, SyncLands, Landed, Lands, Accepts, CommonInv
  <2>2. Planned' BY <1>3 DEF Graph, Planned, SyncLands, Landed, Lands, Accepts, CommonInv
  <2>3. ProcessInv' BY <1>3 DEF Graph, Planned, SyncLands, Landed, Lands, Accepts, CommonInv, ProcessInv
  <2> QED BY <2>1, <2>2, <2>3 DEF HistoryInv, ProcessInv
<1>4. CASE SyncVanishes(p)
  <2>1. Graph' BY <1>4 DEF Graph, Planned, SyncVanishes, Vanishes, Accepts, CommonInv
  <2>2. Planned' BY <1>4 DEF Graph, Planned, SyncVanishes, Vanishes, Accepts, CommonInv
  <2>3. ProcessInv' BY <1>4 DEF Graph, Planned, SyncVanishes, Vanishes, Accepts, CommonInv, ProcessInv
  <2> QED BY <2>1, <2>2, <2>3 DEF HistoryInv, ProcessInv
<1>5. CASE SyncRejected(p)
  <2>1. UNCHANGED <<history, local, remote, tracking, plan>> BY <1>5 DEF SyncRejected
  <2>2. ProcessInv' BY <1>5 DEF SyncRejected, CommonInv, ProcessInv
  <2> QED BY <2>1, <2>2, QuietStep
<1>6. CASE SyncRefused(p)
  <2>1. UNCHANGED <<history, local, remote, tracking, plan>> BY <1>6 DEF SyncRefused
  <2>2. ProcessInv'
    <3>1. Executors' BY <1>6 DEF SyncRefused, CommonInv
    <3>2. Journaled' BY <1>6 DEF SyncRefused, CommonInv
    <3>3. OnBranchInv' BY <1>6 DEF SyncRefused, CommonInv
    <3> QED BY <3>1, <3>2, <3>3 DEF ProcessInv
  <2> QED BY <2>1, <2>2, QuietStep
<1>7. CASE ProbeFinds(p)
  <2>1. UNCHANGED <<history, local, remote, tracking, plan>> BY <1>7 DEF ProbeFinds
  <2>2. ProcessInv' BY <1>7 DEF ProbeFinds, Landed, CommonInv, ProcessInv
  <2> QED BY <2>1, <2>2, QuietStep
<1>8. CASE ProbeMisses(p)
  <2>1. UNCHANGED <<history, local, remote, tracking, plan>> BY <1>8 DEF ProbeMisses
  <2>2. ProcessInv'
    <3>1. Executors' BY <1>8 DEF ProbeMisses, CommonInv
    <3>2. Journaled' BY <1>8 DEF ProbeMisses, CommonInv
    <3>3. OnBranchInv' BY <1>8 DEF ProbeMisses, CommonInv
    <3> QED BY <3>1, <3>2, <3>3 DEF ProcessInv
  <2> QED BY <2>1, <2>2, QuietStep
<1>9. CASE SyncReceiptWritten(p)
  <2>1. UNCHANGED <<history, local, remote, tracking, plan>> BY <1>9 DEF SyncReceiptWritten
  <2>2. ProcessInv' BY <1>9 DEF SyncReceiptWritten, CommonInv, ProcessInv
  <2> QED BY <2>1, <2>2, QuietStep
<1>10. CASE SyncAlreadyPublished(p)
  <2>1. UNCHANGED <<history, local, remote, tracking, plan>> BY <1>10 DEF SyncAlreadyPublished
  <2>2. ProcessInv'
    <3>1. Executors' BY <1>10 DEF SyncAlreadyPublished, CommonInv
    <3>2. Journaled' BY <1>10 DEF SyncAlreadyPublished, CommonInv
    <3>3. OnBranchInv' BY <1>10 DEF SyncAlreadyPublished, CommonInv
    <3> QED BY <3>1, <3>2, <3>3 DEF ProcessInv
  <2> QED BY <2>1, <2>2, QuietStep
<1>11. CASE ClearMarker(p, "settling", "settled")
  <2>1. UNCHANGED <<history, local, remote, tracking, plan>> BY <1>11 DEF ClearMarker
  <2>2. ProcessInv' BY <1>11 DEF ClearMarker, CommonInv, ProcessInv
  <2> QED BY <2>1, <2>2, QuietStep
<1>12. CASE SettleJournal(p)
  <2>1. UNCHANGED <<history, local, remote, tracking, plan>> BY <1>12 DEF SettleJournal
  <2>2. ProcessInv'
    <3>1. Executors' BY <1>12 DEF SettleJournal, CommonInv
    <3>2. Journaled' BY <1>12 DEF SettleJournal, CommonInv
    <3>3. OnBranchInv' BY <1>12 DEF SettleJournal, CommonInv
    <3> QED BY <3>1, <3>2, <3>3 DEF ProcessInv
  <2> QED BY <2>1, <2>2, QuietStep
<1> QED BY <1>1, <1>2, <1>3, <1>4, <1>5, <1>6, <1>7, <1>8, <1>9, <1>10, <1>11, <1>12 DEF Sync

\* A plan is made on the local head by a process that executes nothing else.
LEMMA HistoryStart ==
    ASSUME CommonInv, NEW p \in Proc, Start(p) PROVE HistoryInv'
<1>1. CASE \E t \in Txn : Plan(p, t)
  <2>1. Graph' BY <1>1 DEF Graph, Planned, Plan, CommonInv
  <2>2. Planned'
    <3>1. PICK t \in Txn : Plan(p, t) BY <1>1 DEF CommonInv
    <3>2. plan'[t] \in Plans /\ plan'[t].base = local /\ \A u \in Txn \ {t} : plan'[u] = plan[u]
      BY <3>1, PlanSeals DEF CommonInv
    <3>3. ~Sealed(t) /\ UNCHANGED <<history, local>>
      BY <3>1 DEF Plan, CommonInv
    <3>4. history[t] = {} /\ Exists(local) /\ t \notin history[local]
      BY <3>3 DEF Planned, Graph, CommonInv
    <3>5. \A u \in Txn : Exists(u)' => u # t /\ Exists(u)
      BY <3>3, <3>4 DEF CommonInv
    <3>6. \A u \in Txn : Exists(u)' => Sealed(u)' /\ history'[u] = history'[plan'[u].base] \cup {u}
                         /\ (Mode(u)' = "required" => Leased(plan[u].lease, plan[u].base)')
      BY <3>2, <3>3, <3>5 DEF Planned, CommonInv
    <3>7. ASSUME NEW u \in Txn, Sealed(u)' PROVE Exists(plan[u].base)' /\ u \notin history'[plan'[u].base]
      <4>1. CASE u = t BY <4>1, <3>2, <3>3, <3>4 DEF CommonInv
      <4>2. CASE u # t
        <5>1. Sealed(u) /\ plan'[u] = plan[u] BY <4>2, <3>2, <3>7 DEF CommonInv
        <5> QED BY <5>1, <3>3 DEF Planned, CommonInv
      <4> QED BY <4>1, <4>2
    <3> QED BY <3>6, <3>7 DEF Planned, CommonInv
  <2>3. ProcessInv'
    <3>1. Executors' BY <1>1 DEF Graph, Planned, Plan, CommonInv
    <3>2. Journaled' BY <1>1 DEF Graph, Planned, Plan, CommonInv
    <3>3. OnBranchInv' BY <1>1 DEF Graph, Planned, Plan, CommonInv
    <3> QED BY <3>1, <3>2, <3>3 DEF ProcessInv
  <2> QED BY <2>1, <2>2, <2>3 DEF HistoryInv, ProcessInv
<1>2. CASE StartRecover(p)
  <2>1. UNCHANGED <<history, local, remote, tracking, plan>> BY <1>2 DEF StartRecover
  <2>2. Executors' BY <1>2 DEF StartRecover, CommonInv
  <2>3. Journaled' BY <1>2 DEF StartRecover, CommonInv
  <2>4. OnBranchInv' BY <1>2 DEF StartRecover, CommonInv
  <2>5. ProcessInv' BY <2>2, <2>3, <2>4 DEF CommonInv, ProcessInv
  <2> QED BY <2>1, <2>5, QuietStep
<1>3. CASE StartSync(p)
  <2>1. UNCHANGED <<history, local, remote, tracking, plan>> BY <1>3 DEF StartSync
  <2>2. ProcessInv' BY <1>3 DEF StartSync, CommonInv, ProcessInv
  <2> QED BY <2>1, <2>2, QuietStep
<1> QED BY <1>1, <1>2, <1>3 DEF Start

\* A death forgets who executes what, and no commit.
LEMMA HistoryCrashRestart ==
    ASSUME CommonInv, NEW p \in Proc, Crash(p) \/ Restart(p) PROVE HistoryInv'
<1>1. CASE Crash(p)
  <2>1. UNCHANGED <<history, local, remote, tracking, plan>> BY <1>1 DEF Crash
  <2>2. ProcessInv'
    <3>1. Executors' BY <1>1 DEF Crash, CommonInv
    <3>2. Journaled' BY <1>1 DEF Crash, CommonInv
    <3>3. OnBranchInv' BY <1>1 DEF Crash, CommonInv
    <3> QED BY <3>1, <3>2, <3>3 DEF ProcessInv
  <2> QED BY <2>1, <2>2, QuietStep
<1>2. CASE Restart(p)
  <2>1. UNCHANGED <<history, local, remote, tracking, plan>> BY <1>2 DEF Restart
  <2>2. ProcessInv' BY <1>2 DEF Restart, CommonInv, ProcessInv
  <2> QED BY <2>1, <2>2, QuietStep
<1> QED BY <1>1, <1>2

\* Foreign commits extend a head, and late pushes carry the lease they had.
LEMMA HistoryEnvironment ==
    ASSUME CommonInv, Environment PROVE HistoryInv'
<1>1. ASSUME NEW f \in Foreign, LocalCommit(f) PROVE HistoryInv'
  <2>1. Graph' BY <1>1 DEF Graph, LocalCommit, NewCommit, CommonInv
  <2>2. Planned' BY <1>1, KeptHistory DEF LocalCommit, NewCommit, CommonInv
  <2>3. Executors' BY <1>1 DEF Graph, LocalCommit, NewCommit, CommonInv
  <2>4. Journaled' BY <1>1 DEF Graph, LocalCommit, NewCommit, CommonInv
  <2>5. OnBranchInv' BY <1>1 DEF Graph, LocalCommit, NewCommit, CommonInv
  <2> QED BY <2>1, <2>2, <2>3, <2>4, <2>5 DEF HistoryInv, ProcessInv
<1>2. ASSUME NEW f \in Foreign, OtherPush(f) PROVE HistoryInv'
  <2>1. Graph' BY <1>2 DEF Graph, OtherPush, NewCommit, CommonInv
  <2>2. Planned' BY <1>2, KeptHistory DEF OtherPush, NewCommit, CommonInv
  <2>3. Executors' BY <1>2 DEF Graph, OtherPush, NewCommit, CommonInv
  <2>4. Journaled' BY <1>2 DEF Graph, OtherPush, NewCommit, CommonInv
  <2>5. OnBranchInv' BY <1>2 DEF Graph, OtherPush, NewCommit, CommonInv
  <2> QED BY <2>1, <2>2, <2>3, <2>4, <2>5 DEF HistoryInv, ProcessInv
<1>3. CASE Fetch
  <2>1. Graph' /\ Planned'
    <3>1. Graph' BY <1>3 DEF Graph, Fetch, CommonInv
    <3>2. Planned' BY <1>3 DEF Planned, Fetch, CommonInv
    <3> QED BY <3>1, <3>2
  <2>2. ProcessInv' BY <1>3 DEF Graph, Fetch, CommonInv, ProcessInv
  <2> QED BY <2>1, <2>2 DEF HistoryInv, ProcessInv
<1>4. CASE FastForward
  <2>1. Graph' /\ Planned' BY <1>4 DEF Graph, Planned, FastForward, CommonInv
  <2>2. ProcessInv' BY <1>4 DEF Graph, FastForward, CommonInv, ProcessInv
  <2> QED BY <2>1, <2>2 DEF HistoryInv, ProcessInv
<1>5. ASSUME NEW push \in late, LateArrives(push) PROVE HistoryInv'
  <2>1. Graph' BY <1>5 DEF Graph, LateArrives, Accepts, CommonInv
  <2>2. Planned' BY <1>5 DEF Planned, LateArrives, CommonInv
  <2>3. ProcessInv' BY <1>5 DEF Graph, LateArrives, Accepts, CommonInv, ProcessInv
  <2> QED BY <2>1, <2>2, <2>3 DEF HistoryInv, ProcessInv
<1> QED BY <1>1, <1>2, <1>3, <1>4, <1>5 DEF Environment

USE DEF CommonInv, HistoryInv, ProcessInv

\* The common invariant holds at first.
LEMMA CommonInit == Init => CommonInv
<1> SUFFICES ASSUME Init PROVE CommonInv
    OBVIOUS
<1>1. TypeInv /\ OneHolder BY TypeInit, HolderInit
<1>2. Graph BY DEF Init, Graph
<1>3. Planned BY DEF Init, Planned
<1>4. ProcessInv BY DEF Init
<1> QED BY <1>1, <1>2, <1>3, <1>4

\* The common invariant is inductive.
LEMMA CommonStep == CommonInv /\ [Next]_vars => CommonInv'
<1> SUFFICES ASSUME CommonInv, [Next]_vars PROVE CommonInv'
    OBVIOUS
<1>1. TypeInv' /\ OneHolder' BY TypeStep, HolderStep
<1>2. HistoryInv'
  <2>1. CASE UNCHANGED vars
    <3>1. ProcessInv' BY <2>1
    <3> QED BY <2>1, <3>1, QuietHistory
  <2>2. CASE Environment
    BY <2>2, HistoryEnvironment
  <2>3. ASSUME NEW p \in Proc, Start(p) \/ Proceed(p) \/ Crash(p) PROVE HistoryInv'
    BY <2>3, HistoryStart, HistoryExecute, HistoryUnwind, HistoryPublish, HistoryPromote,
       HistoryRecover, HistorySync, HistoryCrashRestart DEF Proceed
  <2> QED BY <2>1, <2>2, <2>3 DEF Next
<1> QED BY <1>1, <1>2

\* No step takes a commit off the remote.
LEMMA RemoteStep == CommonInv /\ [Next]_vars =>
    [\A c \in Commit : Contains(remote, c) => Contains(remote, c)']_vars
<1> SUFFICES ASSUME CommonInv, Next, NEW c \in Commit, Contains(remote, c)
             PROVE  Contains(remote, c)'
    OBVIOUS
<1>1. ASSUME NEW p \in Proc, Start(p) \/ Unwind(p) \/ Recover(p) \/ Promote(p) \/ Crash(p) \/ Restart(p)
      PROVE  UNCHANGED <<history, remote>>
    BY <1>1 DEF Start, Plan, StartRecover, StartSync, Unwind, FailBeforeCommit,
      Restore, RestoreFails, ClearRestored, Recover, RecoverLock, RecoverLeave, Promote,
      DropJournal, StartPromotion, PromoteMarker, PromoteClear, Crash, Restart
<1>2. ASSUME NEW p \in Proc, Execute(p) PROVE Contains(remote, c)'
  <2>1. CASE CreateCommit(p)
    BY <2>1 DEF CreateCommit, Graph
  <2>2. CASE ~CreateCommit(p)
    <3>1. UNCHANGED <<history, remote>>
      BY <1>2, <2>2 DEF Execute, Lock, Begin, Refuse, WriteState, VerifyCandidate, AdvanceRef,
         RefOutcomeUnknown, RecordAdvanced
    <3> QED BY <3>1
  <2> QED BY <2>1, <2>2
<1>3. ASSUME NEW l, NEW t \in Txn, Leased(l, t), Accepts(l, t), history' = history, remote' = t
      PROVE  Contains(remote, c)'
    BY <1>3 DEF Accepts, Graph
<1>4. ASSUME NEW p \in Proc, Publish(p) PROVE Contains(remote, c)'
  <2>1. CASE PushLands(p) \/ PushVanishes(p)
    <3>1. Leased(plan[txn[p]].lease, txn[p]) /\ txn[p] \in Txn /\ UNCHANGED history
      BY <2>1 DEF PushLands, PushVanishes, Graph, Planned
    <3> QED BY <2>1, <3>1, <1>3 DEF PushLands, PushVanishes, Lands, Vanishes
  <2>2. CASE ~(PushLands(p) \/ PushVanishes(p))
    <3>1. UNCHANGED <<history, remote>>
      BY <1>4, <2>2 DEF Publish, FailAfterRef, MarkCommitted, StartPush, PushRejected, NoteFailure,
         Retain, ClearRetained, MarkPushed, Finish, ClearMarker, CleanupJournal
    <3> QED BY <3>1
  <2> QED BY <2>1, <2>2
<1>5. ASSUME NEW p \in Proc, Sync(p) PROVE Contains(remote, c)'
  <2>1. CASE SyncLands(p) \/ SyncVanishes(p)
    <3>1. Leased(lease[p], txn[p]) /\ txn[p] \in Txn /\ UNCHANGED history
      BY <2>1 DEF SyncLands, SyncVanishes
    <3> QED BY <2>1, <3>1, <1>3 DEF SyncLands, SyncVanishes, Lands, Vanishes
  <2>2. CASE ~(SyncLands(p) \/ SyncVanishes(p))
    <3>1. UNCHANGED <<history, remote>>
      BY <1>5, <2>2 DEF Sync, SyncLeaves, SyncPrepare, SyncRejected, SyncRefused, ProbeFinds,
         ProbeMisses, SyncReceiptWritten, SyncAlreadyPublished, ClearMarker, SettleJournal
    <3> QED BY <3>1
  <2> QED BY <2>1, <2>2
<1>6. CASE Environment
  <2>1. ASSUME NEW f \in Foreign, LocalCommit(f) \/ OtherPush(f) PROVE Contains(remote, c)'
    BY <2>1 DEF LocalCommit, OtherPush, NewCommit, Graph
  <2>2. CASE Fetch \/ FastForward
    BY <2>2 DEF Fetch, FastForward
  <2>3. ASSUME NEW push \in late, LateArrives(push) PROVE Contains(remote, c)'
    BY <2>3, <1>3 DEF LateArrives
  <2> QED BY <1>6, <2>1, <2>2, <2>3 DEF Environment
<1> QED BY <1>1, <1>2, <1>4, <1>5, <1>6 DEF Next, Proceed

\* No push of this clone, a first try, a retry with its sealed lease or with a
\* newer one, or one that arrives late, ever takes a commit off the remote: for
\* every kind of subject, with unlocked readers and cleanups included
\* (state.mjs:9556-9584, publication-unit-of-work.mjs:190-204, git.mjs:3766-3812).
THEOREM NeverRewinds == Spec => RemoteNeverRewinds
BY CommonInit, CommonStep, RemoteStep, PTL DEF Spec, RemoteNeverRewinds

-----------------------------------------------------------------------------
(***************************************************************************)
(* The safety of the publication transaction of a Goal, whose callers use  *)
(* the exported functions (Kind = "kernel"), as far as its commit or       *)
(* its undoing; PublicationKernelProofs has the rest.  Readers promote     *)
(* under the subject lock only, and nobody touches the records outside it. *)
(*                                                                         *)
(* The holder of the lock is alone (HolderIsAlone), so what the records    *)
(* say of each other and of the worktree (Recorded) and what each program  *)
(* point relies on (OwnedBy) change only by its own steps.  One lemma for  *)
(* each group of actions, one step in it for each action; in each step the *)
(* four parts of KernelInv that are not in CommonInv.                      *)
(***************************************************************************)

\* The parts of KernelInv beside CommonInv and Owned: the records and the
\* worktree, the commits; and the labels of a process that has no lock.
Outside == {"idle", "dead", "planned", "recoverWaiting"}
Records == Recorded /\ DirtyIsJournaled
Commits == CommitCarriesOneEvent /\ NoLostCommit
KernelRest == KernelLabels /\ Records /\ Commits /\ Owned
Alone(p) == \A q \in Proc \ {p} : pc[q] \in Outside

USE DEF Outside, Records, Commits, KernelRest, KernelInv, KernelLabels, Recorded, DirtyIsJournaled,
        CommitCarriesOneEvent, NoLostCommit, OwnedBy, Alone, HasJournal, ClearJournal, Named

\* The process that holds the lock is the only one inside.
LEMMA HolderIsAlone ==
    ASSUME CommonInv, KernelLabels, NEW p \in Proc, lock = p PROVE Alone(p)
BY DEF OneHolder, Holding

\* What holds of the only process inside holds of every process.
LEMMA OwnedByHolder ==
    ASSUME NEW p \in Proc, OwnedBy(p)', Alone(p)' PROVE Owned'
BY DEF Owned

\* The owner of the journal sets its stage.
LEMMA StageSet ==
    ASSUME journal \in Journals \cup {None}, NEW t, HasJournal(t), NEW s \in Stages, SetStage(t, s)
    PROVE  journal' \in Journals /\ journal'.txn = t /\ journal'.stage = s
<1>1. journal \in Journals /\ journal' = [journal EXCEPT !.stage = s]
    BY DEF SetStage
<1> QED BY <1>1

\* A step that leaves the commits and the refs alone loses no commit if it keeps
\* every record of one the remote still owes.
LEMMA CommitsKept ==
    ASSUME KernelInv, UNCHANGED <<history, content, local, remote>>,
           \A t \in Txn : Owed(t)' => Owed(t),
           \A t \in Txn : Owed(t) /\ Named(t) => Named(t)' \/ Contains(remote, t)
    PROVE  Commits'
<1>1. CommitCarriesOneEvent' OBVIOUS
<1>2. ASSUME NEW t \in Txn, Owed(t)' PROVE Contains(remote, t)' \/ Named(t)'
  <2>1. Owed(t) BY <1>2
  <2>2. Contains(remote, t) \/ Named(t) BY <2>1
  <2> QED BY <2>1, <2>2
<1>3. NoLostCommit' BY <1>2
<1> QED BY <1>1, <1>3

\* In particular one that leaves the plans alone too.
LEMMA RecordsRename ==
    ASSUME KernelInv, UNCHANGED <<history, content, local, remote, plan>>,
           \A t \in Txn : Owed(t) /\ Named(t) => Named(t)' \/ Contains(remote, t)
    PROVE  Commits'
<1>1. \A t \in Txn : Owed(t)' => Owed(t) OBVIOUS
<1> HIDE DEF KernelInv, Commits, Owed, Named, Contains
<1> QED BY <1>1, CommitsKept

\* In particular one that leaves the records alone.
LEMMA RecordsStay ==
    ASSUME KernelInv, UNCHANGED <<history, content, local, remote, plan, records>>
    PROVE  Commits'
<1>1. \A t \in Txn : Named(t) => Named(t)' OBVIOUS
<1> HIDE DEF KernelInv, Commits, Owed, Named, Contains
<1> QED BY <1>1, RecordsRename

\* The owner of the journal sets its stage and its outcome.
LEMMA OutcomeSet ==
    ASSUME journal \in Journals, NEW s \in Stages, NEW o \in Outcomes,
           journal' = [journal EXCEPT !.outcome = o, !.stage = s]
    PROVE  journal' \in Journals /\ journal'.txn = journal.txn
OBVIOUS

\* Nor does a step that only adds to the remote.
LEMMA CommitsGrow ==
    ASSUME KernelInv, UNCHANGED <<history, content, local, records, plan>>,
           \A c \in Commit : Contains(remote, c) => Contains(remote, c)'
    PROVE  Commits'
<1>1. CommitCarriesOneEvent' OBVIOUS
<1>2. ASSUME NEW t \in Txn, Owed(t)' PROVE Contains(remote, t)' \/ Named(t)'
  <2>1. Owed(t) BY <1>2
  <2>2. Contains(remote, t) \/ Named(t) BY <2>1
  <2> QED BY <1>2, <2>1, <2>2
<1>3. NoLostCommit' BY <1>2
<1> QED BY <1>1, <1>3

\* The unit of work up to its commit (publication-unit-of-work.mjs:132-507).
LEMMA KernelExecute ==
    ASSUME Kind = "kernel", KernelInv, NEW p \in Proc, Execute(p) PROVE KernelRest'
<1>1. CASE Lock(p)
  <2>1. Commits'
    <3>1. UNCHANGED <<history, content, local, remote, plan, records>> BY <1>1 DEF Lock
    <3> HIDE DEF KernelInv, CommonInv, Commits, Owed, Named, Contains
    <3> QED BY <3>1, RecordsStay
  <2>2. Records' /\ KernelLabels' BY <1>1 DEF Lock
  <2>3. \A q \in Proc : pc[q] \in Outside BY <1>1 DEF OneHolder, Holding, Lock
  <2>4. \A q \in Proc : pc'[q] \in Outside \cup {"locked"} BY <1>1, <2>3 DEF Lock
  <2>5. Owned' BY <2>4 DEF Owned
  <2> QED BY <2>1, <2>2, <2>5
<1>2. CASE Begin(p)
  <2>1. lock = p BY <1>2 DEF OneHolder, Holding, Begin
  <2>2. Alone(p)' 
    <3>1. \A q \in Proc \ {p} : pc'[q] = pc[q] BY <1>2 DEF Begin
    <3> QED BY <2>1, <3>1, HolderIsAlone
  <2>3. OwnedBy(p) /\ txn[p] \in Txn \cup {None} BY DEF Owned
  <2> DEFINE t == txn[p]
  <2>4. t \in Txn /\ plan[t] \in Plans /\ journal = None /\ pending = None /\ dirty = {}
    BY <1>2, <2>3 DEF Begin
  <2>5. journal' = [txn |-> t, stage |-> "prepared", created |-> FALSE, outcome |-> "not-attempted"]
        /\ plan' = [plan EXCEPT ![t] = [plan[t] EXCEPT !.before = dirty]]
        /\ pc' = [pc EXCEPT ![p] = "begun"]
        /\ UNCHANGED <<history, content, local, remote, dirty, lock, pending, regs>>
    BY <1>2 DEF Begin
  <2>6. journal' \in Journals /\ journal'.txn = t /\ journal'.stage = "prepared" BY <2>4, <2>5
  <2>7. \A u \in Txn : /\ plan'[u] = None <=> plan[u] = None
                        /\ plan[u] # None => plan'[u].mode = plan[u].mode /\ plan'[u].before = {}
    BY <2>4, <2>5
  <2>8. \A u \in Txn : (Owed(u)' => Owed(u)) /\ ~Named(u) BY <2>4, <2>5, <2>7
  <2>9. Commits' BY <2>5, <2>8, CommitsKept
  <2>10. KernelLabels' BY <2>5
  <2>11. Records' BY <2>4, <2>5, <2>7
  <2>12. pc'[p] = "begun" /\ txn'[p] = t /\ pending' = None /\ dirty' = {} BY <2>4, <2>5
  <2>13. OwnedBy(p)' BY <2>6, <2>12
  <2> QED BY <2>2, <2>9, <2>10, <2>11, <2>13, OwnedByHolder
<1>3. CASE Refuse(p)
  <2>1. lock = p BY <1>3 DEF OneHolder, Holding, Refuse
  <2>2. Alone(p)' 
    <3>1. \A q \in Proc \ {p} : pc'[q] = pc[q] BY <1>3 DEF Refuse
    <3> QED BY <2>1, <3>1, HolderIsAlone
  <2>3. OwnedBy(p) /\ txn[p] \in Txn \cup {None} BY DEF Owned
  <2>4. Commits'
    <3>1. UNCHANGED <<history, content, local, remote, plan, records>> BY <1>3 DEF Refuse
    <3> HIDE DEF KernelInv, CommonInv, Commits, Owed, Named, Contains
    <3> QED BY <3>1, RecordsStay
  <2>5. KernelLabels' BY <1>3 DEF Refuse
  <2>6. Records' BY <1>3, <2>3 DEF Refuse
  <2>7. OwnedBy(p)' BY <1>3, <2>3 DEF Refuse
  <2> QED BY <2>2, <2>4, <2>5, <2>6, <2>7, OwnedByHolder
<1>4. CASE WriteState(p)
  <2>1. lock = p BY <1>4 DEF OneHolder, Holding, WriteState
  <2>2. Alone(p)' 
    <3>1. \A q \in Proc \ {p} : pc'[q] = pc[q] BY <1>4 DEF WriteState
    <3> QED BY <2>1, <3>1, HolderIsAlone
  <2>3. OwnedBy(p) /\ txn[p] \in Txn \cup {None} BY DEF Owned
  <2>4. txn[p] \notin history[local] BY <1>4, <2>3 DEF Graph, WriteState
  <2>5. HasJournal(txn[p]) /\ dirty' = {txn[p]} /\ journal.stage = "prepared" /\ pending = None
        /\ pc'[p] = "written" /\ UNCHANGED <<history, local, plan, journal, pending, txn>>
    BY <1>4, <2>3 DEF WriteState
  <2>6. Commits'
    <3>1. UNCHANGED <<history, content, local, remote, plan, records>> BY <1>4 DEF WriteState
    <3> HIDE DEF KernelInv, CommonInv, Commits, Owed, Named, Contains
    <3> QED BY <3>1, RecordsStay
  <2>7. KernelLabels' BY <1>4 DEF WriteState
  <2>8. Records' BY <2>4, <2>5
  <2>9. OwnedBy(p)' BY <2>4, <2>5
  <2> QED BY <2>2, <2>6, <2>7, <2>8, <2>9, OwnedByHolder
<1>5. CASE VerifyCandidate(p)
  <2>1. lock = p BY <1>5 DEF OneHolder, Holding, VerifyCandidate
  <2>2. Alone(p)' 
    <3>1. \A q \in Proc \ {p} : pc'[q] = pc[q] BY <1>5 DEF VerifyCandidate
    <3> QED BY <2>1, <3>1, HolderIsAlone
  <2>3. OwnedBy(p) /\ txn[p] \in Txn \cup {None} BY DEF Owned
  <2>4. SetStage(txn[p], "candidate-verified") /\ HasJournal(txn[p]) BY <1>5, <2>3 DEF VerifyCandidate
  <2>5. journal' \in Journals /\ journal'.txn = txn[p] /\ journal'.stage = "candidate-verified"
    BY <2>4, StageSet
  <2>6. \A t \in Txn : Owed(t) /\ Named(t) => Named(t)' \/ Contains(remote, t)
    BY <1>5, <2>4, <2>5 DEF VerifyCandidate
  <2>7. Commits'
    <3>1. UNCHANGED <<history, content, local, remote, plan>> BY <1>5 DEF VerifyCandidate
    <3> HIDE DEF KernelInv, CommonInv, Commits, Owed, Named, Contains
    <3> QED BY <2>6, <3>1, RecordsRename
  <2>8. KernelLabels' BY <1>5 DEF VerifyCandidate
  <2>9. Records' BY <1>5, <2>3, <2>4, <2>5 DEF VerifyCandidate
  <2>10. OwnedBy(p)' BY <1>5, <2>3, <2>4, <2>5 DEF VerifyCandidate
  <2> QED BY <2>2, <2>7, <2>8, <2>9, <2>10, OwnedByHolder
<1>6. CASE CreateCommit(p)
  <2>1. lock = p BY <1>6 DEF OneHolder, Holding, CreateCommit
  <2>2. Alone(p)' 
    <3>1. \A q \in Proc \ {p} : pc'[q] = pc[q] BY <1>6 DEF CreateCommit
    <3> QED BY <2>1, <3>1, HolderIsAlone
  <2>3. OwnedBy(p) /\ txn[p] \in Txn \cup {None} BY DEF Owned
  <2> DEFINE t == txn[p]
  <2>4. HasJournal(t) /\ journal \in Journals /\ dirty = {t} /\ t \in Txn /\ t \notin history[local]
    BY <1>6, <2>3 DEF CreateCommit
  <2>5. journal' \in Journals /\ journal'.txn = t /\ journal'.stage = "commit-created"
    BY <1>6, <2>4 DEF CreateCommit
  <2>6. history' = [history EXCEPT ![t] = history[plan[t].base] \cup {t}]
        /\ content' = [content EXCEPT ![t] = {t}] /\ history[t] = {}
        /\ UNCHANGED <<local, remote, plan, dirty, pending, txn, target, back>> /\ pc[p] = "verified"
        /\ pc' = [pc EXCEPT ![p] = "created"]
    BY <1>6, <2>4 DEF CreateCommit
  <2>7. \A u \in Txn : Named(u) <=> Named(u)' BY <2>4, <2>5, <2>6
  <2>8. Exists(local) /\ local # t
    <3>1. local \in Refs OBVIOUS
    <3> QED BY <3>1, <2>6 DEF Graph
  <2>9. history'[local] = history[local] BY <2>6, <2>8
  <2>10. \A u \in Txn : Contains(remote, u) => Contains(remote, u)' BY <2>6
  <2>11. NoLostCommit' BY <2>6, <2>7, <2>9, <2>10
  <2>12. CommitCarriesOneEvent' BY <2>4, <2>6
  <2>13. KernelLabels' BY <2>6
  <2>14. Records' BY <2>4, <2>5, <2>6, <2>9
  <2>15. OwnedBy(p)' BY <2>3, <2>4, <2>5, <2>6, <2>9
  <2> QED BY <2>2, <2>11, <2>12, <2>13, <2>14, <2>15, OwnedByHolder
<1>7. CASE AdvanceRef(p)
  <2>1. lock = p BY <1>7 DEF OneHolder, Holding, AdvanceRef
  <2>2. Alone(p)' 
    <3>1. \A q \in Proc \ {p} : pc'[q] = pc[q] BY <1>7 DEF AdvanceRef
    <3> QED BY <2>1, <3>1, HolderIsAlone
  <2>3. OwnedBy(p) /\ txn[p] \in Txn \cup {None} BY DEF Owned
  <2> DEFINE t == txn[p]
  <2>4. HasJournal(t) /\ dirty = {t} /\ t \in Txn /\ Exists(t) /\ content[t] = {t} /\ pending = None
    BY <1>7, <2>3 DEF AdvanceRef
  <2>5. local' = t /\ dirty' = {} /\ pc' = [pc EXCEPT ![p] = "advanced"] /\ pc[p] = "created"
        /\ UNCHANGED <<history, content, remote, plan, journal, pending, regs>>
    BY <1>7, <2>4 DEF AdvanceRef
  <2>6. history[t] = history[local] \cup {t} BY <1>7, <2>4 DEF Planned, AdvanceRef
  <2>7. ASSUME NEW u \in Txn, Owed(u)' PROVE Contains(remote, u)' \/ Named(u)'
    <3>1. CASE u = t BY <3>1, <2>4, <2>5
    <3>2. CASE u # t
      <4>1. Owed(u) BY <3>2, <2>5, <2>6, <2>7
      <4> QED BY <4>1, <2>5
    <3> QED BY <3>1, <3>2
  <2>8. NoLostCommit' BY <2>7
  <2>9. CommitCarriesOneEvent' BY <2>5
  <2>10. KernelLabels' BY <2>5
  <2>11. Records' BY <2>4, <2>5
  <2>12. OwnedBy(p)' BY <2>3, <2>4, <2>5
  <2> QED BY <2>2, <2>8, <2>9, <2>10, <2>11, <2>12, OwnedByHolder
<1>8. CASE RefOutcomeUnknown(p)
  <2>1. lock = p BY <1>8 DEF OneHolder, Holding, RefOutcomeUnknown
  <2>2. Alone(p)' 
    <3>1. \A q \in Proc \ {p} : pc'[q] = pc[q] BY <1>8 DEF RefOutcomeUnknown
    <3> QED BY <2>1, <3>1, HolderIsAlone
  <2>3. OwnedBy(p) /\ txn[p] \in Txn \cup {None} BY DEF Owned
  <2>4. Commits'
    <3>1. UNCHANGED <<history, content, local, remote, plan, records>> BY <1>8 DEF RefOutcomeUnknown
    <3> HIDE DEF KernelInv, CommonInv, Commits, Owed, Named, Contains
    <3> QED BY <3>1, RecordsStay
  <2>5. KernelLabels' BY <1>8 DEF RefOutcomeUnknown
  <2>6. Records' BY <1>8, <2>3 DEF RefOutcomeUnknown
  <2>7. OwnedBy(p)' BY <1>8, <2>3 DEF RefOutcomeUnknown
  <2> QED BY <2>2, <2>4, <2>5, <2>6, <2>7, OwnedByHolder
<1>9. CASE RecordAdvanced(p)
  <2>1. lock = p BY <1>9 DEF OneHolder, Holding, RecordAdvanced
  <2>2. Alone(p)' 
    <3>1. \A q \in Proc \ {p} : pc'[q] = pc[q] BY <1>9 DEF RecordAdvanced
    <3> QED BY <2>1, <3>1, HolderIsAlone
  <2>3. OwnedBy(p) /\ txn[p] \in Txn \cup {None} BY DEF Owned
  <2>4. SetStage(txn[p], "ref-advanced") /\ HasJournal(txn[p]) BY <1>9, <2>3 DEF RecordAdvanced
  <2>5. journal' \in Journals /\ journal'.txn = txn[p] /\ journal'.stage = "ref-advanced"
    BY <2>4, StageSet
  <2>6. \A t \in Txn : Owed(t) /\ Named(t) => Named(t)' \/ Contains(remote, t)
    BY <1>9, <2>4, <2>5 DEF RecordAdvanced
  <2>7. Commits'
    <3>1. UNCHANGED <<history, content, local, remote, plan>> BY <1>9 DEF RecordAdvanced
    <3> HIDE DEF KernelInv, CommonInv, Commits, Owed, Named, Contains
    <3> QED BY <2>6, <3>1, RecordsRename
  <2>8. KernelLabels' BY <1>9 DEF RecordAdvanced
  <2>9. Records' BY <1>9, <2>3, <2>4, <2>5 DEF RecordAdvanced
  <2>10. OwnedBy(p)' BY <1>9, <2>3, <2>4, <2>5 DEF RecordAdvanced
  <2> QED BY <2>2, <2>7, <2>8, <2>9, <2>10, OwnedByHolder
<1> HIDE DEF KernelInv, KernelRest
<1> QED BY <1>1, <1>2, <1>3, <1>4, <1>5, <1>6, <1>7, <1>8, <1>9 DEF Execute

\* The unwinding restores a clean preimage.
LEMMA KernelUnwind ==
    ASSUME Kind = "kernel", KernelInv, NEW p \in Proc, Unwind(p) PROVE KernelRest'
<1>1. CASE FailBeforeCommit(p)
  <2>1. lock = p BY <1>1 DEF OneHolder, Holding, FailBeforeCommit
  <2>2. Alone(p)' 
    <3>1. \A q \in Proc \ {p} : pc'[q] = pc[q] BY <1>1 DEF FailBeforeCommit
    <3> QED BY <2>1, <3>1, HolderIsAlone
  <2>3. OwnedBy(p) /\ txn[p] \in Txn \cup {None} BY DEF Owned
  <2>4. SetStage(txn[p], "restoring") /\ HasJournal(txn[p]) BY <1>1, <2>3 DEF FailBeforeCommit
  <2>5. journal' \in Journals /\ journal'.txn = txn[p] /\ journal'.stage = "restoring"
    BY <2>4, StageSet
  <2>6. \A t \in Txn : Owed(t) /\ Named(t) => Named(t)' \/ Contains(remote, t)
    BY <1>1, <2>4, <2>5 DEF FailBeforeCommit
  <2>7. Commits'
    <3>1. UNCHANGED <<history, content, local, remote, plan>> BY <1>1 DEF FailBeforeCommit
    <3> HIDE DEF KernelInv, CommonInv, Commits, Owed, Named, Contains
    <3> QED BY <2>6, <3>1, RecordsRename
  <2>8. KernelLabels' BY <1>1 DEF FailBeforeCommit
  <2>9. Records' BY <1>1, <2>3, <2>4, <2>5 DEF FailBeforeCommit
  <2>10. OwnedBy(p)' 
    <3>1. txn[p] \notin history[local] BY <1>1, <2>3 DEF Graph, FailBeforeCommit
    <3>2. pc'[p] = "unwinding" /\ txn'[p] = txn[p] /\ pending' = None /\ local' = local /\ history' = history
      BY <1>1, <2>3 DEF FailBeforeCommit
    <3> QED BY <3>1, <3>2, <2>5
  <2> QED BY <2>2, <2>7, <2>8, <2>9, <2>10, OwnedByHolder
<1>2. CASE Restore(p, "unwinding", "unwound")
  <2>1. lock = p BY <1>2 DEF OneHolder, Holding, Restore
  <2>2. Alone(p)' 
    <3>1. \A q \in Proc \ {p} : pc'[q] = pc[q] BY <1>2 DEF Restore
    <3> QED BY <2>1, <3>1, HolderIsAlone
  <2>3. OwnedBy(p) /\ txn[p] \in Txn \cup {None} BY DEF Owned
  <2>4. Commits'
    <3>1. UNCHANGED <<history, content, local, remote, plan, records>> BY <1>2 DEF Restore
    <3> HIDE DEF KernelInv, CommonInv, Commits, Owed, Named, Contains
    <3> QED BY <3>1, RecordsStay
  <2>5. KernelLabels' BY <1>2 DEF Restore
  <2>6. Records' BY <1>2, <2>3 DEF Restore
  <2>7. OwnedBy(p)' BY <1>2, <2>3 DEF Restore
  <2> QED BY <2>2, <2>4, <2>5, <2>6, <2>7, OwnedByHolder
<1>3. CASE RestoreFails(p, "unwinding")
  <2>1. lock = p BY <1>3 DEF OneHolder, Holding, RestoreFails
  <2>2. Alone(p)' 
    <3>1. \A q \in Proc \ {p} : pc'[q] = pc[q] BY <1>3 DEF RestoreFails
    <3> QED BY <2>1, <3>1, HolderIsAlone
  <2>3. OwnedBy(p) /\ txn[p] \in Txn \cup {None} BY DEF Owned
  <2>4. SetStage(txn[p], "rollback-failed") /\ HasJournal(txn[p]) BY <1>3, <2>3 DEF RestoreFails
  <2>5. journal' \in Journals /\ journal'.txn = txn[p] /\ journal'.stage = "rollback-failed"
    BY <2>4, StageSet
  <2>6. \A t \in Txn : Owed(t) /\ Named(t) => Named(t)' \/ Contains(remote, t)
    BY <1>3, <2>4, <2>5 DEF RestoreFails
  <2>7. Commits'
    <3>1. UNCHANGED <<history, content, local, remote, plan>> BY <1>3 DEF RestoreFails
    <3> HIDE DEF KernelInv, CommonInv, Commits, Owed, Named, Contains
    <3> QED BY <2>6, <3>1, RecordsRename
  <2>8. KernelLabels' BY <1>3 DEF RestoreFails
  <2>9. Records' BY <1>3, <2>3, <2>4, <2>5 DEF RestoreFails
  <2>10. OwnedBy(p)' BY <1>3, <2>3, <2>4, <2>5 DEF RestoreFails
  <2> QED BY <2>2, <2>7, <2>8, <2>9, <2>10, OwnedByHolder
<1>4. CASE ClearRestored(p, "unwound")
  <2>1. lock = p BY <1>4 DEF OneHolder, Holding, ClearRestored
  <2>2. Alone(p)' 
    <3>1. \A q \in Proc \ {p} : pc'[q] = pc[q] BY <1>4 DEF ClearRestored
    <3> QED BY <2>1, <3>1, HolderIsAlone
  <2>3. OwnedBy(p) /\ txn[p] \in Txn \cup {None} BY DEF Owned
  <2>4. \A t \in Txn : Owed(t) /\ Named(t) => Named(t)' \/ Contains(remote, t)
    BY <1>4, <2>3 DEF ClearRestored
  <2>5. Commits'
    <3>1. UNCHANGED <<history, content, local, remote, plan>> BY <1>4 DEF ClearRestored
    <3> HIDE DEF KernelInv, CommonInv, Commits, Owed, Named, Contains
    <3> QED BY <2>4, <3>1, RecordsRename
  <2>6. KernelLabels' BY <1>4 DEF ClearRestored
  <2>7. Records' BY <1>4, <2>3 DEF ClearRestored
  <2>8. OwnedBy(p)' BY <1>4, <2>3 DEF ClearRestored
  <2> QED BY <2>2, <2>5, <2>6, <2>7, <2>8, OwnedByHolder
<1> HIDE DEF KernelInv, KernelRest
<1> QED BY <1>1, <1>2, <1>3, <1>4 DEF Unwind
=============================================================================
