---------------------- MODULE PublicationKernelProofs ----------------------
(***************************************************************************)
(* The safety of the publication transaction of a Goal, whose callers use  *)
(* the exported functions directly (Kind = "kernel"): the steps from the   *)
(* commit on and of the recoveries, the theorems, and the refinement of    *)
(* PublicationContract.                                                    *)
(***************************************************************************)
EXTENDS PublicationProofs

USE ConstantsAssumption, NoneAssumption
    DEF Commit, Kinds, Outcomes, BeforeRef, AfterRef, Stages, Sources, Plans, Journals, Markers,
        Pushes, Owning, SyncLabels, Waiting, Labels, NamesTxn, SyncingLabels, Sealed,
        commits, net, refs, records, regs, vars,
        Exists, Contains, Refs, Owed, Mode, Leased, Executing, Uncreated, OnBranchLabels,
        PublishingLabels, Goto, Release, ResetRegisters, Marker, HistoryInv, ProcessInv, CommonInv,
        TypeInv, TypeOK, SealedInv, Executors, Journaled, OnBranchInv,
        Outside, Records, Commits, KernelRest, KernelInv, KernelLabels, Recorded, DirtyIsJournaled,
        CommitCarriesOneEvent, NoLostCommit, OwnedBy, Alone, HasJournal, ClearJournal, Named

\* The push: the commit is named until the remote has it.
LEMMA KernelPublish ==
    ASSUME Kind = "kernel", KernelInv, NEW p \in Proc, Publish(p) PROVE KernelRest'
<1>1. CASE FailAfterRef(p)
  <2>1. lock = p BY <1>1 DEF OneHolder, Holding, FailAfterRef
  <2>2. Alone(p)' 
    <3>1. \A q \in Proc \ {p} : pc'[q] = pc[q] BY <1>1 DEF FailAfterRef
    <3> QED BY <2>1, <3>1, HolderIsAlone
  <2>3. OwnedBy(p) /\ txn[p] \in Txn \cup {None} BY DEF Owned
  <2>4. Commits'
    <3>1. UNCHANGED <<history, content, local, remote, plan, records>> BY <1>1 DEF FailAfterRef
    <3> HIDE DEF KernelInv, CommonInv, Commits, Owed, Named, Contains
    <3> QED BY <3>1, RecordsStay
  <2>5. KernelLabels' BY <1>1 DEF FailAfterRef
  <2>6. Records' BY <1>1, <2>3 DEF FailAfterRef
  <2>7. OwnedBy(p)' BY <1>1, <2>3 DEF FailAfterRef
  <2> QED BY <2>2, <2>4, <2>5, <2>6, <2>7, OwnedByHolder
<1>2. CASE MarkCommitted(p)
  <2>1. lock = p BY <1>2 DEF OneHolder, Holding, MarkCommitted
  <2>2. Alone(p)' 
    <3>1. \A q \in Proc \ {p} : pc'[q] = pc[q] BY <1>2 DEF MarkCommitted
    <3> QED BY <2>1, <3>1, HolderIsAlone
  <2>3. OwnedBy(p) /\ txn[p] \in Txn \cup {None} BY DEF Owned
  <2>4. SetStage(txn[p], "committed") /\ HasJournal(txn[p]) BY <1>2, <2>3 DEF MarkCommitted
  <2>5. journal' \in Journals /\ journal'.txn = txn[p] /\ journal'.stage = "committed"
    BY <2>4, StageSet
  <2>6. \A t \in Txn : Owed(t) /\ Named(t) => Named(t)' \/ Contains(remote, t)
    BY <1>2, <2>4, <2>5 DEF MarkCommitted
  <2>7. Commits'
    <3>1. UNCHANGED <<history, content, local, remote, plan>> BY <1>2 DEF MarkCommitted
    <3> HIDE DEF KernelInv, CommonInv, Commits, Owed, Named, Contains
    <3> QED BY <2>6, <3>1, RecordsRename
  <2>8. KernelLabels' BY <1>2 DEF MarkCommitted
  <2>9. Records' BY <1>2, <2>3, <2>4, <2>5 DEF MarkCommitted
  <2>10. OwnedBy(p)' BY <1>2, <2>3, <2>4, <2>5 DEF MarkCommitted
  <2> QED BY <2>2, <2>7, <2>8, <2>9, <2>10, OwnedByHolder
<1>3. CASE StartPush(p)
  <2>1. lock = p BY <1>3 DEF OneHolder, Holding, StartPush
  <2>2. Alone(p)' 
    <3>1. \A q \in Proc \ {p} : pc'[q] = pc[q] BY <1>3 DEF StartPush
    <3> QED BY <2>1, <3>1, HolderIsAlone
  <2>3. OwnedBy(p) /\ txn[p] \in Txn \cup {None} BY DEF Owned
  <2>4. HasJournal(txn[p]) /\ journal \in Journals BY <1>3, <2>3 DEF StartPush
  <2>5. journal' \in Journals /\ journal'.txn = txn[p]
    <3> DEFINE o == "transport-indeterminate"
               s == "publishing"
    <3>1. o \in Outcomes /\ s \in Stages OBVIOUS
    <3>2. journal' = [journal EXCEPT !.outcome = o, !.stage = s] BY <1>3, <2>4 DEF StartPush
    <3> QED BY <2>4, <3>1, <3>2, OutcomeSet
  <2>6. \A t \in Txn : Owed(t) /\ Named(t) => Named(t)' \/ Contains(remote, t)
    BY <1>3, <2>4, <2>5 DEF StartPush
  <2>7. Commits'
    <3>1. UNCHANGED <<history, content, local, remote, plan>> BY <1>3 DEF StartPush
    <3> HIDE DEF KernelInv, CommonInv, Commits, Owed, Named, Contains
    <3> QED BY <2>6, <3>1, RecordsRename
  <2>8. KernelLabels' BY <1>3 DEF StartPush
  <2>9. Records' BY <1>3, <2>3, <2>4, <2>5 DEF StartPush
  <2>10. pc'[p] = "pushing" /\ txn'[p] = txn[p] /\ pending' = None /\ dirty' = {}
    BY <1>3, <2>3 DEF StartPush
  <2>11. OwnedBy(p)' BY <2>5, <2>10
  <2> QED BY <2>2, <2>7, <2>8, <2>9, <2>11, OwnedByHolder
<1>4. CASE PushLands(p)
  <2>1. lock = p BY <1>4 DEF OneHolder, Holding, PushLands, Lands, Accepts
  <2>2. Alone(p)' 
    <3>1. \A q \in Proc \ {p} : pc'[q] = pc[q] BY <1>4 DEF PushLands, Lands, Accepts
    <3> QED BY <2>1, <3>1, HolderIsAlone
  <2>3. OwnedBy(p) /\ txn[p] \in Txn \cup {None} BY DEF Owned
  <2>4. \A c \in Commit : Contains(remote, c) => Contains(remote, c)'
    <3>1. pc'[p] # pc[p] BY <1>4 DEF PushLands, Lands, Accepts
    <3>2. Next BY <1>4 DEF Next, Proceed, Publish
    <3> QED BY <3>1, <3>2, RemoteStep
  <2>5. Commits' BY <1>4, <2>4, CommitsGrow DEF PushLands, Lands, Accepts
  <2>6. KernelLabels' BY <1>4 DEF PushLands, Lands, Accepts
  <2>7. Records' BY <1>4 DEF PushLands, Lands, Accepts
  <2>8. OwnedBy(p)' BY <1>4, <2>3, <2>4 DEF Graph, PushLands, Lands, Accepts
  <2> QED BY <2>2, <2>5, <2>6, <2>7, <2>8, OwnedByHolder
<1>5. CASE PushVanishes(p)
  <2>1. lock = p BY <1>5 DEF OneHolder, Holding, PushVanishes, Vanishes, Accepts
  <2>2. Alone(p)' 
    <3>1. \A q \in Proc \ {p} : pc'[q] = pc[q] BY <1>5 DEF PushVanishes, Vanishes, Accepts
    <3> QED BY <2>1, <3>1, HolderIsAlone
  <2>3. OwnedBy(p) /\ txn[p] \in Txn \cup {None} BY DEF Owned
  <2>4. \A c \in Commit : Contains(remote, c) => Contains(remote, c)'
    <3>1. pc'[p] # pc[p] BY <1>5 DEF PushVanishes, Vanishes, Accepts
    <3>2. Next BY <1>5 DEF Next, Proceed, Publish
    <3> QED BY <3>1, <3>2, RemoteStep
  <2>5. Commits' BY <1>5, <2>4, CommitsGrow DEF PushVanishes, Vanishes, Accepts
  <2>6. KernelLabels' BY <1>5 DEF PushVanishes, Vanishes, Accepts
  <2>7. Records' BY <1>5 DEF PushVanishes, Vanishes, Accepts
  <2>8. OwnedBy(p)' BY <1>5, <2>3, <2>4 DEF Graph, PushVanishes, Vanishes, Accepts
  <2> QED BY <2>2, <2>5, <2>6, <2>7, <2>8, OwnedByHolder
<1>6. CASE PushRejected(p)
  <2>1. lock = p BY <1>6 DEF OneHolder, Holding, PushRejected
  <2>2. Alone(p)' 
    <3>1. \A q \in Proc \ {p} : pc'[q] = pc[q] BY <1>6 DEF PushRejected
    <3> QED BY <2>1, <3>1, HolderIsAlone
  <2>3. OwnedBy(p) /\ txn[p] \in Txn \cup {None} BY DEF Owned
  <2>4. Commits'
    <3>1. UNCHANGED <<history, content, local, remote, plan, records>> BY <1>6 DEF PushRejected
    <3> HIDE DEF KernelInv, CommonInv, Commits, Owed, Named, Contains
    <3> QED BY <3>1, RecordsStay
  <2>5. KernelLabels' BY <1>6 DEF PushRejected
  <2>6. Records' BY <1>6, <2>3 DEF PushRejected
  <2>7. OwnedBy(p)' BY <1>6, <2>3 DEF PushRejected
  <2> QED BY <2>2, <2>4, <2>5, <2>6, <2>7, OwnedByHolder
<1>7. CASE NoteFailure(p)
  <2>1. lock = p BY <1>7 DEF OneHolder, Holding, NoteFailure
  <2>2. Alone(p)' 
    <3>1. \A q \in Proc \ {p} : pc'[q] = pc[q] BY <1>7 DEF NoteFailure
    <3> QED BY <2>1, <3>1, HolderIsAlone
  <2>3. OwnedBy(p) /\ txn[p] \in Txn \cup {None} BY DEF Owned
  <2>4. HasJournal(txn[p]) /\ journal \in Journals BY <1>7, <2>3 DEF NoteFailure
  <2>5. journal' \in Journals /\ journal'.txn = txn[p]
    <3> DEFINE o == outcome[p]
               s == IF outcome[p] = "rejected" THEN "push-rejected" ELSE "push-indeterminate"
    <3>1. o \in Outcomes /\ s \in Stages OBVIOUS
    <3>2. journal' = [journal EXCEPT !.outcome = o, !.stage = s] BY <1>7, <2>4 DEF NoteFailure
    <3>3. journal.txn = txn[p] BY <2>4 DEF HasJournal
    <3> HIDE DEF KernelInv, CommonInv, Journals, Stages, Outcomes, o, s
    <3> QED BY <2>4, <3>1, <3>2, <3>3, OutcomeSet
  <2>6. \A t \in Txn : Owed(t) /\ Named(t) => Named(t)' \/ Contains(remote, t)
    BY <1>7, <2>4, <2>5 DEF NoteFailure
  <2>7. Commits'
    <3>1. UNCHANGED <<history, content, local, remote, plan>> BY <1>7 DEF NoteFailure
    <3> HIDE DEF KernelInv, CommonInv, Commits, Owed, Named, Contains
    <3> QED BY <2>6, <3>1, RecordsRename
  <2>8. KernelLabels' BY <1>7 DEF NoteFailure
  <2>9. Records' BY <1>7, <2>3, <2>4, <2>5 DEF NoteFailure
  <2>10. pc'[p] = "noted" /\ txn'[p] = txn[p] /\ pending' = None /\ dirty' = {}
    BY <1>7, <2>3 DEF NoteFailure
  <2>11. OwnedBy(p)' BY <2>5, <2>10
  <2> QED BY <2>2, <2>7, <2>8, <2>9, <2>11, OwnedByHolder
<1>8. CASE Retain(p)
  <2>1. lock = p BY <1>8 DEF OneHolder, Holding, Retain
  <2>2. Alone(p)' 
    <3>1. \A q \in Proc \ {p} : pc'[q] = pc[q] BY <1>8 DEF Retain
    <3> QED BY <2>1, <3>1, HolderIsAlone
  <2>3. OwnedBy(p) /\ txn[p] \in Txn \cup {None} BY DEF Owned
  <2>4. pending' \in Markers /\ pending'.txn = txn[p] /\ journal' = journal
    BY <1>8, <2>3 DEF Retain
  <2>5. \A t \in Txn : Owed(t) /\ Named(t) => Named(t)' \/ Contains(remote, t)
    BY <1>8, <2>3, <2>4 DEF Retain
  <2>6. Commits'
    <3>1. UNCHANGED <<history, content, local, remote, plan>> BY <1>8 DEF Retain
    <3> HIDE DEF KernelInv, CommonInv, Commits, Owed, Named, Contains
    <3> QED BY <2>5, <3>1, RecordsRename
  <2>7. KernelLabels' BY <1>8 DEF Retain
  <2>8. Records' BY <1>8, <2>3, <2>4 DEF Retain
  <2>9. OwnedBy(p)' 
    <3>1. pc'[p] = "retaining" /\ txn'[p] = txn[p] /\ dirty' = {} /\ HasJournal(txn[p])
      BY <1>8, <2>3 DEF Retain
    <3> QED BY <3>1, <2>4
  <2> QED BY <2>2, <2>6, <2>7, <2>8, <2>9, OwnedByHolder
<1>9. CASE ClearRetained(p)
  <2>1. lock = p BY <1>9 DEF OneHolder, Holding, ClearRetained
  <2>2. Alone(p)' 
    <3>1. \A q \in Proc \ {p} : pc'[q] = pc[q] BY <1>9 DEF ClearRetained
    <3> QED BY <2>1, <3>1, HolderIsAlone
  <2>3. OwnedBy(p) /\ txn[p] \in Txn \cup {None} BY DEF Owned
  <2>4. \A t \in Txn : Owed(t) /\ Named(t) => Named(t)' \/ Contains(remote, t)
    BY <1>9, <2>3 DEF ClearRetained
  <2>5. Commits'
    <3>1. UNCHANGED <<history, content, local, remote, plan>> BY <1>9 DEF ClearRetained
    <3> HIDE DEF KernelInv, CommonInv, Commits, Owed, Named, Contains
    <3> QED BY <2>4, <3>1, RecordsRename
  <2>6. KernelLabels' BY <1>9 DEF ClearRetained
  <2>7. Records' BY <1>9, <2>3 DEF ClearRetained
  <2>8. OwnedBy(p)' BY <1>9, <2>3 DEF ClearRetained
  <2> QED BY <2>2, <2>5, <2>6, <2>7, <2>8, OwnedByHolder
<1>10. CASE MarkPushed(p)
  <2>1. lock = p BY <1>10 DEF OneHolder, Holding, MarkPushed
  <2>2. Alone(p)' 
    <3>1. \A q \in Proc \ {p} : pc'[q] = pc[q] BY <1>10 DEF MarkPushed
    <3> QED BY <2>1, <3>1, HolderIsAlone
  <2>3. OwnedBy(p) /\ txn[p] \in Txn \cup {None} BY DEF Owned
  <2>4. SetStage(txn[p], "pushed") /\ HasJournal(txn[p]) BY <1>10, <2>3 DEF MarkPushed
  <2>5. journal' \in Journals /\ journal'.txn = txn[p] /\ journal'.stage = "pushed"
    BY <2>4, StageSet
  <2>6. \A t \in Txn : Owed(t) /\ Named(t) => Named(t)' \/ Contains(remote, t)
    BY <1>10, <2>4, <2>5 DEF MarkPushed
  <2>7. Commits'
    <3>1. UNCHANGED <<history, content, local, remote, plan>> BY <1>10 DEF MarkPushed
    <3> HIDE DEF KernelInv, CommonInv, Commits, Owed, Named, Contains
    <3> QED BY <2>6, <3>1, RecordsRename
  <2>8. KernelLabels' BY <1>10 DEF MarkPushed
  <2>9. Records' BY <1>10, <2>3, <2>4, <2>5 DEF MarkPushed
  <2>10. OwnedBy(p)' BY <1>10, <2>3, <2>4, <2>5 DEF MarkPushed
  <2> QED BY <2>2, <2>7, <2>8, <2>9, <2>10, OwnedByHolder
<1>11. CASE Finish(p)
  <2>1. lock = p BY <1>11 DEF OneHolder, Holding, Finish, UnlockedCleanup
  <2>2. Alone(p)' 
    <3>1. \A q \in Proc \ {p} : pc'[q] = pc[q] BY <1>11 DEF Finish, UnlockedCleanup
    <3> QED BY <2>1, <3>1, HolderIsAlone
  <2>3. OwnedBy(p) /\ txn[p] \in Txn \cup {None} BY DEF Owned
  <2>4. \A t \in Txn : Owed(t) /\ Named(t) => Named(t)' \/ Contains(remote, t)
    BY <1>11, <2>3 DEF Finish, UnlockedCleanup
  <2>5. Commits'
    <3>1. UNCHANGED <<history, content, local, remote, plan>> BY <1>11 DEF Finish, UnlockedCleanup
    <3> HIDE DEF KernelInv, CommonInv, Commits, Owed, Named, Contains
    <3> QED BY <2>4, <3>1, RecordsRename
  <2>6. KernelLabels' BY <1>11 DEF Finish, UnlockedCleanup
  <2>7. Records' BY <1>11, <2>3 DEF Finish, UnlockedCleanup
  <2>8. OwnedBy(p)' BY <1>11, <2>3 DEF Finish, UnlockedCleanup
  <2> QED BY <2>2, <2>5, <2>6, <2>7, <2>8, OwnedByHolder
<1>12. CASE ClearMarker(p, "cleanMarker", "cleanJournal")
    BY <1>12 DEF ClearMarker
<1>13. CASE CleanupJournal(p)
    BY <1>13 DEF CleanupJournal
<1> HIDE DEF KernelInv, KernelRest
<1> QED BY <1>1, <1>2, <1>3, <1>4, <1>5, <1>6, <1>7, <1>8, <1>9, <1>10, <1>11, <1>12, <1>13 DEF Publish

\* A reader replaces the journal by a marker for the same commit.
LEMMA KernelPromote ==
    ASSUME Kind = "kernel", KernelInv, NEW p \in Proc, Promote(p) PROVE KernelRest'
<1>1. CASE DropJournal(p)
  <2>1. lock = p BY <1>1 DEF OneHolder, Holding, DropJournal, MayPromote, PromotingReads, PostCommitJournal, RefAdvanced, NothingOwed
  <2>2. Alone(p)' 
    <3>1. \A q \in Proc \ {p} : pc'[q] = pc[q] BY <1>1 DEF DropJournal, MayPromote, PromotingReads, PostCommitJournal, RefAdvanced, NothingOwed
    <3> QED BY <2>1, <3>1, HolderIsAlone
  <2>3. OwnedBy(p) /\ txn[p] \in Txn \cup {None} BY DEF Owned
  <2>4. \A t \in Txn : Owed(t) /\ Named(t) => Named(t)' \/ Contains(remote, t)
    BY <1>1, <2>3 DEF Graph, DropJournal, MayPromote, PromotingReads, PostCommitJournal, RefAdvanced, NothingOwed
  <2>5. Commits'
    <3>1. UNCHANGED <<history, content, local, remote, plan>> BY <1>1 DEF DropJournal, MayPromote, PromotingReads, PostCommitJournal, RefAdvanced, NothingOwed
    <3> HIDE DEF KernelInv, CommonInv, Commits, Owed, Named, Contains
    <3> QED BY <2>4, <3>1, RecordsRename
  <2>6. KernelLabels' BY <1>1 DEF DropJournal, MayPromote, PromotingReads, PostCommitJournal, RefAdvanced, NothingOwed
  <2>7. Records' BY <1>1, <2>3 DEF DropJournal, MayPromote, PromotingReads, PostCommitJournal, RefAdvanced, NothingOwed
  <2>8. OwnedBy(p)' BY <1>1, <2>3 DEF DropJournal, MayPromote, PromotingReads, PostCommitJournal, RefAdvanced, NothingOwed
  <2> QED BY <2>2, <2>5, <2>6, <2>7, <2>8, OwnedByHolder
<1>2. CASE StartPromotion(p)
  <2>1. lock = p BY <1>2 DEF OneHolder, Holding, StartPromotion, MayPromote, PromotingReads, PostCommitJournal, RefAdvanced, NothingOwed
  <2>2. Alone(p)' 
    <3>1. \A q \in Proc \ {p} : pc'[q] = pc[q] BY <1>2 DEF StartPromotion, MayPromote, PromotingReads, PostCommitJournal, RefAdvanced, NothingOwed
    <3> QED BY <2>1, <3>1, HolderIsAlone
  <2>3. OwnedBy(p) /\ txn[p] \in Txn \cup {None} BY DEF Owned
  <2>4. Commits'
    <3>1. UNCHANGED <<history, content, local, remote, plan, records>> BY <1>2 DEF StartPromotion, MayPromote, PromotingReads, PostCommitJournal, RefAdvanced, NothingOwed
    <3> HIDE DEF KernelInv, CommonInv, Commits, Owed, Named, Contains
    <3> QED BY <3>1, RecordsStay
  <2>5. KernelLabels' BY <1>2 DEF StartPromotion, MayPromote, PromotingReads, PostCommitJournal, RefAdvanced, NothingOwed
  <2>6. Records' BY <1>2, <2>3 DEF StartPromotion, MayPromote, PromotingReads, PostCommitJournal, RefAdvanced, NothingOwed
  <2>7. OwnedBy(p)' BY <1>2, <2>3 DEF StartPromotion, MayPromote, PromotingReads, PostCommitJournal, RefAdvanced, NothingOwed
  <2> QED BY <2>2, <2>4, <2>5, <2>6, <2>7, OwnedByHolder
<1>3. CASE PromoteMarker(p)
  <2>1. lock = p BY <1>3 DEF OneHolder, Holding, PromoteMarker
  <2>2. Alone(p)' 
    <3>1. \A q \in Proc \ {p} : pc'[q] = pc[q] BY <1>3 DEF PromoteMarker
    <3> QED BY <2>1, <3>1, HolderIsAlone
  <2>3. OwnedBy(p) /\ txn[p] \in Txn \cup {None} BY DEF Owned
  <2>4. pending' \in Markers /\ pending'.txn = target[p] /\ journal' = journal
    BY <1>3, <2>3 DEF PromoteMarker
  <2>5. \A t \in Txn : Owed(t) /\ Named(t) => Named(t)' \/ Contains(remote, t)
    BY <1>3, <2>3, <2>4 DEF PromoteMarker
  <2>6. Commits'
    <3>1. UNCHANGED <<history, content, local, remote, plan>> BY <1>3 DEF PromoteMarker
    <3> HIDE DEF KernelInv, CommonInv, Commits, Owed, Named, Contains
    <3> QED BY <2>5, <3>1, RecordsRename
  <2>7. KernelLabels' BY <1>3 DEF PromoteMarker
  <2>8. Records' BY <1>3, <2>3, <2>4 DEF PromoteMarker
  <2>9. OwnedBy(p)' 
    <3>1. pc'[p] = "promoted" /\ target'[p] = target[p] /\ dirty' = {} /\ HasJournal(target[p])
      BY <1>3, <2>3 DEF PromoteMarker
    <3> QED BY <3>1, <2>4
  <2> QED BY <2>2, <2>6, <2>7, <2>8, <2>9, OwnedByHolder
<1>4. CASE PromoteClear(p)
  <2>1. lock = p BY <1>4 DEF OneHolder, Holding, PromoteClear
  <2>2. Alone(p)' 
    <3>1. \A q \in Proc \ {p} : pc'[q] = pc[q] BY <1>4 DEF PromoteClear
    <3> QED BY <2>1, <3>1, HolderIsAlone
  <2>3. OwnedBy(p) /\ txn[p] \in Txn \cup {None} BY DEF Owned
  <2>4. \A t \in Txn : Owed(t) /\ Named(t) => Named(t)' \/ Contains(remote, t)
    BY <1>4, <2>3 DEF PromoteClear
  <2>5. Commits'
    <3>1. UNCHANGED <<history, content, local, remote, plan>> BY <1>4 DEF PromoteClear
    <3> HIDE DEF KernelInv, CommonInv, Commits, Owed, Named, Contains
    <3> QED BY <2>4, <3>1, RecordsRename
  <2>6. KernelLabels' BY <1>4 DEF PromoteClear
  <2>7. Records' BY <1>4, <2>3 DEF PromoteClear
  <2>8. OwnedBy(p)' BY <1>4, <2>3 DEF PromoteClear
  <2> QED BY <2>2, <2>5, <2>6, <2>7, <2>8, OwnedByHolder
<1> HIDE DEF KernelInv, KernelRest
<1> QED BY <1>1, <1>2, <1>3, <1>4 DEF Promote

\* Recovery checks again under the lock that the journal is before its commit.
LEMMA KernelRecover ==
    ASSUME Kind = "kernel", KernelInv, NEW p \in Proc, Recover(p) PROVE KernelRest'
<1>1. CASE RecoverLock(p)
  <2>1. SetStage(txn[p], "restoring") /\ HasJournal(txn[p]) BY <1>1 DEF RecoverLock, StillRecoverable
  <2>2. journal' \in Journals /\ journal'.txn = txn[p] /\ journal'.stage = "restoring"
    BY <2>1, StageSet
  <2>3. UNCHANGED <<refs, dirty, pending, plan>> /\ pc' = [pc EXCEPT ![p] = "restoring"]
        /\ lock = None /\ txn' = txn /\ local = plan[txn[p]].base /\ pc[p] = "recoverWaiting"
        /\ UNCHANGED regs
    BY <1>1 DEF RecoverLock, StillRecoverable
  <2>4. \A t \in Txn : Owed(t) /\ Named(t) => Named(t)' \/ Contains(remote, t)
    BY <2>1, <2>2, <2>3
  <2>5. Commits' BY <2>3, <2>4, RecordsRename
  <2>6. KernelLabels' BY <2>3
  <2>7. txn[p] \notin history[local] BY <2>3 DEF Planned
  <2>8. Records' BY <2>1, <2>2, <2>3, <2>7
  <2>9. \A q \in Proc : pc[q] \in Outside BY <2>3 DEF OneHolder, Holding
  <2>10. OwnedBy(p)' /\ Alone(p)' BY <2>2, <2>3, <2>7, <2>9
  <2> QED BY <2>5, <2>6, <2>8, <2>10, OwnedByHolder
<1>2. CASE RecoverLeave(p)
  <2>1. Commits'
    <3>1. UNCHANGED <<history, content, local, remote, plan, records>> BY <1>2 DEF RecoverLeave
    <3> HIDE DEF KernelInv, CommonInv, Commits, Owed, Named, Contains
    <3> QED BY <3>1, RecordsStay
  <2>2. Records' /\ KernelLabels' BY <1>2 DEF RecoverLeave
  <2>3. \A q \in Proc : pc[q] \in Outside BY <1>2 DEF OneHolder, Holding, RecoverLeave
  <2>4. \A q \in Proc : pc'[q] \in Outside \cup {"locked"} BY <1>2, <2>3 DEF RecoverLeave
  <2>5. Owned' BY <2>4 DEF Owned
  <2> QED BY <2>1, <2>2, <2>5
<1>3. CASE Restore(p, "restoring", "restored")
  <2>1. lock = p BY <1>3 DEF OneHolder, Holding, Restore
  <2>2. Alone(p)' 
    <3>1. \A q \in Proc \ {p} : pc'[q] = pc[q] BY <1>3 DEF Restore
    <3> QED BY <2>1, <3>1, HolderIsAlone
  <2>3. OwnedBy(p) /\ txn[p] \in Txn \cup {None} BY DEF Owned
  <2>4. Commits'
    <3>1. UNCHANGED <<history, content, local, remote, plan, records>> BY <1>3 DEF Restore
    <3> HIDE DEF KernelInv, CommonInv, Commits, Owed, Named, Contains
    <3> QED BY <3>1, RecordsStay
  <2>5. KernelLabels' BY <1>3 DEF Restore
  <2>6. Records' BY <1>3, <2>3 DEF Restore
  <2>7. OwnedBy(p)' BY <1>3, <2>3 DEF Restore
  <2> QED BY <2>2, <2>4, <2>5, <2>6, <2>7, OwnedByHolder
<1>4. CASE RestoreFails(p, "restoring")
  <2>1. lock = p BY <1>4 DEF OneHolder, Holding, RestoreFails
  <2>2. Alone(p)' 
    <3>1. \A q \in Proc \ {p} : pc'[q] = pc[q] BY <1>4 DEF RestoreFails
    <3> QED BY <2>1, <3>1, HolderIsAlone
  <2>3. OwnedBy(p) /\ txn[p] \in Txn \cup {None} BY DEF Owned
  <2>4. SetStage(txn[p], "rollback-failed") /\ HasJournal(txn[p]) BY <1>4, <2>3 DEF RestoreFails
  <2>5. journal' \in Journals /\ journal'.txn = txn[p] /\ journal'.stage = "rollback-failed"
    BY <2>4, StageSet
  <2>6. \A t \in Txn : Owed(t) /\ Named(t) => Named(t)' \/ Contains(remote, t)
    BY <1>4, <2>4, <2>5 DEF RestoreFails
  <2>7. Commits'
    <3>1. UNCHANGED <<history, content, local, remote, plan>> BY <1>4 DEF RestoreFails
    <3> HIDE DEF KernelInv, CommonInv, Commits, Owed, Named, Contains
    <3> QED BY <2>6, <3>1, RecordsRename
  <2>8. KernelLabels' BY <1>4 DEF RestoreFails
  <2>9. Records' BY <1>4, <2>3, <2>4, <2>5 DEF RestoreFails
  <2>10. OwnedBy(p)' BY <1>4, <2>3, <2>4, <2>5 DEF RestoreFails
  <2> QED BY <2>2, <2>7, <2>8, <2>9, <2>10, OwnedByHolder
<1>5. CASE ClearRestored(p, "restored")
  <2>1. lock = p BY <1>5 DEF OneHolder, Holding, ClearRestored
  <2>2. Alone(p)' 
    <3>1. \A q \in Proc \ {p} : pc'[q] = pc[q] BY <1>5 DEF ClearRestored
    <3> QED BY <2>1, <3>1, HolderIsAlone
  <2>3. OwnedBy(p) /\ txn[p] \in Txn \cup {None} BY DEF Owned
  <2>4. \A t \in Txn : Owed(t) /\ Named(t) => Named(t)' \/ Contains(remote, t)
    BY <1>5, <2>3 DEF ClearRestored
  <2>5. Commits'
    <3>1. UNCHANGED <<history, content, local, remote, plan>> BY <1>5 DEF ClearRestored
    <3> HIDE DEF KernelInv, CommonInv, Commits, Owed, Named, Contains
    <3> QED BY <2>4, <3>1, RecordsRename
  <2>6. KernelLabels' BY <1>5 DEF ClearRestored
  <2>7. Records' BY <1>5, <2>3 DEF ClearRestored
  <2>8. OwnedBy(p)' BY <1>5, <2>3 DEF ClearRestored
  <2> QED BY <2>2, <2>5, <2>6, <2>7, <2>8, OwnedByHolder
<1> HIDE DEF KernelInv, KernelRest
<1> QED BY <1>1, <1>2, <1>3, <1>4, <1>5 DEF Recover

\* The sync clears the marker and the journal once the remote has the commit.
LEMMA KernelSync ==
    ASSUME Kind = "kernel", KernelInv, NEW p \in Proc, Sync(p) PROVE KernelRest'
<1>1. CASE SyncLeaves(p)
  <2>1. lock = p BY <1>1 DEF OneHolder, Holding, SyncLeaves
  <2>2. Alone(p)' 
    <3>1. \A q \in Proc \ {p} : pc'[q] = pc[q] BY <1>1 DEF SyncLeaves
    <3> QED BY <2>1, <3>1, HolderIsAlone
  <2>3. OwnedBy(p) /\ txn[p] \in Txn \cup {None} BY DEF Owned
  <2>4. Commits'
    <3>1. UNCHANGED <<history, content, local, remote, plan, records>> BY <1>1 DEF SyncLeaves
    <3> HIDE DEF KernelInv, CommonInv, Commits, Owed, Named, Contains
    <3> QED BY <3>1, RecordsStay
  <2>5. KernelLabels' BY <1>1 DEF SyncLeaves
  <2>6. Records' BY <1>1, <2>3 DEF SyncLeaves
  <2>7. OwnedBy(p)' BY <1>1, <2>3 DEF SyncLeaves
  <2> QED BY <2>2, <2>4, <2>5, <2>6, <2>7, OwnedByHolder
<1>2. CASE SyncPrepare(p)
  <2>1. lock = p BY <1>2 DEF OneHolder, Holding, SyncPrepare
  <2>2. Alone(p)' 
    <3>1. \A q \in Proc \ {p} : pc'[q] = pc[q] BY <1>2 DEF SyncPrepare
    <3> QED BY <2>1, <3>1, HolderIsAlone
  <2>3. OwnedBy(p) /\ txn[p] \in Txn \cup {None} BY DEF Owned
  <2>4. pending' \in Markers /\ pending'.txn = pending.txn /\ journal' = journal
    BY <1>2, <2>3 DEF SyncPrepare
  <2>5. \A t \in Txn : Owed(t) /\ Named(t) => Named(t)' \/ Contains(remote, t)
    BY <1>2, <2>3, <2>4 DEF SyncPrepare
  <2>6. Commits'
    <3>1. UNCHANGED <<history, content, local, remote, plan>> BY <1>2 DEF SyncPrepare
    <3> HIDE DEF KernelInv, CommonInv, Commits, Owed, Named, Contains
    <3> QED BY <2>5, <3>1, RecordsRename
  <2>7. KernelLabels' BY <1>2 DEF SyncPrepare
  <2>8. Records' BY <1>2, <2>3, <2>4 DEF SyncPrepare
  <2>9. OwnedBy(p)' BY <1>2, <2>3, <2>4 DEF SyncPrepare
  <2> QED BY <2>2, <2>6, <2>7, <2>8, <2>9, OwnedByHolder
<1>3. CASE SyncLands(p)
  <2>1. lock = p BY <1>3 DEF OneHolder, Holding, SyncLands, Landed, SyncReceipt, Lands, Accepts
  <2>2. Alone(p)' 
    <3>1. \A q \in Proc \ {p} : pc'[q] = pc[q] BY <1>3 DEF SyncLands, Landed, SyncReceipt, Lands, Accepts
    <3> QED BY <2>1, <3>1, HolderIsAlone
  <2>3. OwnedBy(p) /\ txn[p] \in Txn \cup {None} BY DEF Owned
  <2>4. \A c \in Commit : Contains(remote, c) => Contains(remote, c)'
    <3>1. pc'[p] # pc[p] BY <1>3 DEF SyncLands, Landed, SyncReceipt, Lands, Accepts
    <3>2. Next BY <1>3 DEF Next, Proceed, Sync
    <3> QED BY <3>1, <3>2, RemoteStep
  <2>5. Commits' BY <1>3, <2>4, CommitsGrow DEF SyncLands, Landed, SyncReceipt, Lands, Accepts
  <2>6. KernelLabels' BY <1>3 DEF SyncLands, Landed, SyncReceipt, Lands, Accepts
  <2>7. Records' BY <1>3 DEF SyncLands, Landed, SyncReceipt, Lands, Accepts
  <2>8. OwnedBy(p)' BY <1>3, <2>3, <2>4 DEF Graph, SyncLands, Landed, SyncReceipt, Lands, Accepts
  <2> QED BY <2>2, <2>5, <2>6, <2>7, <2>8, OwnedByHolder
<1>4. CASE SyncVanishes(p)
  <2>1. lock = p BY <1>4 DEF OneHolder, Holding, SyncVanishes, Vanishes, Accepts
  <2>2. Alone(p)' 
    <3>1. \A q \in Proc \ {p} : pc'[q] = pc[q] BY <1>4 DEF SyncVanishes, Vanishes, Accepts
    <3> QED BY <2>1, <3>1, HolderIsAlone
  <2>3. OwnedBy(p) /\ txn[p] \in Txn \cup {None} BY DEF Owned
  <2>4. \A c \in Commit : Contains(remote, c) => Contains(remote, c)'
    <3>1. pc'[p] # pc[p] BY <1>4 DEF SyncVanishes, Vanishes, Accepts
    <3>2. Next BY <1>4 DEF Next, Proceed, Sync
    <3> QED BY <3>1, <3>2, RemoteStep
  <2>5. Commits' BY <1>4, <2>4, CommitsGrow DEF SyncVanishes, Vanishes, Accepts
  <2>6. KernelLabels' BY <1>4 DEF SyncVanishes, Vanishes, Accepts
  <2>7. Records' BY <1>4 DEF SyncVanishes, Vanishes, Accepts
  <2>8. OwnedBy(p)' BY <1>4, <2>3, <2>4 DEF Graph, SyncVanishes, Vanishes, Accepts
  <2> QED BY <2>2, <2>5, <2>6, <2>7, <2>8, OwnedByHolder
<1>5. CASE SyncRejected(p)
  <2>1. lock = p BY <1>5 DEF OneHolder, Holding, SyncRejected
  <2>2. Alone(p)' 
    <3>1. \A q \in Proc \ {p} : pc'[q] = pc[q] BY <1>5 DEF SyncRejected
    <3> QED BY <2>1, <3>1, HolderIsAlone
  <2>3. OwnedBy(p) /\ txn[p] \in Txn \cup {None} BY DEF Owned
  <2>4. Commits'
    <3>1. UNCHANGED <<history, content, local, remote, plan, records>> BY <1>5 DEF SyncRejected
    <3> HIDE DEF KernelInv, CommonInv, Commits, Owed, Named, Contains
    <3> QED BY <3>1, RecordsStay
  <2>5. KernelLabels' BY <1>5 DEF SyncRejected
  <2>6. Records' BY <1>5, <2>3 DEF SyncRejected
  <2>7. OwnedBy(p)' BY <1>5, <2>3 DEF SyncRejected
  <2> QED BY <2>2, <2>4, <2>5, <2>6, <2>7, OwnedByHolder
<1>6. CASE SyncRefused(p)
  <2>1. lock = p BY <1>6 DEF OneHolder, Holding, SyncRefused
  <2>2. Alone(p)' 
    <3>1. \A q \in Proc \ {p} : pc'[q] = pc[q] BY <1>6 DEF SyncRefused
    <3> QED BY <2>1, <3>1, HolderIsAlone
  <2>3. OwnedBy(p) /\ txn[p] \in Txn \cup {None} BY DEF Owned
  <2>4. pending' \in Markers /\ pending'.txn = txn[p] /\ journal' = journal
    BY <1>6, <2>3 DEF SyncRefused
  <2>5. \A t \in Txn : Owed(t) /\ Named(t) => Named(t)' \/ Contains(remote, t)
    BY <1>6, <2>3, <2>4 DEF SyncRefused
  <2>6. Commits'
    <3>1. UNCHANGED <<history, content, local, remote, plan>> BY <1>6 DEF SyncRefused
    <3> HIDE DEF KernelInv, CommonInv, Commits, Owed, Named, Contains
    <3> QED BY <2>5, <3>1, RecordsRename
  <2>7. KernelLabels' BY <1>6 DEF SyncRefused
  <2>8. Records' BY <1>6, <2>3, <2>4 DEF SyncRefused
  <2>9. OwnedBy(p)' BY <1>6, <2>3, <2>4 DEF SyncRefused
  <2> QED BY <2>2, <2>6, <2>7, <2>8, <2>9, OwnedByHolder
<1>7. CASE ProbeFinds(p)
  <2>1. lock = p BY <1>7 DEF OneHolder, Holding, ProbeFinds, Landed, SyncReceipt
  <2>2. Alone(p)' 
    <3>1. \A q \in Proc \ {p} : pc'[q] = pc[q] BY <1>7 DEF ProbeFinds, Landed, SyncReceipt
    <3> QED BY <2>1, <3>1, HolderIsAlone
  <2>3. OwnedBy(p) /\ txn[p] \in Txn \cup {None} BY DEF Owned
  <2>4. remote = txn[p] /\ pending # None /\ pending.txn = txn[p] /\ txn[p] \in Txn /\ txn[p] \in history[local]
    BY <1>7, <2>3 DEF ProbeFinds, Landed, SyncReceipt
  <2>5. Contains(remote, txn[p]) BY <2>4 DEF Graph
  <2>6. dirty = {} /\ (journal # None => journal.txn = txn[p]) BY <2>4
  <2>7. pc'[p] = "settling" /\ txn'[p] = txn[p] /\ UNCHANGED <<history, remote, dirty, journal, pending>>
    BY <1>7 DEF ProbeFinds, Landed, SyncReceipt
  <2>8. OwnedBy(p)' BY <2>4, <2>5, <2>6, <2>7
  <2>9. Commits'
    <3>1. UNCHANGED <<history, content, local, remote, plan, records>> BY <1>7 DEF ProbeFinds, Landed, SyncReceipt
    <3> HIDE DEF KernelInv, CommonInv, Commits, Owed, Named, Contains
    <3> QED BY <3>1, RecordsStay
  <2>10. KernelLabels' BY <1>7 DEF ProbeFinds, Landed, SyncReceipt
  <2>11. Records' BY <1>7, <2>3 DEF ProbeFinds, Landed, SyncReceipt
  <2> QED BY <2>2, <2>8, <2>9, <2>10, <2>11, OwnedByHolder
<1>8. CASE ProbeMisses(p)
  <2>1. lock = p BY <1>8 DEF OneHolder, Holding, ProbeMisses
  <2>2. Alone(p)' 
    <3>1. \A q \in Proc \ {p} : pc'[q] = pc[q] BY <1>8 DEF ProbeMisses
    <3> QED BY <2>1, <3>1, HolderIsAlone
  <2>3. OwnedBy(p) /\ txn[p] \in Txn \cup {None} BY DEF Owned
  <2>4. pending' \in Markers /\ pending'.txn = txn[p] /\ journal' = journal
    BY <1>8, <2>3 DEF ProbeMisses
  <2>5. \A t \in Txn : Owed(t) /\ Named(t) => Named(t)' \/ Contains(remote, t)
    BY <1>8, <2>3, <2>4 DEF ProbeMisses
  <2>6. Commits'
    <3>1. UNCHANGED <<history, content, local, remote, plan>> BY <1>8 DEF ProbeMisses
    <3> HIDE DEF KernelInv, CommonInv, Commits, Owed, Named, Contains
    <3> QED BY <2>5, <3>1, RecordsRename
  <2>7. KernelLabels' BY <1>8 DEF ProbeMisses
  <2>8. Records' BY <1>8, <2>3, <2>4 DEF ProbeMisses
  <2>9. OwnedBy(p)' BY <1>8, <2>3, <2>4 DEF ProbeMisses
  <2> QED BY <2>2, <2>6, <2>7, <2>8, <2>9, OwnedByHolder
<1>9. CASE SyncReceiptWritten(p)
    BY <1>9 DEF SyncReceiptWritten
<1>10. CASE SyncAlreadyPublished(p)
  <2>1. lock = p BY <1>10 DEF OneHolder, Holding, SyncAlreadyPublished
  <2>2. Alone(p)' 
    <3>1. \A q \in Proc \ {p} : pc'[q] = pc[q] BY <1>10 DEF SyncAlreadyPublished
    <3> QED BY <2>1, <3>1, HolderIsAlone
  <2>3. OwnedBy(p) /\ txn[p] \in Txn \cup {None} BY DEF Owned
  <2>4. remote = pending.txn /\ pending # None /\ pending.txn = pending.txn /\ pending.txn \in Txn /\ pending.txn \in history[local]
    BY <1>10, <2>3 DEF SyncAlreadyPublished
  <2>5. Contains(remote, pending.txn) BY <2>4 DEF Graph
  <2>6. dirty = {} /\ (journal # None => journal.txn = pending.txn) BY <2>4
  <2>7. pc'[p] = "settling" /\ txn'[p] = pending.txn /\ UNCHANGED <<history, remote, dirty, journal, pending>>
    BY <1>10 DEF SyncAlreadyPublished
  <2>8. OwnedBy(p)' BY <2>4, <2>5, <2>6, <2>7
  <2>9. Commits'
    <3>1. UNCHANGED <<history, content, local, remote, plan, records>> BY <1>10 DEF SyncAlreadyPublished
    <3> HIDE DEF KernelInv, CommonInv, Commits, Owed, Named, Contains
    <3> QED BY <3>1, RecordsStay
  <2>10. KernelLabels' BY <1>10 DEF SyncAlreadyPublished
  <2>11. Records' BY <1>10, <2>3 DEF SyncAlreadyPublished
  <2> QED BY <2>2, <2>8, <2>9, <2>10, <2>11, OwnedByHolder
<1>11. CASE ClearMarker(p, "settling", "settled")
  <2>1. lock = p BY <1>11 DEF OneHolder, Holding, ClearMarker
  <2>2. Alone(p)' 
    <3>1. \A q \in Proc \ {p} : pc'[q] = pc[q] BY <1>11 DEF ClearMarker
    <3> QED BY <2>1, <3>1, HolderIsAlone
  <2>3. OwnedBy(p) /\ txn[p] \in Txn \cup {None} BY DEF Owned
  <2>4. \A t \in Txn : Owed(t) /\ Named(t) => Named(t)' \/ Contains(remote, t)
    BY <1>11, <2>3 DEF ClearMarker
  <2>5. Commits'
    <3>1. UNCHANGED <<history, content, local, remote, plan>> BY <1>11 DEF ClearMarker
    <3> HIDE DEF KernelInv, CommonInv, Commits, Owed, Named, Contains
    <3> QED BY <2>4, <3>1, RecordsRename
  <2>6. KernelLabels' BY <1>11 DEF ClearMarker
  <2>7. Records' BY <1>11, <2>3 DEF ClearMarker
  <2>8. OwnedBy(p)' BY <1>11, <2>3 DEF ClearMarker
  <2> QED BY <2>2, <2>5, <2>6, <2>7, <2>8, OwnedByHolder
<1>12. CASE SettleJournal(p)
  <2>1. lock = p BY <1>12 DEF OneHolder, Holding, SettleJournal
  <2>2. Alone(p)' 
    <3>1. \A q \in Proc \ {p} : pc'[q] = pc[q] BY <1>12 DEF SettleJournal
    <3> QED BY <2>1, <3>1, HolderIsAlone
  <2>3. OwnedBy(p) /\ txn[p] \in Txn \cup {None} BY DEF Owned
  <2>4. \A t \in Txn : Owed(t) /\ Named(t) => Named(t)' \/ Contains(remote, t)
    BY <1>12, <2>3 DEF SettleJournal
  <2>5. Commits'
    <3>1. UNCHANGED <<history, content, local, remote, plan>> BY <1>12 DEF SettleJournal
    <3> HIDE DEF KernelInv, CommonInv, Commits, Owed, Named, Contains
    <3> QED BY <2>4, <3>1, RecordsRename
  <2>6. KernelLabels' BY <1>12 DEF SettleJournal
  <2>7. Records' BY <1>12, <2>3 DEF SettleJournal
  <2>8. OwnedBy(p)' BY <1>12, <2>3 DEF SettleJournal
  <2> QED BY <2>2, <2>5, <2>6, <2>7, <2>8, OwnedByHolder
<1> HIDE DEF KernelInv, KernelRest
<1> QED BY <1>1, <1>2, <1>3, <1>4, <1>5, <1>6, <1>7, <1>8, <1>9, <1>10, <1>11, <1>12 DEF Sync

\* A new plan owes nothing yet.
LEMMA KernelStart ==
    ASSUME Kind = "kernel", KernelInv, NEW p \in Proc, Start(p) PROVE KernelRest'
<1>1. ASSUME NEW t \in Txn, Plan(p, t) PROVE KernelRest'
  <2>1. plan[t] = None /\ plan'[t] \in Plans /\ plan'[t].before = {}
        /\ \A u \in Txn \ {t} : plan'[u] = plan[u]
    BY <1>1, PlanSeals DEF Plan
  <2>2. UNCHANGED <<history, content, local, remote, dirty, journal, pending, lock>>
        /\ pc' = [pc EXCEPT ![p] = "planned"] /\ txn' = [txn EXCEPT ![p] = t] /\ pc[p] = "idle"
        /\ UNCHANGED <<target, outcome, lease, back>>
    BY <1>1 DEF Plan
  <2>3. t \notin history[local] BY <2>1 DEF Planned, Graph
  <2>4. \A u \in Txn : Owed(u)' => Owed(u) BY <2>1, <2>2, <2>3
  <2>5. Commits' BY <2>2, <2>4, CommitsKept
  <2>6. KernelLabels' BY <2>2
  <2>7. \A u \in Txn : Sealed(u)' => plan'[u].before = {} BY <2>1
  <2>8. dirty # {} => plan'[journal.txn] = plan[journal.txn] BY <2>1
  <2>9. Records' BY <2>2, <2>7, <2>8
  <2>10. ASSUME NEW q \in Proc PROVE OwnedBy(q)'
    <3>1. CASE q = p BY <3>1, <2>2
    <3>2. CASE q # p
      <4>1. OwnedBy(q) /\ txn'[q] = txn[q] /\ pc'[q] = pc[q] BY <3>2, <2>2 DEF Owned
      <4>2. pc[q] \in NamesTxn => plan'[txn[q]] = plan[txn[q]] BY <2>1
      <4> QED BY <4>1, <4>2, <2>2
    <3> QED BY <3>1, <3>2
  <2> QED BY <2>5, <2>6, <2>9, <2>10 DEF Owned
<1>2. CASE StartRecover(p)
  <2>1. Commits' BY <1>2, RecordsStay DEF StartRecover
  <2>2. Records' /\ KernelLabels' BY <1>2 DEF StartRecover
  <2>3. Owned' BY <1>2 DEF Owned, StartRecover
  <2> QED BY <2>1, <2>2, <2>3
<1>3. CASE StartSync(p)
  <2>1. Commits' BY <1>3, RecordsStay DEF StartSync
  <2>2. Records' /\ KernelLabels' BY <1>3 DEF StartSync
  <2>3. Owned' BY <1>3 DEF Owned, StartSync
  <2> QED BY <2>1, <2>2, <2>3
<1> QED BY <1>1, <1>2, <1>3 DEF Start

\* A death keeps the records, the refs and the worktree.
LEMMA KernelCrashRestart ==
    ASSUME Kind = "kernel", KernelInv, NEW p \in Proc, Crash(p) \/ Restart(p)
    PROVE  KernelRest'
<1>1. Commits' BY RecordsStay DEF Crash, Restart
<1>2. Records' /\ KernelLabels' BY DEF Crash, Restart
<1>3. Owned' BY DEF Owned, Crash, Restart
<1> QED BY <1>1, <1>2, <1>3

\* Others neither add a commit of this program to the branch nor take one off.
LEMMA KernelEnvironment ==
    ASSUME Kind = "kernel", KernelInv, Environment PROVE KernelRest'
<1>1. Next BY DEF Next
<1>2. \A c \in Commit : Contains(remote, c) => Contains(remote, c)'
  <2>1. CASE UNCHANGED vars BY <2>1
  <2>2. CASE ~UNCHANGED vars BY <2>2, <1>1, RemoteStep
  <2> QED BY <2>1, <2>2
<1>3. UNCHANGED <<content, dirty, lock, journal, pending, plan, pc, txn, target, lease, back, outcome>>
    BY DEF Environment, LocalCommit, OtherPush, NewCommit, Fetch, FastForward, LateArrives
<1>4. \A t \in Txn : history'[t] = history[t]
    BY DEF Environment, LocalCommit, OtherPush, NewCommit, Fetch, FastForward, LateArrives
<1>5. \A t \in Txn : t \in history'[local'] <=> t \in history[local]
  <2>1. ASSUME NEW f \in Foreign, LocalCommit(f) PROVE \A t \in Txn : t \in history'[local'] <=> t \in history[local]
    BY <2>1 DEF LocalCommit, NewCommit
  <2>2. ASSUME NEW f \in Foreign, OtherPush(f) PROVE \A t \in Txn : t \in history'[local'] <=> t \in history[local]
    BY <2>2 DEF OtherPush, NewCommit, Graph
  <2>3. CASE Fetch \/ \E push \in late : LateArrives(push)
    BY <2>3 DEF Fetch, LateArrives
  <2>4. CASE FastForward
    BY <2>4 DEF FastForward, Graph
  <2> QED BY <2>1, <2>2, <2>3, <2>4 DEF Environment
<1>6. NoLostCommit' BY <1>2, <1>3, <1>5
<1>7. CommitCarriesOneEvent' BY <1>3, <1>4
<1>8. Records' /\ KernelLabels'
  <2>1. dirty # {} => journal.txn \in Txn OBVIOUS
  <2> QED BY <2>1, <1>3, <1>5
<1>9. ASSUME NEW q \in Proc PROVE OwnedBy(q)'
  <2>1. OwnedBy(q) BY DEF Owned
  <2>2. pc[q] \in NamesTxn => txn[q] \in Txn OBVIOUS
  <2>3. pc[q] \in NamesTxn => (txn[q] \in history'[local'] <=> txn[q] \in history[local])
    BY <2>2, <1>5
  <2>4. pc[q] \in NamesTxn => (Contains(remote, txn[q]) => Contains(remote, txn[q])')
    BY <2>2, <1>2, <1>3
  <2> QED BY <2>1, <2>3, <2>4, <1>3
<1> QED BY <1>6, <1>7, <1>8, <1>9 DEF Owned

\* The kernel invariant holds at first.
LEMMA KernelInit == Init => KernelInv
<1> SUFFICES ASSUME Init PROVE KernelInv
    OBVIOUS
<1>1. CommonInv BY CommonInit
<1>2. Records /\ Commits /\ KernelLabels BY DEF Init
<1>3. Owned BY DEF Init, Owned
<1> QED BY <1>1, <1>2, <1>3

\* The kernel invariant is inductive.
LEMMA KernelStep == Kind = "kernel" /\ KernelInv /\ [Next]_vars => KernelInv'
<1> SUFFICES ASSUME Kind = "kernel", KernelInv, [Next]_vars PROVE KernelInv'
    OBVIOUS
<1>1. CommonInv' BY CommonStep
<1>2. CASE UNCHANGED vars
  <2>1. Records' /\ Commits' /\ KernelLabels' BY <1>2
  <2>2. Owned' BY <1>2 DEF Owned
  <2> QED BY <1>1, <2>1, <2>2
<1>3. KernelRest' => KernelInv' BY <1>1
<1> HIDE DEF KernelInv, KernelRest
<1>4. CASE Environment
    BY <1>3, <1>4, KernelEnvironment
<1>5. ASSUME NEW p \in Proc, Start(p) \/ Proceed(p) \/ Crash(p) PROVE KernelInv'
    BY <1>3, <1>5, KernelStart, KernelExecute, KernelUnwind, KernelPublish, KernelPromote,
       KernelRecover, KernelSync, KernelCrashRestart DEF Proceed
<1> QED BY <1>2, <1>4, <1>5 DEF Next

\* The kernel invariant holds always.
LEMMA KernelAlways == Kind = "kernel" => (Spec => []KernelInv)
<1> SUFFICES ASSUME Kind = "kernel" PROVE Spec => []KernelInv
    OBVIOUS
<1>1. KernelInv /\ [Next]_vars => KernelInv' BY KernelStep
<1> QED BY <1>1, KernelInit, PTL DEF Spec

\* Whatever dies wherever, uncommitted governed bytes in the worktree are those
\* of the transaction the journal names, and undoing them restores a clean
\* preimage (publication-unit-of-work.mjs:166-175).
THEOREM KernelJournalsDirty == Kind = "kernel" => (Spec => []DirtyIsJournaled)
<1>1. KernelInv => DirtyIsJournaled OBVIOUS
<1> QED BY <1>1, KernelAlways, PTL

\* A commit that is owed to the remote is named by the journal or by the marker
\* until the remote has it (docs/GDP-CONTRACT-VNEXT.md:249).
THEOREM KernelLosesNoCommit == Kind = "kernel" => (Spec => []NoLostCommit)
<1>1. KernelInv => NoLostCommit OBVIOUS
<1> QED BY <1>1, KernelAlways, PTL

\* No transaction sweeps the bytes of another one into its commit.
THEOREM KernelCommitsOneEvent == Kind = "kernel" => (Spec => []CommitCarriesOneEvent)
<1>1. KernelInv => CommitCarriesOneEvent OBVIOUS
<1> QED BY <1>1, KernelAlways, PTL

\* No marker appears for a transaction whose owner is still at work
\* (docs/GOVERNED-EXECUTION.md:56-57).
THEOREM KernelPromotesInterrupted == Kind = "kernel" => (Spec => []OnlyInterruptedIsPromoted)
<1>1. KernelInv => OnlyInterruptedIsPromoted BY DEF Owned, OnlyInterruptedIsPromoted
<1> QED BY <1>1, KernelAlways, PTL

-----------------------------------------------------------------------------
(***************************************************************************)
(* The transaction of a Goal implements PublicationContract.               *)
(* Uncommitted is the worktree, retained what the branch holds and the     *)
(* remote owes, final what has reached the place its mode names.  The      *)
(* state write is Write, the ref update is Commit, the two restorations    *)
(* are Undo; every other step, of this program or of others, leaves the    *)
(* worktree and the branch alone and so publishes what was retained, which *)
(* is at most one commit because the records name at most one, or          *)
(* stutters.                                                               *)
(***************************************************************************)

\* What others do puts no commit of this program on the branch and takes none off.
LEMMA BranchInEnvironment ==
    ASSUME CommonInv, Environment
    PROVE  \A t \in Txn : t \in history'[local'] <=> t \in history[local]
<1> DEFINE Kept == \A t \in Txn : t \in history'[local'] <=> t \in history[local]
<1>1. ASSUME NEW f \in Foreign, LocalCommit(f) PROVE Kept
    BY <1>1 DEF LocalCommit, NewCommit
<1>2. ASSUME NEW f \in Foreign, OtherPush(f) PROVE Kept
    BY <1>2 DEF OtherPush, NewCommit, Graph
<1>3. CASE Fetch \/ \E push \in late : LateArrives(push)
    BY <1>3 DEF Fetch, LateArrives
<1>4. CASE FastForward
    BY <1>4 DEF FastForward, Graph
<1> QED BY <1>1, <1>2, <1>3, <1>4 DEF Environment

\* The refinement mapping.
Retained == OnBranch("required") \ OnRemote
Final == OnBranch("off") \cup OnRemote

\* At most one commit is retained: the one that the records name.
LEMMA RetainedIsNamed ==
    ASSUME KernelInv, NEW t \in Retained PROVE Owed(t) /\ Named(t)
BY DEF Retained, OnBranch, OnRemote

\* And they name one.
LEMMA RetainedIsOne ==
    ASSUME KernelInv, NEW t \in Retained, NEW u \in Retained PROVE t = u
<1>1. Named(t) /\ Named(u) BY RetainedIsNamed
<1> QED BY <1>1

\* A commit of a transaction is on the remote only if it is on the branch.
LEMMA RemoteIsOnBranch ==
    CommonInv => OnRemote \subseteq OnBranch("required") \cup OnBranch("off")
<1> SUFFICES ASSUME CommonInv, NEW t \in Txn, Contains(remote, t)
             PROVE  t \in history[local] /\ Sealed(t) /\ Mode(t) \in {"required", "off"}
    BY DEF OnRemote, OnBranch
<1>1. t \in history[local] BY DEF Refs
<1>2. Exists(t) BY <1>1 DEF Graph
<1>3. Sealed(t) BY <1>2 DEF Planned
<1> QED BY <1>1, <1>3

\* What the remote has accepted stays accepted.
LEMMA RemoteSetGrows ==
    ASSUME CommonInv, [Next]_vars PROVE OnRemote \subseteq OnRemote'
<1> SUFFICES ASSUME NEW t \in Txn, Contains(remote, t) PROVE Contains(remote, t)'
    BY DEF OnRemote
<1>1. t \in Commit OBVIOUS
<1>2. CASE UNCHANGED vars BY <1>2
<1>3. CASE ~UNCHANGED vars BY <1>1, <1>3, RemoteStep
<1> QED BY <1>2, <1>3

\* A step that neither writes, undoes nor commits publishes what was retained,
\* or stutters.
LEMMA PublishesOrStutters ==
    ASSUME KernelInv, KernelInv', [Next]_vars, dirty' = dirty,
           OnBranch("required")' = OnBranch("required"), OnBranch("off")' = OnBranch("off")
    PROVE  [Contract!Next]_(Contract!vars)
<1>0. CommonInv /\ CommonInv' OBVIOUS
<1> HIDE DEF KernelInv, CommonInv, vars
<1>1. OnRemote \subseteq OnRemote' BY <1>0, RemoteSetGrows
<1>2. OnRemote' \subseteq OnBranch("required") \cup OnBranch("off")
  <2>1. (CommonInv => OnRemote \subseteq OnBranch("required") \cup OnBranch("off"))'
    BY RemoteIsOnBranch, PTL
  <2> HIDE DEF OnBranch, OnRemote
  <2> QED BY <1>0, <2>1
<1>3. Final' = Final \cup (Retained \ Retained') BY <1>1, <1>2 DEF Final, Retained
<1>4. CASE Retained' = Retained
    BY <1>3, <1>4 DEF Contract!vars, Retained, Final
<1>5. CASE Retained' # Retained
  <2>1. PICK t \in Retained : t \notin Retained' BY <1>1, <1>5 DEF Retained
  <2>2. Retained' \subseteq Retained
    BY <1>1 DEF Retained
  <2>3. \A u \in Retained : u = t BY <2>1, RetainedIsOne
  <2>4. Retained = {t} /\ Retained' = {} BY <2>1, <2>2, <2>3
  <2>5. t \in Txn BY <2>1 DEF Retained, OnBranch
  <2>6. Final' = Final \cup {t} BY <1>3, <2>4
  <2>7. Contract!Publish(t) BY <2>4, <2>6 DEF Contract!Publish, Retained, Final
  <2> QED BY <2>5, <2>7 DEF Contract!Next
<1> QED BY <1>4, <1>5

\* The worktree is changed by the state write, by the ref update and by the
\* restorations, the branch by the ref update only.
Unfinished(p) == WriteState(p) \/ AdvanceRef(p)
                 \/ Restore(p, "unwinding", "unwound") \/ Restore(p, "restoring", "restored")

\* Every other step leaves the worktree alone, and adds no commit of this program
\* to the branch.
LEMMA BranchIsKept ==
    ASSUME KernelInv, [Next]_vars, \A p \in Proc : ~Unfinished(p)
    PROVE  dirty' = dirty /\ \A m \in {"required", "off"} : OnBranch(m)' = OnBranch(m)
<1>1. ASSUME NEW p \in Proc, NEW t \in Txn, Plan(p, t)
      PROVE dirty' = dirty /\ \A m \in {"required", "off"} : OnBranch(m)' = OnBranch(m)
  <2>1. plan[t] = None /\ UNCHANGED <<history, local, dirty>> /\ \A u \in Txn \ {t} : plan'[u] = plan[u]
    <3>1. plan[t] = None /\ UNCHANGED <<history, local, dirty>> BY <1>1 DEF Plan
    <3>2. TypeInv OBVIOUS
    <3> HIDE DEF KernelInv, CommonInv, TypeInv, TypeOK
    <3>3. \A u \in Txn \ {t} : plan'[u] = plan[u] BY <1>1, <3>2, PlanSeals
    <3> QED BY <3>1, <3>3
  <2>2. t \notin history[local] BY <2>1 DEF Planned, Graph
  <2> QED BY <2>1, <2>2 DEF OnBranch
<1>2. ASSUME NEW p \in Proc, Begin(p)
      PROVE dirty' = dirty /\ \A m \in {"required", "off"} : OnBranch(m)' = OnBranch(m)
  <2> DEFINE t == txn[p]
  <2>1. t \in Txn /\ plan[t] \in Plans BY <1>2 DEF Begin
  <2>2. plan' = [plan EXCEPT ![t] = [plan[t] EXCEPT !.before = dirty]]
        /\ UNCHANGED <<history, local, dirty>>
    BY <1>2 DEF Begin
  <2>3. \A u \in Txn : (plan'[u] = None <=> plan[u] = None)
                       /\ (plan[u] # None => plan'[u].mode = plan[u].mode)
    BY <2>1, <2>2
  <2> QED BY <2>2, <2>3 DEF OnBranch
<1>3. ASSUME NEW p \in Proc, CreateCommit(p)
      PROVE dirty' = dirty /\ \A m \in {"required", "off"} : OnBranch(m)' = OnBranch(m)
  <2>1. txn[p] \in Txn /\ history[txn[p]] = {} /\ local \in Refs
    BY <1>3 DEF CreateCommit
  <2>2. local # txn[p] BY <2>1 DEF Graph
  <2>3. history'[local] = history[local] /\ UNCHANGED <<local, dirty, plan>>
    BY <1>3, <2>2 DEF CreateCommit
  <2> QED BY <2>3 DEF OnBranch
<1>4. CASE Environment
  <2>1. UNCHANGED <<plan, dirty>>
    BY <1>4 DEF Environment, LocalCommit, OtherPush, NewCommit, Fetch, FastForward, LateArrives
  <2>2. \A t \in Txn : t \in history'[local'] <=> t \in history[local]
    BY <1>4, BranchInEnvironment
  <2> QED BY <2>1, <2>2 DEF OnBranch
<1>5. CASE UNCHANGED <<history, local, plan, dirty>>
    BY <1>5 DEF OnBranch
<1>6. ASSUME NEW p \in Proc,
             Start(p) \/ Execute(p) \/ Unwind(p) \/ Publish(p) \/ Promote(p) \/ Recover(p) \/ Sync(p)
             \/ Restart(p) \/ Crash(p),
             \A t \in Txn : ~Plan(p, t), ~Begin(p), ~CreateCommit(p)
      PROVE  UNCHANGED <<history, local, plan, dirty>>
  <2>1. CASE Start(p) \/ Crash(p) \/ Restart(p)
    BY <1>6, <2>1 DEF Start, StartRecover, StartSync, Crash, Restart
  <2>2. CASE Execute(p)
    BY <1>6, <2>2 DEF Execute, Lock, Refuse, VerifyCandidate, Unfinished, RefOutcomeUnknown, RecordAdvanced
  <2>3. CASE Unwind(p) \/ Recover(p)
    BY <2>3 DEF Unwind, Recover, FailBeforeCommit, Unfinished, RestoreFails, ClearRestored, RecoverLock,
       RecoverLeave
  <2>4. CASE Publish(p)
    BY <2>4 DEF Publish, FailAfterRef, MarkCommitted, StartPush, PushLands, PushVanishes, PushRejected,
       NoteFailure, Retain, ClearRetained, MarkPushed, Finish, ClearMarker, CleanupJournal
  <2>5. CASE Promote(p)
    BY <2>5 DEF Promote, DropJournal, StartPromotion, PromoteMarker, PromoteClear
  <2>6. CASE Sync(p)
    BY <2>6 DEF Sync, SyncLeaves, SyncPrepare, SyncLands, SyncVanishes, SyncRejected, SyncRefused,
       ProbeFinds, ProbeMisses, SyncReceiptWritten, SyncAlreadyPublished, ClearMarker, SettleJournal
  <2> QED BY <1>6, <2>1, <2>2, <2>3, <2>4, <2>5, <2>6
<1>7. CASE Next
  <2>1. CASE \E p \in Proc : Start(p) \/ Proceed(p) \/ Crash(p)
    BY <1>1, <1>2, <1>3, <1>5, <1>6, <2>1 DEF Proceed
  <2> QED BY <1>4, <1>7, <2>1 DEF Next
<1>8. CASE UNCHANGED vars BY <1>5, <1>8
<1> QED BY <1>7, <1>8

\* The steps that change the worktree are those of the contract.
LEMMA WritesUndoesCommits ==
    ASSUME KernelInv, NEW p \in Proc, Unfinished(p)
    PROVE  [Contract!Next]_(Contract!vars)
<1> DEFINE t == txn[p]
<1>1. OwnedBy(p) BY DEF Owned
<1>2. CASE WriteState(p)
  <2>1. t \in Txn /\ HasJournal(t) /\ pending = None /\ dirty = {} /\ ~Exists(t)
        /\ dirty' = {t} /\ UNCHANGED <<history, local, remote, plan>>
    BY <1>1, <1>2 DEF WriteState
  <2>2. t \notin history[local] BY <2>1 DEF Graph
  <2>3. Retained = {}
    <3>1. ASSUME NEW u \in Retained PROVE u = t BY <2>1, <3>1, RetainedIsNamed
    <3>2. t \notin Retained BY <2>2 DEF Retained, OnBranch
    <3> QED BY <3>1, <3>2
  <2>4. t \notin OnBranch("off") BY <2>2 DEF OnBranch
  <2>5. t \notin OnRemote BY <2>1, <2>2 DEF OnRemote, Graph
  <2>6. Retained' = Retained /\ Final' = Final BY <2>1 DEF Retained, Final, OnBranch, OnRemote
  <2>7. Contract!Write(t) BY <2>1, <2>3, <2>4, <2>5, <2>6 DEF Contract!Write, Retained, Final
  <2> QED BY <2>1, <2>7 DEF Contract!Next
<1>3. CASE AdvanceRef(p)
  <2>1. t \in Txn /\ HasJournal(t) /\ pending = None /\ dirty = {t} /\ Exists(t) /\ Sealed(t)
        /\ content[t] = {t} /\ t \notin history[local]
    BY <1>1, <1>3 DEF AdvanceRef
  <2>2. dirty' = {} /\ local' = t /\ UNCHANGED <<history, remote, plan>>
    BY <1>3, <2>1 DEF AdvanceRef
  <2>3. history'[local'] = history[local] \cup {t} BY <1>3, <2>1, <2>2 DEF Planned, AdvanceRef
  <2>4. Retained = {}
    <3>1. ASSUME NEW u \in Retained PROVE u = t BY <2>1, <3>1, RetainedIsNamed
    <3>2. t \notin Retained BY <2>1 DEF Retained, OnBranch
    <3> QED BY <3>1, <3>2
  <2>5. t \notin OnRemote BY <2>1 DEF OnRemote
  <2>6. OnRemote' = OnRemote BY <2>2 DEF OnRemote
  <2>7. CASE Mode(t) = "required"
    <3>1. OnBranch("required")' = OnBranch("required") \cup {t} /\ OnBranch("off")' = OnBranch("off")
      BY <2>1, <2>2, <2>3, <2>7 DEF OnBranch
    <3>2. Retained' = {t} /\ Final' = Final BY <3>1, <2>4, <2>5, <2>6 DEF Retained, Final
    <3>3. Contract!Commit(t) BY <2>1, <2>2, <3>2 DEF Contract!Commit, Retained, Final
    <3> QED BY <2>1, <3>3 DEF Contract!Next
  <2>8. CASE Mode(t) = "off"
    <3>1. OnBranch("off")' = OnBranch("off") \cup {t} /\ OnBranch("required")' = OnBranch("required")
      BY <2>1, <2>2, <2>3, <2>8 DEF OnBranch
    <3>2. Final' = Final \cup {t} /\ Retained' = Retained BY <3>1, <2>6 DEF Retained, Final
    <3>3. Contract!Commit(t) BY <2>1, <2>2, <3>2 DEF Contract!Commit, Retained, Final
    <3> QED BY <2>1, <3>3 DEF Contract!Next
  <2> QED BY <2>1, <2>7, <2>8
<1>4. CASE Restore(p, "unwinding", "unwound") \/ Restore(p, "restoring", "restored")
  <2>1. dirty' = {} /\ UNCHANGED <<history, local, remote, plan>>
    BY <1>4 DEF Restore
  <2>2. Retained' = Retained /\ Final' = Final BY <2>1 DEF Retained, Final, OnBranch, OnRemote
  <2>3. Contract!Undo BY <2>1, <2>2 DEF Contract!Undo, Retained, Final
  <2> QED BY <2>3 DEF Contract!Next
<1> QED BY <1>2, <1>3, <1>4 DEF Unfinished

\* The unit of work keeps its promise: one unfinished decision at a time, undone
\* only before its commit, published or retained after it
\* (docs/GDP-CONTRACT-VNEXT.md:249).
THEOREM KernelKeepsContract == Kind = "kernel" => (Spec => KeepsContract)
<1> SUFFICES ASSUME Kind = "kernel" PROVE Spec => KeepsContract
    OBVIOUS
<1>1. Init => Contract!Init
    BY DEF Init, Contract!Init, OnBranch, OnRemote
<1>2. KernelInv /\ KernelInv' /\ [Next]_vars => [Contract!Next]_(Contract!vars)
  <2> SUFFICES ASSUME KernelInv, KernelInv', [Next]_vars PROVE [Contract!Next]_(Contract!vars)
    OBVIOUS
  <2>1. CASE \E p \in Proc : Unfinished(p) BY <2>1, WritesUndoesCommits
  <2>2. CASE \A p \in Proc : ~Unfinished(p) BY <2>2, BranchIsKept, PublishesOrStutters
  <2> QED BY <2>1, <2>2
<1> QED BY <1>1, <1>2, KernelAlways, PTL DEF Spec, KeepsContract, Contract!Spec
=============================================================================
