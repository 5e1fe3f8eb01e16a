----------------------- MODULE DraftTransactionProofs -----------------------
(* Draft transactions, for any number of commands, synchronizers and        *)
(* commits by hand, whichever of the processes die and when.                *)
EXTENDS DraftTransaction, TLAPS

\* The holder of the lock.
InLock == {"begin", "write", "nest", "nested write", "candidate", "commit", "advance",
           "unwind", "unwound", "push", "pushed", "clean up", "retain", "retained", "validate",
           "catch", "restore", "restored"}
Holding == {"undo", "undone", "published", "cleared"}
Locked ==
    /\ \A p \in Drafter : pc[p] \in InLock <=> holder = p
    /\ \A s \in Syncer : pc[s] \in Holding <=> holder = s

(***************************************************************************)
(* The journal is the draft's, or that of its nested publication over it,  *)
(* of one command, which is at work under the lock or has left it behind.  *)
(***************************************************************************)
RecordOf(r, tx, p) == r.tx = tx /\ r.head = base[p] /\ r.preimage = pre[p]
Single(p) ==
    Len(journal) = 1 /\ RecordOf(journal[1], Draft(p), p) /\ journal[1].commit = None
Double(p) ==
    /\ Len(journal) = 2
    /\ RecordOf(journal[1], Nested(p), p) /\ journal[1].commit \in {None, p}
    /\ OnBranch(p) => journal[1].commit = p
    /\ RecordOf(journal[2], Draft(p), p) /\ journal[2].commit = None
Chain(p) == Single(p) \/ Double(p)

Left == (InLock \ {"begin"}) \cup {"failed", "dead"}
Chained == journal # <<>> => \E p \in Drafter : Chain(p) /\ pc[p] \in Left
Shaped(p) ==
    /\ pc[p] = "begin" => journal = <<>>
    /\ pc[p] \in {"write", "nest", "clean up"} => Single(p)
    /\ pc[p] = "validate" => journal = <<>> \/ Single(p)
    /\ pc[p] \in {"catch", "restore", "restored"} =>
          journal = <<>> \/ Single(p) \/ (Double(p) /\ (OnBranch(p) => returned[p] = "broken"))
    /\ pc[p] \in {"nested write", "candidate", "commit", "advance", "unwind", "unwound"} =>
          Double(p)
    /\ pc[p] = "advance" => journal[1].commit = p
    /\ pc[p] \in {"push", "pushed", "retain", "retained"} => Chain(p)

(***************************************************************************)
(* The branch.                                                             *)
(***************************************************************************)
BeforeCommit == {"load", "enter", "begin", "write", "nest", "nested write", "candidate",
                 "commit", "advance", "unwind", "unwound", "restore", "restored"}
AfterCommit == {"push", "pushed", "retain", "retained", "clean up"}
Branched(p) ==
    /\ pc[p] \in BeforeCommit => ~OnBranch(p)
    /\ pc[p] \in AfterCommit => OnBranch(p)
    /\ OnBranch(p) => /\ Tip > base[p]
                      /\ {Draft(p), Nested(p)} \subseteq landed \ dirty
    /\ p \in remote => OnBranch(p)
    /\ marker = p => OnBranch(p)

(***************************************************************************)
(* The files.                                                              *)
(***************************************************************************)
DraftWritten == AfterCommit \cup
    {"nest", "nested write", "candidate", "commit", "advance", "validate", "done"}
Written(p) ==
    /\ pc[p] \in DraftWritten => Draft(p) \in Content
    /\ pc[p] \in {"candidate", "commit", "advance"} => Nested(p) \in Content
    /\ pc[p] \in {"begin", "write"} => Content \subseteq seen[p][2]

\* A preimage that keeps what was accepted.
Keeps(preimage) == \A p \in Drafter : pc[p] = "done" => Draft(p) \in preimage \cup landed
Kept(p) == pc[p] \in InLock \ {"begin"} \/ Chain(p) => Keeps(pre[p])

Observed(s) ==
    /\ pc[s] \in {"promote", "drop", "recover", "undo", "undone"} => obs[s] \in Record
    /\ pc[s] \in {"promote", "drop"} =>
          /\ obs[s].tx = Nested(obs[s].commit) /\ obs[s].commit # None
          /\ OnBranch(obs[s].commit)
    /\ pc[s] = "undo" => Keeps(obs[s].preimage)
    /\ pc[s] \in {"undo", "undone"} => ~OnBranch(obs[s].tx[1])

SafeInv ==
    /\ Locked /\ Chained
    /\ \A p \in Drafter : Shaped(p) /\ Branched(p) /\ Written(p) /\ Kept(p)
    /\ \A s \in Syncer : Observed(s)

(***************************************************************************)
(* As long as no marker was made of a journal that was gone.               *)
(***************************************************************************)
Accepted(bytes) == \A tx \in bytes : pc[tx[1]] = "done"
Explained == \A tx \in dirty : pc[tx[1]] = "done" \/ Chain(tx[1])
Marked == marker # None => journal = <<>> \/ Chain(marker)
Owed(p) == OnBranch(p) => p \in remote \/ marker = p \/ Double(p)

Proven(p) ==
    /\ Accepted(pre[p])
    /\ pc[p] = "begin" => marker = None
    /\ pc[p] = "restored" => Accepted(dirty)
    /\ pc[p] = "retained" => marker = p
    /\ pc[p] \in {"pushed", "clean up"} => p \in remote
    /\ pc[p] \in {"validate", "catch"} /\ OnBranch(p) =>
          marker = p \/ returned[p] # "nothing"
    /\ Owed(p)

Settled(s) ==
    /\ pc[s] = "drop" => obs[s].commit \in remote \/ marker = obs[s].commit
    /\ pc[s] = "undo" => Accepted(obs[s].preimage)
    /\ pc[s] = "undone" => Accepted(dirty)
    /\ pc[s] = "published" => marker # None /\ marker \in remote
    /\ pc[s] \in {"published", "cleared"} => \A p \in Drafter : Chain(p) => p \in remote

Alone(p) ==
    /\ holder = p \/ Chain(p) => Tip = base[p] \/ (OnBranch(p) /\ log[Tip] = p)
    /\ pc[p] = "failed" /\ Chain(p) /\ OnBranch(p) => returned[p] = "broken"

(***************************************************************************)
(* The stages that no recovery takes.                                      *)
(***************************************************************************)
Abandoned(p) == pc[p] = "dead" \/ returned[p] = "broken"
Broken(p) ==
    returned[p] = "broken" => pc[p] \in {"catch", "restore", "restored", "failed", "dead"}
Between(p) == pc[p] \in {"commit", "unwind"} \/ Abandoned(p)
Staged(r) ==
    /\ r.stage = "draft-head-diverged" => Tip > r.head
    /\ r.stage = "candidate-verified" => r.tx = Nested(Owner(r)) /\ Between(Owner(r))
StageInv ==
    /\ \A p \in Drafter : base[p] <= Tip /\ Broken(p)
    /\ \A i \in DOMAIN journal : Staged(journal[i])

TimelyInv ==
    ~late =>
        /\ Explained /\ Marked
        /\ \A p \in Drafter : Proven(p)
        /\ \A s \in Syncer : Settled(s)
        /\ (\A m \in Manual : ~OnBranch(m)) => \A p \in Drafter : Alone(p)

DraftInv == TypeOK /\ SafeInv /\ StageInv /\ TimelyInv

-----------------------------------------------------------------------------
(***************************************************************************)
(* Types, labels and the journal as a sequence.                            *)
(***************************************************************************)
RepoTypes ==
    /\ holder \in Proc \cup {None} /\ log \in Seq(Author)
    /\ dirty \subseteq Tx /\ landed \subseteq Tx /\ remote \subseteq Drafter
JournalTypes == journal \in Seq(Record) /\ marker \in Drafter \cup {None} /\ late \in BOOLEAN
Labels ==
    /\ \A p \in Drafter : pc[p] \in DraftLabel
    /\ \A s \in Syncer : pc[s] \in SyncLabel
    /\ DOMAIN pc = Proc
RegTypes ==
    /\ seen \in [Drafter -> Nat \X SUBSET Tx] /\ base \in [Drafter -> Nat]
    /\ returned \in [Drafter -> {"nothing", "receipt", "broken"}]
    /\ pre \in [Drafter -> SUBSET Tx]
    /\ obs \in [Syncer -> Record \cup {Nothing}]

LEMMA TypeParts == TypeOK <=> RepoTypes /\ JournalTypes /\ Labels /\ RegTypes
BY DEF TypeOK, RepoTypes, JournalTypes, Labels, RegTypes

LEMMA TypePartsNext == TypeOK' <=> RepoTypes' /\ JournalTypes' /\ Labels' /\ RegTypes'
BY DEF TypeOK, RepoTypes, JournalTypes, Labels, RegTypes

\* The effect of a step on the labels.
Moves(p, l) == pc'[p] = l /\ \A q \in Proc \ {p} : pc'[q] = pc[q]

LEMMA DraftGoes ==
    ASSUME Labels, NEW p \in Drafter, NEW l \in DraftLabel, Go(p, l)
    PROVE  Labels' /\ Moves(p, l)
BY DraftAssumption DEF Labels, Go, Moves, Proc

LEMMA SyncGoes ==
    ASSUME Labels, NEW s \in Syncer, NEW l \in SyncLabel, Go(s, l)
    PROVE  Labels' /\ Moves(s, l)
BY DraftAssumption DEF Labels, Go, Moves, Proc

LEMMA ProcFacts ==
    /\ \A p \in Drafter : p \in Proc /\ p \notin Syncer /\ p \notin Manual /\ p # None
    /\ \A s \in Syncer : s \in Proc /\ s \notin Drafter /\ s # None
    /\ \A m \in Manual : m \notin Drafter
BY DraftAssumption DEF Proc

LEMMA TxFacts ==
    /\ \A p \in Drafter : Draft(p) \in Tx /\ Nested(p) \in Tx /\ Draft(p)[1] = p /\ Nested(p)[1] = p
    /\ \A p, q : Draft(p) # Nested(q)
    /\ \A p, q : Draft(p) = Draft(q) => p = q
    /\ \A p, q : Nested(p) = Nested(q) => p = q
    /\ \A tx \in Tx : tx[1] \in Drafter /\ (tx = Draft(tx[1]) \/ tx = Nested(tx[1]))
BY DEF Tx, Draft, Nested

SameButStage(r, t) ==
    r.tx = t.tx /\ r.head = t.head /\ r.commit = t.commit /\ r.preimage = t.preimage

LEMMA StageEffect ==
    ASSUME journal \in Seq(Record), NEW tx, NEW st \in Stage, SetStage(tx, st)
    PROVE  /\ journal' \in Seq(Record) /\ Len(journal') = Len(journal)
           /\ \A i \in 1..Len(journal) : SameButStage(journal'[i], journal[i])
<1>1. CASE IsTop(tx)
  <2>1. journal' = [journal EXCEPT ![1].stage = st] /\ journal # <<>>
    BY <1>1 DEF SetStage, IsTop
  <2>2. 1 \in DOMAIN journal /\ journal[1] \in Record
    BY <2>1
  <2>3. [journal[1] EXCEPT !.stage = st] \in Record
    BY <2>2 DEF Record
  <2>4. journal' = [journal EXCEPT ![1] = [journal[1] EXCEPT !.stage = st]]
    BY <2>1, <2>2
  <2>5. journal' \in Seq(Record) /\ Len(journal') = Len(journal)
    BY <2>2, <2>3, <2>4
  <2>6. SameButStage(journal'[1], journal[1])
    BY <2>2, <2>4 DEF SameButStage, Record
  <2>7. \A i \in 1..Len(journal) : i # 1 => journal'[i] = journal[i]
    BY <2>4
  <2> QED  BY <2>5, <2>6, <2>7 DEF SameButStage
<1>2. CASE ~IsTop(tx)
  BY <1>2 DEF SetStage, SameButStage
<1> QED  BY <1>1, <1>2

LEMMA PopEffect ==
    ASSUME journal \in Seq(Record), journal # <<>>, journal' = Tail(journal)
    PROVE  /\ journal' \in Seq(Record) /\ Len(journal') = Len(journal) - 1
           /\ \A i \in 1..Len(journal') : journal'[i] = journal[i + 1]
OBVIOUS

LEMMA PushEffect ==
    ASSUME journal \in Seq(Record), NEW tx \in Tx, NEW head \in Nat, NEW preimage \in SUBSET Tx,
           BeginJournal(tx, head, preimage)
    PROVE  /\ journal' \in Seq(Record) /\ Len(journal') = Len(journal) + 1
           /\ journal'[1].tx = tx /\ journal'[1].head = head
           /\ journal'[1].preimage = preimage /\ journal'[1].commit = None
           /\ \A i \in 1..Len(journal) : journal'[i + 1] = journal[i]
<1> DEFINE r == Fresh(tx, head, preimage)
<1>1. /\ r \in Record /\ r.tx = tx /\ r.head = head /\ r.preimage = preimage /\ r.commit = None
  BY DEF Fresh, Record, Stage, Recoverable
<1>2. journal' = <<r>> \o journal
  BY DEF BeginJournal
<1> HIDE DEF r
<1> QED  BY <1>1, <1>2

LEMMA CommitEffect ==
    ASSUME journal \in Seq(Record), journal # <<>>, NEW p \in Drafter,
           journal' = [journal EXCEPT ![1].commit = p, ![1].stage = "commit-created"]
    PROVE  /\ journal' \in Seq(Record) /\ Len(journal') = Len(journal)
           /\ journal'[1].tx = journal[1].tx /\ journal'[1].head = journal[1].head
           /\ journal'[1].preimage = journal[1].preimage /\ journal'[1].commit = p
           /\ \A i \in 1..Len(journal) : i # 1 => journal'[i] = journal[i]
<1> DEFINE r == [[journal[1] EXCEPT !.commit = p] EXCEPT !.stage = "commit-created"]
<1>1. 1 \in DOMAIN journal /\ journal[1] \in Record
  OBVIOUS
<1>2. /\ r \in Record /\ r.tx = journal[1].tx /\ r.head = journal[1].head
      /\ r.preimage = journal[1].preimage /\ r.commit = p
  BY <1>1 DEF Record, Stage, Recoverable
<1>3. journal' = [journal EXCEPT ![1] = r]
  BY <1>1
<1> HIDE DEF r
<1> QED  BY <1>1, <1>2, <1>3

-----------------------------------------------------------------------------
(***************************************************************************)
(* The journal of one command.                                             *)
(***************************************************************************)
LEMMA ChainFacts ==
    ASSUME TypeOK, NEW p \in Drafter
    PROVE  /\ Chain(p) => journal # <<>> /\ Owner(Top) = p
           /\ Single(p) => Top.tx = Draft(p) /\ Top.commit = None
           /\ Double(p) => Top.tx = Nested(p) /\ ~Single(p)
           /\ Chain(p) => Top.head = base[p] /\ Top.preimage = pre[p]
           /\ \A q \in Drafter : Chain(p) /\ Chain(q) => p = q
<1>1. journal \in Seq(Record)
  BY DEF TypeOK
<1>2. ASSUME NEW q \in Drafter, Single(q)
      PROVE  /\ journal # <<>> /\ Top.tx = Draft(q) /\ Top.commit = None
             /\ Top.head = base[q] /\ Top.preimage = pre[q] /\ Owner(Top) = q
  BY <1>1, <1>2, TxFacts DEF Single, RecordOf, Owner, Top
<1>3. ASSUME NEW q \in Drafter, Double(q)
      PROVE  /\ journal # <<>> /\ Top.tx = Nested(q)
             /\ Top.head = base[q] /\ Top.preimage = pre[q] /\ Owner(Top) = q
  BY <1>1, <1>3, TxFacts DEF Double, RecordOf, Owner, Top
<1>4. \A q \in Drafter : Double(q) => ~Single(q)
  BY DEF Single, Double
<1>5. \A q \in Drafter : Chain(q) => journal # <<>> /\ Owner(Top) = q
  BY <1>2, <1>3 DEF Chain
<1> QED  BY <1>2, <1>3, <1>4, <1>5 DEF Chain

\* An empty journal is nobody's.
LEMMA NoChain ==
    ASSUME Len(journal) = 0, NEW p
    PROVE  ~Chain(p) /\ ~Single(p) /\ ~Double(p)
BY DEF Chain, Single, Double

LEMMA NoChainNext ==
    ASSUME journal' = <<>>, NEW p
    PROVE  ~Chain(p)'
<1>1. Len(journal') = 0
  OBVIOUS
<1> QED  BY <1>1 DEF Chain, Single, Double

LEMMA EmptyJournal == TypeOK => (journal = <<>> <=> Len(journal) = 0)
BY DEF TypeOK

\* A step that changes at most stages.
LEMMA ChainStays ==
    ASSUME TypeOK, NEW p \in Drafter, Len(journal') = Len(journal),
           \A i \in 1..Len(journal) : SameButStage(journal'[i], journal[i]),
           base'[p] = base[p], pre'[p] = pre[p], OnBranch(p)' <=> OnBranch(p)
    PROVE  /\ Single(p)' <=> Single(p)
           /\ Double(p)' <=> Double(p)
           /\ Chain(p)' <=> Chain(p)
<1>1. Len(journal) \in Nat
  BY DEF TypeOK
<1>2. Single(p)' <=> Single(p)
  BY <1>1 DEF Single, RecordOf, SameButStage
<1>3. Double(p)' <=> Double(p)
  BY <1>1 DEF Double, RecordOf, SameButStage
<1> QED  BY <1>2, <1>3 DEF Chain

LEMMA ChainFrame ==
    ASSUME TypeOK, NEW p \in Drafter, UNCHANGED journal,
           base'[p] = base[p], pre'[p] = pre[p], OnBranch(p)' <=> OnBranch(p)
    PROVE  /\ Single(p)' <=> Single(p)
           /\ Double(p)' <=> Double(p)
           /\ Chain(p)' <=> Chain(p)
BY ChainStays DEF SameButStage

\* The innermost record goes.
LEMMA ChainPops ==
    ASSUME TypeOK, NEW p \in Drafter, journal # <<>>, journal' = Tail(journal),
           base'[p] = base[p], pre'[p] = pre[p]
    PROVE  /\ journal' \in Seq(Record)
           /\ Single(p) => journal' = <<>>
           /\ Double(p) => Single(p)'
           /\ Chain(p)' => Double(p) \/ ~Chain(p)
<1>1. journal \in Seq(Record)
  BY DEF TypeOK
<1>2. /\ journal' \in Seq(Record) /\ Len(journal') = Len(journal) - 1
      /\ \A i \in 1..Len(journal') : journal'[i] = journal[i + 1]
  BY <1>1, PopEffect
<1>3. Single(p) => journal' = <<>>
  BY <1>1, <1>2 DEF Single
<1>4. ASSUME Double(p) PROVE Single(p)'
  <2>1. Len(journal') = 1
    BY <1>2, <1>4 DEF Double
  <2>2. 1 \in 1..Len(journal')
    BY <2>1
  <2>3. journal'[1] = journal[2]
    BY <1>2, <2>2
  <2> QED  BY <1>4, <2>1, <2>3 DEF Double, Single, RecordOf
<1>5. Single(p) => ~Chain(p)'
  BY <1>3, NoChainNext
<1> QED  BY <1>2, <1>3, <1>4, <1>5 DEF Chain

\* A record appended to the branch.
LEMMA BranchGrows ==
    ASSUME TypeOK, NEW a \in Author, log' = Append(log, a)
    PROVE  /\ log' \in Seq(Author) /\ Tip' = Tip + 1 /\ Tip \in Nat
           /\ log'[Tip'] = a
           /\ \A x : OnBranch(x)' <=> OnBranch(x) \/ x = a
<1>1. log \in Seq(Author)
  BY DEF TypeOK
<1>2. /\ log' \in Seq(Author) /\ Len(log') = Len(log) + 1 /\ Len(log) \in Nat
      /\ log'[Len(log) + 1] = a /\ \A i \in 1..Len(log) : log'[i] = log[i]
  BY <1>1
<1>3. DOMAIN log = 1..Len(log) /\ DOMAIN log' = 1..(Len(log) + 1)
  BY <1>1, <1>2
<1>4. ASSUME NEW x PROVE OnBranch(x)' <=> OnBranch(x) \/ x = a
  <2>1. OnBranch(x) => OnBranch(x)'
    BY <1>2, <1>3 DEF OnBranch
  <2>2. x = a => OnBranch(x)'
    BY <1>2, <1>3 DEF OnBranch
  <2>3. OnBranch(x)' => OnBranch(x) \/ x = a
    <3> SUFFICES ASSUME NEW i \in DOMAIN log', log'[i] = x PROVE OnBranch(x) \/ x = a
      BY DEF OnBranch
    <3>1. i \in 1..Len(log) \/ i = Len(log) + 1
      BY <1>2, <1>3
    <3> QED  BY <1>2, <1>3, <3>1 DEF OnBranch
  <2> QED  BY <2>1, <2>2, <2>3
<1> QED  BY <1>2, <1>4 DEF Tip

LEMMA BranchFrame ==
    ASSUME UNCHANGED log
    PROVE  Tip' = Tip /\ \A x : OnBranch(x)' <=> OnBranch(x)
BY DEF Tip, OnBranch

\* None is not on the branch.
LEMMA NoneOffBranch == TypeOK => ~OnBranch(None) /\ Tip \in Nat
<1> SUFFICES ASSUME TypeOK PROVE ~OnBranch(None) /\ Tip \in Nat
  OBVIOUS
<1>1. log \in Seq(Author) /\ None \notin Author
  BY DraftAssumption DEF TypeOK, Author
<1>2. \A i \in DOMAIN log : log[i] \in Author
  BY <1>1
<1> QED  BY <1>1, <1>2 DEF OnBranch, Tip

-----------------------------------------------------------------------------
(***************************************************************************)
(* What is safe, marker or not: the frames of the steps.                   *)
(***************************************************************************)
LEMMA ChainUniqueNext ==
    ASSUME NEW p \in Drafter, NEW q \in Drafter, Chain(p)', Chain(q)'
    PROVE  p = q
<1>1. ASSUME NEW r \in Drafter, Chain(r)'
      PROVE  journal'[1].tx = Draft(r) \/ journal'[1].tx = Nested(r)
  BY <1>1 DEF Chain, Single, Double, RecordOf
<1> QED  BY <1>1, TxFacts

\* Whoever holds the lock, nobody else does.
LEMMA OnlyHolder ==
    ASSUME SafeInv, NEW h \in Proc, holder \in {None, h}
    PROVE  /\ \A q \in Drafter : q # h => pc[q] \notin InLock
           /\ \A s \in Syncer : s # h => pc[s] \notin Holding
BY ProcFacts DEF SafeInv, Locked

\* Under the lock the journal is one's own.
LEMMA OwnJournal ==
    ASSUME TypeOK, SafeInv, NEW p \in Drafter, pc[p] \in InLock
    PROVE  /\ holder = p
           /\ journal = <<>> \/ Chain(p)
           /\ \A q \in Drafter \ {p} : ~Chain(q)
<1>1. holder = p
  BY DEF SafeInv, Locked
<1>2. Shaped(p)
  BY DEF SafeInv
<1>3. journal = <<>> \/ Chain(p)
  BY <1>2 DEF Shaped, InLock, Chain
<1>4. \A q \in Drafter \ {p} : ~Chain(q)
  BY <1>3, ChainFacts
<1> QED  BY <1>1, <1>3, <1>4

\* What is left to show of a step of a command that has the lock or takes it.
LEMMA DraftStep ==
    ASSUME TypeOK, SafeInv, NEW p \in Drafter, NEW l \in DraftLabel, Moves(p, l),
           holder \in {None, p},
           holder' = IF l \in InLock THEN p ELSE None,
           UNCHANGED <<seen, obs>>,
           \A q \in Drafter \ {p} : /\ base'[q] = base[q] /\ pre'[q] = pre[q]
                                    /\ OnBranch(q)' <=> OnBranch(q),
           OnBranch(p) => OnBranch(p)', Tip' \in Nat, Tip' >= Tip, landed \subseteq landed',
           remote' \subseteq remote \cup {p}, marker' \in {marker, None, p},
           \A q \in Drafter \ {p} :
               /\ OnBranch(q) => Draft(q) \notin dirty' /\ Nested(q) \notin dirty'
               /\ pc[q] = "done" => Draft(q) \in Content',
           journal' = <<>> \/ (Chain(p)' /\ l \in Left),
           Shaped(p)', Branched(p)', Written(p)', Kept(p)'
    PROVE  SafeInv'
<1>moves. pc'[p] = l /\ (\A q \in Drafter \ {p} : pc'[q] = pc[q]) /\ \A s \in Syncer : pc'[s] = pc[s]
  BY ProcFacts DEF Moves
<1>others. (\A q \in Drafter \ {p} : pc[q] \notin InLock) /\ \A s \in Syncer : pc[s] \notin Holding
  <2>1. p \in Proc
    BY ProcFacts
  <2>2. /\ \A q \in Drafter : q # p => pc[q] \notin InLock
        /\ \A s \in Syncer : s # p => pc[s] \notin Holding
    BY <2>1, OnlyHolder
  <2> QED  BY <2>2, ProcFacts
<1>chain. \A q \in Drafter \ {p} : ~Chain(q)'
  BY ChainUniqueNext, NoChainNext
<1>1. Locked'
  BY <1>moves, <1>others, ProcFacts DEF Locked
<1>2. Chained'
  BY <1>moves DEF Chained
<1>3. ASSUME NEW q \in Drafter \ {p}
      PROVE  Shaped(q)' /\ Branched(q)' /\ Written(q)' /\ Kept(q)'
  <2>0. pc'[q] = pc[q] /\ pc[q] \notin InLock /\ ~Chain(q)' /\ q # None
    BY <1>moves, <1>others, <1>chain, ProcFacts
  <2>1. Shaped(q)'
    BY <2>0 DEF Shaped, InLock
  <2>2. Branched(q)'
    <3>1. Branched(q) /\ Tip \in Nat /\ base[q] \in Nat /\ Tip' >= Tip
      BY NoneOffBranch DEF SafeInv, TypeOK
    <3>2. OnBranch(q) => Tip' > base'[q]
      <4>1. OnBranch(q) => Tip > base[q]
        BY <3>1 DEF Branched
      <4> QED  BY <3>1, <4>1
    <3>3. pc'[q] \in BeforeCommit => ~OnBranch(q)'
      BY <2>0, <3>1 DEF Branched
    <3>4. pc'[q] \notin AfterCommit
      BY <2>0 DEF AfterCommit, InLock
    <3>5. OnBranch(q)' => {Draft(q), Nested(q)} \subseteq landed' \ dirty'
      BY <3>1 DEF Branched
    <3>6. (q \in remote' => OnBranch(q)') /\ (marker' = q => OnBranch(q)')
      BY <2>0, <3>1 DEF Branched
    <3> QED  BY <3>2, <3>3, <3>4, <3>5, <3>6 DEF Branched
  <2>3. Written(q)'
    BY <2>0 DEF Written, InLock, AfterCommit, DraftWritten
  <2>4. Kept(q)'
    BY <2>0 DEF Kept
  <2> QED  BY <2>1, <2>2, <2>3, <2>4
<1>4. ASSUME NEW s \in Syncer PROVE Observed(s)'
  <2>0. Observed(s) /\ pc'[s] = pc[s] /\ pc[s] \notin Holding /\ obs'[s] = obs[s]
    BY <1>moves, <1>others DEF SafeInv
  <2>1. pc[s] \in {"promote", "drop", "recover"} => obs[s] \in Record
    BY <2>0 DEF Observed
  <2>2. ASSUME pc[s] \in {"promote", "drop"}
        PROVE  /\ obs[s].tx = Nested(obs[s].commit) /\ obs[s].commit # None
               /\ OnBranch(obs[s].commit)'
    <3>1. /\ obs[s].tx = Nested(obs[s].commit) /\ obs[s].commit # None
          /\ OnBranch(obs[s].commit) /\ obs[s].commit \in Drafter
      BY <2>0, <2>1, <2>2 DEF Observed, Record
    <3>2. PICK a \in Drafter : a = obs[s].commit
      BY <3>1
    <3>3. OnBranch(a)'
      BY <3>1, <3>2
    <3> QED  BY <2>0, <3>1, <3>2, <3>3 DEF OnBranch
  <2> QED  BY <2>0, <2>1, <2>2 DEF Observed, Holding
<1> QED  BY <1>1, <1>2, <1>3, <1>4 DEF SafeInv

\* A step that leaves the branch and the files alone.
LEMMA LookStep ==
    ASSUME TypeOK, SafeInv, NEW p \in Drafter, NEW l \in DraftLabel, Moves(p, l),
           pc[p] \in InLock \ {"begin", "write"},
           l \notin {"begin", "write"},
           holder' = IF l \in InLock THEN p ELSE None,
           UNCHANGED <<log, files, seen, base, pre, obs>>,
           remote' \subseteq remote \cup (IF OnBranch(p) THEN {p} ELSE {}),
           marker' \in {marker, None} \cup (IF OnBranch(p) THEN {p} ELSE {}),
           l \in BeforeCommit => ~OnBranch(p),
           l \in AfterCommit => OnBranch(p),
           l \in DraftWritten => Draft(p) \in Content,
           l \in {"candidate", "commit", "advance"} => Nested(p) \in Content,
           journal' = <<>> \/ (Chain(p)' /\ l \in Left),
           Shaped(p)'
    PROVE  SafeInv'
<1>0. holder = p /\ Branched(p) /\ Kept(p) /\ p # None
  BY OwnJournal, ProcFacts DEF SafeInv
<1>1. Tip' = Tip /\ Tip \in Nat /\ \A x : OnBranch(x)' <=> OnBranch(x)
  BY BranchFrame, NoneOffBranch
<1>same. UNCHANGED <<dirty, landed>>
  BY DEF files
<1>moves. pc'[p] = l /\ \A q \in Drafter \ {p} : pc'[q] = pc[q]
  BY ProcFacts DEF Moves
<1>2. Branched(p)'
  <2>1. /\ l \in BeforeCommit => ~OnBranch(p)'
        /\ l \in AfterCommit => OnBranch(p)'
    BY <1>1
  <2>2. OnBranch(p)' => Tip' > base'[p] /\ {Draft(p), Nested(p)} \subseteq landed' \ dirty'
    BY <1>0, <1>1, <1>same DEF Branched
  <2>3. (p \in remote' => OnBranch(p)') /\ (marker' = p => OnBranch(p)')
    BY <1>0, <1>1 DEF Branched
  <2> QED  BY <1>moves, <2>1, <2>2, <2>3 DEF Branched
<1>3. Written(p)'
  BY <1>moves, <1>same DEF Written, Content
<1>4. Kept(p)'
  <2>1. Keeps(pre[p])
    BY <1>0 DEF Kept
  <2>2. ASSUME NEW q \in Drafter, pc'[q] = "done", Chain(p)' \/ l \in InLock
        PROVE  Draft(q) \in pre[p] \cup landed
    <3>1. CASE q = p
      <4>1. l \notin InLock /\ l \notin Left
        BY <1>moves, <2>2, <3>1 DEF InLock, Left
      <4>2. journal' = <<>>
        BY <4>1
      <4> QED  BY <2>2, <4>1, <4>2, NoChainNext
    <3>2. CASE q # p
      BY <1>moves, <2>1, <2>2, <3>2 DEF Keeps
    <3> QED  BY <3>1, <3>2
  <2> QED  BY <1>moves, <1>same, <2>2 DEF Kept, Keeps
<1>5. ASSUME NEW q \in Drafter \ {p}
      PROVE  /\ OnBranch(q) => Draft(q) \notin dirty' /\ Nested(q) \notin dirty'
             /\ pc[q] = "done" => Draft(q) \in Content'
  <2>1. Branched(q) /\ Written(q)
    BY DEF SafeInv
  <2> QED  BY <1>same, <2>1 DEF Branched, Written, Content, DraftWritten
<1>6. remote' \subseteq remote \cup {p} /\ marker' \in {marker, None, p}
  OBVIOUS
<1>7. holder \in {None, p} /\ Tip' \in Nat /\ Tip' >= Tip /\ landed \subseteq landed'
  BY <1>0, <1>1, <1>same
<1>8. \A q \in Drafter \ {p} : /\ base'[q] = base[q] /\ pre'[q] = pre[q]
                               /\ OnBranch(q)' <=> OnBranch(q)
  BY <1>1
<1>9. (OnBranch(p) => OnBranch(p)') /\ UNCHANGED <<seen, obs>>
  BY <1>1
<1> QED  BY <1>2, <1>3, <1>4, <1>5, <1>6, <1>7, <1>8, <1>9, DraftStep

\* A step that leaves the journal alone as well.
LEMMA LabelStep ==
    ASSUME TypeOK, SafeInv, NEW p \in Drafter, NEW l \in DraftLabel, Moves(p, l),
           pc[p] \in InLock \ {"begin", "write"},
           l \in InLock \ {"begin", "write"},
           holder' = p,
           UNCHANGED <<log, files, journal, seen, base, pre, obs>>,
           remote' \subseteq remote \cup (IF OnBranch(p) THEN {p} ELSE {}),
           marker' \in {marker, None} \cup (IF OnBranch(p) THEN {p} ELSE {}),
           l \in BeforeCommit => ~OnBranch(p),
           l \in AfterCommit => OnBranch(p),
           l \in DraftWritten => Draft(p) \in Content,
           l \in {"candidate", "commit", "advance"} => Nested(p) \in Content,
           Shaped(p)'
    PROVE  SafeInv'
<1>1. journal = <<>> \/ Chain(p)
  BY OwnJournal
<1>2. Chain(p)' <=> Chain(p)
  BY BranchFrame, ChainFrame
<1>3. l \in Left
  BY DEF Left
<1> QED  BY <1>1, <1>2, <1>3, LookStep

\* A step that changes bytes which no commit has, before any commit of its own.
LEMMA FilesStep ==
    ASSUME TypeOK, SafeInv, NEW p \in Drafter, NEW l \in DraftLabel, Moves(p, l),
           pc[p] \in InLock \ {"begin"}, l \in InLock \ {"begin", "write"},
           ~OnBranch(p), l \notin AfterCommit, holder' = p,
           UNCHANGED <<log, landed, remote, marker, seen, base, pre, obs>>,
           \A q \in Drafter \ {p} :
               /\ OnBranch(q) => Draft(q) \notin dirty' /\ Nested(q) \notin dirty'
               /\ pc[q] = "done" => Draft(q) \in Content',
           l \in DraftWritten => Draft(p) \in Content',
           l \in {"candidate", "commit", "advance"} => Nested(p) \in Content',
           journal' = <<>> \/ Chain(p)',
           Shaped(p)'
    PROVE  SafeInv'
<1>0. holder = p /\ Branched(p) /\ Kept(p) /\ p # None
  BY OwnJournal, ProcFacts DEF SafeInv
<1>1. Tip' = Tip /\ Tip \in Nat /\ \A x : OnBranch(x)' <=> OnBranch(x)
  BY BranchFrame, NoneOffBranch
<1>moves. pc'[p] = l /\ \A q \in Drafter \ {p} : pc'[q] = pc[q]
  BY ProcFacts DEF Moves
<1>2. Branched(p)'
  BY <1>0, <1>1, <1>moves DEF Branched
<1>3. Written(p)'
  BY <1>moves DEF Written
<1>4. Kept(p)'
  <2>1. Keeps(pre[p])
    BY <1>0 DEF Kept
  <2>2. pc'[p] # "done"
    BY <1>moves DEF InLock
  <2> QED  BY <1>moves, <2>1, <2>2 DEF Kept, Keeps
<1>5. remote' \subseteq remote \cup {p} /\ marker' \in {marker, None, p}
  OBVIOUS
<1>6. holder \in {None, p} /\ Tip' \in Nat /\ Tip' >= Tip /\ landed \subseteq landed'
  BY <1>0, <1>1
<1>7. \A q \in Drafter \ {p} : /\ base'[q] = base[q] /\ pre'[q] = pre[q]
                               /\ OnBranch(q)' <=> OnBranch(q)
  BY <1>1
<1>8. (OnBranch(p) => OnBranch(p)') /\ UNCHANGED <<seen, obs>> /\ l \in Left
      /\ holder' = IF l \in InLock THEN p ELSE None
  BY <1>1 DEF Left
<1> QED  BY <1>2, <1>3, <1>4, <1>5, <1>6, <1>7, <1>8, DraftStep

\* What a restoration leaves of the files of the others.
LEMMA RestoreFacts ==
    ASSUME SafeInv, NEW preimage, Keeps(preimage), RestoreTo(preimage), UNCHANGED landed
    PROVE  \A q \in Drafter :
               /\ OnBranch(q) => Draft(q) \notin dirty' /\ Nested(q) \notin dirty'
               /\ pc[q] = "done" => Draft(q) \in Content'
<1> SUFFICES ASSUME NEW q \in Drafter
             PROVE  /\ OnBranch(q) => Draft(q) \notin dirty' /\ Nested(q) \notin dirty'
                    /\ pc[q] = "done" => Draft(q) \in Content'
  OBVIOUS
<1>1. Branched(q)
  BY DEF SafeInv
<1>2. dirty' = preimage \ landed /\ Content' = dirty' \cup landed
  BY DEF RestoreTo, Content
<1>3. OnBranch(q) => Draft(q) \in landed /\ Nested(q) \in landed
  BY <1>1 DEF Branched
<1>4. pc[q] = "done" => Draft(q) \in preimage \cup landed
  BY DEF Keeps
<1> QED  BY <1>2, <1>3, <1>4

\* Clearing one's own record: the draft's, or the nested publication's.
LEMMA ClearDraft ==
    ASSUME TypeOK, NEW p \in Drafter, journal = <<>> \/ Chain(p),
           ClearJournal(Draft(p)), UNCHANGED <<base, pre>>
    PROVE  journal' = <<>> \/ (Double(p) /\ UNCHANGED journal)
<1>1. CASE journal = <<>>
  BY <1>1 DEF ClearJournal, IsTop
<1>2. CASE Single(p)
  <2>1. IsTop(Draft(p)) /\ journal # <<>>
    BY <1>2, ChainFacts DEF IsTop, Chain
  <2> QED  BY <1>2, <2>1, ChainPops DEF ClearJournal
<1>3. CASE Double(p)
  <2>1. ~IsTop(Draft(p))
    BY <1>3, ChainFacts, TxFacts DEF IsTop
  <2> QED  BY <1>3, <2>1 DEF ClearJournal
<1> QED  BY <1>1, <1>2, <1>3 DEF Chain

LEMMA ClearNested ==
    ASSUME TypeOK, NEW p \in Drafter, journal = <<>> \/ Chain(p),
           ClearJournal(Nested(p)), UNCHANGED <<log, base, pre>>
    PROVE  /\ journal = <<>> => journal' = <<>>
           /\ Chain(p) => Single(p)'
<1>1. CASE journal = <<>>
  <2>1. ~Chain(p)
    BY <1>1, ChainFacts
  <2> QED  BY <1>1, <2>1 DEF ClearJournal, IsTop
<1>2. CASE Single(p)
  <2>1. ~IsTop(Nested(p)) /\ journal # <<>>
    BY <1>2, ChainFacts, TxFacts DEF IsTop, Chain
  <2>2. UNCHANGED journal
    BY <2>1 DEF ClearJournal
  <2> QED  BY <1>2, <2>1, <2>2, ChainFrame, BranchFrame
<1>3. CASE Double(p)
  <2>1. IsTop(Nested(p)) /\ journal # <<>>
    BY <1>3, ChainFacts DEF IsTop, Chain
  <2> QED  BY <1>3, <2>1, ChainPops DEF ClearJournal
<1> QED  BY <1>1, <1>2, <1>3 DEF Chain

\* A change of the stage of whatever is on top.
LEMMA StageStays ==
    ASSUME TypeOK, NEW p \in Drafter, NEW tx, NEW st \in Stage, SetStage(tx, st),
           UNCHANGED <<log, base, pre>>
    PROVE  /\ Single(p)' <=> Single(p)
           /\ Double(p)' <=> Double(p)
           /\ Chain(p)' <=> Chain(p)
           /\ journal = <<>> => journal' = <<>>
           /\ journal' = <<>> => journal = <<>>
           /\ journal' \in Seq(Record)
<1>1. journal \in Seq(Record)
  BY DEF TypeOK
<1>2. /\ journal' \in Seq(Record) /\ Len(journal') = Len(journal)
      /\ \A i \in 1..Len(journal) : SameButStage(journal'[i], journal[i])
  BY <1>1, StageEffect
<1>3. (journal = <<>> <=> Len(journal) = 0) /\ (journal' = <<>> <=> Len(journal') = 0)
  BY <1>1, <1>2
<1> QED  BY <1>2, <1>3, ChainStays, BranchFrame

-----------------------------------------------------------------------------
(***************************************************************************)
(* The steps of a command.                                                 *)
(***************************************************************************)
\* The labels of a step under the lock, and the journal it is taken with.
LEMMA InLockFacts ==
    ASSUME TypeOK, SafeInv, NEW p \in Drafter, pc[p] \in InLock
    PROVE  /\ holder = p /\ (journal = <<>> \/ Chain(p)) /\ journal \in Seq(Record)
           /\ Shaped(p) /\ Branched(p) /\ Written(p) /\ Kept(p) /\ Labels
           /\ \A l \in InLock \cup {"failed", "done", "dead"} : l \in DraftLabel
<1>1. Shaped(p) /\ Branched(p) /\ Written(p) /\ Kept(p)
  BY DEF SafeInv
<1>2. Labels /\ journal \in Seq(Record)
  BY TypeParts DEF TypeOK
<1>3. \A l \in InLock \cup {"failed", "done", "dead"} : l \in DraftLabel
  BY DEF InLock, DraftLabel, Ended
<1> QED  BY <1>1, <1>2, <1>3, OwnJournal

LEMMA InvalidSafe ==
    ASSUME TypeOK, SafeInv, NEW p \in Drafter, Invalid(p)
    PROVE  SafeInv'
<1>0. /\ pc[p] = "validate" /\ Go(p, "catch")
      /\ UNCHANGED <<holder, log, files, remote, records, regs>>
  BY DEF Invalid
<1>same. UNCHANGED <<log, files, journal, marker, remote, seen, base, pre, obs>> /\ holder' = holder
  BY <1>0 DEF records, regs
<1>1. pc[p] \in InLock \ {"begin", "write"}
  BY <1>0 DEF InLock
<1>2. holder = p /\ Shaped(p) /\ Labels /\ "catch" \in DraftLabel
  BY <1>1, InLockFacts DEF InLock
<1>3. Moves(p, "catch")
  BY <1>0, <1>2, DraftGoes
<1>4. Single(p)' <=> Single(p)
  BY <1>same, BranchFrame, ChainFrame
<1>5. Shaped(p)'
  BY <1>0, <1>2, <1>3, <1>4, <1>same DEF Shaped, Moves
<1>6. "catch" \in InLock \ {"begin", "write"} /\ "catch" \notin BeforeCommit \cup AfterCommit \cup DraftWritten
  BY DEF InLock, BeforeCommit, AfterCommit, DraftWritten
<1> QED  BY <1>same, <1>1, <1>2, <1>3, <1>5, <1>6, LabelStep

LEMMA BeginSafe ==
    ASSUME TypeOK, SafeInv, NEW p \in Drafter, Begin(p)
    PROVE  SafeInv'
<1>0. /\ pc[p] = "begin" /\ Go(p, "write") /\ BeginJournal(Draft(p), base[p], dirty)
      /\ pre' = [pre EXCEPT ![p] = dirty]
      /\ UNCHANGED <<holder, log, dirty, landed, remote, marker, seen, base, obs>>
  BY DEF Begin, files
<1>i. pc[p] \in InLock
  BY <1>0 DEF InLock
<1>1. holder = p /\ Shaped(p) /\ Branched(p) /\ Labels /\ "write" \in DraftLabel
  BY <1>i, InLockFacts DEF InLock
<1>2. Moves(p, "write")
  BY <1>0, <1>1, DraftGoes
<1>moves. pc'[p] = "write" /\ \A q \in Drafter \ {p} : pc'[q] = pc[q]
  BY <1>2, ProcFacts DEF Moves
<1>types. /\ journal \in Seq(Record) /\ base[p] \in Nat /\ dirty \in SUBSET Tx
          /\ Draft(p) \in Tx /\ pre \in [Drafter -> SUBSET Tx]
  BY TxFacts DEF TypeOK
<1>3. journal = <<>> /\ Len(journal) = 0
  BY <1>0, <1>1 DEF Shaped
<1>pre. pre'[p] = dirty /\ \A q \in Drafter \ {p} : pre'[q] = pre[q]
  BY <1>0, <1>types
<1>4. /\ Len(journal') = Len(journal) + 1 /\ journal'[1].tx = Draft(p)
      /\ journal'[1].head = base[p] /\ journal'[1].preimage = dirty
      /\ journal'[1].commit = None
  BY <1>0, <1>types, PushEffect
<1>5. Single(p)'
  BY <1>0, <1>3, <1>4, <1>pre DEF Single, RecordOf
<1>6. Shaped(p)'
  BY <1>moves, <1>5 DEF Shaped
<1>b. ~OnBranch(p) /\ Tip' = Tip /\ Tip \in Nat /\ \A x : OnBranch(x)' <=> OnBranch(x)
  BY <1>0, <1>1, BranchFrame, NoneOffBranch DEF Branched, BeforeCommit
<1>7. Branched(p)'
  BY <1>0, <1>1, <1>moves, <1>b DEF Branched, AfterCommit
<1>8. Written(p)'
  <2>1. Content \subseteq seen[p][2]
    BY <1>0 DEF SafeInv, Written
  <2> QED  BY <1>0, <1>moves, <2>1 DEF Written, Content, DraftWritten, AfterCommit
<1>9. \A q \in Drafter : pc[q] = "done" => Draft(q) \in dirty \cup landed
  BY DEF SafeInv, Written, DraftWritten, Content
<1>10. Kept(p)'
  BY <1>0, <1>moves, <1>pre, <1>9 DEF Kept, Keeps
<1>11. ASSUME NEW q \in Drafter \ {p}
       PROVE  /\ OnBranch(q) => Draft(q) \notin dirty' /\ Nested(q) \notin dirty'
              /\ pc[q] = "done" => Draft(q) \in Content'
  BY <1>0, <1>9 DEF SafeInv, Branched, Content
<1>12. "write" \in Left /\ "write" \in InLock
  BY DEF Left, InLock
<1>13. Chain(p)'
  BY <1>5 DEF Chain
<1>14. \A q \in Drafter \ {p} : /\ base'[q] = base[q] /\ pre'[q] = pre[q]
                                /\ OnBranch(q)' <=> OnBranch(q)
  BY <1>0, <1>b, <1>pre
<1>15. holder \in {None, p} /\ holder' = IF "write" \in InLock THEN p ELSE None
  BY <1>0, <1>1, <1>12
<1>16. Tip' \in Nat /\ Tip' >= Tip
  BY <1>b
<1> QED  BY <1>0, <1>1, <1>2, <1>6, <1>7, <1>8, <1>10, <1>11, <1>12, <1>13, <1>14, <1>15, <1>16, <1>b,
            DraftStep

LEMMA WriteSafe ==
    ASSUME TypeOK, SafeInv, NEW p \in Drafter, Write(p)
    PROVE  SafeInv'
<1>1. PICK l \in {"nest", "validate", "catch"} : Go(p, l)
  BY DEF Write
<1>0. /\ pc[p] = "write" /\ dirty' = (dirty \cap seen[p][2]) \cup {Draft(p)}
      /\ UNCHANGED <<holder, log, landed, remote, marker, journal, seen, base, pre, obs>>
  BY DEF Write, records, regs
<1>i. pc[p] \in InLock \ {"begin"}
  BY <1>0 DEF InLock
<1>2. /\ holder = p /\ Shaped(p) /\ Branched(p) /\ Written(p) /\ Labels
      /\ l \in DraftLabel
  BY <1>i, InLockFacts DEF InLock
<1>3. Moves(p, l)
  BY <1>1, <1>2, DraftGoes
<1>4. ~OnBranch(p)
  BY <1>0, <1>2 DEF Branched, BeforeCommit
<1>5. dirty' = dirty \cup {Draft(p)}
  BY <1>0, <1>2 DEF Written, Content
<1>6. Single(p) /\ Single(p)'
  BY <1>0, <1>2, BranchFrame, ChainFrame DEF Shaped
<1>7. Shaped(p)'
  BY <1>3, <1>6 DEF Shaped, Moves
<1>8. ASSUME NEW q \in Drafter \ {p}
      PROVE  /\ OnBranch(q) => Draft(q) \notin dirty' /\ Nested(q) \notin dirty'
             /\ pc[q] = "done" => Draft(q) \in Content'
  <2>1. Branched(q) /\ Written(q) /\ Draft(q) # Draft(p) /\ Nested(q) # Draft(p)
    BY TxFacts DEF SafeInv
  <2> QED  BY <1>0, <1>5, <2>1 DEF Branched, Written, DraftWritten, Content
<1>9. Draft(p) \in Content' /\ Chain(p)' /\ holder' = p
  BY <1>0, <1>2, <1>5, <1>6 DEF Content, Chain
<1>10. /\ l \in InLock \ {"begin", "write"} /\ l \notin AfterCommit
       /\ l \notin {"candidate", "commit", "advance"}
  BY DEF InLock, AfterCommit
<1> QED  BY <1>0, <1>i, <1>3, <1>4, <1>7, <1>8, <1>9, <1>10, <1>2, FilesStep

LEMMA AcceptSafe ==
    ASSUME TypeOK, SafeInv, NEW p \in Drafter, Accept(p)
    PROVE  SafeInv'
<1>0. /\ pc[p] = "validate" /\ Go(p, "done") /\ holder' = None /\ ClearJournal(Draft(p))
      /\ UNCHANGED <<log, files, remote, marker, seen, base, pre, obs>>
  BY DEF Accept, End, regs
<1>i. pc[p] \in InLock \ {"begin", "write"}
  BY <1>0 DEF InLock
<1>1. Shaped(p) /\ Written(p) /\ Labels /\ "done" \in DraftLabel
  BY <1>i, InLockFacts
<1>2. Moves(p, "done")
  BY <1>0, <1>1, DraftGoes
<1>3. journal = <<>> \/ Single(p)
  BY <1>0, <1>1 DEF Shaped
<1>4. journal' = <<>>
  BY <1>0, <1>3, ClearDraft, ChainFacts DEF Chain
<1>5. Shaped(p)'
  BY <1>2 DEF Shaped, Moves
<1>6. Draft(p) \in Content
  BY <1>0, <1>1 DEF Written, DraftWritten
<1>7. "done" \notin InLock \cup BeforeCommit \cup AfterCommit
  BY DEF InLock, BeforeCommit, AfterCommit
<1> QED  BY <1>0, <1>i, <1>1, <1>2, <1>4, <1>5, <1>6, <1>7, LookStep

LEMMA CatchSafe ==
    ASSUME TypeOK, SafeInv, NEW p \in Drafter, Catch(p)
    PROVE  SafeInv'
<1>0. pc[p] = "catch" /\ UNCHANGED <<log, files, remote, marker, seen, base, pre, obs>>
  BY DEF Catch, regs
<1>i. pc[p] \in InLock \ {"begin", "write"}
  BY <1>0 DEF InLock
<1>1. /\ Shaped(p) /\ Branched(p) /\ Labels /\ (journal = <<>> \/ Chain(p))
      /\ "failed" \in DraftLabel /\ "restore" \in DraftLabel /\ holder = p
  BY <1>i, InLockFacts DEF InLock
<1>l. /\ "restoring" \in Stage /\ "draft-head-diverged" \in Stage
      /\ "failed" \in Left \ InLock /\ "restore" \in Left \cap InLock
      /\ "restore" \in BeforeCommit \ (AfterCommit \cup DraftWritten)
      /\ "failed" \notin BeforeCommit \cup AfterCommit \cup DraftWritten
  BY DEF Stage, Recoverable, Left, InLock, BeforeCommit, AfterCommit, DraftWritten
<1>2. CASE Tip = base[p] /\ SetStage(Draft(p), "restoring") /\ Go(p, "restore") /\ UNCHANGED holder
  <2>1. Moves(p, "restore")
    BY <1>1, <1>2, DraftGoes
  <2>2. ~OnBranch(p)
    BY <1>1, <1>2, NoneOffBranch DEF Branched
  <2>3. /\ Single(p)' <=> Single(p)
        /\ Double(p)' <=> Double(p)
        /\ Chain(p)' <=> Chain(p)
        /\ journal = <<>> => journal' = <<>>
    BY <1>0, <1>2, <1>l, StageStays
  <2>4. Shaped(p)'
    BY <1>0, <1>1, <2>1, <2>2, <2>3, BranchFrame DEF Shaped, Moves
  <2> QED  BY <1>0, <1>i, <1>1, <1>2, <1>l, <2>1, <2>2, <2>3, <2>4, LookStep
<1>3. CASE ClearJournal(Draft(p)) /\ Go(p, "failed") /\ holder' = None
  <2>1. Moves(p, "failed")
    BY <1>1, <1>3, DraftGoes
  <2>2. journal' = <<>> \/ (Double(p) /\ UNCHANGED journal)
    BY <1>0, <1>1, <1>3, ClearDraft
  <2>3. journal' = <<>> \/ Chain(p)'
    BY <1>0, <2>2, ChainFrame, BranchFrame DEF Chain
  <2>4. Shaped(p)'
    BY <2>1 DEF Shaped, Moves
  <2> QED  BY <1>0, <1>i, <1>1, <1>3, <1>l, <2>1, <2>3, <2>4, LookStep
<1>4. CASE SetStage(Draft(p), "draft-head-diverged") /\ Go(p, "failed") /\ holder' = None
  <2>1. Moves(p, "failed")
    BY <1>1, <1>4, DraftGoes
  <2>2. /\ Chain(p)' <=> Chain(p)
        /\ journal = <<>> => journal' = <<>>
    BY <1>0, <1>4, <1>l, StageStays
  <2>3. Shaped(p)'
    BY <2>1 DEF Shaped, Moves
  <2> QED  BY <1>0, <1>i, <1>1, <1>4, <1>l, <2>1, <2>2, <2>3, LookStep
<1> QED  BY <1>2, <1>3, <1>4 DEF Catch, End

LEMMA RestoreSafe ==
    ASSUME TypeOK, SafeInv, NEW p \in Drafter, Restore(p)
    PROVE  SafeInv'
<1>0. pc[p] = "restore" /\ UNCHANGED <<log, landed, remote, marker, seen, base, pre, obs>>
  BY DEF Restore, regs
<1>i. pc[p] \in InLock \ {"begin", "write"}
  BY <1>0 DEF InLock
<1>1. /\ Shaped(p) /\ Branched(p) /\ Kept(p) /\ Labels /\ (journal = <<>> \/ Chain(p))
      /\ "failed" \in DraftLabel /\ "restored" \in DraftLabel /\ holder = p
  BY <1>i, InLockFacts DEF InLock
<1>2. ~OnBranch(p) /\ Keeps(pre[p])
  BY <1>0, <1>1, <1>i DEF Branched, BeforeCommit, Kept
<1>l. /\ "rollback-failed" \in Stage /\ "failed" \in Left \ InLock
      /\ "restored" \in InLock \ ({"begin", "write"} \cup AfterCommit \cup DraftWritten)
      /\ "failed" \notin BeforeCommit \cup AfterCommit \cup DraftWritten
  BY DEF Stage, Recoverable, Left, InLock, BeforeCommit, AfterCommit, DraftWritten
<1>3. CASE RestoreTo(pre[p]) /\ Go(p, "restored") /\ UNCHANGED <<holder, journal>>
  <2>1. Moves(p, "restored")
    BY <1>1, <1>3, DraftGoes
  <2>2. /\ Single(p)' <=> Single(p)
        /\ Double(p)' <=> Double(p)
        /\ Chain(p)' <=> Chain(p)
    BY <1>0, <1>3, ChainFrame, BranchFrame
  <2>3. Shaped(p)'
    BY <1>0, <1>1, <1>2, <1>3, <2>1, <2>2, BranchFrame DEF Shaped, Moves
  <2>4. \A q \in Drafter :
            /\ OnBranch(q) => Draft(q) \notin dirty' /\ Nested(q) \notin dirty'
            /\ pc[q] = "done" => Draft(q) \in Content'
    BY <1>0, <1>2, <1>3, RestoreFacts
  <2>5. holder' = p /\ (journal' = <<>> \/ Chain(p)')
    BY <1>1, <1>3, <2>2
  <2> QED  BY <1>0, <1>i, <1>1, <1>2, <1>l, <2>1, <2>3, <2>4, <2>5, FilesStep
<1>4. CASE /\ SetStage(Draft(p), "rollback-failed") /\ Go(p, "failed") /\ holder' = None
           /\ UNCHANGED dirty
  <2>1. Moves(p, "failed")
    BY <1>1, <1>4, DraftGoes
  <2>2. /\ Chain(p)' <=> Chain(p)
        /\ journal = <<>> => journal' = <<>>
    BY <1>0, <1>4, <1>l, StageStays
  <2>3. Shaped(p)'
    BY <2>1 DEF Shaped, Moves
  <2>4. UNCHANGED files
    BY <1>0, <1>4 DEF files
  <2> QED  BY <1>0, <1>i, <1>1, <1>4, <1>l, <2>1, <2>2, <2>3, <2>4, LookStep
<1> QED  BY <1>3, <1>4 DEF Restore, End

LEMMA RestoredSafe ==
    ASSUME TypeOK, SafeInv, NEW p \in Drafter, Restored(p)
    PROVE  SafeInv'
<1>0. /\ pc[p] = "restored" /\ ClearJournal(Draft(p)) /\ Go(p, "failed") /\ holder' = None
      /\ UNCHANGED <<log, files, remote, marker, seen, base, pre, obs>>
  BY DEF Restored, End, regs
<1>i. pc[p] \in InLock \ {"begin", "write"}
  BY <1>0 DEF InLock
<1>1. Labels /\ (journal = <<>> \/ Chain(p)) /\ "failed" \in DraftLabel
  BY <1>i, InLockFacts
<1>2. Moves(p, "failed")
  BY <1>0, <1>1, DraftGoes
<1>3. journal' = <<>> \/ (Double(p) /\ UNCHANGED journal)
  BY <1>0, <1>1, ClearDraft
<1>4. journal' = <<>> \/ Chain(p)'
  BY <1>0, <1>3, ChainFrame, BranchFrame DEF Chain
<1>5. Shaped(p)'
  BY <1>2 DEF Shaped, Moves
<1>6. "failed" \in Left \ (InLock \cup BeforeCommit \cup AfterCommit \cup DraftWritten)
  BY DEF Left, InLock, BeforeCommit, AfterCommit, DraftWritten
<1> QED  BY <1>0, <1>i, <1>1, <1>2, <1>4, <1>5, <1>6, LookStep

LEMMA NestSafe ==
    ASSUME TypeOK, SafeInv, NEW p \in Drafter, Nest(p)
    PROVE  SafeInv'
<1>0. pc[p] = "nest" /\ UNCHANGED <<holder, log, files, remote, marker, seen, base, pre, obs>>
  BY DEF Nest, regs
<1>i. pc[p] \in InLock \ {"begin", "write"}
  BY <1>0 DEF InLock
<1>1. /\ Shaped(p) /\ Branched(p) /\ Written(p) /\ Labels /\ "catch" \in DraftLabel
      /\ "nested write" \in DraftLabel /\ holder = p
  BY <1>i, InLockFacts DEF InLock
<1>2. Single(p) /\ ~OnBranch(p) /\ Draft(p) \in Content
  BY <1>0, <1>1 DEF Shaped, Branched, BeforeCommit, Written, DraftWritten
<1>l. /\ "catch" \in InLock \ ({"begin", "write"} \cup BeforeCommit \cup AfterCommit \cup DraftWritten)
      /\ "nested write" \in Left \cap InLock /\ "nested write" \notin AfterCommit
  BY DEF Left, InLock, BeforeCommit, AfterCommit, DraftWritten
<1>3. CASE BeginJournal(Nested(p), base[p], pre[p]) /\ Go(p, "nested write")
  <2>1. Moves(p, "nested write")
    BY <1>1, <1>3, DraftGoes
  <2>2. /\ journal \in Seq(Record) /\ base[p] \in Nat /\ pre[p] \in SUBSET Tx /\ Nested(p) \in Tx
    BY TxFacts DEF TypeOK
  <2>3. /\ Len(journal') = Len(journal) + 1 /\ journal'[1].tx = Nested(p)
        /\ journal'[1].head = base[p] /\ journal'[1].preimage = pre[p]
        /\ journal'[1].commit = None
        /\ \A i \in 1..Len(journal) : journal'[i + 1] = journal[i]
    BY <1>3, <2>2, PushEffect
  <2>4. Len(journal') = 2 /\ journal'[2] = journal[1]
    BY <1>2, <2>3 DEF Single
  <2>5. Double(p)'
    BY <1>0, <1>2, <2>3, <2>4, BranchFrame DEF Double, Single, RecordOf
  <2>6. Shaped(p)'
    BY <2>1, <2>5 DEF Shaped, Moves
  <2>7. Chain(p)'
    BY <2>5 DEF Chain
  <2> QED  BY <1>0, <1>i, <1>1, <1>2, <1>l, <2>1, <2>6, <2>7, LookStep
<1>4. CASE Go(p, "catch") /\ UNCHANGED journal
  <2>1. Moves(p, "catch")
    BY <1>1, <1>4, DraftGoes
  <2>2. Single(p)'
    BY <1>0, <1>2, <1>4, ChainFrame, BranchFrame
  <2>3. Shaped(p)'
    BY <2>1, <2>2 DEF Shaped, Moves
  <2> QED  BY <1>0, <1>i, <1>1, <1>4, <1>l, <2>1, <2>3, LabelStep
<1> QED  BY <1>3, <1>4 DEF Nest

LEMMA NestedWriteSafe ==
    ASSUME TypeOK, SafeInv, NEW p \in Drafter, NestedWrite(p)
    PROVE  SafeInv'
<1>1. PICK l \in {"candidate", "unwind"} : Go(p, l)
  BY DEF NestedWrite
<1>0. /\ pc[p] = "nested write" /\ dirty' = dirty \cup {Nested(p)}
      /\ UNCHANGED <<holder, log, landed, remote, marker, journal, seen, base, pre, obs>>
  BY DEF NestedWrite, records, regs
<1>i. pc[p] \in InLock \ {"begin"}
  BY <1>0 DEF InLock
<1>2. holder = p /\ Shaped(p) /\ Branched(p) /\ Written(p) /\ Labels /\ l \in DraftLabel
  BY <1>i, InLockFacts DEF InLock
<1>3. Moves(p, l)
  BY <1>1, <1>2, DraftGoes
<1>4. ~OnBranch(p) /\ Double(p) /\ Draft(p) \in Content
  BY <1>0, <1>2 DEF Branched, BeforeCommit, Shaped, Written, DraftWritten
<1>5. Double(p)'
  BY <1>0, <1>4, BranchFrame, ChainFrame
<1>6. Shaped(p)'
  BY <1>3, <1>5 DEF Shaped, Moves
<1>7. ASSUME NEW q \in Drafter \ {p}
      PROVE  /\ OnBranch(q) => Draft(q) \notin dirty' /\ Nested(q) \notin dirty'
             /\ pc[q] = "done" => Draft(q) \in Content'
  <2>1. Branched(q) /\ Written(q) /\ Draft(q) # Nested(p) /\ Nested(q) # Nested(p)
    BY TxFacts DEF SafeInv
  <2> QED  BY <1>0, <2>1 DEF Branched, Written, DraftWritten, Content
<1>8. Draft(p) \in Content' /\ Nested(p) \in Content' /\ Chain(p)' /\ holder' = p
  BY <1>0, <1>2, <1>4, <1>5 DEF Content, Chain
<1>9. l \in InLock \ {"begin", "write"} /\ l \notin AfterCommit
  BY DEF InLock, AfterCommit
<1> QED  BY <1>0, <1>i, <1>2, <1>3, <1>4, <1>6, <1>7, <1>8, <1>9, FilesStep

LEMMA CandidateSafe ==
    ASSUME TypeOK, SafeInv, NEW p \in Drafter, VerifyCandidate(p)
    PROVE  SafeInv'
<1>0. /\ pc[p] = "candidate"
      /\ UNCHANGED <<holder, log, files, remote, marker, seen, base, pre, obs>>
  BY DEF VerifyCandidate, regs
<1>i. pc[p] \in InLock \ {"begin", "write"}
  BY <1>0 DEF InLock
<1>1. /\ Shaped(p) /\ Branched(p) /\ Written(p) /\ Labels /\ "commit" \in DraftLabel
      /\ "unwind" \in DraftLabel /\ holder = p
  BY <1>i, InLockFacts DEF InLock
<1>2. Double(p) /\ ~OnBranch(p) /\ Draft(p) \in Content /\ Nested(p) \in Content
  BY <1>0, <1>1 DEF Shaped, Branched, BeforeCommit, Written, DraftWritten
<1>l. /\ {"commit", "unwind"} \subseteq InLock \ ({"begin", "write"} \cup AfterCommit)
      /\ {"commit", "unwind"} \subseteq Left /\ "candidate-verified" \in Stage
  BY DEF Left, InLock, AfterCommit, Stage
<1>3. CASE SetStage(Nested(p), "candidate-verified") /\ Go(p, "commit")
  <2>1. Moves(p, "commit")
    BY <1>1, <1>3, DraftGoes
  <2>2. Double(p)'
    BY <1>0, <1>2, <1>3, <1>l, StageStays
  <2>3. Shaped(p)' /\ Chain(p)'
    BY <2>1, <2>2 DEF Shaped, Moves, Chain
  <2> QED  BY <1>0, <1>i, <1>1, <1>2, <1>l, <2>1, <2>3, LookStep
<1>4. CASE Go(p, "unwind") /\ UNCHANGED journal
  <2>1. Moves(p, "unwind")
    BY <1>1, <1>4, DraftGoes
  <2>2. Double(p)'
    BY <1>0, <1>2, <1>4, ChainFrame, BranchFrame
  <2>3. Shaped(p)'
    BY <2>1, <2>2 DEF Shaped, Moves
  <2> QED  BY <1>0, <1>i, <1>1, <1>2, <1>4, <1>l, <2>1, <2>3, LabelStep
<1> QED  BY <1>3, <1>4 DEF VerifyCandidate

LEMMA CommitTreeSafe ==
    ASSUME TypeOK, SafeInv, NEW p \in Drafter, CommitTree(p)
    PROVE  SafeInv'
<1>0. pc[p] = "commit" /\ UNCHANGED <<holder, log, files, remote, marker, seen, base, pre, obs>>
  BY DEF CommitTree, regs
<1>i. pc[p] \in InLock \ {"begin", "write"}
  BY <1>0 DEF InLock
<1>1. /\ Shaped(p) /\ Branched(p) /\ Written(p) /\ Labels /\ "advance" \in DraftLabel
      /\ "unwind" \in DraftLabel /\ holder = p
  BY <1>i, InLockFacts DEF InLock
<1>2. Double(p) /\ ~OnBranch(p) /\ Draft(p) \in Content /\ Nested(p) \in Content
  BY <1>0, <1>1 DEF Shaped, Branched, BeforeCommit, Written, DraftWritten
<1>l. /\ {"advance", "unwind"} \subseteq InLock \ ({"begin", "write"} \cup AfterCommit)
      /\ "advance" \in Left /\ "unwind" \notin DraftWritten
  BY DEF Left, InLock, AfterCommit, DraftWritten
<1>3. CASE /\ journal' = [journal EXCEPT ![1].commit = p, ![1].stage = "commit-created"]
           /\ Go(p, "advance")
  <2>1. Moves(p, "advance")
    BY <1>1, <1>3, DraftGoes
  <2>2. journal \in Seq(Record) /\ journal # <<>> /\ Len(journal) = 2
    BY <1>2, ChainFacts DEF TypeOK, Double, Chain
  <2>3. /\ Len(journal') = Len(journal)
        /\ journal'[1].tx = journal[1].tx /\ journal'[1].head = journal[1].head
        /\ journal'[1].preimage = journal[1].preimage /\ journal'[1].commit = p
        /\ \A i \in 1..Len(journal) : i # 1 => journal'[i] = journal[i]
    BY <1>3, <2>2, CommitEffect
  <2>4. Len(journal') = 2 /\ journal'[2] = journal[2]
    BY <2>2, <2>3
  <2>5. Double(p)'
    BY <1>0, <1>2, <2>3, <2>4 DEF Double, RecordOf
  <2>6. Shaped(p)'
    BY <2>1, <2>3, <2>5 DEF Shaped, Moves
  <2>7. Chain(p)'
    BY <2>5 DEF Chain
  <2> QED  BY <1>0, <1>i, <1>1, <1>2, <1>l, <2>1, <2>6, <2>7, LookStep
<1>4. CASE Go(p, "unwind") /\ UNCHANGED journal
  <2>1. Moves(p, "unwind")
    BY <1>1, <1>4, DraftGoes
  <2>2. Double(p)'
    BY <1>0, <1>2, <1>4, ChainFrame, BranchFrame
  <2>3. Shaped(p)'
    BY <2>1, <2>2 DEF Shaped, Moves
  <2> QED  BY <1>0, <1>i, <1>1, <1>2, <1>4, <1>l, <2>1, <2>3, LabelStep
<1> QED  BY <1>3, <1>4 DEF CommitTree

\* The branch takes the commit and all the bytes.
LEMMA CommitsSafe ==
    ASSUME TypeOK, SafeInv, NEW p \in Drafter, pc[p] = "advance", Commits(p),
           NEW l \in {"push", "catch"}, Moves(p, l), l = "catch" => returned'[p] = "broken",
           UNCHANGED <<holder, remote, journal, marker, seen, base, pre, obs>>
    PROVE  SafeInv'
<1>i. pc[p] \in InLock \ {"begin", "write"} /\ l \in DraftLabel
  BY DEF InLock, DraftLabel
<1>1. Shaped(p) /\ Branched(p) /\ Written(p) /\ Kept(p) /\ holder = p
  BY <1>i, InLockFacts DEF InLock
<1>2. /\ Double(p) /\ ~OnBranch(p) /\ Draft(p) \in Content /\ Nested(p) \in Content
      /\ journal[1].commit = p
  BY <1>1 DEF Shaped, Branched, BeforeCommit, Written, DraftWritten
<1>l. l \in Left \cap InLock /\ l \notin BeforeCommit
  BY DEF Left, InLock, BeforeCommit
<1>3. Tip = base[p] /\ log' = Append(log, p) /\ landed' = Content /\ dirty' = {}
  BY DEF Commits
<1>moves. pc'[p] = l /\ \A q \in Drafter \ {p} : pc'[q] = pc[q]
  BY ProcFacts DEF Moves
<1>a. p \in Author
  BY DEF Author
<1>b. Tip' = Tip + 1 /\ Tip \in Nat /\ \A x : OnBranch(x)' <=> OnBranch(x) \/ x = p
  BY <1>3, <1>a, BranchGrows
<1>c. Content' = Content /\ landed \subseteq landed'
  BY <1>3 DEF Content
<1>4. Double(p)'
  BY <1>2 DEF Double, RecordOf
<1>5. Shaped(p)' /\ Chain(p)'
  BY <1>moves, <1>4 DEF Shaped, Chain
<1>6. Branched(p)'
  BY <1>2, <1>3, <1>l, <1>moves, <1>b DEF Branched
<1>7. Written(p)'
  BY <1>2, <1>moves, <1>c DEF Written
<1>8. Kept(p)'
  <2>1. Keeps(pre[p])
    BY <1>1, <1>i DEF Kept
  <2> QED  BY <1>moves, <1>c, <2>1 DEF Kept, Keeps
<1>9. ASSUME NEW q \in Drafter \ {p}
      PROVE  /\ OnBranch(q) => Draft(q) \notin dirty' /\ Nested(q) \notin dirty'
             /\ pc[q] = "done" => Draft(q) \in Content'
  BY <1>3, <1>c DEF SafeInv, Written, DraftWritten
<1>10. \A q \in Drafter \ {p} : /\ base'[q] = base[q] /\ pre'[q] = pre[q]
                                /\ OnBranch(q)' <=> OnBranch(q)
  BY <1>b
<1>11. /\ holder \in {None, p} /\ holder' = IF l \in InLock THEN p ELSE None
       /\ Tip' \in Nat /\ Tip' >= Tip /\ (OnBranch(p) => OnBranch(p)')
  BY <1>1, <1>l, <1>b
<1> QED  BY <1>i, <1>l, <1>c, <1>5, <1>6, <1>7, <1>8, <1>9, <1>10, <1>11, DraftStep

LEMMA AdvanceFacts ==
    ASSUME TypeOK, SafeInv, NEW p \in Drafter, pc[p] = "advance"
    PROVE  /\ pc[p] \in InLock \ {"begin", "write"} /\ Labels /\ holder = p
           /\ {"push", "unwind", "catch"} \subseteq DraftLabel
           /\ {"unwind", "catch"} \subseteq
                 InLock \ ({"begin", "write"} \cup AfterCommit \cup DraftWritten)
           /\ Double(p) /\ ~OnBranch(p)
<1>i. pc[p] \in InLock \ {"begin", "write"}
  BY DEF InLock
<1>1. Shaped(p) /\ Branched(p) /\ Labels /\ holder = p
  BY <1>i, InLockFacts
<1>2. Double(p) /\ ~OnBranch(p)
  BY <1>1 DEF Shaped, Branched, BeforeCommit
<1> QED  BY <1>i, <1>1, <1>2 DEF InLock, AfterCommit, DraftWritten, DraftLabel

\* It does not.
LEMMA AdvanceFailsSafe ==
    ASSUME TypeOK, SafeInv, NEW p \in Drafter, pc[p] = "advance",
           NEW l \in {"unwind", "catch"}, Moves(p, l),
           UNCHANGED <<holder, log, files, remote, journal, marker, seen, base, pre, obs>>
    PROVE  SafeInv'
<1>1. /\ pc[p] \in InLock \ {"begin", "write"} /\ holder = p /\ l \in DraftLabel
      /\ l \in InLock \ ({"begin", "write"} \cup AfterCommit \cup DraftWritten)
      /\ Double(p) /\ ~OnBranch(p)
  BY AdvanceFacts
<1>2. Double(p)' /\ ~OnBranch(p)'
  BY <1>1, ChainFrame, BranchFrame
<1>3. Shaped(p)'
  BY <1>2 DEF Shaped, Moves
<1> QED  BY <1>1, <1>3, LabelStep DEF DraftWritten

LEMMA AdvanceSafe ==
    ASSUME TypeOK, SafeInv, NEW p \in Drafter, Advance(p)
    PROVE  SafeInv'
<1>0. /\ pc[p] = "advance"
      /\ UNCHANGED <<holder, remote, journal, marker, seen, base, pre, obs>>
  BY DEF Advance, records, regs
<1>1. Labels /\ "push" \in DraftLabel /\ "unwind" \in DraftLabel
  BY <1>0, AdvanceFacts
<1>2. CASE Commits(p) /\ Go(p, "push")
  BY <1>0, <1>1, <1>2, DraftGoes, CommitsSafe
<1>3. CASE Go(p, "unwind") /\ UNCHANGED <<log, files>>
  BY <1>0, <1>1, <1>3, DraftGoes, AdvanceFailsSafe
<1> QED  BY <1>2, <1>3 DEF Advance

LEMMA UnknownSafe ==
    ASSUME TypeOK, SafeInv, NEW p \in Drafter, OutcomeUnknown(p)
    PROVE  SafeInv'
<1>0. /\ pc[p] = "advance" /\ Go(p, "catch") /\ returned' = [returned EXCEPT ![p] = "broken"]
      /\ UNCHANGED <<holder, remote, journal, marker, seen, base, pre, obs>>
  BY DEF OutcomeUnknown, Break, records
<1>1. Labels /\ "catch" \in DraftLabel
  BY <1>0, AdvanceFacts
<1>2. Moves(p, "catch") /\ returned'[p] = "broken"
  BY <1>0, <1>1, DraftGoes DEF TypeOK
<1>3. CASE Commits(p)
  BY <1>0, <1>2, <1>3, CommitsSafe
<1>4. CASE UNCHANGED <<log, files>>
  BY <1>0, <1>2, <1>4, AdvanceFailsSafe
<1> QED  BY <1>3, <1>4 DEF OutcomeUnknown

LEMMA UnwindSafe ==
    ASSUME TypeOK, SafeInv, NEW p \in Drafter, Unwind(p)
    PROVE  SafeInv'
<1>0. pc[p] = "unwind" /\ UNCHANGED <<holder, log, landed, remote, marker, seen, base, pre, obs>>
  BY DEF Unwind
<1>i. pc[p] \in InLock \ {"begin", "write"}
  BY <1>0 DEF InLock
<1>1. /\ Shaped(p) /\ Branched(p) /\ Kept(p) /\ Labels
      /\ "unwound" \in DraftLabel /\ "catch" \in DraftLabel /\ holder = p
  BY <1>i, InLockFacts DEF InLock
<1>2. Double(p) /\ ~OnBranch(p) /\ Keeps(pre[p])
  BY <1>0, <1>1, <1>i DEF Shaped, Branched, BeforeCommit, Kept
<1>l. /\ {"restoring", "rollback-failed"} \subseteq Stage
      /\ {"unwound", "catch"} \subseteq
            (InLock \cap Left) \ ({"begin", "write"} \cup AfterCommit \cup DraftWritten)
      /\ "catch" \notin BeforeCommit
  BY DEF Stage, Recoverable, Left, InLock, BeforeCommit, AfterCommit, DraftWritten
<1>3. CASE RestoreTo(pre[p]) /\ SetStage(Nested(p), "restoring") /\ Go(p, "unwound")
  <2>1. Moves(p, "unwound")
    BY <1>1, <1>3, DraftGoes
  <2>2. Double(p)'
    BY <1>0, <1>2, <1>3, <1>l, StageStays
  <2>3. Shaped(p)' /\ Chain(p)'
    BY <2>1, <2>2 DEF Shaped, Moves, Chain
  <2>4. \A q \in Drafter :
            /\ OnBranch(q) => Draft(q) \notin dirty' /\ Nested(q) \notin dirty'
            /\ pc[q] = "done" => Draft(q) \in Content'
    BY <1>0, <1>2, <1>3, RestoreFacts
  <2>5. holder' = p
    BY <1>0, <1>1
  <2> QED  BY <1>0, <1>i, <1>1, <1>2, <1>l, <2>1, <2>3, <2>4, <2>5, FilesStep
<1>4. CASE /\ SetStage(Nested(p), "rollback-failed") \/ UNCHANGED journal
           /\ UNCHANGED dirty /\ Go(p, "catch")
  <2>1. Moves(p, "catch")
    BY <1>1, <1>4, DraftGoes
  <2>2. Double(p)'
    BY <1>0, <1>2, <1>4, <1>l, StageStays, ChainFrame, BranchFrame
  <2>3. Shaped(p)' /\ Chain(p)'
    BY <1>0, <1>2, <2>1, <2>2, BranchFrame DEF Shaped, Moves, Chain
  <2>4. UNCHANGED files
    BY <1>0, <1>4 DEF files
  <2> QED  BY <1>0, <1>i, <1>1, <1>4, <1>l, <2>1, <2>3, <2>4, LookStep
<1> QED  BY <1>3, <1>4 DEF Unwind, Break

LEMMA UnwoundSafe ==
    ASSUME TypeOK, SafeInv, NEW p \in Drafter, Unwound(p)
    PROVE  SafeInv'
<1>0. /\ pc[p] = "unwound" /\ ClearJournal(Nested(p)) /\ Go(p, "catch")
      /\ UNCHANGED <<holder, log, files, remote, marker, seen, base, pre, obs>>
  BY DEF Unwound, regs
<1>i. pc[p] \in InLock \ {"begin", "write"}
  BY <1>0 DEF InLock
<1>1. Shaped(p) /\ Labels /\ "catch" \in DraftLabel /\ holder = p
  BY <1>i, InLockFacts DEF InLock
<1>2. Moves(p, "catch")
  BY <1>0, <1>1, DraftGoes
<1>3. Chain(p)
  BY <1>0, <1>1 DEF Shaped, Chain
<1>4. Single(p)'
  BY <1>0, <1>3, ClearNested
<1>5. Shaped(p)' /\ Chain(p)'
  BY <1>2, <1>4 DEF Shaped, Moves, Chain
<1>6. "catch" \in (Left \cap InLock) \ (BeforeCommit \cup AfterCommit \cup DraftWritten)
  BY DEF Left, InLock, BeforeCommit, AfterCommit, DraftWritten
<1> QED  BY <1>0, <1>i, <1>1, <1>2, <1>5, <1>6, LookStep

LEMMA PushSafe ==
    ASSUME TypeOK, SafeInv, NEW p \in Drafter, Push(p)
    PROVE  SafeInv'
<1>1. PICK l \in {"pushed", "retain"} : Go(p, l)
  BY DEF Push
<1>0. /\ pc[p] = "push" /\ remote' \subseteq remote \cup {p}
      /\ UNCHANGED <<holder, log, files, journal, marker, seen, base, pre, obs>>
  BY DEF Push, records, regs
<1>i. pc[p] \in InLock \ {"begin", "write"}
  BY <1>0 DEF InLock
<1>2. holder = p /\ Shaped(p) /\ Branched(p) /\ Written(p) /\ Labels /\ l \in DraftLabel
  BY <1>i, InLockFacts DEF InLock
<1>3. Moves(p, l)
  BY <1>1, <1>2, DraftGoes
<1>4. Chain(p) /\ OnBranch(p) /\ Draft(p) \in Content
  BY <1>0, <1>2 DEF Shaped, Branched, AfterCommit, Written, DraftWritten
<1>5. Chain(p)'
  BY <1>0, <1>4, ChainFrame, BranchFrame
<1>6. Shaped(p)'
  BY <1>3, <1>5 DEF Shaped, Moves
<1>7. l \in InLock \ ({"begin", "write"} \cup BeforeCommit) /\ l \notin {"candidate", "commit", "advance"}
  BY DEF InLock, BeforeCommit
<1> QED  BY <1>0, <1>i, <1>2, <1>3, <1>4, <1>6, <1>7, LabelStep

LEMMA RetainSafe ==
    ASSUME TypeOK, SafeInv, NEW p \in Drafter, Retain(p)
    PROVE  SafeInv'
<1>0. /\ pc[p] = "retain" /\ Go(p, "retained") /\ marker' = p
      /\ UNCHANGED <<holder, log, files, remote, journal, seen, base, pre, obs>>
  BY DEF Retain, regs
<1>i. pc[p] \in InLock \ {"begin", "write"}
  BY <1>0 DEF InLock
<1>1. holder = p /\ Shaped(p) /\ Branched(p) /\ Written(p) /\ Labels /\ "retained" \in DraftLabel
  BY <1>i, InLockFacts DEF InLock
<1>2. Moves(p, "retained")
  BY <1>0, <1>1, DraftGoes
<1>3. Chain(p) /\ OnBranch(p) /\ Draft(p) \in Content
  BY <1>0, <1>1 DEF Shaped, Branched, AfterCommit, Written, DraftWritten
<1>4. Chain(p)'
  BY <1>0, <1>3, ChainFrame, BranchFrame
<1>5. Shaped(p)'
  BY <1>2, <1>4 DEF Shaped, Moves
<1>6. "retained" \in InLock \ ({"begin", "write"} \cup BeforeCommit)
  BY DEF InLock, BeforeCommit
<1> QED  BY <1>0, <1>i, <1>1, <1>2, <1>3, <1>5, <1>6, LabelStep

LEMMA PublishFailsSafe ==
    ASSUME TypeOK, SafeInv, NEW p \in Drafter, PublishFails(p)
    PROVE  SafeInv'
<1>0. /\ pc[p] \in {"push", "retain", "retained", "pushed", "clean up"} /\ Go(p, "catch")
      /\ returned' = [returned EXCEPT ![p] = "broken"]
      /\ UNCHANGED <<holder, log, files, remote, journal, marker, seen, base, pre, obs>>
  BY DEF PublishFails, Break, records
<1>i. pc[p] \in InLock \ {"begin", "write"}
  BY <1>0 DEF InLock
<1>1. holder = p /\ Shaped(p) /\ Labels /\ "catch" \in DraftLabel
  BY <1>i, InLockFacts DEF InLock
<1>2. Moves(p, "catch") /\ returned'[p] = "broken"
  BY <1>0, <1>1, DraftGoes DEF TypeOK
<1>3. Chain(p)
  BY <1>0, <1>1 DEF Shaped, Chain
<1>4. Single(p)' \/ Double(p)'
  BY <1>0, <1>3, ChainFrame, BranchFrame DEF Chain
<1>5. Shaped(p)'
  BY <1>2, <1>4 DEF Shaped, Moves
<1>6. "catch" \in InLock \ ({"begin", "write"} \cup BeforeCommit \cup AfterCommit \cup DraftWritten)
  BY DEF InLock, BeforeCommit, AfterCommit, DraftWritten
<1> QED  BY <1>0, <1>i, <1>1, <1>2, <1>5, <1>6, LabelStep

LEMMA RetainedSafe ==
    ASSUME TypeOK, SafeInv, NEW p \in Drafter, Retained(p)
    PROVE  SafeInv'
<1>1. PICK l \in {"catch", "validate"} : Go(p, l)
  BY DEF Retained
<1>0. /\ pc[p] = "retained" /\ ClearJournal(Nested(p))
      /\ UNCHANGED <<holder, log, files, remote, marker, seen, base, pre, obs>>
  BY DEF Retained
<1>i. pc[p] \in InLock \ {"begin", "write"}
  BY <1>0 DEF InLock
<1>2. holder = p /\ Shaped(p) /\ Branched(p) /\ Written(p) /\ Labels /\ l \in DraftLabel
  BY <1>i, InLockFacts DEF InLock
<1>3. Moves(p, l)
  BY <1>1, <1>2, DraftGoes
<1>4. Chain(p) /\ Draft(p) \in Content
  BY <1>0, <1>2 DEF Shaped, Written, DraftWritten, AfterCommit
<1>5. Single(p)'
  BY <1>0, <1>4, ClearNested
<1>6. Shaped(p)' /\ Chain(p)'
  BY <1>3, <1>5 DEF Shaped, Moves, Chain
<1>7. /\ l \in (InLock \cap Left) \ ({"begin", "write"} \cup BeforeCommit \cup AfterCommit)
      /\ l \notin {"candidate", "commit", "advance"}
  BY DEF InLock, Left, BeforeCommit, AfterCommit
<1> QED  BY <1>0, <1>i, <1>2, <1>3, <1>4, <1>6, <1>7, LookStep

LEMMA PushedSafe ==
    ASSUME TypeOK, SafeInv, NEW p \in Drafter, Pushed(p)
    PROVE  SafeInv'
<1>0. /\ pc[p] = "pushed" /\ ClearJournal(Nested(p)) /\ Go(p, "clean up")
      /\ UNCHANGED <<holder, log, files, remote, marker, seen, base, pre, obs>>
  BY DEF Pushed, regs
<1>i. pc[p] \in InLock \ {"begin", "write"}
  BY <1>0 DEF InLock
<1>1. holder = p /\ Shaped(p) /\ Branched(p) /\ Written(p) /\ Labels /\ "clean up" \in DraftLabel
  BY <1>i, InLockFacts DEF InLock
<1>2. Moves(p, "clean up")
  BY <1>0, <1>1, DraftGoes
<1>3. Chain(p) /\ OnBranch(p) /\ Draft(p) \in Content
  BY <1>0, <1>1 DEF Shaped, Branched, AfterCommit, Written, DraftWritten
<1>4. Single(p)'
  BY <1>0, <1>3, ClearNested
<1>5. Shaped(p)' /\ Chain(p)'
  BY <1>2, <1>4 DEF Shaped, Moves, Chain
<1>6. "clean up" \in (InLock \cap Left) \ ({"begin", "write"} \cup BeforeCommit)
  BY DEF InLock, Left, BeforeCommit
<1> QED  BY <1>0, <1>i, <1>1, <1>2, <1>3, <1>5, <1>6, LookStep

LEMMA CleanUpSafe ==
    ASSUME TypeOK, SafeInv, NEW p \in Drafter, CleanUp(p)
    PROVE  SafeInv'
<1>0. /\ pc[p] = "clean up" /\ Go(p, "validate") /\ marker' \in {marker, None}
      /\ ClearAnyJournal \/ UNCHANGED journal
      /\ UNCHANGED <<holder, log, files, remote, seen, base, pre, obs>>
  BY DEF CleanUp
<1>i. pc[p] \in InLock \ {"begin", "write"}
  BY <1>0 DEF InLock
<1>1. holder = p /\ Shaped(p) /\ Written(p) /\ Labels /\ "validate" \in DraftLabel
  BY <1>i, InLockFacts DEF InLock
<1>2. Moves(p, "validate")
  BY <1>0, <1>1, DraftGoes
<1>3. Single(p) /\ Draft(p) \in Content
  BY <1>0, <1>1 DEF Shaped, Written, DraftWritten, AfterCommit
<1>4. journal' = <<>> \/ Single(p)'
  <2>1. CASE ClearAnyJournal
    <3>1. journal # <<>> /\ journal' = Tail(journal)
      BY <1>3, <2>1, ChainFacts DEF ClearAnyJournal, Chain
    <3> QED  BY <1>0, <1>3, <3>1, ChainPops
  <2>2. CASE UNCHANGED journal
    BY <1>0, <1>3, <2>2, ChainFrame, BranchFrame
  <2> QED  BY <1>0, <2>1, <2>2
<1>5. Shaped(p)'
  BY <1>2, <1>4 DEF Shaped, Moves
<1>6. "validate" \in (InLock \cap Left) \ ({"begin", "write"} \cup BeforeCommit \cup AfterCommit)
  BY DEF InLock, Left, BeforeCommit, AfterCommit
<1>7. journal' = <<>> \/ Chain(p)'
  BY <1>4 DEF Chain
<1> QED  BY <1>0, <1>i, <1>1, <1>2, <1>3, <1>5, <1>6, <1>7, LookStep

\* A step of a command that has no lock and takes none.
LEMMA OutsideStep ==
    ASSUME TypeOK, SafeInv, NEW p \in Drafter, NEW l \in {"enter", "refused", "dead"},
           Moves(p, l), pc[p] \in {"load", "enter"},
           UNCHANGED <<holder, log, files, remote, marker, journal, base, pre, returned, obs>>,
           l = "enter" => pc[p] = "load",
           \A q \in Drafter \ {p} : seen'[q] = seen[q]
    PROVE  SafeInv'
<1>moves. /\ pc'[p] = l /\ (\A q \in Drafter \ {p} : pc'[q] = pc[q])
          /\ \A s \in Syncer : pc'[s] = pc[s]
  BY ProcFacts DEF Moves
<1>same. UNCHANGED <<dirty, landed>>
  BY DEF files
<1>b. Tip' = Tip /\ \A x : OnBranch(x)' <=> OnBranch(x)
  BY BranchFrame
<1>c. \A q \in Drafter : /\ Single(q)' <=> Single(q)
                         /\ Double(q)' <=> Double(q)
                         /\ Chain(q)' <=> Chain(q)
  BY <1>b, ChainFrame
<1>1. Locked'
  <2>1. l \notin InLock /\ pc[p] \notin InLock
    BY DEF InLock
  <2> QED  BY <1>moves, <2>1 DEF SafeInv, Locked
<1>2. Chained'
  <2>1. pc[p] \notin Left
    BY DEF Left, InLock
  <2> QED  BY <1>moves, <1>c, <2>1 DEF SafeInv, Chained
<1>d. \A q \in Drafter : pc'[q] = "done" <=> pc[q] = "done"
  BY <1>moves
<1>k. \A preimage : Keeps(preimage)' <=> Keeps(preimage)
  BY <1>d, <1>same DEF Keeps
<1>3. ASSUME NEW q \in Drafter PROVE Shaped(q)' /\ Branched(q)' /\ Written(q)' /\ Kept(q)'
  <2>0. Shaped(q) /\ Branched(q) /\ Written(q) /\ Kept(q)
    BY DEF SafeInv
  <2>1. CASE q = p
    <3>0. pc'[p] = l /\ l \notin InLock /\ l \notin AfterCommit /\ l \notin DraftWritten
          /\ pc[p] \in BeforeCommit
      BY <1>moves DEF InLock, AfterCommit, DraftWritten, BeforeCommit
    <3>1. Shaped(p)'
      BY <3>0 DEF Shaped, InLock
    <3>2. Branched(p)'
      BY <2>0, <2>1, <3>0, <1>b, <1>same DEF Branched
    <3>3. Written(p)'
      BY <3>0 DEF Written, InLock
    <3>4. Kept(p)'
      BY <2>0, <2>1, <3>0, <1>c, <1>k DEF Kept
    <3> QED  BY <2>1, <3>1, <3>2, <3>3, <3>4
  <2>2. CASE q # p
    <3>0. pc'[q] = pc[q] /\ seen'[q] = seen[q]
      BY <1>moves, <2>2
    <3>1. Shaped(q)'
      BY <2>0, <3>0, <1>b, <1>c DEF Shaped
    <3>2. Branched(q)'
      BY <2>0, <3>0, <1>b, <1>same DEF Branched
    <3>3. Written(q)'
      BY <2>0, <3>0, <1>same DEF Written, Content
    <3>4. Kept(q)'
      BY <2>0, <3>0, <1>c, <1>k DEF Kept
    <3> QED  BY <3>1, <3>2, <3>3, <3>4
  <2> QED  BY <2>1, <2>2
<1>4. ASSUME NEW s \in Syncer PROVE Observed(s)'
  <2>1. Observed(s) /\ pc'[s] = pc[s] /\ obs'[s] = obs[s]
    BY <1>moves DEF SafeInv
  <2> QED  BY <2>1, <1>b, <1>k DEF Observed
<1> QED  BY <1>1, <1>2, <1>3, <1>4 DEF SafeInv

LEMMA LoadSafe ==
    ASSUME TypeOK, SafeInv, NEW p \in Drafter, Load(p)
    PROVE  SafeInv'
<1>0. /\ pc[p] = "load" /\ Go(p, "enter") /\ seen' = [seen EXCEPT ![p] = <<Tip, Content>>]
      /\ UNCHANGED <<holder, log, files, remote, marker, journal, base, pre, returned, obs>>
  BY DEF Load, records
<1>1. Labels /\ "enter" \in DraftLabel
  BY TypeParts DEF DraftLabel
<1>2. Moves(p, "enter")
  BY <1>0, <1>1, DraftGoes
<1>3. \A q \in Drafter \ {p} : seen'[q] = seen[q]
  BY <1>0 DEF TypeOK
<1> QED  BY <1>0, <1>2, <1>3, OutsideStep

LEMMA EnterSafe ==
    ASSUME TypeOK, SafeInv, NEW p \in Drafter, Enter(p)
    PROVE  SafeInv'
<1>0. /\ pc[p] = "enter" /\ holder = None
      /\ UNCHANGED <<log, files, remote, marker, journal, seen, pre, returned, obs>>
  BY DEF Enter, records
<1>1. Labels /\ "begin" \in DraftLabel /\ "refused" \in DraftLabel
  BY TypeParts DEF DraftLabel, Ended
<1>2. CASE /\ seen[p] = <<Tip, Content>> /\ ~Pending(p) /\ holder' = p
           /\ base' = [base EXCEPT ![p] = Tip] /\ Go(p, "begin")
  <2>1. Moves(p, "begin")
    BY <1>1, <1>2, DraftGoes
  <2>moves. pc'[p] = "begin" /\ \A q \in Drafter \ {p} : pc'[q] = pc[q]
    BY <2>1, ProcFacts DEF Moves
  <2>b. Tip' = Tip /\ Tip \in Nat /\ \A x : OnBranch(x)' <=> OnBranch(x)
    BY <1>0, BranchFrame, NoneOffBranch
  <2>same. UNCHANGED <<dirty, landed>>
    BY <1>0 DEF files
  <2>2. journal = <<>>
    <3> SUFFICES ASSUME journal # <<>> PROVE FALSE
      OBVIOUS
    <3>1. PICK q \in Drafter : Chain(q) /\ pc[q] \in Left
      BY DEF SafeInv, Chained
    <3>2. Owner(Top) = q
      BY <3>1, ChainFacts
    <3>3. q = p
      BY <1>2, <3>2 DEF Pending
    <3> QED  BY <1>0, <3>1, <3>3 DEF Left, InLock
  <2>3. journal' = <<>> /\ ~Chain(p)'
    BY <1>0, <2>2, NoChainNext
  <2>4. Shaped(p)'
    BY <2>moves, <2>3 DEF Shaped
  <2>5. Branched(p)'
    <3>1. Branched(p) /\ ~OnBranch(p)
      BY <1>0 DEF SafeInv, Branched, BeforeCommit
    <3> QED  BY <1>0, <3>1, <2>moves, <2>b DEF Branched, AfterCommit
  <2>6. Written(p)'
    BY <1>0, <1>2, <2>moves, <2>same DEF Written, Content, DraftWritten, AfterCommit
  <2>7. Kept(p)'
    BY <2>moves, <2>3 DEF Kept
  <2>8. ASSUME NEW q \in Drafter \ {p}
        PROVE  /\ OnBranch(q) => Draft(q) \notin dirty' /\ Nested(q) \notin dirty'
               /\ pc[q] = "done" => Draft(q) \in Content'
    BY <2>same DEF SafeInv, Branched, Written, DraftWritten, Content
  <2>9. \A q \in Drafter \ {p} : /\ base'[q] = base[q] /\ pre'[q] = pre[q]
                                 /\ OnBranch(q)' <=> OnBranch(q)
    BY <1>0, <1>2, <2>b DEF TypeOK
  <2>10. "begin" \in InLock
    BY DEF InLock
  <2>11. /\ holder \in {None, p} /\ holder' = IF "begin" \in InLock THEN p ELSE None
         /\ Tip' \in Nat /\ Tip' >= Tip /\ landed \subseteq landed'
         /\ remote' \subseteq remote \cup {p} /\ marker' \in {marker, None, p}
         /\ (OnBranch(p) => OnBranch(p)') /\ UNCHANGED <<seen, obs>>
    BY <1>0, <1>2, <2>b, <2>same, <2>10
  <2> QED  BY <1>1, <2>1, <2>3, <2>4, <2>5, <2>6, <2>7, <2>8, <2>9, <2>11, DraftStep
<1>3. CASE Go(p, "refused") /\ UNCHANGED <<holder, base>>
  <2>1. Moves(p, "refused")
    BY <1>1, <1>3, DraftGoes
  <2> QED  BY <1>0, <1>3, <2>1, OutsideStep
<1> QED  BY <1>2, <1>3 DEF Enter

LEMMA CommandDiesSafe ==
    ASSUME TypeOK, SafeInv, NEW p \in Drafter, Crash(p)
    PROVE  SafeInv'
<1>0. /\ pc[p] \notin Ended /\ Go(p, "dead")
      /\ holder' = IF holder = p THEN None ELSE holder
      /\ UNCHANGED <<log, files, remote, marker, journal, seen, base, pre, returned, obs>>
  BY DEF Crash, records
<1>1. Labels /\ "dead" \in DraftLabel /\ pc[p] \in DraftLabel
  BY TypeParts DEF DraftLabel, Ended, Labels
<1>2. Moves(p, "dead")
  BY <1>0, <1>1, DraftGoes
<1>3. CASE pc[p] \in InLock
  <2>1. /\ holder = p /\ (journal = <<>> \/ Chain(p)) /\ Shaped(p) /\ Branched(p) /\ Written(p)
        /\ Kept(p)
    BY <1>3, InLockFacts
  <2>moves. pc'[p] = "dead" /\ \A q \in Drafter \ {p} : pc'[q] = pc[q]
    BY <1>2, ProcFacts DEF Moves
  <2>b. Tip' = Tip /\ Tip \in Nat /\ \A x : OnBranch(x)' <=> OnBranch(x)
    BY <1>0, BranchFrame, NoneOffBranch
  <2>same. UNCHANGED <<dirty, landed>>
    BY <1>0 DEF files
  <2>2. Chain(p)' <=> Chain(p)
    BY <1>0, <2>b, ChainFrame
  <2>3. Shaped(p)'
    BY <2>moves DEF Shaped
  <2>4. Branched(p)'
    BY <1>0, <2>1, <2>moves, <2>b, <2>same DEF Branched, BeforeCommit, AfterCommit
  <2>5. Written(p)'
    BY <2>moves DEF Written, DraftWritten, AfterCommit
  <2>6. Kept(p)'
    BY <1>0, <2>1, <2>2, <2>moves, <2>same DEF Kept, Keeps, InLock
  <2>7. ASSUME NEW q \in Drafter \ {p}
        PROVE  /\ OnBranch(q) => Draft(q) \notin dirty' /\ Nested(q) \notin dirty'
               /\ pc[q] = "done" => Draft(q) \in Content'
    BY <2>same DEF SafeInv, Branched, Written, DraftWritten, Content
  <2>8. \A q \in Drafter \ {p} : /\ base'[q] = base[q] /\ pre'[q] = pre[q]
                                 /\ OnBranch(q)' <=> OnBranch(q)
    BY <1>0, <2>b
  <2>9. "dead" \notin InLock /\ "dead" \in Left
    BY DEF InLock, Left
  <2>10. /\ holder \in {None, p} /\ holder' = IF "dead" \in InLock THEN p ELSE None
         /\ Tip' \in Nat /\ Tip' >= Tip /\ landed \subseteq landed'
         /\ remote' \subseteq remote \cup {p} /\ marker' \in {marker, None, p}
         /\ (OnBranch(p) => OnBranch(p)') /\ UNCHANGED <<seen, obs>>
         /\ journal' = <<>> \/ (Chain(p)' /\ "dead" \in Left)
    BY <1>0, <2>1, <2>2, <2>b, <2>same, <2>9
  <2> QED  BY <1>1, <1>2, <2>3, <2>4, <2>5, <2>6, <2>7, <2>8, <2>10, DraftStep
<1>4. CASE pc[p] \notin InLock
  <2>1. pc[p] \in {"load", "enter"}
    BY <1>0, <1>1, <1>4 DEF DraftLabel, InLock
  <2>2. holder' = holder
    BY <1>0, <1>4 DEF SafeInv, Locked
  <2> QED  BY <1>0, <1>2, <2>1, <2>2, OutsideStep
<1> QED  BY <1>3, <1>4

-----------------------------------------------------------------------------
(***************************************************************************)
(* The steps of a synchronizer, the commits by hand.                       *)
(***************************************************************************)
\* What becomes of the journal while no command moves.
ChainsKept ==
    Chained' /\ \A q \in Drafter : Shaped(q)' /\ (Chain(q)' => Chain(q))

LEMMA ChainsStay ==
    ASSUME TypeOK, SafeInv, UNCHANGED <<base, pre, returned>>,
           \A q \in Drafter : pc'[q] = pc[q] /\ (OnBranch(q)' <=> OnBranch(q)),
           Len(journal') = Len(journal), journal' = <<>> <=> journal = <<>>,
           \A i \in 1..Len(journal) : SameButStage(journal'[i], journal[i])
    PROVE  ChainsKept
<1>1. \A q \in Drafter : /\ Single(q)' <=> Single(q)
                         /\ Double(q)' <=> Double(q)
                         /\ Chain(q)' <=> Chain(q)
  BY ChainStays
<1>2. Chained'
  BY <1>1 DEF SafeInv, Chained
<1>3. ASSUME NEW q \in Drafter PROVE Shaped(q)'
  <2>1. Shaped(q) /\ pc'[q] = pc[q]
    BY DEF SafeInv
  <2>2. pc[q] = "advance" => Len(journal) = 2 /\ journal[1].commit = q
    BY <2>1 DEF Shaped, Double
  <2>3. Len(journal) = 2 => SameButStage(journal'[1], journal[1])
    OBVIOUS
  <2>4. pc[q] = "advance" => journal'[1].commit = q
    BY <2>2, <2>3 DEF SameButStage
  <2> QED  BY <1>1, <2>1, <2>4 DEF Shaped
<1> QED  BY <1>1, <1>2, <1>3 DEF ChainsKept

\* An innermost record goes while nobody is at work on it: nobody holds the
\* lock, or the record is of a commit that the branch has.
LEMMA ChainsPop ==
    ASSUME TypeOK, SafeInv, UNCHANGED <<log, base, pre, returned>>,
           \A q \in Drafter : pc'[q] = pc[q],
           journal # <<>>, journal' = Tail(journal),
           \/ \A q \in Drafter : pc[q] \notin InLock
           \/ \E c \in Drafter : Double(c) /\ OnBranch(c)
    PROVE  ChainsKept
<1>1. PICK c \in Drafter : Chain(c) /\ pc[c] \in Left
  BY DEF SafeInv, Chained
<1>2. \/ Single(c) /\ journal' = <<>>
      \/ Double(c) /\ Single(c)'
  BY <1>1, ChainPops DEF Chain
<1>3. ASSUME NEW q \in Drafter, Chain(q)' PROVE q = c /\ Chain(q)
  <2>1. journal' # <<>>
    BY <1>3, NoChainNext
  <2>2. Chain(c)'
    BY <1>2, <2>1 DEF Chain
  <2> QED  BY <1>1, <1>3, <2>2, ChainUniqueNext
<1>4. Chained'
  BY <1>1, <1>2 DEF Chained, Chain
<1>5. ASSUME NEW q \in Drafter PROVE Shaped(q)'
  <2>0. Shaped(q) /\ pc'[q] = pc[q]
    BY DEF SafeInv
  <2>1. CASE pc[q] \notin InLock
    BY <2>0, <2>1 DEF Shaped, InLock
  <2>2. CASE pc[q] \in InLock
    <3>1. PICK d \in Drafter : Double(d) /\ OnBranch(d)
      BY <2>2
    <3>2. d = c /\ q = c
      <4>1. Chain(d) /\ Chain(q)
        BY <2>2, <3>1, OwnJournal DEF Chain
      <4> QED  BY <1>1, <4>1, ChainFacts
    <3>3. Double(q) /\ ~Single(q) /\ OnBranch(q) /\ Single(q)'
      BY <1>2, <3>1, <3>2, ChainFacts
    <3>4. Branched(q)
      BY DEF SafeInv
    <3>5. pc[q] \notin {"begin", "write", "nest", "clean up", "nested write", "candidate",
                        "commit", "advance", "unwind", "unwound"}
      BY <2>0, <3>3, <3>4, <1>1 DEF Shaped, Branched, BeforeCommit
    <3> QED  BY <2>0, <3>3, <3>5 DEF Shaped, Chain
  <2> QED  BY <2>1, <2>2
<1> QED  BY <1>3, <1>4, <1>5 DEF ChainsKept

\* What is left to show of a step of a synchronizer.
LEMMA SyncFrame ==
    ASSUME TypeOK, SafeInv, NEW s \in Syncer, NEW l \in SyncLabel, Moves(s, l),
           UNCHANGED <<log, landed, seen, base, pre, returned>>,
           \A t \in Syncer \ {s} : obs'[t] = obs[t],
           \/ UNCHANGED <<holder, dirty>> /\ (l \in Holding <=> pc[s] \in Holding)
           \/ holder \in {None, s} /\ holder' = IF l \in Holding THEN s ELSE None,
           \A q \in Drafter :
               /\ OnBranch(q) => Draft(q) \notin dirty' /\ Nested(q) \notin dirty'
               /\ pc[q] = "done" => Draft(q) \in Content'
               /\ (q \in remote' \ remote \/ (marker' = q /\ marker # q)) => OnBranch(q),
           ChainsKept,
           Observed(s)'
    PROVE  SafeInv'
<1>moves. /\ pc'[s] = l /\ (\A q \in Drafter : pc'[q] = pc[q])
          /\ \A t \in Syncer \ {s} : pc'[t] = pc[t]
  BY ProcFacts DEF Moves
<1>b. Tip' = Tip /\ \A x : OnBranch(x)' <=> OnBranch(x)
  BY BranchFrame
<1>out. (holder \in {None, s}) => \A q \in Drafter : pc[q] \notin InLock
  BY ProcFacts DEF SafeInv, Locked
<1>1. Locked'
  <2>1. CASE UNCHANGED <<holder, dirty>> /\ (l \in Holding <=> pc[s] \in Holding)
    BY <1>moves, <2>1 DEF SafeInv, Locked
  <2>2. CASE holder \in {None, s} /\ holder' = IF l \in Holding THEN s ELSE None
    <3>1. \A t \in Syncer \ {s} : pc[t] \notin Holding
      BY <2>2, ProcFacts DEF SafeInv, Locked
    <3> QED  BY <1>moves, <1>out, <2>2, <3>1, ProcFacts DEF Locked
  <2> QED  BY <2>1, <2>2
<1>k. \A preimage : Keeps(preimage)' <=> Keeps(preimage)
  BY <1>moves DEF Keeps
<1>2. ASSUME NEW q \in Drafter PROVE Branched(q)' /\ Written(q)' /\ Kept(q)'
  <2>0. Branched(q) /\ Written(q) /\ Kept(q) /\ pc'[q] = pc[q]
    BY <1>moves DEF SafeInv
  <2>1. Branched(q)'
    <3>1. OnBranch(q)' => {Draft(q), Nested(q)} \subseteq landed' \ dirty'
      BY <2>0, <1>b DEF Branched
    <3>2. q \in remote' => OnBranch(q)'
      BY <2>0, <1>b DEF Branched
    <3>3. marker' = q => OnBranch(q)'
      BY <2>0, <1>b DEF Branched
    <3> QED  BY <2>0, <3>1, <3>2, <3>3, <1>b DEF Branched
  <2>2. Written(q)'
    <3>1. CASE UNCHANGED dirty
      BY <2>0, <3>1 DEF Written, Content
    <3>2. CASE holder \in {None, s}
      <4>1. pc[q] \notin InLock
        BY <1>out, <3>2
      <4> QED  BY <2>0, <4>1 DEF Written, DraftWritten, AfterCommit, InLock
    <3> QED  BY <3>1, <3>2
  <2>3. Kept(q)'
    BY <2>0, <1>k DEF Kept, ChainsKept
  <2> QED  BY <2>1, <2>2, <2>3
<1>3. ASSUME NEW t \in Syncer PROVE Observed(t)'
  <2>1. CASE t = s
    BY <2>1
  <2>2. CASE t # s
    <3>1. Observed(t) /\ pc'[t] = pc[t] /\ obs'[t] = obs[t]
      BY <1>moves, <2>2 DEF SafeInv
    <3> QED  BY <3>1, <1>b, <1>k DEF Observed
  <2> QED  BY <2>1, <2>2
<1> QED  BY <1>1, <1>2, <1>3 DEF SafeInv, ChainsKept

LEMMA ChainsSame ==
    ASSUME TypeOK, SafeInv, UNCHANGED <<log, journal, base, pre, returned>>,
           \A q \in Drafter : pc'[q] = pc[q]
    PROVE  ChainsKept
<1>1. \A q \in Drafter : OnBranch(q)' <=> OnBranch(q)
  BY BranchFrame
<1> QED  BY <1>1, ChainsStay DEF SameButStage

LEMMA ChainsStage ==
    ASSUME TypeOK, SafeInv, UNCHANGED <<log, base, pre, returned>>,
           \A q \in Drafter : pc'[q] = pc[q],
           NEW tx, NEW st \in Stage, SetStage(tx, st)
    PROVE  ChainsKept
<1>1. \A q \in Drafter : OnBranch(q)' <=> OnBranch(q)
  BY BranchFrame
<1>2. journal \in Seq(Record)
  BY DEF TypeOK
<1>3. /\ journal' \in Seq(Record) /\ Len(journal') = Len(journal)
      /\ \A i \in 1..Len(journal) : SameButStage(journal'[i], journal[i])
  BY <1>2, StageEffect
<1>4. journal' = <<>> <=> journal = <<>>
  BY <1>2, <1>3
<1> QED  BY <1>1, <1>3, <1>4, ChainsStay

LEMMA FilesStay ==
    ASSUME SafeInv, UNCHANGED files
    PROVE  \A q \in Drafter :
               /\ OnBranch(q) => Draft(q) \notin dirty' /\ Nested(q) \notin dirty'
               /\ pc[q] = "done" => Draft(q) \in Content'
BY DEF SafeInv, Branched, Written, DraftWritten, Content, files

\* The labels of a step of a synchronizer, and the record it has in hand.
LEMMA SyncFacts ==
    ASSUME TypeOK, SafeInv, NEW s \in Syncer, NEW l \in SyncLabel, Go(s, l)
    PROVE  /\ Moves(s, l) /\ pc'[s] = l /\ Observed(s)
           /\ \A q \in Drafter : pc'[q] = pc[q]
           /\ pc[s] \in Holding => holder = s
           /\ holder \in {None, s} => \A q \in Drafter : pc[q] \notin InLock
<1>1. Moves(s, l)
  BY SyncGoes, TypeParts
<1>2. holder \in {None, s} => \A q \in Drafter : pc[q] \notin InLock
  BY ProcFacts DEF SafeInv, Locked
<1> QED  BY <1>1, <1>2, ProcFacts DEF Moves, SafeInv, Locked

\* The journal at the path is some command's that left it or is at work on it.
LEMMA TopFacts ==
    ASSUME TypeOK, SafeInv, journal # <<>>
    PROVE  \E c \in Drafter :
               /\ Chain(c) /\ pc[c] \in Left /\ Top \in Record /\ Owner(Top) = c
               /\ Top.head = base[c] /\ Top.preimage = pre[c]
               /\ Single(c) => Top.tx = Draft(c) /\ Top.commit = None
               /\ Double(c) => Top.tx = Nested(c) /\ Top.commit \in {None, c}
               /\ Double(c) /\ OnBranch(c) => Top.commit = c
<1>1. PICK c \in Drafter : Chain(c) /\ pc[c] \in Left
  BY DEF SafeInv, Chained
<1>2. Top \in Record
  BY DEF TypeOK, Top
<1>3. Double(c) => Top.commit \in {None, c} /\ (OnBranch(c) => Top.commit = c)
  BY DEF Double, Top
<1> QED  BY <1>1, <1>2, <1>3, ChainFacts

LEMMA ReadSafe ==
    ASSUME TypeOK, SafeInv, NEW s \in Syncer, Read(s)
    PROVE  SafeInv'
<1>0. /\ pc[s] = "idle"
      /\ UNCHANGED <<holder, log, files, remote, journal, marker, seen, base, pre, returned>>
  BY DEF Read, records
<1>same. UNCHANGED <<dirty, landed>>
  BY <1>0 DEF files
<1>l. /\ {"sync", "recover", "promote", "drop"} \subseteq SyncLabel \ Holding
      /\ pc[s] \notin Holding
  BY <1>0 DEF SyncLabel, Holding
<1>1. \A t \in Syncer \ {s} : obs'[t] = obs[t]
  BY DEF Read, TypeOK
<1>2. \A q \in Drafter :
          /\ OnBranch(q) => Draft(q) \notin dirty' /\ Nested(q) \notin dirty'
          /\ pc[q] = "done" => Draft(q) \in Content'
          /\ (q \in remote' \ remote \/ (marker' = q /\ marker # q)) => OnBranch(q)
  BY <1>0, FilesStay
<1>3. ASSUME NEW l \in {"sync", "recover", "promote", "drop"}, Go(s, l), Observed(s)'
      PROVE  SafeInv'
  <2>1. Moves(s, l) /\ \A q \in Drafter : pc'[q] = pc[q]
    BY <1>3, <1>l, SyncFacts
  <2>2. ChainsKept
    BY <1>0, <2>1, ChainsSame
  <2> QED  BY <1>0, <1>same, <1>l, <1>1, <1>2, <1>3, <2>1, <2>2, SyncFrame
<1>4. CASE Go(s, "sync")
  <2>1. pc'[s] = "sync"
    BY <1>4, <1>l, SyncFacts
  <2>2. Observed(s)'
    BY <2>1 DEF Observed
  <2> QED  BY <1>3, <1>4, <2>2
<1>5. CASE /\ journal # <<>> /\ obs' = [obs EXCEPT ![s] = Top]
           /\ \/ Go(s, "recover")
              \/ OnBranch(Top.commit) /\ Go(s, "promote")
              \/ Top.commit \in remote /\ Go(s, "drop")
  <2>1. PICK c \in Drafter :
            /\ Chain(c) /\ Top \in Record
            /\ Single(c) => Top.commit = None
            /\ Double(c) => Top.tx = Nested(c) /\ Top.commit \in {None, c}
    BY <1>5, TopFacts
  <2>2. obs'[s] = Top
    BY <1>5 DEF TypeOK
  <2>3. Branched(c) /\ ~OnBranch(None) /\ None \notin remote
    BY NoneOffBranch, ProcFacts DEF SafeInv, TypeOK
  <2>4. ASSUME OnBranch(Top.commit) \/ Top.commit \in remote
        PROVE  Top.tx = Nested(c) /\ Top.commit = c /\ OnBranch(c) /\ c # None
    <3>1. Top.commit # None
      BY <2>3, <2>4
    <3>2. Double(c) /\ Top.commit = c
      BY <2>1, <3>1 DEF Chain
    <3> QED  BY <2>1, <2>3, <2>4, <3>2, ProcFacts DEF Branched
  <2>5. CASE Go(s, "recover")
    <3>1. pc'[s] = "recover"
      BY <2>5, <1>l, SyncFacts
    <3>2. Observed(s)'
      BY <2>1, <2>2, <3>1 DEF Observed
    <3> QED  BY <1>3, <2>5, <3>2
  <2>6. ASSUME NEW l \in {"promote", "drop"}, Go(s, l), OnBranch(Top.commit) \/ Top.commit \in remote
        PROVE  SafeInv'
    <3>1. pc'[s] = l
      BY <2>6, <1>l, SyncFacts
    <3>2. OnBranch(c)'
      BY <1>0, <2>4, <2>6, BranchFrame
    <3>3. PICK r : r = obs'[s] /\ r = Top
      BY <2>2
    <3>4. r \in Record /\ r.tx = Nested(r.commit) /\ r.commit # None /\ r.commit = c
      BY <2>1, <2>4, <2>6, <3>3
    <3>5. Observed(s)'
      BY <3>1, <3>2, <3>3, <3>4 DEF Observed
    <3> QED  BY <1>3, <2>6, <3>5
  <2> QED  BY <1>5, <2>5, <2>6
<1> QED  BY <1>4, <1>5 DEF Read

LEMMA PromoteSafe ==
    ASSUME TypeOK, SafeInv, NEW s \in Syncer, Promote(s)
    PROVE  SafeInv'
<1>0. /\ pc[s] = "promote" /\ marker' = obs[s].commit /\ Go(s, "drop")
      /\ UNCHANGED <<holder, log, files, remote, journal, seen, base, pre, returned, obs>>
  BY DEF Promote, regs
<1>same. UNCHANGED <<dirty, landed>>
  BY <1>0 DEF files
<1>l. "drop" \in SyncLabel \ Holding /\ pc[s] \notin Holding
  BY <1>0 DEF SyncLabel, Holding
<1>1. Moves(s, "drop") /\ pc'[s] = "drop" /\ Observed(s) /\ \A q \in Drafter : pc'[q] = pc[q]
  BY <1>0, <1>l, SyncFacts
<1>2. ChainsKept
  BY <1>0, <1>1, ChainsSame
<1>3. /\ obs[s] \in Record /\ obs[s].tx = Nested(obs[s].commit) /\ obs[s].commit # None
      /\ OnBranch(obs[s].commit)
  BY <1>0, <1>1 DEF Observed
<1>4. \A q \in Drafter :
          /\ OnBranch(q) => Draft(q) \notin dirty' /\ Nested(q) \notin dirty'
          /\ pc[q] = "done" => Draft(q) \in Content'
          /\ (q \in remote' \ remote \/ (marker' = q /\ marker # q)) => OnBranch(q)
  BY <1>0, <1>3, FilesStay
<1>5. Observed(s)'
  BY <1>0, <1>1, <1>3 DEF Observed, OnBranch
<1> QED  BY <1>0, <1>same, <1>l, <1>1, <1>2, <1>4, <1>5, SyncFrame

\* Idle again, with nothing in hand.
LEMMA IdleFacts ==
    ASSUME TypeOK, SafeInv, NEW s \in Syncer, Idle(s)
    PROVE  /\ Moves(s, "idle") /\ "idle" \in SyncLabel \ Holding
           /\ \A q \in Drafter : pc'[q] = pc[q]
           /\ \A t \in Syncer \ {s} : obs'[t] = obs[t]
           /\ Observed(s) /\ Observed(s)'
<1>1. "idle" \in SyncLabel \ Holding
  BY DEF SyncLabel, Holding
<1>2. Moves(s, "idle") /\ pc'[s] = "idle" /\ Observed(s) /\ \A q \in Drafter : pc'[q] = pc[q]
  BY <1>1, SyncFacts DEF Idle
<1>3. \A t \in Syncer \ {s} : obs'[t] = obs[t]
  BY DEF Idle, TypeOK
<1>4. Observed(s)'
  BY <1>2 DEF Observed
<1> QED  BY <1>1, <1>2, <1>3, <1>4

LEMMA DropSafe ==
    ASSUME TypeOK, SafeInv, NEW s \in Syncer, Drop(s)
    PROVE  SafeInv'
<1>0. /\ pc[s] = "drop" /\ ClearJournal(obs[s].tx) /\ Idle(s)
      /\ UNCHANGED <<holder, log, files, remote, marker, seen, base, pre, returned>>
  BY DEF Drop
<1>same. UNCHANGED <<dirty, landed>> /\ pc[s] \notin Holding
  BY <1>0 DEF files, Holding
<1>1. /\ Moves(s, "idle") /\ "idle" \in SyncLabel \ Holding
      /\ \A q \in Drafter : pc'[q] = pc[q]
      /\ \A t \in Syncer \ {s} : obs'[t] = obs[t]
      /\ Observed(s) /\ Observed(s)'
  BY <1>0, IdleFacts
<1>2. ChainsKept
  <2>1. CASE IsTop(obs[s].tx)
    <3>1. journal # <<>> /\ journal' = Tail(journal) /\ Top.tx = obs[s].tx
      BY <1>0, <2>1 DEF ClearJournal, IsTop
    <3>2. PICK c \in Drafter :
              /\ Chain(c) /\ Single(c) => Top.tx = Draft(c)
              /\ Double(c) => Top.tx = Nested(c)
      BY <3>1, TopFacts
    <3>3. PICK d \in Drafter : /\ Chain(d) /\ (Single(d) => Top.tx = Draft(d))
                               /\ (Double(d) => Top.tx = Nested(d))
      BY <3>1, TopFacts
    <3>4. obs[s].tx = Nested(obs[s].commit) /\ OnBranch(obs[s].commit)
      BY <1>0, <1>1 DEF Observed
    <3>5. Double(d) /\ Top.tx = Nested(d)
      BY <3>1, <3>3, <3>4, TxFacts DEF Chain
    <3>6. d = obs[s].commit
      BY <3>1, <3>4, <3>5, TxFacts
    <3>7. OnBranch(d)
      BY <3>4, <3>6
    <3> QED  BY <1>0, <1>1, <3>1, <3>5, <3>7, ChainsPop
  <2>2. CASE ~IsTop(obs[s].tx)
    BY <1>0, <1>1, <2>2, ChainsSame DEF ClearJournal
  <2> QED  BY <2>1, <2>2
<1>3. \A q \in Drafter :
          /\ OnBranch(q) => Draft(q) \notin dirty' /\ Nested(q) \notin dirty'
          /\ pc[q] = "done" => Draft(q) \in Content'
          /\ (q \in remote' \ remote \/ (marker' = q /\ marker # q)) => OnBranch(q)
  BY <1>0, FilesStay
<1> QED  BY <1>0, <1>same, <1>1, <1>2, <1>3, SyncFrame

LEMMA RecoverSafe ==
    ASSUME TypeOK, SafeInv, NEW s \in Syncer, Recover(s)
    PROVE  SafeInv'
<1>0. /\ pc[s] = "recover" /\ holder = None
      /\ UNCHANGED <<log, files, remote, marker, journal, seen, base, pre, returned>>
  BY DEF Recover, records
<1>same. UNCHANGED <<dirty, landed>> /\ pc[s] \notin Holding
  BY <1>0 DEF files, Holding
<1>1. \A q \in Drafter :
          /\ OnBranch(q) => Draft(q) \notin dirty' /\ Nested(q) \notin dirty'
          /\ pc[q] = "done" => Draft(q) \in Content'
          /\ (q \in remote' \ remote \/ (marker' = q /\ marker # q)) => OnBranch(q)
  BY <1>0, FilesStay
<1>2. CASE /\ journal # <<>> /\ Interrupted(Top)
           /\ holder' = s /\ Go(s, "undo") /\ obs' = [obs EXCEPT ![s] = Top]
  <2>l. "undo" \in SyncLabel /\ "undo" \in Holding
    BY DEF SyncLabel, Holding
  <2>1. Moves(s, "undo") /\ pc'[s] = "undo" /\ \A q \in Drafter : pc'[q] = pc[q]
    BY <1>2, <2>l, SyncFacts
  <2>2. obs'[s] = Top /\ \A t \in Syncer \ {s} : obs'[t] = obs[t]
    BY <1>2 DEF TypeOK
  <2>3. PICK c \in Drafter :
            /\ Chain(c) /\ Top \in Record /\ Owner(Top) = c
            /\ Top.head = base[c] /\ Top.preimage = pre[c]
    BY <1>2, TopFacts
  <2>4. Keeps(pre[c]) /\ Branched(c)
    BY <2>3 DEF SafeInv, Kept
  <2>5. ~OnBranch(c)
    <3>1. Tip = base[c] /\ Tip \in Nat
      BY <1>2, <2>3, NoneOffBranch DEF Interrupted
    <3> QED  BY <2>4, <3>1 DEF Branched
  <2>6. Keeps(Top.preimage) /\ ~OnBranch(Top.tx[1])
    BY <2>3, <2>4, <2>5 DEF Owner
  <2>7. PICK r : r = obs'[s] /\ r = Top
    BY <2>2
  <2>8. r \in Record /\ Keeps(r.preimage)' /\ ~OnBranch(r.tx[1])'
    BY <1>0, <1>same, <2>1, <2>3, <2>6, <2>7 DEF Keeps, OnBranch
  <2>9. Observed(s)'
    BY <2>1, <2>7, <2>8 DEF Observed
  <2>10. ChainsKept
    BY <1>0, <2>1, ChainsSame
  <2>11. holder \in {None, s} /\ holder' = IF "undo" \in Holding THEN s ELSE None
    BY <1>0, <1>2, <2>l
  <2> QED  BY <1>0, <1>same, <1>1, <2>l, <2>1, <2>2, <2>9, <2>10, <2>11, SyncFrame
<1>3. CASE Idle(s) /\ UNCHANGED holder
  <2>1. /\ Moves(s, "idle") /\ "idle" \in SyncLabel \ Holding
        /\ \A q \in Drafter : pc'[q] = pc[q]
        /\ \A t \in Syncer \ {s} : obs'[t] = obs[t]
        /\ Observed(s)'
    BY <1>3, IdleFacts
  <2>2. ChainsKept
    BY <1>0, <2>1, ChainsSame
  <2> QED  BY <1>0, <1>same, <1>1, <1>3, <2>1, <2>2, SyncFrame
<1> QED  BY <1>2, <1>3 DEF Recover, CanRecover, IsTop

LEMMA UndoSafe ==
    ASSUME TypeOK, SafeInv, NEW s \in Syncer, Undo(s)
    PROVE  SafeInv'
<1>0. /\ pc[s] = "undo" /\ UNCHANGED <<log, landed, remote, marker, seen, base, pre, returned>>
  BY DEF Undo
<1>l. /\ "undone" \in SyncLabel /\ "undone" \in Holding /\ pc[s] \in Holding
      /\ "restoring" \in Stage /\ "rollback-failed" \in Stage
  BY <1>0 DEF SyncLabel, Holding, Stage, Recoverable
<1>h. holder = s
  BY <1>l DEF SafeInv, Locked
<1>o. /\ obs[s] \in Record /\ Keeps(obs[s].preimage) /\ ~OnBranch(obs[s].tx[1])
  BY <1>0 DEF SafeInv, Observed
<1>1. CASE /\ RestoreTo(obs[s].preimage) /\ SetStage(obs[s].tx, "restoring")
           /\ Go(s, "undone") /\ UNCHANGED <<holder, obs>>
  <2>1. Moves(s, "undone") /\ pc'[s] = "undone" /\ \A q \in Drafter : pc'[q] = pc[q]
    BY <1>1, <1>l, SyncFacts
  <2>2. ChainsKept
    BY <1>0, <1>1, <1>l, <2>1, ChainsStage
  <2>3. \A q \in Drafter :
            /\ OnBranch(q) => Draft(q) \notin dirty' /\ Nested(q) \notin dirty'
            /\ pc[q] = "done" => Draft(q) \in Content'
            /\ (q \in remote' \ remote \/ (marker' = q /\ marker # q)) => OnBranch(q)
    BY <1>0, <1>1, <1>o, RestoreFacts
  <2>4. Observed(s)'
    BY <1>0, <1>1, <1>o, <2>1 DEF Observed, OnBranch
  <2>5. holder \in {None, s} /\ holder' = IF "undone" \in Holding THEN s ELSE None
    BY <1>1, <1>h, <1>l
  <2>6. \A t \in Syncer \ {s} : obs'[t] = obs[t]
    BY <1>1
  <2> QED  BY <1>0, <1>l, <2>1, <2>2, <2>3, <2>4, <2>5, <2>6, SyncFrame
<1>2. CASE /\ SetStage(obs[s].tx, "rollback-failed") /\ UNCHANGED dirty
           /\ Idle(s) /\ holder' = None
  <2>1. /\ Moves(s, "idle") /\ "idle" \in SyncLabel \ Holding
        /\ \A q \in Drafter : pc'[q] = pc[q]
        /\ \A t \in Syncer \ {s} : obs'[t] = obs[t]
        /\ Observed(s)'
    BY <1>2, IdleFacts
  <2>2. ChainsKept
    BY <1>0, <1>2, <1>l, <2>1, ChainsStage
  <2>3. UNCHANGED files
    BY <1>0, <1>2 DEF files
  <2>4. \A q \in Drafter :
            /\ OnBranch(q) => Draft(q) \notin dirty' /\ Nested(q) \notin dirty'
            /\ pc[q] = "done" => Draft(q) \in Content'
            /\ (q \in remote' \ remote \/ (marker' = q /\ marker # q)) => OnBranch(q)
    BY <1>0, <2>3, FilesStay
  <2>5. holder \in {None, s} /\ holder' = IF "idle" \in Holding THEN s ELSE None
    BY <1>2, <1>h, <2>1
  <2> QED  BY <1>0, <2>1, <2>2, <2>4, <2>5, SyncFrame
<1> QED  BY <1>1, <1>2 DEF Undo

\* A synchronizer that ends its work under the lock.
LEMMA SyncEnds ==
    ASSUME TypeOK, SafeInv, NEW s \in Syncer, Idle(s), holder' = None, pc[s] \in Holding,
           UNCHANGED <<log, files, remote, marker, seen, base, pre, returned>>,
           UNCHANGED journal \/ (journal # <<>> /\ journal' = Tail(journal))
    PROVE  SafeInv'
<1>h. holder = s
  BY DEF SafeInv, Locked
<1>same. UNCHANGED <<dirty, landed>>
  BY DEF files
<1>1. /\ Moves(s, "idle") /\ "idle" \in SyncLabel \ Holding
      /\ \A q \in Drafter : pc'[q] = pc[q]
      /\ \A t \in Syncer \ {s} : obs'[t] = obs[t]
      /\ Observed(s)'
  BY IdleFacts
<1>2. \A q \in Drafter : pc[q] \notin InLock
  BY <1>h, ProcFacts DEF SafeInv, Locked
<1>3. ChainsKept
  BY <1>1, <1>2, ChainsSame, ChainsPop
<1>4. \A q \in Drafter :
          /\ OnBranch(q) => Draft(q) \notin dirty' /\ Nested(q) \notin dirty'
          /\ pc[q] = "done" => Draft(q) \in Content'
          /\ (q \in remote' \ remote \/ (marker' = q /\ marker # q)) => OnBranch(q)
  BY FilesStay
<1>5. holder \in {None, s} /\ holder' = IF "idle" \in Holding THEN s ELSE None
  BY <1>h, <1>1
<1> QED  BY <1>same, <1>1, <1>3, <1>4, <1>5, SyncFrame

LEMMA UndoneSafe ==
    ASSUME TypeOK, SafeInv, NEW s \in Syncer, Undone(s)
    PROVE  SafeInv'
<1>1. pc[s] \in Holding
  BY DEF Undone, Holding
<1>2. UNCHANGED journal \/ (journal # <<>> /\ journal' = Tail(journal))
  BY DEF Undone, ClearJournal, IsTop
<1> QED  BY <1>1, <1>2, SyncEnds DEF Undone

LEMMA ClearedSafe ==
    ASSUME TypeOK, SafeInv, NEW s \in Syncer, Cleared(s)
    PROVE  SafeInv'
<1>1. pc[s] \in Holding
  BY DEF Cleared, Holding
<1>2. UNCHANGED journal \/ (journal # <<>> /\ journal' = Tail(journal))
  BY DEF Cleared, ClearAnyJournal
<1> QED  BY <1>1, <1>2, SyncEnds DEF Cleared

LEMMA SyncSafe ==
    ASSUME TypeOK, SafeInv, NEW s \in Syncer, Sync(s)
    PROVE  SafeInv'
<1>0. /\ pc[s] = "sync" /\ holder = None
      /\ UNCHANGED <<log, files, marker, journal, seen, base, pre, returned>>
  BY DEF Sync, records
<1>same. UNCHANGED <<dirty, landed>> /\ pc[s] \notin Holding
  BY <1>0 DEF files, Holding
<1>1. CASE /\ marker # None
           /\ remote' = remote \cup {marker} /\ holder' = s /\ Go(s, "published")
           /\ UNCHANGED obs
  <2>l. "published" \in SyncLabel /\ "published" \in Holding
    BY DEF SyncLabel, Holding
  <2>1. Moves(s, "published") /\ pc'[s] = "published" /\ \A q \in Drafter : pc'[q] = pc[q]
    BY <1>1, <2>l, SyncFacts
  <2>2. ChainsKept
    BY <1>0, <2>1, ChainsSame
  <2>3. \A q \in Drafter : marker = q => OnBranch(q)
    BY DEF SafeInv, Branched
  <2>4. \A q \in Drafter :
            /\ OnBranch(q) => Draft(q) \notin dirty' /\ Nested(q) \notin dirty'
            /\ pc[q] = "done" => Draft(q) \in Content'
            /\ (q \in remote' \ remote \/ (marker' = q /\ marker # q)) => OnBranch(q)
    BY <1>0, <1>1, <2>3, FilesStay
  <2>5. Observed(s)'
    BY <2>1 DEF Observed
  <2>6. holder \in {None, s} /\ holder' = IF "published" \in Holding THEN s ELSE None
    BY <1>0, <1>1, <2>l
  <2>7. \A t \in Syncer \ {s} : obs'[t] = obs[t]
    BY <1>1
  <2> QED  BY <1>0, <1>same, <2>l, <2>1, <2>2, <2>4, <2>5, <2>6, <2>7, SyncFrame
<1>2. CASE Idle(s) /\ UNCHANGED <<remote, holder>>
  <2>1. /\ Moves(s, "idle") /\ "idle" \in SyncLabel \ Holding
        /\ \A q \in Drafter : pc'[q] = pc[q]
        /\ \A t \in Syncer \ {s} : obs'[t] = obs[t]
        /\ Observed(s)'
    BY <1>2, IdleFacts
  <2>2. ChainsKept
    BY <1>0, <2>1, ChainsSame
  <2>3. \A q \in Drafter :
            /\ OnBranch(q) => Draft(q) \notin dirty' /\ Nested(q) \notin dirty'
            /\ pc[q] = "done" => Draft(q) \in Content'
            /\ (q \in remote' \ remote \/ (marker' = q /\ marker # q)) => OnBranch(q)
    BY <1>0, <1>2, FilesStay
  <2> QED  BY <1>0, <1>same, <1>2, <2>1, <2>2, <2>3, SyncFrame
<1> QED  BY <1>1, <1>2 DEF Sync

LEMMA PublishedSafe ==
    ASSUME TypeOK, SafeInv, NEW s \in Syncer, Published(s)
    PROVE  SafeInv'
<1>0. /\ pc[s] = "published" /\ marker' = None /\ Go(s, "cleared")
      /\ UNCHANGED <<holder, log, files, remote, journal, seen, base, pre, returned, obs>>
  BY DEF Published, regs
<1>same. UNCHANGED <<dirty, landed>>
  BY <1>0 DEF files
<1>l. "cleared" \in SyncLabel /\ "cleared" \in Holding /\ pc[s] \in Holding
  BY <1>0 DEF SyncLabel, Holding
<1>1. Moves(s, "cleared") /\ pc'[s] = "cleared" /\ \A q \in Drafter : pc'[q] = pc[q]
  BY <1>0, <1>l, SyncFacts
<1>2. ChainsKept
  BY <1>0, <1>1, ChainsSame
<1>3. \A q \in Drafter :
          /\ OnBranch(q) => Draft(q) \notin dirty' /\ Nested(q) \notin dirty'
          /\ pc[q] = "done" => Draft(q) \in Content'
          /\ (q \in remote' \ remote \/ (marker' = q /\ marker # q)) => OnBranch(q)
  BY <1>0, FilesStay, ProcFacts
<1>4. Observed(s)'
  BY <1>1 DEF Observed
<1> QED  BY <1>0, <1>same, <1>l, <1>1, <1>2, <1>3, <1>4, SyncFrame

LEMMA SyncerDiesSafe ==
    ASSUME TypeOK, SafeInv, NEW s \in Syncer, Crash(s)
    PROVE  SafeInv'
<1>0. /\ Idle(s) /\ holder' = IF holder = s THEN None ELSE holder
      /\ UNCHANGED <<log, files, remote, marker, journal, seen, base, pre, returned>>
  BY ProcFacts DEF Crash, records
<1>1. CASE pc[s] \in Holding
  <2>1. holder' = None
    BY <1>0, <1>1 DEF SafeInv, Locked
  <2> QED  BY <1>0, <1>1, <2>1, SyncEnds
<1>2. CASE pc[s] \notin Holding
  <2>same. UNCHANGED <<dirty, landed>> /\ holder' = holder
    BY <1>0, <1>2 DEF files, SafeInv, Locked
  <2>1. /\ Moves(s, "idle") /\ "idle" \in SyncLabel \ Holding
        /\ \A q \in Drafter : pc'[q] = pc[q]
        /\ \A t \in Syncer \ {s} : obs'[t] = obs[t]
        /\ Observed(s)'
    BY <1>0, IdleFacts
  <2>2. ChainsKept
    BY <1>0, <2>1, ChainsSame
  <2>3. \A q \in Drafter :
            /\ OnBranch(q) => Draft(q) \notin dirty' /\ Nested(q) \notin dirty'
            /\ pc[q] = "done" => Draft(q) \in Content'
            /\ (q \in remote' \ remote \/ (marker' = q /\ marker # q)) => OnBranch(q)
    BY <1>0, FilesStay
  <2> QED  BY <1>0, <1>2, <2>same, <2>1, <2>2, <2>3, SyncFrame
<1> QED  BY <1>1, <1>2

\* Commits of others move the branch under everybody's feet.
LEMMA ByHandSafe ==
    ASSUME TypeOK, SafeInv, NEW m \in Manual, CommitByHand(m)
    PROVE  SafeInv'
<1>0. /\ log' = Append(log, m)
      /\ UNCHANGED <<holder, remote, marker, journal, pc, seen, base, pre, returned, obs>>
  BY DEF CommitByHand, records, regs
<1>a. m \in Author /\ m \notin Drafter
  BY ProcFacts DEF Author
<1>b. /\ Tip' = Tip + 1 /\ Tip \in Nat
      /\ \A x : OnBranch(x)' <=> OnBranch(x) \/ x = m
  BY <1>0, <1>a, BranchGrows
<1>on. \A q \in Drafter : OnBranch(q)' <=> OnBranch(q)
  BY <1>a, <1>b
<1>f. Content' = Content /\ landed \subseteq landed' /\ dirty' \subseteq dirty
  <2>1. CASE landed' = Content /\ dirty' = {}
    BY <2>1 DEF Content
  <2>2. CASE UNCHANGED files
    BY <2>2 DEF Content, files
  <2> QED  BY <2>1, <2>2 DEF CommitByHand
<1>1. Locked'
  BY <1>0 DEF SafeInv, Locked
<1>2. ChainsKept
  BY <1>0, <1>on, ChainsStay DEF SameButStage
<1>k. \A preimage : Keeps(preimage) => Keeps(preimage)'
  BY <1>0, <1>f DEF Keeps
<1>3. ASSUME NEW q \in Drafter PROVE Branched(q)' /\ Written(q)' /\ Kept(q)'
  <2>0. Branched(q) /\ Written(q) /\ Kept(q) /\ pc'[q] = pc[q]
    BY <1>0 DEF SafeInv
  <2>1. Branched(q)'
    <3>1. OnBranch(q)' => {Draft(q), Nested(q)} \subseteq landed' \ dirty'
      BY <2>0, <1>on, <1>f DEF Branched
    <3>2. OnBranch(q)' => Tip' > base'[q]
      <4>1. base[q] \in Nat /\ (OnBranch(q) => Tip > base[q])
        BY <2>0 DEF TypeOK, Branched
      <4> QED  BY <1>0, <1>b, <1>on, <4>1
    <3>3. (q \in remote' => OnBranch(q)') /\ (marker' = q => OnBranch(q)')
      BY <1>0, <2>0, <1>on DEF Branched
    <3> QED  BY <2>0, <1>on, <3>1, <3>2, <3>3 DEF Branched
  <2>2. Written(q)'
    BY <1>0, <2>0, <1>f DEF Written
  <2>3. Kept(q)'
    <3>1. pc[q] \in InLock \ {"begin"} \/ Chain(q)' => Keeps(pre[q])
      BY <2>0, <1>2 DEF Kept, ChainsKept
    <3>2. pc[q] \in InLock \ {"begin"} \/ Chain(q)' => Keeps(pre[q])'
      <4>1. pre'[q] = pre[q]
        BY <1>0
      <4> QED  BY <3>1, <4>1, <1>k
    <3> QED  BY <2>0, <3>2 DEF Kept
  <2> QED  BY <2>1, <2>2, <2>3
<1>4. ASSUME NEW s \in Syncer PROVE Observed(s)'
  <2>1. Observed(s) /\ pc'[s] = pc[s] /\ obs'[s] = obs[s]
    BY <1>0 DEF SafeInv
  <2>2. pc[s] \in {"promote", "drop"} => OnBranch(obs[s].commit)'
    <3> SUFFICES ASSUME pc[s] \in {"promote", "drop"} PROVE OnBranch(obs[s].commit)'
      OBVIOUS
    <3>1. OnBranch(obs[s].commit)
      BY <2>1 DEF Observed
    <3>2. PICK x : x = obs[s].commit
      OBVIOUS
    <3>3. OnBranch(x)'
      BY <3>1, <3>2, <1>b
    <3> QED  BY <2>1, <3>2, <3>3 DEF OnBranch
  <2>3. pc[s] = "undo" => Keeps(obs[s].preimage)'
    <3> SUFFICES ASSUME pc[s] = "undo" PROVE Keeps(obs[s].preimage)'
      OBVIOUS
    <3>1. PICK x : x = obs[s].preimage
      OBVIOUS
    <3>2. Keeps(x)'
      BY <2>1, <3>1, <1>k DEF Observed
    <3> QED  BY <2>1, <3>1, <3>2 DEF Keeps
  <2>4. pc[s] \in {"undo", "undone"} => ~OnBranch(obs[s].tx[1])'
    <3> SUFFICES ASSUME pc[s] \in {"undo", "undone"} PROVE ~OnBranch(obs[s].tx[1])'
      OBVIOUS
    <3>1. obs[s] \in Record /\ ~OnBranch(obs[s].tx[1])
      BY <2>1 DEF Observed
    <3>2. obs[s].tx \in Tx
      BY <3>1 DEF Record
    <3>3. PICK x \in Drafter : x = obs[s].tx[1]
      BY <3>2, TxFacts
    <3>4. ~OnBranch(x)'
      BY <3>1, <3>3, <1>on
    <3> QED  BY <2>1, <3>3, <3>4 DEF OnBranch
  <2>5. /\ pc[s] \in {"promote", "drop", "recover", "undo", "undone"} => obs[s] \in Record
        /\ pc[s] \in {"promote", "drop"} =>
              obs[s].tx = Nested(obs[s].commit) /\ obs[s].commit # None
    BY <2>1 DEF Observed
  <2> QED  BY <2>1, <2>2, <2>3, <2>4, <2>5 DEF Observed
<1> QED  BY <1>1, <1>2, <1>3, <1>4 DEF SafeInv, ChainsKept

-----------------------------------------------------------------------------
(***************************************************************************)
(* Every step keeps the types.                                             *)
(***************************************************************************)
\* The commands: labels, registers, the repository and the journal.
LEMMA CommandLabels ==
    ASSUME TypeOK, NEW p \in Drafter, Step(p)
    PROVE  Labels' /\ p \in Proc /\ holder' \in {holder, p, None}
<1>1. Labels
  BY TypeParts
<1>2. \E l \in DraftLabel : Go(p, l)
  <2>1. CASE Load(p) \/ Enter(p) \/ Begin(p) \/ Write(p) \/ Accept(p) \/ Invalid(p)
    BY <2>1 DEF Load, Enter, Begin, Write, Accept, Invalid, End, DraftLabel, Ended
  <2>2. CASE Catch(p) \/ Restore(p) \/ Restored(p)
    BY <2>2 DEF Catch, Restore, Restored, End, DraftLabel, Ended
  <2>3. CASE Nest(p) \/ NestedWrite(p) \/ VerifyCandidate(p) \/ CommitTree(p) \/ Advance(p)
    BY <2>3 DEF Nest, NestedWrite, VerifyCandidate, CommitTree, Advance, DraftLabel
  <2>4. CASE OutcomeUnknown(p) \/ Unwind(p) \/ PublishFails(p)
    BY <2>4 DEF OutcomeUnknown, Unwind, PublishFails, Break, DraftLabel
  <2>5. CASE Unwound(p) \/ Push(p) \/ Retain(p) \/ Retained(p) \/ Pushed(p) \/ CleanUp(p)
    BY <2>5 DEF Unwound, Push, Retain, Retained, Pushed, CleanUp, DraftLabel
  <2> QED  BY <2>1, <2>2, <2>3, <2>4, <2>5 DEF Step
<1>3. holder' \in {holder, p, None}
  <2>1. CASE Load(p) \/ Enter(p) \/ Begin(p) \/ Write(p) \/ Accept(p) \/ Invalid(p)
    BY <2>1 DEF Load, Enter, Begin, Write, Accept, Invalid, End
  <2>2. CASE Catch(p) \/ Restore(p) \/ Restored(p)
    BY <2>2 DEF Catch, Restore, Restored, End
  <2>3. CASE Nest(p) \/ NestedWrite(p) \/ VerifyCandidate(p) \/ CommitTree(p) \/ Advance(p)
    BY <2>3 DEF Nest, NestedWrite, VerifyCandidate, CommitTree, Advance
  <2>4. CASE OutcomeUnknown(p) \/ Unwind(p) \/ PublishFails(p)
    BY <2>4 DEF OutcomeUnknown, Unwind, PublishFails
  <2>5. CASE Unwound(p) \/ Push(p) \/ Retain(p) \/ Retained(p) \/ Pushed(p) \/ CleanUp(p)
    BY <2>5 DEF Unwound, Push, Retain, Retained, Pushed, CleanUp
  <2> QED  BY <2>1, <2>2, <2>3, <2>4, <2>5 DEF Step
<1> QED  BY <1>1, <1>2, <1>3, DraftGoes, ProcFacts

LEMMA CommandRegs ==
    ASSUME TypeOK, NEW p \in Drafter, Step(p)
    PROVE  RegTypes'
<1>0. RegTypes /\ Tip \in Nat /\ Content \in SUBSET Tx /\ dirty \in SUBSET Tx
  BY TypeParts, NoneOffBranch DEF RepoTypes, Content
<1>1. CASE Load(p)
  <2>1. <<Tip, Content>> \in Nat \X SUBSET Tx
    BY <1>0
  <2> QED  BY <1>0, <1>1, <2>1 DEF Load, RegTypes
<1>2. CASE Enter(p)
  BY <1>0, <1>2 DEF Enter, RegTypes
<1>3. CASE Begin(p)
  BY <1>0, <1>3 DEF Begin, RegTypes
<1>4. CASE Retained(p) \/ CleanUp(p)
  BY <1>0, <1>4 DEF Retained, CleanUp, RegTypes
<1>9. CASE OutcomeUnknown(p) \/ Unwind(p) \/ PublishFails(p)
  BY <1>0, <1>9 DEF OutcomeUnknown, Unwind, PublishFails, Break, RegTypes
<1>5. CASE UNCHANGED regs
  BY <1>0, <1>5 DEF regs, RegTypes
<1>6. CASE Write(p) \/ Accept(p) \/ Invalid(p) \/ Catch(p) \/ Restore(p) \/ Restored(p)
  BY <1>5, <1>6 DEF Write, Accept, Invalid, Catch, Restore, Restored
<1>7. CASE Nest(p) \/ NestedWrite(p) \/ VerifyCandidate(p) \/ CommitTree(p) \/ Advance(p)
  BY <1>5, <1>7 DEF Nest, NestedWrite, VerifyCandidate, CommitTree, Advance
<1>8. CASE Unwound(p) \/ Push(p) \/ Retain(p) \/ Pushed(p)
  BY <1>5, <1>8 DEF Unwound, Push, Retain, Pushed
<1> QED  BY <1>1, <1>2, <1>3, <1>4, <1>6, <1>7, <1>8, <1>9 DEF Step

LEMMA CommandFiles ==
    ASSUME TypeOK, NEW p \in Drafter, Step(p)
    PROVE  log' \in Seq(Author) /\ dirty' \subseteq Tx /\ landed' \subseteq Tx
<1>0. /\ log \in Seq(Author) /\ dirty \subseteq Tx /\ landed \subseteq Tx
      /\ Draft(p) \in Tx /\ Nested(p) \in Tx /\ pre[p] \subseteq Tx /\ p \in Author
  BY TxFacts DEF TypeOK, Author
<1>1. CASE Write(p)
  BY <1>0, <1>1 DEF Write
<1>2. CASE NestedWrite(p)
  BY <1>0, <1>2 DEF NestedWrite
<1>3. CASE Restore(p)
  BY <1>0, <1>3 DEF Restore, RestoreTo
<1>4. CASE Unwind(p)
  BY <1>0, <1>4 DEF Unwind, RestoreTo
<1>5. CASE Advance(p) \/ OutcomeUnknown(p)
  <2>1. CASE Commits(p)
    BY <1>0, <2>1 DEF Commits, Content
  <2>2. CASE UNCHANGED <<log, files>>
    BY <1>0, <2>2 DEF files
  <2> QED  BY <1>5, <2>1, <2>2 DEF Advance, OutcomeUnknown
<1>6. CASE UNCHANGED <<log, files>>
  BY <1>0, <1>6 DEF files
<1>7. CASE Load(p) \/ Enter(p) \/ Begin(p) \/ Accept(p) \/ Invalid(p) \/ Catch(p) \/ Restored(p)
  BY <1>6, <1>7 DEF Load, Enter, Begin, Accept, Invalid, Catch, Restored
<1>8. CASE Nest(p) \/ VerifyCandidate(p) \/ CommitTree(p) \/ Unwound(p) \/ Push(p) \/ Retain(p)
  BY <1>6, <1>8 DEF Nest, VerifyCandidate, CommitTree, Unwound, Push, Retain
<1>9. CASE Retained(p) \/ Pushed(p) \/ CleanUp(p) \/ PublishFails(p)
  BY <1>6, <1>9 DEF Retained, Pushed, CleanUp, PublishFails
<1> QED  BY <1>1, <1>2, <1>3, <1>4, <1>5, <1>7, <1>8, <1>9 DEF Step

LEMMA ClearTyped ==
    ASSUME journal \in Seq(Record)
    PROVE  /\ \A tx : ClearJournal(tx) => journal' \in Seq(Record)
           /\ ClearAnyJournal => journal' \in Seq(Record)
           /\ \A tx : \A st \in Stage : SetStage(tx, st) => journal' \in Seq(Record)
<1>1. journal # <<>> => Tail(journal) \in Seq(Record)
  OBVIOUS
<1>2. \A tx : ClearJournal(tx) => journal' \in Seq(Record)
  BY <1>1 DEF ClearJournal, IsTop
<1>3. ClearAnyJournal => journal' \in Seq(Record)
  BY <1>1 DEF ClearAnyJournal
<1> QED  BY <1>2, <1>3, StageEffect

LEMMA CommandJournal ==
    ASSUME TypeOK, SafeInv, NEW p \in Drafter, Step(p)
    PROVE  journal' \in Seq(Record)
<1>0. /\ journal \in Seq(Record) /\ base[p] \in Nat /\ pre[p] \in SUBSET Tx /\ dirty \in SUBSET Tx
      /\ Draft(p) \in Tx /\ Nested(p) \in Tx
      /\ {"restoring", "rollback-failed", "candidate-verified", "draft-head-diverged"} \subseteq Stage
  BY TxFacts DEF TypeOK, Stage, Recoverable
<1>1. CASE UNCHANGED journal
  BY <1>0, <1>1
<1>2. CASE \E tx : ClearJournal(tx)
  BY <1>0, <1>2, ClearTyped
<1>3. CASE \E tx, st : st \in Stage /\ SetStage(tx, st)
  BY <1>0, <1>3, ClearTyped
<1>4. CASE Load(p) \/ Enter(p) \/ Write(p) \/ Invalid(p) \/ NestedWrite(p) \/ Advance(p)
           \/ OutcomeUnknown(p) \/ Push(p) \/ Retain(p) \/ PublishFails(p)
  BY <1>1, <1>4 DEF Load, Enter, Write, Invalid, NestedWrite, Advance, OutcomeUnknown, Push,
     Retain, PublishFails, records
<1>5. CASE Begin(p)
  BY <1>0, <1>5, PushEffect DEF Begin
<1>6. CASE Accept(p) \/ Restored(p) \/ Unwound(p) \/ Retained(p) \/ Pushed(p)
  BY <1>2, <1>6 DEF Accept, Restored, Unwound, Retained, Pushed
<1>7. CASE Catch(p)
  <2>1. \/ SetStage(Draft(p), "restoring")
        \/ ClearJournal(Draft(p))
        \/ SetStage(Draft(p), "draft-head-diverged")
    BY <1>7 DEF Catch
  <2> QED  BY <1>0, <1>2, <1>3, <2>1
<1>8. CASE Restore(p)
  <2>1. UNCHANGED journal \/ SetStage(Draft(p), "rollback-failed")
    BY <1>8 DEF Restore
  <2> QED  BY <1>0, <1>1, <1>3, <2>1
<1>9. CASE Nest(p)
  <2>1. BeginJournal(Nested(p), base[p], pre[p]) \/ UNCHANGED journal
    BY <1>9 DEF Nest
  <2> QED  BY <1>0, <1>1, <2>1, PushEffect
<1>10. CASE CommitTree(p)
  <2>1. \/ journal' = [journal EXCEPT ![1].commit = p, ![1].stage = "commit-created"]
        \/ UNCHANGED journal
    BY <1>10 DEF CommitTree
  <2>2. Double(p)
    BY <1>10 DEF SafeInv, Shaped, CommitTree
  <2>3. journal # <<>>
    BY <2>2, ChainFacts DEF Chain
  <2> QED  BY <1>0, <1>1, <2>1, <2>3, CommitEffect
<1>11. CASE Unwind(p) \/ VerifyCandidate(p)
  <2>1. \/ SetStage(Nested(p), "restoring") \/ SetStage(Nested(p), "rollback-failed")
        \/ SetStage(Nested(p), "candidate-verified") \/ UNCHANGED journal
    BY <1>11 DEF Unwind, VerifyCandidate
  <2> QED  BY <1>0, <1>1, <1>3, <2>1
<1>12. CASE CleanUp(p)
  BY <1>0, <1>12, ClearTyped DEF CleanUp
<1> QED  BY <1>4, <1>5, <1>6, <1>7, <1>8, <1>9, <1>10, <1>11, <1>12 DEF Step

LEMMA CommandTyped ==
    ASSUME TypeOK, SafeInv, NEW p \in Drafter, Step(p)
    PROVE  TypeOK'
<1>0. remote \subseteq Drafter /\ marker \in Drafter \cup {None} /\ late \in BOOLEAN
      /\ holder \in Proc \cup {None}
  BY DEF TypeOK
<1>1. remote' \in {remote, remote \cup {p}} /\ marker' \in {marker, p, None} /\ late' = late
  <2>1. CASE Load(p) \/ Enter(p) \/ Begin(p) \/ Write(p) \/ Accept(p) \/ Invalid(p)
    BY <2>1 DEF Load, Enter, Begin, Write, Accept, Invalid, records
  <2>2. CASE Catch(p) \/ Restore(p) \/ Restored(p)
    BY <2>2 DEF Catch, Restore, Restored
  <2>3. CASE Nest(p) \/ NestedWrite(p) \/ VerifyCandidate(p) \/ CommitTree(p) \/ Advance(p)
    BY <2>3 DEF Nest, NestedWrite, VerifyCandidate, CommitTree, Advance, records
  <2>4. CASE OutcomeUnknown(p) \/ Unwind(p) \/ PublishFails(p)
    BY <2>4 DEF OutcomeUnknown, Unwind, PublishFails, records
  <2>5. CASE Unwound(p) \/ Push(p) \/ Retain(p) \/ Retained(p) \/ Pushed(p) \/ CleanUp(p)
    BY <2>5 DEF Unwound, Push, Retain, Retained, Pushed, CleanUp, records
  <2> QED  BY <2>1, <2>2, <2>3, <2>4, <2>5 DEF Step
<1>2. Labels' /\ p \in Proc /\ holder' \in {holder, p, None}
  BY CommandLabels
<1>3. RepoTypes'
  BY <1>0, <1>1, <1>2, CommandFiles DEF RepoTypes
<1>4. JournalTypes'
  BY <1>0, <1>1, CommandJournal DEF JournalTypes
<1> QED  BY <1>2, <1>3, <1>4, CommandRegs, TypePartsNext

\* The synchronizers.
LEMMA IdleTyped ==
    ASSUME TypeOK, NEW s \in Syncer, Idle(s)
    PROVE  Labels' /\ obs' \in [Syncer -> Record \cup {Nothing}]
<1>1. "idle" \in SyncLabel
  BY DEF SyncLabel
<1> QED  BY <1>1, SyncGoes, TypeParts DEF Idle, TypeOK

LEMMA SyncerTyped ==
    ASSUME TypeOK, SafeInv, NEW s \in Syncer, SyncStep(s)
    PROVE  TypeOK'
<1>0. /\ RepoTypes /\ JournalTypes /\ Labels /\ RegTypes /\ s \in Proc
      /\ journal # <<>> => Top \in Record
  BY TypeParts, ProcFacts DEF TypeOK, Top
<1>l. /\ {"sync", "recover", "promote", "drop", "undo", "undone", "published", "cleared"} \subseteq SyncLabel
      /\ {"restoring", "rollback-failed"} \subseteq Stage
  BY DEF SyncLabel, Stage, Recoverable
<1>o. Observed(s)
  BY DEF SafeInv
<1>lab. ASSUME NEW l \in SyncLabel, Go(s, l) PROVE Labels'
  BY <1>0, <1>lab, SyncGoes
<1>take. ASSUME journal # <<>>, obs' = [obs EXCEPT ![s] = Top]
         PROVE  obs' \in [Syncer -> Record \cup {Nothing}]
  BY <1>0, <1>take DEF RegTypes
<1>regs. ASSUME UNCHANGED <<seen, base, pre, returned>>, obs' \in [Syncer -> Record \cup {Nothing}]
         PROVE  RegTypes'
  BY <1>0, <1>regs DEF RegTypes
<1>repo. ASSUME UNCHANGED <<log, files, remote>>, holder' \in {holder, s, None} PROVE RepoTypes'
  BY <1>0, <1>repo DEF RepoTypes, files
<1>1. CASE Read(s)
  <2>1. \E l \in SyncLabel : Go(s, l)
    BY <1>1, <1>l DEF Read
  <2>2. obs' \in [Syncer -> Record \cup {Nothing}]
    BY <1>0, <1>1, <1>take DEF Read, RegTypes
  <2>3. RepoTypes' /\ JournalTypes' /\ RegTypes'
    BY <1>0, <1>1, <1>regs, <1>repo, <2>2 DEF Read, records, JournalTypes
  <2> QED  BY <1>lab, <2>1, <2>3, TypePartsNext
<1>2. CASE Promote(s)
  <2>1. obs[s] \in Record /\ obs[s].commit \in Drafter \cup {None}
    BY <1>2, <1>o DEF Promote, Observed, Record
  <2>2. JournalTypes'
    BY <1>0, <1>2, <2>1 DEF Promote, JournalTypes
  <2>3. RepoTypes' /\ RegTypes'
    BY <1>0, <1>2, <1>regs, <1>repo DEF Promote, regs, RegTypes
  <2> QED  BY <1>2, <1>l, <1>lab, <2>2, <2>3, TypePartsNext DEF Promote
<1>3. CASE Drop(s)
  <2>1. JournalTypes'
    BY <1>0, <1>3, ClearTyped DEF Drop, JournalTypes
  <2>2. Labels' /\ obs' \in [Syncer -> Record \cup {Nothing}]
    BY <1>3, IdleTyped DEF Drop
  <2>3. RepoTypes' /\ RegTypes'
    BY <1>0, <1>3, <1>regs, <1>repo, <2>2 DEF Drop
  <2> QED  BY <2>1, <2>2, <2>3, TypePartsNext
<1>4. CASE Recover(s)
  <2>1. Labels' /\ obs' \in [Syncer -> Record \cup {Nothing}] /\ holder' \in {holder, s}
    <3>1. CASE Idle(s) /\ UNCHANGED holder
      BY <3>1, IdleTyped
    <3>2. CASE holder' = s /\ Go(s, "undo") /\ journal # <<>> /\ obs' = [obs EXCEPT ![s] = Top]
      BY <1>l, <1>lab, <1>take, <3>2
    <3> QED  BY <1>4, <3>1, <3>2 DEF Recover, IsTop
  <2>2. RepoTypes' /\ RegTypes' /\ JournalTypes'
    BY <1>0, <1>4, <1>regs, <1>repo, <2>1 DEF Recover, records, JournalTypes
  <2> QED  BY <2>1, <2>2, TypePartsNext
<1>5. CASE Undo(s)
  <2>1. obs[s].preimage \subseteq Tx
    BY <1>5, <1>o DEF Undo, Observed, Record
  <2>2. dirty' \subseteq Tx
    BY <1>0, <1>5, <2>1 DEF Undo, RestoreTo, RepoTypes
  <2>3. JournalTypes'
    BY <1>0, <1>5, <1>l, ClearTyped DEF Undo, JournalTypes
  <2>4. Labels' /\ obs' \in [Syncer -> Record \cup {Nothing}] /\ holder' \in {holder, None}
    BY <1>0, <1>5, <1>l, <1>lab, IdleTyped DEF Undo, RegTypes
  <2>5. RepoTypes'
    BY <1>0, <1>5, <2>2, <2>4 DEF Undo, RepoTypes
  <2>6. RegTypes'
    BY <1>5, <1>regs, <2>4 DEF Undo
  <2> QED  BY <2>3, <2>4, <2>5, <2>6, TypePartsNext
<1>6. CASE Undone(s) \/ Cleared(s)
  <2>1. JournalTypes'
    BY <1>0, <1>6, ClearTyped DEF Undone, Cleared, JournalTypes
  <2>2. Labels' /\ obs' \in [Syncer -> Record \cup {Nothing}]
    BY <1>6, IdleTyped DEF Undone, Cleared
  <2>3. RepoTypes' /\ RegTypes'
    BY <1>0, <1>6, <1>regs, <1>repo, <2>2 DEF Undone, Cleared
  <2> QED  BY <2>1, <2>2, <2>3, TypePartsNext
<1>7. CASE Sync(s)
  <2>1. Labels' /\ obs' \in [Syncer -> Record \cup {Nothing}] /\ holder' \in {holder, s}
    BY <1>0, <1>7, <1>l, <1>lab, IdleTyped DEF Sync, RegTypes
  <2>2. remote' \subseteq Drafter
    BY <1>0, <1>7 DEF Sync, RepoTypes, JournalTypes
  <2>3. RepoTypes'
    BY <1>0, <1>7, <2>1, <2>2 DEF Sync, RepoTypes, files
  <2>4. RegTypes' /\ JournalTypes'
    BY <1>0, <1>7, <1>regs, <2>1 DEF Sync, records, JournalTypes
  <2> QED  BY <2>1, <2>3, <2>4, TypePartsNext
<1>8. CASE Published(s)
  <2>1. RepoTypes' /\ RegTypes' /\ JournalTypes'
    BY <1>0, <1>8, <1>regs, <1>repo DEF Published, regs, RegTypes, JournalTypes
  <2> QED  BY <1>8, <1>l, <1>lab, <2>1, TypePartsNext DEF Published
<1> QED  BY <1>1, <1>2, <1>3, <1>4, <1>5, <1>6, <1>7, <1>8 DEF SyncStep

LEMMA CrashTyped ==
    ASSUME TypeOK, NEW p \in Proc, Crash(p)
    PROVE  TypeOK'
<1>0. RepoTypes /\ JournalTypes /\ Labels /\ RegTypes
  BY TypeParts
<1>1. RepoTypes' /\ JournalTypes'
  BY <1>0 DEF Crash, RepoTypes, JournalTypes, files, records
<1>2. CASE p \in Drafter
  <2>1. "dead" \in DraftLabel
    BY DEF DraftLabel, Ended
  <2>2. Labels'
    BY <1>0, <1>2, <2>1, DraftGoes DEF Crash
  <2>3. RegTypes'
    BY <1>0, <1>2 DEF Crash, RegTypes
  <2> QED  BY <1>1, <2>2, <2>3, TypePartsNext
<1>3. CASE p \notin Drafter
  <2>1. p \in Syncer /\ Idle(p)
    BY <1>3 DEF Proc, Crash
  <2>2. Labels' /\ obs' \in [Syncer -> Record \cup {Nothing}]
    BY <2>1, IdleTyped
  <2>3. RegTypes'
    BY <1>0, <2>2 DEF Crash, RegTypes
  <2> QED  BY <1>1, <2>2, <2>3, TypePartsNext
<1> QED  BY <1>2, <1>3

LEMMA ByHandTyped ==
    ASSUME TypeOK, NEW m \in Manual, CommitByHand(m)
    PROVE  TypeOK'
<1>0. RepoTypes /\ JournalTypes /\ Labels /\ RegTypes
  BY TypeParts
<1>1. m \in Author /\ log' = Append(log, m)
  BY DEF Author, CommitByHand
<1>2. dirty' \subseteq Tx /\ landed' \subseteq Tx
  BY <1>0 DEF CommitByHand, RepoTypes, Content, files
<1>3. log' \in Seq(Author)
  BY <1>0, <1>1 DEF RepoTypes
<1>4. RepoTypes' /\ JournalTypes' /\ Labels' /\ RegTypes'
  BY <1>0, <1>2, <1>3 DEF CommitByHand, RepoTypes, JournalTypes, Labels, RegTypes, records, regs
<1> QED  BY <1>4, TypePartsNext

LEMMA NextTyped ==
    ASSUME TypeOK, SafeInv, Next
    PROVE  TypeOK'
BY CommandTyped, SyncerTyped, CrashTyped, ByHandTyped DEF Next

LEMMA StutterTyped ==
    ASSUME TypeOK, UNCHANGED vars
    PROVE  TypeOK'
<1>1. RepoTypes /\ JournalTypes /\ Labels /\ RegTypes
  BY TypeParts
<1>2. RepoTypes' /\ JournalTypes' /\ Labels' /\ RegTypes'
  BY <1>1 DEF vars, files, records, regs, RepoTypes, JournalTypes, Labels, RegTypes
<1> QED  BY <1>2, TypePartsNext

-----------------------------------------------------------------------------
(***************************************************************************)
(* What is safe, marker or not.                                            *)
(***************************************************************************)
LEMMA CommandSafe ==
    ASSUME TypeOK, SafeInv, NEW p \in Drafter, Step(p)
    PROVE  SafeInv'
BY LoadSafe, EnterSafe, BeginSafe, WriteSafe, AcceptSafe, InvalidSafe, CatchSafe, RestoreSafe,
   RestoredSafe, NestSafe, NestedWriteSafe, CandidateSafe, CommitTreeSafe, AdvanceSafe, UnknownSafe,
   UnwindSafe, UnwoundSafe, PushSafe, RetainSafe, RetainedSafe, PushedSafe, CleanUpSafe,
   PublishFailsSafe DEF Step

LEMMA SyncerSafe ==
    ASSUME TypeOK, SafeInv, NEW s \in Syncer, SyncStep(s)
    PROVE  SafeInv'
BY ReadSafe, PromoteSafe, DropSafe, RecoverSafe, UndoSafe, UndoneSafe, SyncSafe, PublishedSafe,
   ClearedSafe DEF SyncStep

LEMMA NextSafe ==
    ASSUME TypeOK, SafeInv, Next
    PROVE  SafeInv'
BY CommandSafe, SyncerSafe, CommandDiesSafe, SyncerDiesSafe, ByHandSafe DEF Next, Proc

LEMMA StutterSafe ==
    ASSUME TypeOK, SafeInv, UNCHANGED vars
    PROVE  SafeInv'
<1>0. UNCHANGED <<holder, log, dirty, landed, files, remote, journal, marker, pc, seen, base, pre, returned, obs>>
  BY DEF vars, files, records, regs
<1>b. Tip' = Tip /\ \A x : OnBranch(x)' <=> OnBranch(x)
  BY <1>0, BranchFrame
<1>1. ChainsKept
  BY <1>0, ChainsSame
<1>k. \A preimage : Keeps(preimage)' <=> Keeps(preimage)
  BY <1>0 DEF Keeps
<1>2. Locked'
  BY <1>0 DEF SafeInv, Locked
<1>3. ASSUME NEW q \in Drafter PROVE Branched(q)' /\ Written(q)' /\ Kept(q)'
  <2>0. Branched(q) /\ Written(q) /\ Kept(q)
    BY DEF SafeInv
  <2>1. Branched(q)'
    BY <1>0, <1>b, <2>0 DEF Branched
  <2>2. Written(q)'
    BY <1>0, <2>0 DEF Written, Content
  <2>3. Kept(q)'
    BY <1>0, <1>1, <1>k, <2>0 DEF Kept, ChainsKept
  <2> QED  BY <2>1, <2>2, <2>3
<1>4. ASSUME NEW s \in Syncer PROVE Observed(s)'
  BY <1>0, <1>b, <1>k DEF SafeInv, Observed
<1> QED  BY <1>1, <1>2, <1>3, <1>4 DEF SafeInv, ChainsKept

LEMMA InitDraft ==
    Init => /\ TypeOK /\ SafeInv /\ journal = <<>> /\ marker = None /\ ~late
            /\ dirty = {} /\ remote = {}
            /\ \A p \in Drafter : pc[p] = "load" /\ pre[p] = {} /\ ~OnBranch(p)
            /\ \A s \in Syncer : pc[s] = "idle"
<1> SUFFICES ASSUME Init PROVE /\ TypeOK /\ SafeInv /\ journal = <<>> /\ marker = None /\ ~late
                               /\ dirty = {} /\ remote = {}
                               /\ \A p \in Drafter : pc[p] = "load" /\ pre[p] = {} /\ ~OnBranch(p)
                               /\ \A s \in Syncer : pc[s] = "idle"
  OBVIOUS
<1>1. /\ holder = None /\ log = <<>> /\ dirty = {} /\ landed = {} /\ remote = {}
      /\ journal = <<>> /\ marker = None /\ ~late
  BY DEF Init
<1>2. /\ \A p \in Drafter : pc[p] = "load" /\ pre[p] = {}
      /\ \A s \in Syncer : pc[s] = "idle"
      /\ DOMAIN pc = Proc
  BY ProcFacts DEF Init
<1>3. \A x : ~OnBranch(x)
  BY <1>1 DEF OnBranch
<1>4. RegTypes
  <2>1. <<0, {}>> \in Nat \X SUBSET Tx
    OBVIOUS
  <2> QED  BY <2>1 DEF Init, RegTypes
<1>5. RepoTypes /\ JournalTypes
  <2>1. log \in Seq(Author) /\ journal \in Seq(Record)
    BY <1>1
  <2>2. late \in BOOLEAN
    BY DEF Init
  <2> QED  BY <1>1, <2>1, <2>2 DEF RepoTypes, JournalTypes
<1>6. Labels
  BY <1>2 DEF Labels, DraftLabel, SyncLabel
<1>7. TypeOK
  BY <1>4, <1>5, <1>6, TypeParts
<1>8. \A p \in Drafter : ~Chain(p)
  BY <1>1, <1>7, EmptyJournal, NoChain
<1>9. Locked
  BY <1>1, <1>2, ProcFacts DEF Locked, InLock, Holding
<1>10. \A p \in Drafter : Shaped(p)
  BY <1>2 DEF Shaped
<1>11. \A p \in Drafter : Branched(p)
  BY <1>1, <1>2, <1>3, ProcFacts DEF Branched, AfterCommit
<1>12. \A p \in Drafter : Written(p)
  BY <1>2 DEF Written, DraftWritten, AfterCommit
<1>13. \A p \in Drafter : Kept(p)
  BY <1>2, <1>8 DEF Kept, InLock
<1>14. \A s \in Syncer : Observed(s)
  BY <1>2 DEF Observed
<1>15. Chained
  BY <1>1 DEF Chained
<1> QED  BY <1>1, <1>2, <1>3, <1>7, <1>9, <1>10, <1>11, <1>12, <1>13, <1>14, <1>15 DEF SafeInv

\* Whatever markers were made: the part of the invariant that needs no more.
LEMMA SafeHolds == Spec => [](TypeOK /\ SafeInv)
<1>1. Init => TypeOK /\ SafeInv
  BY InitDraft
<1>2. (TypeOK /\ SafeInv) /\ [Next]_vars => (TypeOK /\ SafeInv)'
  BY NextTyped, NextSafe, StutterTyped, StutterSafe
<1> QED  BY <1>1, <1>2, PTL DEF Spec

\* Every variable of the commands, the synchronizers and the journal keeps
\* its type (draft-unit-of-work.mjs, publication-journal.mjs).
THEOREM DraftTyped == Spec => []TypeOK
BY SafeHolds, PTL

\* An accepted draft stays: no rollback, recovery or later save of another
\* command takes its bytes out of the files (DraftUnitOfWork.execute).
THEOREM DraftsStay == Spec => []AcceptedStays
<1>1. SafeInv => AcceptedStays
  BY DEF SafeInv, Written, DraftWritten, AcceptedStays
<1> QED  BY <1>1, SafeHolds, PTL

\* No rollback, the draft's, its nested publication's or a later sync's, restores
\* a preimage once the nested commit of that command is on the branch
\* (DraftUnitOfWork.execute, unwind, recoverPreparedPublication).
THEOREM RollsBackBelowNoCommit == Spec => RollbackBelowNoCommit
<1>1. SafeInv => \A p \in Drafter : pc[p] \in {"restore", "unwind"} => ~OnBranch(p)
  BY DEF SafeInv, Branched, BeforeCommit
<1>2. SafeInv => \A s \in Syncer : pc[s] = "undo" => ~OnBranch(Owner(obs[s]))
  BY DEF SafeInv, Observed, Owner
<1>3. SafeInv /\ [Next]_vars =>
        [/\ \A p \in Drafter :
                \/ pc[p] = "restore" /\ pc'[p] = "restored"
                \/ pc[p] = "unwind" /\ pc'[p] = "unwound"
                => ~OnBranch(p)
         /\ \A s \in Syncer :
                pc[s] = "undo" /\ pc'[s] = "undone" => ~OnBranch(Owner(obs[s]))]_vars
  BY <1>1, <1>2
<1> QED  BY <1>3, SafeHolds, PTL DEF Spec, RollbackBelowNoCommit

-----------------------------------------------------------------------------
(***************************************************************************)
(* As long as no marker is made of a journal that is gone: the frames.     *)
(***************************************************************************)
\* Done is done.
LEMMA DoneStays ==
    ASSUME NEW p \in Proc, NEW l, Moves(p, l), pc[p] # "done"
    PROVE  /\ \A q \in Drafter : pc[q] = "done" => pc'[q] = "done"
           /\ \A bytes \in SUBSET Tx : Accepted(bytes) => Accepted(bytes)'
<1>1. \A q \in Drafter : pc[q] = "done" => pc'[q] = "done"
  BY ProcFacts DEF Moves
<1> QED  BY <1>1, TxFacts DEF Accepted

\* The bytes of a command whose commit is on the branch are not loose.
LEMMA LooseBytes ==
    ASSUME TypeOK, SafeInv, NEW tx \in dirty
    PROVE  tx \in Tx /\ tx[1] \in Drafter /\ ~OnBranch(tx[1])
<1>1. tx \in Tx
  BY DEF TypeOK
<1>2. tx[1] \in Drafter /\ (tx = Draft(tx[1]) \/ tx = Nested(tx[1]))
  BY <1>1, TxFacts
<1>3. PICK q \in Drafter : q = tx[1]
  BY <1>2
<1>4. OnBranch(q) => Draft(q) \notin dirty /\ Nested(q) \notin dirty
  BY DEF SafeInv, Branched
<1> QED  BY <1>1, <1>2, <1>3, <1>4

\* A marker beside a journal is of the same command.
LEMMA MarkerIsOwners ==
    ASSUME TypeOK, Marked, NEW c \in Drafter, Chain(c)
    PROVE  marker \in {None, c}
<1>1. journal # <<>>
  BY ChainFacts
<1>2. marker # None => Chain(marker) /\ marker \in Drafter
  BY <1>1 DEF Marked, TypeOK
<1> QED  BY <1>2, ChainFacts

\* A command at work under the lock.
LEMMA TimelyStep ==
    ASSUME TypeOK, SafeInv, TimelyInv, ~late, TypeOK',
           NEW p \in Drafter, NEW l \in DraftLabel, Moves(p, l),
           pc[p] \in InLock, holder' \in {p, None}, UNCHANGED <<base, obs>>,
           Accepted(pre[p])', \A q \in Drafter \ {p} : pre'[q] = pre[q],
           \A q \in Drafter \ {p} : OnBranch(q)' <=> OnBranch(q),
           \A m \in Manual : OnBranch(m) => OnBranch(m)',
           remote \subseteq remote', marker # None => marker' = marker \/ marker \in remote',
           marker' \in {marker, None, p},
           journal' = <<>> \/ Chain(p)', journal = <<>> => journal' = <<>> \/ marker' = None,
           \A tx \in dirty' : pc[tx[1]] = "done" \/ (tx[1] = p /\ (Chain(p)' \/ l = "done")),
           Proven(p)',
           (\A m \in Manual : ~OnBranch(m)) =>
               /\ Tip' = base[p] \/ (OnBranch(p)' /\ log'[Tip'] = p)
               /\ l = "failed" /\ Chain(p)' /\ OnBranch(p)' => returned'[p] = "broken"
    PROVE  TimelyInv'
<1>i. /\ Explained /\ Marked /\ (\A q \in Drafter : Proven(q)) /\ (\A s \in Syncer : Settled(s))
      /\ (\A m \in Manual : ~OnBranch(m)) => \A q \in Drafter : Alone(q)
  BY DEF TimelyInv
<1>own. holder = p /\ (journal = <<>> \/ Chain(p)) /\ \A q \in Drafter \ {p} : ~Chain(q)
  BY OwnJournal
<1>p. p \in Proc /\ p # None /\ pc[p] # "done"
  BY ProcFacts DEF InLock
<1>moves. /\ pc'[p] = l /\ (\A q \in Drafter \ {p} : pc'[q] = pc[q])
          /\ \A s \in Syncer : pc'[s] = pc[s]
  BY ProcFacts DEF Moves
<1>done. /\ \A q \in Drafter : pc[q] = "done" => pc'[q] = "done"
         /\ \A bytes \in SUBSET Tx : Accepted(bytes) => Accepted(bytes)'
  BY <1>p, DoneStays
<1>others. (\A q \in Drafter \ {p} : pc[q] \notin InLock) /\ \A s \in Syncer : pc[s] \notin Holding
  BY <1>own, <1>p, OnlyHolder, ProcFacts
<1>chain. \A q \in Drafter \ {p} : ~Chain(q)'
  BY ChainUniqueNext, NoChainNext
<1>1. Explained'
  <2> SUFFICES ASSUME NEW tx \in dirty' PROVE pc'[tx[1]] = "done" \/ Chain(tx[1])'
    BY DEF Explained
  <2>1. tx[1] \in Drafter
    BY TxFacts DEF TypeOK
  <2>2. pc[tx[1]] = "done" \/ (tx[1] = p /\ (Chain(p)' \/ l = "done"))
    OBVIOUS
  <2>3. CASE pc[tx[1]] = "done"
    BY <1>done, <2>1, <2>3
  <2>4. CASE tx[1] = p /\ (Chain(p)' \/ l = "done")
    BY <1>moves, <2>4
  <2> QED  BY <2>2, <2>3, <2>4
<1>2. Marked'
  <2> SUFFICES ASSUME marker' # None PROVE journal' = <<>> \/ Chain(marker)'
    BY DEF Marked
  <2>1. marker' = p => journal' = <<>> \/ Chain(marker)'
    OBVIOUS
  <2>2. CASE marker' # p
    <3>1. marker' = marker /\ marker \in Drafter
      BY <2>2 DEF TypeOK
    <3>2. journal = <<>> \/ Chain(marker)
      BY <1>i, <3>1 DEF Marked
    <3>3. ~Chain(marker)
      BY <1>own, <2>2, <3>1
    <3> QED  BY <3>2, <3>3
  <2> QED  BY <2>1, <2>2
<1>3. ASSUME NEW q \in Drafter PROVE Proven(q)'
  <2>1. CASE q = p
    BY <2>1
  <2>2. CASE q # p
    <3>0. Proven(q) /\ pc'[q] = pc[q] /\ pc[q] \notin InLock /\ pre'[q] = pre[q] /\ q # None
      BY <1>i, <1>moves, <1>others, <2>2, ProcFacts
    <3>1. Accepted(pre[q])'
      <4>1. pre[q] \in SUBSET Tx /\ Accepted(pre[q])
        BY <3>0 DEF TypeOK, Proven
      <4>2. PICK b \in SUBSET Tx : b = pre[q] /\ b = pre'[q]
        BY <3>0, <4>1
      <4>3. Accepted(b)'
        BY <1>done, <4>1, <4>2
      <4> QED  BY <4>2, <4>3 DEF Accepted
    <3>2. Owed(q)'
      <4>1. OnBranch(q) => q \in remote \/ marker = q
        BY <1>own, <2>2, <3>0 DEF Proven, Owed, Chain
      <4>2. OnBranch(q)' => q \in remote' \/ marker' = q
        BY <2>2, <3>0, <4>1
      <4> QED  BY <4>2 DEF Owed
    <3> QED  BY <3>0, <3>1, <3>2 DEF Proven, InLock
  <2> QED  BY <2>1, <2>2
<1>4. ASSUME NEW s \in Syncer PROVE Settled(s)'
  <2>0. /\ Settled(s) /\ pc'[s] = pc[s] /\ pc[s] \notin Holding /\ obs'[s] = obs[s]
        /\ Observed(s)
    BY <1>i, <1>moves, <1>others DEF SafeInv
  <2>1. pc[s] = "drop" => obs[s].commit \in remote' \/ marker' = obs[s].commit
    BY <2>0 DEF Settled, Observed
  <2> QED  BY <2>0, <2>1 DEF Settled, Holding
<1>5. (\A m \in Manual : ~OnBranch(m)') => \A q \in Drafter : Alone(q)'
  <2> SUFFICES ASSUME \A m \in Manual : ~OnBranch(m)', NEW q \in Drafter PROVE Alone(q)'
    OBVIOUS
  <2>1. \A m \in Manual : ~OnBranch(m)
    OBVIOUS
  <2>2. CASE q = p
    BY <1>moves, <2>1, <2>2 DEF Alone
  <2>3. CASE q # p
    BY <1>chain, <2>3, ProcFacts DEF Alone
  <2> QED  BY <2>2, <2>3
<1> QED  BY <1>1, <1>2, <1>3, <1>4, <1>5 DEF TimelyInv

\* A step that leaves the branch and the files alone.
LEMMA LookTimely ==
    ASSUME TypeOK, SafeInv, TimelyInv, ~late, TypeOK',
           NEW p \in Drafter, NEW l \in DraftLabel, Moves(p, l),
           pc[p] \in InLock, l \notin {"begin", "restored"}, holder' \in {p, None},
           UNCHANGED <<log, files, base, pre, obs>>,
           remote \subseteq remote', marker # None => marker' = marker \/ marker \in remote',
           marker' \in {marker, None, p},
           journal' = <<>> \/ Chain(p)', journal = <<>> => journal' = <<>>,
           Chain(p)' \/ journal = <<>> \/ l = "done" \/ OnBranch(p) \/ Accepted(dirty),
           l = "retained" => marker' = p,
           l \in {"pushed", "clean up"} => p \in remote',
           l \in {"validate", "catch"} /\ OnBranch(p) =>
               marker' = p \/ returned'[p] # "nothing",
           OnBranch(p) => p \in remote' \/ marker' = p \/ Double(p)',
           (\A m \in Manual : ~OnBranch(m)) =>
               (l = "failed" /\ Chain(p)' /\ OnBranch(p) => returned'[p] = "broken")
    PROVE  TimelyInv'
<1>i. /\ Explained /\ Proven(p)
      /\ (\A m \in Manual : ~OnBranch(m)) => Alone(p)
  BY DEF TimelyInv
<1>own. holder = p /\ \A q \in Drafter \ {p} : ~Chain(q)
  BY OwnJournal
<1>b. Tip' = Tip /\ \A x : OnBranch(x)' <=> OnBranch(x)
  BY BranchFrame
<1>moves. pc'[p] = l
  BY DEF Moves
<1>p. p \in Proc /\ pc[p] # "done"
  BY ProcFacts DEF InLock
<1>1. Accepted(pre[p])'
  <2>1. pre[p] \in SUBSET Tx /\ Accepted(pre[p])
    BY <1>i DEF TypeOK, Proven
  <2>2. PICK b \in SUBSET Tx : b = pre[p] /\ b = pre'[p]
    BY <2>1
  <2>3. Accepted(b)'
    BY <1>p, <2>1, <2>2, DoneStays
  <2> QED  BY <2>2, <2>3 DEF Accepted
<1>2. Proven(p)'
  <2>1. Owed(p)'
    BY <1>b DEF Owed
  <2> QED  BY <1>1, <1>b, <1>moves, <2>1 DEF Proven
<1>3. ASSUME NEW tx \in dirty'
      PROVE  pc[tx[1]] = "done" \/ (tx[1] = p /\ (Chain(p)' \/ l = "done"))
  <2>1. tx \in dirty
    BY DEF files
  <2>2. tx[1] \in Drafter /\ ~OnBranch(tx[1])
    BY <2>1, LooseBytes
  <2>3. pc[tx[1]] = "done" \/ tx[1] = p
    BY <1>i, <1>own, <2>1, <2>2 DEF Explained
  <2>4. journal = <<>> => pc[tx[1]] = "done"
    BY <1>i, <2>1, <2>2, ChainFacts DEF Explained
  <2> QED  BY <2>1, <2>2, <2>3, <2>4 DEF Accepted
<1>4. (\A m \in Manual : ~OnBranch(m)) =>
          /\ Tip' = base[p] \/ (OnBranch(p)' /\ log'[Tip'] = p)
          /\ l = "failed" /\ Chain(p)' /\ OnBranch(p)' => returned'[p] = "broken"
  BY <1>i, <1>own, <1>b DEF Alone
<1> QED  BY <1>1, <1>2, <1>3, <1>4, <1>b, TimelyStep

\* A step that changes bytes which no commit has.
LEMMA FilesTimely ==
    ASSUME TypeOK, SafeInv, TimelyInv, ~late, TypeOK',
           NEW p \in Drafter, NEW l \in DraftLabel, Moves(p, l), pc[p] \in InLock,
           ~OnBranch(p), l \notin {"begin", "retained", "pushed", "clean up", "failed"},
           holder' = p, UNCHANGED <<log, remote, marker, base, pre, obs>>,
           journal' = <<>> \/ Chain(p)', journal = <<>> => journal' = <<>>,
           \A tx \in dirty' : pc[tx[1]] = "done" \/ (tx[1] = p /\ Chain(p)'),
           l = "restored" => Accepted(dirty')
    PROVE  TimelyInv'
<1>i. Proven(p) /\ ((\A m \in Manual : ~OnBranch(m)) => Alone(p))
  BY DEF TimelyInv
<1>own. holder = p
  BY OwnJournal
<1>b. Tip' = Tip /\ \A x : OnBranch(x)' <=> OnBranch(x)
  BY BranchFrame
<1>moves. pc'[p] = l
  BY DEF Moves
<1>p. p \in Proc /\ pc[p] # "done"
  BY ProcFacts DEF InLock
<1>done. \A bytes \in SUBSET Tx : Accepted(bytes) => Accepted(bytes)'
  BY <1>p, DoneStays
<1>1. Accepted(pre[p])'
  <2>1. pre[p] \in SUBSET Tx /\ Accepted(pre[p])
    BY <1>i DEF TypeOK, Proven
  <2>2. PICK b \in SUBSET Tx : b = pre[p] /\ b = pre'[p]
    BY <2>1
  <2>3. Accepted(b)'
    BY <1>done, <2>1, <2>2
  <2> QED  BY <2>2, <2>3 DEF Accepted
<1>2. l = "restored" => Accepted(dirty)'
  <2> SUFFICES ASSUME l = "restored" PROVE Accepted(dirty)'
    OBVIOUS
  <2>1. PICK b \in SUBSET Tx : b = dirty'
    BY DEF TypeOK
  <2>2. Accepted(b)'
    BY <1>done, <2>1
  <2> QED  BY <2>1, <2>2 DEF Accepted
<1>3. Proven(p)'
  BY <1>1, <1>2, <1>b, <1>moves DEF Proven, Owed
<1>4. (\A m \in Manual : ~OnBranch(m)) =>
          /\ Tip' = base[p] \/ (OnBranch(p)' /\ log'[Tip'] = p)
          /\ l = "failed" /\ Chain(p)' /\ OnBranch(p)' => returned'[p] = "broken"
  BY <1>i, <1>own, <1>b DEF Alone
<1> QED  BY <1>1, <1>3, <1>4, <1>b, TimelyStep

-----------------------------------------------------------------------------
(***************************************************************************)
(* ... and the steps of a command.                                         *)
(***************************************************************************)
\* What a command under the lock may rely on.
LEMMA TimelyFacts ==
    ASSUME TypeOK, SafeInv, TimelyInv, ~late, NEW p \in Drafter, pc[p] \in InLock
    PROVE  /\ Explained /\ Marked /\ Proven(p) /\ Owed(p)
           /\ (\A m \in Manual : ~OnBranch(m)) => Alone(p)
           /\ Chain(p) => marker \in {None, p}
           /\ holder = p /\ (journal = <<>> \/ Chain(p)) /\ Shaped(p) /\ Branched(p)
           /\ \A l \in DraftLabel : Go(p, l) => Moves(p, l)
<1>1. /\ Explained /\ Marked /\ Proven(p)
      /\ (\A m \in Manual : ~OnBranch(m)) => Alone(p)
  BY DEF TimelyInv
<1>2. \A l \in DraftLabel : Go(p, l) => Moves(p, l)
  BY TypeParts, DraftGoes
<1>3. Owed(p)
  BY <1>1 DEF Proven
<1>4. Chain(p) => marker \in {None, p}
  BY <1>1, MarkerIsOwners
<1> QED  BY <1>1, <1>2, <1>3, <1>4, InLockFacts

\* The labels of a command at work.
LEMMA LockLabels == \A l \in InLock \cup {"failed", "done", "dead"} : l \in DraftLabel
BY DEF InLock, DraftLabel, Ended

LEMMA InvalidTimely ==
    ASSUME TypeOK, SafeInv, TimelyInv, ~late, TypeOK', NEW p \in Drafter, Invalid(p)
    PROVE  TimelyInv'
<1>0. /\ pc[p] = "validate" /\ Go(p, "catch")
      /\ UNCHANGED <<holder, log, files, remote, journal, marker, base, pre, returned, obs>>
  BY DEF Invalid, records, regs
<1>i. pc[p] \in InLock /\ "catch" \in DraftLabel
  BY <1>0, LockLabels DEF InLock
<1>f. /\ Proven(p) /\ Owed(p) /\ holder = p /\ (journal = <<>> \/ Chain(p))
      /\ Moves(p, "catch") /\ (Chain(p) => marker \in {None, p})
  BY <1>0, <1>i, TimelyFacts
<1>1. (Chain(p)' <=> Chain(p)) /\ (Double(p)' <=> Double(p))
  BY <1>0, BranchFrame, ChainFrame
<1>2. OnBranch(p) => marker = p \/ returned[p] # "nothing"
  BY <1>0, <1>f DEF Proven
<1> QED  BY <1>0, <1>i, <1>f, <1>1, <1>2, LookTimely DEF Owed

LEMMA AcceptTimely ==
    ASSUME TypeOK, SafeInv, TimelyInv, ~late, TypeOK', NEW p \in Drafter, Accept(p)
    PROVE  TimelyInv'
<1>0. /\ pc[p] = "validate" /\ Go(p, "done") /\ holder' = None /\ ClearJournal(Draft(p))
      /\ UNCHANGED <<log, files, remote, marker, base, pre, obs>>
  BY DEF Accept, End, regs
<1>i. pc[p] \in InLock /\ "done" \in DraftLabel
  BY <1>0, LockLabels DEF InLock
<1>f. Owed(p) /\ Shaped(p) /\ Moves(p, "done")
  BY <1>0, <1>i, TimelyFacts
<1>1. journal = <<>> \/ Single(p)
  BY <1>0, <1>f DEF Shaped
<1>2. ~Double(p)
  BY <1>1, ChainFacts DEF Chain
<1>3. journal' = <<>>
  BY <1>0, <1>1, <1>2, ClearDraft DEF Chain
<1>4. OnBranch(p) => p \in remote \/ marker = p
  BY <1>f, <1>2 DEF Owed
<1> QED  BY <1>0, <1>i, <1>f, <1>3, <1>4, LookTimely

LEMMA CatchTimely ==
    ASSUME TypeOK, SafeInv, TimelyInv, ~late, TypeOK', NEW p \in Drafter, Catch(p)
    PROVE  TimelyInv'
<1>0. pc[p] = "catch" /\ UNCHANGED <<log, files, remote, marker, base, pre, returned, obs>>
  BY DEF Catch, regs
<1>i. pc[p] \in InLock /\ "restore" \in DraftLabel /\ "failed" \in DraftLabel
  BY <1>0, LockLabels DEF InLock
<1>f. /\ Proven(p) /\ Owed(p) /\ holder = p /\ (journal = <<>> \/ Chain(p)) /\ Shaped(p)
      /\ \A l \in DraftLabel : Go(p, l) => Moves(p, l)
      /\ (\A m \in Manual : ~OnBranch(m)) => Alone(p)
  BY <1>i, TimelyFacts
<1>l. "restoring" \in Stage /\ "draft-head-diverged" \in Stage
  BY DEF Stage, Recoverable
<1>stage. ASSUME NEW st \in Stage, SetStage(Draft(p), st)
          PROVE  /\ Chain(p)' <=> Chain(p)
                 /\ Double(p)' <=> Double(p)
                 /\ journal = <<>> => journal' = <<>>
  BY <1>0, <1>stage, StageStays
<1>1. CASE SetStage(Draft(p), "restoring") /\ Go(p, "restore") /\ UNCHANGED holder
  <2>1. /\ Chain(p)' <=> Chain(p)
        /\ Double(p)' <=> Double(p)
        /\ journal = <<>> => journal' = <<>>
    BY <1>1, <1>l, <1>stage
  <2> QED  BY <1>0, <1>i, <1>f, <1>1, <2>1, LookTimely DEF Owed
<1>2. CASE Verified(p) /\ ClearJournal(Draft(p)) /\ Go(p, "failed") /\ holder' = None
  <2>1. OnBranch(p)
    <3>1. log \in Seq(Author) /\ log # <<>> /\ log[Len(log)] = p
      BY <1>2 DEF TypeOK, Verified, Tip
    <3>2. Len(log) \in DOMAIN log
      BY <3>1
    <3> QED  BY <3>1, <3>2 DEF OnBranch
  <2>2. CASE ~Double(p)
    <3>1. journal' = <<>> /\ ~Chain(p)'
      BY <1>0, <1>f, <1>2, <2>2, ClearDraft, NoChainNext
    <3>2. p \in remote \/ marker = p
      BY <1>f, <2>1, <2>2 DEF Owed
    <3> QED  BY <1>0, <1>i, <1>f, <1>2, <2>1, <3>1, <3>2, LookTimely
  <2>3. CASE Double(p)
    <3>1. UNCHANGED journal
      BY <1>2, <2>3, ChainFacts, TxFacts DEF ClearJournal, IsTop
    <3>2. Chain(p)' /\ Double(p)' /\ journal # <<>>
      BY <1>0, <2>3, <3>1, BranchFrame, ChainFrame, ChainFacts DEF Chain
    <3>3. returned'[p] = "broken"
      BY <1>0, <1>f, <2>1, <2>3, ChainFacts DEF Shaped, Chain
    <3> QED  BY <1>0, <1>i, <1>f, <1>2, <2>1, <3>2, <3>3, LookTimely
  <2> QED  BY <2>2, <2>3
<1>3. CASE /\ Tip # base[p] /\ ~Verified(p)
           /\ SetStage(Draft(p), "draft-head-diverged") /\ Go(p, "failed") /\ holder' = None
  <2>1. /\ Chain(p)' <=> Chain(p)
        /\ Double(p)' <=> Double(p)
        /\ journal = <<>> => journal' = <<>>
    BY <1>3, <1>l, <1>stage
  <2>2. (\A m \in Manual : ~OnBranch(m)) => (OnBranch(p) => returned'[p] = "broken")
    <3> SUFFICES ASSUME \A m \in Manual : ~OnBranch(m), OnBranch(p)
                 PROVE  returned[p] = "broken"
      BY <1>0
    <3>1. log[Tip] = p /\ log # <<>>
      BY <1>f, <1>3 DEF Alone, OnBranch
    <3>2. marker = p \/ returned[p] # "nothing"
      BY <1>0, <1>f DEF Proven
    <3>3. returned[p] \in {"nothing", "receipt", "broken"}
      BY DEF TypeOK
    <3> QED  BY <1>3, <3>1, <3>2, <3>3 DEF Verified
  <2> QED  BY <1>0, <1>i, <1>f, <1>3, <2>1, <2>2, LookTimely DEF Owed
<1> QED  BY <1>1, <1>2, <1>3 DEF Catch, End

LEMMA RestoreTimely ==
    ASSUME TypeOK, SafeInv, TimelyInv, ~late, TypeOK', NEW p \in Drafter, Restore(p)
    PROVE  TimelyInv'
<1>0. pc[p] = "restore" /\ UNCHANGED <<log, landed, remote, marker, base, pre, obs>>
  BY DEF Restore, regs
<1>i. pc[p] \in InLock /\ "restored" \in DraftLabel /\ "failed" \in DraftLabel
  BY <1>0, LockLabels DEF InLock
<1>f. /\ Proven(p) /\ holder = p /\ (journal = <<>> \/ Chain(p)) /\ Branched(p)
      /\ \A l \in DraftLabel : Go(p, l) => Moves(p, l)
  BY <1>i, TimelyFacts
<1>1. ~OnBranch(p) /\ Accepted(pre[p]) /\ "rollback-failed" \in Stage
  BY <1>0, <1>f DEF Branched, BeforeCommit, Proven, Stage, Recoverable
<1>2. CASE RestoreTo(pre[p]) /\ Go(p, "restored") /\ UNCHANGED <<holder, journal>>
  <2>1. Chain(p)' <=> Chain(p)
    BY <1>0, <1>2, BranchFrame, ChainFrame
  <2>2. \A tx \in dirty' : pc[tx[1]] = "done"
    BY <1>1, <1>2 DEF RestoreTo, Accepted
  <2>3. Accepted(dirty')
    BY <2>2 DEF Accepted
  <2> QED  BY <1>0, <1>i, <1>f, <1>1, <1>2, <2>1, <2>2, <2>3, FilesTimely
<1>3. CASE /\ SetStage(Draft(p), "rollback-failed") /\ Go(p, "failed") /\ holder' = None
           /\ UNCHANGED dirty
  <2>1. /\ Chain(p)' <=> Chain(p)
        /\ journal = <<>> => journal' = <<>>
    BY <1>0, <1>1, <1>3, StageStays
  <2>2. UNCHANGED files
    BY <1>0, <1>3 DEF files
  <2> QED  BY <1>0, <1>i, <1>f, <1>1, <1>3, <2>1, <2>2, LookTimely
<1> QED  BY <1>2, <1>3 DEF Restore, End

LEMMA RestoredTimely ==
    ASSUME TypeOK, SafeInv, TimelyInv, ~late, TypeOK', NEW p \in Drafter, Restored(p)
    PROVE  TimelyInv'
<1>0. /\ pc[p] = "restored" /\ ClearJournal(Draft(p)) /\ Go(p, "failed") /\ holder' = None
      /\ UNCHANGED <<log, files, remote, marker, base, pre, obs>>
  BY DEF Restored, End, regs
<1>i. pc[p] \in InLock /\ "failed" \in DraftLabel
  BY <1>0, LockLabels DEF InLock
<1>f. Proven(p) /\ (journal = <<>> \/ Chain(p)) /\ Branched(p) /\ Moves(p, "failed")
  BY <1>0, <1>i, TimelyFacts
<1>1. ~OnBranch(p) /\ Accepted(dirty)
  BY <1>0, <1>f DEF Branched, BeforeCommit, Proven
<1>2. journal' = <<>> \/ (Double(p) /\ UNCHANGED journal)
  BY <1>0, <1>f, ClearDraft
<1>3. journal' = <<>> \/ Chain(p)'
  BY <1>0, <1>2, ChainFrame, BranchFrame DEF Chain
<1>4. journal = <<>> => journal' = <<>>
  BY <1>2
<1> QED  BY <1>0, <1>i, <1>f, <1>1, <1>3, <1>4, LookTimely

\* Before its commit a command owes nothing.
LEMMA WriteTimely ==
    ASSUME TypeOK, SafeInv, TimelyInv, ~late, TypeOK', NEW p \in Drafter,
           Write(p) \/ NestedWrite(p)
    PROVE  TimelyInv'
<1>1. PICK l \in {"nest", "validate", "catch", "candidate", "unwind"} : Go(p, l)
  BY DEF Write, NestedWrite
<1>0. /\ pc[p] \in {"write", "nested write"}
      /\ dirty' \subseteq dirty \cup {Draft(p), Nested(p)}
      /\ UNCHANGED <<holder, log, remote, marker, journal, base, pre, obs>>
  BY DEF Write, NestedWrite, records, regs
<1>i. pc[p] \in InLock /\ l \in DraftLabel
  BY <1>0, LockLabels DEF InLock
<1>f. Explained /\ holder = p /\ Shaped(p) /\ Branched(p) /\ Moves(p, l)
  BY <1>1, <1>i, TimelyFacts
<1>2. ~OnBranch(p) /\ Chain(p)
  BY <1>0, <1>f DEF Branched, BeforeCommit, Shaped, Chain
<1>3. Chain(p)' /\ journal # <<>>
  BY <1>0, <1>2, BranchFrame, ChainFrame, ChainFacts
<1>4. ASSUME NEW tx \in dirty' PROVE pc[tx[1]] = "done" \/ tx[1] = p
  <2>1. CASE tx \in dirty
    BY <1>2, <1>f, <2>1, LooseBytes, ChainFacts DEF Explained
  <2>2. CASE tx \in {Draft(p), Nested(p)}
    BY <2>2, TxFacts
  <2> QED  BY <1>0, <2>1, <2>2
<1> QED  BY <1>0, <1>i, <1>f, <1>2, <1>3, <1>4, FilesTimely

LEMMA NestTimely ==
    ASSUME TypeOK, SafeInv, TimelyInv, ~late, TypeOK', SafeInv', NEW p \in Drafter, Nest(p)
    PROVE  TimelyInv'
<1>0. /\ pc[p] = "nest" /\ UNCHANGED <<holder, log, files, remote, marker, base, pre, obs>>
  BY DEF Nest, regs
<1>1. PICK l \in {"nested write", "catch"} : Go(p, l) /\ (l = "catch" => UNCHANGED journal)
  BY DEF Nest
<1>i. pc[p] \in InLock /\ l \in DraftLabel
  BY <1>0, LockLabels DEF InLock
<1>f. holder = p /\ Shaped(p) /\ Branched(p) /\ Moves(p, l)
  BY <1>1, <1>i, TimelyFacts
<1>2. ~OnBranch(p) /\ Single(p) /\ journal # <<>>
  BY <1>0, <1>f, ChainFacts DEF Branched, BeforeCommit, Shaped, Chain
<1>3. Chain(p)'
  <2>1. CASE l = "catch"
    BY <1>0, <1>1, <1>2, <2>1, BranchFrame, ChainFrame DEF Chain
  <2>2. CASE l = "nested write"
    BY <1>f, <2>2 DEF SafeInv, Shaped, Chain, Moves
  <2> QED  BY <2>1, <2>2
<1> QED  BY <1>0, <1>i, <1>f, <1>2, <1>3, LookTimely

LEMMA CandidateTimely ==
    ASSUME TypeOK, SafeInv, TimelyInv, ~late, TypeOK', SafeInv', NEW p \in Drafter,
           VerifyCandidate(p)
    PROVE  TimelyInv'
<1>0. /\ pc[p] = "candidate" /\ UNCHANGED <<holder, log, files, remote, marker, base, pre, obs>>
  BY DEF VerifyCandidate, regs
<1>1. PICK l \in {"commit", "unwind"} : Go(p, l)
  BY DEF VerifyCandidate
<1>i. pc[p] \in InLock /\ l \in DraftLabel
  BY <1>0, LockLabels DEF InLock
<1>f. holder = p /\ Shaped(p) /\ Branched(p) /\ Moves(p, l)
  BY <1>1, <1>i, TimelyFacts
<1>2. ~OnBranch(p) /\ Chain(p) /\ journal # <<>>
  BY <1>0, <1>f, ChainFacts DEF Branched, BeforeCommit, Shaped, Chain
<1>3. Chain(p)'
  BY <1>f DEF SafeInv, Shaped, Chain, Moves
<1> QED  BY <1>0, <1>i, <1>f, <1>2, <1>3, LookTimely

LEMMA CommitTreeTimely ==
    ASSUME TypeOK, SafeInv, TimelyInv, ~late, TypeOK', SafeInv', NEW p \in Drafter, CommitTree(p)
    PROVE  TimelyInv'
<1>0. /\ pc[p] = "commit" /\ UNCHANGED <<holder, log, files, remote, marker, base, pre, obs>>
  BY DEF CommitTree, regs
<1>1. PICK l \in {"advance", "unwind"} : Go(p, l)
  BY DEF CommitTree
<1>i. pc[p] \in InLock /\ l \in DraftLabel
  BY <1>0, LockLabels DEF InLock
<1>f. holder = p /\ Shaped(p) /\ Branched(p) /\ Moves(p, l)
  BY <1>1, <1>i, TimelyFacts
<1>2. ~OnBranch(p) /\ Chain(p) /\ journal # <<>>
  BY <1>0, <1>f, ChainFacts DEF Branched, BeforeCommit, Shaped, Chain
<1>3. Chain(p)'
  BY <1>f DEF SafeInv, Shaped, Chain, Moves
<1> QED  BY <1>0, <1>i, <1>f, <1>2, <1>3, LookTimely

LEMMA AdvanceTimelyFacts ==
    ASSUME TypeOK, SafeInv, TimelyInv, ~late, NEW p \in Drafter, pc[p] = "advance"
    PROVE  /\ pc[p] \in InLock /\ {"push", "unwind", "catch"} \subseteq DraftLabel
           /\ Proven(p) /\ Explained /\ holder = p
           /\ \A l \in DraftLabel : Go(p, l) => Moves(p, l)
           /\ ~OnBranch(p) /\ Double(p) /\ Chain(p) /\ journal # <<>>
<1>i. pc[p] \in InLock /\ {"push", "unwind", "catch"} \subseteq DraftLabel
  BY LockLabels DEF InLock
<1>f. /\ Proven(p) /\ Explained /\ holder = p /\ Shaped(p) /\ Branched(p)
      /\ \A l \in DraftLabel : Go(p, l) => Moves(p, l)
  BY <1>i, TimelyFacts
<1>1. ~OnBranch(p) /\ Double(p) /\ Chain(p) /\ journal # <<>>
  BY <1>f, ChainFacts DEF Branched, BeforeCommit, Shaped, Chain
<1> QED  BY <1>i, <1>f, <1>1

LEMMA CommitsTimely ==
    ASSUME TypeOK, SafeInv, TimelyInv, ~late, TypeOK', SafeInv', NEW p \in Drafter,
           pc[p] = "advance", Commits(p), NEW l \in {"push", "catch"}, Moves(p, l),
           l = "catch" => returned'[p] = "broken",
           UNCHANGED <<holder, remote, journal, marker, base, pre, obs>>
    PROVE  TimelyInv'
<1>0. /\ pc[p] \in InLock /\ l \in DraftLabel /\ Proven(p) /\ Explained /\ holder = p
      /\ ~OnBranch(p) /\ Double(p) /\ Chain(p) /\ journal # <<>>
  BY AdvanceTimelyFacts
<1>1. pc'[p] = l /\ log' = Append(log, p) /\ dirty' = {}
  BY DEF Moves, Commits
<1>a. p \in Author
  BY DEF Author
<1>2. log'[Tip'] = p /\ \A x : OnBranch(x)' <=> OnBranch(x) \/ x = p
  BY <1>1, <1>a, BranchGrows
<1>3. Len(journal') = 2 /\ ~Single(p)'
  BY <1>0 DEF Double, Single
<1>4. Double(p)'
  BY <1>0, <1>1, <1>3 DEF SafeInv, Shaped, Chain
<1>5. Chain(p)'
  BY <1>4 DEF Chain
<1>6. Accepted(pre[p])'
  <2>1. pre[p] \in SUBSET Tx /\ Accepted(pre[p]) /\ p \in Proc /\ pc[p] # "done"
    BY <1>0, ProcFacts DEF TypeOK, Proven
  <2>2. PICK b \in SUBSET Tx : b = pre[p] /\ b = pre'[p]
    BY <2>1
  <2>3. Accepted(b)'
    BY <2>1, <2>2, DoneStays
  <2> QED  BY <2>2, <2>3 DEF Accepted
<1>7. Proven(p)'
  BY <1>1, <1>4, <1>6 DEF Proven, Owed
<1>8. (\A q \in Drafter \ {p} : OnBranch(q)' <=> OnBranch(q)) /\ OnBranch(p)'
  BY <1>2
<1>9. \A m \in Manual : OnBranch(m) => OnBranch(m)'
  BY <1>2
<1> QED  BY <1>0, <1>1, <1>2, <1>5, <1>6, <1>7, <1>8, <1>9, TimelyStep

LEMMA AdvanceTimely ==
    ASSUME TypeOK, SafeInv, TimelyInv, ~late, TypeOK', SafeInv', NEW p \in Drafter, Advance(p)
    PROVE  TimelyInv'
<1>0. /\ pc[p] = "advance"
      /\ UNCHANGED <<holder, remote, journal, marker, base, pre, obs>>
  BY DEF Advance, records, regs
<1>f. /\ pc[p] \in InLock /\ {"push", "unwind"} \subseteq DraftLabel /\ holder = p
      /\ (\A l \in DraftLabel : Go(p, l) => Moves(p, l)) /\ ~OnBranch(p) /\ Chain(p)
      /\ journal # <<>>
  BY <1>0, AdvanceTimelyFacts
<1>1. CASE Commits(p) /\ Go(p, "push")
  BY <1>0, <1>f, <1>1, CommitsTimely
<1>2. CASE Go(p, "unwind") /\ UNCHANGED <<log, files>>
  <2>1. Chain(p)'
    BY <1>0, <1>f, <1>2, BranchFrame, ChainFrame
  <2> QED  BY <1>0, <1>f, <1>2, <2>1, LookTimely
<1> QED  BY <1>1, <1>2 DEF Advance

LEMMA UnknownTimely ==
    ASSUME TypeOK, SafeInv, TimelyInv, ~late, TypeOK', SafeInv', NEW p \in Drafter,
           OutcomeUnknown(p)
    PROVE  TimelyInv'
<1>0. /\ pc[p] = "advance" /\ Go(p, "catch") /\ returned'[p] = "broken"
      /\ UNCHANGED <<holder, remote, journal, marker, base, pre, obs>>
  BY DEF OutcomeUnknown, Break, records, TypeOK
<1>f. /\ pc[p] \in InLock /\ "catch" \in DraftLabel /\ holder = p /\ Moves(p, "catch")
      /\ ~OnBranch(p) /\ Chain(p) /\ journal # <<>>
  BY <1>0, AdvanceTimelyFacts
<1>1. CASE Commits(p)
  BY <1>0, <1>f, <1>1, CommitsTimely
<1>2. CASE UNCHANGED <<log, files>>
  <2>1. Chain(p)'
    BY <1>0, <1>f, <1>2, BranchFrame, ChainFrame
  <2> QED  BY <1>0, <1>f, <1>2, <2>1, LookTimely
<1> QED  BY <1>1, <1>2 DEF OutcomeUnknown

LEMMA UnwindTimely ==
    ASSUME TypeOK, SafeInv, TimelyInv, ~late, TypeOK', SafeInv', NEW p \in Drafter, Unwind(p)
    PROVE  TimelyInv'
<1>0. pc[p] = "unwind" /\ UNCHANGED <<holder, log, landed, remote, marker, base, pre, obs>>
  BY DEF Unwind
<1>i. pc[p] \in InLock /\ "unwound" \in DraftLabel /\ "catch" \in DraftLabel
  BY <1>0, LockLabels DEF InLock
<1>f. /\ Proven(p) /\ holder = p /\ Shaped(p) /\ Branched(p)
      /\ \A l \in DraftLabel : Go(p, l) => Moves(p, l)
  BY <1>i, TimelyFacts
<1>1. /\ ~OnBranch(p) /\ Accepted(pre[p]) /\ Chain(p) /\ journal # <<>>
      /\ "restoring" \in Stage /\ "rollback-failed" \in Stage
  BY <1>0, <1>f, ChainFacts DEF Branched, BeforeCommit, Proven, Shaped, Chain, Stage, Recoverable
<1>2. Chain(p)'
  <2>1. UNCHANGED journal \/ \E st \in Stage : SetStage(Nested(p), st)
    BY <1>1 DEF Unwind
  <2> QED  BY <1>0, <1>1, <2>1, StageStays, ChainFrame, BranchFrame
<1>3. CASE RestoreTo(pre[p]) /\ Go(p, "unwound")
  <2>1. \A tx \in dirty' : pc[tx[1]] = "done"
    BY <1>1, <1>3 DEF RestoreTo, Accepted
  <2> QED  BY <1>0, <1>i, <1>f, <1>1, <1>2, <1>3, <2>1, FilesTimely
<1>4. CASE UNCHANGED dirty /\ Go(p, "catch")
  <2>1. UNCHANGED files
    BY <1>0, <1>4 DEF files
  <2> QED  BY <1>0, <1>i, <1>f, <1>1, <1>2, <1>4, <2>1, LookTimely
<1> QED  BY <1>3, <1>4 DEF Unwind, Break

LEMMA UnwoundTimely ==
    ASSUME TypeOK, SafeInv, TimelyInv, ~late, TypeOK', NEW p \in Drafter, Unwound(p)
    PROVE  TimelyInv'
<1>0. /\ pc[p] = "unwound" /\ ClearJournal(Nested(p)) /\ Go(p, "catch")
      /\ UNCHANGED <<holder, log, files, remote, marker, base, pre, obs>>
  BY DEF Unwound, regs
<1>i. pc[p] \in InLock /\ "catch" \in DraftLabel
  BY <1>0, LockLabels DEF InLock
<1>f. holder = p /\ Shaped(p) /\ Branched(p) /\ Moves(p, "catch")
  BY <1>0, <1>i, TimelyFacts
<1>1. ~OnBranch(p) /\ Chain(p) /\ journal # <<>>
  BY <1>0, <1>f, ChainFacts DEF Branched, BeforeCommit, Shaped, Chain
<1>2. Chain(p)'
  BY <1>0, <1>1, ClearNested DEF Chain
<1> QED  BY <1>0, <1>i, <1>f, <1>1, <1>2, LookTimely

\* After it, the commit is owed until the remote has it or a marker retains it.
LEMMA PushTimely ==
    ASSUME TypeOK, SafeInv, TimelyInv, ~late, TypeOK', NEW p \in Drafter, Push(p)
    PROVE  TimelyInv'
<1>0. /\ pc[p] = "push"
      /\ UNCHANGED <<holder, log, files, journal, marker, base, pre, obs>>
  BY DEF Push, records, regs
<1>1. PICK l \in {"pushed", "retain"} :
          Go(p, l) /\ remote \subseteq remote' /\ (l = "pushed" => p \in remote')
  BY DEF Push
<1>i. pc[p] \in InLock /\ l \in DraftLabel
  BY <1>0, LockLabels DEF InLock
<1>f. Owed(p) /\ holder = p /\ Shaped(p) /\ Moves(p, l)
  BY <1>1, <1>i, TimelyFacts
<1>2. Chain(p) /\ journal # <<>>
  BY <1>0, <1>f, ChainFacts DEF Shaped
<1>3. Chain(p)' /\ (Double(p)' <=> Double(p))
  BY <1>0, <1>2, BranchFrame, ChainFrame
<1>4. OnBranch(p) => p \in remote' \/ marker' = p \/ Double(p)'
  BY <1>0, <1>1, <1>f, <1>3 DEF Owed
<1> QED  BY <1>0, <1>1, <1>i, <1>f, <1>2, <1>3, <1>4, LookTimely

LEMMA RetainTimely ==
    ASSUME TypeOK, SafeInv, TimelyInv, ~late, TypeOK', NEW p \in Drafter, Retain(p)
    PROVE  TimelyInv'
<1>0. /\ pc[p] = "retain" /\ Go(p, "retained") /\ marker' = p
      /\ UNCHANGED <<holder, log, files, remote, journal, base, pre, obs>>
  BY DEF Retain, regs
<1>i. pc[p] \in InLock /\ "retained" \in DraftLabel
  BY <1>0, LockLabels DEF InLock
<1>f. holder = p /\ Shaped(p) /\ Moves(p, "retained") /\ (Chain(p) => marker \in {None, p})
  BY <1>0, <1>i, TimelyFacts
<1>1. Chain(p) /\ journal # <<>>
  BY <1>0, <1>f, ChainFacts DEF Shaped
<1>2. Chain(p)'
  BY <1>0, <1>1, BranchFrame, ChainFrame
<1>3. marker # None => marker' = marker
  BY <1>0, <1>f, <1>1
<1> QED  BY <1>0, <1>i, <1>f, <1>1, <1>2, <1>3, LookTimely

LEMMA PublishFailsTimely ==
    ASSUME TypeOK, SafeInv, TimelyInv, ~late, TypeOK', NEW p \in Drafter, PublishFails(p)
    PROVE  TimelyInv'
<1>0. /\ pc[p] \in {"push", "retain", "retained", "pushed", "clean up"} /\ Go(p, "catch")
      /\ returned'[p] = "broken"
      /\ UNCHANGED <<holder, log, files, remote, journal, marker, base, pre, obs>>
  BY DEF PublishFails, Break, records, TypeOK
<1>i. pc[p] \in InLock /\ "catch" \in DraftLabel
  BY <1>0, LockLabels DEF InLock
<1>f. Owed(p) /\ holder = p /\ Shaped(p) /\ Moves(p, "catch")
  BY <1>0, <1>i, TimelyFacts
<1>1. Chain(p) /\ journal # <<>>
  BY <1>0, <1>f, ChainFacts DEF Shaped, Chain
<1>2. Chain(p)' /\ (Double(p)' <=> Double(p))
  BY <1>0, <1>1, BranchFrame, ChainFrame
<1> QED  BY <1>0, <1>i, <1>f, <1>1, <1>2, LookTimely DEF Owed

LEMMA RetainedTimely ==
    ASSUME TypeOK, SafeInv, TimelyInv, ~late, TypeOK', NEW p \in Drafter, Retained(p)
    PROVE  TimelyInv'
<1>1. PICK l \in {"catch", "validate"} : Go(p, l)
  BY DEF Retained
<1>0. /\ pc[p] = "retained" /\ ClearJournal(Nested(p))
      /\ UNCHANGED <<holder, log, files, remote, marker, base, pre, obs>>
  BY DEF Retained
<1>i. pc[p] \in InLock /\ l \in DraftLabel
  BY <1>0, LockLabels DEF InLock
<1>f. Proven(p) /\ holder = p /\ Shaped(p) /\ Moves(p, l)
  BY <1>1, <1>i, TimelyFacts
<1>2. Chain(p) /\ journal # <<>> /\ marker = p
  BY <1>0, <1>f, ChainFacts DEF Shaped, Proven
<1>3. Chain(p)'
  BY <1>0, <1>2, ClearNested DEF Chain
<1> QED  BY <1>0, <1>i, <1>f, <1>2, <1>3, LookTimely

LEMMA PushedTimely ==
    ASSUME TypeOK, SafeInv, TimelyInv, ~late, TypeOK', NEW p \in Drafter, Pushed(p)
    PROVE  TimelyInv'
<1>0. /\ pc[p] = "pushed" /\ ClearJournal(Nested(p)) /\ Go(p, "clean up")
      /\ UNCHANGED <<holder, log, files, remote, marker, base, pre, obs>>
  BY DEF Pushed, regs
<1>i. pc[p] \in InLock /\ "clean up" \in DraftLabel
  BY <1>0, LockLabels DEF InLock
<1>f. Proven(p) /\ holder = p /\ Shaped(p) /\ Moves(p, "clean up")
  BY <1>0, <1>i, TimelyFacts
<1>1. Chain(p) /\ journal # <<>> /\ p \in remote
  BY <1>0, <1>f, ChainFacts DEF Shaped, Proven
<1>2. Chain(p)'
  BY <1>0, <1>1, ClearNested DEF Chain
<1> QED  BY <1>0, <1>i, <1>f, <1>1, <1>2, LookTimely

LEMMA CleanUpTimely ==
    ASSUME TypeOK, SafeInv, TimelyInv, ~late, TypeOK', SafeInv', NEW p \in Drafter, CleanUp(p)
    PROVE  TimelyInv'
<1>0. /\ pc[p] = "clean up" /\ Go(p, "validate") /\ marker' \in {marker, None}
      /\ returned' = [returned EXCEPT ![p] = "receipt"]
      /\ UNCHANGED <<holder, log, files, remote, base, pre, obs>>
  BY DEF CleanUp
<1>i. pc[p] \in InLock /\ "validate" \in DraftLabel
  BY <1>0, LockLabels DEF InLock
<1>f. /\ Proven(p) /\ holder = p /\ Shaped(p) /\ Branched(p) /\ Moves(p, "validate")
      /\ (Chain(p) => marker \in {None, p})
  BY <1>0, <1>i, TimelyFacts
<1>1. Single(p) /\ journal # <<>> /\ p \in remote /\ OnBranch(p) /\ marker \in {None, p}
  BY <1>0, <1>f, ChainFacts DEF Shaped, Proven, Chain, Branched, AfterCommit
<1>2. journal' = <<>> \/ Chain(p)'
  BY <1>f DEF SafeInv, Shaped, Chain, Moves
<1>3. returned'[p] # "nothing"
  BY <1>0 DEF TypeOK
<1> QED  BY <1>0, <1>i, <1>f, <1>1, <1>2, <1>3, LookTimely

LEMMA BeginTimely ==
    ASSUME TypeOK, SafeInv, TimelyInv, ~late, TypeOK', SafeInv', NEW p \in Drafter, Begin(p)
    PROVE  TimelyInv'
<1>0. /\ pc[p] = "begin" /\ Go(p, "write") /\ pre' = [pre EXCEPT ![p] = dirty]
      /\ UNCHANGED <<holder, log, dirty, remote, marker, base, obs>>
  BY DEF Begin, files
<1>i. pc[p] \in InLock /\ "write" \in DraftLabel
  BY <1>0, LockLabels DEF InLock
<1>f. /\ Proven(p) /\ Explained /\ holder = p /\ Shaped(p) /\ Branched(p) /\ Moves(p, "write")
      /\ (\A m \in Manual : ~OnBranch(m)) => Alone(p)
  BY <1>0, <1>i, TimelyFacts
<1>1. journal = <<>> /\ marker = None /\ ~OnBranch(p)
  BY <1>0, <1>f DEF Shaped, Proven, Branched, BeforeCommit
<1>2. \A tx \in dirty : pc[tx[1]] = "done"
  BY <1>1, <1>f, LooseBytes, ChainFacts DEF Explained
<1>b. Tip' = Tip /\ \A x : OnBranch(x)' <=> OnBranch(x)
  BY <1>0, BranchFrame
<1>3. pc'[p] = "write" /\ pre'[p] = dirty /\ \A q \in Drafter \ {p} : pre'[q] = pre[q]
  BY <1>0, <1>f DEF Moves, TypeOK
<1>4. Accepted(pre[p])'
  <2>1. dirty \in SUBSET Tx /\ Accepted(dirty) /\ p \in Proc /\ pc[p] # "done"
    BY <1>0, <1>2, ProcFacts DEF TypeOK, Accepted
  <2>2. PICK b \in SUBSET Tx : b = dirty /\ b = pre'[p]
    BY <1>3, <2>1
  <2>3. Accepted(b)'
    BY <1>f, <2>1, <2>2, DoneStays
  <2> QED  BY <2>2, <2>3 DEF Accepted
<1>5. Proven(p)'
  BY <1>1, <1>3, <1>4, <1>b DEF Proven, Owed
<1>6. Chain(p)'
  BY <1>3 DEF SafeInv, Shaped, Chain
<1>7. (\A m \in Manual : ~OnBranch(m)) =>
          Tip' = base[p] \/ (OnBranch(p)' /\ log'[Tip'] = p)
  BY <1>0, <1>f, <1>b DEF Alone
<1> QED  BY <1>0, <1>i, <1>f, <1>1, <1>2, <1>b, <1>3, <1>4, <1>5, <1>6, <1>7, TimelyStep

-----------------------------------------------------------------------------
(***************************************************************************)
(* ... and the steps of everybody else.                                    *)
(***************************************************************************)
\* Nobody else is at work under the lock.
Quiet ==
    /\ \A q \in Drafter : pc[q] \notin InLock
    /\ \A t \in Syncer : pc[t] \in Holding => Settled(t)'

LEMMA TimelyFrame ==
    ASSUME TypeOK, SafeInv, TimelyInv, ~late, TypeOK',
           UNCHANGED <<log, base, pre, returned>>,
           \A q \in Drafter :
               pc'[q] = pc[q] \/ (pc[q] # "done" /\ pc'[q] \in {"enter", "refused", "dead"}),
           \A t \in Syncer : (pc'[t] = pc[t] /\ obs'[t] = obs[t]) \/ Settled(t)',
           \A q \in Drafter :
               /\ holder' = q => holder = q
               /\ Chain(q)' => Chain(q)
               /\ Chain(q) => Chain(q)' \/ journal' = <<>>
               /\ Double(q) /\ OnBranch(q) => Double(q)' \/ q \in remote' \/ marker' = q,
           journal = <<>> => journal' = <<>>,
           remote \subseteq remote', marker # None => marker' = marker \/ marker \in remote',
           marker' = marker \/ (marker' = None /\ Quiet) \/ (marker' \in Drafter /\ Chain(marker')),
           UNCHANGED dirty \/ Quiet,
           \A tx \in dirty' : pc[tx[1]] = "done" \/ Chain(tx[1])'
    PROVE  TimelyInv'
<1>i. /\ Explained /\ Marked /\ (\A q \in Drafter : Proven(q)) /\ (\A s \in Syncer : Settled(s))
      /\ (\A m \in Manual : ~OnBranch(m)) => \A q \in Drafter : Alone(q)
  BY DEF TimelyInv
<1>b. Tip' = Tip /\ \A x : OnBranch(x)' <=> OnBranch(x)
  BY BranchFrame
<1>done. /\ \A q \in Drafter : pc[q] = "done" => pc'[q] = "done"
         /\ \A bytes \in SUBSET Tx : Accepted(bytes) => Accepted(bytes)'
  <2>1. \A q \in Drafter : pc[q] = "done" => pc'[q] = "done"
    OBVIOUS
  <2> QED  BY <2>1, TxFacts DEF Accepted
<1>1. Explained'
  <2> SUFFICES ASSUME NEW tx \in dirty' PROVE pc'[tx[1]] = "done" \/ Chain(tx[1])'
    BY DEF Explained
  <2>1. tx[1] \in Drafter
    BY TxFacts DEF TypeOK
  <2> QED  BY <1>done, <2>1
<1>2. Marked'
  <2> SUFFICES ASSUME marker' # None PROVE journal' = <<>> \/ Chain(marker)'
    BY DEF Marked
  <2>1. CASE marker' = marker
    <3>1. PICK c \in Drafter : c = marker
      BY <2>1 DEF TypeOK
    <3>2. journal = <<>> \/ Chain(c)
      BY <1>i, <2>1, <3>1 DEF Marked
    <3>3. journal' = <<>> \/ Chain(c)'
      BY <3>2
    <3> QED  BY <2>1, <3>1, <3>3
  <2>2. CASE marker' \in Drafter /\ Chain(marker')
    <3>1. PICK c \in Drafter : c = marker' /\ Chain(c)
      BY <2>2
    <3>2. journal' = <<>> \/ Chain(c)'
      BY <3>1
    <3> QED  BY <3>1, <3>2
  <2> QED  BY <2>1, <2>2
<1>m. ASSUME NEW q \in Drafter, pc[q] \in InLock, marker' # marker
      PROVE  marker' = q /\ Chain(q)
  <2>1. marker' \in Drafter /\ Chain(marker')
    BY <1>m DEF Quiet
  <2>2. PICK c \in Drafter : c = marker' /\ Chain(c)
    BY <2>1
  <2>3. journal # <<>>
    BY <2>2, ChainFacts
  <2>4. Chain(q)
    BY <1>m, <2>3, OwnJournal
  <2> QED  BY <2>2, <2>4, ChainFacts
<1>3. ASSUME NEW q \in Drafter PROVE Proven(q)'
  <2>0. Proven(q) /\ pre'[q] = pre[q]
    BY <1>i
  <2>1. Accepted(pre[q])'
    <3>1. pre[q] \in SUBSET Tx /\ Accepted(pre[q])
      BY <2>0 DEF TypeOK, Proven
    <3>2. PICK b \in SUBSET Tx : b = pre[q] /\ b = pre'[q]
      BY <2>0, <3>1
    <3>3. Accepted(b)'
      BY <1>done, <3>1, <3>2
    <3> QED  BY <3>2, <3>3 DEF Accepted
  <2>2. Owed(q)'
    <3>1. OnBranch(q) => q \in remote \/ marker = q \/ Double(q)
      BY <2>0 DEF Proven, Owed
    <3>2. OnBranch(q) => q \in remote' \/ marker' = q \/ Double(q)'
      BY <3>1, ProcFacts
    <3> QED  BY <1>b, <3>2 DEF Owed
  <2>3. CASE pc'[q] \in {"enter", "refused", "dead"}
    BY <2>1, <2>2, <2>3 DEF Proven
  <2>4. CASE pc'[q] = pc[q] /\ pc[q] \notin InLock
    BY <2>1, <2>2, <2>4 DEF Proven, InLock
  <2>5. CASE pc'[q] = pc[q] /\ pc[q] \in InLock
    <3>1. pc'[q] = "begin" => marker' = None
      <4>1. pc[q] = "begin" => marker = None /\ ~Chain(q)
        BY <2>0, ChainFacts DEF Proven, SafeInv, Shaped
      <4> QED  BY <1>m, <2>5, <4>1
    <3>2. pc'[q] = "restored" => Accepted(dirty)'
      <4> SUFFICES ASSUME pc[q] = "restored" PROVE Accepted(dirty)'
        BY <2>5
      <4>1. UNCHANGED dirty /\ Accepted(dirty)
        BY <2>0, <2>5 DEF Quiet, Proven
      <4>2. PICK b \in SUBSET Tx : b = dirty /\ b = dirty'
        BY <4>1 DEF TypeOK
      <4>3. Accepted(b)'
        BY <1>done, <4>1, <4>2
      <4> QED  BY <4>2, <4>3 DEF Accepted
    <3>3. pc'[q] = "retained" => marker' = q
      BY <1>m, <2>0, <2>5 DEF Proven
    <3>4. pc'[q] \in {"pushed", "clean up"} => q \in remote'
      BY <2>0, <2>5 DEF Proven
    <3>5. pc'[q] \in {"validate", "catch"} /\ OnBranch(q)' =>
              marker' = q \/ returned'[q] # "nothing"
      BY <1>b, <1>m, <2>0, <2>5 DEF Proven
    <3> QED  BY <2>1, <2>2, <3>1, <3>2, <3>3, <3>4, <3>5 DEF Proven
  <2> QED  BY <2>3, <2>4, <2>5
<1>4. ASSUME NEW t \in Syncer PROVE Settled(t)'
  <2>1. CASE Settled(t)'
    BY <2>1
  <2>2. CASE pc'[t] = pc[t] /\ obs'[t] = obs[t] /\ pc[t] \notin Holding
    <3>0. Settled(t) /\ Observed(t)
      BY <1>i DEF SafeInv
    <3>1. pc[t] = "drop" => obs[t].commit \in remote' \/ marker' = obs[t].commit
      BY <3>0 DEF Settled, Observed
    <3> QED  BY <2>2, <3>1 DEF Settled, Holding
  <2>3. CASE pc'[t] = pc[t] /\ obs'[t] = obs[t] /\ pc[t] \in Holding /\ ~Quiet
    <3>0. Settled(t) /\ UNCHANGED dirty
      BY <1>i, <2>3
    <3>1. pc'[t] = "undo" => Accepted(obs[t].preimage)'
      <4> SUFFICES ASSUME pc[t] = "undo" PROVE Accepted(obs[t].preimage)'
        BY <2>3
      <4>1. obs[t].preimage \in SUBSET Tx /\ Accepted(obs[t].preimage)
        BY <3>0 DEF SafeInv, Observed, Record, Settled
      <4>2. PICK b \in SUBSET Tx : b = obs[t].preimage /\ b = obs'[t].preimage
        BY <2>3, <4>1
      <4>3. Accepted(b)'
        BY <1>done, <4>1, <4>2
      <4> QED  BY <4>2, <4>3 DEF Accepted
    <3>2. pc'[t] = "undone" => Accepted(dirty)'
      <4> SUFFICES ASSUME pc[t] = "undone" PROVE Accepted(dirty)'
        BY <2>3
      <4>1. PICK b \in SUBSET Tx : b = dirty /\ b = dirty' /\ Accepted(b)
        BY <3>0 DEF TypeOK, Settled
      <4>2. Accepted(b)'
        BY <1>done, <4>1
      <4> QED  BY <4>1, <4>2 DEF Accepted
    <3>3. pc'[t] \in {"published", "cleared"} => \A q \in Drafter : Chain(q)' => q \in remote'
      BY <2>3, <3>0 DEF Settled
    <3>4. pc'[t] = "published" => marker' # None /\ marker' \in remote'
      <4>1. CASE marker' = marker
        BY <2>3, <3>0, <4>1 DEF Settled
      <4>2. CASE marker' \in Drafter /\ Chain(marker')
        <5>1. PICK c \in Drafter : c = marker' /\ Chain(c)
          BY <4>2
        <5> QED  BY <2>3, <3>0, <5>1, ProcFacts DEF Settled
      <4> QED  BY <2>3, <4>1, <4>2
    <3>5. pc'[t] # "drop"
      BY <2>3 DEF Holding
    <3> QED  BY <3>1, <3>2, <3>3, <3>4, <3>5 DEF Settled
  <2> QED  BY <2>1, <2>2, <2>3 DEF Quiet
<1>5. (\A m \in Manual : ~OnBranch(m)') => \A q \in Drafter : Alone(q)'
  <2> SUFFICES ASSUME \A m \in Manual : ~OnBranch(m)', NEW q \in Drafter PROVE Alone(q)'
    OBVIOUS
  <2>1. Alone(q)
    BY <1>i, <1>b
  <2>2. holder' = q \/ Chain(q)' => Tip' = base'[q] \/ (OnBranch(q)' /\ log'[Tip'] = q)
    BY <1>b, <2>1 DEF Alone
  <2>3. pc'[q] = "failed" /\ Chain(q)' /\ OnBranch(q)' => returned'[q] = "broken"
    BY <1>b, <2>1 DEF Alone
  <2> QED  BY <2>2, <2>3 DEF Alone
<1> QED  BY <1>1, <1>2, <1>3, <1>4, <1>5 DEF TimelyInv

\* Nothing but labels changes.
LEMMA OutsideTimely ==
    ASSUME TypeOK, SafeInv, TimelyInv, ~late, TypeOK',
           NEW p \in Drafter, NEW l \in {"enter", "refused", "dead"}, Moves(p, l),
           pc[p] \in {"load", "enter"},
           UNCHANGED <<holder, log, files, remote, marker, journal, base, pre, returned, obs>>
    PROVE  TimelyInv'
<1>moves. /\ pc'[p] = l /\ (\A q \in Drafter \ {p} : pc'[q] = pc[q])
          /\ \A s \in Syncer : pc'[s] = pc[s]
  BY ProcFacts DEF Moves
<1>1. \A q \in Drafter : (Chain(q)' <=> Chain(q)) /\ (Double(q)' <=> Double(q))
  BY BranchFrame, ChainFrame
<1>2. UNCHANGED dirty
  BY DEF files
<1>3. \A tx \in dirty' : pc[tx[1]] = "done" \/ Chain(tx[1])'
  BY <1>1, <1>2, LooseBytes DEF TimelyInv, Explained
<1> QED  BY <1>moves, <1>1, <1>2, <1>3, TimelyFrame

LEMMA LoadTimely ==
    ASSUME TypeOK, SafeInv, TimelyInv, ~late, TypeOK', NEW p \in Drafter, Load(p)
    PROVE  TimelyInv'
<1>1. Labels /\ "enter" \in DraftLabel
  BY TypeParts DEF DraftLabel
<1>2. Moves(p, "enter")
  BY <1>1, DraftGoes DEF Load
<1> QED  BY <1>2, OutsideTimely DEF Load, records

LEMMA CommandDiesTimely ==
    ASSUME TypeOK, SafeInv, TimelyInv, ~late, TypeOK', NEW p \in Drafter, Crash(p)
    PROVE  TimelyInv'
<1>0. /\ pc[p] \notin Ended /\ Go(p, "dead")
      /\ holder' = IF holder = p THEN None ELSE holder
      /\ UNCHANGED <<log, files, remote, marker, journal, base, pre, returned, obs>>
  BY DEF Crash, records
<1>1. Labels /\ "dead" \in DraftLabel /\ pc[p] \in DraftLabel
  BY TypeParts DEF DraftLabel, Ended, Labels
<1>2. Moves(p, "dead")
  BY <1>0, <1>1, DraftGoes
<1>3. CASE pc[p] \in InLock
  <2>1. Owed(p) /\ holder = p /\ (journal = <<>> \/ Chain(p))
    BY <1>3, TimelyFacts
  <2>2. (Chain(p)' <=> Chain(p)) /\ (Double(p)' <=> Double(p))
    BY <1>0, BranchFrame, ChainFrame
  <2> QED  BY <1>0, <1>1, <1>2, <1>3, <2>1, <2>2, LookTimely DEF Owed
<1>4. CASE pc[p] \notin InLock
  <2>1. pc[p] \in {"load", "enter"}
    BY <1>0, <1>1, <1>4 DEF DraftLabel, InLock
  <2>2. holder' = holder
    BY <1>0, <1>4 DEF SafeInv, Locked
  <2> QED  BY <1>0, <1>2, <2>1, <2>2, OutsideTimely
<1> QED  BY <1>3, <1>4

\* Whoever takes the lock finds neither a journal nor a marker.
LEMMA EnterTimely ==
    ASSUME TypeOK, SafeInv, TimelyInv, ~late, TypeOK', SafeInv', NEW p \in Drafter, Enter(p)
    PROVE  TimelyInv'
<1>0. /\ pc[p] = "enter" /\ holder = None
      /\ UNCHANGED <<log, files, remote, marker, journal, pre, returned, obs>>
  BY DEF Enter, records
<1>1. Labels /\ "begin" \in DraftLabel /\ "refused" \in DraftLabel
  BY TypeParts DEF DraftLabel, Ended
<1>2. CASE /\ ~Pending(p) /\ holder' = p
           /\ base' = [base EXCEPT ![p] = Tip] /\ Go(p, "begin")
  <2>i. /\ Explained /\ (\A q \in Drafter : Proven(q)) /\ (\A s \in Syncer : Settled(s))
    BY DEF TimelyInv
  <2>moves. /\ pc'[p] = "begin" /\ (\A q \in Drafter \ {p} : pc'[q] = pc[q])
            /\ \A s \in Syncer : pc'[s] = pc[s]
    BY <1>1, <1>2, DraftGoes, ProcFacts DEF Moves
  <2>b. Tip' = Tip /\ \A x : OnBranch(x)' <=> OnBranch(x)
    BY <1>0, BranchFrame
  <2>1. marker = None /\ marker' = None
    BY <1>0, <1>2 DEF Pending
  <2>2. journal' = <<>> /\ journal = <<>>
    BY <1>0, <2>moves DEF SafeInv, Shaped
  <2>3. \A q \in Drafter : ~Chain(q) /\ ~Chain(q)' /\ ~Double(q)
    BY <2>2, NoChainNext, ChainFacts DEF Chain
  <2>4. \A q \in Drafter : pc[q] = "done" => pc'[q] = "done"
    BY <1>0, <2>moves
  <2>5. \A bytes \in SUBSET Tx : Accepted(bytes) => Accepted(bytes)'
    BY <2>4, TxFacts DEF Accepted
  <2>6. Explained'
    <3> SUFFICES ASSUME NEW tx \in dirty PROVE pc'[tx[1]] = "done"
      BY <1>0 DEF Explained, files
    <3> QED  BY <2>i, <2>3, <2>4, LooseBytes DEF Explained
  <2>7. Marked'
    BY <2>1 DEF Marked
  <2>8. ASSUME NEW q \in Drafter PROVE Proven(q)'
    <3>0. Proven(q) /\ (OnBranch(q) => q \in remote) /\ q # None
      BY <2>i, <2>1, <2>3, ProcFacts DEF Proven, Owed
    <3>1. Accepted(pre[q])'
      <4>1. PICK b \in SUBSET Tx : b = pre[q] /\ b = pre'[q] /\ Accepted(b)
        BY <1>0, <3>0 DEF TypeOK, Proven
      <4>2. Accepted(b)'
        BY <2>5, <4>1
      <4> QED  BY <4>1, <4>2 DEF Accepted
    <3>2. Owed(q)'
      BY <1>0, <2>b, <3>0 DEF Owed
    <3>3. CASE q = p
      BY <2>moves, <2>1, <3>1, <3>2, <3>3 DEF Proven
    <3>4. CASE q # p
      <4>1. pc'[q] \notin InLock
        BY <1>0, <2>moves, <3>4, ProcFacts DEF SafeInv, Locked
      <4> QED  BY <3>1, <3>2, <4>1 DEF Proven, InLock
    <3> QED  BY <3>3, <3>4
  <2>9. ASSUME NEW s \in Syncer PROVE Settled(s)'
    <3>1. pc'[s] \notin Holding /\ pc'[s] = pc[s] /\ Settled(s)
      BY <1>0, <2>i, <2>moves, ProcFacts DEF SafeInv, Locked
    <3> QED  BY <1>0, <3>1 DEF Settled, Holding
  <2>10. ASSUME NEW q \in Drafter PROVE Alone(q)'
    <3>1. base'[p] = Tip
      BY <1>2 DEF TypeOK
    <3> QED  BY <1>2, <2>b, <2>3, <3>1 DEF Alone
  <2> QED  BY <2>6, <2>7, <2>8, <2>9, <2>10 DEF TimelyInv
<1>3. CASE Go(p, "refused") /\ UNCHANGED <<holder, base>>
  <2>1. Moves(p, "refused")
    BY <1>1, <1>3, DraftGoes
  <2> QED  BY <1>0, <1>3, <2>1, OutsideTimely
<1> QED  BY <1>2, <1>3 DEF Enter

\* The frame, for a synchronizer.
LEMMA SyncTimely ==
    ASSUME TypeOK, SafeInv, TimelyInv, ~late, TypeOK',
           NEW s \in Syncer, NEW l \in SyncLabel, Moves(s, l),
           UNCHANGED <<log, base, pre, returned>>, holder' \in {holder, s, None},
           \A t \in Syncer \ {s} : obs'[t] = obs[t],
           \A q \in Drafter :
               /\ Chain(q)' => Chain(q)
               /\ Chain(q) => Chain(q)' \/ journal' = <<>>
               /\ Double(q) /\ OnBranch(q) => Double(q)' \/ q \in remote' \/ marker' = q,
           journal = <<>> => journal' = <<>>,
           remote \subseteq remote', marker # None => marker' = marker \/ marker \in remote',
           \/ marker' = marker
           \/ marker' = None /\ pc[s] \in Holding
           \/ marker' \in Drafter /\ Chain(marker'),
           UNCHANGED dirty \/ pc[s] \in Holding,
           \A tx \in dirty' : pc[tx[1]] = "done" \/ Chain(tx[1])',
           Settled(s)'
    PROVE  TimelyInv'
<1>moves. /\ pc'[s] = l /\ (\A q \in Drafter : pc'[q] = pc[q])
          /\ \A t \in Syncer \ {s} : pc'[t] = pc[t]
  BY ProcFacts DEF Moves
<1>1. pc[s] \in Holding => Quiet
  <2> SUFFICES ASSUME pc[s] \in Holding PROVE Quiet
    OBVIOUS
  <2>1. holder = s
    BY DEF SafeInv, Locked
  <2>2. \A q \in Drafter : pc[q] \notin InLock
    BY <2>1, ProcFacts DEF SafeInv, Locked
  <2>3. \A t \in Syncer : t # s => pc[t] \notin Holding
    BY <2>1, ProcFacts DEF SafeInv, Locked
  <2> QED  BY <2>2, <2>3 DEF Quiet
<1>2. \A t \in Syncer : (pc'[t] = pc[t] /\ obs'[t] = obs[t]) \/ Settled(t)'
  BY <1>moves
<1>3. \A q \in Drafter : holder' = q => holder = q
  BY ProcFacts
<1> QED  BY <1>moves, <1>1, <1>2, <1>3, TimelyFrame

\* Bytes that were explained still are when no journal of a command goes.
LEMMA StillExplained ==
    ASSUME TypeOK, SafeInv, Explained, UNCHANGED dirty,
           \A q \in Drafter : Chain(q) => Chain(q)'
    PROVE  \A tx \in dirty' : pc[tx[1]] = "done" \/ Chain(tx[1])'
BY LooseBytes DEF Explained

\* What is left of the journal without its innermost record.
LEMMA PopOutcome ==
    ASSUME TypeOK, SafeInv, UNCHANGED <<base, pre>>, journal # <<>>, journal' = Tail(journal)
    PROVE  /\ \A q \in Drafter : /\ Chain(q)' => Chain(q)
                                 /\ Chain(q) => Chain(q)' \/ journal' = <<>>
                                 /\ Double(q) => Chain(q)'
           /\ \E c \in Drafter : Chain(c)
<1>1. PICK c \in Drafter : Chain(c)
  BY DEF SafeInv, Chained
<1>2. \/ Single(c) /\ journal' = <<>>
      \/ Double(c) /\ Single(c)'
  BY <1>1, ChainPops DEF Chain
<1>3. ASSUME NEW q \in Drafter, Chain(q)' PROVE Chain(q)
  <2>1. journal' # <<>>
    BY <1>3, NoChainNext
  <2>2. Chain(c)'
    BY <1>2, <2>1 DEF Chain
  <2> QED  BY <1>1, <1>3, <2>2, ChainUniqueNext
<1>4. ASSUME NEW q \in Drafter, Chain(q) PROVE Chain(q)' \/ journal' = <<>>
  <2>1. q = c
    BY <1>1, <1>4, ChainFacts
  <2> QED  BY <1>2, <2>1 DEF Chain
<1>5. ASSUME NEW q \in Drafter, Double(q) PROVE Chain(q)'
  BY <1>5, ChainPops DEF Chain
<1> QED  BY <1>1, <1>3, <1>4, <1>5

LEMMA SyncerFacts ==
    ASSUME TypeOK, SafeInv, TimelyInv, ~late, NEW s \in Syncer
    PROVE  /\ Explained /\ Marked /\ Settled(s) /\ Observed(s)
           /\ \A q \in Drafter : Proven(q) /\ Owed(q)
           /\ \A l \in SyncLabel : Go(s, l) => Moves(s, l) /\ pc'[s] = l
           /\ SyncLabel = {"idle", "promote", "drop", "recover", "undo", "undone", "sync",
                           "published", "cleared"}
<1>1. /\ Explained /\ Marked /\ Settled(s) /\ \A q \in Drafter : Proven(q) /\ Owed(q)
  BY DEF TimelyInv, Proven
<1>2. \A l \in SyncLabel : Go(s, l) => Moves(s, l) /\ pc'[s] = l
  BY TypeParts, SyncGoes DEF Moves
<1> QED  BY <1>1, <1>2 DEF SafeInv, SyncLabel

LEMMA ReadTimely ==
    ASSUME TypeOK, SafeInv, TimelyInv, ~late, TypeOK', NEW s \in Syncer, Read(s)
    PROVE  TimelyInv'
<1>0. UNCHANGED <<holder, log, dirty, remote, journal, marker, base, pre, returned>>
  BY DEF Read, records, files
<1>1. PICK l \in {"sync", "recover", "promote", "drop"} :
          Go(s, l) /\ (l = "drop" => Top.commit \in remote /\ obs' = [obs EXCEPT ![s] = Top])
  BY DEF Read
<1>2. \A t \in Syncer \ {s} : obs'[t] = obs[t]
  BY DEF Read, TypeOK
<1>f. Explained /\ l \in SyncLabel /\ Moves(s, l) /\ pc'[s] = l
  BY <1>1, SyncerFacts
<1>3. l = "drop" => obs'[s] = Top
  BY <1>1 DEF TypeOK
<1>4. Settled(s)'
  BY <1>0, <1>1, <1>f, <1>3 DEF Settled
<1>5. \A q \in Drafter : (Chain(q)' <=> Chain(q)) /\ (Double(q)' <=> Double(q))
  BY <1>0, BranchFrame, ChainFrame
<1>6. \A tx \in dirty' : pc[tx[1]] = "done" \/ Chain(tx[1])'
  BY <1>0, <1>f, <1>5, StillExplained
<1> QED  BY <1>0, <1>2, <1>f, <1>4, <1>5, <1>6, SyncTimely

\* A marker that is made in time is made of the journal that is there.
LEMMA PromoteTimely ==
    ASSUME TypeOK, SafeInv, TimelyInv, ~late, TypeOK', ~late', NEW s \in Syncer, Promote(s)
    PROVE  TimelyInv'
<1>0. /\ pc[s] = "promote" /\ marker' = obs[s].commit /\ Go(s, "drop")
      /\ UNCHANGED <<holder, log, dirty, remote, journal, base, pre, returned, obs>>
  BY DEF Promote, regs, files
<1>1. IsTop(obs[s].tx)
  BY DEF Promote
<1>f. Explained /\ Marked /\ Observed(s) /\ "drop" \in SyncLabel /\ Moves(s, "drop") /\ pc'[s] = "drop"
  BY <1>0, SyncerFacts
<1>2. /\ obs[s] \in Record /\ obs[s].tx = Nested(obs[s].commit) /\ obs[s].commit # None
  BY <1>0, <1>f DEF Observed
<1>3. PICK c \in Drafter : c = obs[s].commit
  BY <1>2 DEF Record
<1>4. Chain(c)
  <2>1. PICK d \in Drafter : /\ Chain(d) /\ (Single(d) => Top.tx = Draft(d))
                             /\ (Double(d) => Top.tx = Nested(d))
    BY <1>1, TopFacts DEF IsTop
  <2>2. Top.tx = Nested(c)
    BY <1>1, <1>2, <1>3 DEF IsTop
  <2>3. d = c
    BY <2>1, <2>2, TxFacts DEF Chain
  <2> QED  BY <2>1, <2>3
<1>5. marker' = c /\ marker \in {None, c}
  BY <1>0, <1>f, <1>3, <1>4, MarkerIsOwners
<1>6. \A q \in Drafter : (Chain(q)' <=> Chain(q)) /\ (Double(q)' <=> Double(q))
  BY <1>0, BranchFrame, ChainFrame
<1>7. Settled(s)'
  BY <1>0, <1>f DEF Settled
<1>8. \A tx \in dirty' : pc[tx[1]] = "done" \/ Chain(tx[1])'
  BY <1>0, <1>f, <1>6, StillExplained
<1>9. marker' \in Drafter /\ Chain(marker')
  BY <1>4, <1>5
<1> QED  BY <1>0, <1>f, <1>5, <1>6, <1>7, <1>8, <1>9, SyncTimely

LEMMA DropTimely ==
    ASSUME TypeOK, SafeInv, TimelyInv, ~late, TypeOK', NEW s \in Syncer, Drop(s)
    PROVE  TimelyInv'
<1>0. /\ pc[s] = "drop" /\ ClearJournal(obs[s].tx) /\ Go(s, "idle") /\ obs' = [obs EXCEPT ![s] = Nothing]
      /\ UNCHANGED <<holder, log, dirty, remote, marker, base, pre, returned>>
  BY DEF Drop, Idle, files
<1>f. /\ Explained /\ Settled(s) /\ Observed(s) /\ "idle" \in SyncLabel /\ Moves(s, "idle")
      /\ pc'[s] = "idle"
  BY <1>0, SyncerFacts
<1>1. \A t \in Syncer \ {s} : obs'[t] = obs[t]
  BY <1>0 DEF TypeOK
<1>2. Settled(s)'
  BY <1>f DEF Settled
<1>3. CASE ~IsTop(obs[s].tx)
  <2>1. UNCHANGED journal
    BY <1>0, <1>3 DEF ClearJournal
  <2>2. \A q \in Drafter : (Chain(q)' <=> Chain(q)) /\ (Double(q)' <=> Double(q))
    BY <1>0, <2>1, BranchFrame, ChainFrame
  <2>3. \A tx \in dirty' : pc[tx[1]] = "done" \/ Chain(tx[1])'
    BY <1>0, <1>f, <2>2, StillExplained
  <2> QED  BY <1>0, <1>f, <1>1, <1>2, <2>1, <2>2, <2>3, SyncTimely
<1>4. CASE IsTop(obs[s].tx)
  <2>0. journal # <<>> /\ journal' = Tail(journal) /\ Top.tx = obs[s].tx
    BY <1>0, <1>4 DEF ClearJournal, IsTop
  <2>1. PICK c \in Drafter : /\ Chain(c) /\ (Single(c) => Top.tx = Draft(c))
                             /\ (Double(c) => Top.tx = Nested(c))
    BY <2>0, TopFacts
  <2>2. /\ obs[s].tx = Nested(obs[s].commit)
        /\ obs[s].commit \in remote \/ marker = obs[s].commit
    BY <1>0, <1>f DEF Observed, Settled
  <2>3. Double(c) /\ c = obs[s].commit
    BY <2>0, <2>1, <2>2, TxFacts DEF Chain
  <2>4. \A q \in Drafter : /\ Chain(q)' => Chain(q)
                           /\ Chain(q) => Chain(q)' \/ journal' = <<>>
    BY <1>0, <2>0, PopOutcome
  <2>5. \A q \in Drafter : Chain(q) => q = c /\ Chain(q)'
    BY <1>0, <2>0, <2>1, <2>3, PopOutcome, ChainFacts
  <2>6. \A q \in Drafter : Double(q) => q \in remote \/ marker = q
    BY <2>2, <2>3, <2>5 DEF Chain
  <2>7. \A tx \in dirty' : pc[tx[1]] = "done" \/ Chain(tx[1])'
    BY <1>0, <1>f, <2>5, StillExplained
  <2> QED  BY <1>0, <1>f, <1>1, <1>2, <2>0, <2>4, <2>6, <2>7, SyncTimely
<1> QED  BY <1>3, <1>4

LEMMA RecoverTimely ==
    ASSUME TypeOK, SafeInv, TimelyInv, ~late, TypeOK', NEW s \in Syncer, Recover(s)
    PROVE  TimelyInv'
<1>0. /\ holder = None
      /\ UNCHANGED <<log, dirty, remote, marker, journal, base, pre, returned>>
  BY DEF Recover, records, files
<1>1. PICK l \in {"undo", "idle"} :
          /\ Go(s, l) /\ holder' \in {holder, s}
          /\ l = "undo" => journal # <<>> /\ obs' = [obs EXCEPT ![s] = Top]
  BY DEF Recover, IsTop, Idle
<1>2. \A t \in Syncer \ {s} : obs'[t] = obs[t]
  BY DEF Recover, Idle, TypeOK
<1>f. /\ Explained /\ (\A q \in Drafter : Proven(q)) /\ l \in SyncLabel /\ Moves(s, l) /\ pc'[s] = l
  BY <1>1, SyncerFacts
<1>3. \A q \in Drafter : (Chain(q)' <=> Chain(q)) /\ (Double(q)' <=> Double(q))
  BY <1>0, BranchFrame, ChainFrame
<1>4. \A tx \in dirty' : pc[tx[1]] = "done" \/ Chain(tx[1])'
  BY <1>0, <1>f, <1>3, StillExplained
<1>5. Settled(s)'
  <2>1. CASE l = "undo"
    <3>1. obs'[s] = Top
      BY <1>1, <2>1 DEF TypeOK
    <3>2. PICK c \in Drafter : Top.preimage = pre[c]
      BY <1>1, <2>1, TopFacts
    <3>3. Accepted(pre[c])
      BY <1>f DEF Proven
    <3>4. \A q \in Drafter : pc'[q] = pc[q]
      BY <1>f, ProcFacts DEF Moves
    <3>5. pre[c] \in SUBSET Tx
      BY DEF TypeOK
    <3>6. \A tx \in pre[c] : pc'[tx[1]] = "done"
      BY <3>3, <3>4, <3>5, TxFacts DEF Accepted
    <3>7. Accepted(obs[s].preimage)'
      BY <3>1, <3>2, <3>6 DEF Accepted
    <3> QED  BY <1>f, <2>1, <3>7 DEF Settled
  <2>2. CASE l = "idle"
    BY <1>f, <2>2 DEF Settled
  <2> QED  BY <2>1, <2>2
<1>6. holder' \in {holder, s, None}
  BY <1>1
<1> QED  BY <1>0, <1>2, <1>f, <1>3, <1>4, <1>5, <1>6, SyncTimely

LEMMA UndoTimely ==
    ASSUME TypeOK, SafeInv, TimelyInv, ~late, TypeOK', NEW s \in Syncer, Undo(s)
    PROVE  TimelyInv'
<1>0. /\ pc[s] = "undo" /\ UNCHANGED <<log, remote, marker, base, pre, returned>>
  BY DEF Undo
<1>1. PICK l \in {"undone", "idle"} :
          /\ Go(s, l) /\ holder' \in {holder, None}
          /\ l = "undone" => RestoreTo(obs[s].preimage)
          /\ l = "idle" => UNCHANGED dirty
  BY DEF Undo, Idle
<1>2. \A t \in Syncer \ {s} : obs'[t] = obs[t]
  BY DEF Undo, Idle, TypeOK
<1>f. /\ Explained /\ Settled(s) /\ Observed(s) /\ l \in SyncLabel /\ Moves(s, l) /\ pc'[s] = l
  BY <1>1, SyncerFacts
<1>3. \E st \in Stage : SetStage(obs[s].tx, st)
  BY DEF Undo, Stage, Recoverable
<1>4. /\ \A q \in Drafter : (Chain(q)' <=> Chain(q)) /\ (Double(q)' <=> Double(q))
      /\ journal = <<>> => journal' = <<>>
  <2>0. PICK tx : tx = obs[s].tx
    OBVIOUS
  <2>1. PICK st \in Stage : SetStage(tx, st)
    BY <1>3, <2>0
  <2>2. ASSUME NEW q \in Drafter
        PROVE  (Chain(q)' <=> Chain(q)) /\ (Double(q)' <=> Double(q))
    BY <1>0, <2>1, StageStays
  <2>3. journal = <<>> => journal' = <<>>
    BY <1>3 DEF SetStage, IsTop
  <2> QED  BY <2>2, <2>3
<1>5. pc[s] \in Holding
  BY <1>0 DEF Holding
<1>6. CASE l = "undone"
  <2>1. obs[s].preimage \in SUBSET Tx /\ \A tx \in obs[s].preimage : pc[tx[1]] = "done"
    BY <1>0, <1>f DEF Observed, Record, Settled, Accepted
  <2>2. \A tx \in dirty' : tx \in Tx /\ pc[tx[1]] = "done"
    BY <1>1, <1>6, <2>1 DEF RestoreTo
  <2>3. \A q \in Drafter : pc'[q] = pc[q]
    BY <1>f, ProcFacts DEF Moves
  <2>4. Accepted(dirty)'
    BY <2>2, <2>3, TxFacts DEF Accepted
  <2>5. Settled(s)'
    BY <1>6, <1>f, <2>4 DEF Settled
  <2>6. holder' \in {holder, s, None}
    BY <1>1
  <2> QED  BY <1>0, <1>2, <1>f, <1>4, <1>5, <2>2, <2>5, <2>6, SyncTimely
<1>7. CASE l = "idle"
  <2>1. \A tx \in dirty' : pc[tx[1]] = "done" \/ Chain(tx[1])'
    BY <1>1, <1>7, <1>f, <1>4, StillExplained
  <2>2. Settled(s)'
    BY <1>7, <1>f DEF Settled
  <2>3. holder' \in {holder, s, None}
    BY <1>1
  <2> QED  BY <1>0, <1>2, <1>f, <1>4, <1>5, <2>1, <2>2, <2>3, SyncTimely
<1> QED  BY <1>6, <1>7

\* The record that a recovery clears is of a command without a commit, and the
\* bytes that are left are accepted; the record that a sync clears is of a
\* command whose commit is published.
LEMMA ClearingTimely ==
    ASSUME TypeOK, SafeInv, TimelyInv, ~late, TypeOK', NEW s \in Syncer, Undone(s) \/ Cleared(s)
    PROVE  TimelyInv'
<1>0. /\ pc[s] \in {"undone", "cleared"} /\ Go(s, "idle") /\ obs' = [obs EXCEPT ![s] = Nothing]
      /\ holder' = None /\ UNCHANGED <<log, dirty, remote, marker, base, pre, returned>>
  BY DEF Undone, Cleared, Idle, files
<1>f. /\ Explained /\ Settled(s) /\ Observed(s) /\ "idle" \in SyncLabel /\ Moves(s, "idle")
      /\ pc'[s] = "idle"
  BY <1>0, SyncerFacts
<1>1. \A t \in Syncer \ {s} : obs'[t] = obs[t]
  BY <1>0 DEF TypeOK
<1>2. Settled(s)'
  BY <1>f DEF Settled
<1>3. CASE UNCHANGED journal
  <2>1. \A q \in Drafter : (Chain(q)' <=> Chain(q)) /\ (Double(q)' <=> Double(q))
    BY <1>0, <1>3, BranchFrame, ChainFrame
  <2>2. \A tx \in dirty' : pc[tx[1]] = "done" \/ Chain(tx[1])'
    BY <1>0, <1>f, <2>1, StillExplained
  <2> QED  BY <1>0, <1>f, <1>1, <1>2, <1>3, <2>1, <2>2, SyncTimely
<1>4. CASE /\ journal # <<>> /\ journal' = Tail(journal)
           /\ pc[s] = "undone" => Top.tx = obs[s].tx
  <2>1. \A q \in Drafter : /\ Chain(q)' => Chain(q)
                           /\ Chain(q) => Chain(q)' \/ journal' = <<>>
    BY <1>0, <1>4, PopOutcome
  <2>2. ASSUME NEW q \in Drafter, Double(q), OnBranch(q) PROVE q \in remote
    <3>1. CASE pc[s] = "undone"
      <4>1. ~OnBranch(obs[s].tx[1])
        BY <1>f, <3>1 DEF Observed
      <4>2. Top.tx = Nested(q)
        BY <2>2, ChainFacts
      <4>3. obs[s].tx[1] = q
        BY <1>4, <3>1, <4>2, TxFacts
      <4> QED  BY <2>2, <4>1, <4>3
    <3>2. CASE pc[s] = "cleared"
      BY <1>f, <2>2, <3>2 DEF Settled, Chain
    <3> QED  BY <1>0, <3>1, <3>2
  <2>3. ASSUME NEW tx \in dirty' PROVE pc[tx[1]] = "done" \/ Chain(tx[1])'
    <3>0. tx \in dirty /\ tx[1] \in Drafter /\ ~OnBranch(tx[1])
      BY <1>0, LooseBytes
    <3>1. CASE pc[s] = "undone"
      BY <1>f, <3>0, <3>1 DEF Settled, Accepted
    <3>2. CASE pc[s] = "cleared"
      <4>1. PICK q \in Drafter : q = tx[1]
        BY <3>0
      <4>2. Chain(q) => q \in remote
        BY <1>f, <3>2 DEF Settled
      <4>3. q \in remote => OnBranch(q)
        BY DEF SafeInv, Branched
      <4>4. ~Chain(tx[1])
        BY <3>0, <4>1, <4>2, <4>3
      <4> QED  BY <1>f, <3>0, <4>4 DEF Explained
    <3> QED  BY <1>0, <3>1, <3>2
  <2> QED  BY <1>0, <1>f, <1>1, <1>2, <1>4, <2>1, <2>2, <2>3, SyncTimely
<1> QED  BY <1>3, <1>4 DEF Undone, Cleared, ClearJournal, ClearAnyJournal, IsTop

LEMMA PublishTimely ==
    ASSUME TypeOK, SafeInv, TimelyInv, ~late, TypeOK', NEW s \in Syncer, Sync(s)
    PROVE  TimelyInv'
<1>0. /\ holder = None
      /\ UNCHANGED <<log, dirty, marker, journal, base, pre, returned>>
  BY DEF Sync, records, files
<1>1. PICK l \in {"published", "idle"} :
          /\ Go(s, l) /\ holder' \in {holder, s}
          /\ l = "published" => marker # None /\ remote' = remote \cup {marker}
          /\ l = "idle" => UNCHANGED remote
  BY DEF Sync, Idle
<1>2. \A t \in Syncer \ {s} : obs'[t] = obs[t]
  BY DEF Sync, Idle, TypeOK
<1>f. /\ Explained /\ Marked /\ l \in SyncLabel /\ Moves(s, l) /\ pc'[s] = l
  BY <1>1, SyncerFacts
<1>3. \A q \in Drafter : (Chain(q)' <=> Chain(q)) /\ (Double(q)' <=> Double(q))
  BY <1>0, BranchFrame, ChainFrame
<1>4. \A tx \in dirty' : pc[tx[1]] = "done" \/ Chain(tx[1])'
  BY <1>0, <1>f, <1>3, StillExplained
<1>5. Settled(s)'
  <2>1. CASE l = "published"
    <3>1. \A q \in Drafter : Chain(q) => q = marker
      BY <1>1, <1>f, <2>1, MarkerIsOwners
    <3>2. \A q \in Drafter : Chain(q)' => q \in remote'
      BY <1>1, <1>3, <2>1, <3>1
    <3> QED  BY <1>0, <1>1, <1>f, <2>1, <3>2 DEF Settled
  <2>2. CASE l = "idle"
    BY <1>f, <2>2 DEF Settled
  <2> QED  BY <2>1, <2>2
<1>6. holder' \in {holder, s, None} /\ remote \subseteq remote'
  BY <1>1
<1> QED  BY <1>0, <1>2, <1>f, <1>3, <1>4, <1>5, <1>6, SyncTimely

LEMMA PublishedTimely ==
    ASSUME TypeOK, SafeInv, TimelyInv, ~late, TypeOK', NEW s \in Syncer, Published(s)
    PROVE  TimelyInv'
<1>0. /\ pc[s] = "published" /\ marker' = None /\ Go(s, "cleared")
      /\ UNCHANGED <<holder, log, dirty, remote, journal, base, pre, returned, obs>>
  BY DEF Published, regs, files
<1>f. /\ Explained /\ Settled(s) /\ (\A q \in Drafter : Owed(q)) /\ "cleared" \in SyncLabel
      /\ Moves(s, "cleared") /\ pc'[s] = "cleared"
  BY <1>0, SyncerFacts
<1>1. marker \in remote /\ \A q \in Drafter : Chain(q) => q \in remote
  BY <1>0, <1>f DEF Settled
<1>2. \A q \in Drafter : (Chain(q)' <=> Chain(q)) /\ (Double(q)' <=> Double(q))
  BY <1>0, BranchFrame, ChainFrame
<1>3. \A tx \in dirty' : pc[tx[1]] = "done" \/ Chain(tx[1])'
  BY <1>0, <1>f, <1>2, StillExplained
<1>4. Settled(s)'
  BY <1>0, <1>f, <1>1, <1>2 DEF Settled
<1>5. pc[s] \in Holding
  BY <1>0 DEF Holding
<1> QED  BY <1>0, <1>f, <1>1, <1>2, <1>3, <1>4, <1>5, SyncTimely

LEMMA SyncerDiesTimely ==
    ASSUME TypeOK, SafeInv, TimelyInv, ~late, TypeOK', NEW s \in Syncer, Crash(s)
    PROVE  TimelyInv'
<1>0. /\ Go(s, "idle") /\ obs' = [obs EXCEPT ![s] = Nothing] /\ holder' \in {holder, None}
      /\ UNCHANGED <<log, dirty, remote, marker, journal, base, pre, returned>>
  BY ProcFacts DEF Crash, Idle, records, files
<1>f. /\ Explained /\ "idle" \in SyncLabel /\ Moves(s, "idle") /\ pc'[s] = "idle"
  BY <1>0, SyncerFacts
<1>1. \A t \in Syncer \ {s} : obs'[t] = obs[t]
  BY <1>0 DEF TypeOK
<1>2. Settled(s)'
  BY <1>f DEF Settled
<1>3. \A q \in Drafter : (Chain(q)' <=> Chain(q)) /\ (Double(q)' <=> Double(q))
  BY <1>0, BranchFrame, ChainFrame
<1>4. \A tx \in dirty' : pc[tx[1]] = "done" \/ Chain(tx[1])'
  BY <1>0, <1>f, <1>3, StillExplained
<1>5. holder' \in {holder, s, None}
  BY <1>0
<1> QED  BY <1>0, <1>f, <1>1, <1>2, <1>3, <1>4, <1>5, SyncTimely

\* A commit by hand takes bytes from the tree, never from the commits.
LEMMA ByHandTimely ==
    ASSUME TypeOK, SafeInv, TimelyInv, ~late, TypeOK', NEW m \in Manual, CommitByHand(m)
    PROVE  TimelyInv'
<1>0. /\ log' = Append(log, m)
      /\ UNCHANGED <<holder, remote, marker, journal, pc, base, pre, returned, obs>>
  BY DEF CommitByHand, records, regs
<1>a. m \in Author /\ m \notin Drafter
  BY ProcFacts DEF Author
<1>b. \A x : OnBranch(x)' <=> OnBranch(x) \/ x = m
  BY <1>0, <1>a, BranchGrows
<1>f. dirty' \subseteq dirty
  BY DEF CommitByHand, files
<1>i. /\ Explained /\ Marked /\ (\A q \in Drafter : Proven(q)) /\ (\A s \in Syncer : Settled(s))
  BY DEF TimelyInv
<1>1. ASSUME NEW q \in Drafter
      PROVE  /\ OnBranch(q)' <=> OnBranch(q)
             /\ Chain(q)' <=> Chain(q)
             /\ Double(q)' <=> Double(q)
  BY <1>0, <1>a, <1>b, ChainFrame
<1>2. Explained'
  BY <1>0, <1>f, <1>1, <1>i, LooseBytes DEF Explained
<1>3. Marked'
  <2> SUFFICES ASSUME marker # None, journal # <<>> PROVE Chain(marker)'
    BY <1>0 DEF Marked
  <2>1. PICK c \in Drafter : c = marker /\ Chain(c)
    BY <1>i DEF Marked, TypeOK
  <2>2. Chain(c)'
    BY <1>1, <2>1
  <2> QED  BY <1>0, <2>1, <2>2
<1>4. \A bytes : Accepted(bytes)' <=> Accepted(bytes)
  BY <1>0 DEF Accepted
<1>d. Accepted(dirty) => Accepted(dirty)'
  BY <1>0, <1>f DEF Accepted
<1>5. ASSUME NEW q \in Drafter PROVE Proven(q)'
  <2>1. Proven(q) /\ pc'[q] = pc[q]
    BY <1>0, <1>i
  <2>2. Owed(q)'
    BY <1>0, <1>1, <2>1 DEF Proven, Owed
  <2>3. Accepted(pre[q])'
    BY <1>0, <2>1 DEF Proven, Accepted
  <2> QED  BY <1>0, <1>1, <1>d, <2>1, <2>2, <2>3 DEF Proven
<1>6. ASSUME NEW s \in Syncer PROVE Settled(s)'
  <2>1. Settled(s) /\ pc'[s] = pc[s] /\ obs'[s] = obs[s]
    BY <1>0, <1>i
  <2>2. pc[s] = "undo" => Accepted(obs[s].preimage)'
    BY <1>0, <2>1 DEF Settled, Accepted
  <2> QED  BY <1>0, <1>1, <1>d, <2>1, <2>2 DEF Settled
<1>7. ~(\A n \in Manual : ~OnBranch(n)')
  BY <1>b
<1> QED  BY <1>2, <1>3, <1>5, <1>6, <1>7 DEF TimelyInv

-----------------------------------------------------------------------------
(***************************************************************************)
(* The stages that no recovery takes.                                      *)
(***************************************************************************)

\* A record after a step has a stage that can be recovered, or was there before.
Inherits ==
    \A i \in DOMAIN journal' :
        \/ journal'[i].stage \in Recoverable
        \/ \E j \in DOMAIN journal : journal'[i] = journal[j]

LEMMA SameInherits ==
    ASSUME UNCHANGED journal
    PROVE  Inherits
BY DEF Inherits

LEMMA PopInherits ==
    ASSUME TypeOK, NEW tx, ClearJournal(tx) \/ ClearAnyJournal
    PROVE  Inherits
<1>1. CASE UNCHANGED journal
  BY <1>1, SameInherits
<1>2. CASE journal # <<>> /\ journal' = Tail(journal)
  <2>1. journal \in Seq(Record)
    BY DEF TypeOK
  <2>2. /\ journal' \in Seq(Record) /\ Len(journal') = Len(journal) - 1
        /\ \A i \in 1..Len(journal') : journal'[i] = journal[i + 1]
    BY <1>2, <2>1, PopEffect
  <2> SUFFICES ASSUME NEW i \in DOMAIN journal'
               PROVE  \E j \in DOMAIN journal : journal'[i] = journal[j]
    BY DEF Inherits
  <2>3. i + 1 \in DOMAIN journal /\ journal'[i] = journal[i + 1]
    BY <2>1, <2>2
  <2> QED  BY <2>3
<1> QED  BY <1>1, <1>2 DEF ClearJournal, ClearAnyJournal, IsTop

LEMMA SetInherits ==
    ASSUME TypeOK, NEW tx, NEW st \in Recoverable, SetStage(tx, st)
    PROVE  Inherits
<1>1. CASE IsTop(tx)
  <2>1. journal \in Seq(Record) /\ journal # <<>>
    BY <1>1 DEF TypeOK, IsTop
  <2>2. journal' = [journal EXCEPT ![1].stage = st]
    BY <1>1 DEF SetStage
  <2>3. 1 \in DOMAIN journal /\ journal[1] \in Record /\ DOMAIN journal' = DOMAIN journal
    BY <2>1, <2>2
  <2>4. journal'[1].stage = st
    BY <2>2, <2>3 DEF Record
  <2>5. \A i \in DOMAIN journal : i # 1 => journal'[i] = journal[i]
    BY <2>2
  <2> QED  BY <2>3, <2>4, <2>5 DEF Inherits
<1>2. CASE ~IsTop(tx)
  BY <1>2, SameInherits DEF SetStage
<1> QED  BY <1>1, <1>2

LEMMA BeginInherits ==
    ASSUME TypeOK, NEW tx, NEW head, NEW preimage, BeginJournal(tx, head, preimage)
    PROVE  Inherits
<1> DEFINE r == Fresh(tx, head, preimage)
<1>1. r.stage \in Recoverable
  BY DEF Fresh, Recoverable
<1>2. journal' = <<r>> \o journal /\ journal \in Seq(Record)
  BY DEF BeginJournal, TypeOK
<1> HIDE DEF r
<1>3. /\ DOMAIN journal' = 1..(Len(journal) + 1) /\ journal'[1] = r /\ Len(journal) \in Nat
      /\ DOMAIN journal = 1..Len(journal)
      /\ \A i \in 2..(Len(journal) + 1) : journal'[i] = journal[i - 1]
  BY <1>2
<1> SUFFICES ASSUME NEW i \in DOMAIN journal', i # 1
             PROVE  \E j \in DOMAIN journal : journal'[i] = journal[j]
  BY <1>1, <1>3 DEF Inherits
<1>4. i \in 2..(Len(journal) + 1) /\ i - 1 \in DOMAIN journal
  BY <1>3
<1> QED  BY <1>3, <1>4

\* What is left to show of a step of one process, or of a hand.
LEMMA StageStep ==
    ASSUME TypeOK, StageInv, NEW p, Tip' \in Nat, Tip' >= Tip,
           \A q \in Drafter \ {p} : /\ pc'[q] = pc[q] /\ base'[q] = base[q]
                                    /\ returned'[q] = returned[q],
           p \in Drafter => base'[p] <= Tip' /\ Broken(p)',
           \A i \in DOMAIN journal' :
               \/ Staged(journal[i])'
               \/ \E j \in DOMAIN journal :
                      /\ journal'[i] = journal[j]
                      /\ journal[j].stage = "candidate-verified" /\ Owner(journal[j]) = p =>
                            (Between(p) => Between(p)')
    PROVE  StageInv'
<1>0. Tip \in Nat /\ journal \in Seq(Record) /\ base \in [Drafter -> Nat]
  BY NoneOffBranch DEF TypeOK
<1>1. ASSUME NEW q \in Drafter PROVE base'[q] <= Tip' /\ Broken(q)'
  <2>1. base[q] <= Tip /\ Broken(q) /\ base[q] \in Nat
    BY <1>0 DEF StageInv
  <2>2. CASE q # p
    BY <1>0, <2>1, <2>2 DEF Broken
  <2> QED  BY <2>2
<1>2. ASSUME NEW i \in DOMAIN journal', NEW j \in DOMAIN journal, journal'[i] = journal[j],
             journal[j].stage = "candidate-verified" /\ Owner(journal[j]) = p =>
                 (Between(p) => Between(p)')
      PROVE  Staged(journal[i])'
  <2>1. PICK r \in Record : r = journal[j]
    BY <1>0
  <2>2. Staged(r)
    BY <2>1 DEF StageInv
  <2>3. r.head \in Nat /\ Owner(r) \in Drafter
    BY TxFacts DEF Record, Owner
  <2>4. r.stage = "draft-head-diverged" => Tip' > r.head
    BY <1>0, <2>2, <2>3 DEF Staged
  <2>5. ASSUME r.stage = "candidate-verified"
        PROVE  r.tx = Nested(Owner(r)) /\ Between(Owner(r))'
    <3>1. r.tx = Nested(Owner(r)) /\ Between(Owner(r))
      BY <2>2, <2>5 DEF Staged
    <3>2. CASE Owner(r) = p
      BY <1>2, <2>1, <2>5, <3>1, <3>2
    <3>3. CASE Owner(r) # p
      <4>1. PICK q \in Drafter \ {p} : q = Owner(r)
        BY <2>3, <3>3
      <4>2. Between(q) => Between(q)'
        BY DEF Between, Abandoned
      <4> QED  BY <3>1, <4>1, <4>2
    <3> QED  BY <3>1, <3>2, <3>3
  <2>6. Staged(r)'
    BY <2>4, <2>5 DEF Staged, Owner, Nested
  <2> QED  BY <1>2, <2>1, <2>6
<1> QED  BY <1>1, <1>2 DEF StageInv

\* Where a stage that can be recovered is all that is new.
LEMMA InheritStep ==
    ASSUME TypeOK, StageInv, NEW p, Tip' \in Nat, Tip' >= Tip, Inherits,
           \A q \in Drafter \ {p} : /\ pc'[q] = pc[q] /\ base'[q] = base[q]
                                    /\ returned'[q] = returned[q],
           p \in Drafter => /\ base'[p] <= Tip' /\ Broken(p)'
                            /\ Between(p) => Between(p)'
    PROVE  StageInv'
<1>1. ASSUME NEW i \in DOMAIN journal', journal'[i].stage \in Recoverable
      PROVE  Staged(journal[i])'
  BY <1>1 DEF Staged, Recoverable
<1>2. ASSUME NEW i \in DOMAIN journal', NEW j \in DOMAIN journal, journal'[i] = journal[j]
      PROVE  \E k \in DOMAIN journal :
                 /\ journal'[i] = journal[k]
                 /\ journal[k].stage = "candidate-verified" /\ Owner(journal[k]) = p =>
                       (Between(p) => Between(p)')
  <2>1. Owner(journal[j]) \in Drafter
    <3>1. journal[j] \in Record
      BY DEF TypeOK
    <3> QED  BY <3>1, TxFacts DEF Record, Owner
  <2> QED  BY <1>2, <2>1
<1> QED  BY <1>1, <1>2, StageStep DEF Inherits

\* A step of a command that leaves the branch and the bases alone, or takes a base.
LEMMA CommandStages ==
    ASSUME TypeOK, SafeInv, StageInv, NEW p \in Drafter, NEW l \in DraftLabel, Go(p, l),
           Tip' \in Nat, Tip' >= Tip, Inherits,
           UNCHANGED base \/ base' = [base EXCEPT ![p] = Tip],
           UNCHANGED returned \/ \E x : returned' = [returned EXCEPT ![p] = x],
           returned'[p] = "broken" => l \in {"catch", "restore", "restored", "failed", "dead"},
           Between(p) => l \in {"commit", "unwind", "dead"} \/ returned'[p] = "broken"
    PROVE  StageInv'
<1>1. /\ Tip \in Nat /\ base \in [Drafter -> Nat] /\ Labels
      /\ returned \in [Drafter -> {"nothing", "receipt", "broken"}]
  BY NoneOffBranch, TypeParts DEF TypeOK
<1>2. Moves(p, l)
  BY <1>1, DraftGoes
<1>3. \A q \in Drafter \ {p} : /\ pc'[q] = pc[q] /\ base'[q] = base[q]
                               /\ returned'[q] = returned[q]
  BY <1>1, <1>2, ProcFacts DEF Moves
<1>4. base'[p] <= Tip'
  <2>1. base[p] <= Tip /\ base[p] \in Nat
    BY <1>1 DEF StageInv
  <2> QED  BY <1>1, <2>1
<1>5. Broken(p)' /\ (Between(p) => Between(p)')
  BY <1>2 DEF Broken, Between, Abandoned, Moves
<1> QED  BY <1>3, <1>4, <1>5, InheritStep

\* The steps that leave the journal and the branch alone.
LEMMA QuietStages ==
    ASSUME TypeOK, SafeInv, StageInv, NEW p \in Drafter,
           \/ Load(p) \/ Enter(p) \/ Write(p) \/ Invalid(p) \/ NestedWrite(p)
           \/ Push(p) \/ Retain(p) \/ PublishFails(p)
    PROVE  StageInv'
<1>1. /\ UNCHANGED <<journal, log>>
      /\ UNCHANGED base \/ base' = [base EXCEPT ![p] = Tip]
  BY DEF Load, Enter, Write, Invalid, NestedWrite, Push, Retain, PublishFails, records, regs
<1>2. Tip' = Tip /\ Tip \in Nat /\ Inherits
  BY <1>1, BranchFrame, NoneOffBranch, SameInherits
<1>3. Broken(p) /\ returned \in [Drafter -> {"nothing", "receipt", "broken"}]
  BY DEF StageInv, TypeOK
<1>4. /\ pc[p] \in {"load", "enter", "write", "validate", "nested write", "push", "retain",
                    "retained", "pushed", "clean up"}
      /\ ~Between(p) /\ returned[p] # "broken"
  BY <1>3 DEF Load, Enter, Write, Invalid, NestedWrite, Push, Retain, PublishFails, Between,
              Abandoned, Broken
<1>5. \E l \in DraftLabel :
          /\ Go(p, l)
          /\ UNCHANGED returned \/ (l = "catch" /\ returned' = [returned EXCEPT ![p] = "broken"])
  BY DEF Load, Enter, Write, Invalid, NestedWrite, Push, Retain, PublishFails, Break, Go, regs,
         DraftLabel, Ended
<1>6. PICK l \in DraftLabel :
          /\ Go(p, l)
          /\ UNCHANGED returned \/ (l = "catch" /\ returned' = [returned EXCEPT ![p] = "broken"])
  BY <1>5
<1>7. returned'[p] = "broken" => l \in {"catch", "restore", "restored", "failed", "dead"}
  BY <1>4, <1>6
<1>8. UNCHANGED returned \/ \E x : returned' = [returned EXCEPT ![p] = x]
  BY <1>6
<1>9. UNCHANGED base \/ base' = [base EXCEPT ![p] = Tip]
  BY <1>1
<1>10. Go(p, l)
  BY <1>6
<1>11. ~Between(p)
  BY <1>4
<1> QED  BY <1>2, <1>7, <1>8, <1>9, <1>10, <1>11, CommandStages

\* The steps that begin or clear a record.
LEMMA RecordStages ==
    ASSUME TypeOK, SafeInv, StageInv, NEW p \in Drafter,
           \/ Begin(p) \/ Accept(p) \/ Nest(p) \/ Retained(p) \/ Pushed(p) \/ CleanUp(p)
           \/ Unwound(p)
    PROVE  StageInv'
<1>1. UNCHANGED <<base, log>>
  BY DEF Begin, Accept, Nest, Retained, Pushed, CleanUp, Unwound, regs
<1>2. Inherits
  BY BeginInherits, PopInherits, SameInherits
     DEF Begin, Accept, Nest, Retained, Pushed, CleanUp, Unwound
<1>3. Tip' = Tip /\ Tip \in Nat
  BY <1>1, BranchFrame, NoneOffBranch
<1>4. Broken(p) /\ returned \in [Drafter -> {"nothing", "receipt", "broken"}]
  BY DEF StageInv, TypeOK
<1>5. ~Between(p) /\ returned[p] # "broken"
  BY <1>4 DEF Begin, Accept, Nest, Retained, Pushed, CleanUp, Unwound, Between, Abandoned, Broken
<1>6. PICK l \in DraftLabel :
          /\ Go(p, l)
          /\ UNCHANGED returned \/ returned' = [returned EXCEPT ![p] = "receipt"]
  BY DEF Begin, Accept, Nest, Retained, Pushed, CleanUp, Unwound, End, Go, regs, DraftLabel, Ended
<1>7. returned'[p] # "broken"
  BY <1>4, <1>5, <1>6
<1>8. UNCHANGED returned \/ \E x : returned' = [returned EXCEPT ![p] = x]
  BY <1>6
<1> QED  BY <1>1, <1>2, <1>3, <1>5, <1>6, <1>7, <1>8, CommandStages

\* The steps of a rollback.
LEMMA RollbackStages ==
    ASSUME TypeOK, SafeInv, StageInv, NEW p \in Drafter, Restore(p) \/ Restored(p)
    PROVE  StageInv'
<1>1. UNCHANGED <<base, log, returned>> /\ pc[p] \in {"restore", "restored"}
  BY DEF Restore, Restored, regs
<1>2. Inherits
  BY PopInherits, SetInherits, SameInherits DEF Restore, Restored, Recoverable
<1>3. Tip' = Tip /\ Tip \in Nat
  BY <1>1, BranchFrame, NoneOffBranch
<1>4. PICK l \in {"restored", "failed"} : Go(p, l)
  BY DEF Restore, Restored, End
<1>5. Between(p) => returned'[p] = "broken"
  BY <1>1 DEF Between, Abandoned
<1>6. l \in DraftLabel
  BY DEF DraftLabel, Ended
<1> QED  BY <1>1, <1>2, <1>3, <1>4, <1>5, <1>6, CommandStages

\* A command whose branch has moved leaves its journal.
LEMMA CatchStages ==
    ASSUME TypeOK, SafeInv, StageInv, NEW p \in Drafter, Catch(p)
    PROVE  StageInv'
<1>1. UNCHANGED <<base, log, returned>> /\ pc[p] = "catch"
  BY DEF Catch, regs
<1>2. Tip' = Tip /\ Tip \in Nat
  BY <1>1, BranchFrame, NoneOffBranch
<1>3. PICK l \in {"restore", "failed"} : Go(p, l)
  BY DEF Catch, End
<1>4. l \in DraftLabel
  BY DEF DraftLabel, Ended
<1>5. Between(p) => returned'[p] = "broken"
  BY <1>1 DEF Between, Abandoned
<1>6. CASE Inherits
  BY <1>1, <1>2, <1>3, <1>4, <1>5, <1>6, CommandStages
<1>7. CASE ~Inherits
  <2>1. Tip # base[p] /\ SetStage(Draft(p), "draft-head-diverged")
    BY <1>7, SetInherits, PopInherits DEF Catch, Recoverable
  <2>2. IsTop(Draft(p))
    BY <1>7, <2>1, SameInherits DEF SetStage
  <2>3. journal \in Seq(Record) /\ journal # <<>>
    BY <2>2 DEF IsTop, TypeOK
  <2>4. Chain(p)
    BY <2>3, OwnJournal, <1>1 DEF InLock
  <2>5. Top.head = base[p] /\ base[p] \in Nat /\ base[p] <= Tip
    BY <2>4, ChainFacts DEF TypeOK, StageInv
  <2>6. journal' = [journal EXCEPT ![1].stage = "draft-head-diverged"]
    BY <2>1, <2>2 DEF SetStage
  <2>7. 1 \in DOMAIN journal /\ journal[1] \in Record /\ DOMAIN journal' = DOMAIN journal
    BY <2>3, <2>6
  <2>8. journal'[1].stage = "draft-head-diverged" /\ journal'[1].head = base[p]
    BY <2>5, <2>6, <2>7 DEF Record, Top
  <2>9. Staged(journal[1])'
    BY <1>2, <2>1, <2>5, <2>8 DEF Staged
  <2>10. \A i \in DOMAIN journal : i # 1 => journal'[i] = journal[i]
    BY <2>6
  <2>11. Labels
    BY TypeParts
  <2>12. Moves(p, l)
    BY <1>3, <1>4, <2>11, DraftGoes
  <2>13. \A q \in Drafter \ {p} : pc'[q] = pc[q]
    BY <2>12, ProcFacts DEF Moves
  <2>14. base'[p] <= Tip' /\ Broken(p)' /\ (Between(p) => Between(p)')
    BY <1>1, <1>2, <1>5, <2>5, <2>12 DEF Broken, Between, Abandoned, Moves
  <2>15. ASSUME NEW i \in DOMAIN journal'
         PROVE  \/ Staged(journal[i])'
                \/ \E j \in DOMAIN journal :
                       /\ journal'[i] = journal[j]
                       /\ journal[j].stage = "candidate-verified" /\ Owner(journal[j]) = p =>
                             (Between(p) => Between(p)')
    <3>1. CASE i = 1
      BY <2>9, <3>1
    <3>2. CASE i # 1
      BY <2>7, <2>10, <2>14, <3>2
    <3> QED  BY <3>1, <3>2
  <2> QED  BY <1>1, <1>2, <2>13, <2>14, <2>15, StageStep
<1> QED  BY <1>6, <1>7

\* Between the Candidate and the commit.
LEMMA CandidateStages ==
    ASSUME TypeOK, SafeInv, StageInv, NEW p \in Drafter, VerifyCandidate(p)
    PROVE  StageInv'
<1>1. UNCHANGED <<base, log, returned>> /\ pc[p] = "candidate"
  BY DEF VerifyCandidate, regs
<1>2. Tip' = Tip /\ Tip \in Nat
  BY <1>1, BranchFrame, NoneOffBranch
<1>3. PICK l \in {"commit", "unwind"} : Go(p, l)
  BY DEF VerifyCandidate
<1>4. l \in DraftLabel
  BY DEF DraftLabel
<1>5. Broken(p) /\ returned'[p] # "broken"
  BY <1>1 DEF Broken, StageInv
<1>6. CASE UNCHANGED journal
  <2>1. Inherits
    BY <1>6, SameInherits
  <2>2. UNCHANGED base /\ UNCHANGED returned
    BY <1>1
  <2> QED  BY <1>2, <1>3, <1>4, <1>5, <2>1, <2>2, CommandStages
<1>7. CASE ~UNCHANGED journal
  <2>1. SetStage(Nested(p), "candidate-verified") /\ IsTop(Nested(p))
    BY <1>7 DEF VerifyCandidate, SetStage
  <2>2. journal \in Seq(Record) /\ journal # <<>>
    BY <2>1 DEF IsTop, TypeOK
  <2>3. journal' = [journal EXCEPT ![1].stage = "candidate-verified"]
    BY <2>1 DEF SetStage
  <2>4. 1 \in DOMAIN journal /\ journal[1] \in Record /\ DOMAIN journal' = DOMAIN journal
    BY <2>2, <2>3
  <2>5. journal'[1].stage = "candidate-verified" /\ journal'[1].tx = Nested(p)
    BY <2>1, <2>3, <2>4 DEF Record, IsTop, Top
  <2>6. Labels
    BY TypeParts
  <2>7. Moves(p, l)
    BY <1>3, <1>4, <2>6, DraftGoes
  <2>8. Between(p)' /\ Broken(p)'
    BY <1>5, <2>7 DEF Between, Broken, Moves
  <2>9. Staged(journal[1])'
    BY <2>5, <2>8, TxFacts DEF Staged, Owner
  <2>10. \A i \in DOMAIN journal : i # 1 => journal'[i] = journal[i]
    BY <2>3
  <2>11. \A q \in Drafter \ {p} : pc'[q] = pc[q]
    BY <2>7, ProcFacts DEF Moves
  <2>12. base'[p] <= Tip'
    BY <1>1, <1>2 DEF StageInv
  <2>13. ASSUME NEW i \in DOMAIN journal'
         PROVE  \/ Staged(journal[i])'
                \/ \E j \in DOMAIN journal :
                       /\ journal'[i] = journal[j]
                       /\ journal[j].stage = "candidate-verified" /\ Owner(journal[j]) = p =>
                             (Between(p) => Between(p)')
    <3>1. CASE i = 1
      BY <2>9, <3>1
    <3>2. CASE i # 1
      BY <2>4, <2>8, <2>10, <3>2
    <3> QED  BY <3>1, <3>2
  <2> QED  BY <1>1, <1>2, <2>8, <2>11, <2>12, <2>13, StageStep
<1> QED  BY <1>6, <1>7

\* The nested record leaves the stage when its command goes on.
LEMMA LeavesStage ==
    ASSUME TypeOK, SafeInv, StageInv, NEW p \in Drafter,
           NEW l \in {"advance", "unwound"}, Go(p, l),
           UNCHANGED <<base, log, returned>>, Double(p), DOMAIN journal' = DOMAIN journal,
           journal'[1].stage \in Recoverable, returned[p] # "broken",
           \A i \in DOMAIN journal : i # 1 => journal'[i] = journal[i]
    PROVE  StageInv'
<1>1. Tip' = Tip /\ Tip \in Nat
  BY BranchFrame, NoneOffBranch
<1>2. Labels /\ l \in DraftLabel
  BY TypeParts DEF DraftLabel
<1>3. Moves(p, l)
  BY <1>2, DraftGoes
<1>4. \A q \in Drafter \ {p} : pc'[q] = pc[q]
  BY <1>3, ProcFacts DEF Moves
<1>5. base'[p] <= Tip' /\ Broken(p)'
  BY <1>1 DEF StageInv, Broken
<1>6. journal \in Seq(Record) /\ Len(journal) = 2 /\ journal[2].tx = Draft(p)
  BY DEF TypeOK, Double, RecordOf
<1>7. Staged(journal[1])'
  BY DEF Staged, Recoverable
<1>8. journal[2].stage # "candidate-verified"
  <2>1. 2 \in DOMAIN journal
    BY <1>6
  <2>2. Staged(journal[2])
    BY <2>1 DEF StageInv
  <2> QED  BY <1>6, <2>2, TxFacts DEF Staged
<1>9. ASSUME NEW i \in DOMAIN journal', i # 1
      PROVE  i \in DOMAIN journal /\ journal'[i] = journal[i] /\ i = 2
  BY <1>6, <1>9
<1>10. ASSUME NEW i \in DOMAIN journal'
       PROVE  \/ Staged(journal[i])'
              \/ \E j \in DOMAIN journal :
                     /\ journal'[i] = journal[j]
                     /\ journal[j].stage = "candidate-verified" /\ Owner(journal[j]) = p =>
                           (Between(p) => Between(p)')
  <2>1. CASE i = 1
    BY <1>7, <2>1
  <2>2. CASE i # 1
    BY <1>8, <1>9, <2>2
  <2> QED  BY <2>1, <2>2
<1> QED  BY <1>1, <1>4, <1>5, <1>10, StageStep

LEMMA CommitTreeStages ==
    ASSUME TypeOK, SafeInv, StageInv, NEW p \in Drafter, CommitTree(p)
    PROVE  StageInv'
<1>1. UNCHANGED <<base, log, returned>> /\ pc[p] = "commit" /\ Double(p)
  BY DEF CommitTree, regs, SafeInv, Shaped
<1>2. Tip' = Tip /\ Tip \in Nat
  BY <1>1, BranchFrame, NoneOffBranch
<1>3. Broken(p) /\ returned[p] # "broken"
  BY <1>1 DEF Broken, StageInv
<1>4. CASE Go(p, "unwind") /\ UNCHANGED journal
  <2>1. Inherits /\ "unwind" \in DraftLabel
    BY <1>4, SameInherits DEF DraftLabel
  <2>2. UNCHANGED base /\ UNCHANGED returned /\ returned'[p] # "broken"
    BY <1>1, <1>3
  <2> QED  BY <1>2, <1>4, <2>1, <2>2, CommandStages
<1>5. CASE /\ Go(p, "advance")
           /\ journal' = [journal EXCEPT ![1].commit = p, ![1].stage = "commit-created"]
  <2>1. journal \in Seq(Record) /\ 1 \in DOMAIN journal /\ journal[1] \in Record
    <3>1. journal \in Seq(Record) /\ Len(journal) = 2
      BY <1>1 DEF TypeOK, Double
    <3> QED  BY <3>1
  <2>2. DOMAIN journal' = DOMAIN journal /\ journal'[1].stage = "commit-created"
    BY <1>5, <2>1 DEF Record
  <2>3. \A i \in DOMAIN journal : i # 1 => journal'[i] = journal[i]
    BY <1>5
  <2>4. journal'[1].stage \in Recoverable
    BY <2>2 DEF Recoverable
  <2> QED  BY <1>1, <1>3, <1>5, <2>2, <2>3, <2>4, LeavesStage
<1> QED  BY <1>4, <1>5 DEF CommitTree

LEMMA UnwindStages ==
    ASSUME TypeOK, SafeInv, StageInv, NEW p \in Drafter, Unwind(p)
    PROVE  StageInv'
<1>1. UNCHANGED <<base, log>> /\ pc[p] = "unwind" /\ Double(p)
  BY DEF Unwind, SafeInv, Shaped
<1>2. Tip' = Tip /\ Tip \in Nat
  BY <1>1, BranchFrame, NoneOffBranch
<1>3. returned[p] # "broken" /\ returned \in [Drafter -> {"nothing", "receipt", "broken"}]
  BY <1>1 DEF Broken, StageInv, TypeOK
<1>4. CASE /\ Go(p, "unwound") /\ UNCHANGED returned
           /\ SetStage(Nested(p), "restoring")
  <2>1. journal \in Seq(Record) /\ 1 \in DOMAIN journal /\ journal[1] \in Record
    <3>1. journal \in Seq(Record) /\ Len(journal) = 2
      BY <1>1 DEF TypeOK, Double
    <3> QED  BY <3>1
  <2>2. IsTop(Nested(p))
    <3>1. journal # <<>> /\ Top.tx = Nested(p)
      BY <1>1, ChainFacts DEF Chain
    <3> QED  BY <3>1 DEF IsTop
  <2>3. journal' = [journal EXCEPT ![1].stage = "restoring"]
    BY <1>4, <2>2 DEF SetStage
  <2>4. DOMAIN journal' = DOMAIN journal /\ journal'[1].stage = "restoring"
    BY <2>1, <2>3 DEF Record
  <2>5. \A i \in DOMAIN journal : i # 1 => journal'[i] = journal[i]
    BY <2>3
  <2>6. journal'[1].stage \in Recoverable
    BY <2>4 DEF Recoverable
  <2> QED  BY <1>1, <1>3, <1>4, <2>4, <2>5, <2>6, LeavesStage
<1>5. CASE /\ SetStage(Nested(p), "rollback-failed") \/ UNCHANGED journal
           /\ Break(p)
  <2>1. Inherits
    BY <1>5, SetInherits, SameInherits DEF Recoverable
  <2>2. Go(p, "catch") /\ returned' = [returned EXCEPT ![p] = "broken"]
    BY <1>5 DEF Break
  <2>3. returned'[p] = "broken" /\ "catch" \in DraftLabel
    BY <1>3, <2>2 DEF DraftLabel
  <2>4. UNCHANGED base
    BY <1>1
  <2>5. \E x : returned' = [returned EXCEPT ![p] = x]
    BY <2>2
  <2>6. /\ UNCHANGED base \/ base' = [base EXCEPT ![p] = Tip]
        /\ UNCHANGED returned \/ \E x : returned' = [returned EXCEPT ![p] = x]
        /\ returned'[p] = "broken" => "catch" \in {"catch", "restore", "restored", "failed", "dead"}
        /\ Between(p) => "catch" \in {"commit", "unwind", "dead"} \/ returned'[p] = "broken"
    BY <2>3, <2>4, <2>5
  <2>7. Tip' \in Nat /\ Tip' >= Tip
    BY <1>2
  <2> QED  BY <2>1, <2>2, <2>3, <2>6, <2>7, CommandStages, Zenon
<1> QED  BY <1>4, <1>5 DEF Unwind

\* The branch moves, or is not known to.
LEMMA AdvanceStages ==
    ASSUME TypeOK, SafeInv, StageInv, NEW p \in Drafter, Advance(p) \/ OutcomeUnknown(p)
    PROVE  StageInv'
<1>1. UNCHANGED <<base, journal>> /\ pc[p] = "advance"
  BY DEF Advance, OutcomeUnknown, records, regs
<1>2. Tip \in Nat /\ Tip' \in Nat /\ Tip' >= Tip
  <2>1. CASE UNCHANGED log
    BY <2>1, BranchFrame, NoneOffBranch
  <2>2. CASE log' = Append(log, p)
    <3>1. p \in Author
      BY DEF Author
    <3>2. Tip' = Tip + 1 /\ Tip \in Nat
      BY <2>2, <3>1, BranchGrows
    <3> QED  BY <3>2
  <2> QED  BY <2>1, <2>2 DEF Advance, OutcomeUnknown, Commits
<1>3. Inherits
  BY <1>1, SameInherits
<1>4. ~Between(p) /\ returned[p] # "broken" /\ returned \in [Drafter -> {"nothing", "receipt", "broken"}]
  BY <1>1 DEF Between, Abandoned, Broken, StageInv, TypeOK
<1>5. CASE Advance(p)
  <2>1. PICK l \in {"push", "unwind"} : Go(p, l) /\ UNCHANGED returned
    BY <1>5 DEF Advance, regs
  <2>2. l \in DraftLabel /\ returned'[p] # "broken"
    BY <1>4, <2>1 DEF DraftLabel
  <2> QED  BY <1>1, <1>2, <1>3, <1>4, <2>1, <2>2, CommandStages
<1>6. CASE OutcomeUnknown(p)
  <2>1. Go(p, "catch") /\ returned' = [returned EXCEPT ![p] = "broken"]
    BY <1>6 DEF OutcomeUnknown, Break
  <2>2. "catch" \in DraftLabel
    BY DEF DraftLabel
  <2> QED  BY <1>1, <1>2, <1>3, <1>4, <2>1, <2>2, CommandStages
<1> QED  BY <1>5, <1>6

\* The other processes.
LEMMA SyncStages ==
    ASSUME TypeOK, SafeInv, StageInv, NEW s \in Syncer, SyncStep(s)
    PROVE  StageInv'
<1>1. UNCHANGED <<base, log, returned>>
  BY DEF SyncStep, Read, Promote, Drop, Recover, Undo, Undone, Sync, Published, Cleared, regs
<1>2. Inherits
  BY SameInherits, PopInherits, SetInherits
     DEF SyncStep, Read, Promote, Drop, Recover, Undo, Undone, Sync, Published, Cleared,
         records, Recoverable
<1>3. \E l \in SyncLabel : Go(s, l)
  BY DEF SyncStep, Read, Promote, Drop, Recover, Undo, Undone, Sync, Published, Cleared, Idle,
         SyncLabel
<1>4. Labels
  BY TypeParts
<1>5. \A q \in Drafter \ {s} : pc'[q] = pc[q]
  BY <1>3, <1>4, SyncGoes, ProcFacts DEF Moves
<1>6. Tip' = Tip /\ Tip \in Nat /\ s \notin Drafter
  BY <1>1, BranchFrame, NoneOffBranch, ProcFacts
<1> QED  BY <1>1, <1>2, <1>5, <1>6, InheritStep

LEMMA CrashStages ==
    ASSUME TypeOK, SafeInv, StageInv, NEW p \in Proc, Crash(p)
    PROVE  StageInv'
<1>1. UNCHANGED <<base, log, returned, journal>>
  BY DEF Crash, records
<1>2. Inherits /\ Tip' = Tip /\ Tip \in Nat
  BY <1>1, SameInherits, BranchFrame, NoneOffBranch
<1>3. CASE p \in Drafter
  <2>1. Go(p, "dead") /\ "dead" \in DraftLabel
    BY <1>3 DEF Crash, DraftLabel, Ended
  <2> QED  BY <1>1, <1>2, <1>3, <2>1, CommandStages
<1>4. CASE p \in Syncer
  <2>1. Go(p, "idle") /\ "idle" \in SyncLabel /\ Labels
    BY <1>4, ProcFacts, TypeParts DEF Crash, Idle, SyncLabel
  <2>2. \A q \in Drafter \ {p} : pc'[q] = pc[q]
    BY <1>4, <2>1, SyncGoes, ProcFacts DEF Moves
  <2>3. p \notin Drafter
    BY <1>4, ProcFacts
  <2> QED  BY <1>1, <1>2, <2>2, <2>3, InheritStep
<1> QED  BY <1>3, <1>4 DEF Proc

LEMMA ByHandStages ==
    ASSUME TypeOK, SafeInv, StageInv, NEW m \in Manual, CommitByHand(m)
    PROVE  StageInv'
<1>1. UNCHANGED <<base, pc, returned, journal>> /\ log' = Append(log, m) /\ m \in Author
  BY DEF CommitByHand, records, regs, Author
<1>2. Inherits /\ Tip' = Tip + 1 /\ Tip \in Nat /\ m \notin Drafter
  BY <1>1, SameInherits, BranchGrows, ProcFacts
<1>3. Tip' \in Nat /\ Tip' >= Tip
  BY <1>2
<1> QED  BY <1>1, <1>2, <1>3, InheritStep

LEMMA NextStage ==
    ASSUME TypeOK, SafeInv, StageInv, Next
    PROVE  StageInv'
<1>1. ASSUME NEW p \in Drafter, Step(p) PROVE StageInv'
  BY <1>1, QuietStages, RecordStages, RollbackStages, CatchStages, CandidateStages,
     CommitTreeStages, UnwindStages, AdvanceStages DEF Step
<1> QED  BY <1>1, SyncStages, CrashStages, ByHandStages DEF Next

LEMMA InitStage == Init => StageInv
<1> SUFFICES ASSUME Init PROVE StageInv
  OBVIOUS
<1>1. journal = <<>> /\ Tip = 0
  BY DEF Init, Tip
<1>2. \A p \in Drafter : base[p] = 0 /\ returned[p] = "nothing"
  BY DEF Init
<1> QED  BY <1>1, <1>2 DEF StageInv, Broken

LEMMA StutterStage ==
    ASSUME TypeOK, SafeInv, StageInv, UNCHANGED vars
    PROVE  StageInv'
<1>1. UNCHANGED <<base, log, returned, journal, pc>>
  BY DEF vars, records, regs
<1>2. Inherits /\ Tip' = Tip /\ Tip \in Nat
  BY <1>1, SameInherits, BranchFrame, NoneOffBranch
<1>3. \A q \in Drafter : base'[q] <= Tip' /\ Broken(q)' /\ (Between(q) => Between(q)')
  BY <1>1, <1>2 DEF StageInv, Broken, Between, Abandoned
<1> QED  BY <1>1, <1>2, <1>3, InheritStep

-----------------------------------------------------------------------------
(***************************************************************************)
(* The whole invariant.                                                    *)
(***************************************************************************)

\* Once a marker was made of a journal that was gone, it was.
LEMMA LateStays ==
    ASSUME TypeOK, Next
    PROVE  late => late'
<1>1. ASSUME NEW p \in Drafter, Step(p) PROVE late' = late
  <2>1. CASE Load(p) \/ Enter(p) \/ Begin(p) \/ Write(p) \/ Accept(p) \/ Invalid(p)
    BY <2>1 DEF Load, Enter, Begin, Write, Accept, Invalid, records
  <2>2. CASE Catch(p) \/ Restore(p) \/ Restored(p) \/ Nest(p) \/ NestedWrite(p) \/ CommitTree(p)
    BY <2>2 DEF Catch, Restore, Restored, Nest, NestedWrite, CommitTree, records
  <2>3. CASE VerifyCandidate(p) \/ Advance(p) \/ OutcomeUnknown(p) \/ Unwind(p) \/ Unwound(p)
    BY <2>3 DEF VerifyCandidate, Advance, OutcomeUnknown, Unwind, Unwound, records
  <2>4. CASE Push(p) \/ Retain(p) \/ Retained(p) \/ Pushed(p) \/ CleanUp(p) \/ PublishFails(p)
    BY <2>4 DEF Push, Retain, Retained, Pushed, CleanUp, PublishFails, records
  <2> QED  BY <1>1, <2>1, <2>2, <2>3, <2>4 DEF Step
<1>2. ASSUME NEW s \in Syncer, SyncStep(s) PROVE late => late'
  <2>1. CASE Read(s) \/ Drop(s) \/ Recover(s) \/ Undo(s)
    BY <2>1 DEF Read, Drop, Recover, Undo, records
  <2>2. CASE Undone(s) \/ Sync(s) \/ Published(s) \/ Cleared(s)
    BY <2>2 DEF Undone, Sync, Published, Cleared, records
  <2>3. CASE Promote(s)
    BY <2>3 DEF Promote
  <2> QED  BY <1>2, <2>1, <2>2, <2>3 DEF SyncStep
<1>3. ASSUME NEW p \in Proc, Crash(p) PROVE late' = late
  BY <1>3 DEF Crash, records
<1>4. ASSUME NEW m \in Manual, CommitByHand(m) PROVE late' = late
  BY <1>4 DEF CommitByHand, records
<1> QED  BY <1>1, <1>2, <1>3, <1>4 DEF Next

LEMMA CommandTimely ==
    ASSUME TypeOK, SafeInv, TimelyInv, ~late, TypeOK', SafeInv', NEW p \in Drafter, Step(p)
    PROVE  TimelyInv'
BY LoadTimely, EnterTimely, BeginTimely, WriteTimely, AcceptTimely, InvalidTimely, CatchTimely,
   RestoreTimely, RestoredTimely, NestTimely, CandidateTimely, CommitTreeTimely, AdvanceTimely,
   UnknownTimely, UnwindTimely, UnwoundTimely, PushTimely, RetainTimely, RetainedTimely,
   PushedTimely, CleanUpTimely, PublishFailsTimely DEF Step

LEMMA SyncerTimely ==
    ASSUME TypeOK, SafeInv, TimelyInv, ~late, TypeOK', ~late', NEW s \in Syncer, SyncStep(s)
    PROVE  TimelyInv'
BY ReadTimely, PromoteTimely, DropTimely, RecoverTimely, UndoTimely, ClearingTimely, PublishTimely,
   PublishedTimely DEF SyncStep

LEMMA NextTimely ==
    ASSUME TypeOK, SafeInv, TimelyInv, TypeOK', SafeInv', Next
    PROVE  TimelyInv'
<1>1. CASE late'
  BY <1>1 DEF TimelyInv
<1>2. CASE ~late'
  <2>1. ~late
    BY <1>2, LateStays
  <2>2. ASSUME NEW p \in Proc, Crash(p) PROVE TimelyInv'
    BY <2>1, <2>2, CommandDiesTimely, SyncerDiesTimely DEF Proc
  <2> QED  BY <1>2, <2>1, <2>2, CommandTimely, SyncerTimely, ByHandTimely DEF Next
<1> QED  BY <1>1, <1>2

LEMMA StutterTimely ==
    ASSUME TypeOK, SafeInv, TimelyInv, TypeOK', UNCHANGED vars
    PROVE  TimelyInv'
<1>0. /\ UNCHANGED <<holder, log, dirty, remote, journal, marker, pc, base, pre, returned, obs>>
      /\ UNCHANGED late
  BY DEF vars, files, records, regs
<1>1. CASE late
  BY <1>0, <1>1 DEF TimelyInv
<1>2. CASE ~late
  <2>b. Tip' = Tip /\ \A x : OnBranch(x)' <=> OnBranch(x)
    BY <1>0, BranchFrame
  <2>c. \A q \in Drafter : (Chain(q)' <=> Chain(q)) /\ (Double(q)' <=> Double(q))
    BY <1>0, <2>b, ChainFrame
  <2>1. /\ Explained /\ Marked
        /\ \A q \in Drafter : Proven(q)
        /\ \A s \in Syncer : Settled(s)
        /\ (\A m \in Manual : ~OnBranch(m)) => \A q \in Drafter : Alone(q)
    BY <1>2 DEF TimelyInv
  <2>2. Explained'
    <3> SUFFICES ASSUME NEW tx \in dirty PROVE pc[tx[1]] = "done" \/ Chain(tx[1])'
      BY <1>0 DEF Explained
    <3>1. tx[1] \in Drafter
      BY LooseBytes
    <3> QED  BY <2>1, <2>c, <3>1 DEF Explained
  <2>3. Marked'
    <3>1. marker \in Drafter \cup {None}
      BY DEF TypeOK
    <3> QED  BY <1>0, <2>1, <2>c, <3>1 DEF Marked
  <2>4. ASSUME NEW q \in Drafter PROVE Proven(q)'
    <3>1. Proven(q) /\ Owed(q)
      BY <2>1 DEF Proven
    <3>2. Owed(q)'
      BY <1>0, <2>b, <2>c, <3>1 DEF Owed
    <3>3. Accepted(pre[q])' /\ (pc[q] = "restored" => Accepted(dirty)')
      BY <1>0, <3>1 DEF Proven, Accepted
    <3> QED  BY <1>0, <2>b, <3>1, <3>2, <3>3 DEF Proven
  <2>5. ASSUME NEW s \in Syncer PROVE Settled(s)'
    <3>1. Settled(s)
      BY <2>1
    <3>2. /\ pc[s] = "undo" => Accepted(obs[s].preimage)'
          /\ pc[s] = "undone" => Accepted(dirty)'
      BY <1>0, <3>1 DEF Settled, Accepted
    <3> QED  BY <1>0, <2>c, <3>1, <3>2 DEF Settled
  <2>6. (\A m \in Manual : ~OnBranch(m)') => \A q \in Drafter : Alone(q)'
    BY <1>0, <2>1, <2>b, <2>c DEF Alone
  <2> QED  BY <2>2, <2>3, <2>4, <2>5, <2>6 DEF TimelyInv
<1> QED  BY <1>1, <1>2

LEMMA InitTimely == Init => TimelyInv
<1> SUFFICES ASSUME Init PROVE TimelyInv
  OBVIOUS
<1>1. /\ TypeOK /\ SafeInv /\ journal = <<>> /\ marker = None
      /\ dirty = {}
      /\ \A p \in Drafter : pc[p] = "load" /\ pre[p] = {} /\ ~OnBranch(p)
      /\ \A s \in Syncer : pc[s] = "idle"
  BY InitDraft
<1>2. \A p \in Drafter : ~Chain(p)
  BY <1>1, NoChain
<1>3. \A p \in Drafter : Proven(p)
  BY <1>1 DEF Proven, Accepted, Owed
<1>4. \A s \in Syncer : Settled(s)
  BY <1>1 DEF Settled
<1>5. \A p \in Drafter : Alone(p)
  <2>1. \A p \in Drafter : holder # p
    BY DraftAssumption DEF Init
  <2> QED  BY <1>2, <2>1 DEF Alone
<1> QED  BY <1>1, <1>3, <1>4, <1>5 DEF TimelyInv, Explained, Marked

LEMMA DraftHolds == Spec => []DraftInv
<1>1. Init => DraftInv
  BY InitDraft, InitStage, InitTimely DEF DraftInv
<1>2. DraftInv /\ [Next]_vars => DraftInv'
  BY NextTyped, NextSafe, NextStage, NextTimely, StutterTyped, StutterSafe, StutterStage,
     StutterTimely DEF DraftInv
<1> QED  BY <1>1, <1>2, PTL DEF Spec

\* Uncommitted bytes of a draft that was not accepted are explained by a
\* journal whose preimage is without them (DraftUnitOfWork.execute and the
\* nested publication), as long as no sync made a marker of a journal that was
\* gone: wherever a command fails or dies, the way back exists.
THEOREM UncommittedJournaled == Spec => []UncommittedIsJournaled
<1>1. DraftInv => UncommittedIsJournaled
  <2> SUFFICES ASSUME TypeOK, SafeInv, TimelyInv, ~late, NEW tx \in dirty, pc[tx[1]] # "done"
               PROVE  \E i \in DOMAIN journal :
                          Owner(journal[i]) = tx[1] /\ tx \notin journal[i].preimage
    BY DEF DraftInv, UncommittedIsJournaled
  <2>1. tx[1] \in Drafter /\ Chain(tx[1])
    BY LooseBytes DEF TimelyInv, Explained
  <2>2. journal # <<>> /\ Owner(Top) = tx[1] /\ Top.preimage = pre[tx[1]]
    BY <2>1, ChainFacts
  <2>3. tx \notin pre[tx[1]]
    BY <2>1 DEF TimelyInv, Proven, Accepted
  <2>4. Len(journal) \in {1, 2}
    BY <2>1 DEF Chain, Single, Double
  <2>5. 1 \in DOMAIN journal
    BY <2>4 DEF TypeOK
  <2> QED  BY <2>2, <2>3, <2>5 DEF Top
<1> QED  BY <1>1, DraftHolds, PTL

\* What a nested publication has committed is at the remote, in the marker, or
\* named by a journal that is there (commitAndPublish with recoveryPreimage
\* under DraftUnitOfWork.execute), whatever dies, syncs or is committed by hand.
THEOREM CommittedOwed == Spec => []CommittedIsOwed
<1>1. DraftInv => CommittedIsOwed
  <2> SUFFICES ASSUME TypeOK, SafeInv, TimelyInv, ~late, NEW p \in Drafter, OnBranch(p),
                      p \notin remote, marker # p
               PROVE  \E i \in DOMAIN journal : journal[i].commit = p
    BY DEF DraftInv, CommittedIsOwed
  <2>1. Double(p)
    BY DEF TimelyInv, Proven, Owed
  <2>2. journal[1].commit = p /\ Len(journal) = 2
    BY <2>1 DEF Double
  <2>3. 1 \in DOMAIN journal
    BY <2>2 DEF TypeOK
  <2> QED  BY <2>2, <2>3
<1> QED  BY <1>1, DraftHolds, PTL

\* A journal that no sync can recover or promote was left by a death or a broken
\* nested publication (its reference update without an answer, its record not
\* written), after its commit or between Candidate and commit, or somebody moved
\* the branch by hand: what ends otherwise never leaves one, in whatever order
\* commands and syncs run (recoverPreparedPublication, readPendingPublication).
THEOREM StuckExplained == Spec => []StuckIsExplained
<1>1. DraftInv => StuckIsExplained
  <2> SUFFICES ASSUME TypeOK, SafeInv, StageInv, TimelyInv, ~late, journal # <<>>,
                      ~LeaseIsLive(Top), ~CanRecover(Top), ~OnBranch(Top.commit),
                      \A m \in Manual : ~OnBranch(m)
               PROVE  /\ pc[Owner(Top)] = "dead" \/ returned[Owner(Top)] = "broken"
                      /\ OnBranch(Owner(Top)) \/ Top.stage = "candidate-verified"
    BY DEF DraftInv, StuckIsExplained
  <2>1. PICK c \in Drafter : /\ Chain(c) /\ pc[c] \in Left /\ Owner(Top) = c
                             /\ Top.head = base[c]
    BY TopFacts
  <2>2. holder # c
    BY <2>1 DEF LeaseIsLive
  <2>3. pc[c] \in {"failed", "dead"}
    BY <2>1, <2>2 DEF SafeInv, Locked, Left
  <2>4. Alone(c)
    BY DEF TimelyInv
  <2>5. CASE OnBranch(c)
    BY <2>1, <2>3, <2>4, <2>5 DEF Alone
  <2>6. CASE ~OnBranch(c)
    <3>1. Tip = Top.head
      BY <2>1, <2>4, <2>6 DEF Alone
    <3>2. Top.stage \in {"candidate-verified", "draft-head-diverged"}
      <4>1. Top \in Record /\ Top.stage \notin Recoverable
        BY <3>1 DEF TypeOK, Top, CanRecover, Interrupted
      <4> QED  BY <4>1 DEF Record, Stage
    <3>3. Staged(Top)
      BY DEF TypeOK, Top, StageInv
    <3>4. Tip \in Nat
      BY NoneOffBranch
    <3> QED  BY <2>1, <2>3, <3>1, <3>2, <3>3, <3>4 DEF Staged, Between, Abandoned,
           SafeInv
  <2> QED  BY <2>5, <2>6
<1> QED  BY <1>1, DraftHolds, PTL
=============================================================================
