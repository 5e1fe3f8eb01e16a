-------------------------- MODULE ResetBarrierProofs --------------------------
(* Subject locks against resets and rebuilds, for any number of calls,      *)
(* subjects and resetters, whichever of them die and when.                  *)
EXTENDS ResetBarrier, FiniteSets, FiniteSetTheorems, TLAPS

\* Calls that have ended for good.
Past(t) == pc[t] \in {"done", "refused", "dead"}

(***************************************************************************)
(* Frames. A call that runs, runs under the lease of a call of the same    *)
(* process and subject, and the count of that lease is the number of       *)
(* inherited frames still running under it.                                *)
(***************************************************************************)
Inheritors(t) == {c \in Call : c # t /\ pc[c] = "running" /\ lease[c] = t}

Named(t) == pc[t] # "idle" => subj[t] \in Subject
Leased(t) ==
    /\ pc[t] \in {"running", "drain", "release"} => lease[t] # None
    /\ lease[t] # None =>
         /\ pc[t] \in {"running", "drain", "release", "done", "dead"}
         /\ lease[lease[t]] = lease[t]
         /\ root[lease[t]] = root[t] /\ subj[lease[t]] = subj[t]
         /\ pc[t] = "running" => pc[lease[t]] \in {"running", "drain"}
         /\ pc[t] \in {"drain", "release"} => lease[t] = t
Framed(t) ==
    \A s \in Subject : LET f == scope[t][s] IN
        f # None => lease[f] # None /\ root[f] = root[t] /\ subj[f] = s
Found(t) ==
    pc[t] \in {"nested check", "inherit"} => from[t] = scope[t][subj[t]] /\ from[t] # None
Counted(t) ==
    pc[t] # "dead" => IsFiniteSet(Inheritors(t)) /\ count[t] = Cardinality(Inheritors(t))

CallInv == \A t \in Call : Named(t) /\ Leased(t) /\ Framed(t) /\ Found(t) /\ Counted(t)

(***************************************************************************)
(* Locks against the barrier.                                              *)
(***************************************************************************)
\* The call has published its lock; the call has found no barrier after that.
Entered(t) == pc[t] \in {"begin", "drain"} \/ (pc[t] = "running" /\ lease[t] = t)
Held(t) == pc[t] = "second check" \/ Entered(t)

\* What a snapshot of the locks says of the calls in it: whose lock is gone by
\* now has ended, or everybody has.
Stays(locks) == \A s \in Subject : locks[s] # None /\ lock[s] # locks[s] => Past(locks[s])
AllPast(locks) == \A s \in Subject : locks[s] # None => Past(locks[s])
Begun(locks) == \A s \in Subject : locks[s] # None => pc[locks[s]] # "idle"

OneBarrier == \A r \in Resetter : pc[r] \notin Ended => barrier = r
LocksInRuntime == ~runtime => \A s \in Subject : lock[s] = None
OwnersBegun == Begun(lock) /\ \A r \in Resetter : Begun(kept[r][2])

\* A reset that reaches its move has seen every lock of its snapshot abandoned.
Surveyed(r) ==
    /\ pc[r] \in {"prepare", "relist", "rescan"} => Stays(plan[r][2])
    /\ pc[r] \in {"relist", "rescan"} => Stays(before[r][2])
    /\ pc[r] = "rescan" => \A s \in Subject \ entries[r] :
         lock[s] # None /\ lock[s] = plan[r][2][s] => Past(lock[s])
    /\ pc[r] \in {"verify", "move"} \/ (pc[r] = "work" /\ kind[r] = "reset") =>
         AllPast(before[r][2])
    /\ pc[r] = "recheck" => AllPast(kept[r][2])

\* The lock of a call is on the disk, or in the runtime a reset is about to put back.
Moved(r, t) ==
    /\ pc[r] \in {"recheck", "undo"}
    /\ kept[r][1] /\ kept[r][2][subj[t]] = t
Covered(t) ==
    ~lost /\ Held(t) => lock[subj[t]] = t \/ \E r \in Resetter : Moved(r, t)

\* A call that has entered is seen by every scan that is not over.
Seen(t) ==
    ~lost /\ Entered(t) => \A r \in Resetter :
        /\ pc[r] \in Ended \cup {"list", "scan", "lower"}
        /\ pc[r] = "scan" => subj[t] \in entries[r]

ResetInv ==
    /\ OneBarrier /\ LocksInRuntime /\ OwnersBegun
    /\ \A r \in Resetter : Surveyed(r)
    /\ \A t \in Call : Covered(t) /\ Seen(t)

BarrierInv == TypeOK /\ CallInv /\ ResetInv

-----------------------------------------------------------------------------
\* What does not change when only labels do.
CallTypes ==
    /\ subj \in [Call -> Subject \cup {None}] /\ root \in [Call -> Call]
    /\ scope \in [Call -> Locks] /\ from \in [Call -> Call \cup {None}]
    /\ lease \in [Call -> Call \cup {None}] /\ count \in [Call -> Nat]
ResetTypes ==
    /\ kind \in [Resetter -> {"reset", "rebuild"}]
    /\ entries \in [Resetter -> SUBSET Subject]
    /\ plan \in [Resetter -> BOOLEAN \X Locks]
    /\ before \in [Resetter -> BOOLEAN \X Locks]
    /\ kept \in [Resetter -> BOOLEAN \X Locks]
DiskTypes ==
    /\ lock \in Locks /\ barrier \in Resetter \cup {None}
    /\ runtime \in BOOLEAN /\ lost \in BOOLEAN
Labels ==
    /\ DOMAIN pc = Call \cup Resetter
    /\ \A t \in Call : pc[t] \in CallLabel
    /\ \A r \in Resetter : pc[r] \in ResetLabel

LEMMA TypeParts == TypeOK <=> DiskTypes /\ Labels /\ CallTypes /\ ResetTypes
BY DEF TypeOK, DiskTypes, Labels, CallTypes, ResetTypes

LEMMA TypePartsNext == TypeOK' <=> DiskTypes' /\ Labels' /\ CallTypes' /\ ResetTypes'
BY DEF TypeOK, DiskTypes, Labels, CallTypes, ResetTypes

LEMMA GoEffect ==
    ASSUME Labels, NEW p \in Call \cup Resetter, NEW l, Go(p, l)
    PROVE  /\ pc'[p] = l /\ DOMAIN pc' = Call \cup Resetter
           /\ \A q \in (Call \cup Resetter) \ {p} : pc'[q] = pc[q]
BY DEF Labels, Go

\* A label a call goes to is one of a call, and of a resetter one of a resetter.
LEMMA CallGoes ==
    ASSUME Labels, NEW t \in Call, NEW l \in CallLabel, Go(t, l)
    PROVE  Labels' /\ pc'[t] = l /\ (\A c \in Call \ {t} : pc'[c] = pc[c])
                   /\ \A r \in Resetter : pc'[r] = pc[r]
BY GoEffect, BarrierAssumption DEF Labels

LEMMA ResetGoes ==
    ASSUME Labels, NEW r \in Resetter, NEW l \in ResetLabel, Go(r, l)
    PROVE  Labels' /\ pc'[r] = l /\ (\A c \in Call : pc'[c] = pc[c])
                   /\ \A q \in Resetter \ {r} : pc'[q] = pc[q]
BY GoEffect, BarrierAssumption DEF Labels

LEMMA CheckEffect ==
    ASSUME Labels, NEW t \in Call, NEW label, NEW next \in CallLabel, NEW refused \in CallLabel,
           CheckBarrier(t, label, next, refused)
    PROVE  /\ pc[t] = label /\ Labels'
           /\ pc'[t] \in {label, next, refused}
           /\ \A c \in Call \ {t} : pc'[c] = pc[c]
           /\ \A r \in Resetter : pc'[r] = pc[r]
           /\ barrier' = barrier \/ (BarrierIsStale /\ barrier' = None)
           /\ UNCHANGED <<lock, runtime, lost, calls, resets>>
<1>1. CASE UNCHANGED pc
  BY <1>1 DEF CheckBarrier, Labels
<1>2. CASE Go(t, next) /\ barrier = None /\ UNCHANGED barrier
  BY <1>2, CallGoes DEF CheckBarrier
<1>3. CASE Go(t, refused) /\ UNCHANGED barrier
  BY <1>3, CallGoes DEF CheckBarrier
<1> QED  BY <1>1, <1>2, <1>3 DEF CheckBarrier

\* The steps of a call that change nothing but its label, the lock of its
\* subject, a stale barrier, or that the runtime exists.
Walks(t) ==
    \/ NestedCheck(t) \/ FirstCheck(t) \/ Parent(t) \/ Create(t) \/ Publish(t)
    \/ SecondCheck(t) \/ Withdraw(t) \/ Drain(t) \/ Release(t)

Before == {"enter", "nested check", "inherit", "first check", "parent", "create",
           "publish", "second check", "withdraw", "begin"}
After(label) ==
    CASE label = "nested check" -> {"nested check", "inherit", "refused"}
      [] label = "first check" -> {"first check", "parent", "refused"}
      [] label = "parent" -> {"create"}
      [] label = "create" -> {"create", "publish", "refused"}
      [] label = "publish" -> {"second check", "create", "withdraw"}
      [] label = "second check" -> {"second check", "begin", "withdraw"}
      [] label = "withdraw" -> {"refused"}
      [] label = "drain" -> {"release"}
      [] label = "release" -> {"done"}
      [] OTHER -> {}

LEMMA WalkEffect ==
    ASSUME TypeOK, NEW t \in Call, Walks(t)
    PROVE  /\ DiskTypes' /\ Labels'
           /\ pc'[t] \in After(pc[t])
           /\ \A c \in Call \ {t} : pc'[c] = pc[c]
           /\ \A r \in Resetter : pc'[r] = pc[r]
           /\ barrier' = barrier \/ (BarrierIsStale /\ barrier' = None)
           /\ UNCHANGED <<lost, calls, resets>>
<1>types. DiskTypes /\ Labels
  BY TypeParts
<1> USE DEF CallLabel, Ended
<1>1. CASE NestedCheck(t)
  <2>1. CheckBarrier(t, "nested check", "inherit", "refused")
    BY <1>1 DEF NestedCheck
  <2>2. /\ pc[t] = "nested check" /\ pc'[t] \in {"nested check", "inherit", "refused"} /\ Labels'
        /\ \A c \in Call \ {t} : pc'[c] = pc[c]
        /\ \A r \in Resetter : pc'[r] = pc[r]
        /\ barrier' = barrier \/ (BarrierIsStale /\ barrier' = None)
        /\ UNCHANGED <<lock, runtime, lost, calls, resets>>
    BY <1>types, <2>1, CheckEffect
  <2> QED  BY <1>types, <2>2 DEF After, DiskTypes
<1>2. CASE FirstCheck(t)
  <2>1. CheckBarrier(t, "first check", "parent", "refused")
    BY <1>2 DEF FirstCheck
  <2>2. /\ pc[t] = "first check" /\ pc'[t] \in {"first check", "parent", "refused"} /\ Labels'
        /\ \A c \in Call \ {t} : pc'[c] = pc[c]
        /\ \A r \in Resetter : pc'[r] = pc[r]
        /\ barrier' = barrier \/ (BarrierIsStale /\ barrier' = None)
        /\ UNCHANGED <<lock, runtime, lost, calls, resets>>
    BY <1>types, <2>1, CheckEffect
  <2> QED  BY <1>types, <2>2 DEF After, DiskTypes
<1>3. CASE SecondCheck(t)
  <2>1. CheckBarrier(t, "second check", "begin", "withdraw")
    BY <1>3 DEF SecondCheck
  <2>2. /\ pc[t] = "second check" /\ pc'[t] \in {"second check", "begin", "withdraw"} /\ Labels'
        /\ \A c \in Call \ {t} : pc'[c] = pc[c]
        /\ \A r \in Resetter : pc'[r] = pc[r]
        /\ barrier' = barrier \/ (BarrierIsStale /\ barrier' = None)
        /\ UNCHANGED <<lock, runtime, lost, calls, resets>>
    BY <1>types, <2>1, CheckEffect
  <2> QED  BY <1>types, <2>2 DEF After, DiskTypes
<1>4. CASE Parent(t)
  <2>1. Go(t, "create")
    BY <1>4 DEF Parent
  <2> QED  BY <1>4, <1>types, <2>1, CallGoes DEF Parent, After, DiskTypes
<1>5. CASE Create(t)
  <2>1. lock' \in Locks
    BY <1>5, <1>types DEF Create, DiskTypes, Locks
  <2>2. Go(t, "publish") \/ Go(t, "refused") \/ UNCHANGED pc
    BY <1>5 DEF Create
  <2>3. /\ Labels' /\ pc'[t] \in After("create") /\ pc[t] = "create"
        /\ \A c \in Call \ {t} : pc'[c] = pc[c]
        /\ \A r \in Resetter : pc'[r] = pc[r]
    <3>1. CASE UNCHANGED pc
      BY <1>5, <1>types, <3>1 DEF Create, After, Labels
    <3>2. CASE Go(t, "publish") \/ Go(t, "refused")
      BY <1>5, <1>types, <3>2, CallGoes DEF Create, After
    <3> QED  BY <2>2, <3>1, <3>2
  <2> QED  BY <1>5, <1>types, <2>1, <2>3 DEF Create, DiskTypes
<1>6. CASE Publish(t)
  <2>1. pc[t] = "publish" /\ (Go(t, "second check") \/ Go(t, "create") \/ Go(t, "withdraw"))
    BY <1>6 DEF Publish
  <2> QED  BY <1>6, <1>types, <2>1, CallGoes DEF Publish, After, DiskTypes, disk
<1>7. CASE Withdraw(t) \/ Release(t)
  <2>1. lock' \in Locks
    BY <1>7, <1>types DEF Withdraw, Release, DiskTypes, Locks
  <2>2. \/ pc[t] = "withdraw" /\ Go(t, "refused")
        \/ pc[t] = "release" /\ Go(t, "done")
    BY <1>7 DEF Withdraw, Release
  <2> QED  BY <1>7, <1>types, <2>1, <2>2, CallGoes DEF Withdraw, Release, After, DiskTypes
<1>8. CASE Drain(t)
  <2>1. pc[t] = "drain" /\ Go(t, "release")
    BY <1>8 DEF Drain
  <2> QED  BY <1>8, <1>types, <2>1, CallGoes DEF Drain, After, DiskTypes, disk
<1> QED  BY <1>1, <1>2, <1>3, <1>4, <1>5, <1>6, <1>7, <1>8 DEF Walks

-----------------------------------------------------------------------------
\* A call that has no lease yet is the lease of nobody.
LEMMA NoLease ==
    ASSUME TypeOK, CallInv, NEW t \in Call,
           pc[t] \notin {"running", "drain", "release", "done", "dead"}
    PROVE  lease[t] = None /\ \A c \in Call : lease[c] # t
<1>1. \A c \in Call : Leased(c)
  BY DEF CallInv
<1>2. lease[t] = None
  BY <1>1 DEF Leased
<1>3. ASSUME NEW c \in Call, lease[c] = t PROVE FALSE
  BY <1>1, <1>2, <1>3, BarrierAssumption DEF Leased
<1> QED  BY <1>2, <1>3

LEMMA SameInheritors ==
    ASSUME \A c \in Call : (pc[c] = "running")' <=> pc[c] = "running", UNCHANGED lease, NEW t
    PROVE  Inheritors(t)' = Inheritors(t)
BY DEF Inheritors

\* Steps that move one label, neither into nor out of the callback.
LEMMA LabelMoves ==
    ASSUME TypeOK, CallInv, NEW t \in Call, UNCHANGED calls,
           \A c \in Call \ {t} : pc'[c] = pc[c],
           pc[t] \notin {"idle", "running", "dead"}, pc'[t] \notin {"idle", "running"},
           pc'[t] \in {"nested check", "inherit"} => Found(t)',
           pc'[t] = "drain" \/ \A c \in Call : lease[c] = t => pc[c] # "running",
           Leased(t)'
    PROVE  CallInv'
<1> USE DEF calls
<1> SUFFICES ASSUME NEW c \in Call
             PROVE  Named(c)' /\ Leased(c)' /\ Framed(c)' /\ Found(c)' /\ Counted(c)'
  BY DEF CallInv
<1>0. Named(c) /\ Leased(c) /\ Framed(c) /\ Found(c) /\ Counted(c)
  BY DEF CallInv
<1>1. Named(c)' /\ Framed(c)'
  BY <1>0 DEF Named, Framed, CallInv
<1>2. Found(c)'
  BY <1>0 DEF Found
<1>3. Leased(c)'
  <2> SUFFICES ASSUME c # t PROVE Leased(c)'
    OBVIOUS
  <2>1. lease[c] \in Call \cup {None}
    BY DEF TypeOK
  <2>2. pc[c] = "running" /\ lease[c] # None => pc'[lease[c]] \in {"running", "drain"}
    BY <1>0, <2>1 DEF Leased
  <2> QED  BY <1>0, <2>2 DEF Leased
<1>4. Counted(c)'
  <2>1. Inheritors(c)' = Inheritors(c)
    BY SameInheritors
  <2> QED  BY <1>0, <2>1 DEF Counted
<1> QED  BY <1>1, <1>2, <1>3, <1>4

\* No frame inherited from a call is running when its count is zero.
LEMMA NoneInherits ==
    ASSUME TypeOK, CallInv, NEW t \in Call, pc[t] # "dead", count[t] = 0
    PROVE  \A c \in Call \ {t} : lease[c] = t => pc[c] # "running"
<1>1. IsFiniteSet(Inheritors(t)) /\ Cardinality(Inheritors(t)) = 0
  BY DEF CallInv, Counted
<1>2. Inheritors(t) = {}
  BY <1>1, FS_EmptySet
<1> QED  BY <1>2 DEF Inheritors

LEMMA WalkFrames ==
    ASSUME TypeOK, CallInv, NEW t \in Call, Walks(t)
    PROVE  CallInv'
<1>1. /\ pc'[t] \in After(pc[t]) /\ UNCHANGED calls
      /\ \A c \in Call \ {t} : pc'[c] = pc[c]
  BY WalkEffect
<1>same. UNCHANGED <<subj, root, scope, from, lease, count>>
  BY <1>1 DEF calls
<1>2. Leased(t) /\ Found(t)
  BY DEF CallInv
<1>3. CASE pc[t] \in Before
  <2>1. /\ pc[t] \notin {"idle", "running", "drain", "release", "done", "dead"}
        /\ pc'[t] \notin {"idle", "running", "drain", "release", "done", "dead"}
        /\ pc'[t] \in {"nested check", "inherit"} => pc[t] = "nested check"
    BY <1>1, <1>3 DEF After, Before
  <2>2. lease[t] = None /\ \A c \in Call : lease[c] # t
    BY <2>1, NoLease
  <2>3. Leased(t)'
    BY <1>same, <2>1, <2>2 DEF Leased
  <2>4. pc'[t] \in {"nested check", "inherit"} => Found(t)'
    BY <1>same, <1>2, <2>1 DEF Found
  <2> QED  BY <1>1, <2>1, <2>2, <2>3, <2>4, LabelMoves
<1>4. CASE pc[t] = "drain"
  <2>1. pc'[t] = "release"
    BY <1>1, <1>4 DEF After
  <2>2. Drain(t)
    BY <1>4 DEF Walks, NestedCheck, FirstCheck, Parent, Create, Publish, SecondCheck,
                Withdraw, Release, CheckBarrier
  <2>3. \A c \in Call : lease[c] = t => pc[c] # "running"
    BY <1>4, <2>2, NoneInherits DEF Drain
  <2>4. Leased(t)'
    BY <1>same, <1>2, <1>4, <2>1 DEF Leased
  <2> QED  BY <1>1, <1>4, <2>1, <2>3, <2>4, LabelMoves
<1>5. CASE pc[t] = "release"
  <2>1. pc'[t] = "done"
    BY <1>1, <1>5 DEF After
  <2>2. \A c \in Call : lease[c] = t => pc[c] # "running"
    BY <1>5, BarrierAssumption DEF CallInv, Leased
  <2>3. Leased(t)'
    BY <1>same, <1>2, <1>5, <2>1 DEF Leased
  <2> QED  BY <1>1, <1>5, <2>1, <2>2, <2>3, LabelMoves
<1>6. pc[t] \in Before \cup {"drain", "release"}
  BY DEF Walks, NestedCheck, FirstCheck, Parent, Create, Publish, SecondCheck,
         Withdraw, Drain, Release, CheckBarrier, Before
<1> QED  BY <1>3, <1>4, <1>5, <1>6

\* The refused callback, and the inherited frame that ended meanwhile.
LEMMA StepBack ==
    ASSUME TypeOK, CallInv, NEW t \in Call, pc[t] \in {"begin", "inherit"},
           NEW l \in {"withdraw", "first check"}, Go(t, l), UNCHANGED calls
    PROVE  Labels' /\ CallInv'
<1>1. /\ Labels' /\ pc'[t] = l /\ \A c \in Call \ {t} : pc'[c] = pc[c]
  BY CallGoes, TypeParts DEF CallLabel
<1>2. lease[t] = None /\ \A c \in Call : lease[c] # t
  BY NoLease
<1>3. Leased(t)'
  BY <1>1, <1>2 DEF Leased, calls
<1> QED  BY <1>1, <1>2, <1>3, LabelMoves

LEMMA EnterFrames ==
    ASSUME TypeOK, CallInv, NEW t \in Call, Enter(t)
    PROVE  TypeOK' /\ CallInv'
<1>types. DiskTypes /\ Labels /\ CallTypes /\ ResetTypes
  BY TypeParts
<1>0. pc[t] = "enter" /\ subj[t] \in Subject /\ scope[t] \in Locks
  BY DEF Enter, CallInv, Named, TypeOK
<1>same. UNCHANGED <<subj, root, scope, lease, count, disk, lost, resets>>
  BY DEF Enter
<1>1. /\ pc'[t] \in {"nested check", "first check"} /\ Labels'
      /\ \A c \in Call \ {t} : pc'[c] = pc[c]
  BY <1>types, CallGoes DEF Enter, CallLabel
<1>2. /\ from' \in [Call -> Call \cup {None}] /\ \A c \in Call \ {t} : from'[c] = from[c]
      /\ pc'[t] = "nested check" => from'[t] = scope[t][subj[t]] /\ from'[t] # None
  <2>1. CASE Active(scope[t][subj[t]])
    BY <1>0, <1>types, <2>1 DEF Enter, Active, Locks, CallTypes
  <2>2. CASE ~Active(scope[t][subj[t]])
    <3>1. Go(t, "first check") /\ UNCHANGED from
      BY <2>2 DEF Enter
    <3>2. pc'[t] = "first check"
      BY <1>types, <3>1, CallGoes DEF CallLabel
    <3> QED  BY <1>types, <3>1, <3>2 DEF CallTypes
  <2> QED  BY <2>1, <2>2
<1>3. TypeOK'
  BY <1>types, <1>same, <1>1, <1>2, TypePartsNext
     DEF DiskTypes, CallTypes, ResetTypes, disk, resets
<1>4. lease[t] = None /\ \A c \in Call : lease[c] # t
  BY <1>0, NoLease
<1>5. ASSUME NEW c \in Call
      PROVE  Named(c)' /\ Leased(c)' /\ Framed(c)' /\ Found(c)' /\ Counted(c)'
  <2>0. Named(c) /\ Leased(c) /\ Framed(c) /\ Found(c) /\ Counted(c)
    BY DEF CallInv
  <2>1. Named(c)' /\ Framed(c)' /\ Found(c)'
    BY <1>0, <1>1, <1>2, <1>same, <2>0 DEF Named, Framed, Found
  <2>2. Leased(c)'
    BY <1>0, <1>1, <1>4, <1>same, <2>0 DEF Leased, TypeOK
  <2>3. Counted(c)'
    <3>1. Inheritors(c)' = Inheritors(c)
      BY <1>0, <1>1, <1>same, SameInheritors
    <3> QED  BY <1>0, <1>1, <1>same, <2>0, <3>1 DEF Counted
  <2> QED  BY <2>1, <2>2, <2>3
<1> QED  BY <1>3, <1>5 DEF CallInv

\* A call of a process of its own, or of one that runs a callback of it.
LEMMA BornFrames ==
    ASSUME TypeOK, CallInv, NEW c \in Call, pc[c] = "idle", Go(c, "enter"),
           NEW s \in Subject, subj' = [subj EXCEPT ![c] = s],
           NEW r \in Call, root' = [root EXCEPT ![c] = r],
           NEW frames \in Locks, scope' = [scope EXCEPT ![c] = frames],
           \A u \in Subject : frames[u] # None =>
               lease[frames[u]] # None /\ root[frames[u]] = r /\ subj[frames[u]] = u,
           UNCHANGED <<disk, lost, from, lease, count, resets>>
    PROVE  TypeOK' /\ CallInv'
<1>types. DiskTypes /\ Labels /\ CallTypes /\ ResetTypes
  BY TypeParts
<1>1. pc'[c] = "enter" /\ Labels' /\ \A t \in Call \ {c} : pc'[t] = pc[t]
  BY <1>types, CallGoes DEF CallLabel
<1>2. /\ CallTypes'
      /\ subj'[c] = s /\ root'[c] = r /\ scope'[c] = frames
      /\ \A t \in Call \ {c} : subj'[t] = subj[t] /\ root'[t] = root[t] /\ scope'[t] = scope[t]
  BY <1>types DEF CallTypes
<1>3. TypeOK'
  BY <1>types, <1>1, <1>2, TypePartsNext DEF DiskTypes, ResetTypes, disk, resets
<1>4. lease[c] = None /\ \A t \in Call : lease[t] # c
  BY NoLease
<1>5. \A f \in Call : lease[f] # None => f # c /\ root'[f] = root[f] /\ subj'[f] = subj[f]
  BY <1>2, <1>4
<1>6. ASSUME NEW t \in Call
      PROVE  Named(t)' /\ Leased(t)' /\ Framed(t)' /\ Found(t)' /\ Counted(t)'
  <2>0. Named(t) /\ Leased(t) /\ Framed(t) /\ Found(t) /\ Counted(t)
    BY DEF CallInv
  <2>1. Named(t)'
    BY <1>1, <1>2, <2>0 DEF Named
  <2>2. Leased(t)'
    <3>1. lease[t] \in Call \cup {None}
      BY <1>types DEF CallTypes
    <3>2. t = c => Leased(t)'
      BY <1>1, <1>4 DEF Leased
    <3>3. t # c /\ lease[t] = None => Leased(t)'
      BY <1>1, <2>0 DEF Leased
    <3>4. t # c /\ lease[t] # None => Leased(t)'
      BY <1>1, <1>2, <1>4, <2>0, <3>1 DEF Leased
    <3> QED  BY <3>2, <3>3, <3>4
  <2>3. Framed(t)'
    <3> SUFFICES ASSUME NEW u \in Subject, scope'[t][u] # None
                 PROVE  /\ lease[scope'[t][u]] # None
                        /\ root'[scope'[t][u]] = root'[t] /\ subj'[scope'[t][u]] = u
      BY DEF Framed
    <3>1. scope'[t][u] \in Call
      BY <1>2 DEF CallTypes, Locks
    <3>2. CASE t = c
      BY <1>2, <1>5, <3>1, <3>2
    <3>3. CASE t # c
      BY <1>2, <1>5, <2>0, <3>1, <3>3 DEF Framed
    <3> QED  BY <3>2, <3>3
  <2>4. Found(t)'
    BY <1>1, <1>2, <2>0 DEF Found
  <2>5. Counted(t)'
    <3>1. Inheritors(t)' = Inheritors(t)
      BY <1>1, SameInheritors
    <3> QED  BY <1>1, <2>0, <3>1 DEF Counted
  <2> QED  BY <2>1, <2>2, <2>3, <2>4, <2>5
<1> QED  BY <1>3, <1>6 DEF CallInv

LEMMA StartFrames ==
    ASSUME TypeOK, CallInv, NEW t \in Call, Start(t)
    PROVE  TypeOK' /\ CallInv'
<1>1. PICK s \in Subject : subj' = [subj EXCEPT ![t] = s]
  BY DEF Start
<1>2. root' = [root EXCEPT ![t] = t] /\ scope' = [scope EXCEPT ![t] = scope[t]]
  BY DEF Start, TypeOK
<1>3. scope[t] \in Locks /\ root[t] = t /\ Framed(t)
  BY DEF Start, TypeOK, CallInv
<1>4. pc[t] = "idle" /\ Go(t, "enter") /\ UNCHANGED <<disk, lost, from, lease, count, resets>>
  BY DEF Start
<1>5. \A u \in Subject : scope[t][u] # None =>
          lease[scope[t][u]] # None /\ root[scope[t][u]] = t /\ subj[scope[t][u]] = u
  BY <1>3 DEF Framed
<1> QED  BY <1>1, <1>2, <1>3, <1>4, <1>5, BornFrames

LEMMA SpawnFrames ==
    ASSUME TypeOK, CallInv, NEW t \in Call, NEW c \in Call, Spawn(t, c)
    PROVE  TypeOK' /\ CallInv'
<1>1. PICK s \in Subject : subj' = [subj EXCEPT ![c] = s]
  BY DEF Spawn
<1> DEFINE frames == [scope[t] EXCEPT ![subj[t]] = t]
<1>2. /\ pc[t] = "running" /\ pc[c] = "idle" /\ Go(c, "enter")
      /\ root' = [root EXCEPT ![c] = root[t]] /\ scope' = [scope EXCEPT ![c] = frames]
      /\ UNCHANGED <<disk, lost, from, lease, count, resets>>
  BY DEF Spawn
<1>3. frames \in Locks /\ root[t] \in Call
  BY DEF TypeOK, Locks
<1>4. lease[t] # None /\ subj[t] \in Subject /\ Framed(t) /\ scope[t] \in Locks
  BY <1>2 DEF CallInv, Leased, Named, TypeOK
<1>5. \A u \in Subject : frames[u] # None =>
          lease[frames[u]] # None /\ root[frames[u]] = root[t] /\ subj[frames[u]] = u
  BY <1>4 DEF Framed, Locks
<1> HIDE DEF frames
<1> QED  BY <1>1, <1>2, <1>3, <1>5, BornFrames

\* Where no label of a call and nothing a call keeps changes.
LEMMA FramesStay ==
    ASSUME CallInv, UNCHANGED calls, \A c \in Call : pc'[c] = pc[c], CallTypes
    PROVE  CallInv'
<1> USE DEF calls
<1>1. ASSUME NEW c \in Call
      PROVE  Named(c)' /\ Leased(c)' /\ Framed(c)' /\ Found(c)' /\ Counted(c)'
  <2>0. Named(c) /\ Leased(c) /\ Framed(c) /\ Found(c) /\ Counted(c)
    BY DEF CallInv
  <2>1. Inheritors(c)' = Inheritors(c)
    BY SameInheritors
  <2>2. Leased(c)'
    BY <2>0 DEF Leased, CallTypes
  <2> QED  BY <2>0, <2>1, <2>2 DEF Named, Framed, Found, Counted
<1> QED  BY <1>1 DEF CallInv

\* A frame begins: of the call itself, or inherited and counted.
LEMMA BeginFrames ==
    ASSUME TypeOK, CallInv, NEW t \in Call, Begin(t)
    PROVE  TypeOK' /\ CallInv'
<1>types. DiskTypes /\ Labels /\ CallTypes /\ ResetTypes
  BY TypeParts
<1>same. pc[t] = "begin" /\ UNCHANGED <<disk, lost, subj, root, scope, from, count, resets>>
  BY DEF Begin
<1>1. CASE Go(t, "withdraw") /\ UNCHANGED lease
  <2>1. UNCHANGED calls
    BY <1>1, <1>same DEF calls
  <2>2. Labels' /\ CallInv'
    BY <1>1, <1>same, <2>1, StepBack
  <2> QED  BY <1>types, <1>same, <2>1, <2>2, TypePartsNext
           DEF DiskTypes, CallTypes, ResetTypes, disk, resets, calls
<1>2. CASE lease' = [lease EXCEPT ![t] = t] /\ Go(t, "running")
  <2>1. pc'[t] = "running" /\ Labels' /\ \A c \in Call \ {t} : pc'[c] = pc[c]
    BY <1>types, <1>2, CallGoes DEF CallLabel
  <2>2. /\ lease' \in [Call -> Call \cup {None}] /\ lease'[t] = t
        /\ \A c \in Call \ {t} : lease'[c] = lease[c]
    BY <1>types, <1>2 DEF CallTypes
  <2>3. TypeOK'
    BY <1>types, <1>same, <2>1, <2>2, TypePartsNext
       DEF DiskTypes, CallTypes, ResetTypes, disk, resets
  <2>4. lease[t] = None /\ t # None /\ \A c \in Call : lease[c] # t
    BY <1>same, NoLease, BarrierAssumption
  <2>5. ASSUME NEW c \in Call
        PROVE  Named(c)' /\ Leased(c)' /\ Framed(c)' /\ Found(c)' /\ Counted(c)'
    <3>0. Named(c) /\ Leased(c) /\ Framed(c) /\ Found(c) /\ Counted(c)
      BY DEF CallInv
    <3>1. Named(c)' /\ Found(c)'
      BY <1>same, <2>1, <3>0 DEF Named, Found
    <3>2. Leased(c)'
      <4>1. Leased(t)'
        BY <1>same, <2>1, <2>2, <2>4 DEF Leased
      <4>2. t # c => Leased(c)'
        BY <1>types, <1>same, <2>1, <2>2, <2>4, <3>0 DEF Leased, CallTypes
      <4> QED  BY <4>1, <4>2
    <3>3. Framed(c)'
      <4>1. \A f \in Call : lease[f] # None => lease'[f] # None
        BY <2>2, <2>4
      <4> QED  BY <1>types, <1>same, <3>0, <4>1 DEF Framed, CallTypes, Locks
    <3>4. Counted(c)'
      <4>1. Inheritors(c)' = Inheritors(c)
        BY <1>same, <2>1, <2>2, <2>4 DEF Inheritors
      <4> QED  BY <1>same, <2>1, <3>0, <4>1 DEF Counted
    <3> QED  BY <3>1, <3>2, <3>3, <3>4
  <2> QED  BY <2>3, <2>5 DEF CallInv
<1> QED  BY <1>1, <1>2 DEF Begin

LEMMA InheritFrames ==
    ASSUME TypeOK, CallInv, NEW t \in Call, Inherit(t)
    PROVE  TypeOK' /\ CallInv'
<1>types. DiskTypes /\ Labels /\ CallTypes /\ ResetTypes
  BY TypeParts
<1>same. pc[t] = "inherit" /\ UNCHANGED <<disk, lost, subj, root, scope, from, resets>>
  BY DEF Inherit
<1>1. CASE Go(t, "first check") /\ UNCHANGED <<lease, count>>
  <2>1. UNCHANGED calls
    BY <1>1, <1>same DEF calls
  <2>2. Labels' /\ CallInv'
    BY <1>1, <1>same, <2>1, StepBack
  <2> QED  BY <1>types, <1>same, <2>1, <2>2, TypePartsNext
           DEF DiskTypes, CallTypes, ResetTypes, disk, resets, calls
<1>2. CASE /\ Active(from[t]) /\ Go(t, "running")
           /\ lease' = [lease EXCEPT ![t] = lease[from[t]]]
           /\ count' = [count EXCEPT ![lease[from[t]]] = @ + 1]
  <2>0. from[t] = scope[t][subj[t]] /\ from[t] # None /\ subj[t] \in Subject /\ from[t] \in Call
    BY <1>same, <1>types DEF CallInv, Found, Named, CallTypes
  <2>f. lease[from[t]] # None /\ root[from[t]] = root[t] /\ subj[from[t]] = subj[t]
    BY <2>0 DEF CallInv, Framed
  <2>h. PICK h \in Call : h = lease[from[t]]
    BY <1>types, <2>0, <2>f DEF CallTypes
  <2>2. /\ lease[h] = h /\ pc[h] \in {"running", "drain"}
        /\ root[h] = root[t] /\ subj[h] = subj[t] /\ h # None
    <3>1. Leased(from[t])
      BY <2>0 DEF CallInv
    <3>2. pc[h] \in {"running", "drain"}
      BY <1>2, <2>h DEF Active
    <3> QED  BY <2>f, <2>h, <3>1, <3>2 DEF Leased
  <2>3. lease[t] = None /\ \A c \in Call : lease[c] # t
    BY <1>same, NoLease
  <2>4. h # t
    BY <2>2, <2>3
  <2>5. pc'[t] = "running" /\ Labels' /\ \A c \in Call \ {t} : pc'[c] = pc[c]
    BY <1>types, <1>2, CallGoes DEF CallLabel
  <2>6. /\ lease' \in [Call -> Call \cup {None}] /\ lease'[t] = h
        /\ \A c \in Call \ {t} : lease'[c] = lease[c]
    BY <1>types, <1>2, <2>h DEF CallTypes
  <2>7. /\ count' \in [Call -> Nat] /\ count'[h] = count[h] + 1
        /\ \A c \in Call \ {h} : count'[c] = count[c]
    BY <1>types, <1>2, <2>h DEF CallTypes
  <2>8. TypeOK'
    BY <1>types, <1>same, <2>5, <2>6, <2>7, TypePartsNext
       DEF DiskTypes, CallTypes, ResetTypes, disk, resets
  <2>9. ASSUME NEW c \in Call
        PROVE  Named(c)' /\ Leased(c)' /\ Framed(c)' /\ Found(c)' /\ Counted(c)'
    <3>0. Named(c) /\ Leased(c) /\ Framed(c) /\ Found(c) /\ Counted(c)
      BY DEF CallInv
    <3>1. Named(c)' /\ Found(c)'
      BY <1>same, <2>5, <3>0 DEF Named, Found
    <3>2. Leased(c)'
      <4>1. Leased(t)'
        BY <1>same, <2>2, <2>4, <2>5, <2>6 DEF Leased
      <4>2. t # c => Leased(c)'
        BY <1>types, <1>same, <2>3, <2>5, <2>6, <3>0 DEF Leased, CallTypes
      <4> QED  BY <4>1, <4>2
    <3>3. Framed(c)'
      <4>1. \A g \in Call : lease[g] # None => lease'[g] # None
        BY <2>3, <2>6
      <4> QED  BY <1>types, <1>same, <3>0, <4>1 DEF Framed, CallTypes, Locks
    <3>4. Counted(c)'
      <4>1. CASE c = h
        <5>1. Inheritors(h)' = Inheritors(h) \cup {t} /\ t \notin Inheritors(h)
          BY <1>same, <2>3, <2>4, <2>5, <2>6 DEF Inheritors
        <5>2. IsFiniteSet(Inheritors(h)) /\ count[h] = Cardinality(Inheritors(h))
          BY <2>2, <3>0, <4>1 DEF Counted
        <5>3. /\ IsFiniteSet(Inheritors(h) \cup {t})
              /\ Cardinality(Inheritors(h) \cup {t}) = Cardinality(Inheritors(h)) + 1
          BY <5>1, <5>2, FS_AddElement
        <5> QED  BY <2>7, <4>1, <5>1, <5>2, <5>3 DEF Counted
      <4>2. CASE c # h
        <5>1. Inheritors(c)' = Inheritors(c)
          BY <1>same, <2>5, <2>6, <4>2 DEF Inheritors
        <5> QED  BY <1>same, <2>5, <2>7, <3>0, <4>2, <5>1 DEF Counted
      <4> QED  BY <4>1, <4>2
    <3> QED  BY <3>1, <3>2, <3>3, <3>4
  <2> QED  BY <2>8, <2>9 DEF CallInv
<1> QED  BY <1>1, <1>2 DEF Inherit

LEMMA SettleFrames ==
    ASSUME TypeOK, CallInv, NEW t \in Call, Settle(t)
    PROVE  TypeOK' /\ CallInv'
<1>types. DiskTypes /\ Labels /\ CallTypes /\ ResetTypes
  BY TypeParts
<1>same. pc[t] = "running" /\ UNCHANGED <<disk, lost, subj, root, scope, from, lease, resets>>
  BY DEF Settle
<1>l. lease[t] \in Call /\ lease[t] # None /\ Leased(t)
  BY <1>same, <1>types DEF CallInv, Leased, CallTypes
<1>h. PICK h \in Call : h = lease[t]
  BY <1>l
<1>0. h # None /\ lease[h] = h /\ pc[h] \in {"running", "drain"}
  BY <1>same, <1>l, <1>h DEF Leased
<1>1. CASE h = t
  <2>1. Go(t, "drain") /\ UNCHANGED count
    BY <1>1, <1>h DEF Settle
  <2>2. pc'[t] = "drain" /\ Labels' /\ \A c \in Call \ {t} : pc'[c] = pc[c]
    BY <1>types, <2>1, CallGoes DEF CallLabel
  <2>3. TypeOK'
    BY <1>types, <1>same, <2>1, <2>2, TypePartsNext
       DEF DiskTypes, CallTypes, ResetTypes, disk, resets
  <2>4. ASSUME NEW c \in Call
        PROVE  Named(c)' /\ Leased(c)' /\ Framed(c)' /\ Found(c)' /\ Counted(c)'
    <3>0. Named(c) /\ Leased(c) /\ Framed(c) /\ Found(c) /\ Counted(c)
      BY DEF CallInv
    <3>1. Named(c)' /\ Found(c)' /\ Framed(c)'
      BY <1>same, <2>2, <3>0 DEF Named, Found, Framed
    <3>2. Leased(c)'
      BY <1>types, <1>same, <1>0, <1>1, <1>h, <2>2, <3>0 DEF Leased, CallTypes
    <3>3. Counted(c)'
      <4>1. Inheritors(c)' = Inheritors(c)
        BY <1>same, <1>1, <1>h, <2>2 DEF Inheritors
      <4> QED  BY <1>same, <2>1, <2>2, <3>0, <4>1 DEF Counted
    <3> QED  BY <3>1, <3>2, <3>3
  <2> QED  BY <2>3, <2>4 DEF CallInv
<1>2. CASE h # t
  <2>1. Go(t, "done") /\ count' = [count EXCEPT ![h] = @ - 1]
    BY <1>2, <1>h DEF Settle
  <2>2. pc'[t] = "done" /\ Labels' /\ \A c \in Call \ {t} : pc'[c] = pc[c]
    BY <1>types, <2>1, CallGoes DEF CallLabel, Ended
  <2>3. /\ t \in Inheritors(h) /\ IsFiniteSet(Inheritors(h))
        /\ count[h] = Cardinality(Inheritors(h))
    BY <1>same, <1>0, <1>2, <1>h DEF Inheritors, CallInv, Counted
  <2>4. /\ IsFiniteSet(Inheritors(h) \ {t})
        /\ Cardinality(Inheritors(h) \ {t}) = Cardinality(Inheritors(h)) - 1
    BY <2>3, FS_RemoveElement
  <2>5. Cardinality(Inheritors(h) \ {t}) \in Nat
    BY <2>4, FS_CardinalityType
  <2>6. /\ count' \in [Call -> Nat] /\ count'[h] = count[h] - 1
        /\ \A c \in Call \ {h} : count'[c] = count[c]
    BY <1>types, <1>0, <2>1, <2>3, <2>4, <2>5 DEF CallTypes
  <2>7. TypeOK'
    BY <1>types, <1>same, <2>2, <2>6, TypePartsNext
       DEF DiskTypes, CallTypes, ResetTypes, disk, resets
  <2>8. \A c \in Call : lease[c] # t
    BY <1>2, <1>h, <1>l, BarrierAssumption DEF CallInv, Leased
  <2>9. ASSUME NEW c \in Call
        PROVE  Named(c)' /\ Leased(c)' /\ Framed(c)' /\ Found(c)' /\ Counted(c)'
    <3>0. Named(c) /\ Leased(c) /\ Framed(c) /\ Found(c) /\ Counted(c)
      BY DEF CallInv
    <3>1. Named(c)' /\ Found(c)' /\ Framed(c)'
      BY <1>same, <2>2, <3>0 DEF Named, Found, Framed
    <3>2. Leased(c)'
      BY <1>types, <1>same, <2>2, <2>8, <3>0 DEF Leased, CallTypes
    <3>3. Counted(c)'
      <4>1. CASE c = h
        <5>1. Inheritors(h)' = Inheritors(h) \ {t}
          BY <1>same, <2>2 DEF Inheritors
        <5> QED  BY <2>3, <2>4, <2>6, <4>1, <5>1 DEF Counted
      <4>2. CASE c # h
        <5>1. Inheritors(c)' = Inheritors(c)
          BY <1>same, <1>h, <2>2, <4>2 DEF Inheritors
        <5> QED  BY <1>same, <2>2, <2>6, <3>0, <4>2, <5>1 DEF Counted
      <4> QED  BY <4>1, <4>2
    <3> QED  BY <3>1, <3>2, <3>3
  <2> QED  BY <2>7, <2>9 DEF CallInv
<1> QED  BY <1>1, <1>2

\* All calls of a process die at once, and with a lease every frame under it.
LEMMA CrashFrames ==
    ASSUME TypeOK, CallInv, NEW p \in Call \cup Resetter, Crash(p)
    PROVE  TypeOK' /\ CallInv'
<1>types. DiskTypes /\ Labels /\ CallTypes /\ ResetTypes
  BY TypeParts
<1>same. pc[p] \notin Ended /\ UNCHANGED <<disk, calls, resets>>
  BY DEF Crash
<1>1. \A q \in Call \cup Resetter :
        pc'[q] = IF q = p \/ (p \in Call /\ q \in Call /\ root[q] = root[p] /\ pc[q] \notin Ended)
                 THEN "dead" ELSE pc[q]
  BY DEF Crash
<1>2. Labels'
  <2>1. DOMAIN pc' = Call \cup Resetter
    BY DEF Crash
  <2> QED  BY <1>types, <1>1, <2>1 DEF Labels, CallLabel, ResetLabel, Ended
<1>3. lost' \in BOOLEAN
  BY <1>types DEF Crash, DiskTypes
<1>4. TypeOK'
  BY <1>types, <1>same, <1>2, <1>3, TypePartsNext
     DEF DiskTypes, CallTypes, ResetTypes, disk, calls, resets
<1>5. CASE p \in Resetter
  <2>1. \A c \in Call : pc'[c] = pc[c]
    BY <1>1, <1>5, BarrierAssumption
  <2> QED  BY <1>types, <1>same, <1>4, <2>1, FramesStay
<1>6. CASE p \in Call
  <2>1. ASSUME NEW c \in Call, lease[c] # None, pc'[c] = "running"
        PROVE  pc[c] = "running" /\ pc'[lease[c]] = pc[lease[c]]
    <3>1. pc[c] = "running" /\ c # p /\ root[c] # root[p]
      BY <1>1, <1>6, <2>1 DEF Ended
    <3>2. lease[c] \in Call /\ root[lease[c]] = root[c]
      BY <1>types, <2>1 DEF CallInv, Leased, CallTypes
    <3> QED  BY <1>1, <3>1, <3>2
  <2>2. ASSUME NEW c \in Call
        PROVE  Named(c)' /\ Leased(c)' /\ Framed(c)' /\ Found(c)' /\ Counted(c)'
    <3>0. Named(c) /\ Leased(c) /\ Framed(c) /\ Found(c) /\ Counted(c)
      BY DEF CallInv
    <3>c. pc'[c] = "dead" \/ pc'[c] = pc[c]
      BY <1>1
    <3>same. UNCHANGED <<subj, root, scope, from, lease, count>>
      BY <1>same DEF calls
    <3>1. Named(c)' /\ Found(c)' /\ Framed(c)'
      BY <1>same, <1>1, <3>c, <3>same, <3>0 DEF Named, Found, Framed, Ended
    <3>2. Leased(c)'
      BY <2>1, <3>c, <3>same, <3>0 DEF Leased
    <3>3. Counted(c)'
      <4> SUFFICES ASSUME pc'[c] # "dead" PROVE Counted(c)'
        BY DEF Counted
      <4>1. Inheritors(c)' = Inheritors(c)
        <5>1. ASSUME NEW d \in Inheritors(c) PROVE pc'[d] = "running"
          <6>1. /\ d \in Call /\ pc[d] = "running" /\ lease[d] = c
                /\ root[c] = root[d] /\ pc[c] \in {"running", "drain"}
            BY <5>1, BarrierAssumption DEF Inheritors, CallInv, Leased
          <6>2. root[c] # root[p]
            BY <1>1, <1>6, <6>1 DEF Ended
          <6> QED  BY <1>1, <6>1, <6>2
        <5>2. \A d \in Call : pc'[d] = "running" => pc[d] = "running"
          BY <1>1
        <5> QED  BY <3>same, <5>1, <5>2 DEF Inheritors
      <4> QED  BY <3>c, <3>same, <3>0, <4>1 DEF Counted
    <3> QED  BY <3>1, <3>2, <3>3
  <2> QED  BY <1>4, <2>2 DEF CallInv
<1> QED  BY <1>5, <1>6

\* Every step of a call.
LEMMA CallStepFrames ==
    ASSUME TypeOK, CallInv, NEW t \in Call, Start(t) \/ CallStep(t)
    PROVE  TypeOK' /\ CallInv'
<1>1. CASE Walks(t)
  <2>1. DiskTypes' /\ Labels' /\ UNCHANGED <<calls, resets>>
    BY <1>1, WalkEffect
  <2>2. CallTypes' /\ ResetTypes'
    BY <2>1, TypeParts DEF CallTypes, ResetTypes, calls, resets
  <2> QED  BY <1>1, <2>1, <2>2, TypePartsNext, WalkFrames
<1>2. CASE Start(t)
  BY <1>2, StartFrames
<1>3. CASE Enter(t)
  BY <1>3, EnterFrames
<1>4. CASE Inherit(t)
  BY <1>4, InheritFrames
<1>5. CASE Begin(t)
  BY <1>5, BeginFrames
<1>6. CASE Settle(t)
  BY <1>6, SettleFrames
<1> QED  BY <1>1, <1>2, <1>3, <1>4, <1>5, <1>6 DEF CallStep, Walks

\* What a step of a resetter leaves alone, and where it goes.
LEMMA ResetEffect ==
    ASSUME TypeOK, NEW r \in Resetter, ResetStep(r)
    PROVE  /\ UNCHANGED calls /\ Labels' /\ pc'[r] \in ResetLabel
           /\ \A c \in Call : pc'[c] = pc[c]
           /\ \A q \in Resetter \ {r} : pc'[q] = pc[q]
<1>types. Labels /\ ResetTypes
  BY TypeParts
<1> USE DEF ResetLabel, Ended, Working
<1>1. CASE UNCHANGED pc
  <2>1. UNCHANGED calls
    BY DEF ResetStep, Raise, List, Inspect, Scanned, Prepare, Rescanned, Work, Verify, Move,
           Recheck, Undo, Lower
  <2> QED  BY <1>1, <1>types, <2>1 DEF Labels
<1>2. ASSUME NEW l \in ResetLabel, Go(r, l), UNCHANGED calls
      PROVE  /\ UNCHANGED calls /\ Labels' /\ pc'[r] \in ResetLabel
             /\ \A c \in Call : pc'[c] = pc[c]
             /\ \A q \in Resetter \ {r} : pc'[q] = pc[q]
  BY <1>2, <1>types, ResetGoes
<1>3. UNCHANGED pc \/ \E l \in ResetLabel : Go(r, l)
  <2>1. CASE Raise(r)
    BY <2>1 DEF Raise
  <2>2. CASE List(r)
    BY <2>2 DEF List
  <2>3. CASE Inspect(r)
    BY <2>3 DEF Inspect
  <2>4. CASE Scanned(r)
    BY <2>4 DEF Scanned
  <2>5. CASE Prepare(r)
    BY <2>5 DEF Prepare
  <2>6. CASE Rescanned(r)
    BY <2>6 DEF Rescanned
  <2>7. CASE Work(r)
    BY <2>7 DEF Work
  <2>8. CASE Verify(r)
    BY <2>8 DEF Verify
  <2>9. CASE Move(r)
    BY <2>9 DEF Move
  <2>10. CASE Recheck(r)
    BY <2>10 DEF Recheck
  <2>11. CASE Undo(r)
    BY <2>11 DEF Undo
  <2>12. CASE Lower(r)
    BY <2>12 DEF Lower
  <2> QED  BY <2>1, <2>2, <2>3, <2>4, <2>5, <2>6, <2>7, <2>8, <2>9, <2>10, <2>11, <2>12
           DEF ResetStep
<1>4. UNCHANGED calls
  BY DEF ResetStep, Raise, List, Inspect, Scanned, Prepare, Rescanned, Work, Verify, Move,
         Recheck, Undo, Lower
<1> QED  BY <1>1, <1>2, <1>3, <1>4

LEMMA ResetStepFrames ==
    ASSUME TypeOK, CallInv, NEW r \in Resetter, ResetStep(r)
    PROVE  TypeOK' /\ CallInv'
<1>types. DiskTypes /\ Labels /\ CallTypes /\ ResetTypes
  BY TypeParts
<1>1. UNCHANGED calls /\ Labels' /\ \A c \in Call : pc'[c] = pc[c]
  BY ResetEffect
<1>2. CallTypes' /\ CallInv'
  BY <1>types, <1>1, FramesStay DEF CallTypes, calls
<1>3. Root \in BOOLEAN \X Locks /\ NoRoot \in BOOLEAN \X Locks /\ NoLocks \in Locks
  BY <1>types DEF Root, NoRoot, NoLocks, Locks, DiskTypes
<1>4. kept[r][2] \in Locks
  BY <1>types DEF ResetTypes
<1>5. DiskTypes'
  <2> USE <1>types DEF DiskTypes
  <2>1. CASE Raise(r)
    BY <2>1 DEF Raise
  <2>2. CASE List(r) \/ Inspect(r) \/ Scanned(r) \/ Prepare(r) \/ Rescanned(r) \/ Work(r)
             \/ Verify(r) \/ Recheck(r)
    <3>1. UNCHANGED <<disk, lost>>
      BY <2>2 DEF List, Inspect, Scanned, Prepare, Rescanned, Work, Verify, Recheck
    <3> QED  BY <3>1 DEF disk
  <2>3. CASE Move(r)
    BY <1>3, <2>3 DEF Move
  <2>4. CASE Undo(r)
    BY <1>4, <2>4 DEF Undo, HoldsALiveLock
  <2>5. CASE Lower(r)
    BY <2>5 DEF Lower
  <2> QED  BY <2>1, <2>2, <2>3, <2>4, <2>5 DEF ResetStep
<1>6. ResetTypes'
  <2> USE <1>types, <1>3 DEF ResetTypes
  <2>1. CASE Raise(r)
    BY <2>1 DEF Raise, resets
  <2>2. CASE List(r)
    BY <2>2 DEF List, resets
  <2>3. CASE Inspect(r)
    <3>1. UNCHANGED <<kind, plan, before, kept>>
      BY <2>3 DEF Inspect
    <3>2. UNCHANGED entries \/ \E s : entries' = [entries EXCEPT ![r] = @ \ {s}]
      BY <2>3 DEF Inspect
    <3>3. entries' \in [Resetter -> SUBSET Subject]
      BY <3>2
    <3> QED  BY <3>1, <3>3
  <2>4. CASE Scanned(r)
    <3>1. UNCHANGED <<kind, entries, before, kept>> /\ plan' = [plan EXCEPT ![r] = Root]
      BY <2>4 DEF Scanned
    <3> QED  BY <3>1
  <2>5. CASE Prepare(r)
    <3>1. UNCHANGED <<kind, entries, plan, kept>> /\ before' = [before EXCEPT ![r] = Root]
      BY <2>5 DEF Prepare
    <3> QED  BY <3>1
  <2>6. CASE Rescanned(r) \/ Work(r) \/ Verify(r)
    BY <2>6 DEF Rescanned, Work, Verify, resets
  <2>7. CASE Move(r)
    BY <2>7 DEF Move, resets
  <2>8. CASE Recheck(r)
    BY <2>8 DEF Recheck, resets
  <2>9. CASE Undo(r)
    BY <2>9 DEF Undo, resets
  <2>10. CASE Lower(r)
    BY <2>10 DEF Lower, resets
  <2> QED  BY <2>1, <2>2, <2>3, <2>4, <2>5, <2>6, <2>7, <2>8, <2>9, <2>10 DEF ResetStep
<1> QED  BY <1>1, <1>2, <1>5, <1>6, TypePartsNext

LEMMA FrameStep ==
    ASSUME TypeOK, CallInv, [Next]_vars
    PROVE  TypeOK' /\ CallInv'
<1>1. ASSUME NEW t \in Call, Start(t) \/ CallStep(t) PROVE TypeOK' /\ CallInv'
  BY <1>1, CallStepFrames
<1>2. ASSUME NEW t \in Call, NEW c \in Call, Spawn(t, c) PROVE TypeOK' /\ CallInv'
  BY <1>2, SpawnFrames
<1>3. ASSUME NEW r \in Resetter, ResetStep(r) PROVE TypeOK' /\ CallInv'
  BY <1>3, ResetStepFrames
<1>4. ASSUME NEW p \in Call \cup Resetter, Crash(p) PROVE TypeOK' /\ CallInv'
  BY <1>4, CrashFrames
<1>5. CASE UNCHANGED vars
  <2>1. UNCHANGED <<lock, barrier, runtime, lost, pc, calls, resets>>
    BY <1>5 DEF vars, disk
  <2>2. DiskTypes' /\ Labels' /\ CallTypes' /\ ResetTypes' /\ CallTypes
    BY <2>1, TypeParts DEF DiskTypes, Labels, CallTypes, ResetTypes, calls, resets
  <2> QED  BY <2>1, <2>2, TypePartsNext, FramesStay
<1> QED  BY <1>1, <1>2, <1>3, <1>4, <1>5 DEF Next

LEMMA InitFrames == Init => TypeOK /\ CallInv
<1> SUFFICES ASSUME Init PROVE TypeOK /\ CallInv
  OBVIOUS
<1>1. TypeOK
  BY BarrierAssumption
     DEF Init, TypeOK, CallLabel, ResetLabel, Ended, NoLocks, NoRoot, Locks
<1>2. ASSUME NEW c \in Call
      PROVE  Named(c) /\ Leased(c) /\ Framed(c) /\ Found(c) /\ Counted(c)
  <2>1. \A t \in Call : pc[t] = "idle" /\ lease[t] = None /\ count[t] = 0
                        /\ scope[t] = NoLocks
    BY BarrierAssumption DEF Init
  <2>2. Inheritors(c) = {}
    BY <2>1 DEF Inheritors
  <2> QED  BY <2>1, <2>2, FS_EmptySet DEF Named, Leased, Framed, Found, Counted, NoLocks
<1> QED  BY <1>1, <1>2 DEF CallInv

-----------------------------------------------------------------------------
(***************************************************************************)
(* What every step of a call does to the locks and to the barrier.         *)
(***************************************************************************)
LockEffect(s) ==
    \/ lock'[s] = lock[s]
    \/ lock[s] # None /\ lock'[s] = None /\ pc'[lock[s]] \in {"done", "refused", "dead"}
    \/ lock[s] = None /\ runtime
       /\ \E t \in Call : lock'[s] = t /\ pc[t] = "create" /\ pc'[t] = "publish"

LabelEffect(c) ==
    /\ Past(c) => Past(c)'
    /\ pc[c] # "idle" => pc'[c] # "idle"
    /\ Held(c)' => subj'[c] = subj[c] /\ (Held(c) \/ lock[subj[c]] = c)
    /\ Entered(c)' => Entered(c) \/ barrier = None

CallEffect ==
    /\ UNCHANGED <<lost, resets>>
    /\ \A r \in Resetter : pc'[r] = pc[r]
    /\ barrier' = barrier \/ (BarrierIsStale /\ barrier' = None)
    /\ runtime => runtime'
    /\ \A s \in Subject : LockEffect(s)
    /\ \A c \in Call : LabelEffect(c)

\* A call that holds or has entered lives, and so does its lock's directory.
LEMMA HeldLives ==
    ASSUME TypeOK, CallInv, NEW t \in Call, Held(t)
    PROVE  ~Past(t) /\ ~Gone(t) /\ subj[t] \in Subject /\ t # None
<1>1. pc[t] \in {"second check", "begin", "running", "drain"}
  BY DEF Held, Entered
<1>2. subj[t] \in Subject
  BY <1>1 DEF CallInv, Named
<1>3. ~Gone(t)
  BY <1>1 DEF Gone, Ended
<1> QED  BY <1>1, <1>2, <1>3, BarrierAssumption DEF Past

\* The lock of a process that is gone is of a call that has ended for good.
LEMMA GoneHasPassed ==
    ASSUME TypeOK, OwnersBegun, NEW s \in Subject, lock[s] # None, Gone(lock[s])
    PROVE  Past(lock[s])
<1>1. lock[s] \in Call
  BY DEF TypeOK, Locks
<1>2. pc[lock[s]] \in Ended /\ pc[lock[s]] # "idle"
  BY <1>1 DEF Gone, OwnersBegun, Begun
<1> QED  BY <1>2 DEF Past, Ended

\* The label of a call that does not step.
LEMMA StillLabel ==
    ASSUME NEW c \in Call, pc'[c] = pc[c], subj'[c] = subj[c], lease'[c] = lease[c]
    PROVE  LabelEffect(c)
BY DEF LabelEffect, Past, Held, Entered

LEMMA WalkingLabel ==
    ASSUME TypeOK, NEW t \in Call, Walks(t)
    PROVE  LabelEffect(t)
<1>1. UNCHANGED <<subj, lease>> /\ pc'[t] \in After(pc[t])
  BY WalkEffect DEF calls
<1>2. CASE pc[t] = "publish"
  <2>1. Publish(t)
    BY <1>2 DEF Walks, NestedCheck, FirstCheck, Parent, Create, SecondCheck, Withdraw,
                Drain, Release, CheckBarrier
  <2>2. pc'[t] = "second check" => Owns(t)
    BY <2>1, TypeParts DEF Publish, Go, Labels
  <2> QED  BY <1>1, <1>2, <2>2 DEF LabelEffect, Past, Held, Entered, After, Owns
<1>3. CASE pc[t] = "second check"
  <2>1. SecondCheck(t)
    BY <1>3 DEF Walks, NestedCheck, FirstCheck, Parent, Create, Publish, Withdraw,
                Drain, Release, CheckBarrier
  <2>2. CheckBarrier(t, "second check", "begin", "withdraw")
    BY <2>1 DEF SecondCheck
  <2>3. pc'[t] = "begin" => barrier = None
    BY <1>3, <2>2, TypeParts DEF CheckBarrier, Go, Labels
  <2> QED  BY <1>1, <1>3, <2>3 DEF LabelEffect, Past, Held, Entered, After
<1>4. CASE pc[t] \notin {"publish", "second check"}
  <2>1. pc[t] \in {"nested check", "first check", "parent", "create", "withdraw", "drain", "release"}
    BY <1>4 DEF Walks, NestedCheck, FirstCheck, Parent, Create, Publish, SecondCheck,
                Withdraw, Drain, Release, CheckBarrier
  <2>2. pc'[t] \notin {"idle", "second check", "begin", "running", "drain"}
    BY <1>1, <2>1 DEF After
  <2> QED  BY <1>1, <2>1, <2>2 DEF LabelEffect, Past, Held, Entered
<1> QED  BY <1>2, <1>3, <1>4

LEMMA WalkingLocks ==
    ASSUME TypeOK, CallInv, OwnersBegun, NEW t \in Call, Walks(t)
    PROVE  (runtime => runtime') /\ \A s \in Subject : LockEffect(s)
<1>types. DiskTypes /\ Labels /\ CallTypes
  BY TypeParts
<1>1. CASE UNCHANGED lock /\ (runtime => runtime')
  BY <1>1 DEF LockEffect
<1>2. CASE Create(t)
  <2>1. subj[t] \in Subject
    BY <1>2 DEF Create, CallInv, Named
  <2>2. CASE runtime /\ lock[subj[t]] = None
             /\ lock' = [lock EXCEPT ![subj[t]] = t] /\ Go(t, "publish")
    <3>1. pc[t] = "create" /\ pc'[t] = "publish"
      BY <1>2, <1>types, <2>2, GoEffect DEF Create
    <3>2. lock'[subj[t]] = t /\ \A s \in Subject \ {subj[t]} : lock'[s] = lock[s]
      BY <1>types, <2>1, <2>2 DEF DiskTypes, Locks
    <3> QED  BY <1>2, <2>2, <3>1, <3>2 DEF LockEffect, Create
  <2>3. CASE lock[subj[t]] # None /\ ~Alive(subj[t])
             /\ lock' = [lock EXCEPT ![subj[t]] = None] /\ UNCHANGED pc
    <3>1. Past(lock[subj[t]])
      BY <2>1, <2>3, GoneHasPassed DEF Alive
    <3>2. lock'[subj[t]] = None /\ \A s \in Subject \ {subj[t]} : lock'[s] = lock[s]
      BY <1>types, <2>1, <2>3 DEF DiskTypes, Locks
    <3>3. UNCHANGED runtime
      BY <1>2 DEF Create
    <3> QED  BY <2>3, <3>1, <3>2, <3>3 DEF LockEffect, Past
  <2>4. CASE UNCHANGED lock
    BY <1>1, <1>2, <2>4 DEF Create
  <2> QED  BY <1>2, <2>2, <2>3, <2>4 DEF Create
<1>3. CASE Withdraw(t) \/ Release(t)
  <2>1. subj[t] \in Subject /\ UNCHANGED runtime
    BY <1>3 DEF Withdraw, Release, CallInv, Named
  <2>2. pc'[t] \in {"refused", "done"}
    BY <1>3, <1>types, GoEffect DEF Withdraw, Release
  <2>3. CASE Owns(t)
    <3>1. lock'[subj[t]] = None /\ \A s \in Subject \ {subj[t]} : lock'[s] = lock[s]
      BY <1>3, <1>types, <2>1, <2>3 DEF Withdraw, Release, DiskTypes, Locks
    <3>2. lock[subj[t]] = t /\ t # None
      BY <2>3, BarrierAssumption DEF Owns
    <3> QED  BY <2>1, <2>2, <3>1, <3>2 DEF LockEffect, Past
  <2>4. CASE ~Owns(t)
    BY <1>1, <1>3, <2>1, <2>4 DEF Withdraw, Release
  <2> QED  BY <2>3, <2>4
<1>4. CASE ~Create(t) /\ ~Withdraw(t) /\ ~Release(t)
  <2>1. UNCHANGED lock
    BY <1>4 DEF Walks, NestedCheck, FirstCheck, Parent, Publish, SecondCheck, Drain,
                CheckBarrier, disk
  <2>2. runtime => runtime'
    BY <1>4 DEF Walks, NestedCheck, FirstCheck, Parent, Publish, SecondCheck, Drain,
                CheckBarrier, disk
  <2> QED  BY <1>1, <2>1, <2>2
<1> QED  BY <1>2, <1>3, <1>4

\* Every step but those of a resetter.
LEMMA WalkingCalls ==
    ASSUME TypeOK, CallInv, OwnersBegun, NEW t \in Call, Walks(t)
    PROVE  CallEffect
<1>1. /\ \A c \in Call \ {t} : pc'[c] = pc[c]
      /\ \A r \in Resetter : pc'[r] = pc[r]
      /\ barrier' = barrier \/ (BarrierIsStale /\ barrier' = None)
      /\ UNCHANGED <<lost, calls, resets>>
  BY WalkEffect
<1>2. \A c \in Call : LabelEffect(c)
  BY <1>1, WalkingLabel, StillLabel DEF calls
<1> QED  BY <1>1, <1>2, WalkingLocks DEF CallEffect

\* A step that touches neither locks nor barrier, and lets no call hold or enter anew.
LEMMA CallsOnly ==
    ASSUME UNCHANGED <<disk, lost, resets>>, \A r \in Resetter : pc'[r] = pc[r],
           \A c \in Call : LabelEffect(c)
    PROVE  CallEffect
BY DEF CallEffect, LockEffect, disk

LEMMA CallStepEffect ==
    ASSUME TypeOK, CallInv, OwnersBegun, NEW t \in Call, Start(t) \/ CallStep(t)
    PROVE  CallEffect
<1>types. Labels /\ CallTypes
  BY TypeParts
<1>1. CASE Walks(t)
  BY <1>1, WalkingCalls
<1>2. ASSUME NEW l \in CallLabel, Go(t, l), UNCHANGED <<disk, lost, resets>>, LabelEffect(t),
             \A c \in Call \ {t} : subj'[c] = subj[c] /\ lease'[c] = lease[c]
      PROVE  CallEffect
  <2>1. /\ \A c \in Call \ {t} : pc'[c] = pc[c]
        /\ \A r \in Resetter : pc'[r] = pc[r]
    BY <1>2, <1>types, CallGoes
  <2>2. \A c \in Call : LabelEffect(c)
    BY <1>2, <2>1, StillLabel
  <2> QED  BY <1>2, <2>1, <2>2, CallsOnly
<1>3. CASE Start(t)
  <2>1. Go(t, "enter") /\ "enter" \in CallLabel /\ pc[t] = "idle"
    BY <1>3 DEF Start, CallLabel
  <2>2. pc'[t] = "enter"
    BY <1>types, <2>1, CallGoes
  <2>3. LabelEffect(t)
    BY <2>1, <2>2 DEF LabelEffect, Past, Held, Entered
  <2>4. \A c \in Call \ {t} : subj'[c] = subj[c] /\ lease'[c] = lease[c]
    BY <1>3, <1>types DEF Start, CallTypes
  <2>5. UNCHANGED <<disk, lost, resets>>
    BY <1>3 DEF Start
  <2> QED  BY <1>2, <2>1, <2>3, <2>4, <2>5
<1>4. CASE Enter(t)
  <2>1. PICK l \in {"nested check", "first check"} : Go(t, l)
    BY <1>4 DEF Enter
  <2>2. pc[t] = "enter" /\ pc'[t] = l /\ UNCHANGED <<disk, lost, resets, subj, lease>>
    BY <1>4, <1>types, <2>1, CallGoes DEF Enter, CallLabel
  <2>3. LabelEffect(t)
    BY <2>1, <2>2 DEF LabelEffect, Past, Held, Entered
  <2> QED  BY <1>2, <2>1, <2>2, <2>3 DEF CallLabel
<1>5. CASE Inherit(t)
  <2>0. pc[t] = "inherit" /\ UNCHANGED <<disk, lost, resets, subj>>
    BY <1>5 DEF Inherit
  <2>1. CASE Go(t, "first check") /\ UNCHANGED lease
    <3>1. pc'[t] = "first check" /\ "first check" \in CallLabel
      BY <1>types, <2>1, CallGoes DEF CallLabel
    <3>2. LabelEffect(t)
      BY <2>0, <3>1 DEF LabelEffect, Past, Held, Entered
    <3> QED  BY <1>2, <2>0, <2>1, <3>1, <3>2
  <2>2. CASE Go(t, "running") /\ lease' = [lease EXCEPT ![t] = lease[from[t]]]
    <3>1. pc'[t] = "running" /\ "running" \in CallLabel
      BY <1>types, <2>2, CallGoes DEF CallLabel
    <3>2. lease'[t] = lease[from[t]] /\ \A c \in Call \ {t} : lease'[c] = lease[c]
      BY <1>types, <2>2 DEF CallTypes
    <3>3. from[t] \in Call
      BY <1>types, <2>0 DEF CallInv, Found, CallTypes
    <3>4. lease[from[t]] # t
      BY <2>0, <3>3, NoLease
    <3>5. LabelEffect(t)
      BY <2>0, <3>1, <3>2, <3>4 DEF LabelEffect, Past, Held, Entered
    <3> QED  BY <1>2, <2>0, <2>2, <3>1, <3>2, <3>5
  <2> QED  BY <1>5, <2>1, <2>2 DEF Inherit
<1>6. CASE Begin(t)
  <2>1. PICK l \in {"running", "withdraw"} : Go(t, l)
    BY <1>6 DEF Begin
  <2>2. pc[t] = "begin" /\ pc'[t] = l /\ UNCHANGED <<disk, lost, resets, subj>>
    BY <1>6, <1>types, <2>1, CallGoes DEF Begin, CallLabel
  <2>3. \A c \in Call \ {t} : lease'[c] = lease[c]
    BY <1>6, <1>types DEF Begin, CallTypes
  <2>4. LabelEffect(t)
    BY <2>1, <2>2 DEF LabelEffect, Past, Held, Entered
  <2> QED  BY <1>2, <2>1, <2>2, <2>3, <2>4 DEF CallLabel
<1>7. CASE Settle(t)
  <2>1. PICK l \in {"drain", "done"} : Go(t, l) /\ (l = "drain" => lease[t] = t)
    BY <1>7 DEF Settle
  <2>2. pc[t] = "running" /\ pc'[t] = l /\ UNCHANGED <<disk, lost, resets, subj, lease>>
    BY <1>7, <1>types, <2>1, CallGoes DEF Settle, CallLabel, Ended
  <2>3. LabelEffect(t)
    BY <2>1, <2>2 DEF LabelEffect, Past, Held, Entered
  <2> QED  BY <1>2, <2>1, <2>2, <2>3 DEF CallLabel, Ended
<1> QED  BY <1>1, <1>3, <1>4, <1>5, <1>6, <1>7 DEF CallStep, Walks

LEMMA SpawnEffect ==
    ASSUME TypeOK, NEW t \in Call, NEW c \in Call, Spawn(t, c)
    PROVE  CallEffect
<1>types. Labels /\ CallTypes
  BY TypeParts
<1>1. Go(c, "enter") /\ "enter" \in CallLabel /\ pc[c] = "idle"
      /\ UNCHANGED <<disk, lost, resets, lease>>
  BY DEF Spawn, CallLabel
<1>2. /\ pc'[c] = "enter"
      /\ \A d \in Call \ {c} : pc'[d] = pc[d]
      /\ \A r \in Resetter : pc'[r] = pc[r]
  BY <1>types, <1>1, CallGoes
<1>3. \A d \in Call \ {c} : subj'[d] = subj[d]
  BY <1>types DEF Spawn, CallTypes
<1>4. LabelEffect(c)
  BY <1>1, <1>2 DEF LabelEffect, Past, Held, Entered
<1>5. \A d \in Call : LabelEffect(d)
  BY <1>1, <1>2, <1>3, <1>4, StillLabel
<1> QED  BY <1>1, <1>2, <1>5, CallsOnly

LEMMA CrashEffect ==
    ASSUME TypeOK, NEW p \in Call, Crash(p)
    PROVE  CallEffect
<1>1. UNCHANGED <<disk, subj, lease, resets>> /\ lost' = lost
  BY BarrierAssumption DEF Crash, calls, TypeOK
<1>2. \A r \in Resetter : pc'[r] = pc[r]
  BY BarrierAssumption DEF Crash
<1>3. ASSUME NEW c \in Call PROVE LabelEffect(c)
  <2>1. CASE pc'[c] = pc[c]
    BY <1>1, <2>1, StillLabel
  <2>2. CASE pc'[c] = "dead"
    BY <2>2 DEF LabelEffect, Past, Held, Entered
  <2> QED  BY <2>1, <2>2 DEF Crash
<1> QED  BY <1>1, <1>2, <1>3, CallsOnly

-----------------------------------------------------------------------------
(***************************************************************************)
(* Steps of the calls keep what is between locks and barrier.              *)
(***************************************************************************)
LEMMA BarrierHolds ==
    ASSUME OneBarrier, CallEffect
    PROVE  OneBarrier'
BY DEF OneBarrier, CallEffect, BarrierIsStale

LEMMA RuntimeHolds ==
    ASSUME LocksInRuntime, CallEffect
    PROVE  LocksInRuntime'
BY DEF LocksInRuntime, CallEffect, LockEffect

LEMMA OwnersStay ==
    ASSUME TypeOK, OwnersBegun, CallEffect
    PROVE  OwnersBegun'
<1>types. lock \in Locks /\ \A r \in Resetter : kept[r][2] \in Locks
  BY DEF TypeOK
<1>1. \A c \in Call : pc[c] # "idle" => pc'[c] # "idle"
  BY DEF CallEffect, LabelEffect
<1>2. Begun(lock)'
  <2> SUFFICES ASSUME NEW s \in Subject, lock'[s] # None PROVE pc'[lock'[s]] # "idle"
    BY DEF Begun
  <2>1. LockEffect(s)
    BY DEF CallEffect
  <2>2. CASE lock'[s] = lock[s]
    BY <1>types, <1>1, <2>2 DEF OwnersBegun, Begun, Locks
  <2> QED  BY <2>1, <2>2 DEF LockEffect
<1>3. ASSUME NEW r \in Resetter PROVE Begun(kept[r][2])'
  <2>1. UNCHANGED kept
    BY DEF CallEffect, resets
  <2> QED  BY <1>types, <1>1, <2>1 DEF OwnersBegun, Begun, Locks
<1> QED  BY <1>2, <1>3 DEF OwnersBegun

\* A snapshot keeps what it says, as nobody takes the lock of another call.
LEMMA SnapshotStays ==
    ASSUME CallEffect, NEW locks \in Locks, Stays(locks)
    PROVE  Stays(locks)'
<1> SUFFICES ASSUME NEW s \in Subject, locks[s] # None, lock'[s] # locks[s]
             PROVE  Past(locks[s])'
  BY DEF Stays
<1>1. LockEffect(s) /\ locks[s] \in Call
  BY DEF CallEffect, Locks
<1>2. Past(locks[s]) => Past(locks[s])'
  BY <1>1 DEF CallEffect, LabelEffect
<1>3. CASE lock[s] # locks[s]
  BY <1>2, <1>3 DEF Stays
<1>4. CASE lock[s] = locks[s]
  BY <1>1, <1>4 DEF LockEffect, Past
<1> QED  BY <1>3, <1>4

LEMMA AllPastStays ==
    ASSUME CallEffect, NEW locks \in Locks, AllPast(locks)
    PROVE  AllPast(locks)'
BY DEF AllPast, CallEffect, LabelEffect, Locks

LEMMA SurveyStays ==
    ASSUME TypeOK, CallEffect, NEW r \in Resetter, Surveyed(r)
    PROVE  Surveyed(r)'
<1>types. plan[r][2] \in Locks /\ before[r][2] \in Locks /\ kept[r][2] \in Locks /\ lock \in Locks
  BY DEF TypeOK
<1>same. UNCHANGED <<kind, entries, plan, before, kept>> /\ pc'[r] = pc[r]
  BY DEF CallEffect, resets
<1>p. PICK p \in Locks : p = plan[r][2]
  BY <1>types
<1>b. PICK b \in Locks : b = before[r][2]
  BY <1>types
<1>k. PICK k \in Locks : k = kept[r][2]
  BY <1>types
<1>next. plan'[r][2] = p /\ before'[r][2] = b /\ kept'[r][2] = k
  BY <1>same, <1>p, <1>b, <1>k
<1>1. pc[r] \in {"prepare", "relist", "rescan"} => Stays(p)'
  BY <1>p, SnapshotStays DEF Surveyed
<1>2. pc[r] \in {"relist", "rescan"} => Stays(b)'
  BY <1>b, SnapshotStays DEF Surveyed
<1>3. ASSUME pc[r] = "rescan", NEW s \in Subject \ entries[r], lock'[s] # None, lock'[s] = p[s]
      PROVE  Past(lock[s])'
  <2>1. LockEffect(s)
    BY DEF CallEffect
  <2>2. CASE lock'[s] = lock[s]
    <3>1. Past(lock[s]) /\ lock[s] \in Call
      BY <1>types, <1>p, <1>3, <2>2 DEF Surveyed, Locks
    <3> QED  BY <2>2, <3>1 DEF CallEffect, LabelEffect, Past
  <2>3. CASE lock[s] # lock'[s]
    <3>1. PICK t \in Call : lock[s] = None /\ lock'[s] = t /\ pc[t] = "create"
      BY <1>3, <2>1, <2>3 DEF LockEffect
    <3>2. Past(t)
      BY <1>3, <1>p, <3>1 DEF Surveyed, Stays
    <3> QED  BY <3>1, <3>2 DEF Past
  <2> QED  BY <2>2, <2>3
<1>4. pc[r] \in {"verify", "move"} \/ (pc[r] = "work" /\ kind[r] = "reset") => AllPast(b)'
  BY <1>b, AllPastStays DEF Surveyed
<1>5. pc[r] = "recheck" => AllPast(k)'
  BY <1>k, AllPastStays DEF Surveyed
<1>6. Stays(p)' => Stays(plan[r][2])'
  BY <1>next DEF Stays
<1>7. Stays(b)' => Stays(before[r][2])'
  BY <1>next DEF Stays
<1>8. AllPast(b)' => AllPast(before[r][2])'
  BY <1>next DEF AllPast
<1>9. AllPast(k)' => AllPast(kept[r][2])'
  BY <1>next DEF AllPast
<1>10. (pc[r] = "rescan" => \A s \in Subject \ entries[r] :
          lock[s] # None /\ lock[s] = plan[r][2][s] => Past(lock[s]))'
  BY <1>same, <1>next, <1>3
<1> QED  BY <1>same, <1>1, <1>2, <1>4, <1>5, <1>6, <1>7, <1>8, <1>9, <1>10 DEF Surveyed

LEMMA CoverStays ==
    ASSUME TypeOK, CallInv, TypeOK', CallInv', CallEffect, NEW t \in Call, Covered(t)
    PROVE  Covered(t)'
<1> SUFFICES ASSUME ~lost', Held(t)'
             PROVE  lock'[subj'[t]] = t \/ \E r \in Resetter : Moved(r, t)'
  BY DEF Covered
<1>1. ~lost /\ subj'[t] = subj[t] /\ (Held(t) \/ lock[subj[t]] = t)
  BY DEF CallEffect, LabelEffect
<1>2. ~Past(t)' /\ subj[t] \in Subject /\ t # None
  <2>1. pc'[t] \in {"second check", "begin", "running", "drain"}
    BY DEF Held, Entered
  <2>2. Named(t)'
    BY DEF CallInv
  <2> QED  BY <1>1, <2>1, <2>2, BarrierAssumption DEF Past, Named
<1>3. CASE lock[subj[t]] = t
  <2>1. LockEffect(subj[t])
    BY <1>2 DEF CallEffect
  <2> QED  BY <1>1, <1>2, <1>3, <2>1 DEF LockEffect, Past
<1>4. CASE \E r \in Resetter : Moved(r, t)
  <2>1. PICK r \in Resetter : Moved(r, t)
    BY <1>4
  <2>2. Moved(r, t)'
    BY <1>1, <2>1 DEF Moved, CallEffect, resets
  <2> QED  BY <2>2
<1> QED  BY <1>1, <1>3, <1>4 DEF Covered

LEMMA SightStays ==
    ASSUME TypeOK, OneBarrier, CallEffect, NEW t \in Call, Seen(t)
    PROVE  Seen(t)'
<1> SUFFICES ASSUME ~lost', Entered(t)', NEW r \in Resetter
             PROVE  /\ pc'[r] \in Ended \cup {"list", "scan", "lower"}
                    /\ pc'[r] = "scan" => subj'[t] \in entries'[r]
  BY DEF Seen
<1>1. /\ ~lost /\ pc'[r] = pc[r] /\ entries' = entries
      /\ Entered(t) \/ barrier = None
      /\ subj'[t] = subj[t]
  BY DEF CallEffect, LabelEffect, resets, Held
<1>2. CASE Entered(t)
  BY <1>1, <1>2 DEF Seen
<1>3. CASE barrier = None
  <2>1. pc[r] \in Ended
    BY <1>3, BarrierAssumption DEF OneBarrier
  <2> QED  BY <1>1, <2>1 DEF Ended
<1> QED  BY <1>1, <1>2, <1>3

LEMMA CallsKeepBarrier ==
    ASSUME TypeOK, CallInv, ResetInv, TypeOK', CallInv', CallEffect
    PROVE  ResetInv'
<1>1. OneBarrier' /\ LocksInRuntime' /\ OwnersBegun'
  BY BarrierHolds, RuntimeHolds, OwnersStay DEF ResetInv
<1>2. ASSUME NEW r \in Resetter PROVE Surveyed(r)'
  BY SurveyStays DEF ResetInv
<1>3. ASSUME NEW t \in Call PROVE Covered(t)' /\ Seen(t)'
  BY CoverStays, SightStays DEF ResetInv
<1> QED  BY <1>1, <1>2, <1>3 DEF ResetInv

-----------------------------------------------------------------------------
(***************************************************************************)
(* Steps of the resetters. At most one of them is at work.                 *)
(***************************************************************************)
LEMMA OthersRest ==
    ASSUME OneBarrier, NEW r \in Resetter, pc[r] \notin Ended
    PROVE  barrier = r /\ \A q \in Resetter \ {r} : pc[q] \in Ended
BY DEF OneBarrier

LEMMA RestingIsSurveyed ==
    ASSUME NEW q \in Resetter, pc[q] \in Ended
    PROVE  Surveyed(q)
BY DEF Surveyed, Ended

\* The lock of a call that holds it is there unless it has been moved away.
LEMMA LockIsThere ==
    ASSUME ResetInv, NEW r \in Resetter, pc[r] \notin Ended, pc[r] \notin {"recheck", "undo"},
           NEW t \in Call, ~lost, Held(t)
    PROVE  lock[subj[t]] = t
<1>1. \A q \in Resetter \ {r} : pc[q] \in Ended
  BY OthersRest DEF ResetInv
<1>2. \A q \in Resetter : ~Moved(q, t)
  BY <1>1 DEF Moved, Ended
<1> QED  BY <1>2 DEF ResetInv, Covered

LEMMA OwnersHold ==
    ASSUME TypeOK, OwnersBegun, UNCHANGED <<lock, kept>>, \A c \in Call : pc'[c] = pc[c]
    PROVE  OwnersBegun'
<1>1. Begun(lock)'
  BY DEF OwnersBegun, Begun, TypeOK, Locks
<1>2. ASSUME NEW q \in Resetter PROVE Begun(kept[q][2])'
  <2>1. kept[q][2] \in Locks /\ Begun(kept[q][2])
    BY DEF TypeOK, OwnersBegun
  <2> QED  BY <2>1 DEF Begun, Locks
<1> QED  BY <1>1, <1>2 DEF OwnersBegun

\* What is left to show of a step of the resetter that holds the barrier.
LEMMA HolderSteps ==
    ASSUME TypeOK, ResetInv, NEW r \in Resetter, pc[r] \notin Ended,
           UNCHANGED calls, \A c \in Call : pc'[c] = pc[c],
           \A q \in Resetter \ {r} : pc'[q] = pc[q],
           barrier' = barrier \/ pc'[r] \in Ended,
           LocksInRuntime', OwnersBegun', Surveyed(r)',
           lost => lost',
           \A t \in Call : ~lost' /\ Held(t) =>
               (lock'[subj[t]] = t \/ Moved(r, t)'),
           \A t \in Call : ~lost' /\ Entered(t) =>
               /\ pc'[r] \in Ended \cup {"list", "scan", "lower"}
               /\ pc'[r] = "scan" => subj[t] \in entries'[r]
    PROVE  ResetInv'
<1>1. barrier = r /\ \A q \in Resetter \ {r} : pc[q] \in Ended
  BY OthersRest DEF ResetInv
<1>2. \A q \in Resetter \ {r} : pc'[q] \in Ended
  BY <1>1
<1>3. OneBarrier'
  BY <1>1, <1>2 DEF OneBarrier, Ended
<1>4. ASSUME NEW q \in Resetter PROVE Surveyed(q)'
  BY <1>2 DEF Surveyed, Ended
<1>5. ASSUME NEW t \in Call PROVE Covered(t)' /\ Seen(t)'
  <2>1. /\ Held(t)' <=> Held(t)
        /\ Entered(t)' <=> Entered(t)
        /\ subj'[t] = subj[t]
    BY DEF Held, Entered, calls
  <2>2. Covered(t)'
    BY <2>1 DEF Covered
  <2>3. Seen(t)'
    BY <1>2, <2>1 DEF Seen, Ended
  <2> QED  BY <2>2, <2>3
<1> QED  BY <1>3, <1>4, <1>5 DEF ResetInv

\* Of a step that leaves the disk alone.
LEMMA HolderLooks ==
    ASSUME TypeOK, ResetInv, NEW r \in Resetter,
           pc[r] \notin Ended, pc[r] \notin {"recheck", "undo"},
           UNCHANGED <<disk, lost, calls, kept>>, \A c \in Call : pc'[c] = pc[c],
           \A q \in Resetter \ {r} : pc'[q] = pc[q],
           Surveyed(r)',
           \A t \in Call : ~lost /\ Entered(t) =>
               /\ pc'[r] \in Ended \cup {"list", "scan", "lower"}
               /\ pc'[r] = "scan" => subj[t] \in entries'[r]
    PROVE  ResetInv'
<1>0. OneBarrier /\ LocksInRuntime /\ OwnersBegun
  BY DEF ResetInv
<1>1. LocksInRuntime'
  BY <1>0 DEF LocksInRuntime, disk
<1>2. OwnersBegun'
  BY <1>0, OwnersHold DEF disk
<1>3. \A t \in Call : ~lost' /\ Held(t) => lock'[subj[t]] = t
  BY LockIsThere DEF disk
<1> QED  BY <1>1, <1>2, <1>3, HolderSteps DEF disk

\* No call has entered when a reset is past its first scan.
LEMMA NoneEntered ==
    ASSUME ResetInv, NEW r \in Resetter, pc[r] \notin Ended \cup {"list", "scan", "lower"},
           NEW t \in Call, ~lost
    PROVE  ~Entered(t)
BY DEF ResetInv, Seen

LEMMA RaiseBarrier ==
    ASSUME TypeOK, ResetInv, NEW r \in Resetter, Raise(r)
    PROVE  ResetInv'
<1>types. Labels /\ DiskTypes /\ ResetTypes
  BY TypeParts
<1>same. /\ pc[r] = "idle" /\ UNCHANGED <<lock, runtime, lost, calls, kept>>
         /\ UNCHANGED <<entries, plan, before>>
  BY DEF Raise
<1>1. PICK l \in {"idle", "list", "refused"} :
        /\ pc'[r] = l
        /\ \A c \in Call : pc'[c] = pc[c]
        /\ \A q \in Resetter \ {r} : pc'[q] = pc[q]
        /\ \/ l = "list" /\ barrier = None /\ barrier' = r
           \/ l # "list" /\ barrier' = barrier
           \/ l = "idle" /\ BarrierIsStale /\ barrier' = None
  <2>1. CASE barrier = None /\ barrier' = r /\ Go(r, "list")
    BY <1>types, <2>1, ResetGoes DEF ResetLabel
  <2>2. CASE BarrierIsStale /\ barrier' = None /\ UNCHANGED pc
    BY <1>same, <2>2
  <2>3. CASE Go(r, "refused") /\ UNCHANGED barrier
    BY <1>types, <2>3, ResetGoes DEF ResetLabel, Ended
  <2> QED  BY <2>1, <2>2, <2>3 DEF Raise
<1>2. OneBarrier'
  BY <1>1, BarrierAssumption DEF ResetInv, OneBarrier, BarrierIsStale, Ended
<1>3. LocksInRuntime'
  BY <1>same DEF ResetInv, LocksInRuntime
<1>4. OwnersBegun'
  BY <1>same, <1>1, OwnersHold DEF ResetInv
<1>5. ASSUME NEW q \in Resetter PROVE Surveyed(q)'
  <2>1. CASE q = r
    BY <1>1, <2>1 DEF Surveyed
  <2>2. CASE q # r /\ pc[q] \in Ended
    BY <1>1, <2>2 DEF Surveyed, Ended
  <2>3. CASE q # r /\ pc[q] \notin Ended
    <3>1. /\ barrier = q /\ ~BarrierIsStale /\ q # None
      BY <2>3, BarrierAssumption DEF ResetInv, OneBarrier, BarrierIsStale
    <3>2. UNCHANGED kind
      BY <3>1 DEF Raise
    <3>3. Surveyed(q) /\ pc'[q] = pc[q]
      BY <1>1, <2>3 DEF ResetInv
    <3>4. \A t \in Call : Past(t)' <=> Past(t)
      BY <1>1 DEF Past
    <3>5. lock \in Locks /\ plan[q][2] \in Locks /\ before[q][2] \in Locks /\ kept[q][2] \in Locks
      BY <1>types DEF DiskTypes, ResetTypes
    <3>6. /\ Stays(plan[q][2])' <=> Stays(plan[q][2])
          /\ Stays(before[q][2])' <=> Stays(before[q][2])
      BY <1>same, <1>1, <3>5 DEF Stays, Past, Locks
    <3>7. /\ AllPast(before[q][2])' <=> AllPast(before[q][2])
          /\ AllPast(kept[q][2])' <=> AllPast(kept[q][2])
      BY <1>same, <1>1, <3>5 DEF AllPast, Past, Locks
    <3>8. \A s \in Subject : lock[s] # None => (Past(lock[s])' <=> Past(lock[s]))
      BY <1>same, <1>1, <3>5 DEF Past, Locks
    <3> QED  BY <1>same, <3>2, <3>3, <3>6, <3>7, <3>8 DEF Surveyed
  <2> QED  BY <2>1, <2>2, <2>3
<1>6. ASSUME NEW t \in Call PROVE Covered(t)' /\ Seen(t)'
  <2>1. /\ Held(t)' <=> Held(t)
        /\ Entered(t)' <=> Entered(t)
        /\ subj'[t] = subj[t]
    BY <1>same, <1>1 DEF Held, Entered, calls
  <2>2. \A q \in Resetter : Moved(q, t) => Moved(q, t)'
    BY <1>same, <1>1, <2>1 DEF Moved
  <2>3. Covered(t)'
    BY <1>same, <2>1, <2>2 DEF ResetInv, Covered
  <2>4. Seen(t)'
    BY <1>same, <1>1, <2>1 DEF ResetInv, Seen, Ended
  <2> QED  BY <2>3, <2>4
<1> QED  BY <1>2, <1>3, <1>4, <1>5, <1>6 DEF ResetInv

\* The three snapshots, and what survives a step that leaves the disk alone.
LEMMA SnapshotHolds ==
    ASSUME TypeOK, UNCHANGED lock, \A c \in Call : pc'[c] = pc[c], NEW locks \in Locks
    PROVE  /\ Stays(locks)' <=> Stays(locks)
           /\ AllPast(locks)' <=> AllPast(locks)
BY DEF Stays, AllPast, Past, Locks

LEMMA ListLooks ==
    ASSUME TypeOK, CallInv, ResetInv, NEW r \in Resetter, List(r)
    PROVE  ResetInv'
<1>types. Labels /\ DiskTypes /\ ResetTypes
  BY TypeParts
<1>same. UNCHANGED <<disk, lost, calls, kind, plan, before, kept>> /\ UNCHANGED lock
  BY DEF List, disk
<1>1. entries'[r] = {s \in Subject : lock[s] # None}
  BY <1>types DEF List, ResetTypes
<1>2. PICK l \in {"scan", "rescan"} : Go(r, l) /\ pc[r] = IF l = "scan" THEN "list" ELSE "relist"
  BY DEF List
<1>3. /\ pc'[r] = l
      /\ \A c \in Call : pc'[c] = pc[c]
      /\ \A q \in Resetter \ {r} : pc'[q] = pc[q]
  BY <1>types, <1>2, ResetGoes DEF ResetLabel
<1>4. pc[r] \notin Ended /\ pc[r] \notin {"recheck", "undo"}
  BY <1>2 DEF Ended
<1>5. Surveyed(r)'
  <2>1. CASE l = "scan"
    BY <1>3, <2>1 DEF Surveyed
  <2>2. CASE l = "rescan"
    <3>p. PICK p \in Locks : p = plan[r][2]
      BY <1>types DEF ResetTypes
    <3>b. PICK b \in Locks : b = before[r][2]
      BY <1>types DEF ResetTypes
    <3>1. Stays(p) /\ Stays(b)
      BY <1>2, <2>2, <3>p, <3>b DEF ResetInv, Surveyed
    <3>2. Stays(p)' /\ Stays(b)'
      BY <1>same, <1>3, <3>1, SnapshotHolds
    <3>3. Stays(plan[r][2])' /\ Stays(before[r][2])'
      BY <1>same, <3>p, <3>b, <3>2 DEF Stays
    <3> QED  BY <1>same, <1>1, <1>3, <2>2, <3>3 DEF Surveyed
  <2> QED  BY <2>1, <2>2
<1>6. ASSUME NEW t \in Call, ~lost, Entered(t)
      PROVE  /\ pc'[r] \in Ended \cup {"list", "scan", "lower"}
             /\ pc'[r] = "scan" => subj[t] \in entries'[r]
  <2>1. pc[r] \in Ended \cup {"list", "scan", "lower"}
    BY <1>6, NoneEntered, <1>4
  <2>2. l = "scan"
    BY <1>2, <2>1 DEF Ended
  <2>3. lock[subj[t]] = t
    BY <1>4, <1>6, LockIsThere DEF Held
  <2>4. subj[t] \in Subject /\ t # None
    BY <1>6, HeldLives DEF Held
  <2> QED  BY <1>1, <1>3, <2>2, <2>3, <2>4
<1> QED  BY <1>same, <1>3, <1>4, <1>5, <1>6, HolderLooks

LEMMA InspectLooks ==
    ASSUME TypeOK, CallInv, ResetInv, NEW r \in Resetter, Inspect(r)
    PROVE  ResetInv'
<1>types. Labels /\ DiskTypes /\ ResetTypes
  BY TypeParts
<1>same. /\ UNCHANGED <<disk, lost, calls, kind, plan, before, kept>> /\ UNCHANGED lock
         /\ pc[r] \in {"scan", "rescan"}
  BY DEF Inspect, disk
<1>4. pc[r] \notin Ended /\ pc[r] \notin {"recheck", "undo"}
  BY <1>same DEF Ended
<1>1. CASE Go(r, "lower")
  <2>1. /\ pc'[r] = "lower"
        /\ \A c \in Call : pc'[c] = pc[c]
        /\ \A q \in Resetter \ {r} : pc'[q] = pc[q]
    BY <1>types, <1>1, ResetGoes DEF ResetLabel
  <2>2. Surveyed(r)'
    BY <2>1 DEF Surveyed
  <2> QED  BY <1>same, <1>4, <2>1, <2>2, HolderLooks
<1>2. ASSUME NEW s \in entries[r], ~Alive(s), entries' = [entries EXCEPT ![r] = @ \ {s}],
             UNCHANGED pc
      PROVE  ResetInv'
  <2>0. entries'[r] = entries[r] \ {s} /\ s \in Subject
    BY <1>types, <1>2 DEF ResetTypes
  <2>1. Surveyed(r)'
    <3>1. CASE pc[r] = "scan"
      BY <1>2, <3>1 DEF Surveyed
    <3>2. CASE pc[r] = "rescan"
      <4>p. PICK p \in Locks : p = plan[r][2]
        BY <1>types DEF ResetTypes
      <4>b. PICK b \in Locks : b = before[r][2]
        BY <1>types DEF ResetTypes
      <4>1. Stays(p) /\ Stays(b)
        BY <3>2, <4>p, <4>b DEF ResetInv, Surveyed
      <4>2. Stays(p)' /\ Stays(b)'
        BY <1>same, <1>2, <4>1, SnapshotHolds
      <4>3. Stays(plan[r][2])' /\ Stays(before[r][2])'
        BY <1>same, <4>p, <4>b, <4>2 DEF Stays
      <4>4. ASSUME NEW u \in Subject \ entries'[r], lock[u] # None, lock[u] = plan[r][2][u]
            PROVE  Past(lock[u])
        <5>1. CASE u = s
          <6>1. Gone(lock[s])
            BY <1>2, <4>4, <5>1 DEF Alive
          <6> QED  BY <2>0, <4>4, <5>1, <6>1, GoneHasPassed DEF ResetInv
        <5>2. CASE u # s
          BY <2>0, <3>2, <4>4, <5>2 DEF ResetInv, Surveyed
        <5> QED  BY <5>1, <5>2
      <4>5. \A u \in Subject \ entries'[r] :
               lock'[u] # None /\ lock'[u] = plan'[r][2][u] => pc'[lock'[u]] \in {"done", "refused", "dead"}
        BY <1>same, <1>2, <4>4 DEF Past
      <4> QED  BY <1>same, <1>2, <3>2, <4>3, <4>5 DEF Surveyed, Past
    <3> QED  BY <1>same, <3>1, <3>2
  <2>2. ASSUME NEW t \in Call, ~lost, Entered(t)
        PROVE  /\ pc'[r] \in Ended \cup {"list", "scan", "lower"}
               /\ pc'[r] = "scan" => subj[t] \in entries'[r]
    <3>1. pc[r] = "scan" /\ subj[t] \in entries[r]
      BY <1>same, <2>2 DEF ResetInv, Seen, Ended
    <3>2. lock[subj[t]] = t
      BY <1>4, <2>2, LockIsThere DEF Held
    <3>3. Alive(subj[t])
      BY <2>2, <3>2, HeldLives DEF Held, Alive
    <3> QED  BY <1>2, <2>0, <3>1, <3>3
  <2>3. (\A c \in Call : pc'[c] = pc[c]) /\ \A q \in Resetter \ {r} : pc'[q] = pc[q]
    BY <1>2
  <2> QED  BY <1>same, <1>4, <2>1, <2>2, <2>3, HolderLooks
<1> QED  BY <1>1, <1>2 DEF Inspect

\* The first scan is over: a rebuild works now, a reset plans.
LEMMA ScanEnds ==
    ASSUME TypeOK, ResetInv, NEW r \in Resetter, Scanned(r)
    PROVE  ResetInv'
<1>types. Labels /\ DiskTypes /\ ResetTypes
  BY TypeParts
<1>same. /\ UNCHANGED <<disk, lost, calls, kind, entries, before, kept>> /\ UNCHANGED lock
         /\ pc[r] = "scan" /\ entries[r] = {}
  BY DEF Scanned, disk
<1>1. plan'[r] = <<runtime, lock>>
  BY <1>types DEF Scanned, ResetTypes, Root
<1>2. PICK l \in {"work", "prepare", "lower"} : Go(r, l) /\ (l = "work" => kind[r] = "rebuild")
  BY DEF Scanned
<1>3. /\ pc'[r] = l
      /\ \A c \in Call : pc'[c] = pc[c]
      /\ \A q \in Resetter \ {r} : pc'[q] = pc[q]
  BY <1>types, <1>2, ResetGoes DEF ResetLabel, Working
<1>4. pc[r] \notin Ended /\ pc[r] \notin {"recheck", "undo"}
  BY <1>same DEF Ended
<1>5. Surveyed(r)'
  BY <1>same, <1>1, <1>2, <1>3 DEF Surveyed, Stays
<1>6. \A t \in Call : ~(~lost /\ Entered(t))
  BY <1>same DEF ResetInv, Seen
<1> QED  BY <1>same, <1>3, <1>4, <1>5, <1>6, HolderLooks

\* A step past the first scan that only looks at the disk.
LEMMA LateLooks ==
    ASSUME TypeOK, ResetInv, NEW r \in Resetter, NEW l \in ResetLabel, Go(r, l),
           pc[r] \notin Ended \cup {"list", "scan", "lower", "recheck", "undo"},
           UNCHANGED <<disk, lost, calls, kept>>, Surveyed(r)'
    PROVE  ResetInv'
<1>1. /\ \A c \in Call : pc'[c] = pc[c]
      /\ \A q \in Resetter \ {r} : pc'[q] = pc[q]
  BY TypeParts, ResetGoes
<1>2. \A t \in Call : ~(~lost /\ Entered(t))
  BY NoneEntered
<1> QED  BY <1>1, <1>2, HolderLooks

LEMMA PrepareLooks ==
    ASSUME TypeOK, ResetInv, NEW r \in Resetter, Prepare(r)
    PROVE  ResetInv'
<1>types. Labels /\ DiskTypes /\ ResetTypes
  BY TypeParts
<1>same. /\ UNCHANGED <<disk, lost, calls, kind, entries, plan, kept>> /\ UNCHANGED lock
         /\ pc[r] = "prepare" /\ Go(r, "relist") /\ "relist" \in ResetLabel
  BY DEF Prepare, disk, ResetLabel
<1>1. before'[r] = <<runtime, lock>>
  BY <1>types DEF Prepare, ResetTypes, Root
<1>2. pc'[r] = "relist" /\ \A c \in Call : pc'[c] = pc[c]
  BY <1>types, <1>same, ResetGoes
<1>p. PICK p \in Locks : p = plan[r][2]
  BY <1>types DEF ResetTypes
<1>3. Stays(p)'
  BY <1>same, <1>2, <1>p, SnapshotHolds DEF ResetInv, Surveyed
<1>4. Stays(plan[r][2])'
  BY <1>same, <1>p, <1>3 DEF Stays
<1>5. Stays(before[r][2])'
  BY <1>same, <1>1 DEF Stays
<1>6. Surveyed(r)'
  BY <1>2, <1>4, <1>5 DEF Surveyed
<1> QED  BY <1>same, <1>6, LateLooks DEF Ended

\* No lock that was there is of a live call, as the second scan has seen each of
\* them, and the locks were the same before, then and now.
LEMMA RescanEnds ==
    ASSUME TypeOK, ResetInv, NEW r \in Resetter, Rescanned(r)
    PROVE  ResetInv'
<1>types. Labels /\ DiskTypes /\ ResetTypes
  BY TypeParts
<1>same. /\ UNCHANGED <<disk, lost, calls, kind, entries, plan, before, kept>>
         /\ pc[r] = "rescan" /\ entries[r] = {}
  BY DEF Rescanned, resets
<1>1. PICK l \in {"work", "lower"} : Go(r, l) /\ (l = "work" => Root = plan[r])
  BY DEF Rescanned
<1>2. l \in ResetLabel
  BY DEF ResetLabel, Working
<1>3. pc'[r] = l /\ \A c \in Call : pc'[c] = pc[c]
  BY <1>types, <1>1, <1>2, ResetGoes
<1>4. l = "work" => \A s \in Subject : before[r][2][s] # None => Past(before[r][2][s])
  <2> SUFFICES ASSUME l = "work", NEW s \in Subject, before[r][2][s] # None
               PROVE  Past(before[r][2][s])
    OBVIOUS
  <2>1. plan[r][2] = lock
    BY <1>1 DEF Root
  <2>2. CASE lock[s] = before[r][2][s]
    BY <1>same, <2>1, <2>2 DEF ResetInv, Surveyed
  <2>3. CASE lock[s] # before[r][2][s]
    BY <1>same, <2>3 DEF ResetInv, Surveyed, Stays
  <2> QED  BY <2>2, <2>3
<1>5. Surveyed(r)'
  <2>1. CASE l = "lower"
    BY <1>3, <2>1 DEF Surveyed
  <2>2. CASE l = "work"
    <3>b. PICK b \in Locks : b = before[r][2]
      BY <1>types DEF ResetTypes
    <3>1. AllPast(b)
      BY <1>4, <2>2, <3>b DEF AllPast
    <3>2. AllPast(b)'
      BY <1>same, <1>3, <3>1, SnapshotHolds DEF disk
    <3>3. AllPast(before[r][2])'
      BY <1>same, <3>b, <3>2 DEF AllPast
    <3> QED  BY <1>3, <2>2, <3>3 DEF Surveyed
  <2> QED  BY <2>1, <2>2
<1> QED  BY <1>same, <1>1, <1>2, <1>5, LateLooks DEF Ended

LEMMA WorkLooks ==
    ASSUME TypeOK, ResetInv, NEW r \in Resetter, Work(r) \/ Verify(r)
    PROVE  ResetInv'
<1>types. Labels /\ DiskTypes /\ ResetTypes
  BY TypeParts
<1>same. /\ UNCHANGED <<disk, lost, calls, kind, entries, plan, before, kept>>
         /\ pc[r] \in {"work", "verify"}
  BY DEF Work, Verify, resets
<1>1. PICK l \in {"lower", "verify", "move", "undo"} :
        /\ Go(r, l)
        /\ l = "verify" => pc[r] = "work" /\ kind[r] = "reset"
        /\ l = "move" => pc[r] = "verify"
  BY <1>types DEF Work, Verify, ResetTypes
<1>2. l \in ResetLabel
  BY DEF ResetLabel, Working
<1>3. pc'[r] = l /\ \A c \in Call : pc'[c] = pc[c]
  BY <1>types, <1>1, <1>2, ResetGoes
<1>b. PICK b \in Locks : b = before[r][2]
  BY <1>types DEF ResetTypes
<1>4. l \in {"verify", "move"} => AllPast(b)
  BY <1>1, <1>b DEF ResetInv, Surveyed
<1>5. l \in {"verify", "move"} => AllPast(b)'
  BY <1>same, <1>3, <1>4, SnapshotHolds DEF disk
<1>6. l \in {"verify", "move"} => AllPast(before[r][2])'
  BY <1>same, <1>b, <1>5 DEF AllPast
<1>7. Surveyed(r)'
  BY <1>3, <1>6 DEF Surveyed
<1> QED  BY <1>same, <1>1, <1>2, <1>7, LateLooks DEF Ended

\* The runtime is moved: with no lock of a live call in it, if nothing has
\* changed since it was looked at, and to be put back otherwise.
LEMMA MoveKeeps ==
    ASSUME TypeOK, CallInv, ResetInv, NEW r \in Resetter, Move(r)
    PROVE  ResetInv'
<1>types. Labels /\ DiskTypes /\ ResetTypes
  BY TypeParts
<1>same. /\ pc[r] = "move" /\ UNCHANGED <<barrier, lost, calls, kind, entries, plan, before>>
         /\ runtime' = FALSE /\ lock' = NoLocks
  BY DEF Move
<1>1. /\ kept'[r] = <<runtime, lock>>
      /\ \A q \in Resetter \ {r} : kept'[q] = kept[q]
  BY <1>types DEF Move, ResetTypes, Root
<1>2. PICK l \in {"recheck", "undo"} : Go(r, l) /\ (l = "recheck" => Root = before[r])
  BY DEF Move
<1>3. /\ pc'[r] = l
      /\ \A c \in Call : pc'[c] = pc[c]
      /\ \A q \in Resetter \ {r} : pc'[q] = pc[q]
  BY <1>types, <1>2, ResetGoes DEF ResetLabel, Working
<1>4. LocksInRuntime'
  BY <1>same DEF LocksInRuntime, NoLocks
<1>5. OwnersBegun'
  <2>1. Begun(lock)'
    BY <1>same DEF Begun, NoLocks
  <2>2. ASSUME NEW q \in Resetter PROVE Begun(kept[q][2])'
    <3>1. CASE q = r
      BY <1>types, <1>1, <1>3, <3>1 DEF ResetInv, OwnersBegun, Begun, DiskTypes, Locks
    <3>2. CASE q # r
      <4>1. kept[q][2] \in Locks /\ Begun(kept[q][2])
        BY <1>types DEF ResetTypes, ResetInv, OwnersBegun
      <4> QED  BY <1>1, <1>3, <3>2, <4>1 DEF Begun, Locks
    <3> QED  BY <3>1, <3>2
  <2> QED  BY <2>1, <2>2 DEF OwnersBegun
<1>6. Surveyed(r)'
  <2>1. CASE l = "undo"
    BY <1>3, <2>1 DEF Surveyed
  <2>2. CASE l = "recheck"
    <3>1. before[r][2] = lock /\ AllPast(before[r][2])
      BY <1>same, <1>2, <2>2 DEF Root, ResetInv, Surveyed
    <3>2. AllPast(kept[r][2])'
      BY <1>types, <1>1, <1>3, <3>1 DEF AllPast, Past, DiskTypes, Locks
    <3> QED  BY <1>3, <2>2, <3>2 DEF Surveyed
  <2> QED  BY <2>1, <2>2
<1>7. ASSUME NEW t \in Call, ~lost, Held(t) PROVE Moved(r, t)'
  <2>1. subj[t] \in Subject /\ t # None /\ lock[subj[t]] = t
    BY <1>same, <1>7, HeldLives, LockIsThere DEF Ended
  <2>2. runtime
    BY <2>1 DEF ResetInv, LocksInRuntime
  <2>3. kept'[r][1] /\ kept'[r][2][subj'[t]] = t
    BY <1>same, <1>1, <2>1, <2>2 DEF calls
  <2> QED  BY <1>3, <2>3 DEF Moved
<1>8. \A t \in Call : ~(~lost /\ Entered(t))
  BY <1>same, NoneEntered DEF Ended
<1> QED  BY <1>same, <1>3, <1>4, <1>5, <1>6, <1>7, <1>8, HolderSteps DEF Ended

\* A runtime that was not made again stays moved: no live call's lock is in it.
LEMMA RecheckKeeps ==
    ASSUME TypeOK, CallInv, ResetInv, NEW r \in Resetter, Recheck(r)
    PROVE  ResetInv'
<1>types. Labels /\ DiskTypes /\ ResetTypes
  BY TypeParts
<1>same. pc[r] = "recheck" /\ UNCHANGED <<lock, barrier, runtime, lost, calls, kind, entries, plan, before>>
  BY DEF Recheck, disk
<1>0. LocksInRuntime'
  BY <1>same DEF ResetInv, LocksInRuntime
<1>none. \A t \in Call : ~(~lost /\ Entered(t))
  BY <1>same, NoneEntered DEF Ended
<1>1. CASE runtime /\ Go(r, "undo") /\ UNCHANGED kept
  <2>1. /\ pc'[r] = "undo"
        /\ \A c \in Call : pc'[c] = pc[c]
        /\ \A q \in Resetter \ {r} : pc'[q] = pc[q]
    BY <1>types, <1>1, ResetGoes DEF ResetLabel, Working
  <2>2. OwnersBegun' /\ Surveyed(r)'
    BY <1>1, <1>same, <2>1, OwnersHold DEF ResetInv, Surveyed
  <2>3. ASSUME NEW t \in Call, ~lost, Held(t) PROVE lock'[subj[t]] = t \/ Moved(r, t)'
    <3>1. lock[subj[t]] = t \/ \E q \in Resetter : Moved(q, t)
      BY <2>3 DEF ResetInv, Covered
    <3>2. \A q \in Resetter \ {r} : ~Moved(q, t)
      BY <1>same, OthersRest DEF ResetInv, Moved, Ended
    <3>3. Moved(r, t) => Moved(r, t)'
      BY <1>1, <1>same, <2>1 DEF Moved, calls
    <3> QED  BY <1>same, <3>1, <3>2, <3>3
  <2> QED  BY <1>same, <1>0, <1>none, <2>1, <2>2, <2>3, HolderSteps DEF Ended
<1>2. CASE ~runtime /\ Go(r, "lower") /\ kept' = [kept EXCEPT ![r] = NoRoot]
  <2>1. /\ pc'[r] = "lower"
        /\ \A c \in Call : pc'[c] = pc[c]
        /\ \A q \in Resetter \ {r} : pc'[q] = pc[q]
    BY <1>types, <1>2, ResetGoes DEF ResetLabel
  <2>2. kept'[r] = NoRoot /\ \A q \in Resetter \ {r} : kept'[q] = kept[q]
    BY <1>types, <1>2 DEF ResetTypes
  <2>3. OwnersBegun'
    <3>1. Begun(lock)'
      BY <1>types, <1>same, <2>1 DEF ResetInv, OwnersBegun, Begun, DiskTypes, Locks
    <3>2. ASSUME NEW q \in Resetter PROVE Begun(kept[q][2])'
      <4>1. CASE q = r
        BY <2>2, <4>1 DEF Begun, NoRoot, NoLocks
      <4>2. CASE q # r
        <5>1. kept[q][2] \in Locks /\ Begun(kept[q][2])
          BY <1>types DEF ResetTypes, ResetInv, OwnersBegun
        <5> QED  BY <2>1, <2>2, <4>2, <5>1 DEF Begun, Locks
      <4> QED  BY <4>1, <4>2
    <3> QED  BY <3>1, <3>2 DEF OwnersBegun
  <2>4. Surveyed(r)'
    BY <2>1 DEF Surveyed
  <2>5. ASSUME NEW t \in Call, ~lost, Held(t) PROVE FALSE
    <3>1. ~Past(t) /\ subj[t] \in Subject /\ t # None
      BY <2>5, HeldLives
    <3>2. lock[subj[t]] = t \/ \E q \in Resetter : Moved(q, t)
      BY <2>5 DEF ResetInv, Covered
    <3>3. \A q \in Resetter \ {r} : ~Moved(q, t)
      BY <1>same, OthersRest DEF ResetInv, Moved, Ended
    <3>4. lock[subj[t]] # t
      BY <1>2, <3>1 DEF ResetInv, LocksInRuntime
    <3>5. ~Moved(r, t)
      BY <1>same, <3>1 DEF ResetInv, Surveyed, AllPast, Moved
    <3> QED  BY <3>2, <3>3, <3>4, <3>5
  <2> QED  BY <1>same, <1>0, <1>none, <2>1, <2>3, <2>4, <2>5, HolderSteps DEF Ended
<1> QED  BY <1>1, <1>2 DEF Recheck

\* The runtime is put back with its locks, or what it held of live calls is lost.
LEMMA UndoKeeps ==
    ASSUME TypeOK, CallInv, ResetInv, NEW r \in Resetter, Undo(r)
    PROVE  ResetInv'
<1>types. Labels /\ DiskTypes /\ ResetTypes
  BY TypeParts
<1>same. pc[r] = "undo" /\ UNCHANGED <<barrier, calls, kind, entries, plan, before>> /\ Go(r, "lower")
  BY DEF Undo
<1>1. /\ pc'[r] = "lower"
      /\ \A c \in Call : pc'[c] = pc[c]
      /\ \A q \in Resetter \ {r} : pc'[q] = pc[q]
  BY <1>types, <1>same, ResetGoes DEF ResetLabel
<1>2. kept'[r] = NoRoot /\ \A q \in Resetter \ {r} : kept'[q] = kept[q]
  BY <1>types DEF Undo, ResetTypes
<1>3. kept[r][2] \in Locks /\ Begun(kept[r][2]) /\ Begun(lock)
  BY <1>types DEF ResetTypes, ResetInv, OwnersBegun
<1>4. ASSUME NEW q \in Resetter PROVE Begun(kept[q][2])'
  <2>1. CASE q = r
    BY <1>2, <2>1 DEF Begun, NoRoot, NoLocks
  <2>2. CASE q # r
    <3>1. kept[q][2] \in Locks /\ Begun(kept[q][2])
      BY <1>types DEF ResetTypes, ResetInv, OwnersBegun
    <3> QED  BY <1>1, <1>2, <2>2, <3>1 DEF Begun, Locks
  <2> QED  BY <2>1, <2>2
<1>5. Surveyed(r)'
  BY <1>1 DEF Surveyed
<1>none. \A t \in Call : ~(~lost /\ Entered(t))
  BY <1>same, NoneEntered DEF Ended
<1>where. ASSUME NEW t \in Call, ~lost, Held(t)
          PROVE  lock[subj[t]] = t \/ (kept[r][1] /\ kept[r][2][subj[t]] = t)
  <2>1. lock[subj[t]] = t \/ \E q \in Resetter : Moved(q, t)
    BY <1>where DEF ResetInv, Covered
  <2>2. \A q \in Resetter \ {r} : ~Moved(q, t)
    BY <1>same, OthersRest DEF ResetInv, Moved, Ended
  <2> QED  BY <2>1, <2>2 DEF Moved
<1>6. CASE kept[r][1] /\ ~runtime /\ runtime' = TRUE /\ lock' = kept[r][2] /\ UNCHANGED lost
  <2>1. LocksInRuntime'
    BY <1>6 DEF LocksInRuntime
  <2>2. Begun(lock)'
    BY <1>1, <1>3, <1>6 DEF Begun, Locks
  <2>3. OwnersBegun'
    BY <1>4, <2>2 DEF OwnersBegun
  <2>4. ASSUME NEW t \in Call, ~lost, Held(t) PROVE lock'[subj[t]] = t
    <3>1. subj[t] \in Subject /\ t # None
      BY <2>4, HeldLives
    <3>2. lock[subj[t]] # t
      BY <1>6, <3>1 DEF ResetInv, LocksInRuntime
    <3> QED  BY <1>6, <1>where, <2>4, <3>2
  <2> QED  BY <1>same, <1>1, <1>5, <1>6, <1>none, <2>1, <2>3, <2>4, HolderSteps DEF Ended
<1>7. CASE lost' = (lost \/ HoldsALiveLock(kept[r])) /\ UNCHANGED <<runtime, lock>>
  <2>1. LocksInRuntime'
    BY <1>7 DEF ResetInv, LocksInRuntime
  <2>2. Begun(lock)'
    BY <1>1, <1>3, <1>7, <1>types DEF Begun, DiskTypes, Locks
  <2>3. OwnersBegun'
    BY <1>4, <2>2 DEF OwnersBegun
  <2>4. ASSUME NEW t \in Call, ~lost', Held(t) PROVE lock'[subj[t]] = t
    <3>1. ~Gone(t) /\ subj[t] \in Subject /\ t # None
      BY <2>4, HeldLives
    <3>2. ~lost /\ ~HoldsALiveLock(kept[r])
      BY <1>7, <2>4
    <3>3. kept[r][2][subj[t]] # t
      BY <3>1, <3>2 DEF HoldsALiveLock
    <3> QED  BY <1>7, <1>where, <2>4, <3>2, <3>3
  <2>5. (lost => lost') /\ \A t \in Call : ~(~lost' /\ Entered(t))
    BY <1>7, <1>none
  <2> QED  BY <1>same, <1>1, <1>5, <2>1, <2>3, <2>4, <2>5, HolderSteps DEF Ended
<1> QED  BY <1>6, <1>7 DEF Undo

LEMMA LowerKeeps ==
    ASSUME TypeOK, CallInv, ResetInv, NEW r \in Resetter, Lower(r)
    PROVE  ResetInv'
<1>types. Labels
  BY TypeParts
<1>same. pc[r] = "lower" /\ UNCHANGED <<lock, runtime, lost, calls, kept>> /\ Go(r, "done")
  BY DEF Lower
<1>1. /\ pc'[r] = "done"
      /\ \A c \in Call : pc'[c] = pc[c]
      /\ \A q \in Resetter \ {r} : pc'[q] = pc[q]
  BY <1>types, <1>same, ResetGoes DEF ResetLabel, Ended
<1>2. LocksInRuntime' /\ OwnersBegun'
  BY <1>same, <1>1, OwnersHold DEF ResetInv, LocksInRuntime
<1>3. Surveyed(r)'
  BY <1>1 DEF Surveyed
<1>4. \A t \in Call : ~lost /\ Held(t) => lock[subj[t]] = t
  BY <1>same, LockIsThere DEF Ended
<1> QED  BY <1>same, <1>1, <1>2, <1>3, <1>4, HolderSteps DEF Ended

\* A reset that dies leaves what it has moved where it is.
LEMMA CrashKeeps ==
    ASSUME TypeOK, CallInv, ResetInv, NEW r \in Resetter, Crash(r)
    PROVE  ResetInv'
<1>same. /\ pc[r] \notin Ended /\ UNCHANGED <<disk, calls, resets>>
         /\ lost' = (lost \/ HoldsALiveLock(kept[r]))
  BY DEF Crash
<1>disk. UNCHANGED <<lock, barrier, runtime, kept>>
  BY <1>same DEF disk, resets
<1>1. /\ pc'[r] = "dead"
      /\ \A c \in Call : pc'[c] = pc[c]
      /\ \A q \in Resetter \ {r} : pc'[q] = pc[q]
  BY BarrierAssumption DEF Crash
<1>2. LocksInRuntime' /\ OwnersBegun'
  BY <1>disk, <1>1, OwnersHold DEF ResetInv, LocksInRuntime
<1>3. Surveyed(r)'
  BY <1>1 DEF Surveyed
<1>4. ASSUME NEW t \in Call, ~lost', Held(t) PROVE lock'[subj[t]] = t
  <2>1. ~Gone(t) /\ subj[t] \in Subject /\ t # None /\ ~lost
    BY <1>same, <1>4, HeldLives
  <2>2. lock[subj[t]] = t \/ \E q \in Resetter : Moved(q, t)
    BY <1>4, <2>1 DEF ResetInv, Covered
  <2>3. \A q \in Resetter \ {r} : ~Moved(q, t)
    BY <1>same, OthersRest DEF ResetInv, Moved, Ended
  <2>4. ~Moved(r, t)
    BY <1>same, <1>4, <2>1 DEF Moved, HoldsALiveLock
  <2> QED  BY <1>disk, <2>2, <2>3, <2>4
<1>5. lost => lost'
  BY <1>same
<1> QED  BY <1>same, <1>disk, <1>1, <1>2, <1>3, <1>4, <1>5, HolderSteps DEF Ended

-----------------------------------------------------------------------------
LEMMA InitBarrier == Init => BarrierInv
<1> SUFFICES ASSUME Init PROVE BarrierInv
  OBVIOUS
<1>1. /\ \A p \in Call \cup Resetter : pc[p] = "idle"
      /\ lock = NoLocks /\ \A r \in Resetter : kept[r] = NoRoot
  BY DEF Init
<1>2. OneBarrier /\ LocksInRuntime
  BY <1>1 DEF OneBarrier, LocksInRuntime, Ended, NoLocks
<1>3. OwnersBegun
  <2>1. Begun(lock)
    BY <1>1 DEF Begun, NoLocks
  <2>2. ASSUME NEW r \in Resetter PROVE Begun(kept[r][2])
    <3>1. kept[r] = NoRoot
      BY <1>1
    <3>2. NoRoot[2] = NoLocks
      BY DEF NoRoot
    <3> QED  BY <3>1, <3>2 DEF Begun, NoLocks
  <2> QED  BY <2>1, <2>2 DEF OwnersBegun
<1>4. \A r \in Resetter : Surveyed(r)
  BY <1>1, RestingIsSurveyed DEF Ended
<1>5. \A t \in Call : Covered(t) /\ Seen(t)
  BY <1>1 DEF Covered, Seen, Held, Entered
<1> QED  BY <1>2, <1>3, <1>4, <1>5, InitFrames DEF BarrierInv, ResetInv

LEMMA BarrierStep ==
    ASSUME BarrierInv, [Next]_vars
    PROVE  BarrierInv'
<1>0. TypeOK /\ CallInv /\ ResetInv /\ OwnersBegun
  BY DEF BarrierInv, ResetInv
<1>types. TypeOK' /\ CallInv'
  BY <1>0, FrameStep
<1>1. ASSUME CallEffect PROVE ResetInv'
  BY <1>0, <1>1, <1>types, CallsKeepBarrier
<1>2. ASSUME NEW t \in Call, Start(t) \/ CallStep(t) PROVE ResetInv'
  BY <1>0, <1>1, <1>2, CallStepEffect
<1>3. ASSUME NEW t \in Call, NEW c \in Call, Spawn(t, c) PROVE ResetInv'
  BY <1>0, <1>1, <1>3, SpawnEffect
<1>4. ASSUME NEW r \in Resetter, ResetStep(r) PROVE ResetInv'
  <2>1. CASE Raise(r)
    BY <1>0, <2>1, RaiseBarrier
  <2>2. CASE List(r)
    BY <1>0, <2>2, ListLooks
  <2>3. CASE Inspect(r)
    BY <1>0, <2>3, InspectLooks
  <2>4. CASE Scanned(r)
    BY <1>0, <2>4, ScanEnds
  <2>5. CASE Prepare(r)
    BY <1>0, <2>5, PrepareLooks
  <2>6. CASE Rescanned(r)
    BY <1>0, <2>6, RescanEnds
  <2>7. CASE Work(r) \/ Verify(r)
    BY <1>0, <2>7, WorkLooks
  <2>8. CASE Move(r)
    BY <1>0, <2>8, MoveKeeps
  <2>9. CASE Recheck(r)
    BY <1>0, <2>9, RecheckKeeps
  <2>10. CASE Undo(r)
    BY <1>0, <2>10, UndoKeeps
  <2>11. CASE Lower(r)
    BY <1>0, <2>11, LowerKeeps
  <2> QED  BY <1>4, <2>1, <2>2, <2>3, <2>4, <2>5, <2>6, <2>7, <2>8, <2>9, <2>10, <2>11
           DEF ResetStep
<1>5. ASSUME NEW p \in Call \cup Resetter, Crash(p) PROVE ResetInv'
  <2>1. CASE p \in Call
    BY <1>0, <1>1, <1>5, <2>1, CrashEffect
  <2>2. CASE p \in Resetter
    BY <1>0, <1>5, <2>2, CrashKeeps
  <2> QED  BY <2>1, <2>2
<1>6. ASSUME UNCHANGED vars PROVE ResetInv'
  <2>1. UNCHANGED <<disk, lost, pc, calls, resets>>
    BY <1>6 DEF vars
  <2>2. UNCHANGED <<subj, lease>> /\ \A p \in Call \cup Resetter : pc'[p] = pc[p]
    BY <2>1 DEF calls
  <2>3. \A c \in Call : LabelEffect(c)
    BY <2>2, StillLabel
  <2>4. CallEffect
    BY <2>1, <2>2, <2>3, CallsOnly
  <2> QED  BY <1>1, <2>4
<1>7. ASSUME Next PROVE ResetInv'
  <2>1. CASE \E t \in Call : Start(t) \/ CallStep(t)
    BY <1>2, <2>1
  <2>2. CASE \E t, c \in Call : Spawn(t, c)
    BY <1>3, <2>2
  <2>3. CASE \E r \in Resetter : ResetStep(r)
    BY <1>4, <2>3
  <2>4. CASE \E p \in Call \cup Resetter : Crash(p)
    BY <1>5, <2>4
  <2> QED  BY <1>7, <2>1, <2>2, <2>3, <2>4 DEF Next
<1> QED  BY <1>types, <1>6, <1>7 DEF BarrierInv

\* The inductive invariant holds: what a snapshot of the locks says of the calls in it
\* stays true, and the lock of a call that has entered is on the disk or moved with
\* the runtime by a reset that will put it back (subject-lock.mjs, factory-reset.mjs).
THEOREM BarrierInvHolds == Spec => []BarrierInv
BY InitBarrier, BarrierStep, PTL DEF Spec

-----------------------------------------------------------------------------
\* Type correctness of locks, barrier, calls and resets (subject-lock.mjs,
\* factory-reset.mjs, governance-rebuild.mjs).
THEOREM BarrierTyped == Spec => []TypeOK
BY BarrierInvHolds, PTL DEF BarrierInv

\* A running call runs under a lease whose call has entered.
LEMMA RunningHasEntered ==
    ASSUME TypeOK, CallInv, NEW t \in Call, pc[t] = "running"
    PROVE  /\ lease[t] \in Call /\ Entered(lease[t]) /\ subj[lease[t]] = subj[t]
           /\ pc[lease[t]] \in {"running", "drain"}
<1>1. lease[t] # None /\ Leased(t)
  BY DEF CallInv, Leased
<1>2. lease[t] \in Call
  BY <1>1 DEF TypeOK
<1> QED  BY <1>1, <1>2 DEF Leased, Entered

\* acquireSubjectLock looks at the barrier after its lock is published, and
\* whoever raises the barrier looks at the locks after that: no callback of any
\* subject runs while a reset or a rebuild works, and no two of those at once,
\* however many calls, subjects and resets there are and whichever of them die.
THEOREM ResetWorksAlone == Spec => []WorksAlone
<1>1. BarrierInv => WorksAlone
  <2> SUFFICES ASSUME BarrierInv, ~lost, NEW r \in Resetter, pc[r] \in Working
               PROVE  /\ \A t \in Call : pc[t] # "running"
                      /\ \A q \in Resetter \ {r} : pc[q] \notin Working
    BY DEF WorksAlone
  <2>0. pc[r] \notin Ended \cup {"list", "scan", "lower"}
    BY DEF Working, Ended
  <2>1. ASSUME NEW t \in Call, pc[t] = "running" PROVE FALSE
    <3>1. lease[t] \in Call /\ Entered(lease[t])
      BY <2>1, RunningHasEntered DEF BarrierInv
    <3> QED  BY <2>0, <3>1, NoneEntered DEF BarrierInv
  <2>2. \A q \in Resetter \ {r} : pc[q] \in Ended
    BY <2>0, OthersRest DEF BarrierInv, ResetInv
  <2> QED  BY <2>1, <2>2 DEF Working, Ended
<1> QED  BY <1>1, BarrierInvHolds, PTL

\* withSubjectLock waits for the frames inherited from it: every running callback
\* is covered by a lock on the disk that its lease's call has made and has not
\* given back.
THEOREM RunsAreCovered == Spec => []RunsCovered
<1>1. BarrierInv => RunsCovered
  <2> SUFFICES ASSUME BarrierInv, ~lost, NEW t \in Call, pc[t] = "running"
               PROVE  lock[subj[t]] = lease[t] /\ pc[lease[t]] \in {"running", "drain"}
    BY DEF RunsCovered
  <2>1. /\ lease[t] \in Call /\ Entered(lease[t]) /\ subj[lease[t]] = subj[t]
        /\ pc[lease[t]] \in {"running", "drain"}
    BY RunningHasEntered DEF BarrierInv
  <2>2. lock[subj[lease[t]]] = lease[t] \/ \E r \in Resetter : Moved(r, lease[t])
    BY <2>1 DEF BarrierInv, ResetInv, Covered, Held
  <2>3. \A r \in Resetter : ~Moved(r, lease[t])
    BY <2>1 DEF BarrierInv, ResetInv, Seen, Moved, Ended
  <2> QED  BY <2>1, <2>2, <2>3
<1> QED  BY <1>1, BarrierInvHolds, PTL
=============================================================================
