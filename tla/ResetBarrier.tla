----------------------------- MODULE ResetBarrier -----------------------------
(***************************************************************************)
(* Subject locks against the repository reset barrier: the two-sided check *)
(* of acquireSubjectLock, the frames that withSubjectLock hands down an    *)
(* asynchronous call chain (src/src/subject-lock.mjs), and the operations  *)
(* that need a quiescent repository: a factory reset, which moves the      *)
(* runtime and the locks in it away, and a governance rebuild, which does  *)
(* not (src/src/factory-reset.mjs, src/src/governance-rebuild.mjs).        *)
(*                                                                         *)
(* How a directory is created, published, judged stale and retired is the  *)
(* business of SubjectLock: here a lock is who made it, and only the lock  *)
(* of a process that is gone is stale.                                     *)
(***************************************************************************)
EXTENDS Naturals

CONSTANTS
    Call,           \* calls of withSubjectLock
    Subject,
    Resetter,       \* resets and rebuilds
    None,
    MayCrash        \* calls, whose process dies, and resetters that may die

ASSUME BarrierAssumption ==
    /\ None \notin Call \cup Subject \cup Resetter
    /\ Call \cap Resetter = {}
    /\ MayCrash \subseteq Call \cup Resetter

VARIABLES
    lock,       \* lock[s]: the call whose directory is the lock of s, or None
    barrier,    \* the resetter whose directory is the barrier, or None
    runtime,    \* the runtime root exists
    lost,       \* the lock of a live call stayed in a moved runtime (history)
    pc,
    subj, root, scope, from, lease, count,   \* per call, see Init
    kind, entries, plan, before, kept        \* per resetter, see Init

disk == <<lock, barrier, runtime>>
calls == <<subj, root, scope, from, lease, count>>
resets == <<kind, entries, plan, before, kept>>
vars == <<disk, lost, pc, calls, resets>>

NoLocks == [s \in Subject |-> None]
Root == <<runtime, lock>>       \* what a snapshot of the runtime root tells
NoRoot == <<FALSE, NoLocks>>

Init ==
    /\ lock = NoLocks /\ barrier = None /\ runtime = TRUE /\ lost = FALSE
    /\ pc = [t \in Call \cup Resetter |-> "idle"]
    /\ subj = [t \in Call |-> None]     \* its subject
    /\ root = [t \in Call |-> t]        \* the first call of its process
    /\ scope = [t \in Call |-> NoLocks] \* heldLocks: the frames it inherits
    /\ from = [t \in Call |-> None]     \* inheritedFrame
    /\ lease = [t \in Call |-> None]    \* the call that made its frame's lease
    /\ count = [t \in Call |-> 0]       \* lease.reentrantCount
    /\ kind = [r \in Resetter |-> "reset"]
    /\ entries = [r \in Resetter |-> {}]     \* of the lock root, to be looked at
    /\ plan = [r \in Resetter |-> NoRoot]
    /\ before = [r \in Resetter |-> NoRoot]  \* record.before
    /\ kept = [r \in Resetter |-> NoRoot]    \* the runtime root it has moved

Ended == {"idle", "done", "refused", "dead"}
Gone(t) == \A c \in Call : root[c] = root[t] => pc[c] \in Ended
Alive(s) == lock[s] # None /\ ~Gone(lock[s])

Go(p, label) == pc' = [pc EXCEPT ![p] = label]

(***************************************************************************)
(* assertNoRepositoryResetBarrier: passes, refuses or clears a stale one.  *)
(***************************************************************************)
BarrierIsStale == barrier # None /\ pc[barrier] \in Ended

CheckBarrier(t, label, next, refused) ==
    /\ pc[t] = label
    /\ \/ barrier = None /\ Go(t, next) /\ UNCHANGED barrier
       \/ BarrierIsStale /\ barrier' = None /\ UNCHANGED pc
       \/ barrier # None /\ ~BarrierIsStale /\ Go(t, refused) /\ UNCHANGED barrier
    /\ UNCHANGED <<lock, runtime, lost, calls, resets>>

(***************************************************************************)
(* withSubjectLock.                                                        *)
(***************************************************************************)
\* A call by a process of its own.
Start(t) ==
    /\ pc[t] = "idle" /\ root[t] = t /\ subj[t] = None
    /\ \E s \in Subject : subj' = [subj EXCEPT ![t] = s]
    /\ Go(t, "enter")
    /\ UNCHANGED <<disk, lost, root, scope, from, lease, count, resets>>

\* A running callback makes a call, or leaves a task behind that will.
Spawn(t, c) ==
    /\ pc[t] = "running" /\ pc[c] = "idle" /\ subj[c] = None
    /\ \E s \in Subject : subj' = [subj EXCEPT ![c] = s]
    /\ root' = [root EXCEPT ![c] = root[t]]
    /\ scope' = [scope EXCEPT ![c] = [scope[t] EXCEPT ![subj[t]] = t]]
    /\ Go(c, "enter")
    /\ UNCHANGED <<disk, lost, from, lease, count, resets>>

\* frame.active and frame.lease.active
Active(f) == f # None /\ pc[f] = "running" /\ pc[lease[f]] \in {"running", "drain"}

Enter(t) ==
    /\ pc[t] = "enter"
    /\ LET f == scope[t][subj[t]] IN
       IF Active(f)
       THEN Go(t, "nested check") /\ from' = [from EXCEPT ![t] = f]
       ELSE Go(t, "first check") /\ UNCHANGED from
    /\ UNCHANGED <<disk, lost, subj, root, scope, lease, count, resets>>

NestedCheck(t) == CheckBarrier(t, "nested check", "inherit", "refused")

\* Mutant: an inherited frame is not counted.
InheritUncounted(t) ==
    /\ pc[t] = "inherit"
    /\ IF Active(from[t])
       THEN lease' = [lease EXCEPT ![t] = lease[from[t]]] /\ Go(t, "running")
       ELSE Go(t, "first check") /\ UNCHANGED lease
    /\ UNCHANGED <<disk, lost, subj, root, scope, from, count, resets>>

\* Mutant: the frame is not looked at again after the check.
InheritAnyway(t) ==
    /\ pc[t] = "inherit"
    /\ LET holder == lease[from[t]] IN
       /\ lease' = [lease EXCEPT ![t] = holder]
       /\ count' = [count EXCEPT ![holder] = @ + 1]
    /\ Go(t, "running")
    /\ UNCHANGED <<disk, lost, subj, root, scope, from, resets>>

\* The check took time: the frame may have ended meanwhile.
Inherit(t) ==
    /\ pc[t] = "inherit"
    /\ IF Active(from[t])
       THEN LET holder == lease[from[t]] IN
            /\ lease' = [lease EXCEPT ![t] = holder]
            /\ count' = [count EXCEPT ![holder] = @ + 1]
            /\ Go(t, "running")
       ELSE Go(t, "first check") /\ UNCHANGED <<lease, count>>
    /\ UNCHANGED <<disk, lost, subj, root, scope, from, resets>>

FirstCheck(t) == CheckBarrier(t, "first check", "parent", "refused")

\* mkdir -p of the directory of the locks.
Parent(t) ==
    /\ pc[t] = "parent"
    /\ runtime' = TRUE /\ Go(t, "create")
    /\ UNCHANGED <<lock, barrier, lost, calls, resets>>

Create(t) ==
    /\ pc[t] = "create"
    /\ \/ /\ runtime /\ lock[subj[t]] = None
          /\ lock' = [lock EXCEPT ![subj[t]] = t] /\ Go(t, "publish")
       \/ /\ lock[subj[t]] # None /\ ~Alive(subj[t])     \* reclaim
          /\ lock' = [lock EXCEPT ![subj[t]] = None] /\ UNCHANGED pc
       \/ /\ Alive(subj[t]) \/ ~runtime
          /\ Go(t, "refused") /\ UNCHANGED lock
    /\ UNCHANGED <<barrier, runtime, lost, calls, resets>>

Owns(t) == lock[subj[t]] = t

\* The owner record; a lost generation starts again, an error gives up.
Publish(t) ==
    /\ pc[t] = "publish"
    /\ \/ Owns(t) /\ Go(t, "second check")
       \/ ~Owns(t) /\ Go(t, "create")
       \/ Go(t, "withdraw")
    /\ UNCHANGED <<disk, lost, calls, resets>>

\* Mutant: the barrier is looked at before the lock is made, not after.
CheckOnce(t) ==
    /\ pc[t] = "second check" /\ Go(t, "begin")
    /\ UNCHANGED <<disk, lost, calls, resets>>

SecondCheck(t) == CheckBarrier(t, "second check", "begin", "withdraw")

\* cleanupFailedAcquisition
Withdraw(t) ==
    /\ pc[t] = "withdraw"
    /\ lock' = IF Owns(t) THEN [lock EXCEPT ![subj[t]] = None] ELSE lock
    /\ Go(t, "refused")
    /\ UNCHANGED <<barrier, runtime, lost, calls, resets>>

\* The heartbeat, without which the lock is given back, and the callback.
Begin(t) ==
    /\ pc[t] = "begin"
    /\ \/ lease' = [lease EXCEPT ![t] = t] /\ Go(t, "running")
       \/ Go(t, "withdraw") /\ UNCHANGED lease
    /\ UNCHANGED <<disk, lost, subj, root, scope, from, count, resets>>

\* Mutant: an inherited frame that ends is not counted off.
SettleUncounted(t) ==
    /\ pc[t] = "running"
    /\ Go(t, IF lease[t] = t THEN "drain" ELSE "done")
    /\ UNCHANGED <<disk, lost, calls, resets>>

\* The callback settles: an inherited frame ends, the first one drains.
Settle(t) ==
    /\ pc[t] = "running"
    /\ IF lease[t] = t
       THEN Go(t, "drain") /\ UNCHANGED count
       ELSE Go(t, "done") /\ count' = [count EXCEPT ![lease[t]] = @ - 1]
    /\ UNCHANGED <<disk, lost, subj, root, scope, from, lease, resets>>

\* waitForInheritedFrames
Drain(t) ==
    /\ pc[t] = "drain" /\ count[t] = 0
    /\ Go(t, "release")
    /\ UNCHANGED <<disk, lost, calls, resets>>

Release(t) ==
    /\ pc[t] = "release"
    /\ lock' = IF Owns(t) THEN [lock EXCEPT ![subj[t]] = None] ELSE lock
    /\ Go(t, "done")
    /\ UNCHANGED <<barrier, runtime, lost, calls, resets>>

(***************************************************************************)
(* withRepositoryResetBarrier and what runs under it.                      *)
(***************************************************************************)
Raise(r) ==
    /\ pc[r] = "idle"
    /\ \/ /\ barrier = None /\ barrier' = r
          /\ \E k \in {"reset", "rebuild"} : kind' = [kind EXCEPT ![r] = k]
          /\ Go(r, "list")
       \/ BarrierIsStale /\ barrier' = None /\ UNCHANGED <<kind, pc>>
       \/ barrier # None /\ ~BarrierIsStale /\ Go(r, "refused") /\ UNCHANGED <<barrier, kind>>
    /\ UNCHANGED <<lock, runtime, lost, calls, entries, plan, before, kept>>

\* activeSubjectLocks: the directory is listed, then each lock is looked at.
List(r) ==
    /\ \/ pc[r] = "list" /\ Go(r, "scan")
       \/ pc[r] = "relist" /\ Go(r, "rescan")
    /\ entries' = [entries EXCEPT ![r] = {s \in Subject : lock[s] # None}]
    /\ UNCHANGED <<disk, lost, calls, kind, plan, before, kept>>

\* Mutant: what is listed is not looked at.
InspectNothing(r) ==
    /\ pc[r] \in {"scan", "rescan"}
    /\ \E s \in entries[r] : entries' = [entries EXCEPT ![r] = @ \ {s}]
    /\ UNCHANGED <<disk, lost, pc, calls, kind, plan, before, kept>>

Inspect(r) ==
    /\ pc[r] \in {"scan", "rescan"}
    /\ \E s \in entries[r] :
         IF Alive(s)
         THEN Go(r, "lower") /\ UNCHANGED entries
         ELSE entries' = [entries EXCEPT ![r] = @ \ {s}] /\ UNCHANGED pc
    /\ UNCHANGED <<disk, lost, calls, kind, plan, before, kept>>

\* A rebuild writes and commits now. A reset plans, and a copy of the packaged
\* definition is made; whatever fails here has changed nothing.
Scanned(r) ==
    /\ pc[r] = "scan" /\ entries[r] = {}
    /\ plan' = [plan EXCEPT ![r] = Root]
    /\ \/ kind[r] = "rebuild" /\ Go(r, "work")
       \/ kind[r] = "reset" /\ Go(r, "prepare")
       \/ Go(r, "lower")
    /\ UNCHANGED <<disk, lost, calls, kind, entries, before, kept>>

Prepare(r) ==
    /\ pc[r] = "prepare"
    /\ before' = [before EXCEPT ![r] = Root]
    /\ Go(r, "relist")
    /\ UNCHANGED <<disk, lost, calls, kind, entries, plan, kept>>

\* resetScopeSha256 of the final plan, which covers the runtime roots.
Rescanned(r) ==
    /\ pc[r] = "rescan" /\ entries[r] = {}
    /\ Go(r, IF Root = plan[r] THEN "work" ELSE "lower")
    /\ UNCHANGED <<disk, lost, calls, resets>>

\* The control roots are replaced.
Work(r) ==
    /\ pc[r] = "work"
    /\ IF kind[r] = "rebuild" THEN Go(r, "lower") ELSE Go(r, "verify") \/ Go(r, "undo")
    /\ UNCHANGED <<disk, lost, calls, resets>>

\* stageVerifiedMove of the runtime root: unchanged since the snapshot, ...
Verify(r) ==
    /\ pc[r] = "verify"
    /\ Go(r, IF Root = before[r] THEN "move" ELSE "undo")
    /\ UNCHANGED <<disk, lost, calls, resets>>

\* Mutant: what was moved is not compared with what was verified.
MoveUnverified(r) ==
    /\ pc[r] = "move"
    /\ kept' = [kept EXCEPT ![r] = Root]
    /\ runtime' = FALSE /\ lock' = NoLocks
    /\ Go(r, "recheck")
    /\ UNCHANGED <<barrier, lost, calls, kind, entries, plan, before>>

\* ... renamed, and still unchanged at its new place.
Move(r) ==
    /\ pc[r] = "move"
    /\ kept' = [kept EXCEPT ![r] = Root]
    /\ runtime' = FALSE /\ lock' = NoLocks
    /\ Go(r, IF Root = before[r] THEN "recheck" ELSE "undo")
    /\ UNCHANGED <<barrier, lost, calls, kind, entries, plan, before>>

\* The reset is complete unless the runtime root was made again.
Recheck(r) ==
    /\ pc[r] = "recheck"
    /\ IF runtime
       THEN Go(r, "undo") /\ UNCHANGED kept
       ELSE Go(r, "lower") /\ kept' = [kept EXCEPT ![r] = NoRoot]
    /\ UNCHANGED <<disk, lost, calls, kind, entries, plan, before>>

HoldsALiveLock(k) == \E s \in Subject : k[2][s] # None /\ ~Gone(k[2][s])

\* The rollback puts the runtime back, unless there is one again: then the one
\* it has moved is kept aside, with the locks in it.
Undo(r) ==
    /\ pc[r] = "undo"
    /\ IF kept[r][1] /\ ~runtime
       THEN runtime' = TRUE /\ lock' = kept[r][2] /\ UNCHANGED lost
       ELSE lost' = (lost \/ HoldsALiveLock(kept[r])) /\ UNCHANGED <<runtime, lock>>
    /\ kept' = [kept EXCEPT ![r] = NoRoot]
    /\ Go(r, "lower")
    /\ UNCHANGED <<barrier, calls, kind, entries, plan, before>>

\* A barrier that cannot be removed is left, with a warning.
Lower(r) ==
    /\ pc[r] = "lower"
    /\ \/ barrier' = IF barrier = r THEN None ELSE barrier
       \/ UNCHANGED barrier
    /\ kind' = [kind EXCEPT ![r] = "reset"] /\ entries' = [entries EXCEPT ![r] = {}]
    /\ plan' = [plan EXCEPT ![r] = NoRoot] /\ before' = [before EXCEPT ![r] = NoRoot]
    /\ Go(r, "done")
    /\ UNCHANGED <<lock, runtime, lost, calls, kept>>

\* A death takes all calls of the process.
Crash(p) ==
    /\ p \in MayCrash /\ pc[p] \notin Ended
    /\ pc' = [q \in Call \cup Resetter |->
                 IF q = p \/ (p \in Call /\ q \in Call /\ root[q] = root[p] /\ pc[q] \notin Ended)
                 THEN "dead" ELSE pc[q]]
    /\ lost' = (lost \/ (p \in Resetter /\ HoldsALiveLock(kept[p])))
    /\ UNCHANGED <<disk, calls, resets>>

CallStep(t) ==
    \/ Enter(t) \/ NestedCheck(t) \/ Inherit(t) \/ FirstCheck(t) \/ Parent(t)
    \/ Create(t) \/ Publish(t) \/ SecondCheck(t) \/ Withdraw(t) \/ Begin(t)
    \/ Settle(t) \/ Drain(t) \/ Release(t)

ResetStep(r) ==
    \/ Raise(r) \/ List(r) \/ Inspect(r) \/ Scanned(r) \/ Prepare(r) \/ Rescanned(r)
    \/ Work(r) \/ Verify(r) \/ Move(r) \/ Recheck(r) \/ Undo(r) \/ Lower(r)

Next ==
    \/ \E t \in Call : Start(t) \/ CallStep(t)
    \/ \E t, c \in Call : Spawn(t, c)
    \/ \E r \in Resetter : ResetStep(r)
    \/ \E p \in Call \cup Resetter : Crash(p)

\* A process that lives goes on; its callbacks end.
Fairness ==
    /\ \A t \in Call : WF_vars(CallStep(t))
    /\ \A r \in Resetter : WF_vars(ResetStep(r))

Spec == Init /\ [][Next]_vars /\ Fairness

-----------------------------------------------------------------------------
CallLabel == Ended \cup
    {"enter", "nested check", "inherit", "first check", "parent", "create", "publish",
     "second check", "withdraw", "begin", "running", "drain", "release"}
Working == {"work", "verify", "move", "recheck", "undo"}
ResetLabel == Ended \cup Working \cup
    {"list", "scan", "prepare", "relist", "rescan", "lower"}
Locks == [Subject -> Call \cup {None}]

TypeOK ==
    /\ lock \in Locks /\ barrier \in Resetter \cup {None}
    /\ runtime \in BOOLEAN /\ lost \in BOOLEAN
    /\ DOMAIN pc = Call \cup Resetter
    /\ \A t \in Call : pc[t] \in CallLabel
    /\ \A r \in Resetter : pc[r] \in ResetLabel
    /\ subj \in [Call -> Subject \cup {None}] /\ root \in [Call -> Call]
    /\ scope \in [Call -> Locks] /\ from \in [Call -> Call \cup {None}]
    /\ lease \in [Call -> Call \cup {None}] /\ count \in [Call -> Nat]
    /\ kind \in [Resetter -> {"reset", "rebuild"}]
    /\ entries \in [Resetter -> SUBSET Subject]
    /\ plan \in [Resetter -> BOOLEAN \X Locks]
    /\ before \in [Resetter -> BOOLEAN \X Locks]
    /\ kept \in [Resetter -> BOOLEAN \X Locks]

\* "the callback never starts": no callback of any subject runs while a reset or
\* a rebuild works, and no two of those work at once.
WorksAlone ==
    ~lost => \A r \in Resetter : pc[r] \in Working =>
        /\ \A t \in Call : pc[t] # "running"
        /\ \A q \in Resetter \ {r} : pc[q] \notin Working

\* "Reentrant calls which had already begun own distinct frames and keep the
\* physical lease held until they settle": every running callback is covered by
\* a lock on the disk that its lease's call has made and has not given back.
RunsCovered ==
    ~lost => \A t \in Call : pc[t] = "running" =>
        lock[subj[t]] = lease[t] /\ pc[lease[t]] \in {"running", "drain"}

\* Neither the two checks nor the wait for inherited frames block for good:
\* every call that is made ends.
CallsEnd == \A t \in Call : (pc[t] = "enter") ~> (pc[t] \in Ended)
=============================================================================
