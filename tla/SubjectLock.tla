----------------------------- MODULE SubjectLock -----------------------------
(***************************************************************************)
(* The mutation lock of one subject (src/src/subject-lock.mjs): a          *)
(* directory at a fixed pathname. Creating it is the mutual exclusion; an  *)
(* owner record published into it says who holds it; a lock judged         *)
(* abandoned is moved away under an exclusive claim before the pathname is *)
(* reused. Every step below is one access to the file system, so processes *)
(* interleave between any two of them and may die at any of them.          *)
(*                                                                         *)
(* Every directory has an identity (device, inode, birth time) that is     *)
(* never reused: a generation. A claim is named by the generation and the  *)
(* owner its creator observed, and by a claim number.                      *)
(***************************************************************************)
EXTENDS Naturals, FiniteSets

CONSTANTS
    Proc,           \* acquisitions: each takes and releases the lock once
    Gen,            \* directory generations, the bound on mkdir
    Dead,           \* an earlier holder, dead before the behaviour starts
    Missing,        \* no owner record
    None,
    Claims,         \* RECLAIM_GENERATIONS
    Attempts,       \* how often an acquisition tries again; 8 in the code
    MayCrash,       \* acquisitions whose process may die
    Strains,        \* bound on the faults of time and of the file system
    HardLinks       \* owners are published by link, else by exclusive write

ASSUME LockAssumption ==
    /\ Claims \in Nat \ {0} /\ Attempts \in Nat \ {0}
    /\ Strains \in Nat /\ HardLinks \in BOOLEAN
    /\ MayCrash \subseteq Proc /\ Dead \notin Proc /\ Missing \notin Proc \cup {Dead}
    /\ None \notin Gen

VARIABLES
    at,         \* the generation at the lock's pathname, or None
    used,       \* generations created so far
    owner,      \* owner[g]: the published owner record, or Missing
    pending,    \* pending[g]: the unpublished owner records g contains
    aged,       \* directories untouched for longer than the grace period
    lapsed,     \* holders whose lease has run out without a renewal
    claim,      \* claim[id, n]: state of claim n of an observed identity
    hbFailed,   \* holders whose heartbeat reported that it stopped
    strains,    \* how many assumptions about time or renames failed (history)
    pc, obs, num, mine, next, attempt,   \* per process, see Init
    moved,      \* the foreign generation a rename carried into its claim
    met         \* met[p]: whom p met inside the callback (history)

disk == <<at, used, owner, pending, aged>>
lease == <<lapsed, hbFailed, strains>>
local == <<obs, num, mine, next, attempt, moved>>
vars == <<disk, claim, lease, pc, local, met>>

Owner == Proc \cup {Dead, Missing}
Id == Gen \X Owner
Terminal == {"released", "warned", "busy", "failed", "dead"}

\* The identity at the pathname as one read of it sees it: both lstat calls
\* of activeDirectoryOwner agree, so directory and owner belong together.
Current == <<at, IF at = None THEN Missing ELSE owner[at]>>

Acquiring(p) == pc[p] \notin Terminal /\ pc[p] # "callback"

Alive == {p \in Proc : pc[p] \notin Terminal}

\* Mutant: a directory without an owner record is taken for abandoned at once.
StaleWithoutOwner(g) == owner[g] \notin Alive \ (lapsed \ hbFailed)

\* stale(): without an owner only age counts; a dead owner is stale at once; a
\* lease that ran out is stale unless its heartbeat reported a failure.
Stale(g) ==
    IF owner[g] = Missing THEN g \in aged ELSE owner[g] \notin Alive \ (lapsed \ hbFailed)

Init ==
    \* nothing there, a lock whose holder died, or one that never got an owner
    /\ \/ at = None /\ used = {} /\ owner = [g \in Gen |-> Missing]
       \/ \E g \in Gen, o \in {Dead, Missing} :
            /\ at = g /\ used = {g}
            /\ owner = [h \in Gen |-> IF h = g THEN o ELSE Missing]
    /\ pending = [g \in Gen |-> {}]
    /\ claim = [i \in Id \X (0 .. Claims - 1) |-> "absent"]
    /\ aged = {} /\ lapsed = {} /\ hbFailed = {} /\ strains = 0
    /\ pc = [p \in Proc |-> "mkdir"]
    /\ obs = [p \in Proc |-> <<None, Missing>>]  \* what it wants to retire
    /\ num = [p \in Proc |-> 0]                  \* claim number being tried
    /\ mine = [p \in Proc |-> None]              \* directory it is filling
    /\ next = [p \in Proc |-> "reclaim"]         \* who called the retirement
    /\ attempt = [p \in Proc |-> 1]
    /\ moved = [p \in Proc |-> None]
    /\ met = [p \in Proc |-> {}]

Go(p, label) == pc' = [pc EXCEPT ![p] = label]

(***************************************************************************)
(* Acquisition.                                                            *)
(***************************************************************************)

\* The next iteration of the acquisition loop, or its end.
Again(p) ==
    IF attempt[p] < Attempts
    THEN attempt' = [attempt EXCEPT ![p] = @ + 1] /\ Go(p, "mkdir")
    ELSE UNCHANGED attempt /\ Go(p, "busy")

\* A new generation at the pathname, filled by p.
Create(p, g) ==
    /\ at = None /\ g \notin used
    /\ at' = g /\ used' = used \cup {g}
    /\ mine' = [mine EXCEPT ![p] = g]
    /\ UNCHANGED <<owner, pending, aged>>

Mkdir(p) ==
    /\ pc[p] = "mkdir"
    /\ \/ (\E g \in Gen : Create(p, g)) /\ Go(p, "prepare")
       \/ at # None /\ Go(p, "observe") /\ UNCHANGED <<disk, mine>>
    /\ UNCHANGED <<claim, lease, obs, num, next, attempt, moved, met>>

Retire(p, caller) ==
    /\ obs' = [obs EXCEPT ![p] = Current]
    /\ num' = [num EXCEPT ![p] = 0]
    /\ next' = [next EXCEPT ![p] = caller]
    /\ Go(p, "claim")

Observe(p) ==
    /\ pc[p] = "observe"
    /\ \/ at = None /\ Again(p) /\ UNCHANGED <<obs, num, next>>
       \/ /\ at # None /\ ~Stale(at)
          /\ Go(p, "busy") /\ UNCHANGED <<obs, num, next, attempt>>
       \/ /\ at # None /\ Stale(at)
          /\ Retire(p, "reclaim") /\ UNCHANGED attempt
    /\ UNCHANGED <<disk, claim, lease, mine, moved, met>>

\* The unpublished record and the heartbeat file go to whatever directory is
\* at the pathname; only then is its identity compared.
Prepare(p) ==
    /\ pc[p] = "prepare"
    /\ IF at = None
       THEN UNCHANGED <<pending, aged>>
       ELSE pending' = [pending EXCEPT ![at] = @ \cup {p}] /\ aged' = aged \ {at}
    /\ Go(p, IF at = mine[p] THEN "publish" ELSE "cleanup")
    /\ UNCHANGED <<at, used, owner, claim, lease, local, met>>

\* publishOwnerNoReplace: never over another owner. A link needs the pending
\* record beside it; the exclusive write lands in any ownerless directory.
CanPublish(p) ==
    at # None /\ owner[at] = Missing /\ (HardLinks => p \in pending[at])

Publish(p) ==
    /\ pc[p] = "publish"
    /\ IF CanPublish(p)
       THEN /\ owner' = [owner EXCEPT ![at] = p]
            /\ pending' = [pending EXCEPT ![at] = @ \ {p}]
            /\ aged' = aged \ {at}
            /\ Go(p, "confirm")
       ELSE UNCHANGED <<owner, pending, aged>> /\ Go(p, "cleanup")
    /\ UNCHANGED <<at, used, claim, lease, local, met>>

Inside == {p \in Proc : pc[p] = "callback"}

\* The published owner is read back from the directory p created.
Confirm(p) ==
    /\ pc[p] = "confirm"
    /\ IF Current = <<mine[p], p>>
       THEN /\ Go(p, "callback")
            /\ met' = [q \in Proc |-> IF q = p THEN Inside
                                      ELSE IF q \in Inside THEN met[q] \cup {p}
                                      ELSE met[q]]
       ELSE Go(p, "cleanup") /\ UNCHANGED met
    /\ UNCHANGED <<disk, claim, lease, local>>

\* Mutant: the refusal forgets that the lock is already published.
RefuseWithoutRelease(p) ==
    /\ pc[p] = "confirm" /\ Current = <<mine[p], p>>
    /\ Go(p, "failed")
    /\ UNCHANGED <<disk, claim, lease, local, met>>

\* A reset barrier found after the acquisition, or a heartbeat that does not
\* start: the lock is given back and the command refused.
Refuse(p) ==
    /\ pc[p] = "confirm" /\ Current = <<mine[p], p>>
    /\ Retire(p, "refuse")
    /\ UNCHANGED <<disk, claim, lease, mine, attempt, moved, met>>

\* cleanupFailedAcquisition: gives back p's own directory while it has no
\* other owner, or any directory that carries p's record.
Cleanup(p) ==
    /\ pc[p] = "cleanup"
    /\ IF at # None /\ (owner[at] = p \/ Current = <<mine[p], Missing>>)
       THEN Retire(p, "retry") /\ UNCHANGED attempt
       ELSE Again(p) /\ UNCHANGED <<obs, num, next>>
    /\ UNCHANGED <<disk, claim, lease, mine, moved, met>>

(***************************************************************************)
(* Time. The code assumes that a live acquirer publishes within the grace  *)
(* period, that a live holder renews its lease, that its heartbeat does    *)
(* not stop, and that a rename between two siblings is not refused; a      *)
(* strain is one failure of these.                                         *)
(***************************************************************************)
Strain == strains < Strains /\ strains' = strains + 1

Age(g) ==
    /\ at = g /\ owner[g] = Missing /\ g \notin aged
    /\ IF \E p \in Proc : Acquiring(p) /\ mine[p] = g
       THEN Strain ELSE UNCHANGED strains
    /\ aged' = aged \cup {g}
    /\ UNCHANGED <<at, used, owner, pending, claim, lapsed, hbFailed, pc, local, met>>

Lapse(p) ==
    /\ pc[p] = "callback" /\ p \notin lapsed /\ Strain
    /\ lapsed' = lapsed \cup {p}
    /\ UNCHANGED <<disk, claim, hbFailed, pc, local, met>>

Renew(p) ==
    /\ p \in lapsed /\ p \notin hbFailed /\ pc[p] \notin Terminal
    /\ lapsed' = lapsed \ {p}
    /\ UNCHANGED <<disk, claim, hbFailed, strains, pc, local, met>>

\* The heartbeat worker reports that it cannot continue.
HeartbeatFails(p) ==
    /\ pc[p] = "callback" /\ p \notin hbFailed /\ Strain
    /\ hbFailed' = hbFailed \cup {p}
    /\ UNCHANGED <<disk, claim, lapsed, pc, local, met>>

(***************************************************************************)
(* The end of a retirement, by what its caller does with true, false or an *)
(* exception.                                                              *)
(***************************************************************************)
Ended(p) == IF p \in hbFailed THEN "failed" ELSE "released"
\* Mutant: a false release is discarded.
DisturbedQuietly(p) == IF p \in hbFailed THEN "failed" ELSE "released"
Disturbed(p) == IF p \in hbFailed THEN "failed" ELSE "warned"

Return(p, retired) ==
    \/ /\ next[p] \in {"reclaim", "retry"} /\ Again(p)
    \/ /\ next[p] = "refuse" /\ Go(p, "failed") /\ UNCHANGED attempt
    \/ /\ next[p] = "release" /\ UNCHANGED attempt
       /\ Go(p, IF retired THEN Ended(p) ELSE Disturbed(p))

Throw(p) ==
    IF next[p] = "retry"
    THEN Again(p)
    ELSE Go(p, "failed") /\ UNCHANGED attempt

\* The callback has ended; the lock is released if it is still p's, and the
\* command warns when it is not.
Release(p) ==
    /\ pc[p] = "callback"
    /\ IF at # None /\ owner[at] = p
       THEN Retire(p, "release")
       ELSE Go(p, Disturbed(p)) /\ UNCHANGED <<obs, num, next>>
    /\ UNCHANGED <<disk, claim, lease, mine, attempt, moved, met>>

(***************************************************************************)
(* retireObservedDirectory: move exactly the observed generation away.     *)
(***************************************************************************)
MyClaim(p) == <<obs[p], num[p]>>
SetClaim(p, state) == claim' = [claim EXCEPT ![MyClaim(p)] = state]

\* Creator's cleanup: a claim whose destination is a fence is left in place.
DropClaim(p) ==
    IF claim[MyClaim(p)] = "open" THEN SetClaim(p, "absent") ELSE UNCHANGED claim

NextClaim(p) ==
    IF num[p] + 1 < Claims
    THEN /\ num' = [num EXCEPT ![p] = @ + 1]
         /\ Go(p, "claim") /\ UNCHANGED attempt
    ELSE Throw(p) /\ UNCHANGED num

Claim(p) ==
    /\ pc[p] = "claim"
    /\ IF claim[MyClaim(p)] = "absent"
       THEN SetClaim(p, "open") /\ Go(p, "revalidate")
       ELSE Go(p, "inspect") /\ UNCHANGED claim
    /\ UNCHANGED <<disk, lease, local, met>>

\* Somebody else's claim: finished, given up, fenced, young, or abandoned.
Inspect(p) ==
    /\ pc[p] = "inspect"
    /\ \/ claim[MyClaim(p)] \in {"absent", "fenced"} /\ NextClaim(p)
       \/ claim[MyClaim(p)] \in {"retired", "open"}
            /\ Return(p, FALSE) /\ UNCHANGED num
       \/ claim[MyClaim(p)] = "open" /\ Go(p, "fence") /\ UNCHANGED <<num, attempt>>
    /\ UNCHANGED <<disk, claim, lease, obs, mine, next, moved, met>>

Fence(p) ==
    /\ pc[p] = "fence"
    /\ \/ claim[MyClaim(p)] = "open" /\ SetClaim(p, "fenced") /\ NextClaim(p)
       \/ claim[MyClaim(p)] = "fenced" /\ NextClaim(p) /\ UNCHANGED claim
       \/ claim[MyClaim(p)] = "retired" /\ Return(p, FALSE) /\ UNCHANGED <<num, claim>>
       \/ claim[MyClaim(p)] = "absent" /\ Throw(p) /\ UNCHANGED <<num, claim>>
    /\ UNCHANGED <<disk, lease, obs, mine, next, moved, met>>

Revalidate(p) ==
    /\ pc[p] = "revalidate"
    /\ \/ /\ Current = obs[p]
          /\ next[p] = "reclaim" => Stale(at)
          /\ Go(p, "rename") /\ UNCHANGED <<claim, attempt>>
       \/ /\ Current = obs[p] => next[p] = "reclaim" /\ ~Stale(at)
          /\ DropClaim(p) /\ Return(p, FALSE)
    /\ UNCHANGED <<disk, lease, obs, num, mine, next, moved, met>>

\* Mutant: the fence does not stop a delayed rename.
RenameOverFence(p) ==
    /\ pc[p] = "rename"
    /\ IF at = None
       THEN DropClaim(p) /\ Return(p, FALSE) /\ UNCHANGED <<at, moved>>
       ELSE /\ at' = None
            /\ SetClaim(p, "retired") /\ UNCHANGED attempt
            /\ IF Current = obs[p]
               THEN Go(p, "sweep") /\ UNCHANGED moved
               ELSE Go(p, "restore") /\ moved' = [moved EXCEPT ![p] = at]
    /\ UNCHANGED <<used, owner, pending, aged, lease, obs, num, mine, next, met>>

\* A rename cannot replace the fence, and it takes whatever is at the pathname.
Rename(p) ==
    /\ pc[p] = "rename"
    /\ IF at = None \/ claim[MyClaim(p)] = "fenced"
       THEN DropClaim(p) /\ Return(p, FALSE) /\ UNCHANGED <<at, moved>>
       ELSE /\ at' = None
            /\ SetClaim(p, "retired") /\ UNCHANGED attempt
            /\ IF Current = obs[p]
               THEN Go(p, "sweep") /\ UNCHANGED moved
               ELSE Go(p, "restore") /\ moved' = [moved EXCEPT ![p] = at]
    /\ UNCHANGED <<used, owner, pending, aged, lease, obs, num, mine, next, met>>

\* The file system refuses the rename (EPERM, EBUSY).
RenameError(p) ==
    /\ pc[p] = "rename" /\ Strain
    /\ DropClaim(p) /\ Throw(p)
    /\ UNCHANGED <<disk, lapsed, hbFailed, obs, num, mine, next, moved, met>>

Sweep(p) ==
    /\ pc[p] = "sweep"
    /\ SetClaim(p, "absent") /\ Return(p, TRUE)
    /\ UNCHANGED <<disk, lease, obs, num, mine, next, moved, met>>

\* restoreRetiredSuccessor: a new directory at the pathname, then the moved
\* entries without replacing any.
Restore(p) ==
    /\ pc[p] = "restore"
    /\ \/ /\ \E g \in Gen : Create(p, g)
          /\ Go(p, "relink") /\ UNCHANGED attempt
       \/ /\ at # None /\ UNCHANGED <<disk, mine>>
          /\ IF owner[at] = owner[moved[p]] THEN Return(p, FALSE) ELSE Throw(p)
    /\ UNCHANGED <<claim, lease, obs, num, next, moved, met>>

Relink(p) ==
    /\ pc[p] = "relink"
    /\ IF at # None /\ (owner[moved[p]] = Missing \/ owner[at] = Missing)
       THEN /\ pending' = [pending EXCEPT ![at] = @ \cup pending[moved[p]]]
            /\ aged' = aged \ {at}
            /\ IF owner[moved[p]] = Missing
               THEN UNCHANGED owner
               ELSE owner' = [owner EXCEPT ![at] = owner[moved[p]]]
            /\ IF owner'[at] = owner[moved[p]] THEN Return(p, FALSE) ELSE Throw(p)
       ELSE Throw(p) /\ UNCHANGED <<owner, pending, aged>>
    /\ UNCHANGED <<at, used, claim, lease, obs, num, mine, next, moved, met>>

\* The process dies; what it wrote stays.
Crash(p) ==
    /\ p \in MayCrash /\ pc[p] \notin Terminal
    /\ Go(p, "dead")
    /\ UNCHANGED <<disk, claim, lease, local, met>>

Step(p) ==
    \/ Mkdir(p) \/ Observe(p) \/ Prepare(p) \/ Publish(p) \/ Confirm(p)
    \/ Refuse(p) \/ Cleanup(p) \/ Release(p)
    \/ Claim(p) \/ Inspect(p) \/ Fence(p) \/ Revalidate(p)
    \/ Rename(p) \/ RenameError(p) \/ Sweep(p) \/ Restore(p) \/ Relink(p)

Next ==
    \/ \E p \in Proc : \/ Step(p) \/ Crash(p)
                      \/ Lapse(p) \/ Renew(p) \/ HeartbeatFails(p)
    \/ \E g \in Gen : Age(g)

Spec == Init /\ [][Next]_vars

-----------------------------------------------------------------------------
Label == Terminal \cup
    {"mkdir", "observe", "prepare", "publish", "confirm", "cleanup", "callback",
     "claim", "inspect", "fence", "revalidate", "rename", "sweep", "restore", "relink"}
Caller == {"reclaim", "retry", "refuse", "release"}
ClaimState == {"absent", "open", "fenced", "retired"}

TypeOK ==
    /\ at \in used \cup {None} /\ used \subseteq Gen
    /\ owner \in [Gen -> Owner] /\ pending \in [Gen -> SUBSET Proc]
    /\ aged \subseteq Gen /\ lapsed \subseteq Proc /\ hbFailed \subseteq Proc
    /\ strains \in Nat /\ strains <= Strains
    /\ claim \in [Id \X (0 .. Claims - 1) -> ClaimState]
    /\ pc \in [Proc -> Label]
    /\ obs \in [Proc -> (Gen \cup {None}) \X Owner]
    /\ num \in [Proc -> 0 .. Claims - 1]
    /\ mine \in [Proc -> Gen \cup {None}]
    /\ next \in [Proc -> Caller]
    /\ attempt \in [Proc -> 1 .. Attempts]
    /\ moved \in [Proc -> Gen \cup {None}]
    /\ met \in [Proc -> SUBSET Proc]

\* Two callbacks of one subject never run at the same time, as long as no
\* assumption about time or renames has failed.
MutualExclusion == strains = 0 => \A p, q \in Inside : p = q

\* "Move exactly one observed directory generation out of the acquisition
\* pathname": what a rename takes is what its claim was made for, under the
\* same assumptions.
MovesOnlyObserved ==
    [][strains = 0 /\ at # None /\ at' = None =>
         \E p \in Proc : pc[p] = "rename" /\ obs[p] = Current]_vars

\* When two callbacks did overlap, at least one of the two commands says so.
NoSilentOverlap ==
    \A p, q \in Proc : q \in met[p] => ~(pc[p] = "released" /\ pc[q] = "released")

\* And it always does unless a rename carried away a directory other than the
\* one it had observed, however slow, expired or refused anything was.
OverlapIsReported == (\A p \in Proc : moved[p] = None) => NoSilentOverlap

\* A command that ended, however it ended, does not leave its record at the
\* pathname, where a live process identity would hold the lock for nobody,
\* as long as no assumption about time or renames has failed.
NothingLeftBehind ==
    strains = 0 =>
        \A p \in Proc : pc[p] \in Terminal \ {"dead"} => at = None \/ owner[at] # p
=============================================================================
