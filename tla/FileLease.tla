------------------------------ MODULE FileLease ------------------------------
(***************************************************************************)
(* The lease of a file or of a private store (src/src/file-lease.mjs): a   *)
(* file created exclusively at a fixed pathname.  Registries               *)
(* (withRegistryFileLease) judge it by the age of its heartbeat, caches    *)
(* (acquireFileLease) by the death of the process it names.  A stale lease *)
(* is renamed away under a numbered claim; unlike those of the subject     *)
(* lock, claims are never deleted and nothing is checked after the rename. *)
(*                                                                         *)
(* policy says whose lease it is.  A cache operation runs child processes in   *)
(* the store, under a record that says so.  Every step is one access to    *)
(* the file system.                                                        *)
(***************************************************************************)
EXTENDS Naturals

CONSTANTS
    Proc,           \* acquisitions: each takes and releases the lease once
    Gen,            \* files created at the pathname
    None,
    Claims,         \* REGISTRY_RECLAIM_GENERATIONS
    MayCrash,       \* acquisitions whose process may die
    Quarantines,    \* legacyQuarantine: an unreadable record is never stale
    Lapses          \* a live holder's heartbeat may stop for good

ASSUME LeaseAssumption ==
    /\ Claims \in Nat \ {0}
    /\ None \notin Gen /\ None \notin Proc /\ MayCrash \subseteq Proc
    /\ Quarantines \in BOOLEAN /\ Lapses \in BOOLEAN

VARIABLES
    at,         \* the file at the lease's pathname, or None
    used,       \* files created so far
    text,       \* text[g]: "empty", "owner" or "protected"
    by,         \* by[g]: the process its record names, or None
    aged,       \* files not touched for longer than their grace period
    claim,      \* claim[id, n]: state of claim n of an observed identity
    policy,     \* whose lease it is, "registry" or "cache"; never changes
    children,   \* processes whose child still runs in the store
    abandoned,  \* the store was left by an operation that died in it
    pc, obs, num, mine, reclaimed   \* per process, see Init

disk == <<at, used, text, by, aged>>
store == <<policy, children, abandoned>>
local == <<obs, num, mine, reclaimed>>
vars == <<disk, claim, store, pc, local>>

Text == {"empty", "owner", "protected"}
Id == (Gen \cup {None}) \X Text
Terminal == {"done", "busy", "failed", "dead"}
Working == {"rebuild", "holding", "truncated", "running", "retaining"}
Reclaiming == {"claim", "inspect", "fence", "revalidate", "rename"}

\* Bytes and inode as one read sees them.
Current == <<at, text[at]>>

Alive == {p \in Proc : pc[p] \notin Terminal}

\* Mutant: without a readable owner a cache lease goes by its age as well.
StaleByAge(g) ==
    \/ policy = "registry" /\ g \in aged
    \/ policy = "cache" /\ text[g] = "owner" /\ by[g] \notin Alive
    \/ policy = "cache" /\ text[g] = "empty" /\ g \in aged

\* A registry lease goes by its heartbeat alone.  A cache lease is stale when
\* its owner is dead and had announced no children; a record cut short by a
\* death only when the caller has no children to fear.
Stale(g) ==
    \/ policy = "registry" /\ g \in aged
    \/ policy = "cache" /\ text[g] = "owner" /\ by[g] \notin Alive
    \/ policy = "cache" /\ text[g] = "empty" /\ ~Quarantines /\ g \in aged

Init ==
    /\ at = None /\ used = {} /\ aged = {}
    /\ text = [g \in Gen |-> "empty"] /\ by = [g \in Gen |-> None]
    /\ claim = [i \in Id \X (0 .. Claims - 1) |-> "absent"]
    /\ policy \in {"registry", "cache"}
    /\ children = {} /\ abandoned = FALSE
    /\ pc = [p \in Proc |-> "open"]
    /\ obs = [p \in Proc |-> <<None, "empty">>]   \* what it wants to retire
    /\ num = [p \in Proc |-> 0]                   \* claim number being tried
    /\ mine = [p \in Proc |-> None]               \* the file it has created
    /\ reclaimed = [p \in Proc |-> FALSE]

Go(p, label) == pc' = [pc EXCEPT ![p] = label]

(***************************************************************************)
(* Acquisition.                                                            *)
(***************************************************************************)
Open(p) ==
    /\ pc[p] = "open" /\ at = None
    /\ \E g \in Gen \ used :
         /\ at' = g /\ used' = used \cup {g}
         /\ mine' = [mine EXCEPT ![p] = g]
    /\ Go(p, "fill")
    /\ UNCHANGED <<text, by, aged, claim, store, obs, num, reclaimed>>

\* The wait is over, or the caller does not wait.
GiveUp(p) ==
    /\ pc[p] = "open" /\ at # None /\ ~Stale(at)
    /\ Go(p, "busy")
    /\ UNCHANGED <<disk, claim, store, local>>

Observe(p) ==
    /\ pc[p] = "open" /\ at # None /\ Stale(at)
    /\ obs' = [obs EXCEPT ![p] = Current]
    /\ num' = [num EXCEPT ![p] = 0]
    /\ Go(p, "claim")
    /\ UNCHANGED <<disk, claim, store, mine, reclaimed>>

\* Mutant: the operation starts without the callback.
FillAndHold(p) ==
    /\ pc[p] = "fill"
    /\ text' = [text EXCEPT ![mine[p]] = "owner"]
    /\ by' = [by EXCEPT ![mine[p]] = p]
    /\ Go(p, "holding")
    /\ UNCHANGED <<at, used, aged, claim, store, local>>

\* The owner record goes through the open file, wherever it is by now.
Fill(p) ==
    /\ pc[p] = "fill"
    /\ text' = [text EXCEPT ![mine[p]] = "owner"]
    /\ by' = [by EXCEPT ![mine[p]] = p]
    /\ Go(p, IF reclaimed[p] /\ policy = "cache" THEN "rebuild" ELSE "holding")
    /\ UNCHANGED <<at, used, aged, claim, store, local>>

\* A registry removes its candidate by inode; a cache has recorded no bytes
\* yet and leaves the file.
FillFails(p) ==
    /\ pc[p] = "fill"
    /\ Go(p, IF policy = "registry" /\ at = mine[p] THEN "remove" ELSE "failed")
    /\ UNCHANGED <<disk, claim, store, local>>

\* onReclaimed: what the dead operation left is moved aside.
Rebuild(p) ==
    /\ pc[p] = "rebuild"
    /\ abandoned' = FALSE
    /\ Go(p, "holding")
    /\ UNCHANGED <<disk, claim, policy, children, local>>

(***************************************************************************)
(* The operation.                                                          *)
(***************************************************************************)
Owns(p) == at = mine[p] /\ by[at] = p

\* protect: the record is truncated and written again, if it is still p's.
Truncate(p) ==
    /\ pc[p] = "holding" /\ policy = "cache"
    /\ IF Owns(p)
       THEN text' = [text EXCEPT ![at] = "empty"] /\ Go(p, "truncated")
       ELSE UNCHANGED text /\ Go(p, "failed")
    /\ UNCHANGED <<at, used, by, aged, claim, store, local>>

Protect(p) ==
    /\ pc[p] = "truncated"
    /\ text' = [text EXCEPT ![mine[p]] = "protected"]
    /\ Go(p, "running")
    /\ UNCHANGED <<at, used, by, aged, claim, store, local>>

Spawn(p) ==
    /\ pc[p] = "running" /\ p \notin children
    /\ children' = children \cup {p}
    /\ UNCHANGED <<disk, claim, policy, abandoned, pc, local>>

ChildExits(p) ==
    /\ p \in children
    /\ children' = children \ {p}
    /\ UNCHANGED <<disk, claim, policy, abandoned, pc, local>>

\* Every child is known to have ended.
Complete(p) ==
    /\ \/ policy = "registry" /\ pc[p] = "holding"
       \/ policy = "cache" /\ pc[p] = "running" /\ p \notin children
    /\ Go(p, IF Owns(p) THEN "remove" ELSE "failed")
    /\ UNCHANGED <<disk, claim, store, local>>

\* retainQuarantine: the outcome of a child is unknown, so the record, written
\* anew, stays, and with it the fence.
Abandon(p) ==
    /\ pc[p] = "running"
    /\ IF Owns(p)
       THEN text' = [text EXCEPT ![at] = "empty"] /\ Go(p, "retaining")
       ELSE UNCHANGED text /\ Go(p, "failed")
    /\ UNCHANGED <<at, used, by, aged, claim, store, local>>

Retain(p) ==
    /\ pc[p] = "retaining"
    /\ text' = [text EXCEPT ![mine[p]] = "protected"]
    /\ abandoned' = TRUE
    /\ Go(p, "failed")
    /\ UNCHANGED <<at, used, by, aged, claim, policy, children, local>>

\* rm of the pathname, after the check of what is there.
Remove(p) ==
    /\ pc[p] = "remove"
    /\ at' = None
    /\ Go(p, "done")
    /\ UNCHANGED <<used, text, by, aged, claim, store, local>>

\* A heartbeat keeps the file of a live process young, from before its record
\* is written; a cache has none, and its empty record may take too long.
Age(g) ==
    /\ at = g /\ g \notin aged
    /\ Lapses \/ \A p \in Alive : mine[p] # g
    /\ aged' = aged \cup {g}
    /\ UNCHANGED <<at, used, text, by, claim, store, pc, local>>

(***************************************************************************)
(* reclaimRegistryFileLease.                                               *)
(***************************************************************************)
MyClaim(p) == <<obs[p], num[p]>>
SetClaim(p, state) == claim' = [claim EXCEPT ![MyClaim(p)] = state]

\* Not reclaimed: the loop of the acquisition goes on.
Return(p) == Go(p, "open") /\ UNCHANGED num

NextClaim(p) ==
    IF num[p] + 1 < Claims
    THEN num' = [num EXCEPT ![p] = @ + 1] /\ Go(p, "claim")
    ELSE UNCHANGED num /\ Go(p, "failed")

Claim(p) ==
    /\ pc[p] = "claim"
    /\ IF claim[MyClaim(p)] = "absent"
       THEN SetClaim(p, "open") /\ Go(p, "revalidate")
       ELSE UNCHANGED claim /\ Go(p, "inspect")
    /\ UNCHANGED <<disk, store, local>>

\* A claim of somebody else: done, fenced, young, or abandoned.
Inspect(p) ==
    /\ pc[p] = "inspect"
    /\ \/ claim[MyClaim(p)] = "fenced" /\ NextClaim(p)
       \/ claim[MyClaim(p)] \in {"retired", "open"} /\ Return(p)
       \/ claim[MyClaim(p)] = "open" /\ Go(p, "fence") /\ UNCHANGED num
    /\ UNCHANGED <<disk, claim, store, obs, mine, reclaimed>>

\* Mutant: an abandoned claim is passed over without a fence.
FenceNothing(p) ==
    /\ pc[p] = "fence"
    /\ \/ claim[MyClaim(p)] \in {"open", "fenced"} /\ NextClaim(p)
       \/ claim[MyClaim(p)] = "retired" /\ Return(p)
    /\ UNCHANGED <<disk, claim, store, obs, mine, reclaimed>>

\* A directory at the destination, over which no rename can go.
Fence(p) ==
    /\ pc[p] = "fence"
    /\ \/ claim[MyClaim(p)] = "open" /\ SetClaim(p, "fenced") /\ NextClaim(p)
       \/ claim[MyClaim(p)] = "fenced" /\ NextClaim(p) /\ UNCHANGED claim
       \/ claim[MyClaim(p)] = "retired" /\ Return(p) /\ UNCHANGED claim
    /\ UNCHANGED <<disk, store, obs, mine, reclaimed>>

\* The claimant looks again, after it has the claim.
Revalidate(p) ==
    /\ pc[p] = "revalidate"
    /\ IF at # None /\ Current = obs[p] /\ Stale(at)
       THEN Go(p, "rename") ELSE Go(p, "open")
    /\ UNCHANGED <<disk, claim, store, local>>

\* Mutant: the destination of a fenced claim is replaced.
RenameOverFence(p) ==
    /\ pc[p] = "rename"
    /\ IF at = None
       THEN UNCHANGED <<at, claim, reclaimed>>
       ELSE /\ at' = None /\ SetClaim(p, "retired")
            /\ reclaimed' = [reclaimed EXCEPT ![p] = TRUE]
    /\ Go(p, "open")
    /\ UNCHANGED <<used, text, by, aged, store, obs, num, mine>>

\* A rename takes whatever is at the pathname, unless its claim is fenced.
Rename(p) ==
    /\ pc[p] = "rename"
    /\ IF at = None \/ claim[MyClaim(p)] = "fenced"
       THEN UNCHANGED <<at, claim, reclaimed>>
       ELSE /\ at' = None /\ SetClaim(p, "retired")
            /\ reclaimed' = [reclaimed EXCEPT ![p] = TRUE]
    /\ Go(p, "open")
    /\ UNCHANGED <<used, text, by, aged, store, obs, num, mine>>

\* The process dies; its children and its files stay.
Crash(p) ==
    /\ p \in MayCrash /\ p \in Alive
    /\ abandoned' = (abandoned \/ pc[p] \in Working)
    /\ Go(p, "dead")
    /\ UNCHANGED <<disk, claim, policy, children, local>>

Step(p) ==
    \/ Open(p) \/ GiveUp(p) \/ Observe(p) \/ Fill(p) \/ FillFails(p) \/ Rebuild(p)
    \/ Truncate(p) \/ Protect(p) \/ Spawn(p) \/ Complete(p) \/ Abandon(p)
    \/ Retain(p) \/ Remove(p)
    \/ Claim(p) \/ Inspect(p) \/ Fence(p) \/ Revalidate(p) \/ Rename(p)

Next ==
    \/ \E p \in Proc : Step(p) \/ ChildExits(p) \/ Crash(p)
    \/ \E g \in Gen : Age(g)

Spec == Init /\ [][Next]_vars

-----------------------------------------------------------------------------
Label == Terminal \cup Working \cup Reclaiming \cup {"open", "fill", "remove"}
ClaimState == {"absent", "open", "fenced", "retired"}

TypeOK ==
    /\ at \in used \cup {None} /\ used \subseteq Gen /\ aged \subseteq Gen
    /\ text \in [Gen -> Text] /\ by \in [Gen -> Proc \cup {None}]
    /\ claim \in [Id \X (0 .. Claims - 1) -> ClaimState]
    /\ policy \in {"registry", "cache"}
    /\ children \subseteq Proc /\ abandoned \in BOOLEAN
    /\ pc \in [Proc -> Label]
    /\ obs \in [Proc -> Id] /\ num \in [Proc -> 0 .. Claims - 1]
    /\ mine \in [Proc -> Gen \cup {None}] /\ reclaimed \in [Proc -> BOOLEAN]

\* Two operations never work under the lease at the same time.
Exclusive == \A p, q \in Proc : pc[p] \in Working /\ pc[q] \in Working => p = q

\* No operation works in a store in which the child of another still runs, even
\* when the other has died at any point after it started the child.
NoneBeneathAChild ==
    \A p \in Proc : pc[p] \in Working => children \subseteq {p}

\* "Reclaim exactly one observed stale lease": whoever empties the pathname
\* renames what it observed or removes what it created.
VacatesOnlyItsOwn ==
    [][at # None /\ at' = None =>
        \E p \in Proc : \/ pc[p] = "rename" /\ \E t \in Text : obs[p] = <<at, t>>
                        \/ pc[p] = "remove" /\ mine[p] = at]_vars

\* "rebuild under the fresh lease so neither old objects nor receipts can be
\* reused": a process that retired a dead cache lease itself never runs in what an
\* operation left, whoever opened the lease and died in between.
ReclaimerRebuilds ==
    \A p \in Proc : policy = "cache" /\ reclaimed[p] /\ pc[p] = "running" => ~abandoned
=============================================================================
