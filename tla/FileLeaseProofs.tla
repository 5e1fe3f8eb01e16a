---------------------------- MODULE FileLeaseProofs ----------------------------
(***************************************************************************)
(* Why the lease of FileLease.tla is exclusive for any number of processes,*)
(* files and claims, as long as no live holder's heartbeat lapses.         *)
(***************************************************************************)
EXTENDS FileLease, TLAPS

Owning == {"fill", "remove"} \cup Working
Orphan(g) == \A q \in Alive : mine[q] # g

\* No file has two makers, and a process that waits or reclaims has none.
OneMaker ==
    /\ \A p \in Proc : pc[p] = "open" \/ pc[p] \in Reclaiming => mine[p] = None
    /\ \A p \in Proc : mine[p] \in used \cup {None}
    /\ \A p, q \in Proc : mine[p] = mine[q] /\ mine[p] # None => p = q

\* A record names the process that made the file.
RecordsMaker ==
    \A g \in Gen : /\ by[g] # None => mine[by[g]] = g
                   /\ text[g] = "owner" => by[g] # None
                   /\ g \notin used => by[g] = None

\* Without a lapse of the heartbeat only an orphan ages.
AgedIsOrphan == \A g \in aged : g \in used /\ Orphan(g)

\* From the record on, the pathname holds what the process made.
HoldsOwn == \A p \in Proc : pc[p] \in Owning => at = mine[p] /\ mine[p] # None

\* What a reclaimer wants to retire is orphaned and no longer changes;
\* under a quarantining cache it announced no children.
Observed ==
    \A p \in Proc : pc[p] \in Reclaiming =>
        \E g \in used, t \in Text :
            /\ obs[p] = <<g, t>> /\ Orphan(g) /\ text[g] = t
            /\ policy = "cache" /\ Quarantines => t = "owner"

\* A claim exists only above fenced ones.
FencedBelow ==
    \A i \in Id, m, n \in 0 .. Claims - 1 :
        m < n /\ claim[<<i, n>>] # "absent" => claim[<<i, m>>] = "fenced"

\* A reclaimer has passed only fenced claims.
TriesAbove ==
    \A p \in Proc, m \in 0 .. Claims - 1 :
        pc[p] \in Reclaiming /\ m < num[p] => claim[<<obs[p], m>>] = "fenced"

\* Who is about to rename made its claim: it is open or fenced by another.
OwnsClaim ==
    /\ \A p \in Proc : pc[p] \in {"revalidate", "rename"} =>
         claim[MyClaim(p)] \in {"open", "fenced"}
    /\ \A p, q \in Proc :
         pc[p] \in {"revalidate", "rename"} /\ pc[q] \in {"revalidate", "rename"}
            /\ MyClaim(p) = MyClaim(q) => p = q

\* A claim that is inspected exists.
Tried == \A p \in Proc : pc[p] \in {"inspect", "fence"} => claim[MyClaim(p)] # "absent"

\* The heart: as long as its claim is open, nobody else can have emptied the
\* pathname, so the renamer still faces what it observed.
OpenIsCurrent ==
    \A p \in Proc : pc[p] = "rename" /\ claim[MyClaim(p)] = "open" =>
        \E t \in Text : obs[p] = <<at, t>>

\* While a child runs, the pathname holds a record that is never stale.
ChildIsFenced ==
    /\ policy = "registry" =>
         children = {} /\ \A p \in Proc : pc[p] \notin {"truncated", "running", "retaining"}
    /\ \A p \in children : at = mine[p] /\ mine[p] # None
    /\ \A p \in children : pc[p] \notin {"open", "fill", "rebuild", "holding",
                                          "truncated", "remove"} \cup Reclaiming
    /\ \A p \in children : text[mine[p]] # "owner"
    /\ \A p \in Proc : pc[p] = "running" => text[mine[p]] = "protected"

-----------------------------------------------------------------------------
LEMMA TypeInit == Init => TypeOK
<1> SUFFICES ASSUME Init PROVE TypeOK
  OBVIOUS
<1>1. 0 \in 0 .. Claims - 1
  BY LeaseAssumption
<1>2. claim \in [Id \X (0 .. Claims - 1) -> ClaimState]
  BY DEF Init, ClaimState
<1>3. obs \in [Proc -> Id]
  BY DEF Init, Id, Text
<1>4. pc \in [Proc -> Label]
  BY DEF Init, Label
<1> QED  BY <1>1, <1>2, <1>3, <1>4 DEF Init, TypeOK, Text

LEMMA TypeStep ==
    ASSUME TypeOK, [Next]_vars PROVE TypeOK'
<1> USE DEF TypeOK, Label, Terminal, Working, Reclaiming, Text, ClaimState, disk, store, local
<1>1. ASSUME NEW p \in Proc, Open(p) PROVE TypeOK'
  BY <1>1, LeaseAssumption DEF Open, Go
<1>2. ASSUME NEW p \in Proc, GiveUp(p) PROVE TypeOK'
  BY <1>2, LeaseAssumption DEF GiveUp, Go
<1>3. ASSUME NEW p \in Proc, Observe(p) PROVE TypeOK'
  BY <1>3, LeaseAssumption DEF Observe, Go, Current, Id
<1>4. ASSUME NEW p \in Proc, Fill(p) PROVE TypeOK'
  BY <1>4, LeaseAssumption DEF Fill, Go
<1>5. ASSUME NEW p \in Proc, FillFails(p) PROVE TypeOK'
  BY <1>5, LeaseAssumption DEF FillFails, Go
<1>6. ASSUME NEW p \in Proc, Rebuild(p) PROVE TypeOK'
  BY <1>6, LeaseAssumption DEF Rebuild, Go
<1>7. ASSUME NEW p \in Proc, Truncate(p) PROVE TypeOK'
  BY <1>7, LeaseAssumption DEF Truncate, Go, Owns
<1>8. ASSUME NEW p \in Proc, Protect(p) PROVE TypeOK'
  BY <1>8, LeaseAssumption DEF Protect, Go
<1>9. ASSUME NEW p \in Proc, Spawn(p) PROVE TypeOK'
  BY <1>9, LeaseAssumption DEF Spawn, Go
<1>10. ASSUME NEW p \in Proc, Complete(p) PROVE TypeOK'
  BY <1>10, LeaseAssumption DEF Complete, Go, Owns
<1>11. ASSUME NEW p \in Proc, Abandon(p) PROVE TypeOK'
  BY <1>11, LeaseAssumption DEF Abandon, Go, Owns
<1>12. ASSUME NEW p \in Proc, Retain(p) PROVE TypeOK'
  BY <1>12, LeaseAssumption DEF Retain, Go
<1>13. ASSUME NEW p \in Proc, Remove(p) PROVE TypeOK'
  BY <1>13, LeaseAssumption DEF Remove, Go
<1>14. ASSUME NEW p \in Proc, Claim(p) PROVE TypeOK'
  BY <1>14, LeaseAssumption DEF Claim, Go, SetClaim, MyClaim
<1>15. ASSUME NEW p \in Proc, Inspect(p) PROVE TypeOK'
  BY <1>15, LeaseAssumption DEF Inspect, Go, NextClaim, Return, MyClaim
<1>16. ASSUME NEW p \in Proc, Fence(p) PROVE TypeOK'
  BY <1>16, LeaseAssumption DEF Fence, Go, NextClaim, Return, SetClaim, MyClaim
<1>17. ASSUME NEW p \in Proc, Revalidate(p) PROVE TypeOK'
  BY <1>17, LeaseAssumption DEF Revalidate, Go, Current, Return, NextClaim
<1>18. ASSUME NEW p \in Proc, Rename(p) PROVE TypeOK'
  BY <1>18, LeaseAssumption DEF Rename, Go, SetClaim, MyClaim
<1>19. ASSUME NEW p \in Proc, ChildExits(p) PROVE TypeOK'
  BY <1>19 DEF ChildExits, Go, Alive
<1>20. ASSUME NEW p \in Proc, Crash(p) PROVE TypeOK'
  BY <1>20 DEF Crash, Go, Alive
<1>21. ASSUME NEW g \in Gen, Age(g) PROVE TypeOK'
  BY <1>21 DEF Age
<1>22. CASE UNCHANGED vars
  BY <1>22 DEF vars
<1> QED
  BY <1>1, <1>2, <1>3, <1>4, <1>5, <1>6, <1>7, <1>8, <1>9, <1>10, <1>11,
           <1>12, <1>13, <1>14, <1>15, <1>16, <1>17, <1>18, <1>19, <1>20, <1>21, <1>22
  DEF Next, Step

\* What is found stale is nobody's, so nobody will write or remove it.
LEMMA StaleIsOrphan ==
    ASSUME TypeOK, AgedIsOrphan, RecordsMaker, OneMaker, at # None, Stale(at)
    PROVE  Orphan(at)
<1>1. CASE at \in aged
  BY <1>1 DEF AgedIsOrphan
<1>2. CASE text[at] = "owner" /\ by[at] \notin Alive
  BY <1>2 DEF TypeOK, RecordsMaker, OneMaker, Orphan, Alive
<1> QED  BY <1>1, <1>2 DEF Stale

\* A renamer whose claim is open meets an orphan: nobody works under the lease.
LEMMA RenamerFoundAnOrphan ==
    ASSUME TypeOK, Observed, HoldsOwn, OpenIsCurrent,
           NEW p \in Proc, pc[p] = "rename", claim[MyClaim(p)] = "open"
    PROVE  at # None /\ Orphan(at) /\ \A q \in Proc : pc[q] \notin Owning
<1>1. PICK g \in used, t \in Text : obs[p] = <<g, t>> /\ Orphan(g)
  BY DEF Observed, Reclaiming
<1>2. PICK u \in Text : obs[p] = <<at, u>>
  BY DEF OpenIsCurrent
<1>3. at = g
  BY <1>1, <1>2
<1>4. at # None
  BY <1>3, LeaseAssumption DEF TypeOK
<1>5. ASSUME NEW q \in Proc, pc[q] \in Owning PROVE FALSE
  BY <1>1, <1>3, <1>5 DEF HoldsOwn, Orphan, Alive, Owning, Working, Terminal
<1> QED  BY <1>1, <1>3, <1>4, <1>5

\* The numbering of claims: at most one renamer has an open claim.
LEMMA OneOpenClaim ==
    ASSUME TypeOK, Observed, OpenIsCurrent, FencedBelow, OwnsClaim,
           NEW p \in Proc, NEW q \in Proc, pc[p] = "rename", pc[q] = "rename",
           claim[MyClaim(p)] = "open", claim[MyClaim(q)] = "open"
    PROVE  p = q
<1>1. obs[p] = obs[q]
  BY DEF Observed, OpenIsCurrent, Reclaiming
<1>2. obs[p] \in Id /\ num[p] \in 0 .. Claims - 1 /\ num[q] \in 0 .. Claims - 1
  BY DEF TypeOK
<1>3. ~(num[p] < num[q]) /\ ~(num[q] < num[p])
  BY <1>1, <1>2 DEF FencedBelow, MyClaim
<1>4. num[p] = num[q]
  BY <1>2, <1>3
<1> QED  BY <1>1, <1>4 DEF OwnsClaim, MyClaim

LEMMA StepOneMaker ==
    ASSUME TypeOK, OneMaker, ~Lapses, [Next]_vars
    PROVE  OneMaker'
<1> USE LeaseAssumption DEF TypeOK, OneMaker,
      Orphan, Alive, Label, Terminal, Working, Owning, Reclaiming, Text, disk, store, local,
      MyClaim, Go
<1>1. ASSUME NEW p \in Proc, 
               GiveUp(p) \/ FillFails(p) \/ Rebuild(p) \/ Spawn(p) \/ Complete(p) \/ Revalidate(p)
      PROVE OneMaker'
  BY <1>1 DEF GiveUp, FillFails, Rebuild, Spawn, Complete, Revalidate, Owns, Current, Return
<1>2. ASSUME NEW p \in Proc, 
               Fill(p) \/ Truncate(p) \/ Protect(p) \/ Abandon(p) \/ Retain(p)
      PROVE OneMaker'
  BY <1>2 DEF Fill, Truncate, Protect, Abandon, Retain, Owns
<1>3. ASSUME NEW p \in Proc, Open(p) PROVE OneMaker'
  BY <1>3 DEF Open
<1>4. ASSUME NEW p \in Proc, Remove(p) PROVE OneMaker'
  BY <1>4 DEF Remove
<1>5. ASSUME NEW p \in Proc, Observe(p) PROVE OneMaker'
  BY <1>5 DEF Observe, Current, Id
<1>6. ASSUME NEW p \in Proc, Inspect(p) PROVE OneMaker'
  BY <1>6 DEF Inspect, NextClaim, Return
<1>7. ASSUME NEW p \in Proc, Claim(p) PROVE OneMaker'
  BY <1>7 DEF Claim, SetClaim
<1>8. ASSUME NEW p \in Proc, Fence(p) PROVE OneMaker'
  BY <1>8 DEF Fence, NextClaim, Return, SetClaim
<1>9. ASSUME NEW p \in Proc, Rename(p) PROVE OneMaker'
  BY <1>9 DEF Rename, SetClaim
<1>10. ASSUME NEW p \in Proc, ChildExits(p) \/ Crash(p) PROVE OneMaker'
  BY <1>10 DEF ChildExits, Crash
<1>11. ASSUME NEW g \in Gen, Age(g) PROVE OneMaker'
  BY <1>11 DEF Age
<1>12. CASE UNCHANGED vars
  BY <1>12 DEF vars
<1> QED
  BY <1>1, <1>2, <1>3, <1>4, <1>5, <1>6, <1>7, <1>8, <1>9, <1>10, <1>11,
           <1>12
  DEF Next, Step

LEMMA StepRecordsMaker ==
    ASSUME TypeOK, RecordsMaker, OneMaker, HoldsOwn, ~Lapses, [Next]_vars
    PROVE  RecordsMaker'
<1> USE LeaseAssumption DEF TypeOK, RecordsMaker, OneMaker, HoldsOwn,
      Orphan, Alive, Label, Terminal, Working, Owning, Reclaiming, Text, disk, store, local,
      MyClaim, Go
<1>1. ASSUME NEW p \in Proc, 
               GiveUp(p) \/ FillFails(p) \/ Rebuild(p) \/ Spawn(p) \/ Complete(p) \/ Revalidate(p)
      PROVE RecordsMaker'
  BY <1>1 DEF GiveUp, FillFails, Rebuild, Spawn, Complete, Revalidate, Owns, Current, Return
<1>2. ASSUME NEW p \in Proc, 
               Fill(p) \/ Truncate(p) \/ Protect(p) \/ Abandon(p) \/ Retain(p)
      PROVE RecordsMaker'
  BY <1>2 DEF Fill, Truncate, Protect, Abandon, Retain, Owns
<1>3. ASSUME NEW p \in Proc, Open(p) PROVE RecordsMaker'
  BY <1>3 DEF Open
<1>4. ASSUME NEW p \in Proc, Remove(p) PROVE RecordsMaker'
  BY <1>4 DEF Remove
<1>5. ASSUME NEW p \in Proc, Observe(p) PROVE RecordsMaker'
  BY <1>5 DEF Observe, Current, Id
<1>6. ASSUME NEW p \in Proc, Inspect(p) PROVE RecordsMaker'
  BY <1>6 DEF Inspect, NextClaim, Return
<1>7. ASSUME NEW p \in Proc, Claim(p) PROVE RecordsMaker'
  BY <1>7 DEF Claim, SetClaim
<1>8. ASSUME NEW p \in Proc, Fence(p) PROVE RecordsMaker'
  BY <1>8 DEF Fence, NextClaim, Return, SetClaim
<1>9. ASSUME NEW p \in Proc, Rename(p) PROVE RecordsMaker'
  BY <1>9 DEF Rename, SetClaim
<1>10. ASSUME NEW p \in Proc, ChildExits(p) \/ Crash(p) PROVE RecordsMaker'
  BY <1>10 DEF ChildExits, Crash
<1>11. ASSUME NEW g \in Gen, Age(g) PROVE RecordsMaker'
  BY <1>11 DEF Age
<1>12. CASE UNCHANGED vars
  BY <1>12 DEF vars
<1> QED
  BY <1>1, <1>2, <1>3, <1>4, <1>5, <1>6, <1>7, <1>8, <1>9, <1>10, <1>11,
           <1>12
  DEF Next, Step

\* Nobody changes whose lease it is.
LEMMA PolicyKept == [Next]_vars => UNCHANGED policy
<1> USE DEF store
<1> SUFFICES ASSUME [Next]_vars PROVE UNCHANGED policy
  OBVIOUS
<1>1. ASSUME NEW p \in Proc,
             \/ Open(p) \/ GiveUp(p) \/ Observe(p) \/ Fill(p) \/ FillFails(p) \/ Rebuild(p)
             \/ Truncate(p) \/ Protect(p) \/ Spawn(p) \/ Complete(p)
      PROVE  UNCHANGED policy
  BY <1>1 DEF Open, GiveUp, Observe, Fill, FillFails, Rebuild, Truncate, Protect,
              Spawn, Complete
<1>2. ASSUME NEW p \in Proc,
             \/ Abandon(p) \/ Retain(p) \/ Remove(p) \/ Claim(p) \/ Inspect(p)
             \/ Fence(p) \/ Revalidate(p) \/ Rename(p) \/ ChildExits(p) \/ Crash(p)
      PROVE  UNCHANGED policy
  BY <1>2 DEF Abandon, Retain, Remove, Claim, Inspect, Fence, Revalidate, Rename,
              ChildExits, Crash
<1>3. CASE (\E g \in Gen : Age(g)) \/ UNCHANGED vars
  BY <1>3 DEF Age, vars
<1> QED  BY <1>1, <1>2, <1>3 DEF Next, Step

LEMMA StepAgedIsOrphan ==
    ASSUME TypeOK, AgedIsOrphan, OneMaker, ~Lapses, [Next]_vars
    PROVE  AgedIsOrphan'
<1> USE LeaseAssumption DEF TypeOK, AgedIsOrphan, OneMaker,
      Orphan, Alive, Label, Terminal, Working, Owning, Reclaiming, Text, disk, store, local,
      MyClaim, Go
<1>1. ASSUME NEW p \in Proc, 
               GiveUp(p) \/ FillFails(p) \/ Rebuild(p) \/ Spawn(p) \/ Complete(p) \/ Revalidate(p)
      PROVE AgedIsOrphan'
  BY <1>1 DEF GiveUp, FillFails, Rebuild, Spawn, Complete, Revalidate, Owns, Current, Return
<1>2. ASSUME NEW p \in Proc, 
               Fill(p) \/ Truncate(p) \/ Protect(p) \/ Abandon(p) \/ Retain(p)
      PROVE AgedIsOrphan'
  <2>1. ASSUME Fill(p) PROVE AgedIsOrphan'
    BY <2>1 DEF Fill
  <2>2. ASSUME Truncate(p) \/ Protect(p) PROVE AgedIsOrphan'
    BY <2>2 DEF Truncate, Protect, Owns
  <2>3. ASSUME Abandon(p) \/ Retain(p) PROVE AgedIsOrphan'
    BY <2>3 DEF Abandon, Retain, Owns
  <2> QED  BY <1>2, <2>1, <2>2, <2>3
<1>3. ASSUME NEW p \in Proc, Open(p) PROVE AgedIsOrphan'
  BY <1>3 DEF Open
<1>4. ASSUME NEW p \in Proc, Remove(p) PROVE AgedIsOrphan'
  BY <1>4 DEF Remove
<1>5. ASSUME NEW p \in Proc, Observe(p) PROVE AgedIsOrphan'
  BY <1>5 DEF Observe, Current, Id
<1>6. ASSUME NEW p \in Proc, Inspect(p) PROVE AgedIsOrphan'
  BY <1>6 DEF Inspect, NextClaim, Return
<1>7. ASSUME NEW p \in Proc, Claim(p) PROVE AgedIsOrphan'
  BY <1>7 DEF Claim, SetClaim
<1>8. ASSUME NEW p \in Proc, Fence(p) PROVE AgedIsOrphan'
  BY <1>8 DEF Fence, NextClaim, Return, SetClaim
<1>9. ASSUME NEW p \in Proc, Rename(p) PROVE AgedIsOrphan'
  BY <1>9 DEF Rename, SetClaim
<1>10. ASSUME NEW p \in Proc, ChildExits(p) \/ Crash(p) PROVE AgedIsOrphan'
  BY <1>10 DEF ChildExits, Crash
<1>11. ASSUME NEW g \in Gen, Age(g) PROVE AgedIsOrphan'
  BY <1>11 DEF Age
<1>12. CASE UNCHANGED vars
  BY <1>12 DEF vars
<1> QED
  BY <1>1, <1>2, <1>3, <1>4, <1>5, <1>6, <1>7, <1>8, <1>9, <1>10, <1>11,
           <1>12
  DEF Next, Step

LEMMA StepHoldsOwn ==
    ASSUME TypeOK, HoldsOwn, OneMaker, Observed, OpenIsCurrent, OwnsClaim,
           ~Lapses, [Next]_vars
    PROVE  HoldsOwn'
<1> USE LeaseAssumption DEF TypeOK, HoldsOwn, OneMaker, Observed, OpenIsCurrent, OwnsClaim,
      Orphan, Alive, Label, Terminal, Working, Owning, Reclaiming, Text, disk, store, local,
      MyClaim, Go
<1>1. ASSUME NEW p \in Proc, 
               GiveUp(p) \/ FillFails(p) \/ Rebuild(p) \/ Spawn(p) \/ Complete(p) \/ Revalidate(p)
      PROVE HoldsOwn'
  BY <1>1 DEF GiveUp, FillFails, Rebuild, Spawn, Complete, Revalidate, Owns, Current, Return
<1>2. ASSUME NEW p \in Proc, 
               Fill(p) \/ Truncate(p) \/ Protect(p) \/ Abandon(p) \/ Retain(p)
      PROVE HoldsOwn'
  BY <1>2 DEF Fill, Truncate, Protect, Abandon, Retain, Owns
<1>3. ASSUME NEW p \in Proc, Open(p) PROVE HoldsOwn'
  BY <1>3 DEF Open
<1>4. ASSUME NEW p \in Proc, Remove(p) PROVE HoldsOwn'
  BY <1>4 DEF Remove
<1>5. ASSUME NEW p \in Proc, Observe(p) PROVE HoldsOwn'
  BY <1>5 DEF Observe, Current, Id
<1>6. ASSUME NEW p \in Proc, Inspect(p) PROVE HoldsOwn'
  BY <1>6 DEF Inspect, NextClaim, Return
<1>7. ASSUME NEW p \in Proc, Claim(p) PROVE HoldsOwn'
  BY <1>7 DEF Claim, SetClaim
<1>8. ASSUME NEW p \in Proc, Fence(p) PROVE HoldsOwn'
  BY <1>8 DEF Fence, NextClaim, Return, SetClaim
<1>9. ASSUME NEW p \in Proc, Rename(p) PROVE HoldsOwn'
  BY <1>9 DEF Rename, SetClaim
<1>10. ASSUME NEW p \in Proc, ChildExits(p) \/ Crash(p) PROVE HoldsOwn'
  BY <1>10 DEF ChildExits, Crash
<1>11. ASSUME NEW g \in Gen, Age(g) PROVE HoldsOwn'
  BY <1>11 DEF Age
<1>12. CASE UNCHANGED vars
  BY <1>12 DEF vars
<1> QED
  BY <1>1, <1>2, <1>3, <1>4, <1>5, <1>6, <1>7, <1>8, <1>9, <1>10, <1>11,
           <1>12
  DEF Next, Step

LEMMA StepObserved ==
    ASSUME TypeOK, Observed, OneMaker, RecordsMaker, AgedIsOrphan, ~Lapses,
           [Next]_vars
    PROVE  Observed'
<1>policy. policy' = policy
  BY PolicyKept
<1> USE LeaseAssumption DEF TypeOK, Observed, OneMaker, RecordsMaker, AgedIsOrphan,
      Orphan, Alive, Label, Terminal, Working, Owning, Reclaiming, Text, disk, store, local,
      MyClaim, Go
<1>1. ASSUME NEW p \in Proc, 
               GiveUp(p) \/ FillFails(p) \/ Rebuild(p) \/ Spawn(p) \/ Complete(p) \/ Revalidate(p)
      PROVE Observed'
  <2>1. UNCHANGED <<used, mine, obs, text>> /\ p \in Alive
    BY <1>1 DEF GiveUp, FillFails, Rebuild, Spawn, Complete, Revalidate
  <2>2. \/ UNCHANGED pc
        \/ \E l \in Label \ Reclaiming : pc' = [pc EXCEPT ![p] = l]
        \/ pc[p] \in Reclaiming /\ pc' = [pc EXCEPT ![p] = "rename"]
    BY <1>1 DEF GiveUp, FillFails, Rebuild, Spawn, Complete, Revalidate
  <2>3. Alive' \subseteq Alive
    BY <2>1, <2>2
  <2>4. \A q \in Proc : pc'[q] \in Reclaiming => pc[q] \in Reclaiming
    BY <2>1, <2>2
  <2> QED  BY <1>policy, <2>1, <2>3, <2>4
<1>2. ASSUME NEW p \in Proc, 
               Fill(p) \/ Truncate(p) \/ Protect(p) \/ Abandon(p) \/ Retain(p)
      PROVE Observed'
  <2> SUFFICES ASSUME NEW q \in Proc, pc'[q] \in Reclaiming
               PROVE  \E g \in used', t \in Text :
                        /\ obs'[q] = <<g, t>> /\ Orphan(g)' /\ text'[g] = t
                        /\ policy' = "cache" /\ Quarantines => t = "owner"
    BY DEF Observed
  <2>1. p \in Alive /\ q # p /\ pc[q] \in Reclaiming /\ Alive' \subseteq Alive
    BY <1>2 DEF Fill, Truncate, Protect, Abandon, Retain
  <2>2. UNCHANGED <<used, mine, obs>>
    BY <1>2 DEF Fill, Truncate, Protect, Abandon, Retain
  <2>3. PICK g \in used, t \in Text :
            /\ obs[q] = <<g, t>> /\ Orphan(g) /\ text[g] = t
            /\ policy = "cache" /\ Quarantines => t = "owner"
    BY <2>1 DEF Observed
  <2>4. mine[p] # g
    BY <2>1, <2>3
  <2>5. text'[g] = text[g]
    BY <1>2, <2>4 DEF Fill, Truncate, Protect, Abandon, Retain, Owns
  <2>6. Orphan(g)'
    BY <2>1, <2>2, <2>3
  <2> QED  BY <1>policy, <2>2, <2>3, <2>5, <2>6
<1>3. ASSUME NEW p \in Proc, Open(p) PROVE Observed'
  BY <1>3 DEF Open
<1>4. ASSUME NEW p \in Proc, Remove(p) PROVE Observed'
  BY <1>4 DEF Remove
<1>5. ASSUME NEW p \in Proc, Observe(p) PROVE Observed'
  <2>1. /\ at # None /\ Stale(at) /\ UNCHANGED <<used, mine, text>>
        /\ obs' = [obs EXCEPT ![p] = <<at, text[at]>>] /\ Go(p, "claim") /\ p \in Alive
    BY <1>5 DEF Observe, Current
  <2>2. Orphan(at) /\ at \in used /\ text[at] \in Text
    BY <2>1, StaleIsOrphan
  <2>3. policy = "cache" /\ Quarantines => text[at] = "owner"
    BY <2>1 DEF Stale
  <2>4. Alive' \subseteq Alive
    BY <2>1
  <2>5. ASSUME NEW q \in Proc, pc'[q] \in Reclaiming
        PROVE  \E g \in used', t \in Text :
                 /\ obs'[q] = <<g, t>> /\ Orphan(g)' /\ text'[g] = t
                 /\ policy' = "cache" /\ Quarantines => t = "owner"
    <3>1. CASE q = p
      BY <1>policy, <2>1, <2>2, <2>3, <2>4, <3>1
    <3>2. CASE q # p
      <4>1. pc[q] \in Reclaiming /\ obs'[q] = obs[q]
        BY <2>1, <2>5, <3>2
      <4>2. PICK g \in used, t \in Text :
              /\ obs[q] = <<g, t>> /\ Orphan(g) /\ text[g] = t
              /\ policy = "cache" /\ Quarantines => t = "owner"
        BY <4>1 DEF Observed
      <4>3. Orphan(g)'
        BY <2>1, <2>4, <4>2
      <4> QED  BY <1>policy, <2>1, <4>1, <4>2, <4>3
    <3> QED  BY <3>1, <3>2
  <2> QED  BY <2>5 DEF Observed
<1>6. ASSUME NEW p \in Proc, Inspect(p) PROVE Observed'
  BY <1>6 DEF Inspect, NextClaim, Return
<1>7. ASSUME NEW p \in Proc, Claim(p) PROVE Observed'
  <2>1. UNCHANGED <<used, mine, obs, text>> /\ p \in Alive /\ pc[p] \in Reclaiming
    BY <1>7 DEF Claim
  <2>2. pc' = [pc EXCEPT ![p] = "revalidate"] \/ pc' = [pc EXCEPT ![p] = "inspect"]
    BY <1>7 DEF Claim
  <2>3. Alive' \subseteq Alive
    BY <2>1, <2>2
  <2>4. \A q \in Proc : pc'[q] \in Reclaiming => pc[q] \in Reclaiming
    BY <2>1, <2>2
  <2> QED  BY <1>policy, <2>1, <2>3, <2>4
<1>8. ASSUME NEW p \in Proc, Fence(p) PROVE Observed'
  <2>1. UNCHANGED <<used, mine, obs, text>> /\ p \in Alive /\ pc[p] \in Reclaiming
    BY <1>8 DEF Fence
  <2>2. \/ pc' = [pc EXCEPT ![p] = "claim"] \/ pc' = [pc EXCEPT ![p] = "failed"]
        \/ pc' = [pc EXCEPT ![p] = "open"]
    BY <1>8 DEF Fence, NextClaim, Return
  <2>3. Alive' \subseteq Alive
    BY <2>1, <2>2
  <2>4. \A q \in Proc : pc'[q] \in Reclaiming => pc[q] \in Reclaiming
    BY <2>1, <2>2
  <2> QED  BY <1>policy, <2>1, <2>3, <2>4
<1>9. ASSUME NEW p \in Proc, Rename(p) PROVE Observed'
  BY <1>9 DEF Rename, SetClaim
<1>10. ASSUME NEW p \in Proc, ChildExits(p) \/ Crash(p) PROVE Observed'
  BY <1>10 DEF ChildExits, Crash
<1>11. ASSUME NEW g \in Gen, Age(g) PROVE Observed'
  BY <1>11 DEF Age
<1>12. CASE UNCHANGED vars
  BY <1>12 DEF vars
<1> QED
  BY <1>1, <1>2, <1>3, <1>4, <1>5, <1>6, <1>7, <1>8, <1>9, <1>10, <1>11,
           <1>12
  DEF Next, Step

LEMMA StepFencedBelow ==
    ASSUME TypeOK, FencedBelow, TriesAbove, OwnsClaim, ~Lapses, [Next]_vars
    PROVE  FencedBelow'
<1> USE LeaseAssumption DEF TypeOK, FencedBelow, TriesAbove, OwnsClaim,
      Orphan, Alive, Label, Terminal, Working, Owning, Reclaiming, Text, disk, store, local,
      MyClaim, Go
<1>1. ASSUME NEW p \in Proc, 
               GiveUp(p) \/ FillFails(p) \/ Rebuild(p) \/ Spawn(p) \/ Complete(p) \/ Revalidate(p)
      PROVE FencedBelow'
  BY <1>1 DEF GiveUp, FillFails, Rebuild, Spawn, Complete, Revalidate, Owns, Current, Return
<1>2. ASSUME NEW p \in Proc, 
               Fill(p) \/ Truncate(p) \/ Protect(p) \/ Abandon(p) \/ Retain(p)
      PROVE FencedBelow'
  BY <1>2 DEF Fill, Truncate, Protect, Abandon, Retain, Owns
<1>3. ASSUME NEW p \in Proc, Open(p) PROVE FencedBelow'
  BY <1>3 DEF Open
<1>4. ASSUME NEW p \in Proc, Remove(p) PROVE FencedBelow'
  BY <1>4 DEF Remove
<1>5. ASSUME NEW p \in Proc, Observe(p) PROVE FencedBelow'
  <2>1. UNCHANGED claim
    BY <1>5 DEF Observe
  <2> QED  BY <2>1
<1>6. ASSUME NEW p \in Proc, Inspect(p) PROVE FencedBelow'
  <2>1. UNCHANGED claim
    BY <1>6 DEF Inspect
  <2> QED  BY <2>1
<1>7. ASSUME NEW p \in Proc, Claim(p) PROVE FencedBelow'
  BY <1>7 DEF Claim, SetClaim
<1>8. ASSUME NEW p \in Proc, Fence(p) PROVE FencedBelow'
  BY <1>8 DEF Fence, NextClaim, Return, SetClaim
<1>9. ASSUME NEW p \in Proc, Rename(p) PROVE FencedBelow'
  BY <1>9 DEF Rename, SetClaim
<1>10. ASSUME NEW p \in Proc, ChildExits(p) \/ Crash(p) PROVE FencedBelow'
  BY <1>10 DEF ChildExits, Crash
<1>11. ASSUME NEW g \in Gen, Age(g) PROVE FencedBelow'
  BY <1>11 DEF Age
<1>12. CASE UNCHANGED vars
  BY <1>12 DEF vars
<1> QED
  BY <1>1, <1>2, <1>3, <1>4, <1>5, <1>6, <1>7, <1>8, <1>9, <1>10, <1>11,
           <1>12
  DEF Next, Step

LEMMA StepTriesAbove ==
    ASSUME TypeOK, TriesAbove, Tried, ~Lapses, [Next]_vars
    PROVE  TriesAbove'
<1> USE LeaseAssumption DEF TypeOK, TriesAbove, Tried,
      Orphan, Alive, Label, Terminal, Working, Owning, Reclaiming, Text, disk, store, local,
      MyClaim, Go
<1>1. ASSUME NEW p \in Proc, 
               GiveUp(p) \/ FillFails(p) \/ Rebuild(p) \/ Spawn(p) \/ Complete(p) \/ Revalidate(p)
      PROVE TriesAbove'
  BY <1>1 DEF GiveUp, FillFails, Rebuild, Spawn, Complete, Revalidate, Owns, Current, Return
<1>2. ASSUME NEW p \in Proc, 
               Fill(p) \/ Truncate(p) \/ Protect(p) \/ Abandon(p) \/ Retain(p)
      PROVE TriesAbove'
  BY <1>2 DEF Fill, Truncate, Protect, Abandon, Retain, Owns
<1>3. ASSUME NEW p \in Proc, Open(p) PROVE TriesAbove'
  BY <1>3 DEF Open
<1>4. ASSUME NEW p \in Proc, Remove(p) PROVE TriesAbove'
  BY <1>4 DEF Remove
<1>5. ASSUME NEW p \in Proc, Observe(p) PROVE TriesAbove'
  <2>1. /\ obs' = [obs EXCEPT ![p] = Current] /\ num' = [num EXCEPT ![p] = 0]
        /\ Go(p, "claim") /\ UNCHANGED claim
    BY <1>5 DEF Observe
  <2>2. ASSUME NEW q \in Proc, NEW m \in 0 .. Claims - 1,
               pc'[q] \in Reclaiming, m < num'[q]
        PROVE  claim'[<<obs'[q], m>>] = "fenced"
    <3>1. q # p
      BY <2>1, <2>2
    <3> QED  BY <2>1, <2>2, <3>1 DEF TriesAbove
  <2> QED  BY <2>2 DEF TriesAbove
<1>6. ASSUME NEW p \in Proc, Inspect(p) PROVE TriesAbove'
  <2>1. pc[p] \in Reclaiming /\ UNCHANGED obs
    BY <1>6 DEF Inspect
  <2>2. \A q \in Proc : q # p => pc'[q] = pc[q] /\ num'[q] = num[q]
    BY <1>6 DEF Inspect, NextClaim, Return
  <2>3. \A i \in Id, m \in 0 .. Claims - 1 :
          claim[<<i, m>>] = "fenced" => claim'[<<i, m>>] = "fenced"
    BY <1>6 DEF Inspect, SetClaim
  <2>4. \/ num'[p] = num[p] \/ pc'[p] \notin Reclaiming
        \/ num'[p] = num[p] + 1 /\ claim'[<<obs[p], num[p]>>] = "fenced"
    BY <1>6 DEF Inspect, NextClaim, Return
  <2>5. ASSUME NEW q \in Proc, NEW m \in 0 .. Claims - 1,
               pc'[q] \in Reclaiming, m < num'[q]
        PROVE  claim'[<<obs'[q], m>>] = "fenced"
    <3>1. obs[q] \in Id /\ num[q] \in 0 .. Claims - 1
      OBVIOUS
    <3>2. CASE m < num[q] /\ pc[q] \in Reclaiming
      BY <2>1, <2>3, <3>1, <3>2 DEF TriesAbove
    <3>3. CASE ~(m < num[q] /\ pc[q] \in Reclaiming)
      <4>1. q = p
        BY <2>2, <2>5, <3>3
      <4>2. num'[p] # num[p]
        BY <2>1, <2>5, <3>3, <4>1
      <4>3. num'[p] = num[p] + 1 /\ claim'[<<obs[p], num[p]>>] = "fenced"
        BY <2>4, <2>5, <4>1, <4>2
      <4>4. ~(m < num[p])
        BY <2>1, <3>3, <4>1
      <4> HIDE DEF TypeOK, TriesAbove, Tried
      <4>5. m = num[p]
        BY <2>5, <3>1, <4>1, <4>3, <4>4
      <4> QED  BY <2>1, <4>1, <4>3, <4>5
    <3> QED  BY <3>2, <3>3
  <2> QED  BY <2>5 DEF TriesAbove
<1>7. ASSUME NEW p \in Proc, Claim(p) PROVE TriesAbove'
  BY <1>7 DEF Claim, SetClaim
<1>8. ASSUME NEW p \in Proc, Fence(p) PROVE TriesAbove'
  <2>1. pc[p] \in Reclaiming /\ UNCHANGED obs
    BY <1>8 DEF Fence
  <2>2. \A q \in Proc : q # p => pc'[q] = pc[q] /\ num'[q] = num[q]
    BY <1>8 DEF Fence, NextClaim, Return, SetClaim
  <2>3. \A i \in Id, m \in 0 .. Claims - 1 :
          claim[<<i, m>>] = "fenced" => claim'[<<i, m>>] = "fenced"
    <3>1. \/ UNCHANGED claim
          \/ claim' = [claim EXCEPT ![<<obs[p], num[p]>>] = "fenced"]
      BY <1>8 DEF Fence, SetClaim
    <3> QED  BY <3>1
  <2>4. \/ num'[p] = num[p] \/ pc'[p] \notin Reclaiming
        \/ num'[p] = num[p] + 1 /\ claim'[<<obs[p], num[p]>>] = "fenced"
    BY <1>8 DEF Fence, NextClaim, Return, SetClaim
  <2>5. ASSUME NEW q \in Proc, NEW m \in 0 .. Claims - 1,
               pc'[q] \in Reclaiming, m < num'[q]
        PROVE  claim'[<<obs'[q], m>>] = "fenced"
    <3>1. obs[q] \in Id /\ num[q] \in 0 .. Claims - 1
      OBVIOUS
    <3>2. CASE m < num[q] /\ pc[q] \in Reclaiming
      BY <2>1, <2>3, <3>1, <3>2 DEF TriesAbove
    <3>3. CASE ~(m < num[q] /\ pc[q] \in Reclaiming)
      <4>1. q = p
        BY <2>2, <2>5, <3>3
      <4>2. num'[p] # num[p]
        BY <2>1, <2>5, <3>3, <4>1
      <4>3. num'[p] = num[p] + 1 /\ claim'[<<obs[p], num[p]>>] = "fenced"
        BY <2>4, <2>5, <4>1, <4>2
      <4>4. ~(m < num[p])
        BY <2>1, <3>3, <4>1
      <4> HIDE DEF TypeOK, TriesAbove, Tried
      <4>5. m = num[p]
        BY <2>5, <3>1, <4>1, <4>3, <4>4
      <4> QED  BY <2>1, <4>1, <4>3, <4>5
    <3> QED  BY <3>2, <3>3
  <2> QED  BY <2>5 DEF TriesAbove
<1>9. ASSUME NEW p \in Proc, Rename(p) PROVE TriesAbove'
  BY <1>9 DEF Rename, SetClaim
<1>10. ASSUME NEW p \in Proc, ChildExits(p) \/ Crash(p) PROVE TriesAbove'
  BY <1>10 DEF ChildExits, Crash
<1>11. ASSUME NEW g \in Gen, Age(g) PROVE TriesAbove'
  BY <1>11 DEF Age
<1>12. CASE UNCHANGED vars
  BY <1>12 DEF vars
<1> QED
  BY <1>1, <1>2, <1>3, <1>4, <1>5, <1>6, <1>7, <1>8, <1>9, <1>10, <1>11,
           <1>12
  DEF Next, Step

LEMMA StepTried ==
    ASSUME TypeOK, Tried, ~Lapses, [Next]_vars
    PROVE  Tried'
<1> USE LeaseAssumption DEF TypeOK, Tried,
      Orphan, Alive, Label, Terminal, Working, Owning, Reclaiming, Text, disk, store, local,
      MyClaim, Go
<1>1. ASSUME NEW p \in Proc, 
               GiveUp(p) \/ FillFails(p) \/ Rebuild(p) \/ Spawn(p) \/ Complete(p) \/ Revalidate(p)
      PROVE Tried'
  BY <1>1 DEF GiveUp, FillFails, Rebuild, Spawn, Complete, Revalidate, Owns, Current, Return
<1>2. ASSUME NEW p \in Proc, 
               Fill(p) \/ Truncate(p) \/ Protect(p) \/ Abandon(p) \/ Retain(p)
      PROVE Tried'
  BY <1>2 DEF Fill, Truncate, Protect, Abandon, Retain, Owns
<1>3. ASSUME NEW p \in Proc, Open(p) PROVE Tried'
  BY <1>3 DEF Open
<1>4. ASSUME NEW p \in Proc, Remove(p) PROVE Tried'
  BY <1>4 DEF Remove
<1>5. ASSUME NEW p \in Proc, Observe(p) PROVE Tried'
  BY <1>5 DEF Observe, Current, Id
<1>6. ASSUME NEW p \in Proc, Inspect(p) PROVE Tried'
  BY <1>6 DEF Inspect, NextClaim, Return
<1>7. ASSUME NEW p \in Proc, Claim(p) PROVE Tried'
  BY <1>7 DEF Claim, SetClaim
<1>8. ASSUME NEW p \in Proc, Fence(p) PROVE Tried'
  <2>1. /\ UNCHANGED obs /\ pc[p] = "fence" /\ claim[MyClaim(p)] # "absent"
        /\ SetClaim(p, "fenced") \/ UNCHANGED claim
    BY <1>8 DEF Fence
  <2>2. /\ pc' = [pc EXCEPT ![p] = "claim"] \/ pc' = [pc EXCEPT ![p] = "failed"]
           \/ pc' = [pc EXCEPT ![p] = "open"]
        /\ \A q \in Proc : q # p => num'[q] = num[q]
    BY <1>8 DEF Fence, NextClaim, Return
  <2>3. \A i \in Id \X (0 .. Claims - 1) : claim[i] # "absent" => claim'[i] # "absent"
    BY <2>1 DEF SetClaim
  <2>4. ASSUME NEW q \in Proc, pc'[q] \in {"inspect", "fence"}
        PROVE  (claim[MyClaim(q)] # "absent")'
    <3>1. q # p /\ pc[q] = pc'[q] /\ MyClaim(q)' = MyClaim(q)
      BY <2>1, <2>2, <2>4
    <3>2. MyClaim(q) \in Id \X (0 .. Claims - 1)
      OBVIOUS
    <3> QED  BY <2>3, <2>4, <3>1, <3>2
  <2> QED  BY <2>4 DEF Tried
<1>9. ASSUME NEW p \in Proc, Rename(p) PROVE Tried'
  BY <1>9 DEF Rename, SetClaim
<1>10. ASSUME NEW p \in Proc, ChildExits(p) \/ Crash(p) PROVE Tried'
  BY <1>10 DEF ChildExits, Crash
<1>11. ASSUME NEW g \in Gen, Age(g) PROVE Tried'
  BY <1>11 DEF Age
<1>12. CASE UNCHANGED vars
  BY <1>12 DEF vars
<1> QED
  BY <1>1, <1>2, <1>3, <1>4, <1>5, <1>6, <1>7, <1>8, <1>9, <1>10, <1>11,
           <1>12
  DEF Next, Step

LEMMA StepOwnsClaim ==
    ASSUME TypeOK, OwnsClaim, ~Lapses, [Next]_vars
    PROVE  OwnsClaim'
<1> USE LeaseAssumption DEF TypeOK, OwnsClaim,
      Orphan, Alive, Label, Terminal, Working, Owning, Reclaiming, Text, disk, store, local,
      MyClaim, Go
<1>1. ASSUME NEW p \in Proc, 
               GiveUp(p) \/ FillFails(p) \/ Rebuild(p) \/ Spawn(p) \/ Complete(p) \/ Revalidate(p)
      PROVE OwnsClaim'
  BY <1>1 DEF GiveUp, FillFails, Rebuild, Spawn, Complete, Revalidate, Owns, Current, Return
<1>2. ASSUME NEW p \in Proc, 
               Fill(p) \/ Truncate(p) \/ Protect(p) \/ Abandon(p) \/ Retain(p)
      PROVE OwnsClaim'
  BY <1>2 DEF Fill, Truncate, Protect, Abandon, Retain, Owns
<1>3. ASSUME NEW p \in Proc, Open(p) PROVE OwnsClaim'
  BY <1>3 DEF Open
<1>4. ASSUME NEW p \in Proc, Remove(p) PROVE OwnsClaim'
  BY <1>4 DEF Remove
<1>5. ASSUME NEW p \in Proc, Observe(p) PROVE OwnsClaim'
  BY <1>5 DEF Observe, Current, Id
<1>6. ASSUME NEW p \in Proc, Inspect(p) PROVE OwnsClaim'
  BY <1>6 DEF Inspect, NextClaim, Return
<1>7. ASSUME NEW p \in Proc, Claim(p) PROVE OwnsClaim'
  <2>1. CASE claim[MyClaim(p)] = "absent"
    <3>1. /\ claim' = [claim EXCEPT ![MyClaim(p)] = "open"] /\ Go(p, "revalidate")
          /\ UNCHANGED <<obs, num>>
      BY <1>7, <2>1 DEF Claim, SetClaim
    <3>2. \A q \in Proc : MyClaim(q)' = MyClaim(q) /\ MyClaim(q) \in DOMAIN claim
      BY <3>1
    <3>3. \A q \in Proc : q # p /\ pc'[q] \in {"revalidate", "rename"} =>
            pc[q] \in {"revalidate", "rename"} /\ MyClaim(q) # MyClaim(p)
      BY <2>1, <3>1 DEF OwnsClaim
    <3> HIDE DEF MyClaim
    <3>4. \A q \in Proc : pc'[q] \in {"revalidate", "rename"} =>
            claim'[MyClaim(q)] \in {"open", "fenced"}
      BY <3>1, <3>2, <3>3 DEF OwnsClaim
    <3> QED  BY <3>2, <3>3, <3>4 DEF OwnsClaim
  <2>2. CASE claim[MyClaim(p)] # "absent"
    BY <1>7, <2>2 DEF Claim
  <2> QED  BY <2>1, <2>2
<1>8. ASSUME NEW p \in Proc, Fence(p) PROVE OwnsClaim'
  <2>1. /\ UNCHANGED obs /\ \A q \in Proc : q # p => pc'[q] = pc[q] /\ num'[q] = num[q]
        /\ pc'[p] \notin {"revalidate", "rename"}
    BY <1>8 DEF Fence, NextClaim, Return
  <2>2. \A i \in Id, m \in 0 .. Claims - 1 :
          claim[<<i, m>>] \in {"open", "fenced"} => claim'[<<i, m>>] \in {"open", "fenced"}
    BY <1>8 DEF Fence, SetClaim
  <2> QED  BY <2>1, <2>2
<1>9. ASSUME NEW p \in Proc, Rename(p) PROVE OwnsClaim'
  BY <1>9 DEF Rename, SetClaim
<1>10. ASSUME NEW p \in Proc, ChildExits(p) \/ Crash(p) PROVE OwnsClaim'
  BY <1>10 DEF ChildExits, Crash
<1>11. ASSUME NEW g \in Gen, Age(g) PROVE OwnsClaim'
  BY <1>11 DEF Age
<1>12. CASE UNCHANGED vars
  BY <1>12 DEF vars
<1> QED
  BY <1>1, <1>2, <1>3, <1>4, <1>5, <1>6, <1>7, <1>8, <1>9, <1>10, <1>11,
           <1>12
  DEF Next, Step

LEMMA StepOpenIsCurrent ==
    ASSUME TypeOK, OpenIsCurrent, OneMaker, HoldsOwn, Observed, FencedBelow,
           OwnsClaim, ~Lapses, [Next]_vars
    PROVE  OpenIsCurrent'
<1> USE LeaseAssumption DEF TypeOK, OpenIsCurrent, OneMaker, HoldsOwn, Observed, FencedBelow, OwnsClaim,
      Orphan, Alive, Label, Terminal, Working, Owning, Reclaiming, Text, disk, store, local,
      MyClaim, Go
<1>1. ASSUME NEW p \in Proc, 
               GiveUp(p) \/ FillFails(p) \/ Rebuild(p) \/ Spawn(p) \/ Complete(p) \/ Revalidate(p)
      PROVE OpenIsCurrent'
  BY <1>1 DEF GiveUp, FillFails, Rebuild, Spawn, Complete, Revalidate, Owns, Current, Return
<1>2. ASSUME NEW p \in Proc, 
               Fill(p) \/ Truncate(p) \/ Protect(p) \/ Abandon(p) \/ Retain(p)
      PROVE OpenIsCurrent'
  BY <1>2 DEF Fill, Truncate, Protect, Abandon, Retain, Owns
<1>3. ASSUME NEW p \in Proc, Open(p) PROVE OpenIsCurrent'
  BY <1>3 DEF Open
<1>4. ASSUME NEW p \in Proc, Remove(p) PROVE OpenIsCurrent'
  <2>1. p \in Alive /\ mine[p] = at
    BY <1>4 DEF Remove, HoldsOwn
  <2>2. ASSUME NEW q \in Proc, pc[q] = "rename", claim[MyClaim(q)] = "open" PROVE FALSE
    <3>1. PICK t \in Text : obs[q] = <<at, t>>
      BY <2>2 DEF OpenIsCurrent
    <3>2. Orphan(at)
      BY <2>2, <3>1 DEF Observed
    <3> QED  BY <2>1, <3>2 DEF Orphan
  <2>3. UNCHANGED <<claim, obs, num>> /\ pc' = [pc EXCEPT ![p] = "done"]
    BY <1>4 DEF Remove
  <2>4. ASSUME NEW q \in Proc, pc'[q] = "rename", claim'[MyClaim(q)'] = "open" PROVE FALSE
    <3>1. pc[q] = "rename" /\ claim[MyClaim(q)] = "open"
      BY <2>3, <2>4
    <3> QED  BY <2>2, <3>1
  <2> QED  BY <2>4 DEF OpenIsCurrent
<1>5. ASSUME NEW p \in Proc, Observe(p) PROVE OpenIsCurrent'
  <2>1. pc' = [pc EXCEPT ![p] = "claim"] /\ UNCHANGED <<claim, at>>
    BY <1>5 DEF Observe
  <2>2. \A q \in Proc : q # p => obs'[q] = obs[q] /\ num'[q] = num[q]
    BY <1>5 DEF Observe
  <2> SUFFICES ASSUME NEW q \in Proc, pc'[q] = "rename", claim'[MyClaim(q)'] = "open"
               PROVE  \E t \in Text : obs'[q] = <<at', t>>
    BY DEF OpenIsCurrent
  <2>3. q # p /\ pc[q] = "rename"
    BY <2>1
  <2>4. obs'[q] = obs[q] /\ num'[q] = num[q]
    BY <2>2, <2>3
  <2>5. claim[MyClaim(q)] = "open"
    BY <2>1, <2>4
  <2>6. \E t \in Text : obs[q] = <<at, t>>
    BY <2>3, <2>5 DEF OpenIsCurrent
  <2> QED  BY <2>1, <2>4, <2>6
<1>6. ASSUME NEW p \in Proc, Inspect(p) PROVE OpenIsCurrent'
  BY <1>6 DEF Inspect, NextClaim, Return
<1>7. ASSUME NEW p \in Proc, Claim(p) PROVE OpenIsCurrent'
  BY <1>7 DEF Claim, SetClaim
<1>8. ASSUME NEW p \in Proc, Fence(p) PROVE OpenIsCurrent'
  BY <1>8 DEF Fence, NextClaim, Return, SetClaim
<1>9. ASSUME NEW p \in Proc, Rename(p) PROVE OpenIsCurrent'
  <2> SUFFICES ASSUME NEW q \in Proc, pc'[q] = "rename", claim'[MyClaim(q)'] = "open"
               PROVE  \E t \in Text : obs'[q] = <<at', t>>
    BY DEF OpenIsCurrent
  <2>1. q # p /\ pc[q] = "rename" /\ UNCHANGED <<obs, num>>
    BY <1>9 DEF Rename
  <2>2. MyClaim(q) \in DOMAIN claim /\ MyClaim(p) \in DOMAIN claim
    OBVIOUS
  <2>3. claim[MyClaim(q)] = "open"
    BY <1>9, <2>1, <2>2 DEF Rename, SetClaim
  <2>4. claim[MyClaim(p)] \in {"open", "fenced"} /\ claim[MyClaim(p)] # "open"
    BY <1>9, <2>1, <2>3, OneOpenClaim DEF Rename, OwnsClaim
  <2>5. UNCHANGED at
    BY <1>9, <2>4 DEF Rename
  <2> QED  BY <2>1, <2>3, <2>5 DEF OpenIsCurrent
<1>10. ASSUME NEW p \in Proc, ChildExits(p) \/ Crash(p) PROVE OpenIsCurrent'
  BY <1>10 DEF ChildExits, Crash
<1>11. ASSUME NEW g \in Gen, Age(g) PROVE OpenIsCurrent'
  BY <1>11 DEF Age
<1>12. CASE UNCHANGED vars
  BY <1>12 DEF vars
<1> QED
  BY <1>1, <1>2, <1>3, <1>4, <1>5, <1>6, <1>7, <1>8, <1>9, <1>10, <1>11,
           <1>12
  DEF Next, Step

LEMMA StepChildIsFenced ==
    ASSUME TypeOK, ChildIsFenced, OneMaker, HoldsOwn, Observed,
           OpenIsCurrent, OwnsClaim, ~Lapses, Quarantines \/ policy = "registry", [Next]_vars
    PROVE  ChildIsFenced'
<1>policy. policy' = policy
  BY PolicyKept
<1> USE LeaseAssumption DEF TypeOK, ChildIsFenced, OneMaker, HoldsOwn, Observed, OpenIsCurrent, OwnsClaim,
      Orphan, Alive, Label, Terminal, Working, Owning, Reclaiming, Text, disk, store, local,
      MyClaim, Go
<1>1. ASSUME NEW p \in Proc, 
               GiveUp(p) \/ FillFails(p) \/ Rebuild(p) \/ Spawn(p) \/ Complete(p) \/ Revalidate(p)
      PROVE ChildIsFenced'
  BY <1>1 DEF GiveUp, FillFails, Rebuild, Spawn, Complete, Revalidate, Owns, Current, Return
<1>2. ASSUME NEW p \in Proc, 
               Fill(p) \/ Truncate(p) \/ Protect(p) \/ Abandon(p) \/ Retain(p)
      PROVE ChildIsFenced'
  BY <1>2 DEF Fill, Truncate, Protect, Abandon, Retain, Owns
<1>3. ASSUME NEW p \in Proc, Open(p) PROVE ChildIsFenced'
  BY <1>3 DEF Open
<1>4. ASSUME NEW p \in Proc, Remove(p) PROVE ChildIsFenced'
  BY <1>4 DEF Remove
<1>5. ASSUME NEW p \in Proc, Observe(p) PROVE ChildIsFenced'
  BY <1>5 DEF Observe, Current, Id
<1>6. ASSUME NEW p \in Proc, Inspect(p) PROVE ChildIsFenced'
  BY <1>6 DEF Inspect, NextClaim, Return
<1>7. ASSUME NEW p \in Proc, Claim(p) PROVE ChildIsFenced'
  BY <1>7 DEF Claim, SetClaim
<1>8. ASSUME NEW p \in Proc, Fence(p) PROVE ChildIsFenced'
  BY <1>8 DEF Fence, NextClaim, Return, SetClaim
<1>9. ASSUME NEW p \in Proc, Rename(p) PROVE ChildIsFenced'
  <2>1. /\ UNCHANGED <<children, text, mine>> /\ pc' = [pc EXCEPT ![p] = "open"]
        /\ pc[p] = "rename"
    BY <1>9 DEF Rename
  <2>2. ASSUME NEW c \in children, claim[MyClaim(p)] = "open" PROVE FALSE
    <3>1. PICK t \in Text : obs[p] = <<at, t>>
      BY <2>1, <2>2 DEF OpenIsCurrent
    <3>2. policy = "cache" /\ Quarantines
      BY <2>2 DEF ChildIsFenced
    <3>3. text[at] = "owner"
      BY <2>1, <3>1, <3>2 DEF Observed
    <3>4. c \in Proc /\ at = mine[c] /\ text[mine[c]] # "owner"
      BY <2>2 DEF ChildIsFenced
    <3> QED  BY <3>3, <3>4
  <2>3. claim[MyClaim(p)] \in {"open", "fenced"}
    BY <2>1 DEF OwnsClaim
  <2>4. children # {} => UNCHANGED at
    BY <1>9, <2>2, <2>3 DEF Rename
  <2>5. p \notin children
    BY <2>1
  <2> QED  BY <1>policy, <2>1, <2>4, <2>5
<1>10. ASSUME NEW p \in Proc, ChildExits(p) \/ Crash(p) PROVE ChildIsFenced'
  BY <1>10 DEF ChildExits, Crash
<1>11. ASSUME NEW g \in Gen, Age(g) PROVE ChildIsFenced'
  BY <1>11 DEF Age
<1>12. CASE UNCHANGED vars
  BY <1>12 DEF vars
<1> QED
  BY <1>1, <1>2, <1>3, <1>4, <1>5, <1>6, <1>7, <1>8, <1>9, <1>10, <1>11,
           <1>12
  DEF Next, Step

-----------------------------------------------------------------------------
LeaseInv ==
    /\ TypeOK /\ OneMaker /\ RecordsMaker /\ AgedIsOrphan /\ HoldsOwn /\ Observed
    /\ FencedBelow /\ TriesAbove /\ OwnsClaim /\ Tried /\ OpenIsCurrent

LEMMA InvInit == Init => LeaseInv /\ ChildIsFenced
<1> SUFFICES ASSUME Init PROVE LeaseInv /\ ChildIsFenced
  OBVIOUS
<1> USE LeaseAssumption, TypeInit DEF Init, Reclaiming, Owning, Working
<1>1. OneMaker /\ RecordsMaker /\ AgedIsOrphan /\ HoldsOwn /\ Observed
  BY DEF OneMaker, RecordsMaker, AgedIsOrphan, HoldsOwn, Observed
<1>2. FencedBelow
  BY DEF FencedBelow
<1>3. TriesAbove /\ OwnsClaim /\ Tried /\ OpenIsCurrent
  BY DEF TriesAbove, OwnsClaim, Tried, OpenIsCurrent
<1>4. ChildIsFenced
  BY DEF ChildIsFenced
<1> QED  BY <1>1, <1>2, <1>3, <1>4 DEF LeaseInv

LEMMA InvStep == ASSUME LeaseInv, ~Lapses, [Next]_vars PROVE LeaseInv'
BY TypeStep, StepOneMaker, StepRecordsMaker, StepAgedIsOrphan, StepHoldsOwn, StepObserved,
   StepFencedBelow, StepTriesAbove, StepOwnsClaim, StepTried, StepOpenIsCurrent
DEF LeaseInv

LEMMA InvAlways == ~Lapses => (Spec => []LeaseInv)
<1> SUFFICES ASSUME ~Lapses PROVE Spec => []LeaseInv
  OBVIOUS
<1>1. LeaseInv /\ [Next]_vars => LeaseInv'
  BY InvStep
<1> QED  BY InvInit, <1>1, PTL DEF Spec

\* Every variable keeps its type, heartbeats lapsing or not.
THEOREM LeaseTyped == Spec => []TypeOK
<1>1. TypeOK /\ [Next]_vars => TypeOK'
  BY TypeStep
<1> QED  BY TypeInit, <1>1, PTL DEF Spec

\* Exclusion: with a heartbeat that does not lapse, however many processes
\* reclaim, die or are delayed anywhere in reclaimRegistryFileLease, two never
\* work under the lease, whichever the caller.
THEOREM LeaseExclusive == ~Lapses => (Spec => []Exclusive)
<1>1. LeaseInv => Exclusive
  BY DEF LeaseInv, HoldsOwn, OneMaker, Owning, Exclusive
<1> QED  BY <1>1, InvAlways, PTL

\* Whoever empties the pathname renames exactly the lease it observed stale or
\* removes the one it created.
THEOREM LeaseVacatesOnlyItsOwn == ~Lapses => (Spec => VacatesOnlyItsOwn)
<1> SUFFICES ASSUME ~Lapses PROVE Spec => VacatesOnlyItsOwn
  OBVIOUS
<1> DEFINE Vacates == at # None /\ at' = None =>
             \E p \in Proc : \/ pc[p] = "rename" /\ \E t \in Text : obs[p] = <<at, t>>
                             \/ pc[p] = "remove" /\ mine[p] = at
<1>1. ASSUME LeaseInv, [Next]_vars PROVE [Vacates]_vars
  <2> SUFFICES ASSUME at # None, at' = None, Next PROVE Vacates
    BY <1>1
  <2>1. PICK p \in Proc : Rename(p) \/ Remove(p)
    BY <1>1 DEF Next, Step, Open, GiveUp, Observe, Fill, FillFails, Rebuild, Truncate, Protect,
         Spawn, ChildExits, Complete, Abandon, Retain, Claim, Inspect, Fence, Revalidate, Crash,
         Age, disk, LeaseInv, TypeOK
  <2>2. CASE Rename(p)
    <3>1. pc[p] = "rename" /\ claim[MyClaim(p)] # "fenced"
      BY <2>2 DEF Rename
    <3>2. claim[MyClaim(p)] = "open"
      BY <1>1, <3>1 DEF LeaseInv, OwnsClaim
    <3> QED  BY <1>1, <3>1, <3>2 DEF LeaseInv, OpenIsCurrent
  <2>3. CASE Remove(p)
    BY <1>1, <2>3 DEF Remove, LeaseInv, HoldsOwn, Owning
  <2> QED  BY <2>1, <2>2, <2>3
<1>2. LeaseInv /\ [Next]_vars => [Vacates]_vars
  BY <1>1
<1>3. Spec => [][Vacates]_vars
  BY <1>2, InvAlways, PTL DEF Spec
<1> QED  BY <1>3 DEF VacatesOnlyItsOwn

\* The fence of a cache: no operation works in a store in which a child of
\* another still runs, for every death of its parent.
THEOREM LeaseFencesChildren == ~Lapses /\ Quarantines => (Spec => []NoneBeneathAChild)
<1> SUFFICES ASSUME ~Lapses, Quarantines PROVE Spec => []NoneBeneathAChild
  OBVIOUS
<1> DEFINE I == LeaseInv /\ ChildIsFenced
<1>1. I /\ [Next]_vars => I'
  BY InvStep, StepChildIsFenced DEF LeaseInv
<1>2. I => NoneBeneathAChild
  BY DEF LeaseInv, HoldsOwn, OneMaker, ChildIsFenced, TypeOK, Owning, NoneBeneathAChild
<1>3. Init => I
  BY InvInit
<1> QED  BY <1>1, <1>2, <1>3, PTL DEF Spec

\* Whoever retired a cache lease rebuilds before it works, and nobody works
\* beside it.
RebuildsFirst ==
    \A p \in Proc :
        policy = "cache" /\ reclaimed[p] /\ pc[p] \in Working \ {"rebuild"} => ~abandoned

LEMMA StepRebuildsFirst ==
    ASSUME LeaseInv, RebuildsFirst, [Next]_vars
    PROVE  RebuildsFirst'
<1>alone. \A p, q \in Proc : pc[p] \in Working /\ pc[q] \in Working => p = q
  BY DEF LeaseInv, HoldsOwn, OneMaker, Owning
<1>typed. pc \in [Proc -> Label] /\ reclaimed \in [Proc -> BOOLEAN]
  BY DEF LeaseInv, TypeOK
<1> USE <1>typed DEF RebuildsFirst, disk, store, local, Go
<1>1. ASSUME NEW p \in Proc, Rebuild(p) PROVE RebuildsFirst'
  BY <1>1 DEF Rebuild
<1>2. ASSUME NEW p \in Proc, Fill(p) PROVE RebuildsFirst'
  BY <1>2 DEF Fill
<1>3. ASSUME NEW p \in Proc, Rename(p) PROVE RebuildsFirst'
  BY <1>3 DEF Rename, Working
<1>4. ASSUME NEW p \in Proc, Retain(p) PROVE RebuildsFirst'
  <2>1. pc[p] \in Working /\ pc' = [pc EXCEPT ![p] = "failed"] /\ UNCHANGED <<policy, reclaimed>>
    BY <1>4 DEF Retain, Working
  <2>2. \A q \in Proc : pc'[q] \notin Working
    BY <1>alone, <2>1 DEF Working
  <2> QED  BY <2>2
<1>5. ASSUME NEW p \in Proc, Crash(p) PROVE RebuildsFirst'
  <2>1. /\ pc' = [pc EXCEPT ![p] = "dead"] /\ UNCHANGED <<policy, reclaimed>>
        /\ abandoned' = (abandoned \/ pc[p] \in Working)
    BY <1>5 DEF Crash
  <2>2. CASE pc[p] \in Working
    <3>1. \A q \in Proc : pc'[q] \notin Working
      BY <1>alone, <2>1, <2>2 DEF Working
    <3> QED  BY <3>1
  <2>3. CASE pc[p] \notin Working
    BY <2>1, <2>3 DEF Working
  <2> QED  BY <2>2, <2>3
<1>6. ASSUME NEW p \in Proc, Truncate(p) \/ Protect(p) \/ Spawn(p) \/ Complete(p) \/ Abandon(p)
      PROVE  RebuildsFirst'
  <2>1. UNCHANGED <<policy, reclaimed, abandoned>>
    BY <1>6 DEF Truncate, Protect, Spawn, Complete, Abandon
  <2>2. \A q \in Proc : pc'[q] \in Working \ {"rebuild"} => pc[q] \in Working \ {"rebuild"}
    BY <1>6 DEF Truncate, Protect, Spawn, Complete, Abandon, Working
  <2> QED  BY <2>1, <2>2
<1>7. ASSUME NEW p \in Proc,
             \/ Open(p) \/ GiveUp(p) \/ Observe(p) \/ FillFails(p) \/ Remove(p)
             \/ Claim(p) \/ Inspect(p) \/ Fence(p) \/ Revalidate(p)
      PROVE  RebuildsFirst'
  <2>1. UNCHANGED <<policy, reclaimed, abandoned>>
    BY <1>7 DEF Open, GiveUp, Observe, FillFails, Remove, Claim, Inspect, Fence, Revalidate
  <2>2. \E label \in Label \ Working : pc' = [pc EXCEPT ![p] = label]
    BY <1>7 DEF Open, GiveUp, Observe, FillFails, Remove, Claim, Inspect, Fence, Revalidate,
                NextClaim, Return, Label, Terminal, Reclaiming, Working
  <2>3. \A q \in Proc : pc'[q] \in Working => pc[q] = pc'[q]
    BY <2>2
  <2> QED  BY <2>1, <2>3
<1>8. ASSUME NEW p \in Proc, ChildExits(p) PROVE RebuildsFirst'
  BY <1>8 DEF ChildExits
<1>9. ASSUME NEW g \in Gen, Age(g) PROVE RebuildsFirst'
  BY <1>9 DEF Age
<1>10. CASE UNCHANGED vars
  BY <1>10 DEF vars
<1> QED
  BY <1>1, <1>2, <1>3, <1>4, <1>5, <1>6, <1>7, <1>8, <1>9, <1>10 DEF Next, Step

\* A process that retired a dead cache lease never runs in what an operation
\* left there: it has moved that aside itself, and nobody who could leave
\* anything new gets in before it is done.
THEOREM LeaseReclaimerRebuilds == ~Lapses => (Spec => []ReclaimerRebuilds)
<1> SUFFICES ASSUME ~Lapses PROVE Spec => []ReclaimerRebuilds
  OBVIOUS
<1> DEFINE I == LeaseInv /\ RebuildsFirst
<1>1. Init => I
  BY InvInit DEF Init, RebuildsFirst, Working
<1>2. I /\ [Next]_vars => I'
  BY InvStep, StepRebuildsFirst
<1>3. I => ReclaimerRebuilds
  BY DEF RebuildsFirst, ReclaimerRebuilds, Working
<1> QED  BY <1>1, <1>2, <1>3, PTL DEF Spec
=============================================================================
