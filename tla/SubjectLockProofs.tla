-------------------------- MODULE SubjectLockProofs --------------------------
(* What the lock promises for any number of processes, however slow, dead,  *)
(* expired or refused by the file system they are.                          *)
EXTENDS SubjectLock, TLAPS

ClaimType == [Id \X (0 .. Claims - 1) -> ClaimState]
ObsType == [Proc -> (Gen \cup {None}) \X Owner]

\* The parts of TypeOK that retirement touches through its helpers.
Control ==
    /\ pc \in [Proc -> Label] /\ attempt \in [Proc -> 1 .. Attempts]
    /\ num \in [Proc -> 0 .. Claims - 1] /\ next \in [Proc -> Caller]

-----------------------------------------------------------------------------
LEMMA GoTyped ==
    ASSUME pc \in [Proc -> Label], NEW p \in Proc, NEW l \in Label, Go(p, l)
    PROVE  pc' \in [Proc -> Label]
BY DEF Go

LEMMA AgainTyped ==
    ASSUME Control, NEW p \in Proc, Again(p)
    PROVE  pc' \in [Proc -> Label] /\ attempt' \in [Proc -> 1 .. Attempts]
<1>1. CASE attempt[p] < Attempts
  BY <1>1, LockAssumption DEF Control, Again, Go, Label, Terminal
<1>2. CASE ~(attempt[p] < Attempts)
  BY <1>2 DEF Control, Again, Go, Label, Terminal
<1> QED  BY <1>1, <1>2

LEMMA ReturnTyped ==
    ASSUME Control, NEW p \in Proc, NEW b \in BOOLEAN, Return(p, b)
    PROVE  pc' \in [Proc -> Label] /\ attempt' \in [Proc -> 1 .. Attempts]
<1>1. CASE Again(p)
  BY <1>1, AgainTyped
<1>2. CASE UNCHANGED attempt /\ \E l \in Label : Go(p, l)
  BY <1>2, GoTyped DEF Control
<1> QED  BY <1>1, <1>2 DEF Return, Ended, Disturbed, Label, Terminal

LEMMA ThrowTyped ==
    ASSUME Control, NEW p \in Proc, Throw(p)
    PROVE  pc' \in [Proc -> Label] /\ attempt' \in [Proc -> 1 .. Attempts]
<1>1. CASE Again(p)
  BY <1>1, AgainTyped
<1>2. CASE UNCHANGED attempt /\ Go(p, "failed")
  BY <1>2, GoTyped DEF Control, Label, Terminal
<1> QED  BY <1>1, <1>2 DEF Throw

LEMMA NextClaimTyped ==
    ASSUME Control, NEW p \in Proc, NextClaim(p)
    PROVE  /\ pc' \in [Proc -> Label] /\ attempt' \in [Proc -> 1 .. Attempts]
           /\ num' \in [Proc -> 0 .. Claims - 1]
<1>1. CASE num[p] + 1 < Claims
  <2>1. num' \in [Proc -> 0 .. Claims - 1]
    BY <1>1, LockAssumption DEF NextClaim, Control
  <2> QED  BY <1>1, <2>1, GoTyped DEF NextClaim, Control, Label
<1>2. CASE ~(num[p] + 1 < Claims)
  BY <1>2, ThrowTyped DEF NextClaim, Control
<1> QED  BY <1>1, <1>2

LEMMA RetireTyped ==
    ASSUME TypeOK, NEW p \in Proc, NEW c \in Caller, Retire(p, c)
    PROVE  /\ pc' \in [Proc -> Label] /\ obs' \in ObsType
           /\ num' \in [Proc -> 0 .. Claims - 1] /\ next' \in [Proc -> Caller]
<1>1. Current \in (Gen \cup {None}) \X Owner
  BY DEF TypeOK, Current, Owner
<1>2. pc' \in [Proc -> Label]
  BY GoTyped DEF Retire, TypeOK, Label
<1>3. obs' \in ObsType
  BY <1>1 DEF Retire, TypeOK, ObsType
<1>4. num' \in [Proc -> 0 .. Claims - 1] /\ next' \in [Proc -> Caller]
  BY LockAssumption DEF Retire, TypeOK
<1> QED  BY <1>2, <1>3, <1>4

LEMMA SetClaimTyped ==
    ASSUME claim \in ClaimType, NEW p, NEW s \in ClaimState, SetClaim(p, s)
    PROVE  claim' \in ClaimType
BY DEF SetClaim, ClaimType

LEMMA DropClaimTyped ==
    ASSUME claim \in ClaimType, NEW p, DropClaim(p)
    PROVE  claim' \in ClaimType
<1>1. CASE SetClaim(p, "absent")
  BY <1>1, SetClaimTyped DEF ClaimState
<1>2. CASE UNCHANGED claim
  BY <1>2
<1> QED  BY <1>1, <1>2 DEF DropClaim

LEMMA StrainTyped ==
    ASSUME strains \in Nat, strains <= Strains, Strain \/ UNCHANGED strains
    PROVE  strains' \in Nat /\ strains' <= Strains
BY LockAssumption DEF Strain

-----------------------------------------------------------------------------
\* A process that restores a directory has carried one away.
HasMoved == \A q \in Proc : pc[q] \in {"restore", "relink"} => moved[q] # None

Exit == {"mkdir", "busy", "failed", "released", "warned", "claim"}

LEMMA Exits ==
    ASSUME NEW p \in Proc, NEW b \in BOOLEAN,
           Again(p) \/ Return(p, b) \/ Throw(p) \/ NextClaim(p)
    PROVE  \E l \in Exit : Go(p, l)
BY DEF Again, Return, Throw, NextClaim, Exit, Ended, Disturbed

\* A step of p moves p alone: without carrying anything away, by carrying it
\* away, or on the way to putting it back.
Quiet(p) == UNCHANGED moved /\ \E l \in Label \ {"restore", "relink"} : Go(p, l)
Carries(p) ==
    /\ pc[p] = "rename" /\ at # None
    /\ Go(p, "restore") /\ moved' = [moved EXCEPT ![p] = at]
PutsBack(p) == pc[p] = "restore" /\ Go(p, "relink") /\ UNCHANGED moved

LEMMA StepOwn ==
    ASSUME NEW p \in Proc, Step(p)
    PROVE  Quiet(p) \/ Carries(p) \/ PutsBack(p)
<1>go. \A l \in Label \ {"restore", "relink"} : Go(p, l) /\ UNCHANGED moved => Quiet(p)
  BY DEF Quiet
<1>exit. ASSUME NEW b \in BOOLEAN,
                Again(p) \/ Return(p, b) \/ Throw(p) \/ NextClaim(p), UNCHANGED moved
         PROVE  Quiet(p)
  BY <1>exit, Exits DEF Quiet, Exit, Label, Terminal
<1> USE DEF Label, Terminal
<1>1. CASE Mkdir(p) \/ Prepare(p) \/ Publish(p) \/ Confirm(p) \/ Refuse(p) \/ Claim(p)
  BY <1>1, <1>go DEF Mkdir, Prepare, Publish, Confirm, Refuse, Claim, Retire, local
<1>2. CASE Observe(p) \/ Cleanup(p) \/ Release(p)
  <2>1. UNCHANGED moved
    BY <1>2 DEF Observe, Cleanup, Release
  <2>2. \/ Again(p) \/ Go(p, "busy") \/ Go(p, "claim") \/ Go(p, "warned") \/ Go(p, "failed")
    BY <1>2 DEF Observe, Cleanup, Release, Retire, Disturbed
  <2> QED  BY <2>1, <2>2, <1>go, <1>exit
<1>3. CASE Inspect(p) \/ Fence(p)
  <2>1. UNCHANGED moved /\ (NextClaim(p) \/ Return(p, FALSE) \/ Throw(p) \/ Go(p, "fence"))
    BY <1>3 DEF Inspect, Fence
  <2> QED  BY <2>1, <1>go, <1>exit
<1>4. CASE Revalidate(p) \/ RenameError(p) \/ Sweep(p) \/ Relink(p)
  <2>1. /\ UNCHANGED moved
        /\ Return(p, FALSE) \/ Return(p, TRUE) \/ Throw(p) \/ Go(p, "rename")
    BY <1>4 DEF Revalidate, RenameError, Sweep, Relink
  <2> QED  BY <2>1, <1>go, <1>exit
<1>5. CASE Rename(p)
  <2>1. CASE Return(p, FALSE) /\ UNCHANGED moved
    BY <2>1, <1>exit
  <2>2. CASE Go(p, "sweep") /\ UNCHANGED moved
    BY <2>2, <1>go
  <2>3. CASE at # None /\ Go(p, "restore") /\ moved' = [moved EXCEPT ![p] = at]
    BY <1>5, <2>3 DEF Rename, Carries
  <2> QED  BY <1>5, <2>1, <2>2, <2>3 DEF Rename
<1>6. CASE Restore(p)
  <2>1. UNCHANGED moved /\ (Return(p, FALSE) \/ Throw(p) \/ PutsBack(p))
    BY <1>6 DEF Restore, PutsBack
  <2> QED  BY <2>1, <1>exit
<1> QED
  BY <1>1, <1>2, <1>3, <1>4, <1>5, <1>6 DEF Step

LEMMA StepMoved ==
    ASSUME TypeOK, HasMoved, NEW p \in Proc, Step(p)
    PROVE  HasMoved'
<1>1. CASE Quiet(p)
  BY <1>1 DEF Quiet, Go, TypeOK, HasMoved
<1>2. CASE Carries(p)
  BY <1>2 DEF Carries, Go, TypeOK, HasMoved
<1>3. CASE PutsBack(p)
  BY <1>3 DEF PutsBack, Go, TypeOK, HasMoved
<1> QED  BY <1>1, <1>2, <1>3, StepOwn

LEMMA StepTyped ==
    ASSUME TypeOK, HasMoved, NEW p \in Proc, Step(p)
    PROVE  TypeOK'
<1> USE DEF ClaimType, ObsType
<1>control. Control
  BY DEF TypeOK, Control
<1>labels. \A l \in Label : Go(p, l) => pc' \in [Proc -> Label]
  BY GoTyped DEF TypeOK
<1>1. CASE Mkdir(p)
  <2>1. pc' \in [Proc -> Label]
    BY <1>1, <1>labels DEF Mkdir, Label
  <2> QED  BY <1>1, <2>1 DEF Mkdir, Create, TypeOK, lease, disk
<1>2. CASE Observe(p)
  <2>1. CASE Again(p) /\ UNCHANGED <<obs, num, next>>
    BY <1>2, <2>1, <1>control, AgainTyped DEF Observe, TypeOK, lease, disk
  <2>2. CASE Go(p, "busy") /\ UNCHANGED <<obs, num, next, attempt>>
    <3>1. pc' \in [Proc -> Label]
      BY <2>2, <1>labels DEF Label, Terminal
    <3> QED  BY <1>2, <2>2, <3>1 DEF Observe, TypeOK, lease, disk
  <2>3. CASE Retire(p, "reclaim") /\ UNCHANGED attempt
    <3>1. "reclaim" \in Caller
      BY DEF Caller
    <3>2. /\ pc' \in [Proc -> Label] /\ obs' \in ObsType
          /\ num' \in [Proc -> 0 .. Claims - 1] /\ next' \in [Proc -> Caller]
      BY <2>3, <3>1, RetireTyped
    <3> QED  BY <1>2, <2>3, <3>2 DEF Observe, TypeOK, lease, disk
  <2> QED  BY <1>2, <2>1, <2>2, <2>3 DEF Observe
<1>3. CASE Prepare(p)
  <2>1. pc' \in [Proc -> Label]
    BY <1>3, <1>labels DEF Prepare, Label
  <2>2. pending' \in [Gen -> SUBSET Proc] /\ aged' \subseteq Gen
    BY <1>3, LockAssumption DEF Prepare, TypeOK
  <2> QED  BY <1>3, <2>1, <2>2 DEF Prepare, TypeOK, lease, local
<1>4. CASE Publish(p)
  <2>1. pc' \in [Proc -> Label]
    BY <1>4, <1>labels DEF Publish, Label
  <2>2. pending' \in [Gen -> SUBSET Proc] /\ aged' \subseteq Gen
    BY <1>4 DEF Publish, TypeOK
  <2>3. owner' \in [Gen -> Owner]
    BY <1>4 DEF Publish, TypeOK, Owner
  <2> QED  BY <1>4, <2>1, <2>2, <2>3 DEF Publish, TypeOK, lease, local
<1>5. CASE Confirm(p)
  <2>1. pc' \in [Proc -> Label]
    BY <1>5, <1>labels DEF Confirm, Label
  <2>2. met' \in [Proc -> SUBSET Proc]
    BY <1>5 DEF Confirm, TypeOK, Inside
  <2> QED  BY <1>5, <2>1, <2>2 DEF Confirm, TypeOK, lease, local, disk
<1>6. CASE Refuse(p)
  <2>1. Retire(p, "refuse") /\ "refuse" \in Caller
    BY <1>6 DEF Refuse, Caller
  <2>2. /\ pc' \in [Proc -> Label] /\ obs' \in ObsType
        /\ num' \in [Proc -> 0 .. Claims - 1] /\ next' \in [Proc -> Caller]
    BY <2>1, RetireTyped
  <2> QED  BY <1>6, <2>2 DEF Refuse, TypeOK, lease, disk
<1>7. CASE Cleanup(p)
  <2>1. CASE Again(p) /\ UNCHANGED <<obs, num, next>>
    BY <1>7, <2>1, <1>control, AgainTyped DEF Cleanup, TypeOK, lease, disk
  <2>2. CASE Retire(p, "retry") /\ UNCHANGED attempt
    <3>1. "retry" \in Caller
      BY DEF Caller
    <3>2. /\ pc' \in [Proc -> Label] /\ obs' \in ObsType
          /\ num' \in [Proc -> 0 .. Claims - 1] /\ next' \in [Proc -> Caller]
      BY <2>2, <3>1, RetireTyped
    <3> QED  BY <1>7, <2>2, <3>2 DEF Cleanup, TypeOK, lease, disk
  <2> QED  BY <1>7, <2>1, <2>2 DEF Cleanup
<1>8. CASE Release(p)
  <2>1. CASE Go(p, Disturbed(p)) /\ UNCHANGED <<obs, num, next>>
    <3>1. pc' \in [Proc -> Label]
      BY <2>1, <1>labels DEF Label, Terminal, Disturbed
    <3> QED  BY <1>8, <2>1, <3>1 DEF Release, TypeOK, lease, disk
  <2>2. CASE Retire(p, "release")
    <3>1. "release" \in Caller
      BY DEF Caller
    <3>2. /\ pc' \in [Proc -> Label] /\ obs' \in ObsType
          /\ num' \in [Proc -> 0 .. Claims - 1] /\ next' \in [Proc -> Caller]
      BY <2>2, <3>1, RetireTyped
    <3> QED  BY <1>8, <2>2, <3>2 DEF Release, TypeOK, lease, disk
  <2> QED  BY <1>8, <2>1, <2>2 DEF Release
<1>9. CASE Claim(p)
  <2>1. pc' \in [Proc -> Label]
    BY <1>9, <1>labels DEF Claim, Label
  <2>2. claim' \in ClaimType
    BY <1>9, SetClaimTyped DEF Claim, TypeOK, ClaimState
  <2> QED  BY <1>9, <2>1, <2>2 DEF Claim, TypeOK, lease, local, disk
<1>moves. /\ pc' \in [Proc -> Label] /\ attempt' \in [Proc -> 1 .. Attempts]
          /\ num' \in [Proc -> 0 .. Claims - 1] /\ claim' \in ClaimType
          /\ UNCHANGED <<disk, lease, obs, mine, next, moved, met>>
          => TypeOK'
  BY DEF TypeOK, disk, lease
<1>10. CASE Inspect(p)
  <2>1. /\ pc' \in [Proc -> Label] /\ attempt' \in [Proc -> 1 .. Attempts]
        /\ num' \in [Proc -> 0 .. Claims - 1]
    <3>1. CASE NextClaim(p)
      BY <3>1, <1>control, NextClaimTyped
    <3>2. CASE Return(p, FALSE) /\ UNCHANGED num
      BY <3>2, <1>control, ReturnTyped DEF TypeOK
    <3>3. CASE Go(p, "fence") /\ UNCHANGED <<num, attempt>>
      BY <3>3, <1>labels DEF TypeOK, Label
    <3> QED  BY <1>10, <3>1, <3>2, <3>3 DEF Inspect
  <2> QED  BY <1>10, <1>moves, <2>1 DEF Inspect, TypeOK
<1>11. CASE Fence(p)
  <2>1. /\ pc' \in [Proc -> Label] /\ attempt' \in [Proc -> 1 .. Attempts]
        /\ num' \in [Proc -> 0 .. Claims - 1]
    <3>1. CASE NextClaim(p)
      BY <3>1, <1>control, NextClaimTyped
    <3>2. CASE Return(p, FALSE) /\ UNCHANGED num
      BY <3>2, <1>control, ReturnTyped DEF TypeOK
    <3>3. CASE Throw(p) /\ UNCHANGED num
      BY <3>3, <1>control, ThrowTyped DEF TypeOK
    <3> QED  BY <1>11, <3>1, <3>2, <3>3 DEF Fence
  <2>2. claim' \in ClaimType
    BY <1>11, SetClaimTyped DEF Fence, TypeOK, ClaimState
  <2> QED  BY <1>11, <1>moves, <2>1, <2>2 DEF Fence
<1>12. CASE Revalidate(p)
  <2>1. pc' \in [Proc -> Label] /\ attempt' \in [Proc -> 1 .. Attempts]
    <3>1. CASE Go(p, "rename") /\ UNCHANGED attempt
      BY <3>1, <1>labels DEF TypeOK, Label
    <3>2. CASE Return(p, FALSE)
      BY <3>2, <1>control, ReturnTyped
    <3> QED  BY <1>12, <3>1, <3>2 DEF Revalidate
  <2>2. claim' \in ClaimType
    BY <1>12, DropClaimTyped DEF Revalidate, TypeOK
  <2> QED  BY <1>12, <1>moves, <2>1, <2>2 DEF Revalidate, TypeOK
<1>13. CASE Rename(p)
  <2>1. pc' \in [Proc -> Label] /\ attempt' \in [Proc -> 1 .. Attempts]
    <3>1. CASE UNCHANGED attempt /\ (Go(p, "sweep") \/ Go(p, "restore"))
      BY <3>1, <1>labels DEF TypeOK, Label
    <3>2. CASE Return(p, FALSE)
      BY <3>2, <1>control, ReturnTyped
    <3> QED  BY <1>13, <3>1, <3>2 DEF Rename
  <2>2. claim' \in ClaimType
    BY <1>13, DropClaimTyped, SetClaimTyped DEF Rename, TypeOK, ClaimState
  <2>3. at' \in used \cup {None} /\ moved' \in [Proc -> Gen \cup {None}]
    BY <1>13 DEF Rename, TypeOK
  <2> QED  BY <1>13, <2>1, <2>2, <2>3 DEF Rename, TypeOK, lease
<1>14. CASE RenameError(p)
  <2>1. pc' \in [Proc -> Label] /\ attempt' \in [Proc -> 1 .. Attempts]
    BY <1>14, <1>control, ThrowTyped DEF RenameError
  <2>2. claim' \in ClaimType
    BY <1>14, DropClaimTyped DEF RenameError, TypeOK
  <2>3. strains' \in Nat /\ strains' <= Strains
    BY <1>14, StrainTyped DEF RenameError, TypeOK
  <2> QED  BY <1>14, <1>moves, <2>1, <2>2, <2>3 DEF RenameError, TypeOK, disk, local
<1>15. CASE Sweep(p)
  <2>1. pc' \in [Proc -> Label] /\ attempt' \in [Proc -> 1 .. Attempts]
    BY <1>15, <1>control, ReturnTyped DEF Sweep
  <2>2. claim' \in ClaimType
    BY <1>15, SetClaimTyped DEF Sweep, TypeOK, ClaimState
  <2> QED  BY <1>15, <1>moves, <2>1, <2>2 DEF Sweep, TypeOK
<1>16. CASE Restore(p)
  <2>1. pc' \in [Proc -> Label] /\ attempt' \in [Proc -> 1 .. Attempts]
    <3>1. CASE Go(p, "relink") /\ UNCHANGED attempt
      BY <3>1, <1>labels DEF TypeOK, Label
    <3>2. CASE Return(p, FALSE) \/ Throw(p)
      BY <3>2, <1>control, ReturnTyped, ThrowTyped
    <3> QED  BY <1>16, <3>1, <3>2 DEF Restore
  <2>2. (\E g \in Gen : Create(p, g)) \/ UNCHANGED <<disk, mine>>
    BY <1>16 DEF Restore
  <2>3. at' \in used' \cup {None} /\ used' \subseteq Gen /\ UNCHANGED <<owner, pending, aged>>
    BY <2>2 DEF Create, TypeOK, disk
  <2>4. mine' \in [Proc -> Gen \cup {None}]
    BY <2>2 DEF Create, TypeOK
  <2> QED  BY <1>16, <2>1, <2>3, <2>4 DEF Restore, TypeOK, lease
<1>17. CASE Relink(p)
  <2>moved. moved[p] \in Gen
    BY <1>17 DEF Relink, HasMoved, TypeOK
  <2>1. pc' \in [Proc -> Label] /\ attempt' \in [Proc -> 1 .. Attempts]
    <3>1. Return(p, FALSE) \/ Throw(p)
      BY <1>17 DEF Relink
    <3> QED  BY <3>1, <1>control, ReturnTyped, ThrowTyped
  <2>2. pending' \in [Gen -> SUBSET Proc] /\ aged' \subseteq Gen
    <3>1. CASE UNCHANGED <<pending, aged>>
      BY <3>1 DEF TypeOK
    <3>2. CASE /\ pending' = [pending EXCEPT ![at] = @ \cup pending[moved[p]]]
               /\ aged' = aged \ {at}
      BY <2>moved, <3>2 DEF TypeOK
    <3> QED  BY <1>17, <3>1, <3>2 DEF Relink
  <2>3. owner' \in [Gen -> Owner]
    <3>1. CASE UNCHANGED owner
      BY <3>1 DEF TypeOK
    <3>2. CASE owner' = [owner EXCEPT ![at] = owner[moved[p]]] /\ owner[moved[p]] \in Owner
      BY <3>2 DEF TypeOK
    <3> QED  BY <1>17, <2>moved, <3>1, <3>2 DEF Relink, TypeOK
  <2> QED  BY <1>17, <2>1, <2>2, <2>3 DEF Relink, TypeOK, lease
<1> QED
  BY <1>1, <1>2, <1>3, <1>4, <1>5, <1>6, <1>7, <1>8, <1>9, <1>10, <1>11,
     <1>12, <1>13, <1>14, <1>15, <1>16, <1>17 DEF Step

-----------------------------------------------------------------------------
TypeInv == TypeOK /\ HasMoved

\* Only the passing of time and deaths.
Environment ==
    \/ \E p \in Proc : Crash(p) \/ Lapse(p) \/ Renew(p) \/ HeartbeatFails(p)
    \/ \E g \in Gen : Age(g)

LEMMA EnvironmentTyped ==
    ASSUME TypeInv, Environment
    PROVE  TypeInv'
<1>1. CASE \E p \in Proc : Crash(p)
  <2> PICK p \in Proc : Crash(p)
    BY <1>1
  <2>1. pc' \in [Proc -> Label] /\ HasMoved'
    BY GoTyped DEF Crash, TypeInv, TypeOK, HasMoved, Label, Terminal, Go, local
  <2> QED  BY <2>1 DEF Crash, TypeInv, TypeOK, lease, disk, local
<1>2. CASE \E p \in Proc : Lapse(p) \/ Renew(p) \/ HeartbeatFails(p)
  <2>1. strains' \in Nat /\ strains' <= Strains
    BY <1>2, StrainTyped DEF Lapse, Renew, HeartbeatFails, TypeInv, TypeOK
  <2> QED
    BY <1>2, <2>1 DEF Lapse, Renew, HeartbeatFails, TypeInv, TypeOK, HasMoved, disk, local
<1>3. CASE \E g \in Gen : Age(g)
  <2>1. strains' \in Nat /\ strains' <= Strains
    BY <1>3, StrainTyped DEF Age, TypeInv, TypeOK
  <2> QED  BY <1>3, <2>1 DEF Age, TypeInv, TypeOK, HasMoved, local
<1> QED  BY <1>1, <1>2, <1>3 DEF Environment

LEMMA NextTyped == TypeInv /\ [Next]_vars => TypeInv'
<1> SUFFICES ASSUME TypeInv, [Next]_vars PROVE TypeInv'
  OBVIOUS
<1>1. CASE \E p \in Proc : Step(p)
  BY <1>1, StepTyped, StepMoved DEF TypeInv
<1>2. CASE Environment
  BY <1>2, EnvironmentTyped
<1>3. CASE UNCHANGED vars
  BY <1>3 DEF vars, disk, lease, local, TypeInv, TypeOK, HasMoved
<1> QED  BY <1>1, <1>2, <1>3 DEF Next, Environment

LEMMA InitTyped == Init => TypeInv
<1> SUFFICES ASSUME Init PROVE TypeInv
  OBVIOUS
<1>1. owner \in [Gen -> Owner] /\ at \in used \cup {None} /\ used \subseteq Gen
  BY DEF Init, Owner
<1>2. num \in [Proc -> 0 .. Claims - 1] /\ attempt \in [Proc -> 1 .. Attempts]
  BY LockAssumption DEF Init
<1>3. claim \in [Id \X (0 .. Claims - 1) -> ClaimState] /\ next \in [Proc -> Caller]
  BY DEF Init, ClaimState, Caller
<1>4. obs \in [Proc -> (Gen \cup {None}) \X Owner]
  BY DEF Init, Owner
<1> QED
  BY <1>1, <1>2, <1>3, <1>4, LockAssumption
     DEF Init, TypeInv, TypeOK, HasMoved, Label, Terminal

\* The variables of the lock keep their types: every record, claim and label a
\* process acts on is one the code can produce.
THEOREM LockTyped == Spec => []TypeOK
<1>1. Spec => []TypeInv
  BY InitTyped, NextTyped, PTL DEF Spec
<1> QED  BY <1>1, PTL DEF TypeInv

-----------------------------------------------------------------------------
(* An overlap starts when a process enters while another is inside. The one *)
(* inside has lost its lock by then: the pathname names the one that enters. *)
(* Nothing gives the lock back to it unless a directory was moved and put   *)
(* back, so its command ends with a warning or an error.                    *)

NothingMoved == \A p \in Proc : moved[p] = None
Holds(p) == at # None /\ owner[at] = p
Lost(p) == \/ pc[p] \in {"warned", "failed", "dead"}
           \/ pc[p] = "callback" /\ ~Holds(p)

FreshMissing == \A g \in Gen \ used : owner[g] = Missing

OverlapInv ==
    /\ TypeInv /\ FreshMissing
    /\ NothingMoved => \A p, q \in Proc : q \in met[p] => Lost(p) \/ Lost(q)

\* What a step may do to the pathname and the owner records.
LEMMA StepDisk ==
    ASSUME NEW p \in Proc, Step(p)
    PROVE  \/ UNCHANGED <<at, owner, used>>
           \/ \E g \in Gen : Create(p, g)
           \/ at' = None /\ UNCHANGED <<owner, used>>
           \/ /\ at # None /\ UNCHANGED <<at, used>>
              /\ \E o : owner' = [owner EXCEPT ![at] = o] /\ (o = p \/ pc[p] = "relink")
<1>1. CASE Mkdir(p) \/ Restore(p)
  BY <1>1 DEF Mkdir, Restore, disk
<1>2. CASE Publish(p)
  BY <1>2 DEF Publish, CanPublish
<1>3. CASE Relink(p)
  BY <1>3 DEF Relink
<1>4. CASE Rename(p)
  BY <1>4 DEF Rename
<1>5. CASE \/ Observe(p) \/ Prepare(p) \/ Confirm(p) \/ Refuse(p) \/ Cleanup(p)
           \/ Release(p) \/ Claim(p) \/ Inspect(p) \/ Fence(p) \/ Revalidate(p)
           \/ RenameError(p) \/ Sweep(p)
  BY <1>5 DEF Observe, Prepare, Confirm, Refuse, Cleanup, Release, Claim, Inspect,
              Fence, Revalidate, RenameError, Sweep, disk
<1> QED
  BY <1>1, <1>2, <1>3, <1>4, <1>5 DEF Step

LEMMA StepFresh ==
    ASSUME TypeInv, FreshMissing, NEW p \in Proc, Step(p)
    PROVE  FreshMissing'
<1>1. CASE \E g \in Gen : Create(p, g)
  BY <1>1 DEF Create, FreshMissing
<1>2. CASE UNCHANGED <<owner, used>>
  BY <1>2 DEF FreshMissing
<1>3. CASE at # None /\ UNCHANGED used /\ \E o : owner' = [owner EXCEPT ![at] = o]
  BY <1>3 DEF FreshMissing, TypeInv, TypeOK
<1> QED  BY <1>1, <1>2, <1>3, StepDisk

\* A process inside the callback takes no step but its release.
LEMMA InsideReleases ==
    ASSUME NEW p \in Proc, Step(p), pc[p] = "callback"
    PROVE  Release(p)
BY DEF Step, Mkdir, Observe, Prepare, Publish, Confirm, Refuse, Cleanup, Claim,
       Inspect, Fence, Revalidate, Rename, RenameError, Sweep, Restore, Relink

LEMMA StepStays ==
    ASSUME TypeInv, NothingMoved', NEW p \in Proc, Step(p)
    PROVE  NothingMoved /\ pc[p] # "relink"
<1>1. ~Carries(p)
  BY DEF Carries, NothingMoved, TypeInv, TypeOK
<1>2. NothingMoved
  BY <1>1, StepOwn DEF NothingMoved, Quiet, PutsBack
<1> QED  BY <1>2 DEF NothingMoved, TypeInv, HasMoved

LEMMA StepLost ==
    ASSUME TypeInv, FreshMissing, NothingMoved', NEW p \in Proc, Step(p),
           NEW q \in Proc, Lost(q)
    PROVE  Lost(q)'
<1>1. CASE q = p
  <2>1. pc[p] = "callback" => Release(p) /\ ~Holds(p)
    BY <1>1, InsideReleases DEF Lost
  <2>2. pc[p] = "callback"
    <3>1. pc[p] \notin {"warned", "failed", "dead"}
      BY DEF Step, Mkdir, Observe, Prepare, Publish, Confirm, Refuse,
             Cleanup, Release, Claim, Inspect, Fence, Revalidate, Rename,
             RenameError, Sweep, Restore, Relink
    <3> QED  BY <1>1, <3>1 DEF Lost
  <2>3. Go(p, Disturbed(p))
    BY <2>1, <2>2 DEF Release, Holds
  <2> QED  BY <1>1, <2>3 DEF Go, Disturbed, Lost, TypeInv, TypeOK
<1>2. CASE q # p
  <2>1. pc'[q] = pc[q]
    BY <1>2, StepOwn DEF Quiet, Carries, PutsBack, Go, TypeInv, TypeOK
  <2>2. Holds(q)' => Holds(q)
    <3>1. pc[p] # "relink"
      BY StepStays
    <3>2. CASE UNCHANGED <<at, owner>>
      BY <3>2 DEF Holds
    <3>3. CASE \E g \in Gen : Create(p, g)
      BY <3>3, LockAssumption DEF Create, Holds, FreshMissing
    <3>4. CASE at' = None
      BY <3>4 DEF Holds
    <3>5. CASE at # None /\ UNCHANGED at /\ owner' = [owner EXCEPT ![at] = p]
      BY <1>2, <3>5 DEF Holds, TypeInv, TypeOK
    <3> QED  BY <3>1, <3>2, <3>3, <3>4, <3>5, StepDisk
  <2> QED  BY <2>1, <2>2 DEF Lost
<1> QED  BY <1>1, <1>2

\* Only entering the callback adds to met.
LEMMA StepMet ==
    ASSUME NEW p \in Proc, Step(p)
    PROVE  UNCHANGED met \/ Confirm(p)
BY DEF Step, Mkdir, Observe, Prepare, Publish, Refuse, Cleanup, Release, Claim,
       Inspect, Fence, Revalidate, Rename, RenameError, Sweep, Restore, Relink

LEMMA ConfirmMeetsLost ==
    ASSUME TypeInv, NEW p \in Proc, Confirm(p),
           NEW r \in Proc, NEW q \in Proc, q \in met'[r], q \notin met[r]
    PROVE  \E s \in {r, q} : s # p /\ pc[s] = "callback" /\ ~Holds(s)
<1>1. pc[p] = "confirm" /\ Current = <<mine[p], p>>
  BY DEF Confirm
<1>2. Holds(p)
  BY <1>1, LockAssumption DEF Current, Holds
<1>3. \A s \in Proc : s \in Inside => s # p /\ pc[s] = "callback" /\ ~Holds(s)
  BY <1>1, <1>2 DEF Inside, Holds
<1>4. met' = [s \in Proc |-> IF s = p THEN Inside
                              ELSE IF s \in Inside THEN met[s] \cup {p} ELSE met[s]]
  BY <1>1 DEF Confirm
<1>5. (r = p /\ q \in Inside) \/ (q = p /\ r \in Inside)
  BY <1>4
<1> QED  BY <1>3, <1>5

LEMMA StepOverlap ==
    ASSUME OverlapInv, NEW p \in Proc, Step(p)
    PROVE  OverlapInv'
<1>1. TypeInv' /\ FreshMissing'
  BY StepTyped, StepMoved, StepFresh DEF OverlapInv, TypeInv
<1>2. ASSUME NothingMoved', NEW r \in Proc, NEW q \in Proc, q \in met'[r]
      PROVE  Lost(r)' \/ Lost(q)'
  <2>1. NothingMoved
    BY <1>2, StepStays DEF OverlapInv
  <2>2. \A s \in Proc : Lost(s) => Lost(s)'
    BY <1>2, StepLost DEF OverlapInv
  <2>3. CASE q \in met[r]
    BY <2>1, <2>2, <2>3 DEF OverlapInv
  <2>4. CASE q \notin met[r]
    <3>1. Confirm(p)
      BY <1>2, <2>4, StepMet
    <3>2. \E s \in {r, q} : s # p /\ pc[s] = "callback" /\ ~Holds(s)
      BY <1>2, <2>4, <3>1, ConfirmMeetsLost DEF OverlapInv
    <3> QED  BY <2>2, <3>2 DEF Lost
  <2> QED  BY <2>3, <2>4
<1> QED  BY <1>1, <1>2 DEF OverlapInv

LEMMA EnvironmentOverlap ==
    ASSUME OverlapInv, Environment
    PROVE  OverlapInv'
<1>1. TypeInv'
  BY EnvironmentTyped DEF OverlapInv
<1>2. UNCHANGED <<at, used, owner, moved, met>>
  BY DEF Environment, Crash, Lapse, Renew, HeartbeatFails, Age, disk, local
<1>3. \A s \in Proc : Lost(s) => Lost(s)'
  <2>1. CASE UNCHANGED pc
    BY <1>2, <2>1 DEF Lost, Holds
  <2>2. CASE \E p \in Proc : Go(p, "dead")
    BY <1>2, <2>2 DEF Go, Lost, Holds, OverlapInv, TypeInv, TypeOK
  <2> QED  BY <2>1, <2>2 DEF Environment, Crash, Lapse, Renew, HeartbeatFails, Age
<1> QED  BY <1>1, <1>2, <1>3 DEF OverlapInv, FreshMissing, NothingMoved

LEMMA NextOverlap == OverlapInv /\ [Next]_vars => OverlapInv'
<1> SUFFICES ASSUME OverlapInv, [Next]_vars PROVE OverlapInv'
  OBVIOUS
<1>1. CASE \E p \in Proc : Step(p)
  BY <1>1, StepOverlap
<1>2. CASE Environment
  BY <1>2, EnvironmentOverlap
<1>3. CASE UNCHANGED vars
  <2>1. TypeInv'
    BY <1>3, NextTyped DEF OverlapInv
  <2> QED  BY <1>3, <2>1 DEF vars, disk, lease, local, OverlapInv, FreshMissing,
                             NothingMoved, Lost, Holds
<1> QED  BY <1>1, <1>2, <1>3 DEF Next, Environment

\* Whatever number of processes compete, die, stall past the grace period, let
\* their lease expire or are refused a rename: of two callbacks that overlapped,
\* at least one command reports it, unless some rename carried away a directory
\* that its process had not observed.
THEOREM LockReportsOverlap == Spec => []OverlapIsReported
<1>1. Init => OverlapInv
  <2> SUFFICES ASSUME Init PROVE OverlapInv
    OBVIOUS
  <2> QED  BY InitTyped DEF Init, OverlapInv, FreshMissing
<1>2. OverlapInv => OverlapIsReported
  BY DEF OverlapInv, OverlapIsReported, NoSilentOverlap, NothingMoved, Lost
<1> QED  BY <1>1, <1>2, NextOverlap, PTL DEF Spec

-----------------------------------------------------------------------------
(* What holds as long as no assumption about time or renames has failed:    *)
(* the directory at the pathname is in the hands of whoever made it, until  *)
(* it is given back or its owner is dead, and then under one open claim.    *)

Retiring == {"claim", "inspect", "fence", "revalidate", "rename"}
Claiming == {"revalidate", "rename", "sweep"}
Giving(p) == next[p] \in {"refuse", "release"}
Orphan(g) == \A p \in Proc : mine[p] = g => pc[p] \in Terminal
ClaimOf(p) == claim[<<obs[p], num[p]>>]
Number == 0 .. Claims - 1

\* No lease ran out, and nothing has to be put back or tried again.
Untroubled ==
    /\ lapsed = {} /\ hbFailed = {}
    /\ \A p \in Proc : pc[p] \notin {"cleanup", "restore", "relink"} /\ next[p] # "retry"

\* Generations are not reused: what is known of one is known of a used one.
OnlyUsed ==
    /\ \A g \in Gen : owner[g] # Missing => g \in used
    /\ aged \subseteq used
    /\ \A p \in Proc : mine[p] \in used \cup {None}
    /\ \A i \in Id, n \in Number : claim[<<i, n>>] # "absent" => i[1] \in used

OneMaker == \A p, q \in Proc : mine[p] = mine[q] /\ mine[p] # None => p = q

\* Only a directory that nobody fills any more grows old without an owner.
AgedIsOrphan == \A g \in aged : owner[g] = Missing => Orphan(g)

\* Whoever fills the lock or works under it finds its own directory there.
Fills(p) ==
    /\ pc[p] \in {"prepare", "publish"} =>
         mine[p] # None /\ at = mine[p] /\ owner[at] = Missing
    /\ pc[p] = "publish" => p \in pending[at]
    /\ pc[p] \in {"confirm", "callback"} => mine[p] # None /\ at = mine[p] /\ owner[at] = p

\* What a reclaimer observed has lost its owner for good.
Observed(p) ==
    pc[p] \in Retiring /\ next[p] = "reclaim" =>
        /\ obs[p][1] \in used /\ owner[obs[p][1]] = obs[p][2] /\ obs[p][2] \notin Alive
        /\ obs[p][2] = Missing => obs[p][1] \in aged /\ Orphan(obs[p][1])

\* Whoever gives the lock back still has it, and no other claims it.
GivesBack(p) ==
    pc[p] \in Retiring /\ Giving(p) =>
        /\ obs[p][1] = mine[p] /\ obs[p][2] = p
        /\ mine[p] # None /\ at = mine[p] /\ owner[at] = p
        /\ pc[p] \in {"claim", "revalidate", "rename"}
        /\ pc[p] # "claim" => ClaimOf(p) = "open"

Swept(p) == pc[p] = "sweep" => obs[p][1] \in used /\ at # obs[p][1]

\* The claim of who made one, the claims it has passed, and what an open one
\* means: while it is open, nobody else can have emptied the pathname.
HasClaim(p) ==
    /\ pc[p] \in {"revalidate", "rename"} => ClaimOf(p) \in {"open", "fenced"}
    /\ pc[p] = "sweep" => ClaimOf(p) = "retired"
PassedClaims(p) ==
    pc[p] \in Retiring /\ at = obs[p][1] =>
        /\ pc[p] \in {"inspect", "fence"} => ClaimOf(p) # "absent"
        /\ \A m \in Number : m < num[p] => claim[<<obs[p], m>>] = "fenced"
ClaimIsCurrent(p) == pc[p] = "rename" /\ ClaimOf(p) = "open" => at = obs[p][1]

\* A live owner's lock is claimed by nobody else, and is in its hands.
OwnClaims(p) ==
    p \in Alive =>
        \A i \in Id, n \in Number :
            i[2] = p /\ claim[<<i, n>>] # "absent" =>
                pc[p] \in Claiming /\ obs[p] = i /\ num[p] = n
OwnerHolds(p) ==
    at # None /\ owner[at] = p =>
        \/ pc[p] \in {"dead", "confirm", "callback"}
        \/ pc[p] \in Retiring /\ Giving(p)

CalmAt(p) ==
    /\ Fills(p) /\ Observed(p) /\ GivesBack(p) /\ Swept(p)
    /\ HasClaim(p) /\ PassedClaims(p) /\ ClaimIsCurrent(p)
    /\ OwnClaims(p) /\ OwnerHolds(p)

\* Of what is at the pathname, a claim exists only above fenced ones.
FencedBelow ==
    \A i \in Id, m, n \in Number :
        at = i[1] /\ m < n /\ claim[<<i, n>>] # "absent" => claim[<<i, m>>] = "fenced"

OneClaimant ==
    \A p, q \in Proc :
        pc[p] \in Claiming /\ pc[q] \in Claiming /\ obs[p] = obs[q] /\ num[p] = num[q] => p = q

Calm ==
    /\ Untroubled /\ OnlyUsed /\ OneMaker /\ AgedIsOrphan /\ FencedBelow /\ OneClaimant
    /\ \A p \in Proc : CalmAt(p)
CalmInv == strains = 0 => Calm

\* A step of p leaves the place of every other process alone.
Others(p) ==
    \A q \in Proc \ {p} :
        /\ pc'[q] = pc[q] /\ obs'[q] = obs[q] /\ num'[q] = num[q]
        /\ next'[q] = next[q] /\ mine'[q] = mine[q]

LEMMA GoOthers ==
    ASSUME TypeOK, NEW p \in Proc, NEW l, Go(p, l)
    PROVE  pc'[p] = l /\ \A q \in Proc \ {p} : pc'[q] = pc[q]
BY DEF TypeOK, Go

LEMMA RetireEffect ==
    ASSUME TypeOK, NEW p \in Proc, NEW c, Retire(p, c)
    PROVE  /\ pc'[p] = "claim" /\ obs'[p] = Current /\ num'[p] = 0 /\ next'[p] = c
           /\ \A q \in Proc \ {p} : /\ pc'[q] = pc[q] /\ obs'[q] = obs[q]
                                    /\ num'[q] = num[q] /\ next'[q] = next[q]
BY GoOthers DEF Retire, TypeOK

\* How the helpers that end a retirement go on, when nothing is retried.
LEMMA ExitEffect ==
    ASSUME TypeOK, Untroubled, NEW p \in Proc
    PROVE  /\ Again(p) => pc'[p] \in {"mkdir", "busy"}
           /\ \A b \in BOOLEAN :
                Return(p, b) => pc'[p] \in {"mkdir", "busy", "failed", "released", "warned"}
           /\ Throw(p) => pc'[p] = "failed"
           /\ NextClaim(p) => \/ pc'[p] = "failed" /\ num' = num
                              \/ /\ pc'[p] = "claim" /\ num'[p] = num[p] + 1
                                 /\ \A q \in Proc \ {p} : num'[q] = num[q]
<1>1. Again(p) => pc'[p] \in {"mkdir", "busy"}
  BY GoOthers DEF Again
<1>2. Throw(p) => pc'[p] = "failed"
  BY GoOthers DEF Throw, Untroubled
<1>3. ASSUME NEW b \in BOOLEAN, Return(p, b)
      PROVE  pc'[p] \in {"mkdir", "busy", "failed", "released", "warned"}
  BY <1>1, <1>3, GoOthers DEF Return, Ended, Disturbed, Untroubled
<1>4. NextClaim(p) => \/ pc'[p] = "failed" /\ num' = num
                      \/ /\ pc'[p] = "claim" /\ num'[p] = num[p] + 1
                         /\ \A q \in Proc \ {p} : num'[q] = num[q]
  BY <1>2, GoOthers DEF NextClaim, TypeOK
<1> QED  BY <1>1, <1>2, <1>3, <1>4

LEMMA ExitOthers ==
    ASSUME TypeOK, NEW p \in Proc, NEW b \in BOOLEAN,
           Again(p) \/ Return(p, b) \/ Throw(p) \/ NextClaim(p)
    PROVE  \A q \in Proc \ {p} : pc'[q] = pc[q]
BY Exits, GoOthers

\* A claim of p changes that one only.
LEMMA SetClaimEffect ==
    ASSUME TypeOK, NEW p \in Proc, obs[p][1] \in Gen, NEW s, SetClaim(p, s)
    PROVE  /\ claim'[<<obs[p], num[p]>>] = s
           /\ \A i \in Id, n \in Number :
                i # obs[p] \/ n # num[p] => claim'[<<i, n>>] = claim[<<i, n>>]
<1>1. obs[p] \in Id /\ num[p] \in Number
  BY DEF TypeOK, Id, Number
<1>2. <<obs[p], num[p]>> \in Id \X Number /\ claim \in [Id \X Number -> ClaimState]
  BY <1>1 DEF TypeOK, Number
<1>3. claim' = [claim EXCEPT ![<<obs[p], num[p]>>] = s]
  BY DEF SetClaim, MyClaim
<1> HIDE DEF TypeOK, Id, Number
<1>4. claim'[<<obs[p], num[p]>>] = s
  BY <1>2, <1>3
<1>5. ASSUME NEW i \in Id, NEW n \in Number, i # obs[p] \/ n # num[p]
      PROVE  claim'[<<i, n>>] = claim[<<i, n>>]
  <2>1. <<i, n>> \in Id \X Number /\ <<i, n>> # <<obs[p], num[p]>>
    BY <1>5
  <2> QED  BY <1>2, <1>3, <2>1
<1> QED  BY <1>4, <1>5

\* What a process observed is at the pathname exactly when its directory is.
LEMMA CurrentObserved ==
    ASSUME TypeOK, NEW p \in Proc, obs[p][1] \in Gen, owner[obs[p][1]] = obs[p][2]
    PROVE  Current = obs[p] <=> at = obs[p][1]
<1>1. obs[p] = <<obs[p][1], obs[p][2]>>
  BY DEF TypeOK
<1>2. Current[1] = at /\ (at # None => Current = <<at, owner[at]>>)
  BY DEF Current
<1>3. at = obs[p][1] => at # None
  BY LockAssumption
<1> QED  BY <1>1, <1>2, <1>3

\* The living become fewer, and what nobody fills is filled by nobody.
LEMMA LivingShrink ==
    ASSUME NEW p \in Alive, Others(p)
    PROVE  /\ Alive' \subseteq Alive
           /\ \A g : Orphan(g) /\ (mine'[p] = mine[p] \/ g # mine'[p]) => Orphan(g)'
BY DEF Alive, Others, Orphan

-----------------------------------------------------------------------------
Idle == Terminal \cup {"mkdir", "observe"}

\* A process that wants nothing of the pathname owes it nothing.
LEMMA IdleCalm ==
    ASSUME NEW p, pc'[p] \in Idle,
           pc'[p] = "dead" \/ at' = None \/ owner'[at'] # p,
           pc'[p] \in Terminal \/
               \A i \in Id, n \in Number : i[2] = p => claim'[<<i, n>>] = "absent"
    PROVE  CalmAt(p)'
BY DEF CalmAt, Fills, Observed, GivesBack, Swept, HasClaim, PassedClaims, ClaimIsCurrent,
       OwnClaims, OwnerHolds, Idle, Terminal, Retiring, Alive

\* Steps of p that change neither the disk nor a claim: only p's place moves.
Moves(p) ==
    /\ UNCHANGED <<at, used, owner, pending, aged, claim, mine, lapsed, hbFailed>>
    /\ Others(p)

LEMMA MoveBystander ==
    ASSUME NEW p \in Alive, Moves(p), NEW q \in Proc \ {p}, CalmAt(q)
    PROVE  CalmAt(q)'
<1> USE DEF Moves
<1>1. Alive' \subseteq Alive /\ \A g : Orphan(g) => Orphan(g)'
  BY LivingShrink
<1>2. /\ pc'[q] = pc[q] /\ obs'[q] = obs[q] /\ num'[q] = num[q]
      /\ next'[q] = next[q] /\ mine'[q] = mine[q]
  BY DEF Others
<1>3. Observed(q)'
  BY <1>1, <1>2 DEF CalmAt, Observed
<1>4. Fills(q)' /\ GivesBack(q)' /\ Swept(q)'
  BY <1>2 DEF CalmAt, Fills, GivesBack, Swept, Giving, ClaimOf
<1>5. HasClaim(q)' /\ PassedClaims(q)' /\ ClaimIsCurrent(q)'
  BY <1>2 DEF CalmAt, HasClaim, PassedClaims, ClaimIsCurrent, ClaimOf
<1>6. OwnClaims(q)' /\ OwnerHolds(q)'
  BY <1>1, <1>2 DEF CalmAt, OwnClaims, OwnerHolds, Giving
<1> QED  BY <1>3, <1>4, <1>5, <1>6 DEF CalmAt

LEMMA MoveKeeps ==
    ASSUME Calm, NEW p \in Proc, p \in Alive, Moves(p), CalmAt(p)',
           pc'[p] \notin {"cleanup", "restore", "relink"}, next'[p] # "retry",
           pc'[p] \in Claiming =>
              pc[p] \in Claiming /\ obs'[p] = obs[p] /\ num'[p] = num[p]
    PROVE  Calm'
<1> USE DEF Moves
<1>1. Untroubled'
  BY DEF Calm, Untroubled, Others
<1>2. OnlyUsed' /\ OneMaker' /\ FencedBelow'
  BY DEF Calm, OnlyUsed, OneMaker, FencedBelow
<1>3. AgedIsOrphan'
  BY LivingShrink DEF Calm, AgedIsOrphan
<1>4. OneClaimant'
  BY DEF Calm, OneClaimant, Others
<1>5. \A q \in Proc : CalmAt(q)'
  BY MoveBystander DEF Calm
<1> QED  BY <1>1, <1>2, <1>3, <1>4, <1>5 DEF Calm

-----------------------------------------------------------------------------
\* A process outside Claiming has no claim on its own record, and one that is
\* not at the end of a hold does not own what is at the pathname.
LEMMA NoOwnClaims ==
    ASSUME NEW p \in Alive, CalmAt(p), pc[p] \notin Claiming \/ obs[p][2] # p
    PROVE  \A i \in Id, n \in Number : i[2] = p => claim[<<i, n>>] = "absent"
BY DEF CalmAt, OwnClaims

LEMMA NotOwner ==
    ASSUME NEW p \in Alive, CalmAt(p), pc[p] \notin {"confirm", "callback"},
           pc[p] \notin Retiring \/ ~Giving(p)
    PROVE  at = None \/ owner[at] # p
BY DEF CalmAt, OwnerHolds, Alive, Terminal

\* Back to the start of the loop, or out of it.
LEMMA MoveIdle ==
    ASSUME Calm, NEW p \in Proc, p \in Alive, Moves(p), next'[p] # "retry", pc'[p] \in Idle,
           pc'[p] = "dead" \/ at = None \/ owner[at] # p,
           pc[p] \notin Claiming \/ obs[p][2] # p \/ pc'[p] \in Terminal
    PROVE  Calm'
<1> USE DEF Moves
<1>1. pc'[p] \in Terminal \/
        \A i \in Id, n \in Number : i[2] = p => claim'[<<i, n>>] = "absent"
  BY NoOwnClaims DEF Calm
<1>2. CalmAt(p)'
  BY <1>1, IdleCalm
<1> HIDE DEF Moves
<1>3. pc'[p] \notin {"cleanup", "restore", "relink"} /\ pc'[p] \notin Claiming
  BY DEF Idle, Terminal, Claiming
<1> QED  BY <1>2, <1>3, MoveKeeps

LEMMA CrashCalm ==
    ASSUME TypeOK, Calm, NEW p \in Proc, Crash(p)
    PROVE  Calm'
<1>1. p \in Alive /\ pc'[p] = "dead" /\ next'[p] # "retry"
  BY GoOthers DEF Crash, Alive, local, Calm, Untroubled
<1>2. Moves(p)
  BY GoOthers DEF Crash, Moves, Others, local, disk, lease
<1> QED  BY <1>1, <1>2, MoveIdle DEF Idle, Terminal

LEMMA ObserveCalm ==
    ASSUME TypeOK, Calm, NEW p \in Proc, Observe(p)
    PROVE  Calm'
<1>1. p \in Alive /\ pc[p] = "observe" /\ pc[p] \notin Claiming /\ CalmAt(p)
  BY DEF Observe, Alive, Terminal, Claiming, Calm
<1>own. at = None \/ owner[at] # p
  BY <1>1, NotOwner DEF Retiring
<1>2. CASE Again(p) /\ UNCHANGED <<obs, num, next>>
  <2>1. Moves(p)
    BY <1>2, ExitOthers DEF Observe, Moves, Others, disk, lease
  <2>2. pc'[p] \in {"mkdir", "busy"} /\ next'[p] # "retry"
    BY <1>2, ExitEffect DEF Calm, Untroubled
  <2> QED  BY <1>1, <1>own, <2>1, <2>2, MoveIdle DEF Idle, Terminal
<1>3. CASE Go(p, "busy") /\ UNCHANGED <<obs, num, next>>
  <2>1. Moves(p)
    BY <1>3, GoOthers DEF Observe, Moves, Others, disk, lease
  <2>2. pc'[p] = "busy" /\ next'[p] # "retry"
    BY <1>3, GoOthers DEF Calm, Untroubled
  <2> QED  BY <1>1, <1>own, <2>1, <2>2, MoveIdle DEF Idle, Terminal
<1>4. CASE at # None /\ Stale(at) /\ Retire(p, "reclaim")
  <2>1. Moves(p)
    BY <1>4, RetireEffect DEF Observe, Moves, Others, disk, lease
  <2>2. /\ pc'[p] = "claim" /\ obs'[p] = <<at, owner[at]>>
        /\ num'[p] = 0 /\ next'[p] = "reclaim"
    BY <1>4, RetireEffect DEF Current
  <2>3. Alive' \subseteq Alive /\ \A g : Orphan(g) => Orphan(g)'
    BY <1>1, <2>1, LivingShrink DEF Moves
  <2>4. at \in used /\ at \in Gen
    BY <1>4 DEF TypeOK
  <2>5. owner[at] \notin Alive /\ (owner[at] = Missing => at \in aged /\ Orphan(at))
    BY <1>4, LockAssumption DEF Stale, Calm, Untroubled, AgedIsOrphan, Alive
  <2>6. Observed(p)'
    BY <2>1, <2>2, <2>3, <2>4, <2>5 DEF Observed, Moves
  <2>7. PassedClaims(p)'
    BY <2>2 DEF PassedClaims, Number
  <2>8. OwnClaims(p)' /\ OwnerHolds(p)'
    <3>1. \A i \in Id, n \in Number : i[2] = p => claim[<<i, n>>] = "absent"
      BY <1>1, NoOwnClaims
    <3> QED  BY <1>own, <2>1, <3>1 DEF OwnClaims, OwnerHolds, Moves
  <2>9. CalmAt(p)'
    BY <2>2, <2>6, <2>7, <2>8
       DEF CalmAt, Fills, GivesBack, Giving, Swept, HasClaim, ClaimIsCurrent
  <2> QED  BY <1>1, <2>1, <2>2, <2>9, MoveKeeps DEF Claiming
<1> QED  BY <1>2, <1>3, <1>4 DEF Observe

\* Giving the lock back, by the refusal or by the release.
LEMMA GiveCalm ==
    ASSUME TypeOK, Calm, NEW p \in Proc, pc[p] \in {"confirm", "callback"},
           NEW c \in {"refuse", "release"}, Retire(p, c),
           UNCHANGED <<disk, claim, lease, mine>>
    PROVE  Calm'
<1>1. p \in Alive /\ pc[p] \notin Claiming /\ CalmAt(p)
  BY DEF Alive, Terminal, Claiming, Calm
<1>2. mine[p] # None /\ at = mine[p] /\ owner[at] = p
  BY <1>1 DEF CalmAt, Fills
<1>3. Moves(p)
  BY RetireEffect DEF Moves, Others, disk, lease
<1>4. /\ pc'[p] = "claim" /\ obs'[p] = <<at, p>> /\ num'[p] = 0 /\ next'[p] = c
  BY <1>2, RetireEffect DEF Current
<1>5. GivesBack(p)'
  BY <1>2, <1>3, <1>4 DEF GivesBack, Moves
<1>6. PassedClaims(p)' /\ OwnerHolds(p)'
  BY <1>4 DEF PassedClaims, OwnerHolds, Number, Giving, Retiring
<1>7. OwnClaims(p)'
  BY <1>1, <1>3, NoOwnClaims DEF OwnClaims, Moves
<1>8. CalmAt(p)'
  BY <1>4, <1>5, <1>6, <1>7
     DEF CalmAt, Fills, Observed, Swept, HasClaim, ClaimIsCurrent
<1> QED  BY <1>1, <1>3, <1>4, <1>8, MoveKeeps DEF Claiming

LEMMA ConfirmCalm ==
    ASSUME TypeOK, Calm, NEW p \in Proc, Confirm(p) \/ Refuse(p)
    PROVE  Calm'
<1>1. p \in Alive /\ pc[p] = "confirm" /\ pc[p] \notin Claiming /\ CalmAt(p)
  BY DEF Confirm, Refuse, Alive, Terminal, Claiming, Calm
<1>2. mine[p] # None /\ at = mine[p] /\ owner[at] = p
  BY <1>1 DEF CalmAt, Fills
<1>3. CASE Refuse(p)
  BY <1>1, <1>3, GiveCalm DEF Refuse
<1>4. CASE Confirm(p)
  <2>1. Go(p, "callback")
    BY <1>2, <1>4 DEF Confirm, Current
  <2>2. Moves(p)
    BY <1>4, <2>1, GoOthers DEF Confirm, Moves, Others, disk, lease, local
  <2>3. pc'[p] = "callback" /\ next'[p] # "retry"
    BY <1>4, <2>1, GoOthers DEF Confirm, local, Calm, Untroubled
  <2>4. OwnClaims(p)'
    BY <1>1, <2>2, NoOwnClaims DEF OwnClaims, Moves
  <2>5. CalmAt(p)'
    BY <1>2, <2>2, <2>3, <2>4
       DEF CalmAt, Fills, Observed, GivesBack, Swept, HasClaim, PassedClaims,
           ClaimIsCurrent, OwnerHolds, Retiring, Moves
  <2> QED  BY <1>1, <2>2, <2>3, <2>5, MoveKeeps DEF Claiming
<1> QED  BY <1>3, <1>4

LEMMA ReleaseCalm ==
    ASSUME TypeOK, Calm, NEW p \in Proc, Release(p)
    PROVE  Calm'
<1>1. mine[p] # None /\ at = mine[p] /\ owner[at] = p
  BY DEF Release, Calm, CalmAt, Fills
<1> QED  BY <1>1, GiveCalm DEF Release

-----------------------------------------------------------------------------
\* What a reclaimer knows while it retires a directory.
LEMMA Reclaimer ==
    ASSUME TypeOK, Calm, NEW p \in Proc, pc[p] \in Retiring,
           ~Giving(p) \/ pc[p] \in {"inspect", "fence"} \/ (ClaimOf(p) # "open" /\ pc[p] # "claim")
    PROVE  /\ next[p] = "reclaim" /\ p \in Alive
           /\ obs[p][1] \in used /\ obs[p][1] \in Gen /\ owner[obs[p][1]] = obs[p][2]
           /\ obs[p][2] \notin Alive /\ obs[p][2] # p
           /\ obs[p][2] = Missing => obs[p][1] \in aged /\ Orphan(obs[p][1])
           /\ at = None \/ owner[at] # p
<1>1. p \in Alive /\ CalmAt(p) /\ pc[p] \notin {"confirm", "callback"}
  BY DEF Alive, Retiring, Terminal, Calm
<1>2. ~Giving(p)
  BY <1>1 DEF CalmAt, GivesBack
<1>3. next[p] = "reclaim"
  BY <1>2 DEF Giving, Calm, Untroubled, TypeOK, Caller
<1>4. at = None \/ owner[at] # p
  BY <1>1, <1>2, NotOwner
<1>5. Observed(p)
  BY <1>1 DEF CalmAt
<1>6. used \subseteq Gen
  BY DEF TypeOK
<1> QED  BY <1>1, <1>3, <1>4, <1>5, <1>6 DEF Observed

\* It goes on to the next claim number, or gives up.
LEMMA NextNumber ==
    ASSUME TypeOK, Calm, NEW p \in Proc, pc[p] \in {"inspect", "fence"},
           NextClaim(p), Moves(p), UNCHANGED <<obs, next>>,
           ClaimOf(p) \in {"absent", "fenced"}
    PROVE  Calm'
<1>1. pc[p] \in Retiring /\ pc[p] \notin Claiming /\ CalmAt(p)
  BY DEF Retiring, Claiming, Calm
<1>2. /\ next[p] = "reclaim" /\ p \in Alive /\ (at = None \/ owner[at] # p)
      /\ obs[p][2] # p
  BY <1>1, Reclaimer
<1>3. next'[p] = "reclaim" /\ obs'[p] = obs[p]
  BY <1>2
<1>4. CASE pc'[p] = "failed"
  BY <1>1, <1>2, <1>3, <1>4, MoveIdle DEF Idle, Terminal
<1>5. CASE pc'[p] = "claim" /\ num'[p] = num[p] + 1
  <2>1. Observed(p)'
    <3>1. Observed(p) /\ Alive' \subseteq Alive /\ \A g : Orphan(g) => Orphan(g)'
      BY <1>1, <1>2, LivingShrink DEF CalmAt, Moves
    <3> QED  BY <1>1, <1>2, <1>3, <3>1 DEF Observed, Moves
  <2>2. PassedClaims(p)'
    <3>1. num[p] \in Nat
      BY DEF TypeOK
    <3>2. at = obs[p][1] => \A m \in Number : m < num[p] + 1 => claim[<<obs[p], m>>] = "fenced"
      BY <1>1, <3>1, LockAssumption DEF CalmAt, PassedClaims, ClaimOf, Number
    <3> QED  BY <1>3, <1>5, <3>2 DEF PassedClaims, Moves
  <2>3. OwnClaims(p)' /\ OwnerHolds(p)'
    <3>1. \A i \in Id, n \in Number : i[2] = p => claim[<<i, n>>] = "absent"
      BY <1>1, <1>2, NoOwnClaims
    <3> QED  BY <1>2, <3>1 DEF OwnClaims, OwnerHolds, Moves
  <2>4. CalmAt(p)'
    BY <1>3, <1>5, <2>1, <2>2, <2>3
       DEF CalmAt, Fills, GivesBack, Giving, Swept, HasClaim, ClaimIsCurrent
  <2> QED  BY <1>2, <1>3, <1>5, <2>4, MoveKeeps DEF Claiming
<1> QED  BY <1>4, <1>5, ExitEffect DEF Calm

\* It leaves the retirement.
LEMMA LeavesRetirement ==
    ASSUME TypeOK, Calm, NEW p \in Proc, pc[p] \in Retiring, Moves(p), UNCHANGED next,
           next[p] = "reclaim", Return(p, FALSE) \/ Throw(p)
    PROVE  Calm'
<1>1. pc'[p] \in Idle
  BY ExitEffect DEF Calm, Idle, Terminal
<1>2. ~Giving(p)
  BY DEF Giving
<1>3. next'[p] # "retry" /\ p \in Alive /\ (at = None \/ owner[at] # p)
  BY <1>2, Reclaimer
<1>4. obs[p][2] # p
  BY <1>2, Reclaimer
<1> QED  BY <1>1, <1>2, <1>3, <1>4, Reclaimer, MoveIdle

LEMMA InspectCalm ==
    ASSUME TypeOK, Calm, NEW p \in Proc, Inspect(p)
    PROVE  Calm'
<1>1. pc[p] = "inspect" /\ pc[p] \in Retiring /\ CalmAt(p)
  BY DEF Inspect, Retiring, Calm
<1>2. /\ next[p] = "reclaim" /\ p \in Alive /\ (at = None \/ owner[at] # p)
      /\ obs[p][2] # p
  BY <1>1, Reclaimer
<1>3. \A q \in Proc \ {p} : pc'[q] = pc[q] /\ num'[q] = num[q]
  <2>1. CASE NextClaim(p)
    BY <2>1, ExitOthers, ExitEffect DEF Calm
  <2>2. CASE Return(p, FALSE) /\ UNCHANGED num
    BY <2>2, ExitOthers
  <2>3. CASE Go(p, "fence") /\ UNCHANGED num
    BY <2>3, GoOthers
  <2> QED  BY <2>1, <2>2, <2>3 DEF Inspect
<1>4. Moves(p) /\ UNCHANGED <<obs, next>>
  BY <1>3 DEF Inspect, Moves, Others, disk, lease
<1>5. CASE claim[MyClaim(p)] \in {"absent", "fenced"} /\ NextClaim(p)
  BY <1>1, <1>4, <1>5, NextNumber DEF MyClaim, ClaimOf
<1>6. CASE Return(p, FALSE)
  BY <1>1, <1>2, <1>4, <1>6, LeavesRetirement
<1>7. CASE claim[MyClaim(p)] = "open" /\ Go(p, "fence") /\ UNCHANGED num
  <2>1. pc'[p] = "fence" /\ obs'[p] = obs[p] /\ num'[p] = num[p] /\ next'[p] = "reclaim"
    BY <1>2, <1>4, <1>7, GoOthers
  <2>2. ClaimOf(p)' = "open"
    BY <1>4, <1>7 DEF ClaimOf, MyClaim, Moves
  <2>3. Observed(p)'
    <3>1. Observed(p) /\ Alive' \subseteq Alive /\ \A g : Orphan(g) => Orphan(g)'
      BY <1>1, <1>2, <1>4, LivingShrink DEF CalmAt, Moves
    <3> QED  BY <1>1, <1>2, <1>4, <2>1, <3>1 DEF Observed, Moves
  <2>4. PassedClaims(p)'
    BY <1>1, <1>4, <2>1, <2>2 DEF CalmAt, PassedClaims, Moves
  <2>5. OwnClaims(p)' /\ OwnerHolds(p)'
    <3>1. \A i \in Id, n \in Number : i[2] = p => claim[<<i, n>>] = "absent"
      BY <1>1, <1>2, NoOwnClaims
    <3> QED  BY <1>2, <1>4, <3>1 DEF OwnClaims, OwnerHolds, Moves
  <2>6. CalmAt(p)'
    BY <2>1, <2>3, <2>4, <2>5
       DEF CalmAt, Fills, GivesBack, Giving, Swept, HasClaim, ClaimIsCurrent
  <2> QED  BY <1>2, <1>4, <2>1, <2>6, MoveKeeps DEF Claiming
<1> QED  BY <1>5, <1>6, <1>7 DEF Inspect

-----------------------------------------------------------------------------
\* A process that retires a directory, or has, named one that exists.
LEMMA RetiresUsed ==
    ASSUME TypeOK, Calm, NEW p \in Proc, pc[p] \in Retiring \cup Claiming
    PROVE  p \in Alive /\ obs[p] \in Id /\ obs[p][1] \in used /\ obs[p][1] \in Gen
<1>1. next[p] = "reclaim" \/ Giving(p)
  BY DEF Giving, Calm, Untroubled, TypeOK, Caller
<1>2. Observed(p) /\ GivesBack(p) /\ Swept(p)
  BY DEF Calm, CalmAt
<1>3. mine[p] \in used \cup {None}
  BY DEF Calm, OnlyUsed
<1>4. obs[p][1] \in used
  BY <1>1, <1>2, <1>3 DEF Observed, GivesBack, Swept, Claiming, Retiring
<1>5. obs[p][1] \in Gen
  BY <1>4 DEF TypeOK
<1> QED  BY <1>4, <1>5 DEF TypeOK, Id, Alive, Retiring, Claiming, Terminal

\* Steps of p that leave the disk alone and set the state of p's claim.
Sets(p, s) ==
    /\ UNCHANGED <<at, used, owner, pending, aged, mine, lapsed, hbFailed>>
    /\ Others(p) /\ SetClaim(p, s)

\* p makes its claim, fences one that is not of a live owner, or takes back
\* its own when the directory it named is no longer there.
MaySet(p, s) ==
    /\ pc[p] \in Retiring \cup Claiming
    /\ obs[p][2] \in Alive => obs[p][2] = p
    /\ \/ s = "open" /\ pc[p] = "claim" /\ ClaimOf(p) = "absent"
       \/ s = "fenced" /\ pc[p] = "fence" /\ ClaimOf(p) = "open" /\ obs[p][2] # p
       \/ s = "absent" /\ pc[p] \in Claiming /\ at # obs[p][1]

LEMMA ClaimBystander ==
    ASSUME TypeOK, Calm, NEW p \in Proc, NEW s, Sets(p, s), MaySet(p, s), NEW q \in Proc \ {p}
    PROVE  CalmAt(q)'
<1>p. p \in Alive /\ obs[p] \in Id /\ obs[p][1] \in used /\ obs[p][1] \in Gen /\ num[p] \in Number
  BY RetiresUsed DEF MaySet, TypeOK, Number
<1>set. /\ claim'[<<obs[p], num[p]>>] = s
        /\ \A i \in Id, n \in Number :
             i # obs[p] \/ n # num[p] => claim'[<<i, n>>] = claim[<<i, n>>]
  BY <1>p, SetClaimEffect DEF Sets
<1>q. /\ pc'[q] = pc[q] /\ obs'[q] = obs[q] /\ num'[q] = num[q]
      /\ next'[q] = next[q] /\ mine'[q] = mine[q]
      /\ UNCHANGED <<at, used, owner, pending, aged>>
  BY DEF Sets, Others
<1>calm. CalmAt(q) /\ num[q] \in Number
  BY DEF Calm, TypeOK, Number
<1>shrink. Alive' \subseteq Alive /\ \A g : Orphan(g) => Orphan(g)'
  BY <1>p, LivingShrink DEF Sets
<1>used. pc[q] \in Retiring \cup Claiming => obs[q] \in Id
  BY RetiresUsed
<1>apart. pc[q] \in Claiming => ClaimOf(q)' = ClaimOf(q) \/
            (obs[q] = obs[p] /\ num[q] = num[p] /\ s = "fenced" /\ ClaimOf(q) = "open"
               /\ ClaimOf(q)' = "fenced")
  <2> SUFFICES ASSUME pc[q] \in Claiming, obs[q] = obs[p], num[q] = num[p]
               PROVE  s = "fenced" /\ ClaimOf(q) = "open" /\ ClaimOf(q)' = "fenced"
    BY <1>set, <1>q, <1>calm, <1>used DEF ClaimOf
  <2>1. pc[p] \notin Claiming
    BY DEF Calm, OneClaimant
  <2>2. ClaimOf(q) = ClaimOf(p) /\ ClaimOf(q)' = s
    BY <1>set, <1>q DEF ClaimOf
  <2>3. ClaimOf(q) # "absent"
    BY <1>calm DEF CalmAt, HasClaim, Claiming
  <2> QED  BY <2>1, <2>2, <2>3 DEF MaySet
<1>1. Fills(q)' /\ Swept(q)'
  BY <1>q, <1>calm DEF CalmAt, Fills, Swept
<1>2. Observed(q)'
  BY <1>q, <1>calm, <1>shrink DEF CalmAt, Observed
<1>3. GivesBack(q)'
  <2> SUFFICES ASSUME pc[q] \in Retiring, Giving(q), pc[q] # "claim" PROVE ClaimOf(q)' = "open"
    BY <1>q, <1>calm DEF CalmAt, GivesBack, Giving
  <2>1. ClaimOf(q) = "open" /\ obs[q][2] = q /\ pc[q] \in Claiming /\ q \in Alive
    BY <1>calm DEF CalmAt, GivesBack, Claiming, Alive, Retiring, Terminal
  <2>2. obs[q] # obs[p]
    BY <2>1 DEF MaySet
  <2> QED  BY <1>apart, <2>1, <2>2
<1>4. HasClaim(q)' /\ ClaimIsCurrent(q)'
  BY <1>q, <1>calm, <1>apart DEF CalmAt, HasClaim, ClaimIsCurrent, Claiming
<1>5. PassedClaims(q)'
  <2> SUFFICES ASSUME pc[q] \in Retiring, at = obs[q][1]
               PROVE  /\ pc[q] \in {"inspect", "fence"} => ClaimOf(q)' # "absent"
                      /\ \A m \in Number : m < num[q] => claim'[<<obs[q], m>>] = "fenced"
    BY <1>q DEF PassedClaims
  <2>1. /\ pc[q] \in {"inspect", "fence"} => ClaimOf(q) # "absent"
        /\ \A m \in Number : m < num[q] => claim[<<obs[q], m>>] = "fenced"
    BY <1>calm DEF CalmAt, PassedClaims
  <2>2. s # "absent" \/ obs[q] # obs[p]
    BY DEF MaySet
  <2>3. \A m \in Number : /\ claim[<<obs[q], m>>] # "absent" => claim'[<<obs[q], m>>] # "absent"
                          /\ claim[<<obs[q], m>>] = "fenced" => claim'[<<obs[q], m>>] = "fenced"
    BY <1>used, <1>set, <2>2 DEF MaySet, ClaimOf
  <2> QED  BY <1>q, <1>calm, <2>1, <2>3 DEF ClaimOf
<1>6. OwnerHolds(q)'
  BY <1>q, <1>calm DEF CalmAt, OwnerHolds, Giving
<1>7. OwnClaims(q)'
  <2> SUFFICES ASSUME q \in Alive, NEW i \in Id, NEW n \in Number, i[2] = q,
                      claim'[<<i, n>>] # "absent"
               PROVE  pc[q] \in Claiming /\ obs[q] = i /\ num[q] = n
    BY <1>q, <1>shrink DEF OwnClaims
  <2>1. obs[p] # i
    BY DEF MaySet
  <2>2. claim[<<i, n>>] # "absent"
    BY <1>set, <2>1
  <2> QED  BY <1>calm, <2>2 DEF CalmAt, OwnClaims
<1> QED  BY <1>1, <1>2, <1>3, <1>4, <1>5, <1>6, <1>7 DEF CalmAt

LEMMA SetKeeps ==
    ASSUME TypeOK, Calm, NEW p \in Proc, NEW s, Sets(p, s), MaySet(p, s), CalmAt(p)',
           pc'[p] \notin {"cleanup", "restore", "relink"}, next'[p] # "retry",
           pc'[p] \in Claiming => s = "open" /\ obs'[p] = obs[p] /\ num'[p] = num[p]
    PROVE  Calm'
<1>p. p \in Alive /\ obs[p] \in Id /\ obs[p][1] \in used /\ obs[p][1] \in Gen /\ num[p] \in Number
  BY RetiresUsed DEF MaySet, TypeOK, Number
<1>set. /\ claim'[<<obs[p], num[p]>>] = s
        /\ \A i \in Id, n \in Number :
             i # obs[p] \/ n # num[p] => claim'[<<i, n>>] = claim[<<i, n>>]
  BY <1>p, SetClaimEffect DEF Sets
<1>1. Untroubled'
  BY DEF Calm, Untroubled, Others, Sets
<1>2. OnlyUsed'
  <2>1. \A i \in Id, n \in Number : claim'[<<i, n>>] # "absent" => i[1] \in used
    BY <1>p, <1>set DEF Calm, OnlyUsed
  <2> QED  BY <2>1 DEF Calm, OnlyUsed, Sets
<1>3. OneMaker'
  BY DEF Calm, OneMaker, Sets
<1>4. AgedIsOrphan'
  BY <1>p, LivingShrink DEF Calm, AgedIsOrphan, Sets
<1>5. FencedBelow'
  <2> SUFFICES ASSUME NEW i \in Id, NEW m \in Number, NEW n \in Number,
                      at = i[1], m < n, claim'[<<i, n>>] # "absent"
               PROVE  claim'[<<i, m>>] = "fenced"
    BY DEF FencedBelow, Sets
  <2>0. claim[<<i, n>>] # "absent" => claim[<<i, m>>] = "fenced"
    BY DEF Calm, FencedBelow
  <2>1. CASE i # obs[p]
    BY <1>set, <2>0, <2>1
  <2>2. CASE i = obs[p] /\ s = "open"
    <3>1. pc[p] = "claim" /\ claim[<<obs[p], num[p]>>] = "absent"
      BY <2>2 DEF MaySet, ClaimOf
    <3>2. \A k \in Number : k < num[p] => claim[<<obs[p], k>>] = "fenced"
      BY <2>2, <3>1 DEF Calm, CalmAt, PassedClaims, Retiring
    <3>3. n = num[p] => claim[<<i, m>>] = "fenced"
      BY <2>2, <3>2
    <3>4. claim[<<i, m>>] = "fenced"
      BY <1>set, <2>0, <2>2, <3>3
    <3>5. m # num[p]
      BY <2>2, <3>1, <3>4
    <3> QED  BY <1>set, <3>4, <3>5
  <2>3. CASE i = obs[p] /\ s = "fenced"
    <3>1. claim[<<obs[p], num[p]>>] = "open"
      BY <2>3 DEF MaySet, ClaimOf
    <3>2. claim[<<i, n>>] # "absent"
      BY <1>set, <2>3, <3>1
    <3> QED  BY <1>set, <2>0, <2>3, <3>2
  <2>4. i = obs[p] => s \in {"open", "fenced"}
    BY DEF MaySet
  <2> QED  BY <2>1, <2>2, <2>3, <2>4
<1>6. OneClaimant'
  <2> SUFFICES ASSUME NEW q \in Proc, q # p, pc'[p] \in Claiming, pc'[q] \in Claiming,
                      obs'[p] = obs'[q], num'[p] = num'[q]
               PROVE  FALSE
    BY DEF Calm, OneClaimant, Others, Sets
  <2>1. ClaimOf(q) = ClaimOf(p) /\ pc[q] \in Claiming
    BY DEF Others, Sets, ClaimOf
  <2>2. ClaimOf(q) # "absent"
    BY <2>1 DEF Calm, CalmAt, HasClaim, Claiming
  <2> QED  BY <2>1, <2>2 DEF MaySet
<1>7. \A q \in Proc : CalmAt(q)'
  BY ClaimBystander
<1> QED  BY <1>1, <1>2, <1>3, <1>4, <1>5, <1>6, <1>7 DEF Calm

\* What a process that retires a directory may find in its hands: its own lock,
\* or a directory whose owner is dead.
LEMMA RetiresOwnOrDead ==
    ASSUME TypeOK, Calm, NEW p \in Proc, pc[p] \in Retiring
    PROVE  /\ obs[p][2] \in Alive => obs[p][2] = p
           /\ owner[obs[p][1]] = obs[p][2]
           /\ next[p] = "reclaim" \/ Giving(p)
           /\ ~Giving(p) => at = None \/ owner[at] # p
<1>1. CASE Giving(p)
  BY <1>1 DEF Calm, CalmAt, GivesBack
<1>2. CASE ~Giving(p)
  BY <1>2, Reclaimer
<1> QED  BY <1>1, <1>2

LEMMA ClaimCalm ==
    ASSUME TypeOK, Calm, NEW p \in Proc, Claim(p)
    PROVE  Calm'
<1>1. pc[p] = "claim" /\ pc[p] \in Retiring /\ pc[p] \notin Claiming /\ CalmAt(p)
  BY DEF Claim, Retiring, Claiming, Calm
<1>2. p \in Alive /\ obs[p] \in Id /\ obs[p][1] \in used /\ obs[p][1] \in Gen /\ num[p] \in Number
  BY <1>1, RetiresUsed DEF TypeOK, Number
<1>3. \A i \in Id, n \in Number : i[2] = p => claim[<<i, n>>] = "absent"
  BY <1>1, <1>2, NoOwnClaims
<1>same. /\ obs'[p] = obs[p] /\ num'[p] = num[p] /\ next'[p] = next[p] /\ mine'[p] = mine[p]
         /\ UNCHANGED <<at, used, owner, pending, aged, lapsed, hbFailed>>
  BY DEF Claim, local, disk, lease
<1>shrink. Others(p) /\ Alive' \subseteq Alive /\ \A g : Orphan(g) => Orphan(g)'
  <2>1. Others(p)
    BY GoOthers DEF Claim, Others, local
  <2> QED  BY <1>2, <1>same, <2>1, LivingShrink
<1>obs. pc'[p] \in {"revalidate", "inspect"} => Observed(p)' /\ OwnerHolds(p)'
  BY <1>1, <1>same, <1>shrink, RetiresOwnOrDead
     DEF CalmAt, Observed, OwnerHolds, Giving, Retiring
<1>next. next'[p] # "retry"
  BY <1>same DEF Calm, Untroubled
<1>4. CASE claim[MyClaim(p)] = "absent" /\ SetClaim(p, "open") /\ Go(p, "revalidate")
  <2>1. pc'[p] = "revalidate"
    BY <1>4, GoOthers
  <2>set. /\ claim'[<<obs[p], num[p]>>] = "open"
          /\ \A i \in Id, n \in Number :
               i # obs[p] \/ n # num[p] => claim'[<<i, n>>] = claim[<<i, n>>]
    BY <1>2, <1>4, SetClaimEffect
  <2>2. Sets(p, "open")
    BY <1>4, <1>shrink DEF Sets, Claim, local, disk, lease
  <2>3. MaySet(p, "open")
    BY <1>1, <1>4, RetiresOwnOrDead DEF MaySet, ClaimOf, MyClaim
  <2>4. GivesBack(p)'
    BY <1>1, <1>same, <2>1, <2>set DEF CalmAt, GivesBack, Giving, ClaimOf, Retiring
  <2>5. PassedClaims(p)'
    <3>1. at = obs[p][1] => \A m \in Number : m < num[p] => claim[<<obs[p], m>>] = "fenced"
      BY <1>1 DEF CalmAt, PassedClaims
    <3>2. \A m \in Number : m < num[p] => claim'[<<obs[p], m>>] = claim[<<obs[p], m>>]
      BY <1>2, <2>set, LockAssumption DEF Number
    <3> QED  BY <1>same, <2>1, <3>1, <3>2 DEF PassedClaims
  <2>6. OwnClaims(p)'
    BY <1>2, <1>3, <1>same, <2>1, <2>set DEF OwnClaims, Claiming
  <2>7. HasClaim(p)'
    BY <1>same, <2>1, <2>set DEF HasClaim, ClaimOf
  <2>9. CalmAt(p)'
    BY <1>obs, <2>1, <2>4, <2>5, <2>6, <2>7
       DEF CalmAt, Fills, Swept, ClaimIsCurrent
  <2> QED  BY <1>same, <1>next, <2>1, <2>2, <2>3, <2>9, SetKeeps
<1>5. CASE claim[MyClaim(p)] # "absent" /\ UNCHANGED claim /\ Go(p, "inspect")
  <2>1. pc'[p] = "inspect"
    BY <1>5, GoOthers
  <2>2. Moves(p)
    BY <1>5, <1>shrink DEF Moves, Claim, local, disk, lease
  <2>3. ~Giving(p)
    <3>1. claim[<<obs[p], num[p]>>] # "absent"
      BY <1>5 DEF MyClaim
    <3> QED  BY <1>1, <1>2, <1>3, <3>1 DEF CalmAt, GivesBack
  <2>4. GivesBack(p)'
    BY <1>same, <2>3 DEF GivesBack, Giving
  <2>5. PassedClaims(p)'
    BY <1>1, <1>same, <1>5, <2>1 DEF CalmAt, PassedClaims, ClaimOf, MyClaim
  <2>6. OwnClaims(p)'
    BY <1>3, <1>5 DEF OwnClaims
  <2>7. CalmAt(p)'
    BY <1>obs, <2>1, <2>4, <2>5, <2>6
       DEF CalmAt, Fills, Swept, HasClaim, ClaimIsCurrent
  <2> QED  BY <1>2, <1>next, <2>1, <2>2, <2>7, MoveKeeps DEF Claiming
<1> QED  BY <1>4, <1>5 DEF Claim

LEMMA FenceCalm ==
    ASSUME TypeOK, Calm, NEW p \in Proc, Fence(p)
    PROVE  Calm'
<1>1. pc[p] = "fence" /\ pc[p] \in Retiring /\ pc[p] \notin Claiming /\ CalmAt(p)
  BY DEF Fence, Retiring, Claiming, Calm
<1>2. p \in Alive /\ obs[p] \in Id /\ obs[p][1] \in used /\ obs[p][1] \in Gen /\ num[p] \in Number
  BY <1>1, RetiresUsed DEF TypeOK, Number
<1>3. /\ next[p] = "reclaim" /\ (at = None \/ owner[at] # p)
      /\ obs[p][2] # p /\ obs[p][2] \notin Alive
  BY <1>1, Reclaimer
<1>same. UNCHANGED <<at, used, owner, pending, aged, lapsed, hbFailed, obs, mine, next>>
  BY DEF Fence, disk, lease
<1>others. \A q \in Proc \ {p} : pc'[q] = pc[q] /\ num'[q] = num[q]
  BY ExitOthers, ExitEffect DEF Fence, Calm
<1>shrink. Others(p) /\ Alive' \subseteq Alive /\ \A g : Orphan(g) => Orphan(g)'
  <2>1. Others(p)
    BY <1>same, <1>others DEF Others
  <2> QED  BY <1>2, <1>same, <2>1, LivingShrink
<1>moves. UNCHANGED claim => Moves(p)
  BY <1>same, <1>shrink DEF Moves
<1>own. \A i \in Id, n \in Number : i[2] = p => claim[<<i, n>>] = "absent"
  BY <1>1, <1>2, NoOwnClaims
<1>4. CASE claim[MyClaim(p)] = "fenced" /\ NextClaim(p) /\ UNCHANGED claim
  BY <1>1, <1>4, <1>same, <1>moves, NextNumber DEF MyClaim, ClaimOf
<1>5. CASE (Return(p, FALSE) \/ Throw(p)) /\ UNCHANGED claim
  BY <1>1, <1>3, <1>5, <1>same, <1>moves, LeavesRetirement
<1>6. CASE claim[MyClaim(p)] = "open" /\ SetClaim(p, "fenced") /\ NextClaim(p)
  <2>set. /\ claim'[<<obs[p], num[p]>>] = "fenced"
          /\ \A i \in Id, n \in Number :
               i # obs[p] \/ n # num[p] => claim'[<<i, n>>] = claim[<<i, n>>]
    BY <1>2, <1>6, SetClaimEffect
  <2>1. Sets(p, "fenced")
    BY <1>6, <1>same, <1>shrink DEF Sets
  <2>2. MaySet(p, "fenced")
    BY <1>1, <1>3, <1>6 DEF MaySet, ClaimOf, MyClaim
  <2>own. \A i \in Id, n \in Number : i[2] = p => claim'[<<i, n>>] = "absent"
    BY <1>3, <1>own, <2>set
  <2>3. CASE pc'[p] = "failed"
    <3>1. CalmAt(p)'
      BY <1>3, <1>same, <2>3, IdleCalm DEF Idle, Terminal
    <3> QED  BY <1>3, <1>same, <2>1, <2>2, <2>3, <3>1, SetKeeps DEF Claiming
  <2>4. CASE pc'[p] = "claim" /\ num'[p] = num[p] + 1
    <3>1. Observed(p)'
      BY <1>1, <1>3, <1>same, <1>shrink, <2>4 DEF CalmAt, Observed
    <3>2. PassedClaims(p)'
      <4>1. num[p] \in Nat
        BY <1>2, LockAssumption DEF Number
      <4>2. at = obs[p][1] => \A m \in Number : m < num[p] => claim[<<obs[p], m>>] = "fenced"
        BY <1>1 DEF CalmAt, PassedClaims
      <4>3. at = obs[p][1] =>
              \A m \in Number : m < num[p] + 1 => claim'[<<obs[p], m>>] = "fenced"
        BY <1>2, <2>set, <4>1, <4>2, LockAssumption DEF Number
      <4> QED  BY <1>same, <2>4, <4>3 DEF PassedClaims
    <3>3. OwnClaims(p)' /\ OwnerHolds(p)'
      BY <1>3, <1>same, <2>own DEF OwnClaims, OwnerHolds
    <3>4. CalmAt(p)'
      BY <1>3, <1>same, <2>4, <3>1, <3>2, <3>3
         DEF CalmAt, Fills, GivesBack, Giving, Swept, HasClaim, ClaimIsCurrent
    <3> QED  BY <1>3, <1>same, <2>1, <2>2, <2>4, <3>4, SetKeeps DEF Claiming
  <2> QED  BY <1>6, <2>3, <2>4, ExitEffect DEF Calm
<1> QED  BY <1>4, <1>5, <1>6 DEF Fence

\* Taking back a claim whose directory is no longer there, or has been swept.
LEMMA DropsCalm ==
    ASSUME TypeOK, Calm, NEW p \in Proc, pc[p] \in Claiming, Sets(p, "absent"),
           UNCHANGED next, at # obs[p][1], at = None \/ owner[at] # p,
           obs[p][2] \in Alive => obs[p][2] = p,
           pc'[p] \in Idle
    PROVE  Calm'
<1>1. p \in Alive /\ obs[p] \in Id /\ obs[p][1] \in Gen /\ num[p] \in Number /\ CalmAt(p)
  BY RetiresUsed DEF TypeOK, Number, Calm
<1>set. /\ claim'[<<obs[p], num[p]>>] = "absent"
        /\ \A i \in Id, n \in Number :
             i # obs[p] \/ n # num[p] => claim'[<<i, n>>] = claim[<<i, n>>]
  BY <1>1, SetClaimEffect DEF Sets
<1>2. \A i \in Id, n \in Number : i[2] = p => claim'[<<i, n>>] = "absent"
  BY <1>1, <1>set DEF CalmAt, OwnClaims
<1>3. CalmAt(p)'
  BY <1>2, IdleCalm DEF Sets
<1>4. MaySet(p, "absent")
  BY DEF MaySet
<1>5. /\ pc'[p] \notin {"cleanup", "restore", "relink"} /\ pc'[p] \notin Claiming
      /\ next'[p] # "retry"
  BY DEF Idle, Terminal, Claiming, Calm, Untroubled
<1> QED  BY <1>3, <1>4, <1>5, SetKeeps

\* Every return of a reclaimer whose claim was open takes it back.
LEMMA RevalidateCalm ==
    ASSUME TypeOK, Calm, NEW p \in Proc, Revalidate(p)
    PROVE  Calm'
<1>1. pc[p] = "revalidate" /\ pc[p] \in Retiring /\ pc[p] \in Claiming /\ CalmAt(p)
  BY DEF Revalidate, Retiring, Claiming, Calm
<1>2. p \in Alive /\ obs[p] \in Id /\ obs[p][1] \in used /\ obs[p][1] \in Gen
  BY <1>1, RetiresUsed
<1>3. Current = obs[p] <=> at = obs[p][1]
  BY <1>1, <1>2, RetiresOwnOrDead, CurrentObserved
<1>same. UNCHANGED <<at, used, owner, pending, aged, lapsed, hbFailed, obs, num, mine, next>>
  BY DEF Revalidate, disk, lease
<1>others. \A q \in Proc \ {p} : pc'[q] = pc[q]
  BY ExitOthers, GoOthers DEF Revalidate
<1>shrink. Others(p)
  BY <1>same, <1>others DEF Others
<1>4. CASE Current = obs[p] /\ Go(p, "rename") /\ UNCHANGED claim
  <2>1. pc'[p] = "rename"
    BY <1>4, GoOthers
  <2>2. Moves(p) /\ Alive' \subseteq Alive /\ \A g : Orphan(g) => Orphan(g)'
    BY <1>2, <1>4, <1>same, <1>shrink, LivingShrink DEF Moves
  <2>3. Observed(p)'
    BY <1>1, <1>same, <2>1, <2>2 DEF CalmAt, Observed
  <2>4. GivesBack(p)'
    BY <1>1, <1>4, <1>same, <2>1 DEF CalmAt, GivesBack, Giving, ClaimOf
  <2>5. HasClaim(p)' /\ ClaimIsCurrent(p)'
    BY <1>1, <1>3, <1>4, <1>same, <2>1 DEF CalmAt, HasClaim, ClaimIsCurrent, ClaimOf
  <2>6. PassedClaims(p)'
    BY <1>1, <1>4, <1>same, <2>1 DEF CalmAt, PassedClaims
  <2>7. OwnClaims(p)'
    BY <1>1, <1>2, <1>4, <1>same, <2>1 DEF CalmAt, OwnClaims, Claiming
  <2>8. OwnerHolds(p)'
    BY <1>1, <1>same, <2>1 DEF CalmAt, OwnerHolds, Giving, Retiring
  <2>9. CalmAt(p)'
    BY <2>1, <2>3, <2>4, <2>5, <2>6, <2>7, <2>8 DEF CalmAt, Fills, Swept
  <2>10. next'[p] # "retry"
    BY <1>same DEF Calm, Untroubled
  <2> QED  BY <1>1, <1>2, <1>same, <2>1, <2>2, <2>9, <2>10, MoveKeeps
<1>5. CASE /\ Current = obs[p] => next[p] = "reclaim" /\ ~Stale(at)
           /\ DropClaim(p) /\ Return(p, FALSE)
  <2>1. Current # obs[p]
    <3> SUFFICES ASSUME at = obs[p][1], next[p] = "reclaim", ~Stale(at) PROVE FALSE
      BY <1>3, <1>5
    <3>1. owner[at] = obs[p][2] /\ obs[p][2] \notin Alive /\ (obs[p][2] = Missing => at \in aged)
      BY <1>1, Reclaimer DEF Giving
    <3> QED  BY <3>1 DEF Stale
  <2>2. ~Giving(p)
    BY <1>1, <1>3, <2>1 DEF CalmAt, GivesBack
  <2>3. /\ next[p] = "reclaim" /\ (at = None \/ owner[at] # p)
        /\ obs[p][2] # p /\ obs[p][2] \notin Alive
    BY <1>1, <2>2, Reclaimer
  <2>4. pc'[p] \in Idle
    BY <1>5, ExitEffect DEF Calm, Idle, Terminal
  <2>5. CASE UNCHANGED claim
    <3>1. Moves(p)
      BY <1>same, <1>shrink, <2>5 DEF Moves
    <3> QED  BY <1>1, <1>5, <1>same, <2>3, <3>1, LeavesRetirement
  <2>6. CASE SetClaim(p, "absent")
    <3>1. Sets(p, "absent")
      BY <1>same, <1>shrink, <2>6 DEF Sets
    <3> QED  BY <1>1, <1>3, <1>same, <2>1, <2>3, <2>4, <3>1, DropsCalm
  <2> QED  BY <1>5, <2>5, <2>6 DEF DropClaim
<1> QED  BY <1>4, <1>5 DEF Revalidate

LEMMA SweepCalm ==
    ASSUME TypeOK, Calm, NEW p \in Proc, Sweep(p)
    PROVE  Calm'
<1>1. /\ pc[p] = "sweep" /\ pc[p] \in Claiming /\ pc[p] \notin Retiring
      /\ pc[p] \notin {"confirm", "callback"} /\ CalmAt(p)
  BY DEF Sweep, Retiring, Claiming, Calm
<1>2. p \in Alive
  BY <1>1, RetiresUsed
<1>3. at # obs[p][1] /\ (at = None \/ owner[at] # p)
  BY <1>1, <1>2, NotOwner DEF CalmAt, Swept
<1>4. obs[p][2] \in Alive => obs[p][2] = p
  <2> SUFFICES ASSUME obs[p][2] \in Alive PROVE obs[p][2] = p
    OBVIOUS
  <2>1. obs[p] \in Id /\ num[p] \in Number /\ obs[p][2] \in Proc
    BY <1>1, RetiresUsed DEF TypeOK, Number, Alive
  <2>2. claim[<<obs[p], num[p]>>] # "absent"
    BY <1>1 DEF CalmAt, HasClaim, ClaimOf
  <2>3. pc[obs[p][2]] \in Claiming /\ obs[obs[p][2]] = obs[p] /\ num[obs[p][2]] = num[p]
    BY <2>1, <2>2 DEF Calm, CalmAt, OwnClaims
  <2> QED  BY <1>1, <2>1, <2>3 DEF Calm, OneClaimant
<1>5. Sets(p, "absent") /\ UNCHANGED next
  BY ExitOthers DEF Sweep, Sets, Others, disk, lease
<1>6. pc'[p] \in Idle
  BY ExitEffect DEF Sweep, Calm, Idle, Terminal
<1> QED  BY <1>1, <1>3, <1>4, <1>5, <1>6, DropsCalm

-----------------------------------------------------------------------------
\* The rename that takes the directory p observed: nobody else filled it, holds
\* it, or is about to take it.
Takes(p) ==
    /\ pc[p] = "rename" /\ at = obs[p][1] /\ ClaimOf(p) = "open"
    /\ at' = None /\ SetClaim(p, "retired") /\ Go(p, "sweep")
    /\ UNCHANGED <<used, owner, pending, aged, lapsed, hbFailed, obs, num, mine, next>>

LEMMA TakeBystander ==
    ASSUME TypeOK, Calm, NEW p \in Proc, Takes(p), NEW q \in Proc \ {p}
    PROVE  CalmAt(q)'
<1>1. pc[p] = "rename" /\ pc[p] \in Retiring /\ pc[p] \in Claiming /\ CalmAt(p)
  BY DEF Takes, Retiring, Claiming, Calm
<1>2. /\ p \in Alive /\ obs[p] \in Id /\ obs[p][1] \in used /\ obs[p][1] \in Gen
      /\ num[p] \in Number /\ at # None
  BY <1>1, RetiresUsed, LockAssumption DEF TypeOK, Number, Takes
<1>set. /\ claim'[<<obs[p], num[p]>>] = "retired"
        /\ \A i \in Id, n \in Number :
             i # obs[p] \/ n # num[p] => claim'[<<i, n>>] = claim[<<i, n>>]
  BY <1>2, SetClaimEffect DEF Takes
<1>q. pc'[q] = pc[q] /\ CalmAt(q) /\ num[q] \in Number /\ at' = None
  BY GoOthers DEF Takes, Calm, TypeOK, Number
<1>same. UNCHANGED <<used, owner, pending, aged, obs, num, mine, next>>
  BY DEF Takes
<1>shrink. Alive' \subseteq Alive /\ \A g : Orphan(g) => Orphan(g)'
  <2>1. Others(p)
    BY GoOthers DEF Takes, Others
  <2> QED  BY <1>2, <1>same, <2>1, LivingShrink
<1>3. obs[p][2] \in Alive => obs[p][2] = p
  BY <1>1, RetiresOwnOrDead
<1>4. owner[at] = obs[p][2]
  BY <1>1, RetiresOwnOrDead DEF Takes
<1>own. q \in Alive => owner[at] # q
  BY <1>3, <1>4
<1>mine. mine[q] = at => q \notin Alive \/ owner[at] # Missing
  <2> SUFFICES ASSUME mine[q] = at, q \in Alive, owner[at] = Missing PROVE FALSE
    OBVIOUS
  <2>1. obs[p][2] = Missing /\ obs[p][2] # p
    BY <1>4, LockAssumption
  <2>2. ~Giving(p)
    BY <1>1, <2>1 DEF CalmAt, GivesBack
  <2>3. Orphan(obs[p][1])
    BY <1>1, <2>1, <2>2, Reclaimer
  <2> QED  BY <2>3 DEF Orphan, Alive, Takes
<1>alive. pc[q] \notin Terminal => q \in Alive
  BY DEF Alive
<1>apart. pc[q] \in Claiming => ClaimOf(q)' = ClaimOf(q)
  <2> SUFFICES ASSUME pc[q] \in Claiming PROVE ClaimOf(q)' = ClaimOf(q)
    OBVIOUS
  <2>1. obs[q] \in Id
    BY RetiresUsed
  <2>2. obs[q] # obs[p] \/ num[q] # num[p]
    BY <1>1 DEF Calm, OneClaimant
  <2> QED  BY <1>set, <1>q, <1>same, <2>1, <2>2 DEF ClaimOf
<1>5. Fills(q)'
  <2>1. pc[q] \notin {"prepare", "publish", "confirm", "callback"}
    BY <1>q, <1>own, <1>mine, <1>alive DEF CalmAt, Fills, Terminal
  <2> QED  BY <1>q, <2>1 DEF Fills
<1>6. Observed(q)'
  BY <1>q, <1>same, <1>shrink DEF CalmAt, Observed
<1>7. GivesBack(q)'
  <2>1. ~(pc[q] \in Retiring /\ Giving(q))
    BY <1>q, <1>own, <1>alive DEF CalmAt, GivesBack, Retiring, Terminal
  <2> QED  BY <1>q, <1>same, <2>1 DEF GivesBack, Giving
<1>8. Swept(q)' /\ HasClaim(q)'
  BY <1>2, <1>q, <1>same, <1>apart, LockAssumption
     DEF CalmAt, Swept, HasClaim, Claiming, TypeOK
<1>9. PassedClaims(q)'
  <2>1. pc[q] \in Retiring => obs[q][1] # None
    BY RetiresUsed, LockAssumption
  <2> QED  BY <1>q, <1>same, <2>1 DEF PassedClaims
<1>10. ClaimIsCurrent(q)'
  <2> SUFFICES ASSUME pc[q] = "rename", ClaimOf(q) = "open" PROVE FALSE
    BY <1>q, <1>apart DEF ClaimIsCurrent, Claiming
  <2>1. pc[q] \in Retiring /\ pc[q] \in Claiming
    BY DEF Retiring, Claiming
  <2>2. obs[q][1] = at /\ obs[q][2] = owner[at] /\ obs[q] \in Id
    BY <1>q, <2>1, RetiresUsed, RetiresOwnOrDead DEF CalmAt, ClaimIsCurrent
  <2>3. obs[q] = obs[p]
    BY <1>2, <1>4, <2>2 DEF Takes, Id
  <2>4. num[q] = num[p]
    <3>1. ~(num[q] < num[p]) /\ ~(num[p] < num[q])
      BY <1>2, <1>q, <2>2, <2>3 DEF Calm, FencedBelow, Takes, ClaimOf
    <3> QED  BY <1>2, <1>q, <3>1, LockAssumption DEF Number
  <2> QED  BY <1>1, <2>1, <2>3, <2>4 DEF Calm, OneClaimant
<1>11. OwnerHolds(q)'
  BY <1>q DEF OwnerHolds
<1>12. OwnClaims(q)'
  <2> SUFFICES ASSUME q \in Alive, NEW i \in Id, NEW n \in Number, i[2] = q,
                      claim'[<<i, n>>] # "absent"
               PROVE  pc[q] \in Claiming /\ obs[q] = i /\ num[q] = n
    BY <1>q, <1>same, <1>shrink DEF OwnClaims
  <2>1. claim[<<i, n>>] # "absent"
    BY <1>set, <1>3
  <2> QED  BY <1>q, <2>1 DEF CalmAt, OwnClaims
<1> QED
  BY <1>5, <1>6, <1>7, <1>8, <1>9, <1>10, <1>11, <1>12 DEF CalmAt

LEMMA TakeCalm ==
    ASSUME TypeOK, Calm, NEW p \in Proc, Takes(p)
    PROVE  Calm'
<1>1. pc[p] = "rename" /\ pc[p] \in Retiring /\ pc[p] \in Claiming /\ CalmAt(p)
  BY DEF Takes, Retiring, Claiming, Calm
<1>2. /\ p \in Alive /\ obs[p] \in Id /\ obs[p][1] \in used /\ obs[p][1] \in Gen
      /\ num[p] \in Number /\ at # None
  BY <1>1, RetiresUsed, LockAssumption DEF TypeOK, Number, Takes
<1>set. /\ claim'[<<obs[p], num[p]>>] = "retired"
        /\ \A i \in Id, n \in Number :
             i # obs[p] \/ n # num[p] => claim'[<<i, n>>] = claim[<<i, n>>]
  BY <1>2, SetClaimEffect DEF Takes
<1>p. pc'[p] = "sweep" /\ \A q \in Proc \ {p} : pc'[q] = pc[q]
  BY GoOthers DEF Takes
<1>same. /\ UNCHANGED <<used, owner, pending, aged, lapsed, hbFailed, obs, num, mine, next>>
         /\ at' = None
  BY DEF Takes
<1>3. Untroubled' /\ OneMaker'
  BY <1>p, <1>same DEF Calm, Untroubled, OneMaker
<1>4. OnlyUsed'
  <2>1. \A i \in Id, n \in Number : claim'[<<i, n>>] # "absent" => i[1] \in used
    BY <1>2, <1>set DEF Calm, OnlyUsed
  <2> QED  BY <1>same, <2>1 DEF Calm, OnlyUsed
<1>5. AgedIsOrphan'
  <2>1. Others(p)
    BY <1>p, <1>same DEF Others
  <2> QED  BY <1>2, <1>same, <2>1, LivingShrink DEF Calm, AgedIsOrphan
<1>6. FencedBelow'
  BY <1>same, LockAssumption DEF FencedBelow, Id
<1>7. OneClaimant'
  BY <1>1, <1>p, <1>same DEF Calm, OneClaimant
<1>8. CalmAt(p)'
  <2>1. Swept(p)'
    BY <1>2, <1>same, LockAssumption DEF Swept
  <2>2. HasClaim(p)'
    BY <1>p, <1>same, <1>set DEF HasClaim, ClaimOf
  <2>3. OwnClaims(p)'
    <3>1. \A i \in Id, n \in Number : i[2] = p /\ claim'[<<i, n>>] # "absent" =>
            obs[p] = i /\ num[p] = n
      BY <1>1, <1>2, <1>set DEF CalmAt, OwnClaims
    <3> QED  BY <1>p, <1>same, <3>1 DEF OwnClaims, Claiming
  <2> QED  BY <1>p, <1>same, <2>1, <2>2, <2>3
           DEF CalmAt, Fills, Observed, GivesBack, PassedClaims, ClaimIsCurrent,
               OwnerHolds, Retiring
<1>9. \A q \in Proc : CalmAt(q)'
  BY <1>8, TakeBystander
<1> QED  BY <1>3, <1>4, <1>5, <1>6, <1>7, <1>9 DEF Calm

\* What a rename takes is what its process observed.
LEMMA RenameTakes ==
    ASSUME TypeOK, Calm, NEW p \in Proc, Rename(p)
    PROVE  \/ Takes(p) /\ obs[p] = Current
           \/ ClaimOf(p) = "fenced" /\ Moves(p) /\ UNCHANGED next /\ Return(p, FALSE)
<1>1. pc[p] = "rename" /\ pc[p] \in Retiring /\ pc[p] \in Claiming /\ CalmAt(p)
  BY DEF Rename, Retiring, Claiming, Calm
<1>2. obs[p][1] \in Gen /\ obs[p][1] # None
  BY <1>1, RetiresUsed, LockAssumption
<1>3. Current = obs[p] <=> at = obs[p][1]
  BY <1>1, <1>2, RetiresOwnOrDead, CurrentObserved
<1>4. ClaimOf(p) \in {"open", "fenced"} /\ (ClaimOf(p) = "open" => at = obs[p][1])
  BY <1>1 DEF CalmAt, HasClaim, ClaimIsCurrent
<1>5. CASE ClaimOf(p) = "open"
  BY <1>2, <1>3, <1>4, <1>5 DEF Rename, Takes, MyClaim, ClaimOf, lease
<1>6. CASE ClaimOf(p) = "fenced"
  <2>1. UNCHANGED claim /\ Return(p, FALSE) /\ UNCHANGED at
    BY <1>6 DEF Rename, DropClaim, MyClaim, ClaimOf
  <2>2. Moves(p) /\ UNCHANGED next
    BY <2>1, ExitOthers DEF Rename, Moves, Others, lease
  <2> QED  BY <1>6, <2>1, <2>2
<1> QED  BY <1>4, <1>5, <1>6

LEMMA RenameCalm ==
    ASSUME TypeOK, Calm, NEW p \in Proc, Rename(p)
    PROVE  Calm'
<1>1. pc[p] = "rename" /\ pc[p] \in Retiring
  BY DEF Rename, Retiring
<1>2. CASE ClaimOf(p) = "fenced" /\ Moves(p) /\ UNCHANGED next /\ Return(p, FALSE)
  <2>1. next[p] = "reclaim"
    BY <1>1, <1>2, Reclaimer
  <2> QED  BY <1>1, <1>2, <2>1, LeavesRetirement
<1> QED  BY <1>2, RenameTakes, TakeCalm

-----------------------------------------------------------------------------
\* A new generation has no owner, no claim and no other maker.
LEMMA CreateCalm ==
    ASSUME TypeOK, Calm, NEW p \in Proc, pc[p] = "mkdir", NEW g \in Gen, Create(p, g),
           Go(p, "prepare"), UNCHANGED <<claim, lease, obs, num, next>>
    PROVE  Calm'
<1>1. p \in Alive /\ CalmAt(p)
  BY DEF Alive, Terminal, Calm
<1>p. pc'[p] = "prepare" /\ \A q \in Proc \ {p} : pc'[q] = pc[q]
  BY GoOthers
<1>m. mine'[p] = g /\ \A q \in Proc \ {p} : mine'[q] = mine[q]
  BY DEF Create, TypeOK
<1>same. /\ at = None /\ g \notin used /\ at' = g /\ used' = used \cup {g} /\ g # None
         /\ UNCHANGED <<owner, pending, aged, claim, lapsed, hbFailed, obs, num, next>>
  BY LockAssumption DEF Create, lease
<1>new. owner[g] = Missing
  BY <1>same DEF Calm, OnlyUsed
<1>shrink. Alive' \subseteq Alive /\ \A h : Orphan(h) /\ h # g => Orphan(h)'
  <2>1. Others(p)
    BY <1>p, <1>m, <1>same DEF Others
  <2> QED  BY <1>1, <1>m, <2>1, LivingShrink
<1>2. Untroubled'
  BY <1>p, <1>same DEF Calm, Untroubled
<1>3. OnlyUsed'
  BY <1>m, <1>same DEF Calm, OnlyUsed
<1>4. OneMaker'
  BY <1>m, <1>same DEF Calm, OneMaker, OnlyUsed
<1>5. AgedIsOrphan'
  BY <1>same, <1>shrink DEF Calm, AgedIsOrphan, OnlyUsed
<1>6. FencedBelow'
  BY <1>same DEF Calm, OnlyUsed, FencedBelow
<1>7. OneClaimant'
  BY <1>p, <1>same DEF Calm, OneClaimant, Claiming
<1>8. CalmAt(p)'
  <2>1. Fills(p)'
    BY <1>p, <1>m, <1>same, <1>new DEF Fills
  <2>2. OwnClaims(p)' /\ OwnerHolds(p)'
    BY <1>1, <1>same, <1>new, NoOwnClaims, LockAssumption
       DEF OwnClaims, OwnerHolds, Claiming
  <2> QED  BY <1>p, <2>1, <2>2
           DEF CalmAt, Observed, GivesBack, Swept, HasClaim, PassedClaims,
               ClaimIsCurrent, Retiring
<1>9. ASSUME NEW q \in Proc \ {p} PROVE CalmAt(q)'
  <2>q. pc'[q] = pc[q] /\ mine'[q] = mine[q] /\ CalmAt(q)
    BY <1>p, <1>m DEF Calm
  <2>used. pc[q] \in Retiring \cup Claiming => obs[q][1] \in used
    BY RetiresUsed
  <2>1. Fills(q)'
    BY <1>same, <2>q DEF CalmAt, Fills
  <2>2. Observed(q)'
    BY <1>same, <1>shrink, <2>q DEF CalmAt, Observed
  <2>3. GivesBack(q)'
    BY <1>same, <2>q DEF CalmAt, GivesBack, Giving
  <2>4. Swept(q)' /\ HasClaim(q)'
    BY <1>same, <2>q DEF CalmAt, Swept, HasClaim, ClaimOf
  <2>5. PassedClaims(q)'
    BY <1>same, <2>q, <2>used DEF PassedClaims
  <2>6. ClaimIsCurrent(q)'
    <3>1. pc[q] = "rename" => obs[q][1] \in used /\ obs[q][1] # None
      BY <2>used, RetiresUsed, LockAssumption DEF Claiming
    <3> QED  BY <1>same, <2>q, <3>1 DEF CalmAt, ClaimIsCurrent, ClaimOf
  <2>7. OwnClaims(q)'
    BY <1>same, <1>shrink, <2>q DEF CalmAt, OwnClaims
  <2>8. OwnerHolds(q)'
    BY <1>same, <1>new, <2>q, LockAssumption DEF OwnerHolds
  <2> QED  BY <2>1, <2>2, <2>3, <2>4, <2>5, <2>6, <2>7, <2>8 DEF CalmAt
<1> QED  BY <1>2, <1>3, <1>4, <1>5, <1>6, <1>7, <1>8, <1>9 DEF Calm

LEMMA MkdirCalm ==
    ASSUME TypeOK, Calm, NEW p \in Proc, Mkdir(p)
    PROVE  Calm'
<1>1. /\ pc[p] = "mkdir" /\ p \in Alive /\ CalmAt(p) /\ pc[p] \notin Claiming
      /\ pc[p] \notin Retiring /\ pc[p] \notin {"confirm", "callback"}
  BY DEF Mkdir, Alive, Terminal, Claiming, Retiring, Calm
<1>2. CASE (\E g \in Gen : Create(p, g)) /\ Go(p, "prepare")
  BY <1>1, <1>2, CreateCalm DEF Mkdir
<1>3. CASE Go(p, "observe") /\ UNCHANGED <<disk, mine>>
  <2>1. Moves(p)
    BY <1>3, GoOthers DEF Mkdir, Moves, Others, disk, lease
  <2>2. pc'[p] = "observe" /\ next'[p] # "retry"
    BY <1>3, GoOthers DEF Mkdir, Calm, Untroubled
  <2> QED  BY <1>1, <2>1, <2>2, NotOwner, MoveIdle DEF Idle
<1> QED  BY <1>2, <1>3 DEF Mkdir

\* Writing into the directory p made, which nobody else has in hand.
Writes(p) ==
    /\ pc[p] \in {"prepare", "publish"} /\ at = mine[p] /\ mine[p] # None
    /\ owner[at] = Missing /\ owner'[at] \in {Missing, p}
    /\ \A g \in Gen \ {at} : owner'[g] = owner[g]
    /\ pending' \in [Gen -> SUBSET Proc]
    /\ aged' = aged \ {at}
    /\ UNCHANGED <<at, used, claim, lapsed, hbFailed, obs, num, next, mine>>
    /\ \A q \in Proc \ {p} : pc'[q] = pc[q]

LEMMA WriteKeeps ==
    ASSUME TypeOK, Calm, NEW p \in Proc, Writes(p), Fills(p)',
           \/ pc'[p] = "publish" /\ owner'[at] = Missing
           \/ pc'[p] = "confirm"
    PROVE  Calm'
<1> USE DEF Writes
<1>1. p \in Alive /\ CalmAt(p) /\ at \in Gen /\ at \in used
  BY LockAssumption DEF Alive, Terminal, Calm, TypeOK
<1>own. \A i \in Id, n \in Number : i[2] = p => claim[<<i, n>>] = "absent"
  BY <1>1, NoOwnClaims DEF Claiming
<1>orphan. ~Orphan(at)
  BY <1>1 DEF Orphan, Alive
<1>shrink. Alive' \subseteq Alive /\ \A g : Orphan(g) => Orphan(g)'
  <2>1. Others(p)
    BY DEF Others
  <2> QED  BY <1>1, <2>1, LivingShrink
<1>2. Untroubled' /\ OneMaker' /\ FencedBelow'
  BY DEF Calm, Untroubled, OneMaker, FencedBelow
<1>3. OnlyUsed'
  BY <1>1 DEF Calm, OnlyUsed
<1>4. AgedIsOrphan'
  BY <1>shrink DEF Calm, AgedIsOrphan, OnlyUsed, TypeOK
<1>5. OneClaimant'
  BY DEF Calm, OneClaimant, Claiming
<1>6. CalmAt(p)'
  <2>1. OwnClaims(p)' /\ OwnerHolds(p)'
    BY <1>own, LockAssumption DEF OwnClaims, OwnerHolds
  <2> QED  BY <2>1 DEF CalmAt, Observed, GivesBack, Swept, HasClaim, PassedClaims,
               ClaimIsCurrent, Retiring
<1>7. ASSUME NEW q \in Proc \ {p} PROVE CalmAt(q)'
  <2>q. pc'[q] = pc[q] /\ CalmAt(q)
    BY DEF Calm
  <2>1. Fills(q)'
    <3>1. pc[q] \notin {"prepare", "publish", "confirm", "callback"}
      BY <2>q DEF CalmAt, Fills, Calm, OneMaker
    <3> QED  BY <2>q, <3>1 DEF Fills
  <2>2. Observed(q)'
    <3> SUFFICES ASSUME pc[q] \in Retiring, next[q] = "reclaim" PROVE Observed(q)'
      BY <2>q DEF Observed
    <3>1. Observed(q) /\ obs[q][1] \in Gen
      BY <2>q, RetiresUsed DEF CalmAt
    <3>2. obs[q][1] # at
      BY <1>orphan, <3>1 DEF Observed
    <3> QED  BY <1>shrink, <2>q, <3>1, <3>2 DEF Observed
  <2>3. GivesBack(q)'
    <3>1. ~(pc[q] \in Retiring /\ Giving(q))
      BY <2>q, LockAssumption DEF CalmAt, GivesBack
    <3> QED  BY <2>q, <3>1 DEF GivesBack, Giving
  <2>4. Swept(q)' /\ HasClaim(q)' /\ ClaimIsCurrent(q)'
    BY <2>q DEF CalmAt, Swept, HasClaim, ClaimIsCurrent, ClaimOf
  <2>5. PassedClaims(q)'
    BY <2>q DEF CalmAt, PassedClaims, ClaimOf
  <2>6. OwnClaims(q)'
    BY <1>shrink, <2>q DEF CalmAt, OwnClaims
  <2>7. OwnerHolds(q)'
    BY <2>q, LockAssumption DEF OwnerHolds
  <2> QED  BY <2>1, <2>2, <2>3, <2>4, <2>5, <2>6, <2>7 DEF CalmAt
<1> QED  BY <1>2, <1>3, <1>4, <1>5, <1>6, <1>7 DEF Calm

LEMMA PrepareCalm ==
    ASSUME TypeOK, Calm, NEW p \in Proc, Prepare(p)
    PROVE  Calm'
<1>1. pc[p] = "prepare" /\ mine[p] # None /\ at = mine[p] /\ owner[at] = Missing
  BY DEF Prepare, Calm, CalmAt, Fills
<1>2. at \in Gen
  BY <1>1 DEF TypeOK
<1>3. /\ pending' = [pending EXCEPT ![at] = @ \cup {p}] /\ aged' = aged \ {at}
      /\ Go(p, "publish") /\ UNCHANGED owner
  BY <1>1 DEF Prepare
<1>4. pending' \in [Gen -> SUBSET Proc] /\ p \in pending'[at]
  BY <1>2, <1>3 DEF TypeOK
<1>5. pc'[p] = "publish" /\ \A q \in Proc \ {p} : pc'[q] = pc[q]
  BY <1>3, GoOthers
<1>6. Writes(p)
  BY <1>1, <1>3, <1>4, <1>5 DEF Writes, Prepare, lease, local
<1>7. Fills(p)'
  BY <1>1, <1>3, <1>4, <1>5, <1>6 DEF Fills, Writes
<1> QED  BY <1>1, <1>3, <1>5, <1>6, <1>7, WriteKeeps

LEMMA PublishCalm ==
    ASSUME TypeOK, Calm, NEW p \in Proc, Publish(p)
    PROVE  Calm'
<1>1. /\ pc[p] = "publish" /\ mine[p] # None /\ at = mine[p] /\ owner[at] = Missing
      /\ p \in pending[at]
  BY DEF Publish, Calm, CalmAt, Fills
<1>2. at \in Gen
  BY <1>1 DEF TypeOK
<1>3. /\ owner' = [owner EXCEPT ![at] = p] /\ pending' = [pending EXCEPT ![at] = @ \ {p}]
      /\ aged' = aged \ {at} /\ Go(p, "confirm")
  BY <1>1 DEF Publish, CanPublish
<1>4. pending' \in [Gen -> SUBSET Proc]
  BY <1>2, <1>3 DEF TypeOK
<1>5. owner'[at] = p /\ \A g \in Gen \ {at} : owner'[g] = owner[g]
  BY <1>2, <1>3 DEF TypeOK
<1>6. pc'[p] = "confirm" /\ \A q \in Proc \ {p} : pc'[q] = pc[q]
  BY <1>3, GoOthers
<1>7. Writes(p)
  BY <1>1, <1>3, <1>4, <1>5, <1>6 DEF Writes, Publish, lease, local
<1>8. Fills(p)'
  BY <1>1, <1>5, <1>6, <1>7 DEF Fills, Writes
<1> QED  BY <1>6, <1>7, <1>8, WriteKeeps

\* Only an abandoned directory grows old while nothing fails.
LEMMA AgeCalm ==
    ASSUME TypeOK, Calm, NEW g \in Gen, Age(g), strains' = strains
    PROVE  Calm'
<1>same. /\ aged' = aged \cup {g} /\ at = g /\ owner[g] = Missing
         /\ UNCHANGED <<at, used, owner, pending, claim, lapsed, hbFailed, pc,
                        obs, num, next, mine>>
  BY DEF Age, local
<1>1. Orphan(g)
  <2> SUFFICES ASSUME NEW p \in Proc, mine[p] = g, pc[p] \notin Terminal PROVE FALSE
    BY DEF Orphan
  <2>1. pc[p] # "callback"
    BY <1>same, LockAssumption DEF Calm, CalmAt, Fills
  <2>2. Strain
    BY <2>1 DEF Age, Acquiring
  <2> QED  BY <2>2 DEF Strain, TypeOK
<1>2. Untroubled' /\ OneMaker' /\ FencedBelow' /\ OneClaimant'
  BY <1>same DEF Calm, Untroubled, OneMaker, FencedBelow, OneClaimant
<1>3. OnlyUsed'
  <2>1. g \in used
    BY <1>same, LockAssumption DEF TypeOK
  <2> QED  BY <1>same, <2>1 DEF Calm, OnlyUsed
<1>4. AgedIsOrphan'
  BY <1>same, <1>1 DEF Calm, AgedIsOrphan, Orphan
<1>5. ASSUME NEW q \in Proc PROVE CalmAt(q)'
  <2>1. CalmAt(q)
    BY DEF Calm
  <2>2. Fills(q)' /\ GivesBack(q)' /\ Swept(q)'
    BY <1>same, <2>1 DEF CalmAt, Fills, GivesBack, Giving, Swept, ClaimOf
  <2>3. Observed(q)'
    BY <1>same, <2>1 DEF CalmAt, Observed, Alive, Orphan
  <2>4. HasClaim(q)' /\ PassedClaims(q)' /\ ClaimIsCurrent(q)'
    BY <1>same, <2>1 DEF CalmAt, HasClaim, PassedClaims, ClaimIsCurrent, ClaimOf
  <2>5. OwnClaims(q)' /\ OwnerHolds(q)'
    BY <1>same, <2>1 DEF CalmAt, OwnClaims, OwnerHolds, Giving, Alive
  <2> QED  BY <2>2, <2>3, <2>4, <2>5 DEF CalmAt
<1> QED  BY <1>2, <1>3, <1>4, <1>5 DEF Calm

-----------------------------------------------------------------------------
LEMMA NextCalm ==
    ASSUME TypeOK, Calm, Next, strains' = strains
    PROVE  Calm'
<1>1. ~Strain
  BY DEF Strain, TypeOK
<1>2. CASE \E p \in Proc : Step(p)
  <2> PICK p \in Proc : Step(p)
    BY <1>2
  <2>1. CASE \/ Mkdir(p) \/ Observe(p) \/ Prepare(p) \/ Publish(p) \/ Confirm(p)
             \/ Refuse(p) \/ Release(p)
    BY <2>1, MkdirCalm, ObserveCalm, PrepareCalm, PublishCalm, ConfirmCalm, ReleaseCalm
  <2>2. CASE \/ Claim(p) \/ Inspect(p) \/ Fence(p) \/ Revalidate(p) \/ Rename(p) \/ Sweep(p)
    BY <2>2, ClaimCalm, InspectCalm, FenceCalm, RevalidateCalm, RenameCalm, SweepCalm
  <2>3. ~(Cleanup(p) \/ Restore(p) \/ Relink(p) \/ RenameError(p))
    BY <1>1 DEF Cleanup, Restore, Relink, RenameError, Calm, Untroubled
  <2> QED  BY <2>1, <2>2, <2>3 DEF Step
<1>3. CASE \E p \in Proc : Crash(p)
  BY <1>3, CrashCalm
<1>4. ~ \E p \in Proc : Lapse(p) \/ Renew(p) \/ HeartbeatFails(p)
  BY <1>1 DEF Lapse, Renew, HeartbeatFails, Calm, Untroubled
<1>5. CASE \E g \in Gen : Age(g)
  BY <1>5, AgeCalm
<1> QED  BY <1>2, <1>3, <1>4, <1>5 DEF Next

\* A fault of time or of the file system is never taken back.
LEMMA StrainsStay ==
    ASSUME TypeInv, [Next]_vars, strains' = 0
    PROVE  strains = 0
<1>1. \A p \in Proc : Step(p) => Strain \/ UNCHANGED strains
  BY DEF Step, Mkdir, Observe, Prepare, Publish, Confirm, Refuse, Cleanup, Release,
         Claim, Inspect, Fence, Revalidate, Rename, RenameError, Sweep, Restore, Relink, lease
<1>2. \A p \in Proc : Crash(p) => UNCHANGED strains
  BY DEF Crash, lease
<1>3. \A p \in Proc : Lapse(p) \/ Renew(p) \/ HeartbeatFails(p) => Strain \/ UNCHANGED strains
  BY DEF Lapse, Renew, HeartbeatFails
<1>4. \A g \in Gen : Age(g) => Strain \/ UNCHANGED strains
  BY DEF Age
<1>5. UNCHANGED vars => UNCHANGED strains
  BY DEF vars, lease
<1>6. Strain \/ UNCHANGED strains
  BY <1>1, <1>2, <1>3, <1>4, <1>5 DEF Next
<1> QED  BY <1>6 DEF Strain, TypeInv, TypeOK

LEMMA CalmStep == TypeInv /\ CalmInv /\ [Next]_vars => CalmInv'
<1> SUFFICES ASSUME TypeInv, CalmInv, [Next]_vars, strains' = 0 PROVE Calm'
  BY DEF CalmInv
<1>1. strains = 0 /\ Calm /\ TypeOK
  BY StrainsStay DEF CalmInv, TypeInv
<1>2. CASE Next
  BY <1>1, <1>2, NextCalm
<1>3. CASE UNCHANGED vars
  <2>1. /\ UNCHANGED <<at, used, owner, pending, aged, claim, lapsed, hbFailed, pc,
                       obs, num, next, mine>>
    BY <1>3 DEF vars, disk, lease, local
  <2>2. /\ Untroubled' /\ OnlyUsed' /\ OneMaker' /\ AgedIsOrphan'
        /\ FencedBelow' /\ OneClaimant'
    BY <1>1, <2>1 DEF Calm, Untroubled, OnlyUsed, OneMaker, AgedIsOrphan, Orphan,
                      FencedBelow, OneClaimant
  <2>3. ASSUME NEW p \in Proc PROVE CalmAt(p)'
    <3>1. CalmAt(p)
      BY <1>1 DEF Calm
    <3>2. Fills(p)' /\ Observed(p)' /\ GivesBack(p)' /\ Swept(p)'
      BY <2>1, <3>1 DEF CalmAt, Fills, Observed, GivesBack, Swept, Giving, ClaimOf,
                        Alive, Orphan
    <3>3. HasClaim(p)' /\ PassedClaims(p)' /\ ClaimIsCurrent(p)'
      BY <2>1, <3>1 DEF CalmAt, HasClaim, PassedClaims, ClaimIsCurrent, ClaimOf
    <3>4. OwnClaims(p)' /\ OwnerHolds(p)'
      BY <2>1, <3>1 DEF CalmAt, OwnClaims, OwnerHolds, Giving, Alive
    <3> QED  BY <3>2, <3>3, <3>4 DEF CalmAt
  <2> QED  BY <2>2, <2>3 DEF Calm
<1> QED  BY <1>2, <1>3

LEMMA InitCalm == Init => CalmInv
<1> SUFFICES ASSUME Init PROVE Calm
  BY DEF CalmInv
<1>1. \A p \in Proc : pc[p] = "mkdir" /\ mine[p] = None /\ next[p] = "reclaim" /\ p \in Alive
  BY DEF Init, Alive, Terminal
<1>2. /\ lapsed = {} /\ hbFailed = {} /\ aged = {}
      /\ \A i \in Id, n \in Number : claim[<<i, n>>] = "absent"
      /\ \A g \in Gen : owner[g] \in {Dead, Missing} /\ (owner[g] # Missing => g \in used)
      /\ at \in Gen \cup {None}
  BY DEF Init, Number
<1>3. Untroubled /\ OnlyUsed /\ OneMaker /\ AgedIsOrphan /\ FencedBelow /\ OneClaimant
  BY <1>1, <1>2 DEF Untroubled, OnlyUsed, OneMaker, AgedIsOrphan, FencedBelow,
                    OneClaimant, Claiming
<1>4. ASSUME NEW p \in Proc PROVE CalmAt(p)
  BY <1>1, <1>2, LockAssumption
     DEF CalmAt, Fills, Observed, GivesBack, Swept, HasClaim, PassedClaims,
         ClaimIsCurrent, OwnClaims, OwnerHolds, Retiring
<1> QED  BY <1>3, <1>4 DEF Calm

LEMMA CalmHolds == Spec => [](TypeInv /\ CalmInv)
<1>1. TypeInv /\ CalmInv /\ [Next]_vars => (TypeInv /\ CalmInv)'
  BY NextTyped, CalmStep
<1> QED  BY InitTyped, InitCalm, <1>1, PTL DEF Spec

\* Two callbacks of one subject never run at the same time, whatever number of
\* processes compete, die or reclaim the locks of the dead, as long as leases are
\* renewed, acquirers are not stalled past the grace period and no rename is
\* refused.
THEOREM LockExcludes == Spec => []MutualExclusion
<1>1. TypeInv /\ CalmInv => MutualExclusion
  <2> SUFFICES ASSUME CalmInv, strains = 0, NEW p \in Inside, NEW q \in Inside
               PROVE  p = q
    BY DEF MutualExclusion
  <2> QED  BY DEF CalmInv, Calm, CalmAt, Fills, Inside
<1> QED  BY <1>1, CalmHolds, PTL

\* Under the same assumptions, no command that ended leaves its record at the
\* pathname: an acquisition that gave up, was refused or released its lock does
\* not hold it for nobody.
THEOREM LockLeavesNothing == Spec => []NothingLeftBehind
<1>1. TypeInv /\ CalmInv => NothingLeftBehind
  BY DEF CalmInv, NothingLeftBehind, Calm, CalmAt, OwnerHolds, Terminal, Retiring
<1> QED  BY <1>1, CalmHolds, PTL

\* Under the same assumptions, a rename carries away the directory it was
\* claimed for, whatever happened between the claim and the rename.
THEOREM LockMovesOnlyObserved == Spec => MovesOnlyObserved
<1>1. ASSUME TypeInv, CalmInv, [Next]_vars
      PROVE  [strains = 0 /\ at # None /\ at' = None =>
                \E p \in Proc : pc[p] = "rename" /\ obs[p] = Current]_vars
  <2> SUFFICES ASSUME Next, strains = 0, at # None, at' = None
               PROVE  \E p \in Proc : pc[p] = "rename" /\ obs[p] = Current
    BY <1>1
  <2>1. TypeOK /\ Calm
    BY <1>1 DEF TypeInv, CalmInv
  <2>2. PICK p \in Proc : Step(p)
    BY DEF Next, Crash, Lapse, Renew, HeartbeatFails, Age, disk
  <2>3. Rename(p)
    BY <2>2 DEF Step, Mkdir, Observe, Prepare, Publish, Confirm, Refuse, Cleanup, Release,
                Claim, Inspect, Fence, Revalidate, RenameError, Sweep, Restore, Relink,
                Create, disk
  <2>4. CASE Takes(p) /\ obs[p] = Current
    BY <2>4 DEF Takes
  <2>5. CASE Moves(p)
    BY <2>5 DEF Moves
  <2> QED  BY <2>1, <2>3, <2>4, <2>5, RenameTakes
<1> QED  BY <1>1, CalmHolds, PTL DEF Spec, MovesOnlyObserved
=============================================================================
