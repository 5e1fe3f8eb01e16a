--------------------------- MODULE TransportIntent ---------------------------
(***************************************************************************)
(* Pushes outside of the publication of a subject                          *)
(* (src/src/transport-intents.mjs): the outbox keeps one sealed record for *)
(* an exact commit, a branch of the remote and the commit that this branch *)
(* must be at.  A retry holds the lock of the record from its first read   *)
(* to its last write, so that pc[i] is the one retry of record i, and      *)
(* everything it knows outside of the record is its argument and the       *)
(* report of its push.  All intents here are for one branch.               *)
(*                                                                         *)
(* Attempts are told apart by the last one and by whether any of them came *)
(* to a real push; times by whether the cool-down may still hold.          *)
(***************************************************************************)
EXTENDS Naturals

CONSTANTS
    Intent,         \* records of the outbox
    Commit,         \* commits that the branch may be at
    None,
    Source,         \* Source[i]: the commit of intent i
    Budget,         \* attemptBudget.maximum as created
    LateLanding,    \* a push that its client gave up may still be done
    ProbeMayFail    \* ls-remote may fail

ASSUME TransportAssumption ==
    /\ Source \in [Intent -> Commit] /\ None \notin Commit \cup Intent
    /\ Budget \in Nat
    /\ LateLanding \in BOOLEAN /\ ProbeMayFail \in BOOLEAN

VARIABLES
    target,     \* the branch at the remote: a commit, or None
    by,         \* history: the intent whose push put it there, or None
    late,       \* intents of which an abandoned push may still be done
    intent,     \* intent[i]: the record, or None
    local,      \* local[i]: the local ref that makes its commit durable
    pc,         \* pc[i]: where its retry is, "idle" without one
    asked,      \* asked[i]: allowNeedsUser, a person asked for this retry
    report,     \* report[i]: how its push ended, as its client saw it
    published,  \* history: intents whose commit was at the branch since created
    landed,     \* history: intents whose own push put it there
    auto        \* history: attempts spent that nobody asked for

remote == <<target, by, late, published, landed>>
retry == <<pc, asked, report>>
vars == <<remote, intent, local, retry, auto>>

Tip == Commit \cup {None}
Status == {"pending", "pushing", "succeeded", "outcome-unknown",
           "remote-diverged", "needs-user", "attempt-budget-exhausted"}
Fault == {"network", "rate", "other"}
Lost == {"network", "timeout"}
Report == {"ok", "up-to-date", "stale", "rate", "refused"} \cup Lost
Last == {"none", "dry-run", "in-flight", "pending", "needs-user",
         "outcome-unknown", "closed"}
Record == [status : Status, expected : Tip, required : BOOLEAN, last : Last,
           real : BOOLEAN, fault : Fault \cup {"none"}, left : 0..Budget,
           circuit : {"closed", "warm", "open"}]

ASSUME NoRecordIsNone == None \notin Record

Exists(i) == intent[i] # None
Expected(i) == intent[i].expected

\* The commit is on the local ref that the record was made for.
Installed(i) == intent[i].required => local[i] = "installed"

\* A deadline is a fault of its own, not one of the network.
FaultOf(r) == IF r \in {"network", "rate"} THEN r ELSE "other"
Retryable(f) == f \in {"network", "rate"}
CircuitAfter(i, f) ==
    IF Retryable(f) /\ intent[i].circuit = "closed" THEN "warm" ELSE "open"

\* Mutant: whatever attempt is left in the record will do.
ReconcilesDryRun(i) == intent[i].last # "none"

\* Whether the record alone says that finding the commit at the branch may
\* be the work of an own push.
MayReconcile(i) ==
    IF intent[i].status = "pushing"
    THEN intent[i].last = "in-flight"
    ELSE intent[i].last \in {"pending", "outcome-unknown"} /\ intent[i].fault = "network"

Init ==
    /\ target \in Tip /\ by = None /\ late = {} /\ published = {} /\ landed = {}
    /\ intent = [i \in Intent |-> None]
    /\ local = [i \in Intent |-> "reserved"]
    /\ pc = [i \in Intent |-> "idle"]
    /\ asked = [i \in Intent |-> FALSE]
    /\ report = [i \in Intent |-> "ok"]
    /\ auto = [i \in Intent |-> 0]

-----------------------------------------------------------------------------
(* Records and the refs they name *)

\* The caller looked at the branch at some earlier time, and made its commit
\* after that.  An unfinished record for the same transport is joined.
Create(i, e, required) ==
    /\ ~Exists(i) /\ e # Source[i]
    /\ \A j \in Intent :
        Exists(j) /\ Source[j] = Source[i] =>
            \/ intent[j].status = "succeeded"
            \/ intent[j].expected # e \/ intent[j].required # required
    /\ intent' = [intent EXCEPT ![i] =
        [status |-> "pending", expected |-> e, required |-> required,
         last |-> "none", real |-> FALSE, fault |-> "none", left |-> Budget,
         circuit |-> "closed"]]
    /\ published' = IF target = Source[i] THEN published \cup {i} ELSE published
    /\ \E at \in IF required THEN {"reserved", "installed"} ELSE {"installed"} :
        local' = [local EXCEPT ![i] = at]
    /\ UNCHANGED <<target, by, late, landed, retry, auto>>

\* The editor reserves the record inside its commit, before the local branch
\* is moved to it: that may succeed, or fail or die.
Install(i) ==
    /\ Exists(i) /\ local[i] = "reserved"
    /\ \E at \in {"installed", "absent"} : local' = [local EXCEPT ![i] = at]
    /\ UNCHANGED <<remote, intent, retry, auto>>

\* Somebody commits on top of it, or resets the branch.
MoveOn(i) ==
    /\ Exists(i) /\ intent[i].required /\ local[i] = "installed"
    /\ local' = [local EXCEPT ![i] = "moved"]
    /\ UNCHANGED <<remote, intent, retry, auto>>

-----------------------------------------------------------------------------
(* One retry *)

Goto(i, label) == pc' = [pc EXCEPT ![i] = label]
Ends(i) ==
    /\ Goto(i, "idle")
    /\ asked' = [asked EXCEPT ![i] = FALSE] /\ report' = [report EXCEPT ![i] = "ok"]

\* Mutant: a reservation is enough.
StartReserved(i, a) ==
    /\ pc[i] = "idle" /\ Exists(i)
    /\ intent[i].status \notin {"succeeded", "remote-diverged"}
    /\ intent[i].status = "needs-user" => a
    /\ Goto(i, "probe") /\ asked' = [asked EXCEPT ![i] = a]
    /\ UNCHANGED <<remote, intent, local, report, auto>>

StartRetry(i, a) ==
    /\ pc[i] = "idle" /\ Exists(i)
    /\ intent[i].status \notin {"succeeded", "remote-diverged"}
    /\ intent[i].status = "needs-user" => a
    /\ Installed(i)
    /\ Goto(i, "probe") /\ asked' = [asked EXCEPT ![i] = a]
    /\ UNCHANGED <<remote, intent, local, report, auto>>

\* The target cannot be read: nothing is pushed.
ProbeFails(i) ==
    /\ pc[i] = "probe" /\ ProbeMayFail
    /\ \E f \in Fault :
        intent' = [intent EXCEPT ![i].status = "outcome-unknown", ![i].fault = f]
    /\ Ends(i) /\ UNCHANGED <<remote, local, auto>>

Reconcile(i) ==
    /\ pc[i] = "probe" /\ target = Source[i] /\ MayReconcile(i)
    /\ intent' = [intent EXCEPT ![i].status = "succeeded"]
    /\ Ends(i) /\ UNCHANGED <<remote, local, auto>>

Diverge(i) ==
    /\ pc[i] = "probe" /\ target # Expected(i)
    /\ ~(target = Source[i] /\ MayReconcile(i))
    /\ intent' = [intent EXCEPT ![i].status = "remote-diverged", ![i].fault = "other"]
    /\ Ends(i) /\ UNCHANGED <<remote, local, auto>>

Unmoved(i) == pc[i] = "probe" /\ target = Expected(i)

\* A retry that nobody asked for waits until the circuit has cooled down.
CoolDown(i) ==
    /\ Unmoved(i) /\ intent[i].circuit = "open" /\ ~asked[i]
    /\ intent' = [intent EXCEPT ![i].status = "pending"]
    /\ Ends(i) /\ UNCHANGED <<remote, local, auto>>

Exhaust(i) ==
    /\ Unmoved(i) /\ intent[i].left = 0 /\ ~asked[i]
    /\ intent' = [intent EXCEPT ![i].status = "attempt-budget-exhausted"]
    /\ Ends(i) /\ UNCHANGED <<remote, local, auto>>

SpendAttempt(i, left) ==
    /\ intent' = [intent EXCEPT
        ![i].status = "pending", ![i].last = "dry-run", ![i].left = left]
    /\ auto' = [auto EXCEPT ![i] = IF asked[i] THEN @ ELSE @ + 1]
    /\ Goto(i, "dry-run") /\ UNCHANGED <<remote, local, asked, report>>

\* Mutants: an attempt is not counted; a person is held to the budget as well.
SpendNothing(i) ==
    Unmoved(i) /\ (asked[i] \/ intent[i].left > 0) /\ SpendAttempt(i, intent[i].left)
SpendBudget(i) ==
    Unmoved(i) /\ intent[i].left > 0 /\ SpendAttempt(i, intent[i].left - 1)

\* An attempt is spent before it is made; a person always has one more.
Spend(i) ==
    /\ Unmoved(i)
    /\ asked[i] \/ intent[i].left > 0
    /\ SpendAttempt(i, IF intent[i].left = 0 THEN 0 ELSE intent[i].left - 1)

DryRunFails(i) ==
    /\ pc[i] = "dry-run"
    /\ \E f \in Fault, stale \in BOOLEAN :
        /\ stale => f = "other" /\ target \notin {Expected(i), Source[i]}
        /\ intent' = [intent EXCEPT
            ![i].status = IF stale THEN "remote-diverged"
                          ELSE IF Retryable(f) THEN "pending" ELSE "needs-user",
            ![i].fault = f, ![i].circuit = CircuitAfter(i, f)]
    /\ Ends(i) /\ UNCHANGED <<remote, local, auto>>

\* Mutant: the status is left to the end of the push.
ReceiptLater(i) ==
    /\ pc[i] = "dry-run" /\ target \in {Expected(i), Source[i]}
    /\ Goto(i, "push") /\ UNCHANGED <<remote, intent, local, asked, report, auto>>

\* The receipt of a real push is on disk before the push is started.
Receipt(i) ==
    /\ pc[i] = "dry-run" /\ target \in {Expected(i), Source[i]}
    /\ intent' = [intent EXCEPT
        ![i].status = "pushing", ![i].last = "in-flight", ![i].real = TRUE]
    /\ Goto(i, "push") /\ UNCHANGED <<remote, local, asked, report, auto>>

-----------------------------------------------------------------------------
(* The push and what is made of it *)

Publish(i) ==
    /\ target' = Source[i] /\ by' = i /\ landed' = landed \cup {i}
    /\ published' = published \cup {j \in Intent : Exists(j) /\ Source[j] = Source[i]}

Answer(i, r) ==
    /\ Goto(i, "verify") /\ report' = [report EXCEPT ![i] = r]
    /\ UNCHANGED <<intent, local, asked, auto>>

\* The remote compares with the lease; the answer may be lost.
PushLands(i) ==
    /\ pc[i] = "push" /\ target = Expected(i)
    /\ Publish(i) /\ UNCHANGED late
    /\ \E r \in {"ok"} \cup Lost : Answer(i, r)

\* A branch that is at the commit is up to date, whatever the lease says.
PushMisses(i) ==
    /\ pc[i] = "push" /\ target # Expected(i)
    /\ Answer(i, IF target = Source[i] THEN "up-to-date" ELSE "stale")
    /\ UNCHANGED remote

PushFails(i) ==
    /\ pc[i] = "push"
    /\ \E r \in {"rate", "refused"} \cup Lost :
        /\ Answer(i, r)
        /\ late' \in {late} \cup IF r \in Lost /\ LateLanding THEN {late \cup {i}} ELSE {}
    /\ UNCHANGED <<target, by, published, landed>>

LateLands(i) ==
    /\ i \in late /\ late' = late \ {i}
    /\ IF target = Expected(i)
       THEN Publish(i)
       ELSE UNCHANGED <<target, by, published, landed>>
    /\ UNCHANGED <<intent, local, retry, auto>>

Acknowledged(i) == report[i] \in {"ok"} \cup Lost

\* Seen at the branch after a push that may have done it; or acknowledged by
\* the remote itself, which stands when the branch cannot be read.
Succeed(i) ==
    /\ pc[i] = "verify"
    /\ \/ target = Source[i] /\ Acknowledged(i)
       \/ ProbeMayFail /\ report[i] = "ok"
    /\ intent' = [intent EXCEPT ![i].status = "succeeded", ![i].last = "closed",
                                ![i].fault = "none", ![i].circuit = "closed"]
    /\ Ends(i) /\ UNCHANGED <<remote, local, auto>>

Overtaken(i) ==
    /\ pc[i] = "verify" /\ target # Expected(i)
    /\ ~(target = Source[i] /\ Acknowledged(i))
    /\ intent' = [intent EXCEPT ![i].status = "remote-diverged",
                                ![i].last = "closed", ![i].fault = "other"]
    /\ Ends(i) /\ UNCHANGED <<remote, local, auto>>

Close(i, status) ==
    LET f == FaultOf(report[i])
    IN  /\ intent' = [intent EXCEPT ![i].status = status, ![i].last = status,
                                    ![i].fault = f, ![i].circuit = CircuitAfter(i, f)]
        /\ Ends(i) /\ UNCHANGED <<remote, local, auto>>

\* The branch is where it was.
Refused(i) ==
    /\ pc[i] = "verify" /\ target = Expected(i)
    /\ Close(i, IF Retryable(FaultOf(report[i])) THEN "pending" ELSE "needs-user")

Unanswered(i) ==
    /\ pc[i] = "verify" /\ ProbeMayFail /\ report[i] # "ok"
    /\ Close(i, "outcome-unknown")

\* The process dies; the git process of its push may outlive it.
Crash(i) ==
    /\ pc[i] # "idle" /\ Ends(i)
    /\ late' \in {late} \cup IF pc[i] = "push" /\ LateLanding THEN {late \cup {i}} ELSE {}
    /\ UNCHANGED <<target, by, published, landed, intent, local, auto>>

\* Somebody else pushes to the branch, the same commit perhaps, or deletes it.
Foreign(t) ==
    /\ t # target /\ target' = t /\ by' = None
    /\ published' = published \cup {j \in Intent : Exists(j) /\ Source[j] = t}
    /\ UNCHANGED <<late, landed, intent, local, retry, auto>>

-----------------------------------------------------------------------------
ProbeReads(i) == Reconcile(i) \/ Diverge(i) \/ CoolDown(i) \/ Exhaust(i) \/ Spend(i)
Proceed(i) ==
    \/ ProbeFails(i) \/ ProbeReads(i)
    \/ DryRunFails(i) \/ Receipt(i)
    \/ PushLands(i) \/ PushMisses(i) \/ PushFails(i)
    \/ Succeed(i) \/ Overtaken(i) \/ Refused(i) \/ Unanswered(i)

\* A death that changes what no end of a retry changes, and a push by others: a
\* retry that ends with its record as it was looks like a death, and is none.
Disturb == (\E i \in Intent : Crash(i) /\ ~Proceed(i)) \/ (\E t \in Tip : Foreign(t))

Next ==
    \/ \E i \in Intent :
        \/ \E e \in Tip, required \in BOOLEAN : Create(i, e, required)
        \/ Install(i) \/ MoveOn(i)
        \/ \E a \in BOOLEAN : StartRetry(i, a)
        \/ Proceed(i) \/ LateLands(i) \/ Crash(i)
    \/ \E t \in Tip : Foreign(t)

Spec == Init /\ [][Next]_vars

\* A running retry goes on.  A person repeats the retry that the record asks
\* for, and neither the reads, nor the dry-runs, nor the pushes fail for ever.
FairSpec ==
    /\ Spec
    /\ \A i \in Intent :
        /\ WF_vars(Proceed(i)) /\ SF_vars(StartRetry(i, TRUE))
        /\ SF_vars(asked[i] /\ ProbeReads(i)) /\ SF_vars(Receipt(i)) /\ SF_vars(PushLands(i))

-----------------------------------------------------------------------------
(* Properties *)

\* Every variable has its type; a receipt is for a record.
TypeOK ==
    /\ target \in Tip /\ by \in Intent \cup {None}
    /\ late \subseteq Intent /\ published \subseteq Intent /\ landed \subseteq Intent
    /\ intent \in [Intent -> Record \cup {None}]
    /\ local \in [Intent -> {"reserved", "installed", "absent", "moved"}]
    /\ pc \in [Intent -> {"idle", "probe", "dry-run", "push", "verify"}]
    /\ asked \in [Intent -> BOOLEAN] /\ report \in [Intent -> Report]
    /\ auto \in [Intent -> Nat]

\* Whatever dies when, a commit that an intent put at the branch is one for
\* which its record has the receipt of a real push: the next retry can know
\* that the branch may be its own doing.
ReceiptPrecedesPush ==
    \A i \in landed : Exists(i) /\ intent[i].real

\* An intent that succeeded reached the receipt of a real push, and its commit
\* was at the branch since the record was made: a dry-run never lets it claim
\* what somebody else pushed, and a lost answer alone is no success.
SucceededWasPushed ==
    \A i \in Intent : Exists(i) /\ intent[i].status = "succeeded" =>
        intent[i].real /\ i \in published

\* A record that was reserved for a commit is never pushed unless the commit
\* came to its local ref, however many retries find the record first.
OnlyInstalledIsPushed ==
    \A i \in landed : intent[i].required => local[i] \notin {"reserved", "absent"}

\* Retries that no person asked for never make more attempts than the budget,
\* however many of them die half-way and whatever persons do in between.
RetriesAreBounded ==
    \A i \in Intent : auto[i] <= Budget

\* While a person keeps asking and the commit stays on its ref, an intent ends
\* as succeeded or as diverged: neither budget, nor circuit, nor a fault that
\* needs a person, nor an outcome that stays unknown keeps it for ever. The
\* premise allows endless retries that end without a change.
Settles ==
    \A i \in Intent :
        /\ <>[][~Disturb]_vars
        /\ <>[](Exists(i) /\ Installed(i))
        => <>(Exists(i) /\ intent[i].status \in {"succeeded", "remote-diverged"})

\* docs/WORKSPACE-RELIABILITY.md:49-50: "An already-published exact commit
\* completes without pushing; divergence refuses".  At least: no retry finds
\* at the branch the commit that the intent itself put there, and calls it
\* diverged.
LandedCompletes ==
    [][\A i \in Intent :
        by = i /\ intent[i].status # "remote-diverged"
            => intent'[i].status # "remote-diverged"]_vars
=============================================================================
