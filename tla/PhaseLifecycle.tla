---------------------------- MODULE PhaseLifecycle ----------------------------
(***************************************************************************)
(* The phases of one Story: generations, submission, approval, decisions,  *)
(* every way a Story is sent back, approvals that rework retains, forward  *)
(* amendments of an earlier phase and the revalidations they ask for,      *)
(* rework rolled forward, and the final evaluation of an ending            *)
(* (src/src/state.mjs, lifecycle-transitions.mjs, phase-retention.mjs,     *)
(* forward-amendments.mjs, inputs.mjs, workflow-decisions.mjs).            *)
(*                                                                         *)
(* Each step is one command, that is one publication: how it is committed  *)
(* or undone is the business of Publication, and the commands of a Story   *)
(* exclude each other by its subject lock (SubjectLock).  What an artifact *)
(* says is the number of the generation whose bytes it has.                *)
(***************************************************************************)
EXTENDS Integers, FiniteSets

CONSTANTS
    Last,           \* the phases are 1 .. Last, in phaseOrder
    Person,
    Plans,          \* the workflows a Story may be pinned to, see Plan
    NoUpstream,     \* an approval that records no upstream
    MaxGen,         \* bound: generations of a phase
    MaxRework       \* bound: open change requests

Phase == 1 .. Last

\* What a Story pins when it starts (workflow.resolution).
Plan == [minimum : [Phase -> Nat],              \* approvals a phase needs; 0: mode 'none'
         rejectTo : [Phase -> SUBSET Phase],    \* approvalPolicy.rejectTo
         reads : [Phase -> SUBSET Phase],       \* the producers of the declared inputs
         optional : [Phase -> SUBSET Phase],    \* those among them that may be absent
         routes : [Phase -> SUBSET (0 .. Last)], \* of the decision after a phase; 0: the end
         asked : SUBSET Phase,                  \* phases whose decision a person takes
         maxRounds : Nat,                       \* rounds a rule may send back
         capture : Phase]                       \* designSources.capturePhase

ASSUME LifecycleAssumption ==
    /\ Last \in Nat \ {0} /\ MaxGen \in Nat /\ MaxRework \in Nat
    /\ \A w \in Plans :
         /\ w \in Plan
         /\ \A p \in Phase :
              /\ \A q \in w.rejectTo[p] : q <= p
              /\ \A q \in w.reads[p] : q < p
              /\ w.optional[p] \subseteq w.reads[p]
              /\ p \in w.asked => w.routes[p] # {}
              /\ w.minimum[p] = 0 /\ p \notin w.asked =>
                   \A t \in w.routes[p] : t = 0 \/ t > p

VARIABLES
    plan,               \* the pinned workflow, which never changes
    status, current,    \* of the Story; current is 0 when it has no phase
    phase,              \* per phase, see Fresh
    pending,            \* the approved phase whose decision waits for a person, or 0
    rounds,             \* decisionRounds
    requests,           \* the open change requests, see Opened
    proposal,           \* undecided forward amendments, see Propose
    listed, decided,    \* revalidations an amendment asked for, and those decided
    bindings,           \* revalidations with the outcome 'unchanged'
    bytes,              \* the generation whose bytes the artifact of a phase has
    made,               \* generations made so far (history)
    astray              \* a roll-forward met a changed earlier phase (history)

amendments == <<proposal, listed, decided, bindings>>
files == <<bytes, made>>
vars == <<plan, status, current, phase, pending, rounds, requests, amendments, files, astray>>

Minimum(p) == plan.minimum[p]
RejectTo(p) == plan.rejectTo[p]
Reads(p) == plan.reads[p]
Optional(p) == plan.optional[p]
Routes(p) == plan.routes[p]
Votes(p) == Minimum(p) > 0      \* people complete the phase

Fresh == [state |-> "not_started", gen |-> 0,
          peak |-> 0,           \* generationHighWatermark
          votes |-> {},         \* approvals not invalidated
          stale |-> 0,          \* reworkRevalidation.generation
          kept |-> {},          \* the approvals a retainable reset invalidated
          retained |-> 0,       \* retention.generation
          read |-> [gen |-> 0, over |-> <<>>]]    \* inputContext

Active == {"in_progress", "awaiting"}
Complete == {"approved", "skipped"}

Init ==
    /\ plan \in Plans
    /\ status = "in_progress" /\ current = 1
    /\ phase = [p \in Phase |-> IF p = 1 THEN [Fresh EXCEPT !.state = "in_progress"] ELSE Fresh]
    /\ pending = 0 /\ rounds = [p \in Phase |-> 0] /\ requests = {}
    /\ proposal = [p \in Phase |-> 0] /\ listed = {} /\ decided = {} /\ bindings = {}
    /\ bytes = [p \in Phase |-> 0] /\ made = [p \in Phase |-> 0] /\ astray = FALSE

Max2(a, b) == IF a > b THEN a ELSE b
\* Mutant: the abandoned generations are forgotten.
NextGenRestored(f) == f.gen + 1
NextGen(f) == Max2(f.gen, f.peak) + 1
NeedsGeneration(f) == f.gen < 1 \/ f.gen <= f.stale

(***************************************************************************)
(* What an approval decides over, and the input record of a generation.    *)
(***************************************************************************)
Producers(p) == IF Reads(p) = {} THEN 1 .. p - 1 ELSE Reads(p)
Upstream(ph, p) == [q \in Producers(p) |-> [state |-> ph[q].state, gen |-> ph[q].gen]]

\* An optional input may be skipped, missing or unapproved; approved bytes that
\* were changed are never an input.
Captured(ph, q) == ph[q].state = "approved" /\ bytes[q] = ph[q].gen
InputReady(ph, p, q) ==
    Captured(ph, q) \/ (q \in Optional(p) /\ (ph[q].state # "approved" \/ bytes[q] = 0))
InputsReady(ph, p) == \A q \in Reads(p) : InputReady(ph, p, q)

Source(f) == [state |-> f.state, gen |-> f.gen]
InputRecord(ph, p, gen) == [gen |-> gen, over |-> [q \in Reads(p) |-> Source(ph[q])]]

\* verifyInputsIntegrity: a revalidation vouches for its producer.
InputsVerified(ph, p, bound) ==
    ph[p].gen > 0 /\ Reads(p) # {} =>
        /\ InputsReady(ph, p) /\ ph[p].read.gen = ph[p].gen
        /\ \A q \in Reads(p) :
             LET to == {b.to : b \in {b \in bound :
                                       b.phase = p /\ b.gen = ph[p].gen /\ b.producer = q}}
             IN IF to = {} THEN ph[p].read.over[q] = Source(ph[q])
                ELSE Captured(ph, q) /\ ph[q].gen \in to /\ \A t \in to : t <= ph[q].gen

(***************************************************************************)
(* Completion: retained approvals, and the next phase.                     *)
(***************************************************************************)
Voters(vs) == {v.who : v \in vs}

\* Mutant: what the approvals decided over is not compared.
RetainableUnread(ph, p) ==
    /\ ph[p].state = "not_started" /\ ph[p].gen > 0 /\ ph[p].gen = ph[p].stale
    /\ Routes(p) = {} /\ ph[p].kept # {} /\ bytes[p] = ph[p].gen

Retainable(ph, p) ==
    /\ ph[p].state = "not_started" /\ ph[p].gen > 0 /\ ph[p].gen = ph[p].stale
    /\ Routes(p) = {}
    /\ ph[p].kept # {} /\ Cardinality(Voters(ph[p].kept)) >= Minimum(p)
    /\ \A v \in ph[p].kept : v.over # NoUpstream /\ v.over = Upstream(ph, p)
    /\ bytes[p] = ph[p].gen /\ InputsVerified(ph, p, bindings)

Retained(f) ==
    [f EXCEPT !.state = "approved", !.votes = f.kept, !.stale = 0, !.retained = f.gen, !.kept = {}]

Retain(ph, range) == [q \in Phase |-> IF q \in range THEN Retained(ph[q]) ELSE ph[q]]

\* The phases after p, in order, up to the first that must run again.
RetainUnchanged(ph, p) ==
    Retain(ph, {n \in p + 1 .. Last :
                  \A m \in p + 1 .. n : Retainable(Retain(ph, p + 1 .. m - 1), m)})

Later(ph, p) == {q \in p + 1 .. Last : ~(ph[q].state = "approved" /\ ph[q].retained = ph[q].gen)}

\* nextPhaseAfterSkillAmendment, advanceCompletedPhase: t is the phase that starts.
Enter(ph, t) ==
    /\ phase' = IF t = 0 THEN ph ELSE [ph EXCEPT ![t].state = "in_progress"]
    /\ current' = t /\ status' = IF t = 0 THEN "closed" ELSE "in_progress"
    /\ pending' = 0

Continue(ph, p) ==
    IF Later(ph, p) = {} THEN Enter(ph, 0)
    ELSE \E t \in Later(ph, p) : (\A q \in Later(ph, p) : t <= q) /\ Enter(ph, t)

Skip(ph, range) ==
    [q \in Phase |-> IF q \in range /\ ph[q].state = "not_started"
                     THEN [ph[q] EXCEPT !.state = "skipped"] ELSE ph[q]]

Jump(ph, p, t) == Enter(Skip(ph, p + 1 .. (IF t = 0 THEN Last ELSE t - 1)), t)

(***************************************************************************)
(* Rework: the target and every phase after it is reset.                   *)
(***************************************************************************)
\* Mutant: the approvals stay in force.
ResetPhaseApproved(f, state, retain) ==
    [f EXCEPT !.state = state, !.stale = f.gen, !.retained = 0]

ResetPhase(f, state, retain) ==
    [f EXCEPT !.state = state, !.votes = {}, !.stale = f.gen, !.retained = 0,
              !.kept = IF retain /\ f.state = "approved" THEN f.votes ELSE {}]

\* Mutant: only the target is reset.
ResetTarget(ph, t, retain) == [ph EXCEPT ![t] = ResetPhase(ph[t], "in_progress", FALSE)]

ResetRange(ph, t, retain) ==
    [q \in Phase |-> CASE q < t -> ph[q]
                       [] q = t -> ResetPhase(ph[q], "in_progress", FALSE)
                       [] q > t -> ResetPhase(ph[q], "not_started", retain)]

SendBack(ph, t, retain) ==
    /\ phase' = ResetRange(ph, t, retain)
    /\ current' = t /\ status' = "in_progress"
    /\ pending' = IF pending >= t THEN 0 ELSE pending

Checkpoint == [status |-> status, current |-> current, phase |-> phase, bytes |-> bytes]
NoCheckpoint == [status |-> "none"]

\* Of the open requests the oldest has age 1; since names the proposals made under it.
Opened(open, t, checkpoint) ==
    open \cup {[age |-> Cardinality(open) + 1, target |-> t, checkpoint |-> checkpoint, since |-> {}]}

\* loopBackForDecision: no approval is kept, and there is no way forward again.
Loop(ph, p, t, open) ==
    /\ Cardinality(open) < MaxRework
    /\ SendBack(ph, t, FALSE)
    /\ rounds' = [rounds EXCEPT ![p] = @ + 1]
    /\ requests' = Opened(open, t, NoCheckpoint)

(***************************************************************************)
(* The final evaluation of a Story that is about to close.                 *)
(***************************************************************************)
Owed(ph) == {r \in listed \ decided : ph[r.phase].state = "approved" /\ ph[r.phase].gen = r.gen}

GateHolds(ph) ==
    \A p \in Phase :
        /\ ph[p].state \in Complete /\ InputsVerified(ph, p, bindings)
        /\ ph[p].state = "approved" =>
             bytes[p] = ph[p].gen /\ Cardinality(Voters(ph[p].votes)) >= Minimum(p)

\* The upstream issues: every proposal and every revalidation is decided.
UpstreamDecided(ph) == (\A p \in Phase : proposal[p] = 0) /\ Owed(ph) = {}

FinalEvaluation == status' = "closed" => GateHolds(phase') /\ UpstreamDecided(phase')

(***************************************************************************)
(* One way to complete a phase: its change requests are resolved, then the *)
(* rule of its decision is applied.                                        *)
(***************************************************************************)
Open(p) ==
    LET open == {r \in requests : r.target # p}
    IN {[r EXCEPT !.age = 1 + Cardinality({s \in open : s.age < r.age})] : r \in open}

Completed(ph, p) ==
    \/ /\ Routes(p) = {} /\ Continue(RetainUnchanged(ph, p), p)
       /\ requests' = Open(p) /\ UNCHANGED rounds
    \/ /\ p \in plan.asked
       /\ pending' = p /\ phase' = ph /\ requests' = Open(p)
       /\ UNCHANGED <<status, current, rounds>>
    \/ /\ p \notin plan.asked
       /\ \E t \in Routes(p) :
            \/ /\ t = p + 1 /\ Continue(RetainUnchanged(ph, p), p)
               /\ requests' = Open(p) /\ UNCHANGED rounds
            \/ /\ t = 0 \/ t > p + 1
               /\ Jump(ph, p, t) /\ requests' = Open(p) /\ UNCHANGED rounds
            \/ /\ t \in 1 .. p /\ rounds[p] < plan.maxRounds /\ Loop(ph, p, t, Open(p))
            \/ /\ t \in 1 .. p /\ rounds[p] >= plan.maxRounds
               /\ pending' = p /\ phase' = ph /\ requests' = Open(p)
               /\ UNCHANGED <<status, current, rounds>>

(***************************************************************************)
(* The work on the current phase.                                          *)
(***************************************************************************)
Working(p, state) ==
    status = "in_progress" /\ current = p /\ pending = 0 /\ phase[p].state = state

Publish(p) ==
    /\ Working(p, "in_progress") /\ InputsReady(phase, p)
    /\ LET gen == NextGen(phase[p]) IN
       /\ gen <= MaxGen
       /\ phase' = [phase EXCEPT ![p].gen = gen, ![p].read = InputRecord(phase, p, gen)]
       /\ bytes' = [bytes EXCEPT ![p] = gen]
    /\ made' = [made EXCEPT ![p] = @ + 1]
    /\ UNCHANGED <<status, current, pending, rounds, requests, amendments, astray>>

\* The phase that completes the Story, if p is it, is not submitted in vain; but
\* upstream issues may be decided while it is reviewed.
LastToRun(p) == \A q \in p + 1 .. Last : phase[q].state = "skipped"
Preview(p) ==
    [phase EXCEPT ![p].state = "approved",
                  ![p].votes = [who : Person, gen : {phase[p].gen}, over : {NoUpstream}]]

Submit(p) ==
    /\ Working(p, "in_progress") /\ ~NeedsGeneration(phase[p])
    /\ bytes[p] = phase[p].gen /\ InputsVerified(phase, p, bindings)
    /\ LastToRun(p) => GateHolds(Preview(p))
    /\ IF Votes(p)
       THEN /\ phase' = [phase EXCEPT ![p].state = "awaiting"]
            /\ UNCHANGED <<status, current, pending, rounds, requests>>
       ELSE Completed([phase EXCEPT ![p].state = "approved"], p) /\ FinalEvaluation
    /\ UNCHANGED <<amendments, files, astray>>

Approve(p, who) ==
    /\ Working(p, "awaiting") /\ who \notin Voters(phase[p].votes)
    /\ LET vote == [who |-> who, gen |-> phase[p].gen, over |-> Upstream(phase, p)]
           ph == [phase EXCEPT ![p].votes = @ \cup {vote}]
       IN IF Cardinality(Voters(ph[p].votes)) >= Minimum(p)
          THEN Completed([ph EXCEPT ![p].state = "approved"], p) /\ FinalEvaluation
          ELSE phase' = ph /\ UNCHANGED <<status, current, pending, rounds, requests>>
    /\ UNCHANGED <<amendments, files, astray>>

\* decideStory: a person may choose another round past the limit of the rule.
Choose(p) ==
    /\ status = "in_progress" /\ pending = p /\ current = p /\ phase[p].state = "approved"
    /\ \E t \in Routes(p) :
         \/ t \in 1 .. p /\ Loop(phase, p, t, requests)
         \/ /\ IF t = p + 1 THEN Continue(phase, p) ELSE t \notin 1 .. p /\ Jump(phase, p, t)
            /\ UNCHANGED <<rounds, requests>>
    /\ FinalEvaluation
    /\ UNCHANGED <<amendments, files, astray>>

(***************************************************************************)
(* Sending the Story back.                                                 *)
(***************************************************************************)
SendBackByRequest(t) ==
    /\ Cardinality(requests) < MaxRework
    /\ SendBack(phase, t, TRUE)
    /\ requests' = Opened(requests, t, Checkpoint)
    /\ UNCHANGED <<rounds, files, astray>>

Reject(p) ==
    /\ Working(p, "awaiting")
    /\ \E t \in RejectTo(p) : SendBackByRequest(t)
    /\ UNCHANGED amendments

Reopen ==
    /\ status = "closed" /\ current = 0
    /\ \E p \in Phase :
         /\ Votes(p) /\ LastToRun(p) /\ phase[p].state # "skipped"
         /\ \E t \in RejectTo(p) : SendBackByRequest(t)
    /\ UNCHANGED amendments

\* A detached document sends back the earliest phase whose published work used it.
Detach(t) ==
    /\ status = "in_progress" /\ t <= current /\ phase[t].gen > 0
    /\ SendBack(phase, t, FALSE)
    /\ UNCHANGED <<rounds, requests, amendments, files, astray>>

\* A design source is replaced once the captured set is approved.
Promote ==
    /\ \E v \in phase[plan.capture].votes : v.gen = phase[plan.capture].gen
    /\ SendBack(phase, plan.capture, FALSE)
    /\ UNCHANGED <<rounds, requests, amendments, files, astray>>

Cancel ==
    /\ status = "in_progress" /\ current # 0
    /\ phase' = [phase EXCEPT ![current].state = "cancelled"]
    /\ status' = "cancelled" /\ current' = 0 /\ pending' = 0
    /\ UNCHANGED <<rounds, requests, amendments, files, astray>>

(***************************************************************************)
(* Forward amendments: proposal[q] is the generation one was proposed from.*)
(***************************************************************************)
Amendable(q) ==
    /\ status = "in_progress" /\ q < current /\ phase[current].state = "in_progress"
    /\ phase[q].state = "approved" /\ phase[q].gen > 0 /\ bytes[q] = phase[q].gen

Propose(q) ==
    /\ Amendable(q) /\ proposal[q] = 0 /\ \A r \in Owed(phase) : r.producer # q
    /\ proposal' = [proposal EXCEPT ![q] = phase[q].gen]
    /\ requests' = {[r EXCEPT !.since = @ \cup {q}] : r \in requests}
    /\ UNCHANGED <<status, current, phase, pending, rounds, listed, decided, bindings, files, astray>>

Withdrawn(q) == {[r EXCEPT !.since = @ \ {q}] : r \in requests}

\* The amendment is declined.
Decline(q) ==
    /\ proposal[q] # 0 /\ Votes(q)
    /\ proposal' = [proposal EXCEPT ![q] = 0] /\ requests' = Withdrawn(q)
    /\ UNCHANGED <<status, current, phase, pending, rounds, listed, decided, bindings, files, astray>>

\* Mutant: the phase after the amended one is left out.
ReadersFurther(q) ==
    {r \in q + 2 .. current - 1 : phase[r].state = "approved" /\ q \in Reads(r)}

\* forwardAmendmentReaders
Readers(q) == {r \in q + 1 .. current - 1 : phase[r].state = "approved" /\ q \in Reads(r)}

\* No phase is reset: those that read the phase are listed, and the current one reads it anew.
Amend(q, who) ==
    /\ Amendable(q) /\ proposal[q] = phase[q].gen /\ Minimum(q) = 1
    /\ LET gen == NextGen(phase[q])
           vote == [who |-> who, gen |-> gen, over |-> NoUpstream]
           ph == [phase EXCEPT ![q].gen = gen, ![q].votes = {vote}, ![q].read = InputRecord(phase, q, gen)]
       IN /\ gen <= MaxGen /\ InputsReady(phase, q)
          /\ bytes' = [bytes EXCEPT ![q] = gen]
          /\ phase' = IF q \in Reads(current) /\ phase[current].read.gen > 0
                         /\ \A r \in Reads(current) \ {q} : InputReady(ph, current, r)
                      THEN [ph EXCEPT ![current].read = InputRecord(ph, current, NextGen(ph[current]))]
                      ELSE ph
          /\ listed' = listed \cup
               {[phase |-> r, gen |-> phase[r].gen, producer |-> q, to |-> gen] : r \in Readers(q)}
    /\ made' = [made EXCEPT ![q] = @ + 1]
    /\ proposal' = [proposal EXCEPT ![q] = 0] /\ requests' = Withdrawn(q)
    /\ UNCHANGED <<status, current, pending, rounds, decided, bindings, astray>>

\* The outcome 'unchanged' must make the inputs of the phase verify.
Revalidate(r) ==
    /\ status = "in_progress" /\ Votes(r.phase) /\ Captured(phase, r.producer)
    /\ decided' = decided \cup {r}
    /\ bindings' = bindings \cup {[phase |-> r.phase, gen |-> r.gen, producer |-> r.producer,
                                   to |-> phase[r.producer].gen]}
    /\ InputsVerified(phase, r.phase, bindings')
    /\ UNCHANGED <<status, current, phase, pending, rounds, requests, proposal, listed, files, astray>>

\* The outcome 'return' sends the Story back to the phase.
Return(r) ==
    /\ status = "in_progress" /\ r.phase < current /\ phase[current].state \in Active
    /\ Votes(r.phase)
    /\ decided' = decided \cup {r}
    /\ SendBackByRequest(r.phase)
    /\ UNCHANGED <<proposal, listed, bindings>>

(***************************************************************************)
(* rollForwardRework: the newest open request that has a checkpoint, when  *)
(* no decision sent the Story back since.                                  *)
(***************************************************************************)
Restored(checkpoint, p) ==
    LET old == checkpoint.phase[p]
        top == Max2(phase[p].gen, phase[p].peak)
        votes == IF p = checkpoint.current /\ old.state = "awaiting" THEN {} ELSE old.votes
    IN [old EXCEPT !.peak = IF top > old.gen THEN top ELSE @, !.votes = votes]

RollForward ==
    \E request \in requests :
        LET checkpoint == request.checkpoint IN
        /\ checkpoint # NoCheckpoint /\ \A r \in requests : r.age <= request.age
        /\ status' = checkpoint.status /\ current' = checkpoint.current
        /\ phase' = [p \in Phase |-> IF p < request.target THEN phase[p]
                                     ELSE Restored(checkpoint, p)]
        /\ bytes' = checkpoint.bytes
        /\ astray' = (astray \/ \E p \in 1 .. request.target - 1 : phase[p] # checkpoint.phase[p])
        \* The file of a proposal made since is gone: it can only be declined.
        /\ proposal' = [p \in Phase |-> IF p \in request.since THEN MaxGen + 1 ELSE proposal[p]]
        /\ requests' = requests \ {request}
        /\ UNCHANGED <<pending, rounds, listed, decided, bindings, made>>

(***************************************************************************)
(* Every publication validates the Story it is about to commit.            *)
(***************************************************************************)
Valid ==
    LET active == {p \in Phase : phase[p].state \in Active} IN
    CASE status = "closed" -> current = 0 /\ active = {}
      [] status = "cancelled" -> /\ current = 0 /\ active = {}
                                 /\ \E p \in Phase : phase[p].state = "cancelled"
      [] status = "in_progress" /\ pending # 0 ->
           current = pending /\ phase[pending].state = "approved" /\ active = {}
      [] OTHER -> active = {current}

Step ==
    \/ \E p \in Phase :
         Publish(p) \/ Submit(p) \/ Choose(p) \/ Reject(p) \/ Detach(p) \/ Propose(p) \/ Decline(p)
    \/ \E p \in Phase, who \in Person : Approve(p, who) \/ Amend(p, who)
    \/ Reopen \/ Promote \/ Cancel \/ RollForward
    \/ \E r \in Owed(phase) : Revalidate(r) \/ Return(r)

Next == Step /\ Valid' /\ UNCHANGED plan

Spec == Init /\ [][Next]_vars

(***************************************************************************)
(* Properties.                                                             *)
(***************************************************************************)
\* The shape of the state.
TypeOK ==
    /\ status \in {"in_progress", "closed", "cancelled"} /\ current \in 0 .. Last
    /\ pending \in 0 .. Last /\ rounds \in [Phase -> Nat]
    /\ \A r \in requests : r.target \in Phase
    /\ \A p \in Phase :
         /\ phase[p].state \in {"not_started", "in_progress", "awaiting", "approved", "skipped", "cancelled"}
         /\ phase[p].gen \in 0 .. MaxGen /\ phase[p].peak \in 0 .. MaxGen
         /\ phase[p].read.gen \in 0 .. MaxGen + 1
         /\ bytes[p] \in 0 .. MaxGen /\ made[p] \in 0 .. MaxGen

\* No phase is left behind: before the current phase all is approved or skipped, after it nothing
\* has started, and a Story closes only when every phase is settled, by whatever sequence of
\* returns, loops, skips and roll-forwards it got there, until a roll-forward meets an earlier
\* phase that is not as its checkpoint has it.
NoPhaseLeftBehind ==
    ~astray =>
        /\ status = "closed" => \A p \in Phase : phase[p].state \in Complete
        /\ current # 0 => /\ \A p \in 1 .. current - 1 : phase[p].state \in Complete
                          /\ \A p \in current + 1 .. Last :
                               phase[p].state \in {"not_started", "skipped"}

\* An approval stands only on what it decided over: the inputs of an approved phase are still the
\* generations its approvers saw, or an amendment listed the phase for revalidation, until a
\* roll-forward meets a changed earlier phase.
ApprovalStands ==
    ~astray =>
        \A p \in Phase : phase[p].state = "approved" =>
            \A v \in phase[p].votes : v.over # NoUpstream =>
                \A q \in Reads(p) :
                    \/ v.over[q] = [state |-> phase[q].state, gen |-> phase[q].gen]
                    \/ [phase |-> p, gen |-> phase[p].gen, producer |-> q, to |-> phase[q].gen] \in listed

\* A phase that people approve is approved by enough of them, for the generation it is at, also
\* after its approval was retained, amended or restored.
EnoughApproved ==
    \A p \in Phase : phase[p].state = "approved" =>
        Cardinality({v.who : v \in {v \in phase[p].votes : v.gen = phase[p].gen}}) >= Minimum(p)

\* No generation number is given twice, also when a roll-forward abandoned generations.
AllocatedOnce == \A p \in Phase : made[p] = Max2(phase[p].gen, phase[p].peak)

\* A Story that is finished is as its final evaluation judged it: each approved phase has the bytes
\* of its generation, and its inputs verify.
FinishedIsVerified ==
    status = "closed" =>
        \A p \in Phase : /\ InputsVerified(phase, p, bindings)
                         /\ phase[p].state = "approved" => bytes[p] = phase[p].gen
=============================================================================
