------------------------- MODULE PhaseLifecycleProofs -------------------------
(* What the phases of a Story promise for any number of phases, any pinned  *)
(* workflow and any number of people, generations and open returns.         *)
EXTENDS PhaseLifecycle, FiniteSetTheorems, TLAPS

State == {"not_started", "in_progress", "awaiting", "approved", "skipped", "cancelled"}
Status == {"in_progress", "closed", "cancelled"}
Unstarted == {"not_started", "skipped"}

IsPhase(f) ==
    f = [state |-> f.state, gen |-> f.gen, peak |-> f.peak, votes |-> f.votes, stale |-> f.stale,
         kept |-> f.kept, retained |-> f.retained, read |-> f.read]

\* The votes of a phase are for its generation, those that rework kept for the one it left.
Sound(f, p) ==
    /\ f.state \in {"approved", "awaiting"} => \A v \in f.votes : v.gen = f.gen
    /\ f.state = "approved" => Cardinality(Voters(f.votes)) >= Minimum(p)
    /\ f.state \in Unstarted \cup {"in_progress"} => f.votes = {}
    /\ \A v \in f.kept : v.gen = f.stale

GoodPhase(f, p) ==
    /\ IsPhase(f) /\ f.state \in State /\ f.gen \in 0 .. MaxGen /\ f.peak \in 0 .. MaxGen
    /\ f.read.gen \in 0 .. MaxGen + 1 /\ Sound(f, p)

\* Behind the current phase nothing has started.
Ahead(c, ph) == c # 0 => \A p \in Phase : p > c => ph[p].state \in Unstarted

GoodStory(s, c, ph, by) ==
    /\ s \in Status /\ c \in 0 .. Last /\ Ahead(c, ph) /\ by = [p \in Phase |-> by[p]]
    /\ \A p \in Phase : GoodPhase(ph[p], p) /\ by[p] \in 0 .. MaxGen

Used(f) == Max2(f.gen, f.peak)

IsRequest(r) ==
    r = [age |-> r.age, target |-> r.target, checkpoint |-> r.checkpoint, since |-> r.since]

GoodRequest(r) ==
    /\ IsRequest(r) /\ r.target \in Phase
    /\ r.checkpoint # NoCheckpoint =>
         LET c == r.checkpoint IN
         /\ GoodStory(c.status, c.current, c.phase, c.bytes)
         /\ c.current # 0 => r.target <= c.current

\* A checkpoint knows no generation that was not made.
Known(ph, total) == \A p \in Phase : Used(ph[p]) <= total[p]

\* The phases are settled in their order.
Orderly(s, c, ph) ==
    /\ s = "closed" => \A p \in Phase : ph[p].state \in Complete
    /\ c # 0 => \A p \in Phase : p < c => ph[p].state \in Complete
    /\ \A p, q \in Phase : p < q => ph[p].state \in Complete \/ ph[q].state \in Unstarted

StandsOn(ph, p, v, asked) ==
    v.over # NoUpstream =>
        \A q \in Reads(p) :
            \/ v.over[q] = [state |-> ph[q].state, gen |-> ph[q].gen]
            \/ [phase |-> p, gen |-> ph[p].gen, producer |-> q, to |-> ph[q].gen] \in asked

Stands(ph, asked) ==
    \A p \in Phase : ph[p].state \in {"approved", "awaiting"} =>
        \A v \in ph[p].votes : StandsOn(ph, p, v, asked)

Shape ==
    /\ plan \in Plans
    /\ phase = [p \in Phase |-> phase[p]] /\ made = [p \in Phase |-> made[p]]
    /\ \A r \in listed : r.phase \in Phase
    /\ pending \in 0 .. Last /\ rounds \in [Phase -> Nat]

Checkpoints == {r.checkpoint : r \in requests} \ {NoCheckpoint}

\* The inductive invariant.
LifecycleInv ==
    /\ Shape
    /\ GoodStory(status, current, phase, bytes)
    /\ AllocatedOnce
    /\ \A r \in requests : GoodRequest(r)
    /\ \A c \in Checkpoints : Known(c.phase, made)
    /\ ~astray =>
         /\ Orderly(status, current, phase) /\ Stands(phase, listed)
         /\ \A c \in Checkpoints : Orderly(c.status, c.current, c.phase) /\ Stands(c.phase, listed)

-----------------------------------------------------------------------------
\* The operators on one phase.
LEMMA PlanFacts ==
    ASSUME plan \in Plans
    PROVE  /\ Last \in Nat \ {0} /\ MaxGen \in Nat
           /\ \A p \in Phase :
                /\ Minimum(p) \in Nat /\ Routes(p) \subseteq 0 .. Last
                /\ Reads(p) \subseteq Phase /\ \A q \in Reads(p) : q < p
                /\ RejectTo(p) \subseteq Phase /\ \A q \in RejectTo(p) : q <= p
           /\ plan.capture \in Phase
<1>1. plan \in Plan
  BY LifecycleAssumption
<1>2. \A p \in Phase : (\A q \in plan.rejectTo[p] : q <= p) /\ \A q \in plan.reads[p] : q < p
  BY LifecycleAssumption
<1> QED  BY <1>1, <1>2, LifecycleAssumption DEF Plan, Minimum, Routes, Reads, RejectTo

Updated(f, s, v, n, b, k) ==
    [f EXCEPT !.state = s, !.votes = v, !.stale = n, !.retained = b, !.kept = k]

LEMMA PhaseUpdate ==
    ASSUME NEW f, IsPhase(f), NEW s, NEW v, NEW n, NEW b, NEW k
    PROVE  Updated(f, s, v, n, b, k) =
             [state |-> s, gen |-> f.gen, peak |-> f.peak, votes |-> v, stale |-> n,
              kept |-> k, retained |-> b, read |-> f.read]
<1> DEFINE f1 == [f EXCEPT !.state = s]
           f2 == [f1 EXCEPT !.votes = v]
           f3 == [f2 EXCEPT !.stale = n]
           f4 == [f3 EXCEPT !.retained = b]
<1>1. f1 = [state |-> s, gen |-> f.gen, peak |-> f.peak, votes |-> f.votes,
            stale |-> f.stale, kept |-> f.kept, retained |-> f.retained, read |-> f.read]
  BY DEF IsPhase
<1>2. f2 = [state |-> s, gen |-> f.gen, peak |-> f.peak, votes |-> v,
            stale |-> f.stale, kept |-> f.kept, retained |-> f.retained, read |-> f.read]
  <2> HIDE DEF f1
  <2> QED  BY <1>1
<1>3. f3 = [state |-> s, gen |-> f.gen, peak |-> f.peak, votes |-> v,
            stale |-> n, kept |-> f.kept, retained |-> f.retained, read |-> f.read]
  <2> HIDE DEF f2
  <2> QED  BY <1>2
<1>4. f4 = [state |-> s, gen |-> f.gen, peak |-> f.peak, votes |-> v,
            stale |-> n, kept |-> f.kept, retained |-> b, read |-> f.read]
  <2> HIDE DEF f3
  <2> QED  BY <1>3
<1>5. [f4 EXCEPT !.kept = k] = [state |-> s, gen |-> f.gen, peak |-> f.peak, votes |-> v,
            stale |-> n, kept |-> k, retained |-> b, read |-> f.read]
  <2> HIDE DEF f4
  <2> QED  BY <1>4
<1> QED  BY <1>5 DEF Updated

LEMMA ResetFields ==
    ASSUME NEW f, IsPhase(f), NEW s, NEW retain \in BOOLEAN
    PROVE  LET g == ResetPhase(f, s, retain) IN
           /\ IsPhase(g) /\ g.state = s /\ g.gen = f.gen /\ g.peak = f.peak /\ g.votes = {}
           /\ g.stale = f.gen /\ g.read = f.read
           /\ g.kept = IF retain /\ f.state = "approved" THEN f.votes ELSE {}
<1> DEFINE kept == IF retain /\ f.state = "approved" THEN f.votes ELSE {}
           g == ResetPhase(f, s, retain)
<1>1. g = Updated(f, s, {}, f.gen, 0, kept)
  BY DEF ResetPhase, Updated
<1> HIDE DEF kept, g
<1>2. g = [state |-> s, gen |-> f.gen, peak |-> f.peak, votes |-> {}, stale |-> f.gen,
           kept |-> kept, retained |-> 0, read |-> f.read]
  BY <1>1, PhaseUpdate
<1>3. /\ IsPhase(g) /\ g.state = s /\ g.gen = f.gen /\ g.peak = f.peak /\ g.votes = {}
      /\ g.stale = f.gen /\ g.read = f.read /\ g.kept = kept
  BY <1>2 DEF IsPhase
<1> QED  BY <1>3 DEF kept, g

LEMMA ResetGood ==
    ASSUME NEW p \in Phase, NEW f, GoodPhase(f, p), NEW s \in {"in_progress", "not_started"},
           NEW retain \in BOOLEAN
    PROVE  GoodPhase(ResetPhase(f, s, retain), p)
<1> DEFINE g == ResetPhase(f, s, retain)
<1>1. /\ IsPhase(g) /\ g.state = s /\ g.gen = f.gen /\ g.peak = f.peak /\ g.votes = {}
      /\ g.stale = f.gen /\ g.read = f.read
      /\ g.kept = IF retain /\ f.state = "approved" THEN f.votes ELSE {}
  BY ResetFields DEF GoodPhase
<1> HIDE DEF g
<1>2. Sound(g, p)
  BY <1>1 DEF GoodPhase, Sound, Unstarted
<1> QED  BY <1>1, <1>2 DEF GoodPhase, State, g

LEMMA RetainedFields ==
    ASSUME NEW f, IsPhase(f)
    PROVE  LET g == Retained(f) IN
           /\ IsPhase(g) /\ g.state = "approved" /\ g.gen = f.gen /\ g.peak = f.peak
           /\ g.votes = f.kept /\ g.kept = {} /\ g.read = f.read /\ g.retained = f.gen
<1> DEFINE g == Retained(f)
<1>1. g = Updated(f, "approved", f.kept, 0, f.gen, {})
  BY DEF Retained, Updated
<1> HIDE DEF g
<1>2. g = [state |-> "approved", gen |-> f.gen, peak |-> f.peak, votes |-> f.kept, stale |-> 0,
           kept |-> {}, retained |-> f.gen, read |-> f.read]
  BY <1>1, PhaseUpdate
<1>3. /\ IsPhase(g) /\ g.state = "approved" /\ g.gen = f.gen /\ g.peak = f.peak
      /\ g.votes = f.kept /\ g.kept = {} /\ g.read = f.read /\ g.retained = f.gen
  BY <1>2 DEF IsPhase
<1> QED  BY <1>3 DEF g

LEMMA RetainedGood ==
    ASSUME NEW p \in Phase, NEW f, GoodPhase(f, p), f.gen = f.stale,
           Cardinality(Voters(f.kept)) >= Minimum(p)
    PROVE  GoodPhase(Retained(f), p)
<1> DEFINE g == Retained(f)
<1>1. /\ IsPhase(g) /\ g.state = "approved" /\ g.gen = f.gen /\ g.peak = f.peak
      /\ g.votes = f.kept /\ g.kept = {} /\ g.read = f.read
  BY RetainedFields DEF GoodPhase
<1> HIDE DEF g
<1>2. Sound(g, p)
  BY <1>1 DEF GoodPhase, Sound, Unstarted
<1> QED  BY <1>1, <1>2 DEF GoodPhase, State, g

InState(f, s) == [f EXCEPT !.state = s]

LEMMA StateFields ==
    ASSUME NEW f, IsPhase(f), NEW s
    PROVE  LET g == InState(f, s) IN
           /\ IsPhase(g) /\ g.state = s /\ g.gen = f.gen /\ g.peak = f.peak
           /\ g.votes = f.votes /\ g.kept = f.kept /\ g.stale = f.stale /\ g.read = f.read
           /\ g.retained = f.retained
BY DEF IsPhase, InState

LEMMA StartedGood ==
    ASSUME NEW p \in Phase, NEW f, GoodPhase(f, p), f.state \in Unstarted,
           NEW s \in {"in_progress", "skipped"}
    PROVE  GoodPhase(InState(f, s), p)
<1> DEFINE g == InState(f, s)
<1>1. /\ IsPhase(g) /\ g.state = s /\ g.gen = f.gen /\ g.peak = f.peak
      /\ g.votes = f.votes /\ g.kept = f.kept /\ g.stale = f.stale /\ g.read = f.read
  BY StateFields DEF GoodPhase
<1> HIDE DEF g
<1>2. Sound(g, p)
  BY <1>1 DEF GoodPhase, Sound, Unstarted
<1> QED  BY <1>1, <1>2 DEF GoodPhase, State, g

-----------------------------------------------------------------------------
\* The operators on all phases.
GoodPhases(ph) == ph = [p \in Phase |-> ph[p]] /\ \A p \in Phase : GoodPhase(ph[p], p)

SameNumbers(ph, g) == \A p \in Phase : g[p].gen = ph[p].gen /\ g[p].peak = ph[p].peak

\* What is approved, or to be approved, in g was so in ph on the same inputs, or by somebody who
\* saw the inputs it has in g.
Upheld(ph, g) ==
    \A r \in Phase : g[r].state \in {"approved", "awaiting"} =>
        \A v \in g[r].votes :
            \/ StandsOn(g, r, v, {})
            \/ /\ ph[r].state \in {"approved", "awaiting"} /\ v \in ph[r].votes /\ g[r].gen = ph[r].gen
               /\ \A q \in Phase : q < r => g[q].state = ph[q].state /\ g[q].gen = ph[q].gen

LEMMA UpheldStands ==
    ASSUME plan \in Plans, NEW ph, NEW g, NEW asked, Upheld(ph, g), Stands(ph, asked)
    PROVE  Stands(g, asked)
<1> SUFFICES ASSUME NEW r \in Phase, g[r].state \in {"approved", "awaiting"}, NEW v \in g[r].votes
             PROVE  StandsOn(g, r, v, asked)
  BY DEF Stands
<1>1. CASE /\ ph[r].state \in {"approved", "awaiting"} /\ v \in ph[r].votes /\ g[r].gen = ph[r].gen
           /\ \A q \in Phase : q < r => g[q].state = ph[q].state /\ g[q].gen = ph[q].gen
  <2>1. StandsOn(ph, r, v, asked)
    BY <1>1 DEF Stands
  <2>2. \A q \in Reads(r) : q \in Phase /\ q < r
    BY PlanFacts
  <2>3. \A q \in Reads(r) : g[q].state = ph[q].state /\ g[q].gen = ph[q].gen
    BY <1>1, <2>2
  <2> QED  BY <1>1, <2>1, <2>3 DEF StandsOn
<1>2. CASE StandsOn(g, r, v, {})
  BY <1>2 DEF StandsOn
<1> QED  BY <1>1, <1>2 DEF Upheld

LEMMA ResetRangeGood ==
    ASSUME NEW ph, GoodPhases(ph), NEW t \in Phase, NEW retain \in BOOLEAN, NEW g,
           g = ResetRange(ph, t, retain)
    PROVE  /\ GoodPhases(g) /\ SameNumbers(ph, g)
           /\ \A p \in Phase : p < t => g[p] = ph[p]
           /\ g[t].state = "in_progress"
           /\ \A p \in Phase : p > t => g[p].state = "not_started"
<1> DEFINE no == FALSE
           F(q) == CASE q < t -> ph[q]
                     [] q = t -> ResetPhase(ph[q], "in_progress", no)
                     [] q > t -> ResetPhase(ph[q], "not_started", retain)
<1>1. g = [q \in Phase |-> F(q)] /\ no \in BOOLEAN
  BY DEF ResetRange
<1> HIDE DEF no
<1>2. /\ \A p \in Phase : p < t => F(p) = ph[p]
      /\ F(t) = ResetPhase(ph[t], "in_progress", no)
      /\ \A p \in Phase : p > t => F(p) = ResetPhase(ph[p], "not_started", retain)
  BY DEF Phase
<1> HIDE DEF F
<1>3. /\ g = [p \in Phase |-> g[p]]
      /\ \A p \in Phase : p < t => g[p] = ph[p]
      /\ g[t] = ResetPhase(ph[t], "in_progress", no)
      /\ \A p \in Phase : p > t => g[p] = ResetPhase(ph[p], "not_started", retain)
  BY <1>1, <1>2
<1>5. \A p \in Phase : GoodPhase(ph[p], p) /\ IsPhase(ph[p])
  BY DEF GoodPhases, GoodPhase
<1>6. /\ GoodPhase(g[t], t) /\ g[t].state = "in_progress"
      /\ g[t].gen = ph[t].gen /\ g[t].peak = ph[t].peak
  BY <1>1, <1>3, <1>5, ResetGood, ResetFields
<1>7. ASSUME NEW p \in Phase, p > t
      PROVE  /\ GoodPhase(g[p], p) /\ g[p].state = "not_started"
             /\ g[p].gen = ph[p].gen /\ g[p].peak = ph[p].peak
  BY <1>3, <1>5, <1>7, ResetGood, ResetFields
<1>8. \A p \in Phase : p < t \/ p = t \/ p > t
  BY DEF Phase
<1>9. \A p \in Phase : GoodPhase(g[p], p) /\ g[p].gen = ph[p].gen /\ g[p].peak = ph[p].peak
  BY <1>3, <1>5, <1>6, <1>7, <1>8
<1> QED  BY <1>3, <1>6, <1>7, <1>9 DEF GoodPhases, SameNumbers

LEMMA SkipGood ==
    ASSUME NEW ph, GoodPhases(ph), NEW range, NEW g, g = Skip(ph, range)
    PROVE  /\ GoodPhases(g) /\ SameNumbers(ph, g)
           /\ \A p \in Phase : /\ p \notin range => g[p] = ph[p]
                               /\ g[p].votes = ph[p].votes
                               /\ ph[p].state # "not_started" => g[p] = ph[p]
                               /\ ph[p].state \in Unstarted => g[p].state \in Unstarted
                               /\ p \in range /\ ph[p].state \in Unstarted => g[p].state = "skipped"
<1>1. g = [p \in Phase |-> g[p]]
  BY DEF Skip
<1>2. ASSUME NEW p \in Phase
      PROVE  /\ GoodPhase(g[p], p) /\ g[p].gen = ph[p].gen /\ g[p].peak = ph[p].peak
             /\ p \notin range => g[p] = ph[p]
             /\ g[p].votes = ph[p].votes
             /\ ph[p].state # "not_started" => g[p] = ph[p]
             /\ ph[p].state \in Unstarted => g[p].state \in Unstarted
             /\ p \in range /\ ph[p].state \in Unstarted => g[p].state = "skipped"
  <2>1. GoodPhase(ph[p], p) /\ IsPhase(ph[p])
    BY DEF GoodPhases, GoodPhase
  <2>2. CASE p \in range /\ ph[p].state = "not_started"
    <3>1. g[p] = InState(ph[p], "skipped")
      BY <2>2 DEF Skip, InState
    <3>2. GoodPhase(g[p], p)
      BY <2>1, <2>2, <3>1, StartedGood DEF Unstarted
    <3>3. /\ g[p].state = "skipped" /\ g[p].gen = ph[p].gen /\ g[p].peak = ph[p].peak
          /\ g[p].votes = ph[p].votes
      BY <2>1, <3>1, StateFields
    <3> QED  BY <2>2, <3>2, <3>3 DEF Unstarted
  <2>3. CASE ~(p \in range /\ ph[p].state = "not_started")
    <3>1. g[p] = ph[p]
      BY <2>3 DEF Skip
    <3> QED  BY <2>1, <2>3, <3>1 DEF Unstarted
  <2> QED  BY <2>2, <2>3
<1> QED  BY <1>1, <1>2 DEF GoodPhases, SameNumbers

Started(ph, t) == [ph EXCEPT ![t].state = "in_progress"]

LEMMA StartGood ==
    ASSUME NEW ph, GoodPhases(ph), NEW t \in Phase, ph[t].state \in Unstarted,
           NEW g, g = Started(ph, t)
    PROVE  /\ GoodPhases(g) /\ SameNumbers(ph, g) /\ g[t].state = "in_progress"
           /\ \A p \in Phase : p # t => g[p] = ph[p]
<1>1. g = [ph EXCEPT ![t] = InState(ph[t], "in_progress")]
  BY DEF InState, Started
<1>2. ph = [p \in Phase |-> ph[p]] /\ \A p \in Phase : GoodPhase(ph[p], p)
  BY DEF GoodPhases
<1>3. g[t] = InState(ph[t], "in_progress") /\ g = [p \in Phase |-> g[p]]
  BY <1>1, <1>2
<1>4. \A p \in Phase : p # t => g[p] = ph[p]
  BY <1>1, <1>2
<1>5. GoodPhase(g[t], t)
  BY <1>2, <1>3, StartedGood
<1>6. g[t].state = "in_progress" /\ g[t].gen = ph[t].gen /\ g[t].peak = ph[t].peak
  BY <1>2, <1>3, StateFields DEF GoodPhase
<1> QED  BY <1>2, <1>3, <1>4, <1>5, <1>6 DEF GoodPhases, SameNumbers

-----------------------------------------------------------------------------
\* The ways on from a completed phase.
\* After p come retained approvals, each on what is before it, and then what has not started.
Prepared(g, p) ==
    /\ \A q \in Phase : q > p =>
         \/ g[q].state \in Unstarted
         \/ /\ g[q].state = "approved" /\ g[q].retained = g[q].gen
            /\ \A v \in g[q].votes : StandsOn(g, q, v, {})
    /\ \A q, r \in Phase : q > p /\ q < r /\ g[q].state \in Unstarted => g[r].state \in Unstarted

Moved(ph, p) ==
    /\ GoodPhases(phase') /\ SameNumbers(ph, phase')
    /\ status' \in Status /\ current' \in 0 .. Last /\ pending' \in 0 .. Last
    /\ Ahead(current', phase') /\ Upheld(ph, phase')
    /\ (\A q \in Phase : q <= p => ph[q].state \in Complete) => Orderly(status', current', phase')

LEMMA RetainableFacts ==
    ASSUME NEW ph, NEW p, Retainable(ph, p)
    PROVE  /\ ph[p].gen = ph[p].stale /\ Cardinality(Voters(ph[p].kept)) >= Minimum(p)
           /\ \A v \in ph[p].kept : v.over = Upstream(ph, p)
BY DEF Retainable

LEMMA UpstreamStands ==
    ASSUME plan \in Plans, NEW h, NEW g, NEW r \in Phase, NEW v, v.over = Upstream(h, r),
           \A q \in Phase : q < r => h[q].state = g[q].state /\ h[q].gen = g[q].gen
    PROVE  StandsOn(g, r, v, {})
<1> SUFFICES ASSUME NEW q \in Reads(r)
             PROVE  v.over[q] = [state |-> g[q].state, gen |-> g[q].gen]
  BY DEF StandsOn
<1>1. q \in Phase /\ q < r
  BY PlanFacts
<1>2. q \in Producers(r)
  BY DEF Producers
<1>3. Upstream(h, r)[q] = [state |-> h[q].state, gen |-> h[q].gen]
  BY <1>2 DEF Upstream
<1> QED  BY <1>1, <1>3

LEMMA RetainUnchangedGood ==
    ASSUME plan \in Plans, NEW ph, GoodPhases(ph), NEW p \in Phase,
           \A q \in Phase : q > p => ph[q].state \in Unstarted,
           NEW g, g = RetainUnchanged(ph, p)
    PROVE  /\ GoodPhases(g) /\ SameNumbers(ph, g) /\ Prepared(g, p)
           /\ \A q \in Phase : q <= p => g[q] = ph[q]
<1> DEFINE H(m) == Retain(ph, p + 1 .. m - 1)
           S == {n \in p + 1 .. Last : \A m \in p + 1 .. n : Retainable(H(m), m)}
<1>1. g = Retain(ph, S)
  BY DEF RetainUnchanged
<1>2. \A n \in S : n \in Phase /\ n > p /\ Retainable(H(n), n) /\ \A m \in p + 1 .. n : m \in S
  BY PlanFacts DEF Phase
<1>3. \A n, q \in Phase : H(n)[q] = IF q > p /\ q < n THEN Retained(ph[q]) ELSE ph[q]
  BY PlanFacts DEF Retain, Phase
<1> HIDE DEF S, H
<1>4. g = [q \in Phase |-> g[q]] /\ \A q \in Phase : g[q] = IF q \in S THEN Retained(ph[q]) ELSE ph[q]
  BY <1>1 DEF Retain
<1>5. \A q \in Phase : GoodPhase(ph[q], q) /\ IsPhase(ph[q])
  BY DEF GoodPhases, GoodPhase
<1>6. ASSUME NEW n \in S
      PROVE  /\ n \in Phase /\ n > p /\ g[n] = Retained(ph[n])
             /\ ph[n].gen = ph[n].stale /\ Cardinality(Voters(ph[n].kept)) >= Minimum(n)
             /\ \A v \in ph[n].kept : v.over = Upstream(H(n), n)
             /\ \A q \in Phase : q < n => H(n)[q] = g[q]
  <2>1. n \in Phase /\ n > p /\ Retainable(H(n), n)
    BY <1>2
  <2>2. H(n)[n] = ph[n]
    BY <1>3, <2>1 DEF Phase
  <2>3. ASSUME NEW q \in Phase, q < n
        PROVE  H(n)[q] = g[q]
    <3>1. CASE q > p
      <4>1. q \in S
        BY <1>2, <2>1, <2>3, <3>1 DEF Phase
      <4> QED  BY <1>3, <1>4, <2>1, <2>3, <3>1, <4>1
    <3>2. CASE ~(q > p)
      <4>1. q \notin S
        BY <1>2, <3>2
      <4> QED  BY <1>3, <1>4, <2>1, <3>2, <4>1
    <3> QED  BY <3>1, <3>2
  <2> QED  BY <1>4, <2>1, <2>2, <2>3, RetainableFacts
<1>7. ASSUME NEW n \in S
      PROVE  /\ GoodPhase(g[n], n) /\ g[n].gen = ph[n].gen /\ g[n].peak = ph[n].peak
             /\ g[n].state = "approved" /\ g[n].retained = g[n].gen /\ g[n].votes = ph[n].kept
  BY <1>5, <1>6, RetainedGood, RetainedFields
<1>8. ASSUME NEW n \in S, NEW v \in g[n].votes
      PROVE  StandsOn(g, n, v, {})
  <2>1. v.over = Upstream(H(n), n) /\ n \in Phase
    BY <1>6, <1>7
  <2>2. \A q \in Phase : q < n => H(n)[q].state = g[q].state /\ H(n)[q].gen = g[q].gen
    BY <1>6
  <2> QED  BY <2>1, <2>2, UpstreamStands
<1>9. \A q \in Phase : GoodPhase(g[q], q) /\ g[q].gen = ph[q].gen /\ g[q].peak = ph[q].peak
  BY <1>4, <1>5, <1>7
<1>10. \A q \in Phase : q <= p => g[q] = ph[q]
  BY <1>2, <1>4 DEF Phase
<1>11. Prepared(g, p)
  <2>1. \A q \in Phase : q > p /\ q \notin S => g[q].state \in Unstarted
    BY <1>4
  <2>2. \A q \in S : g[q].state \notin Unstarted
    BY <1>7 DEF Unstarted
  <2>3. \A q, r \in Phase : q > p /\ q < r /\ r \in S => q \in S
    BY <1>2 DEF Phase
  <2> QED  BY <1>7, <1>8, <2>1, <2>2, <2>3, PlanFacts DEF Prepared, Phase
<1> QED  BY <1>4, <1>9, <1>10, <1>11 DEF GoodPhases, SameNumbers

LEMMA OrderedAt ==
    ASSUME plan \in Plans, NEW s \in Status, NEW c \in Phase, NEW ph, s # "closed",
           \A q \in Phase : q < c => ph[q].state \in Complete,
           \A q \in Phase : q > c => ph[q].state \in Unstarted
    PROVE  Orderly(s, c, ph)
<1>1. \A p, q \in Phase : p < q => p < c \/ q > c
  BY PlanFacts DEF Phase
<1> QED  BY <1>1 DEF Orderly

\* Phase t starts, or the Story closes.
LEMMA EnterMoves ==
    ASSUME plan \in Plans, NEW p \in Phase, NEW ph, NEW g, GoodPhases(g), SameNumbers(ph, g),
           NEW t \in 0 .. Last, t = 0 \/ t > p, Enter(g, t),
           \A q \in Phase : q <= p => g[q] = ph[q],
           \A q \in Phase : q > p /\ g[q].state \in {"approved", "awaiting"} =>
               \A v \in g[q].votes : StandsOn(g, q, v, {}),
           \A q \in Phase : q > p /\ (t = 0 \/ q < t) => g[q].state \in Complete,
           \A q \in Phase : t # 0 /\ q >= t => g[q].state \in Unstarted
    PROVE  Moved(ph, p)
<1>1. CASE t = 0
  <2>1. phase' = g /\ current' = 0 /\ status' = "closed" /\ pending' = 0
    BY <1>1 DEF Enter
  <2>2. Upheld(ph, phase')
    BY <2>1, PlanFacts DEF Upheld, Phase
  <2>3. (\A q \in Phase : q <= p => ph[q].state \in Complete) => \A q \in Phase : g[q].state \in Complete
    BY <1>1, PlanFacts DEF Phase
  <2> QED  BY <2>1, <2>2, <2>3, PlanFacts DEF Moved, Ahead, Status, Orderly
<1>2. CASE t # 0
  <2>1. /\ phase' = Started(g, t) /\ current' = t
        /\ status' = "in_progress" /\ pending' = 0 /\ t \in Phase
    BY <1>2, PlanFacts DEF Enter, Phase, Started
  <2>2. g[t].state \in Unstarted
    BY <1>2, <2>1, PlanFacts DEF Phase
  <2>3. /\ GoodPhases(phase') /\ SameNumbers(g, phase') /\ phase'[t].state = "in_progress"
        /\ \A q \in Phase : q # t => phase'[q] = g[q]
    BY <2>1, <2>2, StartGood
  <2>4. SameNumbers(ph, phase')
    BY <2>3 DEF SameNumbers
  <2>5. \A q \in Phase : q > t => phase'[q].state \in Unstarted
    BY <1>2, <2>1, <2>3, PlanFacts DEF Phase
  <2>6. Upheld(ph, phase')
    <3> SUFFICES ASSUME NEW r \in Phase, phase'[r].state \in {"approved", "awaiting"},
                        NEW v \in phase'[r].votes
                 PROVE  \/ StandsOn(phase', r, v, {})
                        \/ /\ ph[r].state \in {"approved", "awaiting"} /\ v \in ph[r].votes
                           /\ phase'[r].gen = ph[r].gen
                           /\ \A q \in Phase : q < r =>
                                phase'[q].state = ph[q].state /\ phase'[q].gen = ph[q].gen
      BY DEF Upheld
    <3>1. r < t
      BY <2>1, <2>3, <2>5, PlanFacts DEF Phase, Unstarted
    <3>2. phase'[r] = g[r] /\ \A q \in Phase : q < r => phase'[q] = g[q]
      BY <2>1, <2>3, <3>1, PlanFacts DEF Phase
    <3>3. CASE r <= p
      BY <3>2, <3>3, PlanFacts DEF Phase
    <3>4. CASE r > p
      <4>1. \A q \in Reads(r) : q \in Phase /\ q < r
        BY PlanFacts
      <4>2. StandsOn(g, r, v, {})
        BY <3>2, <3>4
      <4>3. StandsOn(phase', r, v, {})
        BY <3>2, <4>1, <4>2 DEF StandsOn
      <4> QED  BY <4>3
    <3> QED  BY <3>3, <3>4, PlanFacts DEF Phase
  <2>7. (\A q \in Phase : q <= p => ph[q].state \in Complete)
          => \A q \in Phase : q < t => phase'[q].state \in Complete
    BY <1>2, <2>1, <2>3, PlanFacts DEF Phase
  <2>8. (\A q \in Phase : q <= p => ph[q].state \in Complete) => Orderly(status', current', phase')
    BY <2>1, <2>5, <2>7, OrderedAt DEF Status
  <2>9. Ahead(current', phase')
    BY <2>1, <2>5 DEF Ahead
  <2> QED  BY <2>1, <2>3, <2>4, <2>6, <2>8, <2>9, PlanFacts DEF Moved, Status, Phase
<1> QED  BY <1>1, <1>2

LEMMA ContinueMoves ==
    ASSUME plan \in Plans, NEW p \in Phase, NEW ph, NEW g, GoodPhases(g), SameNumbers(ph, g),
           Prepared(g, p), \A q \in Phase : q <= p => g[q] = ph[q], Continue(g, p)
    PROVE  Moved(ph, p)
<1>1. \A q \in Phase : q > p => (g[q].state \in Unstarted <=> q \in Later(g, p))
  <2>1. \A q \in Phase : q > p => q \in p + 1 .. Last
    BY PlanFacts DEF Phase
  <2> QED  BY <2>1 DEF Prepared, Later, Unstarted
<1>2. Later(g, p) \subseteq {q \in Phase : q > p}
  BY PlanFacts DEF Later, Phase
<1>3. \A q \in Phase : q > p /\ q \notin Later(g, p) => g[q].state \in Complete
  BY <1>1 DEF Prepared, Complete
<1>4. \A q \in Phase : q > p /\ g[q].state \in {"approved", "awaiting"} =>
          \A v \in g[q].votes : StandsOn(g, q, v, {})
  BY DEF Prepared, Unstarted
<1>5. CASE Later(g, p) = {}
  <2>1. Enter(g, 0)
    BY <1>5 DEF Continue
  <2>2. 0 \in 0 .. Last
    BY PlanFacts
  <2>3. \A q \in Phase : q > p => g[q].state \in Complete
    BY <1>3, <1>5
  <2> QED  BY <1>4, <2>1, <2>2, <2>3, EnterMoves
<1>6. CASE Later(g, p) # {}
  <2>1. PICK t \in Later(g, p) : (\A q \in Later(g, p) : t <= q) /\ Enter(g, t)
    BY <1>6 DEF Continue
  <2>2. t \in Phase /\ t > p /\ t # 0 /\ t \in 0 .. Last
    BY <1>2, PlanFacts DEF Phase
  <2>3. \A q \in Phase : q > p /\ q < t => g[q].state \in Complete
    BY <1>3, <2>1, <2>2, PlanFacts DEF Phase
  <2>4. \A q \in Phase : q >= t => g[q].state \in Unstarted
    BY <1>1, <2>2, PlanFacts DEF Phase, Prepared
  <2> QED  BY <1>4, <2>1, <2>2, <2>3, <2>4, EnterMoves
<1> QED  BY <1>5, <1>6

LEMMA JumpMoves ==
    ASSUME plan \in Plans, NEW p \in Phase, NEW ph, GoodPhases(ph),
           \A q \in Phase : q > p => ph[q].state \in Unstarted,
           NEW t \in 0 .. Last, t = 0 \/ t > p, Jump(ph, p, t)
    PROVE  Moved(ph, p)
<1> DEFINE range == p + 1 .. (IF t = 0 THEN Last ELSE t - 1)
           g == Skip(ph, range)
<1>1. \A q \in Phase : q \in range <=> q > p /\ (t = 0 \/ q < t)
  BY PlanFacts DEF Phase
<1>2. Enter(g, t)
  BY DEF Jump
<1> HIDE DEF range
<1>3. /\ GoodPhases(g) /\ SameNumbers(ph, g)
      /\ \A q \in Phase : /\ q \notin range => g[q] = ph[q]
                          /\ ph[q].state \in Unstarted => g[q].state \in Unstarted
                          /\ q \in range /\ ph[q].state \in Unstarted => g[q].state = "skipped"
  BY SkipGood
<1> HIDE DEF g
<1>4. \A q \in Phase : q <= p => g[q] = ph[q]
  BY <1>1, <1>3, PlanFacts DEF Phase
<1>5. \A q \in Phase : q > p => g[q].state \in Unstarted
  BY <1>3
<1>6. \A q \in Phase : q > p /\ (t = 0 \/ q < t) => g[q].state \in Complete
  BY <1>1, <1>3 DEF Complete
<1>7. \A q \in Phase : t # 0 /\ q >= t => g[q].state \in Unstarted
  BY <1>5, PlanFacts DEF Phase
<1>8. \A q \in Phase : q > p /\ g[q].state \in {"approved", "awaiting"} =>
          \A v \in g[q].votes : StandsOn(g, q, v, {})
  BY <1>5 DEF Unstarted
<1> QED  BY <1>2, <1>3, <1>4, <1>6, <1>7, <1>8, EnterMoves

LEMMA SendBackMoves ==
    ASSUME plan \in Plans, NEW ph, GoodPhases(ph), NEW t \in Phase, NEW retain \in BOOLEAN,
           pending \in 0 .. Last, SendBack(ph, t, retain)
    PROVE  Moved(ph, t - 1)
<1>1. /\ phase' = ResetRange(ph, t, retain) /\ current' = t /\ status' = "in_progress"
      /\ pending' \in 0 .. Last
  BY PlanFacts DEF SendBack
<1>2. /\ GoodPhases(phase') /\ SameNumbers(ph, phase')
      /\ \A p \in Phase : p < t => phase'[p] = ph[p]
      /\ phase'[t].state = "in_progress"
      /\ \A p \in Phase : p > t => phase'[p].state = "not_started"
  BY <1>1, ResetRangeGood
<1>3. \A p \in Phase : p > t => phase'[p].state \in Unstarted
  BY <1>2 DEF Unstarted
<1>4. Upheld(ph, phase')
  <2>1. \A r \in Phase : phase'[r].state \in {"approved", "awaiting"} => r < t
    BY <1>2, PlanFacts DEF Phase
  <2>2. \A r, q \in Phase : q < r /\ r < t => q < t
    BY PlanFacts DEF Phase
  <2> QED  BY <1>2, <2>1, <2>2 DEF Upheld
<1>5. (\A q \in Phase : q <= t - 1 => ph[q].state \in Complete) => Orderly(status', current', phase')
  <2>1. \A q \in Phase : q < t => q <= t - 1
    BY PlanFacts DEF Phase
  <2> QED  BY <1>1, <1>2, <1>3, <2>1, OrderedAt DEF Status
<1> QED  BY <1>1, <1>2, <1>3, <1>4, <1>5, PlanFacts DEF Moved, Ahead, Status, Phase

-----------------------------------------------------------------------------
\* The change requests.
Inherited(open) ==
    \A r \in open : GoodRequest(r) /\ r.checkpoint \in Checkpoints \cup {NoCheckpoint, Checkpoint}

LEMMA RequestsInherited ==
    ASSUME \A r \in requests : GoodRequest(r)
    PROVE  Inherited(requests)
BY DEF Inherited, Checkpoints

LEMMA OpenInherited ==
    ASSUME NEW p, \A r \in requests : GoodRequest(r)
    PROVE  Inherited(Open(p))
<1> SUFFICES ASSUME NEW s \in Open(p)
             PROVE  GoodRequest(s) /\ s.checkpoint \in Checkpoints \cup {NoCheckpoint}
  BY DEF Inherited
<1>1. PICK r \in requests : \E n : s = [r EXCEPT !.age = n]
  BY DEF Open
<1>2. IsRequest(s) /\ s.target = r.target /\ s.checkpoint = r.checkpoint
  BY <1>1 DEF GoodRequest, IsRequest
<1> QED  BY <1>2 DEF GoodRequest, Checkpoints

LEMMA WithdrawnInherited ==
    ASSUME NEW q, \A r \in requests : GoodRequest(r)
    PROVE  Inherited(Withdrawn(q))
<1> SUFFICES ASSUME NEW s \in Withdrawn(q)
             PROVE  GoodRequest(s) /\ s.checkpoint \in Checkpoints \cup {NoCheckpoint}
  BY DEF Inherited
<1>1. PICK r \in requests : \E n : s = [r EXCEPT !.since = n]
  BY DEF Withdrawn
<1>2. IsRequest(s) /\ s.target = r.target /\ s.checkpoint = r.checkpoint
  BY <1>1 DEF GoodRequest, IsRequest
<1> QED  BY <1>2 DEF GoodRequest, Checkpoints

LEMMA OpenedInherited ==
    ASSUME NEW open, Inherited(open), NEW t \in Phase, NEW c \in {NoCheckpoint, Checkpoint},
           c # NoCheckpoint => /\ GoodStory(status, current, phase, bytes)
                               /\ current # 0 => t <= current
    PROVE  Inherited(Opened(open, t, c))
<1> DEFINE new == [age |-> Cardinality(open) + 1, target |-> t, checkpoint |-> c, since |-> {}]
<1>1. IsRequest(new) /\ new.target = t /\ new.checkpoint = c
  BY DEF IsRequest
<1>2. Opened(open, t, c) = open \cup {new}
  BY DEF Opened
<1> HIDE DEF new
<1>3. c # NoCheckpoint => /\ c.status = status /\ c.current = current
                          /\ c.phase = phase /\ c.bytes = bytes
  BY DEF Checkpoint
<1>4. GoodRequest(new)
  BY <1>1, <1>3 DEF GoodRequest
<1> QED  BY <1>1, <1>2, <1>4 DEF Inherited

-----------------------------------------------------------------------------
\* What every command achieves, and why that keeps the invariant.
StepGood ==
    /\ GoodPhases(phase') /\ status' \in Status /\ current' \in 0 .. Last /\ Ahead(current', phase')
    /\ pending' \in 0 .. Last /\ rounds' \in [Phase -> Nat]
    /\ bytes' = [p \in Phase |-> bytes'[p]] /\ \A p \in Phase : bytes'[p] \in 0 .. MaxGen
    /\ made' = [p \in Phase |-> made'[p]]
    /\ \A p \in Phase : made'[p] = Used(phase'[p]) /\ made[p] <= made'[p]
    /\ Inherited(requests') /\ listed \subseteq listed' /\ \A r \in listed' : r.phase \in Phase
    /\ ~astray' => ~astray /\ Orderly(status', current', phase') /\ Stands(phase', listed')

LEMMA UsedType ==
    ASSUME plan \in Plans, NEW p \in Phase, NEW f, GoodPhase(f, p)
    PROVE  Used(f) \in 0 .. MaxGen
BY PlanFacts DEF GoodPhase, Used, Max2

\* The next number of a phase is above all it has used.
LEMMA NextGenType ==
    ASSUME plan \in Plans, NEW p \in Phase, NEW f, GoodPhase(f, p)
    PROVE  /\ NextGen(f) \in 0 .. MaxGen + 1 /\ NextGen(f) = Used(f) + 1
           /\ NextGen(f) > f.peak /\ NextGen(f) > f.gen
<1>1. f.gen \in 0 .. MaxGen /\ f.peak \in 0 .. MaxGen /\ MaxGen \in Nat
  BY PlanFacts DEF GoodPhase
<1> QED  BY <1>1 DEF NextGen, Used, Max2

LEMMA StepGoodInv ==
    ASSUME LifecycleInv, plan' = plan, StepGood
    PROVE  LifecycleInv'
<1>1. /\ plan \in Plans /\ \A p \in Phase : GoodPhase(phase[p], p)
      /\ \A p \in Phase : made[p] = Used(phase[p]) /\ made'[p] \in 0 .. MaxGen /\ made[p] \in 0 .. MaxGen
      /\ \A p \in Phase : made[p] <= made'[p]
  <2>1. plan \in Plans /\ \A p \in Phase : GoodPhase(phase[p], p)
    BY DEF LifecycleInv, Shape, GoodStory
  <2>2. \A p \in Phase : made[p] = Used(phase[p])
    BY DEF LifecycleInv, AllocatedOnce, Used
  <2>3. \A p \in Phase : GoodPhase(phase'[p], p) /\ made'[p] = Used(phase'[p]) /\ made[p] <= made'[p]
    BY DEF StepGood, GoodPhases
  <2> QED  BY <2>1, <2>2, <2>3, UsedType
<1>2. Shape'
  BY <1>1 DEF StepGood, Shape, GoodPhases
<1>3. GoodStory(status, current, phase, bytes)'
  BY DEF StepGood, GoodPhases, GoodStory, GoodPhase, Sound, Minimum, Ahead
<1>4. AllocatedOnce'
  BY DEF StepGood, AllocatedOnce, Used
<1>5. (\A r \in requests : GoodRequest(r))'
  <2>1. \A r \in requests' : GoodRequest(r)
    BY DEF StepGood, Inherited
  <2>2. \A p \in Phase : \A f : Sound(f, p)' <=> Sound(f, p)
    BY DEF Sound, Minimum
  <2>3. \A p \in Phase : \A f : GoodPhase(f, p)' <=> GoodPhase(f, p)
    BY <2>2 DEF GoodPhase
  <2>4. \A r : GoodRequest(r) => GoodRequest(r)'
    BY <2>3 DEF GoodRequest, GoodStory
  <2> QED  BY <2>1, <2>4
<1>6. Checkpoints' \subseteq Checkpoints \cup {Checkpoint}
  BY DEF StepGood, Inherited, Checkpoints
<1>7. (\A c \in Checkpoints : Known(c.phase, made))'
  <2> SUFFICES ASSUME NEW c \in Checkpoints', NEW p \in Phase
               PROVE  Used(c.phase[p]) <= made'[p]
    BY DEF Known
  <2>1. CASE c \in Checkpoints
    <3>1. Used(c.phase[p]) <= made[p]
      BY <2>1 DEF LifecycleInv, Known
    <3>2. Used(c.phase[p]) \in 0 .. MaxGen
      <4>1. GoodPhase(c.phase[p], p)
        BY <2>1 DEF LifecycleInv, Checkpoints, GoodRequest, GoodStory
      <4> QED  BY <1>1, <4>1, UsedType
    <3> QED  BY <1>1, <3>1, <3>2, PlanFacts
  <2>2. CASE c = Checkpoint
    <3>1. c.phase = phase
      BY <2>2 DEF Checkpoint
    <3> QED  BY <1>1, <3>1
  <2> QED  BY <1>6, <2>1, <2>2
<1>8. ASSUME ~astray'
      PROVE  (/\ Orderly(status, current, phase) /\ Stands(phase, listed)
              /\ \A c \in Checkpoints : Orderly(c.status, c.current, c.phase) /\ Stands(c.phase, listed))'
  <2>1. ~astray /\ Orderly(status', current', phase') /\ Stands(phase', listed')
    BY <1>8 DEF StepGood
  <2>2. \A ph : Stands(ph, listed) => Stands(ph, listed')
    BY DEF StepGood, Stands, StandsOn
  <2>3. \A c \in Checkpoints : Orderly(c.status, c.current, c.phase) /\ Stands(c.phase, listed)
    BY <2>1 DEF LifecycleInv
  <2>4. Orderly(Checkpoint.status, Checkpoint.current, Checkpoint.phase) /\ Stands(Checkpoint.phase, listed)
    BY <2>1 DEF LifecycleInv, Checkpoint
  <2>5. \A c \in Checkpoints' : Orderly(c.status, c.current, c.phase) /\ Stands(c.phase, listed')
    BY <1>6, <2>2, <2>3, <2>4
  <2>6. Orderly(status, current, phase)' /\ Stands(phase, listed)'
    BY <2>1 DEF Orderly, Stands, StandsOn, Reads
  <2>7. ASSUME NEW c \in Checkpoints'
        PROVE  (Orderly(c.status, c.current, c.phase) /\ Stands(c.phase, listed))'
    <3>1. Orderly(c.status, c.current, c.phase) /\ Stands(c.phase, listed')
      BY <2>5
    <3>2. Orderly(c.status, c.current, c.phase)'
      BY <3>1 DEF Orderly
    <3>3. Stands(c.phase, listed)'
      BY <3>1 DEF Stands, StandsOn, Reads
    <3> QED  BY <3>2, <3>3
  <2> QED  BY <2>6, <2>7
<1> QED  BY <1>2, <1>3, <1>4, <1>5, <1>7, <1>8 DEF LifecycleInv

LEMMA InvFacts ==
    ASSUME LifecycleInv
    PROVE  /\ plan \in Plans /\ GoodPhases(phase) /\ status \in Status /\ current \in 0 .. Last
           /\ pending \in 0 .. Last /\ rounds \in [Phase -> Nat] /\ Ahead(current, phase)
           /\ bytes = [p \in Phase |-> bytes[p]] /\ \A p \in Phase : bytes[p] \in 0 .. MaxGen
           /\ made = [p \in Phase |-> made[p]]
           /\ \A p \in Phase : made[p] = Used(phase[p]) /\ made[p] \in 0 .. MaxGen
           /\ GoodStory(status, current, phase, bytes)
           /\ \A r \in requests : GoodRequest(r)
           /\ \A r \in listed : r.phase \in Phase
           /\ ~astray => Orderly(status, current, phase) /\ Stands(phase, listed)
<1>1. plan \in Plans /\ \A p \in Phase : GoodPhase(phase[p], p)
  BY DEF LifecycleInv, Shape, GoodStory
<1>2. \A p \in Phase : made[p] = Used(phase[p])
  BY DEF LifecycleInv, AllocatedOnce, Used
<1>3. \A p \in Phase : made[p] \in 0 .. MaxGen
  BY <1>1, <1>2, UsedType
<1>4. GoodPhases(phase)
  BY <1>1 DEF LifecycleInv, Shape, GoodPhases
<1> QED  BY <1>1, <1>2, <1>3, <1>4 DEF LifecycleInv, Shape, GoodStory

LEMMA QuietGood ==
    ASSUME LifecycleInv, Inherited(requests'),
           UNCHANGED <<status, current, phase, pending, rounds, files, listed, astray>>
    PROVE  StepGood
<1>1. /\ UNCHANGED <<status, current, phase, pending, rounds>> /\ bytes' = bytes /\ made' = made
      /\ listed' = listed /\ astray' = astray
  BY DEF files
<1>2. \A p \in Phase : made'[p] = Used(phase'[p]) /\ made[p] <= made'[p]
  BY <1>1, InvFacts, PlanFacts
<1> QED  BY <1>1, <1>2, InvFacts DEF StepGood

LEMMA MovedGood ==
    ASSUME LifecycleInv, NEW p \in Int, NEW ph, SameNumbers(phase, ph), Moved(ph, p),
           rounds' \in [Phase -> Nat], Inherited(requests'), UNCHANGED <<files, listed, astray>>,
           ~astray => Stands(ph, listed) /\ \A q \in Phase : q <= p => ph[q].state \in Complete
    PROVE  StepGood
<1>1. UNCHANGED <<bytes, made, listed, astray>>
  BY DEF files
<1>2. ~astray' => Orderly(status', current', phase') /\ Stands(phase', listed')
  BY <1>1, InvFacts, UpheldStands DEF Moved
<1>3. \A q \in Phase : made'[q] = Used(phase'[q]) /\ made[q] <= made'[q]
  <2>1. SameNumbers(ph, phase')
    BY DEF Moved
  <2> QED  BY <1>1, <2>1, InvFacts, PlanFacts DEF SameNumbers, Used
<1> QED  BY <1>1, <1>2, <1>3, InvFacts DEF StepGood, Moved

LEMMA LoopMoves ==
    ASSUME LifecycleInv, NEW ph, GoodPhases(ph), NEW p \in Phase, NEW t \in 1 .. p, NEW open,
           Inherited(open), Loop(ph, p, t, open)
    PROVE  Moved(ph, t - 1) /\ rounds' \in [Phase -> Nat] /\ Inherited(requests')
<1>1. t \in Phase /\ plan \in Plans /\ pending \in 0 .. Last
  BY InvFacts, PlanFacts DEF Phase
<1>2. /\ SendBack(ph, t, FALSE) /\ rounds' = [rounds EXCEPT ![p] = @ + 1]
      /\ requests' = Opened(open, t, NoCheckpoint)
  BY DEF Loop
<1>3. Moved(ph, t - 1)
  BY <1>1, <1>2, SendBackMoves
<1>4. rounds' \in [Phase -> Nat]
  BY <1>2, InvFacts
<1>5. Inherited(requests')
  BY <1>1, <1>2, OpenedInherited
<1> QED  BY <1>3, <1>4, <1>5

LEMMA StaysMoves ==
    ASSUME plan \in Plans, NEW p \in Phase, NEW ph, GoodPhases(ph),
           \A q \in Phase : q > p => ph[q].state \in Unstarted,
           phase' = ph, status' = "in_progress", current' = p, pending' \in 0 .. Last
    PROVE  Moved(ph, p)
<1>1. SameNumbers(ph, phase') /\ Upheld(ph, phase')
  BY DEF SameNumbers, Upheld
<1>2. Ahead(p, ph) /\ p \in 0 .. Last
  BY PlanFacts DEF Ahead, Phase
<1>3. (\A q \in Phase : q <= p => ph[q].state \in Complete) => Orderly("in_progress", p, ph)
  <2>1. \A q \in Phase : q < p => q <= p
    BY PlanFacts DEF Phase
  <2> QED  BY <2>1, OrderedAt DEF Status
<1> QED  BY <1>1, <1>2, <1>3 DEF Moved, Status

\* How far the order holds before the move: up to the target when it is a loop.
LEMMA MovedFurther ==
    ASSUME plan \in Plans, NEW p \in Int, NEW t \in Int, t <= p, NEW ph, Moved(ph, t)
    PROVE  Moved(ph, p)
<1>1. \A q \in Phase : q <= t => q <= p
  BY PlanFacts DEF Phase
<1> QED  BY <1>1 DEF Moved

LEMMA CompletedMoves ==
    ASSUME LifecycleInv, NEW p \in Phase, NEW ph, GoodPhases(ph), Completed(ph, p),
           \A q \in Phase : q > p => ph[q].state \in Unstarted,
           status = "in_progress", current = p
    PROVE  Moved(ph, p) /\ rounds' \in [Phase -> Nat] /\ Inherited(requests')
<1>1. plan \in Plans /\ rounds \in [Phase -> Nat] /\ Inherited(Open(p)) /\ p \in Int /\ p \in 0 .. Last
  BY InvFacts, OpenInherited, PlanFacts DEF Phase
<1>2. CASE /\ Continue(RetainUnchanged(ph, p), p) /\ requests' = Open(p) /\ UNCHANGED rounds
  BY <1>1, <1>2, RetainUnchangedGood, ContinueMoves
<1>3. CASE /\ pending' = p /\ phase' = ph /\ requests' = Open(p)
           /\ UNCHANGED <<status, current, rounds>>
  BY <1>1, <1>3, StaysMoves
<1>4. ASSUME NEW t \in Routes(p), t = 0 \/ t > p + 1, Jump(ph, p, t), requests' = Open(p), UNCHANGED rounds
      PROVE  Moved(ph, p) /\ rounds' \in [Phase -> Nat] /\ Inherited(requests')
  <2>1. t \in 0 .. Last /\ (t = 0 \/ t > p)
    BY <1>1, <1>4, PlanFacts
  <2> QED  BY <1>1, <1>4, <2>1, JumpMoves
<1>5. ASSUME NEW t \in 1 .. p, Loop(ph, p, t, Open(p))
      PROVE  Moved(ph, p) /\ rounds' \in [Phase -> Nat] /\ Inherited(requests')
  <2>1. Moved(ph, t - 1) /\ rounds' \in [Phase -> Nat] /\ Inherited(requests')
    BY <1>1, <1>5, LoopMoves
  <2>2. t - 1 \in Int /\ t - 1 <= p
    BY <1>1
  <2> QED  BY <1>1, <2>1, <2>2, MovedFurther
<1> HIDE DEF Continue, RetainUnchanged, Jump, Loop, Open
<1> QED  BY <1>2, <1>3, <1>4, <1>5 DEF Completed

-----------------------------------------------------------------------------
\* One field of one phase.
WithState(ph, p, x) == [ph EXCEPT ![p].state = x]
WithGen(ph, p, x) == [ph EXCEPT ![p].gen = x]
WithVotes(ph, p, x) == [ph EXCEPT ![p].votes = x]
WithRead(ph, p, x) == [ph EXCEPT ![p].read = x]

Others(ph, g, p) ==
    g = [q \in Phase |-> g[q]] /\ IsPhase(g[p]) /\ \A q \in Phase : q # p => g[q] = ph[q]

LEMMA WithFields ==
    ASSUME NEW ph, ph = [q \in Phase |-> ph[q]], NEW p \in Phase, IsPhase(ph[p]), NEW x
    PROVE  /\ LET g == WithState(ph, p, x) IN
                /\ Others(ph, g, p) /\ g[p].state = x /\ g[p].gen = ph[p].gen /\ g[p].peak = ph[p].peak
                /\ g[p].votes = ph[p].votes /\ g[p].stale = ph[p].stale /\ g[p].kept = ph[p].kept
                /\ g[p].read = ph[p].read
           /\ LET g == WithGen(ph, p, x) IN
                /\ Others(ph, g, p) /\ g[p].state = ph[p].state /\ g[p].gen = x /\ g[p].peak = ph[p].peak
                /\ g[p].votes = ph[p].votes /\ g[p].stale = ph[p].stale /\ g[p].kept = ph[p].kept
                /\ g[p].read = ph[p].read
           /\ LET g == WithVotes(ph, p, x) IN
                /\ Others(ph, g, p) /\ g[p].state = ph[p].state /\ g[p].gen = ph[p].gen
                /\ g[p].peak = ph[p].peak /\ g[p].votes = x /\ g[p].stale = ph[p].stale
                /\ g[p].kept = ph[p].kept /\ g[p].read = ph[p].read
           /\ LET g == WithRead(ph, p, x) IN
                /\ Others(ph, g, p) /\ g[p].state = ph[p].state /\ g[p].gen = ph[p].gen
                /\ g[p].peak = ph[p].peak /\ g[p].votes = ph[p].votes /\ g[p].stale = ph[p].stale
                /\ g[p].kept = ph[p].kept /\ g[p].read = x
<1> DEFINE f == ph[p]
           s == [f EXCEPT !.state = x]
           n == [f EXCEPT !.gen = x]
           v == [f EXCEPT !.votes = x]
           r == [f EXCEPT !.read = x]
<1>1. /\ WithState(ph, p, x) = [ph EXCEPT ![p] = s] /\ WithGen(ph, p, x) = [ph EXCEPT ![p] = n]
      /\ WithVotes(ph, p, x) = [ph EXCEPT ![p] = v] /\ WithRead(ph, p, x) = [ph EXCEPT ![p] = r]
  BY DEF WithState, WithGen, WithVotes, WithRead
<1> HIDE DEF f
<1>2. IsPhase(f)
  BY DEF f
<1>3. /\ IsPhase(s) /\ s.state = x /\ s.gen = f.gen /\ s.peak = f.peak /\ s.votes = f.votes
      /\ s.stale = f.stale /\ s.kept = f.kept /\ s.read = f.read
  BY <1>2 DEF IsPhase
<1>4. /\ IsPhase(n) /\ n.state = f.state /\ n.gen = x /\ n.peak = f.peak /\ n.votes = f.votes
      /\ n.stale = f.stale /\ n.kept = f.kept /\ n.read = f.read
  BY <1>2 DEF IsPhase
<1>5. /\ IsPhase(v) /\ v.state = f.state /\ v.gen = f.gen /\ v.peak = f.peak /\ v.votes = x
      /\ v.stale = f.stale /\ v.kept = f.kept /\ v.read = f.read
  BY <1>2 DEF IsPhase
<1>6. /\ IsPhase(r) /\ r.state = f.state /\ r.gen = f.gen /\ r.peak = f.peak /\ r.votes = f.votes
      /\ r.stale = f.stale /\ r.kept = f.kept /\ r.read = x
  BY <1>2 DEF IsPhase
<1> HIDE DEF s, n, v, r
<1>7. ASSUME NEW y, NEW g, g = [ph EXCEPT ![p] = y], IsPhase(y)
      PROVE  Others(ph, g, p) /\ g[p] = y
  BY <1>7 DEF Others
<1> QED  BY <1>1, <1>3, <1>4, <1>5, <1>6, <1>7 DEF f

LEMMA PublishGood ==
    ASSUME LifecycleInv, NEW p \in Phase, Publish(p)
    PROVE  StepGood
<1> DEFINE gen == NextGen(phase[p])
           read == InputRecord(phase, p, gen)
           g1 == WithGen(phase, p, gen)
<1>1. /\ status = "in_progress" /\ current = p /\ phase[p].state = "in_progress" /\ gen <= MaxGen
      /\ phase' = WithRead(g1, p, read) /\ bytes' = [bytes EXCEPT ![p] = gen]
      /\ made' = [made EXCEPT ![p] = @ + 1]
      /\ UNCHANGED <<status, current, pending, rounds, requests, listed, astray>>
  BY DEF Publish, Working, WithGen, WithRead, amendments
<1>2. read.gen = gen
  BY DEF InputRecord
<1>3. /\ plan \in Plans /\ phase = [q \in Phase |-> phase[q]] /\ \A q \in Phase : GoodPhase(phase[q], q)
      /\ IsPhase(phase[p])
  BY InvFacts DEF GoodPhases, GoodPhase
<1>4. gen \in 0 .. MaxGen /\ gen = Used(phase[p]) + 1 /\ gen > phase[p].peak
  <2>1. NextGen(phase[p]) \in 0 .. MaxGen + 1 /\ NextGen(phase[p]) = Used(phase[p]) + 1
        /\ NextGen(phase[p]) > phase[p].peak
    BY <1>3, NextGenType
  <2> HIDE DEF gen
  <2>2. MaxGen \in Nat /\ gen \in 0 .. MaxGen + 1 /\ gen <= MaxGen
    BY <1>1, <1>3, <2>1, PlanFacts DEF gen
  <2>3. gen \in 0 .. MaxGen
    BY <2>2
  <2> QED  BY <2>1, <2>3 DEF gen
<1> HIDE DEF gen, read, g1
<1>5. Others(phase, g1, p) /\ IsPhase(g1[p]) /\ g1 = [q \in Phase |-> g1[q]]
  BY <1>3, WithFields DEF g1, Others
<1>6. /\ Others(phase, phase', p) /\ phase'[p].state = "in_progress" /\ phase'[p].gen = gen
      /\ phase'[p].peak = phase[p].peak /\ phase'[p].votes = phase[p].votes
      /\ phase'[p].stale = phase[p].stale /\ phase'[p].kept = phase[p].kept /\ phase'[p].read = read
  <2>1. /\ g1[p].state = phase[p].state /\ g1[p].gen = gen /\ g1[p].peak = phase[p].peak
        /\ g1[p].votes = phase[p].votes /\ g1[p].stale = phase[p].stale /\ g1[p].kept = phase[p].kept
    BY <1>3, WithFields DEF g1
  <2>2. /\ Others(g1, phase', p) /\ phase'[p].state = g1[p].state /\ phase'[p].gen = g1[p].gen
        /\ phase'[p].peak = g1[p].peak /\ phase'[p].votes = g1[p].votes
        /\ phase'[p].stale = g1[p].stale /\ phase'[p].kept = g1[p].kept /\ phase'[p].read = read
    BY <1>1, <1>5, WithFields
  <2> QED  BY <1>1, <1>5, <2>1, <2>2 DEF Others
<1>7. GoodPhase(phase'[p], p)
  <2>1. Sound(phase'[p], p)
    BY <1>1, <1>3, <1>6 DEF GoodPhase, Sound, Unstarted
  <2> QED  BY <1>1, <1>2, <1>3, <1>4, <1>6, <2>1, PlanFacts DEF GoodPhase, Others
<1>8. GoodPhases(phase') /\ Ahead(current', phase')
  BY <1>1, <1>3, <1>6, <1>7, InvFacts, PlanFacts DEF GoodPhases, Others, Ahead, Phase
<1>9. \A q \in Phase : made'[q] = Used(phase'[q]) /\ made[q] <= made'[q]
  <2>1. made'[p] = made[p] + 1 /\ \A q \in Phase : q # p => made'[q] = made[q]
    BY <1>1, InvFacts
  <2>2. Used(phase'[p]) = gen
    BY <1>3, <1>4, <1>6, PlanFacts DEF Used, Max2, GoodPhase
  <2> QED  BY <1>4, <1>6, <2>1, <2>2, InvFacts, PlanFacts DEF Others
<1>10. ASSUME ~astray'
       PROVE  ~astray /\ Orderly(status', current', phase') /\ Stands(phase', listed')
  <2>1. ~astray /\ Orderly(status, current, phase) /\ Stands(phase, listed)
    BY <1>1, <1>10, InvFacts
  <2>2. \A q \in Phase : phase'[q].state = phase[q].state
    BY <1>1, <1>6 DEF Others
  <2>3. Upheld(phase, phase')
    <3>1. \A r \in Phase : phase'[r].state \in {"approved", "awaiting"} => r < p
      <4>1. \A r \in Phase : r > p => phase[r].state \in Unstarted
        <5>1. Ahead(current, phase)
          BY InvFacts
        <5>2. current = p /\ p # 0
          BY <1>1, PlanFacts DEF Phase
        <5> QED  BY <5>1, <5>2 DEF Ahead
      <4>2. \A r \in Phase : r < p \/ r = p \/ r > p
        BY <1>3, PlanFacts DEF Phase
      <4> QED  BY <1>1, <2>2, <4>1, <4>2 DEF Unstarted
    <3> QED  BY <1>6, <3>1, PlanFacts DEF Upheld, Others, Phase
  <2> QED  BY <1>1, <1>3, <2>1, <2>2, <2>3, UpheldStands DEF Orderly
<1>11. Inherited(requests')
  BY <1>1, InvFacts, RequestsInherited
<1>12. /\ bytes' = [q \in Phase |-> bytes'[q]] /\ made' = [q \in Phase |-> made'[q]]
       /\ \A q \in Phase : bytes'[q] \in 0 .. MaxGen
  BY <1>1, <1>4, InvFacts
<1> QED  BY <1>1, <1>8, <1>9, <1>10, <1>11, <1>12, InvFacts DEF StepGood

LEMMA FewestVoters ==
    ASSUME plan \in Plans, NEW p \in Phase, ~Votes(p)
    PROVE  Cardinality(Voters({})) >= Minimum(p)
<1>1. Voters({}) = {}
  BY DEF Voters
<1>2. Cardinality({}) = 0
  BY FS_EmptySet
<1>3. Minimum(p) = 0
  BY PlanFacts DEF Votes
<1> QED  BY <1>1, <1>2, <1>3

\* The current phase, what is before it and what is after it.
LEMMA WorkingFacts ==
    ASSUME LifecycleInv, NEW p \in Phase, status = "in_progress", current = p
    PROVE  /\ \A q \in Phase : q > p => phase[q].state \in Unstarted
           /\ ~astray => \A q \in Phase : q < p => phase[q].state \in Complete
           /\ \A q \in Phase : q < p \/ q = p \/ q > p
           /\ \A q, r \in Phase : q < r /\ r < p => q < p /\ q # p
<1>0. Last \in Nat
  BY InvFacts, PlanFacts
<1>1. p # 0 /\ \A q \in Phase : q < p \/ q = p \/ q > p
  BY <1>0 DEF Phase
<1>2. \A q, r \in Phase : q < r /\ r < p => q < p /\ q # p
  BY <1>0 DEF Phase
<1>3. \A q \in Phase : q > p => phase[q].state \in Unstarted
  BY <1>1, InvFacts DEF Ahead
<1>4. ~astray => \A q \in Phase : q < p => phase[q].state \in Complete
  BY <1>1, InvFacts DEF Orderly
<1> QED  BY <1>1, <1>2, <1>3, <1>4

\* The current phase stays current, before its completion.
LEMMA WaitsGood ==
    ASSUME LifecycleInv, NEW p \in Phase, status = "in_progress", current = p,
           NEW h, GoodPhases(h), SameNumbers(phase, h), Upheld(phase, h), phase' = h,
           \A q \in Phase : q > p => h[q].state \in Unstarted,
           \A q \in Phase : q < p => h[q].state = phase[q].state,
           UNCHANGED <<status, current, pending, rounds, requests, files, listed, astray>>
    PROVE  StepGood
<1>1. UNCHANGED <<status, current, pending, rounds, requests, bytes, made, listed, astray>>
  BY DEF files
<1>2. ~astray => Orderly(status, current, h) /\ Stands(h, listed)
  BY InvFacts, WorkingFacts, OrderedAt, UpheldStands
<1>3. Ahead(current, h)
  BY DEF Ahead
<1>4. Inherited(requests)
  BY InvFacts, RequestsInherited
<1>5. \A q \in Phase : made'[q] = Used(phase'[q]) /\ made[q] <= made'[q]
  BY <1>1, InvFacts, PlanFacts DEF SameNumbers, Used
<1> QED  BY <1>1, <1>2, <1>3, <1>4, <1>5, InvFacts DEF StepGood

LEMMA SubmitGood ==
    ASSUME LifecycleInv, NEW p \in Phase, Submit(p)
    PROVE  StepGood
<1> DEFINE g == WithState(phase, p, "approved")
           h == WithState(phase, p, "awaiting")
<1>1. /\ status = "in_progress" /\ current = p /\ phase[p].state = "in_progress"
      /\ UNCHANGED <<files, listed, astray>>
      /\ \/ phase' = h /\ UNCHANGED <<status, current, pending, rounds, requests>>
         \/ ~Votes(p) /\ Completed(g, p)
  BY DEF Submit, Working, WithState, amendments
<1>2. /\ plan \in Plans /\ phase = [q \in Phase |-> phase[q]] /\ \A q \in Phase : GoodPhase(phase[q], q)
      /\ IsPhase(phase[p]) /\ phase[p].votes = {} /\ pending \in 0 .. Last
  BY <1>1, InvFacts DEF GoodPhases, GoodPhase, Sound
<1>3. /\ Others(phase, g, p) /\ g[p].state = "approved" /\ g[p].gen = phase[p].gen
      /\ g[p].peak = phase[p].peak /\ g[p].votes = {} /\ g[p].stale = phase[p].stale
      /\ g[p].kept = phase[p].kept /\ g[p].read = phase[p].read
  BY <1>2, WithFields
<1>4. /\ Others(phase, h, p) /\ h[p].state = "awaiting" /\ h[p].gen = phase[p].gen
      /\ h[p].peak = phase[p].peak /\ h[p].votes = {} /\ h[p].stale = phase[p].stale
      /\ h[p].kept = phase[p].kept /\ h[p].read = phase[p].read
  BY <1>2, WithFields
<1> HIDE DEF g, h
<1>5. CASE ~Votes(p) /\ Completed(g, p)
  <2>1. Sound(g[p], p)
    BY <1>2, <1>3, <1>5, FewestVoters DEF GoodPhase, Sound, Unstarted
  <2>2. GoodPhases(g) /\ SameNumbers(phase, g)
    BY <1>2, <1>3, <2>1 DEF GoodPhases, GoodPhase, Others, SameNumbers, State
  <2>3. \A q \in Phase : q > p => g[q].state \in Unstarted
    BY <1>1, <1>2, <1>3, WorkingFacts, PlanFacts DEF Others, Phase
  <2>4. Moved(g, p) /\ rounds' \in [Phase -> Nat] /\ Inherited(requests')
    BY <1>1, <1>5, <2>2, <2>3, CompletedMoves
  <2>5. Upheld(phase, g)
    <3>1. \A r \in Phase : r # p /\ g[r].state \in {"approved", "awaiting"} => r < p
      BY <1>1, <2>3, WorkingFacts DEF Unstarted
    <3>2. \A r, q \in Phase : q < r /\ r < p => q # p /\ r # p
      BY <1>2, PlanFacts DEF Phase
    <3> QED  BY <1>3, <3>1, <3>2 DEF Upheld, Others
  <2>6. ~astray => Stands(g, listed) /\ \A q \in Phase : q <= p => g[q].state \in Complete
    <3>1. \A q \in Phase : q <= p => q = p \/ (q # p /\ q < p)
      BY <1>2, PlanFacts DEF Phase
    <3> QED  BY <1>1, <1>2, <1>3, <2>5, <3>1, WorkingFacts, InvFacts, UpheldStands DEF Others, Complete
  <2>7. p \in Int
    BY PlanFacts, <1>2 DEF Phase
  <2> QED  BY <1>1, <2>2, <2>4, <2>6, <2>7, MovedGood
<1>6. CASE phase' = h /\ UNCHANGED <<status, current, pending, rounds, requests>>
  <2>1. Sound(h[p], p)
    BY <1>2, <1>4 DEF GoodPhase, Sound, Unstarted
  <2>2. GoodPhases(h) /\ SameNumbers(phase, h)
    BY <1>2, <1>4, <2>1 DEF GoodPhases, GoodPhase, Others, SameNumbers, State
  <2>3. \A q \in Phase : q > p => h[q].state \in Unstarted
    BY <1>1, <1>2, <1>4, WorkingFacts, PlanFacts DEF Others, Phase
  <2>4. Upheld(phase, h)
    <3>1. \A r \in Phase : r # p /\ h[r].state \in {"approved", "awaiting"} => r < p
      BY <1>1, <2>3, WorkingFacts DEF Unstarted
    <3>2. \A r, q \in Phase : q < r /\ r < p => q # p /\ r # p
      BY <1>2, PlanFacts DEF Phase
    <3> QED  BY <1>4, <3>1, <3>2 DEF Upheld, Others
  <2>5. \A q \in Phase : q < p => h[q].state = phase[q].state
    BY <1>2, <1>4, PlanFacts DEF Others, Phase
  <2> QED  BY <1>1, <1>2, <1>6, <2>2, <2>3, <2>4, <2>5, WaitsGood
<1> QED  BY <1>1, <1>5, <1>6

LEMMA ApproveGood ==
    ASSUME LifecycleInv, NEW p \in Phase, NEW who, Approve(p, who)
    PROVE  StepGood
<1> DEFINE vote == [who |-> who, gen |-> phase[p].gen, over |-> Upstream(phase, p)]
           votes == phase[p].votes \cup {vote}
           h == WithVotes(phase, p, votes)
           g == WithState(h, p, "approved")
<1>1. /\ status = "in_progress" /\ current = p /\ phase[p].state = "awaiting"
      /\ UNCHANGED <<files, listed, astray>>
      /\ \/ phase' = h /\ UNCHANGED <<status, current, pending, rounds, requests>>
         \/ Cardinality(Voters(h[p].votes)) >= Minimum(p) /\ Completed(g, p)
  BY DEF Approve, Working, WithState, WithVotes, amendments
<1>2. /\ plan \in Plans /\ phase = [q \in Phase |-> phase[q]] /\ \A q \in Phase : GoodPhase(phase[q], q)
      /\ IsPhase(phase[p]) /\ pending \in 0 .. Last /\ Last \in Nat
  BY InvFacts, PlanFacts DEF GoodPhases, GoodPhase
<1>3. /\ \A v \in phase[p].votes : v.gen = phase[p].gen
      /\ \A v \in phase[p].kept : v.gen = phase[p].stale
  BY <1>1, <1>2 DEF GoodPhase, Sound
<1>4. vote.gen = phase[p].gen /\ vote.over = Upstream(phase, p)
  OBVIOUS
<1> HIDE DEF vote
<1>5. /\ Others(phase, h, p) /\ h[p].state = "awaiting" /\ h[p].gen = phase[p].gen
      /\ h[p].peak = phase[p].peak /\ h[p].votes = votes /\ h[p].stale = phase[p].stale
      /\ h[p].kept = phase[p].kept /\ h[p].read = phase[p].read
  BY <1>1, <1>2, WithFields
<1> HIDE DEF h
<1>6. /\ Others(h, g, p) /\ g[p].state = "approved" /\ g[p].gen = phase[p].gen
      /\ g[p].peak = phase[p].peak /\ g[p].votes = votes /\ g[p].stale = phase[p].stale
      /\ g[p].kept = phase[p].kept /\ g[p].read = phase[p].read
  <2>1. h = [q \in Phase |-> h[q]] /\ IsPhase(h[p])
    BY <1>5 DEF Others
  <2> QED  BY <1>5, <2>1, WithFields
<1> HIDE DEF g
<1>7. Others(phase, g, p)
  BY <1>5, <1>6 DEF Others
<1>8. \A v \in votes : v.gen = phase[p].gen
  BY <1>3, <1>4
<1>9. \A f : (\A q \in Phase : q # p => f[q] = phase[q]) /\ f[p].gen = phase[p].gen /\ f[p].votes = votes
                /\ (\A q \in Phase : q > p => f[q].state \in Unstarted) => Upheld(phase, f)
  <2> SUFFICES ASSUME NEW f, \A q \in Phase : q # p => f[q] = phase[q], f[p].gen = phase[p].gen,
                      f[p].votes = votes, \A q \in Phase : q > p => f[q].state \in Unstarted
               PROVE  Upheld(phase, f)
    OBVIOUS
  <2>1. \A r \in Phase : r # p /\ f[r].state \in {"approved", "awaiting"} => r < p
    BY <1>1, WorkingFacts DEF Unstarted
  <2>2. \A r, q \in Phase : q < r /\ r < p => q # p /\ r # p
    BY <1>2 DEF Phase
  <2>3. \A q \in Phase : q < p => f[q] = phase[q]
    BY <1>2 DEF Phase
  <2>4. StandsOn(f, p, vote, {})
    BY <1>2, <1>4, <2>3, UpstreamStands
  <2> QED  BY <1>1, <2>1, <2>2, <2>3, <2>4 DEF Upheld
<1> HIDE DEF votes
<1>10. CASE Cardinality(Voters(h[p].votes)) >= Minimum(p) /\ Completed(g, p)
  <2>1. Sound(g[p], p)
    BY <1>3, <1>5, <1>6, <1>8, <1>10 DEF Sound, Unstarted
  <2>2. GoodPhases(g) /\ SameNumbers(phase, g)
    BY <1>2, <1>6, <1>7, <2>1 DEF GoodPhases, GoodPhase, Others, SameNumbers, State
  <2>3. \A q \in Phase : q > p => g[q].state \in Unstarted
    <3>1. \A q \in Phase : q > p => q # p
      BY <1>2 DEF Phase
    <3> QED  BY <1>1, <1>7, <3>1, WorkingFacts DEF Others
  <2>4. Moved(g, p) /\ rounds' \in [Phase -> Nat] /\ Inherited(requests')
    BY <1>1, <1>10, <2>2, <2>3, CompletedMoves
  <2>5. Upheld(phase, g)
    BY <1>6, <1>7, <1>9, <2>3 DEF Others
  <2>6. ~astray => Stands(g, listed) /\ \A q \in Phase : q <= p => g[q].state \in Complete
    <3>1. \A q \in Phase : q <= p => q = p \/ (q # p /\ q < p)
      BY <1>2 DEF Phase
    <3> QED  BY <1>1, <1>2, <1>6, <1>7, <2>5, <3>1, WorkingFacts, InvFacts, UpheldStands DEF Others, Complete
  <2>7. p \in Int
    BY <1>2 DEF Phase
  <2> QED  BY <1>1, <2>2, <2>4, <2>6, <2>7, MovedGood
<1>11. CASE phase' = h /\ UNCHANGED <<status, current, pending, rounds, requests>>
  <2>1. Sound(h[p], p)
    BY <1>3, <1>5, <1>8 DEF Sound, Unstarted
  <2>2. GoodPhases(h) /\ SameNumbers(phase, h)
    BY <1>2, <1>5, <2>1 DEF GoodPhases, GoodPhase, Others, SameNumbers, State
  <2>3. \A q \in Phase : q # p => h[q] = phase[q]
    BY <1>5 DEF Others
  <2>4. \A q \in Phase : (q > p => h[q].state \in Unstarted) /\ (q < p => h[q].state = phase[q].state)
    <3>1. \A q \in Phase : q > p \/ q < p => q # p
      BY <1>2 DEF Phase
    <3> QED  BY <1>1, <2>3, <3>1, WorkingFacts
  <2>5. Upheld(phase, h)
    BY <1>5, <1>9, <2>3, <2>4
  <2> QED  BY <1>1, <1>11, <2>2, <2>4, <2>5, WaitsGood
<1> QED  BY <1>1, <1>10, <1>11

LEMMA ChooseGood ==
    ASSUME LifecycleInv, NEW p \in Phase, Choose(p)
    PROVE  StepGood
<1>1. /\ status = "in_progress" /\ current = p /\ phase[p].state = "approved"
      /\ UNCHANGED <<files, listed, astray>>
  BY DEF Choose, amendments
<1>2. PICK t \in Routes(p) :
        \/ t \in 1 .. p /\ Loop(phase, p, t, requests)
        \/ /\ IF t = p + 1 THEN Continue(phase, p) ELSE t \notin 1 .. p /\ Jump(phase, p, t)
           /\ UNCHANGED <<rounds, requests>>
  BY DEF Choose
<1>3. /\ plan \in Plans /\ GoodPhases(phase) /\ Last \in Nat /\ p \in Int /\ t \in 0 .. Last
      /\ SameNumbers(phase, phase) /\ Inherited(requests) /\ rounds \in [Phase -> Nat]
  BY InvFacts, PlanFacts, RequestsInherited DEF SameNumbers, Phase
<1>4. /\ \A q \in Phase : q > p => phase[q].state \in Unstarted
      /\ ~astray => Stands(phase, listed) /\ \A q \in Phase : q <= p => phase[q].state \in Complete
  <2>1. \A q \in Phase : q <= p => q = p \/ q < p
    BY <1>3 DEF Phase
  <2> QED  BY <1>1, <2>1, WorkingFacts, InvFacts DEF Complete
<1>5. Moved(phase, p) /\ rounds' \in [Phase -> Nat] /\ Inherited(requests')
  <2>1. CASE t \in 1 .. p /\ Loop(phase, p, t, requests)
    <3>1. Moved(phase, t - 1) /\ rounds' \in [Phase -> Nat] /\ Inherited(requests')
      BY <1>3, <2>1, LoopMoves
    <3>2. t - 1 \in Int /\ t - 1 <= p
      BY <1>3, <2>1
    <3> QED  BY <1>3, <3>1, <3>2, MovedFurther
  <2>2. CASE Continue(phase, p) /\ UNCHANGED <<rounds, requests>>
    <3>1. Prepared(phase, p)
      BY <1>3, <1>4 DEF Prepared, Phase
    <3> QED  BY <1>3, <2>2, <3>1, ContinueMoves
  <2>3. CASE t \notin 1 .. p /\ Jump(phase, p, t) /\ UNCHANGED <<rounds, requests>>
    <3>1. t = 0 \/ t > p
      BY <1>3, <2>3
    <3> QED  BY <1>3, <1>4, <2>3, <3>1, JumpMoves
  <2> HIDE DEF Continue, Jump, Loop
  <2> QED  BY <1>2, <2>1, <2>2, <2>3
<1> QED  BY <1>1, <1>3, <1>4, <1>5, MovedGood

LEMMA SentBackGood ==
    ASSUME LifecycleInv, NEW t \in Phase, NEW retain \in BOOLEAN, SendBack(phase, t, retain),
           Inherited(requests'), UNCHANGED <<rounds, files, listed, astray>>,
           ~astray => \A q \in Phase : q < t => phase[q].state \in Complete
    PROVE  StepGood
<1>1. /\ plan \in Plans /\ GoodPhases(phase) /\ pending \in 0 .. Last /\ Last \in Nat
      /\ SameNumbers(phase, phase) /\ rounds' \in [Phase -> Nat] /\ t - 1 \in Int
  BY InvFacts, PlanFacts DEF SameNumbers, Phase
<1>2. Moved(phase, t - 1)
  BY <1>1, SendBackMoves
<1>3. ~astray => Stands(phase, listed) /\ \A q \in Phase : q <= t - 1 => phase[q].state \in Complete
  <2>1. \A q \in Phase : q <= t - 1 => q < t
    BY <1>1 DEF Phase
  <2> QED  BY <2>1, InvFacts
<1> QED  BY <1>1, <1>2, <1>3, MovedGood

LEMMA SentBackByRequestGood ==
    ASSUME LifecycleInv, NEW t \in Phase, SendBackByRequest(t), UNCHANGED listed,
           current # 0 => t <= current,
           ~astray => \A q \in Phase : q < t => phase[q].state \in Complete
    PROVE  StepGood
<1>1. /\ SendBack(phase, t, TRUE) /\ requests' = Opened(requests, t, Checkpoint)
      /\ UNCHANGED <<rounds, files, astray>>
  BY DEF SendBackByRequest
<1>2. Inherited(requests')
  BY <1>1, InvFacts, RequestsInherited, OpenedInherited
<1> QED  BY <1>1, <1>2, SentBackGood

LEMMA RejectGood ==
    ASSUME LifecycleInv, NEW p \in Phase, Reject(p)
    PROVE  StepGood
<1>1. /\ status = "in_progress" /\ current = p /\ UNCHANGED listed
  BY DEF Reject, Working, amendments
<1>2. PICK t \in RejectTo(p) : SendBackByRequest(t)
  BY DEF Reject
<1>3. t \in Phase /\ t <= p /\ Last \in Nat
  BY InvFacts, PlanFacts
<1>4. \A q \in Phase : q < t => q < p
  BY <1>3 DEF Phase
<1> QED  BY <1>1, <1>2, <1>3, <1>4, WorkingFacts, SentBackByRequestGood

LEMMA ReopenGood ==
    ASSUME LifecycleInv, Reopen
    PROVE  StepGood
<1>1. status = "closed" /\ current = 0 /\ UNCHANGED listed
  BY DEF Reopen, amendments
<1>2. PICK t \in Phase : SendBackByRequest(t)
  <2>1. PICK p \in Phase : \E t \in RejectTo(p) : SendBackByRequest(t)
    BY DEF Reopen
  <2>2. RejectTo(p) \subseteq Phase
    BY InvFacts, PlanFacts
  <2> QED  BY <2>1, <2>2
<1>3. ~astray => \A q \in Phase : q < t => phase[q].state \in Complete
  BY <1>1, InvFacts DEF Orderly
<1> QED  BY <1>1, <1>2, <1>3, SentBackByRequestGood

LEMMA BeforeCurrent ==
    ASSUME LifecycleInv, NEW t \in Phase, t <= current
    PROVE  /\ current \in Phase
           /\ ~astray => \A q \in Phase : q < t => phase[q].state \in Complete
<1>1. Last \in Nat /\ current \in 0 .. Last
  BY InvFacts, PlanFacts
<1>2. current \in Phase /\ current # 0 /\ \A q \in Phase : q < t => q < current
  BY <1>1 DEF Phase
<1> QED  BY <1>2, InvFacts DEF Orderly

LEMMA ReturnGood ==
    ASSUME LifecycleInv, NEW r, r.phase \in Phase, Return(r)
    PROVE  StepGood
<1>1. SendBackByRequest(r.phase) /\ UNCHANGED listed /\ r.phase < current
  BY DEF Return
<1>2. r.phase <= current
  <2>1. current \in 0 .. Last /\ Last \in Nat
    BY InvFacts, PlanFacts
  <2> QED  BY <1>1, <2>1 DEF Phase
<1> QED  BY <1>1, <1>2, BeforeCurrent, SentBackByRequestGood

LEMMA DetachGood ==
    ASSUME LifecycleInv, NEW t \in Phase, Detach(t)
    PROVE  StepGood
<1>1. /\ t <= current /\ SendBack(phase, t, FALSE)
      /\ UNCHANGED <<rounds, requests, files, listed, astray>>
  BY DEF Detach, amendments
<1>2. Inherited(requests')
  BY <1>1, InvFacts, RequestsInherited
<1> QED  BY <1>1, <1>2, BeforeCurrent, SentBackGood

LEMMA PromoteGood ==
    ASSUME LifecycleInv, Promote
    PROVE  StepGood
<1>1. /\ phase[plan.capture].votes # {} /\ SendBack(phase, plan.capture, FALSE)
      /\ UNCHANGED <<rounds, requests, files, listed, astray>>
  BY DEF Promote, amendments
<1>2. plan.capture \in Phase
  BY InvFacts, PlanFacts
<1>3. phase[plan.capture].state \notin Unstarted
  BY <1>1, <1>2, InvFacts DEF GoodPhases, GoodPhase, Sound
<1>4. ~astray => \A q \in Phase : q < plan.capture => phase[q].state \in Complete
  BY <1>2, <1>3, InvFacts DEF Orderly
<1>5. Inherited(requests')
  BY <1>1, InvFacts, RequestsInherited
<1> QED  BY <1>1, <1>2, <1>4, <1>5, SentBackGood

LEMMA CancelGood ==
    ASSUME LifecycleInv, Cancel
    PROVE  StepGood
<1> DEFINE p == current
           g == WithState(phase, p, "cancelled")
<1>1. /\ status = "in_progress" /\ current # 0 /\ phase' = g
      /\ status' = "cancelled" /\ current' = 0 /\ pending' = 0
      /\ UNCHANGED <<rounds, requests, bytes, made, listed, astray>>
  BY DEF Cancel, amendments, files, WithState
<1>2. /\ plan \in Plans /\ Last \in Nat /\ current \in 0 .. Last
      /\ phase = [q \in Phase |-> phase[q]] /\ \A q \in Phase : GoodPhase(phase[q], q)
  BY InvFacts, PlanFacts DEF GoodPhases
<1>3. p \in Phase /\ IsPhase(phase[p])
  BY <1>1, <1>2 DEF Phase, GoodPhase
<1>4. /\ Others(phase, phase', p) /\ phase'[p].state = "cancelled" /\ phase'[p].gen = phase[p].gen
      /\ phase'[p].peak = phase[p].peak /\ phase'[p].votes = phase[p].votes
      /\ phase'[p].stale = phase[p].stale /\ phase'[p].kept = phase[p].kept /\ phase'[p].read = phase[p].read
  BY <1>1, <1>2, <1>3, WithFields
<1> HIDE DEF g, p
<1>5. Sound(phase'[p], p)
  BY <1>2, <1>3, <1>4 DEF GoodPhase, Sound, Unstarted
<1>6. GoodPhases(phase')
  BY <1>2, <1>3, <1>4, <1>5 DEF GoodPhases, GoodPhase, Others, State
<1>7. \A q \in Phase : made'[q] = Used(phase'[q]) /\ made[q] <= made'[q]
  <2>1. \A q \in Phase : phase'[q].gen = phase[q].gen /\ phase'[q].peak = phase[q].peak
    BY <1>4 DEF Others
  <2> QED  BY <1>1, <1>2, <2>1, InvFacts DEF Used
<1>8. ASSUME ~astray'
      PROVE  ~astray /\ Orderly(status', current', phase') /\ Stands(phase', listed')
  <2>1. ~astray /\ Stands(phase, listed) /\ p = current
    BY <1>1, <1>8, InvFacts DEF p
  <2>2. /\ \A q \in Phase : q > p => phase[q].state \in Unstarted
        /\ \A q \in Phase : q < p => phase[q].state \in Complete
        /\ \A q \in Phase : q < p \/ q = p \/ q > p
    BY <1>1, <1>3, <2>1, WorkingFacts
  <2>3. Upheld(phase, phase')
    <3>1. \A r \in Phase : r # p /\ phase'[r].state \in {"approved", "awaiting"} => r < p
      BY <1>4, <2>2 DEF Others, Unstarted
    <3>2. \A r, q \in Phase : q < r /\ r < p => q # p /\ r # p
      BY <1>2, <1>3 DEF Phase
    <3> QED  BY <1>3, <1>4, <3>1, <3>2 DEF Upheld, Others
  <2>4. Orderly(status', current', phase')
    <3>1. \A r, q \in Phase : r < q => (r < p /\ r # p) \/ (q > p /\ q # p)
      BY <1>2, <1>3 DEF Phase
    <3> QED  BY <1>1, <1>4, <2>2, <3>1 DEF Orderly, Others
  <2> QED  BY <1>1, <1>2, <2>1, <2>3, <2>4, UpheldStands
<1>9. Inherited(requests') /\ Ahead(current', phase')
  BY <1>1, InvFacts, RequestsInherited DEF Ahead
<1> QED  BY <1>1, <1>2, <1>6, <1>7, <1>8, <1>9, InvFacts DEF StepGood, Status

LEMMA ProposeGood ==
    ASSUME LifecycleInv, NEW q \in Phase, Propose(q)
    PROVE  StepGood
<1>1. /\ requests' = {[r EXCEPT !.since = @ \cup {q}] : r \in requests}
      /\ UNCHANGED <<status, current, phase, pending, rounds, listed, files, astray>>
  BY DEF Propose
<1>2. ASSUME NEW s \in requests'
      PROVE  GoodRequest(s) /\ s.checkpoint \in Checkpoints \cup {NoCheckpoint}
  <2>1. PICK r \in requests : \E n : s = [r EXCEPT !.since = n]
    BY <1>1
  <2>2. IsRequest(s) /\ s.target = r.target /\ s.checkpoint = r.checkpoint
    BY <2>1, InvFacts DEF GoodRequest, IsRequest
  <2> QED  BY <2>2, InvFacts DEF GoodRequest, Checkpoints
<1>3. Inherited(requests')
  BY <1>2 DEF Inherited
<1> QED  BY <1>1, <1>3, QuietGood

LEMMA DeclineGood ==
    ASSUME LifecycleInv, NEW q \in Phase, Decline(q)
    PROVE  StepGood
BY InvFacts, WithdrawnInherited, QuietGood DEF Decline

LEMMA RevalidateGood ==
    ASSUME LifecycleInv, NEW r, Revalidate(r)
    PROVE  StepGood
BY InvFacts, RequestsInherited, QuietGood DEF Revalidate

LEMMA AmendGood ==
    ASSUME LifecycleInv, NEW q \in Phase, NEW who, Amend(q, who)
    PROVE  StepGood
<1> DEFINE gen == NextGen(phase[q])
           vote == [who |-> who, gen |-> gen, over |-> NoUpstream]
           read == InputRecord(phase, q, gen)
           g1 == WithGen(phase, q, gen)
           g2 == WithVotes(g1, q, {vote})
           g == WithRead(g2, q, read)
           again == InputRecord(g, current, NextGen(g[current]))
           new == {[phase |-> r, gen |-> phase[r].gen, producer |-> q, to |-> gen] : r \in Readers(q)}
<1>1. /\ q < current /\ phase[current].state = "in_progress" /\ phase[q].state = "approved"
      /\ Minimum(q) = 1 /\ gen <= MaxGen
      /\ bytes' = [bytes EXCEPT ![q] = gen] /\ made' = [made EXCEPT ![q] = @ + 1]
      /\ phase' = g \/ phase' = WithRead(g, current, again)
      /\ listed' = listed \cup new /\ requests' = Withdrawn(q)
      /\ UNCHANGED <<status, current, pending, rounds, astray>>
  BY DEF Amend, Amendable, WithGen, WithVotes, WithRead
<1>2. /\ plan \in Plans /\ Last \in Nat /\ MaxGen \in Nat /\ current \in Phase
      /\ phase = [r \in Phase |-> phase[r]] /\ \A r \in Phase : GoodPhase(phase[r], r)
      /\ \A r \in Phase : r < current \/ r = current \/ r > current
  <2>1. plan \in Plans /\ GoodPhases(phase) /\ current \in 0 .. Last
    BY InvFacts
  <2>2. Last \in Nat /\ MaxGen \in Nat
    BY <2>1, PlanFacts
  <2>3. current \in Phase /\ \A r \in Phase : r < current \/ r = current \/ r > current
    BY <1>1, <2>1, <2>2 DEF Phase
  <2>4. phase = [r \in Phase |-> phase[r]] /\ \A r \in Phase : GoodPhase(phase[r], r)
    BY <2>1 DEF GoodPhases
  <2> QED  BY <2>1, <2>2, <2>3, <2>4
<1>3. read.gen = gen /\ again.gen = NextGen(g[current])
  BY DEF InputRecord
<1>4. vote.gen = gen /\ vote.over = NoUpstream
  OBVIOUS
<1>5. gen \in 0 .. MaxGen /\ gen = Used(phase[q]) + 1 /\ gen > phase[q].peak
  <2>1. NextGen(phase[q]) \in 0 .. MaxGen + 1 /\ NextGen(phase[q]) = Used(phase[q]) + 1
        /\ NextGen(phase[q]) > phase[q].peak
    BY <1>2, NextGenType
  <2> HIDE DEF gen
  <2>2. MaxGen \in Nat /\ gen \in 0 .. MaxGen + 1 /\ gen <= MaxGen
    BY <1>1, <1>2, <2>1 DEF gen
  <2>3. gen \in 0 .. MaxGen
    BY <2>2
  <2> QED  BY <2>1, <2>3 DEF gen
<1> HIDE DEF read, vote, gen, again
<1>6. /\ Others(phase, g, q) /\ g[q].state = "approved" /\ g[q].gen = gen /\ g[q].peak = phase[q].peak
      /\ g[q].votes = {vote} /\ g[q].stale = phase[q].stale /\ g[q].kept = phase[q].kept
      /\ g[q].read = read
  <2>1. /\ Others(phase, g1, q) /\ g1[q].state = phase[q].state /\ g1[q].gen = gen
        /\ g1[q].peak = phase[q].peak /\ g1[q].votes = phase[q].votes
        /\ g1[q].stale = phase[q].stale /\ g1[q].kept = phase[q].kept
    BY <1>2, WithFields DEF GoodPhase
  <2> HIDE DEF g1
  <2>2. /\ Others(g1, g2, q) /\ g2[q].state = g1[q].state /\ g2[q].gen = g1[q].gen
        /\ g2[q].peak = g1[q].peak /\ g2[q].votes = {vote}
        /\ g2[q].stale = g1[q].stale /\ g2[q].kept = g1[q].kept
    <3>1. g1 = [r \in Phase |-> g1[r]] /\ IsPhase(g1[q])
      BY <2>1 DEF Others
    <3> QED  BY <3>1, WithFields
  <2> HIDE DEF g2
  <2>3. /\ Others(g2, g, q) /\ g[q].state = g2[q].state /\ g[q].gen = g2[q].gen
        /\ g[q].peak = g2[q].peak /\ g[q].votes = g2[q].votes
        /\ g[q].stale = g2[q].stale /\ g[q].kept = g2[q].kept /\ g[q].read = read
    <3>1. g2 = [r \in Phase |-> g2[r]] /\ IsPhase(g2[q])
      BY <2>2 DEF Others
    <3> QED  BY <3>1, WithFields
  <2> QED  BY <1>1, <2>1, <2>2, <2>3 DEF Others
<1> HIDE DEF g
<1>7. Sound(g[q], q)
  <2>1. Voters({vote}) = {vote.who}
    BY DEF Voters
  <2>2. Cardinality(Voters({vote})) = 1
    BY <2>1, FS_Singleton
  <2>3. \A v \in phase[q].kept : v.gen = phase[q].stale
    BY <1>2 DEF GoodPhase, Sound
  <2> QED  BY <1>1, <1>4, <1>6, <2>2, <2>3 DEF Sound, Unstarted
<1>8. GoodPhases(g)
  <2>1. GoodPhase(g[q], q)
    BY <1>2, <1>3, <1>5, <1>6, <1>7 DEF GoodPhase, Others, State
  <2> QED  BY <1>2, <1>6, <2>1 DEF GoodPhases, Others
<1>9. /\ GoodPhases(phase')
      /\ \A r \in Phase : /\ phase'[r].state = g[r].state /\ phase'[r].gen = g[r].gen
                          /\ phase'[r].peak = g[r].peak /\ phase'[r].votes = g[r].votes
  <2>1. CASE phase' = g
    BY <1>8, <2>1
  <2>2. CASE phase' = WithRead(g, current, again)
    <3>1. g = [r \in Phase |-> g[r]] /\ IsPhase(g[current]) /\ GoodPhase(g[current], current)
      BY <1>2, <1>8 DEF GoodPhases, GoodPhase
    <3>2. /\ Others(g, phase', current) /\ phase'[current].state = g[current].state
          /\ phase'[current].gen = g[current].gen /\ phase'[current].peak = g[current].peak
          /\ phase'[current].votes = g[current].votes /\ phase'[current].stale = g[current].stale
          /\ phase'[current].kept = g[current].kept /\ phase'[current].read = again
      BY <1>2, <2>2, <3>1, WithFields
    <3>3. again.gen \in 0 .. MaxGen + 1
      BY <1>2, <1>3, <3>1, NextGenType
    <3>4. Sound(phase'[current], current)
      BY <3>1, <3>2 DEF GoodPhase, Sound
    <3>5. GoodPhase(phase'[current], current)
      BY <1>2, <3>1, <3>2, <3>3, <3>4 DEF GoodPhase, Others
    <3> QED  BY <1>2, <1>8, <3>2, <3>5 DEF GoodPhases, Others
  <2> QED  BY <1>1, <2>1, <2>2
<1>10. /\ \A r \in Phase : phase'[r].state = phase[r].state
       /\ \A r \in Phase : r # q => /\ phase'[r].gen = phase[r].gen /\ phase'[r].peak = phase[r].peak
                                    /\ phase'[r].votes = phase[r].votes
       /\ phase'[q].gen = gen /\ phase'[q].peak = phase[q].peak /\ phase'[q].votes = {vote}
  BY <1>1, <1>6, <1>9 DEF Others
<1>11. \A r \in Phase : made'[r] = Used(phase'[r]) /\ made[r] <= made'[r]
  <2>1. made'[q] = made[q] + 1 /\ \A r \in Phase : r # q => made'[r] = made[r]
    BY <1>1, InvFacts
  <2>2. Used(phase'[q]) = gen
    BY <1>2, <1>5, <1>10 DEF Used, Max2, GoodPhase
  <2>3. \A r \in Phase : r # q => Used(phase'[r]) = Used(phase[r])
    BY <1>10 DEF Used
  <2> QED  BY <1>2, <1>5, <2>1, <2>2, <2>3, InvFacts
<1>12. \A r \in Readers(q) : r \in Phase
  BY <1>2 DEF Readers, Phase
<1>13. ASSUME ~astray'
       PROVE  ~astray /\ Orderly(status', current', phase') /\ Stands(phase', listed')
  <2>1. ~astray /\ Orderly(status, current, phase) /\ Stands(phase, listed)
    BY <1>1, <1>13, InvFacts
  <2>2. Orderly(status', current', phase')
    BY <1>1, <1>10, <2>1 DEF Orderly
  <2> SUFFICES ASSUME NEW r \in Phase, phase'[r].state \in {"approved", "awaiting"},
                      NEW v \in phase'[r].votes
               PROVE  StandsOn(phase', r, v, listed')
    BY <2>1, <2>2 DEF Stands
  <2>3. CASE r = q
    BY <1>4, <1>10, <2>3 DEF StandsOn
  <2>4. CASE r # q
    <3>1. StandsOn(phase, r, v, listed) /\ phase'[r].gen = phase[r].gen
      BY <1>10, <2>1, <2>4 DEF Stands
    <3>2. r < current /\ phase[r].state = "approved"
      <4>1. current # 0
        BY <1>2 DEF Phase
      <4>2. r > current => phase[r].state \in Unstarted
        BY <4>1, InvFacts DEF Ahead
      <4>3. r < current => phase[r].state \in Complete
        BY <2>1, <4>1 DEF Orderly
      <4> QED  BY <1>1, <1>2, <1>10, <4>2, <4>3 DEF Unstarted, Complete
    <3>3. ASSUME q \in Reads(r)
          PROVE  [phase |-> r, gen |-> phase'[r].gen, producer |-> q, to |-> phase'[q].gen] \in listed'
      <4>1. q < r
        BY <1>2, <3>3, PlanFacts
      <4>2. r \in Readers(q)
        BY <1>2, <3>2, <3>3, <4>1 DEF Readers, Phase
      <4> QED  BY <1>1, <1>10, <3>1, <4>2
    <3>4. \A x \in Reads(r) : x \in Phase
      BY <1>2, PlanFacts
    <3> QED  BY <1>1, <1>10, <3>1, <3>3, <3>4 DEF StandsOn
  <2> QED  BY <2>3, <2>4
<1>14. Inherited(requests') /\ Ahead(current', phase') /\ \A r \in listed' : r.phase \in Phase
  BY <1>1, <1>10, <1>12, InvFacts, WithdrawnInherited DEF Ahead
<1>15. /\ bytes' = [r \in Phase |-> bytes'[r]] /\ made' = [r \in Phase |-> made'[r]]
       /\ \A r \in Phase : bytes'[r] \in 0 .. MaxGen
  BY <1>1, <1>5, InvFacts
<1> QED  BY <1>1, <1>9, <1>11, <1>13, <1>14, <1>15, InvFacts DEF StepGood

-----------------------------------------------------------------------------
\* Rolling forward: a phase is as the checkpoint has it, but for its watermark.
LEMMA RestoredFields ==
    ASSUME NEW c, NEW p, IsPhase(c.phase[p])
    PROVE  LET f == Restored(c, p)
               old == c.phase[p]
               top == Used(phase[p])
           IN /\ IsPhase(f) /\ f.state = old.state /\ f.gen = old.gen /\ f.stale = old.stale
              /\ f.kept = old.kept /\ f.read = old.read
              /\ f.peak = IF top > old.gen THEN top ELSE old.peak
              /\ f.votes = IF p = c.current /\ old.state = "awaiting" THEN {} ELSE old.votes
<1> DEFINE old == c.phase[p]
           top == Used(phase[p])
           peak == IF top > old.gen THEN top ELSE old.peak
           votes == IF p = c.current /\ old.state = "awaiting" THEN {} ELSE old.votes
           f1 == [old EXCEPT !.peak = peak]
           f2 == [f1 EXCEPT !.votes = votes]
<1>1. Restored(c, p) = f2
  BY DEF Restored, Used
<1>2. IsPhase(old)
  OBVIOUS
<1> HIDE DEF old, top, peak, votes
<1>3. /\ IsPhase(f1) /\ f1.state = old.state /\ f1.gen = old.gen /\ f1.stale = old.stale
      /\ f1.kept = old.kept /\ f1.read = old.read /\ f1.peak = peak /\ f1.votes = old.votes
  BY <1>2 DEF IsPhase
<1> HIDE DEF f1
<1>4. /\ IsPhase(f2) /\ f2.state = f1.state /\ f2.gen = f1.gen /\ f2.stale = f1.stale
      /\ f2.kept = f1.kept /\ f2.read = f1.read /\ f2.peak = f1.peak /\ f2.votes = votes
  BY <1>3 DEF IsPhase
<1> QED  BY <1>1, <1>3, <1>4 DEF old, top, peak, votes

LEMMA RestoredGood ==
    ASSUME plan \in Plans, NEW c, NEW p \in Phase, GoodPhase(c.phase[p], p), GoodPhase(phase[p], p),
           Used(c.phase[p]) <= Used(phase[p])
    PROVE  LET f == Restored(c, p) IN
           /\ GoodPhase(f, p) /\ Used(f) = Used(phase[p]) /\ f.state = c.phase[p].state
           /\ f.gen = c.phase[p].gen /\ f.votes \subseteq c.phase[p].votes
<1> DEFINE f == Restored(c, p)
           old == c.phase[p]
           top == Used(phase[p])
<1>1. /\ IsPhase(f) /\ f.state = old.state /\ f.gen = old.gen /\ f.stale = old.stale
      /\ f.kept = old.kept /\ f.read = old.read
      /\ f.peak = IF top > old.gen THEN top ELSE old.peak
      /\ f.votes = IF p = c.current /\ old.state = "awaiting" THEN {} ELSE old.votes
  <2>1. IsPhase(c.phase[p])
    BY DEF GoodPhase
  <2> QED  BY <2>1, RestoredFields
<1>2. GoodPhase(old, p) /\ top \in 0 .. MaxGen /\ Used(old) <= top /\ MaxGen \in Nat
  BY UsedType, PlanFacts
<1> HIDE DEF f, old, top
<1>3. Used(f) = top /\ f.peak \in 0 .. MaxGen
  BY <1>1, <1>2 DEF Used, Max2, GoodPhase
<1>4. Sound(f, p)
  BY <1>1, <1>2 DEF GoodPhase, Sound, Unstarted
<1>5. GoodPhase(f, p)
  BY <1>1, <1>2, <1>3, <1>4 DEF GoodPhase
<1> QED  BY <1>1, <1>3, <1>5 DEF f, old, top

LEMMA RollForwardGood ==
    ASSUME LifecycleInv, RollForward
    PROVE  StepGood
<1>1. PICK request \in requests :
        LET c == request.checkpoint IN
        /\ c # NoCheckpoint /\ status' = c.status /\ current' = c.current
        /\ phase' = [p \in Phase |-> IF p < request.target THEN phase[p] ELSE Restored(c, p)]
        /\ bytes' = c.bytes
        /\ astray' = (astray \/ \E p \in 1 .. request.target - 1 : phase[p] # c.phase[p])
        /\ requests' = requests \ {request}
        /\ UNCHANGED <<pending, rounds, listed, made>>
  BY DEF RollForward
<1> DEFINE c == request.checkpoint
           t == request.target
<1>2. /\ plan \in Plans /\ Last \in Nat /\ MaxGen \in Nat /\ t \in Phase /\ c \in Checkpoints
      /\ GoodStory(c.status, c.current, c.phase, c.bytes) /\ (c.current # 0 => t <= c.current)
      /\ \A p \in Phase : GoodPhase(phase[p], p) /\ Used(phase[p]) = made[p] /\ made[p] \in 0 .. MaxGen
  BY <1>1, InvFacts, PlanFacts DEF GoodRequest, Checkpoints, GoodPhases
<1>3. /\ \A p \in Phase : Used(c.phase[p]) <= Used(phase[p])
      /\ ~astray => Orderly(c.status, c.current, c.phase) /\ Stands(c.phase, listed)
  BY <1>2 DEF LifecycleInv, Known
<1>4. /\ status' = c.status /\ current' = c.current /\ bytes' = c.bytes
      /\ phase' = [p \in Phase |-> IF p < t THEN phase[p] ELSE Restored(c, p)]
      /\ requests' \subseteq requests /\ UNCHANGED <<pending, rounds, listed, made>>
  BY <1>1
<1>5. ~astray' => ~astray /\ \A p \in Phase : p < t => phase[p] = c.phase[p]
  <2>1. \A p \in Phase : p < t => p \in 1 .. t - 1
    BY <1>2 DEF Phase
  <2> QED  BY <1>1, <2>1
<1> HIDE DEF c, t
<1>6. \A p \in Phase : GoodPhase(c.phase[p], p)
  BY <1>2 DEF GoodStory
<1>7. /\ phase' = [p \in Phase |-> phase'[p]]
      /\ \A p \in Phase : p < t => phase'[p] = phase[p]
      /\ \A p \in Phase : ~(p < t) => phase'[p] = Restored(c, p)
  BY <1>4
<1>8. ASSUME NEW p \in Phase, ~(p < t)
      PROVE  /\ GoodPhase(phase'[p], p) /\ Used(phase'[p]) = Used(phase[p])
             /\ phase'[p].state = c.phase[p].state /\ phase'[p].gen = c.phase[p].gen
             /\ phase'[p].votes \subseteq c.phase[p].votes
  BY <1>2, <1>3, <1>6, <1>7, <1>8, RestoredGood
<1>9. GoodPhases(phase')
  BY <1>2, <1>7, <1>8 DEF GoodPhases
<1>10. \A p \in Phase : made'[p] = Used(phase'[p]) /\ made[p] <= made'[p]
  <2>1. \A p \in Phase : Used(phase'[p]) = Used(phase[p])
    BY <1>7, <1>8
  <2> QED  BY <1>2, <1>4, <2>1
<1>11. Ahead(current', phase')
  <2>1. \A p \in Phase : c.current # 0 /\ p > c.current => ~(p < t)
    <3>1. c.current \in 0 .. Last
      BY <1>2 DEF GoodStory
    <3> QED  BY <1>2, <3>1 DEF Phase
  <2>2. Ahead(c.current, c.phase)
    BY <1>2 DEF GoodStory
  <2> QED  BY <1>4, <1>8, <2>1, <2>2 DEF Ahead
<1>12. ASSUME ~astray'
       PROVE  ~astray /\ Orderly(status', current', phase') /\ Stands(phase', listed')
  <2>1. \A p \in Phase : /\ phase'[p].state = c.phase[p].state /\ phase'[p].gen = c.phase[p].gen
                        /\ phase'[p].votes \subseteq c.phase[p].votes
    BY <1>5, <1>7, <1>8, <1>12
  <2>2. Upheld(c.phase, phase')
    BY <2>1 DEF Upheld
  <2>3. Orderly(status', current', phase')
    BY <1>3, <1>4, <1>5, <1>12, <2>1 DEF Orderly
  <2> QED  BY <1>2, <1>3, <1>4, <1>5, <1>12, <2>2, <2>3, UpheldStands
<1>13. Inherited(requests')
  BY <1>4, InvFacts, RequestsInherited DEF Inherited
<1>14. /\ status' \in Status /\ current' \in 0 .. Last /\ bytes' = [p \in Phase |-> bytes'[p]]
       /\ \A p \in Phase : bytes'[p] \in 0 .. MaxGen
  BY <1>2, <1>4 DEF GoodStory
<1> QED  BY <1>4, <1>9, <1>10, <1>11, <1>12, <1>13, <1>14, InvFacts DEF StepGood

-----------------------------------------------------------------------------
LEMMA InitInv ==
    ASSUME Init
    PROVE  LifecycleInv
<1>1. /\ plan \in Plans /\ Last \in Nat \ {0} /\ MaxGen \in Nat /\ 1 \in Phase
  BY PlanFacts DEF Init, Phase
<1> DEFINE f == [Fresh EXCEPT !.state = "in_progress"]
<1>2. /\ IsPhase(Fresh) /\ Fresh.state = "not_started" /\ Fresh.gen = 0 /\ Fresh.peak = 0
      /\ Fresh.votes = {} /\ Fresh.kept = {} /\ Fresh.read.gen = 0
  BY DEF Fresh, IsPhase
<1>3. f = InState(Fresh, "in_progress")
  BY DEF InState
<1>4. /\ IsPhase(f) /\ f.state = "in_progress" /\ f.gen = 0 /\ f.peak = 0
      /\ f.votes = {} /\ f.kept = {} /\ f.read.gen = 0
  BY <1>2, <1>3, StateFields
<1>5. phase = [p \in Phase |-> IF p = 1 THEN f ELSE Fresh]
  BY DEF Init
<1> HIDE DEF f
<1>6. /\ phase = [p \in Phase |-> phase[p]] /\ phase[1] = f
      /\ \A p \in Phase : p # 1 => phase[p] = Fresh
  BY <1>1, <1>5
<1>7. ASSUME NEW p \in Phase
      PROVE  /\ IsPhase(phase[p]) /\ phase[p].state \in {"not_started", "in_progress"}
             /\ phase[p].gen = 0 /\ phase[p].peak = 0 /\ phase[p].votes = {}
             /\ phase[p].kept = {} /\ phase[p].read.gen = 0
             /\ p > 1 => phase[p].state = "not_started"
  <2>1. p > 1 => p # 1
    BY <1>1 DEF Phase
  <2> QED  BY <1>2, <1>4, <1>6, <2>1
<1>8. ASSUME NEW p \in Phase
      PROVE  GoodPhase(phase[p], p)
  <2>1. Sound(phase[p], p)
    BY <1>7 DEF Sound, Unstarted
  <2> QED  BY <1>1, <1>7, <2>1 DEF GoodPhase, State
<1>9. /\ status = "in_progress" /\ current = 1 /\ pending = 0 /\ rounds = [p \in Phase |-> 0]
      /\ requests = {} /\ listed = {} /\ bytes = [p \in Phase |-> 0] /\ made = [p \in Phase |-> 0]
  BY DEF Init
<1>10. \A p \in Phase : p > 1 => phase[p].state \in Unstarted
  BY <1>7 DEF Unstarted
<1>11. GoodStory(status, current, phase, bytes)
  <2>1. bytes = [p \in Phase |-> bytes[p]] /\ \A p \in Phase : bytes[p] \in 0 .. MaxGen
    BY <1>1, <1>9
  <2> QED  BY <1>1, <1>8, <1>9, <1>10, <2>1 DEF GoodStory, Ahead, Status
<1>12. AllocatedOnce
  <2> SUFFICES ASSUME NEW p \in Phase
               PROVE  made[p] = Max2(phase[p].gen, phase[p].peak)
    BY DEF AllocatedOnce
  <2>1. phase[p].gen = 0 /\ phase[p].peak = 0 /\ made[p] = 0
    BY <1>7, <1>9
  <2> QED  BY <2>1 DEF Max2
<1>13. Shape
  BY <1>1, <1>6, <1>9 DEF Shape
<1>14. Orderly(status, current, phase) /\ Stands(phase, listed)
  <2>1. \A p \in Phase : ~(p < 1)
    BY <1>1 DEF Phase
  <2>2. Orderly(status, current, phase)
    BY <1>1, <1>9, <1>10, <2>1, OrderedAt DEF Status
  <2>3. \A p \in Phase : phase[p].votes = {}
    BY <1>7
  <2> QED  BY <2>2, <2>3 DEF Stands
<1> QED  BY <1>9, <1>11, <1>12, <1>13, <1>14 DEF LifecycleInv, Checkpoints

LEMMA NextInv ==
    ASSUME LifecycleInv, [Next]_vars
    PROVE  LifecycleInv'
<1>1. CASE UNCHANGED vars
  <2>1. UNCHANGED <<plan, status, current, phase, pending, rounds, requests, files, listed, astray>>
    BY <1>1 DEF vars, amendments
  <2>2. Inherited(requests')
    BY <2>1, InvFacts, RequestsInherited
  <2> QED  BY <2>1, <2>2, QuietGood, StepGoodInv
<1>2. CASE Next
  <2>1. plan' = plan
    BY <1>2 DEF Next
  <2>2. ASSUME NEW p \in Phase,
               \/ Publish(p) \/ Submit(p) \/ Choose(p) \/ Reject(p) \/ Detach(p)
               \/ Propose(p) \/ Decline(p)
        PROVE  StepGood
    BY <2>2, PublishGood, SubmitGood, ChooseGood, RejectGood, DetachGood, ProposeGood, DeclineGood
  <2>3. ASSUME NEW p \in Phase, NEW who \in Person, Approve(p, who) \/ Amend(p, who)
        PROVE  StepGood
    BY <2>3, ApproveGood, AmendGood
  <2>4. ASSUME Reopen \/ Promote \/ Cancel \/ RollForward
        PROVE  StepGood
    BY <2>4, ReopenGood, PromoteGood, CancelGood, RollForwardGood
  <2>5. ASSUME NEW r \in Owed(phase), Revalidate(r) \/ Return(r)
        PROVE  StepGood
    <3>1. r.phase \in Phase
      BY InvFacts DEF Owed
    <3> QED  BY <2>5, <3>1, RevalidateGood, ReturnGood
  <2>6. Step
    BY <1>2 DEF Next
  <2>7. StepGood
    BY <2>2, <2>3, <2>4, <2>5, <2>6 DEF Step
  <2> QED  BY <2>1, <2>7, StepGoodInv
<1> QED  BY <1>1, <1>2

\* The invariant is inductive.
THEOREM LifecycleInductive == Spec => []LifecycleInv
<1>1. Init => LifecycleInv
  BY InitInv
<1>2. LifecycleInv /\ [Next]_vars => LifecycleInv'
  BY NextInv
<1> QED  BY <1>1, <1>2, PTL DEF Spec

\* The state has its shape.
THEOREM LifecycleTyped == Spec => []TypeOK
<1>1. LifecycleInv => TypeOK
  <2> SUFFICES ASSUME LifecycleInv
               PROVE  TypeOK
    OBVIOUS
  <2>1. \A p \in Phase : GoodPhase(phase[p], p)
    BY InvFacts DEF GoodPhases
  <2>2. \A r \in requests : r.target \in Phase
    BY InvFacts DEF GoodRequest
  <2> QED  BY <2>1, <2>2, InvFacts DEF TypeOK, GoodPhase, State, Status
<1> QED  BY <1>1, LifecycleInductive, PTL

\* Whatever returns, loops, skips and roll-forwards a Story went through, no phase is left behind,
\* until a roll-forward meets an earlier phase that is not as its checkpoint has it.
THEOREM NothingLeftBehind == Spec => []NoPhaseLeftBehind
<1>1. LifecycleInv => NoPhaseLeftBehind
  <2> SUFFICES ASSUME LifecycleInv, ~astray
               PROVE  /\ status = "closed" => \A p \in Phase : phase[p].state \in Complete
                      /\ current # 0 => /\ \A p \in 1 .. current - 1 : phase[p].state \in Complete
                                        /\ \A p \in current + 1 .. Last :
                                             phase[p].state \in {"not_started", "skipped"}
    BY DEF NoPhaseLeftBehind
  <2>1. Last \in Nat /\ current \in 0 .. Last
    BY InvFacts, PlanFacts
  <2>2. \A p \in 1 .. current - 1 : p \in Phase /\ p < current
    BY <2>1 DEF Phase
  <2>3. \A p \in current + 1 .. Last : p \in Phase /\ p > current
    BY <2>1 DEF Phase
  <2>4. Orderly(status, current, phase) /\ Ahead(current, phase)
    BY InvFacts
  <2> QED  BY <2>2, <2>3, <2>4 DEF Orderly, Ahead, Unstarted
<1> QED  BY <1>1, LifecycleInductive, PTL

\* An approval stands only on the inputs it decided over, or is listed for revalidation, until
\* such a roll-forward.
THEOREM ApprovalsStand == Spec => []ApprovalStands
<1>1. LifecycleInv => ApprovalStands
  BY InvFacts DEF ApprovalStands, Stands, StandsOn
<1> QED  BY <1>1, LifecycleInductive, PTL

\* An approved phase has enough approvals of the generation it is at, astray or not.
THEOREM ApprovalsSuffice == Spec => []EnoughApproved
<1>1. LifecycleInv => EnoughApproved
  <2> SUFFICES ASSUME LifecycleInv, NEW p \in Phase, phase[p].state = "approved"
               PROVE  Cardinality({v.who : v \in {v \in phase[p].votes : v.gen = phase[p].gen}}) >= Minimum(p)
    BY DEF EnoughApproved
  <2>1. Sound(phase[p], p)
    BY InvFacts DEF GoodPhases, GoodPhase
  <2>2. {v \in phase[p].votes : v.gen = phase[p].gen} = phase[p].votes
    BY <2>1 DEF Sound
  <2> QED  BY <2>1, <2>2 DEF Sound, Voters
<1> QED  BY <1>1, LifecycleInductive, PTL

\* No generation number is given twice, whatever was rolled forward.
THEOREM GenerationsAllocatedOnce == Spec => []AllocatedOnce
<1>1. LifecycleInv => AllocatedOnce
  BY DEF LifecycleInv
<1> QED  BY <1>1, LifecycleInductive, PTL
=============================================================================
