--------------------------- MODULE MCPhaseLifecycle ---------------------------
(* Stories of three phases.  In the first, a rule after phase 1 sends back,  *)
(* goes on or skips ahead, phase 2 completes by itself and two persons       *)
(* approve phase 3, whose input, phase 2, is optional.  In the second,       *)
(* people approve every phase, phases 2 and 3 read phase 1, and a person     *)
(* decides how the Story ends.                                               *)
EXTENDS PhaseLifecycle, TLC
Persons == Permutations(Person)
MCPlans ==
    {[minimum |-> <<1, 0, 2>>, rejectTo |-> <<{1}, {}, {1, 2, 3}>>, reads |-> <<{}, {1}, {2}>>,
      optional |-> <<{}, {}, {2}>>,
      routes |-> <<{1, 2, 3}, {0, 3}, {}>>, asked |-> {}, maxRounds |-> 1, capture |-> 2],
     [minimum |-> <<1, 1, 1>>, rejectTo |-> <<{}, {2}, {1}>>, reads |-> <<{}, {1}, {1}>>,
      optional |-> <<{}, {}, {}>>,
      routes |-> <<{}, {}, {0, 2}>>, asked |-> {3}, maxRounds |-> 1, capture |-> 1]}
=============================================================================
