------------------------ MODULE PublicationContract ------------------------
(***************************************************************************)
(* What the publication unit of work promises of the governed decisions of *)
(* one subject, whatever dies, fails or races: at most one decision is     *)
(* unfinished at any time; until its commit it can only be undone or       *)
(* committed; after its commit it is never undone; and what the remote has *)
(* accepted stays accepted.                                                *)
(***************************************************************************)
CONSTANT Txn

VARIABLES
    uncommitted,   \* decisions written to the worktree, not committed
    retained,      \* decisions committed here that the remote still owes
    final          \* decisions that reached the place their policy names

vars == <<uncommitted, retained, final>>

Init == uncommitted = {} /\ retained = {} /\ final = {}

\* A decision is written only when nothing is unfinished.
Write(t) ==
    /\ uncommitted = {} /\ retained = {}
    /\ t \notin final
    /\ uncommitted' = {t}
    /\ UNCHANGED <<retained, final>>

Undo ==
    /\ uncommitted' = {}
    /\ UNCHANGED <<retained, final>>

Commit(t) ==
    /\ uncommitted = {t} /\ uncommitted' = {}
    /\ \/ retained' = {t} /\ UNCHANGED final
       \/ final' = final \cup {t} /\ UNCHANGED retained

Publish(t) ==
    /\ retained = {t} /\ retained' = {}
    /\ final' = final \cup {t}
    /\ UNCHANGED uncommitted

Next == Undo \/ \E t \in Txn : Write(t) \/ Commit(t) \/ Publish(t)

Spec == Init /\ [][Next]_vars
=============================================================================
