------------------------------ MODULE WorkTrack ------------------------------
(***************************************************************************)
(* What one track of an action task, business or inventory, promises, and    *)
(* one lane of a suggestion of the prototype: its owner does the work once    *)
(* for each authorisation, and only the supervisor makes it ready again or    *)
(* ends it.                                                                *)
(***************************************************************************)
EXTENDS Integers

VARIABLES
    phase,    \* where the work stands
    grants,   \* authorisations given by the supervisor
    runs      \* times the operator reported the work done

vars == <<phase, grants, runs>>

Phases == {"none", "waiting", "ready", "done", "ended"}

\* Some work is proposed from the start.
Init == phase \in {"none", "waiting"} /\ grants = 0 /\ runs = 0

\* A batch proposes the work; it waits for its review.
Propose ==
    /\ phase = "none" /\ grants = 0
    /\ phase' = "waiting"
    /\ UNCHANGED <<grants, runs>>

\* An approval or an override: the work becomes ready, goes back to its review,
\* disappears, or stays as it is.
Authorise ==
    /\ grants' = grants + 1
    /\ phase' \in {"ready", "waiting", "none", phase}
    /\ UNCHANGED runs

Run ==
    /\ phase = "ready"
    /\ phase' = "done"
    /\ runs' = runs + 1
    /\ UNCHANGED grants

\* A rejection, a termination or a confirmed completion.
Finish ==
    /\ phase # "none"
    /\ phase' = "ended"
    /\ UNCHANGED <<grants, runs>>

Next == Propose \/ Authorise \/ Run \/ Finish

Spec == Init /\ [][Next]_vars

\* No work is reported done without an authorisation of its own, and work that
\* is ready still has one left.
OncePerGrant ==
    /\ grants \in Nat /\ runs \in Nat /\ phase \in Phases
    /\ runs <= grants
    /\ phase = "ready" => runs < grants
=============================================================================
