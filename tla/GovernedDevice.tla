--------------------------- MODULE GovernedDevice ---------------------------
(***************************************************************************)
(* What the control plane promises the owner of a device, whatever the     *)
(* reasoning model proposes (README.md:307-310, ARCHITECTURE.md:63-67):    *)
(*                                                                         *)
(*   - the device acts only on a permit for that very step, which policy   *)
(*     gives or, where policy requires it, a technician's approval;        *)
(*   - a permit is used once and is never given to a blocked step;         *)
(*   - after a hard block no declared change is carried out;               *)
(*   - once the user closes the device nothing more happens on it.         *)
(*                                                                         *)
(* AgentLoop implements this specification (see AgentLoopRefinement).      *)
(***************************************************************************)
EXTENDS PolicyEngine, Sequences

CONSTANT Steps

VARIABLES
    posture,   \* the device, as policy sees it; never changes
    permits,   \* the steps cleared and not yet carried out
    performed, \* what the device did, in order
    frozen,    \* a hard block fired
    closed     \* the user took the device back

vars == <<posture, permits, performed, frozen, closed>>

Init ==
    /\ posture \in Posture
    /\ permits = {}
    /\ performed = <<>>
    /\ frozen = FALSE
    /\ closed = FALSE

DecisionOn(step) == Evaluate(step, posture).decision

\* Policy allows the step, or a technician approves it where policy asks.
Permit(step) ==
    /\ ~closed
    /\ DecisionOn(step) # "block"
    /\ ~(frozen /\ step.mutating)
    /\ permits' = {step}
    /\ UNCHANGED <<posture, performed, frozen, closed>>

Perform(step) ==
    /\ ~closed
    /\ step \in permits
    /\ performed' = Append(performed, step)
    /\ permits' = {}
    /\ UNCHANGED <<posture, frozen, closed>>

\* A permit that is not used lapses.
Lapse ==
    /\ permits' = {}
    /\ UNCHANGED <<posture, performed, frozen, closed>>

Freeze ==
    /\ permits' = {}
    /\ frozen' = TRUE
    /\ UNCHANGED <<posture, performed, closed>>

Close ==
    /\ closed' = TRUE
    /\ permits' = {}
    /\ UNCHANGED <<posture, performed, frozen>>

Next == Lapse \/ Freeze \/ Close \/ \E step \in Steps : Permit(step) \/ Perform(step)

Spec == Init /\ [][Next]_vars
=============================================================================
