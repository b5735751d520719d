------------------------------ MODULE MCButton ------------------------------
(***************************************************************************)
(* Button and the promise of its header on the same samples.               *)
(***************************************************************************)
EXTENDS Button

VARIABLES down, ages, promised

Promise == INSTANCE ButtonPromise

vars == <<button, Promise!promise>>

Init == ButtonInit /\ Promise!PromiseInit

Next == \E isLow \in BOOLEAN : \E dt \in SampleGaps(isLow) :
            ProcessButtonSample(isLow, dt) /\ Promise!Observe(isLow, dt)

Spec == Init /\ [][Next]_vars

\* button.h, SPEC-007 FR-9: provisioning is requested at the first sample at or
\* after the threshold and once per press, the updater exactly at the release at
\* which the last presses form the gesture; whatever the ring, its resets and the
\* wrapping times went through before.
RequestsAsPromised ==
    \A request \in {"HOLD_REACHED", "UPDATE_GESTURE"} : event = request <=> promised = request
=============================================================================
