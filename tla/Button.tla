------------------------------- MODULE Button -------------------------------
(***************************************************************************)
(* button.c: the level of the button, sampled by a task, turned into two   *)
(* requests: a hold asks for provisioning, a series of short presses asks  *)
(* for the updater.  Time is esp_timer_get_time() in milliseconds cut to   *)
(* uint32_t, so it wraps; all distances are taken modulo the same width.   *)
(***************************************************************************)
EXTENDS Integers

CONSTANTS HoldMs,       \* BUTTON_HOLD_MS
          WindowMs,     \* FW_UPDATE_GESTURE_WINDOW_MS
          Presses,      \* FW_UPDATE_GESTURE_PRESSES
          TimeMod,      \* 2^32: the width of now_ms
          MaxGap        \* bound on the time between two samples

\* The longest time between two press starts that the gesture still counts: a press
\* short of a hold and a pause short of the window, each noticed a sample late.
LongestPause == HoldMs + WindowMs + 2 * MaxGap - 2

\* Between the oldest and the newest press start in the ring lies less than one
\* wrap of the time, and so does any time the code measures.
ASSUME ButtonAssumption ==
    /\ HoldMs \in Nat \ {0} /\ WindowMs \in Nat \ {0}
    /\ Presses \in Nat \ {0} /\ MaxGap \in Nat \ {0}
    /\ TimeMod \in Nat /\ TimeMod > LongestPause
    /\ TimeMod > (Presses - 1) * LongestPause

VARIABLES now,              \* now_ms of the last sample
          isPressed, isHoldReported, pressStart,
          gestureStarts,    \* gesture_starts_ms, a ring
          gestureNext, gesturePresses, release,
          event             \* what the last sample returned

button == <<now, isPressed, isHoldReported, pressStart,
            gestureStarts, gestureNext, gesturePresses, release, event>>

Times == 0..(TimeMod - 1)
Events == {"NONE", "PRESS_STARTED", "HOLD_REACHED", "UPDATE_GESTURE"}

ButtonTypeOK ==
    /\ now \in Times
    /\ isPressed \in BOOLEAN /\ isHoldReported \in BOOLEAN
    /\ pressStart \in Times /\ release \in Times
    /\ gestureStarts \in [0..(Presses - 1) -> Times]
    /\ gestureNext \in 0..(Presses - 1)
    /\ gesturePresses \in 0..Presses
    /\ event \in Events

\* RunButtonTask() starts from a zeroed state, at any time.
ButtonInit ==
    /\ now \in Times
    /\ isPressed = FALSE /\ isHoldReported = FALSE /\ pressStart = 0 /\ release = 0
    /\ gestureStarts = [i \in 0..(Presses - 1) |-> 0]
    /\ gestureNext = 0 /\ gesturePresses = 0
    /\ event = "NONE"

-----------------------------------------------------------------------------
\* later - earlier in uint32_t.
Elapsed(earlier, later) == (later - earlier + TimeMod) % TimeMod

ResetGesture == gesturePresses' = 0 /\ gestureNext' = 0
KeepGesture == UNCHANGED <<gesturePresses, gestureNext>>

\* The slot to be replaced next is the oldest of a full ring.
IsGestureComplete ==
    /\ gesturePresses = Presses
    /\ Elapsed(gestureStarts[gestureNext],
               gestureStarts[(gestureNext + Presses - 1) % Presses]) <= WindowMs

\* Mutant: the starts of old presses stay in the ring for ever.
ProcessGestureReleaseUnaged(t) ==
    \/ /\ isPressed /\ release' = t
       /\ \/ /\ ~isHoldReported /\ IsGestureComplete
             /\ ResetGesture /\ event' = "UPDATE_GESTURE"
          \/ /\ isHoldReported \/ ~IsGestureComplete
             /\ KeepGesture /\ event' = "NONE"
    \/ ~isPressed /\ KeepGesture /\ event' = "NONE" /\ UNCHANGED release

\* A release may complete the gesture; a long time without one forgets it.
ProcessGestureRelease(t) ==
    \/ /\ isPressed /\ release' = t
       /\ \/ /\ ~isHoldReported /\ IsGestureComplete
             /\ ResetGesture /\ event' = "UPDATE_GESTURE"
          \/ /\ isHoldReported \/ ~IsGestureComplete
             /\ KeepGesture /\ event' = "NONE"
    \/ /\ ~isPressed /\ event' = "NONE" /\ UNCHANGED release
       /\ \/ gesturePresses > 0 /\ Elapsed(release, t) >= WindowMs /\ ResetGesture
          \/ ~(gesturePresses > 0 /\ Elapsed(release, t) >= WindowMs) /\ KeepGesture

CountGesturePress(t) ==
    /\ gestureStarts' = [gestureStarts EXCEPT ![gestureNext] = t]
    /\ gestureNext' = (gestureNext + 1) % Presses
    /\ gesturePresses' = IF gesturePresses < Presses THEN gesturePresses + 1 ELSE gesturePresses

ReleasedSample(t) ==
    /\ ProcessGestureRelease(t)
    /\ isPressed' = FALSE /\ isHoldReported' = FALSE
    /\ UNCHANGED <<pressStart, gestureStarts>>

PressedSample(t) ==
    /\ ~isPressed
    /\ isPressed' = TRUE /\ isHoldReported' = FALSE /\ pressStart' = t
    /\ CountGesturePress(t)
    /\ event' = "PRESS_STARTED"
    /\ UNCHANGED release

\* Mutant: the hold is reported as long as it lasts.
HeldSampleRepeats(t) ==
    /\ isPressed
    /\ \/ /\ Elapsed(pressStart, t) >= HoldMs
          /\ isHoldReported' = TRUE /\ ResetGesture /\ event' = "HOLD_REACHED"
       \/ /\ Elapsed(pressStart, t) < HoldMs
          /\ KeepGesture /\ event' = "NONE" /\ UNCHANGED isHoldReported
    /\ UNCHANGED <<isPressed, pressStart, gestureStarts, release>>

HeldSample(t) ==
    /\ isPressed
    /\ \/ /\ ~isHoldReported /\ Elapsed(pressStart, t) >= HoldMs
          /\ isHoldReported' = TRUE /\ ResetGesture /\ event' = "HOLD_REACHED"
       \/ /\ isHoldReported \/ Elapsed(pressStart, t) < HoldMs
          /\ KeepGesture /\ event' = "NONE" /\ UNCHANGED isHoldReported
    /\ UNCHANGED <<isPressed, pressStart, gestureStarts, release>>

\* ProcessButtonSample(), dt after the sample before.
ProcessButtonSample(isLow, dt) ==
    /\ now' = (now + dt) % TimeMod
    /\ \/ ~isLow /\ ReleasedSample(now')
       \/ isLow /\ (PressedSample(now') \/ HeldSample(now'))

\* A task that was held up takes the samples it missed at once, some of them in the
\* same millisecond; the level lasts for as long.
SampleGaps(isLow) == {dt \in 0..MaxGap : dt = 0 => isLow = isPressed}

\* RunButtonTask(): the level is what it is at each sample.
ButtonNext == \E isLow \in BOOLEAN : \E dt \in SampleGaps(isLow) : ProcessButtonSample(isLow, dt)

ButtonSpec == ButtonInit /\ [][ButtonNext]_button
=============================================================================
