---------------------------- MODULE ButtonPromise ---------------------------
(***************************************************************************)
(* What button.h promises, over time that never wraps and without a ring:  *)
(* a continuous press requests provisioning once, at the first sample at   *)
(* or after the threshold; the last Presses press starts, none of a press  *)
(* that was held, request the updater if they lie within the window.  Only *)
(* the ages of the last press starts are remembered, and only up to Long:  *)
(* a start that old is too old for any gesture, as is one never made or    *)
(* one that has served a request.                                          *)
(***************************************************************************)
EXTENDS Integers

CONSTANTS HoldMs, WindowMs, Presses

VARIABLES down,     \* the level of the last sample
          ages,     \* the ages of the last press starts, the newest first
          promised  \* the request due at the last sample

promise == <<down, ages, promised>>

Long == HoldMs + WindowMs
Older(age, dt) == IF age + dt < Long THEN age + dt ELSE Long
Forgotten == [j \in 0..(Presses - 1) |-> Long]
Aged(dt) == [j \in 0..(Presses - 1) |-> Older(ages[j], dt)]

PromiseInit == down = FALSE /\ ages = Forgotten /\ promised = "NONE"

\* The new press start pushes out the oldest.
Press(dt) ==
    /\ ~down
    /\ ages' = [j \in 0..(Presses - 1) |-> IF j = 0 THEN 0 ELSE Older(ages[j - 1], dt)]
    /\ promised' = "NONE"

Hold(dt) ==
    /\ down
    /\ IF ages[0] < HoldMs /\ Older(ages[0], dt) >= HoldMs
       THEN promised' = "HOLD_REACHED" /\ ages' = Forgotten
       ELSE promised' = "NONE" /\ ages' = Aged(dt)

\* A press that was held has no age any more.
Release(dt) ==
    IF down /\ ages[0] < HoldMs /\ ages[Presses - 1] - ages[0] <= WindowMs
    THEN promised' = "UPDATE_GESTURE" /\ ages' = Forgotten
    ELSE promised' = "NONE" /\ ages' = Aged(dt)

Observe(isLow, dt) ==
    /\ down' = isLow
    /\ IF isLow THEN Press(dt) \/ Hold(dt) ELSE Release(dt)
=============================================================================
