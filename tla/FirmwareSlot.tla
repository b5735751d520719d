---------------------------- MODULE FirmwareSlot ----------------------------
(***************************************************************************)
(* What the updater promises about firmware, without flash, records or     *)
(* uploads: a slot holds one bootable image or none.  An image enters the  *)
(* slot as a whole and only when the slot is empty, leaves it as a whole,  *)
(* and neither happens under a running firmware.  What runs is what the    *)
(* slot holds.                                                             *)
(***************************************************************************)
CONSTANTS Verified,     \* the images that may be installed
          NoImage

VARIABLES slot,         \* the bootable image
          running       \* the firmware that runs

vars == <<slot, running>>

Init == slot \in Verified \cup {NoImage} /\ running = NoImage

\* The update starts: from here on the device has no firmware.
Discard == running = NoImage /\ slot' = NoImage /\ UNCHANGED running

\* The commit point.
Install ==
    /\ running = NoImage /\ slot = NoImage
    /\ slot' \in Verified
    /\ UNCHANGED running

Start == slot # NoImage /\ running = NoImage /\ running' = slot /\ UNCHANGED slot

Stop == running' = NoImage /\ UNCHANGED slot

Next == Discard \/ Install \/ Start \/ Stop

Spec == Init /\ [][Next]_vars
=============================================================================
