--------------------------- MODULE CredentialSlot ---------------------------
(***************************************************************************)
(* What the credential store promises across power losses (SPEC-002 NFR-3):*)
(* one complete pair, or none yet, replaced as a whole and only by a pair  *)
(* that was handed in.                                                     *)
(***************************************************************************)
CONSTANTS Pairs,    \* complete, valid credential pairs
          None

VARIABLES slot,     \* the pair the next start loads
          offered   \* the pair of the replacement under way, or None

vars == <<slot, offered>>

Init == slot \in Pairs \cup {None} /\ offered = None

Offer == offered = None /\ offered' \in Pairs /\ UNCHANGED slot

\* The commit point; the caller may be gone with it.
Replace == offered # None /\ slot' = offered /\ offered' \in {offered, None}

\* The replacement is over, or its caller is gone.
Close == offered' = None /\ UNCHANGED slot

Next == Offer \/ Replace \/ Close

Spec == Init /\ [][Next]_vars
=============================================================================
