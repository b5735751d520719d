----------------------- MODULE CredentialStoreProofs ------------------------
(***************************************************************************)
(* Proofs about CredentialStore for any set of pairs: what a successful    *)
(* replacement guarantees whatever fails, and, without NVS errors, that    *)
(* the two records implement one pair that power losses cannot tear.       *)
(***************************************************************************)
EXTENDS CredentialStore, TLAPS

\* The steps of a replacement in which cred_pending, and cred_active as well,
\* hold the pair on offer.
OfferInv ==
    /\ pc \in ReplaceAt => offer \in Pairs
    /\ pc \notin ReplaceAt => offer = None
    /\ pc \in {"pending_verify", "active", "active_verify", "erase"} => pending = offer
    /\ pc \in {"active_verify", "erase"} => active = offer
    /\ result = "ok" => pc = "run" /\ active \in Pairs /\ pending \in {active, None, Bad}

\* With no NVS errors cred_pending is there only between its write and its
\* erasure, or until the next start has dealt with it.
CutInv ==
    /\ active = Bad => pending \in Pairs
    /\ pc = "promote" => pending \in Pairs
    /\ pc = "promote_verify" => active = pending /\ pending \in Pairs
    /\ pc = "promote_erase" => pending = Bad \/ (active = pending /\ pending \in Pairs)
    /\ pc \in {"load", "run", "pending"} => pending = None

\* Every step keeps the types.
LEMMA TypeStep == TypeOK /\ OfferInv /\ [Next]_vars => TypeOK'
<1> SUFFICES ASSUME TypeOK, OfferInv, [Next]_vars PROVE TypeOK'
  OBVIOUS
<1> USE StoreAssumption DEF TypeOK, Records, BootAt, ReplaceAt
<1>1. CASE Start
  BY <1>1 DEF Start, InitCredentialStore, RecoverPendingRecord, Promote, PromoteVerify,
     PromoteErase, LoadCredentials, WriteActive, Verify, ErasePendingRecord, Torn, nvs
<1>2. CASE Replacing
  BY <1>2 DEF Replacing, ReplacePending, ReplacePendingVerify, ReplaceActive,
     ReplaceActiveVerify, ReplaceErase, WriteActive, WritePending, Verify,
     ErasePendingRecord, Torn, Returned, nvs, OfferInv
<1>3. CASE \E pair \in Pairs : ReplaceCredentials(pair)
  BY <1>3 DEF ReplaceCredentials, nvs
<1>4. CASE PowerLoss
  BY <1>4 DEF PowerLoss, Torn, OfferInv
<1>5. CASE UNCHANGED vars
  BY <1>5 DEF vars, nvs
<1> QED
  BY <1>1, <1>2, <1>3, <1>4, <1>5 DEF Next

\* Every step keeps the records in step with the replacement under way.
LEMMA OfferStep == TypeOK /\ OfferInv /\ [Next]_vars => OfferInv'
<1> SUFFICES ASSUME TypeOK, OfferInv, [Next]_vars PROVE OfferInv'
  OBVIOUS
<1> USE StoreAssumption DEF TypeOK, Records, BootAt, ReplaceAt, OfferInv
<1>1. CASE Start
  BY <1>1 DEF Start, InitCredentialStore, RecoverPendingRecord, Promote, PromoteVerify,
     PromoteErase, LoadCredentials, WriteActive, Verify, ErasePendingRecord, Torn, nvs
<1>2. CASE Replacing
  BY <1>2 DEF Replacing, ReplacePending, ReplacePendingVerify, ReplaceActive,
     ReplaceActiveVerify, ReplaceErase, WriteActive, WritePending, Verify,
     ErasePendingRecord, Torn, Returned, nvs
<1>3. CASE \E pair \in Pairs : ReplaceCredentials(pair)
  BY <1>3 DEF ReplaceCredentials, nvs
<1>4. CASE PowerLoss
  BY <1>4 DEF PowerLoss
<1>5. CASE UNCHANGED vars
  BY <1>5 DEF vars, nvs
<1> QED
  BY <1>1, <1>2, <1>3, <1>4, <1>5 DEF Next

\* The types and the replacement invariant hold initially and forever.
LEMMA Basics == Spec => [](TypeOK /\ OfferInv)
<1>1. Init => TypeOK /\ OfferInv
  BY StoreAssumption DEF Init, TypeOK, OfferInv, Records, BootAt, ReplaceAt
<1> QED
  BY <1>1, TypeStep, OfferStep, PTL DEF Spec

\* ReplaceCredentials() returned true: the next start loads the new pair, however
\* many NVS calls failed, the erasure of cred_pending included.
THEOREM StoredSafety == Spec => []OkIsStored
<1>1. OfferInv => OkIsStored
  BY StoreAssumption DEF OfferInv, OkIsStored, NextLoad
<1> QED
  BY <1>1, Basics, PTL

\* Without NVS errors the records always allow a complete pair to be recovered.
LEMMA CutStep ==
    ASSUME Faults = FALSE
    PROVE  TypeOK /\ OfferInv /\ CutInv /\ [Next]_vars => CutInv'
<1> SUFFICES ASSUME TypeOK, OfferInv, CutInv, [Next]_vars PROVE CutInv'
  OBVIOUS
<1> USE StoreAssumption DEF TypeOK, Records, BootAt, ReplaceAt, OfferInv, CutInv
<1>1. CASE Start
  BY <1>1 DEF Start, InitCredentialStore, RecoverPendingRecord, Promote, PromoteVerify,
     PromoteErase, LoadCredentials, WriteActive, Verify, ErasePendingRecord, Torn, nvs
<1>2. CASE Replacing
  BY <1>2 DEF Replacing, ReplacePending, ReplacePendingVerify, ReplaceActive,
     ReplaceActiveVerify, ReplaceErase, WriteActive, WritePending, Verify,
     ErasePendingRecord, Torn, Returned, nvs
<1>3. CASE \E pair \in Pairs : ReplaceCredentials(pair)
  BY <1>3 DEF ReplaceCredentials, nvs
<1>4. CASE PowerLoss
  BY <1>4 DEF PowerLoss, Torn
<1>5. CASE UNCHANGED vars
  BY <1>5 DEF vars, nvs
<1> QED
  BY <1>1, <1>2, <1>3, <1>4, <1>5 DEF Next

\* CutInv holds forever without NVS errors.
LEMMA Cuts == ASSUME Faults = FALSE PROVE Spec => []CutInv
<1>1. Init => CutInv
  BY StoreAssumption DEF Init, CutInv
<1>2. TypeOK /\ OfferInv /\ CutInv /\ [Next]_vars => CutInv'
  BY CutStep
<1> QED
  BY <1>1, <1>2, Basics, PTL DEF Spec

\* SPEC-002 NFR-3: cred_active is never incomplete without a complete cred_pending.
THEOREM PairSafety == ASSUME Faults = FALSE PROVE Spec => []AlwaysOneComplete
<1>1. CutInv => AlwaysOneComplete
  BY DEF CutInv, AlwaysOneComplete
<1> QED
  BY <1>1, Cuts, PTL

\* Each step is a step of the slot, or leaves it alone.
LEMMA SlotStep ==
    ASSUME Faults = FALSE
    PROVE  TypeOK /\ OfferInv /\ CutInv /\ [Next]_vars => [Slot!Next]_Slot!vars
<1> SUFFICES ASSUME TypeOK, OfferInv, CutInv, [Next]_vars PROVE [Slot!Next]_Slot!vars
  OBVIOUS
<1> USE StoreAssumption DEF TypeOK, Records, BootAt, ReplaceAt, OfferInv, CutInv, NextLoad,
    Slot!Next, Slot!vars, Slot!Offer, Slot!Replace, Slot!Close
<1>1. CASE Start
  BY <1>1 DEF Start, InitCredentialStore, RecoverPendingRecord, Promote, PromoteVerify,
     PromoteErase, LoadCredentials, WriteActive, Verify, ErasePendingRecord, Torn, nvs
<1>2. CASE Replacing
  BY <1>2 DEF Replacing, ReplacePending, ReplacePendingVerify, ReplaceActive,
     ReplaceActiveVerify, ReplaceErase, WriteActive, WritePending, Verify,
     ErasePendingRecord, Torn, Returned, nvs
<1>3. CASE \E pair \in Pairs : ReplaceCredentials(pair)
  BY <1>3 DEF ReplaceCredentials, nvs
<1>4. CASE PowerLoss
  BY <1>4 DEF PowerLoss, Torn
<1>5. CASE UNCHANGED vars
  BY <1>5 DEF vars, nvs
<1> QED
  BY <1>1, <1>2, <1>3, <1>4, <1>5 DEF Next

\* credential_store.h: "a power loss leaves either the complete old pair or the
\* complete new pair", as a refinement of the one-pair specification.
THEOREM StoreImplementsSlot == ASSUME Faults = FALSE PROVE Spec => SlotSpec
<1>1. Init => Slot!Init
  BY StoreAssumption DEF Init, Slot!Init, NextLoad
<1>2. TypeOK /\ OfferInv /\ CutInv /\ [Next]_vars => [Slot!Next]_Slot!vars
  BY SlotStep
<1> QED
  BY <1>1, <1>2, Basics, Cuts, PTL DEF Spec, SlotSpec, Slot!Spec
=============================================================================
