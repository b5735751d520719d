--------------------------- MODULE CredentialStore --------------------------
(***************************************************************************)
(* credential_store.c: one credential pair in two NVS records.  A          *)
(* replacement writes cred_pending and verifies it, writes cred_active and *)
(* verifies it, then erases cred_pending; every start promotes a complete  *)
(* cred_pending it finds.  The power may go at any point, and a write that *)
(* is cut may leave the old record, the new one or one that is incomplete. *)
(***************************************************************************)
CONSTANTS Pairs,    \* the pairs IsCredentialsValid() accepts
          None,     \* a record that does not exist
          Bad,      \* a record that is incomplete, invalid or undecryptable
          Faults    \* BOOLEAN: NVS calls may report an error

ASSUME StoreAssumption ==
    /\ None \notin Pairs /\ Bad \notin Pairs /\ None # Bad
    /\ Faults \in BOOLEAN

VARIABLES active,   \* cred_active
          pending,  \* cred_pending
          pc,       \* where the store is
          ready,    \* s_ready
          loaded,   \* what LoadCredentials() gave at this start
          offer,    \* the argument of ReplaceCredentials(), or None
          result,   \* what the last ReplaceCredentials() of this start returned
          prior     \* history: cred_active when ReplaceCredentials() was called

nvs == <<active, pending>>
vars == <<nvs, pc, ready, loaded, offer, result, prior>>

Records == Pairs \cup {None, Bad}

BootAt == {"init", "recover", "promote", "promote_verify", "promote_erase", "load"}
ReplaceAt == {"pending", "pending_verify", "active", "active_verify", "erase"}

TypeOK ==
    /\ active \in Records /\ pending \in Records
    /\ pc \in BootAt \cup ReplaceAt \cup {"run"}
    /\ ready \in BOOLEAN
    /\ loaded \in Pairs \cup {None}
    /\ offer \in Pairs \cup {None}
    /\ result \in {"none", "ok", "failed"}
    /\ prior \in Records

Init ==
    /\ active \in Pairs \cup {None} /\ pending = None
    /\ pc = "init" /\ ready = FALSE /\ loaded = None /\ offer = None /\ result = "none"
    /\ prior = None

-----------------------------------------------------------------------------
(* One NVS write, and the two steps of WriteAndVerifyRecord().             *)

\* What a write that failed or was cut leaves of a record.
Torn(old, new) == {old, new, Bad}

\* nvs_set_blob() and nvs_commit()
WriteActive(pair, good, bad) ==
    /\ \/ active' = pair /\ pc' = good
       \/ Faults /\ active' \in Torn(active, pair) /\ pc' = bad
    /\ UNCHANGED pending
WritePending(pair, good, bad) ==
    /\ \/ pending' = pair /\ pc' = good
       \/ Faults /\ pending' \in Torn(pending, pair) /\ pc' = bad
    /\ UNCHANGED active

\* The read-back and its comparison; a failed read is a mismatch.
Verify(good, bad) ==
    /\ pc' = good \/ (Faults /\ pc' = bad)
    /\ UNCHANGED nvs

\* nvs_erase_key() of cred_pending; its result is ignored.
ErasePendingRecord ==
    /\ pending' \in {None} \cup (IF Faults THEN Torn(pending, None) ELSE {})
    /\ UNCHANGED active

-----------------------------------------------------------------------------
(* InitCredentialStore() and LoadCredentials(), once per start.            *)

InitCredentialStore ==
    /\ pc = "init"
    /\ \/ ready' = TRUE /\ pc' = "recover"
       \/ Faults /\ ready' = FALSE /\ pc' = "load"
    /\ UNCHANGED <<nvs, loaded, offer, result, prior>>

\* Mutant: whatever cred_pending holds is promoted.
PromoteAnything ==
    /\ pc = "recover"
    /\ pc' = IF pending = None THEN "load" ELSE "promote"
    /\ UNCHANGED <<nvs, ready, loaded, offer, result, prior>>

\* RecoverPendingRecord(): promote a complete record, erase any other.  An
\* error other than "not found" counts as incomplete.
RecoverPendingRecord ==
    /\ pc = "recover"
    /\ \/ pending = None /\ pc' = "load"
       \/ pending \in Pairs /\ pc' = "promote"
       \/ (pending = Bad \/ Faults) /\ pc' = "promote_erase"
       \/ Faults /\ pc' = "load"        \* the namespace cannot be opened
    /\ UNCHANGED <<nvs, ready, loaded, offer, result, prior>>

Promote ==
    /\ pc = "promote"
    /\ WriteActive(pending, "promote_verify", "load")
    /\ UNCHANGED <<ready, loaded, offer, result, prior>>

PromoteVerify ==
    /\ pc = "promote_verify"
    /\ Verify("promote_erase", "load")
    /\ UNCHANGED <<ready, loaded, offer, result, prior>>

PromoteErase ==
    /\ pc = "promote_erase"
    /\ ErasePendingRecord /\ pc' = "load"
    /\ UNCHANGED <<ready, loaded, offer, result, prior>>

LoadCredentials ==
    /\ pc = "load" /\ pc' = "run"
    /\ \/ ready /\ active \in Pairs /\ loaded' = active
       \/ (~ready \/ active \notin Pairs \/ Faults) /\ loaded' = None
    /\ UNCHANGED <<nvs, ready, offer, result, prior>>

-----------------------------------------------------------------------------
(* ReplaceCredentials().                                                   *)

\* Mutant: the active record is written without a pending one.
ReplaceInPlace(pair) ==
    /\ pc = "run" /\ ready
    /\ offer' = pair /\ result' = "none" /\ pc' = "active"
    /\ prior' = active
    /\ UNCHANGED <<nvs, ready, loaded>>

\* A store that is not ready, or a namespace that cannot be opened, fails at once.
ReplaceCredentials(pair) ==
    /\ pc = "run"
    /\ \/ ready /\ offer' = pair /\ result' = "none" /\ pc' = "pending"
       \/ (~ready \/ Faults) /\ result' = "failed" /\ UNCHANGED <<offer, pc>>
    /\ prior' = active
    /\ UNCHANGED <<nvs, ready, loaded>>

\* The function returns: the result is set where the caller goes on.
Returned ==
    /\ result' = IF pc' # "run" THEN result ELSE IF pc = "erase" THEN "ok" ELSE "failed"
    /\ offer' = IF pc' = "run" THEN None ELSE offer
    /\ UNCHANGED <<ready, loaded, prior>>

ReplacePending == pc = "pending" /\ WritePending(offer, "pending_verify", "run") /\ Returned
ReplacePendingVerify == pc = "pending_verify" /\ Verify("active", "run") /\ Returned

\* Mutant: a failed write of the active record is ignored.
ReplaceActiveUnchecked == pc = "active" /\ WriteActive(offer, "active_verify", "erase") /\ Returned

ReplaceActive == pc = "active" /\ WriteActive(offer, "active_verify", "run") /\ Returned
ReplaceActiveVerify == pc = "active_verify" /\ Verify("erase", "run") /\ Returned
ReplaceErase == pc = "erase" /\ ErasePendingRecord /\ pc' = "run" /\ Returned

-----------------------------------------------------------------------------
\* The power goes; the write that was under way is torn.
PowerLoss ==
    /\ active' \in CASE pc = "promote" -> Torn(active, pending)
                     [] pc = "active"  -> Torn(active, offer)
                     [] OTHER          -> {active}
    /\ pending' \in CASE pc = "pending"                  -> Torn(pending, offer)
                      [] pc \in {"promote_erase", "erase"} -> Torn(pending, None)
                      [] OTHER                           -> {pending}
    /\ pc' = "init" /\ ready' = FALSE /\ loaded' = None /\ offer' = None /\ result' = "none"
    /\ prior' = None

Start ==
    \/ InitCredentialStore \/ RecoverPendingRecord \/ Promote \/ PromoteVerify
    \/ PromoteErase \/ LoadCredentials

Replacing ==
    \/ ReplacePending \/ ReplacePendingVerify \/ ReplaceActive \/ ReplaceActiveVerify
    \/ ReplaceErase

Next == Start \/ Replacing \/ (\E pair \in Pairs : ReplaceCredentials(pair)) \/ PowerLoss

Spec == Init /\ [][Next]_vars

-----------------------------------------------------------------------------
(* Properties.                                                             *)

\* What an undisturbed start would load.
NextLoad == IF pending \in Pairs THEN pending ELSE IF active \in Pairs THEN active ELSE None

\* A replacement that was reported as stored is what the next start loads,
\* whatever failed on the way and even if erasing cred_pending failed.
OkIsStored == result = "ok" => active \in Pairs /\ NextLoad = active

\* NFR-3, without NVS errors: wherever the power goes, an incomplete cred_active
\* exists only while a complete cred_pending is there to repair it.
AlwaysOneComplete == active = Bad => pending \in Pairs

\* credential_store.h, ReplaceCredentials(): "On any failure the previous active
\* record is left unchanged."  The code does not keep this: the read-back or the
\* commit may fail after the record has changed.
FailureKeepsActive == result = "failed" => active = prior

\* The two records implement one pair that is replaced as a whole (no NVS errors).
Slot == INSTANCE CredentialSlot WITH slot <- NextLoad, offered <- offer

\* The slot's specification, as implemented: power losses never lose or mix pairs.
SlotSpec == Slot!Spec
=============================================================================
