------------------------------ MODULE FwFlash -------------------------------
(***************************************************************************)
(* The flash the updater and the firmware share (fw_meta_flash.c and the   *)
(* esp_ota_*() calls on ota_0), and what each flash operation may leave    *)
(* there.  An operation succeeds, reports an error after changing all,     *)
(* part or nothing of what it meant to change, or is cut by a reset.       *)
(* NOR flash: an erase only turns bits to 1, a write only to 0.            *)
(***************************************************************************)
EXTENDS FwMeta

CONSTANT Faults     \* BOOLEAN: flash and driver calls may report an error

ASSUME FaultsAssumption == Faults \in BOOLEAN

VARIABLES sector0,  \* sector 0 of fw_meta: the metadata record
          ctrl,     \* sector 1 of fw_meta: the crash count of the control record
          ota       \* ota_0: the complete image it holds, NoImage for anything else

flash == <<sector0, ctrl, ota>>

\* What a cut or failed erase of sector 0 may leave: each word as it was or
\* erased, and a record that lost any bit outside the force word is invalid.
PartlyErased == [image : {sector0.image, NoImage}, forced : {sector0.forced, FALSE}]

\* A cut or failed write of a record into the erased sector: the CRC, the last
\* word that is not all ones, decides whether the record is there.
PartlyWritten(image) == {sector0, BuildFwMetaRecord(image)}

\* A cut or failed programming of the force word: any changed bit sets the flag.
PartlyForced == {sector0, [sector0 EXCEPT !.forced = TRUE]}

\* ReadFwMetaRecord(): a failed read yields all ones.
ReadFwMetaRecord == {sector0} \cup (IF Faults THEN {ErasedRecord} ELSE {})

\* ReadFwCtrlRecord(): an invalid or unreadable record reads as 0.
ReadFwCtrlRecord == {ctrl} \cup (IF Faults THEN {0} ELSE {})

\* EraseFwMetaRecord()
EraseMetaOk == sector0' = ErasedRecord /\ UNCHANGED <<ctrl, ota>>
EraseMetaFailed == Faults /\ sector0' \in PartlyErased /\ UNCHANGED <<ctrl, ota>>

\* WriteFwMetaRecord() of a record that describes the image, into erased flash.
WriteMetaOk(image) == sector0' = BuildFwMetaRecord(image) /\ UNCHANGED <<ctrl, ota>>
WriteMetaFailed(image) ==
    Faults /\ sector0' \in PartlyWritten(image) /\ UNCHANGED <<ctrl, ota>>

\* ProgramFwMetaForceFlag(), its read-back included.
ProgramForceOk == sector0' = [sector0 EXCEPT !.forced = TRUE] /\ UNCHANGED <<ctrl, ota>>
ProgramForceFailed == Faults /\ sector0' \in PartlyForced /\ UNCHANGED <<ctrl, ota>>

\* WriteFwCtrlRecord() is two operations, an erase and a write.
EraseCtrlOk == ctrl' = 0 /\ UNCHANGED <<sector0, ota>>
EraseCtrlFailed == Faults /\ ctrl' \in {0, ctrl} /\ UNCHANGED <<sector0, ota>>
WriteCtrlOk(count) == ctrl' = count /\ UNCHANGED <<sector0, ota>>
WriteCtrlFailed(count) == Faults /\ ctrl' \in {0, count} /\ UNCHANGED <<sector0, ota>>

\* esp_ota_begin() erases the range the image will use.
OtaBeginOk == ota' = NoImage /\ UNCHANGED <<sector0, ctrl>>
OtaBeginFailed == Faults /\ ota' \in {ota, NoImage} /\ UNCHANGED <<sector0, ctrl>>
=============================================================================
