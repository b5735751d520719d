-------------------------- MODULE FwUpdaterProofs ---------------------------
(***************************************************************************)
(* Proofs about FwUpdater for all uploads, sizes, limits and faults.       *)
(*                                                                         *)
(* RecordDescribesOta is not inductive: it only says what holds while a    *)
(* record is valid, and an upload is safe because of what holds while none *)
(* is.  FlashInv adds where the worker may be while ota_0 changes, what    *)
(* app_main() keeps in RAM between its reads and its writes, and that no   *)
(* upload runs outside updater mode.                                       *)
(***************************************************************************)
EXTENDS FwUpdater, TLAPS

\* Outside updater mode the server and the worker do not run.
QuietInv ==
    pc # "serve" => /\ worker = "wait" /\ state = "idle" /\ installed = NoImage
                    /\ httpd = NoImage /\ queue = NoImage /\ ~restart

\* A valid record describes the verified image in ota_0.
RecordInv == sector0.image # NoImage => ota = sector0.image /\ ota \in Verified

\* app_main()'s copy of the record describes ota_0 as long as it may be used.
BootInv ==
    /\ pc \in BootAt \ {"start"} /\ boot.image # NoImage => ota = boot.image /\ ota \in Verified
    /\ boot.match => boot.image # NoImage
    /\ pc \in {"pass_erase", "pass_write", "jump"} =>
          /\ boot.image # NoImage /\ sector0.image = boot.image

\* While the worker changes ota_0 there is no record; at the commit ota_0 is
\* the verified upload.
WorkerInv ==
    /\ worker # "wait" => up.body \in Bodies
    /\ worker \in {"begin", "recv", "end", "commit"} => sector0.image = NoImage
    /\ worker = "end" => ota = up.body
    /\ worker = "commit" => ota = up.body /\ ota \in Verified

\* The firmware runs from ota_0 and leaves ota_0 and the record's image alone.
RunningInv ==
    /\ pc \in FirmwareAt => running = ota /\ running \in Verified /\ sector0.image = running
    /\ pc \notin FirmwareAt => running = NoImage

FlashInv == TypeOK /\ QuietInv /\ RecordInv /\ BootInv /\ WorkerInv /\ RunningInv

-----------------------------------------------------------------------------
(* Lemmas on the operations the actions are made of.                       *)

\* The values RAM starts with have their types.
LEMMA NoneTypes == NoBoot \in BootCopy /\ NoUpload \in Locals
BY UpdaterAssumption DEF NoBoot, BootCopy, NoUpload, Locals, BootModes

\* A reset re-establishes everything but what it says of flash.
LEMMA ResetInv ==
  ASSUME NEW reason \in ResetReasons, Reset(reason), TypeOK,
         sector0' \in MetaRecord, ctrl' \in Nat, ota' \in Bodies \cup {NoImage},
         strikes' \in Nat, RecordInv'
  PROVE  FlashInv'
<1>1. TypeOK'
  BY NoneTypes DEF Reset, VolatileLost, TypeOK, BootAt, WorkerAt
<1>2. QuietInv' /\ BootInv' /\ WorkerInv' /\ RunningInv'
  BY DEF Reset, VolatileLost, NoBoot, QuietInv, BootInv, WorkerInv, RunningInv, FirmwareAt
<1> QED BY <1>1, <1>2 DEF FlashInv

\* What flash operations leave in sector 0 is a record, of a known image.
LEMMA SectorTypes ==
  ASSUME sector0 \in MetaRecord, NEW image \in Bodies \cup {NoImage}
  PROVE  /\ ErasedRecord \in MetaRecord /\ ErasedRecord.image = NoImage
         /\ BuildFwMetaRecord(image) \in MetaRecord /\ BuildFwMetaRecord(image).image = image
         /\ \A r \in PartlyErased : r \in MetaRecord /\ r.image \in {sector0.image, NoImage}
         /\ \A r \in PartlyWritten(image) : r \in MetaRecord /\ r.image \in {sector0.image, image}
         /\ \A r \in PartlyForced : r \in MetaRecord /\ r.image = sector0.image
         /\ \A r \in ReadFwMetaRecord : r \in MetaRecord /\ r.image \in {sector0.image, NoImage}
<1>0. sector0.image \in Bodies \cup {NoImage} /\ sector0.forced \in BOOLEAN
  BY DEF MetaRecord
<1>1. ErasedRecord \in MetaRecord /\ ErasedRecord.image = NoImage
  BY DEF ErasedRecord, MetaRecord
<1>2. BuildFwMetaRecord(image) \in MetaRecord /\ BuildFwMetaRecord(image).image = image
  BY DEF BuildFwMetaRecord, MetaRecord
<1>3. \A r \in PartlyErased : r \in MetaRecord /\ r.image \in {sector0.image, NoImage}
  BY <1>0 DEF PartlyErased, MetaRecord
<1>4. \A r \in PartlyWritten(image) : r \in MetaRecord /\ r.image \in {sector0.image, image}
  BY <1>2 DEF PartlyWritten
<1>5. [sector0 EXCEPT !.forced = TRUE] \in MetaRecord
      /\ [sector0 EXCEPT !.forced = TRUE].image = sector0.image
  BY DEF MetaRecord
<1>6. \A r \in PartlyForced : r \in MetaRecord /\ r.image = sector0.image
  BY <1>5 DEF PartlyForced
<1>7. \A r \in ReadFwMetaRecord : r \in MetaRecord /\ r.image \in {sector0.image, NoImage}
  BY <1>1 DEF ReadFwMetaRecord
<1> QED BY <1>1, <1>2, <1>3, <1>4, <1>6, <1>7

\* The factory states satisfy FlashInv.
LEMMA InitInv == Init => FlashInv
<1> SUFFICES ASSUME Init PROVE FlashInv
  OBVIOUS
<1>1. TypeOK
  BY BodiesAssumption, NoneTypes DEF Init, TypeOK, MetaRecord, BootAt, WorkerAt, ResetReasons
<1>2. QuietInv /\ RecordInv /\ BootInv /\ WorkerInv /\ RunningInv
  BY DEF Init, NoBoot, QuietInv, RecordInv, BootInv, WorkerInv, RunningInv, FirmwareAt
<1> QED BY <1>1, <1>2 DEF FlashInv

-----------------------------------------------------------------------------
(* Every step preserves FlashInv: one lemma per group of actions.          *)

\* app_main() of the updater: it rewrites only what it read.
LEMMA BootStep == FlashInv /\ Boot => FlashInv'
<1> SUFFICES ASSUME FlashInv, Boot PROVE FlashInv'
  OBVIOUS
<1> USE DEF FlashInv
<1>1. CASE Decide
  <2>1. PICK record \in ReadFwMetaRecord, count \in ReadFwCtrlRecord :
          \E match \in IsOtaMatchingRecord(record) : DecideOn(record, count, match)
    BY <1>1 DEF Decide
  <2>2. PICK match \in IsOtaMatchingRecord(record) : DecideOn(record, count, match)
    BY <2>1
  <2> DEFINE d == DecideFwBoot(record.forced, IsFwMetaRecordValid(record), match, count, reset)
  <2>3. /\ record \in MetaRecord /\ count \in Nat /\ match \in BOOLEAN
        /\ record.image # NoImage => record.image = sector0.image
        /\ match => record.image # NoImage /\ ota = record.image
    <3>1. record \in MetaRecord /\ record.image \in {sector0.image, NoImage}
      BY SectorTypes DEF TypeOK
    <3>2. count \in Nat
      BY DEF ReadFwCtrlRecord, TypeOK
    <3>3. match \in BOOLEAN /\ (match => record.image # NoImage /\ ota = record.image)
      BY DEF IsOtaMatchingRecord, IsFwMetaRecordValid
    <3> QED BY <3>1, <3>2, <3>3
  <2>4. /\ d \in [mode : BootModes, count : Nat]
        /\ d.mode = "FIRMWARE" => ~record.forced /\ match
    BY <2>3 DEF DecideFwBoot, BootModes
  <2>5. boot' \in BootCopy
    BY <2>2, <2>3, <2>4 DEF DecideOn, BootCopy, MetaRecord
  <2>6. /\ pc' \in BootAt \ {"start"}
        /\ pc' \in {"pass_erase", "pass_write", "jump"} => d.mode = "FIRMWARE"
        /\ boot'.image = record.image /\ boot'.match = match
        /\ strikes' \in Nat
    BY <2>2 DEF DecideOn, SaveAt, UpdaterSaveAt, BootAt, TypeOK
  <2>7. UNCHANGED <<flash, reset, running, healthy, http>> /\ pc = "start"
    BY <1>1 DEF Decide
  <2>8. TypeOK'
    BY <2>5, <2>6, <2>7 DEF TypeOK, flash, http
  <2>9. BootInv'
    BY <2>3, <2>4, <2>6, <2>7 DEF BootInv, flash, RecordInv
  <2> QED
    BY <2>6, <2>7, <2>8, <2>9 DEF QuietInv, RecordInv, WorkerInv, RunningInv, flash, http, BootAt, FirmwareAt

<1>2. CASE SaveErase
  BY <1>2 DEF SaveErase, EraseCtrlOk, EraseCtrlFailed, TypeOK, QuietInv, RecordInv, BootInv,
     WorkerInv, RunningInv, http, BootAt, FirmwareAt
<1>3. CASE SaveWrite
  <2>1. boot.count \in Nat /\ UpdaterCount(boot) \in Nat
    BY DEF TypeOK, BootCopy, UpdaterCount
  <2> QED
    BY <1>3, <2>1 DEF SaveWrite, WriteCtrlOk, WriteCtrlFailed, TypeOK, QuietInv, RecordInv,
       BootInv, WorkerInv, RunningInv, http, BootAt, FirmwareAt
<1>4. CASE Jump
  <2>1. CASE Reset("DEEPSLEEP") /\ UNCHANGED <<flash, strikes>>
    BY <2>1, ResetInv DEF TypeOK, RecordInv, flash, ResetReasons
  <2>2. CASE pc' = "serve_start" /\ UNCHANGED <<flash, reset, boot, running, healthy, http>>
    BY <1>4, <2>2 DEF Jump, TypeOK, QuietInv, RecordInv, BootInv, WorkerInv, RunningInv, flash,
       http, BootAt, FirmwareAt
  <2>3. CASE /\ pc' = "fw" /\ running' = ota /\ reset' = "DEEPSLEEP" /\ boot' = NoBoot
             /\ UNCHANGED <<healthy, http, strikes, flash>>
    BY <1>4, <2>3, NoneTypes DEF Jump, TypeOK, QuietInv, RecordInv, BootInv, WorkerInv,
       RunningInv, flash, http, NoBoot, BootAt, FirmwareAt, ResetReasons
  <2> QED BY <1>4, <2>1, <2>2, <2>3 DEF Jump
<1>5. CASE ClearErase
  <2>1. sector0' \in MetaRecord /\ (sector0'.image # NoImage => sector0'.image = sector0.image)
    BY <1>5, SectorTypes DEF ClearErase, EraseMetaOk, EraseMetaFailed, TypeOK
  <2>2. pc' \in BootAt \ {"start", "pass_erase", "pass_write", "jump"}
    BY <1>5 DEF ClearErase, UpdaterSaveAt, SaveAt, BootAt
  <2> QED
    BY <1>5, <2>1, <2>2 DEF ClearErase, EraseMetaOk, EraseMetaFailed, TypeOK, QuietInv, RecordInv,
       BootInv, WorkerInv, RunningInv, http, BootAt, FirmwareAt
<1>6. CASE ClearWrite
  <2>1. sector0' \in MetaRecord /\ sector0'.image \in {NoImage, sector0.image, boot.image}
    <3>1. boot.image \in Bodies \cup {NoImage}
      BY DEF TypeOK, BootCopy
    <3> QED
      BY <1>6, <3>1, SectorTypes DEF ClearWrite, WriteMetaOk, WriteMetaFailed, TypeOK
  <2>2. pc' \in BootAt \ {"start", "pass_erase", "pass_write", "jump"}
    BY <1>6 DEF ClearWrite, UpdaterSaveAt, SaveAt, BootAt
  <2> QED
    BY <1>6, <2>1, <2>2 DEF ClearWrite, WriteMetaOk, WriteMetaFailed, TypeOK, QuietInv, RecordInv,
       BootInv, WorkerInv, RunningInv, http, BootAt, FirmwareAt
<1>7. CASE StartUpdaterMode
  <2>1. boot.image \in Bodies \cup {NoImage}
    BY DEF TypeOK, BootCopy
  <2> QED
    BY <1>7, <2>1 DEF StartUpdaterMode, TypeOK, QuietInv, RecordInv,
       BootInv, WorkerInv, RunningInv, flash, BootAt, FirmwareAt
<1> QED BY <1>1, <1>2, <1>3, <1>4, <1>5, <1>6, <1>7 DEF Boot

\* fw_update.c sets the flag and clears the count, no more.
LEMMA FirmwareStep == FlashInv /\ Firmware => FlashInv'
<1> SUFFICES ASSUME FlashInv, Firmware PROVE FlashInv'
  OBVIOUS
<1>0. TypeOK /\ QuietInv /\ RecordInv /\ BootInv /\ WorkerInv /\ RunningInv
  BY DEF FlashInv
<1>1. CASE RequestFwUpdate
  <2>1. CASE Restart
    BY <1>0, <2>1, ResetInv DEF Restart, TypeOK, RecordInv, flash, ResetReasons
  <2>2. CASE pc = "fw" /\ pc' = "fw_program" /\ UNCHANGED <<flash, firmwareOnly, healthy, strikes>>
    BY <1>0, <2>2 DEF TypeOK, QuietInv, RecordInv, BootInv, WorkerInv, RunningInv, flash, http,
       firmwareOnly, BootAt, FirmwareAt, FlashInv
  <2> QED BY <1>1, <2>1, <2>2 DEF RequestFwUpdate
<1>2. CASE ProgramForce
  <2>1. sector0' \in MetaRecord /\ sector0'.image = sector0.image /\ UNCHANGED <<ctrl, ota>>
    BY <1>0, <1>2, SectorTypes DEF ProgramForce, ProgramForceOk, ProgramForceFailed, PartlyForced, TypeOK
  <2>2. CASE Reset("SW") /\ UNCHANGED strikes
    BY <1>0, <2>1, <2>2, ResetInv DEF TypeOK, RecordInv, ResetReasons
  <2>3. CASE pc' = "fw" /\ UNCHANGED <<firmwareOnly, healthy, strikes>>
    BY <1>0, <1>2, <2>1, <2>3 DEF ProgramForce, TypeOK, QuietInv, RecordInv, BootInv, WorkerInv,
       RunningInv, http, firmwareOnly, BootAt, FirmwareAt, FlashInv
  <2> QED BY <1>2, <2>2, <2>3 DEF ProgramForce
<1>3. CASE MarkFirmwareHealthy
  <2>1. pc' \in {"fw", "fw_erase"} /\ healthy' = FALSE
    BY <1>3 DEF MarkFirmwareHealthy
  <2> QED
    BY <1>0, <1>3, <2>1 DEF MarkFirmwareHealthy, TypeOK, QuietInv, RecordInv, BootInv, WorkerInv,
       RunningInv, flash, http, firmwareOnly, BootAt, FirmwareAt, FlashInv
<1>4. CASE HealthyErase
  BY <1>0, <1>4 DEF HealthyErase, EraseCtrlOk, EraseCtrlFailed, TypeOK, QuietInv, RecordInv,
     BootInv, WorkerInv, RunningInv, http, firmwareOnly, BootAt, FirmwareAt, FlashInv
<1>5. CASE HealthyWrite
  BY <1>0, <1>5 DEF HealthyWrite, WriteCtrlOk, WriteCtrlFailed, TypeOK, QuietInv, RecordInv,
     BootInv, WorkerInv, RunningInv, http, firmwareOnly, BootAt, FirmwareAt, FlashInv
<1> QED BY <1>1, <1>2, <1>3, <1>4, <1>5 DEF Firmware

\* The HTTP server task touches no flash.
LEMMA ServerStep ==
  FlashInv /\ ((\E body \in Bodies : ClaimUpload(body)) \/ HandOff \/ HandleRestartTimer) => FlashInv'
<1> SUFFICES ASSUME FlashInv, (\E body \in Bodies : ClaimUpload(body)) \/ HandOff \/ HandleRestartTimer
             PROVE  FlashInv'
  OBVIOUS
<1>0. TypeOK /\ QuietInv /\ RecordInv /\ BootInv /\ WorkerInv /\ RunningInv
  BY DEF FlashInv
<1>1. ASSUME NEW body \in Bodies, ClaimUpload(body) PROVE FlashInv'
  BY <1>0, <1>1 DEF ClaimUpload, serverOnly, TypeOK, QuietInv, RecordInv, BootInv, WorkerInv,
     RunningInv, flash, boots, BootAt, FirmwareAt, FlashInv
<1>2. CASE HandOff
  BY <1>0, <1>2 DEF HandOff, serverOnly, TypeOK, QuietInv, RecordInv, BootInv, WorkerInv,
     RunningInv, flash, boots, BootAt, FirmwareAt, FlashInv
<1>3. CASE HandleRestartTimer
  BY <1>0, <1>3, ResetInv DEF HandleRestartTimer, Restart, TypeOK, RecordInv, flash, ResetReasons
<1> QED BY <1>1, <1>2, <1>3

\* What a worker step that resets nothing owes to FlashInv: it runs in updater
\* mode, where only the clauses on the record and on the worker say anything.
LEMMA WorkerStepInv ==
  ASSUME FlashInv, pc = "serve", UNCHANGED workerOnly,
         sector0' \in MetaRecord, ctrl' \in Nat, ota' \in Bodies \cup {NoImage},
         state' \in {"idle", "uploading", "done", "error"}, installed' \in Bodies \cup {NoImage},
         queue' \in Bodies \cup {NoImage}, worker' \in WorkerAt, up' \in Locals,
         restart' \in BOOLEAN, RecordInv', WorkerInv'
  PROVE  FlashInv'
BY DEF FlashInv, TypeOK, QuietInv, BootInv, RunningInv, workerOnly, boots, BootAt, FirmwareAt

\* RunUpload(): the record is gone before ota_0 changes, back after it is verified.
LEMMA UploadStep == FlashInv /\ Upload => FlashInv'
<1> SUFFICES ASSUME FlashInv, Upload PROVE FlashInv'
  OBVIOUS
<1>0. TypeOK /\ RecordInv /\ WorkerInv
  BY DEF FlashInv
<1>a. up.body \in Bodies \cup {NoImage} /\ up.received \in Nat /\ up.timeouts \in 0..RecvRetries
  BY <1>0 DEF TypeOK, Locals
<1>b. sector0 \in MetaRecord
  BY <1>0 DEF TypeOK
<1>1. CASE TakeRequest
  <2>1. queue \in Bodies /\ up' = [NoUpload EXCEPT !.body = queue]
    BY <1>0, <1>1 DEF TakeRequest, TypeOK
  <2>2. up' \in Locals /\ up'.body = queue
    BY <2>1, NoneTypes DEF Locals
  <2>3. worker' \in {"erase", "reject"} /\ queue' = NoImage
    BY <1>1 DEF TakeRequest, Goto
  <2> QED
    BY <1>0, <1>1, <2>1, <2>2, <2>3, WorkerStepInv
    DEF TakeRequest, Goto, TypeOK, RecordInv, WorkerInv, WorkerAt, flash
<1>2. CASE EraseRecord
  <2>1. CASE Goto("erase", "begin") /\ EraseMetaOk /\ installed' = NoImage
    BY <1>0, <1>2, <1>b, <2>1, SectorTypes, WorkerStepInv
    DEF EraseRecord, EraseMetaOk, Goto, TypeOK, RecordInv, WorkerInv, WorkerAt
  <2>2. CASE Goto("erase", "reject") /\ EraseMetaFailed /\ UNCHANGED installed
    BY <1>0, <1>2, <1>b, <2>2, SectorTypes, WorkerStepInv
    DEF EraseRecord, EraseMetaFailed, Goto, TypeOK, RecordInv, WorkerInv, WorkerAt
  <2> QED BY <1>2, <2>1, <2>2 DEF EraseRecord
<1>3. CASE BeginOta
  <2>1. CASE Goto("begin", "recv") /\ OtaBeginOk /\ up' = [up EXCEPT !.open = TRUE]
    <3>1. up' \in Locals /\ up'.body = up.body
      BY <1>0, <2>1 DEF TypeOK, Locals
    <3> QED
      BY <1>0, <1>3, <2>1, <3>1, WorkerStepInv
      DEF BeginOta, OtaBeginOk, Goto, TypeOK, RecordInv, WorkerInv, WorkerAt
  <2>2. CASE Goto("begin", "reject") /\ OtaBeginFailed /\ UNCHANGED up
    BY <1>0, <1>3, <2>2, WorkerStepInv
    DEF BeginOta, OtaBeginFailed, Goto, TypeOK, RecordInv, WorkerInv, WorkerAt
  <2> QED BY <1>3, <2>1, <2>2 DEF BeginOta
<1>4. CASE RecvTimeout
  <2>1. up.timeouts + 1 \in 0..RecvRetries
    BY <1>4, <1>a, UpdaterAssumption DEF RecvTimeout
  <2>2. up' \in Locals /\ up'.body = up.body
    BY <1>0, <1>4, <2>1 DEF RecvTimeout, TypeOK, Locals
  <2> QED
    BY <1>0, <1>4, <2>2, WorkerStepInv
    DEF RecvTimeout, Goto, TypeOK, RecordInv, WorkerInv, WorkerAt, flash
<1>5. CASE RecvFailed
  BY <1>0, <1>5, WorkerStepInv
  DEF RecvFailed, Goto, TypeOK, RecordInv, WorkerInv, WorkerAt, flash
<1>6. CASE RecvChunk
  <2>1. up' \in Locals /\ up'.body = up.body
    <3>1. up' = [up EXCEPT !.received = up.received + 1, !.timeouts = 0]
      BY <1>6 DEF RecvChunk
    <3>2. up.received + 1 \in Nat /\ 0 \in 0..RecvRetries
      BY <1>a, UpdaterAssumption
    <3> QED BY <1>0, <3>1, <3>2 DEF TypeOK, Locals
  <2>2. /\ worker = "recv" /\ pc = "serve"
        /\ \/ worker' \in {"reject", "recv"} /\ ota' \in {up.body, NoImage}
           \/ worker' = "end" /\ ota' = up.body
           \/ worker' \in {"reject", "discard"} /\ ota' = ota
    BY <1>6 DEF RecvChunk, Goto
  <2> QED
    BY <1>0, <1>6, <1>a, <2>1, <2>2, WorkerStepInv
    DEF RecvChunk, TypeOK, RecordInv, WorkerInv, WorkerAt
<1>7. CASE DiscardChunk
  <2>1. up' \in Locals /\ up'.body = up.body
    <3>1. up' = [up EXCEPT !.received = up.received + 1, !.timeouts = 0]
      BY <1>7 DEF DiscardChunk
    <3>2. up.received + 1 \in Nat /\ 0 \in 0..RecvRetries
      BY <1>a, UpdaterAssumption
    <3> QED BY <1>0, <3>1, <3>2 DEF TypeOK, Locals
  <2> QED
    BY <1>0, <1>7, <2>1, WorkerStepInv
    DEF DiscardChunk, Goto, TypeOK, RecordInv, WorkerInv, WorkerAt, flash
<1>8. CASE EndOta
  <2>1. up' \in Locals /\ up'.body = up.body
    BY <1>0, <1>8 DEF EndOta, TypeOK, Locals
  <2> QED
    BY <1>0, <1>8, <2>1, WorkerStepInv
    DEF EndOta, Goto, TypeOK, RecordInv, WorkerInv, WorkerAt, flash
<1>9. CASE CommitWrite
  <2>1. /\ pc = "serve" /\ worker = "commit" /\ worker' \in {"check", "rollback", "reject"}
        /\ UNCHANGED <<ctrl, ota>>
        /\ sector0' \in MetaRecord /\ sector0'.image \in {sector0.image, up.body}
    BY <1>9, <1>a, <1>b, SectorTypes DEF CommitWrite, Goto, WriteMetaOk, WriteMetaFailed, flash
  <2> QED
    BY <1>0, <1>9, <2>1, WorkerStepInv
    DEF CommitWrite, TypeOK, RecordInv, WorkerInv, WorkerAt
<1>10. CASE CommitCheck
  <2>1. /\ pc = "serve" /\ worker = "check" /\ worker' \in {"count", "rollback"}
        /\ installed' \in {installed, up.body}
    BY <1>10 DEF CommitCheck, Goto
  <2> QED
    BY <1>0, <1>10, <1>a, <2>1, WorkerStepInv
    DEF CommitCheck, TypeOK, RecordInv, WorkerInv, WorkerAt, flash
<1>11. CASE CommitRollback
  <2>1. sector0' \in MetaRecord /\ sector0'.image \in {sector0.image, NoImage} /\ UNCHANGED <<ctrl, ota>>
    BY <1>11, <1>b, SectorTypes DEF CommitRollback, EraseMetaOk, EraseMetaFailed
  <2> QED
    BY <1>0, <1>11, <2>1, WorkerStepInv
    DEF CommitRollback, Goto, TypeOK, RecordInv, WorkerInv, WorkerAt
<1>12. CASE ClearCrashCount
  <2>1. pc = "serve" /\ worker = "count" /\ worker' \in {"done", "count_erase"}
    BY <1>12 DEF ClearCrashCount, Goto
  <2> QED
    BY <1>0, <1>12, <2>1, WorkerStepInv
    DEF ClearCrashCount, TypeOK, RecordInv, WorkerInv, WorkerAt, flash
<1>13. CASE CountErase
  BY <1>0, <1>13, WorkerStepInv
  DEF CountErase, EraseCtrlOk, EraseCtrlFailed, Goto, TypeOK, RecordInv, WorkerInv, WorkerAt
<1>14. CASE CountWrite
  BY <1>0, <1>14, WorkerStepInv
  DEF CountWrite, WriteCtrlOk, WriteCtrlFailed, Goto, TypeOK, RecordInv, WorkerInv, WorkerAt
<1>15. CASE UploadDone
  BY <1>0, <1>15, WorkerStepInv DEF UploadDone, Goto, TypeOK, RecordInv, WorkerInv, WorkerAt, flash
<1>16. CASE ScheduleRestart
  <2>1. CASE Restart
    BY <1>0, <2>1, ResetInv DEF Restart, TypeOK, RecordInv, flash, ResetReasons
  <2>2. CASE /\ Goto("schedule", "wait") /\ restart' = TRUE
             /\ UNCHANGED <<flash, state, installed, queue, up, workerOnly>>
    BY <1>0, <2>2, WorkerStepInv DEF Goto, TypeOK, RecordInv, WorkerInv, WorkerAt, flash
  <2> QED BY <1>16, <2>1, <2>2 DEF ScheduleRestart
<1>17. CASE UploadRejected
  <2>1. up' \in Locals /\ up'.body = up.body
    BY <1>0, <1>17 DEF UploadRejected, TypeOK, Locals
  <2> QED
    BY <1>0, <1>17, <2>1, WorkerStepInv
    DEF UploadRejected, Goto, TypeOK, RecordInv, WorkerInv, WorkerAt, flash
<1>18. CASE UploadReplied
  BY <1>0, <1>18, NoneTypes, WorkerStepInv
  DEF UploadReplied, Goto, TypeOK, RecordInv, WorkerInv, WorkerAt, flash
<1> QED
  BY <1>1, <1>2, <1>3, <1>4, <1>5, <1>6, <1>7, <1>8, <1>9, <1>10, <1>11, <1>12, <1>13, <1>14,
     <1>15, <1>16, <1>17, <1>18 DEF Upload

\* A reset at any point leaves a sector 0 that is erased, unchanged, or holds
\* the record that was just being written.
LEMMA CutStep ==
  ASSUME FlashInv, NEW reason \in ResetReasons, Cut(reason)
  PROVE  FlashInv'
<1>0. TypeOK /\ QuietInv /\ RecordInv /\ BootInv /\ WorkerInv
  BY DEF FlashInv
<1>1. /\ boot.image \in Bodies \cup {NoImage} /\ boot.count \in Nat
      /\ up.body \in Bodies \cup {NoImage} /\ sector0 \in MetaRecord
  BY <1>0 DEF TypeOK, BootCopy, Locals
<1>2. /\ sector0' \in MetaRecord
      /\ sector0'.image \in {sector0.image, NoImage} \cup
           (IF pc = "clear_write" THEN {boot.image} ELSE
            IF worker = "commit" THEN {up.body} ELSE {})
  BY <1>1, SectorTypes DEF Cut, FlashCut, MetaWriteAt
<1>3. ctrl' \in Nat /\ strikes' \in Nat
  BY <1>0, <1>1 DEF Cut, FlashCut, TypeOK
<1>4. ota' \in {ota, NoImage, up.body} /\ (ota' # ota => worker \in {"begin", "recv"})
  BY DEF Cut, FlashCut
<1>5. RecordInv'
  <2>1. CASE worker \in {"begin", "recv"}
    <3>1. sector0.image = NoImage /\ pc = "serve"
      BY <1>0, <2>1 DEF WorkerInv, QuietInv
    <3> QED BY <1>2, <2>1, <3>1 DEF RecordInv
  <2>2. CASE ota' = ota
    BY <1>0, <1>2, <2>2 DEF RecordInv, BootInv, WorkerInv, BootAt
  <2> QED BY <1>4, <2>1, <2>2
<1> QED BY <1>0, <1>1, <1>2, <1>3, <1>4, <1>5, ResetInv DEF Cut, TypeOK

\* FlashInv is inductive.
LEMMA NextInv == FlashInv /\ [Next]_vars => FlashInv'
<1> SUFFICES ASSUME FlashInv, [Next]_vars PROVE FlashInv'
  OBVIOUS
<1>1. CASE PowerLoss \/ UpdaterCrash \/ FirmwareCrash
  BY <1>1, CutStep DEF PowerLoss, UpdaterCrash, FirmwareCrash, ResetReasons
<1>2. CASE UNCHANGED vars
  BY <1>2 DEF vars, flash, boots, http, FlashInv, TypeOK, QuietInv, RecordInv, BootInv, WorkerInv,
     RunningInv
<1> QED BY <1>1, <1>2, BootStep, FirmwareStep, ServerStep, UploadStep DEF Next

\* FwUpdater's variables keep their types, and the strengthening holds.
THEOREM FlashSafety == Spec => []FlashInv
BY InitInv, NextInv, PTL DEF Spec

\* Every variable of FwUpdater keeps its type.
THEOREM TypeCorrect == Spec => []TypeOK
<1>1. FlashInv => TypeOK
  BY DEF FlashInv
<1> QED BY <1>1, FlashSafety, PTL

\* Whatever fails or is cut, a valid record describes the verified image that
\* ota_0 holds (the commit order of RunUpload()).
THEOREM RecordSafety == Spec => []RecordDescribesOta
<1>1. FlashInv => RecordDescribesOta
  BY DEF FlashInv, RecordInv, RecordDescribesOta, IsFwMetaRecordValid
<1> QED BY <1>1, FlashSafety, PTL

\* The firmware that JumpToFirmware() started is a verified image.
THEOREM RunningSafety == Spec => []RunsOnlyVerified
<1>1. FlashInv => RunsOnlyVerified
  BY DEF FlashInv, RunningInv, RunsOnlyVerified
<1> QED BY <1>1, FlashSafety, PTL

-----------------------------------------------------------------------------
(* The upload: the hand-over between the server task, the worker and the   *)
(* restart timer, and what the page says.  The two tasks and the timer     *)
(* share one token, the upload state: whoever holds a request (claimed,    *)
(* queued or being processed) finds it "uploading", the restart finds it   *)
(* "done", and the other two are idle.                                     *)

\* At most one of server, queue, worker and restart timer has the upload.
HandInv ==
    /\ httpd # NoImage \/ queue # NoImage => state = "uploading"
    /\ httpd = NoImage \/ queue = NoImage
    /\ worker \notin {"wait", "reply", "schedule"} =>
          state = "uploading" /\ httpd = NoImage /\ queue = NoImage
    /\ worker = "schedule" \/ restart => state = "done"
    /\ restart => worker = "wait"

\* The record of the upload is in flash from the commit's read-back on.
CommittedInv ==
    /\ worker \in {"count", "count_erase", "count_write", "done"} \/ state = "done" =>
          sector0 = BuildFwMetaRecord(up.body) /\ up.body # NoImage
    /\ state = "done" => worker \in {"schedule", "wait"}

\* The version shown is forgotten before ota_0 changes.
ShownInv == PageNamesOta /\ (worker \in {"begin", "recv"} => installed = NoImage)

UploadInv == HandInv /\ CommittedInv /\ ShownInv

-----------------------------------------------------------------------------
\* Outside updater mode there is no upload.
LEMMA QuietUpload == QuietInv /\ pc # "serve" => UploadInv
BY DEF QuietInv, UploadInv, HandInv, CommittedInv, ShownInv, PageNamesOta

\* Entering updater mode shows the version of the record that was checked.
LEMMA BootUpload == FlashInv /\ FlashInv' /\ Boot => UploadInv'
<1> SUFFICES ASSUME FlashInv, FlashInv', Boot PROVE UploadInv'
  OBVIOUS
<1>0. QuietInv /\ QuietInv' /\ BootInv
  BY DEF FlashInv
<1>1. CASE pc' # "serve"
  BY <1>0, <1>1, QuietUpload DEF QuietInv, UploadInv, HandInv, CommittedInv, ShownInv, PageNamesOta
<1>2. CASE pc' = "serve"
  <2>1. StartUpdaterMode
    BY <1>2 DEF Boot, Decide, DecideOn, SaveAt, UpdaterSaveAt, SaveErase, SaveWrite, Jump, Reset,
       ClearErase, ClearWrite
  <2>2. UNCHANGED <<flash, state, httpd, queue, worker, restart>> /\ pc = "serve_start"
        /\ installed' = IF boot.match THEN boot.image ELSE NoImage
    BY <1>2, <2>1 DEF StartUpdaterMode
  <2> QED
    BY <1>0, <2>2 DEF QuietInv, BootInv, BootAt, UploadInv, HandInv, CommittedInv, ShownInv,
       PageNamesOta, flash
<1> QED BY <1>1, <1>2

\* A claim needs a state that nobody holds; the hand-off passes it on or drops it.
LEMMA ServerUpload ==
  FlashInv /\ UploadInv /\ ((\E body \in Bodies : ClaimUpload(body)) \/ HandOff) => UploadInv'
<1> SUFFICES ASSUME FlashInv, UploadInv, (\E body \in Bodies : ClaimUpload(body)) \/ HandOff
             PROVE  UploadInv'
  OBVIOUS
<1>0. HandInv /\ CommittedInv /\ ShownInv
  BY DEF UploadInv
<1>1. ASSUME NEW body \in Bodies, ClaimUpload(body) PROVE UploadInv'
  BY <1>0, <1>1 DEF ClaimUpload, serverOnly, UploadInv, HandInv, CommittedInv, ShownInv,
     PageNamesOta, flash, boots
<1>2. CASE HandOff
  BY <1>0, <1>2 DEF HandOff, serverOnly, UploadInv, HandInv, CommittedInv, ShownInv,
     PageNamesOta, flash, boots
<1> QED BY <1>1, <1>2

\* What is in sector 0 when the read-back is right.
LEMMA ReadBack ==
  ASSUME FlashInv, NEW record \in ReadFwMetaRecord, IsFwMetaRecordValid(record),
         record = BuildFwMetaRecord(up.body)
  PROVE  sector0 = BuildFwMetaRecord(up.body) /\ up.body # NoImage /\ ota = up.body
<1>1. record.image # NoImage /\ record.image = up.body
  BY DEF IsFwMetaRecordValid, BuildFwMetaRecord
<1>2. record = sector0
  BY <1>1 DEF ReadFwMetaRecord, ErasedRecord
<1> QED BY <1>1, <1>2 DEF FlashInv, RecordInv

\* The worker's steps, each against what it changes.
LEMMA WorkerUpload == FlashInv /\ FlashInv' /\ UploadInv /\ Upload => UploadInv'
<1> SUFFICES ASSUME FlashInv, FlashInv', UploadInv, Upload PROVE UploadInv'
  OBVIOUS
<1>0. HandInv /\ CommittedInv /\ ShownInv /\ QuietInv'
  BY DEF UploadInv, FlashInv
<1> USE DEF Goto, workerOnly, boots, UploadInv, HandInv, CommittedInv, ShownInv, PageNamesOta
<1>1. CASE TakeRequest
  BY <1>0, <1>1 DEF TakeRequest, flash
<1>2. CASE EraseRecord
  BY <1>0, <1>2 DEF EraseRecord, EraseMetaOk, EraseMetaFailed
<1>3. CASE BeginOta
  BY <1>0, <1>3 DEF BeginOta, OtaBeginOk, OtaBeginFailed
<1>4. CASE RecvTimeout
  BY <1>0, <1>4 DEF RecvTimeout, flash
<1>5. CASE RecvFailed
  BY <1>0, <1>5 DEF RecvFailed, flash
<1>6. CASE RecvChunk
  <2>1. /\ worker = "recv" /\ worker' \in {"reject", "recv", "end", "discard"}
        /\ UNCHANGED <<pc, httpd, state, installed, queue, restart>>
    BY <1>6 DEF RecvChunk
  <2> QED BY <1>0, <2>1
<1>7. CASE DiscardChunk
  <2>1. /\ worker = "discard" /\ worker' \in {"reject", "discard"}
        /\ UNCHANGED <<pc, ota, httpd, state, installed, queue, restart>>
    BY <1>7 DEF DiscardChunk, flash
  <2> QED BY <1>0, <2>1
<1>8. CASE EndOta
  BY <1>0, <1>8 DEF EndOta, flash
<1>9. CASE CommitWrite
  BY <1>0, <1>9 DEF CommitWrite, WriteMetaOk, WriteMetaFailed, flash
<1>10. CASE CommitCheck
  <2>1. PICK record \in ReadFwMetaRecord :
          LET good == IsFwMetaRecordValid(record) /\ record = BuildFwMetaRecord(up.body)
          IN  \/ good /\ Goto("check", "count") /\ installed' = up.body
              \/ ~good /\ Goto("check", "rollback") /\ UNCHANGED installed
    BY <1>10 DEF CommitCheck
  <2>2. CASE /\ IsFwMetaRecordValid(record) /\ record = BuildFwMetaRecord(up.body)
             /\ Goto("check", "count") /\ installed' = up.body
    <3>1. sector0 = BuildFwMetaRecord(up.body) /\ up.body # NoImage /\ ota = up.body
      BY <2>2, ReadBack
    <3> QED BY <1>0, <1>10, <2>2, <3>1 DEF CommitCheck, flash
  <2>3. CASE Goto("check", "rollback") /\ UNCHANGED installed
    BY <1>0, <1>10, <2>3 DEF CommitCheck, flash
  <2> QED BY <2>1, <2>2, <2>3
<1>11. CASE CommitRollback
  BY <1>0, <1>11 DEF CommitRollback, EraseMetaOk, EraseMetaFailed
<1>12. CASE ClearCrashCount
  <2>1. worker = "count" /\ worker' \in {"done", "count_erase"}
    BY <1>12 DEF ClearCrashCount
  <2> QED BY <1>0, <1>12, <2>1 DEF ClearCrashCount, flash
<1>13. CASE CountErase
  BY <1>0, <1>13 DEF CountErase, EraseCtrlOk, EraseCtrlFailed
<1>14. CASE CountWrite
  BY <1>0, <1>14 DEF CountWrite, WriteCtrlOk, WriteCtrlFailed
<1>15. CASE UploadDone
  BY <1>0, <1>15 DEF UploadDone, flash
<1>16. CASE ScheduleRestart
  <2>1. CASE Restart
    BY <1>0, <2>1 DEF Restart, Reset, VolatileLost
  <2>2. CASE /\ Goto("schedule", "wait") /\ restart' = TRUE
             /\ UNCHANGED <<flash, state, installed, queue, up, workerOnly>>
    BY <1>0, <2>2 DEF flash
  <2> QED BY <1>16, <2>1, <2>2 DEF ScheduleRestart
<1>17. CASE UploadRejected
  BY <1>0, <1>17 DEF UploadRejected, flash
<1>18. CASE UploadReplied
  BY <1>0, <1>18 DEF UploadReplied, flash
<1> QED
  BY <1>1, <1>2, <1>3, <1>4, <1>5, <1>6, <1>7, <1>8, <1>9, <1>10, <1>11, <1>12, <1>13, <1>14,
     <1>15, <1>16, <1>17, <1>18 DEF Upload

\* UploadInv is inductive relative to FlashInv.
LEMMA UploadInvNext == FlashInv /\ FlashInv' /\ UploadInv /\ [Next]_vars => UploadInv'
<1> SUFFICES ASSUME FlashInv, FlashInv', UploadInv, [Next]_vars PROVE UploadInv'
  OBVIOUS
<1>1. CASE Firmware \/ HandleRestartTimer \/ PowerLoss \/ UpdaterCrash \/ FirmwareCrash
  <2>1. pc' # "serve"
    BY <1>1 DEF Firmware, RequestFwUpdate, Restart, ProgramForce, MarkFirmwareHealthy,
       HealthyErase, HealthyWrite, HandleRestartTimer, PowerLoss, UpdaterCrash, FirmwareCrash,
       Cut, Reset
  <2> QED
    BY <2>1 DEF FlashInv, QuietInv, UploadInv, HandInv, CommittedInv, ShownInv, PageNamesOta
<1>2. CASE UNCHANGED vars
  BY <1>2 DEF vars, flash, boots, http, UploadInv, HandInv, CommittedInv, ShownInv, PageNamesOta
<1> QED BY <1>1, <1>2, BootUpload, ServerUpload, WorkerUpload DEF Next

\* HandInv, CommittedInv and ShownInv hold in every state.
THEOREM UploadSafety == Spec => [](FlashInv /\ UploadInv)
<1>1. Init => UploadInv
  BY InitInv, QuietUpload DEF Init, FlashInv
<1> QED BY <1>1, FlashSafety, UploadInvNext, PTL DEF Spec

\* HandleUpload() always finds the queue empty and the worker free, so its answer
\* "not reachable" never comes from a request of its own making.
THEOREM HandOffSafety == Spec => []HandOffAlwaysFits
<1>1. UploadInv => HandOffAlwaysFits
  BY DEF UploadInv, HandInv, HandOffAlwaysFits
<1> QED BY <1>1, UploadSafety, PTL

\* The restart timer never fires into an upload.
THEOREM RestartSafety == Spec => []RestartInterruptsNothing
<1>1. UploadInv => RestartInterruptsNothing
  BY DEF UploadInv, HandInv, RestartInterruptsNothing
<1> QED BY <1>1, UploadSafety, PTL

\* GET /status tells the truth: the version it names is the one in ota_0, and an
\* upload it calls done is what the next start runs.
THEOREM StatusSafety == Spec => []StatusTellsTruth
<1>1. FlashInv /\ UploadInv => StatusTellsTruth
  <2> SUFFICES ASSUME FlashInv, UploadInv, state = "done"
               PROVE  NextStart = "FIRMWARE" /\ sector0 = BuildFwMetaRecord(up.body)
    BY DEF UploadInv, ShownInv, StatusTellsTruth, DoneIsCommitted
  <2>1. sector0 = BuildFwMetaRecord(up.body) /\ up.body # NoImage
    BY DEF UploadInv, CommittedInv
  <2>2. sector0.image = up.body /\ sector0.forced = FALSE
    BY <2>1 DEF BuildFwMetaRecord
  <2>3. ota = sector0.image /\ IsFwMetaRecordValid(sector0)
    BY <2>1, <2>2, SizesAssumption DEF FlashInv, RecordInv, IsFwMetaRecordValid
  <2> QED BY <2>1, <2>2, <2>3 DEF NextStart, DecideFwBoot, IsCrashReset
<1> QED BY <1>1, UploadSafety, PTL

-----------------------------------------------------------------------------
(***************************************************************************)
(* The boot side: the crash count, and the slot that records, ota_0 and    *)
(* running firmware implement.                                             *)
(*                                                                         *)
(* A strike becomes part of the stored count only in the boot after it,    *)
(* and is on its way from RAM to flash for two steps.  CountInv bounds the *)
(* strikes by the count wherever it is at the time.                        *)
(***************************************************************************)

\* What the firmware crashed is known to the record, to the reset reason, or to
\* app_main()'s copy; and no stored count reaches the limit.
CountInv ==
    /\ ctrl < CrashResetLimit
    /\ pc = "start" => strikes <= IF reset = "PANIC" THEN ctrl + 1 ELSE ctrl
    /\ pc \in {"pass_erase", "pass_write"} =>
          strikes <= boot.count /\ boot.count < CrashResetLimit
    /\ pc \in {"jump", "fw", "fw_program", "fw_erase"} => strikes <= ctrl
    /\ pc \in {"clear_erase", "clear_write", "save_erase", "save_write"} =>
          UpdaterCount(boot) < CrashResetLimit
    /\ pc \in {"clear_erase", "clear_write", "save_erase", "save_write",
               "serve_start", "serve", "dead", "fw_write"} => strikes = 0

\* app_main() rewrites the record only into an erased sector.
ClearInv == pc = "clear_write" => sector0.image = NoImage

BootsInv == CountInv /\ ClearInv

-----------------------------------------------------------------------------
(* The crash count.                                                        *)

\* What the decision does to a count that has not reached the limit.
LEMMA DecideCount ==
  ASSUME NEW forced \in BOOLEAN, NEW valid \in BOOLEAN, NEW match \in BOOLEAN,
         NEW count \in Nat, count < CrashResetLimit, NEW reason \in ResetReasons,
         NEW d, d = DecideFwBoot(forced, valid, match, count, reason)
  PROVE  /\ d.count = IF d.mode \in {"FIRMWARE", "CRASH_LOOP"} /\ reason = "PANIC"
                      THEN count + 1 ELSE count
         /\ d.mode = "FIRMWARE" => d.count < CrashResetLimit
         /\ d.mode # "CRASH_LOOP" => d.count < CrashResetLimit
<1>1. count < CountMax /\ count + 1 \in Nat
  BY LimitAssumption
<1>2. CASE forced \/ reason = "DEEPSLEEP" \/ ~(valid /\ match)
  BY <1>1, <1>2 DEF DecideFwBoot
<1>3. CASE ~forced /\ reason # "DEEPSLEEP" /\ valid /\ match
  BY <1>1, <1>3, LimitAssumption DEF DecideFwBoot, IsCrashReset
<1> QED BY <1>2, <1>3

\* A reset that leaves the count below the limit and knows of every strike.
LEMMA ResetBoots ==
  ASSUME NEW reason \in ResetReasons, Reset(reason), ctrl' < CrashResetLimit,
         strikes' <= IF reason = "PANIC" THEN ctrl' + 1 ELSE ctrl'
  PROVE  BootsInv'
BY DEF Reset, BootsInv, CountInv, ClearInv

\* From the reset to the jump the strikes are in the count that will be stored.
LEMMA BootBoots == FlashInv /\ FlashInv' /\ BootsInv /\ Boot => BootsInv'
<1> SUFFICES ASSUME FlashInv, FlashInv', BootsInv, Boot PROVE BootsInv'
  OBVIOUS
<1>0. /\ ctrl \in Nat /\ strikes \in Nat /\ ctrl' \in Nat /\ strikes' \in Nat
      /\ reset \in ResetReasons /\ boot \in BootCopy /\ CountInv
      /\ sector0 \in MetaRecord /\ CrashResetLimit \in Nat \ {0}
  BY LimitAssumption DEF FlashInv, TypeOK, BootsInv
<1>00. boot.count \in Nat /\ UpdaterCount(boot) \in Nat
  BY <1>0 DEF BootCopy, UpdaterCount
<1>1. CASE Decide
  <2>1. PICK record \in ReadFwMetaRecord, count \in ReadFwCtrlRecord :
          \E match \in IsOtaMatchingRecord(record) : DecideOn(record, count, match)
    BY <1>1 DEF Decide
  <2>2. PICK match \in IsOtaMatchingRecord(record) : DecideOn(record, count, match)
    BY <2>1
  <2> DEFINE d == DecideFwBoot(record.forced, IsFwMetaRecordValid(record), match, count, reset)
  <2>3. /\ record.forced \in BOOLEAN /\ match \in BOOLEAN /\ count \in Nat
        /\ count < CrashResetLimit /\ count \in {ctrl, 0}
        /\ IsFwMetaRecordValid(record) \in BOOLEAN
    <3>1. record \in MetaRecord
      BY <1>0, SectorTypes
    <3>2. record.forced \in BOOLEAN
      BY <3>1 DEF MetaRecord
    <3>3. match \in BOOLEAN
      BY DEF IsOtaMatchingRecord
    <3>4. IsFwMetaRecordValid(record) \in BOOLEAN
      BY DEF IsFwMetaRecordValid
    <3>5. count \in Nat /\ count < CrashResetLimit /\ count \in {ctrl, 0}
      BY <1>0 DEF ReadFwCtrlRecord, CountInv
    <3> QED BY <3>2, <3>3, <3>4, <3>5
  <2>4. /\ d.count = IF d.mode \in {"FIRMWARE", "CRASH_LOOP"} /\ reset = "PANIC"
                     THEN count + 1 ELSE count
        /\ d.mode = "FIRMWARE" => d.count < CrashResetLimit
        /\ d.mode # "CRASH_LOOP" => d.count < CrashResetLimit
    BY <1>0, <2>3, DecideCount
  <2>5. /\ boot'.count = d.count /\ boot'.mode = d.mode /\ boot'.stored = count
        /\ d.mode = "FIRMWARE" => pc' = IF d.count = count THEN "jump" ELSE "pass_erase"
        /\ d.mode # "FIRMWARE" => pc' \in {"clear_erase", "save_erase", "serve_start"}
        /\ strikes' = IF d.mode = "FIRMWARE" /\ count = ctrl THEN strikes ELSE 0
    BY <2>2 DEF DecideOn, SaveAt, UpdaterSaveAt
  <2>6. UNCHANGED <<ctrl, reset>> /\ pc = "start"
    BY <1>1 DEF Decide, flash
  <2>7. UpdaterCount(boot') = IF d.mode = "CRASH_LOOP" THEN 0 ELSE d.count
    BY <2>5 DEF UpdaterCount
  <2>7a. UpdaterCount(boot)' = UpdaterCount(boot')
    BY DEF UpdaterCount
  <2> HIDE DEF d
  <2>8. CountInv'
    <3>1. CASE d.mode = "FIRMWARE"
      BY <1>0, <2>3, <2>4, <2>5, <2>6, <3>1 DEF CountInv
    <3>2. CASE d.mode # "FIRMWARE"
      BY <1>0, <2>3, <2>4, <2>5, <2>6, <2>7, <2>7a, <3>2 DEF CountInv
    <3> QED BY <3>1, <3>2
  <2>9. pc' # "clear_write"
    BY <2>5
  <2> QED BY <2>8, <2>9 DEF BootsInv, ClearInv
<1>2. CASE SaveErase
  <2>1. CASE pc = "pass_erase"
    <3>1. /\ boot' = boot /\ ctrl' \in {0, ctrl}
          /\ \/ pc' = "pass_write" /\ strikes' = strikes
             \/ pc' = "jump" /\ strikes' = 0
      BY <1>2, <2>1 DEF SaveErase, EraseCtrlOk, EraseCtrlFailed
    <3>2. CASE pc' = "pass_write" /\ strikes' = strikes
      BY <1>0, <1>00, <2>1, <3>1, <3>2 DEF BootsInv, CountInv, ClearInv
    <3>3. CASE pc' = "jump" /\ strikes' = 0
      BY <1>0, <1>00, <2>1, <3>1, <3>3 DEF BootsInv, CountInv, ClearInv
    <3> QED BY <3>1, <3>2, <3>3
  <2>2. CASE pc = "save_erase"
    <3>1. /\ boot' = boot /\ ctrl' \in {0, ctrl} /\ strikes' \in {0, strikes}
          /\ pc' \in {"save_write", "serve_start"}
      BY <1>2, <2>2 DEF SaveErase, EraseCtrlOk, EraseCtrlFailed
    <3>2. UpdaterCount(boot)' = UpdaterCount(boot)
      BY <3>1 DEF UpdaterCount
    <3>3. CASE pc' = "save_write"
      BY <1>0, <1>00, <2>2, <3>1, <3>2, <3>3 DEF BootsInv, CountInv, ClearInv
    <3>4. CASE pc' = "serve_start"
      BY <1>0, <1>00, <2>2, <3>1, <3>4 DEF BootsInv, CountInv, ClearInv
    <3> QED BY <3>1, <3>3, <3>4
  <2> QED BY <1>2, <2>1, <2>2 DEF SaveErase
<1>3. CASE SaveWrite
  <2>1. CASE pc = "pass_write"
    <3>1. /\ pc' = "jump"
          /\ \/ ctrl' = boot.count /\ strikes' = strikes
             \/ ctrl' \in {0, boot.count} /\ strikes' = 0
      BY <1>3, <2>1 DEF SaveWrite, WriteCtrlOk, WriteCtrlFailed
    <3> QED BY <1>0, <1>00, <2>1, <3>1 DEF BootsInv, CountInv, ClearInv
  <2>2. CASE pc = "save_write"
    <3>1. pc' = "serve_start" /\ ctrl' \in {0, UpdaterCount(boot)} /\ strikes' \in {0, strikes}
      BY <1>3, <2>2 DEF SaveWrite, WriteCtrlOk, WriteCtrlFailed
    <3> QED BY <1>0, <1>00, <2>2, <3>1 DEF BootsInv, CountInv, ClearInv
  <2> QED BY <1>3, <2>1, <2>2 DEF SaveWrite
<1>4. CASE Jump
  <2>1. CASE Reset("DEEPSLEEP") /\ UNCHANGED <<flash, strikes>>
    BY <1>0, <1>4, <2>1, ResetBoots DEF Jump, CountInv, flash, ResetReasons
  <2>2. CASE pc' = "serve_start" /\ strikes' = 0 /\ UNCHANGED flash
    BY <1>0, <2>2 DEF BootsInv, CountInv, ClearInv, flash
  <2>3. CASE pc' = "fw" /\ UNCHANGED <<flash, strikes>>
    BY <1>0, <1>4, <2>3 DEF Jump, BootsInv, CountInv, ClearInv, flash
  <2> QED BY <1>4, <2>1, <2>2, <2>3 DEF Jump
<1>5. CASE ClearErase
  <2>1. /\ pc = "clear_erase" /\ UNCHANGED <<ctrl, boot, reset, strikes>>
        /\ \/ pc' = "clear_write" /\ sector0'.image = NoImage
           \/ pc' \in {"save_erase", "serve_start"}
    BY <1>5 DEF ClearErase, EraseMetaOk, EraseMetaFailed, ErasedRecord, UpdaterSaveAt, SaveAt
  <2> QED BY <1>0, <2>1 DEF BootsInv, CountInv, ClearInv, UpdaterCount
<1>6. CASE ClearWrite
  <2>1. /\ pc = "clear_write" /\ UNCHANGED <<ctrl, boot, reset, strikes>>
        /\ pc' \in {"save_erase", "serve_start"}
    BY <1>6 DEF ClearWrite, WriteMetaOk, WriteMetaFailed, UpdaterSaveAt, SaveAt
  <2> QED BY <1>0, <2>1 DEF BootsInv, CountInv, ClearInv, UpdaterCount
<1>7. CASE StartUpdaterMode
  BY <1>0, <1>7 DEF StartUpdaterMode, BootsInv, CountInv, ClearInv, flash
<1> QED BY <1>1, <1>2, <1>3, <1>4, <1>5, <1>6, <1>7 DEF Boot

\* The firmware only ever clears the count.
LEMMA FirmwareBoots == FlashInv /\ FlashInv' /\ BootsInv /\ Firmware => BootsInv'
<1> SUFFICES ASSUME FlashInv, FlashInv', BootsInv, Firmware PROVE BootsInv'
  OBVIOUS
<1>0. /\ ctrl \in Nat /\ strikes \in Nat /\ CountInv /\ CrashResetLimit \in Nat \ {0}
  BY LimitAssumption DEF FlashInv, TypeOK, BootsInv
<1>1. CASE RequestFwUpdate
  <2>1. CASE Restart
    BY <1>0, <1>1, <2>1, ResetBoots DEF RequestFwUpdate, Restart, CountInv, flash, ResetReasons
  <2>2. CASE pc' = "fw_program" /\ UNCHANGED <<flash, strikes>>
    BY <1>0, <1>1, <2>2 DEF RequestFwUpdate, BootsInv, CountInv, ClearInv, flash
  <2> QED BY <1>1, <2>1, <2>2 DEF RequestFwUpdate
<1>2. CASE ProgramForce
  <2>1. pc = "fw_program" /\ UNCHANGED <<ctrl, strikes>>
    BY <1>2 DEF ProgramForce, ProgramForceOk, ProgramForceFailed
  <2>2. CASE Reset("SW")
    BY <1>0, <2>1, <2>2, ResetBoots DEF CountInv, ResetReasons
  <2>3. CASE pc' = "fw"
    BY <1>0, <2>1, <2>3 DEF BootsInv, CountInv, ClearInv
  <2> QED BY <1>2, <2>2, <2>3 DEF ProgramForce
<1>3. CASE MarkFirmwareHealthy
  <2>1. pc' \in {"fw", "fw_erase"} /\ pc = "fw" /\ UNCHANGED <<ctrl, strikes>>
    BY <1>3 DEF MarkFirmwareHealthy, flash
  <2> QED BY <1>0, <2>1 DEF BootsInv, CountInv, ClearInv
<1>4. CASE HealthyErase
  BY <1>0, <1>4 DEF HealthyErase, EraseCtrlOk, EraseCtrlFailed, BootsInv, CountInv, ClearInv
<1>5. CASE HealthyWrite
  BY <1>0, <1>5 DEF HealthyWrite, WriteCtrlOk, WriteCtrlFailed, BootsInv, CountInv, ClearInv
<1> QED BY <1>1, <1>2, <1>3, <1>4, <1>5 DEF Firmware

\* In updater mode there are no strikes to know of, and the count only falls.
LEMMA ServeBoots ==
  ASSUME FlashInv, BootsInv, pc = "serve", ctrl' \in {ctrl, 0}, UNCHANGED strikes,
         UNCHANGED pc \/ Restart
  PROVE  BootsInv'
<1>0. ctrl \in Nat /\ CountInv /\ CrashResetLimit \in Nat \ {0} /\ strikes' = 0
  BY LimitAssumption DEF FlashInv, TypeOK, BootsInv, CountInv
<1>1. CASE UNCHANGED pc
  BY <1>0, <1>1 DEF BootsInv, CountInv, ClearInv
<1>2. CASE Restart
  BY <1>0, <1>2, ResetBoots DEF Restart, CountInv, flash, ResetReasons
<1> QED BY <1>1, <1>2

\* Every step of updater mode is such a step.
LEMMA UpdaterBoots ==
  FlashInv /\ BootsInv
    /\ ((\E body \in Bodies : ClaimUpload(body)) \/ HandOff \/ Upload \/ HandleRestartTimer)
  => BootsInv'
<1> SUFFICES ASSUME FlashInv, BootsInv,
                    (\E body \in Bodies : ClaimUpload(body)) \/ HandOff \/ Upload
                        \/ HandleRestartTimer
             PROVE  BootsInv'
  OBVIOUS
<1>1. CASE (\E body \in Bodies : ClaimUpload(body)) \/ HandOff \/ HandleRestartTimer
  BY <1>1, ServeBoots DEF ClaimUpload, HandOff, serverOnly, HandleRestartTimer, Restart, flash, boots
<1>2. CASE CountErase \/ CountWrite
  BY <1>2, ServeBoots DEF CountErase, CountWrite, EraseCtrlOk, EraseCtrlFailed, WriteCtrlOk,
     WriteCtrlFailed, Goto, workerOnly, boots
<1>3. CASE EraseRecord \/ CommitWrite \/ CommitRollback
  BY <1>3, ServeBoots DEF EraseRecord, CommitWrite, CommitRollback, EraseMetaOk, EraseMetaFailed,
     WriteMetaOk, WriteMetaFailed, Goto, workerOnly, boots, flash
<1>4. CASE BeginOta \/ RecvChunk
  BY <1>4, ServeBoots DEF BeginOta, OtaBeginOk, OtaBeginFailed, RecvChunk, Goto, workerOnly, boots
<1>5. CASE ScheduleRestart
  BY <1>5, ServeBoots DEF ScheduleRestart, Restart, Goto, workerOnly, boots, flash
<1>6. CASE TakeRequest \/ RecvTimeout \/ RecvFailed \/ DiscardChunk \/ EndOta
  BY <1>6, ServeBoots DEF TakeRequest, RecvTimeout, RecvFailed, DiscardChunk, EndOta, Goto,
     workerOnly, boots, flash
<1>7. CASE CommitCheck \/ ClearCrashCount \/ UploadDone \/ UploadRejected \/ UploadReplied
  BY <1>7, ServeBoots DEF CommitCheck, ClearCrashCount, UploadDone, UploadRejected, UploadReplied,
     Goto, workerOnly, boots, flash
<1> QED BY <1>1, <1>2, <1>3, <1>4, <1>5, <1>6, <1>7 DEF Upload

\* A reset at any point: a crash adds a strike and the reason that will count it.
LEMMA CutBoots ==
  ASSUME FlashInv, FlashInv', BootsInv, NEW reason \in {"PANIC", "POWERON"}, Cut(reason)
  PROVE  BootsInv'
<1>0. /\ ctrl \in Nat /\ strikes \in Nat /\ ctrl' \in Nat /\ CountInv
      /\ CrashResetLimit \in Nat \ {0} /\ boot.count \in Nat
      /\ pc # "serve" => worker = "wait"
  BY LimitAssumption DEF FlashInv, TypeOK, BootsInv, BootCopy, QuietInv
<1>1. ctrl' < CrashResetLimit
  BY <1>0 DEF Cut, FlashCut, CountInv
<1>2. CASE CtrlEraseAt \/ CtrlWriteAt \/ (pc = "start" /\ reason = "POWERON")
  <2>1. strikes' = 0
    BY <1>0, <1>2 DEF Cut, CtrlEraseAt, CtrlWriteAt
  <2> QED BY <1>0, <1>1, <2>1, ResetBoots DEF Cut, ResetReasons
<1>3. CASE ~(CtrlEraseAt \/ CtrlWriteAt \/ (pc = "start" /\ reason = "POWERON"))
  <2>1. ctrl' = ctrl
    BY <1>3 DEF Cut, FlashCut
  <2>2. strikes' = IF reason = "PANIC" /\ pc \in {"fw", "fw_program"} THEN strikes + 1 ELSE strikes
    BY <1>3 DEF Cut
  <2>3. pc \notin {"pass_erase", "pass_write", "fw_erase", "save_erase", "save_write"}
    BY <1>3 DEF CtrlEraseAt, CtrlWriteAt
  <2>4. strikes' <= IF reason = "PANIC" THEN ctrl' + 1 ELSE ctrl'
    <3>1. CASE pc = "start"
      BY <1>0, <1>3, <2>1, <2>2, <3>1 DEF CountInv
    <3>2. CASE pc \in {"jump", "fw", "fw_program"}
      BY <1>0, <2>1, <2>2, <3>2 DEF CountInv
    <3>3. CASE pc \in {"clear_erase", "clear_write", "serve_start", "serve", "dead", "fw_write"}
      BY <1>0, <2>1, <2>2, <3>3 DEF CountInv
    <3>4. pc \in BootAt \cup FirmwareAt \cup {"serve", "dead"}
      BY DEF FlashInv, TypeOK
    <3> QED BY <2>3, <3>1, <3>2, <3>3, <3>4 DEF BootAt, FirmwareAt
  <2> QED BY <1>1, <2>4, ResetBoots DEF Cut, ResetReasons
<1> QED BY <1>2, <1>3

\* BootsInv is inductive relative to FlashInv.
LEMMA BootsInvNext == FlashInv /\ FlashInv' /\ BootsInv /\ [Next]_vars => BootsInv'
<1> SUFFICES ASSUME FlashInv, FlashInv', BootsInv, [Next]_vars PROVE BootsInv'
  OBVIOUS
<1>1. CASE PowerLoss \/ UpdaterCrash \/ FirmwareCrash
  BY <1>1, CutBoots DEF PowerLoss, UpdaterCrash, FirmwareCrash
<1>2. CASE UNCHANGED vars
  BY <1>2 DEF vars, flash, boots, BootsInv, CountInv, ClearInv, UpdaterCount
<1> QED BY <1>1, <1>2, BootBoots, FirmwareBoots, UpdaterBoots DEF Next

\* CountInv and ClearInv hold in every state.
THEOREM BootsSafety == Spec => [](FlashInv /\ BootsInv)
<1>1. Init => BootsInv
  BY LimitAssumption DEF Init, BootsInv, CountInv, ClearInv
<1> QED BY <1>1, FlashSafety, BootsInvNext, PTL DEF Spec

\* A firmware that crashed FW_CRASH_RESET_LIMIT times without becoming healthy is
\* not started again, wherever resets fell into the saving of the count.
THEOREM StrikesSafety == Spec => []ThreeStrikes
<1>1. FlashInv /\ BootsInv => ThreeStrikes
  BY LimitAssumption DEF FlashInv, TypeOK, BootsInv, CountInv, ThreeStrikes, FirmwareAt
<1> QED BY <1>1, BootsSafety, PTL

-----------------------------------------------------------------------------
(* The slot.                                                               *)

\* What the slot holds is what the record in flash says.
Held == IF IsFwMetaRecordValid(sector0) /\ ota = sector0.image THEN ota ELSE NoImage

\* A record that reads as valid names what ota_0 holds, so the slot is the record.
LEMMA HeldIsRecord == FlashInv => Held = sector0.image
BY SizesAssumption DEF FlashInv, RecordInv, IsFwMetaRecordValid, Held

\* A step of the slot: no firmware runs and the record comes or goes, or it stays
\* and the firmware it names starts or ends.
LEMMA SlotStep ==
  ASSUME FlashInv, FlashInv',
         \/ /\ sector0'.image = sector0.image
            /\ \/ running' \in {running, NoImage}
               \/ running = NoImage /\ running' = sector0.image /\ sector0.image # NoImage
         \/ /\ running = NoImage /\ running' = NoImage
            /\ NoImage \in {sector0.image, sector0'.image}
  PROVE  [Slot!Next]_Slot!vars
<1>1. Held = sector0.image
  BY HeldIsRecord
<1>2. Held' = sector0'.image
  BY SizesAssumption DEF FlashInv, RecordInv, IsFwMetaRecordValid, Held
<1>3. sector0'.image # NoImage => sector0'.image \in Verified
  BY DEF FlashInv, RecordInv
<1> QED
  BY <1>1, <1>2, <1>3 DEF Held, Slot!Next, Slot!Discard, Slot!Install, Slot!Start, Slot!Stop, Slot!vars

\* Every step is a step of the slot or changes nothing of it.
LEMMA NextSlot == FlashInv /\ FlashInv' /\ BootsInv /\ [Next]_vars => [Slot!Next]_Slot!vars
<1> SUFFICES ASSUME FlashInv, FlashInv', BootsInv, [Next]_vars PROVE [Slot!Next]_Slot!vars
  OBVIOUS
<1>0. /\ sector0 \in MetaRecord
      /\ pc \notin FirmwareAt => running = NoImage
      /\ QuietInv /\ BootInv /\ WorkerInv /\ RunningInv /\ ClearInv
      /\ boot.image \in Bodies \cup {NoImage} /\ up.body \in Bodies \cup {NoImage}
  BY DEF FlashInv, TypeOK, RunningInv, BootsInv, BootCopy, Locals
<1>1. CASE UNCHANGED vars
  BY <1>1, SlotStep DEF vars, flash, boots
<1>2. CASE Decide \/ SaveErase \/ SaveWrite \/ StartUpdaterMode
  BY <1>2, SlotStep DEF Decide, DecideOn, SaveErase, SaveWrite, StartUpdaterMode, EraseCtrlOk, EraseCtrlFailed,
     WriteCtrlOk, WriteCtrlFailed, flash
<1>3. CASE Jump
  BY <1>0, <1>3, SlotStep DEF Jump, Reset, VolatileLost, BootInv, BootAt, FirmwareAt, flash
<1>4. CASE ClearErase \/ ClearWrite
  <2>1. pc \notin FirmwareAt /\ UNCHANGED running
    BY <1>4 DEF ClearErase, ClearWrite, FirmwareAt
  <2>2. CASE ClearErase
    <3>1. sector0'.image \in {sector0.image, NoImage}
      BY <1>0, <2>2, SectorTypes DEF ClearErase, EraseMetaOk, EraseMetaFailed
    <3> QED BY <1>0, <2>1, <3>1, SlotStep
  <2>3. CASE ClearWrite
    BY <1>0, <2>1, <2>3, SlotStep DEF ClearWrite, ClearInv
  <2> QED BY <1>4, <2>2, <2>3
<1>5. CASE Firmware
  <2>1. sector0'.image = sector0.image
    BY <1>0, <1>5, SectorTypes DEF Firmware, RequestFwUpdate, Restart, ProgramForce, MarkFirmwareHealthy,
       HealthyErase, HealthyWrite, ProgramForceOk, ProgramForceFailed, EraseCtrlOk,
       EraseCtrlFailed, WriteCtrlOk, WriteCtrlFailed, PartlyForced, flash
  <2>2. running' \in {running, NoImage}
    BY <1>5 DEF Firmware, RequestFwUpdate, Restart, Reset, VolatileLost, ProgramForce,
       MarkFirmwareHealthy, HealthyErase, HealthyWrite, firmwareOnly
  <2> QED BY <2>1, <2>2, SlotStep
<1>6. CASE (\E body \in Bodies : ClaimUpload(body)) \/ HandOff
  BY <1>6, SlotStep DEF ClaimUpload, HandOff, serverOnly, flash, boots
<1>7. CASE HandleRestartTimer \/ ScheduleRestart
  BY <1>7, SlotStep DEF HandleRestartTimer, ScheduleRestart, Restart, Reset, VolatileLost,
     workerOnly, flash, boots
<1>8. CASE EraseRecord \/ CommitRollback
  <2>1. sector0'.image \in {sector0.image, NoImage} /\ UNCHANGED running /\ pc = "serve"
    BY <1>0, <1>8, SectorTypes DEF EraseRecord, CommitRollback, EraseMetaOk, EraseMetaFailed, Goto,
       workerOnly, boots
  <2> QED BY <1>0, <2>1, SlotStep DEF FirmwareAt
<1>9. CASE CommitWrite
  <2>1. sector0.image = NoImage /\ UNCHANGED running /\ pc = "serve"
    BY <1>0, <1>9 DEF CommitWrite, Goto, WorkerInv, workerOnly, boots
  <2> QED BY <1>0, <2>1, SlotStep DEF FirmwareAt
<1>10. CASE BeginOta \/ RecvChunk \/ CountErase \/ CountWrite
  BY <1>10, SlotStep DEF BeginOta, OtaBeginOk, OtaBeginFailed, RecvChunk, CountErase, CountWrite,
     EraseCtrlOk, EraseCtrlFailed, WriteCtrlOk, WriteCtrlFailed, workerOnly, boots
<1>11. CASE TakeRequest \/ RecvTimeout \/ RecvFailed \/ DiscardChunk \/ EndOta
  BY <1>11, SlotStep DEF TakeRequest, RecvTimeout, RecvFailed, DiscardChunk, EndOta, workerOnly,
     boots, flash
<1>12. CASE CommitCheck \/ ClearCrashCount \/ UploadDone \/ UploadRejected \/ UploadReplied
  BY <1>12, SlotStep DEF CommitCheck, ClearCrashCount, UploadDone, UploadRejected, UploadReplied,
     workerOnly, boots, flash
<1>13. CASE PowerLoss \/ UpdaterCrash \/ FirmwareCrash
  <2>1. FlashCut /\ running' = NoImage
    BY <1>13 DEF PowerLoss, UpdaterCrash, FirmwareCrash, Cut, Reset, VolatileLost
  <2>2. CASE pc \in FirmwareAt
    <3>1. worker = "wait" /\ pc # "clear_erase" /\ pc # "clear_write"
      BY <1>0, <2>2 DEF QuietInv, FirmwareAt
    <3>2. sector0' \in PartlyForced \cup {sector0}
      BY <2>1, <3>1 DEF FlashCut, MetaEraseAt, MetaWriteAt
    <3>3. sector0'.image = sector0.image
      BY <1>0, <3>2, SectorTypes
    <3> QED BY <2>1, <3>3, SlotStep
  <2>3. CASE pc \notin FirmwareAt
    <3>1. CASE MetaEraseAt
      <4>1. sector0'.image \in {sector0.image, NoImage}
        BY <1>0, <2>1, <3>1, SectorTypes DEF FlashCut, MetaEraseAt, MetaWriteAt, QuietInv
      <4> QED BY <1>0, <2>1, <2>3, <4>1, SlotStep
    <3>2. CASE MetaWriteAt
      <4>1. sector0.image = NoImage
        BY <1>0, <3>2 DEF MetaWriteAt, ClearInv, WorkerInv
      <4> QED BY <1>0, <2>1, <2>3, <4>1, SlotStep
    <3>3. CASE ~MetaEraseAt /\ ~MetaWriteAt
      <4>1. sector0' = sector0
        BY <2>1, <2>3, <3>3 DEF FlashCut, FirmwareAt
      <4> QED BY <2>1, <4>1, SlotStep
    <3> QED BY <3>1, <3>2, <3>3
  <2> QED BY <2>2, <2>3
<1> QED
  BY <1>1, <1>2, <1>3, <1>4, <1>5, <1>6, <1>7, <1>8, <1>9, <1>10, <1>11, <1>12, <1>13
  DEF Next, Boot, Upload

\* The updater implements an atomically replaced firmware slot, with failing flash
\* calls and resets anywhere: RunUpload() discards, then installs, and what runs is
\* what the slot holds.
THEOREM UpdaterImplementsSlot == Spec => SlotSpec
<1>1. Init => Slot!Init
  BY BodiesAssumption, SizesAssumption DEF Init, Slot!Init, IsFwMetaRecordValid
<1> QED BY <1>1, BootsSafety, NextSlot, PTL DEF Spec, SlotSpec, Slot!Spec

-----------------------------------------------------------------------------
(* Without flash faults, the version the page shows is what a power cycle  *)
(* starts.                                                                 *)

\* The record agrees with app_main()'s copy once the force flag is out of the way,
\* and with the version shown, which is forgotten for as long as it may change.
ReturnInv ==
    /\ pc \in {"save_erase", "save_write", "serve_start"} /\ boot.match =>
          sector0 = BuildFwMetaRecord(boot.image)
    /\ pc = "serve" /\ installed # NoImage => sector0 = BuildFwMetaRecord(installed)
    /\ worker \in {"begin", "recv", "discard", "end", "commit", "check", "rollback"} =>
          installed = NoImage

\* app_main() in front of updater mode.
LEMMA BootReturn ==
  ASSUME Faults = FALSE, FlashInv, ReturnInv, Boot
  PROVE  ReturnInv'
<1>0. /\ worker = "wait" /\ worker' = "wait" /\ boot \in BootCopy /\ sector0 \in MetaRecord
      /\ UpdaterSaveAt(boot) \in {"save_erase", "serve_start"}
  BY DEF FlashInv, TypeOK, QuietInv, Boot, Decide, DecideOn, SaveErase, SaveWrite, Jump, ClearErase,
     ClearWrite, StartUpdaterMode, http, Reset, VolatileLost, UpdaterSaveAt, SaveAt
<1>1. CASE Decide
  <2>1. PICK match \in BOOLEAN :
          /\ match => IsFwMetaRecordValid(sector0)
          /\ DecideOn(sector0, ctrl, match)
    BY <1>1 DEF Decide, ReadFwMetaRecord, ReadFwCtrlRecord, IsOtaMatchingRecord
  <2>2. UNCHANGED <<sector0, installed>> /\ pc = "start"
    BY <1>1 DEF Decide, flash, http
  <2>3. boot'.image = sector0.image /\ boot'.match = match /\ boot'.forced = sector0.forced
    BY <2>1 DEF DecideOn
  <2>4. pc' \in {"save_erase", "save_write", "serve_start"} => ~sector0.forced
    BY <2>1 DEF DecideOn, SaveAt
  <2>5. pc' # "serve"
    BY <2>1 DEF DecideOn, SaveAt, UpdaterSaveAt
  <2>6. ~sector0.forced => sector0 = [image |-> sector0.image, forced |-> FALSE]
    BY <1>0 DEF MetaRecord
  <2> QED BY <1>0, <2>2, <2>3, <2>4, <2>5, <2>6 DEF ReturnInv, BuildFwMetaRecord
<1>2. CASE SaveErase \/ SaveWrite
  BY <1>0, <1>2 DEF SaveErase, SaveWrite, EraseCtrlOk, EraseCtrlFailed, WriteCtrlOk, WriteCtrlFailed,
     ReturnInv, http
<1>3. CASE Jump
  BY <1>0, <1>3 DEF Jump, ReturnInv
<1>4. CASE ClearErase
  BY <1>0, <1>4 DEF ClearErase, EraseMetaFailed, ReturnInv
<1>5. CASE ClearWrite
  BY <1>0, <1>5 DEF ClearWrite, WriteMetaOk, WriteMetaFailed, ReturnInv
<1>6. CASE StartUpdaterMode
  BY <1>0, <1>6 DEF StartUpdaterMode, ReturnInv, flash
<1> QED BY <1>1, <1>2, <1>3, <1>4, <1>5, <1>6 DEF Boot

\* The upload forgets the version before it touches anything, and shows the new
\* one when its record has been read back.
LEMMA UploadReturn ==
  ASSUME Faults = FALSE, FlashInv, ReturnInv, Upload
  PROVE  ReturnInv'
<1>0. /\ pc = "serve" \/ worker = "wait"
      /\ queue # NoImage => pc = "serve"
  BY DEF FlashInv, QuietInv
<1>1. CASE ScheduleRestart
  BY <1>0, <1>1 DEF ScheduleRestart, Goto, ReturnInv, flash, workerOnly, boots
<1>2. CASE EraseRecord
  BY <1>2 DEF EraseRecord, EraseMetaFailed, Goto, ReturnInv, workerOnly, boots
<1>3. CASE BeginOta \/ RecvChunk
  BY <1>3 DEF BeginOta, OtaBeginOk, OtaBeginFailed, RecvChunk, Goto, ReturnInv, workerOnly, boots
<1>4. CASE CommitWrite \/ CommitRollback
  BY <1>4 DEF CommitWrite, CommitRollback, WriteMetaOk, WriteMetaFailed, EraseMetaOk, EraseMetaFailed,
     Goto, ReturnInv, workerOnly, boots
<1>5. CASE CommitCheck
  BY <1>5 DEF CommitCheck, ReadFwMetaRecord, Goto, ReturnInv, workerOnly, boots, flash
<1>6. CASE CountErase \/ CountWrite
  BY <1>6 DEF CountErase, CountWrite, EraseCtrlOk, EraseCtrlFailed, WriteCtrlOk, WriteCtrlFailed, Goto,
     ReturnInv, workerOnly, boots
<1>7. CASE TakeRequest \/ RecvTimeout \/ RecvFailed \/ DiscardChunk \/ EndOta
  BY <1>7 DEF TakeRequest, RecvTimeout, RecvFailed, DiscardChunk, EndOta, Goto, ReturnInv, workerOnly,
     boots, flash
<1>8. CASE ClearCrashCount \/ UploadDone \/ UploadRejected \/ UploadReplied
  BY <1>8 DEF ClearCrashCount, UploadDone, UploadRejected, UploadReplied, Goto, ReturnInv, workerOnly,
     boots, flash
<1> QED BY <1>1, <1>2, <1>3, <1>4, <1>5, <1>6, <1>7, <1>8 DEF Upload

LEMMA ReturnNext ==
  ASSUME Faults = FALSE, FlashInv, ReturnInv, [Next]_vars
  PROVE  ReturnInv'
<1>1. CASE HandleRestartTimer \/ PowerLoss \/ UpdaterCrash \/ FirmwareCrash
  BY <1>1 DEF HandleRestartTimer, Restart, PowerLoss, UpdaterCrash, FirmwareCrash, Cut, Reset,
     VolatileLost, ReturnInv
<1>2. CASE Firmware
  <2>1. pc \in FirmwareAt /\ pc' \in FirmwareAt \cup {"start"} /\ worker' = "wait"
    BY <1>2 DEF Firmware, RequestFwUpdate, ProgramForce, MarkFirmwareHealthy, HealthyErase, HealthyWrite,
       Restart, Reset, VolatileLost, FirmwareAt, firmwareOnly, http, FlashInv, QuietInv
  <2> QED BY <2>1 DEF ReturnInv, FirmwareAt
<1>3. CASE (\E body \in Bodies : ClaimUpload(body)) \/ HandOff
  BY <1>3 DEF ClaimUpload, HandOff, serverOnly, flash, boots, ReturnInv
<1>4. CASE UNCHANGED vars
  BY <1>4 DEF vars, flash, boots, http, ReturnInv
<1> QED BY <1>1, <1>2, <1>3, <1>4, BootReturn, UploadReturn DEF Next

\* Without flash faults, whatever power cuts and crashes came before: while the page
\* names an installed version, a power cycle starts exactly that firmware.
THEOREM ReturnSafety == ASSUME Faults = FALSE PROVE Spec => []PowerCycleReturns
<1>1. Init => ReturnInv
  BY DEF Init, ReturnInv
<1>2. FlashInv /\ ReturnInv /\ [Next]_vars => ReturnInv'
  BY ReturnNext
<1>3. FlashInv /\ ReturnInv => PowerCycleReturns
  <2> SUFFICES ASSUME FlashInv, ReturnInv, pc = "serve", installed # NoImage
               PROVE  NextStart = "FIRMWARE" /\ sector0 = BuildFwMetaRecord(installed)
    BY DEF PowerCycleReturns
  <2>1. sector0.image = installed /\ ~sector0.forced /\ sector0 = BuildFwMetaRecord(installed)
    BY DEF ReturnInv, BuildFwMetaRecord
  <2>2. ota = sector0.image /\ ota \in Verified /\ IsFwMetaRecordValid(sector0)
    BY <2>1, SizesAssumption DEF FlashInv, RecordInv, IsFwMetaRecordValid
  <2> QED BY <2>1, <2>2 DEF NextStart, DecideFwBoot, IsCrashReset
<1> QED BY <1>1, <1>2, <1>3, FlashSafety, PTL DEF Spec
=============================================================================
