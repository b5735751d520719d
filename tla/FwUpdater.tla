----------------------------- MODULE FwUpdater ------------------------------
(***************************************************************************)
(* The device as a firmware host.  Every reset starts the updater, whose   *)
(* app_main() reads the records, decides, and either jumps to the firmware *)
(* in ota_0 or stays in updater mode, where the HTTP server task and the   *)
(* upload worker replace the firmware.  The firmware may ask for updater   *)
(* mode, declare itself healthy, or crash.  Any reset may come at any      *)
(* point, in the middle of a flash operation too, and takes all volatile   *)
(* state with it.                                                          *)
(***************************************************************************)
EXTENDS FwFlash

CONSTANTS Cuts,         \* BOOLEAN: resets may come at any point
          RecvRetries   \* FW_UPLOAD_RECV_RETRIES

ASSUME UpdaterAssumption == Cuts \in BOOLEAN /\ RecvRetries \in Nat

VARIABLES pc,           \* where the application that runs is
          reset,        \* esp_reset_reason() of the last reset
          boot,         \* app_main()'s copy of the records and its decision
          running,      \* the image of the running firmware
          healthy,      \* s_is_healthy_pending of the firmware
          state,        \* s_upload_state
          installed,    \* s_installed_version
          httpd,        \* the body HandleUpload() has claimed, or NoImage
          queue,        \* s_upload_queue: the request handed over, or NoImage
          worker,       \* where the upload worker is
          up,           \* the worker's locals: body, received, timeouts, open
          restart,      \* the restart timer runs
          strikes       \* history: firmware crashes the crash count must know of

boots == <<pc, reset, boot, running, healthy>>
http == <<state, installed, httpd, queue, worker, up, restart>>
vars == <<flash, boots, http, strikes>>

FirmwareAt == {"fw", "fw_program", "fw_erase", "fw_write"}
BootAt == {"start", "pass_erase", "pass_write", "jump",
           "clear_erase", "clear_write", "save_erase", "save_write", "serve_start"}
WorkerAt == {"wait", "erase", "begin", "recv", "discard", "end", "commit", "check",
             "rollback", "count", "count_erase", "count_write", "done", "schedule",
             "reject", "reply"}

BootCopy == [image : Bodies \cup {NoImage}, forced : BOOLEAN, match : BOOLEAN,
             stored : Nat, count : Nat, mode : BootModes]
Locals == [body : Bodies \cup {NoImage}, received : Nat, timeouts : 0..RecvRetries,
           open : BOOLEAN]
NoBoot == [image |-> NoImage, forced |-> FALSE, match |-> FALSE,
           stored |-> 0, count |-> 0, mode |-> "NO_FIRMWARE"]
NoUpload == [body |-> NoImage, received |-> 0, timeouts |-> 0, open |-> FALSE]

TypeOK ==
    /\ sector0 \in MetaRecord
    /\ ctrl \in Nat
    /\ ota \in Bodies \cup {NoImage}
    /\ pc \in BootAt \cup FirmwareAt \cup {"serve", "dead"}
    /\ reset \in ResetReasons
    /\ boot \in BootCopy
    /\ running \in Bodies \cup {NoImage}
    /\ healthy \in BOOLEAN
    /\ state \in {"idle", "uploading", "done", "error"}
    /\ installed \in Bodies \cup {NoImage}
    /\ httpd \in Bodies \cup {NoImage}
    /\ queue \in Bodies \cup {NoImage}
    /\ worker \in WorkerAt
    /\ up \in Locals
    /\ restart \in BOOLEAN
    /\ strikes \in Nat

-----------------------------------------------------------------------------
(* Resets.                                                                 *)

\* RAM after a reset: nothing of the application that ran survives.
VolatileLost ==
    /\ boot' = NoBoot /\ running' = NoImage /\ healthy' = TRUE
    /\ state' = "idle" /\ installed' = NoImage /\ httpd' = NoImage /\ queue' = NoImage
    /\ worker' = "wait" /\ up' = NoUpload /\ restart' = FALSE

\* The stock bootloader starts the updater on every reset that is not the
\* deep-sleep wakeup of JumpToFirmware().
Reset(reason) == pc' = "start" /\ reset' = reason /\ VolatileLost

\* esp_restart() between flash operations.
Restart == Reset("SW") /\ UNCHANGED <<flash, strikes>>

\* The device leaves the factory over USB: either blank, or with an image and
\* the fw_meta.bin that tools/gen_fw_meta.py made of it.
Init ==
    /\ ota \in Verified \cup {NoImage}
    /\ sector0 = [image |-> ota, forced |-> FALSE]
    /\ ctrl = 0
    /\ pc = "start" /\ reset = "POWERON" /\ boot = NoBoot
    /\ running = NoImage /\ healthy = TRUE
    /\ state = "idle" /\ installed = NoImage /\ httpd = NoImage /\ queue = NoImage
    /\ worker = "wait" /\ up = NoUpload /\ restart = FALSE
    /\ strikes = 0

-----------------------------------------------------------------------------
(* app_main() of the updater.                                              *)

\* IsOtaMatchingRecord(): image magic, embedded version and SHA-256 of ota_0.
\* A failed read or digest is a mismatch.
IsOtaMatchingRecord(record) ==
    {IsFwMetaRecordValid(record) /\ ota = record.image} \cup (IF Faults THEN {FALSE} ELSE {})

\* What SaveCrashCount() does next: nothing if the count is the stored one.
SaveAt(erase, next, stored, count) == IF count = stored THEN next ELSE erase

\* The crash count updater mode stores: a crash loop is reported once.
UpdaterCount(b) == IF b.mode = "CRASH_LOOP" THEN 0 ELSE b.count

UpdaterSaveAt(b) == SaveAt("save_erase", "serve_start", b.stored, UpdaterCount(b))

\* What app_main() makes of the records it read and of the check of ota_0.
DecideOn(record, count, match) ==
    LET d == DecideFwBoot(record.forced, IsFwMetaRecordValid(record), match, count, reset)
        b == [image |-> record.image, forced |-> record.forced, match |-> match,
              stored |-> count, count |-> d.count, mode |-> d.mode]
    IN  /\ boot' = b
        /\ pc' = CASE d.mode = "FIRMWARE" -> SaveAt("pass_erase", "jump", count, d.count)
                   [] d.mode # "FIRMWARE" /\ record.forced -> "clear_erase"
                   [] OTHER -> UpdaterSaveAt(b)
        /\ strikes' = IF d.mode = "FIRMWARE" /\ count = ctrl THEN strikes ELSE 0

\* Read both records, check ota_0 and decide.
Decide ==
    /\ pc = "start"
    /\ \E record \in ReadFwMetaRecord, count \in ReadFwCtrlRecord :
       \E match \in IsOtaMatchingRecord(record) : DecideOn(record, count, match)
    /\ UNCHANGED <<flash, reset, running, healthy, http>>

\* SaveCrashCount(): erase, then write, in front of the jump or of updater mode.
\* A failed write is logged and forgotten.
SaveErase ==
    /\ pc \in {"pass_erase", "save_erase"}
    /\ LET write == IF pc = "pass_erase" THEN "pass_write" ELSE "save_write"
           skip  == IF pc = "pass_erase" THEN "jump" ELSE "serve_start"
       IN  \/ EraseCtrlOk /\ pc' = write /\ UNCHANGED strikes
           \/ EraseCtrlFailed /\ pc' = skip /\ strikes' = 0
    /\ UNCHANGED <<reset, boot, running, healthy, http>>

SaveWrite ==
    /\ pc \in {"pass_write", "save_write"}
    /\ LET count == IF pc = "pass_write" THEN boot.count ELSE UpdaterCount(boot)
       IN  \/ WriteCtrlOk(count) /\ UNCHANGED strikes
           \/ WriteCtrlFailed(count) /\ strikes' = 0
    /\ pc' = IF pc = "pass_write" THEN "jump" ELSE "serve_start"
    /\ UNCHANGED <<reset, boot, running, healthy, http>>

\* JumpToFirmware(): the deep-sleep wakeup makes the bootloader start whatever
\* ota_0 holds.  The jump may not be prepared, and the bootloader may fall back.
Jump ==
    /\ pc = "jump"
    /\ \/ /\ pc' = "fw" /\ running' = ota /\ reset' = "DEEPSLEEP"
          /\ boot' = NoBoot /\ UNCHANGED <<healthy, http, strikes>>
       \/ /\ Faults
          /\ pc' = "serve_start" /\ strikes' = 0
          /\ UNCHANGED <<reset, boot, running, healthy, http>>
       \/ Faults /\ Reset("DEEPSLEEP") /\ UNCHANGED strikes
    /\ UNCHANGED flash

\* ClearForceFlag(): erase sector 0, then rewrite the record as it was read.
\* The read-back only decides what is logged.
ClearErase ==
    /\ pc = "clear_erase"
    /\ \/ EraseMetaOk /\ pc' = "clear_write"
       \/ EraseMetaFailed /\ pc' = UpdaterSaveAt(boot)
    /\ UNCHANGED <<reset, boot, running, healthy, http, strikes>>

\* Mutant: the rewritten record keeps the flag.
ClearWriteForced ==
    /\ pc = "clear_write"
    /\ sector0' = [image |-> boot.image, forced |-> TRUE] /\ UNCHANGED <<ctrl, ota>>
    /\ pc' = UpdaterSaveAt(boot)
    /\ UNCHANGED <<reset, boot, running, healthy, http, strikes>>

ClearWrite ==
    /\ pc = "clear_write"
    /\ WriteMetaOk(boot.image) \/ WriteMetaFailed(boot.image)
    /\ pc' = UpdaterSaveAt(boot)
    /\ UNCHANGED <<reset, boot, running, healthy, http, strikes>>

\* Mutant: without an installed firmware the updater restarts instead of serving.
StartUpdaterModeOrRestart ==
    /\ pc = "serve_start"
    /\ \/ /\ boot.match /\ pc' = "serve" /\ installed' = boot.image
          /\ UNCHANGED <<flash, reset, boot, running, healthy, state, httpd, queue, worker,
                         up, restart, strikes>>
       \/ ~boot.match /\ Restart

\* StartUpdaterMode(): SoftAP, worker and HTTP server; a failure leaves the
\* device doing nothing until it is power-cycled.
StartUpdaterMode ==
    /\ pc = "serve_start"
    /\ \/ /\ pc' = "serve"
          /\ installed' = IF boot.match THEN boot.image ELSE NoImage
       \/ Faults /\ pc' = "dead" /\ UNCHANGED installed
    /\ UNCHANGED <<flash, reset, boot, running, healthy, state, httpd, queue, worker, up,
                   restart, strikes>>

-----------------------------------------------------------------------------
(* The firmware, as far as the updater is concerned (fw_update.c).         *)

firmwareOnly == <<reset, boot, running, http>>

\* HandleUpdateRequest(): without a valid record there is no flag to set, and
\* the restart alone leads to updater mode.
RequestFwUpdate ==
    /\ pc = "fw"
    /\ \E record \in ReadFwMetaRecord :
          \/ /\ IsFwMetaRecordValid(record)
             /\ pc' = "fw_program"
             /\ UNCHANGED <<flash, firmwareOnly, healthy, strikes>>
          \/ ~IsFwMetaRecordValid(record) /\ Restart

\* A failed programming keeps the firmware running.
ProgramForce ==
    /\ pc = "fw_program"
    /\ \/ ProgramForceOk /\ Reset("SW") /\ UNCHANGED strikes
       \/ /\ ProgramForceFailed
          /\ pc' = "fw"
          /\ UNCHANGED <<firmwareOnly, healthy, strikes>>

\* MarkFirmwareHealthy(), once per start, after FW_HEALTHY_UPTIME_MS.
MarkFirmwareHealthy ==
    /\ pc = "fw" /\ healthy
    /\ healthy' = FALSE
    /\ \E count \in ReadFwCtrlRecord : pc' = IF count = 0 THEN "fw" ELSE "fw_erase"
    /\ UNCHANGED <<flash, firmwareOnly, strikes>>

\* The count starts over as soon as the control record is being rewritten.
HealthyErase ==
    /\ pc = "fw_erase"
    /\ \/ EraseCtrlOk /\ pc' = "fw_write"
       \/ EraseCtrlFailed /\ pc' = "fw"
    /\ strikes' = 0
    /\ UNCHANGED <<firmwareOnly, healthy>>

HealthyWrite ==
    /\ pc = "fw_write"
    /\ WriteCtrlOk(0) \/ WriteCtrlFailed(0)
    /\ pc' = "fw"
    /\ UNCHANGED <<firmwareOnly, healthy, strikes>>

-----------------------------------------------------------------------------
(* POST /update in the HTTP server task.                                   *)

IsSizeValid(body) == BodyLen[body] > 0 /\ BodyLen[body] <= OtaSize

serverOnly == <<flash, boots, worker, up, installed, restart, strikes>>

\* Mutants: the claim forgets one of the two busy states.
ClaimWhileUploading(body) ==
    /\ pc = "serve" /\ httpd = NoImage
    /\ state # "done"
    /\ state' = "uploading" /\ httpd' = body
    /\ UNCHANGED <<serverOnly, queue>>
ClaimWhileDone(body) ==
    /\ pc = "serve" /\ httpd = NoImage
    /\ state # "uploading"
    /\ state' = "uploading" /\ httpd' = body
    /\ UNCHANGED <<serverOnly, queue>>

\* The claim, under s_state_mutex.  A busy state answers 409 and changes nothing.
ClaimUpload(body) ==
    /\ pc = "serve" /\ httpd = NoImage
    /\ state \notin {"uploading", "done"}
    /\ state' = "uploading" /\ httpd' = body
    /\ UNCHANGED <<serverOnly, queue>>

\* The rest of HandleUpload(): a bad size or a failed hand-off gives the claim
\* back as an error.
HandOff ==
    /\ pc = "serve" /\ httpd # NoImage
    /\ httpd' = NoImage
    /\ \/ /\ IsSizeValid(httpd) /\ queue = NoImage
          /\ queue' = httpd /\ UNCHANGED state
       \/ /\ ~IsSizeValid(httpd) \/ queue # NoImage \/ Faults
          /\ state' = "error" /\ UNCHANGED queue
    /\ UNCHANGED serverOnly

-----------------------------------------------------------------------------
(* The upload worker: RunUpload() and ProcessUpload().                     *)

workerOnly == <<boots, httpd, strikes>>

Goto(here, there) == pc = "serve" /\ worker = here /\ worker' = there

\* xQueueReceive() and the size check of RunUpload().
TakeRequest ==
    /\ queue # NoImage
    /\ Goto("wait", IF IsSizeValid(queue) THEN "erase" ELSE "reject")
    /\ queue' = NoImage
    /\ up' = [NoUpload EXCEPT !.body = queue]
    /\ UNCHANGED <<flash, state, installed, restart, workerOnly>>

\* Mutant: the record is not erased first.
EraseRecordMissing ==
    /\ Goto("erase", "begin") /\ installed' = NoImage
    /\ UNCHANGED <<flash, state, queue, up, restart, workerOnly>>

\* EraseFwMetaRecord() before anything touches ota_0, then SetInstalledVersion(NULL).
EraseRecord ==
    /\ \/ Goto("erase", "begin") /\ EraseMetaOk /\ installed' = NoImage
       \/ Goto("erase", "reject") /\ EraseMetaFailed /\ UNCHANGED installed
    /\ UNCHANGED <<state, queue, up, restart, workerOnly>>

BeginOta ==
    /\ \/ Goto("begin", "recv") /\ OtaBeginOk /\ up' = [up EXCEPT !.open = TRUE]
       \/ Goto("begin", "reject") /\ OtaBeginFailed /\ UNCHANGED up
    /\ UNCHANGED <<state, installed, queue, restart, workerOnly>>

\* Mutants: one retry too many; retries are never used up.
RecvTimeoutOnceMore ==
    /\ \/ Goto("recv", "recv") \/ Goto("discard", "discard")
    /\ up.timeouts <= RecvRetries
    /\ up' = [up EXCEPT !.timeouts = @ + 1]
    /\ UNCHANGED <<flash, state, installed, queue, restart, workerOnly>>
RecvTimeoutForever ==
    /\ \/ Goto("recv", "recv") \/ Goto("discard", "discard")
    /\ up' = [up EXCEPT !.timeouts = IF @ < RecvRetries THEN @ + 1 ELSE 0]
    /\ UNCHANGED <<flash, state, installed, queue, restart, workerOnly>>

\* httpd_req_recv() timed out and may be retried.
RecvTimeout ==
    /\ \/ Goto("recv", "recv") \/ Goto("discard", "discard")
    /\ up.timeouts < RecvRetries
    /\ up' = [up EXCEPT !.timeouts = @ + 1]
    /\ UNCHANGED <<flash, state, installed, queue, restart, workerOnly>>

\* The retries are used up, or the connection is gone.
RecvFailed ==
    /\ \/ Goto("recv", "reject") \/ Goto("discard", "reject")
    /\ UNCHANGED <<flash, state, installed, queue, up, restart, workerOnly>>

\* One pass of ReceiveImage()'s loop that received a chunk: the head is checked
\* when it is complete, then the chunk goes to esp_ota_write().
RecvChunk ==
    LET received == up.received + 1
        last == received = BodyLen[up.body]
        headBad == received = HeadLen /\ up.body \notin HeadOk
        next == CASE last /\ received < HeadLen -> "reject"
                  [] last /\ received >= HeadLen -> "end"
                  [] OTHER -> "recv"
    IN  /\ worker = "recv" /\ up.received < BodyLen[up.body]
        /\ \/ /\ ~headBad /\ Goto("recv", next)
              /\ ota' = IF last THEN up.body ELSE NoImage
           \/ /\ headBad \/ Faults \* a bad head, or esp_ota_write() failed
              /\ Goto("recv", IF last THEN "reject" ELSE "discard")
              /\ ota' \in {ota} \cup (IF last /\ ~headBad THEN {up.body} ELSE {})
        /\ up' = [up EXCEPT !.received = received, !.timeouts = 0]
        /\ UNCHANGED <<sector0, ctrl, state, installed, queue, restart, workerOnly>>

\* DiscardBody(): drain the rest of a rejected upload.
DiscardChunk ==
    LET received == up.received + 1
    IN  /\ worker = "discard" /\ up.received < BodyLen[up.body]
        /\ Goto("discard", IF received = BodyLen[up.body] THEN "reject" ELSE "discard")
        /\ up' = [up EXCEPT !.received = received, !.timeouts = 0]
        /\ UNCHANGED <<flash, state, installed, queue, restart, workerOnly>>

\* Mutant: the result of esp_ota_end() is ignored.
EndOtaUnchecked ==
    /\ Goto("end", "commit")
    /\ up' = [up EXCEPT !.open = FALSE]
    /\ UNCHANGED <<flash, state, installed, queue, restart, workerOnly>>

\* esp_ota_end() verifies what ota_0 now holds and releases the handle.
EndOta ==
    /\ \/ Goto("end", "commit") /\ ota \in Verified
       \/ Goto("end", "reject") /\ (ota \notin Verified \/ Faults)
    /\ up' = [up EXCEPT !.open = FALSE]
    /\ UNCHANGED <<flash, state, installed, queue, restart, workerOnly>>

\* Mutant: neither the write nor the read-back is checked.
CommitUnchecked ==
    /\ Goto("commit", "count")
    /\ WriteMetaOk(up.body) \/ WriteMetaFailed(up.body)
    /\ installed' = up.body
    /\ UNCHANGED <<state, queue, up, restart, workerOnly>>

\* CommitMetaRecord(): digest of ota_0, record written into the erased sector.
CommitWrite ==
    /\ \/ Goto("commit", "check") /\ WriteMetaOk(up.body)
       \/ Goto("commit", "rollback") /\ WriteMetaFailed(up.body)
       \/ Goto("commit", "reject") /\ Faults /\ UNCHANGED flash
    /\ UNCHANGED <<state, installed, queue, up, restart, workerOnly>>

\* The read-back decides: SetInstalledVersion(), or erase again.
CommitCheck ==
    /\ \E record \in ReadFwMetaRecord :
          LET good == IsFwMetaRecordValid(record) /\ record = BuildFwMetaRecord(up.body)
          IN  \/ good /\ Goto("check", "count") /\ installed' = up.body
              \/ ~good /\ Goto("check", "rollback") /\ UNCHANGED installed
    /\ UNCHANGED <<flash, state, queue, up, restart, workerOnly>>

CommitRollback ==
    /\ Goto("rollback", "reject")
    /\ EraseMetaOk \/ EraseMetaFailed
    /\ UNCHANGED <<state, installed, queue, up, restart, workerOnly>>

\* ClearCrashCount(): the new firmware gets all its tries.
ClearCrashCount ==
    /\ \E count \in ReadFwCtrlRecord : Goto("count", IF count = 0 THEN "done" ELSE "count_erase")
    /\ UNCHANGED <<flash, state, installed, queue, up, restart, workerOnly>>

CountErase ==
    /\ \/ Goto("count_erase", "count_write") /\ EraseCtrlOk
       \/ Goto("count_erase", "done") /\ EraseCtrlFailed
    /\ UNCHANGED <<state, installed, queue, up, restart, workerOnly>>

CountWrite ==
    /\ Goto("count_write", "done")
    /\ WriteCtrlOk(0) \/ WriteCtrlFailed(0)
    /\ UNCHANGED <<state, installed, queue, up, restart, workerOnly>>

\* ProcessUpload() reports the outcome: the state first, then the reply.
UploadDone ==
    /\ Goto("done", "schedule")
    /\ state' = "done"
    /\ UNCHANGED <<flash, installed, queue, up, restart, workerOnly>>

\* Mutant: the restart timer is created but not started.
ScheduleNothing ==
    /\ Goto("schedule", "wait")
    /\ UNCHANGED <<flash, state, installed, queue, up, restart, workerOnly>>

\* ScheduleRestart(): by the timer, or at once if it cannot be started.
ScheduleRestart ==
    \/ /\ Goto("schedule", "wait") /\ restart' = TRUE
       /\ UNCHANGED <<flash, state, installed, queue, up, workerOnly>>
    \/ Faults /\ pc = "serve" /\ worker = "schedule" /\ Restart

HandleRestartTimer == pc = "serve" /\ restart /\ Restart

\* A rejected upload: esp_ota_abort() if the handle is open, then the state.
UploadRejected ==
    /\ Goto("reject", "reply")
    /\ state' = "error" /\ up' = [up EXCEPT !.open = FALSE]
    /\ UNCHANGED <<flash, installed, queue, restart, workerOnly>>

UploadReplied ==
    /\ Goto("reply", "wait")
    /\ up' = NoUpload
    /\ UNCHANGED <<flash, state, installed, queue, restart, workerOnly>>

-----------------------------------------------------------------------------
(* A reset out of the blue: the power goes, or the application panics.     *)

MetaEraseAt == pc = "clear_erase" \/ worker \in {"erase", "rollback"}
MetaWriteAt == pc = "clear_write" \/ worker = "commit"
CtrlEraseAt == pc \in {"pass_erase", "save_erase", "fw_erase"} \/ worker = "count_erase"
CtrlWriteAt == pc \in {"pass_write", "save_write", "fw_write"} \/ worker = "count_write"

\* What the flash operation that was under way leaves behind.
FlashCut ==
    /\ sector0' \in CASE MetaEraseAt -> PartlyErased
                      [] MetaWriteAt -> PartlyWritten(IF pc = "clear_write" THEN boot.image ELSE up.body)
                      [] pc = "fw_program" -> PartlyForced
                      [] OTHER -> {sector0}
    /\ ctrl' \in CASE CtrlEraseAt -> {ctrl, 0}
                   [] CtrlWriteAt -> {0, IF pc = "pass_write" THEN boot.count ELSE 0}
                   [] OTHER -> {ctrl}
    /\ ota' \in CASE worker = "begin" -> {ota, NoImage}
                  [] worker = "recv"  -> {ota, NoImage} \cup
                        (IF up.received + 1 = BodyLen[up.body] THEN {up.body} ELSE {})
                  [] OTHER            -> {ota}

\* A crash of the firmware is a strike.  Strikes are forgiven when the control
\* record is cut, or when a power cycle hides the reset reason from app_main().
Cut(reason) ==
    /\ FlashCut
    /\ strikes' = CASE CtrlEraseAt \/ CtrlWriteAt \/ (pc = "start" /\ reason = "POWERON") -> 0
                    [] reason = "PANIC" /\ pc \in {"fw", "fw_program"} -> strikes + 1
                    [] OTHER -> strikes
    /\ Reset(reason)

PowerLoss == Cuts /\ Cut("POWERON")
UpdaterCrash == Cuts /\ pc \notin FirmwareAt /\ Cut("PANIC")
FirmwareCrash == pc \in FirmwareAt /\ Cut("PANIC")

-----------------------------------------------------------------------------
Boot == Decide \/ SaveErase \/ SaveWrite \/ Jump \/ ClearErase \/ ClearWrite \/ StartUpdaterMode

Firmware == RequestFwUpdate \/ ProgramForce \/ MarkFirmwareHealthy \/ HealthyErase \/ HealthyWrite

Upload ==
    \/ TakeRequest \/ EraseRecord \/ BeginOta \/ RecvTimeout \/ RecvFailed \/ RecvChunk
    \/ DiscardChunk \/ EndOta \/ CommitWrite \/ CommitCheck \/ CommitRollback
    \/ ClearCrashCount \/ CountErase \/ CountWrite \/ UploadDone \/ ScheduleRestart
    \/ UploadRejected \/ UploadReplied

Next ==
    \/ Boot \/ Firmware
    \/ \E body \in Bodies : ClaimUpload(body)
    \/ HandOff \/ Upload \/ HandleRestartTimer
    \/ PowerLoss \/ UpdaterCrash \/ FirmwareCrash

Spec == Init /\ [][Next]_vars

\* What runs by itself once started: app_main(), the HTTP server's handler, the
\* upload worker and the restart timer.  Nothing forces a client, a gesture, a
\* crash or a power cut.
Fairness == WF_vars(Boot) /\ WF_vars(HandOff) /\ WF_vars(Upload) /\ WF_vars(HandleRestartTimer)

FairSpec == Spec /\ Fairness

-----------------------------------------------------------------------------
(* Properties.                                                             *)

\* The decision app_main() would take if the power were cycled now.
NextStart == DecideFwBoot(sector0.forced, IsFwMetaRecordValid(sector0),
                          IsFwMetaRecordValid(sector0) /\ ota = sector0.image,
                          ctrl, "POWERON").mode

\* The commit order of RunUpload() (record erased before the first write to
\* ota_0, written after esp_ota_end()): whatever fails or is cut, a record that
\* reads as valid describes the complete, verified image that ota_0 holds.
RecordDescribesOta ==
    IsFwMetaRecordValid(sector0) => ota = sector0.image /\ ota \in Verified

\* The bootloader starts ota_0 without validation after JumpToFirmware(); still
\* the firmware that runs is a verified image, and the record still describes it.
RunsOnlyVerified ==
    pc \in FirmwareAt => running \in Verified /\ running = ota /\ running = sector0.image

\* DecideFwBoot() and SaveCrashCount(): a firmware that crashed
\* FW_CRASH_RESET_LIMIT times without becoming healthy is not started again.
ThreeStrikes == pc \in FirmwareAt => strikes < CrashResetLimit

\* The version that GET / and GET /status show is the one in ota_0, also after
\* failed flash operations: RunUpload() forgets it before it touches ota_0.
PageNamesOta == pc = "serve" /\ installed # NoImage => ota = installed

\* Without flash faults (power cuts allowed), while the page names an installed
\* version a power cycle starts exactly that firmware: ClearForceFlag() has
\* cleared the flag and rewritten the record.
PowerCycleReturns ==
    pc = "serve" /\ installed # NoImage =>
        NextStart = "FIRMWARE" /\ sector0 = BuildFwMetaRecord(installed)

\* Once an upload is reported as done the next start runs it, whatever failed.
DoneIsCommitted ==
    state = "done" => NextStart = "FIRMWARE" /\ sector0 = BuildFwMetaRecord(up.body)

\* What the page says of the installed and of the uploaded firmware is so.
StatusTellsTruth == PageNamesOta /\ DoneIsCommitted

\* HandleUpload() calls a full request queue "not reachable": a claimed request
\* always finds the queue empty and the worker not busy with another upload.
HandOffAlwaysFits ==
    httpd # NoImage => queue = NoImage /\ worker \in {"wait", "reply"}

\* The restart timer never fires into an upload: no request is claimed, queued
\* or processed from ScheduleRestart() on.
RestartInterruptsNothing ==
    restart => worker = "wait" /\ queue = NoImage /\ httpd = NoImage

\* ReceiveImage() and DiscardBody() give up after FW_UPLOAD_RECV_RETRIES timeouts
\* in a row, so a claimed upload always ends.
UploadEnds == state = "uploading" ~> state # "uploading"

\* Power cuts and crashes of the updater come to an end.
ResetsEnd == <>[][~PowerLoss /\ ~UpdaterCrash]_vars

\* After "Update complete, restarting" the uploaded firmware starts, unless the
\* updater itself crashes CrashResetLimit times on the way (no flash faults).
NewFirmwareStarts ==
    ResetsEnd => \A b \in Bodies :
        state = "done" /\ up.body = b ~> (pc = "fw" /\ running = b) \/ boot.mode = "CRASH_LOOP"

\* Every start ends in the firmware or in updater mode (no flash faults).
BootSettles == ResetsEnd => (pc = "start" ~> pc \in {"fw", "serve"})

\* The updater implements an atomically replaced firmware slot.
Slot == INSTANCE FirmwareSlot
            WITH slot <- IF IsFwMetaRecordValid(sector0) /\ ota = sector0.image
                         THEN ota ELSE NoImage

\* The slot's specification, as implemented: an upload discards, then installs.
SlotSpec == Slot!Spec
=============================================================================
