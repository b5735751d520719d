------------------------------- MODULE FwMeta -------------------------------
(***************************************************************************)
(* The pure functions of components/fw_meta: what the records of the       *)
(* fw_meta partition mean and what DecideFwBoot() makes of them.           *)
(*                                                                         *)
(* An image stands for everything that identifies a firmware binary (its   *)
(* bytes, so its version, its size and its SHA-256).  A metadata record is *)
(* [image, forced]: the image its version, size and digest describe, or    *)
(* NoImage when magic, version or CRC are wrong; and whether the           *)
(* force_bootloader word, which the CRC does not cover, differs from the   *)
(* erased value 0xFFFFFFFF.  An invalid control record always reads as     *)
(* zero counts, so a control record is just its crash count.               *)
(***************************************************************************)
EXTENDS Integers

CONSTANTS Bodies,           \* the byte strings a client may upload
          BodyLen,          \* their length, in receive chunks
          HeadOk,           \* those whose head CheckFwEmbeddedMeta() accepts
          Verified,         \* those esp_ota_end() accepts as well
          NoImage,          \* "no image": an invalid record, or broken flash
          OtaSize,          \* size of the ota_0 partition, in chunks
          HeadLen,          \* FW_IMAGE_HEAD_LEN, in chunks
          CrashResetLimit,  \* FW_CRASH_RESET_LIMIT
          CountMax          \* UINT8_MAX, where the crash count saturates

ASSUME BodiesAssumption ==
    /\ BodyLen \in [Bodies -> Nat]
    /\ HeadOk \subseteq Bodies
    /\ Verified \subseteq HeadOk
    /\ NoImage \notin Bodies

\* esp_ota_end() walks the image header and its segments, so what it accepts is
\* at least as long as the head (and fits, or esp_ota_write() had refused it).
ASSUME SizesAssumption ==
    /\ OtaSize \in Nat /\ HeadLen \in Nat \ {0}
    /\ \A b \in Verified : HeadLen <= BodyLen[b] /\ BodyLen[b] <= OtaSize

ASSUME LimitAssumption ==
    /\ CrashResetLimit \in Nat \ {0}
    /\ CountMax \in Nat
    /\ CrashResetLimit <= CountMax

\* The metadata record as the bytes of sector 0 are interpreted.
MetaRecord == [image : Bodies \cup {NoImage}, forced : BOOLEAN]

\* Sector 0 after an erase: all ones is an invalid record, not forced.
ErasedRecord == [image |-> NoImage, forced |-> FALSE]

IsFwMetaRecordValid(record) ==
    /\ record.image # NoImage
    /\ HeadLen <= BodyLen[record.image] /\ BodyLen[record.image] <= OtaSize

\* BuildFwMetaRecord(): a record of the image, force_bootloader clear.
BuildFwMetaRecord(image) == [image |-> image, forced |-> FALSE]

\* PANIC stands for the four crash reasons of IsCrashReset(), POWERON for the
\* other ones (power-on, brown-out, external pin).
ResetReasons == {"POWERON", "SW", "DEEPSLEEP", "PANIC"}

IsCrashReset(reason) == reason = "PANIC"

\* The decision: the mode to start and the crash count to store.
BootModes == {"FIRMWARE", "REQUESTED", "NO_FIRMWARE", "CRASH_LOOP", "BOOT_SELECT_FAILED"}

\* Mutant: the crash limit is off by one.
DecideFwBootLate(forced, valid, match, count, reason) ==
    LET next == IF IsCrashReset(reason) THEN count + 1 ELSE count
    IN  CASE forced -> [mode |-> "REQUESTED", count |-> count]
          [] ~forced /\ reason = "DEEPSLEEP" -> [mode |-> "BOOT_SELECT_FAILED", count |-> count]
          [] ~forced /\ reason # "DEEPSLEEP" /\ ~(valid /\ match)
                    -> [mode |-> "NO_FIRMWARE", count |-> count]
          [] OTHER  -> [mode |-> IF next > CrashResetLimit THEN "CRASH_LOOP" ELSE "FIRMWARE",
                        count |-> next]

DecideFwBoot(forced, valid, match, count, reason) ==
    LET next == IF IsCrashReset(reason) /\ count < CountMax THEN count + 1 ELSE count
    IN  CASE forced                 -> [mode |-> "REQUESTED", count |-> count]
          [] ~forced /\ reason = "DEEPSLEEP"
                                    -> [mode |-> "BOOT_SELECT_FAILED", count |-> count]
          [] ~forced /\ reason # "DEEPSLEEP" /\ ~(valid /\ match)
                                    -> [mode |-> "NO_FIRMWARE", count |-> count]
          [] OTHER                  -> [mode  |-> IF IsCrashReset(reason) /\ next >= CrashResetLimit
                                                  THEN "CRASH_LOOP" ELSE "FIRMWARE",
                                        count |-> next]
=============================================================================
