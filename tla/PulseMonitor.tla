---------------------------- MODULE PulseMonitor ----------------------------
(***************************************************************************)
(* rmt_pulse_monitor.c: one RMT RX channel, armed by the LED driver task   *)
(* in front of each frame it sends and by the orchestrator for each Read   *)
(* request, completed by an interrupt, and followed by a decode task that  *)
(* measures, or times out and restarts the channel.  s_rx_lock serializes  *)
(* the tasks; the interrupt takes no lock.                                 *)
(*                                                                         *)
(* A request is its submit_seq.  Of a capture only matters which receive   *)
(* wrote it, whether the receive was complete, and whether its symbols     *)
(* make a measurement.                                                     *)
(***************************************************************************)
EXTENDS Integers

CONSTANTS Submits,          \* the submission numbers that may be armed
          RxFaults          \* BOOLEAN: rmt_receive() and rmt_enable() may fail

ASSUME PulseAssumption ==
    /\ Submits \subseteq Nat
    /\ RxFaults \in BOOLEAN

VARIABLES chan,         \* the RX channel: none, init, enabled or run
          lock,         \* the holder of s_rx_lock, or "free"
          captureSeq,   \* s_capture_seq, the tag of the interrupt
          pending,      \* s_is_receive_pending
          armed,        \* s_armed_seq, s_armed_submit_seq, s_armed_mode
          sem,          \* s_armed_sem
          done,         \* s_capture_queue: one event, or NoEvent
          buffer,       \* s_symbol_buffer: the receive that wrote it last
          at, req,      \* per arming task: where it is, and its submit_seq
          decode,       \* where the decode task is
          wait,         \* the arm it waits for, or decodes
          event, copy,  \* the event it took, and s_decode_symbols
          used,         \* history: the numbers armed so far
          published     \* history: how many outcomes each number got

rx == <<chan, lock, captureSeq, pending, armed, sem, done, buffer>>
arming == <<at, req, used>>
decoding == <<decode, wait, event, copy>>
pulseVars == <<rx, arming, decoding, published>>

Callers == {"led", "orch"}
Modes == {"send", "read"}
CallerAt == {"idle", "tag", "mark", "receive", "started", "failed", "publish"}
DecodeAt == {"idle", "get", "wait", "take", "decode", "restart", "publish"}

\* ArmPulseCapture() runs in the LED driver task, ArmPulseRead() in the orchestrator.
ModeOf(t) == IF t = "orch" THEN "read" ELSE "send"

Arm == [seq : Nat, submit : Nat, mode : Modes]
Capture == [seq : Nat, submit : Nat, whole : BOOLEAN]
Event == [seq : Nat, good : BOOLEAN]

\* No receive is ever tagged 0.
NoArm == [seq |-> 0, submit |-> 0, mode |-> "send"]
NoCapture == [seq |-> 0, submit |-> 0, whole |-> FALSE]
NoEvent == [seq |-> 0, good |-> FALSE]

PulseTypeOK ==
    /\ chan \in {"none", "init", "enabled", "run"}
    /\ lock \in Callers \cup {"decode", "free"}
    /\ captureSeq \in Nat
    /\ pending \in BOOLEAN
    /\ armed \in Arm
    /\ sem \in BOOLEAN
    /\ done \in Event
    /\ buffer \in Capture
    /\ at \in [Callers -> CallerAt]
    /\ req \in [Callers -> Nat]
    /\ decode \in DecodeAt
    /\ wait \in Arm
    /\ event \in Event
    /\ copy \in Capture
    /\ used \in SUBSET Submits
    /\ published \in [Submits -> Nat]

\* StartPulseMonitor(): any failure leaves no channel at all.
PulseInit ==
    /\ chan \in {"none", "enabled"}
    /\ lock = "free" /\ captureSeq = 0 /\ pending = FALSE
    /\ armed = NoArm /\ sem = FALSE /\ done = NoEvent /\ buffer = NoCapture
    /\ at = [t \in Callers |-> "idle"] /\ req = [t \in Callers |-> 0]
    /\ decode = "idle" /\ wait = NoArm /\ event = NoEvent /\ copy = NoCapture
    /\ used = {} /\ published = [s \in Submits |-> 0]

-----------------------------------------------------------------------------
(* The interrupt.                                                          *)

\* HandleRxDone(): a frame, or noise, ended the receive.  The event overwrites
\* one that was not consumed.
HandleRxDone(good) ==
    /\ chan = "run"
    /\ chan' = "enabled"
    /\ buffer' = [buffer EXCEPT !.whole = TRUE]
    /\ done' = [seq |-> captureSeq, good |-> good]
    /\ pending' = FALSE
    /\ UNCHANGED <<lock, captureSeq, armed, sem, arming, decoding, published>>

-----------------------------------------------------------------------------
(* ArmPulseCapture() and ArmPulseRead().                                   *)

Step(t, here, there) == at[t] = here /\ at' = [at EXCEPT ![t] = there]

\* Without a channel, or if the lock is not free at once, nothing is armed.
ArmBegin(t, submit) ==
    /\ submit \in Submits \ used
    /\ used' = used \cup {submit}
    /\ req' = [req EXCEPT ![t] = submit]
    /\ \/ chan # "none" /\ lock = "free" /\ lock' = t /\ Step(t, "idle", "tag")
       \/ (chan = "none" \/ lock # "free") /\ UNCHANGED lock /\ Step(t, "idle", "publish")
    /\ UNCHANGED <<chan, captureSeq, pending, armed, sem, done, buffer, decoding, published>>

\* Mutant: a busy channel is not reported.
TagSilent(t) ==
    /\ \/ pending /\ Step(t, "tag", "idle") /\ lock' = "free" /\ UNCHANGED captureSeq
       \/ ~pending /\ Step(t, "tag", "mark") /\ captureSeq' = armed.seq + 1 /\ UNCHANGED lock
    /\ UNCHANGED <<chan, pending, armed, sem, done, buffer, req, used, decoding, published>>

\* StartTaggedReceive(): busy while a receive is in flight, else a new tag.
Tag(t) ==
    /\ \/ pending /\ Step(t, "tag", "publish") /\ lock' = "free" /\ UNCHANGED captureSeq
       \/ ~pending /\ Step(t, "tag", "mark") /\ captureSeq' = armed.seq + 1 /\ UNCHANGED lock
    /\ UNCHANGED <<chan, pending, armed, sem, done, buffer, req, used, decoding, published>>

Mark(t) ==
    /\ Step(t, "mark", "receive") /\ pending' = TRUE
    /\ UNCHANGED <<chan, lock, captureSeq, armed, sem, done, buffer, req, used, decoding, published>>

\* rmt_receive(); a disabled channel is enabled once and the receive retried.
\* A running channel can be neither received on nor enabled.
Receive(t) ==
    /\ \/ /\ chan \in {"enabled", "init"} /\ Step(t, "receive", "started")
          /\ chan' = "run"
          /\ buffer' = [seq |-> captureSeq, submit |-> req[t], whole |-> FALSE]
       \/ /\ chan = "run" \/ RxFaults
          /\ Step(t, "receive", "failed") /\ UNCHANGED buffer
          /\ chan' \in {chan} \cup (IF chan = "init" THEN {"enabled"} ELSE {})
    /\ UNCHANGED <<lock, captureSeq, pending, armed, sem, done, req, used, decoding, published>>

\* Mutants: the snapshot keeps the mode of the arm before; no signal is given.
ArmDoneOldMode(t) ==
    /\ Step(t, "started", "idle")
    /\ armed' = [seq |-> armed.seq + 1, submit |-> req[t], mode |-> armed.mode]
    /\ sem' = TRUE /\ lock' = "free"
    /\ UNCHANGED <<chan, captureSeq, pending, done, buffer, req, used, decoding, published>>

ArmDoneUnsignalled(t) ==
    /\ Step(t, "started", "idle")
    /\ armed' = [seq |-> armed.seq + 1, submit |-> req[t], mode |-> ModeOf(t)]
    /\ lock' = "free"
    /\ UNCHANGED <<chan, captureSeq, pending, sem, done, buffer, req, used, decoding, published>>

\* The snapshot of a successful arm, then the signal to the decode task.
ArmDone(t) ==
    /\ Step(t, "started", "idle")
    /\ armed' = [seq |-> armed.seq + 1, submit |-> req[t], mode |-> ModeOf(t)]
    /\ sem' = TRUE /\ lock' = "free"
    /\ UNCHANGED <<chan, captureSeq, pending, done, buffer, req, used, decoding, published>>

\* A failed receive gives the tag and the flag back.
ArmFailed(t) ==
    /\ Step(t, "failed", "publish")
    /\ captureSeq' = armed.seq /\ pending' = FALSE /\ lock' = "free"
    /\ UNCHANGED <<chan, armed, sem, done, buffer, req, used, decoding, published>>

\* PublishPulseResult(): the callback runs without the lock.
Publish(submit) == published' = [published EXCEPT ![submit] = @ + 1]

PublishNotMeasured(t) ==
    /\ Step(t, "publish", "idle") /\ Publish(req[t])
    /\ UNCHANGED <<rx, req, used, decoding>>

ArmStep(t) == Tag(t) \/ Mark(t) \/ Receive(t) \/ ArmDone(t) \/ ArmFailed(t)

-----------------------------------------------------------------------------
(* The decode task.                                                        *)

Decode(here, there) == decode = here /\ decode' = there

TakeArmSignal ==
    /\ sem /\ Decode("idle", "get")
    /\ sem' = FALSE
    /\ UNCHANGED <<chan, lock, captureSeq, pending, armed, done, buffer, arming,
                   wait, event, copy, published>>

\* xSemaphoreTake(s_rx_lock, portMAX_DELAY)
DecodeLock ==
    /\ decode \in {"get", "take", "restart"} /\ lock = "free"
    /\ lock' = "decode"
    /\ UNCHANGED <<chan, captureSeq, pending, armed, sem, done, buffer, arming, decoding,
                   published>>

GetArmedSeq ==
    /\ lock = "decode" /\ Decode("get", "wait")
    /\ wait' = armed /\ lock' = "free"
    /\ UNCHANGED <<chan, captureSeq, pending, armed, sem, done, buffer, arming, event, copy,
                   published>>

\* xQueueReceive() within the timeout of the mode.
ReceiveEvent ==
    /\ done # NoEvent /\ Decode("wait", "take")
    /\ event' = done /\ done' = NoEvent
    /\ UNCHANGED <<chan, lock, captureSeq, pending, armed, sem, buffer, arming, wait, copy,
                   published>>

CaptureTimeout ==
    /\ done = NoEvent /\ Decode("wait", "restart")
    /\ UNCHANGED <<rx, arming, wait, event, copy, published>>

\* Mutant: the tag of the event is not compared.
TakeAnyEvent ==
    /\ lock = "decode" /\ lock' = "free"
    /\ Decode("take", "decode")
    /\ copy' = buffer /\ wait' = armed /\ sem' = FALSE
    /\ UNCHANGED <<chan, captureSeq, pending, armed, done, buffer, arming, event, published>>

\* TakeCurrentCapture(): an event of the latest arm is copied and its signal
\* consumed; any other is stale and moves the wait on to the latest arm.
TakeCurrentCapture ==
    /\ lock = "decode" /\ lock' = "free"
    /\ \/ /\ event.seq = armed.seq /\ Decode("take", "decode")
          /\ copy' = buffer /\ wait' = armed /\ sem' = FALSE
       \/ /\ event.seq # armed.seq /\ Decode("take", "wait")
          /\ wait' = armed /\ UNCHANGED <<copy, sem>>
    /\ UNCHANGED <<chan, captureSeq, pending, armed, done, buffer, arming, event, published>>

\* DecodeCapture() or AnalyzeReadCapture(): the outcome of a current capture.
Outcome ==
    CASE event.good /\ wait.mode = "read" -> "read_done"
      [] event.good /\ wait.mode = "send" -> "done"
      [] ~event.good                      -> "count_error"

PublishOutcome ==
    /\ Decode("decode", "idle") /\ Publish(wait.submit)
    /\ UNCHANGED <<rx, arming, wait, event, copy>>

\* What rmt_disable() and rmt_enable() leave.  The first is accepted in the
\* enabled and in the run state, and aborts a receive; the second may fail.
Restarted == IF chan = "init" THEN {"init"}
             ELSE {"enabled"} \cup (IF RxFaults THEN {"init"} ELSE {})

\* Mutants: the signal of the timed-out arm stays; a newer arm is aborted too.
RestartKeepsSignal ==
    /\ lock = "decode" /\ lock' = "free" /\ Decode("restart", "publish")
    /\ \/ armed.seq # wait.seq /\ UNCHANGED <<chan, pending>>
       \/ armed.seq = wait.seq /\ chan' \in Restarted /\ pending' = FALSE
    /\ UNCHANGED <<captureSeq, armed, sem, done, buffer, arming, wait, event, copy, published>>
RestartAlways ==
    /\ lock = "decode" /\ lock' = "free" /\ Decode("restart", "publish")
    /\ chan' \in Restarted /\ pending' = FALSE /\ sem' = FALSE
    /\ UNCHANGED <<captureSeq, armed, done, buffer, arming, wait, event, copy, published>>

\* RestartRxChannel(): skipped if a newer capture is armed.
RestartRxChannel ==
    /\ lock = "decode" /\ lock' = "free" /\ Decode("restart", "publish")
    /\ \/ armed.seq # wait.seq /\ UNCHANGED <<chan, pending, sem>>
       \/ armed.seq = wait.seq /\ chan' \in Restarted /\ pending' = FALSE /\ sem' = FALSE
    /\ UNCHANGED <<captureSeq, armed, done, buffer, arming, wait, event, copy, published>>

PublishTimeout ==
    /\ Decode("publish", "idle") /\ Publish(wait.submit)
    /\ UNCHANGED <<rx, arming, wait, event, copy>>

DecodeStep ==
    \/ TakeArmSignal \/ DecodeLock \/ GetArmedSeq \/ ReceiveEvent \/ CaptureTimeout
    \/ TakeCurrentCapture \/ RestartRxChannel

-----------------------------------------------------------------------------
PulseNext ==
    \/ \E good \in BOOLEAN : HandleRxDone(good)
    \/ \E t \in Callers : \/ \E submit \in Submits : ArmBegin(t, submit)
                          \/ ArmStep(t) \/ PublishNotMeasured(t)
    \/ DecodeStep \/ PublishOutcome \/ PublishTimeout

PulseSpec == PulseInit /\ [][PulseNext]_pulseVars

\* The tasks run; nothing forces a request, or a signal on the pin.  The timeout
\* of a wait is one of the decode task's steps.
PulseFairness ==
    /\ \A t \in Callers : WF_pulseVars(ArmStep(t) \/ PublishNotMeasured(t))
    /\ WF_pulseVars(DecodeStep \/ PublishOutcome \/ PublishTimeout)

FairPulseSpec == PulseSpec /\ PulseFairness

-----------------------------------------------------------------------------
(* Properties.                                                             *)

\* Arm/capture pairing (file comment of rmt_pulse_monitor.c): what the decode
\* task decodes for a request is the complete capture of that request's receive.
CaptureBelongsToArm ==
    decode = "decode" => copy = [seq |-> wait.seq, submit |-> wait.submit, whole |-> TRUE]

\* FR-35, FR-36: a request gets one outcome at most, whichever of the tasks
\* publishes it; a timed-out arm gets exactly one.
OneOutcome == \A s \in Submits : published[s] <= 1

\* s_is_receive_pending can never stay set and block arming (SPEC-006 FR-13).
PendingIsInFlight == lock = "free" /\ pending => chan = "run"

\* RestartRxChannel() never aborts the receive of a newer arm than the one that
\* timed out.
RestartAbortsOwn ==
    [][decode = "restart" /\ decode' = "publish" /\ chan = "run" /\ chan' # "run"
            => buffer.submit = wait.submit]_pulseVars

\* The arm signal is never lost: whenever arming pauses, the latest armed request
\* is measured or times out (FR-31, FR-35).
ArmedIsAnswered == []<>(armed.seq = 0 \/ published[armed.submit] = 1)
=============================================================================
