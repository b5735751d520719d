------------------------------ MODULE TunerPath -----------------------------
(***************************************************************************)
(* The tuner from request to answer.  The HTTP server task numbers each    *)
(* POST /tuner and POST /tuner/read and posts it to the orchestrator; the  *)
(* orchestrator hands timings to the LED driver task, arms reads, and      *)
(* stores results; the LED driver task sends frames and arms the pulse     *)
(* monitor, whose outcomes go back to the orchestrator.  GET /tuner/result *)
(* compares a number with the stored record.                               *)
(***************************************************************************)
EXTENDS PulseMonitor, Sequences

CONSTANTS MaxSubmit,    \* bound on the requests
          QueueLength,  \* QUEUE_LENGTH of the orchestrator
          TxFaults      \* BOOLEAN: encoder and transmitter calls may fail or time out

ASSUME TunerAssumption ==
    /\ MaxSubmit \in Nat /\ QueueLength \in Nat \ {0} /\ TxFaults \in BOOLEAN
    /\ Submits = 0..MaxSubmit   \* 0 is the boot frame

VARIABLES issued,       \* s_submit_seq
          kind,         \* history: what each number was issued for
          queue,        \* the tuner messages in the orchestrator's queue
          ledQueue,     \* s_timing_queue: one number, or NoRequest
          led,          \* where the LED driver task is
          drives,       \* the number it drives
          tx,           \* the TX channel: none, idle or busy
          inFlight,     \* s_is_frame_in_flight
          strip,        \* the number of the last frame sent
          record        \* s_result of http_portal

tuner == <<issued, kind, queue, ledQueue, led, drives, tx, inFlight, strip, record>>
vars == <<pulseVars, tuner>>

NoRequest == -1
Kinds == {"none", "send", "read"}
States == {"done", "read_done", "count_error", "timeout", "not_measured"}
LedAt == {"idle", "previous", "encode", "arm", "transmit", "sent"}
Message == [type : {"timing", "read", "result"}, seq : Submits, state : States]

TypeOK ==
    /\ PulseTypeOK
    /\ issued \in 0..MaxSubmit
    /\ kind \in [Submits -> Kinds]
    /\ queue \in Seq(Message) /\ Len(queue) <= QueueLength
    /\ ledQueue \in Submits \cup {NoRequest}
    /\ led \in LedAt
    /\ drives \in Submits
    /\ tx \in {"none", "idle", "busy"}
    /\ inFlight \in BOOLEAN
    /\ strip \in Submits \cup {NoRequest}
    /\ record \in [seq : Submits, state : States]

\* StartLedController() queues the boot frame; without a TX channel there is no
\* queue either.  The zeroed record has number 0 and the first state.
Init ==
    /\ PulseInit
    /\ issued = 0 /\ kind = [s \in Submits |-> "none"] /\ queue = <<>>
    /\ \/ tx = "idle" /\ ledQueue = 0
       \/ tx = "none" /\ ledQueue = NoRequest
    /\ led = "idle" /\ drives = 0 /\ inFlight = FALSE /\ strip = NoRequest
    /\ record = [seq |-> 0, state |-> "done"]

-----------------------------------------------------------------------------
(* HTTP server task.                                                       *)

\* A non-blocking xQueueSend(): a full queue drops the message.
Post(type, seq, state) ==
    queue' = IF Len(queue) < QueueLength
             THEN Append(queue, [type |-> type, seq |-> seq, state |-> state]) ELSE queue

\* HandleTunerSubmitRequest() of a valid form, and HandleTunerReadRequest().
Submit(type, what) ==
    /\ issued < MaxSubmit
    /\ issued' = issued + 1
    /\ kind' = [kind EXCEPT ![issued + 1] = what]
    /\ Post(type, issued + 1, "done")   \* requests carry no state
    /\ UNCHANGED <<pulseVars, ledQueue, led, drives, tx, inFlight, strip, record>>

SubmitTiming == Submit("timing", "send")
RequestRead == Submit("read", "read")

\* GetTunerResultState(): the answer to GET /tuner/result?seq=n.
GetTunerResultState(n) ==
    CASE n = 0 \/ n > issued                            -> "unknown"
      [] n \in 1..issued /\ record.seq = n              -> record.state
      [] n \in 1..issued /\ record.seq > n              -> "superseded"
      [] n \in 1..issued /\ record.seq < n              -> "pending"

-----------------------------------------------------------------------------
(* Orchestrator task: HandleMessage() for the tuner's messages.            *)

Take(type) ==
    /\ at["orch"] = "idle"      \* the handler of the last message has returned
    /\ queue # <<>> /\ Head(queue).type = type
    /\ queue' = Tail(queue)

\* Mutant: a timing that finds the queue full is dropped.
HandleTimingIfRoom ==
    /\ Take("timing")
    /\ ledQueue' = IF tx = "none" \/ ledQueue # NoRequest THEN ledQueue ELSE Head(queue).seq
    /\ UNCHANGED <<pulseVars, issued, kind, led, drives, tx, inFlight, strip, record>>

\* ApplyWs2812Timing(): overwrite what the LED driver task has not taken yet.
HandleTiming ==
    /\ Take("timing")
    /\ ledQueue' = IF tx = "none" THEN NoRequest ELSE Head(queue).seq
    /\ UNCHANGED <<pulseVars, issued, kind, led, drives, tx, inFlight, strip, record>>

HandleRead ==
    /\ Take("read") /\ ArmBegin("orch", Head(queue).seq)
    /\ UNCHANGED <<issued, kind, ledQueue, led, drives, tx, inFlight, strip, record>>

\* Mutant: the record takes every result.
StoreAny ==
    /\ Take("result")
    /\ record' = [seq |-> Head(queue).seq, state |-> Head(queue).state]
    /\ UNCHANGED <<pulseVars, issued, kind, ledQueue, led, drives, tx, inFlight, strip>>

\* SetHttpTunerResult(): results never move backwards.
HandleResult ==
    /\ Take("result")
    /\ record' = IF Head(queue).seq >= record.seq
                 THEN [seq |-> Head(queue).seq, state |-> Head(queue).state] ELSE record
    /\ UNCHANGED <<pulseVars, issued, kind, ledQueue, led, drives, tx, inFlight, strip>>

-----------------------------------------------------------------------------
(* LED driver task: RunLedDriverTask() and DriveFrame().                   *)

Led(here, there) == led = here /\ led' = there

TakeTiming ==
    /\ ledQueue # NoRequest /\ Led("idle", "previous")
    /\ drives' = ledQueue /\ ledQueue' = NoRequest
    /\ UNCHANGED <<pulseVars, issued, kind, queue, tx, inFlight, strip, record>>

\* A frame whose completion timed out gets one more wait, or this one is skipped.
WaitForPreviousFrame ==
    /\ \/ ~inFlight /\ Led("previous", "encode") /\ UNCHANGED inFlight
       \/ inFlight /\ tx = "idle" /\ Led("previous", "encode") /\ inFlight' = FALSE
       \/ inFlight /\ tx = "busy" /\ Led("previous", "idle") /\ UNCHANGED inFlight
    /\ UNCHANGED <<pulseVars, issued, kind, queue, ledQueue, drives, tx, strip, record>>

UpdateWs2812Encoder ==
    /\ \/ Led("encode", "arm")
       \/ TxFaults /\ Led("encode", "idle")
    /\ UNCHANGED <<pulseVars, issued, kind, queue, ledQueue, drives, tx, inFlight, strip, record>>

ArmFrame ==
    /\ Led("arm", "transmit") /\ ArmBegin("led", drives)
    /\ UNCHANGED <<issued, kind, queue, ledQueue, drives, tx, inFlight, strip, record>>

\* rmt_transmit(), whether the pulse monitor was armed or not.
Transmit ==
    /\ at["led"] = "idle"       \* ArmPulseCapture() has returned
    /\ \/ tx = "idle" /\ Led("transmit", "sent") /\ tx' = "busy" /\ strip' = drives
       \/ (tx = "busy" \/ TxFaults) /\ Led("transmit", "idle") /\ UNCHANGED <<tx, strip>>
    /\ UNCHANGED <<pulseVars, issued, kind, queue, ledQueue, drives, inFlight, record>>

\* rmt_tx_wait_all_done()
WaitForFrame ==
    /\ \/ tx = "idle" /\ Led("sent", "idle") /\ UNCHANGED inFlight
       \/ TxFaults /\ tx = "busy" /\ Led("sent", "idle") /\ inFlight' = TRUE
    /\ UNCHANGED <<pulseVars, issued, kind, queue, ledQueue, drives, tx, strip, record>>

\* The transmitter finishes a frame.
FrameDone ==
    /\ tx = "busy" /\ tx' = "idle"
    /\ UNCHANGED <<pulseVars, issued, kind, queue, ledQueue, led, drives, inFlight, strip, record>>

-----------------------------------------------------------------------------
(* The pulse monitor, its callback being PostPulseResult().                *)

noTuner == <<issued, kind, ledQueue, led, drives, tx, inFlight, strip, record>>

MonitorStep ==
    /\ \/ \E good \in BOOLEAN : HandleRxDone(good)
       \/ \E t \in Callers : ArmStep(t)
       \/ DecodeStep
    /\ UNCHANGED tuner

PostNotMeasured(t) ==
    PublishNotMeasured(t) /\ Post("result", req[t], "not_measured") /\ UNCHANGED noTuner

PostOutcome == PublishOutcome /\ Post("result", wait.submit, Outcome) /\ UNCHANGED noTuner

PostTimeout == PublishTimeout /\ Post("result", wait.submit, "timeout") /\ UNCHANGED noTuner

-----------------------------------------------------------------------------
Orchestrator == HandleTiming \/ HandleRead \/ HandleResult

LedDriver ==
    \/ TakeTiming \/ WaitForPreviousFrame \/ UpdateWs2812Encoder \/ ArmFrame
    \/ Transmit \/ WaitForFrame

Next ==
    \/ SubmitTiming \/ RequestRead
    \/ Orchestrator \/ LedDriver \/ FrameDone
    \/ MonitorStep \/ PostOutcome \/ PostTimeout
    \/ \E t \in Callers : PostNotMeasured(t)

Spec == Init /\ [][Next]_vars

\* Every task that can run eventually runs, and a frame ends.  Nothing forces a
\* request or a signal on the pin.
Fairness ==
    /\ WF_vars(Orchestrator) /\ WF_vars(LedDriver) /\ WF_vars(FrameDone)
    /\ \A t \in Callers : WF_vars((ArmStep(t) /\ UNCHANGED tuner) \/ PostNotMeasured(t))
    /\ WF_vars((DecodeStep /\ UNCHANGED tuner) \/ PostOutcome \/ PostTimeout)

FairSpec == Spec /\ Fairness

-----------------------------------------------------------------------------
(* Properties.                                                             *)

Settled(n) == GetTunerResultState(n) \notin {"unknown", "pending"}

\* What GET /tuner/result answers for a number never changes once it is an
\* outcome, except that a newer outcome supersedes it.
AnswerStays ==
    [][\A n \in 1..issued : Settled(n) =>
            GetTunerResultState(n)' \in {GetTunerResultState(n), "superseded"}]_vars

\* The stored outcome is of the kind of the request that has its number: a Read
\* is never answered with the measurement of a Send, and vice versa.
AnswerOfItsKind ==
    /\ record.state = "read_done" => kind[record.seq] = "read"
    /\ record.state = "done" => kind[record.seq] # "read"

\* FR-17: whatever is overwritten on the way, whenever requests pause the strip
\* shows the latest timing, provided no call of the transmitter fails and the queue
\* has room.
StripConverges ==
    []<>(\A n \in 1..MaxSubmit : kind[n] = "send" /\ tx # "none" => strip >= n)

\* Under the same conditions the page that sent the newest timing gets its answer.
NewestSendAnswered ==
    []<>(kind[issued] = "send" /\ tx # "none" => Settled(issued))
=============================================================================
