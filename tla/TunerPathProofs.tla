--------------------------- MODULE TunerPathProofs ---------------------------
(***************************************************************************)
(* Proofs about PulseMonitor for all sets of requests, with and without    *)
(* failing receives, and about TunerPath for any number of requests and    *)
(* any length of the queue.                                                *)
(*                                                                         *)
(* The interrupt takes no lock, so the pairing of a capture with its       *)
(* request rests on its tag alone.  PairInv says what a tag is worth: when *)
(* the channel runs the tag is that of the receive, the tag is one ahead   *)
(* of the snapshot exactly while an arm is under way, and an event with    *)
(* the tag of the buffer says that the buffer is complete.                 *)
(*                                                                         *)
(* The callers of TunerPath use the pulse monitor as PulseMonitor          *)
(* describes, so what is proved of it holds there; and from "one outcome   *)
(* per number" it follows that an answer is final and of the kind that was *)
(* asked for.                                                              *)
(***************************************************************************)
EXTENDS TunerPath, TLAPS

Locked == {"tag", "mark", "receive", "started", "failed"}
Tagged == {"mark", "receive", "started", "failed"}

\* The lock is held exactly in the steps that need it.
LockInv ==
    /\ \A t \in Callers : at[t] \in Locked <=> lock = t
    /\ lock = "decode" => decode \in {"get", "take", "restart"}

\* A running channel is pending, under the tag of its receive; a flag that is set
\* is that of a receive, or of an arm that will give it back.
ChanInv ==
    /\ chan = "run" => pending /\ captureSeq = buffer.seq /\ buffer.seq > 0
    /\ \A t \in Callers : at[t] \in {"mark", "receive", "failed"} => chan # "run"
    /\ \A t \in Callers : at[t] = "receive" => pending
    /\ pending => chan = "run" \/ \E t \in Callers : at[t] \in {"receive", "failed"}

\* The tag is the snapshot's, or the next one while an arm is under way.
TagInv ==
    /\ \A t \in Callers : at[t] \in Tagged => captureSeq = armed.seq + 1
    /\ (\A t \in Callers : at[t] \notin Tagged) => captureSeq = armed.seq

\* The buffer is the newest receive's, which becomes the snapshot's when it is armed.
BufferInv ==
    /\ \A t \in Callers : at[t] = "started" =>
          buffer.seq = armed.seq + 1 /\ buffer.submit = req[t]
    /\ (\A t \in Callers : at[t] # "started") =>
          buffer.seq = armed.seq /\ buffer.submit = armed.submit

\* No event is ahead of the buffer, and one that is level with it completed it.
TellsOf(e) == e.seq > 0 /\ e.seq <= buffer.seq /\ (e.seq = buffer.seq => buffer.whole)

EventInv ==
    /\ done # NoEvent => TellsOf(done)
    /\ decode = "take" => TellsOf(event)

\* The decode task waits for the snapshot's arm or an older one.
WaitInv == wait.seq <= armed.seq /\ (wait.seq = armed.seq => wait = armed)

PairInv ==
    /\ PulseTypeOK /\ LockInv /\ ChanInv /\ TagInv /\ BufferInv /\ EventInv /\ WaitInv
    /\ CaptureBelongsToArm

-----------------------------------------------------------------------------
\* StartPulseMonitor()
LEMMA PairInit == PulseInit => PairInv
<1> SUFFICES ASSUME PulseInit PROVE PairInv
  OBVIOUS
<1>1. PulseTypeOK
  BY DEF PulseInit, PulseTypeOK, Callers, CallerAt, DecodeAt, NoArm, NoCapture, NoEvent, Arm,
     Capture, Event, Modes
<1>2. LockInv /\ ChanInv /\ TagInv /\ BufferInv /\ EventInv /\ WaitInv /\ CaptureBelongsToArm
  BY DEF PulseInit, Callers, Locked, Tagged, NoArm, NoCapture, NoEvent, LockInv, ChanInv, TagInv,
     BufferInv, EventInv, WaitInv, CaptureBelongsToArm
<1> QED BY <1>1, <1>2 DEF PairInv

\* The records of the state, by their fields.
LEMMA Fields ==
  ASSUME PulseTypeOK
  PROVE  /\ armed.seq \in Nat /\ wait.seq \in Nat /\ done.seq \in Nat /\ event.seq \in Nat
         /\ buffer.seq \in Nat /\ buffer.whole \in BOOLEAN /\ captureSeq \in Nat
         /\ buffer = [seq |-> buffer.seq, submit |-> buffer.submit, whole |-> buffer.whole]
         /\ \A t \in Callers : at[t] \in CallerAt /\ req[t] \in Nat
BY DEF PulseTypeOK, Arm, Event, Capture

\* One more outcome for one number.
LEMMA PublishType ==
  ASSUME published \in [Submits -> Nat], NEW submit, Publish(submit)
  PROVE  published' \in [Submits -> Nat]
<1>1. DOMAIN published' = Submits /\ published' = [u \in Submits |-> published'[u]]
  BY DEF Publish
<1>2. ASSUME NEW u \in Submits PROVE published'[u] \in Nat
  BY <1>2 DEF Publish
<1> QED BY <1>1, <1>2

\* The interrupt completes the buffer under the tag of its receive.
LEMMA InterruptStep == ASSUME PairInv, NEW good \in BOOLEAN, HandleRxDone(good) PROVE PairInv'
<1>0. PulseTypeOK /\ LockInv /\ ChanInv /\ TagInv /\ BufferInv /\ EventInv /\ WaitInv /\ CaptureBelongsToArm
  BY DEF PairInv
<1>1. /\ chan = "run" /\ chan' = "enabled" /\ pending' = FALSE
      /\ done' = [seq |-> captureSeq, good |-> good]
      /\ buffer' = [buffer EXCEPT !.whole = TRUE]
      /\ UNCHANGED <<lock, captureSeq, armed, sem, at, req, used, decode, wait, event, copy, published>>
  BY DEF HandleRxDone, arming, decoding
<1>2. /\ buffer' \in Capture /\ buffer'.seq = buffer.seq /\ buffer'.submit = buffer.submit
      /\ buffer'.whole
  BY <1>0, <1>1 DEF PulseTypeOK, Capture
<1>3. done' \in Event /\ done'.seq = buffer.seq
  BY <1>0, <1>1 DEF PulseTypeOK, Event, ChanInv
<1>4. PulseTypeOK'
  BY <1>0, <1>1, <1>2, <1>3 DEF PulseTypeOK
<1>5. LockInv' /\ WaitInv' /\ TagInv' /\ BufferInv' /\ CaptureBelongsToArm'
  BY <1>0, <1>1, <1>2 DEF LockInv, WaitInv, TagInv, BufferInv, CaptureBelongsToArm
<1>6. ChanInv'
  BY <1>0, <1>1 DEF ChanInv
<1>7. EventInv'
  BY <1>0, <1>1, <1>2, <1>3, Fields DEF EventInv, TellsOf, ChanInv
<1> QED BY <1>4, <1>5, <1>6, <1>7 DEF PairInv

\* An arm that found the lock free goes through tag, flag, receive and snapshot.
LEMMA ArmingStep ==
  ASSUME PairInv, NEW t \in Callers, (\E submit \in Submits : ArmBegin(t, submit))
            \/ ArmStep(t) \/ PublishNotMeasured(t)
  PROVE  PairInv'
<1>0. PulseTypeOK /\ LockInv /\ ChanInv /\ TagInv /\ BufferInv /\ EventInv /\ WaitInv /\ CaptureBelongsToArm
  BY DEF PairInv
<1>a. /\ at \in [Callers -> CallerAt] /\ req \in [Callers -> Nat]
      /\ \A u \in Callers : u = "led" \/ u = "orch"
  BY <1>0 DEF PulseTypeOK, Callers
<1>1. ASSUME NEW submit \in Submits, ArmBegin(t, submit) PROVE PairInv'
  <2>1. PulseTypeOK'
    BY <1>0, <1>1, <1>a, PulseAssumption DEF ArmBegin, Step, PulseTypeOK, CallerAt, decoding
  <2>2. LockInv'
    BY <1>0, <1>1, <1>a DEF ArmBegin, Step, LockInv, Locked, Callers, decoding
  <2>3. ChanInv' /\ TagInv' /\ BufferInv' /\ EventInv' /\ WaitInv' /\ CaptureBelongsToArm'
    BY <1>0, <1>1, <1>a DEF ArmBegin, Step, ChanInv, TagInv, Tagged, BufferInv, EventInv, TellsOf,
       WaitInv, CaptureBelongsToArm, decoding
  <2> QED BY <2>1, <2>2, <2>3 DEF PairInv
<1>2. CASE Tag(t)
  <2>1. PulseTypeOK'
    BY <1>0, <1>2, <1>a, Fields DEF Tag, Step, PulseTypeOK, CallerAt, Callers, decoding
  <2>2. LockInv'
    BY <1>0, <1>2, <1>a DEF Tag, Step, LockInv, Locked, Callers, decoding
  <2>3. TagInv'
    BY <1>0, <1>2, <1>a DEF Tag, Step, LockInv, Locked, TagInv, Tagged
  <2>4. ChanInv'
    BY <1>0, <1>2, <1>a DEF Tag, Step, ChanInv
  <2>5. BufferInv' /\ EventInv' /\ WaitInv' /\ CaptureBelongsToArm'
    BY <1>0, <1>2, <1>a DEF Tag, Step, BufferInv, EventInv, TellsOf, WaitInv,
       CaptureBelongsToArm, decoding
  <2> QED BY <2>1, <2>2, <2>3, <2>4, <2>5 DEF PairInv
<1>3. CASE Mark(t)
  <2>1. PulseTypeOK'
    BY <1>0, <1>3, <1>a DEF Mark, Step, PulseTypeOK, CallerAt, decoding
  <2>2. LockInv' /\ TagInv' /\ ChanInv'
    BY <1>0, <1>3, <1>a DEF Mark, Step, LockInv, Locked, TagInv, Tagged, ChanInv, decoding
  <2>3. BufferInv' /\ EventInv' /\ WaitInv' /\ CaptureBelongsToArm'
    BY <1>0, <1>3, <1>a DEF Mark, Step, BufferInv, EventInv, TellsOf, WaitInv,
       CaptureBelongsToArm, decoding
  <2> QED BY <2>1, <2>2, <2>3 DEF PairInv
<1>4. CASE Receive(t)
  <2>1. CASE /\ Step(t, "receive", "started") /\ chan' = "run"
             /\ buffer' = [seq |-> captureSeq, submit |-> req[t], whole |-> FALSE]
    <3>1. PulseTypeOK'
      BY <1>0, <1>4, <1>a, <2>1 DEF Receive, Step, PulseTypeOK, CallerAt, Capture, decoding
    <3>2. LockInv' /\ TagInv'
      BY <1>0, <1>4, <1>a, <2>1 DEF Receive, Step, LockInv, Locked, TagInv, Tagged, decoding
    <3>3. captureSeq = armed.seq + 1 /\ buffer.seq = armed.seq
      BY <1>0, <1>a, <2>1 DEF Step, TagInv, Tagged, BufferInv, LockInv, Locked
    <3>4. BufferInv'
      BY <1>0, <1>4, <1>a, <2>1, <3>3 DEF Receive, Step, BufferInv, LockInv, Locked
    <3>5. ChanInv'
      BY <1>0, <1>4, <1>a, <2>1, <3>3, Fields DEF Receive, Step, ChanInv, LockInv, Locked
    <3>6. EventInv'
      BY <1>0, <1>4, <2>1, <3>3, Fields DEF Receive, EventInv, TellsOf, decoding
    <3>7. WaitInv' /\ CaptureBelongsToArm'
      BY <1>0, <1>4 DEF Receive, WaitInv, CaptureBelongsToArm, decoding
    <3> QED BY <3>1, <3>2, <3>4, <3>5, <3>6, <3>7 DEF PairInv
  <2>2. CASE Step(t, "receive", "failed") /\ UNCHANGED buffer
    <3>1. chan' \in {chan, "enabled"}
      BY <1>0, <1>4, <2>2 DEF Receive, Step, PulseTypeOK
    <3>2. PulseTypeOK'
      BY <1>0, <1>4, <1>a, <2>2, <3>1 DEF Receive, Step, PulseTypeOK, CallerAt, decoding
    <3>3. LockInv' /\ TagInv' /\ BufferInv'
      BY <1>0, <1>4, <1>a, <2>2 DEF Receive, Step, LockInv, Locked, TagInv, Tagged, BufferInv, decoding
    <3>4. ChanInv'
      BY <1>0, <1>4, <1>a, <2>2, <3>1 DEF Receive, Step, ChanInv
    <3>5. EventInv' /\ WaitInv' /\ CaptureBelongsToArm'
      BY <1>0, <1>4, <2>2 DEF Receive, EventInv, TellsOf, WaitInv, CaptureBelongsToArm, decoding
    <3> QED BY <3>2, <3>3, <3>4, <3>5 DEF PairInv
  <2> QED BY <1>4, <2>1, <2>2 DEF Receive
<1>5. CASE ArmDone(t)
  <2>1. armed' \in Arm /\ armed'.seq = armed.seq + 1 /\ armed'.submit = req[t]
    BY <1>0, <1>5, <1>a, Fields DEF ArmDone, Arm, ModeOf, Modes
  <2>2. PulseTypeOK'
    BY <1>0, <1>5, <1>a, <2>1 DEF ArmDone, Step, PulseTypeOK, CallerAt, Callers, decoding
  <2>3. LockInv'
    BY <1>0, <1>5, <1>a DEF ArmDone, Step, LockInv, Locked, Callers, decoding
  <2>4. TagInv'
    BY <1>0, <1>5, <1>a, <2>1 DEF ArmDone, Step, LockInv, Locked, TagInv, Tagged
  <2>5. BufferInv' /\ ChanInv'
    BY <1>0, <1>5, <1>a, <2>1 DEF ArmDone, Step, LockInv, Locked, BufferInv, ChanInv
  <2>6. WaitInv'
    BY <1>0, <1>5, <2>1, Fields DEF ArmDone, WaitInv, decoding
  <2>7. EventInv' /\ CaptureBelongsToArm'
    BY <1>0, <1>5 DEF ArmDone, EventInv, TellsOf, CaptureBelongsToArm, decoding
  <2> QED BY <2>2, <2>3, <2>4, <2>5, <2>6, <2>7 DEF PairInv
<1>6. CASE ArmFailed(t)
  <2>1. PulseTypeOK'
    BY <1>0, <1>6, <1>a, Fields DEF ArmFailed, Step, PulseTypeOK, CallerAt, Callers, decoding
  <2>2. LockInv' /\ TagInv'
    BY <1>0, <1>6, <1>a DEF ArmFailed, Step, LockInv, Locked, TagInv, Tagged, Callers, decoding
  <2>3. ChanInv'
    BY <1>0, <1>6, <1>a DEF ArmFailed, Step, LockInv, Locked, ChanInv
  <2>4. BufferInv' /\ EventInv' /\ WaitInv' /\ CaptureBelongsToArm'
    BY <1>0, <1>6, <1>a DEF ArmFailed, Step, BufferInv, EventInv, TellsOf, WaitInv,
       CaptureBelongsToArm, decoding
  <2> QED BY <2>1, <2>2, <2>3, <2>4 DEF PairInv
<1>7. CASE PublishNotMeasured(t)
  <2>1. PulseTypeOK'
    <3>1. published' \in [Submits -> Nat]
      BY <1>0, <1>7, PublishType DEF PublishNotMeasured, PulseTypeOK
    <3> QED BY <1>0, <1>7, <1>a, <3>1 DEF PublishNotMeasured, Step, PulseTypeOK, CallerAt, decoding, rx
  <2>2. LockInv' /\ TagInv' /\ ChanInv' /\ BufferInv'
    BY <1>0, <1>7, <1>a DEF PublishNotMeasured, Step, LockInv, Locked, TagInv, Tagged, ChanInv,
       BufferInv, decoding, rx
  <2>3. EventInv' /\ WaitInv' /\ CaptureBelongsToArm'
    BY <1>0, <1>7 DEF PublishNotMeasured, EventInv, TellsOf, WaitInv, CaptureBelongsToArm,
       decoding, rx
  <2> QED BY <2>1, <2>2, <2>3 DEF PairInv
<1> QED BY <1>1, <1>2, <1>3, <1>4, <1>5, <1>6, <1>7 DEF ArmStep

\* The decode task takes a buffer only under a tag that is still the snapshot's.
LEMMA DecodingStep ==
  ASSUME PairInv, DecodeStep \/ PublishOutcome \/ PublishTimeout
  PROVE  PairInv'
<1>0. PulseTypeOK /\ LockInv /\ ChanInv /\ TagInv /\ BufferInv /\ EventInv /\ WaitInv /\ CaptureBelongsToArm
  BY DEF PairInv
<1>1. CASE TakeArmSignal \/ DecodeLock \/ GetArmedSeq \/ CaptureTimeout
  <2>1. PulseTypeOK'
    BY <1>0, <1>1 DEF TakeArmSignal, DecodeLock, GetArmedSeq, CaptureTimeout, Decode, PulseTypeOK,
       DecodeAt, arming, decoding, rx
  <2>2. LockInv'
    BY <1>0, <1>1 DEF TakeArmSignal, DecodeLock, GetArmedSeq, CaptureTimeout, Decode, LockInv,
       Locked, Callers, arming, decoding, rx
  <2>3. ChanInv' /\ TagInv' /\ BufferInv' /\ EventInv' /\ WaitInv' /\ CaptureBelongsToArm'
    BY <1>0, <1>1, Fields DEF TakeArmSignal, DecodeLock, GetArmedSeq, CaptureTimeout, Decode, ChanInv,
       TagInv, BufferInv, EventInv, TellsOf, WaitInv, CaptureBelongsToArm, arming, decoding, rx
  <2> QED BY <2>1, <2>2, <2>3 DEF PairInv
<1>2. CASE ReceiveEvent
  <2>1. PulseTypeOK'
    BY <1>0, <1>2 DEF ReceiveEvent, Decode, PulseTypeOK, DecodeAt, arming, NoEvent, Event
  <2>2. LockInv'
    BY <1>0, <1>2 DEF ReceiveEvent, Decode, LockInv, arming
  <2>3. ChanInv' /\ TagInv' /\ BufferInv' /\ EventInv' /\ WaitInv' /\ CaptureBelongsToArm'
    BY <1>0, <1>2 DEF ReceiveEvent, Decode, ChanInv, TagInv, BufferInv, EventInv, TellsOf, WaitInv,
       CaptureBelongsToArm, arming
  <2> QED BY <2>1, <2>2, <2>3 DEF PairInv
<1>3. CASE TakeCurrentCapture
  <2>1. PulseTypeOK'
    BY <1>0, <1>3 DEF TakeCurrentCapture, Decode, PulseTypeOK, DecodeAt, arming
  <2>2. LockInv'
    BY <1>0, <1>3 DEF TakeCurrentCapture, Decode, LockInv, Locked, Callers, arming
  <2>3. ChanInv' /\ TagInv' /\ BufferInv' /\ EventInv' /\ WaitInv'
    BY <1>0, <1>3, Fields DEF TakeCurrentCapture, Decode, ChanInv, TagInv, BufferInv, EventInv,
       TellsOf, WaitInv, arming
  <2>4. CaptureBelongsToArm'
    <3>1. decode = "take" /\ \A t \in Callers : at[t] # "started"
      BY <1>0, <1>3 DEF TakeCurrentCapture, Decode, LockInv, Locked, Callers
    <3>2. event.seq = armed.seq => buffer = [seq |-> armed.seq, submit |-> armed.submit, whole |-> TRUE]
      BY <1>0, <3>1, Fields DEF BufferInv, EventInv, TellsOf
    <3> QED BY <1>3, <3>2 DEF TakeCurrentCapture, Decode, CaptureBelongsToArm
  <2> QED BY <2>1, <2>2, <2>3, <2>4 DEF PairInv
<1>4. CASE RestartRxChannel
  <2>1. /\ lock = "decode" /\ lock' = "free" /\ decode = "restart" /\ decode' = "publish"
        /\ \/ UNCHANGED <<chan, pending>>
           \/ chan' \in {"init", "enabled"} /\ pending' = FALSE
        /\ sem' \in {sem, FALSE}
        /\ UNCHANGED <<captureSeq, armed, done, buffer, at, req, used, wait, event, copy, published>>
    BY <1>4 DEF RestartRxChannel, Restarted, Decode, arming
  <2>2. PulseTypeOK'
    BY <1>0, <2>1 DEF PulseTypeOK, DecodeAt
  <2>3. LockInv'
    BY <1>0, <2>1 DEF LockInv, Locked, Callers
  <2>4. ChanInv'
    BY <1>0, <2>1 DEF ChanInv, LockInv, Locked, Callers
  <2>5. TagInv' /\ BufferInv' /\ EventInv' /\ WaitInv' /\ CaptureBelongsToArm'
    BY <1>0, <2>1 DEF TagInv, BufferInv, EventInv, TellsOf, WaitInv, CaptureBelongsToArm
  <2> QED BY <2>2, <2>3, <2>4, <2>5 DEF PairInv
<1>5. CASE PublishOutcome \/ PublishTimeout
  <2>1. PulseTypeOK'
    <3>1. published' \in [Submits -> Nat]
      BY <1>0, <1>5, PublishType DEF PublishOutcome, PublishTimeout, PulseTypeOK
    <3> QED
      BY <1>0, <1>5, <3>1 DEF PublishOutcome, PublishTimeout, Decode, PulseTypeOK, DecodeAt, rx, arming
  <2>2. LockInv' /\ ChanInv' /\ TagInv' /\ BufferInv' /\ EventInv' /\ WaitInv' /\ CaptureBelongsToArm'
    BY <1>0, <1>5 DEF PublishOutcome, PublishTimeout, Decode, LockInv, ChanInv, TagInv, BufferInv,
       EventInv, TellsOf, WaitInv, CaptureBelongsToArm, rx, arming
  <2> QED BY <2>1, <2>2 DEF PairInv
<1> QED BY <1>1, <1>2, <1>3, <1>4, <1>5 DEF DecodeStep

\* PairInv is inductive.
LEMMA PairNext == PairInv /\ [PulseNext]_pulseVars => PairInv'
<1> SUFFICES ASSUME PairInv, [PulseNext]_pulseVars PROVE PairInv'
  OBVIOUS
<1>1. CASE UNCHANGED pulseVars
  BY <1>1 DEF pulseVars, rx, arming, decoding, PairInv, PulseTypeOK, LockInv, ChanInv, TagInv,
     BufferInv, EventInv, TellsOf, WaitInv, CaptureBelongsToArm
<1>2. CASE PulseNext
  BY <1>2, InterruptStep, ArmingStep, DecodingStep DEF PulseNext
<1> QED BY <1>1, <1>2

\* PairInv holds in every state.
THEOREM Pairing == PulseSpec => []PairInv
BY PairInit, PairNext, PTL DEF PulseSpec

\* What the decode task measures for a request is the complete capture of that
\* request's own receive, although the interrupt takes no lock.
THEOREM CaptureSafety == PulseSpec => []CaptureBelongsToArm
<1>1. PairInv => CaptureBelongsToArm
  BY DEF PairInv
<1> QED BY <1>1, Pairing, PTL

\* s_is_receive_pending is never left behind: with the lock free it means that a
\* receive is in flight, so arming is never blocked for good.
THEOREM PendingSafety == PulseSpec => []PendingIsInFlight
<1>1. PairInv => PendingIsInFlight
  BY DEF PairInv, ChanInv, LockInv, Locked, Callers, PendingIsInFlight
<1> QED BY <1>1, Pairing, PTL

\* RestartRxChannel() aborts the receive that timed out and no newer one.
THEOREM RestartOwnSafety == PulseSpec => RestartAbortsOwn
<1>1. PairInv /\ [PulseNext]_pulseVars =>
        [decode = "restart" /\ decode' = "publish" /\ chan = "run" /\ chan' # "run"
            => buffer.submit = wait.submit]_pulseVars
  <2> SUFFICES ASSUME PairInv, PulseNext, decode = "restart", decode' = "publish",
                      chan = "run", chan' # "run"
               PROVE  buffer.submit = wait.submit
    OBVIOUS
  <2>1. RestartRxChannel
    BY DEF PulseNext, HandleRxDone, ArmBegin, ArmStep, Tag, Mark, Receive, ArmDone, ArmFailed,
       PublishNotMeasured, DecodeStep, TakeArmSignal, DecodeLock, GetArmedSeq, ReceiveEvent,
       CaptureTimeout, TakeCurrentCapture, PublishOutcome, PublishTimeout, Decode, decoding
  <2>2. armed.seq = wait.seq /\ lock = "decode"
    BY <2>1 DEF RestartRxChannel
  <2> QED BY <2>2 DEF PairInv, WaitInv, BufferInv, LockInv, Locked, Callers
<1> QED BY <1>1, Pairing, PTL DEF PulseSpec, RestartAbortsOwn

-----------------------------------------------------------------------------
(* One outcome per request.  A number that may still get its outcome is in *)
(* one place only: an arming call, the snapshot under a signal, or the     *)
(* wait of the decode task.                                                *)

Busy == {"wait", "take", "decode", "restart", "publish"}

\* Numbers are armed once, so the places hold different ones.
PlacesInv ==
    /\ \A s \in Submits \ used : published[s] = 0
    /\ \A t \in Callers : at[t] # "idle" =>
          /\ req[t] \in used /\ published[req[t]] = 0
          /\ armed.seq > 0 => req[t] # armed.submit
          /\ wait.seq > 0 => req[t] # wait.submit
          /\ \A u \in Callers \ {t} : at[u] # "idle" => req[t] # req[u]
    /\ armed.seq > 0 => armed.submit \in used
    /\ wait.seq > 0 => wait.submit \in used
    /\ wait.seq > 0 /\ wait.seq # armed.seq => wait.submit # armed.submit

\* The signal stands for the snapshot's outcome, unless the decode task has it.
SignalInv ==
    /\ sem \/ decode # "idle" => armed.seq > 0
    /\ sem \/ decode = "get" => published[armed.submit] = 0
    /\ decode \in Busy => wait.seq > 0 /\ published[wait.submit] = 0
    /\ decode \in Busy /\ wait.seq # armed.seq => sem
    /\ decode \in {"decode", "publish"} /\ sem => wait.seq # armed.seq

OutcomeInv == PlacesInv /\ SignalInv /\ OneOutcome

\* The count of one number, and of no other, goes up.
LEMMA PublishCounts ==
  ASSUME published \in [Submits -> Nat], NEW submit \in Submits, Publish(submit)
  PROVE  /\ published'[submit] = published[submit] + 1
         /\ \A u \in Submits : u # submit => published'[u] = published[u]
BY DEF Publish

\* A call takes a number nobody used, and passes it to the snapshot or reports it.
LEMMA ArmingOutcome ==
  ASSUME PairInv, OutcomeInv, NEW t \in Callers,
         (\E submit \in Submits : ArmBegin(t, submit)) \/ ArmStep(t) \/ PublishNotMeasured(t)
  PROVE  OutcomeInv'
<1>0. PlacesInv /\ SignalInv /\ OneOutcome
  BY DEF OutcomeInv
<1>a. /\ at \in [Callers -> CallerAt] /\ req \in [Callers -> Nat] /\ used \in SUBSET Submits
      /\ published \in [Submits -> Nat] /\ decode \in DecodeAt
      /\ armed.seq \in Nat /\ wait.seq \in Nat /\ wait.seq <= armed.seq
  BY Fields DEF PairInv, PulseTypeOK, WaitInv
<1>1. ASSUME NEW submit \in Submits, ArmBegin(t, submit) PROVE OutcomeInv'
  <2>1. /\ at'[t] # "idle" /\ req'[t] = submit /\ at[t] = "idle"
        /\ \A u \in Callers : u # t => at'[u] = at[u] /\ req'[u] = req[u]
        /\ submit \notin used /\ used' = used \cup {submit} /\ published[submit] = 0
        /\ UNCHANGED <<armed, sem, decode, wait, published>>
    BY <1>0, <1>1, <1>a DEF ArmBegin, Step, PlacesInv, decoding
  <2>2. PlacesInv'
    BY <1>0, <1>a, <2>1 DEF PlacesInv
  <2>3. SignalInv' /\ OneOutcome'
    BY <1>0, <2>1 DEF SignalInv, OneOutcome
  <2> QED BY <2>2, <2>3 DEF OutcomeInv
<1>2. CASE Tag(t) \/ Mark(t) \/ Receive(t) \/ ArmFailed(t)
  <2>1. /\ at[t] # "idle"
        /\ \A u \in Callers : u # t => at'[u] = at[u]
        /\ UNCHANGED <<req, used, armed, sem, decode, wait, published>>
    BY <1>2, <1>a DEF Tag, Mark, Receive, ArmFailed, Step, decoding
  <2>2. PlacesInv'
    BY <1>0, <1>a, <2>1 DEF PlacesInv
  <2>3. SignalInv' /\ OneOutcome'
    BY <1>0, <2>1 DEF SignalInv, OneOutcome
  <2> QED BY <2>2, <2>3 DEF OutcomeInv
<1>3. CASE ArmDone(t)
  <2>1. /\ at[t] # "idle" /\ at'[t] = "idle"
        /\ \A u \in Callers : u # t => at'[u] = at[u]
        /\ armed'.seq = armed.seq + 1 /\ armed'.submit = req[t] /\ sem' = TRUE
        /\ UNCHANGED <<req, used, decode, wait, published>>
    BY <1>3, <1>a DEF ArmDone, Step, decoding
  <2>2. PlacesInv'
    BY <1>0, <1>a, <2>1 DEF PlacesInv
  <2>3. SignalInv' /\ OneOutcome'
    BY <1>0, <1>a, <2>1 DEF SignalInv, PlacesInv, OneOutcome
  <2> QED BY <2>2, <2>3 DEF OutcomeInv
<1>4. CASE PublishNotMeasured(t)
  <2>1. /\ at[t] # "idle" /\ at'[t] = "idle" /\ Publish(req[t])
        /\ \A u \in Callers : u # t => at'[u] = at[u]
        /\ UNCHANGED <<req, used, armed, sem, decode, wait>>
    BY <1>4, <1>a DEF PublishNotMeasured, Step, decoding, rx
  <2>2. req[t] \in used /\ published[req[t]] = 0
    BY <1>0, <2>1 DEF PlacesInv
  <2>3. published'[req[t]] = 1 /\ \A u \in Submits : u # req[t] => published'[u] = published[u]
    BY <1>a, <2>1, <2>2, PublishCounts
  <2>4. PlacesInv'
    BY <1>0, <1>a, <2>1, <2>2, <2>3 DEF PlacesInv
  <2>5. SignalInv'
    <3>1. armed.seq > 0 => armed.submit \in Submits /\ armed.submit # req[t]
      BY <1>0, <1>a, <2>1 DEF PlacesInv
    <3>2. wait.seq > 0 => wait.submit \in Submits /\ wait.submit # req[t]
      BY <1>0, <1>a, <2>1 DEF PlacesInv
    <3> QED BY <1>0, <2>1, <2>3, <3>1, <3>2 DEF SignalInv, Busy
  <2>6. OneOutcome'
    BY <1>0, <2>3 DEF OneOutcome
  <2> QED BY <2>4, <2>5, <2>6 DEF OutcomeInv
<1> QED BY <1>1, <1>2, <1>3, <1>4 DEF ArmStep

\* The decode task reports what it waited for, and consumes the signal that stands
\* for the same number.
LEMMA DecodingOutcome ==
  ASSUME PairInv, OutcomeInv, DecodeStep \/ PublishOutcome \/ PublishTimeout
  PROVE  OutcomeInv'
<1>0. PlacesInv /\ SignalInv /\ OneOutcome /\ WaitInv
  BY DEF OutcomeInv, PairInv
<1>a. /\ used \in SUBSET Submits /\ published \in [Submits -> Nat] /\ decode \in DecodeAt
      /\ armed.seq \in Nat /\ wait.seq \in Nat /\ sem \in BOOLEAN
  BY Fields DEF PairInv, PulseTypeOK
<1>1. CASE TakeArmSignal \/ DecodeLock \/ ReceiveEvent \/ CaptureTimeout
  <2>1. /\ UNCHANGED <<at, req, used, armed, wait, published>>
        /\ \/ sem /\ ~sem' /\ decode = "idle" /\ decode' = "get"
           \/ UNCHANGED <<sem, decode>>
           \/ UNCHANGED sem /\ decode = "wait" /\ decode' \in {"take", "restart"}
    BY <1>1, <1>a DEF TakeArmSignal, DecodeLock, ReceiveEvent, CaptureTimeout, Decode, arming,
       decoding, rx
  <2>2. PlacesInv' /\ OneOutcome'
    BY <1>0, <2>1 DEF PlacesInv, OneOutcome
  <2>3. SignalInv'
    BY <1>0, <2>1 DEF SignalInv, Busy
  <2> QED BY <2>2, <2>3 DEF OutcomeInv
<1>2. CASE GetArmedSeq \/ TakeCurrentCapture
  <2>1. /\ UNCHANGED <<at, req, used, armed, published>> /\ wait' = armed
        /\ \/ decode = "get" /\ decode' = "wait" /\ UNCHANGED sem
           \/ decode = "take" /\ decode' = "wait" /\ UNCHANGED sem
           \/ decode = "take" /\ decode' = "decode" /\ sem' = FALSE
    BY <1>2 DEF GetArmedSeq, TakeCurrentCapture, Decode, arming
  <2>2. armed.seq > 0 /\ published[armed.submit] = 0
    <3>1. CASE decode = "get"
      BY <1>0, <3>1 DEF SignalInv
    <3>2. CASE decode = "take" /\ wait.seq = armed.seq
      BY <1>0, <3>2 DEF SignalInv, Busy, WaitInv
    <3>3. CASE decode = "take" /\ wait.seq # armed.seq
      BY <1>0, <3>3 DEF SignalInv, Busy
    <3> QED BY <2>1, <3>1, <3>2, <3>3
  <2>3. PlacesInv' /\ OneOutcome'
    BY <1>0, <1>a, <2>1 DEF PlacesInv, OneOutcome
  <2>4. SignalInv'
    BY <1>0, <2>1, <2>2 DEF SignalInv, Busy
  <2> QED BY <2>3, <2>4 DEF OutcomeInv
<1>3. CASE RestartRxChannel
  <2>1. /\ UNCHANGED <<at, req, used, armed, wait, published>>
        /\ decode = "restart" /\ decode' = "publish"
        /\ sem' = IF armed.seq = wait.seq THEN FALSE ELSE sem
    BY <1>3 DEF RestartRxChannel, Decode, arming
  <2>2. PlacesInv' /\ OneOutcome'
    BY <1>0, <2>1 DEF PlacesInv, OneOutcome
  <2>3. SignalInv'
    BY <1>0, <1>a, <2>1 DEF SignalInv, Busy
  <2> QED BY <2>2, <2>3 DEF OutcomeInv
<1>4. CASE PublishOutcome \/ PublishTimeout
  <2>1. /\ UNCHANGED <<at, req, used, armed, wait, sem>> /\ Publish(wait.submit)
        /\ decode \in {"decode", "publish"} /\ decode' = "idle"
    BY <1>4 DEF PublishOutcome, PublishTimeout, Decode, arming, rx
  <2>2. wait.seq > 0 /\ wait.submit \in used /\ published[wait.submit] = 0
    BY <1>0, <2>1 DEF SignalInv, PlacesInv, Busy
  <2>3. /\ published'[wait.submit] = 1
        /\ \A u \in Submits : u # wait.submit => published'[u] = published[u]
    BY <1>a, <2>1, <2>2, PublishCounts
  <2>4. PlacesInv'
    BY <1>0, <1>a, <2>1, <2>2, <2>3 DEF PlacesInv
  <2>5. SignalInv'
    <3>1. sem => armed.submit \in Submits /\ armed.submit # wait.submit
      BY <1>0, <1>a, <2>1, <2>2 DEF SignalInv, PlacesInv
    <3> QED BY <1>0, <2>1, <2>3, <3>1 DEF SignalInv, Busy
  <2>6. OneOutcome'
    BY <1>0, <2>3 DEF OneOutcome
  <2> QED BY <2>4, <2>5, <2>6 DEF OutcomeInv
<1> QED BY <1>1, <1>2, <1>3, <1>4 DEF DecodeStep

\* OutcomeInv is inductive relative to PairInv.
LEMMA OutcomeNext == PairInv /\ OutcomeInv /\ [PulseNext]_pulseVars => OutcomeInv'
<1> SUFFICES ASSUME PairInv, OutcomeInv, [PulseNext]_pulseVars PROVE OutcomeInv'
  OBVIOUS
<1>1. CASE UNCHANGED pulseVars \/ \E good \in BOOLEAN : HandleRxDone(good)
  BY <1>1 DEF pulseVars, rx, arming, decoding, HandleRxDone, OutcomeInv, PlacesInv, SignalInv,
     OneOutcome
<1> QED BY <1>1, ArmingOutcome, DecodingOutcome DEF PulseNext

\* A request gets one outcome at most: not_measured from its own task, or a
\* measurement or a timeout from the decode task (FR-35, FR-36).
THEOREM OutcomeSafety == PulseSpec => []OneOutcome
<1>1. PulseInit => OutcomeInv
  BY DEF PulseInit, OutcomeInv, PlacesInv, SignalInv, OneOutcome, NoArm, Busy
<1>2. OutcomeInv => OneOutcome
  BY DEF OutcomeInv
<1> QED BY <1>1, <1>2, Pairing, OutcomeNext, PTL DEF PulseSpec

-----------------------------------------------------------------------------
(* The tuner.                                                              *)

\* The tuner only adds to the pulse monitor's steps.
LEMMA StepIsPulse == [Next]_vars => [PulseNext]_pulseVars
<1> SUFFICES ASSUME [Next]_vars PROVE [PulseNext]_pulseVars
  OBVIOUS
<1>1. CASE UNCHANGED vars
  BY <1>1 DEF vars
<1>2. CASE SubmitTiming \/ RequestRead \/ HandleTiming \/ HandleResult \/ TakeTiming
             \/ WaitForPreviousFrame \/ UpdateWs2812Encoder \/ Transmit \/ WaitForFrame \/ FrameDone
  BY <1>2 DEF SubmitTiming, RequestRead, Submit, HandleTiming, HandleResult, TakeTiming,
     WaitForPreviousFrame, UpdateWs2812Encoder, Transmit, WaitForFrame, FrameDone
<1>3. CASE HandleRead \/ ArmFrame
  BY <1>3 DEF HandleRead, ArmFrame, ArmBegin, PulseNext, Callers
<1>4. CASE MonitorStep \/ PostOutcome \/ PostTimeout \/ \E t \in Callers : PostNotMeasured(t)
  BY <1>4 DEF MonitorStep, PostOutcome, PostTimeout, PostNotMeasured, PulseNext
<1> QED BY <1>1, <1>2, <1>3, <1>4 DEF Next, Orchestrator, LedDriver

\* The composed system implements the pulse monitor's specification: the LED driver
\* task and the orchestrator are its two callers, and never arm a number twice.
THEOREM TunerUsesPulse == Spec => PulseSpec
<1>1. Init => PulseInit
  BY DEF Init
<1> QED BY <1>1, StepIsPulse, PTL DEF Spec, PulseSpec

\* In the tuner, too, a request is answered with its own capture.
THEOREM TunerCaptures == Spec => []CaptureBelongsToArm
BY TunerUsesPulse, CaptureSafety, PTL

\* In the tuner, too, no newer arm is aborted by an older one's timeout.
THEOREM TunerRestarts == Spec => RestartAbortsOwn
BY TunerUsesPulse, RestartOwnSafety, PTL

\* In the tuner, too, a request gets one outcome at most.
THEOREM TunerOutcomes == Spec => []OneOutcome
BY TunerUsesPulse, OutcomeSafety, PTL

-----------------------------------------------------------------------------
(* Numbers and kinds.                                                      *)

SendNr(n) == n <= issued /\ kind[n] # "read"
ReadNr(n) == n <= issued /\ kind[n] = "read"

\* A message carries a number of the kind its type or its outcome says.
MessageOk(m) ==
    /\ m.seq <= issued
    /\ m.type = "timing" => SendNr(m.seq)
    /\ m.type = "read" => ReadNr(m.seq)
    /\ m.type = "result" /\ m.state = "read_done" => ReadNr(m.seq)
    /\ m.type = "result" /\ m.state = "done" => SendNr(m.seq)

\* The snapshot's mode is the kind of its number.
OfMode(a) == a.submit \in Submits /\ IF a.mode = "read" THEN ReadNr(a.submit) ELSE SendNr(a.submit)

QueueKinds == \A i \in 1..Len(queue) : MessageOk(queue[i])
LedKinds == (ledQueue # NoRequest => SendNr(ledQueue)) /\ (led # "idle" => SendNr(drives))
ArmKinds ==
    /\ at["led"] # "idle" => req["led"] \in Submits /\ SendNr(req["led"])
    /\ at["orch"] # "idle" => req["orch"] \in Submits /\ ReadNr(req["orch"])
    /\ OfMode(armed) /\ OfMode(wait)
RecordKind == record.seq <= issued /\ AnswerOfItsKind

KindInv == QueueKinds /\ LedKinds /\ ArmKinds /\ RecordKind

\* The one outcome of a number is in the queue or in the record, once.
ResultInv ==
    /\ \A i \in 1..Len(queue) : queue[i].type = "result" =>
          /\ published[queue[i].seq] = 1
          /\ queue[i].seq # record.seq \/ record.seq = 0
          /\ \A j \in 1..Len(queue) : queue[j].type = "result" /\ queue[j].seq = queue[i].seq => j = i
    /\ record.seq > 0 => published[record.seq] = 1

\* The tuner's part of TypeOK.
TunerTypes ==
    /\ issued \in 0..MaxSubmit
    /\ kind \in [Submits -> Kinds]
    /\ queue \in Seq(Message)
    /\ ledQueue \in Submits \cup {NoRequest}
    /\ led \in LedAt
    /\ drives \in Submits
    /\ record \in [seq : Submits, state : States]

AnswerInv == TunerTypes /\ KindInv /\ ResultInv

\* What xQueueSend() does to the queue: nothing, or one message more at its end.
LEMMA PostQueue ==
  ASSUME queue \in Seq(Message), NEW type \in {"timing", "read", "result"}, NEW seq \in Submits,
         NEW state \in States, Post(type, seq, state)
  PROVE  /\ queue' \in Seq(Message)
         /\ \/ queue' = queue
            \/ /\ Len(queue') = Len(queue) + 1
               /\ \A i \in 1..Len(queue) : queue'[i] = queue[i]
               /\ queue'[Len(queue) + 1] = [type |-> type, seq |-> seq, state |-> state]
<1>1. [type |-> type, seq |-> seq, state |-> state] \in Message
  BY DEF Message
<1> QED BY <1>1 DEF Post

\* What xQueueReceive() does: the rest moves up.
LEMMA TakeQueue ==
  ASSUME queue \in Seq(Message), NEW type, Take(type)
  PROVE  /\ queue' \in Seq(Message) /\ Head(queue) = queue[1] /\ Head(queue) \in Message
         /\ Len(queue) \in Nat /\ Len(queue) > 0 /\ Len(queue') = Len(queue) - 1
         /\ \A i \in 1..Len(queue') : queue'[i] = queue[i + 1]
         /\ Head(queue).type = type
BY DEF Take

\* StartLedController() and StartPulseMonitor().
LEMMA AnswerInit == Init => AnswerInv
<1> SUFFICES ASSUME Init PROVE AnswerInv
  OBVIOUS
<1>1. 0 \in Submits /\ MaxSubmit \in Nat
  BY TunerAssumption
<1>2. TunerTypes
  BY <1>1 DEF Init, TunerTypes, Kinds, LedAt, States, NoRequest
<1>3. KindInv
  BY <1>1, <1>2 DEF Init, PulseInit, KindInv, QueueKinds, LedKinds, ArmKinds, RecordKind, AnswerOfItsKind,
     OfMode, NoArm, SendNr, NoRequest, Callers
<1>4. ResultInv
  BY DEF Init, ResultInv
<1> QED BY <1>2, <1>3, <1>4 DEF AnswerInv

\* A new number gets its kind; no number in use changes its own.
LEMMA SubmitAnswer ==
  ASSUME PairInv, AnswerInv, SubmitTiming \/ RequestRead
  PROVE  AnswerInv'
<1>0. TunerTypes /\ KindInv /\ ResultInv
  BY DEF AnswerInv
<1>1. PICK type \in {"timing", "read"}, what \in {"send", "read"} :
         Submit(type, what) /\ (type = "read" <=> what = "read")
  BY DEF SubmitTiming, RequestRead
<1>2. /\ issued \in Nat /\ issued + 1 \in Submits /\ issued' = issued + 1
      /\ Submits \subseteq Nat
      /\ kind' = [kind EXCEPT ![issued + 1] = what] /\ kind'[issued + 1] = what
      /\ \A n \in Submits : n <= issued => kind'[n] = kind[n]
      /\ UNCHANGED <<pulseVars, ledQueue, led, drives, tx, inFlight, strip, record>>
  BY <1>0, <1>1, TunerAssumption DEF Submit, TunerTypes
<1>3. \A n \in Submits : (SendNr(n) => SendNr(n)') /\ (ReadNr(n) => ReadNr(n)')
  BY <1>2 DEF SendNr, ReadNr
<1>4. queue \in Seq(Message) /\ "done" \in States /\ Post(type, issued + 1, "done")
  BY <1>0, <1>1 DEF TunerTypes, States, Submit
<1>5. /\ queue' \in Seq(Message)
      /\ \/ queue' = queue
         \/ /\ Len(queue') = Len(queue) + 1
            /\ \A i \in 1..Len(queue) : queue'[i] = queue[i]
            /\ queue'[Len(queue) + 1] = [type |-> type, seq |-> issued + 1, state |-> "done"]
  BY <1>1, <1>2, <1>4, PostQueue
<1>6. TunerTypes'
  BY <1>0, <1>1, <1>2, <1>5, TunerAssumption DEF TunerTypes, Submit, Kinds
<1>7. QueueKinds'
  <2>1. ASSUME NEW m \in Message, MessageOk(m) PROVE MessageOk(m)'
    <3>1. m.seq \in Submits
      BY DEF Message
    <3>2. m.seq \in Nat /\ m.seq <= issued
      BY <1>2, <2>1, <3>1 DEF MessageOk
    <3>3. kind'[m.seq] = kind[m.seq]
      BY <1>2, <3>1, <3>2
    <3>4. issued \in Nat /\ issued' = issued + 1
      BY <1>2
    <3> QED BY <2>1, <3>2, <3>3, <3>4 DEF MessageOk, SendNr, ReadNr
  <2>2. ASSUME NEW i \in 1..Len(queue') PROVE MessageOk(queue[i])'
    <3>1. Len(queue) \in Nat /\ \A k \in 1..Len(queue) : queue[k] \in Message /\ MessageOk(queue[k])
      BY <1>0, <1>4 DEF KindInv, QueueKinds
    <3>2. CASE i \in 1..Len(queue)
      BY <1>5, <2>1, <3>1, <3>2
    <3>3. CASE queue'[i] = [type |-> type, seq |-> issued + 1, state |-> "done"]
      BY <1>1, <1>2, <3>3 DEF MessageOk, SendNr, ReadNr
    <3> QED BY <1>5, <3>1, <3>2, <3>3
  <2> QED BY <2>2 DEF QueueKinds
<1>8. LedKinds' /\ ArmKinds'
  <2>1. (ledQueue # NoRequest => ledQueue \in Submits) /\ drives \in Submits
    BY <1>0 DEF TunerTypes
  <2> QED
    BY <1>0, <1>2, <1>3, <2>1 DEF KindInv, LedKinds, ArmKinds, OfMode, pulseVars, arming, rx, decoding
<1>9. RecordKind'
  BY <1>0, <1>2 DEF KindInv, RecordKind, AnswerOfItsKind, TunerTypes
<1>10. ResultInv'
  <2>1. UNCHANGED <<published, record>>
    BY <1>2 DEF pulseVars
  <2>2. CASE queue' = queue
    BY <1>0, <2>1, <2>2 DEF ResultInv
  <2>3. CASE /\ Len(queue') = Len(queue) + 1
             /\ \A i \in 1..Len(queue) : queue'[i] = queue[i]
             /\ queue'[Len(queue) + 1].type # "result"
    <3>1. Len(queue) \in Nat
      BY <1>4
    <3>2. \A i \in 1..Len(queue') : queue'[i].type = "result" => i \in 1..Len(queue) /\ queue'[i] = queue[i]
      BY <2>3, <3>1
    <3> QED BY <1>0, <2>1, <3>1, <3>2 DEF ResultInv
  <2> QED BY <1>1, <1>5, <2>2, <2>3
<1> QED BY <1>6, <1>7, <1>8, <1>9, <1>10 DEF AnswerInv, KindInv

\* The orchestrator takes a message: what is left of the queue is as good as before.
LEMMA TakeAnswer ==
  ASSUME AnswerInv, NEW type, Take(type), UNCHANGED <<issued, kind, published>>
  PROVE  /\ queue' \in Seq(Message) /\ QueueKinds'
         /\ Head(queue) \in Message /\ Head(queue).type = type /\ MessageOk(Head(queue))
         /\ Len(queue') \in Nat
         /\ \A i \in 1..Len(queue') :
               queue'[i].type = "result" =>
                 /\ published'[queue'[i].seq] = 1
                 /\ queue'[i].seq # record.seq \/ record.seq = 0
                 /\ type = "result" => queue'[i].seq # Head(queue).seq
                 /\ \A j \in 1..Len(queue') :
                       queue'[j].type = "result" /\ queue'[j].seq = queue'[i].seq => j = i
         /\ type = "result" => published[Head(queue).seq] = 1
<1>0. TunerTypes /\ QueueKinds /\ ResultInv
  BY DEF AnswerInv, KindInv
<1>1. queue \in Seq(Message)
  BY <1>0 DEF TunerTypes
<1>2. /\ queue' \in Seq(Message) /\ Head(queue) = queue[1] /\ Head(queue) \in Message
      /\ Len(queue) \in Nat /\ Len(queue) > 0 /\ Len(queue') = Len(queue) - 1
      /\ \A i \in 1..Len(queue') : queue'[i] = queue[i + 1]
      /\ Head(queue).type = type
  BY <1>1, TakeQueue
<1>3. \A i \in 1..Len(queue') : i + 1 \in 1..Len(queue) /\ i + 1 # 1 /\ queue'[i] = queue[i + 1]
  BY <1>2
<1>4. 1 \in 1..Len(queue)
  BY <1>2
<1>5. QueueKinds'
  BY <1>0, <1>3 DEF QueueKinds, MessageOk, SendNr, ReadNr
<1>6. MessageOk(Head(queue))
  BY <1>0, <1>2, <1>4 DEF QueueKinds
<1>7. ASSUME NEW i \in 1..Len(queue'), queue'[i].type = "result"
      PROVE  /\ published'[queue'[i].seq] = 1
             /\ queue'[i].seq # record.seq \/ record.seq = 0
             /\ type = "result" => queue'[i].seq # Head(queue).seq
             /\ \A j \in 1..Len(queue') :
                   queue'[j].type = "result" /\ queue'[j].seq = queue'[i].seq => j = i
  <2>1. queue[i + 1].type = "result" /\ i + 1 \in 1..Len(queue) /\ i + 1 # 1
    BY <1>3, <1>7
  <2>2. \A j \in 1..Len(queue) : queue[j].type = "result" /\ queue[j].seq = queue[i + 1].seq => j = i + 1
    BY <1>0, <2>1 DEF ResultInv
  <2>3. ASSUME NEW j \in 1..Len(queue'), queue'[j].type = "result", queue'[j].seq = queue'[i].seq
        PROVE  j = i
    BY <1>3, <2>2, <2>3
  <2>4. type = "result" => queue'[i].seq # Head(queue).seq
    BY <1>2, <1>3, <1>4, <2>1, <2>2
  <2> QED BY <1>0, <1>3, <2>1, <2>3, <2>4 DEF ResultInv
<1>8. type = "result" => published[Head(queue).seq] = 1
  BY <1>0, <1>2, <1>4 DEF ResultInv
<1>9. Len(queue') \in Nat
  BY <1>2
<1> QED BY <1>2, <1>5, <1>6, <1>7, <1>8, <1>9

\* The orchestrator's handlers: a timing goes to the LED driver task, a read is
\* armed, and a result moves from the queue to the record.
LEMMA HandleAnswer == ASSUME PairInv, AnswerInv, Orchestrator PROVE AnswerInv'
<1>0. TunerTypes /\ QueueKinds /\ LedKinds /\ ArmKinds /\ RecordKind /\ ResultInv
  BY DEF AnswerInv, KindInv
<1>a. Submits \subseteq Nat /\ 0 \in Submits
  BY TunerAssumption
<1>1. CASE HandleTiming
  <2>1. /\ Take("timing") /\ UNCHANGED <<issued, kind, led, drives, record, published, at, req, armed, wait>>
        /\ ledQueue' = IF tx = "none" THEN NoRequest ELSE Head(queue).seq
    BY <1>1 DEF HandleTiming, pulseVars, rx, arming, decoding
  <2>2. Head(queue) \in Message /\ Head(queue).type = "timing" /\ MessageOk(Head(queue))
    BY <2>1, TakeAnswer
  <2>3. Head(queue).seq \in Submits /\ SendNr(Head(queue).seq)
    BY <2>2 DEF Message, MessageOk
  <2>4. TunerTypes'
    BY <1>0, <2>1, <2>3, TakeAnswer DEF TunerTypes
  <2>5. LedKinds' /\ ArmKinds' /\ RecordKind'
    BY <1>0, <2>1, <2>3 DEF LedKinds, ArmKinds, OfMode, RecordKind, AnswerOfItsKind, SendNr, ReadNr
  <2>6. ResultInv'
    BY <1>0, <2>1, TakeAnswer DEF ResultInv
  <2> QED BY <2>1, <2>4, <2>5, <2>6, TakeAnswer DEF AnswerInv, KindInv
<1>2. CASE HandleRead
  <2>1. /\ Take("read") /\ UNCHANGED <<issued, kind, ledQueue, led, drives, record, published, armed, wait>>
        /\ at["orch"] = "idle" /\ at'["led"] = at["led"] /\ req' = [req EXCEPT !["orch"] = Head(queue).seq]
    BY <1>2, Fields DEF HandleRead, Take, ArmBegin, Step, decoding, PairInv, PulseTypeOK, Callers
  <2>2. Head(queue) \in Message /\ Head(queue).type = "read" /\ MessageOk(Head(queue))
    BY <2>1, TakeAnswer
  <2>3. Head(queue).seq \in Submits /\ ReadNr(Head(queue).seq)
    BY <2>2 DEF Message, MessageOk
  <2>4. TunerTypes'
    BY <1>0, <2>1, TakeAnswer DEF TunerTypes
  <2>5. req'["orch"] = Head(queue).seq /\ req'["led"] = req["led"]
    BY <2>1 DEF PairInv, PulseTypeOK, Callers
  <2>6. LedKinds' /\ ArmKinds' /\ RecordKind'
    BY <1>0, <2>1, <2>3, <2>5 DEF LedKinds, ArmKinds, OfMode, RecordKind, AnswerOfItsKind, SendNr, ReadNr
  <2>7. ResultInv'
    BY <1>0, <2>1, TakeAnswer DEF ResultInv
  <2> QED BY <2>1, <2>4, <2>6, <2>7, TakeAnswer DEF AnswerInv, KindInv
<1>3. CASE HandleResult
  <2>1. /\ Take("result") /\ UNCHANGED <<issued, kind, ledQueue, led, drives, published, at, req, armed, wait>>
        /\ \/ UNCHANGED record
           \/ record' = [seq |-> Head(queue).seq, state |-> Head(queue).state]
    BY <1>3 DEF HandleResult, pulseVars, rx, arming, decoding
  <2>2. Head(queue) \in Message /\ Head(queue).type = "result" /\ MessageOk(Head(queue))
    BY <2>1, TakeAnswer
  <2>3. TunerTypes'
    <3>1. record' \in [seq : Submits, state : States]
      BY <1>0, <2>1, <2>2 DEF TunerTypes, Message
    <3>2. queue' \in Seq(Message)
      BY <2>1, TakeAnswer
    <3> QED BY <1>0, <2>1, <3>1, <3>2 DEF TunerTypes
  <2>4. LedKinds' /\ ArmKinds'
    BY <1>0, <2>1 DEF LedKinds, ArmKinds, OfMode, SendNr, ReadNr
  <2>5. RecordKind'
    BY <1>0, <2>1, <2>2 DEF RecordKind, AnswerOfItsKind, MessageOk, SendNr, ReadNr
  <2>6. ResultInv'
    <3>1. UNCHANGED record \/ record'.seq = Head(queue).seq
      BY <2>1
    <3>2. record'.seq > 0 => published'[record'.seq] = 1
      BY <1>0, <2>1, <3>1, TakeAnswer DEF ResultInv
    <3> QED BY <2>1, <3>1, <3>2, TakeAnswer DEF ResultInv
  <2> QED BY <2>1, <2>3, <2>4, <2>5, <2>6, TakeAnswer DEF AnswerInv, KindInv
<1> QED BY <1>1, <1>2, <1>3 DEF Orchestrator

\* The LED driver task passes its number on, from its queue to the arm.
LEMMA DriveAnswer ==
  ASSUME PairInv, AnswerInv, LedDriver \/ FrameDone
  PROVE  AnswerInv'
<1>0. TunerTypes /\ QueueKinds /\ LedKinds /\ ArmKinds /\ RecordKind /\ ResultInv
  BY DEF AnswerInv, KindInv
<1>1. UNCHANGED <<issued, kind, queue, record, published, armed, wait>>
  BY DEF LedDriver, FrameDone, TakeTiming, WaitForPreviousFrame, UpdateWs2812Encoder, ArmFrame,
     Transmit, WaitForFrame, ArmBegin, pulseVars, rx, arming, decoding
<1>2. QueueKinds' /\ RecordKind' /\ ResultInv'
  BY <1>0, <1>1 DEF QueueKinds, MessageOk, RecordKind, AnswerOfItsKind, SendNr, ReadNr, ResultInv
<1>3. CASE TakeTiming
  <2>1. /\ ledQueue # NoRequest /\ drives' = ledQueue /\ ledQueue' = NoRequest /\ led' = "previous"
        /\ UNCHANGED <<at, req>>
    BY <1>3 DEF TakeTiming, Led, pulseVars, arming
  <2>2. TunerTypes'
    BY <1>0, <1>1, <2>1 DEF TunerTypes, LedAt
  <2>3. LedKinds' /\ ArmKinds'
    BY <1>0, <1>1, <2>1 DEF LedKinds, ArmKinds, OfMode, SendNr, ReadNr
  <2> QED BY <1>2, <2>2, <2>3 DEF AnswerInv, KindInv
<1>4. CASE WaitForPreviousFrame \/ UpdateWs2812Encoder \/ Transmit \/ WaitForFrame \/ FrameDone
  <2>1. /\ UNCHANGED <<ledQueue, drives, at, req>>
        /\ (led' \in LedAt /\ (led' # "idle" => led # "idle")) \/ led' = led
    BY <1>4 DEF WaitForPreviousFrame, UpdateWs2812Encoder, Transmit, WaitForFrame, FrameDone, Led, LedAt,
       pulseVars, arming
  <2>2. TunerTypes'
    BY <1>0, <1>1, <2>1 DEF TunerTypes
  <2>3. LedKinds' /\ ArmKinds'
    BY <1>0, <1>1, <2>1 DEF LedKinds, ArmKinds, OfMode, SendNr, ReadNr
  <2> QED BY <1>2, <2>2, <2>3 DEF AnswerInv, KindInv
<1>5. CASE ArmFrame
  <2>1. /\ led = "arm" /\ led' = "transmit" /\ UNCHANGED <<ledQueue, drives>>
        /\ at'["orch"] = at["orch"] /\ req' = [req EXCEPT !["led"] = drives]
    BY <1>5, Fields DEF ArmFrame, Led, ArmBegin, Step, PairInv, PulseTypeOK, Callers
  <2>2. req'["led"] = drives /\ req'["orch"] = req["orch"]
    BY <2>1 DEF PairInv, PulseTypeOK, Callers
  <2>3. TunerTypes'
    BY <1>0, <1>1, <2>1 DEF TunerTypes, LedAt
  <2>4. LedKinds' /\ ArmKinds'
    BY <1>0, <1>1, <2>1, <2>2 DEF TunerTypes, LedKinds, ArmKinds, OfMode, SendNr, ReadNr
  <2> QED BY <1>2, <2>3, <2>4 DEF AnswerInv, KindInv
<1> QED BY <1>3, <1>4, <1>5 DEF LedDriver

\* Inside the pulse monitor a number moves from the call to the snapshot and from
\* there to the wait, with the mode of the task that armed it.
LEMMA MonitorAnswer ==
  ASSUME PairInv, AnswerInv, MonitorStep
  PROVE  AnswerInv'
<1>0. TunerTypes /\ QueueKinds /\ LedKinds /\ ArmKinds /\ RecordKind /\ ResultInv
  BY DEF AnswerInv, KindInv
<1>1. UNCHANGED tuner /\ UNCHANGED <<published, req>>
  BY DEF MonitorStep, HandleRxDone, ArmStep, Tag, Mark, Receive, ArmDone, ArmFailed, DecodeStep,
     TakeArmSignal, DecodeLock, GetArmedSeq, ReceiveEvent, CaptureTimeout, TakeCurrentCapture,
     RestartRxChannel, rx, arming, decoding
<1>2. TunerTypes' /\ QueueKinds' /\ RecordKind' /\ ResultInv' /\ LedKinds'
  BY <1>0, <1>1 DEF tuner, TunerTypes, QueueKinds, MessageOk, RecordKind, AnswerOfItsKind, SendNr, ReadNr,
     ResultInv, LedKinds
<1>3. ArmKinds'
  <2>1. UNCHANGED <<issued, kind>>
    BY <1>1 DEF tuner
  <2>2. \A u \in Callers : at'[u] # "idle" => at[u] # "idle"
    BY <1>1, Fields DEF MonitorStep, HandleRxDone, ArmStep, Tag, Mark, Receive, ArmDone, ArmFailed,
       Step, DecodeStep, TakeArmSignal, DecodeLock, GetArmedSeq, ReceiveEvent, CaptureTimeout,
       TakeCurrentCapture, RestartRxChannel, rx, arming, decoding, PairInv, PulseTypeOK, Callers
  <2>3. CASE UNCHANGED armed /\ wait' \in {wait, armed}
    BY <1>0, <1>1, <2>1, <2>2, <2>3 DEF ArmKinds, OfMode, SendNr, ReadNr, Callers
  <2>4. ASSUME NEW t \in Callers, ArmDone(t) PROVE ArmKinds'
    <3>1. /\ at[t] = "started" /\ UNCHANGED wait
          /\ armed' = [seq |-> armed.seq + 1, submit |-> req[t], mode |-> ModeOf(t)]
      BY <2>4 DEF ArmDone, Step, decoding
    <3>2. OfMode(armed)'
      BY <1>0, <1>1, <2>1, <3>1 DEF OfMode, ArmKinds, ModeOf, Callers, SendNr, ReadNr
    <3> QED BY <1>0, <1>1, <2>1, <2>2, <3>1, <3>2 DEF ArmKinds, OfMode, SendNr, ReadNr, Callers
  <2>5. CASE \E good \in BOOLEAN : HandleRxDone(good)
    BY <2>3, <2>5 DEF HandleRxDone, decoding
  <2>6. CASE \E t \in Callers : Tag(t) \/ Mark(t) \/ Receive(t) \/ ArmFailed(t)
    BY <2>3, <2>6 DEF Tag, Mark, Receive, ArmFailed, decoding
  <2>7. CASE DecodeStep
    BY <2>3, <2>7 DEF DecodeStep, TakeArmSignal, DecodeLock, GetArmedSeq, ReceiveEvent, CaptureTimeout,
       TakeCurrentCapture, RestartRxChannel, rx, decoding
  <2> QED BY <2>4, <2>5, <2>6, <2>7 DEF MonitorStep, ArmStep
<1> QED BY <1>2, <1>3 DEF AnswerInv, KindInv

\* A result, the first of its number, goes to the queue or is lost there.
LEMMA PostAnswer ==
  ASSUME PairInv, AnswerInv, OneOutcome', NEW s \in Submits, NEW state \in States,
         Post("result", s, state), Publish(s), UNCHANGED noTuner, s <= issued,
         state = "read_done" => ReadNr(s), state = "done" => SendNr(s)
  PROVE  TunerTypes' /\ QueueKinds' /\ RecordKind' /\ LedKinds' /\ ResultInv'
<1>0. TunerTypes /\ QueueKinds /\ LedKinds /\ RecordKind /\ ResultInv
  BY DEF AnswerInv, KindInv
<1>1. UNCHANGED <<issued, kind, ledQueue, led, drives, record>>
  BY DEF noTuner
<1>2. queue \in Seq(Message) /\ Len(queue) \in Nat /\ \A k \in 1..Len(queue) : queue[k] \in Message
  BY <1>0 DEF TunerTypes
<1>3. /\ queue' \in Seq(Message)
      /\ \/ queue' = queue
         \/ /\ Len(queue') = Len(queue) + 1
            /\ \A i \in 1..Len(queue) : queue'[i] = queue[i]
            /\ queue'[Len(queue) + 1] = [type |-> "result", seq |-> s, state |-> state]
  BY <1>2, PostQueue
<1>4. published[s] = 0 /\ published'[s] = 1 /\ \A u \in Submits : u # s => published'[u] = published[u]
  <2>1. published \in [Submits -> Nat]
    BY DEF PairInv, PulseTypeOK
  <2>2. published'[s] = published[s] + 1 /\ \A u \in Submits : u # s => published'[u] = published[u]
    BY <2>1, PublishCounts
  <2> QED BY <2>1, <2>2 DEF OneOutcome
<1>5. TunerTypes' /\ LedKinds' /\ RecordKind'
  BY <1>0, <1>1, <1>3 DEF TunerTypes, LedKinds, RecordKind, AnswerOfItsKind, SendNr, ReadNr
<1>6. /\ record.seq \in Submits /\ (record.seq > 0 => record.seq # s)
      /\ \A i \in 1..Len(queue) : queue[i].type = "result" => queue[i].seq # s /\ queue[i].seq \in Submits
  BY <1>0, <1>2, <1>4 DEF ResultInv, TunerTypes, Message
<1>7. CASE queue' = queue
  <2>1. QueueKinds'
    BY <1>0, <1>1, <1>7 DEF QueueKinds, MessageOk, SendNr, ReadNr
  <2>2. ResultInv'
    BY <1>0, <1>1, <1>4, <1>6, <1>7 DEF ResultInv
  <2> QED BY <1>5, <2>1, <2>2
<1>8. CASE /\ Len(queue') = Len(queue) + 1
           /\ \A i \in 1..Len(queue) : queue'[i] = queue[i]
           /\ queue'[Len(queue) + 1] = [type |-> "result", seq |-> s, state |-> state]
  <2>1. \A i \in 1..Len(queue') : i \in 1..Len(queue) \/ i = Len(queue) + 1
    BY <1>2, <1>8
  <2>2. MessageOk(queue'[Len(queue) + 1])
    BY <1>8 DEF MessageOk
  <2>3. QueueKinds'
    BY <1>0, <1>1, <1>8, <2>1, <2>2 DEF QueueKinds, MessageOk, SendNr, ReadNr
  <2>4. ASSUME NEW i \in 1..Len(queue'), queue'[i].type = "result"
        PROVE  /\ published'[queue'[i].seq] = 1
               /\ queue'[i].seq # record'.seq \/ record'.seq = 0
               /\ \A j \in 1..Len(queue') :
                     queue'[j].type = "result" /\ queue'[j].seq = queue'[i].seq => j = i
    <3>1. CASE i \in 1..Len(queue)
      <4>1. queue'[i] = queue[i] /\ queue[i].type = "result" /\ queue[i].seq # s /\ queue[i].seq \in Submits
        BY <1>6, <1>8, <2>4, <3>1
      <4> QED BY <1>0, <1>1, <1>4, <1>8, <2>1, <3>1, <4>1 DEF ResultInv
    <3>2. CASE i = Len(queue) + 1
      <4>1. queue'[i].seq = s
        BY <1>8, <3>2
      <4>2. record.seq # s \/ record.seq = 0
        BY <1>6, TunerAssumption
      <4>3. \A j \in 1..Len(queue') : queue'[j].type = "result" /\ queue'[j].seq = s => j = i
        BY <1>6, <1>8, <2>1, <3>2
      <4> QED BY <1>1, <1>4, <4>1, <4>2, <4>3
    <3> QED BY <2>1, <3>1, <3>2
  <2>5. record'.seq > 0 => published'[record'.seq] = 1
    BY <1>0, <1>1, <1>4, <1>6 DEF ResultInv
  <2>6. ResultInv'
    BY <2>4, <2>5 DEF ResultInv
  <2> QED BY <1>5, <2>3, <2>6
<1> QED BY <1>3, <1>7, <1>8

\* The pulse monitor reports an outcome of the mode of its number.
LEMMA OutcomeAnswer ==
  ASSUME PairInv, AnswerInv, OneOutcome',
         PostOutcome \/ PostTimeout \/ \E t \in Callers : PostNotMeasured(t)
  PROVE  AnswerInv'
<1>0. TunerTypes /\ ArmKinds
  BY DEF AnswerInv, KindInv
<1>a. {"done", "read_done", "count_error", "timeout", "not_measured"} = States
  BY DEF States
<1>1. CASE PostOutcome \/ PostTimeout
  <2>1. /\ Publish(wait.submit) /\ UNCHANGED noTuner /\ UNCHANGED <<at, req, armed, wait>>
        /\ Post("result", wait.submit, Outcome) \/ Post("result", wait.submit, "timeout")
    BY <1>1 DEF PostOutcome, PostTimeout, PublishOutcome, PublishTimeout, rx, arming
  <2>2. wait \in Arm /\ event \in Event
    BY DEF PairInv, PulseTypeOK
  <2>3. wait.submit \in Submits /\ wait.submit <= issued
    BY <1>0 DEF ArmKinds, OfMode, SendNr, ReadNr
  <2>4. /\ Outcome \in States
        /\ (Outcome = "read_done" => ReadNr(wait.submit)) /\ (Outcome = "done" => SendNr(wait.submit))
    BY <1>0, <1>a, <2>2 DEF Outcome, ArmKinds, OfMode, Arm, Modes, Event
  <2>5. TunerTypes' /\ QueueKinds' /\ RecordKind' /\ LedKinds' /\ ResultInv'
    <3>1. CASE Post("result", wait.submit, Outcome)
      BY <2>1, <2>3, <2>4, <3>1, PostAnswer
    <3>2. CASE Post("result", wait.submit, "timeout")
      BY <1>a, <2>1, <2>3, <3>2, PostAnswer
    <3> QED BY <2>1, <3>1, <3>2
  <2>6. ArmKinds'
    BY <1>0, <2>1 DEF noTuner, ArmKinds, OfMode, SendNr, ReadNr
  <2> QED BY <2>5, <2>6 DEF AnswerInv, KindInv
<1>2. ASSUME NEW t \in Callers, PostNotMeasured(t) PROVE AnswerInv'
  <2>1. /\ Publish(req[t]) /\ UNCHANGED noTuner /\ UNCHANGED <<req, armed, wait>>
        /\ at[t] = "publish" /\ at' = [at EXCEPT ![t] = "idle"]
        /\ Post("result", req[t], "not_measured")
    BY <1>2 DEF PostNotMeasured, PublishNotMeasured, Step, rx, decoding
  <2>2. req[t] \in Submits /\ req[t] <= issued
    BY <1>0, <2>1 DEF ArmKinds, SendNr, ReadNr, Callers
  <2>3. TunerTypes' /\ QueueKinds' /\ RecordKind' /\ LedKinds' /\ ResultInv'
    BY <1>a, <2>1, <2>2, PostAnswer
  <2>4. \A u \in Callers : at'[u] # "idle" => at[u] # "idle"
    BY <2>1 DEF PairInv, PulseTypeOK
  <2>5. ArmKinds'
    BY <1>0, <2>1, <2>4 DEF noTuner, ArmKinds, OfMode, SendNr, ReadNr, Callers
  <2> QED BY <2>3, <2>5 DEF AnswerInv, KindInv
<1> QED BY <1>1, <1>2

\* AnswerInv is inductive, given that a number gets one outcome at most.
LEMMA AnswerNext == PairInv /\ OneOutcome' /\ AnswerInv /\ [Next]_vars => AnswerInv'
<1> SUFFICES ASSUME PairInv, OneOutcome', AnswerInv, [Next]_vars PROVE AnswerInv'
  OBVIOUS
<1>1. CASE UNCHANGED vars
  BY <1>1 DEF vars, tuner, pulseVars, rx, arming, decoding, AnswerInv, TunerTypes, KindInv, QueueKinds,
     MessageOk, LedKinds, ArmKinds, OfMode, RecordKind, AnswerOfItsKind, SendNr, ReadNr, ResultInv
<1>2. CASE Next
  BY <1>2, SubmitAnswer, HandleAnswer, DriveAnswer, MonitorAnswer, OutcomeAnswer DEF Next
<1> QED BY <1>1, <1>2

THEOREM Answers == Spec => []AnswerInv
BY TunerUsesPulse, Pairing, OutcomeSafety, AnswerInit, AnswerNext, PTL DEF Spec

\* A Read is never answered with the measurement of a Send, nor a Send with that of
\* a Read, whatever the order in which the tasks run.
THEOREM AnswerKindSafety == Spec => []AnswerOfItsKind
<1>1. AnswerInv => AnswerOfItsKind
  BY DEF AnswerInv, KindInv, RecordKind
<1> QED BY <1>1, Answers, PTL

\* An outcome that GET /tuner/result has answered once is never taken back: it
\* stays until a newer one supersedes it.
THEOREM AnswerStaysSafety == Spec => AnswerStays
<1>1. AnswerInv /\ [Next]_vars =>
        [\A n \in 1..issued : Settled(n) =>
            GetTunerResultState(n)' \in {GetTunerResultState(n), "superseded"}]_vars
  <2> SUFFICES ASSUME AnswerInv, Next, NEW n \in 1..issued, Settled(n)
               PROVE  GetTunerResultState(n)' \in {GetTunerResultState(n), "superseded"}
    OBVIOUS
  <2>1. /\ issued \in Nat /\ record.seq \in Nat /\ n \in Nat /\ n > 0 /\ n <= issued
    BY TunerAssumption DEF AnswerInv, TunerTypes
  <2>2. record.seq >= n
    BY <2>1 DEF Settled, GetTunerResultState
  <2>3. CASE HandleResult
    <3>1. /\ Take("result") /\ UNCHANGED <<issued, kind, published>>
          /\ record' = IF Head(queue).seq >= record.seq
                       THEN [seq |-> Head(queue).seq, state |-> Head(queue).state] ELSE record
      BY <2>3 DEF HandleResult, pulseVars
    <3>2. Head(queue).seq \in Nat
      BY <3>1, TakeAnswer, TunerAssumption DEF Message
    <3>3. Head(queue).seq # record.seq
      <4>1. Head(queue) = queue[1] /\ Head(queue).type = "result" /\ 1 \in 1..Len(queue)
        BY <3>1, TakeQueue DEF AnswerInv, TunerTypes
      <4>2. queue[1].seq # record.seq \/ record.seq = 0
        BY <4>1 DEF AnswerInv, ResultInv
      <4> QED BY <2>1, <2>2, <4>1, <4>2
    <3>4. record' = record \/ record'.seq > n
      BY <2>1, <2>2, <3>1, <3>2, <3>3
    <3>5. CASE record' = record
      BY <3>1, <3>5 DEF GetTunerResultState
    <3>6. CASE record'.seq > n
      <4>1. n # 0 /\ ~(n > issued') /\ n \in 1..issued' /\ record'.seq # n /\ ~(record'.seq < n)
        BY <2>1, <3>1, <3>2, <3>6
      <4>2. GetTunerResultState(n)' = "superseded"
        BY <3>6, <4>1, Zenon DEF GetTunerResultState
      <4> QED BY <4>2
    <3> QED BY <3>4, <3>5, <3>6
  <2>4. CASE SubmitTiming \/ RequestRead
    BY <2>1, <2>2, <2>4 DEF SubmitTiming, RequestRead, Submit, GetTunerResultState
  <2>5. CASE \/ HandleTiming \/ HandleRead \/ LedDriver \/ FrameDone \/ MonitorStep \/ PostOutcome
             \/ PostTimeout \/ \E t \in Callers : PostNotMeasured(t)
    <3>1. UNCHANGED <<issued, record>>
      BY <2>5 DEF HandleTiming, HandleRead, LedDriver, FrameDone, TakeTiming, WaitForPreviousFrame,
         UpdateWs2812Encoder, ArmFrame, Transmit, WaitForFrame, MonitorStep, PostOutcome, PostTimeout,
         PostNotMeasured, noTuner, tuner
    <3> QED BY <3>1 DEF GetTunerResultState
  <2> QED BY <2>3, <2>4, <2>5 DEF Next, Orchestrator
<1> QED BY <1>1, Answers, PTL DEF Spec, AnswerStays
=============================================================================
