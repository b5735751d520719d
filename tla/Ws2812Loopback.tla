--------------------------- MODULE Ws2812Loopback ---------------------------
(***************************************************************************)
(* One frame from an accepted timing to its measurement, over the jumper   *)
(* between the TX and the RX pin: the encoder of led_controller.c, called  *)
(* by the interrupt of the RMT driver with whatever room its memory has;   *)
(* the symbols the receiver captures, each pulse up to a tick longer or    *)
(* shorter, or not a pulse at all; and the statistics of a Send and of a   *)
(* Read.                                                                   *)
(***************************************************************************)
EXTENDS Ws2812Measure, Sequences

CONSTANTS Timings,      \* the submitted timings
          MaxRoom,      \* bound on the room of one call, in symbols
          MaxJitter     \* bound on the error of a pulse, in ticks

ASSUME LoopbackAssumption ==
    /\ DataSymbols \in Nat \ {0} /\ ReadMinBits \in Nat
    /\ MaxRoom \in Nat \ {0} /\ MaxJitter \in 0..1

VARIABLES timing, bits,     \* the frame: s_encoder's symbols and the pixels
          state,            \* ws2812_encoder_t.state: 0 for data, 1 for reset
          encoded,          \* data symbols the bytes encoder has given so far
          wire,             \* the symbols sent
          stage,            \* encode, sent or captured
          error, capture    \* per symbol: its error in ticks, or Noise; s_decode_symbols

vars == <<timing, bits, state, encoded, wire, stage, error, capture>>

Noise == 2
Errors == (-MaxJitter)..MaxJitter \cup {Noise}

TypeOK ==
    /\ timing \in Timings /\ bits \in [1..DataSymbols -> {0, 1}]
    /\ state \in {0, 1} /\ encoded \in 0..DataSymbols
    /\ Len(wire) <= DataSymbols + 1
    /\ stage \in {"encode", "sent", "captured"}
    /\ error \in [1..DataSymbols -> Errors]

\* A timing that passed the checks; the encoder starts a frame reset.
Init ==
    /\ timing \in {t \in Timings : ValidateWs2812Timing(t) = "OK"}
    /\ bits \in [1..DataSymbols -> {0, 1}]
    /\ state = 0 /\ encoded = 0 /\ wire = <<>>
    /\ stage = "encode"
    /\ error = [i \in 1..DataSymbols |-> 0] /\ capture = <<>>

-----------------------------------------------------------------------------
\* The RMT bytes encoder and copy encoder: what fits of what is left.
DataChunk(n) == [i \in 1..n |-> BitSymbol(timing, bits[encoded + i])]

EncodeData(room) ==
    LET n == IF room < DataSymbols - encoded THEN room ELSE DataSymbols - encoded
    IN /\ wire' = wire \o DataChunk(n)
       /\ encoded' = encoded + n

\* Mutant: the reset symbol is not awaited when the data filled the memory.
EncodeWs2812FrameEarlyEnd(room) ==
    /\ stage = "encode"
    /\ \/ /\ state = 0 /\ encoded + room <= DataSymbols
          /\ EncodeData(room)
          /\ state' = 0
          /\ stage' = IF encoded' = DataSymbols THEN "sent" ELSE "encode"
       \/ /\ state = 0 /\ encoded + room > DataSymbols
          /\ wire' = wire \o DataChunk(DataSymbols - encoded) \o <<ResetSymbol(timing)>>
          /\ encoded' = DataSymbols /\ state' = 0 /\ stage' = "sent"
    /\ UNCHANGED <<timing, bits, error, capture>>

\* EncodeWs2812Frame() with room for some symbols: data until the memory is full,
\* and the reset symbol, in this call or, when nothing is left of the room, the next.
EncodeWs2812Frame(room) ==
    /\ stage = "encode"
    /\ \/ /\ state = 0 /\ encoded + room <= DataSymbols
          /\ EncodeData(room)
          /\ state' = IF encoded' = DataSymbols THEN 1 ELSE 0
          /\ UNCHANGED stage
       \/ /\ state = 0 /\ encoded + room > DataSymbols
          /\ wire' = wire \o DataChunk(DataSymbols - encoded) \o <<ResetSymbol(timing)>>
          /\ encoded' = DataSymbols /\ state' = 0 /\ stage' = "sent"
       \/ /\ state = 1
          /\ wire' = Append(wire, ResetSymbol(timing))
          /\ state' = 0 /\ stage' = "sent" /\ UNCHANGED encoded
    /\ UNCHANGED <<timing, bits, error, capture>>

\* The receiver.  The reset joins the low of the last bit, whose duration the
\* receiver replaces by its end marker.  Noise comes in the opposite levels.
Received(i, e) ==
    [level0 |-> IF e[i] = Noise THEN 0 ELSE 1,
     high   |-> IF e[i] = Noise THEN wire[i].high ELSE wire[i].high + e[i],
     level1 |-> IF e[i] = Noise THEN 1 ELSE 0,
     low    |-> IF i = DataSymbols THEN 0 ELSE wire[i].low]

CaptureFrame(e) ==
    /\ stage = "sent" /\ stage' = "captured"
    /\ error' = e
    /\ capture' = [i \in 1..DataSymbols |-> Received(i, e)]
    /\ UNCHANGED <<timing, bits, state, encoded, wire>>

Next ==
    \/ \E room \in 1..MaxRoom : EncodeWs2812Frame(room)
    \/ \E e \in [1..DataSymbols -> Errors] : CaptureFrame(e)

Spec == Init /\ [][Next]_vars

-----------------------------------------------------------------------------
(* Properties.                                                             *)

\* However the frame is cut into calls, what goes out is each bit once, in order,
\* and one reset; and an accepted timing is sent exactly: no duration is rounded or
\* too long for its field.
FrameOnWire ==
    stage = "sent" =>
        /\ wire = [i \in 1..DataSymbols |-> BitSymbol(timing, bits[i])] \o <<ResetSymbol(timing)>>
        /\ \A i \in 1..DataSymbols : /\ High(wire[i]) = timing.high[bits[i]]
                                     /\ Period(wire[i]) = timing.period[bits[i]]
        /\ \A i \in DOMAIN wire : wire[i].high <= MaxDuration /\ wire[i].low <= MaxDuration

Worst == Max({0} \cup {Distance(error[i], 0) : i \in {j \in 1..DataSymbols : error[j] # Noise}})
Jitter == Ws2812TicksToNs(Worst)
Near(measured, sent) == Distance(measured, sent) <= Jitter

\* The pulses of a bit, and those of them that have a low time.
Pulses(bit) == {i \in 1..DataSymbols : error[i] # Noise /\ bits[i] = bit}
Measured(bit) == Pulses(bit) \ {DataSymbols}

\* FR-27, FR-28: while the jitter is less than half of what tells the bits apart,
\* every pulse is matched to the bit that was sent, inverted timings and equal high
\* times included, and the statistics are those of the commanded timing.
SendMeasured ==
    stage = "captured"
    /\ (MatchAvailable(timing) => 2 * Jitter < Distance(timing.high[0], timing.high[1]))
    => /\ MatchCount(capture, timing, bits) =
            IF MatchAvailable(timing) THEN Cardinality(Pulses(0) \cup Pulses(1)) ELSE 0
       /\ \A b \in {0, 1} :
            LET stats == PulseStats(capture, timing, bits, b)
            IN IF Pulses(b) = {} THEN stats.average = 0
               ELSE /\ Near(stats.least, timing.high[b]) /\ Near(stats.most, timing.high[b])
                    /\ stats.average \in stats.least..stats.most
                    /\ stats.firstHigh # 0 =>
                        stats.firstLow = timing.period[b] - timing.high[b]

\* What a Read says of a bit it has seen, and of one it has not.
ReadOf(stats, b) ==
    /\ stats.count = Cardinality(Measured(b))
    /\ Near(stats.high, timing.high[b]) /\ Near(stats.period, timing.period[b])
ReadOfNone(stats) == stats.count = 0 /\ stats.high = 0 /\ stats.period = 0

TwoClassesRead(read) ==
    /\ timing.high[1] - timing.high[0] >= SplitMinNs + 2 * Jitter
    /\ \A b \in {0, 1} : Measured(b) # {}
    => \A b \in {0, 1} : ReadOf(read.bits[b], b)

\* Which of the two the source meant by its only bit, the datasheet's midpoint decides.
OneClassRead(read) ==
    \A b \in {0, 1} :
        Measured(b) # {} /\ Measured(1 - b) = {} =>
            /\ timing.high[b] + Jitter <= SingleSplitNs =>
                    ReadOf(read.bits[0], b) /\ ReadOfNone(read.bits[1])
            /\ timing.high[b] - Jitter > SingleSplitNs =>
                    ReadOf(read.bits[1], b) /\ ReadOfNone(read.bits[0])

\* SPEC-006 FR-15: a Read of a source whose bits differ by enough finds both bits,
\* counts each pulse under its own, and measures its high time and period; so it does
\* for a source of one bit only, which it counts as the bit the datasheet gives it.
ReadMeasured ==
    stage = "captured" =>
        LET read == AnalyzeWs2812Read(capture, DataSymbols)
        IN /\ TwoClassesRead(read) /\ OneClassRead(read)
           /\ read.ok <=> /\ Measured(0) \cup Measured(1) # {}
                          /\ Cardinality(Measured(0) \cup Measured(1)) >= ReadMinBits
=============================================================================
