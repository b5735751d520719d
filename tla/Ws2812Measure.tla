--------------------------- MODULE Ws2812Measure ----------------------------
(***************************************************************************)
(* The arithmetic of a WS2812 frame: which timings are accepted            *)
(* (ws2812_timing.c), what a bit looks like on the wire                    *)
(* (led_controller.c), and what the pulse monitor makes of the symbols it  *)
(* captured (rmt_pulse_monitor.c).  Times are in ns, durations of symbols  *)
(* in RMT ticks; a symbol is two levels with their durations, high and low *)
(* where it is a pulse.                                                    *)
(***************************************************************************)
EXTENDS Integers, FiniteSetsExt

CONSTANTS DataSymbols,      \* RMT_PULSE_MONITOR_DATA_SYMBOLS
          ReadMinBits       \* RMT_PULSE_MONITOR_READ_MIN_BITS

TickNs == 25                \* LED_CONTROLLER_TICK_NS, RMT_PULSE_MONITOR_TICK_NS
MaxDuration == 32767        \* 2^15 - 1: the width of a symbol's duration

-----------------------------------------------------------------------------
(* Accepted timings.                                                       *)

IsOnStep(value, least, most, step) == value \in least..most /\ value % step = 0

\* Mutant: a period may be off the grid.
InRangeOffStep(t) ==
    /\ \A b \in {0, 1} : IsOnStep(t.high[b], 100, 1200, 25) /\ t.period[b] \in 800..2000
    /\ IsOnStep(t.reset, 50, 800, 10)

InRange(t) ==
    /\ \A b \in {0, 1} : IsOnStep(t.high[b], 100, 1200, 25) /\ IsOnStep(t.period[b], 800, 2000, 25)
    /\ IsOnStep(t.reset, 50, 800, 10)

\* ValidateWs2812Timing(): range, then the low times, then the order of the duties.
ValidateWs2812Timing(t) ==
    CASE ~InRange(t) -> "OUT_OF_RANGE"
      [] InRange(t) /\ \E b \in {0, 1} : t.period[b] - t.high[b] < 100 -> "BAD_COMBINATION"
      [] InRange(t) /\ (\A b \in {0, 1} : t.period[b] - t.high[b] >= 100)
            /\ t.high[0] * t.period[1] >= t.high[1] * t.period[0] -> "BAD_DUTY_ORDER"
      [] OTHER -> "OK"

-----------------------------------------------------------------------------
(* The frame.                                                              *)

Ws2812NsToTicks(ns) == ((ns + TickNs \div 2) \div TickNs) % 65536    \* uint16_t

\* BuildBytesEncoderConfig(): the symbol of a bit.
BitSymbol(t, bit) ==
    [level0 |-> 1, high |-> Ws2812NsToTicks(t.high[bit]),
     level1 |-> 0, low |-> Ws2812NsToTicks(t.period[bit] - t.high[bit])]

\* BuildResetSymbol(): the low after the last bit.
ResetSymbol(t) ==
    [level0 |-> 0, high |-> 0, level1 |-> 0, low |-> Ws2812NsToTicks(t.reset * 1000)]

-----------------------------------------------------------------------------
(* Measuring a frame of ours: AggregateWs2812Pulses().                     *)

Ws2812TicksToNs(ticks) == ticks * TickNs
Distance(a, b) == IF a > b THEN a - b ELSE b - a
RoundedAverage(sum, count) == IF count > 0 THEN (sum + count \div 2) \div count ELSE 0

High(s) == Ws2812TicksToNs(s.high)
Period(s) == Ws2812TicksToNs(s.high + s.low)

\* What the loop over the symbols has added up after each of them.
RunningSum(value, of) ==
    LET sum[i \in 0..DataSymbols] ==
            IF i = 0 THEN 0 ELSE sum[i - 1] + IF i \in of THEN value[i] ELSE 0
    IN sum

Average(value, of) == RoundedAverage(RunningSum(value, of)[DataSymbols], Cardinality(of))
Highs(symbols) == [i \in 1..DataSymbols |-> High(symbols[i])]
Periods(symbols) == [i \in 1..DataSymbols |-> Period(symbols[i])]

Invalid == 2                \* WS2812_SYMBOL_INVALID, next to bits 0 and 1

\* Mutant: the shorter pulse is taken for bit 0, whatever was commanded.
DecodeByMidpoint(s, t) ==
    IF s.level0 # 1 THEN Invalid
    ELSE IF 2 * High(s) <= t.high[0] + t.high[1] THEN 0 ELSE 1

\* The nearer commanded high time; on a tie, bit 0.
DecodeWs2812Symbol(s, t) ==
    IF s.level0 # 1 THEN Invalid
    ELSE IF Distance(High(s), t.high[0]) <= Distance(High(s), t.high[1]) THEN 0 ELSE 1

MatchAvailable(t) == t.high[0] # t.high[1]

\* The bit whose statistics a symbol belongs to.
StatsBit(s, t, expected) ==
    IF s.level0 = 1 /\ ~MatchAvailable(t) THEN expected ELSE DecodeWs2812Symbol(s, t)

\* The symbols of one bit: the first that has a low time, the extremes, the average.
PulseStats(symbols, t, expected, bit) ==
    LET of == {i \in 1..DataSymbols : StatsBit(symbols[i], t, expected[i]) = bit}
        highs == {High(symbols[i]) : i \in of}
        first == IF of \ {DataSymbols} = {} THEN 0 ELSE Min(of \ {DataSymbols})
    IN [firstHigh |-> IF first = 0 THEN 0 ELSE High(symbols[first]),
        firstLow  |-> IF first = 0 THEN 0 ELSE Ws2812TicksToNs(symbols[first].low),
        least     |-> IF of = {} THEN 0 ELSE Min(highs),
        most      |-> IF of = {} THEN 0 ELSE Max(highs),
        average   |-> Average(Highs(symbols), of)]

MatchCount(symbols, t, expected) ==
    IF MatchAvailable(t)
    THEN Cardinality({i \in 1..DataSymbols : DecodeWs2812Symbol(symbols[i], t) = expected[i]})
    ELSE 0

-----------------------------------------------------------------------------
(* Measuring a foreign source: AnalyzeWs2812Read().                        *)

SplitMinNs == 100           \* RMT_PULSE_MONITOR_READ_SPLIT_MIN_NS
SingleSplitNs == 625        \* RMT_PULSE_MONITOR_READ_SINGLE_SPLIT_NS

\* A pulse is high, then low.
IsPulse(s) == s.level0 = 1 /\ s.level1 = 0 /\ s.high > 0

\* Mutant: the end marker of the last symbol is taken for a low time.
UsableWithLast(symbols, count) == {i \in 1..count : IsPulse(symbols[i])}

\* IsReadSymbolUsable(): the last symbol's low is the end marker.
Usable(symbols, count) ==
    {i \in 1..(count - 1) : IsPulse(symbols[i]) /\ symbols[i].low > 0}

\* The usable symbols of bit 0: below the midpoint of the extremes, or all or none
\* if the extremes do not differ.
ReadBit0(symbols, usable) ==
    LET highs == {High(symbols[i]) : i \in usable}
        ends == Min(highs) + Max(highs)
    IN IF Max(highs) - Min(highs) >= SplitMinNs
       THEN {i \in usable : 2 * High(symbols[i]) <= ends}
       ELSE IF ends <= 2 * SingleSplitNs THEN usable ELSE {}

ReadStats(symbols, of) ==
    [count  |-> Cardinality(of),
     high   |-> Average(Highs(symbols), of),
     period |-> Average(Periods(symbols), of)]

AnalyzeWs2812Read(symbols, count) ==
    LET usable == Usable(symbols, count)
        bit0 == IF usable = {} THEN {} ELSE ReadBit0(symbols, usable)
    IN [ok   |-> Cardinality(usable) >= ReadMinBits /\ usable # {},
        bits |-> [b \in {0, 1} |-> ReadStats(symbols, IF b = 0 THEN bit0 ELSE usable \ bit0)]]
=============================================================================
