-------------------------- MODULE MCWs2812Loopback --------------------------
(* Ws2812Loopback on short frames and on timings at the limits of the rules.*)
EXTENDS Ws2812Loopback

\* In and out of range, on and off the grid, equal, a tick apart, inverted, and at the
\* limits of a Read: 100 ns apart, 150 ns with a tick of jitter, 625 ns for one bit.
MCTimings ==
    [high : [{0, 1} -> {100, 400, 410, 425, 500, 625, 650, 1200}],
     period : [{0, 1} -> {800, 1260, 1300, 2000}],
     reset : {800, 810}]
=============================================================================
