----------------------------- MODULE MCTradePlan -----------------------------
(* A small day of TradePlan: charts around a trade, both ways up, and the      *)
(* candles that make it, spoil it or end it.                                   *)
EXTENDS TradePlan

Candle(low, high, close) == [low |-> low, high |-> high, close |-> close, gap |-> FALSE]
Flip(c) == [c EXCEPT !.low = 50 - c.high, !.high = 50 - c.low, !.close = 50 - c.close]

Quiet == <<Candle(20, 22, 21), Candle(20, 22, 20), Candle(20, 22, 21), Candle(19, 40, 19)>>
\* A peak, a trough and a lower peak.
BeforeSweep == Quiet \o <<Candle(18, 20, 19), Candle(19, 21, 20), Candle(19, 20, 19)>>
\* A peak and a lower one.
BeforeBreak == Quiet \o <<Candle(18, 20, 20), Candle(20, 22, 21), Candle(20, 21, 21)>>
\* A peak that is known only after the sweep.
AfterSweep == <<Candle(20, 22, 21), Candle(20, 22, 20), Candle(18, 22, 19), Candle(19, 40, 19),
                Candle(17, 20, 19), Candle(18, 21, 20), Candle(19, 20, 19)>>
MCCharts == LET up == {BeforeSweep, BeforeBreak, AfterSweep}
            IN  up \union {[i \in DOMAIN BeforeSweep |-> Flip(BeforeSweep[i])]}

Rising == {Candle(17, 20, 19), Candle(17, 20, 20), Candle(19, 22, 22), Candle(21, 23, 23), Candle(21, 23, 22),
           Candle(20, 41, 22)}
Falling == {Flip(c) : c \in {Candle(17, 20, 19), Candle(17, 20, 20), Candle(19, 22, 22)}}
MCShapes == Rising \union Falling \union {[Candle(20, 22, 21) EXCEPT !.gap = TRUE]}

MCQuotes == {[bid |-> b, ask |-> b + 1, age |-> a] : b \in {21, 22, 27, 40}, a \in {0, 1}}

MCStructure == [lookback |-> 8, left |-> 1, right |-> 1]
MCRegime == [trend |-> 3, baseline |-> 1, recent |-> 2, efficiency |-> 60, consistency |-> 60,
             rangeEfficiency |-> 30, rangeConsistency |-> 60, compression |-> 10, expansion |-> 300]
MCAllowed == [continuation |-> {"TREND_UP", "TREND_DOWN"},
              breakout |-> {"TREND_UP", "TREND_DOWN", "EXPANSION", "TRANSITION", "RANGE"},
              reversal |-> {"RANGE", "TRANSITION", "COMPRESSION"}]
MCCosts == [entry |-> 1, target |-> 1, stop |-> 1]
MCLimits == [perTrade |-> 3, total |-> 3, positions |-> 2, dailyLoss |-> 2, groups |-> [g |-> 2, h |-> 3]]
MCSizing == [value |-> 1, minimum |-> 1, maximum |-> 12]
MCExecution == [tick |-> 1, step |-> 1, minimum |-> 1, maximum |-> 12,
                intentAge |-> 1, quoteAge |-> 1, deviation |-> 10]
=============================================================================
