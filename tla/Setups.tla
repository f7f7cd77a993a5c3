-------------------------------- MODULE Setups --------------------------------
(* From finalized candles to setup candidates: classifyMarketRegime of         *)
(* regime-engine, analyzeMarketStructure of structure-engine and               *)
(* evaluatePositionSetups of setup-engine.                                     *)
(*                                                                             *)
(* A candle is [at, high, low, close, gap], at its close time; gap stands for  *)
(* GAP_DETECTED among its quality flags.  Prices are integers: the code        *)
(* compares and adds decimals exactly.  Candles come final, in order and of    *)
(* one instrument; what the evaluators refuse is a gap, or too few of them.    *)
EXTENDS Integers, FiniteSets, SequencesExt, Selections

CONSTANTS
  Structure,  \* StructureConfig: [lookback, left, right]
  Regime,     \* RegimeConfig, its ratios in parts of Whole
  Allowed,    \* PositionSetupConfig: the regimes that allow each family
  Whole,      \* what a ratio is a part of: 10,000 basis points in the code
  NoEvent     \* nothing found

ASSUME StructureAssumption ==
  /\ Structure.left \in Nat \ {0} /\ Structure.right \in Nat \ {0}
  /\ Whole \in Nat \ {0}
  /\ Structure.lookback \in Nat /\ Structure.lookback >= Structure.left + Structure.right + 1
  /\ NoEvent \notin {"CLOSE_BREAK_ABOVE", "SWEEP_ABOVE_RECLAIM", "CLOSE_BREAK_BELOW", "SWEEP_BELOW_RECLAIM"}

Window(candles, n) == SubSeq(candles, Len(candles) - n + 1, Len(candles))
Holes(candles) == \E i \in DOMAIN candles : candles[i].gap
Total(s) == LET sum[i \in 0..Len(s)] == IF i = 0 THEN 0 ELSE sum[i - 1] + s[i] IN sum[Len(s)]
Abs(n) == IF n < 0 THEN -n ELSE n
-----------------------------------------------------------------------------
(* Regime of the context timeframe.                                            *)

RegimeBars == LET volatility == Regime.baseline + Regime.recent + 1
              IN  IF Regime.trend > volatility THEN Regime.trend ELSE volatility

Moves(candles) == [i \in 1..(Len(candles) - 1) |-> candles[i + 1].close - candles[i].close]

TrueRanges(candles) ==
  [i \in 1..(Len(candles) - 1) |->
     LET c == candles[i + 1]  prior == candles[i].close
     IN  Max({c.high - c.low, Abs(c.high - prior), Abs(c.low - prior)})]

\* A ratio in parts of Whole, rounded down.
Ratio(part, whole) == IF whole = 0 THEN 0 ELSE (Whole * part) \div whole

\* The mean recent range over the mean range before.
Volatility(candles) ==
  LET ranges == TrueRanges(Window(candles, Regime.baseline + Regime.recent + 1))
      base == Total(SubSeq(ranges, 1, Regime.baseline)) * Regime.recent
      recent == Total(Window(ranges, Regime.recent)) * Regime.baseline
      Compressed == IF base = 0 THEN recent = 0 /\ Regime.compression >= Whole
                    ELSE Whole * recent =< Regime.compression * base
      Expanded == IF base = 0 THEN recent > 0 \/ Regime.expansion =< Whole
                  ELSE Whole * recent >= Regime.expansion * base
  IN  IF Compressed THEN "COMPRESSION" ELSE IF Expanded THEN "EXPANSION" ELSE "NORMAL"

Direction(candles) ==
  LET move == Total(Moves(Window(candles, Regime.trend)))
  IN  IF move > 0 THEN "UP" ELSE IF move < 0 THEN "DOWN" ELSE "NEUTRAL"

PrimaryRegime(candles) ==
  LET moves == Moves(Window(candles, Regime.trend))
      net == Total(moves)
      Count(Test(_)) == Len(SelectSeq(moves, Test))
      up == Count(LAMBDA m : m > 0)  down == Count(LAMBDA m : m < 0)
      efficiency == Ratio(Abs(net), Total([i \in DOMAIN moves |-> Abs(moves[i])]))
      consistency == Ratio(IF net > 0 THEN up ELSE IF net < 0 THEN down ELSE 0, up + down)
      trending == efficiency >= Regime.efficiency /\ consistency >= Regime.consistency
  IN  CASE Volatility(candles) # "NORMAL" -> Volatility(candles)
        [] Volatility(candles) = "NORMAL" /\ trending /\ net > 0 -> "TREND_UP"
        [] Volatility(candles) = "NORMAL" /\ trending /\ net < 0 -> "TREND_DOWN"
        [] OTHER -> IF efficiency =< Regime.rangeEfficiency /\ consistency =< Regime.rangeConsistency
                    THEN "RANGE" ELSE "TRANSITION"
-----------------------------------------------------------------------------
(* Structure: swings, the levels they leave, and what became of them.          *)

\* A swing is strictly beyond its neighbours.
IsPivot(w, p, kind) ==
  \A k \in (p - Structure.left)..(p + Structure.right) : k # p =>
    IF kind = "HIGH" THEN w[p].high > w[k].high ELSE w[p].low < w[k].low

\* What a candle does to an active level.
EventType(level, c) ==
  IF level.side = "BUY_SIDE"
  THEN IF c.close > level.price THEN "CLOSE_BREAK_ABOVE"
       ELSE IF c.high > level.price THEN "SWEEP_ABOVE_RECLAIM" ELSE NoEvent
  ELSE IF c.close < level.price THEN "CLOSE_BREAK_BELOW"
       ELSE IF c.low < level.price THEN "SWEEP_BELOW_RECLAIM" ELSE NoEvent

LevelOf(c, kind, confirmedAt) ==
  [side |-> IF kind = "HIGH" THEN "BUY_SIDE" ELSE "SELL_SIDE",
   price |-> IF kind = "HIGH" THEN c.high ELSE c.low,
   swing |-> <<kind, c.at>>, confirmedAt |-> confirmedAt, status |-> "ACTIVE"]

Resolved(level, c) ==
  CASE level.status # "ACTIVE" \/ EventType(level, c) = NoEvent -> level
    [] OTHER -> [level EXCEPT !.status =
         IF EventType(level, c) \in {"CLOSE_BREAK_ABOVE", "CLOSE_BREAK_BELOW"} THEN "BROKEN" ELSE "SWEPT"]

\* One candle: it resolves levels, then the swing it confirms leaves a new one.
Step(w, s, i) ==
  LET c == w[i]  p == i - Structure.right
      kinds == <<"HIGH", "LOW">>
      hit == Those(s.levels, {k \in DOMAIN s.levels : Resolved(s.levels[k], c) # s.levels[k]})
      found == Those(kinds, {k \in DOMAIN kinds : p > Structure.left /\ IsPivot(w, p, kinds[k])})
  IN  [levels |-> [k \in DOMAIN s.levels |-> Resolved(s.levels[k], c)]
                    \o [k \in DOMAIN found |-> LevelOf(w[p], found[k], c.at)],
       events |-> s.events \o [k \in DOMAIN hit |->
                    [type |-> EventType(hit[k], c), at |-> c.at, level |-> hit[k]]]]

\* [levels, events] of the last candles.
MarketStructure(candles) ==
  LET w == Window(candles, Structure.lookback)
      After[i \in 0..Len(w)] == IF i = 0 THEN [levels |-> <<>>, events |-> <<>>]
                                ELSE Step(w, After[i - 1], i)
  IN  After[Len(w)]
-----------------------------------------------------------------------------
(* Setups.                                                                     *)

\* The latest event of a type.
Latest(events, type) ==
  LET found == {i \in DOMAIN events : events[i].type = type}
  IN  IF found = {} THEN NoEvent ELSE events[Max(found)]

\* Mutant: a level that was confirmed after the sweep may be broken.
AnyLaterBreak(events, initiation, type) ==
  LET found == {i \in DOMAIN events : events[i].type = type /\ events[i].at > initiation.at}
  IN  IF found = {} THEN NoEvent ELSE events[Min(found)]
\* The first later break of a level that was known when the setup began.
LaterBreak(events, initiation, type) ==
  LET found == {i \in DOMAIN events : /\ events[i].type = type /\ events[i].at > initiation.at
                                      /\ events[i].level.confirmedAt =< initiation.at}
  IN  IF found = {} THEN NoEvent ELSE events[Min(found)]

Candidate(family, direction, initiation, confirmedAt) ==
  [family |-> family, direction |-> direction, initiation |-> initiation, confirmedAt |-> confirmedAt]

\* Mutant: a falling retest need not reach the level.
RetestsLoosely(c, price, direction) ==
  IF direction = "UP" THEN c.low =< price /\ c.close >= price ELSE c.close =< price
\* A candle comes back to the level and closes beyond it again.
Retests(c, price, direction) ==
  IF direction = "UP" THEN c.low =< price /\ c.close >= price
                      ELSE c.high >= price /\ c.close =< price

SequenceCandidate(family, direction, events) ==
  LET up == direction = "UP"
      initiation == Latest(events, IF up THEN "SWEEP_BELOW_RECLAIM" ELSE "SWEEP_ABOVE_RECLAIM")
      break == LaterBreak(events, initiation, IF up THEN "CLOSE_BREAK_ABOVE" ELSE "CLOSE_BREAK_BELOW")
  IN  IF initiation = NoEvent THEN {}
      ELSE {Candidate(family, direction, initiation, IF break = NoEvent THEN NoEvent ELSE break.at)}

BreakoutCandidate(direction, events, candles) ==
  LET initiation == Latest(events, IF direction = "UP" THEN "CLOSE_BREAK_ABOVE" ELSE "CLOSE_BREAK_BELOW")
      retest == {i \in DOMAIN candles : /\ candles[i].at > initiation.at
                                        /\ Retests(candles[i], initiation.level.price, direction)}
  IN  IF initiation = NoEvent THEN {}
      ELSE {Candidate("BREAKOUT_RETEST", direction, initiation,
                      IF retest = {} THEN NoEvent ELSE candles[Min(retest)].at)}

\* The candidates of a frame: none when it is too short or has a hole.
Setups(context, candles) ==
  LET ready == /\ Len(context) >= RegimeBars /\ ~Holes(Window(context, RegimeBars))
               /\ Len(candles) >= Structure.lookback /\ ~Holes(candles)
      regime == PrimaryRegime(context)  trend == Direction(context)
      events == MarketStructure(candles).events
      Sequences(family, directions) == UNION {SequenceCandidate(family, d, events) : d \in directions}
      Breakouts == UNION {BreakoutCandidate(d, events, candles) :
                            d \in {"UP", "DOWN"} \ (IF trend = "UP" THEN {"DOWN"}
                                                    ELSE IF trend = "DOWN" THEN {"UP"} ELSE {})}
  IN  IF ~ready THEN {} ELSE
        (IF regime \in Allowed.continuation
         THEN Sequences("TREND_PULLBACK_CONTINUATION", {trend} \ {"NEUTRAL"}) ELSE {})
        \union (IF regime \in Allowed.breakout THEN Breakouts ELSE {})
        \union (IF regime \in Allowed.reversal
                THEN Sequences("LIQUIDITY_SWEEP_REVERSAL", {"UP", "DOWN"}) ELSE {})

\* What a decision may act upon.
Confirmed(setups) == {s \in setups : s.confirmedAt # NoEvent}
=============================================================================
