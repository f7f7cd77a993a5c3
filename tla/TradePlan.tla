------------------------------ MODULE TradePlan ------------------------------
(* From a candle to a plan, and what the plans of a day may cost: the pure     *)
(* engines of Setups and TradeDecision along a chart that grows, decided on    *)
(* once per boundary and prepared once per intent (realtime-decision-engine    *)
(* and realtime-execution-preparation-engine see to it: MarketPipeline).       *)
(*                                                                             *)
(* The account is the caller's, who counts plans that may still be filled as   *)
(* open positions, and a position ends at its stop or at its target, at the    *)
(* assumed costs.                                                              *)
EXTENDS TradeDecision

CONSTANTS
  Charts,    \* the charts to begin with: sequences of shapes
  Shapes,    \* what the next candle may be: [low, high, close, gap]
  Requests,  \* risk amounts asked for
  Groups,    \* risk groups asked for
  Quotes,    \* quotes: [bid, ask, age], as of age candles ago
  History,   \* candles a frame keeps of the setup timeframe
  DayStart,  \* equity at the start of the day
  MaxLength  \* bound: candles of a chart

\* A candle closes at one of its trades: candle-engine keeps their extremes.
ShapeOfCandle == {c \in [low : Nat, high : Nat, close : Nat, gap : BOOLEAN] :
                    c.low =< c.close /\ c.close =< c.high}

ASSUME PlanAssumption ==
  /\ Shapes \subseteq ShapeOfCandle /\ Charts \subseteq Seq(ShapeOfCandle)
  /\ Requests \subseteq Nat /\ DayStart \in Nat \ {0}
  /\ History \in Nat /\ History >= Structure.lookback

VARIABLES
  chart,     \* final candles of the setup timeframe
  equity,    \* of the account
  decision,  \* the last one
  book       \* plans, and positions they became: plan and whether it is filled

vars == <<chart, equity, decision, book>>

NoDecision == [status |-> "NO_DECISION", at |-> 0]
At(shape, t) == [at |-> t, low |-> shape.low, high |-> shape.high, close |-> shape.close, gap |-> shape.gap]
Now(candles) == Last(candles).at

Frame(candles) == IF Len(candles) =< History THEN candles ELSE Window(candles, History)

\* The context timeframe: a candle of two, final with the second; a trade that
\* its source flags marks the candles of both timeframes.
Context(candles) ==
  [k \in 1..(Len(candles) \div 2) |->
     LET a == candles[2 * k - 1]  b == candles[2 * k]
     IN  [at |-> b.at, low |-> Min({a.low, b.low}), high |-> Max({a.high, b.high}),
          close |-> b.close, gap |-> a.gap \/ b.gap]]

SetupsOf(candles) == Setups(Context(candles), Frame(candles))

Account == [equity |-> equity, dayStart |-> DayStart, open |-> book]
-----------------------------------------------------------------------------
Init == /\ chart \in {[t \in DOMAIN c |-> At(c[t], t)] : c \in Charts}
        /\ equity = DayStart /\ decision = NoDecision /\ book = {}

NextCandle(shape) ==
  /\ Len(chart) < MaxLength
  /\ chart' = Append(chart, At(shape, Len(chart) + 1))
  /\ UNCHANGED <<equity, decision, book>>

Decide ==
  /\ decision.at < Now(chart)
  /\ LET setups == SetupsOf(chart)
     IN  \E requested \in Requests, groups \in Groups :
           decision' = Decision(Now(chart), setups, Frame(chart), Account, requested, groups)
  /\ UNCHANGED <<chart, equity, book>>

Prepare(quote) ==
  /\ decision.status = "TRADE_INTENT_CREATED"
  /\ Preparable(decision, [bid |-> quote.bid, ask |-> quote.ask, at |-> Now(chart) - quote.age], Now(chart))
  /\ book' = book \union {[plan |-> Plan(decision, Now(chart)), at |-> decision.at, risk |-> decision.risk,
                           groups |-> decision.groups, filled |-> FALSE]}
  /\ decision' = [status |-> "PREPARED", at |-> decision.at]
  /\ UNCHANGED <<chart, equity>>

Enter(p) ==
  /\ ~p.filled
  /\ book' = (book \ {p}) \union {[p EXCEPT !.filled = TRUE]}
  /\ UNCHANGED <<chart, equity, decision>>

Expire(p) ==
  /\ ~p.filled
  /\ book' = book \ {p}
  /\ UNCHANGED <<chart, equity, decision>>

\* What a position costs at its stop and brings at its target.
LossAtStop(p) ==
  p.quantity * Sizing.value * (Whole * Abs(p.entry - p.stop) + Costs.entry * p.entry + Costs.stop * p.stop)
GainAtTarget(p) ==
  p.quantity * Sizing.value * (Whole * Abs(p.target - p.entry) - Costs.entry * p.entry - Costs.target * p.target)

Leave(p, amount) ==
  /\ p.filled
  /\ equity' = equity + amount
  /\ book' = book \ {p}
  /\ UNCHANGED <<chart, decision>>

Next ==
  \/ \E shape \in Shapes : NextCandle(shape)
  \/ Decide
  \/ \E quote \in Quotes : Prepare(quote)
  \/ \E p \in book : \/ Enter(p) \/ Expire(p)
                     \/ Leave(p, -LossAtStop(p.plan)) \/ Leave(p, GainAtTarget(p.plan))

Spec == Init /\ [][Next]_vars
-----------------------------------------------------------------------------
(* Reference definitions, from the chart alone.                                *)

\* Candle i is higher (lower) than its neighbours, all of them known at candle n.
Peak(w, i, n) == /\ i - Structure.left >= 1 /\ i + Structure.right =< n
                 /\ \A k \in (i - Structure.left)..(i + Structure.right) : k # i => w[k].high < w[i].high
Trough(w, i, n) == /\ i - Structure.left >= 1 /\ i + Structure.right =< n
                   /\ \A k \in (i - Structure.left)..(i + Structure.right) : k # i => w[k].low > w[i].low

\* Peaks (troughs) known at candle n that nothing traded through before candle m.
Highs(w, n, m) == {i \in DOMAIN w : Peak(w, i, n) /\ \A k \in i..(m - 1) : w[k].high =< w[i].high}
Lows(w, n, m) == {i \in DOMAIN w : Trough(w, i, n) /\ \A k \in i..(m - 1) : w[k].low >= w[i].low}

Decided == decision.status = "TRADE_INTENT_CREATED" /\ decision.at = Now(chart)

\* A trade aims at the nearest swing beyond its entry that the market has not
\* traded through since, in the window the decision was taken on; and a sequence
\* enters on the close through a swing that was known, and untouched, when the
\* sweep that its stop rests on took an older one: nothing of it is hindsight
\* (structure-engine analyzer.ts, setup-engine levelFor and laterBreak,
\* risk-engine orderedTargets).
TargetsAreUntouched ==
  Decided =>
    LET w == Window(chart, Structure.lookback)  n == Len(w)
        up == decision.direction = "UP"
        Index(t) == CHOOSE i \in DOMAIN w : w[i].at = t
        begun == Index(decision.setup.initiation.at)
        entered == Index(decision.setup.confirmedAt)
        targets == IF up THEN {w[i].high : i \in Highs(w, n, n + 1)} ELSE {w[i].low : i \in Lows(w, n, n + 1)}
        beyond == {t \in targets : Beyond(t, decision.entry, decision.direction)}
    IN  /\ decision.target \in beyond
        /\ \A t \in beyond : ~Beyond(decision.target, t, decision.direction)
        /\ decision.entry = w[entered].close
        /\ decision.setup.family # "BREAKOUT_RETEST" =>
             IF up
             THEN /\ \E i \in Lows(w, begun - 1, begun) : w[begun].low < w[i].low /\ w[begun].close >= w[i].low
                  /\ \E i \in Highs(w, begun, entered) : decision.entry > w[i].high
                  /\ decision.stop = w[begun].low
             ELSE /\ \E i \in Highs(w, begun - 1, begun) : w[begun].high > w[i].high /\ w[begun].close =< w[i].high
                  /\ \E i \in Lows(w, begun, entered) : decision.entry < w[i].low
                  /\ decision.stop = w[begun].high

Opposite(direction) == IF direction = "UP" THEN "DOWN" ELSE "UP"
Mirrored(candles) ==
  LET axis == Max({c.high : c \in Range(candles)}) + Min({c.low : c \in Range(candles)})
  IN  [i \in DOMAIN candles |-> [candles[i] EXCEPT !.low = axis - candles[i].high,
                                   !.high = axis - candles[i].low, !.close = axis - candles[i].close]]
\* What is read from a chart: distances from the entry, whichever the direction.
Reading(candles, Name(_)) ==
  {[family |-> s.family, direction |-> Name(s.direction), begun |-> s.initiation.at,
    known |-> s.initiation.level.confirmedAt, confirmedAt |-> s.confirmedAt,
    risk |-> Abs(Entry(s, Frame(candles)) - Invalidation(s, Frame(candles))),
    rewards |-> {Abs(t - Entry(s, Frame(candles))) : t \in Targets(s, Frame(candles))}] :
   s \in Confirmed(SetupsOf(candles))}

\* The engines read a falling market as they read a rising one: what they find
\* on a chart turned upside down is what they found, with the directions
\* exchanged (each rule is written twice, in comparisons of opposite signs:
\* structure-engine eventType and isPivot, setup-engine breakoutCandidate).
UpMirrorsDown ==
  Reading(Mirrored(chart), Opposite) = Reading(chart, LAMBDA d : d)

\* An intent loses at its stop, costs included, no more than the limit of a
\* trade; and whatever plans are filled and stopped out, in any order, the day
\* ends above what the limits of the daily loss and of the open risk leave
\* (position-sizing-engine sizePosition, portfolio-risk-engine
\* evaluatePortfolioRisk, from netRisk of risk-engine).
LossIsBounded ==
  /\ decision.status = "TRADE_INTENT_CREATED" =>
       LossAtStop(decision) * Whole =< decision.equity * Limits.perTrade
  /\ (equity - SumFunction([p \in book |-> LossAtStop(p.plan)])) * Whole * Whole
       >= DayStart * (Whole - Limits.dailyLoss) * (Whole - Limits.total)
=============================================================================
