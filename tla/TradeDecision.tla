---------------------------- MODULE TradeDecision ----------------------------
(* From a setup to an executable plan: qualifyStructuralRisk of risk-engine,   *)
(* evaluatePortfolioRisk of portfolio-risk-engine, sizePosition of             *)
(* position-sizing-engine, createTradeIntent of trade-intent-engine and        *)
(* prepareExecutionPlan of execution-preparation-engine.                       *)
(*                                                                             *)
(* Exact decimals are integers: prices count units, quantities count steps of  *)
(* the sizing and money, with costs that are ratios of prices, counts          *)
(* Whole-ths.  One instrument; Sizing.value is what a unit of price is worth   *)
(* per step, in the account's currency.                                        *)
EXTENDS Setups

CONSTANTS
  Costs,          \* RiskCostAssumptions: [entry, target, stop], in parts of Whole
  MinimumReward,  \* minimumNetRewardRiskBps
  Limits,         \* PortfolioRiskConfig: [perTrade, total, positions, dailyLoss, groups]
  Sizing,         \* LinearInstrumentSizingSpec: [value, minimum, maximum]
  Execution       \* InstrumentExecutionSpec and ExecutionPreparationConfig:
                  \* [tick, step, minimum, maximum, intentAge, quoteAge, deviation]

ASSUME DecisionAssumption ==
  /\ Costs.entry \in Nat /\ Costs.target \in Nat /\ Costs.stop \in Nat
  /\ MinimumReward \in Nat /\ MinimumReward >= 3 * Whole
  /\ Limits.total \in 1..Whole /\ Limits.perTrade \in 1..Limits.total
  /\ Limits.positions > 0 /\ Limits.dailyLoss \in 1..Whole
  /\ \A g \in DOMAIN Limits.groups : Limits.groups[g] \in 1..Limits.total
  /\ Sizing.value \in Nat \ {0} /\ Sizing.minimum \in Nat \ {0} /\ Sizing.maximum \in Nat

Beyond(a, b, direction) == IF direction = "UP" THEN a > b ELSE a < b
-----------------------------------------------------------------------------
CandleAt(candles, t) == candles[CHOOSE i \in DOMAIN candles : candles[i].at = t]

Entry(s, candles) == CandleAt(candles, s.confirmedAt).close

\* The extreme of the sweep's candle, or of the retest's.
Invalidation(s, candles) ==
  LET c == CandleAt(candles, IF s.family = "BREAKOUT_RETEST" THEN s.confirmedAt ELSE s.initiation.at)
  IN  IF s.direction = "UP" THEN c.low ELSE c.high

\* Levels beyond the entry that nothing has resolved.
Targets(s, candles) ==
  {l.price : l \in {k \in Range(MarketStructure(candles).levels) :
     /\ k.status = "ACTIVE" /\ k.side = (IF s.direction = "UP" THEN "BUY_SIDE" ELSE "SELL_SIDE")
     /\ Beyond(k.price, Entry(s, candles), s.direction)}}

Target(s, candles) == IF s.direction = "UP" THEN Min(Targets(s, candles)) ELSE Max(Targets(s, candles))

\* In Whole-ths of a price unit.
NetRisk(entry, stop) == Whole * Abs(entry - stop) + entry * Costs.entry + stop * Costs.stop
NetReward(entry, target) == Whole * Abs(target - entry) - entry * Costs.entry - target * Costs.target

Qualified(s, candles) ==
  LET entry == Entry(s, candles)  stop == Invalidation(s, candles)  target == Target(s, candles)
  IN  /\ Beyond(entry, stop, s.direction)
      /\ Targets(s, candles) # {}
      /\ NetReward(entry, target) > 0
      /\ NetReward(entry, target) * Whole >= NetRisk(entry, stop) * MinimumReward
-----------------------------------------------------------------------------
\* An account is [equity, dayStart, open]; an open position has its risk at the
\* stop and its risk groups.
SumRisk(open) == SumFunction([p \in open |-> p.risk])

Within(amount, equity, limit) == amount * Whole =< equity * limit

\* The rest is DATA_REJECTED: money that is not positive, a position in no risk
\* group, a group without a limit.
DataAccepted(account, requested, groups) ==
  /\ account.equity > 0 /\ account.dayStart > 0 /\ requested > 0
  /\ \A p \in account.open : p.groups # {}
  /\ groups \union UNION {p.groups : p \in account.open} \subseteq DOMAIN Limits.groups

\* Mutant: the limit of all positions is looked at one by one.
EligibleAlone(account, requested, groups) ==
  LET loss == IF account.equity >= account.dayStart THEN 0 ELSE account.dayStart - account.equity
  IN  /\ DataAccepted(account, requested, groups)
      /\ loss * Whole < account.dayStart * Limits.dailyLoss
      /\ Cardinality(account.open) < Limits.positions
      /\ Within(requested, account.equity, Limits.perTrade)
Eligible(account, requested, groups) ==
  LET loss == IF account.equity >= account.dayStart THEN 0 ELSE account.dayStart - account.equity
      Group(g) == {p \in account.open : g \in p.groups}
  IN  /\ DataAccepted(account, requested, groups)
      /\ loss * Whole < account.dayStart * Limits.dailyLoss
      /\ Cardinality(account.open) < Limits.positions
      /\ Within(requested, account.equity, Limits.perTrade)
      /\ Within(SumRisk(account.open) + requested, account.equity, Limits.total)
      /\ \A g \in groups : Within(SumRisk(Group(g)) + requested, account.equity, Limits.groups[g])

\* What a step of quantity loses at the stop, in the account's currency.
RiskPerStep(entry, stop) == NetRisk(entry, stop) * Sizing.value

\* The steps a budget pays for, at most the instrument's maximum.
Steps(budget, riskPerStep) == Min({budget \div riskPerStep, Sizing.maximum})
-----------------------------------------------------------------------------
\* The outcome of a decision on the setups of a boundary; an intent comes with
\* the equity it was granted against.
Decision(at, setups, candles, account, requested, groups) ==
  LET s == CHOOSE x \in Confirmed(setups) : TRUE
      entry == Entry(s, candles)  stop == Invalidation(s, candles)
      riskPerStep == RiskPerStep(entry, stop)
      quantity == Steps(requested, riskPerStep)
  IN  IF Confirmed(setups) = {} THEN [status |-> "NO_DECISION", at |-> at]
      ELSE IF Cardinality(Confirmed(setups)) > 1 \/ ~Qualified(s, candles)
              \/ ~Eligible(account, requested, groups) \/ quantity < Sizing.minimum
      THEN [status |-> "DECISION_REJECTED", at |-> at]
      ELSE [status |-> "TRADE_INTENT_CREATED", at |-> at, setup |-> s, direction |-> s.direction,
            entry |-> entry, stop |-> stop, target |-> Target(s, candles),
            quantity |-> quantity, risk |-> quantity * riskPerStep, groups |-> groups,
            equity |-> account.equity]

\* May an intent still be executed, at a time and with a quote?
Preparable(intent, quote, at) ==
  LET up == intent.direction = "UP"
      executable == IF up THEN quote.ask ELSE quote.bid
  IN  /\ quote.at \in intent.at..at
      /\ at - intent.at =< Execution.intentAge /\ at - quote.at =< Execution.quoteAge
      /\ \A price \in {intent.entry, intent.stop, intent.target} : price % Execution.tick = 0
      /\ intent.quantity \in Execution.minimum..Execution.maximum
      /\ intent.quantity % Execution.step = 0
      /\ IF up THEN quote.bid > intent.stop /\ quote.ask < intent.target
               ELSE quote.ask < intent.stop /\ quote.bid > intent.target
      /\ Abs(executable - intent.entry) * Whole =< Execution.deviation * intent.entry

\* The orders of a plan: a limit to open, a stop and a limit to close.
Plan(intent, at) ==
  [at |-> intent.at, preparedAt |-> at, direction |-> intent.direction, entry |-> intent.entry,
   stop |-> intent.stop, target |-> intent.target, quantity |-> intent.quantity,
   risk |-> intent.risk, groups |-> intent.groups]
=============================================================================
