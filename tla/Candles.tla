------------------------------- MODULE Candles -------------------------------
(* The pure part of market-data: the candle bucket of a trade, one step of     *)
(* TradeToCandleBuilder, and the restoration of a finalized candle from        *)
(* recovery evidence.                                                          *)
(*                                                                             *)
(* A candle is kept as the trades it aggregates, in their order: open, high,   *)
(* low, close, volume, count and quality are functions of them.  The gap flag, *)
(* which a trade does not carry, is a field of its own.  A timeframe is its    *)
(* duration and its anchor.                                                    *)
EXTENDS Integers, FiniteSets, SequencesExt, Selections

CONSTANT NoCandle   \* a builder that has taken in no trade, or no restored candle

BucketOpen(tf, t) == ((t - tf.anchor) \div tf.duration) * tf.duration + tf.anchor
CloseTime(tf, c) == c.from + tf.duration

Opened(tf, e, gap) == [from |-> BucketOpen(tf, e.at), trades |-> <<e>>, gap |-> gap]

\* Does e end the builder's current candle c?
Finalizes(tf, c, e) == c # NoCandle /\ BucketOpen(tf, e.at) # c.from

\* Mutant: the gap flag is set by a missing trade, not by a missing bucket.
AccumulatedLoosely(tf, c, e) ==
  IF c = NoCandle THEN Opened(tf, e, FALSE)
  ELSE IF Finalizes(tf, c, e) THEN Opened(tf, e, e.at > CloseTime(tf, c))
  ELSE [c EXCEPT !.trades = Append(@, e)]
\* The builder's current candle after e, which is not earlier than its trades.
Accumulated(tf, c, e) ==
  IF c = NoCandle THEN Opened(tf, e, FALSE)
  ELSE IF Finalizes(tf, c, e) THEN Opened(tf, e, BucketOpen(tf, e.at) > CloseTime(tf, c))
  ELSE [c EXCEPT !.trades = Append(@, e)]

\* A builder [current, closed] that takes in one trade more, and the candles that
\* a new builder finalizes on the way through these trades.
Processed(tf, b, e) ==
  [current |-> Accumulated(tf, b.current, e),
   closed |-> IF Finalizes(tf, b.current, e) THEN Append(b.closed, b.current) ELSE b.closed]
Finalized(tf, trades) ==
  FoldLeft(LAMBDA b, e : Processed(tf, b, e), [current |-> NoCandle, closed |-> <<>>], trades).closed

\* Mutant: the trade before the target is not replayed.
ReplayedTarget(previous, trades, witness) == trades \o <<witness>>
Replayed(previous, trades, witness) == <<previous>> \o trades \o <<witness>>

\* restoreFinalizedCandleSnapshot: the candle that opened at the target, from the
\* trade accepted before it, its own trades and a later one that ended it.
Restored(tf, target, previous, trades, witness) ==
  LET events == Replayed(previous, trades, witness)
      closed == Finalized(tf, events)
      found == {n \in DOMAIN closed : closed[n].from = target}
  IN  IF /\ trades # <<>>
         /\ IsInjective([i \in DOMAIN events |-> events[i].name])
         /\ previous.at < target
         /\ \A i, j \in DOMAIN events : i < j => events[i].at =< events[j].at
         /\ \A i \in DOMAIN trades : BucketOpen(tf, trades[i].at) = target
         /\ BucketOpen(tf, witness.at) > target
         /\ Cardinality(found) = 1
      THEN closed[Min(found)] ELSE NoCandle
=============================================================================
