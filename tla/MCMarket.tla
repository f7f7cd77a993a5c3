------------------------------- MODULE MCMarket -------------------------------
EXTENDS MarketPipeline

\* Two timeframes, the coarse one first.
Alignments == <<[duration |-> 3, anchor |-> 0], [duration |-> 1, anchor |-> 0]>>

\* A trade of each of these times; the source begins anew after the first n.
Log(times, n) ==
  [i \in DOMAIN times |-> [name |-> i,
                           sequence |-> IF i =< n THEN i ELSE i - n, at |-> times[i]]]
\* Gaps: one trade ends candles of both timeframes, at different boundaries.
Sparse == {Log(<<0, 3, 6, 9>>, 4)}
Feeds ==
  Sparse \union {Log(times, n) : times \in {t \in [1..4 -> 0..4] : \A i \in 1..3 : t[i] =< t[i + 1]}, n \in {2, 4}}
Regular == {Log(<<0, 1, 2, 4>>, 4)}
=============================================================================
