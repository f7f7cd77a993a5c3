----------------------------- MODULE MarketProofs -----------------------------
(* Theorems about the market pipeline, for every configuration of timeframes   *)
(* and windows and every log of trades.                                        *)
(*                                                                             *)
(* Ingestion: the window of recent identities is, position by position, the    *)
(* end of what was accepted, so what has the same identity in an epoch is a    *)
(* window apart; times and, where the source numbers them, numbers do not run  *)
(* back.  From that follow CountedOnce and, as a candle's bucket is one of a   *)
(* time the stream has reached, CandlesAreTheTrades; and as a candle has its   *)
(* trades only, RestorationAgrees, for the replay of evidence goes through the *)
(* same builder.                                                               *)
(*                                                                             *)
(* Analysis: batches ascend, so what closed by a boundary is a beginning of    *)
(* the finalized candles and a history the newest of it.  From that            *)
(* FramesAreWhole.                                                             *)
(*                                                                             *)
(* Decision and preparation: what was published ascends up to the boundary of  *)
(* its engine, which alone decides what may follow.  From that PreparedOnce.   *)
EXTENDS MarketPipeline, FiniteSetTheorems, WellFoundedInduction, TLAPS
-----------------------------------------------------------------------------
(* Induction.  The least member of a set of numbers stands for the rule, which *)
(* takes an operator; a lemma that is proved by induction names the set of the *)
(* numbers that it holds for.                                                  *)

Before == OpToRel(<, Nat)

LEMMA LeastMember ==
  ASSUME NEW T, T \subseteq Nat, T # {}
  PROVE  \E m \in T : \A k \in T : m =< k
<1>1. IsWellFoundedOn(Before, Nat)
  BY NatLessThanWellFounded, Zenon DEF Before
<1>2. PICK m \in T : \A k \in T : ~(<<k, m>> \in Before)
  BY <1>1, WFMin
<1>3. \A k, n \in Nat : k < n => <<k, n>> \in Before
  BY DEF Before, OpToRel
<1>4. \A k \in T : ~(k < m)
  BY <1>2, <1>3
<1>5. m \in Nat /\ \A k \in T : k \in Nat
  OBVIOUS
<1> QED BY <1>4, <1>5

LEMMA Inductive ==
  ASSUME NEW T, 0 \in T, \A n \in Nat : n \in T => n + 1 \in T
  PROVE  \A n \in Nat : n \in T
<1> SUFFICES ASSUME NEW n \in Nat, n \notin T PROVE FALSE
  OBVIOUS
<1>1. PICK m \in Nat \ T : \A k \in Nat \ T : m =< k
  BY LeastMember
<1>2. m # 0 /\ m - 1 \in Nat /\ m - 1 \in T
  BY <1>1
<1> QED BY <1>2

-----------------------------------------------------------------------------
(* Concatenations: FlattenSeq of one sequence more.                            *)

\* What FlattenSeq is computed by.
Runs(ss, n, g) == g = [i \in 1..n |-> IF i = 1 THEN ss[i] ELSE g[i - 1] \o ss[i]]

LEMMA RunsExist == ASSUME NEW ss, NEW n \in Nat PROVE \E g : Runs(ss, n, g)
<1> DEFINE T == {m \in Nat : \E g : Runs(ss, m, g)}
<1>1. 0 \in T
  <2>1. Runs(ss, 0, [i \in 1..0 |-> ss[i]])
    BY DEF Runs
  <2> QED BY <2>1
<1>2. ASSUME NEW m \in Nat, NEW g, Runs(ss, m, g) PROVE \E h : Runs(ss, m + 1, h)
  <2>1. PICK h : h = [i \in 1..(m + 1) |-> IF i = 1 THEN ss[i] ELSE g[i - 1] \o ss[i]]
    OBVIOUS
  <2>2. ASSUME NEW i \in 1..m PROVE h[i] = g[i]
    <3>1. i \in 1..(m + 1)
      OBVIOUS
    <3>2. h[i] = IF i = 1 THEN ss[i] ELSE g[i - 1] \o ss[i]
      BY <2>1, <3>1, Zenon
    <3>3. g[i] = IF i = 1 THEN ss[i] ELSE g[i - 1] \o ss[i]
      BY <1>2, Zenon DEF Runs
    <3> QED BY <3>2, <3>3, Zenon
  <2>3. \A i \in 1..(m + 1) : i # 1 => g[i - 1] = h[i - 1]
    BY <2>2
  <2>4. Runs(ss, m + 1, h)
    BY <2>1, <2>3 DEF Runs
  <2> QED BY <2>4
<1>3. \A m \in Nat : m \in T => m + 1 \in T
  BY <1>2
<1>4. \A m \in Nat : m \in T
  <2> HIDE DEF T
  <2> QED BY <1>1, <1>3, Inductive
<1> QED BY <1>4

LEMMA RunsMatch ==
  ASSUME NEW ss, NEW n \in Nat, NEW g, Runs(ss, n, g), NEW tt, NEW m \in Nat, NEW h, Runs(tt, m, h),
         n =< m, \A i \in 1..n : ss[i] = tt[i]
  PROVE  \A i \in 1..n : g[i] = h[i]
<1> DEFINE T == {i \in Nat : i \in 1..n => g[i] = h[i]}
<1>1. 0 \in T
  OBVIOUS
<1>2. ASSUME NEW i \in Nat, i \in T PROVE i + 1 \in T
  <2> SUFFICES ASSUME i + 1 \in 1..n PROVE g[i + 1] = h[i + 1]
    OBVIOUS
  <2>1. /\ g[i + 1] = IF i + 1 = 1 THEN ss[i + 1] ELSE g[(i + 1) - 1] \o ss[i + 1]
        /\ h[i + 1] = IF i + 1 = 1 THEN tt[i + 1] ELSE h[(i + 1) - 1] \o tt[i + 1]
    <3>1. i + 1 \in 1..n /\ i + 1 \in 1..m
      OBVIOUS
    <3> QED BY <3>1, Zenon DEF Runs
  <2>2. (i + 1) - 1 = i /\ ss[i + 1] = tt[i + 1]
    OBVIOUS
  <2>3. i + 1 # 1 => g[i] = h[i]
    BY <1>2
  <2> QED BY <2>1, <2>2, <2>3
<1>3. \A i \in Nat : i \in T
  <2> HIDE DEF T
  <2> QED BY <1>1, <1>2, Inductive
<1> QED BY <1>3

LEMMA FlattenRuns ==
  ASSUME NEW S, NEW ss \in Seq(S), ss # <<>>, NEW g, Runs(ss, Len(ss), g)
  PROVE  FlattenSeq(ss) = g[Len(ss)]
<1>1. Len(ss) \in Nat /\ Len(ss) # 0
  OBVIOUS
<1>2. PICK h : h = CHOOSE f : f = [i \in 1..Len(ss) |-> IF i = 1 THEN ss[i] ELSE f[i - 1] \o ss[i]]
  OBVIOUS
<1>3. Runs(ss, Len(ss), h)
  BY <1>2 DEF Runs
<1>4. FlattenSeq(ss) = h[Len(ss)]
  BY <1>1, <1>2 DEF FlattenSeq
<1>5. Len(ss) \in 1..Len(ss)
  BY <1>1
<1>6. \A i \in 1..Len(ss) : g[i] = h[i]
  BY <1>1, <1>3, RunsMatch
<1> QED BY <1>4, <1>5, <1>6

LEMMA FlattenEmpty == FlattenSeq(<<>>) = <<>>
BY DEF FlattenSeq

LEMMA FlattenAppend ==
  ASSUME NEW S, NEW ss \in Seq(Seq(S)), NEW s \in Seq(S)
  PROVE  FlattenSeq(Append(ss, s)) = FlattenSeq(ss) \o s
<1>1. PICK n \in Nat : n = Len(ss)
  OBVIOUS
<1>2. PICK tt : tt = Append(ss, s)
  OBVIOUS
<1>3. tt \in Seq(Seq(S)) /\ Len(tt) = n + 1 /\ tt # <<>> /\ tt[n + 1] = s /\ \A i \in 1..n : ss[i] = tt[i]
  BY <1>1, <1>2
<1>4. PICK h : Runs(tt, n + 1, h)
  <2>1. n + 1 \in Nat
    OBVIOUS
  <2> QED BY <2>1, RunsExist
<1>5. FlattenSeq(tt) = h[n + 1]
  BY <1>3, <1>4, FlattenRuns
<1>6. CASE n = 0
  <2>1. ss = <<>>
    <3>1. Len(ss) = 0
      BY <1>1, <1>6
    <3> QED BY <3>1
  <2>2. h[1] = tt[1]
    BY <1>4, <1>6 DEF Runs
  <2>3. FlattenSeq(ss) = <<>>
    BY <2>1, FlattenEmpty, Zenon
  <2>4. FlattenSeq(tt) = s
    BY <1>3, <1>5, <1>6, <2>2
  <2>5. FlattenSeq(ss) \o s = s
    BY <2>3
  <2> QED BY <1>2, <2>4, <2>5
<1>7. CASE n # 0
  <2>1. PICK g : Runs(ss, n, g)
    BY RunsExist
  <2>2. FlattenSeq(ss) = g[n]
    BY <1>1, <1>7, <2>1, FlattenRuns
  <2>3. g[n] = h[n]
    <3>1. \A i \in 1..n : g[i] = h[i]
      <4>1. PICK m \in Nat : m = n + 1
        OBVIOUS
      <4>2. n =< m /\ Runs(tt, m, h)
        BY <1>4, <4>1
      <4>3. \A i \in 1..n : ss[i] = tt[i]
        BY <1>3
      <4> QED BY <2>1, <4>2, <4>3, RunsMatch
    <3> QED BY <1>7, <3>1
  <2>4. h[n + 1] = h[n] \o s
    <3>1. n + 1 \in 1..(n + 1) /\ n + 1 # 1 /\ (n + 1) - 1 = n
      BY <1>7
    <3>2. h[n + 1] = h[(n + 1) - 1] \o tt[n + 1]
      BY <1>4, <3>1 DEF Runs
    <3> QED BY <1>3, <3>1, <3>2
  <2> QED BY <1>2, <1>5, <2>2, <2>3, <2>4
<1> QED BY <1>6, <1>7

LEMMA FlattenType ==
  ASSUME NEW S, NEW ss \in Seq(Seq(S))
  PROVE  FlattenSeq(ss) \in Seq(S)
<1>1. CASE ss = <<>>
  <2>1. FlattenSeq(ss) = <<>>
    BY <1>1, FlattenEmpty, Zenon
  <2> QED BY <2>1
<1>2. CASE ss # <<>>
  <2>1. PICK n \in Nat : n = Len(ss)
    OBVIOUS
  <2>2. PICK g : Runs(ss, n, g)
    BY RunsExist
  <2> DEFINE T == {i \in Nat : i \in 1..n => g[i] \in Seq(S)}
  <2>3. 0 \in T
    OBVIOUS
  <2>4. ASSUME NEW i \in Nat, i \in T PROVE i + 1 \in T
    <3> SUFFICES ASSUME i + 1 \in 1..n PROVE g[i + 1] \in Seq(S)
      OBVIOUS
    <3>1. g[i + 1] = IF i + 1 = 1 THEN ss[i + 1] ELSE g[(i + 1) - 1] \o ss[i + 1]
      BY <2>2 DEF Runs
    <3>2. ss[i + 1] \in Seq(S)
      BY <2>1
    <3>3. i # 0 => g[i] \in Seq(S)
      BY <2>4
    <3> QED BY <3>1, <3>2, <3>3
  <2>5. \A i \in Nat : i \in T
    <3> HIDE DEF T
    <3> QED BY <2>3, <2>4, Inductive
  <2>6. FlattenSeq(ss) = g[n]
    BY <1>2, <2>1, <2>2, FlattenRuns
  <2> QED BY <1>2, <2>1, <2>5, <2>6
<1> QED BY <1>1, <1>2
-----------------------------------------------------------------------------
(* Ingestion: what was accepted is in order, numbered where the source numbers *)
(* its trades, and remembered as far as the window goes.                       *)

Emitted == UNION {Range(log) : log \in Sources}
Identities == {e.name : e \in Emitted} \union Nat
Taken == [trade : Emitted, epoch : Nat]
Streams == [epoch : Nat, from : Nat, latest : Nat \union {Never}, sequence : Nat \union {Never},
            retained : Seq(Identities)]

StreamTypes ==
  /\ source \in Sources
  /\ accepted \in Seq(Taken)
  /\ stream \in Streams

\* Times and epochs do not run back, and the stream knows how far they are.
InSequence ==
  /\ \A i, j \in DOMAIN accepted : i < j =>
       accepted[i].trade.at =< accepted[j].trade.at /\ accepted[i].epoch =< accepted[j].epoch
  /\ \A i \in DOMAIN accepted :
       /\ accepted[i].epoch =< stream.epoch
       /\ stream.latest # Never /\ accepted[i].trade.at =< stream.latest

\* Numbers of an epoch increase.
Numbered ==
  semantics = "STRICT" =>
    /\ \A i, j \in DOMAIN accepted : i < j /\ accepted[i].epoch = accepted[j].epoch =>
         accepted[i].trade.sequence < accepted[j].trade.sequence
    /\ \A i \in DOMAIN accepted : accepted[i].epoch = stream.epoch =>
         stream.sequence # Never /\ accepted[i].trade.sequence =< stream.sequence

\* The window holds the newest identities; of this epoch none is missing until
\* it is full.
Remembered ==
  LET n == Len(accepted)  m == Len(stream.retained)
  IN  /\ m =< n /\ m =< Window
      /\ \A i \in 1..m : stream.retained[i] = Identity(accepted[n - m + i].trade)
      /\ \A i \in 1..(n - m) : accepted[i].epoch = stream.epoch => m = Window

\* What has the same identity in an epoch is a window apart.
Apart ==
  \A i, j \in DOMAIN accepted :
    i < j /\ accepted[i].epoch = accepted[j].epoch
    /\ Identity(accepted[i].trade) = Identity(accepted[j].trade) => j - i > Window

StreamInv == StreamTypes /\ InSequence /\ Numbered /\ Remembered /\ Apart

LEMMA EmittedType ==
  /\ \A e \in Emitted : e.at \in Nat /\ e.sequence \in Nat /\ Identity(e) \in Identities
  /\ Never \notin Nat /\ Window \in Nat \ {0}
<1>1. ASSUME NEW e \in Emitted PROVE e.at \in Nat /\ e.sequence \in Nat /\ Identity(e) \in Identities
  <2>1. PICK log \in Sources : e \in Range(log)
    BY DEF Emitted
  <2>2. PICK i \in DOMAIN log : e = log[i]
    BY <2>1 DEF Range
  <2>3. e.at \in Nat /\ e.sequence \in Nat
    BY <2>1, <2>2, PipelineAssumption
  <2> QED BY <2>3 DEF Identity, Identities
<1>2. Never \notin Nat /\ Window \in Nat \ {0}
  BY PipelineAssumption
<1> QED BY <1>1, <1>2

LEMMA StreamFirst == ASSUME Init PROVE StreamInv
<1>1. accepted = <<>> /\ source \in Sources
      /\ stream = [epoch |-> 1, from |-> 0, latest |-> Never, sequence |-> Never, retained |-> <<>>]
  BY DEF Init
<1>2. StreamTypes
  BY <1>1 DEF StreamTypes, Streams
<1>3. Len(accepted) = 0 /\ DOMAIN accepted = {} /\ Len(stream.retained) = 0
  BY <1>1
<1>4. Remembered
  BY <1>3, EmittedType DEF Remembered
<1> QED BY <1>2, <1>3, <1>4 DEF StreamInv, InSequence, Numbered, Apart

LEMMA IngestStays ==
  ASSUME StreamInv, NEW e \in Range(source), Ingest(e)
  PROVE  StreamInv'
<1>1. PICK n \in Nat : n = Len(accepted)
  BY DEF StreamInv, StreamTypes
<1>2. PICK r : r = stream.retained
  OBVIOUS
<1>3. PICK m \in Nat : m = Len(r)
  BY <1>2 DEF StreamInv, StreamTypes, Streams
<1>4. PICK x : x = [trade |-> e, epoch |-> stream.epoch]
  OBVIOUS
<1>5. PICK id : id = Identity(e)
  OBVIOUS
<1>6. /\ stream \in Streams /\ r \in Seq(Identities) /\ source \in Sources
      /\ accepted \in Seq(Taken)
      /\ e \in Emitted /\ e.at \in Nat /\ e.sequence \in Nat /\ id \in Identities
      /\ stream.epoch \in Nat /\ Window \in Nat \ {0} /\ Never \notin Nat
  <2>1. stream \in Streams /\ source \in Sources /\ accepted \in Seq(Taken)
    BY DEF StreamInv, StreamTypes
  <2>2. e \in Emitted
    BY <2>1 DEF Emitted
  <2> QED BY <1>2, <1>5, <2>1, <2>2, EmittedType DEF Streams
<1>7. /\ id \notin Range(r) /\ InTime(e) /\ Advances(e)
      /\ accepted' = Append(accepted, x) /\ source' = source /\ semantics' = semantics
      /\ stream'.epoch = stream.epoch /\ stream'.latest = e.at
      /\ stream'.sequence = (IF semantics = "NONE" THEN stream.sequence ELSE e.sequence)
      /\ stream'.retained = Retain(Window, r, <<id>>)
      /\ stream'.from = stream.from
      /\ stream' = [epoch |-> stream'.epoch, from |-> stream'.from, latest |-> stream'.latest,
                    sequence |-> stream'.sequence, retained |-> stream'.retained]
  <2>1. stream' = [stream EXCEPT !.latest = e.at,
                     !.sequence = IF semantics = "NONE" THEN @ ELSE e.sequence,
                     !.retained = Retain(Window, @, <<Identity(e)>>)]
    BY DEF Ingest
  <2>2. /\ stream'.epoch = stream.epoch /\ stream'.latest = e.at
        /\ stream'.sequence = (IF semantics = "NONE" THEN stream.sequence ELSE e.sequence)
        /\ stream'.retained = Retain(Window, stream.retained, <<Identity(e)>>)
        /\ stream'.from = stream.from
        /\ stream' = [epoch |-> stream'.epoch, from |-> stream'.from, latest |-> stream'.latest,
                      sequence |-> stream'.sequence, retained |-> stream'.retained]
    BY <1>6, <2>1 DEF Streams
  <2> QED BY <1>2, <1>4, <1>5, <2>2 DEF Ingest
<1>8. /\ x.trade = e /\ x.epoch = stream.epoch
      /\ DOMAIN accepted = 1..n /\ DOMAIN accepted' = 1..(n + 1) /\ Len(accepted') = n + 1
      /\ \A i \in 1..n : accepted'[i] = accepted[i]
      /\ accepted'[n + 1] = x
  BY <1>1, <1>4, <1>6, <1>7
<1>9. /\ m =< n /\ m =< Window
      /\ \A i \in 1..m : r[i] = Identity(accepted[n - m + i].trade)
      /\ \A i \in 1..(n - m) : accepted[i].epoch = stream.epoch => m = Window
  BY <1>1, <1>2, <1>3 DEF StreamInv, Remembered
<1>10. /\ \A t : Identity(t)' = Identity(t)
  BY <1>7 DEF Identity
<1>11. \A i \in 1..n : /\ accepted[i].trade.at \in Nat /\ accepted[i].epoch \in Nat
                       /\ accepted[i].trade.sequence \in Nat
  <2> SUFFICES ASSUME NEW i \in 1..n
               PROVE  /\ accepted[i].trade.at \in Nat /\ accepted[i].epoch \in Nat
                      /\ accepted[i].trade.sequence \in Nat
    OBVIOUS
  <2>1. accepted[i] \in Taken
    <3>1. accepted \in Seq(Taken)
      BY <1>6
    <3>2. i \in 1..Len(accepted)
      BY <1>1
    <3> QED BY <3>1, <3>2
  <2>2. accepted[i].trade \in Emitted /\ accepted[i].epoch \in Nat
    BY <2>1 DEF Taken
  <2> QED BY <2>2, EmittedType
<1>12. PICK rest : rest = stream'.retained
  OBVIOUS
<1>13. PICK k \in Nat : k = (IF m = Window THEN m ELSE m + 1)
  BY <1>6
<1>14. /\ rest \in Seq(Identities) /\ Len(rest) = k
       /\ rest[k] = id /\ k >= 1 /\ \A i \in 1..(k - 1) : rest[i] = r[m - k + 1 + i]
  <2>1. PICK s : s = r \o <<id>>
    OBVIOUS
  <2>2. s \in Seq(Identities) /\ Len(s) = m + 1 /\ s[m + 1] = id /\ \A i \in 1..m : s[i] = r[i]
    BY <1>3, <1>6, <2>1
  <2>3. rest = IF m + 1 > Window THEN SubSeq(s, (m + 1) - Window + 1, m + 1) ELSE s
    BY <1>7, <1>12, <2>1, <2>2 DEF Retain
  <2>4. CASE m = Window
    <3>1. rest = SubSeq(s, 2, m + 1)
      BY <1>6, <2>3, <2>4
    <3>2. rest \in Seq(Identities) /\ Len(rest) = m /\ \A i \in 1..m : rest[i] = s[i + 1]
      BY <2>2, <3>1
    <3>3. k = m /\ m \in 1..m
      BY <1>6, <1>13, <2>4
    <3>4. rest[k] = id
      BY <2>2, <3>2, <3>3
    <3>5. ASSUME NEW i \in 1..(k - 1) PROVE rest[i] = r[m - k + 1 + i]
      <4>1. i \in 1..m /\ i + 1 \in 1..m /\ m - k + 1 + i = i + 1
        BY <3>3
      <4> QED BY <2>2, <3>2, <4>1
    <3> QED BY <3>2, <3>3, <3>4, <3>5
  <2>5. CASE m # Window
    <3>1. rest = s
      BY <1>6, <1>9, <2>3, <2>5
    <3> QED BY <1>13, <2>2, <2>5, <3>1
  <2> QED BY <2>4, <2>5
<1>15. StreamTypes'
  <2>1. stream' \in Streams
    BY <1>6, <1>7, <1>12, <1>14 DEF Streams
  <2>2. accepted' \in Seq(Taken)
    BY <1>4, <1>6, <1>7 DEF Taken
  <2> QED BY <1>6, <1>7, <2>1, <2>2 DEF StreamTypes
<1>16. InSequence'
  <2>1. \A i \in 1..n : accepted[i].trade.at =< e.at /\ accepted[i].epoch =< stream.epoch
    <3> SUFFICES ASSUME NEW i \in 1..n PROVE accepted[i].trade.at =< e.at /\ accepted[i].epoch =< stream.epoch
      OBVIOUS
    <3>1. stream.latest # Never /\ accepted[i].trade.at =< stream.latest /\ accepted[i].epoch =< stream.epoch
      BY <1>8 DEF StreamInv, InSequence
    <3>2. stream.latest \in Nat /\ e.at >= stream.latest
      BY <1>6, <1>7, <3>1 DEF InTime, Streams
    <3> QED BY <1>6, <1>11, <3>1, <3>2
  <2>2. \A i, j \in 1..n : i < j =>
          accepted[i].trade.at =< accepted[j].trade.at /\ accepted[i].epoch =< accepted[j].epoch
    BY <1>8 DEF StreamInv, InSequence
  <2>3. stream'.latest # Never /\ stream'.latest = e.at
    BY <1>6, <1>7
  <2>4. ASSUME NEW i \in 1..(n + 1)
        PROVE  accepted'[i].trade.at =< e.at /\ accepted'[i].epoch =< stream.epoch
    BY <1>6, <1>8, <2>1
  <2>5. ASSUME NEW i \in 1..(n + 1), NEW j \in 1..(n + 1), i < j
        PROVE  accepted'[i].trade.at =< accepted'[j].trade.at /\ accepted'[i].epoch =< accepted'[j].epoch
    BY <1>6, <1>8, <2>1, <2>2, <2>5
  <2> QED BY <1>7, <1>8, <2>3, <2>4, <2>5 DEF InSequence
<1>17. Numbered'
  <2> SUFFICES ASSUME semantics = "STRICT"
               PROVE  /\ \A i, j \in 1..(n + 1) : i < j /\ accepted'[i].epoch = accepted'[j].epoch =>
                           accepted'[i].trade.sequence < accepted'[j].trade.sequence
                      /\ \A i \in 1..(n + 1) : accepted'[i].epoch = stream'.epoch =>
                           stream'.sequence # Never /\ accepted'[i].trade.sequence =< stream'.sequence
    BY <1>7, <1>8 DEF Numbered
  <2>1. stream'.sequence = e.sequence /\ stream'.sequence # Never
    BY <1>6, <1>7
  <2>2. ASSUME NEW i \in 1..n, accepted[i].epoch = stream.epoch
        PROVE  accepted[i].trade.sequence < e.sequence
    <3>1. stream.sequence # Never /\ accepted[i].trade.sequence =< stream.sequence
      BY <1>8, <2>2 DEF StreamInv, Numbered
    <3>2. stream.sequence \in Nat /\ e.sequence > stream.sequence
      BY <1>6, <1>7, <3>1 DEF Advances, Streams
    <3> QED BY <1>6, <1>11, <3>1, <3>2
  <2>3. \A i, j \in 1..n : i < j /\ accepted[i].epoch = accepted[j].epoch =>
          accepted[i].trade.sequence < accepted[j].trade.sequence
    BY <1>8 DEF StreamInv, Numbered
  <2>4. ASSUME NEW i \in 1..(n + 1), NEW j \in 1..(n + 1), i < j, accepted'[i].epoch = accepted'[j].epoch
        PROVE  accepted'[i].trade.sequence < accepted'[j].trade.sequence
    BY <1>8, <2>2, <2>3, <2>4
  <2>5. ASSUME NEW i \in 1..(n + 1), accepted'[i].epoch = stream'.epoch
        PROVE  accepted'[i].trade.sequence =< e.sequence
    <3>1. CASE i = n + 1
      BY <1>6, <1>8, <3>1
    <3>2. CASE i \in 1..n
      <4>1. accepted[i].trade.sequence < e.sequence /\ accepted'[i] = accepted[i]
        BY <1>7, <1>8, <2>2, <2>5, <3>2
      <4> QED BY <1>6, <1>11, <3>2, <4>1
    <3> QED BY <3>1, <3>2
  <2> QED BY <2>1, <2>4, <2>5
<1>18. Remembered'
  <2>1. k =< n + 1 /\ k =< Window
    BY <1>6, <1>9, <1>13
  <2>2. ASSUME NEW i \in 1..k PROVE rest[i] = Identity(accepted'[(n + 1) - k + i].trade)
    <3>1. CASE i = k
      BY <1>5, <1>8, <1>14, <3>1
    <3>2. CASE i \in 1..(k - 1)
      <4>1. PICK j \in 1..m : j = m - k + 1 + i
        <5>1. k = m \/ k = m + 1
          BY <1>13
        <5>2. m - k + 1 + i \in 1..m
          BY <3>2, <5>1
        <5> QED BY <5>2
      <4>2. rest[i] = r[j] /\ r[j] = Identity(accepted[n - m + j].trade)
        BY <1>9, <1>14, <3>2, <4>1
      <4>3. n - m + j = (n + 1) - k + i /\ n - m + j \in 1..n
        BY <1>9, <4>1
      <4>4. accepted'[n - m + j] = accepted[n - m + j]
        BY <1>8, <4>3
      <4> QED BY <4>2, <4>3, <4>4
    <3> QED BY <3>1, <3>2
  <2>3. ASSUME NEW i \in 1..((n + 1) - k), accepted'[i].epoch = stream.epoch PROVE k = Window
    <3>1. CASE m = Window
      BY <1>13, <3>1
    <3>2. CASE m # Window
      <4>1. i \in 1..(n - m) /\ i \in 1..n
        BY <1>13, <3>2
      <4> QED BY <1>8, <1>9, <2>3, <3>2, <4>1
    <3> QED BY <3>1, <3>2
  <2> QED BY <1>7, <1>8, <1>10, <1>12, <1>14, <2>1, <2>2, <2>3, ZenonT(30) DEF Remembered
<1>19. Apart'
  <2>1. ASSUME NEW i \in 1..n, accepted[i].epoch = stream.epoch, Identity(accepted[i].trade) = id
        PROVE  (n + 1) - i > Window
    <3>1. i \in 1..(n - m)
      <4> SUFFICES ASSUME i > n - m PROVE FALSE
        BY <1>9
      <4>1. PICK j \in 1..m : n - m + j = i
        BY <1>9
      <4>2. r[j] = id
        BY <1>9, <2>1, <4>1
      <4>3. j \in DOMAIN r
        BY <1>3, <1>6
      <4> QED BY <1>7, <4>2, <4>3 DEF Range
    <3>2. m = Window
      BY <1>9, <2>1, <3>1
    <3> QED BY <1>6, <1>9, <3>1, <3>2
  <2>2. \A i, j \in 1..n : i < j /\ accepted[i].epoch = accepted[j].epoch
          /\ Identity(accepted[i].trade) = Identity(accepted[j].trade) => j - i > Window
    BY <1>8 DEF StreamInv, Apart
  <2>3. ASSUME NEW i \in 1..(n + 1), NEW j \in 1..(n + 1), i < j, accepted'[i].epoch = accepted'[j].epoch,
               Identity(accepted'[i].trade) = Identity(accepted'[j].trade)
        PROVE  j - i > Window
    <3>1. CASE j = n + 1
      BY <1>5, <1>8, <2>1, <2>3, <3>1
    <3>2. CASE j \in 1..n
      BY <1>8, <2>2, <2>3, <3>2
    <3> QED BY <3>1, <3>2
  <2> QED BY <1>8, <1>10, <2>3 DEF Apart
<1> QED BY <1>15, <1>16, <1>17, <1>18, <1>19 DEF StreamInv

LEMMA EpochStays ==
  ASSUME StreamInv, NEW t \in Times, BeginSourceEpoch(t)
  PROVE  StreamInv'
<1>1. PICK n \in Nat : n = Len(accepted)
  BY DEF StreamInv, StreamTypes
<1>2. /\ stream \in Streams /\ source \in Sources /\ accepted \in Seq(Taken)
      /\ t \in Nat /\ stream.epoch \in Nat /\ Window \in Nat \ {0}
  BY EmittedType, PipelineAssumption DEF StreamInv, StreamTypes, Streams
<1>3. /\ accepted' = accepted /\ source' = source /\ semantics' = semantics
      /\ stream'.epoch = stream.epoch + 1 /\ stream'.latest = stream.latest
      /\ stream'.retained = <<>>
      /\ stream' \in Streams
  <2>1. stream' = [stream EXCEPT !.epoch = @ + 1, !.from = t, !.sequence = Never, !.retained = <<>>]
    BY DEF BeginSourceEpoch
  <2>2. stream' \in Streams
    <3>1. /\ stream.epoch + 1 \in Nat /\ <<>> \in Seq(Identities)
          /\ Never \in Nat \union {Never} /\ t \in Nat
      BY <1>2
    <3> QED BY <1>2, <2>1, <3>1 DEF Streams
  <2> QED BY <1>2, <2>1, <2>2 DEF BeginSourceEpoch, Streams
<1>4. DOMAIN accepted = 1..n /\ \A i \in 1..n : accepted[i].epoch =< stream.epoch /\ accepted[i].epoch \in Nat
  <2> SUFFICES ASSUME NEW i \in 1..n PROVE accepted[i].epoch =< stream.epoch /\ accepted[i].epoch \in Nat
    BY <1>1, <1>2
  <2>1. accepted[i] \in Taken
    BY <1>1, <1>2
  <2>2. i \in DOMAIN accepted
    BY <1>1, <1>2
  <2> QED BY <2>1, <2>2 DEF StreamInv, InSequence, Taken
<1>5. \A i \in 1..n : accepted[i].epoch # stream'.epoch /\ accepted[i].epoch =< stream'.epoch
  BY <1>2, <1>3, <1>4
<1>6. StreamTypes'
  BY <1>2, <1>3 DEF StreamTypes
<1>7. InSequence'
  BY <1>3, <1>4, <1>5 DEF StreamInv, InSequence
<1>8. Numbered'
  BY <1>3, <1>4, <1>5 DEF StreamInv, Numbered
<1>9. Remembered'
  <2>1. Len(stream'.retained) = 0 /\ n - 0 = n
    BY <1>3
  <2>2. \A i \in 1..(n - 0) : accepted'[i].epoch # stream'.epoch
    BY <1>3, <1>5, <2>1
  <2>3. 0 =< n /\ 0 =< Window /\ Len(accepted') = n
    BY <1>1, <1>2, <1>3
  <2> QED BY <2>1, <2>2, <2>3 DEF Remembered
<1>10. Apart'
  BY <1>3 DEF StreamInv, Apart, Identity
<1> QED BY <1>6, <1>7, <1>8, <1>9, <1>10 DEF StreamInv

LEMMA StreamStays == ASSUME StreamInv, [Next]_vars PROVE StreamInv'
<1>1. CASE \E i \in DOMAIN source : Ingest(source[i])
  <2>1. PICK e \in Range(source) : Ingest(e)
    BY <1>1 DEF Range
  <2> QED BY <2>1, IngestStays
<1>2. CASE \E t \in Times : BeginSourceEpoch(t)
  BY <1>2, EpochStays
<1>3. CASE UNCHANGED market
  BY <1>3 DEF market, StreamInv, StreamTypes, InSequence, Numbered, Remembered, Apart, Identity
<1>4. ASSUME NEW i \in DOMAIN batches, Analyze(i) PROVE UNCHANGED market
  BY <1>4 DEF Analyze
<1>5. ASSUME NEW i \in DOMAIN cycles, NEW x \in Contexts, Decide(i, x) \/ DecideAgain(i, x) PROVE UNCHANGED market
  BY <1>5 DEF Decide, DecideAgain
<1>6. ASSUME NEW j \in DOMAIN decisions, NEW x, PrepareDuplicate(decisions[j]) \/ Prepare(decisions[j], x)
      PROVE  UNCHANGED market
  BY <1>6 DEF PrepareDuplicate, Prepare, Publish
<1>7. CASE UNCHANGED vars
  BY <1>3, <1>7 DEF vars
<1> QED BY <1>1, <1>2, <1>3, <1>4, <1>5, <1>6, <1>7 DEF Next

THEOREM StreamInvariant == Spec => []StreamInv
<1>1. Init => StreamInv
  BY StreamFirst
<1>2. StreamInv /\ [Next]_vars => StreamInv'
  BY StreamStays
<1> QED BY <1>1, <1>2, PTL DEF Spec

\* A trade that is delivered again is counted again only in the same
\* millisecond, and then only in another epoch or, when its source does not
\* number in order, beyond the window (validateSequenceContract and ingest of
\* live-market-data-engine).
THEOREM TradesAreCountedOnce == Spec => []CountedOnce
<1>1. ASSUME StreamInv PROVE CountedOnce
  <2> SUFFICES ASSUME NEW i \in DOMAIN accepted, NEW j \in DOMAIN accepted, i < j,
                      accepted[i].trade = accepted[j].trade
               PROVE  /\ \A n \in i..j : accepted[n].trade.at = accepted[i].trade.at
                      /\ \/ accepted[i].epoch # accepted[j].epoch
                         \/ semantics # "STRICT" /\ j - i > Window
    BY DEF CountedOnce
  <2>1. PICK m \in Nat : m = Len(accepted)
    BY <1>1 DEF StreamInv, StreamTypes
  <2>2. DOMAIN accepted = 1..m /\ \A n \in 1..m : accepted[n] \in Taken
    BY <1>1, <2>1 DEF StreamInv, StreamTypes
  <2>3. \A n \in 1..m : accepted[n].trade.at \in Nat /\ accepted[n].trade.sequence \in Nat
    BY <2>2, EmittedType DEF Taken
  <2>4. ASSUME NEW n \in i..j PROVE accepted[n].trade.at = accepted[i].trade.at
    <3>1. n \in 1..m /\ i \in 1..m /\ j \in 1..m
      BY <2>2
    <3>2. n = i \/ accepted[i].trade.at =< accepted[n].trade.at
      BY <1>1, <2>2, <3>1 DEF StreamInv, InSequence
    <3>3. n = j \/ accepted[n].trade.at =< accepted[j].trade.at
      BY <1>1, <2>2, <3>1 DEF StreamInv, InSequence
    <3> QED BY <2>3, <3>1, <3>2, <3>3
  <2>5. ASSUME accepted[i].epoch = accepted[j].epoch PROVE semantics # "STRICT" /\ j - i > Window
    <3>1. j - i > Window
      BY <1>1, <2>5 DEF StreamInv, Apart
    <3>2. ASSUME semantics = "STRICT" PROVE FALSE
      <4>1. accepted[i].trade.sequence < accepted[j].trade.sequence
        BY <1>1, <2>5, <3>2 DEF StreamInv, Numbered
      <4> QED BY <2>2, <2>3, <4>1
    <3> QED BY <3>1, <3>2
  <2> QED BY <2>4, <2>5
<1> QED BY <1>1, StreamInvariant, PTL
-----------------------------------------------------------------------------
(* Candles and batches keep their shapes.                                      *)

Alignment == [duration : Nat \ {0}, anchor : Int]
Candle == [from : Int, trades : Seq(Emitted), gap : BOOLEAN]
Batch == UNION {[K -> Candle] : K \in SUBSET DOMAIN Timeframes}

MarketTypes ==
  /\ current \in [DOMAIN Timeframes -> Candle \union {NoCandle}]
  /\ batches \in Seq(Batch)

\* A bucket has its trade, and the buckets follow one another.
LEMMA Buckets ==
  ASSUME NEW tf \in Alignment, NEW t \in Int
  PROVE  /\ BucketOpen(tf, t) \in Int
         /\ BucketOpen(tf, t) =< t /\ t < BucketOpen(tf, t) + tf.duration
         /\ \A u \in Int : t =< u /\ BucketOpen(tf, u) # BucketOpen(tf, t) =>
                           BucketOpen(tf, u) >= BucketOpen(tf, t) + tf.duration
<1>1. PICK d \in Nat \ {0} : d = tf.duration
  BY DEF Alignment
<1>2. PICK a \in Int : a = tf.anchor
  BY DEF Alignment
<1>3. \A u \in Int : \E q \in Int : BucketOpen(tf, u) = q * d + a /\ q * d =< u - a /\ u - a < q * d + d
  <2> SUFFICES ASSUME NEW u \in Int
               PROVE  \E q \in Int : BucketOpen(tf, u) = q * d + a /\ q * d =< u - a /\ u - a < q * d + d
    OBVIOUS
  <2>1. PICK x \in Int : x = u - a
    OBVIOUS
  <2>2. PICK q \in Int : q = x \div d
    BY <1>1
  <2>3. q * d =< x /\ x < q * d + d
    BY <2>2
  <2>4. BucketOpen(tf, u) = q * d + a
    BY <1>1, <1>2, <2>1, <2>2 DEF BucketOpen
  <2> QED BY <2>1, <2>3, <2>4
<1>4. PICK q \in Int : BucketOpen(tf, t) = q * d + a /\ q * d =< t - a /\ t - a < q * d + d
  BY <1>3
<1>5. PICK x \in Int : x = q * d
  OBVIOUS
<1>6. ASSUME NEW u \in Int, t =< u, BucketOpen(tf, u) # BucketOpen(tf, t)
      PROVE  BucketOpen(tf, u) >= BucketOpen(tf, t) + d
  <2>1. PICK r \in Int : BucketOpen(tf, u) = r * d + a /\ r * d =< u - a /\ u - a < r * d + d
    BY <1>3
  <2>2. PICK y \in Int : y = r * d
    OBVIOUS
  <2>3. x < y + d
    BY <1>4, <1>5, <1>6, <2>1, <2>2
  <2>4. q =< r
    <3> SUFFICES ASSUME r + 1 =< q PROVE FALSE
      OBVIOUS
    <3>1. (r + 1) * d =< q * d
      BY <1>1
    <3>2. (r + 1) * d = y + d
      BY <2>2
    <3> QED BY <1>5, <2>3, <3>1, <3>2
  <2>5. q # r
    BY <1>4, <1>6, <2>1
  <2>6. (q + 1) * d =< r * d
    BY <1>1, <2>4, <2>5
  <2>7. (q + 1) * d = x + d
    BY <1>5
  <2> QED BY <1>2, <1>4, <1>5, <2>1, <2>2, <2>6, <2>7
<1> QED BY <1>1, <1>2, <1>4, <1>5, <1>6

LEMMA TimeframeType ==
  ASSUME NEW k \in DOMAIN Timeframes PROVE Timeframes[k] \in Alignment
<1>1. Timeframes \in Seq(Alignment)
  BY PipelineAssumption DEF Alignment
<1> QED BY <1>1

LEMMA CloseType ==
  ASSUME NEW k \in DOMAIN Timeframes, NEW c \in Candle
  PROVE  Close(k, c) \in Int
BY TimeframeType DEF Close, CloseTime, Candle, Alignment

LEMMA AccumulatedType ==
  ASSUME NEW k \in DOMAIN Timeframes, NEW c \in Candle \union {NoCandle}, NEW e \in Emitted
  PROVE  Accumulated(Timeframes[k], c, e) \in Candle
<1>1. PICK tf \in Alignment : tf = Timeframes[k]
  BY TimeframeType
<1>2. e.at \in Int
  BY EmittedType
<1>3. BucketOpen(tf, e.at) \in Int
  BY <1>2, Buckets
<1>4. \A gap \in BOOLEAN : Opened(tf, e, gap) \in Candle
  BY <1>3 DEF Opened, Candle
<1>5. CASE c = NoCandle
  BY <1>1, <1>4, <1>5 DEF Accumulated
<1>6. CASE c # NoCandle
  <2>1. c \in Candle
    BY <1>6
  <2>2. [c EXCEPT !.trades = Append(@, e)] \in Candle
    BY <2>1 DEF Candle
  <2>3. (BucketOpen(tf, e.at) > CloseTime(tf, c)) \in BOOLEAN
    OBVIOUS
  <2>4. Accumulated(tf, c, e) = IF Finalizes(tf, c, e) THEN Opened(tf, e, BucketOpen(tf, e.at) > CloseTime(tf, c))
                                ELSE [c EXCEPT !.trades = Append(@, e)]
    BY <1>6 DEF Accumulated
  <2> QED BY <1>1, <1>4, <2>2, <2>3, <2>4
<1> QED BY <1>5, <1>6

LEMMA FinalizedType ==
  ASSUME MarketTypes, NEW e
  PROVE  FinalizedBy(e) \in Batch
<1>1. PICK K : K = {k \in DOMAIN Timeframes : Finalizes(Timeframes[k], current[k], e)}
  OBVIOUS
<1>2. \A k \in K : current[k] \in Candle
  BY <1>1 DEF MarketTypes, Finalizes
<1>3. FinalizedBy(e) \in [K -> Candle]
  BY <1>1, <1>2 DEF FinalizedBy, Restrict
<1>4. K \in SUBSET DOMAIN Timeframes
  BY <1>1
<1> QED BY <1>3, <1>4 DEF Batch

LEMMA MarketTypesFirst == ASSUME Init PROVE MarketTypes
BY DEF Init, MarketTypes

LEMMA MarketTypesIngest ==
  ASSUME StreamInv, MarketTypes, NEW e \in Range(source), Ingest(e)
  PROVE  MarketTypes'
<1>1. e \in Emitted
  BY DEF StreamInv, StreamTypes, Emitted
<1>2. current' = [k \in DOMAIN Timeframes |-> Accumulated(Timeframes[k], current[k], e)]
  BY DEF Ingest
<1>3. \A k \in DOMAIN Timeframes : Accumulated(Timeframes[k], current[k], e) \in Candle
  BY <1>1, AccumulatedType DEF MarketTypes
<1>4. current' \in [DOMAIN Timeframes -> Candle \union {NoCandle}]
  BY <1>2, <1>3
<1>5. batches' = batches \/ batches' = Append(batches, FinalizedBy(e))
  BY DEF Ingest
<1>6. batches' \in Seq(Batch)
  BY <1>5, FinalizedType DEF MarketTypes
<1> QED BY <1>4, <1>6 DEF MarketTypes

\* A batch's boundaries are times, and there are finitely many.
LEMMA ClosesType ==
  ASSUME NEW b \in Batch
  PROVE  Closes(b) \subseteq Int /\ IsFiniteSet(Closes(b))
<1>1. PICK K \in SUBSET DOMAIN Timeframes : b \in [K -> Candle]
  BY DEF Batch
<1>2. IsFiniteSet(K)
  <2>1. Timeframes \in Seq(Alignment)
    BY PipelineAssumption DEF Alignment
  <2>2. PICK n \in Nat : DOMAIN Timeframes = 1..n
    BY <2>1
  <2>3. K \in SUBSET (1..n) /\ IsFiniteSet(1..n)
    BY <1>1, <2>2, FS_Interval
  <2> QED BY <2>3, FS_Subset
<1>3. \A k \in K : Close(k, b[k]) \in Int
  BY <1>1, CloseType
<1>4. Closes(b) = {Close(k, b[k]) : k \in K}
  BY <1>1 DEF Closes
<1>5. [k \in K |-> Close(k, b[k])] \in Surjection(K, Closes(b))
  BY <1>4 DEF Surjection
<1> QED BY <1>2, <1>3, <1>4, <1>5, FS_Surjection
-----------------------------------------------------------------------------
(* Decisions and preparations: each engine publishes in ascending order, for   *)
(* it goes by its boundary and not by what it remembers.                       *)

Moments == Int \union {Never}

\* What was published ascends, up to the boundary.
Ascending(log, boundary) ==
  /\ boundary \in Moments
  /\ \A i \in DOMAIN log : boundary # Never /\ log[i].at =< boundary
  /\ \A i, j \in DOMAIN log : i < j => log[i].at < log[j].at

DecisionRows == [at : Int, status : {"INTENT", "REJECTED", "NO_DECISION"}]
PreparationRows == [at : Int, status : {"EXECUTION_PREPARED", "PREPARATION_REJECTED", "NO_PREPARATION",
                                        "DUPLICATE_DECISION_INPUT"}]

CyclesHaveTimes == \E S : cycles \in Seq(S) /\ \A c \in S : c.at \in Int

\* What is prepared was decided.
Grounds ==
  \A i \in DOMAIN preparations :
    preparations[i].status \in {"EXECUTION_PREPARED", "PREPARATION_REJECTED"} =>
      \E j \in DOMAIN decisions : decisions[j] = [at |-> preparations[i].at, status |-> "INTENT"]

PublishedInv ==
  /\ CyclesHaveTimes
  /\ decisions \in Seq(DecisionRows) /\ Ascending(decisions, decider.boundary)
  /\ preparations \in Seq(PreparationRows) /\ Ascending(preparations, preparer.boundary)
  /\ Grounds

LEMMA AscendingGrows ==
  ASSUME NEW R, \A r \in R : r.at \in Int, NEW log \in Seq(R), NEW boundary, Ascending(log, boundary),
         NEW x \in R, Open(x.at, boundary)
  PROVE  Ascending(Append(log, x), x.at)
<1>1. PICK n \in Nat : n = Len(log)
  OBVIOUS
<1>2. PICK more : more = Append(log, x)
  OBVIOUS
<1>3. /\ DOMAIN more = 1..(n + 1) /\ DOMAIN log = 1..n
      /\ \A i \in 1..n : more[i] = log[i] /\ log[i] \in R
      /\ more[n + 1] = x
  BY <1>1, <1>2
<1>4. x.at \in Int /\ x.at # Never
  BY PipelineAssumption
<1>5. \A i \in 1..n : log[i].at < x.at /\ log[i].at \in Int
  <2> SUFFICES ASSUME NEW i \in 1..n PROVE log[i].at < x.at /\ log[i].at \in Int
    OBVIOUS
  <2>1. boundary # Never /\ boundary \in Moments /\ log[i].at =< boundary
    BY <1>3 DEF Ascending
  <2>2. boundary \in Int /\ x.at > boundary
    BY <2>1 DEF Open, Moments
  <2>3. log[i].at \in Int
    BY <1>3
  <2> QED BY <1>4, <2>1, <2>2, <2>3
<1>6. \A i \in 1..(n + 1) : more[i].at =< x.at
  BY <1>3, <1>4, <1>5
<1>7. \A i, j \in 1..n : i < j => log[i].at < log[j].at
  BY <1>3 DEF Ascending
<1>8. ASSUME NEW i \in 1..(n + 1), NEW j \in 1..(n + 1), i < j PROVE more[i].at < more[j].at
  <2>1. CASE j = n + 1
    BY <1>3, <1>5, <1>8, <2>1
  <2>2. CASE j \in 1..n
    BY <1>3, <1>7, <1>8, <2>2
  <2> QED BY <2>1, <2>2
<1>9. Ascending(more, x.at)
  BY <1>3, <1>4, <1>6, <1>8 DEF Ascending, Moments
<1> QED BY <1>2, <1>9

LEMMA PublishedFirst == ASSUME Init PROVE PublishedInv
<1>1. /\ cycles = <<>> /\ decisions = <<>> /\ preparations = <<>>
      /\ decider.boundary = Never /\ preparer.boundary = Never
  BY DEF Init
<1>2. CyclesHaveTimes
  <2>1. cycles \in Seq({})
    BY <1>1
  <2> QED BY <2>1 DEF CyclesHaveTimes
<1>3. DOMAIN decisions = {} /\ DOMAIN preparations = {}
  BY <1>1
<1>4. Ascending(decisions, decider.boundary) /\ Ascending(preparations, preparer.boundary) /\ Grounds
  BY <1>1, <1>3 DEF Ascending, Grounds, Moments
<1> QED BY <1>1, <1>2, <1>4 DEF PublishedInv

LEMMA AnalyzeStays ==
  ASSUME MarketTypes, PublishedInv, NEW i \in DOMAIN batches, Analyze(i)
  PROVE  PublishedInv'
<1>1. PICK fresh : fresh = Fresh(batches[i])
  OBVIOUS
<1>2. fresh \in Batch
  <2>1. batches[i] \in Batch
    BY DEF MarketTypes
  <2>2. PICK K \in SUBSET DOMAIN Timeframes : batches[i] \in [K -> Candle]
    BY <2>1 DEF Batch
  <2>3. PICK L : L = {k \in DOMAIN batches[i] : batches[i][k] \notin Range(analysis.histories[k])}
    OBVIOUS
  <2>4. L \in SUBSET DOMAIN Timeframes /\ L \subseteq K
    BY <2>2, <2>3
  <2>5. fresh \in [L -> Candle]
    BY <1>1, <2>2, <2>3, <2>4 DEF Fresh, Restrict
  <2> QED BY <2>4, <2>5 DEF Batch
<1>3. PICK times : times = Closes(fresh) \ Range(analysis.retained)
  OBVIOUS
<1>4. times \subseteq Int /\ IsFiniteSet(times)
  <2>1. times \in SUBSET Closes(fresh)
    BY <1>3
  <2> QED BY <1>2, <2>1, ClosesType, FS_Subset
<1>5. PICK n \in Nat : n = Cardinality(times)
  BY <1>4, FS_CardinalityType
<1>6. PICK found \in InOrder(times, fresh) : \E verdicts \in [DOMAIN found -> 0..2] :
        cycles' = cycles \o [j \in DOMAIN found |->
                    [at |-> found[j], frame |-> Frame(Staged(fresh), found[j]), actionable |-> verdicts[j]]]
  BY <1>1, <1>3 DEF Analyze
<1>7. found \in [1..n -> times]
  BY <1>5 DEF InOrder
<1>8. PICK verdicts \in [DOMAIN found -> 0..2] :
        cycles' = cycles \o [j \in DOMAIN found |->
                    [at |-> found[j], frame |-> Frame(Staged(fresh), found[j]), actionable |-> verdicts[j]]]
  BY <1>6
<1>9. PICK more : more = [j \in DOMAIN found |->
                    [at |-> found[j], frame |-> Frame(Staged(fresh), found[j]), actionable |-> verdicts[j]]]
  OBVIOUS
<1>10. PICK S : cycles \in Seq(S) /\ \A c \in S : c.at \in Int
  BY DEF PublishedInv, CyclesHaveTimes
<1>11. PICK T : T = S \union {more[j] : j \in 1..n}
  OBVIOUS
<1>12. more \in Seq(T) /\ cycles \in Seq(T)
  <2>1. DOMAIN more = 1..n /\ \A j \in 1..n : more[j] \in T
    BY <1>7, <1>9, <1>11
  <2>2. more \in [1..n -> T]
    BY <1>7, <1>9, <2>1
  <2>3. more \in Seq(T)
    BY <2>2
  <2> QED BY <1>10, <1>11, <2>3
<1>13. \A c \in T : c.at \in Int
  <2>1. \A j \in 1..n : more[j].at = found[j] /\ found[j] \in Int
    BY <1>4, <1>7, <1>9
  <2> QED BY <1>10, <1>11, <2>1
<1>14. cycles' \in Seq(T)
  BY <1>9, <1>12, <1>8
<1>15. CyclesHaveTimes'
  BY <1>13, <1>14 DEF CyclesHaveTimes
<1>16. UNCHANGED <<decider, decisions, preparer, preparations>>
  BY DEF Analyze, deciding, preparing
<1> QED BY <1>15, <1>16 DEF PublishedInv, Ascending, Grounds

LEMMA DecideStays ==
  ASSUME PublishedInv, NEW i \in DOMAIN cycles, NEW x \in Contexts, Decide(i, x)
  PROVE  PublishedInv'
<1>1. cycles[i].at \in Int
  <2>1. PICK S : cycles \in Seq(S) /\ \A c \in S : c.at \in Int
    BY DEF PublishedInv, CyclesHaveTimes
  <2>2. cycles[i] \in S
    BY <2>1
  <2> QED BY <2>1, <2>2
<1>2. PICK status \in {"INTENT", "REJECTED", "NO_DECISION"} :
        decisions' = Append(decisions, [at |-> cycles[i].at, status |-> status])
  BY DEF Decide
<1>3. PICK d : d = [at |-> cycles[i].at, status |-> status]
  OBVIOUS
<1>4. d \in DecisionRows /\ d.at = cycles[i].at
  BY <1>1, <1>3 DEF DecisionRows
<1>5. /\ Open(d.at, decider.boundary) /\ decider'.boundary = d.at
      /\ cycles' = cycles /\ preparer' = preparer /\ preparations' = preparations
  BY <1>4 DEF Decide, Published, analyzing, preparing
<1>6. \A r \in DecisionRows : r.at \in Int
  BY DEF DecisionRows
<1>7. decisions \in Seq(DecisionRows) /\ Ascending(decisions, decider.boundary)
  BY DEF PublishedInv
<1>8. Ascending(Append(decisions, d), d.at)
  BY <1>4, <1>5, <1>6, <1>7, AscendingGrows
<1>9. decisions' = Append(decisions, d)
  BY <1>2, <1>3
<1>10. decisions' \in Seq(DecisionRows) /\ \A j \in DOMAIN decisions : j \in DOMAIN decisions' /\ decisions'[j] = decisions[j]
  BY <1>4, <1>7, <1>9
<1>11. Grounds'
  BY <1>5, <1>10 DEF PublishedInv, Grounds
<1>12. Ascending(decisions, decider.boundary)'
  BY <1>5, <1>8, <1>9
<1> QED BY <1>5, <1>10, <1>11, <1>12 DEF PublishedInv, CyclesHaveTimes, Ascending

LEMMA PublishStays ==
  ASSUME PublishedInv, NEW j \in DOMAIN decisions, NEW print, NEW status,
         [at |-> 0, status |-> status] \in PreparationRows,
         status \in {"EXECUTION_PREPARED", "PREPARATION_REJECTED"} => decisions[j].status = "INTENT",
         Publish(decisions[j], print, status)
  PROVE  PublishedInv'
<1>1. decisions[j] \in DecisionRows /\ decisions \in Seq(DecisionRows)
  <2>1. decisions \in Seq(DecisionRows)
    BY DEF PublishedInv
  <2> QED BY <2>1
<1>2. PICK p : p = [at |-> decisions[j].at, status |-> status]
  OBVIOUS
<1>3. p \in PreparationRows /\ p.at = decisions[j].at /\ p.status = status
  BY <1>1, <1>2 DEF DecisionRows, PreparationRows
<1>4. /\ Open(p.at, preparer.boundary) /\ preparer'.boundary = p.at /\ preparations' = Append(preparations, p)
      /\ UNCHANGED <<cycles, decider, decisions>>
  BY <1>2, <1>3 DEF Publish, Published, analyzing, deciding
<1>5. \A r \in PreparationRows : r.at \in Int
  BY DEF PreparationRows
<1>6. preparations \in Seq(PreparationRows) /\ Ascending(preparations, preparer.boundary)
  BY DEF PublishedInv
<1>7. Ascending(Append(preparations, p), p.at)
  BY <1>3, <1>4, <1>5, <1>6, AscendingGrows
<1>8. Ascending(preparations, preparer.boundary)'
  BY <1>4, <1>7
<1>9. preparations' \in Seq(PreparationRows)
  BY <1>3, <1>4, <1>6
<1>10. Grounds'
  <2>1. PICK n \in Nat : n = Len(preparations)
    BY <1>6
  <2>2. /\ DOMAIN preparations = 1..n /\ DOMAIN preparations' = 1..(n + 1)
        /\ \A i \in 1..n : preparations'[i] = preparations[i]
        /\ preparations'[n + 1] = p
    BY <1>4, <1>6, <2>1
  <2>3. ASSUME NEW i \in 1..(n + 1), preparations'[i].status \in {"EXECUTION_PREPARED", "PREPARATION_REJECTED"}
        PROVE  \E l \in DOMAIN decisions : decisions[l] = [at |-> preparations'[i].at, status |-> "INTENT"]
    <3>1. CASE i \in 1..n
      BY <2>2, <2>3, <3>1 DEF PublishedInv, Grounds
    <3>2. CASE i = n + 1
      <4>1. preparations'[i] = p /\ decisions[j].status = "INTENT"
        BY <1>3, <2>2, <2>3, <3>2
      <4>2. decisions[j] = [at |-> decisions[j].at, status |-> decisions[j].status]
        BY <1>1 DEF DecisionRows
      <4> QED BY <1>3, <4>1, <4>2
    <3> QED BY <3>1, <3>2
  <2> QED BY <1>4, <2>2, <2>3 DEF Grounds
<1> QED BY <1>4, <1>8, <1>9, <1>10 DEF PublishedInv, CyclesHaveTimes, Ascending

LEMMA PrepareStays ==
  ASSUME PublishedInv, NEW j \in DOMAIN decisions, NEW x,
         PrepareDuplicate(decisions[j]) \/ Prepare(decisions[j], x)
  PROVE  PublishedInv'
<1>1. \A status \in {"EXECUTION_PREPARED", "PREPARATION_REJECTED", "NO_PREPARATION", "DUPLICATE_DECISION_INPUT"} :
        [at |-> 0, status |-> status] \in PreparationRows
  BY DEF PreparationRows
<1>2. CASE PrepareDuplicate(decisions[j])
  <2>1. Publish(decisions[j], "DUPLICATE", "DUPLICATE_DECISION_INPUT")
    BY <1>2 DEF PrepareDuplicate
  <2> QED BY <1>1, <2>1, PublishStays
<1>3. CASE Prepare(decisions[j], x)
  <2>1. CASE decisions[j].status = "INTENT"
    <3>1. PICK status \in {"EXECUTION_PREPARED", "PREPARATION_REJECTED"} : Publish(decisions[j], x, status)
      BY <1>3, <2>1 DEF Prepare
    <3> QED BY <1>1, <2>1, <3>1, PublishStays
  <2>2. CASE decisions[j].status # "INTENT"
    <3>1. Publish(decisions[j], decisions[j].status, "NO_PREPARATION")
      BY <1>3, <2>2 DEF Prepare
    <3> QED BY <1>1, <3>1, PublishStays
  <2> QED BY <2>1, <2>2
<1> QED BY <1>2, <1>3

LEMMA PublishedStays == ASSUME StreamInv, MarketTypes, PublishedInv, [Next]_vars PROVE MarketTypes' /\ PublishedInv'
<1>1. CASE \E i \in DOMAIN source : Ingest(source[i])
  <2>1. PICK e \in Range(source) : Ingest(e)
    BY <1>1 DEF Range
  <2>2. UNCHANGED <<cycles, decider, decisions, preparer, preparations>>
    BY <2>1 DEF Ingest, analyzing, deciding, preparing
  <2>3. PublishedInv'
    BY <2>2 DEF PublishedInv, CyclesHaveTimes, Ascending, Grounds
  <2> QED BY <2>1, <2>3, MarketTypesIngest
<1>2. CASE \E t \in Times : BeginSourceEpoch(t)
  <2>1. UNCHANGED <<current, batches, cycles, decider, decisions, preparer, preparations>>
    BY <1>2 DEF BeginSourceEpoch, analyzing, deciding, preparing
  <2> QED BY <2>1 DEF MarketTypes, PublishedInv, CyclesHaveTimes, Ascending, Grounds
<1>3. CASE \E i \in DOMAIN batches : Analyze(i)
  <2>1. UNCHANGED <<current, batches>>
    BY <1>3 DEF Analyze, market
  <2> QED BY <1>3, <2>1, AnalyzeStays DEF MarketTypes
<1>4. CASE \E i \in DOMAIN cycles, x \in Contexts : Decide(i, x)
  <2>1. UNCHANGED <<current, batches>>
    BY <1>4 DEF Decide, market
  <2> QED BY <1>4, <2>1, DecideStays DEF MarketTypes
<1>5. CASE \E i \in DOMAIN cycles, x \in Contexts : DecideAgain(i, x)
  <2>1. UNCHANGED <<current, batches, cycles, decider, decisions, preparer, preparations>>
    BY <1>5 DEF DecideAgain, market, analyzing, preparing
  <2> QED BY <2>1 DEF MarketTypes, PublishedInv, CyclesHaveTimes, Ascending, Grounds
<1>6. CASE \E j \in DOMAIN decisions : PrepareDuplicate(decisions[j]) \/ \E x \in Contexts : Prepare(decisions[j], x)
  <2>1. UNCHANGED <<current, batches>>
    BY <1>6 DEF PrepareDuplicate, Prepare, Publish, market
  <2> QED BY <1>6, <2>1, PrepareStays DEF MarketTypes
<1>7. CASE UNCHANGED vars
  BY <1>7 DEF vars, market, analyzing, deciding, preparing, MarketTypes, PublishedInv, CyclesHaveTimes, Ascending, Grounds
<1> QED BY <1>1, <1>2, <1>3, <1>4, <1>5, <1>6, <1>7 DEF Next

THEOREM PublishedInvariant == Spec => [](MarketTypes /\ PublishedInv)
<1>1. Init => MarketTypes /\ PublishedInv
  BY MarketTypesFirst, PublishedFirst
<1>2. StreamInv /\ MarketTypes /\ PublishedInv /\ [Next]_vars => MarketTypes' /\ PublishedInv'
  BY PublishedStays
<1> QED BY <1>1, <1>2, StreamInvariant, PTL DEF Spec

\* One decision for a boundary and one preparation of it, of the intent decided
\* there, whatever a bounded memory has evicted and whatever comes again
\* (process and assertNewBoundary of the realtime engines).
THEOREM BoundariesArePreparedOnce == Spec => []PreparedOnce
<1>1. PublishedInv => PreparedOnce
  BY DEF PublishedInv, Ascending, Grounds, PreparedOnce
<1> QED BY <1>1, PublishedInvariant, PTL
-----------------------------------------------------------------------------
(* Candles: in each timeframe, the finalized candles and the open one partition*)
(* what was accepted.                                                          *)

\* The trades of a candle are of its bucket.
Within(tf, c) == \A j \in DOMAIN c.trades : c.trades[j].at \in c.from..(CloseTime(tf, c) - 1)
\* A candle comes after another, and says whether a bucket is missing between.
Follows(tf, b, c) == c.from >= CloseTime(tf, b) /\ (c.gap <=> c.from # CloseTime(tf, b))

TradesIn(candles) == FlattenSeq([i \in DOMAIN candles |-> candles[i].trades])

Told(tf, candles, trades) ==
  /\ TradesIn(candles) = trades
  /\ \A i \in DOMAIN candles : Within(tf, candles[i])
  /\ \A i \in 2..Len(candles) : Follows(tf, candles[i - 1], candles[i])

\* The builder of a timeframe: it has started with the first trade, and its
\* bucket is the one of a time that the stream has reached.
Built(k) ==
  /\ current[k] = NoCandle => batches = <<>> /\ accepted = <<>>
  /\ current[k] # NoCandle =>
       /\ Told(Timeframes[k], Append(Closed(k), current[k]), Trades)
       /\ stream.latest # Never
       /\ \E t \in Nat : t =< stream.latest /\ current[k].from = BucketOpen(Timeframes[k], t)

CandlesInv == \A k \in DOMAIN Timeframes : Built(k)

LEMMA NoCandleIsNone == NoCandle \notin Candle
BY PipelineAssumption DEF Candle, Emitted

LEMMA ClosedEmpty == ASSUME NEW k, batches = <<>> PROVE Closed(k) = <<>>
<1>1. DOMAIN batches = {}
  OBVIOUS
<1>2. [n \in DOMAIN batches |-> IF k \in DOMAIN batches[n] THEN <<batches[n][k]>> ELSE <<>>] = <<>>
  BY <1>1
<1> QED BY <1>2, FlattenEmpty, Zenon DEF Closed

\* The candles of a timeframe in these batches.
ClosedIn(k, bs) == FlattenSeq([n \in DOMAIN bs |-> IF k \in DOMAIN bs[n] THEN <<bs[n][k]>> ELSE <<>>])

LEMMA ClosedType ==
  ASSUME NEW k, NEW bs \in Seq(Batch)
  PROVE  /\ [n \in DOMAIN bs |-> IF k \in DOMAIN bs[n] THEN <<bs[n][k]>> ELSE <<>>] \in Seq(Seq(Candle))
         /\ ClosedIn(k, bs) \in Seq(Candle)
<1>1. PICK n \in Nat : n = Len(bs)
  OBVIOUS
<1>2. PICK f : f = [i \in DOMAIN bs |-> IF k \in DOMAIN bs[i] THEN <<bs[i][k]>> ELSE <<>>]
  OBVIOUS
<1>3. DOMAIN f = 1..n
  BY <1>1, <1>2
<1>4. ASSUME NEW i \in 1..n PROVE f[i] \in Seq(Candle)
  <2>1. f[i] = IF k \in DOMAIN bs[i] THEN <<bs[i][k]>> ELSE <<>>
    BY <1>1, <1>2
  <2>2. bs[i] \in Batch
    BY <1>1
  <2>3. k \in DOMAIN bs[i] => bs[i][k] \in Candle
    BY <2>2 DEF Batch
  <2> QED BY <2>1, <2>3
<1>5. f \in [1..n -> Seq(Candle)]
  BY <1>2, <1>3, <1>4
<1>6. f \in Seq(Seq(Candle))
  BY <1>5
<1>7. FlattenSeq(f) \in Seq(Candle)
  BY <1>6, FlattenType
<1> QED BY <1>2, <1>6, <1>7 DEF ClosedIn

LEMMA ClosedMore ==
  ASSUME NEW k, NEW bs \in Seq(Batch), NEW b \in Batch
  PROVE  ClosedIn(k, Append(bs, b)) = IF k \in DOMAIN b THEN Append(ClosedIn(k, bs), b[k]) ELSE ClosedIn(k, bs)
<1>1. PICK n \in Nat : n = Len(bs)
  OBVIOUS
<1>2. PICK f : f = [i \in DOMAIN bs |-> IF k \in DOMAIN bs[i] THEN <<bs[i][k]>> ELSE <<>>]
  OBVIOUS
<1>3. PICK more : more = Append(bs, b)
  OBVIOUS
<1>4. PICK g : g = [i \in DOMAIN more |-> IF k \in DOMAIN more[i] THEN <<more[i][k]>> ELSE <<>>]
  OBVIOUS
<1>5. PICK s : s = IF k \in DOMAIN b THEN <<b[k]>> ELSE <<>>
  OBVIOUS
<1>6. s \in Seq(Candle)
  <2>1. k \in DOMAIN b => b[k] \in Candle
    BY DEF Batch
  <2> QED BY <1>5, <2>1
<1>7. f \in Seq(Seq(Candle)) /\ ClosedIn(k, bs) \in Seq(Candle)
  BY <1>2, ClosedType
<1>8. more \in Seq(Batch) /\ DOMAIN more = 1..(n + 1) /\ \A i \in 1..n : more[i] = bs[i]
  BY <1>1, <1>3
<1>9. more[n + 1] = b /\ DOMAIN f = 1..n /\ DOMAIN g = 1..(n + 1)
  BY <1>1, <1>2, <1>3, <1>4, <1>8
<1>10. \A i \in 1..n : g[i] = f[i]
  BY <1>1, <1>2, <1>4, <1>8
<1>11. g[n + 1] = s
  <2>1. g[n + 1] = IF k \in DOMAIN more[n + 1] THEN <<more[n + 1][k]>> ELSE <<>>
    BY <1>4, <1>9
  <2> QED BY <1>5, <1>9, <2>1, Zenon
<1>12. g \in Seq(Seq(Candle))
  BY <1>4, <1>8, ClosedType
<1>13. g = Append(f, s)
  <2>1. Len(f) = n /\ Len(g) = n + 1
    BY <1>7, <1>9, <1>12
  <2> QED BY <1>6, <1>7, <1>10, <1>11, <1>12, <2>1
<1>14. FlattenSeq(g) = FlattenSeq(f) \o s
  <2>1. FlattenSeq(Append(f, s)) = FlattenSeq(f) \o s
    BY <1>6, <1>7, FlattenAppend
  <2> QED BY <1>13, <2>1, Zenon
<1>15. ClosedIn(k, more) = FlattenSeq(g) /\ ClosedIn(k, bs) = FlattenSeq(f)
  BY <1>2, <1>4, Zenon DEF ClosedIn
<1>16. ClosedIn(k, more) = ClosedIn(k, bs) \o s
  BY <1>14, <1>15, Zenon
<1>17. PICK cs \in Seq(Candle) : cs = ClosedIn(k, bs)
  BY <1>7
<1>18. cs \o s = IF k \in DOMAIN b THEN Append(cs, b[k]) ELSE cs
  <2>1. CASE k \in DOMAIN b
    <3>1. s = <<b[k]>>
      BY <1>5, <2>1
    <3> QED BY <1>17, <2>1, <3>1
  <2>2. CASE k \notin DOMAIN b
    <3>1. s = <<>>
      BY <1>5, <2>2
    <3> QED BY <1>17, <2>2, <3>1
  <2> QED BY <2>1, <2>2
<1> QED BY <1>3, <1>16, <1>17, <1>18, Zenon

LEMMA TradesInMore ==
  ASSUME NEW cs \in Seq(Candle), NEW x \in Candle
  PROVE  TradesIn(Append(cs, x)) = TradesIn(cs) \o x.trades /\ TradesIn(cs) \in Seq(Emitted)
<1>1. PICK n \in Nat : n = Len(cs)
  OBVIOUS
<1>2. PICK f : f = [i \in DOMAIN cs |-> cs[i].trades]
  OBVIOUS
<1>3. PICK more : more = Append(cs, x)
  OBVIOUS
<1>4. PICK g : g = [i \in DOMAIN more |-> more[i].trades]
  OBVIOUS
<1>5. PICK s \in Seq(Emitted) : s = x.trades
  BY DEF Candle
<1>6. more \in Seq(Candle) /\ DOMAIN more = 1..(n + 1) /\ (\A i \in 1..n : more[i] = cs[i]) /\ more[n + 1] = x
  BY <1>1, <1>3
<1>7. DOMAIN f = 1..n /\ DOMAIN g = 1..(n + 1) /\ \A i \in 1..n : g[i] = f[i]
  BY <1>1, <1>2, <1>4, <1>6
<1>8. g[n + 1] = s
  BY <1>4, <1>5, <1>6
<1>9. \A i \in 1..n : f[i] \in Seq(Emitted)
  <2>1. \A i \in 1..n : cs[i] \in Candle /\ f[i] = cs[i].trades
    BY <1>1, <1>2
  <2> QED BY <2>1 DEF Candle
<1>10. f \in Seq(Seq(Emitted)) /\ Len(f) = n
  <2>1. f \in [1..n -> Seq(Emitted)]
    BY <1>2, <1>7, <1>9
  <2> QED BY <2>1
<1>11. g \in Seq(Seq(Emitted)) /\ Len(g) = n + 1
  <2>1. \A i \in 1..(n + 1) : g[i] \in Seq(Emitted)
    BY <1>7, <1>8, <1>9
  <2>2. g \in [1..(n + 1) -> Seq(Emitted)]
    BY <1>4, <1>7, <2>1
  <2> QED BY <2>2
<1>12. g = Append(f, s)
  BY <1>5, <1>7, <1>8, <1>10, <1>11
<1>13. FlattenSeq(Append(f, s)) = FlattenSeq(f) \o s
  BY <1>5, <1>10, FlattenAppend
<1>14. FlattenSeq(f) \in Seq(Emitted)
  BY <1>10, FlattenType
<1>15. TradesIn(cs) = FlattenSeq(f) /\ TradesIn(more) = FlattenSeq(g)
  BY <1>2, <1>4, Zenon DEF TradesIn
<1> QED BY <1>3, <1>5, <1>12, <1>13, <1>14, <1>15, Zenon

\* A candle more, which follows the last.
LEMMA ToldMore ==
  ASSUME NEW tf, NEW cs \in Seq(Candle), NEW trades \in Seq(Emitted), Told(tf, cs, trades),
         NEW x \in Candle, NEW e \in Emitted, x.trades = <<e>>, Within(tf, x),
         cs # <<>> => Follows(tf, cs[Len(cs)], x)
  PROVE  Told(tf, Append(cs, x), Append(trades, e))
<1>1. PICK n \in Nat : n = Len(cs)
  OBVIOUS
<1>2. PICK more : more = Append(cs, x)
  OBVIOUS
<1>3. /\ DOMAIN cs = 1..n /\ DOMAIN more = 1..(n + 1) /\ Len(more) = n + 1
      /\ (\A i \in 1..n : more[i] = cs[i]) /\ more[n + 1] = x
  BY <1>1, <1>2
<1>4. TradesIn(more) = Append(trades, e)
  <2>1. TradesIn(more) = trades \o <<e>>
    BY <1>2, TradesInMore DEF Told
  <2> QED BY <2>1
<1>5. \A i \in 1..(n + 1) : Within(tf, more[i])
  <2>1. \A i \in 1..n : Within(tf, cs[i])
    BY <1>3 DEF Told
  <2> QED BY <1>3, <2>1
<1>6. ASSUME NEW i \in 2..(n + 1) PROVE Follows(tf, more[i - 1], more[i])
  <2>1. CASE i = n + 1
    <3>1. n \in 1..n /\ cs # <<>> /\ i - 1 = n
      BY <1>1, <2>1
    <3> QED BY <1>1, <1>3, <2>1, <3>1
  <2>2. CASE i \in 2..n
    <3>1. i \in 1..n /\ i - 1 \in 1..n
      BY <2>2
    <3>2. Follows(tf, cs[i - 1], cs[i])
      BY <1>1, <2>2 DEF Told
    <3> QED BY <1>3, <3>1, <3>2
  <2> QED BY <2>1, <2>2
<1> QED BY <1>2, <1>3, <1>4, <1>5, <1>6 DEF Told

\* A trade more in the last candle.
LEMMA ToldGrown ==
  ASSUME NEW tf \in Alignment, NEW cs \in Seq(Candle), NEW trades \in Seq(Emitted), NEW c \in Candle,
         Told(tf, Append(cs, c), trades), NEW e \in Emitted,
         e.at >= c.from, e.at < c.from + tf.duration
  PROVE  Told(tf, Append(cs, [c EXCEPT !.trades = Append(@, e)]), Append(trades, e))
<1>1. PICK n \in Nat : n = Len(cs)
  OBVIOUS
<1>2. PICK x : x = [c EXCEPT !.trades = Append(@, e)]
  OBVIOUS
<1>3. /\ x \in Candle /\ x.trades = Append(c.trades, e) /\ x.from = c.from /\ x.gap = c.gap
      /\ c.trades \in Seq(Emitted) /\ c.from \in Int
  <2>1. c.trades \in Seq(Emitted) /\ c.from \in Int
    BY DEF Candle
  <2>2. x.trades = Append(c.trades, e) /\ x.from = c.from /\ x.gap = c.gap
    BY <1>2 DEF Candle
  <2>3. Append(c.trades, e) \in Seq(Emitted)
    BY <2>1
  <2>4. x \in Candle
    BY <1>2, <2>3 DEF Candle
  <2> QED BY <2>1, <2>2, <2>4
<1>4. PICK old : old = Append(cs, c)
  OBVIOUS
<1>5. PICK more : more = Append(cs, x)
  OBVIOUS
<1>6. /\ DOMAIN old = 1..(n + 1) /\ DOMAIN more = 1..(n + 1) /\ Len(more) = n + 1 /\ Len(old) = n + 1
      /\ (\A i \in 1..n : more[i] = old[i]) /\ more[n + 1] = x /\ old[n + 1] = c
  BY <1>1, <1>4, <1>5
<1>7. TradesIn(more) = Append(trades, e)
  <2>1. PICK t \in Seq(Emitted) : t = TradesIn(cs)
    BY <1>3, TradesInMore
  <2>2. TradesIn(more) = t \o Append(c.trades, e)
    <3>1. TradesIn(Append(cs, x)) = TradesIn(cs) \o x.trades
      BY <1>3, TradesInMore
    <3> QED BY <1>3, <1>5, <2>1, <3>1, Zenon
  <2>3. trades = t \o c.trades
    <3>1. TradesIn(Append(cs, c)) = TradesIn(cs) \o c.trades
      BY TradesInMore
    <3>2. TradesIn(Append(cs, c)) = trades
      BY DEF Told
    <3> QED BY <2>1, <3>1, <3>2, Zenon
  <2>4. t \o Append(c.trades, e) = Append(t \o c.trades, e)
    BY <1>3, <2>1, SMTT(30)
  <2> QED BY <2>2, <2>3, <2>4, Zenon
<1>8. \A i \in 1..(n + 1) : Within(tf, old[i])
  BY <1>4, <1>6 DEF Told
<1>9. Within(tf, x)
  <2>1. PICK m \in Nat : m = Len(c.trades)
    BY <1>3
  <2>2. DOMAIN x.trades = 1..(m + 1) /\ (\A j \in 1..m : x.trades[j] = c.trades[j]) /\ x.trades[m + 1] = e
    BY <1>3, <2>1
  <2>3. tf.duration \in Nat \ {0} /\ e.at \in Nat
    BY EmittedType DEF Alignment
  <2>4. e.at \in x.from..(CloseTime(tf, x) - 1)
    BY <1>3, <2>3 DEF CloseTime
  <2>5. CloseTime(tf, x) = CloseTime(tf, c)
    BY <1>3 DEF CloseTime
  <2>6. \A j \in 1..m : c.trades[j].at \in c.from..(CloseTime(tf, c) - 1)
    <3>1. Within(tf, c) /\ DOMAIN c.trades = 1..m
      <4>1. n + 1 \in 1..(n + 1)
        OBVIOUS
      <4> QED BY <1>3, <1>6, <1>8, <2>1, <4>1
    <3> QED BY <3>1 DEF Within
  <2>7. \A j \in 1..(m + 1) : x.trades[j].at \in x.from..(CloseTime(tf, x) - 1)
    BY <1>3, <2>2, <2>4, <2>5, <2>6
  <2> QED BY <2>2, <2>7 DEF Within
<1>10. \A i \in 1..(n + 1) : Within(tf, more[i])
  BY <1>6, <1>8, <1>9
<1>11. ASSUME NEW i \in 2..(n + 1) PROVE Follows(tf, more[i - 1], more[i])
  <2>1. Follows(tf, old[i - 1], old[i])
    BY <1>4, <1>6 DEF Told
  <2>2. more[i - 1] = old[i - 1] /\ more[i].from = old[i].from /\ more[i].gap = old[i].gap
    <3>1. i - 1 \in 1..n
      OBVIOUS
    <3>2. i \in 1..n \/ i = n + 1
      OBVIOUS
    <3> QED BY <1>3, <1>6, <3>1, <3>2
  <2> QED BY <2>1, <2>2 DEF Follows
<1> QED BY <1>2, <1>5, <1>6, <1>7, <1>10, <1>11 DEF Told

LEMMA TradesMore ==
  ASSUME StreamInv, NEW e \in Range(source), Ingest(e)
  PROVE  /\ Trades \in Seq(Emitted) /\ e \in Emitted
         /\ Trades' = Append(Trades, e)
         /\ accepted = <<>> => Trades = <<>>
<1>1. PICK n \in Nat : n = Len(accepted)
  BY DEF StreamInv, StreamTypes
<1>2. accepted \in Seq(Taken) /\ e \in Emitted /\ stream.epoch \in Nat
  BY DEF StreamInv, StreamTypes, Emitted, Streams
<1>3. PICK x : x = [trade |-> e, epoch |-> stream.epoch]
  OBVIOUS
<1>4. accepted' = Append(accepted, x) /\ x.trade = e /\ x \in Taken
  BY <1>2, <1>3 DEF Ingest, Taken
<1>5. /\ DOMAIN accepted = 1..n /\ DOMAIN accepted' = 1..(n + 1)
      /\ (\A i \in 1..n : accepted'[i] = accepted[i]) /\ accepted'[n + 1] = x
  BY <1>1, <1>2, <1>4
<1>6. PICK s : s = Trades
  OBVIOUS
<1>7. PICK t : t = Trades'
  OBVIOUS
<1>8. s = [i \in DOMAIN accepted |-> accepted[i].trade]
  BY <1>6 DEF Trades
<1>9. t = [i \in DOMAIN accepted' |-> accepted'[i].trade]
  BY <1>7 DEF Trades
<1>10. \A i \in 1..n : accepted[i].trade \in Emitted
  <2>1. \A i \in 1..n : accepted[i] \in Taken
    BY <1>1, <1>2
  <2> QED BY <2>1 DEF Taken
<1>11. s \in Seq(Emitted) /\ Len(s) = n
  <2>1. s \in [1..n -> Emitted]
    BY <1>5, <1>8, <1>10
  <2> QED BY <2>1
<1>12. t \in Seq(Emitted) /\ Len(t) = n + 1
  <2>1. \A i \in 1..(n + 1) : accepted'[i].trade \in Emitted
    BY <1>2, <1>4, <1>5, <1>10
  <2>2. t \in [1..(n + 1) -> Emitted]
    BY <1>5, <1>9, <2>1
  <2> QED BY <2>2
<1>13. (\A i \in 1..n : t[i] = s[i]) /\ t[n + 1] = e
  BY <1>4, <1>5, <1>8, <1>9
<1>14. t = Append(s, e)
  BY <1>2, <1>11, <1>12, <1>13
<1>15. accepted = <<>> => s = <<>>
  BY <1>1, <1>11
<1> QED BY <1>2, <1>6, <1>7, <1>11, <1>14, <1>15, Zenon

\* What e does to the finalized candles of a timeframe.
LEMMA ClosedGoesOn ==
  ASSUME StreamInv, MarketTypes, NEW e \in Range(source), Ingest(e), NEW k \in DOMAIN Timeframes
  PROVE  /\ Closed(k) \in Seq(Candle)
         /\ Closed(k)' = IF Finalizes(Timeframes[k], current[k], e) THEN Append(Closed(k), current[k]) ELSE Closed(k)
<1>1. PICK b \in Batch : b = FinalizedBy(e)
  BY FinalizedType
<1>2. /\ k \in DOMAIN b <=> Finalizes(Timeframes[k], current[k], e)
      /\ k \in DOMAIN b => b[k] = current[k]
  BY <1>1 DEF FinalizedBy, Restrict
<1>3. PICK cs \in Seq(Candle) : cs = Closed(k) /\ cs = ClosedIn(k, batches)
  <2>1. Closed(k) = ClosedIn(k, batches)
    BY DEF Closed, ClosedIn
  <2> QED BY <2>1, ClosedType DEF MarketTypes
<1>4. Closed(k)' = ClosedIn(k, batches')
  BY DEF Closed, ClosedIn
<1>5. CASE DOMAIN b = {}
  <2>1. batches' = batches
    BY <1>1, <1>5 DEF Ingest
  <2> QED BY <1>2, <1>3, <1>4, <1>5, <2>1
<1>6. CASE DOMAIN b # {}
  <2>1. batches' = Append(batches, b)
    BY <1>1, <1>6 DEF Ingest
  <2>2. ClosedIn(k, Append(batches, b)) =
          IF k \in DOMAIN b THEN Append(ClosedIn(k, batches), b[k]) ELSE ClosedIn(k, batches)
    BY ClosedMore DEF MarketTypes
  <2> QED BY <1>2, <1>3, <1>4, <2>1, <2>2, Zenon
<1> QED BY <1>5, <1>6

\* Only an accepted trade moves the builders and the stream's time.
LEMMA OnlyIngestBuilds ==
  ASSUME StreamInv, [Next]_vars, ~(\E i \in DOMAIN source : Ingest(source[i]))
  PROVE  UNCHANGED <<current, batches, accepted>> /\ stream'.latest = stream.latest
<1>1. ASSUME NEW t \in Times, BeginSourceEpoch(t)
      PROVE  UNCHANGED <<current, batches, accepted>> /\ stream'.latest = stream.latest
  BY <1>1 DEF BeginSourceEpoch, StreamInv, StreamTypes, Streams
<1>2. ASSUME NEW i \in DOMAIN batches, Analyze(i) PROVE UNCHANGED market
  BY <1>2 DEF Analyze
<1>3. ASSUME NEW i \in DOMAIN cycles, NEW x \in Contexts, Decide(i, x) \/ DecideAgain(i, x) PROVE UNCHANGED market
  BY <1>3 DEF Decide, DecideAgain
<1>4. ASSUME NEW j \in DOMAIN decisions, NEW x, PrepareDuplicate(decisions[j]) \/ Prepare(decisions[j], x)
      PROVE  UNCHANGED market
  BY <1>4 DEF PrepareDuplicate, Prepare, Publish
<1>5. UNCHANGED vars => UNCHANGED market
  BY DEF vars
<1>6. CASE UNCHANGED market
  BY <1>6 DEF market
<1> QED BY <1>1, <1>2, <1>3, <1>4, <1>5, <1>6 DEF Next

LEMMA BuiltGoesOn ==
  ASSUME StreamInv, MarketTypes, CandlesInv, NEW e \in Range(source), Ingest(e), NEW k \in DOMAIN Timeframes
  PROVE  Built(k)'
<1>1. PICK tf \in Alignment : tf = Timeframes[k]
  BY TimeframeType
<1>2. /\ Trades \in Seq(Emitted) /\ e \in Emitted /\ Trades' = Append(Trades, e)
      /\ accepted = <<>> => Trades = <<>>
  BY TradesMore
<1>3. PICK c : c = current[k]
  OBVIOUS
<1>4. PICK o \in Int : o = BucketOpen(tf, e.at)
  BY <1>2, EmittedType, Buckets
<1>5. o =< e.at /\ e.at < o + tf.duration /\ e.at \in Nat /\ tf.duration \in Nat \ {0}
  <2>1. e.at \in Nat /\ e.at \in Int
    BY <1>2, EmittedType
  <2>2. BucketOpen(tf, e.at) =< e.at /\ e.at < BucketOpen(tf, e.at) + tf.duration
    BY <2>1, Buckets
  <2> QED BY <1>4, <2>1, <2>2 DEF Alignment
<1>6. c \in Candle \union {NoCandle}
  BY <1>3 DEF MarketTypes
<1>7. current'[k] = Accumulated(tf, c, e) /\ current'[k] \in Candle
  <2>1. current'[k] = Accumulated(Timeframes[k], current[k], e)
    BY DEF Ingest
  <2> QED BY <1>1, <1>2, <1>3, <1>6, <2>1, AccumulatedType
<1>8. current'[k] # NoCandle /\ stream'.latest = e.at /\ stream'.latest # Never
  <2>1. stream'.latest = e.at
    BY DEF Ingest, StreamInv, StreamTypes, Streams
  <2> QED BY <1>5, <1>7, <2>1, NoCandleIsNone, EmittedType
<1>11. PICK cs \in Seq(Candle) :
         cs = Closed(k) /\ Closed(k)' = IF Finalizes(tf, c, e) THEN Append(cs, c) ELSE cs
  BY <1>1, <1>3, ClosedGoesOn
<1>14. PICK x : x = current'[k]
  OBVIOUS
<1>15. \A gap \in BOOLEAN :
         LET y == Opened(tf, e, gap) IN y.trades = <<e>> /\ y.from = o /\ y.gap = gap /\ Within(tf, y)
  <2> SUFFICES ASSUME NEW gap \in BOOLEAN, NEW y, y = Opened(tf, e, gap)
               PROVE  y.trades = <<e>> /\ y.from = o /\ y.gap = gap /\ Within(tf, y)
    BY Zenon
  <2>1. y.trades = <<e>> /\ y.from = o /\ y.gap = gap
    BY <1>4 DEF Opened
  <2>2. e.at \in o..((o + tf.duration) - 1)
    BY <1>5
  <2>3. DOMAIN y.trades = {1} /\ y.trades[1] = e
    BY <2>1
  <2>4. \A j \in DOMAIN y.trades : y.trades[j].at = e.at
    BY <2>3
  <2>5. CloseTime(tf, y) - 1 = (o + tf.duration) - 1
    BY <2>1, Zenon DEF CloseTime
  <2>6. Within(tf, y)
    BY <2>1, <2>2, <2>4, <2>5, Zenon DEF Within
  <2> QED BY <2>1, <2>6
<1>16. Built(k)
  BY DEF CandlesInv
<1>17. Told(tf, Append(Closed(k)', x), Trades') /\ x.from = o
  <2>1. CASE c = NoCandle
    <3>1. x = Opened(tf, e, FALSE) /\ ~Finalizes(tf, c, e)
      BY <1>7, <1>14, <2>1 DEF Accumulated, Finalizes
    <3>2. cs = <<>> /\ Trades = <<>>
      BY <1>2, <1>3, <1>11, <1>16, <2>1, ClosedEmpty DEF Built
    <3>3. TradesIn(<<>>) = <<>>
      <4>1. DOMAIN <<>> = {}
        OBVIOUS
      <4>2. [i \in DOMAIN <<>> |-> <<>>[i].trades] = <<>>
        BY <4>1
      <4> QED BY <4>2, FlattenEmpty, Zenon DEF TradesIn
    <3>4. Told(tf, cs, Trades)
      BY <3>2, <3>3 DEF Told
    <3>5. x \in Candle /\ x.trades = <<e>> /\ x.from = o /\ Within(tf, x)
      BY <1>7, <1>14, <1>15, <3>1
    <3>6. Told(tf, Append(cs, x), Append(Trades, e))
      BY <1>2, <3>2, <3>4, <3>5, ToldMore
    <3> QED BY <1>2, <1>11, <3>1, <3>5, <3>6, Zenon
  <2>2. CASE c # NoCandle /\ o = c.from
    <3>1. x = [c EXCEPT !.trades = Append(@, e)] /\ ~Finalizes(tf, c, e) /\ c \in Candle
      BY <1>4, <1>6, <1>7, <1>14, <2>2 DEF Accumulated, Finalizes
    <3>2. Told(tf, Append(cs, c), Trades)
      BY <1>1, <1>3, <1>11, <1>16, <2>2 DEF Built
    <3>3. e.at >= c.from /\ e.at < c.from + tf.duration
      BY <1>5, <2>2
    <3>4. Told(tf, Append(cs, [c EXCEPT !.trades = Append(@, e)]), Append(Trades, e))
      BY <1>2, <3>1, <3>2, <3>3, ToldGrown
    <3>5. x.from = o
      BY <2>2, <3>1 DEF Candle
    <3> QED BY <1>2, <1>11, <3>1, <3>4, <3>5, Zenon
  <2>3. CASE c # NoCandle /\ o # c.from
    <3>1. (o > CloseTime(tf, c)) \in BOOLEAN
      OBVIOUS
    <3>2. x = Opened(tf, e, o > CloseTime(tf, c)) /\ Finalizes(tf, c, e) /\ c \in Candle
      <4>1. Finalizes(tf, c, e) /\ c \in Candle
        BY <1>4, <1>6, <2>3 DEF Finalizes
      <4>2. x = Opened(tf, e, BucketOpen(tf, e.at) > CloseTime(tf, c))
        BY <1>7, <1>14, <2>3, <4>1 DEF Accumulated
      <4> QED BY <1>4, <4>1, <4>2
    <3>3. x \in Candle /\ x.trades = <<e>> /\ x.from = o /\ x.gap = (o > CloseTime(tf, c)) /\ Within(tf, x)
      BY <1>7, <1>14, <1>15, <3>1, <3>2, Zenon
    <3>4. Told(tf, Append(cs, c), Trades)
      BY <1>1, <1>3, <1>11, <1>16, <2>3 DEF Built
    <3>5. o >= CloseTime(tf, c) /\ CloseTime(tf, c) \in Int
      <4>1. PICK t \in Nat : stream.latest # Never /\ t =< stream.latest /\ c.from = BucketOpen(tf, t)
        BY <1>1, <1>3, <1>16, <2>3 DEF Built
      <4>2. stream.latest \in Nat /\ e.at >= stream.latest
        BY <4>1 DEF Ingest, InTime, StreamInv, StreamTypes, Streams
      <4>3. t =< e.at
        BY <1>5, <4>1, <4>2
      <4>4. o >= c.from + tf.duration
        BY <1>4, <1>5, <2>3, <4>1, <4>3, Buckets, SMTT(30)
      <4> QED BY <1>5, <3>2, <4>4 DEF CloseTime, Candle
    <3>6. Follows(tf, c, x)
      <4>1. o > CloseTime(tf, c) <=> o # CloseTime(tf, c)
        BY <3>5
      <4>2. x.gap <=> x.from # CloseTime(tf, c)
        BY <3>3, <4>1, Zenon
      <4> QED BY <3>3, <3>5, <4>2, Zenon DEF Follows
    <3>7. PICK all \in Seq(Candle) : all = Append(cs, c)
      <4>1. c \in Candle
        BY <3>2
      <4>2. Append(cs, c) \in Seq(Candle)
        BY <4>1
      <4> QED BY <4>2
    <3>8. all[Len(all)] = c
      BY <3>2, <3>7
    <3>9. Told(tf, all, Trades)
      BY <3>4, <3>7
    <3>10. Follows(tf, all[Len(all)], x)
      BY <3>6, <3>8
    <3>11. Told(tf, Append(all, x), Append(Trades, e))
      BY <1>2, <3>3, <3>9, <3>10, ToldMore
    <3> QED BY <1>2, <1>11, <3>2, <3>3, <3>7, <3>11, Zenon
  <2> QED BY <2>1, <2>2, <2>3
<1>18. e.at =< stream'.latest /\ x.from = BucketOpen(tf, e.at)
  BY <1>4, <1>5, <1>8, <1>17
<1>19. \E t \in Nat : t =< stream'.latest /\ current'[k].from = BucketOpen(Timeframes[k], t)
  BY <1>1, <1>5, <1>14, <1>18
<1> QED BY <1>1, <1>8, <1>14, <1>17, <1>19 DEF Built

LEMMA CandlesFirst == ASSUME Init PROVE CandlesInv
<1> SUFFICES ASSUME NEW k \in DOMAIN Timeframes PROVE Built(k)
  BY DEF CandlesInv
<1>1. current[k] = NoCandle /\ batches = <<>> /\ accepted = <<>>
  BY DEF Init
<1> QED BY <1>1 DEF Built

LEMMA CandlesStay ==
  ASSUME StreamInv, MarketTypes, CandlesInv, [Next]_vars
  PROVE  CandlesInv'
<1>1. CASE \E i \in DOMAIN source : Ingest(source[i])
  <2>1. PICK e \in Range(source) : Ingest(e)
    BY <1>1 DEF Range
  <2> QED BY <2>1, BuiltGoesOn DEF CandlesInv
<1>2. CASE UNCHANGED <<current, batches, accepted>> /\ stream'.latest = stream.latest
  <2> SUFFICES ASSUME NEW k \in DOMAIN Timeframes PROVE Built(k)'
    BY DEF CandlesInv
  <2>1. Closed(k)' = Closed(k) /\ Trades' = Trades
    BY <1>2 DEF Closed, Trades
  <2>2. Built(k)
    BY DEF CandlesInv
  <2> QED BY <1>2, <2>1, <2>2 DEF Built
<1> QED BY <1>1, <1>2, OnlyIngestBuilds

\* Every accepted trade is in one candle of each timeframe, in its order and in
\* the bucket of its time, and a candle says whether a bucket is missing before
\* it (ingest of TradeToCandleBuilder, whose input live ingestion keeps in order).
THEOREM CandlesHoldTheTrades == Spec => []CandlesAreTheTrades
<1>1. Init => CandlesInv
  BY CandlesFirst
<1>2. StreamInv /\ MarketTypes /\ CandlesInv /\ [Next]_vars => CandlesInv'
  BY CandlesStay
<1>3. ASSUME StreamInv, MarketTypes, CandlesInv PROVE CandlesAreTheTrades
  <2> SUFFICES ASSUME NEW k \in DOMAIN Timeframes, NEW tf, tf = Timeframes[k], NEW candles,
                      candles = IF current[k] = NoCandle THEN <<>> ELSE Append(Closed(k), current[k])
               PROVE  /\ FlattenSeq([i \in DOMAIN candles |-> candles[i].trades]) = Trades
                      /\ \A i \in DOMAIN candles : \A j \in DOMAIN candles[i].trades :
                           candles[i].trades[j].at \in candles[i].from..(CloseTime(tf, candles[i]) - 1)
                      /\ \A i \in 2..Len(candles) :
                           /\ candles[i].from >= CloseTime(tf, candles[i - 1])
                           /\ candles[i].gap <=> candles[i].from # CloseTime(tf, candles[i - 1])
    BY Zenon DEF CandlesAreTheTrades
  <2>1. Built(k)
    BY <1>3 DEF CandlesInv
  <2>2. Told(tf, candles, Trades)
    <3>1. CASE current[k] # NoCandle
      BY <2>1, <3>1 DEF Built
    <3>2. CASE current[k] = NoCandle
      <4>1. candles = <<>> /\ DOMAIN candles = {} /\ Len(candles) = 0
        BY <3>2
      <4>2. Trades = <<>>
        <5>1. DOMAIN accepted = {}
          BY <2>1, <3>2 DEF Built
        <5> QED BY <5>1 DEF Trades
      <4>3. [i \in DOMAIN candles |-> candles[i].trades] = <<>>
        BY <4>1
      <4>4. TradesIn(candles) = <<>>
        BY <4>3, FlattenEmpty, Zenon DEF TradesIn
      <4> QED BY <4>1, <4>2, <4>4 DEF Told
    <3> QED BY <3>1, <3>2
  <2> QED BY <2>2, Zenon DEF Told, TradesIn, Within, Follows
<1> QED BY <1>1, <1>2, <1>3, StreamInvariant, PublishedInvariant, PTL DEF Spec
-----------------------------------------------------------------------------
(* A replay of trades through a new builder, one trade at a time.              *)

NewBuilder == [current |-> NoCandle, closed |-> <<>>]

\* What Finalized is computed by.
Folds(tf, e, S, g) ==
  g = [s \in SUBSET S |-> IF s = {} THEN NewBuilder ELSE Processed(tf, g[s \ {Max(s)}], e[Max(s)])]

LEMMA FinalizedIsFold ==
  ASSUME NEW tf, NEW e
  PROVE  Finalized(tf, e) = ((CHOOSE g : Folds(tf, e, DOMAIN e, g))[DOMAIN e]).closed
BY DEF Finalized, FoldLeft, MapThenFoldSet, Folds, NewBuilder

LEMMA GreatestBelow ==
  ASSUME NEW L \in Int, NEW S, S \subseteq Int, S # {}, \A k \in S : k =< L
  PROVE  Max(S) \in S /\ \A k \in S : k =< Max(S)
<1> SUFFICES \E m \in S : \A k \in S : m >= k
  BY DEF Max
<1> DEFINE T == {L - k : k \in S}
<1>1. T \subseteq Nat /\ T # {}
  <2>1. \A k \in S : L - k \in Nat
    OBVIOUS
  <2> QED BY <2>1
<1>2. PICK l \in T : \A k \in T : l =< k
  <2> HIDE DEF T
  <2> QED BY <1>1, LeastMember
<1>3. PICK m \in S : l = L - m
  OBVIOUS
<1>4. ASSUME NEW k \in S PROVE m >= k
  <2>1. L - m =< L - k
    BY <1>2, <1>3
  <2>2. m \in Int /\ k \in Int
    OBVIOUS
  <2> QED BY <2>1, <2>2
<1> QED BY <1>4

LEMMA Greatest ==
  ASSUME NEW n \in Nat, NEW s \in SUBSET (1..n), s # {}
  PROVE  Max(s) \in s /\ \A k \in s : k =< Max(s)
<1>1. n \in Int /\ s \subseteq Int /\ \A k \in s : k =< n
  OBVIOUS
<1> QED BY <1>1, GreatestBelow

LEMMA Sizes ==
  ASSUME NEW S, IsFiniteSet(S), NEW s \in SUBSET S
  PROVE  /\ Cardinality(s) \in Nat /\ Cardinality(s) =< Cardinality(S) /\ (Cardinality(s) = 0 <=> s = {})
         /\ \A x \in s : s \ {x} \in SUBSET S /\ Cardinality(s \ {x}) = Cardinality(s) - 1
BY FS_Subset, FS_CardinalityType, FS_EmptySet, FS_RemoveElement

LEMMA FoldExists ==
  ASSUME NEW tf, NEW e, NEW S, IsFiniteSet(S), \A s \in SUBSET S : s # {} => Max(s) \in s
  PROVE  \E g : Folds(tf, e, S, g)
<1> DEFINE Small(k) == {s \in SUBSET S : Cardinality(s) =< k}
           Rest(s) == s \ {Max(s)}
           Value(g, s) == Processed(tf, g[Rest(s)], e[Max(s)])
           Up(k, g) == g = [s \in Small(k) |-> IF s = {} THEN NewBuilder ELSE Value(g, s)]
           T == {k \in Nat : \E g : Up(k, g)}
<1> DEFINE n == Cardinality(S)
<1>0. \A s \in SUBSET S : /\ Cardinality(s) \in Nat /\ Cardinality(s) =< n /\ (Cardinality(s) = 0 <=> s = {})
                          /\ s # {} => Rest(s) \in SUBSET S /\ Cardinality(Rest(s)) = Cardinality(s) - 1
  BY Sizes
<1>n. n \in Nat
  BY Sizes
<1> HIDE DEF n
<1>1. 0 \in T
  <2>1. Up(0, [s \in Small(0) |-> NewBuilder])
    <3>1. \A s \in Small(0) : s = {}
      <4> HIDE DEF Rest
      <4> QED BY <1>0
    <3> HIDE DEF Small
    <3> QED BY <3>1
  <2> QED BY <2>1
<1>2. ASSUME NEW k \in Nat, NEW g, Up(k, g) PROVE \E h : Up(k + 1, h)
  <2>1. PICK h : h = [s \in Small(k + 1) |-> IF s = {} THEN NewBuilder ELSE Value(g, s)]
    OBVIOUS
  <2>2. \A s \in Small(k) : s \in Small(k + 1)
    <3> HIDE DEF Rest
    <3> QED BY <1>0
  <2>3. \A s \in Small(k + 1) : s # {} => Rest(s) \in Small(k)
    <3> HIDE DEF Rest
    <3> QED BY <1>0
  <2>4. \A s \in Small(k) : h[s] = g[s]
    <3> HIDE DEF Small, Value
    <3> QED BY <1>2, <2>1, <2>2
  <2>5. \A s \in Small(k + 1) : s # {} => Value(g, s) = Value(h, s)
    <3>1. \A s \in Small(k + 1) : s # {} => g[Rest(s)] = h[Rest(s)]
      <4> HIDE DEF Small, Rest
      <4> QED BY <2>3, <2>4
    <3> HIDE DEF Small, Rest
    <3> QED BY <3>1
  <2>6. Up(k + 1, h)
    <3> HIDE DEF Small, Value
    <3> QED BY <2>1, <2>5
  <2> QED BY <2>6
<1>3. \A k \in Nat : k \in T => k + 1 \in T
  <2> HIDE DEF Up
  <2> QED BY <1>2
<1>4. n \in T
  <2>1. \A k \in Nat : k \in T
    <3> HIDE DEF T
    <3> QED BY <1>1, <1>3, Inductive
  <2> HIDE DEF T
  <2> QED BY <1>n, <2>1
<1>5. PICK g : Up(n, g)
  BY <1>4
<1>6. Small(n) = SUBSET S
  BY <1>0
<1>7. Folds(tf, e, S, g)
  BY <1>5, <1>6 DEF Folds
<1> QED BY <1>7

\* The states h of a builder that takes in these trades.
BuilderTrace(tf, e, h) ==
  /\ h[0] = NewBuilder
  /\ \A i \in 1..Len(e) : h[i] = Processed(tf, h[i - 1], e[i])

LEMMA FinalizedFollowsTrace ==
  ASSUME NEW tf, NEW S, NEW e \in Seq(S), NEW h, BuilderTrace(tf, e, h)
  PROVE  Finalized(tf, e) = (h[Len(e)]).closed
<1>1. PICK n \in Nat : n = Len(e) /\ DOMAIN e = 1..n
  OBVIOUS
<1>2. PICK g : g = CHOOSE f : Folds(tf, e, 1..n, f)
  OBVIOUS
<1>3. Folds(tf, e, 1..n, g)
  <2>1. IsFiniteSet(1..n)
    BY FS_Interval
  <2>2. \E f : Folds(tf, e, 1..n, f)
    BY <2>1, FoldExists, Greatest
  <2> QED BY <1>2, <2>2
<1> DEFINE T == {i \in Nat : i =< n => g[1..i] = h[i]}
<1>4. 0 \in T
  <2>1. 1..0 = {} /\ {} \in SUBSET (1..n)
    OBVIOUS
  <2>2. g[{}] = NewBuilder
    BY <1>3, <2>1 DEF Folds
  <2> QED BY <2>1, <2>2 DEF BuilderTrace
<1>5. ASSUME NEW i \in Nat, i \in T PROVE i + 1 \in T
  <2> SUFFICES ASSUME i + 1 =< n PROVE g[1..(i + 1)] = h[i + 1]
    OBVIOUS
  <2>1. PICK s : s = 1..(i + 1)
    OBVIOUS
  <2>2. s \in SUBSET (1..n) /\ s # {} /\ i + 1 \in s
    <3>1. \A k \in 1..(i + 1) : k \in 1..n
      OBVIOUS
    <3>2. i + 1 \in 1..(i + 1)
      OBVIOUS
    <3> QED BY <2>1, <3>1, <3>2, Zenon
  <2>3. Max(s) = i + 1
    <3>1. PICK m : m = Max(s)
      OBVIOUS
    <3>2. m \in s /\ \A k \in s : k =< m
      BY <2>2, <3>1, Greatest
    <3> QED BY <2>1, <2>2, <3>1, <3>2
  <2>4. s \ {Max(s)} = 1..i
    BY <2>1, <2>3
  <2>5. g[s] = Processed(tf, g[s \ {Max(s)}], e[Max(s)])
    BY <1>3, <2>2, Zenon DEF Folds
  <2>6. g[s] = Processed(tf, h[i], e[i + 1])
    <3>1. g[1..i] = h[i]
      BY <1>5
    <3> QED BY <2>3, <2>4, <2>5, <3>1, Zenon
  <2>7. i + 1 \in 1..n /\ (i + 1) - 1 = i
    OBVIOUS
  <2>8. h[i + 1] = Processed(tf, h[i], e[i + 1])
    BY <1>1, <2>7 DEF BuilderTrace
  <2> QED BY <2>1, <2>6, <2>8
<1>6. n \in T
  <2> HIDE DEF T
  <2>1. \A i \in Nat : i \in T
    BY <1>4, <1>5, Inductive
  <2> QED BY <2>1
<1>7. Finalized(tf, e) = (g[1..n]).closed
  BY <1>1, <1>2, FinalizedIsFold
<1> QED BY <1>1, <1>6, <1>7

\* The trades of a candle are of its bucket, and they are in order.
Filled(tf, c) ==
  /\ c.trades # <<>>
  /\ \A j \in DOMAIN c.trades : BucketOpen(tf, c.trades[j].at) = c.from
  /\ \A i, j \in DOMAIN c.trades : i < j => c.trades[i].at =< c.trades[j].at

LEMMA Pair ==
  ASSUME NEW S, NEW b \in S, NEW c \in S
  PROVE  Append(<<b>>, c) = <<b, c>>
<1>1. Append(<<b>>, c) = [i \in 1..2 |-> IF i = 1 THEN b ELSE c]
  <2>1. Len(<<b>>) = 1 /\ <<b>>[1] = b
    OBVIOUS
  <2>2. <<b>> \in Seq(S)
    OBVIOUS
  <2>3. Append(<<b>>, c) \in Seq(S) /\ Len(Append(<<b>>, c)) = 2 /\ Append(<<b>>, c)[1] = b /\ Append(<<b>>, c)[2] = c
    BY <2>2, <2>1
  <2> QED BY <2>3
<1>2. <<b, c>> = [i \in 1..2 |-> IF i = 1 THEN b ELSE c]
  OBVIOUS
<1> QED BY <1>1, <1>2

\* e is s between two more.
Encloses(e, before, s, witness) ==
  /\ e \in Seq(Emitted) /\ Len(e) = Len(s) + 2 /\ e[1] = before /\ e[Len(s) + 2] = witness
  /\ \A i \in 2..(Len(s) + 1) : e[i] = s[i - 1]

LEMMA ReplayedEvents ==
  ASSUME NEW before \in Emitted, NEW s \in Seq(Emitted), NEW witness \in Emitted
  PROVE  Encloses(Replayed(before, s, witness), before, s, witness)
<1>a. PICK e : e = Replayed(before, s, witness)
  OBVIOUS
<1>m. PICK m \in Nat : m = Len(s)
  OBVIOUS
<1>1. e = (<<before>> \o s) \o <<witness>>
  BY <1>a, Zenon DEF Replayed
<1>2. PICK d \in Seq(Emitted) : d = <<before>> \o s
  <2>1. <<before>> \in Seq(Emitted)
    OBVIOUS
  <2>2. <<before>> \o s \in Seq(Emitted)
    BY <2>1
  <2> QED BY <2>2
<1>3. Len(d) = m + 1 /\ d[1] = before /\ \A i \in 2..(m + 1) : d[i] = s[i - 1]
  BY <1>m, <1>2
<1>4. e \in Seq(Emitted) /\ Len(e) = m + 2 /\ e[m + 2] = witness
  <2>1. Len(d) = m + 1 /\ <<witness>> \in Seq(Emitted) /\ Len(<<witness>>) = 1 /\ <<witness>>[1] = witness
    BY <1>3
  <2>2. e = d \o <<witness>>
    BY <1>1, <1>2
  <2>3. e \in Seq(Emitted) /\ Len(e) = (m + 1) + 1
    BY <2>1, <2>2
  <2> QED BY <2>1, <2>2, <2>3
<1>5. \A i \in 1..(m + 1) : e[i] = d[i]
  BY <1>1, <1>2, <1>3
<1> QED BY <1>a, <1>m, <1>3, <1>4, <1>5 DEF Encloses

\* A candle is what a new builder makes of a trade of an earlier bucket, the
\* candle's own trades and a trade of another bucket.
LEMMA ReplayGives ==
  ASSUME NEW tf \in Alignment, NEW c \in Candle, Filled(tf, c),
         NEW before \in Emitted, BucketOpen(tf, before.at) # c.from,
         c.gap = (c.from > BucketOpen(tf, before.at) + tf.duration),
         NEW witness \in Emitted, BucketOpen(tf, witness.at) # c.from
  PROVE  /\ Replayed(before, c.trades, witness) \in Seq(Emitted)
         /\ Finalized(tf, Replayed(before, c.trades, witness)) = <<Opened(tf, before, FALSE), c>>
<1>1. PICK s \in Seq(Emitted) : s = c.trades
  BY DEF Candle
<1>2. PICK m \in Nat : m = Len(s) /\ m # 0 /\ DOMAIN s = 1..m
  BY <1>1 DEF Filled
<1>3. PICK e : e = Replayed(before, s, witness)
  OBVIOUS
<1>4. /\ e \in Seq(Emitted) /\ Len(e) = m + 2 /\ e[1] = before /\ e[m + 2] = witness
      /\ \A i \in 2..(m + 1) : e[i] = s[i - 1]
  <2>1. /\ e \in Seq(Emitted) /\ Len(e) = Len(s) + 2 /\ e[1] = before /\ e[Len(s) + 2] = witness
        /\ \A i \in 2..(Len(s) + 1) : e[i] = s[i - 1]
    <3>1. Encloses(Replayed(before, s, witness), before, s, witness)
      BY ReplayedEvents
    <3>2. Encloses(e, before, s, witness)
      BY <1>3, <3>1, Zenon
    <3> QED BY <3>2, Zenon DEF Encloses
  <2> QED BY <1>2, <2>1, Zenon
<1>5. PICK b : b = Opened(tf, before, FALSE)
  OBVIOUS
<1>6. b.from = BucketOpen(tf, before.at) /\ b.trades = <<before>> /\ b \in Candle
  <2>0. before.at \in Int
    BY EmittedType
  <2>1. BucketOpen(tf, before.at) \in Int
    BY <2>0, Buckets
  <2> QED BY <1>5, <2>1 DEF Opened, Candle
<1> DEFINE Part(i) == [from |-> c.from, trades |-> [j \in 1..i |-> s[j]], gap |-> c.gap]
<1>7. \A i \in 1..m : Part(i) \in Candle
  <2>1. \A i \in 1..m : [j \in 1..i |-> s[j]] \in Seq(Emitted)
    BY <1>2
  <2> QED BY <2>1 DEF Candle
<1>8. Part(m) = c
  <2>1. [j \in 1..m |-> s[j]] = s
    BY <1>2
  <2> QED BY <1>1, <2>1 DEF Candle
<1>9. Part(1) = [from |-> c.from, trades |-> <<s[1]>>, gap |-> c.gap]
  <2>1. [j \in 1..1 |-> s[j]] = <<s[1]>>
    OBVIOUS
  <2> QED BY <2>1
<1>10. \A i \in 1..(m - 1) : Part(i + 1) = [Part(i) EXCEPT !.trades = Append(@, s[i + 1])]
  <2>1. ASSUME NEW i \in 1..(m - 1) PROVE [j \in 1..(i + 1) |-> s[j]] = Append([j \in 1..i |-> s[j]], s[i + 1])
    <3>1. [j \in 1..i |-> s[j]] \in Seq(Emitted) /\ [j \in 1..(i + 1) |-> s[j]] \in Seq(Emitted)
      BY <1>2
    <3> QED BY <3>1
  <2>2. ASSUME NEW i \in 1..(m - 1) PROVE Part(i + 1) = [Part(i) EXCEPT !.trades = Append(@, s[i + 1])]
    <3>1. PICK t, u : t = [j \in 1..i |-> s[j]] /\ u = [j \in 1..(i + 1) |-> s[j]]
      OBVIOUS
    <3>2. u = Append(t, s[i + 1])
      BY <2>1, <3>1
    <3>3. PICK x : x = [from |-> c.from, trades |-> t, gap |-> c.gap]
      OBVIOUS
    <3>4. [x EXCEPT !.trades = Append(@, s[i + 1])] = [from |-> c.from, trades |-> u, gap |-> c.gap]
      <4>1. x.trades = t
        BY <3>3
      <4>2. [x EXCEPT !.trades = u] = [from |-> c.from, trades |-> u, gap |-> c.gap]
        BY <3>3
      <4> QED BY <3>2, <4>1, <4>2, Zenon
    <3> QED BY <3>1, <3>3, <3>4, Zenon
  <2> QED BY <2>2
<1>11. b # NoCandle /\ \A i \in 1..m : Part(i) # NoCandle
  BY <1>6, <1>7, NoCandleIsNone
<1>12. PICK last : last = Accumulated(tf, c, witness)
  OBVIOUS
<1> DEFINE h == [i \in 0..(m + 2) |->
                   IF i = 0 THEN NewBuilder
                   ELSE IF i = 1 THEN [current |-> b, closed |-> <<>>]
                   ELSE IF i = m + 2 THEN [current |-> last, closed |-> <<b, c>>]
                   ELSE [current |-> Part(i - 1), closed |-> <<b>>]]
<1>13. h[0] = NewBuilder /\ h[1] = [current |-> b, closed |-> <<>>]
  BY <1>2
<1>14. h[m + 2] = [current |-> last, closed |-> <<b, c>>]
  BY <1>2
<1>15. \A i \in 2..(m + 1) : h[i] = [current |-> Part(i - 1), closed |-> <<b>>]
  <2> HIDE DEF Part
  <2> QED BY <1>2
<1>16. \A j \in 1..m : BucketOpen(tf, s[j].at) = c.from
  BY <1>1, <1>2 DEF Filled
<1> HIDE DEF h, Part
<1>17. h[1] = Processed(tf, h[0], e[1])
  <2>1. Accumulated(tf, NoCandle, before) = b /\ ~Finalizes(tf, NoCandle, before)
    BY <1>5 DEF Accumulated, Finalizes
  <2>2. NewBuilder.current = NoCandle /\ NewBuilder.closed = <<>>
    BY DEF NewBuilder
  <2>3. Processed(tf, NewBuilder, before) = [current |-> b, closed |-> <<>>]
    BY <2>1, <2>2 DEF Processed
  <2> QED BY <1>4, <1>13, <2>3, Zenon
<1>18. h[2] = Processed(tf, h[1], e[2])
  <2>1. e[2] = s[1] /\ h[2] = [current |-> Part(1), closed |-> <<b>>] /\ BucketOpen(tf, s[1].at) = c.from
    <3>1. 2 \in 2..(m + 1) /\ 2 - 1 = 1 /\ 1 \in 1..m
      BY <1>2
    <3> QED BY <1>4, <1>15, <1>16, <3>1
  <2>2. Finalizes(tf, b, s[1])
    BY <1>6, <1>11, <2>1 DEF Finalizes
  <2>3. c.gap = (c.from > CloseTime(tf, b))
    BY <1>6 DEF CloseTime
  <2>4. Accumulated(tf, b, s[1]) = Opened(tf, s[1], c.from > CloseTime(tf, b))
    BY <1>11, <2>1, <2>2, Zenon DEF Accumulated
  <2>5. Accumulated(tf, b, s[1]) = Part(1)
    BY <1>9, <2>1, <2>3, <2>4, Zenon DEF Opened
  <2>6. h[1].current = b /\ h[1].closed = <<>>
    BY <1>13
  <2>7. Processed(tf, h[1], s[1]) = [current |-> Part(1), closed |-> Append(<<>>, b)]
    BY <2>2, <2>5, <2>6, Zenon DEF Processed
  <2> QED BY <2>1, <2>7
<1>19. ASSUME NEW i \in 3..(m + 1) PROVE h[i] = Processed(tf, h[i - 1], e[i])
  <2>1. PICK k \in 1..(m - 1) : k = i - 2 /\ i = k + 2 /\ i - 1 = k + 1
    OBVIOUS
  <2>2. i \in 2..(m + 1) /\ i - 1 \in 2..(m + 1) /\ (i - 1) - 1 = k /\ k \in 1..m /\ k + 1 \in 1..m
    BY <2>1
  <2>3. e[i] = s[k + 1] /\ h[i] = [current |-> Part(k + 1), closed |-> <<b>>]
    BY <1>4, <1>15, <2>1, <2>2
  <2>4. h[i - 1] = [current |-> Part(k), closed |-> <<b>>]
    BY <1>15, <2>2
  <2>5. ~Finalizes(tf, Part(k), s[k + 1])
    BY <1>16, <2>2 DEF Finalizes, Part
  <2>6. Accumulated(tf, Part(k), s[k + 1]) = Part(k + 1)
    <3>1. Part(k) # NoCandle
      BY <1>11, <2>2
    <3>2. Part(k + 1) = [Part(k) EXCEPT !.trades = Append(@, s[k + 1])]
      BY <1>10
    <3> QED BY <2>5, <3>1, <3>2, Zenon DEF Accumulated
  <2>7. h[i - 1].current = Part(k) /\ h[i - 1].closed = <<b>>
    BY <2>4
  <2>8. Processed(tf, h[i - 1], s[k + 1]) = [current |-> Part(k + 1), closed |-> <<b>>]
    BY <2>5, <2>6, <2>7, Zenon DEF Processed
  <2> QED BY <2>3, <2>8
<1>20. h[m + 2] = Processed(tf, h[m + 1], e[m + 2])
  <2>1. h[m + 1] = [current |-> c, closed |-> <<b>>]
    <3>1. m + 1 \in 2..(m + 1) /\ (m + 1) - 1 = m
      BY <1>2
    <3> QED BY <1>8, <1>15, <3>1
  <2>2. c # NoCandle
    BY NoCandleIsNone
  <2>3. Finalizes(tf, c, witness)
    BY <2>2 DEF Finalizes
  <2>4. h[m + 1].current = c /\ h[m + 1].closed = <<b>>
    BY <2>1
  <2>5. Processed(tf, h[m + 1], witness) = [current |-> last, closed |-> Append(<<b>>, c)]
    BY <1>12, <2>3, <2>4, Zenon DEF Processed
  <2>6. Append(<<b>>, c) = <<b, c>>
    BY <1>6, Pair
  <2> QED BY <1>4, <1>14, <2>5, <2>6, Zenon
<1>21. BuilderTrace(tf, e, h)
  <2>1. ASSUME NEW i \in 1..(m + 2) PROVE h[i] = Processed(tf, h[i - 1], e[i])
    <3>1. i = 1 \/ i = 2 \/ i \in 3..(m + 1) \/ i = m + 2
      OBVIOUS
    <3>2. 1 - 1 = 0 /\ 2 - 1 = 1 /\ (m + 2) - 1 = m + 1
      OBVIOUS
    <3> QED BY <1>17, <1>18, <1>19, <1>20, <3>1, <3>2
  <2> QED BY <1>4, <1>13, <2>1 DEF BuilderTrace
<1>22. Finalized(tf, e) = h[m + 2].closed
  BY <1>4, <1>21, FinalizedFollowsTrace
<1>23. h[m + 2].closed = <<b, c>>
  BY <1>14
<1> QED BY <1>1, <1>3, <1>4, <1>5, <1>22, <1>23, Zenon

-----------------------------------------------------------------------------
(* Restoration: recovery evidence that is in order restores the candle, and what*)
(* the pipeline accepted is such evidence.                                     *)

\* Every candle is full of its trades, the open one up to the stream's time.
FilledInv ==
  \A k \in DOMAIN Timeframes :
    /\ \A i \in DOMAIN Closed(k) : Filled(Timeframes[k], Closed(k)[i])
    /\ current[k] # NoCandle =>
         /\ Filled(Timeframes[k], current[k])
         /\ \A j \in DOMAIN current[k].trades : current[k].trades[j].at =< stream.latest

LEMMA OpenedIsFilled ==
  ASSUME NEW tf, NEW e \in Emitted, NEW gap
  PROVE  Filled(tf, Opened(tf, e, gap)) /\ Opened(tf, e, gap).trades = <<e>>
<1>1. PICK x : x = Opened(tf, e, gap)
  OBVIOUS
<1>2. x.trades = <<e>> /\ x.from = BucketOpen(tf, e.at)
  BY <1>1 DEF Opened
<1>3. DOMAIN x.trades = {1} /\ x.trades[1] = e /\ x.trades # <<>>
  BY <1>2
<1>4. \A i, j \in {1} : ~(i < j)
  OBVIOUS
<1> QED BY <1>1, <1>2, <1>3, <1>4, Zenon DEF Filled

LEMMA FilledGrows ==
  ASSUME NEW tf, NEW c \in Candle, Filled(tf, c), NEW e \in Emitted, BucketOpen(tf, e.at) = c.from,
         \A j \in DOMAIN c.trades : c.trades[j].at =< e.at
  PROVE  /\ Filled(tf, [c EXCEPT !.trades = Append(@, e)])
         /\ [c EXCEPT !.trades = Append(@, e)].trades = Append(c.trades, e)
<1>1. PICK x : x = [c EXCEPT !.trades = Append(@, e)]
  OBVIOUS
<1>2. PICK s \in Seq(Emitted) : s = c.trades
  BY DEF Candle
<1>3. x.trades = Append(s, e) /\ x.from = c.from
  BY <1>1, <1>2 DEF Candle
<1>4. PICK m \in Nat : m = Len(s) /\ DOMAIN s = 1..m
  OBVIOUS
<1>5. PICK t : t = x.trades
  OBVIOUS
<1>6. DOMAIN t = 1..(m + 1) /\ t # <<>> /\ t[m + 1] = e /\ \A j \in 1..m : t[j] = s[j]
  <2>1. t = Append(s, e) /\ t \in Seq(Emitted) /\ Len(t) = m + 1
    BY <1>3, <1>4, <1>5
  <2> QED BY <1>4, <2>1
<1>7. \A j \in 1..m : BucketOpen(tf, s[j].at) = c.from /\ s[j].at =< e.at
  BY <1>2, <1>4 DEF Filled
<1>8. \A j \in 1..(m + 1) : BucketOpen(tf, t[j].at) = x.from
  <2>1. \A j \in 1..(m + 1) : j \in 1..m \/ j = m + 1
    OBVIOUS
  <2> QED BY <1>3, <1>6, <1>7, <2>1, Zenon
<1>9. ASSUME NEW i \in 1..(m + 1), NEW j \in 1..(m + 1), i < j PROVE t[i].at =< t[j].at
  <2>1. i \in 1..m /\ (j \in 1..m \/ j = m + 1)
    BY <1>9
  <2>2. j \in 1..m => s[i].at =< s[j].at
    BY <1>2, <1>4, <1>9, <2>1 DEF Filled
  <2> QED BY <1>6, <1>7, <2>1, <2>2
<1> QED BY <1>1, <1>2, <1>3, <1>5, <1>6, <1>8, <1>9 DEF Filled

LEMMA FilledFirst == ASSUME Init PROVE FilledInv
<1>1. \A k \in DOMAIN Timeframes : current[k] = NoCandle /\ Closed(k) = <<>>
  BY ClosedEmpty DEF Init
<1>2. DOMAIN <<>> = {}
  OBVIOUS
<1> QED BY <1>1, <1>2 DEF FilledInv

LEMMA FilledGoesOn ==
  ASSUME StreamInv, MarketTypes, CandlesInv, FilledInv, NEW e \in Range(source), Ingest(e)
  PROVE  FilledInv'
<1> SUFFICES ASSUME NEW k \in DOMAIN Timeframes
             PROVE  /\ \A i \in DOMAIN Closed(k)' : Filled(Timeframes[k], Closed(k)'[i])
                    /\ Filled(Timeframes[k], current'[k])
                    /\ \A j \in DOMAIN current'[k].trades : current'[k].trades[j].at =< stream'.latest
  BY DEF FilledInv
<1>1. PICK tf \in Alignment : tf = Timeframes[k]
  BY TimeframeType
<1>2. e \in Emitted /\ e.at \in Nat
  BY TradesMore, EmittedType
<1>3. PICK c \in Candle \union {NoCandle} : c = current[k]
  BY DEF MarketTypes
<1>4. PICK x : x = current'[k] /\ x = Accumulated(tf, c, e)
  BY <1>1, <1>3 DEF Ingest
<1>5. stream'.latest = e.at
  BY DEF Ingest, StreamInv, StreamTypes, Streams
<1>6. c # NoCandle => Filled(tf, c) /\ \A j \in DOMAIN c.trades : c.trades[j].at =< e.at
  <2> SUFFICES ASSUME c # NoCandle PROVE Filled(tf, c) /\ \A j \in DOMAIN c.trades : c.trades[j].at =< e.at
    OBVIOUS
  <2>1. Filled(tf, c) /\ \A j \in DOMAIN c.trades : c.trades[j].at =< stream.latest
    BY <1>1, <1>3 DEF FilledInv
  <2>2. stream.latest \in Nat /\ stream.latest =< e.at
    BY <1>1, <1>3 DEF CandlesInv, Built, Ingest, InTime, StreamInv, StreamTypes, Streams
  <2>3. \A j \in DOMAIN c.trades : c.trades[j].at \in Nat
    BY EmittedType DEF Candle
  <2> QED BY <1>2, <2>1, <2>2, <2>3
<1>7. Filled(tf, x) /\ \A j \in DOMAIN x.trades : x.trades[j].at =< e.at
  <2>1. ASSUME NEW gap, x = Opened(tf, e, gap) PROVE Filled(tf, x) /\ \A j \in DOMAIN x.trades : x.trades[j].at =< e.at
    <3>1. Filled(tf, x) /\ x.trades = <<e>>
      BY <1>2, <2>1, OpenedIsFilled
    <3> QED BY <1>2, <3>1
  <2>2. CASE c = NoCandle
    BY <1>4, <2>1, <2>2 DEF Accumulated
  <2>3. CASE c # NoCandle /\ Finalizes(tf, c, e)
    BY <1>4, <2>1, <2>3 DEF Accumulated
  <2>4. CASE c # NoCandle /\ ~Finalizes(tf, c, e)
    <3>1. x = [c EXCEPT !.trades = Append(@, e)] /\ BucketOpen(tf, e.at) = c.from
      BY <1>4, <2>4 DEF Accumulated, Finalizes
    <3>2. Filled(tf, x) /\ x.trades = Append(c.trades, e)
      BY <1>2, <1>3, <1>6, <2>4, <3>1, FilledGrows, SMTT(30)
    <3>3. c.trades \in Seq(Emitted)
      BY <1>3, <2>4 DEF Candle
    <3>4. \A j \in DOMAIN x.trades : x.trades[j] = e \/ \E i \in DOMAIN c.trades : x.trades[j] = c.trades[i]
      BY <3>2, <3>3
    <3> QED BY <1>2, <1>6, <2>4, <3>2, <3>4
  <2> QED BY <2>2, <2>3, <2>4
<1>8. \A i \in DOMAIN Closed(k)' : Filled(tf, Closed(k)'[i])
  <2>1. PICK cs, ds : cs = Closed(k) /\ ds = Closed(k)'
    OBVIOUS
  <2>2. cs \in Seq(Candle) /\ ds = IF Finalizes(tf, c, e) THEN Append(cs, c) ELSE cs
    BY <1>1, <1>3, <2>1, ClosedGoesOn
  <2>3. \A i \in DOMAIN cs : Filled(tf, cs[i])
    BY <1>1, <2>1 DEF FilledInv
  <2>4. CASE Finalizes(tf, c, e)
    <3>1. Filled(tf, c)
      BY <1>6, <2>4 DEF Finalizes
    <3>2. \A i \in DOMAIN ds : ds[i] = c \/ \E j \in DOMAIN cs : ds[i] = cs[j]
      BY <2>2, <2>4
    <3> QED BY <2>1, <2>3, <3>1, <3>2
  <2> QED BY <2>1, <2>2, <2>3, <2>4
<1> QED BY <1>1, <1>4, <1>5, <1>7, <1>8

LEMMA FilledStays ==
  ASSUME StreamInv, MarketTypes, CandlesInv, FilledInv, [Next]_vars
  PROVE  FilledInv'
<1>1. CASE \E i \in DOMAIN source : Ingest(source[i])
  <2>1. PICK e \in Range(source) : Ingest(e)
    BY <1>1 DEF Range
  <2> QED BY <2>1, FilledGoesOn
<1>2. CASE UNCHANGED <<current, batches, accepted>> /\ stream'.latest = stream.latest
  <2>1. \A k : Closed(k)' = Closed(k)
    BY <1>2 DEF Closed
  <2> QED BY <1>2, <2>1 DEF FilledInv
<1>3. ASSUME ~(\E i \in DOMAIN source : Ingest(source[i]))
      PROVE  UNCHANGED <<current, batches, accepted>> /\ stream'.latest = stream.latest
  BY <1>3, OnlyIngestBuilds
<1> QED BY <1>1, <1>2, <1>3

\* A candle whose bucket is not t's: a later time is not in the bucket either,
\* and its own is later still.
LEMMA LaterBucket ==
  ASSUME NEW tf \in Alignment, NEW c \in Candle, Filled(tf, c), NEW e \in Emitted, e.at >= c.from + tf.duration
  PROVE  BucketOpen(tf, e.at) > c.from
<1>1. PICK d \in Nat : d = tf.duration
  BY DEF Alignment
<1>2. e.at \in Int /\ BucketOpen(tf, e.at) \in Int /\ e.at < BucketOpen(tf, e.at) + tf.duration
  <2>1. e.at \in Int
    BY EmittedType
  <2> QED BY <2>1, Buckets
<1>3. c.from \in Int
  BY DEF Candle
<1> QED BY <1>1, <1>2, <1>3

\* What RestorationAgrees says of a candle c after b, and of the witness w.
Agrees(tf, b, c, w) ==
  LET before == Last(b.trades)
      restored == Restored(tf, c.from, before, c.trades, w)
      events == <<before>> \o c.trades \o <<w>>
  IN  /\ restored \in {c, NoCandle}
      /\ w.at >= CloseTime(tf, c) /\ IsInjective([i \in DOMAIN events |-> events[i].name]) => restored = c

\* Where the evidence is in order the candle is what is restored, and evidence
\* of what was accepted is.
LEMMA RestoredFromTrades ==
  ASSUME NEW tf \in Alignment, NEW b \in Candle, Filled(tf, b), NEW c \in Candle, Filled(tf, c), Follows(tf, b, c),
         NEW w \in Emitted
  PROVE  Agrees(tf, b, c, w)
<1>0. PICK before : before = Last(b.trades)
  OBVIOUS
<1>1. PICK events : events = Replayed(before, c.trades, w)
  OBVIOUS
<1>2. PICK closed : closed = Finalized(tf, events)
  OBVIOUS
<1>3. PICK found : found = {n \in DOMAIN closed : closed[n].from = c.from}
  OBVIOUS
<1> DEFINE Ordered == /\ c.trades # <<>>
                      /\ IsInjective([i \in DOMAIN events |-> events[i].name])
                      /\ before.at < c.from
                      /\ \A i, j \in DOMAIN events : i < j => events[i].at =< events[j].at
                      /\ \A i \in DOMAIN c.trades : BucketOpen(tf, c.trades[i].at) = c.from
                      /\ BucketOpen(tf, w.at) > c.from
<1>4. Restored(tf, c.from, before, c.trades, w) =
        IF Ordered /\ Cardinality(found) = 1 THEN closed[Min(found)] ELSE NoCandle
  BY <1>1, <1>2, <1>3 DEF Restored
<1>5. PICK s \in Seq(Emitted) : s = c.trades
  BY DEF Candle
<1>6. PICK m \in Nat : m = Len(s) /\ m # 0 /\ DOMAIN s = 1..m
  BY <1>5 DEF Filled
<1>7. PICK d \in Nat \ {0} : d = tf.duration
  BY DEF Alignment
<1>8. c.from \in Int /\ b.from \in Int /\ CloseTime(tf, b) = b.from + d /\ c.from >= b.from + d
  BY <1>7 DEF Candle, Follows, CloseTime
<1>9. before \in Emitted /\ BucketOpen(tf, before.at) = b.from
  <2>1. PICK u \in Seq(Emitted) : u = b.trades /\ u # <<>>
    BY DEF Candle, Filled
  <2>2. before = u[Len(u)] /\ Len(u) \in DOMAIN u
    BY <1>0, <2>1 DEF Last
  <2> QED BY <2>1, <2>2 DEF Filled
<1>10. before.at \in Int /\ before.at < b.from + d /\ w.at \in Int
  <2>1. before.at \in Int /\ w.at \in Int
    BY <1>9, EmittedType
  <2>2. before.at < BucketOpen(tf, before.at) + tf.duration
    BY <2>1, Buckets
  <2> QED BY <1>7, <1>9, <2>1, <2>2
<1>11. ASSUME BucketOpen(tf, w.at) # c.from
       PROVE  events \in Seq(Emitted) /\ Cardinality(found) = 1 /\ closed[Min(found)] = c
  <2>1. BucketOpen(tf, before.at) # c.from
    BY <1>7, <1>8, <1>9
  <2>2. c.gap = (c.from > BucketOpen(tf, before.at) + tf.duration)
    <3>1. c.gap \in BOOLEAN /\ (c.gap <=> c.from # CloseTime(tf, b))
      BY DEF Candle, Follows
    <3>2. c.from # CloseTime(tf, b) <=> c.from > BucketOpen(tf, before.at) + tf.duration
      <4>1. c.from # b.from + d <=> c.from > b.from + d
        BY <1>8
      <4>2. CloseTime(tf, b) = b.from + d /\ BucketOpen(tf, before.at) + tf.duration = b.from + d
        BY <1>7, <1>8, <1>9, Zenon
      <4> QED BY <4>1, <4>2, Zenon
    <3> QED BY <3>1, <3>2
  <2>3. events \in Seq(Emitted) /\ closed = <<Opened(tf, before, FALSE), c>>
    BY <1>1, <1>2, <1>9, <1>11, <2>1, <2>2, ReplayGives
  <2>4. PICK x : x = Opened(tf, before, FALSE)
    OBVIOUS
  <2>5. x.from # c.from
    BY <2>1, <2>4 DEF Opened
  <2>6. DOMAIN closed = {1, 2} /\ closed[1] = x /\ closed[2] = c
    BY <2>3, <2>4
  <2>7. found = {2}
    BY <1>3, <2>5, <2>6
  <2>8. Cardinality(found) = 1 /\ Min(found) = 2
    <3>1. Cardinality({2}) = 1
      BY FS_Singleton
    <3>2. \E y \in {2} : \A z \in {2} : y =< z
      OBVIOUS
    <3>3. Min({2}) \in {2}
      BY <3>2 DEF Min
    <3> QED BY <2>7, <3>1, <3>3
  <2> QED BY <2>3, <2>6, <2>8
<1>12. Restored(tf, c.from, before, c.trades, w) \in {c, NoCandle}
  <2>1. CASE Ordered
    <3>1. BucketOpen(tf, w.at) # c.from
      <4>1. BucketOpen(tf, w.at) \in Int
        BY <1>10, Buckets
      <4> QED BY <1>8, <2>1, <4>1
    <3> QED BY <1>4, <1>11, <2>1, <3>1
  <2>2. CASE ~Ordered
    <3> HIDE DEF Ordered
    <3> QED BY <1>4, <2>2
  <2> QED BY <2>1, <2>2
<1>13. ASSUME w.at >= CloseTime(tf, c), IsInjective([i \in DOMAIN events |-> events[i].name])
       PROVE  Restored(tf, c.from, before, c.trades, w) = c
  <2>1. w.at >= c.from + tf.duration
    BY <1>13 DEF CloseTime
  <2>2. BucketOpen(tf, w.at) > c.from
    BY <2>1, LaterBucket
  <2>3. BucketOpen(tf, w.at) # c.from
    BY <1>8, <2>2
  <2>4. /\ DOMAIN events = 1..(m + 2) /\ events[1] = before /\ events[m + 2] = w
        /\ \A i \in 2..(m + 1) : events[i] = s[i - 1] /\ i - 1 \in 1..m
    <3>1. events = Replayed(before, s, w)
      BY <1>1, <1>5
    <3>2. /\ events \in Seq(Emitted) /\ Len(events) = m + 2 /\ events[1] = before /\ events[m + 2] = w
          /\ \A i \in 2..(m + 1) : events[i] = s[i - 1]
      <4>1. /\ events \in Seq(Emitted) /\ Len(events) = Len(s) + 2 /\ events[1] = before /\ events[Len(s) + 2] = w
            /\ \A i \in 2..(Len(s) + 1) : events[i] = s[i - 1]
        <5>1. Encloses(Replayed(before, s, w), before, s, w)
          BY <1>9, ReplayedEvents
        <5>2. Encloses(events, before, s, w)
          BY <3>1, <5>1, Zenon
        <5> QED BY <5>2, Zenon DEF Encloses
      <4> QED BY <1>6, <4>1, Zenon
    <3> QED BY <3>2
  <2>5. \A j \in 1..m : s[j].at \in Int /\ c.from =< s[j].at /\ s[j].at < c.from + d
    <3>1. ASSUME NEW j \in 1..m PROVE s[j].at \in Int /\ c.from =< s[j].at /\ s[j].at < c.from + d
      <4>1. s[j].at \in Int
        BY <1>6, EmittedType
      <4>2. BucketOpen(tf, s[j].at) = c.from
        BY <1>5, <1>6 DEF Filled
      <4> QED BY <1>7, <4>1, <4>2, Buckets
    <3> QED BY <3>1
  <2>6. \A i, j \in 1..m : i < j => s[i].at =< s[j].at
    BY <1>5, <1>6 DEF Filled
  <2>7. ASSUME NEW i \in 1..(m + 2), NEW j \in 1..(m + 2), i < j PROVE events[i].at =< events[j].at
    <3>1. w.at >= c.from + d /\ before.at < c.from
      <4>1. w.at >= c.from + d
        BY <1>7, <2>1, Zenon
      <4>2. before.at < c.from
        BY <1>8, <1>10
      <4> QED BY <4>1, <4>2
    <3>2. CASE i = 1 /\ j = m + 2
      BY <1>8, <1>10, <2>4, <3>1, <3>2
    <3>3. CASE i = 1 /\ j \in 2..(m + 1)
      <4>1. events[j] = s[j - 1] /\ j - 1 \in 1..m
        BY <2>4, <3>3
      <4> QED BY <1>8, <1>10, <2>4, <2>5, <3>1, <3>3, <4>1
    <3>4. CASE i \in 2..(m + 1) /\ j = m + 2
      <4>1. events[i] = s[i - 1] /\ i - 1 \in 1..m
        BY <2>4, <3>4
      <4> QED BY <1>8, <1>10, <2>4, <2>5, <3>1, <3>4, <4>1
    <3>5. CASE i \in 2..(m + 1) /\ j \in 2..(m + 1)
      <4>1. events[i] = s[i - 1] /\ i - 1 \in 1..m /\ events[j] = s[j - 1] /\ j - 1 \in 1..m /\ i - 1 < j - 1
        BY <2>4, <2>7, <3>5
      <4> QED BY <2>6, <4>1
    <3> QED BY <2>7, <3>2, <3>3, <3>4, <3>5
  <2>8. before.at < c.from
    BY <1>7, <1>8, <1>10
  <2>9. \A i \in DOMAIN c.trades : BucketOpen(tf, c.trades[i].at) = c.from
    BY DEF Filled
  <2>10. Ordered
    BY <1>5, <1>6, <1>13, <2>2, <2>4, <2>7, <2>8, <2>9
  <2> QED BY <1>4, <1>11, <2>3, <2>10
<1> QED BY <1>0, <1>1, <1>12, <1>13, Zenon DEF Agrees, Replayed

\* The finalized candles follow one another, and say so.
LEMMA ClosedFollow ==
  ASSUME CandlesInv, MarketTypes, NEW k \in DOMAIN Timeframes, NEW closed \in Seq(Candle), closed = Closed(k)
  PROVE  \A i \in 2..Len(closed) : Follows(Timeframes[k], closed[i - 1], closed[i])
<1> SUFFICES ASSUME NEW i \in 2..Len(closed) PROVE Follows(Timeframes[k], closed[i - 1], closed[i])
  OBVIOUS
<1>1. Built(k) /\ current[k] \in Candle \union {NoCandle}
  BY DEF CandlesInv, MarketTypes
<1>2. current[k] # NoCandle
  <2> SUFFICES ASSUME current[k] = NoCandle PROVE FALSE
    OBVIOUS
  <2>1. closed = <<>>
    BY <1>1, ClosedEmpty DEF Built
  <2> QED BY <2>1
<1>3. PICK x \in Candle : x = current[k]
  BY <1>1, <1>2
<1>4. PICK all : all = Append(closed, x)
  OBVIOUS
<1>5. i \in 2..Len(all) /\ all[i] = closed[i] /\ all[i - 1] = closed[i - 1]
  BY <1>4
<1>6. Told(Timeframes[k], all, Trades)
  BY <1>1, <1>2, <1>3, <1>4 DEF Built
<1> QED BY <1>5, <1>6 DEF Told

\* Recovery evidence restores a finalized candle to what it was, gap flag
\* included, or is refused; what was accepted is never refused
\* (restoreFinalizedCandleSnapshot of finalized-candle-restoration.ts).
THEOREM CandlesAreRestored == Spec => []RestorationAgrees
<1>1. Init => CandlesInv /\ FilledInv
  BY CandlesFirst, FilledFirst
<1>2. StreamInv /\ MarketTypes /\ CandlesInv /\ FilledInv /\ [Next]_vars => CandlesInv' /\ FilledInv'
  BY CandlesStay, FilledStays
<1>3. ASSUME StreamInv, MarketTypes, CandlesInv, FilledInv PROVE RestorationAgrees
  <2> SUFFICES ASSUME NEW k \in DOMAIN Timeframes, NEW i \in 2..Len(Closed(k)), NEW n \in DOMAIN Trades
               PROVE  Agrees(Timeframes[k], Closed(k)[i - 1], Closed(k)[i], Trades[n])
    BY Zenon DEF RestorationAgrees, Agrees
  <2>1. PICK tf \in Alignment : tf = Timeframes[k]
    BY TimeframeType
  <2>2. PICK closed \in Seq(Candle) : closed = Closed(k)
    <3>1. Closed(k) = ClosedIn(k, batches)
      BY DEF Closed, ClosedIn
    <3>2. ClosedIn(k, batches) \in Seq(Candle)
      BY <1>3, ClosedType DEF MarketTypes
    <3> QED BY <3>1, <3>2
  <2>3. PICK b, c \in Candle : b = closed[i - 1] /\ c = closed[i] /\ i - 1 \in DOMAIN closed /\ i \in DOMAIN closed
    BY <2>2
  <2>4. Filled(tf, b) /\ Filled(tf, c)
    BY <1>3, <2>1, <2>2, <2>3 DEF FilledInv
  <2>5. Follows(tf, b, c)
    BY <1>3, <2>1, <2>2, <2>3, ClosedFollow
  <2>6. Trades[n] \in Emitted
    <3>1. accepted[n] \in Taken /\ Trades[n] = accepted[n].trade
      BY <1>3 DEF Trades, StreamInv, StreamTypes
    <3> QED BY <3>1 DEF Taken
  <2>7. Agrees(tf, b, c, Trades[n])
    BY <2>4, <2>5, <2>6, RestoredFromTrades
  <2> QED BY <2>1, <2>2, <2>3, <2>7
<1> QED BY <1>1, <1>2, <1>3, StreamInvariant, PublishedInvariant, PTL DEF Spec
-----------------------------------------------------------------------------
(* Boundaries: what an accepted trade finalizes closes after everything that   *)
(* was finalized before, in whichever timeframe, for every open candle ends    *)
(* after the last trade.                                                       *)

\* The finalized candles of a timeframe are those of the batches, and ascend.
Listed(k, closed, bs) ==
  /\ \A i \in DOMAIN closed : \E n \in DOMAIN bs : k \in DOMAIN bs[n] /\ closed[i] = bs[n][k]
  /\ \A n \in DOMAIN bs : k \in DOMAIN bs[n] => \E i \in DOMAIN closed : closed[i] = bs[n][k]
  /\ \A i, j \in DOMAIN closed : i < j => Close(k, closed[i]) < Close(k, closed[j])

OrderInv ==
  /\ \A n, m \in DOMAIN batches : n < m => \A t \in Closes(batches[n]), u \in Closes(batches[m]) : t < u
  /\ \A n \in DOMAIN batches : \A t \in Closes(batches[n]) : stream.latest # Never /\ t =< stream.latest
  /\ \A k \in DOMAIN Timeframes :
       /\ Listed(k, Closed(k), batches)
       /\ current[k] # NoCandle => Close(k, current[k]) > stream.latest

\* What e adds: a batch, which may have no candle.
Adds(e, b) ==
  /\ batches' = IF DOMAIN b = {} THEN batches ELSE Append(batches, b)
  /\ \A u \in Closes(b) : u \in Int /\ stream.latest \in Nat /\ stream.latest < u /\ u =< e.at
  /\ \A k \in DOMAIN Timeframes :
       /\ Closed(k) \in Seq(Candle)
       /\ Closed(k)' = IF k \in DOMAIN b THEN Append(Closed(k), b[k]) ELSE Closed(k)

LEMMA IngestAdds ==
  ASSUME StreamInv, MarketTypes, CandlesInv, OrderInv, NEW e \in Range(source), Ingest(e)
  PROVE  \E b \in Batch : Adds(e, b)
<1>1. PICK b \in Batch : b = FinalizedBy(e)
  BY FinalizedType
<1>2. /\ DOMAIN b = {k \in DOMAIN Timeframes : Finalizes(Timeframes[k], current[k], e)}
      /\ \A k \in DOMAIN b : b[k] = current[k]
  BY <1>1 DEF FinalizedBy, Restrict
<1>3. batches' = IF DOMAIN b = {} THEN batches ELSE Append(batches, b)
  BY <1>1 DEF Ingest
<1>4. ASSUME NEW u \in Closes(b)
      PROVE  u \in Int /\ stream.latest \in Nat /\ stream.latest < u /\ u =< e.at
  <2>1. PICK k \in DOMAIN b : u = Close(k, b[k])
    BY DEF Closes
  <2>2. k \in DOMAIN Timeframes /\ current[k] # NoCandle /\ b[k] = current[k] /\ Finalizes(Timeframes[k], current[k], e)
    BY <1>2 DEF Finalizes
  <2>3. PICK c \in Candle : c = current[k]
    BY <2>2 DEF MarketTypes
  <2>4. PICK tf \in Alignment : tf = Timeframes[k]
    BY <2>2, TimeframeType
  <2>5. u = CloseTime(tf, c) /\ u \in Int
    BY <2>1, <2>2, <2>3, <2>4, CloseType DEF Close
  <2>6. stream.latest \in Nat /\ stream.latest < u
    <3>1. stream.latest # Never
      BY <2>2 DEF CandlesInv, Built
    <3>2. stream.latest \in Nat
      BY <3>1 DEF StreamInv, StreamTypes, Streams
    <3>3. u > stream.latest
      BY <2>1, <2>2 DEF OrderInv
    <3> QED BY <2>5, <3>2, <3>3
  <2>7. u =< e.at
    <3>1. PICK t \in Nat : t =< stream.latest /\ c.from = BucketOpen(tf, t)
      BY <2>2, <2>3, <2>4 DEF CandlesInv, Built
    <3>2. e.at \in Nat /\ stream.latest =< e.at
      <4>1. e.at >= stream.latest
        BY <2>6, EmittedType DEF Ingest, InTime
      <4> QED BY <2>6, <4>1, TradesMore, EmittedType
    <3>3. BucketOpen(tf, e.at) # BucketOpen(tf, t)
      BY <2>2, <2>3, <2>4, <3>1 DEF Finalizes
    <3>4. PICK d \in Nat : d = tf.duration
      BY DEF Alignment
    <3>5. t \in Int /\ e.at \in Int /\ t =< e.at
      BY <2>6, <3>1, <3>2
    <3>6. BucketOpen(tf, t) \in Int /\ BucketOpen(tf, e.at) \in Int /\ BucketOpen(tf, e.at) =< e.at
      BY <3>5, Buckets
    <3>7. BucketOpen(tf, e.at) >= BucketOpen(tf, t) + tf.duration
      BY <3>3, <3>5, Buckets
    <3>8. u = BucketOpen(tf, t) + tf.duration
      BY <2>5, <3>1, Zenon DEF CloseTime
    <3> QED BY <2>5, <3>2, <3>4, <3>6, <3>7, <3>8
  <2> QED BY <2>5, <2>6, <2>7
<1>5. ASSUME NEW k \in DOMAIN Timeframes
      PROVE  /\ Closed(k) \in Seq(Candle)
             /\ Closed(k)' = IF k \in DOMAIN b THEN Append(Closed(k), b[k]) ELSE Closed(k)
  <2>1. /\ Closed(k) \in Seq(Candle)
        /\ Closed(k)' = IF Finalizes(Timeframes[k], current[k], e) THEN Append(Closed(k), current[k]) ELSE Closed(k)
    BY ClosedGoesOn
  <2> QED BY <1>2, <2>1
<1> QED BY <1>3, <1>4, <1>5 DEF Adds

LEMMA ListedGrows ==
  ASSUME NEW k \in DOMAIN Timeframes, NEW closed \in Seq(Candle), NEW bs \in Seq(Batch), NEW b \in Batch,
         Listed(k, closed, bs), \A n \in DOMAIN bs : \A t \in Closes(bs[n]), u \in Closes(b) : t < u
  PROVE  Listed(k, IF k \in DOMAIN b THEN Append(closed, b[k]) ELSE closed, Append(bs, b))
<1>1. PICK m \in Nat : m = Len(bs) /\ DOMAIN bs = 1..m
  OBVIOUS
<1>2. PICK cs : cs = Append(bs, b)
  OBVIOUS
<1>3. DOMAIN cs = 1..(m + 1) /\ (\A n \in 1..m : cs[n] = bs[n]) /\ cs[m + 1] = b
  BY <1>1, <1>2
<1>4. \A n \in 1..(m + 1) : n \in 1..m \/ n = m + 1
  OBVIOUS
<1>5. CASE k \notin DOMAIN b
  <2>1. \A i \in DOMAIN closed : \E n \in DOMAIN cs : k \in DOMAIN cs[n] /\ closed[i] = cs[n][k]
    BY <1>1, <1>3 DEF Listed
  <2>2. \A n \in DOMAIN cs : k \in DOMAIN cs[n] => \E i \in DOMAIN closed : closed[i] = cs[n][k]
    BY <1>1, <1>3, <1>4, <1>5 DEF Listed
  <2> QED BY <1>2, <1>5, <2>1, <2>2 DEF Listed
<1>6. CASE k \in DOMAIN b
  <2>1. PICK l \in Nat : l = Len(closed) /\ DOMAIN closed = 1..l
    OBVIOUS
  <2>2. PICK c \in Candle : c = b[k]
    BY <1>6 DEF Batch
  <2>3. PICK more : more = Append(closed, c)
    OBVIOUS
  <2>4. DOMAIN more = 1..(l + 1) /\ (\A i \in 1..l : more[i] = closed[i]) /\ more[l + 1] = c
    BY <2>1, <2>3
  <2>5. \A i \in 1..(l + 1) : i \in 1..l \/ i = l + 1
    OBVIOUS
  <2>6. \A i \in DOMAIN more : \E n \in DOMAIN cs : k \in DOMAIN cs[n] /\ more[i] = cs[n][k]
    <3> SUFFICES ASSUME NEW i \in 1..(l + 1) PROVE \E n \in 1..(m + 1) : k \in DOMAIN cs[n] /\ more[i] = cs[n][k]
      BY <1>3, <2>4
    <3>1. CASE i = l + 1
      BY <1>3, <1>6, <2>2, <2>4, <3>1
    <3>2. CASE i \in 1..l
      <4>1. PICK n \in 1..m : k \in DOMAIN bs[n] /\ closed[i] = bs[n][k]
        BY <1>1, <2>1, <3>2 DEF Listed
      <4> QED BY <1>3, <2>4, <3>2, <4>1
    <3> QED BY <2>5, <3>1, <3>2
  <2>7. \A n \in DOMAIN cs : k \in DOMAIN cs[n] => \E i \in DOMAIN more : more[i] = cs[n][k]
    <3> SUFFICES ASSUME NEW n \in 1..(m + 1), k \in DOMAIN cs[n] PROVE \E i \in 1..(l + 1) : more[i] = cs[n][k]
      BY <1>3, <2>4
    <3>1. CASE n = m + 1
      BY <1>3, <2>2, <2>4, <3>1
    <3>2. CASE n \in 1..m
      <4>1. PICK i \in 1..l : closed[i] = bs[n][k]
        BY <1>1, <1>3, <2>1, <3>2 DEF Listed
      <4> QED BY <1>3, <2>4, <3>2, <4>1
    <3> QED BY <1>4, <3>1, <3>2
  <2>8. ASSUME NEW i \in 1..(l + 1), NEW j \in 1..(l + 1), i < j PROVE Close(k, more[i]) < Close(k, more[j])
    <3>1. CASE j \in 1..l
      <4>1. i \in 1..l
        BY <2>8, <3>1
      <4> QED BY <2>1, <2>4, <2>8, <3>1, <4>1 DEF Listed
    <3>2. CASE j = l + 1
      <4>1. i \in 1..l
        BY <2>8, <3>2
      <4>2. PICK n \in 1..m : k \in DOMAIN bs[n] /\ closed[i] = bs[n][k]
        BY <1>1, <2>1, <4>1 DEF Listed
      <4>3. Close(k, closed[i]) \in Closes(bs[n]) /\ Close(k, c) \in Closes(b)
        BY <1>6, <2>2, <4>2 DEF Closes
      <4> QED BY <1>1, <2>4, <3>2, <4>1, <4>3
    <3> QED BY <2>5, <3>1, <3>2
  <2>9. Listed(k, more, cs)
    BY <2>4, <2>6, <2>7, <2>8 DEF Listed
  <2> QED BY <1>2, <1>6, <2>2, <2>3, <2>9
<1> QED BY <1>5, <1>6

LEMMA OrderFirst == ASSUME Init PROVE OrderInv
<1>1. /\ batches = <<>> /\ DOMAIN batches = {}
      /\ \A k \in DOMAIN Timeframes : current[k] = NoCandle /\ Closed(k) = <<>>
  BY ClosedEmpty DEF Init
<1>2. DOMAIN <<>> = {}
  OBVIOUS
<1> QED BY <1>1, <1>2 DEF OrderInv, Listed

LEMMA OrderGoesOn ==
  ASSUME StreamInv, MarketTypes, CandlesInv, OrderInv, NEW e \in Range(source), Ingest(e)
  PROVE  OrderInv'
<1>1. PICK b \in Batch : Adds(e, b)
  BY IngestAdds
<1>2. e.at \in Nat /\ e \in Emitted /\ e.at \in Int /\ e.at # Never
  BY TradesMore, EmittedType
<1>3. stream'.latest = e.at /\ (stream.latest # Never => stream.latest \in Nat /\ stream.latest =< e.at)
  BY DEF Ingest, InTime, StreamInv, StreamTypes, Streams
<1>4. PICK m \in Nat : m = Len(batches) /\ DOMAIN batches = 1..m
  BY DEF MarketTypes
<1>5. \A n \in 1..m : Closes(batches[n]) \subseteq Int
  <2>1. \A n \in 1..m : batches[n] \in Batch
    BY <1>4 DEF MarketTypes
  <2> QED BY <2>1, ClosesType
<1>6. \A n \in 1..m : \A t \in Closes(batches[n]), u \in Closes(b) : t < u
  <2> SUFFICES ASSUME NEW n \in 1..m, NEW t \in Closes(batches[n]), NEW u \in Closes(b) PROVE t < u
    OBVIOUS
  <2>1. t =< stream.latest /\ t \in Int
    BY <1>4, <1>5 DEF OrderInv
  <2>2. u \in Int /\ stream.latest \in Nat /\ stream.latest < u
    BY <1>1 DEF Adds
  <2> QED BY <2>1, <2>2
<1>7. \A n \in 1..m : \A t \in Closes(batches[n]) : t =< e.at
  <2> SUFFICES ASSUME NEW n \in 1..m, NEW t \in Closes(batches[n]) PROVE t =< e.at
    OBVIOUS
  <2>1. t =< stream.latest /\ stream.latest # Never /\ t \in Int
    BY <1>4, <1>5 DEF OrderInv
  <2> QED BY <1>2, <1>3, <2>1
<1>8. \A n, l \in DOMAIN batches' : n < l => \A t \in Closes(batches'[n]), u \in Closes(batches'[l]) : t < u
  <2>1. CASE DOMAIN b = {}
    <3>1. batches' = batches
      BY <1>1, <2>1 DEF Adds
    <3> QED BY <3>1 DEF OrderInv
  <2>2. CASE DOMAIN b # {}
    <3>1. batches' = Append(batches, b)
      BY <1>1, <2>2 DEF Adds
    <3>2. DOMAIN batches' = 1..(m + 1) /\ (\A n \in 1..m : batches'[n] = batches[n]) /\ batches'[m + 1] = b
      BY <1>4, <3>1 DEF MarketTypes
    <3>3. \A n, l \in 1..(m + 1) : n < l => n \in 1..m /\ (l \in 1..m \/ l = m + 1)
      OBVIOUS
    <3>4. \A n, l \in 1..m : n < l => \A t \in Closes(batches[n]), u \in Closes(batches[l]) : t < u
      BY <1>4 DEF OrderInv
    <3> QED BY <1>6, <3>2, <3>3, <3>4
  <2> QED BY <2>1, <2>2
<1>9. \A n \in DOMAIN batches' : \A t \in Closes(batches'[n]) : t =< e.at
  <2>1. CASE DOMAIN b = {}
    <3>1. batches' = batches
      BY <1>1, <2>1 DEF Adds
    <3> QED BY <1>4, <1>7, <3>1
  <2>2. CASE DOMAIN b # {}
    <3>1. batches' = Append(batches, b)
      BY <1>1, <2>2 DEF Adds
    <3>2. DOMAIN batches' = 1..(m + 1) /\ (\A n \in 1..m : batches'[n] = batches[n]) /\ batches'[m + 1] = b
      BY <1>4, <3>1 DEF MarketTypes
    <3>3. \A n \in 1..(m + 1) : n \in 1..m \/ n = m + 1
      OBVIOUS
    <3>4. \A u \in Closes(b) : u =< e.at
      BY <1>1 DEF Adds
    <3> QED BY <1>7, <3>2, <3>3, <3>4
  <2> QED BY <2>1, <2>2
<1>10. ASSUME NEW k \in DOMAIN Timeframes PROVE Listed(k, Closed(k)', batches')
  <2>1. PICK closed \in Seq(Candle) : /\ closed = Closed(k)
                                      /\ Closed(k)' = IF k \in DOMAIN b THEN Append(closed, b[k]) ELSE closed
    BY <1>1 DEF Adds
  <2>2. Listed(k, closed, batches)
    BY <2>1 DEF OrderInv
  <2>3. CASE DOMAIN b = {}
    <3>1. batches' = batches /\ k \notin DOMAIN b
      BY <1>1, <2>3 DEF Adds
    <3> QED BY <2>1, <2>2, <3>1
  <2>4. CASE DOMAIN b # {}
    <3>1. batches' = Append(batches, b)
      BY <1>1, <2>4 DEF Adds
    <3>2. Listed(k, IF k \in DOMAIN b THEN Append(closed, b[k]) ELSE closed, Append(batches, b))
      BY <1>4, <1>6, <2>2, ListedGrows DEF MarketTypes
    <3> QED BY <2>1, <3>1, <3>2, Zenon
  <2> QED BY <2>3, <2>4
<1>11. ASSUME NEW k \in DOMAIN Timeframes PROVE Close(k, current'[k]) > e.at
  <2>1. PICK tf \in Alignment : tf = Timeframes[k]
    BY TimeframeType
  <2>2. PICK c \in Candle \union {NoCandle} : c = current[k]
    BY DEF MarketTypes
  <2>3. PICK x \in Candle : x = current'[k] /\ x = Accumulated(tf, c, e)
    BY <1>2, <2>1, <2>2, AccumulatedType DEF Ingest
  <2>4. x.from = BucketOpen(tf, e.at)
    <3>1. CASE c = NoCandle
      BY <2>3, <3>1 DEF Accumulated, Opened
    <3>2. CASE c # NoCandle /\ Finalizes(tf, c, e)
      BY <2>3, <3>2 DEF Accumulated, Opened
    <3>3. CASE c # NoCandle /\ ~Finalizes(tf, c, e)
      <4>1. c \in Candle /\ c.from = BucketOpen(tf, e.at) /\ x = [c EXCEPT !.trades = Append(@, e)]
        BY <2>2, <2>3, <3>3 DEF Accumulated, Finalizes
      <4> QED BY <4>1 DEF Candle
    <3> QED BY <3>1, <3>2, <3>3
  <2>5. e.at < BucketOpen(tf, e.at) + tf.duration
    BY <1>2, Buckets
  <2>6. Close(k, x) = BucketOpen(tf, e.at) + tf.duration /\ Close(k, x) \in Int
    BY <2>1, <2>4, CloseType DEF Close, CloseTime
  <2> QED BY <1>2, <2>3, <2>5, <2>6
<1> QED BY <1>2, <1>3, <1>8, <1>9, <1>10, <1>11 DEF OrderInv

LEMMA OrderStays ==
  ASSUME StreamInv, MarketTypes, CandlesInv, OrderInv, [Next]_vars
  PROVE  OrderInv'
<1>1. CASE \E i \in DOMAIN source : Ingest(source[i])
  <2>1. PICK e \in Range(source) : Ingest(e)
    BY <1>1 DEF Range
  <2> QED BY <2>1, OrderGoesOn
<1>2. CASE UNCHANGED <<current, batches, accepted>> /\ stream'.latest = stream.latest
  <2>1. \A k : Closed(k)' = Closed(k)
    BY <1>2 DEF Closed
  <2> QED BY <1>2, <2>1 DEF OrderInv
<1> QED BY <1>1, <1>2, OnlyIngestBuilds
-----------------------------------------------------------------------------
(* Analysis: what it has fed on ends at its boundary, a history is the newest  *)
(* of what closed by then, and a frame of what closed by its own.              *)

\* The first p of these candles are the ones that closed by t.
Counts(k, closed, p, t) ==
  p \in 0..Len(closed) /\ \A i \in DOMAIN closed : Close(k, closed[i]) =< t <=> i =< p

\* What follows the first q of the first p.
Slice(s, q, p) == [i \in 1..(p - q) |-> s[q + i]]

\* A history starts at the first candle, or it is full.
Full(q, p) == q =< p /\ p - q =< HistoryLimit /\ (q # 0 => p - q = HistoryLimit)

\* A history: the newest of the p candles that closed by the boundary.
Kept(k, closed, history, boundary) ==
  \E p, q \in 0..Len(closed) :
    /\ Full(q, p) /\ history = Slice(closed, q, p)
    /\ IF boundary = Never THEN p = 0 ELSE Counts(k, closed, p, boundary)

\* A frame: the newest of the p candles that closed by t; a later candle, which
\* it does not see, may have taken a place.
Seen(k, closed, seen, t, later) ==
  \E p, q \in 0..Len(closed) :
    /\ q =< p /\ seen = Slice(closed, q, p) /\ Counts(k, closed, p, t)
    /\ q # 0 => p - q >= HistoryLimit - Cardinality(later)

Analyses == [histories : [DOMAIN Timeframes -> Seq(Candle)], boundary : Moments, retained : Seq(Int)]

AnalysisInv ==
  /\ analysis \in Analyses /\ fed \in 0..Len(batches)
  /\ IF fed = 0 THEN analysis.boundary = Never
     ELSE /\ analysis.boundary \in Closes(batches[fed])
          /\ \A t \in Closes(batches[fed]) : t =< analysis.boundary
  /\ \A t \in Range(analysis.retained) : \E n \in 1..fed : t \in Closes(batches[n])
  /\ \A k \in DOMAIN Timeframes : Kept(k, Closed(k), analysis.histories[k], analysis.boundary)
  /\ \A c \in DOMAIN cycles :
       /\ \E n \in 1..fed : cycles[c].at \in Closes(batches[n])
       /\ DOMAIN cycles[c].frame = DOMAIN Timeframes
       /\ \A k \in DOMAIN Timeframes :
            Seen(k, Closed(k), cycles[c].frame[k], cycles[c].at, ClosedLater(k, cycles[c].at))

LEMMA SliceType ==
  ASSUME NEW closed \in Seq(Candle), NEW p \in 0..Len(closed), NEW q \in 0..Len(closed), q =< p
  PROVE  /\ Slice(closed, q, p) \in Seq(Candle) /\ Len(Slice(closed, q, p)) = p - q
         /\ DOMAIN Slice(closed, q, p) = 1..(p - q)
         /\ \A i \in 1..(p - q) : Slice(closed, q, p)[i] = closed[q + i] /\ q + i \in 1..p /\ q + i \in DOMAIN closed
<1>1. PICK m \in Nat : m = Len(closed) /\ DOMAIN closed = 1..m
  OBVIOUS
<1>2. PICK n \in Nat : n = p - q
  BY <1>1
<1>3. \A i \in 1..n : q + i \in 1..p /\ q + i \in 1..m
  BY <1>1, <1>2
<1>4. PICK s : s = Slice(closed, q, p)
  OBVIOUS
<1>5. s = [i \in 1..n |-> closed[q + i]]
  BY <1>2, <1>4 DEF Slice
<1>6. \A i \in 1..n : closed[q + i] \in Candle
  BY <1>1, <1>3, SMTT(30)
<1>7. s \in [1..n -> Candle]
  BY <1>5, <1>6
<1> QED BY <1>1, <1>2, <1>3, <1>4, <1>5, <1>7

LEMMA SliceGrows ==
  ASSUME NEW k \in DOMAIN Timeframes, NEW closed \in Seq(Candle), NEW c \in Candle,
         NEW p \in 0..Len(closed), NEW q \in 0..Len(closed), q =< p
  PROVE  /\ Slice(Append(closed, c), q, p) = Slice(closed, q, p)
         /\ p \in 0..Len(Append(closed, c)) /\ q \in 0..Len(Append(closed, c))
         /\ \A t \in Int : Counts(k, closed, p, t) /\ t < Close(k, c) => Counts(k, Append(closed, c), p, t)
<1>1. PICK m \in Nat : m = Len(closed) /\ DOMAIN closed = 1..m
  OBVIOUS
<1>2. PICK more : more = Append(closed, c)
  OBVIOUS
<1>3. DOMAIN more = 1..(m + 1) /\ Len(more) = m + 1 /\ (\A i \in 1..m : more[i] = closed[i]) /\ more[m + 1] = c
  BY <1>1, <1>2
<1>4. \A i \in 1..(p - q) : more[q + i] = closed[q + i]
  <2>1. \A i \in 1..(p - q) : q + i \in 1..m
    BY <1>1
  <2> QED BY <1>3, <2>1
<1>5. Slice(more, q, p) = Slice(closed, q, p)
  BY <1>4 DEF Slice
<1>6. p \in 0..(m + 1) /\ q \in 0..(m + 1)
  BY <1>1
<1>7. ASSUME NEW t \in Int, Counts(k, closed, p, t), t < Close(k, c) PROVE Counts(k, more, p, t)
  <2>1. \A i \in 1..m : Close(k, closed[i]) =< t <=> i =< p
    BY <1>1, <1>7 DEF Counts
  <2>2. ~(Close(k, c) =< t) /\ ~(m + 1 =< p)
    BY <1>1, <1>7, CloseType
  <2>3. \A i \in 1..(m + 1) : i \in 1..m \/ i = m + 1
    OBVIOUS
  <2>4. \A i \in 1..(m + 1) : Close(k, more[i]) =< t <=> i =< p
    BY <1>3, <2>1, <2>2, <2>3
  <2> QED BY <1>3, <1>6, <2>4 DEF Counts
<1> QED BY <1>2, <1>3, <1>5, <1>6, <1>7

LEMMA KeptGrows ==
  ASSUME NEW k \in DOMAIN Timeframes, NEW closed \in Seq(Candle), NEW c \in Candle, NEW history,
         NEW t \in Moments, Kept(k, closed, history, t), t # Never => t < Close(k, c)
  PROVE  Kept(k, Append(closed, c), history, t)
<1>1. PICK p, q \in 0..Len(closed) :
        /\ Full(q, p) /\ history = Slice(closed, q, p)
        /\ IF t = Never THEN p = 0 ELSE Counts(k, closed, p, t)
  BY DEF Kept
<1>2. PICK more : more = Append(closed, c)
  OBVIOUS
<1>3. Slice(more, q, p) = Slice(closed, q, p) /\ p \in 0..Len(more) /\ q \in 0..Len(more)
  BY <1>1, <1>2, SliceGrows DEF Full
<1>4. IF t = Never THEN p = 0 ELSE Counts(k, more, p, t)
  BY <1>1, <1>2, SliceGrows DEF Moments, Full
<1>5. Kept(k, more, history, t)
  BY <1>1, <1>3, <1>4, Zenon DEF Kept
<1> QED BY <1>2, <1>5

LEMMA SeenGrows ==
  ASSUME NEW k \in DOMAIN Timeframes, NEW closed \in Seq(Candle), NEW c \in Candle, NEW seen, NEW later,
         NEW t \in Int, Seen(k, closed, seen, t, later), t < Close(k, c)
  PROVE  Seen(k, Append(closed, c), seen, t, later)
<1>1. PICK p, q \in 0..Len(closed) :
        /\ q =< p /\ seen = Slice(closed, q, p) /\ Counts(k, closed, p, t)
        /\ q # 0 => p - q >= HistoryLimit - Cardinality(later)
  BY DEF Seen
<1>2. PICK more : more = Append(closed, c)
  OBVIOUS
<1>3. Slice(more, q, p) = Slice(closed, q, p) /\ p \in 0..Len(more) /\ q \in 0..Len(more) /\ Counts(k, more, p, t)
  BY <1>1, <1>2, SliceGrows
<1>4. Seen(k, more, seen, t, later)
  BY <1>1, <1>3, Zenon DEF Seen
<1> QED BY <1>2, <1>4

LEMMA AnalysisFirst == ASSUME Init PROVE AnalysisInv
<1>1. /\ fed = 0 /\ batches = <<>> /\ cycles = <<>> /\ DOMAIN cycles = {}
      /\ analysis = [histories |-> [k \in DOMAIN Timeframes |-> <<>>], boundary |-> Never, retained |-> <<>>]
      /\ \A k \in DOMAIN Timeframes : Closed(k) = <<>>
  BY ClosedEmpty DEF Init
<1>2. analysis \in Analyses
  <2>1. <<>> \in Seq(Candle) /\ <<>> \in Seq(Int)
    OBVIOUS
  <2> QED BY <1>1, <2>1 DEF Analyses, Moments
<1>3. Range(analysis.retained) = {}
  BY <1>1 DEF Range
<1>4. ASSUME NEW k \in DOMAIN Timeframes PROVE Kept(k, <<>>, <<>>, Never)
  <2>1. Slice(<<>>, 0, 0) = <<>> /\ 0 \in 0..Len(<<>>)
    BY DEF Slice
  <2>2. Full(0, 0)
    BY PipelineAssumption DEF Full
  <2> QED BY <2>1, <2>2, Zenon DEF Kept
<1>5. \A k \in DOMAIN Timeframes : Kept(k, Closed(k), analysis.histories[k], analysis.boundary)
  BY <1>1, <1>4
<1>6. fed \in 0..Len(batches) /\ analysis.boundary = Never
  BY <1>1
<1> QED BY <1>1, <1>2, <1>3, <1>5, <1>6 DEF AnalysisInv

\* What the boundary and the batches it has fed on say of each other.
LEMMA FedOrder ==
  ASSUME MarketTypes, OrderInv, AnalysisInv
  PROVE  /\ \A n \in 1..fed : n \in DOMAIN batches /\ \A t \in Closes(batches[n]) : t =< analysis.boundary
         /\ \A n \in DOMAIN batches : n > fed => \A t \in Closes(batches[n]) : Open(t, analysis.boundary)
         /\ \A n \in 1..fed : analysis.boundary # Never
         /\ \A n \in DOMAIN batches : batches[n] \in Batch /\ Closes(batches[n]) \subseteq Int
<1>1. PICK m \in Nat : m = Len(batches) /\ DOMAIN batches = 1..m /\ fed \in 0..m
  BY DEF MarketTypes, AnalysisInv
<1>2. \A n \in 1..m : batches[n] \in Batch /\ Closes(batches[n]) \subseteq Int
  BY <1>1, ClosesType DEF MarketTypes
<1>3. \A n \in 1..m : n > fed => \A t \in Closes(batches[n]) : Open(t, analysis.boundary)
  <2> SUFFICES ASSUME NEW n \in 1..m, n > fed, NEW t \in Closes(batches[n]), analysis.boundary # Never
               PROVE  t > analysis.boundary
    BY DEF Open
  <2>1. fed # 0 /\ fed \in 1..m /\ analysis.boundary \in Closes(batches[fed])
    BY <1>1 DEF AnalysisInv
  <2>2. analysis.boundary < t
    BY <1>1, <2>1 DEF OrderInv
  <2> QED BY <1>2, <2>1, <2>2
<1>4. ASSUME NEW n \in 1..fed
      PROVE  n \in 1..m /\ analysis.boundary # Never /\ \A t \in Closes(batches[n]) : t =< analysis.boundary
  <2>1. n \in 1..m /\ fed \in 1..m /\ fed # 0
    BY <1>1
  <2>2. analysis.boundary \in Closes(batches[fed]) /\ \A t \in Closes(batches[fed]) : t =< analysis.boundary
    BY <2>1 DEF AnalysisInv
  <2>3. analysis.boundary \in Int /\ analysis.boundary # Never
    BY <1>2, <2>1, <2>2, PipelineAssumption
  <2>4. ASSUME NEW t \in Closes(batches[n]), n < fed PROVE t =< analysis.boundary
    <3>1. t < analysis.boundary
      BY <1>1, <2>1, <2>2, <2>4 DEF OrderInv
    <3> QED BY <1>2, <2>1, <2>3, <3>1
  <2>5. n < fed \/ n = fed
    BY <1>1
  <2> QED BY <2>1, <2>2, <2>3, <2>4, <2>5
<1> QED BY <1>1, <1>2, <1>3, <1>4

LEMMA AnalysisGoesOn ==
  ASSUME StreamInv, MarketTypes, CandlesInv, PublishedInv, OrderInv, AnalysisInv, NEW e \in Range(source), Ingest(e)
  PROVE  AnalysisInv'
<1>1. PICK b \in Batch : Adds(e, b)
  BY IngestAdds
<1>2. PICK m \in Nat : m = Len(batches) /\ DOMAIN batches = 1..m /\ fed \in 0..m
  BY DEF MarketTypes, AnalysisInv
<1>3. /\ m =< Len(batches') /\ Len(batches') \in Nat
      /\ \A n \in 1..m : n \in DOMAIN batches' /\ batches'[n] = batches[n]
      /\ \A n \in DOMAIN batches' : n \in 1..m \/ batches'[n] = b
  <2>1. CASE DOMAIN b = {}
    <3>1. batches' = batches
      BY <1>1, <2>1 DEF Adds
    <3> QED BY <1>2, <3>1
  <2>2. CASE DOMAIN b # {}
    <3>1. batches' = Append(batches, b)
      BY <1>1, <2>2 DEF Adds
    <3> QED BY <1>2, <3>1 DEF MarketTypes
  <2> QED BY <2>1, <2>2
<1>4. UNCHANGED <<analysis, fed, cycles>>
  BY DEF Ingest, analyzing
<1>5. /\ \A n \in 1..m : Closes(batches[n]) \subseteq Int
      /\ \A n \in 1..m : \A t \in Closes(batches[n]), u \in Closes(b) : t < u
  <2>1. \A n \in 1..m : Closes(batches[n]) \subseteq Int
    BY <1>2, FedOrder
  <2> SUFFICES ASSUME NEW n \in 1..m, NEW t \in Closes(batches[n]), NEW u \in Closes(b) PROVE t < u
    BY <2>1
  <2>2. t =< stream.latest /\ t \in Int
    BY <1>2, <2>1 DEF OrderInv
  <2>3. u \in Int /\ stream.latest \in Nat /\ stream.latest < u
    BY <1>1 DEF Adds
  <2> QED BY <2>2, <2>3
<1>6. IF fed' = 0 THEN analysis'.boundary = Never
      ELSE /\ analysis'.boundary \in Closes(batches'[fed'])
           /\ \A t \in Closes(batches'[fed']) : t =< analysis'.boundary
  <2>1. fed # 0 => fed \in 1..m
    BY <1>2
  <2>2. fed # 0 => batches'[fed] = batches[fed]
    BY <1>3, <2>1
  <2> QED BY <1>4, <2>2 DEF AnalysisInv
<1>7. \A n \in 1..fed : batches'[n] = batches[n] /\ n \in 1..m
  BY <1>2, <1>3
<1>8. \A t \in Range(analysis'.retained) : \E n \in 1..fed' : t \in Closes(batches'[n])
  BY <1>4, <1>7 DEF AnalysisInv
<1>9. ASSUME NEW k \in DOMAIN Timeframes PROVE Kept(k, Closed(k)', analysis.histories[k], analysis.boundary)
  <2>1. PICK closed \in Seq(Candle) : /\ closed = Closed(k)
                                      /\ Closed(k)' = IF k \in DOMAIN b THEN Append(closed, b[k]) ELSE closed
    BY <1>1 DEF Adds
  <2>2. Kept(k, closed, analysis.histories[k], analysis.boundary)
    BY <2>1 DEF AnalysisInv
  <2>3. CASE k \in DOMAIN b
    <3>1. PICK c \in Candle : c = b[k]
      BY <2>3 DEF Batch
    <3>2. analysis.boundary \in Moments
      BY DEF AnalysisInv, Analyses
    <3>3. analysis.boundary # Never => analysis.boundary < Close(k, c)
      <4> SUFFICES ASSUME analysis.boundary # Never PROVE analysis.boundary < Close(k, c)
        OBVIOUS
      <4>1. fed \in 1..m /\ analysis.boundary \in Closes(batches[fed])
        BY <1>2 DEF AnalysisInv
      <4>2. Close(k, c) \in Closes(b)
        BY <2>3, <3>1 DEF Closes
      <4> QED BY <1>5, <4>1, <4>2
    <3>4. Kept(k, Append(closed, c), analysis.histories[k], analysis.boundary)
      BY <2>2, <3>2, <3>3, KeptGrows
    <3> QED BY <2>1, <2>3, <3>1, <3>4
  <2> QED BY <2>1, <2>2, <2>3
<1>10. ASSUME NEW i \in DOMAIN cycles, NEW k \in DOMAIN Timeframes
       PROVE  Seen(k, Closed(k)', cycles[i].frame[k], cycles[i].at, ClosedLater(k, cycles[i].at)')
  <2>1. PICK closed \in Seq(Candle) : /\ closed = Closed(k)
                                      /\ Closed(k)' = IF k \in DOMAIN b THEN Append(closed, b[k]) ELSE closed
    BY <1>1 DEF Adds
  <2>2. PICK t : t = cycles[i].at
    OBVIOUS
  <2>3. PICK n \in 1..m : t \in Closes(batches[n])
    BY <1>7, <2>2 DEF AnalysisInv
  <2>4. t \in Int /\ \A u \in Closes(b) : t < u
    BY <1>5, <2>3
  <2>5. t \notin Closes(b)
    BY <2>4
  <2>6. ClosedLater(k, t)' = ClosedLater(k, t)
    <3>1. {x \in Range(batches') : t \in Closes(x) /\ k \in DOMAIN x /\ Close(k, x[k]) > t} =
          {x \in Range(batches) : t \in Closes(x) /\ k \in DOMAIN x /\ Close(k, x[k]) > t}
      <4>1. \A x \in Range(batches') : x = b \/ x \in Range(batches)
        BY <1>2, <1>3 DEF Range
      <4>2. \A x \in Range(batches) : x \in Range(batches')
        BY <1>2, <1>3 DEF Range
      <4> QED BY <2>5, <4>1, <4>2
    <3>2. ClosedLater(k, t)' = {x[k] : x \in {y \in Range(batches') : t \in Closes(y) /\ k \in DOMAIN y /\ Close(k, y[k]) > t}}
      BY DEF ClosedLater
    <3>3. ClosedLater(k, t) = {x[k] : x \in {y \in Range(batches) : t \in Closes(y) /\ k \in DOMAIN y /\ Close(k, y[k]) > t}}
      BY DEF ClosedLater
    <3> QED BY <3>1, <3>2, <3>3, Zenon
  <2>7. Seen(k, closed, cycles[i].frame[k], t, ClosedLater(k, t))
    BY <2>1, <2>2 DEF AnalysisInv
  <2>8. CASE k \in DOMAIN b
    <3>1. PICK c \in Candle : c = b[k]
      BY <2>8 DEF Batch
    <3>2. t < Close(k, c)
      BY <2>4, <2>8, <3>1 DEF Closes
    <3>3. Seen(k, Append(closed, c), cycles[i].frame[k], t, ClosedLater(k, t))
      BY <2>4, <2>7, <3>2, SeenGrows
    <3> QED BY <1>4, <2>1, <2>2, <2>6, <2>8, <3>1, <3>3
  <2>9. CASE k \notin DOMAIN b
    BY <1>4, <2>1, <2>2, <2>6, <2>7, <2>9
  <2> QED BY <2>8, <2>9
<1>11. \A i \in DOMAIN cycles : /\ \E n \in 1..fed : cycles[i].at \in Closes(batches'[n])
                                /\ DOMAIN cycles[i].frame = DOMAIN Timeframes
  BY <1>7 DEF AnalysisInv
<1>12. analysis' \in Analyses /\ fed' \in 0..Len(batches')
  BY <1>2, <1>3, <1>4 DEF AnalysisInv
<1> QED BY <1>4, <1>6, <1>8, <1>9, <1>10, <1>11, <1>12 DEF AnalysisInv

\* The number of the first n indices.
LEMMA FirstIndices ==
  ASSUME NEW n \in Nat
  PROVE  Cardinality(1..n) = n /\ \A i \in 1..n : {j \in 1..n : j =< i} = 1..i /\ Cardinality(1..i) = i
<1>1. \A i \in Nat : Cardinality(1..i) = i
  <2> SUFFICES ASSUME NEW i \in Nat PROVE Cardinality(1..i) = i
    OBVIOUS
  <2>1. Cardinality(1..i) = IF 1 > i THEN 0 ELSE i - 1 + 1
    BY FS_Interval
  <2> QED BY <2>1
<1> QED BY <1>1

LEMMA ThoseFirst ==
  ASSUME NEW n \in Nat, NEW s
  PROVE  Those(s, 1..n) = [i \in 1..n |-> s[i]]
<1>1. \A i \in 1..n : (CHOOSE x \in 1..n : Cardinality({j \in 1..n : j =< x}) = i) = i
  <2>1. \A x \in 1..n : Cardinality({j \in 1..n : j =< x}) = x
    BY FirstIndices
  <2> QED BY <2>1
<1>2. Cardinality(1..n) = n
  BY FirstIndices
<1>3. Those(s, 1..n) = [i \in 1..n |-> s[CHOOSE x \in 1..n : Cardinality({j \in 1..n : j =< x}) = i]]
  BY <1>2, Zenon DEF Those
<1>4. \A i \in 1..n : s[CHOOSE x \in 1..n : Cardinality({j \in 1..n : j =< x}) = i] = s[i]
  BY <1>1, Zenon
<1>5. [i \in 1..n |-> s[CHOOSE x \in 1..n : Cardinality({j \in 1..n : j =< x}) = i]] = [i \in 1..n |-> s[i]]
  BY <1>4, Zenon
<1> QED BY <1>3, <1>5

\* What closed by t of a slice that reaches beyond it.
LEMMA SliceClosedBy ==
  ASSUME NEW k \in DOMAIN Timeframes, NEW closed \in Seq(Candle), NEW p \in 0..Len(closed), NEW q \in 0..Len(closed),
         NEW x \in 0..Len(closed), q =< x, x =< p, NEW t \in Int, Counts(k, closed, x, t)
  PROVE  ClosedBy(k, Slice(closed, q, p), t) = Slice(closed, q, x)
<1>1. PICK m \in Nat : m = Len(closed) /\ DOMAIN closed = 1..m
  OBVIOUS
<1>2. PICK s : s = Slice(closed, q, p)
  OBVIOUS
<1>3. /\ DOMAIN s = 1..(p - q)
      /\ \A i \in 1..(p - q) : s[i] = closed[q + i] /\ q + i \in 1..m
  <2>1. q =< p
    OBVIOUS
  <2>2. /\ DOMAIN Slice(closed, q, p) = 1..(p - q)
        /\ \A i \in 1..(p - q) : Slice(closed, q, p)[i] = closed[q + i] /\ q + i \in DOMAIN closed
    BY <2>1, SliceType
  <2> QED BY <1>1, <1>2, <2>2
<1>4. \A i \in 1..(p - q) : Close(k, s[i]) =< t <=> q + i =< x
  <2>1. \A i \in 1..m : Close(k, closed[i]) =< t <=> i =< x
    BY <1>1 DEF Counts
  <2> QED BY <1>3, <2>1
<1>5. {i \in DOMAIN s : Close(k, s[i]) =< t} = 1..(x - q)
  <2>1. \A i \in 1..(p - q) : q + i =< x <=> i \in 1..(x - q)
    OBVIOUS
  <2>2. 1..(x - q) \subseteq 1..(p - q)
    OBVIOUS
  <2> QED BY <1>3, <1>4, <2>1, <2>2
<1>6. x - q \in Nat
  OBVIOUS
<1>7. ClosedBy(k, s, t) = [i \in 1..(x - q) |-> s[i]]
  BY <1>5, <1>6, ThoseFirst DEF ClosedBy
<1>8. \A i \in 1..(x - q) : s[i] = closed[q + i]
  BY <1>3
<1> QED BY <1>2, <1>7, <1>8 DEF Slice

LEMMA WholeClosedBy ==
  ASSUME NEW k \in DOMAIN Timeframes, NEW closed \in Seq(Candle), NEW x \in 0..Len(closed),
         NEW t \in Int, Counts(k, closed, x, t)
  PROVE  ClosedBy(k, closed, t) = Slice(closed, 0, x)
<1>1. PICK m \in Nat : m = Len(closed) /\ DOMAIN closed = 1..m
  OBVIOUS
<1>2. Slice(closed, 0, m) = closed
  <2>1. \A i \in 1..m : 0 + i = i
    OBVIOUS
  <2>2. m - 0 = m
    OBVIOUS
  <2>3. [i \in 1..m |-> closed[i]] = closed
    BY <1>1
  <2> QED BY <2>1, <2>2, <2>3 DEF Slice
<1>3. 0 \in 0..m /\ m \in 0..m /\ 0 =< x /\ x =< m
  BY <1>1
<1>4. ClosedBy(k, Slice(closed, 0, m), t) = Slice(closed, 0, x)
  BY <1>1, <1>3, SliceClosedBy
<1> QED BY <1>2, <1>4

\* A history with the next candle, or without.
Takes(closed, p, x, more) ==
  \/ x = p /\ more = <<>>
  \/ x = p + 1 /\ more = <<closed[x]>>

LEMMA SliceRetained ==
  ASSUME NEW closed \in Seq(Candle), NEW p \in 0..Len(closed), NEW q \in 0..Len(closed), Full(q, p),
         NEW more, NEW x \in 0..Len(closed), Takes(closed, p, x, more)
  PROVE  \E y \in 0..Len(closed) :
           Full(y, x) /\ Retain(HistoryLimit, Slice(closed, q, p), more) = Slice(closed, y, x)
<1>1. PICK m \in Nat : m = Len(closed) /\ DOMAIN closed = 1..m
  OBVIOUS
<1>2. PICK H \in Nat \ {0} : H = HistoryLimit
  BY PipelineAssumption
<1>0. q =< p /\ p - q =< H /\ (q # 0 => p - q = H)
  BY <1>2 DEF Full
<1>3. PICK s : s = Slice(closed, q, p)
  OBVIOUS
<1>4. /\ s \in Seq(Candle) /\ Len(s) = p - q /\ DOMAIN s = 1..(p - q)
      /\ \A i \in 1..(p - q) : s[i] = closed[q + i]
  <2>1. /\ Slice(closed, q, p) \in Seq(Candle) /\ Len(Slice(closed, q, p)) = p - q
        /\ DOMAIN Slice(closed, q, p) = 1..(p - q)
        /\ \A i \in 1..(p - q) : Slice(closed, q, p)[i] = closed[q + i]
    BY <1>0, SliceType
  <2> QED BY <1>3, <2>1
<1>5. PICK u : u = s \o more
  OBVIOUS
<1>6. PICK z \in Seq(Candle) : z = Slice(closed, q, x) /\ Len(z) = x - q /\ DOMAIN z = 1..(x - q)
                               /\ \A i \in 1..(x - q) : z[i] = closed[q + i]
  <2>1. q =< x
    BY <1>0 DEF Takes
  <2>2. /\ Slice(closed, q, x) \in Seq(Candle) /\ Len(Slice(closed, q, x)) = x - q
        /\ DOMAIN Slice(closed, q, x) = 1..(x - q)
        /\ \A i \in 1..(x - q) : Slice(closed, q, x)[i] = closed[q + i]
    BY <2>1, SliceType
  <2> QED BY <2>2
<1>7. u = z
  <2>1. CASE x = p /\ more = <<>>
    BY <1>3, <1>4, <1>5, <1>6, <2>1
  <2>2. CASE x = p + 1 /\ more = <<closed[x]>>
    <3>1. PICK c \in Candle : c = closed[x]
      BY <1>1, <2>2
    <3>2. u \in Seq(Candle) /\ Len(u) = p - q + 1 /\ (\A i \in 1..(p - q) : u[i] = s[i]) /\ u[p - q + 1] = c
      <4>1. PICK l \in Nat : l = p - q
        BY <1>0
      <4>2. u = s \o <<c>> /\ Len(s) = l
        BY <1>4, <1>5, <2>2, <3>1, <4>1
      <4>3. u \in Seq(Candle) /\ Len(u) = l + 1 /\ (\A i \in 1..l : u[i] = s[i]) /\ u[l + 1] = c
        <5>1. s \in Seq(Candle) /\ <<c>> \in Seq(Candle) /\ Len(<<c>>) = 1 /\ <<c>>[1] = c
          BY <1>4
        <5>2. PICK v \in Seq(Candle) : v = <<c>> /\ Len(v) = 1 /\ v[1] = c
          BY <5>1
        <5>3. s \o v \in Seq(Candle) /\ Len(s \o v) = l + 1 /\ (\A i \in 1..l : (s \o v)[i] = s[i]) /\ (s \o v)[l + 1] = v[1]
          BY <4>2, <5>1, <5>2, SMTT(30)
        <5> QED BY <4>2, <5>2, <5>3
      <4> QED BY <4>1, <4>3
    <3>3. DOMAIN u = 1..(x - q)
      BY <2>2, <3>2
    <3>4. \A i \in 1..(x - q) : u[i] = z[i]
      <4> SUFFICES ASSUME NEW i \in 1..(x - q) PROVE u[i] = z[i]
        OBVIOUS
      <4>1. CASE i \in 1..(p - q)
        <5>1. u[i] = s[i]
          BY <3>2, <4>1
        <5> QED BY <1>4, <1>6, <4>1, <5>1
      <4>2. CASE i = p - q + 1
        <5>1. u[i] = c
          BY <3>2, <4>2
        <5>2. q + i = x
          BY <2>2, <4>2
        <5> QED BY <1>6, <3>1, <5>1, <5>2
      <4> QED BY <1>0, <2>2, <4>1, <4>2
    <3> QED BY <1>6, <3>2, <3>3, <3>4
  <2> QED BY <2>1, <2>2 DEF Takes
<1>8. CASE x - q =< H
  <2>1. Retain(H, s, more) = z
    BY <1>2, <1>5, <1>6, <1>7, <1>8 DEF Retain
  <2>2. q =< x /\ (q # 0 => x - q = H)
    BY <1>0, <1>2, <1>8 DEF Takes
  <2>3. Full(q, x)
    BY <1>2, <1>8, <2>2 DEF Full
  <2> QED BY <1>2, <1>3, <1>6, <2>1, <2>3
<1>9. CASE x - q > H
  <2>1. x = p + 1 /\ p - q = H /\ x - q = H + 1
    BY <1>0, <1>2, <1>9 DEF Takes
  <2>2. Retain(H, s, more) = SubSeq(z, 2, H + 1)
    <3>1. Len(z) > H /\ Len(z) - H + 1 = 2 /\ Len(z) = H + 1
      BY <1>2, <1>6, <2>1
    <3> QED BY <1>5, <1>7, <3>1, Zenon DEF Retain
  <2>3. PICK y \in 0..m : y = q + 1
    BY <1>1, <1>2, <2>1
  <2>4. Slice(closed, y, x) \in Seq(Candle) /\ DOMAIN Slice(closed, y, x) = 1..H
        /\ \A i \in 1..H : Slice(closed, y, x)[i] = closed[y + i]
    <3>1. y =< x /\ x - y = H
      BY <1>2, <2>1, <2>3
    <3> QED BY <1>1, <3>1, SliceType
  <2>5. SubSeq(z, 2, H + 1) \in Seq(Candle) /\ Len(SubSeq(z, 2, H + 1)) = H
        /\ \A i \in 1..H : SubSeq(z, 2, H + 1)[i] = z[i + 1]
    BY <1>2, <1>6, <2>1
  <2>6. \A i \in 1..H : z[i + 1] = closed[y + i]
    <3>1. \A i \in 1..H : i + 1 \in 1..(x - q) /\ q + (i + 1) = y + i
      BY <2>1, <2>3
    <3> QED BY <1>6, <3>1
  <2>7. SubSeq(z, 2, H + 1) = Slice(closed, y, x)
    <3>1. PICK v, w \in Seq(Candle) : v = SubSeq(z, 2, H + 1) /\ w = Slice(closed, y, x)
      BY <2>4, <2>5
    <3>2. Len(v) = H /\ DOMAIN w = 1..H
      BY <2>4, <2>5, <3>1, Zenon
    <3>3. \A i \in 1..H : v[i] = z[i + 1] /\ w[i] = z[i + 1]
      BY <2>4, <2>5, <2>6, <3>1, Zenon
    <3>4. DOMAIN v = 1..H
      BY <3>1, <3>2, <1>2
    <3> QED BY <3>1, <3>2, <3>3, <3>4
  <2>8. y =< x /\ x - y = H /\ x - y =< H
    BY <1>2, <2>1, <2>3
  <2>9. Full(y, x)
    BY <1>2, <2>8 DEF Full
  <2> QED BY <1>1, <1>2, <1>3, <2>2, <2>7, <2>9
<1> QED BY <1>2, <1>8, <1>9

\* The candles of a timeframe that closed by a boundary of the next batch: those
\* of its history and, if it is not later, the one of the batch.
LEMMA CountsNext ==
  ASSUME MarketTypes, OrderInv, AnalysisInv, fed + 1 \in DOMAIN batches,
         NEW k \in DOMAIN Timeframes, NEW b \in Batch, b = batches[fed + 1],
         NEW closed \in Seq(Candle), closed = Closed(k),
         NEW p \in 0..Len(closed), IF analysis.boundary = Never THEN p = 0 ELSE Counts(k, closed, p, analysis.boundary)
  PROVE  /\ k \in DOMAIN b => p + 1 \in DOMAIN closed /\ closed[p + 1] = b[k]
         /\ \A t \in Closes(b) :
              Counts(k, closed, IF k \in DOMAIN b /\ Close(k, b[k]) =< t THEN p + 1 ELSE p, t)
<1>1. PICK m \in Nat : m = Len(closed) /\ DOMAIN closed = 1..m
  OBVIOUS
<1>2. PICK T : T = analysis.boundary /\ T \in Moments
  BY DEF AnalysisInv, Analyses
<1>3. fed \in Nat /\ fed + 1 \in DOMAIN batches /\ DOMAIN batches \subseteq Nat /\ Closes(b) \subseteq Int
  BY ClosesType DEF MarketTypes, AnalysisInv
<1>4. \A t \in Closes(b) : T # Never => T \in Int /\ t > T
  <2>1. \A t \in Closes(b) : Open(t, analysis.boundary)
    BY <1>3, FedOrder
  <2> QED BY <1>2, <2>1 DEF Open, Moments
<1>5. \A i \in 1..m : \E n \in DOMAIN batches : k \in DOMAIN batches[n] /\ closed[i] = batches[n][k]
  BY <1>1 DEF OrderInv, Listed
<1>6. \A i \in 1..m : Close(k, closed[i]) \in Int
  BY <1>1, CloseType
<1>7. ASSUME NEW i \in 1..m, NEW t \in Closes(b)
      PROVE  Close(k, closed[i]) =< t <=> i =< p \/ (k \in DOMAIN b /\ closed[i] = b[k] /\ Close(k, b[k]) =< t)
  <2>1. PICK n \in DOMAIN batches : k \in DOMAIN batches[n] /\ closed[i] = batches[n][k]
    BY <1>5
  <2>2. Close(k, closed[i]) \in Closes(batches[n])
    BY <2>1 DEF Closes
  <2>3. ASSUME n =< fed PROVE i =< p /\ Close(k, closed[i]) =< t
    <3>1. n \in 1..fed
      BY <1>3, <2>3 DEF MarketTypes
    <3>2. T # Never /\ Close(k, closed[i]) =< T
      BY <1>2, <2>2, <3>1, FedOrder
    <3>3. i =< p
      BY <1>1, <1>2, <3>2 DEF Counts
    <3> QED BY <1>3, <1>4, <1>6, <3>2, <3>3
  <2>4. ASSUME n > fed PROVE ~(i =< p)
    <3>1. Open(Close(k, closed[i]), T)
      BY <1>2, <2>2, <2>4, FedOrder
    <3>2. CASE T = Never
      BY <1>1, <1>2, <3>2
    <3>3. CASE T # Never
      <4>1. T \in Int /\ Close(k, closed[i]) > T
        BY <1>2, <3>1, <3>3 DEF Open, Moments
      <4>2. ~(Close(k, closed[i]) =< T)
        BY <1>6, <4>1
      <4> QED BY <1>1, <1>2, <3>3, <4>2 DEF Counts
    <3> QED BY <3>2, <3>3
  <2>5. ASSUME n = fed + 1 PROVE k \in DOMAIN b /\ closed[i] = b[k]
    BY <2>1, <2>5
  <2>6. ASSUME n > fed + 1 PROVE t < Close(k, closed[i])
    BY <1>3, <2>2, <2>6 DEF OrderInv
  <2>7. n =< fed \/ n = fed + 1 \/ n > fed + 1
    BY <1>3
  <2>8. CASE n =< fed
    BY <2>3, <2>8
  <2>9. CASE n = fed + 1
    BY <1>3, <2>4, <2>5, <2>9
  <2>10. CASE n > fed + 1
    <3>1. t < Close(k, closed[i]) /\ ~(i =< p)
      BY <1>3, <2>4, <2>6, <2>10
    <3>2. ~(Close(k, closed[i]) =< t)
      BY <1>3, <1>6, <3>1
    <3>3. closed[i] = b[k] /\ Close(k, b[k]) =< t => Close(k, closed[i]) =< t
      OBVIOUS
    <3> QED BY <3>1, <3>2, <3>3
  <2> QED BY <2>7, <2>8, <2>9, <2>10
<1>8. ASSUME k \in DOMAIN b PROVE p + 1 \in 1..m /\ closed[p + 1] = b[k]
  <2>1. PICK j \in 1..m : closed[j] = b[k]
    BY <1>1, <1>3, <1>8 DEF OrderInv, Listed
  <2>2. PICK t \in Closes(b) : t = Close(k, b[k]) /\ t \in Int
    BY <1>3, <1>8 DEF Closes
  <2>3. ~(j =< p)
    <3>1. CASE T = Never
      BY <1>1, <1>2, <3>1
    <3>2. CASE T # Never
      <4>1. ~(Close(k, closed[j]) =< T)
        BY <1>4, <2>1, <2>2, <3>2
      <4> QED BY <1>1, <1>2, <3>2, <4>1 DEF Counts
    <3> QED BY <3>1, <3>2
  <2>4. ASSUME p + 1 < j PROVE FALSE
    <3>1. p + 1 \in 1..m
      BY <1>1, <2>4
    <3>2. Close(k, closed[p + 1]) < Close(k, closed[j])
      BY <1>1, <2>4, <3>1 DEF OrderInv, Listed
    <3>3. Close(k, closed[p + 1]) =< t /\ Close(k, closed[p + 1]) # t
      BY <1>6, <2>1, <2>2, <3>1, <3>2
    <3>4. p + 1 =< p \/ closed[p + 1] = b[k]
      BY <1>7, <3>1, <3>3
    <3> QED BY <2>2, <3>3, <3>4
  <2>5. j = p + 1
    BY <1>1, <2>3, <2>4
  <2> QED BY <2>1, <2>5
<1>9. ASSUME NEW t \in Closes(b), NEW x, x = IF k \in DOMAIN b /\ Close(k, b[k]) =< t THEN p + 1 ELSE p
      PROVE  Counts(k, closed, x, t)
  <2>1. CASE k \in DOMAIN b /\ Close(k, b[k]) =< t
    <3>1. x = p + 1 /\ x \in 0..m /\ closed[x] = b[k] /\ x \in 1..m
      BY <1>1, <1>8, <1>9, <2>1
    <3>2. \A i \in 1..m : closed[i] = b[k] => i = x
      <4> SUFFICES ASSUME NEW i \in 1..m, closed[i] = b[k], i # x PROVE FALSE
        OBVIOUS
      <4>1. i < x \/ x < i
        BY <3>1
      <4>2. Close(k, closed[i]) < Close(k, closed[x]) \/ Close(k, closed[x]) < Close(k, closed[i])
        BY <1>1, <3>1, <4>1 DEF OrderInv, Listed
      <4> QED BY <1>6, <3>1, <4>2
    <3>3. \A i \in 1..m : i =< x <=> i =< p \/ i = x
      BY <3>1
    <3>4. \A i \in 1..m : Close(k, closed[i]) =< t <=> i =< x
      <4> SUFFICES ASSUME NEW i \in 1..m PROVE Close(k, closed[i]) =< t <=> i =< x
        OBVIOUS
      <4>1. Close(k, closed[i]) =< t <=> i =< p \/ closed[i] = b[k]
        BY <1>7, <2>1
      <4>2. closed[i] = b[k] <=> i = x
        BY <3>1, <3>2
      <4> QED BY <3>3, <4>1, <4>2, Zenon
    <3> QED BY <1>1, <3>1, <3>4 DEF Counts
  <2>2. CASE ~(k \in DOMAIN b /\ Close(k, b[k]) =< t)
    <3>1. \A i \in 1..m : Close(k, closed[i]) =< t <=> i =< p
      BY <1>7, <2>2
    <3>2. x = p
      BY <1>9, <2>2
    <3> QED BY <1>1, <3>1, <3>2 DEF Counts
  <2> QED BY <2>1, <2>2
<1> QED BY <1>1, <1>8, <1>9

\* A boundary is one of one batch.
LEMMA LaterInBatch ==
  ASSUME MarketTypes, OrderInv, NEW n \in DOMAIN batches, NEW b, b = batches[n],
         NEW t \in Closes(b), NEW k \in DOMAIN Timeframes
  PROVE  ClosedLater(k, t) = IF k \in DOMAIN b /\ Close(k, b[k]) > t THEN {b[k]} ELSE {}
<1>1. ASSUME NEW x \in Range(batches), t \in Closes(x) PROVE x = b
  <2>1. PICK j \in DOMAIN batches : x = batches[j]
    BY DEF Range
  <2>2. batches[j] \in Batch /\ j \in Nat /\ n \in Nat
    BY DEF MarketTypes
  <2>3. t \in Int
    BY <1>1, <2>1, <2>2, ClosesType
  <2>4. ~(t < t)
    BY <2>3
  <2>5. ~(j < n) /\ ~(n < j)
    BY <1>1, <2>1, <2>4 DEF OrderInv
  <2> QED BY <2>1, <2>2, <2>5
<1>2. b \in Range(batches)
  BY DEF Range
<1>3. {x \in Range(batches) : t \in Closes(x) /\ k \in DOMAIN x /\ Close(k, x[k]) > t} =
      IF k \in DOMAIN b /\ Close(k, b[k]) > t THEN {b} ELSE {}
  BY <1>1, <1>2
<1>4. ClosedLater(k, t) =
      {x[k] : x \in {y \in Range(batches) : t \in Closes(y) /\ k \in DOMAIN y /\ Close(k, y[k]) > t}}
  BY DEF ClosedLater
<1>5. CASE k \in DOMAIN b /\ Close(k, b[k]) > t
  <2>1. ClosedLater(k, t) = {x[k] : x \in {b}}
    BY <1>3, <1>4, <1>5, Zenon
  <2> QED BY <1>5, <2>1
<1>6. CASE ~(k \in DOMAIN b /\ Close(k, b[k]) > t)
  <2>1. ClosedLater(k, t) = {x[k] : x \in {}}
    BY <1>3, <1>4, <1>6, Zenon
  <2>2. {x[k] : x \in {}} = {}
    OBVIOUS
  <2> QED BY <1>6, <2>1, <2>2, Zenon
<1> QED BY <1>5, <1>6

\* What an analysis of the next batch stages for a timeframe, and shows of it.
LEMMA StagedIsKept ==
  ASSUME MarketTypes, OrderInv, AnalysisInv, fed + 1 \in DOMAIN batches,
         NEW k \in DOMAIN Timeframes, NEW b \in Batch, b = batches[fed + 1],
         NEW closed \in Seq(Candle), closed = Closed(k),
         NEW history, Kept(k, closed, history, analysis.boundary),
         NEW staged, staged = Retain(HistoryLimit, history, IF k \in DOMAIN b THEN <<b[k]>> ELSE <<>>),
         NEW last \in Closes(b), \A t \in Closes(b) : t =< last
  PROVE  /\ Kept(k, closed, staged, last)
         /\ \A t \in Closes(b) : Seen(k, closed, ClosedBy(k, staged, t), t, ClosedLater(k, t))
<1>1. PICK m \in Nat : m = Len(closed) /\ DOMAIN closed = 1..m
  OBVIOUS
<1>2. PICK p, q \in 0..m :
        /\ Full(q, p) /\ history = Slice(closed, q, p)
        /\ IF analysis.boundary = Never THEN p = 0 ELSE Counts(k, closed, p, analysis.boundary)
  BY <1>1 DEF Kept
<1>3. Closes(b) \subseteq Int
  BY ClosesType
<1>4. /\ k \in DOMAIN b => p + 1 \in DOMAIN closed /\ closed[p + 1] = b[k]
      /\ \A t \in Closes(b) :
           Counts(k, closed, IF k \in DOMAIN b /\ Close(k, b[k]) =< t THEN p + 1 ELSE p, t)
  BY <1>1, <1>2, CountsNext
<1>5. PICK x \in 0..m : x = IF k \in DOMAIN b THEN p + 1 ELSE p
  BY <1>1, <1>2, <1>4
<1>6. PICK more : more = IF k \in DOMAIN b THEN <<b[k]>> ELSE <<>>
  OBVIOUS
<1>7. Takes(closed, p, x, more)
  BY <1>4, <1>5, <1>6 DEF Takes
<1>8. PICK y \in 0..m : Full(y, x) /\ Retain(HistoryLimit, Slice(closed, q, p), more) = Slice(closed, y, x)
  BY <1>1, <1>2, <1>7, SliceRetained
<1>9. staged = Slice(closed, y, x)
  BY <1>2, <1>6, <1>8
<1>10. k \in DOMAIN b => Close(k, b[k]) \in Closes(b)
  BY DEF Closes
<1>11. Counts(k, closed, x, last)
  BY <1>4, <1>5, <1>10, Zenon
<1>12. last \in Int /\ last # Never
  BY <1>3, PipelineAssumption
<1>13. Kept(k, closed, staged, last)
  BY <1>1, <1>8, <1>9, <1>11, <1>12, Zenon DEF Kept
<1>14. ASSUME NEW t \in Closes(b) PROVE Seen(k, closed, ClosedBy(k, staged, t), t, ClosedLater(k, t))
  <2>1. PICK z \in 0..m : z = IF k \in DOMAIN b /\ Close(k, b[k]) =< t THEN p + 1 ELSE p
    BY <1>1, <1>2, <1>4
  <2>2. Counts(k, closed, z, t)
    BY <1>4, <2>1
  <2>3. PICK later : later = ClosedLater(k, t)
    OBVIOUS
  <2>4. PICK H \in Nat \ {0} : H = HistoryLimit
    BY PipelineAssumption
  <2>5. t \in Int /\ (k \in DOMAIN b => Close(k, b[k]) \in Int)
    BY <1>3, <1>10
  <2>6. \/ z = x /\ Cardinality(later) \in {0, 1}
        \/ z = x - 1 /\ Cardinality(later) = 1
    <3>1. later = IF k \in DOMAIN b /\ Close(k, b[k]) > t THEN {b[k]} ELSE {}
      BY <2>3, LaterInBatch
    <3>2. Cardinality({b[k]}) = 1 /\ Cardinality({}) = 0
      BY FS_Singleton, FS_EmptySet
    <3>3. CASE k \in DOMAIN b /\ Close(k, b[k]) > t
      <4>1. z = p /\ x = p + 1
        BY <1>5, <2>1, <2>5, <3>3
      <4> QED BY <3>1, <3>2, <3>3, <4>1
    <3>4. CASE k \in DOMAIN b /\ ~(Close(k, b[k]) > t)
      <4>1. z = x
        BY <1>5, <2>1, <2>5, <3>4
      <4> QED BY <3>1, <3>2, <3>4, <4>1
    <3>5. CASE k \notin DOMAIN b
      BY <1>5, <2>1, <3>1, <3>2, <3>5
    <3> QED BY <3>3, <3>4, <3>5
  <2>7. PICK n \in {0, 1} : n = Cardinality(later)
    BY <2>6
  <2>8. y =< z /\ z =< x /\ (y # 0 => z - y >= H - n)
    <3>0. y =< x /\ (y # 0 => x - y = H)
      BY <1>8, <2>4, Zenon DEF Full
    <3>1. CASE z = x
      BY <2>4, <2>7, <3>0, <3>1
    <3>2. CASE z = x - 1 /\ n = 1
      BY <2>4, <3>0, <3>2
    <3> QED BY <2>6, <2>7, <3>1, <3>2
  <2>9. ClosedBy(k, staged, t) = Slice(closed, y, z)
    BY <1>1, <1>9, <2>2, <2>5, <2>8, SliceClosedBy
  <2>10. y # 0 => z - y >= HistoryLimit - Cardinality(later)
    BY <2>4, <2>7, <2>8
  <2>11. Seen(k, closed, ClosedBy(k, staged, t), t, later)
    BY <1>1, <2>2, <2>8, <2>9, <2>10, Zenon DEF Seen
  <2> QED BY <2>3, <2>11
<1> QED BY <1>13, <1>14

\* What is left of a window is of it or of what came.
LEMMA RetainedFrom ==
  ASSUME NEW S, NEW window \in Seq(S), NEW more \in Seq(S), NEW n \in Nat
  PROVE  /\ Retain(n, window, more) \in Seq(S)
         /\ Range(Retain(n, window, more)) \subseteq Range(window) \union Range(more)
<1>1. PICK l, m \in Nat : l = Len(window) /\ m = Len(more) /\ DOMAIN window = 1..l /\ DOMAIN more = 1..m
  OBVIOUS
<1>2. PICK s \in Seq(S) : s = window \o more /\ Len(s) = l + m /\ DOMAIN s = 1..(l + m)
  <2>1. window \o more \in Seq(S) /\ Len(window \o more) = l + m
    BY <1>1
  <2>2. PICK s \in Seq(S) : s = window \o more /\ Len(s) = l + m
    BY <2>1
  <2>3. DOMAIN s = 1..(l + m)
    BY <2>2
  <2> QED BY <2>2, <2>3
<1>3. \A i \in 1..(l + m) : s[i] \in Range(window) \union Range(more)
  <2> SUFFICES ASSUME NEW i \in 1..(l + m) PROVE s[i] \in Range(window) \union Range(more)
    OBVIOUS
  <2>1. CASE i =< l
    <3>1. s[i] = window[i] /\ i \in 1..l
      BY <1>1, <1>2, <2>1
    <3> QED BY <1>1, <3>1 DEF Range
  <2>2. CASE i > l
    <3>1. s[i] = more[i - l] /\ i - l \in 1..m
      BY <1>1, <1>2, <2>2
    <3> QED BY <1>1, <3>1 DEF Range
  <2> QED BY <1>1, <2>1, <2>2
<1>4. CASE l + m > n
  <2>1. PICK x \in Nat : x = l + m - n + 1 /\ x >= 1
    BY <1>4
  <2>2. Retain(n, window, more) = SubSeq(s, x, l + m)
    BY <1>2, <1>4, <2>1 DEF Retain
  <2>3. PICK z \in Seq(S) : z = SubSeq(s, x, l + m) /\ DOMAIN z = 1..(l + m - x + 1)
                            /\ \A i \in 1..(l + m - x + 1) : z[i] = s[x + i - 1]
    <3>1. SubSeq(s, x, l + m) \in Seq(S)
      BY <1>1, <1>2, <2>1
    <3>2. DOMAIN SubSeq(s, x, l + m) = 1..(l + m - x + 1)
          /\ \A i \in 1..(l + m - x + 1) : SubSeq(s, x, l + m)[i] = s[x + i - 1]
      BY <2>1
    <3> QED BY <3>1, <3>2
  <2>4. \A i \in 1..(l + m - x + 1) : x + i - 1 \in 1..(l + m)
    BY <2>1
  <2>5. \A i \in DOMAIN z : z[i] \in Range(window) \union Range(more)
    BY <1>3, <2>3, <2>4
  <2>6. Range(z) \subseteq Range(window) \union Range(more)
    BY <2>5 DEF Range
  <2> QED BY <2>2, <2>3, <2>6
<1>5. CASE ~(l + m > n)
  <2>1. Retain(n, window, more) = s
    BY <1>2, <1>5 DEF Retain
  <2> QED BY <1>2, <1>3, <2>1 DEF Range
<1> QED BY <1>4, <1>5

\* The boundaries of a batch, in its order, are all of them.
LEMMA InOrderOfAll ==
  ASSUME NEW b \in Batch, NEW found \in InOrder(Closes(b), b)
  PROVE  found \in Seq(Int) /\ Range(found) = Closes(b)
<1>1. PICK T : T = Closes(b) /\ T \subseteq Int /\ IsFiniteSet(T)
  BY ClosesType
<1>2. PICK n \in Nat : n = Cardinality(T)
  BY <1>1, FS_CardinalityType
<1>3. PICK f : f = [t \in T |-> Min({k \in DOMAIN b : Close(k, b[k]) = t})]
  OBVIOUS
<1>4. \A t \in T : f[t] \in Nat
  <2> SUFFICES ASSUME NEW t \in T PROVE Min({k \in DOMAIN b : Close(k, b[k]) = t}) \in Nat
    BY <1>3
  <2>1. PICK S : S = {k \in DOMAIN b : Close(k, b[k]) = t}
    OBVIOUS
  <2>2. S # {}
    BY <1>1, <2>1 DEF Closes
  <2>3. S \subseteq Nat
    <3>1. DOMAIN Timeframes \subseteq Nat
      <4>1. Timeframes \in Seq(Alignment)
        BY PipelineAssumption DEF Alignment
      <4> QED BY <4>1
    <3> QED BY <2>1, <3>1 DEF Batch
  <2>4. PICK l \in S : \A k \in S : l =< k
    BY <2>2, <2>3, LeastMember
  <2>5. Min(S) \in S
    BY <2>4 DEF Min
  <2> QED BY <2>1, <2>3, <2>5
<1>5. /\ found \in [1..n -> T]
      /\ \A i, j \in DOMAIN found : i < j =>
           Min({k \in DOMAIN b : Close(k, b[k]) = found[i]}) < Min({k \in DOMAIN b : Close(k, b[k]) = found[j]})
  BY <1>1, <1>2 DEF InOrder
<1>6. \A i, j \in 1..n : i < j => f[found[i]] < f[found[j]]
  BY <1>3, <1>5
<1>7. \A i, j \in 1..n : found[i] = found[j] => i = j
  <2> SUFFICES ASSUME NEW i \in 1..n, NEW j \in 1..n, found[i] = found[j], i < j PROVE FALSE
    OBVIOUS
  <2>1. f[found[i]] < f[found[i]] /\ f[found[i]] \in Nat
    BY <1>4, <1>5, <1>6
  <2> QED BY <2>1
<1>8. found \in Injection(1..n, T)
  BY <1>5, <1>7 DEF Injection, IsInjective
<1>9. Cardinality(1..n) = n
  BY FirstIndices
<1>10. found \in Surjection(1..n, T)
  BY <1>1, <1>2, <1>8, <1>9, FS_Injection
<1>11. Range(found) = T
  BY <1>5, <1>10 DEF Surjection, Range
<1>12. found \in Seq(Int)
  BY <1>1, <1>5
<1> QED BY <1>1, <1>11, <1>12

\* The cycles that an analysis adds.
AddsCycles(b) ==
  \A c \in DOMAIN cycles' :
    \/ c \in DOMAIN cycles /\ cycles'[c] = cycles[c]
    \/ /\ cycles'[c].at \in Closes(b)
       /\ cycles'[c].frame = Frame(Staged(b), cycles'[c].at)

\* An analysis is one of the next batch, all of it, at all its boundaries.
Analyzes(b) ==
  /\ fed + 1 \in DOMAIN batches /\ b = batches[fed + 1] /\ fed' = fed + 1
  /\ \E found \in Seq(Int) :
       /\ Range(found) = Closes(b)
       /\ analysis' = [histories |-> Staged(b), boundary |-> Max(Closes(b)),
                       retained |-> Retain(CycleWindow, analysis.retained, found)]
  /\ Closes(b) # {} /\ AddsCycles(b)
  /\ UNCHANGED <<batches, stream, current>>

\* What the histories do not have of the next batch is all of it.
LEMMA NextIsFresh ==
  ASSUME MarketTypes, OrderInv, AnalysisInv, fed + 1 \in DOMAIN batches, NEW b \in Batch, b = batches[fed + 1]
  PROVE  Fresh(b) = b /\ Closes(b) \ Range(analysis.retained) = Closes(b)
<1>1. fed \in Nat /\ DOMAIN batches \subseteq Nat /\ Closes(b) \subseteq Int
  BY ClosesType DEF MarketTypes, AnalysisInv
<1>2. \A t \in Closes(b) : Open(t, analysis.boundary)
  BY <1>1, FedOrder
<1>3. ASSUME NEW k \in DOMAIN b PROVE b[k] \notin Range(analysis.histories[k])
  <2> SUFFICES ASSUME NEW i \in DOMAIN analysis.histories[k], b[k] = analysis.histories[k][i] PROVE FALSE
    BY DEF Range
  <2>1. k \in DOMAIN Timeframes /\ b[k] \in Candle
    BY DEF Batch
  <2>2. PICK closed \in Seq(Candle) : closed = Closed(k)
    BY <2>1, ClosedType DEF ClosedIn, Closed, MarketTypes
  <2>3. Kept(k, closed, analysis.histories[k], analysis.boundary)
    BY <2>1, <2>2 DEF AnalysisInv
  <2>4. PICK p, q \in 0..Len(closed) :
          /\ Full(q, p) /\ analysis.histories[k] = Slice(closed, q, p)
          /\ IF analysis.boundary = Never THEN p = 0 ELSE Counts(k, closed, p, analysis.boundary)
    BY <2>3 DEF Kept
  <2>5. q =< p
    BY <2>4 DEF Full
  <2>6. /\ DOMAIN Slice(closed, q, p) = 1..(p - q)
        /\ \A j \in 1..(p - q) : Slice(closed, q, p)[j] = closed[q + j] /\ q + j \in 1..p /\ q + j \in DOMAIN closed
    BY <2>5, SliceType
  <2>7. i \in 1..(p - q) /\ b[k] = closed[q + i] /\ q + i \in 1..p /\ q + i \in DOMAIN closed
    BY <2>4, <2>6
  <2>8. analysis.boundary # Never /\ Counts(k, closed, p, analysis.boundary)
    BY <2>4, <2>5, <2>7
  <2>9. Close(k, b[k]) =< analysis.boundary
    BY <2>7, <2>8 DEF Counts
  <2>10. Close(k, b[k]) > analysis.boundary /\ Close(k, b[k]) \in Int
    BY <1>1, <1>2, <2>8 DEF Open, Closes
  <2>11. analysis.boundary \in Int
    BY <2>8 DEF AnalysisInv, Analyses, Moments
  <2> QED BY <2>9, <2>10, <2>11
<1>4. Fresh(b) = b
  <2>1. {k \in DOMAIN b : b[k] \notin Range(analysis.histories[k])} = DOMAIN b
    BY <1>3
  <2>2. Fresh(b) = [k \in DOMAIN b |-> b[k]]
    BY <2>1, Zenon DEF Fresh, Restrict
  <2>3. [k \in DOMAIN b |-> b[k]] = b
    BY DEF Batch
  <2> QED BY <2>2, <2>3
<1>5. ASSUME NEW t \in Closes(b), t \in Range(analysis.retained) PROVE FALSE
  <2>1. PICK n \in 1..fed : t \in Closes(batches[n])
    BY <1>5 DEF AnalysisInv
  <2>2. n \in DOMAIN batches /\ n < fed + 1
    BY <1>1, <2>1 DEF MarketTypes
  <2>3. t < t /\ t \in Int
    BY <1>1, <2>1, <2>2 DEF OrderInv
  <2> QED BY <2>3
<1> QED BY <1>4, <1>5

LEMMA AnalyzeGives ==
  ASSUME MarketTypes, PublishedInv, OrderInv, AnalysisInv, NEW i \in DOMAIN batches, Analyze(i)
  PROVE  \E b \in Batch : Analyzes(b)
<1>1. PICK b \in Batch : b = batches[i]
  BY DEF MarketTypes
<1>2. PICK fresh : fresh = Fresh(b)
  OBVIOUS
<1>3. PICK times : times = Closes(fresh) \ Range(analysis.retained)
  OBVIOUS
<1>4. /\ i =< fed + 1
      /\ \A t \in Closes(fresh) : Open(t, analysis.boundary)
      /\ fed' = IF i > fed THEN i ELSE fed
  BY <1>1, <1>2, Zenon DEF Analyze
<1>5. PICK found \in InOrder(times, fresh) :
        /\ found # <<>>
        /\ \E verdicts \in [DOMAIN found -> 0..2] :
             cycles' = cycles \o [j \in DOMAIN found |->
                         [at |-> found[j], frame |-> Frame(Staged(fresh), found[j]), actionable |-> verdicts[j]]]
        /\ analysis' = [histories |-> Staged(fresh), boundary |-> Max(Range(found)),
                        retained |-> Retain(CycleWindow, analysis.retained, found)]
  BY <1>1, <1>2, <1>3 DEF Analyze
<1>6. UNCHANGED <<batches, stream, current>>
  BY DEF Analyze, market
<1>7. fed \in Nat /\ i \in Nat
  BY DEF MarketTypes, AnalysisInv
<1>8. times # {}
  <2> SUFFICES ASSUME times = {} PROVE FALSE
    OBVIOUS
  <2>1. found \in [1..0 -> times]
    <3>1. Cardinality(times) = 0
      BY FS_EmptySet
    <3> QED BY <1>5, <3>1 DEF InOrder
  <2>2. found = <<>>
    BY <2>1
  <2> QED BY <1>5, <2>2
<1>9. ASSUME i =< fed PROVE FALSE
  <2>1. i \in 1..fed
    BY <1>7, <1>9 DEF MarketTypes
  <2>2. analysis.boundary # Never /\ Closes(b) \subseteq Int /\ \A t \in Closes(b) : t =< analysis.boundary
    BY <1>1, <2>1, FedOrder
  <2>3. analysis.boundary \in Int
    BY <2>2 DEF AnalysisInv, Analyses, Moments
  <2>4. PICK t \in Closes(fresh) : TRUE
    BY <1>3, <1>8
  <2>5. t \in Closes(b)
    <3>1. fresh = [k \in {l \in DOMAIN b : b[l] \notin Range(analysis.histories[l])} |-> b[k]]
      BY <1>2, Zenon DEF Fresh, Restrict
    <3>2. PICK k \in DOMAIN fresh : t = Close(k, fresh[k])
      BY <2>4 DEF Closes
    <3>3. k \in DOMAIN b /\ fresh[k] = b[k]
      BY <3>1, <3>2
    <3> QED BY <3>2, <3>3 DEF Closes
  <2>6. t > analysis.boundary
    BY <1>4, <2>2, <2>4 DEF Open
  <2> QED BY <2>2, <2>3, <2>5, <2>6
<1>10. i = fed + 1
  BY <1>4, <1>7, <1>9
<1>11. fresh = b /\ times = Closes(b)
  BY <1>1, <1>2, <1>3, <1>10, NextIsFresh
<1>12. found \in Seq(Int) /\ Range(found) = Closes(b)
  <2>1. found \in InOrder(Closes(b), b)
    BY <1>5, <1>11
  <2> QED BY <2>1, InOrderOfAll
<1>13. AddsCycles(b)
  <2> SUFFICES ASSUME NEW c \in DOMAIN cycles'
               PROVE  \/ c \in DOMAIN cycles /\ cycles'[c] = cycles[c]
                      \/ /\ cycles'[c].at \in Closes(b)
                         /\ cycles'[c].frame = Frame(Staged(b), cycles'[c].at)
    BY DEF AddsCycles
  <2>1. PICK verdicts \in [DOMAIN found -> 0..2] :
          cycles' = cycles \o [j \in DOMAIN found |->
                      [at |-> found[j], frame |-> Frame(Staged(b), found[j]), actionable |-> verdicts[j]]]
    BY <1>5, <1>11, Zenon
  <2>2. PICK more : more = [j \in DOMAIN found |->
                      [at |-> found[j], frame |-> Frame(Staged(b), found[j]), actionable |-> verdicts[j]]]
    OBVIOUS
  <2>3. PICK n, m \in Nat : n = Len(cycles) /\ DOMAIN cycles = 1..n /\ m = Len(found) /\ DOMAIN found = 1..m
    <3>1. PICK S : cycles \in Seq(S)
      BY DEF PublishedInv, CyclesHaveTimes
    <3>2. Len(cycles) \in Nat /\ DOMAIN cycles = 1..Len(cycles)
      BY <3>1
    <3>3. Len(found) \in Nat /\ DOMAIN found = 1..Len(found)
      BY <1>12
    <3> QED BY <3>2, <3>3
  <2>4. DOMAIN more = 1..m /\ Len(more) = m
    BY <2>2, <2>3
  <2>5. cycles' = [j \in 1..(n + m) |-> IF j =< n THEN cycles[j] ELSE more[j - n]]
    BY <2>1, <2>2, <2>3, <2>4
  <2>6. c \in 1..(n + m)
    BY <2>5
  <2>7. CASE c =< n
    BY <2>3, <2>5, <2>6, <2>7
  <2>8. CASE ~(c =< n)
    <3>1. c - n \in 1..m /\ cycles'[c] = more[c - n]
      BY <2>5, <2>6, <2>8
    <3>2. cycles'[c].at = found[c - n] /\ cycles'[c].frame = Frame(Staged(b), found[c - n])
      BY <2>2, <2>3, <3>1
    <3>3. found[c - n] \in Closes(b)
      BY <1>12, <2>3, <3>1 DEF Range
    <3> QED BY <3>2, <3>3
  <2> QED BY <2>7, <2>8
<1>14. /\ analysis' = [histories |-> Staged(b), boundary |-> Max(Closes(b)),
                       retained |-> Retain(CycleWindow, analysis.retained, found)]
       /\ fed' = fed + 1 /\ Closes(b) # {}
  <2>1. i > fed
    BY <1>7, <1>10
  <2> QED BY <1>4, <1>5, <1>8, <1>10, <1>11, <1>12, <2>1
<1>15. Analyzes(b)
  BY <1>1, <1>6, <1>10, <1>12, <1>13, <1>14, Zenon DEF Analyzes
<1> QED BY <1>15

LEMMA AnalysisAnalyzes ==
  ASSUME StreamInv, MarketTypes, OrderInv, AnalysisInv, NEW b \in Batch, Analyzes(b)
  PROVE  AnalysisInv'
<1>1. fed + 1 \in DOMAIN batches /\ b = batches[fed + 1] /\ fed' = fed + 1 /\ batches' = batches /\ stream' = stream
  BY DEF Analyzes
<1>2. PICK found \in Seq(Int) :
        /\ Range(found) = Closes(b)
        /\ analysis' = [histories |-> Staged(b), boundary |-> Max(Closes(b)),
                        retained |-> Retain(CycleWindow, analysis.retained, found)]
  BY DEF Analyzes
<1>3. Closes(b) \subseteq Int /\ Closes(b) # {} /\ AddsCycles(b)
  BY ClosesType DEF Analyzes
<1>4. fed \in Nat /\ DOMAIN batches = 1..Len(batches) /\ Len(batches) \in Nat
  BY DEF MarketTypes, AnalysisInv
<1>5. PICK last : last = Max(Closes(b))
  OBVIOUS
<1>6. last \in Closes(b) /\ \A t \in Closes(b) : t =< last
  <2>1. PICK t \in Closes(b) : TRUE
    BY <1>3
  <2>2. \A u \in Closes(b) : stream.latest # Never /\ u =< stream.latest
    BY <1>1 DEF OrderInv
  <2>3. stream.latest \in Int
    BY <2>1, <2>2 DEF StreamInv, StreamTypes, Streams
  <2> QED BY <1>3, <1>5, <2>2, <2>3, GreatestBelow
<1>7. \A k : Closed(k)' = Closed(k) /\ \A t : ClosedLater(k, t)' = ClosedLater(k, t)
  BY <1>1 DEF Closed, ClosedLater
<1>8. PICK staged : staged = Staged(b)
  OBVIOUS
<1>9. /\ DOMAIN staged = DOMAIN Timeframes
      /\ staged = [k \in DOMAIN Timeframes |-> staged[k]]
      /\ \A k \in DOMAIN Timeframes :
           staged[k] = Retain(HistoryLimit, analysis.histories[k], IF k \in DOMAIN b THEN <<b[k]>> ELSE <<>>)
  BY <1>8 DEF Staged
<1>10. ASSUME NEW k \in DOMAIN Timeframes
       PROVE  /\ Kept(k, Closed(k), staged[k], last)
              /\ \A t \in Closes(b) : Seen(k, Closed(k), ClosedBy(k, staged[k], t), t, ClosedLater(k, t))
              /\ staged[k] \in Seq(Candle)
  <2>1. PICK closed \in Seq(Candle) : closed = Closed(k)
    BY ClosedType DEF ClosedIn, Closed, MarketTypes
  <2>2. Kept(k, closed, analysis.histories[k], analysis.boundary)
    BY <2>1 DEF AnalysisInv
  <2>3. /\ Kept(k, closed, staged[k], last)
        /\ \A t \in Closes(b) : Seen(k, closed, ClosedBy(k, staged[k], t), t, ClosedLater(k, t))
    BY <1>1, <1>6, <1>9, <2>1, <2>2, StagedIsKept
  <2>4. PICK p, q \in 0..Len(closed) : Full(q, p) /\ staged[k] = Slice(closed, q, p)
    BY <2>3 DEF Kept
  <2>5. q =< p
    BY <2>4 DEF Full
  <2>6. Slice(closed, q, p) \in Seq(Candle)
    BY <2>5, SliceType
  <2> QED BY <2>1, <2>3, <2>4, <2>6
<1>11. analysis'.histories = staged /\ analysis'.boundary = last
       /\ analysis'.retained = Retain(CycleWindow, analysis.retained, found)
  BY <1>2, <1>5, <1>8
<1>12. PICK retained \in Seq(Int) :
         retained = analysis'.retained /\ Range(retained) \subseteq Range(analysis.retained) \union Closes(b)
  <2>1. analysis.retained \in Seq(Int) /\ CycleWindow \in Nat
    BY PipelineAssumption DEF AnalysisInv, Analyses
  <2> QED BY <1>2, <1>11, <2>1, RetainedFrom
<1>13. analysis' \in Analyses
  <2>1. staged \in [DOMAIN Timeframes -> Seq(Candle)]
    BY <1>9, <1>10
  <2>2. last \in Moments
    BY <1>3, <1>6 DEF Moments
  <2>3. analysis' = [histories |-> staged, boundary |-> last, retained |-> retained]
    BY <1>2, <1>5, <1>8, <1>11, <1>12
  <2> QED BY <1>12, <2>1, <2>2, <2>3 DEF Analyses
<1>14. fed' \in 0..Len(batches') /\ fed' # 0
  BY <1>1, <1>4
<1>15. \A n \in 1..fed : n \in 1..fed'
  BY <1>1, <1>4
<1>16. fed' \in 1..fed' /\ batches'[fed'] = b
  BY <1>1, <1>4
<1>17. \A t \in Range(analysis'.retained) : \E n \in 1..fed' : t \in Closes(batches'[n])
  <2> SUFFICES ASSUME NEW t \in Range(analysis'.retained) PROVE \E n \in 1..fed' : t \in Closes(batches'[n])
    OBVIOUS
  <2>1. CASE t \in Range(analysis.retained)
    <3>1. PICK n \in 1..fed : t \in Closes(batches[n])
      BY <2>1 DEF AnalysisInv
    <3> QED BY <1>1, <1>15, <3>1
  <2>2. CASE t \in Closes(b)
    BY <1>16, <2>2
  <2> QED BY <1>12, <2>1, <2>2
<1>18. \A k \in DOMAIN Timeframes : Kept(k, Closed(k)', analysis'.histories[k], analysis'.boundary)
  BY <1>7, <1>10, <1>11
<1>19. ASSUME NEW c \in DOMAIN cycles'
       PROVE  /\ \E n \in 1..fed' : cycles'[c].at \in Closes(batches'[n])
              /\ DOMAIN cycles'[c].frame = DOMAIN Timeframes
              /\ \A k \in DOMAIN Timeframes :
                   Seen(k, Closed(k), cycles'[c].frame[k], cycles'[c].at, ClosedLater(k, cycles'[c].at))
  <2>1. CASE c \in DOMAIN cycles /\ cycles'[c] = cycles[c]
    <3>1. PICK n \in 1..fed : cycles[c].at \in Closes(batches[n])
      BY <2>1 DEF AnalysisInv
    <3>2. /\ DOMAIN cycles[c].frame = DOMAIN Timeframes
          /\ \A k \in DOMAIN Timeframes :
               Seen(k, Closed(k), cycles[c].frame[k], cycles[c].at, ClosedLater(k, cycles[c].at))
      BY <2>1 DEF AnalysisInv
    <3> QED BY <1>1, <1>15, <2>1, <3>1, <3>2
  <2>2. CASE cycles'[c].at \in Closes(b) /\ cycles'[c].frame = Frame(Staged(b), cycles'[c].at)
    <3>1. PICK t \in Closes(b) : t = cycles'[c].at
      BY <2>2
    <3>2. cycles'[c].frame = [k \in DOMAIN Timeframes |-> ClosedBy(k, staged[k], t)]
      BY <1>8, <2>2, <3>1, Zenon DEF Frame
    <3>3. \A k \in DOMAIN Timeframes : Seen(k, Closed(k), cycles'[c].frame[k], t, ClosedLater(k, t))
      BY <1>10, <3>2
    <3> QED BY <1>1, <1>16, <3>1, <3>2, <3>3
  <2> QED BY <1>3, <2>1, <2>2 DEF AddsCycles
<1>20. IF fed' = 0 THEN analysis'.boundary = Never
       ELSE /\ analysis'.boundary \in Closes(batches'[fed'])
            /\ \A t \in Closes(batches'[fed']) : t =< analysis'.boundary
  BY <1>6, <1>11, <1>14, <1>16
<1> QED BY <1>7, <1>13, <1>14, <1>17, <1>18, <1>19, <1>20 DEF AnalysisInv

LEMMA AnalysisStays ==
  ASSUME StreamInv, MarketTypes, CandlesInv, PublishedInv, OrderInv, AnalysisInv, [Next]_vars
  PROVE  AnalysisInv'
<1>1. CASE \E i \in DOMAIN source : Ingest(source[i])
  <2>1. PICK e \in Range(source) : Ingest(e)
    BY <1>1 DEF Range
  <2> QED BY <2>1, AnalysisGoesOn
<1>2. CASE \E i \in DOMAIN batches : Analyze(i)
  <2>1. PICK b \in Batch : Analyzes(b)
    BY <1>2, AnalyzeGives
  <2> QED BY <2>1, AnalysisAnalyzes
<1>3. CASE UNCHANGED <<batches, analyzing>>
  <2>1. \A k : Closed(k)' = Closed(k) /\ \A t : ClosedLater(k, t)' = ClosedLater(k, t)
    BY <1>3 DEF Closed, ClosedLater
  <2> QED BY <1>3, <2>1 DEF AnalysisInv, analyzing
<1>4. ASSUME NEW t \in Times, BeginSourceEpoch(t) PROVE UNCHANGED <<batches, analyzing>>
  BY <1>4 DEF BeginSourceEpoch
<1>5. ASSUME NEW i \in DOMAIN cycles, NEW x \in Contexts, Decide(i, x) \/ DecideAgain(i, x)
      PROVE  UNCHANGED <<batches, analyzing>>
  BY <1>5 DEF Decide, DecideAgain, market
<1>6. ASSUME NEW d, NEW x, PrepareDuplicate(d) \/ Prepare(d, x) PROVE UNCHANGED <<batches, analyzing>>
  BY <1>6 DEF PrepareDuplicate, Prepare, Publish, market
<1>7. CASE UNCHANGED vars
  BY <1>3, <1>7 DEF vars, market
<1> QED BY <1>1, <1>2, <1>3, <1>4, <1>5, <1>6, <1>7 DEF Next

LEMMA SliceIsSuffix ==
  ASSUME NEW closed \in Seq(Candle), NEW p \in 0..Len(closed), NEW q \in 0..Len(closed), q =< p
  PROVE  IsSuffix(Slice(closed, q, p), Slice(closed, 0, p))
<1>1. PICK s, u \in Seq(Candle) :
        /\ s = Slice(closed, q, p) /\ u = Slice(closed, 0, p)
        /\ Len(s) = p - q /\ Len(u) = p
        /\ \A i \in 1..(p - q) : s[i] = closed[q + i]
        /\ \A i \in 1..p : u[i] = closed[i]
  <2>1. /\ Slice(closed, q, p) \in Seq(Candle) /\ Len(Slice(closed, q, p)) = p - q
        /\ \A i \in 1..(p - q) : Slice(closed, q, p)[i] = closed[q + i]
    BY SliceType
  <2>2. 0 \in 0..Len(closed) /\ 0 =< p
    OBVIOUS
  <2>3. /\ Slice(closed, 0, p) \in Seq(Candle) /\ Len(Slice(closed, 0, p)) = p - 0
        /\ \A i \in 1..(p - 0) : Slice(closed, 0, p)[i] = closed[0 + i]
    BY <2>2, SliceType
  <2>4. p - 0 = p /\ \A i \in 1..p : 0 + i = i
    OBVIOUS
  <2> QED BY <2>1, <2>3, <2>4
<1>2. PICK n \in Nat : n = p - q /\ n =< p
  OBVIOUS
<1>3. PICK r, v : /\ r = [i \in 1..n |-> s[(n - i) + 1]] /\ r = Reverse(s)
                  /\ v = [i \in 1..p |-> u[(p - i) + 1]] /\ v = Reverse(u)
  BY <1>1, <1>2 DEF Reverse
<1>4. r \in Seq(Candle) /\ v \in Seq(Candle) /\ Len(r) = n /\ Len(v) = p
  <2>1. \A i \in 1..n : s[(n - i) + 1] \in Candle
    BY <1>1, <1>2
  <2>2. \A i \in 1..p : u[(p - i) + 1] \in Candle
    BY <1>1
  <2> QED BY <1>3, <2>1, <2>2
<1>5. \A i \in 1..n : r[i] = v[i]
  <2> SUFFICES ASSUME NEW i \in 1..n PROVE s[(n - i) + 1] = u[(p - i) + 1]
    BY <1>2, <1>3
  <2>1. (n - i) + 1 \in 1..n /\ q + ((n - i) + 1) = (p - i) + 1 /\ (p - i) + 1 \in 1..p
    BY <1>2
  <2> QED BY <1>1, <1>2, <2>1
<1>6. SubSeq(r, 1, n) = SubSeq(v, 1, n)
  <2>1. SubSeq(r, 1, n) \in Seq(Candle) /\ Len(SubSeq(r, 1, n)) = n /\ \A i \in 1..n : SubSeq(r, 1, n)[i] = r[i]
    BY <1>4
  <2>2. SubSeq(v, 1, n) \in Seq(Candle) /\ Len(SubSeq(v, 1, n)) = n /\ \A i \in 1..n : SubSeq(v, 1, n)[i] = v[i]
    BY <1>2, <1>4
  <2> QED BY <1>5, <2>1, <2>2
<1>7. IsPrefix(r, v)
  BY <1>2, <1>4, <1>6 DEF IsPrefix
<1> QED BY <1>1, <1>3, <1>7 DEF IsSuffix

LEMMA LeastOfTwo == ASSUME NEW x \in Int, NEW y \in Int PROVE Min({x, y}) =< x /\ Min({x, y}) =< y
<1>1. \E m \in {x, y} : \A z \in {x, y} : m =< z
  OBVIOUS
<1> QED BY <1>1 DEF Min

\* A frame of what closed by t, for a candle's timeframe and the one later candle.
Whole(k, seen, t) ==
  LET final == ClosedBy(k, Closed(k), t)
      room == HistoryLimit - Cardinality(ClosedLater(k, t))
  IN  /\ IsSuffix(seen, final)
      /\ Len(seen) >= Min({Len(final), room})
      /\ \A i \in 2..Len(seen) : seen[i].gap \/ seen[i].from = CloseTime(Timeframes[k], seen[i - 1])

LEMMA SeenIsWhole ==
  ASSUME CandlesInv, MarketTypes, OrderInv, NEW k \in DOMAIN Timeframes, NEW n \in DOMAIN batches,
         NEW t \in Closes(batches[n]), NEW seen, Seen(k, Closed(k), seen, t, ClosedLater(k, t))
  PROVE  Whole(k, seen, t)
<1>1. PICK closed \in Seq(Candle) : closed = Closed(k)
  BY ClosedType DEF ClosedIn, Closed, MarketTypes
<1>2. PICK p, q \in 0..Len(closed) :
        /\ q =< p /\ seen = Slice(closed, q, p) /\ Counts(k, closed, p, t)
        /\ q # 0 => p - q >= HistoryLimit - Cardinality(ClosedLater(k, t))
  BY <1>1 DEF Seen
<1>3. PICK b \in Batch : b = batches[n] /\ t \in Closes(b) /\ t \in Int
  BY ClosesType DEF MarketTypes
<1>4. PICK final : final = ClosedBy(k, closed, t) /\ final = Slice(closed, 0, p)
  BY <1>2, <1>3, WholeClosedBy
<1>5. Len(final) = p /\ Len(seen) = p - q
      /\ \A i \in 1..(p - q) : seen[i] = closed[q + i] /\ q + i \in DOMAIN closed
  <2>1. 0 \in 0..Len(closed) /\ 0 =< p
    OBVIOUS
  <2>2. Len(Slice(closed, 0, p)) = p - 0
    BY <2>1, SliceType
  <2>3. /\ Len(Slice(closed, q, p)) = p - q
        /\ \A i \in 1..(p - q) : Slice(closed, q, p)[i] = closed[q + i] /\ q + i \in DOMAIN closed
    BY <1>2, SliceType
  <2> QED BY <1>2, <1>4, <2>2, <2>3
<1>6. PICK room \in Int : room = HistoryLimit - Cardinality(ClosedLater(k, t))
  <2>1. ClosedLater(k, t) = IF k \in DOMAIN b /\ Close(k, b[k]) > t THEN {b[k]} ELSE {}
    BY <1>3, LaterInBatch
  <2>2. Cardinality({b[k]}) = 1 /\ Cardinality({}) = 0
    BY FS_Singleton, FS_EmptySet
  <2>3. Cardinality(ClosedLater(k, t)) \in {0, 1}
    BY <2>1, <2>2
  <2>4. PICK c \in {0, 1} : c = Cardinality(ClosedLater(k, t))
    BY <2>3
  <2>5. PICK H \in Nat : H = HistoryLimit
    BY PipelineAssumption
  <2>6. H - c \in Int
    OBVIOUS
  <2> QED BY <2>4, <2>5, <2>6
<1>7. IsSuffix(seen, final)
  BY <1>2, <1>4, SliceIsSuffix
<1>8. Len(seen) >= Min({Len(final), room})
  <2>1. Min({p, room}) =< p /\ Min({p, room}) =< room
    <3>1. p \in Int
      OBVIOUS
    <3> QED BY <1>6, <3>1, LeastOfTwo, Zenon
  <2>2. Min({p, room}) \in Int
    <3>1. \E m \in {p, room} : \A z \in {p, room} : m =< z
      BY <1>6
    <3>2. Min({p, room}) \in {p, room}
      BY <3>1 DEF Min
    <3> QED BY <1>6, <3>2
  <2>3. q = 0 => p - q = p
    OBVIOUS
  <2>4. q # 0 => p - q >= room
    BY <1>2, <1>6
  <2>5. p - q >= Min({p, room})
    BY <1>6, <2>1, <2>2, <2>3, <2>4
  <2> QED BY <1>5, <2>5
<1>9. ASSUME NEW i \in 2..Len(seen)
      PROVE  seen[i].gap \/ seen[i].from = CloseTime(Timeframes[k], seen[i - 1])
  <2>1. i \in 1..(p - q) /\ i - 1 \in 1..(p - q) /\ q + (i - 1) = (q + i) - 1
    BY <1>5
  <2>2. seen[i] = closed[q + i] /\ seen[i - 1] = closed[(q + i) - 1] /\ q + i \in 2..Len(closed)
    BY <1>5, <2>1
  <2>3. Follows(Timeframes[k], closed[(q + i) - 1], closed[q + i])
    BY <1>1, <2>2, ClosedFollow
  <2> QED BY <2>2, <2>3 DEF Follows
<1> QED BY <1>1, <1>4, <1>6, <1>7, <1>8, <1>9, Zenon DEF Whole

\* An analysis sees the newest candles that were final at its boundary, however
\* often and however late the batches come, and what comes in order is not refused
\* (createFrame and the boundary check of realtime-analysis-engine/src/engine.ts).
THEOREM FramesHoldWhatClosed == Spec => []FramesAreWhole
<1>1. Init => CandlesInv /\ OrderInv /\ AnalysisInv
  BY CandlesFirst, OrderFirst, AnalysisFirst
<1>2. StreamInv /\ MarketTypes /\ PublishedInv /\ CandlesInv /\ OrderInv /\ AnalysisInv /\ [Next]_vars
        => CandlesInv' /\ OrderInv' /\ AnalysisInv'
  BY CandlesStay, OrderStays, AnalysisStays
<1>3. ASSUME MarketTypes, CandlesInv, OrderInv, AnalysisInv PROVE FramesAreWhole
  <2>1. ASSUME NEW n \in DOMAIN cycles, NEW k \in DOMAIN Timeframes
        PROVE  Whole(k, cycles[n].frame[k], cycles[n].at)
    <3>1. PICK m \in 1..fed : cycles[n].at \in Closes(batches[m])
      BY <1>3 DEF AnalysisInv
    <3>2. m \in DOMAIN batches
      BY <1>3, <3>1, FedOrder
    <3>3. Seen(k, Closed(k), cycles[n].frame[k], cycles[n].at, ClosedLater(k, cycles[n].at))
      BY <1>3 DEF AnalysisInv
    <3> QED BY <1>3, <3>1, <3>2, <3>3, SeenIsWhole
  <2>2. ASSUME fed < Len(batches)
        PROVE  \A t \in Closes(batches[fed + 1]) : Open(t, analysis.boundary)
    <3>1. fed + 1 \in DOMAIN batches /\ fed + 1 > fed
      BY <1>3, <2>2 DEF MarketTypes, AnalysisInv
    <3> QED BY <1>3, <3>1, FedOrder
  <2> QED BY <2>1, <2>2, Zenon DEF FramesAreWhole, Whole
<1> QED BY <1>1, <1>2, <1>3, StreamInvariant, PublishedInvariant, PTL DEF Spec
=============================================================================
