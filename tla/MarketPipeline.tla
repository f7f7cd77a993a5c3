---------------------------- MODULE MarketPipeline ----------------------------
(* From a trade feed to a prepared order: LiveTradeIngestionEngine with its    *)
(* multi-timeframe candle engine, RealtimeAnalysisEngine,                      *)
(* RealtimeDecisionEngine and RealtimeExecutionPreparationEngine.              *)
(*                                                                             *)
(* The feed is a log of trades that the source has emitted; it delivers any of *)
(* them at any time, again and again, or never.  Each engine keeps a bounded   *)
(* window of what it has done and a boundary it does not go back behind.  What *)
(* an engine published may be given to the next one late or again; the batches *)
(* of candle events reach the analysis in their order, or again.               *)
(*                                                                             *)
(* Refusals (a future trade, a duplicate, a conflict, a late boundary) change  *)
(* nothing and are steps that do not happen.  A trade that is refused because  *)
(* its time has not come is one that is delivered later.                       *)
EXTENDS Candles, FiniteSets, Functions

CONSTANTS
  Timeframes,   \* the alignments, in the order of the configuration
  Sources,      \* bound: the logs a source may emit; records [name, sequence, at]
  Decided,      \* bound: the logs whose analyses are decided on
  Times,        \* bound: the times a source epoch may begin at
  MaxEpochs,    \* bound of the source epochs
  MaxAccepted,  \* bound of the trades that are accepted
  Window,       \* deduplicationWindowSize
  HistoryLimit, \* finalized candles kept for each timeframe
  Required,     \* finalized candles that an analysis needs of each timeframe
  CycleWindow,  \* cycleDeduplicationWindowSize
  RecentWindow, \* recentDecisionWindowSize and recentPreparationWindowSize
  Contexts,     \* what callers give along with an analysis or a decision
  Never         \* no time, no sequence, no context

ASSUME PipelineAssumption ==
  /\ Window \in Nat \ {0} /\ HistoryLimit \in Nat \ {0} /\ Required \in 1..HistoryLimit
  /\ CycleWindow \in Nat \ {0} /\ RecentWindow \in Nat \ {0}
  /\ Times \subseteq Nat /\ MaxEpochs \in Nat \ {0} /\ Decided \subseteq Sources
  /\ Timeframes \in Seq([duration : Nat \ {0}, anchor : Int])
  /\ \A log \in Sources : \A i \in DOMAIN log : log[i].sequence \in Nat /\ log[i].at \in Nat
  /\ Never \notin Int
  /\ NoCandle \notin [from : Int, trades : Seq(UNION {Range(log) : log \in Sources}), gap : BOOLEAN]

VARIABLES
  source,      \* what the source emits
  semantics,   \* of its sequence numbers: "NONE", "OPAQUE" or "STRICT"
  stream,      \* the ingestion engine: [epoch, from, latest, sequence, retained]
  current,     \* the builders' current candles
  accepted,    \* the trades that were accepted, with their epoch
  batches,     \* the finalized candles of each accepted trade that had any
  analysis,    \* the analysis engine: [histories, boundary, retained]
  fed,         \* batches given to the analysis
  cycles,      \* the analysis cycles it published
  decider,     \* the decision engine: [retained, boundary]
  decisions,   \* what it published
  repeated,    \* decisions that it has answered a second time
  preparer,    \* the preparation engine: [retained, boundary]
  preparations \* what it published

market == <<source, semantics, stream, current, accepted, batches>>
analyzing == <<analysis, fed, cycles>>
deciding == <<decider, decisions, repeated>>
preparing == <<preparer, preparations>>
vars == <<market, analyzing, deciding, preparing>>

\* Mutant: what an engine remembers of late stands for its boundary.
OpenAlways(t, boundary) == TRUE
\* The boundaries an engine may still publish.
Open(t, boundary) == boundary # Never => t > boundary
\* What is left of a window of n with these after it: the newest n.
Retain(n, window, more) == LET s == window \o more
                           IN  IF Len(s) > n THEN SubSeq(s, Len(s) - n + 1, Len(s)) ELSE s

Init ==
  /\ source \in Sources /\ semantics \in {"NONE", "OPAQUE", "STRICT"}
  /\ stream = [epoch |-> 1, from |-> 0, latest |-> Never, sequence |-> Never, retained |-> <<>>]
  /\ current = [k \in DOMAIN Timeframes |-> NoCandle]
  /\ accepted = <<>> /\ batches = <<>>
  /\ analysis = [histories |-> [k \in DOMAIN Timeframes |-> <<>>], boundary |-> Never, retained |-> <<>>]
  /\ fed = 0 /\ cycles = <<>>
  /\ decider = [retained |-> <<>>, boundary |-> Never] /\ decisions = <<>> /\ repeated = {}
  /\ preparer = [retained |-> <<>>, boundary |-> Never] /\ preparations = <<>>
-----------------------------------------------------------------------------
(* Ingestion.                                                                  *)

\* The identity of a live event: an event says nothing of its epoch.
Identity(e) == IF semantics = "NONE" THEN e.name ELSE e.sequence

\* Mutant: the window alone protects from duplicates of the same moment.
AdvancesOpaquely(e) == TRUE
\* compareOrderedSequence
Advances(e) == semantics = "STRICT" /\ stream.sequence # Never => e.sequence > stream.sequence

InTime(e) == e.at >= stream.from /\ (stream.latest # Never => e.at >= stream.latest)

\* The finalized candles of one MultiTimeframeCandleEngine.process: one for each
\* timeframe whose candle e ends, in the order of the alignments.
FinalizedBy(e) ==
  Restrict(current, {k \in DOMAIN Timeframes : Finalizes(Timeframes[k], current[k], e)})

Ingest(e) ==
  /\ Len(accepted) < MaxAccepted
  /\ Identity(e) \notin Range(stream.retained) /\ InTime(e) /\ Advances(e)
  /\ current' = [k \in DOMAIN Timeframes |-> Accumulated(Timeframes[k], current[k], e)]
  /\ batches' = IF DOMAIN FinalizedBy(e) = {} THEN batches ELSE Append(batches, FinalizedBy(e))
  /\ stream' = [stream EXCEPT !.latest = e.at,
                  !.sequence = IF semantics = "NONE" THEN @ ELSE e.sequence,
                  !.retained = Retain(Window, @, <<Identity(e)>>)]
  /\ accepted' = Append(accepted, [trade |-> e, epoch |-> stream.epoch])
  /\ UNCHANGED <<source, semantics, analyzing, deciding, preparing>>

BeginSourceEpoch(t) ==
  /\ stream.epoch < MaxEpochs
  /\ stream.latest # Never => t >= stream.latest
  /\ stream' = [stream EXCEPT !.epoch = @ + 1, !.from = t, !.sequence = Never, !.retained = <<>>]
  /\ UNCHANGED <<source, semantics, current, accepted, batches, analyzing, deciding, preparing>>
-----------------------------------------------------------------------------
(* Analysis.                                                                   *)

Close(k, c) == CloseTime(Timeframes[k], c)
Closes(batch) == {Close(k, batch[k]) : k \in DOMAIN batch}

\* The candles of a batch that the histories do not have.
Fresh(batch) == Restrict(batch, {k \in DOMAIN batch : batch[k] \notin Range(analysis.histories[k])})

\* The histories with the new candles of a batch.
Staged(fresh) ==
  [k \in DOMAIN Timeframes |->
     Retain(HistoryLimit, analysis.histories[k], IF k \in DOMAIN fresh THEN <<fresh[k]>> ELSE <<>>)]

\* The candles that closed by t.
ClosedBy(k, candles, t) == Those(candles, {i \in DOMAIN candles : Close(k, candles[i]) =< t})

\* Mutant: a frame shows all that is staged.
FrameOfAll(staged, boundary) == staged
Frame(staged, boundary) == [k \in DOMAIN Timeframes |-> ClosedBy(k, staged[k], boundary)]

\* Boundaries of a batch in the order they are first met in it.
InOrder(times, batch) ==
  LET First(t) == Min({k \in DOMAIN batch : Close(k, batch[k]) = t})
  IN  {order \in [1..Cardinality(times) -> times] :
         \A i, j \in DOMAIN order : i < j => First(order[i]) < First(order[j])}

\* How many setups to act on the evaluators find in a frame, 2 for several: none
\* when candles are missing.
Verdicts(frame) ==
  IF source \notin Decided \/ \E k \in DOMAIN frame : Len(frame[k]) < Required
  THEN {0} ELSE 0..2

Analyze(i) ==
  LET fresh == Fresh(batches[i])
      staged == Staged(fresh)
      Cycle(t, actionable) == [at |-> t, frame |-> Frame(staged, t), actionable |-> actionable]
  IN  /\ i =< fed + 1
      /\ \A t \in Closes(fresh) : Open(t, analysis.boundary)
      /\ \E found \in InOrder(Closes(fresh) \ Range(analysis.retained), fresh) :
           /\ found # <<>>
           /\ \E verdicts \in [DOMAIN found -> 0..2] :
                /\ \A j \in DOMAIN found : verdicts[j] \in Verdicts(Frame(staged, found[j]))
                /\ cycles' = cycles \o [j \in DOMAIN found |-> Cycle(found[j], verdicts[j])]
           /\ analysis' = [histories |-> staged, boundary |-> Max(Range(found)),
                           retained |-> Retain(CycleWindow, analysis.retained, found)]
      /\ fed' = IF i > fed THEN i ELSE fed
      /\ UNCHANGED <<market, deciding, preparing>>
-----------------------------------------------------------------------------
(* Decision and preparation.  A close boundary names its cycle, its decision   *)
(* and its preparation.                                                        *)

Remembers(engine, t) == \E i \in DOMAIN engine.retained : engine.retained[i].at = t
Published(engine, t, print) ==
  [retained |-> Retain(RecentWindow, engine.retained, <<[at |-> t, print |-> print]>>), boundary |-> t]

\* The fingerprint: only a cycle of one actionable setup needs a context.
ContextOf(c, x) == IF c.actionable = 1 THEN x ELSE Never

\* The risk, sizing and intent evaluators have the last word on one setup; several
\* are rejected.
Decide(i, x) ==
  LET c == cycles[i]
  IN  /\ ~Remembers(decider, c.at) /\ Open(c.at, decider.boundary)
      /\ \E status \in {"INTENT", "REJECTED", "NO_DECISION"} :
           /\ status = "NO_DECISION" <=> c.actionable = 0
           /\ status = "INTENT" => c.actionable = 1
           /\ decisions' = Append(decisions, [at |-> c.at, status |-> status])
      /\ decider' = Published(decider, c.at, ContextOf(c, x))
      /\ UNCHANGED <<market, analyzing, repeated, preparing>>

\* The same cycle in the same context: DUPLICATE_DECISION.
DecideAgain(i, x) ==
  /\ [at |-> cycles[i].at, print |-> ContextOf(cycles[i], x)] \in Range(decider.retained)
  /\ repeated' = repeated \union {cycles[i].at}
  /\ UNCHANGED <<market, analyzing, decider, decisions, preparing>>

Publish(d, print, status) ==
  /\ ~Remembers(preparer, d.at) /\ Open(d.at, preparer.boundary)
  /\ preparations' = Append(preparations, [at |-> d.at, status |-> status])
  /\ preparer' = Published(preparer, d.at, print)
  /\ UNCHANGED <<market, analyzing, deciding>>

Prepare(d, x) ==
  \/ /\ d.status = "INTENT"
     /\ \E status \in {"EXECUTION_PREPARED", "PREPARATION_REJECTED"} : Publish(d, x, status)
  \/ d.status # "INTENT" /\ Publish(d, d.status, "NO_PREPARATION")

\* A DUPLICATE_DECISION is prepared: nothing, if the decision is remembered.
PrepareDuplicate(d) == d.at \in repeated /\ Publish(d, "DUPLICATE", "DUPLICATE_DECISION_INPUT")
-----------------------------------------------------------------------------
Next ==
  \/ \E i \in DOMAIN source : Ingest(source[i])
  \/ \E t \in Times : BeginSourceEpoch(t)
  \/ \E i \in DOMAIN batches : Analyze(i)
  \/ source \in Decided /\ \E i \in DOMAIN cycles, x \in Contexts : Decide(i, x) \/ DecideAgain(i, x)
  \/ \E j \in DOMAIN decisions :
       PrepareDuplicate(decisions[j]) \/ \E x \in Contexts : Prepare(decisions[j], x)

Spec == Init /\ [][Next]_vars
-----------------------------------------------------------------------------
(* Properties.                                                                 *)

\* The finalized candles of a timeframe, oldest first.
Closed(k) ==
  FlattenSeq([n \in DOMAIN batches |-> IF k \in DOMAIN batches[n] THEN <<batches[n][k]>> ELSE <<>>])
Trades == [i \in DOMAIN accepted |-> accepted[i].trade]

\* In every timeframe the candles, the open one included, are the accepted
\* trades: each in its bucket, once, in order, and a missing bucket is told.
CandlesAreTheTrades ==
  \A k \in DOMAIN Timeframes :
    LET tf == Timeframes[k]
        candles == IF current[k] = NoCandle THEN <<>> ELSE Append(Closed(k), current[k])
    IN  /\ FlattenSeq([i \in DOMAIN candles |-> candles[i].trades]) = Trades
        /\ \A i \in DOMAIN candles : \A j \in DOMAIN candles[i].trades :
             candles[i].trades[j].at \in candles[i].from..(CloseTime(tf, candles[i]) - 1)
        /\ \A i \in 2..Len(candles) :
             /\ candles[i].from >= CloseTime(tf, candles[i - 1])
             /\ candles[i].gap <=> candles[i].from # CloseTime(tf, candles[i - 1])

\* A trade is never counted twice, however often it is delivered: but for the
\* same millisecond, when the source has begun anew in between, or does not
\* number its trades in order and the window of recent ones has passed.
CountedOnce ==
  \A i, j \in DOMAIN accepted : i < j /\ accepted[i].trade = accepted[j].trade =>
    /\ \A n \in i..j : accepted[n].trade.at = accepted[i].trade.at
    /\ \/ accepted[i].epoch # accepted[j].epoch
       \/ semantics # "STRICT" /\ j - i > Window

\* A finalized candle is restored to what it was, its gap flag included, from the
\* trades accepted before it and within it and any that ended it.
RestorationAgrees ==
  \A k \in DOMAIN Timeframes :
    LET closed == Closed(k)
        Named(trades) == [i \in DOMAIN trades |-> trades[i].name]
    IN  \A i \in 2..Len(closed) : \A w \in DOMAIN Trades :
          LET c == closed[i]  before == Last(closed[i - 1].trades)  witness == Trades[w]
              restored == Restored(Timeframes[k], c.from, before, c.trades, witness)
              names == Named(<<before>> \o c.trades \o <<witness>>)
          IN  /\ restored \in {c, NoCandle}
              /\ witness.at >= CloseTime(Timeframes[k], c) /\ IsInjective(names) => restored = c

\* The candle of this timeframe that closed after t in the batch that closed one at t.
ClosedLater(k, t) ==
  {batch[k] : batch \in {b \in Range(batches) : t \in Closes(b) /\ k \in DOMAIN b /\ Close(k, b[k]) > t}}

\* An analysis sees, in each timeframe, the newest candles that were final at its
\* boundary: none of a later one, none left out, and every hole is told.  A later
\* candle of the same batch, which it does not see, may take a place from it.
\* And candles that come in order are never too late for their boundary.
FramesAreWhole ==
  /\ \A n \in DOMAIN cycles : \A k \in DOMAIN Timeframes :
       LET seen == cycles[n].frame[k]  tf == Timeframes[k]
           final == ClosedBy(k, Closed(k), cycles[n].at)
           room == HistoryLimit - Cardinality(ClosedLater(k, cycles[n].at))
       IN  /\ IsSuffix(seen, final)
           /\ Len(seen) >= Min({Len(final), room})
           /\ \A i \in 2..Len(seen) : seen[i].gap \/ seen[i].from = CloseTime(tf, seen[i - 1])
  /\ fed < Len(batches) =>
       \A t \in Closes(batches[fed + 1]) : Open(t, analysis.boundary)

\* One decision for a boundary and one preparation of it, and what is prepared is
\* the intent decided there, whatever was evicted and whatever comes again.
PreparedOnce ==
  /\ \A i, j \in DOMAIN decisions : i < j => decisions[i].at < decisions[j].at
  /\ \A i, j \in DOMAIN preparations : i < j => preparations[i].at < preparations[j].at
  /\ \A i \in DOMAIN preparations :
       preparations[i].status \in {"EXECUTION_PREPARED", "PREPARATION_REJECTED"} =>
         \E j \in DOMAIN decisions : decisions[j] = [at |-> preparations[i].at, status |-> "INTENT"]
=============================================================================
