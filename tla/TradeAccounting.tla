--------------------------- MODULE TradeAccounting ---------------------------
(* What the projections make of an execution attempt: position-engine,          *)
(* trade-accounting-engine (FIFO), trade-valuation-engine, trade-performance,   *)
(* trade-cost-accounting, net-trade-performance and trade-r-multiple.  They are *)
(* pure and are computed from whatever attempt their caller holds, each at its  *)
(* own moment; the results are composed later.  sign is 1 for a long position   *)
(* and -1 for a short one; the value of a price unit is 1.                      *)
EXTENDS ExecutionLifecycle

CONSTANTS
  EntryPrices,   \* price of the n-th entry fill
  ExitPrices,    \* price of the n-th exit fill
  PreparedAsOf,  \* when the plan was prepared; costs before it are refused
  Signs,         \* the directions to check
  Marks,         \* prices the open position may be valued at
  Deliveries     \* sequences of cost events as they may be observed

CostEvents == [id : STRING, effect : {"DEBIT", "CREDIT"}, amount : Nat, at : Nat]

ASSUME AccountingAssumption ==
  /\ EntryPrices \in [1..Quantity -> Int] /\ ExitPrices \in [1..Quantity -> Int]
  /\ Signs \subseteq {1, -1}
  /\ Marks \subseteq [price : Int, at : Nat]
  /\ Deliveries \subseteq Seq(CostEvents)

Rejected == "REJECTED"

\* A fill's price goes with its id.
Price(f) == IF f.kind = "ENTRY_FILL" THEN EntryPrices[f.id] ELSE ExitPrices[f.id - Quantity]

Total(numbers) == FoldLeft(LAMBDA sum, n : sum + n, 0, numbers)
SumOf(fills) == Total([i \in DOMAIN fills |-> fills[i].qty])
Open(a) == a.filled - a.exited
ExecutionAsOf(a) == IF a.lastAt = 0 THEN PreparedAsOf ELSE a.lastAt

\* deriveExposureState; INCOHERENT is the projection's rejection.
ExposureState(a) ==
  CASE a.filled = 0 -> "NO_EXPOSURE"
    [] a.filled > 0 /\ Open(a) > 0 -> IF a.exited = 0 THEN "OPEN" ELSE "PARTIALLY_EXITED"
    [] a.filled > 0 /\ Open(a) = 0 /\ a.entry = "WORKING" -> "FLAT_ENTRY_ACTIVE"
    [] OTHER -> IF a.entry \in {"FILLED", "CANCELED"} /\ State(a) = "EXIT_FILLED"
                THEN "CLOSED" ELSE "INCOHERENT"

Exposed(a) ==
  /\ a.filled =< Quantity
  /\ a.exited =< a.filled
  /\ a.protected =< a.filled
  /\ State(a) = "EXIT_FILLED" => a.filled > 0 /\ Open(a) = 0 /\ a.entry \in {"FILLED", "CANCELED"}
  /\ ExposureState(a) # "INCOHERENT"

\* Everything two authorities compare of a position.
Exposure(a) ==
  [filled |-> a.filled, exited |-> a.exited, open |-> Open(a), entry |-> a.entry,
   state |-> State(a), exposure |-> ExposureState(a), asOf |-> ExecutionAsOf(a)]
-----------------------------------------------------------------------------
(* FIFO accounting.                                                            *)

InTimeOrder(fills) == \A i \in 1..(Len(fills) - 1) : fills[i].at =< fills[i + 1].at

\* An entry and an exit at the same time cannot be put in order.
Ambiguous(a) == \E i \in DOMAIN a.fills, j \in DOMAIN a.exits : a.fills[i].at = a.exits[j].at

DuplicateId(a) == \E i \in DOMAIN a.fills, j \in DOMAIN a.exits : a.fills[i].id = a.exits[j].id

Indexed(fills) == {[index |-> i, fill |-> fills[i]] : i \in DOMAIN fills}
Events(a) == Indexed(a.fills) \union Indexed(a.exits)
Earlier(x, y) == x.fill.at < y.fill.at \/ (x.fill.at = y.fill.at /\ x.index < y.index)

\* The events sorted: the n-th has n - 1 earlier ones.
Chronology(a) ==
  [n \in 1..Cardinality(Events(a)) |->
     CHOOSE e \in Events(a) : Cardinality({x \in Events(a) : Earlier(x, e)}) = n - 1]

Least(m, n) == IF m =< n THEN m ELSE n

\* Mutant: a lot is matched and stays as large as it was.
MatchWholeLot(book, i, exit, sign) ==
  LET lot == book.lots[i]
      matched == Least(lot.left, book.left)
  IN  IF matched = 0 THEN book
      ELSE [book EXCEPT !.left = @ - matched,
                        !.realized = @ + sign * (Price(exit) - lot.price) * matched]

\* One exit against the lots, oldest first; book.left is what is still to match.
MatchLot(book, i, exit, sign) ==
  LET lot == book.lots[i]
      matched == Least(lot.left, book.left)
  IN  IF matched = 0 THEN book
      ELSE [book EXCEPT !.left = @ - matched,
                        !.lots[i].left = @ - matched,
                        !.realized = @ + sign * (Price(exit) - lot.price) * matched]

Enter(book, e) == [book EXCEPT !.lots = Append(@, [price |-> Price(e), left |-> e.qty])]
Consume(book, e, sign) ==
  LET matched == FoldLeft(LAMBDA b, i : MatchLot(b, i, e, sign),
                          [book EXCEPT !.left = e.qty], [i \in DOMAIN book.lots |-> i])
  IN  [matched EXCEPT !.short = @ \/ matched.left # 0]

NewBook == [lots |-> <<>>, realized |-> 0, left |-> 0, short |-> FALSE]
Booked(book, event, sign) ==
  IF event.fill.kind = "ENTRY_FILL" THEN Enter(book, event.fill) ELSE Consume(book, event.fill, sign)
FifoBook(a, sign) == FoldLeft(LAMBDA book, event : Booked(book, event, sign), NewBook, Chronology(a))

Kept(open, lot) == IF lot.left > 0 THEN Append(open, lot) ELSE open
OpenLots(book) == FoldLeft(Kept, <<>>, book.lots)
Left(lots) == Total([i \in DOMAIN lots |-> lots[i].left])

\* projectRealizedTradeAccounting
Accounting(a, sign) ==
  LET book == FifoBook(a, sign)
  IN  IF \/ ~Exposed(a)
         \/ ~InTimeOrder(a.fills) \/ SumOf(a.fills) # a.filled
         \/ ~InTimeOrder(a.exits) \/ SumOf(a.exits) # a.exited
         \/ DuplicateId(a) \/ Ambiguous(a)
         \/ book.short \/ Left(OpenLots(book)) # Open(a)
      THEN [status |-> Rejected]
      ELSE [status |-> "PROJECTED", realized |-> book.realized, lots |-> OpenLots(book),
            exposure |-> Exposure(a), asOf |-> ExecutionAsOf(a)]
-----------------------------------------------------------------------------
(* Valuation, costs, and their composition.                                    *)

Unrealized(accounting, mark, sign) ==
  Total([i \in DOMAIN accounting.lots |->
           sign * (mark.price - accounting.lots[i].price) * accounting.lots[i].left])

\* projectUnrealizedTradeValuation and projectTradePerformanceFromValuation
Performance(a, mark, sign) ==
  LET accounting == Accounting(a, sign)
  IN  IF accounting.status = Rejected \/ mark.at < accounting.asOf THEN [status |-> Rejected]
      ELSE [status |-> "PROJECTED", accounting |-> accounting,
            gross |-> accounting.realized + Unrealized(accounting, mark, sign)]

\* normalizeCostEventDeliveries: one event per id; other facts under an id are a conflict.
Conflicting(deliveries) ==
  \E i, j \in DOMAIN deliveries : deliveries[i].id = deliveries[j].id /\ deliveries[i] # deliveries[j]
\* Mutant: a redelivered cost event counts again.
AsDelivered(deliveries) == deliveries

Admitted(unique, d) ==
  IF \E i \in DOMAIN unique : unique[i].id = d.id THEN unique ELSE Append(unique, d)
Normalized(deliveries) == FoldLeft(Admitted, <<>>, deliveries)

Effect(e) == IF e.effect = "DEBIT" THEN e.amount ELSE -e.amount
NetCost(events) == Total([i \in DOMAIN events |-> Effect(events[i])])

\* projectRealtimeTradeCostAccounting and projectTradeCostAccounting
CostAccounting(a, sign, deliveries) ==
  LET accounting == Accounting(a, sign)
      events == Normalized(deliveries)
  IN  IF \/ Conflicting(deliveries)
         \/ accounting.status = Rejected
         \/ \E i \in DOMAIN events : events[i].at < PreparedAsOf
      THEN [status |-> Rejected]
      ELSE [status |-> "PROJECTED", accounting |-> accounting, cost |-> NetCost(events)]

\* Mutant: the authorities are compared by time and profit only.
CoherentInTime(performance, costs) ==
  /\ performance.accounting.asOf = costs.accounting.asOf
  /\ performance.accounting.realized = costs.accounting.realized

\* authoritiesAreCoherent: the two were projected from the same execution.
Coherent(performance, costs) ==
  LET g == performance.accounting  c == costs.accounting
  IN  /\ g.asOf = c.asOf
      /\ g.realized = c.realized
      /\ g.exposure = c.exposure

\* projectNetTradePerformanceFromAuthorities; over the initial risk it is the R multiple.
NetPerformance(performance, costs) ==
  IF performance.status = Rejected \/ costs.status = Rejected \/ ~Coherent(performance, costs)
  THEN [status |-> Rejected]
  ELSE [status |-> "PROJECTED", net |-> performance.gross - costs.cost]
-----------------------------------------------------------------------------
(* Properties, of the attempt its owner works with: nobody projects one that is *)
(* still being restored.                                                        *)

\* The moments looked at: every attempt is saved at some time.
AtRest == replay = 0 /\ unsaved = <<>>

\* The price of the k-th unit of a fill history.
UnitPrice(fills, k) ==
  LET i == CHOOSE i \in DOMAIN fills : /\ SumOf(SubSeq(fills, 1, i - 1)) < k
                                       /\ k =< SumOf(SubSeq(fills, 1, i))
  IN  Price(fills[i])

\* Every attempt has a position, except one that is flat while the answer to a
\* cancellation is awaited. First in, first out, unit by unit: the k-th unit sold
\* is the k-th unit bought. The matching of lots comes to the same profit, never
\* runs out of lots, and leaves open exactly the units that were not sold.
FifoIsUnitByUnit ==
  AtRest => \A sign \in Signs :
    LET a == attempt
        accounting == Accounting(a, sign)
        Gain(k) == sign * (UnitPrice(a.exits, k) - UnitPrice(a.fills, k))
    IN  /\ Exposed(a) \/ (State(a) = "CANCEL_PENDING" /\ Open(a) = 0)
        /\ Exposed(a) /\ ~Ambiguous(a) =>
             /\ accounting.status = "PROJECTED"
             /\ accounting.realized = Total([k \in 1..a.exited |-> Gain(k)])
             /\ Unrealized(accounting, [price |-> 0, at |-> 0], -sign)
                  = Total([k \in 1..Open(a) |-> sign * UnitPrice(a.fills, a.exited + k)])

\* Money is neither made nor lost by the bookkeeping: what was received for the
\* exits, plus the open position at the mark, less what the entries cost and
\* less each distinct cost event once, however often and in whatever order the
\* cost events were delivered.
NetIsConserved ==
  AtRest => \A sign \in Signs, mark \in Marks, deliveries \in Deliveries :
    LET net == NetPerformance(Performance(attempt, mark, sign),
                              CostAccounting(attempt, sign, deliveries))
        Value(fills) == Total([i \in DOMAIN fills |-> fills[i].qty * Price(fills[i])])
        Costs == FoldSet(LAMBDA e, sum : sum + Effect(e), 0, Range(deliveries))
    IN  net.status = "PROJECTED" =>
          net.net = sign * (Value(attempt.exits) + Open(attempt) * mark.price
                              - Value(attempt.fills)) - Costs

\* Two authorities are composed only when nothing was traded between them: a
\* performance of now and costs of any earlier attempt of this history, or the
\* other way round, go together only if the fills are the same.
StaleAuthoritiesAreRefused ==
  AtRest => \A n \in 0..Len(Evidence) :
    LET past == Restore(SubSeq(Evidence, 1, n))
        sign == CHOOSE s \in Signs : TRUE
        now == Accounting(attempt, sign)
        before == Accounting(past, sign)
    IN  /\ now.status # Rejected /\ before.status # Rejected
        /\ Coherent([accounting |-> now], [accounting |-> before])
        => past.fills = attempt.fills /\ past.exits = attempt.exits
=============================================================================
