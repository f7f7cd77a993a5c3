---------------------------- MODULE SessionProofs ----------------------------
(* What holds of a live-trading session for every set of plans, every quantity *)
(* and every bound, whether its caller is disciplined or not.                  *)
(*                                                                             *)
(* BookInv says of the session, of every result the caller holds and of every  *)
(* awaited command that the attempt it carries counts units which the broker   *)
(* reported, each once: it holds whatever is dispatched how often and in what  *)
(* order.  FlightInv adds, for a disciplined caller, that there is one command *)
(* or one result at a time and that it brings the session's attempt on.        *)
(* ExactInv adds, while no command was lost, that the broker covers what the   *)
(* latest attempt has protected or what its one pending request asks for.      *)
EXTENDS TradingSession, FiniteSetTheorems, TLAPS
-----------------------------------------------------------------------------
(* What the reports, the attempts, the results and the commands may say.       *)

\* The units that a report tells of: the broker numbers what it fills, and what
\* it exits, from 1.
Through(f) == IF f.kind = "ENTRY_FILL" THEN f.id ELSE f.id - Quantity
Span(f) == (Through(f) - f.qty + 1)..Through(f)
Units(fills) == UNION {Span(fills[i]) : i \in DOMAIN fills}

\* Reports are of units that the broker has, and no unit is in two of them.
ReportsInv ==
  /\ reports \subseteq Entries \union Exits
  /\ \A f \in reports :
       /\ Through(f) >= f.qty
       /\ Through(f) =< IF f.kind = "ENTRY_FILL" THEN broker[f.order].filled ELSE broker[f.order].exited
  /\ \A f, g \in reports : f.kind = g.kind /\ f.order = g.order /\ f.id # g.id => Span(f) \intersect Span(g) = {}

\* An attempt is backed by the broker: it counts units that were reported, and what
\* it has as protected is covered.
Backed(a) ==
  /\ a \in Attempts
  /\ \A i \in DOMAIN a.fills : a.fills[i] \in reports /\ a.fills[i].order = a.plan
  /\ \A i \in DOMAIN a.exits : a.exits[i] \in reports /\ a.exits[i].order = a.plan
  /\ a.filled = Cardinality(Units(a.fills)) /\ a.exited = Cardinality(Units(a.exits))
  /\ a.order \in {NoOrder, a.plan} /\ (a.entry = "WORKING" => a.order = a.plan)
  /\ a.protected =< broker[a.plan].covered
  /\ a.protected =< a.filled /\ a.protecting =< a.filled
  /\ a.protecting # 0 => a.protected =< a.protecting

\* An attempt of the trade that the session follows.
Ours(a) == session.attempt # None /\ a.plan = session.attempt.plan /\ Backed(a)
OurPlan(p) == session.attempt # None /\ p = session.attempt.plan

\* A confirmation that was not there before: the broker covers what was asked for.
Covered(r) ==
  /\ r.at \in Nat \union {None}
  /\ r.status = "CONFIRMED" /\ r.at # None => r.attempt.protecting =< broker[r.attempt.plan].covered

ResultKinds == {"INGESTED", "ANALYZED", "DECIDED", "PREPARED", "SUBMISSION_RESULT", "INITIALIZATION_RESULT",
                "FILL_RESULT", "PROTECTION_RESULT", "LIFECYCLE_RESULT", "EXIT_RESULT", "BASIS_RESULT",
                "VALUATION_RESULT", "COST_RESULT", "NET_RESULT", "MULTIPLE_RESULT"}
ResultOK(r) ==
  /\ r.kind \in ResultKinds
  /\ r.kind = "PREPARED" => r.plan \in Plans
  /\ r.kind = "SUBMISSION_RESULT" =>
       r.attempt.plan \in Plans /\ r.attempt = NewOrder(r.attempt.plan) /\ r.at \in Nat \union {None}
  /\ r.kind \in {"INITIALIZATION_RESULT", "FILL_RESULT", "PROTECTION_RESULT", "LIFECYCLE_RESULT", "EXIT_RESULT"} =>
       Ours(r.attempt)
  /\ r.kind = "PROTECTION_RESULT" => Covered(r)
  /\ r.kind = "BASIS_RESULT" => OurPlan(r.plan)
  /\ r.kind \in {"VALUATION_RESULT", "COST_RESULT"} => OurPlan(r.position.plan)
  /\ r.kind \in {"NET_RESULT", "MULTIPLE_RESULT"} => OurPlan(r.gross.plan)
  /\ r.kind = "MULTIPLE_RESULT" => r.basis = r.gross.plan

CommandOK(c) ==
  /\ c.op = "SUBMIT" => c.plan \in Plans
  /\ c.op = "INITIALIZE" => ResultOK(c.submission) /\ c.submission.kind = "SUBMISSION_RESULT"
                            /\ OurPlan(c.submission.attempt.plan)
  /\ c.op \in {"FILL", "EXIT", "CREATE_BASIS", "VALUE", "COST"} => Ours(c.attempt)
  /\ c.op = "FILL" => c.fill \in reports /\ c.fill.kind = "ENTRY_FILL"
  /\ c.op = "EXIT" => c.fill \in reports /\ c.fill.kind = "EXIT_FILL"
  /\ c.op = "PROTECT" => Ours(c.fill.attempt)
  /\ c.op = "ACKNOWLEDGE" => Ours(c.protection.attempt) /\ c.protection.status = "CONFIRMED" /\ Covered(c.protection)
  /\ c.op = "GROSS" => OurPlan(c.position.plan)
  /\ c.op = "NET" => OurPlan(c.gross.plan)
  /\ c.op = "MULTIPLE" => OurPlan(c.net.gross.plan)

\* Confirmed protections, and the exits that come of them, are of our trade.
OneTrade ==
  /\ \A p \in Plans : (\E k \in 1..Quantity : record[p][k] # "NONE") => OurPlan(p)
  /\ \A f \in reports : f.kind = "EXIT_FILL" => OurPlan(f.order)

Shapes ==
  /\ mode \in {"DRY_RUN", "SANDBOX"} /\ disciplined \in BOOLEAN /\ lost \in BOOLEAN
  /\ broker \in [Plans -> [working : BOOLEAN, filled : 0..Quantity, covered : Nat, exited : 0..Quantity]]
  /\ record \in [Plans -> [0..Quantity -> {"NONE", "SUBMITTED", "CONFIRMED", "REJECTED"}]]
  /\ session = [attempt |-> session.attempt, basis |-> session.basis, multiple |-> session.multiple]
  /\ caller = [fill |-> caller.fill, protection |-> caller.protection, gross |-> caller.gross]

SessionInv ==
  /\ session.attempt # None => Backed(session.attempt)
  /\ session.basis # None => OurPlan(session.basis)
  /\ session.multiple # None =>
       /\ OurPlan(session.multiple.gross.plan)
       /\ session.basis # None /\ session.multiple.basis = session.basis

CallerInv ==
  /\ caller.fill # None => Ours(caller.fill)
  /\ caller.protection # None => Ours(caller.protection)
  /\ caller.gross # None => OurPlan(caller.gross.plan)

BookInv ==
  /\ Shapes /\ ReportsInv /\ OneTrade /\ SessionInv /\ CallerInv
  /\ \A r \in results : ResultOK(r)
  /\ \A c \in running : CommandOK(c)
-----------------------------------------------------------------------------
(* Units, and the attempts that transitions lead to.                           *)

LEMMA Constants ==
  /\ Quantity \in Nat \ {0} /\ NoOrder \notin Plans
  /\ None \notin Plans /\ None \notin Attempts /\ None \notin Nat /\ IsFiniteSet(Plans)
BY QuantityAssumption, SessionAssumption

LEMMA ReportShape ==
  ASSUME NEW f \in Entries \union Exits
  PROVE  /\ f.id \in Nat /\ f.qty \in Nat \ {0} /\ f.order \in Plans /\ f.at \in Nat /\ Through(f) \in Int
         /\ f.kind \in {"ENTRY_FILL", "EXIT_FILL"}
         /\ f.kind = "ENTRY_FILL" => f \in Entries
         /\ f.kind = "EXIT_FILL" => f \in Exits
BY Constants DEF Entries, Exits, Through

LEMMA SpanSize ==
  ASSUME NEW f \in Entries \union Exits
  PROVE  IsFiniteSet(Span(f)) /\ Cardinality(Span(f)) = f.qty
<1>1. f.qty \in Nat \ {0} /\ Through(f) \in Int
  BY ReportShape
<1>2. PICK a \in Int : a = Through(f) - f.qty + 1
  BY <1>1
<1>3. PICK b \in Int : b = Through(f)
  BY <1>1
<1>4. IsFiniteSet(a..b) /\ Cardinality(a..b) = IF a > b THEN 0 ELSE b - a + 1
  BY FS_Interval
<1>5. ~(a > b) /\ b - a + 1 = f.qty
  BY <1>1, <1>2, <1>3
<1> QED BY <1>2, <1>3, <1>4, <1>5 DEF Span

LEMMA UnitsEmpty == Units(<<>>) = {} /\ Cardinality(Units(<<>>)) = 0
BY FS_EmptySet DEF Units

LEMMA UnitsMore ==
  ASSUME NEW S, NEW fills \in Seq(S), NEW f \in S
  PROVE  Units(Append(fills, f)) = Units(fills) \union Span(f)
<1>1. PICK n \in Nat : n = Len(fills)
  OBVIOUS
<1>2. PICK more : more = Append(fills, f)
  OBVIOUS
<1>3. DOMAIN fills = 1..n /\ DOMAIN more = 1..(n + 1) /\ (\A i \in 1..n : more[i] = fills[i]) /\ more[n + 1] = f
  BY <1>1, <1>2
<1>4. ASSUME NEW u PROVE u \in Units(more) <=> u \in Units(fills) \union Span(f)
  <2>1. u \in Units(more) <=> \E i \in 1..(n + 1) : u \in Span(more[i])
    BY <1>3, Zenon DEF Units
  <2>2. u \in Units(fills) <=> \E i \in 1..n : u \in Span(fills[i])
    BY <1>3, Zenon DEF Units
  <2>3. (\E i \in 1..(n + 1) : u \in Span(more[i])) <=> (\E i \in 1..n : u \in Span(fills[i])) \/ u \in Span(f)
    BY <1>3
  <2> QED BY <2>1, <2>2, <2>3
<1> QED BY <1>2, <1>4

\* Units of distinct reports of one kind and order add up.
LEMMA UnitsCounted ==
  ASSUME ReportsInv, NEW fills \in Seq(reports), NEW f \in reports, IsFiniteSet(Units(fills)),
         \A i \in DOMAIN fills : fills[i].kind = f.kind /\ fills[i].order = f.order /\ fills[i].id # f.id
  PROVE  Cardinality(Units(Append(fills, f))) = Cardinality(Units(fills)) + f.qty
<1>1. Units(Append(fills, f)) = Units(fills) \union Span(f)
  BY UnitsMore
<1>2. \A i \in DOMAIN fills : Span(fills[i]) \intersect Span(f) = {}
  <2>1. \A i \in DOMAIN fills : fills[i] \in reports
    OBVIOUS
  <2> QED BY <2>1 DEF ReportsInv
<1>3. Units(fills) \intersect Span(f) = {}
  BY <1>2 DEF Units
<1>4. IsFiniteSet(Span(f)) /\ Cardinality(Span(f)) = f.qty
  BY SpanSize DEF ReportsInv
<1>5. Cardinality(Units(fills) \union Span(f)) =
        Cardinality(Units(fills)) + Cardinality(Span(f)) - Cardinality(Units(fills) \intersect Span(f))
  BY <1>4, FS_Union
<1>6. Cardinality({}) = 0
  BY FS_EmptySet
<1>7. Cardinality(Units(fills)) \in Nat /\ f.qty \in Nat
  BY FS_CardinalityType, ReportShape DEF ReportsInv
<1>8. Cardinality(Units(fills) \intersect Span(f)) = 0
  BY <1>3, <1>6, Zenon
<1>9. Cardinality(Units(fills)) + f.qty - 0 = Cardinality(Units(fills)) + f.qty
  BY <1>7
<1> QED BY <1>1, <1>4, <1>5, <1>8, <1>9, Zenon

LEMMA AttemptShape ==
  ASSUME NEW a \in Attempts
  PROVE  /\ a.plan \in Plans /\ a.filled \in Nat /\ a.protected \in Nat /\ a.exited \in Nat /\ a.protecting \in Nat
         /\ a.fills \in Seq(Entries) /\ a.exits \in Seq(Exits) /\ a.lastAt \in Nat
         /\ a.coverage \in Seq([target : Nat, at : Nat])
         /\ a # None
BY Constants DEF Attempts

\* What is counted is reported, and the broker has it.
LEMMA UnitsWithin ==
  ASSUME Shapes, ReportsInv, NEW p \in Plans, NEW fills, NEW kind \in {"ENTRY_FILL", "EXIT_FILL"},
         \A i \in DOMAIN fills : fills[i] \in reports /\ fills[i].order = p /\ fills[i].kind = kind
  PROVE  /\ IsFiniteSet(Units(fills))
         /\ Cardinality(Units(fills)) =< IF kind = "ENTRY_FILL" THEN broker[p].filled ELSE broker[p].exited
<1>1. PICK n : n = IF kind = "ENTRY_FILL" THEN broker[p].filled ELSE broker[p].exited
  OBVIOUS
<1>2. n \in Nat
  BY <1>1, Constants DEF Shapes
<1>3. ASSUME NEW i \in DOMAIN fills PROVE Span(fills[i]) \subseteq 1..n
  <2>1. PICK f \in reports : f = fills[i]
    OBVIOUS
  <2>2. Through(f) >= f.qty /\ Through(f) =< n /\ Through(f) \in Int /\ f.qty \in Nat
    BY <1>1, <2>1, ReportShape DEF ReportsInv
  <2>3. Span(f) \subseteq 1..n
    BY <1>2, <2>2 DEF Span
  <2> QED BY <2>1, <2>3
<1>4. Units(fills) \in SUBSET (1..n)
  BY <1>3 DEF Units
<1>5. IsFiniteSet(1..n) /\ Cardinality(1..n) = n
  <2>1. IsFiniteSet(1..n) /\ Cardinality(1..n) = IF 1 > n THEN 0 ELSE n - 1 + 1
    BY <1>2, FS_Interval
  <2> QED BY <1>2, <2>1
<1>6. IsFiniteSet(Units(fills)) /\ Cardinality(Units(fills)) =< n
  BY <1>4, <1>5, FS_Subset
<1> QED BY <1>1, <1>6

LEMMA BackedWithin ==
  ASSUME Shapes, ReportsInv, NEW a, Backed(a)
  PROVE  /\ IsFiniteSet(Units(a.fills)) /\ a.filled =< broker[a.plan].filled
         /\ IsFiniteSet(Units(a.exits)) /\ a.exited =< broker[a.plan].exited
         /\ a.filled =< Quantity /\ a.protected =< broker[a.plan].covered
         /\ a.fills \in Seq(reports) /\ a.exits \in Seq(reports)
<1>1. /\ a \in Attempts /\ a.plan \in Plans /\ a.fills \in Seq(Entries) /\ a.exits \in Seq(Exits)
      /\ a.filled \in Nat
  BY AttemptShape DEF Backed
<1>2. \A i \in DOMAIN a.fills : a.fills[i] \in reports /\ a.fills[i].order = a.plan /\ a.fills[i].kind = "ENTRY_FILL"
  <2>1. \A i \in DOMAIN a.fills : a.fills[i] \in Entries
    BY <1>1
  <2> QED BY <2>1 DEF Backed, Entries
<1>3. \A i \in DOMAIN a.exits : a.exits[i] \in reports /\ a.exits[i].order = a.plan /\ a.exits[i].kind = "EXIT_FILL"
  <2>1. \A i \in DOMAIN a.exits : a.exits[i] \in Exits
    BY <1>1
  <2> QED BY <2>1 DEF Backed, Exits
<1>4. /\ IsFiniteSet(Units(a.fills)) /\ Cardinality(Units(a.fills)) =< broker[a.plan].filled
  BY <1>1, <1>2, UnitsWithin
<1>5. /\ IsFiniteSet(Units(a.exits)) /\ Cardinality(Units(a.exits)) =< broker[a.plan].exited
  BY <1>1, <1>3, UnitsWithin
<1>6. broker[a.plan].filled \in 0..Quantity
  BY <1>1 DEF Shapes
<1>7. a.filled =< broker[a.plan].filled /\ a.exited =< broker[a.plan].exited /\ a.protected =< broker[a.plan].covered
  BY <1>4, <1>5 DEF Backed
<1>8. a.filled =< Quantity
  BY <1>1, <1>6, <1>7, Constants
<1>9. a.fills \in Seq(reports) /\ a.exits \in Seq(reports)
  BY <1>1, <1>2, <1>3
<1> QED BY <1>4, <1>5, <1>7, <1>8, <1>9
-----------------------------------------------------------------------------
(* The attempts that the engines make of an attempt are backed again.          *)

LEMMA NewOrderRecord ==
  ASSUME NEW p
  PROVE  NewOrder(p) =
           [plan |-> p, entry |-> "SUBMISSION_PENDING", capabilities |-> Adapter, order |-> NoOrder,
            filled |-> 0, protected |-> 0, exited |-> 0, fills |-> <<>>, exits |-> <<>>, coverage |-> <<>>,
            protecting |-> 0, canceling |-> FALSE, failed |-> FALSE, cancelRefused |-> FALSE, lastAt |-> 0]
<1> DEFINE fields == {"plan", "entry", "capabilities", "order", "filled", "protected", "exited", "fills", "exits",
                      "coverage", "protecting", "canceling", "failed", "cancelRefused", "lastAt"}
           old == [plan |-> p, entry |-> "NOT_SUBMITTED", capabilities |-> NoCapabilities, order |-> NoOrder,
                   filled |-> 0, protected |-> 0, exited |-> 0, fills |-> <<>>, exits |-> <<>>, coverage |-> <<>>,
                   protecting |-> 0, canceling |-> FALSE, failed |-> FALSE, cancelRefused |-> FALSE, lastAt |-> 0]
<1>1. DOMAIN NewAttempt \union {"plan"} = fields
  BY DEF NewAttempt
<1>2. DOMAIN old = fields
  OBVIOUS
<1>3. ASSUME NEW field \in fields
      PROVE  old[field] = IF field = "plan" THEN p ELSE NewAttempt[field]
  <2>1. old["plan"] = p
    OBVIOUS
  <2>2. /\ old["entry"] = NewAttempt["entry"] /\ old["capabilities"] = NewAttempt["capabilities"]
        /\ old["order"] = NewAttempt["order"] /\ old["filled"] = NewAttempt["filled"]
        /\ old["protected"] = NewAttempt["protected"] /\ old["exited"] = NewAttempt["exited"]
        /\ old["fills"] = NewAttempt["fills"] /\ old["exits"] = NewAttempt["exits"]
        /\ old["coverage"] = NewAttempt["coverage"] /\ old["protecting"] = NewAttempt["protecting"]
        /\ old["canceling"] = NewAttempt["canceling"] /\ old["failed"] = NewAttempt["failed"]
        /\ old["cancelRefused"] = NewAttempt["cancelRefused"] /\ old["lastAt"] = NewAttempt["lastAt"]
    BY DEF NewAttempt
  <2> HIDE DEF old
  <2> QED BY <2>1, <2>2, Zenon
<1>4. old = [field \in fields |-> old[field]]
  BY <1>2
<1>5. old = AttemptAt(p)
  BY <1>1, <1>3, <1>4, Zenon DEF AttemptAt
<1> DEFINE Order(entry, c, none, zero, no) ==
             [plan |-> p, entry |-> entry, capabilities |-> c, order |-> NoOrder, filled |-> zero,
              protected |-> zero, exited |-> zero, fills |-> none, exits |-> none, coverage |-> none,
              protecting |-> zero, canceling |-> no, failed |-> no, cancelRefused |-> no, lastAt |-> zero]
<1>6. PICK none, zero, no : none = <<>> /\ zero = 0 /\ no = FALSE
  OBVIOUS
<1>7. [Order("NOT_SUBMITTED", NoCapabilities, none, zero, no) EXCEPT !.entry = "SUBMISSION_PENDING"] =
         Order("SUBMISSION_PENDING", NoCapabilities, none, zero, no)
  OBVIOUS
<1>8. [Order("SUBMISSION_PENDING", NoCapabilities, none, zero, no) EXCEPT !.capabilities = Adapter] =
         Order("SUBMISSION_PENDING", Adapter, none, zero, no)
  OBVIOUS
<1>9. AttemptAt(p) = Order("NOT_SUBMITTED", NoCapabilities, none, zero, no)
  BY <1>5, <1>6, Zenon
<1>10. NewOrder(p) = [AttemptAt(p) EXCEPT !.entry = "SUBMISSION_PENDING", !.capabilities = Adapter]
  BY DEF NewOrder, EntryRequested
<1> HIDE DEF Order
<1>11. NewOrder(p) = Order("SUBMISSION_PENDING", Adapter, none, zero, no)
  BY <1>7, <1>8, <1>9, <1>10
<1> QED BY <1>6, <1>11, Zenon DEF Order

LEMMA NewOrderBacked ==
  ASSUME Shapes, NEW p \in Plans
  PROVE  Backed(NewOrder(p)) /\ NewOrder(p).plan = p /\ NewOrder(p).entry = "SUBMISSION_PENDING"
<1> DEFINE n == NewOrder(p)
<1>1. n = [plan |-> p, entry |-> "SUBMISSION_PENDING", capabilities |-> Adapter, order |-> NoOrder,
            filled |-> 0, protected |-> 0, exited |-> 0, fills |-> <<>>, exits |-> <<>>, coverage |-> <<>>,
            protecting |-> 0, canceling |-> FALSE, failed |-> FALSE, cancelRefused |-> FALSE, lastAt |-> 0]
  BY NewOrderRecord
<1>2. <<>> \in Seq(Entries) /\ <<>> \in Seq(Exits) /\ <<>> \in Seq([target : Nat, at : Nat])
  OBVIOUS
<1>3. n \in Attempts
  BY <1>1, <1>2 DEF Attempts
<1>4. n.fills = <<>> /\ n.exits = <<>> /\ n.filled = 0 /\ n.exited = 0 /\ n.protected = 0 /\ n.protecting = 0
      /\ n.order = NoOrder /\ n.plan = p /\ n.entry = "SUBMISSION_PENDING"
  BY <1>1
<1>5. broker[p].covered \in Nat
  BY DEF Shapes
<1>6. DOMAIN <<>> = {}
  OBVIOUS
<1> HIDE DEF n
<1>7. 0 =< broker[p].covered
  BY <1>5
<1>8. Backed(n)
  BY <1>3, <1>4, <1>6, <1>7, UnitsEmpty DEF Backed
<1> QED BY <1>4, <1>8 DEF n

LEMMA AcknowledgedBacked ==
  ASSUME NEW a, Backed(a), NEW at \in Nat
  PROVE  LET b == EntryAcknowledged(a, [order |-> a.plan, at |-> at])
         IN  Backed(b) /\ b.plan = a.plan
<1> DEFINE b == EntryAcknowledged(a, [order |-> a.plan, at |-> at])
<1>1. a \in Attempts
  BY DEF Backed
<1>2. b = [a EXCEPT !.entry = "WORKING", !.order = a.plan, !.lastAt = at]
  BY DEF EntryAcknowledged
<1>3. /\ b.plan = a.plan /\ b.fills = a.fills /\ b.exits = a.exits /\ b.filled = a.filled /\ b.exited = a.exited
      /\ b.protected = a.protected /\ b.protecting = a.protecting /\ b.order = a.plan
  BY <1>1, <1>2 DEF Attempts
<1>4. b \in Attempts
  BY <1>1, <1>2 DEF Attempts
<1> HIDE DEF b
<1> QED BY <1>3, <1>4 DEF Backed, b

LEMMA RequestedBacked ==
  ASSUME NEW a, Backed(a), a.protecting # 0 \/ CanRequestProtection(a)
  PROVE  LET b == Pending(a)
         IN  Backed(b) /\ b.plan = a.plan /\ b.protecting \in Nat \ {0}
<1> DEFINE b == Pending(a)
<1>1. a \in Attempts
  BY DEF Backed
<1>2. CASE a.protecting # 0
  <2>1. b = a
    BY <1>2 DEF Pending
  <2> QED BY <1>2, <2>1, AttemptShape DEF Backed
<1>3. CASE a.protecting = 0
  <2>1. b = [a EXCEPT !.protecting = a.filled]
    BY <1>3 DEF Pending, ProtectionRequested
  <2>2. /\ b.plan = a.plan /\ b.fills = a.fills /\ b.exits = a.exits /\ b.filled = a.filled /\ b.exited = a.exited
        /\ b.protected = a.protected /\ b.protecting = a.filled /\ b.order = a.order /\ b.entry = a.entry
    BY <1>1, <2>1 DEF Attempts
  <2>3. b \in Attempts
    BY <1>1, <2>1 DEF Attempts
  <2>4. a.filled \in Nat /\ a.protected \in Nat /\ a.protected =< a.filled
    BY <1>1, AttemptShape DEF Backed
  <2>5. a.filled # 0
    BY <1>3, <2>4 DEF CanRequestProtection, Unprotected
  <2> HIDE DEF b
  <2>6. Backed(b)
    BY <2>2, <2>3, <2>4 DEF Backed
  <2> QED BY <2>2, <2>4, <2>5, <2>6 DEF b
<1> QED BY <1>2, <1>3

LEMMA ProtectedBacked ==
  ASSUME NEW a, Backed(a), NEW at \in Nat, a.protecting # 0, a.protecting =< broker[a.plan].covered
  PROVE  LET b == ProtectionAcknowledged(a, [target |-> a.protecting, at |-> at])
         IN  Backed(b) /\ b.plan = a.plan
<1> DEFINE b == ProtectionAcknowledged(a, [target |-> a.protecting, at |-> at])
           coverage == Append(a.coverage, [target |-> a.protecting, at |-> at])
<1>1. a \in Attempts
  BY DEF Backed
<1>2. b = [a EXCEPT !.protected = a.protecting, !.protecting = 0, !.lastAt = at, !.coverage = coverage]
  BY <1>1 DEF ProtectionAcknowledged, Attempts
<1>3. coverage \in Seq([target : Nat, at : Nat])
  BY <1>1, AttemptShape
<1> HIDE DEF coverage
<1>4. /\ b.plan = a.plan /\ b.fills = a.fills /\ b.exits = a.exits /\ b.filled = a.filled /\ b.exited = a.exited
      /\ b.protected = a.protecting /\ b.protecting = 0 /\ b.order = a.order /\ b.entry = a.entry
  BY <1>1, <1>2 DEF Attempts
<1>6. a.filled \in Nat /\ a.protecting \in Nat
  BY <1>1, AttemptShape
<1>5. b \in Attempts
  <2>1. ASSUME NEW t \in Nat, NEW c \in Seq([target : Nat, at : Nat])
        PROVE  [a EXCEPT !.protected = t, !.protecting = 0, !.lastAt = at, !.coverage = c] \in Attempts
    BY <1>1 DEF Attempts
  <2>2. PICK t \in Nat : t = a.protecting
    BY <1>6
  <2>3. [a EXCEPT !.protected = t, !.protecting = 0, !.lastAt = at, !.coverage = coverage] \in Attempts
    BY <1>3, <2>1, Zenon
  <2> QED BY <1>2, <2>2, <2>3, Zenon
<1> HIDE DEF b
<1> QED BY <1>4, <1>5, <1>6 DEF Backed, b

LEMMA FilledBacked ==
  ASSUME Shapes, ReportsInv, NEW a, Backed(a), NEW f \in reports, f.kind = "ENTRY_FILL", CanFill(a, f)
  PROVE  Backed(EntryFilled(a, f)) /\ EntryFilled(a, f).plan = a.plan
<1> DEFINE b == EntryFilled(a, f)
           fills == Append(a.fills, f)
           entry == IF a.filled + f.qty = Quantity THEN "FILLED" ELSE "WORKING"
<1>1. a \in Attempts /\ f \in Entries
  BY ReportShape DEF Backed, ReportsInv
<1>2. /\ a.fills \in Seq(Entries) /\ a.filled \in Nat /\ f.qty \in Nat \ {0} /\ f.at \in Nat /\ a.plan \in Plans
      /\ a.protected \in Nat /\ a.protecting \in Nat
  BY <1>1, AttemptShape, ReportShape
<1>3. fills \in Seq(Entries) /\ entry \in {"SUBMISSION_PENDING", "WORKING", "FILLED"} /\ a.filled + f.qty \in Nat
  BY <1>1, <1>2
<1>4. a.order = a.plan /\ f.order = a.plan
  BY DEF CanFill, Backed
<1> HIDE DEF fills, entry
<1>5. b = [a EXCEPT !.entry = entry, !.filled = a.filled + f.qty, !.fills = fills, !.lastAt = f.at]
  BY <1>1 DEF EntryFilled, fills, entry, Attempts
<1>6. /\ b.plan = a.plan /\ b.fills = fills /\ b.exits = a.exits /\ b.filled = a.filled + f.qty
      /\ b.exited = a.exited /\ b.protected = a.protected /\ b.protecting = a.protecting /\ b.order = a.order
  BY <1>1, <1>5 DEF Attempts
<1>7. b \in Attempts
  BY <1>1, <1>2, <1>3, <1>5 DEF Attempts
<1>8. IsFiniteSet(Units(a.fills)) /\ a.fills \in Seq(reports)
  BY BackedWithin
<1>9. \A i \in DOMAIN a.fills : a.fills[i].kind = f.kind /\ a.fills[i].order = f.order /\ a.fills[i].id # f.id
  <2>1. \A i \in DOMAIN a.fills : a.fills[i] \in Entries
    BY <1>2
  <2>2. \A i \in DOMAIN a.fills : a.fills[i].kind = "ENTRY_FILL"
    BY <2>1 DEF Entries
  <2> QED BY <1>4, <2>2 DEF Backed, CanFill
<1>10. Cardinality(Units(fills)) = Cardinality(Units(a.fills)) + f.qty
  BY <1>8, <1>9, UnitsCounted DEF fills
<1>11. b.filled = Cardinality(Units(b.fills)) /\ b.exited = Cardinality(Units(b.exits))
  BY <1>6, <1>10 DEF Backed
<1>12. \A i \in DOMAIN fills : fills[i] \in reports /\ fills[i].order = a.plan
  <2>1. PICK n \in Nat : n = Len(a.fills)
    BY <1>2
  <2>2. DOMAIN fills = 1..(n + 1) /\ DOMAIN a.fills = 1..n
    BY <1>2, <2>1 DEF fills
  <2>3. (\A i \in 1..n : fills[i] = a.fills[i]) /\ fills[n + 1] = f
    BY <1>2, <2>1 DEF fills
  <2>4. \A i \in 1..(n + 1) : i \in 1..n \/ i = n + 1
    BY <2>1
  <2> QED BY <1>4, <2>2, <2>3, <2>4 DEF Backed
<1>13. b.protected =< b.filled /\ b.protecting =< b.filled
  BY <1>2, <1>6 DEF Backed
<1> HIDE DEF b
<1> QED BY <1>4, <1>6, <1>7, <1>11, <1>12, <1>13 DEF Backed, b

LEMMA ExitedBacked ==
  ASSUME Shapes, ReportsInv, NEW a, Backed(a), NEW f \in reports, f.kind = "EXIT_FILL", f.order = a.plan,
         CanExit(a, f)
  PROVE  Backed(Exited(a, f)) /\ Exited(a, f).plan = a.plan
<1> DEFINE b == Exited(a, f)
           exits == Append(a.exits, f)
<1>1. a \in Attempts /\ f \in Exits
  BY ReportShape DEF Backed, ReportsInv
<1>2. /\ a.exits \in Seq(Exits) /\ a.exited \in Nat /\ f.qty \in Nat \ {0} /\ f.at \in Nat /\ a.plan \in Plans
  BY <1>1, AttemptShape, ReportShape
<1>3. exits \in Seq(Exits) /\ a.exited + f.qty \in Nat
  BY <1>1, <1>2
<1> HIDE DEF exits
<1>5. b = [a EXCEPT !.exited = a.exited + f.qty, !.exits = exits, !.lastAt = f.at]
  BY <1>1 DEF Exited, exits, Attempts
<1>6. /\ b.plan = a.plan /\ b.fills = a.fills /\ b.exits = exits /\ b.exited = a.exited + f.qty
      /\ b.filled = a.filled /\ b.protected = a.protected /\ b.protecting = a.protecting /\ b.order = a.order
      /\ b.entry = a.entry
  BY <1>1, <1>5 DEF Attempts
<1>7. b \in Attempts
  BY <1>1, <1>2, <1>3, <1>5 DEF Attempts
<1>8. IsFiniteSet(Units(a.exits)) /\ a.exits \in Seq(reports)
  BY BackedWithin
<1>9. \A i \in DOMAIN a.exits : a.exits[i].kind = f.kind /\ a.exits[i].order = f.order /\ a.exits[i].id # f.id
  <2>1. \A i \in DOMAIN a.exits : a.exits[i] \in Exits
    BY <1>2
  <2>2. \A i \in DOMAIN a.exits : a.exits[i].kind = "EXIT_FILL"
    BY <2>1 DEF Exits
  <2> QED BY <2>2 DEF Backed, CanExit
<1>10. Cardinality(Units(exits)) = Cardinality(Units(a.exits)) + f.qty
  BY <1>8, <1>9, UnitsCounted DEF exits
<1>11. b.filled = Cardinality(Units(b.fills)) /\ b.exited = Cardinality(Units(b.exits))
  BY <1>6, <1>10 DEF Backed
<1>12. \A i \in DOMAIN exits : exits[i] \in reports /\ exits[i].order = a.plan
  <2>1. PICK n \in Nat : n = Len(a.exits)
    BY <1>2
  <2>2. DOMAIN exits = 1..(n + 1) /\ DOMAIN a.exits = 1..n
    BY <1>2, <2>1 DEF exits
  <2>3. (\A i \in 1..n : exits[i] = a.exits[i]) /\ exits[n + 1] = f
    BY <1>2, <2>1 DEF exits
  <2>4. \A i \in 1..(n + 1) : i \in 1..n \/ i = n + 1
    BY <2>1
  <2> QED BY <2>2, <2>3, <2>4 DEF Backed
<1> HIDE DEF b
<1> QED BY <1>6, <1>7, <1>11, <1>12 DEF Backed, b
-----------------------------------------------------------------------------
(* What a step must keep for what was said of results and commands to stay so. *)

\* Reports are never withdrawn, the broker uncovers nothing, and the session does
\* not turn to another trade.
Kept ==
  /\ reports \subseteq reports'
  /\ \A p \in Plans : broker[p].covered =< broker'[p].covered
  /\ session.attempt # None => session'.attempt # None /\ session'.attempt.plan = session.attempt.plan

LEMMA BackedStays ==
  ASSUME Shapes, Shapes', Kept, NEW a, Backed(a)
  PROVE  Backed(a)'
<1>1. a \in Attempts /\ a.plan \in Plans /\ a.protected \in Nat
  BY AttemptShape DEF Backed
<1>2. broker[a.plan].covered \in Nat /\ broker'[a.plan].covered \in Nat
  BY <1>1 DEF Shapes
<1>3. broker[a.plan].covered =< broker'[a.plan].covered
  BY <1>1 DEF Kept
<1>4. a.protected =< broker'[a.plan].covered
  BY <1>1, <1>2, <1>3 DEF Backed
<1>5. \A i \in DOMAIN a.fills : a.fills[i] \in reports' /\ a.fills[i].order = a.plan
  BY DEF Backed, Kept
<1>6. \A i \in DOMAIN a.exits : a.exits[i] \in reports' /\ a.exits[i].order = a.plan
  BY DEF Backed, Kept
<1> QED BY <1>4, <1>5, <1>6 DEF Backed

LEMMA OursStays ==
  ASSUME Shapes, Shapes', Kept, NEW a, Ours(a)
  PROVE  Ours(a)'
BY BackedStays DEF Ours, Kept

LEMMA OurPlanStays ==
  ASSUME Kept, NEW p, OurPlan(p)
  PROVE  OurPlan(p)'
BY DEF OurPlan, Kept

LEMMA CoveredStays ==
  ASSUME Shapes, Shapes', Kept, NEW r, Ours(r.attempt), Covered(r)
  PROVE  Covered(r)'
<1>1. r.attempt.plan \in Plans /\ r.attempt.protecting \in Nat
  BY AttemptShape DEF Ours, Backed
<1>2. broker[r.attempt.plan].covered \in Nat /\ broker'[r.attempt.plan].covered \in Nat
  BY <1>1 DEF Shapes
<1>3. broker[r.attempt.plan].covered =< broker'[r.attempt.plan].covered
  BY <1>1 DEF Kept
<1> QED BY <1>1, <1>2, <1>3 DEF Covered

LEMMA ResultStays ==
  ASSUME Shapes, Shapes', Kept, NEW r, ResultOK(r)
  PROVE  ResultOK(r)'
<1>1. /\ r.kind \in ResultKinds
      /\ r.kind = "PREPARED" => r.plan \in Plans
      /\ r.kind = "SUBMISSION_RESULT" =>
           r.attempt.plan \in Plans /\ r.attempt = NewOrder(r.attempt.plan) /\ r.at \in Nat \union {None}
      /\ r.kind = "MULTIPLE_RESULT" => r.basis = r.gross.plan
  BY DEF ResultOK
<1>2. r.kind \in {"INITIALIZATION_RESULT", "FILL_RESULT", "PROTECTION_RESULT", "LIFECYCLE_RESULT", "EXIT_RESULT"} =>
        Ours(r.attempt)'
  BY OursStays DEF ResultOK
<1>3. r.kind = "PROTECTION_RESULT" => Covered(r)'
  BY CoveredStays DEF ResultOK
<1>4. /\ r.kind = "BASIS_RESULT" => OurPlan(r.plan)'
      /\ r.kind \in {"VALUATION_RESULT", "COST_RESULT"} => OurPlan(r.position.plan)'
      /\ r.kind \in {"NET_RESULT", "MULTIPLE_RESULT"} => OurPlan(r.gross.plan)'
  BY OurPlanStays DEF ResultOK
<1> QED BY <1>1, <1>2, <1>3, <1>4, Zenon DEF ResultOK, ResultKinds

LEMMA CommandStays ==
  ASSUME Shapes, Shapes', Kept, NEW c, CommandOK(c)
  PROVE  CommandOK(c)'
<1>1. c.op = "SUBMIT" => c.plan \in Plans
  BY DEF CommandOK
<1>2. c.op = "INITIALIZE" => ResultOK(c.submission)' /\ c.submission.kind = "SUBMISSION_RESULT"
                             /\ OurPlan(c.submission.attempt.plan)'
  BY ResultStays, OurPlanStays DEF CommandOK
<1>3. c.op \in {"FILL", "EXIT", "CREATE_BASIS", "VALUE", "COST"} => Ours(c.attempt)'
  BY OursStays DEF CommandOK
<1>4. /\ c.op = "FILL" => c.fill \in reports' /\ c.fill.kind = "ENTRY_FILL"
      /\ c.op = "EXIT" => c.fill \in reports' /\ c.fill.kind = "EXIT_FILL"
  BY DEF CommandOK, Kept
<1>5. c.op = "PROTECT" => Ours(c.fill.attempt)'
  BY OursStays DEF CommandOK
<1>6. c.op = "ACKNOWLEDGE" =>
        Ours(c.protection.attempt)' /\ c.protection.status = "CONFIRMED" /\ Covered(c.protection)'
  BY OursStays, CoveredStays DEF CommandOK
<1>7. /\ c.op = "GROSS" => OurPlan(c.position.plan)'
      /\ c.op = "NET" => OurPlan(c.gross.plan)'
      /\ c.op = "MULTIPLE" => OurPlan(c.net.gross.plan)'
  BY OurPlanStays DEF CommandOK
<1> QED BY <1>1, <1>2, <1>3, <1>4, <1>5, <1>6, <1>7, Zenon DEF CommandOK

\* The parts of the invariant, and what is new among results and commands.
LEMMA Together ==
  ASSUME BookInv, Kept, Shapes', ReportsInv', OneTrade', SessionInv', CallerInv',
         \A r \in results' : r \in results \/ ResultOK(r)',
         \A c \in running' : c \in running \/ CommandOK(c)'
  PROVE  BookInv'
<1>1. Shapes
  BY DEF BookInv
<1>2. ASSUME NEW r \in results' PROVE ResultOK(r)'
  BY <1>1, ResultStays DEF BookInv
<1>3. ASSUME NEW c \in running' PROVE CommandOK(c)'
  BY <1>1, CommandStays DEF BookInv
<1> QED BY <1>2, <1>3 DEF BookInv

\* The broker, its records and its reports are as they were.
LEMMA SameOutside ==
  ASSUME BookInv, UNCHANGED outside, Kept,
         session' = [attempt |-> session'.attempt, basis |-> session'.basis, multiple |-> session'.multiple],
         caller' = [fill |-> caller'.fill, protection |-> caller'.protection, gross |-> caller'.gross]
  PROVE  Shapes' /\ ReportsInv' /\ OneTrade'
<1>1. UNCHANGED <<mode, disciplined, broker, record, reports, lost>>
  BY DEF outside
<1>2. Shapes'
  BY <1>1 DEF BookInv, Shapes
<1>3. ReportsInv'
  BY <1>1 DEF BookInv, ReportsInv, Through, Span
<1>4. OneTrade'
  <2>1. \A p : OurPlan(p) => OurPlan(p)'
    BY OurPlanStays
  <2> QED BY <1>1, <2>1 DEF BookInv, OneTrade
<1> QED BY <1>2, <1>3, <1>4
-----------------------------------------------------------------------------
(* What the planner does.                                                      *)

\* Whether the caller is disciplined or not, it holds no result it did not hold.
LEMMA UsedKeeps == ASSUME NEW r, Used(r) PROVE results' \subseteq results
BY DEF Used

LEMMA OutsideKeeps ==
  ASSUME BookInv, UNCHANGED outside,
         session.attempt # None => session'.attempt # None /\ session'.attempt.plan = session.attempt.plan
  PROVE  Kept
<1>1. reports' = reports /\ broker' = broker
  BY DEF outside
<1>2. \A p \in Plans : broker[p].covered \in Nat
  BY DEF BookInv, Shapes
<1> QED BY <1>1, <1>2 DEF Kept

LEMMA CallerStays ==
  ASSUME BookInv, Shapes', Kept, UNCHANGED caller
  PROVE  CallerInv'
<1>1. Shapes /\ CallerInv
  BY DEF BookInv
<1>2. /\ caller.fill # None => Ours(caller.fill)'
      /\ caller.protection # None => Ours(caller.protection)'
      /\ caller.gross # None => OurPlan(caller.gross.plan)'
  BY <1>1, OursStays, OurPlanStays DEF CallerInv
<1> QED BY <1>2 DEF CallerInv

LEMMA SessionStays ==
  ASSUME BookInv, Shapes', Kept, UNCHANGED session
  PROVE  SessionInv'
<1>1. Shapes /\ SessionInv
  BY DEF BookInv
<1>2. session.attempt # None => Backed(session.attempt)'
  BY <1>1, BackedStays DEF SessionInv
<1> QED BY <1>1, <1>2 DEF SessionInv, OurPlan

\* A session that stays or becomes one of the same trade, and the commands planned.
LEMMA Fed ==
  ASSUME BookInv, UNCHANGED <<caller, outside>>, results' \subseteq results,
         session' = [attempt |-> session'.attempt, basis |-> session'.basis, multiple |-> session'.multiple],
         session.attempt # None => session'.attempt # None /\ session'.attempt.plan = session.attempt.plan,
         SessionInv', \A c \in running' : c \in running \/ CommandOK(c)'
  PROVE  BookInv'
<1>1. UNCHANGED outside /\ UNCHANGED caller
  OBVIOUS
<1>2. Kept
  BY <1>1, OutsideKeeps
<1>3. caller' = [fill |-> caller'.fill, protection |-> caller'.protection, gross |-> caller'.gross]
  BY <1>1 DEF BookInv, Shapes
<1>4. Shapes' /\ ReportsInv' /\ OneTrade'
  BY <1>1, <1>2, <1>3, SameOutside
<1>5. CallerInv'
  BY <1>1, <1>2, <1>4, CallerStays
<1>6. \A r \in results' : r \in results \/ ResultOK(r)'
  OBVIOUS
<1> QED BY <1>2, <1>4, <1>5, <1>6, Together

\* An observation, or a result that leaves the session as it is.
LEMMA FedSame ==
  ASSUME BookInv, UNCHANGED <<session, caller, outside>>, results' \subseteq results,
         \A c \in running' : c \in running \/ CommandOK(c)'
  PROVE  BookInv'
<1>1. UNCHANGED session /\ UNCHANGED outside /\ UNCHANGED caller
  OBVIOUS
<1>2. session' = [attempt |-> session'.attempt, basis |-> session'.basis, multiple |-> session'.multiple]
  BY <1>1 DEF BookInv, Shapes
<1>3. Kept
  BY <1>1, OutsideKeeps
<1>4. caller' = [fill |-> caller'.fill, protection |-> caller'.protection, gross |-> caller'.gross]
  BY <1>1 DEF BookInv, Shapes
<1>5. Shapes'
  BY <1>1, <1>2, <1>3, <1>4, SameOutside
<1>6. SessionInv'
  BY <1>1, <1>3, <1>5, SessionStays
<1> QED BY <1>1, <1>2, <1>6, Fed

\* An attempt of the session's trade, or the first one, becomes the session's.
LEMMA Adopting ==
  ASSUME BookInv, UNCHANGED outside, NEW a, Backed(a), Coherent(a.plan), session' = Adopted(a)
  PROVE  /\ session' = [attempt |-> session'.attempt, basis |-> session'.basis, multiple |-> session'.multiple]
         /\ session.attempt # None => session'.attempt # None /\ session'.attempt.plan = session.attempt.plan
         /\ session'.basis = session.basis
         /\ SessionInv' /\ Ours(a)' /\ OurPlan(a.plan)'
<1>1. UNCHANGED <<mode, disciplined, broker, record, reports, lost>>
  BY DEF outside
<1>2. session = [attempt |-> session.attempt, basis |-> session.basis, multiple |-> session.multiple]
  BY DEF BookInv, Shapes
<1>3. PICK basis, multiple : basis = session.basis /\ multiple = session.multiple
  OBVIOUS
<1>4. session' = [attempt |-> a, basis |-> basis, multiple |-> multiple]
  BY <1>2, <1>3 DEF Adopted
<1>5. session'.attempt = a /\ session'.basis = session.basis /\ session'.multiple = session.multiple
  BY <1>3, <1>4
<1>6. a # None /\ Backed(a)'
  BY <1>1, AttemptShape DEF Backed
<1>7. session.attempt # None => a.plan = session.attempt.plan
  BY DEF Coherent
<1>8. SessionInv'
  BY <1>5, <1>6, <1>7 DEF BookInv, SessionInv, OurPlan
<1> QED BY <1>4, <1>5, <1>6, <1>7, <1>8 DEF Ours, OurPlan

\* A result that brings an attempt and plans nothing.
LEMMA FedAttempt ==
  ASSUME BookInv, NEW r, NEW a, Backed(a), Coherent(a.plan), NoAction(Adopted(a), r)
  PROVE  BookInv'
<1>1. session' = Adopted(a) /\ results' \subseteq results /\ running' = running /\ UNCHANGED <<caller, outside>>
  BY UsedKeeps DEF NoAction
<1>2. UNCHANGED outside
  BY <1>1
<1>3. /\ session' = [attempt |-> session'.attempt, basis |-> session'.basis, multiple |-> session'.multiple]
      /\ session.attempt # None => session'.attempt # None /\ session'.attempt.plan = session.attempt.plan
      /\ SessionInv'
  BY <1>1, <1>2, Adopting
<1> QED BY <1>1, <1>3, Fed

\* A result that brings an attempt and plans a command.
LEMMA FedCommand ==
  ASSUME BookInv, NEW r, NEW a, Backed(a), Coherent(a.plan), NEW command,
         Planned(Adopted(a), r, command), CommandOK(command)'
  PROVE  BookInv'
<1>1. session' = Adopted(a) /\ results' \subseteq results /\ UNCHANGED <<caller, outside>>
  BY UsedKeeps DEF Planned
<1>2. UNCHANGED outside
  BY <1>1
<1>3. /\ session' = [attempt |-> session'.attempt, basis |-> session'.basis, multiple |-> session'.multiple]
      /\ session.attempt # None => session'.attempt # None /\ session'.attempt.plan = session.attempt.plan
      /\ SessionInv'
  BY <1>1, <1>2, Adopting
<1>4. \A c \in running' : c \in running \/ CommandOK(c)'
  BY DEF Planned
<1> QED BY <1>1, <1>3, <1>4, Fed

LEMMA FedNothing ==
  ASSUME BookInv, NEW r, NoAction(session, r)
  PROVE  BookInv'
BY UsedKeeps, FedSame DEF NoAction

LEMMA FedPlan ==
  ASSUME BookInv, NEW r, NEW command, Planned(session, r, command), CommandOK(command)'
  PROVE  BookInv'
BY UsedKeeps, FedSame DEF Planned

LEMMA Seen ==
  ASSUME BookInv, NEW command, Observed(command), CommandOK(command)'
  PROVE  BookInv'
<1>1. results' \subseteq results /\ UNCHANGED <<session, caller, outside>>
  BY DEF Observed
<1>2. \A c \in running' : c \in running \/ CommandOK(c)'
  BY DEF Observed
<1> QED BY <1>1, <1>2, FedSame
-----------------------------------------------------------------------------
(* The observations, and the results as they are fed back.                     *)

LEMMA ObservationsKeep ==
  ASSUME BookInv, \/ ObserveTrade
                  \/ \E f \in reports, a \in Held : ObserveFill(f, a) \/ ObserveExit(f, a)
                  \/ \E op \in {"VALUE", "COST"} : RequestProjection(op)
  PROVE  BookInv'
<1>0. Shapes /\ SessionInv /\ CallerInv
  BY DEF BookInv
<1>1. CASE ObserveTrade
  <2>1. CommandOK([op |-> "INGEST"])'
    BY DEF CommandOK
  <2> QED BY <1>1, <2>1, Seen DEF ObserveTrade
<1>2. ASSUME NEW a, Ours(a), NEW command, Observed(command), command.attempt = a,
             \/ command.op \in {"VALUE", "COST"}
             \/ command.op = "FILL" /\ command.fill \in reports /\ command.fill.kind = "ENTRY_FILL"
             \/ command.op = "EXIT" /\ command.fill \in reports /\ command.fill.kind = "EXIT_FILL"
      PROVE  BookInv'
  <2>1. UNCHANGED <<session, outside>>
    BY <1>2 DEF Observed
  <2>2. Ours(a)' /\ reports' = reports
    BY <1>2, <2>1 DEF Ours, Backed, outside
  <2>3. CommandOK(command)'
    BY <1>2, <2>2 DEF CommandOK
  <2> QED BY <1>2, <2>3, Seen
<1>3. ASSUME NEW a, IsCurrent(a) PROVE Ours(a)
  BY <1>0, <1>3 DEF IsCurrent, Ours, SessionInv
<1>4. ASSUME NEW f \in reports, NEW a \in Held, ObserveFill(f, a) PROVE BookInv'
  <2>1. Observed([op |-> "FILL", attempt |-> a, fill |-> f]) /\ f.kind = "ENTRY_FILL" /\ Ours(a)
    BY <1>3, <1>4 DEF ObserveFill
  <2> QED BY <1>2, <2>1
<1>5. ASSUME NEW f \in reports, NEW a \in Held, ObserveExit(f, a) PROVE BookInv'
  <2>1. /\ Observed([op |-> "EXIT", attempt |-> a, source |-> caller.protection, fill |-> f])
        /\ f.kind = "EXIT_FILL" /\ Ours(a)
    BY <1>3, <1>5 DEF ObserveExit
  <2> QED BY <1>2, <2>1
<1>6. ASSUME NEW op \in {"VALUE", "COST"}, RequestProjection(op) PROVE BookInv'
  <2>1. Observed([op |-> op, attempt |-> caller.fill]) /\ Ours(caller.fill)
    BY <1>3, <1>6 DEF RequestProjection
  <2> QED BY <1>2, <2>1
<1> QED BY <1>1, <1>4, <1>5, <1>6

LEMMA FeedsOfTheOrder ==
  ASSUME BookInv, NEW r \in results, NEW environment,
         \/ FeedStage(r) \/ FeedPreparation(r, environment) \/ FeedSubmission(r) \/ FeedInitialization(r)
  PROVE  BookInv'
<1>0. Shapes /\ SessionInv /\ ResultOK(r)
  BY DEF BookInv
<1>1. CASE FeedStage(r)
  <2>1. Stage[r.kind] \in {"ANALYZE", "DECIDE", "PREPARE"}
    BY <1>1 DEF FeedStage, Stage
  <2>2. CommandOK([op |-> Stage[r.kind]])'
    BY <2>1 DEF CommandOK
  <2> QED BY <1>1, <2>2, FedPlan DEF FeedStage
<1>2. CASE FeedPreparation(r, environment)
  <2>1. CommandOK([op |-> "SUBMIT", plan |-> r.plan, environment |-> environment])'
    BY <1>0, <1>2 DEF CommandOK, ResultOK, FeedPreparation
  <2>2. \/ NoAction(session, r)
        \/ Planned(session, r, [op |-> "SUBMIT", plan |-> r.plan, environment |-> environment])
    BY <1>2 DEF FeedPreparation
  <2> QED BY <2>1, <2>2, FedPlan, FedNothing
<1>3. CASE FeedSubmission(r)
  <2>1. /\ r.attempt.plan \in Plans /\ r.attempt = NewOrder(r.attempt.plan) /\ r.at \in Nat \union {None}
        /\ r.kind = "SUBMISSION_RESULT"
    BY <1>0, <1>3 DEF ResultOK, FeedSubmission
  <2>2. Backed(r.attempt)
    BY <1>0, <2>1, NewOrderBacked, Zenon
  <2>3. CASE Coherent(r.attempt.plan) /\ Planned(Adopted(r.attempt), r, [op |-> "INITIALIZE", submission |-> r])
    <3>1. session' = Adopted(r.attempt) /\ UNCHANGED outside
      BY <2>3 DEF Planned
    <3>2. OurPlan(r.attempt.plan)'
      BY <2>2, <2>3, <3>1, Adopting
    <3>3. ResultOK(r)'
      BY <2>1 DEF ResultOK, ResultKinds
    <3>4. CommandOK([op |-> "INITIALIZE", submission |-> r])'
      BY <2>1, <3>2, <3>3 DEF CommandOK
    <3> QED BY <2>2, <2>3, <3>4, FedCommand
  <2>4. CASE Coherent(r.attempt.plan) /\ NoAction(Adopted(r.attempt), r)
    BY <2>2, <2>4, FedAttempt
  <2>5. CASE NoAction(session, r)
    BY <2>5, FedNothing
  <2> QED BY <1>3, <2>3, <2>4, <2>5 DEF FeedSubmission
<1>4. CASE FeedInitialization(r)
  <2>1. Backed(r.attempt)
    BY <1>0, <1>4 DEF ResultOK, FeedInitialization, Ours
  <2>2. CASE Coherent(r.attempt.plan) /\ Planned(Adopted(r.attempt), r, [op |-> "CREATE_BASIS", attempt |-> r.attempt])
    <3>1. session' = Adopted(r.attempt) /\ UNCHANGED outside
      BY <2>2 DEF Planned
    <3>2. Ours(r.attempt)'
      BY <2>1, <2>2, <3>1, Adopting
    <3>3. CommandOK([op |-> "CREATE_BASIS", attempt |-> r.attempt])'
      BY <3>2 DEF CommandOK
    <3> QED BY <2>1, <2>2, <3>3, FedCommand
  <2>3. CASE Coherent(r.attempt.plan) /\ NoAction(Adopted(r.attempt), r)
    BY <2>1, <2>3, FedAttempt
  <2>4. CASE NoAction(session, r)
    BY <2>4, FedNothing
  <2> QED BY <1>4, <2>2, <2>3, <2>4 DEF FeedInitialization
<1> QED BY <1>1, <1>2, <1>3, <1>4

LEMMA FeedsOfTheFill ==
  ASSUME BookInv, NEW r \in results, NEW environment,
         FeedFill(r, environment) \/ FeedProtection(r) \/ FeedAttempt(r)
  PROVE  BookInv'
<1>0. Shapes /\ SessionInv /\ ResultOK(r)
  BY DEF BookInv
<1>1. CASE FeedFill(r, environment)
  <2> DEFINE command == [op |-> "PROTECT", fill |-> r, environment |-> environment]
  <2>1. Backed(r.attempt)
    BY <1>0, <1>1 DEF ResultOK, FeedFill, Ours
  <2>2. CASE Coherent(r.attempt.plan) /\ Planned(Adopted(r.attempt), r, command)
    <3>1. session' = Adopted(r.attempt) /\ UNCHANGED outside
      BY <2>2 DEF Planned
    <3>2. Ours(r.attempt)'
      BY <2>1, <2>2, <3>1, Adopting
    <3>3. CommandOK(command)'
      BY <3>2 DEF CommandOK
    <3> QED BY <2>1, <2>2, <3>3, FedCommand
  <2>3. CASE Coherent(r.attempt.plan) /\ NoAction(Adopted(r.attempt), r)
    BY <2>1, <2>3, FedAttempt
  <2>4. CASE NoAction(session, r)
    BY <2>4, FedNothing
  <2> QED BY <1>1, <2>2, <2>3, <2>4 DEF FeedFill
<1>2. CASE FeedProtection(r)
  <2> DEFINE command == [op |-> "ACKNOWLEDGE", protection |-> r]
  <2>1. Backed(r.attempt) /\ Ours(r.attempt) /\ Covered(r) /\ r.kind = "PROTECTION_RESULT"
    BY <1>0, <1>2 DEF ResultOK, FeedProtection, Ours
  <2>2. CASE Coherent(r.attempt.plan) /\ r.status = "CONFIRMED" /\ Planned(Adopted(r.attempt), r, command)
    <3>1. session' = Adopted(r.attempt) /\ UNCHANGED outside
      BY <2>2 DEF Planned
    <3>2. Ours(r.attempt)'
      BY <2>1, <2>2, <3>1, Adopting
    <3>3. Covered(r)'
      BY <2>1, <3>1 DEF Covered, outside
    <3>4. CommandOK(command)'
      BY <2>2, <3>2, <3>3 DEF CommandOK
    <3> QED BY <2>1, <2>2, <3>4, FedCommand
  <2>3. CASE Coherent(r.attempt.plan) /\ NoAction(Adopted(r.attempt), r)
    BY <2>1, <2>3, FedAttempt
  <2>4. CASE NoAction(session, r)
    BY <2>4, FedNothing
  <2> QED BY <1>2, <2>2, <2>3, <2>4 DEF FeedProtection
<1>3. CASE FeedAttempt(r)
  <2>1. Backed(r.attempt)
    BY <1>0, <1>3 DEF ResultOK, FeedAttempt, Ours
  <2>2. \/ Coherent(r.attempt.plan) /\ NoAction(Adopted(r.attempt), r)
        \/ NoAction(session, r)
    BY <1>3 DEF FeedAttempt
  <2> QED BY <2>1, <2>2, FedAttempt, FedNothing
<1> QED BY <1>1, <1>2, <1>3

LEMMA FeedsOfTheProjections ==
  ASSUME BookInv, NEW r \in results,
         FeedBasis(r) \/ FeedValuation(r) \/ FeedAuthorities(r) \/ FeedNet(r) \/ FeedMultiple(r)
  PROVE  BookInv'
<1>0. Shapes /\ SessionInv /\ CallerInv /\ ResultOK(r)
  BY DEF BookInv
<1>1. session = [attempt |-> session.attempt, basis |-> session.basis, multiple |-> session.multiple]
  BY <1>0 DEF Shapes
<1>2. PICK attempt, basis, multiple : attempt = session.attempt /\ basis = session.basis /\ multiple = session.multiple
  OBVIOUS
<1>3. session = [attempt |-> attempt, basis |-> basis, multiple |-> multiple]
  BY <1>1, <1>2
<1>4. CASE FeedBasis(r)
  <2>1. CASE NoAction(session, r)
    BY <2>1, FedNothing
  <2>2. CASE /\ session.attempt # None /\ session.attempt.plan = r.plan /\ session.basis \in {None, r.plan}
             /\ NoAction([session EXCEPT !.basis = r.plan], r)
    <3>1. /\ session' = [attempt |-> attempt, basis |-> r.plan, multiple |-> multiple]
          /\ results' \subseteq results /\ running' = running /\ UNCHANGED <<caller, outside>>
      BY <1>3, <2>2, UsedKeeps DEF NoAction
    <3>2. session'.attempt = session.attempt /\ session'.basis = r.plan /\ session'.multiple = session.multiple
      BY <1>2, <3>1
    <3>3. session' = [attempt |-> session'.attempt, basis |-> session'.basis, multiple |-> session'.multiple]
      BY <1>2, <3>1, <3>2
    <3>4. UNCHANGED <<mode, disciplined, broker, record, reports, lost>>
      BY <3>1 DEF outside
    <3>5. session.attempt # None => Backed(session.attempt)'
      BY <1>0, <3>2, <3>4 DEF SessionInv, Backed
    <3>6. r.plan # None
      BY <1>0, <2>2, AttemptShape, Constants DEF SessionInv, Backed
    <3>7. SessionInv'
      BY <1>0, <2>2, <3>2, <3>5, <3>6 DEF SessionInv, OurPlan
    <3> QED BY <3>1, <3>2, <3>3, <3>7, Fed
  <2> QED BY <1>4, <2>1, <2>2 DEF FeedBasis
<1>5. CASE FeedMultiple(r)
  <2>1. CASE NoAction(session, r)
    BY <2>1, FedNothing
  <2>2. CASE Coherent(r.gross.plan) /\ r.basis = session.basis /\ NoAction([session EXCEPT !.multiple = r], r)
    <3>1. /\ session' = [attempt |-> attempt, basis |-> basis, multiple |-> r]
          /\ results' \subseteq results /\ running' = running /\ UNCHANGED <<caller, outside>>
      BY <1>3, <2>2, UsedKeeps DEF NoAction
    <3>2. session'.attempt = session.attempt /\ session'.basis = session.basis /\ session'.multiple = r
      BY <1>2, <3>1
    <3>3. session' = [attempt |-> session'.attempt, basis |-> session'.basis, multiple |-> session'.multiple]
      BY <1>2, <3>1, <3>2
    <3>4. UNCHANGED <<mode, disciplined, broker, record, reports, lost>>
      BY <3>1 DEF outside
    <3>5. session.attempt # None => Backed(session.attempt)'
      BY <1>0, <3>2, <3>4 DEF SessionInv, Backed
    <3>6. OurPlan(r.gross.plan) /\ r.basis = r.gross.plan
      BY <1>0, <1>5 DEF FeedMultiple, ResultOK
    <3>7. r.basis # None
      BY <1>0, <3>6, AttemptShape, Constants DEF SessionInv, Backed, OurPlan
    <3>8. SessionInv'
      BY <1>0, <2>2, <3>2, <3>5, <3>6, <3>7 DEF SessionInv, OurPlan
    <3> QED BY <3>1, <3>2, <3>3, <3>8, Fed
  <2> QED BY <1>5, <2>1, <2>2 DEF FeedMultiple
<1>6. ASSUME NEW command, Planned(session, r, command),
             \/ command.op = "GROSS" /\ OurPlan(command.position.plan)
             \/ command.op = "NET" /\ OurPlan(command.gross.plan)
             \/ command.op = "MULTIPLE" /\ OurPlan(command.net.gross.plan)
      PROVE  BookInv'
  <2>1. session' = session
    BY <1>6 DEF Planned
  <2>2. CommandOK(command)'
    BY <1>6, <2>1 DEF CommandOK, OurPlan
  <2> QED BY <1>6, <2>2, FedPlan
<1>7. CASE FeedValuation(r)
  <2>1. OurPlan(r.position.plan)
    BY <1>0, <1>7 DEF FeedValuation, ResultOK
  <2>2. CASE Planned(session, r, [op |-> "GROSS", position |-> r.position])
    BY <1>6, <2>1, <2>2
  <2>3. CASE NoAction(session, r)
    BY <2>3, FedNothing
  <2> QED BY <1>7, <2>2, <2>3 DEF FeedValuation
<1>8. CASE FeedAuthorities(r)
  <2>1. OurPlan(caller.gross.plan)
    BY <1>0, <1>8 DEF FeedAuthorities, CallerInv
  <2>2. CASE Planned(session, r, [op |-> "NET", gross |-> caller.gross, cost |-> r.position])
    BY <1>6, <2>1, <2>2
  <2>3. CASE NoAction(session, r)
    BY <2>3, FedNothing
  <2> QED BY <1>8, <2>2, <2>3 DEF FeedAuthorities
<1>9. CASE FeedNet(r)
  <2>1. OurPlan(r.gross.plan)
    BY <1>0, <1>9 DEF FeedNet, ResultOK
  <2>2. CASE Planned(session, r, [op |-> "MULTIPLE", net |-> r, basis |-> session.basis])
    BY <1>6, <2>1, <2>2
  <2>3. CASE NoAction(session, r)
    BY <2>3, FedNothing
  <2> QED BY <1>9, <2>2, <2>3 DEF FeedNet
<1> QED BY <1>4, <1>5, <1>7, <1>8, <1>9

LEMMA FeedKeeps ==
  ASSUME BookInv, NEW r \in results, Feed(r)
  PROVE  BookInv'
<1>1. CASE FeedStage(r) \/ FeedSubmission(r) \/ FeedInitialization(r)
  BY <1>1, FeedsOfTheOrder
<1>2. CASE FeedProtection(r) \/ FeedAttempt(r)
  BY <1>2, FeedsOfTheFill
<1>3. CASE FeedBasis(r) \/ FeedValuation(r) \/ FeedAuthorities(r) \/ FeedNet(r) \/ FeedMultiple(r)
  BY <1>3, FeedsOfTheProjections
<1>4. ASSUME NEW environment, FeedPreparation(r, environment) \/ FeedFill(r, environment) PROVE BookInv'
  BY <1>4, FeedsOfTheOrder, FeedsOfTheFill
<1> QED BY <1>1, <1>2, <1>3, <1>4 DEF Feed
-----------------------------------------------------------------------------
(* The clock, and the commands that do not reach the broker.                   *)

LEMMA NowIsNat == ASSUME Shapes PROVE Now \in Nat
<1> DEFINE Event(p) == {p} \X Happened(p)
           event == [p \in Plans |-> Event(p)]
           events == {Event(p) : p \in Plans}
<1>1. ASSUME NEW p \in Plans PROVE IsFiniteSet(Event(p))
  <2>1. PICK n \in Int : n = (IF broker[p].working THEN 1 ELSE 0) + broker[p].filled + broker[p].covered
                               + broker[p].exited
    BY Constants DEF Shapes
  <2>2. Happened(p) = 1..n
    BY <2>1 DEF Happened
  <2>3. IsFiniteSet(1..n) /\ IsFiniteSet({p})
    BY FS_Interval, FS_Singleton
  <2> QED BY <2>2, <2>3, FS_Product, Zenon
<1>2. IsFiniteSet(events)
  <2>1. event \in Surjection(Plans, events)
    BY DEF Surjection
  <2> HIDE DEF event, events
  <2> QED BY <2>1, Constants, FS_Surjection
<1>3. \A T \in events : IsFiniteSet(T)
  BY <1>1
<1>4. IsFiniteSet(UNION events)
  BY <1>2, <1>3, FS_UNION
<1>5. Cardinality(UNION events) \in Nat
  BY <1>4, FS_CardinalityType
<1> HIDE DEF events
<1>6. 1 + (Cardinality(UNION events) \div 2) \in Nat
  BY <1>5
<1> QED BY <1>6 DEF Now, events

LEMMA FinishKeeps ==
  ASSUME NEW c, NEW r, Finish(c, r)
  PROVE  /\ Ended(c) /\ running' \subseteq running /\ results' \subseteq results \union {r}
         /\ disciplined => r \in results'
BY DEF Finish, Ended

\* A command that leaves the session and the broker alone.
LEMMA Executed ==
  ASSUME BookInv, UNCHANGED <<session, outside>>, running' \subseteq running,
         caller' = [fill |-> caller'.fill, protection |-> caller'.protection, gross |-> caller'.gross],
         caller'.fill = caller.fill \/ Ours(caller'.fill),
         caller'.protection = caller.protection \/ Ours(caller'.protection),
         caller'.gross = caller.gross \/ OurPlan(caller'.gross.plan),
         \A r \in results' : r \in results \/ ResultOK(r)
  PROVE  BookInv'
<1>1. UNCHANGED session /\ UNCHANGED outside /\ Shapes /\ CallerInv
  BY DEF BookInv
<1>2. session' = [attempt |-> session'.attempt, basis |-> session'.basis, multiple |-> session'.multiple]
  BY <1>1 DEF Shapes
<1>3. Kept
  BY <1>1, OutsideKeeps
<1>4. Shapes' /\ ReportsInv' /\ OneTrade'
  BY <1>1, <1>2, <1>3, SameOutside
<1>5. SessionInv'
  BY <1>1, <1>3, <1>4, SessionStays
<1>6. CallerInv'
  <2>1. ASSUME NEW a, Ours(a) PROVE Ours(a)'
    BY <1>1, <1>3, <1>4, <2>1, OursStays
  <2>2. ASSUME NEW p, OurPlan(p) PROVE OurPlan(p)'
    BY <1>3, <2>2, OurPlanStays
  <2>3. PICK fill, protection, gross : fill = caller'.fill /\ protection = caller'.protection /\ gross = caller'.gross
    OBVIOUS
  <2>4. fill # None => Ours(fill)
    BY <1>1, <2>3 DEF CallerInv
  <2>5. protection # None => Ours(protection)
    BY <1>1, <2>3 DEF CallerInv
  <2>6. gross # None => OurPlan(gross.plan)
    BY <1>1, <2>3 DEF CallerInv
  <2>7. fill # None => Ours(fill)'
    BY <2>1, <2>4
  <2>8. protection # None => Ours(protection)'
    BY <2>1, <2>5
  <2>9. gross # None => OurPlan(gross.plan)'
    BY <2>2, <2>6
  <2> QED BY <2>3, <2>7, <2>8, <2>9, Zenon DEF CallerInv
<1>7. \A r \in results' : r \in results \/ ResultOK(r)'
  BY <1>1, <1>3, <1>4, ResultStays
<1>8. \A c \in running' : c \in running \/ CommandOK(c)'
  OBVIOUS
<1> QED BY <1>3, <1>4, <1>5, <1>6, <1>7, <1>8, Together

LEMMA Finished ==
  ASSUME BookInv, NEW c, NEW r, Finish(c, r), ResultOK(r), UNCHANGED <<session, caller, outside>>
  PROVE  BookInv'
<1>1. caller' = caller /\ caller = [fill |-> caller.fill, protection |-> caller.protection, gross |-> caller.gross]
  BY DEF BookInv, Shapes
<1>2. caller' = [fill |-> caller'.fill, protection |-> caller'.protection, gross |-> caller'.gross]
  BY <1>1
<1>3. running' \subseteq running /\ results' \subseteq results \union {r}
  BY FinishKeeps
<1>4. \A x \in results' : x \in results \/ ResultOK(x)
  BY <1>3
<1> QED BY <1>1, <1>2, <1>3, <1>4, Executed

LEMMA StagesKeep ==
  ASSUME BookInv, NEW c \in running, RunStage(c) \/ End(c)
  PROVE  BookInv'
<1>1. CASE End(c)
  <2>1. UNCHANGED <<session, outside>> /\ running' \subseteq running /\ results' = results /\ caller' = caller
    BY <1>1 DEF End, Ended
  <2>2. caller' = [fill |-> caller'.fill, protection |-> caller'.protection, gross |-> caller'.gross]
    BY <2>1 DEF BookInv, Shapes
  <2>3. \A r \in results' : r \in results \/ ResultOK(r)
    BY <2>1
  <2> QED BY <2>1, <2>2, <2>3, Executed
<1>2. CASE RunStage(c)
  <2>1. UNCHANGED <<session, caller, outside>>
    BY <1>2 DEF RunStage
  <2>2. CASE c.op \in DOMAIN Yields /\ Finish(c, [kind |-> Yields[c.op]])
    <3>1. Yields[c.op] \in {"INGESTED", "ANALYZED", "DECIDED"}
      BY <2>2 DEF Yields
    <3>2. ResultOK([kind |-> Yields[c.op]])
      BY <3>1 DEF ResultOK, ResultKinds
    <3> QED BY <2>1, <2>2, <3>2, Finished
  <2>3. ASSUME NEW p \in Plans, Finish(c, [kind |-> "PREPARED", plan |-> p]) PROVE BookInv'
    <3>1. ResultOK([kind |-> "PREPARED", plan |-> p])
      BY DEF ResultOK, ResultKinds
    <3> QED BY <2>1, <2>3, <3>1, Finished
  <2> QED BY <1>2, <2>2, <2>3 DEF RunStage
<1> QED BY <1>1, <1>2

LEMMA ProjectionsKeep ==
  ASSUME BookInv, NEW c \in running,
         CreateBasis(c) \/ Value(c) \/ Cost(c) \/ Gross(c) \/ Net(c) \/ Multiple(c)
  PROVE  BookInv'
<1>0. CommandOK(c)
  BY DEF BookInv
<1>1. ASSUME NEW r, Finish(c, r), UNCHANGED <<session, caller, outside>>, r.kind \in ResultKinds,
             \/ r.kind = "BASIS_RESULT" /\ OurPlan(r.plan)
             \/ r.kind \in {"VALUATION_RESULT", "COST_RESULT"} /\ OurPlan(r.position.plan)
             \/ r.kind = "NET_RESULT" /\ OurPlan(r.gross.plan)
             \/ r.kind = "MULTIPLE_RESULT" /\ OurPlan(r.gross.plan) /\ r.basis = r.gross.plan
      PROVE  BookInv'
  <2>1. ResultOK(r)
    BY <1>1 DEF ResultOK
  <2> QED BY <1>1, <2>1, Finished
<1>2. CASE CreateBasis(c)
  <2>1. OurPlan(c.attempt.plan)
    BY <1>0, <1>2 DEF CommandOK, CreateBasis, Ours, OurPlan
  <2> QED BY <1>1, <1>2, <2>1 DEF CreateBasis, ResultKinds
<1>3. CASE Value(c) \/ Cost(c)
  <2>1. OurPlan(Position(c.attempt).plan)
    BY <1>0, <1>3 DEF CommandOK, Value, Cost, Ours, OurPlan, Position
  <2>2. CASE Value(c)
    BY <1>1, <2>1, <2>2 DEF Value, ResultKinds
  <2>3. CASE Cost(c)
    BY <1>1, <2>1, <2>3 DEF Cost, ResultKinds
  <2> QED BY <1>3, <2>2, <2>3
<1>4. CASE Gross(c)
  <2>1. /\ UNCHANGED <<session, outside>> /\ running' \subseteq running /\ results' = results
        /\ caller' = [caller EXCEPT !.gross = c.position] /\ OurPlan(c.position.plan)
    BY <1>0, <1>4 DEF Gross, Ended, CommandOK
  <2>2. caller = [fill |-> caller.fill, protection |-> caller.protection, gross |-> caller.gross]
    BY DEF BookInv, Shapes
  <2>3. PICK fill, protection : fill = caller.fill /\ protection = caller.protection
    OBVIOUS
  <2>4. caller' = [fill |-> fill, protection |-> protection, gross |-> c.position]
    BY <2>1, <2>2, <2>3
  <2>5. caller'.fill = caller.fill /\ caller'.protection = caller.protection /\ caller'.gross = c.position
    BY <2>3, <2>4
  <2>6. caller' = [fill |-> caller'.fill, protection |-> caller'.protection, gross |-> caller'.gross]
    BY <2>3, <2>4, <2>5
  <2>7. \A r \in results' : r \in results \/ ResultOK(r)
    BY <2>1
  <2> QED BY <2>1, <2>5, <2>6, <2>7, Executed
<1>5. CASE Net(c)
  <2>1. OurPlan(c.gross.plan)
    BY <1>0, <1>5 DEF CommandOK, Net
  <2> QED BY <1>1, <1>5, <2>1 DEF Net, ResultKinds
<1>6. CASE Multiple(c)
  <2>1. OurPlan(c.net.gross.plan) /\ c.basis = c.net.gross.plan
    BY <1>0, <1>6 DEF CommandOK, Multiple
  <2> QED BY <1>1, <1>6, <2>1 DEF Multiple, ResultKinds
<1> QED BY <1>2, <1>3, <1>4, <1>5, <1>6

\* The attempt that an engine makes is given to the caller, who holds on to it.
LEMMA Engaged ==
  ASSUME BookInv, NEW c, NEW r, Finish(c, r), UNCHANGED <<session, outside>>, NEW a, Ours(a), r.attempt = a,
         r.kind \in {"INITIALIZATION_RESULT", "FILL_RESULT", "LIFECYCLE_RESULT", "EXIT_RESULT"},
         \/ UNCHANGED caller
         \/ caller' = [caller EXCEPT !.fill = a]
         \/ caller' = [caller EXCEPT !.protection = a]
  PROVE  BookInv'
<1>1. ResultOK(r)
  BY DEF ResultOK, ResultKinds
<1>2. running' \subseteq running /\ results' \subseteq results \union {r}
  BY FinishKeeps
<1>3. \A x \in results' : x \in results \/ ResultOK(x)
  BY <1>1, <1>2
<1>4. caller = [fill |-> caller.fill, protection |-> caller.protection, gross |-> caller.gross]
  BY DEF BookInv, Shapes
<1>5. PICK fill, protection, gross : fill = caller.fill /\ protection = caller.protection /\ gross = caller.gross
  OBVIOUS
<1>6. PICK x, y : caller' = [fill |-> x, protection |-> y, gross |-> gross] /\ x \in {fill, a} /\ y \in {protection, a}
  <2>1. CASE UNCHANGED caller
    BY <1>4, <1>5, <2>1
  <2>2. CASE caller' = [caller EXCEPT !.fill = a]
    <3>1. caller' = [fill |-> a, protection |-> protection, gross |-> gross]
      BY <1>4, <1>5, <2>2
    <3> QED BY <3>1
  <2>3. CASE caller' = [caller EXCEPT !.protection = a]
    <3>1. caller' = [fill |-> fill, protection |-> a, gross |-> gross]
      BY <1>4, <1>5, <2>3
    <3> QED BY <3>1
  <2> QED BY <2>1, <2>2, <2>3
<1>7. caller'.fill = x /\ caller'.protection = y /\ caller'.gross = gross
  BY <1>6
<1>8. caller' = [fill |-> caller'.fill, protection |-> caller'.protection, gross |-> caller'.gross]
  BY <1>6, <1>7
<1>9. /\ caller'.fill = caller.fill \/ Ours(caller'.fill)
      /\ caller'.protection = caller.protection \/ Ours(caller'.protection)
      /\ caller'.gross = caller.gross \/ OurPlan(caller'.gross.plan)
  BY <1>5, <1>6, <1>7, Zenon
<1> QED BY <1>2, <1>3, <1>8, <1>9, Executed
-----------------------------------------------------------------------------
(* The engines: the attempt they return is backed if the one they got was.     *)

LEMMA EnginesKeep ==
  ASSUME BookInv, NEW c \in running,
         Initialize(c) \/ ApplyFill(c) \/ Acknowledge(c) \/ ApplyExit(c)
  PROVE  BookInv'
<1>0. CommandOK(c) /\ Shapes /\ ReportsInv /\ OneTrade
  BY DEF BookInv
<1>1. CASE Initialize(c)
  <2> DEFINE s == c.submission
             b == EntryAcknowledged(s.attempt, [order |-> s.attempt.plan, at |-> s.at])
  <2>1. s.attempt.plan \in Plans /\ s.attempt = NewOrder(s.attempt.plan) /\ s.at \in Nat /\ OurPlan(s.attempt.plan)
    BY <1>0, <1>1 DEF Initialize, CommandOK, ResultOK
  <2>2. Backed(s.attempt)
    BY <1>0, <2>1, NewOrderBacked, Zenon
  <2>3. Ours(b)
    BY <2>1, <2>2, AcknowledgedBacked DEF Ours, OurPlan
  <2>4. Finish(c, [kind |-> "INITIALIZATION_RESULT", attempt |-> b]) /\ UNCHANGED <<session, caller, outside>>
    BY <1>1 DEF Initialize
  <2> HIDE DEF b
  <2> QED BY <2>3, <2>4, Engaged
<1>2. CASE ApplyFill(c)
  <2>1. Ours(c.attempt) /\ c.fill \in reports /\ c.fill.kind = "ENTRY_FILL"
    BY <1>0, <1>2 DEF ApplyFill, CommandOK
  <2>2. PICK r : /\ Finish(c, r) /\ caller' = [caller EXCEPT !.fill = r.attempt] /\ r.kind = "FILL_RESULT"
                 /\ \/ r.attempt = c.attempt
                    \/ CanFill(c.attempt, c.fill) /\ r.attempt = EntryFilled(c.attempt, c.fill)
    BY <1>2 DEF ApplyFill
  <2>3. Ours(r.attempt)
    BY <1>0, <2>1, <2>2, FilledBacked DEF Ours
  <2>4. UNCHANGED <<session, outside>>
    BY <1>2 DEF ApplyFill
  <2> QED BY <2>2, <2>3, <2>4, Engaged
<1>3. CASE Acknowledge(c)
  <2> DEFINE a == c.protection.attempt
             b == ProtectionAcknowledged(a, [target |-> a.protecting, at |-> c.protection.at])
  <2>1. Ours(a) /\ c.protection.status = "CONFIRMED" /\ Covered(c.protection)
    BY <1>0, <1>3 DEF Acknowledge, CommandOK
  <2>2. c.protection.at \in Nat /\ a.protecting =< broker[a.plan].covered /\ a.protecting # 0
    BY <1>3, <2>1 DEF Acknowledge, Covered, CanAcknowledgeProtection
  <2>3. Ours(b)
    BY <2>1, <2>2, ProtectedBacked DEF Ours
  <2>4. /\ Finish(c, [kind |-> "LIFECYCLE_RESULT", attempt |-> b])
        /\ caller' = [caller EXCEPT !.protection = b] /\ UNCHANGED <<session, outside>>
    BY <1>3 DEF Acknowledge
  <2> HIDE DEF b
  <2>5. PICK r : r = [kind |-> "LIFECYCLE_RESULT", attempt |-> b]
    OBVIOUS
  <2>6. r.kind = "LIFECYCLE_RESULT" /\ r.attempt = b /\ Finish(c, r)
    BY <2>4, <2>5
  <2> QED BY <2>3, <2>4, <2>6, Engaged
<1>4. CASE ApplyExit(c)
  <2>1. Ours(c.attempt) /\ c.fill \in reports /\ c.fill.kind = "EXIT_FILL"
    BY <1>0, <1>4 DEF ApplyExit, CommandOK
  <2>2. PICK a : /\ Finish(c, [kind |-> "EXIT_RESULT", attempt |-> a]) /\ caller' = [caller EXCEPT !.fill = a]
                 /\ \/ a = c.attempt
                    \/ CanExit(c.attempt, c.fill) /\ a = Exited(c.attempt, c.fill)
    BY <1>4 DEF ApplyExit
  <2>3. c.fill.order = c.attempt.plan
    BY <1>0, <2>1 DEF OneTrade, OurPlan, Ours
  <2>4. Ours(a)
    BY <1>0, <2>1, <2>2, <2>3, ExitedBacked DEF Ours
  <2>5. UNCHANGED <<session, outside>>
    BY <1>4 DEF ApplyExit
  <2>6. PICK r : r = [kind |-> "EXIT_RESULT", attempt |-> a]
    OBVIOUS
  <2>7. r.kind = "EXIT_RESULT" /\ r.attempt = a /\ Finish(c, r)
    BY <2>2, <2>6
  <2> QED BY <2>2, <2>4, <2>5, <2>7, Engaged
<1> QED BY <1>1, <1>2, <1>3, <1>4
-----------------------------------------------------------------------------
(* The calls of the broker.                                                    *)

\* What a call may leave behind, whatever the record and the broker answer.
Answered(c, p, k, accepted, kind, attempt) ==
  /\ Ended(c) /\ \A r, s \in results' : r \in results \/ s \in results \/ r = s
  /\ broker' = broker \/ broker' = [broker EXCEPT ![p] = accepted]
  /\ \/ record[p][k] # "NONE" /\ record' = record /\ broker' = broker
     \/ /\ record[p][k] = "NONE"
        /\ \E status \in {"CONFIRMED", "REJECTED", "SUBMITTED"} : record' = [record EXCEPT ![p][k] = status]
  /\ lost' \in {lost, TRUE}
  /\ disciplined /\ ~lost' => \E r \in results' : r.kind = kind
  /\ running' \subseteq running
  /\ \A r \in results' : r \in results \/
       (/\ r.kind = kind /\ r.attempt = attempt /\ r.at \in Nat \union {None}
        /\ r.status = "CONFIRMED" /\ r.at # None => broker' = [broker EXCEPT ![p] = accepted])

LEMMA CallSteps ==
  ASSUME Shapes, NEW c, NEW p \in Plans, NEW k \in 0..Quantity, NEW accepted, NEW kind, NEW attempt,
         Call(c, p, k, accepted, kind, attempt)
  PROVE  Answered(c, p, k, accepted, kind, attempt)
<1> USE DEF Answered
<1>0. Now \in Nat
  BY NowIsNat
<1>1. PICK now \in Nat : now = Now
  BY <1>0
<1> DEFINE Result(status, at) == [kind |-> kind, attempt |-> attempt, status |-> status, at |-> at]
           Remember(status) == record' = [record EXCEPT ![p][k] = status]
           Accept == broker' = [broker EXCEPT ![p] = accepted]
<1>2. CASE record[p][k] = "NONE" /\ Remember("CONFIRMED") /\ Accept /\ Finish(c, Result("CONFIRMED", Now)) /\ UNCHANGED lost
  <2>1. /\ Ended(c) /\ results' \subseteq results \union {Result("CONFIRMED", now)}
        /\ disciplined => Result("CONFIRMED", now) \in results'
    BY <1>1, <1>2, FinishKeeps
  <2> QED BY <1>2, <2>1 DEF Ended
<1>3. CASE record[p][k] = "NONE" /\ Remember("REJECTED") /\ Finish(c, Result("REJECTED", None)) /\ UNCHANGED <<broker, lost>>
  <2>1. /\ Ended(c) /\ results' \subseteq results \union {Result("REJECTED", None)}
        /\ disciplined => Result("REJECTED", None) \in results'
    BY <1>3, FinishKeeps
  <2> QED BY <1>3, <2>1 DEF Ended
<1>4. CASE record[p][k] = "NONE" /\ Remember("SUBMITTED") /\ (Accept \/ UNCHANGED broker) /\ Finish(c, Result("RECONCILE", None)) /\ UNCHANGED lost
  <2>1. /\ Ended(c) /\ results' \subseteq results \union {Result("RECONCILE", None)}
        /\ disciplined => Result("RECONCILE", None) \in results'
    BY <1>4, FinishKeeps
  <2> QED BY <1>4, <2>1 DEF Ended
<1>5. CASE record[p][k] = "NONE" /\ Remember("SUBMITTED") /\ Accept /\ Ended(c) /\ lost' = TRUE /\ UNCHANGED results
  BY <1>5 DEF Ended
<1>6. CASE /\ record[p][k] # "NONE" /\ UNCHANGED <<record, broker, lost>>
           /\ Finish(c, Result(IF record[p][k] = "SUBMITTED" THEN "RECONCILE" ELSE record[p][k], None))
  <2>1. PICK status : Finish(c, Result(status, None))
    BY <1>6
  <2>2. /\ Ended(c) /\ results' \subseteq results \union {Result(status, None)}
        /\ disciplined => Result(status, None) \in results'
    BY <2>1, FinishKeeps
  <2> QED BY <1>6, <2>2 DEF Ended
<1> HIDE DEF Remember, Accept, Result
<1>7. \/ record[p][k] = "NONE" /\ Remember("CONFIRMED") /\ Accept /\ Finish(c, Result("CONFIRMED", Now)) /\ UNCHANGED lost
      \/ record[p][k] = "NONE" /\ Remember("REJECTED") /\ Finish(c, Result("REJECTED", None)) /\ UNCHANGED <<broker, lost>>
      \/ record[p][k] = "NONE" /\ Remember("SUBMITTED") /\ (Accept \/ UNCHANGED broker) /\ Finish(c, Result("RECONCILE", None)) /\ UNCHANGED lost
      \/ record[p][k] = "NONE" /\ Remember("SUBMITTED") /\ Accept /\ Ended(c) /\ lost' = TRUE /\ UNCHANGED results
      \/ /\ record[p][k] # "NONE" /\ UNCHANGED <<record, broker, lost>>
         /\ Finish(c, Result(IF record[p][k] = "SUBMITTED" THEN "RECONCILE" ELSE record[p][k], None))
  BY DEF Call, Remember, Accept, Result
<1> QED BY <1>2, <1>3, <1>4, <1>5, <1>6, <1>7

\* A plan as the broker has it.
Side == [working : BOOLEAN, filled : 0..Quantity, covered : Nat, exited : 0..Quantity]

LEMMA Accepted ==
  ASSUME NEW b \in Side, NEW n \in Nat
  PROVE  /\ [b EXCEPT !.working = TRUE] \in Side
         /\ [b EXCEPT !.working = TRUE].filled = b.filled
         /\ [b EXCEPT !.working = TRUE].exited = b.exited
         /\ [b EXCEPT !.working = TRUE].covered = b.covered
         /\ [b EXCEPT !.covered = n] \in Side
         /\ [b EXCEPT !.covered = n].filled = b.filled
         /\ [b EXCEPT !.covered = n].exited = b.exited
         /\ [b EXCEPT !.covered = n].covered = n
<1>1. [b EXCEPT !.working = TRUE] \in Side
  BY DEF Side
<1>2. [b EXCEPT !.covered = n] \in Side
  BY DEF Side
<1> QED BY <1>1, <1>2 DEF Side

\* Of our trade or for its entry, a call changes nothing that was said.
LEMMA CallKeeps ==
  ASSUME BookInv, NEW p \in Plans, NEW k \in 0..Quantity, k = 0 \/ OurPlan(p),
         NEW accepted \in Side, accepted.filled = broker[p].filled, accepted.exited = broker[p].exited,
         broker[p].covered =< accepted.covered,
         broker' = broker \/ broker' = [broker EXCEPT ![p] = accepted],
         \/ record' = record
         \/ \E status \in {"CONFIRMED", "REJECTED", "SUBMITTED"} : record' = [record EXCEPT ![p][k] = status],
         lost' \in {lost, TRUE},
         UNCHANGED <<mode, disciplined, session, caller, reports>>
  PROVE  Shapes' /\ Kept /\ ReportsInv' /\ OneTrade' /\ SessionInv' /\ CallerInv'
<1>0. Shapes /\ ReportsInv /\ OneTrade
  BY DEF BookInv
<1>1. broker \in [Plans -> Side]
  BY <1>0 DEF Shapes, Side
<1>4. broker' \in [Plans -> Side]
  BY <1>1
<1>5. \A q \in Plans : /\ broker'[q].filled = broker[q].filled /\ broker'[q].exited = broker[q].exited
                       /\ broker[q].covered =< broker'[q].covered
  <2>1. \A q \in Plans : broker[q].covered \in Nat
    BY <1>1 DEF Side
  <2>2. CASE broker' = broker
    BY <2>1, <2>2
  <2>3. CASE broker' = [broker EXCEPT ![p] = accepted]
    <3>1. ASSUME NEW q \in Plans, q # p PROVE broker'[q] = broker[q]
      BY <1>1, <2>3, <3>1
    <3>2. broker'[p] = accepted
      BY <1>1, <2>3
    <3>3. ASSUME NEW q \in Plans
          PROVE  /\ broker'[q].filled = broker[q].filled /\ broker'[q].exited = broker[q].exited
                 /\ broker[q].covered =< broker'[q].covered
      <4>1. CASE q = p
        BY <3>2, <4>1
      <4>2. CASE q # p
        BY <2>1, <3>1, <4>2
      <4> QED BY <4>1, <4>2
    <3> QED BY <3>3
  <2> QED BY <2>2, <2>3
<1>6. record' \in [Plans -> [0..Quantity -> {"NONE", "SUBMITTED", "CONFIRMED", "REJECTED"}]]
  <2>1. record \in [Plans -> [0..Quantity -> {"NONE", "SUBMITTED", "CONFIRMED", "REJECTED"}]]
    BY <1>0 DEF Shapes
  <2>2. ASSUME NEW status \in {"CONFIRMED", "REJECTED", "SUBMITTED"}
        PROVE  [record EXCEPT ![p][k] = status] \in [Plans -> [0..Quantity -> {"NONE", "SUBMITTED", "CONFIRMED", "REJECTED"}]]
    BY <2>1
  <2> QED BY <2>1, <2>2, Zenon
<1>7. Shapes'
  BY <1>0, <1>4, <1>6 DEF Shapes, Side
<1>8. Kept
  BY <1>5 DEF Kept
<1>9. ReportsInv'
  <2>1. \A f \in reports : f.order \in Plans
    BY <1>0, ReportShape DEF ReportsInv
  <2>2. \A f \in reports' : Through(f) >= f.qty
                            /\ Through(f) =< IF f.kind = "ENTRY_FILL" THEN broker'[f.order].filled ELSE broker'[f.order].exited
    BY <1>0, <1>5, <2>1 DEF ReportsInv
  <2> QED BY <1>0, <2>2 DEF ReportsInv, Through, Span
<1>10. OneTrade'
  <2>1. ASSUME NEW q \in Plans, NEW n \in 1..Quantity, record'[q][n] # "NONE" PROVE OurPlan(q)
    <3>1. n # 0 /\ n \in 0..Quantity
      OBVIOUS
    <3>2. CASE q = p /\ n = k
      BY <3>1, <3>2
    <3>3. CASE ~(q = p /\ n = k)
      <4>0. record \in [Plans -> [0..Quantity -> {"NONE", "SUBMITTED", "CONFIRMED", "REJECTED"}]]
        BY <1>0 DEF Shapes
      <4>1. ASSUME NEW status PROVE [record EXCEPT ![p][k] = status][q][n] = record[q][n]
        BY <3>1, <3>3, <4>0
      <4>2. record'[q][n] = record[q][n]
        BY <4>1, Zenon
      <4> QED BY <1>0, <2>1, <4>2 DEF OneTrade
    <3> QED BY <3>2, <3>3
  <2> QED BY <1>0, <2>1 DEF OneTrade, OurPlan
<1>11. UNCHANGED session /\ UNCHANGED caller
  OBVIOUS
<1> QED BY <1>7, <1>8, <1>9, <1>10, <1>11, SessionStays, CallerStays

LEMMA SubmitKeeps ==
  ASSUME BookInv, NEW c \in running, Submit(c)
  PROVE  BookInv'
<1>0. Shapes /\ CommandOK(c)
  BY DEF BookInv
<1>1. PICK p \in Plans : p = c.plan
  BY <1>0 DEF Submit, CommandOK
<1>2. broker[p] \in Side
  BY <1>0 DEF Shapes, Side
<1> DEFINE accepted == [broker[p] EXCEPT !.working = TRUE]
<1>3. /\ accepted \in Side /\ accepted.filled = broker[p].filled /\ accepted.exited = broker[p].exited
      /\ accepted.covered = broker[p].covered
  BY <1>2, Accepted
<1>4. broker[p].covered =< accepted.covered /\ 0 \in 0..Quantity
  BY <1>2, <1>3, Constants DEF Side
<1>5. Call(c, p, 0, accepted, "SUBMISSION_RESULT", NewOrder(p)) /\ UNCHANGED <<mode, disciplined, session, caller, reports>>
  BY <1>1, Zenon DEF Submit
<1> HIDE DEF accepted
<1>6. Answered(c, p, 0, accepted, "SUBMISSION_RESULT", NewOrder(p))
  BY <1>0, <1>4, <1>5, CallSteps, Zenon
<1>7. /\ broker' = broker \/ broker' = [broker EXCEPT ![p] = accepted]
      /\ \/ record' = record
         \/ \E status \in {"CONFIRMED", "REJECTED", "SUBMITTED"} : record' = [record EXCEPT ![p][0] = status]
      /\ lost' \in {lost, TRUE}
      /\ running' \subseteq running
      /\ \A r \in results' : r \in results \/
           (r.kind = "SUBMISSION_RESULT" /\ r.attempt = NewOrder(p) /\ r.at \in Nat \union {None})
  BY <1>6 DEF Answered
<1>8. Shapes' /\ Kept /\ ReportsInv' /\ OneTrade' /\ SessionInv' /\ CallerInv'
  BY <1>3, <1>4, <1>5, <1>7, CallKeeps
<1>9. \A r \in results' : r \in results \/ ResultOK(r)'
  <2>1. NewOrder(p).plan = p
    BY <1>0, NewOrderBacked
  <2>2. ASSUME NEW r, r.kind = "SUBMISSION_RESULT", r.attempt = NewOrder(p), r.at \in Nat \union {None}
        PROVE  ResultOK(r)'
    <3>1. r.attempt.plan \in Plans /\ r.attempt = NewOrder(r.attempt.plan)
      BY <2>1, <2>2, Zenon
    <3> QED BY <2>2, <3>1 DEF ResultOK, ResultKinds
  <2> QED BY <1>7, <2>2
<1>10. \A x \in running' : x \in running \/ CommandOK(x)'
  BY <1>7
<1> QED BY <1>8, <1>9, <1>10, Together

LEMMA ProtectKeeps ==
  ASSUME BookInv, NEW c \in running, Protect(c)
  PROVE  BookInv'
<1>0. Shapes /\ ReportsInv /\ CommandOK(c)
  BY DEF BookInv
<1>1. PICK a : a = c.fill.attempt
  OBVIOUS
<1>2. Ours(a) /\ Backed(a)
  BY <1>0, <1>1 DEF Protect, CommandOK, Ours
<1> DEFINE Kept1 == UNCHANGED <<mode, disciplined, session, caller, reports>>
           Answer(attempt, status) ==
             Finish(c, [kind |-> "PROTECTION_RESULT", attempt |-> attempt, status |-> status, at |-> None])
           covered == [broker[a.plan] EXCEPT !.covered = @ + Increment(Pending(a))]
<1>3. ASSUME NEW b, Ours(b), NEW status, Answer(b, status), UNCHANGED <<broker, record, lost>>
      PROVE  BookInv'
  <2>1. PICK r : r = [kind |-> "PROTECTION_RESULT", attempt |-> b, status |-> status, at |-> None]
    OBVIOUS
  <2>2. r.kind = "PROTECTION_RESULT" /\ r.attempt = b /\ r.at = None /\ Finish(c, r)
    BY <1>3, <2>1
  <2>3. ResultOK(r)
    BY <1>3, <2>2 DEF ResultOK, ResultKinds, Covered
  <2>4. UNCHANGED <<session, caller, outside>>
    BY <1>3 DEF Protect, outside
  <2> QED BY <2>2, <2>3, <2>4, Finished
<1>4. CASE Answer(a, "NO_ACTION") /\ UNCHANGED <<broker, record, lost>>
  BY <1>2, <1>3, <1>4
<1>5. ASSUME a.protecting # 0 \/ CanRequestProtection(a)
      PROVE  Ours(Pending(a)) /\ Pending(a).plan = a.plan /\ Pending(a).protecting \in Nat \ {0}
  BY <1>2, <1>5, RequestedBacked DEF Ours
<1>6. CASE (a.protecting # 0 \/ CanRequestProtection(a)) /\ Answer(Pending(a), "BLOCKED") /\ UNCHANGED <<broker, record, lost>>
  BY <1>3, <1>5, <1>6
<1>7. CASE /\ a.protecting # 0 \/ CanRequestProtection(a)
           /\ Call(c, a.plan, Pending(a).protecting, covered, "PROTECTION_RESULT", Pending(a))
  <2>1. PICK b : b = Pending(a)
    OBVIOUS
  <2>2. Ours(b) /\ Backed(b) /\ b.plan = a.plan /\ b.protecting \in Nat \ {0}
    BY <1>5, <1>7, <2>1 DEF Ours
  <2>3. PICK p \in Plans : p = a.plan
    BY <1>2, AttemptShape DEF Backed
  <2>4. broker[p] \in Side
    BY <1>0 DEF Shapes, Side
  <2>5. /\ b.protected \in Nat /\ b.protected =< b.protecting /\ b.protected =< broker[p].covered
        /\ b.protecting =< Quantity
    <3>1. b.protecting =< b.filled /\ b.filled =< Quantity /\ b.filled \in Nat /\ b.protected \in Nat
      BY <1>0, <2>2, BackedWithin, AttemptShape DEF Backed
    <3> QED BY <2>2, <2>3, <3>1, Constants DEF Backed
  <2>6. PICK n \in Nat : n = broker[p].covered + (b.protecting - b.protected)
    BY <2>2, <2>4, <2>5 DEF Side
  <2>7. broker[p].covered =< n /\ b.protecting =< n
    BY <2>2, <2>4, <2>5, <2>6 DEF Side
  <2>8. PICK accepted : accepted = [broker[p] EXCEPT !.covered = n]
    OBVIOUS
  <2>9. covered = accepted
    BY <2>1, <2>3, <2>4, <2>6, <2>8 DEF Increment, Side
  <2>10. /\ accepted \in Side /\ accepted.filled = broker[p].filled /\ accepted.exited = broker[p].exited
         /\ accepted.covered = n
    BY <2>4, <2>8, Accepted
  <2>11. PICK k \in 0..Quantity : k = b.protecting
    BY <2>2, <2>5, Constants
  <2> HIDE DEF covered
  <2>12. Call(c, p, k, accepted, "PROTECTION_RESULT", b)
    BY <1>7, <2>1, <2>3, <2>9, <2>11, Zenon
  <2>13. Answered(c, p, k, accepted, "PROTECTION_RESULT", b)
    BY <1>0, <2>12, CallSteps, Zenon
  <2>14. /\ broker' = broker \/ broker' = [broker EXCEPT ![p] = accepted]
         /\ \/ record' = record
            \/ \E status \in {"CONFIRMED", "REJECTED", "SUBMITTED"} : record' = [record EXCEPT ![p][k] = status]
         /\ lost' \in {lost, TRUE}
         /\ running' \subseteq running
         /\ \A r \in results' : r \in results \/
              (/\ r.kind = "PROTECTION_RESULT" /\ r.attempt = b /\ r.at \in Nat \union {None}
               /\ r.status = "CONFIRMED" /\ r.at # None => broker' = [broker EXCEPT ![p] = accepted])
    BY <2>13 DEF Answered
  <2>15. OurPlan(p) /\ broker[p].covered =< accepted.covered /\ UNCHANGED <<mode, disciplined, session, caller, reports>>
    BY <1>2, <2>3, <2>7, <2>10 DEF OurPlan, Ours, Protect
  <2>16. Shapes' /\ Kept /\ ReportsInv' /\ OneTrade' /\ SessionInv' /\ CallerInv'
    BY <2>10, <2>14, <2>15, CallKeeps
  <2>17. \A r \in results' : r \in results \/ ResultOK(r)'
    <3>1. Ours(b)'
      BY <1>0, <2>2, <2>16, OursStays
    <3>2. broker' = [broker EXCEPT ![p] = accepted] => b.protecting =< broker'[b.plan].covered
      BY <1>0, <2>2, <2>3, <2>7, <2>10 DEF Shapes
    <3>3. ASSUME NEW r, r.kind = "PROTECTION_RESULT", r.attempt = b, r.at \in Nat \union {None},
                 r.status = "CONFIRMED" /\ r.at # None => broker' = [broker EXCEPT ![p] = accepted]
          PROVE  ResultOK(r)'
      <4>1. Covered(r)'
        BY <3>2, <3>3 DEF Covered
      <4> QED BY <3>1, <3>3, <4>1 DEF ResultOK, ResultKinds
    <3> QED BY <2>14, <3>3
  <2>18. \A x \in running' : x \in running \/ CommandOK(x)'
    BY <2>14
  <2> QED BY <2>16, <2>17, <2>18, Together
<1> HIDE DEF Answer, covered
<1>8. \/ Answer(a, "NO_ACTION") /\ UNCHANGED <<broker, record, lost>>
      \/ (a.protecting # 0 \/ CanRequestProtection(a)) /\ Answer(Pending(a), "BLOCKED") /\ UNCHANGED <<broker, record, lost>>
      \/ /\ a.protecting # 0 \/ CanRequestProtection(a)
         /\ Call(c, a.plan, Pending(a).protecting, covered, "PROTECTION_RESULT", Pending(a))
  BY <1>1, Zenon DEF Protect, Answer, covered
<1> QED BY <1>4, <1>6, <1>7, <1>8

LEMMA ExecuteKeeps ==
  ASSUME BookInv, NEW c \in running, Execute(c)
  PROVE  BookInv'
BY StagesKeep, ProjectionsKeep, EnginesKeep, SubmitKeeps, ProtectKeeps DEF Execute
-----------------------------------------------------------------------------
(* The broker.                                                                 *)

\* The broker acts on one plan and reports it; nothing else changes.
LEMMA BrokerSteps ==
  ASSUME BookInv, NEW p \in Plans, NEW side \in Side, broker' = [broker EXCEPT ![p] = side],
         side.covered = broker[p].covered, side.filled >= broker[p].filled, side.exited >= broker[p].exited,
         NEW f \in Entries \union Exits, f.order = p, reports' = reports \union {f},
         Through(f) >= f.qty, Through(f) =< IF f.kind = "ENTRY_FILL" THEN side.filled ELSE side.exited,
         (IF f.kind = "ENTRY_FILL" THEN broker[p].filled ELSE broker[p].exited) =< Through(f) - f.qty,
         f.kind = "EXIT_FILL" => OurPlan(p),
         UNCHANGED <<mode, disciplined, session, running, results, caller, record, lost>>
  PROVE  BookInv'
<1>0. Shapes /\ ReportsInv /\ OneTrade
  BY DEF BookInv
<1>1. broker \in [Plans -> Side]
  BY <1>0 DEF Shapes, Side
<1>2. broker' \in [Plans -> Side]
  BY <1>1
<1>3. Shapes'
  BY <1>0, <1>2 DEF Shapes, Side
<1>4. \A q \in Plans : /\ broker'[q].filled >= broker[q].filled /\ broker'[q].exited >= broker[q].exited
                       /\ broker'[q].covered = broker[q].covered
                       /\ broker[q].filled \in Nat /\ broker[q].exited \in Nat /\ broker[q].covered \in Nat
                       /\ broker'[q].filled \in Nat /\ broker'[q].exited \in Nat
  <2>1. \A q \in Plans : broker[q].covered \in Nat /\ broker[q].filled \in Nat /\ broker[q].exited \in Nat
    BY <1>1, Constants DEF Side
  <2>2. \A q \in Plans : broker'[q].filled \in Nat /\ broker'[q].exited \in Nat
    BY <1>2, Constants DEF Side
  <2>3. ASSUME NEW q \in Plans, q # p PROVE broker'[q] = broker[q]
    BY <1>1, <2>3
  <2>4. broker'[p] = side
    BY <1>1
  <2>5. ASSUME NEW q \in Plans
        PROVE  /\ broker'[q].filled >= broker[q].filled /\ broker'[q].exited >= broker[q].exited
               /\ broker'[q].covered = broker[q].covered
    <3>1. CASE q = p
      BY <2>4, <3>1
    <3>2. CASE q # p
      BY <2>1, <2>3, <3>2
    <3> QED BY <3>1, <3>2
  <2> QED BY <2>1, <2>2, <2>5
<1>5. Kept
  BY <1>4 DEF Kept
<1>6. f.qty \in Nat \ {0} /\ Through(f) \in Int /\ f.kind \in {"ENTRY_FILL", "EXIT_FILL"}
  BY ReportShape
<1>7. ASSUME NEW g \in reports
      PROVE  /\ g \in Entries \union Exits /\ g.order \in Plans /\ Through(g) \in Int
             /\ g.kind \in {"ENTRY_FILL", "EXIT_FILL"} /\ Through(g) >= g.qty
             /\ Through(g) =< IF g.kind = "ENTRY_FILL" THEN broker[g.order].filled ELSE broker[g.order].exited
  BY <1>0, ReportShape DEF ReportsInv
<1>8. ASSUME NEW g \in reports, g.kind = f.kind, g.order = f.order PROVE Span(g) \intersect Span(f) = {}
  <2>1. Through(g) =< Through(f) - f.qty
    BY <1>4, <1>6, <1>7, <1>8
  <2>2. ASSUME NEW u \in Span(g), u \in Span(f) PROVE FALSE
    BY <1>6, <1>7, <2>1, <2>2 DEF Span
  <2> QED BY <2>2
<1>9. ReportsInv'
  <2>1. reports' \subseteq Entries \union Exits
    BY <1>0 DEF ReportsInv
  <2>2. ASSUME NEW g \in reports'
        PROVE  /\ Through(g) >= g.qty
               /\ Through(g) =< IF g.kind = "ENTRY_FILL" THEN broker'[g.order].filled ELSE broker'[g.order].exited
    <3>1. CASE g \in reports
      BY <1>4, <1>7, <3>1
    <3>2. CASE g = f
      BY <1>1, <3>2
    <3> QED BY <3>1, <3>2
  <2>3. ASSUME NEW g \in reports', NEW h \in reports', g.kind = h.kind /\ g.order = h.order /\ g.id # h.id
        PROVE  Span(g) \intersect Span(h) = {}
    <3>1. CASE g \in reports /\ h \in reports
      BY <1>0, <2>3, <3>1 DEF ReportsInv
    <3>2. CASE g \in reports /\ h = f
      BY <1>8, <2>3, <3>2
    <3>3. CASE g = f /\ h \in reports
      BY <1>8, <2>3, <3>3
    <3> QED BY <2>3, <3>1, <3>2, <3>3
  <2> QED BY <2>1, <2>2, <2>3 DEF ReportsInv, Through, Span
<1>10. OneTrade'
  BY <1>0 DEF OneTrade, OurPlan
<1>11. UNCHANGED session /\ UNCHANGED caller /\ UNCHANGED results /\ UNCHANGED running
  OBVIOUS
<1>12. SessionInv' /\ CallerInv'
  BY <1>3, <1>5, <1>11, SessionStays, CallerStays
<1> QED BY <1>3, <1>5, <1>9, <1>10, <1>11, <1>12, Together

LEMMA Moved ==
  ASSUME NEW b \in Side, NEW n \in 0..Quantity
  PROVE  /\ [b EXCEPT !.filled = n] \in Side /\ [b EXCEPT !.filled = n].covered = b.covered
         /\ [b EXCEPT !.filled = n].filled = n /\ [b EXCEPT !.filled = n].exited = b.exited
         /\ [b EXCEPT !.exited = n] \in Side /\ [b EXCEPT !.exited = n].covered = b.covered
         /\ [b EXCEPT !.exited = n].exited = n /\ [b EXCEPT !.exited = n].filled = b.filled
<1>1. [b EXCEPT !.filled = n] \in Side
  BY DEF Side
<1>2. [b EXCEPT !.exited = n] \in Side
  BY DEF Side
<1> QED BY <1>1, <1>2 DEF Side

LEMMA BrokerFillKeeps ==
  ASSUME BookInv, NEW p \in Plans, NEW q \in 1..Quantity, BrokerFill(p, q)
  PROVE  BookInv'
<1>0. Shapes
  BY DEF BookInv
<1>1. broker \in [Plans -> Side] /\ disciplined \in BOOLEAN
  BY <1>0 DEF Shapes, Side
<1>2. PICK b \in Side : b = broker[p]
  BY <1>1
<1>3. b.filled \in Nat /\ b.exited \in Nat /\ Quantity \in Nat
  BY <1>2, Constants DEF Side
<1>4. MaxFilled[disciplined] \in 0..Quantity
  BY <1>1, SessionAssumption, Zenon
<1>5. PICK n : n = b.filled + q
  OBVIOUS
<1>6. n \in 0..Quantity /\ n > b.filled /\ n - q = b.filled /\ n >= q
  BY <1>2, <1>3, <1>4, <1>5 DEF BrokerFill
<1>7. PICK now \in Nat : now = Now
  BY <1>0, NowIsNat
<1>8. PICK f : f = [kind |-> "ENTRY_FILL", id |-> n, order |-> p, qty |-> q, at |-> now]
  OBVIOUS
<1>9. f \in Entries
  BY <1>6, <1>7, <1>8 DEF Entries
<1>10. f.kind = "ENTRY_FILL" /\ f.order = p /\ f.qty = q /\ Through(f) = n
  BY <1>8 DEF Through
<1>11. PICK side : side = [b EXCEPT !.filled = n]
  OBVIOUS
<1>12. side \in Side /\ side.covered = b.covered /\ side.filled = n /\ side.exited = b.exited
  BY <1>6, <1>11, Moved
<1>13. broker' = [broker EXCEPT ![p] = side]
  BY <1>1, <1>2, <1>5, <1>11 DEF BrokerFill
<1>14. reports' = reports \union {f}
  BY <1>2, <1>5, <1>7, <1>8 DEF BrokerFill
<1>15. UNCHANGED <<mode, disciplined, session, running, results, caller, record, lost>>
  BY DEF BrokerFill
<1>16. /\ side.covered = broker[p].covered /\ side.filled >= broker[p].filled /\ side.exited >= broker[p].exited
       /\ f \in Entries \union Exits
       /\ Through(f) >= f.qty /\ Through(f) =< IF f.kind = "ENTRY_FILL" THEN side.filled ELSE side.exited
       /\ (IF f.kind = "ENTRY_FILL" THEN broker[p].filled ELSE broker[p].exited) =< Through(f) - f.qty
       /\ f.kind = "EXIT_FILL" => OurPlan(p)
  BY <1>2, <1>3, <1>6, <1>9, <1>10, <1>12
<1> QED BY <1>10, <1>12, <1>13, <1>14, <1>15, <1>16, BrokerSteps

LEMMA BrokerExitKeeps ==
  ASSUME BookInv, NEW p \in Plans, NEW q \in 1..Quantity, BrokerExit(p, q)
  PROVE  BookInv'
<1>0. Shapes /\ OneTrade
  BY DEF BookInv
<1>1. broker \in [Plans -> Side]
  BY <1>0 DEF Shapes, Side
<1>2. PICK b \in Side : b = broker[p]
  BY <1>1
<1>3. b.filled \in 0..Quantity /\ b.exited \in Nat /\ Quantity \in Nat
  BY <1>2, Constants DEF Side
<1>4. PICK target \in {k \in 1..Quantity : record[p][k] = "CONFIRMED"} :
        /\ broker[p].exited + q =< target
        /\ reports' = reports \union
             {[kind |-> "EXIT_FILL", id |-> Quantity + broker[p].exited + q, target |-> target,
               order |-> p, qty |-> q, at |-> Now]}
  BY DEF BrokerExit
<1>5. PICK n : n = b.exited + q
  OBVIOUS
<1>6. n \in 0..Quantity /\ n > b.exited /\ n - q = b.exited /\ n >= q
  BY <1>2, <1>3, <1>5 DEF BrokerExit
<1>7. PICK now \in Nat : now = Now
  BY <1>0, NowIsNat
<1>8. PICK id \in Nat : id = Quantity + n
  BY <1>3, <1>6
<1>9. PICK f : f = [kind |-> "EXIT_FILL", id |-> id, target |-> target, order |-> p, qty |-> q, at |-> now]
  OBVIOUS
<1>10. f \in Exits
  BY <1>7, <1>8, <1>9 DEF Exits
<1>11. f.kind = "EXIT_FILL" /\ f.order = p /\ f.qty = q /\ Through(f) = n
  BY <1>3, <1>6, <1>8, <1>9 DEF Through
<1>12. PICK side : side = [b EXCEPT !.exited = n]
  OBVIOUS
<1>13. side \in Side /\ side.covered = b.covered /\ side.exited = n /\ side.filled = b.filled
  BY <1>6, <1>12, Moved
<1>14. broker' = [broker EXCEPT ![p] = side]
  BY <1>1, <1>2, <1>5, <1>12 DEF BrokerExit
<1>15. Quantity + broker[p].exited + q = id
  BY <1>2, <1>3, <1>5, <1>8
<1>16. reports' = reports \union {f}
  BY <1>4, <1>7, <1>9, <1>15, Zenon
<1>17. UNCHANGED <<mode, disciplined, session, running, results, caller, record, lost>>
  BY DEF BrokerExit
<1>18. OurPlan(p)
  BY <1>0 DEF OneTrade
<1>19. /\ side.covered = broker[p].covered /\ side.filled >= broker[p].filled /\ side.exited >= broker[p].exited
       /\ f \in Entries \union Exits
       /\ Through(f) >= f.qty /\ Through(f) =< IF f.kind = "ENTRY_FILL" THEN side.filled ELSE side.exited
       /\ (IF f.kind = "ENTRY_FILL" THEN broker[p].filled ELSE broker[p].exited) =< Through(f) - f.qty
       /\ f.kind = "EXIT_FILL" => OurPlan(p)
  BY <1>2, <1>3, <1>6, <1>10, <1>11, <1>13, <1>18
<1> QED BY <1>11, <1>13, <1>14, <1>16, <1>17, <1>19, BrokerSteps
-----------------------------------------------------------------------------
(* The beginning, and the theorems.                                            *)

LEMMA InitIsBooked == ASSUME Init PROVE BookInv
<1>1. PICK p \in Plans \union {None} :
       /\ session = [attempt |-> IF p = None THEN None
                                 ELSE EntryAcknowledged(NewOrder(p), EntryAccepted(p)),
                     basis |-> None, multiple |-> None]
       /\ broker = [q \in Plans |-> [working |-> q = p, filled |-> 0, covered |-> 0, exited |-> 0]]
       /\ record = [q \in Plans |-> [k \in 0..Quantity |-> IF q = p /\ k = 0 THEN "CONFIRMED" ELSE "NONE"]]
  BY DEF Init
<1>2. PICK attempt : attempt = IF p = None THEN None ELSE EntryAcknowledged(NewOrder(p), EntryAccepted(p))
  OBVIOUS
<1>3. session = [attempt |-> attempt, basis |-> None, multiple |-> None]
  BY <1>1, <1>2
<1>4. session.attempt = attempt /\ session.basis = None /\ session.multiple = None
  BY <1>3
<1>5. running = {} /\ results = {} /\ reports = {} /\ lost = FALSE
      /\ caller = [fill |-> None, protection |-> None, gross |-> None]
      /\ mode \in {"DRY_RUN", "SANDBOX"} /\ disciplined \in Callers
  BY DEF Init
<1>6. Shapes
  <2>1. ASSUME NEW q \in Plans PROVE broker[q] \in Side
    <3>1. PICK working \in BOOLEAN : working = (q = p)
      OBVIOUS
    <3>2. [working |-> working, filled |-> 0, covered |-> 0, exited |-> 0] \in Side
      BY Constants DEF Side
    <3>3. broker[q] = [working |-> working, filled |-> 0, covered |-> 0, exited |-> 0]
      BY <1>1, <3>1, Zenon
    <3> QED BY <3>2, <3>3, Zenon
  <2>2. broker \in [Plans -> Side]
    <3>1. broker = [q \in Plans |-> broker[q]]
      BY <1>1, Zenon
    <3> QED BY <2>1, <3>1
  <2>3. record \in [Plans -> [0..Quantity -> {"NONE", "SUBMITTED", "CONFIRMED", "REJECTED"}]]
    BY <1>1
  <2>4. session = [attempt |-> session.attempt, basis |-> session.basis, multiple |-> session.multiple]
    BY <1>3, <1>4
  <2>5. caller = [fill |-> caller.fill, protection |-> caller.protection, gross |-> caller.gross]
    BY <1>5
  <2>6. disciplined \in BOOLEAN
    BY <1>5, SessionAssumption
  <2> QED BY <1>5, <2>2, <2>3, <2>4, <2>5, <2>6 DEF Shapes, Side
<1>7. attempt # None => Backed(attempt)
  <2>1. CASE p = None
    BY <1>2, <2>1
  <2>2. CASE p \in Plans
    <3>1. Backed(NewOrder(p)) /\ NewOrder(p).plan = p
      BY <1>6, <2>2, NewOrderBacked
    <3>2. EntryAcknowledged(NewOrder(p), EntryAccepted(p)) =
            EntryAcknowledged(NewOrder(p), [order |-> NewOrder(p).plan, at |-> 1])
      BY <3>1 DEF EntryAcknowledged, EntryAccepted
    <3>3. Backed(EntryAcknowledged(NewOrder(p), EntryAccepted(p)))
      BY <3>1, <3>2, AcknowledgedBacked
    <3>4. attempt = EntryAcknowledged(NewOrder(p), EntryAccepted(p))
      BY <1>2, <2>2, Constants
    <3> QED BY <3>3, <3>4, Zenon
  <2> QED BY <2>1, <2>2
<1>8. ReportsInv
  BY <1>5 DEF ReportsInv
<1>9. OneTrade
  <2>1. \A q \in Plans, k \in 1..Quantity : record[q][k] = "NONE"
    BY <1>1
  <2> QED BY <1>5, <2>1 DEF OneTrade
<1>10. SessionInv
  BY <1>4, <1>7 DEF SessionInv
<1>11. CallerInv
  BY <1>5 DEF CallerInv
<1> QED BY <1>5, <1>6, <1>8, <1>9, <1>10, <1>11 DEF BookInv

LEMMA BookStutters == ASSUME BookInv, UNCHANGED vars PROVE BookInv'
<1>1. UNCHANGED <<session, caller, outside>> /\ results' \subseteq results /\ running' = running
  BY DEF vars, outside
<1> QED BY <1>1, FedSame

LEMMA BookStep == ASSUME BookInv, [Next]_vars PROVE BookInv'
<1>1. CASE UNCHANGED vars
  BY <1>1, BookStutters
<1>2. CASE Next
  <2>1. ASSUME NEW r \in results, Feed(r) PROVE BookInv'
    BY <2>1, FeedKeeps
  <2>2. ASSUME NEW c \in running, Execute(c) PROVE BookInv'
    BY <2>2, ExecuteKeeps
  <2>3. ASSUME NEW p \in Plans, NEW q \in 1..Quantity, BrokerFill(p, q) \/ BrokerExit(p, q) PROVE BookInv'
    BY <2>3, BrokerFillKeeps, BrokerExitKeeps
  <2>4. CASE \/ ObserveTrade
             \/ \E f \in reports, a \in Held : ObserveFill(f, a) \/ ObserveExit(f, a)
             \/ \E op \in {"VALUE", "COST"} : RequestProjection(op)
    BY <2>4, ObservationsKeep
  <2> QED BY <1>2, <2>1, <2>2, <2>3, <2>4 DEF Next
<1> QED BY <1>1, <1>2

\* Attempts, results, commands and what the caller holds on to are all backed by
\* the broker, whatever was dispatched how often and in whatever order.
THEOREM BookInvariant == Spec => []BookInv
<1>1. Init => BookInv
  BY InitIsBooked
<1>2. BookInv /\ [Next]_vars => BookInv'
  BY BookStep
<1> QED BY <1>1, <1>2, PTL DEF Spec

\* However results are repeated, dropped or reordered, the session counts no fill,
\* protection or exit that the broker does not have.
THEOREM BooksStayWithinBroker == Spec => []BooksWithinBroker
<1>1. BookInv => BooksWithinBroker
  <2> SUFFICES ASSUME BookInv, session.attempt # None
               PROVE  LET a == session.attempt  b == broker[session.attempt.plan]
                      IN  a.filled =< b.filled /\ a.protected =< b.covered /\ a.exited =< b.exited
    BY DEF BooksWithinBroker
  <2>1. Shapes /\ ReportsInv /\ Backed(session.attempt)
    BY DEF BookInv, SessionInv
  <2> QED BY <2>1, BackedWithin
<1> QED BY <1>1, BookInvariant, PTL
-----------------------------------------------------------------------------
(* A disciplined caller: one command or one result at a time, and each brings  *)
(* the session's attempt on.                                                   *)

Operations == {"INGEST", "ANALYZE", "DECIDE", "PREPARE", "SUBMIT", "INITIALIZE", "FILL", "PROTECT", "ACKNOWLEDGE",
               "EXIT", "CREATE_BASIS", "VALUE", "COST", "GROSS", "NET", "MULTIPLE"}

\* The results of an attempt that the session knows of.
Carriers == {"INITIALIZATION_RESULT", "FILL_RESULT", "PROTECTION_RESULT", "LIFECYCLE_RESULT", "EXIT_RESULT"}

\* b forgets nothing of a.
Grown(a, b) == b.filled >= a.filled /\ b.protected >= a.protected /\ b.exited >= a.exited

\* A command works on the attempt that the session has.
OnCurrent(c) ==
  /\ c.op = "SUBMIT" => session.attempt = None
  /\ c.op = "INITIALIZE" => c.submission.attempt = session.attempt
  /\ c.op \in {"FILL", "EXIT", "CREATE_BASIS"} => c.attempt = session.attempt
  /\ c.op = "PROTECT" => c.fill.attempt = session.attempt
  /\ c.op = "ACKNOWLEDGE" => c.protection.attempt = session.attempt

GoesOn(r) ==
  /\ r.kind = "SUBMISSION_RESULT" => session.attempt = None
  /\ r.kind \in Carriers => Grown(session.attempt, r.attempt)

FlightInv ==
  /\ \A c \in running : c.op \in Operations
  /\ \A c, d \in running : c = d
  /\ disciplined =>
       /\ running = {} \/ results = {}
       /\ \A r, s \in results : r = s
       /\ \A c \in running : OnCurrent(c)
       /\ \A r \in results : GoesOn(r)

\* The broker covers what the attempt has protected, or what its pending request
\* asked for; no other request was made that is not protected yet.
Exact(a) ==
  /\ \A k \in 1..Quantity : record[a.plan][k] # "NONE" => k =< a.protected \/ k = a.protecting
  /\ broker[a.plan].covered \in {a.protected, a.protecting}
  /\ a.protecting = 0 \/ record[a.plan][a.protecting] = "NONE" => broker[a.plan].covered = a.protected

ExactInv ==
  /\ \A p \in Plans : broker[p].covered # 0 => OurPlan(p)
  /\ disciplined /\ ~lost =>
       /\ (\A r \in results : r.kind \notin Carriers) /\ session.attempt # None => Exact(session.attempt)
       /\ \A r \in results : r.kind \in Carriers => Exact(r.attempt)

\* What the engines make of the quantities of an attempt.
LEMMA AcknowledgedCounts ==
  ASSUME NEW a \in Attempts, NEW e
  PROVE  LET b == EntryAcknowledged(a, e)
         IN  b.plan = a.plan /\ b.filled = a.filled /\ b.protected = a.protected /\ b.exited = a.exited /\ b.protecting = a.protecting
BY DEF EntryAcknowledged, Attempts

LEMMA FilledCounts ==
  ASSUME NEW a \in Attempts, NEW f
  PROVE  LET b == EntryFilled(a, f)
         IN  b.plan = a.plan /\ b.filled = a.filled + f.qty /\ b.protected = a.protected /\ b.exited = a.exited /\ b.protecting = a.protecting
BY DEF EntryFilled, Attempts

LEMMA ExitedCounts ==
  ASSUME NEW a \in Attempts, NEW f
  PROVE  LET b == Exited(a, f)
         IN  b.plan = a.plan /\ b.filled = a.filled /\ b.protected = a.protected /\ b.exited = a.exited + f.qty /\ b.protecting = a.protecting
BY DEF Exited, Attempts

LEMMA RequestedCounts ==
  ASSUME NEW a \in Attempts
  PROVE  LET b == ProtectionRequested(a)
         IN  b.plan = a.plan /\ b.filled = a.filled /\ b.protected = a.protected /\ b.exited = a.exited /\ b.protecting = a.filled
BY DEF ProtectionRequested, Attempts

LEMMA ProtectedCounts ==
  ASSUME NEW a \in Attempts, NEW e
  PROVE  LET b == ProtectionAcknowledged(a, e)
         IN  b.plan = a.plan /\ b.filled = a.filled /\ b.protected = e.target /\ b.exited = a.exited /\ b.protecting = 0
BY DEF ProtectionAcknowledged, Attempts

LEMMA AdoptedIs == ASSUME Shapes, NEW a PROVE Adopted(a).attempt = a
<1>1. session = [attempt |-> session.attempt, basis |-> session.basis, multiple |-> session.multiple]
  BY DEF Shapes
<1>2. PICK x, y, z : session = [attempt |-> x, basis |-> y, multiple |-> z]
  BY <1>1
<1> QED BY <1>2 DEF Adopted

\* What is fed is used up, and at most one command takes its place.
LEMMA FlightFed ==
  ASSUME FlightInv, Idle, NEW r \in results, Used(r), disciplined' = disciplined, NEW command,
         \/ running' = running
         \/ /\ running' = running \union {command} /\ command.op \in Operations
            /\ disciplined => OnCurrent(command)'
  PROVE  FlightInv'
<1>1. running' = {} \/ (running' = {command} /\ command.op \in Operations /\ (disciplined => OnCurrent(command)'))
  BY DEF Idle
<1>2. disciplined => results' = {}
  BY DEF FlightInv, Used
<1>3. \A c \in running' : c.op \in Operations
  BY <1>1
<1>4. \A c, d \in running' : c = d
  BY <1>1
<1>5. disciplined => \A c \in running' : OnCurrent(c)'
  BY <1>1
<1> QED BY <1>2, <1>3, <1>4, <1>5 DEF FlightInv

LEMMA FlightNoAction ==
  ASSUME FlightInv, Idle, NEW r \in results, NEW s, NoAction(s, r)
  PROVE  FlightInv'
BY FlightFed DEF NoAction, outside

LEMMA FlightPlanned ==
  ASSUME FlightInv, Idle, NEW r \in results, NEW s, NEW command, Planned(s, r, command),
         command.op \in Operations, disciplined => OnCurrent(command)'
  PROVE  FlightInv'
BY FlightFed DEF Planned, outside

LEMMA FlightObserved ==
  ASSUME FlightInv, Ready, NEW command, Observed(command), command.op \in Operations,
         disciplined => OnCurrent(command)'
  PROVE  FlightInv'
<1>1. running' = {command} /\ results' = results /\ disciplined' = disciplined /\ (disciplined => results = {})
  BY DEF Ready, Idle, Observed, outside
<1> QED BY <1>1 DEF FlightInv

\* A command ends with a result, or with none.
LEMMA FlightFinished ==
  ASSUME FlightInv, NEW c \in running, Ended(c), session' = session, disciplined' = disciplined,
         \A r \in results' : r \in results \/ (disciplined => GoesOn(r)'),
         \A r, s \in results' : r \in results \/ s \in results \/ r = s
  PROVE  FlightInv'
<1>1. running' = {}
  BY DEF FlightInv, Ended
<1>2. disciplined => results = {}
  BY DEF FlightInv
<1>3. disciplined => \A r \in results' : GoesOn(r)'
  BY <1>2
<1>4. disciplined => \A r, s \in results' : r = s
  BY <1>2
<1> QED BY <1>1, <1>3, <1>4 DEF FlightInv

LEMMA FlightWith ==
  ASSUME FlightInv, NEW c \in running, NEW r, Finish(c, r), session' = session, disciplined' = disciplined,
         disciplined => GoesOn(r)'
  PROVE  FlightInv'
<1>1. Ended(c) /\ results' \subseteq results \union {r}
  BY FinishKeeps
<1> QED BY <1>1, FlightFinished

\* Neither of the results that bring an attempt.
LEMMA GoesOnAnyway ==
  ASSUME NEW r, r.kind \notin Carriers, r.kind # "SUBMISSION_RESULT"
  PROVE  GoesOn(r)'
BY DEF GoesOn

LEMMA FlightOfFeeds ==
  ASSUME BookInv, FlightInv, NEW r \in results, Feed(r)
  PROVE  FlightInv'
<1>0. Shapes
  BY DEF BookInv
<1>1. CASE FeedStage(r)
  <2>1. Stage[r.kind] \in {"ANALYZE", "DECIDE", "PREPARE"}
    BY <1>1 DEF FeedStage, Stage
  <2>2. PICK command : command = [op |-> Stage[r.kind]]
    OBVIOUS
  <2>3. command.op \in Operations /\ OnCurrent(command)'
    BY <2>1, <2>2 DEF Operations, OnCurrent
  <2> QED BY <1>1, <2>2, <2>3, FlightPlanned DEF FeedStage
<1>2. ASSUME NEW environment, FeedPreparation(r, environment) PROVE FlightInv'
  <2>1. PICK command : command = [op |-> "SUBMIT", plan |-> r.plan, environment |-> environment]
    OBVIOUS
  <2>2. Idle /\ (NoAction(session, r) \/ Planned(session, r, command))
    BY <1>2, <2>1 DEF FeedPreparation
  <2>3. CASE Planned(session, r, command)
    <3>1. disciplined => session'.attempt = None
      BY <1>2, <2>3 DEF FeedPreparation, Planned
    <3>2. command.op \in Operations /\ (disciplined => OnCurrent(command)')
      BY <2>1, <3>1 DEF Operations, OnCurrent
    <3> QED BY <2>2, <2>3, <3>2, FlightPlanned
  <2> QED BY <2>2, <2>3, FlightNoAction
\* A result's attempt is adopted, and the command works on it.
<1>3. ASSUME NEW command, Idle, Planned(Adopted(r.attempt), r, command),
             \/ command.op = "INITIALIZE" /\ command.submission = r
             \/ command.op = "CREATE_BASIS" /\ command.attempt = r.attempt
             \/ command.op = "PROTECT" /\ command.fill = r
             \/ command.op = "ACKNOWLEDGE" /\ command.protection = r
      PROVE  FlightInv'
  <2>1. session'.attempt = r.attempt
    BY <1>0, <1>3, AdoptedIs DEF Planned
  <2>2. command.op \in Operations /\ OnCurrent(command)'
    BY <1>3, <2>1 DEF Operations, OnCurrent
  <2> QED BY <1>3, <2>2, FlightPlanned
<1>4. CASE FeedSubmission(r)
  <2>1. CASE Planned(Adopted(r.attempt), r, [op |-> "INITIALIZE", submission |-> r])
    BY <1>3, <1>4, <2>1 DEF FeedSubmission
  <2> QED BY <1>4, <2>1, FlightNoAction DEF FeedSubmission
<1>5. CASE FeedInitialization(r)
  <2>1. CASE Planned(Adopted(r.attempt), r, [op |-> "CREATE_BASIS", attempt |-> r.attempt])
    BY <1>3, <1>5, <2>1 DEF FeedInitialization
  <2> QED BY <1>5, <2>1, FlightNoAction DEF FeedInitialization
<1>6. ASSUME NEW environment, FeedFill(r, environment) PROVE FlightInv'
  <2>1. CASE Planned(Adopted(r.attempt), r, [op |-> "PROTECT", fill |-> r, environment |-> environment])
    BY <1>3, <1>6, <2>1 DEF FeedFill
  <2> QED BY <1>6, <2>1, FlightNoAction DEF FeedFill
<1>7. CASE FeedProtection(r)
  <2>1. CASE Planned(Adopted(r.attempt), r, [op |-> "ACKNOWLEDGE", protection |-> r])
    BY <1>3, <1>7, <2>1 DEF FeedProtection
  <2> QED BY <1>7, <2>1, FlightNoAction DEF FeedProtection
<1>8. CASE FeedAttempt(r) \/ FeedBasis(r) \/ FeedMultiple(r)
  <2>1. PICK s : Idle /\ NoAction(s, r)
    BY <1>8 DEF FeedAttempt, FeedBasis, FeedMultiple
  <2> QED BY <2>1, FlightNoAction
<1>9. ASSUME NEW command, Idle, Planned(session, r, command), command.op \in {"GROSS", "NET", "MULTIPLE"}
      PROVE  FlightInv'
  <2>1. command.op \in Operations /\ OnCurrent(command)'
    BY <1>9 DEF Operations, OnCurrent
  <2> QED BY <1>9, <2>1, FlightPlanned
<1>10. CASE FeedValuation(r)
  <2>1. CASE Planned(session, r, [op |-> "GROSS", position |-> r.position])
    BY <1>9, <1>10, <2>1 DEF FeedValuation
  <2> QED BY <1>10, <2>1, FlightNoAction DEF FeedValuation
<1>11. CASE FeedAuthorities(r)
  <2>1. CASE Planned(session, r, [op |-> "NET", gross |-> caller.gross, cost |-> r.position])
    BY <1>9, <1>11, <2>1 DEF FeedAuthorities
  <2> QED BY <1>11, <2>1, FlightNoAction DEF FeedAuthorities
<1>12. CASE FeedNet(r)
  <2>1. CASE Planned(session, r, [op |-> "MULTIPLE", net |-> r, basis |-> session.basis])
    BY <1>9, <1>12, <2>1 DEF FeedNet
  <2> QED BY <1>12, <2>1, FlightNoAction DEF FeedNet
<1> QED BY <1>1, <1>2, <1>4, <1>5, <1>6, <1>7, <1>8, <1>10, <1>11, <1>12 DEF Feed

LEMMA FlightOfObservations ==
  ASSUME FlightInv, \/ ObserveTrade
                    \/ \E f \in reports, a \in Held : ObserveFill(f, a) \/ ObserveExit(f, a)
                    \/ \E op \in {"VALUE", "COST"} : RequestProjection(op)
  PROVE  FlightInv'
<1>1. ASSUME NEW command, Ready, Observed(command),
             \/ command.op \in {"INGEST", "VALUE", "COST"}
             \/ command.op \in {"FILL", "EXIT"} /\ command.attempt = session.attempt
      PROVE  FlightInv'
  <2>1. session' = session
    BY <1>1 DEF Observed
  <2>2. command.op \in Operations /\ OnCurrent(command)'
    BY <1>1, <2>1 DEF Operations, OnCurrent
  <2> QED BY <1>1, <2>2, FlightObserved
<1>2. CASE ObserveTrade
  BY <1>1, <1>2 DEF ObserveTrade
<1>3. ASSUME NEW f \in reports, NEW a \in Held, ObserveFill(f, a) PROVE FlightInv'
  BY <1>1, <1>3 DEF ObserveFill, IsCurrent
<1>4. ASSUME NEW f \in reports, NEW a \in Held, ObserveExit(f, a) PROVE FlightInv'
  BY <1>1, <1>4 DEF ObserveExit, IsCurrent
<1>5. ASSUME NEW op \in {"VALUE", "COST"}, RequestProjection(op) PROVE FlightInv'
  BY <1>1, <1>5 DEF RequestProjection
<1> QED BY <1>2, <1>3, <1>4, <1>5

\* The attempt that a command of a disciplined caller works on.
LEMMA FlightOfCommands ==
  ASSUME BookInv, FlightInv, NEW c \in running, Execute(c)
  PROVE  FlightInv'
<1>0. CommandOK(c) /\ Shapes /\ (disciplined => OnCurrent(c))
  BY DEF BookInv, FlightInv
<1>1. ASSUME NEW r, Finish(c, r), session' = session, disciplined' = disciplined,
             r.kind \notin Carriers, r.kind # "SUBMISSION_RESULT"
      PROVE  FlightInv'
  BY <1>1, FlightWith, GoesOnAnyway
<1>2. ASSUME NEW r, Finish(c, r), session' = session, disciplined' = disciplined, r.kind \in Carriers,
             disciplined => Grown(session.attempt, r.attempt)
      PROVE  FlightInv'
  <2>1. disciplined => GoesOn(r)'
    BY <1>2 DEF GoesOn, Carriers
  <2> QED BY <1>2, <2>1, FlightWith
<1>3. CASE End(c) \/ Gross(c)
  BY <1>3, FlightFinished DEF End, Gross, outside
<1>4. CASE RunStage(c)
  <2>1. CASE c.op \in DOMAIN Yields /\ Finish(c, [kind |-> Yields[c.op]])
    <3>1. Yields[c.op] \in {"INGESTED", "ANALYZED", "DECIDED"}
      BY <2>1 DEF Yields
    <3> QED BY <1>1, <1>4, <2>1, <3>1 DEF RunStage, outside, Carriers
  <2>2. ASSUME NEW p \in Plans, Finish(c, [kind |-> "PREPARED", plan |-> p]) PROVE FlightInv'
    BY <1>1, <1>4, <2>2 DEF RunStage, outside, Carriers
  <2> QED BY <1>4, <2>1, <2>2 DEF RunStage
<1>5. CASE CreateBasis(c)
  BY <1>1, <1>5 DEF CreateBasis, outside, Carriers
<1>6. CASE Value(c)
  BY <1>1, <1>6 DEF Value, outside, Carriers
<1>7. CASE Cost(c)
  BY <1>1, <1>7 DEF Cost, outside, Carriers
<1>8. CASE Net(c)
  BY <1>1, <1>8 DEF Net, outside, Carriers
<1>9. CASE Multiple(c)
  BY <1>1, <1>9 DEF Multiple, outside, Carriers
<1>10. CASE Initialize(c)
  <2> DEFINE a == c.submission.attempt
             b == EntryAcknowledged(a, [order |-> a.plan, at |-> c.submission.at])
  <2>1. a.plan \in Plans /\ a = NewOrder(a.plan)
    BY <1>0, <1>10 DEF Initialize, CommandOK, ResultOK
  <2>2. a \in Attempts
    BY <1>0, <2>1, NewOrderBacked, Zenon DEF Backed
  <2>3. b.filled = a.filled /\ b.protected = a.protected /\ b.exited = a.exited
    BY <2>2, AcknowledgedCounts
  <2>4. a.filled \in Nat /\ a.protected \in Nat /\ a.exited \in Nat
    BY <2>2, AttemptShape
  <2>5. disciplined => Grown(session.attempt, b)
    BY <1>0, <1>10, <2>3, <2>4 DEF Initialize, OnCurrent, Grown
  <2>6. PICK r : r = [kind |-> "INITIALIZATION_RESULT", attempt |-> b]
    OBVIOUS
  <2>7. Finish(c, r) /\ session' = session /\ disciplined' = disciplined
    BY <1>10, <2>6 DEF Initialize, outside
  <2>8. r.kind \in Carriers /\ r.attempt = b
    BY <2>6 DEF Carriers
  <2> QED BY <1>2, <2>5, <2>7, <2>8
<1>11. CASE ApplyFill(c)
  <2>1. c.attempt \in Attempts /\ c.fill \in Entries
    BY <1>0, <1>11, ReportShape DEF ApplyFill, CommandOK, Ours, Backed, BookInv, ReportsInv
  <2>2. c.fill.qty \in Nat
    BY <2>1 DEF Entries
  <2>3. PICK r : /\ Finish(c, r) /\ r.kind = "FILL_RESULT"
                 /\ r.attempt = c.attempt \/ r.attempt = EntryFilled(c.attempt, c.fill)
    BY <1>11 DEF ApplyFill
  <2>4. Grown(c.attempt, r.attempt)
    <3>1. c.attempt.filled \in Nat /\ c.attempt.protected \in Nat /\ c.attempt.exited \in Nat
      BY <2>1, AttemptShape
    <3>2. Grown(c.attempt, EntryFilled(c.attempt, c.fill))
      BY <2>1, <2>2, <3>1, FilledCounts DEF Grown
    <3>3. Grown(c.attempt, c.attempt)
      BY <3>1 DEF Grown
    <3> QED BY <2>3, <3>2, <3>3
  <2>5. disciplined => c.attempt = session.attempt
    BY <1>0, <1>11 DEF ApplyFill, OnCurrent
  <2>6. session' = session /\ disciplined' = disciplined
    BY <1>11 DEF ApplyFill, outside
  <2> QED BY <1>2, <2>3, <2>4, <2>5, <2>6 DEF Carriers
<1>12. CASE ApplyExit(c)
  <2>1. c.attempt \in Attempts /\ c.fill \in Exits
    BY <1>0, <1>12, ReportShape DEF ApplyExit, CommandOK, Ours, Backed, BookInv, ReportsInv
  <2>2. c.fill.qty \in Nat
    BY <2>1 DEF Exits
  <2>3. PICK a : /\ Finish(c, [kind |-> "EXIT_RESULT", attempt |-> a])
                 /\ a = c.attempt \/ a = Exited(c.attempt, c.fill)
    BY <1>12 DEF ApplyExit
  <2>4. Grown(c.attempt, a)
    <3>1. c.attempt.filled \in Nat /\ c.attempt.protected \in Nat /\ c.attempt.exited \in Nat
      BY <2>1, AttemptShape
    <3>2. Grown(c.attempt, Exited(c.attempt, c.fill))
      BY <2>1, <2>2, <3>1, ExitedCounts DEF Grown
    <3>3. Grown(c.attempt, c.attempt)
      BY <3>1 DEF Grown
    <3> QED BY <2>3, <3>2, <3>3
  <2>5. disciplined => c.attempt = session.attempt
    BY <1>0, <1>12 DEF ApplyExit, OnCurrent
  <2>6. session' = session /\ disciplined' = disciplined
    BY <1>12 DEF ApplyExit, outside
  <2>7. PICK r : r = [kind |-> "EXIT_RESULT", attempt |-> a]
    OBVIOUS
  <2>8. r.kind \in Carriers /\ r.attempt = a /\ Finish(c, r)
    BY <2>3, <2>7 DEF Carriers
  <2> QED BY <1>2, <2>4, <2>5, <2>6, <2>8
<1>13. CASE Acknowledge(c)
  <2> DEFINE a == c.protection.attempt
             b == ProtectionAcknowledged(a, [target |-> a.protecting, at |-> c.protection.at])
  <2>1. a \in Attempts
    BY <1>0, <1>13 DEF Acknowledge, CommandOK, Ours, Backed
  <2>2. b.filled = a.filled /\ b.protected = a.protecting /\ b.exited = a.exited
    BY <2>1, ProtectedCounts
  <2>3. a.filled \in Nat /\ a.protected \in Nat /\ a.exited \in Nat /\ a.protecting >= a.protected
    BY <1>13, <2>1, AttemptShape DEF Acknowledge, CanAcknowledgeProtection
  <2>4. disciplined => Grown(session.attempt, b)
    BY <1>0, <1>13, <2>2, <2>3 DEF Acknowledge, OnCurrent, Grown
  <2>5. PICK r : r = [kind |-> "LIFECYCLE_RESULT", attempt |-> b]
    OBVIOUS
  <2>6. Finish(c, r) /\ session' = session /\ disciplined' = disciplined
    BY <1>13, <2>5 DEF Acknowledge, outside
  <2>7. r.kind \in Carriers /\ r.attempt = b
    BY <2>5 DEF Carriers
  <2> QED BY <1>2, <2>4, <2>6, <2>7
<1>14. ASSUME NEW p \in Plans, NEW k \in 0..Quantity, NEW accepted, NEW kind, NEW attempt,
              Call(c, p, k, accepted, kind, attempt), session' = session, disciplined' = disciplined,
              \/ kind = "SUBMISSION_RESULT" /\ (disciplined => session.attempt = None)
              \/ kind = "PROTECTION_RESULT" /\ (disciplined => Grown(session.attempt, attempt))
       PROVE  FlightInv'
  <2>1. Answered(c, p, k, accepted, kind, attempt)
    BY <1>0, <1>14, CallSteps
  <2>2. /\ Ended(c) /\ \A r, s \in results' : r \in results \/ s \in results \/ r = s
        /\ \A r \in results' : r \in results \/ (r.kind = kind /\ r.attempt = attempt)
    BY <2>1 DEF Answered
  <2>3. \A r \in results' : r \in results \/ (disciplined => GoesOn(r)')
    BY <1>14, <2>2 DEF GoesOn, Carriers
  <2> QED BY <1>14, <2>2, <2>3, FlightFinished
<1>15. CASE Submit(c)
  <2>1. c.plan \in Plans /\ 0 \in 0..Quantity /\ (disciplined => session.attempt = None)
    BY <1>0, <1>15, Constants DEF Submit, CommandOK, OnCurrent
  <2>2. PICK accepted, kind, attempt, k : /\ Call(c, c.plan, k, accepted, kind, attempt)
                                       /\ kind = "SUBMISSION_RESULT" /\ k = 0
    BY <1>15 DEF Submit
  <2>3. session' = session /\ disciplined' = disciplined
    BY <1>15 DEF Submit
  <2> QED BY <1>14, <2>1, <2>2, <2>3
<1>16. CASE Protect(c)
  <2> DEFINE a == c.fill.attempt
  <2>1. Backed(a) /\ a.plan \in Plans
    BY <1>0, <1>16, AttemptShape DEF Protect, CommandOK, Ours, Backed
  <2>2. session' = session /\ disciplined' = disciplined /\ (disciplined => a = session.attempt)
    BY <1>0, <1>16 DEF Protect, OnCurrent
  <2>3. ASSUME NEW b, NEW status,
               Finish(c, [kind |-> "PROTECTION_RESULT", attempt |-> b, status |-> status, at |-> None]),
               disciplined => Grown(session.attempt, b)
        PROVE  FlightInv'
    <3>1. PICK r : r = [kind |-> "PROTECTION_RESULT", attempt |-> b, status |-> status, at |-> None]
      OBVIOUS
    <3>2. r.kind \in Carriers /\ r.attempt = b /\ Finish(c, r)
      BY <2>3, <3>1 DEF Carriers
    <3> QED BY <1>2, <2>2, <2>3, <3>2
  <2>4. Grown(a, a) /\ Grown(a, Pending(a))
    <3>1. a \in Attempts /\ a.filled \in Nat /\ a.protected \in Nat /\ a.exited \in Nat
      BY <2>1, AttemptShape DEF Backed
    <3>2. Grown(a, ProtectionRequested(a)) /\ Grown(a, a)
      BY <3>1, RequestedCounts DEF Grown
    <3> QED BY <3>2 DEF Pending
  <2>5. CASE Finish(c, [kind |-> "PROTECTION_RESULT", attempt |-> a, status |-> "NO_ACTION", at |-> None])
    BY <2>2, <2>3, <2>4, <2>5
  <2>6. CASE Finish(c, [kind |-> "PROTECTION_RESULT", attempt |-> Pending(a), status |-> "BLOCKED", at |-> None])
    BY <2>2, <2>3, <2>4, <2>6
  <2>7. CASE /\ a.protecting # 0 \/ CanRequestProtection(a)
             /\ Call(c, a.plan, Pending(a).protecting,
                     [broker[a.plan] EXCEPT !.covered = @ + Increment(Pending(a))], "PROTECTION_RESULT", Pending(a))
    <3>1. PICK p \in Plans : p = a.plan
      BY <2>1
    <3>2. PICK b : b = Pending(a)
      OBVIOUS
    <3>3. Backed(b) /\ b.protecting \in Nat \ {0}
      BY <2>1, <2>7, <3>2, RequestedBacked
    <3>4. b.filled =< Quantity /\ b.protecting =< b.filled /\ b.filled \in Nat
      BY <1>0, <3>3, BackedWithin, AttemptShape DEF Backed, BookInv
    <3>5. PICK k \in 0..Quantity : k = b.protecting
      BY <3>3, <3>4, Constants
    <3>6. PICK accepted : accepted = [broker[a.plan] EXCEPT !.covered = @ + Increment(Pending(a))]
      OBVIOUS
    <3>7. PICK kind : kind = "PROTECTION_RESULT"
      OBVIOUS
    <3>8. Call(c, p, k, accepted, kind, b)
      BY <2>7, <3>1, <3>2, <3>5, <3>6, <3>7, Zenon
    <3>9. disciplined => Grown(session.attempt, b)
      BY <2>2, <2>4, <3>2
    <3> QED BY <1>14, <2>2, <3>7, <3>8, <3>9
  <2> QED BY <1>16, <2>5, <2>6, <2>7, Zenon DEF Protect
<1> QED BY <1>3, <1>4, <1>5, <1>6, <1>7, <1>8, <1>9, <1>10, <1>11, <1>12, <1>13, <1>15, <1>16 DEF Execute

LEMMA FlightStep == ASSUME BookInv, FlightInv, [Next]_vars PROVE FlightInv'
<1>1. CASE UNCHANGED vars
  BY <1>1 DEF vars, FlightInv, OnCurrent, GoesOn
<1>2. CASE Next
  <2>1. ASSUME NEW p \in Plans, NEW q \in 1..Quantity, BrokerFill(p, q) \/ BrokerExit(p, q) PROVE FlightInv'
    <3>1. UNCHANGED <<disciplined, session, running, results>>
      BY <2>1 DEF BrokerFill, BrokerExit
    <3> QED BY <3>1 DEF FlightInv, OnCurrent, GoesOn
  <2>2. ASSUME NEW r \in results, Feed(r) PROVE FlightInv'
    BY <2>2, FlightOfFeeds
  <2>3. ASSUME NEW c \in running, Execute(c) PROVE FlightInv'
    BY <2>3, FlightOfCommands
  <2>4. CASE \/ ObserveTrade
             \/ \E f \in reports, a \in Held : ObserveFill(f, a) \/ ObserveExit(f, a)
             \/ \E op \in {"VALUE", "COST"} : RequestProjection(op)
    BY <2>4, FlightOfObservations
  <2> QED BY <1>2, <2>1, <2>2, <2>3, <2>4 DEF Next
<1> QED BY <1>1, <1>2

\* One command or one result at a time, and each takes the session's attempt further.
THEOREM FlightInvariant == Spec => [](BookInv /\ FlightInv)
<1>1. Init => FlightInv
  BY DEF Init, FlightInv
<1>2. Init => BookInv
  BY InitIsBooked
<1>3. BookInv /\ FlightInv /\ [Next]_vars => BookInv' /\ FlightInv'
  BY BookStep, FlightStep
<1> QED BY <1>1, <1>2, <1>3, PTL DEF Spec

\* The session is valid, and could be hydrated, whatever was dispatched.
THEOREM SessionAlwaysStaysValid == Spec => []SessionStaysValid
<1>1. BookInv /\ FlightInv => SessionStaysValid
  <2> SUFFICES ASSUME BookInv, FlightInv PROVE SessionStaysValid
    OBVIOUS
  <2>1. Shapes /\ SessionInv
    BY DEF BookInv
  <2>2. session.attempt \in Attempts \union {None}
    BY <2>1 DEF SessionInv, Backed
  <2>3. session.basis # None =>
          session.basis \in Plans /\ session.attempt # None /\ session.attempt.plan = session.basis
    BY <2>1, AttemptShape DEF SessionInv, OurPlan, Backed
  <2>4. disciplined => Cardinality(results) =< 1
    <3>1. CASE results = {}
      BY <3>1, FS_EmptySet
    <3>2. CASE disciplined /\ results # {}
      <4>1. PICK r \in results : TRUE
        BY <3>2
      <4>2. results = {r}
        BY <3>2, <4>1 DEF FlightInv
      <4>3. Cardinality({r}) = 1
        BY FS_Singleton
      <4> QED BY <4>2, <4>3
    <3> QED BY <3>1, <3>2
  <2>5. TypeOK
    BY <2>1, <2>2, <2>3, <2>4 DEF TypeOK, Shapes, FlightInv, Operations
  <2>6. session.multiple # None =>
          /\ session.attempt # None /\ session.basis # None
          /\ session.multiple.gross.plan = session.attempt.plan
          /\ session.multiple.basis = session.basis
    BY <2>1 DEF SessionInv, OurPlan
  <2> QED BY <2>3, <2>5, <2>6 DEF SessionStaysValid
<1> QED BY <1>1, FlightInvariant, PTL

LEMMA EditedIs ==
  ASSUME Shapes, NEW x
  PROVE  [session EXCEPT !.basis = x].attempt = session.attempt /\ [session EXCEPT !.multiple = x].attempt = session.attempt
<1>1. session = [attempt |-> session.attempt, basis |-> session.basis, multiple |-> session.multiple]
  BY DEF Shapes
<1>2. PICK a, b, m : session = [attempt |-> a, basis |-> b, multiple |-> m]
  BY <1>1
<1> QED BY <1>2

\* The session's attempt changes only by a result that is fed.
LEMMA Advance ==
  ASSUME Shapes, [Next]_vars
  PROVE  \/ session'.attempt = session.attempt
         \/ \E r \in results : /\ r.kind \in Carriers \union {"SUBMISSION_RESULT"}
                               /\ Coherent(r.attempt.plan) /\ session'.attempt = r.attempt
<1>1. CASE session' = session
  BY <1>1
<1>2. ASSUME NEW r \in results, Feed(r)
      PROVE  \/ session'.attempt = session.attempt
             \/ /\ r.kind \in Carriers \union {"SUBMISSION_RESULT"}
                /\ Coherent(r.attempt.plan) /\ session'.attempt = r.attempt
  <2>1. ASSUME session' = session \/ (Coherent(r.attempt.plan) /\ session' = Adopted(r.attempt)), r.kind \in Carriers \union {"SUBMISSION_RESULT"}
        PROVE  \/ session'.attempt = session.attempt
               \/ /\ r.kind \in Carriers \union {"SUBMISSION_RESULT"}
                /\ Coherent(r.attempt.plan) /\ session'.attempt = r.attempt
    BY <2>1, AdoptedIs
  <2>2. CASE FeedSubmission(r) \/ FeedInitialization(r) \/ FeedProtection(r) \/ FeedAttempt(r)
    <3>1. r.kind \in Carriers \union {"SUBMISSION_RESULT"}
      BY <2>2 DEF FeedSubmission, FeedInitialization, FeedProtection, FeedAttempt, Carriers
    <3>2. session' = session \/ (Coherent(r.attempt.plan) /\ session' = Adopted(r.attempt))
      BY <2>2 DEF FeedSubmission, FeedInitialization, FeedProtection, FeedAttempt, NoAction, Planned
    <3> QED BY <2>1, <3>1, <3>2
  <2>3. ASSUME NEW environment, FeedFill(r, environment)
        PROVE  \/ session'.attempt = session.attempt
               \/ /\ r.kind \in Carriers \union {"SUBMISSION_RESULT"}
                /\ Coherent(r.attempt.plan) /\ session'.attempt = r.attempt
    <3>1. r.kind \in Carriers \union {"SUBMISSION_RESULT"}
      BY <2>3 DEF FeedFill, Carriers
    <3>2. session' = session \/ (Coherent(r.attempt.plan) /\ session' = Adopted(r.attempt))
      BY <2>3 DEF FeedFill, NoAction, Planned
    <3> QED BY <2>1, <3>1, <3>2
  <2>4. CASE FeedBasis(r)
    BY <2>4, EditedIs DEF FeedBasis, NoAction
  <2>5. CASE FeedMultiple(r)
    BY <2>5, EditedIs DEF FeedMultiple, NoAction
  <2>6. CASE FeedStage(r) \/ FeedValuation(r) \/ FeedAuthorities(r) \/ FeedNet(r)
    BY <2>6 DEF FeedStage, FeedValuation, FeedAuthorities, FeedNet, NoAction, Planned
  <2>7. ASSUME NEW environment, FeedPreparation(r, environment) PROVE session' = session
    BY <2>7 DEF FeedPreparation, NoAction, Planned
  <2> QED BY <1>2, <2>2, <2>3, <2>4, <2>5, <2>6, <2>7 DEF Feed
<1>3. ASSUME NEW c \in running, Execute(c) PROVE session' = session
  BY <1>3 DEF Execute, RunStage, Submit, Initialize, ApplyFill, Protect, Acknowledge, ApplyExit, CreateBasis,
              Value, Cost, Gross, Net, Multiple, End
<1>4. ASSUME NEW f, NEW a, ObserveFill(f, a) \/ ObserveExit(f, a) PROVE session' = session
  BY <1>4 DEF ObserveFill, ObserveExit, Observed
<1>5. ASSUME NEW op, RequestProjection(op) PROVE session' = session
  BY <1>5 DEF RequestProjection, Observed
<1>6. CASE ObserveTrade
  BY <1>6 DEF ObserveTrade, Observed
<1>7. ASSUME NEW p, NEW q, BrokerFill(p, q) \/ BrokerExit(p, q) PROVE session' = session
  BY <1>7 DEF BrokerFill, BrokerExit
<1>8. CASE UNCHANGED vars
  BY <1>8 DEF vars
<1>9. CASE Next
  BY <1>1, <1>2, <1>3, <1>4, <1>5, <1>6, <1>7, <1>9 DEF Next
<1> QED BY <1>8, <1>9

\* With a disciplined caller the session forgets nothing that was filled,
\* protected or exited, also when commands fail after the broker had acted.
THEOREM NothingIsForgotten == Spec => NothingForgotten
<1>1. BookInv /\ FlightInv /\ [Next]_vars =>
        [disciplined /\ session.attempt # None =>
           /\ session'.attempt.filled >= session.attempt.filled
           /\ session'.attempt.protected >= session.attempt.protected
           /\ session'.attempt.exited >= session.attempt.exited]_session
  <2> SUFFICES ASSUME BookInv, FlightInv, [Next]_vars, disciplined, session.attempt # None
               PROVE  /\ session'.attempt.filled >= session.attempt.filled
                      /\ session'.attempt.protected >= session.attempt.protected
                      /\ session'.attempt.exited >= session.attempt.exited
    OBVIOUS
  <2>1. Shapes /\ Backed(session.attempt)
    BY DEF BookInv, SessionInv
  <2>2. CASE session'.attempt = session.attempt
    BY <2>1, <2>2, AttemptShape DEF Backed
  <2>3. ASSUME NEW r \in results, r.kind \in Carriers \union {"SUBMISSION_RESULT"}, session'.attempt = r.attempt
        PROVE  Grown(session.attempt, session'.attempt)
    BY <2>3 DEF FlightInv, GoesOn
  <2> QED BY <2>1, <2>2, <2>3, Advance DEF Grown
<1> QED BY <1>1, FlightInvariant, PTL DEF Spec, NothingForgotten
-----------------------------------------------------------------------------
(* What is covered is what the latest attempt has protected or asks for.       *)

LEMMA ExactStays ==
  ASSUME UNCHANGED <<record, broker>>, NEW a, Exact(a)
  PROVE  Exact(a)'
BY DEF Exact

LEMMA SamePending ==
  ASSUME NEW a, Exact(a), NEW b, b.plan = a.plan, b.protected = a.protected, b.protecting = a.protecting
  PROVE  Exact(b)
BY Zenon DEF Exact

\* What a fed result does to the session's attempt.
LEMMA FeedBrings ==
  ASSUME BookInv, FlightInv, NEW r \in results, Feed(r), disciplined
  PROVE  /\ Used(r) /\ UNCHANGED outside /\ running = {}
         /\ r.kind \in Carriers \union {"SUBMISSION_RESULT"} => session'.attempt = r.attempt
         /\ r.kind \notin Carriers \union {"SUBMISSION_RESULT"} => session'.attempt = session.attempt
<1>0. Shapes /\ ResultOK(r) /\ GoesOn(r)
  BY DEF BookInv, FlightInv
<1>1. Used(r) /\ UNCHANGED outside /\ running = {}
  BY DEF Feed, FeedStage, FeedSubmission, FeedInitialization, FeedProtection, FeedAttempt, FeedBasis, FeedValuation,
         FeedAuthorities, FeedNet, FeedMultiple, FeedPreparation, FeedFill, NoAction, Planned, Idle
<1>2. r.kind \in Carriers \union {"SUBMISSION_RESULT"} => Coherent(r.attempt.plan)
  BY <1>0 DEF ResultOK, Carriers, Ours, GoesOn, Coherent
<1>3. ASSUME r.kind \in Carriers \union {"SUBMISSION_RESULT"} PROVE session' = Adopted(r.attempt)
  <2>1. CASE FeedSubmission(r) \/ FeedInitialization(r) \/ FeedProtection(r) \/ FeedAttempt(r)
    BY <1>2, <1>3, <2>1 DEF FeedSubmission, FeedInitialization, FeedProtection, FeedAttempt, NoAction, Planned
  <2>2. ASSUME NEW environment, FeedFill(r, environment) PROVE session' = Adopted(r.attempt)
    BY <1>2, <1>3, <2>2 DEF FeedFill, NoAction, Planned
  <2>3. ~(FeedStage(r) \/ FeedBasis(r) \/ FeedValuation(r) \/ FeedAuthorities(r) \/ FeedNet(r) \/ FeedMultiple(r))
    BY <1>3 DEF FeedStage, FeedBasis, FeedValuation, FeedAuthorities, FeedNet, FeedMultiple, Carriers, Stage
  <2>4. \A environment : ~FeedPreparation(r, environment)
    BY <1>3 DEF FeedPreparation, Carriers
  <2> QED BY <2>1, <2>2, <2>3, <2>4 DEF Feed
<1>4. ASSUME r.kind \notin Carriers \union {"SUBMISSION_RESULT"} PROVE session'.attempt = session.attempt
  <2>1. ~(FeedSubmission(r) \/ FeedInitialization(r) \/ FeedProtection(r) \/ FeedAttempt(r))
    BY <1>4 DEF FeedSubmission, FeedInitialization, FeedProtection, FeedAttempt, Carriers
  <2>2. \A environment : ~FeedFill(r, environment)
    BY <1>4 DEF FeedFill, Carriers
  <2>3. CASE FeedBasis(r)
    BY <1>0, <2>3, EditedIs DEF FeedBasis, NoAction
  <2>4. CASE FeedMultiple(r)
    BY <1>0, <2>4, EditedIs DEF FeedMultiple, NoAction
  <2>5. CASE FeedStage(r) \/ FeedValuation(r) \/ FeedAuthorities(r) \/ FeedNet(r)
    BY <2>5 DEF FeedStage, FeedValuation, FeedAuthorities, FeedNet, NoAction, Planned
  <2>6. ASSUME NEW environment, FeedPreparation(r, environment) PROVE session' = session
    BY <2>6 DEF FeedPreparation, NoAction, Planned
  <2> QED BY <2>1, <2>2, <2>3, <2>4, <2>5, <2>6 DEF Feed
<1> QED BY <1>0, <1>1, <1>3, <1>4, AdoptedIs

LEMMA FeedLeaves ==
  ASSUME NEW r, Feed(r)
  PROVE  UNCHANGED outside
BY DEF Feed, FeedStage, FeedSubmission, FeedInitialization, FeedProtection, FeedAttempt, FeedBasis, FeedValuation,
       FeedAuthorities, FeedNet, FeedMultiple, FeedPreparation, FeedFill, NoAction, Planned

\* The session's plan, over a step, as BookStep has it.
LEMMA PlanStays ==
  ASSUME BookInv, BookInv', [Next]_vars
  PROVE  session.attempt # None => session'.attempt # None /\ session'.attempt.plan = session.attempt.plan
<1>1. Shapes /\ \A r \in results : ResultOK(r)
  BY DEF BookInv
<1> SUFFICES ASSUME session.attempt # None
             PROVE  session'.attempt # None /\ session'.attempt.plan = session.attempt.plan
  OBVIOUS
<1>2. CASE session'.attempt = session.attempt
  BY <1>2
<1>3. ASSUME NEW r \in results, r.kind \in Carriers \union {"SUBMISSION_RESULT"}, Coherent(r.attempt.plan),
             session'.attempt = r.attempt
      PROVE  session'.attempt # None /\ session'.attempt.plan = session.attempt.plan
  <2>1. CASE r.kind \in Carriers
    <3>1. Ours(r.attempt)
      BY <1>1, <2>1 DEF ResultOK, Carriers
    <3> QED BY <1>3, <3>1, AttemptShape DEF Ours, Backed
  <2>2. CASE r.kind = "SUBMISSION_RESULT"
    <3>1. r.attempt.plan \in Plans /\ r.attempt = NewOrder(r.attempt.plan)
      BY <1>1, <2>2 DEF ResultOK
    <3>2. Backed(r.attempt)
      BY <1>1, <3>1, NewOrderBacked, Zenon
    <3>3. r.attempt # None
      BY <3>2, AttemptShape DEF Backed
    <3>4. r.attempt.plan = session.attempt.plan
      BY <1>3 DEF Coherent
    <3> QED BY <1>3, <3>3, <3>4
  <2> QED BY <1>3, <2>1, <2>2
<1> QED BY <1>1, <1>2, <1>3, Advance

\* A session that follows a plan goes on following it.
LEMMA OursAfter ==
  ASSUME BookInv, BookInv', ExactInv, [Next]_vars,
         \A p \in Plans : broker'[p].covered # 0 => broker[p].covered # 0 \/ OurPlan(p)
  PROVE  \A p \in Plans : broker'[p].covered # 0 => OurPlan(p)'
BY PlanStays DEF ExactInv, OurPlan

\* A new order has nothing covered.
LEMMA ExactOrder ==
  ASSUME BookInv, ExactInv, session.attempt = None, NEW p \in Plans
  PROVE  Exact(NewOrder(p))
<1>1. PICK n : n = NewOrder(p)
  OBVIOUS
<1>2. n.plan = p /\ n.protected = 0 /\ n.protecting = 0
  BY <1>1, NewOrderRecord
<1>3. \A k \in 1..Quantity : record[p][k] = "NONE"
  BY DEF BookInv, OneTrade, OurPlan
<1>4. broker[p].covered = 0
  BY DEF ExactInv, OurPlan
<1>5. Exact(n)
  BY <1>2, <1>3, <1>4 DEF Exact
<1> QED BY <1>1, <1>5

LEMMA ExactFeed ==
  ASSUME BookInv, BookInv', FlightInv, ExactInv, [Next]_vars, NEW r \in results, Feed(r)
  PROVE  ExactInv'
<1>1. UNCHANGED <<mode, disciplined, broker, record, reports, lost>>
  BY FeedLeaves DEF outside
<1>2. \A p \in Plans : broker'[p].covered # 0 => OurPlan(p)'
  BY <1>1, OursAfter
<1>3. ASSUME disciplined, ~lost
      PROVE  results' = {} /\ (session'.attempt # None => Exact(session'.attempt))
  <2>1. /\ Used(r)
        /\ r.kind \in Carriers \union {"SUBMISSION_RESULT"} => session'.attempt = r.attempt
        /\ r.kind \notin Carriers \union {"SUBMISSION_RESULT"} => session'.attempt = session.attempt
    BY <1>3, FeedBrings
  <2>2. \A s \in results : s = r
    BY <1>3 DEF FlightInv
  <2>3. results' = {}
    BY <1>3, <2>1, <2>2 DEF Used
  <2>4. CASE r.kind \in Carriers
    BY <1>3, <2>1, <2>3, <2>4 DEF ExactInv
  <2>5. CASE r.kind = "SUBMISSION_RESULT"
    <3>1. session.attempt = None
      BY <1>3, <2>5 DEF FlightInv, GoesOn
    <3>2. r.attempt.plan \in Plans /\ r.attempt = NewOrder(r.attempt.plan)
      BY <2>5 DEF BookInv, ResultOK
    <3>3. Exact(r.attempt)
      BY <3>1, <3>2, ExactOrder, Zenon
    <3> QED BY <2>1, <2>3, <2>5, <3>3
  <2>6. CASE r.kind \notin Carriers \union {"SUBMISSION_RESULT"}
    <3>1. \A s \in results : s.kind \notin Carriers
      BY <2>2, <2>6
    <3>2. session.attempt # None => Exact(session.attempt)
      BY <1>3, <3>1 DEF ExactInv
    <3> QED BY <2>1, <2>3, <2>6, <3>2
  <2> QED BY <2>3, <2>4, <2>5, <2>6
<1>4. ASSUME NEW a, Exact(a) PROVE Exact(a)'
  BY <1>1, <1>4, ExactStays
<1> QED BY <1>1, <1>2, <1>3, <1>4 DEF ExactInv

\* The broker, its records and the session stay as they are.
LEMMA ExactQuiet ==
  ASSUME BookInv, FlightInv, ExactInv, UNCHANGED <<session, outside>>,
         disciplined => results' = results \/ results = {},
         disciplined /\ ~lost => \A r \in results' : r \in results \/ (r.kind \in Carriers => Exact(r.attempt))
  PROVE  ExactInv'
<1>1. UNCHANGED <<mode, disciplined, broker, record, reports, lost>> /\ session' = session
  BY DEF outside
<1>2. \A p \in Plans : broker'[p].covered # 0 => OurPlan(p)'
  BY <1>1 DEF ExactInv, OurPlan
<1>3. ASSUME disciplined, ~lost
      PROVE  /\ (\A r \in results' : r.kind \notin Carriers) /\ session.attempt # None => Exact(session.attempt)
             /\ \A r \in results' : r.kind \in Carriers => Exact(r.attempt)
  BY <1>3 DEF ExactInv
<1>4. ASSUME NEW a, Exact(a) PROVE Exact(a)'
  BY <1>1, <1>4, ExactStays
<1> QED BY <1>1, <1>2, <1>3, <1>4 DEF ExactInv

\* A command that ends without the broker.
LEMMA ExactEnds ==
  ASSUME BookInv, FlightInv, ExactInv, NEW c \in running, UNCHANGED <<session, outside>>,
         \A r \in results' : r \in results \/ r.kind \notin Carriers \/ (disciplined /\ ~lost => Exact(r.attempt))
  PROVE  ExactInv'
<1>1. disciplined => results = {}
  BY DEF FlightInv
<1> QED BY <1>1, ExactQuiet

\* A disciplined caller's command works on an attempt that is exact.
LEMMA ExactCurrent ==
  ASSUME FlightInv, ExactInv, NEW c \in running, disciplined, ~lost, session.attempt # None
  PROVE  Exact(session.attempt)
<1>1. results = {}
  BY DEF FlightInv
<1> QED BY <1>1 DEF ExactInv

\* A request adds nothing to what is covered until the broker accepts it.
LEMMA ExactPending ==
  ASSUME NEW a \in Attempts, Exact(a)
  PROVE  Exact(Pending(a))
<1>1. CASE a.protecting # 0
  BY <1>1 DEF Pending
<1>2. CASE a.protecting = 0
  <2>1. PICK b : b = ProtectionRequested(a)
    OBVIOUS
  <2>2. b.plan = a.plan /\ b.protected = a.protected
    BY <2>1, RequestedCounts
  <2>3. broker[a.plan].covered = a.protected /\ \A k \in 1..Quantity : record[a.plan][k] # "NONE" => k =< a.protected
    BY <1>2 DEF Exact
  <2>4. Exact(b)
    BY <2>2, <2>3 DEF Exact
  <2> QED BY <1>2, <2>1, <2>4 DEF Pending
<1> QED BY <1>1, <1>2

\* What the broker covers is acknowledged as a whole.
LEMMA ExactAcknowledged ==
  ASSUME Shapes, NEW a, Backed(a), Exact(a), a.protecting # 0, a.protecting =< broker[a.plan].covered, NEW at
  PROVE  Exact(ProtectionAcknowledged(a, [target |-> a.protecting, at |-> at]))
<1>1. PICK b : b = ProtectionAcknowledged(a, [target |-> a.protecting, at |-> at])
  OBVIOUS
<1>2. a \in Attempts /\ a.plan \in Plans /\ a.protected \in Nat /\ a.protecting \in Nat /\ a.protected =< a.protecting
  BY AttemptShape DEF Backed
<1>3. b.plan = a.plan /\ b.protected = a.protecting /\ b.protecting = 0
  BY <1>1, <1>2, ProtectedCounts
<1>4. broker[a.plan].covered = a.protecting
  BY <1>2 DEF Exact
<1>5. \A k \in 1..Quantity : record[a.plan][k] # "NONE" => k =< a.protecting
  BY <1>2 DEF Exact
<1>6. Exact(b)
  BY <1>3, <1>4, <1>5 DEF Exact
<1> QED BY <1>1, <1>6

LEMMA ExactEngines ==
  ASSUME BookInv, FlightInv, ExactInv, NEW c \in running,
         Initialize(c) \/ ApplyFill(c) \/ Acknowledge(c) \/ ApplyExit(c)
  PROVE  ExactInv'
<1>0. CommandOK(c) /\ Shapes /\ (disciplined => OnCurrent(c))
  BY DEF BookInv, FlightInv
<1>1. UNCHANGED <<session, outside>>
  BY DEF Initialize, ApplyFill, Acknowledge, ApplyExit
<1>2. ASSUME NEW r, Finish(c, r), disciplined /\ ~lost => Exact(r.attempt)
      PROVE  ExactInv'
  <2>1. results' \subseteq results \union {r}
    BY <1>2, FinishKeeps
  <2> QED BY <1>1, <1>2, <2>1, ExactEnds
<1>3. CASE Initialize(c)
  <2>1. PICK a : a = c.submission.attempt
    OBVIOUS
  <2>2. PICK b : b = EntryAcknowledged(a, [order |-> a.plan, at |-> c.submission.at])
    OBVIOUS
  <2>3. PICK r : r = [kind |-> "INITIALIZATION_RESULT", attempt |-> b]
    OBVIOUS
  <2>4. Finish(c, r)
    BY <1>3, <2>1, <2>2, <2>3 DEF Initialize
  <2>5. a.plan \in Plans /\ a = NewOrder(a.plan) /\ session.attempt # None
    BY <1>0, <1>3, <2>1 DEF Initialize, CommandOK, ResultOK, OurPlan
  <2>6. a \in Attempts
    BY <1>0, <2>5, NewOrderBacked, Zenon DEF Backed
  <2>7. ASSUME disciplined, ~lost PROVE Exact(b)
    <3>1. a = session.attempt
      BY <1>0, <1>3, <2>1, <2>7 DEF Initialize, OnCurrent
    <3>2. Exact(a)
      BY <2>5, <2>7, <3>1, ExactCurrent
    <3>3. b.plan = a.plan /\ b.protected = a.protected /\ b.protecting = a.protecting
      BY <2>2, <2>6, AcknowledgedCounts
    <3> QED BY <3>2, <3>3, SamePending
  <2>8. r.attempt = b
    BY <2>3
  <2> QED BY <1>2, <2>4, <2>7, <2>8
<1>4. CASE ApplyFill(c)
  <2>1. Ours(c.attempt)
    BY <1>0, <1>4 DEF ApplyFill, CommandOK
  <2>2. PICK r : Finish(c, r) /\ (r.attempt = c.attempt \/ r.attempt = EntryFilled(c.attempt, c.fill))
    BY <1>4 DEF ApplyFill
  <2>3. ASSUME disciplined, ~lost PROVE Exact(r.attempt)
    <3>1. c.attempt = session.attempt
      BY <1>0, <1>4, <2>3 DEF ApplyFill, OnCurrent
    <3>2. Exact(c.attempt)
      BY <2>1, <2>3, <3>1, ExactCurrent DEF Ours
    <3>3. r.attempt.plan = c.attempt.plan /\ r.attempt.protected = c.attempt.protected
          /\ r.attempt.protecting = c.attempt.protecting
      BY <2>1, <2>2, FilledCounts DEF Ours, Backed
    <3> QED BY <3>2, <3>3, SamePending
  <2> QED BY <1>2, <2>2, <2>3
<1>5. CASE Acknowledge(c)
  <2>1. PICK a, at : a = c.protection.attempt /\ at = c.protection.at
    OBVIOUS
  <2>2. PICK b : b = ProtectionAcknowledged(a, [target |-> a.protecting, at |-> at])
    OBVIOUS
  <2>3. PICK r : r = [kind |-> "LIFECYCLE_RESULT", attempt |-> b]
    OBVIOUS
  <2>4. Finish(c, r)
    BY <1>5, <2>1, <2>2, <2>3 DEF Acknowledge
  <2>5. Ours(a) /\ c.protection.status = "CONFIRMED" /\ Covered(c.protection)
    BY <1>0, <1>5, <2>1 DEF Acknowledge, CommandOK
  <2>6. a.protecting # 0 /\ a.protecting =< broker[a.plan].covered
    BY <1>5, <2>1, <2>5 DEF Acknowledge, Covered, CanAcknowledgeProtection
  <2>7. ASSUME disciplined, ~lost PROVE Exact(b)
    <3>1. a = session.attempt
      BY <1>0, <1>5, <2>1, <2>7 DEF Acknowledge, OnCurrent
    <3>2. Exact(a)
      BY <2>5, <2>7, <3>1, ExactCurrent DEF Ours
    <3> QED BY <1>0, <2>2, <2>5, <2>6, <3>2, ExactAcknowledged DEF Ours
  <2>8. r.attempt = b
    BY <2>3
  <2> QED BY <1>2, <2>4, <2>7, <2>8
<1>6. CASE ApplyExit(c)
  <2>1. Ours(c.attempt)
    BY <1>0, <1>6 DEF ApplyExit, CommandOK
  <2>2. PICK a : /\ Finish(c, [kind |-> "EXIT_RESULT", attempt |-> a])
                 /\ a = c.attempt \/ a = Exited(c.attempt, c.fill)
    BY <1>6 DEF ApplyExit
  <2>3. PICK r : r = [kind |-> "EXIT_RESULT", attempt |-> a]
    OBVIOUS
  <2>4. Finish(c, r) /\ r.attempt = a
    BY <2>2, <2>3
  <2>5. ASSUME disciplined, ~lost PROVE Exact(a)
    <3>1. c.attempt = session.attempt
      BY <1>0, <1>6, <2>5 DEF ApplyExit, OnCurrent
    <3>2. Exact(c.attempt)
      BY <2>1, <2>5, <3>1, ExactCurrent DEF Ours
    <3>3. a.plan = c.attempt.plan /\ a.protected = c.attempt.protected /\ a.protecting = c.attempt.protecting
      BY <2>1, <2>2, ExitedCounts DEF Ours, Backed
    <3> QED BY <3>2, <3>3, SamePending
  <2> QED BY <1>2, <2>4, <2>5
<1> QED BY <1>3, <1>4, <1>5, <1>6

LEMMA ExactOthers ==
  ASSUME BookInv, FlightInv, ExactInv, NEW c \in running,
         \/ RunStage(c) \/ CreateBasis(c) \/ Value(c) \/ Cost(c) \/ Gross(c) \/ Net(c) \/ Multiple(c) \/ End(c)
  PROVE  ExactInv'
<1>1. UNCHANGED <<session, outside>>
  BY DEF RunStage, CreateBasis, Value, Cost, Gross, Net, Multiple, End
<1>2. ASSUME NEW r, Finish(c, r), r.kind \notin Carriers
      PROVE  ExactInv'
  <2>1. results' \subseteq results \union {r}
    BY <1>2, FinishKeeps
  <2> QED BY <1>1, <1>2, <2>1, ExactEnds
<1>3. CASE RunStage(c)
  <2>1. CASE c.op \in DOMAIN Yields /\ Finish(c, [kind |-> Yields[c.op]])
    <3>1. PICK r : r = [kind |-> Yields[c.op]]
      OBVIOUS
    <3>2. r.kind \notin Carriers
      BY <2>1, <3>1 DEF Yields, Carriers
    <3> QED BY <1>2, <2>1, <3>1, <3>2
  <2>2. ASSUME NEW p, Finish(c, [kind |-> "PREPARED", plan |-> p]) PROVE ExactInv'
    <3>1. PICK r : r = [kind |-> "PREPARED", plan |-> p]
      OBVIOUS
    <3>2. r.kind \notin Carriers /\ Finish(c, r)
      BY <2>2, <3>1 DEF Carriers
    <3> QED BY <1>2, <3>2
  <2> QED BY <1>3, <2>1, <2>2 DEF RunStage
<1>4. CASE CreateBasis(c) \/ Value(c) \/ Cost(c) \/ Net(c) \/ Multiple(c)
  <2>1. PICK r : Finish(c, r) /\ r.kind \notin Carriers
    BY <1>4 DEF CreateBasis, Value, Cost, Net, Multiple, Carriers
  <2> QED BY <1>2, <2>1
<1>5. CASE Gross(c) \/ End(c)
  <2>1. results' = results
    BY <1>5 DEF Gross, End
  <2> QED BY <1>1, <2>1, ExactEnds
<1> QED BY <1>3, <1>4, <1>5
-----------------------------------------------------------------------------
(* The calls of the broker, and what the broker does on its own.               *)

LEMMA ExactSubmit ==
  ASSUME BookInv, FlightInv, ExactInv, NEW c \in running, Submit(c)
  PROVE  ExactInv'
<1>0. Shapes /\ CommandOK(c)
  BY DEF BookInv
<1>1. PICK p \in Plans : p = c.plan
  BY <1>0 DEF Submit, CommandOK
<1>2. broker \in [Plans -> Side]
  BY <1>0 DEF Shapes, Side
<1>3. PICK accepted : accepted = [broker[p] EXCEPT !.working = TRUE]
  OBVIOUS
<1>4. accepted.covered = broker[p].covered
  BY <1>2, <1>3, Accepted
<1>5. Call(c, p, 0, accepted, "SUBMISSION_RESULT", NewOrder(p)) /\ UNCHANGED <<mode, disciplined, session, caller, reports>>
  BY <1>1, <1>3, Zenon DEF Submit
<1>6. 0 \in 0..Quantity
  BY Constants
<1>7. Answered(c, p, 0, accepted, "SUBMISSION_RESULT", NewOrder(p))
  BY <1>0, <1>5, <1>6, CallSteps, Zenon
<1>8. /\ broker' = broker \/ broker' = [broker EXCEPT ![p] = accepted]
      /\ \A r \in results' : r \in results \/ r.kind = "SUBMISSION_RESULT"
      /\ lost' \in {lost, TRUE}
  BY <1>7 DEF Answered
<1>9. \A q \in Plans : broker'[q].covered = broker[q].covered
  BY <1>2, <1>4, <1>8
<1>10. disciplined => results = {} /\ session.attempt = None
  BY DEF FlightInv, OnCurrent, Submit
<1>11. \A q \in Plans : broker'[q].covered # 0 => OurPlan(q)'
  BY <1>5, <1>9 DEF ExactInv, OurPlan
<1>12. disciplined' => session'.attempt = None /\ \A r \in results' : r.kind \notin Carriers
  BY <1>5, <1>8, <1>10 DEF Carriers
<1> QED BY <1>11, <1>12 DEF ExactInv

\* The one call that covers: it is made once for what is pending.
LEMMA ExactCall ==
  ASSUME Shapes, NEW b, Backed(b), Exact(b), b.protecting \in 1..Quantity, NEW accepted,
         accepted.covered = broker[b.plan].covered + (b.protecting - b.protected),
         broker' = broker \/ broker' = [broker EXCEPT ![b.plan] = accepted],
         \/ record[b.plan][b.protecting] # "NONE" /\ record' = record /\ broker' = broker
         \/ /\ record[b.plan][b.protecting] = "NONE"
            /\ \E status \in {"CONFIRMED", "REJECTED", "SUBMITTED"} :
                 record' = [record EXCEPT ![b.plan][b.protecting] = status]
  PROVE  Exact(b)'
<1>1. b.plan \in Plans /\ b.protected \in Nat
  BY AttemptShape DEF Backed
<1>2. CASE record[b.plan][b.protecting] # "NONE" /\ record' = record /\ broker' = broker
  BY <1>2, ExactStays
<1>3. ASSUME NEW status \in {"CONFIRMED", "REJECTED", "SUBMITTED"}, record[b.plan][b.protecting] = "NONE",
             record' = [record EXCEPT ![b.plan][b.protecting] = status]
      PROVE  Exact(b)'
  <2>0. /\ record \in [Plans -> [0..Quantity -> {"NONE", "SUBMITTED", "CONFIRMED", "REJECTED"}]]
        /\ broker \in [Plans -> Side]
    BY DEF Shapes, Side
  <2>1. broker[b.plan].covered = b.protected
    BY <1>3 DEF Exact
  <2>2. broker'[b.plan].covered \in {b.protected, b.protecting}
    <3>1. CASE broker' = broker
      BY <2>1, <3>1
    <3>2. CASE broker' = [broker EXCEPT ![b.plan] = accepted]
      <4>1. broker'[b.plan] = accepted
        BY <1>1, <2>0, <3>2
      <4>2. accepted.covered = b.protecting
        BY <1>1, <2>1
      <4> QED BY <4>1, <4>2
    <3> QED BY <3>1, <3>2
  <2>3. record'[b.plan][b.protecting] = status
    <3>1. PICK p \in Plans, n \in 0..Quantity : p = b.plan /\ n = b.protecting
      BY <1>1
    <3>2. record' = [record EXCEPT ![p][n] = status]
      BY <1>3, <3>1
    <3>3. record'[p][n] = status
      BY <2>0, <3>2
    <3> QED BY <3>1, <3>3
  <2>4. ASSUME NEW k \in 1..Quantity, k # b.protecting PROVE record'[b.plan][k] = record[b.plan][k]
    <3>1. PICK p \in Plans, n \in 0..Quantity : p = b.plan /\ n = b.protecting
      BY <1>1
    <3>2. record' = [record EXCEPT ![p][n] = status] /\ k # n /\ k \in 0..Quantity
      BY <1>3, <2>4, <3>1
    <3>3. record'[p][k] = record[p][k]
      BY <2>0, <3>2
    <3> QED BY <3>1, <3>3
  <2>5. \A k \in 1..Quantity : record'[b.plan][k] # "NONE" => k =< b.protected \/ k = b.protecting
    BY <2>4 DEF Exact
  <2>6. b.protecting # 0 /\ record'[b.plan][b.protecting] # "NONE"
    BY <2>3
  <2> QED BY <2>2, <2>5, <2>6 DEF Exact
<1> QED BY <1>2, <1>3

LEMMA ExactProtect ==
  ASSUME BookInv, FlightInv, ExactInv, NEW c \in running, Protect(c)
  PROVE  ExactInv'
<1>0. Shapes /\ ReportsInv /\ CommandOK(c) /\ (disciplined => OnCurrent(c) /\ results = {})
  BY DEF BookInv, FlightInv
<1>1. PICK a : a = c.fill.attempt
  BY Zenon
<1>2. Ours(a) /\ Backed(a) /\ a \in Attempts
  BY <1>0, <1>1 DEF Protect, CommandOK, Ours, Backed
<1>3. disciplined /\ ~lost => Exact(a)
  BY <1>0, <1>1, <1>2, ExactCurrent DEF Protect, OnCurrent, Ours
<1> DEFINE Answer(attempt, status) ==
             Finish(c, [kind |-> "PROTECTION_RESULT", attempt |-> attempt, status |-> status, at |-> None])
           covered == [broker[a.plan] EXCEPT !.covered = @ + Increment(Pending(a))]
<1>4. ASSUME NEW b, disciplined /\ ~lost => Exact(b), NEW status, Answer(b, status), UNCHANGED <<broker, record, lost>>
      PROVE  ExactInv'
  <2>1. PICK r : r = [kind |-> "PROTECTION_RESULT", attempt |-> b, status |-> status, at |-> None]
    OBVIOUS
  <2>2. r.attempt = b /\ results' \subseteq results \union {r}
    BY <1>4, <2>1, FinishKeeps
  <2>3. UNCHANGED <<session, outside>>
    BY <1>4 DEF Protect, outside
  <2> QED BY <1>4, <2>2, <2>3, ExactEnds
<1>5. CASE Answer(a, "NO_ACTION") /\ UNCHANGED <<broker, record, lost>>
  BY <1>3, <1>4, <1>5
<1>6. disciplined /\ ~lost => Exact(Pending(a))
  BY <1>2, <1>3, ExactPending
<1>7. CASE Answer(Pending(a), "BLOCKED") /\ UNCHANGED <<broker, record, lost>>
  BY <1>4, <1>6, <1>7
<1>8. CASE /\ a.protecting # 0 \/ CanRequestProtection(a)
           /\ Call(c, a.plan, Pending(a).protecting, covered, "PROTECTION_RESULT", Pending(a))
  <2>1. PICK b : b = Pending(a)
    OBVIOUS
  <2>2. Backed(b) /\ b.plan = a.plan /\ b.protecting \in Nat \ {0}
    BY <1>2, <1>8, <2>1, RequestedBacked
  <2>3. PICK p \in Plans : p = a.plan
    BY <1>2, AttemptShape DEF Backed
  <2>4. broker \in [Plans -> Side] /\ broker[p] \in Side
    BY <1>0 DEF Shapes, Side
  <2>5. b.protected \in Nat /\ b.protected =< b.protecting /\ b.protecting =< Quantity
    <3>1. b.protecting =< b.filled /\ b.filled =< Quantity /\ b.filled \in Nat /\ b.protected \in Nat
      BY <1>0, <2>2, BackedWithin, AttemptShape DEF Backed
    <3> QED BY <2>2, <3>1, Constants DEF Backed
  <2>6. PICK n \in Nat : n = broker[p].covered + (b.protecting - b.protected)
    BY <2>2, <2>4, <2>5 DEF Side
  <2>7. PICK accepted : accepted = [broker[p] EXCEPT !.covered = n]
    OBVIOUS
  <2>8. covered = accepted
    BY <2>1, <2>3, <2>4, <2>6, <2>7 DEF Increment, Side
  <2>9. accepted.covered = n
    BY <2>4, <2>7, Accepted
  <2>10. PICK k \in 1..Quantity : k = b.protecting
    BY <2>2, <2>5, Constants
  <2>11. k \in 0..Quantity
    OBVIOUS
  <2> HIDE DEF covered
  <2>12. Call(c, p, k, accepted, "PROTECTION_RESULT", b)
    BY <1>8, <2>1, <2>3, <2>8, <2>10, Zenon
  <2>13. Answered(c, p, k, accepted, "PROTECTION_RESULT", b)
    BY <1>0, <2>11, <2>12, CallSteps, Zenon
  <2>14. /\ broker' = broker \/ broker' = [broker EXCEPT ![p] = accepted]
         /\ \/ record[p][k] # "NONE" /\ record' = record /\ broker' = broker
            \/ /\ record[p][k] = "NONE"
               /\ \E status \in {"CONFIRMED", "REJECTED", "SUBMITTED"} : record' = [record EXCEPT ![p][k] = status]
         /\ lost' \in {lost, TRUE}
         /\ disciplined /\ ~lost' => \E r \in results' : r.kind = "PROTECTION_RESULT"
         /\ \A r \in results' : r \in results \/ r.attempt = b
    BY <2>13 DEF Answered
  <2>15. UNCHANGED <<mode, disciplined, session, caller, reports>>
    BY DEF Protect
  <2>16. \A q \in Plans : broker'[q].covered # 0 => OurPlan(q)'
    <3>1. ASSUME NEW q \in Plans, broker'[q].covered # 0 PROVE broker[q].covered # 0 \/ OurPlan(q)
      <4>1. CASE q = p
        BY <1>2, <2>3, <4>1 DEF Ours, OurPlan
      <4>2. CASE q # p
        <5>1. broker'[q] = broker[q]
          BY <2>4, <2>14, <4>2
        <5> QED BY <3>1, <5>1
      <4> QED BY <4>1, <4>2
    <3> QED BY <2>15, <3>1 DEF ExactInv, OurPlan
  <2>17. ASSUME disciplined, ~lost'
         PROVE  /\ \E r \in results' : r.kind \in Carriers
                /\ \A r \in results' : Exact(r.attempt)'
    <3>1. ~lost
      BY <2>14, <2>17 DEF BookInv, Shapes
    <3>2. Exact(b)
      BY <1>6, <2>1, <2>17, <3>1
    <3>3. Exact(b)'
      BY <1>0, <2>2, <2>3, <2>6, <2>9, <2>10, <2>14, <3>2, ExactCall
    <3>4. \A r \in results' : r.attempt = b
      BY <1>0, <2>14, <2>17
    <3> QED BY <2>14, <2>17, <3>3, <3>4 DEF Carriers
  <2> QED BY <2>15, <2>16, <2>17 DEF ExactInv
<1> HIDE DEF Answer, covered
<1>9. \/ Answer(a, "NO_ACTION") /\ UNCHANGED <<broker, record, lost>>
      \/ Answer(Pending(a), "BLOCKED") /\ UNCHANGED <<broker, record, lost>>
      \/ /\ a.protecting # 0 \/ CanRequestProtection(a)
         /\ Call(c, a.plan, Pending(a).protecting, covered, "PROTECTION_RESULT", Pending(a))
  BY <1>1, Zenon DEF Protect, Answer, covered
<1> QED BY <1>5, <1>7, <1>8, <1>9

\* The broker's fills and exits leave what is covered as it is.
LEMMA ExactBroker ==
  ASSUME BookInv, ExactInv, NEW p \in Plans, NEW q \in 1..Quantity, BrokerFill(p, q) \/ BrokerExit(p, q)
  PROVE  ExactInv'
<1>1. UNCHANGED <<mode, disciplined, session, running, results, caller, record, lost>>
  BY DEF BrokerFill, BrokerExit
<1>2. broker \in [Plans -> Side]
  BY DEF BookInv, Shapes, Side
<1>3. ASSUME NEW x \in Plans PROVE broker'[x].covered = broker[x].covered
  <2>1. ASSUME NEW n PROVE /\ [broker EXCEPT ![p].filled = n][x].covered = broker[x].covered
                           /\ [broker EXCEPT ![p].exited = n][x].covered = broker[x].covered
    BY <1>2 DEF Side
  <2> QED BY <2>1 DEF BrokerFill, BrokerExit
<1>4. \A x \in Plans : broker'[x].covered # 0 => OurPlan(x)'
  BY <1>1, <1>3 DEF ExactInv, OurPlan
<1>5. ASSUME NEW a, a.plan \in Plans, Exact(a) PROVE Exact(a)'
  BY <1>1, <1>3, <1>5 DEF Exact
<1>6. \A r \in results : r.kind \in Carriers => r.attempt.plan \in Plans
  BY AttemptShape DEF BookInv, ResultOK, Carriers, Ours, Backed
<1>7. session.attempt # None => session.attempt.plan \in Plans
  BY AttemptShape DEF BookInv, SessionInv, Backed
<1> QED BY <1>1, <1>4, <1>5, <1>6, <1>7 DEF ExactInv

LEMMA ExactStep == ASSUME BookInv, BookInv', FlightInv, ExactInv, [Next]_vars PROVE ExactInv'
<1>1. ASSUME UNCHANGED <<session, results, outside>> PROVE ExactInv'
  BY <1>1, ExactQuiet
<1>2. CASE UNCHANGED vars
  BY <1>1, <1>2 DEF vars, outside
<1>3. ASSUME NEW r \in results, Feed(r) PROVE ExactInv'
  BY <1>3, ExactFeed
<1>4. ASSUME NEW c \in running, Execute(c) PROVE ExactInv'
  BY <1>4, ExactOthers, ExactEngines, ExactSubmit, ExactProtect DEF Execute
<1>5. ASSUME NEW f, NEW a, ObserveFill(f, a) \/ ObserveExit(f, a) PROVE ExactInv'
  BY <1>1, <1>5 DEF ObserveFill, ObserveExit, Observed
<1>6. ASSUME NEW op, RequestProjection(op) PROVE ExactInv'
  BY <1>1, <1>6 DEF RequestProjection, Observed
<1>7. CASE ObserveTrade
  BY <1>1, <1>7 DEF ObserveTrade, Observed
<1>8. CASE Next
  BY <1>3, <1>4, <1>5, <1>6, <1>7, <1>8, ExactBroker DEF Next
<1> QED BY <1>2, <1>8

LEMMA ExactInit == ASSUME Init PROVE ExactInv
<1>1. PICK p \in Plans \union {None} :
       /\ session = [attempt |-> IF p = None THEN None
                                 ELSE EntryAcknowledged(NewOrder(p), EntryAccepted(p)),
                     basis |-> None, multiple |-> None]
       /\ broker = [q \in Plans |-> [working |-> q = p, filled |-> 0, covered |-> 0, exited |-> 0]]
       /\ record = [q \in Plans |-> [k \in 0..Quantity |-> IF q = p /\ k = 0 THEN "CONFIRMED" ELSE "NONE"]]
  BY DEF Init
<1>2. results = {}
  BY DEF Init
<1>3. ASSUME NEW q \in Plans PROVE broker[q].covered = 0 /\ \A k \in 1..Quantity : record[q][k] = "NONE"
  BY <1>1
<1>4. PICK attempt : attempt = IF p = None THEN None ELSE EntryAcknowledged(NewOrder(p), EntryAccepted(p))
  OBVIOUS
<1>5. session.attempt = attempt
  BY <1>1, <1>4
<1>6. ASSUME p \in Plans PROVE Exact(EntryAcknowledged(NewOrder(p), EntryAccepted(p)))
  <2>1. PICK n, e : n = NewOrder(p) /\ e = EntryAccepted(p)
    OBVIOUS
  <2>2. PICK b : b = EntryAcknowledged(n, e)
    OBVIOUS
  <2>3. Shapes
    BY InitIsBooked DEF BookInv
  <2>4. n \in Attempts
    BY <1>6, <2>1, <2>3, NewOrderBacked, Zenon DEF Backed
  <2>5. n.plan = p /\ n.protected = 0 /\ n.protecting = 0
    BY <2>1, NewOrderRecord
  <2>6. b.plan = p /\ b.protected = 0 /\ b.protecting = 0
    BY <2>2, <2>4, <2>5, AcknowledgedCounts
  <2>7. Exact(b)
    BY <1>3, <1>6, <2>6 DEF Exact
  <2> QED BY <2>1, <2>2, <2>7
<1>7. attempt # None => Exact(attempt)
  BY <1>4, <1>6
<1> QED BY <1>2, <1>3, <1>5, <1>7 DEF ExactInv

LEMMA ExactInvariant == Spec => []ExactInv
<1>1. Init => ExactInv
  BY ExactInit
<1>2. BookInv /\ BookInv' /\ FlightInv /\ ExactInv /\ [Next]_vars => ExactInv'
  BY ExactStep
<1> QED BY <1>1, <1>2, BookInvariant, FlightInvariant, PTL DEF Spec

\* With a disciplined caller, and no command lost after the broker had acted, no
\* unit that the broker filled is covered twice, whenever fills arrive.
THEOREM FillsAreCoveredOnce == Spec => []CoveredOnce
<1>1. BookInv /\ FlightInv /\ ExactInv => CoveredOnce
  <2> SUFFICES ASSUME BookInv, FlightInv, ExactInv, disciplined, ~lost, NEW p \in Plans
               PROVE  broker[p].covered =< broker[p].filled
    BY DEF CoveredOnce, CoverWithinFills
  <2>1. Shapes /\ ReportsInv
    BY DEF BookInv
  <2>2. broker[p].covered \in Nat /\ broker[p].filled \in Nat
    BY <2>1, Constants DEF Shapes
  <2>3. ASSUME NEW a, Backed(a), Exact(a), a.plan = p PROVE broker[p].covered =< broker[p].filled
    <3>1. a.filled =< broker[p].filled /\ a.filled \in Nat /\ a.protected \in Nat /\ a.protecting \in Nat
          /\ a.protected =< a.filled /\ a.protecting =< a.filled
      BY <2>1, <2>3, BackedWithin, AttemptShape DEF Backed
    <3> QED BY <2>2, <2>3, <3>1 DEF Exact
  <2>4. CASE broker[p].covered = 0
    BY <2>2, <2>4
  <2>5. CASE broker[p].covered # 0
    <3>1. session.attempt # None /\ p = session.attempt.plan
      BY <2>5 DEF ExactInv, OurPlan
    <3>2. CASE \A r \in results : r.kind \notin Carriers
      BY <2>3, <3>1, <3>2 DEF ExactInv, BookInv, SessionInv
    <3>3. ASSUME NEW r \in results, r.kind \in Carriers PROVE broker[p].covered =< broker[p].filled
      <4>1. Ours(r.attempt)
        BY <3>3 DEF BookInv, ResultOK, Carriers
      <4> QED BY <2>3, <3>1, <3>3, <4>1 DEF ExactInv, Ours
    <3> QED BY <3>2, <3>3
  <2> QED BY <2>4, <2>5
<1> QED BY <1>1, BookInvariant, FlightInvariant, ExactInvariant, PTL
=============================================================================
