----------------------------- MODULE MCExecution -----------------------------
EXTENDS TradeAccounting

\* One adapter with native brackets that cannot cancel, one that needs managed
\* protection and can, and one that supports no protection at all.
Adapter(bracket, partial) ==
  [bracket |-> bracket, closeOnly |-> ~bracket, partialFills |-> partial, cancellation |-> partial]
Declared == {Adapter(TRUE, FALSE), Adapter(FALSE, TRUE), Adapter(FALSE, FALSE)}
Managed == {Adapter(FALSE, TRUE)}
Buys == <<5, 6>>
Sells == <<9, 3>>
BothSides == {1, -1}
SomeMarks == {[price |-> 4, at |-> 9], [price |-> 4, at |-> 1]}

Cost(id, effect, amount, at) == [id |-> id, effect |-> effect, amount |-> amount, at |-> at]
SomeDeliveries ==
  LET fee == Cost("fee", "DEBIT", 2, 1)  rebate == Cost("rebate", "CREDIT", 1, 2)
      early == Cost("early", "DEBIT", 1, 0)
  IN  {<<>>, <<fee, rebate, fee>>, <<rebate, fee, rebate>>, <<fee, early>>,
       <<fee, Cost("fee", "DEBIT", 3, 1)>>}
=============================================================================
