------------------------------ MODULE MCSession ------------------------------
EXTENDS TradingSession

Managed == [bracket |-> FALSE, closeOnly |-> TRUE, partialFills |-> TRUE, cancellation |-> TRUE]
AnyCaller == {TRUE, FALSE}
Interchangeable == Permutations(Plans)
\* A disciplined caller's orders are filled in full, another's are filled in part.
FilledUpTo == [d \in BOOLEAN |-> IF d THEN 2 ELSE 1]
=============================================================================
