------------------------- MODULE IdempotencyLedger -------------------------
(***************************************************************************)
(* One row of broker_idempotency_records under the repository of           *)
(* execution-store-postgres/src/idempotency-repository.ts: claims that     *)
(* insert it or find it, and outcomes recorded on it by any number of      *)
(* callers, in any order and with whatever clock each of them has.  Every  *)
(* operation locks the row (FOR UPDATE), so it is one action.              *)
(***************************************************************************)
EXTENDS Naturals, IdempotencyRecord

CONSTANTS Fingerprints, \* request fingerprints callers claim the key with
          NoOne,        \* the fingerprint of the absent row
          OrderIds,     \* order ids the adapter may report for this key
          NoOrder,      \* no adapterOrderId
          MaxTime,      \* the last updatedAt a caller supplies
          MaxRetries    \* bound: retries authorised in a run

ASSUME LedgerAssumption == /\ NoOne \notin Fingerprints
                           /\ NoOrder \notin OrderIds
                           /\ MaxTime \in Nat
                           /\ MaxRetries \in Nat

VARIABLES row,          \* the durable row
          submissions,  \* times a caller was told it applied SUBMITTED
          retries       \* times RETRY_AUTHORIZED was applied

rvars == <<row, submissions, retries>>

Rows == [status : Statuses, claim : Fingerprints \cup {NoOne},
         updatedAt : 0..MaxTime, order : OrderIds \cup {NoOrder}]

LInit == /\ row = [status |-> "ABSENT", claim |-> NoOne, updatedAt |-> 0,
                   order |-> NoOrder]
         /\ submissions = 0
         /\ retries = 0

\* INSERT ... ON CONFLICT DO NOTHING.  A second claim reads the row and says
\* EXISTING_SAME_REQUEST or CONFLICT: it changes nothing.
Claim(f, t) ==
    /\ row.status = "ABSENT"
    /\ row' = [status |-> "CLAIMED", claim |-> f, updatedAt |-> t,
               order |-> NoOrder]
    /\ UNCHANGED <<submissions, retries>>

\* recordIdempotencyOutcomeInTransaction refuses (throws) another request's
\* fingerprint, a clock that moves back and an order id that replaces one.
MayRecord(f, t, order) ==
    /\ row.status # "ABSENT"
    /\ row.claim = f
    /\ t >= row.updatedAt
    /\ row.order = NoOrder \/ order = NoOrder \/ order = row.order

\* Mutant: the id last reported replaces the first.
LastOrder(order) == order
\* COALESCE(adapter_order_id, $9): an id once known is kept.
KeptOrder(order) == IF row.order = NoOrder THEN order ELSE row.order

RecordTransition(f, s, t, order) ==
    /\ MayRecord(f, t, order)
    /\ Applies(row.status, s)
    /\ s = "RETRY_AUTHORIZED" => retries < MaxRetries
    /\ row' = [row EXCEPT !.status = s, !.updatedAt = t,
                          !.order = KeptOrder(order)]
    /\ submissions' = IF s = "SUBMITTED" THEN submissions + 1 ELSE submissions
    /\ retries' = IF s = "RETRY_AUTHORIZED" THEN retries + 1 ELSE retries

\* The same status again with a new fact: only an unknown outcome takes it.
RecordEnrichment(f, s, t, order) ==
    /\ MayRecord(f, t, order)
    /\ SameAgain(row.status, s)
    /\ s = "OUTCOME_UNKNOWN"
    /\ row.order = NoOrder
    /\ order # NoOrder
    /\ row' = [row EXCEPT !.updatedAt = t, !.order = order]
    /\ UNCHANGED <<submissions, retries>>

LNext == \E f \in Fingerprints, t \in 0..MaxTime :
            \/ Claim(f, t)
            \/ \E s \in Requestable, order \in OrderIds \cup {NoOrder} :
                  \/ RecordTransition(f, s, t, order)
                  \/ RecordEnrichment(f, s, t, order)

LSpec == LInit /\ [][LNext]_rvars

-----------------------------------------------------------------------------
\* The row has the shape of its table, and a recorded row was claimed.
LedgerTypeOK == /\ row \in Rows
                /\ row.status = "ABSENT" <=> row.claim = NoOne
                /\ submissions \in Nat
                /\ retries \in 0..MaxRetries

\* A caller may call the broker when it was told that it applied SUBMITTED.
\* That happens once, and once more for every retry the ledger authorised, so
\* no interleaving of claims, outcomes and repeats pays one permit twice.
OneSubmissionPerPermit == submissions <= 1 + retries

\* The facts of a row only grow: the identity is the first claim's for ever,
\* an order id is never lost or replaced, the time never runs back; and a
\* settled row never changes again, neither its verdict, nor its order id, nor
\* its time (the reconciliation of a settled request must be refused).
FactsOnlyGrow ==
    [][/\ row.status \in Settled => row' = row
       /\ row.claim # NoOne => row'.claim = row.claim
       /\ row.order # NoOrder => row'.order = row.order
       /\ row'.updatedAt >= row.updatedAt]_rvars
=============================================================================
