------------------------- MODULE IdempotencyRecord -------------------------
(***************************************************************************)
(* The rules of a broker idempotency record, one per adapter, environment  *)
(* and idempotency key: broker-adapters/src/idempotency.ts.  Operators     *)
(* only; IdempotencyLedger runs them on one durable row, RecoverableRuntime *)
(* and RecoveryBoot on the rows of a session.                              *)
(***************************************************************************)

\* ABSENT stands for the row that no claim has inserted yet.
Statuses == {"ABSENT", "CLAIMED", "SUBMITTED", "OUTCOME_UNKNOWN",
             "RETRY_AUTHORIZED", "CONFIRMED", "REJECTED",
             "FAILED_NOT_SUBMITTED"}
Requestable == Statuses \ {"ABSENT", "CLAIMED"}
Settled == {"CONFIRMED", "REJECTED", "FAILED_NOT_SUBMITTED"}

\* LEGAL_OUTCOME_EDGES.  Recording on an absent row throws.
LegalEdges(status) ==
    CASE status = "CLAIMED" -> {"SUBMITTED", "CONFIRMED", "REJECTED",
                                "OUTCOME_UNKNOWN", "RETRY_AUTHORIZED"}
      [] status = "SUBMITTED" -> {"CONFIRMED", "REJECTED", "OUTCOME_UNKNOWN",
                                  "RETRY_AUTHORIZED", "FAILED_NOT_SUBMITTED"}
      [] status = "OUTCOME_UNKNOWN" -> {"CONFIRMED", "REJECTED",
                                        "RETRY_AUTHORIZED"}
      [] status = "RETRY_AUTHORIZED" -> {"SUBMITTED"}
      [] OTHER -> {}

\* Mutant: an unknown outcome is submitted again without reconciliation.
AppliesBlindly(current, requested) ==
    \/ requested \in LegalEdges(current)
    \/ current = "OUTCOME_UNKNOWN" /\ requested = "SUBMITTED"
\* The request moves the row along a legal edge: APPLIED_TRANSITION.
Applies(current, requested) == requested \in LegalEdges(current)
\* The row has the status already: DUPLICATE_SAME or APPLIED_ENRICHMENT.
SameAgain(current, requested) == current = requested
\* The request leaves the row in the status it asks for.
Accepts(current, requested) ==
    Applies(current, requested) \/ SameAgain(current, requested)
=============================================================================
