--------------------------- MODULE ExecutionAttempt ---------------------------
(* The execution attempt of execution-engine: the aggregate that follows one   *)
(* entry order, its fills, the protection of what was filled, the exits and    *)
(* the cancellation.  policy.ts is pure: a transition takes an attempt and an  *)
(* event or request and returns the next attempt or a rejection.  Here a       *)
(* transition is a guard (CanX) and the attempt it returns (Xed).              *)
(*                                                                             *)
(* Quantities are numbers of the smallest unit: the code's decimals are exact. *)
(* A protection request is named by its cumulative target, from which the code *)
(* makes its identity and idempotency key.  Times start at 1; lastAt = 0       *)
(* stands for an attempt without events.                                       *)
EXTENDS Integers, SequencesExt

CONSTANTS
  Quantity,       \* the plan's quantity
  NoOrder,        \* no broker order id yet
  NoCapabilities, \* the adapter is not chosen yet
  Refused         \* the result of a restoration that fails

ASSUME QuantityAssumption == Quantity \in Nat \ {0}

\* The capabilities the policy reads; the two it only compares are left out.
Capabilities ==
  [bracket : BOOLEAN, closeOnly : BOOLEAN, partialFills : BOOLEAN, cancellation : BOOLEAN]

ProtectionMode(c) ==
  IF c.bracket THEN "NATIVE_BRACKET"
  ELSE IF c.closeOnly /\ c.partialFills THEN "MANAGED_PROTECTION"
  ELSE "NOT_SUPPORTED"

NewAttempt ==
  [entry |-> "NOT_SUBMITTED", capabilities |-> NoCapabilities, order |-> NoOrder,
   filled |-> 0, protected |-> 0, exited |-> 0,
   fills |-> <<>>, exits |-> <<>>, coverage |-> <<>>,
   protecting |-> 0, canceling |-> FALSE, failed |-> FALSE,
   cancelRefused |-> FALSE, lastAt |-> 0]

Unprotected(a) == a.filled - a.protected

\* deriveState: failure, rejection and pending requests hide everything else.
State(a) ==
  CASE a.failed -> "FAILED"
    [] ~a.failed /\ a.entry = "REJECTED" -> "REJECTED"
    [] ~a.failed /\ a.entry # "REJECTED" /\ a.canceling -> "CANCEL_PENDING"
    [] ~a.failed /\ a.entry # "REJECTED" /\ ~a.canceling /\ a.protecting # 0 -> "PROTECTION_PENDING"
    [] OTHER ->
       IF a.exited > 0
       THEN IF a.entry \in {"FILLED", "CANCELED"} /\ a.exited = a.filled
            THEN "EXIT_FILLED" ELSE "EXIT_PARTIALLY_FILLED"
       ELSE IF a.entry = "CANCELED"
       THEN IF a.filled = 0 THEN "CANCELED" ELSE "ENTRY_CANCELED_WITH_EXPOSURE"
       ELSE IF a.entry = "FILLED"
       THEN IF a.protected = a.filled THEN "PROTECTED" ELSE "ENTRY_FILLED"
       ELSE IF a.filled > 0 THEN "ENTRY_PARTIALLY_FILLED"
       ELSE IF a.entry = "WORKING" THEN "ENTRY_WORKING"
       ELSE IF a.entry = "SUBMISSION_PENDING" THEN "ENTRY_SUBMISSION_PENDING"
       ELSE "READY_FOR_ENTRY_SUBMISSION"

\* Mutant: two events of the same time are not accepted.
InTimeStrictly(a, e) == e.at > a.lastAt

\* eventTimeAccepted: equal times are accepted, earlier ones never.
InTime(a, e) == e.at >= a.lastAt
-----------------------------------------------------------------------------
CanRequestEntry(a, c) ==
  /\ ProtectionMode(c) # "NOT_SUPPORTED"
  /\ a.entry = "NOT_SUBMITTED"
EntryRequested(a, c) == [a EXCEPT !.entry = "SUBMISSION_PENDING", !.capabilities = c]

CanAcknowledgeEntry(a, e) == a.entry = "SUBMISSION_PENDING" /\ InTime(a, e)
EntryAcknowledged(a, e) == [a EXCEPT !.entry = "WORKING", !.order = e.order, !.lastAt = e.at]

CanRejectEntry(a, e) == a.entry = "SUBMISSION_PENDING" /\ InTime(a, e)
EntryRejected(a, e) == [a EXCEPT !.entry = "REJECTED", !.lastAt = e.at]

\* Mutant: a fill is accepted whether or not the order is still working.
CanFillAnytime(a, f) ==
  /\ \A i \in DOMAIN a.fills : a.fills[i].id # f.id
  /\ a.order = f.order
  /\ InTime(a, f)
  /\ a.filled + f.qty =< Quantity

CanFill(a, f) ==
  /\ \A i \in DOMAIN a.fills : a.fills[i].id # f.id
  /\ a.entry = "WORKING"
  /\ a.order = f.order
  /\ InTime(a, f)
  /\ a.filled + f.qty =< Quantity
EntryFilled(a, f) ==
  [a EXCEPT !.entry = IF a.filled + f.qty = Quantity THEN "FILLED" ELSE "WORKING",
            !.filled = @ + f.qty, !.fills = Append(@, f), !.lastAt = f.at]

CanExit(a, f) ==
  /\ \A i \in DOMAIN a.exits : a.exits[i].id # f.id
  /\ \E i \in DOMAIN a.coverage : a.coverage[i].target = f.target
  /\ InTime(a, f)
  /\ a.exited + f.qty =< a.protected
  /\ a.exited + f.qty =< a.filled
  /\ a.exited + f.qty =< f.target
Exited(a, f) == [a EXCEPT !.exited = @ + f.qty, !.exits = Append(@, f), !.lastAt = f.at]

CanRequestProtection(a) ==
  /\ a.protecting = 0
  /\ a.capabilities # NoCapabilities
  /\ ~a.failed
  /\ a.entry \notin {"NOT_SUBMITTED", "SUBMISSION_PENDING", "REJECTED"}
  /\ Unprotected(a) # 0

ProtectionRequested(a) == [a EXCEPT !.protecting = a.filled]

\* Mutant: the whole target is ordered again with each protection.
IncrementAgain(a) == a.protecting

\* The quantity a pending request adds to what is protected.
Increment(a) == a.protecting - a.protected

\* Mutant: an acknowledgement is not matched with the pending request.
CanAcknowledgeAnyProtection(a, e) ==
  /\ a.protecting # 0
  /\ e.target >= a.protected
  /\ e.target =< a.filled
  /\ InTime(a, e)

CanAcknowledgeProtection(a, e) ==
  /\ a.protecting # 0
  /\ e.target = a.protecting
  /\ e.target >= a.protected
  /\ e.target =< a.filled
  /\ InTime(a, e)
\* Mutant: what has filled since the request counts as protected.
AllProtected(a, e) ==
  [a EXCEPT !.protected = a.filled, !.protecting = 0, !.lastAt = e.at,
            !.coverage = Append(@, [target |-> e.target, at |-> e.at])]

ProtectionAcknowledged(a, e) ==
  [a EXCEPT !.protected = e.target, !.protecting = 0, !.lastAt = e.at,
            !.coverage = Append(@, [target |-> e.target, at |-> e.at])]

CanRejectProtection(a, e) == a.protecting # 0 /\ e.target = a.protecting /\ InTime(a, e)
ProtectionRejected(a, e) == [a EXCEPT !.failed = TRUE, !.protecting = 0, !.lastAt = e.at]

CanRequestCancellation(a) ==
  /\ ~a.canceling
  /\ a.capabilities # NoCapabilities
  /\ a.capabilities.cancellation
  /\ a.entry = "WORKING"
  /\ a.order # NoOrder
  /\ a.filled < Quantity
CancellationRequested(a) == [a EXCEPT !.canceling = TRUE]

CanAnswerCancellation(a, e) == a.canceling /\ e.order = a.order /\ InTime(a, e)
CancellationAcknowledged(a, e) ==
  [a EXCEPT !.entry = IF a.filled = Quantity THEN "FILLED" ELSE "CANCELED",
            !.canceling = FALSE, !.lastAt = e.at]
CancellationRejected(a, e) == [a EXCEPT !.cancelRefused = TRUE, !.canceling = FALSE, !.lastAt = e.at]
-----------------------------------------------------------------------------
(* One transition of the evidence, by its kind.                               *)

\* Recognised repetitions: the transition is accepted and the attempt returned as it is.
Repeats(a, t) ==
  \/ t.kind = "ENTRY_FILL" /\ \E i \in DOMAIN a.fills : a.fills[i] = t
  \/ t.kind = "EXIT_FILL" /\ \E i \in DOMAIN a.exits : a.exits[i] = t
  \/ t.kind = "REQUEST_ENTRY" /\ a.entry = "SUBMISSION_PENDING" /\ a.capabilities = t.capabilities
  \/ t.kind = "REQUEST_PROTECTION" /\ a.protecting # 0
  \/ t.kind = "REQUEST_CANCELLATION" /\ a.canceling

Accepts(a, t) ==
  \/ t.kind = "REQUEST_ENTRY" /\ CanRequestEntry(a, t.capabilities)
  \/ t.kind = "ENTRY_ACKNOWLEDGED" /\ CanAcknowledgeEntry(a, t)
  \/ t.kind = "ENTRY_REJECTED" /\ CanRejectEntry(a, t)
  \/ t.kind = "ENTRY_FILL" /\ CanFill(a, t)
  \/ t.kind = "EXIT_FILL" /\ CanExit(a, t)
  \/ t.kind = "REQUEST_PROTECTION" /\ CanRequestProtection(a)
  \/ t.kind = "PROTECTION_ACKNOWLEDGED" /\ CanAcknowledgeProtection(a, t)
  \/ t.kind = "PROTECTION_REJECTED" /\ CanRejectProtection(a, t)
  \/ t.kind = "REQUEST_CANCELLATION" /\ CanRequestCancellation(a)
  \/ t.kind \in {"CANCELLATION_ACKNOWLEDGED", "CANCELLATION_REJECTED"} /\ CanAnswerCancellation(a, t)

After(a, t) ==
  CASE t.kind = "REQUEST_ENTRY" -> EntryRequested(a, t.capabilities)
    [] t.kind = "ENTRY_ACKNOWLEDGED" -> EntryAcknowledged(a, t)
    [] t.kind = "ENTRY_REJECTED" -> EntryRejected(a, t)
    [] t.kind = "ENTRY_FILL" -> EntryFilled(a, t)
    [] t.kind = "EXIT_FILL" -> Exited(a, t)
    [] t.kind = "REQUEST_PROTECTION" -> ProtectionRequested(a)
    [] t.kind = "PROTECTION_ACKNOWLEDGED" -> ProtectionAcknowledged(a, t)
    [] t.kind = "PROTECTION_REJECTED" -> ProtectionRejected(a, t)
    [] t.kind = "REQUEST_CANCELLATION" -> CancellationRequested(a)
    [] t.kind = "CANCELLATION_ACKNOWLEDGED" -> CancellationAcknowledged(a, t)
    [] t.kind = "CANCELLATION_REJECTED" -> CancellationRejected(a, t)

\* restoreExecutionAttemptFromEvidence: the transitions in the order given, and
\* the first one that is rejected rejects the restoration.
Restore(evidence) ==
  LET Replay(a, t) == IF a = Refused THEN Refused
                      ELSE IF Repeats(a, t) THEN a
                      ELSE IF Accepts(a, t) THEN After(a, t)
                      ELSE Refused
  IN  FoldLeft(Replay, NewAttempt, evidence)
=============================================================================
