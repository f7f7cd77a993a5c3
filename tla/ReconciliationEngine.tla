------------------------ MODULE ReconciliationEngine ------------------------
(***************************************************************************)
(* The generic execution-reconciliation engine over one durable            *)
(* idempotency record: callers that orchestrate a request to the broker    *)
(* (execution-reconciliation-engine/src/orchestration.ts) and callers that *)
(* reconcile it (reconciliation.ts).  There is no lease and no fence here: *)
(* the record's row lock is all that orders them.  Every await is a step   *)
(* of its own, and anything may happen between two of them.                *)
(***************************************************************************)
EXTENDS Naturals, IdempotencyRecord

CONSTANTS Callers,    \* concurrent calls, of one process or of several
          Requests,   \* requests they make under the one idempotency key
          NoRequest,  \* the request of the absent record, or of no call
          MaxPermits  \* bound: retries authorised in a run

ASSUME EngineAssumption == NoRequest \notin Requests /\ MaxPermits \in Nat

VARIABLES record,  \* the durable idempotency record
          call,    \* where each caller is, its request and what it was told
          broker,  \* what the broker has done with the key: its own truth
          sent,    \* the requests that were given to the adapter
          calls,   \* calls of the adapter
          permits  \* times RETRY_AUTHORIZED was applied

evars == <<record, call, broker, sent, calls, permits>>

Rest == [at |-> "idle", request |-> NoRequest, said |-> "NONE"]

EInit == /\ record = [status |-> "ABSENT", claim |-> NoRequest]
         /\ call = [c \in Callers |-> Rest]
         /\ broker = "NONE"
         /\ sent = {}
         /\ calls = 0
         /\ permits = 0

At(c, step) == call[c].at = step
Goto(c, step) == call' = [call EXCEPT ![c].at = step]
Return(c) == call' = [call EXCEPT ![c] = Rest]

\* persistOutcome: a status conflict throws, and only that: finding the
\* status there already is as good as having written it.
Persist(s) == /\ Accepts(record.status, s)
              /\ record' = [record EXCEPT !.status = s]
              /\ s = "RETRY_AUTHORIZED" => permits < MaxPermits
              /\ permits' = IF s = "RETRY_AUTHORIZED" /\ s # record.status
                            THEN permits + 1 ELSE permits

\* The caller dies, or throws: a conflict, a clock that ran back, no
\* connection.  What it has written stays.
Abandon(c) == /\ ~At(c, "idle")
              /\ Return(c)
              /\ UNCHANGED <<record, broker, sent, calls, permits>>

-----------------------------------------------------------------------------
(* orchestrate                                                             *)

ClaimNew(c, f) ==
    /\ At(c, "idle")
    /\ record.status = "ABSENT"
    /\ record' = [status |-> "CLAIMED", claim |-> f]
    /\ call' = [call EXCEPT ![c] = [Rest EXCEPT !.at = "mark", !.request = f]]
    /\ UNCHANGED <<broker, sent, calls, permits>>

\* Mutant: the key alone decides that it is the same request.
RetryAnyRequest(c, f) ==
    /\ At(c, "idle")
    /\ record.status = "RETRY_AUTHORIZED"
    /\ call' = [call EXCEPT ![c] = [Rest EXCEPT !.at = "mark", !.request = f]]
    /\ UNCHANGED <<record, broker, sent, calls, permits>>
\* handleExisting lets a record pass whose retry was authorised; every other
\* one, or another request, is answered at once and nothing changes.
RetryExisting(c, f) ==
    /\ At(c, "idle")
    /\ record.status = "RETRY_AUTHORIZED"
    /\ record.claim = f
    /\ call' = [call EXCEPT ![c] = [Rest EXCEPT !.at = "mark", !.request = f]]
    /\ UNCHANGED <<record, broker, sent, calls, permits>>

\* Mutant: SUBMITTED is written after the adapter's answer only.
MarkLater(c) == /\ At(c, "mark")
                /\ Goto(c, "invoke")
                /\ UNCHANGED <<record, broker, sent, calls, permits>>
MarkSubmitted(c) == /\ At(c, "mark")
                    /\ Persist("SUBMITTED")
                    /\ Goto(c, "invoke")
                    /\ UNCHANGED <<broker, sent, calls>>

\* The broker processes the request, once per key, or never gets it; its
\* reply may be lost.  RETRY_SAFE and DO_NOT_RETRY are definite failures.
Invoke(c, reply) ==
    /\ At(c, "invoke")
    /\ calls' = calls + 1
    /\ sent' = sent \cup {call[c].request}
    /\ \/ /\ broker' \in (IF broker = "NONE" THEN {"ACCEPTED", "REJECTED"}
                                             ELSE {broker})
          /\ reply \in {broker', "AMBIGUOUS"}
       \/ /\ reply \in {"AMBIGUOUS", "RETRY_SAFE", "DO_NOT_RETRY"}
          /\ UNCHANGED broker
    /\ call' = [call EXCEPT ![c].at = "answer", ![c].said = reply]
    /\ UNCHANGED <<record, permits>>

\* Mutant: a failure that may have reached the broker is a rejection.
StatusOfGuess(reply) ==
    CASE reply = "ACCEPTED" -> "CONFIRMED"
      [] reply \in {"REJECTED", "AMBIGUOUS"} -> "REJECTED"
      [] reply = "RETRY_SAFE" -> "RETRY_AUTHORIZED"
      [] reply = "DO_NOT_RETRY" -> "FAILED_NOT_SUBMITTED"
\* An acknowledgement, a rejection, or the disposition of a failure.
StatusOfReply(reply) ==
    CASE reply = "ACCEPTED" -> "CONFIRMED"
      [] reply = "REJECTED" -> "REJECTED"
      [] reply = "AMBIGUOUS" -> "OUTCOME_UNKNOWN"
      [] reply = "RETRY_SAFE" -> "RETRY_AUTHORIZED"
      [] reply = "DO_NOT_RETRY" -> "FAILED_NOT_SUBMITTED"

Answer(c) == /\ At(c, "answer")
             /\ Persist(StatusOfReply(call[c].said))
             /\ Return(c)
             /\ UNCHANGED <<broker, sent, calls>>

-----------------------------------------------------------------------------
(* reconcileExecutionOutcome                                               *)

\* The record is read once, before the provider is asked; a settled or an
\* authorised one, or another request's, is answered from what was read.
ReadRecord(c, f) ==
    /\ At(c, "idle")
    /\ record.claim = f
    /\ record.status \in {"CLAIMED", "SUBMITTED", "OUTCOME_UNKNOWN"}
    /\ call' = [call EXCEPT ![c] = [Rest EXCEPT !.at = "ask", !.request = f]]
    /\ UNCHANGED <<record, broker, sent, calls, permits>>

\* An honest provider tells what the broker has done so far, or that it does
\* not know.
Ask(c, answer) ==
    /\ At(c, "ask")
    /\ answer \in {"STILL_UNKNOWN", IF broker = "NONE" THEN "NOT_SUBMITTED"
                                                      ELSE broker}
    /\ call' = [call EXCEPT ![c].at = "store", ![c].said = answer]
    /\ UNCHANGED <<record, broker, sent, calls, permits>>

StatusOfObservation(answer) ==
    CASE answer = "ACCEPTED" -> "CONFIRMED"
      [] answer = "REJECTED" -> "REJECTED"
      [] answer = "NOT_SUBMITTED" -> "RETRY_AUTHORIZED"
      [] answer = "STILL_UNKNOWN" -> "OUTCOME_UNKNOWN"

StoreObservation(c) == /\ At(c, "store")
                       /\ Persist(StatusOfObservation(call[c].said))
                       /\ Return(c)
                       /\ UNCHANGED <<broker, sent, calls>>

-----------------------------------------------------------------------------
Replies == {"ACCEPTED", "REJECTED", "AMBIGUOUS", "RETRY_SAFE", "DO_NOT_RETRY"}
Observations == {"ACCEPTED", "REJECTED", "NOT_SUBMITTED", "STILL_UNKNOWN"}

Orchestrate(c) ==
    \/ \E f \in Requests : ClaimNew(c, f) \/ RetryExisting(c, f)
    \/ MarkSubmitted(c)
    \/ \E reply \in Replies : Invoke(c, reply)
    \/ Answer(c)

ReconcileOutcome(c) == \/ \E f \in Requests : ReadRecord(c, f)
                       \/ \E answer \in Observations : Ask(c, answer)
                       \/ StoreObservation(c)

ENext == \E c \in Callers : \/ Orchestrate(c)
                            \/ ReconcileOutcome(c)
                            \/ Abandon(c)

ESpec == EInit /\ [][ENext]_evars

-----------------------------------------------------------------------------
\* The record, the calls and the counters have their shape.
EngineTypeOK ==
    /\ record \in [status : Statuses, claim : Requests \cup {NoRequest}]
    /\ record.status = "ABSENT" <=> record.claim = NoRequest
    /\ call \in [Callers -> [at : {"idle", "mark", "invoke", "answer", "ask",
                                   "store"},
                             request : Requests \cup {NoRequest},
                             said : Replies \cup Observations \cup {"NONE"}]]
    /\ broker \in {"NONE", "ACCEPTED", "REJECTED"}
    /\ sent \subseteq Requests
    /\ calls \in Nat
    /\ permits \in 0..MaxPermits

\* The crash window is safe: once a request has been given to the adapter its
\* record no longer reads as unattempted, whoever dies and whatever callers
\* and reconcilers write over each other.
NoUnmarkedCall == calls > 0 => record.status \notin {"ABSENT", "CLAIMED"}

\* One key stands for one request: of the callers that race with different
\* requests under it, only those with the claimed one reach the adapter.
OneRequestPerKey == sent \subseteq {record.claim}

\* A verdict that settled the record is the broker's own, although callers
\* answer late and reconcilers act on what they saw before.
VerdictIsTrue == /\ record.status = "CONFIRMED" => broker = "ACCEPTED"
                 /\ record.status = "REJECTED" => broker = "REJECTED"
=============================================================================
