-------------------------- MODULE IdempotencyProofs --------------------------
(***************************************************************************)
(* What one idempotency key guarantees: its row, for every set of          *)
(* fingerprints and order ids, every clock and any number of retries; and  *)
(* the generic engine over it, for any number of callers and requests.     *)
(* Nothing here depends on MaxPermits.                                     *)
(***************************************************************************)
EXTENDS IdempotencyLedger, ReconciliationEngine, TLAPS

(* The row.                                                                *)

\* Before a submission a permit is left, the first claim's or a retry's; an
\* absent row has no facts.
LedgerInv ==
    /\ LedgerTypeOK
    /\ OneSubmissionPerPermit
    /\ row.status \in {"ABSENT", "CLAIMED", "RETRY_AUTHORIZED"} =>
           submissions <= retries
    /\ row.status = "ABSENT" => row.order = NoOrder /\ row.updatedAt = 0

LEMMA LInitPermit == LInit => LedgerInv
BY LedgerAssumption DEF LInit, LedgerInv, LedgerTypeOK, OneSubmissionPerPermit,
                        Rows, Statuses

\* Every edge to SUBMITTED uses a permit, every one to RETRY_AUTHORIZED adds one.
LEMMA EdgePermits ==
    ASSUME NEW s, Applies(row.status, s)
    PROVE  /\ s \in Requestable
           /\ row.status # "ABSENT"
           /\ s = "SUBMITTED" => row.status \in {"CLAIMED", "RETRY_AUTHORIZED"}
           /\ row.status = "RETRY_AUTHORIZED" => s = "SUBMITTED"
BY DEF Applies, LegalEdges, Requestable, Statuses

LEMMA TransitionKeepsPermits ==
    ASSUME LedgerInv,
           NEW f \in Fingerprints, NEW t \in 0..MaxTime,
           NEW s \in Requestable, NEW order \in OrderIds \cup {NoOrder},
           RecordTransition(f, s, t, order)
    PROVE  LedgerInv'
<1>. USE LedgerAssumption
<1>1. row \in Rows /\ KeptOrder(order) \in OrderIds \cup {NoOrder}
  BY DEF LedgerInv, LedgerTypeOK, Rows, KeptOrder
<1>2. s \in Statuses /\ s # "ABSENT" /\ s # "CLAIMED"
  BY DEF Requestable
<1>3. row' = [row EXCEPT !.status = s, !.updatedAt = t,
                         !.order = KeptOrder(order)]
  BY DEF RecordTransition
<1>4. row' \in Rows /\ row'.status = s /\ row'.claim = row.claim
  BY <1>1, <1>2, <1>3 DEF Rows
<1>5. /\ s = "SUBMITTED" => row.status \in {"CLAIMED", "RETRY_AUTHORIZED"}
      /\ row.status # "ABSENT"
  BY EdgePermits DEF RecordTransition
<1>6. submissions \in Nat /\ retries \in 0..MaxRetries
  BY DEF LedgerInv, LedgerTypeOK
<1>7. LedgerTypeOK'
  BY <1>2, <1>4, <1>5, <1>6 DEF LedgerTypeOK, LedgerInv, RecordTransition
<1>8. CASE s = "SUBMITTED"
  BY <1>4, <1>5, <1>6, <1>7, <1>8
     DEF LedgerInv, OneSubmissionPerPermit, RecordTransition
<1>9. CASE s = "RETRY_AUTHORIZED"
  BY <1>4, <1>6, <1>7, <1>9
     DEF LedgerInv, OneSubmissionPerPermit, RecordTransition
<1>10. CASE s \notin {"SUBMITTED", "RETRY_AUTHORIZED"}
  BY <1>2, <1>4, <1>6, <1>7, <1>10
     DEF LedgerInv, OneSubmissionPerPermit, RecordTransition
<1>. QED BY <1>8, <1>9, <1>10

LEMMA StepKeepsPermits ==
    ASSUME LedgerInv, [LNext]_rvars
    PROVE  LedgerInv'
<1>. USE LedgerAssumption
<1>1. ASSUME NEW f \in Fingerprints, NEW t \in 0..MaxTime, Claim(f, t)
      PROVE  LedgerInv'
  BY <1>1 DEF Claim, LedgerInv, LedgerTypeOK, OneSubmissionPerPermit, Rows,
              Statuses
<1>2. ASSUME NEW f \in Fingerprints, NEW t \in 0..MaxTime,
             NEW s \in Requestable, NEW order \in OrderIds \cup {NoOrder},
             RecordEnrichment(f, s, t, order)
      PROVE  LedgerInv'
  <2>1. /\ row' \in Rows
        /\ row'.status = "OUTCOME_UNKNOWN" /\ row.status = "OUTCOME_UNKNOWN"
        /\ row'.claim = row.claim
    BY <1>2 DEF RecordEnrichment, SameAgain, LedgerInv, LedgerTypeOK, Rows
  <2>. QED BY <1>2, <2>1 DEF RecordEnrichment, LedgerInv, LedgerTypeOK,
                             OneSubmissionPerPermit
<1>3. CASE UNCHANGED rvars
  BY <1>3 DEF rvars, LedgerInv, LedgerTypeOK, OneSubmissionPerPermit
<1>. QED BY <1>1, <1>2, <1>3, TransitionKeepsPermits DEF LNext

\* The row keeps the shape of its table (idempotency-repository.ts), and no
\* outcome is recorded that no claim precedes.
THEOREM LedgerTyped == LSpec => []LedgerTypeOK
<1>1. LedgerInv => LedgerTypeOK
  BY DEF LedgerInv
<1>. QED BY <1>1, LInitPermit, StepKeepsPermits, PTL DEF LSpec

\* Claims and outcomes in any order let at most one caller go to the broker,
\* and one more for each retry that was authorised.
THEOREM OnePermitOneSubmission == LSpec => []OneSubmissionPerPermit
<1>1. LedgerInv => OneSubmissionPerPermit
  BY DEF LedgerInv
<1>. QED BY <1>1, LInitPermit, StepKeepsPermits, PTL DEF LSpec

-----------------------------------------------------------------------------
(* The row's own history.                                                  *)

LEMMA SettledStep ==
    ASSUME LNext, row.status \in Settled
    PROVE  row' = row
<1>1. ASSUME NEW s PROVE ~Applies(row.status, s)
  BY DEF Applies, LegalEdges, Settled
<1>. QED BY <1>1 DEF LNext, Claim, RecordTransition, RecordEnrichment,
                     SameAgain, Settled

LEMMA FactsStep ==
    ASSUME LedgerInv, [LNext]_rvars
    PROVE  /\ row.claim # NoOne => row'.claim = row.claim
           /\ row.order # NoOrder => row'.order = row.order
           /\ row'.updatedAt >= row.updatedAt
<1>. USE LedgerAssumption
<1>0. row \in Rows
  BY DEF LedgerInv, LedgerTypeOK
<1>1. ASSUME NEW f \in Fingerprints, NEW t \in 0..MaxTime, Claim(f, t)
      PROVE  /\ row.claim = NoOne /\ row.order = NoOrder
             /\ row'.updatedAt >= row.updatedAt
  BY <1>1 DEF Claim, LedgerInv, LedgerTypeOK
<1>2. ASSUME NEW f \in Fingerprints, NEW t \in 0..MaxTime,
             NEW s \in Requestable, NEW order \in OrderIds \cup {NoOrder},
             RecordTransition(f, s, t, order)
      PROVE  /\ row'.claim = row.claim
             /\ row.order # NoOrder => row'.order = row.order
             /\ row'.updatedAt >= row.updatedAt
  BY <1>0, <1>2 DEF RecordTransition, MayRecord, KeptOrder, Rows
<1>3. ASSUME NEW f \in Fingerprints, NEW t \in 0..MaxTime,
             NEW s \in Requestable, NEW order \in OrderIds \cup {NoOrder},
             RecordEnrichment(f, s, t, order)
      PROVE  /\ row'.claim = row.claim
             /\ row.order = NoOrder
             /\ row'.updatedAt >= row.updatedAt
  BY <1>0, <1>3 DEF RecordEnrichment, MayRecord, Rows
<1>4. CASE UNCHANGED rvars
  BY <1>0, <1>4 DEF rvars, Rows
<1>. QED BY <1>1, <1>2, <1>3, <1>4 DEF LNext

\* A row keeps its first claimant's fingerprint, keeps an order id once it
\* has one, its time never runs back, and once it is settled it is never
\* written again: recordOutcome answers every later report of a confirmed,
\* rejected or failed request without a change.
THEOREM FactsStay == LSpec => FactsOnlyGrow
<1>1. LNext => (row.status \in Settled => row' = row)
  BY SettledStep
<1>2. UNCHANGED rvars => (row.status \in Settled => row' = row)
  BY DEF rvars
<1>. QED BY <1>1, <1>2, LInitPermit, StepKeepsPermits, FactsStep, PTL
         DEF LSpec, FactsOnlyGrow

-----------------------------------------------------------------------------
(* The engine.                                                             *)

\* The record is past its claim: it cannot be taken for unattempted.
Attempted == record.status \notin {"ABSENT", "CLAIMED"}

\* What a caller at each of its steps may rely on.  Its request is the claimed
\* one, it has marked the record before it calls, and what it was told of a
\* verdict is the broker's.
CallerKnows(c) ==
    /\ ~At(c, "idle") => record.claim = call[c].request
                         /\ record.status # "ABSENT"
    /\ At(c, "invoke") \/ At(c, "answer") => Attempted
    /\ At(c, "answer") => call[c].said \in Replies
    /\ At(c, "store") => call[c].said \in Observations
    /\ At(c, "answer") \/ At(c, "store") =>
          /\ call[c].said = "ACCEPTED" => broker = "ACCEPTED"
          /\ call[c].said = "REJECTED" => broker = "REJECTED"

\* The inductive invariant.
EngineInv == /\ EngineTypeOK
             /\ NoUnmarkedCall
             /\ OneRequestPerKey
             /\ VerdictIsTrue
             /\ \A c \in Callers : CallerKnows(c)

\* A record takes the status that is persisted on it and keeps its claim; it
\* was claimed before, and is attempted after.
LEMMA PersistFacts ==
    ASSUME EngineTypeOK, NEW s \in Requestable, Persist(s)
    PROVE  /\ record' = [record EXCEPT !.status = s]
           /\ record'.status = s
           /\ record'.claim = record.claim
           /\ record' \in [status : Statuses, claim : Requests \cup {NoRequest}]
           /\ record.status # "ABSENT"
           /\ Attempted'
           /\ permits' \in 0..MaxPermits
  <1>1. record' = [record EXCEPT !.status = s]
        BY DEF Persist
  <1>2. s \in Statuses /\ s \notin {"ABSENT", "CLAIMED"}
        BY DEF Requestable
  <1>3. record'.status = s /\ record'.claim = record.claim
        BY <1>1 DEF EngineTypeOK
  <1>4. record' \in [status : Statuses, claim : Requests \cup {NoRequest}]
        BY <1>1, <1>2 DEF EngineTypeOK
  <1>5. record.status # "ABSENT"
        BY <1>2 DEF Persist, Accepts, Applies, SameAgain, LegalEdges
  <1>6. permits' \in 0..MaxPermits
        BY EngineAssumption
           DEF Persist, EngineTypeOK, EngineAssumption
  <1> QED  BY <1>1, <1>2, <1>3, <1>4, <1>5, <1>6 DEF Attempted

\* A caller that stands still keeps what it knows when no claim or verdict is
\* lost.
LEMMA OthersStillKnow ==
    ASSUME NEW c \in Callers, CallerKnows(c), call'[c] = call[c],
           record'.claim = record.claim, record'.status # "ABSENT",
           Attempted => Attempted', broker # "NONE" => broker' = broker
    PROVE  CallerKnows(c)'
  BY DEF CallerKnows, At

\* Every step of orchestrate and reconcileExecutionOutcome, and every death of
\* a caller between two of them, keeps the inductive invariant.
THEOREM EngineStep == EngineInv /\ [ENext]_evars => EngineInv'
  <1> SUFFICES ASSUME EngineInv, [ENext]_evars PROVE EngineInv'
      OBVIOUS
  <1> USE DEF EngineInv
  <1>0. CASE UNCHANGED evars
      BY <1>0 DEF evars, EngineTypeOK, NoUnmarkedCall, OneRequestPerKey,
                  VerdictIsTrue, CallerKnows, At, Attempted
  <1> SUFFICES ASSUME ENext PROVE EngineInv'
      BY <1>0
  <1> PICK c \in Callers : Orchestrate(c) \/ ReconcileOutcome(c) \/ Abandon(c)
      BY DEF ENext
  <1>1. ASSUME NEW f \in Requests, ClaimNew(c, f)
        PROVE  EngineInv'
      <2>1. record'.status = "CLAIMED" /\ record'.claim = f /\ f # NoRequest
            BY <1>1, EngineAssumption DEF ClaimNew, EngineAssumption
      <2>2. calls = 0
            BY <1>1 DEF ClaimNew, NoUnmarkedCall, EngineTypeOK
      <2>3. \A d \in Callers : At(d, "idle")
            BY <1>1 DEF ClaimNew, CallerKnows, At
      <2>4. EngineTypeOK'
            BY <1>1, <2>1 DEF ClaimNew, EngineTypeOK, Rest, Statuses
      <2>5. sent = {}
            BY <1>1, EngineAssumption
               DEF ClaimNew, EngineTypeOK, OneRequestPerKey, EngineAssumption
      <2>6. NoUnmarkedCall' /\ OneRequestPerKey' /\ VerdictIsTrue'
            BY <1>1, <2>1, <2>2, <2>5
               DEF ClaimNew, NoUnmarkedCall, OneRequestPerKey, VerdictIsTrue
      <2>7. ASSUME NEW d \in Callers PROVE CallerKnows(d)'
            BY <1>1, <2>1, <2>3 DEF ClaimNew, CallerKnows, At, Rest, EngineTypeOK
      <2> QED  BY <2>4, <2>6, <2>7
  <1>2. ASSUME NEW f \in Requests, RetryExisting(c, f) \/ ReadRecord(c, f)
        PROVE  EngineInv'
      <2>1. UNCHANGED <<record, broker, sent, calls, permits>>
            BY <1>2 DEF RetryExisting, ReadRecord
      <2>. DEFINE started(step) == [at |-> step, request |-> f, said |-> "NONE"]
      <2>2. PICK step \in {"mark", "ask"} :
                call' = [call EXCEPT ![c] = started(step)]
            BY <1>2 DEF RetryExisting, ReadRecord, Rest
      <2>3. record.claim = f /\ record.status # "ABSENT"
            BY <1>2 DEF RetryExisting, ReadRecord
      <2>4. call'[c] = started(step)
            BY <2>2 DEF EngineTypeOK
      <2>5. started(step) \in [at : {"idle", "mark", "invoke", "answer", "ask",
                                    "store"},
                               request : Requests \cup {NoRequest},
                               said : Replies \cup Observations \cup {"NONE"}]
            OBVIOUS
      <2>6. EngineTypeOK'
            BY <2>1, <2>2, <2>5 DEF EngineTypeOK
      <2>7. NoUnmarkedCall' /\ OneRequestPerKey' /\ VerdictIsTrue'
            BY <2>1 DEF NoUnmarkedCall, OneRequestPerKey, VerdictIsTrue
      <2>8. CallerKnows(c)'
            BY <2>1, <2>3, <2>4 DEF CallerKnows, At
      <2>9. ASSUME NEW d \in Callers, d # c PROVE CallerKnows(d)'
            BY <2>1, <2>2, <2>9 DEF CallerKnows, At, Attempted, EngineTypeOK
      <2> QED  BY <2>6, <2>7, <2>8, <2>9
  <1>3. ASSUME MarkSubmitted(c) PROVE EngineInv'
      <2>1. Persist("SUBMITTED") /\ "SUBMITTED" \in Requestable
            BY <1>3 DEF MarkSubmitted, Requestable, Statuses
      <2>2. /\ record'.status = "SUBMITTED"
            /\ record'.claim = record.claim
            /\ record' \in [status : Statuses, claim : Requests \cup {NoRequest}]
            /\ record.status # "ABSENT"
            /\ Attempted'
            /\ permits' \in 0..MaxPermits
            BY <2>1, PersistFacts
      <2>3. EngineTypeOK'
            BY <1>3, <2>2 DEF MarkSubmitted, Goto, EngineTypeOK
      <2>4. NoUnmarkedCall' /\ OneRequestPerKey' /\ VerdictIsTrue'
            BY <1>3, <2>2
               DEF MarkSubmitted, NoUnmarkedCall, OneRequestPerKey, VerdictIsTrue
      <2>5. CallerKnows(c)'
            BY <1>3, <2>2 DEF MarkSubmitted, Goto, CallerKnows, At, EngineTypeOK
      <2>6. ASSUME NEW d \in Callers, d # c PROVE CallerKnows(d)'
            <3>1. call'[d] = call[d] /\ broker' = broker
                  BY <1>3, <2>6 DEF MarkSubmitted, Goto, EngineTypeOK
            <3> QED  BY <2>2, <3>1, OthersStillKnow
      <2> QED  BY <2>3, <2>4, <2>5, <2>6
  <1>4. ASSUME NEW reply \in Replies, Invoke(c, reply) PROVE EngineInv'
      <2>1. /\ broker' \in {"NONE", "ACCEPTED", "REJECTED"}
            /\ broker # "NONE" => broker' = broker
            /\ reply = "ACCEPTED" => broker' = "ACCEPTED"
            /\ reply = "REJECTED" => broker' = "REJECTED"
            BY <1>4 DEF Invoke, EngineTypeOK
      <2>2. Attempted /\ call[c].request = record.claim
            BY <1>4 DEF Invoke, CallerKnows, At
      <2>3. record' = record /\ permits' = permits
            BY <1>4 DEF Invoke
      <2>4. sent' = sent \cup {record.claim} /\ calls' = calls + 1
            BY <1>4, <2>2 DEF Invoke
      <2>5. record.claim \in Requests
            BY <2>2 DEF EngineTypeOK, Attempted
      <2>6. EngineTypeOK'
            <3>1. call' = [call EXCEPT ![c].at = "answer", ![c].said = reply]
                  BY <1>4 DEF Invoke
            <3>2. sent' \subseteq Requests /\ calls' \in Nat
                  BY <2>4, <2>5 DEF EngineTypeOK
            <3>3. call' \in [Callers -> [at : {"idle", "mark", "invoke", "answer",
                                              "ask", "store"},
                                        request : Requests \cup {NoRequest},
                                        said : Replies \cup Observations
                                                       \cup {"NONE"}]]
                  BY <3>1, ZenonT(30) DEF EngineTypeOK
            <3> QED  BY <2>1, <2>3, <3>2, <3>3 DEF EngineTypeOK
      <2>7. NoUnmarkedCall' /\ OneRequestPerKey'
            BY <2>2, <2>3, <2>4 DEF NoUnmarkedCall, OneRequestPerKey, Attempted
      <2>8. VerdictIsTrue'
            BY <2>1, <2>3 DEF VerdictIsTrue
      <2>9. CallerKnows(c)'
            <3>0. call'[c] = [call[c] EXCEPT !.at = "answer", !.said = reply]
                  BY <1>4 DEF Invoke, EngineTypeOK
            <3>1. call'[c].at = "answer" /\ call'[c].said = reply
                  BY <3>0 DEF EngineTypeOK
            <3>2. call'[c].request = call[c].request
                  BY <3>0 DEF EngineTypeOK
            <3> QED  BY <2>1, <2>2, <2>3, <3>1, <3>2
                     DEF CallerKnows, At, Attempted
      <2>10. ASSUME NEW d \in Callers, d # c PROVE CallerKnows(d)'
            <3>1. call'[d] = call[d]
                  BY <1>4, <2>10 DEF Invoke, EngineTypeOK
            <3>2. record'.status # "ABSENT"
                  BY <2>2, <2>3 DEF Attempted
            <3> QED  BY <2>1, <2>2, <2>3, <3>1, <3>2, OthersStillKnow
                     DEF Attempted
      <2> QED  BY <2>6, <2>7, <2>8, <2>9, <2>10
  <1>5. ASSUME Answer(c) \/ StoreObservation(c) PROVE EngineInv'
      <2>1. PICK s \in Requestable :
                /\ Persist(s)
                /\ s = "CONFIRMED" => broker = "ACCEPTED"
                /\ s = "REJECTED" => broker = "REJECTED"
            <3>1. CASE Answer(c)
                  BY <3>1 DEF Answer, StatusOfReply, Requestable, Statuses,
                              CallerKnows, Replies
            <3>2. CASE StoreObservation(c)
                  BY <3>2 DEF StoreObservation, StatusOfObservation,
                              Requestable, Statuses, CallerKnows, Observations
            <3> QED  BY <1>5, <3>1, <3>2
      <2>2. Return(c) /\ UNCHANGED <<broker, sent, calls>>
            BY <1>5 DEF Answer, StoreObservation
      <2>3. /\ record'.status = s
            /\ record'.claim = record.claim
            /\ record' \in [status : Statuses, claim : Requests \cup {NoRequest}]
            /\ record.status # "ABSENT"
            /\ Attempted'
            /\ permits' \in 0..MaxPermits
            BY <2>1, PersistFacts
      <2>4. EngineTypeOK'
            BY <2>2, <2>3 DEF Return, Rest, EngineTypeOK, Attempted
      <2>5. NoUnmarkedCall' /\ OneRequestPerKey'
            BY <2>2, <2>3 DEF NoUnmarkedCall, OneRequestPerKey, Attempted
      <2>6. VerdictIsTrue'
            BY <2>1, <2>2, <2>3 DEF VerdictIsTrue
      <2>7. CallerKnows(c)'
            BY <2>2 DEF Return, Rest, CallerKnows, At, EngineTypeOK
      <2>8. ASSUME NEW d \in Callers, d # c PROVE CallerKnows(d)'
            <3>1. call'[d] = call[d]
                  BY <2>2, <2>8 DEF Return, EngineTypeOK
            <3>2. record'.status # "ABSENT"
                  BY <2>3 DEF Attempted
            <3> QED  BY <2>2, <2>3, <3>1, <3>2, OthersStillKnow
      <2> QED  BY <2>4, <2>5, <2>6, <2>7, <2>8
  <1>6. ASSUME NEW answer \in Observations, Ask(c, answer) PROVE EngineInv'
      <2>1. UNCHANGED <<record, broker, sent, calls, permits>>
            BY <1>6 DEF Ask
      <2>2. EngineTypeOK'
            BY <1>6, <2>1, ZenonT(30) DEF Ask, EngineTypeOK
      <2>3. NoUnmarkedCall' /\ OneRequestPerKey' /\ VerdictIsTrue'
            BY <2>1 DEF NoUnmarkedCall, OneRequestPerKey, VerdictIsTrue
      <2>4. CallerKnows(c)'
            BY <1>6, <2>1 DEF Ask, CallerKnows, At, EngineTypeOK
      <2>5. ASSUME NEW d \in Callers, d # c PROVE CallerKnows(d)'
            BY <1>6, <2>1, <2>5 DEF Ask, CallerKnows, At, Attempted, EngineTypeOK
      <2> QED  BY <2>2, <2>3, <2>4, <2>5
  <1>7. ASSUME Abandon(c) PROVE EngineInv'
      <2>1. UNCHANGED <<record, broker, sent, calls, permits>>
            BY <1>7 DEF Abandon
      <2>2. EngineTypeOK'
            BY <1>7, <2>1 DEF Abandon, Return, Rest, EngineTypeOK
      <2>3. NoUnmarkedCall' /\ OneRequestPerKey' /\ VerdictIsTrue'
            BY <2>1 DEF NoUnmarkedCall, OneRequestPerKey, VerdictIsTrue
      <2>4. ASSUME NEW d \in Callers PROVE CallerKnows(d)'
            BY <1>7, <2>1
               DEF Abandon, Return, Rest, CallerKnows, At, Attempted, EngineTypeOK
      <2> QED  BY <2>2, <2>3, <2>4
  <1> QED  BY <1>1, <1>2, <1>3, <1>4, <1>5, <1>6, <1>7
           DEF Orchestrate, ReconcileOutcome

\* In every reachable state the record, the callers and the counters have
\* their shape and every caller knows what it may rely on.
THEOREM EngineSafe == ESpec => []EngineInv
  <1>1. EInit => EngineInv
        BY EngineAssumption
           DEF EngineAssumption, EInit, EngineInv, EngineTypeOK, NoUnmarkedCall,
               OneRequestPerKey, VerdictIsTrue, CallerKnows, At, Rest, Statuses
  <1> QED  BY <1>1, EngineStep, PTL DEF ESpec

\* The crash window: a request that may have reached the broker never reads as
\* unattempted again.
THEOREM CallsAreMarked == ESpec => []NoUnmarkedCall
  <1>1. EngineInv => NoUnmarkedCall  BY DEF EngineInv
  <1> QED  BY <1>1, EngineSafe, PTL

\* One idempotency key stands for one request, whoever races.
THEOREM KeyNamesRequest == ESpec => []OneRequestPerKey
  <1>1. EngineInv => OneRequestPerKey  BY DEF EngineInv
  <1> QED  BY <1>1, EngineSafe, PTL

\* With an honest broker and provider a settled record tells the truth.
THEOREM VerdictsAreTrue == ESpec => []VerdictIsTrue
  <1>1. EngineInv => VerdictIsTrue  BY DEF EngineInv
  <1> QED  BY <1>1, EngineSafe, PTL
=============================================================================
