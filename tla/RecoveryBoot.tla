---------------------------- MODULE RecoveryBoot ----------------------------
(***************************************************************************)
(* What a durable snapshot of a session means to the process that boots on *)
(* it: sandbox-orchestration-recovery/src/classify.ts, on the snapshot that *)
(* orchestration-state-store-postgres/src/recovery-boot-loader.ts loads.   *)
(*                                                                         *)
(* A snapshot is a record                                                  *)
(*   leaseValid  the booting owner holds the unexpired lease               *)
(*   terminal    the recovery record is the terminal version               *)
(*   effects     the state of each pending effect row                      *)
(*   idem        the status of each effect's idempotency record            *)
(*   outcomes    the external outcomes: [key, effect, kind, says, fence]   *)
(*   adopted     the keys of the outcomes that have an adoption receipt    *)
(* Every reason for RECOVERY_REJECTED is the same to the models.  The rows *)
(* of one effect carry one identity and one creation proof, written in one *)
(* transaction, so the comparisons of identities and proofs succeed.       *)
(***************************************************************************)
EXTENDS Naturals, FiniteSets, IdempotencyRecord

Verdicts == {"ACCEPTED", "REJECTED", "NOT_SUBMITTED", "STILL_UNKNOWN"}

Pending(s) == {e \in DOMAIN s.effects : s.effects[e] = "PENDING"}
Closed(s)  == {e \in DOMAIN s.effects : s.effects[e] = "TERMINAL"}
Linked(s, e) == {o \in s.outcomes : o.effect = e}
Canonicals(s, e)   == {o \in Linked(s, e) : o.kind = "CANONICAL"}
Dispositions(s, e) == {o \in Linked(s, e) : o.kind = "DISPOSITION"}
Says(outcomes) == {o.says : o \in outcomes}

\* terminalResult: the one effect closed without submission explains the
\* terminal record, and nothing else of the session contradicts it.
TerminalCoherent(s) ==
    /\ Pending(s) = {}
    /\ \E e \in Closed(s) :
          /\ Closed(s) = {e}
          /\ s.idem[e] = "FAILED_NOT_SUBMITTED"
          /\ Canonicals(s, e) = {}
          /\ Says(Dispositions(s, e)) \subseteq {"NOT_SUBMITTED"}

\* An outcome belongs to a pending effect, or to one whose adoption its own
\* receipt explains; a broker disposition is never adopted.
OutcomeExplained(s, o) ==
    IF o.key \in s.adopted
    THEN s.effects[o.effect] # "PENDING" /\ o.kind = "CANONICAL"
    ELSE s.effects[o.effect] = "PENDING"

\* The two verdicts a canonical outcome may not meet.
Opposite(says) == CASE says = "ACCEPTED" -> "REJECTED"
                    [] says = "REJECTED" -> "ACCEPTED"
                    [] OTHER -> "NONE"
StatusOf(says) == CASE says = "ACCEPTED" -> "CONFIRMED"
                    [] says = "REJECTED" -> "REJECTED"
                    [] says = "NOT_SUBMITTED" -> "RETRY_AUTHORIZED"
                    [] says = "STILL_UNKNOWN" -> "OUTCOME_UNKNOWN"

CanonicalCoherent(s, e, c) ==
    /\ s.idem[e] \notin {"ABSENT", "CLAIMED", "RETRY_AUTHORIZED",
                         "FAILED_NOT_SUBMITTED"}
    /\ Opposite(c.says) \notin Says(Dispositions(s, e))
    /\ s.idem[e] # StatusOf(Opposite(c.says))
    /\ "NOT_SUBMITTED" \notin Says(Dispositions(s, e))

DispositionCoherent(s, e, d) ==
    /\ s.idem[e] # "ABSENT"
    /\ d.says # "STILL_UNKNOWN" => s.idem[e] = StatusOf(d.says)

PendingCoherent(s, e) ==
    /\ s.idem[e] # "FAILED_NOT_SUBMITTED"
    /\ Cardinality(Canonicals(s, e)) <= 1
    /\ Cardinality(Dispositions(s, e)) <= 1
    /\ \A c \in Canonicals(s, e) : CanonicalCoherent(s, e, c)
    /\ Canonicals(s, e) = {} =>
          \A d \in Dispositions(s, e) : DispositionCoherent(s, e, d)

\* What one pending effect asks for.
Candidate(s, e) ==
    IF Canonicals(s, e) # {} THEN "OUTCOME_AVAILABLE"
    ELSE IF \/ "STILL_UNKNOWN" \in Says(Dispositions(s, e))
            \/ s.idem[e] \in {"SUBMITTED", "OUTCOME_UNKNOWN"}
    THEN "RECONCILIATION_REQUIRED"
    ELSE IF s.idem[e] \in {"CONFIRMED", "REJECTED"}
    THEN "CANONICAL_OUTCOME_REQUIRED"
    ELSE "INTENT_DISPOSITION_REQUIRED"

Priority == <<"RECONCILIATION_REQUIRED", "CANONICAL_OUTCOME_REQUIRED",
              "OUTCOME_AVAILABLE", "INTENT_DISPOSITION_REQUIRED">>

Coherent(s) ==
    IF s.terminal THEN TerminalCoherent(s)
    ELSE /\ Closed(s) = {}
         /\ s.leaseValid
         /\ \A e \in Pending(s) : PendingCoherent(s, e)
         /\ \A o \in s.outcomes : OutcomeExplained(s, o)

\* classifyRecoveryBoot: the most urgent candidate of all the pending effects.
BootStatus(s) ==
    IF ~Coherent(s) THEN "RECOVERY_REJECTED"
    ELSE IF s.terminal THEN "TERMINAL_NON_SUBMISSION"
    ELSE IF Pending(s) = {} THEN "READY"
    ELSE LET asked == {i \in DOMAIN Priority :
                          \E e \in Pending(s) : Candidate(s, e) = Priority[i]}
         IN  Priority[CHOOSE i \in asked : \A j \in asked : i <= j]

\* The effects it may be about.  Among equals the code takes the first of an
\* order on their keys, which the models leave open.
BootEffects(s) == {e \in Pending(s) : Candidate(s, e) = BootStatus(s)}
=============================================================================
