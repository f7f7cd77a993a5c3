------------------------- MODULE RecoverableRuntime -------------------------
(***************************************************************************)
(* The recoverable orchestration runtime of one session: processes that    *)
(* boot from the durable rows, submit a pending effect to the broker,      *)
(* reconcile it and adopt its outcome                                      *)
(* (orchestration-state-store-postgres/src/recoverable-runtime.ts), over   *)
(* the fenced writer, the commit services and the boot loader.             *)
(*                                                                         *)
(* Each await of the runtime on the database is one transaction, which     *)
(* locks the lease row first and rechecks it last: one action.  Between    *)
(* two of them anything may happen: other processes run, the lease lapses, *)
(* the process dies.  A call of the broker is two actions: the broker's    *)
(* doing, with its answer, and the process's dealing with the answer.      *)
(***************************************************************************)
EXTENDS RecoveryBoot

CONSTANTS Procs,          \* processes that run the runtime
          Owners,         \* lease owner identities
          OwnerOf,        \* the owner identity each process uses
          Effects,        \* execution effects of the session
          After,          \* those whose acceptance an effect waits for
          Keys,           \* outcome keys callers supply
          NoOne,          \* the NULL owner, or no effect, or no key
          Answers,        \* what the reconciliation provider may say
          MaxFence,       \* bound: lease acquisitions
          MaxRetries      \* bound: retries authorised for an effect

ASSUME RuntimeAssumption ==
    /\ OwnerOf \in [Procs -> Owners]
    /\ After \in [Effects -> SUBSET Effects]
    /\ NoOne \notin Owners \cup Effects \cup Keys
    /\ Answers \subseteq Verdicts \cup {"CANONICAL_REJECTED"}
    /\ MaxFence \in Nat \ {0}
    /\ MaxRetries \in Nat

VARIABLES
    lease,      \* the lease row, and the fence the recovery row shares with it
    grants,     \* every grant of the lease
    revision,   \* the recovery row's revision; it fixes its checkpoint
    terminal,   \* the recovery row is the terminal version
    effects,    \* the pending-effect rows
    idem,       \* the status of each effect's idempotency record
    outcomes,   \* the external outcome rows
    receipts,   \* the commit, adoption and terminal receipts
    broker,     \* what the broker has done with each effect: its own truth
    calls,      \* calls of the broker for each effect
    unguarded,  \* effects called for by a process that did not hold the lease
                \* at the call, or not alone: read by no step
    permits,    \* times RETRY_AUTHORIZED was applied for each effect
    proc        \* where each process is and what it remembers

durable == <<lease, grants, revision, terminal, effects, idem, outcomes,
             receipts>>
outside == <<broker, calls, unguarded>>
vars    == <<lease, grants, revision, terminal, effects, idem, outcomes,
             receipts, broker, calls, unguarded, permits, proc>>

Fences == 1..MaxFence
Replies == {"ACCEPTED", "REJECTED", "AMBIGUOUS", "RETRY_SAFE", "DO_NOT_RETRY"}
Steps == {"idle", "intent", "claim", "mark", "check", "call", "respond",
          "adopt", "preflight", "observe", "store"}
Idle == [at |-> "idle", fence |-> 0, revision |-> 0, effect |-> NoOne,
         retry |-> FALSE, said |-> "NONE", key |-> NoOne]

\* The session has its recovery record; its last lease was released.
Init ==
    /\ lease = [owner |-> NoOne, fence |-> 1, live |-> FALSE]
    /\ grants = {}
    /\ revision = 0
    /\ terminal = FALSE
    /\ effects = [e \in Effects |-> "NONE"]
    /\ idem = [e \in Effects |-> "ABSENT"]
    /\ outcomes = {}
    /\ receipts = {}
    /\ broker = [e \in Effects |-> "NONE"]
    /\ calls = [e \in Effects |-> 0]
    /\ unguarded = {}
    /\ permits = [e \in Effects |-> 0]
    /\ proc = [p \in Procs |-> Idle]

-----------------------------------------------------------------------------
(* The lease.  LeaseStore has it in full; here it is held or not.          *)

Acquire(p) ==
    /\ ~lease.live
    /\ lease.fence < MaxFence
    /\ lease' = [owner |-> OwnerOf[p], fence |-> lease.fence + 1,
                 live |-> TRUE]
    /\ grants' = grants \cup
                     {[owner |-> OwnerOf[p], fence |-> lease.fence + 1]}
    /\ UNCHANGED <<revision, terminal, effects, idem, outcomes, receipts,
                   outside, permits, proc>>

\* Expired, or released by its owner.  The last grant of the run stays.
Lapse ==
    /\ lease.live
    /\ lease.fence < MaxFence
    /\ lease' = [lease EXCEPT !.live = FALSE]
    /\ UNCHANGED <<grants, revision, terminal, effects, idem, outcomes,
                   receipts, outside, permits, proc>>

-----------------------------------------------------------------------------
(* What a process sees and may do.                                         *)

AdoptedKeys == {r.key : r \in {q \in receipts : q.kind = "ADOPTION"}}

Snapshot(owner) ==
    [leaseValid |-> lease.live /\ lease.owner = owner,
     terminal |-> terminal, effects |-> effects, idem |-> idem,
     outcomes |-> outcomes, adopted |-> AdoptedKeys]
Boot(p) == BootStatus(Snapshot(OwnerOf[p]))
LeaseHeldBy(p) == lease.live /\ lease.owner = OwnerOf[p]
BootsOn(p, e) == e \in BootEffects(Snapshot(OwnerOf[p]))

\* Mutant: the owner is compared and its fence is not.
LeaseActiveAtAnyFence(p) == lease.live /\ lease.owner = OwnerOf[p]
\* assertActiveRecoveryLeaseInTransaction with the fence p booted at.
LeaseActive(p) == /\ lease.live
                  /\ lease.owner = OwnerOf[p]
                  /\ lease.fence = proc[p].fence

\* Mutant: the revision that p saw is not compared.
AuthorizedAtAnyRevision(p) == LeaseActive(p) /\ ~terminal
\* The recovery row is where p saw it: compare-and-set on the revision.
Authorized(p) == /\ LeaseActive(p)
                 /\ ~terminal
                 /\ revision = proc[p].revision

\* The prefix of every transaction of the fenced writer.
Fenced(p) == Authorized(p) /\ effects[proc[p].effect] = "PENDING"

At(p, step) == proc[p].at = step
Goto(p, step) == proc' = [proc EXCEPT ![p].at = step]
Rest(p) == proc' = [proc EXCEPT ![p] = Idle]
\* p keeps, of a boot or a load, the fence and the revision it saw.
Start(p, step, e, retry, key) ==
    proc' = [proc EXCEPT ![p] =
                [at |-> step, fence |-> lease.fence, revision |-> revision,
                 effect |-> e, retry |-> retry, said |-> "NONE",
                 key |-> key]]

\* The process dies, or throws out of the runtime, at any await.
Crash(p) ==
    /\ ~At(p, "idle")
    /\ Rest(p)
    /\ UNCHANGED <<durable, outside, permits>>

\* recordPendingIdempotencyOutcome: s becomes the status of e's record.
Record(e, s) ==
    /\ idem' = [idem EXCEPT ![e] = s]
    /\ permits' = IF s = "RETRY_AUTHORIZED" /\ Applies(idem[e], s)
                  THEN [permits EXCEPT ![e] = @ + 1] ELSE permits

\* A receipt and the revision it commits, in one transaction.  The receipt of
\* an adoption may say that it made the next effect pending, too.
Commit(p, kind, e, key, next) ==
    /\ revision' = proc[p].revision + 1
    /\ receipts' = receipts \cup
          {[kind |-> kind, effect |-> e, key |-> key, next |-> next,
            revision |-> proc[p].revision + 1,
            owner |-> OwnerOf[p], fence |-> proc[p].fence]}

-----------------------------------------------------------------------------
(* Committing the intent of an effect: commitPendingIntent.                *)

\* The execution engine asks for e once what it depends on is accepted.
Ready(e) ==
    /\ effects[e] = "NONE"
    /\ \A f \in After[e] : effects[f] = "ADOPTED" /\ idem[f] = "CONFIRMED"

LoadForIntent(p, e) ==
    /\ At(p, "idle")
    /\ Ready(e)
    /\ ~terminal
    /\ Start(p, "intent", e, FALSE, NoOne)
    /\ UNCHANGED <<durable, outside, permits>>

CommitIntent(p) ==
    /\ At(p, "intent")
    /\ Authorized(p)
    /\ effects[proc[p].effect] = "NONE"
    /\ effects' = [effects EXCEPT ![proc[p].effect] = "PENDING"]
    /\ Commit(p, "INTENT", proc[p].effect, NoOne, NoOne)
    /\ Rest(p)
    /\ UNCHANGED <<lease, grants, terminal, idem, outcomes, outside, permits>>

-----------------------------------------------------------------------------
(* submit                                                                  *)

SubmitBoot(p, e, retry) ==
    /\ At(p, "idle")
    /\ Boot(p) = "INTENT_DISPOSITION_REQUIRED"
    /\ BootsOn(p, e)
    /\ idem[e] = "ABSENT" \/ (retry /\ idem[e] = "RETRY_AUTHORIZED")
    /\ Start(p, "claim", e, retry, NoOne)
    /\ UNCHANGED <<durable, outside, permits>>

\* Mutant: the adapter is called right after the claim.
ClaimAndCall(p) ==
    LET e == proc[p].effect IN
    /\ At(p, "claim")
    /\ Fenced(p)
    /\ idem[e] = "ABSENT"
    /\ Record(e, "CLAIMED")
    /\ Goto(p, "call")
    /\ UNCHANGED <<lease, grants, revision, terminal, effects, outcomes,
                   receipts, outside>>
\* A new claim, or the retry of a request whose retry was authorised.
Claim(p) ==
    LET e == proc[p].effect IN
    /\ At(p, "claim")
    /\ Fenced(p)
    /\ \/ idem[e] = "ABSENT" /\ Record(e, "CLAIMED")
       \/ /\ proc[p].retry
          /\ idem[e] = "RETRY_AUTHORIZED"
          /\ UNCHANGED <<idem, permits>>
    /\ Goto(p, "mark")
    /\ UNCHANGED <<lease, grants, revision, terminal, effects, outcomes,
                   receipts, outside>>

\* Mutant: a SUBMITTED that was there already is taken for one's own.
MarkAgain(p) ==
    LET e == proc[p].effect IN
    /\ At(p, "mark")
    /\ Fenced(p)
    /\ Accepts(idem[e], "SUBMITTED")
    /\ Record(e, "SUBMITTED")
    /\ Goto(p, "check")
    /\ UNCHANGED <<lease, grants, revision, terminal, effects, outcomes,
                   receipts, outside>>
\* Only the one that applies SUBMITTED goes on.
Mark(p) ==
    LET e == proc[p].effect IN
    /\ At(p, "mark")
    /\ Fenced(p)
    /\ Applies(idem[e], "SUBMITTED")
    /\ Record(e, "SUBMITTED")
    /\ Goto(p, "check")
    /\ UNCHANGED <<lease, grants, revision, terminal, effects, outcomes,
                   receipts, outside>>

\* The last fenced check before the adapter: SUBMITTED once more.
Check(p) ==
    LET e == proc[p].effect IN
    /\ At(p, "check")
    /\ Fenced(p)
    /\ Accepts(idem[e], "SUBMITTED")
    /\ Record(e, "SUBMITTED")
    /\ Goto(p, "call")
    /\ UNCHANGED <<lease, grants, revision, terminal, effects, outcomes,
                   receipts, outside>>

\* The lease is p's, and no other process goes by the name of its owner.
Alone(p) == \A q \in Procs : OwnerOf[q] = OwnerOf[p] => q = p
Guarded(p) == LeaseActive(p) /\ Alone(p)

\* The adapter's call.  The broker processes the request, once per key, or
\* never gets it; its reply may be lost on the way.  Nothing looks at the lease
\* any more.
Invoke(p, reply) ==
    LET e == proc[p].effect IN
    /\ At(p, "call")
    /\ calls' = [calls EXCEPT ![e] = @ + 1]
    /\ unguarded' = IF Guarded(p) THEN unguarded ELSE unguarded \cup {e}
    /\ \/ /\ broker' \in {[broker EXCEPT ![e] = d] :
                             d \in IF broker[e] = "NONE"
                                   THEN {"ACCEPTED", "REJECTED"}
                                   ELSE {broker[e]}}
          /\ reply \in {broker'[e], "AMBIGUOUS"}
       \/ /\ UNCHANGED broker
          /\ reply \in {"AMBIGUOUS", "RETRY_SAFE", "DO_NOT_RETRY"}
          /\ reply = "RETRY_SAFE" => permits[e] < MaxRetries
    /\ proc' = [proc EXCEPT ![p].at = "respond", ![p].said = reply]
    /\ UNCHANGED <<durable, permits>>

\* A failure that may have reached the broker, or a malformed answer.
RespondUnknown(p) ==
    LET e == proc[p].effect IN
    /\ At(p, "respond")
    /\ proc[p].said \in {"ACCEPTED", "REJECTED", "AMBIGUOUS"}
    /\ Fenced(p)
    /\ Accepts(idem[e], "OUTCOME_UNKNOWN")
    /\ Record(e, "OUTCOME_UNKNOWN")
    /\ Rest(p)
    /\ UNCHANGED <<lease, grants, revision, terminal, effects, outcomes,
                   receipts, outside>>

\* Mutant: a failure that may have reached the broker is retried.
RespondRetryAnything(p) ==
    LET e == proc[p].effect IN
    /\ At(p, "respond")
    /\ proc[p].said \in {"RETRY_SAFE", "AMBIGUOUS"}
    /\ Fenced(p)
    /\ permits[e] < MaxRetries
    /\ Accepts(idem[e], "RETRY_AUTHORIZED")
    /\ Record(e, "RETRY_AUTHORIZED")
    /\ Rest(p)
    /\ UNCHANGED <<lease, grants, revision, terminal, effects, outcomes,
                   receipts, outside>>
RespondRetrySafe(p) ==
    LET e == proc[p].effect IN
    /\ At(p, "respond")
    /\ proc[p].said = "RETRY_SAFE"
    /\ Fenced(p)
    /\ Accepts(idem[e], "RETRY_AUTHORIZED")
    /\ Record(e, "RETRY_AUTHORIZED")
    /\ Rest(p)
    /\ UNCHANGED <<lease, grants, revision, terminal, effects, outcomes,
                   receipts, outside>>

\* Mutant: the record is closed without its pending effect.
RespondHalfTerminal(p) ==
    LET e == proc[p].effect IN
    /\ At(p, "respond")
    /\ proc[p].said = "DO_NOT_RETRY"
    /\ Fenced(p)
    /\ idem[e] = "SUBMITTED"
    /\ Record(e, "FAILED_NOT_SUBMITTED")
    /\ terminal' = TRUE
    /\ Commit(p, "TERMINAL", e, NoOne, NoOne)
    /\ Rest(p)
    /\ UNCHANGED <<lease, grants, effects, outcomes, outside>>
\* commitNormalTerminalNonSubmissionDisposition: the effect, its idempotency
\* record and the session are closed together.
RespondTerminal(p) ==
    LET e == proc[p].effect IN
    /\ At(p, "respond")
    /\ proc[p].said = "DO_NOT_RETRY"
    /\ Fenced(p)
    /\ idem[e] = "SUBMITTED"
    /\ \A o \in outcomes : o.effect = e =>
           o.kind = "DISPOSITION" /\ o.says = "NOT_SUBMITTED"
    /\ Record(e, "FAILED_NOT_SUBMITTED")
    /\ effects' = [effects EXCEPT ![e] = "TERMINAL"]
    /\ terminal' = TRUE
    /\ Commit(p, "TERMINAL", e, NoOne, NoOne)
    /\ Rest(p)
    /\ UNCHANGED <<lease, grants, outcomes, outside>>

-----------------------------------------------------------------------------
(* Outcomes: the fenced writer's append.                                   *)

\* Mutant: a second canonical outcome that agrees is let in.
CompatibleTwice(o, q) ==
    \/ o = q
    \/ /\ o.key # q.key
       /\ o.says = q.says \/ "STILL_UNKNOWN" \in {o.says, q.says}
\* compatible(): whether two outcomes of one effect may stand together.  One
\* key names one outcome.
Compatible(o, q) ==
    \/ o = q
    \/ /\ o.key # q.key
       /\ o.kind # q.kind => \/ o.says = q.says
                             \/ "STILL_UNKNOWN" \in {o.says, q.says}
       /\ o.kind = q.kind => /\ o.kind = "DISPOSITION"
                             /\ \/ o.says = q.says
                                \/ "STILL_UNKNOWN" \in {o.says, q.says}

\* Mutant: a key that names an outcome may name another effect's.
NamedTwice(o, q) == o.effect = q.effect => (o.key = q.key => o = q)
\* The key of an outcome is the session's: it names one row.
NamedOnce(o, q) == o.key = q.key => o = q

\* Mutant: the outcome is stored without its status.
PersistOutcomeOnly(p, kind, says, key) ==
    LET e == proc[p].effect
        new == [key |-> key, effect |-> e, kind |-> kind, says |-> says,
                fence |-> proc[p].fence]
    IN  /\ Fenced(p)
        /\ Accepts(idem[e], StatusOf(says))
        /\ \A o \in outcomes : /\ o.effect = e => Compatible(o, new)
                               /\ NamedOnce(o, new)
        /\ outcomes' = outcomes \cup {new}
        /\ UNCHANGED <<lease, grants, revision, terminal, effects, idem,
                       receipts, outside, permits>>
\* The record takes the status the outcome stands for, and the outcome joins
\* the others, or neither happens.
Persist(p, kind, says, key) ==
    LET e == proc[p].effect
        new == [key |-> key, effect |-> e, kind |-> kind, says |-> says,
                fence |-> proc[p].fence]
    IN  /\ Fenced(p)
        /\ Accepts(idem[e], StatusOf(says))
        /\ \A o \in outcomes : /\ o.effect = e => Compatible(o, new)
                               /\ NamedOnce(o, new)
        /\ Record(e, StatusOf(says))
        /\ outcomes' = outcomes \cup {new}
        /\ UNCHANGED <<lease, grants, revision, terminal, effects, receipts,
                       outside>>

\* The adapter's canonical answer, stored before it is adopted.
RespondCanonical(p, key) ==
    /\ At(p, "respond")
    /\ proc[p].said \in {"ACCEPTED", "REJECTED"}
    /\ Persist(p, "CANONICAL", proc[p].said, key)
    /\ proc' = [proc EXCEPT ![p].at = "adopt", ![p].key = key]

-----------------------------------------------------------------------------
(* adoptOutcome, right after the outcome was stored or after a later boot. *)

\* Mutant: an outcome stored under an earlier lease is not adopted.
AdoptBootOwnLease(p, o) ==
    /\ At(p, "idle")
    /\ Boot(p) = "OUTCOME_AVAILABLE"
    /\ BootsOn(p, o.effect)
    /\ o \in Canonicals(Snapshot(OwnerOf[p]), o.effect)
    /\ o.fence = lease.fence
    /\ Start(p, "adopt", o.effect, FALSE, o.key)
    /\ UNCHANGED <<durable, outside, permits>>
AdoptBoot(p, o) ==
    /\ At(p, "idle")
    /\ Boot(p) = "OUTCOME_AVAILABLE"
    /\ BootsOn(p, o.effect)
    /\ o \in Canonicals(Snapshot(OwnerOf[p]), o.effect)
    /\ Start(p, "adopt", o.effect, FALSE, o.key)
    /\ UNCHANGED <<durable, outside, permits>>

\* The effect that the caller lets follow: one that may be asked for when e's
\* outcome is adopted.  (The runtime asks for none.)
Follows(next, e) ==
    /\ effects[next] = "NONE"
    /\ \A f \in After[next] : f = e \/ effects[f] = "ADOPTED"
    /\ \A f \in After[next] : idem[f] = "CONFIRMED"

\* Mutant: the adoption receipt is not of the same transaction.
AdoptWithoutReceipt(p, next) ==
    /\ At(p, "adopt")
    /\ proc[p].key \notin AdoptedKeys
    /\ Fenced(p)
    /\ \E o \in outcomes : o.key = proc[p].key /\ o.kind = "CANONICAL"
    /\ next # NoOne => Follows(next, proc[p].effect)
    /\ effects' = [effects EXCEPT ![proc[p].effect] = "ADOPTED"]
    /\ revision' = revision + 1
    /\ Rest(p)
    /\ UNCHANGED <<lease, grants, receipts, terminal, idem, outcomes, outside,
                   permits>>
\* The effect is adopted, and the next one, if any, pending with it.  With a
\* receipt already there it answers ALREADY_ADOPTED: no change.
Adopt(p, next) ==
    LET e == proc[p].effect IN
    /\ At(p, "adopt")
    /\ proc[p].key \notin AdoptedKeys
    /\ Fenced(p)
    /\ \E o \in outcomes : o.key = proc[p].key /\ o.kind = "CANONICAL"
    /\ next # NoOne => Follows(next, e)
    /\ effects' = [f \in Effects |-> CASE f = e -> "ADOPTED"
                                       [] f = next -> "PENDING"
                                       [] OTHER -> effects[f]]
    /\ Commit(p, "ADOPTION", e, proc[p].key, next)
    /\ Rest(p)
    /\ UNCHANGED <<lease, grants, terminal, idem, outcomes, outside, permits>>

-----------------------------------------------------------------------------
(* reconcile                                                               *)

ReconcileBoot(p, e) ==
    /\ At(p, "idle")
    /\ Boot(p) = "RECONCILIATION_REQUIRED"
    /\ BootsOn(p, e)
    /\ Start(p, "preflight", e, FALSE, NoOne)
    /\ UNCHANGED <<durable, outside, permits>>

Preflight(p) ==
    LET e == proc[p].effect IN
    /\ At(p, "preflight")
    /\ Fenced(p)
    /\ Accepts(idem[e], "OUTCOME_UNKNOWN")
    /\ Record(e, "OUTCOME_UNKNOWN")
    /\ Goto(p, "observe")
    /\ UNCHANGED <<lease, grants, revision, terminal, effects, outcomes,
                   receipts, outside>>

\* An honest provider: it reports what the broker has done, or that it does
\* not know.
Truth(e) == CASE broker[e] = "NONE" -> {"NOT_SUBMITTED", "STILL_UNKNOWN"}
              [] broker[e] = "ACCEPTED" -> {"ACCEPTED", "STILL_UNKNOWN"}
              [] broker[e] = "REJECTED" -> {"REJECTED", "CANONICAL_REJECTED",
                                            "STILL_UNKNOWN"}

Observe(p, answer) ==
    /\ At(p, "observe")
    /\ answer \in Answers \cap Truth(proc[p].effect)
    /\ answer = "NOT_SUBMITTED" => permits[proc[p].effect] < MaxRetries
    /\ proc' = [proc EXCEPT ![p].at = "store", ![p].said = answer]
    /\ UNCHANGED <<durable, outside, permits>>

StoreDisposition(p, key) ==
    /\ At(p, "store")
    /\ proc[p].said \in Verdicts
    /\ Persist(p, "DISPOSITION", proc[p].said, key)
    /\ Rest(p)

StoreCanonicalRejection(p, key) ==
    /\ At(p, "store")
    /\ proc[p].said = "CANONICAL_REJECTED"
    /\ Persist(p, "CANONICAL", "REJECTED", key)
    /\ proc' = [proc EXCEPT ![p].at = "adopt", ![p].key = key]

-----------------------------------------------------------------------------
Submit(p) ==
    \/ \E e \in Effects, retry \in BOOLEAN : SubmitBoot(p, e, retry)
    \/ Claim(p) \/ Mark(p) \/ Check(p)
    \/ \E reply \in Replies : Invoke(p, reply)
    \/ RespondUnknown(p) \/ RespondRetrySafe(p) \/ RespondTerminal(p)
    \/ \E key \in Keys : RespondCanonical(p, key)

AdoptAvailable(p) == \/ \E o \in outcomes : AdoptBoot(p, o)
                     \/ \E next \in Effects \cup {NoOne} : Adopt(p, next)

Reconcile(p) ==
    \/ \E e \in Effects : ReconcileBoot(p, e)
    \/ Preflight(p)
    \/ \E answer \in Answers : Observe(p, answer)
    \/ \E key \in Keys : \/ StoreDisposition(p, key)
                         \/ StoreCanonicalRejection(p, key)

Next == \/ Lapse
        \/ \E p \in Procs : \/ Acquire(p)
                            \/ Crash(p)
                            \/ \E e \in Effects : LoadForIntent(p, e)
                            \/ CommitIntent(p)
                            \/ Submit(p)
                            \/ AdoptAvailable(p)
                            \/ Reconcile(p)

Spec == Init /\ [][Next]_vars

\* A caller comes back until its work is done: a process that stays able to
\* take the lease takes it, and one that can again and again boot on a stored
\* outcome, or adopt it, some day does, whatever crashes and lapses come
\* between.  Nothing is asked of the broker, the provider or new submissions.
Fairness == /\ \A p \in Procs : WF_vars(Acquire(p))
            /\ \A p \in Procs : SF_vars(\E o \in outcomes : AdoptBoot(p, o))
            /\ \A p \in Procs :
                  SF_vars(\E next \in Effects \cup {NoOne} : Adopt(p, next))
            /\ \A p \in Procs : WF_vars(Crash(p))
LiveSpec == Spec /\ Fairness

-----------------------------------------------------------------------------
\* Every variable has the shape of its table.
TypeOK ==
    /\ lease \in [owner : Owners \cup {NoOne}, fence : Fences, live : BOOLEAN]
    /\ lease.live => lease.owner # NoOne
    /\ grants \subseteq [owner : Owners, fence : Fences]
    /\ revision \in Nat
    /\ terminal \in BOOLEAN
    /\ effects \in [Effects -> {"NONE", "PENDING", "ADOPTED", "TERMINAL"}]
    /\ idem \in [Effects -> Statuses]
    /\ outcomes \subseteq [key : Keys, effect : Effects, says : Verdicts,
                           kind : {"CANONICAL", "DISPOSITION"}, fence : Fences]
    /\ receipts \subseteq [kind : {"INTENT", "ADOPTION", "TERMINAL"},
                           effect : Effects, key : Keys \cup {NoOne},
                           next : Effects \cup {NoOne}, revision : Nat,
                           owner : Owners, fence : Fences]
    /\ broker \in [Effects -> {"NONE", "ACCEPTED", "REJECTED"}]
    /\ calls \in [Effects -> Nat]
    /\ unguarded \subseteq Effects
    /\ permits \in [Effects -> Nat]
    /\ proc \in [Procs -> [at : Steps, fence : Fences \cup {0},
                           revision : Nat, effect : Effects \cup {NoOne},
                           retry : BOOLEAN, key : Keys \cup {NoOne},
                           said : Replies \cup Verdicts \cup
                                  {"CANONICAL_REJECTED", "NONE"}]]

\* "False-positive reconciliation is preferable to duplicate live orders": the
\* broker is called once for an effect, and once more for every retry that was
\* authorised, even by processes that share one owner identity and one lease.
CallBudget == \A e \in Effects : calls[e] <= 1 + permits[e]

\* What the broker has done, a durable record of a submission stands for: no
\* crash leaves an order behind that the next boot takes for unattempted.
NoForgottenCall ==
    \A e \in Effects : broker[e] # "NONE" =>
        /\ effects[e] # "NONE"
        /\ idem[e] \notin {"ABSENT", "CLAIMED"}

\* The session believes that the broker does not have a request (it authorises
\* a retry, or closes the session for good) only when the broker has not,
\* whatever replies are lost and however late the answers are.  The exception is
\* the effect that somebody asked the broker for without the lease, which may
\* have passed on after the last fenced check, or beside another process of the
\* same owner: what the holder was told may then be overtaken.
NotSubmittedIsTrue ==
    \A e \in Effects \ unguarded :
        idem[e] \in {"RETRY_AUTHORIZED", "FAILED_NOT_SUBMITTED"} =>
            broker[e] = "NONE"

\* Canonical outcomes and settled records say what the broker did, and no two
\* canonical outcomes compete for an effect.
OutcomesAreTrue ==
    \A e \in Effects :
        LET canonical == {o \in outcomes : o.effect = e /\ o.kind = "CANONICAL"}
        IN  /\ \A o \in canonical : o.says = broker[e]
            /\ \A o, q \in canonical : o = q
            /\ idem[e] = "CONFIRMED" => broker[e] = "ACCEPTED"
            /\ idem[e] = "REJECTED" => broker[e] = "REJECTED"

\* The rows of a commit stand or fall together: an effect is pending, adopted
\* or closed exactly when its receipts say so: there is one that made it pending,
\* its intent's or that of another's adoption, and one that resolved it; it is
\* adopted by that of a canonical outcome of its own.  Every commit has taken a
\* revision of its own, also when it started from what another has overtaken.
RowsAgree ==
    /\ TypeOK
    /\ \A e \in Effects :
        LET of(kind) == {r \in receipts : r.effect = e /\ r.kind = kind}
            creating == of("INTENT") \cup {r \in receipts : r.next = e}
        IN  /\ effects[e] = "NONE" <=> creating = {}
            /\ effects[e] = "ADOPTED" <=> of("ADOPTION") # {}
            /\ effects[e] = "TERMINAL" <=> of("TERMINAL") # {}
            /\ effects[e] = "TERMINAL" =>
                  terminal /\ idem[e] = "FAILED_NOT_SUBMITTED"
            /\ \A r \in of("ADOPTION") : \E o \in outcomes :
                  o.key = r.key /\ o.effect = e /\ o.kind = "CANONICAL"
            /\ Cardinality(creating) <= 1
            /\ Cardinality(of("ADOPTION") \cup of("TERMINAL")) <= 1
    /\ terminal => \E e \in Effects : effects[e] = "TERMINAL"
    /\ \A q, r \in receipts : q.revision = r.revision => q = r
    /\ Cardinality(receipts) = revision

\* Histories that the classifier reads as corruption although the services
\* wrote them: an effect observed twice under two keys; one observed and then
\* adopted; one whose retry went on after it was found not submitted; one that
\* was left pending when another closed the session.
Strays(e) ==
    LET observed == {o \in outcomes : o.effect = e /\ o.kind = "DISPOSITION"}
    IN  \/ \E o, q \in observed : o # q
        \/ observed # {} /\ effects[e] = "ADOPTED"
        \/ "NOT_SUBMITTED" \in Says(observed) /\ idem[e] # "RETRY_AUTHORIZED"
        \/ terminal /\ effects[e] = "PENDING"

\* Nothing else that the services write reads as corruption to the owner that
\* boots on it: whatever crashes, lapses, takeovers, lost replies and shared
\* owners came before, with any answers and several effects at once, a boot that
\* is rejected has one of those histories to show.
Bootable ==
    \A p \in Procs :
        /\ terminal \/ LeaseHeldBy(p)
        /\ Boot(p) = "RECOVERY_REJECTED"
        => \E e \in Effects : Strays(e)

\* The commits of a session follow its leases: each is made by the live holder,
\* at the newest grant, and numbered after all the earlier ones.
Fence == INSTANCE Fencing WITH
             holder  <- IF lease.live THEN lease.owner ELSE NoOne,
             fence   <- lease.fence,
             granted <- grants,
             written <- {[revision |-> r.revision, owner |-> r.owner,
                          fence |-> r.fence, checked |-> TRUE] : r \in receipts},
             NoOwner <- NoOne,
             Revisions <- 1..(2 * Cardinality(Effects))
\* No commit is made but in the name of the lease that is live: one that lapsed
\* since the boot commits nothing, superseded or not.
FencedCommits == Fence!FSpec

\* A canonical outcome that became durable is adopted in the end, by whichever
\* process boots on it.
OutcomeAdopted ==
    \A e \in Effects :
        (effects[e] = "PENDING" /\ Canonicals(Snapshot(lease.owner), e) # {})
            ~> effects[e] = "ADOPTED"

-----------------------------------------------------------------------------
(* What the documents say, for the runs that refute it.                    *)

DispositionsOf(e) == Dispositions(Snapshot(lease.owner), e)

\* "SUBMITTED before adapter call: reboot requires reconciliation": also for
\* the explicit retry of a request that one observation found not submitted.
RetryRequiresReconciliation ==
    \A p \in Procs, e \in Effects :
        /\ LeaseHeldBy(p)
        /\ idem[e] = "SUBMITTED"
        /\ Cardinality(DispositionsOf(e)) = 1
        => Boot(p) = "RECONCILIATION_REQUIRED"
=============================================================================
