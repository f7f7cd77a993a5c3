---------------------------- MODULE TradingSession ----------------------------
(* One live-trading session: the planner of live-trading-orchestration-engine, *)
(* the single-flight runner of sandbox-orchestration-runner, and the engines   *)
(* its commands run (submission, fill, protection, protection life cycle, exit *)
(* fill and the projections).                                                  *)
(*                                                                             *)
(* An input is an observation or a result; the planner turns it into a next    *)
(* session and at most one command; the runner adopts the session, awaits the  *)
(* command and hands its result to the caller, who feeds it back, or not, in an *)
(* order of its own.  A disciplined caller feeds each result back, once, before *)
(* it dispatches anything else, and prepares one trade per session.            *)
EXTENDS ExecutionAttempt, FiniteSets

CONSTANTS
  Plans,      \* plans that may be prepared; a plan names its attempt, order and risk basis
  None,       \* nothing there
  Adapter,    \* what the configured broker adapter declares
  Callers,    \* is the caller disciplined?  the values to check
  MaxFilled,  \* bound of what the broker fills, by the caller's discipline
  MaxResults  \* bound of the results that an undisciplined caller holds on to

\* Fills as the broker reports them, and the attempts of a session.
Entries == [kind : {"ENTRY_FILL"}, id : Nat, order : Plans, qty : Nat \ {0}, at : Nat]
Exits == [kind : {"EXIT_FILL"}, id : Nat, target : Nat, order : Plans, qty : Nat \ {0}, at : Nat]
Attempts ==
  [plan : Plans, entry : {"SUBMISSION_PENDING", "WORKING", "FILLED"}, capabilities : {Adapter},
   order : Plans \union {NoOrder}, filled : Nat, protected : Nat, exited : Nat,
   fills : Seq(Entries), exits : Seq(Exits), coverage : Seq([target : Nat, at : Nat]),
   protecting : Nat, canceling : {FALSE}, failed : {FALSE}, cancelRefused : {FALSE}, lastAt : Nat]

ASSUME SessionAssumption ==
  /\ NoOrder \notin Plans /\ None \notin Plans \union Attempts \union Nat
  /\ IsFiniteSet(Plans)
  /\ Adapter \in Capabilities /\ ProtectionMode(Adapter) # "NOT_SUPPORTED"
  /\ Callers \subseteq BOOLEAN /\ MaxFilled \in [BOOLEAN -> 0..Quantity]
  /\ MaxResults \in Nat \ {0}

VARIABLES
  mode,         \* of the session
  disciplined,
  session,      \* the attempt, risk basis and R multiple the session retains
  running,      \* commands that are awaited
  results,      \* results that the caller may dispatch
  caller,       \* what else it holds: the last fill's and protection's attempt, and performance
  broker,       \* the broker's side, by plan
  record,       \* the idempotency record of each request: 0 is the entry, n the protection of n
  reports,      \* fills that may be observed
  lost          \* a command failed after the broker had acted

vars == <<mode, disciplined, session, running, results, caller, broker, record, reports, lost>>
outside == <<mode, disciplined, broker, record, reports, lost>>

\* The attempt at a plan, and the one whose entry is requested.
AttemptAt(p) ==
  [field \in DOMAIN NewAttempt \union {"plan"} |-> IF field = "plan" THEN p ELSE NewAttempt[field]]
NewOrder(p) == EntryRequested(AttemptAt(p), Adapter)
EntryAccepted(p) == [kind |-> "ENTRY_ACKNOWLEDGED", order |-> p, at |-> 1]

\* A session is created empty, or hydrated with an attempt whose order works.
Init ==
  /\ mode \in {"DRY_RUN", "SANDBOX"}
  /\ disciplined \in Callers
  /\ \E p \in Plans \union {None} :
       /\ session = [attempt |-> IF p = None THEN None
                                 ELSE EntryAcknowledged(NewOrder(p), EntryAccepted(p)),
                     basis |-> None, multiple |-> None]
       /\ broker = [q \in Plans |-> [working |-> q = p, filled |-> 0, covered |-> 0, exited |-> 0]]
       /\ record = [q \in Plans |-> [k \in 0..Quantity |-> IF q = p /\ k = 0 THEN "CONFIRMED" ELSE "NONE"]]
  /\ running = {} /\ results = {} /\ reports = {}
  /\ caller = [fill |-> None, protection |-> None, gross |-> None]
  /\ lost = FALSE
-----------------------------------------------------------------------------
(* The runner and the planner.  A dispatch that meets an awaited command is    *)
(* answered RUNNER_BUSY and changes nothing.                                   *)

Idle == running = {}

\* The caller may observe something new.
Ready == Idle /\ (disciplined => results = {})

Used(r) == results' = IF disciplined THEN results \ {r} ELSE results
NoAction(s, r) == session' = s /\ Used(r) /\ UNCHANGED <<running, caller, outside>>
Planned(s, r, command) ==
  session' = s /\ running' = running \union {command} /\ Used(r) /\ UNCHANGED <<caller, outside>>
Observed(command) ==
  running' = running \union {command} /\ UNCHANGED <<session, results, caller, outside>>

\* attemptCoherence: no attempt yet, or this one.
\* Mutant: only the instrument is compared.
CoherentInstrument(plan) == plan \in Plans
Coherent(plan) == session.attempt # None => session.attempt.plan = plan
Adopted(a) == [session EXCEPT !.attempt = a]
\* Mutant: the attempt presented is one of the session's trade.
IsOfTrade(a) == a # None /\ session.attempt # None /\ a.plan = session.attempt.plan
IsCurrent(a) == a # None /\ a = session.attempt

\* From an observed trade to a prepared plan; what a stage reports that leads
\* nowhere is not kept, and a result that lacks its context stays undispatched.
ObserveTrade == Ready /\ Observed([op |-> "INGEST"])

Stage == [INGESTED |-> "ANALYZE", ANALYZED |-> "DECIDE", DECIDED |-> "PREPARE"]
FeedStage(r) ==
  /\ Idle /\ r.kind \in DOMAIN Stage
  /\ Planned(session, r, [op |-> Stage[r.kind]])

FeedPreparation(r, environment) ==
  /\ Idle /\ r.kind = "PREPARED"
  /\ disciplined => session.attempt = None
  /\ \/ (mode = "DRY_RUN" \/ environment # "SANDBOX") /\ NoAction(session, r)
     \/ /\ mode # "DRY_RUN" /\ environment = "SANDBOX"
        /\ Planned(session, r, [op |-> "SUBMIT", plan |-> r.plan, environment |-> environment])

FeedSubmission(r) ==
  /\ Idle /\ r.kind = "SUBMISSION_RESULT"
  /\ \/ ~Coherent(r.attempt.plan) /\ NoAction(session, r)
     \/ /\ Coherent(r.attempt.plan)
        /\ IF r.status = "CONFIRMED"
           THEN Planned(Adopted(r.attempt), r, [op |-> "INITIALIZE", submission |-> r])
           ELSE NoAction(Adopted(r.attempt), r)

FeedInitialization(r) ==
  /\ Idle /\ r.kind = "INITIALIZATION_RESULT"
  /\ \/ ~Coherent(r.attempt.plan) /\ NoAction(session, r)
     \/ /\ Coherent(r.attempt.plan)
        /\ IF session.basis = None
           THEN Planned(Adopted(r.attempt), r, [op |-> "CREATE_BASIS", attempt |-> r.attempt])
           ELSE NoAction(Adopted(r.attempt), r)

\* The attempt the caller presents is the session's, or the observation is rejected.
Held == {session.attempt, caller.fill, caller.protection}
ObserveFill(f, a) ==
  /\ Ready /\ f.kind = "ENTRY_FILL" /\ a \in Held /\ IsCurrent(a)
  /\ Observed([op |-> "FILL", attempt |-> a, fill |-> f])

FeedFill(r, environment) ==
  /\ Idle /\ r.kind = "FILL_RESULT"
  /\ \/ ~Coherent(r.attempt.plan) /\ NoAction(session, r)
     \/ /\ Coherent(r.attempt.plan)
        /\ IF r.status = "APPLIED" /\ mode # "DRY_RUN" /\ environment = "SANDBOX"
           THEN Planned(Adopted(r.attempt), r, [op |-> "PROTECT", fill |-> r, environment |-> environment])
           ELSE NoAction(Adopted(r.attempt), r)

FeedProtection(r) ==
  /\ Idle /\ r.kind = "PROTECTION_RESULT"
  /\ \/ ~Coherent(r.attempt.plan) /\ NoAction(session, r)
     \/ /\ Coherent(r.attempt.plan)
        /\ IF r.status = "CONFIRMED"
           THEN Planned(Adopted(r.attempt), r, [op |-> "ACKNOWLEDGE", protection |-> r])
           ELSE NoAction(Adopted(r.attempt), r)

\* Results that bring an attempt and plan nothing.
FeedAttempt(r) ==
  /\ Idle /\ r.kind \in {"LIFECYCLE_RESULT", "EXIT_RESULT"}
  /\ NoAction(IF Coherent(r.attempt.plan) THEN Adopted(r.attempt) ELSE session, r)

ObserveExit(f, a) ==
  /\ Ready /\ f.kind = "EXIT_FILL" /\ a \in Held /\ IsCurrent(a)
  /\ caller.protection # None /\ Coherent(caller.protection.plan)
  /\ Observed([op |-> "EXIT", attempt |-> a, source |-> caller.protection, fill |-> f])

FeedBasis(r) ==
  /\ Idle /\ r.kind = "BASIS_RESULT"
  /\ NoAction(IF /\ session.attempt # None /\ session.attempt.plan = r.plan
                 /\ session.basis \in {None, r.plan}
              THEN [session EXCEPT !.basis = r.plan] ELSE session, r)

\* Projections are requested with the result of a fill that brought the current attempt.
RequestProjection(op) ==
  /\ Ready /\ IsCurrent(caller.fill)
  /\ Observed([op |-> op, attempt |-> caller.fill])

FeedValuation(r) ==
  /\ Idle /\ r.kind = "VALUATION_RESULT"
  /\ \/ ~Coherent(r.position.plan) /\ NoAction(session, r)
     \/ Coherent(r.position.plan) /\ Planned(session, r, [op |-> "GROSS", position |-> r.position])

FeedAuthorities(r) ==
  /\ Idle /\ r.kind = "COST_RESULT" /\ caller.gross # None
  /\ \/ /\ r.position.plan # caller.gross.plan \/ ~Coherent(r.position.plan)
        /\ NoAction(session, r)
     \/ /\ r.position.plan = caller.gross.plan /\ Coherent(r.position.plan)
        /\ Planned(session, r, [op |-> "NET", gross |-> caller.gross, cost |-> r.position])

FeedNet(r) ==
  /\ Idle /\ r.kind = "NET_RESULT"
  /\ \/ ~Coherent(r.gross.plan) /\ NoAction(session, r)
     \/ /\ Coherent(r.gross.plan) /\ session.basis # None
        /\ Planned(session, r, [op |-> "MULTIPLE", net |-> r, basis |-> session.basis])

FeedMultiple(r) ==
  /\ Idle /\ r.kind = "MULTIPLE_RESULT"
  /\ NoAction(IF Coherent(r.gross.plan) /\ r.basis = session.basis
              THEN [session EXCEPT !.multiple = r] ELSE session, r)
-----------------------------------------------------------------------------
(* The commands.  A command that is rejected, fails, or ends in a result that  *)
(* carries nothing forward just ends.                                          *)

Ended(c) == running' = running \ {c}
Finish(c, r) ==
  /\ Ended(c)
  /\ IF disciplined THEN results' = results \union {r}
     ELSE \E kept \in SUBSET results :
            Cardinality(kept \union {r}) =< MaxResults /\ results' = kept \union {r}

End(c) == c \in running /\ Ended(c) /\ UNCHANGED <<session, results, caller, outside>>

Yields == [INGEST |-> "INGESTED", ANALYZE |-> "ANALYZED", DECIDE |-> "DECIDED"]
RunStage(c) ==
  /\ \/ c.op \in DOMAIN Yields /\ Finish(c, [kind |-> Yields[c.op]])
     \/ c.op = "PREPARE" /\ \E p \in Plans : Finish(c, [kind |-> "PREPARED", plan |-> p])
  /\ UNCHANGED <<session, caller, outside>>

\* The broker's clock moves on with every other event; its events, counted over
\* the plans.
Happened(p) ==
  LET b == broker[p] IN 1..((IF b.working THEN 1 ELSE 0) + b.filled + b.covered + b.exited)
Now == 1 + (Cardinality(UNION {{p} \X Happened(p) : p \in Plans}) \div 2)

\* sideEffectSafety
Allowed(c) == mode = "SANDBOX" /\ c.environment = "SANDBOX"

\* A request under key k of plan p: the broker is called when there is no record,
\* and the record answers otherwise.  accepted is the broker's side if it accepts,
\* kind and attempt what the result repeats of the request.
Call(c, p, k, accepted, kind, attempt) ==
  LET Result(status, at) == [kind |-> kind, attempt |-> attempt, status |-> status, at |-> at]
      Remember(status) == record' = [record EXCEPT ![p][k] = status]
      Accept == broker' = [broker EXCEPT ![p] = accepted]
  IN  \/ record[p][k] = "NONE" /\ Remember("CONFIRMED") /\ Accept
         /\ Finish(c, Result("CONFIRMED", Now)) /\ UNCHANGED lost
      \/ record[p][k] = "NONE" /\ Remember("REJECTED")
         /\ Finish(c, Result("REJECTED", None)) /\ UNCHANGED <<broker, lost>>
      \/ record[p][k] = "NONE" /\ Remember("SUBMITTED") /\ (Accept \/ UNCHANGED broker)
         /\ Finish(c, Result("RECONCILE", None)) /\ UNCHANGED lost
      \/ record[p][k] = "NONE" /\ Remember("SUBMITTED") /\ Accept
         /\ Ended(c) /\ lost' = TRUE /\ UNCHANGED results
      \/ record[p][k] # "NONE" /\ UNCHANGED <<record, broker, lost>>
         /\ Finish(c, Result(IF record[p][k] = "SUBMITTED" THEN "RECONCILE" ELSE record[p][k], None))

Submit(c) ==
  /\ c.op = "SUBMIT" /\ Allowed(c)
  /\ Call(c, c.plan, 0, [broker[c.plan] EXCEPT !.working = TRUE],
          "SUBMISSION_RESULT", NewOrder(c.plan))
  /\ UNCHANGED <<mode, disciplined, session, caller, reports>>

\* A confirmation without its acknowledgement initializes nothing.
Initialize(c) ==
  LET s == c.submission  e == [order |-> s.attempt.plan, at |-> s.at]
  IN  /\ c.op = "INITIALIZE" /\ s.at # None /\ CanAcknowledgeEntry(s.attempt, e)
      /\ Finish(c, [kind |-> "INITIALIZATION_RESULT", attempt |-> EntryAcknowledged(s.attempt, e)])
      /\ UNCHANGED <<session, caller, outside>>

ApplyFill(c) ==
  /\ c.op = "FILL" /\ c.attempt.order = c.fill.order
  /\ \E r \in [kind : {"FILL_RESULT"}, status : {"APPLIED", "DUPLICATE"},
               attempt : {c.attempt, EntryFilled(c.attempt, c.fill)}] :
       /\ \/ Repeats(c.attempt, c.fill) /\ r.status = "DUPLICATE" /\ r.attempt = c.attempt
          \/ /\ ~Repeats(c.attempt, c.fill) /\ CanFill(c.attempt, c.fill)
             /\ r.status = "APPLIED" /\ r.attempt = EntryFilled(c.attempt, c.fill)
       /\ Finish(c, r)
       /\ caller' = [caller EXCEPT !.fill = r.attempt]
  /\ UNCHANGED <<session, outside>>

\* Mutant: each applied fill is requested for on its own.
RequestedAnew(a) == ProtectionRequested(a)
\* The attempt of the request: a pending protection is asked for again.
Pending(a) == IF a.protecting # 0 THEN a ELSE ProtectionRequested(a)

Protect(c) ==
  LET a == c.fill.attempt
      Answer(attempt, status) ==
        Finish(c, [kind |-> "PROTECTION_RESULT", attempt |-> attempt, status |-> status, at |-> None])
      covered == [broker[a.plan] EXCEPT !.covered = @ + Increment(Pending(a))]
  IN  /\ c.op = "PROTECT" /\ Allowed(c)
      /\ \/ /\ a.protecting # 0 \/ CanRequestProtection(a)
            /\ \/ Call(c, a.plan, Pending(a).protecting, covered, "PROTECTION_RESULT", Pending(a))
               \/ Answer(Pending(a), "BLOCKED") /\ UNCHANGED <<broker, record, lost>>
         \/ /\ a.protecting = 0 /\ ~CanRequestProtection(a)
            /\ Answer(a, "NO_ACTION") /\ UNCHANGED <<broker, record, lost>>
      /\ UNCHANGED <<mode, disciplined, session, caller, reports>>

Acknowledge(c) ==
  LET a == c.protection.attempt  e == [target |-> a.protecting, at |-> c.protection.at]
  IN  /\ c.op = "ACKNOWLEDGE" /\ e.at # None /\ CanAcknowledgeProtection(a, e)
      /\ Finish(c, [kind |-> "LIFECYCLE_RESULT", attempt |-> ProtectionAcknowledged(a, e)])
      /\ caller' = [caller EXCEPT !.protection = ProtectionAcknowledged(a, e)]
      /\ UNCHANGED <<session, outside>>

\* coherentContinuation: exits alone lead from the protection's attempt to this one.
Continues(source, a) ==
  LET later == SubSeq(a.exits, Len(source.exits) + 1, Len(a.exits))
      Replay(b, f) == IF b # Refused /\ CanExit(b, f) THEN Exited(b, f) ELSE Refused
  IN  IsPrefix(source.exits, a.exits) /\ FoldLeft(Replay, source, later) = a

ApplyExit(c) ==
  /\ c.op = "EXIT" /\ Continues(c.source, c.attempt)
  /\ Repeats(c.attempt, c.fill) \/ CanExit(c.attempt, c.fill)
  /\ LET a == IF Repeats(c.attempt, c.fill) THEN c.attempt ELSE Exited(c.attempt, c.fill)
     IN  /\ Finish(c, [kind |-> "EXIT_RESULT", attempt |-> a])
         /\ caller' = [caller EXCEPT !.fill = a]
  /\ UNCHANGED <<session, outside>>

CreateBasis(c) ==
  /\ c.op = "CREATE_BASIS" /\ Finish(c, [kind |-> "BASIS_RESULT", plan |-> c.attempt.plan])
  /\ UNCHANGED <<session, caller, outside>>

\* What two authorities compare of a position.
Position(a) == [plan |-> a.plan, filled |-> a.filled, exited |-> a.exited, asOf |-> a.lastAt]

Value(c) ==
  /\ c.op = "VALUE" /\ Finish(c, [kind |-> "VALUATION_RESULT", position |-> Position(c.attempt)])
  /\ UNCHANGED <<session, caller, outside>>

Cost(c) ==
  /\ c.op = "COST" /\ Finish(c, [kind |-> "COST_RESULT", position |-> Position(c.attempt)])
  /\ UNCHANGED <<session, caller, outside>>

Gross(c) ==
  /\ c.op = "GROSS" /\ Ended(c)
  /\ caller' = [caller EXCEPT !.gross = c.position]
  /\ UNCHANGED <<session, results, outside>>

\* positionsAreCoherent
SameMoment(gross, cost) == gross = cost

Net(c) ==
  /\ c.op = "NET" /\ SameMoment(c.gross, c.cost)
  /\ Finish(c, [kind |-> "NET_RESULT", gross |-> c.gross])
  /\ UNCHANGED <<session, caller, outside>>

Multiple(c) ==
  /\ c.op = "MULTIPLE" /\ c.net.gross.plan = c.basis
  /\ Finish(c, [kind |-> "MULTIPLE_RESULT", gross |-> c.net.gross, basis |-> c.basis])
  /\ UNCHANGED <<session, caller, outside>>
-----------------------------------------------------------------------------
(* The broker fills and exits on its own, also while a command is awaited.     *)

BrokerFill(p, q) ==
  /\ broker[p].working /\ broker[p].filled + q =< MaxFilled[disciplined]
  /\ reports' = reports \union
       {[kind |-> "ENTRY_FILL", id |-> broker[p].filled + q, order |-> p, qty |-> q, at |-> Now]}
  /\ broker' = [broker EXCEPT ![p].filled = @ + q]
  /\ UNCHANGED <<mode, disciplined, session, running, results, caller, record, lost>>

BrokerExit(p, q) ==
  /\ broker[p].exited + q =< broker[p].filled
  /\ \E target \in {k \in 1..Quantity : record[p][k] = "CONFIRMED"} :
       /\ broker[p].exited + q =< target
       /\ reports' = reports \union
            {[kind |-> "EXIT_FILL", id |-> Quantity + broker[p].exited + q, target |-> target,
              order |-> p, qty |-> q, at |-> Now]}
  /\ broker' = [broker EXCEPT ![p].exited = @ + q]
  /\ UNCHANGED <<mode, disciplined, session, running, results, caller, record, lost>>

Feed(r) ==
  \/ FeedStage(r) \/ FeedSubmission(r) \/ FeedInitialization(r) \/ FeedProtection(r)
  \/ FeedAttempt(r) \/ FeedBasis(r) \/ FeedValuation(r) \/ FeedAuthorities(r) \/ FeedNet(r)
  \/ FeedMultiple(r)
  \/ \E environment \in {"SANDBOX", "LIVE"} : FeedPreparation(r, environment) \/ FeedFill(r, environment)

Execute(c) ==
  \/ RunStage(c) \/ Submit(c) \/ Initialize(c) \/ ApplyFill(c) \/ Protect(c) \/ Acknowledge(c)
  \/ ApplyExit(c) \/ CreateBasis(c) \/ Value(c) \/ Cost(c) \/ Gross(c) \/ Net(c) \/ Multiple(c)
  \/ End(c)

Next ==
  \/ ObserveTrade
  \/ \E f \in reports, a \in Held : ObserveFill(f, a) \/ ObserveExit(f, a)
  \/ \E op \in {"VALUE", "COST"} : RequestProjection(op)
  \/ \E r \in results : Feed(r)
  \/ \E c \in running : Execute(c)
  \/ \E p \in Plans, q \in 1..Quantity : BrokerFill(p, q) \/ BrokerExit(p, q)

Spec == Init /\ [][Next]_vars
-----------------------------------------------------------------------------
(* Properties.                                                                 *)

TypeOK ==
  /\ mode \in {"DRY_RUN", "SANDBOX"} /\ disciplined \in BOOLEAN /\ lost \in BOOLEAN
  /\ session.attempt \in Attempts \union {None}
  /\ session.basis \in Plans \union {None}
  /\ \A c \in running : c.op \in {"INGEST", "ANALYZE", "DECIDE", "PREPARE", "SUBMIT", "INITIALIZE", "FILL",
       "PROTECT", "ACKNOWLEDGE", "EXIT", "CREATE_BASIS", "VALUE", "COST", "GROSS", "NET", "MULTIPLE"}
  /\ disciplined => Cardinality(results) =< 1
  /\ broker \in [Plans -> [working : BOOLEAN, filled : 0..Quantity, covered : Nat, exited : 0..Quantity]]
  /\ record \in [Plans -> [0..Quantity -> {"NONE", "SUBMITTED", "CONFIRMED", "REJECTED"}]]

\* What the broker was asked to cover is what it filled, at most: with a
\* disciplined caller, the runner's single flight and the pending request keep a
\* fill that arrives meanwhile from being covered on top, unless a command was
\* lost after the broker had acted.
CoverWithinFills == \A p \in Plans : broker[p].covered =< broker[p].filled
CoveredOnce == disciplined /\ ~lost => CoverWithinFills

\* The planner never leaves a session it would itself call INVALID_SESSION, or
\* that could not be hydrated: attempt, risk basis and R multiple are one trade's.
SessionStaysValid ==
  /\ TypeOK
  /\ session.basis # None => session.attempt # None /\ session.attempt.plan = session.basis
  /\ session.multiple # None =>
       /\ session.attempt # None /\ session.basis # None
       /\ session.multiple.gross.plan = session.attempt.plan
       /\ session.multiple.basis = session.basis

\* Whatever is dispatched, however often and in whatever order, the session
\* counts no fill, protection or exit that the broker does not have.
BooksWithinBroker ==
  session.attempt # None =>
    LET a == session.attempt  b == broker[session.attempt.plan]
    IN  a.filled =< b.filled /\ a.protected =< b.covered /\ a.exited =< b.exited

\* With a disciplined caller no result overwrites a later attempt: nothing that
\* was filled, protected or exited is forgotten.
NothingForgotten ==
  [][disciplined /\ session.attempt # None =>
       /\ session'.attempt.filled >= session.attempt.filled
       /\ session'.attempt.protected >= session.attempt.protected
       /\ session'.attempt.exited >= session.attempt.exited]_session
=============================================================================
