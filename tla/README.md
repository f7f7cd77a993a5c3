# ULTE: TLA+ models of the trading pipeline and its recoverable execution core

ULTE is a TypeScript monorepo that turns market data into trades.  It falls into
two halves.  One half is a pipeline of engines over exact decimals: candles,
structure, regime, setups, risk, sizing, a trade intent, a plan.  The other
half takes the plan to a broker and must survive crashes, lost replies and
competing processes: the recovery lease and record, the idempotency records, the
commit services, the recovery boot, the recoverable runtime, and the execution
attempt with its session, projections and accounting.  This directory models
both, checks them with TLC and proves part of them with TLAPS.

`PROJECT.json` lists the components, the runs, the mutants, the source lines of
every definition, the hazards, the findings and the theorems.

## 1. Inventory

Paths are relative to `src/packages/` unless they start with `src/`.

| Component | State it keeps | Operations | What is hard | What makes it correct |
|---|---|---|---|---|
| Recovery lease and record (`orchestration-state-store`, `orchestration-state-store-postgres/src/lease-store.ts`, `recovery-store.ts`) | the lease row (owner, fence, expiry), the recovery row (fence, revision, checkpoint) | acquire, take over, renew, release, load; initialise, save | expiry by the database clock, handles presented late, the fence stored twice | a fence names one owner; a save behind the lease is the holder's; no step parts the two rows |
| Idempotency records (`broker-adapters/src/idempotency.ts`, `execution-store-postgres`) | one row per adapter, environment and key | claim, record an outcome, read | any number of callers, any order, callers' clocks | one submission per permit; settled rows and known facts stay |
| Generic reconciliation engine (`execution-reconciliation-engine`) | the idempotency row only | orchestrate, reconcile | unfenced callers that interleave at every await | the crash window is marked; one request per key; true verdicts |
| Fenced writer, commit and terminal services (`orchestration-state-store-postgres`) | pending effects, outcomes, receipts, the recovery row | commit intent, claim, mark, store outcome, adopt, close | many rows in one transaction, revisions read long before | rows of a commit stand or fall together; commits are fenced |
| Recovery boot (`boot-loader.ts`, `sandbox-orchestration-recovery/src/classify.ts`) | none: one snapshot of all rows | load, classify | every history of the other services must read as something | what it rejects is one of four known histories (section 6) |
| Recoverable runtime (`recoverable-runtime.ts`) | what a call remembers between awaits | submit, reconcile, adopt | crash, lapse or takeover at each await, lost replies, retries | no duplicate call, no forgotten call, adoption in the end |
| Execution attempt (`execution-engine`) | order, fills, protection, exits, cancellation | one event or request each; restoration by replay | late, repeated, reordered reports; crash between two saves | nothing invented, nothing covered twice, replay equals live |
| Session: planner, runner and the commands' engines (`live-trading-orchestration-engine`, `sandbox-orchestration-runner`, `realtime-execution-*`, `realtime-*-protection*`) | the session, a busy flag, a pending request | dispatch, plan, submit, fill, protect, acknowledge, exit, project | a broker that moves during an await; results lost, repeated, late | a fill is covered once; books within the broker's; one trade's facts |
| Position, accounting, valuation, costs, performance, R multiple | none: projections of an attempt | project, compose | matching order, authorities of different moments | FIFO is unit by unit; money is conserved; stale compositions are refused |
| Market data (`market-data`, `live-market-data-engine`) | a candle per timeframe, a window of recent trades, an epoch | process a trade, restore a candle | lost, repeated, reordered trades; a source that begins anew | candles are the trades; none counted twice; holes are told |
| Analysis (`regime-`, `structure-`, `setup-engine`, `realtime-analysis-engine`) | bounded history per timeframe, a boundary | classify, detect, process candle events | a setup pieced together over many candles; bounded windows | no hindsight; up mirrors down; whole frames |
| Decision and preparation (`risk-`, `portfolio-risk-`, `position-sizing-`, `trade-intent-`, `execution-preparation-engine`, the realtime engines) | bounded recent decisions and preparations, a boundary | qualify, limit, size, decide, prepare | evicted and repeated results; limits across plans | bounded loss; one decision and one preparation of a boundary |
| Migration coordinator (`src/tools/migration-coordinator`) | migration ledger, schema, advisory lock | migrate, verify | crash between a file's commit and its ledger row; two builds | the schema is a prefix of the manifest; a verified schema is whole |
| Exact decimals, backtest, research scripts, applications | none, or a replay loop | | | section 8 |

Interactions.  Trades become candle batches, batches become analysis cycles,
cycles decisions, decisions preparations; each engine publishes results that
its caller carries to the next, late or again or never.  A preparation enters a
session: the planner turns an observation or a result into a new session and
at most one command, the runner awaits the command and returns its result to the
caller.  In the recoverable variant a command is an effect of a session
row: the runtime boots (loader, classifier) and submits, reconciles or adopts
through the fenced writer and the commit services; each of their transactions
locks the lease row and checks owner, fence, expiry, revision and effect, and
between two transactions there is only the runtime's memory.

## 2. Modules

| Module | Models | Used by |
|---|---|---|
| `Fencing` | the abstract lease: a holder, a fence that grows with every grant, writes behind the check in the name of the live holder, writes without it that never go back behind a later grant, at growing revisions | refined by `LeaseStore` and by the commits of `RecoverableRuntime` |
| `LeaseStore` | lease and recovery store, with the clock | `LeaseStoreProofs` |
| `IdempotencyRecord` | the status rules, as operators | the next four |
| `IdempotencyLedger` | the repository on one row: clocks, order ids, fingerprints | `IdempotencyProofs` |
| `ReconciliationEngine` | the generic engine: calls that orchestrate and reconcile one key | `IdempotencyProofs` |
| `RecoveryBoot` | the classifier's decision table over a snapshot | `RecoverableRuntime` |
| `RecoverableRuntime` | processes running the runtime on one session, over the lease, the status rules and the boot | `MCRuntime`, `RuntimeProofs` |
| `ExecutionAttempt` | `policy.ts`: each transition as a guard and the attempt it returns | the next two |
| `ExecutionLifecycle` | an attempt with an owner that crashes and replays its evidence, and a broker with unreliable reports | `TradeAccounting` |
| `TradeAccounting` | the projections, as operators over the attempts the life cycle reaches | `MCExecution`, `ExecutionLifecycleProofs` |
| `TradingSession` | planner, runner and every command that has a state, over `ExecutionAttempt` and a broker per plan | `MCSession`, `SessionProofs` |
| `Candles` | candle builder and restoration, as operators | `MarketPipeline` |
| `MarketPipeline` | feed, ingestion, analysis, decision and preparation engines with their windows and boundaries | `MCMarket`, `MarketProofs` |
| `Selections` | what a filter keeps, by the indices | `Candles`, `Setups` |
| `Setups` | regime, structure and setup evaluators, as operators | `TradeDecision` |
| `TradeDecision` | structural risk, portfolio risk, sizing, intent and plan, as operators | `TradePlan` |
| `TradePlan` | a chart that grows, decisions on it, and the positions that come of them | `MCTradePlan`, `TradePlanProofs` |
| `MigrationCoordinator` | processes of several builds, query by query | `MCMigration`, `MigrationProofs` |
| `MC...` | instances for TLC | the runs |
| `...Proofs` | theorems | |

`TradePlan` looks into the evaluators that `MarketPipeline` treats as one choice,
and `MarketPipeline` into the windows and boundaries that `TradePlan` takes as
one decision per boundary.

### Recovery half: from code to model

*One transaction is one action.*  Every transaction of the services locks the
lease row (`SELECT ... FOR UPDATE`) or the idempotency row first and holds it to
the end, so transactions of a session are serialised.  The lease check at the end
repeats the first one; when it fails, everything is rolled back,
which is the same as the first check failing.

*An await is a step boundary.*  In `RecoverableRuntime` a process record has the
step it is at and what the code keeps in local variables: fence and revision of
the boot, effect, retry flag, what the adapter or provider said, outcome key.
The call of the broker is two steps: the broker's doing with its reply
(`Invoke`), and the transaction that stores the answer (`Respond...`).

*`Crash`* is the death of the process at any await and every return that changes
nothing: a thrown error, a caller that gives up, `BLOCKED`, `ALREADY_ADOPTED`, a
lost lease.  Retries of commits that already happened answer from the receipt
and change nothing, so they have no action of their own.

*The lease in the runtime* is held or not, with the fence of its last grant.
Renewals have no effect on what is modelled there; release and expiry are
both `Lapse`; `LeaseStore` has them one by one.  A session starts with its
recovery row at the fence of a released lease, and two rows that agree go on
agreeing (`RowsStayTogether`, checked and proved of `LeaseStore`), so the runtime
keeps one copy.  Rows that an initialisation at a superseded fence made differ
have no runtime behind them: no lease of theirs can be acquired or renewed.  The
checkpoint reference is fixed by the revision.

*The broker* is honest: it processes a key once and repeats its verdict; its reply
may be lost.  *The provider* reports what the broker has done when it is asked,
or that it does not know.  Both are outside `src/`; `Truth` is marked external.

*`LoadForIntent`* reads fence and revision for the caller of `commitPendingIntent`,
which has its tests but no production caller yet; the model's caller asks for an
effect when those it depends on (`After`) were accepted.  `Adopt` takes the effect
that shall follow, pending with the adoption in one transaction: `adoptOutcome` and
the boot know it (`ADOPTION_NEXT_PENDING`), the runtime itself asks for none.

*`LeaseStore`* has every public write of the recovery row: the initialisation by
whoever calls it at whatever fence, the save that asks the record only, the save
and the terminal commit behind the check of the lease.  What saves present is a handle
that was granted.

*`RecoveryBoot`* takes the snapshot the loader reads in one transaction.  All
reasons for `RECOVERY_REJECTED` are one answer; when several effects have the
same priority the choice is open.

*`IdempotencyLedger`* has times, order ids and fingerprints; the runtime
and the engine have the status only.  A clock that runs back or a conflicting
order id is a throw, one of the things `Crash` or `Abandon` stands for.

### Execution half: from code to model

*`ExecutionAttempt`.*  `policy.ts` is pure, so a transition is a pair of
operators: `CanX` (its guards, in the order of the code) and `Xed` (the attempt
it returns).  Quantities count the smallest unit; a protection request is named
by the cumulative quantity it asks for, as its key is.

*`ExecutionLifecycle`.*  The owner applies transitions in memory, saves prefixes
of its evidence, and may die anywhere; it is then restored by replaying the
evidence one transition at a time (`recovery.ts`).  A request reaches the broker
only when it is saved.  The broker is external: what is assumed of it stands at
its actions.  Reports are a sequence that grows; any of them may be taken in at any
time, repeatedly or never, and `inOrder` remembers whether that was in order.

*`TradeAccounting`* has no steps: exposure, FIFO matching, valuation, costs, net
performance and the refusal of stale compositions are operators, evaluated in
every state of the life cycle, long and short.  The value of the R multiple is a
ratio and is left out; the checks that guard it are modelled.

*`TradingSession`.*  A dispatch is one action: planner and adoption of the next
session run without an await.  The command it starts is a member of `running`, its
completion another action, and the broker may act between them.  Submission,
initialisation, fill, protection, acknowledgement, exit, risk basis, valuation,
costs, gross, net and R multiple are commands with their engines' checks;
ingestion, analysis, decision and preparation are commands whose contents are
`MarketPipeline`'s.  The `disciplined` caller feeds each result back once before
anything else; the other one loses, repeats and reorders them.

### Pipeline half: from code to model

*`Candles`, `MarketPipeline`.*  A candle is kept as the trades it aggregates;
open, high, low, close, volume and count are functions of them.  The feed is a log;
delivery picks any entry.  A refusal (future, duplicate, conflict, late) changes
nothing and is a step that does not happen.  Retained trades, histories, cycles and
recent decisions are bounded windows, smaller than the history in the run.

*`Setups`, `TradeDecision`.*  The evaluators are written as sets: the pivots of
a window, the events on them, the candidates of a family, the confirmed ones.
Decimals are integers, ratios are parts of `Whole`.  Reasons of refusals, traces
and confidence labels are left out, and so is the relation of a swing to
the one before it (higher high, lower low), which nothing downstream reads.

*`TradePlan`.*  `NextCandle` appends a candle, `Decide` takes one of the
confirmed candidates through the whole chain, `Prepare` prices the plan with
a quote, `Enter`, `Expire` and `Leave` are the broker's.  The account is the
caller's, who counts a plan that may still be filled as an open position.

*`MigrationCoordinator`.*  Each query of a run is a step: the lock, the look at
the schema, the ledger's creation and reading, each file's transaction, each
ledger row's, the unlocking; verification reads the ledger and the catalog in two
queries.  A file is its identity; its SQL is the migrations it builds
upon (`Needs`) and the objects it makes.

Mutants (definitions with the comment "Mutant:") stand before the definition
they vary; no specification uses them.

## 3. Runs

| Run | Instance | Question |
|---|---|---|
| `LeaseStore` | 2 owners, durations 1 and 2, clock to 4, fences to 3, revisions to 3 | Does any order of grants, expiry, renewal with old handles, takeover, saves and initialisations at any fence break the fencing, or part rows that agree? `Fencing` is a property (`Fenced`). |
| `IdempotencyLedger` | 2 requests, 2 order ids, times to 3, 3 retries | Can racing callers pay a permit twice, change a settled row, lose a fact? |
| `ReconciliationEngine` | 3 concurrent calls, 2 requests, 2 retries | Is the crash window marked, does one request reach the adapter, are settled verdicts true? |
| `RuntimeTwoOwners` | 2 processes of different owners, an entry, 3 grants, 2 retries, 3 outcome keys, any answer, lapses at any time | Is what the session believes unsubmitted unsubmitted, but for calls made without the lease; are the commits fenced across takeovers (`Fencing` again, over the receipts); does a boot reject only what it is known to? |
| `RuntimeOneOwner` | 2 processes of one owner, 2 effects pending at once, 1 retry, any answer | With no fence between the processes, is the broker called once per permit, are outcomes true, do the rows of each commit agree, does a boot reject only what it is known to? |
| `RuntimeLive` | 2 owners, an entry and then its cancellation, lapses at any time, conclusive provider, fairness | Is no call forgotten, is a durable outcome adopted in the end? |
| `ExecutionLifecycle` | quantity 2, three kinds of adapter, up to 2 unsaved transitions and 2 cancellations, long and short, 5 deliveries of cost events | Do lost, repeated and reordered reports and crashes invent, lose or cover anything twice; do the projections of every attempt agree with each other? |
| `TradingSession` | 2 plans, quantity 2, a disciplined and an undisciplined caller | Is a fill covered once though the broker fills during every await; do the session's parts belong to one trade, in any order of results? |
| `MarketPipeline` | timeframes of 3 and 1, four trades with every order of times 0 to 4, restarts of the source after 2 or 4, all windows of 1 or 2 | Are candles the trades, is none counted twice, is each frame whole, is each boundary decided and prepared once? |
| `TradePlan` | 4 charts of 7 candles and 10 next candles (a gap among them) to length 10, 2 risk amounts, 3 sets of groups (no group, one with a limit of its own, one with the total's), 8 quotes | Is a setup free of hindsight, is a falling market read as a rising one, is the loss bounded when positions end in any order? |
| `MigrationCoordinator` | 2 processes, 2 builds (4 and 5 migrations), 7 databases to begin with | What do races and deaths leave of a schema, and what may a verified capability be relied on for? |
| `RetryAfterNotSubmitted` | as `RuntimeTwoOwners`, with one retry and two keys | refutes a sentence of an audit (section 6) |

Why the bounds are enough.

* *Recovery.*  Two owners and three fences give a holder, a successor, and a
  successor of the successor, so a stale handle can be one or two grants old.
  The hazards are between two processes; the engine has a third because a claim, a
  reconciliation and a retry are three parties.  Two permits show one used
  while another is granted.  Two keys let outcomes of one effect, or of two, differ
  or collide; the third lets a disposition, a second one and a canonical
  outcome stand together.  Keys, and in `RuntimeOneOwner` effects and processes, are
  interchangeable, hence the symmetry; `RuntimeLive` has liveness and uses none.
  Bounds on fences and retries are guards of the actions that would exceed them: the last
  grant of a run does not lapse, so that liveness is not refuted by running out of
  fences; in `LeaseStore` the bound is the code's own overflow refusal.
* *Execution.*  A quantity of 2 has a partial fill, a full fill, coverage
  behind the fills and an exit of half the position; two unsaved transitions let a
  crash lose a request with its answer; a second cancellation reuses the key of
  the first.  Two plans let a result of one trade meet the session of another.  The
  undisciplined caller's orders fill in part only and it keeps one old result
  beside the new ones, which already gives every overtaking of two results.
* *Pipeline.*  The windows are smaller than the history, so eviction happens;
  four trades fill and end several candles of both timeframes, and the sparse
  log lets one trade end both at different boundaries.  The charts are the
  beginnings of a sweep and of a breakout with a retest; the next three
  candles confirm, spoil, spike through the target, gap, or stop out, so that two plans
  are open together and one of them may have lost.  `MCTradePlan` allows the mirrored
  regimes alike, which `UpMirrorsDown` needs; the code's configuration
  need not be symmetric.
* *Migration.*  Two processes of different builds interleave everywhere; the databases
  are an empty one, someone else's, one that lost a table the catalog check knows or
  one it does not, one that lost rows, one with a row too many, and one of another history.

Deadlock is not checked: resolved sessions, closed attempts and full charts rightly
stop, and bounded runs end.

No run assumes that a lease outlives a call of the broker, for the code cannot enforce
it: the last fenced check is a transaction of its own.  The effects that were called for
by a process without the lease, or beside another process of its owner, are remembered
in a variable that no step reads (`unguarded`), and `NotSubmittedIsTrue` speaks of the
others.

Fairness (`RuntimeLive`).  `LiveSpec` asks that a process which could take the
lease for ever takes it (weak), that one which can again and again boot on a stored
outcome, or adopt it, eventually does (strong: lapses and takeovers disable these
steps between), and that an await eventually returns or throws (weak fairness of
`Crash`, which is also the caller giving up).  That is the caller coming back until
its work is done, as the documents ask; there is no fairness on the broker, the
provider or new submissions.  The other halves have no liveness to check: their engines
are synchronous and wait for nothing, and what moves them is the caller.

## 4. Properties

* `LeaseStore`: `OneOwnerPerFence`; `RowsStayTogether`: whatever the caller does after the
  record is there, the two rows that carry the fence are not parted, and once they differ
  the lease does not change any more; `Fenced`: behind the check a paused process with an
  old handle cannot act for a new owner; without it, it can save in the name of its old
  grant, but only at the fence the record has and never after a later grant has saved.
* `IdempotencyLedger`: `OneSubmissionPerPermit`, `FactsOnlyGrow`: whoever was told that
  it applied SUBMITTED may call the broker, once per permit.
* `ReconciliationEngine`: `NoUnmarkedCall`, `OneRequestPerKey`, `VerdictIsTrue`.
* Runtime: `CallBudget`: calls never exceed the claim and the authorised retries.
  `NoForgottenCall`: what the broker has done, a durable record stands for.
  `NotSubmittedIsTrue`: a retry or a closed session means the broker does not have the
  request, unless somebody called for it without the lease, or beside another process of
  its owner: that request may arrive after the observation.  `OutcomesAreTrue`.  `RowsAgree`: effects, receipts and
  the terminal record agree in every state.  `FencedCommits`.  `Bootable`: a boot that is
  rejected has one of four histories to show (`Strays`): an effect observed under two keys,
  one observed and then adopted, a retry that went on after its observation, an effect
  left pending when another closed the session.  All four are reached in the runs; that
  they are rejected is the classifier's doing (section 6), that nothing else is, is what the
  property says, of every answer, shared owners and concurrent effects.
  `OutcomeAdopted`: liveness.
* Life cycle: `NeverOverProtected`: at the broker itself, orders that close a position never
  exceed it.  `NothingInvented`, `RedeliveryIsHarmless`, `HonestReportsAreAccepted` (delivered in
  order, none is refused, also after a crash), `RestorationSucceeds`, `ClosedForGood`.
* Accounting: `FifoIsUnitByUnit` (against a reference, unit by unit), `NetIsConserved`,
  `StaleAuthoritiesAreRefused`.
* Session: `CoveredOnce`, `SessionStaysValid`, `BooksWithinBroker`, `NothingForgotten`.  `CoveredOnce` excludes commands lost after the broker acted (section 6).
* Pipeline: `CandlesAreTheTrades`, `CountedOnce`, `RestorationAgrees`, `FramesAreWhole`,
  `PreparedOnce`.
* Plan: `TargetsAreUntouched` (against definitions of peaks and troughs from the chart alone),
  `UpMirrorsDown` (every rule is written twice, with opposite comparisons), `LossIsBounded`.
* Migration: `SchemaFollowsManifest`, `VerifiedIsWhole`.

## 5. Theorems

All proofs are complete; nothing is assumed but the named assumptions on the
constants and, for `CommitsAreFenced`, that the effects are finitely many.  They hold for every set of owners, requests, callers or processes and
every bound.  The type invariants of the six recovery and execution modules are
proved; the runs of these modules have none of their own.

* `LeaseStoreProofs`, under `LeaseAssumption`.  The inductive invariant is
  `SafeInv`, the type invariant with `OneOwnerPerFence` and `WritesFollowFences`:
  a new grant exceeds all handles only because these say that no handle is above
  the lease's fence and no save above the recovery row's, or above a handle.  `Typed`,
  `TokensNameOwners` and `SavesFollowTokens` follow.  `RowsKeepTogether` needs of it
  the types only: what keeps the rows together is `coherent()` at the head of each change of
  the lease and the synchronisation in it.  The refinement (`StoreImplementsFencing`) has
  one lemma per action: a grant, a lapse, a write of the live holder, a write without the
  check, or a stutter; that an unchecked save is behind no later grant is
  `WritesFollowFences`.  No hypothesis is made on the caller that initialises the record.
* `IdempotencyProofs`, under `LedgerAssumption` and `EngineAssumption`.  Of the row,
  `LedgerInv` adds to the typing that the permits still unpaid are counted by the
  status, without which `OneSubmissionPerPermit` is not inductive, and that an absent
  row has no facts.  Of the engine, `EngineInv` adds, for every caller at each of its
  steps, what it may rely on (`CallerKnows`): its request is the claimed one, the
  record was marked before the call, and a verdict it was told is the broker's, which
  never changes.  Without the last part a late answer could settle a false verdict.
* `RuntimeProofs`, under `RuntimeAssumption`.  `RuntimeInv` adds to the properties
  what a process may rely on at each await (`Knows`: before the call its effect is
  pending and marked, and what it was told is what the broker did) and, per effect,
  the `Balance`: calls made, processes between their mark and their call, and the
  permit that is left are together within the permits given.  `Mark` moves
  one from the permit to the processes, `Invoke` from the processes to the calls;
  `CallBudget` alone is not inductive.  No step of the proof needs the lease but to
  type a receipt: that `CallBudget`, `NoForgottenCall` and `OutcomesAreTrue` hold is
  the doing of the rows, also when leases lapse in mid-call.
  `RowsAgree` needs `RowsInv`: the revision numbers and counts the receipts
  (`Numbered`), so that a commit which finds the revision it booted on is the next
  one; each state of an effect has its receipts (`EffectRows`); and whoever is about
  to adopt has an outcome to adopt.  `FencedCommits` takes one lemma per
  group of actions: a grant, a lapse, a commit in the name of the live lease, or a
  stutter.  `NotSubmittedIsTrue` rests on `Leased`: who holds the lease, alone in its
  owner's name and on its way to call, finds the record SUBMITTED and the broker without
  the request, and what a holder was told not to have been submitted stays so until it
  writes it down, because a call that comes between is made by somebody else, who
  holds no lease or not alone, and marks the effect.  `Bootable` rests on `BootInv`:
  an outcome is of an effect that was submitted, and a verdict of the broker is in the record
  for good (`Stored`); one key names one outcome (`KeysNameOne`); at most one effect closed
  the session (`Ended`).  From these and `RowsInv` every test of the classifier is passed by
  a snapshot without strays (`SnapshotCoherent`), and a coherent snapshot is classified
  (`CoherentBoots`).  Neither theorem has a hypothesis.
* `ExecutionLifecycleProofs`, under `QuantityAssumption`, `LifecycleAssumption` and, for the
  money, `AccountingAssumption`.
  The quantities of an attempt nest (exits within protection, protection within
  fills, fills within the plan) and a closed attempt takes no transition.  One
  lemma per transition says that it takes a good attempt to a good one; because
  transitions are operators on attempts, the same lemmas serve the owner's memory, the
  stored attempt and the replay.  `Good` adds to the nesting what each status
  says of the attempt (`Status`): without it, a refused entry could have fills.
  `TraceInv` says that the evidence has a chain of attempts, each of them the last
  one's transition; `RestorationSucceeds` follows since the replay is that chain,
  and `RedeliveryIsHarmless` since what made a report known stays in every later
  link.  `FactsInv` relates the evidence to the broker's books: the fills taken in
  are reports, their sum is the quantity filled, a coverage that is asked for was
  filled first.  From it come `NeverOverProtected` and `NothingInvented`, whose
  sums over sequences are handled by appending one report at a time.
  `HonestReportsAreAccepted` adds the clocks (`ClockInv`) and that in order of
  delivery the attempt is the image of the reports so far (`OrderInv`).
  `StaleAuthoritiesAreRefused` is about `Restore` of any beginning of the evidence:
  that the fold is the chain of `TraceInv` (`RestoreFollowsTrace`) is proved by least
  members, and along the chain fills and exits only grow (`Later`), so that equal
  quantities are equal fills.  This rests on `RefusedAssumption`: a failed
  restoration is not taken for an attempt.
  `FifoIsUnitByUnit` compares two computations of one profit.  Each is put in terms of
  two running sums: how many units the first fills have (`Tally`) and what the first
  units are worth (`Worth`).  A lot then is an interval of units, and after c units
  are sold it is what the interval has beyond c (`Unsold`); matching one exit against
  one lot moves c by the overlap (`MatchOne`), against all lots by the exit
  (`MatchAll`), and the chronology of the events keeps `Sold`.  That no exit comes
  before its entry's units (`Covered`) follows from the chain of attempts: when an exit
  was taken in, as much was filled, at an earlier time or at the same, and the same is `Ambiguous`
  (`PaceByExit`, `PaceOfTrace`).  The chronology, a choice by rank, is shown to be
  the order of times by counting.  `NetIsConserved` adds the lots left at a mark
  (`HeldGoesOn`) and that normalizing deliveries costs what the set of delivered events
  does (`CostsOnce`), whose sum does not depend on the order (`ChargeRemove`).
* `TradePlanProofs`, under the assumptions of `Setups`, `TradeDecision` and
  `TradePlan`.  A setup is grounded in the chart (`SetupsAreGrounded`): its events
  come of a fold over the candles, so that the times it names are times of candles and its
  prices natural numbers.  An intent costs at most what was asked for
  (`IntentIsPaidFor`), and both limits together leave the floor of the day
  (`LimitsAreSafe`).  The inductive invariant `Bounded` says this of the book and
  of the intent that may still be prepared; the intent has to be counted, for
  plans fill, expire and are stopped out between its decision and its preparation.
  `TargetsAreUntouched` rests on an invariant of the fold itself (`CurrentStays`): after each
  candle the active levels are exactly the swings that nothing has traded through, and every
  event is what a candle did to a level that stood until then.  So a sequence swept and
  broke swings that were known in time (`SequencesForesee`: a level that was confirmed by
  the sweep is a swing whose last neighbour closed by then), and the targets of a decision are the
  swings that stand (`TargetsAreSwings`).  It uses that a candle's close lies between its low
  and its high, as the candle engine makes it: were it outside, a level would be broken
  that no trade of the candle went through.  The invariant of the steps (`TargetsReadOff`) adds that the chart
  is dated candle by candle, so that a further candle makes the decision one of the past.
  Induction over data, which the provers have no rule for, is done with
  least members: a set of numbers that has 0 and with a number the next one has
  them all (`Inductive`), and sums over finite sets follow (`SumWithout`).
* `MarketProofs`, under `PipelineAssumption`.  The window of recent identities is the
  end of what was accepted, position by position (`Remembered`); hence two trades of
  one identity and epoch are a window apart, which with the order of times and numbers
  gives `CountedOnce`.  `CandlesInv` says of each timeframe that its candles hold the
  accepted trades and that the open one's bucket is that of a time the stream has
  reached, so that the next trade falls into it or into one behind it (`Buckets`).
  What flattening one sequence more does is a lemma proved by least members, as the
  sums of the plan are.  `PublishedInv` says that decisions and preparations
  ascend up to the boundary of their engine: `PreparedOnce` does not rest on the
  windows of what is remembered, which may have evicted anything.
  `RestorationAgrees` unfolds the replay: the fold over the evidence is a chain of
  builders (`BuilderTrace`), and on evidence of a finalized candle, whose trades are
  in time and of its bucket (`FilledInv`), the chain finalizes the candle before it and
  the candle, nothing else (`ReplayGives`).  `FramesAreWhole` needs two invariants.
  `OrderInv`: a batch closes after everything that was finalized before, in whichever
  timeframe, because an open candle ends after the last trade; so the candles that
  closed by some boundary are a beginning of the list (`Counts`).  `AnalysisInv`: a
  history is the newest of that beginning for the engine's boundary (`Kept`), and a
  frame was cut from it (`Seen`).  What the analysis finds fresh is then the next
  batch as a whole (`NextIsFresh`), although it only looks at bounded windows: a batch
  that comes again is behind the boundary.
* `SessionProofs`, under `SessionAssumption` and `QuantityAssumption`, in three
  invariants.  `BookInv` holds for every caller: the attempt in the session, in each
  result the caller holds and in each awaited command counts units that the broker
  reported, no unit twice (`Backed`), and a confirmation that is about to be
  acknowledged is of something the broker covers (`Covered`).  Units are sets of
  numbers, so that what an attempt has filled is the size of a set within what the
  broker has filled, and no order of feeding results back can make it more:
  `BooksWithinBroker` and `SessionStaysValid` follow.
  `FlightInv` adds, for a disciplined caller, that there is one command or one result
  at a time and that it starts from the session's attempt: each result has grown from
  what it will replace (`GoesOn`), which is `NothingForgotten`.  `ExactInv` adds, while
  no command was lost, that the latest attempt knows exactly what is covered: what it
  has as protected before its request is recorded, that or what it asks for
  afterwards (`Exact`).  Hence a request that is made covers on top of what is
  protected, never on top of another request: `CoveredOnce`.
* `MigrationProofs`, under `ManifestAssumption`, `AppendOnly` and
  `DatabaseAssumption`.  `MigrationInv` has what a process knows at each of its
  steps on any database (`Knows`), and on one that coordinators alone made
  (`Works`): that the ledger is what it found and what it recorded, and that
  between a file and its row the schema is one ahead.  The heart is
  `ReadyToApply`: a file that is missing from the schema comes just behind
  what is recorded, because builds agree on what they share (`BuildsAgree`)
  and name nothing twice (`ExactPrefix`).  A prefix is then extended by one, in
  two steps, and a death between them leaves one migration ahead.

Only model-checked: `UpMirrorsDown`, which compares the evaluation of a chart with that of
the mirrored chart, through an operator that takes an operator (`Reading`) and over folds
that make their levels in different orders (a candle leaves its high before its low, the
mirrored one the other way round); and liveness, which is
out of the prover's reach.

## 6. Findings and observations

`RetryAfterNotSubmitted` (a run).  The explicit retry after `CONFIRMED_NOT_SUBMITTED`
writes SUBMITTED while the disposition row stays.  A crash then leaves a
session whose boot is `RECOVERY_REJECTED`; the audit promises reconciliation.

The rest was met while modelling; no run states it.

Recovery:
* A second `STILL_UNKNOWN` observation under another key is stored, and the classifier
  rejects two dispositions; so does every boot when one stays beside an adopted outcome.
* One of two pending effects may close the session; its boot is rejected because of the
  other one.
* The last fenced check is a transaction of its own: the adapter may be called after the
  lease has passed on, and the request may arrive after the successor was told that it was not
  submitted (the exception of `NotSubmittedIsTrue`).
* `initializeRecoveryState` takes any fence the caller presents: a stale handle leaves the
  lease and recovery rows with different fences for good, and `saveRecoveryState`, which asks
  the record only, then saves for a superseded owner (`FUncheckedWrite` of `Fencing`).
* Two concurrent retries of one permit through the generic engine both call the adapter:
  `persistOutcome` takes a SUBMITTED that was there for one's own.  Its
  reconciliation may authorise a retry from an observation that another call has overtaken.
* A crash between the claim and SUBMITTED leaves CLAIMED, which asks for a disposition.

Execution:
* A protection command that fails after the broker accepted: the next fill's request has
  another key and covers the quantity again.  The execution contract
  (`src/docs/execution/execution-policy-and-adapter-contract-v1.md`) never permits protection
  above what is filled.
* Fills reported after the cancellation was acknowledged are refused (`policy.ts:358`, the order
  is not WORKING any more); a second cancellation has the key of the first
  (`policy.ts:511`); an exit of an older bracket after one of a newer bracket is refused (`policy.ts:371`).
* After PROTECTION_REJECTED, RECONCILIATION_REQUIRED or BLOCKED the attempt stays
  PROTECTION_PENDING and the planner has no command for it.
* The planner submits a second plan while the session follows an attempt; a resubmitted
  preparation answers SUBMISSION_CONFIRMED without an acknowledgement, and its fresh attempt
  replaces the position.  The runner does not feed results back: that is the caller's.
* An entry fill and an exit fill of one timestamp have an ambiguous chronology
  for the accounting, and a flat position whose cancellation is pending has no exposure.

Pipeline:
* A `DUPLICATE_DECISION` is said to be a no-op (`realtime-execution-preparation-engine/src/engine.ts`);
  when its decision is no longer retained it advances the boundary, and the original is then refused.
* A candle of a later boundary in one batch takes a place of the history before the earlier
  boundary's frame is made (`realtime-analysis-engine/src/engine.ts:146`); with timeframes ordered from
  coarse to fine one batch after a gap gives decreasing boundaries, and the decision engine
  refuses the earlier one.
* One confirmed candidate is actionable again at every later boundary, and its stop may have been
  traded through meanwhile: only the current quote is looked at.  Two decisions against one account
  snapshot may exceed the total limit together.

Migration:
* A file that is missing behind recorded ones (a release that adds to an earlier stream) is
  applied and recorded before it is refused; a second run passes.
* A death between a file's commit and its row blocks every later run until someone intervenes.
* The catalog check does not know every migration's tables, hence the first conjunct of
  `VerifiedIsWhole`.

## 7. Plan

Done: everything in section 2.  Next, in this order:

1. Proof of `UpMirrorsDown`, by induction along the candles of the chart and of its mirror.
2. An abstract at-most-once effect (asked, in flight, decided) that `RecoverableRuntime` refines.
3. The backtest loop over `MarketPipeline`'s engines.

## 8. Not modelled, and why

* Exact decimals: arbitrary precision on BigInt, so no overflow; small instances would show
  nothing.
* The historical restorations of setups, intents, plans and submissions (`recovery.ts` of their
  packages): they compute the result again and compare it field by field, and a model
  would compare a definition with itself.  The restorations with a state of their own, of candles
  and attempts, are modelled.
* The backtest engine: a sequential replay over sorted history that calls the engines modelled here.
* Audit sinks, fingerprints, registries, row mapping, canonical JSON: formatting and lookups.
* The checkpoint's contents: the services compare checkpoints as wholes, and the model
  identifies a checkpoint with its revision.
* The public `appendOutcome` of the evidence store: only tests call it.
* Unchecked saves by a caller who was never granted the handle it presents.
* Fill outcomes in the recovery tables: they have no pending effect.
* Instrument metadata, numeric validation, quality flags other than the gap.
* Research scripts and placeholder applications.
