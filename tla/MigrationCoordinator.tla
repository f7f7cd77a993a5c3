------------------------- MODULE MigrationCoordinator -------------------------
(* runMigrations and verifyTerminalSchemaCapability of tools/migration-        *)
(* coordinator: processes of one or more builds bring a PostgreSQL schema up to *)
(* their manifest, one query at a time, under a session-level advisory lock.   *)
(*                                                                             *)
(* A migration file commits on its own; its ledger row is another transaction. *)
(* The files are not idempotent: one that is applied fails when it is applied  *)
(* again.  A migration stands for its stream, name, position and digest.       *)
EXTENDS Naturals, Sequences, FiniteSets, SequencesExt

CONSTANTS
  Processes,
  Builds,     \* the manifests there are, in the order of the streams
  Needs,      \* for every migration, those that its SQL builds upon
  Catalogued, \* the migrations whose objects the catalog check looks for
  Databases,  \* bound: what may be found; records [ledger, schema, foreign]
  NoLedger,   \* the ledger table does not exist
  Nobody

ASSUME ManifestAssumption ==
  /\ Nobody \notin Processes
  /\ \A b \in Builds : b \in Seq(DOMAIN Needs) /\ IsInjective(b)

\* A newer build appends to the whole manifest, not to a stream before the last:
\* such a migration is applied behind recorded ones, and only then refused.
ASSUME AppendOnly == \A a, b \in Builds : \A i \in DOMAIN a \cap DOMAIN b : a[i] = b[i]

ASSUME DatabaseAssumption ==
  /\ \A rows \in SUBSET DOMAIN Needs : rows # NoLedger
  /\ \A d \in Databases : /\ d.ledger = NoLedger \/ d.ledger \subseteq DOMAIN Needs
                          /\ d.schema \subseteq DOMAIN Needs

VARIABLES
  ledger,   \* NoLedger, or the migrations recorded
  schema,   \* the migrations whose objects are there
  foreign,  \* objects that no migration made
  lock,     \* the session that holds the advisory lock
  proc,     \* each process: [at, build, next, seen, gap, reasons]
  found     \* the database before the first run

vars == <<ledger, schema, foreign, lock, proc, found>>

Rest == [at |-> "idle", build |-> <<>>, next |-> 1, seen |-> {}, gap |-> FALSE, reasons |-> {}]

Init ==
  /\ found \in Databases
  /\ ledger = found.ledger /\ schema = found.schema /\ foreign = found.foreign
  /\ lock = Nobody /\ proc = [p \in Processes |-> Rest]

At(p, step) == proc[p].at = step
Go(p, step) == proc' = [proc EXCEPT ![p].at = step]
database == <<ledger, schema, foreign, found>>
-----------------------------------------------------------------------------
\* loadMigrations, connect, and the identity of database and schema.
Start(p, b) ==
  /\ At(p, "idle")
  /\ \E step \in {"lock", "verify ledger"} : proc' = [proc EXCEPT ![p] = [Rest EXCEPT !.at = step, !.build = b]]
  /\ UNCHANGED <<database, lock>>

\* Mutant: the lock is not waited for.
LockAnyway(p) ==
  /\ At(p, "lock") /\ lock' = p /\ Go(p, "look") /\ UNCHANGED database
Lock(p) ==
  /\ At(p, "lock") /\ lock = Nobody
  /\ lock' = p /\ Go(p, "look") /\ UNCHANGED database

\* An empty schema gets a ledger; one with objects and no ledger is refused
\* with BASELINE_VERIFICATION_REQUIRED.
Look(p) ==
  /\ At(p, "look")
  /\ Go(p, IF ledger # NoLedger THEN "read"
           ELSE IF schema # {} \/ foreign THEN "unlock" ELSE "create")
  /\ UNCHANGED <<database, lock>>

Create(p) ==
  /\ At(p, "create") /\ ledger = NoLedger
  /\ ledger' = {} /\ Go(p, "read")
  /\ UNCHANGED <<schema, foreign, found, lock>>

\* A row of another build's migration or digest is a MIGRATION_HISTORY_CONFLICT.
Read(p) ==
  /\ At(p, "read")
  /\ proc' = [proc EXCEPT ![p].seen = ledger,
                          ![p].at = IF ledger \subseteq Range(proc[p].build) THEN "apply" ELSE "unlock"]
  /\ UNCHANGED <<database, lock>>

Current(p) == proc[p].build[proc[p].next]
Left(p) == At(p, "apply") /\ proc[p].next =< Len(proc[p].build)

\* A recorded migration is skipped; behind one that was missing it is a conflict.
Skip(p) ==
  /\ Left(p) /\ Current(p) \in proc[p].seen
  /\ IF proc[p].gap THEN Go(p, "unlock") ELSE proc' = [proc EXCEPT ![p].next = @ + 1]
  /\ UNCHANGED <<database, lock>>

\* The file is one transaction of its own, rolled back if it fails.
Apply(p) ==
  /\ Left(p) /\ Current(p) \notin proc[p].seen
  /\ \/ /\ Current(p) \notin schema /\ Needs[Current(p)] \subseteq schema
        /\ schema' = schema \union {Current(p)}
        /\ proc' = [proc EXCEPT ![p].gap = TRUE, ![p].at = "record"]
     \/ Go(p, "unlock") /\ UNCHANGED schema
  /\ UNCHANGED <<ledger, foreign, found, lock>>

\* The row must not be there yet; it is read back.
Record(p) ==
  /\ At(p, "record") /\ Current(p) \notin ledger
  /\ ledger' = ledger \union {Current(p)}
  /\ proc' = [proc EXCEPT ![p].next = @ + 1, ![p].at = "apply"]
  /\ UNCHANGED <<schema, foreign, found, lock>>

Finish(p) ==
  /\ At(p, "apply") /\ ~Left(p)
  /\ Go(p, "verify ledger") /\ UNCHANGED <<database, lock>>

\* inspectTerminalSchemaCapability: the ledger, then the catalog.
VerifyLedger(p) ==
  /\ At(p, "verify ledger")
  /\ proc' = [proc EXCEPT ![p].at = "verify catalog",
                ![p].reasons = IF ledger = Range(proc[p].build) THEN {} ELSE {"HISTORY"}]
  /\ UNCHANGED <<database, lock>>

\* Mutant: the ledger speaks for the schema.
VerifyNothing(p) ==
  /\ At(p, "verify catalog")
  /\ Go(p, IF proc[p].reasons = {} THEN "verified" ELSE "unlock")
  /\ UNCHANGED <<database, lock>>
VerifyCatalog(p) ==
  /\ At(p, "verify catalog")
  /\ Go(p, IF proc[p].reasons = {} /\ Range(proc[p].build) \cap Catalogued \subseteq schema
           THEN "verified" ELSE "unlock")
  /\ UNCHANGED <<database, lock>>

\* The end of a run, however it went; or the session is lost, and its lock with it.
Unlock(p) ==
  /\ proc[p].at \in {"unlock", "verified"}
  /\ proc' = [proc EXCEPT ![p] = Rest] /\ lock' = (IF lock = p THEN Nobody ELSE lock) /\ UNCHANGED database
Crash(p) ==
  /\ ~At(p, "idle")
  /\ proc' = [proc EXCEPT ![p] = Rest] /\ lock' = (IF lock = p THEN Nobody ELSE lock) /\ UNCHANGED database

Next ==
  \E p \in Processes :
    \/ \E b \in Builds : Start(p, b)
    \/ Lock(p) \/ Look(p) \/ Create(p) \/ Read(p) \/ Skip(p) \/ Apply(p) \/ Record(p) \/ Finish(p)
    \/ VerifyLedger(p) \/ VerifyCatalog(p) \/ Unlock(p) \/ Crash(p)

Spec == Init /\ [][Next]_vars
-----------------------------------------------------------------------------
(* Properties.                                                                 *)

\* The first n migrations of a build.
FirstOf(b, n) == {b[i] : i \in 1..n}
Recorded(rows) == IF rows = NoLedger THEN {} ELSE rows
\* A database that coordinators alone have worked on.
Sound(db) == \E b \in Builds : \E n \in 0..Len(b) : db.schema = FirstOf(b, n) /\ Recorded(db.ledger) = db.schema

\* Wherever coordinators of these builds race and die, the schema is a prefix of
\* the manifest and the ledger is that prefix, or lacks its last migration; and
\* nobody but the holder of the lock writes what it works from.
SchemaFollowsManifest ==
  Sound(found) =>
    /\ \E b \in Builds : \E n \in 0..Len(b) :
         /\ Recorded(ledger) = FirstOf(b, n)
         /\ schema \in {FirstOf(b, n), FirstOf(b, IF n < Len(b) THEN n + 1 ELSE n)}
    /\ \A p \in Processes : proc[p].at \in {"apply", "record"} =>
         /\ lock = p /\ ledger = proc[p].seen \union FirstOf(proc[p].build, proc[p].next - 1)

\* A capability is verified only for a schema that has all that the build's
\* manifest makes and the catalog check knows, whatever the ledger says and
\* whoever migrates meanwhile; and all of it, if only coordinators were at work.
VerifiedIsWhole ==
  \A p \in Processes : At(p, "verified") =>
    /\ Range(proc[p].build) \cap Catalogued \subseteq schema
    /\ Sound(found) => Range(proc[p].build) \subseteq schema
    /\ Range(proc[p].build) \subseteq Recorded(ledger)
=============================================================================
