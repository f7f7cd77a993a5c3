---------------------------- MODULE MigrationProofs ----------------------------
(* For any number of processes, any builds that append to one another and any   *)
(* SQL: what races and crashes of coordinators leave behind is a prefix of the  *)
(* manifest, and a verified capability is whole.                                *)
EXTENDS MigrationCoordinator, TLAPS

Migrations == DOMAIN Needs
Locked == {"look", "create", "read", "apply", "record"}
Working == {"apply", "record"}
Steps == Locked \union {"idle", "lock", "unlock", "verify ledger", "verify catalog", "verified"}

States == [at : Steps, build : Builds \union {<<>>}, next : Nat \ {0},
           seen : SUBSET Migrations, gap : BOOLEAN, reasons : SUBSET {"HISTORY"}]

TypesHold ==
  /\ proc \in [Processes -> States]
  /\ ledger = NoLedger \/ ledger \subseteq Migrations
  /\ schema \subseteq Migrations
  /\ found \in Databases

\* What a process may rely on at each of its steps, on any database.
Knows(p) ==
  /\ ~At(p, "idle") => proc[p].build \in Builds
  /\ proc[p].at \in Locked => lock = p
  /\ proc[p].at \in Working \union {"read"} => ledger # NoLedger
  /\ proc[p].at \in {"lock", "look", "create", "read"} => proc[p].next = 1
  /\ At(p, "record") => proc[p].next =< Len(proc[p].build)
  /\ At(p, "verify catalog") /\ proc[p].reasons = {} =>
       Range(proc[p].build) \subseteq Recorded(ledger)
  /\ At(p, "verified") => /\ Range(proc[p].build) \subseteq Recorded(ledger)
                          /\ Range(proc[p].build) \cap Catalogued \subseteq schema

\* And on one that coordinators alone have worked on: what is recorded is what
\* was found and what the process recorded; between a file and its row the
\* schema is one migration ahead.
Works(p) ==
  /\ proc[p].at \in Working => ledger = proc[p].seen \union FirstOf(proc[p].build, proc[p].next - 1)
  /\ At(p, "record") => /\ ledger = FirstOf(proc[p].build, proc[p].next - 1)
                        /\ schema = FirstOf(proc[p].build, proc[p].next)

\* The first n of b are recorded; the schema has no more, or one more.
PrefixOf(b, n) ==
  /\ Recorded(ledger) = FirstOf(b, n)
  /\ \/ schema = FirstOf(b, n)
     \/ n < Len(b) /\ schema = FirstOf(b, n + 1)
Prefixed == \E b \in Builds : \E n \in 0..Len(b) : PrefixOf(b, n)

\* The inductive invariant.
MigrationInv ==
  /\ TypesHold
  /\ \A p \in Processes : Knows(p)
  /\ Sound(found) => Prefixed /\ \A p \in Processes : Works(p)
-----------------------------------------------------------------------------
(* Manifests.                                                                  *)

\* One migration more, and none.
LEMMA FirstOfMore ==
    ASSUME NEW b, NEW n \in Nat
    PROVE  FirstOf(b, n + 1) = FirstOf(b, n) \union {b[n + 1]} /\ FirstOf(b, 0) = {}
  <1>1. 1..(n + 1) = (1..n) \union {n + 1}  OBVIOUS
  <1>2. 1..0 = {}  OBVIOUS
  <1> QED  BY <1>1, <1>2 DEF FirstOf

\* Two builds agree on the migrations that both have.
LEMMA BuildsAgree ==
    ASSUME NEW b \in Builds, NEW c \in Builds, NEW n \in 0..Len(b), n =< Len(c)
    PROVE  FirstOf(b, n) = FirstOf(c, n) /\ FirstOf(b, n) \subseteq Migrations
  <1>1. b \in Seq(Migrations) /\ c \in Seq(Migrations)
        BY ManifestAssumption DEF ManifestAssumption, Migrations
  <1>2. \A i \in 1..n : i \in DOMAIN b /\ i \in DOMAIN c /\ b[i] \in Migrations
        BY <1>1
  <1>3. \A i \in 1..n : b[i] = c[i]
        BY <1>2, AppendOnly DEF AppendOnly
  <1> QED  BY <1>2, <1>3 DEF FirstOf

\* A prefix of a build that holds the first m of a build, and not the next one,
\* is the first m.
LEMMA ExactPrefix ==
    ASSUME NEW b \in Builds, NEW n \in 0..Len(b),
           NEW c \in Builds, NEW m \in Nat, m < Len(c),
           FirstOf(c, m) \subseteq FirstOf(b, n), c[m + 1] \notin FirstOf(b, n)
    PROVE  n = m
  <1>1. b \in Seq(Migrations) /\ c \in Seq(Migrations) /\ IsInjective(c)
        BY ManifestAssumption DEF ManifestAssumption, Migrations
  <1>2. Len(b) \in Nat /\ Len(c) \in Nat /\ DOMAIN b = 1..Len(b) /\ DOMAIN c = 1..Len(c)
        BY <1>1
  <1>3. ~(m < n)
    <2> SUFFICES ASSUME m < n  PROVE FALSE  OBVIOUS
    <2>1. m + 1 \in DOMAIN b /\ m + 1 \in DOMAIN c /\ m + 1 \in 1..n  BY <1>2
    <2>2. b[m + 1] = c[m + 1]  BY <2>1, AppendOnly DEF AppendOnly
    <2> QED  BY <2>1, <2>2 DEF FirstOf
  <1>4. ~(n < m)
    <2> SUFFICES ASSUME n < m  PROVE FALSE  OBVIOUS
    <2>1. FirstOf(b, n) = FirstOf(c, n)  BY <1>2, BuildsAgree
    <2>2. c[n + 1] \in FirstOf(c, m)
      <3>1. n + 1 \in 1..m  BY <1>2
      <3> QED  BY <3>1 DEF FirstOf
    <2>3. PICK i \in 1..n : c[n + 1] = c[i]  BY <2>1, <2>2 DEF FirstOf
    <2>4. i \in DOMAIN c /\ n + 1 \in DOMAIN c /\ i # n + 1  BY <1>2
    <2> QED  BY <1>1, <2>3, <2>4 DEF IsInjective
  <1> QED  BY <1>2, <1>3, <1>4
-----------------------------------------------------------------------------
(* Types and what each process knows.                                          *)

\* What is recorded and made stays.
Grows == schema \subseteq schema' /\ Recorded(ledger) \subseteq Recorded(ledger)'
         /\ (ledger # NoLedger => ledger' # NoLedger) /\ found' = found

LEMMA ProcessTypes ==
    ASSUME TypesHold, NEW p \in Processes
    PROVE  /\ proc[p].at \in Steps /\ proc[p].build \in Builds \union {<<>>}
           /\ proc[p].next \in Nat /\ proc[p].next > 0
           /\ proc[p].seen \subseteq Migrations
  BY DEF TypesHold, States

\* The current migration is one of the build's.
LEMMA CurrentIsKnown ==
    ASSUME TypesHold, NEW p \in Processes, proc[p].build \in Builds,
           proc[p].next =< Len(proc[p].build)
    PROVE  Current(p) \in Migrations
  <1>1. proc[p].build \in Seq(Migrations)
        BY ManifestAssumption DEF ManifestAssumption, Migrations
  <1>2. proc[p].next \in 1..Len(proc[p].build)
        BY <1>1, ProcessTypes
  <1> QED  BY <1>1, <1>2 DEF Current

\* A process that stands still knows what it knew, when no one takes its lock.
LEMMA OthersKnow ==
    ASSUME NEW q \in Processes, Knows(q), Grows, proc'[q] = proc[q],
           lock = q => lock' = q
    PROVE  Knows(q)'
  BY DEF Knows, Grows, At

\* What every step of a process does: to the types and to what is there, to
\* what it knows itself, and to the others.
Fine(p) ==
  /\ TypesHold' /\ Grows /\ Knows(p)'
  /\ \A q \in Processes \ {p} : proc'[q] = proc[q] /\ (lock = q => lock' = q)

\* A step that takes p from one state to another.
LEMMA ProcessMoves ==
    ASSUME TypesHold, NEW p \in Processes, NEW state \in States,
           proc' = [proc EXCEPT ![p] = state]
    PROVE  /\ proc' \in [Processes -> States] /\ proc'[p] = state
           /\ \A q \in Processes \ {p} : proc'[q] = proc[q]
  BY DEF TypesHold

LEMMA RestIsState == Rest \in States
  <1>1. {} \subseteq Migrations /\ {} \subseteq {"HISTORY"} /\ 1 \in Nat \ {0}
        OBVIOUS
  <1>2. "idle" \in Steps /\ <<>> \in Builds \union {<<>>} /\ FALSE \in BOOLEAN
        BY DEF Steps
  <1> QED  BY <1>1, <1>2 DEF Rest, States

LEMMA StepIsFine ==
    ASSUME TypesHold, NEW p \in Processes, \A q \in Processes : Knows(q),
           (\E b \in Builds : Start(p, b)) \/ Lock(p) \/ Look(p) \/ Create(p) \/ Read(p)
           \/ Skip(p) \/ Apply(p) \/ Record(p) \/ Finish(p) \/ VerifyLedger(p)
           \/ VerifyCatalog(p) \/ Unlock(p) \/ Crash(p)
    PROVE  Fine(p)
  <1> USE DEF At, Go, database, Left
  <1>p. /\ proc[p] \in States /\ Knows(p) /\ Nobody \notin Processes
        /\ ledger = NoLedger \/ ledger \subseteq Migrations
        /\ schema \subseteq Migrations /\ found \in Databases
        BY ManifestAssumption DEF ManifestAssumption, TypesHold
  <1>1. ASSUME NEW b \in Builds, Start(p, b)  PROVE Fine(p)
    <2>1. PICK step \in {"lock", "verify ledger"} :
            proc' = [proc EXCEPT ![p] = [Rest EXCEPT !.at = step, !.build = b]]
          BY <1>1 DEF Start
    <2> DEFINE state == [Rest EXCEPT !.at = step, !.build = b]
    <2>s. state \in States
          BY <1>1, <1>p, <2>1, RestIsState DEF Start, States, Steps, Locked
    <2>q. proc' = [proc EXCEPT ![p] = state]
          BY <1>1, <2>1 DEF Start
    <2> HIDE DEF state
    <2>m. /\ proc' \in [Processes -> States] /\ proc'[p] = state
         /\ \A q \in Processes \ {p} : proc'[q] = proc[q]
          BY <2>s, <2>q, ProcessMoves
    <2> QED  BY <1>1, <1>p, <2>s, <2>m, <2>1
             DEF Start, Fine, TypesHold, Grows, Knows, Recorded, Locked, Working, States, Rest, state
  <1>2. CASE Lock(p)
    <2> DEFINE state == [proc[p] EXCEPT !.at = "look"]
    <2>s. state \in States
          BY <1>2, <1>p DEF Lock, States, Steps, Locked
    <2>q. proc' = [proc EXCEPT ![p] = state]
          BY <1>2 DEF Lock
    <2> HIDE DEF state
    <2>m. /\ proc' \in [Processes -> States] /\ proc'[p] = state
         /\ \A q \in Processes \ {p} : proc'[q] = proc[q]
          BY <2>s, <2>q, ProcessMoves
    <2> QED  BY <1>2, <1>p, <2>s, <2>m
             DEF Lock, Fine, TypesHold, Grows, Knows, Recorded, Locked, Working, States, state
  <1>3. CASE Look(p)
    <2> DEFINE state == [proc[p] EXCEPT !.at = IF ledger # NoLedger THEN "read"
                                             ELSE IF schema # {} \/ foreign THEN "unlock" ELSE "create"]
    <2>s. state \in States
          BY <1>3, <1>p DEF Look, States, Steps, Locked
    <2>q. proc' = [proc EXCEPT ![p] = state]
          BY <1>3 DEF Look
    <2> HIDE DEF state
    <2>m. /\ proc' \in [Processes -> States] /\ proc'[p] = state
         /\ \A q \in Processes \ {p} : proc'[q] = proc[q]
          BY <2>s, <2>q, ProcessMoves
    <2> QED  BY <1>3, <1>p, <2>s, <2>m
             DEF Look, Fine, TypesHold, Grows, Knows, Recorded, Locked, Working, States, state
  <1>4. CASE Create(p)
    <2>e. {} # NoLedger
          BY DatabaseAssumption DEF DatabaseAssumption
    <2> DEFINE state == [proc[p] EXCEPT !.at = "read"]
    <2>s. state \in States
          BY <1>4, <1>p, <2>e DEF Create, States, Steps, Locked
    <2>q. proc' = [proc EXCEPT ![p] = state]
          BY <1>4, <2>e DEF Create
    <2> HIDE DEF state
    <2>m. /\ proc' \in [Processes -> States] /\ proc'[p] = state
         /\ \A q \in Processes \ {p} : proc'[q] = proc[q]
          BY <2>s, <2>q, ProcessMoves
    <2> QED  BY <1>4, <1>p, <2>s, <2>m, <2>e
             DEF Create, Fine, TypesHold, Grows, Knows, Recorded, Locked, Working, States, state
  <1>5. CASE Read(p)
    <2>l. ledger # NoLedger /\ ledger \subseteq Migrations
          BY <1>5, <1>p DEF Read, Knows, Working
    <2> DEFINE state == [proc[p] EXCEPT !.seen = ledger,
                       !.at = IF ledger \subseteq Range(proc[p].build) THEN "apply" ELSE "unlock"]
    <2>s. state \in States
          BY <1>5, <1>p, <2>l DEF Read, States, Steps, Locked
    <2>q. proc' = [proc EXCEPT ![p] = state]
          BY <1>5, <2>l DEF Read
    <2> HIDE DEF state
    <2>m. /\ proc' \in [Processes -> States] /\ proc'[p] = state
         /\ \A q \in Processes \ {p} : proc'[q] = proc[q]
          BY <2>s, <2>q, ProcessMoves
    <2> QED  BY <1>5, <1>p, <2>s, <2>m, <2>l
             DEF Read, Fine, TypesHold, Grows, Knows, Recorded, Locked, Working, States, state
  <1>6. CASE Skip(p)
    <2>1. CASE proc[p].gap
      <3> DEFINE state == [proc[p] EXCEPT !.at = "unlock"]
      <3>s. state \in States
            BY <1>6, <2>1, <1>p DEF Skip, States, Steps, Locked
      <3>q. proc' = [proc EXCEPT ![p] = state]
            BY <1>6, <2>1 DEF Skip
      <3> HIDE DEF state
      <3>m. /\ proc' \in [Processes -> States] /\ proc'[p] = state
           /\ \A q \in Processes \ {p} : proc'[q] = proc[q]
            BY <3>s, <3>q, ProcessMoves
      <3> QED  BY <1>6, <2>1, <1>p, <3>s, <3>m
               DEF Skip, Fine, TypesHold, Grows, Knows, Recorded, Locked, Working, States, state
    <2>2. CASE ~proc[p].gap
      <3>n. proc[p].next + 1 \in Nat \ {0}
            BY <1>p DEF States
      <3> DEFINE state == [proc[p] EXCEPT !.next = @ + 1]
      <3>s. state \in States
            BY <1>6, <2>2, <1>p, <3>n DEF Skip, States, Steps, Locked
      <3>q. proc' = [proc EXCEPT ![p] = state]
            BY <1>6, <2>2, <3>n DEF Skip
      <3> HIDE DEF state
      <3>m. /\ proc' \in [Processes -> States] /\ proc'[p] = state
           /\ \A q \in Processes \ {p} : proc'[q] = proc[q]
            BY <3>s, <3>q, ProcessMoves
      <3> QED  BY <1>6, <2>2, <1>p, <3>s, <3>m, <3>n
               DEF Skip, Fine, TypesHold, Grows, Knows, Recorded, Locked, Working, States, state
    <2> QED  BY <2>1, <2>2
  <1>7. CASE Apply(p)
    <2>c. Current(p) \in Migrations
          BY <1>7, <1>p, CurrentIsKnown DEF Apply, Knows
    <2>1. CASE /\ schema' = schema \union {Current(p)}
               /\ proc' = [proc EXCEPT ![p].gap = TRUE, ![p].at = "record"]
      <3> DEFINE state == [proc[p] EXCEPT !.gap = TRUE, !.at = "record"]
      <3>s. state \in States
            BY <1>7, <2>1, <1>p, <2>c DEF Apply, States, Steps, Locked
      <3>q. proc' = [proc EXCEPT ![p] = state]
            BY <1>7, <2>1, <2>c DEF Apply
      <3> HIDE DEF state
      <3>m. /\ proc' \in [Processes -> States] /\ proc'[p] = state
           /\ \A q \in Processes \ {p} : proc'[q] = proc[q]
            BY <3>s, <3>q, ProcessMoves
      <3> QED  BY <1>7, <2>1, <1>p, <3>s, <3>m, <2>c
               DEF Apply, Fine, TypesHold, Grows, Knows, Recorded, Locked, Working, States, state
    <2>2. CASE Go(p, "unlock") /\ UNCHANGED schema
      <3> DEFINE state == [proc[p] EXCEPT !.at = "unlock"]
      <3>s. state \in States
            BY <1>7, <2>2, <1>p DEF Apply, States, Steps, Locked
      <3>q. proc' = [proc EXCEPT ![p] = state]
            BY <1>7, <2>2 DEF Apply
      <3> HIDE DEF state
      <3>m. /\ proc' \in [Processes -> States] /\ proc'[p] = state
           /\ \A q \in Processes \ {p} : proc'[q] = proc[q]
            BY <3>s, <3>q, ProcessMoves
      <3> QED  BY <1>7, <2>2, <1>p, <3>s, <3>m
               DEF Apply, Fine, TypesHold, Grows, Knows, Recorded, Locked, Working, States, state
    <2> QED  BY <1>7, <2>1, <2>2 DEF Apply
  <1>8. CASE Record(p)
    <2>c. Current(p) \in Migrations /\ ledger # NoLedger
          BY <1>8, <1>p, CurrentIsKnown DEF Record, Knows, Working
    <2>d. ledger' \subseteq Migrations /\ ledger' # NoLedger
          BY <1>8, <1>p, <2>c, DatabaseAssumption DEF Record, DatabaseAssumption, Migrations
    <2>n. proc[p].next + 1 \in Nat \ {0}
          BY <1>p DEF States
    <2> DEFINE state == [proc[p] EXCEPT !.next = @ + 1, !.at = "apply"]
    <2>s. state \in States
          BY <1>8, <1>p, <2>c, <2>d, <2>n DEF Record, States, Steps, Locked
    <2>q. proc' = [proc EXCEPT ![p] = state]
          BY <1>8, <2>c, <2>d, <2>n DEF Record
    <2> HIDE DEF state
    <2>m. /\ proc' \in [Processes -> States] /\ proc'[p] = state
         /\ \A q \in Processes \ {p} : proc'[q] = proc[q]
          BY <2>s, <2>q, ProcessMoves
    <2> QED  BY <1>8, <1>p, <2>s, <2>m, <2>c, <2>d, <2>n
             DEF Record, Fine, TypesHold, Grows, Knows, Recorded, Locked, Working, States, state
  <1>9. CASE Finish(p)
    <2> DEFINE state == [proc[p] EXCEPT !.at = "verify ledger"]
    <2>s. state \in States
          BY <1>9, <1>p DEF Finish, States, Steps, Locked
    <2>q. proc' = [proc EXCEPT ![p] = state]
          BY <1>9 DEF Finish
    <2> HIDE DEF state
    <2>m. /\ proc' \in [Processes -> States] /\ proc'[p] = state
         /\ \A q \in Processes \ {p} : proc'[q] = proc[q]
          BY <2>s, <2>q, ProcessMoves
    <2> QED  BY <1>9, <1>p, <2>s, <2>m
             DEF Finish, Fine, TypesHold, Grows, Knows, Recorded, Locked, Working, States, state
  <1>10. CASE VerifyLedger(p)
    <2>1. proc[p].build \in Builds
          BY <1>10, <1>p DEF VerifyLedger, Knows
    <2>2. Range(proc[p].build) \subseteq Migrations
          BY <2>1, ManifestAssumption DEF ManifestAssumption, Range, Migrations
    <2>3. ledger = Range(proc[p].build) => Recorded(ledger) = ledger
          BY <2>2, DatabaseAssumption DEF DatabaseAssumption, Recorded, Migrations
    <2> DEFINE state == [proc[p] EXCEPT !.at = "verify catalog",
                       !.reasons = IF ledger = Range(proc[p].build) THEN {} ELSE {"HISTORY"}]
    <2>s. state \in States
          BY <1>10, <1>p, <2>3 DEF VerifyLedger, States, Steps, Locked
    <2>q. proc' = [proc EXCEPT ![p] = state]
          BY <1>10, <2>3 DEF VerifyLedger
    <2>f. /\ state.at = "verify catalog" /\ state.build = proc[p].build
          /\ state.reasons = {} => ledger = Range(proc[p].build)
      <3>1. CASE ledger = Range(proc[p].build)
            BY <1>p, <3>1 DEF States
      <3>2. CASE ledger # Range(proc[p].build)
            BY <1>p, <3>2 DEF States
      <3> QED  BY <3>1, <3>2
    <2> HIDE DEF state
    <2>m. /\ proc' \in [Processes -> States] /\ proc'[p] = state
         /\ \A q \in Processes \ {p} : proc'[q] = proc[q]
          BY <2>s, <2>q, ProcessMoves
    <2> QED  BY <1>10, <1>p, <2>s, <2>m, <2>f, <2>3
             DEF VerifyLedger, Fine, TypesHold, Grows, Knows, Recorded, Locked, Working, States
  <1>11. CASE VerifyCatalog(p)
    <2>1. PICK step \in {"verified", "unlock"} :
            /\ proc' = [proc EXCEPT ![p].at = step]
            /\ step = "verified" => proc[p].reasons = {} /\ Range(proc[p].build) \cap Catalogued \subseteq schema
      <3>1. CASE proc[p].reasons = {} /\ Range(proc[p].build) \cap Catalogued \subseteq schema
            BY <1>11, <3>1 DEF VerifyCatalog
      <3>2. CASE ~(proc[p].reasons = {} /\ Range(proc[p].build) \cap Catalogued \subseteq schema)
            BY <1>11, <3>2 DEF VerifyCatalog
      <3> QED  BY <3>1, <3>2
    <2> DEFINE state == [proc[p] EXCEPT !.at = step]
    <2>s. state \in States
          BY <1>11, <1>p, <2>1 DEF VerifyCatalog, States, Steps, Locked
    <2>q. proc' = [proc EXCEPT ![p] = state]
          BY <1>11, <2>1 DEF VerifyCatalog
    <2> HIDE DEF state
    <2>m. /\ proc' \in [Processes -> States] /\ proc'[p] = state
         /\ \A q \in Processes \ {p} : proc'[q] = proc[q]
          BY <2>s, <2>q, ProcessMoves
    <2> QED  BY <1>11, <1>p, <2>s, <2>m, <2>1
             DEF VerifyCatalog, Fine, TypesHold, Grows, Knows, Recorded, Locked, Working, States, state
  <1>12. CASE Unlock(p)
    <2>m. proc' \in [Processes -> States] /\ proc'[p] = Rest /\ \A q \in Processes \ {p} : proc'[q] = proc[q]
          BY <1>12, RestIsState, ProcessMoves DEF Unlock
    <2> QED  BY <1>12, <1>p, <2>m
             DEF Unlock, Fine, TypesHold, Grows, Knows, Rest, Locked, Working
  <1>13. CASE Crash(p)
    <2>m. proc' \in [Processes -> States] /\ proc'[p] = Rest /\ \A q \in Processes \ {p} : proc'[q] = proc[q]
          BY <1>13, RestIsState, ProcessMoves DEF Crash
    <2> QED  BY <1>13, <1>p, <2>m
             DEF Crash, Fine, TypesHold, Grows, Knows, Rest, Locked, Working
  <1> QED  BY <1>1, <1>2, <1>3, <1>4, <1>5, <1>6, <1>7, <1>8, <1>9, <1>10, <1>11, <1>12, <1>13
-----------------------------------------------------------------------------
(* Prefixes.                                                                   *)

\* A step that leaves rows and objects alone, and its process without the work.
Quiet(p) == UNCHANGED <<ledger, schema>> /\ proc'[p].at \notin Working

LEMMA QuietSteps ==
    ASSUME TypesHold, NEW p \in Processes,
           (\E b \in Builds : Start(p, b)) \/ Lock(p) \/ Look(p) \/ Finish(p) \/ VerifyLedger(p)
           \/ VerifyCatalog(p) \/ Unlock(p) \/ Crash(p)
    PROVE  Quiet(p)
  <1> USE DEF At, Go, database, Quiet, Working
  <1>p. proc[p] \in States /\ p \in DOMAIN proc /\ proc \in [Processes -> States]
        BY DEF TypesHold
  <1>1. ASSUME NEW b \in Builds, Start(p, b)  PROVE Quiet(p)
    <2>1. PICK step \in {"lock", "verify ledger"} :
            proc' = [proc EXCEPT ![p] = [Rest EXCEPT !.at = step, !.build = b]]
          BY <1>1 DEF Start
    <2>2. proc'[p].at = step
          BY <1>p, <2>1 DEF Rest
    <2> QED  BY <1>1, <2>2 DEF Start
  <1>m. \A step : proc' = [proc EXCEPT ![p].at = step] => proc'[p].at = step
        BY <1>p DEF States
  <1>2. CASE Lock(p)
        BY <1>2, <1>m DEF Lock
  <1>3. CASE Look(p)
        BY <1>3, <1>m DEF Look
  <1>4. CASE Finish(p)
        BY <1>4, <1>m DEF Finish
  <1>5. CASE VerifyLedger(p)
    <2>1. proc'[p].at = "verify catalog"
          BY <1>5, <1>p DEF VerifyLedger, States
    <2> QED  BY <1>5, <2>1 DEF VerifyLedger
  <1>6. CASE VerifyCatalog(p)
        BY <1>6, <1>m DEF VerifyCatalog
  <1>7. CASE Unlock(p) \/ Crash(p)
        BY <1>p, <1>7 DEF Unlock, Crash, Rest
  <1> QED  BY <1>1, <1>2, <1>3, <1>4, <1>5, <1>6, <1>7

\* The prefix that is there stays, with what processes know of it.
LEMMA UnchangedStaysPrefixed ==
    ASSUME Prefixed, UNCHANGED <<ledger, schema>>
    PROVE  Prefixed'
  BY DEF Prefixed, PrefixOf, Recorded

\* Before a file is applied its process has recorded all before it, and no one
\* anything else: the schema is what is recorded.
LEMMA ReadyToApply ==
    ASSUME MigrationInv, Sound(found), NEW p \in Processes,
           At(p, "apply"), proc[p].next =< Len(proc[p].build), Current(p) \notin schema
    PROVE  /\ ledger = FirstOf(proc[p].build, proc[p].next - 1) /\ schema = ledger
           /\ FirstOf(proc[p].build, proc[p].next) = ledger \union {Current(p)}
           /\ proc[p].next \in 0..Len(proc[p].build) /\ proc[p].build \in Builds
  <1> DEFINE c == proc[p].build
             m == proc[p].next - 1
  <1>1. /\ c \in Builds /\ m \in Nat /\ proc[p].next = m + 1 /\ m < Len(c)
        /\ ledger # NoLedger /\ ledger = proc[p].seen \union FirstOf(c, m)
        /\ Len(c) \in Nat
    <2>1. TypesHold /\ Knows(p) /\ Works(p)
          BY DEF MigrationInv
    <2>2. c \in Builds /\ ledger # NoLedger /\ ledger = proc[p].seen \union FirstOf(c, m)
          BY <2>1 DEF Knows, Works, At, Working
    <2>3. proc[p].next \in Nat /\ proc[p].next > 0
          BY <2>1, ProcessTypes
    <2>4. Len(c) \in Nat
          BY <2>2, ManifestAssumption DEF ManifestAssumption
    <2> QED  BY <2>2, <2>3, <2>4
  <1>b. PICK b \in Builds : \E n \in 0..Len(b) : PrefixOf(b, n)
        BY DEF MigrationInv, Prefixed
  <1>2. PICK n \in 0..Len(b) : PrefixOf(b, n)
        BY <1>b
  <1>3. ledger = FirstOf(b, n) /\ FirstOf(b, n) \subseteq schema
    <2>1. Len(b) \in Nat
          BY ManifestAssumption DEF ManifestAssumption
    <2>2. n \in Nat
          BY <2>1
    <2>3. FirstOf(b, n) \subseteq FirstOf(b, n + 1)
          BY <2>2, FirstOfMore
    <2> QED  BY <1>1, <1>2, <2>3 DEF PrefixOf, Recorded
  <1>4. c[m + 1] \notin FirstOf(b, n) /\ Current(p) = c[m + 1]
        BY <1>1, <1>3 DEF Current
  <1>5. n = m
        BY <1>1, <1>3, <1>4, ExactPrefix
  <1>6. FirstOf(b, n) = FirstOf(c, m)
        BY <1>1, <1>5, BuildsAgree
  <1>7. FirstOf(c, m + 1) = FirstOf(c, m) \union {Current(p)}
        BY <1>1, <1>4, FirstOfMore
  <1>8. ~(n < Len(b) /\ schema = FirstOf(b, n + 1))
    <2> SUFFICES ASSUME n < Len(b), schema = FirstOf(b, n + 1)  PROVE FALSE
        OBVIOUS
    <2>1. Len(b) \in Nat
          BY ManifestAssumption DEF ManifestAssumption
    <2>2. m + 1 \in 0..Len(b) /\ m + 1 =< Len(c)
          BY <1>1, <1>5, <2>1
    <2>3. FirstOf(b, n + 1) = FirstOf(c, m + 1)
          BY <1>1, <1>5, <2>2, BuildsAgree
    <2> QED  BY <1>7, <2>3
  <1>9. schema = FirstOf(b, n)
        BY <1>2, <1>8 DEF PrefixOf
  <1> QED  BY <1>1, <1>3, <1>6, <1>7, <1>9

LEMMA StepStaysPrefixed ==
    ASSUME MigrationInv, Sound(found), NEW p \in Processes, Fine(p),
           (\E b \in Builds : Start(p, b)) \/ Lock(p) \/ Look(p) \/ Create(p) \/ Read(p)
           \/ Skip(p) \/ Apply(p) \/ Record(p) \/ Finish(p) \/ VerifyLedger(p)
           \/ VerifyCatalog(p) \/ Unlock(p) \/ Crash(p)
    PROVE  Prefixed' /\ \A q \in Processes : Works(q)'
  <1> USE DEF At, Go, database, Left
  <1>k. /\ TypesHold /\ Prefixed /\ proc \in [Processes -> States] /\ proc[p] \in States
        /\ \A q \in Processes : Knows(q) /\ Works(q)
        /\ \A q \in Processes \ {p} : proc'[q] = proc[q] /\ (proc[q].at \in Working => lock = q)
        BY DEF MigrationInv, Fine, TypesHold, Knows, Locked, Working
  \* No one else works while p holds the lock.
  <1>l. ASSUME lock = p, Works(p)'  PROVE \A q \in Processes : Works(q)'
        BY <1>k, <1>l DEF Works, Working
  <1>q. ASSUME Quiet(p)  PROVE Prefixed' /\ \A q \in Processes : Works(q)'
    <2>1. Prefixed'  BY <1>k, <1>q, UnchangedStaysPrefixed DEF Quiet
    <2>2. Works(p)'  BY <1>q DEF Quiet, Works, Working
    <2>3. ASSUME NEW q \in Processes \ {p}  PROVE Works(q)'
          BY <1>k, <1>q, <2>3 DEF Quiet, Works
    <2> QED  BY <2>1, <2>2, <2>3
  <1>m. ASSUME NEW step, proc' = [proc EXCEPT ![p].at = step]
        PROVE  proc'[p].at = step
        BY <1>k, <1>m DEF States
  <1>n. /\ proc[p].next \in Nat /\ proc[p].next > 0 /\ proc[p].next = (proc[p].next - 1) + 1
        /\ proc[p].next - 1 \in Nat
        BY <1>k DEF States
  <1>1. CASE (\E b \in Builds : Start(p, b)) \/ Lock(p) \/ Look(p) \/ Finish(p) \/ VerifyLedger(p)
             \/ VerifyCatalog(p) \/ Unlock(p) \/ Crash(p)
        BY <1>1, <1>k, <1>q, QuietSteps
  <1>2. CASE Create(p)
    <2>1. Recorded(ledger)' = Recorded(ledger) /\ schema' = schema /\ lock = p
          BY <1>2, <1>k DEF Create, Recorded, Knows, Locked
    <2>2. Prefixed'  BY <1>k, <2>1 DEF Prefixed, PrefixOf
    <2>3. proc'[p].at = "read"  BY <1>2, <1>m DEF Create
    <2>4. Works(p)'  BY <2>3 DEF Works, Working
    <2> QED  BY <1>l, <2>1, <2>2, <2>4
  <1>3. CASE Read(p)
    <2>1. lock = p /\ proc[p].next = 1 /\ UNCHANGED <<ledger, schema>>
          BY <1>3, <1>k DEF Read, Knows, Locked
    <2>2. /\ proc'[p].at \in {"apply", "unlock"} /\ proc'[p].seen = ledger
          /\ proc'[p].build = proc[p].build /\ proc'[p].next = 1
          BY <1>3, <1>k, <2>1 DEF Read, States
    <2>3. FirstOf(proc[p].build, 1 - 1) = {}
          BY FirstOfMore
    <2>4. Works(p)'  BY <2>1, <2>2, <2>3 DEF Works, Working
    <2>5. Prefixed'  BY <1>k, <2>1, UnchangedStaysPrefixed
    <2> QED  BY <1>l, <2>1, <2>4, <2>5
  <1>4. CASE Skip(p)
    <2>1. CASE proc[p].gap
      <3>1. Quiet(p)  BY <1>4, <2>1, <1>m DEF Skip, Quiet, Working
      <3> QED  BY <3>1, <1>q
    <2>2. CASE ~proc[p].gap
      <3> DEFINE m == proc[p].next - 1
      <3>1. lock = p /\ UNCHANGED <<ledger, schema>> /\ Current(p) \in proc[p].seen
            /\ ledger = proc[p].seen \union FirstOf(proc[p].build, m)
            BY <1>4, <1>k DEF Skip, Knows, Works, Locked, Working
      <3>2. /\ proc'[p].at = "apply" /\ proc'[p].seen = proc[p].seen
            /\ proc'[p].build = proc[p].build /\ proc'[p].next = proc[p].next + 1
            BY <1>4, <1>k, <2>2 DEF Skip, States
      <3>3. FirstOf(proc[p].build, m + 1) = FirstOf(proc[p].build, m) \union {Current(p)}
            BY <1>n, FirstOfMore DEF Current
      <3>4. proc'[p].next - 1 = m + 1
            BY <1>n, <3>2
      <3>5. ledger' = proc'[p].seen \union FirstOf(proc'[p].build, proc'[p].next - 1)
            BY <3>1, <3>2, <3>3, <3>4
      <3>6. Works(p)'  BY <3>2, <3>5 DEF Works
      <3>7. Prefixed'  BY <1>k, <3>1, UnchangedStaysPrefixed
      <3> QED  BY <1>l, <3>1, <3>6, <3>7
    <2> QED  BY <2>1, <2>2
  <1>5. CASE Apply(p)
    <2>1. CASE /\ Current(p) \notin schema /\ schema' = schema \union {Current(p)}
               /\ proc' = [proc EXCEPT ![p].gap = TRUE, ![p].at = "record"]
      <3> DEFINE c == proc[p].build
                 m == proc[p].next - 1
      <3>1. /\ ledger = FirstOf(c, m) /\ schema = ledger
            /\ FirstOf(c, proc[p].next) = ledger \union {Current(p)}
            /\ proc[p].next \in 0..Len(c) /\ c \in Builds
            BY <1>5, <2>1, ReadyToApply DEF Apply
      <3>2. lock = p /\ ledger' = ledger /\ ledger # NoLedger /\ ledger = proc[p].seen \union FirstOf(c, m)
            BY <1>5, <1>k DEF Apply, Knows, Works, Locked, Working
      <3>3. /\ proc'[p].at = "record" /\ proc'[p].seen = proc[p].seen
            /\ proc'[p].build = c /\ proc'[p].next = proc[p].next
            BY <1>k, <2>1 DEF States
      <3>4. schema' = FirstOf(c, proc[p].next)
            BY <2>1, <3>1
      <3>5. Works(p)'
        <4>1. ledger' = proc'[p].seen \union FirstOf(proc'[p].build, proc'[p].next - 1)
              BY <3>2, <3>3
        <4>2. ledger' = FirstOf(proc'[p].build, proc'[p].next - 1)
              BY <3>1, <3>2, <3>3
        <4>3. schema' = FirstOf(proc'[p].build, proc'[p].next)
              BY <3>3, <3>4
        <4> QED  BY <4>1, <4>2, <4>3 DEF Works
      <3>6. Prefixed'
        <4>1. Len(c) \in Nat
              BY <3>1, ManifestAssumption DEF ManifestAssumption
        <4>2. m \in 0..Len(c) /\ m < Len(c) /\ m + 1 = proc[p].next
              BY <1>n, <3>1, <4>1
        <4>3. Recorded(ledger)' = FirstOf(c, m)
              BY <3>1, <3>2 DEF Recorded
        <4> QED  BY <3>1, <3>4, <4>2, <4>3 DEF Prefixed, PrefixOf
      <3> QED  BY <1>l, <3>2, <3>5, <3>6
    <2>2. CASE Go(p, "unlock") /\ UNCHANGED schema
      <3>1. Quiet(p)  BY <1>5, <2>2, <1>m DEF Apply, Quiet, Working
      <3> QED  BY <3>1, <1>q
    <2> QED  BY <1>5, <2>1, <2>2 DEF Apply
  <1>6. CASE Record(p)
    <2> DEFINE c == proc[p].build
               m == proc[p].next - 1
    <2>1. /\ lock = p /\ ledger # NoLedger /\ c \in Builds /\ proc[p].next =< Len(c)
          /\ ledger = proc[p].seen \union FirstOf(c, m) /\ ledger = FirstOf(c, m)
          /\ schema = FirstOf(c, proc[p].next) /\ schema' = schema
          /\ ledger' = ledger \union {Current(p)} /\ ledger' # NoLedger
      <3>1. ledger # NoLedger
            BY <1>6, <1>k DEF Record, Knows, Working
      <3>2. ledger' # NoLedger
            BY <3>1 DEF Fine, Grows
      <3> QED  BY <1>6, <1>k, <3>1, <3>2 DEF Record, Knows, Works, Locked, Working
    <2>2. /\ proc'[p].at = "apply" /\ proc'[p].seen = proc[p].seen
          /\ proc'[p].build = c /\ proc'[p].next = proc[p].next + 1
          BY <1>6, <1>k DEF Record, States
    <2>3. FirstOf(c, m + 1) = FirstOf(c, m) \union {Current(p)} /\ m + 1 = proc[p].next
          BY <1>n, FirstOfMore DEF Current
    <2>4. proc'[p].next - 1 = m + 1
          BY <1>n, <2>2
    <2>5. ledger' = proc'[p].seen \union FirstOf(proc'[p].build, proc'[p].next - 1)
          BY <2>1, <2>2, <2>3, <2>4
    <2>6. Works(p)'  BY <2>2, <2>5 DEF Works
    <2>7. Prefixed'
      <3>1. proc[p].next \in 0..Len(c)
        <4>1. Len(c) \in Nat
              BY <2>1, ManifestAssumption DEF ManifestAssumption
        <4> QED  BY <1>n, <2>1, <4>1
      <3>2. Recorded(ledger)' = FirstOf(c, proc[p].next) /\ schema' = FirstOf(c, proc[p].next)
            BY <2>1, <2>3 DEF Recorded
      <3> QED  BY <2>1, <3>1, <3>2 DEF Prefixed, PrefixOf
    <2> QED  BY <1>l, <2>1, <2>6, <2>7
  <1> QED  BY <1>1, <1>2, <1>3, <1>4, <1>5, <1>6
-----------------------------------------------------------------------------
(* Theorems.                                                                   *)

LEMMA InitMigration == Init => MigrationInv
  <1> SUFFICES ASSUME Init  PROVE MigrationInv
      OBVIOUS
  <1>1. TypesHold
        BY RestIsState, DatabaseAssumption DEF Init, TypesHold, DatabaseAssumption, Migrations
  <1>2. \A p \in Processes : proc[p] = Rest /\ proc[p].at = "idle"
        BY DEF Init, Rest
  <1>3. \A p \in Processes : Knows(p) /\ Works(p)
        BY <1>2 DEF Knows, Works, At, Locked, Working
  <1>4. Sound(found) => Prefixed
        BY DEF Init, Sound, Prefixed, PrefixOf, Recorded
  <1> QED  BY <1>1, <1>3, <1>4 DEF MigrationInv

LEMMA NextMigration == MigrationInv /\ [Next]_vars => MigrationInv'
  <1> SUFFICES ASSUME MigrationInv, [Next]_vars  PROVE MigrationInv'
      OBVIOUS
  <1>1. ASSUME NEW p \in Processes,
               (\E b \in Builds : Start(p, b)) \/ Lock(p) \/ Look(p) \/ Create(p) \/ Read(p)
               \/ Skip(p) \/ Apply(p) \/ Record(p) \/ Finish(p) \/ VerifyLedger(p)
               \/ VerifyCatalog(p) \/ Unlock(p) \/ Crash(p)
        PROVE  MigrationInv'
    <2>1. Fine(p)
          BY <1>1, StepIsFine DEF MigrationInv
    <2>2. ASSUME NEW q \in Processes \ {p}  PROVE Knows(q)'
          BY <2>1, OthersKnow DEF Fine, MigrationInv
    <2>3. found' = found
          BY <2>1 DEF Fine, Grows
    <2>4. Sound(found) => Prefixed' /\ \A q \in Processes : Works(q)'
          BY <1>1, <2>1, StepStaysPrefixed
    <2>5. Sound(found)' <=> Sound(found)
          BY <2>3 DEF Sound, Recorded
    <2> QED  BY <2>1, <2>2, <2>4, <2>5 DEF Fine, MigrationInv
  <1>2. CASE UNCHANGED vars
        BY <1>2
                 DEF vars, MigrationInv, TypesHold, Knows, Works, Prefixed, PrefixOf, Sound, Recorded, At
  <1> QED  BY <1>1, <1>2 DEF Next

\* Whatever coordinators of however many builds race and wherever they die.
THEOREM MigrationIsInvariant == Spec => []MigrationInv
  <1> QED  BY InitMigration, NextMigration, PTL DEF Spec

\* The schema of a database that coordinators alone have worked on is a prefix
\* of a manifest, and the ledger that prefix or one migration less
\* (migrateStream's applyMigration and recordMigration); and a process works
\* from exactly what is recorded, under the lock.
THEOREM SchemaAlwaysFollows == Spec => []SchemaFollowsManifest
  <1>1. MigrationInv => SchemaFollowsManifest
    <2> SUFFICES ASSUME MigrationInv, Sound(found)  PROVE
            /\ \E b \in Builds : \E n \in 0..Len(b) :
                 /\ Recorded(ledger) = FirstOf(b, n)
                 /\ schema \in {FirstOf(b, n), FirstOf(b, IF n < Len(b) THEN n + 1 ELSE n)}
            /\ \A p \in Processes : proc[p].at \in {"apply", "record"} =>
                 /\ lock = p /\ ledger = proc[p].seen \union FirstOf(proc[p].build, proc[p].next - 1)
        BY DEF SchemaFollowsManifest
    <2>1. \A p \in Processes : proc[p].at \in {"apply", "record"} =>
                 /\ lock = p /\ ledger = proc[p].seen \union FirstOf(proc[p].build, proc[p].next - 1)
          BY DEF MigrationInv, Knows, Works, Working, Locked
    <2>2. PICK b \in Builds : \E n \in 0..Len(b) : PrefixOf(b, n)
          BY DEF MigrationInv, Prefixed
    <2>3. PICK n \in 0..Len(b) : PrefixOf(b, n)
          BY <2>2
    <2>4. schema \in {FirstOf(b, n), FirstOf(b, IF n < Len(b) THEN n + 1 ELSE n)}
          BY <2>3 DEF PrefixOf
    <2> QED  BY <2>1, <2>3, <2>4 DEF PrefixOf
  <1> QED  BY <1>1, MigrationIsInvariant, PTL

\* A verified capability (inspectTerminalSchemaCapability) is whole in what the
\* catalog check knows, and in everything if coordinators alone were at work,
\* although nobody holds the lock while it is inspected.
THEOREM VerifiedIsAlwaysWhole == Spec => []VerifiedIsWhole
  <1>1. MigrationInv => VerifiedIsWhole
    <2> SUFFICES ASSUME MigrationInv, NEW p \in Processes, At(p, "verified")
                 PROVE  /\ Range(proc[p].build) \cap Catalogued \subseteq schema
                        /\ Sound(found) => Range(proc[p].build) \subseteq schema
                        /\ Range(proc[p].build) \subseteq Recorded(ledger)
        BY DEF VerifiedIsWhole
    <2>1. /\ Range(proc[p].build) \cap Catalogued \subseteq schema
          /\ Range(proc[p].build) \subseteq Recorded(ledger)
          BY DEF MigrationInv, Knows, At
    <2>2. ASSUME Sound(found)  PROVE Recorded(ledger) \subseteq schema
      <3>1. PICK b \in Builds : \E n \in 0..Len(b) : PrefixOf(b, n)
            BY <2>2 DEF MigrationInv, Prefixed
      <3>2. PICK n \in 0..Len(b) : PrefixOf(b, n)
            BY <3>1
      <3>3. n \in Nat
        <4>1. Len(b) \in Nat
              BY ManifestAssumption DEF ManifestAssumption
        <4> QED  BY <4>1
      <3>4. FirstOf(b, n) \subseteq FirstOf(b, n + 1)
            BY <3>3, FirstOfMore
      <3> QED  BY <3>2, <3>4 DEF PrefixOf
    <2> QED  BY <2>1, <2>2
  <1> QED  BY <1>1, MigrationIsInvariant, PTL
=============================================================================
