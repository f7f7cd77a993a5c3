---------------------------- MODULE RuntimeProofs ----------------------------
(* For any number of processes, owners and effects, any answers, lapses, deaths *)
(* and retries: the runtime calls the broker no more often than it was          *)
(* permitted to, forgets no call and tells the truth about what came of it; its *)
(* commits stand or fall together and follow its leases; what it believes not   *)
(* to have been submitted was not, unless somebody called beside the lease; and *)
(* its rows read as corruption only with one of four histories in them.         *)
EXTENDS RecoverableRuntime, FiniteSetTheorems, TLAPS

States == [at : Steps, fence : Fences \cup {0}, revision : Nat,
           effect : Effects \cup {NoOne}, retry : BOOLEAN, key : Keys \cup {NoOne},
           said : Replies \cup Verdicts \cup {"CANONICAL_REJECTED", "NONE"}]

\* The record of an effect is past its claim.
Past(e) == idem[e] \notin {"ABSENT", "CLAIMED"}

\* What a process may rely on at each of its steps: it has an effect; before it
\* calls, the record is marked; what it was told is what the broker did.
Knows(p) ==
  /\ ~At(p, "idle") => proc[p].effect \in Effects
  /\ At(p, "adopt") => proc[p].key \in Keys
  /\ At(p, "check") \/ At(p, "call") =>
       effects[proc[p].effect] # "NONE" /\ Past(proc[p].effect)
  /\ At(p, "respond") \/ At(p, "store") =>
       /\ proc[p].said = "ACCEPTED" => broker[proc[p].effect] = "ACCEPTED"
       /\ proc[p].said \in {"REJECTED", "CANONICAL_REJECTED"} =>
            broker[proc[p].effect] = "REJECTED"

\* The processes that have marked e and not yet called, and the permit that is
\* there for one more.
InFlight(e) == {p \in Procs : proc[p].at \in {"check", "call"} /\ proc[p].effect = e}
Unpaid(e) == IF idem[e] \in {"ABSENT", "CLAIMED", "RETRY_AUTHORIZED"} THEN 1 ELSE 0

\* Calls made, calls on their way and the permit that is left are within the
\* permits that were given.
Balance(e) ==
  /\ IsFiniteSet(InFlight(e))
  /\ calls[e] + Cardinality(InFlight(e)) + Unpaid(e) =< 1 + permits[e]

\* The inductive invariant.
RuntimeInv ==
  /\ TypeOK
  /\ \A p \in Procs : Knows(p)
  /\ \A e \in Effects : Balance(e)
  /\ NoForgottenCall
  /\ OutcomesAreTrue
-----------------------------------------------------------------------------
(* What steps have in common.                                                  *)

\* A step that takes p from one state to another.
LEMMA ProcessMoves ==
    ASSUME TypeOK, NEW p \in Procs, NEW state \in States,
           proc' = [proc EXCEPT ![p] = state]
    PROVE  /\ proc' \in [Procs -> States] /\ proc'[p] = state
           /\ \A q \in Procs \ {p} : proc'[q] = proc[q]
  BY DEF TypeOK, States

\* Nothing that was asked for, marked or decided is taken back.
Onward ==
  \A e \in Effects : /\ effects[e] # "NONE" => effects'[e] # "NONE"
                     /\ Past(e) => Past(e)'
                     /\ broker[e] # "NONE" => broker'[e] = broker[e]

LEMMA OthersKnow ==
    ASSUME NEW q \in Procs, Knows(q), Onward, proc'[q] = proc[q]
    PROVE  Knows(q)'
  BY DEF Knows, Onward, At

\* The rows of the records after a recorded status.
LEMMA RecordFacts ==
    ASSUME TypeOK, NEW e \in Effects, NEW s \in Requestable, Accepts(idem[e], s), Record(e, s)
    PROVE  /\ idem' \in [Effects -> Statuses] /\ permits' \in [Effects -> Nat]
           /\ idem'[e] = s /\ Past(e)'
           /\ \A f \in Effects \ {e} : idem'[f] = idem[f]
           /\ \A f \in Effects : Past(f) => Past(f)'
           /\ \A f \in Effects : Unpaid(f)' + permits[f] =< Unpaid(f) + permits'[f]
  <1>1. idem' = [idem EXCEPT ![e] = s] /\ s \in Statuses /\ s \notin {"ABSENT", "CLAIMED"}
        BY DEF Record, Requestable
  <1>2. /\ idem' \in [Effects -> Statuses] /\ idem'[e] = s
        /\ \A f \in Effects \ {e} : idem'[f] = idem[f]
        BY <1>1 DEF TypeOK
  <1>3. \A f \in Effects : Past(f) => Past(f)'
        BY <1>1, <1>2 DEF Past
  <1>4. permits' \in [Effects -> Nat] /\ \A f \in Effects \ {e} : permits'[f] = permits[f]
        BY DEF Record, TypeOK
  <1>5. permits[e] \in Nat /\ permits'[e] \in Nat /\ permits'[e] >= permits[e]
        BY DEF Record, TypeOK
  <1>6. Unpaid(e)' + permits[e] =< Unpaid(e) + permits'[e]
    <2>1. CASE s = "RETRY_AUTHORIZED" /\ Applies(idem[e], s)
      <3>1. permits'[e] = permits[e] + 1
            BY <2>1 DEF Record, TypeOK
      <3> QED  BY <1>5, <3>1 DEF Unpaid
    <2>2. CASE s = "RETRY_AUTHORIZED" /\ ~Applies(idem[e], s)
      <3>1. idem[e] = s
            BY <2>2 DEF Accepts, SameAgain
      <3> QED  BY <1>2, <1>5, <3>1 DEF Unpaid
    <2>3. CASE s # "RETRY_AUTHORIZED"
      <3>1. Unpaid(e)' = 0
            BY <1>1, <1>2, <2>3 DEF Unpaid
      <3> QED  BY <1>5, <3>1 DEF Unpaid
    <2> QED  BY <2>1, <2>2, <2>3
  <1>7. ASSUME NEW f \in Effects \ {e}  PROVE Unpaid(f)' + permits[f] =< Unpaid(f) + permits'[f]
    <2>1. Unpaid(f)' = Unpaid(f) /\ permits'[f] = permits[f] /\ permits[f] \in Nat
          BY <1>2, <1>4, <1>7 DEF Unpaid, TypeOK
    <2> QED  BY <2>1 DEF Unpaid
  <1> QED  BY <1>1, <1>2, <1>3, <1>4, <1>6, <1>7 DEF Past

\* A step that sends nobody on to call keeps the balance.
LEMMA NobodyMoreCalls ==
    ASSUME NEW e \in Effects, Balance(e), InFlight(e)' \subseteq InFlight(e),
           calls'[e] = calls[e], calls[e] \in Nat, permits[e] \in Nat, permits'[e] \in Nat,
           Unpaid(e)' + permits[e] =< Unpaid(e) + permits'[e]
    PROVE  Balance(e)'
  <1>1. /\ IsFiniteSet(InFlight(e))'
        /\ Cardinality(InFlight(e))' =< Cardinality(InFlight(e))
        BY FS_Subset DEF Balance
  <1>2. Cardinality(InFlight(e)) \in Nat /\ Cardinality(InFlight(e))' \in Nat
        BY <1>1, FS_CardinalityType DEF Balance
  <1>3. Unpaid(e) \in Nat /\ Unpaid(e)' \in Nat
        BY DEF Unpaid
  <1> QED  BY <1>1, <1>2, <1>3 DEF Balance

\* Calls are as little forgotten as before when the broker does nothing.
LEMMA CallsStay ==
    ASSUME NoForgottenCall, Onward, broker' = broker
    PROVE  NoForgottenCall'
  BY DEF NoForgottenCall, Onward, Past

\* Outcomes stay true when none joins them and none is recorded.
LEMMA OutcomesStay ==
    ASSUME TypeOK, OutcomesAreTrue, Onward, outcomes' = outcomes,
           \A e \in Effects : idem'[e] \in {"CONFIRMED", "REJECTED"} => idem'[e] = idem[e]
    PROVE  OutcomesAreTrue'
  <1> SUFFICES ASSUME NEW e \in Effects
               PROVE  LET canonical == {o \in outcomes' : o.effect = e /\ o.kind = "CANONICAL"}
                      IN  /\ \A o \in canonical : o.says = broker'[e]
                          /\ \A o, q \in canonical : o = q
                          /\ idem'[e] = "CONFIRMED" => broker'[e] = "ACCEPTED"
                          /\ idem'[e] = "REJECTED" => broker'[e] = "REJECTED"
      BY DEF OutcomesAreTrue
  <1>1. \A o \in outcomes : o.says # "NONE"
        BY DEF TypeOK, Verdicts
  <1> QED  BY <1>1 DEF OutcomesAreTrue, Onward
-----------------------------------------------------------------------------
(* A step of a process, from its parts.                                        *)

\* The part of the types that a process's step may touch.
RowTypes ==
  /\ revision \in Nat
  /\ terminal \in BOOLEAN
  /\ effects \in [Effects -> {"NONE", "PENDING", "ADOPTED", "TERMINAL"}]
  /\ idem \in [Effects -> Statuses]
  /\ outcomes \subseteq [key : Keys, effect : Effects, says : Verdicts,
                         kind : {"CANONICAL", "DISPOSITION"}, fence : Fences]
  /\ receipts \subseteq [kind : {"INTENT", "ADOPTION", "TERMINAL"},
                         effect : Effects, key : Keys \cup {NoOne},
                         next : Effects \cup {NoOne}, revision : Nat, owner : Owners, fence : Fences]
  /\ broker \in [Effects -> {"NONE", "ACCEPTED", "REJECTED"}]
  /\ calls \in [Effects -> Nat]
  /\ unguarded \subseteq Effects
  /\ permits \in [Effects -> Nat]

LEMMA RowsAreTyped == TypeOK => RowTypes
  BY DEF TypeOK, RowTypes

LEMMA Assemble ==
    ASSUME RuntimeInv, NEW p \in Procs, NEW state \in States,
           proc' = [proc EXCEPT ![p] = state], UNCHANGED <<lease, grants>>, RowTypes',
           Onward, Knows(p)', \A e \in Effects : Balance(e)', NoForgottenCall', OutcomesAreTrue'
    PROVE  RuntimeInv'
  <1>1. TypeOK /\ \A q \in Procs : Knows(q)
        BY DEF RuntimeInv
  <1>2. /\ proc' \in [Procs -> States] /\ proc'[p] = state
        /\ \A q \in Procs \ {p} : proc'[q] = proc[q]
        BY <1>1, ProcessMoves
  <1>3. TypeOK'
        BY <1>1, <1>2 DEF TypeOK, RowTypes, States
  <1>4. \A q \in Procs : Knows(q)'
        BY <1>1, <1>2, OthersKnow
  <1> QED  BY <1>3, <1>4 DEF RuntimeInv

\* A step that sends nobody on to call, with the broker idle.
LEMMA AssembleQuietly ==
    ASSUME RuntimeInv, NEW p \in Procs, NEW state \in States,
           proc' = [proc EXCEPT ![p] = state], UNCHANGED <<lease, grants, outside>>, RowTypes',
           Onward, Knows(p)', OutcomesAreTrue',
           state.at \in {"check", "call"} =>
             proc[p].at \in {"check", "call"} /\ state.effect = proc[p].effect,
           \A e \in Effects : Unpaid(e)' + permits[e] =< Unpaid(e) + permits'[e]
    PROVE  RuntimeInv'
  <1>1. TypeOK /\ NoForgottenCall /\ broker' = broker /\ calls' = calls
        BY DEF RuntimeInv, outside
  <1>2. /\ proc'[p] = state /\ \A q \in Procs \ {p} : proc'[q] = proc[q]
        BY <1>1, ProcessMoves
  <1>3. ASSUME NEW e \in Effects  PROVE Balance(e)'
    <2>1. InFlight(e)' \subseteq InFlight(e)
          BY <1>2 DEF InFlight
    <2>2. calls[e] \in Nat /\ permits[e] \in Nat /\ permits'[e] \in Nat /\ calls'[e] = calls[e]
          BY <1>1 DEF TypeOK, RowTypes
    <2>3. Balance(e)
          BY DEF RuntimeInv
    <2> QED  BY <2>1, <2>2, <2>3, NobodyMoreCalls
  <1>4. NoForgottenCall'
        BY <1>1, CallsStay
  <1> QED  BY <1>3, <1>4, Assemble

\* A step that changes nothing but what its process remembers.
LEMMA OnlyRemembers ==
    ASSUME RuntimeInv, NEW p \in Procs, NEW state \in States,
           proc' = [proc EXCEPT ![p] = state], UNCHANGED <<durable, outside, permits>>,
           Knows(p)', state.at \notin {"check", "call"}
    PROVE  RuntimeInv'
  <1>1. TypeOK /\ OutcomesAreTrue /\ RowTypes
        BY RowsAreTyped DEF RuntimeInv
  <1>2. /\ UNCHANGED <<lease, grants, revision, terminal, effects, idem, outcomes, receipts>>
        /\ UNCHANGED <<broker, calls, unguarded, permits>>
        BY DEF durable, outside
  <1>3. Onward
        BY <1>2 DEF Onward, Past
  <1>4. RowTypes'
        BY <1>1, <1>2 DEF RowTypes
  <1>5. OutcomesAreTrue'
        BY <1>1, <1>2, <1>3, OutcomesStay
  <1>6. \A e \in Effects : Unpaid(e)' + permits[e] =< Unpaid(e) + permits'[e]
    <2>1. ASSUME NEW e \in Effects  PROVE Unpaid(e)' = Unpaid(e) /\ permits'[e] = permits[e] /\ permits[e] \in Nat
          BY <1>1, <1>2 DEF Unpaid, RowTypes
    <2> QED  BY <2>1 DEF Unpaid
  <1>7. UNCHANGED <<lease, grants, outside>>
        BY <1>2 DEF outside
  <1> QED  BY <1>3, <1>4, <1>5, <1>6, <1>7, AssembleQuietly

\* A step that records a status, and may write outcomes, effects and receipts.
LEMMA RecordsStatus ==
    ASSUME RuntimeInv, NEW p \in Procs, NEW state \in States,
           proc' = [proc EXCEPT ![p] = state], UNCHANGED <<lease, grants, outside>>,
           NEW e \in Effects, NEW s \in Requestable, Accepts(idem[e], s), Record(e, s),
           RowTypes', \A f \in Effects : effects[f] # "NONE" => effects'[f] # "NONE",
           (outcomes' = outcomes /\ s \notin {"CONFIRMED", "REJECTED"}) \/ OutcomesAreTrue',
           Knows(p)',
           state.at \in {"check", "call"} =>
             proc[p].at \in {"check", "call"} /\ state.effect = proc[p].effect
    PROVE  RuntimeInv'
  <1>1. TypeOK /\ OutcomesAreTrue
        BY DEF RuntimeInv
  <1>2. /\ idem'[e] = s
        /\ \A f \in Effects \ {e} : idem'[f] = idem[f]
        /\ \A f \in Effects : Past(f) => Past(f)'
        /\ \A f \in Effects : Unpaid(f)' + permits[f] =< Unpaid(f) + permits'[f]
        BY <1>1, RecordFacts
  <1>3. Onward
        BY <1>2 DEF Onward, outside
  <1>4. OutcomesAreTrue'
    <2>1. CASE outcomes' = outcomes /\ s \notin {"CONFIRMED", "REJECTED"}
          BY <1>1, <1>2, <1>3, <2>1, OutcomesStay
    <2>2. CASE OutcomesAreTrue'
          BY <2>2
    <2> QED  BY <2>1, <2>2
  <1> QED  BY <1>2, <1>3, <1>4, AssembleQuietly
-----------------------------------------------------------------------------
(* The steps.                                                                  *)

\* A boot or a load.
LEMMA StartHolds ==
    ASSUME RuntimeInv, NEW p \in Procs, NEW e \in Effects,
           NEW step \in {"intent", "claim", "adopt", "preflight"}, NEW retry \in BOOLEAN,
           NEW key \in Keys \cup {NoOne}, step = "adopt" => key \in Keys,
           Start(p, step, e, retry, key), UNCHANGED <<durable, outside, permits>>
    PROVE  RuntimeInv'
  <1> DEFINE state == [at |-> step, fence |-> lease.fence, revision |-> revision,
                       effect |-> e, retry |-> retry, said |-> "NONE", key |-> key]
  <1>1. TypeOK  BY DEF RuntimeInv
  <1>2. state \in States
        BY <1>1 DEF TypeOK, States, Steps
  <1>3. proc' = [proc EXCEPT ![p] = state]
        BY DEF Start
  <1>4. /\ state.at = step /\ state.effect = e /\ state.key = key
        OBVIOUS
  <1> HIDE DEF state
  <1>5. proc'[p] = state
        BY <1>1, <1>2, <1>3, ProcessMoves
  <1>6. Knows(p)'
        BY <1>4, <1>5 DEF Knows, At
  <1> QED  BY <1>2, <1>3, <1>4, <1>6, OnlyRemembers

LEMMA IdleIsState == Idle \in States /\ Idle.at = "idle"
  <1>1. "idle" \in Steps /\ 0 \in Nat /\ FALSE \in BOOLEAN
        BY DEF Steps
  <1> QED  BY <1>1 DEF Idle, States

\* A death between two awaits.
LEMMA CrashHolds ==
    ASSUME RuntimeInv, NEW p \in Procs, Crash(p)
    PROVE  RuntimeInv'
  <1>1. proc' = [proc EXCEPT ![p] = Idle] /\ UNCHANGED <<durable, outside, permits>>
        BY DEF Crash, Rest
  <1>2. proc'[p] = Idle
        BY <1>1, IdleIsState, ProcessMoves DEF RuntimeInv
  <1>3. Knows(p)'
        BY <1>2, IdleIsState DEF Knows, At
  <1> QED  BY <1>1, <1>3, IdleIsState, OnlyRemembers

LEMMA ObserveHolds ==
    ASSUME RuntimeInv, NEW p \in Procs, NEW answer \in Answers, Observe(p, answer)
    PROVE  RuntimeInv'
  <1> DEFINE state == [proc[p] EXCEPT !.at = "store", !.said = answer]
             e == proc[p].effect
  <1>1. TypeOK /\ Knows(p) /\ proc[p] \in States
        BY DEF RuntimeInv, TypeOK, States
  <1>2. answer \in Verdicts \cup {"CANONICAL_REJECTED"}
        BY RuntimeAssumption DEF RuntimeAssumption
  <1>3. state \in States
        BY <1>1, <1>2 DEF States, Steps
  <1>4. proc' = [proc EXCEPT ![p] = state] /\ UNCHANGED <<durable, outside, permits>>
        BY DEF Observe
  <1>5. state.at = "store" /\ state.said = answer /\ state.effect = e
        BY <1>1 DEF States
  <1>6. e \in Effects
        BY <1>1 DEF Observe, Knows, At
  <1>7. /\ answer = "ACCEPTED" => broker[e] = "ACCEPTED"
        /\ answer \in {"REJECTED", "CANONICAL_REJECTED"} => broker[e] = "REJECTED"
    <2>1. broker[e] \in {"NONE", "ACCEPTED", "REJECTED"} /\ answer \in Truth(e)
          BY <1>1, <1>6 DEF TypeOK, Observe
    <2> QED  BY <2>1 DEF Truth
  <1>8. broker' = broker
        BY <1>4 DEF outside
  <1> HIDE DEF state
  <1>9. proc'[p] = state
        BY <1>1, <1>3, <1>4, ProcessMoves
  <1>10. Knows(p)'
        BY <1>5, <1>6, <1>7, <1>8, <1>9 DEF Knows, At
  <1> QED  BY <1>3, <1>4, <1>5, <1>10, OnlyRemembers

\* What a step that is not the first of its call finds.
LEMMA OnItsWay ==
    ASSUME RuntimeInv, NEW p \in Procs, ~At(p, "idle")
    PROVE  /\ TypeOK /\ RowTypes /\ OutcomesAreTrue /\ Knows(p)
           /\ proc[p] \in States /\ proc[p].effect \in Effects
           /\ idem[proc[p].effect] \in Statuses
  BY RowsAreTyped DEF RuntimeInv, TypeOK, States, Knows

\* One more state of p, at another step with the same effect.
LEMMA GoesTo ==
    ASSUME RuntimeInv, NEW p \in Procs, NEW step \in Steps, Goto(p, step)
    PROVE  \E state \in States :
             /\ proc' = [proc EXCEPT ![p] = state] /\ proc'[p] = state
             /\ state.at = step /\ state.effect = proc[p].effect
             /\ state.key = proc[p].key /\ state.said = proc[p].said
  <1> DEFINE state == [proc[p] EXCEPT !.at = step]
  <1>1. TypeOK /\ proc[p] \in States
        BY DEF RuntimeInv, TypeOK, States
  <1>2. state \in States
        BY <1>1 DEF States
  <1>3. proc' = [proc EXCEPT ![p] = state]
        BY DEF Goto
  <1>4. /\ state.at = step /\ state.effect = proc[p].effect
        /\ state.key = proc[p].key /\ state.said = proc[p].said
        BY <1>1 DEF States
  <1> HIDE DEF state
  <1>5. proc'[p] = state
        BY <1>1, <1>2, <1>3, ProcessMoves
  <1> QED  BY <1>2, <1>3, <1>4, <1>5

\* A claim, or the retry that was authorised.
LEMMA ClaimHolds ==
    ASSUME RuntimeInv, NEW p \in Procs, Claim(p)
    PROVE  RuntimeInv'
  <1> DEFINE e == proc[p].effect
  <1>1. /\ TypeOK /\ RowTypes /\ OutcomesAreTrue /\ e \in Effects /\ idem[e] \in Statuses
        BY OnItsWay DEF Claim, At
  <1>2. PICK state \in States :
          /\ proc' = [proc EXCEPT ![p] = state] /\ proc'[p] = state
          /\ state.at = "mark" /\ state.effect = e
        BY GoesTo DEF Claim, Steps
  <1>3. Knows(p)'
        BY <1>1, <1>2 DEF Knows, At
  <1>4. UNCHANGED <<lease, grants, revision, terminal, effects, outcomes, receipts, broker, calls, unguarded>>
        BY DEF Claim, outside
  <1>5. CASE UNCHANGED <<idem, permits>>
    <2>1. UNCHANGED <<durable, outside, permits>>
          BY <1>4, <1>5 DEF durable, outside
    <2> QED  BY <1>2, <1>3, <2>1, OnlyRemembers
  <1>6. CASE idem[e] = "ABSENT" /\ Record(e, "CLAIMED")
    <2>1. /\ idem' = [idem EXCEPT ![e] = "CLAIMED"] /\ permits' = permits
          BY <1>6 DEF Record
    <2>2. /\ idem' \in [Effects -> Statuses] /\ idem'[e] = "CLAIMED"
          /\ \A f \in Effects \ {e} : idem'[f] = idem[f]
          BY <1>1, <2>1 DEF RowTypes, Statuses
    <2>3. Onward
          BY <1>4, <1>6, <2>2 DEF Onward, Past
    <2>4. RowTypes'
          BY <1>1, <1>4, <2>1, <2>2 DEF RowTypes
    <2>5. OutcomesAreTrue'
          BY <1>1, <1>4, <2>2, <2>3, OutcomesStay
    <2>6. \A f \in Effects : Unpaid(f)' + permits[f] =< Unpaid(f) + permits'[f]
      <3>1. ASSUME NEW f \in Effects
            PROVE  Unpaid(f)' = Unpaid(f) /\ permits'[f] = permits[f] /\ permits[f] \in Nat
            BY <1>1, <1>6, <2>1, <2>2 DEF Unpaid, RowTypes
      <3> QED  BY <3>1 DEF Unpaid
    <2>7. UNCHANGED <<lease, grants, outside>>
          BY <1>4 DEF outside
    <2> QED  BY <1>2, <1>3, <2>3, <2>4, <2>5, <2>6, <2>7, AssembleQuietly
  <1> QED  BY <1>5, <1>6 DEF Claim

\* Only the one that moves the record to SUBMITTED is on its way to call: it
\* takes the permit that was left.
LEMMA MarkHolds ==
    ASSUME RuntimeInv, NEW p \in Procs, Mark(p)
    PROVE  RuntimeInv'
  <1>0. PICK e \in Effects : e = proc[p].effect
        BY OnItsWay DEF Mark, At
  <1>1. /\ TypeOK /\ RowTypes /\ OutcomesAreTrue /\ idem[e] \in Statuses
        BY <1>0, OnItsWay DEF Mark, At
  <1>2. PICK state \in States :
          /\ proc' = [proc EXCEPT ![p] = state] /\ proc'[p] = state
          /\ state.at = "check" /\ state.effect = e
        BY <1>0, GoesTo DEF Mark, Steps
  <1>3. UNCHANGED <<lease, grants, revision, terminal, effects, outcomes, receipts, broker, calls, unguarded>>
        BY DEF Mark, outside
  <1>4. /\ idem[e] \in {"CLAIMED", "RETRY_AUTHORIZED"} /\ effects[e] = "PENDING"
        /\ Record(e, "SUBMITTED") /\ Accepts(idem[e], "SUBMITTED") /\ "SUBMITTED" \in Requestable
    <2>1. Applies(idem[e], "SUBMITTED") /\ effects[e] = "PENDING" /\ Record(e, "SUBMITTED")
          BY <1>0 DEF Mark, Fenced
    <2>2. idem[e] \in {"CLAIMED", "RETRY_AUTHORIZED"}
          BY <1>1, <2>1 DEF Applies, LegalEdges, Requestable, Statuses
    <2> QED  BY <2>1, <2>2 DEF Accepts, Requestable, Statuses
  <1>5. /\ idem' \in [Effects -> Statuses] /\ permits' \in [Effects -> Nat]
        /\ idem'[e] = "SUBMITTED" /\ Past(e)'
        /\ \A f \in Effects \ {e} : idem'[f] = idem[f]
        /\ \A f \in Effects : Past(f) => Past(f)'
        BY <1>1, <1>4, RecordFacts
  <1>6. permits' = permits
        BY <1>4 DEF Record
  <1>7. Onward
        BY <1>3, <1>5 DEF Onward
  <1>8. RowTypes'
        BY <1>1, <1>3, <1>5 DEF RowTypes
  <1>9. OutcomesAreTrue'
        BY <1>1, <1>3, <1>5, <1>7, OutcomesStay
  <1>10. NoForgottenCall'
        BY <1>3, <1>7, CallsStay DEF RuntimeInv
  <1>11. Knows(p)'
        BY <1>1, <1>2, <1>3, <1>4, <1>5 DEF Knows, At
  <1>12. \A q \in Procs \ {p} : proc'[q] = proc[q]
        BY <1>1, <1>2, ProcessMoves
  <1>13. ASSUME NEW f \in Effects  PROVE Balance(f)'
    <2>1. calls[f] \in Nat /\ permits[f] \in Nat /\ calls'[f] = calls[f] /\ permits'[f] = permits[f]
          BY <1>1, <1>3, <1>6 DEF RowTypes
    <2>2. Balance(f)
          BY DEF RuntimeInv
    <2>3. CASE f # e
      <3>1. InFlight(f)' \subseteq InFlight(f)
            BY <1>2, <1>12, <2>3 DEF InFlight
      <3>2. Unpaid(f)' = Unpaid(f) /\ Unpaid(f) \in Nat
            BY <1>5, <2>3 DEF Unpaid
      <3>3. Unpaid(f)' + permits[f] =< Unpaid(f) + permits'[f]
            BY <2>1, <3>2
      <3> QED  BY <2>1, <2>2, <3>1, <3>3, NobodyMoreCalls
    <2>4. CASE f = e
      <3>1. IsFiniteSet(InFlight(e)) /\ Cardinality(InFlight(e)) \in Nat
            BY <2>2, <2>4, FS_CardinalityType DEF Balance
      <3>2. /\ IsFiniteSet(InFlight(e) \cup {p})
            /\ Cardinality(InFlight(e) \cup {p}) =< Cardinality(InFlight(e)) + 1
            /\ Cardinality(InFlight(e) \cup {p}) \in Nat
        <4>1. /\ IsFiniteSet(InFlight(e) \cup {p})
              /\ Cardinality(InFlight(e) \cup {p}) =
                   IF p \in InFlight(e) THEN Cardinality(InFlight(e)) ELSE Cardinality(InFlight(e)) + 1
              BY <3>1, FS_AddElement
        <4> QED  BY <3>1, <4>1
      <3>3. InFlight(e)' \subseteq InFlight(e) \cup {p}
            BY <1>12 DEF InFlight
      <3>4. IsFiniteSet(InFlight(e)') /\ Cardinality(InFlight(e)') =< Cardinality(InFlight(e)) + 1
            BY <3>1, <3>2, <3>3, FS_Subset, FS_CardinalityType
      <3>5. Cardinality(InFlight(e)') \in Nat
            BY <3>4, FS_CardinalityType
      <3>6. Unpaid(e) = 1 /\ Unpaid(e)' = 0
            BY <1>4, <1>5 DEF Unpaid
      <3> QED  BY <2>1, <2>2, <2>4, <3>1, <3>4, <3>5, <3>6 DEF Balance
    <2> QED  BY <2>3, <2>4
  <1>14. UNCHANGED <<lease, grants>>
        BY <1>3
  <1> QED  BY <1>2, <1>7, <1>8, <1>9, <1>10, <1>11, <1>13, <1>14, Assemble

\* The call itself: the broker processes a request once, or never gets it.
LEMMA InvokeHolds ==
    ASSUME RuntimeInv, NEW p \in Procs, NEW reply \in Replies, Invoke(p, reply)
    PROVE  RuntimeInv'
  <1>0. PICK e \in Effects : e = proc[p].effect
        BY OnItsWay DEF Invoke, At
  <1> DEFINE state == [proc[p] EXCEPT !.at = "respond", !.said = reply]
  <1>1. /\ TypeOK /\ RowTypes /\ OutcomesAreTrue /\ Knows(p) /\ proc[p] \in States
        BY OnItsWay DEF Invoke, At
  <1>2. effects[e] # "NONE" /\ Past(e)
        BY <1>0, <1>1 DEF Invoke, Knows
  <1>3. state \in States
        BY <1>1 DEF States, Steps
  <1>4. state.at = "respond" /\ state.said = reply /\ state.effect = e
        BY <1>0, <1>1 DEF States
  <1>5. proc' = [proc EXCEPT ![p] = state]
        BY DEF Invoke
  <1> HIDE DEF state
  <1>6. proc'[p] = state /\ \A q \in Procs \ {p} : proc'[q] = proc[q]
        BY <1>1, <1>3, <1>5, ProcessMoves
  <1>7. UNCHANGED <<lease, grants, revision, terminal, effects, idem, outcomes, receipts, permits>>
        BY DEF Invoke, durable
  <1>8. /\ broker' \in [Effects -> {"NONE", "ACCEPTED", "REJECTED"}]
        /\ \A f \in Effects : broker[f] # "NONE" => broker'[f] = broker[f]
        /\ \A f \in Effects \ {e} : broker'[f] = broker[f]
        /\ reply \in {"ACCEPTED", "REJECTED"} => broker'[e] = reply
    <2>1. CASE UNCHANGED broker /\ reply \in {"AMBIGUOUS", "RETRY_SAFE", "DO_NOT_RETRY"}
          BY <1>1, <2>1 DEF RowTypes
    <2>2. CASE /\ broker' \in {[broker EXCEPT ![e] = d] :
                                 d \in IF broker[e] = "NONE"
                                       THEN {"ACCEPTED", "REJECTED"} ELSE {broker[e]}}
               /\ reply \in {broker'[e], "AMBIGUOUS"}
      <3>1. PICK d \in {"NONE", "ACCEPTED", "REJECTED"} :
              /\ broker' = [broker EXCEPT ![e] = d] /\ (broker[e] # "NONE" => d = broker[e])
            BY <1>1, <2>2 DEF RowTypes
      <3> QED  BY <1>1, <2>2, <3>1 DEF RowTypes
    <2> QED  BY <1>0, <2>1, <2>2 DEF Invoke
  <1>9. /\ calls' \in [Effects -> Nat] /\ calls'[e] = calls[e] + 1
        /\ \A f \in Effects \ {e} : calls'[f] = calls[f]
        BY <1>0, <1>1 DEF Invoke, RowTypes
  <1>10. Onward
        BY <1>7, <1>8 DEF Onward, Past
  <1>11. RowTypes'
    <2>1. unguarded' \subseteq Effects
          BY <1>0, <1>1 DEF Invoke, RowTypes
    <2> QED  BY <1>1, <1>7, <1>8, <1>9, <2>1 DEF RowTypes
  <1>12. OutcomesAreTrue'
        BY <1>1, <1>7, <1>10, OutcomesStay
  <1>13. NoForgottenCall'
        BY <1>2, <1>7, <1>8 DEF NoForgottenCall, RuntimeInv, Past
  <1>14. Knows(p)'
        BY <1>1, <1>4, <1>6, <1>8 DEF Knows, At, Replies
  <1>15. ASSUME NEW f \in Effects  PROVE Balance(f)'
    <2>1. calls[f] \in Nat /\ permits[f] \in Nat /\ permits'[f] = permits[f] /\ Unpaid(f)' = Unpaid(f)
          BY <1>1, <1>7 DEF RowTypes, Unpaid
    <2>2. Balance(f) /\ Unpaid(f) \in Nat
          BY DEF RuntimeInv, Unpaid
    <2>3. CASE f # e
      <3>1. InFlight(f)' \subseteq InFlight(f)
            BY <1>4, <1>6, <2>3 DEF InFlight
      <3>2. Unpaid(f)' + permits[f] =< Unpaid(f) + permits'[f] /\ calls'[f] = calls[f]
            BY <1>9, <2>1, <2>2, <2>3
      <3> QED  BY <2>1, <2>2, <3>1, <3>2, NobodyMoreCalls
    <2>4. CASE f = e
      <3>1. IsFiniteSet(InFlight(e)) /\ p \in InFlight(e) /\ Cardinality(InFlight(e)) \in Nat
            BY <1>0, <2>2, <2>4, FS_CardinalityType DEF Balance, InFlight, Invoke, At
      <3>2. /\ IsFiniteSet(InFlight(e) \ {p})
            /\ Cardinality(InFlight(e) \ {p}) = Cardinality(InFlight(e)) - 1
            BY <3>1, FS_RemoveElement
      <3>3. InFlight(e)' \subseteq InFlight(e) \ {p}
            BY <1>4, <1>6 DEF InFlight
      <3>4. /\ IsFiniteSet(InFlight(e)') /\ Cardinality(InFlight(e)') =< Cardinality(InFlight(e)) - 1
            BY <3>2, <3>3, FS_Subset
      <3>5. Cardinality(InFlight(e)') \in Nat
            BY <3>4, FS_CardinalityType
      <3> QED  BY <1>9, <2>1, <2>2, <2>4, <3>1, <3>4, <3>5 DEF Balance
    <2> QED  BY <2>3, <2>4
  <1>16. UNCHANGED <<lease, grants>>
        BY <1>7
  <1> QED  BY <1>3, <1>5, <1>10, <1>11, <1>12, <1>13, <1>14, <1>15, <1>16, Assemble

\* A step that only records a status that is no verdict of the broker.
LEMMA RecordsOnly ==
    ASSUME RuntimeInv, NEW p \in Procs, NEW state \in States,
           proc' = [proc EXCEPT ![p] = state],
           UNCHANGED <<lease, grants, revision, terminal, effects, outcomes, receipts, outside>>,
           NEW e \in Effects, NEW s \in Requestable, s \notin {"CONFIRMED", "REJECTED"},
           Accepts(idem[e], s), Record(e, s), Knows(p)',
           state.at \in {"check", "call"} =>
             proc[p].at \in {"check", "call"} /\ state.effect = proc[p].effect
    PROVE  RuntimeInv'
  <1>1. TypeOK /\ RowTypes
        BY RowsAreTyped DEF RuntimeInv
  <1>2. idem' \in [Effects -> Statuses] /\ permits' \in [Effects -> Nat]
        BY <1>1, RecordFacts
  <1>3. RowTypes'
        BY <1>1, <1>2 DEF RowTypes, outside
  <1>4. UNCHANGED <<lease, grants, outside>>
        OBVIOUS
  <1>5. \A f \in Effects : effects[f] # "NONE" => effects'[f] # "NONE"
        OBVIOUS
  <1> QED  BY <1>3, <1>4, <1>5, RecordsStatus

\* The last look before the call.
LEMMA CheckHolds ==
    ASSUME RuntimeInv, NEW p \in Procs, Check(p)
    PROVE  RuntimeInv'
  <1>0. PICK e \in Effects : e = proc[p].effect
        BY OnItsWay DEF Check, At
  <1>1. TypeOK /\ Knows(p)
        BY OnItsWay DEF Check, At
  <1>2. PICK state \in States :
          /\ proc' = [proc EXCEPT ![p] = state] /\ proc'[p] = state
          /\ state.at = "call" /\ state.effect = e
        BY <1>0, GoesTo DEF Check, Steps
  <1>3. Accepts(idem[e], "SUBMITTED") /\ Record(e, "SUBMITTED") /\ "SUBMITTED" \in Requestable
        BY <1>0 DEF Check, Requestable, Statuses
  <1>4. UNCHANGED <<lease, grants, revision, terminal, effects, outcomes, receipts, outside>>
        BY DEF Check
  <1>5. Past(e)' /\ effects'[e] # "NONE"
        BY <1>0, <1>1, <1>3, <1>4, RecordFacts DEF Check, Knows
  <1>6. Knows(p)'
        BY <1>2, <1>5 DEF Knows, At
  <1>7. proc[p].at = "check" /\ state.effect = proc[p].effect
        BY <1>0, <1>2 DEF Check, At
  <1> QED  BY <1>2, <1>3, <1>4, <1>6, <1>7, RecordsOnly

\* A process that is done, or has thrown.
LEMMA Rests ==
    ASSUME RuntimeInv, NEW p \in Procs, Rest(p)
    PROVE  proc' = [proc EXCEPT ![p] = Idle] /\ Knows(p)'
  <1>1. proc' = [proc EXCEPT ![p] = Idle]
        BY DEF Rest
  <1>2. proc'[p] = Idle
        BY <1>1, IdleIsState, ProcessMoves DEF RuntimeInv
  <1> QED  BY <1>1, <1>2, IdleIsState DEF Knows, At

LEMMA RespondUnknownHolds ==
    ASSUME RuntimeInv, NEW p \in Procs, RespondUnknown(p)
    PROVE  RuntimeInv'
  <1>1. PICK e \in Effects : e = proc[p].effect
        BY OnItsWay DEF RespondUnknown, At
  <1>2. /\ Accepts(idem[e], "OUTCOME_UNKNOWN") /\ Record(e, "OUTCOME_UNKNOWN")
        /\ UNCHANGED <<lease, grants, revision, terminal, effects, outcomes, receipts, outside>>
        BY <1>1 DEF RespondUnknown
  <1>3. proc' = [proc EXCEPT ![p] = Idle] /\ Knows(p)'
        BY Rests DEF RespondUnknown
  <1>4. "OUTCOME_UNKNOWN" \in Requestable
        BY DEF Requestable, Statuses
  <1> QED  BY <1>2, <1>3, <1>4, IdleIsState, RecordsOnly

LEMMA RespondRetrySafeHolds ==
    ASSUME RuntimeInv, NEW p \in Procs, RespondRetrySafe(p)
    PROVE  RuntimeInv'
  <1>1. PICK e \in Effects : e = proc[p].effect
        BY OnItsWay DEF RespondRetrySafe, At
  <1>2. /\ Accepts(idem[e], "RETRY_AUTHORIZED") /\ Record(e, "RETRY_AUTHORIZED")
        /\ UNCHANGED <<lease, grants, revision, terminal, effects, outcomes, receipts, outside>>
        BY <1>1 DEF RespondRetrySafe
  <1>3. proc' = [proc EXCEPT ![p] = Idle] /\ Knows(p)'
        BY Rests DEF RespondRetrySafe
  <1>4. "RETRY_AUTHORIZED" \in Requestable
        BY DEF Requestable, Statuses
  <1> QED  BY <1>2, <1>3, <1>4, IdleIsState, RecordsOnly

LEMMA PreflightHolds ==
    ASSUME RuntimeInv, NEW p \in Procs, Preflight(p)
    PROVE  RuntimeInv'
  <1>1. PICK e \in Effects : e = proc[p].effect
        BY OnItsWay DEF Preflight, At
  <1>2. /\ Accepts(idem[e], "OUTCOME_UNKNOWN") /\ Record(e, "OUTCOME_UNKNOWN")
        /\ UNCHANGED <<lease, grants, revision, terminal, effects, outcomes, receipts, outside>>
        BY <1>1 DEF Preflight
  <1>3. PICK state \in States :
          /\ proc' = [proc EXCEPT ![p] = state] /\ proc'[p] = state
          /\ state.at = "observe" /\ state.effect = e
        BY <1>1, GoesTo DEF Preflight, Steps
  <1>4. Knows(p)'
        BY <1>3 DEF Knows, At
  <1>5. "OUTCOME_UNKNOWN" \in Requestable
        BY DEF Requestable, Statuses
  <1> QED  BY <1>2, <1>3, <1>4, <1>5, RecordsOnly

\* A commit is made in the name of a lease, so its receipt has a real fence.
LEMMA CommitIsTyped ==
    ASSUME TypeOK, NEW p \in Procs, LeaseActive(p), NEW e \in Effects,
           NEW kind \in {"INTENT", "ADOPTION", "TERMINAL"}, NEW key \in Keys \cup {NoOne},
           NEW next \in Effects \cup {NoOne}, Commit(p, kind, e, key, next)
    PROVE  /\ revision' \in Nat
           /\ receipts' \subseteq [kind : {"INTENT", "ADOPTION", "TERMINAL"},
                                   effect : Effects, key : Keys \cup {NoOne},
                                   next : Effects \cup {NoOne}, revision : Nat, owner : Owners, fence : Fences]
  <1>1. proc[p].fence \in Fences /\ OwnerOf[p] \in Owners
        BY RuntimeAssumption DEF RuntimeAssumption, LeaseActive, TypeOK
  <1>2. proc[p].revision + 1 \in Nat
        BY DEF TypeOK
  <1> QED  BY <1>1, <1>2 DEF Commit, TypeOK

\* The session is closed with its effect.
LEMMA RespondTerminalHolds ==
    ASSUME RuntimeInv, NEW p \in Procs, RespondTerminal(p)
    PROVE  RuntimeInv'
  <1>1. PICK e \in Effects : e = proc[p].effect
        BY OnItsWay DEF RespondTerminal, At
  <1>2. TypeOK /\ RowTypes
        BY OnItsWay DEF RespondTerminal, At
  <1>3. /\ Accepts(idem[e], "FAILED_NOT_SUBMITTED") /\ Record(e, "FAILED_NOT_SUBMITTED")
        /\ "FAILED_NOT_SUBMITTED" \in Requestable
    <2>1. idem[e] = "SUBMITTED" /\ Record(e, "FAILED_NOT_SUBMITTED")
          BY <1>1 DEF RespondTerminal
    <2> QED  BY <2>1 DEF Accepts, Applies, LegalEdges, Requestable, Statuses
  <1>4. /\ UNCHANGED <<lease, grants, outcomes, outside>>
        /\ effects' = [effects EXCEPT ![e] = "TERMINAL"] /\ terminal' = TRUE
        /\ Commit(p, "TERMINAL", e, NoOne, NoOne) /\ LeaseActive(p)
        BY <1>1 DEF RespondTerminal, Fenced, Authorized
  <1>5. proc' = [proc EXCEPT ![p] = Idle] /\ Knows(p)'
        BY Rests DEF RespondTerminal
  <1>6. idem' \in [Effects -> Statuses] /\ permits' \in [Effects -> Nat]
        BY <1>2, <1>3, RecordFacts
  <1>7. /\ revision' \in Nat
        /\ receipts' \subseteq [kind : {"INTENT", "ADOPTION", "TERMINAL"},
                                effect : Effects, key : Keys \cup {NoOne},
                                next : Effects \cup {NoOne}, revision : Nat, owner : Owners, fence : Fences]
        BY <1>2, <1>4, CommitIsTyped
  <1>8. /\ effects' \in [Effects -> {"NONE", "PENDING", "ADOPTED", "TERMINAL"}]
        /\ \A f \in Effects : effects[f] # "NONE" => effects'[f] # "NONE"
        BY <1>2, <1>4 DEF RowTypes
  <1>9. RowTypes'
        BY <1>2, <1>4, <1>6, <1>7, <1>8 DEF RowTypes, outside
  <1>10. outcomes' = outcomes /\ UNCHANGED <<lease, grants, outside>>
        BY <1>4
  <1> QED  BY <1>3, <1>5, <1>8, <1>9, <1>10, IdleIsState, RecordsStatus

\* A stored outcome: true, alone of its kind, and in step with its record.
LEMMA PersistHolds ==
    ASSUME RuntimeInv, NEW p \in Procs, ~At(p, "idle"), NEW state \in States,
           proc' = [proc EXCEPT ![p] = state], Knows(p)', state.at \notin {"check", "call"},
           NEW kind \in {"CANONICAL", "DISPOSITION"}, NEW says \in Verdicts, NEW key \in Keys,
           Persist(p, kind, says, key),
           kind = "CANONICAL" => says \in {"ACCEPTED", "REJECTED"},
           says \in {"ACCEPTED", "REJECTED"} => broker[proc[p].effect] = says
    PROVE  RuntimeInv'
  <1>1. PICK e \in Effects : e = proc[p].effect
        BY OnItsWay
  <1>2. TypeOK /\ RowTypes /\ OutcomesAreTrue
        BY OnItsWay
  <1> DEFINE s == StatusOf(says)
             new == [key |-> key, effect |-> e, kind |-> kind, says |-> says,
                     fence |-> proc[p].fence]
  <1>3. /\ LeaseActive(p) /\ Accepts(idem[e], s) /\ Record(e, s)
        /\ \A o \in outcomes : o.effect = e => Compatible(o, new)
        /\ outcomes' = outcomes \cup {new}
        /\ UNCHANGED <<lease, grants, revision, terminal, effects, receipts, outside>>
        BY <1>1 DEF Persist, Fenced, Authorized
  <1>4. /\ s \in Requestable
        /\ s = "CONFIRMED" => says = "ACCEPTED"
        /\ s = "REJECTED" => says = "REJECTED"
        BY DEF StatusOf, Verdicts, Requestable, Statuses
  <1>5. proc[p].fence \in Fences
        BY <1>2, <1>3 DEF LeaseActive, TypeOK
  <1>6. new \in [key : Keys, effect : Effects, says : Verdicts,
                 kind : {"CANONICAL", "DISPOSITION"}, fence : Fences]
        BY <1>5
  <1>7. /\ new.effect = e /\ new.kind = kind /\ new.says = says
        OBVIOUS
  <1> HIDE DEF s, new
  <1>8. /\ idem' \in [Effects -> Statuses] /\ permits' \in [Effects -> Nat]
        /\ idem'[e] = s /\ \A f \in Effects \ {e} : idem'[f] = idem[f]
        BY <1>2, <1>3, <1>4, RecordFacts
  <1>9. RowTypes'
        BY <1>2, <1>3, <1>6, <1>8 DEF RowTypes, outside
  <1>10. broker' = broker
        BY <1>3 DEF outside
  <1>11. ASSUME NEW o \in outcomes, o.effect = e, o.kind = "CANONICAL", kind = "CANONICAL"
         PROVE  o = new
         BY <1>3, <1>7, <1>11 DEF Compatible
  <1>12. OutcomesAreTrue'
    <2> SUFFICES ASSUME NEW f \in Effects
                 PROVE  LET canonical == {o \in outcomes' : o.effect = f /\ o.kind = "CANONICAL"}
                        IN  /\ \A o \in canonical : o.says = broker'[f]
                            /\ \A o, q \in canonical : o = q
                            /\ idem'[f] = "CONFIRMED" => broker'[f] = "ACCEPTED"
                            /\ idem'[f] = "REJECTED" => broker'[f] = "REJECTED"
        BY DEF OutcomesAreTrue
    <2>1. /\ \A o \in outcomes : o.effect = f /\ o.kind = "CANONICAL" => o.says = broker[f]
          /\ \A o, q \in outcomes : /\ o.effect = f /\ o.kind = "CANONICAL"
                                    /\ q.effect = f /\ q.kind = "CANONICAL"
                                    => o = q
          /\ idem[f] = "CONFIRMED" => broker[f] = "ACCEPTED"
          /\ idem[f] = "REJECTED" => broker[f] = "REJECTED"
          BY <1>2 DEF OutcomesAreTrue
    <2>2. ASSUME NEW o \in outcomes', o.effect = f, o.kind = "CANONICAL"
          PROVE  o.says = broker'[f]
          BY <1>1, <1>3, <1>7, <1>10, <2>1, <2>2
    <2>3. ASSUME NEW o \in outcomes', o.effect = f, o.kind = "CANONICAL",
                 NEW q \in outcomes', q.effect = f, q.kind = "CANONICAL"
          PROVE  o = q
          BY <1>3, <1>7, <1>11, <2>1, <2>3
    <2>4. /\ idem'[f] = "CONFIRMED" => broker'[f] = "ACCEPTED"
          /\ idem'[f] = "REJECTED" => broker'[f] = "REJECTED"
      <3>1. CASE f = e
            BY <1>1, <1>4, <1>8, <1>10, <3>1
      <3>2. CASE f # e
            BY <1>8, <1>10, <2>1, <3>2
      <3> QED  BY <3>1, <3>2
    <2> QED  BY <2>2, <2>3, <2>4
  <1>13. UNCHANGED <<lease, grants, outside>> /\ effects' = effects
         BY <1>3
  <1> QED  BY <1>3, <1>4, <1>9, <1>12, <1>13, RecordsStatus

\* Of the adapter's answer and of the provider's, what is canonical: stored,
\* and on to its adoption.
LEMMA ToAdopt ==
    ASSUME RuntimeInv, NEW p \in Procs, ~At(p, "idle"), NEW key \in Keys,
           proc' = [proc EXCEPT ![p].at = "adopt", ![p].key = key]
    PROVE  \E state \in States : /\ proc' = [proc EXCEPT ![p] = state]
                                 /\ state.at = "adopt" /\ Knows(p)'
  <1> DEFINE state == [proc[p] EXCEPT !.at = "adopt", !.key = key]
  <1>1. TypeOK /\ proc[p] \in States /\ proc[p].effect \in Effects
        BY OnItsWay
  <1>2. state \in States
        BY <1>1 DEF States, Steps
  <1>3. proc' = [proc EXCEPT ![p] = state]
        OBVIOUS
  <1>4. state.at = "adopt" /\ state.effect = proc[p].effect /\ state.key = key
        BY <1>1 DEF States
  <1> HIDE DEF state
  <1>5. proc'[p] = state
        BY <1>1, <1>2, <1>3, ProcessMoves
  <1>6. Knows(p)'
        BY <1>1, <1>4, <1>5 DEF Knows, At
  <1> QED  BY <1>2, <1>3, <1>4, <1>6

LEMMA RespondCanonicalHolds ==
    ASSUME RuntimeInv, NEW p \in Procs, NEW key \in Keys, RespondCanonical(p, key)
    PROVE  RuntimeInv'
  <1>1. At(p, "respond") /\ ~At(p, "idle") /\ Knows(p)
        BY OnItsWay DEF RespondCanonical, At
  <1>2. /\ proc[p].said \in {"ACCEPTED", "REJECTED"}
        /\ Persist(p, "CANONICAL", proc[p].said, key)
        BY DEF RespondCanonical
  <1>3. proc[p].said \in Verdicts /\ broker[proc[p].effect] = proc[p].said
        BY <1>1, <1>2 DEF Knows, Verdicts
  <1>4. PICK state \in States : /\ proc' = [proc EXCEPT ![p] = state]
                                /\ state.at = "adopt" /\ Knows(p)'
        BY <1>1, ToAdopt DEF RespondCanonical
  <1>5. PICK says \in Verdicts : says = proc[p].said
        BY <1>3
  <1>6. Persist(p, "CANONICAL", says, key)
        BY <1>2, <1>5
  <1> QED  BY <1>1, <1>2, <1>3, <1>4, <1>5, <1>6, PersistHolds

LEMMA StoreCanonicalRejectionHolds ==
    ASSUME RuntimeInv, NEW p \in Procs, NEW key \in Keys, StoreCanonicalRejection(p, key)
    PROVE  RuntimeInv'
  <1>1. At(p, "store") /\ ~At(p, "idle") /\ Knows(p)
        BY OnItsWay DEF StoreCanonicalRejection, At
  <1>2. Persist(p, "CANONICAL", "REJECTED", key) /\ broker[proc[p].effect] = "REJECTED"
        BY <1>1 DEF StoreCanonicalRejection, Knows
  <1>3. PICK state \in States : /\ proc' = [proc EXCEPT ![p] = state]
                                /\ state.at = "adopt" /\ Knows(p)'
        BY <1>1, ToAdopt DEF StoreCanonicalRejection
  <1>4. "REJECTED" \in Verdicts
        BY DEF Verdicts
  <1> QED  BY <1>1, <1>2, <1>3, <1>4, PersistHolds

LEMMA StoreDispositionHolds ==
    ASSUME RuntimeInv, NEW p \in Procs, NEW key \in Keys, StoreDisposition(p, key)
    PROVE  RuntimeInv'
  <1>1. At(p, "store") /\ ~At(p, "idle") /\ Knows(p)
        BY OnItsWay DEF StoreDisposition, At
  <1>2. PICK says \in Verdicts : says = proc[p].said
        BY DEF StoreDisposition
  <1>3. Persist(p, "DISPOSITION", says, key)
        BY <1>2 DEF StoreDisposition
  <1>4. says \in {"ACCEPTED", "REJECTED"} => broker[proc[p].effect] = says
        BY <1>1, <1>2 DEF Knows
  <1>5. proc' = [proc EXCEPT ![p] = Idle] /\ Knows(p)'
        BY Rests DEF StoreDisposition
  <1> QED  BY <1>1, <1>3, <1>4, <1>5, IdleIsState, PersistHolds

\* A commit that moves effects on and records nothing of their requests.
LEMMA CommitsEffect ==
    ASSUME RuntimeInv, NEW p \in Procs, LeaseActive(p), Rest(p), NEW e \in Effects,
           NEW kind \in {"INTENT", "ADOPTION", "TERMINAL"}, NEW key \in Keys \cup {NoOne},
           NEW next \in Effects \cup {NoOne}, Commit(p, kind, e, key, next),
           effects' \in [Effects -> {"NONE", "PENDING", "ADOPTED", "TERMINAL"}],
           \A f \in Effects : effects[f] # "NONE" => effects'[f] # "NONE",
           UNCHANGED <<lease, grants, terminal, idem, outcomes, outside, permits>>
    PROVE  RuntimeInv'
  <1>1. TypeOK /\ RowTypes /\ OutcomesAreTrue
        BY RowsAreTyped DEF RuntimeInv
  <1>2. proc' = [proc EXCEPT ![p] = Idle] /\ Knows(p)'
        BY Rests
  <1>3. /\ revision' \in Nat
        /\ receipts' \subseteq [kind : {"INTENT", "ADOPTION", "TERMINAL"},
                                effect : Effects, key : Keys \cup {NoOne},
                                next : Effects \cup {NoOne}, revision : Nat,
                                owner : Owners, fence : Fences]
        BY <1>1, CommitIsTyped
  <1>4. RowTypes'
        BY <1>1, <1>3 DEF RowTypes, outside
  <1>5. Onward
        BY DEF Onward, Past, outside
  <1>6. OutcomesAreTrue'
        BY <1>1, <1>5, OutcomesStay
  <1>7. \A f \in Effects : Unpaid(f)' + permits[f] =< Unpaid(f) + permits'[f]
    <2>1. ASSUME NEW f \in Effects
          PROVE  Unpaid(f)' = Unpaid(f) /\ permits'[f] = permits[f] /\ permits[f] \in Nat
          BY <1>1 DEF Unpaid, RowTypes
    <2> QED  BY <2>1 DEF Unpaid
  <1>8. UNCHANGED <<lease, grants, outside>>
        OBVIOUS
  <1> QED  BY <1>2, <1>4, <1>5, <1>6, <1>7, <1>8, IdleIsState, AssembleQuietly

LEMMA CommitIntentHolds ==
    ASSUME RuntimeInv, NEW p \in Procs, CommitIntent(p)
    PROVE  RuntimeInv'
  <1>1. PICK e \in Effects : e = proc[p].effect
        BY OnItsWay DEF CommitIntent, At
  <1>2. /\ LeaseActive(p) /\ Rest(p) /\ effects' = [effects EXCEPT ![e] = "PENDING"]
        /\ Commit(p, "INTENT", e, NoOne, NoOne)
        /\ UNCHANGED <<lease, grants, terminal, idem, outcomes, outside, permits>>
        BY <1>1 DEF CommitIntent, Authorized
  <1>3. /\ effects' \in [Effects -> {"NONE", "PENDING", "ADOPTED", "TERMINAL"}]
        /\ \A f \in Effects : effects[f] # "NONE" => effects'[f] # "NONE"
        BY <1>2 DEF RuntimeInv, TypeOK
  <1> QED  BY <1>2, <1>3, CommitsEffect

\* What an adoption makes of the effects: its own is adopted, and the one that
\* is let follow was not asked for before and is pending now.
LEMMA AdoptionMoves ==
    ASSUME TypeOK, NEW p \in Procs, NEW next \in Effects \cup {NoOne}, Adopt(p, next),
           NEW e \in Effects, e = proc[p].effect
    PROVE  /\ effects' \in [Effects -> {"NONE", "PENDING", "ADOPTED", "TERMINAL"}]
           /\ effects[e] = "PENDING" /\ effects'[e] = "ADOPTED"
           /\ next # NoOne => /\ next \in Effects /\ next # e
                              /\ effects[next] = "NONE" /\ effects'[next] = "PENDING"
           /\ \A f \in Effects \ {e, next} : effects'[f] = effects[f]
  <1>1. /\ effects[e] = "PENDING"
        /\ effects' = [f \in Effects |-> CASE f = e -> "ADOPTED"
                                           [] f = next -> "PENDING"
                                           [] OTHER -> effects[f]]
        BY DEF Adopt, Fenced
  <1>2. next # NoOne => next \in Effects /\ effects[next] = "NONE"
        BY DEF Adopt, Follows
  <1>3. next # e
        BY <1>1, <1>2, RuntimeAssumption DEF RuntimeAssumption
  <1>4. /\ effects'[e] = "ADOPTED"
        /\ next \in Effects /\ next # e => effects'[next] = "PENDING"
        /\ \A f \in Effects \ {e, next} : effects'[f] = effects[f]
    <2>1. effects'[e] = "ADOPTED"
          BY <1>1, <1>3
    <2>2. ASSUME NEW f \in Effects, f # e, f = next  PROVE effects'[f] = "PENDING"
          BY <1>1, <2>2
    <2>3. ASSUME NEW f \in Effects, f # e, f # next  PROVE effects'[f] = effects[f]
          BY <1>1, <2>3
    <2> QED  BY <2>1, <2>2, <2>3
  <1>5. effects' \in [Effects -> {"NONE", "PENDING", "ADOPTED", "TERMINAL"}]
    <2>1. \A f \in Effects : effects[f] \in {"NONE", "PENDING", "ADOPTED", "TERMINAL"}
          BY DEF TypeOK
    <2>2. \A f \in Effects :
            (CASE f = e -> "ADOPTED" [] f = next -> "PENDING" [] OTHER -> effects[f])
              \in {"NONE", "PENDING", "ADOPTED", "TERMINAL"}
          BY <2>1
    <2> QED  BY <1>1, <2>2
  <1> QED  BY <1>1, <1>2, <1>3, <1>4, <1>5

LEMMA AdoptHolds ==
    ASSUME RuntimeInv, NEW p \in Procs, NEW next \in Effects \cup {NoOne}, Adopt(p, next)
    PROVE  RuntimeInv'
  <1>1. PICK e \in Effects : e = proc[p].effect
        BY OnItsWay DEF Adopt, At
  <1>2. PICK key \in Keys : key = proc[p].key
        BY OnItsWay DEF Adopt, At, Knows
  <1>3. /\ LeaseActive(p) /\ Rest(p) /\ Commit(p, "ADOPTION", e, key, next)
        /\ UNCHANGED <<lease, grants, terminal, idem, outcomes, outside, permits>>
        BY <1>1, <1>2 DEF Adopt, Fenced, Authorized
  <1>4. /\ effects' \in [Effects -> {"NONE", "PENDING", "ADOPTED", "TERMINAL"}]
        /\ effects[e] = "PENDING" /\ effects'[e] = "ADOPTED"
        /\ next # NoOne => effects'[next] = "PENDING"
        /\ \A f \in Effects \ {e, next} : effects'[f] = effects[f]
        BY <1>1, AdoptionMoves DEF RuntimeInv
  <1>5. \A f \in Effects : effects[f] # "NONE" => effects'[f] # "NONE"
        BY <1>4, RuntimeAssumption DEF RuntimeAssumption
  <1> QED  BY <1>3, <1>4, <1>5, CommitsEffect
-----------------------------------------------------------------------------
(* All of it.                                                                  *)

\* The lease comes and goes without the rows.
LEMMA LeaseHolds ==
    ASSUME RuntimeInv,
           lease' \in [owner : Owners \cup {NoOne}, fence : Fences, live : BOOLEAN],
           lease'.live => lease'.owner # NoOne,
           grants' \subseteq [owner : Owners, fence : Fences],
           UNCHANGED <<revision, terminal, effects, idem, outcomes, receipts,
                       outside, permits, proc>>
    PROVE  RuntimeInv'
  <1>1. UNCHANGED <<broker, calls, unguarded>>
        BY DEF outside
  <1>2. TypeOK'
        BY <1>1 DEF RuntimeInv, TypeOK
  <1>3. \A p \in Procs : Knows(p)'
        BY <1>1 DEF RuntimeInv, Knows, At, Past
  <1>4. \A e \in Effects : Balance(e)'
        BY <1>1 DEF RuntimeInv, Balance, InFlight, Unpaid
  <1>5. NoForgottenCall'
        BY <1>1 DEF RuntimeInv, NoForgottenCall
  <1>6. OutcomesAreTrue'
        BY <1>1 DEF RuntimeInv, OutcomesAreTrue
  <1> QED  BY <1>2, <1>3, <1>4, <1>5, <1>6 DEF RuntimeInv

LEMMA AcquireHolds ==
    ASSUME RuntimeInv, NEW p \in Procs, Acquire(p)
    PROVE  RuntimeInv'
  <1>1. lease.fence + 1 \in Fences /\ OwnerOf[p] \in Owners
        BY RuntimeAssumption DEF RuntimeAssumption, RuntimeInv, TypeOK, Acquire, Fences
  <1>2. /\ lease' \in [owner : Owners \cup {NoOne}, fence : Fences, live : BOOLEAN]
        /\ lease'.owner # NoOne
        BY <1>1, RuntimeAssumption DEF RuntimeAssumption, Acquire
  <1>3. grants' \subseteq [owner : Owners, fence : Fences]
        BY <1>1 DEF RuntimeInv, TypeOK, Acquire
  <1> QED  BY <1>2, <1>3, LeaseHolds DEF Acquire

LEMMA LapseHolds ==
    ASSUME RuntimeInv, Lapse
    PROVE  RuntimeInv'
  <1>1. /\ lease' \in [owner : Owners \cup {NoOne}, fence : Fences, live : BOOLEAN]
        /\ ~lease'.live /\ grants' \subseteq [owner : Owners, fence : Fences]
        BY DEF RuntimeInv, TypeOK, Lapse
  <1> QED  BY <1>1, LeaseHolds DEF Lapse

\* A boot, or the load of the effect whose intent is to be committed.
LEMMA BootHolds ==
    ASSUME RuntimeInv, NEW p \in Procs,
           \/ \E e \in Effects : LoadForIntent(p, e) \/ ReconcileBoot(p, e)
           \/ \E e \in Effects, retry \in BOOLEAN : SubmitBoot(p, e, retry)
           \/ \E o \in outcomes : AdoptBoot(p, o)
    PROVE  RuntimeInv'
  <1>1. ASSUME NEW e \in Effects, LoadForIntent(p, e)  PROVE RuntimeInv'
        BY <1>1, StartHolds DEF LoadForIntent
  <1>2. ASSUME NEW e \in Effects, ReconcileBoot(p, e)  PROVE RuntimeInv'
        BY <1>2, StartHolds DEF ReconcileBoot
  <1>3. ASSUME NEW e \in Effects, NEW retry \in BOOLEAN, SubmitBoot(p, e, retry)
        PROVE  RuntimeInv'
        BY <1>3, StartHolds DEF SubmitBoot
  <1>4. ASSUME NEW o \in outcomes, AdoptBoot(p, o)  PROVE RuntimeInv'
    <2>1. PICK e \in Effects, key \in Keys : e = o.effect /\ key = o.key
          BY <1>4 DEF RuntimeInv, TypeOK
    <2>2. Start(p, "adopt", e, FALSE, key) /\ UNCHANGED <<durable, outside, permits>>
          BY <1>4, <2>1 DEF AdoptBoot
    <2> QED  BY <2>1, <2>2, StartHolds
  <1> QED  BY <1>1, <1>2, <1>3, <1>4

LEMMA RuntimeInit == Init => RuntimeInv
  <1> SUFFICES ASSUME Init  PROVE RuntimeInv
      OBVIOUS
  <1>1. \A p \in Procs : proc[p] = Idle
        BY DEF Init
  <1>2. 1 \in Fences
        BY RuntimeAssumption DEF RuntimeAssumption, Fences
  <1>3. TypeOK
    <2>1. proc \in [Procs -> States]
          BY IdleIsState DEF Init
    <2>2. lease \in [owner : Owners \cup {NoOne}, fence : Fences, live : BOOLEAN] /\ ~lease.live
          BY <1>2 DEF Init
    <2>3. idem \in [Effects -> Statuses]
          BY DEF Init, Statuses
    <2> QED  BY <2>1, <2>2, <2>3 DEF Init, TypeOK, States
  <1>4. \A p \in Procs : Knows(p)
        BY <1>1, IdleIsState DEF Knows, At
  <1>5. ASSUME NEW e \in Effects  PROVE Balance(e)
    <2>1. InFlight(e) = {}
          BY <1>1, IdleIsState DEF InFlight
    <2>2. IsFiniteSet({}) /\ Cardinality({}) = 0
          BY FS_EmptySet
    <2>3. calls[e] = 0 /\ permits[e] = 0 /\ Unpaid(e) = 1
          BY DEF Init, Unpaid
    <2> QED  BY <2>1, <2>2, <2>3 DEF Balance
  <1>6. NoForgottenCall /\ OutcomesAreTrue
        BY DEF Init, NoForgottenCall, OutcomesAreTrue
  <1> QED  BY <1>3, <1>4, <1>5, <1>6 DEF RuntimeInv

LEMMA RuntimeNext == RuntimeInv /\ [Next]_vars => RuntimeInv'
  <1> SUFFICES ASSUME RuntimeInv, [Next]_vars  PROVE RuntimeInv'
      OBVIOUS
  <1>1. CASE Lapse
        BY <1>1, LapseHolds
  <1>2. ASSUME NEW p \in Procs,
               Acquire(p) \/ Crash(p) \/ (\E e \in Effects : LoadForIntent(p, e)) \/ CommitIntent(p)
        PROVE  RuntimeInv'
        BY <1>2, AcquireHolds, CrashHolds, BootHolds, CommitIntentHolds
  <1>3. ASSUME NEW p \in Procs, Submit(p)  PROVE RuntimeInv'
    <2>1. CASE \E e \in Effects, retry \in BOOLEAN : SubmitBoot(p, e, retry)
          BY <2>1, BootHolds
    <2>2. CASE Claim(p) \/ Mark(p) \/ Check(p)
          BY <2>2, ClaimHolds, MarkHolds, CheckHolds
    <2>3. CASE \E reply \in Replies : Invoke(p, reply)
          BY <2>3, InvokeHolds
    <2>4. CASE RespondUnknown(p) \/ RespondRetrySafe(p) \/ RespondTerminal(p)
          BY <2>4, RespondUnknownHolds, RespondRetrySafeHolds, RespondTerminalHolds
    <2>5. CASE \E key \in Keys : RespondCanonical(p, key)
          BY <2>5, RespondCanonicalHolds
    <2> QED  BY <1>3, <2>1, <2>2, <2>3, <2>4, <2>5 DEF Submit
  <1>4. ASSUME NEW p \in Procs, AdoptAvailable(p)  PROVE RuntimeInv'
        BY <1>4, BootHolds, AdoptHolds DEF AdoptAvailable
  <1>5. ASSUME NEW p \in Procs, Reconcile(p)  PROVE RuntimeInv'
    <2>1. CASE \E e \in Effects : ReconcileBoot(p, e)
          BY <2>1, BootHolds
    <2>2. CASE Preflight(p)
          BY <2>2, PreflightHolds
    <2>3. CASE \E answer \in Answers : Observe(p, answer)
          BY <2>3, ObserveHolds
    <2>4. CASE \E key \in Keys : StoreDisposition(p, key) \/ StoreCanonicalRejection(p, key)
          BY <2>4, StoreDispositionHolds, StoreCanonicalRejectionHolds
    <2> QED  BY <1>5, <2>1, <2>2, <2>3, <2>4 DEF Reconcile
  <1>6. CASE UNCHANGED vars
    <2>1. UNCHANGED <<lease, grants>> /\ TypeOK
          BY <1>6 DEF vars, RuntimeInv
    <2>2. UNCHANGED <<revision, terminal, effects, idem, outcomes, receipts,
                      outside, permits, proc>>
          BY <1>6 DEF vars, outside
    <2> QED  BY <2>1, <2>2, LeaseHolds DEF TypeOK
  <1> QED  BY <1>1, <1>2, <1>3, <1>4, <1>5, <1>6 DEF Next

THEOREM RuntimeInvHolds == Spec => []RuntimeInv
  BY RuntimeInit, RuntimeNext, PTL DEF Spec

\* Whatever dies, lapses or is lost, the runtime calls the broker once for an
\* effect and once more for each retry that was authorised (Mark before Invoke).
THEOREM CallBudgetHolds == Spec => []CallBudget
  <1>1. RuntimeInv => CallBudget
    <2> SUFFICES ASSUME RuntimeInv, NEW e \in Effects  PROVE calls[e] <= 1 + permits[e]
        BY DEF CallBudget
    <2>1. calls[e] \in Nat /\ permits[e] \in Nat
          BY DEF RuntimeInv, TypeOK
    <2>2. Balance(e) /\ Cardinality(InFlight(e)) \in Nat /\ Unpaid(e) \in Nat
          BY FS_CardinalityType DEF RuntimeInv, Balance, Unpaid
    <2> QED  BY <2>1, <2>2 DEF Balance
  <1> QED  BY <1>1, RuntimeInvHolds, PTL

\* What the broker has done, a durable record of a submission stands for (Mark
\* and Check before Invoke; no edge leads back to CLAIMED).
THEOREM NoForgottenCallHolds == Spec => []NoForgottenCall
  <1>1. RuntimeInv => NoForgottenCall
        BY DEF RuntimeInv
  <1> QED  BY <1>1, RuntimeInvHolds, PTL

\* The stored canonical outcomes and the settled records say what the broker
\* did, and no two canonical outcomes compete (Persist and compatible()).
THEOREM OutcomesAreTrueHolds == Spec => []OutcomesAreTrue
  <1>1. RuntimeInv => OutcomesAreTrue
        BY DEF RuntimeInv
  <1> QED  BY <1>1, RuntimeInvHolds, PTL

\* Every variable keeps the shape of its table.
THEOREM RuntimeTypeOK == Spec => []TypeOK
  <1>1. RuntimeInv => TypeOK
        BY DEF RuntimeInv
  <1> QED  BY <1>1, RuntimeInvHolds, PTL
-----------------------------------------------------------------------------
(* The rows of a commit stand or fall together.                                *)

\* A canonical outcome of e has the key.
Grounded(e, key) == \E o \in outcomes : o.key = key /\ o.effect = e /\ o.kind = "CANONICAL"
Receipted(e, kind) == \E r \in receipts : r.effect = e /\ r.kind = kind

\* The receipt made e pending: that of its intent, or of another's adoption.
\* The receipt resolved it.
Creates(r, e)  == (r.kind = "INTENT" /\ r.effect = e) \/ r.next = e
Resolves(r, e) == r.kind # "INTENT" /\ r.effect = e

\* The row of an effect and its receipts: one that made it pending, one of its end.
EffectRows(e) ==
  /\ effects[e] # "NONE" <=> \E r \in receipts : Creates(r, e)
  /\ effects[e] = "ADOPTED" <=> Receipted(e, "ADOPTION")
  /\ effects[e] = "TERMINAL" <=> Receipted(e, "TERMINAL")
  /\ effects[e] = "TERMINAL" => terminal /\ idem[e] = "FAILED_NOT_SUBMITTED"
  /\ \A r \in receipts : r.effect = e /\ r.kind = "ADOPTION" => Grounded(e, r.key)
  /\ \A q, r \in receipts : Creates(q, e) /\ Creates(r, e) => q = r
  /\ \A q, r \in receipts : Resolves(q, e) /\ Resolves(r, e) => q = r

\* The revision of the recovery row counts the receipts and numbers them.
Numbered ==
  /\ IsFiniteSet(receipts) /\ Cardinality(receipts) = revision
  /\ \A r \in receipts : 1 <= r.revision /\ r.revision <= revision
  /\ \A q, r \in receipts : q.revision = r.revision => q = r

\* Whoever adopts has an outcome to adopt.
AdoptionsGrounded ==
  \A p \in Procs : At(p, "adopt") => Grounded(proc[p].effect, proc[p].key)

\* The live lease was granted.
LeaseIsGranted == lease.live => [owner |-> lease.owner, fence |-> lease.fence] \in grants

RowsInv ==
  /\ \A e \in Effects : EffectRows(e)
  /\ terminal => \E e \in Effects : effects[e] = "TERMINAL"
  /\ Numbered
  /\ AdoptionsGrounded
  /\ LeaseIsGranted

\* A step that commits nothing: what was settled stays settled.
LEMMA QuietStep ==
    ASSUME RowsInv, UNCHANGED <<revision, terminal, effects, receipts>>,
           outcomes \subseteq outcomes', terminal => idem' = idem,
           LeaseIsGranted', AdoptionsGrounded'
    PROVE  RowsInv'
  <1>1. \A e \in Effects, key \in Keys \cup {NoOne} : Grounded(e, key) => Grounded(e, key)'
        BY DEF Grounded
  <1>2. ASSUME NEW e \in Effects  PROVE EffectRows(e)'
    <2>1. EffectRows(e)
          BY DEF RowsInv
    <2>2. \A kind : Receipted(e, kind)' <=> Receipted(e, kind)
          BY DEF Receipted
    <2>3. \A r \in receipts : Grounded(e, r.key) => Grounded(e, r.key)'
          BY DEF Grounded
    <2>4. effects[e] = "TERMINAL" => terminal' /\ idem'[e] = "FAILED_NOT_SUBMITTED"
          BY <2>1 DEF EffectRows
    <2> QED  BY <2>1, <2>2, <2>3, <2>4 DEF EffectRows
  <1>3. Numbered'
        BY DEF RowsInv, Numbered
  <1> QED  BY <1>2, <1>3 DEF RowsInv

\* The same, of a step of p.
LEMMA QuietStepOf ==
    ASSUME RowsInv, NEW p \in Procs, \A q \in Procs \ {p} : proc'[q] = proc[q],
           UNCHANGED <<lease, grants, revision, terminal, effects, receipts>>,
           outcomes \subseteq outcomes', terminal => idem' = idem,
           At(p, "adopt")' => Grounded(proc[p].effect, proc[p].key)'
    PROVE  RowsInv'
  <1>1. ASSUME NEW q \in Procs, At(q, "adopt")'  PROVE Grounded(proc[q].effect, proc[q].key)'
    <2>1. CASE q = p
          BY <1>1, <2>1
    <2>2. CASE q # p
      <3>1. proc'[q] = proc[q] /\ Grounded(proc[q].effect, proc[q].key)
            BY <1>1, <2>2 DEF RowsInv, AdoptionsGrounded, At
      <3> QED  BY <3>1 DEF Grounded
    <2> QED  BY <2>1, <2>2
  <1>2. AdoptionsGrounded'
        BY <1>1 DEF AdoptionsGrounded
  <1>3. LeaseIsGranted'
        BY DEF RowsInv, LeaseIsGranted
  <1> QED  BY <1>2, <1>3, QuietStep

\* Where p goes on or rests, the others stay.
LEMMA Wherever ==
    ASSUME TypeOK, NEW p \in Procs
    PROVE  /\ \A step \in Steps : Goto(p, step) =>
                /\ \A q \in Procs \ {p} : proc'[q] = proc[q]
                /\ proc'[p] = [proc[p] EXCEPT !.at = step]
                /\ At(p, step)'
           /\ Rest(p) => /\ \A q \in Procs \ {p} : proc'[q] = proc[q]
                         /\ proc'[p] = Idle /\ At(p, "idle")'
  <1>1. proc \in [Procs -> States]
        BY DEF TypeOK, States
  <1>2. ASSUME NEW step \in Steps, Goto(p, step)
        PROVE  /\ \A q \in Procs \ {p} : proc'[q] = proc[q]
               /\ proc'[p] = [proc[p] EXCEPT !.at = step]
               /\ At(p, step)'
    <2>1. proc' = [proc EXCEPT ![p] = [proc[p] EXCEPT !.at = step]]
          BY <1>2 DEF Goto
    <2>2. /\ \A q \in Procs \ {p} : proc'[q] = proc[q]
          /\ proc'[p] = [proc[p] EXCEPT !.at = step]
          BY <1>1, <2>1
    <2>3. proc[p] \in States
          BY <1>1
    <2> QED  BY <2>2, <2>3 DEF At, States
  <1>3. ASSUME Rest(p)
        PROVE  /\ \A q \in Procs \ {p} : proc'[q] = proc[q]
               /\ proc'[p] = Idle /\ At(p, "idle")'
        BY <1>1, <1>3 DEF Rest, Idle, At
  <1> QED  BY <1>2, <1>3

\* The fenced writer's steps find the session open.
LEMMA OpenWhenFenced ==
    ASSUME NEW p \in Procs, Fenced(p)
    PROVE  ~terminal /\ LeaseActive(p) /\ effects[proc[p].effect] = "PENDING"
  BY DEF Fenced, Authorized

\* Boots and loads, deaths and lapses commit nothing.
LEMMA BootRows ==
    ASSUME TypeOK, RowsInv, NEW p \in Procs,
           \/ Crash(p)
           \/ \E e \in Effects : LoadForIntent(p, e) \/ ReconcileBoot(p, e)
           \/ \E e \in Effects, retry \in BOOLEAN : SubmitBoot(p, e, retry)
           \/ \E o \in outcomes : AdoptBoot(p, o)
    PROVE  RowsInv'
  <1>0. proc \in [Procs -> States]
        BY DEF TypeOK, States
  <1>1. UNCHANGED <<lease, grants, revision, terminal, effects, idem, outcomes, receipts>>
    <2>1. UNCHANGED durable
          BY DEF Crash, LoadForIntent, ReconcileBoot, SubmitBoot, AdoptBoot
    <2> QED  BY <2>1 DEF durable
  <1>2. CASE Crash(p)
    <2>1. (\A q \in Procs \ {p} : proc'[q] = proc[q]) /\ At(p, "idle")'
          BY <1>2, Wherever DEF Crash
    <2> QED  BY <1>1, <2>1, QuietStepOf DEF At
  <1>3. ASSUME NEW e \in Effects, NEW retry \in BOOLEAN,
               LoadForIntent(p, e) \/ ReconcileBoot(p, e) \/ SubmitBoot(p, e, retry)
        PROVE  RowsInv'
    <2>1. PICK step \in {"intent", "preflight", "claim"}, again \in BOOLEAN :
            Start(p, step, e, again, NoOne)
          BY <1>3 DEF LoadForIntent, ReconcileBoot, SubmitBoot
    <2>2. (\A q \in Procs \ {p} : proc'[q] = proc[q]) /\ At(p, step)'
          BY <1>0, <2>1 DEF Start, At
    <2> QED  BY <1>1, <2>2, QuietStepOf DEF At
  <1>4. ASSUME NEW o \in outcomes, AdoptBoot(p, o)  PROVE RowsInv'
    <2>0. PICK again \in BOOLEAN : Start(p, "adopt", o.effect, again, o.key)
          BY <1>4 DEF AdoptBoot
    <2>1. /\ \A q \in Procs \ {p} : proc'[q] = proc[q]
          /\ proc'[p].effect = o.effect /\ proc'[p].key = o.key
          BY <1>0, <2>0 DEF Start
    <2>2. Grounded(o.effect, o.key)
          BY <1>4 DEF AdoptBoot, Canonicals, Linked, Snapshot, Grounded
    <2>3. Grounded(proc[p].effect, proc[p].key)'
          BY <1>1, <2>1, <2>2 DEF Grounded
    <2> QED  BY <1>1, <2>1, <2>3, QuietStepOf
  <1> QED  BY <1>2, <1>3, <1>4

\* The steps that call, record a status and go on or rest.
LEMMA RecordRows ==
    ASSUME TypeOK, RowsInv, NEW p \in Procs,
           \/ Claim(p) \/ Mark(p) \/ Check(p) \/ Preflight(p)
           \/ RespondUnknown(p) \/ RespondRetrySafe(p)
    PROVE  RowsInv'
  <1>1. Fenced(p) /\ UNCHANGED <<lease, grants, revision, terminal, effects, outcomes, receipts>>
        BY DEF Claim, Mark, Check, Preflight, RespondUnknown, RespondRetrySafe
  <1>2. ~terminal
        BY <1>1, OpenWhenFenced
  <1>3. (\E step \in {"mark", "check", "call", "observe"} : Goto(p, step)) \/ Rest(p)
        BY DEF Claim, Mark, Check, Preflight, RespondUnknown, RespondRetrySafe
  <1>4. (\A q \in Procs \ {p} : proc'[q] = proc[q]) /\ ~At(p, "adopt")'
    <2>1. CASE Rest(p)
          BY <2>1, Wherever DEF At
    <2>2. ASSUME NEW step \in {"mark", "check", "call", "observe"}, Goto(p, step)
          PROVE  (\A q \in Procs \ {p} : proc'[q] = proc[q]) /\ ~At(p, "adopt")'
      <3>1. step \in Steps
            BY DEF Steps
      <3> QED  BY <2>2, <3>1, Wherever DEF At
    <2> QED  BY <1>3, <2>1, <2>2
  <1> QED  BY <1>1, <1>2, <1>4, QuietStepOf

\* The call and the observation: they tell p what to write down.
LEMMA ToldRows ==
    ASSUME TypeOK, RowsInv, NEW p \in Procs,
           (\E reply \in Replies : Invoke(p, reply)) \/ \E answer \in Answers : Observe(p, answer)
    PROVE  RowsInv'
  <1>1. UNCHANGED durable
        BY DEF Invoke, Observe
  <1>2. UNCHANGED <<lease, grants, revision, terminal, effects, idem, outcomes, receipts>>
        BY <1>1 DEF durable
  <1>3. PICK step, said :
          /\ step \in {"respond", "store"}
          /\ proc' = [proc EXCEPT ![p].at = step, ![p].said = said]
        BY DEF Invoke, Observe
  <1>4. (\A q \in Procs \ {p} : proc'[q] = proc[q]) /\ ~At(p, "adopt")'
    <2>1. proc \in [Procs -> States]
          BY DEF TypeOK, States
    <2> QED  BY <1>3, <2>1 DEF At, States
  <1> QED  BY <1>2, <1>4, QuietStepOf

\* The writer's append: the outcome that it stores grounds the adoption.
LEMMA PersistRows ==
    ASSUME TypeOK, RowsInv, NEW p \in Procs, NEW key \in Keys,
           RespondCanonical(p, key) \/ StoreDisposition(p, key) \/ StoreCanonicalRejection(p, key)
    PROVE  RowsInv'
  <1>1. PICK kind, says :
          /\ Persist(p, kind, says, key)
          /\ \/ kind = "CANONICAL" /\ proc' = [proc EXCEPT ![p].at = "adopt", ![p].key = key]
             \/ Rest(p)
        BY DEF RespondCanonical, StoreDisposition, StoreCanonicalRejection
  <1> DEFINE new == [key |-> key, effect |-> proc[p].effect, kind |-> kind, says |-> says,
                     fence |-> proc[p].fence]
  <1>2. /\ Fenced(p) /\ outcomes' = outcomes \cup {new}
        /\ UNCHANGED <<lease, grants, revision, terminal, effects, receipts>>
        BY <1>1 DEF Persist
  <1>3. ~terminal
        BY <1>2, OpenWhenFenced
  <1>4. CASE Rest(p)
    <2>1. (\A q \in Procs \ {p} : proc'[q] = proc[q]) /\ ~At(p, "adopt")'
          BY <1>4, Wherever DEF At
    <2> QED  BY <1>2, <1>3, <2>1, QuietStepOf
  <1>5. CASE kind = "CANONICAL" /\ proc' = [proc EXCEPT ![p].at = "adopt", ![p].key = key]
    <2>1. proc \in [Procs -> States]
          BY DEF TypeOK, States
    <2>2. /\ \A q \in Procs \ {p} : proc'[q] = proc[q]
          /\ proc'[p].effect = proc[p].effect /\ proc'[p].key = key
          BY <1>5, <2>1 DEF States
    <2>3. Grounded(proc[p].effect, proc[p].key)'
      <3>1. new \in outcomes' /\ new.kind = "CANONICAL"
            BY <1>2, <1>5
      <3>2. new.effect = proc'[p].effect /\ new.key = proc'[p].key
            BY <2>2
      <3> QED  BY <3>1, <3>2 DEF Grounded
    <2> QED  BY <1>2, <1>3, <2>2, <2>3, QuietStepOf
  <1> QED  BY <1>1, <1>4, <1>5

\* What a commit leaves: one more receipt, numbered after all the others.
LEMMA CommitNumbers ==
    ASSUME TypeOK, Numbered, NEW p \in Procs, NEW kind, NEW e, NEW key, NEW next,
           Authorized(p), Commit(p, kind, e, key, next)
    PROVE  /\ Numbered' /\ revision' = revision + 1
           /\ \E new : /\ receipts' = receipts \cup {new} /\ new \notin receipts
                       /\ new = [kind |-> kind, effect |-> e, key |-> key, next |-> next,
                                 revision |-> revision + 1, owner |-> OwnerOf[p],
                                 fence |-> lease.fence]
  <1> DEFINE new == [kind |-> kind, effect |-> e, key |-> key, next |-> next,
                     revision |-> revision + 1, owner |-> OwnerOf[p], fence |-> lease.fence]
  <1>1. revision \in Nat /\ \A r \in receipts : r.revision \in Nat
        BY DEF TypeOK
  <1>2. /\ revision' = revision + 1 /\ receipts' = receipts \cup {new}
        BY DEF Commit, Authorized, LeaseActive
  <1>3. new \notin receipts
        BY <1>1 DEF Numbered
  <1>4. IsFiniteSet(receipts') /\ Cardinality(receipts') = revision'
        BY <1>1, <1>2, <1>3, FS_AddElement DEF Numbered
  <1>5. \A r \in receipts' : 1 <= r.revision /\ r.revision <= revision'
        BY <1>1, <1>2 DEF Numbered
  <1>6. \A q, r \in receipts' : q.revision = r.revision => q = r
        BY <1>1, <1>2 DEF Numbered
  <1> QED  BY <1>2, <1>3, <1>4, <1>5, <1>6 DEF Numbered

\* The row of an effect, moved by a commit as its receipt says, if it says so.
LEMMA CommittedRow ==
    ASSUME NEW f \in Effects, EffectRows(f), NEW new, receipts' = receipts \cup {new},
           new.kind \in {"INTENT", "ADOPTION", "TERMINAL"},
           effects[f] \in {"NONE", "PENDING", "ADOPTED", "TERMINAL"},
           Creates(new, f) => effects[f] = "NONE" /\ effects'[f] = "PENDING",
           Resolves(new, f) =>
             /\ effects[f] = "PENDING"
             /\ effects'[f] = IF new.kind = "ADOPTION" THEN "ADOPTED" ELSE "TERMINAL",
           ~Creates(new, f) /\ ~Resolves(new, f) => effects'[f] = effects[f],
           effects'[f] = "TERMINAL" => terminal' /\ idem'[f] = "FAILED_NOT_SUBMITTED",
           Resolves(new, f) /\ new.kind = "ADOPTION" => Grounded(f, new.key), outcomes' = outcomes,
           \A r \in receipts : r.kind \in {"INTENT", "ADOPTION", "TERMINAL"}
    PROVE  EffectRows(f)'
  <1>1. ASSUME NEW kind \in {"ADOPTION", "TERMINAL"}
        PROVE  Receipted(f, kind)' <=> Receipted(f, kind) \/ (Resolves(new, f) /\ new.kind = kind)
        BY DEF Receipted, Resolves
  <1>2. (\E r \in receipts' : Creates(r, f)) <=> (\E r \in receipts : Creates(r, f)) \/ Creates(new, f)
        OBVIOUS
  <1>3. effects'[f] # "NONE" <=> \E r \in receipts' : Creates(r, f)
        BY <1>2 DEF EffectRows
  <1>4. /\ effects'[f] = "ADOPTED" <=> Receipted(f, "ADOPTION")'
        /\ effects'[f] = "TERMINAL" <=> Receipted(f, "TERMINAL")'
    <2>1. CASE Resolves(new, f)
          BY <1>1, <2>1 DEF EffectRows, Resolves
    <2>2. CASE ~Resolves(new, f)
          BY <1>1, <2>2 DEF EffectRows
    <2> QED  BY <2>1, <2>2
  <1>5. ASSUME NEW r \in receipts', r.effect = f, r.kind = "ADOPTION"  PROVE Grounded(f, r.key)'
    <2>1. Grounded(f, r.key)
          BY <1>5 DEF EffectRows, Resolves
    <2> QED  BY <2>1 DEF Grounded
  <1>6. \A q, r \in receipts' : Creates(q, f) /\ Creates(r, f) => q = r
    <2>1. Creates(new, f) => \A r \in receipts : ~Creates(r, f)
          BY DEF EffectRows
    <2> QED  BY <2>1 DEF EffectRows
  <1>7. \A q, r \in receipts' : Resolves(q, f) /\ Resolves(r, f) => q = r
    <2>1. ASSUME Resolves(new, f), NEW r \in receipts, Resolves(r, f), r.kind \in {"ADOPTION", "TERMINAL"}
          PROVE  FALSE
          BY <2>1 DEF EffectRows, Resolves, Receipted
    <2>2. \A r \in receipts : r.kind \in {"INTENT", "ADOPTION", "TERMINAL"}
          OBVIOUS
    <2>3. Resolves(new, f) => \A r \in receipts : ~Resolves(r, f)
          BY <2>1, <2>2 DEF Resolves
    <2> QED  BY <2>3 DEF EffectRows
  <1> QED  BY <1>3, <1>4, <1>5, <1>6, <1>7 DEF EffectRows

\* A commit is quiet about who adopts what.
LEMMA AdoptionsStay ==
    ASSUME TypeOK, AdoptionsGrounded, NEW p \in Procs, Rest(p), outcomes' = outcomes
    PROVE  AdoptionsGrounded'
  <1>1. (\A q \in Procs \ {p} : proc'[q] = proc[q]) /\ At(p, "idle")'
        BY Wherever
  <1>2. ASSUME NEW q \in Procs, At(q, "adopt")'  PROVE Grounded(proc[q].effect, proc[q].key)'
    <2>1. q # p
          BY <1>1, <1>2 DEF At
    <2>2. proc'[q] = proc[q] /\ Grounded(proc[q].effect, proc[q].key)
          BY <1>1, <1>2, <2>1 DEF AdoptionsGrounded, At
    <2> QED  BY <2>2 DEF Grounded
  <1> QED  BY <1>2 DEF AdoptionsGrounded

\* Of the rows after a commit, what is left to show: each effect is where its
\* receipt says.
LEMMA CommitRows ==
    ASSUME TypeOK, RowsInv, NEW p \in Procs, NEW e \in Effects,
           NEW kind \in {"INTENT", "ADOPTION", "TERMINAL"}, NEW key, NEW next,
           Authorized(p), Commit(p, kind, e, key, next), Rest(p),
           UNCHANGED <<lease, grants, outcomes>>,
           terminal' => \E f \in Effects : effects'[f] = "TERMINAL",
           kind = "ADOPTION" => Grounded(e, key),
           \A f \in Effects :
             /\ (kind = "INTENT" /\ f = e) \/ f = next =>
                  effects[f] = "NONE" /\ effects'[f] = "PENDING"
             /\ kind # "INTENT" /\ f = e =>
                  /\ effects[f] = "PENDING"
                  /\ effects'[f] = IF kind = "ADOPTION" THEN "ADOPTED" ELSE "TERMINAL"
             /\ f # e /\ f # next => effects'[f] = effects[f]
             /\ effects'[f] = "TERMINAL" => terminal' /\ idem'[f] = "FAILED_NOT_SUBMITTED"
    PROVE  RowsInv'
  <1>1. Numbered'
        BY CommitNumbers DEF RowsInv
  <1>2. PICK new : /\ receipts' = receipts \cup {new}
                   /\ new.kind = kind /\ new.effect = e /\ new.key = key /\ new.next = next
        BY CommitNumbers DEF RowsInv
  <1>3. \A r \in receipts : r.kind \in {"INTENT", "ADOPTION", "TERMINAL"}
        BY DEF TypeOK
  <1>4. ASSUME NEW f \in Effects  PROVE EffectRows(f)'
    <2>1. EffectRows(f) /\ effects[f] \in {"NONE", "PENDING", "ADOPTED", "TERMINAL"}
          BY DEF RowsInv, TypeOK
    <2>2. /\ Creates(new, f) <=> (kind = "INTENT" /\ f = e) \/ f = next
          /\ Resolves(new, f) <=> kind # "INTENT" /\ f = e
          BY <1>2 DEF Creates, Resolves
    <2> QED  BY <1>2, <1>3, <2>1, <2>2, CommittedRow
  <1>5. AdoptionsGrounded' /\ LeaseIsGranted'
        BY AdoptionsStay DEF RowsInv, LeaseIsGranted
  <1> QED  BY <1>1, <1>4, <1>5 DEF RowsInv

\* An intent makes its effect pending.
LEMMA CommitIntentRows ==
    ASSUME TypeOK, RowsInv, NEW p \in Procs, NEW e \in Effects, e = proc[p].effect, CommitIntent(p)
    PROVE  RowsInv'
  <1>1. /\ Authorized(p) /\ Commit(p, "INTENT", e, NoOne, NoOne) /\ effects[e] = "NONE"
        /\ effects' = [effects EXCEPT ![e] = "PENDING"] /\ Rest(p)
        /\ UNCHANGED <<lease, grants, terminal, idem, outcomes>> /\ ~terminal
        BY DEF CommitIntent, Authorized
  <1>2. /\ effects'[e] = "PENDING" /\ \A f \in Effects \ {e} : effects'[f] = effects[f]
        BY <1>1 DEF TypeOK
  <1>3. ASSUME NEW f \in Effects  PROVE effects'[f] # "TERMINAL" /\ f # NoOne
    <2>1. effects[f] # "TERMINAL"
          BY <1>1 DEF RowsInv, EffectRows
    <2> QED  BY <1>2, <2>1, RuntimeAssumption DEF RuntimeAssumption
  <1>4. "INTENT" \in {"INTENT", "ADOPTION", "TERMINAL"} /\ "INTENT" # "ADOPTION"
        OBVIOUS
  <1> QED  BY <1>1, <1>2, <1>3, <1>4, CommitRows

\* An adoption ends its effect, and makes the one that follows pending.
LEMMA AdoptRows ==
    ASSUME TypeOK, RowsInv, NEW p \in Procs, NEW e \in Effects, e = proc[p].effect,
           NEW next \in Effects \cup {NoOne}, Adopt(p, next)
    PROVE  RowsInv'
  <1>1. /\ Authorized(p) /\ Commit(p, "ADOPTION", e, proc[p].key, next) /\ Rest(p)
        /\ At(p, "adopt") /\ ~terminal
        /\ UNCHANGED <<lease, grants, terminal, idem, outcomes>>
        BY DEF Adopt, Fenced, Authorized
  <1>2. Grounded(e, proc[p].key)
        BY <1>1 DEF RowsInv, AdoptionsGrounded
  <1>3. /\ effects[e] = "PENDING" /\ effects'[e] = "ADOPTED"
        /\ next # NoOne => /\ next \in Effects /\ next # e
                           /\ effects[next] = "NONE" /\ effects'[next] = "PENDING"
        /\ \A f \in Effects \ {e, next} : effects'[f] = effects[f]
        BY AdoptionMoves
  <1>4. ASSUME NEW f \in Effects  PROVE effects'[f] # "TERMINAL" /\ f # NoOne
    <2>1. effects[f] # "TERMINAL" /\ f # NoOne
          BY <1>1, RuntimeAssumption DEF RowsInv, EffectRows, RuntimeAssumption
    <2> QED  BY <1>3, <2>1
  <1>5. \A f \in Effects :
          /\ f = next => effects[f] = "NONE" /\ effects'[f] = "PENDING"
          /\ f = e => effects[f] = "PENDING" /\ effects'[f] = "ADOPTED"
          /\ f # e /\ f # next => effects'[f] = effects[f]
        BY <1>3, <1>4
  <1> QED  BY <1>1, <1>2, <1>4, <1>5, CommitRows

\* The end of the session.
LEMMA TerminalRows ==
    ASSUME TypeOK, RowsInv, NEW p \in Procs, NEW e \in Effects, e = proc[p].effect, RespondTerminal(p)
    PROVE  RowsInv'
  <1>1. /\ Authorized(p) /\ Commit(p, "TERMINAL", e, NoOne, NoOne) /\ Rest(p)
        /\ Record(e, "FAILED_NOT_SUBMITTED") /\ terminal' = TRUE /\ ~terminal
        /\ effects[e] = "PENDING" /\ effects' = [effects EXCEPT ![e] = "TERMINAL"]
        /\ UNCHANGED <<lease, grants, outcomes>>
        BY DEF RespondTerminal, Fenced, Authorized
  <1>2. idem'[e] = "FAILED_NOT_SUBMITTED"
        BY <1>1 DEF Record, TypeOK
  <1>3. effects'[e] = "TERMINAL" /\ \A f \in Effects \ {e} : effects'[f] = effects[f]
        BY <1>1 DEF TypeOK
  <1>4. ASSUME NEW f \in Effects  PROVE effects[f] # "TERMINAL" /\ f # NoOne
        BY <1>1, RuntimeAssumption DEF RowsInv, EffectRows, RuntimeAssumption
  <1>5. terminal'
        BY <1>1
  <1>6. \A f \in Effects : effects'[f] = "TERMINAL" => f = e
        BY <1>3, <1>4
  <1> QED  BY <1>1, <1>2, <1>3, <1>4, <1>5, <1>6, CommitRows

LEMMA RowsNext == RuntimeInv /\ RowsInv /\ [Next]_vars => RowsInv'
  <1> SUFFICES ASSUME RuntimeInv, RowsInv, [Next]_vars  PROVE RowsInv'
      OBVIOUS
  <1>0. TypeOK /\ \A p \in Procs : ~At(p, "idle") => proc[p].effect \in Effects
        BY DEF RuntimeInv, Knows
  <1>1. CASE Lapse
    <2>1. UNCHANGED <<revision, terminal, effects, idem, outcomes, receipts, proc>> /\ ~lease'.live
          BY <1>0, <1>1 DEF Lapse, TypeOK
    <2>2. AdoptionsGrounded' /\ LeaseIsGranted'
          BY <2>1 DEF RowsInv, AdoptionsGrounded, At, Grounded, LeaseIsGranted
    <2> QED  BY <2>1, <2>2, QuietStep
  <1>2. ASSUME NEW p \in Procs, Acquire(p)  PROVE RowsInv'
    <2>1. UNCHANGED <<revision, terminal, effects, idem, outcomes, receipts, proc>>
          BY <1>2 DEF Acquire
    <2>2. AdoptionsGrounded' /\ LeaseIsGranted'
          BY <1>2, <2>1 DEF RowsInv, AdoptionsGrounded, At, Grounded, LeaseIsGranted, Acquire
    <2> QED  BY <2>1, <2>2, QuietStep
  <1>3. ASSUME NEW p \in Procs, CommitIntent(p)  PROVE RowsInv'
    <2>1. PICK e \in Effects : e = proc[p].effect
          BY <1>0, <1>3 DEF CommitIntent, At
    <2> QED  BY <1>0, <1>3, <2>1, CommitIntentRows
  <1>4. ASSUME NEW p \in Procs, Crash(p) \/ \E e \in Effects : LoadForIntent(p, e)  PROVE RowsInv'
        BY <1>0, <1>4, BootRows
  <1>5. ASSUME NEW p \in Procs, Submit(p)  PROVE RowsInv'
    <2>1. CASE \E e \in Effects, retry \in BOOLEAN : SubmitBoot(p, e, retry)
          BY <1>0, <2>1, BootRows
    <2>2. CASE Claim(p) \/ Mark(p) \/ Check(p) \/ RespondUnknown(p) \/ RespondRetrySafe(p)
          BY <1>0, <2>2, RecordRows
    <2>3. CASE \E reply \in Replies : Invoke(p, reply)
          BY <1>0, <2>3, ToldRows
    <2>4. CASE RespondTerminal(p)
      <3>1. PICK e \in Effects : e = proc[p].effect
            BY <1>0, <2>4 DEF RespondTerminal, At
      <3> QED  BY <1>0, <2>4, <3>1, TerminalRows
    <2>5. CASE \E key \in Keys : RespondCanonical(p, key)
          BY <1>0, <2>5, PersistRows
    <2> QED  BY <1>5, <2>1, <2>2, <2>3, <2>4, <2>5 DEF Submit
  <1>6. ASSUME NEW p \in Procs, AdoptAvailable(p)  PROVE RowsInv'
    <2>1. CASE \E o \in outcomes : AdoptBoot(p, o)
          BY <1>0, <2>1, BootRows
    <2>2. ASSUME NEW next \in Effects \cup {NoOne}, Adopt(p, next)  PROVE RowsInv'
      <3>1. PICK e \in Effects : e = proc[p].effect
            BY <1>0, <2>2 DEF Adopt, At
      <3> QED  BY <1>0, <2>2, <3>1, AdoptRows
    <2> QED  BY <1>6, <2>1, <2>2 DEF AdoptAvailable
  <1>7. ASSUME NEW p \in Procs, Reconcile(p)  PROVE RowsInv'
    <2>1. CASE \E e \in Effects : ReconcileBoot(p, e)
          BY <1>0, <2>1, BootRows
    <2>2. CASE Preflight(p)
          BY <1>0, <2>2, RecordRows
    <2>3. CASE \E answer \in Answers : Observe(p, answer)
          BY <1>0, <2>3, ToldRows
    <2>4. CASE \E key \in Keys : StoreDisposition(p, key) \/ StoreCanonicalRejection(p, key)
          BY <1>0, <2>4, PersistRows
    <2> QED  BY <1>7, <2>1, <2>2, <2>3, <2>4 DEF Reconcile
  <1>8. CASE UNCHANGED vars
    <2>1. UNCHANGED <<lease, grants, revision, terminal, effects, idem, outcomes, receipts, proc>>
          BY <1>8 DEF vars
    <2>2. AdoptionsGrounded' /\ LeaseIsGranted'
          BY <2>1 DEF RowsInv, AdoptionsGrounded, At, Grounded, LeaseIsGranted
    <2> QED  BY <2>1, <2>2, QuietStep
  <1> QED  BY <1>1, <1>2, <1>3, <1>4, <1>5, <1>6, <1>7, <1>8 DEF Next

LEMMA RowsInit == Init => RowsInv
  <1> SUFFICES ASSUME Init  PROVE RowsInv
      OBVIOUS
  <1>1. receipts = {} /\ outcomes = {} /\ revision = 0 /\ terminal = FALSE /\ ~lease.live
        BY DEF Init
  <1>2. \A e \in Effects : EffectRows(e)
        BY <1>1 DEF Init, EffectRows, Receipted
  <1>3. Numbered
        BY <1>1, FS_EmptySet DEF Numbered
  <1>4. AdoptionsGrounded
        BY IdleIsState DEF Init, AdoptionsGrounded, At
  <1> QED  BY <1>1, <1>2, <1>3, <1>4 DEF RowsInv, LeaseIsGranted

\* A set all of whose elements are the same.
LEMMA AtMostOne ==
    ASSUME NEW S, \A x, y \in S : x = y
    PROVE  Cardinality(S) <= 1
  <1>1. CASE S = {}
        BY <1>1, FS_EmptySet
  <1>2. ASSUME NEW x \in S  PROVE Cardinality(S) <= 1
    <2>1. S = {x}
          BY <1>2
    <2> QED  BY <2>1, FS_Singleton
  <1> QED  BY <1>1, <1>2

\* Whatever crashes and takeovers come between, the rows of a commit agree: an
\* effect is pending, adopted or closed exactly when its receipts say so, it is
\* made pending once and resolved once, and each commit has a revision of its own
\* (commitPendingIntent, adoptOutcome, the terminal-commit service).
THEOREM RowsAgreeHolds == Spec => []RowsAgree
  <1>1. RuntimeInv /\ RowsInv => RowsAgree
    <2> SUFFICES ASSUME RuntimeInv, RowsInv  PROVE RowsAgree
        OBVIOUS
    <2>1. TypeOK /\ Numbered
          BY DEF RuntimeInv, RowsInv
    <2>2. ASSUME NEW e \in Effects
          PROVE  LET of(kind) == {r \in receipts : r.effect = e /\ r.kind = kind}
                     creating == of("INTENT") \cup {r \in receipts : r.next = e}
                 IN  /\ effects[e] = "NONE" <=> creating = {}
                     /\ effects[e] = "ADOPTED" <=> of("ADOPTION") # {}
                     /\ effects[e] = "TERMINAL" <=> of("TERMINAL") # {}
                     /\ effects[e] = "TERMINAL" => terminal /\ idem[e] = "FAILED_NOT_SUBMITTED"
                     /\ \A r \in of("ADOPTION") : \E o \in outcomes :
                           o.key = r.key /\ o.effect = e /\ o.kind = "CANONICAL"
                     /\ Cardinality(creating) <= 1
                     /\ Cardinality(of("ADOPTION") \cup of("TERMINAL")) <= 1
      <3> DEFINE of(kind) == {r \in receipts : r.effect = e /\ r.kind = kind}
                 creating == of("INTENT") \cup {r \in receipts : r.next = e}
      <3>1. EffectRows(e)
            BY DEF RowsInv
      <3>2. \A kind : of(kind) # {} <=> Receipted(e, kind)
            BY DEF Receipted
      <3>3. \A r \in of("ADOPTION") : \E o \in outcomes :
               o.key = r.key /\ o.effect = e /\ o.kind = "CANONICAL"
            BY <3>1 DEF EffectRows, Grounded
      <3>4. \A r : r \in creating <=> r \in receipts /\ Creates(r, e)
            BY DEF Creates
      <3>5. \A x, y \in creating : x = y
            BY <3>1, <3>4 DEF EffectRows
      <3>6. \A x, y \in of("ADOPTION") \cup of("TERMINAL") : x = y
            BY <3>1 DEF EffectRows, Resolves
      <3>7. Cardinality(creating) <= 1 /\ Cardinality(of("ADOPTION") \cup of("TERMINAL")) <= 1
            BY <3>5, <3>6, AtMostOne
      <3>8. effects[e] = "NONE" <=> creating = {}
            BY <3>1, <3>4 DEF EffectRows
      <3> HIDE DEF of, creating
      <3>9. /\ effects[e] = "ADOPTED" <=> of("ADOPTION") # {}
            /\ effects[e] = "TERMINAL" <=> of("TERMINAL") # {}
            /\ effects[e] = "TERMINAL" => terminal /\ idem[e] = "FAILED_NOT_SUBMITTED"
            BY <3>1, <3>2 DEF EffectRows
      <3> QED  BY <3>3, <3>7, <3>8, <3>9 DEF of, creating
    <2>3. terminal => \E e \in Effects : effects[e] = "TERMINAL"
          BY DEF RowsInv
    <2> QED  BY <2>1, <2>2, <2>3 DEF RowsAgree, Numbered
  <1> QED  BY <1>1, RowsInit, RowsNext, RuntimeInvHolds, PTL DEF Spec
-----------------------------------------------------------------------------
(* The runtime implements Fencing: its commits follow its leases.              *)

Holder == IF lease.live THEN lease.owner ELSE NoOne
Commits == {[revision |-> r.revision, owner |-> r.owner, fence |-> r.fence,
             checked |-> TRUE] : r \in receipts}
Seen == <<Holder, lease.fence, grants, Commits>>

\* Receipts are no more than two for each effect: its intent and its end.
LEMMA ReceiptsAreFew ==
    ASSUME IsFiniteSet(Effects), NEW rows, \A r \in rows : r.effect \in Effects,
           \A q, r \in rows : q.effect = r.effect /\ (q.kind = "INTENT" <=> r.kind = "INTENT") => q = r
    PROVE  Cardinality(rows) <= 2 * Cardinality(Effects)
  <1> DEFINE f == [r \in rows |-> <<r.effect, IF r.kind = "INTENT" THEN 1 ELSE 2>>]
  <1>1. f \in Injection(rows, Effects \X (1..2))
    <2>1. f \in [rows -> Effects \X (1..2)]
          OBVIOUS
    <2>2. ASSUME NEW q \in rows, NEW r \in rows, f[q] = f[r]  PROVE q = r
          BY <2>2
    <2> HIDE DEF f
    <2> QED  BY <2>1, <2>2 DEF Injection, IsInjective
  <1>2. IsFiniteSet(1..2) /\ Cardinality(1..2) = 2
    <2>1. 1 \in Int /\ 2 \in Int /\ ~(1 > 2) /\ 2 - 1 + 1 = 2
          OBVIOUS
    <2> QED  BY <2>1, FS_Interval
  <1>3. /\ IsFiniteSet(Effects \X (1..2))
        /\ Cardinality(Effects \X (1..2)) = Cardinality(Effects) * 2
        BY <1>2, FS_Product
  <1>4. Cardinality(rows) <= Cardinality(Effects \X (1..2))
        BY <1>1, <1>3, FS_Injection
  <1>5. Cardinality(Effects) \in Nat
        BY FS_CardinalityType
  <1> QED  BY <1>3, <1>4, <1>5

\* A commit is a write in the name of the newest grant.
LEMMA CommitFences ==
    ASSUME TypeOK, RowsInv, RowsInv', TypeOK', IsFiniteSet(Effects), NEW p \in Procs, NEW kind,
           NEW e, NEW key, NEW next, Authorized(p), Commit(p, kind, e, key, next),
           UNCHANGED <<lease, grants>>
    PROVE  \E o \in Owners, r \in 1..(2 * Cardinality(Effects)) : Fence!FWrite(o, r)
  <1>1. revision' = revision + 1
        BY CommitNumbers DEF RowsInv
  <1>2. PICK n \in 1..(2 * Cardinality(Effects)) : n = revision + 1
    <2>1. \A r \in receipts' : r.effect \in Effects
          BY DEF TypeOK
    <2>2. \A q, r \in receipts' :
            q.effect = r.effect /\ (q.kind = "INTENT" <=> r.kind = "INTENT") => q = r
      <3>1. ASSUME NEW q \in receipts', NEW r \in receipts', q.effect = r.effect,
                   q.kind = "INTENT" <=> r.kind = "INTENT"
            PROVE  q = r
        <4>1. PICK f \in Effects : f = r.effect
              BY <2>1
        <4>2. (Creates(q, f) /\ Creates(r, f)) \/ (Resolves(q, f) /\ Resolves(r, f))
              BY <3>1, <4>1 DEF Creates, Resolves
        <4> QED  BY <4>1, <4>2 DEF RowsInv, EffectRows
      <3> QED  BY <3>1
    <2>3. Cardinality(receipts') <= 2 * Cardinality(Effects)
          BY <2>1, <2>2, ReceiptsAreFew
    <2>4. revision + 1 <= 2 * Cardinality(Effects) /\ revision \in Nat
          BY <1>1, <2>3 DEF TypeOK, RowsInv, Numbered
    <2>5. Cardinality(Effects) \in Nat
          BY FS_CardinalityType
    <2> QED  BY <2>4, <2>5
  <1>3. PICK o \in Owners : o = OwnerOf[p]
        BY RuntimeAssumption DEF RuntimeAssumption
  <1>4. [owner |-> o, fence |-> lease.fence] \in grants /\ Holder = o
        BY <1>3 DEF Authorized, LeaseActive, RowsInv, LeaseIsGranted, Holder
  <1>5. \A w \in Commits : w.revision < n
        BY <1>2 DEF Commits, RowsInv, Numbered, TypeOK
  <1>6. Commits' = Commits \cup {[revision |-> n, owner |-> o, fence |-> lease.fence,
                                     checked |-> TRUE]}
    <2>1. PICK new : /\ receipts' = receipts \cup {new}
                     /\ new.revision = n /\ new.owner = o /\ new.fence = lease.fence
          BY <1>2, <1>3, CommitNumbers DEF RowsInv
    <2> QED  BY <2>1 DEF Commits
  <1>7. UNCHANGED <<Holder, lease.fence, grants>>
        BY DEF Holder
  <1>8. Fence!FWrite(o, n)
        BY <1>4, <1>5, <1>6, <1>7 DEF Fence!FWrite, Fence!Fresh, Fence!Written, Commits, Holder
  <1> QED  BY <1>8

LEMMA AcquireFences ==
    ASSUME TypeOK, NEW p \in Procs, Acquire(p)
    PROVE  \E o \in Owners : Fence!FGrant(o)
  <1>1. OwnerOf[p] \in Owners /\ lease.fence \in Nat
        BY RuntimeAssumption DEF RuntimeAssumption, TypeOK, Fences
  <1>2. Fence!FGrant(OwnerOf[p])
        BY <1>1 DEF Fence!FGrant, Acquire
  <1> QED  BY <1>1, <1>2

LEMMA LapseFences ==
    ASSUME TypeOK, Lapse
    PROVE  Fence!FLapse
  <1>1. lease'.live = FALSE /\ lease'.fence = lease.fence /\ lease.live /\ lease.owner # NoOne
        BY DEF TypeOK, Lapse
  <1> QED  BY <1>1 DEF Lapse, Fence!FLapse

LEMMA RuntimeFences ==
    ASSUME RuntimeInv, RowsInv, RuntimeInv', RowsInv', IsFiniteSet(Effects), [Next]_vars
    PROVE  [Fence!FNext]_(Fence!fvars)
  <1>0. SUFFICES Fence!FNext \/ UNCHANGED <<lease, grants, receipts>>
        BY DEF Fence!fvars
  <1>1. TypeOK /\ TypeOK'
        BY DEF RuntimeInv
  <1>2. CASE Lapse
        BY <1>1, <1>2, LapseFences DEF Fence!FNext
  <1>3. ASSUME NEW p \in Procs, Acquire(p)  PROVE Fence!FNext
        BY <1>1, <1>3, AcquireFences DEF Fence!FNext
  <1>4. ASSUME NEW p \in Procs,
               \/ CommitIntent(p) \/ RespondTerminal(p)
               \/ \E next \in Effects \cup {NoOne} : Adopt(p, next)
        PROVE  Fence!FNext
    <2>1. PICK kind, e, key, next : /\ Authorized(p) /\ Commit(p, kind, e, key, next)
                                    /\ UNCHANGED <<lease, grants>>
          BY <1>4 DEF CommitIntent, Adopt, RespondTerminal, Fenced
    <2> QED  BY <1>1, <2>1, CommitFences DEF Fence!FNext
  <1>5. ASSUME NEW p \in Procs,
               \/ Crash(p) \/ Claim(p) \/ Mark(p) \/ Check(p) \/ Preflight(p)
               \/ RespondUnknown(p) \/ RespondRetrySafe(p)
               \/ \E e \in Effects : LoadForIntent(p, e) \/ ReconcileBoot(p, e)
               \/ \E e \in Effects, retry \in BOOLEAN : SubmitBoot(p, e, retry)
               \/ \E o \in outcomes : AdoptBoot(p, o)
               \/ \E reply \in Replies : Invoke(p, reply)
               \/ \E answer \in Answers : Observe(p, answer)
        PROVE  UNCHANGED <<lease, grants, receipts>>
        BY <1>5 DEF durable, Crash, Claim, Mark, Check, Preflight, RespondUnknown, RespondRetrySafe,
                    LoadForIntent, ReconcileBoot, SubmitBoot, AdoptBoot, Invoke, Observe
  <1>6. ASSUME NEW p \in Procs, NEW key \in Keys,
               RespondCanonical(p, key) \/ StoreDisposition(p, key) \/ StoreCanonicalRejection(p, key)
        PROVE  UNCHANGED <<lease, grants, receipts>>
        BY <1>6 DEF RespondCanonical, StoreDisposition, StoreCanonicalRejection, Persist
  <1>7. CASE UNCHANGED vars
        BY <1>7 DEF vars
  <1> QED  BY <1>2, <1>3, <1>4, <1>5, <1>6, <1>7 DEF Next, Submit, AdoptAvailable, Reconcile

\* Whatever lapses, takeovers and late processes there are, a commit of the
\* session is made in the name of its newest lease and numbered after all the
\* earlier ones (the fenced writer and the commit services lock the lease row).
THEOREM CommitsAreFenced ==
    ASSUME IsFiniteSet(Effects)
    PROVE  Spec => FencedCommits
  <1>1. Init => Fence!FInit
        BY RuntimeAssumption DEF RuntimeAssumption, Init, Fence!FInit
  <1>2. /\ RuntimeInv /\ RowsInv /\ RuntimeInv' /\ RowsInv' /\ [Next]_vars
        => [Fence!FNext]_(Fence!fvars)
        BY RuntimeFences
  <1> QED  BY <1>1, <1>2, RowsInit, RowsNext, RuntimeInvHolds, PTL DEF Spec, FencedCommits, Fence!FSpec
-----------------------------------------------------------------------------
(* What the session believes not submitted, the broker does not have, unless   *)
(* somebody called for it that did not hold the lease, or not alone.           *)

\* p was told that the broker does not have the request.
ToldNotSubmitted(p) ==
  \/ At(p, "respond") /\ proc[p].said \in {"RETRY_SAFE", "DO_NOT_RETRY"}
  \/ At(p, "store") /\ proc[p].said = "NOT_SUBMITTED"

\* The broker has not got e, or what was called for e escaped the lease.
Untouched(e) == broker[e] = "NONE" \/ e \in unguarded

\* The holder, alone and on its way to call, has the record to itself; what a
\* holder was told stays so until it writes it down.
Leased(p) ==
  /\ proc[p].fence <= lease.fence
  /\ Guarded(p) /\ (At(p, "check") \/ At(p, "call")) =>
       idem[proc[p].effect] = "SUBMITTED" /\ Untouched(proc[p].effect)
  /\ LeaseActive(p) /\ ToldNotSubmitted(p) => Untouched(proc[p].effect)

LeasedInv == (\A p \in Procs : Leased(p)) /\ NotSubmittedIsTrue

LEMMA OneHolder ==
    ASSUME NEW p \in Procs, NEW q \in Procs, LeaseActive(p), Guarded(q)
    PROVE  p = q
  BY DEF Guarded, Alone, LeaseActive

\* What the others rely on, when their lease and their orders stay: a record of
\* another's is no concern of who is alone.
LEMMA OthersLeased ==
    ASSUME LeasedInv, NEW p \in Procs, NEW q \in Procs \ {p}, proc'[q] = proc[q],
           UNCHANGED lease, UNCHANGED idem \/ LeaseActive(p),
           ~At(q, "idle") /\ LeaseActive(q) /\ Untouched(proc[q].effect) =>
             Untouched(proc[q].effect)'
    PROVE  Leased(q)'
  <1>1. Leased(q)
        BY DEF LeasedInv
  <1>2. (LeaseActive(q)' <=> LeaseActive(q)) /\ (Guarded(q)' <=> Guarded(q))
        BY DEF LeaseActive, Guarded
  <1>3. ToldNotSubmitted(q)' <=> ToldNotSubmitted(q)
        BY DEF ToldNotSubmitted, At
  <1>4. Guarded(q) => UNCHANGED idem /\ LeaseActive(q)
        BY OneHolder DEF Guarded
  <1>5. ToldNotSubmitted(q) \/ At(q, "check") \/ At(q, "call") => ~At(q, "idle")
        BY DEF ToldNotSubmitted, At
  <1> QED  BY <1>1, <1>2, <1>3, <1>4, <1>5 DEF Leased, At

\* The same, of a step that leaves the broker alone.
LEMMA LeasedStep ==
    ASSUME LeasedInv, NEW p \in Procs, UNCHANGED <<lease, broker, unguarded>>,
           \A q \in Procs \ {p} : proc'[q] = proc[q], UNCHANGED idem \/ LeaseActive(p),
           Leased(p)', NotSubmittedIsTrue'
    PROVE  LeasedInv'
  <1>1. ASSUME NEW q \in Procs \ {p}  PROVE Leased(q)'
    <2>1. Untouched(proc[q].effect) => Untouched(proc[q].effect)'
          BY DEF Untouched
    <2> QED  BY <2>1, OthersLeased
  <1> QED  BY <1>1 DEF LeasedInv

\* A status that says nothing of the broker, or that the broker bears out.
LEMMA RecordBelieved ==
    ASSUME TypeOK, NotSubmittedIsTrue, NEW e \in Effects, NEW s, Record(e, s),
           UNCHANGED <<broker, unguarded>>,
           s \in {"RETRY_AUTHORIZED", "FAILED_NOT_SUBMITTED"} => Untouched(e)
    PROVE  NotSubmittedIsTrue' /\ idem'[e] = s
  <1>1. idem'[e] = s /\ \A f \in Effects \ {e} : idem'[f] = idem[f]
        BY DEF Record, TypeOK
  <1> QED  BY <1>1 DEF NotSubmittedIsTrue, Untouched

\* p at a step at which it neither calls nor was told anything.
LEMMA LeasedElsewhere ==
    ASSUME NEW p \in Procs, proc'[p].fence <= lease'.fence,
           proc'[p].at \notin {"check", "call", "respond", "store"}
    PROVE  Leased(p)'
  BY DEF Leased, At, ToldNotSubmitted

LEMMA LeasedAtRest ==
    ASSUME TypeOK, NEW p \in Procs, Rest(p), UNCHANGED lease
    PROVE  Leased(p)' /\ \A q \in Procs \ {p} : proc'[q] = proc[q]
  <1>1. proc'[p] = Idle /\ \A q \in Procs \ {p} : proc'[q] = proc[q]
        BY Wherever
  <1>2. 0 <= lease.fence
        BY DEF TypeOK, Fences
  <1> QED  BY <1>1, <1>2, LeasedElsewhere DEF Idle

LEMMA LeasedGoes ==
    ASSUME TypeOK, LeasedInv, NEW p \in Procs, NEW step \in Steps, Goto(p, step), UNCHANGED lease
    PROVE  /\ \A q \in Procs \ {p} : proc'[q] = proc[q]
           /\ proc'[p].at = step /\ proc'[p].fence = proc[p].fence
           /\ proc'[p].effect = proc[p].effect /\ proc'[p].fence <= lease'.fence
           /\ LeaseActive(p) => LeaseActive(p)'
           /\ Guarded(p)' <=> Guarded(p)
  <1>1. proc \in [Procs -> States]
        BY DEF TypeOK, States
  <1>2. /\ \A q \in Procs \ {p} : proc'[q] = proc[q]
        /\ proc'[p] = [proc[p] EXCEPT !.at = step]
        BY <1>1 DEF Goto
  <1>3. /\ proc'[p].at = step /\ proc'[p].fence = proc[p].fence
        /\ proc'[p].effect = proc[p].effect
        BY <1>1, <1>2 DEF States
  <1> QED  BY <1>2, <1>3 DEF LeasedInv, Leased, LeaseActive, Guarded

\* Boots, loads, deaths and commits: p is neither calling nor told.
LEMMA BootLeased ==
    ASSUME TypeOK, LeasedInv, NEW p \in Procs,
           \/ Crash(p) \/ CommitIntent(p) \/ \E next \in Effects \cup {NoOne} : Adopt(p, next)
           \/ \E e \in Effects : LoadForIntent(p, e) \/ ReconcileBoot(p, e)
           \/ \E e \in Effects, retry \in BOOLEAN : SubmitBoot(p, e, retry)
           \/ \E o \in outcomes : AdoptBoot(p, o)
    PROVE  LeasedInv'
  <1>1. UNCHANGED <<lease, idem, broker, unguarded>>
        BY DEF Crash, CommitIntent, Adopt, LoadForIntent, ReconcileBoot, SubmitBoot, AdoptBoot,
               durable, outside
  <1>2. NotSubmittedIsTrue'
        BY <1>1 DEF LeasedInv, NotSubmittedIsTrue
  <1>3. CASE Rest(p)
        BY <1>1, <1>2, <1>3, LeasedAtRest, LeasedStep
  <1>4. ASSUME NEW step \in {"intent", "claim", "adopt", "preflight"}, NEW e, NEW retry \in BOOLEAN,
               NEW key, Start(p, step, e, retry, key)
        PROVE  LeasedInv'
    <2>1. proc \in [Procs -> States] /\ lease.fence <= lease.fence
          BY DEF TypeOK, States, Fences
    <2>2. /\ \A q \in Procs \ {p} : proc'[q] = proc[q]
          /\ proc'[p].at = step /\ proc'[p].fence = lease.fence
          BY <1>4, <2>1 DEF Start
    <2>3. Leased(p)'
          BY <1>1, <2>1, <2>2, LeasedElsewhere
    <2> QED  BY <1>1, <1>2, <2>2, <2>3, LeasedStep
  <1>5. CASE \/ \E e \in Effects : LoadForIntent(p, e) \/ ReconcileBoot(p, e)
             \/ \E e \in Effects, retry \in BOOLEAN : SubmitBoot(p, e, retry)
    <2>1. PICK step \in {"intent", "preflight", "claim"}, e \in Effects, again \in BOOLEAN :
            Start(p, step, e, again, NoOne)
          BY <1>5 DEF LoadForIntent, ReconcileBoot, SubmitBoot
    <2> QED  BY <1>4, <2>1
  <1>6. CASE \E o \in outcomes : AdoptBoot(p, o)
    <2>1. PICK o \in outcomes, again \in BOOLEAN : Start(p, "adopt", o.effect, again, o.key)
          BY <1>6 DEF AdoptBoot
    <2> QED  BY <1>4, <2>1
  <1> QED  BY <1>3, <1>5, <1>6 DEF Crash, CommitIntent, Adopt

\* The holder, and nobody else, writes a status down.
LEMMA RestLeased ==
    ASSUME TypeOK, LeasedInv, NEW p \in Procs, NEW e \in Effects, NEW s,
           LeaseActive(p), Record(e, s), UNCHANGED <<lease, broker, unguarded>>, Rest(p),
           s \in {"RETRY_AUTHORIZED", "FAILED_NOT_SUBMITTED"} => Untouched(e)
    PROVE  LeasedInv'
  <1>1. NotSubmittedIsTrue'
        BY RecordBelieved DEF LeasedInv
  <1> QED  BY <1>1, LeasedAtRest, LeasedStep

LEMMA ClaimLeased ==
    ASSUME TypeOK, LeasedInv, NEW p \in Procs, NEW e \in Effects,
           e = proc[p].effect, Claim(p) \/ Preflight(p)
    PROVE  LeasedInv'
  <1>1. LeaseActive(p) /\ UNCHANGED <<lease, broker, unguarded>>
        BY DEF Claim, Preflight, Fenced, Authorized, outside
  <1>2. UNCHANGED idem \/ \E s \in {"CLAIMED", "OUTCOME_UNKNOWN"} : Record(e, s)
        BY DEF Claim, Preflight
  <1>3. NotSubmittedIsTrue'
        BY <1>1, <1>2, RecordBelieved DEF LeasedInv, NotSubmittedIsTrue
  <1>4. PICK step \in {"mark", "observe"} : Goto(p, step)
        BY DEF Claim, Preflight
  <1>5. step \in Steps
        BY DEF Steps
  <1>6. /\ \A q \in Procs \ {p} : proc'[q] = proc[q]
        /\ proc'[p].at = step /\ proc'[p].fence <= lease'.fence
        BY <1>1, <1>4, <1>5, LeasedGoes
  <1>7. Leased(p)'
        BY <1>6, LeasedElsewhere
  <1> QED  BY <1>1, <1>3, <1>6, <1>7, LeasedStep

\* A record that can move to SUBMITTED is of a request the broker has not.
LEMMA MarkLeased ==
    ASSUME RuntimeInv, LeasedInv, NEW p \in Procs, NEW e \in Effects,
           e = proc[p].effect, Mark(p) \/ Check(p)
    PROVE  LeasedInv'
  <1>1. /\ TypeOK /\ LeaseActive(p) /\ Record(e, "SUBMITTED")
        /\ UNCHANGED <<lease, broker, unguarded>>
        BY DEF RuntimeInv, Mark, Check, Fenced, Authorized, outside
  <1>2. Guarded(p) => Untouched(e)
    <2>1. CASE Mark(p)
      <3>1. Applies(idem[e], "SUBMITTED") /\ idem[e] \in Statuses
            BY <1>1, <2>1 DEF Mark, TypeOK
      <3>2. idem[e] \in {"CLAIMED", "RETRY_AUTHORIZED"}
            BY <3>1 DEF Applies, LegalEdges, Statuses
      <3>3. broker[e] # "NONE" => idem[e] \notin {"ABSENT", "CLAIMED"}
            BY DEF RuntimeInv, NoForgottenCall
      <3> QED  BY <3>2, <3>3 DEF LeasedInv, NotSubmittedIsTrue, Untouched
    <2>2. CASE Check(p)
          BY <2>2 DEF Check, LeasedInv, Leased
    <2> QED  BY <2>1, <2>2
  <1>3. NotSubmittedIsTrue' /\ idem'[e] = "SUBMITTED"
        BY <1>1, RecordBelieved DEF LeasedInv
  <1>4. PICK step \in {"check", "call"} : Goto(p, step)
        BY DEF Mark, Check
  <1>5. step \in Steps
        BY DEF Steps
  <1>6. /\ \A q \in Procs \ {p} : proc'[q] = proc[q]
        /\ proc'[p].at = step /\ proc'[p].effect = e
        /\ proc'[p].fence <= lease'.fence /\ (Guarded(p)' <=> Guarded(p))
        BY <1>1, <1>4, <1>5, LeasedGoes
  <1>7. Guarded(p)' => Untouched(e)'
        BY <1>1, <1>2, <1>6 DEF Untouched
  <1>8. Leased(p)'
        BY <1>3, <1>6, <1>7 DEF Leased, At, ToldNotSubmitted
  <1> QED  BY <1>1, <1>3, <1>6, <1>8, LeasedStep

\* A caller is told either what the broker has done or that the broker never got
\* the request; one that does not hold the lease alone is remembered.
LEMMA InvokeLeased ==
    ASSUME RuntimeInv, LeasedInv, NEW p \in Procs, NEW e \in Effects,
           e = proc[p].effect, NEW reply \in Replies, Invoke(p, reply)
    PROVE  LeasedInv'
  <1>1. /\ Guarded(p) => idem[e] = "SUBMITTED" /\ Untouched(e) /\ unguarded' = unguarded
        /\ ~Guarded(p) => unguarded' = unguarded \cup {e}
        BY DEF Invoke, LeasedInv, Leased
  <1>2. UNCHANGED <<lease, idem>> /\ TypeOK
        BY DEF RuntimeInv, Invoke, durable
  <1>3. proc \in [Procs -> States]
        BY <1>2 DEF TypeOK, States
  <1>4. /\ \A q \in Procs \ {p} : proc'[q] = proc[q]
        /\ proc'[p].at = "respond" /\ proc'[p].said = reply /\ proc'[p].effect = e
        /\ proc'[p].fence = proc[p].fence
        BY <1>3 DEF Invoke, States
  <1>5. /\ \A f \in Effects \ {e} : broker'[f] = broker[f]
        /\ reply \in {"RETRY_SAFE", "DO_NOT_RETRY"} => broker'[e] = broker[e]
    <2>1. CASE UNCHANGED broker
          BY <2>1
    <2>2. ASSUME NEW d, broker' = [broker EXCEPT ![e] = d],
                 reply \in {broker'[e], "AMBIGUOUS"}, d \in {"ACCEPTED", "REJECTED"} \cup {broker[e]}
          PROVE  /\ \A f \in Effects \ {e} : broker'[f] = broker[f]
                 /\ reply \in {"RETRY_SAFE", "DO_NOT_RETRY"} => broker'[e] = broker[e]
      <3>1. broker[e] \in {"NONE", "ACCEPTED", "REJECTED"} /\ broker'[e] = d
            BY <1>2, <2>2 DEF TypeOK
      <3> QED  BY <1>2, <2>2, <3>1 DEF TypeOK
    <2> QED  BY <2>1, <2>2 DEF Invoke
  <1>6. NotSubmittedIsTrue'
    <2> SUFFICES ASSUME NEW f \in Effects, f \notin unguarded',
                        idem'[f] \in {"RETRY_AUTHORIZED", "FAILED_NOT_SUBMITTED"}
                 PROVE  broker'[f] = "NONE"
        BY DEF NotSubmittedIsTrue
    <2>1. f # e /\ f \notin unguarded
          BY <1>1, <1>2
    <2> QED  BY <1>2, <1>5, <2>1 DEF LeasedInv, NotSubmittedIsTrue
  <1>7. Leased(p)'
    <2>1. reply \in {"RETRY_SAFE", "DO_NOT_RETRY"} => Untouched(e)'
          BY <1>1, <1>5 DEF Untouched
    <2>2. proc'[p].fence <= lease'.fence
          BY <1>2, <1>4 DEF LeasedInv, Leased
    <2> QED  BY <1>4, <2>1, <2>2 DEF Leased, At, ToldNotSubmitted
  <1>8. ASSUME NEW q \in Procs \ {p}  PROVE Leased(q)'
    <2>1. CASE ~LeaseActive(q)
          BY <1>2, <1>4, <2>1, OthersLeased
    <2>2. CASE Guarded(p) /\ LeaseActive(q)
          BY <2>2, OneHolder
    <2>3. ASSUME ~Guarded(p), ~At(q, "idle"), Untouched(proc[q].effect)
          PROVE  Untouched(proc[q].effect)'
      <3>1. PICK f \in Effects : f = proc[q].effect
            BY <2>3 DEF RuntimeInv, Knows
      <3>2. CASE f = e
            BY <1>1, <1>4, <2>3, <3>1, <3>2 DEF Untouched
      <3>3. CASE f # e
            BY <1>1, <1>4, <1>5, <2>3, <3>1, <3>3 DEF Untouched
      <3> QED  BY <3>2, <3>3
    <2> QED  BY <1>2, <1>4, <2>1, <2>2, <2>3, OthersLeased
  <1> QED  BY <1>6, <1>7, <1>8 DEF LeasedInv

\* The provider is honest.
LEMMA ObserveLeased ==
    ASSUME TypeOK, LeasedInv, NEW p \in Procs, NEW e \in Effects,
           e = proc[p].effect, NEW answer \in Answers, Observe(p, answer)
    PROVE  LeasedInv'
  <1>1. UNCHANGED <<lease, idem, broker, unguarded>>
        BY DEF Observe, durable, outside
  <1>2. proc \in [Procs -> States]
        BY DEF TypeOK, States
  <1>3. /\ \A q \in Procs \ {p} : proc'[q] = proc[q]
        /\ proc'[p].at = "store" /\ proc'[p].said = answer /\ proc'[p].effect = e
        /\ proc'[p].fence = proc[p].fence
        BY <1>2 DEF Observe, States
  <1>4. answer = "NOT_SUBMITTED" => broker[e] = "NONE"
    <2>1. answer \in Truth(e) /\ broker[e] \in {"NONE", "ACCEPTED", "REJECTED"}
          BY DEF Observe, TypeOK
    <2> QED  BY <2>1 DEF Truth
  <1>5. NotSubmittedIsTrue'
        BY <1>1 DEF LeasedInv, NotSubmittedIsTrue
  <1>6. Leased(p)'
        BY <1>1, <1>3, <1>4 DEF LeasedInv, Leased, At, ToldNotSubmitted, Untouched
  <1> QED  BY <1>1, <1>3, <1>5, <1>6, LeasedStep

LEMMA RespondLeased ==
    ASSUME TypeOK, LeasedInv, NEW p \in Procs, NEW e \in Effects,
           e = proc[p].effect, RespondUnknown(p) \/ RespondRetrySafe(p) \/ RespondTerminal(p)
    PROVE  LeasedInv'
  <1>1. LeaseActive(p) /\ UNCHANGED <<lease, broker, unguarded>> /\ Rest(p)
        BY DEF RespondUnknown, RespondRetrySafe, RespondTerminal, Fenced, Authorized, outside
  <1>2. Leased(p)
        BY DEF LeasedInv
  <1>3. CASE RespondUnknown(p)
        BY <1>1, <1>3, RestLeased DEF RespondUnknown
  <1>4. CASE RespondRetrySafe(p)
    <2>1. Untouched(e)
          BY <1>1, <1>2, <1>4 DEF Leased, ToldNotSubmitted, RespondRetrySafe
    <2> QED  BY <1>1, <1>4, <2>1, RestLeased DEF RespondRetrySafe
  <1>5. CASE RespondTerminal(p)
    <2>1. Untouched(e)
          BY <1>1, <1>2, <1>5 DEF Leased, ToldNotSubmitted, RespondTerminal
    <2> QED  BY <1>1, <1>5, <2>1, RestLeased DEF RespondTerminal
  <1> QED  BY <1>3, <1>4, <1>5

LEMMA PersistLeased ==
    ASSUME TypeOK, LeasedInv, NEW p \in Procs, NEW e \in Effects,
           e = proc[p].effect, NEW key \in Keys,
           RespondCanonical(p, key) \/ StoreDisposition(p, key) \/ StoreCanonicalRejection(p, key)
    PROVE  LeasedInv'
  <1>1. CASE StoreDisposition(p, key)
    <2>1. LeaseActive(p) /\ UNCHANGED <<lease, broker, unguarded>> /\ Rest(p)
          BY <1>1 DEF StoreDisposition, Persist, Fenced, Authorized, outside
    <2>2. Record(e, StatusOf(proc[p].said)) /\ proc[p].said \in Verdicts /\ At(p, "store")
          BY <1>1 DEF StoreDisposition, Persist
    <2>3. Leased(p)
          BY DEF LeasedInv
    <2>4. CASE proc[p].said = "NOT_SUBMITTED"
      <3>1. Untouched(e)
            BY <2>1, <2>2, <2>3, <2>4 DEF Leased, ToldNotSubmitted
      <3> QED  BY <2>1, <2>2, <3>1, RestLeased
    <2>5. CASE proc[p].said # "NOT_SUBMITTED"
      <3>1. StatusOf(proc[p].said) \in {"CONFIRMED", "REJECTED", "OUTCOME_UNKNOWN"}
            BY <2>2, <2>5 DEF Verdicts, StatusOf
      <3> QED  BY <2>1, <2>2, <3>1, RestLeased
    <2> QED  BY <2>4, <2>5
  <1>2. CASE RespondCanonical(p, key) \/ StoreCanonicalRejection(p, key)
    <2>1. /\ LeaseActive(p) /\ UNCHANGED <<lease, broker, unguarded>>
          /\ proc' = [proc EXCEPT ![p].at = "adopt", ![p].key = key]
          BY <1>2 DEF RespondCanonical, StoreCanonicalRejection, Persist, Fenced, Authorized, outside
    <2>2. PICK says \in {"ACCEPTED", "REJECTED"} : Record(e, StatusOf(says))
          BY <1>2 DEF RespondCanonical, StoreCanonicalRejection, Persist
    <2>3. StatusOf(says) \in {"CONFIRMED", "REJECTED"}
          BY DEF StatusOf
    <2>4. NotSubmittedIsTrue'
          BY <2>1, <2>2, <2>3, RecordBelieved DEF LeasedInv
    <2>5. proc \in [Procs -> States]
          BY DEF TypeOK, States
    <2>6. /\ \A q \in Procs \ {p} : proc'[q] = proc[q]
          /\ proc'[p].at = "adopt" /\ proc'[p].fence = proc[p].fence
          BY <2>1, <2>5 DEF States
    <2>7. Leased(p)'
          BY <2>1, <2>6, LeasedElsewhere DEF LeasedInv, Leased
    <2> QED  BY <2>1, <2>4, <2>6, <2>7, LeasedStep
  <1> QED  BY <1>1, <1>2

\* A lease that ends takes with it what its holder was told.
LEMMA LeaseLeased ==
    ASSUME TypeOK, LeasedInv, Lapse \/ \E p \in Procs : Acquire(p)
    PROVE  LeasedInv'
  <1>1. UNCHANGED <<proc, idem, broker, unguarded>>
        BY DEF Lapse, Acquire, outside
  <1>2. lease.fence \in Nat /\ lease'.fence \in {lease.fence, lease.fence + 1}
        BY DEF TypeOK, Fences, Lapse, Acquire
  <1>3. ASSUME NEW p \in Procs  PROVE Leased(p)'
    <2>1. Leased(p) /\ proc[p].fence \in Nat
          BY DEF LeasedInv, TypeOK, Fences
    <2>2. ~LeaseActive(p)'
      <3>1. CASE Lapse
            BY <3>1 DEF Lapse, LeaseActive, TypeOK
      <3>2. CASE lease'.fence = lease.fence + 1
            BY <1>1, <1>2, <2>1, <3>2 DEF Leased, LeaseActive
      <3> QED  BY <3>1, <3>2 DEF Acquire
    <2>3. proc'[p].fence <= lease'.fence
          BY <1>1, <1>2, <2>1 DEF Leased
    <2> QED  BY <2>2, <2>3 DEF Leased, Guarded
  <1> QED  BY <1>1, <1>3 DEF LeasedInv, NotSubmittedIsTrue

LEMMA LeasedNext == RuntimeInv /\ LeasedInv /\ [Next]_vars => LeasedInv'
  <1> SUFFICES ASSUME RuntimeInv, LeasedInv, [Next]_vars  PROVE LeasedInv'
      OBVIOUS
  <1>0. TypeOK /\ \A p \in Procs : ~At(p, "idle") => \E e \in Effects : e = proc[p].effect
        BY DEF RuntimeInv, Knows
  <1>1. CASE Lapse \/ \E p \in Procs : Acquire(p)
        BY <1>0, <1>1, LeaseLeased
  <1>2. ASSUME NEW p \in Procs,
               \/ Crash(p) \/ CommitIntent(p)
               \/ \E next \in Effects \cup {NoOne} : Adopt(p, next)
               \/ \E e \in Effects : LoadForIntent(p, e) \/ ReconcileBoot(p, e)
               \/ \E e \in Effects, retry \in BOOLEAN : SubmitBoot(p, e, retry)
               \/ \E o \in outcomes : AdoptBoot(p, o)
        PROVE  LeasedInv'
        BY <1>0, <1>2, BootLeased
  <1>3. ASSUME NEW p \in Procs, Claim(p) \/ Preflight(p)  PROVE LeasedInv'
        BY <1>0, <1>3, ClaimLeased DEF Claim, Preflight, At
  <1>4. ASSUME NEW p \in Procs, Mark(p) \/ Check(p)  PROVE LeasedInv'
        BY <1>0, <1>4, MarkLeased DEF Mark, Check, At
  <1>5. ASSUME NEW p \in Procs, NEW reply \in Replies, Invoke(p, reply)  PROVE LeasedInv'
        BY <1>0, <1>5, InvokeLeased DEF Invoke, At
  <1>6. ASSUME NEW p \in Procs, NEW answer \in Answers, Observe(p, answer)  PROVE LeasedInv'
        BY <1>0, <1>6, ObserveLeased DEF Observe, At
  <1>7. ASSUME NEW p \in Procs, RespondUnknown(p) \/ RespondRetrySafe(p) \/ RespondTerminal(p)
        PROVE  LeasedInv'
        BY <1>0, <1>7, RespondLeased DEF RespondUnknown, RespondRetrySafe, RespondTerminal, At
  <1>8. ASSUME NEW p \in Procs, NEW key \in Keys,
               RespondCanonical(p, key) \/ StoreDisposition(p, key) \/ StoreCanonicalRejection(p, key)
        PROVE  LeasedInv'
        BY <1>0, <1>8, PersistLeased DEF RespondCanonical, StoreDisposition, StoreCanonicalRejection, At
  <1>9. CASE UNCHANGED vars
    <2>1. UNCHANGED <<lease, idem, broker, unguarded, proc>>
          BY <1>9 DEF vars
    <2> QED  BY <2>1 DEF LeasedInv, Leased, Guarded, LeaseActive, At, ToldNotSubmitted,
                         Untouched, NotSubmittedIsTrue
  <1> QED  BY <1>1, <1>2, <1>3, <1>4, <1>5, <1>6, <1>7, <1>8, <1>9
           DEF Next, Submit, AdoptAvailable, Reconcile

\* The session authorises a retry, or closes for good, only when the broker has
\* not got the request, whatever crashes, takeovers and late answers come before;
\* unless one called for it whose lease had passed on since its last check, or was
\* another's too (submit and reconcile, recoverable-runtime.ts).
THEOREM NotSubmittedHolds == Spec => []NotSubmittedIsTrue
  <1>1. Init => LeasedInv
    <2> SUFFICES ASSUME Init  PROVE LeasedInv
        OBVIOUS
    <2>1. ASSUME NEW p \in Procs  PROVE Leased(p)
      <3>1. proc[p] = Idle /\ lease.fence = 1
            BY DEF Init
      <3> QED  BY <3>1 DEF Idle, Leased, At, ToldNotSubmitted
    <2> QED  BY <2>1 DEF LeasedInv, NotSubmittedIsTrue, Init
  <1>2. RuntimeInv /\ LeasedInv /\ [Next]_vars => LeasedInv'
        BY LeasedNext
  <1>3. LeasedInv => NotSubmittedIsTrue
        BY DEF LeasedInv
  <1> QED  BY <1>1, <1>2, <1>3, RuntimeInvHolds, PTL DEF Spec
-----------------------------------------------------------------------------
(* Whatever the services wrote, the owner that boots on it takes for corruption *)
(* only with a stray to show.                                                  *)

\* An outcome is of an effect that was asked for and submitted, and a verdict of
\* the broker is in the record for good.
Stored ==
  \A o \in outcomes :
    /\ effects[o.effect] # "NONE" /\ Past(o.effect)
    /\ o.says \in {"ACCEPTED", "REJECTED"} => idem[o.effect] = StatusOf(o.says)

KeysNameOne == \A o, q \in outcomes : o.key = q.key => o = q

\* At most one effect closed the session; nobody had seen the broker take it up.
Ended ==
  /\ \A e \in Effects : idem[e] = "FAILED_NOT_SUBMITTED" => effects[e] = "TERMINAL"
  /\ \A e, f \in Effects : effects[e] = "TERMINAL" /\ effects[f] = "TERMINAL" => e = f
  /\ \A o \in outcomes : effects[o.effect] = "TERMINAL" =>
       o.kind = "DISPOSITION" /\ o.says = "NOT_SUBMITTED"

BootInv == Stored /\ KeysNameOne /\ Ended

\* A step that stores no outcome and takes no verdict back.
LEMMA OutcomesKeep ==
    ASSUME TypeOK, BootInv, outcomes' = outcomes,
           \A e \in Effects : /\ effects[e] # "NONE" => effects'[e] # "NONE"
                              /\ Past(e) => Past(e)'
                              /\ idem[e] \in {"CONFIRMED", "REJECTED"} => idem'[e] = idem[e]
    PROVE  Stored' /\ KeysNameOne'
  <1>1. \A o \in outcomes : o.effect \in Effects
        BY DEF TypeOK
  <1>2. KeysNameOne'
        BY DEF BootInv, KeysNameOne
  <1>3. ASSUME NEW o \in outcomes, o.says \in {"ACCEPTED", "REJECTED"}
        PROVE  idem'[o.effect] = StatusOf(o.says)
    <2>1. idem[o.effect] = StatusOf(o.says)
          BY <1>3 DEF BootInv, Stored
    <2>2. StatusOf(o.says) \in {"CONFIRMED", "REJECTED"}
          BY <1>3 DEF StatusOf
    <2> QED  BY <1>1, <2>1, <2>2
  <1>4. \A o \in outcomes : effects'[o.effect] # "NONE" /\ Past(o.effect)'
        BY <1>1 DEF BootInv, Stored
  <1> QED  BY <1>2, <1>3, <1>4 DEF Stored

\* A step that closes no effect.
LEMMA EndedKeeps ==
    ASSUME TypeOK, BootInv, outcomes' = outcomes,
           \A e \in Effects : /\ effects'[e] = "TERMINAL" <=> effects[e] = "TERMINAL"
                              /\ idem'[e] = "FAILED_NOT_SUBMITTED" => idem[e] = "FAILED_NOT_SUBMITTED"
    PROVE  Ended'
  <1>1. \A o \in outcomes : o.effect \in Effects
        BY DEF TypeOK
  <1> QED  BY <1>1 DEF BootInv, Ended

\* Nothing of the records, the outcomes and the effects changes.
LEMMA SameRows ==
    ASSUME BootInv, UNCHANGED <<idem, outcomes, effects>>
    PROVE  BootInv'
  BY DEF BootInv, Stored, KeysNameOne, Ended, Past

\* What a recorded status leaves of the records.
LEMMA RecordKeeps ==
    ASSUME TypeOK, NEW e \in Effects, NEW s, Record(e, s), Accepts(idem[e], s), s \in Requestable
    PROVE  /\ idem'[e] = s /\ \A f \in Effects \ {e} : idem'[f] = idem[f]
           /\ \A f \in Effects : /\ Past(f) => Past(f)'
                                 /\ idem[f] \in {"CONFIRMED", "REJECTED"} => idem'[f] = idem[f]
  <1>1. idem'[e] = s /\ \A f \in Effects \ {e} : idem'[f] = idem[f]
        BY DEF Record, TypeOK
  <1>2. idem[e] \in {"CONFIRMED", "REJECTED"} => s = idem[e]
    <2>1. idem[e] \in {"CONFIRMED", "REJECTED"} => LegalEdges(idem[e]) = {}
          BY DEF LegalEdges
    <2> QED  BY <2>1 DEF Accepts, Applies, SameAgain
  <1>3. Past(e)'
        BY <1>1 DEF Past, Requestable
  <1> QED  BY <1>1, <1>2, <1>3 DEF Past

LEMMA RecordBoots ==
    ASSUME RuntimeInv, BootInv, NEW p \in Procs, NEW e \in Effects, e = proc[p].effect,
           \/ Claim(p) \/ Mark(p) \/ Check(p) \/ Preflight(p)
           \/ RespondUnknown(p) \/ RespondRetrySafe(p)
    PROVE  BootInv'
  <1>1. TypeOK /\ UNCHANGED <<outcomes, effects>>
        BY DEF RuntimeInv, Claim, Mark, Check, Preflight, RespondUnknown, RespondRetrySafe
  <1>2. \/ UNCHANGED idem
        \/ idem[e] = "ABSENT" /\ Record(e, "CLAIMED")
        \/ \E s \in {"SUBMITTED", "OUTCOME_UNKNOWN", "RETRY_AUTHORIZED"} :
             Record(e, s) /\ Accepts(idem[e], s)
        BY DEF Claim, Mark, Check, Preflight, RespondUnknown, RespondRetrySafe, Accepts
  <1>3. CASE UNCHANGED idem
        BY <1>1, <1>3, SameRows
  <1>4. CASE idem[e] = "ABSENT" /\ Record(e, "CLAIMED")
    <2>1. idem'[e] = "CLAIMED" /\ \A f \in Effects \ {e} : idem'[f] = idem[f]
          BY <1>1, <1>4 DEF Record, TypeOK
    <2>2. \A f \in Effects : /\ Past(f) => Past(f)'
                             /\ idem[f] \in {"CONFIRMED", "REJECTED"} => idem'[f] = idem[f]
          BY <1>4, <2>1 DEF Past
    <2>3. Stored' /\ KeysNameOne'
          BY <1>1, <2>2, OutcomesKeep
    <2>4. Ended'
          BY <1>1, <2>1, EndedKeeps
    <2> QED  BY <2>3, <2>4 DEF BootInv
  <1>5. ASSUME NEW s \in {"SUBMITTED", "OUTCOME_UNKNOWN", "RETRY_AUTHORIZED"},
               Record(e, s), Accepts(idem[e], s)
        PROVE  BootInv'
    <2>1. s \in Requestable
          BY DEF Requestable, Statuses
    <2>2. /\ idem'[e] = s /\ \A f \in Effects \ {e} : idem'[f] = idem[f]
          /\ \A f \in Effects : /\ Past(f) => Past(f)'
                                /\ idem[f] \in {"CONFIRMED", "REJECTED"} => idem'[f] = idem[f]
          BY <1>1, <1>5, <2>1, RecordKeeps
    <2>3. Stored' /\ KeysNameOne'
          BY <1>1, <2>2, OutcomesKeep
    <2>4. Ended'
          BY <1>1, <2>2, EndedKeeps
    <2> QED  BY <2>3, <2>4 DEF BootInv
  <1> QED  BY <1>2, <1>3, <1>4, <1>5

\* The end of the session: the first effect that closes it, and none of its
\* outcomes says that the broker has it.
LEMMA TerminalBoots ==
    ASSUME RuntimeInv, RowsInv, BootInv, NEW p \in Procs, NEW e \in Effects,
           e = proc[p].effect, RespondTerminal(p)
    PROVE  BootInv'
  <1>1. /\ TypeOK /\ outcomes' = outcomes /\ idem[e] = "SUBMITTED"
        /\ Record(e, "FAILED_NOT_SUBMITTED") /\ ~terminal
        /\ \A o \in outcomes : o.effect = e => o.kind = "DISPOSITION" /\ o.says = "NOT_SUBMITTED"
        BY DEF RuntimeInv, RespondTerminal, Fenced, Authorized
  <1>2. effects'[e] = "TERMINAL" /\ \A f \in Effects \ {e} : effects'[f] = effects[f]
        BY <1>1 DEF RespondTerminal, TypeOK
  <1>3. "FAILED_NOT_SUBMITTED" \in Requestable /\ Accepts(idem[e], "FAILED_NOT_SUBMITTED")
        BY <1>1 DEF Requestable, Statuses, Accepts, Applies, LegalEdges
  <1>4. /\ idem'[e] = "FAILED_NOT_SUBMITTED" /\ \A f \in Effects \ {e} : idem'[f] = idem[f]
        /\ \A f \in Effects : /\ Past(f) => Past(f)'
                              /\ idem[f] \in {"CONFIRMED", "REJECTED"} => idem'[f] = idem[f]
        BY <1>1, <1>3, RecordKeeps
  <1>5. Stored' /\ KeysNameOne'
        BY <1>1, <1>2, <1>4, OutcomesKeep
  <1>6. \A f \in Effects : effects[f] # "TERMINAL"
        BY <1>1 DEF RowsInv, EffectRows
  <1>7. \A f \in Effects : effects'[f] = "TERMINAL" <=> f = e
        BY <1>2, <1>6
  <1>8. \A o \in outcomes : o.effect \in Effects
        BY <1>1 DEF TypeOK
  <1>9. \A f \in Effects \ {e} : idem'[f] # "FAILED_NOT_SUBMITTED"
        BY <1>4, <1>6 DEF BootInv, Ended
  <1>10. Ended'
        BY <1>1, <1>7, <1>8, <1>9 DEF Ended
  <1> QED  BY <1>5, <1>10 DEF BootInv

\* An outcome and its status.
LEMMA PersistBoots ==
    ASSUME RuntimeInv, BootInv, NEW p \in Procs, NEW e \in Effects, e = proc[p].effect,
           NEW key \in Keys,
           RespondCanonical(p, key) \/ StoreDisposition(p, key) \/ StoreCanonicalRejection(p, key)
    PROVE  BootInv'
  <1>1. PICK kind, says : Persist(p, kind, says, key) /\ says \in Verdicts
    <2>1. "ACCEPTED" \in Verdicts /\ "REJECTED" \in Verdicts
          BY DEF Verdicts
    <2> QED  BY <2>1 DEF RespondCanonical, StoreDisposition, StoreCanonicalRejection
  <1> DEFINE new == [key |-> key, effect |-> e, kind |-> kind, says |-> says,
                     fence |-> proc[p].fence]
  <1>2. /\ TypeOK /\ effects[e] = "PENDING" /\ outcomes' = outcomes \cup {new}
        /\ Record(e, StatusOf(says)) /\ Accepts(idem[e], StatusOf(says)) /\ effects' = effects
        /\ \A o \in outcomes : o.key = key => o = new
        BY <1>1 DEF RuntimeInv, Persist, Fenced, NamedOnce
  <1>3. StatusOf(says) \in Requestable \ {"FAILED_NOT_SUBMITTED"}
        BY <1>1 DEF StatusOf, Verdicts, Requestable, Statuses
  <1>4. /\ idem'[e] = StatusOf(says) /\ \A f \in Effects \ {e} : idem'[f] = idem[f]
        /\ \A f \in Effects : /\ Past(f) => Past(f)'
                              /\ idem[f] \in {"CONFIRMED", "REJECTED"} => idem'[f] = idem[f]
        BY <1>2, <1>3, RecordKeeps
  <1>5. new.effect = e /\ new.says = says /\ new.key = key
        OBVIOUS
  <1> HIDE DEF new
  <1>6. \A o \in outcomes : o.effect \in Effects
        BY <1>2 DEF TypeOK
  <1>7. KeysNameOne'
        BY <1>2, <1>5 DEF BootInv, KeysNameOne
  <1>8. ASSUME NEW o \in outcomes'
        PROVE  /\ effects'[o.effect] # "NONE" /\ Past(o.effect)'
               /\ o.says \in {"ACCEPTED", "REJECTED"} => idem'[o.effect] = StatusOf(o.says)
    <2>1. CASE o = new
      <3>1. Past(e)'
            BY <1>3, <1>4 DEF Past, Requestable
      <3> QED  BY <1>2, <1>4, <1>5, <2>1, <3>1
    <2>2. CASE o \in outcomes
      <3>1. effects[o.effect] # "NONE" /\ Past(o.effect) /\ o.effect \in Effects
            BY <1>6, <2>2 DEF BootInv, Stored
      <3>2. ASSUME o.says \in {"ACCEPTED", "REJECTED"}  PROVE idem'[o.effect] = StatusOf(o.says)
        <4>1. idem[o.effect] = StatusOf(o.says)
              BY <2>2, <3>2 DEF BootInv, Stored
        <4>2. StatusOf(o.says) \in {"CONFIRMED", "REJECTED"}
              BY <3>2 DEF StatusOf
        <4> QED  BY <1>4, <3>1, <4>1, <4>2
      <3> QED  BY <1>2, <1>4, <3>1, <3>2
    <2> QED  BY <1>2, <2>1, <2>2
  <1>9. Ended'
    <2>1. \A f \in Effects : idem'[f] = "FAILED_NOT_SUBMITTED" => effects'[f] = "TERMINAL"
          BY <1>2, <1>3, <1>4 DEF BootInv, Ended
    <2>2. \A o \in outcomes' : effects'[o.effect] = "TERMINAL" => o \in outcomes
          BY <1>2, <1>5
    <2> QED  BY <1>2, <2>1, <2>2 DEF BootInv, Ended
  <1> QED  BY <1>7, <1>8, <1>9 DEF BootInv, Stored

\* A commit that makes an effect pending or adopts one.
LEMMA CommitBoots ==
    ASSUME RuntimeInv, BootInv, NEW p \in Procs, NEW e \in Effects, e = proc[p].effect,
           CommitIntent(p) \/ \E next \in Effects \cup {NoOne} : Adopt(p, next)
    PROVE  BootInv'
  <1>1. TypeOK /\ UNCHANGED <<idem, outcomes>>
        BY DEF RuntimeInv, CommitIntent, Adopt
  <1>2. ASSUME NEW f \in Effects
        PROVE  /\ effects[f] # "NONE" => effects'[f] # "NONE"
               /\ effects'[f] = "TERMINAL" <=> effects[f] = "TERMINAL"
    <2>1. CASE CommitIntent(p)
      <3>1. effects[e] = "NONE" /\ effects' = [effects EXCEPT ![e] = "PENDING"]
            BY <2>1 DEF CommitIntent
      <3> QED  BY <1>1, <3>1 DEF TypeOK
    <2>2. ASSUME NEW next \in Effects \cup {NoOne}, Adopt(p, next)
          PROVE  /\ effects[f] # "NONE" => effects'[f] # "NONE"
                 /\ effects'[f] = "TERMINAL" <=> effects[f] = "TERMINAL"
      <3>1. /\ effects[e] = "PENDING" /\ effects'[e] = "ADOPTED"
            /\ next # NoOne => effects[next] = "NONE" /\ effects'[next] = "PENDING"
            /\ \A g \in Effects \ {e, next} : effects'[g] = effects[g]
            BY <1>1, <2>2, AdoptionMoves
      <3>2. f # NoOne
            BY RuntimeAssumption DEF RuntimeAssumption
      <3>3. CASE f = e
            BY <3>1, <3>3
      <3>4. CASE f = next
            BY <3>1, <3>2, <3>4
      <3>5. CASE f # e /\ f # next
            BY <3>1, <3>5
      <3> QED  BY <3>3, <3>4, <3>5
    <2> QED  BY <2>1, <2>2
  <1>3. \A f \in Effects : Past(f) => Past(f)'
        BY <1>1 DEF Past
  <1>4. Stored' /\ KeysNameOne'
        BY <1>1, <1>2, <1>3, OutcomesKeep
  <1>5. Ended'
        BY <1>1, <1>2, EndedKeeps
  <1> QED  BY <1>4, <1>5 DEF BootInv

LEMMA BootNext == RuntimeInv /\ RowsInv /\ BootInv /\ [Next]_vars => BootInv'
  <1> SUFFICES ASSUME RuntimeInv, RowsInv, BootInv, [Next]_vars  PROVE BootInv'
      OBVIOUS
  <1>0. \A p \in Procs : ~At(p, "idle") => \E e \in Effects : e = proc[p].effect
        BY DEF RuntimeInv, Knows
  <1>1. CASE Lapse \/ \E p \in Procs : Acquire(p)
        BY <1>1, SameRows DEF Lapse, Acquire
  <1>2. ASSUME NEW p \in Procs,
               \/ Crash(p)
               \/ \E e \in Effects : LoadForIntent(p, e) \/ ReconcileBoot(p, e)
               \/ \E e \in Effects, retry \in BOOLEAN : SubmitBoot(p, e, retry)
               \/ \E o \in outcomes : AdoptBoot(p, o)
               \/ \E reply \in Replies : Invoke(p, reply)
               \/ \E answer \in Answers : Observe(p, answer)
        PROVE  BootInv'
    <2>1. UNCHANGED durable
          BY <1>2 DEF Crash, LoadForIntent, ReconcileBoot, SubmitBoot, AdoptBoot, Invoke, Observe
    <2> QED  BY <2>1, SameRows DEF durable
  <1>3. ASSUME NEW p \in Procs,
               \/ Claim(p) \/ Mark(p) \/ Check(p) \/ Preflight(p)
               \/ RespondUnknown(p) \/ RespondRetrySafe(p)
        PROVE  BootInv'
    <2>1. PICK e \in Effects : e = proc[p].effect
          BY <1>0, <1>3 DEF Claim, Mark, Check, Preflight, RespondUnknown, RespondRetrySafe, At
    <2> QED  BY <1>3, <2>1, RecordBoots
  <1>4. ASSUME NEW p \in Procs, RespondTerminal(p)  PROVE BootInv'
        BY <1>0, <1>4, TerminalBoots DEF RespondTerminal, At
  <1>5. ASSUME NEW p \in Procs, NEW key \in Keys,
               RespondCanonical(p, key) \/ StoreDisposition(p, key) \/ StoreCanonicalRejection(p, key)
        PROVE  BootInv'
        BY <1>0, <1>5, PersistBoots DEF RespondCanonical, StoreDisposition, StoreCanonicalRejection, At
  <1>6. ASSUME NEW p \in Procs,
               CommitIntent(p) \/ \E next \in Effects \cup {NoOne} : Adopt(p, next)
        PROVE  BootInv'
        BY <1>0, <1>6, CommitBoots DEF CommitIntent, Adopt, At
  <1>7. CASE UNCHANGED vars
        BY <1>7, SameRows DEF vars
  <1> QED  BY <1>1, <1>2, <1>3, <1>4, <1>5, <1>6, <1>7 DEF Next, Submit, AdoptAvailable, Reconcile

LEMMA BootInit == Init => BootInv
  BY DEF Init, BootInv, Stored, KeysNameOne, Ended

\* With nothing stray, what the boot of a live or closed session finds is coherent.
LEMMA SnapshotCoherent ==
    ASSUME RuntimeInv, RowsInv, BootInv, \A e \in Effects : ~Strays(e), NEW p \in Procs,
           terminal \/ LeaseHeldBy(p)
    PROVE  Coherent(Snapshot(OwnerOf[p]))
  <1> DEFINE s == Snapshot(OwnerOf[p])
  <1>0. /\ s.terminal = terminal /\ s.effects = effects /\ s.idem = idem /\ s.outcomes = outcomes
        /\ s.adopted = AdoptedKeys /\ s.leaseValid = LeaseHeldBy(p) /\ DOMAIN s.effects = Effects
        BY DEF Snapshot, LeaseHeldBy, RuntimeInv, TypeOK
  <1> SUFFICES Coherent(s)
      OBVIOUS
  <1> HIDE DEF s
  <1>1. ASSUME NEW e \in Effects
        PROVE  /\ \A d, q \in Dispositions(s, e) : d = q
               /\ Dispositions(s, e) # {} => effects[e] # "ADOPTED"
               /\ "NOT_SUBMITTED" \in Says(Dispositions(s, e)) => idem[e] = "RETRY_AUTHORIZED"
               /\ terminal => effects[e] # "PENDING"
    <2> DEFINE observed == {o \in outcomes : o.effect = e /\ o.kind = "DISPOSITION"}
    <2>1. observed = Dispositions(s, e)
          BY <1>0 DEF Dispositions, Linked
    <2>2. /\ \A o, q \in observed : o = q
          /\ ~(observed # {} /\ effects[e] = "ADOPTED")
          /\ ~("NOT_SUBMITTED" \in Says(observed) /\ idem[e] # "RETRY_AUTHORIZED")
          /\ ~(terminal /\ effects[e] = "PENDING")
          BY DEF Strays
    <2> QED  BY <2>1, <2>2
  <1>2. ASSUME NEW e \in Effects, NEW c \in Canonicals(s, e)
        PROVE  c.says \in {"ACCEPTED", "REJECTED"} /\ idem[e] = StatusOf(c.says)
    <2>1. c \in outcomes /\ c.effect = e /\ c.kind = "CANONICAL"
          BY <1>0 DEF Canonicals, Linked
    <2>2. c.says = broker[e] /\ broker[e] \in {"NONE", "ACCEPTED", "REJECTED"}
          BY <2>1 DEF RuntimeInv, OutcomesAreTrue, TypeOK
    <2>3. c.says # "NONE"
          BY <2>1 DEF RuntimeInv, TypeOK, Verdicts
    <2> QED  BY <2>1, <2>2, <2>3 DEF BootInv, Stored
  <1>3. CASE terminal
    <2>1. PICK e \in Effects : effects[e] = "TERMINAL"
          BY <1>3 DEF RowsInv
    <2>2. Pending(s) = {}
          BY <1>0, <1>1, <1>3 DEF Pending
    <2>3. Closed(s) = {e}
          BY <1>0, <2>1 DEF Closed, BootInv, Ended
    <2>4. \A o \in Linked(s, e) : o.kind = "DISPOSITION" /\ o.says = "NOT_SUBMITTED"
          BY <1>0, <2>1 DEF Linked, BootInv, Ended
    <2>5. Canonicals(s, e) = {} /\ Says(Dispositions(s, e)) \subseteq {"NOT_SUBMITTED"}
          BY <2>4 DEF Canonicals, Dispositions, Says
    <2>6. s.idem[e] = "FAILED_NOT_SUBMITTED"
          BY <1>0, <2>1 DEF RowsInv, EffectRows
    <2>7. TerminalCoherent(s)
      <3>1. e \in Closed(s)
            BY <2>3
      <3> QED  BY <2>2, <2>3, <2>5, <2>6, <3>1 DEF TerminalCoherent
    <2>8. s.terminal = TRUE
          BY <1>0, <1>3 DEF RuntimeInv, TypeOK
    <2>9. Coherent(s) = TerminalCoherent(s)
          BY <2>8 DEF Coherent
    <2> QED  BY <2>7, <2>9
  <1>4. CASE ~terminal
    <2>0. \A e \in Effects : effects[e] # "TERMINAL"
          BY <1>4 DEF RowsInv, EffectRows
    <2>1. Closed(s) = {} /\ s.leaseValid
          BY <1>0, <1>4, <2>0 DEF Closed
    <2>2. ASSUME NEW e \in Pending(s)  PROVE PendingCoherent(s, e)
      <3>1. e \in Effects /\ effects[e] = "PENDING"
            BY <1>0 DEF Pending
      <3>2. s.idem[e] # "FAILED_NOT_SUBMITTED"
            BY <1>0, <3>1 DEF BootInv, Ended
      <3>3. Cardinality(Canonicals(s, e)) <= 1 /\ Cardinality(Dispositions(s, e)) <= 1
        <4>1. \A o, q \in Canonicals(s, e) : o = q
              BY <1>0, <3>1 DEF Canonicals, Linked, RuntimeInv, OutcomesAreTrue
        <4>2. \A o, q \in Dispositions(s, e) : o = q
              BY <1>1, <3>1
        <4> QED  BY <4>1, <4>2, AtMostOne
      <3>4. ASSUME NEW d \in Dispositions(s, e)
            PROVE  /\ d.says \in {"ACCEPTED", "REJECTED"} => idem[e] = StatusOf(d.says)
                   /\ d.says = "NOT_SUBMITTED" => idem[e] = "RETRY_AUTHORIZED"
                   /\ idem[e] # "ABSENT" /\ d.says \in Verdicts
        <4>1. d \in outcomes /\ d.effect = e
              BY <1>0 DEF Dispositions, Linked
        <4>2. d.says = "NOT_SUBMITTED" => idem[e] = "RETRY_AUTHORIZED"
              BY <1>1, <3>1 DEF Says
        <4> QED  BY <4>1, <4>2 DEF BootInv, Stored, Past, RuntimeInv, TypeOK
      <3>5. ASSUME NEW c \in Canonicals(s, e)  PROVE CanonicalCoherent(s, e, c)
        <4>1. c.says \in {"ACCEPTED", "REJECTED"} /\ idem[e] = StatusOf(c.says)
              BY <1>2, <3>1
        <4>2. Opposite(c.says) \notin Says(Dispositions(s, e))
          <5> SUFFICES ASSUME NEW d \in Dispositions(s, e), d.says = Opposite(c.says)  PROVE FALSE
              BY DEF Says
          <5> QED  BY <3>4, <4>1 DEF Opposite, StatusOf
        <4>3. "NOT_SUBMITTED" \notin Says(Dispositions(s, e))
              BY <1>1, <3>1, <4>1 DEF StatusOf
        <4>4. /\ s.idem[e] \notin {"ABSENT", "CLAIMED", "RETRY_AUTHORIZED", "FAILED_NOT_SUBMITTED"}
              /\ s.idem[e] # StatusOf(Opposite(c.says))
              BY <1>0, <4>1 DEF Opposite, StatusOf
        <4> QED  BY <4>2, <4>3, <4>4 DEF CanonicalCoherent
      <3>6. ASSUME NEW d \in Dispositions(s, e)  PROVE DispositionCoherent(s, e, d)
            BY <1>0, <3>4 DEF DispositionCoherent, StatusOf, Verdicts
      <3> QED  BY <3>2, <3>3, <3>5, <3>6 DEF PendingCoherent
    <2>3. ASSUME NEW o \in s.outcomes  PROVE OutcomeExplained(s, o)
      <3>1. /\ o \in outcomes /\ o.effect \in Effects /\ effects[o.effect] # "NONE"
            /\ o.kind \in {"CANONICAL", "DISPOSITION"}
            BY <1>0 DEF RuntimeInv, TypeOK, BootInv, Stored
      <3>2. CASE o.key \in AdoptedKeys
        <4>1. PICK r \in receipts : r.kind = "ADOPTION" /\ r.key = o.key
              BY <3>2 DEF AdoptedKeys
        <4>2. r.effect \in Effects
              BY DEF RuntimeInv, TypeOK
        <4>3. effects[r.effect] = "ADOPTED" /\ Grounded(r.effect, o.key)
              BY <4>1, <4>2 DEF RowsInv, EffectRows, Receipted
        <4>4. o.effect = r.effect /\ o.kind = "CANONICAL"
              BY <3>1, <4>3 DEF Grounded, BootInv, KeysNameOne
        <4> QED  BY <1>0, <3>2, <4>3, <4>4 DEF OutcomeExplained
      <3>3. CASE o.key \notin AdoptedKeys
        <4>1. effects[o.effect] # "ADOPTED"
          <5> SUFFICES ASSUME effects[o.effect] = "ADOPTED"  PROVE FALSE
              OBVIOUS
          <5>1. o.kind = "CANONICAL"
                BY <1>0, <1>1, <3>1 DEF Dispositions, Linked
          <5>2. PICK r \in receipts : r.effect = o.effect /\ r.kind = "ADOPTION"
                BY <3>1 DEF RowsInv, EffectRows, Receipted
          <5>3. Grounded(o.effect, r.key)
                BY <3>1, <5>2 DEF RowsInv, EffectRows
          <5>4. r.key = o.key
                BY <3>1, <5>1, <5>3 DEF Grounded, RuntimeInv, OutcomesAreTrue
          <5> QED  BY <3>3, <5>2, <5>4 DEF AdoptedKeys
        <4>2. effects[o.effect] = "PENDING"
              BY <2>0, <3>1, <4>1 DEF RuntimeInv, TypeOK
        <4> QED  BY <1>0, <3>3, <4>2 DEF OutcomeExplained
      <3> QED  BY <3>2, <3>3
    <2>4. s.terminal = FALSE
          BY <1>0, <1>4 DEF RuntimeInv, TypeOK
    <2>5. Coherent(s) <=> /\ Closed(s) = {}
                          /\ s.leaseValid
                          /\ \A e \in Pending(s) : PendingCoherent(s, e)
                          /\ \A o \in s.outcomes : OutcomeExplained(s, o)
          BY <2>4 DEF Coherent
    <2> QED  BY <2>1, <2>2, <2>3, <2>5
  <1> QED  BY <1>3, <1>4

\* A coherent snapshot is classified as something else than corruption.
LEMMA CoherentBoots ==
    ASSUME NEW s, Coherent(s)
    PROVE  BootStatus(s) # "RECOVERY_REJECTED"
  <1>1. CASE s.terminal \/ Pending(s) = {}
        BY <1>1 DEF BootStatus
  <1>2. CASE ~(s.terminal \/ Pending(s) = {})
    <2> DEFINE asked == {i \in DOMAIN Priority : \E e \in Pending(s) : Candidate(s, e) = Priority[i]}
               first == CHOOSE i \in asked : \A j \in asked : i <= j
    <2>1. /\ DOMAIN Priority = 1..4
          /\ Priority[1] = "RECONCILIATION_REQUIRED" /\ Priority[2] = "CANONICAL_OUTCOME_REQUIRED"
          /\ Priority[3] = "OUTCOME_AVAILABLE" /\ Priority[4] = "INTENT_DISPOSITION_REQUIRED"
          BY DEF Priority
    <2>2. PICK e \in Pending(s) : TRUE
          BY <1>2
    <2>3. \E i \in 1..4 : Candidate(s, e) = Priority[i]
          BY <2>1 DEF Candidate
    <2>4. asked # {} /\ asked \subseteq 1..4
          BY <2>1, <2>2, <2>3
    <2>5. \E i \in asked : \A j \in asked : i <= j
      <3> HIDE DEF asked
      <3>1. PICK i \in 1..4 : i \in asked
            BY <2>4
      <3>2. 1 \in asked \/ 2 \in asked \/ 3 \in asked \/ 4 \in asked
            BY <3>1
      <3> QED  BY <2>4, <3>2
    <2>6. first \in 1..4
          BY <2>4, <2>5
    <2>7. BootStatus(s) = Priority[first]
          BY <1>2 DEF BootStatus
    <2> HIDE DEF first
    <2> QED  BY <2>1, <2>6, <2>7
  <1> QED  BY <1>1, <1>2

\* Whatever crashes, takeovers, lost replies and shared owners come before, the
\* rows that the services wrote read as corruption to the owner that boots on them
\* only with one of four histories in them: an effect observed twice, one observed
\* and then adopted, a retry that went on after its observation, and an effect
\* that another's end left pending (classifyRecoveryBoot on what the writers
\* wrote).
THEOREM BootableHolds == Spec => []Bootable
  <1>1. RuntimeInv /\ RowsInv /\ BootInv => Bootable
    <2> SUFFICES ASSUME RuntimeInv, RowsInv, BootInv, NEW p \in Procs, terminal \/ LeaseHeldBy(p),
                        Boot(p) = "RECOVERY_REJECTED"
                 PROVE  \E e \in Effects : Strays(e)
        BY DEF Bootable
    <2>1. ~Coherent(Snapshot(OwnerOf[p]))
          BY CoherentBoots DEF Boot
    <2> QED  BY <2>1, SnapshotCoherent
  <1> QED  BY <1>1, BootNext, BootInit, RowsInit, RowsNext, RuntimeInvHolds, PTL DEF Spec
=============================================================================
