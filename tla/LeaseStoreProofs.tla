-------------------------- MODULE LeaseStoreProofs --------------------------
(***************************************************************************)
(* What the recovery lease guarantees for every set of owners and every    *)
(* bound: the types, that a token names one owner, that saves follow the   *)
(* tokens, that no step parts the two rows once the recovery record is     *)
(* there, and that the store implements Fencing.  Nothing is assumed of    *)
(* the caller that initialises the record.                                 *)
(***************************************************************************)
EXTENDS LeaseStore, TLAPS

\* The inductive invariant.
SafeInv == TypeOK /\ OneOwnerPerFence /\ WritesFollowFences

\* The new token of a grant exceeds every token seen before, of either row.
LEMMA GrantPreserves ==
    ASSUME SafeInv,
           NEW o \in Owners, NEW d \in Durations, NEW f \in 1..MaxFence,
           f > lease.fence, RecordRow => stateFence <= f,
           Grant(o, f, d)
    PROVE  SafeInv'
<1>. USE LeaseAssumption DEF Grant, Granted, SyncedTo, RecordRow, SafeInv
<1>1. TypeOK'
  <2>1. now + d \in 0..MaxTime /\ now + d # 0
    BY DEF TypeOK
  <2>2. lease' \in [owner : Owners \cup {NoOwner}, fence : 0..MaxFence,
                    expiresAt : 0..MaxTime]
    BY <2>1 DEF TypeOK
  <2>3. handles' \subseteq Handle
    BY DEF TypeOK, Handle
  <2>. QED BY <2>1, <2>2, <2>3 DEF TypeOK
<1>2. OneOwnerPerFence'
  <2>1. \A h \in handles : h.fence <= lease.fence /\ h.fence \in Nat
    BY DEF OneOwnerPerFence, TypeOK, Handle
  <2>2. lease'.fence = f /\ lease.fence \in Nat
    BY DEF TypeOK
  <2>. QED BY <2>1, <2>2 DEF OneOwnerPerFence
<1>3. WritesFollowFences'
  <2>1. \A w \in writes : w.fence \in Nat /\ w.fence >= 1
                          /\ w.fence <= stateFence
    <3>1. \A w \in writes : w.fence <= stateFence
      BY DEF WritesFollowFences
    <3>2. \A w \in writes : w.fence \in 1..MaxFence
      BY DEF TypeOK, Write
    <3>. QED BY <3>1, <3>2
  <2>2. \A w \in writes : w.fence <= stateFence'
    BY <2>1 DEF TypeOK
  <2>3. writes' = writes /\ revision' = revision /\ handles \subseteq handles'
    OBVIOUS
  <2>. QED BY <2>2, <2>3 DEF WritesFollowFences
<1>. QED BY <1>1, <1>2, <1>3

\* A handle is handed out only with a lease row, and never from its future.
LEMMA HandleTyped ==
    ASSUME SafeInv, NEW h \in handles
    PROVE  /\ h.owner \in Owners /\ h.fence \in 1..MaxFence
           /\ h = Granted(h.owner, h.fence)
           /\ h.fence <= lease.fence /\ LeaseRow
BY DEF SafeInv, TypeOK, Handle, Granted, OneOwnerPerFence, LeaseRow

\* Renewing and releasing touch no row that the invariants relate.
LEMMA RenewPreserves ==
    ASSUME SafeInv, NEW h \in handles, NEW d \in Durations, Renew(h, d)
    PROVE  SafeInv'
<1>. USE LeaseAssumption DEF SafeInv, Renew, HeldBy, Held
<1>1. TypeOK'
  <2>1. now + d \in 0..MaxTime /\ now + d # 0
    BY DEF TypeOK
  <2>. QED BY <2>1 DEF TypeOK
<1>2. OneOwnerPerFence' /\ WritesFollowFences'
  BY DEF TypeOK, OneOwnerPerFence, WritesFollowFences
<1>. QED BY <1>1, <1>2

LEMMA ReleasePreserves ==
    ASSUME SafeInv, NEW h \in handles, Release(h)
    PROVE  SafeInv'
<1>. USE LeaseAssumption DEF SafeInv
<1>1. /\ lease' \in [owner : Owners \cup {NoOwner}, fence : 0..MaxFence,
                     expiresAt : 0..MaxTime]
      /\ lease'.owner = NoOwner /\ lease'.expiresAt = 0
      /\ lease'.fence = lease.fence
  <2>1. lease \in [owner : Owners \cup {NoOwner}, fence : 0..MaxFence,
                   expiresAt : 0..MaxTime]
    BY DEF TypeOK
  <2>2. lease' = [lease EXCEPT !.owner = NoOwner, !.expiresAt = 0]
    BY DEF Release
  <2>3. 0 \in 0..MaxTime
    OBVIOUS
  <2>. QED BY <2>1, <2>2, <2>3
<1>2. UNCHANGED <<now, stateFence, revision, terminal, handles, writes>>
  BY DEF Release
<1>3. TypeOK'
  BY <1>1, <1>2 DEF TypeOK
<1>4. OneOwnerPerFence' /\ WritesFollowFences'
  BY <1>1, <1>2 DEF OneOwnerPerFence, WritesFollowFences
<1>. QED BY <1>3, <1>4

\* Before the record is initialised nothing was saved.
LEMMA InsertPreserves ==
    ASSUME SafeInv, NEW f \in 1..MaxFence, InitializeState(f)
    PROVE  SafeInv'
<1>. USE LeaseAssumption DEF SafeInv, InitializeState, RecordRow
<1>1. writes = {}
  BY DEF WritesFollowFences, TypeOK, Write
<1>2. TypeOK'
  BY DEF TypeOK
<1>3. OneOwnerPerFence' /\ WritesFollowFences'
  BY <1>1 DEF OneOwnerPerFence, WritesFollowFences
<1>. QED BY <1>2, <1>3

\* The new save is the highest revision, at the record's own token.
LEMMA SavePreserves ==
    ASSUME SafeInv, NEW h \in handles, NEW checked \in BOOLEAN,
           Save(h, checked), terminal' \in BOOLEAN
    PROVE  SafeInv'
<1>. USE LeaseAssumption DEF SafeInv, Save, RecordRow
<1>1. h.owner \in Owners /\ h.fence \in 1..MaxFence
      /\ h = Granted(h.owner, h.fence)
  BY HandleTyped
<1>2. revision \in Nat /\ revision + 1 \in 1..MaxRevision
  BY DEF TypeOK
<1> DEFINE new == [revision |-> revision + 1, owner |-> h.owner,
                   fence |-> h.fence, checked |-> checked]
<1>3. new \in Write /\ writes' = writes \cup {new}
  BY <1>1, <1>2 DEF Write
<1>4. TypeOK' /\ OneOwnerPerFence'
  BY <1>2, <1>3 DEF TypeOK, OneOwnerPerFence
<1>5. WritesFollowFences'
  <2>1. \A w \in writes : /\ w.revision \in Nat /\ w.fence \in Nat
                          /\ w.revision < new.revision
                          /\ w.fence <= new.fence
    BY <1>1, <1>2 DEF TypeOK, Write, WritesFollowFences
  <2>2. \A v, w \in writes' : v.revision <= w.revision => v.fence <= w.fence
    BY <1>1, <1>2, <1>3, <2>1 DEF WritesFollowFences
  <2>3. \A v, w \in writes' : v.revision = w.revision => v = w
    BY <1>2, <1>3, <2>1 DEF WritesFollowFences
  <2>4. \A w \in writes' : Granted(w.owner, w.fence) \in handles'
                           /\ w.fence <= stateFence' /\ w.revision <= revision'
    BY <1>1, <1>2, <1>3, <2>1 DEF WritesFollowFences, TypeOK
  <2>. QED BY <2>2, <2>3, <2>4 DEF WritesFollowFences
<1>. QED BY <1>4, <1>5

LEMMA AcquirePreserves ==
    ASSUME SafeInv, NEW o \in Owners, NEW d \in Durations,
           AcquireFirst(o, d) \/ AcquireTakeover(o, d)
    PROVE  SafeInv'
<1>. USE LeaseAssumption
<1>1. CASE AcquireFirst(o, d)
  <2>1. /\ stateFence + 1 \in 1..MaxFence
        /\ stateFence + 1 > lease.fence
        /\ RecordRow => stateFence <= stateFence + 1
    BY <1>1 DEF AcquireFirst, CanFollow, LeaseRow, SafeInv, TypeOK
  <2>. QED BY <1>1, <2>1, GrantPreserves DEF AcquireFirst
<1>2. CASE AcquireTakeover(o, d)
  <2>1. /\ lease.fence + 1 \in 1..MaxFence
        /\ lease.fence + 1 > lease.fence
        /\ RecordRow => stateFence <= lease.fence + 1
    BY <1>2 DEF AcquireTakeover, CanFollow, Coherent, SafeInv, TypeOK
  <2>. QED BY <1>2, <2>1, GrantPreserves DEF AcquireTakeover
<1>. QED BY <1>1, <1>2

LEMMA TickPreserves ==
    ASSUME SafeInv, Tick
    PROVE  SafeInv'
BY LeaseAssumption DEF SafeInv, Tick, TypeOK, OneOwnerPerFence,
                       WritesFollowFences

\* SafeInv is inductive.
LEMMA StepPreserves ==
    ASSUME SafeInv, [Next]_lvars
    PROVE  SafeInv'
<1>1. ASSUME NEW o \in Owners, NEW d \in Durations,
             AcquireFirst(o, d) \/ AcquireTakeover(o, d)
      PROVE  SafeInv'
  BY <1>1, AcquirePreserves
<1>2. ASSUME NEW h \in handles, NEW d \in Durations, Renew(h, d)
      PROVE  SafeInv'
  BY <1>2, RenewPreserves
<1>3. ASSUME NEW h \in handles, Release(h)
      PROVE  SafeInv'
  BY <1>3, ReleasePreserves
<1>4. ASSUME NEW h \in handles,
             SaveRecoveryState(h) \/ FencedSave(h) \/ CommitTerminal(h)
      PROVE  SafeInv'
  <2>1. PICK checked \in BOOLEAN : Save(h, checked)
    BY <1>4 DEF SaveRecoveryState, FencedSave, CommitTerminal
  <2>2. terminal' \in BOOLEAN
    BY <1>4 DEF SaveRecoveryState, FencedSave, CommitTerminal, SafeInv, TypeOK
  <2>. QED BY <2>1, <2>2, SavePreserves
<1>5. ASSUME NEW f \in 1..MaxFence, InitializeState(f)
      PROVE  SafeInv'
  BY <1>5, InsertPreserves
<1>6. CASE Tick
  BY <1>6, TickPreserves
<1>7. CASE UNCHANGED lvars
  BY <1>7 DEF lvars, SafeInv, TypeOK, OneOwnerPerFence, WritesFollowFences
<1>. QED BY <1>1, <1>2, <1>3, <1>4, <1>5, <1>6, <1>7 DEF Next

LEMMA InitSafe == Init => SafeInv
<1>. SUFFICES ASSUME Init PROVE SafeInv
  OBVIOUS
<1>. USE LeaseAssumption DEF Init
<1>1. TypeOK
  <2>1. /\ now \in 0..MaxTime /\ stateFence \in 0..MaxFence
        /\ revision \in 0..MaxRevision
    OBVIOUS
  <2>0. terminal \in BOOLEAN
    BY Zenon
  <2>2. lease \in [owner : Owners \cup {NoOwner}, fence : 0..MaxFence,
                   expiresAt : 0..MaxTime]
    OBVIOUS
  <2>3. lease.owner = NoOwner /\ lease.expiresAt = 0 /\ handles = {} /\ writes = {}
    OBVIOUS
  <2>. QED BY <2>0, <2>1, <2>2, <2>3 DEF TypeOK
<1>2. OneOwnerPerFence /\ WritesFollowFences
  BY DEF OneOwnerPerFence, WritesFollowFences
<1>. QED BY <1>1, <1>2 DEF SafeInv

\* The lease row, the recovery row, the handles and the saves keep the shapes
\* their tables and types give them (lease-store.ts, recovery-store.ts).
THEOREM Typed == Spec => []TypeOK
<1>1. SafeInv => TypeOK
  BY DEF SafeInv
<1>. QED BY <1>1, InitSafe, StepPreserves, PTL DEF Spec

\* A fence token names one owner for ever, whatever acquisitions, takeovers
\* and releases acquireRecoveryLease and releaseRecoveryLease went through.
THEOREM TokensNameOwners == Spec => []OneOwnerPerFence
<1>1. SafeInv => OneOwnerPerFence
  BY DEF SafeInv
<1>. QED BY <1>1, InitSafe, StepPreserves, PTL DEF Spec

\* The saves of saveRecoveryState never go back behind an owner that has
\* written, also when the caller skips the lease check and presents an old
\* handle.
THEOREM SavesFollowTokens == Spec => []WritesFollowFences
<1>1. SafeInv => WritesFollowFences
  BY DEF SafeInv
<1>. QED BY <1>1, InitSafe, StepPreserves, PTL DEF Spec

-----------------------------------------------------------------------------
(* No step parts the two rows.                                             *)

\* What a step does to rows that are both there or not.
Together == RecordRow => (Agree' <=> Agree) /\ (Agree \/ lease' = lease)

LEMMA StepKeepsTogether ==
    ASSUME SafeInv, [Next]_lvars
    PROVE  Together
<1>. USE LeaseAssumption DEF Together, Agree, LeaseRow, RecordRow
<1>1. ASSUME NEW o \in Owners, NEW d \in Durations, AcquireFirst(o, d)
      PROVE  Together
  BY <1>1 DEF AcquireFirst, Grant, SyncedTo
<1>2. ASSUME NEW o \in Owners, NEW d \in Durations, AcquireTakeover(o, d)
      PROVE  Together
  BY <1>2 DEF AcquireTakeover, Coherent, Grant, SyncedTo
<1>3. ASSUME NEW h \in handles, NEW d \in Durations, Renew(h, d)
      PROVE  Together
  BY <1>3 DEF Renew, Coherent, SafeInv, TypeOK
<1>4. ASSUME NEW h \in handles, Release(h)
      PROVE  Together
  BY <1>4 DEF Release, Coherent, SafeInv, TypeOK
<1>5. ASSUME NEW h \in handles,
             SaveRecoveryState(h) \/ FencedSave(h) \/ CommitTerminal(h)
      PROVE  Together
  BY <1>5 DEF SaveRecoveryState, FencedSave, CommitTerminal, Save
<1>6. ASSUME NEW f \in 1..MaxFence, InitializeState(f)
      PROVE  Together
  BY <1>6 DEF InitializeState
<1>7. CASE Tick
  BY <1>7 DEF Tick
<1>8. CASE UNCHANGED lvars
  BY <1>8 DEF lvars
<1>. QED BY <1>1, <1>2, <1>3, <1>4, <1>5, <1>6, <1>7, <1>8 DEF Next

\* After the record's initialisation the fences of the two rows agree for good
\* or differ for good, and while they differ coherent() lets no acquisition,
\* renewal or release through: what syncStateFence is for.
THEOREM RowsKeepTogether == Spec => RowsStayTogether
<1>1. SafeInv /\ [Next]_lvars => [Together]_lvars
  BY StepKeepsTogether
<1>2. Spec => []SafeInv
  BY InitSafe, StepPreserves, PTL DEF Spec
<1>. QED BY <1>1, <1>2, PTL DEF Spec, RowsStayTogether, Together

-----------------------------------------------------------------------------
(* The store implements Fencing.                                           *)

Holder == IF Held THEN lease.owner ELSE NoOwner

\* A grant takes the session from nobody, at a token above all others.
LEMMA GrantFences ==
    ASSUME SafeInv, NEW o \in Owners, NEW d \in Durations, NEW f \in 1..MaxFence,
           ~Held, f > lease.fence, Grant(o, f, d)
    PROVE  Fence!FGrant(o)
<1>. USE LeaseAssumption
<1>1. Holder = NoOwner
  BY DEF Holder
<1>2. lease'.owner = o /\ lease'.fence = f /\ lease'.expiresAt > now'
  BY DEF Grant, SafeInv, TypeOK
<1>3. Holder' = o
  BY <1>2 DEF Holder, Held
<1>4. /\ handles' = handles \cup {[owner |-> o, fence |-> lease'.fence]}
      /\ writes' = writes
  BY <1>2 DEF Grant, Granted
<1>. QED BY <1>1, <1>2, <1>3, <1>4 DEF Fence!FGrant, Holder

LEMMA AcquireFences ==
    ASSUME SafeInv, NEW o \in Owners, NEW d \in Durations,
           AcquireFirst(o, d) \/ AcquireTakeover(o, d)
    PROVE  Fence!FGrant(o)
<1>. USE LeaseAssumption
<1>1. CASE AcquireFirst(o, d)
  <2>1. stateFence + 1 \in 1..MaxFence /\ stateFence + 1 > lease.fence
    BY <1>1 DEF AcquireFirst, CanFollow, LeaseRow, SafeInv, TypeOK
  <2>2. ~Held
    BY <1>1 DEF AcquireFirst, Held, LeaseRow, SafeInv, TypeOK
  <2>. QED BY <1>1, <2>1, <2>2, GrantFences DEF AcquireFirst
<1>2. CASE AcquireTakeover(o, d)
  <2>1. lease.fence + 1 \in 1..MaxFence /\ lease.fence + 1 > lease.fence
    BY <1>2 DEF AcquireTakeover, CanFollow, SafeInv, TypeOK
  <2>. QED BY <1>2, <2>1, GrantFences DEF AcquireTakeover
<1>. QED BY <1>1, <1>2

\* A renewed lease stays its holder's.
LEMMA RenewStutters ==
    ASSUME SafeInv, NEW h \in handles, NEW d \in Durations, Renew(h, d)
    PROVE  UNCHANGED <<Holder, lease.fence, handles, writes>>
<1>. USE LeaseAssumption
<1>1. lease'.owner = lease.owner /\ lease'.fence = lease.fence
      /\ lease'.expiresAt > now'
  BY DEF Renew, SafeInv, TypeOK
<1>2. Held /\ Held'
  BY <1>1 DEF Renew, HeldBy, Held
<1>. QED BY <1>1, <1>2 DEF Holder, Renew

LEMMA ReleaseFences ==
    ASSUME SafeInv, NEW h \in handles, Release(h)
    PROVE  Fence!FLapse
<1>1. lease'.owner = NoOwner /\ lease'.fence = lease.fence
  BY DEF Release, SafeInv, TypeOK
<1>2. Holder # NoOwner /\ Holder' = NoOwner
  BY <1>1 DEF Release, HeldBy, Held, Holder
<1>. QED BY <1>1, <1>2 DEF Fence!FLapse, Holder, Release

\* Time lets a lease lapse or changes nothing that Fencing sees.
LEMMA TickFences ==
    ASSUME SafeInv, Tick
    PROVE  Fence!FLapse \/ UNCHANGED <<Holder, lease.fence, handles, writes>>
<1>1. Held' => Held
  BY DEF Tick, Held, SafeInv, TypeOK
<1>2. UNCHANGED <<lease, handles, writes>>
  BY DEF Tick
<1>3. CASE Held /\ ~Held'
  BY <1>2, <1>3 DEF Fence!FLapse, Held, Holder
<1>4. CASE Held <=> Held'
  BY <1>2, <1>4 DEF Holder
<1>. QED BY <1>1, <1>3, <1>4

\* The number of a save is new, and no later grant has written before.
LEMMA SaveIsFresh ==
    ASSUME SafeInv, NEW h \in handles, NEW checked \in BOOLEAN, Save(h, checked)
    PROVE  /\ revision + 1 \in 1..MaxRevision
           /\ Fence!Fresh(revision + 1)
           /\ \A w \in writes : w.fence <= h.fence
           /\ writes' = Fence!Written(h.owner, h.fence, revision + 1, checked)
           /\ UNCHANGED <<Holder, lease.fence, handles>>
<1>. USE LeaseAssumption
<1>1. revision + 1 \in 1..MaxRevision
  BY DEF Save, SafeInv, TypeOK
<1>2. Fence!Fresh(revision + 1)
  BY DEF SafeInv, TypeOK, Write, WritesFollowFences, Fence!Fresh
<1>3. \A w \in writes : w.fence <= h.fence
  BY DEF Save, SafeInv, WritesFollowFences
<1>4. writes' = Fence!Written(h.owner, h.fence, revision + 1, checked)
  BY DEF Save, Fence!Written
<1>5. UNCHANGED <<Holder, lease.fence, handles>>
  BY DEF Save, Holder, Held
<1>. QED BY <1>1, <1>2, <1>3, <1>4, <1>5

\* A save behind the check is the holder's.
LEMMA CheckedSaveFences ==
    ASSUME SafeInv, NEW h \in handles, HeldBy(h), Save(h, TRUE)
    PROVE  \E o \in Owners, r \in 1..MaxRevision : Fence!FWrite(o, r)
<1>1. h.owner \in Owners /\ h = [owner |-> h.owner, fence |-> h.fence]
  BY HandleTyped DEF Granted
<1>2. h.fence = lease.fence /\ Holder = h.owner
  BY DEF HeldBy, Holder
<1>3. [owner |-> h.owner, fence |-> lease.fence] \in handles
  BY <1>1, <1>2
<1>4. Fence!FWrite(h.owner, revision + 1)
  BY <1>2, <1>3, SaveIsFresh DEF Fence!FWrite, Holder
<1>. QED BY <1>1, <1>4, SaveIsFresh

\* A save without it goes behind no grant that has written.
LEMMA UncheckedSaveFences ==
    ASSUME SafeInv, NEW h \in handles, Save(h, FALSE)
    PROVE  \E grant \in handles, r \in 1..MaxRevision :
               Fence!FUncheckedWrite(grant, r)
<1>1. Fence!FUncheckedWrite(h, revision + 1)
  BY SaveIsFresh DEF Fence!FUncheckedWrite, Holder
<1>. QED BY <1>1, SaveIsFresh

LEMMA InsertStutters ==
    ASSUME NEW f \in 1..MaxFence, InitializeState(f)
    PROVE  UNCHANGED <<Holder, lease.fence, handles, writes>>
BY DEF InitializeState, Holder, Held

LEMMA StepFences ==
    ASSUME SafeInv, [Next]_lvars
    PROVE  [Fence!FNext]_(Fence!fvars)
<1> DEFINE Seen == <<Holder, lease.fence, handles, writes>>
<1>0. SUFFICES Fence!FNext \/ UNCHANGED Seen
  BY DEF Fence!fvars, Holder
<1>1. ASSUME NEW o \in Owners, NEW d \in Durations,
             AcquireFirst(o, d) \/ AcquireTakeover(o, d)
      PROVE  Fence!FNext
  BY <1>1, AcquireFences DEF Fence!FNext
<1>2. ASSUME NEW h \in handles, NEW d \in Durations, Renew(h, d)
      PROVE  UNCHANGED Seen
  BY <1>2, RenewStutters
<1>3. ASSUME NEW h \in handles, Release(h)
      PROVE  Fence!FNext
  BY <1>3, ReleaseFences DEF Fence!FNext
<1>4. ASSUME NEW h \in handles, SaveRecoveryState(h)
      PROVE  Fence!FNext
  BY <1>4, UncheckedSaveFences DEF SaveRecoveryState, Fence!FNext
<1>5. ASSUME NEW h \in handles, FencedSave(h) \/ CommitTerminal(h)
      PROVE  Fence!FNext
  BY <1>5, CheckedSaveFences DEF FencedSave, CommitTerminal, Fence!FNext
<1>6. ASSUME NEW f \in 1..MaxFence, InitializeState(f)
      PROVE  UNCHANGED Seen
  BY <1>6, InsertStutters
<1>7. CASE Tick
  BY <1>7, TickFences DEF Fence!FNext
<1>8. CASE UNCHANGED lvars
  BY <1>8 DEF lvars, Holder, Held
<1>. QED BY <1>1, <1>2, <1>3, <1>4, <1>5, <1>6, <1>7, <1>8 DEF Next

\* The store keeps the contract of the lease, whoever initialises the record:
\* no live lease is taken from its holder, tokens only rise, what is saved
\* behind the check is the holder's, and what is saved without it goes back
\* behind no grant that has written.
THEOREM StoreImplementsFencing == Spec => Fenced
<1>1. Init => Fence!FInit
  BY DEF Init, Fence!FInit, Held
<1>2. SafeInv /\ [Next]_lvars => [Fence!FNext]_(Fence!fvars)
  BY StepFences
<1>3. Spec => []SafeInv
  BY InitSafe, StepPreserves, PTL DEF Spec
<1>. QED BY <1>1, <1>2, <1>3, PTL DEF Spec, Fenced, Fence!FSpec
=============================================================================
