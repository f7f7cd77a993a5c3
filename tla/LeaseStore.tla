----------------------------- MODULE LeaseStore -----------------------------
(***************************************************************************)
(* The recovery lease and the recovery record of one orchestration session *)
(* in PostgreSQL: orchestration-state-store-postgres/src/lease-store.ts    *)
(* and recovery-store.ts.                                                  *)
(*                                                                         *)
(* Every operation of the two stores is one transaction that first locks   *)
(* the row it decides on (SELECT ... FOR UPDATE), so it is one action.  A  *)
(* caller keeps the handle it was granted for as long as it likes and may  *)
(* present it again at any later time: "handles" holds all of them.        *)
(***************************************************************************)
EXTENDS Naturals

CONSTANTS Owners,       \* lease owner identities
          NoOwner,      \* the NULL owner of a released lease
          Durations,    \* lease durations callers ask for, in ticks
          MaxTime,      \* the last instant the clock can represent
          MaxFence,     \* the last fence token, MAX_SAFE_INTEGER in the code
          MaxRevision   \* the last recovery revision, likewise

ASSUME LeaseAssumption ==
    /\ NoOwner \notin Owners
    /\ Durations \subseteq Nat \ {0}
    /\ MaxTime \in Nat
    /\ MaxFence \in Nat \ {0}
    /\ MaxRevision \in Nat

VARIABLES now,          \* the database clock
          lease,        \* the lease row; fence 0: there is no row yet
          stateFence,   \* fence_token of the recovery row; 0: no row yet
          revision,     \* its revision
          terminal,     \* the row is a terminal record (V2)
          handles,      \* every lease handle handed to a caller
          writes        \* every save of the recovery row

lvars == <<now, lease, stateFence, revision, terminal, handles, writes>>

Handle == [owner : Owners, fence : 1..MaxFence]
\* checked: the save was made behind the check of the lease.
Write  == [revision : 1..MaxRevision, owner : Owners, fence : 1..MaxFence,
           checked : BOOLEAN]

Init == /\ now = 0
        /\ lease = [owner |-> NoOwner, fence |-> 0, expiresAt |-> 0]
        /\ stateFence = 0
        /\ revision = 0
        /\ terminal = FALSE
        /\ handles = {}
        /\ writes = {}

-----------------------------------------------------------------------------
Granted(o, f) == [owner |-> o, fence |-> f]

LeaseRow   == lease.fence # 0
RecordRow  == stateFence # 0
Held       == lease.owner # NoOwner /\ lease.expiresAt > now
HeldBy(h)  == Held /\ lease.owner = h.owner /\ lease.fence = h.fence
Coherent   == RecordRow => stateFence = lease.fence
\* Mutant: the recovery row keeps its old token.
SyncedToStale(f) == stateFence
SyncedTo(f) == IF RecordRow THEN f ELSE 0

\* nextFence: one more, refused at the last token.
CanFollow(f) == f < MaxFence

\* The lease becomes o's at token f, for d ticks; the recovery row follows.
Grant(o, f, d) ==
    /\ now + d <= MaxTime
    /\ lease' = [owner |-> o, fence |-> f, expiresAt |-> now + d]
    /\ stateFence' = SyncedTo(f)
    /\ handles' = handles \cup {Granted(o, f)}
    /\ UNCHANGED <<now, revision, terminal, writes>>

\* No lease row yet: the first token follows the recovery row's, if any.
AcquireFirst(o, d) ==
    /\ ~LeaseRow
    /\ CanFollow(stateFence)
    /\ Grant(o, stateFence + 1, d)

\* Mutant: the next owner is given the token of the last one.
TakeoverAtSameFence(o, d) == /\ LeaseRow
                             /\ Coherent
                             /\ ~Held
                             /\ Grant(o, lease.fence, d)
\* The row's lease was released or has expired.  (While it is held its owner
\* is given the same handle again, and others HELD_BY_OTHER: no change.)
AcquireTakeover(o, d) ==
    /\ LeaseRow
    /\ Coherent
    /\ ~Held
    /\ CanFollow(lease.fence)
    /\ Grant(o, lease.fence + 1, d)

\* Mutant: an expired lease that nobody took over is renewed.
RenewExpired(h, d) ==
    /\ Coherent
    /\ lease.owner = h.owner /\ lease.fence = h.fence
    /\ now + d <= MaxTime
    /\ lease' = [lease EXCEPT !.expiresAt = now + d]
    /\ UNCHANGED <<now, stateFence, revision, terminal, handles, writes>>
Renew(h, d) ==
    /\ Coherent
    /\ HeldBy(h)
    /\ now + d <= MaxTime
    /\ lease' = [lease EXCEPT !.expiresAt = now + d]
    /\ UNCHANGED <<now, stateFence, revision, terminal, handles, writes>>

Release(h) ==
    /\ Coherent
    /\ HeldBy(h)
    /\ lease' = [lease EXCEPT !.owner = NoOwner, !.expiresAt = 0]
    /\ UNCHANGED <<now, stateFence, revision, terminal, handles, writes>>

\* initializeRecoveryState: an insert at whatever fence the caller presents.
\* It neither reads nor locks the lease row.
InitializeState(f) ==
    /\ ~RecordRow
    /\ stateFence' = f
    /\ revision' = 0
    /\ UNCHANGED <<now, lease, terminal, handles, writes>>

\* Compare-and-set on the record's fence and revision; a terminal record is
\* never written again.  The revision compared is the caller's copy, which is
\* current or is refused.
Save(h, checked) ==
    /\ RecordRow
    /\ ~terminal
    /\ stateFence = h.fence
    /\ revision < MaxRevision
    /\ revision' = revision + 1
    /\ writes' = writes \cup
           {[revision |-> revision + 1, owner |-> h.owner, fence |-> h.fence,
             checked |-> checked]}
    /\ UNCHANGED <<now, lease, stateFence, handles>>

\* saveRecoveryState: it asks the record for its fence and never the lease.
SaveRecoveryState(h) == Save(h, FALSE) /\ UNCHANGED terminal

\* The same save behind assertActiveRecoveryLeaseInTransaction.
FencedSave(h) == HeldBy(h) /\ Save(h, TRUE) /\ UNCHANGED terminal

\* commitTerminalRecoveryStateInTransaction, behind the same check.
CommitTerminal(h) == HeldBy(h) /\ Save(h, TRUE) /\ terminal' = TRUE

Tick == /\ now < MaxTime
        /\ now' = now + 1
        /\ UNCHANGED <<lease, stateFence, revision, terminal, handles, writes>>

Next == \/ \E o \in Owners, d \in Durations :
              AcquireFirst(o, d) \/ AcquireTakeover(o, d)
        \/ \E h \in handles, d \in Durations : Renew(h, d)
        \/ \E h \in handles : \/ Release(h)
                              \/ SaveRecoveryState(h)
                              \/ FencedSave(h)
                              \/ CommitTerminal(h)
        \/ \E f \in 1..MaxFence : InitializeState(f)
        \/ Tick

Spec == Init /\ [][Next]_lvars

-----------------------------------------------------------------------------
\* Every row and handle has the shape its table and type give it; a lease row
\* has an owner exactly when it has an expiry (mapLeaseRow).
TypeOK ==
    /\ now \in 0..MaxTime
    /\ lease \in [owner : Owners \cup {NoOwner}, fence : 0..MaxFence,
                  expiresAt : 0..MaxTime]
    /\ lease.owner = NoOwner <=> lease.expiresAt = 0
    /\ lease.fence = 0 => lease.owner = NoOwner
    /\ stateFence \in 0..MaxFence
    /\ revision \in 0..MaxRevision
    /\ terminal \in BOOLEAN
    /\ handles \subseteq Handle
    /\ writes \subseteq Write

\* Once the recovery record is there, no acquisition, takeover, release or save
\* parts the two rows, which carry the fence each: rows that agree on it go on
\* agreeing.  Rows that an initialisation at a stale fence made differ go on
\* differing, and coherent() then refuses every change of the lease.
Agree == LeaseRow => stateFence = lease.fence
RowsStayTogether ==
    [][RecordRow => (Agree' <=> Agree) /\ (Agree \/ lease' = lease)]_lvars

\* A fence token names one owner, for ever: two handles with one token belong
\* to one owner, whatever releases, expiries and takeovers happened between.
OneOwnerPerFence ==
    /\ \A g, h \in handles : g.fence = h.fence => g.owner = h.owner
    /\ \A h \in handles : h.fence <= lease.fence

\* The saves of the recovery row, in revision order, never go back to an owner
\* that a takeover had superseded, and no revision is written twice.
WritesFollowFences ==
    /\ \A v, w \in writes : v.revision <= w.revision => v.fence <= w.fence
    /\ \A v, w \in writes : v.revision = w.revision => v = w
    /\ \A w \in writes : Granted(w.owner, w.fence) \in handles
                         /\ w.fence <= stateFence /\ w.revision <= revision

\* What the lease promises, whichever caller holds on to whichever handle.
Fence == INSTANCE Fencing WITH
             holder  <- IF Held THEN lease.owner ELSE NoOwner,
             fence   <- lease.fence,
             granted <- handles,
             written <- writes,
             Revisions <- 1..MaxRevision
\* A live lease is never taken from its holder and tokens only rise; a save
\* behind the check is the live holder's, at the newest grant; a save without
\* it is made with a grant that was given and never goes back behind the
\* grants that have written: the contract of Fencing, step by step.
Fenced == Fence!FSpec
=============================================================================
