------------------------------ MODULE Fencing ------------------------------
(***************************************************************************)
(* What the recovery lease of one orchestration session promises its users *)
(* (the contract of orchestration-state-store/src/recovery-store.ts): at   *)
(* every moment at most one owner may write, every grant of the session    *)
(* carries a fence token higher than all the earlier ones, and the durable *)
(* record of a write carries the owner and the token that allowed it.  A   *)
(* write that skipped the check of the lease is promised less: the record  *)
(* never goes back from a later grant to an earlier one.                   *)
(*                                                                         *)
(* LeaseStore is shown to implement this specification.                    *)
(***************************************************************************)
EXTENDS Naturals

CONSTANTS Owners,       \* identities that may hold the lease
          NoOwner,      \* nobody holds it
          Revisions     \* numbers of the writes

VARIABLES holder,       \* who may write now
          fence,        \* the highest token granted so far
          granted,      \* every grant made: [owner, fence]
          written       \* every write made: [revision, owner, fence, checked]

fvars == <<holder, fence, granted, written>>

FInit == /\ holder = NoOwner
         /\ fence \in Nat
         /\ granted = {}
         /\ written = {}

\* The session passes to o, at a token no one has held.  A grant never takes
\* the session from a live holder.
FGrant(o) == /\ holder = NoOwner
             /\ fence' \in Nat
             /\ fence' > fence
             /\ holder' = o
             /\ granted' = granted \cup {[owner |-> o, fence |-> fence']}
             /\ UNCHANGED written

\* The holder stops holding: it released the lease, or its time ran out.
FLapse == /\ holder # NoOwner
          /\ holder' = NoOwner
          /\ UNCHANGED <<fence, granted, written>>

\* The store refuses to number two writes alike.
Fresh(r) == \A w \in written : w.revision < r
Written(o, f, r, checked) ==
    written \cup {[revision |-> r, owner |-> o, fence |-> f,
                   checked |-> checked]}

\* A write behind the check is the live holder's, with its grant.
FWrite(o, r) == /\ holder = o
                /\ [owner |-> o, fence |-> fence] \in granted
                /\ Fresh(r)
                /\ written' = Written(o, fence, r, TRUE)
                /\ UNCHANGED <<holder, fence, granted>>

\* A write without it carries some grant, and none that a write of a later
\* grant has superseded.
FUncheckedWrite(grant, r) ==
    /\ Fresh(r)
    /\ \A w \in written : w.fence <= grant.fence
    /\ written' = Written(grant.owner, grant.fence, r, FALSE)
    /\ UNCHANGED <<holder, fence, granted>>

FNext == \/ \E o \in Owners : FGrant(o)
         \/ FLapse
         \/ \E o \in Owners, r \in Revisions : FWrite(o, r)
         \/ \E grant \in granted, r \in Revisions : FUncheckedWrite(grant, r)

FSpec == FInit /\ [][FNext]_fvars
=============================================================================
