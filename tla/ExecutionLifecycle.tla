-------------------------- MODULE ExecutionLifecycle --------------------------
(* An execution attempt driven by an owner that may crash and a broker whose    *)
(* reports may be lost, repeated and reordered.                                 *)
(*                                                                              *)
(* The owner keeps the attempt in memory and every transition it took in an     *)
(* evidence log; a saved prefix of the log survives a crash and the attempt is  *)
(* restored by replaying it, one transition at a time (recovery.ts).  A request *)
(* reaches the broker only once it is saved: the runtime commits the intent     *)
(* before it calls.  The broker is external; what is assumed of it stands at    *)
(* its actions.                                                                 *)
EXTENDS ExecutionAttempt, FiniteSets

CONSTANTS
  Adapters,     \* the capabilities an adapter of this system may declare
  Order,        \* the order id the broker gives to the entry
  MaxUnsaved,   \* bound of the transitions a crash may lose
  MaxCancels    \* bound of the cancellations the owner asks for

ASSUME LifecycleAssumption ==
  /\ Adapters \subseteq Capabilities
  /\ Order # NoOrder
  /\ MaxUnsaved \in Nat \ {0}
  /\ MaxCancels \in Nat

VARIABLES
  attempt,  \* the owner's attempt
  saved,    \* the evidence that is stored
  unsaved,  \* the evidence that a crash loses
  stored,   \* the attempt as it was last saved, whose requests are the broker's to act on
  replay,   \* the transition a restoration takes next; 0 when none is under way
  broker,   \* the broker's side of the entry order and of its protection
  reports,  \* what the broker has reported, in the order it happened
  inOrder   \* reports are delivered in that order, none skipped

owner == <<attempt, saved, unsaved, stored, replay>>
vars == <<attempt, saved, unsaved, stored, replay, broker, reports, inOrder>>

Requests == {"REQUEST_ENTRY", "REQUEST_PROTECTION", "REQUEST_CANCELLATION"}
Evidence == saved \o unsaved

Init ==
  /\ attempt = NewAttempt
  /\ saved = <<>> /\ unsaved = <<>> /\ stored = NewAttempt /\ replay = 0
  /\ broker = [entry |-> "NONE", filled |-> 0, covered |-> 0, exited |-> 0]
  /\ reports = <<>>
  /\ inOrder \in BOOLEAN
-----------------------------------------------------------------------------
(* The owner.                                                                  *)

\* A transition that is refused, or recognised as a repetition, changes nothing.
Take(t) ==
  /\ replay = 0
  /\ Len(unsaved) < MaxUnsaved
  /\ ~Repeats(attempt, t)
  /\ Accepts(attempt, t)
  /\ attempt' = After(attempt, t)
  /\ unsaved' = Append(unsaved, t)
  /\ UNCHANGED <<saved, stored, replay, broker, reports, inOrder>>

RequestEntry == \E c \in Adapters : Take([kind |-> "REQUEST_ENTRY", capabilities |-> c])
RequestProtection == Take([kind |-> "REQUEST_PROTECTION"])
RequestCancellation ==
  /\ Len(SelectSeq(Evidence, LAMBDA t : t.kind = "REQUEST_CANCELLATION")) < MaxCancels
  /\ Take([kind |-> "REQUEST_CANCELLATION"])

\* How many reports the attempt has taken in.
Consumed == Cardinality({i \in DOMAIN Evidence : Evidence[i].kind \notin Requests})

Deliver(i) ==
  /\ inOrder => i = Consumed + 1
  /\ Take(reports[i])

\* Mutant: the evidence of a save replaces what was saved before.
SaveLatest ==
  /\ unsaved # <<>>
  /\ saved' = unsaved
  /\ unsaved' = <<>>
  /\ stored' = attempt
  /\ UNCHANGED <<attempt, replay, broker, reports, inOrder>>

Save ==
  /\ unsaved # <<>>
  /\ saved' = Evidence
  /\ unsaved' = <<>>
  /\ stored' = attempt
  /\ UNCHANGED <<attempt, replay, broker, reports, inOrder>>

\* The owner dies; another one begins with a new attempt and the saved evidence.
Crash ==
  /\ replay = 0
  /\ attempt' = NewAttempt
  /\ unsaved' = <<>>
  /\ replay' = IF saved = <<>> THEN 0 ELSE 1
  /\ UNCHANGED <<saved, stored, broker, reports, inOrder>>

\* One iteration of the restoration.  A transition that is refused rejects the
\* restoration, which then goes no further.
Replay ==
  /\ replay # 0
  /\ LET t == saved[replay]
     IN  \/ Repeats(attempt, t) /\ UNCHANGED attempt
         \/ ~Repeats(attempt, t) /\ Accepts(attempt, t) /\ attempt' = After(attempt, t)
  /\ replay' = IF replay = Len(saved) THEN 0 ELSE replay + 1
  /\ UNCHANGED <<saved, unsaved, stored, broker, reports, inOrder>>
-----------------------------------------------------------------------------
(* The broker.  It acts on a request that is stored and unanswered, and answers *)
(* the key of a request once.                                                   *)

Reported(kinds) == {i \in DOMAIN reports : reports[i].kind \in kinds}
Targets(kinds) == {reports[i].target : i \in Reported(kinds)}

\* The broker's clock moves on with every other report, so that reports of
\* equal and of later times both occur.
Now == 1 + (Len(reports) \div 2)
Report(r) == reports' = Append(reports, r) /\ UNCHANGED <<owner, inOrder>>

AcceptEntry ==
  /\ broker.entry = "NONE" /\ stored.entry = "SUBMISSION_PENDING"
  /\ broker' = [broker EXCEPT !.entry = "WORKING"]
  /\ Report([kind |-> "ENTRY_ACKNOWLEDGED", order |-> Order, at |-> Now])

RefuseEntry ==
  /\ broker.entry = "NONE" /\ stored.entry = "SUBMISSION_PENDING"
  /\ broker' = [broker EXCEPT !.entry = "REJECTED"]
  /\ Report([kind |-> "ENTRY_REJECTED", at |-> Now])

FillEntry(q) ==
  LET n == Cardinality(Reported({"ENTRY_FILL"})) + 1
  IN  /\ broker.entry = "WORKING"
      /\ broker.filled + q =< Quantity
      /\ broker' = [broker EXCEPT !.filled = @ + q,
                      !.entry = IF broker.filled + q = Quantity THEN "FILLED" ELSE "WORKING"]
      /\ Report([kind |-> "ENTRY_FILL", id |-> n, order |-> Order, qty |-> q, at |-> Now])

Coverable ==
  /\ stored.protecting # 0
  /\ stored.protecting \notin Targets({"PROTECTION_ACKNOWLEDGED", "PROTECTION_REJECTED"})

Cover ==
  /\ Coverable
  /\ broker' = [broker EXCEPT !.covered = @ + Increment(stored)]
  /\ Report([kind |-> "PROTECTION_ACKNOWLEDGED", target |-> stored.protecting, at |-> Now])

RefuseCover ==
  /\ Coverable
  /\ Report([kind |-> "PROTECTION_REJECTED", target |-> stored.protecting, at |-> Now])
  /\ UNCHANGED broker

\* A stop or target fills.  The broker is taken to use up older protections
\* first: an exit is reported under a protection whose ceiling it respects.
ExitPosition(q, t) ==
  LET n == Cardinality(Reported({"EXIT_FILL"})) + 1
  IN  /\ t \in Targets({"PROTECTION_ACKNOWLEDGED"})
      /\ broker.exited + q =< t
      /\ broker' = [broker EXCEPT !.exited = @ + q]
      /\ Report([kind |-> "EXIT_FILL", id |-> Quantity + n, target |-> t, qty |-> q, at |-> Now])

Cancelable ==
  /\ stored.canceling
  /\ Reported({"CANCELLATION_ACKNOWLEDGED", "CANCELLATION_REJECTED"}) = {}

\* A cancellation that meets a filled order may be acknowledged or refused.
Cancel ==
  /\ Cancelable
  /\ broker' = [broker EXCEPT !.entry = IF @ = "WORKING" THEN "CANCELED" ELSE @]
  /\ Report([kind |-> "CANCELLATION_ACKNOWLEDGED", order |-> Order, at |-> Now])

RefuseCancel ==
  /\ Cancelable
  /\ Report([kind |-> "CANCELLATION_REJECTED", order |-> Order, at |-> Now])
  /\ UNCHANGED broker

OwnerNext ==
  \/ RequestEntry \/ RequestProtection \/ RequestCancellation
  \/ \E i \in DOMAIN reports : Deliver(i)
  \/ Save \/ Crash \/ Replay

BrokerNext ==
  \/ AcceptEntry \/ RefuseEntry \/ Cover \/ RefuseCover \/ Cancel \/ RefuseCancel
  \/ \E q \in 1..Quantity : FillEntry(q)
  \/ \E q, t \in 1..Quantity : ExitPosition(q, t)

Next == OwnerNext \/ BrokerNext
Spec == Init /\ [][Next]_vars
-----------------------------------------------------------------------------
(* Properties.                                                                 *)

EntryStatuses == {"NOT_SUBMITTED", "SUBMISSION_PENDING", "WORKING", "FILLED", "CANCELED", "REJECTED"}

Reports ==
  [kind : {"ENTRY_ACKNOWLEDGED"}, order : {Order}, at : Nat]
    \union [kind : {"ENTRY_REJECTED"}, at : Nat]
    \union [kind : {"ENTRY_FILL"}, id : Nat, order : {Order}, qty : 1..Quantity, at : Nat]
    \union [kind : {"EXIT_FILL"}, id : Nat, target : Nat, qty : 1..Quantity, at : Nat]
    \union [kind : {"PROTECTION_ACKNOWLEDGED", "PROTECTION_REJECTED"}, target : Nat, at : Nat]
    \union [kind : {"CANCELLATION_ACKNOWLEDGED", "CANCELLATION_REJECTED"}, order : {Order}, at : Nat]

Transitions ==
  Reports \union [kind : {"REQUEST_ENTRY"}, capabilities : Adapters]
          \union [kind : {"REQUEST_PROTECTION", "REQUEST_CANCELLATION"}]

Attempts ==
  [entry : EntryStatuses, capabilities : Adapters \union {NoCapabilities}, order : {Order, NoOrder},
   filled : Nat, protected : Nat, exited : Nat,
   fills : Seq(Transitions), exits : Seq(Transitions), coverage : Seq([target : Nat, at : Nat]),
   protecting : Nat, canceling : BOOLEAN, failed : BOOLEAN, cancelRefused : BOOLEAN, lastAt : Nat]

\* No attempt is mistaken for the result of a restoration that fails.
ASSUME RefusedAssumption == Refused \notin Attempts

TypeOK ==
  /\ attempt \in Attempts /\ stored \in Attempts
  /\ saved \in Seq(Transitions) /\ unsaved \in Seq(Transitions)
  /\ replay \in 0..Len(saved)
  /\ reports \in Seq(Reports)
  /\ broker \in [entry : {"NONE", "WORKING", "FILLED", "CANCELED", "REJECTED"},
                 filled : Nat, covered : Int, exited : Nat]
  /\ inOrder \in BOOLEAN

\* Exits stay within what is protected, protection within what is filled, fills
\* within the plan; a pending protection asks for more than is protected and for
\* no more than is filled; the coverage records grow up to what is protected.
Nest(a) ==
  /\ a.exited =< a.protected
  /\ a.protected =< a.filled
  /\ a.filled =< Quantity
  /\ a.protecting # 0 => a.protected < a.protecting /\ a.protecting =< a.filled
  /\ \A i \in DOMAIN a.coverage : a.coverage[i].target =< a.protected
  /\ a.entry = "FILLED" => a.filled = Quantity

QuantitiesNest == Nest(attempt) /\ Nest(stored)

\* The orders that close a position never add up to more than the position, at
\* the broker itself: however reports are lost, repeated and reordered and
\* wherever the owner dies, the protections it asks for cover at most what the
\* broker has filled, and what it still waits for is not covered twice.
NeverOverProtected ==
  /\ broker.covered =< broker.filled
  /\ broker.exited =< broker.covered

\* The attempt and its copy in the store nest, and the attempt says nothing the
\* broker did not: fills, protection, exits and the end of the order, whatever
\* arrived twice or late.
NothingInvented ==
  /\ QuantitiesNest
  /\ attempt.filled =< broker.filled
  /\ attempt.protected =< broker.covered
  /\ attempt.exited =< broker.exited
  /\ attempt.entry = "FILLED" => broker.entry = "FILLED"
  /\ attempt.entry = "CANCELED" => Reported({"CANCELLATION_ACKNOWLEDGED"}) # {}
  /\ attempt.entry = "REJECTED" => broker.entry = "REJECTED"
  /\ attempt.failed => Reported({"PROTECTION_REJECTED"}) # {}

\* A report that has been taken in is recognised or refused when it comes again
\* (the answer to a cancellation excepted: a second cancellation has the key of
\* the first, and the stored answer is its answer too).
RedeliveryIsHarmless ==
  \A i \in DOMAIN reports :
    /\ replay = 0 /\ reports[i] \in Range(Evidence)
    /\ reports[i].kind \notin {"CANCELLATION_ACKNOWLEDGED", "CANCELLATION_REJECTED"}
    => Repeats(attempt, reports[i]) \/ ~Accepts(attempt, reports[i])

\* Delivered in order, no report of the broker is refused: the next one due is
\* always accepted, also after a crash that makes some of them due again.
HonestReportsAreAccepted ==
  inOrder /\ replay = 0 /\ Consumed < Len(reports) =>
    Accepts(attempt, reports[Consumed + 1])

\* The evidence is enough: no transition that was saved is refused when it is
\* replayed, and the replay ends with the attempt that was saved.
RestorationSucceeds ==
  /\ replay # 0 => Repeats(attempt, saved[replay]) \/ Accepts(attempt, saved[replay])
  /\ replay = 0 /\ unsaved = <<>> => attempt = stored

Closed == {"EXIT_FILLED", "REJECTED", "CANCELED"}

\* An attempt that is closed stays as it is until its owner dies (and is then
\* restored to what was saved): no report or request reopens it.
ClosedForGood ==
  [][State(attempt) \in Closed /\ ~Crash /\ replay = 0 => UNCHANGED attempt]_vars
=============================================================================
