------------------------------ MODULE MCRuntime ------------------------------
(* Instances of RecoverableRuntime for TLC.                                 *)
EXTENDS RecoverableRuntime, TLC

CONSTANTS p1, p2, o1, o2, k1, k2, k3, e1, e2, none

TwoOwners == p1 :> o1 @@ p2 :> o2
OneOwner  == p1 :> o1 @@ p2 :> o1

\* A session whose only effect is its entry; one that cancels it later; one
\* whose entry is partly filled, so that protection and cancellation, alike
\* here, may both be asked for.
EntryOnly == "ENTRY" :> {}
EntryThenCancel == "ENTRY" :> {} @@ "CANCEL" :> {"ENTRY"}
Independent == e1 :> {} @@ e2 :> {}

AnyAnswer == Verdicts \cup {"CANONICAL_REJECTED"}
Conclusive == {"ACCEPTED", "REJECTED", "CANONICAL_REJECTED"}

KeySymmetry == Permutations(Keys)
\* Of processes with one owner, too, and of effects that wait for nothing.
AllSymmetry == Permutations(Keys) \cup Permutations(Effects) \cup
               Permutations(Procs)
==============================================================================
