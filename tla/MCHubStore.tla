----------------------------- MODULE MCHubStore -----------------------------
(* HubStore on small instances. *)
EXTENDS HubStore, TLC

MCRequiredTags == [a \in Assignment |-> {}]
MCTaggedFirst == [a \in Assignment |-> IF a = CHOOSE b \in Assignment : TRUE THEN Tag ELSE {}]
MCLeaseSeconds == [a \in Assignment |-> 1]

MCSymmetry == Permutations(Machine) \cup Permutations(Attempt)
=============================================================================
