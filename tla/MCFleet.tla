------------------------------- MODULE MCFleet ------------------------------
(* Fleet on small instances. *)
EXTENDS Fleet, TLC

MCRequiredTags == [a \in Assignment |-> {}]
MCAgentTags == [m \in Machine |-> {}]
MCLeaseSeconds == [a \in Assignment |-> 1]

MCSymmetry == Permutations(Machine) \cup Permutations(Attempt)
=============================================================================
