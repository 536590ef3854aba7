----------------------------- MODULE MCHubParts -----------------------------
(***************************************************************************)
(* The connection pool, the release catalogue and the enrollment of        *)
(* machines: protocols of the hub that share no state, a behaviour of this *)
(* module is one of any of them.                                           *)
(***************************************************************************)
EXTENDS ConnPool, Catalogue, Enroll, TLC

VARIABLE focus

allVars == <<poolVars, catVars, enrollVars, focus>>

MCSymmetry == Permutations(Client)

PartsInit ==
  /\ PoolInit /\ CatInit /\ EnrollInit
  /\ focus \in {"pool", "catalogue", "enrollment"}

PartsNext ==
  \/ focus = "pool" /\ PoolNext /\ UNCHANGED <<catVars, enrollVars, focus>>
  \/ focus = "catalogue" /\ (CatNext \/ CatDies) /\ UNCHANGED <<poolVars, enrollVars, focus>>
  \/ focus = "enrollment" /\ (EnrollNext \/ \E m \in Host : EnrollDies(m))
       /\ UNCHANGED <<poolVars, catVars, focus>>

PartsSpec == PartsInit /\ [][PartsNext]_allVars
=============================================================================
