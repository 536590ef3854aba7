-------------------------- MODULE AssignmentLedger --------------------------
(***************************************************************************)
(* What the hub promises about an Assignment, with machines, leases, tags, *)
(* transactions and evidence left out.  An Assignment is submitted, handed *)
(* to one attempt at a time (an attempt that held it before is lost), is   *)
(* settled at most once and by the attempt that holds it, and may be       *)
(* withdrawn when it is settled.  HubStore implements this.                *)
(***************************************************************************)
CONSTANTS Assignment, Attempt, None

VARIABLES phase,      \* where each Assignment stands
          fate,       \* what became of each attempt
          grantedTo   \* the Assignment an attempt was made for, or None

ledgerVars == <<phase, fate, grantedTo>>

Phases == {"none", "open", "held", "done"}
Fates  == {"fresh", "live", "lost", "won", "gone"}

LedgerTypeOK ==
  /\ phase \in [Assignment -> Phases]
  /\ fate \in [Attempt -> Fates]
  /\ grantedTo \in [Attempt -> Assignment \cup {None}]

LedgerInit ==
  /\ phase = [a \in Assignment |-> "none"]
  /\ fate = [id \in Attempt |-> "fresh"]
  /\ grantedTo = [id \in Attempt |-> None]

Submit(a) ==
  /\ phase[a] = "none"
  /\ phase' = [phase EXCEPT ![a] = "open"]
  /\ UNCHANGED <<fate, grantedTo>>

\* A fresh attempt takes the Assignment; whoever held it is lost.
Grant(a, id) ==
  /\ phase[a] \in {"open", "held"}
  /\ fate[id] = "fresh"
  /\ phase' = [phase EXCEPT ![a] = "held"]
  /\ fate' = [i \in Attempt |->
                CASE i = id -> "live"
                  [] i # id /\ fate[i] = "live" /\ grantedTo[i] = a -> "lost"
                  [] OTHER -> fate[i]]
  /\ grantedTo' = [grantedTo EXCEPT ![id] = a]

Settle(a, id) ==
  /\ phase[a] = "held"
  /\ fate[id] = "live"
  /\ grantedTo[id] = a
  /\ phase' = [phase EXCEPT ![a] = "done"]
  /\ fate' = [fate EXCEPT ![id] = "won"]
  /\ UNCHANGED grantedTo

\* Settled Assignments are forgotten with every attempt made for them.
Withdraw(S) ==
  /\ \A a \in S : phase[a] = "done"
  /\ phase' = [a \in Assignment |-> IF a \in S THEN "none" ELSE phase[a]]
  /\ fate' = [id \in Attempt |-> IF grantedTo[id] \in S THEN "gone" ELSE fate[id]]
  /\ UNCHANGED grantedTo

LedgerNext ==
  \/ \E a \in Assignment : Submit(a)
  \/ \E a \in Assignment, id \in Attempt : Grant(a, id) \/ Settle(a, id)
  \/ \E S \in SUBSET Assignment : Withdraw(S)

LedgerSpec == LedgerInit /\ [][LedgerNext]_ledgerVars
=============================================================================
