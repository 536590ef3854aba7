------------------------------- MODULE Enroll -------------------------------
(***************************************************************************)
(* Enrollment: the operator mints one-time tokens, machines exchange them  *)
(* for credentials, and keep those in agent.toml.  A request is redeemed   *)
(* in one transaction that locks the token's row; its reply may come too   *)
(* late, and the machine may stop before the file is written.              *)
(*                                                                         *)
(* Every redemption mints fresh credentials: they are named after the      *)
(* request that asked for them.                                            *)
(***************************************************************************)
EXTENDS Integers, FiniteSets

CONSTANTS
  Host,       \* machines that may run coreme-agent enroll
  Token,      \* enroll tokens
  Request,    \* POST /v1/machines/enroll, each made at most once
  Nobody

ASSUME EnrollAssumption ==
  /\ Nobody \notin Host \cup Token \cup Request \cup {"torn"}
  /\ "torn" \notin Request

VARIABLES
  token,      \* the row of a token: none, open, used, or deleted
  expired,    \* tokens past expires_at
  redeemer,   \* the request whose transaction has the row locked, or Nobody
  req,        \* each request: where it is, who made it, with which token
  machines,   \* credentials in the hub's machines table
  waiting,    \* the request a host waits for, or Nobody
  hand,       \* the credentials an enroll command has and has not saved
  agentToml   \* credentials in agent.toml: Nobody, "torn" while being written

enrollVars == <<token, expired, redeemer, req, machines, waiting, hand, agentToml>>

Unmade == [pc |-> "free", host |-> Nobody, token |-> Nobody]

EnrollTypeOK ==
  /\ token \in [Token -> {"none", "open", "used", "deleted"}]
  /\ expired \subseteq Token
  /\ redeemer \in [Token -> Request \cup {Nobody}]
  /\ req \in [Request -> {Unmade} \cup
       [pc : {"sent", "granted", "minted", "refused", "over"}, host : Host, token : Token]]
  /\ machines \subseteq Request
  /\ waiting \in [Host -> Request \cup {Nobody}]
  /\ hand \in [Host -> Request \cup {Nobody}]
  /\ agentToml \in [Host -> Request \cup {Nobody, "torn"}]

EnrollInit ==
  /\ token = [t \in Token |-> "none"]
  /\ expired = {}
  /\ redeemer = [t \in Token |-> Nobody]
  /\ req = [r \in Request |-> Unmade]
  /\ machines = {}
  /\ waiting = [m \in Host |-> Nobody]
  /\ hand = [m \in Host |-> Nobody]
  /\ agentToml = [m \in Host |-> Nobody]

ReqAt(r, s) == req[r].pc = s
ReqGoes(r, s) == req' = [req EXCEPT ![r].pc = s]

CreateToken(t) ==
  /\ token[t] = "none"
  /\ token' = [token EXCEPT ![t] = "open"]
  /\ UNCHANGED <<expired, redeemer, req, machines, waiting, hand, agentToml>>

Expire(t) ==
  /\ token[t] # "none"
  /\ expired' = expired \cup {t}
  /\ UNCHANGED <<token, redeemer, req, machines, waiting, hand, agentToml>>

\* enroll-token revoke deletes the row, used or not, once no redemption has it.
RevokeToken(t) ==
  /\ token[t] \in {"open", "used"}
  /\ redeemer[t] = Nobody
  /\ token' = [token EXCEPT ![t] = "deleted"]
  /\ UNCHANGED <<expired, redeemer, req, machines, waiting, hand, agentToml>>

\* coreme-agent enroll: one request, and the command waits for its reply.
SendEnroll(m, t, r) ==
  /\ waiting[m] = Nobody /\ hand[m] = Nobody
  /\ token[t] # "none"
  /\ ReqAt(r, "free")
  /\ req' = [req EXCEPT ![r] = [pc |-> "sent", host |-> m, token |-> t]]
  /\ waiting' = [waiting EXCEPT ![m] = r]
  /\ UNCHANGED <<token, expired, redeemer, machines, hand, agentToml>>

\* Mutant of RowFree: the SELECT has no FOR UPDATE.
RowFreeAlways(t) == TRUE

RowFree(t) == redeemer[t] = Nobody

\* SELECT ... FOR UPDATE and the three checks of redeem_enroll_token: a row
\* that is missing or expired is refused as unauthorized, a used one as a
\* conflict.
LockToken(r) ==
  /\ ReqAt(r, "sent")
  /\ LET t == req[r].token IN
       /\ RowFree(t)
       /\ IF token[t] = "open" /\ t \notin expired
          THEN redeemer' = [redeemer EXCEPT ![t] = r] /\ ReqGoes(r, "granted")
          ELSE ReqGoes(r, "refused") /\ UNCHANGED redeemer
  /\ UNCHANGED <<token, expired, machines, waiting, hand, agentToml>>

\* Mutant of Recorded: the reply goes out and the machine's row is not committed.
RecordedNot(r) == machines

Recorded(r) == machines \cup {r}

\* The machine's row, the used token, and the commit.
Mint(r) ==
  /\ ReqAt(r, "granted")
  /\ machines' = Recorded(r)
  /\ token' = [token EXCEPT ![req[r].token] = "used"]
  /\ redeemer' = [redeemer EXCEPT ![req[r].token] = Nobody]
  /\ ReqGoes(r, "minted")
  /\ UNCHANGED <<expired, waiting, hand, agentToml>>

\* The reply arrives while the command still waits for it.
Reply(r) ==
  /\ req[r].pc \in {"minted", "refused"}
  /\ waiting[req[r].host] = r
  /\ waiting' = [waiting EXCEPT ![req[r].host] = Nobody]
  /\ hand' = [hand EXCEPT ![req[r].host] = IF ReqAt(r, "minted") THEN r ELSE Nobody]
  /\ ReqGoes(r, "over")
  /\ UNCHANGED <<token, expired, redeemer, machines, agentToml>>

\* 30 seconds, or the connection broke: the command ends with a traceback,
\* and the request may still be on its way.
GivesUp(m) ==
  /\ waiting[m] # Nobody
  /\ waiting' = [waiting EXCEPT ![m] = Nobody]
  /\ UNCHANGED <<token, expired, redeemer, req, machines, hand, agentToml>>

\* The hub process ends: requests are gone, their transactions rolled back.
HubLoses(r) ==
  /\ req[r].pc \in {"sent", "granted", "minted", "refused"}
  /\ redeemer' = [t \in Token |-> IF redeemer[t] = r THEN Nobody ELSE redeemer[t]]
  /\ ReqGoes(r, "over")
  /\ UNCHANGED <<token, expired, machines, waiting, hand, agentToml>>

\* save opens agent.toml, which empties it, and then writes it: whatever
\* credentials it had are gone.
SaveBegins(m) ==
  /\ hand[m] # Nobody
  /\ agentToml[m] # "torn"
  /\ agentToml' = [agentToml EXCEPT ![m] = "torn"]
  /\ UNCHANGED <<token, expired, redeemer, req, machines, waiting, hand>>

SaveEnds(m) ==
  /\ hand[m] # Nobody
  /\ agentToml[m] = "torn"
  /\ agentToml' = [agentToml EXCEPT ![m] = hand[m]]
  /\ hand' = [hand EXCEPT ![m] = Nobody]
  /\ UNCHANGED <<token, expired, redeemer, req, machines, waiting>>

\* The enroll command dies wherever it is.
EnrollDies(m) ==
  /\ waiting' = [waiting EXCEPT ![m] = Nobody]
  /\ hand' = [hand EXCEPT ![m] = Nobody]
  /\ UNCHANGED <<token, expired, redeemer, req, machines, agentToml>>

\* load and the check of _cmd_run: a daemon starts with credentials or not at all.
MayStart(m) == agentToml[m] \in Request

\* _require_machine: the hub finds the row of the machine's token.
Known(m) == MayStart(m) /\ agentToml[m] \in machines

EnrollNext ==
  \/ \E t \in Token : CreateToken(t) \/ Expire(t) \/ RevokeToken(t)
  \/ \E m \in Host : SaveBegins(m) \/ SaveEnds(m) \/ GivesUp(m)
  \/ \E r \in Request :
       \/ \E m \in Host, t \in Token : SendEnroll(m, t, r)
       \/ LockToken(r) \/ Mint(r) \/ Reply(r) \/ HubLoses(r)

EnrollSpec ==
  EnrollInit /\ [][EnrollNext \/ \E m \in Host : EnrollDies(m)]_enrollVars

-----------------------------------------------------------------------------
(* Properties *)

MintedWith(t) == {r \in machines : req[r].token = t}

\* A one-time token makes one machine: two redemptions, or one and the retry
\* of a command that gave up, never both pass the check for used_at; and a
\* token is marked used together with the machine it made.
OneTime ==
  \A t \in Token :
    /\ Cardinality(MintedWith(t)) <= 1
    /\ token[t] = "used" => MintedWith(t) # {}
    /\ token[t] \in {"none", "open"} => MintedWith(t) = {}

\* Whatever credentials a host has in hand or in agent.toml, the hub knows:
\* no heartbeat or download of an enrolled machine is answered 401 or makes a
\* second row; and no two hosts have the same ones.
CredentialsKnown ==
  /\ \A m \in Host : {hand[m], agentToml[m]} \cap Request \subseteq machines
  /\ \A m, n \in Host : m # n =>
       {hand[m], agentToml[m]} \cap {hand[n], agentToml[n]} \cap Request = {}
=============================================================================
