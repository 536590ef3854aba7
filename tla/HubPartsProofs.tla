--------------------------- MODULE HubPartsProofs ---------------------------
(***************************************************************************)
(* What the connection pool and the enrollment of machines keep, two       *)
(* protocols of the hub that share no state.                               *)
(*                                                                         *)
(* The pool keeps connections apart and never opens more than max_size.    *)
(* The bound is proved from the account of _size, Accounted, which also    *)
(* says how much capacity failed connects have cost.                       *)
(*                                                                         *)
(* A one-time token makes one machine, and a host has no credentials that  *)
(* the hub does not know, for any hosts, tokens and requests.  Both rest   *)
(* on the row lock: a redemption that has passed the check for used_at     *)
(* keeps its token open until it ends (Holds).                             *)
(***************************************************************************)
EXTENDS ConnPool, Enroll, FiniteSetTheorems, TLAPS

-----------------------------------------------------------------------------
(* The connection pool (ConnPool). *)

\* A thread has a connection in hand exactly while it validates or uses it.
HandsMatch ==
  \A t \in Thread : held[t] # NoConn <=> pc[t] \in {"validate", "use"}

ExclusiveInv == PoolTypeOK /\ HandsMatch /\ Exclusive

PoolInv == ExclusiveInv /\ Accounted

LEMMA FiniteCounts ==
  ASSUME PoolTypeOK
  PROVE  /\ IsFiniteSet(Open) /\ Cardinality(Open) \in Nat
         /\ IsFiniteSet(Owing) /\ Cardinality(Owing) \in Nat
         /\ size \in Nat /\ MaxSize \in Nat /\ leaked \in Nat
<1>1. Open \subseteq Conn
  BY DEF PoolTypeOK, Open
<1>2. Owing \subseteq Thread
  BY DEF Owing
<1>3. IsFiniteSet(Open) /\ IsFiniteSet(Owing)
  BY <1>1, <1>2, PoolAssumption, FS_Subset DEF PoolAssumption
<1>4. QED
  BY <1>3, PoolAssumption, FS_CardinalityType DEF PoolAssumption, PoolTypeOK

\* A thread that has a count to take down finds one.
LEMMA OwingIsCounted ==
  ASSUME PoolInv, NEW t \in Owing
  PROVE  size > 0 /\ leaked < size
<1>1. Cardinality(Owing) # 0
  BY FiniteCounts, FS_EmptySet DEF PoolInv, ExclusiveInv
<1>2. QED
  BY <1>1, FiniteCounts DEF PoolInv, ExclusiveInv, Accounted

LEMMA ExclusiveStep ==
  ASSUME PoolInv, [PoolNext]_poolVars
  PROVE  ExclusiveInv'
<1> USE PoolAssumption DEF PoolAssumption, PoolInv, ExclusiveInv, PoolTypeOK, HandsMatch, Exclusive, Goes
<1>1. CASE UNCHANGED poolVars
  BY <1>1 DEF poolVars
<1>2. ASSUME NEW t \in Thread, Enter(t) \/ FindEmpty(t) \/ Full(t) \/ Valid(t)
      PROVE  ExclusiveInv'
  BY <1>2 DEF Enter, FindEmpty, Full, Valid
<1>3. ASSUME NEW t \in Thread, TakeIdle(t) \/ WaitOver(t)
      PROVE  ExclusiveInv'
  BY <1>3 DEF TakeIdle, WaitOver, Take
<1>4. ASSUME NEW t \in Thread, Grow(t)
      PROVE  ExclusiveInv'
  BY <1>4 DEF Grow
<1>5. ASSUME NEW t \in Thread, Connect(t)
      PROVE  ExclusiveInv'
  <2>1. PICK c \in Conn \ Open : held' = [held EXCEPT ![t] = c] /\ broken' = broken \ {c}
    BY <1>5 DEF Connect
  <2>2. c \notin idle /\ \A u \in Thread : held[u] # c
    BY <2>1 DEF Open
  <2>3. QED
    BY <1>5, <2>1, <2>2 DEF Connect
<1>6. ASSUME NEW t \in Thread, ConnectFails(t)
      PROVE  ExclusiveInv'
  <2>1. t \in Owing
    BY <1>6 DEF ConnectFails, Owing
  <2>2. leaked < size
    BY <2>1, OwingIsCounted
  <2>3. leaked' \in 0..MaxSize
    BY <1>6, <2>2 DEF ConnectFails
  <2>4. QED
    BY <1>6, <2>3 DEF ConnectFails
<1>7. ASSUME NEW t \in Thread, Invalid(t) \/ Discard(t)
      PROVE  ExclusiveInv'
  BY <1>7 DEF Invalid, Discard, Closes
<1>8. ASSUME NEW t \in Thread, CheckIn(t)
      PROVE  ExclusiveInv'
  BY <1>8 DEF CheckIn
<1>9. ASSUME NEW t \in Thread, CountDown(t)
      PROVE  ExclusiveInv'
  <2>1. t \in Owing
    BY <1>9 DEF CountDown, Owing
  <2>2. size \in 0..MaxSize /\ size > 0
    BY <2>1, OwingIsCounted
  <2>3. size' \in 0..MaxSize
    BY <1>9, <2>2 DEF CountDown, Counted
  <2>4. QED
    BY <1>9, <2>3 DEF CountDown
<1>10. ASSUME NEW c \in Conn, Break(c)
       PROVE  ExclusiveInv'
  BY <1>10 DEF Break
<1>11. QED
  BY <1>1, <1>2, <1>3, <1>4, <1>5, <1>6, <1>7, <1>8, <1>9, <1>10 DEF PoolNext

-----------------------------------------------------------------------------
(* How each step changes what is open and what is owed. *)

LEMMA CoverStep ==
  ASSUME PoolInv, [PoolNext]_poolVars
  PROVE  Accounted'
<1> USE DEF PoolInv, ExclusiveInv, PoolTypeOK, Goes
<1>1. /\ IsFiniteSet(Open) /\ Cardinality(Open) \in Nat
      /\ IsFiniteSet(Owing) /\ Cardinality(Owing) \in Nat
      /\ size \in Nat /\ leaked \in Nat
  BY FiniteCounts
<1>2. ASSUME Open' = Open, Owing' = Owing, size' = size, leaked' = leaked
      PROVE  Accounted'
  BY <1>2 DEF Accounted
<1>3. CASE UNCHANGED poolVars
  BY <1>2, <1>3 DEF poolVars, Open, Owing
<1>4. ASSUME NEW t \in Thread, Enter(t) \/ FindEmpty(t) \/ Full(t) \/ Valid(t)
      PROVE  Accounted'
  BY <1>2, <1>4 DEF Enter, FindEmpty, Full, Valid, Open, Owing
<1>5. ASSUME NEW t \in Thread, TakeIdle(t) \/ WaitOver(t)
      PROVE  Accounted'
  <2>1. PICK c \in idle : idle' = idle \ {c} /\ held' = [held EXCEPT ![t] = c]
    BY <1>5 DEF TakeIdle, WaitOver, Take
  <2>2. held[t] = NoConn /\ c # NoConn
    BY <1>5, <2>1, PoolAssumption DEF HandsMatch, TakeIdle, WaitOver, PoolAssumption
  <2>3. Open' = Open
    BY <2>1, <2>2 DEF Open
  <2>4. Owing' = Owing /\ size' = size /\ leaked' = leaked
    BY <1>5 DEF TakeIdle, WaitOver, Take, Owing
  <2>5. QED
    BY <1>2, <2>3, <2>4
<1>6. ASSUME NEW t \in Thread, Grow(t)
      PROVE  Accounted'
  <2>1. Open' = Open /\ size' = size + 1 /\ leaked' = leaked
    BY <1>6 DEF Grow, Open
  <2>2. Owing' = Owing \cup {t} /\ t \notin Owing
    BY <1>6 DEF Grow, Owing
  <2>3. Cardinality(Owing') = Cardinality(Owing) + 1
    BY <1>1, <2>2, FS_AddElement
  <2>4. QED
    BY <1>1, <2>1, <2>3 DEF Accounted
<1>7. ASSUME NEW t \in Thread, Connect(t)
      PROVE  Accounted'
  <2>1. PICK c \in Conn \ Open : held' = [held EXCEPT ![t] = c] /\ broken' = broken \ {c}
    BY <1>7 DEF Connect
  <2>2. held[t] = NoConn /\ c # NoConn
    BY <1>7, <2>1, PoolAssumption DEF HandsMatch, Connect, PoolAssumption
  <2>3. Open' = Open \cup {c} /\ size' = size /\ leaked' = leaked
    BY <1>7, <2>1, <2>2 DEF Connect, Open
  <2>4. Owing' = Owing \ {t} /\ t \in Owing
    BY <1>7 DEF Connect, Owing
  <2>5. Cardinality(Open') = Cardinality(Open) + 1
    BY <1>1, <2>1, <2>3, FS_AddElement
  <2>6. Cardinality(Owing') = Cardinality(Owing) - 1
    BY <1>1, <2>4, FS_RemoveElement
  <2>7. QED
    BY <1>1, <2>3, <2>5, <2>6 DEF Accounted
<1>8. ASSUME NEW t \in Thread, ConnectFails(t)
      PROVE  Accounted'
  <2>1. Open' = Open /\ size' = size /\ leaked' = leaked + 1
    BY <1>8 DEF ConnectFails, Open
  <2>2. Owing' = Owing \ {t} /\ t \in Owing
    BY <1>8 DEF ConnectFails, Owing
  <2>3. Cardinality(Owing') = Cardinality(Owing) - 1
    BY <1>1, <2>2, FS_RemoveElement
  <2>4. QED
    BY <1>1, <2>1, <2>3 DEF Accounted
<1>9. ASSUME NEW t \in Thread, Invalid(t) \/ Discard(t)
      PROVE  Accounted'
  <2>1. held[t] # NoConn /\ held[t] \in Open /\ held[t] \notin idle
    BY <1>9, PoolAssumption DEF HandsMatch, Exclusive, Invalid, Discard, Open
  <2>2. \A u \in Thread : held[u] = held[t] => u = t
    BY <2>1 DEF Exclusive
  <2>3. held' = [held EXCEPT ![t] = NoConn] /\ idle' = idle /\ size' = size /\ leaked' = leaked
    BY <1>9 DEF Invalid, Discard, Closes
  <2>4. Open' = Open \ {held[t]}
    BY <2>1, <2>2, <2>3 DEF Open
  <2>5. Owing' = Owing \cup {t} /\ t \notin Owing
    BY <1>9 DEF Invalid, Discard, Closes, Owing
  <2>6. Cardinality(Open') = Cardinality(Open) - 1
    BY <1>1, <2>1, <2>4, FS_RemoveElement
  <2>7. Cardinality(Owing') = Cardinality(Owing) + 1
    BY <1>1, <2>5, FS_AddElement
  <2>8. QED
    BY <1>1, <2>3, <2>6, <2>7 DEF Accounted
<1>10. ASSUME NEW t \in Thread, CheckIn(t)
       PROVE  Accounted'
  <2>1. held[t] # NoConn
    BY <1>10 DEF HandsMatch, CheckIn
  <2>2. Open' = Open
    BY <1>10, <2>1 DEF CheckIn, Open
  <2>3. Owing' = Owing /\ size' = size /\ leaked' = leaked
    BY <1>10 DEF CheckIn, Owing
  <2>4. QED
    BY <1>2, <2>2, <2>3
<1>11. ASSUME NEW t \in Thread, CountDown(t)
       PROVE  Accounted'
  <2>1. Open' = Open /\ size' = size - 1 /\ leaked' = leaked
    BY <1>11 DEF CountDown, Counted, Open
  <2>2. Owing' = Owing \ {t} /\ t \in Owing
    BY <1>11 DEF CountDown, Owing
  <2>3. Cardinality(Owing') = Cardinality(Owing) - 1
    BY <1>1, <2>2, FS_RemoveElement
  <2>4. QED
    BY <1>1, <2>1, <2>3 DEF Accounted
<1>12. ASSUME NEW c \in Conn, Break(c)
       PROVE  Accounted'
  BY <1>2, <1>12 DEF Break, Open, Owing
<1>13. QED
  BY <1>3, <1>4, <1>5, <1>6, <1>7, <1>8, <1>9, <1>10, <1>11, <1>12 DEF PoolNext

LEMMA PoolInvariance == PoolSpec => []PoolInv
<1>1. PoolInit => PoolInv
  <2> SUFFICES ASSUME PoolInit
               PROVE  PoolInv
    OBVIOUS
  <2>1. Open = {} /\ Owing = {}
    BY DEF PoolInit, Open, Owing
  <2>2. Accounted
    BY <2>1, FS_EmptySet DEF PoolInit, Accounted
  <2>3. ExclusiveInv
    BY PoolAssumption DEF PoolAssumption, PoolInit, ExclusiveInv, PoolTypeOK, HandsMatch, Exclusive
  <2>4. QED
    BY <2>2, <2>3 DEF PoolInv
<1>2. PoolInv /\ [PoolNext]_poolVars => PoolInv'
  BY ExclusiveStep, CoverStep DEF PoolInv
<1>3. QED
  BY <1>1, <1>2, PTL DEF PoolSpec

\* No connection is ever in two hands, nor in a hand and in the queue.
THEOREM NoSharing == PoolSpec => []Exclusive
<1>1. PoolInv => Exclusive
  BY DEF PoolInv, ExclusiveInv
<1>2. QED
  BY <1>1, PoolInvariance, PTL

\* _size is the open and owed connections and the failed connects, always.
THEOREM SizeAccounted == PoolSpec => []Accounted
<1>1. PoolInv => Accounted
  BY DEF PoolInv
<1>2. QED
  BY <1>1, PoolInvariance, PTL

\* At most max_size connections are open, also when connect() fails.
THEOREM NeverTooMany == PoolSpec => []Bounded
<1>1. PoolInv => Bounded
  BY FiniteCounts DEF PoolInv, ExclusiveInv, PoolTypeOK, Accounted, Bounded
<1>2. QED
  BY <1>1, PoolInvariance, PTL

-----------------------------------------------------------------------------
(* Enrollment (Enroll). *)

\* The lock and the redemption that has it know each other, and the token is
\* as the check found it.
Holds ==
  /\ \A t \in Token, r \in Request :
       redeemer[t] = r => req[r].pc = "granted" /\ req[r].token = t
  /\ \A r \in Request : req[r].pc = "granted" =>
       redeemer[req[r].token] = r /\ token[req[r].token] = "open"

\* The machines table and the tokens tell the same story.
MintedOnce ==
  /\ \A r \in machines :
       /\ req[r].pc \in {"minted", "over"} /\ req[r] # Unmade
       /\ token[req[r].token] \in {"used", "deleted"}
  /\ \A r, s \in machines : req[r].token = req[s].token => r = s
  /\ \A t \in Token : token[t] = "used" => \E r \in machines : req[r].token = t

OneTimeInv == EnrollTypeOK /\ Holds /\ MintedOnce

\* Credentials travel from the machines table to the host that asked for them.
Travels ==
  /\ \A r \in Request : req[r].pc = "minted" => r \in machines
  /\ \A m \in Host : \A r \in {hand[m], agentToml[m]} \cap Request :
       r \in machines /\ req[r].host = m

KnownInv == OneTimeInv /\ Travels

ReqType ==
  req \in [Request -> {Unmade} \cup
    [pc : {"sent", "granted", "minted", "refused", "over"}, host : Host, token : Token]]

LEMMA MadeRequest ==
  ASSUME EnrollTypeOK, NEW r \in Request, req[r].pc # "free"
  PROVE  req[r].host \in Host /\ req[r].token \in Token /\ req[r] # Unmade
BY DEF EnrollTypeOK, Unmade

LEMMA EnrollTypeStep ==
  ASSUME EnrollTypeOK, [EnrollNext \/ \E m \in Host : EnrollDies(m)]_enrollVars
  PROVE  EnrollTypeOK'
<1> USE EnrollAssumption DEF EnrollAssumption, EnrollTypeOK, ReqAt, ReqGoes
<1>1. CASE UNCHANGED enrollVars
  BY <1>1 DEF enrollVars
<1>2. ASSUME NEW t \in Token, CreateToken(t) \/ Expire(t) \/ RevokeToken(t)
      PROVE  EnrollTypeOK'
  BY <1>2 DEF CreateToken, Expire, RevokeToken
<1>3. ASSUME NEW m \in Host, SaveBegins(m) \/ SaveEnds(m) \/ GivesUp(m) \/ EnrollDies(m)
      PROVE  EnrollTypeOK'
  BY <1>3 DEF SaveBegins, SaveEnds, GivesUp, EnrollDies
<1>4. ASSUME NEW r \in Request, NEW m \in Host, NEW t \in Token, SendEnroll(m, t, r)
      PROVE  EnrollTypeOK'
  BY <1>4 DEF SendEnroll
<1>5. ASSUME NEW r \in Request, NEW s \in {"granted", "minted", "refused", "over"},
             req[r].pc # "free", ReqGoes(r, s)
      PROVE  ReqType'
  BY <1>5, MadeRequest DEF ReqType, Unmade
<1>6. ASSUME NEW r \in Request, LockToken(r) \/ Mint(r) \/ HubLoses(r)
      PROVE  EnrollTypeOK'
  <2>1. req[r].pc # "free" /\ \E s \in {"granted", "minted", "refused", "over"} : ReqGoes(r, s)
    BY <1>6 DEF LockToken, Mint, HubLoses
  <2>2. ReqType' /\ req[r].token \in Token
    BY <1>5, <2>1, MadeRequest
  <2>3. QED
    BY <1>6, <2>2 DEF LockToken, Mint, HubLoses, Recorded, ReqType
<1>7. ASSUME NEW r \in Request, Reply(r)
      PROVE  EnrollTypeOK'
  <2>1. ReqType' /\ req[r].host \in Host
    BY <1>5, <1>7, MadeRequest DEF Reply
  <2>2. QED
    BY <1>7, <2>1 DEF Reply, ReqType
<1>8. QED
  BY <1>1, <1>2, <1>3, <1>4, <1>6, <1>7 DEF EnrollNext

LEMMA EnrollTypeInit == EnrollInit => EnrollTypeOK
BY EnrollAssumption DEF EnrollInit, EnrollTypeOK, Unmade, EnrollAssumption

\* Every reachable state of the enrollment is well typed.
THEOREM EnrollTypeCorrect == EnrollSpec => []EnrollTypeOK
BY EnrollTypeInit, EnrollTypeStep, PTL DEF EnrollSpec

-----------------------------------------------------------------------------
(* One machine for a token *)

LEMMA OneTimeStep ==
  ASSUME OneTimeInv, [EnrollNext \/ \E m \in Host : EnrollDies(m)]_enrollVars
  PROVE  OneTimeInv'
<1> USE EnrollAssumption DEF EnrollAssumption, OneTimeInv, Holds, MintedOnce, ReqAt, ReqGoes
<1> EnrollTypeOK'
  BY EnrollTypeStep
<1> SUFFICES (Holds /\ MintedOnce)'
  OBVIOUS
<1>1. CASE UNCHANGED enrollVars
  BY <1>1 DEF enrollVars
<1>2. ASSUME NEW t \in Token, CreateToken(t) \/ Expire(t) \/ RevokeToken(t)
      PROVE  (Holds /\ MintedOnce)'
  BY <1>2, MadeRequest DEF CreateToken, Expire, RevokeToken, EnrollTypeOK
<1>3. ASSUME NEW m \in Host, SaveBegins(m) \/ SaveEnds(m) \/ GivesUp(m) \/ EnrollDies(m)
      PROVE  (Holds /\ MintedOnce)'
  BY <1>3 DEF SaveBegins, SaveEnds, GivesUp, EnrollDies
<1>4. ASSUME NEW r \in Request, NEW m \in Host, NEW t \in Token, SendEnroll(m, t, r)
      PROVE  (Holds /\ MintedOnce)'
  BY <1>4 DEF SendEnroll, EnrollTypeOK
<1>5. ASSUME NEW r \in Request, LockToken(r)
      PROVE  (Holds /\ MintedOnce)'
  BY SMTT(30), <1>5, MadeRequest DEF LockToken, RowFree, EnrollTypeOK, Unmade
<1>6. ASSUME NEW r \in Request, Mint(r)
      PROVE  (Holds /\ MintedOnce)'
  BY <1>6, MadeRequest DEF Mint, Recorded, EnrollTypeOK, Unmade
<1>7. ASSUME NEW r \in Request, Reply(r) \/ HubLoses(r)
      PROVE  (Holds /\ MintedOnce)'
  BY SMTT(30), <1>7, MadeRequest DEF Reply, HubLoses, EnrollTypeOK, Unmade
<1>8. QED
  BY <1>1, <1>2, <1>3, <1>4, <1>5, <1>6, <1>7 DEF EnrollNext

LEMMA OneTimeInit == EnrollInit => OneTimeInv
BY EnrollTypeInit, EnrollAssumption
   DEF EnrollInit, OneTimeInv, Holds, MintedOnce, Unmade, EnrollAssumption

LEMMA OneTimeHolds == OneTimeInv => OneTime
<1> SUFFICES ASSUME OneTimeInv, NEW t \in Token
             PROVE  /\ Cardinality(MintedWith(t)) <= 1
                    /\ token[t] = "used" => MintedWith(t) # {}
                    /\ token[t] \in {"none", "open"} => MintedWith(t) = {}
  BY DEF OneTime
<1>1. Cardinality(MintedWith(t)) <= 1
  <2>1. CASE MintedWith(t) = {}
    BY <2>1, FS_EmptySet
  <2>2. ASSUME NEW r \in MintedWith(t)
        PROVE  Cardinality(MintedWith(t)) <= 1
    <3>1. \A s \in MintedWith(t) : s = r
      BY <2>2 DEF MintedWith, OneTimeInv, MintedOnce
    <3>2. MintedWith(t) \subseteq {r}
      BY <3>1
    <3>3. IsFiniteSet({r}) /\ Cardinality({r}) = 1
      BY FS_Singleton
    <3>4. Cardinality(MintedWith(t)) <= Cardinality({r})
      BY <3>2, <3>3, FS_Subset
    <3>5. QED
      BY <3>3, <3>4
  <2>3. QED
    BY <2>1, <2>2
<1>2. QED
  BY <1>1 DEF MintedWith, OneTimeInv, MintedOnce

\* A one-time token makes one machine, and is used exactly when it did, until
\* it is deleted.
THEOREM TokensAreOneTime == EnrollSpec => []OneTime
BY OneTimeInit, OneTimeStep, OneTimeHolds, PTL DEF EnrollSpec

-----------------------------------------------------------------------------
(* Known credentials *)

LEMMA KnownStep ==
  ASSUME KnownInv, [EnrollNext \/ \E m \in Host : EnrollDies(m)]_enrollVars
  PROVE  KnownInv'
<1> USE EnrollAssumption DEF EnrollAssumption, KnownInv, Travels, ReqAt, ReqGoes
<1> OneTimeInv'
  BY OneTimeStep
<1> EnrollTypeOK
  BY DEF OneTimeInv
<1> SUFFICES Travels'
  OBVIOUS
<1>1. CASE UNCHANGED enrollVars
  BY <1>1 DEF enrollVars
<1>2. ASSUME NEW t \in Token, CreateToken(t) \/ Expire(t) \/ RevokeToken(t)
      PROVE  Travels'
  BY <1>2 DEF CreateToken, Expire, RevokeToken
<1>3. ASSUME NEW m \in Host, SaveBegins(m) \/ SaveEnds(m) \/ GivesUp(m) \/ EnrollDies(m)
      PROVE  Travels'
  BY <1>3 DEF SaveBegins, SaveEnds, GivesUp, EnrollDies, EnrollTypeOK
<1>4. ASSUME NEW r \in Request, NEW m \in Host, NEW t \in Token, SendEnroll(m, t, r)
      PROVE  Travels'
  BY <1>4 DEF SendEnroll, EnrollTypeOK, OneTimeInv, MintedOnce
<1>5. ASSUME NEW r \in Request, LockToken(r) \/ Mint(r) \/ HubLoses(r)
      PROVE  Travels'
  BY <1>5, MadeRequest DEF LockToken, Mint, HubLoses, Recorded, EnrollTypeOK
<1>6. ASSUME NEW r \in Request, Reply(r)
      PROVE  Travels'
  BY <1>6, MadeRequest DEF Reply, EnrollTypeOK
<1>7. QED
  BY <1>1, <1>2, <1>3, <1>4, <1>5, <1>6 DEF EnrollNext

\* The hub knows the credentials of every enrolled host, and no two hosts have
\* the same ones.
THEOREM HostsAreKnown == EnrollSpec => []CredentialsKnown
<1>1. EnrollInit => KnownInv
  BY OneTimeInit, EnrollAssumption DEF EnrollInit, KnownInv, Travels, Unmade, EnrollAssumption
<1>2. KnownInv => CredentialsKnown
  BY DEF KnownInv, Travels, CredentialsKnown
<1>3. QED
  BY <1>1, <1>2, KnownStep, PTL DEF EnrollSpec
=============================================================================
