----------------------------- MODULE FleetProofs ------------------------------
(***************************************************************************)
(* What holds of Fleet for any number of machines, slots, Assignments and  *)
(* attempts, and any bound on the faults.  Whatever the agents do is a     *)
(* step the store allows its clients (HubMoves), so HubInv holds of the    *)
(* fleet too; AgentInv says what a daemon, its threads and its disk know   *)
(* of the tables of the hub.                                               *)
(***************************************************************************)
EXTENDS Fleet, HubStoreProofs

Used(id) == att_status[id] # "unused"

\* The hub has the result of the attempt, or had it until prune_old.
Accepted(id) == att_status[id] \in Outcome \cup {"deleted"}

Flushing == {"complete", "mark", "evidence", "putting", "delete"}

\* A worker, its verdict and its outbox item belong to an attempt the hub
\* has made; an item marked sent is one whose result the hub has.
AttemptKnows(id) ==
  /\ ~Used(id) => /\ att_machine[id] = None
                  /\ step[id] = "none"
                  /\ verdict[id] = None
                  /\ ~renewer[id]
  /\ verdict[id] # None => step[id] \notin {"none", "running"}
  /\ step[id] \in Flushing \cup {"writing"} => verdict[id] # None
  /\ box[id] # "none" => verdict[id] # None
  /\ box[id] = "sent" => Accepted(id)

\* A thread flushes an item of its own machine, and is past the complete
\* call only when the hub has the result.
ThreadKnows(t) ==
  /\ t \in Machine => step[t] \in Flushing \cup {"none"}
  /\ step[t] \in Flushing =>
       /\ Item(t) \in Attempt
       /\ att_machine[Item(t)] = Agent(t)
       /\ verdict[Item(t)] # None
       /\ step[t] # "complete" => Accepted(Item(t))

\* What a main thread holds in memory: the Assignments it was given, and the
\* items it has loaded, of which those read as sent are accepted.
MachineKnows(m) ==
  /\ active[m] \subseteq {att_asg[id] : id \in Owned(m)}
  /\ \A p \in todo[m] : /\ att_machine[p[1]] = m
                        /\ verdict[p[1]] # None
                        /\ p[2] => Accepted(p[1])

AgentInv ==
  /\ \A id \in Attempt : AttemptKnows(id)
  /\ \A t \in Thread : ThreadKnows(t)
  /\ \A m \in Machine : MachineKnows(m)

FleetInv ==
  /\ FleetTypeOK
  /\ HubInv
  /\ AgentInv

-----------------------------------------------------------------------------
(* The agents are clients of the store. *)

\* The attempt a flushing thread works on has rows at the hub.
LEMMA FlushedRow ==
  ASSUME FleetInv, NEW t \in Thread, step[t] \in Flushing
  PROVE  /\ Item(t) \in Attempt
         /\ Used(Item(t))
         /\ att_asg[Item(t)] \in Assignment
         /\ Agent(t) \in Machine
         /\ att_machine[Item(t)] = Agent(t)
         /\ verdict[Item(t)] \in Outcome
<1>1. /\ Item(t) \in Attempt
      /\ att_machine[Item(t)] = Agent(t)
      /\ verdict[Item(t)] # None
  BY DEF FleetInv, AgentInv, ThreadKnows
<1>2. Used(Item(t))
  BY <1>1 DEF FleetInv, AgentInv, AttemptKnows
<1>3. att_asg[Item(t)] \in Assignment /\ att_machine[Item(t)] \in Machine
  BY <1>1, <1>2 DEF FleetInv, HubInv, TableInv, AttemptRows, Used
<1>4. verdict[Item(t)] \in Outcome
  BY <1>1 DEF FleetInv, FleetTypeOK
<1>5. QED
  BY <1>1, <1>2, <1>3, <1>4

\* The renewer of an attempt works for an attempt that has rows too.
LEMMA RenewedRow ==
  ASSUME FleetInv, NEW id \in Attempt, renewer[id]
  PROVE  att_asg[id] \in Assignment /\ att_machine[id] \in Machine
BY DEF FleetInv, AgentInv, AttemptKnows, HubInv, TableInv, AttemptRows, Used

\* A result is stored as the status it has in the item.
LEMMA OutcomeIsNormal == \A v \in Outcome : v \in Reported /\ Normal(v) = v
BY HubAssumption DEF HubAssumption, CompleteOK, Reported, Normal, Alias

LEMMA CompleteCall ==
  ASSUME NEW m \in Machine, NEW a \in Assignment, NEW id \in Attempt, NEW v \in Outcome,
         Complete(a, m, id, v)
  PROVE  Next
<1>1. \E st \in Reported : Complete(a, m, id, Normal(st))
  BY OutcomeIsNormal
<1>2. ClientCall(m, a, id)
  BY <1>1 DEF ClientCall
<1>3. QED
  BY <1>2 DEF Next

LEMMA RenewCall ==
  ASSUME NEW m \in Machine, NEW a \in Assignment, NEW id \in Attempt, Renew(a, m, id)
  PROVE  Next
BY DEF ClientCall, Next

LEMMA UploadCall ==
  ASSUME NEW m \in Machine, NEW a \in Assignment, NEW id \in Attempt, UploadCheck(a, m, id)
  PROVE  Next
BY DEF ClientCall, Next

\* Complete is called with what the item says, or not at all.
LEMMA CompleteOfItem ==
  ASSUME FleetInv, NEW t \in Thread, step[t] = "complete",
         Complete(att_asg[Item(t)], Agent(t), Item(t), verdict[Item(t)])
  PROVE  Next
<1>1. step[t] \in Flushing
  BY DEF Flushing
<1>2. /\ Item(t) \in Attempt
      /\ att_asg[Item(t)] \in Assignment
      /\ Agent(t) \in Machine
      /\ verdict[Item(t)] \in Outcome
  BY <1>1, FlushedRow
<1>3. QED
  BY <1>2, CompleteCall

\* Every step of the fleet is one the store allows, or leaves it alone.
LEMMA HubMoves ==
  ASSUME FleetInv, [FleetNext]_fleetVars
  PROVE  [Next]_hubVars
<1>1. CASE \E a \in Assignment : FleetEnqueue(a)
  BY <1>1 DEF FleetEnqueue, Next
<1>2. ASSUME NEW m \in Machine, Beat(m)
      PROVE  [Next]_hubVars
  <2>1. AgentTags[m] \in SUBSET Tag
    BY FleetAssumption DEF FleetAssumption
  <2>2. PICK r \in (IF active[m] = {} THEN {None} ELSE active[m]) :
               Heartbeat(m, AgentTags[m], r)
    BY <1>2 DEF Beat
  <2>3. r \in Reportable(m)
    BY <2>2 DEF FleetInv, AgentInv, MachineKnows, Reportable, Owned
  <2>4. QED
    BY <2>1, <2>2, <2>3 DEF Next
<1>3. ASSUME NEW m \in Machine, FleetDrain(m)
      PROVE  [Next]_hubVars
  BY <1>3 DEF FleetDrain, Next
<1>4. ASSUME NEW m \in Machine, MainStep(m)
      PROVE  [Next]_hubVars
  BY <1>4 DEF MainStep, Poll, StartItem, FlushEnds, StartClaim, NoClaim, Drain, Exit, Next
<1>5. ASSUME NEW m \in Machine, HubClaimStep(m)
      PROVE  [Next]_hubVars
  BY <1>5 DEF HubClaimStep, HubPick, ClaimEmpty, Dispatch, ClaimUnheard, Next
<1>6. ASSUME NEW m \in Machine, HubPutStep(m)
      PROVE  [Next]_hubVars
  BY <1>6 DEF HubPutStep, HubWrites, PutAccepted, Next
<1>7. ASSUME NEW m \in Machine,
             ClaimLost(m) \/ ClaimFails(m) \/ Crash(m) \/ Stop(m) \/ Restart(m)
      PROVE  [Next]_hubVars
  BY <1>7 DEF ClaimLost, ClaimFails, Crash, Stop, Restart, Next
<1>8. ASSUME NEW id \in Attempt, WorkerStep(id) \/ PullBreaks(id) \/ LeftEnds(id)
      PROVE  [Next]_hubVars
  BY <1>8 DEF WorkerStep, Finish, WriteOutbox, PullBreaks, LeftEnds
<1>9. ASSUME NEW id \in Attempt, RenewStep(id)
      PROVE  [Next]_hubVars
  <2>1. renewer[id]
    BY <1>9 DEF RenewStep, RenewOK, RenewEnds, RenewDue
  <2>2. Renew(att_asg[id], att_machine[id], id) \/ UNCHANGED hubVars
    BY <1>9 DEF RenewStep, RenewOK, RenewEnds
  <2>3. QED
    BY <2>1, <2>2, RenewedRow, RenewCall
<1>10. ASSUME NEW t \in Thread, FlushStep(t)
       PROVE  [Next]_hubVars
  <2>1. CASE CompleteAccepted(t)
    BY <2>1, CompleteOfItem DEF CompleteAccepted
  <2>2. CASE PutEvidence(t)
    <3>1. step[t] \in Flushing /\ UploadCheck(att_asg[Item(t)], Agent(t), Item(t))
      BY <2>2 DEF PutEvidence, Flushing
    <3>2. QED
      BY <3>1, FlushedRow, UploadCall
  <2>3. CASE CompleteRefused(t) \/ MarkSent(t) \/ PutRefused(t) \/ DeleteSent(t)
             \/ CompleteUnknown(t) \/ PutUnable(t)
    BY <2>3 DEF CompleteRefused, MarkSent, PutRefused, DeleteSent, CompleteUnknown, PutUnable
  <2>4. QED
    BY <1>10, <2>1, <2>2, <2>3 DEF FlushStep
<1>11. ASSUME NEW t \in Thread, CompleteBreaks(t) \/ PutLost(t)
       PROVE  [Next]_hubVars
  BY <1>11, CompleteOfItem DEF CompleteBreaks, PutLost
<1>12. CASE FleetPrune \/ FleetTick
  BY <1>12 DEF FleetPrune, FleetTick, Next
<1>13. CASE UNCHANGED fleetVars
  BY <1>13 DEF fleetVars
<1>14. QED
  BY <1>1, <1>2, <1>3, <1>4, <1>5, <1>6, <1>7, <1>8, <1>9, <1>10, <1>11, <1>12, <1>13
     DEF FleetNext

-----------------------------------------------------------------------------
(* What the agents may rely on: the hub forgets no attempt it has made and *)
(* takes back no result.                                                   *)

Grows ==
  \A id \in Attempt :
    /\ Used(id) => Used(id)' /\ att_asg'[id] = att_asg[id] /\ att_machine'[id] = att_machine[id]
    /\ ~Used(id)' => att_machine'[id] = att_machine[id]
    /\ Accepted(id) => Accepted(id)'

\* Only a claim writes the machine of an attempt.
LEMMA OnlyClaimsAssign ==
  ASSUME [Next]_hubVars
  PROVE  \/ att_machine' = att_machine
         \/ \E m \in Machine, a \in Assignment, id \in Attempt : ClaimCommit(m, a, id)
<1>1. CASE UNCHANGED hubVars
  BY <1>1 DEF hubVars
<1>2. CASE \E m \in Machine, a \in Assignment, id \in Attempt : ClientCall(m, a, id)
  BY <1>2, ClientCalls DEF Renew, Complete, UploadCheck, attVars
<1>3. CASE \/ \E m \in Machine, ts \in SUBSET Tag : \E r \in Reportable(m) : Heartbeat(m, ts, r)
           \/ \E m \in Machine, b \in BOOLEAN : SetDrained(m, b)
           \/ \E a \in Assignment : Enqueue(a)
  BY <1>3 DEF Heartbeat, SetDrained, Enqueue, attVars
<1>4. CASE \E m \in Machine : ClaimRead(m) \/ ClaimNone(m) \/ ClaimAbort(m)
  BY <1>4 DEF ClaimRead, ClaimNone, ClaimAbort, attVars
<1>5. CASE \E m \in Machine, a \in Assignment : ClaimPick(m, a)
  BY <1>5 DEF ClaimPick, attVars
<1>6. CASE \E m \in Machine : UploadWrite(m) \/ UploadCommit(m) \/ UploadAbort(m)
  BY <1>6 DEF UploadWrite, UploadCommit, UploadAbort, attVars
<1>7. CASE Prune \/ PruneAbort \/ Tick
  BY <1>7 DEF Prune, PruneAbort, Tick, attVars
<1>8. QED
  BY <1>1, <1>2, <1>3, <1>4, <1>5, <1>6, <1>7 DEF Next

LEMMA HubGrows ==
  ASSUME HubInv, [Next]_hubVars
  PROVE  Grows
<1> USE OutcomeStatuses DEF Used, Accepted
<1>1. ASSUME NEW m \in Machine, NEW a \in Assignment, NEW id \in Attempt,
             ClaimCommit(m, a, id)
      PROVE  Grows
  BY <1>1 DEF Grows, ClaimCommit, Superseded, HubInv, TypeOK
<1>2. CASE att_machine' = att_machine /\ UNCHANGED <<status, attempt_id, att_status, att_asg>>
  BY <1>2 DEF Grows
<1>3. ASSUME NEW a \in Assignment, Enqueue(a)
      PROVE  Grows
  BY <1>3 DEF Grows, Enqueue, attVars
<1>4. ASSUME NEW m \in Machine, NEW a \in Assignment, NEW id \in Attempt, NEW st \in Outcome,
             Complete(a, m, id, st)
      PROVE  Grows
  BY <1>4 DEF Grows, Complete, WithResult, HubInv, TypeOK
<1>5. CASE Prune
  BY <1>5 DEF Grows, Prune, HubInv, TypeOK, TableInv, AttemptRows, HubAssumption, Prunable
<1>6. QED
  BY <1>1, <1>2, <1>3, <1>4, <1>5, OnlyClaimsAssign, WritersOfTheTables

-----------------------------------------------------------------------------
(* How a step of the agents keeps what they know. *)

\* An item stays, is deleted, or is written for a verdict: as sent only once
\* the hub has the result.
BoxKept(id) ==
  \/ box'[id] \in {box[id], "none"}
  \/ verdict[id] # None /\ (box'[id] = "sent" => Accepted(id)')

\* What is loaded is an item on the machine's own disk.
TodoKept(m) ==
  \A p \in todo'[m] :
    \/ p \in todo[m]
    \/ /\ p[1] \in Attempt
       /\ att_machine[p[1]] = m
       /\ verdict[p[1]] # None
       /\ p[2] => Accepted(p[1])

\* A verdict is given once, when the Job has ended.
VerdictKept(id) ==
  \/ verdict'[id] = verdict[id]
  \/ Used(id) /\ step'[id] = "writing" /\ verdict'[id] # None

\* A thread stays where it is, begins, ends, or goes on flushing an item of
\* its own.
StepKept(t) ==
  \/ step'[t] = step[t] /\ (t \in Machine => item'[t] = item[t])
  \/ t \in Machine /\ step'[t] = "none"
  \/ t \in Attempt /\ Used(t) /\ step'[t] \in {"done", "left"}
  \/ t \in Attempt /\ Used(t)' /\ verdict'[t] = None /\ step'[t] = "running"
  \/ t \in Attempt /\ Used(t) /\ verdict'[t] # None /\ step'[t] = "writing"
  \/ /\ step'[t] \in Flushing
     /\ Item(t)' \in Attempt
     /\ att_machine[Item(t)'] = Agent(t)
     /\ verdict[Item(t)'] # None
     /\ step'[t] # "complete" => Accepted(Item(t))'

ActiveKept(m) == active'[m] \subseteq active[m] \cup {att_asg'[id] : id \in Owned(m)'}

AgentsKeep ==
  /\ \A id \in Attempt : /\ VerdictKept(id)
                         /\ BoxKept(id)
                         /\ renewer'[id] => renewer[id] \/ Used(id)'
  /\ \A m \in Machine : ActiveKept(m) /\ TodoKept(m)
  /\ \A t \in Thread : StepKept(t)

LEMMA KnowsStays ==
  ASSUME FleetInv, Grows, AgentsKeep
  PROVE  AgentInv'
<1>1. ASSUME NEW id \in Attempt
      PROVE  AttemptKnows(id)'
  <2>1. AttemptKnows(id) /\ VerdictKept(id) /\ BoxKept(id) /\ StepKept(id)
    BY DEF FleetInv, AgentInv, AgentsKeep, Thread
  <2>2. id \notin Machine /\ Item(id)' = id
    BY FleetAssumption DEF FleetAssumption, Item
  <2>3. QED
    BY <2>1, <2>2 DEF AgentsKeep, AttemptKnows, VerdictKept, BoxKept, StepKept, Grows, Flushing
<1>2. ASSUME NEW t \in Thread
      PROVE  ThreadKnows(t)'
  <2>1. ThreadKnows(t) /\ StepKept(t)
    BY DEF FleetInv, AgentInv, AgentsKeep
  <2>2. \A id \in Attempt : verdict[id] # None =>
          /\ Used(id) /\ att_machine'[id] = att_machine[id]
          /\ verdict'[id] # None
          /\ Accepted(id) => Accepted(id)'
    BY DEF FleetInv, AgentInv, AttemptKnows, Grows, AgentsKeep, VerdictKept
  <2>3. t \in Attempt /\ Used(t) => Agent(t)' = Agent(t)
    BY DEF Grows, Agent
  <2>4. t \in Machine => Agent(t)' = Agent(t)
    BY DEF Agent
  <2>5. t \notin Machine => t \in Attempt /\ Item(t) = t /\ Item(t)' = t
    BY DEF Thread, Item
  <2>6. t \in Machine => t \notin Attempt
    BY FleetAssumption DEF FleetAssumption
  <2>7. CASE step'[t] = step[t] /\ (t \in Machine => item'[t] = item[t])
    <3>1. Item(t)' = Item(t)
      BY <2>5, <2>7 DEF Item
    <3>2. QED
      BY <2>1, <2>2, <2>3, <2>4, <2>5, <2>7, <3>1 DEF ThreadKnows, AgentsKeep
  <2>8. CASE /\ step'[t] \in Flushing
             /\ Item(t)' \in Attempt
             /\ att_machine[Item(t)'] = Agent(t)
             /\ verdict[Item(t)'] # None
             /\ step'[t] # "complete" => Accepted(Item(t))'
    BY <2>2, <2>3, <2>4, <2>5, <2>8 DEF ThreadKnows, AgentsKeep
  <2>9. QED
    BY <2>1, <2>6, <2>7, <2>8 DEF StepKept, ThreadKnows, Flushing
<1>3. ASSUME NEW m \in Machine
      PROVE  MachineKnows(m)'
  <2>1. MachineKnows(m) /\ ActiveKept(m) /\ TodoKept(m)
    BY DEF FleetInv, AgentInv, AgentsKeep
  <2>2. \A id \in Owned(m) : Used(id)
    BY HubAssumption DEF HubAssumption, Owned, FleetInv, AgentInv, AttemptKnows
  <2>3. active'[m] \subseteq {att_asg'[id] : id \in Owned(m)'}
    BY <2>1, <2>2 DEF MachineKnows, ActiveKept, Owned, Grows
  <2>4. ASSUME NEW p \in todo'[m]
        PROVE  /\ att_machine'[p[1]] = m
               /\ verdict'[p[1]] # None
               /\ p[2] => Accepted(p[1])'
    <3>1. /\ p[1] \in Attempt
          /\ att_machine[p[1]] = m
          /\ verdict[p[1]] # None
          /\ p[2] => Accepted(p[1])
      BY <2>1, <2>4 DEF TodoKept, MachineKnows, FleetInv, FleetTypeOK
    <3>2. Used(p[1])
      BY <3>1 DEF FleetInv, AgentInv, AttemptKnows
    <3>3. QED
      BY <3>1, <3>2 DEF Grows, AgentsKeep, VerdictKept
  <2>5. QED
    BY <2>3, <2>4 DEF MachineKnows
<1>4. QED
  BY <1>1, <1>2, <1>3 DEF AgentInv

-----------------------------------------------------------------------------
(* The steps of main threads and renewers. *)

\* Steps that touch neither threads nor items, at most the loop, the
\* renewers and the counters.
LEMMA QuietStep ==
  ASSUME FleetInv, Grows,
         UNCHANGED <<active, todo, item, step, box, verdict>>,
         \A id \in Attempt : renewer'[id] => renewer[id]
  PROVE  AgentInv'
<1>1. AgentsKeep
  BY DEF AgentsKeep, VerdictKept, BoxKept, ActiveKept, TodoKept, StepKept
<1>2. QED
  BY <1>1, KnowsStays

LEMMA Idle ==
  ASSUME FleetInv, Grows, TypeOK', UNCHANGED agentVars
  PROVE  FleetTypeOK' /\ AgentInv'
<1>1. AgentInv'
  BY QuietStep DEF agentVars
<1>2. FleetTypeOK'
  BY DEF FleetInv, FleetTypeOK, agentVars, Thread
<1>3. QED
  BY <1>1, <1>2

LEMMA LoopSteps ==
  ASSUME FleetInv, Grows, TypeOK', NEW m \in Machine,
         \/ FlushEnds(m) \/ StartClaim(m) \/ NoClaim(m) \/ ClaimEmpty(m)
         \/ ClaimLost(m) \/ ClaimFails(m) \/ Stop(m) \/ Restart(m)
  PROVE  FleetTypeOK' /\ AgentInv'
<1> USE DEF FlushEnds, StartClaim, NoClaim, ClaimEmpty, ClaimLost, ClaimFails, Stop, Restart
<1>1. UNCHANGED <<active, todo, item, step, renewer, box, zip, verdict>>
  OBVIOUS
<1>2. AgentInv'
  BY <1>1, QuietStep
<1>3. alive' \in [Machine -> BOOLEAN]
  BY DEF FleetInv, FleetTypeOK
<1>4. main' \in [Machine -> {"poll", "flush", "ready", "claim", "drain", "last"}]
  BY DEF FleetInv, FleetTypeOK
<1>5. faults' \in 0..MaxFaults /\ exits' \in 0..MaxExits
  BY FleetAssumption DEF FleetAssumption, FleetInv, FleetTypeOK, Fault
<1>6. FleetTypeOK'
  BY <1>1, <1>3, <1>4, <1>5 DEF FleetInv, FleetTypeOK, Thread
<1>7. QED
  BY <1>2, <1>6

LEMMA RenewEndsStep ==
  ASSUME FleetInv, Grows, TypeOK', NEW id \in Attempt, RenewEnds(id)
  PROVE  FleetTypeOK' /\ AgentInv'
<1> USE DEF RenewEnds
<1>1. renewer' \in [Attempt -> BOOLEAN] /\ \A i \in Attempt : renewer'[i] => renewer[i]
  BY DEF FleetInv, FleetTypeOK
<1>2. AgentInv'
  BY <1>1, QuietStep
<1>3. faults' \in 0..MaxFaults
  BY FleetAssumption DEF FleetAssumption, FleetInv, FleetTypeOK, Fault, NoFault
<1>4. FleetTypeOK'
  BY <1>1, <1>3 DEF FleetInv, FleetTypeOK, Thread
<1>5. QED
  BY <1>2, <1>4

\* What load_pending reads is on the machine's own disk.
LEMMA LoadedItems ==
  ASSUME FleetInv, NEW m \in Machine
  PROVE  /\ Loaded(m) \in SUBSET (Attempt \X BOOLEAN \X BOOLEAN)
         /\ \A p \in Loaded(m) : /\ p[1] \in Attempt
                                 /\ att_machine[p[1]] = m
                                 /\ verdict[p[1]] # None
                                 /\ p[2] => Accepted(p[1])
<1>1. ASSUME NEW p \in Loaded(m)
      PROVE  \E id \in Owned(m) :
               /\ box[id] # "none"
               /\ p = <<id, box[id] = "sent", zip[id] # "none">>
  <2>1. CASE \E id \in {i \in Owned(m) : box[i] # "none"} : box[id] = "corrupt"
    BY <1>1, <2>1 DEF Loaded
  <2>2. CASE ~\E id \in {i \in Owned(m) : box[i] # "none"} : box[id] = "corrupt"
    BY <1>1, <2>2 DEF Loaded
  <2>3. QED
    BY <2>1, <2>2
<1>2. ASSUME NEW p \in Loaded(m)
      PROVE  /\ p \in Attempt \X BOOLEAN \X BOOLEAN
             /\ p[1] \in Attempt
             /\ att_machine[p[1]] = m
             /\ verdict[p[1]] # None
             /\ p[2] => Accepted(p[1])
  <2>1. PICK id \in Owned(m) :
               /\ box[id] # "none"
               /\ p = <<id, box[id] = "sent", zip[id] # "none">>
    BY <1>1, <1>2
  <2>2. id \in Attempt /\ att_machine[id] = m
    BY DEF Owned
  <2>3. p[1] = id /\ (p[2] <=> box[id] = "sent")
    BY <2>1
  <2>4. p \in Attempt \X BOOLEAN \X BOOLEAN
    BY <2>1, <2>2
  <2>5. verdict[id] # None /\ (box[id] = "sent" => Accepted(id))
    BY <2>1, <2>2 DEF FleetInv, AgentInv, AttemptKnows
  <2>6. QED
    BY <2>2, <2>3, <2>4, <2>5
<1>3. QED
  BY <1>2

LEMMA LoadSteps ==
  ASSUME FleetInv, Grows, TypeOK', NEW m \in Machine, Poll(m) \/ Drain(m)
  PROVE  FleetTypeOK' /\ AgentInv'
<1> USE DEF Poll, Drain
<1>1. todo' = todo \/ todo' = [todo EXCEPT ![m] = Loaded(m)]
  OBVIOUS
<1>2. todo' \in [Machine -> SUBSET (Attempt \X BOOLEAN \X BOOLEAN)]
  BY <1>1, LoadedItems DEF FleetInv, FleetTypeOK
<1>3. \A n \in Machine : TodoKept(n)
  BY <1>1, LoadedItems DEF TodoKept, FleetInv, FleetTypeOK
<1>4. AgentsKeep
  BY <1>3 DEF AgentsKeep, VerdictKept, BoxKept, ActiveKept, StepKept
<1>5. main' \in [Machine -> {"poll", "flush", "ready", "claim", "drain", "last"}]
  BY DEF FleetInv, FleetTypeOK
<1>6. FleetTypeOK'
  BY <1>2, <1>5 DEF FleetInv, FleetTypeOK, Thread
<1>7. QED
  BY <1>4, <1>6, KnowsStays

\* An item read as sent starts past the complete call: its result is there.
LEMMA StartItemStep ==
  ASSUME FleetInv, Grows, TypeOK', NEW m \in Machine, StartItem(m)
  PROVE  FleetTypeOK' /\ AgentInv'
<1>1. PICK p \in todo[m] :
        /\ item' = [item EXCEPT ![m] = p[1]]
        /\ step' = [step EXCEPT ![m] =
                      CASE ~p[2] -> "complete"
                        [] p[2] /\ p[3] -> "evidence"
                        [] OTHER -> "delete"]
  BY DEF StartItem
<1>2. /\ p \in Attempt \X BOOLEAN \X BOOLEAN
      /\ att_machine[p[1]] = m
      /\ verdict[p[1]] # None
      /\ p[2] => Accepted(p[1])
  BY DEF FleetInv, FleetTypeOK, AgentInv, MachineKnows
<1>3. Used(p[1])
  BY <1>2 DEF FleetInv, AgentInv, AttemptKnows
<1>4. m \in Thread /\ m \notin Attempt
  BY FleetAssumption DEF FleetAssumption, Thread
<1>5. item' \in [Machine -> Attempt \cup {None}]
  BY <1>1, <1>2 DEF FleetInv, FleetTypeOK
<1>6. step'[m] \in {"complete", "evidence", "delete"} /\ (step'[m] # "complete" => p[2])
  BY <1>1, <1>2, <1>4 DEF FleetInv, FleetTypeOK
<1>7. \A t \in Thread : t # m => step'[t] = step[t] /\ (t \in Machine => item'[t] = item[t])
  BY <1>1 DEF FleetInv, FleetTypeOK
<1>8. step' \in [Thread -> {"none", "running", "left", "writing", "complete", "mark",
                            "evidence", "putting", "delete", "done"}]
  BY <1>1, <1>2 DEF FleetInv, FleetTypeOK
<1>9. StepKept(m)
  <2>1. Item(m)' = p[1]
    BY <1>1, <1>4 DEF Item, FleetInv, FleetTypeOK
  <2>2. Accepted(p[1]) => Accepted(p[1])'
    BY <1>2 DEF Grows
  <2>3. QED
    BY <1>2, <1>6, <2>1, <2>2 DEF StepKept, Flushing, Agent, Accepted
<1>10. AgentsKeep
  BY <1>7, <1>9 DEF StartItem, AgentsKeep, VerdictKept, BoxKept, ActiveKept, TodoKept, StepKept
<1>11. FleetTypeOK'
  BY <1>5, <1>8 DEF StartItem, FleetInv, FleetTypeOK
<1>12. QED
  BY <1>10, <1>11, KnowsStays

-----------------------------------------------------------------------------
(* The steps of workers. *)

\* The attempt a claim makes is new to the agents, and theirs from then on.
LEMMA DispatchStep ==
  ASSUME FleetInv, Grows, TypeOK', NEW m \in Machine, Dispatch(m)
  PROVE  FleetTypeOK' /\ AgentInv'
<1>1. PICK a \in Assignment, id \in Attempt :
        /\ ClaimCommit(m, a, id)
        /\ active' = [active EXCEPT ![m] = @ \cup {a}]
        /\ step' = [step EXCEPT ![id] = "running"]
        /\ renewer' = [renewer EXCEPT ![id] = TRUE]
  BY DEF Dispatch
<1>2. ~Used(id) /\ Used(id)' /\ att_asg'[id] = a /\ att_machine'[id] = m
  BY <1>1 DEF ClaimCommit, Used, FleetInv, HubInv, TypeOK
<1>3. id \notin Machine /\ id \in Thread /\ verdict[id] = None
  BY <1>2, FleetAssumption DEF FleetAssumption, Thread, FleetInv, AgentInv, AttemptKnows
<1>4. \A t \in Thread : StepKept(t)
  BY <1>1, <1>2, <1>3 DEF Dispatch, StepKept, FleetInv, FleetTypeOK
<1>5. \A n \in Machine : ActiveKept(n)
  BY <1>1, <1>2 DEF ActiveKept, Owned, FleetInv, FleetTypeOK
<1>6. \A i \in Attempt : renewer'[i] => renewer[i] \/ Used(i)'
  BY <1>1, <1>2 DEF FleetInv, FleetTypeOK
<1>7. AgentsKeep
  BY <1>4, <1>5, <1>6 DEF Dispatch, AgentsKeep, VerdictKept, BoxKept, TodoKept
<1>8. /\ active' \in [Machine -> SUBSET Assignment]
      /\ renewer' \in [Attempt -> BOOLEAN]
      /\ main' \in [Machine -> {"poll", "flush", "ready", "claim", "drain", "last"}]
  BY <1>1 DEF Dispatch, FleetInv, FleetTypeOK
<1>9. step' \in [Thread -> {"none", "running", "left", "writing", "complete", "mark",
                            "evidence", "putting", "delete", "done"}]
  BY <1>1 DEF FleetInv, FleetTypeOK
<1>10. FleetTypeOK'
  BY <1>8, <1>9 DEF Dispatch, FleetInv, FleetTypeOK
<1>11. QED
  BY <1>7, <1>10, KnowsStays

LEMMA FinishStep ==
  ASSUME FleetInv, Grows, TypeOK', NEW id \in Attempt, Finish(id)
  PROVE  FleetTypeOK' /\ AgentInv'
<1>1. PICK v \in Outcome, z \in {"none", "fits", "large"} :
        verdict' = [verdict EXCEPT ![id] = v] /\ zip' = [zip EXCEPT ![id] = z]
  BY DEF Finish, Ends
<1>2. v # None
  BY FleetAssumption DEF FleetAssumption
<1>3. Used(id) /\ id \notin Machine /\ id \in Thread
  BY FleetAssumption
     DEF Finish, FleetAssumption, Thread, FleetInv, AgentInv, AttemptKnows
<1>4. \A t \in Thread : StepKept(t)
  BY <1>1, <1>2, <1>3 DEF Finish, StepKept, FleetInv, FleetTypeOK
<1>5. \A i \in Attempt : VerdictKept(i)
  BY <1>1, <1>2, <1>3 DEF Finish, VerdictKept, FleetInv, FleetTypeOK
<1>6. AgentsKeep
  BY <1>4, <1>5 DEF Finish, AgentsKeep, BoxKept, ActiveKept, TodoKept
<1>7. step' \in [Thread -> {"none", "running", "left", "writing", "complete", "mark",
                            "evidence", "putting", "delete", "done"}]
  BY DEF Finish, FleetInv, FleetTypeOK
<1>8. /\ verdict' \in [Attempt -> Outcome \cup {None}]
      /\ zip' \in [Attempt -> {"none", "fits", "large"}]
  BY <1>1 DEF FleetInv, FleetTypeOK
<1>9. FleetTypeOK'
  BY <1>7, <1>8 DEF Finish, FleetInv, FleetTypeOK
<1>10. QED
  BY <1>6, <1>9, KnowsStays

LEMMA WriteOutboxStep ==
  ASSUME FleetInv, Grows, TypeOK', NEW id \in Attempt, WriteOutbox(id)
  PROVE  FleetTypeOK' /\ AgentInv'
<1>1. verdict[id] # None
  BY DEF WriteOutbox, FleetInv, AgentInv, AttemptKnows
<1>2. id \notin Machine /\ id \in Thread
  BY FleetAssumption DEF FleetAssumption, Thread
<1>3. \A t \in Thread : StepKept(t)
  BY <1>1, <1>2 DEF WriteOutbox, StepKept, Item, Agent, Flushing, FleetInv, FleetTypeOK
<1>4. \A i \in Attempt : BoxKept(i)
  BY <1>1 DEF WriteOutbox, BoxKept, FleetInv, FleetTypeOK
<1>5. AgentsKeep
  BY <1>3, <1>4 DEF WriteOutbox, AgentsKeep, VerdictKept, ActiveKept, TodoKept
<1>6. step' \in [Thread -> {"none", "running", "left", "writing", "complete", "mark",
                            "evidence", "putting", "delete", "done"}]
  BY DEF WriteOutbox, FleetInv, FleetTypeOK
<1>7. box' \in [Attempt -> {"none", "unsent", "sent", "corrupt"}]
  BY DEF WriteOutbox, FleetInv, FleetTypeOK
<1>8. FleetTypeOK'
  BY <1>6, <1>7 DEF WriteOutbox, FleetInv, FleetTypeOK
<1>9. QED
  BY <1>5, <1>8, KnowsStays

-----------------------------------------------------------------------------
(* The steps of flush_item. *)

ThreadTypes ==
  /\ active \in [Machine -> SUBSET Assignment]
  /\ todo \in [Machine -> SUBSET (Attempt \X BOOLEAN \X BOOLEAN)]
  /\ step \in [Thread -> {"none", "running", "left", "writing", "complete", "mark",
                          "evidence", "putting", "delete", "done"}]
  /\ renewer \in [Attempt -> BOOLEAN]

\* A thread that ends its flush, one way or the other, forgets: it adds
\* nothing to what anybody holds.
LEMMA ThreadEnds ==
  ASSUME FleetInv, NEW t \in Thread, t \in Attempt => Used(t),
         Returns(t) \/ Raises(t),
         UNCHANGED <<item, verdict>>, \A id \in Attempt : BoxKept(id)
  PROVE  ThreadTypes' /\ AgentsKeep
<1> USE DEF FleetInv, FleetTypeOK
<1>1. t \in Machine \/ t \in Attempt
  BY DEF Thread
<1>2. step' = [step EXCEPT ![t] = IF t \in Attempt THEN "done" ELSE "none"]
  BY DEF Returns, Raises, Leave
<1>3. step' \in [Thread -> {"none", "running", "left", "writing", "complete", "mark",
                            "evidence", "putting", "delete", "done"}]
  BY <1>2
<1>4. \A u \in Thread : StepKept(u)
  BY <1>1, <1>2 DEF StepKept
<1>5. CASE t \in Attempt
  <2>1. Leave(t)
    BY <1>5 DEF Returns, Raises
  <2>2. /\ active' \in [Machine -> SUBSET Assignment]
        /\ \A m \in Machine : active'[m] \subseteq active[m]
        /\ renewer' \in [Attempt -> BOOLEAN]
        /\ \A id \in Attempt : renewer'[id] => renewer[id]
        /\ todo' = todo
    BY <2>1 DEF Leave
  <2>3. QED
    BY <1>3, <1>4, <2>2 DEF ThreadTypes, AgentsKeep, VerdictKept, ActiveKept, TodoKept
<1>6. CASE t \notin Attempt
  <2>1. /\ todo' \in [Machine -> SUBSET (Attempt \X BOOLEAN \X BOOLEAN)]
        /\ \A m \in Machine : todo'[m] \subseteq todo[m]
        /\ UNCHANGED <<active, renewer>>
    BY <1>6 DEF Returns, Raises
  <2>2. \A m \in Machine : TodoKept(m)
    BY <2>1 DEF TodoKept
  <2>3. QED
    BY <1>3, <1>4, <2>1, <2>2 DEF ThreadTypes, AgentsKeep, VerdictKept, ActiveKept
<1>7. QED
  BY <1>5, <1>6

\* A thread past the complete call goes on with an item that is accepted.
LEMMA ThreadGoes ==
  ASSUME FleetInv, NEW t \in Thread, step[t] \in Flushing,
         NEW s \in {"mark", "evidence", "putting", "delete"}, Goto(t, s),
         Accepted(Item(t))',
         UNCHANGED <<item, verdict>>, \A id \in Attempt : BoxKept(id)
  PROVE  ThreadTypes' /\ AgentsKeep
<1>1. step' = [step EXCEPT ![t] = s]
  BY DEF Goto
<1>2. Item(t)' = Item(t)
  BY DEF Item
<1>3. StepKept(t)
  BY <1>1, <1>2, FlushedRow DEF StepKept, Flushing, FleetInv, FleetTypeOK, AgentInv, ThreadKnows
<1>4. \A u \in Thread : StepKept(u)
  BY <1>1, <1>3 DEF StepKept, FleetInv, FleetTypeOK
<1>5. AgentsKeep
  BY <1>4 DEF AgentsKeep, VerdictKept, ActiveKept, TodoKept, Goto
<1>6. ThreadTypes'
  BY <1>1 DEF ThreadTypes, Goto, FleetInv, FleetTypeOK
<1>7. QED
  BY <1>5, <1>6

\* Together with the types of what the thread leaves alone, that is all.
LEMMA ThreadStep ==
  ASSUME FleetInv, Grows, TypeOK', ThreadTypes', AgentsKeep,
         UNCHANGED <<alive, main, item, verdict>>,
         box' \in [Attempt -> {"none", "unsent", "sent", "corrupt"}],
         zip' \in [Attempt -> {"none", "fits", "large"}],
         UNCHANGED faults \/ Fault, UNCHANGED exits
  PROVE  FleetTypeOK' /\ AgentInv'
<1>1. faults' \in 0..MaxFaults
  BY FleetAssumption DEF FleetAssumption, FleetInv, FleetTypeOK, Fault
<1>2. FleetTypeOK'
  BY <1>1 DEF ThreadTypes, FleetInv, FleetTypeOK, Thread
<1>3. QED
  BY <1>2, KnowsStays

\* A flushing worker works for an attempt the hub has made.
LEMMA FlusherIsUsed ==
  ASSUME FleetInv, NEW t \in Thread, step[t] \in Flushing, t \in Attempt
  PROVE  Used(t)
BY DEF FleetInv, AgentInv, AttemptKnows, Flushing

\* Steps in which flush_item raises, or returns after deleting the item.
LEMMA EndingSteps ==
  ASSUME FleetInv, Grows, TypeOK', NEW t \in Thread,
         \/ CompleteBreaks(t) \/ CompleteUnknown(t) \/ CompleteRefused(t)
         \/ PutUnable(t) \/ PutLost(t) \/ PutRefused(t) \/ DeleteSent(t)
  PROVE  FleetTypeOK' /\ AgentInv'
<1> USE DEF CompleteBreaks, CompleteUnknown, CompleteRefused, PutUnable, PutLost,
            PutRefused, DeleteSent, DeleteItem
<1>1. step[t] \in Flushing /\ (Returns(t) \/ Raises(t))
  BY DEF Flushing
<1>2. UNCHANGED <<alive, main, item, verdict>>
  OBVIOUS
<1>3. /\ box' \in [Attempt -> {"none", "unsent", "sent", "corrupt"}]
      /\ zip' \in [Attempt -> {"none", "fits", "large"}]
  BY DEF FleetInv, FleetTypeOK
<1>4. \A id \in Attempt : BoxKept(id)
  BY DEF BoxKept, FleetInv, FleetTypeOK
<1>5. ThreadTypes' /\ AgentsKeep
  BY <1>1, <1>2, <1>4, FlusherIsUsed, ThreadEnds
<1>6. QED
  BY <1>2, <1>3, <1>5, ThreadStep

\* The reply to complete says that the hub has the result.
LEMMA CompleteAcceptedStep ==
  ASSUME FleetInv, Grows, TypeOK', NEW t \in Thread, CompleteAccepted(t)
  PROVE  FleetTypeOK' /\ AgentInv'
<1>1. step[t] \in Flushing
  BY DEF CompleteAccepted, Flushing
<1>2. Item(t) \in Attempt /\ verdict[Item(t)] \in Outcome
  BY <1>1, FlushedRow
<1>3. att_status'[Item(t)] = verdict[Item(t)]
  BY <1>2 DEF CompleteAccepted, Complete, WithResult, FleetInv, HubInv, TypeOK
<1>4. Accepted(Item(t))'
  <2>1. Item(t)' = Item(t)
    BY DEF CompleteAccepted, Item
  <2>2. QED
    BY <1>2, <1>3, <2>1 DEF Accepted
<1>5. ThreadTypes' /\ AgentsKeep
  BY <1>1, <1>4, ThreadGoes DEF CompleteAccepted, BoxKept
<1>6. QED
  BY <1>5, ThreadStep DEF CompleteAccepted, FleetInv, FleetTypeOK

\* What was accepted when the thread looked still is.
LEMMA StillAccepted ==
  ASSUME FleetInv, Grows, NEW t \in Thread,
         step[t] \in {"mark", "evidence", "putting", "delete"}, UNCHANGED item
  PROVE  Accepted(Item(t))'
<1>1. Item(t) \in Attempt /\ Accepted(Item(t)) /\ Item(t)' = Item(t)
  BY DEF FleetInv, AgentInv, ThreadKnows, Flushing, Item
<1>2. QED
  BY <1>1 DEF Grows, Accepted

LEMMA MarkSentStep ==
  ASSUME FleetInv, Grows, TypeOK', NEW t \in Thread, MarkSent(t)
  PROVE  FleetTypeOK' /\ AgentInv'
<1>1. step[t] \in Flushing /\ step[t] = "mark"
  BY DEF MarkSent, Flushing
<1>2. Item(t) \in Attempt /\ verdict[Item(t)] # None
  BY <1>1 DEF FleetInv, AgentInv, ThreadKnows
<1>3. Accepted(Item(t))' /\ Item(t)' = Item(t)
  BY <1>1, StillAccepted DEF MarkSent, Item
<1>4. \A id \in Attempt : BoxKept(id)
  BY <1>2, <1>3 DEF MarkSent, BoxKept, Accepted, FleetInv, FleetTypeOK
<1>5. box' \in [Attempt -> {"none", "unsent", "sent", "corrupt"}]
  BY DEF MarkSent, FleetInv, FleetTypeOK
<1>6. ThreadTypes' /\ AgentsKeep
  <2>1. CASE Raises(t)
    BY <1>1, <1>4, <2>1, FlusherIsUsed, ThreadEnds DEF MarkSent
  <2>2. CASE Goto(t, AfterSent(Item(t)))
    <3>1. AfterSent(Item(t)) \in {"mark", "evidence", "putting", "delete"}
      BY DEF AfterSent
    <3>2. QED
      BY <1>1, <1>3, <1>4, <2>2, <3>1, ThreadGoes DEF MarkSent
  <2>3. QED
    BY <2>1, <2>2 DEF MarkSent
<1>7. QED
  BY <1>5, <1>6, ThreadStep DEF MarkSent, FleetInv, FleetTypeOK

LEMMA PutEvidenceStep ==
  ASSUME FleetInv, Grows, TypeOK', NEW t \in Thread, PutEvidence(t)
  PROVE  FleetTypeOK' /\ AgentInv'
<1>1. step[t] \in Flushing /\ step[t] = "evidence"
  BY DEF PutEvidence, Flushing
<1>2. ThreadTypes' /\ AgentsKeep
  BY <1>1, StillAccepted, ThreadGoes DEF PutEvidence, BoxKept
<1>3. QED
  BY <1>2, ThreadStep DEF PutEvidence, FleetInv, FleetTypeOK

LEMMA PutAcceptedStep ==
  ASSUME FleetInv, Grows, TypeOK', NEW m \in Machine, PutAccepted(m)
  PROVE  FleetTypeOK' /\ AgentInv'
<1>1. ThreadTypes' /\ AgentsKeep
  <2>1. CASE UNCHANGED <<step, active, renewer, todo>>
    BY <2>1 DEF PutAccepted, ThreadTypes, AgentsKeep, VerdictKept, BoxKept, ActiveKept,
                TodoKept, StepKept, FleetInv, FleetTypeOK, Thread
  <2>2. ASSUME NEW t \in Putting(m), Goto(t, "delete")
        PROVE  ThreadTypes' /\ AgentsKeep
    <3>1. t \in Thread /\ step[t] \in Flushing /\ step[t] = "putting"
      BY <2>2 DEF Putting, Flushing
    <3>2. QED
      BY <2>2, <3>1, StillAccepted, ThreadGoes DEF PutAccepted, BoxKept
  <2>3. QED
    BY <2>1, <2>2 DEF PutAccepted
<1>2. QED
  BY <1>1, ThreadStep DEF PutAccepted, FleetInv, FleetTypeOK

\* A worker that dies without an item leaves like one that has flushed.
LEMMA PullBreaksStep ==
  ASSUME FleetInv, Grows, TypeOK', NEW id \in Attempt, PullBreaks(id)
  PROVE  FleetTypeOK' /\ AgentInv'
<1>1. Used(id) /\ id \in Thread
  BY DEF PullBreaks, FleetInv, AgentInv, AttemptKnows, Thread
<1>2. Returns(id)
  BY DEF PullBreaks, Returns
<1>3. ThreadTypes' /\ AgentsKeep
  BY <1>1, <1>2, ThreadEnds DEF PullBreaks, BoxKept
<1>4. QED
  BY <1>3, ThreadStep DEF PullBreaks, FleetInv, FleetTypeOK

-----------------------------------------------------------------------------
(* Crash and exit: the disk survives, whatever a write has made of it. *)

LEMMA GoneStep ==
  ASSUME FleetInv, Grows, NEW m \in Machine, Gone(m), UNCHANGED verdict
  PROVE  /\ AgentsKeep
         /\ ThreadTypes'
         /\ alive' \in [Machine -> BOOLEAN]
         /\ main' \in [Machine -> {"poll", "flush", "ready", "claim", "drain", "last"}]
         /\ item' \in [Machine -> Attempt \cup {None}]
         /\ box' \in [Attempt -> {"none", "unsent", "sent", "corrupt"}]
<1>1. \A id \in Owned(m) : Used(id)
  BY HubAssumption DEF HubAssumption, Owned, FleetInv, AgentInv, AttemptKnows
<1>2. ASSUME NEW t \in Thread
      PROVE  StepKept(t) /\ step'[t] \in {step[t], "none", "done", "left"}
  <2>1. CASE t = m
    <3>1. t \notin Owned(m)
      BY <2>1, FleetAssumption DEF FleetAssumption, Owned
    <3>2. QED
      BY <2>1, <3>1 DEF Gone, StepKept
  <2>2. CASE t # m /\ t \in Owned(m) /\ step[t] \in InFlight
    <3>1. t \in Attempt /\ Used(t)
      BY <1>1, <2>2 DEF Owned
    <3>2. step'[t] \in {"done", "left"}
      BY <2>2, <3>1 DEF Gone
    <3>3. QED
      BY <3>1, <3>2 DEF StepKept
  <2>3. CASE t # m /\ ~(t \in Owned(m) /\ step[t] \in InFlight)
    <3>1. step'[t] = step[t]
      BY <2>3 DEF Gone
    <3>2. t \in Machine => item'[t] = item[t]
      BY <2>3 DEF Gone, FleetInv, FleetTypeOK
    <3>3. QED
      BY <3>1, <3>2 DEF StepKept
  <2>4. QED
    BY <2>1, <2>2, <2>3
<1>3. ASSUME NEW id \in Attempt
      PROVE  BoxKept(id)
  <2>1. CASE id \notin Owned(m)
    BY <2>1 DEF Gone, BoxKept
  <2>2. CASE id \in Owned(m)
    <3>1. TornBox(id, box'[id])
      BY <2>2 DEF Gone
    <3>2. CASE box'[id] = box[id]
      BY <3>2 DEF BoxKept
    <3>3. CASE step[id] = "writing" /\ box'[id] \in {"unsent", "corrupt"}
      BY <3>3 DEF BoxKept, FleetInv, AgentInv, AttemptKnows
    <3>4. ASSUME NEW t \in Thread, step[t] = "mark", Item(t) = id
          PROVE  BoxKept(id)
      <4>1. verdict[id] # None /\ Accepted(id)
        BY <3>4 DEF FleetInv, AgentInv, ThreadKnows, Flushing
      <4>2. QED
        BY <4>1 DEF BoxKept, Grows
    <3>5. QED
      BY <3>1, <3>2, <3>3, <3>4 DEF TornBox
  <2>3. QED
    BY <2>1, <2>2
<1>4. /\ \A n \in Machine : active'[n] \subseteq active[n] /\ todo'[n] \subseteq todo[n]
      /\ \A id \in Attempt : renewer'[id] => renewer[id]
  BY DEF Gone, FleetInv, FleetTypeOK
<1>5. AgentsKeep
  BY <1>2, <1>3, <1>4 DEF AgentsKeep, VerdictKept, ActiveKept, TodoKept
<1>6. step' \in [Thread -> {"none", "running", "left", "writing", "complete", "mark",
                            "evidence", "putting", "delete", "done"}]
  <2>1. step' = [t \in Thread |-> step'[t]]
    BY DEF Gone
  <2>2. \A t \in Thread : step'[t] \in {"none", "running", "left", "writing", "complete", "mark",
                                        "evidence", "putting", "delete", "done"}
    BY <1>2 DEF FleetInv, FleetTypeOK
  <2>3. QED
    BY <2>1, <2>2
<1>7. ThreadTypes'
  BY <1>6 DEF ThreadTypes, Gone, FleetInv, FleetTypeOK
<1>8. QED
  BY <1>5, <1>7 DEF Gone, FleetInv, FleetTypeOK

\* A Job that was left behind ends: nobody hears of it.
LEMMA LeftEndsStep ==
  ASSUME FleetInv, Grows, TypeOK', NEW id \in Attempt, LeftEnds(id)
  PROVE  FleetTypeOK' /\ AgentInv'
<1>1. Used(id) /\ id \in Thread
  BY DEF LeftEnds, Thread, FleetInv, AgentInv, AttemptKnows
<1>2. AgentsKeep
  BY <1>1 DEF LeftEnds, AgentsKeep, VerdictKept, BoxKept, ActiveKept, TodoKept, StepKept,
              FleetInv, FleetTypeOK
<1>3. step' \in [Thread -> {"none", "running", "left", "writing", "complete", "mark",
                            "evidence", "putting", "delete", "done"}]
  BY <1>1 DEF LeftEnds, FleetInv, FleetTypeOK
<1>4. FleetTypeOK'
  BY <1>3 DEF LeftEnds, FleetInv, FleetTypeOK, Thread
<1>5. QED
  BY <1>2, <1>4, KnowsStays

LEMMA CrashStep ==
  ASSUME FleetInv, Grows, TypeOK', NEW m \in Machine, Crash(m) \/ Exit(m)
  PROVE  FleetTypeOK' /\ AgentInv'
<1> USE DEF Crash, Exit
<1>1. Gone(m) /\ UNCHANGED <<zip, verdict, faults>>
  OBVIOUS
<1>2. exits' \in 0..MaxExits
  BY FleetAssumption DEF FleetAssumption, FleetInv, FleetTypeOK
<1>3. FleetTypeOK'
  BY <1>1, <1>2, GoneStep DEF ThreadTypes, FleetInv, FleetTypeOK, Thread
<1>4. QED
  BY <1>1, <1>3, GoneStep, KnowsStays

-----------------------------------------------------------------------------
(* The invariant. *)

LEMMA FleetInitInv == FleetInit => FleetInv
<1> SUFFICES ASSUME FleetInit PROVE FleetInv
  OBVIOUS
<1> USE DEF FleetInit
<1>1. HubInv /\ TypeOK
  BY InitInv DEF HubInv
<1>2. FleetTypeOK
  BY <1>1, FleetAssumption DEF FleetAssumption, FleetTypeOK, Thread
<1>3. AgentInv
  BY FleetAssumption
     DEF FleetAssumption, Init, AgentInv, AttemptKnows, ThreadKnows, MachineKnows, Used,
         Flushing, Thread
<1>4. QED
  BY <1>1, <1>2, <1>3 DEF FleetInv

LEMMA FleetNextInv == FleetInv /\ [FleetNext]_fleetVars => FleetInv'
<1> SUFFICES ASSUME FleetInv, [FleetNext]_fleetVars
             PROVE  FleetInv'
  OBVIOUS
<1>1. HubInv /\ [Next]_hubVars
  BY HubMoves DEF FleetInv
<1>2. HubInv' /\ TypeOK' /\ Grows
  BY <1>1, NextInv, HubGrows DEF HubInv
<1>3. CASE \E a \in Assignment : FleetEnqueue(a)
  BY <1>2, <1>3, Idle DEF FleetEnqueue, FleetInv
<1>4. ASSUME NEW m \in Machine,
             Beat(m) \/ FleetDrain(m) \/ HubPick(m) \/ ClaimUnheard(m) \/ HubWrites(m)
      PROVE  FleetInv'
  BY <1>2, <1>4, Idle DEF Beat, FleetDrain, HubPick, ClaimUnheard, HubWrites, FleetInv
<1>5. ASSUME NEW m \in Machine, MainStep(m)
      PROVE  FleetInv'
  BY <1>2, <1>5, LoadSteps, StartItemStep, LoopSteps, CrashStep DEF MainStep, FleetInv
<1>6. ASSUME NEW m \in Machine, HubClaimStep(m)
      PROVE  FleetInv'
  BY <1>2, <1>4, <1>6, LoopSteps, DispatchStep DEF HubClaimStep, FleetInv
<1>7. ASSUME NEW m \in Machine, HubPutStep(m)
      PROVE  FleetInv'
  BY <1>2, <1>4, <1>7, PutAcceptedStep DEF HubPutStep, FleetInv
<1>8. ASSUME NEW m \in Machine,
             ClaimLost(m) \/ ClaimFails(m) \/ Crash(m) \/ Stop(m) \/ Restart(m)
      PROVE  FleetInv'
  BY <1>2, <1>8, LoopSteps, CrashStep DEF FleetInv
<1>9. ASSUME NEW id \in Attempt,
             WorkerStep(id) \/ RenewStep(id) \/ PullBreaks(id) \/ LeftEnds(id)
      PROVE  FleetInv'
  BY <1>2, <1>9, FinishStep, WriteOutboxStep, RenewEndsStep, PullBreaksStep, LeftEndsStep, Idle
     DEF WorkerStep, RenewStep, RenewOK, FleetInv
<1>10. ASSUME NEW t \in Thread, FlushStep(t) \/ CompleteBreaks(t) \/ PutLost(t)
       PROVE  FleetInv'
  BY <1>2, <1>10, EndingSteps, CompleteAcceptedStep, MarkSentStep, PutEvidenceStep
     DEF FlushStep, FleetInv
<1>11. CASE FleetPrune \/ FleetTick
  BY <1>2, <1>11, Idle DEF FleetPrune, FleetTick, FleetInv
<1>12. CASE UNCHANGED fleetVars
  BY <1>2, <1>12, Idle DEF fleetVars, FleetInv
<1>13. QED
  BY <1>3, <1>4, <1>5, <1>6, <1>7, <1>8, <1>9, <1>10, <1>11, <1>12 DEF FleetNext

LEMMA FleetInvariance == FleetSpec => []FleetInv
BY FleetInitInv, FleetNextInv, PTL DEF FleetSpec

-----------------------------------------------------------------------------
(* What follows for every behaviour of the fleet. *)

\* Every variable of the fleet keeps its type, the hub's and the agents'.
THEOREM FleetTypeCorrect == FleetSpec => []FleetTypeOK
<1>1. FleetInv => FleetTypeOK
  BY DEF FleetInv
<1>2. QED
  BY <1>1, FleetInvariance, PTL

\* Daemons, renewers and outboxes are clients of the store: every behaviour
\* of the fleet is one of the store, so that what is proved of the store for
\* any client holds under crashes, retries and replayed outboxes.
THEOREM FleetImplementsStore == FleetSpec => Spec
<1>1. FleetInit => Init
  BY DEF FleetInit
<1>2. FleetInv /\ [FleetNext]_fleetVars => [Next]_hubVars
  BY HubMoves
<1>3. QED
  BY <1>1, <1>2, FleetInvariance, PTL DEF FleetSpec, Spec

\* The fleet keeps the promise of the ledger: an Assignment is granted to one
\* live attempt at a time and settled once.
THEOREM FleetImplementsLedger == FleetSpec => ImplementsLedger
BY FleetImplementsStore, StoreImplementsLedger, PTL

\* A payload on disk that says complete_sent is about a result the hub has,
\* after any crash and with any number of threads on the item: to skip the
\* complete call of such an item loses nothing (flush_item).
THEOREM MarkerIsTrue == FleetSpec => []SentIsAccepted
<1>1. FleetInv => SentIsAccepted
  BY DEF FleetInv, AgentInv, AttemptKnows, SentIsAccepted, Accepted
<1>2. QED
  BY <1>1, FleetInvariance, PTL

-----------------------------------------------------------------------------
(* Deleting an item *)

\* An attempt that has ended at its machine and is not the one its
\* Assignment row names has its result or has lost its lease.
LEMMA NotFencedIsOver ==
  ASSUME FleetInv, NEW t \in Thread, step[t] \in Flushing,
         ~Fenced(att_asg[Item(t)], Agent(t), Item(t))
  PROVE  att_status[Item(t)] \in Outcome \cup {"lease-lost", "deleted"}
<1> DEFINE id == Item(t)
<1>1. /\ id \in Attempt
      /\ Used(id)
      /\ att_machine[id] = Agent(t)
  BY FlushedRow
<1>2. att_status[id] # "running"
  <2>1. SUFFICES ASSUME att_status[id] = "running" PROVE FALSE
    OBVIOUS
  <2>2. att_asg[id] \in Assignment /\ attempt_id[att_asg[id]] = id
    BY <1>1, <2>1 DEF FleetInv, HubInv, TableInv, PointedAt
  <2>3. status[att_asg[id]] \notin {"absent", "pending"}
    BY <1>1, <2>2, HubAssumption DEF HubAssumption, FleetInv, HubInv, TableInv, Unclaimed
  <2>4. /\ att_machine[id] = claimed_by[att_asg[id]]
        /\ att_status[id] = IF status[att_asg[id]] = "claimed" THEN "running"
                            ELSE status[att_asg[id]]
    BY <2>2, <2>3 DEF FleetInv, HubInv, TableInv, PointsAtAttempt
  <2>5. status[att_asg[id]] = "claimed"
    BY <2>1, <2>2, <2>3, <2>4, OutcomeStatuses DEF FleetInv, HubInv, TypeOK
  <2>6. QED
    BY <1>1, <2>2, <2>4, <2>5 DEF Fenced
<1>3. QED
  BY <1>1, <1>2 DEF Used, FleetInv, HubInv, TypeOK

LEMMA DeletesAreJustified ==
  ASSUME FleetInv, [FleetNext]_fleetVars, NEW id \in Attempt,
         box[id] # "none", box'[id] = "none"
  PROVE  att_status[id] \in Outcome \cup {"lease-lost", "deleted"}
<1> USE DEF FleetInv, FleetTypeOK
<1>1. ASSUME NEW t \in Thread, CompleteRefused(t)
      PROVE  att_status[id] \in Outcome \cup {"lease-lost", "deleted"}
  <2>1. id = Item(t)
    BY <1>1 DEF CompleteRefused, DeleteItem
  <2>2. QED
    BY <1>1, <2>1, NotFencedIsOver DEF CompleteRefused, Flushing
<1>2. ASSUME NEW t \in Thread, PutRefused(t) \/ DeleteSent(t)
      PROVE  att_status[id] \in Outcome \cup {"lease-lost", "deleted"}
  <2>1. id = Item(t) /\ step[t] \in Flushing \ {"complete"}
    BY <1>2 DEF PutRefused, DeleteSent, DeleteItem, Flushing
  <2>2. QED
    BY <2>1 DEF AgentInv, ThreadKnows, Accepted
<1>3. ASSUME NEW m \in Machine, Gone(m)
      PROVE  FALSE
  BY <1>3 DEF Gone, TornBox
<1>4. ASSUME NEW i \in Attempt, WriteOutbox(i)
      PROVE  FALSE
  BY <1>4 DEF WriteOutbox
<1>5. ASSUME NEW t \in Thread, MarkSent(t)
      PROVE  FALSE
  BY <1>5 DEF MarkSent
<1>6. CASE box' = box
  BY <1>6
<1>7. CASE \E a \in Assignment : FleetEnqueue(a)
  BY <1>6, <1>7 DEF FleetEnqueue, agentVars
<1>8. ASSUME NEW m \in Machine, Beat(m) \/ FleetDrain(m) \/ MainStep(m)
      PROVE  att_status[id] \in Outcome \cup {"lease-lost", "deleted"}
  BY <1>3, <1>6, <1>8
     DEF Beat, FleetDrain, MainStep, Poll, StartItem, FlushEnds, StartClaim, NoClaim,
         Drain, Exit, agentVars
<1>9. ASSUME NEW m \in Machine, HubClaimStep(m) \/ HubPutStep(m)
      PROVE  att_status[id] \in Outcome \cup {"lease-lost", "deleted"}
  BY <1>6, <1>9
     DEF HubClaimStep, HubPick, ClaimEmpty, Dispatch, ClaimUnheard, HubPutStep, HubWrites,
         PutAccepted, agentVars
<1>10. ASSUME NEW m \in Machine,
              ClaimLost(m) \/ ClaimFails(m) \/ Crash(m) \/ Stop(m) \/ Restart(m)
       PROVE  att_status[id] \in Outcome \cup {"lease-lost", "deleted"}
  BY <1>3, <1>6, <1>10 DEF ClaimLost, ClaimFails, Crash, Stop, Restart
<1>11. ASSUME NEW i \in Attempt, WorkerStep(i) \/ RenewStep(i) \/ PullBreaks(i) \/ LeftEnds(i)
       PROVE  att_status[id] \in Outcome \cup {"lease-lost", "deleted"}
  BY <1>4, <1>6, <1>11
     DEF WorkerStep, Finish, RenewStep, RenewOK, RenewEnds, PullBreaks, LeftEnds, agentVars
<1>12. ASSUME NEW t \in Thread, FlushStep(t) \/ CompleteBreaks(t) \/ PutLost(t)
       PROVE  att_status[id] \in Outcome \cup {"lease-lost", "deleted"}
  BY <1>1, <1>2, <1>5, <1>6, <1>12
     DEF FlushStep, CompleteAccepted, PutEvidence, CompleteUnknown, PutUnable,
         CompleteBreaks, PutLost
<1>13. CASE FleetPrune \/ FleetTick \/ UNCHANGED fleetVars
  BY <1>6, <1>13 DEF FleetPrune, FleetTick, fleetVars, agentVars
<1>14. QED
  BY <1>7, <1>8, <1>9, <1>10, <1>11, <1>12, <1>13 DEF FleetNext

\* "Delete only after the hub accepts" (outbox.py): no step of any thread,
\* and no crash, takes an item off the disk before the hub has its result or
\* has given the Assignment to another attempt.
THEOREM NothingDropped == FleetSpec => DeleteAfterAccept
<1>1. FleetInv /\ [FleetNext]_fleetVars =>
        [\A id \in Attempt : box[id] # "none" /\ box'[id] = "none" =>
           att_status[id] \in Outcome \cup {"lease-lost", "deleted"}]_fleetVars
  BY DeletesAreJustified
<1>2. QED
  BY <1>1, FleetInvariance, PTL DEF FleetSpec, DeleteAfterAccept

-----------------------------------------------------------------------------
(* One worker at a time, as long as no message is lost and renewers are on *)
(* time: the lease of a running worker is never as old as the renewal      *)
(* interval leaves it.                                                     *)

rowVars == <<status, claimed_by, attempt_id, lease, att_asg, att_machine>>

\* A worker that runs a Job still has its renewer and the Assignment row,
\* with a lease that is not yet due for more than one renewal.
RunnerKnows ==
  \A id \in Attempt : Working(id) =>
    /\ renewer[id]
    /\ Fenced(att_asg[id], att_machine[id], id)
    /\ lease[att_asg[id]] >= LeaseSeconds[att_asg[id]] - RenewEvery(att_asg[id])

\* The renewal interval is a number of seconds within the lease.
LEMMA RenewInTime ==
  ASSUME NEW a \in Assignment
  PROVE  /\ LeaseSeconds[a] \in Nat \ {0}
         /\ RenewEvery(a) \in Nat \ {0}
         /\ RenewEvery(a) <= LeaseSeconds[a]
<1>1. LeaseSeconds[a] \in Nat \ {0}
  BY HubAssumption DEF HubAssumption
<1>2. \A n \in Nat : n >= 3 => n \div 3 \in Nat \ {0} /\ n \div 3 <= n
  BY SMT
<1>3. QED
  BY <1>1, <1>2 DEF RenewEvery

\* The rows of a running worker.
LEMMA RunnerRow ==
  ASSUME FleetInv, RunnerKnows, NEW id \in Attempt, Working(id)
  PROVE  /\ att_asg[id] \in Assignment
         /\ Used(id)
         /\ verdict[id] = None
         /\ renewer[id]
         /\ status[att_asg[id]] = "claimed"
         /\ attempt_id[att_asg[id]] = id
         /\ lease[att_asg[id]] \in Int
         /\ lease[att_asg[id]] >= LeaseSeconds[att_asg[id]] - RenewEvery(att_asg[id])
         /\ lease[att_asg[id]] >= 0
<1>1. Used(id) /\ verdict[id] = None
  BY DEF Working, FleetInv, AgentInv, AttemptKnows
<1>2. att_asg[id] \in Assignment
  BY <1>1 DEF Used, FleetInv, HubInv, TableInv, AttemptRows
<1>3. lease[att_asg[id]] \in Int
  BY <1>2 DEF FleetInv, HubInv, TypeOK
<1>4. QED
  BY <1>1, <1>2, <1>3, RenewInTime DEF RunnerKnows, Fenced

\* Workers keep running under steps that touch neither their rows nor their
\* renewers.
LEMMA RunnersUndisturbed ==
  ASSUME RunnerKnows, UNCHANGED rowVars,
         \A id \in Attempt : Working(id)' => Working(id) /\ renewer'[id] = renewer[id]
  PROVE  RunnerKnows'
BY DEF RunnerKnows, rowVars, Fenced, RenewEvery, Working

\* A claim takes no row of a running worker: its lease has not lapsed.
LEMMA ClaimSparesRunners ==
  ASSUME FleetInv, RunnerKnows, NEW m \in Machine, NEW a \in Assignment, NEW id \in Attempt,
         ClaimCommit(m, a, id), NEW i \in Attempt, Working(i)
  PROVE  /\ i # id /\ att_asg[i] # a
         /\ UNCHANGED <<att_asg[i], att_machine[i]>>
         /\ Fenced(att_asg[i], att_machine[i], i)'
         /\ lease'[att_asg[i]] = lease[att_asg[i]]
<1>1. /\ att_asg[i] \in Assignment
      /\ Used(i)
      /\ status[att_asg[i]] = "claimed"
      /\ lease[att_asg[i]] >= 0
      /\ lease[att_asg[i]] \in Int
  BY RunnerRow
<1>2. i # id
  BY <1>1 DEF ClaimCommit, Used
<1>3. att_asg[i] # a
  BY <1>1 DEF ClaimCommit, FleetInv, HubInv, PickedStaysClaimable, Expired
<1>4. UNCHANGED <<att_asg[i], att_machine[i], status[att_asg[i]], claimed_by[att_asg[i]],
                  attempt_id[att_asg[i]], lease[att_asg[i]]>>
  BY <1>1, <1>2, <1>3 DEF ClaimCommit, FleetInv, HubInv, TypeOK
<1>5. QED
  BY <1>2, <1>3, <1>4 DEF RunnerKnows, Fenced

LEMMA DispatchRuns ==
  ASSUME FleetInv, RunnerKnows, NEW m \in Machine, Dispatch(m)
  PROVE  RunnerKnows'
<1>1. PICK a \in Assignment, id \in Attempt :
        /\ ClaimCommit(m, a, id)
        /\ step' = [step EXCEPT ![id] = "running"]
        /\ renewer' = [renewer EXCEPT ![id] = TRUE]
  BY DEF Dispatch
<1>2. /\ att_asg'[id] = a /\ att_machine'[id] = m
      /\ Fenced(a, m, id)'
      /\ lease'[a] = LeaseSeconds[a]
      /\ renewer'[id]
  BY <1>1 DEF ClaimCommit, Fenced, FleetInv, FleetTypeOK, HubInv, TypeOK
<1>3. lease'[a] >= LeaseSeconds[a] - RenewEvery(a)
  BY <1>2, RenewInTime
<1>4. ASSUME NEW i \in Attempt, i # id, Working(i)'
      PROVE  /\ renewer'[i]
             /\ Fenced(att_asg[i], att_machine[i], i)'
             /\ lease'[att_asg'[i]] >= LeaseSeconds[att_asg'[i]] - RenewEvery(att_asg'[i])
  <2>1. Working(i) /\ renewer'[i] = renewer[i]
    BY <1>1, <1>4 DEF Working, FleetInv, FleetTypeOK, Thread
  <2>2. QED
    BY <1>1, <2>1, ClaimSparesRunners DEF RunnerKnows, Fenced
<1>5. QED
  BY <1>2, <1>3, <1>4 DEF RunnerKnows, RenewEvery, Fenced

LEMMA UnheardSpares ==
  ASSUME FleetInv, RunnerKnows, NEW m \in Machine, ClaimUnheard(m)
  PROVE  RunnerKnows'
<1> SUFFICES ASSUME NEW i \in Attempt, Working(i)'
             PROVE  /\ renewer'[i]
                    /\ Fenced(att_asg[i], att_machine[i], i)'
                    /\ lease'[att_asg'[i]] >= LeaseSeconds[att_asg'[i]] - RenewEvery(att_asg'[i])
  BY DEF RunnerKnows, RenewEvery
<1>1. Working(i) /\ renewer'[i] = renewer[i]
  BY DEF Working, ClaimUnheard, agentVars
<1>2. QED
  BY <1>1, ClaimSparesRunners DEF ClaimUnheard, RunnerKnows, Fenced

\* A renewal can only add to a lease.
LEMMA RenewKeepsRunners ==
  ASSUME FleetInv, RunnerKnows, NEW i \in Attempt, RenewOK(i)
  PROVE  RunnerKnows'
<1>1. renewer[i]
  BY DEF RenewOK, RenewDue
<1>2. att_asg[i] \in Assignment
  BY <1>1, RenewedRow
<1>3. lease'[att_asg[i]] = LeaseSeconds[att_asg[i]]
  BY <1>2 DEF RenewOK, Renew, FleetInv, HubInv, TypeOK
<1>4. \A a \in Assignment : a # att_asg[i] => lease'[a] = lease[a]
  BY DEF RenewOK, Renew, FleetInv, HubInv, TypeOK
<1>5. \A id \in Attempt : Working(id) =>
        lease'[att_asg[id]] >= LeaseSeconds[att_asg[id]] - RenewEvery(att_asg[id])
  BY <1>2, <1>3, <1>4, RunnerRow, RenewInTime
<1>6. UNCHANGED <<status, claimed_by, attempt_id, att_asg, att_machine, step, renewer>>
  BY DEF RenewOK, Renew, attVars, agentVars
<1>7. QED
  BY <1>5, <1>6 DEF RunnerKnows, Fenced, RenewEvery, Working

\* Complete is called for attempts whose worker no longer runs.
LEMMA CompleteSparesRunners ==
  ASSUME FleetInv, RunnerKnows, NEW t \in Thread, CompleteAccepted(t)
  PROVE  RunnerKnows'
<1> DEFINE c == Item(t)
<1>1. step[t] \in Flushing
  BY DEF CompleteAccepted, Flushing
<1>2. c \in Attempt /\ att_asg[c] \in Assignment /\ verdict[c] # None
  BY <1>1, FlushedRow, FleetAssumption DEF FleetAssumption
<1>3. Complete(att_asg[c], Agent(t), c, verdict[c])
  BY DEF CompleteAccepted
<1>4. ASSUME NEW i \in Attempt, Working(i)
      PROVE  att_asg[i] # att_asg[c]
  BY <1>2, <1>3, <1>4, RunnerRow DEF Complete, Fenced
<1>5. \A a \in Assignment : a # att_asg[c] => status'[a] = status[a] /\ lease'[a] = lease[a]
  BY <1>3 DEF Complete, FleetInv, HubInv, TypeOK
<1>6. UNCHANGED <<claimed_by, attempt_id, att_asg, att_machine, renewer>>
  BY <1>3 DEF Complete, CompleteAccepted, Goto
<1>7. \A i \in Attempt : Working(i)' => Working(i)
  BY DEF Working, CompleteAccepted, Goto, FleetInv, FleetTypeOK, Thread
<1>8. ASSUME NEW i \in Attempt, Working(i)'
      PROVE  /\ renewer'[i]
             /\ Fenced(att_asg[i], att_machine[i], i)'
             /\ lease'[att_asg'[i]] >= LeaseSeconds[att_asg'[i]] - RenewEvery(att_asg'[i])
  BY <1>4, <1>5, <1>6, <1>7, <1>8, RunnerRow DEF RunnerKnows, Fenced
<1>9. QED
  BY <1>8 DEF RunnerKnows, RenewEvery

LEMMA EnqueueSparesRunners ==
  ASSUME FleetInv, RunnerKnows, NEW a \in Assignment, FleetEnqueue(a)
  PROVE  RunnerKnows'
<1>1. \A i \in Attempt : Working(i) => att_asg[i] # a
  BY RunnerRow DEF FleetEnqueue, Enqueue
<1>2. \A b \in Assignment : b # a => status'[b] = status[b]
  BY DEF FleetEnqueue, Enqueue, FleetInv, HubInv, TypeOK
<1>3. UNCHANGED <<claimed_by, attempt_id, lease, att_asg, att_machine, step, renewer>>
  BY DEF FleetEnqueue, Enqueue, attVars, agentVars
<1>4. QED
  BY <1>1, <1>2, <1>3, RunnerRow DEF RunnerKnows, Fenced, RenewEvery, Working

LEMMA PruneSparesRunners ==
  ASSUME FleetInv, RunnerKnows, FleetPrune
  PROVE  RunnerKnows'
<1>1. \A i \in Attempt : Working(i) => att_asg[i] \in Assignment /\ att_asg[i] \notin Prunable
  BY RunnerRow, OutcomeStatuses DEF Prunable
<1>2. \A a \in Assignment : a \notin Prunable =>
        status'[a] = status[a] /\ claimed_by'[a] = claimed_by[a] /\ attempt_id'[a] = attempt_id[a]
  BY DEF FleetPrune, Prune
<1>3. UNCHANGED <<lease, att_asg, att_machine, step, renewer>>
  BY DEF FleetPrune, Prune, agentVars
<1>4. QED
  BY <1>1, <1>2, <1>3 DEF RunnerKnows, Fenced, RenewEvery, Working

\* Time only passes when no running worker is due for a renewal.
LEMMA TickSparesRunners ==
  ASSUME FleetInv, RunnerKnows, OnTime = TRUE, FleetTick
  PROVE  RunnerKnows'
<1>1. ASSUME NEW i \in Attempt, Working(i)
      PROVE  lease'[att_asg[i]] >= LeaseSeconds[att_asg[i]] - RenewEvery(att_asg[i])
  <2>1. renewer[i] /\ Fenced(att_asg[i], att_machine[i], i) /\ ~RenewDue(i)
    BY <1>1 DEF FleetTick, RunnerKnows
  <2>2. ~(lease[att_asg[i]] <= LeaseSeconds[att_asg[i]] - RenewEvery(att_asg[i]))
    BY <2>1 DEF RenewDue
  <2>3. att_asg[i] \in Assignment /\ lease[att_asg[i]] \in Int
    BY <1>1, RunnerRow
  <2>4. lease'[att_asg[i]] \in {lease[att_asg[i]], lease[att_asg[i]] - 1}
    BY <2>3 DEF FleetTick, Tick
  <2>5. QED
    BY <2>2, <2>3, <2>4, RenewInTime
<1>2. UNCHANGED <<status, claimed_by, attempt_id, att_asg, att_machine, step, renewer>>
  BY DEF FleetTick, Tick, attVars, agentVars
<1>3. QED
  BY <1>1, <1>2 DEF RunnerKnows, Fenced, RenewEvery, Working

\* Threads that flush, end or die run nothing and touch no rows.
LEMMA ThreadsSpareRunners ==
  ASSUME FleetInv, RunnerKnows, UNCHANGED hubVars, NEW t \in Thread, NEW s,
         s # "running", step' = [step EXCEPT ![t] = s],
         renewer' = renewer \/ (t \in Attempt /\ renewer' = [renewer EXCEPT ![t] = FALSE])
  PROVE  RunnerKnows'
<1>1. UNCHANGED rowVars
  BY DEF hubVars, rowVars
<1>2. \A id \in Attempt : Working(id)' => Working(id) /\ renewer'[id] = renewer[id]
  BY DEF Working, FleetInv, FleetTypeOK, Thread
<1>3. QED
  BY <1>1, <1>2, RunnersUndisturbed

LEMMA GoneSparesRunners ==
  ASSUME FleetInv, RunnerKnows, UNCHANGED hubVars, NEW m \in Machine, Gone(m)
  PROVE  RunnerKnows'
<1>1. UNCHANGED rowVars
  BY DEF hubVars, rowVars
<1>2. ASSUME NEW id \in Attempt, Working(id)'
      PROVE  Working(id) /\ renewer'[id] = renewer[id]
  <2>1. id \in Thread /\ id # m
    BY FleetAssumption DEF FleetAssumption, Thread
  <2>2. \/ step'[id] \in {"done", "left"}
        \/ ~(id \in Owned(m) /\ step[id] \in InFlight) /\ step'[id] = step[id]
    BY <2>1 DEF Gone
  <2>3. ~(id \in Owned(m) /\ step[id] \in InFlight) /\ step'[id] = step[id]
    BY <1>2, <2>1, <2>2 DEF Working
  <2>4. id \notin Owned(m)
    BY <1>2, <2>3 DEF Working, InFlight
  <2>5. renewer'[id] = (renewer[id] /\ id \notin Owned(m))
    BY DEF Gone
  <2>6. renewer[id] \in BOOLEAN
    BY DEF FleetInv, FleetTypeOK
  <2>7. QED
    BY <1>2, <2>3, <2>4, <2>5, <2>6 DEF Working
<1>3. QED
  BY <1>1, <1>2, RunnersUndisturbed

\* The loops of the daemons and the calls under way at the hub.
LEMMA LoopsSpareRunners ==
  ASSUME FleetInv, RunnerKnows, NEW m \in Machine,
         \/ Beat(m) \/ FleetDrain(m) \/ Poll(m) \/ FlushEnds(m) \/ StartClaim(m)
         \/ NoClaim(m) \/ Drain(m) \/ HubPick(m) \/ ClaimEmpty(m) \/ ClaimLost(m)
         \/ ClaimFails(m) \/ HubWrites(m) \/ Stop(m) \/ Restart(m)
  PROVE  RunnerKnows'
<1>1. UNCHANGED rowVars
  BY DEF Beat, Heartbeat, FleetDrain, SetDrained, Poll, FlushEnds, StartClaim, ClaimRead,
         NoClaim, Drain, HubPick, ClaimPick, ClaimEmpty, ClaimNone, ClaimLost, ClaimFails,
         ClaimAbort, HubWrites, UploadWrite, Stop, Restart, asgVars, attVars, hubVars, rowVars
<1>2. UNCHANGED <<step, renewer>>
  BY DEF Beat, FleetDrain, Poll, FlushEnds, StartClaim, NoClaim, Drain, HubPick, ClaimEmpty,
         ClaimLost, ClaimFails, HubWrites, Stop, Restart, agentVars
<1>3. QED
  BY <1>1, <1>2, RunnersUndisturbed DEF Working

LEMMA FlushSparesRunners ==
  ASSUME FleetInv, RunnerKnows, MaxFaults = 0, NEW t \in Thread,
         FlushStep(t) \/ CompleteBreaks(t) \/ PutLost(t)
  PROVE  RunnerKnows'
<1>1. ~Fault
  BY DEF Fault, FleetInv, FleetTypeOK
<1>2. \A u \in Thread : Returns(u) \/ Raises(u) =>
        /\ \E s \in {"none", "done"} : step' = [step EXCEPT ![u] = s]
        /\ renewer' = renewer \/ (u \in Attempt /\ renewer' = [renewer EXCEPT ![u] = FALSE])
  BY DEF Returns, Raises, Leave
<1>3. CASE CompleteAccepted(t)
  BY <1>3, CompleteSparesRunners
<1>4. CASE PutEvidence(t)
  <2>1. UNCHANGED rowVars
    BY <1>4 DEF PutEvidence, UploadCheck, asgVars, attVars, rowVars
  <2>2. \A id \in Attempt : Working(id)' => Working(id) /\ renewer'[id] = renewer[id]
    BY <1>4 DEF PutEvidence, Goto, Working, FleetInv, FleetTypeOK, Thread
  <2>3. QED
    BY <2>1, <2>2, RunnersUndisturbed
<1>5. CASE MarkSent(t)
  <2>1. CASE Raises(t)
    BY <1>2, <1>5, <2>1, ThreadsSpareRunners DEF MarkSent
  <2>2. CASE Goto(t, AfterSent(Item(t)))
    <3>1. AfterSent(Item(t)) # "running"
      BY DEF AfterSent
    <3>2. QED
      BY <1>5, <2>2, <3>1, ThreadsSpareRunners DEF MarkSent, Goto
  <2>3. QED
    BY <1>5, <2>1, <2>2 DEF MarkSent
<1>6. CASE CompleteRefused(t) \/ PutRefused(t) \/ DeleteSent(t) \/ CompleteUnknown(t)
           \/ PutUnable(t)
  BY <1>2, <1>6, ThreadsSpareRunners
     DEF CompleteRefused, PutRefused, DeleteSent, CompleteUnknown, PutUnable
<1>7. QED
  BY <1>1, <1>3, <1>4, <1>5, <1>6 DEF FlushStep, CompleteBreaks, PutLost

LEMMA PutAcceptedSparesRunners ==
  ASSUME FleetInv, RunnerKnows, NEW m \in Machine, PutAccepted(m)
  PROVE  RunnerKnows'
<1>1. UNCHANGED rowVars
  BY DEF PutAccepted, UploadCommit, asgVars, rowVars
<1>2. \A id \in Attempt : Working(id)' => Working(id) /\ renewer'[id] = renewer[id]
  BY DEF PutAccepted, Putting, Goto, Working, FleetInv, FleetTypeOK, Thread
<1>3. QED
  BY <1>1, <1>2, RunnersUndisturbed

LEMMA WorkersSpareRunners ==
  ASSUME FleetInv, RunnerKnows, MaxFaults = 0, NEW id \in Attempt,
         WorkerStep(id) \/ RenewStep(id) \/ PullBreaks(id) \/ LeftEnds(id)
  PROVE  RunnerKnows'
<1>1. ~Fault
  BY DEF Fault, FleetInv, FleetTypeOK
<1>2. id \in Thread
  BY DEF Thread
<1>3. CASE WorkerStep(id)
  BY <1>2, <1>3, ThreadsSpareRunners DEF WorkerStep, Finish, WriteOutbox
<1>4. CASE RenewOK(id)
  BY <1>4, RenewKeepsRunners
<1>5. CASE RenewEnds(id)
  <2>1. UNCHANGED hubVars /\ ~Working(id)
    BY <1>1, <1>5 DEF RenewEnds, RunnerKnows
  <2>2. \A i \in Attempt : Working(i)' => Working(i) /\ renewer'[i] = renewer[i]
    BY <1>5, <2>1 DEF RenewEnds, Working, FleetInv, FleetTypeOK
  <2>3. QED
    BY <2>1, <2>2, RunnersUndisturbed DEF hubVars, rowVars
<1>6. CASE LeftEnds(id)
  BY <1>2, <1>6, ThreadsSpareRunners DEF LeftEnds
<1>7. QED
  BY <1>1, <1>3, <1>4, <1>5, <1>6 DEF RenewStep, PullBreaks

LEMMA RunnersStay ==
  ASSUME MaxFaults = 0, OnTime = TRUE, FleetInv, RunnerKnows, [FleetNext]_fleetVars
  PROVE  RunnerKnows'
<1>1. CASE \E a \in Assignment : FleetEnqueue(a)
  BY <1>1, EnqueueSparesRunners
<1>2. ASSUME NEW m \in Machine,
             Beat(m) \/ FleetDrain(m) \/ ClaimLost(m) \/ ClaimFails(m) \/ Stop(m) \/ Restart(m)
      PROVE  RunnerKnows'
  BY <1>2, LoopsSpareRunners
<1>3. ASSUME NEW m \in Machine, StartItem(m)
      PROVE  RunnerKnows'
  <2>1. m \in Thread /\ UNCHANGED <<hubVars, renewer>>
    BY <1>3 DEF StartItem, Thread
  <2>2. \E s \in {"complete", "evidence", "delete"} : step' = [step EXCEPT ![m] = s]
    BY <1>3 DEF StartItem
  <2>3. QED
    BY <2>1, <2>2, ThreadsSpareRunners
<1>4. ASSUME NEW m \in Machine, Crash(m) \/ Exit(m)
      PROVE  RunnerKnows'
  BY <1>4, GoneSparesRunners DEF Crash, Exit
<1>5. ASSUME NEW m \in Machine, MainStep(m)
      PROVE  RunnerKnows'
  BY <1>3, <1>4, <1>5, LoopsSpareRunners DEF MainStep
<1>6. ASSUME NEW m \in Machine, HubClaimStep(m)
      PROVE  RunnerKnows'
  BY <1>6, LoopsSpareRunners, DispatchRuns, UnheardSpares DEF HubClaimStep
<1>7. ASSUME NEW m \in Machine, HubPutStep(m)
      PROVE  RunnerKnows'
  BY <1>7, LoopsSpareRunners, PutAcceptedSparesRunners DEF HubPutStep
<1>8. ASSUME NEW id \in Attempt,
             WorkerStep(id) \/ RenewStep(id) \/ PullBreaks(id) \/ LeftEnds(id)
      PROVE  RunnerKnows'
  BY <1>8, WorkersSpareRunners
<1>9. ASSUME NEW t \in Thread, FlushStep(t) \/ CompleteBreaks(t) \/ PutLost(t)
      PROVE  RunnerKnows'
  BY <1>9, FlushSparesRunners
<1>10. CASE FleetPrune \/ FleetTick
  BY <1>10, PruneSparesRunners, TickSparesRunners
<1>11. CASE UNCHANGED fleetVars
  BY <1>11, RunnersUndisturbed DEF fleetVars, hubVars, agentVars, rowVars, Working
<1>12. QED
  BY <1>1, <1>2, <1>4, <1>5, <1>6, <1>7, <1>8, <1>9, <1>10, <1>11 DEF FleetNext

\* A worker that lives is never overtaken: where two Jobs execute the same
\* Assignment, one of them was left behind by a daemon that died or stopped,
\* and its attempt is over at the hub, as long as no message is lost and
\* renewals are on time.  (With one lost message a worker is overtaken: the
\* renew loop returns on any exception.)
THEOREM WorkersKeepTheirLease ==
  ASSUME MaxFaults = 0, OnTime = TRUE
  PROVE  FleetSpec => []OnlyLeftOvertaken
<1>1. FleetInit => RunnerKnows
  BY DEF FleetInit, RunnerKnows, Working, Thread
<1>2. FleetInv /\ RunnerKnows /\ [FleetNext]_fleetVars => RunnerKnows'
  BY RunnersStay
<1>3. ASSUME FleetInv, RunnerKnows PROVE OnlyLeftOvertaken
  <2> SUFFICES ASSUME NEW i \in Attempt, NEW j \in Attempt, Executing(i), Executing(j),
                      att_asg[i] = att_asg[j], i # j
               PROVE  \E k \in {i, j} : step[k] = "left" /\ att_status[k] # "running"
    BY DEF OnlyLeftOvertaken
  <2>1. ~(att_status[i] = "running" /\ att_status[j] = "running")
    BY <1>3 DEF FleetInv, HubInv, TableInv, PointedAt
  <2>2. ASSUME NEW k \in Attempt, Working(k)
        PROVE  att_status[k] = "running"
    <3>1. att_asg[k] \in Assignment /\ Fenced(att_asg[k], att_machine[k], k)
      BY <2>2, <1>3, RunnerRow DEF RunnerKnows
    <3>2. QED
      BY <1>3, <3>1, HubInvIsFenced DEF FleetInv, RunningIsFenced
  <2>3. QED
    BY <2>1, <2>2 DEF Executing, Working
<1>4. QED
  BY <1>1, <1>2, <1>3, FleetInvariance, PTL DEF FleetSpec

\* No Job is without its worker: nothing outlives a daemon, or none goes.
NobodyLeft ==
  /\ \A id \in Attempt : step[id] # "left"
  /\ MaxExits = 0 => \A m \in Machine : main[m] \notin {"drain", "last"}

MainKept ==
  \A m \in Machine : main'[m] \in {"drain", "last"} => main[m] \in {"drain", "last"} \/ MaxExits # 0

\* A thread that moves on does not leave its Job behind.
LEMMA MovesLeaveNobody ==
  ASSUME FleetInv, NobodyLeft, MainKept, NEW t \in Thread, NEW v, v # "left",
         step' = step \/ step' = [step EXCEPT ![t] = v]
  PROVE  NobodyLeft'
BY DEF NobodyLeft, MainKept, FleetInv, FleetTypeOK, Thread

LEMMA GoneLeavesNobody ==
  ASSUME Windows = TRUE \/ MaxExits = 0, FleetInv, NobodyLeft, NEW m \in Machine, Gone(m),
         exits < MaxExits \/ main[m] = "last"
  PROVE  NobodyLeft'
<1>1. MaxExits # 0
  BY FleetAssumption DEF FleetAssumption, FleetInv, FleetTypeOK, NobodyLeft
<1>2. \A id \in Attempt : Outlives(id) = {"done"}
  BY <1>1 DEF Outlives
<1>3. ASSUME NEW id \in Attempt
      PROVE  step'[id] # "left"
  <2>1. id \in Thread /\ id # m
    BY FleetAssumption DEF FleetAssumption, Thread
  <2>2. step'[id] = "done" \/ step'[id] = step[id]
    BY <1>2, <2>1 DEF Gone
  <2>3. QED
    BY <2>2 DEF NobodyLeft
<1>4. QED
  BY <1>1, <1>3 DEF NobodyLeft

LEMMA FlushLeavesNobody ==
  ASSUME FleetInv, NobodyLeft, NEW t \in Thread,
         FlushStep(t) \/ CompleteBreaks(t) \/ PutLost(t)
  PROVE  NobodyLeft'
<1>1. MainKept
  BY DEF MainKept, FlushStep, CompleteAccepted, CompleteRefused, MarkSent, PutEvidence,
         PutRefused, DeleteSent, CompleteUnknown, PutUnable, CompleteBreaks, PutLost
<1>2. Returns(t) \/ Raises(t) => \E v \in {"none", "done"} : step' = [step EXCEPT ![t] = v]
  BY DEF Returns, Raises, Leave
<1>3. \/ Returns(t) \/ Raises(t)
      \/ \E v \in {"mark", "putting", "evidence", "delete"} : step' = [step EXCEPT ![t] = v]
  BY DEF FlushStep, CompleteAccepted, CompleteRefused, MarkSent, PutEvidence,
         PutRefused, DeleteSent, CompleteUnknown, PutUnable, CompleteBreaks, PutLost,
         Goto, AfterSent
<1>4. QED
  BY <1>1, <1>2, <1>3, MovesLeaveNobody

LEMMA WorkersLeaveNobody ==
  ASSUME FleetInv, NobodyLeft, NEW id \in Attempt,
         WorkerStep(id) \/ RenewStep(id) \/ PullBreaks(id) \/ LeftEnds(id)
  PROVE  NobodyLeft'
<1> USE DEF WorkerStep, Finish, WriteOutbox, RenewStep, RenewOK, RenewEnds, PullBreaks, Leave,
            LeftEnds, agentVars
<1>1. MainKept
  BY DEF MainKept
<1>2. step' = step \/ \E v \in {"writing", "complete", "done"} : step' = [step EXCEPT ![id] = v]
  OBVIOUS
<1>3. QED
  BY <1>1, <1>2, MovesLeaveNobody DEF Thread

LEMMA LoopsLeaveNobody ==
  ASSUME FleetInv, NobodyLeft, NEW m \in Machine,
         \/ Beat(m) \/ FleetDrain(m) \/ HubClaimStep(m) \/ HubPutStep(m)
         \/ Poll(m) \/ StartItem(m) \/ FlushEnds(m) \/ StartClaim(m) \/ NoClaim(m) \/ Drain(m)
         \/ ClaimLost(m) \/ ClaimFails(m) \/ Stop(m) \/ Restart(m)
  PROVE  NobodyLeft'
<1> USE DEF Beat, FleetDrain, HubClaimStep, HubPick, ClaimEmpty, Dispatch, ClaimUnheard,
            HubPutStep, HubWrites, PutAccepted, Goto, Poll, StartItem, FlushEnds, StartClaim,
            NoClaim, Drain, ClaimLost, ClaimFails, Stop, Restart, agentVars
<1>1. MainKept
  <2>1. CASE Drain(m) \/ Stop(m)
    BY <2>1, FleetAssumption DEF FleetAssumption, MainKept, FleetInv, FleetTypeOK
  <2>2. CASE ClaimEmpty(m) \/ ClaimFails(m)
    BY <2>2 DEF MainKept, FleetInv, FleetTypeOK
  <2>3. CASE \/ Beat(m) \/ FleetDrain(m) \/ HubPutStep(m) \/ StartItem(m) \/ HubPick(m)
             \/ ClaimUnheard(m) \/ Restart(m)
    BY <2>3 DEF MainKept
  <2>4. CASE \/ Dispatch(m) \/ Poll(m) \/ FlushEnds(m) \/ StartClaim(m) \/ NoClaim(m)
             \/ ClaimLost(m)
    BY <2>4 DEF MainKept, FleetInv, FleetTypeOK
  <2>5. QED
    BY <2>1, <2>2, <2>3, <2>4 DEF HubClaimStep
<1>2. step' = step \/ \E t \in Thread, v \in Flushing \cup {"running"} :
                        step' = [step EXCEPT ![t] = v]
  BY DEF Putting, Flushing, Thread
<1>3. QED
  BY <1>1, <1>2, MovesLeaveNobody DEF Flushing, Thread

LEMMA NobodyLeftStep ==
  ASSUME Windows = TRUE \/ MaxExits = 0, FleetInv, NobodyLeft, [FleetNext]_fleetVars
  PROVE  NobodyLeft'
<1>1. ASSUME NEW m \in Machine, Crash(m) \/ Exit(m)
      PROVE  NobodyLeft'
  BY <1>1, GoneLeavesNobody DEF Crash, Exit
<1>2. ASSUME UNCHANGED <<main, step>>
      PROVE  NobodyLeft'
  BY <1>2 DEF NobodyLeft
<1>3. QED
  BY <1>1, <1>2, FlushLeavesNobody, WorkersLeaveNobody, LoopsLeaveNobody
     DEF FleetNext, MainStep, FleetEnqueue, FleetPrune, FleetTick, agentVars, fleetVars

\* One Job at most executes an Assignment (FLEET.md), as long as no message is
\* lost, renewals are on time, and no Job outlives its daemon: on Windows, or
\* where no daemon dies or stops.
THEOREM OneJobAtATime ==
  ASSUME MaxFaults = 0, OnTime = TRUE, Windows = TRUE \/ MaxExits = 0
  PROVE  FleetSpec => []NoDoubleRun
<1>1. FleetInit => NobodyLeft
  BY DEF FleetInit, NobodyLeft, Thread
<1>2. FleetInv /\ NobodyLeft /\ [FleetNext]_fleetVars => NobodyLeft'
  BY NobodyLeftStep
<1>3. OnlyLeftOvertaken /\ NobodyLeft => NoDoubleRun
  BY DEF OnlyLeftOvertaken, NobodyLeft, NoDoubleRun
<1>4. FleetSpec => []OnlyLeftOvertaken
  BY WorkersKeepTheirLease
<1>5. QED
  BY <1>1, <1>2, <1>3, <1>4, FleetInvariance, PTL DEF FleetSpec

-----------------------------------------------------------------------------
(* Draining *)

\* A drained machine without an open claim is given nothing.
LEMMA DrainedGetsNothing ==
  ASSUME FleetInv, [FleetNext]_fleetVars, NEW m \in Machine, NEW id \in Attempt,
         drained[m], claimTx[m].phase = "idle", att_machine[id] # m
  PROVE  drained'[m] /\ claimTx'[m].phase = "idle" /\ att_machine'[id] # m

<1> USE DEF FleetInv, HubInv, TypeOK
<1> DEFINE Held == drained'[m] /\ claimTx'[m].phase = "idle" /\ att_machine'[id] # m
<1>1. CASE UNCHANGED <<drained, claimTx, att_machine>>
  BY <1>1
<1>2. CASE UNCHANGED hubVars
  BY <1>1, <1>2 DEF hubVars
<1>3. CASE (\E a \in Assignment : FleetEnqueue(a)) \/ FleetPrune \/ FleetTick
  BY <1>1, <1>3
     DEF FleetEnqueue, Enqueue, FleetPrune, Prune, FleetTick, Tick, attVars, machVars
<1>4. ASSUME NEW n \in Machine, Beat(n) \/ HubWrites(n) \/ PutAccepted(n)
      PROVE  Held
  BY <1>1, <1>4
     DEF Beat, Heartbeat, HubWrites, UploadWrite, PutAccepted, UploadCommit, attVars, machVars
<1>5. ASSUME NEW n \in Machine, FleetDrain(n)
      PROVE  Held
  BY <1>5 DEF FleetDrain, SetDrained, attVars
<1>6. ASSUME NEW n \in Machine, StartClaim(n) \/ ClaimEmpty(n) \/ ClaimFails(n) \/ HubPick(n)
      PROVE  Held
  BY <1>6
     DEF StartClaim, ClaimRead, ClaimEmpty, ClaimNone, ClaimFails, ClaimAbort, HubPick,
         ClaimPick, IdleTx, attVars, machVars
<1>7. ASSUME NEW n \in Machine, Dispatch(n) \/ ClaimUnheard(n)
      PROVE  Held
  BY <1>7 DEF Dispatch, ClaimUnheard, ClaimCommit, IdleTx
<1>8. ASSUME NEW n \in Machine,
             \/ Poll(n) \/ StartItem(n) \/ FlushEnds(n) \/ NoClaim(n) \/ Drain(n) \/ Exit(n)
             \/ ClaimLost(n) \/ Crash(n) \/ Stop(n) \/ Restart(n)
      PROVE  Held
  BY <1>2, <1>8
     DEF Poll, StartItem, FlushEnds, NoClaim, Drain, Exit, ClaimLost, Crash, Stop, Restart
<1>9. ASSUME NEW i \in Attempt, WorkerStep(i) \/ RenewStep(i) \/ PullBreaks(i) \/ LeftEnds(i)
      PROVE  Held
  BY <1>1, <1>2, <1>9
     DEF WorkerStep, Finish, WriteOutbox, RenewStep, RenewOK, RenewEnds, Renew, PullBreaks,
         LeftEnds, attVars, machVars
<1>10. ASSUME NEW t \in Thread, FlushStep(t) \/ CompleteBreaks(t) \/ PutLost(t)
       PROVE  Held
  BY <1>1, <1>2, <1>10
     DEF FlushStep, CompleteAccepted, CompleteRefused, MarkSent, PutEvidence, PutRefused,
         DeleteSent, CompleteUnknown, PutUnable, CompleteBreaks, PutLost, Complete,
         UploadCheck, attVars, machVars
<1>11. QED
  BY <1>2, <1>3, <1>4, <1>5, <1>6, <1>7, <1>8, <1>9, <1>10
     DEF FleetNext, MainStep, HubClaimStep, HubPutStep, fleetVars

\* Once a drained machine has no claim open, no attempt is ever made for it
\* again: not by a claim that was read before, not after a restart.
THEOREM DrainIsFinal == FleetSpec => DrainHolds
<1>1. SUFFICES ASSUME NEW m \in Machine, NEW id \in Attempt
               PROVE  FleetSpec => [](drained[m] /\ claimTx[m].phase = "idle"
                                      /\ att_machine[id] # m => [](att_machine[id] # m))
  BY DEF DrainHolds
<1> DEFINE P == drained[m] /\ claimTx[m].phase = "idle" /\ att_machine[id] # m
           Q == att_machine[id] # m
<1>2. FleetInv /\ P /\ [FleetNext]_fleetVars => P'
  BY DrainedGetsNothing
<1>3. P => Q
  OBVIOUS
<1> HIDE DEF P, Q
<1>4. FleetSpec => [](P => []Q)
  BY <1>2, <1>3, FleetInvariance, PTL DEF FleetSpec
<1>5. QED
  BY <1>4 DEF P, Q

=============================================================================
