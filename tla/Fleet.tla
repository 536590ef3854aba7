------------------------------- MODULE Fleet --------------------------------
(***************************************************************************)
(* Resident agents (daemon.py, hub_worker.py, outbox.py) running against   *)
(* the hub of HubStore.  Each daemon has a main thread that replays the    *)
(* outbox and claims, and one worker thread with a lease renewer for each  *)
(* attempt it was given.  Requests and replies may be lost, daemons crash  *)
(* or stop and come back with the outbox that is on their disk.            *)
(*                                                                         *)
(* A thread is named by what it works for: the main thread by its machine, *)
(* a worker by its attempt.  MaxFaults bounds the lost messages, broken    *)
(* pulls and rolled back claims, MaxExits the crashes and stops.           *)
(***************************************************************************)
EXTENDS HubStore, FiniteSets

CONSTANTS
  Slots,        \* config.slots
  AgentTags,    \* config.tags of each machine
  MaxFaults,
  MaxExits,
  OnTime,       \* TRUE: a renewer that is alive always renews when it is due
  LargeZips,    \* TRUE: an evidence zip may exceed the hub's max_body
  Pruning,      \* TRUE: the operator runs prune_old
  MayTear,      \* TRUE: a crash may truncate the file being written
  Windows       \* TRUE: what a daemon has started ends with it

ASSUME FleetAssumption ==
  /\ Slots \in Nat \ {0}
  /\ AgentTags \in [Machine -> SUBSET Tag]
  /\ MaxFaults \in Nat
  /\ MaxExits \in Nat
  /\ OnTime \in BOOLEAN
  /\ LargeZips \in BOOLEAN
  /\ Pruning \in BOOLEAN
  /\ MayTear \in BOOLEAN
  /\ Windows \in BOOLEAN
  /\ Machine \cap Attempt = {}
  /\ None \notin Outcome

VARIABLES
  alive,     \* the daemon process runs
  main,      \* where its main loop is
  active,    \* Daemon._active: keyed by Assignment id
  todo,      \* items the running flush pass has loaded and not yet flushed,
             \* each with the complete_sent it was loaded with, and whether
             \* it had an evidence.zip then
  item,      \* the item the main thread is flushing
  step,      \* where each thread is
  renewer,   \* the renew thread of an attempt runs
  box,       \* payload.json of an attempt in the outbox
  zip,       \* its evidence.zip
  verdict,   \* the status in its complete body
  faults, exits

agentVars == <<alive, main, active, todo, item, step, renewer, box, zip, verdict,
               faults, exits>>
fleetVars == <<hubVars, agentVars>>

Thread == Machine \cup Attempt

FleetTypeOK ==
  /\ TypeOK
  /\ alive \in [Machine -> BOOLEAN]
  /\ main \in [Machine -> {"poll", "flush", "ready", "claim", "drain", "last"}]
  /\ active \in [Machine -> SUBSET Assignment]
  /\ todo \in [Machine -> SUBSET (Attempt \X BOOLEAN \X BOOLEAN)]
  /\ item \in [Machine -> Attempt \cup {None}]
  /\ step \in [Thread -> {"none", "running", "left", "writing", "complete", "mark",
                          "evidence", "putting", "delete", "done"}]
  /\ renewer \in [Attempt -> BOOLEAN]
  /\ box \in [Attempt -> {"none", "unsent", "sent", "corrupt"}]
  /\ zip \in [Attempt -> {"none", "fits", "large"}]
  /\ verdict \in [Attempt -> Outcome \cup {None}]
  /\ faults \in 0..MaxFaults
  /\ exits \in 0..MaxExits

FleetInit ==
  /\ Init
  /\ alive = [m \in Machine |-> TRUE]
  /\ main = [m \in Machine |-> "poll"]
  /\ active = [m \in Machine |-> {}]
  /\ todo = [m \in Machine |-> {}]
  /\ item = [m \in Machine |-> None]
  /\ step = [t \in Thread |-> "none"]
  /\ renewer = [id \in Attempt |-> FALSE]
  /\ box = [id \in Attempt |-> "none"]
  /\ zip = [id \in Attempt |-> "none"]
  /\ verdict = [id \in Attempt |-> None]
  /\ faults = 0
  /\ exits = 0

Fault == faults < MaxFaults /\ faults' = faults + 1
NoFault == UNCHANGED faults

Agent(t) == IF t \in Machine THEN t ELSE att_machine[t]
Item(t) == IF t \in Machine THEN item[t] ELSE t
Owned(m) == {id \in Attempt : att_machine[id] = m}
InFlight == {"running", "writing", "complete", "mark", "evidence", "putting", "delete"}

-----------------------------------------------------------------------------
(* The main loop: flush the outbox when idle, claim, dispatch *)

\* The idle and busy heartbeat: tags, and one of the active Assignments.
Beat(m) ==
  /\ alive[m]
  /\ \E r \in (IF active[m] = {} THEN {None} ELSE active[m]) :
       Heartbeat(m, AgentTags[m], r)
  /\ UNCHANGED agentVars

\* load_pending: one unreadable payload.json and nothing is loaded.
Loaded(m) ==
  LET pending == {id \in Owned(m) : box[id] # "none"}
  IN IF \E id \in pending : box[id] = "corrupt" THEN {}
     ELSE {<<id, box[id] = "sent", zip[id] # "none">> : id \in pending}

\* Mutant of Poll: the outbox is not replayed.
PollOnly(m) ==
  /\ alive[m]
  /\ main[m] = "poll"
  /\ Cardinality(active[m]) < Slots
  /\ main' = [main EXCEPT ![m] = "ready"]
  /\ UNCHANGED <<hubVars, alive, active, todo, item, step, renewer, box, zip, verdict, faults, exits>>

Poll(m) ==
  /\ alive[m]
  /\ main[m] = "poll"
  /\ Cardinality(active[m]) < Slots
  /\ IF active[m] = {}
       THEN main' = [main EXCEPT ![m] = "flush"] /\ todo' = [todo EXCEPT ![m] = Loaded(m)]
       ELSE main' = [main EXCEPT ![m] = "ready"] /\ UNCHANGED todo
  /\ UNCHANGED <<hubVars, alive, active, item, step, renewer, box, zip, verdict, faults, exits>>

\* An item loaded as sent skips the complete call.
StartItem(m) ==
  /\ alive[m]
  /\ main[m] \in {"flush", "last"}
  /\ step[m] = "none"
  /\ \E p \in todo[m] :
       /\ item' = [item EXCEPT ![m] = p[1]]
       /\ step' = [step EXCEPT ![m] =
                     CASE ~p[2] -> "complete"
                       [] p[2] /\ p[3] -> "evidence"
                       [] OTHER -> "delete"]
  /\ UNCHANGED <<hubVars, alive, main, active, todo, renewer, box, zip, verdict, faults, exits>>

FlushEnds(m) ==
  /\ alive[m]
  /\ main[m] = "flush"
  /\ todo[m] = {}
  /\ step[m] = "none"
  /\ main' = [main EXCEPT ![m] = "ready"]
  /\ UNCHANGED <<hubVars, alive, active, todo, item, step, renewer, box, zip, verdict,
                 faults, exits>>

StartClaim(m) ==
  /\ alive[m]
  /\ main[m] = "ready"
  /\ ClaimRead(m)
  /\ main' = [main EXCEPT ![m] = "claim"]
  /\ UNCHANGED <<alive, active, todo, item, step, renewer, box, zip, verdict, faults, exits>>

\* Nothing for a drained machine; an unknown one is refused and backs off.
NoClaim(m) ==
  /\ alive[m]
  /\ main[m] = "ready"
  /\ drained[m] \/ ~known[m]
  /\ main' = [main EXCEPT ![m] = "poll"]
  /\ UNCHANGED <<hubVars, alive, active, todo, item, step, renewer, box, zip, verdict,
                 faults, exits>>

HubPick(m) ==
  /\ \E a \in Assignment : ClaimPick(m, a)
  /\ UNCHANGED agentVars

\* The end of claim at the hub, with whoever still listens going back to poll.
ClaimEmpty(m) ==
  /\ ClaimNone(m)
  /\ main' = [main EXCEPT ![m] = IF @ = "claim" THEN "poll" ELSE @]
  /\ UNCHANGED <<alive, active, todo, item, step, renewer, box, zip, verdict, faults, exits>>

\* The claim commits and its reply reaches the daemon, which dispatches a
\* worker: _active has one entry per Assignment, not per attempt.
Dispatch(m) ==
  /\ main[m] = "claim"
  /\ \E a \in Assignment, id \in Attempt :
       /\ ClaimCommit(m, a, id)
       /\ active' = [active EXCEPT ![m] = @ \cup {a}]
       /\ step' = [step EXCEPT ![id] = "running"]
       /\ renewer' = [renewer EXCEPT ![id] = TRUE]
  /\ main' = [main EXCEPT ![m] = "poll"]
  /\ UNCHANGED <<alive, todo, item, box, zip, verdict, faults, exits>>

\* The daemon stops waiting for the reply; the hub carries on.
ClaimLost(m) ==
  /\ main[m] = "claim"
  /\ Fault
  /\ main' = [main EXCEPT ![m] = "poll"]
  /\ UNCHANGED <<hubVars, alive, active, todo, item, step, renewer, box, zip, verdict, exits>>

\* The claim commits and nobody is there to read the reply.
ClaimUnheard(m) ==
  /\ main[m] # "claim"
  /\ \E a \in Assignment, id \in Attempt : ClaimCommit(m, a, id)
  /\ UNCHANGED agentVars

ClaimFails(m) ==
  /\ ClaimAbort(m)
  /\ Fault
  /\ main' = [main EXCEPT ![m] = IF @ = "claim" THEN "poll" ELSE @]
  /\ UNCHANGED <<alive, active, todo, item, step, renewer, box, zip, verdict, exits>>

-----------------------------------------------------------------------------
(* A worker: renew while it pulls and runs, then write the outbox item *)

\* Mutant of RenewEvery: longer than the lease.
RenewSeldom(a) == LeaseSeconds[a] + 1

\* interval = max(1.0, lease_seconds / 3)
RenewEvery(a) == IF LeaseSeconds[a] < 3 THEN 1 ELSE LeaseSeconds[a] \div 3

RenewDue(id) ==
  LET a == att_asg[id]
  IN renewer[id] /\ (Fenced(a, att_machine[id], id) =>
                       lease[a] <= LeaseSeconds[a] - RenewEvery(a))

RenewOK(id) ==
  /\ RenewDue(id)
  /\ Renew(att_asg[id], att_machine[id], id)
  /\ UNCHANGED agentVars

\* Any exception ends the loop: a conflict, a request or a reply lost.
RenewEnds(id) ==
  /\ RenewDue(id)
  /\ \/ ~Fenced(att_asg[id], att_machine[id], id) /\ NoFault /\ UNCHANGED hubVars
     \/ Fault /\ UNCHANGED hubVars
     \/ Fault /\ Renew(att_asg[id], att_machine[id], id)
  /\ renewer' = [renewer EXCEPT ![id] = FALSE]
  /\ UNCHANGED <<alive, main, active, todo, item, step, box, zip, verdict, exits>>

\* A worker leaves: the renewer is stopped and the Assignment popped.
Leave(id) ==
  /\ step' = [step EXCEPT ![id] = "done"]
  /\ renewer' = [renewer EXCEPT ![id] = FALSE]
  /\ active' = [active EXCEPT ![att_machine[id]] = @ \ {att_asg[id]}]
  /\ UNCHANGED todo

\* Mutant of Ends: the executor's own word is passed on.
RawEnds == Outcome \cup {"skipped"}

\* The statuses of an ExecResult.
Ends == Outcome

\* The Job ends, or its release is refused: the result is about to be written.
Finish(id) ==
  /\ step[id] = "running"
  /\ step' = [step EXCEPT ![id] = "writing"]
  /\ \E v \in Ends :
       /\ verdict' = [verdict EXCEPT ![id] = v]
       /\ \E z \in {"none", "fits", "large"} :
            /\ z # "none" => v # "succeeded"
            /\ z = "large" => LargeZips
            /\ zip' = [zip EXCEPT ![id] = z]
  /\ UNCHANGED <<hubVars, alive, main, active, todo, item, renewer, box, faults, exits>>

\* The download fails with a network error: the worker dies with no item.
PullBreaks(id) ==
  /\ step[id] = "running"
  /\ Fault
  /\ Leave(id)
  /\ UNCHANGED <<hubVars, alive, main, item, box, zip, verdict, exits>>

WriteOutbox(id) ==
  /\ step[id] = "writing"
  /\ box' = [box EXCEPT ![id] = "unsent"]
  /\ step' = [step EXCEPT ![id] = "complete"]
  /\ UNCHANGED <<hubVars, alive, main, active, todo, item, renewer, zip, verdict, faults, exits>>

-----------------------------------------------------------------------------
(* flush_item, by a worker or by the main thread *)

Goto(t, s) == step' = [step EXCEPT ![t] = s] /\ UNCHANGED <<active, renewer, todo>>

\* flush_item returns.  The main thread takes the next item.
Returns(t) ==
  IF t \in Attempt THEN Leave(t)
  ELSE /\ step' = [step EXCEPT ![t] = "none"]
       /\ todo' = [todo EXCEPT ![t] = {p \in @ : p[1] # item[t]}]
       /\ UNCHANGED <<active, renewer>>

\* flush_item raises.  The main thread gives up the whole pass.
Raises(t) ==
  IF t \in Attempt THEN Leave(t)
  ELSE /\ step' = [step EXCEPT ![t] = "none"]
       /\ todo' = [todo EXCEPT ![t] = {}]
       /\ UNCHANGED <<active, renewer>>

DeleteItem(id) ==
  /\ box' = [box EXCEPT ![id] = "none"]
  /\ zip' = [zip EXCEPT ![id] = "none"]

AfterSent(id) == IF zip[id] = "none" THEN "delete" ELSE "evidence"

CompleteAccepted(t) ==
  LET id == Item(t)
  IN /\ step[t] = "complete"
     /\ Complete(att_asg[id], Agent(t), id, verdict[id])
     /\ Goto(t, "mark")
     /\ UNCHANGED <<alive, main, item, box, zip, verdict, faults, exits>>

\* Mutants of CompleteBreaks: the payload is marked, or the item deleted,
\* whatever the error.
CompleteBreaksMarked(t) ==
  LET id == Item(t)
  IN /\ step[t] = "complete"
     /\ Fault
     /\ UNCHANGED hubVars \/ Complete(att_asg[id], Agent(t), id, verdict[id])
     /\ box' = [box EXCEPT ![id] = "sent"]
     /\ Raises(t)
     /\ UNCHANGED <<alive, main, item, zip, verdict, exits>>

CompleteBreaksDropped(t) ==
  LET id == Item(t)
  IN /\ step[t] = "complete"
     /\ Fault
     /\ UNCHANGED hubVars \/ Complete(att_asg[id], Agent(t), id, verdict[id])
     /\ DeleteItem(id)
     /\ Raises(t)
     /\ UNCHANGED <<alive, main, item, verdict, exits>>

\* The request is lost, or it is done and the reply is lost.
CompleteBreaks(t) ==
  LET id == Item(t)
  IN /\ step[t] = "complete"
     /\ Fault
     /\ UNCHANGED hubVars \/ Complete(att_asg[id], Agent(t), id, verdict[id])
     /\ Raises(t)
     /\ UNCHANGED <<alive, main, item, box, zip, verdict, exits>>

\* 404 after prune_old: the item stays.
CompleteUnknown(t) ==
  /\ step[t] = "complete"
  /\ status[att_asg[Item(t)]] = "absent"
  /\ Raises(t)
  /\ UNCHANGED <<hubVars, alive, main, item, box, zip, verdict, faults, exits>>

\* 409: the item is deleted, evidence and all.
CompleteRefused(t) ==
  LET id == Item(t)
  IN /\ step[t] = "complete"
     /\ status[att_asg[id]] # "absent"
     /\ ~Fenced(att_asg[id], Agent(t), id)
     /\ DeleteItem(id)
     /\ Returns(t)
     /\ UNCHANGED <<hubVars, alive, main, item, verdict, faults, exits>>

\* mark_complete_sent; the payload may be gone when two threads flush it.
MarkSent(t) ==
  LET id == Item(t)
  IN /\ step[t] = "mark"
     /\ IF box[id] = "none"
          THEN Raises(t) /\ UNCHANGED box
          ELSE Goto(t, AfterSent(id)) /\ box' = [box EXCEPT ![id] = "sent"]
     /\ UNCHANGED <<hubVars, alive, main, item, zip, verdict, faults, exits>>

PutEvidence(t) ==
  LET id == Item(t)
  IN /\ step[t] = "evidence"
     /\ zip[id] = "fits"
     /\ UploadCheck(att_asg[id], Agent(t), id)
     /\ Goto(t, "putting")
     /\ UNCHANGED <<alive, main, item, box, zip, verdict, faults, exits>>

\* The put fails without any fault: another thread has deleted the zip, its
\* body is over the limit (413), or prune_old has removed the Assignment (404).
PutFails(id) == zip[id] # "fits" \/ status[att_asg[id]] = "absent"

PutUnable(t) ==
  /\ step[t] = "evidence"
  /\ PutFails(Item(t))
  /\ Raises(t)
  /\ UNCHANGED <<hubVars, alive, main, item, box, zip, verdict, faults, exits>>

\* The request is lost, or the thread stops waiting for the reply.
PutLost(t) ==
  /\ \/ step[t] = "evidence" /\ ~PutFails(Item(t))
     \/ step[t] = "putting"
  /\ Fault
  /\ Raises(t)
  /\ UNCHANGED <<hubVars, alive, main, item, box, zip, verdict, exits>>

PutRefused(t) ==
  LET id == Item(t)
  IN /\ step[t] = "evidence"
     /\ zip[id] = "fits"
     /\ status[att_asg[id]] # "absent"
     /\ ~UploadFence(att_asg[id], Agent(t), id)
     /\ DeleteItem(id)
     /\ Returns(t)
     /\ UNCHANGED <<hubVars, alive, main, item, verdict, faults, exits>>

HubWrites(m) == UploadWrite(m) /\ UNCHANGED agentVars

Putting(m) == {t \in Thread : step[t] = "putting" /\ Item(t) = upload[m].attempt}

\* The hub records the evidence; the reply reaches its thread, if it is there.
PutAccepted(m) ==
  /\ UploadCommit(m)
  /\ IF Putting(m) = {} THEN UNCHANGED <<step, active, renewer, todo>>
     ELSE \E t \in Putting(m) : Goto(t, "delete")
  /\ UNCHANGED <<alive, main, item, box, zip, verdict, faults, exits>>

DeleteSent(t) ==
  /\ step[t] = "delete"
  /\ DeleteItem(Item(t))
  /\ Returns(t)
  /\ UNCHANGED <<hubVars, alive, main, item, verdict, faults, exits>>

-----------------------------------------------------------------------------
(* Stop, crash, restart *)

\* What a rewrite that was under way leaves behind: the old file, the new
\* one, or a truncated one.
TornBox(id, b) ==
  \/ b = box[id]
  \/ /\ step[id] = "writing"
     /\ b = "unsent" \/ (b = "corrupt" /\ MayTear)
  \/ /\ \E t \in Thread : step[t] = "mark" /\ Item(t) = id
     /\ box[id] # "none"
     /\ b = "sent" \/ (b = "corrupt" /\ MayTear)

\* What is left of a worker whose process is gone.  On POSIX "coreme run" and
\* its Job have sessions of their own and may go on with nobody to renew their
\* lease; on Windows the job object ends them.
Outlives(id) == IF step[id] = "running" /\ ~Windows THEN {"done", "left"} ELSE {"done"}

\* The process is gone; what was on disk stays.
Gone(m) ==
  /\ alive' = [alive EXCEPT ![m] = FALSE]
  /\ main' = [main EXCEPT ![m] = "poll"]
  /\ active' = [active EXCEPT ![m] = {}]
  /\ todo' = [todo EXCEPT ![m] = {}]
  /\ item' = [item EXCEPT ![m] = None]
  /\ \E left \in [Attempt -> {"done", "left"}] :
       /\ \A id \in Attempt : left[id] \in Outlives(id)
       /\ step' = [t \in Thread |->
                     CASE t = m -> "none"
                       [] t \in Owned(m) /\ step[t] \in InFlight -> left[t]
                       [] OTHER -> step[t]]
  /\ renewer' = [id \in Attempt |-> renewer[id] /\ id \notin Owned(m)]
  /\ \E f \in [Attempt -> {"none", "unsent", "sent", "corrupt"}] :
       /\ \A id \in Attempt : IF id \in Owned(m) THEN TornBox(id, f[id]) ELSE f[id] = box[id]
       /\ box' = f

Crash(m) ==
  /\ alive[m]
  /\ exits < MaxExits
  /\ exits' = exits + 1
  /\ Gone(m)
  /\ UNCHANGED <<hubVars, zip, verdict, faults>>

\* A Job that nobody waits for ends, or reaches its own timeout.
LeftEnds(id) ==
  /\ step[id] = "left"
  /\ step' = [step EXCEPT ![id] = "done"]
  /\ UNCHANGED <<hubVars, alive, main, active, todo, item, renewer, box, zip, verdict,
                 faults, exits>>

Stop(m) ==
  /\ alive[m]
  /\ main[m] = "poll"
  /\ exits < MaxExits
  /\ exits' = exits + 1
  /\ main' = [main EXCEPT ![m] = "drain"]
  /\ UNCHANGED <<hubVars, alive, active, todo, item, step, renewer, box, zip, verdict, faults>>

\* Every worker was joined or given DRAIN_TIMEOUT_SEC: then the last flush.
Drain(m) ==
  /\ alive[m]
  /\ main[m] = "drain"
  /\ main' = [main EXCEPT ![m] = "last"]
  /\ todo' = [todo EXCEPT ![m] = Loaded(m)]
  /\ UNCHANGED <<hubVars, alive, active, item, step, renewer, box, zip, verdict, faults, exits>>

Exit(m) ==
  /\ alive[m]
  /\ main[m] = "last"
  /\ todo[m] = {}
  /\ step[m] = "none"
  /\ Gone(m)
  /\ UNCHANGED <<hubVars, zip, verdict, faults, exits>>

Restart(m) ==
  /\ ~alive[m]
  /\ alive' = [alive EXCEPT ![m] = TRUE]
  /\ UNCHANGED <<hubVars, main, active, todo, item, step, renewer, box, zip, verdict,
                 faults, exits>>

-----------------------------------------------------------------------------
FleetEnqueue(a) == Enqueue(a) /\ UNCHANGED agentVars

FleetDrain(m) == ~drained[m] /\ SetDrained(m, TRUE) /\ UNCHANGED agentVars

FleetPrune == Pruning /\ Prune /\ UNCHANGED agentVars

FleetTick ==
  /\ OnTime => \A id \in Attempt :
       ~(RenewDue(id) /\ Fenced(att_asg[id], att_machine[id], id))
  /\ Tick
  /\ UNCHANGED agentVars

MainStep(m) ==
  \/ Poll(m) \/ StartItem(m) \/ FlushEnds(m) \/ StartClaim(m) \/ NoClaim(m)
  \/ Drain(m) \/ Exit(m)

HubClaimStep(m) == HubPick(m) \/ ClaimEmpty(m) \/ Dispatch(m) \/ ClaimUnheard(m)

HubPutStep(m) == HubWrites(m) \/ PutAccepted(m)

WorkerStep(id) == Finish(id) \/ WriteOutbox(id)

FlushStep(t) ==
  \/ CompleteAccepted(t) \/ CompleteRefused(t) \/ MarkSent(t)
  \/ PutEvidence(t) \/ PutRefused(t) \/ DeleteSent(t)
  \/ CompleteUnknown(t) \/ PutUnable(t)

RenewStep(id) == RenewOK(id) \/ RenewEnds(id)

FleetNext ==
  \/ \E a \in Assignment : FleetEnqueue(a)
  \/ \E m \in Machine :
       \/ Beat(m) \/ FleetDrain(m) \/ MainStep(m)
       \/ HubClaimStep(m) \/ HubPutStep(m)
       \/ ClaimLost(m) \/ ClaimFails(m)
       \/ Crash(m) \/ Stop(m) \/ Restart(m)
  \/ \E id \in Attempt : WorkerStep(id) \/ RenewStep(id) \/ PullBreaks(id) \/ LeftEnds(id)
  \/ \E t \in Thread : FlushStep(t) \/ CompleteBreaks(t) \/ PutLost(t)
  \/ FleetPrune \/ FleetTick

FleetSpec == FleetInit /\ [][FleetNext]_fleetVars

\* The threads are scheduled, the hub ends what it began, a Job ends (the
\* kernel stops it at its [runtime].timeout_sec), a daemon that went down is
\* started again, and time passes.
Fairness ==
  /\ \A m \in Machine :
       /\ WF_fleetVars(Beat(m) /\ ~known[m])
       /\ WF_fleetVars(MainStep(m))
       /\ WF_fleetVars(HubClaimStep(m)) /\ WF_fleetVars(HubPutStep(m))
       /\ WF_fleetVars(Restart(m))
  /\ \A id \in Attempt : WF_fleetVars(WorkerStep(id)) /\ WF_fleetVars(RenewStep(id))
  /\ \A t \in Thread : WF_fleetVars(FlushStep(t))
  /\ WF_fleetVars(FleetTick)

FairFleetSpec == FleetSpec /\ Fairness

-----------------------------------------------------------------------------
(* Properties *)

Working(id) == step[id] = "running"

\* The Job of the attempt may run, with its worker or without.
Executing(id) == step[id] \in {"running", "left"}

\* The marker on disk never runs ahead of the hub: a payload that says
\* complete_sent, read back after any crash, belongs to an attempt whose
\* result the hub has, so that skipping the complete call loses nothing.
SentIsAccepted ==
  \A id \in Attempt : box[id] = "sent" => att_status[id] \in Outcome \cup {"deleted"}

\* "Delete only after the hub accepts" (outbox.py): an item leaves the disk
\* when the hub has its result, or has given the Assignment to someone else.
DeleteAfterAccept ==
  [][\A id \in Attempt : box[id] # "none" /\ box'[id] = "none" =>
       att_status[id] \in Outcome \cup {"lease-lost", "deleted"}]_fleetVars

\* The same of the evidence beside it: the zip of a failed Run is deleted
\* when the hub has it, or when the attempt lost its lease.
EvidenceDelivered ==
  [][\A id \in Attempt : zip[id] # "none" /\ zip'[id] = "none" =>
       evidence[id] \/ att_status[id] \in {"lease-lost", "deleted"}]_fleetVars

\* "Do not double-run same Assignment under lease" (FLEET.md): at any time one
\* Job at most executes an Assignment, on one machine or on two.
NoDoubleRun ==
  \A i, j \in Attempt : Executing(i) /\ Executing(j) /\ att_asg[i] = att_asg[j] => i = j

\* What the leases guarantee of it: where two Jobs execute an Assignment side
\* by side, the daemon of one of them died under it and its attempt is no
\* longer the one the hub has running.  A worker that lives is never overtaken.
OnlyLeftOvertaken ==
  \A i, j \in Attempt :
    Executing(i) /\ Executing(j) /\ att_asg[i] = att_asg[j] /\ i # j =>
      \E k \in {i, j} : step[k] = "left" /\ att_status[k] # "running"

\* A daemon runs at most config.slots Jobs: the claim loop counts _active.
SlotsRespected ==
  \A m \in Machine : Cardinality({id \in Owned(m) : Working(id)}) <= Slots

\* A queued Assignment ends with a result, whatever was lost or crashed on
\* the way, as long as an undrained machine is there to run it.
Settled ==
  \A a \in Assignment :
    status[a] = "pending" ~> status[a] \in Outcome \/ \A m \in Machine : drained[m]

\* Drain means "no new claims" (FLEET.md): once the claim that was open when a
\* machine was drained is over, the hub never hands it another attempt, not
\* after a crash and a restart and not of its own lapsed Assignments.
DrainHolds ==
  \A m \in Machine, id \in Attempt :
    [](drained[m] /\ claimTx[m].phase = "idle" /\ att_machine[id] # m
         => [](att_machine[id] # m))

\* What is in the outbox is uploaded and deleted in the end.
OutboxDrains ==
  \A id \in Attempt : box[id] # "none" ~> box[id] = "none"
=============================================================================
