--------------------------- MODULE HubStoreProofs ---------------------------
(***************************************************************************)
(* What holds of HubStore for every set of machines, Assignments and       *)
(* attempts, every lease and every retention.  HubInv is the inductive     *)
(* invariant: the assignments and attempts tables point at each other.     *)
(***************************************************************************)
EXTENDS HubStore, TLAPS

\* A row nobody has claimed carries no claim.
Unclaimed ==
  \A a \in Assignment : status[a] \in {"absent", "pending"} =>
    claimed_by[a] = None /\ attempt_id[a] = None

\* A claimed or settled Assignment row names an attempt row that names it back.
PointsAtAttempt ==
  \A a \in Assignment : status[a] \notin {"absent", "pending"} =>
    /\ claimed_by[a] \in Machine
    /\ attempt_id[a] \in Attempt
    /\ att_asg[attempt_id[a]] = a
    /\ att_machine[attempt_id[a]] = claimed_by[a]
    /\ att_status[attempt_id[a]] = IF status[a] = "claimed" THEN "running" ELSE status[a]

\* A running or settled attempt is the one its Assignment row names.
PointedAt ==
  \A id \in Attempt : att_status[id] \in {"running"} \cup Outcome =>
    att_asg[id] \in Assignment /\ attempt_id[att_asg[id]] = id

\* Attempt rows are complete from their insertion on.
AttemptRows ==
  \A id \in Attempt :
    /\ att_status[id] = "unused" => att_asg[id] = None
    /\ att_status[id] # "unused" => att_asg[id] \in Assignment /\ att_machine[id] \in Machine
    /\ evidence[id] => att_status[id] \notin {"unused", "deleted"}

\* A locked row stays claimable until its claim commits, and has one claimant.
PickedStaysClaimable ==
  \A m \in Machine : claimTx[m].phase = "picked" =>
    /\ claimTx[m].asg \in Assignment
    /\ status[claimTx[m].asg] = "pending" \/ Expired(claimTx[m].asg)
    /\ \A n \in Machine :
         claimTx[n].phase = "picked" /\ claimTx[n].asg = claimTx[m].asg => n = m

\* A file exists, or its row is gone or about to go.
Kept(id) == id \in files \/ \E a \in Prunable : att_asg[id] = a

\* An open upload is about a row that exists or existed, and has written its
\* file before it records it.
UploadsOfRows ==
  \A m \in Machine : upload[m].phase # "idle" =>
    /\ upload[m].attempt \in Attempt
    /\ att_status[upload[m].attempt] # "unused"
    /\ upload[m].phase = "written" =>
         att_status[upload[m].attempt] = "deleted" \/ Kept(upload[m].attempt)

TableInv == Unclaimed /\ PointsAtAttempt /\ PointedAt /\ AttemptRows

HubInv == /\ TypeOK
          /\ TableInv
          /\ PickedStaysClaimable
          /\ UploadsOfRows
          /\ EvidenceDurable

-----------------------------------------------------------------------------
(* Facts the actions share. *)

\* A terminal status is none of the other words the status columns hold.
LEMMA OutcomeStatuses ==
  Outcome \cap {"absent", "pending", "claimed", "unused", "running",
                "lease-lost", "deleted"} = {}
BY HubAssumption DEF HubAssumption, CompleteOK

\* Whatever a client reports is stored as one of the canonical results.
LEMMA NormalIsOutcome == \A st \in Reported : Normal(st) \in Outcome
<1> SUFFICES ASSUME NEW st \in Reported
             PROVE  Normal(st) \in Outcome
  OBVIOUS
<1>1. CASE st \in DOMAIN Alias
  <2>1. \A x \in DOMAIN Alias : x \notin Outcome
    BY HubAssumption DEF HubAssumption, CompleteOK, Alias
  <2>2. QED
    BY <1>1, <2>1 DEF Reported, Normal
<1>2. CASE st \notin DOMAIN Alias
  BY <1>2 DEF Reported, Normal
<1>3. QED
  BY <1>1, <1>2

LEMMA ClientCalls ==
  ASSUME NEW m \in Machine, NEW a \in Assignment, NEW id \in Attempt, ClientCall(m, a, id)
  PROVE  \/ Renew(a, m, id)
         \/ \E st \in Outcome : Complete(a, m, id, st)
         \/ UploadCheck(a, m, id)
BY NormalIsOutcome DEF ClientCall

\* The table invariants speak of the two tables only.
LEMMA TablesUnchanged ==
  ASSUME TableInv, UNCHANGED <<asgVars, attVars>>
  PROVE  TableInv'
BY DEF TableInv, Unclaimed, PointsAtAttempt, PointedAt, AttemptRows, asgVars, attVars

\* Locked rows stay claimable while neither the rows nor the locks change.
LEMMA LocksUnchanged ==
  ASSUME PickedStaysClaimable, UNCHANGED <<status, lease, claimTx>>
  PROVE  PickedStaysClaimable'
BY DEF PickedStaysClaimable, Expired

\* Uploads and evidence are undisturbed while the attempts, the files and
\* what prune may delete stay.
LEMMA EvidenceUnchanged ==
  ASSUME UploadsOfRows, EvidenceDurable, UNCHANGED <<attVars, upload, files>>,
         Prunable' = Prunable
  PROVE  UploadsOfRows' /\ EvidenceDurable'
BY DEF UploadsOfRows, EvidenceDurable, Kept, attVars

\* The row a fenced call names is the attempt that runs.
LEMMA FencedRow ==
  ASSUME HubInv, NEW a \in Assignment, NEW m \in Machine, NEW id \in Attempt,
         Fenced(a, m, id)
  PROVE  /\ att_asg[id] = a
         /\ att_machine[id] = m
         /\ att_status[id] = "running"
         /\ a \notin Prunable
BY OutcomeStatuses DEF HubInv, TableInv, PointsAtAttempt, Fenced, Prunable

LEMMA InitInv == Init => HubInv
BY HubAssumption, OutcomeStatuses
   DEF HubAssumption, Init, HubInv, TypeOK, TableInv, Unclaimed, PointsAtAttempt,
       PointedAt, AttemptRows, PickedStaysClaimable, UploadsOfRows,
       EvidenceDurable, IdleTx, IdleUpload

-----------------------------------------------------------------------------
(* Each action preserves the invariant. *)

LEMMA HeartbeatInv ==
  ASSUME HubInv, NEW m \in Machine, NEW ts \in SUBSET Tag,
         NEW r \in Reportable(m),
         Heartbeat(m, ts, r)
  PROVE  HubInv'
<1>1. TypeOK'
  BY DEF HubInv, TableInv, AttemptRows, TypeOK, Heartbeat, Reportable, asgVars, attVars
<1>2. TableInv'
  BY TablesUnchanged DEF HubInv, Heartbeat
<1>3. PickedStaysClaimable'
  BY LocksUnchanged DEF HubInv, Heartbeat, asgVars
<1>4. UploadsOfRows' /\ EvidenceDurable'
  BY EvidenceUnchanged DEF HubInv, Heartbeat, Prunable, asgVars
<1>5. QED
  BY <1>1, <1>2, <1>3, <1>4 DEF HubInv

LEMMA SetDrainedInv ==
  ASSUME HubInv, NEW m \in Machine, NEW b \in BOOLEAN,
         SetDrained(m, b)
  PROVE  HubInv'
<1>1. TypeOK'
  BY DEF HubInv, TypeOK, SetDrained, asgVars, attVars
<1>2. TableInv'
  BY TablesUnchanged DEF HubInv, SetDrained
<1>3. PickedStaysClaimable'
  BY LocksUnchanged DEF HubInv, SetDrained, asgVars
<1>4. UploadsOfRows' /\ EvidenceDurable'
  BY EvidenceUnchanged DEF HubInv, SetDrained, Prunable, asgVars
<1>5. QED
  BY <1>1, <1>2, <1>3, <1>4 DEF HubInv

LEMMA ClaimReadInv ==
  ASSUME HubInv, NEW m \in Machine,
         ClaimRead(m)
  PROVE  HubInv'
<1>1. TypeOK'
  BY DEF HubInv, TypeOK, ClaimRead, asgVars, attVars, machVars
<1>2. TableInv'
  BY TablesUnchanged DEF HubInv, ClaimRead
<1>3. PickedStaysClaimable'
  BY DEF HubInv, TypeOK, PickedStaysClaimable, Expired, ClaimRead, asgVars
<1>4. UploadsOfRows' /\ EvidenceDurable'
  BY EvidenceUnchanged DEF HubInv, ClaimRead, Prunable, asgVars
<1>5. QED
  BY <1>1, <1>2, <1>3, <1>4 DEF HubInv

LEMMA ClaimPickInv ==
  ASSUME HubInv, NEW m \in Machine, NEW a \in Assignment,
         ClaimPick(m, a)
  PROVE  HubInv'
<1>1. TypeOK'
  BY DEF HubInv, TypeOK, ClaimPick, asgVars, attVars, machVars
<1>2. TableInv'
  BY TablesUnchanged DEF HubInv, ClaimPick
<1>3. PickedStaysClaimable'
  BY DEF HubInv, TypeOK, PickedStaysClaimable, Expired, Locked, Claimable, ClaimPick, asgVars
<1>4. UploadsOfRows' /\ EvidenceDurable'
  BY EvidenceUnchanged DEF HubInv, ClaimPick, Prunable, asgVars
<1>5. QED
  BY <1>1, <1>2, <1>3, <1>4 DEF HubInv

LEMMA ClaimNoneInv ==
  ASSUME HubInv, NEW m \in Machine,
         ClaimNone(m)
  PROVE  HubInv'
<1>1. TypeOK'
  BY DEF HubInv, TypeOK, ClaimNone, IdleTx, asgVars, attVars, machVars
<1>2. TableInv'
  BY TablesUnchanged DEF HubInv, ClaimNone
<1>3. PickedStaysClaimable'
  BY DEF HubInv, TypeOK, PickedStaysClaimable, Expired, ClaimNone, IdleTx, asgVars
<1>4. UploadsOfRows' /\ EvidenceDurable'
  BY EvidenceUnchanged DEF HubInv, ClaimNone, Prunable, asgVars
<1>5. QED
  BY <1>1, <1>2, <1>3, <1>4 DEF HubInv

LEMMA ClaimAbortInv ==
  ASSUME HubInv, NEW m \in Machine,
         ClaimAbort(m)
  PROVE  HubInv'
<1>1. TypeOK'
  BY DEF HubInv, TypeOK, ClaimAbort, IdleTx, asgVars, attVars, machVars
<1>2. TableInv'
  BY TablesUnchanged DEF HubInv, ClaimAbort
<1>3. PickedStaysClaimable'
  BY DEF HubInv, TypeOK, PickedStaysClaimable, Expired, ClaimAbort, IdleTx, asgVars
<1>4. UploadsOfRows' /\ EvidenceDurable'
  BY EvidenceUnchanged DEF HubInv, ClaimAbort, Prunable, asgVars
<1>5. QED
  BY <1>1, <1>2, <1>3, <1>4 DEF HubInv

LEMMA UploadCheckInv ==
  ASSUME HubInv, NEW m \in Machine, NEW a \in Assignment,
         NEW id \in Attempt,
         UploadCheck(a, m, id)
  PROVE  HubInv'
<1>1. TypeOK'
  BY DEF HubInv, TypeOK, UploadCheck, asgVars, attVars, machVars
<1>2. TableInv'
  BY TablesUnchanged DEF HubInv, UploadCheck
<1>3. PickedStaysClaimable'
  BY LocksUnchanged DEF HubInv, UploadCheck, asgVars
<1>4. UploadsOfRows' /\ EvidenceDurable'
  BY HubAssumption, OutcomeStatuses
  DEF HubInv, HubAssumption, TypeOK, TableInv, Unclaimed, PointsAtAttempt, UploadCheck,
      UploadFence, UploadsOfRows, EvidenceDurable, Kept, Prunable, asgVars, attVars
<1>5. QED
  BY <1>1, <1>2, <1>3, <1>4 DEF HubInv

LEMMA UploadWriteInv ==
  ASSUME HubInv, NEW m \in Machine,
         UploadWrite(m)
  PROVE  HubInv'
<1>1. TypeOK'
  BY DEF HubInv, TypeOK, UploadsOfRows, UploadWrite, asgVars, attVars, machVars
<1>2. TableInv'
  BY TablesUnchanged DEF HubInv, UploadWrite
<1>3. PickedStaysClaimable'
  BY LocksUnchanged DEF HubInv, UploadWrite, asgVars
<1>4. UploadsOfRows' /\ EvidenceDurable'
  BY DEF HubInv, TypeOK, UploadWrite, UploadsOfRows, EvidenceDurable, Kept, Prunable,
         asgVars, attVars
<1>5. QED
  BY <1>1, <1>2, <1>3, <1>4 DEF HubInv

LEMMA UploadAbortInv ==
  ASSUME HubInv, NEW m \in Machine,
         UploadAbort(m)
  PROVE  HubInv'
<1>1. TypeOK'
  BY DEF HubInv, TypeOK, UploadAbort, IdleUpload, asgVars, attVars, machVars
<1>2. TableInv'
  BY TablesUnchanged DEF HubInv, UploadAbort
<1>3. PickedStaysClaimable'
  BY LocksUnchanged DEF HubInv, UploadAbort, asgVars
<1>4. UploadsOfRows' /\ EvidenceDurable'
  BY DEF HubInv, TypeOK, UploadAbort, IdleUpload, UploadsOfRows, EvidenceDurable,
         Kept, Prunable, asgVars, attVars
<1>5. QED
  BY <1>1, <1>2, <1>3, <1>4 DEF HubInv

LEMMA PruneAbortInv ==
  ASSUME HubInv,
         PruneAbort
  PROVE  HubInv'
<1>1. TypeOK'
  BY DEF HubInv, TypeOK, PruneAbort, asgVars, attVars, machVars
<1>2. TableInv'
  BY TablesUnchanged DEF HubInv, PruneAbort
<1>3. PickedStaysClaimable'
  BY LocksUnchanged DEF HubInv, PruneAbort, asgVars
<1>4. UploadsOfRows' /\ EvidenceDurable'
  BY DEF HubInv, TypeOK, PruneAbort, UploadsOfRows, EvidenceDurable, Kept, Prunable,
         asgVars, attVars
<1>5. QED
  BY <1>1, <1>2, <1>3, <1>4 DEF HubInv

LEMMA EnqueueInv ==
  ASSUME HubInv, NEW a \in Assignment, Enqueue(a)
  PROVE  HubInv'
<1>1. TypeOK'
  BY DEF HubInv, TypeOK, Enqueue, attVars, machVars
<1>2. TableInv'
  BY OutcomeStatuses
  DEF HubInv, TypeOK, TableInv, Unclaimed, PointsAtAttempt, PointedAt, AttemptRows,
      Enqueue, attVars
<1>3. PickedStaysClaimable'
  BY DEF HubInv, TypeOK, PickedStaysClaimable, Expired, Enqueue
<1>4. Prunable' = Prunable
  BY OutcomeStatuses DEF HubInv, TypeOK, Prunable, Enqueue
<1>5. UploadsOfRows' /\ EvidenceDurable'
  BY <1>4, EvidenceUnchanged DEF HubInv, Enqueue
<1>6. QED
  BY <1>1, <1>2, <1>3, <1>5 DEF HubInv

LEMMA RenewInv ==
  ASSUME HubInv, NEW m \in Machine, NEW a \in Assignment, NEW id \in Attempt,
         Renew(a, m, id)
  PROVE  HubInv'
<1>1. TypeOK'
  <2>1. LeaseSeconds[a] \in Int
    BY HubAssumption DEF HubAssumption
  <2>2. lease' \in [Assignment -> Int]
    BY <2>1 DEF HubInv, TypeOK, Renew
  <2>3. QED
    BY <2>2 DEF HubInv, TypeOK, Renew, attVars, machVars
<1>2. TableInv'
  BY DEF HubInv, TableInv, Unclaimed, PointsAtAttempt, PointedAt, AttemptRows,
         Renew, attVars
<1>3. PickedStaysClaimable'
  BY DEF HubInv, TypeOK, PickedStaysClaimable, Expired, Locked, Renew
<1>4. UploadsOfRows' /\ EvidenceDurable'
  BY EvidenceUnchanged DEF HubInv, Prunable, Renew
<1>5. QED
  BY <1>1, <1>2, <1>3, <1>4 DEF HubInv

LEMMA ClaimCommitInv ==
  ASSUME HubInv, NEW m \in Machine, NEW a \in Assignment, NEW id \in Attempt,
         ClaimCommit(m, a, id)
  PROVE  HubInv'
<1> USE OutcomeStatuses
<1>1. status[a] \in {"pending", "claimed"}
  BY DEF HubInv, PickedStaysClaimable, Expired, ClaimCommit
<1>2. att_asg[id] = None /\ ~evidence[id]
  BY DEF HubInv, TableInv, AttemptRows, ClaimCommit
<1>3. Prunable' = Prunable /\ a \notin Prunable
  BY <1>1 DEF HubInv, TypeOK, Prunable, ClaimCommit
<1>4. att_status' \in [Attempt -> {"unused", "running", "lease-lost", "deleted"}
                                    \cup Outcome]
  BY DEF HubInv, TypeOK, ClaimCommit
<1>5. TypeOK'
  <2>1. LeaseSeconds[a] \in Int
    BY HubAssumption DEF HubAssumption
  <2>2. lease' \in [Assignment -> Int] /\ age' \in [Assignment -> Nat]
    BY <2>1 DEF HubInv, TypeOK, ClaimCommit
  <2>3. QED
    BY <1>4, <2>2 DEF HubInv, TypeOK, ClaimCommit, IdleTx
<1>6. TableInv'
  <2>1. Unclaimed'
    BY DEF HubInv, TypeOK, TableInv, Unclaimed, ClaimCommit
  <2>2. PointsAtAttempt'
    BY DEF HubInv, TypeOK, TableInv, PointsAtAttempt, PointedAt, AttemptRows,
           ClaimCommit, Superseded
  <2>3. PointedAt'
    <3> SUFFICES ASSUME NEW i \in Attempt, att_status'[i] \in {"running"} \cup Outcome
                 PROVE  att_asg'[i] \in Assignment /\ attempt_id'[att_asg'[i]] = i
      BY DEF PointedAt
    <3>1. CASE i = id
      BY <3>1 DEF HubInv, TypeOK, ClaimCommit
    <3>2. CASE i # id
      <4>1. att_asg'[i] = att_asg[i] /\ att_status'[i] = att_status[i] /\ i \notin Superseded(a)
        BY <3>2 DEF HubInv, TypeOK, ClaimCommit
      <4>2. att_asg[i] \in Assignment /\ attempt_id[att_asg[i]] = i
        BY <4>1 DEF HubInv, TableInv, PointedAt
      <4>3. att_asg[i] # a
        BY <1>1, <4>1, <4>2, HubAssumption
        DEF HubAssumption, HubInv, TableInv, Unclaimed, PointsAtAttempt, Superseded
      <4>4. QED
        BY <4>1, <4>2, <4>3 DEF HubInv, TypeOK, ClaimCommit
    <3>3. QED
      BY <3>1, <3>2
  <2>4. AttemptRows'
    BY <1>2 DEF HubInv, TypeOK, TableInv, AttemptRows, ClaimCommit, Superseded
  <2>5. QED
    BY <2>1, <2>2, <2>3, <2>4 DEF TableInv
<1>7. PickedStaysClaimable'
  BY DEF HubInv, TypeOK, PickedStaysClaimable, Expired, ClaimCommit, IdleTx
<1>8. \A i \in Attempt : i # id => att_asg'[i] = att_asg[i]
  BY DEF HubInv, TypeOK, ClaimCommit
<1>9. \A i \in Attempt : i # id => (Kept(i) <=> Kept(i)')
  BY <1>3, <1>8 DEF Kept, ClaimCommit
<1>10. UploadsOfRows'
  <2>1. \A i \in Attempt : att_status[i] # "unused" =>
          i # id /\ att_status'[i] # "unused"
                 /\ (att_status[i] = "deleted" => att_status'[i] = "deleted")
    BY DEF HubInv, TypeOK, ClaimCommit, Superseded
  <2>2. QED
    BY <1>9, <2>1 DEF HubInv, UploadsOfRows, ClaimCommit
<1>11. EvidenceDurable'
  BY <1>2, <1>3, <1>8 DEF HubInv, EvidenceDurable, ClaimCommit
<1>12. QED
  BY <1>5, <1>6, <1>7, <1>10, <1>11 DEF HubInv

LEMMA CompleteInv ==
  ASSUME HubInv, NEW m \in Machine, NEW a \in Assignment, NEW id \in Attempt,
         NEW st \in Outcome, Complete(a, m, id, st)
  PROVE  HubInv'
<1> USE OutcomeStatuses
<1>1. /\ att_asg[id] = a
      /\ att_status[id] = "running"
      /\ a \notin Prunable
  BY FencedRow DEF Complete, WithResult
<1>2. Prunable' = Prunable
  BY <1>1, HubAssumption DEF HubAssumption, HubInv, TypeOK, Prunable, Complete, WithResult
<1>3. TypeOK'
  BY DEF HubInv, TypeOK, Complete, WithResult
<1>4. TableInv'
  <2>1. Unclaimed'
    BY DEF HubInv, TypeOK, TableInv, Unclaimed, Complete, WithResult
  <2>2. PointsAtAttempt'
    BY <1>1 DEF HubInv, TypeOK, TableInv, PointsAtAttempt, Complete, WithResult, Fenced
  <2>3. PointedAt'
    BY <1>1 DEF HubInv, TypeOK, TableInv, PointedAt, Complete, WithResult, Fenced
  <2>4. AttemptRows'
    BY <1>1 DEF HubInv, TypeOK, TableInv, AttemptRows, Complete, WithResult
  <2>5. QED
    BY <2>1, <2>2, <2>3, <2>4 DEF TableInv
<1>5. PickedStaysClaimable'
  BY DEF HubInv, TypeOK, PickedStaysClaimable, Expired, Locked, Complete, WithResult, Fenced
<1>6. \A i \in Attempt : Kept(i) <=> Kept(i)'
  BY <1>2 DEF Kept, Complete, WithResult
<1>7. UploadsOfRows'
  <2>1. \A i \in Attempt : att_status[i] # "unused" => att_status'[i] # "unused"
    BY DEF HubInv, TypeOK, Complete, WithResult
  <2>2. \A i \in Attempt : att_status[i] = "deleted" => att_status'[i] = "deleted"
    BY <1>1 DEF HubInv, TypeOK, Complete, WithResult
  <2>3. QED
    BY <1>6, <2>1, <2>2 DEF HubInv, UploadsOfRows, Complete, WithResult
<1>8. EvidenceDurable'
  BY <1>2 DEF HubInv, EvidenceDurable, Complete, WithResult
<1>9. QED
  BY <1>3, <1>4, <1>5, <1>7, <1>8 DEF HubInv

LEMMA UploadCommitInv ==
  ASSUME HubInv, NEW m \in Machine, UploadCommit(m)
  PROVE  HubInv'
<1>1. /\ upload[m].attempt \in Attempt
      /\ att_status[upload[m].attempt] # "unused"
      /\ att_status[upload[m].attempt] = "deleted" \/ Kept(upload[m].attempt)
  BY DEF HubInv, UploadsOfRows, UploadCommit
<1>2. TypeOK'
  BY <1>1 DEF HubInv, TypeOK, UploadCommit, IdleUpload, asgVars, machVars
<1>3. TableInv'
  BY <1>1 DEF HubInv, TypeOK, TableInv, Unclaimed, PointsAtAttempt, PointedAt,
              AttemptRows, UploadCommit, asgVars
<1>4. PickedStaysClaimable'
  BY LocksUnchanged DEF HubInv, UploadCommit, asgVars
<1>5. UploadsOfRows'
  BY DEF HubInv, TypeOK, UploadsOfRows, UploadCommit, IdleUpload, Kept, Prunable, asgVars
<1>6. EvidenceDurable'
  BY <1>1 DEF HubInv, TypeOK, EvidenceDurable, UploadCommit, Kept, Prunable, asgVars
<1>7. QED
  BY <1>2, <1>3, <1>4, <1>5, <1>6 DEF HubInv

LEMMA PruneInv ==
  ASSUME HubInv, Prune
  PROVE  HubInv'
<1> USE OutcomeStatuses
<1>1. \A a \in Prunable : a \in Assignment /\ status[a] \in Outcome
  BY DEF Prunable
<1>2. Prunable' = {}
  BY DEF HubInv, TypeOK, Prune, Prunable
<1>3. TypeOK'
  BY DEF HubInv, TypeOK, Prune, machVars
<1>4. TableInv'
  <2>1. Unclaimed'
    BY DEF HubInv, TypeOK, TableInv, Unclaimed, Prune
  <2>2. PointsAtAttempt'
    BY DEF HubInv, TypeOK, TableInv, PointsAtAttempt, Prune
  <2>3. PointedAt'
    BY DEF HubInv, TypeOK, TableInv, PointedAt, Prune
  <2>4. AttemptRows'
    <3> SUFFICES ASSUME NEW id \in Attempt
                 PROVE  /\ att_status'[id] = "unused" => att_asg'[id] = None
                        /\ att_status'[id] # "unused" =>
                             att_asg'[id] \in Assignment /\ att_machine'[id] \in Machine
                        /\ evidence'[id] => att_status'[id] \notin {"unused", "deleted"}
      BY DEF AttemptRows
    <3>1. evidence'[id] => evidence[id] /\ att_asg[id] \notin Prunable
      BY DEF Prune
    <3>2. att_status'[id] = IF att_asg[id] \in Prunable THEN "deleted" ELSE att_status[id]
      BY DEF Prune
    <3>3. att_asg[id] \in Prunable => att_status[id] # "unused"
      BY <1>1, HubAssumption DEF HubAssumption, HubInv, TableInv, AttemptRows
    <3>4. QED
      BY <3>1, <3>2, <3>3 DEF HubInv, TableInv, AttemptRows, Prune
  <2>5. QED
    BY <2>1, <2>2, <2>3, <2>4 DEF TableInv
<1>5. PickedStaysClaimable'
  BY <1>1 DEF HubInv, TypeOK, PickedStaysClaimable, Expired, Prune
<1>6. UploadsOfRows'
  BY DEF HubInv, TypeOK, UploadsOfRows, Kept, Prune
<1>7. EvidenceDurable'
  <2> SUFFICES ASSUME NEW id \in Attempt, evidence'[id]
               PROVE  id \in files'
    BY DEF EvidenceDurable
  <2>1. evidence[id] /\ att_asg[id] \notin Prunable
    BY DEF Prune
  <2>2. QED
    BY <2>1 DEF HubInv, EvidenceDurable, Prune
<1>8. QED
  BY <1>3, <1>4, <1>5, <1>6, <1>7 DEF HubInv

LEMMA TickInv ==
  ASSUME HubInv, Tick
  PROVE  HubInv'
<1>1. TypeOK'
  BY HubAssumption DEF HubAssumption, HubInv, TypeOK, Tick, attVars, machVars
<1>2. TableInv'
  BY DEF HubInv, TableInv, Unclaimed, PointsAtAttempt, PointedAt, AttemptRows, Tick, attVars
<1>3. PickedStaysClaimable'
  BY DEF HubInv, TypeOK, PickedStaysClaimable, Expired, Tick
<1>4. Prunable \subseteq Prunable'
  BY HubAssumption DEF HubAssumption, HubInv, TypeOK, Prunable, Tick
<1>5. UploadsOfRows' /\ EvidenceDurable'
  BY <1>4 DEF HubInv, UploadsOfRows, EvidenceDurable, Kept, Tick, attVars
<1>6. QED
  BY <1>1, <1>2, <1>3, <1>5 DEF HubInv

LEMMA StutterInv ==
  ASSUME HubInv, UNCHANGED hubVars
  PROVE  HubInv'
BY DEF HubInv, TypeOK, TableInv, Unclaimed, PointsAtAttempt, PointedAt, AttemptRows,
       PickedStaysClaimable, Expired, UploadsOfRows, EvidenceDurable, Kept, Prunable, hubVars

LEMMA NextInv == HubInv /\ [Next]_hubVars => HubInv'
<1> SUFFICES ASSUME HubInv, [Next]_hubVars
             PROVE  HubInv'
  OBVIOUS
<1>1. CASE UNCHANGED hubVars
  BY <1>1, StutterInv
<1>2. CASE \E m \in Machine, ts \in SUBSET Tag : \E r \in Reportable(m) : Heartbeat(m, ts, r)
  BY <1>2, HeartbeatInv
<1>3. CASE \E m \in Machine, b \in BOOLEAN : SetDrained(m, b)
  BY <1>3, SetDrainedInv
<1>4. CASE \E a \in Assignment : Enqueue(a)
  BY <1>4, EnqueueInv
<1>5. CASE \E m \in Machine : ClaimRead(m) \/ ClaimNone(m) \/ ClaimAbort(m)
  BY <1>5, ClaimReadInv, ClaimNoneInv, ClaimAbortInv
<1>6. CASE \E m \in Machine, a \in Assignment : ClaimPick(m, a)
  BY <1>6, ClaimPickInv
<1>7. CASE \E m \in Machine, a \in Assignment, id \in Attempt : ClaimCommit(m, a, id)
  BY <1>7, ClaimCommitInv
<1>8. CASE \E m \in Machine, a \in Assignment, id \in Attempt : ClientCall(m, a, id)
  BY <1>8, ClientCalls, RenewInv, CompleteInv, UploadCheckInv
<1>9. CASE \E m \in Machine : UploadWrite(m) \/ UploadCommit(m) \/ UploadAbort(m)
  BY <1>9, UploadWriteInv, UploadCommitInv, UploadAbortInv
<1>10. CASE Prune \/ PruneAbort
  BY <1>10, PruneInv, PruneAbortInv
<1>11. CASE Tick
  BY <1>11, TickInv
<1>12. QED
  BY <1>1, <1>2, <1>3, <1>4, <1>5, <1>6, <1>7, <1>8, <1>9, <1>10, <1>11 DEF Next

LEMMA Invariance == Spec => []HubInv
BY InitInv, NextInv, PTL DEF Spec

-----------------------------------------------------------------------------
(* What follows for every behaviour of the store. *)

\* Every column keeps its type.
THEOREM TypeCorrect == Spec => []TypeOK
<1>1. HubInv => TypeOK
  BY DEF HubInv
<1>2. QED
  BY <1>1, Invariance, PTL

\* The rows of a running attempt and of the Assignment that points at it agree.
LEMMA HubInvIsFenced == HubInv => RunningIsFenced
<1> SUFFICES ASSUME HubInv, NEW id \in Attempt
             PROVE  att_status[id] = "running" <=>
                      \E a \in Assignment : /\ Fenced(a, att_machine[id], id)
                                            /\ att_asg[id] = a
  BY DEF RunningIsFenced
<1>1. ASSUME att_status[id] = "running"
      PROVE  \E a \in Assignment : Fenced(a, att_machine[id], id) /\ att_asg[id] = a
  <2>1. att_asg[id] \in Assignment /\ attempt_id[att_asg[id]] = id
    BY <1>1 DEF HubInv, TableInv, PointedAt
  <2>2. status[att_asg[id]] \notin {"absent", "pending"}
    BY <2>1, HubAssumption DEF HubAssumption, HubInv, TableInv, Unclaimed
  <2>3. status[att_asg[id]] = "claimed"
    BY <1>1, <2>1, <2>2, OutcomeStatuses DEF HubInv, TypeOK, TableInv, PointsAtAttempt
  <2>4. QED
    BY <2>1, <2>2, <2>3 DEF Fenced, HubInv, TableInv, PointsAtAttempt
<1>2. ASSUME NEW a \in Assignment, Fenced(a, att_machine[id], id), att_asg[id] = a
      PROVE  att_status[id] = "running"
  BY <1>2 DEF Fenced, HubInv, TableInv, PointsAtAttempt
<1>3. QED
  BY <1>1, <1>2

\* An attempt row is running exactly when a claimed Assignment row points at it.
THEOREM TablesAgree == Spec => []RunningIsFenced
  BY HubInvIsFenced, Invariance, PTL

\* At most one attempt of an Assignment runs.
THEOREM AtMostOneRunner == Spec => []OneRunner
<1>1. HubInv => OneRunner
  BY DEF HubInv, TableInv, PointedAt, OneRunner
<1>2. QED
  BY <1>1, Invariance, PTL

\* An Assignment has at most one result, and both tables hold it.
THEOREM OneResult == Spec => []SingleResult
<1>1. HubInv => SingleResult
  <2> SUFFICES ASSUME HubInv, NEW id \in Attempt, att_status[id] \in Outcome
               PROVE  \E a \in Assignment : /\ att_asg[id] = a
                                            /\ attempt_id[a] = id
                                            /\ claimed_by[a] = att_machine[id]
                                            /\ status[a] = att_status[id]
    BY DEF SingleResult
  <2>1. att_asg[id] \in Assignment /\ attempt_id[att_asg[id]] = id
    BY DEF HubInv, TableInv, PointedAt
  <2>2. status[att_asg[id]] \notin {"absent", "pending"}
    BY <2>1, HubAssumption DEF HubAssumption, HubInv, TableInv, Unclaimed
  <2>3. QED
    BY <2>1, <2>2, OutcomeStatuses DEF HubInv, TableInv, PointsAtAttempt
<1>2. QED
  BY <1>1, Invariance, PTL

\* Recorded evidence stays on disk until its Assignment is past retention.
THEOREM EvidenceStays == Spec => []EvidenceDurable
<1>1. HubInv => EvidenceDurable
  BY DEF HubInv
<1>2. QED
  BY <1>1, Invariance, PTL

-----------------------------------------------------------------------------
(* What no step may do. *)

\* Which steps touch the status columns and the attempts: only these.
LEMMA WritersOfTheTables ==
  ASSUME [Next]_hubVars
  PROVE  \/ UNCHANGED <<status, attempt_id, att_status, att_asg>>
         \/ \E a \in Assignment : Enqueue(a)
         \/ \E m \in Machine, a \in Assignment, id \in Attempt : ClaimCommit(m, a, id)
         \/ \E m \in Machine, a \in Assignment, id \in Attempt, st \in Outcome :
              Complete(a, m, id, st)
         \/ Prune
<1>1. CASE UNCHANGED hubVars
  BY <1>1 DEF hubVars
<1>2. CASE \E m \in Machine, ts \in SUBSET Tag : \E r \in Reportable(m) : Heartbeat(m, ts, r)
  BY <1>2 DEF Heartbeat, asgVars, attVars
<1>3. CASE \E m \in Machine, b \in BOOLEAN : SetDrained(m, b)
  BY <1>3 DEF SetDrained, asgVars, attVars
<1>4. CASE \E m \in Machine : ClaimRead(m) \/ ClaimNone(m) \/ ClaimAbort(m)
  BY <1>4 DEF ClaimRead, ClaimNone, ClaimAbort, asgVars, attVars
<1>5. CASE \E m \in Machine, a \in Assignment : ClaimPick(m, a)
  BY <1>5 DEF ClaimPick, asgVars, attVars
<1>6. CASE \E m \in Machine, a \in Assignment, id \in Attempt : ClientCall(m, a, id)
  BY <1>6, ClientCalls DEF Renew, UploadCheck, asgVars, attVars
<1>7. CASE \E m \in Machine : UploadWrite(m) \/ UploadCommit(m) \/ UploadAbort(m)
  BY <1>7 DEF UploadWrite, UploadCommit, UploadAbort, asgVars, attVars
<1>8. CASE PruneAbort \/ Tick
  BY <1>8 DEF PruneAbort, Tick, asgVars, attVars
<1>9. QED
  BY <1>1, <1>2, <1>3, <1>4, <1>5, <1>6, <1>7, <1>8 DEF Next

\* A lease-lost attempt never produces a result.
THEOREM LostStaysLost == Spec => FencedOff
<1>1. ASSUME HubInv, [Next]_hubVars, NEW i \in Attempt, att_status[i] = "lease-lost"
      PROVE  att_status'[i] \in {"lease-lost", "deleted"}
  <2>1. CASE UNCHANGED <<status, attempt_id, att_status, att_asg>>
    BY <1>1, <2>1
  <2>2. CASE \E a \in Assignment : Enqueue(a)
    BY <1>1, <2>2 DEF Enqueue, attVars
  <2>3. CASE \E m \in Machine, a \in Assignment, id \in Attempt : ClaimCommit(m, a, id)
    BY <1>1, <2>3 DEF ClaimCommit, Superseded
  <2>4. ASSUME NEW m \in Machine, NEW a \in Assignment, NEW id \in Attempt,
               NEW st \in Outcome, Complete(a, m, id, st)
        PROVE  att_status'[i] \in {"lease-lost", "deleted"}
    <3>1. att_status[id] = "running"
      BY <1>1, <2>4, FencedRow DEF Complete, WithResult
    <3>2. QED
      BY <1>1, <2>4, <3>1 DEF Complete, WithResult, HubInv, TypeOK
  <2>5. CASE Prune
    BY <1>1, <2>5 DEF Prune
  <2>6. QED
    BY <1>1, <2>1, <2>2, <2>3, <2>4, <2>5, WritersOfTheTables
<1>2. HubInv /\ [Next]_hubVars =>
        [\A id \in Attempt : att_status[id] = "lease-lost" =>
           att_status'[id] \in {"lease-lost", "deleted"}]_hubVars
  BY <1>1
<1>3. QED
  BY <1>2, Invariance, PTL DEF Spec, FencedOff

\* A claim passes to another attempt only when its lease has lapsed.
THEOREM LeaseProtectsClaim == Spec => NoEarlyReclaim
<1>1. ASSUME HubInv, [Next]_hubVars, NEW a \in Assignment,
             status[a] = "claimed", attempt_id'[a] # attempt_id[a]
      PROVE  lease[a] < 0
  <2> USE OutcomeStatuses
  <2>1. CASE UNCHANGED <<status, attempt_id, att_status, att_asg>>
    BY <1>1, <2>1
  <2>2. CASE \E b \in Assignment : Enqueue(b)
    BY <1>1, <2>2 DEF Enqueue
  <2>3. ASSUME NEW m \in Machine, NEW b \in Assignment, NEW id \in Attempt,
               ClaimCommit(m, b, id)
        PROVE  lease[a] < 0
    <3>1. a = b
      BY <1>1, <2>3 DEF ClaimCommit, HubInv, TypeOK
    <3>2. QED
      BY <1>1, <2>3, <3>1 DEF ClaimCommit, HubInv, PickedStaysClaimable, Expired
  <2>4. CASE \E m \in Machine, b \in Assignment, id \in Attempt, st \in Outcome :
               Complete(b, m, id, st)
    BY <1>1, <2>4 DEF Complete, WithResult
  <2>5. CASE Prune
    BY <1>1, <2>5 DEF Prune, Prunable
  <2>6. QED
    BY <1>1, <2>1, <2>2, <2>3, <2>4, <2>5, WritersOfTheTables
<1>2. HubInv /\ [Next]_hubVars =>
        [\A a \in Assignment :
           status[a] = "claimed" /\ attempt_id'[a] # attempt_id[a] => lease[a] < 0]_hubVars
  BY <1>1
<1>3. QED
  BY <1>2, Invariance, PTL DEF Spec, NoEarlyReclaim

\* A result is never rewritten, and only prune removes it, after retention.
THEOREM ResultsAreFinal == Spec => ResultsKept
<1>1. ASSUME HubInv, [Next]_hubVars, NEW a \in Assignment, status[a] \in Outcome
      PROVE  \/ status'[a] = status[a] /\ attempt_id'[a] = attempt_id[a]
             \/ status'[a] = "absent" /\ age[a] > Retention
  <2> USE OutcomeStatuses
  <2>1. CASE UNCHANGED <<status, attempt_id, att_status, att_asg>>
    BY <2>1
  <2>2. CASE \E b \in Assignment : Enqueue(b)
    BY <1>1, <2>2 DEF Enqueue, HubInv, TypeOK
  <2>3. ASSUME NEW m \in Machine, NEW b \in Assignment, NEW id \in Attempt,
               ClaimCommit(m, b, id)
        PROVE  status'[a] = status[a] /\ attempt_id'[a] = attempt_id[a]
    <3>1. a # b
      BY <1>1, <2>3 DEF ClaimCommit, HubInv, PickedStaysClaimable, Expired
    <3>2. QED
      BY <2>3, <3>1 DEF ClaimCommit, HubInv, TypeOK
  <2>4. CASE \E m \in Machine, b \in Assignment, id \in Attempt, st \in Outcome :
               Complete(b, m, id, st)
    BY <1>1, <2>4 DEF Complete, WithResult, Fenced, HubInv, TypeOK
  <2>5. CASE Prune
    BY <1>1, <2>5 DEF Prune, Prunable
  <2>6. QED
    BY <1>1, <2>1, <2>2, <2>3, <2>4, <2>5, WritersOfTheTables
<1>2. HubInv /\ [Next]_hubVars =>
        [\A a \in Assignment : status[a] \in Outcome =>
           \/ status'[a] = status[a] /\ attempt_id'[a] = attempt_id[a]
           \/ status'[a] = "absent" /\ age[a] > Retention]_hubVars
  BY <1>1
<1>3. QED
  BY <1>2, Invariance, PTL DEF Spec, ResultsKept

-----------------------------------------------------------------------------
(* The store implements the ledger. *)

LEMMA EnqueueSubmits ==
  ASSUME HubInv, NEW a \in Assignment, Enqueue(a)
  PROVE  Ledger!Submit(a)
BY OutcomeStatuses
   DEF HubInv, TypeOK, Enqueue, attVars, Ledger!Submit, LedgerPhase, LedgerFate

LEMMA ClaimGrants ==
  ASSUME HubInv, NEW m \in Machine, NEW a \in Assignment, NEW id \in Attempt,
         ClaimCommit(m, a, id)
  PROVE  Ledger!Grant(a, id)
<1> USE OutcomeStatuses
<1>1. status[a] \in {"pending", "claimed"}
  BY DEF HubInv, PickedStaysClaimable, Expired, ClaimCommit
<1>2. LedgerPhase[a] \in {"open", "held"} /\ LedgerFate[id] = "fresh"
  BY <1>1 DEF ClaimCommit, LedgerPhase, LedgerFate
<1>3. LedgerPhase' = [LedgerPhase EXCEPT ![a] = "held"]
  BY DEF HubInv, TypeOK, ClaimCommit, LedgerPhase
<1>4. LedgerFate' = [i \in Attempt |->
                       CASE i = id -> "live"
                         [] i # id /\ LedgerFate[i] = "live" /\ att_asg[i] = a -> "lost"
                         [] OTHER -> LedgerFate[i]]
  BY DEF HubInv, TypeOK, ClaimCommit, Superseded, LedgerFate
<1>5. QED
  BY <1>2, <1>3, <1>4 DEF Ledger!Grant, ClaimCommit

LEMMA CompleteSettles ==
  ASSUME HubInv, NEW m \in Machine, NEW a \in Assignment, NEW id \in Attempt,
         NEW st \in Outcome, Complete(a, m, id, st)
  PROVE  Ledger!Settle(a, id)
<1> USE OutcomeStatuses
<1>1. att_asg[id] = a /\ att_status[id] = "running"
  BY FencedRow DEF Complete, WithResult
<1>2. LedgerPhase[a] = "held" /\ LedgerFate[id] = "live"
  BY <1>1 DEF Complete, WithResult, Fenced, LedgerPhase, LedgerFate
<1>3. LedgerPhase' = [LedgerPhase EXCEPT ![a] = "done"]
  BY DEF HubInv, TypeOK, Complete, WithResult, LedgerPhase
<1>4. LedgerFate' = [LedgerFate EXCEPT ![id] = "won"]
  BY DEF HubInv, TypeOK, Complete, WithResult, LedgerFate
<1>5. QED
  BY <1>1, <1>2, <1>3, <1>4 DEF Ledger!Settle, Complete, WithResult

LEMMA PruneWithdraws ==
  ASSUME HubInv, Prune
  PROVE  Ledger!Withdraw(Prunable)
<1> USE OutcomeStatuses
<1>1. \A a \in Prunable : LedgerPhase[a] = "done"
  BY DEF Prunable, LedgerPhase
<1>2. LedgerPhase' = [a \in Assignment |-> IF a \in Prunable THEN "none" ELSE LedgerPhase[a]]
  BY DEF Prune, LedgerPhase
<1>3. LedgerFate' = [id \in Attempt |->
                       IF att_asg[id] \in Prunable THEN "gone" ELSE LedgerFate[id]]
  BY DEF Prune, LedgerFate
<1>4. QED
  BY <1>1, <1>2, <1>3 DEF Ledger!Withdraw, Prune

\* Every behaviour of the store, seen through the mapping, is one of the
\* ledger: each step submits, grants, settles, withdraws or does nothing.
THEOREM StoreImplementsLedger == Spec => ImplementsLedger
<1>1. Init => Ledger!LedgerInit
  BY DEF Init, Ledger!LedgerInit, LedgerPhase, LedgerFate
<1>2. ASSUME HubInv, [Next]_hubVars
      PROVE  [Ledger!LedgerNext]_(Ledger!ledgerVars)
  <2>1. CASE UNCHANGED <<status, attempt_id, att_status, att_asg>>
    BY <2>1 DEF Ledger!ledgerVars, LedgerPhase, LedgerFate
  <2>2. CASE \E a \in Assignment : Enqueue(a)
    BY <1>2, <2>2, EnqueueSubmits DEF Ledger!LedgerNext
  <2>3. CASE \E m \in Machine, a \in Assignment, id \in Attempt : ClaimCommit(m, a, id)
    BY <1>2, <2>3, ClaimGrants DEF Ledger!LedgerNext
  <2>4. CASE \E m \in Machine, a \in Assignment, id \in Attempt, st \in Outcome :
               Complete(a, m, id, st)
    BY <1>2, <2>4, CompleteSettles DEF Ledger!LedgerNext
  <2>5. CASE Prune
    <3>1. Prunable \in SUBSET Assignment
      BY DEF Prunable
    <3>2. QED
      BY <1>2, <2>5, <3>1, PruneWithdraws DEF Ledger!LedgerNext
  <2>6. QED
    BY <1>2, <2>1, <2>2, <2>3, <2>4, <2>5, WritersOfTheTables
<1>3. QED
  BY <1>1, <1>2, Invariance, PTL DEF Spec, ImplementsLedger, Ledger!LedgerSpec
=============================================================================
