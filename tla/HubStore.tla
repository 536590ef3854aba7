------------------------------ MODULE HubStore ------------------------------
(***************************************************************************)
(* The hub's Assignment store: the assignments, attempts and machines      *)
(* tables of db.py, the handlers of store.py that change them, and the     *)
(* evidence files beside the database.  One variable per column that a     *)
(* guard or a property reads.                                              *)
(*                                                                         *)
(* A handler whose reads and writes are one SQL statement, or whose first  *)
(* write locks the row that every other writer of it needs, is one action. *)
(* claim and put_evidence read before they lock, so they are several       *)
(* actions and other handlers run in between.                              *)
(*                                                                         *)
(* Time is relative: lease[a] is lease_until - now() and age[a] is         *)
(* now() - finished_at, and Tick moves both by one unit.                   *)
(***************************************************************************)
EXTENDS Integers

CONSTANTS
  Machine,        \* enrolled machines
  Assignment,     \* Assignment ids (uuid4, or chosen by the enqueuing client)
  Attempt,        \* attempt ids: uuid4 values, never drawn twice
  Tag,            \* machine tags
  RequiredTags,   \* required_tags of an Assignment
  LeaseSeconds,   \* lease_seconds of an Assignment
  Retention,      \* prune_old's days
  Outcome,        \* the terminal statuses a client reports
  None            \* SQL NULL

CompleteOK == {"succeeded", "failed", "error", "timeout"}

ASSUME HubAssumption ==
  /\ None \notin Machine \cup Assignment \cup Attempt
  /\ RequiredTags \in [Assignment -> SUBSET Tag]
  /\ LeaseSeconds \in [Assignment -> Nat \ {0}]
  /\ Retention \in Nat
  /\ Outcome \subseteq CompleteOK

VARIABLES
  status, claimed_by, attempt_id, lease, age,  \* assignments
  before,                                      \* their order by created_at
  att_status, att_asg, att_machine, evidence,  \* attempts
  known, drained, tags, running,               \* machines
  claimTx,                                     \* open claim transactions
  upload,                                      \* open put_evidence calls
  files                                        \* evidence zips on disk

asgVars == <<status, claimed_by, attempt_id, lease, age, before>>
attVars == <<att_status, att_asg, att_machine, evidence>>
machVars == <<known, drained, tags, running>>
hubVars == <<status, claimed_by, attempt_id, lease, age, before,
             att_status, att_asg, att_machine, evidence,
             known, drained, tags, running, claimTx, upload, files>>

IdleTx == [phase |-> "idle", tags |-> {}, asg |-> None]
IdleUpload == [phase |-> "idle", attempt |-> None]

TypeOK ==
  /\ status \in [Assignment -> {"absent", "pending", "claimed"} \cup Outcome]
  /\ claimed_by \in [Assignment -> Machine \cup {None}]
  /\ attempt_id \in [Assignment -> Attempt \cup {None}]
  /\ lease \in [Assignment -> Int]
  /\ age \in [Assignment -> Nat]
  /\ before \in SUBSET (Assignment \X Assignment)
  /\ att_status \in [Attempt -> {"unused", "running", "lease-lost", "deleted"}
                                  \cup Outcome]
  /\ att_asg \in [Attempt -> Assignment \cup {None}]
  /\ att_machine \in [Attempt -> Machine \cup {None}]
  /\ evidence \in [Attempt -> BOOLEAN]
  /\ known \in [Machine -> BOOLEAN]
  /\ drained \in [Machine -> BOOLEAN]
  /\ tags \in [Machine -> SUBSET Tag]
  /\ running \in [Machine -> Assignment \cup {None}]
  /\ claimTx \in [Machine -> [phase : {"idle", "read", "picked"},
                              tags : SUBSET Tag,
                              asg : Assignment \cup {None}]]
  /\ upload \in [Machine -> [phase : {"idle", "checked", "written"},
                             attempt : Attempt \cup {None}]]
  /\ files \in SUBSET Attempt

Init ==
  /\ status = [a \in Assignment |-> "absent"]
  /\ claimed_by = [a \in Assignment |-> None]
  /\ attempt_id = [a \in Assignment |-> None]
  /\ lease = [a \in Assignment |-> 0]
  /\ age = [a \in Assignment |-> 0]
  /\ before = {}
  /\ att_status = [id \in Attempt |-> "unused"]
  /\ att_asg = [id \in Attempt |-> None]
  /\ att_machine = [id \in Attempt |-> None]
  /\ evidence = [id \in Attempt |-> FALSE]
  /\ known = [m \in Machine |-> FALSE]
  /\ drained = [m \in Machine |-> FALSE]
  /\ tags = [m \in Machine |-> {}]
  /\ running = [m \in Machine |-> None]
  /\ claimTx = [m \in Machine |-> IdleTx]
  /\ upload = [m \in Machine |-> IdleUpload]
  /\ files = {}

-----------------------------------------------------------------------------
(* Machines *)

\* The row is created by the first heartbeat; the agent says what it runs.
Heartbeat(m, ts, r) ==
  /\ known' = [known EXCEPT ![m] = TRUE]
  /\ tags' = [tags EXCEPT ![m] = ts]
  /\ running' = [running EXCEPT ![m] = r]
  /\ UNCHANGED <<asgVars, attVars, drained, claimTx, upload, files>>

SetDrained(m, b) ==
  /\ known[m]
  /\ drained' = [drained EXCEPT ![m] = b]
  /\ UNCHANGED <<asgVars, attVars, known, tags, running, claimTx, upload, files>>

-----------------------------------------------------------------------------
(* Assignments *)

Enqueue(a) ==
  /\ status[a] = "absent"
  /\ status' = [status EXCEPT ![a] = "pending"]
  /\ before' = before \cup {<<b, a>> : b \in {c \in Assignment : status[c] # "absent"}}
  /\ UNCHANGED <<claimed_by, attempt_id, lease, age, attVars, machVars,
                 claimTx, upload, files>>

\* Mutant of ClaimRead: drained is not read.
ClaimReadAny(m) ==
  /\ claimTx[m].phase = "idle"
  /\ known[m]
  /\ claimTx' = [claimTx EXCEPT ![m] =
                   [phase |-> "read", tags |-> tags[m], asg |-> None]]
  /\ UNCHANGED <<asgVars, attVars, machVars, upload, files>>

\* claim's first statement: the machine row, as it is now.
ClaimRead(m) ==
  /\ claimTx[m].phase = "idle"
  /\ known[m]
  /\ ~drained[m]
  /\ claimTx' = [claimTx EXCEPT ![m] =
                   [phase |-> "read", tags |-> tags[m], asg |-> None]]
  /\ UNCHANGED <<asgVars, attVars, machVars, upload, files>>

\* Mutants of Expired: a finished row keeps its lapsed lease; a lease is for good.
AnyLapsed(a) == status[a] \notin {"absent", "pending"} /\ lease[a] <= 0
NeverExpired(a) == FALSE

Expired(a) == status[a] = "claimed" /\ lease[a] < 0

\* Mutant of Claimable: results are taken up again.
ClaimableTwice(a, ts) ==
  /\ status[a] \in {"pending"} \cup Outcome \/ Expired(a)
  /\ RequiredTags[a] \subseteq ts

Claimable(a, ts) ==
  /\ status[a] = "pending" \/ Expired(a)
  /\ RequiredTags[a] \subseteq ts

\* Mutant of Locked: claim selects without FOR UPDATE.
Unlocked(a) == FALSE

\* The row lock FOR UPDATE took, held until the claim commits.
Locked(a) == \E m \in Machine : claimTx[m].phase = "picked" /\ claimTx[m].asg = a

\* The oldest claimable row that no other claim has locked (SKIP LOCKED).
ClaimPick(m, a) ==
  /\ claimTx[m].phase = "read"
  /\ Claimable(a, claimTx[m].tags)
  /\ ~Locked(a)
  /\ \A b \in Assignment :
       <<b, a>> \in before /\ Claimable(b, claimTx[m].tags) => Locked(b)
  /\ claimTx' = [claimTx EXCEPT ![m] =
                   [phase |-> "picked", tags |-> claimTx[m].tags, asg |-> a]]
  /\ UNCHANGED <<asgVars, attVars, machVars, upload, files>>

ClaimNone(m) ==
  /\ claimTx[m].phase = "read"
  /\ \A a \in Assignment : Claimable(a, claimTx[m].tags) => Locked(a)
  /\ claimTx' = [claimTx EXCEPT ![m] = IdleTx]
  /\ UNCHANGED <<asgVars, attVars, machVars, upload, files>>

\* The attempts of an Assignment that a new claim supersedes.
Superseded(a) == {i \in Attempt : att_asg[i] = a /\ att_status[i] = "running"}

ClaimCommit(m, a, id) ==
  /\ claimTx[m].phase = "picked"
  /\ claimTx[m].asg = a
  /\ att_status[id] = "unused"
  /\ status' = [status EXCEPT ![a] = "claimed"]
  /\ claimed_by' = [claimed_by EXCEPT ![a] = m]
  /\ attempt_id' = [attempt_id EXCEPT ![a] = id]
  /\ lease' = [lease EXCEPT ![a] = LeaseSeconds[a]]
  /\ age' = [age EXCEPT ![a] = 0]
  /\ att_status' = [i \in Attempt |->
                      CASE i = id -> "running"
                        [] i # id /\ i \in Superseded(a) -> "lease-lost"
                        [] OTHER -> att_status[i]]
  /\ att_asg' = [att_asg EXCEPT ![id] = a]
  /\ att_machine' = [att_machine EXCEPT ![id] = m]
  /\ running' = [running EXCEPT ![m] = a]
  /\ claimTx' = [claimTx EXCEPT ![m] = IdleTx]
  /\ UNCHANGED <<before, evidence, known, drained, tags, upload, files>>

\* The connection or the hub dies before the commit: everything rolls back.
ClaimAbort(m) ==
  /\ claimTx[m].phase # "idle"
  /\ claimTx' = [claimTx EXCEPT ![m] = IdleTx]
  /\ UNCHANGED <<asgVars, attVars, machVars, upload, files>>

\* The WHERE clause that renew and complete share.
Fenced(a, m, id) ==
  /\ status[a] = "claimed"
  /\ claimed_by[a] = m
  /\ attempt_id[a] = id

\* renew does not ask whether the lease has already lapsed.
Renew(a, m, id) ==
  /\ Fenced(a, m, id)
  /\ ~Locked(a)
  /\ lease' = [lease EXCEPT ![a] = LeaseSeconds[a]]
  /\ UNCHANGED <<status, claimed_by, attempt_id, age, before, attVars, machVars,
                 claimTx, upload, files>>

\* Mutants of WithResult: the attempts row is forgotten; every attempt of the
\* Assignment is updated.
WithoutResult(id, st) == att_status
AllWithResult(id, st) ==
  [i \in Attempt |-> IF att_asg[i] = att_asg[id] THEN st ELSE att_status[i]]

\* complete's second UPDATE, of the attempts row the first one returned.
WithResult(id, st) == [att_status EXCEPT ![id] = st]

Complete(a, m, id, st) ==
  /\ Fenced(a, m, id)
  /\ ~Locked(a)
  /\ status' = [status EXCEPT ![a] = st]
  /\ lease' = [lease EXCEPT ![a] = 0]
  /\ age' = [age EXCEPT ![a] = 0]
  /\ att_status' = WithResult(id, st)
  /\ running' = [running EXCEPT ![m] = None]
  /\ UNCHANGED <<claimed_by, attempt_id, before, att_asg, att_machine, evidence,
                 known, drained, tags, claimTx, upload, files>>

-----------------------------------------------------------------------------
(* Evidence *)

\* put_evidence's own fence: it reads without a lock and ignores the status.
UploadFence(a, m, id) == claimed_by[a] = m /\ attempt_id[a] = id

\* Mutant of UploadCheck: the row is updated before the file is written.
UploadRecord(a, m, id) ==
  /\ upload[m].phase = "idle"
  /\ UploadFence(a, m, id)
  /\ upload' = [upload EXCEPT ![m] = [phase |-> "checked", attempt |-> id]]
  /\ evidence' = [evidence EXCEPT ![id] = TRUE]
  /\ UNCHANGED <<asgVars, att_status, att_asg, att_machine, machVars, claimTx, files>>

UploadCheck(a, m, id) ==
  /\ upload[m].phase = "idle"
  /\ UploadFence(a, m, id)
  /\ upload' = [upload EXCEPT ![m] = [phase |-> "checked", attempt |-> id]]
  /\ UNCHANGED <<asgVars, attVars, machVars, claimTx, files>>

UploadWrite(m) ==
  /\ upload[m].phase = "checked"
  /\ files' = files \cup {upload[m].attempt}
  /\ upload' = [upload EXCEPT ![m] =
                  [phase |-> "written", attempt |-> upload[m].attempt]]
  /\ UNCHANGED <<asgVars, attVars, machVars, claimTx>>

\* UPDATE attempts by id alone.  When prune has deleted the row, the
\* assertion on RETURNING fails and the file stays.
UploadCommit(m) ==
  /\ upload[m].phase = "written"
  /\ evidence' = [evidence EXCEPT ![upload[m].attempt] =
                    att_status[upload[m].attempt] # "deleted"]
  /\ upload' = [upload EXCEPT ![m] = IdleUpload]
  /\ UNCHANGED <<asgVars, att_status, att_asg, att_machine, machVars, claimTx, files>>

UploadAbort(m) ==
  /\ upload[m].phase # "idle"
  /\ upload' = [upload EXCEPT ![m] = IdleUpload]
  /\ UNCHANGED <<asgVars, attVars, machVars, claimTx, files>>

-----------------------------------------------------------------------------
(* Prune and time *)

Prunable == {a \in Assignment : status[a] \in Outcome /\ age[a] > Retention}

\* prune_old removes the evidence directories before its caller commits.
Prune ==
  /\ Prunable # {}
  /\ status' = [a \in Assignment |-> IF a \in Prunable THEN "absent" ELSE status[a]]
  /\ claimed_by' = [a \in Assignment |-> IF a \in Prunable THEN None ELSE claimed_by[a]]
  /\ attempt_id' = [a \in Assignment |-> IF a \in Prunable THEN None ELSE attempt_id[a]]
  /\ age' = [a \in Assignment |-> IF a \in Prunable THEN 0 ELSE age[a]]
  /\ before' = {p \in before : p[1] \notin Prunable /\ p[2] \notin Prunable}
  /\ att_status' = [id \in Attempt |->
                      IF att_asg[id] \in Prunable THEN "deleted" ELSE att_status[id]]
  /\ evidence' = [id \in Attempt |-> evidence[id] /\ att_asg[id] \notin Prunable]
  /\ files' = {id \in files : att_asg[id] \notin Prunable}
  /\ UNCHANGED <<lease, att_asg, att_machine, machVars, claimTx, upload>>

\* The same, when the commit fails: the files are gone, the rows are not.
PruneAbort ==
  /\ Prunable # {}
  /\ files' = {id \in files : att_asg[id] \notin Prunable}
  /\ UNCHANGED <<asgVars, attVars, machVars, claimTx, upload>>

\* One unit of time.  A lapsed lease stops counting at -1 and a row past
\* retention at Retention + 1: no guard tells later values apart.
Tick ==
  /\ lease' = [a \in Assignment |->
                 IF status[a] = "claimed" /\ lease[a] >= 0 THEN lease[a] - 1 ELSE lease[a]]
  /\ age' = [a \in Assignment |->
               IF status[a] \in Outcome /\ age[a] <= Retention THEN age[a] + 1 ELSE age[a]]
  /\ UNCHANGED <<status, claimed_by, attempt_id, before, attVars, machVars,
                 claimTx, upload, files>>

-----------------------------------------------------------------------------
\* COMPLETE_ALIASES, and what a client may report.
Alias == [success |-> "succeeded", fail |-> "failed"]
Reported == Outcome \cup {st \in DOMAIN Alias : Alias[st] \in Outcome}

\* Mutant of Normal: aliases are stored as they come.
Unaliased(st) == st

Normal(st) == IF st \in DOMAIN Alias THEN Alias[st] ELSE st

\* A client may send any call about an attempt it was once given, at any
\* time and any number of times: late, repeated and reordered requests.
ClientCall(m, a, id) ==
  \/ Renew(a, m, id)
  \/ \E st \in Reported : Complete(a, m, id, Normal(st))
  \/ UploadCheck(a, m, id)

\* What an agent may report as running: something it was given, or nothing.
Reportable(m) == {None} \cup {att_asg[id] : id \in {i \in Attempt : att_machine[i] = m}}

Next ==
  \/ \E m \in Machine, ts \in SUBSET Tag : \E r \in Reportable(m) : Heartbeat(m, ts, r)
  \/ \E m \in Machine, b \in BOOLEAN : SetDrained(m, b)
  \/ \E a \in Assignment : Enqueue(a)
  \/ \E m \in Machine : ClaimRead(m) \/ ClaimNone(m) \/ ClaimAbort(m)
  \/ \E m \in Machine, a \in Assignment : ClaimPick(m, a)
  \/ \E m \in Machine, a \in Assignment, id \in Attempt : ClaimCommit(m, a, id)
  \/ \E m \in Machine, a \in Assignment, id \in Attempt : ClientCall(m, a, id)
  \/ \E m \in Machine : UploadWrite(m) \/ UploadCommit(m) \/ UploadAbort(m)
  \/ Prune \/ PruneAbort
  \/ Tick

Spec == Init /\ [][Next]_hubVars

-----------------------------------------------------------------------------
(* Properties *)

\* The two tables agree about who runs what: an attempt row is running
\* exactly when a claimed Assignment row points at it, and both rows name
\* the same Assignment and machine (claim, complete, prune_old).
RunningIsFenced ==
  \A id \in Attempt :
    att_status[id] = "running" <=>
      \E a \in Assignment : /\ Fenced(a, att_machine[id], id)
                            /\ att_asg[id] = a

\* Two agents never both hold an Assignment: at most one attempt of it is
\* running (claim turns every other one into lease-lost).
OneRunner ==
  \A i, j \in Attempt :
    att_status[i] = "running" /\ att_status[j] = "running" /\ att_asg[i] = att_asg[j]
      => i = j

\* An Assignment gets at most one result, from the attempt its row still
\* names, whatever late or repeated complete calls arrive.
SingleResult ==
  \A id \in Attempt : att_status[id] \in Outcome =>
    \E a \in Assignment : /\ att_asg[id] = a
                          /\ attempt_id[a] = id
                          /\ claimed_by[a] = att_machine[id]
                          /\ status[a] = att_status[id]

\* Evidence the hub has accepted can be served until the retention of its
\* Assignment is over: write before record, rmtree only for old rows.
EvidenceDurable ==
  \A id \in Attempt : evidence[id] =>
    id \in files \/ \E a \in Prunable : att_asg[id] = a

\* A lapsed attempt is fenced off for good: once lease-lost, an attempt row
\* never becomes a result again (complete, renew after a reclaim).
FencedOff ==
  [][\A id \in Attempt :
       att_status[id] = "lease-lost" => att_status'[id] \in {"lease-lost", "deleted"}]_hubVars

\* A claim changes hands only after its lease has lapsed, although claim
\* reads, locks and commits in separate steps and renew runs in between.
NoEarlyReclaim ==
  [][\A a \in Assignment :
       status[a] = "claimed" /\ attempt_id'[a] # attempt_id[a] => lease[a] < 0]_hubVars

\* A result is never rewritten, and leaves the store only by prune_old when
\* it is older than the retention.
ResultsKept ==
  [][\A a \in Assignment : status[a] \in Outcome =>
       \/ status'[a] = status[a] /\ attempt_id'[a] = attempt_id[a]
       \/ status'[a] = "absent" /\ age[a] > Retention]_hubVars

-----------------------------------------------------------------------------
(* The refinement mapping *)

LedgerPhase == [a \in Assignment |->
  CASE status[a] = "absent"  -> "none"
    [] status[a] = "pending" -> "open"
    [] status[a] = "claimed" -> "held"
    [] OTHER -> "done"]

LedgerFate == [id \in Attempt |->
  CASE att_status[id] = "unused"     -> "fresh"
    [] att_status[id] = "running"    -> "live"
    [] att_status[id] = "lease-lost" -> "lost"
    [] att_status[id] = "deleted"    -> "gone"
    [] OTHER -> "won"]

Ledger == INSTANCE AssignmentLedger
            WITH phase <- LedgerPhase, fate <- LedgerFate, grantedTo <- att_asg

\* The store implements the ledger.
ImplementsLedger == Ledger!LedgerSpec
=============================================================================
