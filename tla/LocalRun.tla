------------------------------ MODULE LocalRun ------------------------------
(***************************************************************************)
(* The agent's local mode: a SQLite queue of Assignments, worker processes *)
(* that claim one, start "coreme run" for it (RunFolder), read one frame   *)
(* from its result channel, and write the outcome to the queue.            *)
(***************************************************************************)
EXTENDS RunFolder

CONSTANTS
  Assignment,  \* ids, ordered as ORDER BY id does
  Worker,      \* processes that run "once" or "drain", again and again
  None

ASSUME LocalAssumption ==
  /\ Assignment \subseteq Nat /\ Run \subseteq Nat \ {0}
  /\ None \notin Int

VARIABLES
  row,         \* the assignments table: status, attempt_id,
               \* run_path and exit_code
  attempts,    \* the attempts table
  doing,       \* what each worker does
  dead         \* history: Assignments whose worker ended before they did

queueVars == <<row, attempts>>
workerVars == <<doing, dead>>
localVars == <<runVars, queueVars, workerVars>>

Final == {"succeeded", "failed", "error", "timeout"}
NoRow == [status |-> "none", attempt |-> None, path |-> None, code |-> None]
Resting == [pc |-> "idle", id |-> None, run |-> None, status |-> "none",
            path |-> None, code |-> None]
Codes == {-9, None} \cup 0..255

\* returncode of a process that was killed.  On Windows the killer says it.
KillStatus == IF windows THEN 1 ELSE -9

LocalTypeOK ==
  /\ RunTypeOK
  /\ row \in [Assignment ->
       [status : {"none", "pending", "running"} \cup Final,
        attempt : Run \cup {None}, path : Name \cup {None}, code : Codes]]
  /\ attempts \subseteq [id : Run, of : Assignment, status : {"running"} \cup Final]
  /\ doing \in [Worker ->
       [pc : {"idle", "start", "wait", "report"}, id : Assignment \cup {None},
        run : Run \cup {None}, status : {"none"} \cup Final,
        path : Name \cup {None}, code : Codes]]
  /\ dead \subseteq Assignment

LocalInit ==
  /\ RunInit
  /\ row = [a \in Assignment |-> NoRow]
  /\ attempts = {}
  /\ doing = [w \in Worker |-> Resting]
  /\ dead = {}

Enqueue(a) ==
  /\ row[a].status = "none"
  /\ row' = [row EXCEPT ![a].status = "pending"]
  /\ UNCHANGED <<attempts, workerVars, runVars>>

Claimable(a) == row[a].status = "pending"

NewAttempt == CHOOSE r \in Run : \A t \in attempts : t.id # r

\* One BEGIN IMMEDIATE: the SELECT, the UPDATE and the attempt.  All rows are of
\* one second too, so that the oldest is the one with the least id.
Claim(w, a) ==
  /\ doing[w].pc = "idle"
  /\ Claimable(a) /\ \A b \in Assignment \ {a} : Claimable(b) => a < b
  /\ \E r \in Run : \A t \in attempts : t.id # r
  /\ row' = [row EXCEPT ![a].status = "running", ![a].attempt = NewAttempt]
  /\ attempts' = attempts \cup {[id |-> NewAttempt, of |-> a, status |-> "running"]}
  /\ doing' = [doing EXCEPT ![w] =
                 [Resting EXCEPT !.pc = "start", !.id = a, !.run = NewAttempt]]
  /\ UNCHANGED <<dead, runVars>>

\* The result of an Assignment, on its way to the queue.
Reports(w, status, path, code) ==
  doing' = [doing EXCEPT ![w].pc = "report", ![w].status = status,
                         ![w].path = path, ![w].code = code]

Spawn(w) ==
  /\ doing[w].pc = "start"
  /\ LET r == doing[w].run IN
       /\ at' = [at EXCEPT ![r] = "check"]
       /\ channel' = [channel EXCEPT ![r] = "open"]
  /\ doing' = [doing EXCEPT ![w].pc = "wait"]
  /\ UNCHANGED <<dead, queueVars, folderVars, verdict, job, frame, exit, faults>>

\* No such command, no process, or one that cannot be contained.
SpawnFails(w) ==
  /\ doing[w].pc = "start"
  /\ Reports(w, "error", None, None)
  /\ Fault
  /\ UNCHANGED <<dead, queueVars, folderVars, processVars, at>>

\* Mutant of Consistent: the frame is not compared with the exit status.
ConsistentAlways(r) == TRUE

\* _validate_consistency.  The status of a frame is that of its exit code.
Consistent(r) == verdict[r].code = exit[r]

Usable(r) == frame[r] = "fits" /\ Consistent(r)

StatusFromExit(code) ==
  CASE code = 0 -> "succeeded" [] code = 124 -> "timeout" [] OTHER -> "failed"

\* Mutant of Over: the agent waits for a frame.
OverWithFrame(r) == at[r] = "gone" /\ frame[r] # "none"

Over(r) == at[r] = "gone" /\ exit[r] # Running

\* The process ended and the channel with it.  No frame, one that cannot be
\* decoded (a fail_message above 4096 characters) or one that disagrees with
\* the exit status is an error of the agent, without the Run's folder.
CoremeEnds(w) ==
  LET r == doing[w].run IN
  /\ doing[w].pc = "wait"
  /\ Over(r)
  /\ IF Usable(r) THEN Reports(w, StatusFromExit(exit[r]), name[r], exit[r])
                  ELSE Reports(w, "error", None, exit[r])
  /\ UNCHANGED <<dead, queueVars, runVars>>

\* The agent's own timeout: the process is killed and its frame ignored.
AgentTimesOut(w) ==
  LET r == doing[w].run IN
  /\ doing[w].pc = "wait"
  /\ at[r] # "gone"
  /\ Killed(r)
  /\ exit' = [exit EXCEPT ![r] = KillStatus]
  /\ channel' = [channel EXCEPT ![r] = "closed"]
  /\ Reports(w, "timeout", None, 124)
  /\ Fault
  /\ UNCHANGED <<dead, queueVars, windows, dirs, claimed, wrote, name, verdict, frame>>

\* complete, in one transaction; an Assignment that is not running is a
\* QueueError, which ends the worker.
Complete(w) ==
  LET d == doing[w]  a == d.id IN
  /\ d.pc = "report"
  /\ IF row[a].status = "running"
     THEN /\ row' = [row EXCEPT ![a].status = d.status, ![a].path = d.path, ![a].code = d.code]
          /\ attempts' = {IF t.id = row[a].attempt THEN [t EXCEPT !.status = d.status] ELSE t :
                            t \in attempts}
     ELSE UNCHANGED queueVars
  /\ doing' = [doing EXCEPT ![w] = Resting]
  /\ UNCHANGED <<dead, runVars>>

\* The worker's process ends; another is started some time.  On Windows its
\* "coreme run" ends with it.
WorkerDies(w) ==
  LET r == doing[w].run IN
  /\ doing[w].pc # "idle"
  /\ doing' = [doing EXCEPT ![w] = Resting]
  /\ dead' = dead \cup {doing[w].id}
  /\ IF windows /\ doing[w].pc = "wait" /\ at[r] # "gone"
     THEN Killed(r) /\ exit' = [exit EXCEPT ![r] = KillStatus]
     ELSE UNCHANGED <<at, torn, job, exit>>
  /\ channel' = IF doing[w].pc = "wait" THEN [channel EXCEPT ![r] = "closed"] ELSE channel
  /\ Fault
  /\ UNCHANGED <<queueVars, windows, dirs, claimed, wrote, name, verdict, frame>>

\* "coreme run" alone is killed, by the system or an operator.
CoremeKilled(r) ==
  /\ at[r] \notin {"none", "gone"}
  /\ Killed(r)
  /\ exit' = [exit EXCEPT ![r] = KillStatus]
  /\ Fault
  /\ UNCHANGED <<workerVars, queueVars, windows, dirs, claimed, wrote, name,
                 verdict, channel, frame>>

RunSteps(r) ==
  (RunProceeds(r) \/ RunFails(r) \/ OrphanEnds(r)) /\ UNCHANGED <<queueVars, workerVars>>

WorkerProceeds(w) == Spawn(w) \/ CoremeEnds(w) \/ Complete(w)

LocalNext ==
  \/ \E a \in Assignment : Enqueue(a)
  \/ \E w \in Worker :
       \/ \E a \in Assignment : Claim(w, a)
       \/ WorkerProceeds(w) \/ SpawnFails(w) \/ AgentTimesOut(w) \/ WorkerDies(w)
  \/ \E r \in Run : RunSteps(r) \/ CoremeKilled(r)

LocalSpec == LocalInit /\ [][LocalNext]_localVars

\* A worker and a "coreme run" that are there go on, and a Job's timeout passes.
LocalFairness ==
  /\ \A w \in Worker : WF_localVars(WorkerProceeds(w))
  /\ \A r \in Run : WF_localVars(RunProceeds(r) /\ UNCHANGED <<queueVars, workerVars>>)

FairLocalSpec == LocalSpec /\ LocalFairness

-----------------------------------------------------------------------------
(* Properties *)

\* An Assignment is claimed once, by one worker, and its row and its attempt
\* have one outcome, however many workers drain the queue and whichever die.
ClaimedOnce ==
  /\ \A t, u \in attempts : t.of = u.of => t = u
  /\ \A t \in attempts : row[t.of].attempt = t.id /\ row[t.of].status = t.status
  /\ \A v, w \in Worker : v # w /\ doing[v].id = doing[w].id => doing[v].id = None

\* A row that names a Run's folder names that of its own attempt, sealed by
\* run.json, and says of it what run.json says; and only a Run that is on disk
\* as a success makes an Assignment succeed.
RowIsEvidence ==
  \A a \in Assignment :
    /\ row[a].status \in {"succeeded", "failed"} => row[a].path # None
    /\ row[a].path # None =>
         LET r == row[a].attempt IN
           /\ row[a].path = name[r] /\ Wrote(r, "record")
           /\ row[a].status = "succeeded" <=> ~Failed(r)

\* A Job whose Assignment has its outcome runs no more, except on POSIX after
\* the agent's timeout or a kill of "coreme run" (its Job is in a session of its
\* own), or when its process could not be stopped.
NoStrayJob ==
  \A a \in Assignment :
    LET r == row[a].attempt IN
      row[a].status \in Final /\ job[r] = "running" =>
        ~windows /\ (verdict[r].kind = "process_error" \/ exit[r] = -9)

\* Every Assignment that is claimed has an outcome some time, whatever its Job
\* does, unless its worker ends first: then it is left running for ever.
Concluded ==
  \A a \in Assignment : row[a].status = "running" ~> row[a].status \in Final \/ a \in dead

\* The module says of a run request that coreme is invoked "through a
\* contained process tree": what the agent gives up, it has stopped.
Contained ==
  \A a \in Assignment : row[a].status \in Final => job[row[a].attempt] # "running"
=============================================================================
