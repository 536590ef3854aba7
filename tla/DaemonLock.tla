----------------------------- MODULE DaemonLock -----------------------------
(***************************************************************************)
(* The single-instance lock of a workspace: acquire_lock and release_lock  *)
(* of daemon.py, run by any number of daemon processes.  The lock is a     *)
(* file that holds the pid of its creator; creating it (O_CREAT | O_EXCL)  *)
(* and writing the pid into it are two steps, and so are reading the pid   *)
(* of somebody else and unlinking the file as stale.                       *)
(***************************************************************************)
EXTENDS FiniteSets

CONSTANTS
  Process,   \* daemon processes, named by their pids; none is used twice
  None       \* no file, or no pid in it

ASSUME LockAssumption == None \notin Process

VARIABLES
  pc,        \* where each process is
  file,      \* who created the file at lock_path, or None
  written,   \* the creators that have written their pid
  seen,      \* what _read_pid returned
  overlap    \* history: a daemon was started while another one was starting

lockVars == <<pc, file, written, seen, overlap>>

LockTypeOK ==
  /\ pc \in [Process -> {"off", "open", "read", "judge", "unlink", "write", "held", "gone"}]
  /\ file \in Process \cup {None}
  /\ written \subseteq Process
  /\ seen \in [Process -> Process \cup {None}]
  /\ overlap \in BOOLEAN

LockInit ==
  /\ pc = [p \in Process |-> "off"]
  /\ file = None
  /\ written = {}
  /\ seen = [p \in Process |-> None]
  /\ overlap = FALSE

Goes(p, s) == pc' = [pc EXCEPT ![p] = s]

Starting(p) == pc[p] \in {"open", "read", "judge", "unlink", "write"}

Start(p) ==
  /\ pc[p] = "off"
  /\ Goes(p, "open")
  /\ overlap' = (overlap \/ \E q \in Process : Starting(q))
  /\ UNCHANGED <<file, written, seen>>

\* os.open with O_EXCL succeeds, or says that the file exists.
Create(p) ==
  /\ pc[p] = "open"
  /\ file = None
  /\ file' = p
  /\ Goes(p, "write")
  /\ UNCHANGED <<written, seen, overlap>>

Exists(p) ==
  /\ pc[p] = "open"
  /\ file # None
  /\ Goes(p, "read")
  /\ UNCHANGED <<file, written, seen, overlap>>

\* _read_pid: nothing, from a file that is gone or still empty.
Content == IF file \in written THEN file ELSE None

ReadPid(p) ==
  /\ pc[p] = "read"
  /\ seen' = [seen EXCEPT ![p] = Content]
  /\ Goes(p, "judge")
  /\ UNCHANGED <<file, written, overlap>>

\* Mutant of PidAlive: the probe never finds a process.
NobodyAlive(q) == FALSE

PidAlive(q) == q \in Process /\ pc[q] \notin {"off", "gone"}

\* DaemonLocked: the process gives up without touching the file.
Refuse(p) ==
  /\ pc[p] = "judge"
  /\ PidAlive(seen[p])
  /\ Goes(p, "gone")
  /\ UNCHANGED <<file, written, seen, overlap>>

JudgeStale(p) ==
  /\ pc[p] = "judge"
  /\ ~PidAlive(seen[p])
  /\ Goes(p, "unlink")
  /\ UNCHANGED <<file, written, seen, overlap>>

\* Mutant of UnlinkStale: the stale file is left where it is.
UnlinkNothing(p) ==
  /\ pc[p] = "unlink"
  /\ Goes(p, "open")
  /\ UNCHANGED <<file, written, seen, overlap>>

\* Whatever is at the path by now.
UnlinkStale(p) ==
  /\ pc[p] = "unlink"
  /\ file' = None
  /\ Goes(p, "open")
  /\ UNCHANGED <<written, seen, overlap>>

WritePid(p) ==
  /\ pc[p] = "write"
  /\ written' = written \cup {p}
  /\ Goes(p, "held")
  /\ UNCHANGED <<file, seen, overlap>>

\* release_lock unlinks the path, whoever created what is there.
Release(p) ==
  /\ pc[p] = "held"
  /\ file' = None
  /\ Goes(p, "gone")
  /\ UNCHANGED <<written, seen, overlap>>

\* A crash, a kill, or os._exit on the second signal: the file stays.
Die(p) ==
  /\ PidAlive(p)
  /\ Goes(p, "gone")
  /\ UNCHANGED <<file, written, seen, overlap>>

Acquire(p) ==
  \/ Create(p) \/ Exists(p) \/ ReadPid(p) \/ Refuse(p) \/ JudgeStale(p)
  \/ UnlinkStale(p) \/ WritePid(p)

LockNext == \E p \in Process : Start(p) \/ Acquire(p) \/ Release(p) \/ Die(p)

LockSpec == LockInit /\ [][LockNext]_lockVars

\* A process inside acquire_lock keeps running.
FairLockSpec == LockSpec /\ \A p \in Process : WF_lockVars(Acquire(p))

-----------------------------------------------------------------------------
(* Properties *)

\* Two daemons never serve one workspace, however they are started:
\* DaemonLocked, "Another daemon instance holds the workspace lock".
SingleInstance ==
  \A p, q \in Process : pc[p] = "held" /\ pc[q] = "held" => p = q

\* Started one after the other, two daemons never serve one workspace: a lock
\* is replaced "only when stale", whatever died before, while or after it was
\* written and whoever releases it.
SerialStartsExclude == ~overlap => SingleInstance

\* The retry loop of acquire_lock ends, also when other processes create and
\* unlink the file under it: a lock left behind by a crash blocks nobody.
AcquireEnds ==
  \A p \in Process : pc[p] = "open" ~> pc[p] \in {"held", "gone"}
=============================================================================
