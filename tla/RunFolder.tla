----------------------------- MODULE RunFolder -----------------------------
(***************************************************************************)
(* "coreme run": a process that checks a Job, claims a folder under runs/, *)
(* runs the Job and writes the Run's evidence there in a fixed order, with *)
(* run.json last, then tells whoever started it through a result channel.  *)
(*                                                                         *)
(* wrote are the files on disk, torn those whose write was cut short:      *)
(* <<folder, file, run that wrote>>.                                       *)
(* All Runs start in one second, so that a folder's name is only a suffix: *)
(* Runs of other seconds have other names.                                 *)
(* windows is the platform, which decides what dies with a process.        *)
(***************************************************************************)
EXTENDS Integers, FiniteSets

CONSTANTS
  Run,         \* processes "coreme run", each at most once
  ExitCode,    \* of Jobs: 124 a Job may choose itself, -9 is a signal
  MaxFaults    \* bound: faults of a process or a disk, kills, the agent's timeouts

ASSUME RunAssumption ==
  /\ IsFiniteSet(Run)
  /\ ExitCode \subseteq Int
  /\ MaxFaults \in Nat

VARIABLES
  windows,
  at,          \* where the process of a Run is
  name,        \* the folder it looks at, then the one it has
  dirs,        \* folders that exist
  claimed,     \* those with artifacts/ in them
  wrote, torn,
  verdict,     \* how its Job ended: kind of failure and exit code
  job,         \* its Job's process
  channel,     \* the reading end of its result channel
  frame,       \* what is in the channel
  exit,        \* status the process of the Run ended with
  faults

folderVars == <<windows, dirs, claimed, wrote, torn, name>>
processVars == <<verdict, job, channel, frame, exit>>
runVars == <<folderVars, processVars, at, faults>>

File == {"inputs", "start", "log", "end", "fail", "record"}
Kind == {"none", "process", "timeout", "start_error", "process_error"}
Length == {"short", "long", "huge"}
NoVerdict == [kind |-> "none", code |-> 1]
Running == 999                \* no exit status yet
Place == {"none", "check", "look", "mkParent", "mkArtifacts", "inputs", "begin",
          "spawn", "wait", "log", "end", "fail", "record", "frame", "footer", "gone"}
Name == 0..Cardinality(Run)

RunTypeOK ==
  /\ windows \in BOOLEAN
  /\ at \in [Run -> Place]
  /\ name \in [Run -> Name]
  /\ dirs \subseteq Name /\ claimed \subseteq dirs
  /\ wrote \subseteq claimed \X File \X Run
  /\ torn \subseteq claimed \X File \X Run
  /\ verdict \in [Run -> [kind : Kind, code : ExitCode \cup {0, 1, 124}]]
  /\ job \in [Run -> {"none", "running", "gone"}]
  /\ channel \in [Run -> {"absent", "open", "closed"}]
  /\ frame \in [Run -> {"none", "fits", "long"}]
  /\ exit \in [Run -> {-9, Running} \cup 0..255]
  /\ faults \in 0..MaxFaults

RunInit ==
  /\ windows \in BOOLEAN
  /\ at = [r \in Run |-> "none"]
  /\ name = [r \in Run |-> 0]
  /\ dirs = {} /\ claimed = {} /\ wrote = {} /\ torn = {}
  /\ verdict = [r \in Run |-> NoVerdict]
  /\ job = [r \in Run |-> "none"]
  /\ channel = [r \in Run |-> "absent"]
  /\ frame = [r \in Run |-> "none"]
  /\ exit = [r \in Run |-> Running]
  /\ faults = 0

Goes(r, from, to) == at[r] = from /\ at' = [at EXCEPT ![r] = to]
Ends(r, code) == at' = [at EXCEPT ![r] = "gone"] /\ exit' = [exit EXCEPT ![r] = code]
Fault == faults < MaxFaults /\ faults' = faults + 1
Wrote(r, f) == <<name[r], f, r>> \in wrote
Failed(r) == verdict[r].code # 0

\* What follows is "coreme run" from its start.  The release is verified, the
\* manifest loaded, inputs and secrets resolved before anything is written.
CheckPasses(r) ==
  /\ Goes(r, "check", "look")
  /\ name' = [name EXCEPT ![r] = 0]
  /\ UNCHANGED <<windows, dirs, claimed, wrote, torn, processVars, faults>>

CheckRefuses(r) ==
  /\ at[r] = "check"
  /\ Ends(r, 2)
  /\ UNCHANGED <<folderVars, verdict, job, channel, frame, faults>>

LookFindsOne(r) ==
  /\ at[r] = "look" /\ name[r] \in dirs
  /\ name' = [name EXCEPT ![r] = @ + 1]
  /\ UNCHANGED <<windows, dirs, claimed, wrote, torn, processVars, at, faults>>

LookFindsNone(r) ==
  /\ name[r] \notin dirs
  /\ Goes(r, "look", "mkParent")
  /\ UNCHANGED <<folderVars, processVars, faults>>

\* artifacts.mkdir(parents=True) makes the run folder, which may be there by
\* now, ...
MakeParent(r) ==
  /\ Goes(r, "mkParent", "mkArtifacts")
  /\ dirs' = dirs \cup {name[r]}
  /\ UNCHANGED <<windows, claimed, wrote, torn, name, processVars, faults>>

\* Mutant of MayClaim: mkdir(exist_ok=True).
MayClaimAny(r) == TRUE

\* ... and then artifacts/, which may not.
MayClaim(r) == name[r] \notin claimed

MakeArtifacts(r) ==
  /\ at[r] = "mkArtifacts"
  /\ IF MayClaim(r)
     THEN /\ Goes(r, "mkArtifacts", "inputs")
          /\ claimed' = claimed \cup {name[r]}
          /\ UNCHANGED exit
     ELSE Ends(r, 1) /\ UNCHANGED claimed      \* FileExistsError
  /\ UNCHANGED <<windows, dirs, wrote, torn, name, verdict, job, channel, frame, faults>>

\* Mutant of After: run.json before the terminal event and fail.json.
AfterEarlyRecord(r, f) ==
  CASE f = "inputs" -> "begin" [] f = "start" -> "spawn"
    [] f = "log" -> "record" [] f = "record" -> "end"
    [] f = "end" -> IF Failed(r) THEN "fail" ELSE "frame"
    [] f = "fail" -> "frame"

\* Where the Run goes when it has written a file.
After(r, f) ==
  CASE f = "inputs" -> "begin" [] f = "start" -> "spawn"
    [] f = "log" -> "end"
    [] f = "end" -> IF Failed(r) THEN "fail" ELSE "record"
    [] f = "fail" -> "record" [] f = "record" -> "frame"

\* The place where each file is written.
Writing(r) ==
  CASE at[r] = "begin" -> "start"
    [] at[r] \in {"inputs", "log", "end", "fail", "record"} -> at[r]
    [] OTHER -> "none"

Write(r) ==
  /\ Writing(r) # "none"
  /\ wrote' = wrote \cup {<<name[r], Writing(r), r>>}
  /\ at' = [at EXCEPT ![r] = After(r, Writing(r))]
  /\ UNCHANGED <<windows, dirs, claimed, torn, name, processVars, faults>>

\* An OSError that no handler of main knows, and what is in the file by then.
WriteFails(r) ==
  /\ Writing(r) # "none"
  /\ Ends(r, 1)
  /\ torn' = torn \cup {<<name[r], Writing(r), r>>}
  /\ Fault
  /\ UNCHANGED <<windows, dirs, claimed, wrote, name, verdict, job, channel, frame>>

JobStarts(r) ==
  /\ Goes(r, "spawn", "wait")
  /\ job' = [job EXCEPT ![r] = "running"]
  /\ UNCHANGED <<folderVars, verdict, channel, frame, exit, faults>>

Concludes(r, from, kind, code) ==
  /\ Goes(r, from, "log")
  /\ verdict' = [verdict EXCEPT ![r] = [kind |-> kind, code |-> code]]

\* No interpreter, no process: an OSError.  Or a tree that cannot be contained.
JobStartFails(r) ==
  /\ \E kind \in {"start_error", "process_error"} : Concludes(r, "spawn", kind, 1)
  /\ Fault
  /\ UNCHANGED <<folderVars, job, channel, frame, exit>>

\* The Job and whatever holds its output are gone.
JobEnds(r) ==
  /\ at[r] = "wait" /\ job[r] = "running"
  /\ \/ Concludes(r, "wait", "none", 0)
     \/ \E code \in ExitCode \ {0} :
          /\ code < 0 => ~windows
          /\ Concludes(r, "wait", "process", code)
  /\ job' = [job EXCEPT ![r] = "gone"]
  /\ UNCHANGED <<folderVars, channel, frame, exit, faults>>

\* Mutant of KilledTree: the process is killed and its group is not.
KilledTreeNot(r) == job[r]

\* _terminate_process_tree kills the Job's own session.
KilledTree(r) == "gone"

JobTimesOut(r) ==
  /\ job[r] = "running"
  /\ Concludes(r, "wait", "timeout", 124)
  /\ job' = [job EXCEPT ![r] = KilledTree(r)]
  /\ UNCHANGED <<folderVars, channel, frame, exit, faults>>

\* Something of the tree does not die, or holds the output: ProcessError.
\* Closing the job object still ends it on Windows.
JobStopFails(r) ==
  /\ job[r] = "running"
  /\ Concludes(r, "wait", "process_error", 1)
  /\ job' = [job EXCEPT ![r] = IF windows THEN "gone" ELSE "running"]
  /\ Fault
  /\ UNCHANGED <<folderVars, channel, frame, exit>>

\* write_result_channel, when there is a channel.  The message is that of the
\* Job's last failed step, of any length.  A body above 64 KiB is a ValueError,
\* a channel nobody reads an OSError; neither is handled.
SendFrame(r) ==
  /\ at[r] = "frame"
  /\ \E body \in IF verdict[r].kind = "process" THEN Length ELSE {"short"} :
       IF channel[r] # "absent" /\ (channel[r] = "closed" \/ body = "huge")
       THEN Ends(r, 1) /\ UNCHANGED frame
       ELSE /\ Goes(r, "frame", "footer")
            /\ frame' = IF channel[r] = "absent" THEN frame
                        ELSE [frame EXCEPT ![r] = IF body = "short" THEN "fits" ELSE "long"]
            /\ UNCHANGED exit
  /\ UNCHANGED <<folderVars, verdict, job, channel, faults>>

\* Of what main returns a process keeps eight bits.
ExitStatus(code) == code % 256

\* The footer, perhaps a repair, and the Job's exit code.
Return(r) ==
  /\ at[r] = "footer"
  /\ Ends(r, ExitStatus(verdict[r].code))
  /\ UNCHANGED <<folderVars, verdict, job, channel, frame, faults>>

\* The footer cannot be printed, or the repair raises.
ReturnFails(r) ==
  /\ at[r] = "footer"
  /\ \E code \in {1, 2} : Ends(r, code)
  /\ Fault
  /\ UNCHANGED <<folderVars, verdict, job, channel, frame>>

\* The process of r is killed where it is.  Its Job has a session of its own;
\* on Windows it is in the same job objects.
Killed(r) ==
  /\ at' = [at EXCEPT ![r] = "gone"]
  /\ torn' = IF Writing(r) = "none" THEN torn ELSE torn \cup {<<name[r], Writing(r), r>>}
  /\ job' = [job EXCEPT ![r] = IF windows /\ @ = "running" THEN "gone" ELSE @]

\* A Job that nobody waits for ends by itself.
OrphanEnds(r) ==
  /\ at[r] # "wait" /\ job[r] = "running"
  /\ job' = [job EXCEPT ![r] = "gone"]
  /\ UNCHANGED <<folderVars, verdict, channel, frame, exit, at, faults>>

\* What "coreme run" does by itself, its Job's timeout included.
RunProceeds(r) ==
  \/ CheckPasses(r) \/ CheckRefuses(r)
  \/ LookFindsOne(r) \/ LookFindsNone(r) \/ MakeParent(r) \/ MakeArtifacts(r)
  \/ Write(r) \/ JobStarts(r) \/ JobEnds(r) \/ JobTimesOut(r)
  \/ SendFrame(r) \/ Return(r)

RunFails(r) == WriteFails(r) \/ JobStartFails(r) \/ JobStopFails(r) \/ ReturnFails(r)

-----------------------------------------------------------------------------
(* Properties *)

\* Two Runs of one Job that start in the same second may both find the same
\* name free; only one of them gets the folder, the other writes nothing.
OwnFolder ==
  \A x, y \in wrote \cup torn : x[1] = y[1] => x[3] = y[3]

\* A reader that finds a complete run.json finds a complete log, the terminal
\* event and, exactly when the Run failed, fail.json, wherever the process was
\* killed and whichever write failed.
RecordSeals ==
  \A r \in Run : Wrote(r, "record") =>
    /\ \A f \in {"inputs", "start", "log", "end"} : Wrote(r, f)
    /\ Wrote(r, "fail") <=> Failed(r)
    /\ ~\E f \in File : <<name[r], f, r>> \in torn
=============================================================================
