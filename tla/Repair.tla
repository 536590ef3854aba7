------------------------------- MODULE Repair -------------------------------
(***************************************************************************)
(* "coreme repair --exec", and "coreme run --auto-repair": a failed Run of *)
(* a Job is turned over to Codex, which edits the Job's source while it    *)
(* may be shipped, edited by its author, and repaired by somebody else.    *)
(* Several repairs of the one Run share its folder: events.jsonl, to which *)
(* they append, and repair.json, which they overwrite.                     *)
(***************************************************************************)
EXTENDS Ship

CONSTANT Repairer      \* processes that repair the Run, each once

VARIABLES
  run,         \* the failed Run: of a release, or of Source, and its files
  fix,         \* what each repairer does
  codex,       \* the Codex each has started
  events,      \* repair.start and repair.end in events.jsonl
  repairJson   \* repair.json: whose, and its status

repairVars == <<run, fix, codex, events, repairJson>>
folderVars == <<shipVars, repairVars>>

Source == 0
NoTarget == -1
Untouched == "none"
NoOutcome == [by |-> Untouched, status |-> Untouched]
Waiting == [pc |-> "idle", target |-> NoTarget, status |-> Untouched]
Working == {"brief", "spawn", "codex", "prove", "end", "json"}
Status == {Untouched, "skipped_no_source", "codex_missing", "error", "finished"}

RepairTypeOK ==
  /\ ShipTypeOK
  /\ run \in [of : Version \cup {Source}, files : {"whole", "no record", "torn"}]
  /\ fix \in [Repairer -> [pc : Working \cup {"idle", "done", "raised", "dead"},
                           target : {NoTarget, Source}, status : Status]]
  /\ codex \in [Repairer -> {"none", "runs", "stray", "gone"}]
  /\ events \subseteq Repairer \X {"start", "end"}
  /\ repairJson \in [by : Repairer, status : Status \ {Untouched}] \cup {NoOutcome}

RepairInit ==
  /\ ShipInit
  /\ run \in [of : Version \cup {Source}, files : {"whole", "no record", "torn"}]
  /\ fix = [p \in Repairer |-> Waiting]
  /\ codex = [p \in Repairer |-> "none"]
  /\ events = {} /\ repairJson = NoOutcome

InFix(p, s) == fix[p].pc = s
FixTo(p, s) == fix' = [fix EXCEPT ![p].pc = s]
FixEnds(p, s, status) == fix' = [fix EXCEPT ![p].pc = s, ![p].status = status]
Logs(p, kind) == events' = events \cup {<<p, kind>>}

\* Job folders below the repository's root.
IsJobDir(j) == IF j = Source THEN source.toml # Broken ELSE Published(j)

\* Mutant of LooksLikeRelease: the filter of release folders is gone.
LooksLikeReleaseNever(j) == FALSE

LooksLikeRelease(j) == j # Source

\* resolve_source: the folder the Run was of, unless that is a release, or
\* else the folder of that name; nothing without a run.json.
ResolveSource ==
  LET found == {j \in Version \cup {Source} : IsJobDir(j) /\ ~LooksLikeRelease(j)} IN
    IF run.files = "no record" \/ found = {} THEN NoTarget
    ELSE IF run.of \in found THEN run.of ELSE CHOOSE j \in found : TRUE

Start(p) ==
  /\ InFix(p, "idle")
  /\ run.of \in Version => Published(run.of)
  /\ fix' = [fix EXCEPT ![p] = [Waiting EXCEPT !.pc = "brief", !.target = ResolveSource]]
  /\ UNCHANGED <<shipVars, run, codex, events, repairJson>>

\* A fail.json cut short raises out of assemble_brief.
BriefRaises(p) ==
  /\ InFix(p, "brief") /\ run.files = "torn"
  /\ FixTo(p, "raised")
  /\ UNCHANGED <<shipVars, run, codex, events, repairJson>>

\* No source, or no Codex on the PATH: the end is logged at once.
Skips(p) ==
  /\ InFix(p, "brief") /\ run.files # "torn"
  /\ FixEnds(p, "json", IF fix[p].target = NoTarget THEN "skipped_no_source" ELSE "codex_missing")
  /\ Logs(p, "end")
  /\ UNCHANGED <<shipVars, run, codex, repairJson>>

Deploys(p) ==
  /\ InFix(p, "brief") /\ run.files # "torn"
  /\ fix[p].target # NoTarget
  /\ FixTo(p, "spawn")
  /\ Logs(p, "start")
  /\ UNCHANGED <<shipVars, run, codex, repairJson>>

Spawns(p) ==
  /\ InFix(p, "spawn")
  /\ \/ FixTo(p, "codex") /\ codex' = [codex EXCEPT ![p] = "runs"]
     \/ FixEnds(p, "end", "error") /\ UNCHANGED codex
  /\ UNCHANGED <<shipVars, run, events, repairJson>>

\* Codex edits the folder it was started in, and so do processes it started,
\* which nobody stops.
CodexEdits(p) ==
  /\ codex[p] \in {"runs", "stray"}
  /\ IF fix[p].target = Source
     THEN EditedSource /\ UNCHANGED releases
     ELSE /\ edits < MaxEdits /\ edits' = edits + 1
          /\ releases' = [releases EXCEPT ![fix[p].target].tree.code = edits + 1]
          /\ UNCHANGED source
  /\ UNCHANGED <<ship, proved, mishaps, repairVars>>

\* Codex exits; after a clean exit the source is proved, if that was asked for
\* (--repair-prove, COREME_REPAIR_PROVE, or an automatic repair).
CodexExits(p) ==
  /\ InFix(p, "codex")
  /\ \E next \in {"prove", "end"} : FixEnds(p, next, "finished")
  /\ codex' = [codex EXCEPT ![p] = "gone"]
  /\ UNCHANGED <<shipVars, run, events, repairJson>>

\* Mutant of CodexTimesOut: Codex has all the time it wants.
CodexTimesOutNever(p) == FALSE /\ UNCHANGED folderVars

\* subprocess.run kills Codex itself, and nothing that Codex started.
CodexTimesOut(p) ==
  /\ InFix(p, "codex")
  /\ FixEnds(p, "end", "error")
  /\ \E left_over \in {"stray", "gone"} : codex' = [codex EXCEPT ![p] = left_over]
  /\ UNCHANGED <<shipVars, run, events, repairJson>>

StrayEnds(p) ==
  /\ codex[p] = "stray"
  /\ codex' = [codex EXCEPT ![p] = "gone"]
  /\ UNCHANGED <<shipVars, run, fix, events, repairJson>>

\* The proof needs a manifest that loads, and its failure to load is not caught.
ProvesSource(p) ==
  /\ InFix(p, "prove")
  /\ FixTo(p, IF source.toml = Broken THEN "raised" ELSE "end")
  /\ UNCHANGED <<shipVars, run, codex, events, repairJson>>

LogsEnd(p) ==
  /\ InFix(p, "end")
  /\ FixTo(p, "json")
  /\ Logs(p, "end")
  /\ UNCHANGED <<shipVars, run, codex, repairJson>>

WritesOutcome(p) ==
  /\ InFix(p, "json")
  /\ FixTo(p, "done")
  /\ repairJson' = [by |-> p, status |-> fix[p].status]
  /\ UNCHANGED <<shipVars, run, codex, events>>

\* A write into the Run's folder fails ...
RepairFails(p) ==
  /\ fix[p].pc \in {"brief", "end", "json"}
  /\ FixTo(p, "raised")
  /\ Mishap
  /\ UNCHANGED <<source, releases, ship, proved, edits, run, codex, events, repairJson>>

\* ... or the repair is killed, and Codex is not.
RepairDies(p) ==
  /\ fix[p].pc \in Working
  /\ FixTo(p, "dead")
  /\ codex' = [codex EXCEPT ![p] = IF @ = "runs" THEN "stray" ELSE @]
  /\ Mishap
  /\ UNCHANGED <<source, releases, ship, proved, edits, run, events, repairJson>>

\* Steps a repair takes by itself.  Codex need not ever exit.
RepairProceeds(p) ==
  \/ BriefRaises(p) \/ Skips(p) \/ Deploys(p) \/ Spawns(p) \/ CodexTimesOut(p)
  \/ ProvesSource(p) \/ LogsEnd(p) \/ WritesOutcome(p)

RepairNext ==
  \E p \in Repairer :
    \/ Start(p) \/ RepairProceeds(p) \/ CodexExits(p)
    \/ CodexEdits(p) \/ StrayEnds(p) \/ RepairFails(p) \/ RepairDies(p)

FolderNext ==
  \/ (ShipNext \/ AuthorEdits) /\ UNCHANGED repairVars
  \/ RepairNext

FolderSpec ==
  /\ RepairInit /\ [][FolderNext]_folderVars
  /\ \A p \in Repairer : WF_folderVars(RepairProceeds(p))

-----------------------------------------------------------------------------
(* Properties *)

\* Who reads repair.json finds the repair it tells of ended in events.jsonl,
\* and, when it is "finished", started there, whichever repair of the Run wrote
\* the file last.
OutcomeIsLogged ==
  repairJson # NoOutcome =>
    /\ <<repairJson.by, "end">> \in events
    /\ repairJson.status = "finished" => <<repairJson.by, "start">> \in events

\* A repair that announced itself is heard of again: its end is logged even
\* when Codex never comes back, unless it is killed, or raises on the way.
StartIsAnswered ==
  \A p \in Repairer :
    <<p, "start">> \in events ~>
      <<p, "end">> \in events \/ fix[p].pc \in {"raised", "dead"}

\* A repair that is over leaves nobody behind who edits the source.  Processes
\* that Codex started outlive its timeout.
NobodyEditsAfter == \A p \in Repairer : fix[p].pc = "done" => codex[p] # "stray"
=============================================================================
