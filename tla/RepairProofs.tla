---------------------------- MODULE RepairProofs ----------------------------
(***************************************************************************)
(* What a release is and stays, and what a repair leaves behind, for any   *)
(* shippers, repairers and versions.                                       *)
(*                                                                         *)
(* A ship keeps the tree it proved under its hash (ShipKnows).  A Codex    *)
(* edits nothing but the source, because a repair that has no source never *)
(* starts one (RepairKnows): that is what makes releases immutable beside  *)
(* repairs.                                                                *)
(***************************************************************************)
EXTENDS Repair, FiniteSetTheorems, WellFoundedInduction, TLAPS

\* What a ship knows of its stage at each place.
StageIsKnown(s) ==
  /\ ship[s].pc = "prove" => ship[s].tree = ship[s].hash
  /\ ship[s].pc = "rehash" => ship[s].hash \in proved
  /\ ship[s].pc \in {"envelope", "recheck", "rename"} =>
       ship[s].tree = ship[s].hash /\ ship[s].hash \in proved
  /\ ship[s].pc \in {"recheck", "rename"} => ship[s].envelope.hash = ship[s].hash

ShipKnows == \A s \in Shipper : StageIsKnown(s)

\* A Codex has a source to work on, and whose start and end are logged.
FixIsKnown(p) ==
  /\ fix[p].pc \in {"idle", "brief"} => codex[p] = "none"
  /\ fix[p].pc = "spawn" => fix[p].target = Source /\ codex[p] = "none"
  /\ fix[p].pc = "codex" => codex[p] = "runs"
  /\ codex[p] \in {"runs", "stray"} => fix[p].target = Source
  /\ fix[p].pc \in {"spawn", "codex", "prove", "end"} => <<p, "start">> \in events
  /\ fix[p].status = "finished" => <<p, "start">> \in events
  /\ fix[p].pc \in {"json", "done"} => <<p, "end">> \in events
  /\ fix[p].pc \in {"prove", "end", "json"} => fix[p].status # Untouched

RepairKnows == \A p \in Repairer : FixIsKnown(p)

FolderInv == RepairTypeOK /\ ShipKnows /\ ReleaseProved /\ RepairKnows /\ OutcomeIsLogged

ShipType ==
  ship \in [Shipper -> {AtRest} \cup
    [pc : ShipPlace, version : Version, tree : Tree, hash : Tree, envelope : Envelope]]

-----------------------------------------------------------------------------
(* Types *)

LEMMA Constants ==
  /\ NoTree \in Tree /\ NoEnvelope \in Envelope
  /\ \A v \in Version, t \in Tree : [version |-> v, hash |-> t] \in Envelope
  /\ Version \subseteq Nat \ {0} /\ MaxEdits \in Nat /\ MaxMishaps \in Nat
  /\ Source \notin Version /\ NoTarget \notin Version /\ NoTarget # Source
BY ShipAssumption DEF ShipAssumption, NoTree, NoEnvelope, Tree, Envelope, Broken, Source, NoTarget

LEMMA StagedShip ==
  ASSUME ShipTypeOK, NEW s \in Shipper, ship[s].pc \in ShipPlace
  PROVE  ship[s] \in [pc : ShipPlace, version : Version, tree : Tree, hash : Tree,
                      envelope : Envelope]
BY DEF ShipTypeOK, AtRest, ShipPlace

LEMMA FreshShip ==
  ASSUME NEW v \in Version
  PROVE  [AtRest EXCEPT !.pc = "toml", !.version = v] \in
           [pc : {"toml"}, version : Version, tree : Tree, hash : Tree, envelope : Envelope]
BY Constants DEF AtRest

LEMMA ShipTypeInit == ShipInit => ShipTypeOK
<1> SUFFICES ASSUME ShipInit PROVE ShipTypeOK
  OBVIOUS
<1>1. source \in Tree
  BY Constants DEF ShipInit, Tree
<1>2. releases \in [Version -> [tree : Tree, envelope : Envelope]]
  BY Constants DEF ShipInit, NoRelease
<1>3. edits \in 0..MaxEdits /\ mishaps \in 0..MaxMishaps
  BY Constants DEF ShipInit
<1>4. QED
  BY <1>1, <1>2, <1>3 DEF ShipInit, ShipTypeOK

LEMMA EditType ==
  ASSUME ShipTypeOK, EditedSource
  PROVE  source' \in Tree /\ edits' \in 0..MaxEdits
BY Constants DEF ShipTypeOK, EditedSource, Tree

LEMMA ShipTypeStep ==
  ASSUME ShipTypeOK, ShipNext \/ AuthorEdits
  PROVE  ShipTypeOK'
<1> USE Constants DEF ShipTypeOK
<1>1. CASE AuthorEdits
  BY <1>1, EditType DEF AuthorEdits
<1>2. ASSUME NEW s \in Shipper, Begin(s)
      PROVE  ShipTypeOK'
  <2>1. source.toml \in Version
    <3>1. source.toml \in Version \cup {Broken}
      BY DEF Tree
    <3>2. QED
      BY <1>2, <3>1 DEF Begin
  <2>2. ShipType'
    BY <1>2, <2>1, FreshShip DEF Begin, ShipType, ShipPlace
  <2>3. QED
    BY <1>2, <2>2 DEF Begin, ShipType
<1>3. ASSUME NEW s \in Shipper, CopyToml(s)
      PROVE  ShipTypeOK'
  <2>1. [ship[s].tree EXCEPT !.toml = source.toml] \in Tree
    BY <1>3, StagedShip DEF CopyToml, ShipPlace, Tree
  <2>2. ship' = [ship EXCEPT ![s] = [ship[s] EXCEPT !.pc = "code",
                    !.tree = [ship[s].tree EXCEPT !.toml = source.toml]]]
    BY <1>3, StagedShip DEF CopyToml, ShipPlace
  <2>3. ShipType'
    BY <1>3, <2>1, <2>2, StagedShip DEF CopyToml, ShipPlace, ShipType
  <2>4. QED
    BY <1>3, <2>3 DEF CopyToml, ShipType
<1>4. ASSUME NEW s \in Shipper, CopyCode(s)
      PROVE  ShipTypeOK'
  <2>1. [ship[s].tree EXCEPT !.code = source.code] \in Tree
    BY <1>4, StagedShip DEF CopyCode, ShipPlace, Tree
  <2>2. ship' = [ship EXCEPT ![s] = [ship[s] EXCEPT !.pc = "hash",
                    !.tree = [ship[s].tree EXCEPT !.code = source.code]]]
    BY <1>4, StagedShip DEF CopyCode, ShipPlace
  <2>3. ShipType'
    BY <1>4, <2>1, <2>2, StagedShip DEF CopyCode, ShipPlace, ShipType
  <2>4. QED
    BY <1>4, <2>3 DEF CopyCode, ShipType
<1>5. ASSUME NEW s \in Shipper, ProofMutates(s)
      PROVE  ShipTypeOK'
  <2>1. [ship[s].tree EXCEPT !.code = edits + 1] \in Tree /\ edits' \in 0..MaxEdits
    BY <1>5, StagedShip DEF ProofMutates, ShipPlace, Tree
  <2>2. ship' = [ship EXCEPT ![s] = [ship[s] EXCEPT !.pc = "rehash",
                    !.tree = [ship[s].tree EXCEPT !.code = edits + 1]]]
    BY <1>5, StagedShip DEF ProofMutates, ShipPlace
  <2>3. ShipType'
    BY <1>5, <2>1, <2>2, StagedShip DEF ProofMutates, ShipPlace, ShipType
  <2>4. proved' \subseteq Tree
    BY <1>5, StagedShip DEF ProofMutates, ShipPlace
  <2>5. QED
    BY <1>5, <2>1, <2>3, <2>4 DEF ProofMutates, ShipType
<1>6. ASSUME NEW s \in Shipper, HashStage(s)
      PROVE  ShipTypeOK'
  <2>1. ShipType'
    BY ZenonT(60), <1>6, StagedShip DEF HashStage, ShipPlace, ShipType
  <2>2. QED
    BY <1>6, <2>1 DEF HashStage, ShipType
<1>7. ASSUME NEW s \in Shipper, WriteEnvelope(s)
      PROVE  ShipTypeOK'
  <2>1. [version |-> ship[s].version, hash |-> ship[s].hash] \in Envelope
    BY <1>7, StagedShip DEF WriteEnvelope, ShipPlace
  <2>2. ShipType'
    BY ZenonT(60), <1>7, <2>1, StagedShip DEF WriteEnvelope, ShipPlace, ShipType
  <2>3. QED
    BY <1>7, <2>2 DEF WriteEnvelope, ShipType
<1>8. ASSUME NEW s \in Shipper,
             ProofPasses(s) \/ ProofFails(s) \/ Rehash(s) \/ Recheck(s) \/ ShipFails(s)
      PROVE  ShipTypeOK'
  <2>1. /\ ship[s].pc \in ShipPlace
        /\ \E to \in ShipPlace : ship' = [ship EXCEPT ![s].pc = to]
    BY <1>8 DEF ProofPasses, ProofFails, Rehash, Recheck, ShipFails, ToStage, ShipPlace
  <2>2. ShipType'
    BY <2>1, StagedShip DEF ShipType
  <2>3. proved' \subseteq Tree
    BY <1>8, <2>1, StagedShip DEF ProofPasses, ProofFails, Rehash, Recheck, ShipFails
  <2>4. QED
    BY <1>8, <2>2, <2>3
       DEF ProofPasses, ProofFails, Rehash, Recheck, ShipFails, ShipType, Mishap
<1>9. ASSUME NEW s \in Shipper, Rename(s)
      PROVE  ShipTypeOK'
  <2>1. ship[s].pc = "rename" /\ ship[s].pc \in ShipPlace
    BY <1>9 DEF Rename, ToStage, ShipPlace
  <2>2. ShipType'
    BY <1>9, <2>1, StagedShip DEF Rename, ToStage, ShipType, ShipPlace
  <2>3. releases' \in [Version -> [tree : Tree, envelope : Envelope]]
    BY <1>9, <2>1, StagedShip DEF Rename
  <2>4. QED
    BY <1>9, <2>2, <2>3 DEF Rename, ShipType
<1>10. ASSUME NEW s \in Shipper, Clean(s) \/ ShipDies(s)
       PROVE  ShipTypeOK'
  BY <1>10 DEF Clean, ShipDies, Mishap
<1>11. QED
  BY <1>1, <1>2, <1>3, <1>4, <1>5, <1>6, <1>7, <1>8, <1>9, <1>10 DEF ShipNext, ShipProceeds

LEMMA ResolveSourceType == ResolveSource \in {NoTarget, Source}
<1> DEFINE found == {j \in Version \cup {Source} : IsJobDir(j) /\ ~LooksLikeRelease(j)}
<1>1. found \subseteq {Source}
  BY DEF LooksLikeRelease
<1>2. QED
  BY <1>1 DEF ResolveSource

\* A Codex leaves releases/ alone.
LEMMA CodexLeavesReleases ==
  ASSUME RepairKnows, NEW p \in Repairer, CodexEdits(p)
  PROVE  EditedSource /\ UNCHANGED <<releases, ship, proved, mishaps, repairVars>>
BY DEF RepairKnows, FixIsKnown, CodexEdits

LEMMA RepairTypeInit == RepairInit => RepairTypeOK
<1> SUFFICES ASSUME RepairInit PROVE RepairTypeOK
  OBVIOUS
<1>1. fix \in [Repairer -> [pc : Working \cup {"idle", "done", "raised", "dead"},
                           target : {NoTarget, Source}, status : Status]]
  BY DEF RepairInit, Waiting, Status, Untouched
<1>2. QED
  BY <1>1, ShipTypeInit DEF RepairInit, RepairTypeOK

LEMMA FreshRepair ==
  ASSUME NEW t \in {NoTarget, Source}
  PROVE  [Waiting EXCEPT !.pc = "brief", !.target = t] \in
           [pc : {"brief"}, target : {t}, status : {Untouched}]
BY DEF Waiting

FixPlace == Working \cup {"idle", "done", "raised", "dead"}

FixType == fix \in [Repairer -> [pc : FixPlace, target : {NoTarget, Source}, status : Status]]

LEMMA FixMoves ==
  ASSUME FixType, NEW p \in Repairer, NEW to \in FixPlace, FixTo(p, to)
  PROVE  FixType'
BY DEF FixType, FixTo

LEMMA FixStops ==
  ASSUME FixType, NEW p \in Repairer, NEW to \in FixPlace, NEW status \in Status,
         FixEnds(p, to, status)
  PROVE  FixType'
BY DEF FixType, FixEnds

LEMMA ShipsRest == ShipTypeOK /\ UNCHANGED shipVars => ShipTypeOK'
BY DEF ShipTypeOK, shipVars

EventsType == events \subseteq Repairer \X {"start", "end"}

LEMMA LogsType ==
  ASSUME EventsType, NEW p \in Repairer, NEW kind \in {"start", "end"}, Logs(p, kind)
  PROVE  EventsType'
BY DEF EventsType, Logs

LEMMA MishapType == ShipTypeOK /\ Mishap => mishaps' \in 0..MaxMishaps
BY Constants DEF ShipTypeOK, Mishap

LEMMA RepairTypeStep ==
  ASSUME RepairTypeOK, RepairKnows, [FolderNext]_folderVars
  PROVE  RepairTypeOK'
<1> USE DEF RepairTypeOK
<1>0. FixType /\ EventsType
  BY DEF FixType, FixPlace, EventsType
<1>1. CASE UNCHANGED folderVars
  BY <1>1, ShipsRest DEF folderVars, repairVars
<1>2. CASE (ShipNext \/ AuthorEdits) /\ UNCHANGED repairVars
  BY <1>2, ShipTypeStep DEF repairVars
<1>3. ASSUME NEW p \in Repairer, CodexEdits(p)
      PROVE  RepairTypeOK'
  BY <1>3, CodexLeavesReleases, EditType DEF ShipTypeOK, repairVars
<1>4. ASSUME NEW p \in Repairer, Start(p)
      PROVE  RepairTypeOK'
  <2>1. FixType'
    BY <1>0, <1>4, ResolveSourceType, FreshRepair
       DEF Start, FixType, FixPlace, Working, Status, Untouched
  <2>2. QED
    BY <1>4, <2>1, ShipsRest DEF Start, FixType, FixPlace
<1>5. ASSUME NEW p \in Repairer,
             \/ BriefRaises(p) \/ Skips(p) \/ Deploys(p) \/ Spawns(p) \/ CodexExits(p)
             \/ CodexTimesOut(p) \/ ProvesSource(p) \/ LogsEnd(p)
      PROVE  RepairTypeOK'
  <2>1. /\ {"raised", "spawn", "codex", "json", "end", "prove"} \subseteq FixPlace
        /\ {"error", "finished", "skipped_no_source", "codex_missing"} \subseteq Status
    BY DEF FixPlace, Working, Status
  <2>2. FixType'
    <3>1. CASE BriefRaises(p) \/ Deploys(p) \/ LogsEnd(p)
      BY <1>0, <2>1, <3>1, FixMoves DEF BriefRaises, Deploys, LogsEnd
    <3>2. CASE ProvesSource(p)
      <4>1. PICK to \in {"raised", "end"} : FixTo(p, to)
        BY <3>2 DEF ProvesSource
      <4>2. QED
        BY <1>0, <2>1, <4>1, FixMoves
    <3>3. CASE Skips(p)
      <4>1. PICK status \in {"skipped_no_source", "codex_missing"} : FixEnds(p, "json", status)
        BY <3>3 DEF Skips
      <4>2. QED
        BY ZenonT(60), <1>0, <2>1, <4>1, FixStops
    <3>5. CASE CodexExits(p)
      <4>1. PICK next \in {"prove", "end"} : FixEnds(p, next, "finished")
        BY <3>5 DEF CodexExits
      <4>2. QED
        BY <1>0, <2>1, <4>1, FixStops
    <3>6. CASE Spawns(p) \/ CodexTimesOut(p)
      BY <1>0, <2>1, <3>6, FixMoves, FixStops DEF Spawns, CodexTimesOut
    <3>4. QED
      BY <1>5, <3>1, <3>2, <3>3, <3>5, <3>6
  <2>3. codex' \in [Repairer -> {"none", "runs", "stray", "gone"}]
    BY <1>5 DEF BriefRaises, Skips, Deploys, Spawns, CodexExits, CodexTimesOut, ProvesSource,
                LogsEnd
  <2>4. EventsType'
    <3>1. UNCHANGED events \/ \E kind \in {"start", "end"} : Logs(p, kind)
      BY <1>5 DEF BriefRaises, Skips, Deploys, Spawns, CodexExits, CodexTimesOut, ProvesSource,
                  LogsEnd
    <3>2. CASE UNCHANGED events
      BY <1>0, <3>2 DEF EventsType
    <3>3. ASSUME NEW kind \in {"start", "end"}, Logs(p, kind)
          PROVE  EventsType'
      BY <1>0, <3>3, LogsType, Zenon
    <3>4. QED
      BY <3>1, <3>2, <3>3
  <2>5. UNCHANGED <<shipVars, run, repairJson>>
    BY <1>5 DEF BriefRaises, Skips, Deploys, Spawns, CodexExits, CodexTimesOut, ProvesSource,
                LogsEnd
  <2>6. ShipTypeOK'
    BY <2>5, ShipsRest
  <2>7. run' \in [of : Version \cup {Source}, files : {"whole", "no record", "torn"}]
    BY <2>5
  <2>8. QED
    BY <2>2, <2>3, <2>4, <2>5, <2>6, <2>7 DEF FixType, FixPlace, EventsType
<1>6. ASSUME NEW p \in Repairer, StrayEnds(p)
      PROVE  RepairTypeOK'
  BY <1>6, ShipsRest DEF StrayEnds
<1>7. ASSUME NEW p \in Repairer, WritesOutcome(p)
      PROVE  RepairTypeOK'
  <2>1. FixType'
    BY <1>0, <1>7, FixMoves DEF WritesOutcome, FixPlace, Status
  <2>2. fix[p].status \in Status \ {Untouched}
    BY <1>0, <1>7 DEF WritesOutcome, FixType, RepairKnows, FixIsKnown, InFix
  <2>3. repairJson' \in [by : Repairer, status : Status \ {Untouched}]
    BY <1>7, <2>2 DEF WritesOutcome
  <2>4. ShipTypeOK'
    BY <1>7, ShipsRest DEF WritesOutcome
  <2>5. UNCHANGED run /\ UNCHANGED codex /\ UNCHANGED events
    BY <1>7 DEF WritesOutcome
  <2>6. run' \in [of : Version \cup {Source}, files : {"whole", "no record", "torn"}]
    BY <2>5
  <2>7. QED
    BY <2>1, <2>3, <2>4, <2>5, <2>6 DEF FixType, FixPlace
<1>8. ASSUME NEW p \in Repairer, RepairFails(p) \/ RepairDies(p)
      PROVE  RepairTypeOK'
  <2>1. ShipTypeOK'
    <3>1. mishaps' \in 0..MaxMishaps
      BY <1>8, MishapType DEF RepairFails, RepairDies
    <3>2. QED
      <4>1. CASE RepairFails(p)
        BY <3>1, <4>1 DEF RepairFails, ShipTypeOK
      <4>2. CASE RepairDies(p)
        BY <3>1, <4>2 DEF RepairDies, ShipTypeOK
      <4>3. QED
        BY <1>8, <4>1, <4>2
  <2>2. FixType'
    BY <1>0, <1>8, FixMoves DEF RepairFails, RepairDies, FixPlace, Status
  <2>3. QED
    BY <1>8, <2>1, <2>2 DEF RepairFails, RepairDies, FixType, FixPlace
<1>9. QED
  BY <1>1, <1>2, <1>3, <1>4, <1>5, <1>6, <1>7, <1>8 DEF FolderNext, RepairNext, RepairProceeds

-----------------------------------------------------------------------------
(* What ships publish *)

LEMMA ShipKnowsInit == ShipInit => ShipKnows /\ ReleaseProved
BY DEF ShipInit, ShipKnows, StageIsKnown, AtRest, ReleaseProved, Published

LEMMA OthersKnow ==
  ASSUME ShipKnows, NEW s \in Shipper, StageIsKnown(s)',
         \A q \in Shipper \ {s} : ship'[q] = ship[q],
         proved \subseteq proved'
  PROVE  ShipKnows'
BY DEF ShipKnows, StageIsKnown

LEMMA StillProved ==
  ReleaseProved /\ UNCHANGED releases /\ proved \subseteq proved' => ReleaseProved'
BY DEF ReleaseProved, Published

LEMMA ShipKnowsStep ==
  ASSUME ShipTypeOK, ShipKnows, ReleaseProved, ShipNext \/ AuthorEdits
  PROVE  ShipKnows' /\ ReleaseProved'
<1>1. CASE AuthorEdits
  BY <1>1 DEF AuthorEdits, ShipKnows, StageIsKnown, ReleaseProved, Published
<1>2. ASSUME NEW s \in Shipper,
             Begin(s) \/ CopyToml(s) \/ CopyCode(s) \/ ProofFails(s) \/ Clean(s)
               \/ ShipFails(s) \/ ShipDies(s)
      PROVE  ShipKnows' /\ ReleaseProved'
  <2>1. /\ \A q \in Shipper \ {s} : ship'[q] = ship[q]
        /\ ship'[s].pc \in {"toml", "code", "hash", "clean", "idle"}
    <3>1. CASE Begin(s)
      BY <3>1 DEF Begin, ShipTypeOK, AtRest
    <3>2. CASE CopyToml(s) \/ CopyCode(s)
      BY <3>2, StagedShip DEF CopyToml, CopyCode, ShipTypeOK, ShipPlace
    <3>3. CASE ProofFails(s) \/ ShipFails(s)
      BY <3>3, StagedShip DEF ProofFails, ShipFails, ToStage, ShipTypeOK, ShipPlace
    <3>4. CASE Clean(s) \/ ShipDies(s)
      BY <3>4 DEF Clean, ShipDies, ShipTypeOK, AtRest
    <3>5. QED
      BY <1>2, <3>1, <3>2, <3>3, <3>4
  <2>2. UNCHANGED <<releases, proved>>
    BY <1>2 DEF Begin, CopyToml, CopyCode, ProofFails, Clean, ShipFails, ShipDies
  <2>3. StageIsKnown(s)'
    BY <2>1 DEF StageIsKnown
  <2>4. QED
    BY <2>1, <2>2, <2>3, OthersKnow, StillProved
<1>3. ASSUME NEW s \in Shipper, HashStage(s)
      PROVE  ShipKnows' /\ ReleaseProved'
  <2>1. StageIsKnown(s)' /\ \A q \in Shipper \ {s} : ship'[q] = ship[q]
    BY <1>3, StagedShip DEF HashStage, ShipTypeOK, ShipPlace, StageIsKnown
  <2>2. QED
    BY <1>3, <2>1, OthersKnow, StillProved DEF HashStage
<1>4. ASSUME NEW s \in Shipper, ProofPasses(s) \/ ProofMutates(s)
      PROVE  ShipKnows' /\ ReleaseProved'
  <2>1. ship[s].pc = "prove" /\ ship[s].tree = ship[s].hash
    BY <1>4 DEF ProofPasses, ProofMutates, ToStage, ShipKnows, StageIsKnown
  <2>2. /\ \A q \in Shipper \ {s} : ship'[q] = ship[q]
        /\ ship'[s].pc = "rehash" /\ ship'[s].hash = ship[s].hash
    BY <1>4, <2>1, StagedShip DEF ProofPasses, ProofMutates, ToStage, ShipTypeOK, ShipPlace
  <2>3. UNCHANGED releases /\ proved' = proved \cup {ship[s].hash}
    BY <1>4, <2>1 DEF ProofPasses, ProofMutates
  <2>4. StageIsKnown(s)'
    BY <2>2, <2>3 DEF StageIsKnown
  <2>5. QED
    BY <2>2, <2>3, <2>4, OthersKnow, StillProved
<1>5. ASSUME NEW s \in Shipper, Rehash(s) \/ WriteEnvelope(s) \/ Recheck(s)
      PROVE  ShipKnows' /\ ReleaseProved'
  <2>1. StageIsKnown(s)
    BY DEF ShipKnows
  <2>2. \A q \in Shipper \ {s} : ship'[q] = ship[q]
    BY <1>5, StagedShip DEF Rehash, WriteEnvelope, Recheck, ToStage, ShipTypeOK, ShipPlace
  <2>3. UNCHANGED <<releases, proved>>
    BY <1>5 DEF Rehash, WriteEnvelope, Recheck
  <2>4. StageIsKnown(s)'
    <3>1. CASE Rehash(s)
      BY <2>1, <2>3, <3>1, StagedShip
         DEF Rehash, SameHash, ToStage, ShipTypeOK, ShipPlace, StageIsKnown
    <3>2. CASE WriteEnvelope(s)
      BY <2>1, <2>3, <3>2, StagedShip DEF WriteEnvelope, ShipTypeOK, ShipPlace, StageIsKnown
    <3>3. CASE Recheck(s)
      BY <2>1, <2>3, <3>3, StagedShip
         DEF Recheck, ToStage, ShipTypeOK, ShipPlace, StageIsKnown
    <3>4. QED
      BY <1>5, <3>1, <3>2, <3>3
  <2>5. QED
    BY <2>2, <2>3, <2>4, OthersKnow, StillProved
<1>6. ASSUME NEW s \in Shipper, Rename(s)
      PROVE  ShipKnows' /\ ReleaseProved'
  <2>1. /\ ship[s].tree = ship[s].hash /\ ship[s].hash \in proved
        /\ ship[s].envelope.hash = ship[s].hash
    BY <1>6 DEF Rename, ToStage, ShipKnows, StageIsKnown
  <2>2. /\ \A q \in Shipper \ {s} : ship'[q] = ship[q]
        /\ ship'[s].pc \in {"idle", "clean"}
    BY <1>6, StagedShip DEF Rename, ToStage, ShipTypeOK, ShipPlace, AtRest
  <2>3. StageIsKnown(s)'
    BY <2>2 DEF StageIsKnown
  <2>4. ReleaseProved'
    BY <1>6, <2>1 DEF Rename, ReleaseProved, Published, ShipTypeOK
  <2>5. QED
    BY <1>6, <2>2, <2>3, <2>4, OthersKnow DEF Rename
<1>7. QED
  BY <1>1, <1>2, <1>3, <1>4, <1>5, <1>6 DEF ShipNext, ShipProceeds

-----------------------------------------------------------------------------
(* What a repair leaves behind *)

LEMMA RepairKnowsInit == RepairInit => RepairKnows /\ OutcomeIsLogged
<1> SUFFICES ASSUME RepairInit PROVE RepairKnows /\ OutcomeIsLogged
  OBVIOUS
<1>1. ASSUME NEW p \in Repairer
      PROVE  fix[p] = Waiting /\ codex[p] = "none"
  BY DEF RepairInit
<1>2. RepairKnows
  BY <1>1 DEF RepairKnows, FixIsKnown, Waiting, Untouched
<1>3. OutcomeIsLogged
  BY DEF RepairInit, OutcomeIsLogged
<1>4. QED
  BY <1>2, <1>3

LEMMA OtherFixesKnow ==
  ASSUME RepairKnows, NEW p \in Repairer, FixIsKnown(p)',
         \A q \in Repairer \ {p} : fix'[q] = fix[q] /\ codex'[q] = codex[q],
         events \subseteq events'
  PROVE  RepairKnows'
BY DEF RepairKnows, FixIsKnown

LEMMA StillLogged ==
  OutcomeIsLogged /\ UNCHANGED repairJson /\ events \subseteq events' => OutcomeIsLogged'
BY DEF OutcomeIsLogged

LEMMA RepairKnowsStep ==
  ASSUME RepairTypeOK, RepairKnows, OutcomeIsLogged, [FolderNext]_folderVars
  PROVE  RepairKnows' /\ OutcomeIsLogged'
<1>0. FixType /\ codex \in [Repairer -> {"none", "runs", "stray", "gone"}]
  BY DEF RepairTypeOK, FixType, FixPlace
<1>1. CASE UNCHANGED repairVars
  BY <1>1 DEF repairVars, RepairKnows, FixIsKnown, OutcomeIsLogged
<1>2. ASSUME NEW p \in Repairer, Start(p)
      PROVE  RepairKnows' /\ OutcomeIsLogged'
  <2>1. /\ \A q \in Repairer \ {p} : fix'[q] = fix[q] /\ codex'[q] = codex[q]
        /\ fix'[p].pc = "brief" /\ fix'[p].status = Untouched /\ codex'[p] = "none"
    BY <1>0, <1>2 DEF Start, FixType, Waiting, InFix, RepairKnows, FixIsKnown
  <2>2. FixIsKnown(p)'
    BY <2>1 DEF FixIsKnown, Untouched
  <2>3. QED
    BY <1>2, <2>1, <2>2, OtherFixesKnow, StillLogged DEF Start
<1>3. ASSUME NEW p \in Repairer,
             \/ BriefRaises(p) \/ Skips(p) \/ Deploys(p) \/ Spawns(p) \/ CodexExits(p)
             \/ CodexTimesOut(p) \/ ProvesSource(p) \/ LogsEnd(p) \/ StrayEnds(p)
             \/ RepairFails(p) \/ RepairDies(p)
      PROVE  RepairKnows' /\ OutcomeIsLogged'
  <2>0. FixIsKnown(p)
    BY DEF RepairKnows
  <2>1. \A q \in Repairer \ {p} : fix'[q] = fix[q] /\ codex'[q] = codex[q]
    BY <1>0, <1>3 DEF BriefRaises, Skips, Deploys, Spawns, CodexExits, CodexTimesOut,
       ProvesSource, LogsEnd, StrayEnds, RepairFails, RepairDies, FixTo, FixEnds, FixType
  <2>2. events \subseteq events' /\ UNCHANGED repairJson
    BY <1>3 DEF BriefRaises, Skips, Deploys, Spawns, CodexExits, CodexTimesOut, ProvesSource,
       LogsEnd, StrayEnds, RepairFails, RepairDies, Logs
  <2>3. FixIsKnown(p)'
    <3> USE DEF FixIsKnown, FixTo, FixEnds, FixType, InFix
    <3>1. CASE BriefRaises(p) \/ RepairFails(p)
      BY <1>0, <2>0, <3>1 DEF BriefRaises, RepairFails
    <3>2. CASE Skips(p)
      BY <1>0, <2>0, <3>2 DEF Skips, Logs, Untouched
    <3>3. CASE Deploys(p)
      BY <1>0, <2>0, <3>3 DEF Deploys, Logs
    <3>4. CASE Spawns(p)
      BY <1>0, <2>0, <3>4 DEF Spawns, Untouched
    <3>5. CASE CodexExits(p)
      <4>1. PICK next \in {"prove", "end"} : FixEnds(p, next, "finished")
        BY <3>5 DEF CodexExits
      <4>2. /\ fix'[p].pc = next /\ fix'[p].status = "finished"
            /\ fix'[p].target = fix[p].target /\ codex'[p] = "gone" /\ UNCHANGED events
        BY <1>0, <3>5, <4>1 DEF CodexExits
      <4>3. QED
        BY <2>0, <3>5, <4>2 DEF CodexExits, Untouched
    <3>6. CASE CodexTimesOut(p)
      <4>1. PICK left_over \in {"stray", "gone"} : codex' = [codex EXCEPT ![p] = left_over]
        BY <3>6 DEF CodexTimesOut
      <4>2. /\ fix'[p].pc = "end" /\ fix'[p].status = "error"
            /\ fix'[p].target = fix[p].target /\ codex'[p] = left_over /\ UNCHANGED events
        BY <1>0, <3>6, <4>1 DEF CodexTimesOut
      <4>3. fix[p].pc = "codex"
        BY <3>6 DEF CodexTimesOut
      <4>4. fix[p].target = Source
        BY <2>0, <4>3
      <4>5. QED
        BY <2>0, <4>2, <4>3, <4>4 DEF Untouched
    <3>7. CASE ProvesSource(p) \/ LogsEnd(p)
      BY <1>0, <2>0, <3>7 DEF ProvesSource, LogsEnd, Logs
    <3>8. CASE StrayEnds(p) \/ RepairDies(p)
      BY <1>0, <2>0, <3>8 DEF StrayEnds, RepairDies, Working
    <3>9. QED
      BY <1>3, <3>1, <3>2, <3>3, <3>4, <3>5, <3>6, <3>7, <3>8
  <2>4. QED
    BY <2>1, <2>2, <2>3, OtherFixesKnow, StillLogged
<1>4. ASSUME NEW p \in Repairer, WritesOutcome(p)
      PROVE  RepairKnows' /\ OutcomeIsLogged'
  <2>1. /\ \A q \in Repairer \ {p} : fix'[q] = fix[q] /\ codex'[q] = codex[q]
        /\ FixIsKnown(p) /\ FixIsKnown(p)'
    BY <1>0, <1>4 DEF WritesOutcome, FixTo, FixType, InFix, RepairKnows, FixIsKnown
  <2>2. OutcomeIsLogged'
    BY <1>4, <2>1 DEF WritesOutcome, InFix, FixIsKnown, OutcomeIsLogged
  <2>3. QED
    BY <1>4, <2>1, <2>2, OtherFixesKnow DEF WritesOutcome
<1>5. QED
  BY <1>1, <1>2, <1>3, <1>4, CodexLeavesReleases
     DEF FolderNext, RepairNext, RepairProceeds, folderVars

-----------------------------------------------------------------------------
(* The theorems *)

LEMMA FolderInit == RepairInit => FolderInv
BY RepairTypeInit, RepairKnowsInit, ShipKnowsInit DEF RepairInit, FolderInv

LEMMA FolderStep == FolderInv /\ [FolderNext]_folderVars => FolderInv'
<1> SUFFICES ASSUME FolderInv, [FolderNext]_folderVars PROVE FolderInv'
  OBVIOUS
<1>1. RepairTypeOK' /\ RepairKnows' /\ OutcomeIsLogged'
  BY RepairTypeStep, RepairKnowsStep DEF FolderInv
<1>2. CASE ShipNext \/ AuthorEdits
  BY <1>1, <1>2, ShipKnowsStep DEF FolderInv, RepairTypeOK
<1>3. CASE UNCHANGED <<releases, ship, proved>>
  BY <1>1, <1>3 DEF FolderInv, ShipKnows, StageIsKnown, ReleaseProved, Published
<1>4. QED
  <2>1. ASSUME NEW p \in Repairer, CodexEdits(p)
        PROVE  UNCHANGED <<releases, ship, proved>>
    BY <2>1, CodexLeavesReleases DEF FolderInv
  <2>2. ASSUME NEW p \in Repairer, RepairFails(p) \/ RepairDies(p)
        PROVE  UNCHANGED <<releases, ship, proved>>
    BY <2>2 DEF RepairFails, RepairDies
  <2>3. ASSUME NEW p \in Repairer,
               Start(p) \/ RepairProceeds(p) \/ CodexExits(p) \/ StrayEnds(p)
        PROVE  UNCHANGED <<releases, ship, proved>>
    BY <2>3 DEF Start, RepairProceeds, CodexExits, StrayEnds, BriefRaises, Skips, Deploys,
       Spawns, CodexTimesOut, ProvesSource, LogsEnd, WritesOutcome, shipVars
  <2>4. CASE UNCHANGED folderVars
    BY <1>3, <2>4 DEF folderVars, shipVars
  <2>5. QED
    BY <1>2, <1>3, <2>1, <2>2, <2>3, <2>4 DEF FolderNext, RepairNext

LEMMA FolderInvariant == FolderSpec => []FolderInv
BY FolderInit, FolderStep, PTL DEF FolderSpec

\* The state of releases, ships, repairs and the Run's folder has its type.
THEOREM RepairTypeCorrect == FolderSpec => []RepairTypeOK
<1>1. FolderInv => RepairTypeOK
  BY DEF FolderInv
<1>2. QED
  BY <1>1, FolderInvariant, PTL

\* Whatever is published was proved as it stands, with its own hash beside it,
\* whoever edits the source, ships it or repairs it in the meantime.
THEOREM PublishedIsProved == FolderSpec => []ReleaseProved
<1>1. FolderInv => ReleaseProved
  BY DEF FolderInv
<1>2. QED
  BY <1>1, FolderInvariant, PTL

\* The repair that repair.json tells of is in events.jsonl, whichever of the
\* repairs of a Run wrote the file last.
THEOREM OutcomesAreLogged == FolderSpec => []OutcomeIsLogged
<1>1. FolderInv => OutcomeIsLogged
  BY DEF FolderInv
<1>2. QED
  BY <1>1, FolderInvariant, PTL

LEMMA ReleaseStays ==
  FolderInv /\ [FolderNext]_folderVars =>
    \A v \in Version : Published(v) => releases'[v] = releases[v]
<1> SUFFICES ASSUME FolderInv, [FolderNext]_folderVars,
                    NEW v \in Version, Published(v)
             PROVE  releases'[v] = releases[v]
  OBVIOUS
<1>1. ASSUME NEW s \in Shipper, Rename(s)
      PROVE  releases'[v] = releases[v]
  BY <1>1 DEF Rename, MayRename, FolderInv, RepairTypeOK, ShipTypeOK
<1>2. ASSUME NEW s \in Shipper, ShipProceeds(s) \/ ShipFails(s) \/ ShipDies(s), ~Rename(s)
      PROVE  UNCHANGED releases
  BY <1>2 DEF ShipProceeds, ShipFails, ShipDies, Begin, CopyToml, CopyCode, HashStage,
     ProofPasses, ProofMutates, ProofFails, Rehash, WriteEnvelope, Recheck, Clean
<1>3. ASSUME NEW p \in Repairer, CodexEdits(p)
      PROVE  UNCHANGED releases
  BY <1>3, CodexLeavesReleases DEF FolderInv
<1>4. ASSUME NEW p \in Repairer, RepairFails(p) \/ RepairDies(p)
      PROVE  UNCHANGED releases
  BY <1>4 DEF RepairFails, RepairDies
<1>5. ASSUME NEW p \in Repairer,
             Start(p) \/ RepairProceeds(p) \/ CodexExits(p) \/ StrayEnds(p)
      PROVE  UNCHANGED releases
  BY <1>5 DEF Start, RepairProceeds, CodexExits, StrayEnds, BriefRaises, Skips, Deploys,
     Spawns, CodexTimesOut, ProvesSource, LogsEnd, WritesOutcome, shipVars
<1>6. CASE AuthorEdits \/ UNCHANGED folderVars
  BY <1>6 DEF AuthorEdits, folderVars, shipVars
<1>7. QED
  BY <1>1, <1>2, <1>3, <1>4, <1>5, <1>6 DEF FolderNext, RepairNext, ShipNext

\* A release, once published, stays what it is for any number of shippers,
\* repairers and versions.
THEOREM ReleasesAreImmutable == FolderSpec => Immutable
<1>1. FolderInv /\ [FolderNext]_folderVars =>
        [\A v \in Version : Published(v) => releases'[v] = releases[v]]_shipVars
  BY ReleaseStays
<1>2. QED
  BY <1>1, FolderInvariant, PTL DEF FolderSpec, Immutable

\* A repair does to the Job's folder only what its author might have done: each
\* step of a Codex, or of what it left behind, is an edit of the source, and no
\* repair touches a release or a ship under way (resolve_source, execute_repair).
THEOREM RepairsActAsAuthors ==
  FolderSpec => [][ShipNext \/ AuthorEdits \/ UNCHANGED <<source, releases, ship, proved, edits>>]_folderVars
<1>1. ASSUME FolderInv, [FolderNext]_folderVars
      PROVE  \/ ShipNext \/ AuthorEdits
             \/ UNCHANGED <<source, releases, ship, proved, edits>>
  <2>1. ASSUME NEW p \in Repairer, CodexEdits(p)
        PROVE  AuthorEdits
    <3>1. fix[p].target = Source
      BY <1>1, <2>1 DEF CodexEdits, FolderInv, RepairKnows, FixIsKnown
    <3>2. EditedSource /\ UNCHANGED releases /\ UNCHANGED <<ship, proved, mishaps>>
      BY <2>1, <3>1 DEF CodexEdits
    <3>3. QED
      BY <3>2 DEF AuthorEdits
  <2>2. ASSUME NEW p \in Repairer, RepairFails(p) \/ RepairDies(p)
        PROVE  UNCHANGED <<source, releases, ship, proved, edits>>
    BY <2>2 DEF RepairFails, RepairDies
  <2>3. ASSUME NEW p \in Repairer,
               Start(p) \/ RepairProceeds(p) \/ CodexExits(p) \/ StrayEnds(p)
        PROVE  UNCHANGED <<source, releases, ship, proved, edits>>
    BY <2>3 DEF Start, RepairProceeds, CodexExits, StrayEnds, BriefRaises, Skips, Deploys,
       Spawns, CodexTimesOut, ProvesSource, LogsEnd, WritesOutcome, shipVars
  <2>4. CASE UNCHANGED folderVars
    BY <2>4 DEF folderVars, shipVars
  <2>5. QED
    BY <1>1, <2>1, <2>2, <2>3, <2>4 DEF FolderNext, RepairNext
<1>2. FolderInv /\ [FolderNext]_folderVars =>
        [ShipNext \/ AuthorEdits \/ UNCHANGED <<source, releases, ship, proved, edits>>]_folderVars
  BY <1>1
<1>3. QED
  BY <1>2, FolderInvariant, PTL DEF FolderSpec

-----------------------------------------------------------------------------
(* The release a bare name stands for *)

Above(T, x) == {y \in T : y > x}

LEMMA MaxExists ==
  ASSUME NEW T \in SUBSET Nat, IsFiniteSet(T), T # {}
  PROVE  \E x \in T : \A y \in T : y <= x
<1> DEFINE Aboves == {Above(T, x) : x \in T}
<1>1. IsWellFoundedOn(StrictSubsetOrdering(T), FiniteSubsetsOf(T))
  BY FS_StrictSubsetOrderingWellFounded
<1>2. FiniteSubsetsOf(T) = SUBSET T
  BY FS_FiniteSubsetsOfFinite
<1>3. Aboves \subseteq SUBSET T /\ Aboves # {}
  BY DEF Above
<1>4. PICK least \in Aboves : \A other \in Aboves : ~ (<<other, least>> \in StrictSubsetOrdering(T))
  <2> HIDE DEF Aboves
  <2>1. IsWellFoundedOn(StrictSubsetOrdering(T), SUBSET T)
    BY <1>1, <1>2
  <2>2. \E least \in Aboves : \A other \in Aboves : ~ (<<other, least>> \in StrictSubsetOrdering(T))
    BY <2>1, <1>3, WFMin
  <2>3. QED
    BY <2>2
<1>5. PICK x \in T : least = Above(T, x)
  BY <1>4
<1>6. ASSUME NEW y \in T, ~(y <= x)
      PROVE  FALSE
  <2>1. x \in Nat /\ y \in Nat /\ y > x
    BY <1>5, <1>6
  <2>2. Above(T, y) \subseteq Above(T, x) /\ y \in Above(T, x) /\ y \notin Above(T, y)
    <3>1. \A z \in Above(T, y) : z \in T /\ z \in Nat /\ z > y
      BY DEF Above
    <3>2. \A z \in Above(T, y) : z > x
      BY <2>1, <3>1
    <3>3. Above(T, y) \subseteq Above(T, x)
      <4>1. ASSUME NEW z \in Above(T, y) PROVE z \in Above(T, x)
        BY <3>1, <3>2 DEF Above
      <4>2. QED
        BY <4>1
    <3>4. y \in Above(T, x) /\ y \notin Above(T, y)
      BY <1>6, <2>1 DEF Above
    <3>5. QED
      BY <3>3, <3>4
  <2>3. <<Above(T, y), least>> \in StrictSubsetOrdering(T)
    BY <2>2, <1>3, <1>5 DEF StrictSubsetOrdering
  <2>4. QED
    BY <1>4, <1>6, <2>3
<1>7. QED
  BY <1>5, <1>6

LEMMA CandidatesAreFinite ==
  ShipTypeOK => Candidates \in SUBSET Nat /\ IsFiniteSet(Candidates)
<1> SUFFICES ASSUME ShipTypeOK
             PROVE  Candidates \in SUBSET Nat /\ IsFiniteSet(Candidates)
  OBVIOUS
<1>1. Candidates \subseteq Version \cup {Broken}
  BY DEF ShipTypeOK, Candidates, Envelope, NoEnvelope
<1>2. IsFiniteSet(Version \cup {Broken})
  BY ShipAssumption, FS_Singleton, FS_Union DEF ShipAssumption
<1>3. Version \cup {Broken} \subseteq Nat
  BY ShipAssumption DEF ShipAssumption, Broken
<1>4. QED
  BY <1>1, <1>2, <1>3, FS_Subset

LatestOfAll ==
  /\ Latest \in Nat
  /\ \A w \in Candidates : w <= Latest
  /\ Candidates # {} => Latest \in Candidates

LEMMA LatestIsMax == ShipTypeOK => LatestOfAll
<1> SUFFICES ASSUME ShipTypeOK PROVE LatestOfAll
  OBVIOUS
<1> USE DEF LatestOfAll
<1>1. CASE Candidates = {}
  BY <1>1 DEF Latest
<1>2. CASE Candidates # {}
  <2>1. \E v \in Candidates : \A w \in Candidates : w <= v
    BY <1>2, CandidatesAreFinite, MaxExists
  <2>2. Latest \in Candidates /\ \A w \in Candidates : w <= Latest
    BY <1>2, <2>1 DEF Latest
  <2>3. QED
    BY <2>2, CandidatesAreFinite
<1>3. QED
  BY <1>1, <1>2

\* No ship and no repair makes a bare name stand for an older release, however
\* many run at once.
THEOREM LatestNeverOlder == FolderSpec => NeverOlder
<1>1. FolderInv /\ FolderInv' /\ [FolderNext]_folderVars => [Latest' >= Latest]_shipVars
  <2> SUFFICES ASSUME FolderInv, FolderInv', [FolderNext]_folderVars
               PROVE  Latest' >= Latest
    OBVIOUS
  <2>1. ShipTypeOK /\ ShipTypeOK'
    BY DEF FolderInv, RepairTypeOK
  <2>2. Candidates \subseteq Candidates'
    BY ReleaseStays DEF Candidates, Published
  <2>3. LatestOfAll /\ LatestOfAll'
    BY <2>1, LatestIsMax, PTL
  <2>4. CASE Candidates = {}
    BY <2>3, <2>4 DEF LatestOfAll, Latest
  <2>5. CASE Candidates # {}
    BY <2>2, <2>3, <2>5 DEF LatestOfAll
  <2>6. QED
    BY <2>4, <2>5
<1>2. QED
  BY <1>1, FolderInvariant, PTL DEF FolderSpec, NeverOlder
=============================================================================
