-------------------------------- MODULE Ship --------------------------------
(***************************************************************************)
(* "coreme ship": a source Job is copied into a hidden directory of        *)
(* releases/, hashed, proved there, hashed again, and renamed to           *)
(* <name>-<version>.  Any number of ships run at once, and the source may  *)
(* be edited all the while.                                                *)
(*                                                                         *)
(* A tree is its JOB.toml, which is a version or Broken, and the rest of   *)
(* its files, which is the number of the edit that left them so.           *)
(***************************************************************************)
EXTENDS Integers, FiniteSets

CONSTANTS
  Shipper,     \* processes "coreme ship" of this Job
  Version,     \* versions, in their order
  MaxEdits,    \* bound: edits of the source, and of staged trees by proofs
  MaxMishaps   \* bound: crashes, and failures of the disk

ASSUME ShipAssumption ==
  /\ Version \subseteq Nat \ {0} /\ IsFiniteSet(Version)
  /\ MaxEdits \in Nat /\ MaxMishaps \in Nat

VARIABLES
  source,      \* the Job's folder
  releases,    \* releases/<name>-<version>
  ship,        \* what each ship does, and its hidden directory, if any
  proved,      \* history: trees their offline proof has passed on
  edits, mishaps

shipVars == <<source, releases, ship, proved, edits, mishaps>>

Broken == 0
NoTree == [toml |-> Broken, code |-> -1]
NoEnvelope == [version |-> Broken, hash |-> NoTree]
Tree == [toml : Version \cup {Broken}, code : -1..MaxEdits]
Envelope == [version : Version, hash : Tree] \cup {NoEnvelope}
NoRelease == [tree |-> NoTree, envelope |-> NoEnvelope]
AtRest == [pc |-> "idle", version |-> Broken, tree |-> NoTree, hash |-> NoTree,
           envelope |-> NoEnvelope]
ShipPlace == {"toml", "code", "hash", "prove", "rehash", "envelope",
              "recheck", "rename", "clean"}

ShipTypeOK ==
  /\ source \in Tree
  /\ releases \in [Version -> [tree : Tree, envelope : Envelope]]
  /\ ship \in [Shipper -> {AtRest} \cup
       [pc : ShipPlace, version : Version, tree : Tree, hash : Tree,
        envelope : Envelope]]
  /\ proved \subseteq Tree
  /\ edits \in 0..MaxEdits /\ mishaps \in 0..MaxMishaps

ShipInit ==
  /\ \E v \in Version : source = [toml |-> v, code |-> 0]
  /\ releases = [v \in Version |-> NoRelease]
  /\ ship = [s \in Shipper |-> AtRest]
  /\ proved = {}
  /\ edits = 0 /\ mishaps = 0

ToStage(s, from, to) == ship[s].pc = from /\ ship' = [ship EXCEPT ![s].pc = to]
Mishap == mishaps < MaxMishaps /\ mishaps' = mishaps + 1
Published(v) == releases[v] # NoRelease

\* An edit of the source leaves another JOB.toml or other files, maybe not for
\* good.
EditedSource ==
  /\ edits < MaxEdits /\ edits' = edits + 1
  /\ \/ \E v \in Version \cup {Broken} : source' = [source EXCEPT !.toml = v]
     \/ source' = [source EXCEPT !.code = edits + 1]

AuthorEdits ==
  /\ EditedSource
  /\ UNCHANGED <<releases, ship, proved, mishaps>>

\* The manifest is loaded, and its version decides the destination.  The hidden
\* directory is made.
Begin(s) ==
  /\ ship[s].pc = "idle"
  /\ source.toml # Broken
  /\ ~Published(source.toml)
  /\ ship' = [ship EXCEPT ![s] = [AtRest EXCEPT !.pc = "toml", !.version = source.toml]]
  /\ UNCHANGED <<source, releases, proved, edits, mishaps>>

\* Files are copied one after the other.
CopyToml(s) ==
  /\ ship[s].pc = "toml"
  /\ ship' = [ship EXCEPT ![s].pc = "code", ![s].tree.toml = source.toml]
  /\ UNCHANGED <<source, releases, proved, edits, mishaps>>

CopyCode(s) ==
  /\ ship[s].pc = "code"
  /\ ship' = [ship EXCEPT ![s].pc = "hash", ![s].tree.code = source.code]
  /\ UNCHANGED <<source, releases, proved, edits, mishaps>>

HashStage(s) ==
  /\ ship[s].pc = "hash"
  /\ ship' = [ship EXCEPT ![s].pc = "prove", ![s].hash = ship[s].tree]
  /\ UNCHANGED <<source, releases, proved, edits, mishaps>>

\* The proof runs in the staged tree, which it may write into.  It does not run
\* under a manifest that does not load.  The caches it leaves are removed, and
\* count in no hash.
ProofPasses(s) ==
  /\ ship[s].tree.toml # Broken
  /\ ToStage(s, "prove", "rehash")
  /\ proved' = proved \cup {ship[s].tree}
  /\ UNCHANGED <<source, releases, edits, mishaps>>

ProofMutates(s) ==
  /\ ship[s].pc = "prove" /\ ship[s].tree.toml # Broken
  /\ edits < MaxEdits /\ edits' = edits + 1
  /\ ship' = [ship EXCEPT ![s].pc = "rehash", ![s].tree.code = edits + 1]
  /\ proved' = proved \cup {ship[s].tree}
  /\ UNCHANGED <<source, releases, mishaps>>

ProofFails(s) ==
  /\ ToStage(s, "prove", "clean")
  /\ UNCHANGED <<source, releases, proved, edits, mishaps>>

\* Mutant of SameHash: the tree is not hashed again.
SameHashAlways(s) == TRUE

SameHash(s) == ship[s].tree = ship[s].hash

Rehash(s) ==
  /\ ToStage(s, "rehash", IF SameHash(s) THEN "envelope" ELSE "clean")
  /\ UNCHANGED <<source, releases, proved, edits, mishaps>>

WriteEnvelope(s) ==
  /\ ship[s].pc = "envelope"
  /\ ship' = [ship EXCEPT ![s].pc = "recheck",
        ![s].envelope = [version |-> ship[s].version, hash |-> ship[s].hash]]
  /\ UNCHANGED <<source, releases, proved, edits, mishaps>>

Recheck(s) ==
  /\ ToStage(s, "recheck", IF Published(ship[s].version) THEN "clean" ELSE "rename")
  /\ UNCHANGED <<source, releases, proved, edits, mishaps>>

\* Mutant of MayRename: the rename replaces what is there.
MayRenameOver(s) == TRUE

\* rename(2) replaces no directory that has a file in it.
MayRename(s) == ~Published(ship[s].version)

Rename(s) ==
  /\ ship[s].pc = "rename"
  /\ IF MayRename(s)
     THEN /\ releases' = [releases EXCEPT ![ship[s].version] =
                            [tree |-> ship[s].tree, envelope |-> ship[s].envelope]]
          /\ ship' = [ship EXCEPT ![s] = AtRest]
     ELSE ToStage(s, "rename", "clean") /\ UNCHANGED releases
  /\ UNCHANGED <<source, proved, edits, mishaps>>

Clean(s) ==
  /\ ship[s].pc = "clean"
  /\ ship' = [ship EXCEPT ![s] = AtRest]
  /\ UNCHANGED <<source, releases, proved, edits, mishaps>>

\* An OSError on the way, which the finally block answers ...
ShipFails(s) ==
  /\ ship[s].pc \in ShipPlace \ {"clean"}
  /\ ship' = [ship EXCEPT ![s].pc = "clean"]
  /\ Mishap
  /\ UNCHANGED <<source, releases, proved, edits>>

\* ... or one in it, or the end of the process.
ShipDies(s) ==
  /\ ship[s].pc \in ShipPlace
  /\ ship' = [ship EXCEPT ![s] = AtRest]
  /\ Mishap
  /\ UNCHANGED <<source, releases, proved, edits>>

ShipProceeds(s) ==
  \/ Begin(s) \/ CopyToml(s) \/ CopyCode(s) \/ HashStage(s)
  \/ ProofPasses(s) \/ ProofMutates(s) \/ ProofFails(s) \/ Rehash(s)
  \/ WriteEnvelope(s) \/ Recheck(s) \/ Rename(s) \/ Clean(s)

ShipNext == \E s \in Shipper : ShipProceeds(s) \/ ShipFails(s) \/ ShipDies(s)

\* Mutant of Candidates: hidden directories count.
CandidatesHidden ==
  {releases[v].envelope.version : v \in {w \in Version : Published(w)}}
    \cup {ship[s].envelope.version : s \in {t \in Shipper : ship[t].envelope # NoEnvelope}}

\* Versions find_latest_release finds: what has a RELEASE.json and no dot.
Candidates == {releases[v].envelope.version : v \in {w \in Version : Published(w)}}

\* The release a bare name stands for.
Latest ==
  IF Candidates = {} THEN 0
  ELSE CHOOSE v \in Candidates : \A w \in Candidates : w <= v

\* verify_release: the tree is the one that was hashed, and its JOB.toml names
\* the version of the envelope.
Verifies(v) ==
  /\ releases[v].tree = releases[v].envelope.hash
  /\ releases[v].tree.toml = releases[v].envelope.version

ShipSpec == ShipInit /\ [][ShipNext \/ AuthorEdits]_shipVars

-----------------------------------------------------------------------------
(* Properties *)

\* A release, once published, is what it was for ever, whoever ships the same
\* version at the same time.
Immutable ==
  [][\A v \in Version : Published(v) => releases'[v] = releases[v]]_shipVars

\* What is published is a tree whose offline proof passed, with the hash of
\* exactly that tree beside it, even when the proof writes into its tree or the
\* source changes under the copy.
ReleaseProved ==
  \A v \in Version : Published(v) =>
    /\ releases[v].tree \in proved
    /\ releases[v].envelope.hash = releases[v].tree

\* The release that a bare name runs is never an older one than before, and so
\* never one that a ship took back.
NeverOlder == [][Latest' >= Latest]_shipVars

\* What is published under a version verifies.  The version was read before the
\* copy, and JOB.toml may have changed in between.
PublishedVerifies == \A v \in Version : Published(v) => Verifies(v)
=============================================================================
