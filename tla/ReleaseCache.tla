---------------------------- MODULE ReleaseCache ----------------------------
(***************************************************************************)
(* One release in an agent's cache directory (resolve_release), under the  *)
(* slots of a daemon: <hex>/ is the tree Jobs run in, <hex>.partial/ the   *)
(* one a slot unpacks into.  Both are only paths: nothing keeps two slots  *)
(* from using them at the same time.  A tree is the set of files it has;   *)
(* Junk is whatever a Job that writes into its own tree adds or alters.    *)
(***************************************************************************)
EXTENDS Integers, FiniteSets

CONSTANTS
  Slot,        \* worker threads
  File,        \* files of the release
  Junk,        \* what a Job has written into its tree
  NoFile,      \* what no tree contains
  MaxFaults    \* bound: failed downloads, failed file operations and crashes

ASSUME CacheAssumption ==
  /\ File # {} /\ IsFiniteSet(File)
  /\ NoFile \notin File /\ Junk \notin File /\ Junk # NoFile
  /\ MaxFaults \in Nat

Missing == {NoFile}   \* no directory

VARIABLES
  dir,         \* the two directories: <hex>/ is "dest", <hex>.partial/ is "tmp"
  at,          \* where each slot is
  unpack,      \* files of its download a slot still has to unpack
  todo,        \* files its shutil.rmtree still has to unlink
  why,         \* what that is for
  survivor,    \* a Job of a daemon that died still runs in the tree
  overlapped,  \* history: a slot pulled while another one did
  dirtied,     \* history: a Job has written into its tree
  faults

cacheVars == <<dir, at, unpack, todo, why, survivor, overlapped, dirtied, faults>>

dest == dir["dest"]
tmp == dir["tmp"]

Tree == SUBSET (File \cup {Junk})
Pulling == {"list", "unlink", "download", "checkTmp", "mkTmp", "unzip", "hashTmp", "rename"}
Ended == {"idle", "run", "refused", "dead"}

\* rmtree(dest), rmtree(tmp), and the handler's with ignore_errors, after which
\* the worker reports a ReleasePullError or ends with any other exception.
Purpose == {"none", "dest", "tmp", "refused", "dead"}

CacheTypeOK ==
  /\ dir \in [{"dest", "tmp"} -> Tree \cup {Missing}]
  /\ at \in [Slot -> Ended \cup {"look", "hash"} \cup Pulling]
  /\ unpack \in [Slot -> SUBSET File]
  /\ todo \in [Slot -> Tree]
  /\ why \in [Slot -> Purpose]
  /\ survivor \in BOOLEAN
  /\ overlapped \in BOOLEAN /\ dirtied \in BOOLEAN
  /\ faults \in 0..MaxFaults

CacheInit ==
  /\ dir = [d \in {"dest", "tmp"} |-> Missing]
  /\ at = [s \in Slot |-> "idle"]
  /\ unpack = [s \in Slot |-> {}]
  /\ todo = [s \in Slot |-> {}]
  /\ why = [s \in Slot |-> "none"]
  /\ survivor = FALSE
  /\ overlapped = FALSE /\ dirtied = FALSE
  /\ faults = 0

Moves(s, from, to) == at[s] = from /\ at' = [at EXCEPT ![s] = to]
Puts(d, files) == dir' = [dir EXCEPT ![d] = files]
Removes(s, from, purpose) == Moves(s, from, "list") /\ why' = [why EXCEPT ![s] = purpose]

\* resolve_release returns or raises: what it was about is forgotten.
Forgets(s) ==
  /\ unpack' = [unpack EXCEPT ![s] = {}]
  /\ todo' = [todo EXCEPT ![s] = {}]
  /\ why' = [why EXCEPT ![s] = "none"]

\* From here on the slot changes the directories.
StartsPull(s) == overlapped' = (overlapped \/ \E o \in Slot \ {s} : at[o] \in Pulling)

SameHistory == UNCHANGED <<survivor, overlapped, dirtied, faults>>
SameDirs == UNCHANGED <<dir, unpack, todo, why>>
Fault == faults < MaxFaults /\ faults' = faults + 1 /\ UNCHANGED <<overlapped, dirtied>>
OSError == Fault /\ UNCHANGED survivor

\* A worker was handed an Assignment of this release.
Resolve(s) ==
  /\ at[s] \in Ended
  /\ at' = [at EXCEPT ![s] = "look"]
  /\ SameDirs /\ SameHistory

LookFindsTree(s) ==
  /\ dest # Missing
  /\ Moves(s, "look", "hash")
  /\ SameDirs /\ SameHistory

LookFindsNone(s) ==
  /\ dest = Missing
  /\ Moves(s, "look", "download") /\ StartsPull(s)
  /\ SameDirs /\ UNCHANGED <<survivor, dirtied, faults>>

TreeMatches == dest = File

\* The tree on disk is the release: it is used as it is.
HashMatches(s) ==
  /\ TreeMatches
  /\ Moves(s, "hash", "run")
  /\ SameDirs /\ SameHistory

HashDiffers(s) ==
  /\ dest # Missing /\ ~TreeMatches
  /\ Removes(s, "hash", "dest") /\ StartsPull(s)
  /\ UNCHANGED <<dir, unpack, todo, survivor, dirtied, faults>>

\* The tree went away since the look, or a file cannot be read: "cannot hash
\* release".
HashFails(s) ==
  /\ Moves(s, "hash", "refused")
  /\ SameDirs
  /\ \/ dest = Missing /\ SameHistory
     \/ OSError

-----------------------------------------------------------------------------
(* shutil.rmtree, file by file *)

Victim(s) == IF why[s] = "dest" THEN "dest" ELSE "tmp"
IgnoresErrors(s) == why[s] \in {"refused", "dead"}
AfterRmtree(s) ==
  CASE why[s] = "dest" -> "download" [] why[s] = "tmp" -> "mkTmp" [] OTHER -> why[s]

ListTree(s) ==
  /\ dir[Victim(s)] # Missing
  /\ Moves(s, "list", "unlink")
  /\ todo' = [todo EXCEPT ![s] = dir[Victim(s)]]
  /\ UNCHANGED <<dir, unpack, why>> /\ SameHistory

\* A file that somebody else has unlinked is passed over, or an error (before
\* Python 3.13); the handler passes over a file it cannot unlink.
Unlink(s, f) ==
  /\ at[s] = "unlink" /\ f \in todo[s]
  /\ todo' = [todo EXCEPT ![s] = @ \ {f}]
  /\ \/ Puts(Victim(s), dir[Victim(s)] \ {f}) /\ SameHistory
     \/ IgnoresErrors(s) /\ UNCHANGED dir /\ OSError
  /\ UNCHANGED <<at, unpack, why>>

RemoveDir(s) ==
  /\ todo[s] = {} /\ dir[Victim(s)] = {}
  /\ Moves(s, "unlink", AfterRmtree(s))
  /\ Puts(Victim(s), Missing)
  /\ why' = [why EXCEPT ![s] = "none"]
  /\ UNCHANGED <<unpack, todo>> /\ SameHistory

\* The directory is gone, a file of it is, or somebody has put a file there.
RmtreeErrs(s) ==
  LET d == dir[Victim(s)]
  IN \/ at[s] = "list" /\ d = Missing
     \/ at[s] = "unlink" /\ todo[s] = {} /\ d # {}
     \/ at[s] = "unlink" /\ ~IgnoresErrors(s) /\ ~(todo[s] \subseteq d)

\* An OSError, which no handler of the worker knows: what is left is left.
RmtreeFails(s) ==
  /\ at[s] \in {"list", "unlink"}
  /\ at' = [at EXCEPT ![s] = IF IgnoresErrors(s) THEN why[s] ELSE "dead"]
  /\ Forgets(s)
  /\ \/ RmtreeErrs(s) /\ SameHistory
     \/ OSError
  /\ UNCHANGED dir

-----------------------------------------------------------------------------
(* Download, unpack, publish *)

Download(s) ==
  /\ Moves(s, "download", "checkTmp")
  /\ unpack' = [unpack EXCEPT ![s] = File]
  /\ UNCHANGED <<dir, todo, why>> /\ SameHistory

\* What blob_url serves is another zip of that size, or no size is recorded.
DownloadWrong(s) ==
  /\ Moves(s, "download", "checkTmp")
  /\ \E files \in SUBSET File \ {File} : unpack' = [unpack EXCEPT ![s] = files]
  /\ UNCHANGED <<dir, todo, why>> /\ OSError

\* A size that is not the recorded one is reported; any other failure is not.
DownloadFails(s) ==
  /\ Moves(s, "download", "refused") \/ Moves(s, "download", "dead")
  /\ SameDirs /\ OSError

\* Mutant of ClearsTmp: what an earlier pull left is not removed.
ClearsNothing == FALSE

ClearsTmp == tmp # Missing

\* rmtree(tmp), of what an earlier pull left or another slot is filling.
CheckTmp(s) ==
  /\ IF ClearsTmp THEN Removes(s, "checkTmp", "tmp")
                  ELSE Moves(s, "checkTmp", "mkTmp") /\ UNCHANGED why
  /\ UNCHANGED <<dir, unpack, todo>> /\ SameHistory

MakeTmp(s) ==
  /\ tmp = Missing
  /\ Moves(s, "mkTmp", "unzip")
  /\ Puts("tmp", {})
  /\ UNCHANGED <<unpack, todo, why>> /\ SameHistory

\* FileExistsError or another OSError, outside the try block.
MakeTmpFails(s) ==
  /\ Moves(s, "mkTmp", "dead")
  /\ Forgets(s)
  /\ \/ tmp # Missing /\ SameHistory
     \/ OSError
  /\ UNCHANGED dir

\* unzip_tree makes the parent again when it is gone.
UnzipFile(s, f) ==
  /\ at[s] = "unzip" /\ f \in unpack[s]
  /\ Puts("tmp", (IF tmp = Missing THEN {} ELSE tmp) \cup {f})
  /\ unpack' = [unpack EXCEPT ![s] = @ \ {f}]
  /\ UNCHANGED <<at, todo, why>> /\ SameHistory

UnzipEnds(s) ==
  /\ unpack[s] = {}
  /\ Moves(s, "unzip", "hashTmp")
  /\ SameDirs /\ SameHistory

\* Mutant of TmpMatches: what was unpacked is not hashed.
TmpUnchecked == TRUE

TmpMatches == tmp = File

HashTmp(s) ==
  /\ TmpMatches
  /\ Moves(s, "hashTmp", "rename")
  /\ SameDirs /\ SameHistory

\* rename(2) replaces an empty directory and no other.
Publish(s) ==
  /\ tmp # Missing
  /\ dest \in {Missing, {}}
  /\ Moves(s, "rename", "run")
  /\ dir' = [dest |-> tmp, tmp |-> Missing]
  /\ UNCHANGED <<unpack, todo, why>> /\ SameHistory

\* What was unpacked is not the release, or there is nothing to rename or no
\* place for it: the handler removes .partial, whoever is filling it now.
TryFails(s) ==
  /\ \/ ~TmpMatches /\ Removes(s, "hashTmp", "refused")
     \/ (tmp = Missing \/ dest \notin {Missing, {}}) /\ Removes(s, "rename", "dead")
  /\ UNCHANGED <<dir, unpack, todo>> /\ SameHistory

\* The disk is full, the archive is broken, or the parent went away in between.
TryBreaks(s) ==
  /\ \E p \in {"unzip", "hashTmp", "rename"}, end \in {"refused", "dead"} : Removes(s, p, end)
  /\ unpack' = [unpack EXCEPT ![s] = {}]
  /\ UNCHANGED <<dir, todo>> /\ OSError

-----------------------------------------------------------------------------
(* Jobs and crashes *)

\* A Job writes into the tree it runs in.
JobWrites ==
  /\ survivor \/ \E s \in Slot : at[s] = "run"
  /\ dest # Missing
  /\ Puts("dest", dest \cup {Junk})
  /\ dirtied' = TRUE
  /\ UNCHANGED <<at, unpack, todo, why, survivor, overlapped, faults>>

JobEnds(s) ==
  /\ Moves(s, "run", "idle")
  /\ SameDirs /\ SameHistory

\* The daemon's process ends, with every slot, and is started again.  A Job of
\* its own session may go on in the tree.
CacheDies ==
  /\ at' = [s \in Slot |-> "idle"]
  /\ unpack' = [s \in Slot |-> {}]
  /\ todo' = [s \in Slot |-> {}]
  /\ why' = [s \in Slot |-> "none"]
  /\ UNCHANGED survivor \/ (survivor' = TRUE /\ \E s \in Slot : at[s] = "run")
  /\ Fault
  /\ UNCHANGED dir

SurvivorEnds ==
  /\ survivor /\ survivor' = FALSE
  /\ SameDirs /\ UNCHANGED <<at, overlapped, dirtied, faults>>

\* A worker thread that has begun runs on, and its Job ends.
Proceeds(s) ==
  \/ LookFindsTree(s) \/ LookFindsNone(s)
  \/ HashMatches(s) \/ HashDiffers(s) \/ HashFails(s)
  \/ ListTree(s) \/ (\E f \in File \cup {Junk} : Unlink(s, f)) \/ RemoveDir(s) \/ RmtreeFails(s)
  \/ Download(s) \/ CheckTmp(s) \/ MakeTmp(s) \/ MakeTmpFails(s)
  \/ (\E f \in File : UnzipFile(s, f)) \/ UnzipEnds(s)
  \/ HashTmp(s) \/ Publish(s) \/ TryFails(s)
  \/ JobEnds(s)

CacheNext ==
  \/ JobWrites \/ CacheDies \/ SurvivorEnds
  \/ \E s \in Slot :
       \/ Resolve(s) \/ Proceeds(s)
       \/ DownloadWrong(s) \/ DownloadFails(s) \/ TryBreaks(s)

CacheSpec == CacheInit /\ [][CacheNext]_cacheVars
             /\ \A s \in Slot : WF_cacheVars(Proceeds(s))

-----------------------------------------------------------------------------
(* Properties *)

\* "Return a verified cache directory": as long as no two slots have pulled the
\* release at the same time and no Job has written into its tree, the tree is
\* not there or is the whole release, and every running Job has it under it:
\* however many slots share it, whatever download, unpacking, removal or crash
\* in the middle of a pull has left behind, and also a Job that outlived its
\* daemon.
JobsHaveTheirTree ==
  ~overlapped /\ ~dirtied =>
    /\ dest \in {Missing, File}
    /\ survivor \/ (\E s \in Slot : at[s] = "run") => dest = File

\* "Re-downloads when the cache is missing or dirty": whatever other slots,
\* Jobs, crashes and failures have left in the two directories, half removed or
\* half unpacked, a slot that is alone from some time on and asked for the
\* release again and again runs it again and again.
Heals ==
  \A s \in Slot :
    <>[](~survivor /\ \A o \in Slot \ {s} : at[o] = "idle") /\ []<>(at[s] = "look")
      => []<>(at[s] = "run")

\* The same with no condition on what the slots do together: every Job that is
\* started is started on the whole release.
StartsOnWhole ==
  [][\A s \in Slot : at[s] # "run" /\ at'[s] = "run" => dest' = File]_cacheVars
=============================================================================
