--------------------------- MODULE AgentHomeProofs ---------------------------
(***************************************************************************)
(* What the two protocols of a workspace that share no file keep: the lock *)
(* file of the daemon, and the release cache of its slots.                 *)
(*                                                                         *)
(* When daemons of a workspace are started one after the other, the lock   *)
(* admits one at a time, whatever dies and whenever.  Jobs have the whole  *)
(* release under them as long as no two slots pull it together and no Job  *)
(* writes into its tree, for any slots and any files: the strengthening    *)
(* follows the one slot that pulls, what the two directories are at each   *)
(* place it may be (PullerKnows), so that no tree is ever taken away in    *)
(* part, and none is put in place that was not hashed.                     *)
(***************************************************************************)
EXTENDS DaemonLock, ReleaseCache, TLAPS

-----------------------------------------------------------------------------
(* The lock file (DaemonLock). *)

\* Only one process is inside acquire_lock.
OneStarting == \A p, q \in Process : Starting(p) /\ Starting(q) => p = q

\* The daemon that holds the lock has its pid in the file, and a process that
\* is starting meanwhile sees it there.
HolderInFile ==
  \A p \in Process : pc[p] = "held" =>
    /\ file = p
    /\ p \in written
    /\ \A q \in Process : pc[q] \notin {"unlink", "write"}
    /\ \A q \in Process : pc[q] = "judge" => seen[q] = p

\* The file a process is about to write to is still the one at lock_path.
WriterOwnsFile == \A p \in Process : pc[p] = "write" => file = p

LockInv == LockTypeOK /\ (~overlap => OneStarting /\ HolderInFile /\ WriterOwnsFile)

LEMMA LockInvStep ==
  ASSUME LockInv, [LockNext]_lockVars
  PROVE  LockInv'
<1> USE LockAssumption DEF LockInv, LockTypeOK, OneStarting, HolderInFile, WriterOwnsFile, Starting, Goes, PidAlive
<1>1. CASE UNCHANGED lockVars
  BY <1>1 DEF lockVars
<1>2. ASSUME NEW p \in Process, Start(p)
      PROVE  LockInv'
  BY <1>2 DEF Start
<1>3. ASSUME NEW p \in Process, Create(p)
      PROVE  LockInv'
  BY <1>3 DEF Create
<1>4. ASSUME NEW p \in Process, Exists(p)
      PROVE  LockInv'
  BY <1>4 DEF Exists
<1>5. ASSUME NEW p \in Process, ReadPid(p)
      PROVE  LockInv'
  BY <1>5 DEF ReadPid, Content
<1>6. ASSUME NEW p \in Process, Refuse(p)
      PROVE  LockInv'
  BY <1>6 DEF Refuse
<1>7. ASSUME NEW p \in Process, JudgeStale(p)
      PROVE  LockInv'
  BY <1>7 DEF JudgeStale
<1>8. ASSUME NEW p \in Process, UnlinkStale(p)
      PROVE  LockInv'
  BY <1>8 DEF UnlinkStale
<1>9. ASSUME NEW p \in Process, WritePid(p)
      PROVE  LockInv'
  BY <1>9 DEF WritePid
<1>10. ASSUME NEW p \in Process, Release(p)
       PROVE  LockInv'
  BY <1>10 DEF Release
<1>11. ASSUME NEW p \in Process, Die(p)
       PROVE  LockInv'
  BY <1>11 DEF Die
<1>12. QED
  BY <1>1, <1>2, <1>3, <1>4, <1>5, <1>6, <1>7, <1>8, <1>9, <1>10, <1>11 DEF LockNext, Acquire

\* Daemons started one after the other never hold the lock together.
THEOREM SerialStartsAreSafe == LockSpec => []SerialStartsExclude
<1>1. LockInit => LockInv
  BY LockAssumption DEF LockInit, LockInv, LockTypeOK, OneStarting, HolderInFile, WriterOwnsFile, Starting
<1>2. LockInv /\ [LockNext]_lockVars => LockInv'
  BY LockInvStep
<1>3. LockInv => SerialStartsExclude
  BY DEF LockInv, HolderInFile, SingleInstance, SerialStartsExclude
<1>4. QED
  BY <1>1, <1>2, <1>3, PTL DEF LockSpec

-----------------------------------------------------------------------------
(* The release cache (ReleaseCache). *)

\* An rmtree under way has a purpose.
Purposeful == \A s \in Slot : at[s] \in {"list", "unlink"} => why[s] # "none"

OnePuller ==
  \A s, o \in Slot : at[s] \in Pulling /\ at[o] \in Pulling => s = o

\* The one slot that pulls found no tree, removes nothing but .partial, and
\* renames what it has hashed.
PullerKnows ==
  \A s \in Slot :
    /\ at[s] \in Pulling => dest = Missing
    /\ at[s] \in {"list", "unlink"} => Victim(s) = "tmp"
    /\ at[s] = "rename" => tmp = File

CacheTypes == CacheTypeOK /\ Purposeful

CacheInv ==
  /\ CacheTypes
  /\ ~overlapped /\ ~dirtied => OnePuller /\ PullerKnows /\ JobsHaveTheirTree

LEMMA CacheTypeInit == CacheInit => CacheTypes
<1> USE DEF CacheInit, CacheTypes, CacheTypeOK, Purposeful, Tree, Ended, Purpose
<1> SUFFICES ASSUME CacheInit PROVE CacheTypes
  OBVIOUS
<1>1. dir \in [{"dest", "tmp"} -> Tree \cup {Missing}]
  OBVIOUS
<1>2. at \in [Slot -> Ended \cup {"look", "hash"} \cup Pulling]
  OBVIOUS
<1>3. unpack \in [Slot -> SUBSET File] /\ todo \in [Slot -> Tree] /\ why \in [Slot -> Purpose]
  OBVIOUS
<1>4. faults \in 0..MaxFaults
  BY CacheAssumption DEF CacheAssumption
<1>5. QED
  BY <1>1, <1>2, <1>3, <1>4

\* The directory an rmtree is about, and where its slot goes from there.
LEMMA RmtreeTypes ==
  ASSUME CacheTypes, NEW s \in Slot, at[s] \in {"list", "unlink"}
  PROVE  /\ Victim(s) \in {"dest", "tmp"}
         /\ AfterRmtree(s) \in {"download", "mkTmp", "refused", "dead"}
         /\ IgnoresErrors(s) => why[s] \in {"refused", "dead"}
<1>1. why[s] \in {"dest", "tmp", "refused", "dead"}
  BY DEF CacheTypes, CacheTypeOK, Purposeful, Purpose
<1>2. QED
  BY <1>1 DEF Victim, AfterRmtree, IgnoresErrors

LEMMA CacheTypeStep ==
  ASSUME CacheTypes, [CacheNext]_cacheVars
  PROVE  CacheTypes'
<1> USE CacheAssumption DEF CacheAssumption, CacheTypes, CacheTypeOK, Purposeful, Ended, Pulling,
        Purpose, Moves, Removes, Puts, Forgets, StartsPull, SameDirs, SameHistory, Fault, OSError
<1>1. CASE UNCHANGED cacheVars
  BY <1>1 DEF cacheVars
<1>2. CASE CacheDies
  <2>1. at' = [s \in Slot |-> "idle"] /\ unpack' = [s \in Slot |-> {}]
    BY <1>2 DEF CacheDies
  <2>2. /\ at' \in [Slot -> Ended] /\ unpack' \in [Slot -> SUBSET File]
        /\ \A s \in Slot : at'[s] = "idle"
    BY <2>1
  <2>3. survivor' \in BOOLEAN
    <3>1. survivor' = survivor \/ survivor' = TRUE
      BY <1>2, Zenon DEF CacheDies
    <3>2. QED
      BY <3>1
  <2>4. faults' \in 0..MaxFaults
    BY <1>2 DEF CacheDies
  <2>5. todo' \in [Slot -> Tree] /\ why' \in [Slot -> Purpose] /\ dir' = dir
        /\ overlapped' = overlapped /\ dirtied' = dirtied
    BY <1>2 DEF CacheDies, Tree
  <2>6. QED
    BY <2>2, <2>3, <2>4, <2>5
<1>3. CASE SurvivorEnds
  BY <1>3 DEF SurvivorEnds
<1>4. CASE JobWrites
  <2>1. dest \cup {Junk} \in Tree
    BY <1>4 DEF JobWrites, dest, Tree
  <2>2. QED
    BY <1>4, <2>1 DEF JobWrites
<1>5. ASSUME NEW s \in Slot,
             \/ Resolve(s) \/ LookFindsTree(s) \/ LookFindsNone(s) \/ HashMatches(s)
             \/ HashDiffers(s) \/ HashFails(s) \/ JobEnds(s)
      PROVE  CacheTypes'
  <2>1. CASE Resolve(s) \/ LookFindsTree(s) \/ HashMatches(s) \/ JobEnds(s)
    BY <2>1 DEF Resolve, LookFindsTree, HashMatches, JobEnds
  <2>2. CASE LookFindsNone(s)
    BY <2>2 DEF LookFindsNone
  <2>3. CASE HashDiffers(s)
    BY <2>3 DEF HashDiffers
  <2>4. CASE HashFails(s)
    BY <2>4 DEF HashFails
  <2>5. QED
    BY <1>5, <2>1, <2>2, <2>3, <2>4
<1>6. ASSUME NEW s \in Slot, ListTree(s)
      PROVE  CacheTypes'
  <2>1. dir[Victim(s)] \in Tree
    BY <1>6, RmtreeTypes DEF ListTree
  <2>2. QED
    BY <1>6, <2>1 DEF ListTree
<1>7. ASSUME NEW s \in Slot, NEW f \in File \cup {Junk}, Unlink(s, f)
      PROVE  CacheTypes'
  <2>1. Victim(s) \in {"dest", "tmp"}
    BY <1>7, RmtreeTypes DEF Unlink
  <2>2. dir[Victim(s)] \ {f} \in Tree \cup {Missing}
    BY <1>7, <2>1 DEF Tree, Missing
  <2>3. todo' \in [Slot -> Tree]
    BY <1>7 DEF Unlink, Tree
  <2>4. dir' \in [{"dest", "tmp"} -> Tree \cup {Missing}]
    <3>1. \/ dir' = dir
          \/ dir' = [dir EXCEPT ![Victim(s)] = dir[Victim(s)] \ {f}]
      BY <1>7 DEF Unlink
    <3>2. QED
      BY <2>1, <2>2, <3>1
  <2>5. QED
    BY <1>7, <2>3, <2>4 DEF Unlink
<1>8. ASSUME NEW s \in Slot, RemoveDir(s)
      PROVE  CacheTypes'
  <2>1. Victim(s) \in {"dest", "tmp"} /\ AfterRmtree(s) \in {"download", "mkTmp", "refused", "dead"}
    BY <1>8, RmtreeTypes DEF RemoveDir
  <2>2. QED
    BY <1>8, <2>1 DEF RemoveDir
<1>9. ASSUME NEW s \in Slot, RmtreeFails(s)
      PROVE  CacheTypes'
  <2>1. at' \in [Slot -> Ended \cup {"look", "hash"} \cup Pulling] /\ at'[s] \in {"refused", "dead"}
    BY <1>9, RmtreeTypes DEF RmtreeFails
  <2>2. {} \in Tree
    BY DEF Tree
  <2>3. QED
    BY <1>9, <2>1, <2>2 DEF RmtreeFails
<1>10. ASSUME NEW s \in Slot,
              Download(s) \/ DownloadWrong(s) \/ DownloadFails(s) \/ CheckTmp(s) \/ UnzipEnds(s)
       PROVE  CacheTypes'
  BY <1>10 DEF Download, DownloadWrong, DownloadFails, CheckTmp, UnzipEnds
<1>11. ASSUME NEW s \in Slot, MakeTmp(s) \/ MakeTmpFails(s)
       PROVE  CacheTypes'
  BY <1>11 DEF MakeTmp, MakeTmpFails, Tree
<1>12. ASSUME NEW s \in Slot, NEW f \in File, UnzipFile(s, f)
       PROVE  CacheTypes'
  <2>1. (IF tmp = Missing THEN {} ELSE tmp) \cup {f} \in Tree
    BY DEF Tree, tmp
  <2>2. dir' \in [{"dest", "tmp"} -> Tree \cup {Missing}] /\ unpack' \in [Slot -> SUBSET File]
    BY <1>12, <2>1 DEF UnzipFile
  <2>3. QED
    BY <1>12, <2>2 DEF UnzipFile
<1>13. ASSUME NEW s \in Slot, HashTmp(s) \/ TryFails(s) \/ TryBreaks(s)
       PROVE  CacheTypes'
  BY <1>13 DEF HashTmp, TryFails, TryBreaks
<1>14. ASSUME NEW s \in Slot, Publish(s)
       PROVE  CacheTypes'
  <2>1. dir' \in [{"dest", "tmp"} -> Tree \cup {Missing}]
    BY <1>14 DEF Publish, tmp
  <2>2. QED
    BY <1>14, <2>1 DEF Publish
<1>15. QED
  BY <1>1, <1>2, <1>3, <1>4, <1>5, <1>6, <1>7, <1>8, <1>9, <1>10, <1>11, <1>12, <1>13, <1>14
     DEF CacheNext, Proceeds

\* Every reachable state of the cache is well typed.
THEOREM CacheTypeCorrect == CacheSpec => []CacheTypeOK
BY CacheTypeInit, CacheTypeStep, PTL DEF CacheSpec, CacheTypes

LEMMA CacheStep ==
  ASSUME CacheInv, [CacheNext]_cacheVars
  PROVE  CacheInv'
<1> DEFINE Kept == OnePuller /\ PullerKnows /\ JobsHaveTheirTree
<1> CacheTypes'
  BY CacheTypeStep DEF CacheInv
<1> SUFFICES ASSUME ~overlapped' /\ ~dirtied' PROVE Kept'
  BY DEF CacheInv
<1>0. Missing # {} /\ Missing # File /\ File # {}
  BY CacheAssumption DEF Missing, CacheAssumption
<1>a. overlapped => overlapped'
  BY DEF CacheInv, CacheTypes, CacheTypeOK, cacheVars, CacheNext, Proceeds, JobWrites, CacheDies, SurvivorEnds,
         Resolve, LookFindsTree, LookFindsNone, HashMatches, HashDiffers, HashFails, JobEnds, ListTree,
         Unlink, RemoveDir, RmtreeFails, Download, DownloadWrong, DownloadFails, CheckTmp, UnzipEnds,
         MakeTmp, MakeTmpFails, UnzipFile, HashTmp, TryFails, TryBreaks, Publish, StartsPull, SameHistory,
         Fault, OSError
<1>b. dirtied => dirtied'
  BY DEF CacheInv, CacheTypes, CacheTypeOK, cacheVars, CacheNext, Proceeds, JobWrites, CacheDies, SurvivorEnds,
         Resolve, LookFindsTree, LookFindsNone, HashMatches, HashDiffers, HashFails, JobEnds, ListTree,
         Unlink, RemoveDir, RmtreeFails, Download, DownloadWrong, DownloadFails, CheckTmp, UnzipEnds,
         MakeTmp, MakeTmpFails, UnzipFile, HashTmp, TryFails, TryBreaks, Publish, StartsPull, SameHistory,
         Fault, OSError
<1>c. ~overlapped /\ ~dirtied /\ OnePuller /\ PullerKnows /\ dest \in {Missing, File}
      /\ (survivor \/ (\E s \in Slot : at[s] = "run") => dest = File)
  BY <1>a, <1>b DEF CacheInv, JobsHaveTheirTree
<1> USE <1>0, <1>c DEF CacheInv, CacheTypes, CacheTypeOK, OnePuller, PullerKnows, JobsHaveTheirTree,
        Pulling, Ended, Moves, Removes, Puts, Forgets, StartsPull, SameDirs, SameHistory, Fault, OSError,
        dest, tmp
<1>1. CASE UNCHANGED cacheVars
  BY <1>1 DEF cacheVars, Victim
<1>2. CASE CacheDies
  BY <1>2 DEF CacheDies
<1>3. CASE SurvivorEnds
  BY <1>3 DEF SurvivorEnds, Victim
<1>4. CASE JobWrites
  BY <1>4 DEF JobWrites
<1>5. ASSUME NEW s \in Slot,
             \/ Resolve(s) \/ LookFindsTree(s) \/ LookFindsNone(s) \/ HashMatches(s)
             \/ HashDiffers(s) \/ HashFails(s) \/ JobEnds(s)
      PROVE  Kept'
  BY <1>5 DEF Resolve, LookFindsTree, LookFindsNone, HashMatches, HashDiffers, HashFails, JobEnds,
              TreeMatches, Victim
<1>6. ASSUME NEW s \in Slot, ListTree(s)
      PROVE  Kept'
  BY <1>6 DEF ListTree, Victim
<1>7. ASSUME NEW s \in Slot, NEW f \in File \cup {Junk}, Unlink(s, f)
      PROVE  Kept'
  <2>1. Victim(s) = "tmp" /\ dest' = dest
    BY <1>7 DEF Unlink
  <2>2. \A o \in Slot : at[o] # "rename"
    BY <1>7 DEF Unlink
  <2>3. UNCHANGED <<at, why, survivor>>
    BY <1>7 DEF Unlink
  <2>4. QED
    BY <2>1, <2>2, <2>3 DEF Victim
<1>8. ASSUME NEW s \in Slot, RemoveDir(s)
      PROVE  Kept'
  <2>0. at[s] = "unlink" /\ Victim(s) = "tmp"
    BY <1>8 DEF RemoveDir
  <2>1. Victim(s) = "tmp" /\ dest' = dest /\ AfterRmtree(s) \in {"mkTmp", "refused", "dead"}
    <3>1. why[s] # "dest" /\ AfterRmtree(s) \in {"download", "mkTmp", "refused", "dead"}
      BY <2>0, RmtreeTypes DEF Victim
    <3>2. AfterRmtree(s) # "download"
      BY <2>0, <3>1, RmtreeTypes DEF AfterRmtree, Purpose
    <3>3. dest' = dest
      BY <1>8, <2>0 DEF RemoveDir
    <3>4. QED
      BY <2>0, <3>1, <3>2, <3>3
  <2>2. QED
    BY <1>8, <2>1 DEF RemoveDir, Victim
<1>9. ASSUME NEW s \in Slot, RmtreeFails(s)
      PROVE  Kept'
  <2>1. at'[s] \in {"refused", "dead"} /\ \A o \in Slot \ {s} : at'[o] = at[o] /\ why'[o] = why[o]
    BY <1>9, RmtreeTypes DEF RmtreeFails
  <2>2. UNCHANGED <<dir, survivor>>
    BY <1>9 DEF RmtreeFails
  <2>3. QED
    BY <1>9, <2>1, <2>2 DEF Victim
<1>10. ASSUME NEW s \in Slot,
              Download(s) \/ DownloadWrong(s) \/ DownloadFails(s) \/ CheckTmp(s) \/ UnzipEnds(s)
       PROVE  Kept'
  BY <1>10 DEF Download, DownloadWrong, DownloadFails, CheckTmp, UnzipEnds, Victim
<1>11. ASSUME NEW s \in Slot, MakeTmp(s) \/ MakeTmpFails(s)
       PROVE  Kept'
  BY <1>11 DEF MakeTmp, MakeTmpFails, Victim
<1>12. ASSUME NEW s \in Slot, NEW f \in File, UnzipFile(s, f)
       PROVE  Kept'
  BY <1>12 DEF UnzipFile, Victim
<1>13. ASSUME NEW s \in Slot, HashTmp(s) \/ TryFails(s) \/ TryBreaks(s)
       PROVE  Kept'
  BY <1>13 DEF HashTmp, TryFails, TryBreaks, TmpMatches, Victim
<1>14. ASSUME NEW s \in Slot, Publish(s)
       PROVE  Kept'
  BY <1>14 DEF Publish, Victim
<1>15. QED
  BY <1>1, <1>2, <1>3, <1>4, <1>5, <1>6, <1>7, <1>8, <1>9, <1>10, <1>11, <1>12, <1>13, <1>14
     DEF CacheNext, Proceeds

\* As long as no two slots have pulled together and no Job has written into
\* the tree, it is missing or whole, and whole under every running Job: for any
\* slots and files, and any number of failed pulls and crashes.
THEOREM CacheIsWhole == CacheSpec => []JobsHaveTheirTree
<1>1. CacheInit => CacheInv
  BY CacheTypeInit DEF CacheInit, CacheInv, OnePuller, PullerKnows, JobsHaveTheirTree, Pulling, dest
<1>2. CacheInv => JobsHaveTheirTree
  BY DEF CacheInv, JobsHaveTheirTree
<1>3. QED
  BY <1>1, <1>2, CacheStep, PTL DEF CacheSpec
=============================================================================
