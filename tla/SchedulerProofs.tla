--------------------------- MODULE SchedulerProofs --------------------------
(***************************************************************************)
(* What holds of the catalogue and of the scheduler that resolves releases *)
(* in it, for any number of clients, hashes, schedules and tickers.        *)
(*                                                                         *)
(* The catalogue: names and hashes stay one to one, and every row of the   *)
(* hub has its blob.  The identity rests on what a row that is inserted    *)
(* and not committed excludes (PendingFits); the blobs on who still has a  *)
(* file open (OpenWhileWriting, TornIsOpen).                               *)
(*                                                                         *)
(* The scheduler: an occasion creates one Assignment or is skipped, which  *)
(* rests on the row locks of the ticks (RowsLocked) and on the identity:   *)
(* a tick finds at most one hash for a release (DraftsFit).                *)
(***************************************************************************)
EXTENDS Scheduler, FiniteSetTheorems, FunctionTheorems, TLAPS

\* A row on its way in clashes with no committed row and with no other one.
PendingFits ==
  \A c \in pending :
    /\ reg[c].pc = "commit"
    /\ release[reg[c].hash] = None
    /\ ~NameTaken(c)
    /\ \A d \in pending \ {c} : ~Clashes(c, d)

\* Who is about to be answered without having inserted has found the row.
AnswerIsThere ==
  \A c \in Client \ pending :
    reg[c].pc = "commit" => release[reg[c].hash] = reg[c].ident

IdentityInv == CatTypeOK /\ PendingFits /\ AnswerIsThere /\ OneIdentity

\* A client has a file open exactly while it writes it.
OpenWhileWriting == \A c \in Client : handle[c] # "none" => reg[c].pc = "write"

Excused(h, where) ==
  h \in spoilt \/ \E c \in Client : reg[c].hash = h /\ handle[c] = where

\* Torn files are open somewhere, or were cut short.
TornIsOpen ==
  \A h \in Hash :
    /\ partial[h] = "torn" => Excused(h, "partial")
    /\ blob[h] = "torn" => Excused(h, "blob")

PastBlob == {"byName", "byHash", "insert", "commit"}

\* The blob comes first: before the row, and before anything that makes it.
BlobFirst ==
  /\ \A h \in hosted : blob[h] # "none"
  /\ \A c \in Client : reg[c].zip /\ reg[c].pc \in PastBlob => blob[reg[c].hash] # "none"

BlobInv == CatTypeOK /\ OpenWhileWriting /\ TornIsOpen /\ BlobFirst

-----------------------------------------------------------------------------
(* Types *)

LEMMA CatTypeInit == CatInit => CatTypeOK
BY CatalogueAssumption DEF CatInit, CatTypeOK, Content, Idle, CatalogueAssumption

LEMMA CatTypeStep ==
  ASSUME CatTypeOK, [CatNext \/ CatDies]_catVars
  PROVE  CatTypeOK'
<1> USE CatalogueAssumption DEF CatalogueAssumption, CatTypeOK, Content, Idle, Stages,
        rowVars, blobVars, At, Step, Ends
<1>1. CASE UNCHANGED catVars
  BY <1>1 DEF catVars
<1>2. ASSUME NEW c \in Client, NEW h \in Hash, NEW n \in Ident,
             RegisterTree(c, h, n) \/ RegisterUrl(c, h, n)
      PROVE  CatTypeOK'
  <2>1. \E s \in {"open", "byName"}, z \in BOOLEAN :
          reg' = [reg EXCEPT ![c] = [pc |-> s, hash |-> h, ident |-> n, zip |-> z]]
    BY <1>2 DEF RegisterTree, RegisterUrl
  <2>2. reg' \in [Client -> {Idle} \cup
           [pc : Stages \ {"idle"}, hash : Hash, ident : Ident, zip : BOOLEAN]]
    BY <2>1
  <2>3. QED
    BY <1>2, <2>2 DEF RegisterTree, RegisterUrl
<1>3. ASSUME NEW c \in Client, OpenPartial(c) PROVE CatTypeOK'
  BY <1>3 DEF OpenPartial
<1>4. ASSUME NEW c \in Client, WritePartial(c) PROVE CatTypeOK'
  BY <1>4 DEF WritePartial
<1>5. ASSUME NEW c \in Client, WriteFails(c) PROVE CatTypeOK'
  BY <1>5 DEF WriteFails
<1>6. ASSUME NEW c \in Client, PutBlob(c) PROVE CatTypeOK'
  <2>1. Moved(c) \in [Client -> {"none", "partial", "blob", "gone"}]
    BY DEF Moved
  <2>2. reg[c] # Idle /\ reg[c].hash \in Hash
    BY <1>6 DEF PutBlob
  <2>3. reg' \in [Client -> {Idle} \cup
           [pc : Stages \ {"idle"}, hash : Hash, ident : Ident, zip : BOOLEAN]]
    BY <1>6, <2>2 DEF PutBlob
  <2>4. /\ blob' \in [Hash -> Content] /\ partial' \in [Hash -> Content]
        /\ spoilt' \subseteq Hash
    BY <1>6, <2>2 DEF PutBlob
  <2>5. QED
    BY <1>6, <2>1, <2>3, <2>4 DEF PutBlob
<1>7. ASSUME NEW c \in Client, PutBlobFails(c) PROVE CatTypeOK'
  BY <1>7 DEF PutBlobFails
<1>8. ASSUME NEW c \in Client, CheckName(c) \/ CheckHash(c) PROVE CatTypeOK'
  BY <1>8 DEF CheckName, CheckHash
<1>9. ASSUME NEW c \in Client, Insert(c) PROVE CatTypeOK'
  BY <1>9 DEF Insert
<1>10. ASSUME NEW c \in Client, Commit(c) PROVE CatTypeOK'
  BY <1>10 DEF Commit
<1>11. CASE CatDies
  BY <1>11 DEF CatDies
<1>12. QED
  BY <1>1, <1>2, <1>3, <1>4, <1>5, <1>6, <1>7, <1>8, <1>9, <1>10, <1>11 DEF CatNext

\* Every reachable state of the catalogue is well typed.
THEOREM CatTypeCorrect == CatSpec => []CatTypeOK
BY CatTypeInit, CatTypeStep, PTL DEF CatSpec

-----------------------------------------------------------------------------
(* One identity *)

LEMMA IdentityStep ==
  ASSUME IdentityInv, [CatNext \/ CatDies]_catVars
  PROVE  IdentityInv'
<1> USE CatalogueAssumption DEF CatalogueAssumption, IdentityInv, CatTypeOK, PendingFits,
        AnswerIsThere, OneIdentity, NameTaken, Clashes, Idle, Stages, rowVars, blobVars,
        At, Step, Ends
<1> CatTypeOK'
  BY CatTypeStep
<1> SUFFICES (PendingFits /\ AnswerIsThere /\ OneIdentity)'
  OBVIOUS
<1>1. CASE UNCHANGED catVars
  BY <1>1 DEF catVars
<1>2. ASSUME NEW c \in Client, NEW h \in Hash, NEW n \in Ident,
             RegisterTree(c, h, n) \/ RegisterUrl(c, h, n)
      PROVE  (PendingFits /\ AnswerIsThere /\ OneIdentity)'
  BY <1>2 DEF RegisterTree, RegisterUrl
<1>3. ASSUME NEW c \in Client,
             \/ OpenPartial(c) \/ WritePartial(c) \/ WriteFails(c)
             \/ PutBlob(c) \/ PutBlobFails(c)
      PROVE  (PendingFits /\ AnswerIsThere /\ OneIdentity)'
  BY SMTT(30), <1>3 DEF OpenPartial, WritePartial, WriteFails, PutBlob, PutBlobFails
<1>4. ASSUME NEW c \in Client, CheckName(c) \/ CheckHash(c)
      PROVE  (PendingFits /\ AnswerIsThere /\ OneIdentity)'
  BY <1>4 DEF CheckName, CheckHash
<1>5. ASSUME NEW c \in Client, Insert(c)
      PROVE  (PendingFits /\ AnswerIsThere /\ OneIdentity)'
  BY <1>5 DEF Insert, InsertFits
<1>6. ASSUME NEW c \in Client, Commit(c)
      PROVE  (PendingFits /\ AnswerIsThere /\ OneIdentity)'
  BY <1>6 DEF Commit
<1>7. CASE CatDies
  BY <1>7 DEF CatDies
<1>8. QED
  BY <1>1, <1>2, <1>3, <1>4, <1>5, <1>6, <1>7 DEF CatNext

\* A name and version stay with one hash, a hash with one name, and nobody is
\* answered with a row that is not there.
THEOREM NamesAreUnique == CatSpec => []OneIdentity
<1>1. CatInit => IdentityInv
  BY CatTypeInit, CatalogueAssumption
     DEF CatInit, IdentityInv, PendingFits, AnswerIsThere, OneIdentity, Idle, CatalogueAssumption
<1>2. IdentityInv => OneIdentity
  BY DEF IdentityInv
<1>3. QED
  BY <1>1, <1>2, IdentityStep, PTL DEF CatSpec

-----------------------------------------------------------------------------
(* Blobs *)

LEMMA BlobStep ==
  ASSUME BlobInv, [CatNext \/ CatDies]_catVars
  PROVE  BlobInv'
<1> USE CatalogueAssumption DEF CatalogueAssumption, BlobInv, CatTypeOK, OpenWhileWriting,
        TornIsOpen, BlobFirst, Excused, PastBlob, Content, Idle, Stages, rowVars, blobVars,
        At, Step, Ends
<1> CatTypeOK'
  BY CatTypeStep
<1> SUFFICES (OpenWhileWriting /\ TornIsOpen /\ BlobFirst)'
  OBVIOUS
<1>1. CASE UNCHANGED catVars
  BY <1>1 DEF catVars
<1>2. ASSUME NEW c \in Client, NEW h \in Hash, NEW n \in Ident,
             RegisterTree(c, h, n) \/ RegisterUrl(c, h, n)
      PROVE  (OpenWhileWriting /\ TornIsOpen /\ BlobFirst)'
  BY SMTT(30), <1>2 DEF RegisterTree, RegisterUrl
<1>3. ASSUME NEW c \in Client, OpenPartial(c)
      PROVE  (OpenWhileWriting /\ TornIsOpen /\ BlobFirst)'
  BY <1>3 DEF OpenPartial
<1>4. ASSUME NEW c \in Client, WritePartial(c)
      PROVE  (OpenWhileWriting /\ TornIsOpen /\ BlobFirst)'
  BY <1>4 DEF WritePartial
<1>5. ASSUME NEW c \in Client, WriteFails(c)
      PROVE  (OpenWhileWriting /\ TornIsOpen /\ BlobFirst)'
  BY <1>5 DEF WriteFails
<1>6. ASSUME NEW c \in Client, PutBlob(c)
      PROVE  (OpenWhileWriting /\ TornIsOpen /\ BlobFirst)'
  <2>1. PICK g \in Hash :
        /\ g = reg[c].hash /\ reg[c].pc = "rename" /\ handle[c] = "none"
        /\ partial[g] # "none"
        /\ blob' = [blob EXCEPT ![g] = partial[g]]
        /\ partial' = [partial EXCEPT ![g] = "none"]
        /\ spoilt' = IF partial[g] = "whole" THEN spoilt \ {g} ELSE spoilt
        /\ handle' = Moved(c)
        /\ reg' = [reg EXCEPT ![c].pc = "byName"]
        /\ hosted' = hosted
    <3>1. reg[c].pc = "rename"
      BY <1>6 DEF PutBlob
    <3>2. reg[c] # Idle /\ handle[c] = "none"
      BY <3>1
    <3>3. reg[c].hash \in Hash
      BY <3>2
    <3>4. QED
      BY <1>6, <3>1, <3>2, <3>3 DEF PutBlob
  <2>2. \A d \in Client :
          /\ reg'[d].hash = reg[d].hash /\ reg'[d].zip = reg[d].zip
          /\ d # c => reg'[d] = reg[d]
          /\ handle'[d] = IF reg[d].hash # g THEN handle[d]
                          ELSE CASE handle[d] = "partial" -> "blob"
                                 [] handle[d] = "blob" -> "gone"
                                 [] OTHER -> handle[d]
    BY <2>1 DEF Moved
  <2>3. OpenWhileWriting'
    BY <2>1, <2>2
  <2>4. ASSUME NEW h \in Hash \ {g} PROVE
          /\ partial'[h] = "torn" => Excused(h, "partial")'
          /\ blob'[h] = "torn" => Excused(h, "blob")'
    <3>1. partial'[h] = partial[h] /\ blob'[h] = blob[h] /\ (h \in spoilt' <=> h \in spoilt)
      BY <2>1
    <3>2. \A d \in Client : reg[d].hash = h => reg'[d].hash = h /\ handle'[d] = handle[d]
      BY <2>2
    <3>3. QED
      BY <3>1, <3>2
  <2>5. partial'[g] # "torn" /\ blob'[g] = partial[g]
    BY <2>1
  <2>6. blob'[g] = "torn" => Excused(g, "blob")'
    <3>1. SUFFICES ASSUME partial[g] = "torn" PROVE Excused(g, "blob")'
      BY <2>5
    <3>2. CASE g \in spoilt
      BY <2>1, <3>1, <3>2
    <3>3. ASSUME NEW d \in Client, reg[d].hash = g, handle[d] = "partial"
          PROVE  Excused(g, "blob")'
      BY <2>2, <3>3
    <3>4. QED
      BY <2>1, <3>1, <3>2, <3>3
  <2>7. BlobFirst'
    BY <2>1, <2>2
  <2>8. QED
    BY <2>3, <2>4, <2>5, <2>6, <2>7
<1>7. ASSUME NEW c \in Client,
             PutBlobFails(c) \/ CheckName(c) \/ CheckHash(c) \/ Insert(c)
      PROVE  (OpenWhileWriting /\ TornIsOpen /\ BlobFirst)'
  BY SMTT(30), <1>7 DEF PutBlobFails, CheckName, CheckHash, Insert
<1>8. ASSUME NEW c \in Client, Commit(c)
      PROVE  (OpenWhileWriting /\ TornIsOpen /\ BlobFirst)'
  BY <1>8 DEF Commit
<1>9. CASE CatDies
  BY <1>9 DEF CatDies
<1>10. QED
  BY <1>1, <1>2, <1>3, <1>4, <1>5, <1>6, <1>7, <1>8, <1>9 DEF CatNext

\* A row that names a blob of this hub has it on disk, whole unless a second
\* registration of the same bytes is writing it or was cut short.
THEOREM RowsHaveBlobs == CatSpec => []BlobServes
<1>1. CatInit => BlobInv
  BY CatTypeInit, CatalogueAssumption
     DEF CatInit, BlobInv, OpenWhileWriting, TornIsOpen, BlobFirst, Idle, CatalogueAssumption
<1>2. BlobInv => BlobServes
  BY DEF BlobInv, CatTypeOK, TornIsOpen, BlobFirst, Excused, BlobServes
<1>3. QED
  BY <1>1, <1>2, BlobStep, PTL DEF CatSpec
-----------------------------------------------------------------------------
(* The scheduler on top of the catalogue *)

\* A committed row never changes: enqueue may resolve a name at any time.
LEMMA RowsStay ==
  ASSUME IdentityInv, [CatNext \/ CatDies]_catVars, NEW h \in Hash, release[h] # None
  PROVE  release'[h] = release[h]
<1>1. ASSUME NEW c \in Client, Commit(c)
      PROVE  release'[h] = release[h]
  BY <1>1 DEF Commit, IdentityInv, PendingFits, CatTypeOK
<1>2. CASE release' = release
  BY <1>2
<1>3. ASSUME NEW c \in Client,
             \/ \E g \in Hash, n \in Ident : RegisterTree(c, g, n) \/ RegisterUrl(c, g, n)
             \/ OpenPartial(c) \/ WritePartial(c) \/ WriteFails(c)
             \/ PutBlob(c) \/ PutBlobFails(c)
             \/ CheckName(c) \/ CheckHash(c) \/ Insert(c)
      PROVE  release' = release
  BY <1>3 DEF RegisterTree, RegisterUrl, OpenPartial, WritePartial, WriteFails, PutBlob,
              PutBlobFails, CheckName, CheckHash, Insert, rowVars
<1>4. QED
  BY <1>1, <1>2, <1>3 DEF CatNext, CatDies, catVars

\* The schedules a tick holds are due, enabled, and no other tick's.
RowsLocked ==
  /\ \A k \in Ticker : /\ todo[k] \cap passed[k] = {}
                       /\ todo[k] \cup passed[k] \subseteq Enabled \cap due
  /\ \A j, k \in Ticker : j # k =>
       (todo[j] \cup passed[j]) \cap (todo[k] \cup passed[k]) = {}

\* What a tick has inserted is for schedules it holds, and for the hash of
\* their release.
DraftsFit ==
  \A k \in Ticker : \A d \in drafts[k] :
    d[1] \in passed[k] /\ release[d[2]] = sched[d[1]].ident

DueIsHere == \A s \in due : s \in Here /\ occasions[s] >= 1

Over(s) == (1..occasions[s]) \ (IF s \in due THEN {occasions[s]} ELSE {})

Ran(s) == {x[1] : x \in launched[s]}

\* The occasions of a schedule that are over, told apart.
Account(s) ==
  /\ \A x, y \in launched[s] : x[1] = y[1] => x = y
  /\ Ran(s) \cap skips[s] = {}
  /\ Ran(s) \cup skips[s] = Over(s)

SchedInv ==
  /\ SchedTypeOK
  /\ IdentityInv
  /\ RowsLocked
  /\ DraftsFit
  /\ DueIsHere
  /\ \A s \in Schedule : Account(s)

-----------------------------------------------------------------------------
(* Steps *)

\* A tick that has found the hash of a schedule's release has found one.
LEMMA OneHash ==
  ASSUME SchedInv, NEW k \in Ticker, NEW s \in Schedule, s \in passed[k],
         NEW g \in HashesFor(k, s), NEW h \in HashesFor(k, s)
  PROVE  g = h
<1>1. <<s, g>> \in drafts[k] /\ <<s, h>> \in drafts[k] /\ g \in Hash /\ h \in Hash
  BY DEF HashesFor
<1>2. release[g] = sched[s].ident /\ release[h] = sched[s].ident
  BY <1>1 DEF SchedInv, DraftsFit
<1>3. sched[s].ident \in Ident
  BY DEF SchedInv, RowsLocked, Enabled, Here, SchedTypeOK, ScheduleRow
<1>4. QED
  BY <1>1, <1>2, <1>3, CatalogueAssumption
     DEF CatalogueAssumption, SchedInv, IdentityInv, OneIdentity

LEMMA SchedInitInv == SchedInit => SchedInv
<1> SUFFICES ASSUME SchedInit PROVE SchedInv
  OBVIOUS
<1>1. IdentityInv
  BY CatTypeInit, CatalogueAssumption
     DEF SchedInit, CatInit, IdentityInv, PendingFits, AnswerIsThere, OneIdentity, Idle,
         CatalogueAssumption
<1>2. SchedTypeOK
  BY <1>1, SchedulerAssumption DEF SchedulerAssumption, SchedInit, SchedTypeOK, IdentityInv
<1>3. ASSUME NEW s \in Schedule
      PROVE  Account(s)
  BY DEF SchedInit, Account, Ran, Over
<1>4. RowsLocked /\ DraftsFit /\ DueIsHere
  BY DEF SchedInit, RowsLocked, DraftsFit, DueIsHere
<1>5. QED
  BY <1>1, <1>2, <1>3, <1>4 DEF SchedInv

\* Registrations add rows to the catalogue, which takes nothing from a tick.
LEMMA CatalogueStep ==
  ASSUME SchedInv, CatNext, UNCHANGED schedVars
  PROVE  SchedInv'
<1>1. IdentityInv'
  BY IdentityStep DEF SchedInv
<1>2. SchedTypeOK'
  BY <1>1 DEF SchedInv, SchedTypeOK, IdentityInv, schedVars, tickVars, histVars
<1>3. DraftsFit'
  <2> SUFFICES ASSUME NEW k \in Ticker, NEW d \in drafts'[k]
               PROVE  d[1] \in passed'[k] /\ release'[d[2]] = sched'[d[1]].ident
    BY DEF DraftsFit
  <2>1. /\ d[1] \in passed[k] /\ release[d[2]] = sched[d[1]].ident
        /\ d[1] \in Schedule /\ d[2] \in Hash
    BY DEF SchedInv, DraftsFit, SchedTypeOK, schedVars, tickVars
  <2>2. sched[d[1]].ident \in Ident
    BY <2>1 DEF SchedInv, RowsLocked, Enabled, Here, SchedTypeOK, ScheduleRow
  <2>3. release[d[2]] # None
    BY <2>1, <2>2, CatalogueAssumption DEF CatalogueAssumption
  <2>4. release'[d[2]] = release[d[2]]
    BY <2>1, <2>3, RowsStay DEF SchedInv
  <2>5. QED
    BY <2>1, <2>4 DEF schedVars, tickVars
<1>4. RowsLocked' /\ DueIsHere'
  BY DEF SchedInv, RowsLocked, DueIsHere, Enabled, Here, schedVars, tickVars, histVars
<1>5. \A s \in Schedule : Account(s)'
  BY DEF SchedInv, Account, Ran, Over, schedVars, histVars
<1>6. QED
  BY <1>1, <1>2, <1>3, <1>4, <1>5 DEF SchedInv

\* The catalogue's part of the invariant is untouched by the other steps.
LEMMA CatalogueUntouched ==
  ASSUME SchedInv, UNCHANGED catVars
  PROVE  IdentityInv' /\ CatTypeOK'
BY IdentityStep DEF SchedInv, IdentityInv

\* A new schedule is due for its first occasion, or its next.
LEMMA CreateStep ==
  ASSUME SchedInv, NEW s \in Schedule, NEW n \in Ident, NEW timing \in Timing,
         NEW checked \in BOOLEAN, CreateSchedule(s, n, timing, checked)
  PROVE  SchedInv'
<1> USE DEF CreateSchedule
<1>1. IdentityInv' /\ CatTypeOK'
  BY CatalogueUntouched
<1>2. SchedTypeOK'
  <2>1. [enabled |-> TRUE, timing |-> timing, ident |-> n] \in ScheduleRow
    BY DEF ScheduleRow
  <2>2. sched' \in [Schedule -> {None} \cup ScheduleRow]
    BY <2>1 DEF SchedInv, SchedTypeOK
  <2>3. occasions' \in [Schedule -> 0..MaxOccasions]
    BY SchedulerAssumption DEF SchedulerAssumption, SchedInv, SchedTypeOK
  <2>4. QED
    BY <1>1, <2>2, <2>3 DEF SchedInv, SchedTypeOK, tickVars
<1>3. s \notin due /\ \A k \in Ticker : s \notin todo[k] \cup passed[k]
  BY DEF SchedInv, DueIsHere, Here, RowsLocked, Enabled
<1>4. RowsLocked'
  BY <1>3 DEF SchedInv, RowsLocked, Enabled, Here, SchedTypeOK, tickVars
<1>5. DraftsFit'
  BY <1>3 DEF SchedInv, DraftsFit, SchedTypeOK, tickVars, catVars
<1>6. DueIsHere'
  <2>1. [enabled |-> TRUE, timing |-> timing, ident |-> n] # None
    <3>1. [enabled |-> TRUE, timing |-> timing, ident |-> n] \in ScheduleRow
      BY DEF ScheduleRow
    <3>2. QED
      BY <3>1, SchedulerAssumption DEF SchedulerAssumption
  <2>2. sched'[s] # None /\ \A t \in Schedule : t # s => sched'[t] = sched[t]
    BY <2>1 DEF SchedInv, SchedTypeOK
  <2>3. Here' = Here \cup {s}
    BY <2>2 DEF Here
  <2>4. \A t \in Schedule :
          occasions'[t] = (IF t = s THEN occasions[t] + 1 ELSE occasions[t]) /\ occasions[t] \in Nat
    BY DEF SchedInv, SchedTypeOK
  <2>5. QED
    BY <2>3, <2>4 DEF SchedInv, DueIsHere, SchedTypeOK
<1>7. ASSUME NEW t \in Schedule
      PROVE  Account(t)'
  <2>1. Account(t) /\ occasions[t] \in Nat
    BY DEF SchedInv, SchedTypeOK
  <2>2. Over(t)' = Over(t)
    <3>1. CASE t = s
      <4>1. t \notin due /\ t \in due' /\ occasions'[t] = occasions[t] + 1
        BY <1>3, <3>1 DEF SchedInv, SchedTypeOK
      <4>2. QED
        BY <2>1, <4>1 DEF Over
    <3>2. CASE t # s
      BY <3>2 DEF Over, SchedInv, SchedTypeOK
    <3>3. QED
      BY <3>1, <3>2
  <2>3. QED
    BY <2>1, <2>2 DEF Account, Ran
<1>8. QED
  BY <1>1, <1>2, <1>4, <1>5, <1>6, <1>7 DEF SchedInv

\* UPDATE waits for the tick that has the row.
LEMMA EnableStep ==
  ASSUME SchedInv, NEW s \in Schedule, NEW on \in BOOLEAN, SetEnabled(s, on)
  PROVE  SchedInv'
<1> USE DEF SetEnabled
<1>1. IdentityInv' /\ CatTypeOK'
  BY CatalogueUntouched
<1>2. sched[s] \in ScheduleRow
  BY DEF Here, SchedInv, SchedTypeOK
<1>3. /\ sched' \in [Schedule -> {None} \cup ScheduleRow]
      /\ sched'[s] = [sched[s] EXCEPT !.enabled = on]
      /\ \A t \in Schedule : t # s => sched'[t] = sched[t]
  BY <1>2 DEF SchedInv, SchedTypeOK, ScheduleRow
<1>4. SchedTypeOK'
  BY <1>1, <1>3 DEF SchedInv, SchedTypeOK, tickVars, histVars
<1>5. \A k \in Ticker : s \notin todo[k] \cup passed[k]
  BY DEF MayUpdate, Locked
<1>6. sched'[s] # None /\ Here' = Here
  <2>1. sched'[s] \in ScheduleRow
    BY <1>2, <1>3 DEF ScheduleRow
  <2>2. sched'[s] # None
    BY <2>1, SchedulerAssumption DEF SchedulerAssumption
  <2>3. QED
    BY <1>3, <2>2 DEF Here
<1>7. RowsLocked'
  BY <1>3, <1>5, <1>6 DEF SchedInv, RowsLocked, Enabled, SchedTypeOK, tickVars
<1>8. DraftsFit'
  BY <1>3, <1>5 DEF SchedInv, DraftsFit, SchedTypeOK, tickVars, catVars
<1>9. DueIsHere'
  BY <1>6 DEF SchedInv, DueIsHere, histVars
<1>10. \A t \in Schedule : Account(t)'
  BY DEF SchedInv, Account, Ran, Over, histVars
<1>11. QED
  BY <1>1, <1>4, <1>7, <1>8, <1>9, <1>10 DEF SchedInv

\* A schedule that is deleted skips the occasion it was due for.
LEMMA DeleteStep ==
  ASSUME SchedInv, NEW s \in Schedule, DeleteSchedule(s)
  PROVE  SchedInv'
<1> USE DEF DeleteSchedule
<1>1. IdentityInv' /\ CatTypeOK'
  BY CatalogueUntouched
<1>2. s \in due => occasions[s] \in 1..MaxOccasions
  BY DEF SchedInv, SchedTypeOK, DueIsHere
<1>3. SchedTypeOK'
  BY <1>1, <1>2 DEF SchedInv, SchedTypeOK, tickVars
<1>4. \A k \in Ticker : s \notin todo[k] \cup passed[k]
  BY DEF Locked
<1>5. RowsLocked'
  BY <1>4 DEF SchedInv, RowsLocked, Enabled, Here, SchedTypeOK, tickVars
<1>6. DraftsFit'
  BY <1>4 DEF SchedInv, DraftsFit, SchedTypeOK, tickVars, catVars
<1>7. DueIsHere'
  BY DEF SchedInv, DueIsHere, Here, SchedTypeOK
<1>8. ASSUME NEW t \in Schedule
      PROVE  Account(t)'
  <2>1. Account(t) /\ occasions[t] \in Nat /\ launched' = launched
    BY DEF SchedInv, SchedTypeOK
  <2>2. CASE t = s /\ s \in due
    <3>1. Over(s)' = Over(s) \cup {occasions[s]} /\ occasions[s] \notin Over(s)
      BY <1>2, <2>1, <2>2 DEF Over
    <3>2. skips'[s] = skips[s] \cup {occasions[s]}
      BY <2>2 DEF SchedInv, SchedTypeOK
    <3>3. QED
      BY <2>1, <2>2, <3>1, <3>2 DEF Account, Ran
  <2>3. CASE ~(t = s /\ s \in due)
    <3>1. Over(t)' = Over(t) /\ skips'[t] = skips[t]
      BY <2>3 DEF Over, SchedInv, SchedTypeOK
    <3>2. QED
      BY <2>1, <3>1 DEF Account, Ran
  <2>4. QED
    BY <2>2, <2>3
<1>9. QED
  BY <1>1, <1>3, <1>5, <1>6, <1>7, <1>8 DEF SchedInv

LEMMA FallDueStep ==
  ASSUME SchedInv, NEW s \in Schedule, FallDue(s)
  PROVE  SchedInv'
<1> USE DEF FallDue
<1>1. IdentityInv' /\ CatTypeOK'
  BY CatalogueUntouched
<1>2. occasions' \in [Schedule -> 0..MaxOccasions]
  BY SchedulerAssumption DEF SchedulerAssumption, SchedInv, SchedTypeOK
<1>3. SchedTypeOK'
  BY <1>1, <1>2 DEF SchedInv, SchedTypeOK, tickVars
<1>4. RowsLocked' /\ DraftsFit'
  BY DEF SchedInv, RowsLocked, DraftsFit, Enabled, Here, tickVars, catVars
<1>5. DueIsHere'
  BY DEF SchedInv, DueIsHere, Here, SchedTypeOK
<1>6. ASSUME NEW t \in Schedule
      PROVE  Account(t)'
  <2>1. Account(t) /\ occasions[t] \in Nat
    BY DEF SchedInv, SchedTypeOK
  <2>2. Over(t)' = Over(t)
    <3>1. CASE t = s
      <4>1. t \notin due /\ t \in due' /\ occasions'[t] = occasions[t] + 1
        BY <3>1 DEF SchedInv, SchedTypeOK
      <4>2. QED
        BY <2>1, <4>1 DEF Over
    <3>2. CASE t # s
      BY <3>2 DEF Over, SchedInv, SchedTypeOK
    <3>3. QED
      BY <3>1, <3>2
  <2>3. QED
    BY <2>1, <2>2 DEF Account, Ran
<1>7. QED
  BY <1>1, <1>3, <1>4, <1>5, <1>6 DEF SchedInv

-----------------------------------------------------------------------------
(* Ticks *)

\* FOR UPDATE SKIP LOCKED: a tick takes rows nobody holds.
LEMMA TickBeginsStep ==
  ASSUME SchedInv, NEW k \in Ticker, TickBegins(k)
  PROVE  SchedInv'
<1> DEFINE mine == {s \in Enabled \cap due : Takes(s)}
<1>1. /\ todo[k] = {} /\ passed[k] = {}
      /\ todo' = [todo EXCEPT ![k] = mine]
      /\ UNCHANGED <<catVars, sched, due, drafts, passed, histVars, deaths>>
  BY DEF TickBegins
<1>2. IdentityInv' /\ CatTypeOK'
  BY <1>1, CatalogueUntouched
<1>3. mine \subseteq Schedule
  BY DEF Enabled, Here
<1>4. SchedTypeOK'
  BY <1>1, <1>2, <1>3 DEF SchedInv, SchedTypeOK, histVars
<1>5. \A s \in mine, j \in Ticker : s \notin todo[j] \cup passed[j]
  BY DEF Takes, Locked
<1>6. Enabled' = Enabled /\ Here' = Here
  BY <1>1 DEF Enabled, Here
<1>7. RowsLocked'
  BY <1>1, <1>5, <1>6 DEF SchedInv, RowsLocked, SchedTypeOK
<1>8. DraftsFit' /\ DueIsHere'
  BY <1>1, <1>6 DEF SchedInv, DraftsFit, DueIsHere, catVars, histVars
<1>9. \A s \in Schedule : Account(s)'
  BY <1>1 DEF SchedInv, Account, Ran, Over, histVars
<1>10. QED
  BY <1>2, <1>4, <1>7, <1>8, <1>9 DEF SchedInv

\* The hash is resolved in the catalogue as it is now, and stays what it is.
LEMMA TickScheduleStep ==
  ASSUME SchedInv, NEW k \in Ticker, NEW s \in Schedule, TickSchedule(k, s)
  PROVE  SchedInv'
<1> DEFINE found == Rows(sched[s].ident)
<1>1. /\ s \in todo[k]
      /\ drafts' = [drafts EXCEPT ![k] = @ \cup ({s} \X found)]
      /\ todo' = [todo EXCEPT ![k] = @ \ {s}]
      /\ passed' = [passed EXCEPT ![k] = @ \cup {s}]
      /\ UNCHANGED <<catVars, sched, due, histVars, deaths>>
  BY DEF TickSchedule
<1>2. IdentityInv' /\ CatTypeOK'
  BY <1>1, CatalogueUntouched
<1>3. found \subseteq Hash
  BY DEF Rows
<1>4. drafts' \in [Ticker -> SUBSET (Schedule \X Hash)]
  BY <1>1, <1>3 DEF SchedInv, SchedTypeOK
<1>5. SchedTypeOK'
  BY <1>1, <1>2, <1>4 DEF SchedInv, SchedTypeOK, histVars
<1>6. Enabled' = Enabled /\ Here' = Here
  BY <1>1 DEF Enabled, Here
<1>7. RowsLocked'
  BY <1>1, <1>6 DEF SchedInv, RowsLocked, SchedTypeOK
<1>8. DraftsFit'
  <2>1. ASSUME NEW j \in Ticker, NEW d \in drafts'[j]
        PROVE  d[1] \in passed'[j] /\ release[d[2]] = sched[d[1]].ident
    <3>1. CASE d \in drafts[j]
      BY <1>1, <3>1 DEF SchedInv, DraftsFit, SchedTypeOK
    <3>2. CASE d \notin drafts[j]
      <4>1. j = k /\ d \in {s} \X found
        BY <1>1, <2>1, <3>2 DEF SchedInv, SchedTypeOK
      <4>2. QED
        BY <1>1, <4>1 DEF Rows, SchedInv, SchedTypeOK
    <3>3. QED
      BY <3>1, <3>2
  <2>2. QED
    BY <1>1, <2>1 DEF DraftsFit, catVars
<1>9. DueIsHere'
  BY <1>1, <1>6 DEF SchedInv, DueIsHere, histVars
<1>10. \A t \in Schedule : Account(t)'
  BY <1>1 DEF SchedInv, Account, Ran, Over, histVars
<1>11. QED
  BY <1>2, <1>5, <1>7, <1>8, <1>9, <1>10 DEF SchedInv

LEMMA TickRaisesStep ==
  ASSUME SchedInv, NEW k \in Ticker, NEW s \in Schedule, TickRaises(k, s)
  PROVE  SchedInv'
<1> USE DEF TickRaises, RolledBack
<1>1. IdentityInv' /\ CatTypeOK'
  BY CatalogueUntouched
<1>2. SchedTypeOK'
  BY <1>1 DEF SchedInv, SchedTypeOK, histVars
<1>3. RowsLocked' /\ DraftsFit' /\ DueIsHere'
  BY DEF SchedInv, RowsLocked, DraftsFit, DueIsHere, Enabled, Here, SchedTypeOK, catVars, histVars
<1>4. \A t \in Schedule : Account(t)'
  BY DEF SchedInv, Account, Ran, Over, histVars
<1>5. QED
  BY <1>1, <1>2, <1>3, <1>4 DEF SchedInv

LEMMA HubDiesStep ==
  ASSUME SchedInv, HubDies
  PROVE  SchedInv'
<1> USE DEF HubDies
<1>1. IdentityInv' /\ CatTypeOK'
  BY IdentityStep DEF SchedInv, IdentityInv
<1>2. SchedTypeOK'
  BY <1>1, SchedulerAssumption DEF SchedulerAssumption, SchedInv, SchedTypeOK, histVars
<1>3. RowsLocked' /\ DraftsFit' /\ DueIsHere'
  BY DEF SchedInv, RowsLocked, DraftsFit, DueIsHere, Here, histVars
<1>4. \A t \in Schedule : Account(t)'
  BY DEF SchedInv, Account, Ran, Over, histVars
<1>5. QED
  BY <1>1, <1>2, <1>3, <1>4 DEF SchedInv

\* The commit closes the occasion of each schedule the tick has passed: with
\* the one hash it found, or with none.
LEMMA TickCommitsStep ==
  ASSUME SchedInv, NEW k \in Ticker, TickCommits(k)
  PROVE  SchedInv'
<1> USE DEF TickCommits, RolledBack
<1>1. IdentityInv' /\ CatTypeOK'
  BY CatalogueUntouched
<1>2. \A s \in passed[k] : /\ s \in Schedule /\ s \in due /\ s \in Enabled
                           /\ occasions[s] \in 1..MaxOccasions
  BY DEF SchedInv, SchedTypeOK, RowsLocked, DueIsHere
<1>3. launched' \in [Schedule -> SUBSET ((1..MaxOccasions) \X Hash \X Ticker)]
  <2>1. \A s \in Schedule :
          launched[s] \cup (IF s \in passed[k]
                            THEN {occasions[s]} \X HashesFor(k, s) \X {k} ELSE {})
            \in SUBSET ((1..MaxOccasions) \X Hash \X Ticker)
    BY <1>2 DEF SchedInv, SchedTypeOK, HashesFor
  <2>2. QED
    BY <2>1
<1>4. skips' \in [Schedule -> SUBSET (1..MaxOccasions)]
  BY <1>2 DEF SchedInv, SchedTypeOK
<1>5. SchedTypeOK'
  BY <1>1, <1>3, <1>4 DEF SchedInv, SchedTypeOK
<1>6. RowsLocked'
  <2>1. \A j \in Ticker : j # k =>
          /\ todo'[j] = todo[j] /\ passed'[j] = passed[j]
          /\ todo[j] \cup passed[j] \subseteq due'
    BY DEF SchedInv, RowsLocked, SchedTypeOK
  <2>2. todo'[k] = {} /\ passed'[k] = {}
    BY DEF SchedInv, SchedTypeOK
  <2>3. Enabled' = Enabled
    BY DEF Enabled, Here
  <2>4. QED
    BY <2>1, <2>2, <2>3 DEF SchedInv, RowsLocked
<1>7. DraftsFit'
  BY DEF SchedInv, DraftsFit, SchedTypeOK, catVars
<1>8. DueIsHere'
  BY DEF SchedInv, DueIsHere, Here
<1>9. ASSUME NEW s \in Schedule
      PROVE  Account(s)'
  <2>1. Account(s) /\ occasions[s] \in Nat
    BY DEF SchedInv, SchedTypeOK
  <2>2. CASE s \notin passed[k]
    <3>1. launched'[s] = launched[s] /\ skips'[s] = skips[s] /\ Over(s)' = Over(s)
      BY <2>2 DEF Over
    <3>2. QED
      BY <2>1, <3>1 DEF Account, Ran
  <2>3. CASE s \in passed[k]
    <3> DEFINE o == occasions[s]
               H == HashesFor(k, s)
    <3>1. s \in due /\ s \notin due' /\ o \in 1..MaxOccasions
      BY <1>2, <2>3
    <3>2. Over(s)' = Over(s) \cup {o} /\ o \notin Over(s)
      BY <2>1, <3>1 DEF Over
    <3>3. /\ launched'[s] = launched[s] \cup ({o} \X H \X {k})
          /\ skips'[s] = skips[s] \cup (IF H = {} THEN {o} ELSE {})
      BY <2>3
    <3>4. o \notin Ran(s) /\ o \notin skips[s]
      BY <2>1, <3>2 DEF Account
    <3>5. CASE H = {}
      <4>1. launched'[s] = launched[s] /\ skips'[s] = skips[s] \cup {o}
        BY <3>3, <3>5
      <4>2. QED
        BY <2>1, <3>2, <3>4, <4>1 DEF Account, Ran
    <3>6. CASE H # {}
      <4>1. PICK h \in H : H = {h}
        BY <2>3, <3>6, OneHash
      <4>2. launched'[s] = launched[s] \cup {<<o, h, k>>} /\ skips'[s] = skips[s]
        BY <3>3, <3>6, <4>1
      <4>3. Ran(s)' = Ran(s) \cup {o}
        <5>1. <<o, h, k>>[1] = o
          OBVIOUS
        <5>2. Ran(s)' = {x[1] : x \in launched[s] \cup {<<o, h, k>>}}
          BY <4>2 DEF Ran
        <5>3. \A t : t \in Ran(s)' <=> t \in Ran(s) \cup {o}
          BY <5>1, <5>2 DEF Ran
        <5>4. QED
          BY <5>3
      <4>4. \A x, y \in launched'[s] : x[1] = y[1] => x = y
        BY <2>1, <3>4, <4>2 DEF Account, Ran
      <4>5. QED
        BY <2>1, <3>2, <3>4, <4>2, <4>3, <4>4 DEF Account
    <3>7. QED
      BY <3>5, <3>6
  <2>4. QED
    BY <2>2, <2>3
<1>10. QED
  BY <1>1, <1>5, <1>6, <1>7, <1>8, <1>9 DEF SchedInv

LEMMA SchedNextInv == SchedInv /\ [SchedNext]_schedulerVars => SchedInv'
<1> SUFFICES ASSUME SchedInv, [SchedNext]_schedulerVars
             PROVE  SchedInv'
  OBVIOUS
<1>1. CASE CatNext /\ UNCHANGED schedVars
  BY <1>1, CatalogueStep
<1>2. ASSUME NEW s \in Schedule, NEW n \in Ident, NEW timing \in Timing,
             NEW checked \in BOOLEAN, CreateSchedule(s, n, timing, checked)
      PROVE  SchedInv'
  BY <1>2, CreateStep
<1>3. ASSUME NEW s \in Schedule, \E on \in BOOLEAN : SetEnabled(s, on)
      PROVE  SchedInv'
  BY <1>3, EnableStep
<1>4. ASSUME NEW s \in Schedule, DeleteSchedule(s) \/ FallDue(s)
      PROVE  SchedInv'
  BY <1>4, DeleteStep, FallDueStep
<1>5. ASSUME NEW k \in Ticker, TickStep(k)
      PROVE  SchedInv'
  BY <1>5, TickBeginsStep, TickCommitsStep, TickScheduleStep, TickRaisesStep DEF TickStep
<1>6. CASE HubDies
  BY <1>6, HubDiesStep
<1>7. CASE UNCHANGED schedulerVars
  <2>1. IdentityInv' /\ CatTypeOK'
    BY <1>7, CatalogueUntouched DEF schedulerVars
  <2>2. UNCHANGED <<catVars, sched, due, todo, drafts, passed, launched, skips, occasions, deaths>>
    BY <1>7 DEF schedulerVars, schedVars, tickVars, histVars
  <2>3. SchedTypeOK'
    BY <2>1, <2>2 DEF SchedInv, SchedTypeOK
  <2>4. RowsLocked' /\ DraftsFit' /\ DueIsHere'
    BY <2>2 DEF SchedInv, RowsLocked, DraftsFit, DueIsHere, Enabled, Here, catVars
  <2>5. \A s \in Schedule : Account(s)'
    BY <2>2 DEF SchedInv, Account, Ran, Over
  <2>6. QED
    BY <2>1, <2>3, <2>4, <2>5 DEF SchedInv
<1>8. QED
  BY <1>1, <1>2, <1>3, <1>4, <1>5, <1>6, <1>7 DEF SchedNext

LEMMA SchedInvariance == SchedSpec => []SchedInv
<1>1. SchedSpec => SchedInit /\ [][SchedNext]_schedulerVars
  BY PTL DEF SchedSpec
<1>2. QED
  BY <1>1, SchedInitInv, SchedNextInv, PTL

-----------------------------------------------------------------------------
(* What follows for every behaviour of the scheduler. *)

\* Every variable of the scheduler keeps its type.
THEOREM SchedTypeCorrect == SchedSpec => []SchedTypeOK
<1>1. SchedInv => SchedTypeOK
  BY DEF SchedInv
<1>2. QED
  BY <1>1, SchedInvariance, PTL

\* A set of records in which the first field tells them apart, and is a
\* number up to n, has as many members as first fields.
LEMMA FirstsCount ==
  ASSUME NEW n \in Nat, NEW S,
         \A x \in S : x[1] \in 1..n,
         \A x, y \in S : x[1] = y[1] => x = y
  PROVE  Cardinality({x[1] : x \in S}) = Cardinality(S)
<1> DEFINE T == {x[1] : x \in S}
           f == [x \in S |-> x[1]]
<1>0. /\ \A x \in S : f[x] = x[1]
      /\ f \in [S -> 1..n] /\ f \in [S -> T]
  OBVIOUS
<1>1. f \in Injection(S, 1..n)
  <2>1. \A x, y \in S : f[x] = f[y] => x = y
    BY <1>0
  <2>2. QED
    BY <1>0, <2>1, Fun_IsInj
<1>2. IsFiniteSet(1..n)
  BY FS_Interval
<1>3. IsFiniteSet(S)
  BY <1>1, <1>2, FS_Injection
<1>4. f \in Bijection(S, T)
  <2>1. \A x, y \in S : f[x] = f[y] => x = y
    BY <1>0
  <2>2. f \in Injection(S, T)
    BY <1>0, <2>1, Fun_IsInj
  <2>3. \A t \in T : \E x \in S : f[x] = t
    BY <1>0
  <2>4. f \in Surjection(S, T)
    BY <1>0, <2>3, Fun_IsSurj
  <2>5. QED
    BY <2>2, <2>4, Fun_IsBij
<1>5. ExistsBijection(S, T)
  BY <1>4 DEF ExistsBijection
<1>6. QED
  BY <1>3, <1>5, FS_Bijection

\* "Create one Assignment per due schedule" (fire_due_schedules): whatever
\* hubs compete or die, and whatever registrations and operators do, an
\* occasion that is over has created exactly one Assignment or was skipped.
THEOREM OneAssignmentEach == SchedSpec => []OncePerOccasion
<1>1. ASSUME SchedInv, NEW s \in Schedule
      PROVE  LET ran == {x[1] : x \in launched[s]} IN
               /\ Cardinality(ran) = Cardinality(launched[s])
               /\ ran \cap skips[s] = {}
               /\ ran \cup skips[s] = (1..occasions[s]) \ (IF s \in due THEN {occasions[s]} ELSE {})
  <2>1. Account(s)
    BY <1>1 DEF SchedInv
  <2>2. \A x \in launched[s] : x[1] \in 1..MaxOccasions
    BY <1>1 DEF SchedInv, SchedTypeOK
  <2>3. Cardinality({x[1] : x \in launched[s]}) = Cardinality(launched[s])
    BY <2>1, <2>2, FirstsCount, SchedulerAssumption DEF SchedulerAssumption, Account
  <2>4. QED
    BY <2>1, <2>3 DEF Account, Ran, Over
<1>2. SchedInv => OncePerOccasion
  BY <1>1 DEF OncePerOccasion
<1>3. QED
  BY <1>2, SchedInvariance, PTL

\* Only the commit of a tick creates Assignments.
LEMMA WhoLaunches ==
  ASSUME [SchedNext]_schedulerVars
  PROVE  launched' = launched \/ \E k \in Ticker : TickCommits(k)
<1>1. CASE CatNext /\ UNCHANGED schedVars
  BY <1>1 DEF schedVars, histVars
<1>2. CASE HubDies
  BY <1>2 DEF HubDies, histVars
<1>3. CASE UNCHANGED schedulerVars
  BY <1>3 DEF schedulerVars, schedVars, histVars
<1>4. ASSUME NEW k \in Ticker, TickStep(k)
      PROVE  launched' = launched \/ TickCommits(k)
  BY <1>4 DEF TickStep, TickBegins, TickSchedule, TickRaises, histVars
<1>5. ASSUME NEW s \in Schedule,
             \/ \E n \in Ident, timing \in Timing, checked \in BOOLEAN :
                  CreateSchedule(s, n, timing, checked)
             \/ \E on \in BOOLEAN : SetEnabled(s, on)
             \/ DeleteSchedule(s) \/ FallDue(s)
      PROVE  launched' = launched
  BY <1>5 DEF CreateSchedule, SetEnabled, DeleteSchedule, FallDue, histVars
<1>6. QED
  BY <1>1, <1>2, <1>3, <1>4, <1>5 DEF SchedNext

\* An Assignment is for the hash of its schedule's release, and its schedule
\* is there and enabled at the moment it is created.
THEOREM FiresAsSet == SchedSpec => FiresWhatIsSet
<1>1. ASSUME SchedInv, [SchedNext]_schedulerVars, NEW s \in Schedule,
             NEW x \in launched'[s] \ launched[s]
      PROVE  s \in Enabled /\ release[x[2]] = sched[s].ident
  <2>1. PICK k \in Ticker : TickCommits(k)
    BY <1>1, WhoLaunches
  <2>2. s \in passed[k] /\ x \in {occasions[s]} \X HashesFor(k, s) \X {k}
    BY <1>1, <2>1 DEF TickCommits
  <2>3. <<s, x[2]>> \in drafts[k]
    BY <2>2 DEF HashesFor
  <2>4. QED
    BY <1>1, <2>2, <2>3 DEF SchedInv, RowsLocked, DraftsFit
<1>2. SchedInv /\ [SchedNext]_schedulerVars =>
        [\A s \in Schedule : \A x \in launched'[s] \ launched[s] :
           s \in Enabled /\ release[x[2]] = sched[s].ident]_schedulerVars
  BY <1>1
<1>3. SchedSpec => [][SchedNext]_schedulerVars
  BY PTL DEF SchedSpec
<1>4. QED
  BY <1>2, <1>3, SchedInvariance, PTL DEF FiresWhatIsSet


\* Schedules do nothing to the catalogue: every behaviour of the scheduler is
\* one of registrations that the hub's end may interrupt, so that names stay
\* with one hash, and rows with their blobs, under the tickers too.
THEOREM SchedulerImplementsCatalogue == SchedSpec => CatSpec
<1>1. SchedInit => CatInit
  BY DEF SchedInit
<1>2. [SchedNext]_schedulerVars => [CatNext \/ CatDies]_catVars
  <2> SUFFICES ASSUME [SchedNext]_schedulerVars
               PROVE  CatNext \/ CatDies \/ UNCHANGED catVars
    OBVIOUS
  <2>1. CASE CatNext /\ UNCHANGED schedVars
    BY <2>1
  <2>2. ASSUME NEW s \in Schedule,
               \/ \E n \in Ident, timing \in Timing, checked \in BOOLEAN :
                    CreateSchedule(s, n, timing, checked)
               \/ \E on \in BOOLEAN : SetEnabled(s, on)
               \/ DeleteSchedule(s) \/ FallDue(s)
        PROVE  UNCHANGED catVars
    BY <2>2 DEF CreateSchedule, SetEnabled, DeleteSchedule, FallDue
  <2>3. ASSUME NEW k \in Ticker, TickStep(k)
        PROVE  UNCHANGED catVars
    BY <2>3 DEF TickStep, TickBegins, TickSchedule, TickRaises, TickCommits
  <2>4. CASE HubDies
    BY <2>4 DEF HubDies
  <2>5. CASE UNCHANGED schedulerVars
    BY <2>5 DEF schedulerVars
  <2>6. QED
    BY <2>1, <2>2, <2>3, <2>4, <2>5 DEF SchedNext
<1>3. QED
  BY <1>1, <1>2, PTL DEF SchedSpec, CatSpec

=============================================================================
