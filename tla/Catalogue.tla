----------------------------- MODULE Catalogue -----------------------------
(***************************************************************************)
(* The hub's release catalogue: the rows of the releases table and the     *)
(* blobs beside it, under threads of the HTTP server and register commands *)
(* that write both at once.  A registration writes the blob through one    *)
(* shared partial file per hash, asks the table twice, inserts, commits.   *)
(*                                                                         *)
(* A file's content is "torn" from the moment it is opened for writing     *)
(* until it is written.  A writer goes on writing the file it opened when  *)
(* another one renames it: handle says where that file is now.             *)
(***************************************************************************)
EXTENDS Integers, FiniteSets

CONSTANTS
  Client,     \* threads and commands that register releases
  Hash,       \* content hashes
  Ident,      \* names with their version
  None

ASSUME CatalogueAssumption == None \notin Hash \cup Ident \cup Client

VARIABLES
  release,    \* the committed row of a hash: its Ident, or None
  hosted,     \* hashes whose row names a blob of this hub
  blob,       \* <hash>.zip
  partial,    \* <hash>.zip.partial
  reg,        \* what each client is registering
  handle,     \* where the file is that a client is writing
  pending,    \* clients with a row inserted and not committed
  told,       \* history: rows clients were answered with
  spoilt      \* history: hashes a write of which was cut short, until a whole
              \* blob replaced what it left

rowVars == <<release, hosted, pending, told>>
blobVars == <<blob, partial, handle, spoilt>>
catVars == <<release, hosted, blob, partial, reg, handle, pending, told, spoilt>>

Content == {"none", "torn", "whole"}
Stages == {"idle", "open", "write", "rename", "byName", "byHash", "insert", "commit"}
Idle == [pc |-> "idle", hash |-> None, ident |-> None, zip |-> FALSE]

CatTypeOK ==
  /\ release \in [Hash -> Ident \cup {None}]
  /\ hosted \subseteq Hash
  /\ blob \in [Hash -> Content] /\ partial \in [Hash -> Content]
  /\ reg \in [Client -> {Idle} \cup
        [pc : Stages \ {"idle"}, hash : Hash, ident : Ident, zip : BOOLEAN]]
  /\ handle \in [Client -> {"none", "partial", "blob", "gone"}]
  /\ pending \subseteq Client
  /\ told \subseteq Hash \X Ident
  /\ spoilt \subseteq Hash

CatInit ==
  /\ release = [h \in Hash |-> None]
  /\ hosted = {}
  /\ blob = [h \in Hash |-> "none"] /\ partial = [h \in Hash |-> "none"]
  /\ reg = [c \in Client |-> Idle]
  /\ handle = [c \in Client |-> "none"]
  /\ pending = {}
  /\ told = {} /\ spoilt = {}

At(c, s) == reg[c].pc = s
Step(c, s) == reg' = [reg EXCEPT ![c].pc = s]
Ends(c) == reg' = [reg EXCEPT ![c] = Idle]

\* A release folder or zip comes in: it is unpacked aside, verified against
\* its RELEASE.json and hashed.  What does not verify is refused there.
RegisterTree(c, h, n) ==
  /\ At(c, "idle")
  /\ reg' = [reg EXCEPT ![c] = [pc |-> "open", hash |-> h, ident |-> n, zip |-> TRUE]]
  /\ UNCHANGED <<rowVars, blobVars>>

\* A row for a blob kept elsewhere goes straight to the table.
RegisterUrl(c, h, n) ==
  /\ At(c, "idle")
  /\ reg' = [reg EXCEPT ![c] = [pc |-> "byName", hash |-> h, ident |-> n, zip |-> FALSE]]
  /\ UNCHANGED <<rowVars, blobVars>>

\* write_bytes opens the partial file, which empties it ...
OpenPartial(c) ==
  /\ At(c, "open")
  /\ partial' = [partial EXCEPT ![reg[c].hash] = "torn"]
  /\ handle' = [handle EXCEPT ![c] = "partial"]
  /\ Step(c, "write")
  /\ UNCHANGED <<rowVars, blob, spoilt>>

\* ... and writes it, wherever it is by now.
WritePartial(c) ==
  /\ At(c, "write")
  /\ LET h == reg[c].hash IN
       /\ partial' = IF handle[c] = "partial" THEN [partial EXCEPT ![h] = "whole"] ELSE partial
       /\ blob' = IF handle[c] = "blob" THEN [blob EXCEPT ![h] = "whole"] ELSE blob
  /\ handle' = [handle EXCEPT ![c] = "none"]
  /\ Step(c, "rename")
  /\ UNCHANGED <<rowVars, spoilt>>

\* The disk is full.
WriteFails(c) ==
  /\ At(c, "write")
  /\ spoilt' = spoilt \cup {reg[c].hash}
  /\ handle' = [handle EXCEPT ![c] = "none"]
  /\ Ends(c)
  /\ UNCHANGED <<rowVars, blob, partial>>

\* Where a file another client is writing is once c has renamed it.
Moved(c) ==
  [d \in Client |->
     IF reg[d].hash # reg[c].hash THEN handle[d]
     ELSE CASE handle[d] = "partial" -> "blob"
            [] handle[d] = "blob" -> "gone"
            [] OTHER -> handle[d]]

\* Mutant of PutBlob: the partial file is renamed while it is still being written.
PutBlobEarly(c) ==
  /\ At(c, "rename") \/ At(c, "write")
  /\ LET h == reg[c].hash IN
       /\ partial[h] # "none"
       /\ blob' = [blob EXCEPT ![h] = partial[h]]
       /\ partial' = [partial EXCEPT ![h] = "none"]
       /\ spoilt' = spoilt
  /\ handle' = [Moved(c) EXCEPT ![c] = "none"]
  /\ Step(c, "byName")
  /\ UNCHANGED rowVars

PutBlob(c) ==
  /\ At(c, "rename")
  /\ LET h == reg[c].hash IN
       /\ partial[h] # "none"
       /\ blob' = [blob EXCEPT ![h] = partial[h]]
       /\ partial' = [partial EXCEPT ![h] = "none"]
       /\ spoilt' = IF partial[h] = "whole" THEN spoilt \ {h} ELSE spoilt
  /\ handle' = Moved(c)
  /\ Step(c, "byName")
  /\ UNCHANGED rowVars

\* Another client has renamed it away: FileNotFoundError, a 500.
PutBlobFails(c) ==
  /\ At(c, "rename")
  /\ partial[reg[c].hash] = "none"
  /\ Ends(c)
  /\ UNCHANGED <<rowVars, blobVars>>

\* Another hash has the name: the first SELECT refuses it.
NameTaken(c) == \E h \in Hash \ {reg[c].hash} : release[h] = reg[c].ident

CheckName(c) ==
  /\ At(c, "byName")
  /\ IF NameTaken(c) THEN Ends(c) ELSE Step(c, "byHash")
  /\ UNCHANGED <<rowVars, blobVars>>

\* The second SELECT finds the row (the answer, when it has the same name),
\* or another name for the hash, or nothing.
CheckHash(c) ==
  /\ At(c, "byHash")
  /\ LET n == release[reg[c].hash] IN
       CASE n = None -> Step(c, "insert")
         [] n = reg[c].ident -> Step(c, "commit")
         [] OTHER -> Ends(c)
  /\ UNCHANGED <<rowVars, blobVars>>

Clashes(c, d) == reg[c].hash = reg[d].hash \/ reg[c].ident = reg[d].ident

\* Mutant of InsertFits: neither the key nor the index on name and version is there.
InsertAlways(c) == TRUE

\* The primary key and the index on name and version, both committed rows.
InsertFits(c) == release[reg[c].hash] = None /\ ~NameTaken(c)

\* An INSERT waits for the transaction of a clashing one to end.
Insert(c) ==
  /\ At(c, "insert")
  /\ \A d \in pending : ~Clashes(c, d)
  /\ IF InsertFits(c)
     THEN pending' = pending \cup {c} /\ Step(c, "commit")
     ELSE Ends(c) /\ UNCHANGED pending
  /\ UNCHANGED <<release, hosted, told, blobVars>>

\* conn.commit(), then the answer.
Commit(c) ==
  /\ At(c, "commit")
  /\ LET h == reg[c].hash IN
       /\ release' = IF c \in pending THEN [release EXCEPT ![h] = reg[c].ident] ELSE release
       /\ hosted' = IF c \in pending /\ reg[c].zip THEN hosted \cup {h} ELSE hosted
       /\ told' = told \cup {<<h, reg[c].ident>>}
  /\ pending' = pending \ {c}
  /\ Ends(c)
  /\ UNCHANGED blobVars

\* The hub process ends: transactions roll back, files stay as they are.
CatDies ==
  /\ reg' = [c \in Client |-> Idle]
  /\ handle' = [c \in Client |-> "none"]
  /\ pending' = {}
  /\ spoilt' = spoilt \cup {reg[c].hash : c \in {d \in Client : At(d, "write")}}
  /\ UNCHANGED <<release, hosted, told, blob, partial>>

CatNext ==
  \E c \in Client :
    \/ \E h \in Hash, n \in Ident : RegisterTree(c, h, n) \/ RegisterUrl(c, h, n)
    \/ OpenPartial(c) \/ WritePartial(c) \/ WriteFails(c)
    \/ PutBlob(c) \/ PutBlobFails(c)
    \/ CheckName(c) \/ CheckHash(c) \/ Insert(c) \/ Commit(c)

CatSpec == CatInit /\ [][CatNext \/ CatDies]_catVars

-----------------------------------------------------------------------------
(* Properties *)

\* register promises a name and version that stay with one hash, and a hash
\* that stays with one name.  Both SELECTs of two registrations may find
\* nothing before either inserts; and a client is never answered with a row
\* the table does not have.
OneIdentity ==
  /\ \A g, h \in Hash : release[g] = release[h] /\ release[g] # None => g = h
  /\ \A t \in told : release[t[1]] = t[2]

\* A row that names a blob of this hub has it on disk, because the blob is
\* written before the row; and the blob is whole, unless a second
\* registration of the same bytes has it open, or was cut short while it had.
BlobServes ==
  \A h \in hosted :
    /\ blob[h] # "none"
    /\ blob[h] = "torn" =>
         h \in spoilt \/ \E c \in Client : reg[c].hash = h /\ handle[c] = "blob"
=============================================================================
