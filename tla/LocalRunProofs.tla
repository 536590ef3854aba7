--------------------------- MODULE LocalRunProofs ---------------------------
(***************************************************************************)
(* What a Run's folder and the row of its Assignment say, for any Runs,    *)
(* Assignments, workers, exit codes and faults.                            *)
(*                                                                         *)
(* RunInv is about the processes "coreme run" and their folders: who holds *)
(* which (FoldersOwned), how far each is in writing it (Evidence), whether *)
(* its Job lives (JobKnown).  QueueInv is about the rows, the attempts and *)
(* what workers know of them.                                              *)
(***************************************************************************)
EXTENDS LocalRun, TLAPS

\* Before a Run has its folder, and while it has it.
Early == {"none", "check", "look", "mkParent", "mkArtifacts"}
Holding == {"inputs", "begin", "spawn", "wait", "log", "end", "fail", "record", "frame",
            "footer"}

RunShape ==
  /\ windows \in BOOLEAN
  /\ at \in [Run -> Place]
  /\ name \in [Run -> Nat]
  /\ wrote \subseteq claimed \X File \X Run
  /\ torn \subseteq claimed \X File \X Run
  /\ verdict \in [Run -> [kind : Kind, code : Int]]
  /\ job \in [Run -> {"none", "running", "gone"}]
  /\ frame \in [Run -> {"none", "fits", "long"}]
  /\ exit \in [Run -> Int]

FoldersOwned ==
  /\ \A r \in Run : at[r] \in Holding => name[r] \in claimed
  /\ \A r, q \in Run : at[r] \in Holding /\ at[q] \in Holding /\ name[r] = name[q] => r = q
  /\ \A x \in wrote \cup torn :
       /\ x[1] = name[x[3]] /\ at[x[3]] \notin Early
       /\ \A q \in Run : at[q] \in Holding /\ name[q] = x[1] => q = x[3]
  /\ OwnFolder

\* The files of a Run, by the place where its process is.
Evidence(r) ==
  /\ at[r] \in Holding \ {"inputs"} => Wrote(r, "inputs")
  /\ at[r] \in Holding \ {"inputs", "begin"} => Wrote(r, "start")
  /\ at[r] \in {"end", "fail", "record", "frame", "footer"} => Wrote(r, "log")
  /\ at[r] \in {"fail", "record", "frame", "footer"} => Wrote(r, "end")
  /\ at[r] = "fail" => Failed(r)
  /\ at[r] \in {"record", "frame", "footer"} => (Wrote(r, "fail") <=> Failed(r))
  /\ at[r] \in {"frame", "footer"} => Wrote(r, "record")
  /\ at[r] \in Holding \ {"record", "frame", "footer"} => ~Wrote(r, "fail")
  /\ at[r] \in Holding \ {"frame", "footer"} => ~Wrote(r, "record")
  /\ at[r] \in Holding => ~\E f \in File : <<name[r], f, r>> \in torn
  /\ Wrote(r, "record") =>
       /\ \A f \in {"inputs", "start", "log", "end"} : Wrote(r, f)
       /\ Wrote(r, "fail") <=> Failed(r)
       /\ ~\E f \in File : <<name[r], f, r>> \in torn
  /\ frame[r] # "none" => Wrote(r, "record")

JobKnown(r) ==
  /\ at[r] # "gone" => exit[r] = Running
  /\ at[r] \in Early \cup {"inputs", "begin", "spawn"} => job[r] = "none"
  /\ job[r] = "running" /\ at[r] # "wait" =>
       ~windows /\ (verdict[r].kind = "process_error" \/ exit[r] = -9)

RunInv ==
  /\ RunShape /\ FoldersOwned
  /\ \A r \in Run : Evidence(r) /\ JobKnown(r)

LEMMA Places ==
  /\ Place = Early \cup Holding \cup {"gone"}
  /\ Early \cap Holding = {} /\ "gone" \notin Early \cup Holding
BY DEF Place, Early, Holding

-----------------------------------------------------------------------------
(* Folders have one owner *)

\* No file is written, and no folder claimed.
LEMMA NoNewFile ==
  ASSUME RunShape, FoldersOwned, UNCHANGED <<name, claimed, wrote, torn>>,
         \A r \in Run : /\ at'[r] \in Holding => at[r] \in Holding
                        /\ at'[r] \in Early => at[r] \in Early
  PROVE  FoldersOwned'
BY DEF RunShape, FoldersOwned, OwnFolder

\* A Run without a folder looks at another name.
LEMMA NewName ==
  ASSUME RunShape, FoldersOwned, UNCHANGED <<claimed, wrote, torn>>,
         NEW r \in Run, at[r] \in Early, at'[r] \in Early,
         \A q \in Run \ {r} : at'[q] = at[q] /\ name'[q] = name[q]
  PROVE  FoldersOwned'
BY SMTT(30), Places DEF RunShape, FoldersOwned, OwnFolder

\* A Run claims a folder that nobody has.
LEMMA NewFolder ==
  ASSUME RunShape, FoldersOwned, UNCHANGED <<name, wrote, torn>>,
         NEW r \in Run, at[r] \in Early, at'[r] \in Holding,
         name[r] \notin claimed, claimed' = claimed \cup {name[r]},
         \A q \in Run \ {r} : at'[q] = at[q]
  PROVE  FoldersOwned'
<1>1. \A x \in wrote \cup torn : x[1] \in claimed /\ x[3] \in Run /\ x[3] # r
  BY DEF RunShape, FoldersOwned
<1>2. \A x \in wrote' \cup torn' :
        /\ x[1] = name'[x[3]] /\ at'[x[3]] \notin Early
        /\ \A q \in Run : at'[q] \in Holding /\ name'[q] = x[1] => q = x[3]
  BY <1>1 DEF FoldersOwned
<1>3. QED
  BY <1>2, Places DEF FoldersOwned, OwnFolder

\* A Run writes a file into its folder, or a part of one.
LEMMA NewFile ==
  ASSUME RunShape, FoldersOwned, UNCHANGED <<name, claimed>>,
         NEW r \in Run, NEW f \in File, at[r] \in Holding, at'[r] \notin Early,
         \A q \in Run \ {r} : at'[q] = at[q],
         wrote' \cup torn' = wrote \cup torn \cup {<<name[r], f, r>>}
  PROVE  FoldersOwned'
<1> DEFINE x == <<name[r], f, r>>
<1>1. \A y \in wrote \cup torn :
        /\ y[3] \in Run /\ y[1] = name[y[3]] /\ at[y[3]] \notin Early
        /\ \A q \in Run : at[q] \in Holding /\ name[q] = y[1] => q = y[3]
  BY DEF RunShape, FoldersOwned
<1>2. \A y \in wrote' \cup torn' :
        /\ y[1] = name'[y[3]] /\ at'[y[3]] \notin Early
        /\ \A q \in Run : at'[q] \in Holding /\ name'[q] = y[1] => q = y[3]
  <2>1. ASSUME NEW y \in wrote \cup torn
        PROVE  /\ y[1] = name'[y[3]] /\ at'[y[3]] \notin Early
               /\ \A q \in Run : at'[q] \in Holding /\ name'[q] = y[1] => q = y[3]
    BY <1>1
  <2>2. /\ x[1] = name'[x[3]] /\ at'[x[3]] \notin Early
        /\ \A q \in Run : at'[q] \in Holding /\ name'[q] = x[1] => q = x[3]
    BY DEF FoldersOwned
  <2>3. QED
    BY <2>1, <2>2
<1>3. OwnFolder'
  <2>1. ASSUME NEW y \in wrote \cup torn, y[1] = x[1]
        PROVE  y[3] = x[3]
    BY <1>1, <2>1
  <2>2. QED
    BY <2>1 DEF FoldersOwned, OwnFolder
<1>4. \A q \in Run : at'[q] \in Holding => at[q] \in Holding
  OBVIOUS
<1>5. QED
  BY <1>2, <1>3, <1>4 DEF FoldersOwned

-----------------------------------------------------------------------------
(* One step of one Run *)

\* What a step of r leaves alone.
Alone(r) ==
  \A q \in Run \ {r} :
    /\ at'[q] = at[q] /\ name'[q] = name[q] /\ verdict'[q] = verdict[q]
    /\ job'[q] = job[q] /\ frame'[q] = frame[q] /\ exit'[q] = exit[q]
    /\ \A f \in File : /\ <<name[q], f, q>> \in wrote' <=> <<name[q], f, q>> \in wrote
                       /\ <<name[q], f, q>> \in torn' <=> <<name[q], f, q>> \in torn

LEMMA OthersAlone ==
  ASSUME \A q \in Run : Evidence(q) /\ JobKnown(q), UNCHANGED windows,
         NEW r \in Run, Alone(r), Evidence(r)', JobKnown(r)'
  PROVE  \A q \in Run : Evidence(q)' /\ JobKnown(q)'
<1> SUFFICES ASSUME NEW q \in Run \ {r} PROVE Evidence(q)' /\ JobKnown(q)'
  OBVIOUS
<1>0. \A f \in {"inputs", "start", "log", "end", "fail", "record"} : f \in File
  BY DEF File
<1>1. \A f \in File : Wrote(q, f)' <=> Wrote(q, f)
  BY DEF Alone, Wrote
<1>2. Evidence(q) /\ JobKnown(q)
  OBVIOUS
<1>3. JobKnown(q)'
  BY <1>2 DEF Alone, JobKnown
<1>4. Failed(q)' <=> Failed(q)
  BY DEF Alone, Failed
<1>5. (\E f \in File : <<name'[q], f, q>> \in torn') <=> \E f \in File : <<name[q], f, q>> \in torn
  BY DEF Alone
<1>6. Evidence(q)'
  BY <1>0, <1>1, <1>2, <1>4, <1>5 DEF Alone, Evidence
<1>7. QED
  BY <1>3, <1>6

LEMMA WritingPlace ==
  ASSUME NEW r \in Run, Writing(r) # "none"
  PROVE  /\ Writing(r) \in File
         /\ at[r] \in {"inputs", "begin", "log", "end", "fail", "record"}
         /\ Writing(r) = IF at[r] = "begin" THEN "start" ELSE at[r]
BY DEF Writing, File

\* A Run that has written nothing yet.
LEMMA EarlyHasNothing ==
  ASSUME RunShape, FoldersOwned, NEW r \in Run, at[r] \in Early
  PROVE  \A n \in Nat, f \in File : <<n, f, r>> \notin wrote \cup torn
BY DEF FoldersOwned

LEMMA LookStep ==
  ASSUME RunInv, NEW r \in Run,
         CheckPasses(r) \/ CheckRefuses(r) \/ LookFindsOne(r) \/ LookFindsNone(r)
           \/ MakeParent(r)
  PROVE  RunInv' /\ Alone(r)
<1> USE DEF RunInv
<1>1. /\ at[r] \in Early /\ at'[r] \in Early \cup {"gone"}
      /\ \A q \in Run \ {r} : at'[q] = at[q] /\ name'[q] = name[q] /\ exit'[q] = exit[q]
      /\ at'[r] # "gone" => exit'[r] = exit[r]
  BY DEF RunShape, CheckPasses, CheckRefuses, LookFindsOne, LookFindsNone, MakeParent, Goes,
     Ends, Early, folderVars, processVars
<1>2. UNCHANGED <<windows, claimed, wrote, torn, verdict, job, frame>>
  BY DEF CheckPasses, CheckRefuses, LookFindsOne, LookFindsNone, MakeParent, folderVars,
     processVars
<1>3. RunShape'
  <2>1. at' \in [Run -> Place]
    BY DEF RunShape, CheckPasses, CheckRefuses, LookFindsOne, LookFindsNone, MakeParent, Goes,
       Ends, Place
  <2>2. name' \in [Run -> Nat]
    BY DEF RunShape, CheckPasses, CheckRefuses, LookFindsOne, LookFindsNone, MakeParent,
       folderVars
  <2>3. exit' \in [Run -> Int]
    BY DEF RunShape, CheckPasses, CheckRefuses, LookFindsOne, LookFindsNone, MakeParent, Ends,
       processVars
  <2>4. QED
    BY <1>2, <2>1, <2>2, <2>3 DEF RunShape
<1>4. FoldersOwned'
  <2>1. CASE at'[r] \in Early
    BY <1>1, <1>2, <2>1, NewName
  <2>2. CASE at'[r] = "gone"
    <3>1. UNCHANGED name
      BY <2>2, <1>1 DEF RunShape, CheckPasses, CheckRefuses, LookFindsOne, LookFindsNone,
         MakeParent, Goes, folderVars
    <3>2. QED
      BY <1>1, <1>2, <2>2, <3>1, NoNewFile, Places
  <2>3. QED
    BY <1>1, <2>1, <2>2
<1>5. Alone(r)
  BY <1>1, <1>2 DEF Alone
<1>6. Evidence(r)'
  <2>1. \A f \in File : <<name'[r], f, r>> \notin wrote' \cup torn'
    BY <1>1, <1>2, <1>3, EarlyHasNothing DEF RunShape
  <2>2. \A f \in {"record", "inputs", "fail"} : ~Wrote(r, f) /\ ~Wrote(r, f)'
    BY <1>1, <2>1, EarlyHasNothing DEF Wrote, RunShape, File
  <2>3. frame[r] = "none"
    BY <2>2 DEF Evidence
  <2>4. at'[r] \notin Holding
    BY <1>1, Places
  <2>5. QED
    BY <1>2, <2>2, <2>3, <2>4 DEF Evidence, Holding
<1>7. JobKnown(r)'
  BY <1>1, <1>2, Places DEF JobKnown
<1>8. QED
  BY <1>2, <1>3, <1>4, <1>5, <1>6, <1>7, OthersAlone

LEMMA ClaimFolder ==
  ASSUME RunInv, NEW r \in Run, MakeArtifacts(r)
  PROVE  RunInv' /\ Alone(r)
<1> USE DEF RunInv
<1>1. /\ at[r] = "mkArtifacts"
      /\ \A q \in Run \ {r} : at'[q] = at[q] /\ exit'[q] = exit[q]
      /\ \/ /\ at'[r] = "inputs" /\ exit'[r] = exit[r] /\ name[r] \notin claimed
            /\ claimed' = claimed \cup {name[r]}
         \/ at'[r] = "gone" /\ UNCHANGED claimed
  BY DEF RunShape, MakeArtifacts, MayClaim, Goes, Ends
<1>2. UNCHANGED <<windows, wrote, torn, name, verdict, job, frame>>
  BY DEF MakeArtifacts
<1>3. RunShape'
  <2>1. at' \in [Run -> Place] /\ exit' \in [Run -> Int]
    BY DEF RunShape, MakeArtifacts, Goes, Ends, Place
  <2>2. QED
    BY <1>1, <1>2, <2>1 DEF RunShape
<1>4. FoldersOwned'
  BY <1>1, <1>2, NewFolder, NoNewFile DEF Early, Holding
<1>5. Alone(r)
  BY <1>1, <1>2 DEF Alone
<1>6. Evidence(r)'
  <2>1. \A f \in File : <<name[r], f, r>> \notin wrote \cup torn
    BY <1>1, EarlyHasNothing DEF RunShape, Early
  <2>2. \A f \in {"record", "inputs", "fail"} : ~Wrote(r, f) /\ ~Wrote(r, f)'
    BY <1>2, <2>1 DEF Wrote, File
  <2>3. frame[r] = "none"
    BY <2>2 DEF Evidence
  <2>4. ~\E f \in File : <<name'[r], f, r>> \in torn'
    BY <1>2, <2>1
  <2>5. QED
    BY <1>1, <1>2, <2>2, <2>3, <2>4 DEF Evidence, Holding
<1>7. JobKnown(r)'
  BY <1>1, <1>2 DEF JobKnown, Early
<1>8. QED
  BY <1>2, <1>3, <1>4, <1>5, <1>6, <1>7, OthersAlone

LEMMA WriteStep ==
  ASSUME RunInv, NEW r \in Run, Write(r)
  PROVE  RunInv' /\ Alone(r)
<1> USE DEF RunInv
<1> DEFINE f == Writing(r)
<1>1. /\ f \in File /\ at[r] \in {"inputs", "begin", "log", "end", "fail", "record"}
      /\ f = IF at[r] = "begin" THEN "start" ELSE at[r]
  BY WritingPlace DEF Write
<1>2. After(r, f) \in Holding
  BY <1>1 DEF After, Holding
<1>3. /\ at' = [at EXCEPT ![r] = After(r, f)]
      /\ wrote' = wrote \cup {<<name[r], f, r>>}
      /\ UNCHANGED <<windows, claimed, torn, name, verdict, job, frame, exit>>
  BY DEF Write, processVars
<1>4. name[r] \in claimed
  BY <1>1 DEF FoldersOwned, Holding
<1> HIDE DEF f
<1>5. RunShape'
  <2>1. at' \in [Run -> Place]
    BY <1>2, <1>3, Places DEF RunShape
  <2>2. wrote' \subseteq claimed \X File \X Run
    BY <1>1, <1>3, <1>4 DEF RunShape
  <2>3. QED
    BY <1>3, <2>1, <2>2 DEF RunShape
<1>6. FoldersOwned'
  <2>1. at[r] \in Holding /\ at'[r] \notin Early
    BY <1>1, <1>2, <1>3, Places DEF RunShape, Holding
  <2>2. \A q \in Run \ {r} : at'[q] = at[q]
    BY <1>3 DEF RunShape
  <2>3. wrote' \cup torn' = wrote \cup torn \cup {<<name[r], f, r>>}
    BY <1>3
  <2>4. QED
    BY <1>1, <1>3, <2>1, <2>2, <2>3, NewFile
<1>7. Alone(r)
  BY <1>3 DEF Alone, RunShape
<1>8. Evidence(r)'
  <2>1. Evidence(r) /\ JobKnown(r)
    OBVIOUS
  <2>2. \A g \in File : Wrote(r, g)' <=> Wrote(r, g) \/ g = f
    BY <1>3 DEF Wrote
  <2>3. /\ Failed(r)' <=> Failed(r)
        /\ \A g \in File : <<name'[r], g, r>> \in torn' <=> <<name[r], g, r>> \in torn
        /\ at'[r] = After(r, f)
    BY <1>3 DEF Failed, RunShape
  <2>4. frame'[r] # "none" => Wrote(r, "record")'
    BY <1>3, <2>1, <2>2 DEF Evidence, File
  <2>5. CASE at[r] = "inputs"
    <3>1. f = "inputs" /\ at'[r] = "begin"
      BY <1>1, <2>3, <2>5 DEF After
    <3>2. QED
      BY <2>1, <2>2, <2>3, <2>4, <2>5, <3>1 DEF Evidence, File, Holding
  <2>6. CASE at[r] = "begin"
    <3>1. f = "start" /\ at'[r] = "spawn"
      BY <1>1, <2>3, <2>6 DEF After
    <3>2. QED
      BY <2>1, <2>2, <2>3, <2>4, <2>6, <3>1 DEF Evidence, File, Holding
  <2>7. CASE at[r] = "log"
    <3>1. f = "log" /\ at'[r] = "end"
      BY <1>1, <2>3, <2>7 DEF After
    <3>2. QED
      BY <2>1, <2>2, <2>3, <2>4, <2>7, <3>1 DEF Evidence, File, Holding
  <2>8. CASE at[r] = "end"
    <3>1. f = "end" /\ at'[r] = IF Failed(r) THEN "fail" ELSE "record"
      BY <1>1, <2>3, <2>8 DEF After
    <3>2. QED
      BY <2>1, <2>2, <2>3, <2>4, <2>8, <3>1 DEF Evidence, File, Holding
  <2>9. CASE at[r] = "fail"
    <3>1. f = "fail" /\ at'[r] = "record"
      BY <1>1, <2>3, <2>9 DEF After
    <3>2. QED
      BY <2>1, <2>2, <2>3, <2>4, <2>9, <3>1 DEF Evidence, File, Holding
  <2>10. CASE at[r] = "record"
    <3>1. f = "record" /\ at'[r] = "frame"
      BY <1>1, <2>3, <2>10 DEF After
    <3>2. QED
      BY <2>1, <2>2, <2>3, <2>4, <2>10, <3>1 DEF Evidence, File, Holding
  <2>11. QED
    BY <1>1, <2>5, <2>6, <2>7, <2>8, <2>9, <2>10
<1>9. JobKnown(r)'
  <2>1. JobKnown(r)
    OBVIOUS
  <2>2. CASE at[r] \in {"inputs", "begin"}
    BY <1>2, <1>3, <2>1, <2>2, Places DEF JobKnown, RunShape
  <2>3. CASE at[r] \in {"log", "end", "fail", "record"}
    <3>1. at'[r] \in {"end", "fail", "record", "frame"}
      BY <1>1, <1>3, <2>3 DEF After, RunShape
    <3>2. QED
      BY <1>3, <2>1, <2>3, <3>1 DEF JobKnown, Early
  <2>4. QED
    BY <1>1, <2>2, <2>3
<1>10. QED
  BY <1>3, <1>5, <1>6, <1>7, <1>8, <1>9, OthersAlone

\* The process of r ends, maybe within a file.
Stops(r) ==
  /\ at' = [at EXCEPT ![r] = "gone"]
  /\ \/ UNCHANGED torn
     \/ Writing(r) # "none" /\ torn' = torn \cup {<<name[r], Writing(r), r>>}
  /\ UNCHANGED <<windows, claimed, wrote, name, verdict, frame>>

LEMMA StopStep ==
  ASSUME RunInv, NEW r \in Run, Stops(r),
         job' \in [Run -> {"none", "running", "gone"}], exit' \in [Run -> Int],
         \A q \in Run \ {r} : job'[q] = job[q] /\ exit'[q] = exit[q],
         JobKnown(r)'
  PROVE  RunInv' /\ Alone(r)
<1> USE DEF RunInv
<1>1. /\ at' \in [Run -> Place] /\ at'[r] = "gone"
      /\ \A q \in Run \ {r} : at'[q] = at[q]
  BY DEF Stops, RunShape, Place
<1>2. UNCHANGED <<windows, claimed, wrote, name, verdict, frame>>
  BY DEF Stops
<1>3. CASE UNCHANGED torn
  <2>1. RunShape'
    BY <1>1, <1>2, <1>3 DEF RunShape
  <2>2. FoldersOwned'
    BY <1>1, <1>2, <1>3, NoNewFile, Places
  <2>3. Alone(r)
    BY <1>1, <1>2, <1>3 DEF Alone
  <2>4. Evidence(r)'
    BY <1>1, <1>2, <1>3, Places DEF Evidence, Wrote, Failed
  <2>5. QED
    BY <1>2, <2>1, <2>2, <2>3, <2>4, OthersAlone
<1>4. ASSUME Writing(r) # "none", torn' = torn \cup {<<name[r], Writing(r), r>>}
      PROVE  RunInv' /\ Alone(r)
  <2> DEFINE f == Writing(r)
  <2>1. /\ f \in File /\ at[r] \in Holding \ {"frame", "footer"}
        /\ torn' = torn \cup {<<name[r], f, r>>}
    BY <1>4, WritingPlace DEF Holding
  <2> HIDE DEF f
  <2>2. name[r] \in claimed
    BY <2>1 DEF FoldersOwned
  <2>3. torn' \subseteq claimed \X File \X Run
    BY <2>1, <2>2 DEF RunShape
  <2>4. RunShape'
    BY <1>1, <1>2, <2>3 DEF RunShape
  <2>5. wrote' \cup torn' = wrote \cup torn \cup {<<name[r], f, r>>}
    BY <1>2, <2>1
  <2>6. FoldersOwned'
    BY <1>1, <1>2, <2>1, <2>5, NewFile, Places
  <2>7. Alone(r)
    BY <1>1, <1>2, <2>1 DEF Alone
  <2>8. ~Wrote(r, "record") /\ frame[r] = "none"
    BY <2>1 DEF Evidence, RunShape
  <2>9. Evidence(r)'
    BY <1>1, <1>2, <2>8, Places DEF Evidence, Wrote
  <2>10. QED
    BY <1>2, <2>4, <2>6, <2>7, <2>9, OthersAlone
<1>5. QED
  BY <1>3, <1>4 DEF Stops

LEMMA WriteFailsStep ==
  ASSUME RunInv, NEW r \in Run, WriteFails(r)
  PROVE  RunInv' /\ Alone(r)
<1>1. Stops(r)
  BY DEF WriteFails, Ends, Stops
<1>2. /\ UNCHANGED job /\ exit' = [exit EXCEPT ![r] = 1]
      /\ at'[r] = "gone" /\ UNCHANGED <<windows, verdict>>
  BY DEF WriteFails, Ends, RunInv, RunShape
<1>3. at[r] \in {"inputs", "begin", "log", "end", "fail", "record"} /\ exit[r] = Running
  BY WritingPlace DEF WriteFails, RunInv, JobKnown
<1>4. JobKnown(r)'
  <2>1. JobKnown(r)
    BY DEF RunInv
  <2>2. QED
    BY <1>2, <1>3, <2>1 DEF JobKnown, Early, Running
<1>5. QED
  BY <1>1, <1>2, <1>4, StopStep DEF RunInv, RunShape

LEMMA CodesAreInts ==
  /\ ExitCode \subseteq Int /\ 0 \in Int /\ 1 \in Int /\ 124 \in Int /\ -9 \in Int
  /\ \A code \in Int : ExitStatus(code) \in Int
BY RunAssumption DEF RunAssumption, ExitStatus

\* The process of r is killed.
Kill(r) ==
  /\ at[r] # "gone"
  /\ Killed(r)
  /\ exit' = [exit EXCEPT ![r] = KillStatus]
  /\ UNCHANGED <<windows, claimed, wrote, name, verdict, frame>>

LEMMA KillStep ==
  ASSUME RunInv, NEW r \in Run, Kill(r)
  PROVE  RunInv' /\ Alone(r)
<1>1. Stops(r)
  BY DEF Kill, Killed, Stops
<1>2. /\ job' \in [Run -> {"none", "running", "gone"}]
      /\ \A q \in Run \ {r} : job'[q] = job[q]
      /\ job'[r] = IF windows /\ job[r] = "running" THEN "gone" ELSE job[r]
  BY DEF Kill, Killed, RunInv, RunShape
<1>3. /\ exit' \in [Run -> Int] /\ \A q \in Run \ {r} : exit'[q] = exit[q]
      /\ exit'[r] = -9 \/ windows
  BY CodesAreInts DEF Kill, KillStatus, RunInv, RunShape
<1>4. at'[r] = "gone" /\ UNCHANGED windows
  BY DEF Kill, Killed, RunInv, RunShape
<1>5. JobKnown(r)'
  BY <1>2, <1>3, <1>4 DEF JobKnown, Early
<1>6. QED
  BY <1>1, <1>2, <1>3, <1>5, StopStep

LEMMA JobRuns ==
  ASSUME RunInv, NEW r \in Run,
         \/ JobStarts(r) \/ JobStartFails(r) \/ JobEnds(r) \/ JobTimesOut(r) \/ JobStopFails(r)
         \/ OrphanEnds(r)
  PROVE  RunInv' /\ Alone(r)
<1> USE DEF RunInv
<1>1. UNCHANGED <<windows, claimed, wrote, torn, name, frame, exit>>
  BY DEF JobStarts, JobStartFails, JobEnds, JobTimesOut, JobStopFails, OrphanEnds, folderVars
<1>2. \/ at[r] = "spawn" /\ at'[r] = "wait" /\ UNCHANGED verdict
      \/ at[r] \in {"spawn", "wait"} /\ at'[r] = "log"
      \/ UNCHANGED <<at, verdict>>
  BY DEF RunShape, JobStarts, JobStartFails, JobEnds, JobTimesOut, JobStopFails, OrphanEnds,
     Goes, Concludes
<1>3. at' \in [Run -> Place] /\ \A q \in Run \ {r} : at'[q] = at[q]
  BY DEF RunShape, JobStarts, JobStartFails, JobEnds, JobTimesOut, JobStopFails, OrphanEnds,
     Goes, Concludes, Place
<1>4. /\ verdict' \in [Run -> [kind : Kind, code : Int]]
      /\ \A q \in Run \ {r} : verdict'[q] = verdict[q]
  <2>1. CASE UNCHANGED verdict
    BY <2>1 DEF RunShape
  <2>2. ASSUME NEW kind \in Kind, NEW code \in Int,
               verdict' = [verdict EXCEPT ![r] = [kind |-> kind, code |-> code]]
        PROVE  /\ verdict' \in [Run -> [kind : Kind, code : Int]]
               /\ \A q \in Run \ {r} : verdict'[q] = verdict[q]
    BY <2>2 DEF RunShape
  <2>3. UNCHANGED verdict \/ \E kind \in Kind, code \in Int :
          verdict' = [verdict EXCEPT ![r] = [kind |-> kind, code |-> code]]
    BY CodesAreInts DEF JobStarts, JobStartFails, JobEnds, JobTimesOut, JobStopFails, OrphanEnds,
       Concludes, Kind
  <2>4. QED
    BY <2>1, <2>2, <2>3
<1>5. /\ job' \in [Run -> {"none", "running", "gone"}]
      /\ \A q \in Run \ {r} : job'[q] = job[q]
  BY DEF RunShape, JobStarts, JobStartFails, JobEnds, JobTimesOut, JobStopFails, OrphanEnds,
     KilledTree
<1>6. RunShape'
  BY <1>1, <1>3, <1>4, <1>5 DEF RunShape
<1>7. FoldersOwned'
  BY <1>1, <1>2, <1>3, NoNewFile DEF Early, Holding
<1>8. Alone(r)
  BY <1>1, <1>3, <1>4, <1>5 DEF Alone
<1>9. Evidence(r)'
  <2>1. Evidence(r)
    OBVIOUS
  <2>2. \A f : Wrote(r, f)' <=> Wrote(r, f)
    BY <1>1 DEF Wrote
  <2>3. CASE UNCHANGED <<at, verdict>>
    BY <1>1, <2>1, <2>2, <2>3 DEF Evidence, Failed
  <2>4. CASE at[r] \in {"spawn", "wait"} /\ at'[r] \in {"wait", "log"}
    BY <1>1, <2>1, <2>2, <2>4 DEF Evidence, Holding
  <2>5. QED
    BY <1>2, <2>3, <2>4
<1>10. JobKnown(r)'
  <2>1. JobKnown(r)
    OBVIOUS
  <2>2. CASE JobStarts(r)
    BY <1>1, <1>2, <2>1, <2>2 DEF JobStarts, Goes, RunShape, JobKnown, Early
  <2>3. CASE JobStartFails(r)
    <3>1. at[r] = "spawn" /\ at'[r] = "log" /\ UNCHANGED job
      BY <2>3 DEF JobStartFails, Concludes, Goes, RunShape
    <3>2. QED
      BY <1>1, <2>1, <3>1 DEF JobKnown, Early
  <2>4. CASE JobEnds(r) \/ JobTimesOut(r)
    <3>1. at[r] = "wait" /\ at'[r] = "log" /\ job'[r] = "gone"
      BY <2>4 DEF JobEnds, JobTimesOut, Concludes, Goes, KilledTree, RunShape
    <3>2. QED
      BY <1>1, <2>1, <3>1 DEF JobKnown, Early
  <2>5. CASE JobStopFails(r)
    <3>1. /\ at[r] = "wait" /\ at'[r] = "log" /\ job'[r] \in {"running", "gone"}
          /\ windows => job'[r] = "gone"
          /\ verdict'[r].kind = "process_error"
      BY <2>5 DEF JobStopFails, Concludes, Goes, RunShape
    <3>2. QED
      BY <1>1, <2>1, <3>1 DEF JobKnown, Early
  <2>6. CASE OrphanEnds(r)
    <3>1. job[r] = "running" /\ job'[r] = "gone" /\ UNCHANGED at
      BY <2>6 DEF OrphanEnds, RunShape
    <3>2. QED
      BY <1>1, <2>1, <3>1 DEF JobKnown
  <2>7. QED
    BY <2>2, <2>3, <2>4, <2>5, <2>6
<1>11. QED
  BY <1>1, <1>6, <1>7, <1>8, <1>9, <1>10, OthersAlone

LEMMA LastSteps ==
  ASSUME RunInv, NEW r \in Run, SendFrame(r) \/ Return(r) \/ ReturnFails(r)
  PROVE  RunInv' /\ Alone(r)
<1> USE DEF RunInv
<1>1. UNCHANGED <<windows, claimed, wrote, torn, name, verdict, job>>
  BY DEF SendFrame, Return, ReturnFails, folderVars
<1>2. /\ at[r] \in {"frame", "footer"} /\ at' \in [Run -> Place]
      /\ at'[r] \in {"footer", "gone"} /\ \A q \in Run \ {r} : at'[q] = at[q]
      /\ at'[r] = "footer" => UNCHANGED exit
  BY DEF SendFrame, Return, ReturnFails, Goes, Ends, RunShape, Place
<1>3. frame' \in [Run -> {"none", "fits", "long"}] /\ \A q \in Run \ {r} : frame'[q] = frame[q]
  BY DEF SendFrame, Return, ReturnFails, RunShape
<1>4. exit' \in [Run -> Int] /\ \A q \in Run \ {r} : exit'[q] = exit[q]
  <2>1. UNCHANGED exit \/ \E code \in Int : exit' = [exit EXCEPT ![r] = code]
    <3>1. verdict[r].code \in Int
      BY DEF RunShape
    <3>2. QED
      BY <3>1, CodesAreInts DEF SendFrame, Return, ReturnFails, Ends
  <2>2. QED
    BY <2>1 DEF RunShape
<1>5. RunShape'
  BY <1>1, <1>2, <1>3, <1>4 DEF RunShape
<1>6. FoldersOwned'
  BY <1>1, <1>2, NoNewFile DEF Early, Holding
<1>7. Alone(r)
  BY <1>1, <1>2, <1>3, <1>4 DEF Alone
<1>8. Evidence(r)'
  <2>1. Evidence(r)
    OBVIOUS
  <2>2. \A f : Wrote(r, f)' <=> Wrote(r, f)
    BY <1>1 DEF Wrote
  <2>3. Failed(r)' <=> Failed(r)
    BY <1>1 DEF Failed
  <2>4. QED
    BY <1>1, <1>2, <2>1, <2>2, <2>3 DEF Evidence, Holding
<1>9. JobKnown(r)'
  <2>1. JobKnown(r)
    OBVIOUS
  <2>2. exit[r] = Running
    BY <1>2, <2>1 DEF JobKnown
  <2>3. QED
    BY <1>1, <1>2, <2>1, <2>2 DEF JobKnown, Early, Running
<1>10. QED
  BY <1>1, <1>5, <1>6, <1>7, <1>8, <1>9, OthersAlone

\* The worker starts r.
Started(r) ==
  /\ at[r] = "none"
  /\ at' = [at EXCEPT ![r] = "check"]
  /\ UNCHANGED <<folderVars, verdict, job, frame, exit>>

LEMMA StartStep ==
  ASSUME RunInv, NEW r \in Run, Started(r)
  PROVE  RunInv' /\ Alone(r)
<1> USE DEF RunInv
<1>1. UNCHANGED <<windows, claimed, wrote, torn, name, verdict, job, frame, exit>>
  BY DEF Started, folderVars
<1>2. /\ at[r] = "none" /\ at'[r] = "check" /\ at' \in [Run -> Place]
      /\ \A q \in Run \ {r} : at'[q] = at[q]
  BY DEF Started, RunShape, Place
<1>3. RunShape'
  BY <1>1, <1>2 DEF RunShape
<1>4. FoldersOwned'
  BY <1>1, <1>2, NoNewFile DEF Early, Holding
<1>5. Alone(r)
  BY <1>1, <1>2 DEF Alone
<1>6. Evidence(r)' /\ JobKnown(r)'
  <2>1. Evidence(r) /\ JobKnown(r)
    OBVIOUS
  <2>2. \A f : Wrote(r, f)' <=> Wrote(r, f)
    BY <1>1 DEF Wrote
  <2>3. Failed(r)' <=> Failed(r)
    BY <1>1 DEF Failed
  <2>4. Evidence(r)'
    BY <1>1, <1>2, <2>1, <2>2, <2>3 DEF Evidence, Holding
  <2>5. JobKnown(r)'
    BY <1>1, <1>2, <2>1 DEF JobKnown, Early
  <2>6. QED
    BY <2>4, <2>5
<1>7. QED
  BY <1>1, <1>3, <1>4, <1>5, <1>6, OthersAlone

\* A step of r by itself.
Own(r) == RunProceeds(r) \/ RunFails(r) \/ OrphanEnds(r)

LEMMA OwnStep ==
  ASSUME RunInv, NEW r \in Run, Own(r)
  PROVE  RunInv' /\ Alone(r)
BY LookStep, ClaimFolder, WriteStep, WriteFailsStep, JobRuns, LastSteps
   DEF Own, RunProceeds, RunFails

LEMMA RunInvInit == RunInit => RunInv
<1> SUFFICES ASSUME RunInit PROVE RunInv
  OBVIOUS
<1>1. RunShape
  BY CodesAreInts DEF RunInit, RunShape, Place, NoVerdict, Kind, Running
<1>2. FoldersOwned
  BY DEF RunInit, FoldersOwned, OwnFolder, Holding
<1>3. ASSUME NEW r \in Run PROVE Evidence(r) /\ JobKnown(r)
  BY DEF RunInit, Evidence, JobKnown, Wrote, Holding
<1>4. QED
  BY <1>1, <1>2, <1>3 DEF RunInv

-----------------------------------------------------------------------------
(* Rows, attempts and workers *)

\* What is said of a Run is what its folder says.
Told(r, status, path) ==
  /\ status \in {"succeeded", "failed"} => path # None
  /\ path # None =>
       path = name[r] /\ Wrote(r, "record") /\ (status = "succeeded" <=> ~Failed(r))

QueueShape ==
  /\ row \in [Assignment ->
       [status : {"none", "pending", "running"} \cup Final, attempt : Run \cup {None},
        path : Nat \cup {None}, code : Int \cup {None}]]
  /\ attempts \subseteq [id : Run, of : Assignment, status : {"running"} \cup Final]
  /\ doing \in [Worker ->
       [pc : {"idle", "start", "wait", "report"}, id : Assignment \cup {None},
        run : Run \cup {None}, status : {"none"} \cup Final, path : Nat \cup {None},
        code : Int \cup {None}]]

AttemptsAgree ==
  /\ \A t, u \in attempts : t.id = u.id \/ t.of = u.of => t = u
  /\ \A t \in attempts : row[t.of].attempt = t.id /\ row[t.of].status = t.status
  /\ \A a \in Assignment :
       row[a].status \in {"running"} \cup Final => \E t \in attempts : t.of = a
  /\ \A r \in Run : at[r] # "none" => \E t \in attempts : t.id = r

WorkerKnows(w) ==
  /\ doing[w].pc = "idle" => doing[w].id = None
  /\ doing[w].pc # "idle" =>
       /\ doing[w].id \in Assignment /\ doing[w].run \in Run
       /\ row[doing[w].id].status = "running" /\ row[doing[w].id].attempt = doing[w].run
  /\ doing[w].pc = "start" => at[doing[w].run] = "none"
  /\ doing[w].pc = "report" =>
       /\ doing[w].status \in Final /\ at[doing[w].run] \in {"none", "gone"}
       /\ Told(doing[w].run, doing[w].status, doing[w].path)

OwnAssignments ==
  \A v, w \in Worker : v # w /\ doing[v].id = doing[w].id => doing[v].id = None

RowKnows(a) ==
  /\ row[a].status \in Final =>
       /\ at[row[a].attempt] \in {"none", "gone"}
       /\ Told(row[a].attempt, row[a].status, row[a].path)
  /\ row[a].status \notin Final => row[a].path = None

QueueInv ==
  /\ QueueShape /\ AttemptsAgree /\ OwnAssignments
  /\ \A w \in Worker : WorkerKnows(w)
  /\ \A a \in Assignment : RowKnows(a)

\* A Run that has not begun or is over stays so, and its evidence stays.
Stable(r) ==
  /\ at[r] = "none" => at'[r] = "none"
  /\ at[r] = "gone" => at'[r] = "gone"
  /\ at[r] = "gone" /\ Wrote(r, "record") =>
       name'[r] = name[r] /\ verdict'[r] = verdict[r] /\ Wrote(r, "record")'

LEMMA NoneIsNothing == None \notin Int /\ None \notin Assignment /\ None \notin Run
<1>1. (\A x \in Assignment : x \in Int) /\ (\A x \in Run : x \in Int)
  BY LocalAssumption DEF LocalAssumption
<1>2. QED
  BY <1>1, LocalAssumption DEF LocalAssumption

LEMMA AloneIsStable ==
  ASSUME NEW q \in Run, Alone(q)
  PROVE  \A r \in Run \ {q} : Stable(r)
BY DEF Alone, Stable, Wrote, File

LEMMA OwnIsStable ==
  ASSUME RunInv, NEW q \in Run, Own(q)
  PROVE  \A r \in Run : Stable(r)
<1>1. Alone(q)
  BY OwnStep
<1>2. CASE OrphanEnds(q)
  BY <1>2 DEF OrphanEnds, Stable, folderVars, Wrote
<1>3. CASE ~OrphanEnds(q)
  <2>1. at[q] \notin {"none", "gone"}
    BY <1>3 DEF Own, RunProceeds, RunFails, CheckPasses, CheckRefuses, LookFindsOne,
       LookFindsNone, MakeParent, MakeArtifacts, Write, JobStarts, JobEnds, JobTimesOut, SendFrame,
       Return, WriteFails, JobStartFails, JobStopFails, ReturnFails, Goes, Concludes, Writing
  <2>2. QED
    BY <1>1, <2>1, AloneIsStable DEF Stable
<1>4. QED
  BY <1>2, <1>3

LEMMA KillIsStable ==
  ASSUME RunInv, NEW q \in Run, Kill(q), at[q] # "none"
  PROVE  \A r \in Run : Stable(r)
BY KillStep, AloneIsStable DEF Kill, Stable

\* Evidence of a Run that is over or has not begun is told of as before.
LEMMA ToldStays ==
  ASSUME RunInv, NEW r \in Run, Stable(r), at[r] \in {"none", "gone"},
         NEW status, NEW path, Told(r, status, path)
  PROVE  /\ at'[r] \in {"none", "gone"}
         /\ status \in {"succeeded", "failed"} => path # None
         /\ path # None =>
              /\ path = name'[r] /\ Wrote(r, "record")'
              /\ status = "succeeded" <=> ~(verdict'[r].code # 0)
<1>1. Wrote(r, "record") => at[r] = "gone"
  BY DEF RunInv, FoldersOwned, Wrote, Early
<1>2. QED
  BY <1>1 DEF Stable, Told, Failed

LEMMA OneAttempt ==
  ASSUME QueueInv, NEW w \in Worker, doing[w].pc # "idle"
  PROVE  /\ \E t \in attempts : t.id = doing[w].run /\ t.of = doing[w].id
         /\ \A a \in Assignment :
              row[a].status \in {"running"} \cup Final /\ row[a].attempt = doing[w].run =>
                a = doing[w].id
<1>1. WorkerKnows(w)
  BY DEF QueueInv
<1>2. PICK t \in attempts : t.of = doing[w].id
  BY <1>1 DEF QueueInv, AttemptsAgree, WorkerKnows
<1>3. t.id = doing[w].run
  BY <1>1, <1>2 DEF QueueInv, AttemptsAgree, WorkerKnows
<1>4. ASSUME NEW a \in Assignment, row[a].status \in {"running"} \cup Final,
             row[a].attempt = doing[w].run
      PROVE  a = doing[w].id
  <2>1. PICK u \in attempts : u.of = a
    BY <1>4 DEF QueueInv, AttemptsAgree
  <2>2. u.id = t.id
    BY <1>3, <1>4, <2>1 DEF QueueInv, AttemptsAgree
  <2>3. QED
    BY <1>2, <2>1, <2>2 DEF QueueInv, AttemptsAgree
<1>5. QED
  BY <1>2, <1>3, <1>4

\* Rows say of stable Runs what they said.
LEMMA RowsStay ==
  ASSUME RunInv, QueueInv, UNCHANGED row, NEW a \in Assignment,
         row[a].status \in Final => Stable(row[a].attempt)
  PROVE  RowKnows(a)'
<1>1. CASE row[a].status \in Final
  <2>1. row[a].attempt \in Run
    <3>1. PICK t \in attempts : t.of = a
      BY <1>1 DEF QueueInv, AttemptsAgree
    <3>2. QED
      BY <3>1 DEF QueueInv, AttemptsAgree, QueueShape
  <2>2. at[row[a].attempt] \in {"none", "gone"}
        /\ Told(row[a].attempt, row[a].status, row[a].path)
    BY <1>1 DEF QueueInv, RowKnows
  <2>3. QED
    BY <1>1, <2>1, <2>2, ToldStays DEF RowKnows, Told, Failed
<1>2. CASE row[a].status \notin Final
  BY <1>2 DEF QueueInv, RowKnows
<1>3. QED
  BY <1>1, <1>2

\* Workers that do nothing know of stable Runs what they knew.
LEMMA WorkersStay ==
  ASSUME RunInv, QueueInv, NEW v \in Worker, doing'[v] = doing[v],
         doing[v].pc # "idle" =>
           /\ row'[doing[v].id] = row[doing[v].id]
           /\ Stable(doing[v].run)
  PROVE  WorkerKnows(v)'
<1>1. WorkerKnows(v)
  BY DEF QueueInv
<1>2. CASE doing[v].pc = "report"
  <2>1. /\ doing[v].run \in Run /\ at[doing[v].run] \in {"none", "gone"}
        /\ Told(doing[v].run, doing[v].status, doing[v].path)
    BY <1>1, <1>2 DEF WorkerKnows
  <2>2. Stable(doing[v].run)
    BY <1>2
  <2>3. /\ at'[doing[v].run] \in {"none", "gone"}
        /\ doing[v].status \in {"succeeded", "failed"} => doing[v].path # None
        /\ doing[v].path # None =>
             /\ doing[v].path = name'[doing[v].run] /\ Wrote(doing[v].run, "record")'
             /\ doing[v].status = "succeeded" <=> ~(verdict'[doing[v].run].code # 0)
    BY <2>1, <2>2, ToldStays
  <2>4. QED
    BY <1>1, <1>2, <2>3 DEF WorkerKnows, Told, Failed, Wrote
<1>3. CASE doing[v].pc # "report"
  BY <1>1, <1>3 DEF WorkerKnows, Stable
<1>4. QED
  BY <1>2, <1>3

\* A Run goes on, and the queue and its workers do not.
LEMMA RunMoves ==
  ASSUME RunInv, QueueInv, UNCHANGED <<row, attempts, doing>>, \A r \in Run : Stable(r)
  PROVE  QueueInv'
<1>1. QueueShape' /\ OwnAssignments'
  BY DEF QueueInv, QueueShape, OwnAssignments
<1>2. AttemptsAgree'
  BY DEF QueueInv, AttemptsAgree, Stable
<1>3. ASSUME NEW v \in Worker PROVE WorkerKnows(v)'
  <2>1. doing[v].pc # "idle" => doing[v].run \in Run
    BY DEF QueueInv, WorkerKnows
  <2>2. QED
    BY <2>1, WorkersStay
<1>4. ASSUME NEW a \in Assignment PROVE RowKnows(a)'
  <2>1. row[a].status \in Final => row[a].attempt \in Run
    BY DEF QueueInv, AttemptsAgree, QueueShape
  <2>2. QED
    BY <2>1, RowsStay
<1>5. QED
  BY <1>1, <1>2, <1>3, <1>4 DEF QueueInv

\* A worker goes on, its Run maybe with it, and the queue does not.
LEMMA WorkerMoves ==
  ASSUME RunInv, QueueInv, NEW w \in Worker, doing[w].pc # "idle",
         UNCHANGED <<row, attempts>>, QueueShape',
         \A v \in Worker \ {w} : doing'[v] = doing[v],
         doing'[w].id \in {doing[w].id, None}, WorkerKnows(w)',
         \A r \in Run \ {doing[w].run} : Stable(r)
  PROVE  QueueInv'
<1>1. OwnAssignments'
  BY DEF QueueInv, OwnAssignments
<1>2. AttemptsAgree'
  <2>1. \E t \in attempts : t.id = doing[w].run
    BY OneAttempt
  <2>2. QED
    BY <2>1 DEF QueueInv, AttemptsAgree, Stable
<1>3. ASSUME NEW v \in Worker \ {w} PROVE WorkerKnows(v)'
  <2>1. CASE doing[v].pc # "idle"
    <3>1. doing[v].run \in Run /\ doing[v].id \in Assignment /\ row[doing[v].id].status = "running"
            /\ row[doing[v].id].attempt = doing[v].run
      BY <2>1 DEF QueueInv, WorkerKnows
    <3>2. doing[v].id # doing[w].id
      BY <3>1, NoneIsNothing DEF QueueInv, OwnAssignments
    <3>3. doing[v].run # doing[w].run
      BY <3>1, <3>2, OneAttempt
    <3>4. QED
      BY <3>1, <3>3, WorkersStay
  <2>2. QED
    BY <2>1, WorkersStay
<1>4. ASSUME NEW a \in Assignment PROVE RowKnows(a)'
  <2>1. CASE row[a].status \in Final
    <3>1. row[a].attempt \in Run
      BY <2>1 DEF QueueInv, AttemptsAgree, QueueShape
    <3>2. row[a].attempt # doing[w].run
      <4>1. row[doing[w].id].status = "running"
        BY DEF QueueInv, WorkerKnows
      <4>2. QED
        BY <2>1, <4>1, OneAttempt DEF Final
    <3>3. QED
      BY <3>1, <3>2, RowsStay
  <2>2. QED
    BY <2>1, RowsStay
<1>5. QED
  BY <1>1, <1>2, <1>3, <1>4 DEF QueueInv

-----------------------------------------------------------------------------
(* Steps of the queue and its workers *)

RunsRest == UNCHANGED <<at, name, verdict, wrote, torn, claimed, windows, job, frame, exit>>

LEMMA RestIsStable ==
  RunsRest => (RunInv => RunInv') /\ \A r \in Run : Stable(r)
<1> SUFFICES ASSUME RunsRest PROVE (RunInv => RunInv') /\ \A r \in Run : Stable(r)
  OBVIOUS
<1>1. \A r \in Run : Stable(r)
  BY DEF RunsRest, Stable, Wrote
<1>2. ASSUME RunInv PROVE RunInv'
  <2>1. RunShape'
    BY <1>2 DEF RunInv, RunsRest, RunShape
  <2>2. FoldersOwned'
    BY <1>2, NoNewFile DEF RunInv, RunsRest
  <2>3. \A r \in Run : Evidence(r)'
    BY <1>2 DEF RunInv, RunsRest, Evidence, Wrote, Failed
  <2>4. \A r \in Run : JobKnown(r)'
    BY <1>2 DEF RunInv, RunsRest, JobKnown
  <2>5. QED
    BY <2>1, <2>2, <2>3, <2>4 DEF RunInv
<1>3. QED
  BY <1>1, <1>2

LEMMA RunsRestWhen == UNCHANGED runVars => RunsRest
BY DEF runVars, folderVars, processVars, RunsRest

LEMMA ReportsShape ==
  ASSUME QueueShape, NEW w \in Worker, NEW status \in Final, NEW path \in Nat \cup {None},
         NEW code \in Int \cup {None}, Reports(w, status, path, code), UNCHANGED <<row, attempts>>
  PROVE  /\ QueueShape'
         /\ doing'[w].pc = "report" /\ doing'[w].id = doing[w].id /\ doing'[w].run = doing[w].run
         /\ doing'[w].status = status /\ doing'[w].path = path
         /\ \A v \in Worker \ {w} : doing'[v] = doing[v]
<1> DEFINE Entry == [pc : {"idle", "start", "wait", "report"}, id : Assignment \cup {None},
                     run : Run \cup {None}, status : {"none"} \cup Final,
                     path : Nat \cup {None}, code : Int \cup {None}]
<1>1. doing \in [Worker -> Entry]
  BY DEF QueueShape
<1>2. doing' \in [Worker -> Entry]
  <2> DEFINE new == [[[[doing[w] EXCEPT !.pc = "report"] EXCEPT !.status = status]
                        EXCEPT !.path = path] EXCEPT !.code = code]
  <2>1. new \in Entry
    BY <1>1
  <2>2. doing' = [doing EXCEPT ![w] = new]
    BY <1>1 DEF Reports
  <2> HIDE DEF new, Entry
  <2>3. QED
    BY <1>1, <2>1, <2>2
<1>3. /\ doing'[w].pc = "report" /\ doing'[w].id = doing[w].id /\ doing'[w].run = doing[w].run
      /\ doing'[w].status = status /\ doing'[w].path = path
      /\ \A v \in Worker \ {w} : doing'[v] = doing[v]
  BY <1>1 DEF Reports
<1>4. QueueShape'
  BY <1>2 DEF QueueShape
<1>5. QED
  BY <1>3, <1>4

LEMMA EnqueueStep ==
  ASSUME RunInv, QueueInv, NEW a \in Assignment, Enqueue(a)
  PROVE  RunInv' /\ QueueInv'
<1>1. /\ RunInv' /\ \A r \in Run : Stable(r)
      /\ UNCHANGED <<at, attempts, doing>>
  BY RestIsStable, RunsRestWhen DEF Enqueue, workerVars, runVars
<1>2. /\ row[a].status = "none" /\ QueueShape'
      /\ row'[a] = [row[a] EXCEPT !.status = "pending"]
      /\ \A b \in Assignment \ {a} : row'[b] = row[b]
  BY <1>1 DEF Enqueue, QueueInv, QueueShape
<1>3. \A t \in attempts : t.of \in Assignment \ {a}
  BY <1>2 DEF QueueInv, QueueShape, AttemptsAgree, Final
<1>4. AttemptsAgree'
  <2>1. row'[a].status = "pending"
    BY <1>2 DEF QueueInv, QueueShape
  <2>2. QED
    BY ZenonT(60), <1>1, <1>2, <1>3, <2>1 DEF QueueInv, AttemptsAgree, Final
<1>5. OwnAssignments'
  BY <1>1 DEF QueueInv, OwnAssignments
<1>6. ASSUME NEW v \in Worker PROVE WorkerKnows(v)'
  <2>1. doing[v].pc # "idle" => doing[v].id \in Assignment \ {a} /\ doing[v].run \in Run
    BY <1>2 DEF QueueInv, WorkerKnows
  <2>2. QED
    BY <1>1, <1>2, <2>1, WorkersStay
<1>7. ASSUME NEW b \in Assignment PROVE RowKnows(b)'
  <2>1. CASE b = a
    BY <1>2, <2>1 DEF QueueInv, QueueShape, RowKnows, Final
  <2>2. CASE b # a
    <3>1. row'[b] = row[b] /\ UNCHANGED <<at, name, verdict, wrote>> /\ RowKnows(b)
      BY <1>2, <2>2 DEF Enqueue, runVars, folderVars, processVars, QueueInv
    <3>2. QED
      BY <3>1 DEF RowKnows, Told, Wrote, Failed
  <2>3. QED
    BY <2>1, <2>2
<1>8. QED
  BY <1>1, <1>2, <1>4, <1>5, <1>6, <1>7 DEF QueueInv

LEMMA ClaimStep ==
  ASSUME RunInv, QueueInv, NEW w \in Worker, NEW a \in Assignment, Claim(w, a)
  PROVE  RunInv' /\ QueueInv'
<1> DEFINE r == NewAttempt
           new == [id |-> r, of |-> a, status |-> "running"]
<1>1. /\ RunInv' /\ \A q \in Run : Stable(q)
      /\ UNCHANGED <<at, name, verdict, wrote>>
  BY RestIsStable, RunsRestWhen DEF Claim, runVars, folderVars, processVars
<1>2. r \in Run /\ \A t \in attempts : t.id # r
  BY DEF Claim, NewAttempt
<1>3. /\ row[a].status = "pending" /\ doing[w].pc = "idle"
      /\ row' = [row EXCEPT ![a].status = "running", ![a].attempt = r]
      /\ attempts' = attempts \cup {new}
      /\ doing' = [doing EXCEPT ![w] =
                     [Resting EXCEPT !.pc = "start", !.id = a, !.run = r]]
  BY DEF Claim, Claimable
<1> HIDE DEF r
<1>4. /\ row' \in [Assignment ->
           [status : {"none", "pending", "running"} \cup Final, attempt : Run \cup {None},
            path : Nat \cup {None}, code : Int \cup {None}]]
      /\ row'[a].status = "running" /\ row'[a].attempt = r /\ row'[a].path = row[a].path
      /\ \A b \in Assignment \ {a} : row'[b] = row[b]
  <2> DEFINE Row == [status : {"none", "pending", "running"} \cup Final,
                     attempt : Run \cup {None},
                     path : Nat \cup {None}, code : Int \cup {None}]
             mine == [row[a] EXCEPT !.status = "running", !.attempt = r]
  <2>1. row \in [Assignment -> Row]
    BY DEF QueueInv, QueueShape
  <2>2. mine \in Row /\ mine.status = "running" /\ mine.attempt = r /\ mine.path = row[a].path
    BY <1>2, <2>1
  <2>3. row' = [row EXCEPT ![a] = mine]
    BY <1>3, <2>1
  <2> HIDE DEF Row, mine
  <2>4. /\ row' \in [Assignment -> Row] /\ row'[a] = mine
        /\ \A b \in Assignment \ {a} : row'[b] = row[b]
    BY <2>1, <2>2, <2>3
  <2>5. QED
    BY <2>2, <2>4 DEF Row
<1>5. /\ doing'[w].pc = "start" /\ doing'[w].id = a /\ doing'[w].run = r
      /\ \A v \in Worker \ {w} : doing'[v] = doing[v]
  BY <1>3 DEF Resting, QueueInv, QueueShape
<1>6. QueueShape'
  <2>1. [Resting EXCEPT !.pc = "start", !.id = a, !.run = r] \in
          [pc : {"idle", "start", "wait", "report"}, id : Assignment \cup {None},
           run : Run \cup {None}, status : {"none"} \cup Final, path : Nat \cup {None},
           code : Int \cup {None}]
    BY <1>2 DEF Resting
  <2>2. QED
    BY <1>2, <1>3, <1>4, <2>1 DEF QueueInv, QueueShape
<1>7. \A t \in attempts : t.of \in Assignment \ {a} /\ t.id # r
  BY <1>2, <1>3 DEF QueueInv, QueueShape, AttemptsAgree, Final
<1>8. AttemptsAgree'
  <2>1. \A t, u \in attempts' : t.id = u.id \/ t.of = u.of => t = u
    BY <1>3, <1>7 DEF QueueInv, AttemptsAgree
  <2>2. \A t \in attempts' : row'[t.of].attempt = t.id /\ row'[t.of].status = t.status
    BY <1>3, <1>4, <1>7 DEF QueueInv, AttemptsAgree
  <2>3. \A b \in Assignment :
          row'[b].status \in {"running"} \cup Final => \E t \in attempts' : t.of = b
    <3>1. ASSUME NEW b \in Assignment, row'[b].status \in {"running"} \cup Final
          PROVE  \E t \in attempts' : t.of = b
      <4>1. CASE b = a
        <5>1. new \in attempts' /\ new.of = a
          BY <1>3
        <5>2. QED
          BY <4>1, <5>1
      <4>2. CASE b # a
        BY <1>3, <1>4, <3>1, <4>2 DEF QueueInv, AttemptsAgree
      <4>3. QED
        BY <4>1, <4>2
    <3>2. QED
      BY <3>1
  <2>4. \A q \in Run : at'[q] # "none" => \E t \in attempts' : t.id = q
    BY <1>1, <1>3 DEF QueueInv, AttemptsAgree
  <2>5. QED
    BY <2>1, <2>2, <2>3, <2>4 DEF AttemptsAgree
<1>9. ASSUME NEW v \in Worker \ {w}
      PROVE  doing[v].pc # "idle" => doing[v].id \in Assignment \ {a} /\ doing[v].run \in Run
  BY <1>3 DEF QueueInv, WorkerKnows
<1>10. OwnAssignments'
  <2>1. \A v \in Worker \ {w} : doing[v].id # a
    BY <1>9, NoneIsNothing DEF QueueInv, WorkerKnows
  <2>2. QED
    BY <1>5, <2>1 DEF QueueInv, OwnAssignments
<1>11. ASSUME NEW v \in Worker PROVE WorkerKnows(v)'
  <2>1. CASE v = w
    <3>1. at[r] = "none"
      BY <1>2 DEF QueueInv, AttemptsAgree
    <3>2. QED
      BY <1>1, <1>2, <1>4, <1>5, <2>1, <3>1 DEF WorkerKnows
  <2>2. CASE v # w
    BY <1>1, <1>4, <1>5, <1>9, <2>2, WorkersStay
  <2>3. QED
    BY <2>1, <2>2
<1>12. ASSUME NEW b \in Assignment PROVE RowKnows(b)'
  <2>1. CASE b = a
    BY <1>3, <1>4, <2>1 DEF QueueInv, RowKnows, Final
  <2>2. CASE b # a
    BY <1>1, <1>4, <2>2 DEF QueueInv, RowKnows, Told, Wrote, Failed
  <2>3. QED
    BY <2>1, <2>2
<1>13. QED
  BY <1>1, <1>6, <1>8, <1>10, <1>11, <1>12 DEF QueueInv

LEMMA SpawnStep ==
  ASSUME RunInv, QueueInv, NEW w \in Worker, Spawn(w)
  PROVE  RunInv' /\ QueueInv'
<1> DEFINE r == doing[w].run
<1>1. /\ WorkerKnows(w) /\ doing[w].pc = "start" /\ r \in Run
  BY DEF Spawn, QueueInv, WorkerKnows
<1>2. Started(r)
  BY <1>1 DEF Spawn, WorkerKnows, Started
<1>3. RunInv' /\ Alone(r)
  BY <1>1, <1>2, StartStep
<1>4. UNCHANGED <<row, attempts>> /\ doing' = [doing EXCEPT ![w].pc = "wait"]
  BY DEF Spawn, queueVars
<1>5. QueueShape'
  BY <1>4 DEF QueueInv, QueueShape
<1>6. /\ doing'[w].pc = "wait" /\ doing'[w].id = doing[w].id /\ doing'[w].run = r
      /\ \A v \in Worker \ {w} : doing'[v] = doing[v]
  BY <1>4 DEF QueueInv, QueueShape
<1>7. WorkerKnows(w)'
  BY <1>1, <1>4, <1>6 DEF WorkerKnows
<1>8. \A q \in Run \ {r} : Stable(q)
  BY <1>1, <1>3, AloneIsStable
<1>9. QED
  BY <1>1, <1>3, <1>4, <1>5, <1>6, <1>7, <1>8, WorkerMoves

LEMMA SpawnFailsStep ==
  ASSUME RunInv, QueueInv, NEW w \in Worker, SpawnFails(w)
  PROVE  RunInv' /\ QueueInv'
<1>1. WorkerKnows(w) /\ doing[w].pc = "start"
  BY DEF SpawnFails, QueueInv
<1>2. RunsRest /\ UNCHANGED <<row, attempts>> /\ Reports(w, "error", None, None)
  BY DEF SpawnFails, RunsRest, queueVars, folderVars, processVars
<1>3. /\ QueueShape'
      /\ doing'[w].pc = "report" /\ doing'[w].id = doing[w].id /\ doing'[w].run = doing[w].run
      /\ doing'[w].status = "error" /\ doing'[w].path = None
      /\ \A v \in Worker \ {w} : doing'[v] = doing[v]
  BY <1>2, ReportsShape DEF QueueInv, Final
<1>4. WorkerKnows(w)'
  BY <1>1, <1>2, <1>3 DEF WorkerKnows, RunsRest, Told, Final
<1>5. QED
  BY <1>1, <1>2, <1>3, <1>4, RestIsStable, WorkerMoves

LEMMA CoremeEndsStep ==
  ASSUME RunInv, QueueInv, NEW w \in Worker, CoremeEnds(w)
  PROVE  RunInv' /\ QueueInv'
<1> DEFINE r == doing[w].run
<1>1. WorkerKnows(w) /\ doing[w].pc = "wait" /\ r \in Run /\ at[r] = "gone"
  BY DEF CoremeEnds, Over, QueueInv, WorkerKnows
<1>2. RunsRest /\ UNCHANGED <<row, attempts>>
  BY RunsRestWhen DEF CoremeEnds, queueVars
<1>3. PICK status \in Final, path \in Nat \cup {None} :
        Reports(w, status, path, exit[r]) /\ Told(r, status, path)
  <2>1. CASE Usable(r)
    <3>1. Wrote(r, "record") /\ verdict[r].code = exit[r]
      BY <1>1, <2>1 DEF Usable, Consistent, RunInv, Evidence
    <3>2. StatusFromExit(exit[r]) \in Final
      BY DEF StatusFromExit, Final
    <3>3. StatusFromExit(exit[r]) = "succeeded" <=> ~Failed(r)
      BY <3>1 DEF StatusFromExit, Failed
    <3>4. name[r] \in Nat /\ name[r] # None
      BY <1>1, NoneIsNothing DEF RunInv, RunShape
    <3>5. Told(r, StatusFromExit(exit[r]), name[r])
      BY <3>1, <3>3, <3>4 DEF Told
    <3>6. Reports(w, StatusFromExit(exit[r]), name[r], exit[r])
      BY <2>1 DEF CoremeEnds
    <3>7. QED
      BY <3>2, <3>4, <3>5, <3>6
  <2>2. CASE ~Usable(r)
    <3>1. Reports(w, "error", None, exit[r]) /\ Told(r, "error", None)
      BY <2>2 DEF CoremeEnds, Told
    <3>2. QED
      BY <3>1 DEF Final
  <2>3. QED
    BY <2>1, <2>2
<1>4. exit[r] \in Int
  BY <1>1 DEF RunInv, RunShape
<1>5. /\ QueueShape'
      /\ doing'[w].pc = "report" /\ doing'[w].id = doing[w].id /\ doing'[w].run = r
      /\ doing'[w].status = status /\ doing'[w].path = path
      /\ \A v \in Worker \ {w} : doing'[v] = doing[v]
  BY <1>2, <1>3, <1>4, ReportsShape DEF QueueInv
<1>6. WorkerKnows(w)'
  BY <1>1, <1>2, <1>3, <1>5 DEF WorkerKnows, RunsRest, Told, Wrote, Failed
<1>7. QED
  BY <1>1, <1>2, <1>5, <1>6, RestIsStable, WorkerMoves

LEMMA TimeoutStep ==
  ASSUME RunInv, QueueInv, NEW w \in Worker, AgentTimesOut(w)
  PROVE  RunInv' /\ QueueInv'
<1> DEFINE r == doing[w].run
<1>1. WorkerKnows(w) /\ doing[w].pc = "wait" /\ r \in Run
  BY DEF AgentTimesOut, QueueInv, WorkerKnows
<1>2. /\ Kill(r) /\ UNCHANGED <<row, attempts>> /\ Reports(w, "timeout", None, 124)
      /\ at'[r] = "gone"
  <2>1. Kill(r)
    <3>1. Killed(r) /\ at[r] # "gone" /\ exit' = [exit EXCEPT ![r] = KillStatus]
      BY DEF AgentTimesOut
    <3>2. UNCHANGED <<windows, claimed, wrote, name, verdict, frame>>
      BY DEF AgentTimesOut
    <3>3. QED
      BY <3>1, <3>2 DEF Kill
  <2>2. UNCHANGED <<row, attempts>> /\ Reports(w, "timeout", None, 124)
    BY DEF AgentTimesOut, queueVars
  <2>3. at'[r] = "gone"
    BY <1>1, <2>1 DEF Kill, Killed, RunInv, RunShape
  <2>4. QED
    BY <2>1, <2>2, <2>3
<1>3. /\ QueueShape'
      /\ doing'[w].pc = "report" /\ doing'[w].id = doing[w].id /\ doing'[w].run = r
      /\ doing'[w].status = "timeout" /\ doing'[w].path = None
      /\ \A v \in Worker \ {w} : doing'[v] = doing[v]
  BY <1>2, CodesAreInts, ReportsShape DEF QueueInv, Final
<1>4. WorkerKnows(w)'
  BY <1>1, <1>2, <1>3 DEF WorkerKnows, Told, Final
<1>5. RunInv' /\ \A q \in Run \ {r} : Stable(q)
  BY <1>1, <1>2, KillStep, AloneIsStable
<1>6. QED
  BY <1>1, <1>2, <1>3, <1>4, <1>5, WorkerMoves

LEMMA DeathStep ==
  ASSUME RunInv, QueueInv, NEW w \in Worker, WorkerDies(w)
  PROVE  RunInv' /\ QueueInv'
<1> DEFINE r == doing[w].run
<1>1. doing[w].pc # "idle" /\ r \in Run
  BY DEF WorkerDies, QueueInv, WorkerKnows
<1>2. UNCHANGED <<row, attempts>> /\ doing' = [doing EXCEPT ![w] = Resting]
  BY DEF WorkerDies, queueVars
<1>3. /\ doing'[w] = Resting /\ \A v \in Worker \ {w} : doing'[v] = doing[v]
      /\ QueueShape'
  BY <1>2 DEF QueueInv, QueueShape, Resting
<1>4. doing'[w].id = None /\ WorkerKnows(w)'
  BY <1>3 DEF Resting, WorkerKnows
<1>5. RunInv' /\ \A q \in Run \ {r} : Stable(q)
  <2>1. Kill(r) \/ RunsRest
    BY DEF WorkerDies, Kill, RunsRest
  <2>2. QED
    BY <1>1, <2>1, KillStep, AloneIsStable, RestIsStable
<1>6. QED
  BY <1>1, <1>2, <1>3, <1>4, <1>5, WorkerMoves

LEMMA CompleteStep ==
  ASSUME RunInv, QueueInv, NEW w \in Worker, Complete(w)
  PROVE  RunInv' /\ QueueInv'
<1> DEFINE d == doing[w]
           a == d.id
           Closed(t) == IF t.id = row[a].attempt THEN [t EXCEPT !.status = d.status] ELSE t
<1>0. /\ RunInv' /\ \A q \in Run : Stable(q)
      /\ UNCHANGED <<at, name, verdict, wrote>>
  BY RestIsStable, RunsRestWhen DEF Complete, runVars, folderVars, processVars
<1>1. /\ d.pc = "report" /\ a \in Assignment /\ d.run \in Run /\ d.status \in Final
      /\ row[a].status = "running" /\ row[a].attempt = d.run
      /\ at[d.run] \in {"none", "gone"} /\ Told(d.run, d.status, d.path)
  BY DEF Complete, QueueInv, WorkerKnows
<1>2. /\ row' = [row EXCEPT ![a].status = d.status, ![a].path = d.path, ![a].code = d.code]
      /\ attempts' = {Closed(t) : t \in attempts}
      /\ doing' = [doing EXCEPT ![w] = Resting]
  BY <1>1 DEF Complete
<1>3. d.path \in Nat \cup {None} /\ d.code \in Int \cup {None}
  BY DEF QueueInv, QueueShape
<1>4. /\ row' \in [Assignment ->
           [status : {"none", "pending", "running"} \cup Final, attempt : Run \cup {None},
            path : Nat \cup {None}, code : Int \cup {None}]]
      /\ row'[a].status = d.status /\ row'[a].attempt = d.run /\ row'[a].path = d.path
      /\ \A b \in Assignment \ {a} : row'[b] = row[b]
  BY SMTT(30), <1>1, <1>2, <1>3 DEF QueueInv, QueueShape
<1>5. /\ doing'[w] = Resting /\ \A v \in Worker \ {w} : doing'[v] = doing[v]
  BY <1>2 DEF QueueInv, QueueShape
<1>6. \A t \in attempts :
        /\ Closed(t) \in [id : Run, of : Assignment, status : {"running"} \cup Final]
        /\ Closed(t).id = t.id /\ Closed(t).of = t.of
        /\ Closed(t).status = IF t.of = a THEN d.status ELSE t.status
  <2>1. \A t \in attempts : t.id = row[a].attempt <=> t.of = a
    BY <1>1, OneAttempt DEF QueueInv, AttemptsAgree
  <2>2. \A t \in attempts : t \in [id : Run, of : Assignment, status : {"running"} \cup Final]
    BY DEF QueueInv, QueueShape
  <2>3. QED
    BY <1>1, <2>1, <2>2
<1>7. QueueShape'
  <2>1. attempts' \subseteq [id : Run, of : Assignment, status : {"running"} \cup Final]
    BY <1>2, <1>6
  <2>2. QED
    BY <1>2, <1>4, <2>1 DEF QueueInv, QueueShape, Resting
<1> HIDE DEF Closed, d, a
<1>8. AttemptsAgree'
  <2>1. \A t, u \in attempts' : t.id = u.id \/ t.of = u.of => t = u
    BY <1>2, <1>6 DEF QueueInv, AttemptsAgree
  <2>2. \A t \in attempts' : row'[t.of].attempt = t.id /\ row'[t.of].status = t.status
    <3>1. ASSUME NEW t \in attempts
          PROVE  row'[t.of].attempt = t.id /\ row'[t.of].status = Closed(t).status
      <4>1. t.of \in Assignment /\ row[t.of].attempt = t.id /\ row[t.of].status = t.status
        BY DEF QueueInv, QueueShape, AttemptsAgree
      <4>2. QED
        BY <1>1, <1>4, <1>6, <4>1
    <3>2. ASSUME NEW t \in attempts'
          PROVE  row'[t.of].attempt = t.id /\ row'[t.of].status = t.status
      <4>1. PICK u \in attempts : t = Closed(u)
        BY <1>2
      <4>2. QED
        BY <1>6, <3>1, <4>1
    <3>3. QED
      BY <3>2
  <2>3. \A b \in Assignment :
          row'[b].status \in {"running"} \cup Final => \E t \in attempts' : t.of = b
    <3>1. ASSUME NEW b \in Assignment, row'[b].status \in {"running"} \cup Final
          PROVE  \E t \in attempts' : t.of = b
      <4>1. row[b].status \in {"running"} \cup Final
        BY <1>1, <1>4, <3>1
      <4>2. PICK t \in attempts : t.of = b
        BY <4>1 DEF QueueInv, AttemptsAgree
      <4>3. Closed(t) \in attempts' /\ Closed(t).of = b
        BY <1>2, <1>6, <4>2
      <4>4. QED
        BY <4>3
    <3>2. QED
      BY <3>1
  <2>4. \A q \in Run : at'[q] # "none" => \E t \in attempts' : t.id = q
    <3>1. ASSUME NEW q \in Run, at'[q] # "none"
          PROVE  \E t \in attempts' : t.id = q
      <4>1. PICK t \in attempts : t.id = q
        BY <1>0, <3>1 DEF QueueInv, AttemptsAgree
      <4>2. Closed(t) \in attempts' /\ Closed(t).id = q
        BY <1>2, <1>6, <4>1
      <4>3. QED
        BY <4>2
    <3>2. QED
      BY <3>1
  <2>5. QED
    BY <2>1, <2>2, <2>3, <2>4 DEF AttemptsAgree
<1>9. OwnAssignments'
  BY <1>5 DEF QueueInv, OwnAssignments, Resting
<1>10. ASSUME NEW v \in Worker PROVE WorkerKnows(v)'
  <2>1. CASE v = w
    BY <1>5, <2>1 DEF WorkerKnows, Resting
  <2>2. CASE v # w
    <3>1. doing[v].pc # "idle" => doing[v].id \in Assignment \ {a} /\ doing[v].run \in Run
      BY <1>1, <2>2, NoneIsNothing DEF QueueInv, WorkerKnows, OwnAssignments, a, d
    <3>2. QED
      BY <1>0, <1>4, <1>5, <2>2, <3>1, WorkersStay
  <2>3. QED
    BY <2>1, <2>2
<1>11. ASSUME NEW b \in Assignment PROVE RowKnows(b)'
  <2>1. CASE b = a
    BY <1>0, <1>1, <1>4, <2>1 DEF RowKnows, Told, Wrote, Failed
  <2>2. CASE b # a
    BY <1>0, <1>4, <2>2 DEF QueueInv, RowKnows, Told, Wrote, Failed
  <2>3. QED
    BY <2>1, <2>2
<1>12. QED
  BY <1>0, <1>7, <1>8, <1>9, <1>10, <1>11 DEF QueueInv

-----------------------------------------------------------------------------
(* The theorems *)

LocalInv == RunInv /\ QueueInv

LEMMA LocalInvInit == LocalInit => LocalInv
<1> SUFFICES ASSUME LocalInit PROVE QueueInv
  BY RunInvInit DEF LocalInit, LocalInv
<1>1. QueueShape
  BY DEF LocalInit, QueueShape, NoRow, Resting
<1>2. AttemptsAgree /\ OwnAssignments
  BY DEF LocalInit, RunInit, AttemptsAgree, OwnAssignments, NoRow, Resting, Final
<1>3. ASSUME NEW w \in Worker PROVE WorkerKnows(w)
  BY DEF LocalInit, WorkerKnows, Resting
<1>4. ASSUME NEW a \in Assignment PROVE RowKnows(a)
  BY DEF LocalInit, RowKnows, NoRow, Final
<1>5. QED
  BY <1>1, <1>2, <1>3, <1>4 DEF QueueInv

LEMMA LocalInvStep == LocalInv /\ [LocalNext]_localVars => LocalInv'
<1> SUFFICES ASSUME RunInv, QueueInv, [LocalNext]_localVars PROVE RunInv' /\ QueueInv'
  BY DEF LocalInv
<1>1. ASSUME NEW r \in Run, RunSteps(r)
      PROVE  RunInv' /\ QueueInv'
  <2>1. Own(r) /\ UNCHANGED <<row, attempts, doing>>
    BY <1>1 DEF RunSteps, Own, queueVars, workerVars
  <2>2. QED
    BY <2>1, OwnStep, OwnIsStable, RunMoves
<1>2. ASSUME NEW r \in Run, CoremeKilled(r)
      PROVE  RunInv' /\ QueueInv'
  <2>1. Kill(r) /\ at[r] # "none"
    <3>1. Killed(r) /\ at[r] \notin {"none", "gone"} /\ exit' = [exit EXCEPT ![r] = KillStatus]
      BY <1>2 DEF CoremeKilled
    <3>2. UNCHANGED <<windows, claimed, wrote, name, verdict, frame>>
      BY <1>2 DEF CoremeKilled
    <3>3. QED
      BY <3>1, <3>2 DEF Kill
  <2>2. UNCHANGED <<row, attempts, doing>>
    BY <1>2 DEF CoremeKilled, queueVars, workerVars
  <2>3. QED
    BY <2>1, <2>2, KillStep, KillIsStable, RunMoves
<1>3. CASE UNCHANGED localVars
  <2>1. RunsRest /\ UNCHANGED <<row, attempts, doing>>
    BY <1>3, RunsRestWhen DEF localVars, queueVars, workerVars
  <2>2. QED
    BY <2>1, RestIsStable, RunMoves
<1>4. QED
  BY <1>1, <1>2, <1>3, EnqueueStep, ClaimStep, SpawnStep, SpawnFailsStep, CoremeEndsStep,
     TimeoutStep, DeathStep, CompleteStep DEF LocalNext, WorkerProceeds

LEMMA LocalInvariant == LocalSpec => []LocalInv
BY LocalInvInit, LocalInvStep, PTL DEF LocalSpec

\* Runs of one Job that start in the same second never write into one folder.
THEOREM FoldersAreOwn == LocalSpec => []OwnFolder
<1>1. LocalInv => OwnFolder
  BY DEF LocalInv, RunInv, FoldersOwned
<1>2. QED
  BY <1>1, LocalInvariant, PTL

\* A complete run.json comes last: what it seals is whole.
THEOREM RecordsSeal == LocalSpec => []RecordSeals
<1>1. LocalInv => RecordSeals
  BY DEF LocalInv, RunInv, Evidence, RecordSeals
<1>2. QED
  BY <1>1, LocalInvariant, PTL

\* An Assignment is claimed once, and its row and attempt agree.
THEOREM ClaimsAreUnique == LocalSpec => []ClaimedOnce
<1>1. LocalInv => ClaimedOnce
  BY DEF LocalInv, QueueInv, AttemptsAgree, OwnAssignments, ClaimedOnce
<1>2. QED
  BY <1>1, LocalInvariant, PTL

\* A row says of its Run what the Run's own folder says.
THEOREM RowsAreEvidence == LocalSpec => []RowIsEvidence
<1>1. ASSUME LocalInv PROVE RowIsEvidence
  <2>1. ASSUME NEW a \in Assignment
        PROVE  RowKnows(a)
    BY <1>1 DEF LocalInv, QueueInv
  <2>2. QED
    BY <2>1 DEF RowKnows, Told, RowIsEvidence, Final
<1>2. QED
  BY <1>1, LocalInvariant, PTL

\* What an outcome leaves running is what nobody could stop, or what was in a
\* session of its own when "coreme run" was killed.
THEOREM StrayJobsAreKnown == LocalSpec => []NoStrayJob
<1>1. ASSUME LocalInv PROVE NoStrayJob
  <2>1. ASSUME NEW a \in Assignment, row[a].status \in Final
        PROVE  row[a].attempt \in Run /\ at[row[a].attempt] \in {"none", "gone"}
    <3>1. row[a].attempt \in Run
      BY <1>1, <2>1 DEF LocalInv, QueueInv, AttemptsAgree, QueueShape
    <3>2. QED
      BY <1>1, <2>1, <3>1 DEF LocalInv, QueueInv, RowKnows
  <2>2. QED
    BY <1>1, <2>1 DEF LocalInv, RunInv, JobKnown, NoStrayJob
<1>2. QED
  BY <1>1, LocalInvariant, PTL
=============================================================================
