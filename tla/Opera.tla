------------------------------- MODULE Opera -------------------------------
(***************************************************************************)
(* The Job daily-summary: prepare, download, parse, report, or a selection *)
(* of these.  The download drives a browser, in several tabs that take the *)
(* requested reports in turn, each through Opera's pages into the input    *)
(* folder; when a tab breaks, everything starts over in a single tab.      *)
(* What is clicked on the way is one step that Opera answers or not.  The  *)
(* wait for an answer has a timeout, and an answer may come after it; the  *)
(* wait for a download that has begun, save_as, has none.                  *)
(***************************************************************************)
EXTENDS Integers, Sequences, FiniteSets

CONSTANTS
  Report,     \* the catalogue: keys of reports, a file each
  Requests,   \* choices of the input "reports", sequences of keys
  Tab         \* 1..workers

None == 0

ASSUME OperaAssumption ==
  /\ None \notin Report
  /\ Requests \subseteq Seq(Report) \ {<<>>}
  /\ \E n \in 1..4 : Tab = 1..n

\* No choice names a report twice, as reports=manager,manager does: resolve_reports
\* sorts the keys it is given and drops none.
AskedOnce == \A q \in Requests : \A i, j \in DOMAIN q : q[i] = q[j] => i = j

VARIABLES
  plan,       \* the inputs: phases selected, mode, reports, a seed or not
  stage,      \* the phase, and what the download is at
  state,      \* the state the phases hand on, and whether there is one
  page,       \* what each tab does, and the reports it has still to do
  owed,       \* reports Opera may still send a tab
  disk, tmp,  \* <key>.xml in the input folder, and its .tmp_ file
  summary     \* summary.json

operaVars == <<plan, stage, state, page, owed, disk, tmp, summary>>
browser == <<page, owed, disk, tmp>>

Phase == {"prepare", "download", "parse", "report"}
Over == {"done", "failed", "killed"}
NoFile == [of |-> None, new |-> FALSE]
Torn == [of |-> None, new |-> TRUE]   \* part of a copy
Whole(f) == f.of # None
File == [of : Report, new : BOOLEAN]
NoResults == [r \in Report |-> "none"]
NoState == [there |-> FALSE, live |-> FALSE, missing |-> {}, results |-> NoResults, parsed |-> FALSE]
NoSummary == [status |-> "none", results |-> NoResults]
Closed == [pc |-> "closed", todo |-> <<>>, file |-> NoFile, results |-> NoResults]
Results == [Report -> {"none", "ok", "failed"}]
Page == [pc : {"closed", "open", "search", "wait", "save", "move", "ended", "raised"},
         todo : Seq(Report), file : File \cup {NoFile}, results : Results]
State == [there : BOOLEAN, live : BOOLEAN, missing : SUBSET Report, results : Results, parsed : BOOLEAN]

OperaTypeOK ==
  /\ plan \in [phases : (SUBSET Phase) \ {{}}, live : BOOLEAN, reports : Requests, seed : BOOLEAN]
  /\ stage \in (Phase \ {"download"}) \cup {"download", "tabs", "alone"} \cup Over
  /\ state \in State
  /\ page \in [Tab -> Page]
  /\ \A t \in Tab : page[t].pc \in {"open", "search", "wait", "save", "move"} => page[t].todo # <<>>
  /\ owed \in [Tab -> SUBSET Report]
  /\ disk \in [Report -> File \cup {NoFile, Torn}] /\ tmp \in [Report -> File \cup {NoFile, Torn}]
  /\ summary \in [status : {"none", "ok", "partial"}, results : Results]

\* selected_phases: the rest of the phases, in their order.
Order == [prepare |-> 1, download |-> 2, parse |-> 3, report |-> 4]
After(ph) ==
  LET rest == {q \in plan.phases : Order[q] > Order[ph]} IN
    IF rest = {} THEN "done" ELSE CHOOSE q \in rest : \A r \in rest : Order[q] <= Order[r]

\* The input folder is fresh, or holds files of an earlier day.
OperaInit ==
  /\ plan \in [phases : (SUBSET Phase) \ {{}}, live : BOOLEAN, reports : Requests, seed : BOOLEAN]
  /\ stage = IF "prepare" \in plan.phases THEN "prepare" ELSE After("prepare")
  /\ state = NoState
  /\ page = [t \in Tab |-> Closed] /\ owed = [t \in Tab |-> {}]
  /\ \E kept \in SUBSET Report :
       disk = [r \in Report |-> IF r \in kept THEN [of |-> r, new |-> FALSE] ELSE NoFile]
  /\ tmp = [r \in Report |-> NoFile]
  /\ summary = NoSummary

Missing == {r \in Report : disk[r] = NoFile}

Prepare ==
  /\ stage = "prepare"
  /\ state' = [NoState EXCEPT !.there = TRUE, !.live = plan.live, !.missing = Missing]
  /\ stage' = After("prepare")
  /\ UNCHANGED <<plan, browser, summary>>

\* A later phase has the state of the one before, or else the seed's: the
\* prepare.json of another day, which has the mode of that day.
Handed(s) ==
  IF state.there THEN s = state
  ELSE plan.seed /\ \E live \in BOOLEAN : s = [NoState EXCEPT !.there = TRUE, !.live = live, !.missing = Report]

Unseeded ==
  /\ stage \in {"download", "parse", "report"}
  /\ ~state.there /\ ~plan.seed
  /\ stage' = "failed"
  /\ UNCHANGED <<plan, state, browser, summary>>

SkipDownload ==
  /\ stage = "download"
  /\ \E s \in State : Handed(s) /\ ~s.live /\ state' = s
  /\ stage' = After("download")
  /\ UNCHANGED <<plan, browser, summary>>

Min2(a, b) == IF a <= b THEN a ELSE b
Tabs == Min2(Cardinality(Tab), Len(plan.reports))

\* _chunk_specs: the reports in turn, one for each tab.
Chunk(t) ==
  IF t > Tabs THEN <<>>
  ELSE [j \in 1..((Len(plan.reports) - t) \div Tabs + 1) |-> plan.reports[t + (j - 1) * Tabs]]

Opened(todo) == [Closed EXCEPT !.pc = "open", !.todo = todo]
OnlyTab == [t \in Tab |-> IF t = 1 THEN Opened(plan.reports) ELSE Closed]

\* One login, then the other tabs, or one tab for one report or one worker.
OpenBrowser ==
  /\ stage = "download"
  /\ \E s \in State : Handed(s) /\ s.live /\ state' = s
  /\ IF Tabs = 1
     THEN stage' = "alone" /\ page' = OnlyTab
     ELSE stage' = "tabs" /\ page' = [t \in Tab |-> IF t <= Tabs THEN Opened(Chunk(t)) ELSE Closed]
  /\ UNCHANGED <<plan, owed, disk, tmp, summary>>

\* No secrets, no browser, or no login: of the single tab, that ends the Job.
LoginFails ==
  /\ stage \in {"download", "alone"}
  /\ stage = "download" => \E s \in State : Handed(s) /\ s.live
  /\ stage = "alone" => page[1].pc = "open"
  /\ stage' = "failed"
  /\ page' = [t \in Tab |-> Closed]
  /\ UNCHANGED <<plan, state, owed, disk, tmp, summary>>

\* Manage Reports opens; in a tab of several, not to get there is the end of all.
OpenTab(t) ==
  /\ page[t].pc = "open"
  /\ \/ page' = [page EXCEPT ![t].pc = "search"]
     \/ stage = "tabs" /\ page' = [page EXCEPT ![t].pc = "raised"]
  /\ UNCHANGED <<plan, stage, state, owed, disk, tmp, summary>>

\* Back on the list, or maybe not, for the next report.
NextReport(t, result) ==
  LET rest == Tail(page[t].todo) IN
    [page EXCEPT ![t] =
       [pc |-> IF rest = <<>> THEN "ended" ELSE "search", todo |-> rest, file |-> NoFile,
        results |-> [page[t].results EXCEPT ![Head(page[t].todo)] = result]]]

\* The report is found, opened, given its options as far as they can be
\* clicked, and asked for as XML.
Search(t) ==
  /\ page[t].pc = "search"
  /\ owed' = [owed EXCEPT ![t] = @ \cup {Head(page[t].todo)}]
  /\ page' = [page EXCEPT ![t].pc = "wait"]
  /\ UNCHANGED <<plan, stage, state, disk, tmp, summary>>

\* What comes is a report that was asked for, this one or one given up before.
Arrives(t) ==
  /\ page[t].pc = "wait"
  /\ \E r \in owed[t] :
       /\ page' = [page EXCEPT ![t].pc = "save", ![t].file = [of |-> r, new |-> TRUE]]
       /\ owed' = [owed EXCEPT ![t] = @ \ {r}]
  /\ UNCHANGED <<plan, stage, state, disk, tmp, summary>>

\* The copy to .tmp_ is awaited, for as long as the download takes: other tabs
\* go on meanwhile.
SaveTmp(t) ==
  /\ page[t].pc = "save"
  /\ tmp' = [tmp EXCEPT ![Head(page[t].todo)] = page[t].file]
  /\ page' = [page EXCEPT ![t].pc = "move"]
  /\ UNCHANGED <<plan, stage, state, owed, disk, summary>>

\* Mutant of SaveFails: the download is saved to the file's own place.
SaveFailsInPlace(t) ==
  /\ page[t].pc = "save"
  /\ disk' = [disk EXCEPT ![Head(page[t].todo)] = Torn]
  /\ page' = NextReport(t, "failed")
  /\ UNCHANGED <<plan, stage, state, owed, tmp, summary>>

\* The download breaks off, or the copy does.
SaveFails(t) ==
  /\ page[t].pc = "save"
  /\ UNCHANGED tmp \/ tmp' = [tmp EXCEPT ![Head(page[t].todo)] = Torn]
  /\ page' = NextReport(t, "failed")
  /\ UNCHANGED <<plan, stage, state, owed, disk, summary>>

\* The old file goes, and the new one takes its place, without an await.
MoveTmp(t) ==
  /\ page[t].pc = "move"
  /\ LET r == Head(page[t].todo) IN
       /\ disk' = [disk EXCEPT ![r] = tmp[r]]
       /\ tmp' = [tmp EXCEPT ![r] = NoFile]
       /\ page' = NextReport(t, IF tmp[r] = NoFile THEN "failed" ELSE "ok")
  /\ UNCHANGED <<plan, stage, state, owed, summary>>

\* The old file cannot be removed: somebody has it open.
UnlinkFails(t) ==
  /\ page[t].pc = "move" /\ disk[Head(page[t].todo)] # NoFile
  /\ page' = NextReport(t, "failed")
  /\ UNCHANGED <<plan, stage, state, owed, disk, tmp, summary>>

\* What a move that breaks off leaves in the place of the old file.  Where a
\* rename fails shutil.move copies, and removes its source last.
HalfMoved(r) == \E f \in {NoFile, Torn, tmp[r]} : disk' = [disk EXCEPT ![r] = f]

\* The old file is gone, and the move fails.
MoveFails(t) ==
  /\ page[t].pc = "move"
  /\ LET r == Head(page[t].todo) IN tmp[r] # NoFile /\ HalfMoved(r)
  /\ page' = NextReport(t, "failed")
  /\ UNCHANGED <<plan, stage, state, owed, tmp, summary>>

\* Mutant of GivesUp: the download is awaited without a timeout.
GivesUpNotWaiting(t) ==
  /\ page[t].pc = "search"
  /\ page' = NextReport(t, "failed")
  /\ UNCHANGED <<plan, stage, state, owed, disk, tmp, summary>>

\* A click or the wait for a download to begin times out; Opera is not told.
GivesUp(t) ==
  /\ page[t].pc \in {"search", "wait"}
  /\ page' = NextReport(t, "failed")
  /\ UNCHANGED <<plan, stage, state, owed, disk, tmp, summary>>

\* Copies that are being made are left as they are.
CopiesBreakOff ==
  \E torn \in SUBSET {t \in Tab : page[t].pc = "save"} :
    tmp' = [r \in Report |-> IF \E t \in torn : Head(page[t].todo) = r THEN Torn ELSE tmp[r]]

\* Mutant of FallBack: the other tabs are not closed.
FallBackBeside ==
  /\ stage = "tabs"
  /\ \E t \in Tab : page[t].pc = "raised"
  /\ stage' = "alone"
  /\ page' = [page EXCEPT ![1] = Opened(plan.reports)]
  /\ owed' = [t \in Tab |-> {}]
  /\ UNCHANGED <<plan, state, disk, tmp, summary>>

\* The browser closes, the tabs' tasks are cancelled and their results are lost;
\* a single tab does all of it again.
FallBack ==
  /\ stage = "tabs"
  /\ \E t \in Tab : page[t].pc = "raised"
  /\ stage' = "alone"
  /\ page' = OnlyTab
  /\ owed' = [t \in Tab |-> {}]
  /\ CopiesBreakOff
  /\ UNCHANGED <<plan, state, disk, summary>>

\* A later tab's result for a report replaces an earlier tab's.
Joined ==
  [r \in Report |->
     LET have == {t \in Tab : page[t].results[r] # "none"} IN
       IF have = {} THEN "none"
       ELSE page[CHOOSE t \in have : \A u \in have : u <= t].results[r]]

\* Mutant of Download: the first tab to end is enough.
DownloadEarly ==
  /\ stage \in {"tabs", "alone"}
  /\ \E t \in Tab : page[t].pc = "ended"
  /\ state' = [state EXCEPT !.results = Joined, !.missing = Missing]
  /\ stage' = IF \E r \in Report : Joined[r] = "ok" THEN After("download") ELSE "failed"
  /\ page' = [t \in Tab |-> Closed]
  /\ owed' = [t \in Tab |-> {}]
  /\ UNCHANGED <<plan, disk, tmp, summary>>

\* All tabs have ended: the phase fails only when every download did.
Download ==
  /\ stage \in {"tabs", "alone"}
  /\ \A t \in Tab : page[t].pc \in {"ended", "closed"}
  /\ state' = [state EXCEPT !.results = Joined, !.missing = Missing]
  /\ stage' = IF \E r \in Report : Joined[r] = "ok" THEN After("download") ELSE "failed"
  /\ page' = [t \in Tab |-> Closed]
  /\ owed' = [t \in Tab |-> {}]
  /\ UNCHANGED <<plan, disk, tmp, summary>>

\* Whatever lies in the folder is parsed; nothing there, or a file that is not
\* the XML it should be, fails the Job.
Parse ==
  /\ stage = "parse"
  /\ \E s \in State :
       /\ Handed(s)
       /\ \/ Missing # Report /\ stage' = After("parse")
             /\ state' = [s EXCEPT !.missing = Missing, !.parsed = TRUE]
          \/ stage' = "failed" /\ state' = s
  /\ UNCHANGED <<plan, browser, summary>>

Summarise ==
  /\ stage = "report"
  /\ \E s \in State :
       /\ Handed(s)
       /\ state' = s
       /\ IF s.parsed
          THEN /\ stage' = "done"
               /\ summary' = [status |-> IF s.missing = {} THEN "ok" ELSE "partial", results |-> s.results]
          ELSE stage' = "failed" /\ UNCHANGED summary
  /\ UNCHANGED <<plan, browser>>

\* The Job is killed, maybe in the middle of a copy or of a move.
Kill ==
  /\ stage \notin Over
  /\ stage' = "killed"
  /\ \/ UNCHANGED disk
     \/ \E t \in Tab : page[t].pc = "move" /\ HalfMoved(Head(page[t].todo))
  /\ CopiesBreakOff
  /\ page' = [t \in Tab |-> Closed]
  /\ UNCHANGED <<plan, state, owed, summary>>

TabStep(t) ==
  \/ OpenTab(t) \/ Search(t) \/ GivesUp(t)
  \/ MoveTmp(t) \/ UnlinkFails(t) \/ MoveFails(t)

\* What is up to Opera and the network.
DownloadStep(t) == Arrives(t) \/ SaveTmp(t) \/ SaveFails(t)

Advance ==
  \/ Prepare \/ Unseeded \/ SkipDownload \/ OpenBrowser \/ Download \/ FallBack \/ Parse \/ Summarise

OperaNext ==
  \/ Advance \/ LoginFails \/ Kill
  \/ \E t \in Tab : TabStep(t) \/ DownloadStep(t)

\* The program goes on by itself, and gives up an answer that does not come.
\* Opera need not answer, and a download that has begun need not end.
OperaSpec ==
  /\ OperaInit /\ [][OperaNext]_operaVars
  /\ WF_operaVars(Advance) /\ \A t \in Tab : WF_operaVars(TabStep(t))

-----------------------------------------------------------------------------
(* Properties *)

\* The results the download hands on speak for every report asked for, and an
\* "ok" for a whole file of this Run that is in its place, even when a tab broke
\* in the middle and another took over all reports, and after a kill.
ResultsTrue ==
  \A i \in DOMAIN plan.reports : LET r == plan.reports[i] IN
    state.results # NoResults =>
      /\ state.results[r] # "none"
      /\ state.results[r] = "ok" => disk[r].new /\ Whole(disk[r])

\* At any time one tab at most is about a report's files.
OneWriter ==
  \A t, u \in Tab : t # u =>
    \A k \in DOMAIN page[t].todo : \A l \in DOMAIN page[u].todo :
      page[t].todo[k] # page[u].todo[l]

\* A report's file is touched only when a whole file of this Run is there to
\* succeed it, and that is in its place afterwards or still beside it, although
\* removals and moves fail and the Job is killed between the two.  (A file may
\* be lost later, when the report is saved once more over the one beside it.)
SuccessorSurvives ==
  [][\A r \in Report : disk'[r] # disk[r] =>
       /\ tmp[r].new /\ Whole(tmp[r])
       /\ disk'[r] = tmp[r] \/ tmp'[r] = tmp[r]]_operaVars

\* "ok" in the summary says that every report of the catalogue was there to be
\* parsed, whatever was asked for.
SummaryComplete == summary.status = "ok" => \A r \in Report : disk[r] # NoFile

\* The Job ends, although Opera may answer nothing and tabs may break, if no
\* download that has begun takes for ever: save_as waits for its end without a
\* timeout, and only the kernel's timeout ends a Job that waits there.
JobEnds == (\A t \in Tab : []<>(page[t].pc # "save")) => <>(stage \in Over)

\* "ok" in the summary means today's files.  Files of an earlier day in the
\* input folder count as well, though their download failed.
SummaryFresh ==
  summary.status = "ok" /\ state.live => \A r \in Report : disk[r].new /\ Whole(disk[r])

\* What is saved under a report's name is that report.  A download that comes
\* after its wait is over is taken for the next report's.
RightReport ==
  \A r \in Report : state.results[r] = "ok" => disk[r].of = r
=============================================================================
