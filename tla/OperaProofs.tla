----------------------------- MODULE OperaProofs -----------------------------
(***************************************************************************)
(* What the download of daily-summary keeps, for any catalogue, any number *)
(* of tabs that parse_workers allows and any choices of reports.           *)
(*                                                                         *)
(* The types, and what a summary says of the files, hold for every choice. *)
(* The results are true, and a file gives way only to a whole successor,   *)
(* when no report is asked for twice (AskedOnce): then the tabs' lists of  *)
(* reports still to do are disjoint (Dealt), so that what lies in the      *)
(* folder for a report that has an "ok" is not touched again (OkIsNew),    *)
(* and what a tab has saved is whole until it is moved (TmpReady).         *)
(***************************************************************************)
EXTENDS Opera, FiniteSetTheorems, TLAPS

Downloading == {"tabs", "alone"}
Working == {"search", "wait", "save", "move"}

\* A tab is through with a report, with or without its file.
Through(t) == SaveFails(t) \/ MoveTmp(t) \/ UnlinkFails(t) \/ MoveFails(t) \/ GivesUp(t)

\* The reports a tab has still to do.
Left(t) == {page[t].todo[k] : k \in DOMAIN page[t].todo}

-----------------------------------------------------------------------------
(* Operators of the model. *)

LEMMA TailFacts ==
  ASSUME NEW S, NEW s \in Seq(S), s # <<>>
  PROVE  /\ Head(s) = s[1] /\ Head(s) \in S /\ 1 \in DOMAIN s
         /\ Tail(s) \in Seq(S)
         /\ Len(s) \in Nat /\ DOMAIN s = 1..Len(s) /\ DOMAIN Tail(s) = 1..(Len(s) - 1)
         /\ \A k \in DOMAIN Tail(s) : k + 1 \in DOMAIN s /\ Tail(s)[k] = s[k + 1]
  OBVIOUS

LEMMA SeqFacts ==
  ASSUME NEW S, NEW s \in Seq(S)
  PROVE  /\ Len(s) \in Nat /\ DOMAIN s = 1..Len(s)
         /\ \A k \in DOMAIN s : s[k] \in S
         /\ s # <<>> => Len(s) >= 1
         /\ s = <<>> => DOMAIN s = {}
  OBVIOUS

\* The four phases come in their order.
LEMMA Ordered ==
  /\ Order["prepare"] = 1 /\ Order["download"] = 2
  /\ Order["parse"] = 3 /\ Order["report"] = 4
  BY DEF Order

LEMMA AfterFacts ==
  ASSUME plan.phases \subseteq Phase, NEW ph \in Phase
  PROVE  \/ After(ph) = "done"
         \/ After(ph) \in Phase /\ Order[After(ph)] > Order[ph]
<1> DEFINE rest == {q \in plan.phases : Order[q] > Order[ph]}
<1>1. CASE rest = {}
  BY <1>1 DEF After
<1>2. CASE rest # {}
  <2>1. rest \subseteq {"prepare", "download", "parse", "report"}
    BY DEF Phase
  <2>2. \E q \in rest : \A r \in rest : Order[q] <= Order[r]
    <3>1. CASE "prepare" \in rest
      BY <3>1, <2>1, Ordered
    <3>2. CASE "prepare" \notin rest /\ "download" \in rest
      BY <3>2, <2>1, Ordered
    <3>3. CASE "prepare" \notin rest /\ "download" \notin rest /\ "parse" \in rest
      BY <3>3, <2>1, Ordered
    <3>4. CASE "prepare" \notin rest /\ "download" \notin rest /\ "parse" \notin rest
      BY <3>4, <2>1, <1>2, Ordered
    <3>5. QED
      BY <3>1, <3>2, <3>3, <3>4
  <2>3. After(ph) = CHOOSE q \in rest : \A r \in rest : Order[q] <= Order[r]
    BY <1>2 DEF After
  <2>4. After(ph) \in rest
    BY <2>2, <2>3
  <2>5. QED
    BY <2>4
<1>3. QED
  BY <1>1, <1>2

LEMMA Later ==
  ASSUME plan.phases \subseteq Phase
  PROVE  /\ After("prepare") \in {"download", "parse", "report", "done"}
         /\ After("download") \in {"parse", "report", "done"}
         /\ After("parse") \in {"report", "done"}
<1>1. /\ "prepare" \in Phase /\ "download" \in Phase /\ "parse" \in Phase
      /\ Phase = {"prepare", "download", "parse", "report"}
  BY DEF Phase
<1>2. After("prepare") \in {"download", "parse", "report", "done"}
  <2>1. After("prepare") = "done" \/ (After("prepare") \in Phase /\ Order[After("prepare")] > Order["prepare"])
    BY <1>1, AfterFacts
  <2>2. QED
    BY <1>1, <2>1, Ordered
<1>3. After("download") \in {"parse", "report", "done"}
  <2>1. After("download") = "done" \/ (After("download") \in Phase /\ Order[After("download")] > Order["download"])
    BY <1>1, AfterFacts
  <2>2. QED
    BY <1>1, <2>1, Ordered
<1>4. After("parse") \in {"report", "done"}
  <2>1. After("parse") = "done" \/ (After("parse") \in Phase /\ Order[After("parse")] > Order["parse"])
    BY <1>1, AfterFacts
  <2>2. QED
    BY <1>1, <2>1, Ordered
<1>5. QED
  BY <1>2, <1>3, <1>4

\* _chunk_specs deals the positions 1..n out to T tabs: every position is of
\* one tab, at one place of its list.
LEMMA Deal ==
  ASSUME NEW T \in 1..4, NEW n \in Nat, T <= n
  PROVE  /\ \A t \in 1..T : (n - t) \div T + 1 \in Nat \ {0}
         /\ \A t \in 1..T : \A j \in 1..((n - t) \div T + 1) : t + (j - 1) * T \in 1..n
         /\ \A t, u \in 1..T : \A j, k \in Nat \ {0} :
              t + (j - 1) * T = u + (k - 1) * T => t = u /\ j = k
         /\ \A i \in 1..n : \E t \in 1..T : \E j \in 1..((n - t) \div T + 1) : i = t + (j - 1) * T
<1>1. T = 1 \/ T = 2 \/ T = 3 \/ T = 4
  OBVIOUS
<1>2. \A t \in 1..T : (n - t) \div T + 1 \in Nat \ {0}
  BY <1>1
<1>3. \A t \in 1..T : \A j \in 1..((n - t) \div T + 1) : t + (j - 1) * T \in 1..n
  BY <1>1
<1>4. \A t, u \in 1..T : \A j, k \in Nat \ {0} :
        t + (j - 1) * T = u + (k - 1) * T => t = u /\ j = k
  BY <1>1
<1>5. ASSUME NEW i \in 1..n
      PROVE  \E t \in 1..T : \E j \in 1..((n - t) \div T + 1) : i = t + (j - 1) * T
  <2> DEFINE t == ((i - 1) % T) + 1
             j == ((i - 1) \div T) + 1
  <2>1. t \in 1..T /\ j \in 1..((n - t) \div T + 1) /\ i = t + (j - 1) * T
    BY <1>1
  <2>2. QED
    BY <2>1
<1>6. QED
  BY <1>2, <1>3, <1>4, <1>5


LEMMA TabFacts ==
  ASSUME plan.reports \in Requests
  PROVE  /\ plan.reports \in Seq(Report) /\ plan.reports # <<>>
         /\ Len(plan.reports) \in Nat \ {0} /\ DOMAIN plan.reports = 1..Len(plan.reports)
         /\ Tabs \in 1..4 /\ Tabs <= Len(plan.reports)
         /\ 1..Tabs \subseteq Tab /\ Tab \subseteq 1..4 /\ 1 \in Tab
<1>1. plan.reports \in Seq(Report) /\ plan.reports # <<>>
  BY OperaAssumption DEF OperaAssumption
<1>2. Len(plan.reports) \in Nat \ {0} /\ DOMAIN plan.reports = 1..Len(plan.reports)
  BY <1>1, SeqFacts
<1>3. PICK n \in 1..4 : Tab = 1..n
  BY OperaAssumption DEF OperaAssumption
<1>4. Cardinality(Tab) = n
  <2>1. 1 \in Int /\ n \in Int /\ ~(1 > n) /\ n - 1 + 1 = n
    OBVIOUS
  <2>2. Cardinality(1..n) = IF 1 > n THEN 0 ELSE n - 1 + 1
    BY <2>1, FS_Interval, Zenon
  <2>3. QED
    BY <1>3, <2>1, <2>2
<1>5. Tabs \in 1..n /\ Tabs <= Len(plan.reports)
  BY <1>2, <1>4 DEF Tabs, Min2
<1>6. QED
  BY <1>1, <1>2, <1>3, <1>5

\* The list of a tab holds the reports at the positions dealt to it.
LEMMA ChunkFacts ==
  ASSUME plan.reports \in Requests, NEW t \in 1..Tabs
  PROVE  /\ Chunk(t) \in Seq(Report) /\ Chunk(t) # <<>>
         /\ DOMAIN Chunk(t) = 1..((Len(plan.reports) - t) \div Tabs + 1)
         /\ \A j \in DOMAIN Chunk(t) :
              /\ t + (j - 1) * Tabs \in DOMAIN plan.reports
              /\ Chunk(t)[j] = plan.reports[t + (j - 1) * Tabs]
<1> DEFINE m == (Len(plan.reports) - t) \div Tabs + 1
<1>1. /\ plan.reports \in Seq(Report) /\ Len(plan.reports) \in Nat
      /\ DOMAIN plan.reports = 1..Len(plan.reports)
      /\ Tabs \in 1..4 /\ Tabs <= Len(plan.reports)
  BY TabFacts
<1>2. Chunk(t) = [j \in 1..m |-> plan.reports[t + (j - 1) * Tabs]]
  BY <1>1 DEF Chunk
<1>3. m \in Nat \ {0} /\ \A j \in 1..m : t + (j - 1) * Tabs \in 1..Len(plan.reports)
  BY <1>1, Deal
<1>4. \A j \in 1..m : plan.reports[t + (j - 1) * Tabs] \in Report
  <2>1. \A k \in 1..Len(plan.reports) : plan.reports[k] \in Report
    BY <1>1, SeqFacts
  <2>2. QED
    BY <1>3, <2>1
<1> HIDE DEF m
<1>5. Chunk(t) \in Seq(Report)
  BY <1>2, <1>3, <1>4
<1>6. DOMAIN Chunk(t) = 1..m /\ 1 \in 1..m
  BY <1>2, <1>3
<1>7. Chunk(t) # <<>>
  BY <1>5, <1>6, SeqFacts
<1>8. QED
  BY <1>1, <1>2, <1>3, <1>5, <1>6, <1>7 DEF m

LEMMA ClosedFacts ==
  /\ Closed \in Page /\ Closed.pc = "closed" /\ Closed.todo = <<>>
  /\ Closed.file = NoFile /\ Closed.results = NoResults
  /\ NoResults \in Results /\ \A r \in Report : NoResults[r] = "none"
  BY DEF Closed, Page, NoResults, Results

LEMMA OpenedFacts ==
  ASSUME NEW todo \in Seq(Report)
  PROVE  /\ Opened(todo) \in Page /\ Opened(todo).pc = "open" /\ Opened(todo).todo = todo
         /\ Opened(todo).file = NoFile /\ Opened(todo).results = NoResults
  BY DEF Opened, Closed, Page, NoResults, Results

-----------------------------------------------------------------------------
(* Types. *)

LEMMA OperaTypeInit == OperaInit => OperaTypeOK
<1> SUFFICES ASSUME OperaInit
             PROVE  OperaTypeOK
  OBVIOUS
<1>1. plan.phases \subseteq Phase
  BY DEF OperaInit
<1>2. stage \in (Phase \ {"download"}) \cup {"download", "tabs", "alone"} \cup Over
  BY <1>1, Later DEF OperaInit, Phase, Over
<1>3. state \in State
  BY ClosedFacts DEF OperaInit, NoState, State
<1>4. page \in [Tab -> Page] /\ \A t \in Tab : page[t] = Closed
  BY ClosedFacts DEF OperaInit
<1>5. /\ disk \in [Report -> File \cup {NoFile, Torn}] /\ tmp \in [Report -> File \cup {NoFile, Torn}]
  BY DEF OperaInit, File
<1>6. summary \in [status : {"none", "ok", "partial"}, results : Results]
  BY ClosedFacts DEF OperaInit, NoSummary
<1>7. QED
  BY <1>2, <1>3, <1>4, <1>5, <1>6, ClosedFacts DEF OperaInit, OperaTypeOK

\* What a phase is handed is a state, with results only if an earlier phase
\* of this Job left them.
LEMMA HandedFacts ==
  ASSUME OperaTypeOK, NEW s \in State, Handed(s)
  PROVE  /\ s.results = state.results \/ s.results = NoResults
         /\ s.parsed => s = state
         /\ s.there
  BY DEF Handed, OperaTypeOK, NoState, State

LEMMA MissingType == Missing \subseteq Report
  BY DEF Missing

\* The phases that leave the browser alone.
LEMMA TypePhases ==
  ASSUME OperaTypeOK, Prepare \/ Unseeded \/ SkipDownload \/ Parse \/ Summarise
  PROVE  OperaTypeOK'
<1>1. plan.phases \subseteq Phase
  BY DEF OperaTypeOK
<1>2. UNCHANGED <<plan, browser>>
  BY DEF Prepare, Unseeded, SkipDownload, Parse, Summarise
<1>3. stage' \in (Phase \ {"download"}) \cup {"download", "tabs", "alone"} \cup Over
  BY <1>1, Later DEF Prepare, Unseeded, SkipDownload, Parse, Summarise, Phase, Over
<1>4. state' \in State
  <2>1. CASE Prepare
    BY <2>1, MissingType, ClosedFacts DEF Prepare, NoState, State, OperaTypeOK
  <2>2. CASE Unseeded \/ SkipDownload
    BY <2>2 DEF Unseeded, SkipDownload, OperaTypeOK
  <2>3. CASE Parse
    BY <2>3, MissingType DEF Parse, State
  <2>4. CASE Summarise
    BY <2>4 DEF Summarise
  <2>5. QED
    BY <2>1, <2>2, <2>3, <2>4
<1>5. summary' \in [status : {"none", "ok", "partial"}, results : Results]
  <2>1. CASE Summarise
    BY <2>1 DEF Summarise, State, OperaTypeOK
  <2>2. QED
    BY <2>1 DEF Prepare, Unseeded, SkipDownload, Parse, OperaTypeOK
<1>6. QED
  BY <1>2, <1>3, <1>4, <1>5 DEF OperaTypeOK, browser


\* A tab that is through with a report goes on to the rest of its list.
LEMMA NextFacts ==
  ASSUME OperaTypeOK, NEW t \in Tab, page[t].pc \in Working,
         NEW res \in {"ok", "failed"}, page' = NextReport(t, res)
  PROVE  /\ page[t].todo \in Seq(Report) /\ page[t].todo # <<>> /\ Head(page[t].todo) \in Report
         /\ page' \in [Tab -> Page]
         /\ \A u \in Tab \ {t} : page'[u] = page[u]
         /\ page'[t].todo = Tail(page[t].todo) /\ page'[t].file = NoFile
         /\ page'[t].pc = (IF Tail(page[t].todo) = <<>> THEN "ended" ELSE "search")
         /\ \A r \in Report : page'[t].results[r] =
              IF r = Head(page[t].todo) THEN res ELSE page[t].results[r]
<1> DEFINE h == Head(page[t].todo)
           rest == Tail(page[t].todo)
           p == [pc |-> IF rest = <<>> THEN "ended" ELSE "search", todo |-> rest, file |-> NoFile,
                 results |-> [page[t].results EXCEPT ![h] = res]]
<1>1. page[t] \in Page /\ page[t].todo \in Seq(Report) /\ page[t].todo # <<>>
  BY DEF OperaTypeOK, Page, Working
<1>2. h \in Report /\ rest \in Seq(Report)
  BY <1>1, TailFacts
<1>3. page[t].results \in [Report -> {"none", "ok", "failed"}]
  BY <1>1 DEF Page, Results
<1>4. page' = [page EXCEPT ![t] = p] /\ page \in [Tab -> Page]
  BY DEF NextReport, OperaTypeOK
<1> HIDE DEF h, rest
<1>5. [page[t].results EXCEPT ![h] = res] \in Results
  BY <1>2, <1>3 DEF Results
<1>6. p \in Page
  BY <1>2, <1>5 DEF Page
<1>7. page'[t] = p /\ page' \in [Tab -> Page] /\ \A u \in Tab \ {t} : page'[u] = page[u]
  BY <1>4, <1>6
<1>8. \A r \in Report : [page[t].results EXCEPT ![h] = res][r] = IF r = h THEN res ELSE page[t].results[r]
  BY <1>2, <1>3
<1>9. QED
  BY <1>1, <1>2, <1>7, <1>8 DEF h, rest

\* What is joined for a report is the result of a tab, if a tab has one.
LEMMA JoinedFacts ==
  ASSUME OperaTypeOK
  PROVE  /\ Joined \in Results
         /\ \A r \in Report, t \in Tab : page[t].results[r] # "none" => Joined[r] # "none"
         /\ \A r \in Report : Joined[r] # "none" => \E t \in Tab : Joined[r] = page[t].results[r]
<1> SUFFICES ASSUME NEW r \in Report
             PROVE  /\ Joined[r] \in {"none", "ok", "failed"}
                    /\ \A t \in Tab : page[t].results[r] # "none" => Joined[r] # "none"
                    /\ Joined[r] # "none" => \E t \in Tab : Joined[r] = page[t].results[r]
  BY DEF Joined, Results
<1> DEFINE have == {t \in Tab : page[t].results[r] # "none"}
<1>1. \A t \in Tab : page[t].results[r] \in {"none", "ok", "failed"}
  BY DEF OperaTypeOK, Page, Results
<1>2. CASE have = {}
  BY <1>2 DEF Joined
<1>3. CASE have # {}
  <2>1. have \subseteq 1..4
    <3>1. plan.reports \in Requests
      BY DEF OperaTypeOK
    <3>2. QED
      BY <3>1, TabFacts
  <2>2. \E t \in have : \A u \in have : u <= t
    <3>1. CASE 4 \in have
      BY <3>1, <2>1
    <3>2. CASE 4 \notin have /\ 3 \in have
      BY <3>2, <2>1
    <3>3. CASE 4 \notin have /\ 3 \notin have /\ 2 \in have
      BY <3>3, <2>1
    <3>4. CASE 4 \notin have /\ 3 \notin have /\ 2 \notin have
      BY <3>4, <2>1, <1>3
    <3>5. QED
      BY <3>1, <3>2, <3>3, <3>4
  <2> DEFINE last == CHOOSE t \in have : \A u \in have : u <= t
  <2>3. last \in have
    BY <2>2
  <2>4. Joined[r] = page[last].results[r]
    BY <1>3 DEF Joined
  <2> HIDE DEF last
  <2>5. QED
    BY <1>1, <2>3, <2>4
<1>4. QED
  BY <1>2, <1>3

\* The steps of a tab.
LEMMA TypeTabs ==
  ASSUME OperaTypeOK, NEW t \in Tab, TabStep(t) \/ DownloadStep(t)
  PROVE  OperaTypeOK'
<1>1. /\ page \in [Tab -> Page] /\ page[t] \in Page /\ page[t].file \in File \cup {NoFile}
      /\ owed \in [Tab -> SUBSET Report]
      /\ disk \in [Report -> File \cup {NoFile, Torn}] /\ tmp \in [Report -> File \cup {NoFile, Torn}]
  BY DEF OperaTypeOK, Page
<1>2. page[t].pc \in Working => Head(page[t].todo) \in Report
  <2>1. page[t].todo \in Seq(Report)
    BY <1>1 DEF Page
  <2>2. page[t].pc \in Working => page[t].todo # <<>>
    BY DEF OperaTypeOK, Working
  <2>3. QED
    BY <2>1, <2>2, TailFacts
<1>3. CASE OpenTab(t)
  <2>1. page' \in [Tab -> Page]
    <3>1. PICK q \in {"search", "raised"} : page' = [page EXCEPT ![t].pc = q]
      BY <1>3 DEF OpenTab
    <3>2. [page[t] EXCEPT !.pc = q] \in Page
      BY <1>1 DEF Page
    <3>3. QED
      BY <1>1, <3>1, <3>2
  <2>2. \A u \in Tab : page'[u].todo = page[u].todo
                       /\ (u # t => page'[u].pc = page[u].pc)
    BY <1>1, <1>3 DEF OpenTab, Page
  <2>3. QED
    BY <1>3, <2>1, <2>2 DEF OpenTab, OperaTypeOK
<1>4. CASE Search(t)
  <2>1. page' \in [Tab -> Page]
    BY <1>1, <1>4 DEF Search, Page
  <2>2. \A u \in Tab : page'[u].todo = page[u].todo
                       /\ (u # t => page'[u].pc = page[u].pc)
    BY <1>1, <1>4 DEF Search, Page
  <2>3. owed' \in [Tab -> SUBSET Report]
    BY <1>1, <1>2, <1>4 DEF Search, Working
  <2>4. QED
    BY <1>4, <2>1, <2>2, <2>3 DEF Search, OperaTypeOK
<1>5. CASE Arrives(t)
  <2>1. PICK r \in owed[t] :
          /\ page' = [page EXCEPT ![t].pc = "save", ![t].file = [of |-> r, new |-> TRUE]]
          /\ owed' = [owed EXCEPT ![t] = @ \ {r}]
    BY <1>5 DEF Arrives
  <2>2. [of |-> r, new |-> TRUE] \in File
    BY <1>1 DEF File
  <2>3. page' \in [Tab -> Page]
    BY <1>1, <2>1, <2>2 DEF Page
  <2>4. \A u \in Tab : page'[u].todo = page[u].todo
                       /\ (u # t => page'[u].pc = page[u].pc)
    BY <1>1, <2>1 DEF Page
  <2>5. owed' \in [Tab -> SUBSET Report]
    BY <1>1, <2>1
  <2>6. UNCHANGED <<plan, stage, state, disk, tmp, summary>> /\ page[t].pc = "wait"
    BY <1>5 DEF Arrives
  <2>7. \A u \in Tab : page'[u].pc \in {"open"} \cup Working => page'[u].todo # <<>>
    BY <2>4, <2>6 DEF OperaTypeOK, Working
  <2>8. QED
    BY <2>3, <2>5, <2>6, <2>7 DEF OperaTypeOK, Working
<1>6. CASE SaveTmp(t)
  <2>1. page' \in [Tab -> Page]
    BY <1>1, <1>6 DEF SaveTmp, Page
  <2>2. \A u \in Tab : page'[u].todo = page[u].todo
                       /\ (u # t => page'[u].pc = page[u].pc)
    BY <1>1, <1>6 DEF SaveTmp, Page
  <2>3. tmp' \in [Report -> File \cup {NoFile, Torn}]
    BY <1>1, <1>2, <1>6 DEF SaveTmp, Working
  <2>4. QED
    BY <1>6, <2>1, <2>2, <2>3 DEF SaveTmp, OperaTypeOK
<1>7. CASE Through(t)
  <2>1. page[t].pc \in Working
    BY <1>7 DEF Through, SaveFails, MoveTmp, UnlinkFails, MoveFails, GivesUp, Working
  <2>2. PICK res \in {"ok", "failed"} : page' = NextReport(t, res)
    BY <1>7 DEF Through, SaveFails, MoveTmp, UnlinkFails, MoveFails, GivesUp
  <2>3. /\ page' \in [Tab -> Page]
        /\ \A u \in Tab : page'[u].pc \in {"open"} \cup Working => page'[u].todo # <<>>
    <3>1. /\ page' \in [Tab -> Page]
          /\ \A u \in Tab \ {t} : page'[u] = page[u]
          /\ page'[t].todo = Tail(page[t].todo)
          /\ page'[t].pc = (IF Tail(page[t].todo) = <<>> THEN "ended" ELSE "search")
      BY <2>1, <2>2, NextFacts
    <3>2. ASSUME NEW u \in Tab, page'[u].pc \in {"open"} \cup Working
          PROVE  page'[u].todo # <<>>
      <4>1. CASE u = t
        BY <3>1, <3>2, <4>1 DEF Working
      <4>2. CASE u # t
        BY <3>1, <3>2, <4>2 DEF OperaTypeOK, Working
      <4>3. QED
        BY <4>1, <4>2
    <3>3. QED
      BY <3>1, <3>2
  <2>4. /\ disk' \in [Report -> File \cup {NoFile, Torn}] /\ tmp' \in [Report -> File \cup {NoFile, Torn}]
    <3>1. CASE SaveFails(t)
      BY <1>1, <1>2, <2>1, <3>1 DEF SaveFails
    <3>2. CASE MoveTmp(t)
      BY <1>1, <1>2, <2>1, <3>2 DEF MoveTmp
    <3>3. CASE MoveFails(t)
      BY <1>1, <1>2, <2>1, <3>3 DEF MoveFails, HalfMoved
    <3>4. QED
      BY <1>1, <1>7, <3>1, <3>2, <3>3 DEF Through, UnlinkFails, GivesUp
  <2>5. UNCHANGED <<plan, stage, state, owed, summary>>
    BY <1>7 DEF Through, SaveFails, MoveTmp, UnlinkFails, MoveFails, GivesUp
  <2>6. QED
    BY <2>3, <2>4, <2>5 DEF OperaTypeOK, Working
<1>8. QED
  BY <1>3, <1>4, <1>5, <1>6, <1>7 DEF TabStep, DownloadStep, Through


\* The steps that open, close or start over, which set every page.
LEMMA OpenBrowserPages ==
  ASSUME OperaTypeOK, OpenBrowser
  PROVE  /\ page' \in [Tab -> Page]
         /\ stage' \in Downloading
         /\ stage' = "alone" => page' = OnlyTab
         /\ stage' = "tabs" => \A t \in Tab :
              page'[t] = IF t \in 1..Tabs THEN Opened(Chunk(t)) ELSE Closed
<1>1. plan.reports \in Requests
  BY DEF OperaTypeOK
<1>2. /\ plan.reports \in Seq(Report) /\ plan.reports # <<>>
      /\ Tabs \in 1..4 /\ Tab \subseteq 1..4
  BY <1>1, TabFacts
<1>3. Opened(plan.reports) \in Page /\ Closed \in Page
  BY <1>2, OpenedFacts, ClosedFacts
<1>4. \A t \in 1..Tabs : Opened(Chunk(t)) \in Page
  BY <1>1, ChunkFacts, OpenedFacts
<1>5. CASE Tabs = 1
  BY <1>3, <1>5 DEF OpenBrowser, OnlyTab, Downloading
<1>6. CASE Tabs # 1
  <2>1. /\ stage' = "tabs"
        /\ page' = [t \in Tab |-> IF t <= Tabs THEN Opened(Chunk(t)) ELSE Closed]
    BY <1>6 DEF OpenBrowser
  <2>2. ASSUME NEW t \in Tab
        PROVE  t <= Tabs <=> t \in 1..Tabs
    <3>1. t \in 1..4
      BY <1>2
    <3>2. QED
      BY <1>2, <3>1
  <2>3. QED
    BY <1>3, <1>4, <2>1, <2>2 DEF Downloading
<1>7. QED
  BY <1>5, <1>6

LEMMA OnlyTabFacts ==
  ASSUME OperaTypeOK
  PROVE  /\ OnlyTab \in [Tab -> Page]
         /\ 1 \in Tab /\ OnlyTab[1] = Opened(plan.reports)
         /\ \A t \in Tab \ {1} : OnlyTab[t] = Closed
         /\ plan.reports \in Seq(Report) /\ plan.reports # <<>>
<1>1. plan.reports \in Requests
  BY DEF OperaTypeOK
<1>2. plan.reports \in Seq(Report) /\ plan.reports # <<>> /\ 1 \in Tab
  BY <1>1, TabFacts
<1>3. Opened(plan.reports) \in Page /\ Closed \in Page
  BY <1>2, OpenedFacts, ClosedFacts
<1>4. QED
  BY <1>2, <1>3 DEF OnlyTab

\* A tab that is opened has a list, and none of what follows in it.
LEMMA OpenedLists ==
  ASSUME OperaTypeOK, OpenBrowser \/ FallBack
  PROVE  /\ page' \in [Tab -> Page]
         /\ \A t \in Tab : page'[t].pc \in {"open", "closed"} /\ page'[t].results = NoResults
         /\ \A t \in Tab : page'[t].pc = "open" <=> page'[t].todo # <<>>
<1>1. \A t \in Tab : \/ page'[t] = Closed
                     \/ \E todo \in Seq(Report) : todo # <<>> /\ page'[t] = Opened(todo)
  <2>1. CASE stage' = "alone" /\ page' = OnlyTab
    BY <2>1, OnlyTabFacts
  <2>2. CASE OpenBrowser /\ stage' = "tabs"
    <3>1. plan.reports \in Requests
      BY DEF OperaTypeOK
    <3>2. \A t \in 1..Tabs : Chunk(t) \in Seq(Report) /\ Chunk(t) # <<>>
      BY <3>1, ChunkFacts
    <3>3. QED
      BY <2>2, <3>2, OpenBrowserPages
  <2>3. QED
    BY <2>1, <2>2, OpenBrowserPages DEF FallBack, Downloading
<1>2. page' \in [Tab -> Page]
  BY OpenBrowserPages, OnlyTabFacts DEF FallBack
<1>3. QED
  BY <1>1, <1>2, OpenedFacts, ClosedFacts

LEMMA TypeBrowser ==
  ASSUME OperaTypeOK, OpenBrowser \/ FallBack \/ Download \/ LoginFails \/ Kill
  PROVE  OperaTypeOK'
<1>1. /\ plan' = plan /\ summary' = summary
      /\ tmp' \in [Report -> File \cup {NoFile, Torn}]
  <2>1. plan' = plan /\ summary' = summary
    BY DEF OpenBrowser, FallBack, Download, LoginFails, Kill
  <2>2. CopiesBreakOff \/ tmp' = tmp
    BY DEF OpenBrowser, FallBack, Download, LoginFails, Kill
  <2>3. QED
    BY <2>1, <2>2 DEF CopiesBreakOff, OperaTypeOK
<1>2. page' \in [Tab -> Page]
      /\ \A t \in Tab : page'[t].pc \in {"open"} \cup Working => page'[t].todo # <<>>
  <2>1. CASE OpenBrowser \/ FallBack
    BY <2>1, OpenedLists DEF Working
  <2>2. CASE Download \/ LoginFails \/ Kill
    <3>1. page' = [t \in Tab |-> Closed]
      BY <2>2 DEF Download, LoginFails, Kill
    <3>2. QED
      BY <3>1, ClosedFacts DEF Working
  <2>3. QED
    BY <2>1, <2>2
<1>3. owed' \in [Tab -> SUBSET Report]
  BY DEF OperaTypeOK, OpenBrowser, FallBack, Download, LoginFails, Kill
<1>4. stage' \in (Phase \ {"download"}) \cup {"download", "tabs", "alone"} \cup Over
  <2>1. plan.phases \subseteq Phase
    BY DEF OperaTypeOK
  <2>2. QED
    BY <2>1, Later DEF OpenBrowser, FallBack, Download, LoginFails, Kill, Phase, Over
<1>5. state' \in State
  <2>1. CASE Download
    <3>1. state' = [state EXCEPT !.results = Joined, !.missing = Missing]
      BY <2>1 DEF Download
    <3>2. QED
      BY <3>1, JoinedFacts, MissingType DEF State, OperaTypeOK
  <2>2. QED
    BY <2>1 DEF OpenBrowser, FallBack, LoginFails, Kill, OperaTypeOK
<1>6. disk' \in [Report -> File \cup {NoFile, Torn}]
  <2>1. disk' = disk \/ \E r : HalfMoved(r)
    BY DEF OpenBrowser, FallBack, Download, LoginFails, Kill
  <2>2. ASSUME NEW r, HalfMoved(r)
        PROVE  disk' \in [Report -> File \cup {NoFile, Torn}]
    <3>1. PICK f \in {NoFile, Torn, tmp[r]} : disk' = [disk EXCEPT ![r] = f]
      BY <2>2 DEF HalfMoved
    <3>2. r \in Report => f \in File \cup {NoFile, Torn}
      BY <3>1 DEF OperaTypeOK
    <3>3. QED
      BY <3>1, <3>2 DEF OperaTypeOK
  <2>3. QED
    BY <2>1, <2>2 DEF OperaTypeOK
<1>7. QED
  BY <1>1, <1>2, <1>3, <1>4, <1>5, <1>6 DEF OperaTypeOK, Working

LEMMA OperaTypeStep == OperaTypeOK /\ [OperaNext]_operaVars => OperaTypeOK'
<1> SUFFICES ASSUME OperaTypeOK, [OperaNext]_operaVars
             PROVE  OperaTypeOK'
  OBVIOUS
<1>1. CASE Advance
  BY <1>1, TypePhases, TypeBrowser DEF Advance
<1>2. CASE LoginFails \/ Kill
  BY <1>2, TypeBrowser
<1>3. CASE \E t \in Tab : TabStep(t) \/ DownloadStep(t)
  BY <1>3, TypeTabs
<1>4. CASE UNCHANGED operaVars
  BY <1>4 DEF operaVars, OperaTypeOK
<1>5. QED
  BY <1>1, <1>2, <1>3, <1>4 DEF OperaNext

\* Every variable of the Job keeps its type, whatever was asked for.
THEOREM OperaTypeCorrect == OperaSpec => []OperaTypeOK
BY OperaTypeInit, OperaTypeStep, PTL DEF OperaSpec


-----------------------------------------------------------------------------
(* What is open in which stage. *)

\* Tabs are open while the download runs, and one of them when it is alone.
WhoIsOpen ==
  /\ stage \notin Downloading => \A t \in Tab : page[t] = Closed
  /\ stage = "alone" => \A t \in Tab \ {1} : page[t] = Closed

\* A tab that has ended has nothing left to do.
EndedIsDone == \A t \in Tab : page[t].pc \in {"closed", "ended"} => page[t].todo = <<>>

\* There are no results before the download is over.
NoneYet == stage \in {"prepare", "download"} \cup Downloading => state.results = NoResults

\* What is missing was looked up in the folder that the summary speaks of.
ParsedIsThere ==
  /\ state.parsed => stage \in {"report"} \cup Over
  /\ state.parsed /\ stage # "killed" => state.missing = Missing
  /\ summary.status = "ok" => stage = "done" /\ Missing = {}

StageInv == WhoIsOpen /\ EndedIsDone /\ NoneYet /\ ParsedIsThere

LEMMA StageInit == OperaInit => StageInv
<1> SUFFICES ASSUME OperaInit
             PROVE  StageInv
  OBVIOUS
<1>1. plan.phases \subseteq Phase
  BY DEF OperaInit
<1>2. stage \in {"prepare", "download", "parse", "report", "done"}
  BY <1>1, Later DEF OperaInit
<1>3. \A t \in Tab : page[t] = Closed
  BY DEF OperaInit
<1>4. state.results = NoResults /\ state.parsed = FALSE /\ summary.status = "none"
  BY DEF OperaInit, NoState, NoSummary
<1>5. QED
  BY <1>2, <1>3, <1>4, ClosedFacts
  DEF StageInv, WhoIsOpen, EndedIsDone, NoneYet, ParsedIsThere, Downloading

\* The phases before and after the download.
LEMMA StagePhases ==
  ASSUME OperaTypeOK, StageInv, Prepare \/ Unseeded \/ SkipDownload \/ Parse \/ Summarise
  PROVE  StageInv'
<1>1. plan.phases \subseteq Phase
  BY DEF OperaTypeOK
<1>2. UNCHANGED <<plan, browser>> /\ Missing' = Missing
  BY DEF Prepare, Unseeded, SkipDownload, Parse, Summarise, browser, Missing
<1>3. /\ stage \in {"prepare", "download", "parse", "report"}
      /\ stage' \in {"download", "parse", "report", "done", "failed"}
  BY <1>1, Later DEF Prepare, Unseeded, SkipDownload, Parse, Summarise
<1>4. WhoIsOpen' /\ EndedIsDone'
  BY <1>2, <1>3 DEF StageInv, WhoIsOpen, EndedIsDone, Downloading, browser
<1>5. summary.status # "ok"
  BY <1>3 DEF StageInv, ParsedIsThere
<1>6. CASE Prepare
  <2>1. state'.results = NoResults /\ state'.parsed = FALSE /\ summary' = summary
    BY <1>6 DEF Prepare, NoState
  <2>2. QED
    BY <1>4, <1>5, <2>1 DEF StageInv, NoneYet, ParsedIsThere
<1>7. CASE Unseeded
  <2>1. state' = state /\ summary' = summary /\ stage' = "failed" /\ stage # "killed"
    BY <1>3, <1>7 DEF Unseeded
  <2>2. QED
    BY <1>2, <1>4, <1>5, <2>1 DEF StageInv, NoneYet, ParsedIsThere, Downloading, Over
<1>8. CASE SkipDownload
  <2>1. PICK s \in State : Handed(s) /\ state' = s
    BY <1>8 DEF SkipDownload
  <2>2. stage = "download" /\ stage' \in {"parse", "report", "done"} /\ summary' = summary
    BY <1>1, <1>8, Later DEF SkipDownload
  <2>3. state.parsed = FALSE
    BY <2>2 DEF StageInv, ParsedIsThere, Over, OperaTypeOK, State
  <2>4. ~state'.parsed
    BY <2>1, <2>3, HandedFacts
  <2>5. QED
    BY <1>4, <1>5, <2>2, <2>4 DEF StageInv, NoneYet, ParsedIsThere, Downloading
<1>9. CASE Parse
  <2>1. PICK s \in State :
          /\ Handed(s)
          /\ \/ stage' = After("parse") /\ state' = [s EXCEPT !.missing = Missing, !.parsed = TRUE]
             \/ stage' = "failed" /\ state' = s
    BY <1>9 DEF Parse
  <2>2. stage = "parse" /\ stage' \in {"report", "done", "failed"} /\ summary' = summary
    BY <1>1, <1>9, Later DEF Parse
  <2>3. s.parsed => s = state
    BY <2>1, HandedFacts
  <2>4. ~s.parsed
    BY <2>2, <2>3 DEF StageInv, ParsedIsThere, Over
  <2>5. state'.parsed => state'.missing = Missing
    BY <2>1, <2>4 DEF State
  <2>6. QED
    BY <1>2, <1>4, <1>5, <2>2, <2>5 DEF StageInv, NoneYet, ParsedIsThere, Downloading, Over
<1>10. CASE Summarise
  <2>1. PICK s \in State :
          /\ Handed(s) /\ state' = s
          /\ IF s.parsed
             THEN /\ stage' = "done"
                  /\ summary' = [status |-> IF s.missing = {} THEN "ok" ELSE "partial", results |-> s.results]
             ELSE stage' = "failed" /\ UNCHANGED summary
    BY <1>10 DEF Summarise
  <2>2. stage = "report" /\ stage' \in {"done", "failed"}
    BY <1>10, <2>1 DEF Summarise
  <2>3. s.parsed => s.missing = Missing
    BY <2>1, <2>2, HandedFacts DEF StageInv, ParsedIsThere
  <2>4. summary'.status = "ok" => s.parsed /\ s.missing = {} /\ stage' = "done"
    BY <1>5, <2>1
  <2>5. QED
    BY <1>2, <1>4, <2>1, <2>2, <2>3, <2>4 DEF StageInv, NoneYet, ParsedIsThere, Downloading, Over
<1>11. QED
  BY <1>6, <1>7, <1>8, <1>9, <1>10

\* While tabs are open nothing is parsed or summed up.
LEMMA NotYet ==
  ASSUME OperaTypeOK, StageInv, stage \in {"download"} \cup Downloading
  PROVE  /\ state.parsed = FALSE /\ state.results = NoResults /\ summary.status # "ok"
         /\ \A s \in State : Handed(s) => s.results = NoResults /\ s.parsed = FALSE
<1>1. state.parsed = FALSE /\ state.results = NoResults /\ summary.status # "ok"
  BY DEF StageInv, NoneYet, ParsedIsThere, Downloading, Over, OperaTypeOK, State
<1>2. \A s \in State : Handed(s) => s.results = NoResults /\ s.parsed = FALSE
  BY <1>1, HandedFacts DEF State
<1>3. QED
  BY <1>1, <1>2

LEMMA StageTabs ==
  ASSUME OperaTypeOK, StageInv, NEW t \in Tab, TabStep(t) \/ DownloadStep(t)
  PROVE  StageInv' /\ stage \in Downloading /\ UNCHANGED <<plan, stage, state, summary>>
<1>1. UNCHANGED <<plan, stage, state, summary>>
  BY DEF TabStep, DownloadStep, Arrives, OpenTab, Search, SaveTmp, SaveFails,
         MoveTmp, UnlinkFails, MoveFails, GivesUp
<1>2. page[t].pc \in {"open"} \cup Working
  BY DEF TabStep, DownloadStep, Arrives, OpenTab, Search, SaveTmp, SaveFails,
         MoveTmp, UnlinkFails, MoveFails, GivesUp, Working
<1>3. page[t] # Closed
  BY <1>2, ClosedFacts DEF Working
<1>4. stage \in Downloading
  BY <1>3 DEF StageInv, WhoIsOpen
<1>5. /\ \A u \in Tab \ {t} : page'[u] = page[u]
      /\ page'[t].pc \in {"closed", "ended"} => page'[t].todo = <<>>
  <2>1. CASE OpenTab(t) \/ Search(t) \/ Arrives(t) \/ SaveTmp(t)
    <3>1. page'[t].pc \in {"raised"} \cup Working /\ \A u \in Tab \ {t} : page'[u] = page[u]
      BY <2>1 DEF OpenTab, Search, Arrives, SaveTmp, OperaTypeOK, Page, Working
    <3>2. QED
      BY <3>1 DEF Working
  <2>2. CASE Through(t)
    <3>1. page[t].pc \in Working /\ \E res \in {"ok", "failed"} : page' = NextReport(t, res)
      BY <2>2 DEF Through, SaveFails, MoveTmp, UnlinkFails, MoveFails, GivesUp, Working
    <3>2. QED
      BY <3>1, NextFacts
  <2>3. QED
    BY <2>1, <2>2 DEF TabStep, DownloadStep, Through
<1>6. EndedIsDone'
  BY <1>5 DEF StageInv, EndedIsDone
<1>7. WhoIsOpen'
  BY <1>1, <1>3, <1>4, <1>5 DEF StageInv, WhoIsOpen
<1>8. NoneYet' /\ ParsedIsThere'
  BY <1>1, <1>4, NotYet DEF StageInv, NoneYet, ParsedIsThere
<1>9. QED
  BY <1>1, <1>4, <1>6, <1>7, <1>8 DEF StageInv

LEMMA StageBrowser ==
  ASSUME OperaTypeOK, StageInv, OpenBrowser \/ FallBack \/ Download \/ LoginFails \/ Kill
  PROVE  StageInv'
<1>1. plan.phases \subseteq Phase
  BY DEF OperaTypeOK
<1>2. CASE OpenBrowser \/ FallBack
  <2>1. stage \in {"download"} \cup Downloading /\ stage' \in Downloading /\ summary' = summary
    BY <1>2, OpenBrowserPages DEF OpenBrowser, FallBack, Downloading
  <2>2. state'.parsed = FALSE /\ state'.results = NoResults
    BY <1>2, <2>1, NotYet DEF OpenBrowser, FallBack
  <2>3. EndedIsDone'
    BY <1>2, OpenedLists, ClosedFacts DEF EndedIsDone
  <2>4. WhoIsOpen'
    BY <1>2, <2>1, OpenBrowserPages, OnlyTabFacts DEF WhoIsOpen, FallBack
  <2>5. NoneYet' /\ ParsedIsThere'
    BY <2>1, <2>2, NotYet DEF NoneYet, ParsedIsThere
  <2>6. QED
    BY <2>3, <2>4, <2>5 DEF StageInv
<1>3. CASE Download \/ LoginFails \/ Kill
  <2>1. /\ \A t \in Tab : page'[t] = Closed
        /\ summary' = summary /\ plan' = plan
    BY <1>3 DEF Download, LoginFails, Kill
  <2>2. WhoIsOpen' /\ EndedIsDone'
    BY <2>1, ClosedFacts DEF WhoIsOpen, EndedIsDone
  <2>3. CASE Download
    <3>1. stage \in Downloading /\ stage' \in {"parse", "report", "done", "failed"}
      BY <1>1, <2>3, Later DEF Download, Downloading
    <3>2. state' = [state EXCEPT !.results = Joined, !.missing = Missing]
      BY <2>3 DEF Download
    <3>3. state'.parsed = FALSE
      BY <3>1, <3>2, NotYet DEF OperaTypeOK, State
    <3>4. QED
      BY <2>1, <2>2, <3>1, <3>3, NotYet DEF StageInv, NoneYet, ParsedIsThere, Downloading
  <2>4. CASE LoginFails
    <3>1. stage \in {"download"} \cup Downloading /\ stage' = "failed" /\ state' = state
      BY <2>4 DEF LoginFails, Downloading
    <3>2. QED
      BY <2>1, <2>2, <3>1, NotYet DEF StageInv, NoneYet, ParsedIsThere, Downloading
  <2>5. CASE Kill
    <3>1. stage \notin Over /\ stage' = "killed" /\ state' = state
      BY <2>5 DEF Kill
    <3>2. summary.status # "ok"
      BY <3>1 DEF StageInv, ParsedIsThere, Over
    <3>3. QED
      BY <2>1, <2>2, <3>1, <3>2 DEF StageInv, NoneYet, ParsedIsThere, Downloading, Over
  <2>6. QED
    BY <1>3, <2>3, <2>4, <2>5
<1>4. QED
  BY <1>2, <1>3

LEMMA StageStep == OperaTypeOK /\ StageInv /\ [OperaNext]_operaVars => StageInv'
<1> SUFFICES ASSUME OperaTypeOK, StageInv, [OperaNext]_operaVars
             PROVE  StageInv'
  OBVIOUS
<1>1. CASE Advance
  BY <1>1, StagePhases, StageBrowser DEF Advance
<1>2. CASE LoginFails \/ Kill
  BY <1>2, StageBrowser
<1>3. CASE \E t \in Tab : TabStep(t) \/ DownloadStep(t)
  BY <1>3, StageTabs
<1>4. CASE UNCHANGED operaVars
  BY <1>4 DEF operaVars, StageInv, WhoIsOpen, EndedIsDone, NoneYet, ParsedIsThere, Missing
<1>5. QED
  BY <1>1, <1>2, <1>3, <1>4 DEF OperaNext

\* "ok" in the summary says that every report of the catalogue was there to be
\* parsed, and nothing has touched the folder since.
THEOREM OkIsComplete == OperaSpec => []SummaryComplete
<1>1. StageInv => SummaryComplete
  BY DEF StageInv, ParsedIsThere, SummaryComplete, Missing
<1>2. QED
  BY <1>1, OperaTypeInit, OperaTypeStep, StageInit, StageStep, PTL DEF OperaSpec


-----------------------------------------------------------------------------
(* Who does what, when no report is asked for twice. *)

\* No report is left to do twice, in one tab or in two, and none for which
\* there is a result.
Dealt ==
  /\ \A t \in Tab : \A k, l \in DOMAIN page[t].todo : page[t].todo[k] = page[t].todo[l] => k = l
  /\ \A t, u \in Tab : t # u => Left(t) \cap Left(u) = {}
  /\ \A t, u \in Tab, r \in Report : page[t].results[r] # "none" => r \notin Left(u)

\* No report is forgotten.
Covered ==
  stage \in Downloading =>
    \A i \in DOMAIN plan.reports : \E t \in Tab :
      plan.reports[i] \in Left(t) \/ page[t].results[plan.reports[i]] # "none"

\* What is about to take a file's place is there, whole, and of this Run.
TmpReady ==
  /\ \A t \in Tab : page[t].pc = "save" => page[t].file.new /\ Whole(page[t].file)
  /\ \A t \in Tab : page[t].pc = "move" =>
       LET r == Head(page[t].todo) IN tmp[r].new /\ Whole(tmp[r])

OkIsNew ==
  \A t \in Tab, r \in Report : page[t].results[r] = "ok" => disk[r].new /\ Whole(disk[r])

TabInv == Dealt /\ Covered /\ TmpReady /\ OkIsNew /\ ResultsTrue

OperaInv == OperaTypeOK /\ StageInv /\ TabInv

LEMMA TailSet ==
  ASSUME NEW S, NEW s \in Seq(S), s # <<>>,
         \A k, l \in DOMAIN s : s[k] = s[l] => k = l
  PROVE  /\ {Tail(s)[k] : k \in DOMAIN Tail(s)} = {s[k] : k \in DOMAIN s} \ {Head(s)}
         /\ Head(s) \in {s[k] : k \in DOMAIN s}
         /\ \A k, l \in DOMAIN Tail(s) : Tail(s)[k] = Tail(s)[l] => k = l
<1>1. /\ Head(s) = s[1] /\ 1 \in DOMAIN s
      /\ Len(s) \in Nat /\ DOMAIN s = 1..Len(s) /\ DOMAIN Tail(s) = 1..(Len(s) - 1)
      /\ \A k \in DOMAIN Tail(s) : k + 1 \in DOMAIN s /\ Tail(s)[k] = s[k + 1]
  BY TailFacts
<1>2. ASSUME NEW k \in DOMAIN Tail(s)
      PROVE  Tail(s)[k] \in {s[m] : m \in DOMAIN s} \ {Head(s)}
  <2>1. k + 1 \in DOMAIN s /\ k + 1 # 1
    BY <1>1
  <2>2. s[k + 1] # s[1]
    BY <1>1, <2>1
  <2>3. QED
    BY <1>1, <2>1, <2>2
<1>3. ASSUME NEW k \in DOMAIN s, s[k] # Head(s)
      PROVE  \E m \in DOMAIN Tail(s) : s[k] = Tail(s)[m]
  <2>1. k - 1 \in DOMAIN Tail(s) /\ (k - 1) + 1 = k
    BY <1>1, <1>3
  <2>2. Tail(s)[k - 1] = s[k]
    BY <1>1, <2>1
  <2>3. QED
    BY <2>1, <2>2
<1>4. \A k, l \in DOMAIN Tail(s) : Tail(s)[k] = Tail(s)[l] => k = l
  <2> SUFFICES ASSUME NEW k \in DOMAIN Tail(s), NEW l \in DOMAIN Tail(s), Tail(s)[k] = Tail(s)[l]
               PROVE  k = l
    OBVIOUS
  <2>1. k + 1 = l + 1
    BY <1>1
  <2>2. QED
    BY <1>1, <2>1
<1>5. QED
  BY <1>1, <1>2, <1>3, <1>4

\* A tab that goes on leaves the report it was about, and has its result.
LEMMA NextLists ==
  ASSUME OperaTypeOK, Dealt, NEW t \in Tab, page[t].pc \in Working,
         NEW res \in {"ok", "failed"}, page' = NextReport(t, res), UNCHANGED <<plan, stage>>
  PROVE  /\ Head(page[t].todo) \in Left(t)
         /\ Dealt'
         /\ Covered => Covered'
<1> DEFINE h == Head(page[t].todo)
<1>1. /\ page[t].todo \in Seq(Report) /\ page[t].todo # <<>> /\ h \in Report
      /\ \A u \in Tab \ {t} : page'[u] = page[u]
      /\ page'[t].todo = Tail(page[t].todo)
      /\ \A r \in Report : page'[t].results[r] = IF r = h THEN res ELSE page[t].results[r]
  BY NextFacts
<1>2. \A k, l \in DOMAIN page[t].todo : page[t].todo[k] = page[t].todo[l] => k = l
  BY DEF Dealt
<1>3. /\ Left(t)' = Left(t) \ {h} /\ h \in Left(t)
      /\ \A k, l \in DOMAIN page'[t].todo : page'[t].todo[k] = page'[t].todo[l] => k = l
  <2>1. /\ {Tail(page[t].todo)[k] : k \in DOMAIN Tail(page[t].todo)}
             = {page[t].todo[k] : k \in DOMAIN page[t].todo} \ {h}
        /\ h \in {page[t].todo[k] : k \in DOMAIN page[t].todo}
        /\ \A k, l \in DOMAIN Tail(page[t].todo) :
             Tail(page[t].todo)[k] = Tail(page[t].todo)[l] => k = l
    BY <1>1, <1>2, TailSet
  <2>2. Left(t)' = {page'[t].todo[k] : k \in DOMAIN page'[t].todo}
    BY DEF Left
  <2> DEFINE rest == Tail(page[t].todo)
  <2>3. page'[t].todo = rest
    BY <1>1
  <2>4. \A k, l \in DOMAIN rest : rest[k] = rest[l] => k = l
    BY <2>1
  <2>5. {rest[k] : k \in DOMAIN rest} = Left(t) \ {h} /\ h \in Left(t)
    BY <2>1 DEF Left
  <2> HIDE DEF h, rest
  <2>6. QED
    BY <2>2, <2>3, <2>4, <2>5
<1>4. \A u \in Tab \ {t} : Left(u)' = Left(u)
  BY <1>1 DEF Left
<1> HIDE DEF h
<1>5. ASSUME NEW u \in Tab
      PROVE  \A k, l \in DOMAIN page'[u].todo : page'[u].todo[k] = page'[u].todo[l] => k = l
  <2>1. CASE u = t
    BY <1>3, <2>1, Zenon
  <2>2. CASE u # t
    <3>1. page'[u] = page[u]
      BY <1>1, <2>2
    <3>2. \A k, l \in DOMAIN page[u].todo : page[u].todo[k] = page[u].todo[l] => k = l
      BY DEF Dealt
    <3>3. QED
      BY <3>1, <3>2, Zenon
  <2>3. QED
    BY <2>1, <2>2
<1>6. \A u \in Tab : Left(u)' \subseteq Left(u) /\ h \notin Left(u)'
  BY <1>3, <1>4 DEF Dealt
<1>7. \A u, w \in Tab : u # w => Left(u)' \cap Left(w)' = {}
  BY <1>6 DEF Dealt
<1>8. \A u, w \in Tab, r \in Report : page'[u].results[r] # "none" => r \notin Left(w)'
  BY <1>1, <1>6 DEF Dealt
<1>9. Dealt'
  BY <1>5, <1>7, <1>8 DEF Dealt
<1>10. ASSUME Covered, stage \in Downloading, NEW i \in DOMAIN plan.reports
       PROVE  \E u \in Tab : \/ plan.reports[i] \in Left(u)'
                             \/ page'[u].results[plan.reports[i]] # "none"
  <2>1. plan.reports[i] \in Report
    <3>1. plan.reports \in Requests
      BY DEF OperaTypeOK
    <3>2. plan.reports \in Seq(Report)
      BY <3>1, TabFacts
    <3>3. QED
      BY <3>2, SeqFacts
  <2>2. PICK u \in Tab : \/ plan.reports[i] \in Left(u)
                         \/ page[u].results[plan.reports[i]] # "none"
    BY <1>10 DEF Covered
  <2>3. CASE plan.reports[i] = h
    BY <1>1, <2>3
  <2>4. CASE plan.reports[i] # h
    BY <1>1, <1>3, <1>4, <2>1, <2>2, <2>4
  <2>5. QED
    BY <2>3, <2>4
<1>11. Covered => Covered'
  BY <1>10 DEF Covered
<1>12. QED
  BY <1>3, <1>9, <1>11 DEF h

\* When the browser opens, the reports are dealt out.
LEMMA OpenDeals ==
  ASSUME AskedOnce, OperaTypeOK, OpenBrowser \/ FallBack
  PROVE  Dealt' /\ Covered'
<1>1. plan.reports \in Requests /\ plan' = plan
  BY DEF OperaTypeOK, OpenBrowser, FallBack
<1>2. \A i, j \in DOMAIN plan.reports : plan.reports[i] = plan.reports[j] => i = j
  BY <1>1 DEF AskedOnce
<1>3. /\ plan.reports \in Seq(Report)
      /\ Len(plan.reports) \in Nat /\ DOMAIN plan.reports = 1..Len(plan.reports)
      /\ Tabs \in 1..4 /\ Tabs <= Len(plan.reports) /\ 1..Tabs \subseteq Tab
  BY <1>1, TabFacts
<1>4. \A t \in Tab, r \in Report : page'[t].results[r] = "none"
  BY OpenedLists, ClosedFacts
<1>5. CASE page' = OnlyTab
  <2>1. page'[1].todo = plan.reports /\ \A t \in Tab \ {1} : page'[t].todo = <<>>
    BY <1>3, <1>5, OnlyTabFacts, OpenedFacts, ClosedFacts
  <2>2. Left(1)' = {plan.reports[k] : k \in DOMAIN plan.reports}
        /\ \A t \in Tab \ {1} : Left(t)' = {}
    BY <2>1 DEF Left
  <2>3. \A t \in Tab : \A k, l \in DOMAIN page'[t].todo : page'[t].todo[k] = page'[t].todo[l] => k = l
    BY <1>2, <2>1
  <2>4. Dealt'
    BY <1>4, <2>2, <2>3 DEF Dealt
  <2>5. Covered'
    BY <1>1, <1>3, <2>2, OnlyTabFacts DEF Covered
  <2>6. QED
    BY <2>4, <2>5
<1>6. CASE \A t \in Tab : page'[t] = IF t \in 1..Tabs THEN Opened(Chunk(t)) ELSE Closed
  <2> DEFINE m(t) == (Len(plan.reports) - t) \div Tabs + 1
             at(t, j) == t + (j - 1) * Tabs
  <2>1. /\ \A t, u \in 1..Tabs : \A j, k \in Nat \ {0} : at(t, j) = at(u, k) => t = u /\ j = k
        /\ \A i \in 1..Len(plan.reports) : \E t \in 1..Tabs : \E j \in 1..m(t) : i = at(t, j)
        /\ \A t \in 1..Tabs : m(t) \in Nat
    BY <1>3, Deal
  <2>2. \A t \in 1..Tabs :
          /\ DOMAIN page'[t].todo = 1..m(t)
          /\ \A j \in 1..m(t) : at(t, j) \in DOMAIN plan.reports /\ page'[t].todo[j] = plan.reports[at(t, j)]
    <3> SUFFICES ASSUME NEW t \in 1..Tabs
                 PROVE  /\ DOMAIN page'[t].todo = 1..m(t)
                        /\ \A j \in 1..m(t) : /\ at(t, j) \in DOMAIN plan.reports
                                             /\ page'[t].todo[j] = plan.reports[at(t, j)]
      OBVIOUS
    <3>1. /\ Chunk(t) \in Seq(Report)
          /\ DOMAIN Chunk(t) = 1..m(t)
          /\ \A j \in DOMAIN Chunk(t) : /\ at(t, j) \in DOMAIN plan.reports
                                        /\ Chunk(t)[j] = plan.reports[at(t, j)]
      BY <1>1, ChunkFacts
    <3>2. page'[t].todo = Chunk(t)
      BY <1>3, <1>6, <3>1, OpenedFacts
    <3> HIDE DEF m, at
    <3>3. QED
      BY <3>1, <3>2
  <2>3. \A t \in Tab : t \notin 1..Tabs => DOMAIN page'[t].todo = {}
    BY <1>6, ClosedFacts
  <2> HIDE DEF m, at
  <2>4. \A t, u \in Tab : \A k \in DOMAIN page'[t].todo, l \in DOMAIN page'[u].todo :
          page'[t].todo[k] = page'[u].todo[l] => t = u /\ k = l
    <3> SUFFICES ASSUME NEW t \in Tab, NEW u \in Tab,
                        NEW k \in DOMAIN page'[t].todo, NEW l \in DOMAIN page'[u].todo,
                        page'[t].todo[k] = page'[u].todo[l]
                 PROVE  t = u /\ k = l
      OBVIOUS
    <3>1. t \in 1..Tabs /\ u \in 1..Tabs
      BY <2>3
    <3>2. k \in 1..m(t) /\ l \in 1..m(u)
      BY <2>2, <3>1
    <3>3. k \in Nat \ {0} /\ l \in Nat \ {0}
      BY <2>1, <3>1, <3>2
    <3>4. at(t, k) = at(u, l)
      BY <1>2, <2>2, <3>1, <3>2
    <3>5. QED
      BY <2>1, <3>1, <3>3, <3>4
  <2>5. \A t \in Tab : \A r : r \in Left(t)' <=> \E k \in DOMAIN page'[t].todo : r = page'[t].todo[k]
    BY DEF Left
  <2>6. Dealt'
    <3>1. \A t, u \in Tab : t # u => Left(t)' \cap Left(u)' = {}
      BY <2>4, <2>5
    <3>2. \A t \in Tab : \A k, l \in DOMAIN page'[t].todo : page'[t].todo[k] = page'[t].todo[l] => k = l
      BY <2>4
    <3>3. QED
      BY <1>4, <3>1, <3>2 DEF Dealt
  <2>7. ASSUME NEW i \in DOMAIN plan.reports
        PROVE  \E t \in Tab : plan.reports[i] \in Left(t)'
    <3>1. PICK t \in 1..Tabs : \E j \in 1..m(t) : i = at(t, j)
      BY <1>3, <2>1
    <3>2. PICK j \in 1..m(t) : i = at(t, j)
      BY <3>1
    <3>3. j \in DOMAIN page'[t].todo /\ page'[t].todo[j] = plan.reports[i]
      BY <2>2, <3>2
    <3>4. QED
      BY <1>3, <2>5, <3>3
  <2>8. Covered'
    BY <1>1, <2>7 DEF Covered
  <2>9. QED
    BY <2>6, <2>8
<1>7. QED
  BY <1>5, <1>6, OpenBrowserPages DEF FallBack, Downloading


\* Nothing is in the tabs where they are all closed.
LEMMA ClosedTabs ==
  ASSUME \A t \in Tab : page'[t] = Closed, stage' \notin Downloading
  PROVE  /\ Dealt' /\ Covered'
         /\ \A t \in Tab : page'[t].pc = "closed"
         /\ \A t \in Tab, r \in Report : page'[t].results[r] = "none"
<1>1. \A t \in Tab : page'[t].todo = <<>> /\ page'[t].pc = "closed"
  BY ClosedFacts
<1>2. \A t \in Tab, r \in Report : page'[t].results[r] = "none"
  BY ClosedFacts
<1>3. \A t \in Tab : DOMAIN page'[t].todo = {}
  BY <1>1
<1>4. \A t \in Tab : Left(t)' = {}
  BY <1>3 DEF Left
<1>5. QED
  BY <1>1, <1>2, <1>3, <1>4 DEF Dealt, Covered

LEMMA TabInit == OperaInit => TabInv
<1> SUFFICES ASSUME OperaInit
             PROVE  TabInv
  OBVIOUS
<1>1. /\ \A t \in Tab : page[t].todo = <<>> /\ page[t].pc = "closed"
      /\ \A t \in Tab, r \in Report : page[t].results[r] = "none"
      /\ \A r \in Report : tmp[r] = NoFile
      /\ state.results = NoResults
  BY ClosedFacts DEF OperaInit, NoState
<1>2. \A t \in Tab : DOMAIN page[t].todo = {}
  BY <1>1
<1>3. \A t \in Tab : Left(t) = {}
  BY <1>2 DEF Left
<1>4. Dealt
  BY <1>1, <1>2, <1>3 DEF Dealt
<1>5. stage \notin Downloading
  <2>1. plan.phases \subseteq Phase
    BY DEF OperaInit
  <2>2. QED
    BY <2>1, Later DEF OperaInit, Downloading
<1>6. QED
  BY <1>1, <1>4, <1>5 DEF TabInv, Covered, TmpReady, OkIsNew, ResultsTrue

LEMMA TabPhases ==
  ASSUME OperaInv, Prepare \/ Unseeded \/ SkipDownload \/ Parse \/ Summarise
  PROVE  TabInv'
<1>1. UNCHANGED <<plan, browser>>
  BY DEF Prepare, Unseeded, SkipDownload, Parse, Summarise
<1>2. /\ stage \notin Downloading /\ stage' \notin Downloading
      /\ stage # "killed" /\ stage' # "killed"
  <2>1. plan.phases \subseteq Phase
    BY DEF OperaInv, OperaTypeOK
  <2>2. QED
    BY <2>1, Later DEF Prepare, Unseeded, SkipDownload, Parse, Summarise, Downloading
<1>3. Dealt' /\ TmpReady' /\ OkIsNew'
  <2>1. UNCHANGED <<page, disk, tmp>>
    BY <1>1 DEF browser
  <2>2. \A t \in Tab : Left(t)' = Left(t)
    BY <2>1 DEF Left
  <2>3. Dealt'
    BY <2>1, <2>2 DEF OperaInv, TabInv, Dealt
  <2>4. TmpReady' /\ OkIsNew'
    BY <2>1 DEF OperaInv, TabInv, TmpReady, OkIsNew
  <2>5. QED
    BY <2>3, <2>4
<1>4. Covered'
  BY <1>2 DEF Covered
<1>5. state'.results = state.results \/ state'.results = NoResults
  <2>1. CASE Prepare
    BY <2>1 DEF Prepare, NoState
  <2>2. CASE Unseeded
    BY <2>2 DEF Unseeded
  <2>3. CASE SkipDownload \/ Parse \/ Summarise
    <3>1. \E s \in State : Handed(s) /\ state'.results = s.results
      BY <2>3 DEF SkipDownload, Parse, Summarise, State
    <3>2. QED
      BY <3>1, HandedFacts DEF OperaInv
  <2>4. QED
    BY <2>1, <2>2, <2>3
<1>6. ResultsTrue'
  BY <1>1, <1>2, <1>5 DEF OperaInv, TabInv, ResultsTrue, browser
<1>7. QED
  BY <1>3, <1>4, <1>6 DEF TabInv

LEMMA TabOpens ==
  ASSUME AskedOnce, OperaInv, OpenBrowser \/ FallBack
  PROVE  TabInv'
<1>1. Dealt' /\ Covered'
  BY OpenDeals DEF OperaInv
<1>2. plan' = plan
  BY DEF OpenBrowser, FallBack
<1>3. \A t \in Tab, r \in Report : page'[t].pc \in {"open", "closed"} /\ page'[t].results[r] = "none"
  BY OpenedLists, ClosedFacts DEF OperaInv
<1>4. TmpReady' /\ OkIsNew'
  <2>1. \A t \in Tab : page'[t].pc \in {"open", "closed"}
    BY OpenedLists DEF OperaInv
  <2>2. QED
    BY <1>2, <1>3, <2>1 DEF OperaInv, TabInv, TmpReady, OkIsNew
<1>5. state'.results = NoResults
  BY NotYet DEF OperaInv, OpenBrowser, FallBack, Downloading
<1>6. QED
  BY <1>1, <1>4, <1>5 DEF TabInv, ResultsTrue

LEMMA TabCloses ==
  ASSUME OperaInv, Download \/ LoginFails \/ Kill
  PROVE  TabInv'
<1>1. /\ \A t \in Tab : page'[t] = Closed
      /\ plan' = plan
  BY DEF Download, LoginFails, Kill
<1>2. stage' \notin Downloading
  <2>1. plan.phases \subseteq Phase
    BY DEF OperaInv, OperaTypeOK
  <2>2. QED
    BY <2>1, Later DEF Download, LoginFails, Kill, Downloading
<1>3. /\ Dealt' /\ Covered' /\ TmpReady' /\ OkIsNew'
  BY <1>1, <1>2, ClosedTabs DEF OperaInv, TabInv, TmpReady, OkIsNew
<1>4. ResultsTrue'
  <2>1. CASE Download
    <3> SUFFICES ASSUME NEW i \in DOMAIN plan.reports
                 PROVE  LET r == plan.reports[i] IN
                          Joined[r] # "none" /\ (Joined[r] = "ok" => disk[r].new /\ Whole(disk[r]))
      BY <1>1, <2>1 DEF Download, ResultsTrue, OperaInv, OperaTypeOK, State, Whole
    <3> DEFINE r == plan.reports[i]
    <3>1. r \in Report
      <4>1. plan.reports \in Seq(Report)
        BY TabFacts DEF OperaInv, OperaTypeOK
      <4>2. QED
        BY <4>1, SeqFacts
    <3>2. stage \in Downloading /\ \A t \in Tab : page[t].pc \in {"ended", "closed"}
      BY <2>1 DEF Download, Downloading
    <3>3. \A t \in Tab : Left(t) = {}
      <4>1. \A t \in Tab : page[t].todo = <<>>
        BY <3>2 DEF OperaInv, StageInv, EndedIsDone
      <4>2. \A t \in Tab : DOMAIN page[t].todo = {}
        BY <4>1
      <4>3. QED
        BY <4>2 DEF Left
    <3>4. \E t \in Tab : page[t].results[r] # "none"
      BY <3>2, <3>3 DEF OperaInv, TabInv, Covered
    <3>5. Joined[r] # "none"
      BY <3>1, <3>4, JoinedFacts DEF OperaInv
    <3>6. \E t \in Tab : Joined[r] = page[t].results[r]
      BY <3>1, <3>5, JoinedFacts DEF OperaInv
    <3>7. Joined[r] = "ok" => disk[r].new /\ Whole(disk[r])
      BY <3>1, <3>6 DEF OperaInv, TabInv, OkIsNew
    <3>8. QED
      BY <3>5, <3>7
  <2>2. CASE LoginFails
    <3>1. state' = state /\ stage \in {"download"} \cup Downloading
      BY <2>2 DEF LoginFails, Downloading
    <3>2. state'.results = NoResults
      BY <3>1, NotYet DEF OperaInv
    <3>3. QED
      BY <3>2 DEF ResultsTrue
  <2>3. CASE Kill
    <3>1. state' = state /\ (disk' = disk \/ stage \in Downloading)
      <4>1. ASSUME NEW t \in Tab, page[t].pc = "move"
            PROVE  stage \in Downloading
        BY <4>1, ClosedFacts DEF OperaInv, StageInv, WhoIsOpen
      <4>2. QED
        BY <2>3, <4>1 DEF Kill
    <3>2. CASE disk' = disk
      BY <1>1, <3>1, <3>2 DEF OperaInv, TabInv, ResultsTrue, Whole
    <3>3. CASE stage \in Downloading
      <4>1. state'.results = NoResults
        BY <3>1, <3>3, NotYet DEF OperaInv
      <4>2. QED
        BY <4>1 DEF ResultsTrue
    <3>4. QED
      BY <3>1, <3>2, <3>3
  <2>4. QED
    BY <2>1, <2>2, <2>3
<1>5. QED
  BY <1>3, <1>4 DEF TabInv

\* The steps of a tab that leave its list as it is.
LEMMA TabWorks ==
  ASSUME OperaInv, NEW t \in Tab, OpenTab(t) \/ Search(t) \/ Arrives(t) \/ SaveTmp(t)
  PROVE  TabInv'
<1>1. /\ page \in [Tab -> Page] /\ page[t] \in Page
      /\ owed \in [Tab -> SUBSET Report] /\ tmp \in [Report -> File \cup {NoFile, Torn}]
  BY DEF OperaInv, OperaTypeOK
<1>2. /\ \A u \in Tab : page'[u].todo = page[u].todo /\ page'[u].results = page[u].results
      /\ \A u \in Tab \ {t} : page'[u] = page[u]
      /\ UNCHANGED <<plan, stage, state, disk>>
  <2>1. UNCHANGED <<plan, stage, state, disk>>
    BY DEF OpenTab, Search, Arrives, SaveTmp
  <2>2. CASE Search(t) \/ SaveTmp(t)
    <3>1. PICK q : page' = [page EXCEPT ![t].pc = q]
      BY <2>2 DEF Search, SaveTmp
    <3>2. QED
      BY <1>1, <2>1, <3>1 DEF Page
  <2>3. CASE OpenTab(t)
    <3>1. PICK q \in {"search", "raised"} : page' = [page EXCEPT ![t].pc = q]
      BY <2>3 DEF OpenTab
    <3>2. QED
      BY <1>1, <2>1, <3>1 DEF Page
  <2>4. CASE Arrives(t)
    <3>1. PICK f : page' = [page EXCEPT ![t].pc = "save", ![t].file = f]
      BY <2>4 DEF Arrives
    <3>2. QED
      BY <1>1, <2>1, <3>1 DEF Page
  <2>5. QED
    BY <2>2, <2>3, <2>4
<1>3. \A u \in Tab : Left(u)' = Left(u)
  BY <1>2 DEF Left
<1>4. Dealt'
  BY <1>2, <1>3 DEF OperaInv, TabInv, Dealt
<1>5. Covered' /\ OkIsNew' /\ ResultsTrue'
  BY <1>2, <1>3 DEF OperaInv, TabInv, Covered, OkIsNew, ResultsTrue
<1>6. TmpReady'
  <2>1. CASE OpenTab(t) \/ Search(t)
    <3>1. page'[t].pc \in {"search", "raised", "wait"} /\ tmp' = tmp
      BY <1>1, <2>1 DEF OpenTab, Search, Page
    <3>2. QED
      BY <1>2, <3>1 DEF OperaInv, TabInv, TmpReady
  <2>2. CASE Arrives(t)
    <3>1. page'[t].pc = "save" /\ page'[t].file.new /\ Whole(page'[t].file) /\ tmp' = tmp
      <4>1. PICK r \in owed[t] :
              page' = [page EXCEPT ![t].pc = "save", ![t].file = [of |-> r, new |-> TRUE]]
        BY <2>2 DEF Arrives
      <4>2. page'[t].pc = "save" /\ page'[t].file = [of |-> r, new |-> TRUE]
        BY <1>1, <4>1 DEF Page
      <4>3. r # None
        BY <1>1, OperaAssumption DEF OperaAssumption
      <4>4. QED
        BY <2>2, <4>2, <4>3 DEF Arrives, Whole
    <3>2. QED
      BY <1>2, <3>1 DEF OperaInv, TabInv, TmpReady
  <2>3. CASE SaveTmp(t)
    <3> DEFINE h == Head(page[t].todo)
    <3>1. page[t].pc = "save" /\ page'[t].pc = "move"
      BY <1>1, <2>3 DEF SaveTmp, Page
    <3>2. page[t].file.new /\ Whole(page[t].file)
      BY <3>1 DEF OperaInv, TabInv, TmpReady
    <3>3. h \in Report
      <4>1. page[t].todo \in Seq(Report) /\ page[t].todo # <<>>
        BY <1>1, <3>1 DEF OperaInv, OperaTypeOK, Page
      <4>2. QED
        BY <4>1, TailFacts
    <3>4. tmp'[h] = page[t].file /\ \A r \in Report \ {h} : tmp'[r] = tmp[r]
      BY <1>1, <2>3, <3>3 DEF SaveTmp
    <3>6. ASSUME NEW u \in Tab, page'[u].pc = "move"
          PROVE  tmp'[Head(page'[u].todo)].new /\ Whole(tmp'[Head(page'[u].todo)])
      <4>1. CASE Head(page[u].todo) = h
        BY <1>2, <3>2, <3>4, <4>1
      <4>2. CASE Head(page[u].todo) # h
        <5>1. u # t
          BY <4>2
        <5>2. /\ page'[u] = page[u] /\ page[u].pc = "move"
              /\ tmp[Head(page[u].todo)].new /\ Whole(tmp[Head(page[u].todo)])
          BY <1>2, <3>6, <5>1 DEF OperaInv, TabInv, TmpReady
        <5>3. Head(page[u].todo) \in Report
          <6>1. page[u].todo \in Seq(Report) /\ page[u].todo # <<>>
            BY <1>1, <3>6, <5>2 DEF OperaInv, OperaTypeOK, Page
          <6>2. QED
            BY <6>1, TailFacts
        <5>4. QED
          BY <3>4, <4>2, <5>2, <5>3
      <4>3. QED
        BY <4>1, <4>2
    <3> HIDE DEF h
    <3>7. \A u \in Tab : page'[u].pc = "save" => page'[u].file.new /\ Whole(page'[u].file)
      BY <1>2, <3>1 DEF OperaInv, TabInv, TmpReady
    <3>8. QED
      BY <3>6, <3>7 DEF TmpReady, Whole
  <2>4. QED
    BY <2>1, <2>2, <2>3
<1>7. QED
  BY <1>4, <1>5, <1>6 DEF TabInv

\* The steps of a tab that end its work on a report.
LEMMA TabEnds ==
  ASSUME OperaInv, NEW t \in Tab, Through(t)
  PROVE  /\ TabInv'
         /\ \A r \in Report : disk'[r] # disk[r] =>
              /\ tmp[r].new /\ Whole(tmp[r])
              /\ disk'[r] = tmp[r] \/ tmp'[r] = tmp[r]
<1> DEFINE h == Head(page[t].todo)
<1> USE DEF Through
<1>1. /\ disk \in [Report -> File \cup {NoFile, Torn}] /\ tmp \in [Report -> File \cup {NoFile, Torn}]
      /\ page \in [Tab -> Page]
  BY DEF OperaInv, OperaTypeOK
<1>2. page[t].pc \in Working /\ UNCHANGED <<plan, stage, state>>
  BY DEF SaveFails, MoveTmp, UnlinkFails, MoveFails, GivesUp, Working
<1>3. PICK res \in {"ok", "failed"} :
        /\ page' = NextReport(t, res)
        /\ res = "ok" => MoveTmp(t)
  BY DEF SaveFails, MoveTmp, UnlinkFails, MoveFails, GivesUp
<1>4. /\ h \in Report /\ page' \in [Tab -> Page]
      /\ \A u \in Tab \ {t} : page'[u] = page[u]
      /\ page'[t].pc \in {"ended", "search"}
      /\ \A r \in Report : page'[t].results[r] = IF r = h THEN res ELSE page[t].results[r]
  BY <1>2, <1>3, NextFacts DEF OperaInv
<1>5. h \in Left(t) /\ Dealt' /\ Covered'
  BY <1>2, <1>3, NextLists DEF OperaInv, TabInv
<1>6. \A u \in Tab \ {t} : page[u].pc = "move" => Head(page[u].todo) \in Report \ {h}
  <2> SUFFICES ASSUME NEW u \in Tab \ {t}, page[u].pc = "move"
               PROVE  Head(page[u].todo) \in Report \ {h}
    OBVIOUS
  <2>1. page[u].todo \in Seq(Report) /\ page[u].todo # <<>>
    BY <1>1 DEF OperaInv, OperaTypeOK, Page
  <2>2. /\ Head(page[u].todo) \in Report
        /\ 1 \in DOMAIN page[u].todo /\ Head(page[u].todo) = page[u].todo[1]
    BY <2>1, TailFacts
  <2>3. Head(page[u].todo) \in Left(u)
    BY <2>2 DEF Left
  <2> HIDE DEF h
  <2>4. Left(u) \cap Left(t) = {}
    BY DEF OperaInv, TabInv, Dealt
  <2>5. QED
    BY <1>5, <2>2, <2>3, <2>4
<1>7. \A u \in Tab : page[u].results[h] = "none"
  <2>1. \A u \in Tab : page[u].results[h] # "none" => h \notin Left(t)
    BY <1>4 DEF OperaInv, TabInv, Dealt
  <2>2. QED
    BY <1>5, <2>1
<1>8. /\ \A r \in Report \ {h} : disk'[r] = disk[r] /\ tmp'[r] = tmp[r]
      /\ page[t].pc = "move" \/ disk' = disk
      /\ disk' = disk \/ disk'[h] = tmp[h] \/ tmp'[h] = tmp[h]
      /\ MoveTmp(t) => page[t].pc = "move" /\ disk'[h] = tmp[h]
  <2>1. CASE SaveFails(t)
    BY <1>1, <1>4, <2>1 DEF SaveFails, MoveTmp
  <2>2. CASE MoveTmp(t)
    BY <1>1, <1>4, <2>2 DEF MoveTmp
  <2>3. CASE MoveFails(t)
    <3>1. PICK f : disk' = [disk EXCEPT ![h] = f]
      BY <2>3 DEF MoveFails, HalfMoved
    <3>2. page[t].pc = "move" /\ tmp' = tmp
      BY <2>3 DEF MoveFails
    <3> HIDE DEF h
    <3>3. CASE MoveTmp(t)
      BY <2>2, <3>3
    <3>4. QED
      BY <1>1, <3>1, <3>2, <3>3
  <2>4. CASE UnlinkFails(t) \/ GivesUp(t)
    <3>1. disk' = disk /\ tmp' = tmp
      BY <2>4 DEF UnlinkFails, GivesUp
    <3>2. QED
      BY <2>2, <3>1
  <2>5. QED
    BY <2>1, <2>2, <2>3, <2>4
<1>9. page[t].pc = "move" => tmp[h].new /\ Whole(tmp[h])
  BY DEF OperaInv, TabInv, TmpReady
<1> HIDE DEF h
<1>10. TmpReady'
  <2>1. \A u \in Tab : page'[u].pc = "save" => page'[u].file.new /\ Whole(page'[u].file)
    BY <1>4 DEF OperaInv, TabInv, TmpReady
  <2>2. ASSUME NEW u \in Tab, page'[u].pc = "move"
        PROVE  tmp'[Head(page'[u].todo)].new /\ Whole(tmp'[Head(page'[u].todo)])
    <3>1. u # t /\ page'[u] = page[u] /\ page[u].pc = "move"
      BY <1>4, <2>2
    <3>2. tmp[Head(page[u].todo)].new /\ Whole(tmp[Head(page[u].todo)])
      BY <3>1 DEF OperaInv, TabInv, TmpReady
    <3>3. tmp'[Head(page[u].todo)] = tmp[Head(page[u].todo)]
      BY <1>6, <1>8, <3>1
    <3>4. QED
      BY <3>1, <3>2, <3>3
  <2>3. QED
    BY <2>1, <2>2 DEF TmpReady, Whole
<1>11. OkIsNew'
  <2> SUFFICES ASSUME NEW u \in Tab, NEW r \in Report, page'[u].results[r] = "ok"
               PROVE  disk'[r].new /\ Whole(disk'[r])
    BY DEF OkIsNew, Whole
  <2>1. CASE r = h
    <3>1. u = t /\ res = "ok"
      BY <1>4, <1>7, <2>1
    <3>2. QED
      BY <1>3, <1>8, <1>9, <2>1, <3>1
  <2>2. CASE r # h
    <3>1. page[u].results[r] = "ok"
      BY <1>4, <2>2
    <3>2. disk[r].new /\ Whole(disk[r])
      BY <3>1 DEF OperaInv, TabInv, OkIsNew
    <3>3. QED
      BY <1>8, <2>2, <3>2
  <2>3. QED
    BY <2>1, <2>2
<1>12. ResultsTrue'
  <2>1. state'.results = NoResults
    BY <1>2, StageTabs, NotYet DEF OperaInv, TabStep, DownloadStep, Downloading
  <2>2. QED
    BY <2>1 DEF ResultsTrue
<1>13. ASSUME NEW r \in Report, disk'[r] # disk[r]
       PROVE  tmp[r].new /\ Whole(tmp[r]) /\ (disk'[r] = tmp[r] \/ tmp'[r] = tmp[r])
  BY <1>8, <1>9, <1>13
<1>14. QED
  BY <1>5, <1>10, <1>11, <1>12, <1>13 DEF TabInv

LEMMA OperaStep == AskedOnce /\ OperaInv /\ [OperaNext]_operaVars => OperaInv'
<1> SUFFICES ASSUME AskedOnce, OperaInv, [OperaNext]_operaVars
             PROVE  OperaInv'
  OBVIOUS
<1>1. OperaTypeOK' /\ StageInv'
  BY OperaTypeStep, StageStep DEF OperaInv
<1>2. CASE Advance
  BY <1>1, <1>2, TabPhases, TabOpens, TabCloses DEF Advance, OperaInv
<1>3. CASE LoginFails \/ Kill
  BY <1>1, <1>3, TabCloses DEF OperaInv
<1>4. CASE \E t \in Tab : TabStep(t) \/ DownloadStep(t)
  BY <1>1, <1>4, TabWorks, TabEnds DEF TabStep, DownloadStep, Through, OperaInv
<1>5. CASE UNCHANGED operaVars
  <2>1. UNCHANGED <<plan, stage, state, page, disk, tmp>>
    BY <1>5 DEF operaVars
  <2>2. Dealt' /\ Covered'
    <3>1. \A t \in Tab : Left(t)' = Left(t)
      BY <2>1 DEF Left
    <3>2. Dealt'
      BY <2>1, <3>1 DEF OperaInv, TabInv, Dealt
    <3>3. Covered'
      BY <2>1, <3>1 DEF OperaInv, TabInv, Covered
    <3>4. QED
      BY <3>2, <3>3
  <2>3. TmpReady' /\ OkIsNew' /\ ResultsTrue'
    BY <2>1 DEF OperaInv, TabInv, TmpReady, OkIsNew, ResultsTrue
  <2>4. QED
    BY <1>1, <2>2, <2>3 DEF OperaInv, TabInv
<1>6. QED
  BY <1>2, <1>3, <1>4, <1>5 DEF OperaNext

LEMMA OperaInvariance == ASSUME AskedOnce PROVE OperaSpec => []OperaInv
<1>1. OperaInit => OperaInv
  BY OperaTypeInit, StageInit, TabInit DEF OperaInv
<1>2. OperaInv /\ [OperaNext]_operaVars => OperaInv'
  BY OperaStep
<1>3. QED
  BY <1>1, <1>2, PTL DEF OperaSpec

\* The results handed on are true of the files: an "ok" is a file of this Run
\* in its place, and every report asked for has a result, even when a tab broke
\* in the middle and another took over (download_reports).
THEOREM DownloadsAreTrue == ASSUME AskedOnce PROVE OperaSpec => []ResultsTrue
<1>1. OperaInv => ResultsTrue
  BY DEF OperaInv, TabInv
<1>2. QED
  BY <1>1, OperaInvariance, PTL

\* No two tabs are ever about the same report, so that none deletes or replaces
\* what the other is saving (_chunk_specs).
THEOREM TabsKeepApart == ASSUME AskedOnce PROVE OperaSpec => []OneWriter
<1>1. OperaInv => OneWriter
  <2> SUFFICES ASSUME OperaInv, NEW t \in Tab, NEW u \in Tab, t # u,
                      NEW k \in DOMAIN page[t].todo, NEW l \in DOMAIN page[u].todo
               PROVE  page[t].todo[k] # page[u].todo[l]
    BY DEF OneWriter
  <2>1. page[t].todo[k] \in Left(t) /\ page[u].todo[l] \in Left(u)
    BY DEF Left
  <2>2. QED
    BY <2>1 DEF OperaInv, TabInv, Dealt
<1>2. QED
  BY <1>1, OperaInvariance, PTL

\* A kill in the middle of a move leaves what was to be moved, for the copies it
\* breaks off are those of other reports.
LEMMA KilledMoving ==
  ASSUME OperaInv, Kill, NEW t \in Tab, page[t].pc = "move", HalfMoved(Head(page[t].todo)),
         NEW r \in Report, disk'[r] # disk[r]
  PROVE  tmp[r].new /\ Whole(tmp[r]) /\ tmp'[r] = tmp[r]
<1> DEFINE h == Head(page[t].todo)
<1>1. disk \in [Report -> File \cup {NoFile, Torn}] /\ page \in [Tab -> Page]
  BY DEF OperaInv, OperaTypeOK
<1>2. r = h
  <2>1. PICK f : disk' = [disk EXCEPT ![h] = f]
    BY DEF HalfMoved
  <2> HIDE DEF h
  <2>2. QED
    BY <1>1, <2>1
<1>3. tmp[r].new /\ Whole(tmp[r])
  BY <1>2 DEF OperaInv, TabInv, TmpReady
<1>4. \A u \in Tab : page[u].pc \in {"save", "move"} => Head(page[u].todo) \in Left(u)
  <2> SUFFICES ASSUME NEW u \in Tab, page[u].pc \in {"save", "move"}
               PROVE  Head(page[u].todo) \in Left(u)
    OBVIOUS
  <2>1. page[u].todo \in Seq(Report) /\ page[u].todo # <<>>
    BY <1>1 DEF OperaInv, OperaTypeOK, Page
  <2>2. QED
    BY <2>1, TailFacts DEF Left
<1>5. \A u \in Tab : page[u].pc = "save" => Head(page[u].todo) # h
  <2> SUFFICES ASSUME NEW u \in Tab, page[u].pc = "save"
               PROVE  Head(page[u].todo) # h
    OBVIOUS
  <2>1. h \in Left(t) /\ Head(page[u].todo) \in Left(u) /\ u # t
    BY <1>4
  <2>2. Left(u) \cap Left(t) = {}
    BY <2>1 DEF OperaInv, TabInv, Dealt
  <2> HIDE DEF h
  <2>3. QED
    BY <2>1, <2>2
<1>6. PICK torn \in SUBSET {u \in Tab : page[u].pc = "save"} :
        tmp' = [q \in Report |-> IF \E u \in torn : Head(page[u].todo) = q THEN Torn ELSE tmp[q]]
  BY DEF Kill, CopiesBreakOff
<1>7. tmp'[r] = tmp[r]
  <2>1. ~ \E u \in torn : Head(page[u].todo) = r
    BY <1>2, <1>5
  <2>2. QED
    BY <1>6, <2>1
<1>8. QED
  BY <1>3, <1>7

\* A file of the input folder gives way only to a whole file of this Run that is
\* in its place afterwards or still beside it, although removals, moves and
\* copies fail and the Job is killed in the middle (download_one_report).
THEOREM SuccessorsSurvive == ASSUME AskedOnce PROVE OperaSpec => SuccessorSurvives
<1> DEFINE Kept(r) == disk'[r] # disk[r] =>
             tmp[r].new /\ Whole(tmp[r]) /\ (disk'[r] = tmp[r] \/ tmp'[r] = tmp[r])
<1>1. ASSUME OperaInv, [OperaNext]_operaVars, NEW r \in Report
      PROVE  Kept(r)
  <2>1. CASE Advance \/ LoginFails \/ UNCHANGED operaVars
    <3>1. disk' = disk
      BY <2>1 DEF Advance, LoginFails, Prepare, Unseeded, SkipDownload, OpenBrowser, Download,
                  FallBack, Parse, Summarise, operaVars, browser
    <3>2. QED
      BY <3>1
  <2>2. CASE Kill
    <3>1. CASE disk' = disk
      BY <3>1
    <3>2. ASSUME NEW t \in Tab, page[t].pc = "move", HalfMoved(Head(page[t].todo))
          PROVE  Kept(r)
      BY <1>1, <2>2, <3>2, KilledMoving
    <3>3. QED
      BY <2>2, <3>1, <3>2 DEF Kill
  <2>3. ASSUME NEW t \in Tab, TabStep(t) \/ DownloadStep(t)
        PROVE  Kept(r)
    <3>1. CASE Through(t)
      BY <1>1, <3>1, TabEnds
    <3>2. CASE OpenTab(t) \/ Search(t) \/ Arrives(t) \/ SaveTmp(t)
      BY <3>2 DEF OpenTab, Search, Arrives, SaveTmp
    <3>3. QED
      BY <2>3, <3>1, <3>2 DEF TabStep, DownloadStep, Through
  <2>4. QED
    BY <1>1, <2>1, <2>2, <2>3 DEF OperaNext
<1>2. OperaInv /\ [OperaNext]_operaVars =>
        [\A r \in Report : disk'[r] # disk[r] =>
           /\ tmp[r].new /\ Whole(tmp[r])
           /\ disk'[r] = tmp[r] \/ tmp'[r] = tmp[r]]_operaVars
  BY <1>1
<1>3. OperaSpec => [][OperaNext]_operaVars
  BY PTL DEF OperaSpec
<1>4. QED
  BY <1>2, <1>3, OperaInvariance, PTL DEF SuccessorSurvives

=============================================================================
