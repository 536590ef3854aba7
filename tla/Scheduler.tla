----------------------------- MODULE Scheduler -----------------------------
(***************************************************************************)
(* The hub's schedules and the tickers that fire them: one ticker thread   *)
(* in every hub process on the database.  A tick is one transaction: it    *)
(* locks the due rows nobody else has locked, creates an Assignment for    *)
(* each, moves each schedule on, and commits or rolls all of it back.      *)
(*                                                                         *)
(* Time is an event: FallDue makes a schedule due.  occasions counts how   *)
(* often a schedule fell due, up to MaxOccasions.                          *)
(***************************************************************************)
EXTENDS Catalogue

CONSTANTS
  Schedule,       \* names of schedules
  Ticker,         \* ticker threads
  MaxOccasions,   \* bound: how often a schedule falls due
  MaxDeaths       \* bound: how often hub processes end

Timing == {"interval", "daily"}

ScheduleRow == [enabled : BOOLEAN, timing : Timing, ident : Ident]

ASSUME SchedulerAssumption ==
  /\ MaxOccasions \in Nat \ {0} /\ MaxDeaths \in Nat
  /\ None \notin ScheduleRow

VARIABLES
  sched,      \* the committed rows: a record, or None
  due,        \* schedules whose next_run_at has come
  todo,       \* schedules a tick has locked and still has to handle
  drafts,     \* Assignments a tick has inserted: pairs of schedule and hash
  passed,     \* schedules a tick has locked and moved on
  launched,   \* history: committed Assignments of a schedule: the occasion, the
              \* hash, and the ticker
  skips,      \* history: occasions of a schedule that created nothing
  occasions,  \* history: how often a schedule fell due
  deaths

tickVars == <<todo, drafts, passed>>
histVars == <<launched, skips, occasions>>
schedVars == <<sched, due, tickVars, histVars, deaths>>
schedulerVars == <<catVars, schedVars>>

SchedTypeOK ==
  /\ CatTypeOK
  /\ sched \in [Schedule -> {None} \cup ScheduleRow]
  /\ due \subseteq Schedule
  /\ todo \in [Ticker -> SUBSET Schedule]
  /\ drafts \in [Ticker -> SUBSET (Schedule \X Hash)]
  /\ passed \in [Ticker -> SUBSET Schedule]
  /\ launched \in [Schedule -> SUBSET ((1..MaxOccasions) \X Hash \X Ticker)]
  /\ skips \in [Schedule -> SUBSET (1..MaxOccasions)]
  /\ occasions \in [Schedule -> 0..MaxOccasions]
  /\ deaths \in 0..MaxDeaths

SchedInit ==
  /\ CatInit
  /\ sched = [s \in Schedule |-> None]
  /\ due = {}
  /\ todo = [k \in Ticker |-> {}]
  /\ drafts = [k \in Ticker |-> {}]
  /\ passed = [k \in Ticker |-> {}]
  /\ launched = [s \in Schedule |-> {}]
  /\ skips = [s \in Schedule |-> {}]
  /\ occasions = [s \in Schedule |-> 0]
  /\ deaths = 0

Here == {s \in Schedule : sched[s] # None}
Enabled == {s \in Here : sched[s].enabled}
Rows(n) == {h \in Hash : release[h] = n}

\* validate_schedule_template: the release is there and its blob can be read.
TemplateValid(n) == \E h \in Rows(n) : blob[h] = "whole"

\* POST /v1/schedules validates; schedule create does so only with --data.  A
\* new row is due at once.  (A name in use is refused, and so is an occasion
\* above the bound.)
CreateSchedule(s, n, timing, checked) ==
  /\ sched[s] = None
  /\ occasions[s] < MaxOccasions
  /\ checked => TemplateValid(n)
  /\ sched' = [sched EXCEPT ![s] = [enabled |-> TRUE, timing |-> timing, ident |-> n]]
  /\ due' = due \cup {s}
  /\ occasions' = [occasions EXCEPT ![s] = @ + 1]
  /\ UNCHANGED <<catVars, tickVars, launched, skips, deaths>>

\* A tick's transaction has the row locked.
Locked(s) == \E k \in Ticker : s \in todo[k] \cup passed[k]

\* Mutant of MayUpdate: the UPDATE does not wait.
MayUpdateNow(s) == TRUE

\* UPDATE and DELETE wait for a tick that has the row locked.
MayUpdate(s) == ~Locked(s)

SetEnabled(s, on) ==
  /\ s \in Here
  /\ MayUpdate(s)
  /\ sched' = [sched EXCEPT ![s].enabled = on]
  /\ UNCHANGED <<catVars, due, tickVars, histVars, deaths>>

DeleteSchedule(s) ==
  /\ s \in Here
  /\ ~Locked(s)
  /\ sched' = [sched EXCEPT ![s] = None]
  /\ due' = due \ {s}
  /\ skips' = [skips EXCEPT ![s] = @ \cup (IF s \in due THEN {occasions[s]} ELSE {})]
  /\ UNCHANGED <<catVars, tickVars, launched, occasions, deaths>>

FallDue(s) ==
  /\ s \in Here \ due
  /\ occasions[s] < MaxOccasions
  /\ due' = due \cup {s}
  /\ occasions' = [occasions EXCEPT ![s] = @ + 1]
  /\ UNCHANGED <<catVars, sched, tickVars, launched, skips, deaths>>

\* Mutant of Takes: the rows are selected without FOR UPDATE SKIP LOCKED.
TakesAll(s) == TRUE

Takes(s) == ~Locked(s)

\* The SELECT of fire_due_schedules.
TickBegins(k) ==
  /\ todo[k] = {} /\ passed[k] = {}
  /\ LET mine == {s \in Enabled \cap due : Takes(s)} IN
       /\ mine # {}
       /\ todo' = [todo EXCEPT ![k] = mine]
  /\ UNCHANGED <<catVars, sched, due, drafts, passed, histVars, deaths>>

RolledBack(k) ==
  /\ todo' = [todo EXCEPT ![k] = {}]
  /\ drafts' = [drafts EXCEPT ![k] = {}]
  /\ passed' = [passed EXCEPT ![k] = {}]

\* Mutant of Advances: the StoreError of an unknown release is not caught.
AdvancesKnown(s) == sched[s].timing = "interval" /\ Rows(sched[s].ident) # {}

\* _advance_schedule unpacks str(daily) at the colon into hours and minutes; the
\* column is a TIME, which prints as HH:MM:SS, so that raises.
Advances(s) == sched[s].timing = "interval"

\* One schedule of the tick: enqueue resolves the release in the catalogue as
\* committed now, and an unknown one is skipped; either way the row moves on.
TickSchedule(k, s) ==
  /\ s \in todo[k]
  /\ Advances(s)
  /\ LET found == Rows(sched[s].ident) IN
       drafts' = [drafts EXCEPT ![k] = @ \cup ({s} \X found)]
  /\ todo' = [todo EXCEPT ![k] = @ \ {s}]
  /\ passed' = [passed EXCEPT ![k] = @ \cup {s}]
  /\ UNCHANGED <<catVars, sched, due, histVars, deaths>>

\* Anything else that raises ends the tick: the ticker prints the error, and
\* the transaction is gone.
TickRaises(k, s) ==
  /\ s \in todo[k]
  /\ ~Advances(s)
  /\ RolledBack(k)
  /\ UNCHANGED <<catVars, sched, due, histVars, deaths>>

HashesFor(k, s) == {h \in Hash : <<s, h>> \in drafts[k]}

\* conn.commit(): Assignments and new due times together.
TickCommits(k) ==
  /\ todo[k] = {} /\ passed[k] # {}
  /\ due' = due \ passed[k]
  /\ launched' = [s \in Schedule |->
       launched[s] \cup (IF s \in passed[k] THEN {occasions[s]} \X HashesFor(k, s) \X {k} ELSE {})]
  /\ skips' = [s \in Schedule |->
       skips[s] \cup (IF s \in passed[k] /\ HashesFor(k, s) = {} THEN {occasions[s]} ELSE {})]
  /\ RolledBack(k)
  /\ UNCHANGED <<catVars, sched, occasions, deaths>>

\* The hub's processes end; every transaction rolls back.
HubDies ==
  /\ deaths < MaxDeaths
  /\ deaths' = deaths + 1
  /\ CatDies
  /\ todo' = [k \in Ticker |-> {}]
  /\ drafts' = [k \in Ticker |-> {}]
  /\ passed' = [k \in Ticker |-> {}]
  /\ UNCHANGED <<sched, due, histVars>>

TickStep(k) ==
  TickBegins(k) \/ TickCommits(k) \/ \E s \in Schedule : TickSchedule(k, s) \/ TickRaises(k, s)

SchedNext ==
  \/ CatNext /\ UNCHANGED schedVars
  \/ \E s \in Schedule :
       \/ \E n \in Ident, timing \in Timing, checked \in BOOLEAN :
            CreateSchedule(s, n, timing, checked)
       \/ \E on \in BOOLEAN : SetEnabled(s, on)
       \/ DeleteSchedule(s) \/ FallDue(s)
  \/ \E k \in Ticker : TickStep(k)
  \/ HubDies

\* The ticker thread loops for as long as its process lives.
SchedSpec == SchedInit /\ [][SchedNext]_schedulerVars
             /\ \A k \in Ticker : WF_schedulerVars(TickStep(k))

-----------------------------------------------------------------------------
(* Properties *)

\* "Create one Assignment per due schedule": whatever the tickers, rollbacks
\* and registrations do, the occasions of a schedule that are over are those
\* that created exactly one Assignment and those that were skipped; the one it
\* is due for has created nothing yet.
OncePerOccasion ==
  \A s \in Schedule :
    LET ran == {x[1] : x \in launched[s]} IN
      /\ Cardinality(ran) = Cardinality(launched[s])
      /\ ran \cap skips[s] = {}
      /\ ran \cup skips[s] = (1..occasions[s]) \ (IF s \in due THEN {occasions[s]} ELSE {})

\* An Assignment a schedule creates is for the hash the catalogue gives the
\* release of that schedule, and a schedule that was disabled or deleted
\* creates none: the row lock keeps the operator out until the tick has ended.
FiresWhatIsSet ==
  [][\A s \in Schedule : \A x \in launched'[s] \ launched[s] :
       s \in Enabled /\ release[x[2]] = sched[s].ident]_schedulerVars

\* An enabled interval schedule that is due is fired or skipped in the end,
\* unless an enabled daily schedule is due too: that one fails every tick that
\* takes it, and takes the others of the tick with it.
IntervalsFire ==
  \A s \in Schedule :
    (s \in due /\ s \in Enabled /\ sched[s].timing = "interval")
      ~> (s \notin due \/ s \notin Enabled
          \/ \E d \in due \cap Enabled : sched[d].timing = "daily")

\* "Timing is interval_seconds OR daily_utc (HH:MM UTC)": an enabled daily
\* schedule that is due is fired or skipped in the end, too.
DailiesFire ==
  \A s \in Schedule :
    (s \in due /\ s \in Enabled /\ sched[s].timing = "daily")
      ~> (s \notin due \/ s \notin Enabled)
=============================================================================
