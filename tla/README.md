# A verification of coreme: hub, agents, and the Runs, ships and repairs of a Job

coreme freezes Jobs into Releases and runs them; a fleet of `coreme-agent`
daemons claims Assignments from a `coreme-hub` (HTTP over PostgreSQL), runs
them with the kernel and sends results and evidence back; on one machine, a
local queue does the same without a hub. This directory holds TLA+ modules
translated from that code, TLC configurations that check them on small
instances, and TLAPS proofs for every value of their constants.

Paths below are relative to the repository's `src/` (`coreme_hub/store.py` and
so on), or named by their file alone where that is unique. Run things here: `tlc -config X.cfg M` for a run, `tlapm M.tla` for proofs.

## 1. Inventory

| Component | State it keeps | Operations | Interacts with | What is hard |
|---|---|---|---|---|
| Hub assignment store (`store.py`, `db.py`) | tables `assignments`, `attempts`, `machines`; evidence zips on disk | heartbeat, set_machine_drained, create_assignment/enqueue, claim, renew, complete, put_evidence, prune_old | every agent, through the HTTP handlers; operators | concurrent transactions, leases that lapse, late and repeated calls, two tables and the disk kept in step |
| Resident agent (`daemon.py`, `hub_worker.py`) | `_active`, worker threads, a renewer per attempt | claim loop, dispatch, run, renew, heartbeat, drain | the hub; the outbox; the kernel as a subprocess | slots, lost requests and replies, a lease that lapses under a running Job, crash and stop |
| Outbox (`outbox.py`) | one directory per attempt: `payload.json`, `evidence.zip` | write, load, flush, mark sent, delete | worker and main thread share it; survives crashes | a crash between any two writes, a repeated complete, two threads on one item |
| Daemon lock (`daemon.py:58-78`) | the file `daemon.lock` | acquire, release | other daemon processes | create and write are two steps, read and unlink are two steps, stale files |
| Connection pool (`db.py:180-251`) | `_idle`, `_size`, `_lock` | checkout, validate, check in, discard | all HTTP threads and the ticker | a limit under concurrency, connects that raise, blocked threads |
| HTTP API (`http.py`) | none of its own | one transaction per handler, 404/409/413 answers | agents, operators | body limit; an answer the agent must tell apart |
| Release catalogue (`store.py:473-623`, `blobs.py`) | table `releases`, blobs on disk | register_tree, register_zip, upsert_release, resolve | enqueue, agents' pulls | check-then-insert, blob before row, one partial file per hash |
| Scheduler (`store.py:868-1070`, `http.py:508-521`) | table `schedules` | create, enable, disable, delete, fire_due_schedules | the catalogue, enqueue; one ticker per hub | a tick that rolls back, several hubs on one database |
| Enrollment (`store.py:83-181`, agent `hub.py:72-117`) | table `enroll_tokens` | create, redeem, revoke | new agents | one-time token, reply lost after redemption |
| Release cache (`cache.py`) | `cache/<hash>` trees | resolve_release | slots of one agent share it | two slots on one `.partial` directory |
| Local queue (`coreme_agent/store.py`, `worker.py`) | SQLite tables | enqueue, claim_next, complete | local workers, the kernel | several workers, a worker that dies after claiming |
| Executor (`executor.py`, `_process.py`) | none between calls | execute_assignment | kernel subprocess | result frame against exit code, timeouts, what outlives a kill |
| Kernel runner (`runner.py`, `events.py`) | the run directory | run_job | Job subprocess | two Runs in one second, order of the evidence files |
| Ship (`ship.py`, `release.py`, `resolve.py`) | `releases/` | ship_job, verify_release, find_latest_release | other ships, the author, repairs | stage and rename, a source that changes under the copy |
| Repair (`repair.py`, `repair_spawn.py`) | `repair.json`, `events.jsonl`, the repaired source | execute_repair, spawn | the runner, ships, an external coding agent | two repairs of one Run, a Codex that outlives its repair |
| Example Job daily-summary (`examples/daily-summary`) | its phase state, the input and output folders | prepare, download, parse, report | a remote site through browser tabs | tabs that break, downloads that come late |
| Manifest, inputs, CLI, presentation, doctor, init, docs | none | parse, format, scaffold | users | nothing concurrent and nothing persistent |
| Other example Jobs, service units, compose file | none shared | scripts that run from top to bottom | none | nothing |

What makes each correct, in short. Store: one runner and one result per
Assignment, fenced by attempt id; tables that agree; evidence that can be
served while its row says so. Agent: nothing runs twice, no result or evidence
is dropped, everything pending ends. Lock: one daemon per workspace, and no
crash locks everybody out. Pool: no connection shared, no limit broken, no
capacity lost. Catalogue: a name and version is one hash for ever, with a blob
behind it. Enrollment: one machine per token, and a host's credentials are ones
the hub knows. Scheduler: one Assignment per occasion. Cache: a Job runs the
whole release. Runner: a folder belongs to one Run, and `run.json` seals it.
Queue: a row says what the folder says, and no Job is left running. Ship: a
release is a proved tree and never changes. Repair: what is announced is
answered. daily-summary: results say what is on disk. `PROJECT.json` lists each hazard at its line with the property
that covers it, or the reason why none does yet.

## 2. Modules

| Module | Models | Notes |
|---|---|---|
| `AssignmentLedger` | what the hub promises about an Assignment | abstract: submit, grant, settle, withdraw |
| `HubStore` | the store's transactions over the three tables and the evidence files | refines `AssignmentLedger` |
| `Fleet` | agents against the hub: extends `HubStore`, conjoins its actions with the agent's | the composition |
| `Catalogue` | registrations: blobs, the two SELECTs, the INSERT, the commit | |
| `Scheduler` | schedules, and tickers that fire them | extends `Catalogue`, whose rows a tick resolves |
| `Enroll` | tokens, redemptions, replies, `agent.toml` | |
| `ConnPool` | the pool, one action per step between locks | |
| `DaemonLock` | the lock file, one action per system call | |
| `ReleaseCache` | `resolve_release` by several slots, one action per change of a directory | |
| `RunFolder` | `coreme run` from its checks to its exit status | |
| `LocalRun` | the local queue, its workers and the executor | extends `RunFolder`, whose processes it starts |
| `Ship` | `coreme ship` under edits and other ships | |
| `Repair` | `coreme repair --exec` and `--auto-repair` | extends `Ship`: they share the Job's folder |
| `Opera` | the example Job daily-summary: phases, tabs, files | |
| `HubStoreProofs`, `FleetProofs`, `LocalRunProofs`, `RepairProofs`, `OperaProofs` | theorems of the module they are named after | `FleetProofs` rests on `HubStoreProofs`; `RepairProofs` also has those of `Ship`, `LocalRunProofs` those of `RunFolder` |
| `SchedulerProofs` | theorems of `Catalogue` and of `Scheduler` | |
| `HubPartsProofs` | theorems of `ConnPool` and `Enroll` | |
| `AgentHomeProofs` | theorems of `DaemonLock` and `ReleaseCache` | |
| `MCHubStore`, `MCFleet`, `MCLocalRun`, `MCOpera` | values for constants, symmetry | |
| `MCHubParts`, `MCAgentHome` | parts that share no state, checked in one run | `focus` says which of them a behaviour is about |

### HubStore and the code

Each column that a guard or a property reads is a variable. `status`,
`claimed_by`, `attempt_id` are the columns of `assignments`; `att_status`,
`att_asg`, `att_machine`, `evidence` those of `attempts`; `known`, `drained`,
`tags`, `running` those of `machines`. A row that is not there has status
`"absent"`, an attempt that prune removed is `"deleted"`. `files` is the set of
evidence zips on disk.

PostgreSQL runs the handlers at READ COMMITTED. A handler that is one guarded
UPDATE, or whose first UPDATE locks the row that all its other writes belong
to, is one action (`Renew`, `Complete`, `Heartbeat`, `Enqueue`, `Prune`). Two
are not:

* `claim` reads the machine row (`ClaimRead`), picks and locks a row with
  `FOR UPDATE SKIP LOCKED` (`ClaimPick`, or `ClaimNone`), and updates three
  tables and commits (`ClaimCommit`), or rolls back (`ClaimAbort`). While a
  claim holds the row, `Renew` and `Complete` of it wait (`~Locked(a)`).
* `put_evidence` reads the fence without a lock (`UploadCheck`), writes the zip
  (`UploadWrite`), updates the attempts row by id and commits (`UploadCommit`),
  or is cut off (`UploadAbort`).

`prune_old` deletes rows and files before its caller commits; `PruneAbort` is
the case where the commit fails. A client may send any renew, complete or
upload of any attempt at any time, and again (`ClientCall`): late, duplicated
and reordered requests need no queue of messages. Names are aliases, so
`Complete` is always applied to `Normal(st)`, which is `COMPLETE_ALIASES`.

Time is relative. `lease[a]` is `lease_until - now()`, `age[a]` is
`now() - finished_at`, and `Tick` moves both; they stop at the first value
beyond which no guard can tell the difference, so that the state space is finite.

### Fleet and the code

`main[m]` says where the loop of `Daemon.run` is; `step[t]` where a thread is in
`execute_claimed` and `flush_item`. The main thread of a machine and the worker
of an attempt run the same `flush_item` actions (`CompleteAccepted`,
`CompleteBreaks`, `CompleteUnknown`, `CompleteRefused`, `MarkSent`,
`PutEvidence`, ..., `DeleteSent`): `Returns` and `Raises` say what each of them
does afterwards. `box` and `zip` are the files of an outbox item and survive
`Crash` and `Exit`. `todo` is the list `flush_outbox` has loaded, each item with
the `complete_sent` and the evidence path it was loaded with, which may be stale
by the time the item is flushed.

A message that is lost is lost before or after the hub acted on it:
`CompleteBreaks` and `RenewEnds` have both outcomes; `ClaimLost` leaves the
claim running at the hub, where `ClaimUnheard` commits it for nobody. A crash
during a write of `payload.json` leaves the old file, the new one, or, when
`MayTear` is set, a truncated one, which makes `load_pending` raise.

A daemon that ends takes its threads with it, and not always its Jobs. On
Windows `coreme run` is in a job object that closes with the daemon; on POSIX it
has a session of its own (`executor.py:315`), and so has the Job, so that a
worker that was running is `"done"` or `"left"` afterwards (`Outlives`; a
service manager may still kill what was left, which is `"done"`). `LeftEnds` is
the end of such a Job. Nobody renews its lease and nobody reads its result:
`Executing` is a Job with or without its worker. `Windows` says which of the
two platforms a run is about.

Simplifications, each at most as permissive as said. One claim and one upload
is open per machine. Deleting an item is one step (in the code, two threads
that delete the same item at once may see each other's `unlink`; one of them
raises instead of returning). Pulling the release and running the Job is one
step that ends in every way it can. A large zip is one that the hub's
`max_body` refuses. The machine loop ends an iteration on the errors it catches;
an exception it does not catch ends the process, which is `Crash`.

### DaemonLock and ConnPool

`DaemonLock` has one action per system call of `acquire_lock`: `Create` and
`WritePid`, `ReadPid`, `Refuse` or `JudgeStale`, `UnlinkStale`. A process can
die at any point. Pids are not reused. `overlap` is a history variable: a daemon
was started while another one was still inside `acquire_lock`.

`ConnPool` has one action per stretch of code that runs under one lock, or
under none. `leaked` is a history variable that counts connects that raised.
`_idle` is a set: nothing depends on its LIFO order.

### Catalogue, Enroll and Scheduler and the code

`Catalogue` follows one registration per client. `write_bytes` empties the file
`<hash>.zip.partial` (`OpenPartial`), fills it (`WritePartial`, `WriteFails`), and
`replace` renames it (`PutBlob`, or `PutBlobFails` when another registration of
the same bytes has renamed it away). A writer keeps the file it has opened when
somebody renames it: `handle` says where that file is by then. `upsert_release`
asks for the name (`CheckName`), for the hash (`CheckHash`) and inserts
(`Insert`); the key and the unique index make an INSERT wait for a clashing
transaction and fail when that one has committed. `Commit` is the row and the
answer. `CatDies` is the end of the hub's process. Unpacking and verifying what
a client sends happens aside, before `OpenPartial`, and refuses or does not.

`Enroll` has the redemption as the two steps its row lock makes of it:
`LockToken` (the SELECT FOR UPDATE and the checks), `Mint` (the machine, the used
token, the commit). Credentials are named after the request that made them. A
request travels by itself, so that its reply may come when the command that
asked has given up (`GivesUp`) or died. `agent.toml` is emptied before it is
written.

`Scheduler` adds rows of `schedules` and ticker threads to `Catalogue`. A tick
locks its rows (`TickBegins`: FOR UPDATE SKIP LOCKED), handles them one by one
(`TickSchedule`, or `TickRaises` and the whole tick is rolled back) and commits.
Time is the event `FallDue`; `occasions` counts how often a schedule fell due,
and the history variables `launched` and `skips` say what became of each
occasion. Whether a tick inserts the Assignment that `HubStore` calls `Enqueue`
is recorded in `drafts`: the rest of an Assignment's life is that module's.

### ReleaseCache and the code

One release, so one `<hex>/` and one `<hex>.partial/`. A tree is the set of its
files, and `Junk` stands for what a Job has added to it or altered. `resolve_release`
looks (`LookFindsTree`, `LookFindsNone`), hashes (`HashMatches`, `HashDiffers`,
`HashFails`), removes what it found, downloads, removes an old `.partial`, makes
it, unpacks file by file, hashes, renames. What goes wrong inside the `try` block
(`TryFails`, `TryBreaks`) has the handler remove `.partial` once more.

The three removals are one `shutil.rmtree` with a purpose (`why`): it lists the
tree (`ListTree`), unlinks file by file in any order (`Unlink`) and removes the
directory (`RemoveDir`). It stops half way when a file is gone that it has
listed, one has come that it has not, or the system refuses (`RmtreeFails`); the
one in the handler ignores errors and goes on. Where an exception is a
`ReleasePullError` the slot ends "refused": the worker reports it; any other,
`OSError` included, ends the worker's thread, "dead". The daemon may die
between any two steps (`CacheDies`); a Job that outlives it is the `survivor`,
which goes on in the tree and may write into it. `overlapped` and
`dirtied` are history variables.

### RunFolder and LocalRun and the code

`at[r]` is where the process of Run `r` is in `run_job` and `_cmd_run`. The
choice of a folder has its four system calls (`LookFindsOne`, `LookFindsNone`,
`MakeParent`, `MakeArtifacts`); the files are written in the order of `After`,
and a write that fails or is cut off leaves its file in `torn`. All Runs start in
the same second: a folder's name is then only its suffix, and Runs of other
seconds cannot meet. How a Job ends is one of `JobEnds`, `JobTimesOut`,
`JobStartFails`, `JobStopFails`. What `main` returns is cut to eight bits by the
operating system (`ExitStatus`), which is why a Job killed by signal 9 has
`exit_code` -9 in `run.json` and its Run exits with 247.

`LocalRun` starts such processes. `Claim` is one `BEGIN IMMEDIATE` transaction.
The executor's pipes and threads are one step: `CoremeEnds` reads the frame and
the exit status once the process is over, and `Usable` is what the decoder and
`_validate_consistency` accept. `AgentTimesOut`, `WorkerDies` and `CoremeKilled`
end processes; `Killed` says what dies with one: on Windows everything in its
job object, on POSIX not the Job, which has a session of its own.

### Ship and Repair and the code

The source of a Job is its `JOB.toml` (a version, or one that does not load) and
the number of the edit that left the other files as they are; a hash is the tree
itself. `Begin` reads the version, `CopyToml` and `CopyCode` are the copy, then
the hash, the proof (which may pass, fail, or pass and write into its tree), the
second hash, `RELEASE.json`, the second look at the destination, the rename.
`ShipFails` is an exception, answered by the `finally` block; `ShipDies` is a
crash, or an exception in that block. What a crash leaves is a hidden directory
of a name nobody uses again, so it is dropped from the state.

`Repair` adds a failed Run, of the source or of a release, and processes that
repair it. `ResolveSource` is `resolve_source`; `Skips`, `Deploys`, `Spawns`,
`CodexExits`, `CodexTimesOut`, `ProvesSource`, `LogsEnd`, `WritesOutcome` are the
paths of `execute_repair`, `BriefRaises` and `RepairFails` what raises out of it.
`codex[p]` may be "stray": processes that Codex started outlive its kill. Codex
is given write access to the repository's root; the model takes it to edit the
folder it is started in, which is what it is told to do.

### Opera and the code

The Job runs any selection of its phases, with a state that each phase hands on
or that comes from a seed of another day. `_chunk_specs` deals the reports to the
tabs; each tab searches, waits, saves to `.tmp_` and moves. The search and the
wait for a download to begin have timeouts (`GivesUp`); `save_as`, which waits for
its end, has none. `owed[t]` are downloads the page of a tab may still
deliver, in any order, after their wait is over too (`Arrives`).

A file is the report it is of and whether it came in this Run, or `Torn`. The
copy to `.tmp_` may break off and leave it torn (`SaveFails`); the old file may
refuse to go (`UnlinkFails`); and once it is gone `shutil.move` may fail
(`MoveFails`), which leaves nothing, part of a copy or all of it in its place
(`HalfMoved`). All three are caught and count as a failed download. Closing the
browser or a kill breaks copies off (`CopiesBreakOff`). The files of an earlier
day are taken as whole, and a `.tmp_` file an earlier Run may have left is not
in the initial state: the next `save_as` overwrites it before anybody reads it.

A tab that raises ends the others, and one tab does everything again (`FallBack`). The requests of
the run name no report twice (`AskedOnce`): `reports=manager,manager` does, which
`resolve_reports` lets pass, and then two tabs use one file. What is proved of the
tabs and their results is proved under `AskedOnce`, the rest for any request.

## 3. Runs

| Run | Properties | Instance | Result |
|---|---|---|---|
| `HubStoreSafety` | `TypeOK`, `RunningIsFenced`, `SingleResult`, `EvidenceDurable`, `FencedOff`, `NoEarlyReclaim`, `ImplementsLedger` | 2 machines, 1 Assignment, 2 attempts, 2 outcomes | hold |
| `FleetSafety` | `SentIsAccepted`, `DeleteAfterAccept` | 1 machine, 2 attempts, 1 fault, 1 crash or stop, late renewals, large zips, prune, torn files | hold |
| `FleetOneRun` | `OnlyLeftOvertaken` | 2 machines, 2 attempts, 1 crash or stop, no lost message, POSIX | holds |
| `FleetDoubleRun` | `NoDoubleRun` | as `FleetOneRun`, with 1 lost message and no crash | violated |
| `FleetLive` | `Settled`, `DrainHolds`, `OutboxDrains` | 1 machine, 3 attempts, 1 fault, 1 crash or stop, fair | hold |
| `HubParts` | `Exclusive`, `Accounted`; `OneIdentity`, `BlobServes`; `OneTime`, `CredentialsKnown` | 3 threads, 3 connections, `max_size` 2; 2 clients, 2 hashes, 2 names; 2 hosts, 1 token, 3 requests | hold |
| `AgentHome` | `SerialStartsExclude`, `AcquireEnds`; `JobsHaveTheirTree`, `Heals` | 3 processes; 2 slots, 2 files, 2 faults; fair | hold |
| `Scheduler` | `OncePerOccasion`, `FiresWhatIsSet`, `IntervalsFire` | 2 schedules, 2 tickers, 2 occasions, 1 end of the hub, fair | hold |
| `SchedDailies` | `DailiesFire` | 1 schedule, 1 ticker, fair | violated |
| `LocalRun` | `OwnFolder`, `RecordSeals`, `RowIsEvidence`, `NoStrayJob`, `Concluded` | 2 Runs, 2 Assignments, 2 workers, exit codes 0, 124 and -9, 1 fault, both platforms, fair | hold |
| `JobFolder` | `ReleaseProved`, `Immutable`, `NeverOlder`, `StartIsAnswered` | 2 ships, 1 repair, 2 versions, 1 edit, 1 mishap, fair | hold |
| `Opera` | `ResultsTrue`, `OneWriter`, `SuccessorSurvives`, `JobEnds` | 3 reports, 2 tabs, all three reports or one of them, fair | hold |

The longest take two to three minutes with two workers.

Why the bounds are enough. Two attempts are the least in which one can be
reclaimed from another; with three, an attempt lost to the fault and one lost to
the crash still leave one that finishes, which is what `Settled` needs. Two
machines race for one row; a third one adds another loser. `LeaseSeconds` 1 and
`Retention` 0 keep all the cases (running, due for renewal, lapsed; young, old).
Three processes suffice for one that holds, one that judges and one that slips
in between. Three threads on `max_size` 2 give two holders and one that waits or
discards. Two clients on two hashes and two names give every clash (same hash,
same name, both, neither). One token and three requests give a redemption, its
repetition by the same host and one by another. Two occasions are the least in
which one can be lost to the other, or fired twice; two tickers the least that
compete. Two slots and two files give a tree that is part of the release, and
two faults a removal that fails over what a crash has left. Two
Runs and two workers meet in one folder name and in one claim; the three exit
codes are success, the one that reads as a timeout, and a signal. Two versions
order the releases, one edit is enough to change a tree under a copy or a proof.
Three reports on two tabs give one tab two of them, which a late download needs.
`CHECK_DEADLOCK FALSE` is set where the system may stop: everything claimed and
done, every token spent, or every thread blocked on an empty pool.

Two runs end in a violation and check a statement the repository makes of itself:

* **FleetDoubleRun** (`hub_worker.py:217`). The renew loop returns on any
  exception. One lost renew and the lease lapses while the Job runs on; another
  agent claims it and runs it too. `docs/days/FLEET.md:29` has "renew while running".
  On POSIX a crash does the same with no message lost: add `NoDoubleRun` to
  `FleetOneRun.cfg`, and the Job that outlived its daemon runs beside the next one.
  On Windows, where a job object ends the Job with its daemon, it does not (theorem
  `OneJobAtATime`; the same configuration with `Windows = TRUE`). On POSIX `OnlyLeftOvertaken` is what remains: of two Jobs of one
  Assignment, one has lost its daemon, and the hub has given up its attempt.
* **SchedDailies** (`store.py:985`). `_advance_schedule` splits `daily_utc` at the
  colons into hours and minutes; the column is a TIME, which prints as HH:MM:SS.
  Unpacking three parts into two raises, the tick rolls back, and the schedule is
  still due: it never fires, nor does any schedule that shares a tick with it.
  The docstring of `create_schedule` (`store.py:881`) offers `daily_utc`.

### Further disagreements

The modules state the following as well, none of which holds; no run has them.
To see the trace, add the name as INVARIANT or PROPERTY to the configuration.

| Statement | Add to | What happens |
|---|---|---|
| `SlotsRespected` (`docs/PLAN.md:106`: the claim loop must respect free slots) | `FleetOneRun.cfg`, with 1 machine, 2 slots, 3 attempts, 2 faults | `daemon.py:149`: `_active` is keyed by Assignment id. An agent that reclaims its own lapsed Assignment has two workers under one key; the first to end frees the slot of both |
| `EvidenceDelivered` (`outbox.py:1`: "Delete only after the hub accepts") | `FleetSafety.cfg` | `outbox.py:124`: the reply to complete is lost, the item is replayed, the hub answers 409 because it has the result, and the item is deleted with the evidence that was never sent |
| `OutboxDrains`, with `MayTear = TRUE` | `FleetLive.cfg` | `outbox.py:98`: `payload.json` is rewritten in place; cut off, it does not parse, and `load_pending` raises on every later pass. With `LargeZips` or `Pruning` it fails too: 413 and 404 answers are retried for ever |
| `SingleInstance` (docstring of `acquire_lock`, `daemon.py:59`) | `AgentHome.cfg` | `daemon.py:64-73`: the second daemon reads the lock file before the first has written its pid, takes it for stale and replaces it |
| `WaitersHaveAHolder` | `HubParts.cfg` | `db.py:218-221`: a connect that raises leaves `_size` counted up; after `max_size` of them every thread blocks for good. The same happens when all connections are discarded (each 404 or 409 discards one) while a thread waits |
| `StartsOnWhole` (`cache.py:24`: "Return a verified cache directory") | `AgentHome.cfg` | two slots share `.partial`: one empties or fills it between the other's hash and its rename, and what is renamed was never hashed |
| `Contained` (`executor.py:1`: a contained process tree) | `LocalRun.cfg` | on POSIX the agent's timeout kills the process group of `coreme run`, and the Job is in another session |
| `PublishedVerifies` | `JobFolder.cfg` | `ship.py`: the version is read before the copy; an edit of `JOB.toml` in between publishes a release that `verify_release` refuses |
| `NobodyEditsAfter` | `JobFolder.cfg` | `repair.py`: the timeout kills Codex alone, and what it started edits on |
| `SummaryFresh` | `Opera.cfg` | a report whose download failed counts as there when the file of an earlier day is |
| `ResultsTrue` and `OneWriter`, with a request `<<1, 1>>` | `Opera.cfg` | `reports_catalog.py:180`: a key that is given twice is kept twice, two tabs save to one `.tmp_` name, and the second to move deletes what the first has put in place; if it is the earlier tab, the result stays "ok" |
| `RightReport` | `Opera.cfg` | `opera.py:607`: a download that comes after its wait is over is saved as the next report's |

And four that are plain from the code, or seen in traces without a property of
their own:

* An upload checked before a reclaim is recorded after it, on the stale attempt
  (`store.py:637-665`): `UploadCheck`, `Tick` until the lease lapses, a claim by
  another machine, `UploadWrite`, `UploadCommit`.
* An upload under way during a prune leaves a zip no row names (`store.py:1145`).
* A Job killed by a signal has -9 in its frame and 247 as exit status, so that the
  agent reports an error of its own and not the failed Run; a `fail_message`
  above 4096 characters makes the frame invalid with the same effect, one
  above 64 KiB ends `coreme run` with a ValueError; a Job that exits with 124 is
  reported as a timeout.
* An exception of the offline proof leaves a repair without `repair.end` and
  `repair.json`, and nothing keeps two repairs of one Run apart.

The modules also state facts that hold and that no run repeats, because they
are types, or follow from what is checked: `FleetTypeOK`, `LockTypeOK`,
`PoolTypeOK`, `CatTypeOK`, `EnrollTypeOK`, `SchedTypeOK`, `CacheTypeOK`,
`LocalTypeOK`, `RepairTypeOK`, `OperaTypeOK`, `OneRunner`, `ResultsKept`,
`Bounded`, `ClaimedOnce`, `OutcomeIsLogged`, `SummaryComplete`. Added to the
configurations of their modules, TLC finds them to hold; most are theorems.

### Fairness

All fairness is weak.

`FairFleetSpec`. The steps of a thread (`MainStep`, `FlushStep`, `WorkerStep`,
`RenewStep`): the operating system schedules it. The steps of the hub
(`HubClaimStep`, `HubPutStep`): it ends the requests it began. `Finish` is part of
`WorkerStep` because a Job ends: the kernel kills it after
`[runtime].timeout_sec`, which every manifest has (`manifest.py:74`,
`runner.py:139-146`). `Restart`: `coreme-agent install-service` sets the daemon up
to be started again after a failure (`Restart=on-failure`); after a clean stop,
which that setting does not cover, an operator starts it: `Settled` and
`OutboxDrains` assume that somebody does. The first heartbeat of an unknown machine: the heartbeat
thread repeats it. `FleetTick`: time passes. Nothing is assumed of operators, of
lost messages, crashes or stops; `MaxFaults` and `MaxExits` bound those, which
is the assumption that they do not go on for ever.

`FairLockSpec`: a process inside `acquire_lock` keeps running. `CacheSpec`: a slot
inside `resolve_release` keeps running, downloads that do not fail end, and Jobs
end. `SchedSpec`: a ticker thread goes on (its loop catches what a tick raises).
`FairLocalSpec`: workers and `coreme run` go on, and a Job is over when its timeout
is, which is what `RunProceeds` contains. `FolderSpec` in `Repair`: a repair
goes on; Codex need not exit, but the timeout of `subprocess.run` fires.
`OperaSpec`: the program goes on, and a wait for an answer of Opera times out, so
that Opera need not answer (`TabStep`, without `Arrives`). A download that has
begun need not end (`DownloadStep` is not fair): `save_as` (`opera.py:476`, `877`)
has no timeout, and a download that stalls holds up the Job until the kernel's
`[runtime].timeout_sec` kills it. `JobEnds` therefore says that the Job ends if no tab
stays in `save_as` for ever. No ship, author, operator or worker start is fair.

## 4. Proofs

All theorems hold for every value of the constants, under the named assumptions
of the modules, which ask for no more than that `None` (`Nobody`, `NoConn`,
`NoFile`, `Junk`) is none of the things it is told apart from (an attempt, an outcome,
the row of a schedule, a hash, a report, a file), that bounds, lease lengths and retention are
numbers the code accepts, that ids, versions and Runs are numbers, that
`parse_workers` gives one to four tabs, and that the pool, the release and the
versions are finite. Five theorems have a hypothesis beyond that, which is in
their statement: `WorkersKeepTheirLease` (no lost message, renewals on time),
`OneJobAtATime` (the same, and Windows or no daemon that ends) and the three of
`OperaProofs` under `AskedOnce`. The list in `PROJECT.json` names the
theorems; the invariants they need are these.

`HubStoreProofs` proves what `HubStoreSafety` checks. The invariants are not
inductive as they stand. Beside the type invariant and `RunningIsFenced`, the
induction needs that an open claim has locked a row it may still take, that at
most one claim has locked it, that an attempt row names an Assignment exactly
when it was used, that the row an Assignment points at was made for it, and that
an upload under way has passed its fence and, once written, has its file, or its
Assignment has since been pruned. From there `TypeCorrect`, `TablesAgree`,
`AtMostOneRunner`, `OneResult`, `EvidenceStays` are invariants; `LostStaysLost`,
`LeaseProtectsClaim`, `ResultsAreFinal` are action properties, each from the
invariant and one case per action; `StoreImplementsLedger` is the refinement:
the initial states map, each `ClaimCommit` is a `Grant`, each `Complete` a
`Settle`, `Enqueue` a `Submit`, `Prune` a `Withdraw`, and everything else
stutters.

`FleetProofs` proves `SentIsAccepted`, `DeleteAfterAccept`, `OnlyLeftOvertaken` and
`DrainHolds`, and that the fleet implements the store. One lemma carries all of
it, `HubMoves`: whatever an agent does, the hub takes a step of `Next` of
`HubStore` or none, so `FleetSpec => Spec`, and with it everything proved of the
store and of the ledger, holds for agents that crash, retry and replay. A second
lemma, `HubGrows`, says what such a step never takes back: an attempt keeps the
Assignment and the machine it was made for, and what the hub has accepted, or
given away, stays so. `AgentInv` says what the agents know in these terms: a
worker, a verdict and an outbox item are about an attempt the hub has made, and
an item marked sent about one it has accepted (`AttemptKnows`); a thread is past
the complete call of `flush_item` only with an item the hub has accepted
(`ThreadKnows`); so are the items a main thread has loaded as sent, and the
Assignments it holds active are those of its own attempts (`MachineKnows`). What
the hub does not take back keeps these true under every step, so that each
action is asked only what it changes of the agents (`AgentsKeep`, `KnowsStays`).
`SentIsAccepted` is a part of it, and the action property `DeleteAfterAccept`
follows from `ThreadKnows` at the step that deletes. For `OnlyLeftOvertaken` a
further invariant (`RunnerKnows`) says that a worker that runs has its renewer, and
its attempt is current at the hub with a lease that is due for no more than one
renewal; it is proved for `MaxFaults = 0` and `OnTime`, without which the run
`FleetDoubleRun` has the counterexample. The attempts the hub has running have
different Assignments (`HubInvIsFenced`), so of two Jobs of one Assignment one
is not running there, and has no worker. `OneJobAtATime` adds that nothing is
ever left on Windows, or while no daemon ends (`NobodyLeft`), and has
`NoDoubleRun` from it.

The first half of `AgentHomeProofs` proves `SerialStartsExclude` of
`DaemonLock`. The invariant says that as long as no starts have overlapped, at
most one process is inside `acquire_lock`, that a holder's pid is in the file
and nobody is about to unlink it, and that the file a process is about to write
to is still at the path.

`HubPartsProofs` proves `Exclusive`, `Accounted` and `Bounded` of `ConnPool`.
The account of `_size` is what makes it inductive: a thread that has a count to
take down finds one, so `_size` stays within its limit and above what is open.

`SchedulerProofs` proves `OneIdentity` and `BlobServes` of `Catalogue`. For the
first: pending rows fit the committed ones and each other (`PendingFits`), and a
registration that is about to answer without an insert has seen its row
(`AnswerIsThere`). For the second: a registration past its rename has a blob
(`BlobFirst`), who writes holds the file open or lost it (`OpenWhileWriting`),
and a torn file is one that somebody has open or that was cut short
(`TornIsOpen`).

Of `Scheduler` it proves `OncePerOccasion` and `FiresWhatIsSet`. The schedules a
tick holds are due and enabled and no other tick's (`RowsLocked`), a schedule
that is due is there (`DueIsHere`), and what a tick has inserted is for
schedules it holds and the hash of their release (`DraftsFit`): that is what an
unlock between the SELECT and the commit would break. `Account` is the property
in inductive form, with every occasion that is over launched or skipped and no
two Assignments of one occasion; from there `OncePerOccasion`, which counts
them, is a bijection between the Assignments and their occasions
(`FirstsCount`). `IdentityInv` of the catalogue is part of the invariant: a tick
that resolved a name and version to two hashes would fire twice.
`SchedulerImplementsCatalogue` says that the scheduler is a refinement of
`CatSpec`, so that what is proved of the catalogue holds with tickers beside it.

`HubPartsProofs` also proves `OneTime` and `CredentialsKnown` of `Enroll`. A
granted request holds the lock of its token, which is still open (`Holds`); a
machine comes from a request that was minted (`MintedOnce`); credentials travel
from the request to the host that made it and to no other (`Travels`).

`AgentHomeProofs` also proves `JobsHaveTheirTree` of `ReleaseCache`. As long as
no pulls have overlapped and no Job has written into its tree, at most one slot
pulls (`OnePuller`), and what it is about to do fits the two directories
(`PullerKnows`): the tree it renames is the one it hashed, and what it removes is
`.partial`, half or whole, never the tree of a Job. Without the second condition
it is not so: the tree a Job has written into is removed file by file under it,
and a crash or an error half way leaves part of it.

`LocalRunProofs` proves the four safety properties of the run `LocalRun`, and
`ClaimedOnce`. `RunInv` says who has a folder, which files a Run must have
written where it is (the evidence), and what is known of its Job's process.
`QueueInv` says that rows and attempts agree, and what a worker holds in its
hands about the Run it started. The two halves meet in one lemma: a step of
anything else leaves Runs that have not begun, or are over, their evidence.

`RepairProofs` proves `ReleaseProved`, `Immutable`, `NeverOlder` and
`OutcomeIsLogged`. A ship knows of its staged tree what it has hashed and what
was proved (`StageIsKnown`). A repair only ever has the source as its target
(`FixIsKnown`), which is why a Codex cannot edit a release;
`RepairsActAsAuthors` says so of every step. `NeverOlder` also needs that a
non-empty finite set of numbers has a greatest member, by the well-foundedness
of the strict subset relation.

`OperaProofs` proves `ResultsTrue`, `OneWriter`, `SuccessorSurvives` and
`SummaryComplete`. `StageInv` says which tabs are open in which stage, and that
what is missing was looked up in the folder as it still is; that is all
`SummaryComplete` needs, for any request. The others rest on `Dealt`: what
`_chunk_specs` deals out has every position once (`Deal`, arithmetic on up to
four tabs), so that under `AskedOnce` the lists of what is left to do are
disjoint and hold nothing that has a result. A tab that moves a file in place
therefore touches no file that has an "ok" (`OkIsNew`), whether the move succeeds
or fails or is killed (`KilledMoving`), and finds its `.tmp_` there and whole
(`TmpReady`), which is what `SuccessorSurvives` rests on; `Covered` says that no
report is forgotten, over the fallback too. `SuccessorSurvives` is about one step:
after a move that failed, the only whole file may be the one in `.tmp_`, and a
later save of the same report writes over that. Without `AskedOnce` the three are false, and the attempt to prove
`Dealt` is where it shows.

Every invariant and every action property of the passing runs is a theorem. Only
model-checked are the liveness properties (`Settled`, `OutboxDrains`,
`AcquireEnds`, `Heals`, `IntervalsFire`, `Concluded`, `StartIsAnswered`,
`JobEnds`), which rest on fairness and `ENABLED`, out of the prover's reach.

## 5. Not modelled, and what is left

Left out for good, because it keeps no state beyond a call and nothing runs
beside it: argument parsing, formatting, scaffolding, read-only reports; the
validation of manifests and inputs (`RunFolder` and `Ship` have that they load or
not); service units, the compose file, the other example Jobs; the numbers
daily-summary parses out of its reports. Also left out: authentication, metrics
and the failure webhook of the hub; `COREME_REPAIR_RERUN`, which starts one more
Run of the source after a repair; `seed_from_fail`.

Assumed and not checked: pids are unique (`DaemonLock`); a hash stands for its
tree (`Ship`, `Catalogue`); all Runs of `RunFolder` start in one second, which is
the worst case.

Simpler in the models than in the code, and therefore not covered:

* What an offline proof leaves running after a clean exit. `run_process`
  (`_process.py:265`) kills it on Windows only; on POSIX it might write into the
  stage after the second hash. `ReleaseProved` is about ships whose proof ends
  with its process. The same of Codex: after a clean exit nothing of it is left.
* Runs that write into their release's tree under `releases/` (`Ship`): `Immutable` is
  about ships and repairs.
* Uploads of one attempt that overlap share `<attempt>.zip.partial`
  (`blobs.py:77-79`) and may leave a zip made of both. In `HubStore` a zip is there
  or not, and `EvidenceDurable` says no more than that.
* On Windows a process that may not be opened counts as dead (`daemon.py:206-209`);
  `PidAlive` of `DaemonLock` always knows.
* A lost reply of an enrollment leaves credentials no host has, and `CredentialsKnown`
  holds of it; so does `Accounted` of the capacity a raising connect loses.

What would come next: `ReleaseCache` as the pull that `Finish` of `Fleet` has as one step.
