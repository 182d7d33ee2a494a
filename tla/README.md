# A verification project for Conduction

Conduction is a local console that runs fleets of AI agents against
repositories. This directory holds TLA+ models of the parts of it that are hard
to test, the TLC runs that check them, and proofs that the TLA+ proof system
checks. Paths below are relative to the repository's root.

## 1. Inventory

| Component | State it keeps | Operations | Interacts with |
|---|---|---|---|
| **Host loop** `agentgraph/host.py`, `dispatcher.py` | requests collected and not spawned, tasks, semaphore, completions that landed, place in the replay plan | settle, spawn, wait, inject, flush; a worker's writes | the runtime (behaviors), workers, log, cache, plan, ledger |
| **Mission** `agentgraph/mission.py` | the graph; the status in `mission.completed` | run, resume, replay; behaviors dispatch, record, join, gated; the gate as a pseudo-agent | host loop, factory, console |
| **Answer cache, replay plan** `agentcache.py`, `replay.py` | answers by identity; windows of recorded injections | harvest a log, serve, group | host loop |
| **Event log** `log.py`, `events.py` | `run.jsonl`, flushed per event | append, read | every reader of a run |
| **Claim ledger** `claims.py`, `workerapi.py`, `mcp_tools.py` | file to owner map | conflicts, grant, release, write hook | workers, host loop, replay |
| **Factory runner** `factory.py` | `state.json` per factory run | run waves in order, skip passed ones, persist each change | missions, console |
| **Console, factory handlers** `app.py` | `ctx.factory_runs` | launch, interrupt, resume | runner threads, scheduler |
| **Scheduler** `routes/scheduler.py` | `last_run_at` in policy documents | tick, launch what is due | factory threads, policy |
| **Console, mission handlers** `app.py` | `ctx.mission_processes` | launch, interrupt, resume, replay, delete, stop | missions, children, webhooks, mirror |
| **Mirror and stream** `sqlite_sink.py`, `app.py` | rows and a byte offset per run | mirror a log, stream events by SSE | log, console, factory |
| **Child processes** `procs.py`, `gates.py` | registry of pids per run; the processes and their groups | register, unregister, terminate a tree, a run, all | gates, CLI workers, interrupt, stop |
| **Webhooks** `webhooks.py` | none | deliver with retries | console |
| **Policy, known repositories** `policy.py`, `routes/config.py`, `app.py` | JSON documents | load, change, save; due times | scheduler, settings, launch |
| **Workers** `dispatcher.py`, `sdk_workers.py`, `transcript.py` | transcripts | one call | models and command-line tools |
| **Others** manifests, context, narration, access scopes, file system API, templates | none between calls | pure or I/O | |

### What is hard, and what makes each part correct

* **Host loop.** Calls finish in any order, fail, time out or raise; the loop may
  be stopped, and the process may die, between any two steps. Correct when every
  call is in one place and answered once, nothing that landed is lost, answers
  enter only a settled graph, slots are neither overbooked nor wasted, and the
  loop ends.
* **Mission.** The waves are driven by behaviors that count reports, and that
  run again on a resume and a replay. Correct when gate and synthesizer are
  asked once and in order, and when `completed` is earned.
* **Cache and plan.** Logs left by interrupts and crashes are read back, and
  logs of resumes are resumed in turn. Correct when a replay reproduces its
  recording, and a resume neither buys an answer again nor doubles or drops a
  side effect, nor serves what no longer stands.
* **Claims.** Workers race for files; a resume re-emits old grants among new
  ones. Correct when the owner map is what the log says and each decision is
  right by the log before it.
* **Factory.** Each change of state is a write to disk; handlers await between
  a test and the act it guards; a run may end up with two threads. Correct when
  `state.json` claims only what happened, waves run in order, passed waves are
  not bought again, and an interrupt stops the run.
* **Mission handlers.** The cap, the slug and the log are tested before awaits
  and used after them. Correct when the cap holds, no two missions share a log,
  and a run that is deleted is not running.
* **Mirror and stream.** The log grows while it is read, is made anew when a
  factory comes to one of its waves again, and several requests mirror it.
  Correct when the rows are the log's prefix, a new log takes the place of the
  rows of the old, and a stream ends only after the last event and never as stale
  while its mission is at work.
* **Children.** Registration races with interrupt and shutdown; a child may end
  by itself, ignore what it is asked, or stay a zombie; whoever waits for it holds
  up a mission or a request. Correct when every live child can be found, none
  outlives its mission, everything ends though no child cooperates, and a call
  that was cut short is not taken for one that was answered.
* **Webhooks.** Correct when a run's events arrive in order, and the final one
  is sent whatever the mission did.
* **Policy and scheduler.** Settings pages, registrations and stamps load, change
  and save one document in worker threads, through one temporary file; the ticker
  acts on copies. Correct when no secret and no stamp is lost, a repository has
  one run of the scheduler's at a time, and a schedule fires once for each of its
  moments.

`PROJECT.json` lists each hazard at its line, with the properties that cover it
or the reason why none does yet.

## 2. Modules

| Module | What it is |
|---|---|
| `AgentHost` | the host loop driving one mission over a chain of live, resumed and replayed attempts |
| `MissionPromise` | what a mission promises, without log, loop and cache; `AgentHost` implements it |
| `ClaimLedger` | the claim ledger under live runs and resumes |
| `Factory` | factory threads, the handlers around them, and what is on disk |
| `Schedules` | the policy documents, the requests that replace them, and the scheduler that launches from them |
| `Mirror` | the run logs as files, their SQLite mirror, and the event streams that read it |
| `Console` | the mission handlers of the console, the mission threads and the table they share; extends `Mirror` |
| `Children` | the child processes of missions, and everyone who starts or ends them: workers, gate checks, the interrupt handler, the shutdown |
| `MCAgentHost`, `MCClaimLedger`, `MCFactory`, `MCSchedules`, `MCConsole`, `MCChildren` | small instances for TLC |
| `AgentHostProofs`, `MissionProofs`, `ClaimLedgerProofs`, `FactoryProofs`, `SchedulesProofs`, `ConsoleProofs`, `MirrorProofs`, `ChildrenProofs` | theorems and their proofs |

`AgentHost` takes a worker as an answer; `ClaimLedger` looks into what a worker
does while it runs, and cuts the loop down to the two facts that decide when a
worker may act (the loop sleeps; an awake loop injects all it can). `Factory`
takes a mission as its result, which is what `AgentHost` is about, and `Console`
takes one as the lines it appends. `Children` keeps of a mission's loop what starts
and ends calls (it sleeps, wakes, injects, sees the stop, flushes) and looks into
what `AgentHost` has as one step, the execution of a call. `Schedules` takes a factory run as alive or
over, and counts only runs that the scheduler started.

The modules name some definitions after their role as small mutations of the
code (`\* Mutant: ...`, `\* mutant`). They are used by no action: each replaces the definition
that follows it to show that a property would notice that bug.

### AgentHost

Agents have different names: requests, answers and the join are by name. No manifest
is checked for it, so this is an assumption (`AgentsAssumption`) about its author.

An event is its position in the log, which is what the graph's id generator
amounts to; so a re-executed run that emits the same events gives them the same
identifiers, and one that does not, does not. Objects the behaviors put on the
graph are projections of responses, and are not logged a second time.

| Model | Code |
|---|---|
| `log`, `recorded` | `run.jsonl` of this attempt and of the one it reads |
| `cursor` | how far the runtime's event queue has been processed |
| `pending`, `fresh`, `queued`, `running` | `Host._pending`; tasks created, waiting in the semaphore, executing |
| `arrived` | `Host._arrived` |
| `planAt`, `window` | `Host._group_at`, the group being re-emitted |
| `pc`, `reason` | where `Host.run` is; `stopped_reason` |
| `stop` | the `stop_event` that `stop_when` reads |
| `version` | the brief, as far as a call's identity goes |
| `ProcessEvent`, `Quiesce` | one event of `run_quantum`; the quantum that goes idle, then the spawning |
| `ObserveStop`, `Await`, `GoIdle`, `Spin`, `Wake` | the exits and the wait of the loop in `Host.run` |
| `InjectArrival`, `OpenWindow`, `ReEmit`, `CloseWindow` | `_inject_one`, `_inject_planned_group` |
| `StartTask`, `WorkerEmit`, `WorkerAnswer`, `RunGate`, `WorkerRaise` | `Dispatcher.run`, `worker_emit`, `_GateRunner` |
| `Complete`, `Fail` | `mission.completed`; an exception out of `Host.run` |
| `Restart`, `Crash`, `Interrupt` | `Mission.resume` / `replay`; the death of the process; the console's flag |

The loop is a single asyncio task: other tasks take steps only while it awaits
(`pc = "wait"`), and the flag may be set by another thread at any time. A crash
may come between any two steps, and inside the step that logs several requests.

### ClaimLedger

`owner` is `ClaimLedger._owner`; the events carry the files they name after
normalisation. `WorkerClaim`, `WorkerRelease` and `RefuseWrite` are
`Host.worker_claim`, `worker_release` and the PreToolUse hook; `Stepped` is
`Host._replay_side_effect`.

### Factory

`files` are the `state.json`s, `logs` the waves whose `run.jsonl` exists,
`runners` the threads with the local variables of `FactoryRunner.run`, `tracked`
is `ctx.factory_runs`, `calls` what a handler holds across an await. Each action
of a thread ends with one write of `state.json`. `earned` and `disturbed` are
history variables for the properties. Deleting a wave's directory while it runs
is allowed, as the console does not know of it; so is an exception out of
`os.replace` when two threads share a temp file. A torn `state.json` is not
modelled; its readers would take it for a missing one.

### Schedules

| Model | Code |
|---|---|
| `file`, `temp` | `ecosystem.json` or a `project.json`, and its `.json.tmp` |
| `page` | the document as a settings page got it, until it is put back |
| `act` | what the worker thread of a request or of the ticker is in the middle of: `check` and `start` in `launch_schedule_blocking`, `stamp` before `record_schedule_run`, `save`, `open` and `replace` in `_write_atomic` |
| `seen`, `due` | the documents a tick has read, what it has yet to launch |
| `alive`, `tracked` | live factory threads; the repositories `ctx.factory_runs` knows one of |
| `Get`, `Put`, `Refuse`, `Register`, `RunNow` | the handlers of `routes/config.py` |
| `OpenTemp`, `WriteTemp`, `Replace`, `ReplaceFails` | `_write_atomic` |
| `Check`, `TurnDown`, `StartRun`, `Stamp` | `launch_schedule_blocking`, `record_schedule_run` |
| `TickRead`, `TickDue`, `TickNext`, `TickEnd` | `scheduler_tick` |

A document is reduced to its webhooks, by their URLs, each with its secret or
without one (`Bare`), and to `last_run_at` of its schedules; a secret is numbered by
the request that gave it. Files behave as on POSIX: a thread that has the temporary
file open keeps writing to it after another has renamed it. On Windows the rename
would raise instead. A page shows `Hidden` for every secret, and its user sends it
back with any edit: webhooks kept, removed, added, moved to another URL, given
another secret. `Restored` is `restore_secrets` (`config.py:100-111`), which looks a
secret that is not shown up by the URL *as edited*: a webhook whose URL was changed,
and whose secret was not typed again, is saved without one. So is one that another
page has removed and this one still lists. `NothingLost` therefore says what is kept
relative to what users ask: `newest` follows the saves in the order they reach the
disk, each by `AsAsked`, and a field left blank keeps the secret of *that URL*. Two
webhooks of one URL in a document, which nothing validates and both of which
`restore_secrets` would give the later one's secret, are not modelled.

Nothing in the code keeps two saves of a document apart, nor two launches of one
repository, and a page that is put back takes stamps off that were made since it was
got. The models do all this, and history variables say when it has happened:
`mixed` (a document was loaded to be saved while another save of it was under
way), `raced` (two launches passed the test for one repository, or a run lost its
entry in `ctx.factory_runs` to a namesake of the same second), `excused` (the last
stamp of a schedule may be missing or unseen). The properties say that nothing
*else* loses a secret, doubles a run or fires a schedule twice; `newest` and
`launched` remember what there is to lose. A schedule of a repository that has the
id of an ecosystem schedule takes its stamp (`Source`), so `OncePerMoment` asks for
ids that are unique.

### Mirror and Console

| Model | Code |
|---|---|
| `log` | `run.jsonl` of each run with the thread whose file it is; a thread whose file was unlinked appends to nothing |
| `mirror` | the tables `events`, `runs.status` and `mirror_state` |
| `reading` | the holder of `mirror_lock`, with the lines it has read and not committed |
| `stream` | where `stream_run_events` is, what it has sent, its `last_seq` |
| `threads` | mission threads; `notice` is the webhook that tells the outcome |
| `table` | `ctx.mission_processes`; an entry says "running" while its thread is starting or writing |
| `StartWave` | a factory's thread that comes to a wave (`factory.py:211`, `333`): a mission on the wave's run, in no table, whatever log is there |
| `call` | what a handler holds across an await |
| `AskLaunch`, `AskResume`, `AskReplay`; `TurnDown`, `Register` | the handlers up to their first await that writes; what follows the last |
| `AskDelete`, `RemoveDirectory`, `DeleteRows`, `PopEntry` | `delete_run` between its awaits |
| `StartLog`, `Write`, `Complete`, `Return`, `Raise`, `Exit`, `Notify` | a mission thread |
| `CreateLog` | `Mission._execute` (`mission.py:435`): unlinks the log that is there and opens its own, above the rows that the mirror has of the old one |
| `MirrorRead`, `MirrorCommit` | `mirror_log_file` up to its transaction, and the transaction; `IsReset` is the test for a file shorter than the offset |
| `MirrorRaises` | `json.loads` on a line that the offset of an earlier log cuts in two (`PollRaises`, `StreamRaises`) |
| `OpenStream`, `StreamRead`, `StreamCommit`, `SendEvents`, `CheckStatus`, `LeaveStream` | a stream |

A handler runs undisturbed from one await to the next, and everything else may
happen at an await. `raced` is a history variable: the runs that a second party
began to work on while a first was not done. The code does nothing to keep two
launches of one slug, or a launch and a deletion, apart from the moment the first
has passed its tests until its thread has created the log, and then two missions
write one log and only one of them is in the table. Nor does anything keep a wave
apart from the console's requests about its run. The properties that need one
mission per run say so by excluding `raced`; `CapOvershoot`, `NoGhostRows` and
`TypeOK` hold for all runs. `CapOvershoot` counts entries, so two missions of one
raced slug count once.

A factory that is resumed after a wave failed, or launched again from its spec,
makes the wave's log anew with no other party at work, so this is not excluded. The
mirror notices by one test: the file is shorter than the stored offset. `remade` is
a history variable that follows it: `unseen` from the moment a log is made anew above
rows of its run until someone reads it; then `no` if the test saw it, and `missed` if
the new log had by then grown to the offset or past it. In the latter case the code
goes on at the old offset: the rows of two missions are mixed, the first events of
the new one are in no row and no stream, or, when the offset lies inside a line,
`json.loads` raises each time and the mirror of the run stands still. `MirrorIsPrefix`
and `StreamFollows` say that nothing *else* mixes or drops rows: until the new log is
looked at the rows are those of its predecessor, whoever looks in time starts again
from the first line, and only a wave's run can be `missed`. A stream that is open
while this happens keeps the lines of the old log it has sent, so `StreamFollows` is
of streams opened on the present log, or that have shown nothing of another. A wave
that is alive and writes nothing for `STALE_RUN_SECONDS` is called stale and its
stream ended, because `is_managed_and_alive` (`app.py:252`) asks the table;
`TrackedAndAlone` and `StaleMeansDead` promise the table and the stream to the
console's own missions only. `mirror_all_runs` mirrors several runs under one
acquisition of the lock; the model lets it go after each, which allows more.

### Children

| Model | Code |
|---|---|
| `phase`, `stop` | where the loop of a mission's thread is; its `stop_event` |
| `pc` | where a call is: `CliWorker.__call__`, or a check of `gates.py` (`_run_tracked`, `_make_probe_check`) |
| `child` | the process and its group: `running`, `zombie` (its parent has not waited for it; others of its group may live), `killed` (the group was sent SIGKILL), `gone` (waited for) |
| `registry` | `procs._registry` |
| `killer` | `terminate_run` of an interrupt, `sweep_all` of the shutdown: the copy they took, the child they wait for |
| `Spawn`, `SpawnFails`, `Register` | `create_subprocess_exec` or `Popen`; `procs.register` |
| `CliReturns`, `CommandReturns`, `ProbeReturns`, `TimeOut`, `TimeOutEarly` | how a call comes to its `finally` |
| `Terminate`, `GiveUp`, `Leave` | `terminate_tree` up to its wait; the end of the wait; `procs.unregister` |
| `Wake`, `Inject`, `Sleep`, `StopSeen`, `Flush` | `Host.run`, `_cancel_running`, `flush_arrivals` |
| `Interrupt`, `StopMissions`, `Look`, `Aim`, `Strike` | `interrupt_mission`, `stop_missions`, `terminate_run` / `sweep_all` |
| `Exit`, `Reap`, `Term`, `Kill` | the kernel; asyncio's child watcher; `killpg` |

Ending a child and running a gate's check are synchronous: while a call does
either, the mission's thread does nothing else (`Blocked`), and the calls beside it
stand still. A child may end at any time, or never; asked to end, each process of
its group may or may not. Pids are assumed not to be given away again while one is
remembered. What the kernel does for children whose parent thread is gone
(`PR_SET_PDEATHSIG`) is the code's last resort and left out, so the properties rest
on the code's own work. The properties speak of a group as far as the code reaches
it: a child that was waited for may have left grandchildren that ignored SIGTERM,
which nobody looks for any more (`README.md:153` says "killed as a tree").

## 3. Runs

| Run | Instance | Question |
|---|---|---|
| `host_live` | 3 agents, gate, synthesizer, 2 slots, exceptions | is every call kept, answered once, in order, and does the mission end |
| `host_recover` | 2 agents, gate, 3 attempts, interrupts and crashes | is what landed recorded, does a recording replay to itself, does a resume keep what was bought |
| `host_amend` | 2 agents, gate, 2 attempts, crashes, one brief amended or none | is `completed` still earned, is the promise kept |
| `claims` | 2 workers, 2 files (one shared), 2 attempts | is the map the log, are decisions right |
| `factory` | 2 waves, 2 threads, 2 handlers, 3 starts | does `state.json` say what happened |
| `schedules` | 1 repository, 2 documents with a schedule each (an interval, a cron minute), a settings page over 2 URLs in one tab, the ticker, 2 requests, 2 minutes, a crash | is a secret or a stamp lost, is there one run, does a schedule fire once |
| `console` | 2 runs, one of them watched, 2 handlers, 3 requests or waves, 2 threads, a cap of 1, 1 stream | are missions tracked, is the cap kept but for requests in flight, are rows and streams the log's beginning, does a deletion leave nothing |
| `children` | 1 mission with 2 CLI workers on 2 slots and a gate of a command and a probe, 1 interrupt, 1 shutdown | can every live child be found, does a mission leave none behind, does everything end |
| `interrupt_skips_gate`, `resume_regrants`, `stream_ends_early`, `killed_is_answered` | instances like these | each finds one disagreement of section 5 |

**Bounds.** Three agents on two slots make a queue for a slot and all orders of
three answers. Three attempts make the recording of a recording. A worker emits
one finding per execution, enough to shift every later identifier. `Spin` stands
for the 10000 iterations of `max_quanta`: nothing changes in them. Two workers
and one shared file are the smallest conflict, `MaxLog` lets a worker act twice
before its log is resumed. Two waves give a passed wave before an unpassed one;
two threads and two handlers give the races of two requests; `Ids` holds one
second, so two launches that overlap share a run, and `MaxStarts` admits a
launch and two resumes. In `schedules`, one minute after the first is where a
schedule fires again; two requests of one tab and the ticker give a save or a
launch of each side by side; what follows an overlap is cut off (`UntilMixed`),
since the properties say nothing of it. The repository's page is shown; a saved page
lists one webhook at most (also `UntilMixed`), which is kept, changed, moved to the
other URL, removed or added again. The ecosystem's page, several webhooks, several
tabs, and a page that is older than another tab's secret, are left to the proof of
`NothingLost`. In `console`, two handlers give every race of two requests,
and three requests a launch, its deletion and what takes its slug next; a wave counts
as a request, and two of them on one run are a log and what replaces it.
`MaxThreads` and `MaxRequests` end the story there, and a request or wave that meets
another party on its run is the last (`Enter`), since most properties say nothing of
what follows. `Watched` says which runs
have readers: the mirror keeps runs apart by their id, so one is enough, while the
second run is needed for the cap and for resumes, whose slug is another one. The
watched run's mission writes its first line and its last (`MaxEvents` is 0;
`stream_ends_early` has one between), enough for a new log to be shorter than the
offset, equal to it, or, of the offset of a single line, past it. The handlers are
symmetric. In `children`, two workers put one that blocks the
thread beside one that runs, a command and a probe are the two ways a gate holds a
child, and an interrupt and the shutdown are two that kill at one time. Missions
share the registry alone, of which an interrupt sees its own run's part, so a second
mission is left to the proofs. Deadlock is
checked nowhere, because every instance stops: a mission ends, the attempts,
starts and requests are bounded.

**Fairness.** `AgentHost` assumes weak fairness of the loop and of the first
step of a task, which asyncio's event loop runs, and of the end of calls, which
`asyncio.wait_for` bounds by the call's timeout. It assumes nothing of
interrupts, crashes, resumes or findings. `Children` assumes it of each call's next
step (threads run, and every wait has a deadline: `wait_for` in the dispatcher,
`timeout` of a gate's command, the readiness deadline of a probe, `timeout` in
`terminate_tree`), of the loop, and of those who end children; never of a child that
ends by itself, nor of anyone who interrupts. The other modules state safety only
and assume no fairness.

## 4. Proofs

For every value of the constants (any mission, any width, any chain of
attempts, any workers and files), from the named assumptions of the modules:

* `AgentHostProofs`: `TypeCorrect`, `CallsInOnePlace`, `AnsweredOnce`,
  `SlotsUsed`. The inductive invariant `HostInv` is type correctness, that the
  window being re-emitted is part of the plan, that each call is in one place,
  and that no call has two answers. They need one another: a new answer is the
  only one because the completion it comes from is in no other place and its
  request is unanswered; a re-emitted answer takes a completion out of
  `arrived`, hence has one. A recorded side effect is not an answer because the
  window holds planned events, whose causes are known. `SlotsUsed` adds that
  `running` is finite (`SlotInv`), and follows each slot from its release to the
  head of the queue.
* `MissionProofs`: the mission as a whole, below.
* `ClaimLedgerProofs`: `TypeCorrect`, `ProjectionOfTheLog`,
  `FirstRunAdjudicated`. `LedgerIsProjection` is inductive with the types:
  `HoldsAfter` says who holds a file by one more event, and each action moves
  the map the same way, re-emitted events included. That decisions are right
  then follows for a run that resumes nothing, because only `ReEmit` appends an
  event that the ledger was not asked about (`FirstRunHasNoPlan`).
* `FactoryProofs`: `TypeCorrect`, `StopsWithinAWave`, `EarnedState`, `WavesInOrder`,
  `NotBoughtTwice`.
  The inductive invariant `IInv` says of each file that its good marks are earned
  (`FileInv`), of each thread that what it read, what it skips to and what it has
  marked is (`EarnedInv`), and where it can be (`PlaceInv`), and of each resume that
  every wave before the one it goes on from is (`CallInv`), which `Prefix` counts out
  of the file. Threads that share a file do no harm because each writes only what
  its own marks claim. A resume hands the wave on as a number, so the last three
  theorems assume that the spec is not edited (`OneSpec`); the types and the
  interrupt do not need it. That no passed wave is bought again is said of runs that
  nothing disturbed; such a run has one thread at most, and `QuietInv` says that the
  thread knows every wave that passed in it: it is in `state.json` before the thread
  reads, and among its prior waves, or behind its place, afterwards.
* `ChildrenProofs`: `TypeCorrect`, `RegistryIsComplete`, `NothingLeft`. The invariant
  relates where a call is to its child and to the registry: a child runs unseen only
  between its spawn and its registration, is unregistered only when it was waited
  for or its group was killed, and is beyond harm when its call is done. It needs that
  whoever strikes a child has it on the list, since an interrupt and the call itself
  may end and unregister one child at one time.
* `SchedulesProofs`: `TypeCorrect`, `SecretsKept`, `OneRun`, `FiresOncePerMoment`.
  `NothingLost` needs
  `SaveInv`: of a document outside `mixed` at most one thread has a copy in hand,
  the file has the webhooks its users asked for, the copy has them too or, if a page
  is saved, what its user asks of them (`Wanted`), and the temporary file is that
  thread's own. Loading to save is then the step that matters (`LoadsKept`): what
  `Restored` makes of an edit and the file is what `AsAsked` makes of it, URL by
  URL. A page's age does not matter, since what it hides is looked up in the file.
  `OneRunPerRepo` needs
  `OneInv`: a live run is tracked, and a thread between test and start is the only
  one and finds no run. `OncePerMoment` follows the stamp of a launch through the
  documents: texts list their schedules (`FitInv`), a launch stamps its own document
  when ids are unique (`ActInv`), the stamp is in the file or a thread is about to
  make it, and no copy in hand would take it off (`StampInv`); so what a tick has read
  is no older than the last launch, and a schedule it finds due had a moment since
  (`TickInv`), also when the minute passes before it is launched.
* `ConsoleProofs`: `TypeCorrect`, `SoftCap`, `NoGhosts`, `Tracked`. `CapOvershoot` counts the
  missions that hold a slot and the admitted requests together: an admission
  finds fewer missions than the cap and at most the other handlers admitted, a
  registration moves one from one count to the other, and nothing else raises
  either; it is inductive with the types. `NoGhostRows` needs that what a reader
  holds belongs to a run that has a log or is being deleted (`ReaderInv`): a
  deletion waits for the lock before it drops the rows, so when it is over no
  reader is left with lines of the old log. `TrackedAndAlone` needs more than it
  says (`AloneInv`): of the missions and handlers that work on a run outside
  `raced` there is at most one, none of them beside a deletion, and the live
  mission of such a run wrote its log and, unless it is a wave, is in the table. A
  second party can then only appear by entering the run into `raced`.
* `MirrorProofs`: `RowsArePrefix`, `StreamsFollow`, `ToldIsTrue`, `StaleIsDead`, from
  `AloneInv` and `GhostInv`. `PrefixInv` says of a run outside `raced` and not
  `missed` which of three states its rows are in (`RowsGood`). They are `Mirrored`:
  the beginning of the log, and go on to be when the lock's holder commits what it
  has read. Or they are `Outlived`: the log was made anew and nobody has looked, so
  rows, and what a reader of the old log still holds, are all of earlier missions. Or
  they are being `Replaced`: a reader saw the shorter file, and holds the new log
  from its first line. The hard steps are a mission that makes the log and the first
  read after it. For a launch there are no rows, because the requests that lead to it
  found no log (`FreshInv`); for a wave every row is of a mission that began before
  (`ViewInv`), hence another. The first read either resets or records `missed`, which
  rests on the offset being the number of rows (`OffsetInv`). Of a stream it says
  that it has shown the beginning of the log or lines of another; one that was opened
  on the present log reads before it sends, so it cannot show `Outlived` rows
  (`LookedInv`). `WaveInv` is the second half of `MirrorIsPrefix`. `ToldInv` says that
  until the subscribers are told nobody else has the run; then the log is still the
  mission's own, and its last line is the end it recorded, since a mission completes
  once and writes no more (`FinalInv`, `StageInv`). That a stream is not told of a
  live mission of the console that it is stale is `AloneInv` seen from
  `EffectiveStatus`.

### The mission

`MissionProofs` proves every safety property of `AgentHost` that the runs check and
`AgentHostProofs` does not, and that `AgentHost` implements `MissionPromise`. A
replay is right only if an attempt retraces its recording event by event, and a log
is only worth retracing if it was made that way, so nearly all of it is one
induction:

1. **The shape of a log** (`Shape`). The first wave stands in a fixed place; after it
   come blocks of injected events, each closed by the request its answer asks for
   and by the mark of a settled window (`runtime.idle`). Each condition looks back
   only, so the prefix a crash leaves has the shape of a log, and is a recording the
   next attempt can start from.
2. **Where the loop is in it** (`PlaceInv`): what is settled at each `pc`, that the
   events not yet processed ask for nothing but their wave, and that a window is the
   next stretch of the plan without a gap.
3. **What is in the host's hands** (`HandInv`): no open call is lost, a worker is
   started only for a call the recording does not answer, completions of recorded
   calls are as recorded, and before the first live answer is injected all recorded
   answers of open calls have landed.
4. **Following the recording** (`SyncInv`): while something is planned, the log holds
   only planned answers; while the recording holds the whole first wave, and more
   is planned or it was brought to its end (`Tracking`), the log is its beginning,
   position by position, and the next window stands where the recording goes on;
   what has been emitted again is in the log, as recorded. With it goes what a log
   tells of the calls behind it (`Good`: effects inside their call, one verdict,
   reached last, an earned end), since a re-emitted event brings the recording's
   past into the log.
5. **How a run ends** (`EndInv`): a run that goes idle has no call open and no plan
   left, one that is stopped or left by an exception has flushed what landed, and
   none goes round in vain. 1 to 5 are `MissionInv`.

`WavesNeverOverlap` and `NoCallIsLost` follow from 1 to 3 and hold without
hypothesis, with amended briefs, interrupts, crashes and exceptions;
`FlushInjectsUnsettled` too. From `MissionInv` follow `NothingIsStuck`,
`LandedAreRecorded`, `IdleIsAnswered`, `EffectsStayInside`, `VerdictStandsFresh`,
`WavesComeInOrder`, `ReplayIsTheRecording` and `AnswersSurviveResume`. For
`CompletionIsEarned` and `HostKeepsPromise` two small invariants are added: a run
that nobody interrupts is not stopped (`CalmInv`), and the gate itself never answers
with an error, only with a finding that did not pass (`GateInv`). The refinement
reads asked, answer and verdict off the log: each step of the host is shown to be
one action of the promise or to leave the three views alone. A crash takes back
requests (the wave that was logged and not yet spawned), never an answer.

Three hypotheses appear in the statements, each about a constant of the model: what
users and workers do, and not the code. TLC shows each to be needed:

* `Unamended` (every resume has the briefs of the recording). With an amended brief
  the call runs again and may have another number of side effects, later events get
  other identifiers, and windows recorded for the old ones no longer fit: with
  edits TLC finds `NeverSpins`, `LandedIsRecorded` and `EffectsInsideTheirCall`
  violated, and with a third attempt `KeepsPromise`. Of `WavesInOrder` and
  `IdleMeansAnswered` it finds no violation in two attempts; their proofs read them
  off `MissionInv`, hence the hypothesis there too.
* `~MayInterrupt`: `interrupt_skips_gate` is the counterexample.
* `~MayRaise` in `InjectsSettled`. When a worker lets an exception escape,
  `_flush_arrived` (`host.py:297`) records what landed beside it before the events in
  front are processed, which "drained to quiescence before every injection" does
  not tell. `FlushInjectsUnsettled` says that this is the only way.

`Crash`, `MaxAttempts`, `LaterModes`, the width and the agents are arbitrary
throughout.

### What is only model-checked

* `Terminates` and `EverythingEnds`: liveness under fairness is out of the prover's
  reach. (`NothingIsStuck` and `NoCallIsLost` are the safety part of the first.)
* `CompletedIsEarned` and `KeepsPromise` with an amended brief and two attempts
  (`host_amend`): the theorems are about unchanged briefs.
* What needs induction over data is avoided: no module uses a recursive
  operator, and least and greatest positions of a log come from the well-foundedness
  of the naturals (`Least`, `Greatest`).

## 5. Disagreements found

Each is a run that expects a violation, with a finding in `PROJECT.json` that
quotes the line it contradicts.

1. `interrupt_skips_gate`: an interrupt seen after the last answer ends a gated
   mission as `completed` without a verdict.
2. `resume_regrants`: a re-emitted grant is given without asking for conflicts,
   and takes a file from the worker that got it in this run.
3. `stream_ends_early`: a stream looks at the events and at the status under two
   acquisitions of the lock; another request mirrors the end of the run in
   between, and the stream says `run-complete` without its last events.
4. `killed_is_answered`: a worker whose program an interrupt kills returns an error
   before the loop sees the stop; the error is recorded as the answer, and a resume
   serves it instead of running the call. The call that still runs when the stop is
   seen is cancelled and runs again: which of the two it is depends on the order of
   two threads.

Limits that the modelling showed and no run is kept for:

* A resume with an amended brief may complete on the verdict its gate gave before
  (`dispatcher.py:544`: the gate's request has the same identity). So
  `VerdictIsFresh` is checked and proved of unchanged briefs.
* Two resume requests may both pass the alive check of one factory run and start a
  thread each (`app.py:1843`); `Factory` lets them.
* The log of a wave that a factory makes anew, and that has outgrown the mirror's
  stored offset before anyone looks, is read on from that offset
  (`sqlite_sink.py:377`): rows of two missions are mixed, the first events of the
  new one are lost to the run's page and its streams, or every request that mirrors
  the run raises. `remade[r] = "missed"`; no second party is needed.
* A wave that is at work and silent for `STALE_RUN_SECONDS` is reported as stale and
  its stream ends, since no wave is in `ctx.mission_processes` (`app.py:252-268`). For
  the same reason its run may be deleted while it is at work, which is in `raced`.
* A settings page on which a webhook's URL was edited drops the secret it hides, with
  one save and no race (`config.py:100-111`). Its docstring has edits of something
  else in mind ("redaction must not become deletion").
* The owner map follows the log also where a release of an empty list of files
  releases all of a worker's (`workerapi.py:60`), since the log then names them all:
  `LedgerIsProjection` cannot tell what the worker meant.
* The next check of a gate starts its child after the flag was set and the registry
  looked into (`app.py:1379` says "The flag stops new work"); it runs to its own
  deadline. Likewise a queued worker may still start, and is then cancelled.
* A mission launched while the shutdown joins threads is swept but never told to stop.
* The server of a probe that has ended is a zombie to `terminate_tree`, which waits
  for it in vain until its deadline.
* A worker cancelled while its spawn is awaited is killed by asyncio, its group is not.
* `NeverSpins` does not hold of resumes with an amended brief (`host.py:257`): one may wait for
  a recorded answer it never asks for, going round 10000 times instead of going
  idle, as its docstring says (`host.py:219`). What it has landed is then not
  recorded, and an effect may be emitted again ahead of its call.

## 6. What is left, in order

1. **Amended briefs**: what a resume with an edit still guarantees beyond
   `WavesNeverOverlap` and `NoCallIsLost`, as an invariant of its own.
2. **Known repositories**: `known_repos.json`, which launches
   and registrations append to without a lock, and which promises nothing more than
   the last writer's list.
3. **Webhook delivery**: a retry may deliver what was received, the last failure
   drops it; both are by design, and no text of the repository promises more.
4. Path normalisation and the command policy as operators checked over bounded
   inputs; a request identical to an earlier one of the mission (`host.py:330`), which
   no behavior makes today.

Not planned: what passes between a worker and its program, what a gate's checks
test, the transcript writer, manifests, context, narration, access scopes, the file
system API and the front end, which keep no state of the system between calls.
