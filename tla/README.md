# The baselines orchestration, modelled and proved

This directory is a TLA+ development of the repository around it: a set of Python
programs that reproduce offline-RL baselines unattended, for weeks, on one GPU machine.
The training itself lives in submodules that are empty here. What the repository
adds, and what is modelled, is everything that keeps such a run going: a scheduler that
packs cells onto the machine, the state file it survives on, the watchdog that restarts it,
the smoke loop that decides which methods are fit to run, the probe that measures their
memory, the launchers with their stages and checkpoints, the monitor that raises the alarm,
and the shims that redirect metrics to MLflow.

## The system

| Component | State it keeps | Operations | Correct when |
|---|---|---|---|
| Matrix orchestrator, `scripts/long_runner.py` | the rows of the manifest in memory, a pending list, a running list of `Popen` objects | recover, reap, admit, launch, interrupt; `--mark`, `--reassign`, `--export_pool` | no cell is trained twice at once, the budgets hold, results stay, every row is served, a death loses nothing |
| State file, `state/matrix.json` | status, pid, pool, attempts of each row | `load_state`, `save_state` through a shared `.tmp` and a rename | no update is lost, no reader sees half a file |
| `Makefile` targets | `state/long_runner.pid` | `matrix` (guarded by the pid file), `matrix-resume` (neither guarded nor recorded) | at most one scheduler per state file |
| OOM watchdog, `scripts/oom_watchdog.py` | `state/oom_watchdog.json`: notified cells, restart times, death tally per cell, poison cells | poll, classify, notify, poison, resume | a dead orchestrator comes back, at most four times in half an hour; only repeat offenders are skipped; a live scheduler's file is never written |
| Matrix monitor, `scripts/matrix_monitor.py` | `state/monitor_state.json`: flags already alerted | poll tunnel, orchestrator, completion, GPU; alert, recover, heartbeat | alarms only after a sustained outage, spaced, repeated while it lasts; one recovery per alarm |
| Smoke orchestrator, `scripts/autoresearch_smoke.py` | `state/autoresearch.json`: per method a status and its attempts | seed, run one attempt, judge it, halt with 42, summarise, reset | bounded attempts; green means a metric was seen; "all green" means all are |
| Footprint probe, `scripts/footprint_probe.py` | samples of one process tree, a file per attempt | sample, summarise; tabulate, reserve | a reading is the method's own; the reservation covers what was held |
| Metric redirection, `compat_utils/wandb_stub.py`, `tb_shim.py` | a buffer of metrics, the time of the last flush | init, log, flush, finish | what is logged reaches MLflow at most once and in order, and all of it when nothing fails and the buffer is finished |
| Launchers, `scripts/run_*.py` | checkpoints on disk, an MLflow run | refuse, check prerequisites, alarm, train, exit 0, 64, 65 or other | a stage whose predecessors ended by themselves and green is admitted, on their last checkpoint; an MLflow run stays open only after a signal, a lost MLflow or a failed setup |
| Score table, `scripts/build_final_scores.py` | none | group the MLflow runs | a cell counts once per launch that had to be repeated |
| Compatibility layer, `compat/src` | none to speak of | environment factory, D4RL dictionaries, gym wrappers | episode boundaries and terminals survive the conversion |
| Notifications, dashboards, one-shot tools | none | print or post | - |

They interact through three things only: processes (the scheduler starts launchers in
sessions of their own, and its death does not touch them; `make matrix` and the watchdog
start the scheduler), files under `state/` (read and rewritten whole, by several
processes, without a lock) and exit codes (0, 64, 65, anything else). There is no thread
and no message. What is hard is therefore: a death between two writes, orphans, recycled
pids, whole-file updates that overlap, retries that count the same event twice, and a
liveness that depends on who restarts whom.

## Plan

The order is by how much damage a wrong answer does.

1. `CellLifecycle`, `MatrixRunner`, `MatrixRunner_proofs` - the scheduler, its crashes and
   its abstract promise. **Done.**
2. `OomWatchdog`, `OomWatchdog_proofs` - the watchdog with the pid file, `make matrix`,
   `matrix-resume` and a reduced scheduler. **Done.**
3. `MatrixStateFile`, `AtomicStore`, `MatrixStateFile_proofs` - `load_state` and `save_state`
   of several processes at the grain of open, fill, rename. **Done.**
4. `SmokeLoop`, `MethodLifecycle`, `SmokeLoop_proofs` - attempts, verdicts, halts and resets of
   the smoke orchestrator, and what its file promises. **Done.**
5. `MetricBuffer`, `MetricBuffer_proofs` - log, flush, finish and failing batches under the
   launcher's alarm. **Done.**
6. `MatrixMonitor`, `MatrixMonitor_proofs` - readings, checks, memory and pings of the
   monitor. **Done.**
7. `StagePipeline`, `StagePipeline_proofs` - the launchers: stages admitted side by side, checkpoints written while
   they are looked for, MLflow runs, and the score table that reads them. **Done.**
8. `Footprints`, `Footprints_proofs` - the probe beside a changing process tree, the
   footprint table, the reservation of a row. **Done.**

What could follow: one clock for the monitor and the watchdog, which act on the same death
without knowing of each other; a probe tree deeper than one worker.

Each module has one passing run, which asks for its properties. A type invariant, or another
invariant that a proof module establishes and others of the run rest on, is not always asked for
again.
Four more runs show where the code does not do what its comments or documents say.

## MatrixRunner

`MatrixRunner` models `cmd_execute` step by step. `pc` says where the scheduler is:

| `pc` | where in `long_runner.py` | leaves by |
|---|---|---|
| `down` | there is no scheduler | `Boot` (main: load, save back) |
| `loaded` | 392-413 | `Recover` (414-449), which returns at once when nothing is pending |
| `head` | 452 | `LoopHead` or `Complete` |
| `reap` | 453-461 | `PollAlive`, `PollFinished` per running cell, then `FloorBlocks`/`FloorAdmits` |
| `admit` | 470-475 | `Claim` (first save, 483) or `AdmitDone` |
| `popen` | 484 | `Popen`, with any free pid |
| `stamp` | 485 | `Stamp` (second save, 486; row moves from pending to running) |
| `sleep` | 495-502 | `Sleep` |

`disk` is the file, `mem` the rows in memory; every `Save` is `disk' = mem'`. `Crash` may
happen at every `pc` but `down` and forgets everything but `disk`, `owner` and `exit`:
it stands for SIGKILL, the OOM killer, an exception, and the interrupt that returns 130.
`owner` and `exit` are the kernel's side: who holds a pid, and the exit code of a child not
waited for. A child of the running scheduler stays a zombie and keeps its pid until it is
polled; an orphan vanishes with its exit code, and its pid may be handed to the next
launcher. Exit codes appear as the status they are turned into.

Abstractions, and why they lose nothing the properties tell apart:

* A row keeps status, pid and pool. Times, notes, attempts and return codes are written but
  never read by the scheduler.
* `pending` is sorted once and only ever loses elements, so it is a set with the sort's
  order (`Before`; `list.sort` is stable, hence the tie on the manifest's order).
* The admission scan walks the list with an index. While it runs, `running` only grows, so a
  row it passed never fits later in the same pass: the scan is "the first pending row that
  fits", which is `Claim` (`PassedRowsStayOut` and `ScanHasOneNext` prove it).
* `poll()` and the save that follows are one step. A death between them leaves the same
  file as a death before the poll, and the zombie is gone either way.
* Pids are recycled among launchers only. A pid that passes to a process of somebody else
  makes a row look alive until that process ends, as a launcher would.
* Budgets are naturals; `Vram` and `Ram` stand for what `_row_budget` returns.
  `VramSum`, `RamSum` are constants constrained to be sums (`SumAssumption`), so that the
  proofs need no recursion; `MCMatrixRunner` gives them as folds.
* A command of the operator is one atomic update of the file. That it is a read and two
  writes is the business of `MatrixStateFile`.

`CarefulOperator` is the one assumption on people: a command is given only while the
scheduler is down, and a row is marked pending only when its launcher is gone and its pid
field is None. It is needed: `cmd_mark` leaves the pid field alone, so with
`CarefulOperator = FALSE` TLC shows a row that is re-pended, relaunched by a scheduler that
dies before it saves the new pid, and then recovered on the strength of the old pid while
the new launcher trains - two launchers on one cell.

`CellLifecycle` is the promise without the mechanism: a cell is claimed only while nobody
trains it, spawned only when claimed, its result comes only from a launcher, and it goes
back to the queue only when its launcher is gone. `MatrixRunner` implements it with
`status` read off the file and `exec` off the kernel's pids.

### Runs

All use three cells (est. hours 1, 2, 2, so there is a tie; vRAM 3, 1, 1 and RAM 1, 2, 1
against budgets of 3, so that one row fills the vRAM budget exactly, and the two resources
bind on different sets) and three pids (as many as launchers can be live at once plus
recycling).

| Run | What it asks | Bounds | Answer |
|---|---|---|---|
| `matrix` | no double launch, limits, finality, completion, life cycle, orphans; every pending row is served, every recorded run ends | cap 2, 1 death, 1 command | holds |
| `matrix_stuck` | "running cells whose PID is stale are recovered" (docstring, 11-12) | cap 1, 1 death | violated: death between the two saves of a launch |

`OrphansBounded` is what holds of the whole machine: the launchers of a dead scheduler go on
beside those of its successor, which counts them neither in its cap nor in its budgets, so
each death adds at most one load: one more `--max_concurrency` of launchers, and one more of
each budget to the memory that the live launchers' rows reserve.

One death is enough for an orphan beside a new scheduler, a recovery by a recycled pid and a
launcher nobody knows of. What a second recovery meets of what the first left behind is
covered by the proofs, which hold for any number of deaths (TLC agrees for two, in four
minutes). One command suffices since a command only changes rows, and each kind can come at
every quiet point. Deadlock is checked, here and in every run but those of `MetricBuffer`
and `StagePipeline`, whose launchers end for good: a scheduler that stopped can always be
started again.

### Fairness

`Fairness` assumes that a live scheduler takes steps (every sleep is finite, `poll` does not
block), that somebody starts it again after it stopped (the operator or the watchdog; weak
fairness of `Boot`), that every launcher ends, and that memory is not short at every pass
for ever (strong fairness of `FloorAdmits`, since the floor test is passed through again
and again). Nothing is assumed of deaths and commands, which are bounded.

## OomWatchdog

One pass of `main` (173-245) is a few steps, with everybody else in between:

| Action | `oom_watchdog.py` |
|---|---|
| `Look` | 174-199: load the rows, drop the tallies of green ones, report and note red ones; a post that raises (190) ends the pass |
| `LeaveAlone` | 201-211 and the save at the end: nobody dead, nothing pending, or looping |
| `Judge` | 203-227: count the running rows as victims, choose the poison ones |
| `Write` | 228-231: the rows loaded in `Look` go back to the file |
| `Resume` | 132-145, `make matrix`, which may refuse or fail |
| `SaveState` | 233-242 |
| `Swallow` | 243: the write of the rows (229-230), the post after a resume (236), the one about the loop (207) or the save (242) raised; the pass is over, its work is in memory only |
| `Relaunch` | its own death and its unit's `Restart=always`: back to what was saved |

`st` is its state in memory and `saved` the file. `resumed` and `ends` are kept
by the model and known to nobody: what really happened, to compare with what the
watchdog believes. So is `undone`, the cells whose row a `Write` set back to pending while they
trained. `MakeMatrix` is the target of the `Makefile` with its pid-file test as one
step; `matrix-resume` spawns without it. A scheduler is `Boot` (load, recover, save),
`Launch`, `Reap`, `Complete`, each a save of its whole memory, and may be killed.

Time is kept as ages: a resume is known by how many passes ago it was, `Look(d)` lets `d` of
these units go by, and an age of `Window` is no longer asked for. `Window` 2 lets a resume
still count at the next pass and be gone at the one after; `Window` 3 lets two resumes the
memory still knows of lie behind one unsaved. A launch is one step (its two saves are
`MatrixRunner`'s). A post that raises in the middle of the red rows has told some and not the
rest; which rows come first is the manifest's order and is left open. `skipped_poison` is written
after the rows (231) and never read, so it is left out, and so is the concurrency value the
watchdog passes on. Its rewrite of the rows uses
`matrix.json.tmp`, another name than `save_state`'s, so the two do not meet in the temporary
file; they do meet in the rows.

`CarefulOperator` says the operator starts schedulers by `make matrix` only, between passes of
the watchdog. Without it, TLC finds two schedulers (`matrix-resume` writes no pid file).

| Run | What it asks | Bounds | Answer |
|---|---|---|---|
| `watchdog` | one scheduler, restart window, tallies, no write beside a scheduler, no second launcher but after a stale write; pending rows served, OOM noted | 2 cells, 2 schedulers, poison after 2 deaths, window 3, 1 restart in it, 2 kills, 1 mishap (a failed resume or a swallowed exception), 1 relaunch | holds |
| `watchdog_stranded` | "orchestrator dead while work remains -> auto-resume" (201) | the same, window 2, 1 kill, no mishaps or relaunches | violated: running rows are not counted as work |

`RestartsBounded` is what holds of the restart window. A watchdog that lives keeps to the limit
however many of its passes an exception cuts short, since the resumes stay in its memory. A death
forgets what was not saved: the resume under way, and one for each pass whose save was skipped.

`TallyNeedsDeaths` is what holds of the tally: deaths plus failed resumes plus passes cut short. A
death whose resume fails, or whose pass an exception ends between the tally and the resume, is counted
again at the next pass, so "seen running at this many orchestrator deaths"
(55-56) is not quite what the tally means. `NoSecondLaunch` is what holds of the write that "is safe here" (219-220), see below under the known
disagreements; it takes two kills for a stale write, the one that makes a cell poison and the one
between `Look` and `Write`. Two poison deaths
are the smallest number at which one death may not suffice, and the counters stop there.
`FairSpec` assumes that the watchdog (`Restart=always`) and the schedulers keep stepping and that
launchers end. Nobody else is assumed to start a scheduler: that the pending rows are served
is due to the watchdog.

## MatrixStateFile

A run of `long_runner.py`, whatever its command, does `Load`, then a save; later changes each
come with a save of their own. A save is `Open` (truncate `state/matrix.tmp`, or create it),
`Fill` and `Rename`. `ino` holds contents, `json` and `tmp` are names, and
`fd` is what an open run writes to, so a run may go on filling a file that another has
renamed. `Ends` is the end of a run or its death, anywhere. A row is the number of
changes it has seen, `Torn` any contents that do not parse. Two runs that filled the same file
leave either the last text or a mixture.

`AtomicStore` is what the readers take for granted: rows that change by whole updates.
With `OneAtATime`, the file implements it (run `state_file`: 2 runs, 2 rows of up to 3 changes,
3 files, each run killed wherever it may be). Without, run `state_file_race` asks for
"updated on every transition" (docstring, line 10) and finds a row going back, since even `--status` writes what it
read. Three files are needed for the one named `json`, the one named `tmp` and a fresh one, a
fourth when runs overlap and one still writes a file nobody names.

## SmokeLoop

A pass of `run_all` takes the methods in order (`Turn`): `Skip` a settled one, `GiveUp` one
without attempts left, or `Launch`. The attempt is appended in memory only, and the file learns of
it in `Judge`, which is where a death in between shows. The launcher `Logs`, ends by itself
or by its alarm (`LauncherEnds`), or meets `HardTimeout` and `Sigkill`. `Judge` takes the
evidence - the log, and else MLflow, which may not answer (`answers`) - before the exit code,
and a red verdict ends the pass with 42. `Dies` leaves the launcher as an orphan that goes on logging
into the file of the next attempt, which has the same number. `recent` is what
MLflow would show for the last half hour, whoever logged it.

| Run | What it asks | Bounds | Answer |
|---|---|---|---|
| `smoke` | attempts, green earned, life cycle of a method; every method decided | 3 methods, one of them dropped, 2 attempts, 1 death, 1 reset | holds |

`MethodLifecycle` is the file's promise without passes, launchers and deaths: an attempt comes into
the file together with its verdict, one at a time; green has evidence; a settled method is left alone
until a reset; an exhausted one is red. `SmokeLoop` implements it with `note` read off the file
(`PromiseSpec`): `Judge` is the whole attempt, and `Launch`, `Dies` and the time limits show nothing.

`PatientOperator` is needed for `GreenIsEarned`, and so for `PromiseSpec`: a reset within half an hour of a run that
logged finds that run's metrics again. `EveryMethodDecided` assumes that the process takes
steps, that `wait` times out, and that the operator keeps invoking the full list; launchers are
not assumed to end by themselves. A red method is decided when its attempts are used up,
since until then the next pass tries again.

## MetricBuffer

One smoke launcher whose training logs through both shims. `pc` is `train` in the method's
code, `flush` inside a `_flush` that has something to send, `out` once the method's code was left,
`ended` after that. `Log`, `Finish` and `Close` are calls of the method's code; each empties
the buffer or not in one step (`Flush`), and the batches follow one by one, as `Sent` or
`Refused`. A refused batch may be in MLflow or not - the answer may be what was lost - and the
batches behind it are dropped. Points are numbers, in the order they were logged, so "once"
and "in order" can be read off `stored`. Whether there is a run to log to (`seesRun`) is chosen at the
start and never changes while the method's code runs.

The alarm of `alarm_timeout` rings anywhere. `Rings` meets the method's code and
`RingsBesideTry` a flush outside its `try`: both end the training. `RingsInTry` meets it inside
the `try`, whose `except Exception` takes `TimeoutSentinel` for a failing batch. An `except` clause of the
method's own code is left out, as are the exit code of a launcher whose alarm comes
after its training and the one launcher that sets no alarm (`run_corl.py`).

| Run | What it asks | Bounds | Answer |
|---|---|---|---|
| `metrics` | once and in order, nothing lost without a fault, buffers short, and empty once finished | flush at 2, batches of 3, calls of up to 3 points, 5 points per shim | holds |

With these bounds a call can fill more than one batch (one point waiting, three more), a flush by number,
one by age and one by `finish` all occur, and a refused batch can have one before it
and one behind it. Deadlock is not checked: an ended launcher has no step left.
`BufferBounded` has two parts: `BelowThreshold`, between two calls, and `TailIsFlushed`, for
which the calls of `finish` are there.

## MatrixMonitor

One pass of `main` (163-239) reads four things one after the other and then makes five
checks. Everything it reads may change before each reading.

| Action | `matrix_monitor.py` |
|---|---|
| `ReadRows`, `ReadOrch`, `ReadTunnel`, `ReadGpu` | 166-169 |
| `CheckTunnel`, `CheckOrch`, `CheckDone`, `CheckGpu`, `CheckBeat` | 172-234 |
| `Save` | 236, which may fail |
| `Sleep(d)` | 237-239, also after a pass that an exception cut short |
| `Dies`, `Relaunch(d)` | a kill anywhere, and a new start from the file |

`st` is the memory of the loop, `saved` its file. A ping (`Send`) arrives, is lost, or raises
although it may have arrived; the retries of `notify.py` count as one message, since it is the
operator who has to tell them apart. An exception ends the pass with the memory as the checks
before it left it. Time is kept as ages, cut off at `MaxAge`, and passes only between passes:
a pass takes seconds and the limits are minutes. `told`, `bad`, `since` and `calm` are history,
read by the properties alone.

Run `monitor`: three changes of the world (an outage, its end and something else), one fault,
limits of one and two intervals, sleeps of one or two. A change may touch one reading at a time,
and comes at every point where a reading would see it. `FairSpec` assumes that the loop goes on and
is started again after a death; every poll in it has a timeout. Pings may be lost, which is why
`TroubleIsTold` rests on the repeated alarm, and why `ReliefIsTold`, of what is said once, is about
behaviours without a fault.

`AlarmIsSustained` says what the alarm promises: all readings of the grace period were bad. A
restart may go by a time from before the death, and only then may the alarm come early.

## StagePipeline

The launchers, from both sides that start them. `LaunchRow` and `CellFinished` are the scheduler
without budgets and deaths (those are `MatrixRunner`'s), `LaunchSmoke` the smoke loop one
method at a time. Then a launcher is:

| Action | code |
|---|---|
| `Refuse` | exit 64 or 2 before anything is opened (`run_corl.py` 71-99, `run_dql.py` 26-33, ...) |
| `OpenFails` | `mlflow_start` does not answer, before the run exists or after |
| `SetupFails` | `run_corl.py` 158-166: the temporary directory or the configuration, between the run and the `try` |
| `Begin`, `TurnAway` | `mlflow_start`, then the search for checkpoints (`run_eda.py` 66-84, `run_qgpo.py` 75-94, `run_ldcq.py` 37-53): train, or return 65 from inside the `try` |
| `Checkpoint`, `Evaluate` | the training code (external): a checkpoint, a score |
| `NextScript`, `Complete`, `Alarm`, `Raise` | the script's end, `alarm_timeout` of a smoke test, an exception |
| `Interrupt` | SIGINT while it trains: caught with `TimeoutSentinel`, smoke test or not, exit 0 (`run_eda.py` 95-101, `run_qgpo.py` 102-108, `run_ldcq.py` 111-117, 164-170, `run_dql.py`, `run_diffuser.py`); uncaught in `run_corl.py`, or outside the script's call, exit -2 |
| `EndRun` | the `finally` clause, whose call MLflow may lose |
| `Kill` | SIGKILL, or SIGINT where no clause is reached: no clause runs, or not to its end |

`ManifestAssumption` is how `_default_manifest` (`long_runner.py` 90-188) makes the rows: no LDCQ,
and with a stage those it needs. A manifest given with `--manifest` need not be like that.

The opening of a run and the look for checkpoints are one step, since nothing shared is looked at in
between; what may fail there is `OpenFails`, `SetupFails` and `Kill`, and each may leave the
new run open. `os.getcwd` and `os.chdir` beside the `try` of the other launchers are taken not to fail. That
MLflow has an exit handler of its own, which may close what a launcher left open, is its business
and not counted on. `mishaps` is history: what befell a launcher, read by the properties alone.
Matrix launchers are in sessions of their own, so that a SIGINT comes from an operator and not from the
scheduler's terminal. What a stage loads depends on names: EDA and QGPO put the seed into the directory, LDCQ
does not, and a smoke test uses the directory of seed 0 (`SharesHome`). `Counts` and `Group` are
`build_final_scores.py`. Which stages evaluate (`Evaluated`) is taken from what the training
documents name, as the training code is not here.

`MCStagePipeline` gives five manifests, chosen at the start, which between them hold every
method, refusals of each kind, two seeds and smoke tests. Three launchers and two slots are
enough for a stage beside its predecessor, or three stages one after the other; one fault falls on any of
them. `Fairness` assumes that a launcher goes on and that its end is polled. Nobody has to launch, to
evaluate, to interrupt or to kill. Deadlock is not checked: the manifest is done.

| Run | What it asks | Answer |
|---|---|---|
| `stages` | runs closed, seeds counted once, ready stages admitted, on the last checkpoint; every launcher settled | holds |
| `stages_parent` | the checkpoints of `05_execution_per_method.md`, 236: those at the end of the earlier stages | violated: a stage admitted too early trains on what is there |

`RunsAreClosed` names every way a run stays open: a signal, an MLflow that does not answer, and the setup
of `run_corl.py`. All others, refusals for want of a checkpoint and interrupted trainings among
them, close it.

Green does not mean trained to the end: an interrupted stage returns 0. `CutShort` says that of a cell,
and `ReadyIsAdmitted` and `ReadyTrainsOnLast` are about predecessors of which it is not true; without that
condition TLC finds both violated.

`ReadyTrainsOnLast` is what holds instead of what `stages_parent` asks: once the predecessor has ended
by itself and green, its last checkpoint is taken, unless a smoke test slips a newer one in.

## Footprints

Three programs: the harness (`run_one` from the start of the probe to the attempt on record,
`--reset`, `--footprint-table`), the probe, and the scheduler's `_row_budget`.

| Action | code |
|---|---|
| `StartAttempt`, `TerminateProbe`, `KillProbe`, `RecordAttempt` | `autoresearch_smoke.py` 263-331, 394-407 |
| `Dies` | 353-360: the harness is killed in the attempt, which it has appended in memory only |
| `Reset`, `FootprintTable` | 629-638, 549-611 |
| `Boot`, `Look`, `QueryApps`, `ReadRss`, `EndSample`, `Wake`, `WriteFile` | `footprint_probe.py` 143-231 |
| `OrphanWrites` | 209-231, by a probe whose harness died |
| `Change`, `LauncherEnds` | the processes (external) |

A death of the harness leaves launcher and probe running and the attempt off the record (it is saved at
482), so that the next attempt of the method has the same number and the same file. `lost` keeps those
attempts: their probe may still write, whole or half, over whatever is there, at any time. Its launcher is
a foreign process for the next attempt, like any other on that GPU.

A sample is the tree at one moment, the GPU at another and each RSS at one more; `Change` may come
between any two. `nvidia-smi` answers or fails, in which case the sample counts as 0. SIGTERM
before the handler is there ends the probe without a file, SIGKILL in the middle of the write
leaves half of one. One level of memory stands for RSS and vRAM of a process, since both are
summed alike; `gen` marks which attempt a file is from, which the code cannot see: the name
holds the attempt's number, which `--reset` and a death of the harness give again. Sizes are GB and
reservations hundredths of a GB, so that 1.3 and 1.8 stay exact; the code's
floating point may round differently in the last place.

Run `footprints`: two stages, two attempts, one death of the harness, two changes in each attempt, two
samples, a launcher, a worker and a foreign process on the same GPU, memory 0 or 6. The forgotten
attempt and the one that gets its number are the two attempts. Two attempts are needed for a file to
be taken for another's, two changes for a sample that is wrong in both directions, two samples for a
maximum. `high`, `quiet`, `wiped`,
`held` and `gen` are history, and so is `lost` but for what its probes still write.

`ReservationCoversHeld` is stated for what the tree held through a whole undisturbed sample: a
peak between two samples is missed, by design, and it is about attempts that carry their own
footprint: what an attempt takes over from a lost one (`OwnFootprint`) bounds nothing it held itself. It holds for
humanoid rows too, with their factor of 1.8. The number of rows the table advises is not modelled, see below.

## What is proved

`MatrixRunner_proofs` proves for every value of the constants, under the module's named
assumptions:

| Theorem | Property | Needs `CarefulOperator` |
|---|---|---|
| `TypeCorrect` | `TypeOK` | no |
| `LimitsKept` | `WithinLimits` | no |
| `NeverLaunchedTwice` | `NoDoubleLaunch` | yes |
| `FileIsUpToDate` | `FileKeepsUp` | yes |
| `HeldWithinBudgets` | what launchers really hold | no |
| `ScanHasOneNext` | `NextToLaunch` is deterministic | no |
| `PassedRowsStayOut` | `Fits` only shrinks in a scan | no |
| `OrphansStayBounded` | `OrphansBounded` | yes |
| `ResultsStay` | `ResultsAreFinal` | yes |
| `CompletionIsHonest` | `CompleteMeansSettled` | yes |
| `ImplementsLifecycle` | `LifecycleSpec` | yes |

`NoDoubleLaunch` alone is not inductive: that a `Popen` starts no second launcher depends
on what the file said when the row was recovered, perhaps two schedulers ago. `LaunchInv`
carries that history: memory and file agree but for the row being launched, a live
launcher's cell has one owner, its row records the pid or is the running row without a pid
that a death left behind, pending rows have no launcher and no pid, and a scheduler's
running list holds exactly the pids of its own children. `TypeInv` adds to `TypeOK` what
each `pc` fixes. `LimitsKept` needs only `TypeInv` and one lemma on sums, and `HeldWithinBudgets`
adds that what the launchers hold is no more than what their rows reserve, which `VramSum` and
`RamSum` are then shown to bound set by set. `OrphanInv(sum, budget)` weighs the live cells outside
`Admitted` against the number of deaths; it is proved once, for any sum over cells, and used for
the number of launchers and for both memories. `ScanHasOneNext` and `PassedRowsStayOut` are
about the model itself: they justify modelling the indexed scan as "the first row that fits"
(the first needs that `Before` is a total order, the second that `running` only grows). `Settling` follows rows from
admission to completion. The refinement maps every step to a step of `CellLifecycle` or a
stutter under `TypeInv /\ LaunchInv`.

`MatrixStateFile_proofs` proves, for any number of runs, rows, files and changes and under
`OneAtATime`, that the types are kept (`TypeCorrect`), that the file is always whole
(`NeverTorn`) and that it implements `AtomicStore` (`ImplementsAtomicStore`). The invariant says of the
run inside a save that its memory is the file with one update on top, and that the
temporary file is its own and not the one readers see. That a file may be left behind by a killed
run, and reused, is why it speaks of `tmp` even while no run is there.

`OomWatchdog_proofs`, for any cells, any window and any number of deaths and resumes:

| Theorem | Property | Needs `CarefulOperator` |
|---|---|---|
| `TypeCorrect` | `TypeOK` | no |
| `OneSchedulerAtMost` | `OneScheduler` | yes |
| `WritesAreAlone` | `WritesWhenDead` | yes |
| `NothingLaunchedTwice` | `NoSecondLaunch` | yes |
| `RestartsStayBounded` | `RestartsBounded` | no |
| `TalliesAreBounded` | `TallyNeedsDeaths` | yes |

`PidFileKnows` says that the pid file names whichever scheduler is live and that a watchdog
past its test found none; the next two follow from it. `FileKnows` says that whatever trains is
not pending in the file, or is `undone`, and that a live scheduler's memory is the file: it is
what recovery leaves, what launches and reaps keep, and what only `Write` can break. `WindowInv` compares the
resumes that really happened with those the watchdog remembers: they differ by what its deaths made it
forget (`Forgotten`), and what a death may still forget is what memory has and the file has not
(`Unsaved`). Both together are no more than the deaths and the passes cut short; without a death
nothing is forgotten. `TallyInv` charges each count of a tally to a death,
a failed resume or a swallowed exception (`Paid`), also while a pass is between the count and the save.

`SmokeLoop_proofs`, for any methods and any number of attempts, deaths and resets:
`TypeCorrect`, `AttemptsStayBounded`, `SettledStaysSettled`, and, under `PatientOperator`,
`GreenStaysEarned` and `ImplementsMethodLifecycle` (`PromiseSpec`). `Shape` says how the file and the memory differ at each `pc`: by the attempt in
flight and no more. On it rest `Counted`, which weighs launches against attempts noted and deaths,
and `Earned`, which carries the evidence of a verdict from the log or MLflow to the file. The refinement
needs both: that the attempt judged is exactly one more than the file has, and that what is taken
for evidence was logged since the reset.

`MetricBuffer_proofs`, for every threshold, batch size and number of points:
`TypeCorrect`, `SentOnceInOrder` (`OnceInOrder`) and `BufferStaysSmall` (`BufferBounded`, from
`StaysBelowThreshold` and `TailStaysFlushed`). `Inv` lines up what is stored, what is being sent and
what is in the buffer, each increasing and each before the next, which refused batches and
alarms only thin out. `TailInv` adds that a flush on behalf of `finish` has left the buffer empty.
`NothingIsLost` (`NothingLost`) rests on `Lossless`: while nothing has failed, what is stored, moving
and buffered, joined, is every point logged, and a step only moves points along.

`MatrixMonitor_proofs`, for all limits of age and any number of changes and faults:
`TypeCorrect`, `NewsIsToldOnce` (`NoEcho`), `AlarmsStaySpaced` (`AlarmsAreSpaced`) and
`AlarmsAreSustained` (`AlarmIsSustained`). For `NoEcho`,
what was told is weighed against what the memory, and the file a restart would go by, still
have on record; for `AlarmsAreSpaced`, an age on record is never more than the time since the alarm. For
`AlarmIsSustained`, `DownInv` and `IdleInv` say that the noted start of an outage or a stall is no older than
the run of bad readings, or than the first undisturbed pass.

`Footprints_proofs`, for any stages, levels of memory and number of attempts:

| Theorem | Property | Rests on |
|---|---|---|
| `TypeCorrect` | `TypeOK` | `Phase`: where harness, probe and record stand |
| `OwnReadings` | `CountsOnlyOwn` | `OwnInv`: what a sample has added up is below the marks of the processes it has read (`Upto`) |
| `FootprintsAreOwn` | `OwnFootprint` | `Source`: where the footprint of each file can come from; `Written` and `OrphanLeaves`, what the two kinds of probes leave |
| `ReservationsHold` | `ReservationCoversHeld` | `Sampled`: an undisturbed sample saw what the tree held; `OnFile`, `Carried`: it reaches the file and the record, which no probe of a lost attempt can disturb (its `gen` is smaller) |

`StagePipeline_proofs`, for any manifests that keep `ManifestAssumption`, any smoke methods and any
number of slots, launchers and faults:

| Theorem | Property | Rests on |
|---|---|---|
| `TypeCorrect` | `TypeOK` | `Base`: the rows are a manifest's, and each launcher is `Sound` by itself |
| `RunsAreClosedAlways` | `RunsAreClosed` | `Sound` |
| `SeedsAreCountedOnce` | `SeedsCountedOnce` | `Paid`: launches of a row, and one more if it is pending, against the times it was marked |
| `ReadyAreAdmitted` | `ReadyIsAdmitted` | `OneLive`, `LastSaved` |
| `ReadyTrainOnLast` | `ReadyTrainsOnLast` | `OneLive`, `LastSaved`, and that the newest file is chosen (`ChosenIs`) |

A green row alone does not say that its last weights are the newest on the disk: `LastSaved` says it
from the end of the training on, while the run is closed and the row still says running, and `OneLive`
that no second launcher of that row can write after it. `ActBecomes` goes through the launcher's
actions once, for all of these.

In `Footprints_proofs`, `LargestOf` and `LargestReading` say that the table really holds the largest reading of a finite
set of stages.

Only model-checked: every liveness property (`PendingIsServed`, `RecordedRunEnds`,
`EveryMethodDecided`, `RunningIsResumed`, `OomIsNoted`, `TroubleIsTold`, `ReliefIsTold`,
`RunningSettles`: liveness under fairness is out of the proof system's reach) and the violations.

## Known disagreements

Four have a run: `matrix_stuck`, `watchdog_stranded`, `state_file_race`, `stages_parent`. These
were met while modelling and have none:

* `oom_watchdog.py` 219-220 calls its write of the rows safe because the orchestrator is dead.
  No live scheduler is written under (`WritesWhenDead`), but the rows were read before the death
  was noticed, and what happened in between is undone. A scheduler that launches a cell and
  is killed, both after `Look` had read that cell as pending, loses the launch to the write (if some
  cell has become poison by then), and the next scheduler trains the cell a second time beside the
  first launcher. `NoSecondLaunch` says that this
  is the only way to two launchers.
* `autoresearch_smoke.py` 5-6 promises a summary on all green; line 498 counts only pending and red,
  so the summary is sent while methods are at `awaiting_prereq`.
* `_launch_common.py` 126-128 bounds a smoke test by an alarm; `wandb_stub.py` 83 swallows that alarm
  when it rings inside a flush, and the hard timeout of the harness ends the test instead.
* `run_dd.py` 51-53 lets the MLflow run "capture the failure"; its run is closed as `FINISHED`.
* `matrix_monitor.py` 16-18 promises a recovery ping; the GPU alarm is cleared without one (224-226).
* `build_final_scores.py` calls the number of runs `n_seeds`; a row marked pending again after it
  scored counts twice (`SeedsCountedOnce` says how often).
* `run_eda.py` 95, `run_qgpo.py` 102, `run_ldcq.py` 111 and 164, `run_dql.py` 108 and `run_diffuser.py` 64 catch
  `KeyboardInterrupt` together with `TimeoutSentinel`, print "smoke timeout" and return 0 whether or not this is
  a smoke test: a matrix stage that an operator interrupts becomes green without its last checkpoint, and is
  never run again.
* `run_corl.py` 143-167 opens its run before the `try` whose `finally` closes it; what fails in between
  leaves it open.
* `autoresearch_smoke.py` 614-625 advises a concurrency from the reservation of an ordinary row;
  `long_runner.py` 305-307 reserves 1.8 times as much for the humanoid, and a row that does not fit at all
  is advised to run once.
* `long_runner.py` 301-302 reserves 4 GB by default; an algorithm that is in the table without
  a reading gets the floor of 0.5 GB.
* `autoresearch_smoke.py` 549-556 wants the most recent green attempt and takes the most recent
  one that logged a loss.

## Not modelled

* `run_dd.py`: its rows are skipped from the start.
* The compatibility layer: sequential conversion of arrays, within a unit test's reach; what could
  be wrong is in values that these models abstract from.
* `progress_dashboard.py`, `--plan`, `--status`: they read and print. `first_score_notify.py` posts
  once and ends.
* The one-shot data, validation and tunnel scripts, and what the submodules train, except as the choices
  of the environment named above.
* That the checkpoints of two seeds have different names: `SharesHome` is read off the launchers (`expid` of
  EDA and QGPO holds the seed; LDCQ's folder holds only the environment, and the manifest has no LDCQ
  row), and a property over it would restate it.
* Two smoke loops at once, and the operator's own edits of the files under `state/`.

`PROJECT.json` lists every component with its status and every hazard with the properties that
cover it or the reason none does.
