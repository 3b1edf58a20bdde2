---------------------------- MODULE StagePipeline ----------------------------
(***************************************************************************)
(* The launchers (scripts/run_*.py) and what they leave behind.  A matrix  *)
(* row, or a smoke method, becomes a launcher process: it may refuse, it   *)
(* opens an MLflow run, looks for the checkpoints of the earlier stages of *)
(* its method, trains, and closes its run.  The rows are admitted whenever *)
(* there is room, whatever their stage, and smoke tests write into the     *)
(* directories of the matrix cells of seed 0.  The score tables read the   *)
(* MLflow runs.  Budgets and the scheduler's deaths are MatrixRunner's.    *)
(***************************************************************************)
EXTENDS Integers, Sequences, FiniteSets, FiniteSetsExt

CONSTANTS
  Plans,       \* the manifests with their smoke methods, [rows, smokes] of cells
  Dropped,     \* state/dropped_algos.json
  Slots,       \* max_concurrency
  MaxLaunches, \* bound: launcher processes in a behaviour
  MaxFaults    \* bound: launchers that raise, are killed or interrupted, calls MLflow loses

Corl == {"bc", "cql", "iql", "td3bc", "dt"}
Stages == {"full", "behavior", "critic", "finetune", "skills", "collect", "diffusion",
           "q_net", "eval"}
Cells == [algo : Corl \cup {"dql", "diffuser", "eda", "qgpo", "ldcq"},
          env : {"halfcheetah", "humanoid"}, seed : 0 .. 2, stage : Stages]

ASSUME PlansAssumption == Plans \subseteq [rows : SUBSET Cells, smokes : SUBSET Cells]
ASSUME BoundsAssumption == Slots \in Nat \ {0} /\ MaxLaunches \in Nat /\ MaxFaults \in Nat

VARIABLES
  row,      \* the status of every row of the manifest
  todo,     \* the smoke methods that were not tried yet
  n,        \* launchers started so far
  launch,   \* each launcher with its MLflow run
  disk,     \* the checkpoint files, oldest first
  again,    \* how often each row was marked pending again
  faults    \* how often something went wrong
vars == <<row, todo, n, launch, disk, again, faults>>

Ids == 1 .. MaxLaunches
Started == 1 .. n
Statuses == {"pending", "running", "green", "red", "skipped", "awaiting_prereq"}
Codes == {-9, -2, 0, 1, 2, 64, 65}

\* What may have happened to a launcher: a signal ended it, MLflow did not answer,
\* CORL's working copy of the configuration failed, SIGINT reached its training.
Mishaps == {"killed", "lost", "setup", "interrupted"}

\* The stages of a method whose checkpoints a stage loads.
Needs(c) ==
  CASE c.algo = "eda" /\ c.stage = "finetune" -> {"behavior", "critic"}
    [] c.algo = "qgpo" /\ c.stage = "critic" -> {"behavior"}
    [] c.algo = "ldcq" /\ c.stage \in {"collect", "diffusion", "q_net"} -> {"skills"}
    [] OTHER -> {}

StagesOf(algo) ==
  CASE algo = "eda" -> {"behavior", "critic", "finetune"}
    [] algo = "qgpo" -> {"behavior", "critic"}
    [] algo = "ldcq" -> {"skills", "collect", "diffusion", "q_net", "eval"}
    [] OTHER -> {"full"}

FinalStage(algo) ==
  CASE algo = "eda" -> "finetune" [] algo = "qgpo" -> "critic"
    [] algo \in {"bc", "cql", "iql", "dt", "dql"} -> "full" [] OTHER -> "none"

\* The stages whose scripts evaluate, by docs/03.
Evaluated == {"full", "critic", "finetune", "eval"}

\* The manifest holds no LDCQ, and with a stage those it needs.
ASSUME ManifestAssumption ==
  \A p \in Plans : \A c \in p.rows :
    c.algo # "ldcq" /\ \A s \in Needs(c) : [c EXCEPT !.stage = s] \in p.rows

Parents(c) == UNION {Needs([c EXCEPT !.stage = s]) : s \in StagesOf(c.algo)}

\* Both work in one directory: EDA's and QGPO's expid names the seed, LDCQ's
\* checkpoint names only the environment.
SharesHome(c, d) ==
  /\ c.algo = d.algo /\ c.env = d.env
  /\ c.algo = "ldcq" \/ c.seed = d.seed

Unused == [cell |-> [algo |-> "bc", env |-> "humanoid", seed |-> 0, stage |-> "full"],
           smoke |-> FALSE, pc |-> "unused", run |-> "none", mishaps |-> {}, scored |-> FALSE,
           left |-> 0, from |-> {}, rc |-> 0]

Files == [by : Ids, best : BOOLEAN, final : BOOLEAN]
Launches ==
  [cell : Cells, smoke : BOOLEAN,
   pc : {"unused", "start", "training", "closing", "ended", "reaped"},
   run : {"none", "RUNNING", "FINISHED"}, mishaps : SUBSET Mishaps, scored : BOOLEAN,
   left : 0 .. 2, from : SUBSET Files, rc : Codes]

Init ==
  /\ \E p \in Plans : row = [c \in p.rows |-> "pending"] /\ todo = p.smokes
  /\ n = 0 /\ launch = [i \in Ids |-> Unused]
  /\ disk = <<>> /\ again = [c \in DOMAIN row |-> 0] /\ faults = 0

Running == {i \in Started : launch[i].pc \notin {"ended", "reaped"}}

-----------------------------------------------------------------------------
\* The scheduler and the smoke harness.
Spawn(c, smoke) ==
  /\ n < MaxLaunches /\ n' = n + 1
  /\ launch' = [launch EXCEPT ![n + 1] =
       [Unused EXCEPT !.cell = c, !.smoke = smoke, !.pc = "start"]]
  /\ UNCHANGED <<disk, again, faults>>

LaunchRow(c) ==
  /\ row[c] = "pending"
  /\ Cardinality({d \in DOMAIN row : row[d] = "running"}) < Slots
  /\ row' = [row EXCEPT ![c] = "running"]
  /\ Spawn(c, FALSE)
  /\ UNCHANGED todo

\* The smoke harness tries one method at a time.
LaunchSmoke(c) ==
  /\ c \in todo /\ todo' = todo \ {c}
  /\ ~\E i \in Running : launch[i].smoke
  /\ Spawn(c, TRUE)
  /\ UNCHANGED row

StatusOf(rc) ==
  CASE rc = 0 -> "green" [] rc = 64 -> "skipped" [] rc = 65 -> "awaiting_prereq"
    [] OTHER -> "red"

\* Seeded fault: a return code of 0 is taken for a process that still runs.
CellFinished_IfTrue(i) ==
  /\ launch[i].pc = "ended" /\ launch[i].rc # 0
  /\ launch' = [launch EXCEPT ![i].pc = "reaped"]
  /\ row' = IF launch[i].smoke THEN row
            ELSE [row EXCEPT ![launch[i].cell] = StatusOf(launch[i].rc)]
  /\ UNCHANGED <<todo, n, disk, again, faults>>

CellFinished(i) ==
  /\ launch[i].pc = "ended"
  /\ launch' = [launch EXCEPT ![i].pc = "reaped"]
  /\ row' = IF launch[i].smoke THEN row
            ELSE [row EXCEPT ![launch[i].cell] = StatusOf(launch[i].rc)]
  /\ UNCHANGED <<todo, n, disk, again, faults>>

\* An operator, or the watchdog, marks a failed row pending.
MarkPending(c) ==
  /\ row[c] \in {"red", "awaiting_prereq"}
  /\ n < MaxLaunches
  /\ row' = [row EXCEPT ![c] = "pending"]
  /\ again' = [again EXCEPT ![c] = @ + 1]
  /\ UNCHANGED <<todo, n, launch, disk, faults>>

-----------------------------------------------------------------------------
\* A launcher.
Become(i, l) ==
  /\ launch' = [launch EXCEPT ![i] = l]
  /\ UNCHANGED <<row, todo, n, again>>

Fine == UNCHANGED faults
Fault == faults < MaxFaults /\ faults' = faults + 1

\* CORL skips what is dropped or has no configuration for the humanoid.
CorlSkips(c) == c.algo \in Corl /\ (c.algo \in Dropped \/ c.env = "humanoid")
DiffusionSkips(c) == c.algo \in {"dql", "diffuser"} /\ c.env = "humanoid"
StageUnknown(c) == c.algo \in {"eda", "qgpo", "ldcq"} /\ c.stage \notin StagesOf(c.algo)

Refusal(c) ==
  CASE CorlSkips(c) \/ DiffusionSkips(c) -> 64 [] StageUnknown(c) -> 2 [] OTHER -> 0

\* Nothing is opened for a cell that is refused.
Refuse(i) ==
  /\ launch[i].pc = "start" /\ Refusal(launch[i].cell) # 0
  /\ Become(i, [launch[i] EXCEPT !.pc = "ended", !.rc = Refusal(launch[i].cell)])
  /\ Fine /\ UNCHANGED disk

\* The run is opened, and nothing shared is looked at before the checkpoints are.
Opens(i) == launch[i].pc = "start" /\ Refusal(launch[i].cell) = 0

\* MLflow does not answer, at once or when the tags of the open run are written.
OpenFails(i) ==
  /\ Opens(i) /\ Fault
  /\ \E opened \in BOOLEAN :
       Become(i, [launch[i] EXCEPT !.pc = "ended", !.rc = 1, !.mishaps = @ \cup {"lost"},
                                   !.run = IF opened THEN "RUNNING" ELSE @])
  /\ UNCHANGED disk

\* run_corl opens its run before the try: a temporary directory or a configuration
\* that cannot be written ends the launcher without the finally clause.
SetupFails(i) ==
  /\ Opens(i) /\ launch[i].cell.algo \in Corl /\ Fault
  /\ Become(i, [launch[i] EXCEPT !.pc = "ended", !.run = "RUNNING", !.rc = 1,
                                 !.mishaps = @ \cup {"setup"}])
  /\ UNCHANGED disk

\* By their places on the disk.
Candidates(c, s) ==
  {k \in DOMAIN disk : LET d == launch[disk[k].by].cell IN SharesHome(c, d) /\ d.stage = s}

\* Seeded fault: the checkpoints are not sorted newest first.
Chosen_Oldest(c, s) == disk[Min(Candidates(c, s))]

\* The newest file; for LDCQ the newest _best file if there is one.
Chosen(c, s) ==
  LET best == {k \in Candidates(c, s) : c.algo = "ldcq" /\ disk[k].best}
  IN disk[Max(IF best # {} THEN best ELSE Candidates(c, s))]

Missing(c) == \E s \in Needs(c) : Candidates(c, s) = {}

\* Seeded fault: the early return is outside the try.
TurnAway_RunLeftOpen(i) ==
  /\ Opens(i) /\ Missing(launch[i].cell)
  /\ Become(i, [launch[i] EXCEPT !.pc = "ended", !.run = "RUNNING", !.rc = 65])
  /\ Fine /\ UNCHANGED disk

TurnAway(i) ==
  /\ Opens(i) /\ Missing(launch[i].cell)
  /\ Become(i, [launch[i] EXCEPT !.pc = "closing", !.run = "RUNNING", !.rc = 65])
  /\ Fine /\ UNCHANGED disk

\* LDCQ's collect stage runs two scripts.
Scripts(c) == IF c.stage = "collect" THEN 2 ELSE 1

Begin(i) ==
  /\ Opens(i) /\ ~Missing(launch[i].cell)
  /\ LET c == launch[i].cell IN
       Become(i, [launch[i] EXCEPT !.pc = "training", !.run = "RUNNING", !.left = Scripts(c),
                                   !.from = {Chosen(c, s) : s \in Needs(c)}])
  /\ Fine /\ UNCHANGED disk

Write(i, best, final) ==
  disk' = IF launch[i].cell.stage \in Parents(launch[i].cell)
          THEN Append(disk, [by |-> i, best |-> best, final |-> final]) ELSE disk

\* A checkpoint is written while the training goes on (bound: one per launcher).
Checkpoint(i) ==
  /\ launch[i].pc = "training" /\ ~\E k \in DOMAIN disk : disk[k].by = i
  /\ \E best \in BOOLEAN : (best => launch[i].cell.algo = "ldcq") /\ Write(i, best, FALSE)
  /\ UNCHANGED <<row, todo, n, launch, again, faults>>

\* An evaluation during the training logs a normalized score.
Evaluate(i) ==
  /\ launch[i].pc = "training" /\ ~launch[i].scored
  /\ launch[i].cell.stage \in Evaluated
  /\ Become(i, [launch[i] EXCEPT !.scored = TRUE])
  /\ Fine /\ UNCHANGED disk

NextScript(i) ==
  /\ launch[i].pc = "training" /\ launch[i].left = 2
  /\ Become(i, [launch[i] EXCEPT !.left = 1])
  /\ Fine /\ UNCHANGED disk

Closing(i, rc) == Become(i, [launch[i] EXCEPT !.pc = "closing", !.left = 0, !.rc = rc])

\* Seeded fault: a stage keeps its last weights in memory.
Complete_Unsaved(i) ==
  /\ launch[i].pc = "training" /\ launch[i].left = 1
  /\ Closing(i, 0)
  /\ Fine /\ UNCHANGED disk

\* The last script ends by itself, and a stage that others load ends with a save.
Complete(i) ==
  /\ launch[i].pc = "training" /\ launch[i].left = 1
  /\ Closing(i, 0)
  /\ Fine /\ Write(i, launch[i].cell.algo = "ldcq", TRUE)

\* alarm_timeout bounds a smoke test; the CORL launcher has no alarm.
Alarm(i) ==
  /\ launch[i].pc = "training" /\ launch[i].smoke /\ launch[i].cell.algo \notin Corl
  /\ Closing(i, 0)
  /\ Fine /\ UNCHANGED disk

Raise(i) ==
  /\ launch[i].pc = "training"
  /\ Closing(i, 1)
  /\ Fault /\ UNCHANGED disk

\* SIGINT while it trains, matrix launcher or not.  The clause for smoke timeouts
\* catches KeyboardInterrupt too, and the launcher returns 0; CORL has no such
\* clause, and outside runpy nobody catches it: the signal is the exit code.
Interrupt(i) ==
  /\ launch[i].pc = "training"
  /\ \E rc \in {0, -2} :
       /\ rc = 0 => launch[i].cell.algo \notin Corl
       /\ Become(i, [launch[i] EXCEPT !.pc = "closing", !.left = 0, !.rc = rc,
                                      !.mishaps = @ \cup {"interrupted"}])
  /\ Fault /\ UNCHANGED disk

\* The finally clause.  A close that fails is swallowed.
EndRun(i) ==
  /\ launch[i].pc = "closing"
  /\ \/ Fine /\ Become(i, [launch[i] EXCEPT !.pc = "ended", !.run = "FINISHED"])
     \/ Fault /\ Become(i, [launch[i] EXCEPT !.pc = "ended", !.mishaps = @ \cup {"lost"}])
  /\ UNCHANGED disk

\* The OOM killer, the harness at its hard timeout, or SIGINT outside the try: no
\* finally clause runs, or not to its end, and the run may just have been opened.
Kill(i) ==
  /\ launch[i].pc \in {"start", "training", "closing"}
  /\ \E opened \in BOOLEAN :
       /\ opened => Opens(i)
       /\ Become(i, [launch[i] EXCEPT !.pc = "ended", !.left = 0, !.rc = -9,
                                      !.mishaps = @ \cup {"killed"},
                                      !.run = IF opened THEN "RUNNING" ELSE @])
  /\ Fault /\ UNCHANGED disk

-----------------------------------------------------------------------------
\* The tables.

\* Seeded fault: the runs of the smoke tests are not told apart.
Counts_Smoke(l) == l.scored /\ l.cell.stage = FinalStage(l.cell.algo)

\* build_final_scores: a scored run of the final stage, from the matrix' own
\* experiment and without the smoke tag, whatever its status.
Counts(l) == l.scored /\ ~l.smoke /\ l.cell.stage = FinalStage(l.cell.algo)

Group(algo, env) ==
  {i \in Started : Counts(launch[i]) /\ launch[i].cell.algo = algo /\ launch[i].cell.env = env}

-----------------------------------------------------------------------------
Trains(i) == Complete(i) \/ NextScript(i) \/ Alarm(i) \/ Raise(i)
Steps(i) ==
  \/ Refuse(i) \/ OpenFails(i) \/ SetupFails(i) \/ TurnAway(i)
  \/ Begin(i) \/ Trains(i) \/ EndRun(i)

Next ==
  \/ \E c \in DOMAIN row : LaunchRow(c) \/ MarkPending(c)
  \/ \E c \in todo : LaunchSmoke(c)
  \/ \E i \in Started :
       \/ Steps(i) \/ CellFinished(i) \/ Checkpoint(i) \/ Evaluate(i)
       \/ Interrupt(i) \/ Kill(i)

Spec == Init /\ [][Next]_vars

\* A launcher that can go on does, and so do the scheduler's polls;
\* nobody has to launch, to mark a row, to evaluate, to interrupt or to kill.
Fairness ==
  \A i \in Ids : WF_vars(i \in Started /\ Steps(i)) /\ WF_vars(i \in Started /\ CellFinished(i))
FairSpec == Spec /\ Fairness

-----------------------------------------------------------------------------
TypeOK ==
  /\ DOMAIN row \subseteq Cells /\ row \in [DOMAIN row -> Statuses]
  /\ todo \subseteq Cells /\ n \in 0 .. MaxLaunches
  /\ launch \in [Ids -> Launches]
  /\ \A i \in Ids : launch[i].pc = "unused" <=> i > n
  /\ disk \in Seq(Files) /\ \A k \in DOMAIN disk : disk[k].by \in Started
  /\ again \in [DOMAIN row -> Nat] /\ faults \in 0 .. MaxFaults

\* An open MLflow run has a live launcher, one that a signal ended, one that MLflow
\* did not answer, or a CORL launcher that failed between opening its run and the
\* try: one that is turned away, times out, raises or is interrupted while it
\* trains closes its run.
RunsAreClosed ==
  \A i \in Started : launch[i].run = "RUNNING" =>
    \/ launch[i].pc \notin {"ended", "reaped"}
    \/ launch[i].mishaps \cap {"killed", "lost"} # {}
    \/ launch[i].cell.algo \in Corl /\ "setup" \in launch[i].mishaps

\* The final table counts a cell once per time it was made pending: n_seeds is the
\* number of seeds as long as no final row was marked pending again.  Smoke tests
\* and the earlier stages of a method never count.
SeedsCountedOnce ==
  \A i \in Started : Counts(launch[i]) =>
    LET c == launch[i].cell IN
      /\ c \in DOMAIN row
      /\ Cardinality({j \in Group(c.algo, c.env) : launch[j].cell = c}) <= 1 + again[c]

\* A launcher of this row returned 0 because it was interrupted.
CutShort(c) ==
  \E j \in Started : /\ launch[j].cell = c /\ ~launch[j].smoke /\ launch[j].rc = 0
                     /\ "interrupted" \in launch[j].mishaps

\* Once every earlier stage of its method is green, and none because its launcher
\* was interrupted, no matrix stage is turned away for want of a checkpoint.
ReadyIsAdmitted ==
  [][\A i \in Started :
       launch[i].rc # 65 /\ launch'[i].rc = 65 /\ ~launch[i].smoke =>
         \E s \in Needs(launch[i].cell) :
           LET earlier == [launch[i].cell EXCEPT !.stage = s]
           IN row[earlier] # "green" \/ CutShort(earlier)]_vars

\* When the earlier stage is green, and not because it was interrupted, a matrix
\* stage takes its last checkpoint and none from the middle of a training; only a
\* smoke test can slip a newer one in.
ReadyTrainsOnLast ==
  [][\A i \in Started :
       launch[i].pc = "start" /\ launch'[i].pc = "training" /\ ~launch[i].smoke =>
         \A f \in launch'[i].from :
           LET earlier == [launch[i].cell EXCEPT !.stage = launch[f.by].cell.stage]
           IN row[earlier] = "green" /\ ~CutShort(earlier)
                => f.final \/ launch[f.by].smoke]_vars

\* A running row is settled: every launcher ends and its end is noticed, whatever
\* it returns.
RunningSettles ==
  \A i \in Ids : launch[i].pc = "start" ~> launch[i].pc = "reaped"

\* docs/05: the later stages load behavior_ckpt200.pth and critic_ckpt150.pth, the
\* checkpoints at the end of the earlier stages' training in the same matrix.
TrainsOnFinished ==
  \A i \in Started : ~launch[i].smoke =>
    \A f \in launch[i].from : f.final /\ ~launch[f.by].smoke
=============================================================================
