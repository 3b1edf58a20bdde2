---------------------------- MODULE MatrixRunner ----------------------------
(***************************************************************************)
(* The matrix orchestrator, scripts/long_runner.py: the bin-packing        *)
(* scheduler of `--execute`, its state file state/matrix.json, the         *)
(* launcher processes it starts in sessions of their own, and the          *)
(* operator's `--mark`, `--reassign` and `--export_pool` commands.         *)
(*                                                                         *)
(* One scheduler runs at a time (the pid guard of `make matrix`); it may   *)
(* be killed or interrupted at any step, and whatever it had launched goes *)
(* on running.  A command of the operator is one atomic update of the      *)
(* file; that it is really a read and two writes is the business of module *)
(* MatrixStateFile.                                                        *)
(***************************************************************************)
EXTENDS Naturals, FiniteSets

CONSTANTS
  Cells,         (* rows of the manifest, each named by its position in it  *)
  Pools,         (* values of the rows' pool field                          *)
  DefaultPool,   (* the pool of a fresh manifest                            *)
  ThisPool,      (* --pool of the scheduler                                 *)
  EstHours,      (* est_hours of each row, in units                         *)
  HeavyFirst,    (* --heavy_first                                           *)
  Vram, Ram,     (* _row_budget of each row, in units                       *)
  VramSum,       (* the sum of Vram over a set of cells (VramSumAssumption) *)
  RamSum,        (* the sum of Ram over a set of cells                      *)
  VramBudget,    (* GPU_VRAM_BUDGET_GB                                      *)
  RamBudget,     (* SYSTEM_RAM_BUDGET_GB                                    *)
  MaxConcurrency,(* --max_concurrency                                       *)
  Pids, NoPid,   (* process ids the kernel hands out; a row's pid of None   *)
  NoCell,
  CarefulOperator, (* the operator stops the scheduler before any command   *)
                   (* and re-pends only rows whose launcher is gone and     *)
                   (* whose pid field is None                               *)
  MaxCrashes, MaxCommands  (* bounds on deaths and operator commands        *)

ASSUME CellsAssumption == /\ Cells \subseteq Nat
                          /\ IsFiniteSet(Cells)
                          /\ NoCell \notin Cells
                          /\ DefaultPool \in Pools /\ ThisPool \in Pools
                          /\ NoPid \notin Pids
ASSUME OrderAssumption == /\ EstHours \in [Cells -> Nat]
                          /\ HeavyFirst \in BOOLEAN
ASSUME BudgetAssumption == /\ MaxConcurrency \in Nat
                           /\ VramBudget \in Nat
                           /\ RamBudget \in Nat
                           /\ Vram \in [Cells -> Nat]
                           /\ Ram \in [Cells -> Nat]
(* VramSum and RamSum are sums: the two equations determine them on the    *)
(* subsets of a finite set.                                                *)
IsSumOf(sum, w) == /\ sum \in [SUBSET Cells -> Nat]
                   /\ sum[{}] = 0
                   /\ \A S \in SUBSET Cells : \A c \in Cells \ S :
                         sum[S \cup {c}] = sum[S] + w[c]
ASSUME SumAssumption == IsSumOf(VramSum, Vram) /\ IsSumOf(RamSum, Ram)
ASSUME BoundAssumption == /\ MaxCrashes \in Nat
                          /\ MaxCommands \in Nat
                          /\ CarefulOperator \in BOOLEAN

VARIABLES
  disk,      (* state/matrix.json: status, pid and pool of each row         *)
  mem,       (* the rows in the scheduler's memory                          *)
  pc,        (* where the scheduler is; "down" when there is none           *)
  pending,   (* its list of pending rows, the list's order being Before     *)
  running,   (* cells of its list of running tuples                         *)
  toPoll,    (* those the reap pass has yet to poll                         *)
  cur,       (* the row being launched                                      *)
  owner,     (* the cell whose launcher holds each pid                      *)
  exit,      (* exit code of a launcher that ended and is not waited for    *)
  crashes, commands  (* how often the scheduler died, the operator acted    *)

schedVars == <<mem, pending, running, toPoll, cur>>
procVars  == <<owner, exit>>
envVars   == <<crashes, commands>>
vars      == <<disk, pc, schedVars, procVars, envVars>>

ExitCodes == {"green", "skipped", "awaiting_prereq", "red"}
Statuses  == {"pending", "running", "delegated"} \cup ExitCodes
Rows      == [status : Statuses, pid : Pids \cup {NoPid}, pool : Pools]

(***************************************************************************)
(* Processes.  A launcher is live until it exits; a child of the running   *)
(* scheduler then stays a zombie, and keeps its pid, until it is polled.   *)
(***************************************************************************)
Live(p) == owner[p] # NoCell /\ exit[p] = "none"
LiveOf(c) == {p \in Pids : owner[p] = c /\ exit[p] = "none"}
LiveCells == {c \in Cells : LiveOf(c) # {}}

(* The Popen objects the scheduler holds.                                  *)
Handles == {mem[c].pid : c \in running}
             \cup (IF pc = "stamp" THEN {mem[cur].pid} ELSE {})

(* os.kill(pid, 0): a zombie still answers.                                *)
PidAlive(p) == owner[p] # NoCell

(***************************************************************************)
(* The pending list is sorted once and only ever loses elements, so it is  *)
(* a set with the sort's order: est_hours, ties in manifest order.         *)
(***************************************************************************)
Before(c, d) ==
  \/ IF HeavyFirst THEN EstHours[c] > EstHours[d] ELSE EstHours[c] < EstHours[d]
  \/ EstHours[c] = EstHours[d] /\ c < d

(* Seeded faults: the row is not counted in what it must fit into; a row   *)
(* that fills the budget exactly is turned away.                           *)
Fits_WithoutTheRow(c) == VramSum[running] <= VramBudget /\ RamSum[running] <= RamBudget
Fits_Strictly(c) == /\ VramSum[running] + Vram[c] < VramBudget
                    /\ RamSum[running] + Ram[c] <= RamBudget

Fits(c) == /\ VramSum[running] + Vram[c] <= VramBudget
           /\ RamSum[running] + Ram[c] <= RamBudget

Init ==
  /\ disk = [c \in Cells |-> [status |-> "pending", pid |-> NoPid, pool |-> DefaultPool]]
  /\ mem = disk
  /\ pc = "down"
  /\ pending = {} /\ running = {} /\ toPoll = {} /\ cur = NoCell
  /\ owner = [p \in Pids |-> NoCell]
  /\ exit = [p \in Pids |-> "none"]
  /\ crashes = 0 /\ commands = 0

-----------------------------------------------------------------------------
(* The scheduler process goes away.  Its memory is gone (mem is then kept  *)
(* equal to the file, a value nobody reads), its zombies are reaped by     *)
(* init and its live children run on (preexec_fn=os.setsid).               *)
Vanish ==
  /\ pc' = "down"
  /\ mem' = disk
  /\ pending' = {} /\ running' = {} /\ toPoll' = {} /\ cur' = NoCell
  /\ owner' = [p \in Pids |-> IF exit[p] # "none" THEN NoCell ELSE owner[p]]
  /\ exit' = [p \in Pids |-> "none"]

(* save_state: the file becomes what the scheduler has in memory.          *)
Save == disk' = mem'

(* main: the state file is loaded and saved back as it was read.           *)
Boot ==
  /\ pc = "down"
  /\ pc' = "loaded"
  /\ mem' = disk
  /\ UNCHANGED <<disk, pending, running, toPoll, cur, procVars, envVars>>

(* Seeded faults: any recorded pid counts as gone; only rows of the        *)
(* scheduler's pool are recovered.                                         *)
Stale_WhateverItsPid(r) == r.status = "running" /\ r.pid # NoPid
Stale_OfThisPool(r) == /\ r.status = "running" /\ r.pid # NoPid /\ ~PidAlive(r.pid)
                       /\ r.pool = ThisPool

Stale(r) == r.status = "running" /\ r.pid # NoPid /\ ~PidAlive(r.pid)

RecoveredRow(r) ==
  IF Stale(r) THEN [r EXCEPT !.status = "pending", !.pid = NoPid] ELSE r

(* Rows whose recorded pid is gone go back to pending, and the file is     *)
(* saved; with nothing pending in the pool cmd_execute returns.            *)
Recover ==
  /\ pc = "loaded"
  /\ mem' = [c \in Cells |-> RecoveredRow(mem[c])]
  /\ Save
  /\ pending' = {c \in Cells : mem'[c].status = "pending" /\ mem'[c].pool = ThisPool}
  /\ pc' = IF pending' = {} THEN "down" ELSE "head"
  /\ UNCHANGED <<running, toPoll, cur, procVars, envVars>>

(* while pending or running                                                *)
LoopHead ==
  /\ pc = "head"
  /\ pending # {} \/ running # {}
  /\ pc' = "reap"
  /\ toPoll' = running
  /\ UNCHANGED <<disk, mem, pending, running, cur, procVars, envVars>>

Complete ==
  /\ pc = "head"
  /\ pending = {} /\ running = {}
  /\ Vanish
  /\ UNCHANGED <<disk, envVars>>

PollAlive(c) ==
  /\ pc = "reap" /\ c \in toPoll
  /\ exit[mem[c].pid] = "none"
  /\ toPoll' = toPoll \ {c}
  /\ UNCHANGED <<disk, mem, pc, pending, running, cur, procVars, envVars>>

(* Seeded fault: the status is left alone.                                 *)
FinishedRow_StatusKept(r, rc) == [r EXCEPT !.pid = NoPid]

(* _on_cell_finished: the launcher's exit code, by the status it becomes.  *)
FinishedRow(r, rc) == [r EXCEPT !.status = rc, !.pid = NoPid]

(* poll() takes the exit code, the row records it, and the file is saved.  *)
PollFinished(c) ==
  /\ pc = "reap" /\ c \in toPoll
  /\ exit[mem[c].pid] # "none"
  /\ mem' = [mem EXCEPT ![c] = FinishedRow(@, exit[mem[c].pid])]
  /\ Save
  /\ owner' = [owner EXCEPT ![mem[c].pid] = NoCell]
  /\ exit' = [exit EXCEPT ![mem[c].pid] = "none"]
  /\ toPoll' = toPoll \ {c}
  /\ running' = running \ {c}
  /\ UNCHANGED <<pc, pending, cur, envVars>>

(* The RAM and vRAM floors are read once per pass; what they read is the   *)
(* environment's choice.                                                   *)
FloorBlocks ==
  /\ pc = "reap" /\ toPoll = {}
  /\ pc' = "sleep"
  /\ UNCHANGED <<disk, schedVars, procVars, envVars>>

FloorAdmits ==
  /\ pc = "reap" /\ toPoll = {}
  /\ pc' = "admit"
  /\ UNCHANGED <<disk, schedVars, procVars, envVars>>

AtCap == Cardinality(running) >= MaxConcurrency

(* The admission scan launches the first pending row that fits.  It need   *)
(* not go back over rows it passed: until the next reap pass running only  *)
(* grows, so a row that did not fit still does not.                        *)
Claim(c) ==
  /\ pc = "admit"
  /\ ~AtCap
  /\ c \in pending /\ Fits(c)
  /\ \A d \in pending \ {c} : Fits(d) => Before(c, d)
  /\ mem' = [mem EXCEPT ![c].status = "running"]
  /\ Save
  /\ cur' = c
  /\ pc' = "popen"
  /\ UNCHANGED <<pending, running, toPoll, procVars, envVars>>

AdmitDone ==
  /\ pc = "admit"
  /\ \/ AtCap
     \/ \A c \in pending : ~Fits(c)
  /\ pc' = "sleep"
  /\ UNCHANGED <<disk, schedVars, procVars, envVars>>

(* _launch_one, and row["pid"] = proc.pid in memory.                       *)
Popen(p) ==
  /\ pc = "popen"
  /\ owner[p] = NoCell
  /\ owner' = [owner EXCEPT ![p] = cur]
  /\ mem' = [mem EXCEPT ![cur].pid = p]
  /\ pc' = "stamp"
  /\ UNCHANGED <<disk, pending, running, toPoll, cur, exit, envVars>>

(* Seeded fault: the row stays in the pending list.                        *)
Stamp_StillPending ==
  /\ pc = "stamp"
  /\ UNCHANGED mem /\ Save
  /\ running' = running \cup {cur}
  /\ cur' = NoCell
  /\ pc' = "admit"
  /\ UNCHANGED <<pending, toPoll, procVars, envVars>>

(* Seeded fault: the process is not added to the running list.             *)
Stamp_NotRunning ==
  /\ pc = "stamp"
  /\ UNCHANGED mem /\ Save
  /\ pending' = pending \ {cur}
  /\ cur' = NoCell
  /\ pc' = "admit"
  /\ UNCHANGED <<running, toPoll, procVars, envVars>>

(* The second save of a launch, the one that makes the pid durable.        *)
Stamp ==
  /\ pc = "stamp"
  /\ UNCHANGED mem /\ Save
  /\ running' = running \cup {cur}
  /\ pending' = pending \ {cur}
  /\ cur' = NoCell
  /\ pc' = "admit"
  /\ UNCHANGED <<toPoll, procVars, envVars>>

Sleep ==
  /\ pc = "sleep"
  /\ pc' = "head"
  /\ UNCHANGED <<disk, schedVars, procVars, envVars>>

(* SIGKILL, the OOM killer, a reboot (the children then end too), an     *)
(* uncaught exception, or the KeyboardInterrupt the loop answers by        *)
(* returning 130 and "leaving running cells alone": the same to the file   *)
(* and the children.                                                       *)
Crash ==
  /\ pc # "down"
  /\ crashes < MaxCrashes
  /\ crashes' = crashes + 1
  /\ Vanish
  /\ UNCHANGED <<disk, commands>>

-----------------------------------------------------------------------------
(* A launcher ends.  The scheduler's own child waits to be polled; an      *)
(* orphan disappears with its exit code.                                   *)
Exit(p, rc) ==
  /\ Live(p)
  /\ IF p \in Handles
       THEN exit' = [exit EXCEPT ![p] = rc] /\ UNCHANGED owner
       ELSE owner' = [owner EXCEPT ![p] = NoCell] /\ UNCHANGED exit
  /\ UNCHANGED <<disk, schedVars, pc, envVars>>

-----------------------------------------------------------------------------
Command ==
  /\ commands < MaxCommands
  /\ commands' = commands + 1
  /\ CarefulOperator => pc = "down"
  /\ UNCHANGED <<schedVars, pc, procVars, crashes>>

(* cmd_mark: the status alone changes, the pid field stays.                *)
Mark(c, to) ==
  /\ Command
  /\ CarefulOperator /\ to = "pending" => LiveOf(c) = {} /\ disk[c].pid = NoPid
  /\ disk' = [disk EXCEPT ![c].status = to]

(* cmd_reassign_pool: S is the set of rows the pattern matches.            *)
ReassignPool(S, pool) ==
  /\ Command
  /\ disk' = [c \in Cells |-> IF c \in S THEN [disk[c] EXCEPT !.pool = pool] ELSE disk[c]]

(* cmd_export_pool: every row of the pool, whatever its status.            *)
ExportPool(pool) ==
  /\ Command
  /\ \E c \in Cells : disk[c].pool = pool
  /\ disk' = [c \in Cells |-> IF disk[c].pool = pool
                                THEN [disk[c] EXCEPT !.status = "delegated"]
                                ELSE disk[c]]

-----------------------------------------------------------------------------
Scheduler ==
  \/ Recover \/ LoopHead \/ Complete
  \/ \E c \in Cells : PollAlive(c) \/ PollFinished(c) \/ Claim(c)
  \/ FloorBlocks \/ FloorAdmits \/ AdmitDone
  \/ \E p \in Pids : Popen(p)
  \/ Stamp \/ Sleep

Operator ==
  \/ \E c \in Cells, to \in {"pending", "skipped", "green", "red"} : Mark(c, to)
  \/ \E S \in SUBSET Cells, pool \in Pools : ReassignPool(S, pool)
  \/ \E pool \in Pools : ExportPool(pool)

Next ==
  \/ Boot \/ Scheduler \/ Crash
  \/ \E p \in Pids, rc \in ExitCodes : Exit(p, rc)
  \/ Operator

Spec == Init /\ [][Next]_vars

(***************************************************************************)
(* Fairness.  A live scheduler keeps taking steps (its sleeps are finite); *)
(* someone re-invokes it after it stopped; every launcher ends sooner or   *)
(* later; and memory is not short at every pass for ever.                  *)
(***************************************************************************)
Fairness ==
  /\ WF_vars(Boot)
  /\ WF_vars(Scheduler)
  /\ SF_vars(FloorAdmits)
  /\ \A p \in Pids : WF_vars(\E rc \in ExitCodes : Exit(p, rc))

FairSpec == Spec /\ Fairness

-----------------------------------------------------------------------------
(* Every variable has its type.                                            *)
TypeOK ==
  /\ disk \in [Cells -> Rows]
  /\ mem \in [Cells -> Rows]
  /\ pc \in {"down", "loaded", "head", "reap", "admit", "popen", "stamp", "sleep"}
  /\ pending \subseteq Cells
  /\ running \subseteq Cells
  /\ toPoll \subseteq running
  /\ cur \in Cells \cup {NoCell}
  /\ owner \in [Pids -> Cells \cup {NoCell}]
  /\ exit \in [Pids -> ExitCodes \cup {"none"}]
  /\ crashes \in 0..MaxCrashes
  /\ commands \in 0..MaxCommands

(* However often the scheduler dies between any two of its steps and is    *)
(* started again, no cell is ever trained by two live launchers at once,   *)
(* and no pid of one cell is taken for another's: two launchers of a cell  *)
(* write the same checkpoint directory and log.                            *)
NoDoubleLaunch == \A c \in Cells : \A p, q \in LiveOf(c) : p = q

(* What one scheduler has admitted and not yet reaped, the row between its *)
(* two saves included, stays within --max_concurrency and both budgets.    *)
Admitted == running \cup {c \in {cur} : c # NoCell}
WithinLimits == /\ Cardinality(Admitted) <= MaxConcurrency
                /\ VramSum[Admitted] <= VramBudget
                /\ RamSum[Admitted] <= RamBudget

(* Counting the orphans of earlier schedulers too: each death of the       *)
(* scheduler can add at most one more load of --max_concurrency launchers  *)
(* to the machine, and at most one more of each budget to what the live    *)
(* launchers' rows reserve.                                                *)
OrphansBounded == /\ Cardinality(LiveCells) <= MaxConcurrency * (crashes + 1)
                  /\ VramSum[LiveCells] <= VramBudget * (crashes + 1)
                  /\ RamSum[LiveCells] <= RamBudget * (crashes + 1)

(* Seen through the status fields and the launchers' pids, the             *)
(* orchestrator keeps the promise of CellLifecycle.                        *)
Lifecycle == INSTANCE CellLifecycle
               WITH status <- [c \in Cells |-> disk[c].status],
                    exec <- [c \in Cells |-> {p \in Pids : owner[p] = c}],
                    Results <- ExitCodes,
                    Parked <- {"delegated"}
LifecycleSpec == Lifecycle!Spec

(* The file never lags behind the scheduler by more than the pid of the    *)
(* row being launched: "State file is updated on every transition".        *)
FileKeepsUp ==
  pc \notin {"down", "loaded"} =>
    \A c \in Cells : disk[c] # mem[c] =>
      /\ pc = "stamp" /\ c = cur
      /\ disk[c] = [mem[c] EXCEPT !.pid = NoPid]

(* A result in the file is final: only the operator changes the row of a   *)
(* cell that ended green, red, skipped or awaiting its prerequisite.       *)
ResultsAreFinal ==
  [][\A c \in Cells : disk[c].status \in ExitCodes /\ disk'[c] # disk[c]
                        => commands' # commands]_vars

(* When the scheduler says the matrix is complete, every row of its pool   *)
(* has been settled, except those whose launcher outlived an earlier       *)
(* scheduler or that died while being launched.                            *)
CompleteMeansSettled ==
  [][Complete => \A c \in Cells : disk[c].pool = ThisPool =>
       \/ disk[c].status \in ExitCodes \cup {"delegated"}
       \/ disk[c].status = "running" /\ crashes > 0]_vars

(* A pending row of the scheduler's pool does not stay pending for ever:   *)
(* it is launched, given the assumption that each row fits the budgets on  *)
(* an idle machine, or the operator takes it away.                         *)
PendingIsServed ==
  \A c \in Cells :
    disk[c].status = "pending" /\ disk[c].pool = ThisPool
      ~> disk[c].status # "pending" \/ disk[c].pool # ThisPool

(* A row that says running under a recorded pid does not say so for ever:  *)
(* its scheduler reaps it, or a later one recovers it.                     *)
RecordedRunEnds ==
  \A c \in Cells :
    disk[c].status = "running" /\ disk[c].pid # NoPid
      ~> disk[c].status # "running"

(* The module's opening comment, "`running` cells whose PID is stale are   *)
(* recovered", taken at its word: a row left running with no launcher      *)
(* behind it is put back or settled by some later scheduler.               *)
StaleRunIsRecovered ==
  \A c \in Cells :
    disk[c].status = "running" /\ LiveOf(c) = {} ~> disk[c].status # "running"
=============================================================================
