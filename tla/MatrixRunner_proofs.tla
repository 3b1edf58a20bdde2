------------------------ MODULE MatrixRunner_proofs -------------------------
(***************************************************************************)
(* Proofs about MatrixRunner, for every set of cells, every sizes and      *)
(* budgets, any number of deaths of the scheduler and of commands.         *)
(***************************************************************************)
EXTENDS MatrixRunner, FiniteSetTheorems, TLAPS

(***************************************************************************)
(* Type correctness.  A result is read through the pid in a running row,   *)
(* so the types hold only because every tracked row has one: Control.      *)
(***************************************************************************)
Control ==
  /\ cur # NoCell <=> pc \in {"popen", "stamp"}
  /\ pc \in {"down", "loaded"} => running = {} /\ pending = {}
  /\ \A c \in running : mem[c].pid \in Pids
  /\ pc = "stamp" => mem[cur].pid \in Pids

TypeInv == TypeOK /\ Control

LEMMA TypeInit == Init => TypeInv
BY CellsAssumption, BoundAssumption
   DEF Init, TypeInv, TypeOK, Control, Rows, Statuses

LEMMA RowTypes ==
  ASSUME NEW r \in Rows
  PROVE  /\ RecoveredRow(r) \in Rows
         /\ \A rc \in ExitCodes : FinishedRow(r, rc) \in Rows
         /\ \A s \in Statuses : [r EXCEPT !.status = s] \in Rows
         /\ \A p \in Pids : [r EXCEPT !.pid = p] \in Rows
         /\ \A pool \in Pools : [r EXCEPT !.pool = pool] \in Rows
<1>1. RecoveredRow(r) \in Rows
  BY DEF RecoveredRow, Rows, Statuses
<1>2. ASSUME NEW rc \in ExitCodes PROVE FinishedRow(r, rc) \in Rows
  BY DEF FinishedRow, Rows, Statuses
<1>3. ASSUME NEW s \in Statuses PROVE [r EXCEPT !.status = s] \in Rows
  BY DEF Rows
<1>4. ASSUME NEW p \in Pids PROVE [r EXCEPT !.pid = p] \in Rows
  BY DEF Rows
<1>5. ASSUME NEW pool \in Pools PROVE [r EXCEPT !.pool = pool] \in Rows
  BY DEF Rows
<1> QED BY <1>1, <1>2, <1>3, <1>4, <1>5

LEMMA VanishType ==
  ASSUME TypeInv, Vanish, UNCHANGED <<disk, commands>>,
         crashes' \in 0..MaxCrashes
  PROVE  TypeInv'
BY CellsAssumption DEF Vanish, TypeInv, TypeOK, Control

LEMMA TypeStep == TypeInv /\ [Next]_vars => TypeInv'
<1> SUFFICES ASSUME TypeInv, [Next]_vars PROVE TypeInv'
  OBVIOUS
<1> USE CellsAssumption DEF TypeInv, TypeOK, Control, procVars, envVars, schedVars
<1>1. CASE Boot
  BY <1>1 DEF Boot
<1>2. CASE Recover
  <2>1. ASSUME NEW c \in Cells PROVE RecoveredRow(mem[c]) \in Rows
    <3>1. mem[c] \in Rows
      OBVIOUS
    <3> QED BY ONLY <3>1, RowTypes
  <2>2. mem' \in [Cells -> Rows]
    BY <2>1, <1>2 DEF Recover
  <2>3. /\ pending' \subseteq Cells /\ running' = {} /\ cur' = NoCell
        /\ pc' \in {"down", "head"}
        /\ pc' = "down" => pending' = {}
    BY <1>2 DEF Recover
  <2>4. TypeOK'
    BY <2>2, <2>3, <1>2 DEF Recover, Save
  <2>5. Control'
    BY <2>3
  <2> QED BY <2>4, <2>5
<1>3. CASE LoopHead
  BY <1>3 DEF LoopHead
<1>4. CASE Complete
  BY <1>4, VanishType DEF Complete
<1>5. ASSUME NEW c \in Cells, PollAlive(c) PROVE TypeInv'
  BY <1>5 DEF PollAlive
<1>6. ASSUME NEW c \in Cells, PollFinished(c) PROVE TypeInv'
  <2>1. mem[c].pid \in Pids /\ exit[mem[c].pid] \in ExitCodes
    BY <1>6 DEF PollFinished
  <2>2. FinishedRow(mem[c], exit[mem[c].pid]) \in Rows
    <3>1. mem[c] \in Rows
      OBVIOUS
    <3> QED BY ONLY <3>1, <2>1, RowTypes
  <2>4. mem' \in [Cells -> Rows]
    BY <2>2, <1>6 DEF PollFinished
  <2>3. \A d \in running' : mem'[d] = mem[d]
    BY <1>6 DEF PollFinished
  <2> QED BY <2>1, <2>4, <2>3, <1>6 DEF PollFinished, Save
<1>7. CASE FloorBlocks
  BY <1>7 DEF FloorBlocks
<1>8. CASE FloorAdmits
  BY <1>8 DEF FloorAdmits
<1>9. ASSUME NEW c \in Cells, Claim(c) PROVE TypeInv'
  <2>1. mem' \in [Cells -> Rows] /\ \A d \in Cells : mem'[d].pid = mem[d].pid
    BY <1>9 DEF Claim, Rows, Statuses
  <2> QED BY <2>1, <1>9 DEF Claim, Save
<1>10. CASE AdmitDone
  BY <1>10 DEF AdmitDone
<1>11. ASSUME NEW p \in Pids, Popen(p) PROVE TypeInv'
  <2>1. cur \in Cells
    BY <1>11 DEF Popen
  <2>2. mem' \in [Cells -> Rows] /\ mem'[cur].pid = p
    BY <2>1, <1>11 DEF Popen, Rows
  <2>3. \A d \in running : mem'[d].pid \in Pids
    BY <2>1, <1>11 DEF Popen, Rows
  <2> QED BY <2>1, <2>2, <2>3, <1>11 DEF Popen
<1>12. CASE Stamp
  BY <1>12 DEF Stamp, Save
<1>13. CASE Sleep
  BY <1>13 DEF Sleep
<1>14. CASE Crash
  BY <1>14, VanishType, BoundAssumption DEF Crash
<1>15. ASSUME NEW p \in Pids, NEW rc \in ExitCodes, Exit(p, rc) PROVE TypeInv'
  BY <1>15 DEF Exit
<1>16. ASSUME Command, disk' \in [Cells -> Rows] PROVE TypeInv'
  BY <1>16, BoundAssumption DEF Command
<1>17. ASSUME NEW c \in Cells, NEW to \in {"pending", "skipped", "green", "red"},
              Mark(c, to)
       PROVE  TypeInv'
  <2>1. disk' \in [Cells -> Rows]
    BY <1>17 DEF Mark, Rows, Statuses, ExitCodes
  <2> QED BY <2>1, <1>16, <1>17 DEF Mark
<1>18. ASSUME NEW S \in SUBSET Cells, NEW pool \in Pools, ReassignPool(S, pool)
       PROVE  TypeInv'
  <2>1. disk' \in [Cells -> Rows]
    BY <1>18 DEF ReassignPool, Rows
  <2> QED BY <2>1, <1>16, <1>18 DEF ReassignPool
<1>19. ASSUME NEW pool \in Pools, ExportPool(pool) PROVE TypeInv'
  <2>1. disk' \in [Cells -> Rows]
    BY <1>19 DEF ExportPool, Rows, Statuses
  <2> QED BY <2>1, <1>16, <1>19 DEF ExportPool
<1>20. CASE UNCHANGED vars
  BY <1>20 DEF vars
<1> QED BY <1>1, <1>2, <1>3, <1>4, <1>5, <1>6, <1>7, <1>8, <1>9, <1>10, <1>11,
           <1>12, <1>13, <1>14, <1>15, <1>17, <1>18, <1>19, <1>20
        DEF Next, Scheduler, Operator

(* Every variable keeps its type, whatever the operator does.              *)
THEOREM TypeCorrect == Spec => []TypeOK
<1>1. TypeInv => TypeOK
  BY DEF TypeInv
<1> QED BY <1>1, TypeInit, TypeStep, PTL DEF Spec

(* The strengthening is an invariant too.                                  *)
LEMMA TypeInvariance == Spec => []TypeInv
BY TypeInit, TypeStep, PTL DEF Spec

-----------------------------------------------------------------------------
(***************************************************************************)
(* No double launch.  The claim itself says nothing of the state file, so  *)
(* it is not inductive: a restart must not find a pending row, or a row    *)
(* under a dead pid, whose launcher is alive.                              *)
(***************************************************************************)

(* The file and the memory agree, but for the pid between the two saves.   *)
Agreement ==
  pc # "down" => \A c \in Cells :
     IF pc = "stamp" /\ c = cur THEN disk[c] = [mem[c] EXCEPT !.pid = NoPid]
                                ELSE disk[c] = mem[c]

OneOwner == \A p, q \in Pids : owner[p] = owner[q] /\ owner[p] # NoCell => p = q

(* The row of a cell that has a launcher is not pending, and if it is      *)
(* running its pid, once saved, is that launcher's.                        *)
OwnedRow == \A p \in Pids : \A c \in Cells : owner[p] = c =>
              /\ disk[c].status # "pending"
              /\ disk[c].status = "running" => disk[c].pid \in {p, NoPid}

PendingHasNoPid == \A c \in Cells : disk[c].status = "pending" => disk[c].pid = NoPid

Tracked == \A c \in running : /\ disk[c].status = "running" /\ c # cur
                              /\ owner[mem[c].pid] = c

Queued == \A c \in pending : c # cur => disk[c].status = "pending"

Launching ==
  /\ pc \in {"popen", "stamp"} => disk[cur].status = "running" /\ disk[cur].pid = NoPid
  /\ pc = "popen" => \A p \in Pids : owner[p] # cur
  /\ pc = "stamp" => owner[mem[cur].pid] = cur

(* Without a scheduler nobody is a zombie.                                 *)
NoZombies == pc \in {"down", "loaded"} => \A p \in Pids : exit[p] = "none"

LaunchInv == /\ Agreement /\ OneOwner /\ OwnedRow /\ PendingHasNoPid
             /\ Tracked /\ Queued /\ Launching /\ NoZombies

LEMMA RowFields ==
  ASSUME NEW r \in Rows
  PROVE  /\ Stale(r) => RecoveredRow(r).status = "pending" /\ RecoveredRow(r).pid = NoPid
         /\ \A p : r.pid = NoPid => r = [[r EXCEPT !.pid = p] EXCEPT !.pid = NoPid]
<1>1. Stale(r) => RecoveredRow(r).status = "pending" /\ RecoveredRow(r).pid = NoPid
  BY DEF RecoveredRow, Rows
<1>2. ASSUME NEW p, r.pid = NoPid PROVE r = [[r EXCEPT !.pid = p] EXCEPT !.pid = NoPid]
  BY <1>2 DEF Rows
<1> QED BY <1>1, <1>2

LEMMA LaunchInit == Init => LaunchInv
BY CellsAssumption
   DEF Init, LaunchInv, Agreement, OneOwner, OwnedRow, PendingHasNoPid, Tracked, Queued,
       Launching, NoZombies

LEMMA VanishLaunch ==
  ASSUME TypeInv, LaunchInv, Vanish, UNCHANGED disk
  PROVE  LaunchInv'
<1> USE DEF TypeInv, TypeOK
<1>1. \A p \in Pids : owner'[p] \in {owner[p], NoCell} /\ exit'[p] = "none"
  BY DEF Vanish
<1>2. OneOwner' /\ OwnedRow'
  BY <1>1, CellsAssumption DEF LaunchInv, OneOwner, OwnedRow
<1>3. PendingHasNoPid'
  BY DEF LaunchInv, PendingHasNoPid
<1>4. Agreement' /\ Tracked' /\ Queued' /\ Launching' /\ NoZombies'
  BY <1>1 DEF Vanish, Agreement, Tracked, Queued, Launching, NoZombies
<1> QED BY <1>2, <1>3, <1>4 DEF LaunchInv

LEMMA LaunchStep ==
  ASSUME CarefulOperator, TypeInv, LaunchInv, [Next]_vars
  PROVE  LaunchInv'
<1> USE CellsAssumption
    DEF TypeInv, TypeOK, Control, LaunchInv, Agreement, OneOwner, OwnedRow, PendingHasNoPid,
        Tracked, Queued, Launching, NoZombies, procVars, envVars, schedVars
<1>1. CASE Boot
  BY <1>1 DEF Boot
<1>2. CASE Recover
  <2>1. /\ \A c \in Cells : disk'[c] = RecoveredRow(disk[c]) /\ mem'[c] = disk'[c]
        /\ UNCHANGED <<owner, exit, running, cur>>
        /\ running = {} /\ cur = NoCell /\ pc' \in {"down", "head"}
    BY <1>2 DEF Recover, Save
  <2>2. ASSUME NEW c \in Cells
        PROVE  \/ disk'[c] = disk[c]
               \/ /\ disk'[c].status = "pending" /\ disk'[c].pid = NoPid
                  /\ \A p \in Pids : owner[p] # c
    <3>1. CASE Stale(disk[c])
      <4>1. disk'[c].status = "pending" /\ disk'[c].pid = NoPid
        <5>1. disk[c] \in Rows /\ disk'[c] = RecoveredRow(disk[c])
          BY <2>1
        <5> QED BY ONLY <3>1, <5>1, RowFields
      <4>2. disk[c].status = "running" /\ disk[c].pid # NoPid
            /\ owner[disk[c].pid] = NoCell
        BY <3>1 DEF Stale, PidAlive
      <4> QED BY <4>1, <4>2
    <3>2. CASE ~Stale(disk[c])
      BY <2>1, <3>2 DEF RecoveredRow
    <3> QED BY <3>1, <3>2
  <2>3. OwnedRow' /\ PendingHasNoPid'
    BY <2>1, <2>2
  <2>4. Queued'
    BY <2>1, <1>2 DEF Recover
  <2>5. exit' = exit /\ NoZombies'
    BY <2>1, <1>2 DEF Recover
  <2> QED BY <2>1, <2>3, <2>4, <2>5
<1>3. CASE LoopHead
  BY <1>3 DEF LoopHead
<1>4. CASE Complete
  BY <1>4, VanishLaunch DEF Complete
<1>5. ASSUME NEW c \in Cells, PollAlive(c) PROVE LaunchInv'
  BY <1>5 DEF PollAlive
<1>6. ASSUME NEW c \in Cells, PollFinished(c) PROVE LaunchInv'
  <2> DEFINE p == mem[c].pid
  <2>1. /\ p \in Pids /\ exit[p] \in ExitCodes /\ owner[p] = c
        /\ pc = "reap" /\ pc' = "reap" /\ cur = NoCell /\ cur' = NoCell
        /\ c \in running
    BY <1>6 DEF PollFinished
  <2>0. mem = disk
    BY <2>1
  <2>2. /\ disk' = [disk EXCEPT ![c] = FinishedRow(disk[c], exit[p])]
        /\ mem' = disk'
    BY <2>0, <1>6 DEF PollFinished, Save
  <2>3. /\ disk'[c].status = exit[p] /\ disk'[c].pid = NoPid
        /\ exit[p] \notin {"pending", "running"}
    BY <2>1, <2>2 DEF FinishedRow, Rows, ExitCodes
  <2>4. /\ owner' = [owner EXCEPT ![p] = NoCell]
        /\ running' = running \ {c} /\ UNCHANGED pending
    BY <1>6 DEF PollFinished
  <2>5. OneOwner' /\ OwnedRow' /\ PendingHasNoPid'
    BY <2>1, <2>2, <2>3, <2>4
  <2>6. ASSUME NEW d \in running' PROVE owner'[mem'[d].pid] = d
    BY <2>1, <2>2, <2>4
  <2>7. c \notin pending
    BY <2>1
  <2> QED BY <2>1, <2>2, <2>3, <2>4, <2>5, <2>6, <2>7
<1>7. CASE FloorBlocks
  BY <1>7 DEF FloorBlocks
<1>8. CASE FloorAdmits
  BY <1>8 DEF FloorAdmits
<1>9. ASSUME NEW c \in Cells, Claim(c) PROVE LaunchInv'
  <2>1. /\ pc = "admit" /\ pc' = "popen" /\ cur = NoCell /\ cur' = c
        /\ c \in pending /\ disk[c].status = "pending" /\ disk[c].pid = NoPid
        /\ \A p \in Pids : owner[p] # c
        /\ UNCHANGED <<owner, exit, running, pending>>
    BY <1>9 DEF Claim
  <2>0. mem = disk
    BY <2>1
  <2>2. /\ disk' = [disk EXCEPT ![c].status = "running"]
        /\ mem' = disk'
    BY <2>0, <1>9 DEF Claim, Save
  <2>3. disk'[c].status = "running" /\ disk'[c].pid = NoPid
    BY <2>1, <2>2 DEF Rows
  <2>4. \A d \in Cells \ {c} : disk'[d] = disk[d]
    BY <2>2
  <2> QED BY <2>1, <2>2, <2>3, <2>4
<1>10. CASE AdmitDone
  BY <1>10 DEF AdmitDone
<1>11. ASSUME NEW p \in Pids, Popen(p) PROVE LaunchInv'
  <2>1. /\ pc = "popen" /\ pc' = "stamp" /\ cur \in Cells /\ cur' = cur
        /\ owner[p] = NoCell /\ owner' = [owner EXCEPT ![p] = cur]
        /\ mem' = [mem EXCEPT ![cur].pid = p]
        /\ UNCHANGED <<disk, pending, running, exit>>
    BY <1>11 DEF Popen
  <2>2. mem'[cur].pid = p /\ disk[cur] = [mem'[cur] EXCEPT !.pid = NoPid]
    <3>1. mem[cur] \in Rows /\ mem'[cur] = [mem[cur] EXCEPT !.pid = p]
          /\ disk[cur] = mem[cur] /\ mem[cur].pid = NoPid
      BY <2>1
    <3>2. mem[cur] = [[mem[cur] EXCEPT !.pid = p] EXCEPT !.pid = NoPid]
      BY ONLY <3>1, RowFields
    <3>3. mem'[cur].pid = p
      BY <3>1 DEF Rows
    <3> QED BY <3>1, <3>2, <3>3, Zenon
  <2>3. \A d \in Cells \ {cur} : mem'[d] = mem[d]
    BY <2>1
  <2>4. OneOwner' /\ OwnedRow'
    BY <2>1
  <2>5. Tracked'
    BY <2>1, <2>3
  <2> QED BY <2>1, <2>2, <2>3, <2>4, <2>5
<1>12. CASE Stamp
  <2>1. /\ pc = "stamp" /\ pc' = "admit" /\ cur \in Cells /\ cur' = NoCell
        /\ disk' = mem /\ mem' = mem
        /\ running' = running \cup {cur} /\ pending' = pending \ {cur}
        /\ UNCHANGED <<owner, exit>>
    BY <1>12 DEF Stamp, Save
  <2>2. mem[cur].status = "running" /\ owner[mem[cur].pid] = cur
    BY <2>1 DEF Rows
  <2>3. \A d \in Cells \ {cur} : disk'[d] = disk[d]
    BY <2>1
  <2>4. OwnedRow' /\ PendingHasNoPid'
    BY <2>1, <2>2, <2>3
  <2> QED BY <2>1, <2>2, <2>3, <2>4
<1>13. CASE Sleep
  BY <1>13 DEF Sleep
<1>14. CASE Crash
  BY <1>14, VanishLaunch DEF Crash
<1>15. ASSUME NEW p \in Pids, NEW rc \in ExitCodes, Exit(p, rc) PROVE LaunchInv'
  <2>1. UNCHANGED <<disk, mem, pc, pending, running, cur>>
    BY <1>15 DEF Exit
  <2>2. CASE p \in Handles
    <3>1. owner' = owner /\ pc \notin {"down", "loaded"}
      BY <2>2, <1>15 DEF Exit, Handles
    <3> QED BY <2>1, <3>1
  <2>3. CASE p \notin Handles
    <3>1. exit' = exit /\ owner' = [owner EXCEPT ![p] = NoCell]
      BY <2>3, <1>15 DEF Exit
    <3>2. \A c \in running : mem[c].pid # p
      BY <2>3 DEF Handles
    <3>3. pc = "stamp" => mem[cur].pid # p
      BY <2>3 DEF Handles
    <3> QED BY <2>1, <3>1, <3>2, <3>3
  <2> QED BY <2>2, <2>3
<1>16. ASSUME Command,
              \A c \in Cells :
                /\ disk'[c].pid = disk[c].pid
                /\ \/ disk'[c].status \in {disk[c].status, "delegated", "skipped", "green", "red"}
                   \/ /\ disk'[c].status = "pending" /\ LiveOf(c) = {}
                      /\ disk[c].pid = NoPid
       PROVE  LaunchInv'
  <2>1. /\ pc = "down" /\ pc' = "down" /\ running = {} /\ pending = {}
        /\ UNCHANGED <<mem, owner, exit, running, pending, cur>>
    BY <1>16 DEF Command
  <2>2. \A c \in Cells : LiveOf(c) = {} => \A p \in Pids : owner[p] # c
    BY <2>1 DEF LiveOf
  <2>3. OwnedRow'
    BY <1>16, <2>1, <2>2
  <2>4. PendingHasNoPid'
    BY <1>16
  <2> QED BY <2>1, <2>3, <2>4
<1>17. ASSUME NEW c \in Cells, NEW to \in {"pending", "skipped", "green", "red"},
              Mark(c, to)
       PROVE  LaunchInv'
  <2>1. /\ disk' = [disk EXCEPT ![c].status = to]
        /\ to = "pending" => LiveOf(c) = {} /\ disk[c].pid = NoPid
        /\ Command
    BY <1>17 DEF Mark
  <2>2. disk'[c].status = to /\ disk'[c].pid = disk[c].pid
    BY <2>1 DEF Rows
  <2>3. \A d \in Cells \ {c} : disk'[d] = disk[d]
    BY <2>1
  <2> QED BY <2>1, <2>2, <2>3, <1>16
<1>18. ASSUME NEW S \in SUBSET Cells, NEW pool \in Pools, ReassignPool(S, pool)
       PROVE  LaunchInv'
  <2>1. \A c \in Cells : disk'[c].pid = disk[c].pid /\ disk'[c].status = disk[c].status
    BY <1>18 DEF ReassignPool, Rows
  <2> QED BY <2>1, <1>16, <1>18 DEF ReassignPool
<1>19. ASSUME NEW pool \in Pools, ExportPool(pool) PROVE LaunchInv'
  <2>1. \A c \in Cells : /\ disk'[c].pid = disk[c].pid
                         /\ disk'[c].status \in {disk[c].status, "delegated"}
    BY <1>19 DEF ExportPool, Rows
  <2> QED BY <2>1, <1>16, <1>19 DEF ExportPool
<1>20. CASE UNCHANGED vars
  BY <1>20 DEF vars
<1> HIDE DEF LaunchInv, TypeInv
<1> QED BY <1>1, <1>2, <1>3, <1>4, <1>5, <1>6, <1>7, <1>8, <1>9, <1>10, <1>11,
           <1>12, <1>13, <1>14, <1>15, <1>17, <1>18, <1>19, <1>20
        DEF Next, Scheduler, Operator

LEMMA LaunchInvariance ==
  ASSUME CarefulOperator PROVE Spec => [](TypeInv /\ LaunchInv)
<1>1. Init => TypeInv /\ LaunchInv
  BY TypeInit, LaunchInit
<1>2. TypeInv /\ LaunchInv /\ [Next]_vars => (TypeInv /\ LaunchInv)'
  BY TypeStep, LaunchStep
<1> QED BY <1>1, <1>2, PTL DEF Spec

(* A cell never has two live launchers, however often and wherever the     *)
(* scheduler dies, provided the operator is careful.                       *)
THEOREM NeverLaunchedTwice ==
  ASSUME CarefulOperator PROVE Spec => []NoDoubleLaunch
<1>1. TypeInv /\ LaunchInv => NoDoubleLaunch
  BY CellsAssumption DEF LaunchInv, OneOwner, NoDoubleLaunch, LiveOf
<1> QED BY <1>1, LaunchInvariance, PTL

(* The state file is at most one pid behind the scheduler.                 *)
THEOREM FileIsUpToDate ==
  ASSUME CarefulOperator PROVE Spec => []FileKeepsUp
<1>1. TypeInv /\ LaunchInv => FileKeepsUp
  BY DEF LaunchInv, Agreement, FileKeepsUp
<1> QED BY <1>1, LaunchInvariance, PTL

-----------------------------------------------------------------------------
(***************************************************************************)
(* Limits.  VramSum and RamSum are what SumAssumption says they are.       *)
(***************************************************************************)
LEMMA SumOfLess ==
  ASSUME NEW sum, NEW w \in [Cells -> Nat], IsSumOf(sum, w),
         NEW S \in SUBSET Cells, NEW c \in S
  PROVE  sum[S \ {c}] <= sum[S]
<1> DEFINE R == S \ {c}
<1>1. R \in SUBSET Cells /\ c \in Cells \ R /\ R \cup {c} = S
  OBVIOUS
<1>2. sum[S] = sum[R] + w[c]
  BY <1>1 DEF IsSumOf
<1>3. sum[R] \in Nat /\ w[c] \in Nat
  BY <1>1 DEF IsSumOf
<1> QED BY <1>2, <1>3

LEMMA FiniteCells ==
  ASSUME NEW S \in SUBSET Cells
  PROVE  IsFiniteSet(S) /\ Cardinality(S) \in Nat
BY CellsAssumption, FS_Subset, FS_CardinalityType

LEMMA NothingAdmitted ==
  Cardinality({}) <= MaxConcurrency /\ VramSum[{}] <= VramBudget /\ RamSum[{}] <= RamBudget
BY BudgetAssumption, SumAssumption, FS_EmptySet DEF IsSumOf

LEMMA LimitsStep ==
  ASSUME TypeInv, WithinLimits, [Next]_vars
  PROVE  WithinLimits'
<1> USE CellsAssumption DEF TypeInv, TypeOK, Control, procVars, envVars, schedVars
<1>1. ASSUME Admitted' = Admitted PROVE WithinLimits'
  BY <1>1 DEF WithinLimits
<1>2. ASSUME Vanish PROVE WithinLimits'
  <2>1. Admitted' = {}
    BY <1>2 DEF Vanish, Admitted
  <2> QED BY <2>1, NothingAdmitted DEF WithinLimits
<1>3. ASSUME NEW c \in Cells, PollFinished(c) PROVE WithinLimits'
  <2>1. cur = NoCell /\ cur' = NoCell /\ c \in running /\ running' = running \ {c}
    BY <1>3 DEF PollFinished
  <2>2. Admitted = running /\ Admitted' = running \ {c}
    BY <2>1 DEF Admitted
  <2>3. Cardinality(running \ {c}) <= Cardinality(running)
    BY <2>1, FiniteCells, FS_RemoveElement
  <2>4. /\ VramSum[running \ {c}] <= VramSum[running]
        /\ RamSum[running \ {c}] <= RamSum[running]
    BY <2>1, SumOfLess, BudgetAssumption, SumAssumption
  <2>5. /\ Cardinality(running) \in Nat /\ Cardinality(running \ {c}) \in Nat
        /\ VramSum[running] \in Nat /\ VramSum[running \ {c}] \in Nat
        /\ RamSum[running] \in Nat /\ RamSum[running \ {c}] \in Nat
    BY FiniteCells, SumAssumption DEF IsSumOf
  <2> QED BY <2>2, <2>3, <2>4, <2>5, BudgetAssumption DEF WithinLimits
<1>4. ASSUME NEW c \in Cells, Claim(c) PROVE WithinLimits'
  <2>1. /\ running' = running /\ cur' = c
        /\ ~(Cardinality(running) >= MaxConcurrency) /\ Fits(c)
    BY <1>4 DEF Claim, AtCap
  <2>2. Admitted' = running \cup {c}
    BY <2>1 DEF Admitted
  <2>3. CASE c \in running
    <3>1. running \cup {c} = running /\ Admitted = running
      BY <2>3, <1>4 DEF Claim, Admitted
    <3> QED BY <3>1, <2>2 DEF WithinLimits
  <2>4. CASE c \notin running
    <3>1. Cardinality(running \cup {c}) = Cardinality(running) + 1
      BY <2>4, FiniteCells, FS_AddElement
    <3>2. /\ VramSum[running \cup {c}] = VramSum[running] + Vram[c]
          /\ RamSum[running \cup {c}] = RamSum[running] + Ram[c]
      BY <2>4, SumAssumption DEF IsSumOf
    <3>3. Cardinality(running) \in Nat
      BY FiniteCells
    <3> QED BY <2>1, <2>2, <3>1, <3>2, <3>3, BudgetAssumption DEF WithinLimits, Fits
  <2> QED BY <2>3, <2>4
<1>5. CASE Stamp
  BY <1>5, <1>1 DEF Stamp, Admitted
<1>6. ASSUME UNCHANGED <<running, cur>> PROVE WithinLimits'
  BY <1>6, <1>1 DEF Admitted
<1>7. CASE Boot \/ Recover \/ LoopHead \/ FloorBlocks \/ FloorAdmits \/ AdmitDone \/ Sleep
  BY <1>7, <1>6 DEF Boot, Recover, LoopHead, FloorBlocks, FloorAdmits, AdmitDone, Sleep
<1>8. ASSUME NEW c \in Cells, PollAlive(c) PROVE WithinLimits'
  BY <1>8, <1>6 DEF PollAlive
<1>9. ASSUME NEW p \in Pids, Popen(p) PROVE WithinLimits'
  BY <1>9, <1>6 DEF Popen
<1>10. ASSUME NEW p \in Pids, NEW rc \in ExitCodes, Exit(p, rc) PROVE WithinLimits'
  BY <1>10, <1>6 DEF Exit
<1>11. CASE Operator
  BY <1>11, <1>6 DEF Operator, Mark, ReassignPool, ExportPool, Command
<1>12. CASE Complete \/ Crash
  BY <1>12, <1>2 DEF Complete, Crash
<1>13. CASE UNCHANGED vars
  BY <1>13, <1>6 DEF vars
<1> HIDE DEF TypeInv
<1> QED BY <1>3, <1>4, <1>5, <1>7, <1>8, <1>9, <1>10, <1>11, <1>12, <1>13
        DEF Next, Scheduler

(* One scheduler never holds more than its caps, whatever the operator     *)
(* does to the file behind its back.                                       *)
THEOREM LimitsKept == Spec => []WithinLimits
<1>1. Init => WithinLimits
  <2>1. Init => Admitted = {}
    BY DEF Init, Admitted
  <2> QED BY <2>1, NothingAdmitted DEF WithinLimits
<1> QED BY <1>1, TypeInvariance, LimitsStep, PTL DEF Spec

(* A sum of smaller numbers is smaller.                                    *)
LEMMA SumOfSmaller ==
  ASSUME NEW v \in [Cells -> Nat], NEW w \in [Cells -> Nat], NEW vs, NEW ws,
         IsSumOf(vs, v), IsSumOf(ws, w), \A c \in Cells : v[c] <= w[c],
         NEW S \in SUBSET Cells
  PROVE  vs[S] <= ws[S]
<1> DEFINE Bad == {T \in SUBSET S : ~(vs[T] <= ws[T])}
<1>0. IsFiniteSet(S)
  BY FiniteCells
<1>1. Bad = {}
  <2> SUFFICES ASSUME Bad # {} PROVE FALSE
    OBVIOUS
  <2>1. Bad \subseteq FiniteSubsetsOf(S)
    BY <1>0, FS_FiniteSubsetsOfFinite
  <2>2. PICK T \in Bad : \A U \in Bad : ~(<<U, T>> \in StrictSubsetOrdering(S))
    <3> HIDE DEF Bad
    <3> QED BY <1>0, <2>1, FS_StrictSubsetOrderingWellFounded, WFMin
  <2>3. T # {}
    <3>1. vs[{}] = 0 /\ ws[{}] = 0
      BY DEF IsSumOf
    <3>2. ~(vs[T] <= ws[T])
      BY <2>2
    <3> HIDE DEF Bad
    <3> QED BY <3>1, <3>2
  <2>4. PICK c \in T : TRUE
    BY <2>3
  <2> DEFINE U == T \ {c}
  <2>5. <<U, T>> \in StrictSubsetOrdering(S)
    BY <2>4 DEF StrictSubsetOrdering
  <2>6. U \in SUBSET S /\ vs[U] <= ws[U]
    BY <2>2, <2>5
  <2>7. U \in SUBSET Cells /\ c \in Cells \ U /\ U \cup {c} = T
    BY <2>4
  <2> HIDE DEF U, Bad
  <2>8. vs[T] = vs[U] + v[c] /\ ws[T] = ws[U] + w[c]
    BY <2>7 DEF IsSumOf
  <2>9. vs[U] \in Nat /\ ws[U] \in Nat /\ v[c] \in Nat /\ w[c] \in Nat /\ v[c] <= w[c]
    BY <2>7 DEF IsSumOf
  <2>10. vs[T] <= ws[T]
    BY <2>6, <2>8, <2>9
  <2> QED BY <2>10 DEF Bad
<1> QED BY <1>1

(* What the limits are for.  If no launcher holds more than its row        *)
(* reserves, the launchers of one scheduler together hold no more than the *)
(* budgets, whichever rows were admitted in whatever order.                *)
THEOREM HeldWithinBudgets ==
  ASSUME NEW CONSTANT vram \in [Cells -> Nat], NEW CONSTANT vramHeld, IsSumOf(vramHeld, vram),
         NEW CONSTANT ram \in [Cells -> Nat], NEW CONSTANT ramHeld, IsSumOf(ramHeld, ram),
         \A c \in Cells : vram[c] <= Vram[c] /\ ram[c] <= Ram[c]
  PROVE  Spec => [](vramHeld[Admitted] <= VramBudget /\ ramHeld[Admitted] <= RamBudget)
<1>1. TypeInv /\ WithinLimits => vramHeld[Admitted] <= VramBudget /\ ramHeld[Admitted] <= RamBudget
  <2> SUFFICES ASSUME TypeInv, WithinLimits
               PROVE  vramHeld[Admitted] <= VramBudget /\ ramHeld[Admitted] <= RamBudget
    OBVIOUS
  <2>1. Admitted \in SUBSET Cells
    BY DEF TypeInv, TypeOK, Admitted
  <2>2. vramHeld[Admitted] <= VramSum[Admitted] /\ ramHeld[Admitted] <= RamSum[Admitted]
    BY <2>1, SumOfSmaller, BudgetAssumption, SumAssumption
  <2>3. /\ vramHeld[Admitted] \in Nat /\ VramSum[Admitted] \in Nat
        /\ ramHeld[Admitted] \in Nat /\ RamSum[Admitted] \in Nat
    BY <2>1, SumAssumption DEF IsSumOf
  <2> QED BY <2>2, <2>3, BudgetAssumption DEF WithinLimits
<1> QED BY <1>1, TypeInvariance, LimitsKept, PTL

-----------------------------------------------------------------------------
(***************************************************************************)
(* The admission scan.  cmd_execute walks its sorted list with an index    *)
(* that never goes back; Claim chooses the first row that fits.  These are *)
(* the two facts that make them the same.                                  *)
(***************************************************************************)
NextToLaunch(c) ==
  c \in pending /\ Fits(c) /\ \A d \in pending \ {c} : Fits(d) => Before(c, d)

ScanEnds == AtCap \/ \A c \in pending : ~Fits(c)

LEMMA BeforeIsTotal ==
  ASSUME NEW c \in Cells, NEW d \in Cells
  PROVE  /\ c # d => Before(c, d) \/ Before(d, c)
         /\ ~(Before(c, d) /\ Before(d, c))
         /\ \A e \in Cells : Before(c, d) /\ Before(d, e) => Before(c, e)
<1>1. /\ c \in Nat /\ d \in Nat /\ EstHours[c] \in Nat /\ EstHours[d] \in Nat
      /\ \A e \in Cells : e \in Nat /\ EstHours[e] \in Nat
  BY CellsAssumption, OrderAssumption
<1> QED BY <1>1 DEF Before

(* Every set of rows that is not empty has a first one.                    *)
LEMMA FirstOf ==
  ASSUME NEW S \in SUBSET Cells, S # {}
  PROVE  \E c \in S : \A d \in S \ {c} : Before(c, d)
<1> DEFINE HasFirst(T) == \E c \in T : \A d \in T \ {c} : Before(c, d)
           Bad == {T \in SUBSET S : T # {} /\ ~HasFirst(T)}
<1>0. IsFiniteSet(S)
  BY FiniteCells
<1>1. Bad = {}
  <2> SUFFICES ASSUME Bad # {} PROVE FALSE
    OBVIOUS
  <2>1. Bad \subseteq FiniteSubsetsOf(S)
    BY <1>0, FS_FiniteSubsetsOfFinite
  <2>2. PICK T \in Bad : \A U \in Bad : ~(<<U, T>> \in StrictSubsetOrdering(S))
    <3> HIDE DEF Bad
    <3> QED BY <1>0, <2>1, FS_StrictSubsetOrderingWellFounded, WFMin
  <2>3. PICK c \in T : TRUE
    OBVIOUS
  <2>4. T \ {c} # {}
    BY <2>3
  <2>5. <<T \ {c}, T>> \in StrictSubsetOrdering(S)
    BY <2>3 DEF StrictSubsetOrdering
  <2>6. PICK f \in T \ {c} : \A d \in (T \ {c}) \ {f} : Before(f, d)
    BY <2>2, <2>4, <2>5
  <2>7. CASE Before(f, c)
    BY <2>3, <2>6, <2>7
  <2>8. CASE Before(c, f)
    <3>1. \A d \in T \ {c} : Before(c, d)
      <4>1. T \subseteq Cells
        OBVIOUS
      <4> HIDE DEF Bad
      <4> QED BY <4>1, <2>3, <2>6, <2>8, BeforeIsTotal
    <3> QED BY <2>3, <3>1
  <2>9. c # f /\ c \in Cells /\ f \in Cells
    BY <2>3, <2>6
  <2> QED BY <2>7, <2>8, <2>9, BeforeIsTotal
<1> QED BY <1>1

(* At each point of the scan it is over, or exactly one row is next: the   *)
(* order of est_hours and the manifest leaves no choice.                   *)
THEOREM ScanHasOneNext ==
  Spec => [](pc = "admit" => \/ ScanEnds
                             \/ \E c \in Cells : /\ NextToLaunch(c)
                                                 /\ \A d \in Cells : NextToLaunch(d) => d = c)
<1> DEFINE OneNext == pc = "admit" => \/ ScanEnds
                                      \/ \E c \in Cells : /\ NextToLaunch(c)
                                                          /\ \A d \in Cells : NextToLaunch(d) => d = c
<1>1. TypeInv => OneNext
  <2> SUFFICES ASSUME TypeInv, ~ScanEnds
               PROVE  \E c \in Cells : /\ NextToLaunch(c)
                                       /\ \A d \in Cells : NextToLaunch(d) => d = c
    OBVIOUS
  <2> DEFINE S == {c \in pending : Fits(c)}
  <2>1. S \in SUBSET Cells /\ S # {}
    BY DEF TypeInv, TypeOK, ScanEnds
  <2> HIDE DEF S
  <2>2. PICK c \in S : \A d \in S \ {c} : Before(c, d)
    BY <2>1, FirstOf
  <2>3. NextToLaunch(c)
    BY <2>2 DEF NextToLaunch, S
  <2>4. ASSUME NEW d \in Cells, NextToLaunch(d), d # c PROVE FALSE
    <3>1. Before(c, d) /\ Before(d, c)
      BY <2>2, <2>3, <2>4 DEF NextToLaunch, S
    <3> QED BY <2>1, <2>2, <2>4, <3>1, BeforeIsTotal
  <2> QED BY <2>1, <2>2, <2>3, <2>4
<1> QED BY <1>1, TypeInvariance, PTL

(* From the floor test to the end of the scan running only grows, so that  *)
(* a row the index has passed would not fit if it came back to it.         *)
THEOREM PassedRowsStayOut ==
  Spec => [][pc # "reap" /\ pc' \in {"admit", "popen", "stamp"}
               => \A c \in Cells : Fits(c)' => Fits(c)]_vars
<1> DEFINE StaysOut == pc # "reap" /\ pc' \in {"admit", "popen", "stamp"}
                         => \A c \in Cells : Fits(c)' => Fits(c)
<1>1. TypeInv /\ [Next]_vars => StaysOut
  <2> SUFFICES ASSUME TypeInv, [Next]_vars, pc # "reap", pc' \in {"admit", "popen", "stamp"},
                      NEW c \in Cells, Fits(c)'
               PROVE  Fits(c)
    OBVIOUS
  <2>0. running \subseteq Cells /\ cur \in Cells \cup {NoCell}
    BY DEF TypeInv, TypeOK
  <2>1. running' = running \/ (Stamp /\ running' = running \cup {cur})
    BY DEF Next, Scheduler, Operator, Boot, Recover, LoopHead, Complete, Vanish, PollAlive,
           PollFinished, FloorBlocks, FloorAdmits, Claim, AdmitDone, Popen, Stamp, Sleep, Crash,
           Exit, Mark, ReassignPool, ExportPool, Command, vars, schedVars, procVars, envVars
  <2>2. CASE running' = running
    BY <2>2 DEF Fits
  <2>3. CASE Stamp /\ running' = running \cup {cur}
    <3>1. cur \in Cells
      BY <2>0, <2>3 DEF Stamp, TypeInv, Control
    <3>2. running \cup {cur} \in SUBSET Cells
      BY <2>0, <3>1
    <3>3. /\ VramSum[running] <= VramSum[running \cup {cur}]
          /\ RamSum[running] <= RamSum[running \cup {cur}]
      <4>1. CASE cur \in running
        <5>1. running \cup {cur} = running
          BY <4>1
        <5>2. VramSum[running] \in Nat /\ RamSum[running] \in Nat
          BY <2>0, SumAssumption DEF IsSumOf
        <5> QED BY <5>1, <5>2
      <4>2. CASE cur \notin running
        <5>1. (running \cup {cur}) \ {cur} = running
          BY <4>2
        <5> QED BY <3>2, <5>1, SumOfLess, BudgetAssumption, SumAssumption
      <4> QED BY <4>1, <4>2
    <3>4. /\ VramSum[running] \in Nat /\ VramSum[running \cup {cur}] \in Nat
          /\ RamSum[running] \in Nat /\ RamSum[running \cup {cur}] \in Nat
          /\ Vram[c] \in Nat /\ Ram[c] \in Nat
      BY <2>0, <3>2, SumAssumption, BudgetAssumption DEF IsSumOf
    <3> QED BY <2>3, <3>3, <3>4, BudgetAssumption DEF Fits
  <2> QED BY <2>1, <2>2, <2>3
<1>2. TypeInv /\ [Next]_vars => [StaysOut]_vars
  BY <1>1
<1> QED BY <1>2, TypeInvariance, PTL DEF Spec

-----------------------------------------------------------------------------
(***************************************************************************)
(* Orphans.  Each death adds what was admitted at the time, in launchers   *)
(* and in either kind of memory: all three are sums over sets of cells.    *)
(***************************************************************************)
LEMMA SumOfDisjoint ==
  ASSUME NEW w \in [Cells -> Nat], NEW sum, IsSumOf(sum, w),
         NEW S \in SUBSET Cells, NEW T \in SUBSET (Cells \ S)
  PROVE  sum[S \cup T] = sum[S] + sum[T]
<1> DEFINE Bad == {U \in SUBSET T : sum[S \cup U] # sum[S] + sum[U]}
<1>0. IsFiniteSet(T)
  BY FiniteCells
<1>1. Bad = {}
  <2> SUFFICES ASSUME Bad # {} PROVE FALSE
    OBVIOUS
  <2>1. Bad \subseteq FiniteSubsetsOf(T)
    BY <1>0, FS_FiniteSubsetsOfFinite
  <2>2. PICK U \in Bad : \A V \in Bad : ~(<<V, U>> \in StrictSubsetOrdering(T))
    <3> HIDE DEF Bad
    <3> QED BY <1>0, <2>1, FS_StrictSubsetOrderingWellFounded, WFMin
  <2>3. U # {}
    <3>1. sum[{}] = 0 /\ sum[S] \in Nat /\ S \cup {} = S
      BY DEF IsSumOf
    <3>2. sum[S \cup U] # sum[S] + sum[U]
      BY <2>2
    <3> HIDE DEF Bad
    <3> QED BY <3>1, <3>2
  <2>4. PICK c \in U : TRUE
    BY <2>3
  <2> DEFINE V == U \ {c}
  <2>5. <<V, U>> \in StrictSubsetOrdering(T)
    BY <2>4 DEF StrictSubsetOrdering
  <2>6. V \in SUBSET T /\ sum[S \cup V] = sum[S] + sum[V]
    BY <2>2, <2>5
  <2>7. /\ V \in SUBSET Cells /\ c \in Cells \ V /\ V \cup {c} = U
        /\ S \cup V \in SUBSET Cells /\ c \in Cells \ (S \cup V) /\ (S \cup V) \cup {c} = S \cup U
    BY <2>2, <2>4
  <2>8. sum[S \cup U] # sum[S] + sum[U]
    BY <2>2
  <2> HIDE DEF V, Bad
  <2>9. sum[U] = sum[V] + w[c] /\ sum[S \cup U] = sum[S \cup V] + w[c]
    BY <2>7 DEF IsSumOf
  <2>10. sum[S] \in Nat /\ sum[V] \in Nat /\ w[c] \in Nat
    BY <2>7 DEF IsSumOf
  <2> QED BY <2>6, <2>8, <2>9, <2>10
<1> QED BY <1>1

LEMMA SumOfSubset ==
  ASSUME NEW w \in [Cells -> Nat], NEW sum, IsSumOf(sum, w),
         NEW S \in SUBSET Cells, NEW T \in SUBSET S
  PROVE  sum[T] <= sum[S]
<1>1. T \cup (S \ T) = S /\ T \in SUBSET Cells /\ S \ T \in SUBSET (Cells \ T)
  OBVIOUS
<1>2. sum[S] = sum[T] + sum[S \ T]
  BY <1>1, SumOfDisjoint
<1>3. sum[T] \in Nat /\ sum[S \ T] \in Nat
  BY <1>1 DEF IsSumOf
<1> QED BY <1>2, <1>3

LEMMA SumOfUnion ==
  ASSUME NEW w \in [Cells -> Nat], NEW sum, IsSumOf(sum, w),
         NEW S \in SUBSET Cells, NEW T \in SUBSET Cells
  PROVE  sum[S \cup T] <= sum[S] + sum[T]
<1> DEFINE D == T \ S
<1>1. S \cup D = S \cup T /\ D \in SUBSET (Cells \ S) /\ D \in SUBSET T /\ D \in SUBSET Cells
  OBVIOUS
<1> HIDE DEF D
<1>2. sum[S \cup D] = sum[S] + sum[D]
  BY <1>1, SumOfDisjoint
<1>3. sum[D] <= sum[T]
  BY <1>1, SumOfSubset
<1>4. sum[S] \in Nat /\ sum[T] \in Nat /\ sum[D] \in Nat
  BY <1>1 DEF IsSumOf
<1>5. sum[S \cup T] = sum[S \cup D]
  BY <1>1
<1> QED BY <1>2, <1>3, <1>4, <1>5

Each  == [c \in Cells |-> 1]
Count == [S \in SUBSET Cells |-> Cardinality(S)]

LEMMA CountIsSum == IsSumOf(Count, Each) /\ Each \in [Cells -> Nat]
<1>1. Count \in [SUBSET Cells -> Nat] /\ Count[{}] = 0 /\ Each \in [Cells -> Nat]
  BY FiniteCells, FS_EmptySet DEF Count, Each
<1>2. ASSUME NEW S \in SUBSET Cells, NEW c \in Cells \ S
      PROVE  Count[S \cup {c}] = Count[S] + Each[c]
  <2>1. S \cup {c} \in SUBSET Cells /\ IsFiniteSet(S)
    BY FiniteCells
  <2>2. Cardinality(S \cup {c}) = Cardinality(S) + 1
    BY <2>1, FS_AddElement
  <2> QED BY <2>1, <2>2 DEF Count, Each
<1> QED BY <1>1, <1>2 DEF IsSumOf

Orphans == LiveCells \ Admitted

(* A step loses orphans, or it is a death and adds those admitted.         *)
Moves == \/ Orphans' \subseteq Orphans /\ crashes' = crashes
         \/ Orphans' = Orphans \cup (LiveCells \cap Admitted) /\ crashes' = crashes + 1

LEMMA OrphanMoves ==
  ASSUME CarefulOperator, TypeInv, LaunchInv, [Next]_vars
  PROVE  Moves
<1> USE CellsAssumption DEF TypeInv, TypeOK, Control, procVars, envVars, schedVars
<1>1. ASSUME Orphans' \subseteq Orphans, crashes' = crashes PROVE Moves
  BY <1>1 DEF Moves
<1>2. ASSUME Vanish PROVE LiveCells' = LiveCells /\ Admitted' = {}
  <2>1. \A c \in Cells : LiveOf(c)' = LiveOf(c)
    BY <1>2 DEF Vanish, LiveOf
  <2> QED BY <2>1, <1>2 DEF LiveCells, Admitted, Vanish
<1>3. ASSUME UNCHANGED <<owner, exit, running, cur, crashes>> PROVE Moves
  BY <1>3, <1>1 DEF Orphans, LiveCells, LiveOf, Admitted
<1>4. CASE Complete
  <2>1. Admitted = {} /\ crashes' = crashes
    BY <1>4 DEF Complete, Admitted
  <2> QED BY <2>1, <1>4, <1>1, <1>2 DEF Complete, Orphans
<1>5. CASE Crash
  BY <1>5, <1>2 DEF Crash, Orphans, Moves
<1>6. ASSUME NEW c \in Cells, PollFinished(c) PROVE Moves
  <2> DEFINE p == mem[c].pid
  <2>1. /\ p \in Pids /\ owner[p] = c /\ c \in running
        /\ cur = NoCell /\ cur' = NoCell /\ running' = running \ {c}
        /\ owner' = [owner EXCEPT ![p] = NoCell]
        /\ exit' = [exit EXCEPT ![p] = "none"] /\ crashes' = crashes
    BY <1>6 DEF PollFinished, LaunchInv, Tracked
  <2>2. \A q \in Pids : owner'[q] # c
    BY <2>1 DEF LaunchInv, OneOwner
  <2>3. \A d \in Cells : LiveOf(d)' \subseteq LiveOf(d)
    BY <2>1 DEF LiveOf
  <2>4. c \notin LiveCells' /\ LiveCells' \subseteq LiveCells
    BY <2>2, <2>3 DEF LiveCells, LiveOf
  <2>5. Admitted' = Admitted \ {c}
    BY <2>1 DEF Admitted
  <2> QED BY <2>1, <2>4, <2>5, <1>1 DEF Orphans
<1>7. ASSUME NEW c \in Cells, Claim(c) PROVE Moves
  BY <1>7, <1>1 DEF Claim, Orphans, LiveCells, LiveOf, Admitted
<1>8. ASSUME NEW p \in Pids, Popen(p) PROVE Moves
  <2>1. /\ cur \in Cells /\ UNCHANGED <<cur, running, exit, crashes>>
        /\ owner' = [owner EXCEPT ![p] = cur] /\ owner[p] = NoCell
    BY <1>8 DEF Popen
  <2>2. \A d \in Cells \ {cur} : LiveOf(d)' = LiveOf(d)
    BY <2>1 DEF LiveOf
  <2>3. Admitted' = Admitted /\ cur \in Admitted
    BY <2>1 DEF Admitted
  <2> QED BY <2>1, <2>2, <2>3, <1>1 DEF Orphans, LiveCells
<1>9. CASE Stamp
  <2>1. Admitted' = Admitted /\ UNCHANGED <<owner, exit, crashes>>
    BY <1>9 DEF Stamp, Admitted
  <2> QED BY <2>1, <1>1 DEF Orphans, LiveCells, LiveOf
<1>10. ASSUME NEW p \in Pids, NEW rc \in ExitCodes, Exit(p, rc) PROVE Moves
  <2>1. /\ UNCHANGED <<running, cur, crashes>>
        /\ \A d \in Cells : LiveOf(d)' \subseteq LiveOf(d)
    BY <1>10 DEF Exit, LiveOf, ExitCodes, Live
  <2> QED BY <2>1, <1>1 DEF Orphans, LiveCells, Admitted
<1>11. CASE Boot \/ Recover \/ LoopHead \/ FloorBlocks \/ FloorAdmits \/ AdmitDone \/ Sleep
  BY <1>11, <1>3 DEF Boot, Recover, LoopHead, FloorBlocks, FloorAdmits, AdmitDone, Sleep
<1>12. ASSUME NEW c \in Cells, PollAlive(c) PROVE Moves
  BY <1>12, <1>3 DEF PollAlive
<1>13. CASE Operator
  BY <1>13, <1>3 DEF Operator, Mark, ReassignPool, ExportPool, Command
<1>14. CASE UNCHANGED vars
  BY <1>14, <1>3 DEF vars
<1> HIDE DEF TypeInv
<1> QED BY <1>4, <1>5, <1>6, <1>7, <1>8, <1>9, <1>10, <1>11, <1>12, <1>13, <1>14
        DEF Next, Scheduler

LEMMA LiveOrAdmitted ==
  ASSUME TypeInv
  PROVE  /\ LiveCells \in SUBSET Cells /\ Orphans \in SUBSET Cells
         /\ Admitted \in SUBSET Cells /\ LiveCells \in SUBSET (Orphans \cup Admitted)
         /\ crashes \in Nat
<1>1. running \subseteq Cells /\ cur \in Cells \cup {NoCell} /\ crashes \in Nat
  BY BoundAssumption DEF TypeInv, TypeOK
<1>2. Admitted \subseteq Cells
  BY <1>1 DEF Admitted
<1>3. LiveCells \subseteq Cells
  BY DEF LiveCells
<1> QED BY <1>1, <1>2, <1>3 DEF Orphans

OrphanInv(sum, budget) == sum[Orphans] <= budget * crashes

LEMMA OrphanStep ==
  ASSUME NEW CONSTANT w \in [Cells -> Nat], NEW CONSTANT sum, IsSumOf(sum, w),
         NEW CONSTANT budget \in Nat,
         TypeInv, Moves, sum[Admitted] <= budget, OrphanInv(sum, budget)
  PROVE  OrphanInv(sum, budget)'
<1>0. /\ LiveCells \in SUBSET Cells /\ Orphans \in SUBSET Cells /\ Admitted \in SUBSET Cells
      /\ crashes \in Nat /\ budget * crashes \in Nat
      /\ sum[Orphans] \in Nat /\ sum[Admitted] \in Nat
  <2>1. /\ LiveCells \in SUBSET Cells /\ Orphans \in SUBSET Cells /\ Admitted \in SUBSET Cells
        /\ crashes \in Nat
    BY LiveOrAdmitted
  <2> QED BY <2>1 DEF IsSumOf
<1>1. CASE Orphans' \subseteq Orphans /\ crashes' = crashes
  <2>1. Orphans' \in SUBSET Orphans /\ Orphans' \in SUBSET Cells
    BY <1>0, <1>1
  <2>2. sum[Orphans'] <= sum[Orphans]
    BY <1>0, <2>1, SumOfSubset
  <2>3. sum[Orphans'] \in Nat
    BY <2>1 DEF IsSumOf
  <2> QED BY <1>0, <1>1, <2>2, <2>3 DEF OrphanInv
<1>2. CASE Orphans' = Orphans \cup (LiveCells \cap Admitted) /\ crashes' = crashes + 1
  <2> DEFINE lost == LiveCells \cap Admitted
  <2>1. lost \in SUBSET Cells /\ lost \in SUBSET Admitted /\ Orphans \cup lost \in SUBSET Cells
    BY <1>0
  <2> HIDE DEF lost
  <2>2. sum[lost] <= sum[Admitted] /\ sum[Orphans \cup lost] <= sum[Orphans] + sum[lost]
    BY <1>0, <2>1, SumOfSubset, SumOfUnion
  <2>3. sum[lost] \in Nat /\ sum[Orphans \cup lost] \in Nat
    BY <2>1 DEF IsSumOf
  <2>4. budget * (crashes + 1) = budget * crashes + budget
    BY <1>0
  <2>5. sum[Orphans \cup lost] <= budget * crashes + budget
    BY <1>0, <2>2, <2>3 DEF OrphanInv
  <2>6. Orphans' = Orphans \cup lost
    BY <1>2 DEF lost
  <2> QED BY <1>2, <2>4, <2>5, <2>6 DEF OrphanInv
<1> QED BY <1>1, <1>2 DEF Moves

LEMMA LoadIsBounded ==
  ASSUME NEW CONSTANT w \in [Cells -> Nat], NEW CONSTANT sum, IsSumOf(sum, w),
         NEW CONSTANT budget \in Nat,
         TypeInv, sum[Admitted] <= budget, OrphanInv(sum, budget)
  PROVE  sum[LiveCells] <= budget * (crashes + 1)
<1>1. /\ LiveCells \in SUBSET (Orphans \cup Admitted)
      /\ Orphans \in SUBSET Cells /\ Admitted \in SUBSET Cells
      /\ LiveCells \in SUBSET Cells /\ Orphans \cup Admitted \in SUBSET Cells
      /\ crashes \in Nat
  BY LiveOrAdmitted
<1>2. /\ sum[LiveCells] <= sum[Orphans \cup Admitted]
      /\ sum[Orphans \cup Admitted] <= sum[Orphans] + sum[Admitted]
  BY <1>1, SumOfSubset, SumOfUnion
<1>3. /\ sum[LiveCells] \in Nat /\ sum[Orphans \cup Admitted] \in Nat
      /\ sum[Orphans] \in Nat /\ sum[Admitted] \in Nat
  BY <1>1 DEF IsSumOf
<1>4. budget * (crashes + 1) = budget * crashes + budget /\ budget * crashes \in Nat
  BY <1>1
<1> QED BY <1>2, <1>3, <1>4 DEF OrphanInv

AllOrphanInv == /\ OrphanInv(Count, MaxConcurrency)
                /\ OrphanInv(VramSum, VramBudget) /\ OrphanInv(RamSum, RamBudget)

(* After n deaths of the scheduler the cells that have a live launcher are *)
(* at most n + 1 times --max_concurrency, and what their rows reserve is at *)
(* most n + 1 times either budget.                                         *)
THEOREM OrphansStayBounded ==
  ASSUME CarefulOperator PROVE Spec => []OrphansBounded
<1>0. TypeInv /\ WithinLimits => /\ Count[Admitted] <= MaxConcurrency
                                /\ VramSum[Admitted] <= VramBudget /\ RamSum[Admitted] <= RamBudget
  <2>1. TypeInv => Admitted \in SUBSET Cells
    BY DEF TypeInv, TypeOK, Admitted
  <2> QED BY <2>1 DEF WithinLimits, Count
<1>1. Init => AllOrphanInv
  <2> SUFFICES ASSUME Init PROVE AllOrphanInv
    OBVIOUS
  <2>1. LiveCells = {}
    BY CellsAssumption DEF Init, LiveCells, LiveOf
  <2>2. Orphans = {} /\ crashes = 0
    BY <2>1 DEF Init, Orphans
  <2>3. Count[{}] = 0 /\ VramSum[{}] = 0 /\ RamSum[{}] = 0
    BY CountIsSum, SumAssumption DEF IsSumOf
  <2> QED BY <2>2, <2>3, BudgetAssumption DEF AllOrphanInv, OrphanInv
<1>2. TypeInv /\ LaunchInv /\ WithinLimits /\ AllOrphanInv /\ [Next]_vars => AllOrphanInv'
  <2> SUFFICES ASSUME TypeInv, LaunchInv, WithinLimits, AllOrphanInv, [Next]_vars
               PROVE  AllOrphanInv'
    OBVIOUS
  <2>1. Moves
    BY OrphanMoves
  <2>2. OrphanInv(Count, MaxConcurrency)'
    BY <1>0, <2>1, OrphanStep, CountIsSum, BudgetAssumption DEF AllOrphanInv
  <2>3. OrphanInv(VramSum, VramBudget)'
    BY <1>0, <2>1, OrphanStep, SumAssumption, BudgetAssumption DEF AllOrphanInv
  <2>4. OrphanInv(RamSum, RamBudget)'
    BY <1>0, <2>1, OrphanStep, SumAssumption, BudgetAssumption DEF AllOrphanInv
  <2> QED BY <2>2, <2>3, <2>4 DEF AllOrphanInv
<1>3. TypeInv /\ WithinLimits /\ AllOrphanInv => OrphansBounded
  <2> SUFFICES ASSUME TypeInv, WithinLimits, AllOrphanInv PROVE OrphansBounded
    OBVIOUS
  <2>1. Count[LiveCells] <= MaxConcurrency * (crashes + 1)
    BY <1>0, LoadIsBounded, CountIsSum, BudgetAssumption DEF AllOrphanInv
  <2>2. Count[LiveCells] = Cardinality(LiveCells)
    BY DEF Count, LiveCells
  <2>3. VramSum[LiveCells] <= VramBudget * (crashes + 1)
    BY <1>0, LoadIsBounded, SumAssumption, BudgetAssumption DEF AllOrphanInv
  <2>4. RamSum[LiveCells] <= RamBudget * (crashes + 1)
    BY <1>0, LoadIsBounded, SumAssumption, BudgetAssumption DEF AllOrphanInv
  <2> QED BY <2>1, <2>2, <2>3, <2>4 DEF OrphansBounded
<1> QED BY <1>1, <1>2, <1>3, LaunchInvariance, TypeInvariance, LimitsKept, PTL DEF Spec

-----------------------------------------------------------------------------
(* A recorded result is changed by nothing but an operator's command.      *)
LEMMA ResultStep ==
  ASSUME TypeInv, LaunchInv, [Next]_vars, NEW c \in Cells,
         disk[c].status \in ExitCodes, commands' = commands
  PROVE  disk'[c] = disk[c]
<1> USE DEF TypeInv, TypeOK, Control, procVars, envVars, schedVars
<1>1. disk[c].status \notin {"pending", "running"}
  BY DEF ExitCodes
<1>2. CASE Recover
  <2>1. mem[c] = disk[c]
    BY <1>2 DEF Recover, LaunchInv, Agreement
  <2> QED BY <2>1, <1>1, <1>2 DEF Recover, Save, RecoveredRow, Stale
<1>3. ASSUME NEW d \in Cells, PollFinished(d) PROVE disk'[c] = disk[c]
  <2>1. mem[c] = disk[c] /\ d # c
    BY <1>1, <1>3 DEF PollFinished, LaunchInv, Agreement, Tracked
  <2> QED BY <2>1, <1>3 DEF PollFinished, Save
<1>4. ASSUME NEW d \in Cells, Claim(d) PROVE disk'[c] = disk[c]
  <2>1. mem[c] = disk[c] /\ d # c
    BY <1>1, <1>4, CellsAssumption DEF Claim, LaunchInv, Agreement, Queued
  <2> QED BY <2>1, <1>4 DEF Claim, Save
<1>5. CASE Stamp
  <2>1. mem[c] = disk[c]
    BY <1>1, <1>5 DEF Stamp, LaunchInv, Agreement, Launching
  <2> QED BY <2>1, <1>5 DEF Stamp, Save
<1>6. CASE Operator
  BY <1>6, BoundAssumption DEF Operator, Mark, ReassignPool, ExportPool, Command
<1>7. ASSUME UNCHANGED disk PROVE disk'[c] = disk[c]
  BY <1>7
<1>8. CASE Boot \/ LoopHead \/ FloorBlocks \/ FloorAdmits \/ AdmitDone \/ Sleep \/ Complete
           \/ Crash \/ UNCHANGED vars
  BY <1>8 DEF Boot, LoopHead, FloorBlocks, FloorAdmits, AdmitDone, Sleep, Complete, Crash, vars
<1>9. ASSUME NEW d \in Cells, PollAlive(d) PROVE disk'[c] = disk[c]
  BY <1>9 DEF PollAlive
<1>10. ASSUME NEW p \in Pids, Popen(p) PROVE disk'[c] = disk[c]
  BY <1>10 DEF Popen
<1>11. ASSUME NEW p \in Pids, NEW rc \in ExitCodes, Exit(p, rc) PROVE disk'[c] = disk[c]
  BY <1>11 DEF Exit
<1> HIDE DEF TypeInv
<1> QED BY <1>2, <1>3, <1>4, <1>5, <1>6, <1>8, <1>9, <1>10, <1>11 DEF Next, Scheduler

THEOREM ResultsStay ==
  ASSUME CarefulOperator PROVE Spec => ResultsAreFinal
<1>1. TypeInv /\ LaunchInv /\ [Next]_vars
        => [\A c \in Cells : disk[c].status \in ExitCodes /\ disk'[c] # disk[c]
                               => commands' # commands]_vars
  BY ResultStep
<1> QED BY <1>1, LaunchInvariance, PTL DEF Spec, ResultsAreFinal

-----------------------------------------------------------------------------
(***************************************************************************)
(* Completion.  A pending row of the pool is always in the scheduler's     *)
(* list, and a running row is tracked unless a scheduler died.             *)
(***************************************************************************)
Settling ==
  /\ pc \notin {"down", "loaded"} =>
       \A c \in Cells : disk[c].status = "pending" /\ disk[c].pool = ThisPool => c \in pending
  /\ \A c \in Cells : disk[c].status = "running" => c \in Admitted \/ crashes > 0

LEMMA SettlingStep ==
  ASSUME CarefulOperator, TypeInv, LaunchInv, Settling, [Next]_vars
  PROVE  Settling'
<1> USE CellsAssumption
    DEF TypeInv, TypeOK, Control, Settling, Admitted, procVars, envVars, schedVars
<1>1. CASE Boot \/ LoopHead \/ FloorBlocks \/ FloorAdmits \/ AdmitDone \/ Sleep \/ Complete
           \/ UNCHANGED vars
  BY <1>1 DEF Boot, LoopHead, FloorBlocks, FloorAdmits, AdmitDone, Sleep, Complete, Vanish, vars
<1>2. CASE Crash
  BY <1>2, BoundAssumption DEF Crash, Vanish
<1>3. CASE Recover
  <2>1. \A c \in Cells : disk'[c] = RecoveredRow(disk[c]) /\ mem'[c] = disk'[c]
    BY <1>3 DEF Recover, Save, LaunchInv, Agreement
  <2>2. ASSUME NEW c \in Cells, disk'[c].status = "running" PROVE disk[c].status = "running"
    <3>1. disk[c] \in Rows /\ disk'[c] = RecoveredRow(disk[c])
      BY <2>1
    <3>2. disk[c].status # "running" => RecoveredRow(disk[c]) = disk[c]
      BY ONLY DEF RecoveredRow, Stale
    <3> QED BY <3>1, <3>2, <2>2
  <2>3. UNCHANGED <<running, cur, crashes>> /\ running = {} /\ cur = NoCell
    BY <1>3 DEF Recover
  <2>4. \A c \in Cells : disk'[c].status = "pending" /\ disk'[c].pool = ThisPool => c \in pending'
    BY <2>1, <1>3 DEF Recover
  <2> QED BY <2>2, <2>3, <2>4
<1>4. ASSUME NEW c \in Cells, PollFinished(c) PROVE Settling'
  <2>1. /\ exit[mem[c].pid] \notin {"pending", "running"}
        /\ disk' = [disk EXCEPT ![c] = FinishedRow(disk[c], exit[mem[c].pid])]
        /\ pc = "reap" /\ pc' = "reap" /\ UNCHANGED <<pending, cur, crashes>>
        /\ running' = running \ {c}
    <3>1. exit[mem[c].pid] \in ExitCodes
      BY <1>4 DEF PollFinished
    <3>2. mem = disk
      BY <1>4 DEF PollFinished, LaunchInv, Agreement
    <3> QED BY <3>1, <3>2, <1>4 DEF PollFinished, Save, ExitCodes
  <2>2. disk'[c].status = exit[mem[c].pid]
    BY <2>1 DEF FinishedRow, Rows
  <2>3. \A d \in Cells \ {c} : disk'[d] = disk[d]
    BY <2>1
  <2> QED BY <2>1, <2>2, <2>3
<1>5. ASSUME NEW c \in Cells, Claim(c) PROVE Settling'
  <2>1. /\ pc = "admit" /\ cur = NoCell /\ cur' = c
        /\ UNCHANGED <<pending, running, crashes>>
        /\ disk' = [disk EXCEPT ![c].status = "running"]
    <3>1. pc = "admit" /\ mem = disk
      BY <1>5 DEF Claim, LaunchInv, Agreement
    <3> QED BY <3>1, <1>5 DEF Claim, Save
  <2>2. /\ disk'[c].status = "running"
        /\ \A d \in Cells \ {c} : disk'[d] = disk[d]
    BY <2>1 DEF Rows
  <2> QED BY <2>1, <2>2
<1>6. CASE Stamp
  <2>1. /\ pc = "stamp" /\ cur \in Cells
        /\ running' = running \cup {cur} /\ pending' = pending \ {cur} /\ cur' = NoCell
        /\ disk' = mem /\ crashes' = crashes
    BY <1>6 DEF Stamp, Save
  <2>2. \A d \in Cells \ {cur} : disk'[d] = disk[d]
    BY <2>1 DEF LaunchInv, Agreement
  <2>3. disk'[cur].status = "running"
    BY <2>1 DEF LaunchInv, Agreement, Launching, Rows
  <2> QED BY <2>1, <2>2, <2>3
<1>7. ASSUME NEW c \in Cells, PollAlive(c) PROVE Settling'
  BY <1>7 DEF PollAlive
<1>8. ASSUME NEW p \in Pids, Popen(p) PROVE Settling'
  BY <1>8 DEF Popen
<1>9. ASSUME NEW p \in Pids, NEW rc \in ExitCodes, Exit(p, rc) PROVE Settling'
  BY <1>9 DEF Exit
<1>10. ASSUME Command, \A c \in Cells : disk'[c].status = "running" => disk[c].status = "running"
       PROVE  Settling'
  BY <1>10 DEF Command
<1>11. CASE Operator
  <2>1. ASSUME NEW c \in Cells, NEW to \in {"pending", "skipped", "green", "red"}, Mark(c, to)
        PROVE  Settling'
    BY <2>1, <1>10 DEF Mark, Rows
  <2>2. ASSUME NEW S \in SUBSET Cells, NEW pool \in Pools, ReassignPool(S, pool)
        PROVE  Settling'
    BY <2>2, <1>10 DEF ReassignPool, Rows
  <2>3. ASSUME NEW pool \in Pools, ExportPool(pool) PROVE Settling'
    BY <2>3, <1>10 DEF ExportPool, Rows
  <2> QED BY <2>1, <2>2, <2>3, <1>11 DEF Operator
<1> HIDE DEF TypeInv, Settling
<1> QED BY <1>1, <1>2, <1>3, <1>4, <1>5, <1>6, <1>7, <1>8, <1>9, <1>11 DEF Next, Scheduler

(* "matrix complete" means it: every row of the pool is settled, or was    *)
(* left running by a scheduler that died.                                  *)
THEOREM CompletionIsHonest ==
  ASSUME CarefulOperator PROVE Spec => CompleteMeansSettled
<1> DEFINE settled(c) == \/ disk[c].status \in ExitCodes \cup {"delegated"}
                         \/ disk[c].status = "running" /\ crashes > 0
<1>1. Init => Settling
  BY DEF Init, Settling
<1>2. TypeInv /\ Settling /\ Complete => \A c \in Cells : disk[c].pool = ThisPool => settled(c)
  BY DEF TypeInv, TypeOK, Control, Settling, Admitted, Complete, Rows, Statuses
<1>3. TypeInv /\ Settling /\ [Next]_vars =>
        [Complete => \A c \in Cells : disk[c].pool = ThisPool => settled(c)]_vars
  BY <1>2
<1> QED BY <1>1, <1>3, LaunchInvariance, SettlingStep, PTL DEF Spec, CompleteMeansSettled

-----------------------------------------------------------------------------
(***************************************************************************)
(* Refinement.  Under the mapping of instance Lifecycle every step of the  *)
(* orchestrator is a step of CellLifecycle or leaves it alone.             *)
(***************************************************************************)
St == [c \in Cells |-> disk[c].status]
Ex == [c \in Cells |-> {p \in Pids : owner[p] = c}]

LEMMA LifecycleInit == Init => Lifecycle!Init
BY CellsAssumption DEF Init, Lifecycle!Init

LEMMA LoseStep ==
  ASSUME NEW P \in SUBSET Pids, UNCHANGED disk,
         \A q \in Pids : owner'[q] = IF q \in P THEN NoCell ELSE owner[q]
  PROVE  Lifecycle!Next
<1>1. Ex' = [c \in Cells |-> Ex[c] \ P]
  BY CellsAssumption DEF Ex
<1>2. Lifecycle!Lose(P)
  BY <1>1 DEF Lifecycle!Lose, Ex
<1> QED BY <1>2 DEF Lifecycle!Next

LEMMA LifecycleStep ==
  ASSUME CarefulOperator, TypeInv, LaunchInv, [Next]_vars
  PROVE  [Lifecycle!Next]_(Lifecycle!vars)
<1> USE CellsAssumption DEF TypeInv, TypeOK, Control, procVars, envVars, schedVars
<1>1. ASSUME \A c \in Cells : disk'[c].status = disk[c].status, UNCHANGED owner
      PROVE  UNCHANGED Lifecycle!vars
  BY <1>1 DEF Lifecycle!vars
<1>2. CASE Boot \/ LoopHead \/ FloorBlocks \/ FloorAdmits \/ AdmitDone \/ Sleep
           \/ UNCHANGED vars
  BY <1>2, <1>1 DEF Boot, LoopHead, FloorBlocks, FloorAdmits, AdmitDone, Sleep, vars
<1>3. ASSUME NEW c \in Cells, PollAlive(c) PROVE UNCHANGED Lifecycle!vars
  BY <1>3, <1>1 DEF PollAlive
<1>4. ASSUME Vanish, UNCHANGED disk PROVE Lifecycle!Next
  <2> DEFINE P == {q \in Pids : exit[q] # "none"}
  <2>1. \A q \in Pids : owner'[q] = IF q \in P THEN NoCell ELSE owner[q]
    BY <1>4 DEF Vanish
  <2> QED BY <2>1, <1>4, LoseStep
<1>5. CASE Complete \/ Crash
  BY <1>5, <1>4 DEF Complete, Crash
<1>6. CASE Stamp
  <2>1. \A c \in Cells : disk'[c].status = disk[c].status
    BY <1>6 DEF Stamp, Save, LaunchInv, Agreement, Rows
  <2> QED BY <2>1, <1>1, <1>6 DEF Stamp
<1>7. ASSUME Recover, NEW S \in SUBSET Cells, S = {c \in Cells : Stale(disk[c])}
      PROVE  Lifecycle!Next
  <2>1. \A c \in Cells : disk'[c] = RecoveredRow(disk[c]) /\ disk[c] \in Rows
    BY <1>7 DEF Recover, Save, LaunchInv, Agreement
  <2>2. ASSUME NEW c \in Cells
        PROVE  disk'[c].status = IF c \in S THEN "pending" ELSE disk[c].status
    <3>1. Stale(disk[c]) => RecoveredRow(disk[c]).status = "pending"
      BY ONLY <2>1, RowFields
    <3>2. ~Stale(disk[c]) => RecoveredRow(disk[c]) = disk[c]
      BY DEF RecoveredRow
    <3> QED BY <1>7, <2>1, <3>1, <3>2
  <2>3. ASSUME NEW c \in S PROVE St[c] = "running" /\ Ex[c] = {}
    <3>1. /\ disk[c].status = "running" /\ disk[c].pid # NoPid
          /\ owner[disk[c].pid] = NoCell
      BY <1>7 DEF Stale, PidAlive
    <3>2. \A p \in Pids : owner[p] # c
      BY <3>1 DEF LaunchInv, OwnedRow
    <3> QED BY <3>1, <3>2 DEF St, Ex
  <2>4. St' = [c \in Cells |-> IF c \in S THEN "pending" ELSE St[c]] /\ Ex' = Ex
    BY <2>2, <1>7 DEF St, Ex, Recover
  <2>5. Lifecycle!Requeue(S)
    <3>1. \A c \in S : St[c] = "running" /\ Ex[c] = {}
      BY <2>3
    <3>2. \A c \in S : /\ [d \in Cells |-> disk[d].status][c] = "running"
                       /\ [d \in Cells |-> {p \in Pids : owner[p] = d}][c] = {}
      BY <3>1 DEF St, Ex
    <3>3. [c \in Cells |-> disk'[c].status]
            = [c \in Cells |-> IF c \in S THEN "pending"
                               ELSE [d \in Cells |-> disk[d].status][c]]
      BY <2>4 DEF St
    <3>4. [c \in Cells |-> {p \in Pids : owner'[p] = c}]
            = [c \in Cells |-> {p \in Pids : owner[p] = c}]
      BY <2>4 DEF Ex
    <3> QED BY ONLY <3>2, <3>3, <3>4 DEF Lifecycle!Requeue
  <2> QED BY <2>5, Zenon DEF Lifecycle!Next
<1>8. ASSUME NEW c \in Cells, PollFinished(c),
             NEW p \in Pids, p = mem[c].pid, NEW rc \in ExitCodes, rc = exit[p]
      PROVE  Lifecycle!Next
  <2>1. /\ owner[p] = c
        /\ disk[c].status = "running"
        /\ owner' = [owner EXCEPT ![p] = NoCell]
    BY <1>8 DEF PollFinished, LaunchInv, Tracked
  <2>2. /\ \A d \in Cells \ {c} : disk'[d] = disk[d]
        /\ disk'[c] = FinishedRow(disk[c], rc)
    BY <1>8 DEF PollFinished, Save, LaunchInv, Agreement
  <2>3. St' = [St EXCEPT ![c] = rc]
    <3>1. disk'[c].status = rc
      BY <2>2 DEF FinishedRow, Rows
    <3> QED BY <3>1, <2>2 DEF St
  <2>4. Ex' = [Ex EXCEPT ![c] = {}]
    <3>1. \A q \in Pids : owner[q] = c => q = p
      BY <2>1 DEF LaunchInv, OneOwner
    <3>2. \A d \in Cells : {q \in Pids : owner'[q] = d}
                           = IF d = c THEN {} ELSE {q \in Pids : owner[q] = d}
      BY <2>1, <3>1
    <3> QED BY <3>2 DEF Ex
  <2>5. Lifecycle!Record(c, rc)
    <3>1. St[c] = "running" /\ Ex[c] # {}
      BY <2>1 DEF St, Ex
    <3> QED BY <3>1, <2>3, <2>4, Zenon DEF Lifecycle!Record, St, Ex
  <2> QED BY <2>5, Zenon DEF Lifecycle!Next
<1>9. ASSUME NEW c \in Cells, Claim(c) PROVE Lifecycle!Next
  <2>1. /\ mem = disk /\ cur = NoCell
        /\ disk[c].status = "pending"
        /\ \A p \in Pids : owner[p] # c
    BY <1>9 DEF Claim, LaunchInv, Agreement, Queued, OwnedRow
  <2>2. disk' = [disk EXCEPT ![c].status = "running"] /\ owner' = owner
    BY <2>1, <1>9 DEF Claim, Save
  <2>3. St' = [St EXCEPT ![c] = "running"] /\ Ex' = Ex
    BY <2>2 DEF St, Ex, Rows
  <2>4. Lifecycle!Claim(c)
    BY <2>1, <2>3 DEF Lifecycle!Claim, St, Ex
  <2> QED BY <2>4 DEF Lifecycle!Next
<1>10. ASSUME NEW p \in Pids, Popen(p), NEW c \in Cells, c = cur PROVE Lifecycle!Next
  <2>1. /\ owner[p] = NoCell
        /\ disk[c].status = "running"
        /\ \A q \in Pids : owner[q] # c
        /\ owner' = [owner EXCEPT ![p] = c] /\ disk' = disk
    BY <1>10 DEF Popen, LaunchInv, Launching
  <2>2. Ex' = [Ex EXCEPT ![c] = {p}]
    <3>1. \A d \in Cells : {q \in Pids : owner'[q] = d}
                           = IF d = c THEN {p} ELSE {q \in Pids : owner[q] = d}
      BY <2>1
    <3> QED BY <3>1 DEF Ex
  <2>3. p \notin UNION {Ex[d] : d \in Cells}
    BY <2>1 DEF Ex
  <2>4. Lifecycle!Spawn(c, p)
    <3>1. St[c] = "running" /\ Ex[c] = {} /\ St' = St
      BY <2>1 DEF St, Ex
    <3> QED BY <3>1, <2>2, <2>3, Zenon DEF Lifecycle!Spawn, Lifecycle!Busy, St, Ex
  <2> QED BY <2>4, Zenon DEF Lifecycle!Next
<1>11. ASSUME NEW p \in Pids, NEW rc \in ExitCodes, Exit(p, rc)
       PROVE  [Lifecycle!Next]_(Lifecycle!vars)
  <2>1. CASE p \in Handles
    BY <2>1, <1>11, <1>1 DEF Exit
  <2>2. CASE p \notin Handles
    <3>1. disk' = disk /\ \A q \in Pids : owner'[q] = IF q \in {p} THEN NoCell ELSE owner[q]
      BY <2>2, <1>11 DEF Exit
    <3> QED BY <3>1, LoseStep
  <2> QED BY <2>1, <2>2
<1>12. ASSUME NEW c \in Cells, NEW to \in {"pending", "skipped", "green", "red"},
              Mark(c, to)
       PROVE  Lifecycle!Next
  <2>1. /\ disk' = [disk EXCEPT ![c].status = to] /\ owner' = owner
        /\ to = "pending" => \A p \in Pids : owner[p] # c
    BY <1>12 DEF Mark, Command, LaunchInv, NoZombies, LiveOf
  <2>2. St' = [d \in Cells |-> IF d \in {c} THEN to ELSE St[d]] /\ Ex' = Ex
    BY <2>1 DEF St, Ex, Rows
  <2>3. to = "pending" => \A d \in {c} : Ex[d] = {}
    BY <2>1 DEF Ex
  <2>4. Lifecycle!Override({c}, to)
    BY <2>2, <2>3 DEF Lifecycle!Override, St, Ex
  <2>5. to \in ExitCodes \cup {"delegated"} \cup {"pending"} /\ {c} \in SUBSET Cells
    BY DEF ExitCodes
  <2> QED BY <2>4, <2>5 DEF Lifecycle!Next
<1>13. ASSUME NEW S \in SUBSET Cells, NEW pool \in Pools, ReassignPool(S, pool)
       PROVE  UNCHANGED Lifecycle!vars
  BY <1>13, <1>1 DEF ReassignPool, Command, Rows
<1>14. ASSUME NEW pool \in Pools, ExportPool(pool) PROVE Lifecycle!Next
  <2> DEFINE S == {c \in Cells : disk[c].pool = pool}
  <2>1. St' = [c \in Cells |-> IF c \in S THEN "delegated" ELSE St[c]] /\ Ex' = Ex
    BY <1>14 DEF ExportPool, Command, St, Ex, Rows
  <2>2. Lifecycle!Override(S, "delegated")
    BY <2>1 DEF Lifecycle!Override, St, Ex
  <2> QED BY <2>2 DEF Lifecycle!Next
<1>15. CASE Recover
  <2>1. PICK S \in SUBSET Cells : S = {c \in Cells : Stale(disk[c])}
    OBVIOUS
  <2> QED BY <2>1, <1>15, <1>7
<1>16. ASSUME NEW c \in Cells, PollFinished(c) PROVE Lifecycle!Next
  <2>1. mem[c].pid \in Pids /\ exit[mem[c].pid] \in ExitCodes
    BY <1>16 DEF PollFinished
  <2> QED BY <2>1, <1>16, <1>8
<1>17. ASSUME NEW p \in Pids, Popen(p) PROVE Lifecycle!Next
  <2>1. cur \in Cells
    BY <1>17 DEF Popen
  <2> QED BY <2>1, <1>17, <1>10
<1> HIDE DEF TypeInv
<1> QED BY <1>2, <1>3, <1>5, <1>6, <1>9, <1>11, <1>12, <1>13, <1>14, <1>15, <1>16, <1>17
        DEF Next, Scheduler, Operator

(* The orchestrator, with its crashes, restarts and recycled pids,         *)
(* implements the life cycle of a cell.                                    *)
THEOREM ImplementsLifecycle ==
  ASSUME CarefulOperator PROVE Spec => LifecycleSpec
<1>1. TypeInv /\ LaunchInv /\ [Next]_vars => [Lifecycle!Next]_(Lifecycle!vars)
  BY LifecycleStep
<1> QED BY <1>1, LifecycleInit, LaunchInvariance, PTL
        DEF Spec, LifecycleSpec, Lifecycle!Spec
=============================================================================
