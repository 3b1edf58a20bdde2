------------------------- MODULE OomWatchdog_proofs -------------------------
(***************************************************************************)
(* The watchdog keeps its restart window, whoever starts schedulers beside *)
(* it; with a careful operator there is one scheduler at most, the         *)
(* watchdog writes only while there is none, a cell is launched twice at   *)
(* once only by fault of such a write, and no tally exceeds the deaths     *)
(* there were.                                                             *)
(***************************************************************************)
EXTENDS OomWatchdog, FiniteSetTheorems, TLAPS

Phases    == {"none", "boot", "up"}
Scheduling == [phase : Phases, rows : Rows, kids : SUBSET Cells]

LEMMA BumpType ==
  ASSUME NEW n \in 0 .. PoisonDeaths
  PROVE  Bump(n) \in 0 .. PoisonDeaths /\ Bump(n) >= n /\ Bump(n) <= n + 1
         /\ (n < PoisonDeaths => Bump(n) = n + 1)
BY ParameterAssumption DEF Bump

LEMMA NoSchedType == NoSched \in Scheduling
BY DEF NoSched, Scheduling, Phases, Rows, Statuses

LEMMA UnreadType == Unread \in Rows
BY DEF Unread, Rows, Statuses

LEMMA InitType == Init => TypeOK
<1> SUFFICES ASSUME Init PROVE TypeOK
  OBVIOUS
<1>1. Unread \in Rows
  BY UnreadType
<1>2. sched \in [Scheds -> Scheduling]
  BY NoSchedType DEF Init
<1>3. st \in WdState
  BY ParameterAssumption DEF Init, WdState
<1> QED BY <1>1, <1>2, <1>3, ParameterAssumption DEF Init, TypeOK, Scheduling, Phases

-----------------------------------------------------------------------------
(* Every step keeps the types.                                             *)
LEMMA SpawnType ==
  ASSUME TypeOK, NEW s \in Scheds, Spawn(s)
  PROVE  sched' \in [Scheds -> Scheduling]
<1>1. [NoSched EXCEPT !.phase = "boot"] \in Scheduling
  BY NoSchedType DEF Scheduling, Phases
<1> QED BY <1>1 DEF Spawn, TypeOK, Scheduling, Phases

LEMMA EndedType ==
  ASSUME TypeOK, NEW s \in Scheds, Ended(s)
  PROVE  /\ sched' \in [Scheds -> Scheduling]
         /\ ends' \in 0 .. PoisonDeaths
<1>1. sched' \in [Scheds -> Scheduling]
  BY NoSchedType DEF Ended, TypeOK, Scheduling, Phases
<1>2. ends' \in 0 .. PoisonDeaths
  BY BumpType DEF Ended, TypeOK
<1> QED BY <1>1, <1>2

LEMMA RecoveredType == ASSUME NEW rows \in Rows PROVE Recovered(rows) \in Rows
BY DEF Recovered, Rows, Statuses

LEMMA OperatorType ==
  ASSUME TypeOK, NEW s \in Scheds, NEW target \in {"matrix", "matrix-resume"},
         OperatorStarts(s, target)
  PROVE  TypeOK'
<1>1. sched' \in [Scheds -> Scheduling] /\ pidFile' \in Scheds \cup {NoPid}
  BY SpawnType DEF OperatorStarts, MakeMatrix, TypeOK
<1> QED BY <1>1 DEF OperatorStarts, TypeOK, Scheduling, Phases, wdVars, envVars

LEMMA SchedulerType ==
  ASSUME TypeOK, NEW s \in Scheds, Scheduler(s) \/ Killed(s)
  PROVE  TypeOK'
<1>0. sched[s] \in Scheduling /\ sched[s].rows \in Rows /\ sched[s].kids \in SUBSET Cells
  BY DEF TypeOK, Scheduling, Phases
<1>1. CASE Boot(s)
  <2>1. disk' \in Rows
    BY <1>1, RecoveredType DEF Boot, TypeOK
  <2>2. CASE \E c \in Mine : disk'[c] = "pending"
    <3>1. [phase |-> "up", rows |-> disk', kids |-> {}] \in Scheduling
      BY <2>1 DEF Scheduling, Phases
    <3>2. sched' \in [Scheds -> Scheduling]
      BY <1>1, <2>2, <3>1 DEF Boot, TypeOK, Scheduling, Phases
    <3> QED BY <1>1, <2>1, <2>2, <3>2 DEF Boot, TypeOK, Scheduling, Phases, wdVars, envVars
  <2>3. CASE ~\E c \in Mine : disk'[c] = "pending"
    <3>1. Ended(s)
      BY <1>1, <2>3 DEF Boot
    <3> QED BY <1>1, <2>1, <3>1, EndedType DEF Boot, TypeOK, Scheduling, Phases, wdVars, envVars
  <2> QED BY <2>2, <2>3
<1>2. ASSUME NEW c \in Cells, Launch(s, c) PROVE TypeOK'
  <2>1. [sched[s].rows EXCEPT ![c] = "running"] \in Rows
    BY <1>0 DEF Rows, Statuses
  <2>2. sched' = [sched EXCEPT ![s] = [phase |-> sched[s].phase,
                                       rows |-> [sched[s].rows EXCEPT ![c] = "running"],
                                       kids |-> sched[s].kids \cup {c}]]
    <3>1. sched' = [sched EXCEPT ![s].rows[c] = "running", ![s].kids = @ \cup {c}]
      BY <1>2 DEF Launch
    <3>2. sched \in [Scheds -> Scheduling]
      BY DEF TypeOK, Scheduling, Phases
    <3>3. sched'[s] = [phase |-> sched[s].phase,
                       rows |-> [sched[s].rows EXCEPT ![c] = "running"],
                       kids |-> sched[s].kids \cup {c}]
      BY <1>0, <3>1, <3>2 DEF Scheduling
    <3>4. sched' = [sched EXCEPT ![s] = sched'[s]]
      BY <3>1, <3>2
    <3> QED BY <3>3, <3>4, Zenon
  <2>3. sched' \in [Scheds -> Scheduling] /\ sched'[s].rows \in Rows
    BY <1>0, <2>1, <2>2 DEF TypeOK, Scheduling, Phases
  <2> QED BY <1>2, <2>3 DEF Launch, TypeOK, Scheduling, Phases, wdVars, envVars
<1>3. ASSUME NEW c \in Cells, NEW result \in {"green"} \cup Red, Reap(s, c, result)
      PROVE  TypeOK'
  <2>1. [sched[s].rows EXCEPT ![c] = result] \in Rows
    BY <1>0 DEF Rows, Statuses
  <2>2. sched' = [sched EXCEPT ![s] = [phase |-> sched[s].phase,
                                       rows |-> [sched[s].rows EXCEPT ![c] = result],
                                       kids |-> sched[s].kids \ {c}]]
    BY <1>0, <1>3 DEF Reap, TypeOK, Scheduling, Phases
  <2>3. sched' \in [Scheds -> Scheduling] /\ sched'[s].rows \in Rows
    BY <1>0, <2>1, <2>2 DEF TypeOK, Scheduling, Phases
  <2> QED BY <1>3, <2>3 DEF Reap, TypeOK, Scheduling, Phases, wdVars, envVars
<1>4. CASE Complete(s)
  <2>1. Ended(s)
    BY <1>4 DEF Complete, TypeOK
  <2> QED BY <1>4, <2>1, EndedType DEF Complete, TypeOK, Scheduling, Phases, wdVars, envVars
<1>5. CASE Killed(s)
  <2>1. Ended(s)
    BY <1>5 DEF Killed, TypeOK
  <2>2. killed' \in 0 .. MaxDeaths
    BY <1>5, ParameterAssumption DEF Killed, TypeOK
  <2> QED BY <1>5, <2>1, <2>2, EndedType DEF Killed, TypeOK, Scheduling, Phases, wdVars
<1> QED BY <1>1, <1>2, <1>3, <1>4, <1>5 DEF Scheduler

LEMMA MishapType ==
  ASSUME TypeOK, Mishap
  PROVE  failures + 1 \in 0 .. MaxMishaps /\ swallowed + 1 \in 0 .. MaxMishaps
BY ParameterAssumption DEF TypeOK, Mishap

LEMMA WatchdogType == ASSUME TypeOK, Watchdog PROVE TypeOK'
<1>1. ASSUME NEW d \in 1 .. Window, NEW told \in SUBSET Cells, Look(d, told) PROVE TypeOK'
  <2>1. st' \in WdState
    <3> DEFINE left == [c \in Cells |-> IF disk[c] = "green" THEN 0 ELSE st.deaths[c]]
    <3>1. st' = [notified |-> st.notified \cup told,
                 noted    |-> st.noted \cup {c \in told : disk[c] = "oom"},
                 deaths   |-> left,
                 restarts |-> Older(st.restarts, d)]
      BY <1>1 DEF Look, TypeOK, WdState
    <3>2. left \in [Cells -> 0 .. PoisonDeaths]
      BY ParameterAssumption DEF TypeOK, WdState
    <3>3. Older(st.restarts, d) \subseteq Ages
      BY DEF Older
    <3> QED BY <3>1, <3>2, <3>3 DEF TypeOK, WdState
  <2>2. saved' \in WdState
    BY <1>1 DEF Look, TypeOK, WdState, Older
  <2>3. resumed' \subseteq Ages
    BY <1>1 DEF Look, Older
  <2>4. /\ pc' \in {"asleep", "seen"} /\ view' \in Rows /\ swallowed' \in 0 .. MaxMishaps
        /\ UNCHANGED <<disk, schedVars, ends, killed, failures, relaunches>>
    BY <1>1, MishapType DEF Look, TypeOK
  <2> QED BY <2>1, <2>2, <2>3, <2>4 DEF TypeOK, schedVars
<1>2. CASE LeaveAlone
  BY <1>2, UnreadType DEF LeaveAlone, TypeOK, schedVars, envVars
<1>3. ASSUME NEW kind \in Red, Judge(kind) PROVE TypeOK'
  <2>1. Tally(st.deaths) \in [Cells -> 0 .. PoisonDeaths]
    BY BumpType DEF Tally, TypeOK, WdState
  <2>2. PICK skipped \in SUBSET Cells :
          /\ view' = [c \in Cells |-> IF c \in skipped THEN kind ELSE view[c]]
          /\ st' = [st EXCEPT !.deaths = Tally(st.deaths)]
          /\ pc' = IF skipped = {} THEN "resume" ELSE "write"
    BY <1>3 DEF Judge
  <2>3. view' \in Rows
    BY <2>2 DEF TypeOK, Rows, Statuses
  <2>4. st' \in WdState
    BY <2>1, <2>2 DEF TypeOK, WdState
  <2> QED BY <1>3, <2>2, <2>3, <2>4 DEF Judge, TypeOK, schedVars, envVars
<1>4. CASE Write
  BY <1>4 DEF Write, TypeOK, schedVars, envVars
<1>5. ASSUME NEW ok \in BOOLEAN, Resume(ok) PROVE TypeOK'
  <2>1. 0 \in Ages
    BY ParameterAssumption DEF Ages
  <2>2. st' \in WdState /\ resumed' \subseteq Ages
    BY <1>5, <2>1 DEF Resume, TypeOK, WdState
  <2>3. sched' \in [Scheds -> Scheduling] /\ pidFile' \in Scheds \cup {NoPid}
    BY <1>5, SpawnType DEF Resume, MakeMatrix, TypeOK, Scheduling, Phases
  <2>4. failures' \in 0 .. MaxMishaps
    BY <1>5, MishapType DEF Resume, TypeOK
  <2> QED BY <1>5, <2>2, <2>3, <2>4, UnreadType DEF Resume, TypeOK, Scheduling, Phases
<1>6. CASE SaveState
  BY <1>6, UnreadType DEF SaveState, TypeOK, schedVars, envVars
<1> QED BY <1>1, <1>2, <1>3, <1>4, <1>5, <1>6 DEF Watchdog

LEMMA NextType == ASSUME TypeOK, [Next]_vars PROVE TypeOK'
<1>1. CASE Relaunch
  <2>1. relaunches' \in 0 .. MaxRelaunches
    BY <1>1, ParameterAssumption DEF Relaunch, TypeOK
  <2> QED BY <1>1, <2>1, UnreadType DEF Relaunch, TypeOK, schedVars
<1>2. ASSUME NEW c \in Cells, LauncherEnds(c) PROVE TypeOK'
  BY <1>2 DEF LauncherEnds, TypeOK, wdVars, envVars
<1>3. CASE UNCHANGED vars
  BY <1>3 DEF vars, schedVars, wdVars, envVars, TypeOK
<1>4. CASE Swallow
  BY <1>4, UnreadType, MishapType DEF Swallow, TypeOK, schedVars
<1> QED BY <1>1, <1>2, <1>3, <1>4, OperatorType, SchedulerType, WatchdogType DEF Next

(* Every variable keeps its type.                                          *)
THEOREM TypeCorrect == Spec => []TypeOK
BY InitType, NextType, PTL DEF Spec

-----------------------------------------------------------------------------
(* With a careful operator, a scheduler that lives is the one the pid file *)
(* names, and once the watchdog has judged it dead there is none until it  *)
(* resumes.                                                                *)
PidFileKnows ==
  /\ \A s \in Scheds : Alive(s) => pidFile = s
  /\ pc \in {"write", "resume"} => OrchDead

LEMMA OneOwner == PidFileKnows => OneScheduler
BY DEF PidFileKnows, OneScheduler

LEMMA DeadMeansNobody ==
  ASSUME PidFileKnows, OrchDead, NEW s \in Scheds
  PROVE  ~Alive(s)
BY DEF PidFileKnows, OrchDead

(* make matrix is refused while its scheduler lives, and nobody else       *)
(* starts one.                                                             *)
LEMMA MakeMatrixKnows ==
  ASSUME TypeOK, PidFileKnows, NEW s \in Scheds, MakeMatrix(s)
  PROVE  \A t \in Scheds : Alive(t)' => pidFile' = t
<1>1. \A t \in Scheds : ~Alive(t)
  BY DEF MakeMatrix, PidFileKnows
<1> QED BY <1>1 DEF MakeMatrix, Spawn, Alive, TypeOK

LEMMA SchedulerKnows ==
  ASSUME TypeOK, PidFileKnows, NEW s \in Scheds, Scheduler(s) \/ Killed(s)
  PROVE  PidFileKnows'
<1>1. \A t \in Scheds : Alive(t)' => Alive(t)
  BY DEF Scheduler, Killed, Boot, Launch, Reap, Complete, Ended, NoSched, Alive, TypeOK
<1>2. UNCHANGED <<pidFile, pc>>
  BY DEF Scheduler, Killed, Boot, Launch, Reap, Complete, wdVars
<1> QED BY <1>1, <1>2 DEF PidFileKnows, OrchDead

LEMMA WatchdogKnows == ASSUME TypeOK, PidFileKnows, Watchdog PROVE PidFileKnows'
<1>1. ASSUME NEW ok \in BOOLEAN, Resume(ok) PROVE PidFileKnows'
  <2>1. pc' = "save" /\ (UNCHANGED <<pidFile, sched>> \/ \E s \in Scheds : MakeMatrix(s))
    BY <1>1 DEF Resume
  <2> QED BY <2>1, MakeMatrixKnows DEF PidFileKnows, Alive
<1>2. ASSUME UNCHANGED <<pidFile, sched>>, pc' \in {"write", "resume"} => OrchDead
      PROVE  PidFileKnows'
  BY <1>2 DEF PidFileKnows, OrchDead, Alive
<1>3. /\ \A d \in 1 .. Window, told \in SUBSET Cells :
           Look(d, told) => UNCHANGED <<pidFile, sched>> /\ pc' \in {"asleep", "seen"}
      /\ \A kind \in Red : Judge(kind) => UNCHANGED <<pidFile, sched>> /\ OrchDead
      /\ LeaveAlone \/ SaveState => UNCHANGED <<pidFile, sched>> /\ pc' = "asleep"
      /\ Write => UNCHANGED <<pidFile, sched>> /\ OrchDead
  BY DEF Look, Judge, LeaveAlone, NothingToDo, SaveState, Write, PidFileKnows, schedVars
<1> QED BY <1>1, <1>2, <1>3 DEF Watchdog

LEMMA NextKnows ==
  ASSUME CarefulOperator, TypeOK, PidFileKnows, [Next]_vars
  PROVE  PidFileKnows'
<1>1. ASSUME NEW s \in Scheds, NEW target \in {"matrix", "matrix-resume"},
             OperatorStarts(s, target)
      PROVE  PidFileKnows'
  <2>1. MakeMatrix(s) /\ pc' = "asleep"
    BY <1>1 DEF OperatorStarts, wdVars
  <2> QED BY <2>1, MakeMatrixKnows DEF PidFileKnows
<1>2. CASE Relaunch \/ Swallow
  BY <1>2 DEF Relaunch, Swallow, PidFileKnows, Alive, schedVars
<1>3. CASE UNCHANGED vars \/ \E c \in Cells : LauncherEnds(c)
  BY <1>3 DEF LauncherEnds, PidFileKnows, OrchDead, Alive, vars, schedVars, wdVars
<1> QED BY <1>1, <1>2, <1>3, SchedulerKnows, WatchdogKnows DEF Next

LEMMA KnowsHolds == ASSUME CarefulOperator PROVE Spec => []PidFileKnows
<1>1. Init => PidFileKnows
  BY DEF Init, PidFileKnows, Alive, NoSched
<1>2. TypeOK /\ PidFileKnows /\ [Next]_vars => PidFileKnows'
  BY NextKnows
<1> QED BY <1>1, <1>2, TypeCorrect, PTL DEF Spec

(* make matrix's test of the pid file is enough to keep a second scheduler *)
(* off the file, as long as everybody uses it.                             *)
THEOREM OneSchedulerAtMost == ASSUME CarefulOperator PROVE Spec => []OneScheduler
BY KnowsHolds, OneOwner, PTL

(* The watchdog writes the rows only while no scheduler can be writing.    *)
THEOREM WritesAreAlone == ASSUME CarefulOperator PROVE Spec => WritesWhenDead
<1>1. PidFileKnows => [Write => \A s \in Scheds : ~Alive(s)]_vars
  <2>1. ASSUME PidFileKnows, Write PROVE \A s \in Scheds : ~Alive(s)
    BY <2>1, DeadMeansNobody DEF Write, PidFileKnows
  <2> QED BY <2>1
<1> QED BY <1>1, KnowsHolds, PTL DEF WritesWhenDead

-----------------------------------------------------------------------------
(* With a careful operator a live scheduler's memory is the file, so a     *)
(* cell that trains is not pending in either, but for those the watchdog   *)
(* set back.  A boot leaves a row alone whose launcher lives, a launch     *)
(* takes its row off pending, and only the watchdog's write goes back      *)
(* behind it.                                                              *)
FileKnows ==
  /\ \A s \in Scheds : sched[s].phase = "up" => sched[s].rows = disk
  /\ \A c \in training : disk[c] = "pending" => c \in undone

LEMMA SchedulerFile ==
  ASSUME TypeOK, PidFileKnows, FileKnows, NEW s \in Scheds, Scheduler(s) \/ Killed(s)
  PROVE  FileKnows'
<1>0. /\ sched \in [Scheds -> Scheduling] /\ disk \in Rows
      /\ training \subseteq Cells
  BY DEF TypeOK, Scheduling, Phases
<1>1. undone' = undone
  BY DEF Scheduler, Killed, Boot, Launch, Reap, Complete, schedVars
<1>2. ASSUME Alive(s) PROVE \A t \in Scheds \ {s} : sched[t].phase = "none"
  BY <1>2 DEF PidFileKnows, Alive
<1>3. ASSUME Ended(s), UNCHANGED disk, training' = training PROVE FileKnows'
  BY <1>0, <1>1, <1>3 DEF FileKnows, Ended, NoSched
<1>4. CASE Boot(s)
  <2>1. /\ disk' = Recovered(disk) /\ training' = training
        /\ \A t \in Scheds \ {s} : sched'[t] = sched[t]
        /\ sched'[s].phase = "up" => sched'[s].rows = disk'
    BY <1>0, <1>4 DEF Boot, Ended, NoSched
  <2>2. \A c \in training : disk'[c] = disk[c]
    BY <1>0, <2>1 DEF Recovered, Rows
  <2>3. Alive(s)
    BY <1>4 DEF Boot, Alive
  <2> QED BY <1>1, <1>2, <2>1, <2>2, <2>3 DEF FileKnows
<1>5. ASSUME NEW c \in Cells, Launch(s, c) PROVE FileKnows'
  <2>1. /\ sched[s].phase = "up" /\ training' = training \cup {c} /\ disk' = sched'[s].rows
        /\ sched' = [sched EXCEPT ![s].rows[c] = "running", ![s].kids = @ \cup {c}]
    BY <1>5 DEF Launch
  <2>2. /\ \A t \in Scheds \ {s} : sched'[t] = sched[t]
        /\ sched'[s].rows = [sched[s].rows EXCEPT ![c] = "running"]
    BY <1>0, <2>1 DEF Scheduling
  <2>3. disk' = [disk EXCEPT ![c] = "running"]
    BY <2>1, <2>2 DEF FileKnows
  <2> QED BY <1>0, <1>1, <1>2, <2>1, <2>2, <2>3 DEF FileKnows, Alive, Rows
<1>6. ASSUME NEW c \in Cells, NEW result \in {"green"} \cup Red, Reap(s, c, result)
      PROVE  FileKnows'
  <2>1. /\ sched[s].phase = "up" /\ training' = training /\ disk' = sched'[s].rows
        /\ c \notin training
        /\ sched' = [sched EXCEPT ![s].rows[c] = result, ![s].kids = @ \ {c}]
    BY <1>6 DEF Reap
  <2>2. /\ \A t \in Scheds \ {s} : sched'[t] = sched[t]
        /\ sched'[s].rows = [sched[s].rows EXCEPT ![c] = result]
    BY <1>0, <2>1 DEF Scheduling
  <2>3. disk' = [disk EXCEPT ![c] = result]
    BY <2>1, <2>2 DEF FileKnows
  <2> QED BY <1>0, <1>1, <1>2, <2>1, <2>2, <2>3 DEF FileKnows, Alive, Rows
<1>7. CASE Complete(s) \/ Killed(s)
  BY <1>3, <1>7 DEF Complete, Killed
<1> QED BY <1>4, <1>5, <1>6, <1>7 DEF Scheduler

LEMMA StartsFile ==
  ASSUME TypeOK, FileKnows, NEW s \in Scheds, Spawn(s), UNCHANGED <<disk, training, undone>>
  PROVE  FileKnows'
<1>1. /\ sched'[s].phase = "boot"
      /\ \A t \in Scheds \ {s} : sched'[t] = sched[t]
  BY DEF Spawn, TypeOK, NoSched
<1> QED BY <1>1 DEF FileKnows

LEMMA WatchdogFile ==
  ASSUME TypeOK, PidFileKnows, FileKnows, Watchdog
  PROVE  FileKnows'
<1>1. CASE Write
  <2>1. /\ disk' = view /\ UNCHANGED <<sched, training>> /\ OrchDead
        /\ undone' = undone \cup {c \in training : view[c] = "pending" /\ disk[c] # "pending"}
    BY <1>1 DEF Write, PidFileKnows
  <2>2. \A s \in Scheds : sched'[s].phase = "none"
    BY <2>1, DeadMeansNobody DEF Alive
  <2> QED BY <2>1, <2>2 DEF FileKnows
<1>2. ASSUME NEW ok \in BOOLEAN, Resume(ok) PROVE FileKnows'
  <2>1. /\ UNCHANGED <<disk, training, undone>>
        /\ UNCHANGED sched \/ \E s \in Scheds : Spawn(s)
    BY <1>2 DEF Resume, MakeMatrix
  <2> QED BY <2>1, StartsFile DEF FileKnows
<1>3. ASSUME UNCHANGED <<disk, sched, training, undone>> PROVE FileKnows'
  BY <1>3 DEF FileKnows
<1> QED BY <1>1, <1>2, <1>3 DEF Watchdog, Look, LeaveAlone, Judge, SaveState, schedVars

LEMMA NextFile ==
  ASSUME TypeOK, PidFileKnows, FileKnows, [Next]_vars
  PROVE  FileKnows'
<1>1. ASSUME NEW s \in Scheds, NEW target \in {"matrix", "matrix-resume"},
             OperatorStarts(s, target)
      PROVE  FileKnows'
  BY <1>1, StartsFile DEF OperatorStarts, MakeMatrix
<1>2. ASSUME NEW c \in Cells, LauncherEnds(c) PROVE FileKnows'
  BY <1>2 DEF LauncherEnds, FileKnows
<1>3. CASE Relaunch \/ Swallow \/ UNCHANGED vars
  BY <1>3 DEF Relaunch, Swallow, FileKnows, vars, schedVars
<1> QED BY <1>1, <1>2, <1>3, SchedulerFile, WatchdogFile DEF Next

(* No cell is launched beside an earlier launcher of it, unless the        *)
(* watchdog wrote its row back from before it was launched.                *)
THEOREM NothingLaunchedTwice == ASSUME CarefulOperator PROVE Spec => NoSecondLaunch
<1>1. Init => FileKnows
  BY DEF Init, FileKnows, NoSched
<1>2. TypeOK /\ PidFileKnows /\ FileKnows /\ [Next]_vars => FileKnows'
  BY NextFile
<1>3. FileKnows => [\A s \in Scheds, c \in Cells :
                      Launch(s, c) /\ c \in training => c \in undone]_vars
  BY DEF FileKnows, Launch
<1> QED BY <1>1, <1>2, <1>3, TypeCorrect, KnowsHolds, PTL DEF Spec, NoSecondLaunch

-----------------------------------------------------------------------------
(* A resume that the watchdog does not remember was lost at a death of     *)
(* it; one that is not saved would be lost at the next.  Between a resume  *)
(* and its save nothing has gone wrong yet.                                *)
Forgotten == resumed \ st.restarts
Unsaved   == IF pc = "save" THEN resumed \ (saved.restarts \cup {0})
                            ELSE resumed \ saved.restarts

WindowInv ==
  /\ saved.restarts \subseteq st.restarts
  /\ pc = "save" => 0 \in st.restarts
  /\ Cardinality(st.restarts) <= RestartMax
  /\ pc \in {"write", "resume"} => Cardinality(st.restarts) < RestartMax
  /\ relaunches = 0 => Forgotten = {}
  /\ Cardinality(Unsaved) <= relaunches + swallowed

LEMMA AgesFinite ==
  ASSUME NEW S \in SUBSET Ages
  PROVE  IsFiniteSet(S) /\ Cardinality(S) \in Nat
<1>1. IsFiniteSet(Ages)
  <2>1. 0 \in Int /\ Window - 1 \in Int
    BY ParameterAssumption
  <2> QED BY <2>1, FS_Interval DEF Ages
<1>2. IsFiniteSet(S)
  BY <1>1, FS_Subset
<1> QED BY <1>2, FS_CardinalityType

(* Time makes no two resumes one and no resume two.                        *)
LEMMA OlderIsNoLarger ==
  ASSUME NEW S \in SUBSET Ages, NEW d \in 1 .. Window
  PROVE  Cardinality(Older(S, d)) <= Cardinality(S)
<1> DEFINE T == {a \in S : a + d \in Ages}
           f == [a \in T |-> a + d]
<1>1. T \in SUBSET Ages /\ Cardinality(T) <= Cardinality(S)
  BY AgesFinite, FS_Subset
<1>2. f \in Surjection(T, Older(S, d))
  BY DEF Older, Surjection
<1>3. Cardinality(Older(S, d)) <= Cardinality(T)
  BY <1>1, <1>2, AgesFinite, FS_Surjection
<1>4. Older(S, d) \in SUBSET Ages
  BY DEF Older
<1> QED BY <1>1, <1>3, <1>4, AgesFinite

LEMMA OneMore ==
  ASSUME NEW S \in SUBSET Ages
  PROVE  Cardinality(S \cup {0}) <= Cardinality(S) + 1
<1>1. IsFiniteSet(S) /\ Cardinality(S) \in Nat
  BY AgesFinite
<1>2. Cardinality(S \cup {0}) = IF 0 \in S THEN Cardinality(S) ELSE Cardinality(S) + 1
  BY <1>1, FS_AddElement
<1> QED BY <1>1, <1>2

LEMMA SubsetIsNoLarger ==
  ASSUME NEW S \in SUBSET Ages, NEW T \in SUBSET S
  PROVE  Cardinality(T) <= Cardinality(S)
BY AgesFinite, FS_Subset

LEMMA WindowTypes ==
  TypeOK => /\ st.restarts \in SUBSET Ages /\ saved.restarts \in SUBSET Ages
            /\ resumed \in SUBSET Ages /\ Forgotten \in SUBSET Ages
            /\ Unsaved \in SUBSET Ages
            /\ relaunches \in Nat /\ swallowed \in Nat /\ 0 \in Ages
<1> SUFFICES ASSUME TypeOK
             PROVE  /\ st.restarts \in SUBSET Ages /\ saved.restarts \in SUBSET Ages
                    /\ resumed \in SUBSET Ages /\ Forgotten \in SUBSET Ages
                    /\ Unsaved \in SUBSET Ages
                    /\ relaunches \in Nat /\ swallowed \in Nat /\ 0 \in Ages
  OBVIOUS
<1>1. st.restarts \in SUBSET Ages /\ saved.restarts \in SUBSET Ages
  BY DEF TypeOK, WdState
<1>2. resumed \in SUBSET Ages /\ Forgotten \in SUBSET Ages /\ Unsaved \in SUBSET Ages
  BY DEF TypeOK, Forgotten, Unsaved
<1>3. relaunches \in Nat /\ swallowed \in Nat /\ 0 \in Ages
  BY ParameterAssumption DEF TypeOK, Ages
<1> QED BY <1>1, <1>2, <1>3

(* What does not add to the unsaved ones keeps their bound.                *)
LEMMA StillCovered ==
  ASSUME TypeOK, WindowInv, Unsaved' \subseteq Unsaved,
         relaunches' = relaunches, swallowed' \in {swallowed, swallowed + 1}
  PROVE  Cardinality(Unsaved') <= relaunches' + swallowed'
<1>1. Cardinality(Unsaved') <= Cardinality(Unsaved) /\ Unsaved' \in SUBSET Ages
  BY SubsetIsNoLarger, WindowTypes
<1> QED BY <1>1, WindowTypes, AgesFinite DEF WindowInv

(* A death, or an exception, adds the one resume not yet saved.            *)
LEMMA OneMoreCovered ==
  ASSUME TypeOK, WindowInv, Unsaved' \subseteq Unsaved \cup {0},
         \/ relaunches' = relaunches + 1 /\ swallowed' = swallowed
         \/ relaunches' = relaunches /\ swallowed' = swallowed + 1
  PROVE  Cardinality(Unsaved') <= relaunches' + swallowed'
<1>1. Unsaved \cup {0} \in SUBSET Ages /\ Unsaved' \in SUBSET Ages
  BY WindowTypes
<1>2. Cardinality(Unsaved') <= Cardinality(Unsaved \cup {0})
  BY <1>1, SubsetIsNoLarger
<1>3. Cardinality(Unsaved \cup {0}) <= Cardinality(Unsaved) + 1
  BY OneMore, WindowTypes
<1> QED BY <1>1, <1>2, <1>3, WindowTypes, AgesFinite DEF WindowInv

LEMMA InitWindow == Init => WindowInv
BY FS_EmptySet, ParameterAssumption DEF Init, WindowInv, Forgotten, Unsaved

LEMMA NextWindow == ASSUME TypeOK, WindowInv, [Next]_vars PROVE WindowInv'
<1>0. st \in WdState /\ saved \in WdState
  BY DEF TypeOK
<1>1. ASSUME NEW d \in 1 .. Window, NEW told \in SUBSET Cells, Look(d, told)
      PROVE  WindowInv'
  <2>1. /\ st'.restarts = Older(st.restarts, d) /\ saved'.restarts = Older(saved.restarts, d)
        /\ resumed' = Older(resumed, d) /\ relaunches' = relaunches
        /\ swallowed' \in {swallowed, swallowed + 1}
        /\ pc = "asleep" /\ pc' \in {"asleep", "seen"}
    BY <1>0, <1>1 DEF Look, WdState
  <2>2. /\ Cardinality(st'.restarts) <= RestartMax
        /\ saved'.restarts \subseteq st'.restarts
    <3>1. Cardinality(st'.restarts) <= Cardinality(st.restarts) /\ st'.restarts \in SUBSET Ages
      BY <2>1, OlderIsNoLarger, WindowTypes DEF Older
    <3>2. Cardinality(st'.restarts) \in Nat /\ Cardinality(st.restarts) \in Nat
      BY <3>1, WindowTypes, AgesFinite
    <3> QED BY <2>1, <3>1, <3>2, ParameterAssumption DEF WindowInv, Older
  <2>3. relaunches' = 0 => Forgotten' = {}
    BY <2>1 DEF WindowInv, Forgotten, Older
  <2>4. Cardinality(Unsaved') <= relaunches' + swallowed'
    <3>1. Unsaved' \subseteq Older(Unsaved, d)
      BY <2>1 DEF Unsaved, Older
    <3>2. Older(Unsaved, d) \in SUBSET Ages /\ Unsaved' \in SUBSET Ages
      BY <3>1 DEF Older
    <3>3. Cardinality(Unsaved') <= Cardinality(Older(Unsaved, d))
      BY <3>1, <3>2, SubsetIsNoLarger
    <3>4. Cardinality(Older(Unsaved, d)) <= Cardinality(Unsaved)
      BY OlderIsNoLarger, WindowTypes
    <3> QED BY <2>1, <3>2, <3>3, <3>4, WindowTypes, AgesFinite DEF WindowInv
  <2> QED BY <2>1, <2>2, <2>3, <2>4 DEF WindowInv
<1>2. CASE LeaveAlone \/ SaveState
  <2>1. /\ saved' = st /\ st' = st /\ pc' = "asleep"
        /\ UNCHANGED <<resumed, relaunches, swallowed>>
    BY <1>2 DEF LeaveAlone, SaveState, envVars
  <2>2. Unsaved' \subseteq Unsaved
    BY <2>1 DEF Unsaved, WindowInv
  <2> QED BY <2>1, <2>2, StillCovered DEF WindowInv, Forgotten
<1>3. ASSUME NEW kind \in Red, Judge(kind) PROVE WindowInv'
  <2>1. st'.restarts = st.restarts /\ pc = "seen" /\ pc' \in {"write", "resume"} /\ ~Looping
        /\ UNCHANGED <<saved, resumed, relaunches, swallowed>>
    BY <1>0, <1>3 DEF Judge, NothingToDo, WdState, envVars
  <2>2. Cardinality(st.restarts) < RestartMax
    BY <2>1, WindowTypes, AgesFinite, ParameterAssumption DEF Looping
  <2>3. Unsaved' \subseteq Unsaved
    BY <2>1 DEF Unsaved
  <2> QED BY <2>1, <2>2, <2>3, StillCovered DEF WindowInv, Forgotten
<1>4. CASE Write
  <2>1. pc = "write" /\ pc' = "resume" /\ UNCHANGED <<st, saved, resumed, relaunches, swallowed>>
    BY <1>4 DEF Write, envVars
  <2>2. Unsaved' \subseteq Unsaved
    BY <2>1 DEF Unsaved
  <2> QED BY <2>1, <2>2, StillCovered DEF WindowInv, Forgotten
<1>5. ASSUME NEW ok \in BOOLEAN, Resume(ok) PROVE WindowInv'
  <2>1. /\ st'.restarts = st.restarts \cup {0} /\ resumed' = resumed \cup {0}
        /\ pc = "resume" /\ pc' = "save" /\ UNCHANGED <<saved, relaunches, swallowed>>
    BY <1>0, <1>5 DEF Resume, WdState
  <2>2. Cardinality(st'.restarts) <= RestartMax
    BY <2>1, OneMore, WindowTypes, AgesFinite, ParameterAssumption DEF WindowInv
  <2>3. Unsaved' \subseteq Unsaved
    BY <2>1 DEF Unsaved
  <2>4. relaunches' = 0 => Forgotten' = {}
    BY <2>1 DEF WindowInv, Forgotten
  <2> QED BY <2>1, <2>2, <2>3, <2>4, StillCovered DEF WindowInv
<1>6. CASE Swallow
  <2>1. /\ pc' = "asleep" /\ UNCHANGED <<st, saved, resumed, relaunches>>
        /\ swallowed' = swallowed + 1
    BY <1>6 DEF Swallow
  <2>2. Unsaved' \subseteq Unsaved \cup {0}
    BY <2>1 DEF Unsaved
  <2> QED BY <2>1, <2>2, OneMoreCovered DEF WindowInv, Forgotten
<1>7. CASE Relaunch
  <2>1. st' = saved /\ saved' = saved /\ resumed' = resumed /\ pc' = "asleep"
        /\ relaunches' = relaunches + 1 /\ swallowed' = swallowed
    BY <1>7 DEF Relaunch
  <2>2. Cardinality(saved.restarts) <= RestartMax
    BY SubsetIsNoLarger, WindowTypes, AgesFinite, ParameterAssumption DEF WindowInv
  <2>3. Unsaved' \subseteq Unsaved \cup {0}
    BY <2>1 DEF Unsaved
  <2> QED BY <2>1, <2>2, <2>3, OneMoreCovered, WindowTypes DEF WindowInv
<1>8. ASSUME UNCHANGED <<st, saved, resumed, relaunches, swallowed, pc>> PROVE WindowInv'
  BY <1>8 DEF WindowInv, Forgotten, Unsaved
<1>9. /\ \A s \in Scheds : Scheduler(s) \/ Killed(s)
                              => UNCHANGED <<st, saved, resumed, relaunches, swallowed, pc>>
      /\ \A s \in Scheds, target \in {"matrix", "matrix-resume"} :
           OperatorStarts(s, target)
             => UNCHANGED <<st, saved, resumed, relaunches, swallowed, pc>>
      /\ \A c \in Cells :
           LauncherEnds(c) => UNCHANGED <<st, saved, resumed, relaunches, swallowed, pc>>
      /\ UNCHANGED vars => UNCHANGED <<st, saved, resumed, relaunches, swallowed, pc>>
  BY DEF Scheduler, Killed, Boot, Launch, Reap, Complete, OperatorStarts, LauncherEnds,
         vars, wdVars, envVars
<1> QED BY <1>1, <1>2, <1>3, <1>4, <1>5, <1>6, <1>7, <1>8, <1>9 DEF Next, Watchdog

(* The restart window: never more resumes in it than allowed, but for      *)
(* those that a death of the watchdog made it forget, which are as many as *)
(* there were deaths and passes cut short.                                 *)
THEOREM RestartsStayBounded == Spec => []RestartsBounded
<1>1. TypeOK /\ WindowInv => RestartsBounded
  <2> SUFFICES ASSUME TypeOK, WindowInv PROVE RestartsBounded
    OBVIOUS
  <2>1. CASE relaunches = 0
    <3>1. resumed \in SUBSET st.restarts
      BY <2>1 DEF WindowInv, Forgotten
    <3>2. Cardinality(resumed) <= Cardinality(st.restarts)
      BY <3>1, WindowTypes, SubsetIsNoLarger
    <3> QED BY <2>1, <3>2, WindowTypes, AgesFinite, ParameterAssumption
            DEF RestartsBounded, WindowInv
  <2>2. CASE relaunches # 0
    <3>1. /\ resumed \subseteq st.restarts \cup Unsaved
          /\ (st.restarts \cup Unsaved) \in SUBSET Ages
      BY WindowTypes DEF Unsaved, WindowInv
    <3>2. Cardinality(resumed) <= Cardinality(st.restarts \cup Unsaved)
      BY <3>1, SubsetIsNoLarger
    <3>3. Cardinality(st.restarts \cup Unsaved)
            <= Cardinality(st.restarts) + Cardinality(Unsaved)
      <4>1. IsFiniteSet(st.restarts) /\ IsFiniteSet(Unsaved)
        BY WindowTypes, AgesFinite
      <4>2. Cardinality(st.restarts \cup Unsaved)
              = Cardinality(st.restarts) + Cardinality(Unsaved)
                  - Cardinality(st.restarts \cap Unsaved)
        BY <4>1, FS_Union
      <4>3. Cardinality(st.restarts \cap Unsaved) \in Nat
        <5>1. (st.restarts \cap Unsaved) \in SUBSET Ages
          BY WindowTypes
        <5> QED BY <5>1, AgesFinite
      <4> QED BY <4>2, <4>3, WindowTypes, AgesFinite
    <3>4. /\ Cardinality(resumed) \in Nat /\ Cardinality(st.restarts) \in Nat
          /\ Cardinality(Unsaved) \in Nat /\ Cardinality(st.restarts \cup Unsaved) \in Nat
      BY <3>1, WindowTypes, AgesFinite
    <3> QED BY <2>2, <3>2, <3>3, <3>4, WindowTypes, ParameterAssumption
            DEF RestartsBounded, WindowInv
  <2> QED BY <2>1, <2>2
<1>2. TypeOK /\ WindowInv /\ [Next]_vars => WindowInv'
  BY NextWindow
<1> QED BY <1>1, <1>2, InitWindow, TypeCorrect, PTL DEF Spec

-----------------------------------------------------------------------------
(* Each tally is paid for: by the deaths there were, the resumes that      *)
(* failed and the passes that were cut short.  A dead scheduler that is still to be judged is one death more  *)
(* than any tally knows of, unless the count of deaths stopped.            *)
Paid(tally) == \A c \in Cells : tally[c] < ends + failures + swallowed \/ ends = PoisonDeaths

TallyInv ==
  /\ TallyNeedsDeaths
  /\ \A c \in Cells : saved.deaths[c] <= ends + failures + swallowed
  /\ OrchDead => Paid(saved.deaths)
  /\ OrchDead /\ pc \notin {"write", "resume"} => Paid(st.deaths)

LEMMA TallyTypes ==
  TypeOK => /\ st.deaths \in [Cells -> 0 .. PoisonDeaths]
            /\ saved.deaths \in [Cells -> 0 .. PoisonDeaths]
            /\ ends \in 0 .. PoisonDeaths /\ failures \in Nat /\ swallowed \in Nat /\ PoisonDeaths \in Nat
BY ParameterAssumption DEF TypeOK, WdState

(* What a scheduler that ends does to the accounts.                        *)
LEMMA EndPays ==
  ASSUME TypeOK, TallyInv, NEW s \in Scheds, Ended(s),
         UNCHANGED <<pc, st, saved, failures, swallowed>>
  PROVE  TallyInv'
<1>1. /\ ends' \in 0 .. PoisonDeaths /\ ends' >= ends
      /\ ends' = ends + 1 \/ ends' = PoisonDeaths
  BY BumpType, TallyTypes DEF Ended, Bump
<1>2. Paid(st.deaths)' /\ Paid(saved.deaths)'
  BY <1>1, TallyTypes DEF TallyInv, TallyNeedsDeaths, Paid
<1>3. TallyNeedsDeaths' /\ \A c \in Cells : saved'.deaths[c] <= ends' + failures' + swallowed'
  BY <1>1, TallyTypes DEF TallyInv, TallyNeedsDeaths
<1> QED BY <1>2, <1>3 DEF TallyInv

(* Whatever else schedulers and operators do, no dead one is left unpaid.  *)
LEMMA OthersPay ==
  ASSUME TallyInv, UNCHANGED <<pc, st, saved, failures, swallowed, ends>>, OrchDead' => OrchDead
  PROVE  TallyInv'
BY DEF TallyInv, TallyNeedsDeaths, Paid

LEMMA StartsUndead ==
  ASSUME TypeOK, NEW s \in Scheds, MakeMatrix(s)
  PROVE  ~OrchDead'
<1>1. pidFile' = s /\ sched'[s].phase = "boot"
  BY DEF MakeMatrix, Spawn, TypeOK, NoSched
<1> QED BY <1>1 DEF OrchDead, Alive

LEMMA SchedulerPays ==
  ASSUME TypeOK, TallyInv, NEW s \in Scheds, Scheduler(s) \/ Killed(s)
  PROVE  TallyInv'
<1>1. UNCHANGED <<pc, st, saved, failures, swallowed, pidFile>>
  BY DEF Scheduler, Killed, Boot, Launch, Reap, Complete, wdVars, envVars
<1>2. ASSUME Ended(s) PROVE TallyInv'
  BY <1>1, <1>2, EndPays
<1>3. ASSUME sched'[s].phase = "up", \A t \in Scheds \ {s} : sched'[t] = sched[t],
             ends' = ends
      PROVE  TallyInv'
  <2>1. OrchDead' => OrchDead
    BY <1>1, <1>3 DEF OrchDead, Alive
  <2> QED BY <1>1, <1>3, <2>1, OthersPay
<1>4. CASE Boot(s)
  <2>1. CASE \E c \in Mine : disk'[c] = "pending"
    BY <1>3, <1>4, <2>1 DEF Boot, TypeOK
  <2>2. CASE ~\E c \in Mine : disk'[c] = "pending"
    BY <1>2, <1>4, <2>2 DEF Boot
  <2> QED BY <2>1, <2>2
<1>5. ASSUME NEW c \in Cells, Launch(s, c) PROVE TallyInv'
  BY <1>3, <1>5 DEF Launch, TypeOK
<1>6. ASSUME NEW c \in Cells, NEW result \in {"green"} \cup Red, Reap(s, c, result)
      PROVE  TallyInv'
  BY <1>3, <1>6 DEF Reap, TypeOK
<1>7. CASE Complete(s)
  BY <1>2, <1>7 DEF Complete
<1>8. CASE Killed(s)
  BY <1>2, <1>8 DEF Killed
<1> QED BY <1>4, <1>5, <1>6, <1>7, <1>8 DEF Scheduler

LEMMA WatchdogPays ==
  ASSUME TypeOK, PidFileKnows, TallyInv, Watchdog
  PROVE  TallyInv'
<1>0. st \in WdState /\ saved \in WdState
  BY DEF TypeOK
<1>1. ASSUME NEW d \in 1 .. Window, NEW told \in SUBSET Cells, Look(d, told) PROVE TallyInv'
  <2>1. /\ \A c \in Cells : st'.deaths[c] \in {0, st.deaths[c]}
        /\ saved'.deaths = saved.deaths
        /\ UNCHANGED <<pidFile, sched, ends, failures>>
        /\ swallowed' \in {swallowed, swallowed + 1}
        /\ pc = "asleep"
    BY <1>0, <1>1 DEF Look, WdState, schedVars
  <2>2. \A c \in Cells : st'.deaths[c] <= st.deaths[c] /\ st'.deaths[c] \in Nat
    BY <2>1, TallyTypes
  <2>3. /\ TallyNeedsDeaths' /\ (Paid(st.deaths) => Paid(st.deaths)')
        /\ \A c \in Cells : saved'.deaths[c] <= ends' + failures' + swallowed'
        /\ (Paid(saved.deaths) => Paid(saved.deaths)')
    BY <2>1, <2>2, TallyTypes DEF TallyInv, TallyNeedsDeaths, Paid
  <2>4. OrchDead' <=> OrchDead
    BY <2>1 DEF OrchDead, Alive
  <2> QED BY <2>1, <2>3, <2>4 DEF TallyInv
<1>2. CASE LeaveAlone \/ SaveState
  <2>1. /\ UNCHANGED <<pidFile, sched, ends, failures, swallowed, st>> /\ saved' = st
        /\ pc \notin {"write", "resume"}
    BY <1>2 DEF LeaveAlone, SaveState, schedVars, envVars
  <2>2. OrchDead' <=> OrchDead
    BY <2>1 DEF OrchDead, Alive
  <2> QED BY <2>1, <2>2 DEF TallyInv, TallyNeedsDeaths, Paid
<1>3. ASSUME NEW kind \in Red, Judge(kind) PROVE TallyInv'
  <2>1. /\ st'.deaths = Tally(st.deaths) /\ OrchDead /\ pc = "seen"
        /\ pc' \in {"write", "resume"}
        /\ UNCHANGED <<pidFile, sched, ends, failures, swallowed, saved>>
    BY <1>0, <1>3 DEF Judge, NothingToDo, WdState, schedVars, envVars
  <2>2. TallyNeedsDeaths'
    <3> SUFFICES ASSUME NEW c \in Cells PROVE st'.deaths[c] <= ends + failures + swallowed
      BY <2>1 DEF TallyNeedsDeaths
    <3>1. st.deaths[c] < ends + failures + swallowed \/ ends = PoisonDeaths
      BY <2>1 DEF TallyInv, Paid
    <3>2. st'.deaths[c] \in {st.deaths[c], Bump(st.deaths[c])}
      BY <2>1 DEF Tally
    <3> QED BY <3>1, <3>2, BumpType, TallyTypes
  <2>3. OrchDead' <=> OrchDead
    BY <2>1 DEF OrchDead, Alive
  <2> QED BY <2>1, <2>2, <2>3 DEF TallyInv, Paid
<1>4. CASE Write
  <2>1. /\ UNCHANGED <<pidFile, sched, ends, failures, swallowed, st, saved>>
        /\ pc' \in {"write", "resume"}
    BY <1>4 DEF Write, schedVars, envVars
  <2> QED BY <2>1 DEF TallyInv, TallyNeedsDeaths, Paid, OrchDead, Alive
<1>5. ASSUME NEW ok \in BOOLEAN, Resume(ok) PROVE TallyInv'
  <2>1. st'.deaths = st.deaths /\ UNCHANGED <<saved, ends, swallowed>> /\ OrchDead
    BY <1>0, <1>5 DEF Resume, WdState, PidFileKnows
  <2>2. CASE ok
    <3>1. ~OrchDead' /\ failures' = failures
      BY <1>5, <2>2, StartsUndead DEF Resume
    <3> QED BY <2>1, <3>1 DEF TallyInv, TallyNeedsDeaths
  <2>3. CASE ~ok
    <3>1. failures' = failures + 1
      BY <1>5, <2>1, <2>3 DEF Resume
    <3>2. TallyNeedsDeaths' /\ Paid(st.deaths)' /\ Paid(saved.deaths)'
      BY <2>1, <3>1, TallyTypes DEF TallyInv, TallyNeedsDeaths, Paid
    <3>3. \A c \in Cells : saved'.deaths[c] <= ends' + failures' + swallowed'
      BY <2>1, <3>1, TallyTypes DEF TallyInv
    <3> QED BY <3>2, <3>3 DEF TallyInv
  <2> QED BY <2>2, <2>3
<1> QED BY <1>1, <1>2, <1>3, <1>4, <1>5 DEF Watchdog

LEMMA NextPays ==
  ASSUME TypeOK, PidFileKnows, TallyInv, [Next]_vars
  PROVE  TallyInv'
<1>1. ASSUME NEW s \in Scheds, NEW target \in {"matrix", "matrix-resume"},
             OperatorStarts(s, target)
      PROVE  TallyInv'
  <2>1. UNCHANGED <<pc, st, saved, failures, swallowed, ends>>
    BY <1>1 DEF OperatorStarts, wdVars, envVars
  <2>2. OrchDead' => OrchDead
    <3>1. CASE MakeMatrix(s)
      BY <3>1, StartsUndead
    <3>2. CASE Spawn(s) /\ UNCHANGED pidFile
      BY <3>2 DEF Spawn, OrchDead, Alive, TypeOK
    <3> QED BY <1>1, <3>1, <3>2 DEF OperatorStarts
  <2> QED BY <2>1, <2>2, OthersPay
<1>2. CASE Relaunch
  BY <1>2 DEF Relaunch, TallyInv, TallyNeedsDeaths, Paid, OrchDead, Alive, schedVars
<1>3. CASE UNCHANGED vars \/ \E c \in Cells : LauncherEnds(c)
  <2>1. UNCHANGED <<pc, st, saved, failures, swallowed, ends, pidFile, sched>>
    BY <1>3 DEF LauncherEnds, vars, schedVars, wdVars, envVars
  <2> QED BY <2>1, OthersPay DEF OrchDead, Alive
<1>4. CASE Swallow
  <2>1. /\ UNCHANGED <<st, saved, failures, ends, pidFile, sched>>
        /\ swallowed' = swallowed + 1
    BY <1>4 DEF Swallow, schedVars
  <2>2. TallyNeedsDeaths' /\ Paid(st.deaths)' /\ Paid(saved.deaths)'
    BY <2>1, TallyTypes DEF TallyInv, TallyNeedsDeaths, Paid
  <2>3. \A c \in Cells : saved'.deaths[c] <= ends' + failures' + swallowed'
    BY <2>1, TallyTypes DEF TallyInv
  <2> QED BY <2>2, <2>3 DEF TallyInv
<1> QED BY <1>1, <1>2, <1>3, <1>4, SchedulerPays, WatchdogPays DEF Next

(* No cell is held responsible for more deaths than there were, give or    *)
(* take one for each resume that failed and each pass cut short.           *)
THEOREM TalliesAreBounded == ASSUME CarefulOperator PROVE Spec => []TallyNeedsDeaths
<1>1. Init => TallyInv
  <2> SUFFICES ASSUME Init PROVE TallyInv
    OBVIOUS
  <2>1. st.deaths = [c \in Cells |-> 0] /\ saved.deaths = [c \in Cells |-> 0]
    BY DEF Init
  <2>2. ~OrchDead
    BY ParameterAssumption DEF Init, OrchDead
  <2> QED BY <2>1, <2>2 DEF Init, TallyInv, TallyNeedsDeaths
<1>2. TypeOK /\ PidFileKnows /\ TallyInv /\ [Next]_vars => TallyInv'
  BY NextPays
<1>3. TallyInv => TallyNeedsDeaths
  BY DEF TallyInv
<1> QED BY <1>1, <1>2, <1>3, TypeCorrect, KnowsHolds, PTL DEF Spec
=============================================================================
