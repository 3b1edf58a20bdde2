---------------------------- MODULE OomWatchdog -----------------------------
(***************************************************************************)
(* The OOM watchdog, scripts/oom_watchdog.py, beside the schedulers it     *)
(* brings back: `make matrix` with its pid file, `make matrix-resume`      *)
(* without one, and the long_runner processes they start.                  *)
(*                                                                         *)
(* A scheduler is reduced to what the watchdog can tell of it: it loads    *)
(* and recovers the file, and every launch and every result is a save of   *)
(* its whole memory.  Module MatrixRunner has the rest.                    *)
(*                                                                         *)
(* Time is kept as ages: how long ago, in units of the shortest time       *)
(* between two passes of the watchdog, each resume was.                    *)
(***************************************************************************)
EXTENDS Naturals, FiniteSets

CONSTANTS
  Cells,         (* rows of the matrix                                      *)
  Mine,          (* those in the pool `make matrix` serves                  *)
  Scheds, NoPid, (* scheduler processes, by pid; an absent pid file         *)
  PoisonDeaths,  (* OOMWD_POISON_DEATHS                                     *)
  Window,        (* OOMWD_RESTART_WINDOW_SEC                                *)
  RestartMax,    (* OOMWD_RESTART_MAX                                       *)
  CarefulOperator, (* the operator starts schedulers by `make matrix` only, *)
                   (* and not in the middle of a pass of the watchdog       *)
  MaxDeaths, MaxRelaunches, MaxMishaps
      (* bounds on killed schedulers, on watchdog deaths, and on resumes    *)
      (* that fail and exceptions the loop swallows, taken together         *)

ASSUME ParameterAssumption ==
  /\ IsFiniteSet(Cells) /\ Mine \subseteq Cells
  /\ NoPid \notin Scheds
  /\ PoisonDeaths \in Nat \ {0} /\ Window \in Nat \ {0} /\ RestartMax \in Nat \ {0}
  /\ CarefulOperator \in BOOLEAN
  /\ MaxDeaths \in Nat /\ MaxRelaunches \in Nat /\ MaxMishaps \in Nat

VARIABLES
  disk,      (* state/matrix.json: the status of each row                   *)
  pidFile,   (* state/long_runner.pid                                       *)
  sched,     (* phase, rows in memory and running list of each scheduler    *)
  training,  (* cells with a live launcher                                  *)
  undone,    (* those whose row the watchdog set back while they trained    *)
  pc,        (* where the watchdog is in its pass                           *)
  view,      (* the rows it loaded, as long as the pass goes by them        *)
  st,        (* its state in memory                                         *)
  saved,     (* state/oom_watchdog.json                                     *)
  resumed,   (* ages of its resumes, known to nobody                        *)
  ends, killed, failures, relaunches, swallowed
      (* scheduler ends, those by SIGKILL, failed resumes, watchdog deaths, *)
      (* passes of the watchdog that an exception cut short                 *)

schedVars == <<pidFile, sched, training, undone>>
wdVars    == <<pc, view, st>>
envVars   == <<killed, failures, relaunches, swallowed>>
vars      == <<disk, schedVars, wdVars, saved, resumed, ends, envVars>>

Red      == {"oom", "crash"}  (* red, by what _classify_kill makes of it    *)
Statuses == {"pending", "running", "green"} \cup Red
Rows     == [Cells -> Statuses]
Ages     == 0 .. Window - 1
WdState  == [notified : SUBSET Cells, noted : SUBSET Cells,
             deaths : [Cells -> 0 .. PoisonDeaths], restarts : SUBSET Ages]

Alive(s) == sched[s].phase # "none"
NoSched  == [phase |-> "none", rows |-> [c \in Cells |-> "pending"], kids |-> {}]

(* Time passes; a resume as old as the window is never asked for again.    *)
Older(S, d) == {a + d : a \in S} \cap Ages

(* No rows are kept from one pass to the next.                             *)
Unread == [c \in Cells |-> "pending"]

(* What the bound leaves room for.                                        *)
Mishap == failures + swallowed < MaxMishaps

(* Counts are compared with PoisonDeaths only, and stop there.             *)
Bump(n) == IF n < PoisonDeaths THEN n + 1 ELSE n

Init ==
  /\ disk = Unread
  /\ pidFile = NoPid
  /\ sched = [s \in Scheds |-> NoSched]
  /\ training = {} /\ undone = {}
  /\ pc = "asleep" /\ view = Unread
  /\ st = [notified |-> {}, noted |-> {},
           deaths |-> [c \in Cells |-> 0], restarts |-> {}]
  /\ saved = st
  /\ resumed = {}
  /\ ends = 0 /\ killed = 0 /\ failures = 0 /\ relaunches = 0 /\ swallowed = 0

-----------------------------------------------------------------------------
(* Schedulers.                                                             *)
Spawn(s) == /\ ~Alive(s)
            /\ sched' = [sched EXCEPT ![s] = [NoSched EXCEPT !.phase = "boot"]]

(* Seeded fault: the pid file is written without being looked at.          *)
MakeMatrix_Unguarded(s) == Spawn(s) /\ pidFile' = s

(* make matrix: refused while the pid file names a live process.           *)
MakeMatrix(s) == /\ \A t \in Scheds : Alive(t) => pidFile # t
                 /\ Spawn(s)
                 /\ pidFile' = s

OperatorStarts(s, target) ==
  /\ CarefulOperator => target = "matrix" /\ pc = "asleep"
  /\ \/ target = "matrix" /\ MakeMatrix(s)
     \/ target = "matrix-resume" /\ Spawn(s) /\ UNCHANGED pidFile
  /\ UNCHANGED <<disk, training, undone, wdVars, saved, resumed, ends, envVars>>

(* A scheduler's process is gone, for whatever reason.                     *)
Ended(s) ==
  /\ sched' = [sched EXCEPT ![s] = NoSched]
  /\ ends' = Bump(ends)

(* Seeded fault: recovery does not look whether the launcher still trains. *)
Recovered_WhateverTrains(rows) ==
  [c \in Cells |-> IF rows[c] = "running" THEN "pending" ELSE rows[c]]

(* cmd_execute's recovery of rows whose launcher is gone.                  *)
Recovered(rows) == [c \in Cells |-> IF rows[c] = "running" /\ c \notin training
                                      THEN "pending" ELSE rows[c]]

(* main loads the file, cmd_execute recovers it and saves; with nothing    *)
(* pending in its pool it returns.                                         *)
Boot(s) ==
  /\ sched[s].phase = "boot"
  /\ disk' = Recovered(disk)
  /\ IF \E c \in Mine : disk'[c] = "pending"
       THEN /\ sched' = [sched EXCEPT ![s] = [phase |-> "up", rows |-> disk', kids |-> {}]]
            /\ UNCHANGED ends
       ELSE Ended(s)
  /\ UNCHANGED <<pidFile, training, undone, wdVars, saved, resumed, envVars>>

Launch(s, c) ==
  /\ sched[s].phase = "up" /\ c \in Mine /\ sched[s].rows[c] = "pending"
  /\ sched' = [sched EXCEPT ![s].rows[c] = "running", ![s].kids = @ \cup {c}]
  /\ disk' = sched'[s].rows
  /\ training' = training \cup {c}
  /\ UNCHANGED <<pidFile, undone, wdVars, saved, resumed, ends, envVars>>

Reap(s, c, result) ==
  /\ sched[s].phase = "up" /\ c \in sched[s].kids /\ c \notin training
  /\ sched' = [sched EXCEPT ![s].rows[c] = result, ![s].kids = @ \ {c}]
  /\ disk' = sched'[s].rows
  /\ UNCHANGED <<pidFile, training, undone, wdVars, saved, resumed, ends, envVars>>

Complete(s) ==
  /\ sched[s].phase = "up" /\ sched[s].kids = {}
  /\ \A c \in Mine : sched[s].rows[c] # "pending"
  /\ Ended(s)
  /\ UNCHANGED <<disk, pidFile, training, undone, wdVars, saved, resumed, envVars>>

(* The OOM killer takes the orchestrator; its launchers run on.            *)
Killed(s) ==
  /\ Alive(s) /\ killed < MaxDeaths
  /\ killed' = killed + 1
  /\ Ended(s) /\ UNCHANGED disk
  /\ UNCHANGED <<pidFile, training, undone, wdVars, saved, resumed,
                 failures, relaunches, swallowed>>

LauncherEnds(c) ==
  /\ c \in training
  /\ training' = training \ {c}
  /\ UNCHANGED <<disk, pidFile, sched, undone, wdVars, saved, resumed, ends, envVars>>

-----------------------------------------------------------------------------
(* The watchdog's pass.  First, some d after the last one: the file is     *)
(* loaded, tallies of green cells are dropped, new red cells are reported  *)
(* (a Discord post each, taking its time) and out-of-memory ones noted.    *)
(* A post that raises ends the pass: the rows told before it are not told  *)
(* again.  Which rows come before it is left open.                         *)
Look(d, told) ==
  LET new == {c \in Cells : disk[c] \in Red} \ st.notified IN
  /\ pc = "asleep"
  /\ told \subseteq new
  /\ \/ told = new /\ pc' = "seen" /\ view' = disk /\ UNCHANGED swallowed
     \/ /\ Mishap
        /\ \E c \in new \ told : disk[c] = "oom"
        /\ swallowed' = swallowed + 1 /\ UNCHANGED <<pc, view>>
  /\ st' = [st EXCEPT
              !.deaths = [c \in Cells |-> IF disk[c] = "green" THEN 0 ELSE @[c]],
              !.noted = @ \cup {c \in told : disk[c] = "oom"},
              !.notified = @ \cup told,
              !.restarts = Older(@, d)]
  /\ saved' = [saved EXCEPT !.restarts = Older(@, d)]
  /\ resumed' = Older(resumed, d)
  /\ UNCHANGED <<disk, schedVars, ends, killed, failures, relaunches>>

(* Seeded fault: an orchestrator that lives is taken for dead.             *)
OrchDead_Always == pidFile # NoPid

(* _orch_state() == "dead": there is a pid file and its process is gone.   *)
OrchDead == \E s \in Scheds : pidFile = s /\ ~Alive(s)

(* Seeded fault: only rows still marked running count as work.             *)
WorkRemains_Running == \E c \in Cells : view[c] = "running"
WorkRemains == \E c \in Cells : view[c] = "pending"

(* Seeded fault: one restart more than allowed.                            *)
Looping_OneMore == Cardinality(st.restarts) > RestartMax
Looping == Cardinality(st.restarts) >= RestartMax

(* Nothing to do, or too many restarts in the window.                      *)
NothingToDo == ~OrchDead \/ ~WorkRemains \/ Looping

(* Seeded fault: the state is saved after a resume only.                   *)
LeaveAlone_Unsaved ==
  /\ pc = "seen" /\ NothingToDo
  /\ pc' = "asleep" /\ view' = Unread
  /\ UNCHANGED <<disk, schedVars, st, saved, resumed, ends, envVars>>

(* Save and sleep.                                                         *)
LeaveAlone ==
  /\ pc = "seen" /\ NothingToDo
  /\ pc' = "asleep" /\ view' = Unread
  /\ saved' = st
  /\ UNCHANGED <<disk, schedVars, st, resumed, ends, envVars>>

(* Seeded fault: a victim is counted twice.                                *)
Tally_Twice(deaths) == [c \in Cells |-> IF view[c] = "running" THEN Bump(Bump(deaths[c]))
                                                               ELSE deaths[c]]
Tally(deaths) == [c \in Cells |-> IF view[c] = "running" THEN Bump(deaths[c])
                                                         ELSE deaths[c]]

(* The rows that were running are counted as victims; those counted too    *)
(* often become red in the loaded rows (their logs decide how they will    *)
(* be classified).                                                         *)
Judge(kind) ==
  /\ pc = "seen"
  /\ ~NothingToDo
  /\ LET deaths  == Tally(st.deaths)
         skipped == {c \in Cells : /\ view[c] \in {"running", "pending"}
                                   /\ deaths[c] >= PoisonDeaths}
     IN /\ view' = [c \in Cells |-> IF c \in skipped THEN kind ELSE view[c]]
        /\ st' = [st EXCEPT !.deaths = deaths]
        /\ pc' = IF skipped = {} THEN "resume" ELSE "write"
  /\ UNCHANGED <<disk, schedVars, saved, resumed, ends, envVars>>

(* The loaded rows go back to the file, whatever it holds by now.          *)
Write ==
  /\ pc = "write"
  /\ pc' = "resume"
  /\ disk' = view
  /\ undone' = undone \cup {c \in training : view[c] = "pending" /\ disk[c] # "pending"}
  /\ UNCHANGED <<pidFile, sched, training, view, st, saved, resumed, ends, envVars>>

(* _resume_matrix, successful or not (make refuses, or fails for a reason  *)
(* of its own), and the note of the attempt.                               *)
Resume(ok) ==
  /\ pc = "resume"
  /\ pc' = "save" /\ view' = Unread
  /\ \/ /\ ok
        /\ \E s \in Scheds : MakeMatrix(s)
        /\ UNCHANGED failures
     \/ /\ ~ok
        /\ IF OrchDead THEN Mishap /\ failures' = failures + 1
                       ELSE UNCHANGED failures
        /\ UNCHANGED <<pidFile, sched>>
  /\ st' = [st EXCEPT !.restarts = @ \cup {0}]
  /\ resumed' = resumed \cup {0}
  /\ UNCHANGED <<disk, training, undone, saved, ends, killed, relaunches, swallowed>>

SaveState ==
  /\ pc = "save"
  /\ pc' = "asleep" /\ view' = Unread
  /\ saved' = st
  /\ UNCHANGED <<disk, schedVars, st, resumed, ends, envVars>>

(* The exceptions the loop swallows: the write of the rows fails, or the   *)
(* post after a resume, the one about the loop of restarts or the save of  *)
(* the state does.  The pass ends with its work in memory and not saved.   *)
Swallow ==
  /\ \/ pc = "seen" /\ NothingToDo
     \/ pc \in {"write", "save"}
  /\ Mishap
  /\ swallowed' = swallowed + 1
  /\ pc' = "asleep" /\ view' = Unread
  /\ UNCHANGED <<disk, schedVars, st, saved, resumed, ends,
                 killed, failures, relaunches>>

(* The watchdog dies and is started again (Restart=always).                *)
Relaunch ==
  /\ relaunches < MaxRelaunches
  /\ relaunches' = relaunches + 1
  /\ pc' = "asleep" /\ view' = Unread
  /\ st' = saved
  /\ UNCHANGED <<disk, schedVars, saved, resumed, ends, killed, failures, swallowed>>

-----------------------------------------------------------------------------
Watchdog ==
  \/ \E d \in 1 .. Window, told \in SUBSET Cells : Look(d, told)
  \/ LeaveAlone
  \/ \E kind \in Red : Judge(kind)
  \/ Write
  \/ \E ok \in BOOLEAN : Resume(ok)
  \/ SaveState

Scheduler(s) ==
  \/ Boot(s) \/ Complete(s)
  \/ \E c \in Cells : \/ Launch(s, c)
                      \/ \E result \in {"green"} \cup Red : Reap(s, c, result)

Next ==
  \/ Watchdog \/ Swallow \/ Relaunch
  \/ \E s \in Scheds : \/ Scheduler(s) \/ Killed(s)
                       \/ \E target \in {"matrix", "matrix-resume"} :
                            OperatorStarts(s, target)
  \/ \E c \in Cells : LauncherEnds(c)

Spec == Init /\ [][Next]_vars

(* The watchdog and the schedulers keep going, and launchers end.  Nobody  *)
(* else is assumed to start a scheduler.                                   *)
FairSpec ==
  /\ Spec
  /\ WF_vars(Watchdog)
  /\ \A s \in Scheds : WF_vars(Scheduler(s))
  /\ \A c \in Cells : WF_vars(LauncherEnds(c))

-----------------------------------------------------------------------------
(* Every variable has its type.                                            *)
TypeOK ==
  /\ disk \in Rows /\ view \in Rows
  /\ pidFile \in Scheds \cup {NoPid}
  /\ sched \in [Scheds -> [phase : {"none", "boot", "up"}, rows : Rows, kids : SUBSET Cells]]
  /\ training \subseteq Cells /\ undone \subseteq Cells
  /\ pc \in {"asleep", "seen", "write", "resume", "save"}
  /\ st \in WdState /\ saved \in WdState
  /\ resumed \subseteq Ages
  /\ ends \in 0 .. PoisonDeaths
  /\ killed \in 0 .. MaxDeaths
  /\ failures \in 0 .. MaxMishaps /\ swallowed \in 0 .. MaxMishaps
  /\ relaunches \in 0 .. MaxRelaunches

(* The pid guard of `make matrix` keeps a second scheduler off the file,   *)
(* whoever starts one and whenever the first one dies.                     *)
OneScheduler == \A s, t \in Scheds : Alive(s) /\ Alive(t) => s = t

(* "it only writes state/matrix.json when the orchestrator is DEAD (no     *)
(* race with a live scheduler)": true while every scheduler is started     *)
(* through the pid file.                                                   *)
WritesWhenDead == [][Write => \A s \in Scheds : ~Alive(s)]_vars

(* "state write is safe here: the orchestrator is dead", as far as it is   *)
(* true: no cell is launched while an earlier launcher of it still trains, *)
(* unless a write of the watchdog, from rows it had read before the last   *)
(* scheduler launched that cell and died, set its row back to pending.     *)
NoSecondLaunch ==
  [][\A s \in Scheds, c \in Cells :
       Launch(s, c) /\ c \in training => c \in undone]_vars

(* "auto-resume looped": in no window are there more resumes than allowed, *)
(* give or take those a death of the watchdog makes it forget: the one it  *)
(* dies after, and one for each pass whose save an exception kept from the *)
(* file.  A watchdog that does not die forgets none, however often a pass  *)
(* is cut short.                                                           *)
RestartsBounded ==
  Cardinality(resumed)
    <= RestartMax + (IF relaunches = 0 THEN 0 ELSE relaunches + swallowed)

(* No cell is held responsible for more deaths than there were, give or    *)
(* take one for each resume that failed and for each pass that an          *)
(* exception ended: until a scheduler runs again, one death is seen at     *)
(* every pass.                                                             *)
TallyNeedsDeaths ==
  \A c \in Cells : st.deaths[c] <= ends + failures + swallowed

(* "auto-resume it so the next baselines keep running": a pending cell     *)
(* gets its turn however often the orchestrator, or the watchdog, is       *)
(* killed, with nobody but the watchdog to start a scheduler.              *)
PendingIsServed ==
  \A c \in Mine :
    disk[c] = "pending" /\ pidFile # NoPid ~> disk[c] # "pending"

(* "every OOM/kill it sees is recorded in state/oom_watchdog.json", and it *)
(* sees every one that stays in the file.                                  *)
OomIsNoted ==
  \A c \in Cells : disk[c] = "oom" ~> c \in saved.noted \/ disk[c] # "oom"

(* "orchestrator dead while work remains -> auto-resume", for the work     *)
(* that remains when the last pending cell is running: a row whose         *)
(* launcher is gone is reaped or put back in the queue.                    *)
RunningIsResumed ==
  \A c \in Mine :
    disk[c] = "running" /\ c \notin training /\ pidFile # NoPid
      ~> disk[c] # "running"
=============================================================================
