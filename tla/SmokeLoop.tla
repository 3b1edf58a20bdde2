----------------------------- MODULE SmokeLoop ------------------------------
(***************************************************************************)
(* The smoke orchestrator, scripts/autoresearch_smoke.py: passes of        *)
(* `--execute` over the methods, each attempt a launcher with a time       *)
(* limit, judged by what it logged; `--only` and `--reset` by the operator *)
(* in the loop; and a process that may die at any point and leave its      *)
(* launcher running.                                                       *)
(***************************************************************************)
EXTENDS Naturals, FiniteSets

CONSTANTS
  Methods,      (* keys of the state's methods, numbered in their order     *)
  Dropped,      (* those of algo "dd", skipped without an attempt           *)
  MaxAttempts,  (* policy.max_attempts                                      *)
  PatientOperator, (* the operator resets a method only half an hour after  *)
                   (* the last run of it that logged anything               *)
  MaxDeaths, MaxResets  (* bounds on deaths of the process and on resets    *)

ASSUME SmokeAssumption ==
  /\ Methods \subseteq Nat \ {0} /\ IsFiniteSet(Methods) /\ Dropped \subseteq Methods
  /\ MaxAttempts \in Nat \ {0}
  /\ PatientOperator \in BOOLEAN
  /\ MaxDeaths \in Nat /\ MaxResets \in Nat

VARIABLES
  disk,      (* state/autoresearch.json: status and attempts per method     *)
  mem,       (* the same in memory                                          *)
  pc,        (* where the process is; "down" when there is none             *)
  todo,      (* methods this pass has yet to come to                        *)
  cur,       (* the one being attempted                                     *)
  child,     (* its launcher: "none", "up", "sigterm", or how it ended      *)
  seen,      (* the attempt's log holds a loss-like line                    *)
  orphans,   (* methods with a launcher that outlived its orchestrator      *)
  recent,    (* methods with a run in MLflow, no older than half an hour,   *)
             (* that has metrics                                            *)
  earned,    (* methods that logged anything since they were last reset     *)
  launches,  (* how often each was launched since then                      *)
  summarised,(* the all-green summary has been sent                         *)
  deaths, resets

passVars  == <<mem, todo, cur>>
worldVars == <<orphans, recent, earned>>
envVars   == <<deaths, resets>>
vars      == <<disk, passVars, pc, child, seen, worldVars, launches, summarised, envVars>>

NoMethod == 0
Settled  == {"green", "skipped"}
Statuses == {"pending", "attempting", "red", "awaiting_prereq"} \cup Settled
Codes    == {"ok", "skip", "prereq", "crash"}  (* rc 0, 64, 65, any other    *)

Init ==
  /\ disk = [m \in Methods |-> [status |-> "pending", tries |-> 0]]
  /\ mem = disk
  /\ pc = "down" /\ todo = {} /\ cur = NoMethod
  /\ child = "none" /\ seen = FALSE
  /\ orphans = {} /\ recent = {} /\ earned = {}
  /\ launches = [m \in Methods |-> 0]
  /\ summarised = FALSE
  /\ deaths = 0 /\ resets = 0

-----------------------------------------------------------------------------
(* main and run_all: load, seed, skip the dropped methods that are still   *)
(* pending, save.  S is every method, or the one of --only.                *)
Invoke(S) ==
  /\ pc = "down"
  /\ mem' = [m \in Methods |-> IF m \in Dropped /\ disk[m].status = "pending"
                                 THEN [disk[m] EXCEPT !.status = "skipped"]
                                 ELSE disk[m]]
  /\ disk' = mem'
  /\ todo' = S
  /\ pc' = "pass"
  /\ UNCHANGED <<cur, child, seen, worldVars, launches, summarised, envVars>>

Turn(m) == pc = "pass" /\ m \in todo /\ \A n \in todo : m <= n

(* Seeded fault: only a green method is left alone.                        *)
Wanted_UnlessGreen(m) == mem[m].status # "green"
Wanted(m) == mem[m].status \notin Settled

Skip(m) ==
  /\ Turn(m)
  /\ ~Wanted(m)
  /\ todo' = todo \ {m}
  /\ UNCHANGED <<disk, mem, pc, cur, child, seen, worldVars, launches, summarised, envVars>>

(* Seeded fault: one attempt more than allowed.                            *)
Spent_OneMore(m) == mem[m].tries > MaxAttempts
Spent(m) == mem[m].tries >= MaxAttempts

(* No attempts left: red, saved and pinged, and the pass goes on.          *)
GiveUp(m) ==
  /\ Turn(m)
  /\ Wanted(m) /\ Spent(m)
  /\ mem' = [mem EXCEPT ![m].status = "red"]
  /\ disk' = mem'
  /\ todo' = todo \ {m}
  /\ UNCHANGED <<pc, cur, child, seen, worldVars, launches, summarised, envVars>>

(* run_one up to the launch.  The attempt is entered in memory only: the   *)
(* file learns of it with its verdict.                                     *)
Launch(m) ==
  /\ Turn(m)
  /\ Wanted(m) /\ ~Spent(m)
  /\ mem' = [mem EXCEPT ![m] = [status |-> "attempting", tries |-> @.tries + 1]]
  /\ cur' = m
  /\ todo' = todo \ {m}
  /\ pc' = "wait"
  /\ child' = "up" /\ seen' = FALSE
  /\ launches' = [launches EXCEPT ![m] = @ + 1]
  /\ UNCHANGED <<disk, worldVars, summarised, envVars>>

(* proc.wait(timeout=hard_timeout) runs out; fifteen seconds later SIGKILL.*)
HardTimeout ==
  /\ pc = "wait" /\ child = "up"
  /\ child' = "sigterm"
  /\ UNCHANGED <<disk, passVars, pc, seen, worldVars, launches, summarised, envVars>>

(* Seeded fault: SIGTERM again.                                            *)
Sigkill_TermAgain ==
  /\ pc = "wait" /\ child = "sigterm"
  /\ UNCHANGED vars

Sigkill ==
  /\ pc = "wait" /\ child = "sigterm"
  /\ child' = "crash"
  /\ UNCHANGED <<disk, passVars, pc, seen, worldVars, launches, summarised, envVars>>

(* Seeded fault: an exit code of 0 is taken for a verdict.                 *)
Verdict_ByExitCode(rc, evidence) ==
  CASE evidence \/ rc = "ok" -> "green"
    [] rc = "skip"           -> "skipped"
    [] rc = "prereq"         -> "awaiting_prereq"
    [] OTHER                 -> "red"

Verdict(rc, evidence) ==
  CASE evidence              -> "green"
    [] rc = "skip"           -> "skipped"
    [] rc = "prereq"         -> "awaiting_prereq"
    [] OTHER                 -> "red"

(* The launcher is gone: its log is scanned, and failing that MLflow asked,*)
(* which may not answer.  The verdict is saved; a red one halts the pass   *)
(* with rc 42.                                                             *)
Judge(answers) ==
  /\ pc = "wait" /\ child \in Codes
  /\ LET verdict == Verdict(child, seen \/ (answers /\ cur \in recent))
     IN /\ mem' = [mem EXCEPT ![cur].status = verdict]
        /\ pc' = IF verdict = "red" THEN "down" ELSE "pass"
        /\ todo' = IF verdict = "red" THEN {} ELSE todo
  /\ disk' = mem'
  /\ cur' = NoMethod
  /\ child' = "none" /\ seen' = FALSE
  /\ UNCHANGED <<worldVars, launches, summarised, envVars>>

(* The end of a pass: the summary goes out when nothing is left pending    *)
(* and nothing is red.                                                     *)
Finish ==
  /\ pc = "pass" /\ todo = {}
  /\ pc' = "down"
  /\ summarised' = (summarised \/ \A m \in Methods :
                      mem[m].status \notin {"pending", "attempting", "red"})
  /\ UNCHANGED <<disk, passVars, child, seen, worldVars, launches, envVars>>

-----------------------------------------------------------------------------
(* Launchers, the current one and the orphans.  What one logs goes to its  *)
(* log file and to MLflow; an orphan shares the log of the next attempt,   *)
(* which has its number.                                                   *)
Logs(m) ==
  /\ m \in orphans \/ (m = cur /\ child \in {"up", "sigterm"})
  /\ recent' = recent \cup {m} /\ earned' = earned \cup {m}
  /\ seen' \in IF m = cur THEN {TRUE, seen} ELSE {seen}
  /\ UNCHANGED <<disk, passVars, pc, child, orphans, launches, summarised, envVars>>

(* By itself, by its own alarm, or by the orchestrator's SIGTERM.          *)
LauncherEnds(rc) ==
  /\ pc = "wait" /\ child \in {"up", "sigterm"}
  /\ child = "sigterm" => rc = "crash"
  /\ child' = rc
  /\ UNCHANGED <<disk, passVars, pc, seen, worldVars, launches, summarised, envVars>>

OrphanEnds(m) ==
  /\ m \in orphans
  /\ orphans' = orphans \ {m}
  /\ UNCHANGED <<disk, passVars, pc, child, seen, recent, earned, launches, summarised,
                 envVars>>

HalfAnHourPasses(m) ==
  /\ m \in recent \ orphans
  /\ m = cur => child \notin {"up", "sigterm"}
  /\ recent' = recent \ {m}
  /\ UNCHANGED <<disk, passVars, pc, child, seen, orphans, earned, launches, summarised,
                 envVars>>

(* The orchestrator is killed; its launcher is not.                        *)
Dies ==
  /\ pc # "down" /\ deaths < MaxDeaths
  /\ deaths' = deaths + 1
  /\ pc' = "down" /\ mem' = disk /\ todo' = {} /\ cur' = NoMethod
  /\ orphans' = orphans \cup {m \in {cur} : child \in {"up", "sigterm"}}
  /\ child' = "none" /\ seen' = FALSE
  /\ UNCHANGED <<disk, recent, earned, launches, summarised, resets>>

(* --reset, of every method or of the one of --only.                       *)
Reset(S) ==
  /\ pc = "down"
  /\ resets < MaxResets
  /\ PatientOperator => S \cap (recent \cup orphans) = {}
  /\ resets' = resets + 1
  /\ disk' = [m \in Methods |-> IF m \in S THEN [status |-> "pending", tries |-> 0]
                                           ELSE disk[m]]
  /\ mem' = disk'
  /\ earned' = earned \ S
  /\ launches' = [m \in Methods |-> IF m \in S THEN 0 ELSE launches[m]]
  /\ UNCHANGED <<todo, cur, pc, child, seen, orphans, recent, summarised, deaths>>

Choices == {Methods} \cup {{m} : m \in Methods}

Orchestrator ==
  \/ \E m \in Methods : Skip(m) \/ GiveUp(m) \/ Launch(m)
  \/ HardTimeout \/ Sigkill
  \/ \E answers \in BOOLEAN : Judge(answers)
  \/ Finish

Next ==
  \/ Orchestrator \/ Dies
  \/ \E S \in Choices : Invoke(S) \/ Reset(S)
  \/ \E rc \in Codes : LauncherEnds(rc)
  \/ \E m \in Methods : Logs(m) \/ OrphanEnds(m) \/ HalfAnHourPasses(m)

Spec == Init /\ [][Next]_vars

(* The process runs on, its timeouts expire, and the operator never stops  *)
(* coming back to the whole list.  No launcher is assumed to end by itself.*)
FairSpec == Spec /\ WF_vars(Orchestrator) /\ SF_vars(Invoke(Methods))

-----------------------------------------------------------------------------
(* Every variable has its type; the file never says "attempting".          *)
TypeOK ==
  /\ disk \in [Methods -> [status : Statuses \ {"attempting"}, tries : 0 .. MaxAttempts]]
  /\ mem \in [Methods -> [status : Statuses, tries : 0 .. MaxAttempts]]
  /\ pc \in {"down", "pass", "wait"}
  /\ todo \subseteq Methods
  /\ cur \in Methods \cup {NoMethod}
  /\ child \in {"none", "up", "sigterm"} \cup Codes
  /\ {seen, summarised} \subseteq BOOLEAN
  /\ orphans \subseteq Methods /\ recent \subseteq Methods /\ earned \subseteq Methods
  /\ launches \in [Methods -> Nat]
  /\ deaths \in 0 .. MaxDeaths /\ resets \in 0 .. MaxResets

(* The retry cap: a method is launched at most max_attempts times between  *)
(* two resets, give or take the launch each death of the process forgets.  *)
AttemptsBounded == \A m \in Methods : launches[m] <= MaxAttempts + deaths

(* Green is earned: some launcher of the method has logged a metric since  *)
(* it was last reset, whichever attempt the note names.                    *)
GreenIsEarned == \A m \in Methods : disk[m].status = "green" => m \in earned

(* No death, no later pass and no --only run undoes a green or a skip:     *)
(* only a reset does.                                                      *)
SettledStays ==
  [][\A m \in Methods :
       disk[m].status \in Settled /\ disk'[m] # disk[m] => resets' # resets]_vars

(* Read off the file, every method keeps the promise of MethodLifecycle:   *)
(* an attempt and its verdict become visible together, once each, from a   *)
(* launcher that hung as from one that ended, beside orphans of its        *)
(* method; a death shows nothing and undoes nothing.                       *)
Promise == INSTANCE MethodLifecycle WITH note <- disk
PromiseSpec == Promise!Spec

(* Every method is decided in the end, by a verdict or by running out of   *)
(* attempts, with launchers that hang and an orchestrator that is killed.  *)
Decided(m) == disk[m].status \in Settled \/ (disk[m].status = "red" /\ disk[m].tries = MaxAttempts)
EveryMethodDecided == \A m \in Methods : <>[]Decided(m)
=============================================================================
