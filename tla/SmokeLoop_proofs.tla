-------------------------- MODULE SmokeLoop_proofs --------------------------
(***************************************************************************)
(* The smoke orchestrator keeps its retry cap, gives no green that nothing *)
(* earned, and lets no settled verdict go, for every set of methods, cap,  *)
(* number of deaths and number of resets: its file implements the life     *)
(* cycle of a method.                                                      *)
(***************************************************************************)
EXTENDS SmokeLoop, TLAPS

(* The file and the memory differ in the method being attempted only: the  *)
(* file does not know the attempt, and a launcher is there to be judged.   *)
Shape ==
  /\ pc = "wait" => /\ cur \in Methods /\ child # "none"
                    /\ mem[cur].status = "attempting"
                    /\ disk[cur].status \notin Settled
                    /\ mem[cur].tries = disk[cur].tries + 1
  /\ pc # "wait" => cur = NoMethod /\ child = "none" /\ ~seen
  /\ \A m \in Methods : m # cur => mem[m] = disk[m]

FileRows   == [Methods -> [status : Statuses \ {"attempting"}, tries : 0 .. MaxAttempts]]
MemoryRows == [Methods -> [status : Statuses, tries : 0 .. MaxAttempts]]

(* TypeOK, but for the two sets of rows.                                   *)
OthersOK ==
  /\ pc \in {"down", "pass", "wait"}
  /\ todo \subseteq Methods
  /\ cur \in Methods \cup {NoMethod}
  /\ child \in {"none", "up", "sigterm"} \cup Codes
  /\ seen \in BOOLEAN /\ summarised \in BOOLEAN
  /\ orphans \subseteq Methods /\ recent \subseteq Methods /\ earned \subseteq Methods
  /\ launches \in [Methods -> Nat]
  /\ deaths \in 0 .. MaxDeaths /\ resets \in 0 .. MaxResets

Typed == disk \in FileRows /\ mem \in MemoryRows /\ OthersOK

Inv == Typed /\ Shape

(* Each launch is an attempt in memory, or was forgotten at a death.       *)
Counted == \A m \in Methods : launches[m] <= mem[m].tries + deaths

(* Whatever can become a green verdict has been logged since the reset.    *)
Earned == /\ GreenIsEarned
          /\ seen => cur \in earned
          /\ recent \subseteq earned

LEMMA NoMethodIsNone == NoMethod \notin Methods
BY SmokeAssumption DEF NoMethod

LEMMA FileRowsAreMemoryRows == ASSUME NEW rows \in FileRows PROVE rows \in MemoryRows
<1>1. ASSUME NEW m \in Methods
      PROVE  rows[m] \in [status : Statuses, tries : 0 .. MaxAttempts]
  BY DEF FileRows
<1> QED BY <1>1 DEF FileRows, MemoryRows

LEMMA TypedIsTypeOK == Typed <=> TypeOK
<1>1. {seen, summarised} \subseteq BOOLEAN <=> seen \in BOOLEAN /\ summarised \in BOOLEAN
  OBVIOUS
<1> QED BY <1>1, Zenon DEF Typed, TypeOK, OthersOK, FileRows, MemoryRows

LEMMA InitInv == Init => Inv /\ Counted /\ Earned
<1> SUFFICES ASSUME Init PROVE Inv /\ Counted /\ Earned
  OBVIOUS
<1>1. disk \in FileRows /\ mem \in FileRows
  BY SmokeAssumption DEF Init, FileRows, Statuses, Settled
<1>2. launches \in [Methods -> Nat] /\ 0 \in 0 .. MaxDeaths /\ 0 \in 0 .. MaxResets
  BY SmokeAssumption DEF Init
<1>3. OthersOK
  BY <1>2 DEF Init, OthersOK
<1>4. Shape
  BY DEF Init, Shape
<1>5. Counted /\ Earned
  BY SmokeAssumption DEF Init, Counted, Earned, GreenIsEarned
<1> QED BY <1>1, <1>3, <1>4, <1>5, FileRowsAreMemoryRows DEF Inv, Typed

-----------------------------------------------------------------------------
LEMMA InvokeInv == ASSUME Inv, NEW S \in Choices, Invoke(S) PROVE Inv'
<1>1. S \subseteq Methods
  BY DEF Choices
<1>2. disk' \in FileRows
  BY DEF Invoke, Inv, Typed, Statuses, Settled, FileRows, MemoryRows
<1>3. Typed'
  BY <1>1, <1>2, FileRowsAreMemoryRows DEF Invoke, passVars, worldVars, envVars, Inv, Typed, OthersOK
<1>4. Shape'
  BY DEF Invoke, Inv, Shape
<1> QED BY <1>3, <1>4 DEF Inv

LEMMA GiveUpInv == ASSUME Inv, NEW m \in Methods, GiveUp(m) PROVE Inv'
<1>1. pc = "pass" /\ cur = NoMethod /\ \A n \in Methods : mem[n] = disk[n]
  BY NoMethodIsNone DEF GiveUp, Turn, Inv, Shape
<1>2. mem' \in FileRows
  BY <1>1 DEF GiveUp, Inv, Typed, Statuses, FileRows, MemoryRows
<1>3. Typed'
  BY <1>2, FileRowsAreMemoryRows DEF GiveUp, passVars, worldVars, envVars, Inv, Typed, OthersOK
<1>4. Shape'
  BY <1>1 DEF GiveUp, Inv, Shape
<1> QED BY <1>3, <1>4 DEF Inv

LEMMA LaunchInv == ASSUME Inv, NEW m \in Methods, Launch(m) PROVE Inv'
<1>1. pc = "pass" /\ cur = NoMethod /\ \A n \in Methods : mem[n] = disk[n]
  BY NoMethodIsNone DEF Launch, Turn, Inv, Shape
<1>2. mem[m].tries + 1 \in 0 .. MaxAttempts
  BY SmokeAssumption DEF Launch, Spent, Inv, Typed, MemoryRows
<1>3. mem' = [mem EXCEPT ![m] = [status |-> "attempting", tries |-> mem[m].tries + 1]]
  BY DEF Launch
<1>4. mem' \in MemoryRows
  BY <1>2, <1>3 DEF Inv, Typed, Statuses, MemoryRows
<1>5. Typed'
  <2>1. launches' \in [Methods -> Nat]
    BY DEF Launch, Inv, Typed, OthersOK
  <2>2. OthersOK'
    BY <2>1 DEF Launch, worldVars, envVars, Inv, Typed, OthersOK
  <2> QED BY <1>4, <2>2 DEF Launch, Inv, Typed
<1>6. disk[m].status \notin Settled
  BY <1>1 DEF Launch, Wanted
<1>7. Shape'
  BY <1>1, <1>3, <1>6 DEF Launch, Inv, Typed, MemoryRows, Shape
<1> QED BY <1>5, <1>7 DEF Inv

LEMMA VerdictType ==
  ASSUME NEW rc \in Codes, NEW evidence \in BOOLEAN
  PROVE  Verdict(rc, evidence) \in Statuses \ {"attempting"}
BY DEF Verdict, Codes, Statuses, Settled

LEMMA JudgeInv == ASSUME Inv, NEW answers \in BOOLEAN, Judge(answers) PROVE Inv'
<1>1. PICK verdict \in Statuses \ {"attempting"} :
        /\ mem' = [mem EXCEPT ![cur].status = verdict]
        /\ pc' = IF verdict = "red" THEN "down" ELSE "pass"
        /\ todo' = IF verdict = "red" THEN {} ELSE todo
  <2> DEFINE evidence == seen \/ (answers /\ cur \in recent)
  <2>1. Verdict(child, evidence) \in Statuses \ {"attempting"}
    BY VerdictType DEF Judge
  <2> QED BY <2>1 DEF Judge
<1>2. pc = "wait" /\ cur \in Methods /\ \A n \in Methods : n # cur => mem[n] = disk[n]
  BY DEF Judge, Inv, Shape
<1>3. mem' \in FileRows
  BY <1>1, <1>2 DEF Inv, Typed, FileRows, MemoryRows
<1>4. Typed'
  BY <1>1, <1>3, FileRowsAreMemoryRows DEF Judge, passVars, worldVars, envVars, Inv, Typed, OthersOK
<1>5. Shape'
  BY <1>1 DEF Judge, Inv, Shape
<1> QED BY <1>4, <1>5 DEF Inv

LEMMA DiesInv == ASSUME Inv, Dies PROVE Inv'
<1>1. disk \in MemoryRows
  BY FileRowsAreMemoryRows DEF Inv, Typed
<1>2. {m \in {cur} : child \in {"up", "sigterm"}} \subseteq Methods
  BY DEF Dies, Inv, Shape
<1>3. Typed'
  <2>1. deaths' \in 0 .. MaxDeaths
    BY SmokeAssumption DEF Dies, Inv, Typed, OthersOK
  <2>2. OthersOK'
    BY <1>2, <2>1 DEF Dies, Inv, Typed, OthersOK
  <2> QED BY <1>1, <2>2 DEF Dies, Inv, Typed
<1>4. Shape'
  BY DEF Dies, Inv, Shape
<1> QED BY <1>3, <1>4 DEF Inv

LEMMA ResetInv == ASSUME Inv, NEW S \in Choices, Reset(S) PROVE Inv'
<1>1. disk' \in FileRows
  BY SmokeAssumption DEF Reset, Inv, Typed, Statuses, FileRows, MemoryRows
<1>2. Typed'
  <2>1. resets' \in 0 .. MaxResets
    BY SmokeAssumption DEF Reset, Inv, Typed, OthersOK
  <2>2. launches' \in [Methods -> Nat]
    BY DEF Reset, Inv, Typed, OthersOK
  <2>3. OthersOK'
    BY <2>1, <2>2 DEF Reset, Inv, Typed, OthersOK
  <2> QED BY <1>1, <2>3, FileRowsAreMemoryRows DEF Reset, Typed
<1>3. Shape'
  BY DEF Reset, Inv, Shape
<1> QED BY <1>2, <1>3 DEF Inv

(* Launchers and the clock touch neither file nor memory.                  *)
LEMMA WorldInv ==
  ASSUME Inv,
         \/ HardTimeout \/ Sigkill \/ Finish
         \/ \E rc \in Codes : LauncherEnds(rc)
         \/ \E m \in Methods : Skip(m) \/ Logs(m) \/ OrphanEnds(m) \/ HalfAnHourPasses(m)
  PROVE  Inv'
<1>1. CASE HardTimeout \/ Sigkill
  BY <1>1 DEF HardTimeout, Sigkill, passVars, worldVars, envVars, Inv, Typed, OthersOK, Shape, Codes
<1>2. CASE Finish
  BY <1>2 DEF Finish, passVars, worldVars, envVars, Inv, Typed, OthersOK, Shape
<1>3. ASSUME NEW rc \in Codes, LauncherEnds(rc) PROVE Inv'
  BY <1>3 DEF LauncherEnds, passVars, worldVars, envVars, Inv, Typed, OthersOK, Shape, Codes
<1>4. ASSUME NEW m \in Methods, Skip(m) PROVE Inv'
  BY <1>4 DEF Skip, worldVars, envVars, Inv, Typed, OthersOK, Shape
<1>5. ASSUME NEW m \in Methods, Logs(m) PROVE Inv'
  <2>1. Typed'
    BY <1>5 DEF Logs, passVars, envVars, Inv, Typed, OthersOK
  <2>2. Shape'
    BY <1>5, NoMethodIsNone DEF Logs, passVars, envVars, Inv, Typed, OthersOK, Shape
  <2> QED BY <2>1, <2>2 DEF Inv
<1>6. ASSUME NEW m \in Methods, OrphanEnds(m) \/ HalfAnHourPasses(m) PROVE Inv'
  BY <1>6 DEF OrphanEnds, HalfAnHourPasses, passVars, envVars, Inv, Typed, OthersOK, Shape
<1> QED BY <1>1, <1>2, <1>3, <1>4, <1>5, <1>6

LEMMA NextInv == ASSUME Inv, [Next]_vars PROVE Inv'
<1>1. CASE UNCHANGED vars
  BY <1>1 DEF vars, passVars, worldVars, envVars, Inv, Typed, OthersOK, Shape
<1> QED BY <1>1, InvokeInv, GiveUpInv, LaunchInv, JudgeInv, DiesInv, ResetInv, WorldInv
        DEF Next, Orchestrator

-----------------------------------------------------------------------------
LEMMA InvHolds == Spec => []Inv
<1>1. Inv /\ [Next]_vars => Inv'
  BY NextInv
<1> QED BY <1>1, InitInv, PTL DEF Spec

(* Every variable keeps its type, and the file never says "attempting".    *)
THEOREM TypeCorrect == Spec => []TypeOK
BY InvHolds, TypedIsTypeOK, PTL DEF Inv

-----------------------------------------------------------------------------
(* A launch is entered in memory; a death forgets at most the one that     *)
(* memory is ahead by; a reset starts the count again.                     *)
LEMMA NextCounted == ASSUME Inv, Counted, [Next]_vars PROVE Counted'
<1> SUFFICES ASSUME NEW n \in Methods PROVE launches'[n] <= mem'[n].tries + deaths'
  BY DEF Counted
<1>1. /\ launches \in [Methods -> Nat] /\ launches[n] \in Nat /\ deaths \in Nat
      /\ mem \in MemoryRows /\ mem[n].tries \in Nat
      /\ disk \in FileRows /\ disk[n].tries \in Nat
      /\ launches[n] <= mem[n].tries + deaths
  BY SmokeAssumption DEF Inv, Typed, OthersOK, Counted, MemoryRows, FileRows
<1>2. ASSUME NEW S \in Choices, Invoke(S) PROVE launches'[n] <= mem'[n].tries + deaths'
  <2>1. mem[n] = disk[n]
    BY <1>2, NoMethodIsNone DEF Invoke, Inv, Shape
  <2> QED BY <1>1, <1>2, <2>1 DEF Invoke, envVars, FileRows
<1>3. ASSUME NEW m \in Methods, Launch(m) PROVE launches'[n] <= mem'[n].tries + deaths'
  BY <1>1, <1>3 DEF Launch, envVars, MemoryRows
<1>4. ASSUME NEW m \in Methods, GiveUp(m) PROVE launches'[n] <= mem'[n].tries + deaths'
  BY <1>1, <1>4 DEF GiveUp, envVars, MemoryRows
<1>5. ASSUME NEW answers \in BOOLEAN, Judge(answers)
      PROVE  launches'[n] <= mem'[n].tries + deaths'
  BY <1>1, <1>5 DEF Judge, envVars, MemoryRows
<1>6. CASE Dies
  <2>1. mem[n].tries <= disk[n].tries + 1
    BY <1>1, NoMethodIsNone DEF Inv, Shape
  <2> QED BY <1>1, <1>6, <2>1 DEF Dies
<1>7. ASSUME NEW S \in Choices, Reset(S) PROVE launches'[n] <= mem'[n].tries + deaths'
  <2>1. mem[n] = disk[n]
    BY <1>7, NoMethodIsNone DEF Reset, Inv, Shape
  <2> QED BY <1>1, <1>7, <2>1 DEF Reset
<1>8. ASSUME UNCHANGED <<mem, launches, deaths>>
      PROVE  launches'[n] <= mem'[n].tries + deaths'
  BY <1>1, <1>8
<1>9. /\ HardTimeout \/ Sigkill \/ Finish \/ UNCHANGED vars => UNCHANGED <<mem, launches, deaths>>
      /\ \A rc \in Codes : LauncherEnds(rc) => UNCHANGED <<mem, launches, deaths>>
      /\ \A m \in Methods : Skip(m) \/ Logs(m) \/ OrphanEnds(m) \/ HalfAnHourPasses(m)
                              => UNCHANGED <<mem, launches, deaths>>
  BY DEF HardTimeout, Sigkill, Finish, LauncherEnds, Skip, Logs, OrphanEnds, HalfAnHourPasses,
         vars, passVars, envVars
<1> QED BY <1>2, <1>3, <1>4, <1>5, <1>6, <1>7, <1>8, <1>9 DEF Next, Orchestrator

(* The retry cap: at most max_attempts launches between two resets, and    *)
(* one more for each death of the orchestrator.                            *)
THEOREM AttemptsStayBounded == Spec => []AttemptsBounded
<1>1. Inv /\ Counted => AttemptsBounded
  <2> SUFFICES ASSUME Inv, Counted, NEW m \in Methods
               PROVE  launches[m] <= MaxAttempts + deaths
    BY DEF AttemptsBounded
  <2>1. mem[m].tries \in 0 .. MaxAttempts /\ launches[m] \in Nat /\ deaths \in Nat
    BY SmokeAssumption DEF Inv, Typed, OthersOK, MemoryRows
  <2> QED BY <2>1, SmokeAssumption DEF Counted
<1>2. Inv /\ Counted /\ [Next]_vars => Counted'
  BY NextCounted
<1> QED BY <1>1, <1>2, InitInv, InvHolds, PTL DEF Spec

-----------------------------------------------------------------------------
LEMMA NextEarned == ASSUME PatientOperator, Inv, Earned, [Next]_vars PROVE Earned'
<1>1. ASSUME NEW S \in Choices, Invoke(S) PROVE Earned'
  BY <1>1 DEF Invoke, worldVars, Inv, Typed, FileRows, Earned, GreenIsEarned
<1>2. ASSUME NEW m \in Methods, GiveUp(m) PROVE Earned'
  <2>1. mem \in MemoryRows /\ \A n \in Methods : mem[n] = disk[n]
    BY <1>2, NoMethodIsNone DEF GiveUp, Turn, Inv, Typed, Shape
  <2> QED BY <1>2, <2>1 DEF GiveUp, worldVars, MemoryRows, Earned, GreenIsEarned
<1>3. ASSUME NEW answers \in BOOLEAN, Judge(answers) PROVE Earned'
  <2>1. PICK verdict :
          /\ verdict = Verdict(child, seen \/ (answers /\ cur \in recent))
          /\ mem' = [mem EXCEPT ![cur].status = verdict]
    BY <1>3 DEF Judge
  <2>2. verdict = "green" => cur \in earned
    <3>1. child \in Codes
      BY <1>3 DEF Judge
    <3>2. ~(seen \/ (answers /\ cur \in recent)) => verdict # "green"
      BY <2>1, <3>1 DEF Verdict, Codes
    <3> QED BY <3>2 DEF Earned
  <2>3. mem \in MemoryRows /\ \A n \in Methods : n # cur => mem[n] = disk[n]
    BY DEF Inv, Typed, Shape
  <2> QED BY <1>3, <2>1, <2>2, <2>3 DEF Judge, worldVars, MemoryRows, Earned, GreenIsEarned
<1>4. ASSUME NEW m \in Methods, Launch(m) PROVE Earned'
  BY <1>4 DEF Launch, worldVars, Earned, GreenIsEarned
<1>5. CASE Dies
  BY <1>5 DEF Dies, Earned, GreenIsEarned
<1>6. ASSUME NEW S \in Choices, Reset(S) PROVE Earned'
  BY <1>6 DEF Reset, Inv, Shape, Earned, GreenIsEarned
<1>7. ASSUME NEW m \in Methods, Logs(m) PROVE Earned'
  BY <1>7 DEF Logs, passVars, Earned, GreenIsEarned
<1>8. ASSUME NEW m \in Methods, OrphanEnds(m) \/ HalfAnHourPasses(m) \/ Skip(m) PROVE Earned'
  BY <1>8 DEF OrphanEnds, HalfAnHourPasses, Skip, passVars, worldVars, Earned, GreenIsEarned
<1>9. CASE HardTimeout \/ Sigkill \/ Finish \/ (\E rc \in Codes : LauncherEnds(rc))
           \/ UNCHANGED vars
  BY <1>9 DEF HardTimeout, Sigkill, Finish, LauncherEnds, vars, passVars, worldVars,
              Inv, Shape, Earned, GreenIsEarned
<1> QED BY <1>1, <1>2, <1>3, <1>4, <1>5, <1>6, <1>7, <1>8, <1>9 DEF Next, Orchestrator

(* With a patient operator, no green outlives its evidence: whatever was   *)
(* found in a log or in MLflow was logged since the method's last reset.   *)
THEOREM GreenStaysEarned == ASSUME PatientOperator PROVE Spec => []GreenIsEarned
<1>1. Inv /\ Earned /\ [Next]_vars => Earned'
  BY NextEarned
<1>2. Earned => GreenIsEarned
  BY DEF Earned
<1> QED BY <1>1, <1>2, InitInv, InvHolds, PTL DEF Spec

-----------------------------------------------------------------------------
Kept == \A m \in Methods :
          disk[m].status \in Settled /\ disk'[m] # disk[m] => resets' # resets

LEMMA NextKept == ASSUME Inv, [Next]_vars PROVE Kept
<1>1. ASSUME NEW S \in Choices, Invoke(S) PROVE Kept
  BY <1>1 DEF Invoke, Settled, Kept
<1>2. ASSUME NEW m \in Methods, GiveUp(m) PROVE Kept
  <2>1. mem \in MemoryRows /\ \A n \in Methods : mem[n] = disk[n]
    BY <1>2, NoMethodIsNone DEF GiveUp, Turn, Inv, Typed, Shape
  <2> QED BY <1>2, <2>1 DEF GiveUp, Wanted, MemoryRows, Kept
<1>3. ASSUME NEW answers \in BOOLEAN, Judge(answers) PROVE Kept
  <2>1. PICK verdict : mem' = [mem EXCEPT ![cur].status = verdict]
    BY <1>3 DEF Judge
  <2> QED BY <1>3, <2>1 DEF Judge, Inv, Typed, MemoryRows, Shape, Kept
<1>4. ASSUME NEW S \in Choices, Reset(S) PROVE Kept
  BY <1>4 DEF Reset, Inv, Typed, OthersOK, Kept
<1>5. CASE disk' = disk
  BY <1>5 DEF Kept
<1>6. /\ HardTimeout \/ Sigkill \/ Finish \/ Dies \/ UNCHANGED vars => disk' = disk
      /\ \A rc \in Codes : LauncherEnds(rc) => disk' = disk
      /\ \A m \in Methods : Launch(m) \/ Skip(m) \/ Logs(m) \/ OrphanEnds(m)
                              \/ HalfAnHourPasses(m) => disk' = disk
  BY DEF HardTimeout, Sigkill, Finish, Dies, LauncherEnds, Launch, Skip, Logs, OrphanEnds,
         HalfAnHourPasses, vars
<1> QED BY <1>1, <1>2, <1>3, <1>4, <1>5, <1>6 DEF Next, Orchestrator

(* A verdict that settled a method outlives deaths, later passes and       *)
(* --only runs: only a reset takes it back.                                *)
THEOREM SettledStaysSettled == Spec => SettledStays
<1>1. Inv /\ [Next]_vars => [Kept]_vars
  BY NextKept
<1> QED BY <1>1, InvHolds, PTL DEF Spec, SettledStays, Kept

-----------------------------------------------------------------------------
(* Refinement.  Seen through the file, Judge is the whole attempt, and a    *)
(* launch, a death, an end and a time limit are nothing.                   *)
LEMMA PromiseInit == Init => Promise!Init
BY DEF Init, Promise!Init, Promise!Fresh

LEMMA JudgeSettles ==
  ASSUME Inv, Earned, NEW answers \in BOOLEAN, Judge(answers)
  PROVE  \E verdict \in Promise!Verdicts : cur \in Methods /\ Promise!Settle(cur, verdict)
<1> DEFINE evidence == seen \/ (answers /\ cur \in recent)
           verdict == Verdict(child, evidence)
<1>1. /\ child \in Codes /\ disk' = mem' /\ earned' = earned
      /\ mem' = [mem EXCEPT ![cur].status = verdict]
  BY DEF Judge, worldVars
<1>2. /\ cur \in Methods /\ disk[cur].status \notin Settled
      /\ mem[cur].tries = disk[cur].tries + 1 /\ \A m \in Methods : m # cur => mem[m] = disk[m]
      /\ disk \in FileRows /\ mem \in MemoryRows
  BY DEF Judge, Inv, Shape, Typed
<1>3. verdict \in Promise!Verdicts /\ (verdict = "green" => cur \in earned)
  <2>1. evidence => cur \in earned
    BY DEF Earned
  <2> HIDE DEF evidence
  <2> QED BY <1>1, <2>1 DEF Verdict, Codes, Promise!Verdicts, Promise!Settled
<1> HIDE DEF verdict
<1>4. disk[cur].tries < MaxAttempts
  BY <1>2, SmokeAssumption DEF FileRows, MemoryRows
<1>5. mem'[cur] = [status |-> verdict, tries |-> disk[cur].tries + 1]
  BY <1>1, <1>2 DEF MemoryRows
<1>6. disk' = [disk EXCEPT ![cur] = [status |-> verdict, tries |-> @.tries + 1]]
  BY <1>1, <1>2, <1>5 DEF FileRows, MemoryRows
<1>7. Promise!Settle(cur, verdict)
  BY <1>1, <1>2, <1>3, <1>4, <1>6 DEF Promise!Settle, Promise!Settled, Settled
<1> QED BY <1>2, <1>3, <1>7

LEMMA GiveUpIsIt ==
  ASSUME Inv, NEW m \in Methods, GiveUp(m)
  PROVE  Promise!GiveUp(m)
<1>1. mem[m].status \notin Settled /\ mem[m].tries >= MaxAttempts /\ earned' = earned
      /\ disk' = [mem EXCEPT ![m].status = "red"]
  BY DEF GiveUp, Wanted, Spent, worldVars
<1>2. disk \in FileRows /\ mem \in MemoryRows /\ \A n \in Methods : mem[n] = disk[n]
  BY NoMethodIsNone DEF GiveUp, Turn, Inv, Typed, Shape
<1>3. mem = disk
  BY <1>2 DEF FileRows, MemoryRows
<1>4. disk[m].tries = MaxAttempts
  BY <1>1, <1>2, <1>3, SmokeAssumption DEF FileRows
<1> QED BY <1>1, <1>3, <1>4 DEF Promise!GiveUp, Promise!Settled, Settled

LEMMA PromiseStep ==
  ASSUME Inv, Earned, [Next]_vars
  PROVE  [Promise!Next]_(Promise!vars)
<1>1. ASSUME NEW S \in Choices, Invoke(S) PROVE Promise!Next
  BY <1>1 DEF Invoke, worldVars, Promise!Drop, Promise!Next
<1>2. ASSUME NEW m \in Methods, GiveUp(m) PROVE Promise!Next
  BY <1>2, GiveUpIsIt DEF Promise!Next
<1>3. ASSUME NEW answers \in BOOLEAN, Judge(answers) PROVE Promise!Next
  BY <1>3, JudgeSettles DEF Promise!Next
<1>4. ASSUME NEW S \in Choices, Reset(S) PROVE Promise!Next
  <2>1. S \in SUBSET Methods
    BY DEF Choices
  <2>2. Promise!Reset(S)
    BY <1>4 DEF Reset, Promise!Reset, Promise!Fresh
  <2> QED BY <2>1, <2>2 DEF Promise!Next
<1>5. ASSUME NEW m \in Methods, Logs(m) PROVE Promise!Next
  <2>1. Promise!Observe(m)
    BY <1>5 DEF Logs, Promise!Observe
  <2> QED BY <2>1 DEF Promise!Next
<1>6. CASE UNCHANGED <<disk, earned>>
  BY <1>6 DEF Promise!vars
<1>7. /\ HardTimeout \/ Sigkill \/ Finish \/ Dies \/ UNCHANGED vars => UNCHANGED <<disk, earned>>
      /\ \A rc \in Codes : LauncherEnds(rc) => UNCHANGED <<disk, earned>>
      /\ \A m \in Methods : Launch(m) \/ Skip(m) \/ OrphanEnds(m) \/ HalfAnHourPasses(m)
                              => UNCHANGED <<disk, earned>>
  BY DEF HardTimeout, Sigkill, Finish, Dies, LauncherEnds, Launch, Skip, OrphanEnds,
         HalfAnHourPasses, vars, worldVars
<1> QED BY <1>1, <1>2, <1>3, <1>4, <1>5, <1>6, <1>7 DEF Next, Orchestrator

(* With a patient operator the orchestrator implements the life cycle of a  *)
(* method, for any methods, cap, deaths and resets.                        *)
THEOREM ImplementsMethodLifecycle == ASSUME PatientOperator PROVE Spec => PromiseSpec
<1>1. Inv /\ Earned /\ [Next]_vars => [Promise!Next]_(Promise!vars)
  BY PromiseStep
<1>2. Inv /\ Earned /\ [Next]_vars => Earned'
  BY NextEarned
<1> QED BY <1>1, <1>2, InitInv, PromiseInit, InvHolds, PTL DEF Spec, PromiseSpec, Promise!Spec
=============================================================================
