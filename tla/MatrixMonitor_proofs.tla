------------------------ MODULE MatrixMonitor_proofs ------------------------
(***************************************************************************)
(* Type correctness and the safety properties of MatrixMonitor, for all    *)
(* thresholds, any number of changes and any number of faults.             *)
(***************************************************************************)
EXTENDS MatrixMonitor, TLAPS

Threshold == {ReAlert, Grace, GpuIdle, Heartbeat}
USE DEF Ages, Absent, Keys

-----------------------------------------------------------------------------
\* Ages.
LEMMA OlderLemma ==
  ASSUME NEW a \in Ages, NEW d \in Nat
  PROVE  Older(a, d) \in Ages /\ (Older(a, d) = Absent <=> a = Absent)
BY AgesAssumption DEF Older

LEMMA AgeZero == 0 \in Ages /\ Absent \in Ages
BY AgesAssumption

LEMMA AgedLemma ==
  ASSUME NEW s \in Memory, NEW d \in Nat
  PROVE  /\ Aged(s, d) \in Memory
         /\ Aged(s, d).done = s.done
         /\ Aged(s, d).down = Older(s.down, d) /\ Aged(s, d).idle = Older(s.idle, d)
         /\ \A k \in Keys : Aged(s, d).alerts[k] = Older(s.alerts[k], d)
BY OlderLemma DEF Aged, OlderEach, Memory

LEMMA FreshLemma == Fresh \in Memory /\ Nothing \in World
BY AgesAssumption DEF Fresh, Memory, Nothing, World, Rows

-----------------------------------------------------------------------------
\* What the checks have in common.
Effects ==
  /\ st' \in Memory /\ pc' \in Checking \cup {"cut short"}
  /\ faults' \in 0 .. MaxFaults
  /\ ping' \in Subjects \X {"good", "bad", "none"}
  /\ told' \in [Keys \cup {"done"} -> Nat] /\ since' \in [Keys -> Ages]

LEMMA QuietTypes ==
  ASSUME TypeOK, NEW s \in Memory, NEW next \in Checking, Quiet(s, next)
  PROVE  Effects
BY DEF TypeOK, Quiet, NoPing, Subjects, Effects

LEMMA SendTypes ==
  ASSUME TypeOK, NEW before \in Memory, NEW after \in Memory, NEW next \in Checking,
         NEW k \in Subjects, NEW kind \in {"good", "bad"}, kind = "bad" => k \in Keys,
         Send(k, kind, before, after, next)
  PROVE  Effects
<1>1. faults' \in 0 .. MaxFaults
  <2>1. faults \in 0 .. MaxFaults
    BY DEF TypeOK
  <2>2. faults' = faults \/ (faults < MaxFaults /\ faults' = faults + 1)
    BY DEF Send
  <2> QED BY <2>1, <2>2, BoundsAssumption
<1>2. told' \in [Keys \cup {"done"} -> Nat]
  <2>1. told \in [Keys \cup {"done"} -> Nat]
    BY DEF TypeOK
  <2>2. CASE UNCHANGED told
    BY <2>1, <2>2
  <2>3. CASE Arrives(k, kind)
    BY <2>1, <2>3 DEF Arrives
  <2> QED BY <2>2, <2>3 DEF Send
<1>3. since' \in [Keys -> Ages]
  <2>1. since \in [Keys -> Ages] /\ 0 \in Ages /\ Absent \in Ages
    BY AgeZero DEF TypeOK
  <2>2. since' \in {since, [since EXCEPT ![k] = 0], [since EXCEPT ![k] = Absent]}
    BY DEF Send
  <2> QED BY <2>1, <2>2
<1> QED BY <1>1, <1>2, <1>3 DEF Send, Effects

LEMMA MarkTypes ==
  ASSUME NEW s \in Memory, NEW k \in Keys
  PROVE  /\ [s EXCEPT !.alerts[k] = 0] \in Memory
         /\ [s EXCEPT !.alerts[k] = Absent] \in Memory
         /\ [s EXCEPT !.down = 0] \in Memory /\ [s EXCEPT !.down = Absent] \in Memory
         /\ [s EXCEPT !.idle = 0] \in Memory /\ [s EXCEPT !.idle = Absent] \in Memory
         /\ [s EXCEPT !.beat = 0] \in Memory
         /\ \A b \in BOOLEAN : [s EXCEPT !.done = b] \in Memory
BY AgesAssumption DEF Memory

LEMMA RaiseTypes ==
  ASSUME TypeOK, NEW s \in Memory, NEW k \in Keys, NEW next \in Checking, Raise(k, s, next)
  PROVE  Effects
BY MarkTypes, QuietTypes, SendTypes DEF Raise, Subjects

LEMMA RecoverTypes ==
  ASSUME TypeOK, NEW s \in Memory, NEW k \in Keys, NEW next \in Checking, Recover(k, s, next)
  PROVE  Effects
BY MarkTypes, QuietTypes, SendTypes DEF Recover, Subjects

Checks == CheckTunnel \/ CheckOrch \/ CheckDone \/ CheckGpu \/ CheckBeat

LEMMA CheckTypes == ASSUME TypeOK, Checks PROVE Effects
<1> USE DEF Checking
<1>0. st \in Memory
  BY DEF TypeOK
<1>1. CASE CheckTunnel
  BY <1>0, <1>1, MarkTypes, QuietTypes, RaiseTypes, RecoverTypes DEF CheckTunnel
<1>2. CASE CheckOrch
  BY <1>0, <1>2, MarkTypes, QuietTypes, RaiseTypes, RecoverTypes DEF CheckOrch
<1>3. CASE CheckDone
  BY <1>0, <1>3, MarkTypes, QuietTypes, SendTypes DEF CheckDone, Subjects
<1>4. CASE CheckGpu
  <2>1. [st EXCEPT !.idle = Absent, !.alerts["gpu"] = Absent] \in Memory
    BY <1>0 DEF Memory
  <2> QED BY <1>0, <1>4, <2>1, MarkTypes, QuietTypes, RaiseTypes DEF CheckGpu
<1>5. CASE CheckBeat
  BY <1>0, <1>5, MarkTypes, QuietTypes, SendTypes DEF CheckBeat, Subjects
<1> QED BY <1>1, <1>2, <1>3, <1>4, <1>5 DEF Checks

LEMMA ReadTypes ==
  ASSUME TypeOK, ReadRows \/ ReadOrch \/ ReadTunnel \/ ReadGpu
  PROVE  TypeOK'
<1>1. CASE ReadRows
  BY <1>1 DEF ReadRows, Poll, TypeOK, World, hist, NoPing, Subjects, Reading
<1>2. ASSUME NEW k \in Keys, NEW fine \in BOOLEAN, Seen(k, fine)
      PROVE  bad' \in [{"tunnel", "gpu"} -> Ages] /\ since' \in [Keys -> Ages]
             /\ UNCHANGED <<told, calm>>
  <2>1. bad \in [{"tunnel", "gpu"} -> Ages] /\ since \in [Keys -> Ages]
        /\ 0 \in Ages /\ Absent \in Ages
    BY AgeZero DEF TypeOK
  <2>2. since' \in {since, [since EXCEPT ![k] = Absent]} /\ UNCHANGED <<told, calm>>
    BY <1>2, <2>1 DEF Seen
  <2>3. bad' \in {bad, [bad EXCEPT ![k] = Absent], [bad EXCEPT ![k] = 0]}
    BY <1>2, <2>1 DEF Seen
  <2> QED BY <2>1, <2>2, <2>3
<1>3. ASSUME NEW f \in {"orch", "tunnel", "gpu"},
             NEW next \in Reading \cup Checking, Poll(f, next)
      PROVE  /\ seen' \in World /\ pc' \in Reading \cup Checking
             /\ ping' \in Subjects \X {"good", "bad", "none"}
             /\ UNCHANGED <<world, changes, st, saved, faults>>
  BY <1>3 DEF Poll, TypeOK, World, NoPing, Subjects
<1>4. CASE ReadOrch
  BY <1>2, <1>3, <1>4 DEF ReadOrch, TypeOK, Reading
<1>5. CASE ReadTunnel
  BY <1>2, <1>3, <1>5 DEF ReadTunnel, TypeOK, Reading, World
<1>6. CASE ReadGpu
  BY <1>2, <1>3, <1>6 DEF ReadGpu, TypeOK, Checking, Stalled
<1> QED BY <1>1, <1>4, <1>5, <1>6

LEMMA TimeTypes ==
  ASSUME TypeOK, (\E d \in 1 .. MaxStep : Sleep(d)) \/ Returns
  PROVE  TypeOK'
<1>1. PICK d \in 1 .. MaxStep : Sleep(d) \/ Relaunch(d)
  BY DEF Returns
<1>2. d \in Nat
  BY BoundsAssumption
<1>a. TimePasses(d) /\ st' \in {Aged(st, d), Aged(saved, d)}
  BY <1>1 DEF Sleep, Relaunch
<1>3. st' \in Memory /\ saved' \in Memory
  <2>1. st \in Memory /\ saved \in Memory
    BY DEF TypeOK
  <2>2. Aged(st, d) \in Memory /\ Aged(saved, d) \in Memory
    BY <1>2, <2>1, AgedLemma
  <2> QED BY <1>a, <2>2 DEF TimePasses
<1>4. bad' \in [{"tunnel", "gpu"} -> Ages] /\ since' \in [Keys -> Ages]
  <2>1. ASSUME NEW D, NEW f \in [D -> Ages] PROVE OlderEach(f, d) \in [D -> Ages]
    BY <1>2, OlderLemma DEF OlderEach
  <2>2. bad' = OlderEach(bad, d) /\ since' = OlderEach(since, d)
    BY <1>a DEF TimePasses
  <2> QED BY <2>1, <2>2 DEF TypeOK
<1>5. calm' \in 0 .. MaxAge
  <2>1. calm \in 0 .. MaxAge /\ calm' \in {0, Older(calm, d)}
    BY <1>a DEF TimePasses, TypeOK
  <2>2. Older(calm, d) \in 0 .. MaxAge
    BY <1>2, <2>1, AgesAssumption DEF Older
  <2> QED BY <2>1, <2>2, AgesAssumption
<1>6. pc' = "rows" /\ seen' = Nothing /\ ping' = NoPing
      /\ UNCHANGED <<world, changes, told, faults>>
  BY <1>a DEF TimePasses
<1> QED BY <1>3, <1>4, <1>5, <1>6, FreshLemma DEF TypeOK, Reading, NoPing, Subjects

LEMMA TypeStep == TypeOK /\ [Next]_vars => TypeOK'
<1> SUFFICES ASSUME TypeOK, [Next]_vars PROVE TypeOK'
  OBVIOUS
<1>1. CASE Change
  <2>1. world' \in World /\ changes' \in 0 .. MaxChanges
        /\ ping' = NoPing /\ UNCHANGED <<pc, seen, st, saved, told, hist, faults>>
    <3>1. changes \in 0 .. MaxChanges
      BY DEF TypeOK
    <3>2. changes < MaxChanges /\ changes' = changes + 1 /\ \E w \in World : world' = w
      BY <1>1 DEF Change
    <3> QED BY <1>1, <3>1, <3>2, BoundsAssumption DEF Change
  <2> QED BY <2>1 DEF TypeOK, hist, NoPing, Subjects
<1>2. CASE ReadRows \/ ReadOrch \/ ReadTunnel \/ ReadGpu
  BY <1>2, ReadTypes
<1>3. CASE Checks
  <2>1. Effects
    BY <1>3, CheckTypes
  <2>2. UNCHANGED <<world, changes, seen, saved, bad, calm>>
    BY <1>3 DEF Checks, CheckTunnel, CheckOrch, CheckDone, CheckGpu, CheckBeat, Check
  <2> QED BY <2>1, <2>2 DEF Effects, TypeOK
<1>4. CASE Save
  BY <1>4, BoundsAssumption, FreshLemma DEF Save, TypeOK, hist, NoPing, Subjects
<1>5. CASE (\E d \in 1 .. MaxStep : Sleep(d)) \/ Returns
  BY <1>5, TimeTypes
<1>6. CASE Dies
  <2>1. since' \in [Keys -> Ages]
    <3>1. since \in [Keys -> Ages] /\ [k \in Keys |-> Absent] \in [Keys -> Ages]
      BY DEF TypeOK
    <3> QED BY <1>6, <3>1 DEF Dies
  <2>2. faults' \in 0 .. MaxFaults /\ st' = Fresh /\ seen' = Nothing /\ pc' = "off"
        /\ ping' = NoPing /\ UNCHANGED <<world, changes, saved, told, bad, calm>>
    <3>1. faults \in 0 .. MaxFaults
      BY DEF TypeOK
    <3> QED BY <1>6, <3>1, BoundsAssumption DEF Dies
  <2> QED BY <2>1, <2>2, FreshLemma DEF TypeOK, NoPing, Subjects
<1>7. CASE UNCHANGED vars
  BY <1>7 DEF vars, hist, TypeOK
<1> QED BY <1>1, <1>2, <1>3, <1>4, <1>5, <1>6, <1>7 DEF Next, Pass, Checks

LEMMA TypeInit == Init => TypeOK
BY AgesAssumption, BoundsAssumption, FreshLemma
   DEF Init, TypeOK, World, Rows, NoPing, Subjects, Reading

\* Every variable keeps its type.
THEOREM TypeCorrect == Spec => []TypeOK
BY TypeInit, TypeStep, PTL DEF Spec

-----------------------------------------------------------------------------
(* NoEcho.  What was told since the last bad news is paid for: one piece   *)
(* of good news by the alert being off the record, the others by faults.   *)
EchoOf(k) == /\ told[k] <= faults + 1
             /\ pc = "off" \/ st.alerts[k] # Absent => told[k] <= faults
EchoOfDone == /\ told["done"] <= faults + 1
              /\ pc = "off" \/ ~ st.done => told["done"] <= faults
BeforeDone == (Reading \ {"rows"}) \cup {"check_tunnel", "check_orch", "check_done"}
EchoInv ==
  /\ EchoOf("tunnel") /\ EchoOf("orch") /\ EchoOfDone
  /\ told["gpu"] <= 1
  /\ pc \in BeforeDone /\ seen.rows # "done" => told["done"] = 0

LEMMA Counters == TypeOK => faults \in Nat /\ told \in [Keys \cup {"done"} -> Nat]
<1>1. TypeOK => faults \in 0 .. MaxFaults /\ told \in [Keys \cup {"done"} -> Nat]
  BY DEF TypeOK
<1> QED BY <1>1, BoundsAssumption

LEMMA EchoImplies == TypeOK /\ EchoInv => NoEcho
<1> SUFFICES ASSUME TypeOK, EchoInv, NEW k \in Keys \cup {"done"}
             PROVE  told[k] <= 1 + faults
  BY Counters DEF NoEcho
<1> QED BY Counters DEF EchoInv, EchoOf, EchoOfDone

\* What a ping does to what was told.
LEMMA SendTells ==
  ASSUME TypeOK, NEW k \in Keys \cup {"done"}, NEW kind \in {"good", "bad"},
         NEW before, NEW after, NEW next \in Checking, Send(k, kind, before, after, next)
  PROVE  /\ \/ told' = [told EXCEPT ![k] = IF kind = "bad" THEN 0 ELSE @ + 1]
               /\ faults' \in {faults, faults + 1}
            \/ told' = told /\ faults' = faults + 1
         /\ \/ st' = after /\ pc' = next
            \/ st' = before /\ pc' = "cut short" /\ faults' = faults + 1
BY DEF Send, Arrives, TypeOK

(* The checks of an alert: what they leave alone, and whom they tell.      *)
SameButAlert(s, t, k) ==
  /\ t.done = s.done
  /\ \A j \in Keys \ {k} : t.alerts[j] = s.alerts[j]

LEMMA AlertTells ==
  ASSUME TypeOK, NEW s \in Memory, s.alerts = st.alerts, s.done = st.done,
         NEW k \in Keys, NEW next \in Checking,
         Raise(k, s, next) \/ (Recover(k, s, next) /\ k # "gpu")
  PROVE  /\ SameButAlert(st, st', k)
         /\ \A j \in Keys \cup {"done"} : j # k => told'[j] = told[j]
         /\ faults' \in {faults, faults + 1}
         /\ pc' \in {next, "cut short"}
         /\ \/ told'[k] = 0
            \/ told'[k] = told[k] /\ faults' = faults + 1
            \/ told'[k] = told[k] /\ st'.alerts[k] = st.alerts[k]
            \/ /\ told'[k] = told[k] + 1 /\ k # "gpu"
               /\ st.alerts[k] # Absent /\ st'.alerts[k] = Absent
<1>0. told \in [Keys \cup {"done"} -> Nat] /\ faults \in Nat
  BY Counters
<1>1. CASE Quiet(s, next)
  BY <1>0, <1>1 DEF Quiet, SameButAlert
<1>2. CASE Send(k, "bad", s, [s EXCEPT !.alerts[k] = 0], next)
  <2>1. /\ told' = [told EXCEPT ![k] = 0] \/ (told' = told /\ faults' = faults + 1)
        /\ faults' \in {faults, faults + 1} /\ pc' \in {next, "cut short"}
        /\ st' \in {s, [s EXCEPT !.alerts[k] = 0]}
    BY <1>2, SendTells
  <2>2. CASE st' = s
    BY <1>0, <2>1, <2>2 DEF SameButAlert
  <2>3. CASE st' = [s EXCEPT !.alerts[k] = 0]
    <3>1. SameButAlert(st, st', k)
      BY <2>3 DEF SameButAlert, Memory
    <3> QED BY <1>0, <2>1, <3>1
  <2> QED BY <2>1, <2>2, <2>3
<1>3. CASE /\ Send(k, "good", [s EXCEPT !.alerts[k] = Absent],
                   [s EXCEPT !.alerts[k] = Absent], next)
           /\ s.alerts[k] # Absent /\ k # "gpu"
  <2>1. /\ told' = [told EXCEPT ![k] = @ + 1] \/ (told' = told /\ faults' = faults + 1)
        /\ faults' \in {faults, faults + 1} /\ pc' \in {next, "cut short"}
        /\ st' = [s EXCEPT !.alerts[k] = Absent]
    BY <1>3, SendTells
  <2>2. SameButAlert(st, st', k) /\ st'.alerts[k] = Absent
    BY <2>1 DEF SameButAlert, Memory
  <2> QED BY <1>0, <1>3, <2>1, <2>2
<1> QED BY <1>1, <1>2, <1>3 DEF Raise, Recover

LEMMA EchoStep == TypeOK /\ EchoInv /\ [Next]_vars => EchoInv'
<1> SUFFICES ASSUME TypeOK, EchoInv, [Next]_vars PROVE EchoInv'
  OBVIOUS
<1> USE DEF Checking, Reading, BeforeDone
<1>0. /\ told \in [Keys \cup {"done"} -> Nat] /\ faults \in Nat /\ st \in Memory
      /\ EchoOf("tunnel") /\ EchoOf("orch") /\ EchoOfDone /\ told["gpu"] <= 1
  BY Counters DEF EchoInv, TypeOK
<1>f. faults \in Nat
  BY <1>0
<1>t. \A k \in Keys \cup {"done"} : told[k] \in Nat
  BY <1>0
<1>1. CASE Change \/ UNCHANGED vars
  BY <1>1 DEF Change, vars, hist, EchoInv, EchoOf, EchoOfDone
<1>2. CASE ReadRows
  <2>1. /\ told' = IF seen'.rows = "done" THEN told ELSE [told EXCEPT !["done"] = 0]
        /\ pc = "rows" /\ pc' = "orch" /\ UNCHANGED <<st, faults>>
    BY <1>2 DEF ReadRows, Poll, TypeOK, World
  <2> QED BY <1>0, <2>1 DEF EchoInv, EchoOf, EchoOfDone
<1>3. CASE ReadOrch \/ ReadTunnel \/ ReadGpu
  <2>1. seen'.rows = seen.rows /\ pc \in BeforeDone /\ pc' \in BeforeDone
        /\ UNCHANGED <<told, st, faults>>
    BY <1>3 DEF ReadOrch, ReadTunnel, ReadGpu, Poll, Seen, TypeOK, World
  <2> QED BY <1>0, <2>1 DEF EchoInv, EchoOf, EchoOfDone
<1>4. ASSUME NEW k \in Keys, NEW s \in Memory, s.alerts = st.alerts, s.done = st.done,
             NEW next \in Checking,
             Raise(k, s, next) \/ (Recover(k, s, next) /\ k # "gpu"),
             UNCHANGED seen, pc \in Checking,
             next \in BeforeDone => pc \in BeforeDone
      PROVE  EchoInv'
  <2>1. /\ SameButAlert(st, st', k)
        /\ \A j \in Keys \cup {"done"} : j # k => told'[j] = told[j]
        /\ faults' \in {faults, faults + 1}
        /\ pc' \in {next, "cut short"}
        /\ \/ told'[k] = 0
           \/ told'[k] = told[k] /\ faults' = faults + 1
           \/ told'[k] = told[k] /\ st'.alerts[k] = st.alerts[k]
           \/ /\ told'[k] = told[k] + 1 /\ k # "gpu"
              /\ st.alerts[k] # Absent /\ st'.alerts[k] = Absent
    BY <1>4, AlertTells
  <2>a. pc # "off" /\ pc' # "off"
    BY <1>4, <2>1
  <2>b. faults' = faults \/ faults' = faults + 1
    BY <2>1
  <2>c. faults' \in Nat /\ faults' >= faults
    BY <1>f, <2>b
  <2>2. ASSUME NEW j \in {"tunnel", "orch"} PROVE EchoOf(j)'
    <3>1. told[j] \in Nat /\ EchoOf(j)
      BY <1>0, <1>t
    <3>2. CASE j = k
      <4>1. \/ told'[j] = 0
            \/ told'[j] = told[j] /\ faults' = faults + 1
            \/ told'[j] = told[j] /\ st'.alerts[j] = st.alerts[j]
            \/ told'[j] = told[j] + 1 /\ st.alerts[j] # Absent /\ st'.alerts[j] = Absent
        BY <2>1, <3>2
      <4> QED BY <1>f, <2>a, <2>c, <3>1, <4>1 DEF EchoOf
    <3>3. CASE j # k
      <4>1. told'[j] = told[j] /\ st'.alerts[j] = st.alerts[j]
        BY <2>1, <3>3 DEF SameButAlert
      <4> QED BY <1>f, <2>a, <2>c, <3>1, <4>1 DEF EchoOf
    <3> QED BY <3>2, <3>3
  <2>3. EchoOfDone' /\ told'["gpu"] <= 1
    <3>1. told'["done"] = told["done"] /\ st'.done = st.done
      BY <2>1 DEF SameButAlert
    <3>2. CASE k = "gpu"
      <4>1. \/ told'["gpu"] = 0 \/ told'["gpu"] = told["gpu"]
        BY <2>1, <3>2
      <4> QED BY <1>0, <1>f, <1>t, <2>a, <2>c, <3>1, <4>1 DEF EchoOfDone
    <3>3. CASE k # "gpu"
      <4>1. told'["gpu"] = told["gpu"]
        BY <2>1, <3>3
      <4> QED BY <1>0, <1>f, <1>t, <2>a, <2>c, <3>1, <4>1 DEF EchoOfDone
    <3> QED BY <3>2, <3>3
  <2>4. pc' \in BeforeDone /\ seen'.rows # "done" => told'["done"] = 0
    BY <1>4, <2>1 DEF EchoInv
  <2> QED BY <2>2, <2>3, <2>4 DEF EchoInv
<1>5. ASSUME NEW s \in Memory, NEW next \in Checking, Quiet(s, next), UNCHANGED seen,
             s.alerts["tunnel"] = st.alerts["tunnel"], s.alerts["orch"] = st.alerts["orch"],
             pc \in Checking, next \in BeforeDone => pc \in BeforeDone,
             s.done = st.done \/ (pc \in BeforeDone /\ seen.rows # "done")
      PROVE  EchoInv'
  <2>1. st' = s /\ pc' = next /\ UNCHANGED <<told, faults>>
    BY <1>5 DEF Quiet
  <2> QED BY <1>0, <1>5, <2>1 DEF EchoInv, EchoOf, EchoOfDone
<1>6. CASE CheckTunnel
  <2> USE <1>6 DEF CheckTunnel, Check
  <2>1. pc = "check_tunnel" /\ UNCHANGED seen
    OBVIOUS
  <2>2. CASE seen.tunnel
    <3>1. Recover("tunnel", [st EXCEPT !.down = Absent], "check_orch")
      BY <2>2 DEF TypeOK
    <3>2. /\ [st EXCEPT !.down = Absent] \in Memory
          /\ [st EXCEPT !.down = Absent].alerts = st.alerts
          /\ [st EXCEPT !.down = Absent].done = st.done
      BY <1>0 DEF Memory
    <3> QED BY <1>4, <2>1, <3>1, <3>2
  <2>3. CASE Raise("tunnel", st, "check_orch")
    BY <1>0, <1>4, <2>1, <2>3
  <2>4. CASE Quiet([st EXCEPT !.down = 0], "check_orch") \/ Quiet(st, "check_orch")
    <3>1. /\ [st EXCEPT !.down = 0] \in Memory
          /\ [st EXCEPT !.down = 0].alerts = st.alerts
          /\ [st EXCEPT !.down = 0].done = st.done
      BY <1>0, AgeZero DEF Memory
    <3> QED BY <1>0, <1>5, <2>1, <2>4, <3>1
  <2> QED BY <2>2, <2>3, <2>4
<1>7. CASE CheckOrch
  BY <1>0, <1>4, <1>5, <1>7 DEF CheckOrch, Check
<1>8. CASE CheckDone
  <2>1. CASE Send("done", "good", st, [st EXCEPT !.done = TRUE], "check_gpu")
             /\ seen.rows = "done" /\ ~ st.done /\ UNCHANGED seen
    <3>1. /\ \/ told' = [told EXCEPT !["done"] = @ + 1] /\ faults' \in {faults, faults + 1}
             \/ told' = told /\ faults' = faults + 1
          /\ \/ st' = [st EXCEPT !.done = TRUE] /\ pc' = "check_gpu"
             \/ st' = st /\ pc' = "cut short" /\ faults' = faults + 1
      BY <2>1, SendTells
    <3>2. st'.alerts = st.alerts /\ (st'.done \/ faults' = faults + 1)
      BY <1>0, <3>1 DEF Memory
    <3>a. faults' = faults \/ faults' = faults + 1
      BY <3>1
    <3>p. pc' # "off" /\ pc' \notin BeforeDone
      BY <3>1
    <3>q. pc # "off"
      BY <1>8 DEF CheckDone, Check
    <3>b. faults' \in Nat /\ faults' >= faults
      BY <1>f, <3>a
    <3>3. told["done"] <= faults /\ told["done"] \in Nat
      BY <1>0, <1>t, <2>1 DEF EchoOfDone
    <3>c. \/ told'["done"] = told["done"] + 1
          \/ told'["done"] = told["done"] /\ faults' = faults + 1
      BY <1>0, <3>1
    <3>4. EchoOfDone'
      <4>1. told'["done"] <= faults' + 1 /\ (faults' = faults + 1 => told'["done"] <= faults')
        BY <1>f, <3>3, <3>a, <3>c
      <4>2. CASE faults' = faults + 1
        BY <4>1, <4>2 DEF EchoOfDone
      <4>3. CASE st'.done
        BY <3>p, <4>1, <4>3 DEF EchoOfDone
      <4> QED BY <3>2, <4>2, <4>3
    <3>5. \A k \in Keys : told'[k] = told[k]
      BY <1>0, <3>1
    <3>6. ASSUME NEW k \in {"tunnel", "orch"} PROVE EchoOf(k)'
      <4>1. told'[k] = told[k] /\ told[k] \in Nat /\ EchoOf(k)
        BY <1>0, <1>t, <3>5
      <4>2. st'.alerts[k] = st.alerts[k]
        BY <3>2
      <4> QED BY <1>f, <3>a, <3>b, <3>p, <3>q, <4>1, <4>2 DEF EchoOf
    <3> QED BY <1>0, <3>4, <3>5, <3>6, <3>p DEF EchoInv
  <2>2. CASE Quiet(st, "check_gpu") /\ UNCHANGED seen
    BY <1>0, <1>5, <1>8, <2>2 DEF CheckDone, Check
  <2>3. CASE Quiet([st EXCEPT !.done = FALSE], "check_gpu") /\ seen.rows # "done"
             /\ UNCHANGED seen
    <3>1. [st EXCEPT !.done = FALSE] \in Memory /\ [st EXCEPT !.done = FALSE].alerts = st.alerts
      BY <1>0 DEF Memory
    <3> QED BY <1>5, <1>8, <2>3, <3>1 DEF CheckDone, Check
  <2> QED BY <1>8, <2>1, <2>2, <2>3 DEF CheckDone, Check
<1>9. CASE CheckGpu
  <2> USE <1>9 DEF CheckGpu, Check
  <2>1. pc = "check_gpu" /\ UNCHANGED seen
    OBVIOUS
  <2>2. CASE Raise("gpu", st, "check_beat")
    BY <1>0, <1>4, <2>1, <2>2
  <2>3. ASSUME NEW s \in {st, [st EXCEPT !.idle = 0],
                          [st EXCEPT !.idle = Absent, !.alerts["gpu"] = Absent]}
        PROVE  /\ s \in Memory /\ s.done = st.done
               /\ s.alerts["tunnel"] = st.alerts["tunnel"]
               /\ s.alerts["orch"] = st.alerts["orch"]
    <3>1. CASE s \in {st, [st EXCEPT !.idle = 0]}
      BY <1>0, <3>1, AgeZero DEF Memory
    <3>2. CASE s = [st EXCEPT !.idle = Absent, !.alerts["gpu"] = Absent]
      BY <1>0, <3>2, AgeZero DEF Memory
    <3> QED BY <3>1, <3>2
  <2> QED BY <1>5, <2>1, <2>2, <2>3
<1>10. CASE CheckBeat
  <2>1. CASE Send("beat", "good", st, [st EXCEPT !.beat = 0], "save")
             /\ pc = "check_beat"
    <3>1. told' = told /\ (faults' = faults \/ faults' = faults + 1)
          /\ pc' \in {"save", "cut short"}
          /\ st'.alerts = st.alerts /\ st'.done = st.done
      <4>1. st' \in {st, [st EXCEPT !.beat = 0]}
            /\ (faults' = faults \/ faults' = faults + 1) /\ pc' \in {"save", "cut short"}
        BY <2>1 DEF Send
      <4>2. told' = told
        BY <1>0, <2>1 DEF Send, Arrives
      <4>3. ASSUME NEW s \in {st, [st EXCEPT !.beat = 0]}
            PROVE  s.alerts = st.alerts /\ s.done = st.done
        BY <1>0 DEF Memory
      <4> QED BY <4>1, <4>2, <4>3
    <3>a. faults' = faults \/ faults' = faults + 1
      BY <3>1
    <3>2. faults' \in Nat /\ faults' >= faults
      BY <1>f, <3>a
    <3>p. pc # "off" /\ pc' # "off"
      BY <2>1, <3>1
    <3>3. ASSUME NEW k \in {"tunnel", "orch"} PROVE EchoOf(k)'
      <4>1. told[k] \in Nat /\ EchoOf(k)
        BY <1>0, <1>t
      <4>2. told'[k] = told[k] /\ st'.alerts[k] = st.alerts[k]
        BY <3>1
      <4> QED BY <1>f, <3>2, <3>p, <4>1, <4>2 DEF EchoOf
    <3>4. EchoOfDone'
      <4>1. EchoOfDone /\ told["done"] \in Nat /\ told'["done"] = told["done"]
            /\ st'.done = st.done
        BY <1>0, <1>t, <3>1
      <4> QED BY <1>f, <3>2, <3>p, <4>1 DEF EchoOfDone
    <3> QED BY <1>0, <3>1, <3>3, <3>4 DEF EchoInv
  <2> QED BY <1>0, <1>5, <1>10, <2>1 DEF CheckBeat, Check
<1>11. CASE Save
  BY <1>0, <1>11 DEF Save, hist, EchoInv, EchoOf, EchoOfDone
<1>12. CASE Dies
  BY <1>0, <1>12 DEF Dies, EchoInv, EchoOf, EchoOfDone
<1>13. CASE (\E d \in 1 .. MaxStep : Sleep(d)) \/ Returns
  <2>1. PICK d \in 1 .. MaxStep : Sleep(d) \/ Relaunch(d)
    BY <1>13 DEF Returns
  <2>a. d \in Nat
    BY BoundsAssumption
  <2>2. d \in Nat /\ UNCHANGED <<told, faults>> /\ pc' = "rows"
    BY <2>1, <2>a DEF Sleep, Relaunch, TimePasses
  <2>3. CASE Sleep(d)
    <3>1. pc # "off" /\ st' = Aged(st, d)
      BY <2>3 DEF Sleep
    <3>2. st'.done = st.done
          /\ \A k \in Keys : st'.alerts[k] = Absent <=> st.alerts[k] = Absent
      <4>1. \A k \in Keys : st.alerts[k] \in Ages
        BY <1>0 DEF Memory
      <4>2. \A k \in Keys : Older(st.alerts[k], d) = Absent <=> st.alerts[k] = Absent
        BY <2>2, <4>1, OlderLemma
      <4>3. Aged(st, d).done = st.done
            /\ \A k \in Keys : Aged(st, d).alerts[k] = Older(st.alerts[k], d)
        BY <1>0, <2>2, AgedLemma
      <4> QED BY <3>1, <4>2, <4>3
    <3> QED BY <1>0, <2>2, <3>1, <3>2 DEF EchoInv, EchoOf, EchoOfDone
  <2>4. CASE Relaunch(d)
    BY <1>0, <2>2, <2>4 DEF Relaunch, EchoInv, EchoOf, EchoOfDone
  <2> QED BY <2>1, <2>3, <2>4
<1> QED BY <1>1, <1>2, <1>3, <1>6, <1>7, <1>8, <1>9, <1>10, <1>11, <1>12, <1>13
        DEF Next, Pass

LEMMA EchoInit == Init => EchoInv
BY DEF Init, EchoInv, EchoOf, EchoOfDone, Fresh, Reading, BeforeDone

\* No outage is answered twice, no completion announced twice, but for faults.
THEOREM NewsIsToldOnce == Spec => []NoEcho
BY TypeInit, TypeStep, EchoInit, EchoStep, EchoImplies, PTL DEF Spec

-----------------------------------------------------------------------------
(* AlarmsAreSpaced.  What the memory (or, while there is no monitor, the   *)
(* file) says of an alert is its true age, as long as nothing ended it.    *)
SpacedInv ==
  /\ \A k \in Keys : since[k] # Absent =>
       IF pc = "off" THEN saved.alerts[k] = since[k] ELSE st.alerts[k] = since[k]
  /\ pc \in {"gpu", "check_tunnel"} /\ seen.tunnel => since["tunnel"] = Absent
  /\ pc \in {"tunnel", "gpu", "check_tunnel", "check_orch"} /\ seen.orch = "alive"
       => since["orch"] = Absent
  /\ pc \in {"check_tunnel", "check_orch", "check_done", "check_gpu"} /\ ~ Stalled(seen)
       => since["gpu"] = Absent

SpacedStep == \A k \in Keys : Alarm(k) => Due(since[k], ReAlert)
Recorded == \A k \in Keys : since[k] # Absent => st.alerts[k] = since[k]

LEMMA PingIsNone ==
  ASSUME ping' = NoPing \/ (\E k \in Subjects : ping' = <<k, "good">>)
  PROVE  \A k \in Keys : ~ Alarm(k)
BY DEF NoPing, Alarm

LEMMA QuietSpaced ==
  ASSUME NEW s, NEW next, Quiet(s, next),
         \A k \in Keys : since[k] # Absent => s.alerts[k] = since[k]
  PROVE  Recorded' /\ SpacedStep /\ since' = since /\ pc' = next
BY PingIsNone DEF Quiet, Recorded, SpacedStep

LEMMA RaiseSpaced ==
  ASSUME TypeOK, Recorded, NEW k \in Keys, NEW next, Raise(k, st, next)
  PROVE  /\ Recorded' /\ SpacedStep /\ pc' \in {next, "cut short"}
         /\ \A j \in Keys : j # k => since'[j] = since[j]
<1>0. st \in Memory /\ since \in [Keys -> Ages]
  BY DEF TypeOK
<1>1. CASE Send(k, "bad", st, [st EXCEPT !.alerts[k] = 0], next) /\ Due(st.alerts[k], ReAlert)
  <2>1. SpacedStep
    <3>1. ping' = <<k, "bad">>
      BY <1>1 DEF Send
    <3> QED BY <1>1, <3>1 DEF SpacedStep, Alarm, Recorded, Due
  <2>2. CASE st' = [st EXCEPT !.alerts[k] = 0] /\ pc' = next /\ since' = [since EXCEPT ![k] = 0]
    BY <1>0, <2>1, <2>2 DEF Recorded, Memory
  <2>3. CASE st' = st /\ pc' = "cut short" /\ since' = [since EXCEPT ![k] = Absent]
    BY <1>0, <2>1, <2>3 DEF Recorded
  <2> QED BY <1>1, <2>2, <2>3 DEF Send
<1>2. CASE Quiet(st, next)
  BY <1>2, QuietSpaced DEF Recorded
<1> QED BY <1>1, <1>2 DEF Raise

LEMMA RecoverSpaced ==
  ASSUME TypeOK, Recorded, NEW k \in Keys, since[k] = Absent, NEW next,
         NEW s \in Memory, s.alerts = st.alerts, Recover(k, s, next)
  PROVE  Recorded' /\ SpacedStep /\ since' = since /\ pc' \in {next, "cut short"}
<1>1. CASE Quiet(s, next)
  BY <1>1, QuietSpaced DEF Recorded
<1>2. CASE Send(k, "good", [s EXCEPT !.alerts[k] = Absent],
                [s EXCEPT !.alerts[k] = Absent], next)
  <2>1. /\ since' = since /\ pc' \in {next, "cut short"} /\ ping' = <<k, "good">>
        /\ st' = [s EXCEPT !.alerts[k] = Absent]
    BY <1>2 DEF Send
  <2>2. \A j \in Keys : j # k => st'.alerts[j] = st.alerts[j]
    BY <2>1 DEF Memory
  <2>3. SpacedStep
    BY <2>1, PingIsNone DEF SpacedStep, Subjects
  <2> QED BY <2>1, <2>2, <2>3 DEF Recorded
<1> QED BY <1>1, <1>2 DEF Recover

LEMMA SpacedNext == TypeOK /\ SpacedInv /\ [Next]_vars
                    => SpacedInv' /\ (SpacedStep \/ UNCHANGED vars)
<1> SUFFICES ASSUME TypeOK, SpacedInv, [Next]_vars
             PROVE  SpacedInv' /\ (SpacedStep \/ UNCHANGED vars)
  OBVIOUS
<1>0. /\ st \in Memory /\ since \in [Keys -> Ages] /\ seen \in World
      /\ pc # "off" => Recorded
  BY DEF TypeOK, SpacedInv, Recorded
<1>q. ASSUME ping' = NoPing PROVE SpacedStep
  BY <1>q, PingIsNone DEF SpacedStep
<1>1. CASE UNCHANGED vars
  BY <1>1 DEF vars, hist, SpacedInv
<1>2. CASE Change
  BY <1>2, <1>q DEF Change, hist, SpacedInv
<1>3. CASE ReadRows
  <2>1. UNCHANGED <<st, saved, since>> /\ pc = "rows" /\ pc' = "orch" /\ ping' = NoPing
    BY <1>3 DEF ReadRows, Poll, hist
  <2> QED BY <1>q, <2>1 DEF SpacedInv
<1>4. ASSUME NEW k \in Keys, NEW fine \in BOOLEAN, Seen(k, fine), UNCHANGED <<st, saved>>,
             pc # "off", pc' # "off"
      PROVE  /\ \A j \in Keys : since'[j] # Absent => st'.alerts[j] = since'[j]
             /\ \A j \in Keys : since[j] = Absent => since'[j] = Absent
             /\ fine => since'[k] = Absent
  BY <1>0, <1>4 DEF Seen, Recorded
<1>5. CASE ReadOrch
  <2>1. /\ pc = "orch" /\ pc' = "tunnel" /\ ping' = NoPing /\ UNCHANGED <<st, saved>>
        /\ Seen("orch", world.orch = "alive") /\ seen'.orch = world.orch
    BY <1>0, <1>5 DEF ReadOrch, Poll, World
  <2> QED BY <1>4, <1>q, <2>1 DEF SpacedInv
<1>6. CASE ReadTunnel
  <2>1. /\ pc = "tunnel" /\ pc' = "gpu" /\ ping' = NoPing /\ UNCHANGED <<st, saved>>
        /\ Seen("tunnel", world.tunnel) /\ seen'.tunnel = world.tunnel
        /\ seen'.orch = seen.orch /\ world.tunnel \in BOOLEAN
    BY <1>0, <1>6 DEF ReadTunnel, Poll, World, TypeOK
  <2> QED BY <1>4, <1>q, <2>1 DEF SpacedInv
<1>7. CASE ReadGpu
  <2>1. /\ pc = "gpu" /\ pc' = "check_tunnel" /\ ping' = NoPing /\ UNCHANGED <<st, saved>>
        /\ Seen("gpu", ~ Stalled(seen)') /\ seen'.tunnel = seen.tunnel
        /\ seen'.orch = seen.orch
    BY <1>0, <1>7 DEF ReadGpu, Poll, World, Stalled, Running
  <2>2. (~ Stalled(seen)') \in BOOLEAN
    BY DEF Stalled
  <2> QED BY <1>4, <1>q, <2>1, <2>2 DEF SpacedInv
<1>8. CASE CheckTunnel
  <2>1. pc = "check_tunnel" /\ UNCHANGED <<seen, saved>>
    BY <1>8 DEF CheckTunnel, Check
  <2>2. /\ Recorded' /\ SpacedStep /\ pc' \in {"check_orch", "cut short"}
        /\ \A j \in Keys : j # "tunnel" => since'[j] = since[j]
    <3>1. CASE seen.tunnel
      <4>1. Recover("tunnel", [st EXCEPT !.down = Absent], "check_orch")
        BY <1>8, <3>1 DEF CheckTunnel
      <4>2. [st EXCEPT !.down = Absent] \in Memory /\ [st EXCEPT !.down = Absent].alerts = st.alerts
        BY <1>0 DEF Memory
      <4>3. since["tunnel"] = Absent
        BY <2>1, <3>1 DEF SpacedInv
      <4> QED BY <1>0, <2>1, <4>1, <4>2, <4>3, RecoverSpaced
    <3>2. CASE Raise("tunnel", st, "check_orch")
      BY <1>0, <2>1, <3>2, RaiseSpaced
    <3>3. ASSUME NEW s \in {st, [st EXCEPT !.down = 0]}, Quiet(s, "check_orch")
          PROVE  Recorded' /\ SpacedStep /\ pc' = "check_orch" /\ since' = since
      <4>1. s.alerts = st.alerts
        BY <1>0 DEF Memory
      <4> QED BY <1>0, <2>1, <3>3, <4>1, QuietSpaced DEF Recorded
    <3> QED BY <1>8, <3>1, <3>2, <3>3 DEF CheckTunnel
  <2> QED BY <2>1, <2>2 DEF SpacedInv, Recorded
<1>9. CASE CheckOrch
  <2>1. pc = "check_orch" /\ UNCHANGED <<seen, saved>>
    BY <1>9 DEF CheckOrch, Check
  <2>2. /\ Recorded' /\ SpacedStep /\ pc' \in {"check_done", "cut short"}
        /\ \A j \in Keys : j # "orch" => since'[j] = since[j]
    <3>1. CASE seen.orch = "alive" /\ Recover("orch", st, "check_done")
      <4>1. since["orch"] = Absent
        BY <2>1, <3>1 DEF SpacedInv
      <4> QED BY <1>0, <2>1, <3>1, <4>1, RecoverSpaced
    <3>2. CASE Raise("orch", st, "check_done")
      BY <1>0, <2>1, <3>2, RaiseSpaced
    <3>3. CASE Quiet(st, "check_done")
      BY <1>0, <2>1, <3>3, QuietSpaced DEF Recorded
    <3> QED BY <1>9, <3>1, <3>2, <3>3 DEF CheckOrch
  <2> QED BY <2>1, <2>2 DEF SpacedInv, Recorded
<1>10. CASE CheckDone
  <2>1. pc = "check_done" /\ UNCHANGED <<seen, saved>>
    BY <1>10 DEF CheckDone, Check
  <2>2. Recorded' /\ SpacedStep /\ pc' \in {"check_gpu", "cut short"} /\ since' = since
    <3>1. ASSUME NEW s \in {st, [st EXCEPT !.done = TRUE], [st EXCEPT !.done = FALSE]}
          PROVE  s.alerts = st.alerts
      BY <1>0 DEF Memory
    <3>2. CASE Send("done", "good", st, [st EXCEPT !.done = TRUE], "check_gpu")
      <4>1. /\ since' = since /\ pc' \in {"check_gpu", "cut short"} /\ ping' = <<"done", "good">>
            /\ st' \in {st, [st EXCEPT !.done = TRUE]}
        BY <3>2 DEF Send
      <4> QED BY <1>0, <2>1, <3>1, <4>1, PingIsNone DEF Recorded, SpacedStep, Subjects
    <3>3. ASSUME NEW s \in {st, [st EXCEPT !.done = FALSE]}, Quiet(s, "check_gpu")
          PROVE  Recorded' /\ SpacedStep /\ pc' = "check_gpu" /\ since' = since
      BY <1>0, <2>1, <3>1, <3>3, QuietSpaced DEF Recorded
    <3> QED BY <1>10, <3>2, <3>3 DEF CheckDone
  <2> QED BY <2>1, <2>2 DEF SpacedInv, Recorded
<1>11. CASE CheckGpu
  <2>1. pc = "check_gpu" /\ UNCHANGED <<seen, saved>>
    BY <1>11 DEF CheckGpu, Check
  <2>2. Recorded' /\ SpacedStep /\ pc' \in {"check_beat", "cut short"}
    <3>1. CASE Raise("gpu", st, "check_beat")
      BY <1>0, <2>1, <3>1, RaiseSpaced
    <3>2. ASSUME NEW s \in {st, [st EXCEPT !.idle = 0]}, Quiet(s, "check_beat")
          PROVE  Recorded' /\ SpacedStep /\ pc' = "check_beat"
      <4>1. s.alerts = st.alerts
        BY <1>0 DEF Memory
      <4> QED BY <1>0, <2>1, <3>2, <4>1, QuietSpaced DEF Recorded
    <3>3. CASE /\ ~ Stalled(seen)
               /\ Quiet([st EXCEPT !.idle = Absent, !.alerts["gpu"] = Absent], "check_beat")
      <4>1. since["gpu"] = Absent
        BY <2>1, <3>3 DEF SpacedInv
      <4>2. \A j \in Keys : j # "gpu" =>
              [st EXCEPT !.idle = Absent, !.alerts["gpu"] = Absent].alerts[j] = st.alerts[j]
        BY <1>0 DEF Memory
      <4> QED BY <1>0, <2>1, <3>3, <4>1, <4>2, QuietSpaced DEF Recorded
    <3> QED BY <1>11, <3>1, <3>2, <3>3 DEF CheckGpu
  <2> QED BY <2>1, <2>2 DEF SpacedInv, Recorded
<1>12. CASE CheckBeat
  <2>1. pc = "check_beat" /\ UNCHANGED <<seen, saved>>
    BY <1>12 DEF CheckBeat, Check
  <2>2. Recorded' /\ SpacedStep /\ pc' \in {"save", "cut short"}
    <3>1. CASE Send("beat", "good", st, [st EXCEPT !.beat = 0], "save")
      <4>1. /\ since' = since /\ pc' \in {"save", "cut short"} /\ ping' = <<"beat", "good">>
            /\ st' \in {st, [st EXCEPT !.beat = 0]}
        BY <3>1 DEF Send
      <4>2. st'.alerts = st.alerts
        BY <1>0, <4>1 DEF Memory
      <4> QED BY <1>0, <2>1, <4>1, <4>2, PingIsNone DEF Recorded, SpacedStep, Subjects
    <3>2. CASE Quiet(st, "save")
      BY <1>0, <2>1, <3>2, QuietSpaced DEF Recorded
    <3> QED BY <1>12, <3>1, <3>2 DEF CheckBeat
  <2> QED BY <2>1, <2>2 DEF SpacedInv, Recorded
<1>13. CASE Save
  BY <1>13, <1>q DEF Save, hist, SpacedInv
<1>14. CASE Dies
  <2>1. /\ pc # "off" /\ pc' = "off" /\ ping' = NoPing /\ UNCHANGED saved
        /\ since' = IF st = saved THEN since ELSE [k \in Keys |-> Absent]
    BY <1>14 DEF Dies
  <2> QED BY <1>0, <1>q, <2>1 DEF SpacedInv, Recorded
<1>15. CASE (\E d \in 1 .. MaxStep : Sleep(d)) \/ Returns
  <2>1. PICK d \in 1 .. MaxStep : Sleep(d) \/ Relaunch(d)
    BY <1>15 DEF Returns
  <2>2. d \in Nat
    BY BoundsAssumption
  <2>3. /\ since' = OlderEach(since, d) /\ pc' = "rows" /\ ping' = NoPing
    BY <2>1 DEF Sleep, Relaunch, TimePasses
  <2>4. \A k \in Keys : since'[k] = Older(since[k], d) /\ (since'[k] # Absent => since[k] # Absent)
    BY <1>0, <2>2, <2>3, OlderLemma DEF OlderEach
  <2>5. CASE Sleep(d)
    <3>1. \A k \in Keys : st'.alerts[k] = Older(st.alerts[k], d)
      BY <1>0, <2>2, <2>5, AgedLemma DEF Sleep
    <3>2. pc # "off"
      BY <2>5 DEF Sleep
    <3> QED BY <1>0, <1>q, <2>3, <2>4, <3>1, <3>2 DEF SpacedInv, Recorded
  <2>6. CASE Relaunch(d)
    <3>1. saved \in Memory
      BY DEF TypeOK
    <3>2. \A k \in Keys : st'.alerts[k] = Older(saved.alerts[k], d)
      BY <2>2, <2>6, <3>1, AgedLemma DEF Relaunch
    <3>3. pc = "off"
      BY <2>6 DEF Relaunch
    <3> QED BY <1>q, <2>3, <2>4, <3>2, <3>3 DEF SpacedInv
  <2> QED BY <2>1, <2>5, <2>6
<1> QED BY <1>1, <1>2, <1>3, <1>5, <1>6, <1>7, <1>8, <1>9, <1>10, <1>11, <1>12, <1>13,
           <1>14, <1>15 DEF Next, Pass

LEMMA SpacedInit == Init => SpacedInv
BY DEF Init, SpacedInv

\* Alarms about one incident stay REALERT_SEC apart, deaths notwithstanding.
THEOREM AlarmsStaySpaced == Spec => AlarmsAreSpaced
<1>1. TypeOK /\ SpacedInv /\ [Next]_vars => [\A k \in Keys : Alarm(k) => Due(since[k], ReAlert)]_vars
  BY SpacedNext DEF SpacedStep
<1> QED BY <1>1, TypeInit, TypeStep, SpacedInit, SpacedNext, PTL DEF Spec, AlarmsAreSpaced

-----------------------------------------------------------------------------
(* AlarmIsSustained.  What the memory says of the start of an outage (a     *)
(* stall) is no older than the run of bad readings, or than the first pass  *)
(* since the monitor was disturbed.                                        *)
Covered(d, b) == d # Absent => b >= Lesser(d, calm)

DownInv ==
  /\ pc \in {"rows", "orch", "tunnel"} => calm = 0 \/ Covered(st.down, bad["tunnel"])
  /\ pc \in {"gpu", "check_tunnel"} /\ ~ seen.tunnel =>
       bad["tunnel"] # Absent /\ Covered(st.down, bad["tunnel"])
  /\ pc \in {"check_orch", "check_done", "check_gpu", "check_beat", "save", "asleep"} =>
       Covered(st.down, bad["tunnel"])

IdleInv ==
  /\ pc \in {"rows", "orch", "tunnel", "gpu"} => calm = 0 \/ Covered(st.idle, bad["gpu"])
  /\ pc \in {"check_tunnel", "check_orch", "check_done", "check_gpu"} /\ Stalled(seen) =>
       bad["gpu"] # Absent /\ Covered(st.idle, bad["gpu"])
  /\ pc \in {"check_beat", "save", "asleep"} => Covered(st.idle, bad["gpu"])

TunnelSustained == Alarm("tunnel") => bad["tunnel"] >= Lesser(Grace, calm)
StallSustained == Alarm("gpu") => bad["gpu"] >= Lesser(GpuIdle, calm)
Silent == ~ Alarm("tunnel") /\ ~ Alarm("gpu")

LEMMA CoveredAges ==
  ASSUME NEW a \in Ages, NEW b \in Ages, NEW c \in 0 .. MaxAge, NEW d \in Nat,
         a # Absent => b >= Lesser(a, c)
  PROVE  Older(a, d) # Absent => Older(b, d) >= Lesser(Older(a, d), Older(c, d))
BY AgesAssumption DEF Older, Lesser

LEMMA AgesKnown ==
  ASSUME TypeOK
  PROVE  /\ st \in Memory /\ saved \in Memory /\ st.down \in Ages /\ st.idle \in Ages
         /\ bad \in [{"tunnel", "gpu"} -> Ages] /\ bad["tunnel"] \in Ages /\ bad["gpu"] \in Ages
         /\ calm \in 0 .. MaxAge /\ seen \in World /\ seen.tunnel \in BOOLEAN
<1>1. /\ st \in Memory /\ saved \in Memory /\ bad \in [{"tunnel", "gpu"} -> Ages]
      /\ calm \in 0 .. MaxAge /\ seen \in World
  BY DEF TypeOK
<1>2. st.down \in Ages /\ st.idle \in Ages
  BY <1>1 DEF Memory
<1>3. seen.tunnel \in BOOLEAN
  BY <1>1 DEF World
<1> QED BY <1>1, <1>2, <1>3

LEMMA QuietKeeps ==
  ASSUME NEW s, NEW next, Quiet(s, next)
  PROVE  st' = s /\ pc' = next /\ Silent
BY DEF Quiet, NoPing, Silent, Alarm

LEMMA RaiseKeeps ==
  ASSUME NEW k \in Keys, NEW next, st \in Memory, Raise(k, st, next)
  PROVE  /\ st'.down = st.down /\ st'.idle = st.idle /\ pc' \in {next, "cut short"}
         /\ k # "tunnel" => ~ Alarm("tunnel")
         /\ k # "gpu" => ~ Alarm("gpu")
<1>1. CASE Send(k, "bad", st, [st EXCEPT !.alerts[k] = 0], next)
  <2>1. st' \in {st, [st EXCEPT !.alerts[k] = 0]} /\ pc' \in {next, "cut short"} /\ ping' = <<k, "bad">>
    BY <1>1 DEF Send
  <2> QED BY <2>1 DEF Memory, Alarm
<1>2. CASE Quiet(st, next)
  BY <1>2, QuietKeeps DEF Silent
<1> QED BY <1>1, <1>2 DEF Raise

LEMMA RecoverKeeps ==
  ASSUME NEW k \in Keys, NEW next, NEW s \in Memory, Recover(k, s, next)
  PROVE  st'.down = s.down /\ st'.idle = s.idle /\ pc' \in {next, "cut short"} /\ Silent
<1> DEFINE cleared == [s EXCEPT !.alerts[k] = Absent]
<1>1. CASE Send(k, "good", cleared, cleared, next)
  <2>1. st' = cleared /\ pc' \in {next, "cut short"} /\ ping' = <<k, "good">>
    BY <1>1 DEF Send
  <2> QED BY <2>1 DEF Memory, Alarm, Silent
<1>2. CASE Quiet(s, next)
  BY <1>2, QuietKeeps
<1> QED BY <1>1, <1>2 DEF Recover

LEMMA OtherChecks ==
  ASSUME TypeOK, CheckOrch \/ CheckDone \/ CheckBeat
  PROVE  /\ st'.down = st.down /\ st'.idle = st.idle /\ Silent /\ UNCHANGED <<seen, bad, calm>>
         /\ \/ pc = "check_orch" /\ pc' \in {"check_done", "cut short"}
            \/ pc = "check_done" /\ pc' \in {"check_gpu", "cut short"}
            \/ pc = "check_beat" /\ pc' \in {"save", "cut short"}
<1>0. st \in Memory
  BY DEF TypeOK
<1>1. CASE CheckOrch
  <2>1. pc = "check_orch" /\ UNCHANGED <<seen, bad, calm>>
    BY <1>1 DEF CheckOrch, Check
  <2>2. \/ Raise("orch", st, "check_done") \/ Recover("orch", st, "check_done")
        \/ Quiet(st, "check_done")
    BY <1>1 DEF CheckOrch
  <2>3. st'.down = st.down /\ st'.idle = st.idle /\ Silent /\ pc' \in {"check_done", "cut short"}
    <3>1. CASE Raise("orch", st, "check_done")
      BY <1>0, <3>1, RaiseKeeps DEF Silent
    <3>2. CASE Recover("orch", st, "check_done")
      BY <1>0, <3>2, RecoverKeeps
    <3>3. CASE Quiet(st, "check_done")
      BY <3>3, QuietKeeps
    <3> QED BY <2>2, <3>1, <3>2, <3>3
  <2> QED BY <2>1, <2>3
<1>2. CASE CheckDone
  <2>1. pc = "check_done" /\ UNCHANGED <<seen, bad, calm>>
    BY <1>2 DEF CheckDone, Check
  <2>2. st'.down = st.down /\ st'.idle = st.idle /\ Silent /\ pc' \in {"check_gpu", "cut short"}
    <3>0. ASSUME NEW b \in BOOLEAN
          PROVE  [st EXCEPT !.done = b].down = st.down /\ [st EXCEPT !.done = b].idle = st.idle
      BY <1>0 DEF Memory
    <3>1. CASE Send("done", "good", st, [st EXCEPT !.done = TRUE], "check_gpu")
      <4>1. /\ st' \in {st, [st EXCEPT !.done = TRUE]} /\ pc' \in {"check_gpu", "cut short"}
            /\ ping' = <<"done", "good">>
        BY <3>1 DEF Send
      <4> QED BY <3>0, <4>1 DEF Alarm, Silent
    <3>2. ASSUME NEW t \in {st, [st EXCEPT !.done = FALSE]}, Quiet(t, "check_gpu")
          PROVE  st'.down = st.down /\ st'.idle = st.idle /\ Silent /\ pc' = "check_gpu"
      BY <3>0, <3>2, QuietKeeps
    <3> QED BY <1>2, <3>1, <3>2 DEF CheckDone
  <2> QED BY <2>1, <2>2
<1>3. CASE CheckBeat
  <2>1. pc = "check_beat" /\ UNCHANGED <<seen, bad, calm>>
    BY <1>3 DEF CheckBeat, Check
  <2>2. st'.down = st.down /\ st'.idle = st.idle /\ Silent /\ pc' \in {"save", "cut short"}
    <3>1. CASE Send("beat", "good", st, [st EXCEPT !.beat = 0], "save")
      <4>1. /\ st' \in {st, [st EXCEPT !.beat = 0]} /\ pc' \in {"save", "cut short"}
            /\ ping' = <<"beat", "good">>
        BY <3>1 DEF Send
      <4> QED BY <1>0, <4>1 DEF Alarm, Silent, Memory
    <3>2. CASE Quiet(st, "save")
      BY <3>2, QuietKeeps
    <3> QED BY <1>3, <3>1, <3>2 DEF CheckBeat
  <2> QED BY <2>1, <2>2
<1> QED BY <1>1, <1>2, <1>3

LEMMA TunnelCheck ==
  ASSUME TypeOK, DownInv, CheckTunnel
  PROVE  /\ pc = "check_tunnel" /\ pc' \in {"check_orch", "cut short"}
         /\ UNCHANGED <<seen, bad, calm>> /\ st'.idle = st.idle
         /\ Covered(st.down, bad["tunnel"])' /\ TunnelSustained /\ ~ Alarm("gpu")
<1>0. /\ st \in Memory /\ st.down \in Ages /\ bad["tunnel"] \in Ages /\ calm \in 0 .. MaxAge
      /\ seen.tunnel \in BOOLEAN /\ Grace \in Nat
  BY AgesKnown, AgesAssumption
<1>1. pc = "check_tunnel" /\ UNCHANGED <<seen, bad, calm>>
  BY DEF CheckTunnel, Check
<1>2. ~ seen.tunnel => bad["tunnel"] # Absent /\ Covered(st.down, bad["tunnel"])
  BY <1>1 DEF DownInv
<1>3. CASE seen.tunnel
  <2> DEFINE t == [st EXCEPT !.down = Absent]
  <2>1. Recover("tunnel", t, "check_orch")
    BY <1>3 DEF CheckTunnel
  <2>2. t \in Memory /\ t.down = Absent /\ t.idle = st.idle
    BY <1>0, AgeZero DEF Memory
  <2> HIDE DEF t
  <2>3. st'.down = Absent /\ st'.idle = st.idle /\ pc' \in {"check_orch", "cut short"} /\ Silent
    BY <2>1, <2>2, RecoverKeeps
  <2> QED BY <1>1, <2>3 DEF Covered, Silent, TunnelSustained
<1>4. CASE ~ seen.tunnel /\ Quiet([st EXCEPT !.down = 0], "check_orch")
  <2>1. st' = [st EXCEPT !.down = 0] /\ pc' = "check_orch" /\ Silent
    BY <1>4, QuietKeeps
  <2>2. st'.down = 0 /\ st'.idle = st.idle
    BY <1>0, <2>1 DEF Memory
  <2>3. Covered(st.down, bad["tunnel"])'
    BY <1>0, <1>1, <1>2, <1>4, <2>2 DEF Covered, Lesser
  <2> QED BY <1>1, <2>1, <2>2, <2>3 DEF Silent, TunnelSustained
<1>5. CASE ~ seen.tunnel /\ Quiet(st, "check_orch")
  <2>1. st' = st /\ pc' = "check_orch" /\ Silent
    BY <1>5, QuietKeeps
  <2> QED BY <1>1, <1>2, <1>5, <2>1 DEF Covered, Silent, TunnelSustained
<1>6. CASE ~ seen.tunnel /\ st.down >= Grace /\ Raise("tunnel", st, "check_orch")
  <2>1. /\ st'.down = st.down /\ st'.idle = st.idle /\ pc' \in {"check_orch", "cut short"}
        /\ ~ Alarm("gpu")
    BY <1>0, <1>6, RaiseKeeps
  <2>2. bad["tunnel"] >= Lesser(Grace, calm)
    BY <1>0, <1>2, <1>6 DEF Covered, Lesser
  <2> QED BY <1>1, <1>2, <1>6, <2>1, <2>2 DEF Covered, TunnelSustained
<1> QED BY <1>3, <1>4, <1>5, <1>6 DEF CheckTunnel

LEMMA GpuCheck ==
  ASSUME TypeOK, IdleInv, CheckGpu
  PROVE  /\ pc = "check_gpu" /\ pc' \in {"check_beat", "cut short"}
         /\ UNCHANGED <<seen, bad, calm>> /\ st'.down = st.down
         /\ Covered(st.idle, bad["gpu"])' /\ StallSustained /\ ~ Alarm("tunnel")
<1>0. /\ st \in Memory /\ st.idle \in Ages /\ bad["gpu"] \in Ages /\ calm \in 0 .. MaxAge
      /\ GpuIdle \in Nat
  BY AgesKnown, AgesAssumption
<1>1. pc = "check_gpu" /\ UNCHANGED <<seen, bad, calm>>
  BY DEF CheckGpu, Check
<1>2. Stalled(seen) => bad["gpu"] # Absent /\ Covered(st.idle, bad["gpu"])
  BY <1>1 DEF IdleInv
<1>3. CASE Quiet([st EXCEPT !.idle = Absent, !.alerts["gpu"] = Absent], "check_beat")
  <2>1. st' = [st EXCEPT !.idle = Absent, !.alerts["gpu"] = Absent] /\ pc' = "check_beat" /\ Silent
    BY <1>3, QuietKeeps
  <2>2. st'.idle = Absent /\ st'.down = st.down
    BY <1>0, <2>1 DEF Memory
  <2> QED BY <1>1, <2>1, <2>2 DEF Covered, Silent, StallSustained
<1>4. CASE Stalled(seen) /\ Quiet([st EXCEPT !.idle = 0], "check_beat")
  <2>1. st' = [st EXCEPT !.idle = 0] /\ pc' = "check_beat" /\ Silent
    BY <1>4, QuietKeeps
  <2>2. st'.idle = 0 /\ st'.down = st.down
    BY <1>0, <2>1 DEF Memory
  <2>3. Covered(st.idle, bad["gpu"])'
    BY <1>0, <1>1, <1>2, <1>4, <2>2 DEF Covered, Lesser
  <2> QED BY <1>1, <2>1, <2>2, <2>3 DEF Silent, StallSustained
<1>5. CASE (Stalled(seen) \/ st.idle = Absent) /\ Quiet(st, "check_beat")
  <2>1. st' = st /\ pc' = "check_beat" /\ Silent
    BY <1>5, QuietKeeps
  <2> QED BY <1>1, <1>2, <1>5, <2>1 DEF Covered, Silent, StallSustained
<1>6. CASE Stalled(seen) /\ st.idle >= GpuIdle /\ Raise("gpu", st, "check_beat")
  <2>1. /\ st'.down = st.down /\ st'.idle = st.idle /\ pc' \in {"check_beat", "cut short"}
        /\ ~ Alarm("tunnel")
    BY <1>0, <1>6, RaiseKeeps
  <2>2. bad["gpu"] >= Lesser(GpuIdle, calm)
    BY <1>0, <1>2, <1>6 DEF Covered, Lesser
  <2> QED BY <1>1, <1>2, <1>6, <2>1, <2>2 DEF Covered, StallSustained
<1> QED BY <1>3, <1>4, <1>5, <1>6 DEF CheckGpu

LEMMA SustainedNext ==
  TypeOK /\ DownInv /\ IdleInv /\ [Next]_vars
    => DownInv' /\ IdleInv' /\ ((TunnelSustained /\ StallSustained) \/ UNCHANGED vars)
<1> SUFFICES ASSUME TypeOK, DownInv, IdleInv, [Next]_vars
             PROVE  DownInv' /\ IdleInv' /\ ((TunnelSustained /\ StallSustained) \/ UNCHANGED vars)
  OBVIOUS
<1>0. /\ st \in Memory /\ saved \in Memory /\ st.down \in Ages /\ st.idle \in Ages
      /\ bad \in [{"tunnel", "gpu"} -> Ages] /\ calm \in 0 .. MaxAge /\ seen \in World
      /\ 0 \in Ages
  BY AgesKnown, AgeZero
<1>q. Silent => TunnelSustained /\ StallSustained
  BY DEF Silent, TunnelSustained, StallSustained
<1>n. ping' = NoPing => Silent
  BY DEF NoPing, Silent, Alarm
<1>1. CASE UNCHANGED vars
  BY <1>1 DEF vars, hist, DownInv, IdleInv, Covered
<1>2. CASE Change
  <2>1. UNCHANGED <<pc, st, seen, bad, calm>> /\ ping' = NoPing
    BY <1>2 DEF Change, hist
  <2> QED BY <1>q, <1>n, <2>1 DEF DownInv, IdleInv, Covered
<1>3. CASE ReadRows
  <2>1. pc = "rows" /\ pc' = "orch" /\ UNCHANGED <<st, bad, calm>> /\ ping' = NoPing
    BY <1>3 DEF ReadRows, Poll, hist
  <2> QED BY <1>q, <1>n, <2>1 DEF DownInv, IdleInv, Covered
<1>4. CASE ReadOrch
  <2>1. pc = "orch" /\ pc' = "tunnel" /\ UNCHANGED <<st, bad, calm>> /\ ping' = NoPing
    BY <1>0, <1>4 DEF ReadOrch, Poll, Seen
  <2> QED BY <1>q, <1>n, <2>1 DEF DownInv, IdleInv, Covered
<1>5. CASE ReadTunnel
  <2>1. /\ pc = "tunnel" /\ pc' = "gpu" /\ UNCHANGED <<st, calm>> /\ ping' = NoPing
        /\ seen'.tunnel = world.tunnel
        /\ bad' = [bad EXCEPT !["tunnel"] =
                     IF world.tunnel THEN Absent ELSE IF @ = Absent THEN 0 ELSE @]
    BY <1>0, <1>5 DEF ReadTunnel, Poll, Seen, World
  <2>2. bad'["gpu"] = bad["gpu"]
    BY <1>0, <2>1
  <2>3. ~ world.tunnel => bad'["tunnel"] = IF bad["tunnel"] = Absent THEN 0 ELSE bad["tunnel"]
    BY <1>0, <2>1
  <2>4. calm = 0 \/ Covered(st.down, bad["tunnel"])
    BY <2>1 DEF DownInv
  <2>5. ~ seen'.tunnel => bad'["tunnel"] # Absent /\ Covered(st.down, bad["tunnel"])'
    BY <1>0, <2>1, <2>3, <2>4 DEF Covered, Lesser
  <2> QED BY <1>q, <1>n, <2>1, <2>2, <2>5 DEF DownInv, IdleInv, Covered
<1>6. CASE ReadGpu
  <2>1. /\ pc = "gpu" /\ pc' = "check_tunnel" /\ UNCHANGED <<st, calm>> /\ ping' = NoPing
        /\ seen'.tunnel = seen.tunnel
        /\ bad' = [bad EXCEPT !["gpu"] =
                     IF ~ Stalled(seen') THEN Absent ELSE IF @ = Absent THEN 0 ELSE @]
    BY <1>0, <1>6 DEF ReadGpu, Poll, Seen, World
  <2>2. bad'["tunnel"] = bad["tunnel"]
    BY <1>0, <2>1
  <2>3. Stalled(seen') => bad'["gpu"] = IF bad["gpu"] = Absent THEN 0 ELSE bad["gpu"]
    BY <1>0, <2>1
  <2>4. calm = 0 \/ Covered(st.idle, bad["gpu"])
    BY <2>1 DEF IdleInv
  <2>5. Stalled(seen') => bad'["gpu"] # Absent /\ Covered(st.idle, bad["gpu"])'
    BY <1>0, <2>1, <2>3, <2>4 DEF Covered, Lesser
  <2>6. DownInv'
    BY <2>1, <2>2 DEF DownInv, Covered
  <2>7. IdleInv'
    BY <2>1, <2>5 DEF IdleInv, Covered, Stalled, Running
  <2> QED BY <1>q, <1>n, <2>1, <2>6, <2>7
<1>7. CASE CheckTunnel
  <2>1. /\ pc = "check_tunnel" /\ pc' \in {"check_orch", "cut short"}
        /\ UNCHANGED <<seen, bad, calm>> /\ st'.idle = st.idle
        /\ Covered(st.down, bad["tunnel"])' /\ TunnelSustained /\ ~ Alarm("gpu")
    BY <1>7, TunnelCheck
  <2>2. IdleInv'
    BY <2>1 DEF IdleInv, Covered, Stalled, Running
  <2> QED BY <2>1, <2>2 DEF DownInv, StallSustained
<1>8. CASE CheckGpu
  <2>1. /\ pc = "check_gpu" /\ pc' \in {"check_beat", "cut short"}
        /\ UNCHANGED <<seen, bad, calm>> /\ st'.down = st.down
        /\ Covered(st.idle, bad["gpu"])' /\ StallSustained /\ ~ Alarm("tunnel")
    BY <1>8, GpuCheck
  <2>2. DownInv'
    BY <2>1 DEF DownInv, Covered
  <2> QED BY <2>1, <2>2 DEF IdleInv, TunnelSustained
<1>9. CASE CheckOrch \/ CheckDone \/ CheckBeat
  <2>1. /\ st'.down = st.down /\ st'.idle = st.idle /\ Silent /\ UNCHANGED <<seen, bad, calm>>
        /\ \/ pc = "check_orch" /\ pc' \in {"check_done", "cut short"}
           \/ pc = "check_done" /\ pc' \in {"check_gpu", "cut short"}
           \/ pc = "check_beat" /\ pc' \in {"save", "cut short"}
    BY <1>9, OtherChecks
  <2>2. IdleInv'
    BY <2>1 DEF IdleInv, Covered, Stalled, Running
  <2>3. DownInv'
    BY <2>1 DEF DownInv, Covered
  <2> QED BY <1>q, <2>1, <2>2, <2>3
<1>10. CASE Save
  <2>1. pc = "save" /\ pc' = "asleep" /\ UNCHANGED <<st, bad, calm>> /\ ping' = NoPing
    BY <1>10 DEF Save, hist
  <2> QED BY <1>q, <1>n, <2>1 DEF DownInv, IdleInv, Covered
<1>11. CASE Dies
  <2>1. pc' = "off" /\ ping' = NoPing
    BY <1>11 DEF Dies
  <2> QED BY <1>q, <1>n, <2>1 DEF DownInv, IdleInv
<1>12. CASE (\E d \in 1 .. MaxStep : Sleep(d)) \/ Returns
  <2>1. PICK d \in 1 .. MaxStep : Sleep(d) \/ Relaunch(d)
    BY <1>12 DEF Returns
  <2>2. d \in Nat
    BY BoundsAssumption
  <2>3. /\ pc' = "rows" /\ ping' = NoPing /\ bad' = OlderEach(bad, d)
        /\ calm' = IF pc = "asleep" THEN Older(calm, d) ELSE 0
    BY <2>1 DEF Sleep, Relaunch, TimePasses
  <2>4. CASE pc = "asleep"
    <3>1. st' = Aged(st, d)
      BY <2>1, <2>4 DEF Sleep, Relaunch
    <3>2. st'.down = Older(st.down, d) /\ st'.idle = Older(st.idle, d)
      BY <1>0, <2>2, <3>1, AgedLemma
    <3>3. bad'["tunnel"] = Older(bad["tunnel"], d) /\ bad'["gpu"] = Older(bad["gpu"], d)
      BY <1>0, <2>3 DEF OlderEach
    <3>4. Covered(st.down, bad["tunnel"]) /\ Covered(st.idle, bad["gpu"])
      BY <2>4 DEF DownInv, IdleInv
    <3>5. Covered(st.down, bad["tunnel"])' /\ Covered(st.idle, bad["gpu"])'
      <4>1. bad["tunnel"] \in Ages /\ bad["gpu"] \in Ages
        BY <1>0
      <4> QED BY <1>0, <2>2, <2>3, <2>4, <3>2, <3>3, <3>4, <4>1, CoveredAges DEF Covered
    <3> QED BY <1>q, <1>n, <2>3, <3>5 DEF DownInv, IdleInv
  <2>5. CASE pc # "asleep"
    BY <1>q, <1>n, <2>3, <2>5 DEF DownInv, IdleInv
  <2> QED BY <2>4, <2>5
<1> QED BY <1>1, <1>2, <1>3, <1>4, <1>5, <1>6, <1>7, <1>8, <1>9, <1>10, <1>11, <1>12 DEF Next, Pass

(* An alarm comes only after a whole grace period of bad readings, or of    *)
(* calm since the last death or pass cut short.                            *)
THEOREM AlarmsAreSustained == Spec => AlarmIsSustained
<1>1. Init => DownInv /\ IdleInv
  BY DEF Init, DownInv, IdleInv
<1>2. TypeOK /\ DownInv /\ IdleInv /\ [Next]_vars =>
        [/\ Alarm("tunnel") => bad["tunnel"] >= Lesser(Grace, calm)
         /\ Alarm("gpu") => bad["gpu"] >= Lesser(GpuIdle, calm)]_vars
  BY SustainedNext DEF TunnelSustained, StallSustained
<1>3. TypeOK /\ DownInv /\ IdleInv /\ [Next]_vars => (DownInv /\ IdleInv)'
  BY SustainedNext
<1> QED BY <1>1, <1>2, <1>3, TypeInit, TypeStep, PTL DEF Spec, AlarmIsSustained
=============================================================================
