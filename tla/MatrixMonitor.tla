---------------------------- MODULE MatrixMonitor ----------------------------
(***************************************************************************)
(* scripts/matrix_monitor.py: a loop that polls the rows, the pid file,    *)
(* the MLflow tunnel and the GPU one after the other, then goes through    *)
(* its five checks, pings Discord, and saves its memory at the end of the  *)
(* pass.  What it polls changes at any moment.  It may be killed between a *)
(* ping and the save, a ping or a save may fail, and it is started again   *)
(* with what it saved.  Time is kept as ages, in units of the check        *)
(* interval, and passes only while it sleeps or is not there.              *)
(***************************************************************************)
EXTENDS Integers

CONSTANTS
  ReAlert,      \* REALERT_SEC
  Grace,        \* TUNNEL_GRACE_SEC
  GpuIdle,      \* GPU_IDLE_SEC
  Heartbeat,    \* HEARTBEAT_SEC
  MaxAge,       \* ages beyond this are not told apart
  MaxStep,      \* bound: the most that passes at once
  MaxChanges,   \* bound: changes of what is polled
  MaxFaults     \* bound: deaths, lost pings and failed saves

ASSUME AgesAssumption ==
  /\ MaxAge \in Nat
  /\ {ReAlert, Grace, GpuIdle, Heartbeat} \subseteq 0 .. MaxAge
ASSUME BoundsAssumption ==
  MaxStep \in Nat \ {0} /\ MaxChanges \in Nat /\ MaxFaults \in Nat

Absent == -1
Ages == 0 .. MaxAge \cup {Absent}
Keys == {"tunnel", "orch", "gpu"}
Subjects == Keys \cup {"done", "beat"}
Rows == {"pending", "running", "both", "done", "unreadable"}
World == [rows : Rows, orch : {"alive", "dead", "absent"},
          tunnel : BOOLEAN, gpu : {"busy", "idle", "unknown"}]
Memory == [alerts : [Keys -> Ages], down : Ages, idle : Ages, done : BOOLEAN, beat : Ages]

VARIABLES
  world,     \* what there is to poll
  changes,   \* how often it changed
  pc,        \* where the pass is, or how it ended
  seen,      \* the readings of this pass
  st,        \* the monitor's memory
  saved,     \* state/monitor_state.json
  ping,      \* subject and kind of the ping of this step
  told,      \* per subject, the good news that arrived since the last bad news
  bad,       \* age of the first of an unbroken run of bad readings
  since,     \* age of the last alert, while nothing ended or forgot it
  calm,      \* age of the first pass since the last death or pass cut short
  faults     \* how often something went wrong with the monitor itself
hist == <<bad, since, calm>>
vars == <<world, changes, pc, seen, st, saved, ping, told, hist, faults>>

NoPing == <<"beat", "none">>
Nothing == [rows |-> "unreadable", orch |-> "absent", tunnel |-> TRUE, gpu |-> "unknown"]
Fresh == [alerts |-> [k \in Keys |-> Absent], down |-> Absent, idle |-> Absent,
          done |-> FALSE, beat |-> Absent]
Reading == {"rows", "orch", "tunnel", "gpu"}
Checking == {"check_tunnel", "check_orch", "check_done", "check_gpu", "check_beat", "save"}

Pending(w) == w.rows \in {"pending", "both"}
Running(w) == w.rows \in {"running", "both"}
Stalled(w) == Running(w) /\ w.gpu = "idle" /\ w.tunnel /\ w.orch # "dead"

Older(a, d) == IF a = Absent THEN Absent ELSE IF a + d > MaxAge THEN MaxAge ELSE a + d
OlderEach(f, d) == [k \in DOMAIN f |-> Older(f[k], d)]
Aged(s, d) == [alerts |-> OlderEach(s.alerts, d), down |-> Older(s.down, d),
               idle |-> Older(s.idle, d), done |-> s.done, beat |-> Older(s.beat, d)]
\* Seeded fault: an alert that is on record is never due again.
Due_Once(a, limit) == a = Absent

Due(a, limit) == a = Absent \/ a >= limit

\* The monitor is started beside a matrix in full swing.
Init ==
  /\ world = [rows |-> "both", orch |-> "alive", tunnel |-> TRUE, gpu |-> "busy"]
  /\ changes = 0
  /\ pc = "rows" /\ seen = Nothing
  /\ st = Fresh /\ saved = Fresh
  /\ ping = NoPing
  /\ told = [k \in Keys \cup {"done"} |-> IF k = "done" THEN 0 ELSE 1]
  /\ bad = [k \in {"tunnel", "gpu"} |-> Absent]
  /\ since = [k \in Keys |-> Absent]
  /\ calm = 0 /\ faults = 0

-----------------------------------------------------------------------------
\* The world.  What changes while nothing is read shows at the next reading,
\* so it changes just before one.
Change ==
  /\ pc \in Reading
  /\ changes < MaxChanges /\ changes' = changes + 1
  /\ \E w \in World :
       /\ \E f \in DOMAIN w : w[f] # world[f] /\ w = [world EXCEPT ![f] = w[f]]
       /\ world' = w
  /\ ping' = NoPing
  /\ UNCHANGED <<pc, seen, st, saved, told, hist, faults>>

-----------------------------------------------------------------------------
\* The four readings.
Seen(k, fine) ==
  /\ bad' = IF k \in DOMAIN bad
            THEN [bad EXCEPT ![k] = IF fine THEN Absent ELSE IF @ = Absent THEN 0 ELSE @]
            ELSE bad
  /\ since' = [since EXCEPT ![k] = IF fine THEN Absent ELSE @]
  /\ UNCHANGED <<told, calm>>

Poll(field, next) ==
  /\ pc = field /\ pc' = next
  /\ seen' = [seen EXCEPT ![field] = world[field]]
  /\ ping' = NoPing
  /\ UNCHANGED <<world, changes, st, saved, faults>>

ReadRows ==
  /\ Poll("rows", "orch")
  /\ told' = IF world.rows = "done" THEN told ELSE [told EXCEPT !["done"] = 0]
  /\ UNCHANGED hist
ReadOrch == Poll("orch", "tunnel") /\ Seen("orch", world.orch = "alive")
ReadTunnel == Poll("tunnel", "gpu") /\ Seen("tunnel", world.tunnel)
ReadGpu == Poll("gpu", "check_tunnel") /\ Seen("gpu", ~ Stalled(seen'))

-----------------------------------------------------------------------------
\* The checks.  _discord_send answers whether the ping arrived, and nobody asks;
\* an error it does not catch ends the pass with the memory as it is by then.
Quiet(s, next) ==
  /\ st' = s /\ pc' = next /\ ping' = NoPing
  /\ UNCHANGED <<told, since, faults>>

Arrives(k, kind) ==
  told' = IF k \in DOMAIN told
          THEN [told EXCEPT ![k] = IF kind = "bad" THEN 0 ELSE @ + 1] ELSE told

Send(k, kind, before, after, next) ==
  /\ ping' = <<k, kind>>
  /\ \/ Arrives(k, kind) /\ UNCHANGED faults
     \/ faults < MaxFaults /\ faults' = faults + 1 /\ (UNCHANGED told \/ Arrives(k, kind))
  /\ \/ /\ st' = after /\ pc' = next
        /\ since' = IF kind = "bad" THEN [since EXCEPT ![k] = 0] ELSE since
     \/ /\ faults' # faults
        /\ st' = before /\ pc' = "cut short"
        /\ since' = IF kind = "bad" THEN [since EXCEPT ![k] = Absent] ELSE since

\* Seeded fault: _mark_alert is missing.
Raise_Unmarked(k, s, next) ==
  IF Due(s.alerts[k], ReAlert) THEN Send(k, "bad", s, s, next) ELSE Quiet(s, next)

Raise(k, s, next) ==
  IF Due(s.alerts[k], ReAlert)
  THEN Send(k, "bad", s, [s EXCEPT !.alerts[k] = 0], next)
  ELSE Quiet(s, next)

\* Seeded faults: the alert stays on record; the reset of the outage is inside
\* the if; the alert is cleared in silence.
Recover_StillAlerted(k, s, next) ==
  IF s.alerts[k] = Absent THEN Quiet(s, next) ELSE Send(k, "good", s, s, next)
Recover_ResetsInsideIf(k, s, next) ==
  LET cleared == [s EXCEPT !.alerts[k] = Absent]
  IN  IF s.alerts[k] = Absent
      THEN Quiet(st, next) ELSE Send(k, "good", cleared, cleared, next)
Recover_Silently(k, s, next) == Quiet([s EXCEPT !.alerts[k] = Absent], next)

Recover(k, s, next) ==
  LET cleared == [s EXCEPT !.alerts[k] = Absent]
  IN  IF s.alerts[k] = Absent
      THEN Quiet(s, next) ELSE Send(k, "good", cleared, cleared, next)

Check(at) == pc = at /\ UNCHANGED <<world, changes, seen, saved, bad, calm>>

CheckTunnel ==
  /\ Check("check_tunnel")
  /\ \/ seen.tunnel /\ Recover("tunnel", [st EXCEPT !.down = Absent], "check_orch")
     \/ /\ ~ seen.tunnel /\ st.down = Absent
        /\ Quiet([st EXCEPT !.down = 0], "check_orch")
     \/ ~ seen.tunnel /\ st.down \in 0 .. Grace - 1 /\ Quiet(st, "check_orch")
     \/ ~ seen.tunnel /\ st.down >= Grace /\ Raise("tunnel", st, "check_orch")

CheckOrch ==
  /\ Check("check_orch")
  /\ \/ seen.orch = "dead" /\ Pending(seen) /\ Raise("orch", st, "check_done")
     \/ seen.orch = "dead" /\ ~ Pending(seen) /\ Quiet(st, "check_done")
     \/ seen.orch = "alive" /\ Recover("orch", st, "check_done")
     \/ seen.orch = "absent" /\ Quiet(st, "check_done")

CheckDone ==
  /\ Check("check_done")
  /\ \/ /\ seen.rows = "done" /\ ~ st.done
        /\ Send("done", "good", st, [st EXCEPT !.done = TRUE], "check_gpu")
     \/ seen.rows = "done" /\ st.done /\ Quiet(st, "check_gpu")
     \/ seen.rows # "done" /\ Quiet([st EXCEPT !.done = FALSE], "check_gpu")

CheckGpu ==
  /\ Check("check_gpu")
  /\ \/ Stalled(seen) /\ st.idle = Absent /\ Quiet([st EXCEPT !.idle = 0], "check_beat")
     \/ Stalled(seen) /\ st.idle \in 0 .. GpuIdle - 1 /\ Quiet(st, "check_beat")
     \/ Stalled(seen) /\ st.idle >= GpuIdle /\ Raise("gpu", st, "check_beat")
     \/ ~ Stalled(seen) /\ st.idle = Absent /\ Quiet(st, "check_beat")
     \/ /\ ~ Stalled(seen) /\ st.idle # Absent
        /\ Quiet([st EXCEPT !.idle = Absent, !.alerts["gpu"] = Absent], "check_beat")

CheckBeat ==
  /\ Check("check_beat")
  /\ IF (Pending(seen) \/ Running(seen)) /\ Due(st.beat, Heartbeat)
     THEN Send("beat", "good", st, [st EXCEPT !.beat = 0], "save")
     ELSE Quiet(st, "save")

Save ==
  /\ pc = "save" /\ pc' = "asleep"
  /\ ping' = NoPing /\ seen' = Nothing
  /\ \/ saved' = st /\ UNCHANGED faults
     \/ faults < MaxFaults /\ faults' = faults + 1 /\ UNCHANGED saved
  /\ UNCHANGED <<world, changes, st, told, hist>>

-----------------------------------------------------------------------------
\* Time, and the death and return of the monitor.
TimePasses(d) ==
  /\ pc' = "rows"
  /\ bad' = OlderEach(bad, d) /\ since' = OlderEach(since, d)
  /\ saved' = Aged(saved, d)
  /\ calm' = IF pc = "asleep" THEN Older(calm, d) ELSE 0
  /\ seen' = Nothing /\ ping' = NoPing
  /\ UNCHANGED <<world, changes, told, faults>>

Sleep(d) == pc \in {"asleep", "cut short"} /\ TimePasses(d) /\ st' = Aged(st, d)

Dies ==
  /\ pc # "off" /\ pc' = "off"
  /\ faults < MaxFaults /\ faults' = faults + 1
  /\ st' = Fresh /\ seen' = Nothing /\ ping' = NoPing
  /\ since' = IF st = saved THEN since ELSE [k \in Keys |-> Absent]
  /\ UNCHANGED <<world, changes, saved, told, bad, calm>>

Relaunch(d) == pc = "off" /\ TimePasses(d) /\ st' = Aged(saved, d)

Pass ==
  \/ ReadRows \/ ReadOrch \/ ReadTunnel \/ ReadGpu
  \/ CheckTunnel \/ CheckOrch \/ CheckDone \/ CheckGpu \/ CheckBeat \/ Save
  \/ \E d \in 1 .. MaxStep : Sleep(d)
Returns == \E d \in 1 .. MaxStep : Relaunch(d)
Next == Change \/ Pass \/ Dies \/ Returns

Spec == Init /\ [][Next]_vars
\* The loop never blocks for good (every poll has a timeout), and whoever
\* wants the alerts starts it again.
FairSpec == Spec /\ WF_vars(Pass) /\ WF_vars(Returns)

-----------------------------------------------------------------------------
TypeOK ==
  /\ world \in World /\ seen \in World
  /\ changes \in 0 .. MaxChanges /\ faults \in 0 .. MaxFaults
  /\ pc \in Reading \cup Checking \cup {"asleep", "cut short", "off"}
  /\ st \in Memory /\ saved \in Memory
  /\ ping \in Subjects \X {"good", "bad", "none"}
  /\ told \in [Keys \cup {"done"} -> Nat]
  /\ bad \in [{"tunnel", "gpu"} -> Ages]
  /\ since \in [Keys -> Ages]
  /\ calm \in 0 .. MaxAge

Lesser(a, b) == IF a < b THEN a ELSE b
Alarm(k) == ping' = <<k, "bad">>

(* An alarm about the tunnel (a stall) comes only after all readings for    *)
(* TUNNEL_GRACE_SEC (GPU_IDLE_SEC) were bad; only after a death or a pass   *)
(* cut short it may go by a time noted before, whatever happened since.     *)
AlarmIsSustained ==
  [][/\ Alarm("tunnel") => bad["tunnel"] >= Lesser(Grace, calm)
     /\ Alarm("gpu") => bad["gpu"] >= Lesser(GpuIdle, calm)]_vars

(* Two alarms about one incident are REALERT_SEC apart, also across a death *)
(* of the monitor that had saved the first one.                             *)
AlarmsAreSpaced ==
  [][\A k \in Keys : Alarm(k) => Due(since[k], ReAlert)]_vars

(* An alarm is answered by one recovery and a completion announced once;    *)
(* only a fault of the monitor - a death before the save - repeats them.    *)
NoEcho == \A k \in DOMAIN told : told[k] <= 1 + faults

(* A tunnel that stays down, a scheduler that stays dead with rows pending, *)
(* a GPU that stays idle under running rows: the operator ends up knowing,  *)
(* whichever pings were lost, since the alarm is repeated.                  *)
TroubleIsTold ==
  /\ ~ world.tunnel ~> (world.tunnel \/ told["tunnel"] = 0)
  /\ (world.orch = "dead" /\ Pending(world))
       ~> (~ (world.orch = "dead" /\ Pending(world)) \/ told["orch"] = 0)
  /\ Stalled(world) ~> (~ Stalled(world) \/ told["gpu"] = 0)

(* A recovery and a completion are told once; without a fault they arrive.  *)
ReliefIsTold ==
  /\ world.tunnel ~> (~ world.tunnel \/ told["tunnel"] > 0 \/ faults > 0)
  /\ world.orch = "alive" ~> (world.orch # "alive" \/ told["orch"] > 0 \/ faults > 0)
  /\ world.rows = "done" ~> (world.rows # "done" \/ told["done"] > 0 \/ faults > 0)
=============================================================================
