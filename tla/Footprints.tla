------------------------------ MODULE Footprints ------------------------------
(***************************************************************************)
(* How the memory of a method is measured and used.  The smoke harness     *)
(* (scripts/autoresearch_smoke.py) starts scripts/footprint_probe.py       *)
(* beside each attempt; the probe samples the process tree of the          *)
(* launcher, one reading after the other, until the launcher is gone, its  *)
(* time is up or it is told to stop, and then writes its file.  A harness  *)
(* that dies forgets its attempt and leaves the probe behind.  The         *)
(* footprint table takes the maximum over the stages of a method, and      *)
(* long_runner.py turns it into the reservation of a row.                  *)
(* One level of memory per process stands for its RSS and its vRAM.        *)
(***************************************************************************)
EXTENDS Integers, Sequences, FiniteSetsExt

CONSTANTS
  Methods,     \* the stages of one algorithm, each smoke-tested by itself
  Levels,      \* memory of a process, GB
  MaxAttempts, \* bound: attempts in all
  MaxChanges,  \* bound: changes of the memory in an attempt
  MaxSamples,  \* max_seconds, in samples
  MaxDeaths    \* bound: deaths of the harness in an attempt

ASSUME MethodsAssumption == IsFiniteSet(Methods) /\ Methods # {}
ASSUME LevelsAssumption == Levels \subseteq Nat /\ 0 \in Levels
ASSUME BoundsAssumption == {MaxAttempts, MaxChanges, MaxSamples, MaxDeaths} \subseteq Nat

Tree == {"launcher", "worker"}     \* the launcher and a process it may start
Procs == Tree \cup {"other"}       \* another project's process on the same GPU
Gone == -1
Unread == -1

VARIABLES
  mem,       \* memory of each process, or Gone
  changes,
  harness,   \* where run_one is
  now,       \* the attempt it runs
  probe,     \* the probe's locals
  pc,        \* where the probe is
  stop,      \* SIGTERM was sent to the probe
  files,     \* the footprint files
  attempts,  \* per method, the attempts on record
  agg,       \* state/footprints/_aggregate.json
  quiet,     \* no memory changed since the sample began
  high,      \* high-water mark of each process in this attempt
  wiped,     \* per method, the last attempt before its latest --reset
  lost       \* attempts whose harness died; writes: the probe is still to write
proc == <<mem, changes, high>>
ghost == <<quiet, wiped, lost>>
vars == <<proc, harness, now, probe, pc, stop, files, attempts, agg, ghost>>

Larger(x, y) == IF x > y THEN x ELSE y
Size(x) == IF x = Gone THEN 0 ELSE x
Total(procs) == Size(IF "launcher" \in procs THEN mem["launcher"] ELSE 0)
                + Size(IF "worker" \in procs THEN mem["worker"] ELSE 0)

NoSample == [desc |-> {}, left |-> {}, gpu |-> 0, sum |-> 0, ok |-> FALSE,
             vram |-> Unread, rss |-> Unread, n |-> 0, held |-> 0]
NoFile == [gen |-> 0, vram |-> Unread, rss |-> Unread]
Broken == [NoFile EXCEPT !.gen = -1]
NoAggregate == [known |-> FALSE, vram |-> 0, rss |-> 0]

Init ==
  /\ mem = [p \in Procs |-> IF p = "other" THEN 0 ELSE Gone] /\ changes = 0
  /\ harness = "idle" /\ now = [gen |-> 0, method |-> CHOOSE m \in Methods : TRUE, n |-> 0]
  /\ probe = NoSample /\ pc = "none" /\ stop = FALSE
  /\ files = [f \in Methods \X (1 .. MaxAttempts) |-> NoFile]
  /\ attempts = [m \in Methods |-> <<>>]
  /\ agg = NoAggregate
  /\ quiet = FALSE /\ high = mem /\ wiped = [m \in Methods |-> 0] /\ lost = {}

-----------------------------------------------------------------------------
\* The processes.
Change(p) ==
  /\ harness = "running" /\ mem["launcher"] # Gone
  /\ changes < MaxChanges /\ changes' = changes + 1
  /\ \E x \in Levels \cup (IF p = "worker" THEN {Gone} ELSE {}) :
       /\ x # mem[p]
       /\ mem' = [mem EXCEPT ![p] = x]
       /\ high' = [high EXCEPT ![p] = Larger(@, x)]
  /\ quiet' = FALSE
  /\ UNCHANGED <<harness, now, probe, pc, stop, files, attempts, agg, wiped, lost>>

\* A worker that survives its launcher is nobody's descendant any more.
LauncherEnds ==
  /\ harness = "running" /\ mem["launcher"] # Gone
  /\ mem' = [mem EXCEPT !["launcher"] = Gone]
  /\ quiet' = FALSE
  /\ UNCHANGED <<changes, high, harness, now, probe, pc, stop, files, attempts, agg, wiped, lost>>

-----------------------------------------------------------------------------
\* The harness.

\* Seeded fault: the file is named after the method alone.
FootprintPath_NoAttempt(a) == <<a.method, 1>>

\* The number of an attempt is its place on record, which --reset empties.
FootprintPath(a) == <<a.method, a.n>>

\* The probe may be missing or may not start.
StartAttempt(m) ==
  /\ harness = "idle" /\ now.gen < MaxAttempts
  /\ harness' = "running"
  /\ now' = [gen |-> now.gen + 1, method |-> m, n |-> Len(attempts[m]) + 1]
  /\ mem' = [p \in Procs |-> CASE p = "launcher" -> 0 [] p = "worker" -> Gone [] OTHER -> mem[p]]
  /\ high' = mem' /\ changes' = 0
  /\ probe' = NoSample /\ pc' \in {"boot", "none"} /\ stop' = FALSE
  /\ UNCHANGED <<files, attempts, agg, ghost>>

\* Before its handler is installed, SIGTERM ends the probe.
TerminateProbe ==
  /\ harness = "running" /\ mem["launcher"] = Gone
  /\ harness' = "terminating"
  /\ stop' = TRUE
  /\ pc' = IF pc = "boot" THEN "none" ELSE pc
  /\ UNCHANGED <<proc, now, probe, files, attempts, agg, ghost>>

\* The grace is over: SIGKILL, perhaps in the middle of the write.
KillProbe ==
  /\ harness = "terminating" /\ pc # "none"
  /\ pc' = "none"
  /\ \/ UNCHANGED files
     \/ pc = "write" /\ files' = [files EXCEPT ![FootprintPath(now)] = Broken]
  /\ UNCHANGED <<proc, harness, now, probe, stop, attempts, agg, ghost>>

\* A file that is absent or does not parse gives an empty summary.
FootprintSummary(f) == IF f = Broken THEN NoFile ELSE f

RecordAttempt ==
  /\ harness = "terminating" /\ pc = "none"
  /\ harness' = "idle"
  /\ \E loss \in BOOLEAN :
       attempts' = [attempts EXCEPT ![now.method] = Append(@,
         [gen |-> now.gen, loss |-> loss, held |-> probe.held,
          print |-> FootprintSummary(files[FootprintPath(now)])])]
  /\ UNCHANGED <<proc, now, probe, pc, stop, files, agg, ghost>>

\* The attempt was on record in memory alone (356, saved at 482), so that its number
\* is given again.  What the attempt started goes on, but for the next harness it
\* is somebody else's.
Dies ==
  /\ harness # "idle" /\ Cardinality(lost) < MaxDeaths
  /\ harness' = "idle" /\ pc' = "none"
  /\ lost' = lost \cup {[gen |-> now.gen, method |-> now.method, n |-> now.n,
                          writes |-> pc # "none"]}
  /\ mem' = [p \in Procs |-> IF p = "other" THEN mem[p] ELSE Gone] /\ high' = mem'
  /\ changes' = 0 /\ probe' = NoSample /\ stop' = FALSE /\ quiet' = FALSE
  /\ UNCHANGED <<now, files, attempts, agg, wiped>>

Reset(m) ==
  /\ harness = "idle" /\ attempts[m] # <<>>
  /\ attempts' = [attempts EXCEPT ![m] = <<>>]
  /\ wiped' = [wiped EXCEPT ![m] = now.gen]
  /\ UNCHANGED <<proc, harness, now, probe, pc, stop, files, agg, quiet, lost>>

-----------------------------------------------------------------------------
\* The probe.
Boot ==
  /\ pc = "boot" /\ pc' = "look"
  /\ UNCHANGED <<proc, harness, now, probe, stop, files, attempts, agg, ghost>>

\* The loop's three conditions, then one read of /proc for the descendants.
Look ==
  /\ pc = "look"
  /\ IF stop \/ mem["launcher"] = Gone \/ probe.n >= MaxSamples
     THEN pc' = "write" /\ UNCHANGED <<probe, quiet>>
     ELSE LET desc == {p \in Tree : mem[p] # Gone} IN
            /\ pc' = "apps"
            /\ probe' = [probe EXCEPT !.desc = desc, !.left = desc, !.sum = 0]
            /\ quiet' = TRUE
  /\ UNCHANGED <<proc, harness, now, stop, files, attempts, agg, wiped, lost>>

\* Seeded fault: the memory of the whole GPU is taken.
QueryApps_WholeGpu ==
  /\ pc = "apps" /\ pc' = "rss"
  /\ probe' = [probe EXCEPT !.ok = TRUE, !.gpu = Total(Tree) + mem["other"]]
  /\ UNCHANGED <<proc, harness, now, stop, files, attempts, agg, ghost>>

\* nvidia-smi answers for all processes at once, or the sample counts as 0.
QueryApps ==
  /\ pc = "apps" /\ pc' = "rss"
  /\ \E ok \in BOOLEAN :
       probe' = [probe EXCEPT !.ok = ok, !.gpu = IF ok THEN Total(probe.desc) ELSE 0]
  /\ UNCHANGED <<proc, harness, now, stop, files, attempts, agg, ghost>>

\* The RSS is read process by process.
ReadRss(p) ==
  /\ pc = "rss" /\ p \in probe.left
  /\ probe' = [probe EXCEPT !.left = @ \ {p}, !.sum = @ + Size(mem[p])]
  /\ UNCHANGED <<proc, harness, now, pc, stop, files, attempts, agg, ghost>>

\* Only the peaks of the summary are used later.
EndSample ==
  /\ pc = "rss" /\ probe.left = {} /\ pc' = "sleep"
  /\ probe' = [probe EXCEPT
       !.vram = Larger(@, probe.gpu), !.rss = Larger(@, probe.sum), !.n = @ + 1,
       !.held = IF quiet /\ probe.ok THEN Larger(@, Total(Tree)) ELSE @]
  /\ UNCHANGED <<proc, harness, now, stop, files, attempts, agg, ghost>>

Wake ==
  /\ pc = "sleep" /\ pc' = "look"
  /\ UNCHANGED <<proc, harness, now, probe, stop, files, attempts, agg, ghost>>

WriteFile ==
  /\ pc = "write" /\ pc' = "none"
  /\ files' = [files EXCEPT ![FootprintPath(now)] =
       [gen |-> now.gen, vram |-> probe.vram, rss |-> probe.rss]]
  /\ UNCHANGED <<proc, harness, now, probe, stop, attempts, agg, ghost>>

\* The probe of a lost attempt, for whom the files alone matter: it writes over
\* what is there, at any time, and is killed on the way or mixes its write with
\* another one.
OrphanWrites(o) ==
  /\ o \in lost /\ o.writes
  /\ \/ \E x \in Levels \cup {Unread} :
          /\ files' = [files EXCEPT ![FootprintPath(o)] = [gen |-> o.gen, vram |-> x, rss |-> x]]
          /\ lost' = (lost \ {o}) \cup {[o EXCEPT !.writes = FALSE]}
     \/ /\ files' = [files EXCEPT ![FootprintPath(o)] = Broken]
        /\ \E more \in BOOLEAN : lost' = (lost \ {o}) \cup {[o EXCEPT !.writes = more]}
  /\ UNCHANGED <<proc, harness, now, probe, pc, stop, attempts, agg, quiet, wiped>>

-----------------------------------------------------------------------------
\* The table and the reservation, in hundredths of a GB.
\* The latest attempt that was seen to train, else the latest.
Chosen(m) ==
  LET seen == {k \in DOMAIN attempts[m] : attempts[m][k].loss}
  IN attempts[m][IF seen # {} THEN Max(seen) ELSE Len(attempts[m])]

Tried == {m \in Methods : attempts[m] # <<>>}

\* Seeded fault: each stage replaces the reading of the stage before.
FootprintTable_LastStage ==
  /\ harness = "idle"
  /\ agg' \in IF Tried = {} THEN {NoAggregate}
             ELSE {[known |-> TRUE, vram |-> Size(Chosen(m).print.vram),
                    rss |-> Size(Chosen(m).print.rss)] : m \in Tried}
  /\ UNCHANGED <<proc, harness, now, probe, pc, stop, files, attempts, ghost>>

\* The largest reading of the stages; a stage without one adds nothing.
FootprintTable ==
  /\ harness = "idle"
  /\ agg' = IF Tried = {} THEN NoAggregate
            ELSE [known |-> TRUE, vram |-> Max({Size(Chosen(m).print.vram) : m \in Tried}),
                  rss |-> Max({Size(Chosen(m).print.rss) : m \in Tried})]
  /\ UNCHANGED <<proc, harness, now, probe, pc, stop, files, attempts, ghost>>

\* _row_budget: 1.3 for safety, 1.8 for the humanoid, 4 GB for an algorithm the
\* table does not know, and never less than 0.5 GB.
RowBudget(a, humanoid) ==
  LET scaled(x) == Larger(50, (IF a.known THEN x ELSE 4) * (IF humanoid THEN 234 ELSE 130))
  IN [vram |-> scaled(a.vram), ram |-> scaled(a.rss)]

-----------------------------------------------------------------------------
RunOne ==
  \/ \E m \in Methods : StartAttempt(m) \/ Reset(m)
  \/ TerminateProbe \/ KillProbe \/ RecordAttempt \/ Dies \/ FootprintTable
Probe ==
  \/ Boot \/ Look \/ QueryApps \/ EndSample \/ Wake \/ WriteFile
  \/ \E p \in Tree : ReadRss(p)
  \/ \E o \in lost : OrphanWrites(o)
Next == RunOne \/ Probe \/ LauncherEnds \/ \E p \in Procs : Change(p)

Spec == Init /\ [][Next]_vars

-----------------------------------------------------------------------------
Readings == Nat \cup {Unread}
Footprint == [gen : -1 .. MaxAttempts, vram : Readings, rss : Readings]
Lost == [gen : 1 .. MaxAttempts, method : Methods, n : 1 .. MaxAttempts, writes : BOOLEAN]
Attempt == [gen : 1 .. MaxAttempts, loss : BOOLEAN, held : Nat, print : Footprint]
TypeOK ==
  /\ mem \in [Procs -> Levels \cup {Gone}] /\ changes \in 0 .. MaxChanges
  /\ high \in [Procs -> Levels \cup {Gone}]
  /\ harness \in {"idle", "running", "terminating"}
  /\ now \in [gen : 0 .. MaxAttempts, method : Methods, n : 0 .. MaxAttempts]
  /\ probe \in [desc : SUBSET Tree, left : SUBSET Tree, gpu : Nat, sum : Nat, ok : BOOLEAN,
                vram : Readings, rss : Readings, n : 0 .. MaxSamples, held : Nat]
  /\ pc \in {"none", "boot", "look", "apps", "rss", "sleep", "write"} /\ stop \in BOOLEAN
  /\ files \in [Methods \X (1 .. MaxAttempts) -> Footprint]
  /\ attempts \in [Methods -> Seq(Attempt)]
  /\ agg \in [known : BOOLEAN, vram : Nat, rss : Nat]
  /\ quiet \in BOOLEAN /\ wiped \in [Methods -> 0 .. MaxAttempts]
  /\ lost \in SUBSET Lost

\* What is measured is the method's: never more than the high-water marks of the
\* launcher and its worker together, whatever else runs on the GPU.
CountsOnlyOwn ==
  LET own == Size(high["launcher"]) + Size(high["worker"])
  IN probe.vram <= own /\ probe.rss <= own

\* The footprint on record of an attempt is its own, or none, or - its probe never
\* wrote, or another one wrote later - one from before the latest --reset or one of
\* an attempt that a death of the harness took off the record, under the same number.
OwnFootprint ==
  \A m \in Methods : \A k \in DOMAIN attempts[m] :
    LET a == attempts[m][k]
    IN \/ a.print.gen \in {0, a.gen}
       \/ a.print.gen \in 1 .. wiped[m]
       \/ \E o \in lost : o.method = m /\ o.n = k /\ a.print.gen = o.gen

\* What the tree held through a whole sample of a measured attempt is, with the
\* factor of the row, within the reservation of a row, humanoid or not, whichever
\* stage it was: no later reading, no other stage, no read that fails and no probe
\* that an earlier harness left behind can lower it.
ReservationCoversHeld ==
  [][FootprintTable =>
       \A m \in Tried : Chosen(m).print.gen = Chosen(m).gen =>
         \A humanoid \in BOOLEAN :
           LET held == Chosen(m).held * (IF humanoid THEN 234 ELSE 130)
           IN /\ held <= RowBudget(agg', humanoid).vram
              /\ held <= RowBudget(agg', humanoid).ram]_vars
=============================================================================
