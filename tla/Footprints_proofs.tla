-------------------------- MODULE Footprints_proofs --------------------------
(***************************************************************************)
(* Whatever the processes do between two reads and however a probe ends:   *)
(* a reading is of the method alone, an attempt carries its own footprint  *)
(* or one from before the latest reset or of an attempt that was lost with *)
(* its harness, and the reservation that is derived covers what every      *)
(* stage was seen to hold.                                                 *)
(***************************************************************************)
EXTENDS Footprints, FiniteSetTheorems, TLAPS

(* A finite set of integers has a largest element.                         *)
LEMMA LargestOf ==
  ASSUME NEW S, IsFiniteSet(S), S # {}, S \subseteq Int
  PROVE  Max(S) \in S /\ \A y \in S : Max(S) >= y
<1> DEFINE HasLargest(T) == \E x \in T : \A y \in T : x >= y
           Bad == {T \in SUBSET S : T # {} /\ ~HasLargest(T)}
<1>1. Bad = {}
  <2> SUFFICES ASSUME Bad # {} PROVE FALSE
    OBVIOUS
  <2>1. Bad \subseteq FiniteSubsetsOf(S)
    BY FS_FiniteSubsetsOfFinite
  <2>2. PICK T \in Bad : \A U \in Bad : ~(<<U, T>> \in StrictSubsetOrdering(S))
    <3> HIDE DEF Bad
    <3> QED BY <2>1, FS_StrictSubsetOrderingWellFounded, WFMin
  <2>3. PICK x \in T : TRUE
    OBVIOUS
  <2>4. T \ {x} # {}
    BY <2>3
  <2>5. <<T \ {x}, T>> \in StrictSubsetOrdering(S)
    BY <2>3 DEF StrictSubsetOrdering
  <2>6. PICK m \in T \ {x} : \A y \in T \ {x} : m >= y
    BY <2>2, <2>4, <2>5
  <2>7. HasLargest(T)
    BY <2>3, <2>6
  <2> QED BY <2>7
<1>2. HasLargest(S)
  BY <1>1
<1> QED BY <1>2 DEF Max

-----------------------------------------------------------------------------
(* Where the harness, the probe and the record of an attempt stand.        *)
Phase ==
  /\ harness = "idle" => pc = "none"
  /\ harness # "idle" => now.n = Len(attempts[now.method]) + 1
  /\ \A m \in Methods :
       /\ wiped[m] <= now.gen
       /\ Len(attempts[m]) <= now.gen
       /\ harness # "idle" => Len(attempts[m]) + 1 <= now.gen
  /\ \A o \in lost : o.gen <= now.gen /\ (harness # "idle" => o.gen < now.gen)
  /\ pc \in {"apps", "rss"} => probe.n < MaxSamples

TInv == TypeOK /\ Phase

LEMMA Sizes == \A x \in Nat \cup {Gone} : Size(x) \in Nat /\ (x # Gone => Size(x) = x)
BY DEF Size, Gone

LEMMA Memory ==
  ASSUME TypeOK
  PROVE  /\ \A p \in Procs : mem[p] \in Nat \cup {Gone} /\ high[p] \in Nat \cup {Gone}
         /\ \A procs \in SUBSET Tree : Total(procs) \in Nat
<1>1. \A p \in Procs : mem[p] \in Nat \cup {Gone} /\ high[p] \in Nat \cup {Gone}
  BY LevelsAssumption DEF TypeOK
<1>2. "launcher" \in Procs /\ "worker" \in Procs /\ Size(0) = 0
  BY DEF Procs, Tree, Size, Gone
<1> QED BY <1>1, <1>2, Sizes DEF Total, Size

LEMMA InitTypes == Init => TInv
<1> SUFFICES ASSUME Init PROVE TInv
  OBVIOUS
<1>1. now \in [gen : 0 .. MaxAttempts, method : Methods, n : 0 .. MaxAttempts]
  BY MethodsAssumption, BoundsAssumption DEF Init
<1>2. probe \in [desc : SUBSET Tree, left : SUBSET Tree, gpu : Nat, sum : Nat, ok : BOOLEAN,
                vram : Readings, rss : Readings, n : 0 .. MaxSamples, held : Nat]
  BY BoundsAssumption DEF Init, NoSample, Readings, Unread
<1>3. files \in [Methods \X (1 .. MaxAttempts) -> Footprint]
  BY BoundsAssumption DEF Init, NoFile, Footprint, Readings, Unread
<1>4. mem \in [Procs -> Levels \cup {Gone}] /\ high = mem
  BY LevelsAssumption DEF Init
<1>5. attempts \in [Methods -> Seq(Attempt)] /\ wiped \in [Methods -> 0 .. MaxAttempts]
  BY BoundsAssumption DEF Init
<1>6. changes \in 0 .. MaxChanges /\ agg \in [known : BOOLEAN, vram : Nat, rss : Nat]
  BY BoundsAssumption DEF Init, NoAggregate
<1>7. TypeOK
  BY <1>1, <1>2, <1>3, <1>4, <1>5, <1>6 DEF Init, TypeOK
<1>8. Phase
  BY DEF Init, Phase
<1> QED BY <1>7, <1>8 DEF TInv

-----------------------------------------------------------------------------
(* The attempt that stands for a method is one of its attempts.            *)
LEMMA ChosenIsOne ==
  ASSUME TypeOK, NEW m \in Tried
  PROVE  \E k \in DOMAIN attempts[m] : Chosen(m) = attempts[m][k]
<1> DEFINE seen == {k \in DOMAIN attempts[m] : attempts[m][k].loss}
<1>1. attempts[m] \in Seq(Attempt) /\ attempts[m] # <<>>
  BY DEF TypeOK, Tried
<1>2. Len(attempts[m]) \in DOMAIN attempts[m]
  BY <1>1
<1>3. ASSUME seen # {} PROVE Max(seen) \in DOMAIN attempts[m]
  <2>1. DOMAIN attempts[m] = 1 .. Len(attempts[m]) /\ Len(attempts[m]) \in Nat
    BY <1>1
  <2>2. IsFiniteSet(1 .. Len(attempts[m]))
    BY <2>1, FS_Interval
  <2>3. seen \subseteq 1 .. Len(attempts[m]) /\ seen \subseteq Int
    BY <2>1
  <2>4. IsFiniteSet(seen)
    <3> HIDE DEF seen
    <3> QED BY <2>2, <2>3, FS_Subset
  <2>5. Max(seen) \in seen
    <3> HIDE DEF seen
    <3> QED BY <1>3, <2>3, <2>4, LargestOf
  <2> QED BY <2>5
<1> QED BY <1>2, <1>3 DEF Chosen

LEMMA ChosenType ==
  ASSUME TypeOK, NEW m \in Tried
  PROVE  /\ Chosen(m) \in Attempt
         /\ Size(Chosen(m).print.vram) \in Nat /\ Size(Chosen(m).print.rss) \in Nat
<1>1. attempts[m] \in Seq(Attempt)
  BY DEF TypeOK, Tried
<1>2. Chosen(m) \in Attempt
  BY <1>1, ChosenIsOne
<1>3. Chosen(m).print.vram \in Nat \cup {Gone} /\ Chosen(m).print.rss \in Nat \cup {Gone}
  BY <1>2 DEF Attempt, Footprint, Readings, Unread, Gone
<1> QED BY <1>2, <1>3, Sizes

(* The table holds the largest reading there is.                           *)
LEMMA LargestReading ==
  ASSUME NEW f \in [Tried -> Nat], Tried # {}
  PROVE  LET S == {f[m] : m \in Tried} IN Max(S) \in Nat /\ \A m \in Tried : Max(S) >= f[m]
<1> DEFINE S == {f[m] : m \in Tried}
<1>1. IsFiniteSet(Tried)
  BY MethodsAssumption, FS_Subset DEF Tried
<1>2. f \in Surjection(Tried, S)
  BY DEF Surjection
<1>3. IsFiniteSet(S)
  <2> HIDE DEF S
  <2> QED BY <1>1, <1>2, FS_Surjection
<1>4. S # {} /\ S \subseteq Nat /\ S \subseteq Int
  OBVIOUS
<1>5. Max(S) \in S /\ \A y \in S : Max(S) >= y
  <2> HIDE DEF S
  <2> QED BY <1>3, <1>4, LargestOf
<1> QED BY <1>4, <1>5

LEMMA TableHoldsAll ==
  ASSUME TypeOK, FootprintTable
  PROVE  /\ agg' \in [known : BOOLEAN, vram : Nat, rss : Nat]
         /\ Tried # {} => agg'.known
         /\ \A m \in Tried : /\ agg'.vram >= Size(Chosen(m).print.vram)
                              /\ agg'.rss >= Size(Chosen(m).print.rss)
<1> DEFINE v == [m \in Tried |-> Size(Chosen(m).print.vram)]
           r == [m \in Tried |-> Size(Chosen(m).print.rss)]
<1>1. v \in [Tried -> Nat] /\ r \in [Tried -> Nat]
  BY ChosenType
<1>2. CASE Tried = {}
  BY <1>2 DEF FootprintTable, NoAggregate
<1>3. CASE Tried # {}
  <2>1. agg' = [known |-> TRUE, vram |-> Max({Size(Chosen(m).print.vram) : m \in Tried}),
                rss |-> Max({Size(Chosen(m).print.rss) : m \in Tried})]
    BY <1>3 DEF FootprintTable
  <2>2. agg'.vram = Max({v[m] : m \in Tried}) /\ agg'.rss = Max({r[m] : m \in Tried})
    <3>1. {Size(Chosen(m).print.vram) : m \in Tried} = {v[m] : m \in Tried}
      OBVIOUS
    <3>2. {Size(Chosen(m).print.rss) : m \in Tried} = {r[m] : m \in Tried}
      OBVIOUS
    <3> QED BY <2>1, <3>1, <3>2
  <2>3. /\ agg'.vram \in Nat /\ \A m \in Tried : agg'.vram >= v[m]
        /\ agg'.rss \in Nat /\ \A m \in Tried : agg'.rss >= r[m]
    <3> HIDE DEF v, r
    <3> QED BY <1>1, <1>3, <2>2, LargestReading
  <2> QED BY <2>1, <2>3
<1> QED BY <1>2, <1>3

-----------------------------------------------------------------------------
ProbeType == [desc : SUBSET Tree, left : SUBSET Tree, gpu : Nat, sum : Nat, ok : BOOLEAN,
              vram : Readings, rss : Readings, n : 0 .. MaxSamples, held : Nat]

(* The place of the file of the attempt that runs.                         *)
LEMMA PathType ==
  ASSUME TInv, harness # "idle"
  PROVE  /\ FootprintPath(now) = <<now.method, now.n>>
         /\ now.method \in Methods /\ now.n \in 1 .. MaxAttempts /\ now.gen \in 1 .. MaxAttempts
         /\ FootprintPath(now) \in Methods \X (1 .. MaxAttempts)
<1>1. now.method \in Methods /\ now.gen \in 0 .. MaxAttempts
  BY DEF TInv, TypeOK
<1>2. attempts[now.method] \in Seq(Attempt)
  BY <1>1 DEF TInv, TypeOK
<1>3. Len(attempts[now.method]) \in Nat /\ Len(attempts[now.method]) + 1 <= now.gen
  BY <1>1, <1>2 DEF TInv, Phase
<1>4. now.n = Len(attempts[now.method]) + 1
  BY DEF TInv, Phase
<1>5. now.n \in 1 .. MaxAttempts /\ now.gen \in 1 .. MaxAttempts
  BY <1>1, <1>3, <1>4, BoundsAssumption
<1> QED BY <1>1, <1>5 DEF FootprintPath

(* What the probe of a lost attempt may leave in its file.                 *)
Left(o) == {Broken} \cup {[gen |-> o.gen, vram |-> x, rss |-> x] : x \in Readings}

LEMMA OrphanLeaves ==
  ASSUME TInv, NEW o \in lost, OrphanWrites(o)
  PROVE  /\ o \in Lost /\ FootprintPath(o) = <<o.method, o.n>>
         /\ o.gen \in Nat /\ o.gen >= 1 /\ o.gen <= MaxAttempts
         /\ \E f \in Left(o) : files' = [files EXCEPT ![<<o.method, o.n>>] = f]
         /\ \A f \in Left(o) : f \in Footprint /\ (f = Broken \/ f.gen = o.gen)
         /\ Broken.gen = -1
<1>1. o \in Lost /\ FootprintPath(o) = <<o.method, o.n>>
  BY DEF TInv, TypeOK, FootprintPath
<1>2. o.gen \in Nat /\ o.gen >= 1 /\ o.gen <= MaxAttempts
  BY <1>1, BoundsAssumption DEF Lost
<1>3. ASSUME files' = [files EXCEPT ![FootprintPath(o)] = Broken]
      PROVE  \E f \in Left(o) : files' = [files EXCEPT ![<<o.method, o.n>>] = f]
  <2>1. Broken \in Left(o)
    BY DEF Left
  <2> QED BY <1>1, <1>3, <2>1
<1>4. ASSUME NEW x \in Levels \cup {Unread},
             files' = [files EXCEPT ![FootprintPath(o)] = [gen |-> o.gen, vram |-> x, rss |-> x]]
      PROVE  \E f \in Left(o) : files' = [files EXCEPT ![<<o.method, o.n>>] = f]
  <2>1. [gen |-> o.gen, vram |-> x, rss |-> x] \in Left(o)
    BY LevelsAssumption DEF Left, Readings
  <2> QED BY <1>1, <1>4, <2>1
<1>5. \E f \in Left(o) : files' = [files EXCEPT ![<<o.method, o.n>>] = f]
  BY <1>3, <1>4 DEF OrphanWrites
<1>6. Broken \in Footprint /\ Broken.gen = -1
  BY BoundsAssumption DEF Broken, NoFile, Footprint, Readings, Unread
<1>7. ASSUME NEW x \in Readings
      PROVE  /\ [gen |-> o.gen, vram |-> x, rss |-> x] \in Footprint
             /\ [gen |-> o.gen, vram |-> x, rss |-> x].gen = o.gen
  BY <1>2, BoundsAssumption DEF Footprint
<1>8. \A f \in Left(o) : f \in Footprint /\ (f = Broken \/ f.gen = o.gen)
  BY <1>6, <1>7 DEF Left
<1> QED BY <1>1, <1>2, <1>5, <1>6, <1>8

LEMMA NextTypes == ASSUME TInv, [Next]_vars PROVE TInv'
<1> USE DEF TInv
<1>m. mem \in [Procs -> Nat \cup {Gone}] /\ probe \in ProbeType
  BY Memory, LevelsAssumption DEF TypeOK, ProbeType
<1>1. ASSUME NEW p \in Procs, Change(p) PROVE TInv'
  <2>1. \E x \in Levels \cup {Gone} :
          mem' = [mem EXCEPT ![p] = x] /\ high' = [high EXCEPT ![p] = Larger(high[p], x)]
    BY <1>1 DEF Change
  <2>2. mem' \in [Procs -> Levels \cup {Gone}] /\ high' \in [Procs -> Levels \cup {Gone}]
    BY <2>1 DEF TypeOK, Larger
  <2>3. changes' \in 0 .. MaxChanges
    BY <1>1, BoundsAssumption DEF Change, TypeOK
  <2> QED BY <1>1, <2>2, <2>3 DEF Change, TypeOK, Phase
<1>2. CASE LauncherEnds
  BY <1>2 DEF LauncherEnds, TypeOK, Phase
<1>3. ASSUME NEW m \in Methods, StartAttempt(m) PROVE TInv'
  <2>1. attempts[m] \in Seq(Attempt) /\ Len(attempts[m]) \in Nat /\ Len(attempts[m]) <= now.gen
    BY DEF TypeOK, Phase
  <2>2. now.gen \in Nat /\ now.gen + 1 \in 0 .. MaxAttempts /\ now.gen + 1 <= MaxAttempts
    BY <1>3, BoundsAssumption DEF TypeOK, StartAttempt
  <2>3. Len(attempts[m]) + 1 \in 0 .. MaxAttempts
    BY <2>1, <2>2, BoundsAssumption
  <2>4. now' \in [gen : 0 .. MaxAttempts, method : Methods, n : 0 .. MaxAttempts]
    BY <1>3, <2>2, <2>3 DEF StartAttempt
  <2>5. mem' \in [Procs -> Levels \cup {Gone}] /\ high' = mem'
    BY <1>3, LevelsAssumption DEF StartAttempt, TypeOK
  <2>6. probe' \in ProbeType
    BY <1>3, BoundsAssumption DEF StartAttempt, NoSample, ProbeType, Readings, Unread
  <2>7. changes' \in 0 .. MaxChanges
    BY <1>3, BoundsAssumption DEF StartAttempt
  <2>8. TypeOK'
    BY <1>3, <2>4, <2>5, <2>6, <2>7 DEF StartAttempt, TypeOK, ProbeType, ghost
  <2>9. Phase'
    <3>1. \A l \in Methods : Len(attempts[l]) \in Nat /\ Len(attempts[l]) <= now.gen
                            /\ wiped[l] \in Nat /\ wiped[l] <= now.gen
      BY DEF TypeOK, Phase
    <3>2. \A o \in lost : o.gen \in Nat /\ o.gen <= now.gen
      BY DEF TypeOK, Lost, Phase
    <3> QED BY <1>3, <2>2, <3>1, <3>2 DEF StartAttempt, Phase, ghost
  <2> QED BY <2>8, <2>9
<1>4. CASE TerminateProbe
  BY <1>4 DEF TerminateProbe, TypeOK, Phase, proc, ghost
<1>5. CASE KillProbe
  <2>1. Broken \in Footprint
    BY BoundsAssumption DEF Broken, NoFile, Footprint, Readings, Unread
  <2>2. files' \in [Methods \X (1 .. MaxAttempts) -> Footprint]
    BY <1>5, <2>1 DEF KillProbe, TypeOK
  <2> QED BY <1>5, <2>2 DEF KillProbe, TypeOK, Phase, proc, ghost
<1>6. CASE RecordAttempt
  <2>1. /\ now.method \in Methods /\ now.gen \in 1 .. MaxAttempts
        /\ files[FootprintPath(now)] \in Footprint
    BY <1>6, PathType DEF RecordAttempt, TypeOK
  <2>2. FootprintSummary(files[FootprintPath(now)]) \in Footprint
    BY <2>1, BoundsAssumption DEF FootprintSummary, NoFile, Footprint, Readings, Unread
  <2>3. PICK a \in Attempt : attempts' = [attempts EXCEPT ![now.method] = Append(@, a)]
    <3>1. PICK loss \in BOOLEAN :
            attempts' = [attempts EXCEPT ![now.method] = Append(@,
              [gen |-> now.gen, loss |-> loss, held |-> probe.held,
               print |-> FootprintSummary(files[FootprintPath(now)])])]
      BY <1>6 DEF RecordAttempt
    <3>2. [gen |-> now.gen, loss |-> loss, held |-> probe.held,
           print |-> FootprintSummary(files[FootprintPath(now)])] \in Attempt
      BY <2>1, <2>2, <1>m DEF Attempt, ProbeType
    <3> QED BY <3>1, <3>2
  <2>4. attempts[now.method] \in Seq(Attempt)
    BY <2>1 DEF TypeOK
  <2>5. /\ Append(attempts[now.method], a) \in Seq(Attempt)
        /\ Len(Append(attempts[now.method], a)) = Len(attempts[now.method]) + 1
    BY <2>4
  <2>6. attempts' \in [Methods -> Seq(Attempt)]
    BY <2>1, <2>3, <2>5 DEF TypeOK
  <2>7. \A l \in Methods : Len(attempts'[l]) <= now.gen
    BY <1>6, <2>1, <2>3, <2>5 DEF RecordAttempt, TypeOK, Phase
  <2> QED BY <1>6, <2>6, <2>7 DEF RecordAttempt, TypeOK, Phase, proc, ghost
<1>7. ASSUME NEW m \in Methods, Reset(m) PROVE TInv'
  <2>1. attempts' \in [Methods -> Seq(Attempt)] /\ attempts' = [attempts EXCEPT ![m] = <<>>]
    BY <1>7 DEF Reset, TypeOK
  <2>2. now.gen \in 0 .. MaxAttempts /\ wiped' = [wiped EXCEPT ![m] = now.gen]
    BY <1>7 DEF Reset, TypeOK
  <2>3. \A l \in Methods : Len(attempts'[l]) <= now.gen
    BY <2>1, <2>2 DEF TypeOK, Phase
  <2> QED BY <1>7, <2>1, <2>2, <2>3 DEF Reset, TypeOK, Phase, proc
<1>8. CASE FootprintTable
  BY <1>8, TableHoldsAll DEF FootprintTable, TypeOK, Phase, proc, ghost
<1>9. CASE Boot \/ Wake
  BY <1>9 DEF Boot, Wake, TypeOK, Phase, proc, ghost
<1>10. CASE Look
  <2>1. CASE UNCHANGED <<probe, quiet>> /\ pc' = "write"
    BY <1>10, <2>1 DEF Look, TypeOK, Phase, proc
  <2>2. CASE ~(UNCHANGED <<probe, quiet>> /\ pc' = "write")
    <3>1. PICK desc \in SUBSET Tree : probe' = [probe EXCEPT !.desc = desc, !.left = desc, !.sum = 0]
      BY <1>10, <2>2 DEF Look
    <3>2. probe' \in ProbeType /\ probe'.n = probe.n
      BY <1>m, <3>1 DEF ProbeType
    <3>3. quiet' = TRUE /\ pc' = "apps" /\ probe.n < MaxSamples
      BY <1>10, <1>m, <2>2, BoundsAssumption DEF Look, ProbeType
    <3> QED BY <1>10, <3>2, <3>3 DEF Look, TypeOK, Phase, ProbeType, proc
  <2> QED BY <2>1, <2>2
<1>11. CASE QueryApps
  <2>1. Total(probe.desc) \in Nat
    BY <1>m, Memory DEF ProbeType
  <2>2. PICK ok \in BOOLEAN, gpu \in Nat : probe' = [probe EXCEPT !.ok = ok, !.gpu = gpu]
    BY <1>11, <2>1 DEF QueryApps
  <2>3. probe' \in ProbeType /\ probe'.n = probe.n
    BY <1>m, <2>2 DEF ProbeType
  <2> QED BY <1>11, <2>3 DEF QueryApps, TypeOK, Phase, ProbeType, proc, ghost
<1>12. ASSUME NEW p \in Tree, ReadRss(p) PROVE TInv'
  <2>1. Size(mem[p]) \in Nat
    BY <1>m, Sizes DEF Procs
  <2>2. PICK size \in Nat : probe' = [probe EXCEPT !.left = @ \ {p}, !.sum = @ + size]
    BY <1>12, <2>1 DEF ReadRss
  <2>3. probe.left \ {p} \in SUBSET Tree /\ probe.sum + size \in Nat
    BY <1>m, <2>2 DEF ProbeType
  <2>4. probe' \in ProbeType /\ probe'.n = probe.n
    BY <1>m, <2>2, <2>3 DEF ProbeType
  <2> QED BY <1>12, <2>4 DEF ReadRss, TypeOK, Phase, ProbeType, proc, ghost
<1>13. CASE EndSample
  <2>1. Total(Tree) \in Nat
    BY Memory
  <2>2. /\ Larger(probe.vram, probe.gpu) \in Readings /\ Larger(probe.rss, probe.sum) \in Readings
        /\ Larger(probe.held, Total(Tree)) \in Nat
    BY <1>m, <2>1 DEF Larger, ProbeType, Readings
  <2>3. probe.n + 1 \in 0 .. MaxSamples
    BY <1>13, <1>m, BoundsAssumption DEF EndSample, Phase, ProbeType
  <2>4. PICK vram \in Readings, rss \in Readings, n \in 0 .. MaxSamples, held \in Nat :
          probe' = [probe EXCEPT !.vram = vram, !.rss = rss, !.n = n, !.held = held]
    <3>1. (IF quiet /\ probe.ok THEN Larger(probe.held, Total(Tree)) ELSE probe.held) \in Nat
      BY <1>m, <2>2 DEF ProbeType
    <3> QED BY <1>13, <2>2, <2>3, <3>1 DEF EndSample
  <2>5. probe' \in ProbeType
    BY <1>m, <2>4 DEF ProbeType
  <2> QED BY <1>13, <2>5 DEF EndSample, TypeOK, Phase, ProbeType, proc, ghost
<1>14. CASE WriteFile
  <2>1. [gen |-> now.gen, vram |-> probe.vram, rss |-> probe.rss] \in Footprint
    BY <1>m, BoundsAssumption DEF TypeOK, Footprint, ProbeType
  <2>2. files' \in [Methods \X (1 .. MaxAttempts) -> Footprint]
    BY <1>14, <2>1 DEF WriteFile, TypeOK
  <2> QED BY <1>14, <2>2 DEF WriteFile, TypeOK, Phase, proc, ghost
<1>15. CASE Dies
  <2>1. mem' \in [Procs -> Levels \cup {Gone}] /\ high' = mem' /\ changes' \in 0 .. MaxChanges
    BY <1>15, BoundsAssumption DEF Dies, TypeOK
  <2>2. probe' \in ProbeType
    BY <1>15, BoundsAssumption DEF Dies, NoSample, ProbeType, Readings, Unread
  <2>3. PICK w \in BOOLEAN : lost' = lost \cup {[gen |-> now.gen, method |-> now.method,
                                                n |-> now.n, writes |-> w]}
    BY <1>15 DEF Dies
  <2>4. [gen |-> now.gen, method |-> now.method, n |-> now.n, writes |-> w] \in Lost
    BY <1>15, PathType DEF Dies, Lost
  <2>5. TypeOK'
    BY <1>15, <2>1, <2>2, <2>3, <2>4 DEF Dies, TypeOK, ProbeType
  <2>6. now.gen \in Int
    BY BoundsAssumption DEF TypeOK
  <2> QED BY <1>15, <2>3, <2>5, <2>6 DEF Dies, Phase
<1>16. ASSUME NEW o \in lost, OrphanWrites(o) PROVE TInv'
  <2>1. o \in Lost
    BY DEF TypeOK
  <2>2. PICK w \in BOOLEAN : lost' = (lost \ {o}) \cup {[o EXCEPT !.writes = w]}
    BY <1>16 DEF OrphanWrites
  <2>3. [o EXCEPT !.writes = w] \in Lost /\ [o EXCEPT !.writes = w].gen = o.gen
    BY <2>1 DEF Lost
  <2>4. PICK f \in Footprint : files' = [files EXCEPT ![<<o.method, o.n>>] = f]
    BY <1>16, OrphanLeaves
  <2>5. files' \in [Methods \X (1 .. MaxAttempts) -> Footprint]
    BY <2>4 DEF TypeOK
  <2> QED BY <1>16, <2>2, <2>3, <2>5 DEF OrphanWrites, TypeOK, Phase, proc
<1>17. CASE UNCHANGED vars
  BY <1>17 DEF vars, proc, ghost, TypeOK, Phase
<1> QED BY <1>1, <1>2, <1>3, <1>4, <1>5, <1>6, <1>7, <1>8, <1>9, <1>10, <1>11, <1>12, <1>13,
           <1>14, <1>15, <1>16, <1>17 DEF Next, RunOne, Probe

(* Every variable keeps its type.                                          *)
THEOREM TypeCorrect == Spec => []TypeOK
<1>1. Spec => []TInv
  BY InitTypes, NextTypes, PTL DEF Spec
<1>2. TInv => TypeOK
  BY DEF TInv
<1> QED BY <1>1, <1>2, PTL

-----------------------------------------------------------------------------
(* What a sample adds up is below the marks of the processes it has read.  *)
HasRead(p) == p \in probe.desc \ probe.left
Upto(f, p) == IF HasRead(p) THEN Size(f[p]) ELSE 0
Both(f) == Size(f["launcher"]) + Size(f["worker"])

OwnInv ==
  /\ \A p \in Procs : Size(mem[p]) <= Size(high[p])
  /\ probe.left \subseteq probe.desc
  /\ probe.gpu <= Both(high)
  /\ probe.sum <= Upto(high, "launcher") + Upto(high, "worker")
  /\ probe.vram <= Both(high) /\ probe.rss <= Both(high)

LEMMA InitOwn == Init => OwnInv
BY DEF Init, OwnInv, NoSample, Size, Both, Upto, HasRead, Unread, Gone, Procs, Tree

LEMMA Numbers ==
  ASSUME TypeOK
  PROVE  /\ \A p \in Procs : Size(mem[p]) \in Nat /\ Size(high[p]) \in Nat
         /\ Both(mem) \in Nat /\ Both(high) \in Nat
         /\ Upto(mem, "launcher") \in Nat /\ Upto(mem, "worker") \in Nat
         /\ Upto(high, "launcher") \in Nat /\ Upto(high, "worker") \in Nat
         /\ probe.gpu \in Nat /\ probe.sum \in Nat /\ probe.held \in Nat
         /\ probe.vram \in Int /\ probe.rss \in Int
         /\ probe.desc \subseteq Tree /\ probe.left \subseteq Tree
<1>1. \A p \in Procs : Size(mem[p]) \in Nat /\ Size(high[p]) \in Nat
  BY Memory, Sizes
<1>2. "launcher" \in Procs /\ "worker" \in Procs
  BY DEF Procs, Tree
<1>3. /\ probe.gpu \in Nat /\ probe.sum \in Nat /\ probe.held \in Nat
      /\ probe.vram \in Int /\ probe.rss \in Int
      /\ probe.desc \subseteq Tree /\ probe.left \subseteq Tree
  BY DEF TypeOK, Readings, Unread
<1> QED BY <1>1, <1>2, <1>3 DEF Both, Upto

LEMMA TotalIs ==
  ASSUME NEW procs
  PROVE  Total(procs) = (IF "launcher" \in procs THEN Size(mem["launcher"]) ELSE 0)
                        + (IF "worker" \in procs THEN Size(mem["worker"]) ELSE 0)
<1>1. Size(0) = 0
  BY DEF Size, Gone
<1> QED BY <1>1 DEF Total

LEMMA TotalBound ==
  ASSUME TypeOK, NEW procs PROVE Total(procs) \in Nat /\ Total(procs) <= Both(mem)
<1>1. Size(mem["launcher"]) \in Nat /\ Size(mem["worker"]) \in Nat
  BY Memory, Sizes DEF Procs, Tree
<1> QED BY <1>1, TotalIs DEF Both

(* In an attempt the marks only go up.                                     *)
LEMMA MarksGrow ==
  ASSUME TypeOK, TypeOK', OwnInv, UNCHANGED probe,
         \A p \in Procs : Size(high[p]) <= Size(high'[p]) /\ Size(mem'[p]) <= Size(high'[p])
  PROVE  OwnInv'
<1>1. "launcher" \in Procs /\ "worker" \in Procs
  BY DEF Procs, Tree
<1>2. /\ Size(high["launcher"]) \in Nat /\ Size(high["worker"]) \in Nat
      /\ Size(high'["launcher"]) \in Nat /\ Size(high'["worker"]) \in Nat
      /\ probe.gpu \in Nat /\ probe.sum \in Nat /\ probe.vram \in Int /\ probe.rss \in Int
  BY <1>1, Numbers, Memory, Sizes, LevelsAssumption DEF TypeOK
<1>3. Both(high) <= Both(high')
  BY <1>1, <1>2 DEF Both
<1>4. /\ Upto(high, "launcher") <= Upto(high, "launcher")' /\ Upto(high, "launcher") \in Nat
      /\ Upto(high, "launcher")' \in Nat
  BY <1>1, <1>2 DEF Upto, HasRead
<1>5. /\ Upto(high, "worker") <= Upto(high, "worker")' /\ Upto(high, "worker") \in Nat
      /\ Upto(high, "worker")' \in Nat
  BY <1>1, <1>2 DEF Upto, HasRead
<1>6. probe.sum <= Upto(high, "launcher")' + Upto(high, "worker")'
  BY <1>2, <1>4, <1>5 DEF OwnInv
<1>7. Both(high) \in Nat /\ Both(high') \in Nat
  BY <1>2 DEF Both
<1>8. probe.gpu <= Both(high') /\ probe.vram <= Both(high') /\ probe.rss <= Both(high')
  BY <1>2, <1>3, <1>7 DEF OwnInv
<1> QED BY <1>6, <1>8 DEF OwnInv, Both

LEMMA HighMem == ASSUME TypeOK, OwnInv PROVE Both(mem) <= Both(high)
<1>1. "launcher" \in Procs /\ "worker" \in Procs
  BY DEF Procs, Tree
<1> QED BY <1>1, Numbers DEF OwnInv, Both

LEMMA NextOwn == ASSUME TypeOK, TypeOK', OwnInv, [Next]_vars PROVE OwnInv'
<1>m. /\ mem \in [Procs -> Nat \cup {Gone}] /\ high \in [Procs -> Nat \cup {Gone}]
      /\ probe \in ProbeType
  BY Memory, LevelsAssumption DEF TypeOK, ProbeType
<1>1. ASSUME NEW p \in Procs, Change(p) PROVE OwnInv'
  <2>1. PICK x \in Nat \cup {Gone} :
          mem' = [mem EXCEPT ![p] = x] /\ high' = [high EXCEPT ![p] = Larger(high[p], x)]
    BY <1>1, LevelsAssumption DEF Change
  <2>2. \A y \in Nat \cup {Gone} : /\ Size(y) <= Size(Larger(y, x))
                                  /\ Size(x) <= Size(Larger(y, x))
                                  /\ Size(y) <= Size(y)
    BY <2>1 DEF Size, Larger, Gone
  <2>3. \A q \in Procs : Size(mem[q]) <= Size(high[q])
    BY DEF OwnInv
  <2>4. \A q \in Procs : Size(high[q]) <= Size(high'[q]) /\ Size(mem'[q]) <= Size(high'[q])
    BY <1>m, <2>1, <2>2, <2>3
  <2> QED BY <1>1, <2>4, MarksGrow DEF Change
<1>2. CASE LauncherEnds
  <2>1. \A q \in Procs : Size(mem'[q]) <= Size(high[q]) /\ Size(high[q]) <= Size(high[q])
    BY <1>2, <1>m, Numbers DEF LauncherEnds, OwnInv, Size, Gone
  <2> QED BY <1>2, <2>1, MarksGrow DEF LauncherEnds
<1>3. CASE Dies \/ \E m \in Methods : StartAttempt(m)
  <2>1. high' = mem' /\ probe' = NoSample
    BY <1>3 DEF StartAttempt, Dies
  <2>2. /\ \A q \in Procs : Size(mem'[q]) <= Size(mem'[q])
        /\ Both(high)' \in Nat
    <3>1. \A q \in Procs : mem'[q] \in Nat \cup {Gone}
      BY LevelsAssumption DEF TypeOK
    <3>2. "launcher" \in Procs /\ "worker" \in Procs
      BY DEF Procs, Tree
    <3>3. \A q \in Procs : Size(mem'[q]) \in Nat
      BY <3>1, Sizes
    <3>4. Both(high)' = Size(mem'["launcher"]) + Size(mem'["worker"])
      BY <2>1 DEF Both
    <3> QED BY <3>2, <3>3, <3>4
  <2>3. Upto(high, "launcher")' = 0 /\ Upto(high, "worker")' = 0
    BY <2>1 DEF Upto, HasRead, NoSample
  <2> QED
    <3>1. probe'.left = {} /\ probe'.desc = {} /\ probe'.gpu = 0 /\ probe'.sum = 0
          /\ probe'.vram = -1 /\ probe'.rss = -1
      BY <2>1 DEF NoSample, Unread
    <3> QED BY <2>1, <2>2, <2>3, <3>1 DEF OwnInv
<1>4. CASE UNCHANGED <<mem, high, probe>>
  BY <1>4 DEF OwnInv, Both, Upto, HasRead
<1>5. CASE Look
  <2>1. CASE probe' = probe
    BY <1>4, <1>5, <2>1 DEF Look, proc
  <2>2. CASE probe' # probe
    <3>1. PICK desc \in SUBSET Tree : probe' = [probe EXCEPT !.desc = desc, !.left = desc, !.sum = 0]
      BY <1>5, <2>2 DEF Look
    <3>2. /\ probe'.left = desc /\ probe'.desc = desc /\ probe'.sum = 0
          /\ probe'.gpu = probe.gpu /\ probe'.vram = probe.vram /\ probe'.rss = probe.rss
      BY <1>m, <3>1 DEF ProbeType
    <3>3. mem' = mem /\ high' = high
      BY <1>5 DEF Look, proc
    <3>4. Upto(high, "launcher")' = 0 /\ Upto(high, "worker")' = 0
      BY <3>2 DEF Upto, HasRead
    <3> QED BY <3>2, <3>3, <3>4 DEF OwnInv, Both
  <2> QED BY <2>1, <2>2
<1>6. CASE QueryApps
  <2>1. Total(probe.desc) \in Nat /\ Total(probe.desc) <= Both(high) /\ Both(high) \in Nat
    BY TotalBound, HighMem, Numbers
  <2>2. PICK ok \in BOOLEAN, gpu \in Nat :
          gpu <= Both(high) /\ probe' = [probe EXCEPT !.ok = ok, !.gpu = gpu]
    <3>1. PICK ok \in BOOLEAN :
            probe' = [probe EXCEPT !.ok = ok, !.gpu = IF ok THEN Total(probe.desc) ELSE 0]
      BY <1>6 DEF QueryApps
    <3>2. LET gpu == IF ok THEN Total(probe.desc) ELSE 0 IN gpu \in Nat /\ gpu <= Both(high)
      BY <2>1
    <3> QED BY <3>1, <3>2
  <2>3. /\ probe'.left = probe.left /\ probe'.desc = probe.desc /\ probe'.sum = probe.sum
        /\ probe'.gpu = gpu /\ probe'.vram = probe.vram /\ probe'.rss = probe.rss
    BY <1>m, <2>2 DEF ProbeType
  <2>4. mem' = mem /\ high' = high
    BY <1>6 DEF QueryApps, proc
  <2> QED BY <2>2, <2>3, <2>4 DEF OwnInv, Both, Upto, HasRead
<1>7. ASSUME NEW p \in Tree, ReadRss(p) PROVE OwnInv'
  <2>1. PICK size \in Nat : /\ size = Size(mem[p]) /\ size <= Size(high[p])
                            /\ probe' = [probe EXCEPT !.left = @ \ {p}, !.sum = @ + size]
    BY <1>7, Numbers DEF ReadRss, OwnInv, Procs
  <2>2. /\ probe'.left = probe.left \ {p} /\ probe'.desc = probe.desc
        /\ probe'.sum = probe.sum + size
        /\ probe'.gpu = probe.gpu /\ probe'.vram = probe.vram /\ probe'.rss = probe.rss
    BY <1>m, <2>1 DEF ProbeType
  <2>3. mem' = mem /\ high' = high
    BY <1>7 DEF ReadRss, proc
  <2>4. p \in probe.left /\ p \in probe.desc
    BY <1>7 DEF ReadRss, OwnInv
  <2>5. Upto(high, p) = 0 /\ Upto(high, p)' = Size(high[p])
    BY <2>2, <2>3, <2>4 DEF Upto, HasRead
  <2>6. \A q \in Tree \ {p} : Upto(high, q)' = Upto(high, q)
    BY <2>2, <2>3 DEF Upto, HasRead
  <2>7. probe.sum <= Upto(high, "launcher") + Upto(high, "worker")
    BY DEF OwnInv
  <2>8. probe.sum + size <= Upto(high, "launcher")' + Upto(high, "worker")'
    <3>1. p = "launcher" \/ p = "worker"
      BY DEF Tree
    <3>2. CASE p = "launcher"
      <4>1. Upto(high, "worker")' = Upto(high, "worker")
        BY <2>6, <3>2 DEF Tree
      <4>2. Upto(high, "launcher") = 0 /\ Upto(high, "launcher")' = Size(high["launcher"])
            /\ size <= Size(high["launcher"])
        BY <2>1, <2>5, <3>2
      <4>3. Size(high["launcher"]) \in Nat
        BY Numbers DEF Procs, Tree
      <4> QED BY <2>1, <2>7, <4>1, <4>2, <4>3, Numbers
    <3>3. CASE p = "worker"
      <4>1. Upto(high, "launcher")' = Upto(high, "launcher")
        BY <2>6, <3>3 DEF Tree
      <4>2. Upto(high, "worker") = 0 /\ Upto(high, "worker")' = Size(high["worker"])
            /\ size <= Size(high["worker"])
        BY <2>1, <2>5, <3>3
      <4>3. Size(high["worker"]) \in Nat
        BY Numbers DEF Procs, Tree
      <4> QED BY <2>1, <2>7, <4>1, <4>2, <4>3, Numbers
    <3> QED BY <3>1, <3>2, <3>3
  <2> QED BY <2>2, <2>3, <2>8 DEF OwnInv, Both
<1>8. CASE EndSample
  <2>1. /\ probe'.left = probe.left /\ probe'.desc = probe.desc /\ probe'.sum = probe.sum
        /\ probe'.gpu = probe.gpu
        /\ probe'.vram = Larger(probe.vram, probe.gpu)
        /\ probe'.rss = Larger(probe.rss, probe.sum)
    BY <1>8, <1>m DEF EndSample, ProbeType
  <2>2. mem' = mem /\ high' = high
    BY <1>8 DEF EndSample, proc
  <2>3. Upto(high, "launcher") <= Size(high["launcher"]) /\ Size(high["launcher"]) \in Nat
    BY Numbers DEF Upto, Procs, Tree
  <2>4. Upto(high, "worker") <= Size(high["worker"]) /\ Size(high["worker"]) \in Nat
    BY Numbers DEF Upto, Procs, Tree
  <2>5. probe.sum <= Both(high)
    BY <2>3, <2>4, Numbers DEF OwnInv, Both
  <2>6. Larger(probe.vram, probe.gpu) <= Both(high) /\ Larger(probe.rss, probe.sum) <= Both(high)
    BY <2>5 DEF Larger, OwnInv
  <2> QED BY <2>1, <2>2, <2>6 DEF OwnInv, Both, Upto, HasRead
<1>9. CASE \/ TerminateProbe \/ KillProbe \/ RecordAttempt \/ FootprintTable
           \/ \E m \in Methods : Reset(m)
           \/ \E o \in lost : OrphanWrites(o)
  BY <1>4, <1>9 DEF TerminateProbe, KillProbe, RecordAttempt, FootprintTable, Reset, OrphanWrites, proc
<1>10. CASE Boot \/ Wake \/ WriteFile
  BY <1>4, <1>10 DEF Boot, Wake, WriteFile, proc
<1>11. CASE UNCHANGED vars
  BY <1>4, <1>11 DEF vars, proc
<1> QED BY <1>1, <1>2, <1>3, <1>5, <1>6, <1>7, <1>8, <1>9, <1>10, <1>11 DEF Next, RunOne, Probe

(* What is measured is the method's own, whatever else runs on the GPU.    *)
THEOREM OwnReadings == Spec => []CountsOnlyOwn
<1>1. Init => TInv /\ OwnInv
  BY InitTypes, InitOwn
<1>2. TInv /\ OwnInv /\ [Next]_vars => (TInv /\ OwnInv)'
  BY NextTypes, NextOwn DEF TInv
<1>3. OwnInv => CountsOnlyOwn
  BY DEF OwnInv, CountsOnlyOwn, Both
<1> QED BY <1>1, <1>2, <1>3, PTL DEF Spec

-----------------------------------------------------------------------------
(* Where the footprint of a file can come from.                            *)
Source(m, k, g) ==
  \/ g \in {-1, 0}
  \/ g <= wiped[m]
  \/ k \in DOMAIN attempts[m] /\ g = attempts[m][k].gen
  \/ harness # "idle" /\ now.method = m /\ now.n = k /\ g = now.gen
  \/ \E o \in lost : o.method = m /\ o.n = k /\ g = o.gen

Filed(m, k) ==
  /\ files[<<m, k>>].gen <= now.gen
  /\ files[<<m, k>>].gen = -1 => files[<<m, k>>] = Broken
  /\ Source(m, k, files[<<m, k>>].gen)

FileInv == \A m \in Methods, k \in 1 .. MaxAttempts : Filed(m, k)

PrintInv == FileInv /\ OwnFootprint

LEMMA InitPrint == Init => PrintInv
BY BoundsAssumption DEF Init, PrintInv, FileInv, Filed, OwnFootprint, Source, NoFile, Broken

LEMMA FileTypes ==
  ASSUME TypeOK, NEW m \in Methods, NEW k \in 1 .. MaxAttempts
  PROVE  files[<<m, k>>] \in Footprint /\ files[<<m, k>>].gen \in Int /\ files[<<m, k>>].gen >= -1
<1>1. files[<<m, k>>] \in Footprint
  BY DEF TypeOK
<1> QED BY <1>1, BoundsAssumption DEF Footprint

(* Two writes: a footprint of this attempt, or half of one.                *)
LEMMA Written ==
  ASSUME TInv, PrintInv, harness # "idle", UNCHANGED <<now, wiped, lost, attempts>>, harness' # "idle",
         NEW f \in {[gen |-> now.gen, vram |-> probe.vram, rss |-> probe.rss], Broken},
         files' = [files EXCEPT ![FootprintPath(now)] = f]
  PROVE  PrintInv'
<1>1. /\ FootprintPath(now) = <<now.method, now.n>> /\ now.gen \in Nat /\ now.gen >= 1
      /\ files \in [Methods \X (1 .. MaxAttempts) -> Footprint]
  BY PathType, BoundsAssumption DEF TInv, TypeOK
<1>2. f.gen \in {now.gen, -1} /\ (f.gen = -1 => f = Broken)
  BY <1>1 DEF Broken, NoFile
<1>3. ASSUME NEW m \in Methods, NEW k \in 1 .. MaxAttempts
      PROVE  Filed(m, k)'
  <2>1. CASE m = now.method /\ k = now.n
    <3>1. files'[<<m, k>>] = f
      BY <1>1, <2>1
    <3> QED BY <1>1, <1>2, <2>1, <3>1 DEF Filed, Source
  <2>2. CASE ~(m = now.method /\ k = now.n)
    <3>1. files'[<<m, k>>] = files[<<m, k>>]
      BY <1>1, <2>2
    <3>2. Filed(m, k)
      BY DEF PrintInv, FileInv
    <3> QED BY <2>2, <3>1, <3>2 DEF Filed, Source
  <2> QED BY <2>1, <2>2
<1> QED BY <1>3 DEF PrintInv, FileInv, OwnFootprint

LEMMA NextPrint == ASSUME TInv, TInv', PrintInv, [Next]_vars PROVE PrintInv'
<1>a. attempts \in [Methods -> Seq(Attempt)]
  BY DEF TInv, TypeOK
<1>1. ASSUME NEW m \in Methods, StartAttempt(m) PROVE PrintInv'
  <2>1. now'.gen = now.gen + 1 /\ now.gen \in Nat
    BY <1>1, BoundsAssumption DEF StartAttempt, TInv, TypeOK
  <2>2. \A l \in Methods, k \in 1 .. MaxAttempts : files[<<l, k>>].gen \in Int
    BY FileTypes DEF TInv
  <2>3. harness = "idle" /\ UNCHANGED <<files, attempts, wiped, lost>>
    BY <1>1 DEF StartAttempt, ghost
  <2>4. OwnFootprint'
    BY <2>3 DEF PrintInv, OwnFootprint
  <2> QED BY <2>1, <2>2, <2>3, <2>4 DEF PrintInv, FileInv, Filed, Source
<1>2. CASE KillProbe
  <2>1. harness # "idle" /\ harness' # "idle" /\ UNCHANGED <<now, wiped, lost, attempts>>
    BY <1>2 DEF KillProbe, ghost
  <2>2. CASE UNCHANGED files
    BY <1>2, <2>1, <2>2 DEF KillProbe, PrintInv, FileInv, Filed, OwnFootprint, Source
  <2>3. CASE files' = [files EXCEPT ![FootprintPath(now)] = Broken]
    BY <2>1, <2>3, Written
  <2> QED BY <1>2, <2>2, <2>3 DEF KillProbe
<1>3. CASE WriteFile
  <2>1. harness # "idle" /\ harness' # "idle" /\ UNCHANGED <<now, wiped, lost, attempts>>
    BY <1>3 DEF WriteFile, TInv, Phase, ghost
  <2> QED BY <1>3, <2>1, Written DEF WriteFile
<1>4. CASE RecordAttempt
  <2> DEFINE f == files[<<now.method, now.n>>]
             m == now.method
  <2>1. /\ FootprintPath(now) = <<m, now.n>> /\ harness # "idle" /\ m \in Methods
        /\ now.n \in 1 .. MaxAttempts /\ now.n = Len(attempts[m]) + 1
        /\ now.gen \in Nat /\ now.gen >= 1
    BY <1>4, PathType, BoundsAssumption DEF RecordAttempt, TInv, Phase
  <2>0. PICK loss \in BOOLEAN :
          attempts' = [attempts EXCEPT ![m] = Append(@,
            [gen |-> now.gen, loss |-> loss, held |-> probe.held, print |-> FootprintSummary(f)])]
    BY <1>4, <2>1 DEF RecordAttempt
  <2> DEFINE a == [gen |-> now.gen, loss |-> loss, held |-> probe.held,
                   print |-> FootprintSummary(f)]
  <2>2. /\ attempts' = [attempts EXCEPT ![m] = Append(@, a)]
        /\ a.gen = now.gen /\ a.print = FootprintSummary(f)
    BY <2>0
  <2> HIDE DEF a
  <2>3. harness' = "idle" /\ UNCHANGED <<now, files, wiped, lost>>
    BY <1>4 DEF RecordAttempt, ghost
  <2>4. /\ DOMAIN attempts'[m] = 1 .. now.n /\ attempts'[m][now.n] = a
        /\ \A k \in DOMAIN attempts[m] : k # now.n /\ attempts'[m][k] = attempts[m][k]
        /\ now.n \notin DOMAIN attempts[m]
        /\ DOMAIN attempts[m] = 1 .. now.n - 1
    BY <1>a, <2>1, <2>2
  <2>5. \A l \in Methods \ {m} : attempts'[l] = attempts[l]
    BY <1>a, <2>2
  <2> DEFINE Lately == \E o \in lost : o.method = m /\ o.n = now.n /\ a.print.gen = o.gen
  <2>6. a.print.gen \in {0, now.gen} \/ a.print.gen \in 1 .. wiped[m] \/ Lately
    <3>1. f.gen = -1 => f = Broken
      BY <2>1 DEF PrintInv, FileInv, Filed
    <3>2. Source(m, now.n, f.gen)
      BY <2>1 DEF PrintInv, FileInv, Filed
    <3>3. f.gen \in Int /\ f.gen >= -1
      BY <2>1, FileTypes DEF TInv
    <3>6. wiped[m] \in Int
      BY <2>1, BoundsAssumption DEF TInv, TypeOK
    <3>4. CASE f = Broken
      BY <2>2, <3>4 DEF FootprintSummary, NoFile
    <3>5. CASE f # Broken
      <4>1. a.print.gen = f.gen
        BY <2>2, <3>5 DEF FootprintSummary
      <4>2. f.gen = 0 \/ f.gen <= wiped[m] \/ f.gen = now.gen \/ Lately
        BY <2>4, <3>1, <3>2, <3>5, <4>1 DEF Source
      <4> QED BY <3>1, <3>3, <3>5, <3>6, <4>1, <4>2
    <3> QED BY <3>4, <3>5
  <2>7. OwnFootprint'
    <3>1. ASSUME NEW l \in Methods, NEW k \in DOMAIN attempts'[l]
          PROVE  LET b == attempts'[l][k]
                 IN \/ b.print.gen \in {0, b.gen} \/ b.print.gen \in 1 .. wiped[l]
                    \/ \E o \in lost : o.method = l /\ o.n = k /\ b.print.gen = o.gen
      <4>1. CASE l = m /\ k = now.n
        BY <2>2, <2>4, <2>6, <4>1
      <4>2. CASE l = m /\ k # now.n
        <5>1. k \in DOMAIN attempts[m] /\ attempts'[m][k] = attempts[m][k]
          BY <2>1, <2>4, <4>2
        <5> QED BY <2>1, <4>2, <5>1 DEF PrintInv, OwnFootprint
      <4>3. CASE l # m
        BY <2>5, <4>3 DEF PrintInv, OwnFootprint
      <4> QED BY <4>1, <4>2, <4>3
    <3> QED BY <2>3, <3>1 DEF OwnFootprint
  <2>8. ASSUME NEW l \in Methods, NEW k \in 1 .. MaxAttempts
        PROVE  Source(l, k, files[<<l, k>>].gen)'
    <3> DEFINE g == files[<<l, k>>].gen
    <3>1. Source(l, k, g)
      BY DEF PrintInv, FileInv, Filed
    <3>2. CASE l = m /\ k = now.n /\ g = now.gen
      <4>1. k \in DOMAIN attempts'[l] /\ attempts'[l][k].gen = now.gen
        BY <2>1, <2>2, <2>4, <3>2
      <4> QED BY <2>3, <3>2, <4>1 DEF Source
    <3>3. CASE k \in DOMAIN attempts[l] /\ g = attempts[l][k].gen
      <4>1. k \in DOMAIN attempts'[l] /\ attempts'[l][k] = attempts[l][k]
        BY <2>1, <2>4, <2>5, <3>3
      <4> QED BY <2>3, <3>3, <4>1 DEF Source
    <3>4. CASE \/ g \in {-1, 0} \/ g <= wiped[l]
               \/ \E o \in lost : o.method = l /\ o.n = k /\ g = o.gen
      BY <2>3, <3>4 DEF Source
    <3> QED BY <3>1, <3>2, <3>3, <3>4 DEF Source
  <2>9. FileInv'
    BY <2>3, <2>8 DEF PrintInv, FileInv, Filed
  <2> QED BY <2>7, <2>9 DEF PrintInv
<1>5. ASSUME NEW m \in Methods, Reset(m) PROVE PrintInv'
  <2>1. /\ attempts' = [attempts EXCEPT ![m] = <<>>] /\ wiped' = [wiped EXCEPT ![m] = now.gen]
        /\ harness = "idle" /\ UNCHANGED <<harness, now, files, lost>>
    BY <1>5 DEF Reset, proc
  <2>2. attempts'[m] = <<>> /\ wiped'[m] = now.gen
    BY <1>a, <2>1 DEF TInv, TypeOK
  <2>3. \A l \in Methods \ {m} : attempts'[l] = attempts[l] /\ wiped'[l] = wiped[l]
    BY <1>a, <2>1 DEF TInv, TypeOK
  <2>4. OwnFootprint'
    <3>1. DOMAIN attempts'[m] = {}
      BY <2>2
    <3>2. ASSUME NEW l \in Methods, NEW k \in DOMAIN attempts'[l]
          PROVE  LET b == attempts'[l][k]
                 IN \/ b.print.gen \in {0, b.gen} \/ b.print.gen \in 1 .. wiped'[l]
                    \/ \E o \in lost : o.method = l /\ o.n = k /\ b.print.gen = o.gen
      <4>1. l \in Methods \ {m} /\ attempts'[l] = attempts[l] /\ wiped'[l] = wiped[l]
        BY <2>3, <3>1
      <4>2. k \in DOMAIN attempts[l]
        BY <4>1
      <4> QED BY <4>1, <4>2 DEF PrintInv, OwnFootprint
    <3> QED BY <2>1, <3>2 DEF OwnFootprint
  <2>5. ASSUME NEW l \in Methods, NEW k \in 1 .. MaxAttempts
        PROVE  Source(l, k, files[<<l, k>>].gen)'
    <3>1. Source(l, k, files[<<l, k>>].gen) /\ files[<<l, k>>].gen <= now.gen
      BY DEF PrintInv, FileInv, Filed
    <3>2. CASE l = m
      BY <2>1, <2>2, <3>1, <3>2 DEF Source
    <3>3. CASE l # m
      BY <2>1, <2>3, <3>1, <3>3 DEF Source
    <3> QED BY <3>2, <3>3
  <2> QED BY <2>1, <2>4, <2>5 DEF PrintInv, FileInv, Filed
<1>6. CASE /\ UNCHANGED <<now, files, attempts, wiped, lost>>
           /\ harness # "idle" => harness' # "idle"
  BY <1>6 DEF PrintInv, FileInv, Filed, OwnFootprint, Source
<1>7. CASE TerminateProbe \/ FootprintTable \/ LauncherEnds \/ \E p \in Procs : Change(p)
  BY <1>6, <1>7 DEF TerminateProbe, FootprintTable, LauncherEnds, Change, ghost
<1>8. CASE Boot \/ Wake \/ QueryApps \/ EndSample \/ Look \/ \E p \in Tree : ReadRss(p)
  BY <1>6, <1>8 DEF Boot, Wake, QueryApps, EndSample, Look, ReadRss, ghost
<1>9. CASE UNCHANGED vars
  BY <1>6, <1>9 DEF vars, ghost
<1>10. CASE Dies
  <2>1. /\ UNCHANGED <<now, files, attempts, wiped>> /\ harness # "idle" /\ lost \subseteq lost'
        /\ \E o \in lost' : o.method = now.method /\ o.n = now.n /\ o.gen = now.gen
    <3> DEFINE o == [gen |-> now.gen, method |-> now.method, n |-> now.n, writes |-> pc # "none"]
    <3>1. o.method = now.method /\ o.n = now.n /\ o.gen = now.gen
      OBVIOUS
    <3>2. lost' = lost \cup {o}
      BY <1>10 DEF Dies
    <3> HIDE DEF o
    <3>3. o \in lost' /\ lost \subseteq lost'
      BY <3>2
    <3> QED BY <1>10, <3>1, <3>3 DEF Dies
  <2>2. OwnFootprint'
    BY <2>1 DEF PrintInv, OwnFootprint
  <2>3. ASSUME NEW l \in Methods, NEW k \in 1 .. MaxAttempts PROVE Filed(l, k)'
    <3>1. Filed(l, k)
      BY DEF PrintInv, FileInv
    <3>2. Source(l, k, files[<<l, k>>].gen)'
      BY <2>1, <3>1 DEF Filed, Source
    <3> QED BY <2>1, <3>1, <3>2 DEF Filed
  <2> QED BY <2>2, <2>3 DEF PrintInv, FileInv
<1>11. ASSUME NEW o \in lost, OrphanWrites(o) PROVE PrintInv'
  <2>1. /\ UNCHANGED <<now, attempts, wiped, harness>> /\ o \in Lost
        /\ FootprintPath(o) = <<o.method, o.n>>
    BY <1>11 DEF OrphanWrites, TInv, TypeOK, FootprintPath
  <2>2. \A q \in lost : \E t \in lost' : t.method = q.method /\ t.n = q.n /\ t.gen = q.gen
    <3>1. PICK w \in BOOLEAN : lost' = (lost \ {o}) \cup {[o EXCEPT !.writes = w]}
      BY <1>11 DEF OrphanWrites
    <3>2. LET t == [o EXCEPT !.writes = w] IN t.method = o.method /\ t.n = o.n /\ t.gen = o.gen
      BY <2>1 DEF Lost
    <3> QED BY <3>1, <3>2
  <2>3. PICK f : /\ files' = [files EXCEPT ![<<o.method, o.n>>] = f]
                 /\ f = Broken \/ f.gen = o.gen
    BY <1>11, OrphanLeaves
  <2>4. o.gen >= 1 /\ o.gen \in Nat /\ o.gen <= now.gen /\ Broken.gen = -1 /\ now.gen \in Nat
    <3>1. o.gen <= now.gen
      BY DEF TInv, Phase
    <3>2. now.gen \in Nat
      BY BoundsAssumption DEF TInv, TypeOK
    <3> QED BY <1>11, <3>1, <3>2, OrphanLeaves
  <2>5. OwnFootprint'
    BY <2>1, <2>2 DEF PrintInv, OwnFootprint
  <2>6. ASSUME NEW l \in Methods, NEW k \in 1 .. MaxAttempts PROVE Filed(l, k)'
    <3>1. CASE l = o.method /\ k = o.n
      <4>1. files'[<<l, k>>] = f
        BY <2>3, <3>1 DEF TInv, TypeOK
      <4>2. Source(l, k, f.gen)'
        BY <2>2, <2>3, <2>4, <3>1 DEF Source
      <4> QED BY <2>1, <2>3, <2>4, <4>1, <4>2 DEF Filed
    <3>2. CASE ~(l = o.method /\ k = o.n)
      <4>1. files'[<<l, k>>] = files[<<l, k>>]
        BY <2>3, <3>2 DEF TInv, TypeOK
      <4>2. Filed(l, k)
        BY DEF PrintInv, FileInv
      <4>3. Source(l, k, files[<<l, k>>].gen)'
        BY <2>1, <2>2, <4>1, <4>2 DEF Filed, Source
      <4> QED BY <2>1, <4>1, <4>2, <4>3 DEF Filed
    <3> QED BY <3>1, <3>2
  <2> QED BY <2>5, <2>6 DEF PrintInv, FileInv
<1> QED BY <1>1, <1>2, <1>3, <1>4, <1>5, <1>7, <1>8, <1>9, <1>10, <1>11 DEF Next, RunOne, Probe

(* An attempt carries its own footprint, none, one from before the latest  *)
(* --reset of its method, or one of an attempt of the same number that     *)
(* was lost with its harness, however late that one's probe writes.        *)
THEOREM FootprintsAreOwn == Spec => []OwnFootprint
<1>1. Init => TInv /\ PrintInv
  BY InitTypes, InitPrint
<1>2. TInv /\ PrintInv /\ [Next]_vars => (TInv /\ PrintInv)'
  BY NextTypes, NextPrint
<1>3. PrintInv => OwnFootprint
  BY DEF PrintInv
<1> QED BY <1>1, <1>2, <1>3, PTL DEF Spec

-----------------------------------------------------------------------------
(* A sample that nothing disturbed saw what the tree held.                 *)
Live == {p \in Tree : mem[p] # Gone}

Sampled ==
  pc \in {"apps", "rss"} /\ quiet =>
    /\ probe.desc = Live
    /\ probe.sum = Upto(mem, "launcher") + Upto(mem, "worker")
    /\ pc = "rss" /\ probe.ok => probe.gpu = Total(Tree)

Below == probe.held <= Size(probe.vram) /\ probe.held <= Size(probe.rss)

LEMMA LiveTotal == ASSUME TypeOK PROVE Total(Live) = Total(Tree)
<1>1. Size(Gone) = 0
  BY DEF Size
<1> QED BY <1>1, TotalIs DEF Live, Tree

LEMMA NextSampled ==
  ASSUME TInv, OwnInv, Sampled, Below, [Next]_vars
  PROVE  Sampled' /\ Below'
<1>m. probe \in ProbeType
  BY DEF TInv, TypeOK, ProbeType
<1>0. TypeOK
  BY DEF TInv
<1>1. CASE /\ UNCHANGED <<mem, probe>>
           /\ \/ quiet' = FALSE \/ pc' \notin {"apps", "rss"}
              \/ UNCHANGED <<quiet, pc>>
  BY <1>1 DEF Sampled, Below, Live, Total, Upto, HasRead
<1>2. CASE Dies \/ \E m \in Methods : StartAttempt(m)
  <2>1. probe' = NoSample /\ pc' \in {"boot", "none"}
    BY <1>2 DEF StartAttempt, Dies
  <2>2. probe'.held = 0 /\ probe'.vram = Gone /\ probe'.rss = Gone
    BY <2>1 DEF NoSample, Unread, Gone
  <2> QED BY <2>1, <2>2 DEF Sampled, Below, Size
<1>3. CASE LauncherEnds \/ \E p \in Procs : Change(p)
  <2>1. quiet' = FALSE /\ probe' = probe
    BY <1>3 DEF LauncherEnds, Change
  <2> QED BY <2>1 DEF Sampled, Below
<1>4. CASE Look
  <2>1. CASE pc' = "write" /\ UNCHANGED <<probe, quiet>>
    BY <1>1, <1>4, <2>1 DEF Look, proc
  <2>2. CASE ~(pc' = "write" /\ UNCHANGED <<probe, quiet>>)
    <3>1. /\ pc' = "apps" /\ mem' = mem
          /\ probe' = [probe EXCEPT !.desc = Live, !.left = Live, !.sum = 0]
      BY <1>4, <2>2 DEF Look, proc, Live
    <3>2. /\ probe'.left = Live /\ probe'.desc = Live /\ probe'.sum = 0
          /\ probe'.held = probe.held /\ probe'.vram = probe.vram /\ probe'.rss = probe.rss
      BY <1>m, <3>1 DEF ProbeType
    <3>3. Upto(mem, "launcher")' = 0 /\ Upto(mem, "worker")' = 0
      BY <3>2 DEF Upto, HasRead
    <3>4. Live' = Live
      BY <3>1 DEF Live
    <3> QED BY <3>1, <3>2, <3>3, <3>4 DEF Sampled, Below
  <2> QED BY <2>1, <2>2
<1>5. CASE QueryApps
  <2>1. PICK ok \in BOOLEAN :
          probe' = [probe EXCEPT !.ok = ok, !.gpu = IF ok THEN Total(probe.desc) ELSE 0]
    BY <1>5 DEF QueryApps
  <2>2. /\ probe'.left = probe.left /\ probe'.desc = probe.desc /\ probe'.sum = probe.sum
        /\ probe'.held = probe.held /\ probe'.vram = probe.vram /\ probe'.rss = probe.rss
        /\ probe'.ok => probe'.gpu = Total(probe.desc)
    BY <1>m, <2>1 DEF ProbeType
  <2>3. pc = "apps" /\ mem' = mem /\ quiet' = quiet
    BY <1>5 DEF QueryApps, proc, ghost
  <2>4. Live' = Live /\ Total(Tree)' = Total(Tree)
    BY <2>3 DEF Live, Total
  <2>5. Upto(mem, "launcher")' = Upto(mem, "launcher") /\ Upto(mem, "worker")' = Upto(mem, "worker")
    BY <2>2, <2>3 DEF Upto, HasRead
  <2>6. quiet => /\ probe.desc = Live
                 /\ probe.sum = Upto(mem, "launcher") + Upto(mem, "worker")
    BY <2>3 DEF Sampled
  <2>7. quiet /\ probe'.ok => probe'.gpu = Total(Tree)
    BY <1>0, <2>2, <2>6, LiveTotal
  <2>8. Sampled'
    BY <2>2, <2>3, <2>4, <2>5, <2>6, <2>7 DEF Sampled
  <2>9. Below'
    BY <2>2 DEF Below
  <2> QED BY <2>8, <2>9
<1>6. ASSUME NEW p \in Tree, ReadRss(p) PROVE Sampled' /\ Below'
  <2>1. PICK size \in Nat : /\ size = Size(mem[p])
                            /\ probe' = [probe EXCEPT !.left = @ \ {p}, !.sum = @ + size]
    BY <1>0, <1>6, Numbers DEF ReadRss, Procs
  <2>2. /\ probe'.left = probe.left \ {p} /\ probe'.desc = probe.desc
        /\ probe'.sum = probe.sum + size
        /\ probe'.gpu = probe.gpu /\ probe'.vram = probe.vram /\ probe'.rss = probe.rss
        /\ probe'.held = probe.held /\ probe'.ok = probe.ok
    BY <1>m, <2>1 DEF ProbeType
  <2>3. pc = "rss" /\ pc' = pc /\ mem' = mem /\ quiet' = quiet
    BY <1>6 DEF ReadRss, proc, ghost
  <2>4. p \in probe.left /\ p \in probe.desc
    BY <1>6 DEF ReadRss, OwnInv
  <2>5. Upto(mem, p) = 0 /\ Upto(mem, p)' = size
    BY <2>1, <2>2, <2>3, <2>4 DEF Upto, HasRead
  <2>6. \A q \in Tree \ {p} : Upto(mem, q)' = Upto(mem, q)
    BY <2>2, <2>3 DEF Upto, HasRead
  <2>7. /\ Upto(mem, "launcher") \in Nat /\ Upto(mem, "worker") \in Nat /\ probe.sum \in Nat
    BY <1>0, Numbers
  <2>8. quiet => probe'.sum = Upto(mem, "launcher")' + Upto(mem, "worker")'
    <3>1. quiet => probe.sum = Upto(mem, "launcher") + Upto(mem, "worker")
      BY <2>3 DEF Sampled
    <3>2. CASE p = "launcher"
      <4>1. Upto(mem, "worker")' = Upto(mem, "worker")
        BY <2>6, <3>2 DEF Tree
      <4>2. Upto(mem, "launcher") = 0 /\ Upto(mem, "launcher")' = size
        BY <2>5, <3>2
      <4> QED BY <2>1, <2>2, <2>7, <3>1, <4>1, <4>2
    <3>3. CASE p = "worker"
      <4>1. Upto(mem, "launcher")' = Upto(mem, "launcher")
        BY <2>6, <3>3 DEF Tree
      <4>2. Upto(mem, "worker") = 0 /\ Upto(mem, "worker")' = size
        BY <2>5, <3>3
      <4> QED BY <2>1, <2>2, <2>7, <3>1, <4>1, <4>2
    <3> QED BY <3>2, <3>3 DEF Tree
  <2>9. Live' = Live /\ Total(Tree)' = Total(Tree)
    BY <2>3 DEF Live, Total
  <2>10. Sampled'
    BY <2>2, <2>3, <2>8, <2>9 DEF Sampled
  <2>11. Below'
    BY <2>2 DEF Below
  <2> QED BY <2>10, <2>11
<1>7. CASE EndSample
  <2> DEFINE t == Total(Tree)
  <2>1. pc = "rss" /\ probe.left = {} /\ pc' = "sleep"
    BY <1>7 DEF EndSample
  <2>2. /\ probe'.vram = Larger(probe.vram, probe.gpu)
        /\ probe'.rss = Larger(probe.rss, probe.sum)
        /\ probe'.held = IF quiet /\ probe.ok THEN Larger(probe.held, t) ELSE probe.held
    BY <1>7, <1>m DEF EndSample, ProbeType
  <2>3. quiet /\ probe.ok => probe.gpu = t /\ probe.sum = t
    <3>1. ASSUME quiet, probe.ok PROVE probe.sum = t
      <4>1. probe.desc = Live /\ probe.sum = Upto(mem, "launcher") + Upto(mem, "worker")
        BY <2>1, <3>1 DEF Sampled
      <4>2. Size(Gone) = 0
        BY DEF Size
      <4>3. Upto(mem, "launcher") = Size(mem["launcher"]) /\ Upto(mem, "worker") = Size(mem["worker"])
        BY <2>1, <4>1, <4>2 DEF Upto, HasRead, Live, Tree
      <4>4. t = Size(mem["launcher"]) + Size(mem["worker"])
        BY TotalIs DEF Tree
      <4> QED BY <4>1, <4>3, <4>4
    <3> QED BY <2>1, <3>1 DEF Sampled
  <2>4. /\ t \in Nat /\ probe.held \in Nat /\ probe.gpu \in Nat /\ probe.sum \in Nat
        /\ probe.vram \in Nat \cup {-1} /\ probe.rss \in Nat \cup {-1}
    BY <1>0, <1>m, Memory DEF ProbeType, Readings, Unread
  <2>5. \A x \in Nat \cup {-1}, y \in Nat :
          Size(Larger(x, y)) >= y /\ Size(Larger(x, y)) >= Size(x) /\ Size(Larger(x, y)) \in Nat
          /\ Size(x) \in Nat
    BY DEF Size, Larger, Gone
  <2>6. /\ Size(probe'.vram) >= probe.gpu /\ Size(probe'.vram) >= Size(probe.vram)
        /\ Size(probe'.rss) >= probe.sum /\ Size(probe'.rss) >= Size(probe.rss)
        /\ Size(probe'.vram) \in Nat /\ Size(probe'.rss) \in Nat
        /\ Size(probe.vram) \in Nat /\ Size(probe.rss) \in Nat
    BY <2>2, <2>4, <2>5
  <2>7. probe.held <= Size(probe.vram) /\ probe.held <= Size(probe.rss)
    BY DEF Below
  <2>8. probe'.held = probe.held \/ (probe'.held = t /\ probe.gpu = t /\ probe.sum = t)
    BY <2>2, <2>3 DEF Larger
  <2>9. Below'
    <3> HIDE DEF t
    <3> QED BY <2>4, <2>6, <2>7, <2>8 DEF Below
  <2> QED BY <2>1, <2>9 DEF Sampled
<1>8. CASE TerminateProbe \/ KillProbe \/ RecordAttempt \/ FootprintTable \/ Boot \/ Wake
           \/ WriteFile \/ (\E m \in Methods : Reset(m)) \/ \E o \in lost : OrphanWrites(o)
  BY <1>1, <1>8 DEF TerminateProbe, KillProbe, RecordAttempt, FootprintTable, Boot, Wake, WriteFile,
     Reset, OrphanWrites, proc, ghost
<1>9. CASE UNCHANGED vars
  BY <1>1, <1>9 DEF vars, proc, ghost
<1> QED BY <1>2, <1>3, <1>4, <1>5, <1>6, <1>7, <1>8, <1>9 DEF Next, RunOne, Probe

-----------------------------------------------------------------------------
(* What an attempt held is below its own footprint.                        *)
OnFile ==
  harness # "idle" /\ files[<<now.method, now.n>>].gen = now.gen =>
    /\ pc = "none"
    /\ files[<<now.method, now.n>>].vram = probe.vram
    /\ files[<<now.method, now.n>>].rss = probe.rss

Carried ==
  \A m \in Methods : \A k \in DOMAIN attempts[m] :
    LET a == attempts[m][k]
    IN a.print.gen = a.gen => a.held <= Size(a.print.vram) /\ a.held <= Size(a.print.rss)

HeldInv == OnFile /\ Carried

LEMMA InitHeld == Init => HeldInv /\ Sampled /\ Below
<1> SUFFICES ASSUME Init PROVE HeldInv /\ Sampled /\ Below
  OBVIOUS
<1>1. HeldInv
  BY DEF Init, HeldInv, OnFile, Carried
<1>2. Sampled
  BY DEF Init, Sampled
<1>3. Below
  BY DEF Init, Below, NoSample, Size, Gone, Unread
<1> QED BY <1>1, <1>2, <1>3

LEMMA NextHeld ==
  ASSUME TInv, TInv', PrintInv, HeldInv, Below, [Next]_vars
  PROVE  HeldInv'
<1>a. attempts \in [Methods -> Seq(Attempt)]
  BY DEF TInv, TypeOK
<1>1. CASE UNCHANGED <<attempts, harness, now, files, pc, probe>>
  BY <1>1 DEF HeldInv, OnFile, Carried
<1>2. ASSUME NEW m \in Methods, StartAttempt(m) PROVE HeldInv'
  <2>1. now'.gen = now.gen + 1 /\ now.gen \in Nat /\ UNCHANGED <<files, attempts>> /\ harness' # "idle"
    BY <1>2, BoundsAssumption DEF StartAttempt, TInv, TypeOK
  <2>2. now'.method \in Methods /\ now'.n \in 1 .. MaxAttempts
    <3>1. harness' # "idle" /\ TypeOK' /\ Phase'
      BY <2>1 DEF TInv
    <3>2. now'.method = m /\ now'.n = Len(attempts[m]) + 1 /\ Len(attempts[m]) \in Nat
      BY <1>a, <1>2 DEF StartAttempt
    <3>3. now'.n \in 0 .. MaxAttempts
      BY <3>1 DEF TypeOK
    <3> QED BY <3>2, <3>3, BoundsAssumption
  <2>3. Filed(now'.method, now'.n)
    BY <2>2 DEF PrintInv, FileInv
  <2>4. files[<<now'.method, now'.n>>].gen \in Int
    BY <2>2, FileTypes DEF TInv
  <2>5. files[<<now'.method, now'.n>>].gen # now'.gen
    BY <2>1, <2>3, <2>4 DEF Filed
  <2>6. OnFile'
    BY <2>1, <2>5 DEF OnFile
  <2>7. Carried'
    BY <2>1 DEF HeldInv, Carried
  <2> QED BY <2>6, <2>7 DEF HeldInv
<1>3. CASE KillProbe
  <2>1. /\ FootprintPath(now) = <<now.method, now.n>> /\ now.gen \in Nat /\ now.gen >= 1
        /\ <<now.method, now.n>> \in Methods \X (1 .. MaxAttempts)
    BY <1>3, PathType, BoundsAssumption DEF KillProbe
  <2>2. UNCHANGED <<now, attempts, probe>> /\ pc' = "none" /\ pc # "none" /\ harness' = harness
    BY <1>3 DEF KillProbe, ghost
  <2>3. Carried'
    BY <2>2 DEF HeldInv, Carried
  <2>4. CASE UNCHANGED files
    BY <2>2, <2>3, <2>4 DEF HeldInv, OnFile
  <2>5. CASE files' = [files EXCEPT ![FootprintPath(now)] = Broken]
    <3>1. files'[<<now.method, now.n>>] = Broken
      BY <2>1, <2>5 DEF TInv, TypeOK
    <3>2. files'[<<now.method, now.n>>].gen = -1
      BY <3>1 DEF Broken, NoFile
    <3> QED BY <2>1, <2>2, <2>3, <3>2 DEF HeldInv, OnFile
  <2> QED BY <1>3, <2>4, <2>5 DEF KillProbe
<1>4. CASE WriteFile
  <2>1. harness # "idle" /\ UNCHANGED <<harness, now, attempts, probe>> /\ pc' = "none"
    BY <1>4 DEF WriteFile, TInv, Phase, ghost
  <2>2. files' = [files EXCEPT ![<<now.method, now.n>>] =
                    [gen |-> now.gen, vram |-> probe.vram, rss |-> probe.rss]]
        /\ <<now.method, now.n>> \in Methods \X (1 .. MaxAttempts)
    BY <1>4, <2>1, PathType DEF WriteFile
  <2>3. files'[<<now.method, now.n>>] = [gen |-> now.gen, vram |-> probe.vram, rss |-> probe.rss]
    BY <2>2 DEF TInv, TypeOK
  <2> QED BY <2>1, <2>3 DEF HeldInv, OnFile, Carried
<1>5. CASE RecordAttempt
  <2> DEFINE f == files[<<now.method, now.n>>]
             m == now.method
  <2>1. /\ FootprintPath(now) = <<m, now.n>> /\ harness # "idle" /\ m \in Methods
        /\ now.n = Len(attempts[m]) + 1 /\ now.gen \in Nat /\ now.gen >= 1
    BY <1>5, PathType, BoundsAssumption DEF RecordAttempt, TInv, Phase
  <2>0. PICK loss \in BOOLEAN :
          attempts' = [attempts EXCEPT ![m] = Append(@,
            [gen |-> now.gen, loss |-> loss, held |-> probe.held, print |-> FootprintSummary(f)])]
    BY <1>5, <2>1 DEF RecordAttempt
  <2> DEFINE a == [gen |-> now.gen, loss |-> loss, held |-> probe.held,
                   print |-> FootprintSummary(f)]
  <2>2. /\ attempts' = [attempts EXCEPT ![m] = Append(@, a)]
        /\ a.gen = now.gen /\ a.held = probe.held /\ a.print = FootprintSummary(f)
    BY <2>0
  <2> HIDE DEF a
  <2>3. harness' = "idle"
    BY <1>5 DEF RecordAttempt
  <2>4. /\ attempts'[m][now.n] = a
        /\ DOMAIN attempts'[m] = DOMAIN attempts[m] \cup {now.n}
        /\ \A k \in DOMAIN attempts[m] : k # now.n /\ attempts'[m][k] = attempts[m][k]
    BY <1>a, <2>1, <2>2
  <2>5. \A l \in Methods \ {m} : attempts'[l] = attempts[l]
    BY <1>a, <2>2
  <2>6. a.print.gen = a.gen => a.held <= Size(a.print.vram) /\ a.held <= Size(a.print.rss)
    <3>1. CASE f = Broken
      BY <2>1, <2>2, <3>1 DEF FootprintSummary, NoFile
    <3>2. CASE f # Broken
      <4>1. a.print = f
        BY <2>2, <3>2 DEF FootprintSummary
      <4> QED BY <2>1, <2>2, <4>1 DEF HeldInv, OnFile, Below
    <3> QED BY <3>1, <3>2
  <2>7. Carried'
    <3>1. ASSUME NEW l \in Methods, NEW k \in DOMAIN attempts'[l]
          PROVE  LET b == attempts'[l][k]
                 IN b.print.gen = b.gen => b.held <= Size(b.print.vram) /\ b.held <= Size(b.print.rss)
      <4>1. CASE l = m /\ k = now.n
        BY <2>4, <2>6, <4>1
      <4>2. CASE l = m /\ k # now.n
        <5>1. k \in DOMAIN attempts[m] /\ attempts'[m][k] = attempts[m][k]
          BY <2>4, <4>2
        <5> QED BY <2>1, <4>2, <5>1 DEF HeldInv, Carried
      <4>3. CASE l # m
        BY <2>5, <4>3 DEF HeldInv, Carried
      <4> QED BY <4>1, <4>2, <4>3
    <3> QED BY <3>1 DEF Carried
  <2> QED BY <2>3, <2>7 DEF HeldInv, OnFile
<1>6. ASSUME NEW m \in Methods, Reset(m) PROVE HeldInv'
  <2>1. harness' = "idle" /\ attempts' = [attempts EXCEPT ![m] = <<>>]
    BY <1>6 DEF Reset
  <2>2. DOMAIN attempts'[m] = {} /\ \A l \in Methods \ {m} : attempts'[l] = attempts[l]
    BY <1>a, <2>1
  <2> QED BY <2>1, <2>2 DEF HeldInv, OnFile, Carried
<1>7. CASE FootprintTable \/ LauncherEnds \/ \E p \in Procs : Change(p)
  BY <1>1, <1>7 DEF FootprintTable, LauncherEnds, Change
<1>8. CASE TerminateProbe
  <2>1. UNCHANGED <<now, probe, files, attempts>> /\ harness # "idle" /\ pc' \in {pc, "none"}
    BY <1>8 DEF TerminateProbe
  <2> QED BY <2>1 DEF HeldInv, OnFile, Carried
<1>9. CASE Boot \/ Look \/ QueryApps \/ EndSample \/ Wake \/ \E p \in Tree : ReadRss(p)
  <2>1. UNCHANGED <<harness, now, files, attempts>> /\ pc # "none"
    BY <1>9 DEF Boot, Look, QueryApps, EndSample, Wake, ReadRss
  <2> QED BY <2>1 DEF HeldInv, OnFile, Carried
<1>10. CASE UNCHANGED vars
  BY <1>1, <1>10 DEF vars
<1>11. CASE Dies
  <2>1. harness' = "idle" /\ UNCHANGED attempts
    BY <1>11 DEF Dies
  <2> QED BY <2>1 DEF HeldInv, OnFile, Carried
<1>12. ASSUME NEW o \in lost, OrphanWrites(o) PROVE HeldInv'
  <2>1. UNCHANGED <<now, attempts, harness, probe, pc>>
    BY <1>12 DEF OrphanWrites
  <2>2. Carried'
    BY <2>1 DEF HeldInv, Carried
  <2>3. ASSUME harness # "idle", files'[<<now.method, now.n>>].gen = now.gen
        PROVE  files'[<<now.method, now.n>>] = files[<<now.method, now.n>>]
    <3>1. PICK f : /\ files' = [files EXCEPT ![<<o.method, o.n>>] = f]
                   /\ f = Broken \/ f.gen = o.gen
      BY <1>12, OrphanLeaves
    <3>2. o.gen < now.gen /\ now.gen \in 1 .. MaxAttempts /\ o.gen \in Int /\ Broken.gen = -1
      <4>1. o.gen < now.gen
        BY <2>3 DEF TInv, Phase
      <4>2. now.gen \in 1 .. MaxAttempts
        BY <2>3, PathType
      <4>3. o.gen \in Nat
        BY <1>12, OrphanLeaves
      <4>4. Broken.gen = -1
        BY DEF Broken, NoFile
      <4> QED BY <4>1, <4>2, <4>3, <4>4
    <3>3. <<now.method, now.n>> \in Methods \X (1 .. MaxAttempts)
      BY <2>3, PathType
    <3>4. f.gen # now.gen
      BY <3>1, <3>2, BoundsAssumption
    <3> QED BY <2>3, <3>1, <3>3, <3>4 DEF TInv, TypeOK
  <2> QED BY <2>1, <2>2, <2>3 DEF HeldInv, OnFile
<1> QED BY <1>2, <1>3, <1>4, <1>5, <1>6, <1>7, <1>8, <1>9, <1>10, <1>11, <1>12 DEF Next, RunOne, Probe

(* The reservation of a row, humanoid or not, covers what every stage was  *)
(* seen to hold.                                                           *)
LEMMA TableCovers ==
  ASSUME TInv, HeldInv, FootprintTable, NEW m \in Tried, Chosen(m).print.gen = Chosen(m).gen,
         NEW humanoid \in BOOLEAN
  PROVE  LET held == Chosen(m).held * (IF humanoid THEN 234 ELSE 130)
         IN held <= RowBudget(agg', humanoid).vram /\ held <= RowBudget(agg', humanoid).ram
<1> DEFINE a == Chosen(m)
           v == Size(a.print.vram)
           r == Size(a.print.rss)
           factor == IF humanoid THEN 234 ELSE 130
<1>1. PICK k \in DOMAIN attempts[m] : Chosen(m) = attempts[m][k]
  BY ChosenIsOne DEF TInv
<1>2. a.held <= v /\ a.held <= r
  BY <1>1 DEF HeldInv, Carried, Tried
<1>3. a.held \in Nat /\ v \in Nat /\ r \in Nat
  BY ChosenType DEF TInv, Attempt
<1>4. agg'.known /\ agg'.vram \in Nat /\ agg'.rss \in Nat /\ agg'.vram >= v /\ agg'.rss >= r
  BY TableHoldsAll DEF TInv
<1>5. /\ RowBudget(agg', humanoid).vram = Larger(50, agg'.vram * factor)
      /\ RowBudget(agg', humanoid).ram = Larger(50, agg'.rss * factor)
  BY <1>4 DEF RowBudget
<1> HIDE DEF a, v, r
<1>6. a.held <= agg'.vram /\ a.held <= agg'.rss
  BY <1>2, <1>3, <1>4
<1>7. \A x, y \in Nat : x <= y => x * factor <= Larger(50, y * factor)
  <2>1. CASE humanoid
    BY <2>1 DEF Larger
  <2>2. CASE ~humanoid
    BY <2>2 DEF Larger
  <2> QED BY <2>1, <2>2
<1>8. a.held * factor <= Larger(50, agg'.vram * factor) /\ a.held * factor <= Larger(50, agg'.rss * factor)
  BY <1>3, <1>4, <1>6, <1>7
<1> QED BY <1>5, <1>8 DEF a

THEOREM ReservationsHold == Spec => ReservationCoversHeld
<1> DEFINE I == TInv /\ OwnInv /\ PrintInv /\ HeldInv /\ Sampled /\ Below
<1>1. Init => I
  BY InitTypes, InitOwn, InitPrint, InitHeld
<1>2. I /\ [Next]_vars => I'
  <2> SUFFICES ASSUME I, [Next]_vars PROVE I'
    OBVIOUS
  <2>1. TInv'
    BY NextTypes
  <2>2. OwnInv'
    BY <2>1, NextOwn DEF TInv
  <2>3. PrintInv'
    BY <2>1, NextPrint
  <2>4. HeldInv'
    BY <2>1, NextHeld
  <2>5. Sampled' /\ Below'
    BY NextSampled
  <2> QED BY <2>1, <2>2, <2>3, <2>4, <2>5
<1>3. I /\ [Next]_vars =>
        [FootprintTable =>
           \A m \in Tried : Chosen(m).print.gen = Chosen(m).gen =>
             \A humanoid \in BOOLEAN :
               LET held == Chosen(m).held * (IF humanoid THEN 234 ELSE 130)
               IN /\ held <= RowBudget(agg', humanoid).vram
                  /\ held <= RowBudget(agg', humanoid).ram]_vars
  BY TableCovers
<1> QED BY <1>1, <1>2, <1>3, PTL DEF Spec, ReservationCoversHeld

=============================================================================
