------------------------ MODULE StagePipeline_proofs ------------------------
(***************************************************************************)
(* Launchers of any manifest, side by side with smoke tests, crashing,     *)
(* killed or cut off anywhere: each is described by what it may be by      *)
(* itself (Sound), and a row by the one launcher it may have and by the    *)
(* checkpoint a green one has left.                                        *)
(***************************************************************************)
EXTENDS StagePipeline, FiniteSetTheorems, TLAPS

(* A finite set of integers has a largest element.                         *)
LEMMA LargestOf ==
  ASSUME NEW S, IsFiniteSet(S), S # {}, S \subseteq Int
  PROVE  Max(S) \in S /\ \A y \in S : Max(S) >= y
<1> DEFINE HasLargest(T) == \E x \in T : \A y \in T : x >= y
           Bad == {T \in SUBSET S : T # {} /\ ~HasLargest(T)}
<1>1. Bad = {}
  <2> SUFFICES ASSUME Bad # {} PROVE FALSE
    OBVIOUS
  <2>1. Bad \subseteq FiniteSubsetsOf(S)
    BY FS_FiniteSubsetsOfFinite
  <2>2. PICK T \in Bad : \A U \in Bad : ~(<<U, T>> \in StrictSubsetOrdering(S))
    <3> HIDE DEF Bad
    <3> QED BY <2>1, FS_StrictSubsetOrderingWellFounded, WFMin
  <2>3. PICK x \in T : TRUE
    OBVIOUS
  <2>4. T \ {x} # {}
    BY <2>3
  <2>5. <<T \ {x}, T>> \in StrictSubsetOrdering(S)
    BY <2>3 DEF StrictSubsetOrdering
  <2>6. PICK m \in T \ {x} : \A y \in T \ {x} : m >= y
    BY <2>2, <2>4, <2>5
  <2>7. HasLargest(T)
    BY <2>3, <2>6
  <2> QED BY <2>7
<1>2. HasLargest(S)
  BY <1>1
<1> QED BY <1>2 DEF Max

-----------------------------------------------------------------------------
(* What a launcher is by itself.                                           *)
Excused(l) ==
  l.mishaps \cap {"killed", "lost"} # {} \/ (l.cell.algo \in Corl /\ "setup" \in l.mishaps)

Sound(l) ==
  /\ l \in Launches
  /\ l.pc \in {"unused", "start"} => l.run = "none" /\ l.from = {}
  /\ l.pc \in {"unused", "start", "training"} => l.rc = 0
  /\ l.run = "RUNNING" => l.pc \notin {"ended", "reaped"} \/ Excused(l)

Same(l, m) == l.cell = m.cell /\ l.smoke = m.smoke /\ l.pc # "unused"

LEMMA UnusedIs == Sound(Unused) /\ Unused.pc = "unused"
<1>1. Unused.cell \in Cells
  BY DEF Unused, Cells, Corl, Stages
<1>2. Unused \in Launches
  BY <1>1 DEF Unused, Launches, Codes
<1> QED BY <1>2 DEF Unused, Sound

LEMMA Spawned ==
  ASSUME NEW c \in Cells, NEW smoke \in BOOLEAN
  PROVE  LET l == [Unused EXCEPT !.cell = c, !.smoke = smoke, !.pc = "start"]
         IN Sound(l) /\ l.cell = c /\ l.smoke = smoke /\ l.pc = "start" /\ l.from = {} /\ l.rc = 0
<1> DEFINE l == [Unused EXCEPT !.cell = c, !.smoke = smoke, !.pc = "start"]
<1>1. l \in Launches
  BY UnusedIs DEF Sound, Launches
<1>2. l.pc = "start" /\ l.run = "none" /\ l.from = {} /\ l.rc = 0 /\ l.cell = c /\ l.smoke = smoke
  BY DEF Unused
<1> QED BY <1>1, <1>2 DEF Sound

-----------------------------------------------------------------------------
(* The checkpoint a stage takes is one of those it may take.               *)
LEMMA ChosenIs ==
  ASSUME TypeOK, NEW c \in Cells, NEW s, Candidates(c, s) # {}
  PROVE  \E k \in Candidates(c, s) :
           Chosen(c, s) = disk[k] /\ (c.algo # "ldcq" => \A j \in Candidates(c, s) : j <= k)
<1> DEFINE best == {k \in Candidates(c, s) : c.algo = "ldcq" /\ disk[k].best}
           set == IF best # {} THEN best ELSE Candidates(c, s)
<1>1. Candidates(c, s) \subseteq DOMAIN disk /\ DOMAIN disk = 1 .. Len(disk) /\ Len(disk) \in Nat
  BY DEF Candidates, TypeOK
<1>2. set # {} /\ set \subseteq 1 .. Len(disk) /\ set \subseteq Int /\ set \subseteq Candidates(c, s)
  BY <1>1
<1>3. IsFiniteSet(set)
  <2>1. IsFiniteSet(1 .. Len(disk))
    BY <1>1, FS_Interval
  <2> HIDE DEF set
  <2> QED BY <1>2, <2>1, FS_Subset
<1>4. Max(set) \in set /\ \A j \in set : Max(set) >= j
  <2> HIDE DEF set
  <2> QED BY <1>2, <1>3, LargestOf
<1>5. Chosen(c, s) = disk[Max(set)]
  BY DEF Chosen
<1>6. c.algo # "ldcq" => set = Candidates(c, s)
  OBVIOUS
<1> HIDE DEF set
<1>7. c.algo # "ldcq" => \A j \in Candidates(c, s) : j <= Max(set)
  BY <1>1, <1>2, <1>4, <1>6
<1> QED BY <1>2, <1>4, <1>5, <1>7

LEMMA ChosenFiles ==
  ASSUME TypeOK, NEW c \in Cells, ~Missing(c)
  PROVE  {Chosen(c, s) : s \in Needs(c)} \in SUBSET Files
<1>1. ASSUME NEW s \in Needs(c) PROVE Chosen(c, s) \in Files
  <2>1. Candidates(c, s) # {}
    BY DEF Missing
  <2>2. PICK k \in Candidates(c, s) : Chosen(c, s) = disk[k]
    BY <2>1, ChosenIs
  <2>3. disk \in Seq(Files) /\ k \in DOMAIN disk
    BY DEF TypeOK, Candidates
  <2> QED BY <2>2, <2>3
<1> QED BY <1>1

-----------------------------------------------------------------------------
(* A step of a launcher, or of whoever polls it, is one of these.          *)
Act(i) ==
  \/ Refuse(i) \/ OpenFails(i) \/ SetupFails(i) \/ TurnAway(i) \/ Begin(i) \/ Evaluate(i)
  \/ NextScript(i) \/ Complete(i) \/ Alarm(i) \/ Raise(i) \/ Interrupt(i) \/ EndRun(i)
  \/ Kill(i) \/ CellFinished(i)

(* How the record of the launcher changes.                                 *)
Became(i, l) ==
  /\ launch' = [launch EXCEPT ![i] = l] /\ Sound(l) /\ Same(l, launch[i])
  /\ launch[i].pc \in {"start", "training", "closing", "ended"}
  /\ l.pc = "reaped" <=> CellFinished(i)
  /\ l.pc = "start" => launch[i].pc = "start"
  /\ l.pc \in {"training", "closing"} => launch[i].pc \in {"start", "training"}
  /\ l.pc = "ended" => launch[i].pc # "ended"
  /\ l.from # launch[i].from \/ (launch[i].pc = "start" /\ l.pc = "training") => Begin(i)
  /\ l.rc = 65 /\ launch[i].rc # 65 => TurnAway(i)
  /\ l.pc \in {"closing", "ended"} /\ l.rc = 0 =>
       \/ launch[i].pc = "closing" /\ launch[i].rc = 0
       \/ Complete(i) \/ l.smoke \/ "interrupted" \in l.mishaps
  /\ launch[i].mishaps \subseteq l.mishaps
  /\ l.rc = launch[i].rc \/ launch[i].pc # "ended"
  /\ l.pc = "reaped" => l.rc = launch[i].rc /\ launch[i].pc = "ended"

LEMMA ActBecomes ==
  ASSUME TypeOK, NEW i \in Started, Sound(launch[i]), Act(i)
  PROVE  \E l : Became(i, l)
<1>i. i \in Ids /\ launch[i] \in Launches /\ launch[i].cell \in Cells
  BY BoundsAssumption DEF TypeOK, Ids, Started, Sound, Launches
<1>t. /\ launch[i].pc \in {"unused", "start", "training", "closing", "ended", "reaped"}
      /\ launch[i].run \in {"none", "RUNNING", "FINISHED"} /\ launch[i].mishaps \in SUBSET Mishaps
      /\ launch[i].scored \in BOOLEAN /\ launch[i].left \in 0 .. 2
      /\ launch[i].from \in SUBSET Files /\ launch[i].rc \in Codes
  BY <1>i DEF Launches
<1>s. /\ launch[i].pc \in {"unused", "start"} => launch[i].run = "none" /\ launch[i].from = {}
      /\ launch[i].pc \in {"unused", "start", "training"} => launch[i].rc = 0
      /\ launch[i].run = "RUNNING" => launch[i].pc \notin {"ended", "reaped"} \/ Excused(launch[i])
  BY DEF Sound
<1>z. 0 \in 0 .. 2 /\ 1 \in 0 .. 2 /\ -9 \in Codes /\ -2 \in Codes
      /\ {"killed", "lost", "setup", "interrupted"} = Mishaps
  BY DEF Codes, Mishaps
<1>1. CASE Refuse(i)
  <2> DEFINE l == [launch[i] EXCEPT !.pc = "ended", !.rc = Refusal(launch[i].cell)]
  <2>1. Refusal(launch[i].cell) \in {2, 64}
    BY <1>1 DEF Refuse, Refusal
  <2>2. l \in Launches /\ Same(l, launch[i]) /\ l.pc = "ended" /\ l.rc \in {2, 64}
        /\ l.run = launch[i].run /\ l.from = launch[i].from /\ l.mishaps = launch[i].mishaps
    BY <1>i, <1>t, <1>z, <2>1 DEF Launches, Same, Codes
  <2>3. launch' = [launch EXCEPT ![i] = l] /\ launch[i].pc = "start"
    BY <1>1 DEF Refuse, Become
  <2> HIDE DEF l
  <2>4. ~CellFinished(i)
    BY <2>3 DEF CellFinished
  <2>5. Sound(l)
    BY <1>s, <2>2, <2>3 DEF Sound, Excused, Same
  <2>6. Became(i, l)
    BY <2>2, <2>3, <2>4, <2>5 DEF Became
  <2> QED BY <2>6
<1>2. CASE OpenFails(i)
  <2>0. PICK opened \in BOOLEAN :
          launch' = [launch EXCEPT ![i] = [launch[i] EXCEPT !.pc = "ended", !.rc = 1, !.mishaps = @ \cup {"lost"},
                                   !.run = IF opened THEN "RUNNING" ELSE @]]
    BY <1>2 DEF OpenFails, Become
  <2> DEFINE l == [launch[i] EXCEPT !.pc = "ended", !.rc = 1, !.mishaps = @ \cup {"lost"},
                          !.run = IF opened THEN "RUNNING" ELSE @]
  <2>2. l \in Launches /\ Same(l, launch[i]) /\ l.pc = "ended" /\ l.rc = 1
        /\ l.from = launch[i].from /\ l.mishaps = launch[i].mishaps \cup {"lost"}
    BY <1>i, <1>t, <1>z, <2>0 DEF Launches, Same, Codes
  <2>3. launch' = [launch EXCEPT ![i] = l] /\ launch[i].pc = "start"
    BY <1>2, <2>0 DEF OpenFails, Opens
  <2> HIDE DEF l
  <2>4. ~CellFinished(i)
    BY <2>3 DEF CellFinished
  <2>5. Sound(l)
    BY <1>s, <2>2, <2>3 DEF Sound, Excused, Same
  <2>6. Became(i, l)
    BY <2>2, <2>3, <2>4, <2>5 DEF Became
  <2> QED BY <2>6
<1>3. CASE TurnAway(i)
  <2> DEFINE l == [launch[i] EXCEPT !.pc = "closing", !.run = "RUNNING", !.rc = 65]
  <2>2. l \in Launches /\ Same(l, launch[i]) /\ l.pc = "closing" /\ l.rc = 65
        /\ l.from = launch[i].from /\ l.mishaps = launch[i].mishaps
    BY <1>i, <1>t, <1>z DEF Launches, Same, Codes
  <2>3. launch' = [launch EXCEPT ![i] = l] /\ launch[i].pc = "start"
    BY <1>3 DEF TurnAway, Become, Opens
  <2> HIDE DEF l
  <2>4. ~CellFinished(i)
    BY <2>3 DEF CellFinished
  <2>5. Sound(l)
    BY <1>s, <2>2, <2>3 DEF Sound, Excused, Same
  <2>6. Became(i, l)
    BY <1>3, <2>2, <2>3, <2>4, <2>5 DEF Became
  <2> QED BY <2>6
<1>4. CASE Begin(i)
  <2> DEFINE l == [launch[i] EXCEPT !.pc = "training", !.run = "RUNNING",
                          !.left = Scripts(launch[i].cell),
                          !.from = {Chosen(launch[i].cell, s) : s \in Needs(launch[i].cell)}]
  <2>1. Scripts(launch[i].cell) \in 0 .. 2
        /\ {Chosen(launch[i].cell, s) : s \in Needs(launch[i].cell)} \in SUBSET Files
    BY <1>4, <1>i, ChosenFiles DEF Begin, Scripts
  <2>2. l \in Launches /\ Same(l, launch[i]) /\ l.pc = "training" /\ l.rc = launch[i].rc
        /\ l.mishaps = launch[i].mishaps
    BY <1>i, <1>t, <1>z, <2>1 DEF Launches, Same, Codes
  <2>3. launch' = [launch EXCEPT ![i] = l] /\ launch[i].pc = "start"
    BY <1>4 DEF Begin, Become, Opens
  <2> HIDE DEF l
  <2>4. ~CellFinished(i)
    BY <2>3 DEF CellFinished
  <2>5. Sound(l)
    BY <1>s, <2>2, <2>3 DEF Sound, Excused, Same
  <2>6. Became(i, l)
    BY <1>4, <2>2, <2>3, <2>4, <2>5 DEF Became
  <2> QED BY <2>6
<1>5. CASE Evaluate(i)
  <2> DEFINE l == [launch[i] EXCEPT !.scored = TRUE]
  <2>2. l \in Launches /\ Same(l, launch[i]) /\ l.pc = launch[i].pc /\ l.rc = launch[i].rc /\ l.run = launch[i].run /\ l.from = launch[i].from /\ l.mishaps = launch[i].mishaps
    BY <1>i, <1>t, <1>z, <1>5 DEF Launches, Same, Codes, Evaluate
  <2>3. launch' = [launch EXCEPT ![i] = l] /\ launch[i].pc = "training"
    BY <1>5 DEF Evaluate, Become
  <2> HIDE DEF l
  <2>4. ~CellFinished(i)
    BY <2>3 DEF CellFinished
  <2>5. Sound(l)
    BY <1>s, <2>2, <2>3 DEF Sound, Excused, Same
  <2>6. Became(i, l)
    BY <2>2, <2>3, <2>4, <2>5 DEF Became
  <2> QED BY <2>6
<1>6. CASE NextScript(i)
  <2> DEFINE l == [launch[i] EXCEPT !.left = 1]
  <2>2. l \in Launches /\ Same(l, launch[i]) /\ l.pc = launch[i].pc /\ l.rc = launch[i].rc /\ l.run = launch[i].run /\ l.from = launch[i].from /\ l.mishaps = launch[i].mishaps
    BY <1>i, <1>t, <1>z, <1>6 DEF Launches, Same, Codes, NextScript
  <2>3. launch' = [launch EXCEPT ![i] = l] /\ launch[i].pc = "training"
    BY <1>6 DEF NextScript, Become
  <2> HIDE DEF l
  <2>4. ~CellFinished(i)
    BY <2>3 DEF CellFinished
  <2>5. Sound(l)
    BY <1>s, <2>2, <2>3 DEF Sound, Excused, Same
  <2>6. Became(i, l)
    BY <2>2, <2>3, <2>4, <2>5 DEF Became
  <2> QED BY <2>6
<1>7. CASE Complete(i)
  <2> DEFINE l == [launch[i] EXCEPT !.pc = "closing", !.left = 0, !.rc = 0]
  <2>2. l \in Launches /\ Same(l, launch[i]) /\ l.pc = "closing" /\ l.rc = 0
        /\ l.run = launch[i].run /\ l.from = launch[i].from /\ l.mishaps = launch[i].mishaps /\ l.smoke = launch[i].smoke
    BY <1>i, <1>t, <1>z DEF Launches, Same, Codes
  <2>3. launch' = [launch EXCEPT ![i] = l] /\ launch[i].pc = "training"
    BY <1>7 DEF Complete, Closing, Become
  <2> HIDE DEF l
  <2>4. ~CellFinished(i)
    BY <2>3 DEF CellFinished
  <2>5. Sound(l)
    BY <1>s, <2>2, <2>3 DEF Sound, Excused, Same
  <2>6. Became(i, l)
    BY <1>7, <2>2, <2>3, <2>4, <2>5 DEF Became
  <2> QED BY <2>6
<1>8. CASE Alarm(i)
  <2> DEFINE l == [launch[i] EXCEPT !.pc = "closing", !.left = 0, !.rc = 0]
  <2>2. l \in Launches /\ Same(l, launch[i]) /\ l.pc = "closing" /\ l.rc = 0
        /\ l.run = launch[i].run /\ l.from = launch[i].from /\ l.mishaps = launch[i].mishaps /\ l.smoke = launch[i].smoke
    BY <1>i, <1>t, <1>z DEF Launches, Same, Codes
  <2>3. launch' = [launch EXCEPT ![i] = l] /\ launch[i].pc = "training" /\ launch[i].smoke
    BY <1>8 DEF Alarm, Closing, Become
  <2> HIDE DEF l
  <2>4. ~CellFinished(i)
    BY <2>3 DEF CellFinished
  <2>5. Sound(l)
    BY <1>s, <2>2, <2>3 DEF Sound, Excused, Same
  <2>6. Became(i, l)
    BY <2>2, <2>3, <2>4, <2>5 DEF Became
  <2> QED BY <2>6
<1>9. CASE Raise(i)
  <2> DEFINE l == [launch[i] EXCEPT !.pc = "closing", !.left = 0, !.rc = 1]
  <2>2. l \in Launches /\ Same(l, launch[i]) /\ l.pc = "closing" /\ l.rc = 1
        /\ l.run = launch[i].run /\ l.from = launch[i].from /\ l.mishaps = launch[i].mishaps /\ l.smoke = launch[i].smoke
    BY <1>i, <1>t, <1>z DEF Launches, Same, Codes
  <2>3. launch' = [launch EXCEPT ![i] = l] /\ launch[i].pc = "training"
    BY <1>9 DEF Raise, Closing, Become
  <2> HIDE DEF l
  <2>4. ~CellFinished(i)
    BY <2>3 DEF CellFinished
  <2>5. Sound(l)
    BY <1>s, <2>2, <2>3 DEF Sound, Excused, Same
  <2>6. Became(i, l)
    BY <2>2, <2>3, <2>4, <2>5 DEF Became
  <2> QED BY <2>6
<1>10. CASE EndRun(i) /\ launch' = [launch EXCEPT ![i] = [launch[i] EXCEPT !.pc = "ended", !.run = "FINISHED"]]
  <2> DEFINE l == [launch[i] EXCEPT !.pc = "ended", !.run = "FINISHED"]
  <2>2. l \in Launches /\ Same(l, launch[i]) /\ l.pc = "ended" /\ l.run = "FINISHED"
        /\ l.rc = launch[i].rc /\ l.from = launch[i].from /\ l.mishaps = launch[i].mishaps
    BY <1>i, <1>t, <1>z DEF Launches, Same, Codes
  <2>3. launch' = [launch EXCEPT ![i] = l] /\ launch[i].pc = "closing"
    BY <1>10 DEF EndRun
  <2> HIDE DEF l
  <2>4. ~CellFinished(i)
    BY <2>3 DEF CellFinished
  <2>5. Sound(l)
    BY <1>s, <2>2, <2>3 DEF Sound, Excused, Same
  <2>6. Became(i, l)
    BY <2>2, <2>3, <2>4, <2>5 DEF Became
  <2> QED BY <2>6
<1>11. CASE EndRun(i) /\ launch' = [launch EXCEPT ![i] = [launch[i] EXCEPT !.pc = "ended", !.mishaps = @ \cup {"lost"}]]
  <2> DEFINE l == [launch[i] EXCEPT !.pc = "ended", !.mishaps = @ \cup {"lost"}]
  <2>2. l \in Launches /\ Same(l, launch[i]) /\ l.pc = "ended" /\ l.mishaps = launch[i].mishaps \cup {"lost"}
        /\ l.rc = launch[i].rc /\ l.from = launch[i].from /\ l.run = launch[i].run
    BY <1>i, <1>t, <1>z DEF Launches, Same, Codes
  <2>3. launch' = [launch EXCEPT ![i] = l] /\ launch[i].pc = "closing"
    BY <1>11 DEF EndRun
  <2> HIDE DEF l
  <2>4. ~CellFinished(i)
    BY <2>3 DEF CellFinished
  <2>5. Sound(l)
    BY <1>s, <2>2, <2>3 DEF Sound, Excused, Same
  <2>6. Became(i, l)
    BY <2>2, <2>3, <2>4, <2>5 DEF Became
  <2> QED BY <2>6
<1>12. CASE Kill(i)
  <2>0. PICK opened \in BOOLEAN :
          /\ opened => Opens(i)
          /\ launch' = [launch EXCEPT ![i] = [launch[i] EXCEPT !.pc = "ended", !.left = 0, !.rc = -9,
                          !.mishaps = @ \cup {"killed"}, !.run = IF opened THEN "RUNNING" ELSE @]]
    BY <1>12 DEF Kill, Become
  <2> DEFINE l == [launch[i] EXCEPT !.pc = "ended", !.left = 0, !.rc = -9,
                     !.mishaps = @ \cup {"killed"}, !.run = IF opened THEN "RUNNING" ELSE @]
  <2>2. l \in Launches /\ Same(l, launch[i]) /\ l.pc = "ended" /\ l.rc = -9
        /\ l.from = launch[i].from /\ l.mishaps = launch[i].mishaps \cup {"killed"}
    BY <1>12, <1>i, <1>t, <1>z, <2>0 DEF Launches, Same, Codes, Kill
  <2>3. launch' = [launch EXCEPT ![i] = l] /\ launch[i].pc \in {"start", "training", "closing"}
    BY <1>12, <2>0 DEF Kill
  <2> HIDE DEF l
  <2>4. ~CellFinished(i)
    BY <2>3 DEF CellFinished
  <2>5. Sound(l)
    BY <1>s, <2>2, <2>3 DEF Sound, Excused, Same
  <2>6. Became(i, l)
    BY <2>2, <2>3, <2>4, <2>5 DEF Became
  <2> QED BY <2>6
<1>13. CASE CellFinished(i)
  <2> DEFINE l == [launch[i] EXCEPT !.pc = "reaped"]
  <2>2. l \in Launches /\ Same(l, launch[i]) /\ l.pc = "reaped"
        /\ l.run = launch[i].run /\ l.from = launch[i].from /\ l.mishaps = launch[i].mishaps /\ l.rc = launch[i].rc
    BY <1>i, <1>t, <1>z DEF Launches, Same, Codes
  <2>3. launch' = [launch EXCEPT ![i] = l] /\ launch[i].pc = "ended"
    BY <1>13 DEF CellFinished
  <2> HIDE DEF l
  <2>4. CellFinished(i) /\ l.pc = "reaped"
    BY <1>13, <2>2
  <2>5. Sound(l)
    BY <1>s, <2>2, <2>3 DEF Sound, Excused, Same
  <2>6. Became(i, l)
    BY <1>13, <2>2, <2>3, <2>4, <2>5 DEF Became
  <2> QED BY <2>6
<1>14. CASE SetupFails(i)
  <2> DEFINE l == [launch[i] EXCEPT !.pc = "ended", !.run = "RUNNING", !.rc = 1,
                                    !.mishaps = @ \cup {"setup"}]
  <2>2. l \in Launches /\ Same(l, launch[i]) /\ l.pc = "ended" /\ l.rc = 1
        /\ l.from = launch[i].from /\ l.mishaps = launch[i].mishaps \cup {"setup"}
        /\ l.cell.algo \in Corl
    BY <1>14, <1>i, <1>t, <1>z DEF Launches, Same, Codes, SetupFails, Opens
  <2>3. launch' = [launch EXCEPT ![i] = l] /\ launch[i].pc = "start"
    BY <1>14 DEF SetupFails, Become, Opens
  <2> HIDE DEF l
  <2>4. ~CellFinished(i)
    BY <2>3 DEF CellFinished
  <2>5. Sound(l)
    BY <1>s, <2>2, <2>3 DEF Sound, Excused, Same
  <2>6. Became(i, l)
    BY <2>2, <2>3, <2>4, <2>5 DEF Became
  <2> QED BY <2>6
<1>15. CASE Interrupt(i)
  <2>0. PICK rc \in {0, -2} :
          launch' = [launch EXCEPT ![i] = [launch[i] EXCEPT !.pc = "closing", !.left = 0, !.rc = rc,
                                                           !.mishaps = @ \cup {"interrupted"}]]
    BY <1>15 DEF Interrupt, Become
  <2> DEFINE l == [launch[i] EXCEPT !.pc = "closing", !.left = 0, !.rc = rc,
                                    !.mishaps = @ \cup {"interrupted"}]
  <2>2. l \in Launches /\ Same(l, launch[i]) /\ l.pc = "closing" /\ l.rc \in {0, -2}
        /\ l.run = launch[i].run /\ l.from = launch[i].from
        /\ l.mishaps = launch[i].mishaps \cup {"interrupted"}
    BY <1>15, <1>i, <1>t, <1>z, <2>0 DEF Launches, Same, Codes, Interrupt
  <2>3. launch' = [launch EXCEPT ![i] = l] /\ launch[i].pc = "training"
    BY <1>15, <2>0 DEF Interrupt
  <2> HIDE DEF l
  <2>4. ~CellFinished(i)
    BY <2>3 DEF CellFinished
  <2>5. Sound(l)
    BY <1>s, <2>2, <2>3 DEF Sound, Excused, Same
  <2>6. Became(i, l)
    BY <2>2, <2>3, <2>4, <2>5 DEF Became
  <2> QED BY <2>6
<1> QED BY <1>1, <1>2, <1>3, <1>4, <1>5, <1>6, <1>7, <1>8, <1>9, <1>10, <1>11, <1>12, <1>13, <1>14, <1>15
        DEF Act, EndRun, Become

(* What it means for the fields of the record.                             *)
LEMMA BecameIs ==
  ASSUME NEW i, Became(i, launch'[i])
  PROVE  /\ launch'[i].cell = launch[i].cell /\ launch'[i].smoke = launch[i].smoke
         /\ launch[i].pc # "reaped" /\ (launch'[i].pc = "reaped" <=> CellFinished(i))
         /\ launch'[i].pc \in {"closing", "ended"} /\ launch'[i].rc = 0 =>
              \/ launch[i].pc = "closing" /\ launch[i].rc = 0
              \/ Complete(i) \/ launch[i].smoke \/ "interrupted" \in launch'[i].mishaps
         /\ launch[i].mishaps \subseteq launch'[i].mishaps
         /\ launch'[i].rc = launch[i].rc \/ launch[i].pc # "ended"
<1>1. /\ launch'[i].cell = launch[i].cell /\ launch'[i].smoke = launch[i].smoke
      /\ launch[i].pc # "reaped"
  BY DEF Became, Same
<1>2. launch'[i].pc = "reaped" <=> CellFinished(i)
  BY DEF Became
<1>3. launch'[i].pc \in {"closing", "ended"} /\ launch'[i].rc = 0 =>
        \/ launch[i].pc = "closing" /\ launch[i].rc = 0
        \/ Complete(i) \/ launch'[i].smoke \/ "interrupted" \in launch'[i].mishaps
  BY DEF Became
<1>4. /\ launch[i].mishaps \subseteq launch'[i].mishaps
      /\ launch'[i].rc = launch[i].rc \/ launch[i].pc # "ended"
  BY DEF Became
<1> QED BY <1>1, <1>2, <1>3, <1>4

(* What such a step leaves alone.                                          *)
LEMMA ActFrame ==
  ASSUME TypeOK, NEW i \in Started, Act(i)
  PROVE  /\ UNCHANGED <<todo, n, again>>
         /\ CellFinished(i) \/ UNCHANGED row
         /\ Complete(i) \/ UNCHANGED disk
         /\ faults' \in 0 .. MaxFaults
<1>1. faults \in 0 .. MaxFaults /\ MaxFaults \in Nat
  BY BoundsAssumption DEF TypeOK
<1>2. Fault => faults' \in 0 .. MaxFaults
  BY <1>1 DEF Fault
<1>3. UNCHANGED faults \/ Fault
  BY DEF Act, Refuse, OpenFails, SetupFails, TurnAway, Begin, Evaluate, NextScript, Complete, Alarm, Raise, EndRun,
     Interrupt, Kill, CellFinished, Fine
<1>4. UNCHANGED <<todo, n, again>> /\ (CellFinished(i) \/ UNCHANGED row)
  BY DEF Act, Refuse, OpenFails, SetupFails, TurnAway, Begin, Evaluate, NextScript, Complete, Alarm, Raise, EndRun,
     Interrupt, Kill, CellFinished, Become, Closing
<1>5. Complete(i) \/ UNCHANGED disk
  BY DEF Act, Refuse, OpenFails, SetupFails, TurnAway, Begin, Evaluate, NextScript, Alarm, Raise, EndRun, Interrupt, Kill,
     CellFinished
<1> QED BY <1>1, <1>2, <1>3, <1>4, <1>5

-----------------------------------------------------------------------------
(* All launchers are sound, and the rows are those of a manifest.          *)
Manifest ==
  /\ \E p \in Plans : DOMAIN row = p.rows
  /\ \A i \in Started : ~launch[i].smoke => launch[i].cell \in DOMAIN row

AllSound == \A i \in Ids : Sound(launch[i])

Base == TypeOK /\ AllSound /\ Manifest

LEMMA InitBase == Init => Base
<1> SUFFICES ASSUME Init PROVE Base
  OBVIOUS
<1>1. PICK p \in Plans : row = [c \in p.rows |-> "pending"] /\ todo = p.smokes
  BY DEF Init
<1>2. p.rows \in SUBSET Cells /\ p.smokes \in SUBSET Cells
  BY PlansAssumption
<1>3. DOMAIN row = p.rows /\ row \in [DOMAIN row -> Statuses]
  BY <1>1 DEF Statuses
<1>4. AllSound /\ launch \in [Ids -> Launches] /\ \A i \in Ids : launch[i].pc = "unused"
  BY UnusedIs DEF Init, AllSound, Sound
<1>5. n = 0 /\ Started = {} /\ \A i \in Ids : i > n
  BY DEF Init, Started, Ids
<1>6. disk \in Seq(Files) /\ DOMAIN disk = {}
  BY DEF Init
<1>7. TypeOK
  BY <1>1, <1>2, <1>3, <1>4, <1>5, <1>6, BoundsAssumption DEF Init, TypeOK
<1> QED BY <1>3, <1>4, <1>5, <1>7 DEF Base, Manifest

LEMMA Spawns ==
  ASSUME Base, NEW c \in Cells, NEW smoke \in BOOLEAN, Spawn(c, smoke)
  PROVE  /\ n \in Nat /\ n' = n + 1 /\ n' \in Ids /\ Started' = Started \cup {n'} /\ n' \notin Started
         /\ Started \subseteq Ids /\ launch' \in [Ids -> Launches] /\ AllSound'
         /\ \A i \in Ids \ {n'} : launch'[i] = launch[i]
         /\ launch'[n'].cell = c /\ launch'[n'].smoke = smoke /\ launch'[n'].pc = "start"
         /\ launch'[n'].from = {} /\ launch'[n'].rc = 0
         /\ UNCHANGED <<disk, again, faults>>
<1>1. n \in Nat /\ n' = n + 1 /\ n' \in Ids /\ Started' = Started \cup {n'} /\ n' \notin Started
      /\ Started \subseteq Ids
  BY BoundsAssumption DEF Spawn, Base, TypeOK, Ids, Started
<1> DEFINE l == [Unused EXCEPT !.cell = c, !.smoke = smoke, !.pc = "start"]
<1>2. Sound(l) /\ l.cell = c /\ l.smoke = smoke /\ l.pc = "start" /\ l.from = {} /\ l.rc = 0
  BY Spawned
<1>3. launch' = [launch EXCEPT ![n'] = l] /\ UNCHANGED <<disk, again, faults>>
  BY <1>1 DEF Spawn
<1> HIDE DEF l
<1>4. launch \in [Ids -> Launches] /\ l \in Launches
  BY <1>2 DEF Base, TypeOK, Sound
<1>5. launch'[n'] = l /\ launch' \in [Ids -> Launches] /\ \A i \in Ids \ {n'} : launch'[i] = launch[i]
  BY <1>1, <1>3, <1>4
<1>6. \A i \in Ids : Sound(launch'[i])
  BY <1>2, <1>5 DEF Base, AllSound
<1>7. AllSound'
  BY <1>6 DEF AllSound, Sound
<1> QED BY <1>1, <1>2, <1>3, <1>5, <1>7

-----------------------------------------------------------------------------
LEMMA Kinds ==
  ASSUME Next
  PROVE  \/ \E c \in DOMAIN row : LaunchRow(c)
         \/ \E c \in DOMAIN row : MarkPending(c)
         \/ \E c \in todo : LaunchSmoke(c)
         \/ \E i \in Started : Act(i)
         \/ \E i \in Started : Checkpoint(i)
BY DEF Next, Steps, Trains, Act

LEMMA ActState ==
  ASSUME Base, NEW i \in Started, Act(i)
  PROVE  /\ Started \subseteq Ids /\ Started' = Started /\ n \in Nat
         /\ launch' \in [Ids -> Launches] /\ AllSound' /\ Became(i, launch'[i])
         /\ \A j \in Ids \ {i} : launch'[j] = launch[j]
         /\ DOMAIN row' = DOMAIN row /\ row' \in [DOMAIN row -> Statuses]
         /\ CellFinished(i) \/ UNCHANGED row
         /\ Complete(i) \/ UNCHANGED disk
         /\ UNCHANGED <<todo, n, again>> /\ faults' \in 0 .. MaxFaults
<1>1. TypeOK /\ Started \subseteq Ids /\ n \in Nat /\ Sound(launch[i])
  BY BoundsAssumption DEF Base, AllSound, TypeOK, Ids, Started
<1>2. PICK l : Became(i, l)
  BY <1>1, ActBecomes
<1>3. UNCHANGED <<todo, n, again>> /\ (CellFinished(i) \/ UNCHANGED row)
      /\ (Complete(i) \/ UNCHANGED disk) /\ faults' \in 0 .. MaxFaults
  BY <1>1, ActFrame
<1>4. launch' = [launch EXCEPT ![i] = l] /\ Sound(l) /\ l \in Launches /\ launch \in [Ids -> Launches]
  BY <1>1, <1>2 DEF Became, Sound, TypeOK
<1>5. launch'[i] = l /\ launch' \in [Ids -> Launches] /\ \A j \in Ids \ {i} : launch'[j] = launch[j]
  BY <1>1, <1>4
<1>6. \A j \in Ids : Sound(launch'[j])
  BY <1>4, <1>5 DEF Base, AllSound
<1>7. AllSound'
  BY <1>6 DEF AllSound, Sound
<1>8. Started' = Started
  BY <1>3 DEF Started
<1>9. DOMAIN row' = DOMAIN row /\ row' \in [DOMAIN row -> Statuses]
  <2>1. row \in [DOMAIN row -> Statuses]
    BY <1>1 DEF TypeOK
  <2>2. CASE CellFinished(i)
    <3>1. StatusOf(launch[i].rc) \in Statuses
      BY DEF StatusOf, Statuses
    <3> QED BY <2>1, <2>2, <3>1 DEF CellFinished
  <2> QED BY <1>3, <2>1, <2>2
<1> QED BY <1>1, <1>2, <1>3, <1>5, <1>7, <1>8, <1>9

(* A checkpoint is added at the end, by a launcher that trains.            *)
LEMMA Written ==
  ASSUME Base, NEW i \in Started, Complete(i) \/ Checkpoint(i)
  PROVE  \/ UNCHANGED disk /\ launch[i].cell.stage \notin Parents(launch[i].cell)
         \/ \E f \in Files : /\ disk' = Append(disk, f) /\ f.by = i /\ launch[i].pc = "training"
                             /\ launch[i].cell.stage \in Parents(launch[i].cell)
                             /\ f.final <=> Complete(i)
<1> DEFINE File(best, final) == [by |-> i, best |-> best, final |-> final]
<1>0. i \in Ids
  BY BoundsAssumption DEF Base, TypeOK, Ids, Started
<1>1. CASE Complete(i)
  <2> DEFINE b == launch[i].cell.algo = "ldcq"
  <2>1. Write(i, b, TRUE) /\ launch[i].pc = "training"
    BY <1>1 DEF Complete
  <2>2. File(b, TRUE) \in Files
    BY <1>0 DEF Files
  <2>3. File(b, TRUE).by = i /\ File(b, TRUE).final
    OBVIOUS
  <2>4. IF launch[i].cell.stage \in Parents(launch[i].cell)
        THEN disk' = Append(disk, File(b, TRUE)) ELSE UNCHANGED disk
    BY <2>1 DEF Write
  <2> HIDE DEF File
  <2> QED BY <1>1, <2>1, <2>2, <2>3, <2>4
<1>2. CASE Checkpoint(i) /\ ~Complete(i)
  <2>1. PICK b \in BOOLEAN : Write(i, b, FALSE)
    BY <1>2 DEF Checkpoint
  <2>2. File(b, FALSE) \in Files
    BY <1>0 DEF Files
  <2>3. File(b, FALSE).by = i /\ ~File(b, FALSE).final
    OBVIOUS
  <2>4. IF launch[i].cell.stage \in Parents(launch[i].cell)
        THEN disk' = Append(disk, File(b, FALSE)) ELSE UNCHANGED disk
    BY <2>1 DEF Write
  <2>5. launch[i].pc = "training"
    BY <1>2 DEF Checkpoint
  <2> HIDE DEF File
  <2> QED BY <1>2, <2>2, <2>3, <2>4, <2>5
<1> QED BY <1>1, <1>2

LEMMA DiskTyped ==
  ASSUME Base, NEW i \in Started, Complete(i) \/ Checkpoint(i)
  PROVE  disk' \in Seq(Files) /\ \A k \in DOMAIN disk' : disk'[k].by \in Started
<1>1. disk \in Seq(Files) /\ \A k \in DOMAIN disk : disk[k].by \in Started
  BY DEF Base, TypeOK
<1>2. CASE UNCHANGED disk
  BY <1>1, <1>2
<1>3. ASSUME NEW f \in Files, disk' = Append(disk, f), f.by = i
      PROVE  disk' \in Seq(Files) /\ \A k \in DOMAIN disk' : disk'[k].by \in Started
  BY <1>1, <1>3
<1> QED BY <1>2, <1>3, Written

LEMMA NextBase == Base /\ [Next]_vars => Base'
<1> SUFFICES ASSUME Base, [Next]_vars PROVE Base'
  OBVIOUS
<1>t. TypeOK /\ AllSound /\ Manifest
  BY DEF Base
<1>u. /\ DOMAIN row \subseteq Cells /\ row \in [DOMAIN row -> Statuses]
      /\ todo \subseteq Cells /\ n \in 0 .. MaxLaunches /\ MaxLaunches \in Nat
      /\ launch \in [Ids -> Launches]
      /\ \A i \in Ids : launch[i].pc = "unused" <=> i > n
      /\ disk \in Seq(Files) /\ \A k \in DOMAIN disk : disk[k].by \in Started
      /\ again \in [DOMAIN row -> Nat] /\ faults \in 0 .. MaxFaults
  BY <1>t, BoundsAssumption DEF TypeOK
<1>m. /\ \E p \in Plans : DOMAIN row = p.rows
      /\ \A i \in Started : ~launch[i].smoke => launch[i].cell \in DOMAIN row
  BY <1>t DEF Manifest
<1>1. ASSUME NEW c \in DOMAIN row, LaunchRow(c) PROVE Base'
  <2>1. Spawn(c, FALSE) /\ row' = [row EXCEPT ![c] = "running"] /\ UNCHANGED todo /\ c \in Cells
    BY <1>1, <1>u DEF LaunchRow
  <2>2. DOMAIN row' = DOMAIN row /\ row' \in [DOMAIN row -> Statuses]
    BY <1>u, <2>1 DEF Statuses
  <2>3. /\ n \in Nat /\ n' = n + 1 /\ n' \in Ids /\ Started' = Started \cup {n'} /\ n' \notin Started
        /\ Started \subseteq Ids /\ launch' \in [Ids -> Launches] /\ AllSound'
        /\ \A i \in Ids \ {n'} : launch'[i] = launch[i]
        /\ launch'[n'].cell = c /\ launch'[n'].smoke = FALSE /\ launch'[n'].pc = "start"
        /\ UNCHANGED <<disk, again, faults>>
    BY <2>1, Spawns
  <2>4. \A i \in Ids : launch'[i].pc = "unused" <=> i > n'
    BY <1>u, <2>3 DEF Ids
  <2>5. n' \in 0 .. MaxLaunches
    BY <1>u, <2>3 DEF Ids
  <2>6. TypeOK'
    BY <1>u, <2>1, <2>2, <2>3, <2>4, <2>5 DEF TypeOK
  <2>7. \A i \in Started' : ~launch'[i].smoke => launch'[i].cell \in DOMAIN row'
    BY <1>m, <2>2, <2>3
  <2> QED BY <1>m, <2>2, <2>3, <2>6, <2>7 DEF Base, Manifest
<1>2. ASSUME NEW c \in todo, LaunchSmoke(c) PROVE Base'
  <2>1. Spawn(c, TRUE) /\ UNCHANGED row /\ todo' \subseteq todo /\ c \in Cells
    BY <1>2, <1>u DEF LaunchSmoke
  <2>3. /\ n \in Nat /\ n' = n + 1 /\ n' \in Ids /\ Started' = Started \cup {n'} /\ n' \notin Started
        /\ Started \subseteq Ids /\ launch' \in [Ids -> Launches] /\ AllSound'
        /\ \A i \in Ids \ {n'} : launch'[i] = launch[i]
        /\ launch'[n'].cell = c /\ launch'[n'].smoke = TRUE /\ launch'[n'].pc = "start"
        /\ UNCHANGED <<disk, again, faults>>
    BY <2>1, Spawns
  <2>4. \A i \in Ids : launch'[i].pc = "unused" <=> i > n'
    BY <1>u, <2>3 DEF Ids
  <2>5. n' \in 0 .. MaxLaunches
    BY <1>u, <2>3 DEF Ids
  <2>6. TypeOK'
    BY <1>u, <2>1, <2>3, <2>4, <2>5 DEF TypeOK
  <2>7. \A i \in Started' : ~launch'[i].smoke => launch'[i].cell \in DOMAIN row'
    BY <1>m, <2>1, <2>3
  <2> QED BY <1>m, <2>1, <2>3, <2>6, <2>7 DEF Base, Manifest
<1>3. ASSUME NEW c \in DOMAIN row, MarkPending(c) PROVE Base'
  <2>1. /\ row' = [row EXCEPT ![c] = "pending"] /\ again' = [again EXCEPT ![c] = @ + 1]
        /\ UNCHANGED <<todo, n, launch, disk, faults>>
    BY <1>3 DEF MarkPending
  <2>2. DOMAIN row' = DOMAIN row /\ row' \in [DOMAIN row -> Statuses] /\ again' \in [DOMAIN row -> Nat]
    BY <1>u, <2>1 DEF Statuses
  <2>3. Started' = Started /\ AllSound'
    BY <1>t, <2>1 DEF Started, AllSound, Sound
  <2>4. TypeOK'
    BY <1>u, <2>1, <2>2, <2>3 DEF TypeOK
  <2> QED BY <1>m, <2>1, <2>2, <2>3, <2>4 DEF Base, Manifest
<1>4. ASSUME NEW i \in Started, Act(i) PROVE Base'
  <2>1. /\ Started \subseteq Ids /\ Started' = Started /\ n \in Nat
        /\ launch' \in [Ids -> Launches] /\ AllSound' /\ Became(i, launch'[i])
        /\ \A j \in Ids \ {i} : launch'[j] = launch[j]
        /\ DOMAIN row' = DOMAIN row /\ row' \in [DOMAIN row -> Statuses]
        /\ Complete(i) \/ UNCHANGED disk
        /\ UNCHANGED <<todo, n, again>> /\ faults' \in 0 .. MaxFaults
    BY <1>4, ActState
  <2>2. disk' \in Seq(Files) /\ \A k \in DOMAIN disk' : disk'[k].by \in Started
    <3>1. CASE Complete(i)
      BY <3>1, DiskTyped
    <3>2. CASE UNCHANGED disk
      BY <1>u, <3>2
    <3> QED BY <2>1, <3>1, <3>2
  <2>3. Same(launch'[i], launch[i]) /\ launch[i].pc # "unused" /\ i \in Ids
    BY <2>1 DEF Became
  <2>4. \A j \in Ids : launch'[j].pc = "unused" <=> j > n'
    BY <1>u, <2>1, <2>3 DEF Same
  <2>5. \A j \in Started' : ~launch'[j].smoke => launch'[j].cell \in DOMAIN row'
    BY <1>m, <2>1, <2>3 DEF Same
  <2>6. TypeOK'
    BY <1>u, <2>1, <2>2, <2>4 DEF TypeOK
  <2> QED BY <1>m, <2>1, <2>5, <2>6 DEF Base, Manifest
<1>5. ASSUME NEW i \in Started, Checkpoint(i) PROVE Base'
  <2>1. UNCHANGED <<row, todo, n, launch, again, faults>>
    BY <1>5 DEF Checkpoint
  <2>2. disk' \in Seq(Files) /\ \A k \in DOMAIN disk' : disk'[k].by \in Started
    BY <1>5, DiskTyped
  <2>3. Started' = Started /\ AllSound'
    BY <1>t, <2>1 DEF Started, AllSound, Sound
  <2>4. TypeOK'
    BY <1>u, <2>1, <2>2, <2>3 DEF TypeOK
  <2> QED BY <1>m, <2>1, <2>3, <2>4 DEF Base, Manifest
<1>6. CASE UNCHANGED vars
  <2>1. UNCHANGED <<row, todo, n, launch, disk, again, faults>>
    BY <1>6 DEF vars
  <2> QED BY <1>t, <2>1 DEF Base, Manifest, AllSound, TypeOK, Sound, Started
<1> QED BY <1>1, <1>2, <1>3, <1>4, <1>5, <1>6, Kinds

LEMMA SpecBase == Spec => []Base
BY InitBase, NextBase, PTL DEF Spec

(* The type invariant, for any manifests, slots, launches and faults.      *)
THEOREM TypeCorrect == Spec => []TypeOK
<1>1. Base => TypeOK
  BY DEF Base
<1> QED BY <1>1, SpecBase, PTL

(* An open run has a live launcher or an excuse: EndRun is reached from     *)
(* everything that follows the start of the try.                           *)
THEOREM RunsAreClosedAlways == Spec => []RunsAreClosed
<1>1. Base => RunsAreClosed
  <2> SUFFICES ASSUME Base, NEW i \in Started, launch[i].run = "RUNNING"
               PROVE  launch[i].pc \notin {"ended", "reaped"} \/ Excused(launch[i])
    BY DEF RunsAreClosed, Excused
  <2>1. i \in Ids
    BY BoundsAssumption DEF Base, TypeOK, Ids, Started
  <2> QED BY <2>1 DEF Base, AllSound, Sound
<1> QED BY <1>1, SpecBase, PTL

-----------------------------------------------------------------------------
(* Nobody changes the cell of a launcher, or the manifest.                 *)
LEMMA Steady ==
  ASSUME Base, [Next]_vars
  PROVE  /\ DOMAIN row' = DOMAIN row /\ Started \subseteq Started' /\ Started \subseteq Ids
         /\ \A j \in Started : launch'[j].cell = launch[j].cell /\ launch'[j].smoke = launch[j].smoke
<1> DEFINE Kept == /\ DOMAIN row' = DOMAIN row /\ Started \subseteq Started'
                   /\ \A j \in Started : /\ launch'[j].cell = launch[j].cell
                                         /\ launch'[j].smoke = launch[j].smoke
<1>t. TypeOK /\ Started \subseteq Ids
  BY BoundsAssumption DEF Base, TypeOK, Ids, Started
<1>u. DOMAIN row \subseteq Cells /\ row \in [DOMAIN row -> Statuses] /\ todo \subseteq Cells
  BY <1>t DEF TypeOK
<1>1. ASSUME NEW c \in DOMAIN row, LaunchRow(c) PROVE Kept
  <2>1. Spawn(c, FALSE) /\ row' = [row EXCEPT ![c] = "running"] /\ c \in Cells
    BY <1>1, <1>u DEF LaunchRow
  <2>2. Started' = Started \cup {n'} /\ n' \notin Started /\ \A i \in Ids \ {n'} : launch'[i] = launch[i]
    BY <2>1, Spawns
  <2> QED BY <1>t, <1>u, <2>1, <2>2
<1>2. ASSUME NEW c \in todo, LaunchSmoke(c) PROVE Kept
  <2>1. Spawn(c, TRUE) /\ UNCHANGED row /\ c \in Cells
    BY <1>2, <1>u DEF LaunchSmoke
  <2>2. Started' = Started \cup {n'} /\ n' \notin Started /\ \A i \in Ids \ {n'} : launch'[i] = launch[i]
    BY <2>1, Spawns
  <2> QED BY <1>t, <2>1, <2>2
<1>3. ASSUME NEW c \in DOMAIN row, MarkPending(c) PROVE Kept
  BY <1>3, <1>u DEF MarkPending, Started
<1>4. ASSUME NEW i \in Started, Act(i) PROVE Kept
  <2>1. /\ Started' = Started /\ Became(i, launch'[i]) /\ DOMAIN row' = DOMAIN row
        /\ \A j \in Ids \ {i} : launch'[j] = launch[j]
    BY <1>4, ActState
  <2>2. Same(launch'[i], launch[i])
    BY <2>1 DEF Became
  <2> QED BY <1>t, <2>1, <2>2 DEF Same
<1>5. ASSUME NEW i \in Started, Checkpoint(i) PROVE Kept
  BY <1>5 DEF Checkpoint, Started
<1>6. ASSUME UNCHANGED vars PROVE Kept
  <2>1. row' = row /\ launch' = launch /\ n' = n
    BY <1>6 DEF vars
  <2> QED BY <2>1 DEF Started
<1>7. Kept
  <2> HIDE DEF Kept
  <2> QED BY <1>1, <1>2, <1>3, <1>4, <1>5, <1>6, Kinds
<1> QED BY <1>t, <1>7

(* The directory of a matrix cell that is not LDCQ's: a stage's checkpoints *)
(* there are those of one cell.                                            *)
LEMMA HomeIs ==
  ASSUME Base, NEW c \in DOMAIN row, NEW s \in Needs(c)
  PROVE  LET p == [c EXCEPT !.stage = s] IN
           /\ c.algo # "ldcq" /\ p \in DOMAIN row /\ p.stage \in Parents(p)
           /\ Candidates(c, s) = {k \in DOMAIN disk : launch[disk[k].by].cell = p}
<1> DEFINE p == [c EXCEPT !.stage = s]
<1>1. c \in Cells /\ c.algo # "ldcq" /\ p \in DOMAIN row /\ p \in Cells
  <2>1. PICK q \in Plans : DOMAIN row = q.rows
    BY DEF Base, Manifest
  <2>2. c.algo # "ldcq" /\ p \in q.rows
    BY <2>1, ManifestAssumption
  <2>3. DOMAIN row \subseteq Cells
    BY DEF Base, TypeOK
  <2> QED BY <2>1, <2>2, <2>3
<1>2. c.algo \in {"eda", "qgpo"} /\ c.stage \in StagesOf(c.algo)
  BY <1>1 DEF Needs, StagesOf
<1>3. p.stage = s /\ p.algo = c.algo /\ p.env = c.env /\ p.seed = c.seed /\ [p EXCEPT !.stage = c.stage] = c
  BY <1>1 DEF Cells
<1>4. s \in Parents(p)
  <2>1. c.stage \in StagesOf(p.algo) /\ s \in Needs([p EXCEPT !.stage = c.stage])
    BY <1>2, <1>3
  <2> HIDE DEF p
  <2> QED BY <2>1 DEF Parents
<1>5. ASSUME NEW k \in DOMAIN disk
      PROVE  LET d == launch[disk[k].by].cell IN SharesHome(c, d) /\ d.stage = s <=> d = p
  <2> DEFINE d == launch[disk[k].by].cell
  <2>1. launch[disk[k].by] \in Launches
    BY BoundsAssumption DEF Base, TypeOK, Ids, Started
  <2>2. d \in Cells
    BY <2>1 DEF Launches
  <2> HIDE DEF d
  <2>3. d = p <=> d.algo = c.algo /\ d.env = c.env /\ d.seed = c.seed /\ d.stage = s
    BY <1>1, <2>2 DEF Cells
  <2>4. SharesHome(c, d) <=> d.algo = c.algo /\ d.env = c.env /\ d.seed = c.seed
    BY <1>1 DEF SharesHome
  <2> QED BY <2>3, <2>4 DEF d
<1>6. Candidates(c, s) = {k \in DOMAIN disk : launch[disk[k].by].cell = p}
  <2> HIDE DEF p
  <2> QED BY <1>5 DEF Candidates
<1> QED BY <1>1, <1>3, <1>4, <1>6

-----------------------------------------------------------------------------
LEMMA BeginsFrom ==
  ASSUME Base, NEW i \in Started, Begin(i)
  PROVE  launch'[i].from = {Chosen(launch[i].cell, s) : s \in Needs(launch[i].cell)}
<1> DEFINE l == [launch[i] EXCEPT !.pc = "training", !.run = "RUNNING",
                   !.left = Scripts(launch[i].cell),
                   !.from = {Chosen(launch[i].cell, s) : s \in Needs(launch[i].cell)}]
<1>1. launch \in [Ids -> Launches] /\ i \in Ids
  BY BoundsAssumption DEF Base, TypeOK, Ids, Started
<1>2. launch[i] \in Launches
  BY <1>1
<1>3. l.from = {Chosen(launch[i].cell, s) : s \in Needs(launch[i].cell)}
  BY <1>2 DEF Launches
<1>4. launch' = [launch EXCEPT ![i] = l]
  BY DEF Begin, Become
<1>5. launch'[i] = l
  <2> HIDE DEF l
  <2> QED BY <1>1, <1>4
<1> QED BY <1>3, <1>5

-----------------------------------------------------------------------------
(* A row has at most one matrix launcher that was not reaped, and then it   *)
(* is running.                                                             *)
Live(i) == ~launch[i].smoke /\ launch[i].pc # "reaped"

OneLive ==
  \A i \in Started : Live(i) =>
    /\ row[launch[i].cell] = "running"
    /\ \A j \in Started : Live(j) /\ launch[j].cell = launch[i].cell => j = i

LEMMA OneLiveNext == Base /\ OneLive /\ [Next]_vars => OneLive'
<1> SUFFICES ASSUME Base, OneLive, [Next]_vars PROVE OneLive'
  OBVIOUS
<1>s. Started \subseteq Ids
  BY BoundsAssumption DEF Base, TypeOK, Ids, Started
<1>t. DOMAIN row \subseteq Cells /\ row \in [DOMAIN row -> Statuses] /\ todo \subseteq Cells
  BY DEF Base, TypeOK
<1>m. \A i \in Started : ~launch[i].smoke => launch[i].cell \in DOMAIN row
  BY DEF Base, Manifest
<1>1. ASSUME NEW c \in DOMAIN row, LaunchRow(c) PROVE OneLive'
  <2>1. Spawn(c, FALSE) /\ row[c] = "pending" /\ row' = [row EXCEPT ![c] = "running"] /\ c \in Cells
    BY <1>1, <1>t DEF LaunchRow
  <2>2. /\ Started' = Started \cup {n'} /\ n' \notin Started
        /\ \A i \in Ids \ {n'} : launch'[i] = launch[i]
        /\ launch'[n'].cell = c
    BY <2>1, Spawns
  <2>3. \A i \in Started : Live(i) => launch[i].cell # c
    BY <2>1 DEF OneLive
  <2>4. row'[c] = "running" /\ \A d \in DOMAIN row \ {c} : row'[d] = row[d]
    BY <1>t, <2>1
  <2> QED BY <1>s, <1>m, <2>2, <2>3, <2>4 DEF OneLive, Live
<1>2. ASSUME NEW c \in todo, LaunchSmoke(c) PROVE OneLive'
  <2>1. Spawn(c, TRUE) /\ UNCHANGED row /\ c \in Cells
    BY <1>2, <1>t DEF LaunchSmoke
  <2>2. /\ Started' = Started \cup {n'} /\ n' \notin Started
        /\ \A i \in Ids \ {n'} : launch'[i] = launch[i]
        /\ launch'[n'].smoke = TRUE
    BY <2>1, Spawns
  <2> QED BY <1>s, <2>1, <2>2 DEF OneLive, Live
<1>3. ASSUME NEW c \in DOMAIN row, MarkPending(c) PROVE OneLive'
  <2>1. /\ row' = [row EXCEPT ![c] = "pending"] /\ launch' = launch /\ n' = n
        /\ row[c] \in {"red", "awaiting_prereq"}
    BY <1>3 DEF MarkPending
  <2>2. \A i \in Started : Live(i) => launch[i].cell # c
    BY <2>1 DEF OneLive
  <2>3. \A d \in DOMAIN row \ {c} : row'[d] = row[d]
    BY <1>t, <2>1
  <2>4. Started' = Started
    BY <2>1 DEF Started
  <2> QED BY <1>m, <2>1, <2>2, <2>3, <2>4 DEF OneLive, Live
<1>4. ASSUME NEW i \in Started, Act(i) PROVE OneLive'
  <2>1. /\ Started' = Started /\ Became(i, launch'[i]) /\ (CellFinished(i) \/ UNCHANGED row)
        /\ \A j \in Ids \ {i} : launch'[j] = launch[j]
    BY <1>4, ActState
  <2>2. /\ launch'[i].cell = launch[i].cell /\ launch'[i].smoke = launch[i].smoke
        /\ launch[i].pc # "reaped" /\ (launch'[i].pc = "reaped" <=> CellFinished(i))
    BY <2>1, BecameIs
  <2>3. CASE CellFinished(i)
    <3>1. \A j \in Started : Live(j)' => Live(j) /\ j # i
      BY <1>s, <2>1, <2>2, <2>3 DEF Live
    <3>2. \A j \in Started : Live(j)' => row'[launch[j].cell] = row[launch[j].cell]
      <4>1. row' = IF launch[i].smoke THEN row
                   ELSE [row EXCEPT ![launch[i].cell] = StatusOf(launch[i].rc)]
        BY <2>3 DEF CellFinished
      <4>2. ASSUME NEW j \in Started, Live(j)', ~launch[i].smoke
            PROVE  launch[j].cell # launch[i].cell /\ launch[j].cell \in DOMAIN row
        BY <1>m, <2>2, <3>1, <4>2 DEF OneLive, Live
      <4> QED BY <1>t, <4>1, <4>2
    <3> QED BY <1>s, <2>1, <2>2, <3>1, <3>2 DEF OneLive, Live
  <2>4. CASE ~CellFinished(i)
    BY <1>s, <2>1, <2>2, <2>4 DEF OneLive, Live
  <2> QED BY <2>3, <2>4
<1>5. ASSUME (\E i \in Started : Checkpoint(i)) \/ UNCHANGED vars PROVE OneLive'
  <2>1. launch' = launch /\ n' = n /\ row' = row
    BY <1>5 DEF Checkpoint, vars
  <2> QED BY <2>1 DEF OneLive, Live, Started
<1> QED BY <1>1, <1>2, <1>3, <1>4, <1>5, Kinds

-----------------------------------------------------------------------------
(* A step that changes the record of a launcher started before is the       *)
(* launcher's own.                                                         *)
LEMMA OwnStep ==
  ASSUME Base, [Next]_vars, NEW i \in Started, launch'[i] # launch[i]
  PROVE  Act(i)
<1>s. Started \subseteq Ids
  BY BoundsAssumption DEF Base, TypeOK, Ids, Started
<1>t. DOMAIN row \subseteq Cells /\ todo \subseteq Cells
  BY DEF Base, TypeOK
<1>1. ASSUME NEW c \in DOMAIN row, LaunchRow(c) PROVE FALSE
  <2>1. Spawn(c, FALSE) /\ c \in Cells
    BY <1>1, <1>t DEF LaunchRow
  <2>2. n' \notin Started /\ \A j \in Ids \ {n'} : launch'[j] = launch[j]
    BY <2>1, Spawns
  <2> QED BY <1>s, <2>2
<1>2. ASSUME NEW c \in todo, LaunchSmoke(c) PROVE FALSE
  <2>1. Spawn(c, TRUE) /\ c \in Cells
    BY <1>2, <1>t DEF LaunchSmoke
  <2>2. n' \notin Started /\ \A j \in Ids \ {n'} : launch'[j] = launch[j]
    BY <2>1, Spawns
  <2> QED BY <1>s, <2>2
<1>3. ASSUME \/ \E c \in DOMAIN row : MarkPending(c)
             \/ \E j \in Started : Checkpoint(j)
             \/ UNCHANGED vars
      PROVE  FALSE
  BY <1>3 DEF MarkPending, Checkpoint, vars
<1>4. PICK j \in Started : Act(j)
  BY <1>1, <1>2, <1>3, Kinds
<1>5. \A k \in Ids \ {j} : launch'[k] = launch[k]
  BY <1>4, ActState
<1> QED BY <1>s, <1>4, <1>5

-----------------------------------------------------------------------------
(* A row whose stage others load is green only after its launcher saved its *)
(* last weights or was interrupted, and nothing but a smoke test writes     *)
(* after them.                                                              *)
Saved(c, k) ==
  /\ k \in DOMAIN disk /\ disk[k].final /\ launch[disk[k].by].cell = c
  /\ \A j \in DOMAIN disk :
       j > k /\ launch[disk[j].by].cell = c => launch[disk[j].by].smoke

Trained(c) ==
  \/ row[c] = "green"
  \/ \E i \in Started : /\ Live(i) /\ launch[i].cell = c
                        /\ launch[i].pc \in {"closing", "ended"} /\ launch[i].rc = 0

LastSaved ==
  \A c \in DOMAIN row : c.stage \in Parents(c) /\ Trained(c) /\ ~CutShort(c) => \E k \in DOMAIN disk : Saved(c, k)

LEMMA SavedStays ==
  ASSUME Base, [Next]_vars, NEW c, NEW k, Saved(c, k), UNCHANGED disk
  PROVE  Saved(c, k)'
<1>1. \A j \in DOMAIN disk : /\ launch'[disk[j].by].cell = launch[disk[j].by].cell
                             /\ launch'[disk[j].by].smoke = launch[disk[j].by].smoke
  BY Steady DEF Base, TypeOK
<1> QED BY <1>1 DEF Saved

LEMMA SavedStaysUnder ==
  ASSUME Base, [Next]_vars, NEW c, NEW k, Saved(c, k), NEW f \in Files, disk' = Append(disk, f),
         f.by \in Started, launch[f.by].cell # c \/ launch[f.by].smoke
  PROVE  Saved(c, k)'
<1>1. disk \in Seq(Files) /\ \A j \in DOMAIN disk : disk[j].by \in Started
  BY DEF Base, TypeOK
<1>2. /\ Len(disk) \in Nat /\ DOMAIN disk' = 1 .. Len(disk) + 1 /\ DOMAIN disk = 1 .. Len(disk)
      /\ disk'[Len(disk) + 1] = f /\ \A j \in DOMAIN disk : disk'[j] = disk[j]
  BY <1>1
<1>3. \A j \in Started : launch'[j].cell = launch[j].cell /\ launch'[j].smoke = launch[j].smoke
  BY Steady
<1> QED BY <1>1, <1>2, <1>3 DEF Saved

(* Only a signal in the finally clause takes the 0 of an interrupted        *)
(* launcher back, and then its row is still running.                        *)
LEMMA CutShortStays ==
  ASSUME Base, OneLive, [Next]_vars, NEW c, CutShort(c), Trained(c)'
  PROVE  CutShort(c)'
<1>1. PICK j \in Started : /\ launch[j].cell = c /\ ~launch[j].smoke /\ launch[j].rc = 0
                           /\ "interrupted" \in launch[j].mishaps
  BY DEF CutShort
<1>2. j \in Started' /\ launch'[j].cell = c /\ ~launch'[j].smoke /\ Started \subseteq Ids
  BY <1>1, Steady
<1>3. CASE launch'[j] = launch[j]
  BY <1>1, <1>2, <1>3 DEF CutShort
<1>4. CASE launch'[j] # launch[j]
  <2>1. /\ Started' = Started /\ Became(j, launch'[j]) /\ (CellFinished(j) \/ UNCHANGED row)
        /\ \A i \in Ids \ {j} : launch'[i] = launch[i]
    BY <1>4, OwnStep, ActState
  <2>2. /\ launch[j].mishaps \subseteq launch'[j].mishaps /\ launch[j].pc # "reaped"
        /\ launch'[j].rc = launch[j].rc \/ launch[j].pc # "ended"
    BY <2>1, BecameIs
  <2>3. CASE launch'[j].rc = 0
    BY <1>1, <1>2, <2>2, <2>3 DEF CutShort
  <2>4. CASE launch'[j].rc # 0
    <3>1. UNCHANGED row
      BY <1>1, <2>1, <2>2, <2>4 DEF CellFinished
    <3>2. row[c] = "running" /\ \A i \in Started : Live(i) /\ launch[i].cell = c => i = j
      BY <1>1, <2>2 DEF OneLive, Live
    <3>3. ASSUME NEW i \in Started, Live(i)', launch'[i].cell = c, launch'[i].rc = 0 PROVE FALSE
      BY <1>2, <2>1, <2>4, <3>2, <3>3 DEF Live
    <3> QED BY <2>1, <3>1, <3>2, <3>3 DEF Trained
  <2> QED BY <2>3, <2>4
<1> QED BY <1>3, <1>4

LEMMA LastSavedNext == Base /\ OneLive /\ LastSaved /\ [Next]_vars => LastSaved'
<1> SUFFICES ASSUME Base, OneLive, LastSaved, [Next]_vars,
                    NEW c \in DOMAIN row', c.stage \in Parents(c), Trained(c)', ~CutShort(c)'
             PROVE  \E k \in DOMAIN disk' : Saved(c, k)'
  BY DEF LastSaved
<1>d. /\ c \in DOMAIN row /\ Started \subseteq Started' /\ Started \subseteq Ids
      /\ \A j \in Started : launch'[j].cell = launch[j].cell /\ launch'[j].smoke = launch[j].smoke
  BY Steady
<1>t. DOMAIN row \subseteq Cells /\ row \in [DOMAIN row -> Statuses] /\ todo \subseteq Cells
  BY DEF Base, TypeOK
<1>c. ~CutShort(c)
  BY CutShortStays
<1>k. ASSUME Trained(c), UNCHANGED disk PROVE \E k \in DOMAIN disk' : Saved(c, k)'
  <2>1. PICK k \in DOMAIN disk : Saved(c, k)
    BY <1>c, <1>d, <1>k DEF LastSaved
  <2>2. Saved(c, k)'
    BY <1>k, <2>1, SavedStays
  <2> QED BY <1>k, <2>2
<1>a. ASSUME NEW f \in Files, disk' = Append(disk, f), f.by \in Started, Trained(c),
             launch[f.by].cell # c \/ launch[f.by].smoke
      PROVE  \E k \in DOMAIN disk' : Saved(c, k)'
  <2>1. PICK k \in DOMAIN disk : Saved(c, k)
    BY <1>c, <1>d, <1>a DEF LastSaved
  <2>2. Saved(c, k)'
    BY <1>a, <2>1, SavedStaysUnder
  <2>3. k \in DOMAIN disk'
    BY <2>2 DEF Saved
  <2> QED BY <2>2, <2>3
<1>1. ASSUME NEW d \in DOMAIN row, LaunchRow(d) PROVE \E k \in DOMAIN disk' : Saved(c, k)'
  <2>1. Spawn(d, FALSE) /\ row' = [row EXCEPT ![d] = "running"] /\ d \in Cells
    BY <1>1, <1>t DEF LaunchRow
  <2>2. /\ Started' = Started \cup {n'} /\ n' \notin Started /\ UNCHANGED disk
        /\ \A i \in Ids \ {n'} : launch'[i] = launch[i]
        /\ launch'[n'].pc = "start"
    BY <2>1, Spawns
  <2>3. row'[c] = "green" => row[c] = "green"
    BY <1>d, <1>t, <2>1
  <2>4. Trained(c)
    BY <1>d, <2>2, <2>3 DEF Trained, Live
  <2> QED BY <1>k, <2>2, <2>4
<1>2. ASSUME NEW d \in todo, LaunchSmoke(d) PROVE \E k \in DOMAIN disk' : Saved(c, k)'
  <2>1. Spawn(d, TRUE) /\ UNCHANGED row /\ d \in Cells
    BY <1>2, <1>t DEF LaunchSmoke
  <2>2. /\ Started' = Started \cup {n'} /\ n' \notin Started /\ UNCHANGED disk
        /\ \A i \in Ids \ {n'} : launch'[i] = launch[i]
        /\ launch'[n'].pc = "start"
    BY <2>1, Spawns
  <2>4. Trained(c)
    BY <1>d, <2>1, <2>2 DEF Trained, Live
  <2> QED BY <1>k, <2>2, <2>4
<1>3. ASSUME NEW d \in DOMAIN row, MarkPending(d) PROVE \E k \in DOMAIN disk' : Saved(c, k)'
  <2>1. row' = [row EXCEPT ![d] = "pending"] /\ launch' = launch /\ n' = n /\ UNCHANGED disk
    BY <1>3 DEF MarkPending
  <2>2. row'[c] = "green" => row[c] = "green"
    BY <1>d, <1>t, <2>1
  <2>3. Trained(c)
    BY <2>1, <2>2 DEF Trained, Live, Started
  <2> QED BY <1>k, <2>1, <2>3
<1>4. ASSUME NEW i \in Started, Act(i) PROVE \E k \in DOMAIN disk' : Saved(c, k)'
  <2>1. /\ Started' = Started /\ Became(i, launch'[i]) /\ (CellFinished(i) \/ UNCHANGED row)
        /\ Complete(i) \/ UNCHANGED disk
        /\ \A j \in Ids \ {i} : launch'[j] = launch[j]
    BY <1>4, ActState
  <2>2. \/ launch'[i].pc \notin {"closing", "ended"} \/ launch'[i].rc # 0 \/ launch[i].smoke
        \/ (launch[i].pc = "closing" /\ launch[i].rc = 0) \/ Complete(i) \/ launch[i].cell # c
    <3>1. \/ launch'[i].pc \notin {"closing", "ended"} \/ launch'[i].rc # 0 \/ launch[i].smoke
          \/ (launch[i].pc = "closing" /\ launch[i].rc = 0) \/ Complete(i)
          \/ "interrupted" \in launch'[i].mishaps
      BY <2>1, BecameIs
    <3>2. launch'[i].cell = launch[i].cell /\ launch'[i].smoke = launch[i].smoke /\ i \in Started'
      BY <1>d
    <3> QED BY <3>1, <3>2 DEF CutShort
  <2>3. CASE CellFinished(i)
    <3>1. /\ launch[i].pc = "ended" /\ UNCHANGED disk
          /\ row' = IF launch[i].smoke THEN row
                    ELSE [row EXCEPT ![launch[i].cell] = StatusOf(launch[i].rc)]
      BY <2>3 DEF CellFinished
    <3>2. StatusOf(launch[i].rc) = "green" => launch[i].rc = 0
      BY DEF StatusOf
    <3>3. row'[c] = "green" => row[c] = "green" \/ (~launch[i].smoke /\ launch[i].cell = c /\ launch[i].rc = 0)
      BY <1>d, <1>t, <3>1, <3>2
    <3>4. launch'[i].pc = "reaped"
      BY <2>1, <2>3 DEF Became
    <3>5. CASE row'[c] = "green"
      BY <1>k, <3>1, <3>3, <3>5 DEF Trained, Live
    <3>6. CASE row'[c] # "green"
      <4>1. Trained(c)
        BY <1>d, <2>1, <3>4, <3>6 DEF Trained, Live
      <4> QED BY <1>k, <3>1, <4>1
    <3> QED BY <3>5, <3>6
  <2>4. CASE ~CellFinished(i) /\ ~Complete(i)
    <3>1. UNCHANGED <<row, disk>>
      BY <2>1, <2>4
    <3>2. Trained(c)
      BY <1>d, <2>1, <2>2, <2>4, <3>1 DEF Trained, Live
    <3> QED BY <1>k, <3>1, <3>2
  <2>5. CASE Complete(i) /\ launch[i].cell = c /\ ~launch[i].smoke
    <3>1. PICK f \in Files : disk' = Append(disk, f) /\ f.by = i /\ f.final
      BY <2>5, Written
    <3>2. disk \in Seq(Files)
      BY DEF Base, TypeOK
    <3>3. PICK m \in Nat : DOMAIN disk' = 1 .. m /\ m \in DOMAIN disk' /\ disk'[m] = f
      <4>1. Len(disk) + 1 \in Nat /\ DOMAIN disk' = 1 .. Len(disk) + 1 /\ disk'[Len(disk) + 1] = f
        BY <3>1, <3>2
      <4> QED BY <4>1
    <3>4. Saved(c, m)'
      BY <1>d, <2>5, <3>1, <3>3 DEF Saved
    <3> QED BY <3>3, <3>4
  <2>6. CASE Complete(i) /\ ~(launch[i].cell = c /\ ~launch[i].smoke)
    <3>1. UNCHANGED row /\ ~CellFinished(i)
      BY <2>1, <2>6 DEF Complete, CellFinished
    <3>2. Trained(c)
      BY <1>d, <2>1, <2>6, <3>1 DEF Trained, Live
    <3>3. CASE UNCHANGED disk
      BY <1>k, <3>2, <3>3
    <3>4. CASE ~UNCHANGED disk
      <4>1. PICK f \in Files : disk' = Append(disk, f) /\ f.by = i
        BY <2>6, <3>4, Written
      <4> QED BY <1>a, <2>6, <3>2, <4>1
    <3> QED BY <3>3, <3>4
  <2> QED BY <2>3, <2>4, <2>5, <2>6
<1>5. ASSUME NEW i \in Started, Checkpoint(i) PROVE \E k \in DOMAIN disk' : Saved(c, k)'
  <2>1. launch' = launch /\ n' = n /\ row' = row /\ launch[i].pc = "training"
    BY <1>5 DEF Checkpoint
  <2>2. Trained(c)
    BY <2>1 DEF Trained, Live, Started
  <2>3. CASE UNCHANGED disk
    BY <1>k, <2>2, <2>3
  <2>4. CASE ~UNCHANGED disk
    <3>1. PICK f \in Files : disk' = Append(disk, f) /\ f.by = i
      BY <1>5, <2>4, Written
    <3>2. launch[i].cell # c \/ launch[i].smoke
      <4> SUFFICES ASSUME launch[i].cell = c, ~launch[i].smoke PROVE FALSE
        OBVIOUS
      <4>1. Live(i)
        BY <2>1 DEF Live
      <4>2. row[c] = "running" /\ \A j \in Started : Live(j) /\ launch[j].cell = c => j = i
        BY <4>1 DEF OneLive
      <4> QED BY <2>1, <2>2, <4>2 DEF Trained
    <3> QED BY <1>a, <2>2, <3>1, <3>2
  <2> QED BY <2>3, <2>4
<1>6. ASSUME UNCHANGED vars PROVE \E k \in DOMAIN disk' : Saved(c, k)'
  <2>1. launch' = launch /\ n' = n /\ row' = row /\ UNCHANGED disk
    BY <1>6 DEF vars
  <2>2. Trained(c)
    BY <2>1 DEF Trained, Live, Started
  <2> QED BY <1>k, <2>1, <2>2
<1> QED BY <1>1, <1>2, <1>3, <1>4, <1>5, <1>6, Kinds

Ordered == Base /\ OneLive /\ LastSaved

LEMMA SpecOrdered == Spec => []Ordered
<1>1. Init => Ordered
  <2> SUFFICES ASSUME Init PROVE Ordered
    OBVIOUS
  <2>1. Base /\ Started = {}
    BY InitBase DEF Init, Started
  <2>2. \A c \in DOMAIN row : row[c] = "pending"
    BY DEF Init
  <2> QED BY <2>1, <2>2 DEF Ordered, OneLive, LastSaved, Trained
<1>2. Ordered /\ [Next]_vars => Ordered'
  BY NextBase, OneLiveNext, LastSavedNext DEF Ordered
<1> QED BY <1>1, <1>2, PTL DEF Spec

-----------------------------------------------------------------------------
(* Ordered is what the two promises about a green stage need: if it was not *)
(* interrupted, its last checkpoint is on the disk, and only a smoke test's *)
(* can be newer.                                                            *)
LEMMA Admitted ==
  ASSUME Ordered, [Next]_vars, NEW i \in Started, launch[i].rc # 65, launch'[i].rc = 65,
         ~launch[i].smoke
  PROVE  \E s \in Needs(launch[i].cell) :
           LET earlier == [launch[i].cell EXCEPT !.stage = s]
           IN row[earlier] # "green" \/ CutShort(earlier)
<1> DEFINE c == launch[i].cell
<1>1. Base /\ LastSaved /\ Act(i)
  BY OwnStep DEF Ordered
<1>2. Became(i, launch'[i])
  BY <1>1, ActState
<1>3. TurnAway(i)
  BY <1>2 DEF Became
<1>4. PICK s \in Needs(c) : Candidates(c, s) = {}
  BY <1>3 DEF TurnAway, Missing
<1>5. c \in DOMAIN row
  BY <1>1 DEF Base, Manifest
<1> DEFINE p == [c EXCEPT !.stage = s]
<1>6. /\ p \in DOMAIN row /\ p.stage \in Parents(p)
      /\ Candidates(c, s) = {k \in DOMAIN disk : launch[disk[k].by].cell = p}
  <2> HIDE DEF c
  <2> QED BY <1>1, <1>5, HomeIs
<1>7. row[p] # "green" \/ CutShort(p)
  <2> HIDE DEF p
  <2> QED BY <1>1, <1>4, <1>6 DEF LastSaved, Trained, Saved
<1> QED BY <1>7

LEMMA TrainsOnLast ==
  ASSUME Ordered, [Next]_vars, NEW i \in Started, launch[i].pc = "start",
         launch'[i].pc = "training", ~launch[i].smoke, NEW f \in launch'[i].from,
         row[[launch[i].cell EXCEPT !.stage = launch[f.by].cell.stage]] = "green",
         ~CutShort([launch[i].cell EXCEPT !.stage = launch[f.by].cell.stage])
  PROVE  f.final \/ launch[f.by].smoke
<1> DEFINE c == launch[i].cell
<1>1. Base /\ LastSaved /\ Act(i) /\ TypeOK
  BY OwnStep DEF Ordered, Base
<1>2. Became(i, launch'[i])
  BY <1>1, ActState
<1>3. Begin(i)
  BY <1>2 DEF Became
<1>4. ~Missing(c) /\ launch'[i].from = {Chosen(c, s) : s \in Needs(c)}
  BY <1>1, <1>3, BeginsFrom DEF Begin
<1>5. PICK s \in Needs(c) : f = Chosen(c, s)
  BY <1>4
<1>6. c \in DOMAIN row /\ c \in Cells
  BY <1>1 DEF Base, Manifest, TypeOK
<1> DEFINE p == [c EXCEPT !.stage = s]
<1>7. /\ p \in DOMAIN row /\ p.stage \in Parents(p) /\ c.algo # "ldcq"
      /\ Candidates(c, s) = {k \in DOMAIN disk : launch[disk[k].by].cell = p}
  <2> HIDE DEF c
  <2> QED BY <1>1, <1>6, HomeIs
<1>8. PICK k \in Candidates(c, s) : Chosen(c, s) = disk[k] /\ \A j \in Candidates(c, s) : j <= k
  <2>1. Candidates(c, s) # {}
    BY <1>4 DEF Missing
  <2> HIDE DEF c
  <2> QED BY <1>1, <1>6, <1>7, <2>1, ChosenIs
<1>9. launch[f.by].cell = p /\ p.stage = s
  <2>1. p.stage = s
    BY <1>6 DEF Cells
  <2> HIDE DEF c, p
  <2> QED BY <1>5, <1>7, <1>8, <2>1
<1>10. row[p] = "green" /\ ~CutShort(p)
  BY <1>9
<1>11. PICK m \in DOMAIN disk : Saved(p, m)
  <2> HIDE DEF p
  <2> QED BY <1>1, <1>7, <1>10 DEF LastSaved, Trained
<1>12. m \in Candidates(c, s) /\ m <= k /\ k \in DOMAIN disk /\ DOMAIN disk \subseteq Int
  <2>1. disk \in Seq(Files)
    BY <1>1 DEF TypeOK
  <2>2. DOMAIN disk \subseteq Int
    BY <2>1
  <2> HIDE DEF c, p
  <2> QED BY <1>7, <1>8, <1>11, <2>2 DEF Saved
<1>13. disk[k].final \/ launch[disk[k].by].smoke
  <2> HIDE DEF c, p
  <2> QED BY <1>5, <1>8, <1>9, <1>11, <1>12 DEF Saved
<1> QED BY <1>5, <1>8, <1>13

(* Once every earlier stage of its method is green, and none because its    *)
(* launcher was interrupted, no matrix stage is turned away for want of a   *)
(* checkpoint.                                                              *)
THEOREM ReadyAreAdmitted == Spec => ReadyIsAdmitted
<1>1. Ordered /\ [Next]_vars =>
        [\A i \in Started :
           launch[i].rc # 65 /\ launch'[i].rc = 65 /\ ~launch[i].smoke =>
             \E s \in Needs(launch[i].cell) :
               LET earlier == [launch[i].cell EXCEPT !.stage = s]
               IN row[earlier] # "green" \/ CutShort(earlier)]_vars
  BY Admitted
<1> QED BY <1>1, SpecOrdered, PTL DEF Spec, ReadyIsAdmitted

(* When the earlier stage is green and was not interrupted, a matrix stage  *)
(* takes its last checkpoint, unless a smoke test slipped a newer one in.   *)
THEOREM ReadyTrainOnLast == Spec => ReadyTrainsOnLast
<1>1. Ordered /\ [Next]_vars =>
        [\A i \in Started :
           launch[i].pc = "start" /\ launch'[i].pc = "training" /\ ~launch[i].smoke =>
             \A f \in launch'[i].from :
               LET earlier == [launch[i].cell EXCEPT !.stage = launch[f.by].cell.stage]
               IN row[earlier] = "green" /\ ~CutShort(earlier)
                    => f.final \/ launch[f.by].smoke]_vars
  BY TrainsOnLast
<1> QED BY <1>1, SpecOrdered, PTL DEF Spec, ReadyTrainsOnLast

-----------------------------------------------------------------------------
(* A row is launched once, and once more each time it is made pending; one   *)
(* that is pending has a launch to its credit.                             *)
Tries(c) == {j \in Started : ~launch[j].smoke /\ launch[j].cell = c}
Credit(c) == IF row[c] = "pending" THEN 1 ELSE 0

Paid == \A c \in DOMAIN row : Cardinality(Tries(c)) + Credit(c) <= 1 + again[c]

LEMMA TriesFinite ==
  ASSUME TypeOK, NEW c
  PROVE  IsFiniteSet(Tries(c)) /\ Cardinality(Tries(c)) \in Nat
<1>1. n \in Int
  BY BoundsAssumption DEF TypeOK
<1>2. IsFiniteSet(Started)
  BY <1>1, FS_Interval DEF Started
<1>3. IsFiniteSet(Tries(c))
  BY <1>2, FS_Subset DEF Tries
<1> QED BY <1>3, FS_CardinalityType

LEMMA PaidNext == Base /\ Paid /\ [Next]_vars => Paid'
<1> SUFFICES ASSUME Base, Paid, [Next]_vars, NEW c \in DOMAIN row'
             PROVE  Cardinality(Tries(c)') + Credit(c)' <= 1 + again'[c]
  BY DEF Paid
<1>t. /\ TypeOK /\ DOMAIN row \subseteq Cells /\ row \in [DOMAIN row -> Statuses]
      /\ todo \subseteq Cells /\ again \in [DOMAIN row -> Nat] /\ Started \subseteq Ids
  BY BoundsAssumption DEF Base, TypeOK, Ids, Started
<1>d. /\ c \in DOMAIN row /\ Started \subseteq Started'
      /\ \A j \in Started : launch'[j].cell = launch[j].cell /\ launch'[j].smoke = launch[j].smoke
  BY Steady
<1>p. /\ Cardinality(Tries(c)) + Credit(c) <= 1 + again[c]
      /\ Cardinality(Tries(c)) \in Nat /\ Credit(c) \in {0, 1} /\ again[c] \in Nat
      /\ IsFiniteSet(Tries(c))
  BY <1>d, <1>t, TriesFinite DEF Paid, Credit
<1>k. ASSUME Started' = Started, row'[c] = "pending" => row[c] = "pending", UNCHANGED again
      PROVE  Cardinality(Tries(c)') + Credit(c)' <= 1 + again'[c]
  <2>1. Tries(c)' = Tries(c)
    BY <1>d, <1>k DEF Tries
  <2>2. Credit(c)' \in {0, 1} /\ Credit(c)' <= Credit(c)
    BY <1>k DEF Credit
  <2> QED BY <1>k, <1>p, <2>1, <2>2
<1>1. ASSUME NEW d \in DOMAIN row, LaunchRow(d)
      PROVE  Cardinality(Tries(c)') + Credit(c)' <= 1 + again'[c]
  <2>1. Spawn(d, FALSE) /\ row[d] = "pending" /\ row' = [row EXCEPT ![d] = "running"] /\ d \in Cells
    BY <1>1, <1>t DEF LaunchRow
  <2>2. /\ Started' = Started \cup {n'} /\ n' \notin Started /\ UNCHANGED again
        /\ launch'[n'].cell = d /\ launch'[n'].smoke = FALSE
    BY <2>1, Spawns
  <2>3. CASE d = c
    <3>1. Tries(c)' = Tries(c) \cup {n'} /\ n' \notin Tries(c)
      BY <1>d, <2>2, <2>3 DEF Tries
    <3>2. Cardinality(Tries(c)') = Cardinality(Tries(c)) + 1
      BY <1>p, <3>1, FS_AddElement
    <3>3. Credit(c) = 1 /\ Credit(c)' = 0
      BY <1>t, <2>1, <2>3 DEF Credit
    <3> QED BY <1>p, <2>2, <3>2, <3>3
  <2>4. CASE d # c
    <3>1. Tries(c)' = Tries(c)
      BY <1>d, <2>2, <2>4 DEF Tries
    <3>2. Credit(c)' = Credit(c)
      BY <1>d, <1>t, <2>1, <2>4 DEF Credit
    <3> QED BY <1>p, <2>2, <3>1, <3>2
  <2> QED BY <2>3, <2>4
<1>2. ASSUME NEW d \in todo, LaunchSmoke(d)
      PROVE  Cardinality(Tries(c)') + Credit(c)' <= 1 + again'[c]
  <2>1. Spawn(d, TRUE) /\ UNCHANGED row /\ d \in Cells
    BY <1>2, <1>t DEF LaunchSmoke
  <2>2. /\ Started' = Started \cup {n'} /\ n' \notin Started /\ UNCHANGED again
        /\ launch'[n'].smoke = TRUE
    BY <2>1, Spawns
  <2>3. Tries(c)' = Tries(c)
    BY <1>d, <2>2 DEF Tries
  <2>4. Credit(c)' = Credit(c)
    BY <2>1 DEF Credit
  <2> QED BY <1>p, <2>2, <2>3, <2>4
<1>3. ASSUME NEW d \in DOMAIN row, MarkPending(d)
      PROVE  Cardinality(Tries(c)') + Credit(c)' <= 1 + again'[c]
  <2>1. /\ row[d] \in {"red", "awaiting_prereq"} /\ row' = [row EXCEPT ![d] = "pending"]
        /\ again' = [again EXCEPT ![d] = @ + 1] /\ n' = n
    BY <1>3 DEF MarkPending
  <2>2. Started' = Started
    BY <2>1 DEF Started
  <2>3. Tries(c)' = Tries(c)
    BY <1>d, <2>2 DEF Tries
  <2>4. CASE d = c
    <3>1. Credit(c) = 0 /\ Credit(c)' \in {0, 1} /\ again'[c] = again[c] + 1
      BY <1>t, <2>1, <2>4 DEF Credit
    <3> QED BY <1>p, <2>3, <3>1
  <2>5. CASE d # c
    <3>1. Credit(c)' = Credit(c) /\ again'[c] = again[c]
      BY <1>d, <1>t, <2>1, <2>5 DEF Credit
    <3> QED BY <1>p, <2>3, <3>1
  <2> QED BY <2>4, <2>5
<1>4. ASSUME NEW i \in Started, Act(i)
      PROVE  Cardinality(Tries(c)') + Credit(c)' <= 1 + again'[c]
  <2>1. Started' = Started /\ UNCHANGED again /\ (CellFinished(i) \/ UNCHANGED row)
    BY <1>4, ActState
  <2>2. row'[c] = "pending" => row[c] = "pending"
    <3>1. StatusOf(launch[i].rc) # "pending"
      BY DEF StatusOf
    <3>2. CASE CellFinished(i)
      BY <1>d, <1>t, <3>1, <3>2 DEF CellFinished
    <3> QED BY <2>1, <3>2
  <2> QED BY <1>k, <2>1, <2>2
<1>5. ASSUME (\E i \in Started : Checkpoint(i)) \/ UNCHANGED vars
      PROVE  Cardinality(Tries(c)') + Credit(c)' <= 1 + again'[c]
  <2>1. UNCHANGED <<row, again>> /\ n' = n
    BY <1>5 DEF Checkpoint, vars
  <2>2. Started' = Started
    BY <2>1 DEF Started
  <2> QED BY <1>k, <2>1, <2>2
<1> QED BY <1>1, <1>2, <1>3, <1>4, <1>5, Kinds

(* The final table counts a cell once per time it was made pending, and no   *)
(* smoke test, whatever is killed, raised or retried.                      *)
THEOREM SeedsAreCountedOnce == Spec => []SeedsCountedOnce
<1>1. Init => Base /\ Paid
  <2> SUFFICES ASSUME Init PROVE Base /\ Paid
    OBVIOUS
  <2>1. Base /\ Started = {} /\ \A c \in DOMAIN row : again[c] = 0
    BY InitBase DEF Init, Started
  <2>2. \A c : Tries(c) = {}
    BY <2>1 DEF Tries
  <2>3. \A c : Cardinality(Tries(c)) = 0
    BY <2>2, FS_EmptySet
  <2>4. \A c \in DOMAIN row : Credit(c) \in {0, 1}
    BY DEF Credit
  <2> QED BY <2>1, <2>3, <2>4 DEF Paid
<1>2. Base /\ Paid /\ [Next]_vars => (Base /\ Paid)'
  BY NextBase, PaidNext
<1>3. Base /\ Paid => SeedsCountedOnce
  <2> SUFFICES ASSUME Base, Paid, NEW i \in Started, Counts(launch[i])
               PROVE  LET c == launch[i].cell IN
                        /\ c \in DOMAIN row
                        /\ Cardinality({j \in Group(c.algo, c.env) : launch[j].cell = c}) <= 1 + again[c]
    BY DEF SeedsCountedOnce
  <2> DEFINE c == launch[i].cell
             Counted == {j \in Group(c.algo, c.env) : launch[j].cell = c}
  <2>1. c \in DOMAIN row
    BY DEF Counts, Base, Manifest
  <2>2. Counted \subseteq Tries(c)
    BY DEF Group, Counts, Tries
  <2>3. IsFiniteSet(Tries(c)) /\ Cardinality(Tries(c)) \in Nat
    BY TriesFinite DEF Base
  <2>4. Cardinality(Tries(c)) + Credit(c) <= 1 + again[c] /\ Credit(c) \in {0, 1} /\ again[c] \in Nat
    BY <2>1 DEF Paid, Credit, Base, TypeOK
  <2> HIDE DEF Counted
  <2>5. Cardinality(Counted) \in Nat /\ Cardinality(Counted) <= Cardinality(Tries(c))
    BY <2>2, <2>3, FS_Subset, FS_CardinalityType
  <2>6. Cardinality(Counted) <= 1 + again[c]
    BY <2>3, <2>4, <2>5
  <2> QED BY <2>1, <2>6 DEF Counted
<1> QED BY <1>1, <1>2, <1>3, PTL DEF Spec

=============================================================================
