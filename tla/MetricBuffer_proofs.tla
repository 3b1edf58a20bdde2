------------------------- MODULE MetricBuffer_proofs ------------------------
(***************************************************************************)
(* Whatever fails and whenever the alarm rings, MLflow gets the points of  *)
(* a shim at most once and in their order, for every batch size and every  *)
(* flushing threshold; the buffer stays below the threshold and is empty   *)
(* once wandb is finished. While nothing fails, no point is lost.          *)
(***************************************************************************)
EXTENDS MetricBuffer, SequenceTheorems, TLAPS

Increasing(q) == \A i, j \in 1 .. Len(q) : i < j => q[i] < q[j]
Before(q, r)  == \A i \in 1 .. Len(q), j \in 1 .. Len(r) : q[i] < r[j]
UpTo(q, n)    == \A i \in 1 .. Len(q) : q[i] <= n

-----------------------------------------------------------------------------
(* Joining, and cutting into batches.                                      *)
LEMMA JoinIncreasing ==
  ASSUME NEW q \in Seq(Nat), NEW r \in Seq(Nat), Increasing(q), Increasing(r), Before(q, r)
  PROVE  Increasing(q \o r)
<1> SUFFICES ASSUME NEW i \in 1 .. Len(q \o r), NEW j \in 1 .. Len(q \o r), i < j
             PROVE  (q \o r)[i] < (q \o r)[j]
  BY DEF Increasing
<1>1. CASE j <= Len(q)
  <2>1. i \in 1 .. Len(q) /\ j \in 1 .. Len(q)
    BY <1>1
  <2> QED BY <2>1 DEF Increasing
<1>2. CASE i <= Len(q) /\ j > Len(q)
  <2>1. i \in 1 .. Len(q) /\ j - Len(q) \in 1 .. Len(r)
    BY <1>2
  <2>2. (q \o r)[i] = q[i] /\ (q \o r)[j] = r[j - Len(q)]
    BY <1>2
  <2> QED BY <2>1, <2>2 DEF Before
<1>3. CASE i > Len(q) /\ j > Len(q)
  <2>1. i - Len(q) \in 1 .. Len(r) /\ j - Len(q) \in 1 .. Len(r) /\ i - Len(q) < j - Len(q)
    BY <1>3
  <2>2. (q \o r)[i] = r[i - Len(q)] /\ (q \o r)[j] = r[j - Len(q)]
    BY <1>3
  <2> QED BY <2>1, <2>2 DEF Increasing
<1> QED BY <1>1, <1>2, <1>3

LEMMA JoinBefore ==
  ASSUME NEW q \in Seq(Nat), NEW r \in Seq(Nat), NEW t \in Seq(Nat),
         Before(q, t), Before(r, t)
  PROVE  Before(q \o r, t)
<1> SUFFICES ASSUME NEW i \in 1 .. Len(q \o r), NEW j \in 1 .. Len(t)
             PROVE  (q \o r)[i] < t[j]
  BY DEF Before
<1>1. CASE i <= Len(q)
  BY <1>1 DEF Before
<1>2. CASE i > Len(q)
  <2>1. i - Len(q) \in 1 .. Len(r) /\ (q \o r)[i] = r[i - Len(q)]
    BY <1>2
  <2> QED BY <2>1 DEF Before
<1> QED BY <1>1, <1>2

LEMMA BeforeJoin ==
  ASSUME NEW q \in Seq(Nat), NEW r \in Seq(Nat), NEW t \in Seq(Nat),
         Before(q, r), Before(q, t)
  PROVE  Before(q, r \o t)
BY DEF Before

LEMMA JoinUpTo ==
  ASSUME NEW q \in Seq(Nat), NEW r \in Seq(Nat), NEW n \in Nat, UpTo(q, n), UpTo(r, n)
  PROVE  UpTo(q \o r, n)
BY DEF UpTo

LEMMA UpToMore ==
  ASSUME NEW q \in Seq(Nat), NEW n \in Nat, NEW m \in Nat, n <= m, UpTo(q, n)
  PROVE  UpTo(q, m)
<1> SUFFICES ASSUME NEW i \in 1 .. Len(q) PROVE q[i] <= m
  BY DEF UpTo
<1>1. q[i] \in Nat /\ q[i] <= n
  BY DEF UpTo
<1> QED BY <1>1

BatchEnd == IF Len(pending) < BatchSize THEN Len(pending) ELSE BatchSize

LEMMA Cut ==
  ASSUME pending \in Seq(Nat)
  PROVE  /\ Batch \in Seq(Nat) /\ Rest \in Seq(Nat)
         /\ Len(Batch) = BatchEnd /\ Len(Batch) <= Len(pending)
         /\ \A i \in 1 .. Len(Batch) : Batch[i] = pending[i]
         /\ \A i \in 1 .. Len(Rest) : /\ Rest[i] = pending[BatchSize + i]
                                      /\ BatchSize + i \in 1 .. Len(pending)
<1>1. BatchSize \in Nat /\ BatchSize > 0 /\ Len(pending) \in Nat
  BY BufferAssumption
<1>2. BatchEnd \in 0 .. Len(pending)
  BY <1>1 DEF BatchEnd
<1>3. Batch = SubSeq(pending, 1, BatchEnd)
  BY DEF Batch, BatchEnd
<1>4. Batch \in Seq(Nat) /\ Len(Batch) = BatchEnd
      /\ \A i \in 1 .. Len(Batch) : Batch[i] = pending[i]
  BY <1>2, <1>3
<1>5. Rest \in Seq(Nat)
      /\ \A i \in 1 .. Len(Rest) : /\ Rest[i] = pending[BatchSize + i]
                                   /\ BatchSize + i \in 1 .. Len(pending)
  BY <1>1 DEF Rest
<1> QED BY <1>2, <1>4, <1>5

LEMMA CutOrder ==
  ASSUME pending \in Seq(Nat), Increasing(pending)
  PROVE  Increasing(Batch) /\ Increasing(Rest) /\ Before(Batch, Rest)
<1>1. BatchSize \in Nat /\ BatchEnd \in Nat /\ BatchEnd <= BatchSize
  BY BufferAssumption DEF BatchEnd
<1>2. Increasing(Batch)
  BY Cut DEF Increasing
<1>3. Increasing(Rest)
  BY Cut, <1>1 DEF Increasing
<1>4. Before(Batch, Rest)
  <2> SUFFICES ASSUME NEW i \in 1 .. Len(Batch), NEW j \in 1 .. Len(Rest)
               PROVE  Batch[i] < Rest[j]
    BY DEF Before
  <2>1. i \in 1 .. Len(pending) /\ BatchSize + j \in 1 .. Len(pending) /\ i < BatchSize + j
    BY Cut, <1>1
  <2>2. pending[i] < pending[BatchSize + j]
    BY <2>1 DEF Increasing
  <2> QED BY <2>2, Cut
<1> QED BY <1>2, <1>3, <1>4

-----------------------------------------------------------------------------
(* The sequences a point goes through, one before the other.               *)
SeqType ==
  /\ buffer \in [Shims -> Seq(Nat)] /\ stored \in [Shims -> Seq(Nat)]
  /\ pending \in Seq(Nat)
  /\ logged \in [Shims -> Nat]
  /\ by \in Shims

Lined(s) ==
  /\ Increasing(stored[s]) /\ Increasing(buffer[s])
  /\ Before(stored[s], buffer[s])
  /\ UpTo(stored[s], logged[s]) /\ UpTo(buffer[s], logged[s])
  /\ by = s => /\ Increasing(pending) /\ UpTo(pending, logged[s])
               /\ Before(stored[s], pending) /\ Before(pending, buffer[s])

Idle == pc = "train" => pending = <<>>

Inv == SeqType /\ Idle /\ \A s \in Shims : Lined(s)

LEMMA EmptyFacts ==
  ASSUME NEW q, NEW n
  PROVE  /\ Increasing(<<>>) /\ UpTo(<<>>, n)
         /\ Before(<<>>, q) /\ Before(q, <<>>)
BY DEF Increasing, UpTo, Before

LEMMA InitInv == Init => Inv
<1> SUFFICES ASSUME Init PROVE Inv
  OBVIOUS
<1>1. SeqType /\ Idle
  BY DEF Init, SeqType, Idle, Shims
<1>2. ASSUME NEW s \in Shims PROVE Lined(s)
  BY EmptyFacts DEF Init, Lined
<1> QED BY <1>1, <1>2 DEF Inv

(* A flush takes the whole buffer, and then the calls' new points.         *)
LEMMA FlushLines ==
  ASSUME Inv, pc = "train", NEW s \in Shims, NEW points \in Seq(Nat), NEW finish,
         Flush(s, points, finish), UNCHANGED stored,
         logged' \in [Shims -> Nat], \A t \in Shims : logged'[t] >= logged[t],
         Increasing(points), Before(stored[s], points), UpTo(points, logged'[s])
  PROVE  Inv'
<1>1. buffer' = [buffer EXCEPT ![s] = <<>>]
  BY DEF Flush
<1>2. pending = <<>>
  BY DEF Inv, Idle
<1>3. \/ pc' = "flush" /\ by' = s /\ pending' = points
      \/ pc' = pc /\ by' = by /\ pending' = pending
  BY DEF Flush, flushVars
<1>4. SeqType'
  BY <1>1, <1>3 DEF Inv, SeqType
<1>5. Idle'
  BY <1>2, <1>3 DEF Idle
<1>6. ASSUME NEW t \in Shims PROVE Lined(t)'
  <2>1. UpTo(stored[t], logged'[t]) /\ UpTo(buffer[t], logged'[t])
    <3>1. /\ stored[t] \in Seq(Nat) /\ buffer[t] \in Seq(Nat)
          /\ logged[t] \in Nat /\ logged'[t] \in Nat /\ logged[t] <= logged'[t]
      BY DEF Inv, SeqType
    <3> QED BY <3>1, UpToMore DEF Inv, Lined
  <2>2. CASE t = s
    BY <1>1, <1>2, <1>3, <2>1, <2>2, EmptyFacts DEF Inv, SeqType, Lined
  <2>3. CASE t # s
    BY <1>1, <1>2, <1>3, <2>1, <2>3, EmptyFacts DEF Inv, SeqType, Lined
  <2> QED BY <2>2, <2>3
<1> QED BY <1>4, <1>5, <1>6 DEF Inv

LEMMA LogInv == ASSUME Inv, NEW s \in Shims, NEW n \in 1 .. MaxDict, Log(s, n) PROVE Inv'
<1> DEFINE new    == [i \in 1 .. n |-> logged[s] + i]
           points == buffer[s] \o new
<1>0. n \in Nat /\ logged[s] \in Nat /\ buffer[s] \in Seq(Nat) /\ stored[s] \in Seq(Nat)
  BY BufferAssumption DEF Inv, SeqType
<1>1. new \in Seq(Nat) /\ Len(new) = n
  BY <1>0
<1>2. /\ logged' \in [Shims -> Nat] /\ logged'[s] = logged[s] + n
      /\ \A t \in Shims : logged'[t] >= logged[t]
  BY <1>0 DEF Log, Inv, SeqType
<1>3. Increasing(new) /\ UpTo(new, logged'[s])
  BY <1>0, <1>1, <1>2 DEF Increasing, UpTo
<1>4. Before(buffer[s], new) /\ Before(stored[s], new)
  <2>1. \A j \in 1 .. Len(new) : new[j] \in Nat /\ new[j] > logged[s]
    BY <1>0, <1>1
  <2>2. UpTo(buffer[s], logged[s]) /\ UpTo(stored[s], logged[s])
    BY DEF Inv, Lined
  <2>3. ASSUME NEW q \in Seq(Nat), UpTo(q, logged[s]) PROVE Before(q, new)
    <3> SUFFICES ASSUME NEW i \in 1 .. Len(q), NEW j \in 1 .. Len(new) PROVE q[i] < new[j]
      BY DEF Before
    <3>1. q[i] \in Nat /\ q[i] <= logged[s]
      BY <2>3 DEF UpTo
    <3> HIDE DEF new
    <3> QED BY <1>0, <2>1, <3>1
  <2> QED BY <1>0, <2>2, <2>3
<1>5. UpTo(buffer[s], logged'[s])
  BY <1>0, <1>2, UpToMore DEF Inv, Lined
<1>6. points \in Seq(Nat) /\ Increasing(points)
  <2>1. points \in Seq(Nat)
    BY <1>0, <1>1
  <2>2. Increasing(buffer[s])
    BY DEF Inv, Lined
  <2> HIDE DEF new
  <2> QED BY <1>0, <1>1, <1>3, <1>4, <2>1, <2>2, JoinIncreasing
<1>7. Before(stored[s], points) /\ UpTo(points, logged'[s])
  BY <1>0, <1>1, <1>2, <1>3, <1>4, <1>5, BeforeJoin, JoinUpTo DEF Inv, Lined
<1>8. pc = "train" /\ stored' = stored /\ pending = <<>>
  BY DEF Log, Inv, Idle
<1>9. CASE Flush(s, points, FALSE)
  BY <1>2, <1>6, <1>7, <1>8, <1>9, FlushLines
<1>10. CASE buffer' = [buffer EXCEPT ![s] = points] /\ UNCHANGED <<pc, flushVars>>
  <2>1. SeqType' /\ Idle'
    BY <1>2, <1>6, <1>8, <1>10 DEF Inv, SeqType, Idle, flushVars
  <2>2. ASSUME NEW t \in Shims PROVE Lined(t)'
    <3>1. UpTo(stored[t], logged'[t]) /\ UpTo(buffer[t], logged'[t])
      <4>1. /\ stored[t] \in Seq(Nat) /\ buffer[t] \in Seq(Nat)
            /\ logged[t] \in Nat /\ logged'[t] \in Nat /\ logged[t] <= logged'[t]
        BY <1>2 DEF Inv, SeqType
      <4> QED BY <4>1, UpToMore DEF Inv, Lined
    <3>2. pending' = <<>>
      BY <1>8, <1>10 DEF flushVars
    <3>3. CASE t = s
      BY <1>6, <1>7, <1>8, <1>10, <3>1, <3>2, <3>3, EmptyFacts DEF Inv, SeqType, Lined
    <3>4. CASE t # s
      BY <1>8, <1>10, <3>1, <3>2, <3>4, EmptyFacts DEF Inv, SeqType, Lined
    <3> QED BY <3>3, <3>4
  <2> QED BY <2>1, <2>2 DEF Inv
<1> QED BY <1>9, <1>10 DEF Log

(* A batch goes to MLflow after everything that is there.                  *)
LEMMA SendLines ==
  ASSUME Inv, Send \/ UNCHANGED stored, pending' \in {Rest, <<>>},
         UNCHANGED <<buffer, logged, by>>, pc' = "train" => pending' = <<>>
  PROVE  Inv'
<1>1. /\ pending \in Seq(Nat) /\ stored[by] \in Seq(Nat) /\ buffer[by] \in Seq(Nat)
      /\ by \in Shims /\ logged[by] \in Nat
  BY DEF Inv, SeqType
<1>2. /\ Increasing(pending) /\ UpTo(pending, logged[by])
      /\ Before(stored[by], pending) /\ Before(pending, buffer[by])
      /\ Increasing(stored[by]) /\ UpTo(stored[by], logged[by])
      /\ Before(stored[by], buffer[by])
  BY <1>1 DEF Inv, Lined
<1>3. /\ Batch \in Seq(Nat) /\ Rest \in Seq(Nat)
      /\ Increasing(Batch) /\ Increasing(Rest) /\ Before(Batch, Rest)
  BY <1>1, <1>2, Cut, CutOrder
<1>4. /\ Before(stored[by], Batch) /\ Before(stored[by], Rest)
      /\ Before(Batch, buffer[by]) /\ Before(Rest, buffer[by])
      /\ UpTo(Batch, logged[by]) /\ UpTo(Rest, logged[by])
  <2>1. \A i \in 1 .. Len(Batch) : i \in 1 .. Len(pending) /\ Batch[i] = pending[i]
    BY <1>1, Cut
  <2>2. \A i \in 1 .. Len(Rest) : \E k \in 1 .. Len(pending) : Rest[i] = pending[k]
    BY <1>1, Cut
  <2>3. Before(stored[by], Batch) /\ Before(Batch, buffer[by]) /\ UpTo(Batch, logged[by])
    BY <1>2, <2>1 DEF Before, UpTo
  <2>4. Before(stored[by], Rest) /\ Before(Rest, buffer[by]) /\ UpTo(Rest, logged[by])
    BY <1>2, <2>2 DEF Before, UpTo
  <2> QED BY <2>3, <2>4
<1>5. /\ stored' \in [Shims -> Seq(Nat)]
      /\ \A t \in Shims \ {by} : stored'[t] = stored[t]
      /\ stored'[by] \in {stored[by], stored[by] \o Batch}
  <2>1. CASE UNCHANGED stored
    BY <1>1, <2>1 DEF Inv, SeqType
  <2>2. CASE Send
    <3>1. stored' = [stored EXCEPT ![by] = stored[by] \o Batch]
      BY <2>2 DEF Send
    <3>2. stored[by] \o Batch \in Seq(Nat)
      BY <1>1, <1>3
    <3> QED BY <1>1, <3>1, <3>2 DEF Inv, SeqType
  <2> QED BY <2>1, <2>2
<1>6. /\ Increasing(stored'[by]) /\ Before(stored'[by], buffer[by])
      /\ UpTo(stored'[by], logged[by]) /\ Before(stored'[by], Rest)
  <2>1. /\ Increasing(stored[by] \o Batch) /\ UpTo(stored[by] \o Batch, logged[by])
        /\ Before(stored[by] \o Batch, buffer[by]) /\ Before(stored[by] \o Batch, Rest)
    BY <1>1, <1>2, <1>3, <1>4, JoinIncreasing, JoinBefore, JoinUpTo
  <2> QED BY <1>2, <1>4, <1>5, <2>1
<1>7. SeqType' /\ Idle'
  <2>1. pending' \in Seq(Nat)
    <3>1. <<>> \in Seq(Nat)
      OBVIOUS
    <3>2. CASE pending' = Rest
      BY <1>3, <3>2
    <3>3. CASE pending' = <<>>
      BY <3>1, <3>3
    <3> QED BY <3>2, <3>3
  <2>2. SeqType'
    BY <1>5, <2>1 DEF Inv, SeqType
  <2> QED BY <2>2 DEF Idle
<1>8. ASSUME NEW t \in Shims PROVE Lined(t)'
  <2>1. CASE t # by
    BY <1>5, <2>1 DEF Inv, Lined
  <2>2. CASE t = by
    <3>1. /\ Increasing(pending') /\ UpTo(pending', logged[by])
          /\ Before(stored'[by], pending') /\ Before(pending', buffer[by])
      BY <1>3, <1>4, <1>6, EmptyFacts
    <3> QED BY <1>6, <2>2, <3>1 DEF Inv, Lined
  <2> QED BY <2>1, <2>2
<1> QED BY <1>7, <1>8 DEF Inv

LEMMA NextInv == ASSUME Inv, [Next]_vars PROVE Inv'
<1>1. ASSUME NEW s \in Shims, NEW n \in 1 .. MaxDict, Log(s, n) PROVE Inv'
  BY <1>1, LogInv
<1>2. CASE Finish \/ Close
  <2>1. PICK s \in Shims : \E finish \in BOOLEAN : Flush(s, buffer[s], finish)
    BY <1>2 DEF Finish, Close, Shims
  <2>2. pc = "train" /\ stored' = stored /\ logged' = logged
    BY <1>2 DEF Finish, Close
  <2>3. /\ buffer[s] \in Seq(Nat) /\ logged' \in [Shims -> Nat]
        /\ \A t \in Shims : logged'[t] >= logged[t]
        /\ Increasing(buffer[s]) /\ Before(stored[s], buffer[s]) /\ UpTo(buffer[s], logged'[s])
    BY <2>2 DEF Inv, SeqType, Lined
  <2> QED BY <2>1, <2>2, <2>3, FlushLines
<1>3. CASE Sent
  BY <1>3, SendLines DEF Sent, Return
<1>4. CASE Refused \/ RingsInTry
  BY <1>4, SendLines DEF Refused, RingsInTry, GiveUp, Return
<1>5. CASE RingsBesideTry
  BY <1>5, SendLines DEF RingsBesideTry
<1>6. ASSUME UNCHANGED <<buffer, stored, pending, by, logged>>, pc' = "train" => pc = "train"
      PROVE  Inv'
  BY <1>6 DEF Inv, SeqType, Idle, Lined
<1>7. WandbInit \/ TrainingEnds \/ LauncherEnds \/ Rings \/ (\E s \in Shims : TimePasses(s))
        \/ UNCHANGED vars
      => UNCHANGED <<buffer, stored, pending, by, logged>> /\ (pc' = "train" => pc = "train")
  BY DEF WandbInit, TrainingEnds, LauncherEnds, Rings, TimePasses, vars, flushVars
<1> QED BY <1>1, <1>2, <1>3, <1>4, <1>5, <1>6, <1>7 DEF Next, Method, Launcher

(* No point gets to MLflow twice or after a later one, whatever fails.     *)
THEOREM SentOnceInOrder == Spec => []OnceInOrder
<1>1. Inv => OnceInOrder
  BY DEF Inv, Lined, Increasing, OnceInOrder
<1>2. Inv /\ [Next]_vars => Inv'
  BY NextInv
<1> QED BY <1>1, <1>2, InitInv, PTL DEF Spec

(* The buffer stays below FLUSH_EVERY_N between two calls, run or no run.  *)
THEOREM StaysBelowThreshold == Spec => []BelowThreshold
<1>1. Init => BelowThreshold /\ buffer \in [Shims -> Seq(Nat)]
  BY BufferAssumption DEF Init, BelowThreshold
<1>2. ASSUME BelowThreshold, buffer \in [Shims -> Seq(Nat)], Inv, [Next]_vars
      PROVE  BelowThreshold'
  <2>1. ASSUME NEW s \in Shims, buffer' = [buffer EXCEPT ![s] = <<>>] PROVE BelowThreshold'
    BY <1>2, <2>1, BufferAssumption DEF BelowThreshold
  <2>2. ASSUME NEW s \in Shims, NEW n \in 1 .. MaxDict, Log(s, n) PROVE BelowThreshold'
    <3> DEFINE points == buffer[s] \o [i \in 1 .. n |-> logged[s] + i]
    <3>1. CASE Len(points) >= FlushEveryN \/ stale[s]
      BY <2>1, <2>2, <3>1 DEF Log, Flush
    <3>2. CASE ~(Len(points) >= FlushEveryN \/ stale[s])
      <4>1. buffer' = [buffer EXCEPT ![s] = points]
        BY <2>2, <3>2 DEF Log
      <4>2. Len(points) \in Nat /\ Len(points) < FlushEveryN
        <5>1. n \in Nat /\ logged[s] \in Nat /\ buffer[s] \in Seq(Nat)
          BY <1>2, BufferAssumption DEF Inv, SeqType
        <5>2. points \in Seq(Nat)
          BY <5>1
        <5> HIDE DEF points
        <5> QED BY <3>2, <5>2, BufferAssumption
      <4> HIDE DEF points
      <4> QED BY <1>2, <4>1, <4>2 DEF BelowThreshold
    <3> QED BY <3>1, <3>2
  <2>3. CASE Finish \/ Close
    BY <2>1, <2>3 DEF Finish, Close, Flush, Shims
  <2>4. CASE UNCHANGED buffer
    BY <1>2, <2>4 DEF BelowThreshold
  <2> QED BY <1>2, <2>2, <2>3, <2>4 DEF Next, Method, Launcher, WandbInit, TrainingEnds,
         TimePasses, Sent, Refused, LauncherEnds, Rings, RingsBesideTry, RingsInTry, vars
<1>3. Inv => buffer \in [Shims -> Seq(Nat)]
  BY DEF Inv, SeqType
<1>4. Inv /\ [Next]_vars => Inv'
  BY NextInv
<1> QED BY <1>1, <1>2, <1>3, <1>4, InitInv, PTL DEF Spec

-----------------------------------------------------------------------------
(* A flush that finishes the run has left nothing behind.                  *)
TailInv ==
  /\ ~active => buffer["wandb"] = <<>>
  /\ pc = "flush" /\ finishing => buffer["wandb"] = <<>>

(* Once wandb is finished, nothing waits in its buffer.                    *)
THEOREM TailStaysFlushed == Spec => []TailIsFlushed
<1>1. Init => TailInv
  BY DEF Init, TailInv, Shims
<1>2. ASSUME Inv, TailInv, [Next]_vars PROVE TailInv'
  <2>1. buffer \in [Shims -> Seq(Nat)] /\ "wandb" \in Shims /\ "tensorboard" \in Shims
    BY <1>2 DEF Inv, SeqType, Shims
  <2>2. ASSUME NEW s \in Shims, NEW n \in 1 .. MaxDict, Log(s, n) PROVE TailInv'
    BY <1>2, <2>1, <2>2 DEF TailInv, Log, Flush, flushVars
  <2>3. CASE Finish
    BY <1>2, <2>1, <2>3 DEF TailInv, Finish, Flush, flushVars
  <2>4. CASE Close
    BY <1>2, <2>1, <2>4 DEF TailInv, Close, Flush, flushVars
  <2>5. CASE Sent \/ Refused \/ RingsInTry
    BY <1>2, <2>5 DEF TailInv, Sent, Refused, RingsInTry, GiveUp, Return
  <2>6. CASE UNCHANGED buffer /\ (active' = active \/ active') /\ pc' # "flush"
    BY <1>2, <2>6 DEF TailInv
  <2>7. CASE UNCHANGED vars
    BY <1>2, <2>7 DEF TailInv, vars, flushVars
  <2> QED BY <1>2, <2>2, <2>3, <2>4, <2>5, <2>6, <2>7 DEF Next, Method, Launcher, WandbInit,
         TrainingEnds, TimePasses, LauncherEnds, Rings, RingsBesideTry
<1>3. TailInv => TailIsFlushed
  BY DEF TailInv, TailIsFlushed
<1>4. Inv /\ [Next]_vars => Inv'
  BY NextInv
<1> QED BY <1>1, <1>2, <1>3, <1>4, InitInv, PTL DEF Spec

(* Between two calls a buffer is short, and wandb's is empty when it is    *)
(* finished, with or without a run, whatever fails.                        *)
THEOREM BufferStaysSmall == Spec => []BufferBounded
<1>1. BelowThreshold /\ TailIsFlushed => BufferBounded
  BY DEF BufferBounded
<1> QED BY <1>1, StaysBelowThreshold, TailStaysFlushed, PTL

-----------------------------------------------------------------------------
(* Every variable keeps its type.                                          *)
THEOREM TypeCorrect == Spec => []TypeOK
<1>1. ASSUME Init PROVE TypeOK
  <2>1. /\ buffer \in [Shims -> Seq(Nat)] /\ stored \in [Shims -> Seq(Nat)]
        /\ pending \in Seq(Nat) /\ by \in Shims
    BY <1>1, InitInv DEF Inv, SeqType
  <2>2. 0 \in 0 .. MaxPoints
    BY BufferAssumption
  <2>3. logged \in [Shims -> 0 .. MaxPoints] /\ stale \in [Shims -> BOOLEAN]
    BY <1>1, <2>2 DEF Init
  <2> QED BY <1>1, <2>1, <2>3 DEF Init, TypeOK
<1>2. ASSUME Inv, Inv', TypeOK, [Next]_vars PROVE TypeOK'
  <2>1. /\ buffer' \in [Shims -> Seq(Nat)] /\ stored' \in [Shims -> Seq(Nat)]
        /\ pending' \in Seq(Nat) /\ by' \in Shims
    BY <1>2 DEF Inv, SeqType
  <2>2. CASE WandbInit
    BY <1>2, <2>1, <2>2 DEF WandbInit, TypeOK, flushVars, Shims
  <2>3. ASSUME NEW s \in Shims, NEW n \in 1 .. MaxDict, Log(s, n) PROVE TypeOK'
    <3>1. logged' \in [Shims -> 0 .. MaxPoints]
      <4>1. logged[s] \in Nat /\ n \in Nat /\ logged[s] + n <= MaxPoints
        BY <1>2, <2>3, BufferAssumption DEF TypeOK, Log
      <4>2. logged[s] + n \in 0 .. MaxPoints
        BY <4>1, BufferAssumption
      <4> QED BY <1>2, <2>3, <4>2 DEF TypeOK, Log
    <3>2. /\ pc' \in {"train", "flush"} /\ active' \in BOOLEAN /\ finishing' \in BOOLEAN
          /\ stale' \in [Shims -> BOOLEAN]
      BY <1>2, <2>3 DEF TypeOK, Log, Flush, flushVars
    <3> QED BY <1>2, <2>1, <2>3, <3>1, <3>2 DEF TypeOK, Log
  <2>4. CASE Finish
    BY <1>2, <2>1, <2>4 DEF Finish, Flush, TypeOK, flushVars, Shims
  <2>5. CASE Close
    BY <1>2, <2>1, <2>5 DEF Close, Flush, TypeOK, flushVars, Shims
  <2>6. CASE Sent
    BY <1>2, <2>1, <2>6 DEF Sent, Return, TypeOK
  <2>7. CASE Refused \/ RingsInTry
    BY <1>2, <2>1, <2>7 DEF Refused, RingsInTry, Return, TypeOK
  <2>8. ASSUME NEW s \in Shims, TimePasses(s) PROVE TypeOK'
    BY <1>2, <2>1, <2>8 DEF TimePasses, TypeOK, flushVars
  <2>9. CASE Rings \/ RingsBesideTry \/ TrainingEnds \/ LauncherEnds
    BY <1>2, <2>1, <2>9 DEF Rings, RingsBesideTry, TrainingEnds, LauncherEnds, TypeOK, flushVars
  <2>10. CASE UNCHANGED vars
    BY <1>2, <2>1, <2>10 DEF TypeOK, vars, flushVars
  <2> QED BY <1>2, <2>2, <2>3, <2>4, <2>5, <2>6, <2>7, <2>8, <2>9, <2>10 DEF Next, Method, Launcher
<1>3. Inv /\ [Next]_vars => Inv'
  BY NextInv
<1> QED BY <1>1, <1>2, <1>3, InitInv, PTL DEF Spec

-----------------------------------------------------------------------------
(* While nothing fails, what a shim has in hand only moves along.           *)
Whole(n) == [i \in 1 .. n |-> i]
Moving(s) == IF by = s THEN pending ELSE <<>>
Fine == ~failed /\ alarm # "rung" /\ seesRun

LEMMA Regroup ==
  ASSUME NEW a \in Seq(Nat), NEW b \in Seq(Nat), NEW c \in Seq(Nat)
  PROVE  (a \o b) \o c = a \o (b \o c)
BY ConcatAssociative

LEMMA Grows ==
  ASSUME NEW m \in Nat, NEW n \in Nat
  PROVE  Whole(m) \o [i \in 1 .. n |-> m + i] = Whole(m + n)
<1>1. SubSeq(Whole(m + n), 1, m) \o SubSeq(Whole(m + n), m + 1, m + n) = SubSeq(Whole(m + n), 1, m + n)
  <2>1. Whole(m + n) \in Seq(Nat) /\ Len(Whole(m + n)) = m + n
    BY DEF Whole
  <2>2. 1 \in 1 .. m + n + 1 /\ m \in 1 - 1 .. m + n /\ m + n \in m .. m + n
    OBVIOUS
  <2> QED BY <2>1, <2>2, ConcatAdjacentSubSeq
<1>2. SubSeq(Whole(m + n), 1, m) = Whole(m)
  BY DEF Whole
<1>3. SubSeq(Whole(m + n), m + 1, m + n) = [i \in 1 .. n |-> m + i]
  BY DEF Whole
<1>4. SubSeq(Whole(m + n), 1, m + n) = Whole(m + n)
  BY DEF Whole
<1> QED BY <1>1, <1>2, <1>3, <1>4

LEMMA BatchThenRest ==
  ASSUME pending \in Seq(Nat)
  PROVE  Batch \o Rest = pending
<1>1. Len(pending) \in Nat /\ BatchSize \in Nat
  BY BufferAssumption
<1>2. Batch = SubSeq(pending, 1, BatchEnd)
  BY DEF Batch, BatchEnd
<1>3. Rest = SubSeq(pending, BatchEnd + 1, Len(pending))
  <2>1. CASE Len(pending) < BatchSize
    <3>1. Rest = <<>> /\ SubSeq(pending, Len(pending) + 1, Len(pending)) = <<>>
      BY <1>1, <2>1 DEF Rest
    <3> QED BY <2>1, <3>1 DEF BatchEnd
  <2>2. CASE ~(Len(pending) < BatchSize)
    BY <2>2 DEF Rest, BatchEnd
  <2> QED BY <2>1, <2>2
<1>4. 1 \in 1 .. Len(pending) + 1 /\ BatchEnd \in 1 - 1 .. Len(pending)
      /\ Len(pending) \in BatchEnd .. Len(pending)
  BY <1>1 DEF BatchEnd
<1>5. SubSeq(pending, 1, BatchEnd) \o SubSeq(pending, BatchEnd + 1, Len(pending))
        = SubSeq(pending, 1, Len(pending))
  BY <1>4, ConcatAdjacentSubSeq
<1>6. SubSeq(pending, 1, Len(pending)) = pending
  OBVIOUS
<1> QED BY <1>2, <1>3, <1>5, <1>6

Lossless == Fine => \A s \in Shims : stored[s] \o Moving(s) \o buffer[s] = Whole(logged[s])

(* A flush of everything in the buffer, and of new points behind it.        *)
LEMMA FlushLossless ==
  ASSUME Inv, Lossless, pc = "train", NEW s \in Shims, NEW points \in Seq(Nat), NEW finish,
         Flush(s, points, finish), UNCHANGED <<stored, seesRun, alarm, failed>>,
         logged' \in [Shims -> Nat], \A t \in Shims \ {s} : logged'[t] = logged[t],
         Fine => stored[s] \o points = Whole(logged'[s])
  PROVE  Lossless'
<1> SUFFICES ASSUME Fine, NEW t \in Shims
             PROVE  stored'[t] \o Moving(t)' \o buffer'[t] = Whole(logged'[t])
  BY DEF Lossless, Fine
<1>1. /\ buffer \in [Shims -> Seq(Nat)] /\ stored[t] \in Seq(Nat) /\ buffer[t] \in Seq(Nat)
      /\ pending = <<>> /\ buffer' = [buffer EXCEPT ![s] = <<>>]
  BY DEF Inv, SeqType, Idle, Flush
<1>2. \/ pending' = points /\ by' = s
      \/ pending' = <<>> /\ points = <<>>
  BY <1>1 DEF Flush, flushVars, Fine
<1>3. CASE t = s
  <2>1. buffer'[t] = <<>> /\ Moving(t)' = points
    BY <1>1, <1>2, <1>3 DEF Moving
  <2>2. stored[t] \o points \in Seq(Nat)
    BY <1>1
  <2> QED BY <1>1, <1>3, <2>1, <2>2, ConcatEmptySeq
<1>4. CASE t # s
  <2>1. buffer'[t] = buffer[t] /\ Moving(t)' = <<>> /\ Moving(t) = <<>> /\ logged'[t] = logged[t]
    BY <1>1, <1>2, <1>4 DEF Moving
  <2>2. stored[t] \o Moving(t) \o buffer[t] = Whole(logged[t])
    BY DEF Lossless
  <2> QED BY <2>1, <2>2
<1> QED BY <1>3, <1>4

LEMMA LosslessNext == ASSUME Inv, Lossless, [Next]_vars PROVE Lossless'
<1>t. /\ buffer \in [Shims -> Seq(Nat)] /\ stored \in [Shims -> Seq(Nat)]
      /\ pending \in Seq(Nat) /\ logged \in [Shims -> Nat] /\ by \in Shims
      /\ pc = "train" => pending = <<>>
  BY DEF Inv, SeqType, Idle
<1>h. ASSUME NEW s \in Shims, pc = "train", Fine PROVE stored[s] \o buffer[s] = Whole(logged[s])
  <2>1. Moving(s) = <<>> /\ stored[s] \in Seq(Nat)
    BY <1>h, <1>t DEF Moving
  <2>2. stored[s] \o Moving(s) \o buffer[s] = Whole(logged[s])
    BY <1>h DEF Lossless
  <2> QED BY <2>1, <2>2, ConcatEmptySeq
<1>1. ASSUME NEW s \in Shims, NEW n \in 1 .. MaxDict, Log(s, n) PROVE Lossless'
  <2> DEFINE new    == [i \in 1 .. n |-> logged[s] + i]
             points == buffer[s] \o new
  <2>0. n \in Nat /\ logged[s] \in Nat /\ buffer[s] \in Seq(Nat) /\ stored[s] \in Seq(Nat)
    BY <1>t, BufferAssumption
  <2>1. new \in Seq(Nat)
    BY <2>0
  <2>2. points \in Seq(Nat)
    <3> HIDE DEF new
    <3> QED BY <2>0, <2>1
  <2>3. /\ pc = "train" /\ UNCHANGED <<stored, seesRun, alarm, failed>>
        /\ logged' = [logged EXCEPT ![s] = @ + n]
    BY <1>1 DEF Log
  <2>4. /\ logged' \in [Shims -> Nat] /\ logged'[s] = logged[s] + n
        /\ \A t \in Shims \ {s} : logged'[t] = logged[t]
    BY <1>t, <2>0, <2>3
  <2>5. ASSUME Fine PROVE stored[s] \o points = Whole(logged'[s])
    <3>1. stored[s] \o buffer[s] = Whole(logged[s])
      BY <1>h, <2>3, <2>5
    <3>2. Whole(logged[s]) \o new = Whole(logged[s] + n)
      BY <2>0, Grows
    <3>3. (stored[s] \o buffer[s]) \o new = stored[s] \o (buffer[s] \o new)
      <4> HIDE DEF new
      <4> QED BY <2>0, <2>1, Regroup
    <3> HIDE DEF new
    <3> QED BY <2>4, <3>1, <3>2, <3>3
  <2>6. CASE Flush(s, points, FALSE)
    <3> HIDE DEF points
    <3> QED BY <2>2, <2>3, <2>4, <2>5, <2>6, FlushLossless
  <2>7. CASE buffer' = [buffer EXCEPT ![s] = points] /\ UNCHANGED <<pc, flushVars>>
    <3> HIDE DEF points
    <3>1. pending' = <<>> /\ by' = by
      BY <1>t, <2>3, <2>7 DEF flushVars
    <3>2. ASSUME Fine, NEW t \in Shims
          PROVE  stored'[t] \o Moving(t)' \o buffer'[t] = Whole(logged'[t])
      <4>1. Moving(t)' = <<>> /\ stored'[t] = stored[t] /\ stored[t] \in Seq(Nat)
            /\ stored[t] \o <<>> = stored[t]
        BY <1>t, <2>3, <3>1, ConcatEmptySeq DEF Moving
      <4>2. CASE t = s
        BY <1>t, <2>5, <2>7, <3>2, <4>1, <4>2
      <4>3. CASE t # s
        <5>1. buffer'[t] = buffer[t] /\ logged'[t] = logged[t]
          BY <1>t, <2>4, <2>7, <4>3
        <5>2. stored[t] \o buffer[t] = Whole(logged[t])
          BY <1>h, <2>3, <3>2
        <5> QED BY <4>1, <5>1, <5>2
      <4> QED BY <4>2, <4>3
    <3> QED BY <2>3, <3>2 DEF Lossless, Fine
  <2> QED BY <1>1, <2>6, <2>7 DEF Log
<1>2. CASE Finish \/ Close
  <2>1. PICK s \in Shims : \E finish \in BOOLEAN : Flush(s, buffer[s], finish)
    BY <1>2 DEF Finish, Close, Shims
  <2>2. pc = "train" /\ UNCHANGED <<stored, seesRun, alarm, logged, failed>>
    BY <1>2 DEF Finish, Close
  <2>3. Fine => stored[s] \o buffer[s] = Whole(logged'[s])
    BY <1>h, <2>2
  <2>4. buffer[s] \in Seq(Nat) /\ logged' \in [Shims -> Nat]
    BY <1>t, <2>2
  <2> QED BY <2>1, <2>2, <2>3, <2>4, FlushLossless
<1>3. CASE Sent
  <2>1. /\ stored' = [stored EXCEPT ![by] = @ \o Batch] /\ pending' = Rest
        /\ UNCHANGED <<buffer, seesRun, alarm, logged, failed, by>>
    BY <1>3 DEF Sent, Send, Return
  <2> SUFFICES ASSUME Fine, NEW s \in Shims
               PROVE  stored'[s] \o Moving(s)' \o buffer'[s] = Whole(logged'[s])
    BY <2>1 DEF Lossless, Fine
  <2>2. stored[s] \o Moving(s) \o buffer[s] = Whole(logged[s])
    BY DEF Lossless
  <2>3. CASE s = by
    <3>1. stored'[s] = stored[s] \o Batch /\ Moving(s)' = Rest /\ Moving(s) = pending
      BY <1>t, <2>1, <2>3 DEF Moving
    <3>2. Batch \in Seq(Nat) /\ Rest \in Seq(Nat) /\ stored[s] \in Seq(Nat)
      BY <1>t, Cut
    <3>3. (stored[s] \o Batch) \o Rest = stored[s] \o (Batch \o Rest) /\ Batch \o Rest = pending
      BY <1>t, <3>2, Regroup, BatchThenRest
    <3> QED BY <2>1, <2>2, <3>1, <3>3
  <2>4. CASE s # by
    BY <1>t, <2>1, <2>2, <2>4 DEF Moving
  <2> QED BY <2>3, <2>4
<1>4. CASE Refused \/ RingsInTry \/ RingsBesideTry \/ Rings
  BY <1>4 DEF Refused, RingsInTry, RingsBesideTry, Rings, Lossless, Fine
<1>5. ASSUME UNCHANGED <<buffer, stored, pending, by, logged, seesRun, failed>>, alarm' = "rung" \/ alarm # "rung"
      PROVE  Lossless'
  BY <1>5 DEF Lossless, Fine, Moving
<1>6. WandbInit \/ TrainingEnds \/ LauncherEnds \/ (\E s \in Shims : TimePasses(s))
        \/ UNCHANGED vars
      => /\ UNCHANGED <<buffer, stored, pending, by, logged, seesRun, failed>>
         /\ alarm' = "rung" \/ alarm # "rung"
  BY DEF WandbInit, TrainingEnds, LauncherEnds, TimePasses, vars, flushVars
<1> QED BY <1>1, <1>2, <1>3, <1>4, <1>5, <1>6 DEF Next, Method, Launcher

(* As long as no batch fails and the alarm keeps quiet, every point logged  *)
(* is in MLflow, on its way or in the buffer, once and in its place, for     *)
(* every threshold and batch size.                                         *)
THEOREM NothingIsLost == Spec => []NothingLost
<1>1. Init => Lossless
  <2> SUFFICES ASSUME Init, NEW s \in Shims
               PROVE  stored[s] \o Moving(s) \o buffer[s] = Whole(logged[s])
    BY DEF Lossless
  <2>1. stored[s] = <<>> /\ Moving(s) = <<>> /\ buffer[s] = <<>> /\ logged[s] = 0
    BY DEF Init, Moving
  <2>2. Whole(0) = <<>>
    BY DEF Whole
  <2> QED BY <2>1, <2>2
<1>2. Inv /\ Lossless /\ [Next]_vars => (Inv /\ Lossless)'
  BY NextInv, LosslessNext
<1>3. Lossless => NothingLost
  BY DEF Lossless, NothingLost, Fine, InHand, Moving, Whole
<1> QED BY <1>1, <1>2, <1>3, InitInv, PTL DEF Spec
=============================================================================
