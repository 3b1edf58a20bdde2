---------------------------- MODULE MetricBuffer ----------------------------
(***************************************************************************)
(* One launcher in its training: the method's code logs metrics through    *)
(* the wandb and tensorboard shims, which buffer them and send them to     *)
(* MLflow in batches; MLflow may refuse a batch, with or without having    *)
(* stored it; and the SIGALRM of alarm_timeout may come at any point.      *)
(*                                                                         *)
(* The points logged through a shim are numbered in their order.           *)
(***************************************************************************)
EXTENDS Naturals, Sequences

CONSTANTS
  FlushEveryN,  (* FLUSH_EVERY_N                                            *)
  BatchSize,    (* most metrics in one log_batch                            *)
  MaxDict,      (* bound on the points of one call                          *)
  MaxPoints     (* bound on the points of one shim                          *)

ASSUME BufferAssumption ==
  /\ FlushEveryN \in Nat \ {0} /\ BatchSize \in Nat \ {0}
  /\ MaxDict \in Nat \ {0} /\ MaxPoints \in Nat

Shims == {"wandb", "tensorboard"}

VARIABLES
  pc,        (* in the method's code, in a _flush it called, out of it, done*)
  active,    (* wandb_stub._run_active                                      *)
  buffer,    (* _buffer of each shim                                        *)
  stale,     (* its last flush is more than FLUSH_EVERY_SEC ago             *)
  by,        (* the shim that is flushing                                   *)
  pending,   (* what it has yet to send                                     *)
  finishing, (* the flush is one of wandb's finish                          *)
  seesRun,   (* there is an active MLflow run for the shims to find         *)
  alarm,     (* "set", "rung", or "off" when the launcher is out of it      *)
  stored,    (* the points of each shim in MLflow, in the order they came   *)
  logged,    (* how many points were logged through each shim               *)
  failed     (* some batch failed                                           *)

flushVars == <<by, pending, finishing>>
vars == <<pc, active, buffer, stale, flushVars, seesRun, alarm, stored, logged, failed>>

Init ==
  /\ pc = "train"
  /\ active = FALSE
  /\ buffer = [s \in Shims |-> <<>>]
  /\ stale = [s \in Shims |-> TRUE]
  /\ by = "wandb" /\ pending = <<>> /\ finishing = FALSE
  /\ seesRun \in BOOLEAN
  /\ alarm = "set"
  /\ stored = [s \in Shims |-> <<>>]
  /\ logged = [s \in Shims |-> 0]
  /\ failed = FALSE

-----------------------------------------------------------------------------
(* wandb.init.                                                             *)
WandbInit ==
  /\ pc = "train"
  /\ active' = TRUE
  /\ stale' = [stale EXCEPT !["wandb"] = FALSE]
  /\ UNCHANGED <<pc, buffer, flushVars, seesRun, alarm, stored, logged, failed>>

(* Seeded fault: without a run the buffer is kept.                         *)
Flush_KeepsBuffer(s, points, finish) ==
  /\ stale' = [stale EXCEPT ![s] = FALSE]
  /\ buffer' = [buffer EXCEPT ![s] = IF seesRun THEN <<>> ELSE points]
  /\ IF points = <<>> \/ ~seesRun
       THEN /\ active' = (active /\ ~finish)
            /\ UNCHANGED <<pc, flushVars>>
       ELSE /\ pc' = "flush" /\ by' = s /\ pending' = points /\ finishing' = finish
            /\ UNCHANGED active

(* _flush, up to its try, of a shim whose buffer holds these points.       *)
Flush(s, points, finish) ==
  /\ stale' = [stale EXCEPT ![s] = FALSE]
  /\ buffer' = [buffer EXCEPT ![s] = <<>>]
  /\ IF points = <<>> \/ ~seesRun
       THEN /\ active' = (active /\ ~finish)
            /\ UNCHANGED <<pc, flushVars>>
       ELSE /\ pc' = "flush" /\ by' = s /\ pending' = points /\ finishing' = finish
            /\ UNCHANGED active

(* wandb.log, run.log, add_scalar, add_scalars: n points join the buffer,  *)
(* which is flushed when it is full or old.                                *)
Log(s, n) ==
  /\ pc = "train"
  /\ s = "wandb" => active
  /\ logged[s] + n <= MaxPoints
  /\ logged' = [logged EXCEPT ![s] = @ + n]
  /\ LET points == buffer[s] \o [i \in 1 .. n |-> logged[s] + i]
     IN IF Len(points) >= FlushEveryN \/ stale[s]
          THEN Flush(s, points, FALSE)
          ELSE /\ buffer' = [buffer EXCEPT ![s] = points]
               /\ UNCHANGED <<pc, active, stale, flushVars>>
  /\ UNCHANGED <<seesRun, alarm, stored, failed>>

(* wandb.finish and run.finish.                                            *)
Finish ==
  /\ pc = "train"
  /\ Flush("wandb", buffer["wandb"], TRUE)
  /\ UNCHANGED <<seesRun, alarm, stored, logged, failed>>

(* SummaryWriter's flush, close and __exit__.                              *)
Close ==
  /\ pc = "train"
  /\ Flush("tensorboard", buffer["tensorboard"], FALSE)
  /\ UNCHANGED <<seesRun, alarm, stored, logged, failed>>

(* The flush is over: back to the method's code.                           *)
Return == /\ pc' = "train"
          /\ active' = (active /\ ~finishing)
          /\ UNCHANGED <<by, finishing>>

Batch == SubSeq(pending, 1, IF Len(pending) < BatchSize THEN Len(pending) ELSE BatchSize)

(* Seeded fault: the slices leave out a point between two batches.         *)
Rest_SkipsOne == SubSeq(pending, BatchSize + 2, Len(pending))

Rest == SubSeq(pending, BatchSize + 1, Len(pending))

Send == stored' = [stored EXCEPT ![by] = @ \o Batch]

(* log_batch succeeds.                                                     *)
Sent ==
  /\ pc = "flush"
  /\ Send
  /\ pending' = Rest
  /\ IF pending' = <<>> THEN Return ELSE UNCHANGED <<pc, active, by, finishing>>
  /\ UNCHANGED <<buffer, stale, seesRun, alarm, logged, failed>>

(* The batch in flight is in MLflow or is not, and no other is sent.       *)
GiveUp == /\ Send \/ UNCHANGED stored
          /\ pending' = <<>>

(* Seeded fault: a batch that failed is tried again.                       *)
Refused_Retries ==
  /\ pc = "flush"
  /\ Send \/ UNCHANGED stored
  /\ failed' = TRUE
  /\ UNCHANGED <<pc, active, buffer, stale, flushVars, seesRun, alarm, logged>>

(* log_batch raises.                                                       *)
Refused ==
  /\ pc = "flush"
  /\ GiveUp /\ Return
  /\ failed' = TRUE
  /\ UNCHANGED <<buffer, stale, seesRun, alarm, logged>>

(* Two seconds without a flush.                                            *)
TimePasses(s) ==
  /\ pc = "train" /\ ~stale[s]
  /\ stale' = [stale EXCEPT ![s] = TRUE]
  /\ UNCHANGED <<pc, active, buffer, flushVars, seesRun, alarm, stored, logged, failed>>

-----------------------------------------------------------------------------
(* SIGALRM: TimeoutSentinel is raised wherever the launcher is.  From the  *)
(* method's code it reaches the launcher's except clause.                  *)
Rings ==
  /\ pc = "train" /\ alarm = "set"
  /\ alarm' = "rung" /\ pc' = "out"
  /\ UNCHANGED <<active, buffer, stale, flushVars, seesRun, stored, logged, failed>>

(* So it does from a _flush outside its try: the points taken are lost.    *)
RingsBesideTry ==
  /\ pc = "flush" /\ alarm = "set"
  /\ alarm' = "rung" /\ pc' = "out"
  /\ pending' = <<>>
  /\ UNCHANGED <<active, buffer, stale, by, finishing, seesRun, stored, logged, failed>>

(* Inside the try of _flush, except Exception takes TimeoutSentinel for a  *)
(* failing batch.                                                          *)
RingsInTry ==
  /\ pc = "flush" /\ alarm = "set"
  /\ alarm' = "rung"
  /\ GiveUp /\ Return
  /\ UNCHANGED <<buffer, stale, seesRun, logged, failed>>

(* The method's code returns or raises by itself.                          *)
TrainingEnds ==
  /\ pc = "train"
  /\ pc' = "out"
  /\ UNCHANGED <<active, buffer, stale, flushVars, seesRun, alarm, stored, logged, failed>>

(* The launcher cancels the alarm, closes the MLflow run and ends, also    *)
(* when the alarm comes so late that it ends with a traceback.             *)
LauncherEnds ==
  /\ pc = "out"
  /\ pc' = "ended"
  /\ alarm' = IF alarm = "set" THEN "off" ELSE alarm
  /\ UNCHANGED <<active, buffer, stale, flushVars, seesRun, stored, logged, failed>>

-----------------------------------------------------------------------------
Method ==
  \/ WandbInit \/ Finish \/ Close \/ TrainingEnds
  \/ \E s \in Shims : TimePasses(s) \/ \E n \in 1 .. MaxDict : Log(s, n)

Launcher == Sent \/ Refused \/ LauncherEnds

Next == Method \/ Launcher \/ Rings \/ RingsBesideTry \/ RingsInTry

Spec == Init /\ [][Next]_vars

-----------------------------------------------------------------------------
(* Every variable has its type.                                            *)
TypeOK ==
  /\ pc \in {"train", "flush", "out", "ended"}
  /\ active \in BOOLEAN /\ finishing \in BOOLEAN
  /\ seesRun \in BOOLEAN /\ failed \in BOOLEAN
  /\ buffer \in [Shims -> Seq(Nat)] /\ stored \in [Shims -> Seq(Nat)]
  /\ pending \in Seq(Nat)
  /\ stale \in [Shims -> BOOLEAN]
  /\ by \in Shims
  /\ alarm \in {"set", "rung", "off"}
  /\ logged \in [Shims -> 0 .. MaxPoints]

(* Where the points of a shim are.                                         *)
InHand(s) == stored[s] \o (IF by = s THEN pending ELSE <<>>) \o buffer[s]

(* As long as MLflow takes the batches and the alarm keeps quiet, every    *)
(* point logged is in MLflow, on its way or in the buffer, once and in its *)
(* place.                                                                  *)
NothingLost ==
  ~failed /\ alarm # "rung" /\ seesRun =>
    \A s \in Shims : InHand(s) = [i \in 1 .. logged[s] |-> i]

(* Whatever fails, no point gets to MLflow twice or after a later one: a   *)
(* batch that was stored and reported failed is not sent again.            *)
OnceInOrder ==
  \A s \in Shims : \A i, j \in 1 .. Len(stored[s]) : i < j => stored[s][i] < stored[s][j]

(* The buffer stays below FLUSH_EVERY_N between two calls, run or no run.  *)
BelowThreshold == \A s \in Shims : Len(buffer[s]) < FlushEveryN

(* "finish() flushes the tail": once finished, nothing waits in the buffer *)
(* of wandb for a flush that nobody will call.                             *)
TailIsFlushed == ~active => buffer["wandb"] = <<>>

(* Nothing piles up in a buffer, and nothing is left behind in one.        *)
BufferBounded == BelowThreshold /\ TailIsFlushed
=============================================================================
