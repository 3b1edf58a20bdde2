--------------------------- MODULE CellLifecycle ----------------------------
(***************************************************************************)
(* What the matrix orchestrator promises about a cell, whatever dies when: *)
(* a cell is claimed only while nobody trains it, a launcher is started    *)
(* only for a claimed cell that has none, a result is recorded only from a *)
(* launcher that ran, and a cell goes back to the queue only when its      *)
(* launcher is gone.  Budgets, ordering and the scheduler's memory are not *)
(* its business.                                                           *)
(***************************************************************************)
CONSTANTS Cells, Pids, Results, Parked

VARIABLES status,  (* the status field of each row                          *)
          exec     (* the launchers, not yet waited for, of each cell       *)

vars == <<status, exec>>

Busy == UNION {exec[c] : c \in Cells}

Init == /\ status = [c \in Cells |-> "pending"]
        /\ exec = [c \in Cells |-> {}]

Claim(c) == /\ status[c] = "pending" /\ exec[c] = {}
            /\ status' = [status EXCEPT ![c] = "running"]
            /\ UNCHANGED exec

Spawn(c, p) == /\ status[c] = "running" /\ exec[c] = {}
               /\ p \notin Busy
               /\ exec' = [exec EXCEPT ![c] = {p}]
               /\ UNCHANGED status

Record(c, result) == /\ status[c] = "running" /\ exec[c] # {}
                     /\ status' = [status EXCEPT ![c] = result]
                     /\ exec' = [exec EXCEPT ![c] = {}]

(* Launchers end and nobody takes their exit code.                         *)
Lose(P) == /\ exec' = [c \in Cells |-> exec[c] \ P]
           /\ UNCHANGED status

Requeue(S) == /\ \A c \in S : status[c] = "running" /\ exec[c] = {}
              /\ status' = [c \in Cells |-> IF c \in S THEN "pending" ELSE status[c]]
              /\ UNCHANGED exec

(* The operator's word; nothing being trained is put back in the queue.    *)
Override(S, to) == /\ to = "pending" => \A c \in S : exec[c] = {}
                   /\ status' = [c \in Cells |-> IF c \in S THEN to ELSE status[c]]
                   /\ UNCHANGED exec

Next == \/ \E c \in Cells : \/ Claim(c)
                            \/ \E p \in Pids : Spawn(c, p)
                            \/ \E result \in Results : Record(c, result)
        \/ \E P \in SUBSET Pids : Lose(P)
        \/ \E S \in SUBSET Cells : \/ Requeue(S)
                                   \/ \E to \in Results \cup Parked \cup {"pending"} :
                                        Override(S, to)

Spec == Init /\ [][Next]_vars
=============================================================================
