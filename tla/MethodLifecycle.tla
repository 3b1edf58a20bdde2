-------------------------- MODULE MethodLifecycle ---------------------------
(***************************************************************************)
(* What state/autoresearch.json promises its reader about a method,        *)
(* whatever hangs, dies or goes on logging: an attempt and its verdict     *)
(* come into the file together, and one at a time; green has evidence; a   *)
(* settled method is left alone, an exhausted one becomes red; and only a  *)
(* reset takes anything back.                                              *)
(***************************************************************************)
EXTENDS Naturals

CONSTANTS Methods, Dropped, MaxAttempts

VARIABLES note,   (* status and attempts of each method                     *)
          earned  (* methods that logged anything since their last reset    *)

vars == <<note, earned>>

Settled  == {"green", "skipped"}
Verdicts == Settled \cup {"awaiting_prereq", "red"}
Fresh    == [status |-> "pending", tries |-> 0]

Init == note = [m \in Methods |-> Fresh] /\ earned = {}

Observe(m) == /\ earned' = earned \cup {m}
              /\ UNCHANGED note

Settle(m, verdict) ==
  /\ note[m].status \notin Settled /\ note[m].tries < MaxAttempts
  /\ verdict = "green" => m \in earned
  /\ note' = [note EXCEPT ![m] = [status |-> verdict, tries |-> @.tries + 1]]
  /\ UNCHANGED earned

GiveUp(m) == /\ note[m].status \notin Settled /\ note[m].tries = MaxAttempts
             /\ note' = [note EXCEPT ![m].status = "red"]
             /\ UNCHANGED earned

(* The dropped methods that were not tried yet are skipped together.       *)
Drop == /\ note' = [m \in Methods |->
                     IF m \in Dropped /\ note[m].status = "pending"
                       THEN [note[m] EXCEPT !.status = "skipped"] ELSE note[m]]
        /\ UNCHANGED earned

Reset(S) == /\ note' = [m \in Methods |-> IF m \in S THEN Fresh ELSE note[m]]
            /\ earned' = earned \ S

Next == \/ \E m \in Methods : \/ Observe(m) \/ GiveUp(m)
                              \/ \E verdict \in Verdicts : Settle(m, verdict)
        \/ Drop
        \/ \E S \in SUBSET Methods : Reset(S)

Spec == Init /\ [][Next]_vars
=============================================================================
