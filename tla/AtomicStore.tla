---------------------------- MODULE AtomicStore -----------------------------
(***************************************************************************)
(* What the users of state/matrix.json take for granted: the file holds    *)
(* every row, and changes only by an update of some rows, at once.         *)
(***************************************************************************)
EXTENDS Naturals

CONSTANTS Cells

VARIABLE rows  (* how often each row has been updated                       *)

Init == rows = [c \in Cells |-> 0]

Update(S) == rows' = [c \in Cells |-> IF c \in S THEN rows[c] + 1 ELSE rows[c]]

Next == \E S \in SUBSET Cells : Update(S)

Spec == Init /\ [][Next]_rows
=============================================================================
