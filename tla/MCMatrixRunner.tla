--------------------------- MODULE MCMatrixRunner ---------------------------
(***************************************************************************)
(* Small instances of MatrixRunner.  Three rows: one as large as the whole *)
(* budget, which only starts on an idle machine, and two of which both     *)
(* fit; equal est_hours, so that the manifest order breaks a tie.          *)
(***************************************************************************)
EXTENDS MatrixRunner, FiniteSetsExt

MCEstHours == [c \in Cells |-> IF c = 1 THEN 2 ELSE 1]
MCVram == [c \in Cells |-> IF c = 1 THEN 3 ELSE 1]
MCRam == [c \in Cells |-> IF c = 2 THEN 2 ELSE 1]

MCSumOver(w) == [S \in SUBSET Cells |-> MapThenSumSet(LAMBDA c : w[c], S)]
MCVramSum == MCSumOver(MCVram)
MCRamSum == MCSumOver(MCRam)
=============================================================================
