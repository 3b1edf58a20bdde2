----------------------- MODULE MatrixStateFile_proofs -----------------------
(***************************************************************************)
(* While the runs of long_runner.py do not overlap, its save is atomic:    *)
(* the file is always whole, and implements AtomicStore, wherever a run is *)
(* cut short.                                                              *)
(***************************************************************************)
EXTENDS MatrixStateFile, TLAPS

(* The rows of p are those of the file with one update on top.             *)
Ahead(p) == \E S \in SUBSET Cells :
              mem[p] = [c \in Cells |-> IF c \in S THEN Parsed[c] + 1 ELSE Parsed[c]]

Alone == \A p, q \in Procs : pc[p] # "off" /\ pc[q] # "off" => p = q

Writing(p) ==
  /\ pc[p] \in {"open", "fill", "rename"} => Ahead(p)
  /\ pc[p] \in {"fill", "rename"} => tmp # None /\ fd[p] = tmp
  /\ pc[p] = "fill" => ino[tmp] = Torn
  /\ pc[p] = "rename" => ino[tmp] = mem[p]
  /\ pc[p] = "idle" => mem[p] = Parsed

Inv == /\ TypeOK
       /\ FileIsWhole
       /\ Alone
       /\ tmp # None => tmp # json
       /\ \A p \in Procs : Writing(p)

LEMMA ParsedType == TypeOK => Parsed \in Rows
<1> SUFFICES ASSUME TypeOK PROVE Parsed \in Rows
  OBVIOUS
<1>1. Default \in Rows
  BY FileAssumption DEF Default, Rows
<1> QED BY <1>1 DEF Parsed, TypeOK

LEMMA WholeRows == TypeOK => \A i \in Inodes : ino[i] # Torn => ino[i] \in Rows
BY DEF TypeOK

LEMMA RowsNotTorn == Torn \notin Rows
<1>1. Rows \subseteq [Cells -> Nat]
  BY FileAssumption DEF Rows
<1> QED BY <1>1, FileAssumption

LEMMA InitInv == Init => Inv
<1> SUFFICES ASSUME Init PROVE Inv
  OBVIOUS
<1>1. Default \in Rows
  BY FileAssumption DEF Default, Rows
<1> QED BY <1>1 DEF Init, Inv, TypeOK, FileIsWhole, Alone, Writing

LEMMA LoadStep ==
  ASSUME OneAtATime, Inv, NEW p \in Procs, Load(p)
  PROVE  Inv' /\ Parsed' = Parsed
<1>1. Parsed' = Parsed
  BY DEF Load, Parsed
<1>2. TypeOK'
  BY ParsedType DEF Load, Inv, TypeOK
<1>3. Alone'
  BY DEF Load, Inv, TypeOK, Alone
<1>4. Parsed = [c \in Cells |-> IF c \in {} THEN Parsed[c] + 1 ELSE Parsed[c]]
  BY ParsedType DEF Inv, Rows
<1>5. Ahead(p)'
  <2>1. mem'[p] = Parsed
    BY DEF Load, Inv, TypeOK
  <2>2. {} \in SUBSET Cells
    OBVIOUS
  <2> QED BY <2>1, <2>2, <1>1, <1>4 DEF Ahead
<1>6. \A q \in Procs : Writing(q)'
  <2> TAKE q \in Procs
  <2>1. q # p => pc'[q] = "off"
    BY DEF Load, Inv, TypeOK
  <2>2. pc'[p] = "open"
    BY DEF Load, Inv, TypeOK
  <2> QED BY <2>1, <2>2, <1>5 DEF Writing
<1> QED BY <1>1, <1>2, <1>3, <1>6 DEF Load, Inv, FileIsWhole

LEMMA OpenStep ==
  ASSUME Inv, NEW p \in Procs, Open(p)
  PROVE  Inv' /\ Parsed' = Parsed
<1>1. PICK i \in Inodes :
        /\ IF tmp = None THEN i # json /\ \A q \in Procs : i # fd[q] ELSE i = tmp
        /\ ino' = [ino EXCEPT ![i] = Torn]
        /\ fd' = [fd EXCEPT ![p] = i]
        /\ tmp' = i
  BY DEF Open
<1>2. i # json /\ i # None
  BY <1>1, FileAssumption DEF Inv
<1>3. Parsed' = Parsed /\ FileIsWhole'
  BY <1>1, <1>2 DEF Open, Parsed, FileIsWhole, Inv, TypeOK
<1>4. TypeOK' /\ Alone'
  BY <1>1 DEF Open, Inv, TypeOK, Alone
<1>5. Ahead(p)'
  BY <1>3 DEF Open, Inv, Writing, Ahead
<1>6. \A q \in Procs : Writing(q)'
  <2> TAKE q \in Procs
  <2>1. q # p => pc'[q] = "off"
    BY DEF Open, Inv, TypeOK, Alone
  <2>2. pc'[p] = "fill" /\ fd'[p] = tmp' /\ tmp' # None /\ ino'[tmp'] = Torn
    BY <1>1, <1>2 DEF Open, Inv, TypeOK
  <2> QED BY <2>1, <2>2, <1>5 DEF Writing
<1> QED BY <1>1, <1>2, <1>3, <1>4, <1>6 DEF Inv, Open

LEMMA FillStep ==
  ASSUME Inv, NEW p \in Procs, Fill(p)
  PROVE  Inv' /\ Parsed' = Parsed
<1>1. tmp # None /\ fd[p] = tmp /\ tmp # json /\ tmp \in Inodes /\ ino[tmp] = Torn
  BY DEF Fill, Inv, Writing, TypeOK
<1>2. ino' = [ino EXCEPT ![tmp] = mem[p]]
  BY <1>1 DEF Fill
<1>3. Parsed' = Parsed /\ FileIsWhole'
  BY <1>1, <1>2 DEF Fill, Parsed, FileIsWhole, Inv, TypeOK
<1>4. TypeOK' /\ Alone'
  BY <1>1, <1>2 DEF Fill, Inv, TypeOK, Alone
<1>5. Ahead(p)'
  BY <1>3 DEF Fill, Inv, Writing, Ahead
<1>6. \A q \in Procs : Writing(q)'
  <2> TAKE q \in Procs
  <2>1. q # p => pc'[q] = "off"
    BY DEF Fill, Inv, TypeOK, Alone
  <2>2. pc'[p] = "rename" /\ fd'[p] = tmp' /\ tmp' # None /\ ino'[tmp'] = mem'[p]
    BY <1>1, <1>2 DEF Fill, Inv, TypeOK
  <2> QED BY <2>1, <2>2, <1>5 DEF Writing
<1> QED BY <1>1, <1>3, <1>4, <1>6 DEF Fill, Inv

(* The rename is the one step that changes what a reader finds, and it     *)
(* puts one update on top of what was there.                               *)
LEMMA RenameStep ==
  ASSUME Inv, NEW p \in Procs, Rename(p)
  PROVE  Inv' /\ \E S \in SUBSET Cells :
                   Parsed' = [c \in Cells |-> IF c \in S THEN Parsed[c] + 1 ELSE Parsed[c]]
<1>1. tmp # None /\ tmp \in Inodes /\ ino[tmp] = mem[p] /\ mem[p] \in Rows /\ Ahead(p)
  BY DEF Rename, Inv, Writing, TypeOK
<1>2. json' = tmp /\ tmp' = None /\ ino' = ino /\ mem' = mem
  BY <1>1 DEF Rename
<1>3. Parsed' = mem[p] /\ FileIsWhole'
  BY <1>1, <1>2, RowsNotTorn DEF Parsed, FileIsWhole
<1>4. TypeOK' /\ Alone'
  BY <1>1, <1>2 DEF Rename, Inv, TypeOK, Alone
<1>5. \A q \in Procs : Writing(q)'
  <2> TAKE q \in Procs
  <2>1. q # p => pc'[q] = "off"
    BY DEF Rename, Inv, TypeOK, Alone
  <2>2. pc'[p] = "idle"
    BY <1>1 DEF Rename, Inv, TypeOK
  <2> QED BY <2>1, <2>2, <1>2, <1>3 DEF Writing
<1> QED BY <1>1, <1>2, <1>3, <1>4, <1>5 DEF Inv, Ahead

LEMMA ChangeStep ==
  ASSUME Inv, NEW p \in Procs, NEW S \in SUBSET Cells, Change(p, S)
  PROVE  Inv' /\ Parsed' = Parsed
<1>1. Parsed' = Parsed /\ FileIsWhole'
  BY DEF Change, Parsed, FileIsWhole, Inv
<1>2. mem[p] = Parsed /\ mem[p] \in Rows
  BY DEF Change, Inv, Writing, TypeOK
<1>3. mem'[p] = [c \in Cells |-> IF c \in S THEN Parsed[c] + 1 ELSE Parsed[c]]
  BY <1>2 DEF Change, Inv, TypeOK
<1>4. mem'[p] \in Rows
  BY <1>2, <1>3, FileAssumption DEF Change, Rows
<1>5. TypeOK' /\ Alone'
  BY <1>4 DEF Change, Inv, TypeOK, Alone
<1>6. Ahead(p)'
  BY <1>1, <1>3 DEF Ahead
<1>7. \A q \in Procs : Writing(q)'
  <2> TAKE q \in Procs
  <2>1. q # p => pc'[q] = "off"
    BY DEF Change, Inv, TypeOK, Alone
  <2>2. pc'[p] = "open"
    BY DEF Change, Inv, TypeOK
  <2> QED BY <2>1, <2>2, <1>6 DEF Writing
<1> QED BY <1>1, <1>5, <1>7 DEF Change, Inv

LEMMA EndsStep ==
  ASSUME Inv, NEW p \in Procs, Ends(p)
  PROVE  Inv' /\ Parsed' = Parsed
<1>1. Parsed' = Parsed /\ FileIsWhole'
  BY DEF Ends, Parsed, FileIsWhole, Inv
<1>2. TypeOK' /\ Alone'
  BY DEF Ends, Inv, TypeOK, Alone
<1>3. \A q \in Procs : pc'[q] = "off"
  BY DEF Ends, Inv, TypeOK, Alone
<1>4. \A q \in Procs : Writing(q)'
  BY <1>3 DEF Writing
<1> QED BY <1>1, <1>2, <1>4 DEF Ends, Inv

(* Every step keeps the invariant and is an update of AtomicStore or       *)
(* leaves the readable rows alone.                                         *)
LEMMA NextStep ==
  ASSUME OneAtATime, Inv, [Next]_vars
  PROVE  Inv' /\ [Store!Next]_Parsed
<1>1. CASE UNCHANGED vars
  <2>1. Parsed' = Parsed /\ (\A q \in Procs : Ahead(q)' <=> Ahead(q))
    BY <1>1 DEF vars, Parsed, Ahead
  <2> QED BY <1>1, <2>1 DEF vars, Inv, TypeOK, FileIsWhole, Alone, Writing
<1>2. ASSUME NEW p \in Procs, Load(p) \/ Open(p) \/ Fill(p) \/ Ends(p)
      PROVE  Inv' /\ Parsed' = Parsed
  BY <1>2, LoadStep, OpenStep, FillStep, EndsStep
<1>3. ASSUME NEW p \in Procs, Rename(p) PROVE Inv' /\ Store!Next
  <2>1. PICK S \in SUBSET Cells :
          Parsed' = [c \in Cells |-> IF c \in S THEN Parsed[c] + 1 ELSE Parsed[c]]
    BY <1>3, RenameStep
  <2>2. Store!Update(S)
    BY <2>1, Zenon DEF Store!Update
  <2> QED BY <2>2, <1>3, RenameStep, Zenon DEF Store!Next
<1>4. ASSUME NEW p \in Procs, NEW S \in (SUBSET Cells) \ {{}}, Change(p, S)
      PROVE  Inv' /\ Parsed' = Parsed
  BY <1>4, ChangeStep
<1> QED BY <1>1, <1>2, <1>3, <1>4, Zenon DEF Next

LEMMA Invariance == ASSUME OneAtATime PROVE Spec => []Inv
<1>1. Inv /\ [Next]_vars => Inv'
  BY NextStep
<1> QED BY <1>1, InitInv, PTL DEF Spec

(* Types are kept, however saves are cut short.                            *)
THEOREM TypeCorrect == ASSUME OneAtATime PROVE Spec => []TypeOK
<1>1. Inv => TypeOK
  BY DEF Inv
<1> QED BY <1>1, Invariance, PTL

(* A reader never finds half a file, and load_state never starts over,     *)
(* while runs of the program do not overlap, wherever one is killed.       *)
THEOREM NeverTorn == ASSUME OneAtATime PROVE Spec => []FileIsWhole
<1>1. Inv => FileIsWhole
  BY DEF Inv
<1> QED BY <1>1, Invariance, PTL

(* save_state is atomic under the same condition: the file implements a    *)
(* store that is updated at once and forgets nothing.                      *)
THEOREM ImplementsAtomicStore == ASSUME OneAtATime PROVE Spec => StoreSpec
<1>1. Init => Store!Init
  <2> SUFFICES ASSUME Init PROVE Store!Init
    OBVIOUS
  <2>1. Parsed = Default
    BY DEF Init, Parsed
  <2> QED BY <2>1 DEF Store!Init, Default
<1>2. Inv /\ [Next]_vars => [Store!Next]_Parsed
  BY NextStep
<1> QED BY <1>1, <1>2, Invariance, PTL DEF Spec, StoreSpec, Store!Spec
=============================================================================
