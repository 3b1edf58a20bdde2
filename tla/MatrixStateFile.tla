-------------------------- MODULE MatrixStateFile ---------------------------
(***************************************************************************)
(* state/matrix.json under load_state and save_state of long_runner.py, at *)
(* the grain of the file system: every run of the program, whatever its    *)
(* command, loads the file and saves it back, then changes some rows and   *)
(* saves again, never (--status, --plan), once (--mark) or for weeks       *)
(* (--execute).  A save truncates and fills state/matrix.tmp, one path for *)
(* everybody, and renames it.                                              *)
(*                                                                         *)
(* A row is represented by the number of changes it has seen.              *)
(***************************************************************************)
EXTENDS Naturals

CONSTANTS
  Cells,       (* rows of the manifest                                      *)
  Procs,       (* runs of long_runner.py that may overlap                   *)
  Inodes, None,(* files, and a path that names none                         *)
  Torn,        (* the contents of a file that is no whole JSON document     *)
  OneAtATime,  (* no two runs overlap                                       *)
  MaxChanges   (* bound on the changes of a row                             *)

ASSUME FileAssumption ==
  /\ None \notin Inodes
  /\ Torn \notin [Cells -> Nat]
  /\ OneAtATime \in BOOLEAN
  /\ MaxChanges \in Nat
  /\ \A i, j \in Inodes : \E k \in Inodes : k \notin {i, j}

VARIABLES
  ino,   (* contents of each file                                           *)
  json,  (* the file state/matrix.json names                                *)
  tmp,   (* the file state/matrix.tmp names                                 *)
  pc,    (* where each run is                                               *)
  mem,   (* the rows it has in memory                                       *)
  fd     (* the file it writes to                                           *)

vars == <<ino, json, tmp, pc, mem, fd>>

Rows    == [Cells -> 0 .. MaxChanges]
Default == [c \in Cells |-> 0]  (* _default_manifest: nothing has happened  *)

Init ==
  /\ ino = [i \in Inodes |-> Torn]
  /\ json = None /\ tmp = None
  /\ pc = [p \in Procs |-> "off"]
  /\ mem = [p \in Procs |-> Default]
  /\ fd = [p \in Procs |-> None]

(* Seeded fault: a file left by a save cut short is taken for the rows.    *)
Parsed_Tmp == IF tmp # None /\ ino[tmp] # Torn THEN ino[tmp] ELSE Default

(* load_state: no file, or one that does not parse, is a fresh manifest.   *)
Parsed == IF json # None /\ ino[json] # Torn THEN ino[json] ELSE Default

Load(p) ==
  /\ pc[p] = "off"
  /\ OneAtATime => \A q \in Procs : pc[q] = "off"
  /\ mem' = [mem EXCEPT ![p] = Parsed]
  /\ pc' = [pc EXCEPT ![p] = "open"]
  /\ UNCHANGED <<ino, json, tmp, fd>>

(* Seeded fault: the file is written in place.                             *)
Open_InPlace(p) ==
  /\ pc[p] = "open"
  /\ \E i \in Inodes :
       /\ IF json = None THEN i # tmp ELSE i = json
       /\ ino' = [ino EXCEPT ![i] = Torn]
       /\ fd' = [fd EXCEPT ![p] = i]
       /\ tmp' = i
  /\ pc' = [pc EXCEPT ![p] = "fill"]
  /\ UNCHANGED <<json, mem>>

(* write_text opens and truncates what .tmp names, or makes a new file.    *)
Open(p) ==
  /\ pc[p] = "open"
  /\ \E i \in Inodes :
       /\ IF tmp = None THEN i # json /\ \A q \in Procs : i # fd[q] ELSE i = tmp
       /\ ino' = [ino EXCEPT ![i] = Torn]
       /\ fd' = [fd EXCEPT ![p] = i]
       /\ tmp' = i
  /\ pc' = [pc EXCEPT ![p] = "fill"]
  /\ UNCHANGED <<json, mem>>

(* Two that filled the same file leave the longer one's tail behind the    *)
(* shorter one's text.                                                     *)
Fill(p) ==
  /\ pc[p] = "fill"
  /\ \E text \in {mem[p]} \cup (IF ino[fd[p]] = Torn THEN {} ELSE {Torn}) :
       ino' = [ino EXCEPT ![fd[p]] = text]
  /\ pc' = [pc EXCEPT ![p] = "rename"]
  /\ UNCHANGED <<json, tmp, mem, fd>>

(* tmp.replace: with no .tmp to rename, an exception ends the run.         *)
Rename(p) ==
  /\ pc[p] = "rename"
  /\ IF tmp = None
       THEN pc' = [pc EXCEPT ![p] = "off"] /\ UNCHANGED <<json, tmp>>
       ELSE pc' = [pc EXCEPT ![p] = "idle"] /\ json' = tmp /\ tmp' = None
  /\ fd' = [fd EXCEPT ![p] = None]
  /\ UNCHANGED <<ino, mem>>

(* A transition of the scheduler, a recovery, a command: some rows change  *)
(* in memory and are to be saved.                                          *)
Change(p, S) ==
  /\ pc[p] = "idle"
  /\ \A c \in S : mem[p][c] < MaxChanges
  /\ mem' = [mem EXCEPT ![p] = [c \in Cells |-> IF c \in S THEN @[c] + 1 ELSE @[c]]]
  /\ pc' = [pc EXCEPT ![p] = "open"]
  /\ UNCHANGED <<ino, json, tmp, fd>>

(* The run ends, or is killed, wherever it is.                             *)
Ends(p) ==
  /\ pc[p] # "off"
  /\ pc' = [pc EXCEPT ![p] = "off"]
  /\ fd' = [fd EXCEPT ![p] = None]
  /\ UNCHANGED <<ino, json, tmp, mem>>

Next == \E p \in Procs : \/ Load(p) \/ Open(p) \/ Fill(p) \/ Rename(p) \/ Ends(p)
                         \/ \E S \in (SUBSET Cells) \ {{}} : Change(p, S)

Spec == Init /\ [][Next]_vars

-----------------------------------------------------------------------------
(* Every variable has its type.                                            *)
TypeOK ==
  /\ ino \in [Inodes -> Rows \cup {Torn}]
  /\ json \in Inodes \cup {None} /\ tmp \in Inodes \cup {None}
  /\ pc \in [Procs -> {"off", "open", "fill", "rename", "idle"}]
  /\ mem \in [Procs -> Rows]
  /\ fd \in [Procs -> Inodes \cup {None}]

(* Whoever reads the file, and whenever a save was cut short, finds a      *)
(* whole document: load_state never falls back to the default manifest     *)
(* once there was a file.                                                  *)
FileIsWhole == json # None => ino[json] # Torn

(* While runs do not overlap, save_state is as good as atomic: the file    *)
(* changes only by whole updates, each on top of all earlier ones.         *)
Store == INSTANCE AtomicStore WITH rows <- Parsed
StoreSpec == Store!Spec

(* "State file is updated on every transition": no row in the file ever    *)
(* goes back to an earlier state of it.                                    *)
NeverGoesBack == [][\A c \in Cells : Parsed'[c] >= Parsed[c]]_vars
=============================================================================
