------------------------------ MODULE FileStore ------------------------------
(***************************************************************************)
(* What src/Core/ARSFS.cpp promises while the power stays on: a table of   *)
(* files with room for FCB_CNT names and BMP pages, in which an operation  *)
(* on one file changes that file and no other, and a write fails only when *)
(* the other files leave too little room (the file is then left empty).    *)
(***************************************************************************)
EXTENDS Integers, FiniteSets, FiniteSetsExt

CONSTANTS Name, Content, EMPTY, ABSENT,
          Pages,            \* Pages[c]: the pages content c takes up
          FCB_CNT, BMP

VARIABLE files

Stored == {n \in Name : files[n] # ABSENT}
Room(n) == BMP - MapThenSumSet(LAMBDA k : Pages[files[k]], Stored \ {n})

Init == files = [n \in Name |-> ABSENT]

Create(n) ==
  /\ n \notin Stored /\ Cardinality(Stored) < FCB_CNT
  /\ files' = [files EXCEPT ![n] = EMPTY]

Fits(n, c) == Pages[c] <= Room(n)
Write(n, c) ==
  /\ n \in Stored
  /\ files' = [files EXCEPT ![n] = IF Fits(n, c) THEN c ELSE EMPTY]

Delete(n) == n \in Stored /\ files' = [files EXCEPT ![n] = ABSENT]

Format == files' = [n \in Name |-> ABSENT]

Next == \/ \E n \in Name : \/ Create(n) \/ Delete(n)
                           \/ \E c \in Content : Write(n, c)
        \/ Format

Spec == Init /\ [][Next]_files
=============================================================================
