------------------------------ MODULE MCSession ------------------------------
(* Three files on a disk for two, of up to two cells: one cell is a page.        *)
EXTENDS FileSession

CONSTANT A, B, C
MCVar == UNION {[0 .. k - 1 -> Cell] : k \in 0 .. FILE_MAX}
=============================================================================
