------------------------------- MODULE MCSerial -------------------------------
(* An empty file, a text of one line and a binary one of two chunks. *)
EXTENDS SerialLine

MCContents == {<<>>, <<P, NL>>, <<U, P, P>>}
=============================================================================
