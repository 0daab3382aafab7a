------------------------------- MODULE MCSched -------------------------------
(* Two slots, two programs, an empty SCHEDULE and one with more lines than slots. *)
EXTENDS ARSSched

CONSTANTS A, B
MCTask == 0 .. OS_MAX_TASK - 1
MCTwins == {<<A>>, <<A, A>>}
MCSchedule == {<<>>, <<A, B, A>>}
=============================================================================
