-------------------------------- MODULE MCBoot --------------------------------
(* The schedule, a demo and a file of the user's, in a directory for three. *)
EXTENDS Boot

CONSTANTS S, D1, U, f, d, u
MCSizeOf == [x \in Data |-> IF x = u THEN 2 ELSE 1]
MCDemo == <<D1>>
MCFactory == [n \in {S, D1} |-> IF n = S THEN f ELSE d]
=============================================================================
