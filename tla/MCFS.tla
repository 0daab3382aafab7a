--------------------------------- MODULE MCFS ---------------------------------
(* Up to three names, files of no, one and two pages, two pages to a sector. *)
EXTENDS ARSFS

CONSTANTS A, B, C, e, s, l
MCSizeOf == [d \in Data |-> CASE d = e -> 0 [] d = s -> 1 [] d = l -> 3]
=============================================================================
