------------------------------ MODULE MCInitT0 ------------------------------
(* init, the four children its program forks and the grandchild:         *)
(* six PCBs, numbered so that fork can take the lowest free one.          *)
EXTENDS InitT0

CONSTANTS s1
MCProcs == 1..6
MCSemIds == {s1}
=============================================================================
