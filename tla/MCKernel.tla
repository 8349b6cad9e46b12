------------------------------ MODULE MCKernel ------------------------------
(* Three PCBs, one semaphore slot, one pipe of capacity 1.                 *)
EXTENDS Kernel, TLC

CONSTANTS p1, p2, p3, s1, b1, x0, x1
MCProcs == {p1, p2, p3}
MCSemIds == {s1}
MCPipes == {b1}
\* p2 and p3 are the two PCBs fork may hand out, in either order.
ForkSymmetry == Permutations({p2, p3})
MCBytes == {x0, x1}
\* ... and the byte values written to pipes are interchangeable as well.
PipeSymmetry == Permutations({p2, p3}) \cup Permutations(MCBytes)
=============================================================================
