----------------------------- MODULE MCVmeQueue -----------------------------
(* A 16-page address space: user pages 8..14, the stack on page 14, and a  *)
(* two-segment /sbin/init (text on page 8, data on page 10).               *)
EXTENDS VmeQueue

MCInitImage == <<[start |-> 8, size |-> 1], [start |-> 10, size |-> 1]>>
MCImages == {MCInitImage}

(* Two bytes a page: user bytes 16..27 (UserHi 14), the shared page 28..29,   *)
(* and 0xF0001000 at byte 30.  Segments start below, in and past user space, *)
(* and a 20-byte one wraps past the top of the 32-byte word.                *)
MCSegs == [type : {0, 1}, vaddr : {15, 17, 28}, memsz : {0, 3, 20}]
MCElfHeaders ==
    {[fileOk |-> TRUE, entry |-> e, ph |-> ph] :
        e \in {16, 17, 29}, ph \in {<<s>> : s \in MCSegs} \cup {<<s, t>> : s, t \in MCSegs}}
    \cup {[fileOk |-> FALSE, entry |-> 17, ph |-> <<[type |-> 1, vaddr |-> 17, memsz |-> 3]>>]}
=============================================================================
