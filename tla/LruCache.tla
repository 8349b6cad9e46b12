------------------------------ MODULE LruCache -------------------------------
(***************************************************************************)
(* What Cache::read_block (cache.cc) promises as a block device with a     *)
(* fixed-size most-recently-used cache in front of the disk: a read hands  *)
(* back the block's contents, and the cache then holds the Size blocks     *)
(* read most recently, the one just read first.                           *)
(***************************************************************************)
EXTENDS Naturals, Sequences, SequencesExt

CONSTANTS
    Size,     \* blocks the cache holds
    Blocks,   \* block numbers a reader may ask for
    None      \* before the first read

VARIABLES
    recent,   \* distinct blocks, most recently read first
    out       \* what the last read handed back: the block whose contents it holds

lruvars == <<recent, out>>

\* The most recent first, the least recent beyond Size forgotten.
Touch(s, b) ==
    LET t == Cons(b, Remove(s, b))
    IN IF Len(t) > Size THEN SubSeq(t, 1, Size) ELSE t

Init == recent = <<>> /\ out = None

ReadBlock(b) ==
    /\ recent' = Touch(recent, b)
    /\ out' = b

Next == \E b \in Blocks : ReadBlock(b)

Spec == Init /\ [][Next]_lruvars
=============================================================================
