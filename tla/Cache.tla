-------------------------------- MODULE Cache ---------------------------------
(***************************************************************************)
(* The block cache (cache.h, cache.cc) and its MRUQueue (queue.h): a       *)
(* doubly linked list of a fixed number of nodes, each with a block id and *)
(* a buffer.  read_block holds the cache's spin lock for the whole call,   *)
(* so a call is one step.                                                  *)
(*                                                                         *)
(* Nodes are 1..NNodes (16 in the code) and Nil is nullptr.  A buffer      *)
(* holds the contents of one block, written as that block's number, or    *)
(* Garbage: the constructor allocates the buffers with new uint32_t[] and  *)
(* never fills them, and every node starts with id -1, that is NoId =      *)
(* 0xFFFFFFFF, itself a block number a caller may pass.                    *)
(***************************************************************************)
EXTENDS Naturals, Sequences, SequencesExt

CONSTANTS
    NNodes,    \* nodes of the MRUQueue (16 in queue.h)
    Blocks,    \* block numbers callers read
    NoId,      \* (uint32_t)-1, the id of a node never filled
    Garbage,   \* contents of a buffer never written
    None       \* out before the first read

ASSUME NNodes >= 2 /\ Garbage \notin Blocks \cup {NoId}

Nodes == 1..NNodes
Nil == 0

VARIABLES
    next, prev,    \* the links of each node
    first, last,   \* the ends of the list
    id, buf,       \* each node's block id and buffer contents
    out            \* the contents the last read_block copied to its caller

vars == <<next, prev, first, last, id, buf, out>>

\* The nodes from first, following next, at most NNodes of them.
RECURSIVE ChainFrom(_, _, _)
ChainFrom(nx, n, k) == IF n = Nil \/ k = 0 THEN <<>> ELSE Cons(n, ChainFrom(nx, nx[n], k - 1))
Chain == ChainFrom(next, first, NNodes)

\* MRUQueue(block_size): NNodes nodes linked in order, ids -1.
Init ==
    /\ next = [n \in Nodes |-> IF n = NNodes THEN Nil ELSE n + 1]
    /\ prev = [n \in Nodes |-> n - 1]
    /\ first = 1 /\ last = NNodes
    /\ id = [n \in Nodes |-> NoId]
    /\ buf = [n \in Nodes |-> Garbage]
    /\ out = None

\* contains(id): the walk from first stops at the first node with the id.
Found(b) == SelectInSeq(Chain, LAMBDA n : id[n] = b)

\* contains(id) on a hit at node it that is not first: unlink it and push
\* it at the front, one pointer assignment after another.
MoveToFrontKeepLast(it) ==
    LET p == prev[it]
        n == next[it]
        nx1 == [next EXCEPT ![p] = n]
        pv1 == IF n # Nil THEN [prev EXCEPT ![n] = p] ELSE prev
        pv2 == [pv1 EXCEPT ![it] = Nil]
        nx2 == [nx1 EXCEPT ![it] = first]
        pv3 == [pv2 EXCEPT ![first] = it]
    IN [next |-> nx2, prev |-> pv3, first |-> it, last |-> last]
MoveToFront(it) ==
    LET p == prev[it]
        n == next[it]
        nx1 == [next EXCEPT ![p] = n]
        pv1 == IF n # Nil THEN [prev EXCEPT ![n] = p] ELSE prev
        ls1 == IF n # Nil THEN last ELSE p
        pv2 == [pv1 EXCEPT ![it] = Nil]
        nx2 == [nx1 EXCEPT ![it] = first]
        pv3 == [pv2 EXCEPT ![first] = it]
    IN [next |-> nx2, prev |-> pv3, first |-> it, last |-> ls1]

\* add(index, buffer): the last node is unlinked, pushed at the front and
\* given the new id and a copy of the buffer.
AddFrontPastLast ==
    LET cur == next[last]
        ls1 == last
        nx1 == [next EXCEPT ![ls1] = Nil]
        pv1 == [prev EXCEPT ![cur] = Nil]
        nx2 == [nx1 EXCEPT ![cur] = first]
        pv2 == [pv1 EXCEPT ![first] = cur]
    IN [next |-> nx2, prev |-> pv2, first |-> cur, last |-> ls1]
AddFront ==
    LET cur == last
        ls1 == prev[cur]
        nx1 == [next EXCEPT ![ls1] = Nil]
        pv1 == [prev EXCEPT ![cur] = Nil]
        nx2 == [nx1 EXCEPT ![cur] = first]
        pv2 == [pv1 EXCEPT ![first] = cur]
    IN [next |-> nx2, prev |-> pv2, first |-> cur, last |-> ls1]

SetLinks(l) == next' = l.next /\ prev' = l.prev /\ first' = l.first /\ last' = l.last

\* read_block(block_id, buffer): on a hit, copy the front node's buffer
\* (contains has moved the node there); on a miss, read the disk and add.
ReadBlockPeekFirst(b) ==
    IF Found(b) # 0
    THEN LET it == Chain[Found(b)]
         IN /\ IF prev[it] = Nil THEN UNCHANGED <<next, prev, first, last>>
                                 ELSE SetLinks(MoveToFront(it))
            /\ out' = buf[first]
            /\ UNCHANGED <<id, buf>>
    ELSE /\ SetLinks(AddFront)
         /\ id' = [id EXCEPT ![last] = b]
         /\ buf' = [buf EXCEPT ![last] = b]
         /\ out' = b
ReadBlock(b) ==
    IF Found(b) # 0
    THEN LET it == Chain[Found(b)]
         IN /\ IF prev[it] = Nil THEN UNCHANGED <<next, prev, first, last>>
                                 ELSE SetLinks(MoveToFront(it))
            /\ out' = buf[it]
            /\ UNCHANGED <<id, buf>>
    ELSE /\ SetLinks(AddFront)
         /\ id' = [id EXCEPT ![last] = b]
         /\ buf' = [buf EXCEPT ![last] = b]
         /\ out' = b

Next == \E b \in Blocks : ReadBlock(b)

Spec == Init /\ [][Next]_vars

-----------------------------------------------------------------------------
(* Properties.                                                             *)

\* Every link, end, id and buffer holds a value the code can store there.
TypeOK ==
    /\ next \in [Nodes -> Nodes \cup {Nil}] /\ prev \in [Nodes -> Nodes \cup {Nil}]
    /\ first \in Nodes /\ last \in Nodes
    /\ id \in [Nodes -> Blocks \cup {NoId}] /\ buf \in [Nodes -> Blocks \cup {NoId, Garbage}]

\* The pointer surgery of contains() and add() keeps one doubly linked list
\* through all the nodes: next from first visits every node once and ends
\* at last, and prev mirrors next.  A hit at the last node must move last,
\* and add() must cut the old last node off.
ListWellFormed ==
    /\ Len(Chain) = NNodes /\ ToSet(Chain) = Nodes
    /\ Chain[NNodes] = last /\ next[last] = Nil /\ prev[first] = Nil
    /\ \A i \in 2..NNodes : prev[Chain[i]] = Chain[i - 1]

\* The cache's refinement mapping: the ids along the list, the never-filled
\* ones (id -1) left out.
CachedIds == SelectSeq([i \in 1..Len(Chain) |-> id[Chain[i]]], LAMBDA x : x # NoId)
Lru == INSTANCE LruCache WITH Size <- NNodes, recent <- CachedIds

\* read_block behaves as a most-recently-used cache of NNodes blocks in front
\* of the disk: every read hands back the contents of the block asked for,
\* and the list holds the NNodes blocks read most recently, in order of
\* their last read.
CacheRefinesLru == Lru!Spec
=============================================================================
