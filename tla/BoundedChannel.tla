--------------------------- MODULE BoundedChannel ---------------------------
(***************************************************************************)
(* What a BoundedBuffer (bb.h) promises its users, with the event loop and *)
(* the two semaphores abstracted away: a FIFO of at most Cap values, and a *)
(* FIFO of writers waiting for room.                                       *)
(*                                                                         *)
(*   put(v):  "When room is available in the buffer put v in the next     *)
(*            slot" -- v takes the next slot at once if there is room,     *)
(*            otherwise it waits behind the writers already waiting.      *)
(*   get():   "When the buffer is not empty remove the first value" -- and *)
(*            the room it frees goes to the longest-waiting writer.        *)
(*                                                                         *)
(* A slot is taken when put is granted room, not when the value is         *)
(* finally linked into the queue; delivered is what the readers received.  *)
(***************************************************************************)
EXTENDS Naturals, Sequences

CONSTANTS
    Chans,    \* the buffers
    Cap,      \* the buffer size n of BoundedBuffer(n)
    Values    \* what put may be given

VARIABLES
    buf,        \* buf[c]: values granted a slot, oldest first
    blocked,    \* blocked[c]: values of writers waiting for a slot, oldest first
    delivered   \* delivered[c]: values handed to readers, in order

chvars == <<buf, blocked, delivered>>

Init ==
    /\ buf = [c \in Chans |-> <<>>]
    /\ blocked = [c \in Chans |-> <<>>]
    /\ delivered = [c \in Chans |-> <<>>]

\* put(v)
Put(c, v) ==
    /\ IF Len(buf[c]) < Cap
       THEN buf' = [buf EXCEPT ![c] = Append(@, v)] /\ UNCHANGED blocked
       ELSE blocked' = [blocked EXCEPT ![c] = Append(@, v)] /\ UNCHANGED buf
    /\ UNCHANGED delivered

\* get(): the first value goes to the reader, and its slot to the first
\* waiting writer.
Get(c) ==
    /\ buf[c] # <<>>
    /\ delivered' = [delivered EXCEPT ![c] = Append(@, Head(buf[c]))]
    /\ IF blocked[c] = <<>>
       THEN buf' = [buf EXCEPT ![c] = Tail(@)] /\ UNCHANGED blocked
       ELSE /\ buf' = [buf EXCEPT ![c] = Append(Tail(@), Head(blocked[c]))]
            /\ blocked' = [blocked EXCEPT ![c] = Tail(@)]

Next == \E c \in Chans : (\E v \in Values : Put(c, v)) \/ Get(c)

Spec == Init /\ [][Next]_chvars
=============================================================================
