------------------------------- MODULE MCVmm --------------------------------
EXTENDS Vmm

CONSTANTS p1, p2

MCProcs == {p1, p2}
MCFrames == 1..7
\* /sbin/init with one page of code.
MCInitImage == <<[start |-> 8, size |-> 1]>>
MCImages == {MCInitImage}

\* One allocator: alloc_frame returns the lowest free frame.  Which free
\* frame it returns is invisible to MCView below.
MCPicks(k, fr) == IF k <= Cardinality(fr) THEN {SubSeq(SetToSortSeq(fr, <), 1, k)} ELSE {}

\* Two states that differ only in which frame numbers their holders use are
\* the same system.  The view keeps, per holder (a page directory, a page
\* table, a data page), that it holds a frame and the data in it, which
\* holders share a frame and which hold a free one, and how many frames are
\* free; every other frame is leaked and never read again.
HolderFrames ==
    {<<<<"pd", p>>, pd[p]>> : p \in {q \in Procs : pd[q] # NoFrame}}
    \cup UNION {{<<<<"pt", p, t>>, pdes[p][t]>> : t \in {u \in Tables : pdes[p][u] # NoFrame}} : p \in Procs}
    \cup UNION {{<<<<"pg", p, a>>, ptes[p][a]>> : a \in Mapped(p)} : p \in Procs}
MCView ==
    <<status, vmes, handler, inh, ctx, saved, seen,
      [p \in Procs |-> pd[p] # NoFrame],
      [p \in Procs |-> [t \in Tables |-> pdes[p][t] # NoFrame]],
      [p \in Procs |-> [a \in UserPages |-> IF ptes[p][a] = NoFrame THEN -1 ELSE mem[ptes[p][a]]]],
      {<<h[1], k[1]>> : h, k \in {x \in HolderFrames : \E y \in HolderFrames : y # x /\ y[2] = x[2]}},
      {h[1] : h \in {x \in HolderFrames : x[2] \in free}},
      Cardinality(free)>>
=============================================================================
