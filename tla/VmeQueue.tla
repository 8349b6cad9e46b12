------------------------------ MODULE VmeQueue ------------------------------
(***************************************************************************)
(* The per-process list of reserved user regions (VMEQueue, queue.h) and   *)
(* the system calls that change it: simple_mmap and simple_munmap          *)
(* (sys.cc), the ELF loader (elf.cc) run at boot and by execl, and the     *)
(* deep copy taken by fork.                                                *)
(*                                                                         *)
(* Addresses are counted in 4 KiB pages.  The 32-bit address space of      *)
(* 2^20 pages is scaled down to Modulus pages, so that sums wrap exactly   *)
(* where the code's uint32_t sums wrap; UserLo and UserHi stand for        *)
(* 0x80000000 and 0xF0000000.  A region is a record with the fields of     *)
(* struct VME: start, end = start + size (mod 2^32) and size.              *)
(***************************************************************************)
EXTENDS Integers, Sequences, SequencesExt

CONSTANTS
    Modulus,     \* pages in the address space (2^20 in the code)
    UserLo,      \* first user page (0x80000000 >> 12)
    UserHi,      \* first page past user space (0xF0000000 >> 12)
    StackSize,   \* pages of the user stack the PCB reserves (0x100000 >> 12)
    Sizes,       \* region sizes a caller may request, in pages
    InitImage,   \* PT_LOAD segments of /sbin/init, as page-aligned regions
    Images,      \* PT_LOAD segments of the programs execl may load
    MaxVmes,     \* model bound: execl is not taken past this many VMEs
    PageBytes,   \* bytes per page (4096 in the code)
    ElfHeaders   \* ELF headers valid_load is checked on

ASSUME /\ 0 < UserLo /\ UserLo < UserHi /\ UserHi < Modulus
       /\ StackSize \in 1..(UserHi - UserLo)

VARIABLES
    queue,   \* the PCB's VMEQueue, first to last
    last     \* the last mmap or munmap call and what it returned

vars == <<queue, last>>

Addr == 0..(Modulus - 1)

\* uint32_t addition, scaled to the model's address space.
Plus(a, b) == (a + b) % Modulus

\* new VME(addr, size)
Vme(addr, size) == [start |-> addr, end |-> Plus(addr, size), size |-> size]

-----------------------------------------------------------------------------
(* The list operations of VMEQueue.                                        *)

\* Mutant: no overlap test at all.
IntersectsNever(q, addr, size) == FALSE

\* intersects_queue: a region touching the start of a VME counts as
\* intersecting it (addr + size >= it->start).
IntersectsQueue(q, addr, size) ==
    \E i \in 1..Len(q) : addr < q[i].end /\ Plus(addr, size) >= q[i].start

\* Mutant: the walk also skips a gap that fits exactly (<= for <).
RECURSIVE FirstFitLe(_, _, _, _)
FirstFitLe(q, i, startAddress, size) ==
    IF i <= Len(q) /\ q[i].start <= Plus(startAddress, size)
    THEN FirstFitLe(q, i + 1, q[i].end, size)
    ELSE <<startAddress, i>>

\* The first-fit walk of add_vme for vme->start == 0: the candidate start and
\* the index of the VME the new one is inserted before.
RECURSIVE FirstFit(_, _, _, _)
FirstFit(q, i, startAddress, size) ==
    IF i <= Len(q) /\ q[i].start < Plus(startAddress, size)
    THEN FirstFit(q, i + 1, q[i].end, size)
    ELSE <<startAddress, i>>

\* Mutant: the walk also skips a VME that starts exactly at the new end.
RECURSIVE InsertPosLe(_, _, _)
InsertPosLe(q, i, end) ==
    IF i <= Len(q) /\ q[i].start <= end THEN InsertPosLe(q, i + 1, end) ELSE i

\* The sorted-position walk of add_vme for a given start: skip every VME
\* whose start is below the new VME's end.
RECURSIVE InsertPos(_, _, _)
InsertPos(q, i, end) ==
    IF i <= Len(q) /\ q[i].start < end THEN InsertPos(q, i + 1, end) ELSE i

\* Mutant: first-fit returns the insertion index instead of the address.
AddVmeRetIndex(q, addr, size) ==
    IF size = 0 THEN [q |-> q, ret |-> 0]
    ELSE IF addr = 0
    THEN LET ff == FirstFit(q, 1, UserLo, size)
         IN IF Plus(ff[1], size) > UserHi \/ Plus(ff[1], size) < ff[1]
            THEN [q |-> q, ret |-> 0]
            ELSE [q |-> InsertAt(q, ff[2], Vme(ff[1], size)), ret |-> ff[2]]
    ELSE [q |-> InsertAt(q, InsertPos(q, 1, Plus(addr, size)), Vme(addr, size)),
          ret |-> addr]

\* add_vme(new VME(addr, size)): the new list and the returned start.
AddVme(q, addr, size) ==
    IF size = 0 THEN [q |-> q, ret |-> 0]
    ELSE IF addr = 0
    THEN LET ff == FirstFit(q, 1, UserLo, size)
             sa == ff[1]
         IN IF Plus(sa, size) > UserHi \/ Plus(sa, size) < sa
            THEN [q |-> q, ret |-> 0]
            ELSE [q |-> InsertAt(q, ff[2], Vme(sa, size)), ret |-> sa]
    ELSE [q |-> InsertAt(q, InsertPos(q, 1, Plus(addr, size)), Vme(addr, size)),
          ret |-> addr]

\* remove(addr): unlink the first VME that contains addr and return it.
RemoveVme(q, addr) ==
    LET hits == {i \in 1..Len(q) : addr < q[i].end /\ addr >= q[i].start}
    IN IF hits = {} THEN [q |-> q, ret |-> FALSE, vme |-> Vme(0, 0)]
       ELSE LET i == CHOOSE j \in hits : \A k \in hits : j <= k
            IN [q |-> RemoveAt(q, i), ret |-> TRUE, vme |-> q[i]]

\* deep_copy: walk from last to first, add_vme of a fresh VME for each.
RECURSIVE CopyFrom(_, _, _)
CopyFrom(q, i, acc) ==
    IF i = 0 THEN acc
    ELSE CopyFrom(q, i - 1, AddVme(acc, q[i].start, q[i].size).q)
DeepCopy(q) == CopyFrom(q, Len(q), <<>>)

\* Mutant: the last page is taken as covered when it equals the VME's end.
RECURSIVE ContainsFromLe(_, _, _, _)
ContainsFromLe(q, i, s, e) ==
    IF i > Len(q) THEN FALSE
    ELSE IF s >= q[i].start /\ s < q[i].end
         THEN IF e <= q[i].end THEN TRUE ELSE ContainsFromLe(q, i + 1, q[i].end, e)
         ELSE ContainsFromLe(q, i + 1, s, e)

\* contains_range(start, end): walk in order, extending the covered prefix
\* across VMEs that begin where the previous one ended.
RECURSIVE ContainsFrom(_, _, _, _)
ContainsFrom(q, i, s, e) ==
    IF i > Len(q) THEN FALSE
    ELSE IF s >= q[i].start /\ s < q[i].end
         THEN IF e < q[i].end THEN TRUE ELSE ContainsFrom(q, i + 1, q[i].end, e)
         ELSE ContainsFrom(q, i + 1, s, e)
ContainsRange(q, s, e) == ContainsFrom(q, 1, s, e)

\* ELF::load: one page-aligned VME per PT_LOAD segment, in header order,
\* added without any overlap check.
RECURSIVE LoadSegments(_, _, _)
LoadSegments(q, segs, i) ==
    IF i > Len(segs) THEN q
    ELSE LoadSegments(AddVme(q, segs[i].start, segs[i].size).q, segs, i + 1)
ElfLoad(q, segs) == LoadSegments(q, segs, 1)

-----------------------------------------------------------------------------
(* ELF::valid_load and the alignment ELF::load applies, on byte addresses. *)
(* A header is [fileOk, entry, ph]: fileOk stands for the size, magic,     *)
(* class, machine, version and phoff/phnum checks, and ph is the sequence  *)
(* of program headers [type, vaddr, memsz] the loop reads.                 *)

Word == Modulus * PageBytes
Wrap(x) == x % Word                      \* uint32_t arithmetic
ByteLo == UserLo * PageBytes             \* 0x80000000
ElfLimit == (UserHi + 1) * PageBytes     \* 0xF0001000

\* Mutant: the wrap-around test of the segment's end is dropped.
SegmentAcceptedNoWrap(s) ==
    ~(s.vaddr < ByteLo \/ Wrap(s.vaddr + s.memsz) >= ElfLimit)
\* A PT_LOAD segment passes the range test of the loop.
SegmentAccepted(s) ==
    ~(\/ s.vaddr < ByteLo
      \/ Wrap(s.vaddr + s.memsz) >= ElfLimit
      \/ Wrap(s.vaddr + s.memsz - 1) < Wrap(s.vaddr - 1))

EntryIn(e, s) == e >= s.vaddr /\ e < Wrap(s.vaddr + s.memsz)

LoadHeaders(h) == SelectSeq(h.ph, LAMBDA s : s.type = 1)

\* valid_load(file) = 1: the header checks, the entry in user range, every
\* PT_LOAD segment in range, and the entry inside one of them.
ValidLoad(h) ==
    /\ h.fileOk
    /\ h.entry >= ByteLo /\ h.entry < ElfLimit
    /\ \A i \in 1..Len(LoadHeaders(h)) : SegmentAccepted(LoadHeaders(h)[i])
    /\ \E i \in 1..Len(LoadHeaders(h)) : EntryIn(h.entry, LoadHeaders(h)[i])

\* The page-aligned region load reserves for a segment, in pages.
AlignedSegment(s) ==
    LET av == (s.vaddr \div PageBytes) * PageBytes
        ae == Wrap(((Wrap(s.vaddr + s.memsz - 1) \div PageBytes) + 1) * PageBytes)
    IN [start |-> av \div PageBytes, size |-> Wrap(ae - av) \div PageBytes]

\* The regions ELF::load adds for a header, in header order.
LoadImage(h) == [i \in 1..Len(LoadHeaders(h)) |-> AlignedSegment(LoadHeaders(h)[i])]

-----------------------------------------------------------------------------
(* The PCB constructor reserves the user stack, then kernelMain loads     *)
(* /sbin/init into the same list.                                          *)
Init ==
    /\ queue = ElfLoad(<<Vme(UserHi - StackSize, StackSize)>>, InitImage)
    /\ last = [op |-> "none", addr |-> 0, size |-> 0, ret |-> 0]

\* simple_mmap(addr, size, -1, 0) on list q: every early return leaves the
\* list alone and returns 0.
SimpleMmap(q, addr, size) ==
    LET rejected == \/ size = 0
                    \/ addr # 0 /\ \/ addr < UserLo
                                   \/ Plus(addr, size) >= UserHi
                                   \/ Plus(addr, size) < addr
                    \/ addr # 0 /\ IntersectsQueue(q, addr, size)
    IN IF rejected THEN [q |-> q, ret |-> 0] ELSE AddVme(q, addr, size)

Mmap(addr, size) ==
    LET r == SimpleMmap(queue, addr, size)
    IN /\ queue' = r.q
       /\ last' = [op |-> "mmap", addr |-> addr, size |-> size, ret |-> r.ret]

\* simple_munmap(addr): the queue part of remove_from_vmequeue.
Munmap(addr) ==
    LET removed == RemoveVme(queue, addr)
        outside == addr < UserLo \/ addr >= UserHi
    IN /\ queue' = IF outside THEN queue ELSE removed.q
       /\ last' = [op |-> "munmap", addr |-> addr, size |-> 0,
                   ret |-> IF ~outside /\ removed.ret THEN 0 ELSE -1]

\* execl of a valid ELF: VMM::free releases the pages, but the PCB keeps
\* its VMEQueue, and ELF::load adds the new program's segments to it.
Exec(img) ==
    /\ Len(queue) + Len(img) <= MaxVmes
    /\ queue' = ElfLoad(queue, img)
    /\ UNCHANGED last

Next ==
    \/ \E a \in {0} \cup (UserLo..(UserHi - 1)), s \in Sizes : Mmap(a, s)
    \/ \E a \in UserLo..(UserHi - 1) : Munmap(a)

NextWithExec == Next \/ \E img \in Images : Exec(img)

Spec == Init /\ [][Next]_vars
SpecWithExec == Init /\ [][NextWithExec]_vars

-----------------------------------------------------------------------------
TypeOK ==
    /\ queue \in Seq([start : Addr, end : Addr, size : Addr])
    /\ last.op \in {"none", "mmap", "munmap"}
    /\ last.ret \in {-1, 0} \cup UserLo..(UserHi - 1)

Covered(q) == {a \in Addr : \E i \in 1..Len(q) : q[i].start <= a /\ a < q[i].end}

\* Spec section 8, invariant 1 and section 3: every VME lies in user space,
\* the list is sorted by start and no two VMEs overlap.  mmap (first-fit or
\* at a given address, after its own range checks), munmap and the ELF
\* loader all insert into or unlink from the same list.
SortedDisjoint ==
    /\ \A i \in 1..Len(queue) : UserLo <= queue[i].start /\ queue[i].start < queue[i].end
                                /\ queue[i].end <= UserHi
    /\ \A i, j \in 1..Len(queue) : i < j => queue[i].end <= queue[j].start

\* contains_range, which the page-fault handler uses to tell a lazy
\* allocation from a segmentation violation, answers exactly whether every
\* page of [s, e] lies in some VME of the list.
ContainsRangeIsCoverage ==
    \A s \in UserLo..(UserHi - 1), e \in UserLo..(UserHi - 1) :
        s <= e => (ContainsRange(queue, s, e) <=> s..e \subseteq Covered(queue))

\* The list fork gives the child (deep_copy) has the parent's regions in the
\* parent's order.
DeepCopyPreserves == DeepCopy(queue) = queue

\* mmap with addr 0 places the region at the lowest user page from which
\* size free pages fit below 0xF0000000, and fails only when none does.
FirstFitIsLowest ==
    [][ (last'.op = "mmap" /\ last'.addr = 0 /\ last'.size # 0) =>
          LET fits(a) == /\ a + last'.size <= UserHi
                         /\ a..(a + last'.size - 1) \cap Covered(queue) = {}
              cands == {a \in UserLo..(UserHi - 1) : fits(a)}
          IN IF cands = {} THEN last'.ret = 0
             ELSE last'.ret = CHOOSE a \in cands : \A b \in cands : a <= b
      ]_vars

\* mmap with a non-zero page-aligned addr succeeds, returning addr, whenever
\* [addr, addr + size) lies in user space and overlaps no VME (spec 4.3,
\* 4.8 and section 7: only an overlap makes it return 0).
MmapGrantsFreeRange ==
    [][ (last'.op = "mmap" /\ last'.addr # 0 /\ last'.size # 0
          /\ last'.addr >= UserLo /\ last'.addr + last'.size < UserHi
          /\ last'.addr..(last'.addr + last'.size - 1) \cap Covered(queue) = {})
        => last'.ret = last'.addr ]_vars

\* execl -- valid_load, then ELF::load into the list the PCB keeps -- from
\* any list mmap and munmap reach: for a program valid_load accepts, the
\* regions load reserves hold every byte of its PT_LOAD segments and its
\* entry point, so neither the copy of the segments nor the jump to the
\* entry faults.  A region that wraps past the top of the address space
\* holds nothing.
ExecMapsAcceptedImage ==
    \A h \in ElfHeaders :
        ValidLoad(h) =>
            LET segs == LoadHeaders(h)
                cov == Covered(ElfLoad(queue, LoadImage(h)))
            IN /\ \A i \in 1..Len(segs) :
                    \A b \in segs[i].vaddr..(segs[i].vaddr + segs[i].memsz - 1) :
                        b \div PageBytes \in cov
               /\ h.entry \div PageBytes \in cov
=============================================================================
