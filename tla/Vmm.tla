-------------------------------- MODULE Vmm ---------------------------------
(***************************************************************************)
(* The user address spaces of the PCBs (vmm.cc, pcb.h): the two-level page *)
(* tables, the physical frames they hold, the page-fault handler with its  *)
(* lazy allocation, segmentation violations and signal delivery, and the   *)
(* system calls that change an address space: simple_mmap, simple_munmap,  *)
(* fork (eager copy), execl, exit, simple_signal and sigreturn.            *)
(*                                                                         *)
(* Pages are numbered as in VmeQueue; a page table covers TablePages pages *)
(* (1024 in the code), so pdi = page \div TablePages and pti is the rest.  *)
(* Frames are interchangeable model values and NoFrame is an absent entry, *)
(* a PDE or PTE without its present bit.  A frame holds one bit of user    *)
(* data: 0 as allocated, 1 once written.  The user context is abstracted   *)
(* to whether the process runs its main program or its signal handler.   *)
(*                                                                         *)
(* Any live process may take the next step: which one the CPU runs is the *)
(* event loop's business (module Kernel), and the address spaces of two    *)
(* processes share nothing but the frame pool.                             *)
(***************************************************************************)
EXTENDS Integers, Sequences, SequencesExt, FiniteSets

CONSTANTS
    Modulus, UserLo, UserHi, StackSize, Sizes, InitImage, Images, MaxVmes,
    Procs,       \* PCBs the model may create
    InitProc,    \* the PCB of /sbin/init
    TablePages,  \* pages one page table maps (1024 in the code)
    Frames,      \* physical frames (model bound: an allocation needs a free one)
    NoFrame,     \* an absent PDE or PTE
    Sentinel,    \* the page of the fake return address 0x2000
    BadPages,    \* pages below user space a program may touch (666, 0x100000)
    MmapAddrs,   \* hint addresses given to simple_mmap (0: first fit)
    Calls        \* the system calls the user programs of a model make

VQ == INSTANCE VmeQueue WITH queue <- <<>>, last <- [op |-> "none"],
                              PageBytes <- 1, ElfHeaders <- {}

ASSUME /\ UserLo % TablePages = 0 /\ UserHi % TablePages = 0
       /\ Sentinel < UserLo /\ \A b \in BadPages : b < UserLo

VARIABLES
    status,   \* "unused" before fork creates the PCB, "live", or "exited"
    vmes,     \* vmes[p]: the PCB's VMEQueue
    pd,       \* pd[p]: the frame of the PCB's page directory
    pdes,     \* pdes[p][pdi]: frame of the page table, or 0
    ptes,     \* ptes[p][page]: frame of the data page, or 0
    free,     \* frames PhysMem has not handed out
    mem,      \* mem[f]: the data bit in frame f
    seen,     \* seen[p][page]: what p last wrote to page since it was mapped (history)
    handler,  \* handler_eip # 0
    inh,      \* in_handler
    ctx,      \* the user context: "main" or "handler" code
    saved     \* handler_user_context

vars == <<status, vmes, pd, pdes, ptes, free, mem, seen, handler, inh, ctx, saved>>

UserPages == UserLo..(UserHi - 1)
Tables == (UserLo \div TablePages)..((UserHi \div TablePages) - 1)
TableOf(a) == a \div TablePages
Live == {p \in Procs : status[p] = "live"}
Mapped(p) == {a \in UserPages : ptes[p][a] # NoFrame}

\* PhysMem::alloc_frame (not in this repository): spec 4.1 lets it return
\* any free frame.  Picks(k, fr): the ways k successive allocations can
\* draw from the free frames fr.
RECURSIVE Picks(_, _)
Picks(k, fr) == IF k = 0 THEN {<<>>}
                ELSE UNION {{<<f>> \o r : r \in Picks(k - 1, fr \ {f})} : f \in fr}

\* Fresh page tables for the tables tabs and zeroed data frames for the
\* pages pgs, drawn in that order as the sequence of frames g.
Populate(g, tabs, pgs) ==
    LET nT == Cardinality(tabs)
    IN [pdes |-> [t \in Tables |->
                    IF t \in tabs THEN g[Cardinality({u \in tabs : u <= t})] ELSE NoFrame],
        ptes |-> [a \in UserPages |->
                    IF a \in pgs THEN g[nT + Cardinality({b \in pgs : b <= a})] ELSE NoFrame]]
Need(tabs, pgs) == Cardinality(tabs) + Cardinality(pgs)

SegPages(img) == UNION {{a \in UserPages : img[i].start <= a /\ a < img[i].start + img[i].size} :
                        i \in 1..Len(img)}
TablesOf(pgs) == {TableOf(a) : a \in pgs}

\* Data of frames and pages nobody can read is kept at 0: a free frame is
\* zeroed when handed out (spec 4.1), so zeroing it when it is freed is the
\* same to every reader, and an unmapped page reads 0 once faulted in.
Scrub(m, fr) == [f \in Frames |-> IF f \in fr THEN 0 ELSE m[f]]
SeenAfter(p, newPtes) == [seen EXCEPT ![p] = [a \in UserPages |->
                              IF newPtes[a] = NoFrame THEN 0 ELSE seen[p][a]]]

NoPdes == [t \in Tables |-> NoFrame]
NoPtes == [a \in UserPages |-> NoFrame]
-----------------------------------------------------------------------------
(* Freeing user pages.                                                     *)

\* remove_from_vmequeue's walk over [s, e): in each table from s's to e's,
\* clear and free the present PTEs of the pages in range; free the table
\* itself only when the range covers it from pti 0 to 1024.
Lo(t, s) == IF t = TableOf(s) THEN s ELSE t * TablePages
Hi(t, e) == IF t = TableOf(e) THEN e ELSE (t + 1) * TablePages
\* The tables the walk visits: pdi from s's to e's, present PDEs only.
Walked(p, s, e) == {t \in Tables : TableOf(s) <= t /\ t <= TableOf(e) /\ pdes[p][t] # NoFrame}
\* The present PTEs it clears: pti from start to end in each visited table.
ClearedAny(p, s, e) ==
    {a \in UserPages : TableOf(a) \in Walked(p, s, e) /\ Lo(TableOf(a), s) <= a /\ a < Hi(TableOf(a), e)}
ClearedShort(p, s, e) ==
    {a \in UserPages : /\ TableOf(a) \in Walked(p, s, e)
                       /\ Lo(TableOf(a), s) <= a /\ a < Hi(TableOf(a), e) - 1
                       /\ ptes[p][a] # NoFrame}
Cleared(p, s, e) ==
    {a \in UserPages : /\ TableOf(a) \in Walked(p, s, e)
                       /\ Lo(TableOf(a), s) <= a /\ a < Hi(TableOf(a), e)
                       /\ ptes[p][a] # NoFrame}
\* The tables it frees: start == 0 && end == 1024.
Whole(p, s, e) ==
    {t \in Walked(p, s, e) : Lo(t, s) = t * TablePages /\ Hi(t, e) = (t + 1) * TablePages}
FreeRangeKeepPde(p, s, e) ==
    [pdes |-> pdes[p],
     ptes |-> [a \in UserPages |-> IF a \in Cleared(p, s, e) THEN NoFrame ELSE ptes[p][a]],
     free |-> free \cup {ptes[p][a] : a \in Cleared(p, s, e)} \cup {pdes[p][t] : t \in Whole(p, s, e)}]
FreeRangeKeepPte(p, s, e) ==
    [pdes |-> [t \in Tables |-> IF t \in Whole(p, s, e) THEN NoFrame ELSE pdes[p][t]],
     ptes |-> ptes[p],
     free |-> free \cup {ptes[p][a] : a \in Cleared(p, s, e)} \cup {pdes[p][t] : t \in Whole(p, s, e)}]
FreeRange(p, s, e) ==
    [pdes |-> [t \in Tables |-> IF t \in Whole(p, s, e) THEN NoFrame ELSE pdes[p][t]],
     ptes |-> [a \in UserPages |-> IF a \in Cleared(p, s, e) THEN NoFrame ELSE ptes[p][a]],
     free |-> free \cup {ptes[p][a] : a \in Cleared(p, s, e)} \cup {pdes[p][t] : t \in Whole(p, s, e)}]

\* VMM::free: every present data frame and page table of user space.
VmmFreeDataOnly(p) == free \cup {ptes[p][a] : a \in Mapped(p)}
VmmFree(p) ==
    free \cup {ptes[p][a] : a \in Mapped(p)}
         \cup {pdes[p][t] : t \in {u \in Tables : pdes[p][u] # NoFrame}}

-----------------------------------------------------------------------------
\* The boot page directory, the PCB's stack VME, and ELF::load of /sbin/init,
\* whose read_all of each segment faults every segment page in.
Init ==
    LET pgs == SegPages(InitImage)
    IN \E g \in Picks(1 + Need(TablesOf(pgs), pgs), Frames) :
    LET pop == Populate(Tail(g), TablesOf(pgs), pgs)
    IN /\ status = [p \in Procs |-> IF p = InitProc THEN "live" ELSE "unused"]
       /\ vmes = [p \in Procs |-> IF p = InitProc
                     THEN VQ!ElfLoad(<<VQ!Vme(UserHi - StackSize, StackSize)>>, InitImage)
                     ELSE <<>>]
       /\ pd = [p \in Procs |-> IF p = InitProc THEN g[1] ELSE NoFrame]
       /\ pdes = [p \in Procs |-> IF p = InitProc THEN pop.pdes ELSE NoPdes]
       /\ ptes = [p \in Procs |-> IF p = InitProc THEN pop.ptes ELSE NoPtes]
       /\ free = Frames \ ToSet(g)
       /\ mem = [f \in Frames |-> IF \E a \in pgs : pop.ptes[a] = f THEN 1 ELSE 0]
       /\ seen = [p \in Procs |-> [a \in UserPages |->
                     IF p = InitProc /\ a \in pgs THEN 1 ELSE 0]]
       /\ handler = [p \in Procs |-> FALSE]
       /\ inh = [p \in Procs |-> FALSE]
       /\ ctx = [p \in Procs |-> "main"]
       /\ saved = [p \in Procs |-> "main"]

\* exit(v), and the fault handler's exit(139): VMM::free, then the PCB never
\* runs again; it keeps its page directory frame.
ExitProc(p) ==
    /\ status' = [status EXCEPT ![p] = "exited"]
    /\ pdes' = [pdes EXCEPT ![p] = NoPdes]
    /\ ptes' = [ptes EXCEPT ![p] = NoPtes]
    /\ free' = VmmFree(p)
    /\ mem' = Scrub(mem, free')
    /\ seen' = SeenAfter(p, NoPtes)
    /\ UNCHANGED <<vmes, pd, handler, inh, ctx, saved>>

-----------------------------------------------------------------------------
(* User accesses and the page-fault handler (vmm_pageFault).               *)

\* A store to a mapped user page.
Write(p, a) ==
    /\ p \in Live /\ a \in Mapped(p)
    /\ mem' = [mem EXCEPT ![ptes[p][a]] = 1]
    /\ seen' = [seen EXCEPT ![p][a] = 1]
    /\ UNCHANGED <<status, vmes, pd, pdes, ptes, free, handler, inh, ctx, saved>>

Faults(p, a) == p \in Live /\ (a \in UserPages => ptes[p][a] = NoFrame)

\* Fault at 0x2000 in a handler: the handler returned; implicit sigreturn.
ImplicitSigreturn(p, a) ==
    /\ Faults(p, a) /\ inh[p] /\ a = Sentinel
    /\ inh' = [inh EXCEPT ![p] = FALSE]
    /\ ctx' = [ctx EXCEPT ![p] = saved[p]]
    /\ UNCHANGED <<status, vmes, pd, pdes, ptes, free, mem, seen, handler, saved>>

Segv(p, a) == Faults(p, a) /\ ~(inh[p] /\ a = Sentinel) /\ ~VQ!ContainsRange(vmes[p], a, a)

\* A fault outside every VME with no handler, or inside the handler: 139.
SegvExit(p, a) ==
    /\ Segv(p, a) /\ (~handler[p] \/ inh[p])
    /\ ExitProc(p)

\* Otherwise the handler runs on the faulting context.
SegvSignal(p, a) ==
    /\ Segv(p, a) /\ handler[p] /\ ~inh[p]
    /\ saved' = [saved EXCEPT ![p] = ctx[p]]
    /\ inh' = [inh EXCEPT ![p] = TRUE]
    /\ ctx' = [ctx EXCEPT ![p] = "handler"]
    /\ UNCHANGED <<status, vmes, pd, pdes, ptes, free, mem, seen, handler>>

\* A fault inside a VME: a page table if the PDE is absent, then a data frame.
LazyAlloc(p, a) ==
    /\ Faults(p, a) /\ ~(inh[p] /\ a = Sentinel) /\ VQ!ContainsRange(vmes[p], a, a)
    /\ LET t == TableOf(a)
           tabs == IF pdes[p][t] = NoFrame THEN {t} ELSE {}
       IN \E g \in Picks(Need(tabs, {a}), free) :
          LET pop == Populate(g, tabs, {a}) IN
          /\ pdes' = [pdes EXCEPT ![p][t] = IF t \in tabs THEN pop.pdes[t] ELSE @]
          /\ ptes' = [ptes EXCEPT ![p][a] = pop.ptes[a]]
          /\ free' = free \ ToSet(g)
          /\ mem' = [mem EXCEPT ![pop.ptes[a]] = 0]
          /\ seen' = [seen EXCEPT ![p][a] = 0]
    /\ UNCHANGED <<status, vmes, pd, handler, inh, ctx, saved>>

PageFault(p, a) ==
    \/ ImplicitSigreturn(p, a)
    \/ SegvExit(p, a)
    \/ SegvSignal(p, a)
    \/ LazyAlloc(p, a)

-----------------------------------------------------------------------------
(* System calls.                                                           *)

\* simple_mmap(addr, size, -1, 0): only the VME list changes.
Mmap(p, addr, size) ==
    /\ p \in Live
    /\ vmes' = [vmes EXCEPT ![p] = VQ!SimpleMmap(@, addr, size).q]
    /\ UNCHANGED <<status, pd, pdes, ptes, free, mem, seen, handler, inh, ctx, saved>>

\* simple_munmap(addr): unlink the VME and free its pages.
Munmap(p, addr) ==
    /\ p \in Live /\ UserLo <= addr /\ addr < UserHi
    /\ LET r == VQ!RemoveVme(vmes[p], addr)
           fr == FreeRange(p, r.vme.start, r.vme.end)
       IN /\ r.ret
          /\ vmes' = [vmes EXCEPT ![p] = r.q]
          /\ pdes' = [pdes EXCEPT ![p] = fr.pdes]
          /\ ptes' = [ptes EXCEPT ![p] = fr.ptes]
          /\ free' = fr.free
          /\ mem' = Scrub(mem, fr.free)
          /\ seen' = SeenAfter(p, fr.ptes)
    /\ UNCHANGED <<status, pd, handler, inh, ctx, saved>>

\* fork's innermost loop: each fresh data frame of the child (newPtes)
\* receives the contents of the parent's frame at the same page.
ForkedMemZero(p, newPtes) ==
    [f \in Frames |-> IF \E a \in Mapped(p) : newPtes[a] = f THEN 0 ELSE mem[f]]
ForkedMem(p, newPtes) ==
    [f \in Frames |->
        IF \E a \in Mapped(p) : newPtes[a] = f
        THEN mem[ptes[p][CHOOSE a \in Mapped(p) : newPtes[a] = f]]
        ELSE mem[f]]

\* The child's VME list: a deep copy of the parent's (sys.cc 244), in
\* place of the stack-only list the PCB constructor gave it.
ForkedVmesFresh(p) == <<VQ!Vme(UserHi - StackSize, StackSize)>>
ForkedVmes(p) == VQ!DeepCopy(vmes[p])

\* fork(): a page directory, a fresh table for every present PDE and a fresh
\* frame, copied, for every present PTE; the VME list deep-copied; signal
\* state copied; the child resumes on the parent's context.
Fork(p) ==
    /\ p \in Live
    /\ \E q \in Procs :
       /\ status[q] = "unused"
       /\ LET tabs == {t \in Tables : pdes[p][t] # NoFrame}
          IN \E g \in Picks(1 + Need(tabs, Mapped(p)), free) :
          LET pop == Populate(Tail(g), tabs, Mapped(p)) IN
             /\ status' = [status EXCEPT ![q] = "live"]
             /\ pd' = [pd EXCEPT ![q] = g[1]]
             /\ pdes' = [pdes EXCEPT ![q] = pop.pdes]
             /\ ptes' = [ptes EXCEPT ![q] = pop.ptes]
             /\ free' = free \ ToSet(g)
             /\ mem' = ForkedMem(p, pop.ptes)
             /\ vmes' = [vmes EXCEPT ![q] = ForkedVmes(p)]
             /\ seen' = [seen EXCEPT ![q] = seen[p]]
             /\ handler' = [handler EXCEPT ![q] = handler[p]]
             /\ inh' = [inh EXCEPT ![q] = inh[p]]
             /\ ctx' = [ctx EXCEPT ![q] = ctx[p]]
             /\ saved' = [saved EXCEPT ![q] = saved[p]]

\* execl of a valid ELF: VMM::free, a new page directory from per_core_init
\* (the old one is dropped), ELF::load into the kept VME list with its
\* segment pages faulted in by read_all, and a jump to the new entry.
Exec(p, img) ==
    /\ p \in Live
    /\ Len(vmes[p]) + Len(img) <= MaxVmes
    /\ LET fr0 == VmmFree(p)
           pgs == SegPages(img)
       IN \E g \in Picks(1 + Need(TablesOf(pgs), pgs), fr0) :
       LET pop == Populate(Tail(g), TablesOf(pgs), pgs) IN
          /\ pd' = [pd EXCEPT ![p] = g[1]]
          /\ pdes' = [pdes EXCEPT ![p] = pop.pdes]
          /\ ptes' = [ptes EXCEPT ![p] = pop.ptes]
          /\ free' = fr0 \ ToSet(g)
          /\ mem' = [f \in Frames |-> IF \E a \in pgs : pop.ptes[a] = f THEN 1
                                     ELSE Scrub(mem, fr0)[f]]
          /\ seen' = [seen EXCEPT ![p] = [a \in UserPages |-> IF a \in pgs THEN 1 ELSE 0]]
          /\ vmes' = [vmes EXCEPT ![p] = VQ!ElfLoad(@, img)]
          /\ ctx' = [ctx EXCEPT ![p] = "main"]
    /\ UNCHANGED <<status, handler, inh, saved>>

\* exit(v).
Exit(p) == p \in Live /\ ExitProc(p)

\* simple_signal(eip).
Signal(p) ==
    /\ p \in Live
    /\ \E h \in BOOLEAN : handler' = [handler EXCEPT ![p] = h]
    /\ UNCHANGED <<status, vmes, pd, pdes, ptes, free, mem, seen, inh, ctx, saved>>

\* sigreturn(): in a handler, resume handler_user_context.
SigreturnKeepCtx(p) ==
    /\ p \in Live /\ inh[p]
    /\ inh' = [inh EXCEPT ![p] = FALSE]
    /\ UNCHANGED <<status, vmes, pd, pdes, ptes, free, mem, seen, handler, ctx, saved>>
Sigreturn(p) ==
    /\ p \in Live /\ inh[p]
    /\ inh' = [inh EXCEPT ![p] = FALSE]
    /\ ctx' = [ctx EXCEPT ![p] = saved[p]]
    /\ UNCHANGED <<status, vmes, pd, pdes, ptes, free, mem, seen, handler, saved>>

AccessPages == UserPages \cup {Sentinel} \cup BadPages

Next ==
    \E p \in Procs :
       \/ \E a \in UserPages : Write(p, a)
       \/ \E a \in AccessPages : PageFault(p, a)
       \/ "mmap" \in Calls /\ \E a \in MmapAddrs, s \in Sizes : Mmap(p, a, s)
       \/ "munmap" \in Calls /\ \E a \in UserPages : Munmap(p, a)
       \/ "fork" \in Calls /\ Fork(p)
       \/ "exit" \in Calls /\ Exit(p)
       \/ "signal" \in Calls /\ Signal(p)
       \/ "sigreturn" \in Calls /\ Sigreturn(p)
       \/ "execl" \in Calls /\ \E img \in Images : Exec(p, img)

Spec == Init /\ [][Next]_vars

-----------------------------------------------------------------------------
(* Properties.                                                             *)

\* Every PDE, PTE and page directory is a frame or absent, and only frames
\* are on the free list: remove_from_vmequeue and VMM::free hand back only
\* entries whose present bit is set.
TypeOK ==
    /\ status \in [Procs -> {"unused", "live", "exited"}]
    /\ pd \in [Procs -> {NoFrame} \cup Frames]
    /\ pdes \in [Procs -> [Tables -> {NoFrame} \cup Frames]]
    /\ ptes \in [Procs -> [UserPages -> {NoFrame} \cup Frames]]
    /\ free \subseteq Frames
    /\ mem \in [Frames -> {0, 1}]
    /\ inh \in [Procs -> BOOLEAN] /\ ctx \in [Procs -> {"main", "handler"}]

\* Spec section 8, invariant 2: every present user PTE lies in a VME of its
\* process, under a present PDE.  Lazy allocation, munmap's partial-table
\* walk, fork's copy and exit's VMM::free all write the page tables.
MappedInVme ==
    \A p \in Live : \A a \in Mapped(p) :
        /\ a \in VQ!Covered(vmes[p])
        /\ pdes[p][TableOf(a)] # NoFrame

\* Every frame is in exactly one place: free, a page directory, a page
\* table or a data page of one process.  A frame in two places is memory
\* shared by accident or freed while in use; in none, it is leaked.
Holders(f) ==
    {<<"pd", p>> : p \in {q \in Procs : status[q] # "unused" /\ pd[q] = f}}
    \cup UNION {{<<"pt", p, t>> : t \in {u \in Tables : pdes[p][u] = f}} : p \in Procs}
    \cup UNION {{<<"pg", p, a>> : a \in {b \in UserPages : ptes[p][b] = f}} : p \in Procs}
    \cup (IF f \in free THEN {<<"free">>} ELSE {})
FramesExclusive == \A f \in Frames : Cardinality(Holders(f)) = 1

\* No frame is held twice, or held and free at once: what execl's kept VME
\* list puts at risk, since munmap of one of two overlapping VMEs frees
\* pages the other still covers and a later fault maps them again.  Unlike
\* FramesExclusive this allows a frame that nobody holds.
NoFrameShared == \A f \in Frames : Cardinality(Holders(f)) <= 1

\* Spec section 8, invariant 5: a process reads back what it last wrote to
\* a page since it was mapped, and zero before that, whatever the other
\* processes write: fork copies eagerly and faults hand out zeroed frames.
OwnWritesVisible ==
    \A p \in Live : \A a \in Mapped(p) : mem[ptes[p][a]] = seen[p][a]

\* Spec 4.9: in_handler is set exactly while the process runs its signal
\* handler, and the saved context it returns to is the interrupted main
\* program.  Faults in and out of the handler, sigreturn (explicit and at
\* 0x2000) and fork, which copies the signal state, all change it.
HandlerContext ==
    \A p \in Live : /\ inh[p] <=> ctx[p] = "handler"
                    /\ inh[p] => saved[p] = "main"
=============================================================================
