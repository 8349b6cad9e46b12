------------------------------- MODULE Kernel -------------------------------
(***************************************************************************)
(* The process side of the kernel on one CPU: PCBs and their children     *)
(* stacks (pcb.h), the event loop of kernel work items, counting           *)
(* semaphores, the bounded buffers behind pipes (bb.h) and the system      *)
(* calls of sys.cc that create, block, wake and end processes: fork, exit, *)
(* join, yield, sem, up, down, sem_close, pipe, read and write on a pipe,  *)
(* close, dup, kill and shutdown, each ending as sysHandlerWrap ends it.  *)
(*                                                                         *)
(* The user program of the process on the CPU is arbitrary: any system   *)
(* call with any argument may come next.  Memory is modelled in VmeQueue. *)
(*                                                                         *)
(* Semaphore, Future, go() and event_loop() live in files that are not in *)
(* this repository; they follow spec sections 3 and 4.7.                  *)
(***************************************************************************)
EXTENDS Integers, Sequences, SequencesExt, FiniteSets

CONSTANTS
    Procs,       \* PCBs the model may create; fork is disabled once all exist
    InitProc,    \* the PCB kernelMain builds for /sbin/init
    ExitCodes,   \* values a process passes to exit()
    NSem,        \* slots of a PCB's semaphore table (100 in pcb.h)
    SemIds,      \* semaphore objects sem() may create (model bound)
    SemInit,     \* initial counts a program passes to sem(n)
    NFd,         \* slots of a PCB's descriptor table (10 in pcb.h)
    FdArgs,      \* descriptors programs pass to read, write, close and dup
    Pipes,       \* bounded buffers pipe() may create (model bound)
    PipeCap,     \* BoundedBuffer capacity (100 in sys.cc)
    Bytes,       \* byte values written to pipes
    MaxCount,    \* model bound on a semaphore count
    MaxWrites,   \* model bound on the bytes written to one pipe
    Calls,       \* the system calls the user programs of a model make
    NULL         \* no PCB, an empty table slot, an unset future

ASSUME /\ InitProc \in Procs /\ NULL \notin Procs \cup SemIds \cup Pipes
       /\ NSem \in Nat \ {0} /\ NFd \in 3..10 /\ FdArgs \subseteq 0..(NFd - 1) /\ PipeCap \in Nat \ {0}

VARIABLES
    running,     \* the PCB in user mode on the CPU, or NULL in the event loop
    interrupts,  \* per-CPU flag the timer sets (interrupts.mine())
    workq,       \* the event loop's FIFO of work items
    alive,       \* PCBs created so far
    exitv,       \* exitv[p]: the value of p's exit_future, or NULL
    futWaiters,  \* continuations waiting on p's exit_future
    children,    \* children[p]: PCB::children[0..size), oldest first
    killed,      \* PCB::killed
    semtab,      \* semtab[p][i]: the Shared<Semaphore> in slot i, or NULL
    sems,        \* sems[s]: count and waiters of semaphore s
    fds,         \* fds[p][i]: the descriptor in slot i, or NULL
    pipes,       \* pipes[b]: the BoundedBuffer: queue, n_full, n_empty
    halted,      \* Debug::shutdown() was called
    joined,      \* joined[p]: the value p's last join returned (history)
    wlog,        \* wlog[b]: bytes handed to put, in system-call order (history)
    rlog         \* rlog[b]: bytes readers received, in order (history)

vars == <<running, interrupts, workq, alive, exitv, futWaiters, children, killed,
          semtab, sems, fds, pipes, halted, joined, wlog, rlog>>

-----------------------------------------------------------------------------
(* Work items: the closures handed to go(), to a semaphore or to a future. *)
Item(kind, p, b, v) == [k |-> kind, p |-> p, b |-> b, v |-> v]
ResumeItem(p)   == Item("resume", p, NULL, NULL)  \* switch_processes
StartItem(p)    == Item("start", p, NULL, NULL)   \* fork's child entry
DownItem(p)     == Item("down", p, NULL, NULL)    \* down()'s continuation
JoinItem(p, v)  == Item("join", p, NULL, v)       \* join()'s continuation
PutItem(p, b, v) == Item("put", p, b, v)          \* put()'s n_empty continuation
GetItem(p, b)   == Item("get", p, b, NULL)        \* get()'s n_full continuation

\* A semaphore: the work it has woken is returned for the caller to go().
NewSem(n) == [count |-> n, waiters |-> <<>>]
SemUp(sm) ==
    IF sm.waiters = <<>>
    THEN [sem |-> [sm EXCEPT !.count = @ + 1], wake |-> <<>>]
    ELSE [sem |-> [sm EXCEPT !.waiters = Tail(@)], wake |-> <<Head(sm.waiters)>>]
SemDown(sm, k) ==
    IF sm.count > 0
    THEN [sem |-> [sm EXCEPT !.count = @ - 1], wake |-> <<k>>]
    ELSE [sem |-> [sm EXCEPT !.waiters = Append(@, k)], wake |-> <<>>]

\* Descriptors: the terminal ends kernelMain installs and the two pipe ends.
TermIn  == [kind |-> "term", r |-> FALSE, w |-> FALSE, pipe |-> NULL]
TermOut == [kind |-> "term", r |-> FALSE, w |-> TRUE, pipe |-> NULL]
PipeEnd(b, rd) == [kind |-> "pipe", r |-> rd, w |-> ~rd, pipe |-> b]

SemSlots == 0..(NSem - 1)
FdSlots == 0..(NFd - 1)
FreeFds(p) == {i \in FdSlots : fds[p][i] = NULL}
Lowest(S) == CHOOSE i \in S : \A j \in S : i <= j

-----------------------------------------------------------------------------
Init ==
    /\ running = InitProc
    /\ interrupts = FALSE
    /\ workq = <<>>
    /\ alive = {InitProc}
    /\ exitv = [p \in Procs |-> NULL]
    /\ futWaiters = [p \in Procs |-> <<>>]
    /\ children = [p \in Procs |-> <<>>]
    /\ killed = [p \in Procs |-> FALSE]
    /\ semtab = [p \in Procs |-> [i \in SemSlots |-> NULL]]
    /\ sems = [s \in SemIds |-> NULL]
    \* init_file_descriptor: 0 is neither readable nor writable, 1 and 2 write
    /\ fds = [p \in Procs |-> [i \in FdSlots |->
                 IF p = InitProc /\ i = 0 THEN TermIn
                 ELSE IF p = InitProc /\ i \in {1, 2} THEN TermOut ELSE NULL]]
    /\ pipes = [b \in Pipes |-> NULL]
    /\ halted = FALSE
    /\ joined = [p \in Procs |-> NULL]
    /\ wlog = [b \in Pipes |-> <<>>]
    /\ rlog = [b \in Pipes |-> <<>>]

\* How a system call that returned ends (sysHandlerWrap/switch_interrupt):
\* if the timer fired meanwhile, switch_processes parks the caller behind
\* the work wq already holds; otherwise the caller goes back to user mode.
Return(wq) ==
    IF interrupts
    THEN /\ interrupts' = FALSE
         /\ running' = NULL
         /\ workq' = Append(wq, ResumeItem(running))
    ELSE /\ UNCHANGED <<interrupts, running>>
         /\ workq' = wq

\* How a system call that blocks ends: interrupts.mine() = false, then
\* event_loop().
Suspend(wq) ==
    /\ running' = NULL
    /\ interrupts' = FALSE
    /\ workq' = wq

\* Every system call is made by the PCB in user mode.
Caller(p) == running = p /\ ~halted

-----------------------------------------------------------------------------
(* System calls (sysHandler).                                              *)

\* exit(rc): free the user pages, set the exit future (its waiters go to
\* the event loop with the value), and enter the event loop.
Exit(p, v) ==
    /\ Caller(p)
    /\ exitv' = [exitv EXCEPT ![p] = v]
    /\ futWaiters' = [futWaiters EXCEPT ![p] = <<>>]
    /\ Suspend(workq \o [i \in 1..Len(futWaiters[p]) |->
                             JoinItem(futWaiters[p][i].p, v)])
    /\ UNCHANGED <<alive, children, killed, semtab, sems, fds, pipes, halted,
                   joined, wlog, rlog>>

\* Mutant: the child is started but never entered among the PCBs.
ForkUnregistered(p) ==
    /\ Caller(p)
    /\ \E q \in Procs \ alive :
          /\ alive' = alive
          /\ children' = [children EXCEPT ![p] = Append(@, q)]
          /\ semtab' = [semtab EXCEPT ![q] = semtab[p]]
          /\ fds' = [fds EXCEPT ![q] = fds[p]]
          /\ Return(Append(workq, StartItem(q)))
    /\ UNCHANGED <<exitv, futWaiters, killed, sems, pipes, halted, joined,
                   wlog, rlog>>

\* fork(): a fresh PCB with a copy of the parent's semaphore and descriptor
\* tables, pushed on the parent's children, started from the event loop.
Fork(p) ==
    /\ Caller(p)
    /\ \E q \in Procs \ alive :
          /\ alive' = alive \cup {q}
          /\ children' = [children EXCEPT ![p] = Append(@, q)]
          /\ semtab' = [semtab EXCEPT ![q] = semtab[p]]
          /\ fds' = [fds EXCEPT ![q] = fds[p]]
          /\ Return(Append(workq, StartItem(q)))
    /\ UNCHANGED <<exitv, futWaiters, killed, sems, pipes, halted, joined,
                   wlog, rlog>>

\* Mutant: the yielding process is put at the head of the event loop.
YieldToFront(p) ==
    /\ Caller(p)
    /\ Suspend(<<ResumeItem(p)>> \o workq)
    /\ UNCHANGED <<alive, exitv, futWaiters, children, killed, semtab, sems,
                   fds, pipes, halted, joined, wlog, rlog>>

\* yield(): switch_processes.
Yield(p) ==
    /\ Caller(p)
    /\ Suspend(Append(workq, ResumeItem(p)))
    /\ UNCHANGED <<alive, exitv, futWaiters, children, killed, semtab, sems,
                   fds, pipes, halted, joined, wlog, rlog>>

\* Mutant: join always waits on the future, even one already set.
JoinAlwaysWaits(p) ==
    /\ Caller(p)
    /\ IF children[p] = <<>>
       THEN /\ Return(workq)
            /\ UNCHANGED <<children, futWaiters, joined>>
       ELSE /\ futWaiters' = [futWaiters EXCEPT ![Last(children[p])] =
                                   Append(@, JoinItem(p, NULL))]
            /\ Suspend(workq)
            /\ UNCHANGED <<children, joined>>
    /\ UNCHANGED <<alive, exitv, killed, semtab, sems, fds, pipes, halted,
                   wlog, rlog>>

\* join(): -1 without children; otherwise wait on the exit future of the
\* most recently forked child.  A future already set runs the continuation
\* at once, which pops the child and resumes the caller.
Join(p) ==
    /\ Caller(p)
    /\ IF children[p] = <<>>
       THEN /\ Return(workq)
            /\ UNCHANGED <<children, futWaiters, joined>>
       ELSE LET c == Last(children[p]) IN
            IF exitv[c] # NULL
            THEN /\ children' = [children EXCEPT ![p] = Front(@)]
                 /\ joined' = [joined EXCEPT ![p] = exitv[c]]
                 /\ UNCHANGED <<running, interrupts, workq, futWaiters>>
            ELSE /\ futWaiters' = [futWaiters EXCEPT ![c] = Append(@, JoinItem(p, NULL))]
                 /\ Suspend(workq)
                 /\ UNCHANGED <<children, joined>>
    /\ UNCHANGED <<alive, exitv, killed, semtab, sems, fds, pipes, halted,
                   wlog, rlog>>

\* sem(n): a new semaphore in the lowest empty slot, or -1 if none.
Sem(p, n) ==
    /\ Caller(p)
    /\ IF \E i \in SemSlots : semtab[p][i] = NULL
       THEN \E s \in SemIds :
              /\ sems[s] = NULL
              /\ sems' = [sems EXCEPT ![s] = NewSem(n)]
              /\ semtab' = [semtab EXCEPT
                    ![p][Lowest({i \in SemSlots : semtab[p][i] = NULL})] = s]
       ELSE UNCHANGED <<sems, semtab>>
    /\ Return(workq)
    /\ UNCHANGED <<alive, exitv, futWaiters, children, killed, fds, pipes,
                   halted, joined, wlog, rlog>>

ValidSem(p, i) == i \in SemSlots /\ semtab[p][i] # NULL

\* up(i): -1 on a bad slot; else up on the shared semaphore.
Up(p, i) ==
    /\ Caller(p)
    /\ IF ValidSem(p, i)
       THEN LET s == semtab[p][i]
                r == SemUp(sems[s])
            IN /\ r.sem.count <= MaxCount
               /\ sems' = [sems EXCEPT ![s] = r.sem]
               /\ Return(workq \o r.wake)
       ELSE /\ Return(workq)
            /\ UNCHANGED sems
    /\ UNCHANGED <<alive, exitv, futWaiters, children, killed, semtab, fds,
                   pipes, halted, joined, wlog, rlog>>

\* down(i): -1 on a bad slot; else down with a continuation that resumes
\* the caller, and the caller leaves the CPU.
Down(p, i) ==
    /\ Caller(p)
    /\ IF ValidSem(p, i)
       THEN LET s == semtab[p][i]
                r == SemDown(sems[s], DownItem(p))
            IN /\ sems' = [sems EXCEPT ![s] = r.sem]
               /\ Suspend(workq \o r.wake)
       ELSE /\ Return(workq)
            /\ UNCHANGED sems
    /\ UNCHANGED <<alive, exitv, futWaiters, children, killed, semtab, fds,
                   pipes, halted, joined, wlog, rlog>>

\* Mutant: sem_close answers 0 but leaves the slot set.
SemCloseKeep(p, i) ==
    /\ Caller(p)
    /\ UNCHANGED semtab
    /\ Return(workq)
    /\ UNCHANGED <<alive, exitv, futWaiters, children, killed, sems, fds,
                   pipes, halted, joined, wlog, rlog>>

\* sem_close(i): empty the slot.
SemClose(p, i) ==
    /\ Caller(p)
    /\ semtab' = IF ValidSem(p, i) THEN [semtab EXCEPT ![p][i] = NULL] ELSE semtab
    /\ Return(workq)
    /\ UNCHANGED <<alive, exitv, futWaiters, children, killed, sems, fds,
                   pipes, halted, joined, wlog, rlog>>

\* pipe(): with two free slots, a new BoundedBuffer(100); the write end
\* takes the lowest free slot, the read end the next one.
Pipe(p) ==
    /\ Caller(p)
    /\ IF Cardinality(FreeFds(p)) >= 2
       THEN \E b \in Pipes :
              /\ pipes[b] = NULL
              /\ LET wfd == Lowest(FreeFds(p))
                     rfd == Lowest(FreeFds(p) \ {wfd})
                 IN /\ pipes' = [pipes EXCEPT ![b] =
                          [buf |-> <<>>, nFull |-> NewSem(0), nEmpty |-> NewSem(PipeCap)]]
                    /\ fds' = [fds EXCEPT ![p][wfd] = PipeEnd(b, FALSE),
                                          ![p][rfd] = PipeEnd(b, TRUE)]
       ELSE UNCHANGED <<pipes, fds>>
    /\ Return(workq)
    /\ UNCHANGED <<alive, exitv, futWaiters, children, killed, semtab, sems,
                   halted, joined, wlog, rlog>>

\* write(fd, buf, count) with count > 0: on a pipe, put(buf[0]) with a
\* continuation that resumes the caller with 1, and the caller leaves the
\* CPU; the terminal returns count; a bad or read-only slot returns -1.
Write(p, fd, v) ==
    /\ Caller(p)
    /\ LET d == fds[p][fd] IN
       IF d # NULL /\ d.w /\ d.kind = "pipe"
       THEN LET b == d.pipe
                r == SemDown(pipes[b].nEmpty, PutItem(p, b, v))
            IN /\ Len(wlog[b]) < MaxWrites
               /\ pipes' = [pipes EXCEPT ![b].nEmpty = r.sem]
               /\ wlog' = [wlog EXCEPT ![b] = Append(@, v)]
               /\ Suspend(workq \o r.wake)
       ELSE /\ Return(workq)
            /\ UNCHANGED <<pipes, wlog>>
    /\ UNCHANGED <<alive, exitv, futWaiters, children, killed, semtab, sems,
                   fds, halted, joined, rlog>>

\* read(fd, buf, count) with count > 0: on a pipe's read end, get() with a
\* continuation that stores the byte and resumes the caller with 1; a bad
\* or unreadable slot returns -1.
Read(p, fd) ==
    /\ Caller(p)
    /\ LET d == fds[p][fd] IN
       IF d # NULL /\ d.r /\ d.kind = "pipe"
       THEN LET b == d.pipe
                r == SemDown(pipes[b].nFull, GetItem(p, b))
            IN /\ pipes' = [pipes EXCEPT ![b].nFull = r.sem]
               /\ Suspend(workq \o r.wake)
       ELSE /\ Return(workq)
            /\ UNCHANGED pipes
    /\ UNCHANGED <<alive, exitv, futWaiters, children, killed, semtab, sems,
                   fds, halted, joined, wlog, rlog>>

\* close(fd): empty the slot.
Close(p, fd) ==
    /\ Caller(p)
    /\ fds' = [fds EXCEPT ![p][fd] = NULL]
    /\ Return(workq)
    /\ UNCHANGED <<alive, exitv, futWaiters, children, killed, semtab, sems,
                   pipes, halted, joined, wlog, rlog>>

\* dup(fd): the same descriptor in the lowest empty slot, or -1.
Dup(p, fd) ==
    /\ Caller(p)
    /\ fds' = IF fds[p][fd] # NULL /\ FreeFds(p) # {}
              THEN [fds EXCEPT ![p][Lowest(FreeFds(p))] = fds[p][fd]]
              ELSE fds
    /\ Return(workq)
    /\ UNCHANGED <<alive, exitv, futWaiters, children, killed, semtab, sems,
                   pipes, halted, joined, wlog, rlog>>

\* kill(v): flag the most recently forked child, once.
Kill(p) ==
    /\ Caller(p)
    /\ IF children[p] # <<>> /\ ~killed[Last(children[p])]
       THEN killed' = [killed EXCEPT ![Last(children[p])] = TRUE]
       ELSE UNCHANGED killed
    /\ Return(workq)
    /\ UNCHANGED <<alive, exitv, futWaiters, children, semtab, sems, fds,
                   pipes, halted, joined, wlog, rlog>>

\* shutdown(): free the caller's pages and power off.
Shutdown(p) ==
    /\ Caller(p)
    /\ halted' = TRUE
    /\ running' = NULL
    /\ UNCHANGED <<interrupts, workq, alive, exitv, futWaiters, children,
                   killed, semtab, sems, fds, pipes, joined, wlog, rlog>>

-----------------------------------------------------------------------------
(* The event loop runs the first work item whenever the CPU is not in      *)
(* user mode; each item ends by resuming its PCB in user mode.             *)
Ready == running = NULL /\ workq # <<>> /\ ~halted
Next1 == Head(workq)

\* switch_processes' item, fork's child entry and down's continuation.
RunResume ==
    /\ Ready
    /\ Next1.k \in {"resume", "start", "down"}
    /\ running' = Next1.p
    /\ workq' = Tail(workq)
    /\ UNCHANGED <<interrupts, alive, exitv, futWaiters, children, killed,
                   semtab, sems, fds, pipes, halted, joined, wlog, rlog>>

\* join's continuation: remove_child, eax = the exit value, resume.
RunJoin ==
    /\ Ready
    /\ Next1.k = "join"
    /\ children' = [children EXCEPT ![Next1.p] = Front(@)]
    /\ joined' = [joined EXCEPT ![Next1.p] = Next1.v]
    /\ running' = Next1.p
    /\ workq' = Tail(workq)
    /\ UNCHANGED <<interrupts, alive, exitv, futWaiters, killed, semtab, sems,
                   fds, pipes, halted, wlog, rlog>>

\* Mutant: put's continuation does not resume the writer.
RunPutNoResume ==
    /\ Ready
    /\ Next1.k = "put"
    /\ LET b == Next1.b
           r == SemUp(pipes[b].nFull)
       IN /\ pipes' = [pipes EXCEPT ![b].buf = Append(@, Next1.v), ![b].nFull = r.sem]
          /\ workq' = Tail(workq) \o r.wake
    /\ running' = NULL
    /\ UNCHANGED <<interrupts, alive, exitv, futWaiters, children, killed,
                   semtab, sems, fds, halted, joined, wlog, rlog>>

\* put's continuation: queue.add(v), n_full->up(), resume the writer.
RunPut ==
    /\ Ready
    /\ Next1.k = "put"
    /\ LET b == Next1.b
           r == SemUp(pipes[b].nFull)
       IN /\ pipes' = [pipes EXCEPT ![b].buf = Append(@, Next1.v), ![b].nFull = r.sem]
          /\ workq' = Tail(workq) \o r.wake
    /\ running' = Next1.p
    /\ UNCHANGED <<interrupts, alive, exitv, futWaiters, children, killed,
                   semtab, sems, fds, halted, joined, wlog, rlog>>

\* Mutant: get's continuation forgets n_empty->up().
RunGetNoUp ==
    /\ Ready
    /\ Next1.k = "get"
    /\ LET b == Next1.b
       IN /\ pipes' = [pipes EXCEPT ![b].buf = Tail(@)]
          /\ rlog' = [rlog EXCEPT ![b] = Append(@, Head(pipes[b].buf))]
          /\ workq' = Tail(workq)
    /\ running' = Next1.p
    /\ UNCHANGED <<interrupts, alive, exitv, futWaiters, children, killed,
                   semtab, sems, fds, halted, joined, wlog>>

\* Mutant: get's continuation takes the most recently queued byte.
RunGetFromBack ==
    /\ Ready
    /\ Next1.k = "get"
    /\ LET b == Next1.b
           r == SemUp(pipes[b].nEmpty)
       IN /\ pipes' = [pipes EXCEPT ![b].buf = Front(@), ![b].nEmpty = r.sem]
          /\ rlog' = [rlog EXCEPT ![b] = Append(@, Last(pipes[b].buf))]
          /\ workq' = Tail(workq) \o r.wake
    /\ running' = Next1.p
    /\ UNCHANGED <<interrupts, alive, exitv, futWaiters, children, killed,
                   semtab, sems, fds, halted, joined, wlog>>

\* get's continuation: queue.remove(), n_empty->up(), hand the byte to the
\* reader and resume it.
RunGet ==
    /\ Ready
    /\ Next1.k = "get"
    /\ LET b == Next1.b
           r == SemUp(pipes[b].nEmpty)
       IN /\ pipes' = [pipes EXCEPT ![b].buf = Tail(@), ![b].nEmpty = r.sem]
          /\ rlog' = [rlog EXCEPT ![b] = Append(@, Head(pipes[b].buf))]
          /\ workq' = Tail(workq) \o r.wake
    /\ running' = Next1.p
    /\ UNCHANGED <<interrupts, alive, exitv, futWaiters, children, killed,
                   semtab, sems, fds, halted, joined, wlog>>

\* The timer interrupt sets the CPU's flag.
Tick ==
    /\ ~interrupts /\ ~halted
    /\ interrupts' = TRUE
    /\ UNCHANGED <<running, workq, alive, exitv, futWaiters, children, killed,
                   semtab, sems, fds, pipes, halted, joined, wlog, rlog>>

\* The timer interrupting user mode preempts the process: switch_processes.
Preempt ==
    /\ running # NULL /\ ~halted
    /\ Suspend(Append(workq, ResumeItem(running)))
    /\ UNCHANGED <<alive, exitv, futWaiters, children, killed, semtab, sems,
                   fds, pipes, halted, joined, wlog, rlog>>

Dispatch == RunResume \/ RunJoin \/ RunPut \/ RunGet

SysCall(p) ==
    \/ "exit" \in Calls /\ \E v \in ExitCodes : Exit(p, v)
    \/ "fork" \in Calls /\ Fork(p)
    \/ "yield" \in Calls /\ Yield(p)
    \/ "join" \in Calls /\ Join(p)
    \/ "sem" \in Calls /\ \E n \in SemInit : Sem(p, n)
    \/ "up" \in Calls /\ \E i \in SemSlots : Up(p, i)
    \/ "down" \in Calls /\ \E i \in SemSlots : Down(p, i)
    \/ "sem_close" \in Calls /\ \E i \in SemSlots : SemClose(p, i)
    \/ "pipe" \in Calls /\ Pipe(p)
    \/ "write" \in Calls /\ \E fd \in FdArgs, v \in Bytes : Write(p, fd, v)
    \/ "read" \in Calls /\ \E fd \in FdArgs : Read(p, fd)
    \/ "close" \in Calls /\ \E fd \in FdArgs : Close(p, fd)
    \/ "dup" \in Calls /\ \E fd \in FdArgs : Dup(p, fd)
    \/ "kill" \in Calls /\ Kill(p)
    \/ "shutdown" \in Calls /\ Shutdown(p)

Next == (\E p \in Procs : SysCall(p)) \/ Dispatch \/ Tick \/ Preempt

Spec == Init /\ [][Next]_vars

\* The timer keeps firing and the event loop keeps running its queue.
FairSpec == Spec /\ WF_vars(Dispatch) /\ WF_vars(Preempt)

-----------------------------------------------------------------------------
(* Properties.                                                             *)

Semaphores == {sems[s] : s \in {x \in SemIds : sems[x] # NULL}}
                \cup {pipes[b].nFull : b \in {x \in Pipes : pipes[x] # NULL}}
                \cup {pipes[b].nEmpty : b \in {x \in Pipes : pipes[x] # NULL}}

TypeOK ==
    /\ running \in Procs \cup {NULL}
    /\ interrupts \in BOOLEAN /\ halted \in BOOLEAN
    /\ alive \subseteq Procs /\ InitProc \in alive
    /\ \A i \in 1..Len(workq) : workq[i].p \in alive
    /\ exitv \in [Procs -> ExitCodes \cup {NULL}]
    /\ children \in [Procs -> Seq(alive)]
    /\ semtab \in [Procs -> [SemSlots -> SemIds \cup {NULL}]]
    /\ \A sm \in Semaphores : sm.count \in 0..MaxCount+PipeCap
    /\ \A p \in Procs : \A i \in FdSlots : fds[p][i] \in
          {NULL, TermIn, TermOut} \cup {PipeEnd(b, rd) : b \in Pipes, rd \in BOOLEAN}

\* Where p can be resumed from: the CPU, a work item in the event loop, or
\* a continuation waiting on a semaphore (a user one or a pipe's n_full or
\* n_empty) or on the exit future of a child that has not exited yet (a
\* future already set never runs a continuation added to it later).
PosIn(seq, p) == {j \in 1..Len(seq) : seq[j].p = p}
LiveSems == {x \in SemIds : sems[x] # NULL}
LivePipes == {x \in Pipes : pipes[x] # NULL}
Places(p) ==
    (IF running = p THEN {<<"cpu">>} ELSE {})
    \cup {<<"loop", i>> : i \in PosIn(workq, p)}
    \cup UNION {{<<"sem", s, i>> : i \in PosIn(sems[s].waiters, p)} : s \in LiveSems}
    \cup UNION {{<<"full", b, i>> : i \in PosIn(pipes[b].nFull.waiters, p)} : b \in LivePipes}
    \cup UNION {{<<"empty", b, i>> : i \in PosIn(pipes[b].nEmpty.waiters, p)} : b \in LivePipes}
    \cup UNION {{<<"future", q, i>> : i \in PosIn(futWaiters[q], p)} :
                 q \in {x \in Procs : exitv[x] = NULL}}

\* Every process that has not exited can be resumed from exactly one place,
\* and an exited one from none: no wakeup is lost (the process would hang)
\* and none is doubled (one PCB would run twice, on one saved context).
\* Exercised by fork, exit, join, down/up, blocking pipe reads and writes,
\* yield and timer preemption interleaving through the event loop.
EachProcessInOnePlace ==
    ~halted => \A p \in alive :
        Cardinality(Places(p)) = IF exitv[p] = NULL THEN 1 ELSE 0

PendingOn(kind, b) == Cardinality({i \in 1..Len(workq) : workq[i].k = kind /\ workq[i].b = b})

\* A pipe's BoundedBuffer counts its slots: the free slots n_empty still
\* grants, the puts it granted that have not run yet and the bytes queued
\* make up its capacity, and the queued bytes are exactly n_full's count
\* plus the gets granted but not run.  So a get's continuation always
\* finds a byte (queue.remove() never returns nullptr in bb.h) and the
\* queue never holds more than the capacity.
PipeAccounting ==
    \A b \in Pipes : pipes[b] # NULL =>
        /\ pipes[b].nEmpty.count + PendingOn("put", b) + Len(pipes[b].buf) = PipeCap
        /\ Len(pipes[b].buf) = pipes[b].nFull.count + PendingOn("get", b)

\* The refinement mapping of a pipe onto BoundedChannel: the bytes granted
\* a slot are those already queued followed by those whose put
\* continuation waits in the event loop, in its order; the blocked
\* writers are n_empty's waiters.
PutValues(items) == [i \in 1..Len(items) |-> items[i].v]
GrantedPuts(b) == SelectSeq(workq, LAMBDA it : it.k = "put" /\ it.b = b)
ChanBuf(b) == IF pipes[b] = NULL THEN <<>> ELSE pipes[b].buf \o PutValues(GrantedPuts(b))
ChanBlocked(b) == IF pipes[b] = NULL THEN <<>> ELSE PutValues(pipes[b].nEmpty.waiters)
Chan == INSTANCE BoundedChannel WITH
            Chans <- Pipes, Cap <- PipeCap, Values <- Bytes,
            buf <- [b \in Pipes |-> ChanBuf(b)],
            blocked <- [b \in Pipes |-> ChanBlocked(b)],
            delivered <- rlog

\* Every pipe implements a bounded FIFO channel: a write takes the next
\* slot or waits behind the earlier writers, a read takes the oldest byte
\* and hands its slot to the oldest waiting writer.  The put and get
\* continuations pass through n_empty's and n_full's waiter FIFOs and the
\* event loop's FIFO, and every other step of the kernel leaves the channel
\* alone; readers therefore see the bytes in write-call order.
PipeRefinesChannel == Chan!Spec

\* A process waiting in the event loop eventually returns to user mode,
\* unless the machine is shut down.
ReadyEventuallyRuns ==
    \A p \in Procs : (\E i \in 1..Len(workq) : workq[i].p = p) ~> (running = p \/ halted)

=============================================================================
