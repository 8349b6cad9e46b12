------------------------------- MODULE InitT0 -------------------------------
(***************************************************************************)
(* The user test program t0.dir/sbin/init.c run on the kernel of Kernel:  *)
(* normal exit and join, a segmentation violation, nested fork with a     *)
(* grandchild that spins for ever, and a semaphore shared across fork.    *)
(*                                                                         *)
(* Each PCB runs the program from a program counter pc; every step of the *)
(* program is one system call of Kernel, made while the PCB is in user    *)
(* mode, so the event loop, the timer and preemption interleave the PCBs  *)
(* exactly as in Kernel.  A printf is a write to descriptor 1; only the   *)
(* lines that print a value are steps, since a write to the terminal is a *)
(* point where the caller may be parked and nothing else, and Preempt    *)
(* already parks a PCB at any point of its user code.  The spinning       *)
(* grandchild makes no system call at all: it only runs and is preempted. *)
(* Fork hands out the PCBs in a fixed order; which PCB a child gets does  *)
(* not change what it does.                                                *)
(***************************************************************************)
EXTENDS Kernel

VARIABLES
    pc,      \* pc[p]: the next statement of p's program
    out,     \* the values the program printed, in order
    fault,   \* the word at 0xF0000800 in the shared page
    s,       \* main's local s (the child's copy is the same value)
    ret      \* ret[p]: the return value of p's last call, if the call set it

allVars == <<vars, pc, out, fault, s, ret>>
prog == <<pc, out, fault, s, ret>>

\* The statements, in program order.
NextPid == Lowest(Procs \ alive)

Goto(p, from, to) == pc[p] = from /\ pc' = [pc EXCEPT ![p] = to]

\* printf("... %d\n", v): write(1, ...) of the formatted line.
Printf(p, from, to, label, v) ==
    /\ Goto(p, from, to)
    /\ Write(p, 1, NULL)
    /\ out' = Append(out, <<label, v>>)
    /\ UNCHANGED <<fault, s, ret>>

\* FORK(): fork(); the parent continues at to, the child at role.
Spawn(p, from, to, role) ==
    /\ pc[p] = from
    /\ Fork(p)
    /\ alive' = alive \cup {NextPid}
    /\ pc' = [pc EXCEPT ![p] = to, ![NextPid] = role]
    /\ UNCHANGED <<out, fault, s, ret>>

\* join(): -1 without children, else the child's exit value from the
\* continuation (joined).
JoinAt(p, from, to) ==
    /\ Goto(p, from, to)
    /\ Join(p)
    /\ ret' = [ret EXCEPT ![p] = IF children[p] = <<>> THEN -1 ELSE NULL]
    /\ UNCHANGED <<out, fault, s>>
JoinValue(p) == IF ret[p] = NULL THEN joined[p] ELSE ret[p]

\* A system call whose return value is known when it is made.
CallAt(p, from, to, call, v) ==
    /\ Goto(p, from, to)
    /\ call
    /\ ret' = [ret EXCEPT ![p] = v]
    /\ UNCHANGED <<out, fault, s>>

SemRet(p, i) == IF ValidSem(p, i) THEN 0 ELSE -1

\* *((int*) 666) = 13 with no handler: vmm_pageFault finds no VME for the
\* address, writes it to 0xF0000800 and calls exit(139).
Segv(p, from) ==
    /\ Goto(p, from, "done")
    /\ Exit(p, 139)
    /\ fault' = 666
    /\ UNCHANGED <<out, s, ret>>

\* unsigned int s = sem(0): the slot, or -1 as an unsigned value.
SemAt(p, from, to) ==
    /\ Goto(p, from, to)
    /\ Sem(p, 0)
    /\ s' = IF \E i \in SemSlots : semtab[p][i] = NULL
            THEN Lowest({i \in SemSlots : semtab[p][i] = NULL}) ELSE -1
    /\ UNCHANGED <<out, fault, ret>>

\* main() of init.
Main(p) ==
    \/ Spawn(p, "f1", "j1", "c1")
    \/ JoinAt(p, "j1", "pr1")
    \/ Printf(p, "pr1", "f2", "parent1", JoinValue(p))
    \/ Spawn(p, "f2", "j2", "c2")
    \/ JoinAt(p, "j2", "pr2")
    \/ Printf(p, "pr2", "va2", "parent2", JoinValue(p))
    \/ Printf(p, "va2", "f3", "va2", fault)
    \/ Spawn(p, "f3", "j3", "c3")
    \/ JoinAt(p, "j3", "pr3")
    \/ Printf(p, "pr3", "sem", "parent3", JoinValue(p))
    \/ SemAt(p, "sem", "prs")
    \/ Printf(p, "prs", "f4", "s", s)
    \/ Spawn(p, "f4", "d4", "c4")
    \/ CallAt(p, "d4", "pr4", Down(p, s), SemRet(p, s))
    \/ Printf(p, "pr4", "j4", "parent4 rc", ret[p])
    \/ JoinAt(p, "j4", "pr4j")
    \/ Printf(p, "pr4j", "dbad", "parent4 join", JoinValue(p))
    \/ CallAt(p, "dbad", "prbad", Down(p, 1000), SemRet(p, 1000))
    \/ Printf(p, "prbad", "sc1", "bad sem", ret[p])
    \/ CallAt(p, "sc1", "prc1", SemClose(p, s), SemRet(p, s))
    \/ Printf(p, "prc1", "sc2", "first sem_close", ret[p])
    \/ CallAt(p, "sc2", "prc2", SemClose(p, s), SemRet(p, s))
    \/ Printf(p, "prc2", "sd", "second sem_close", ret[p])
    \/ Goto(p, "sd", "done") /\ Shutdown(p) /\ UNCHANGED <<out, fault, s, ret>>

\* The children's branches of main.
Child(p) ==
    \/ Goto(p, "c1", "done") /\ Exit(p, 42) /\ UNCHANGED <<out, fault, s, ret>>
    \/ Segv(p, "c2")
    \/ Spawn(p, "c3", "c3x", "spin")
    \/ Goto(p, "c3x", "done") /\ Exit(p, 777) /\ UNCHANGED <<out, fault, s, ret>>
    \/ CallAt(p, "c4", "c4x", Up(p, s), SemRet(p, s))
    \/ Goto(p, "c4x", "done") /\ Exit(p, ret[p]) /\ UNCHANGED <<out, fault, s, ret>>

Step(p) == Main(p) \/ Child(p)

Init0 ==
    /\ Init
    /\ pc = [p \in Procs |-> IF p = InitProc THEN "f1" ELSE "none"]
    /\ out = <<>>
    /\ fault = 0
    /\ s = NULL
    /\ ret = [p \in Procs |-> NULL]

\* After shutdown the machine is off; the behaviour stutters.
Off == halted /\ UNCHANGED allVars

Next0 ==
    \/ \E p \in Procs : Step(p)
    \/ (Dispatch \/ Tick \/ Preempt) /\ UNCHANGED prog
    \/ Off

\* The event loop and the timer as in FairSpec; and a PCB that keeps being
\* put on the CPU gets to its next statement, since the timer's period is
\* far longer than a system call.
Spec0 == /\ Init0 /\ [][Next0]_allVars
         /\ WF_allVars(Dispatch /\ UNCHANGED prog)
         /\ WF_allVars(Preempt /\ UNCHANGED prog)
         /\ \A p \in Procs : SF_allVars(Step(p))

-----------------------------------------------------------------------------
(* Properties.                                                             *)

\* Scenarios S1 to S4 of the spec: what init prints, in order.
Expected ==
    << <<"parent1", 42>>, <<"parent2", 139>>, <<"va2", 666>>, <<"parent3", 777>>,
       <<"s", 0>>, <<"parent4 rc", 0>>, <<"parent4 join", 0>>, <<"bad sem", -1>>,
       <<"first sem_close", 0>>, <<"second sem_close", -1>> >>

\* Whatever the timer and the event loop do, every line init prints is the
\* one spec section 8 expects at that point: join returns each child's exit
\* value (42, 139 after the kernel stored the faulting address, 777 though
\* the grandchild never exits), the child's up on the inherited slot wakes
\* the parent's down, and sem_close clears the slot once.
OutputAsSpecified == IsPrefix(out, Expected)

\* init runs to its shutdown having printed every expected line, although
\* the grandchild spins for ever: timer preemption and the event loop give
\* every other PCB the CPU (scenario S3).
InitCompletes == <>(halted /\ out = Expected)
=============================================================================
