-------------------------------- MODULE Files ---------------------------------
(***************************************************************************)
(* The file-system system calls of sys.cc over the read-only Ext2 tree:    *)
(* find_path_node, chdir, open, close, dup, len and read of a file, with   *)
(* the descriptor table of each PCB (pcb.h) and fork's copy of it.         *)
(*                                                                         *)
(* A descriptor table slot holds a Shared<FileDescriptor>, a handle: dup   *)
(* and fork copy the handle, so the copies share one FileDescriptor and    *)
(* its atomic offset.  Handles are the numbers 1..MaxDescs; the first      *)
(* three are the terminal descriptors init_file_descriptor makes.  Each    *)
(* call is one step: the kernel runs one system call at a time on the CPU  *)
(* and none of these suspends, and any live process may be the caller.    *)
(*                                                                         *)
(* A path is a sequence of tokens, each "/" or a name: the characters of a *)
(* name are abstracted to one token, the slashes kept, since the parse     *)
(* loop's control is all about the slashes.  The pointer-range checks of   *)
(* find_path_node are on addresses, which are left out.                    *)
(***************************************************************************)
EXTENDS Naturals, Sequences, SequencesExt, FiniteSets

CONSTANTS
    Procs, InitProc,   \* PCBs, and the one kernelMain starts
    Nodes, Root,       \* the nodes of the Ext2 tree, and fs->root
    NoNode,            \* nullptr
    IsDir(_),          \* Node::is_dir
    Find(_, _),        \* Ext2::find(dir, name): the entry, or NoNode
    SizeOf(_),         \* Node::size_in_bytes
    Names,             \* path components, "." and ".." among them
    Paths,             \* the path strings programs pass
    LookupPaths,       \* the path strings find_path_node is checked on
    NFd,               \* descriptor table slots (10 in pcb.h)
    FdArgs,            \* descriptors programs pass
    Counts,            \* byte counts programs pass to read
    ExitCodes,         \* values programs pass to exit
    MaxDescs,          \* bound: FileDescriptors ever made
    MaxReads,          \* bound: file reads in the log
    NULL

Slash == "/"
FdSlots == 0..(NFd - 1)
Descs == 1..MaxDescs

VARIABLES
    status,   \* "unused", "live" or "exited"
    exitv,    \* the value a process exited with, or NULL
    cwd,      \* cwd_node
    fdt,      \* fdt[p][i]: the handle in slot i, or NULL
    nd,       \* FileDescriptors made so far
    desc,     \* desc[d]: vnode, readable, writable, and the open() it came from
    off,      \* off[d]: the shared atomic offset
    rlog      \* the file reads: [o |-> open, from |-> offset, n |-> bytes]

vars == <<status, exitv, cwd, fdt, nd, desc, off, rlog>>

Live == {p \in Procs : status[p] = "live"}
FreeFds(p) == {i \in FdSlots : fdt[p][i] = NULL}
Lowest(S) == CHOOSE i \in S : \A j \in S : i <= j
Valid(p, fd) == fd \in FdSlots /\ fdt[p][fd] # NULL

-----------------------------------------------------------------------------
(* find_path_node                                                          *)

\* The loop from the node it starts at.  Each round checks that the node
\* reached is a directory, skips the slashes, looks up the next name, and
\* ends at the end of the string or steps over one slash.
RECURSIVE Walk(_, _)
Walk(cur, s) ==
    IF s = <<>> THEN cur
    ELSE IF cur = NoNode \/ ~IsDir(cur) THEN NoNode
    ELSE LET k == SelectInSeq(s, LAMBDA x : x # Slash)
             rest == SubSeq(s, k + 1, Len(s))
         IN IF k = 0 THEN cur
            ELSE LET c == Find(cur, s[k])
                 IN IF rest = <<>> THEN c ELSE Walk(c, Tail(rest))

StartNodeRoot(p, path) == Root
\* fs->root for a path starting with '/', the cwd otherwise.
StartNode(p, path) == IF path # <<>> /\ Head(path) = Slash THEN Root ELSE cwd[p]

FindPathNode(p, path) == Walk(StartNode(p, path), path)

\* Reference resolution: the names of the path in order, each looked up in
\* the directory the one before it reached.
Anchor(p, path) == IF path = <<>> \/ Head(path) # Slash THEN cwd[p] ELSE Root
RECURSIVE Resolve(_, _)
Resolve(cur, ns) ==
    IF ns = <<>> THEN cur
    ELSE IF cur = NoNode \/ ~IsDir(cur) THEN NoNode
    ELSE Resolve(Find(cur, Head(ns)), Tail(ns))
PathNames(path) == SelectSeq(path, LAMBDA x : x # Slash)
EndsInSlash(path) == path # <<>> /\ Last(path) = Slash

-----------------------------------------------------------------------------
(* System calls                                                            *)

Init ==
    /\ status = [p \in Procs |-> IF p = InitProc THEN "live" ELSE "unused"]
    /\ exitv = [p \in Procs |-> NULL]
    /\ cwd = [p \in Procs |-> Root]
    /\ fdt = [p \in Procs |-> [i \in FdSlots |->
                 IF p = InitProc /\ i < 3 THEN i + 1 ELSE NULL]]
    /\ nd = 3
    /\ desc = [d \in Descs |->
                 [node |-> NoNode, readable |-> FALSE, writable |-> d # 1, o |-> d]]
    /\ off = [d \in Descs |-> 0]
    /\ rlog = <<>>

\* chdir(path): any node the path resolves to becomes the cwd.
Chdir(p, path) ==
    /\ p \in Live
    /\ LET n == FindPathNode(p, path)
       IN cwd' = IF n = NoNode THEN cwd ELSE [cwd EXCEPT ![p] = n]
    /\ UNCHANGED <<status, exitv, fdt, nd, desc, off, rlog>>

\* open(path): a new readable FileDescriptor at offset 0 in the lowest
\* empty slot; -1 for a path that resolves to nothing or a full table.
Open(p, path) ==
    /\ p \in Live
    /\ LET n == FindPathNode(p, path)
       IN IF n = NoNode \/ FreeFds(p) = {}
          THEN UNCHANGED <<fdt, nd, desc, off>>
          ELSE /\ nd < MaxDescs
               /\ nd' = nd + 1
               /\ desc' = [desc EXCEPT ![nd + 1] =
                             [node |-> n, readable |-> TRUE, writable |-> FALSE, o |-> nd + 1]]
               /\ off' = [off EXCEPT ![nd + 1] = 0]
               /\ fdt' = [fdt EXCEPT ![p][Lowest(FreeFds(p))] = nd + 1]
    /\ UNCHANGED <<status, exitv, cwd, rlog>>

\* close(fd): drop the handle.
Close(p, fd) ==
    /\ p \in Live
    /\ fdt' = IF Valid(p, fd) THEN [fdt EXCEPT ![p][fd] = NULL] ELSE fdt
    /\ UNCHANGED <<status, exitv, cwd, nd, desc, off, rlog>>

\* dup(fd): the same handle in the lowest empty slot.
Dup(p, fd) ==
    /\ p \in Live
    /\ fdt' = IF Valid(p, fd) /\ FreeFds(p) # {}
              THEN [fdt EXCEPT ![p][Lowest(FreeFds(p))] = fdt[p][fd]]
              ELSE fdt
    /\ UNCHANGED <<status, exitv, cwd, nd, desc, off, rlog>>

\* exit(v), and the page fault handler's exit(139) for a process without a
\* signal handler.  Neither releases the descriptors.
ExitWith(p, v) ==
    /\ status' = [status EXCEPT ![p] = "exited"]
    /\ exitv' = [exitv EXCEPT ![p] = v]
    /\ UNCHANGED <<cwd, fdt, nd, desc, off, rlog>>

\* len(fd): the size of a file, -1 for a bad slot or a directory.  A
\* terminal descriptor has no vnode and is no pipe, so node->is_file()
\* dereferences nullptr: the fault is at an address no VME covers.
FileLen(p, fd) ==
    /\ p \in Live
    /\ IF Valid(p, fd) /\ desc[fdt[p][fd]].node = NoNode
       THEN ExitWith(p, 139)
       ELSE UNCHANGED vars

\* The bytes a read of count bytes at offset o returns: the count, cut to
\* what is left of the file.
ReadLenUnclamped(count, size, o) == count
ReadLen(count, size, o) == IF count > size - o THEN size - o ELSE count

\* read(fd, buf, count) of a file: count cut to the rest of the file, the
\* shared offset advanced by fetch_add, the bytes read from where it was.
\* 0 for count 0; -1 for a bad slot, a descriptor not readable, or a
\* directory.
Read(p, fd, count) ==
    /\ p \in Live
    /\ IF count = 0 \/ ~Valid(p, fd) THEN UNCHANGED vars
       ELSE LET d == fdt[p][fd]
            IN IF ~desc[d].readable \/ IsDir(desc[d].node) THEN UNCHANGED vars
               ELSE LET c == ReadLen(count, SizeOf(desc[d].node), off[d])
                    IN /\ Len(rlog) < MaxReads
                       /\ off' = [off EXCEPT ![d] = off[d] + c]
                       /\ rlog' = Append(rlog, [o |-> desc[d].o, from |-> off[d], n |-> c])
                       /\ UNCHANGED <<status, exitv, cwd, fdt, nd, desc>>

\* fork(): the child gets the parent's handles, slot by slot, and its cwd.
Fork(p) ==
    /\ p \in Live
    /\ \E q \in Procs :
       /\ status[q] = "unused"
       /\ status' = [status EXCEPT ![q] = "live"]
       /\ fdt' = [fdt EXCEPT ![q] = fdt[p]]
       /\ cwd' = [cwd EXCEPT ![q] = cwd[p]]
    /\ UNCHANGED <<exitv, nd, desc, off, rlog>>

Exit(p) == p \in Live /\ \E v \in ExitCodes : ExitWith(p, v)

Next ==
    \E p \in Procs :
        \/ \E path \in Paths : Chdir(p, path) \/ Open(p, path)
        \/ \E fd \in FdArgs : Close(p, fd) \/ Dup(p, fd) \/ FileLen(p, fd)
        \/ \E fd \in FdArgs, c \in Counts : Read(p, fd, c)
        \/ Fork(p)
        \/ Exit(p)

Spec == Init /\ [][Next]_vars

-----------------------------------------------------------------------------
(* Properties                                                              *)

\* Every variable holds a value the code can store there; no offset passes
\* the end of the largest file.
TypeOK ==
    /\ status \in [Procs -> {"unused", "live", "exited"}]
    /\ cwd \in [Procs -> Nodes]
    /\ fdt \in [Procs -> [FdSlots -> Descs \cup {NULL}]]
    /\ nd \in 3..MaxDescs
    /\ off \in [Descs -> 0..Max({SizeOf(n) : n \in Nodes})]

\* Spec section 8, invariant 6, and the open/read/len round trip: the reads
\* through one open() -- by whichever process and slot holds a handle of
\* it, after dup and fork -- continue each where the last stopped, from 0,
\* never pass the file's end, and return 0 exactly at the end of the file.
ReadsTileFile ==
    \A o \in 1..nd :
        LET rs == SelectSeq(rlog, LAMBDA r : r.o = o)
            size == SizeOf(desc[o].node)
        IN \A k \in 1..Len(rs) :
              /\ rs[k].from = IF k = 1 THEN 0 ELSE rs[k - 1].from + rs[k - 1].n
              /\ rs[k].from + rs[k].n <= size
              /\ (rs[k].n = 0 <=> rs[k].from = size)

\* find_path_node against reference resolution by names: from any cwd, a
\* path it resolves names the node its names lead to, and a path that does
\* not end in '/' resolves exactly as its names do.
PathLookupAgrees ==
    \A p \in Live, path \in LookupPaths :
        LET r == FindPathNode(p, path)
            ref == Resolve(Anchor(p, path), PathNames(path))
        IN /\ r # NoNode => r = ref
           /\ ~EndsInSlash(path) => r = ref

\* Spec section 7: invalid input to a system call returns -1 with no side
\* effect; no file-system call ends its caller.
NoFileCallFaults == \A p \in Procs : exitv[p] # 139
=============================================================================
