------------------------------- MODULE MCFiles --------------------------------
EXTENDS Files

CONSTANTS p1, p2, root, sbin, init

MCProcs == {p1, p2}
MCNodes == {root, sbin, init}
\* The tree of the test disks: /sbin/init, a file of 2 bytes.
MCIsDir(n) == n \in {root, sbin}
MCFind(d, name) ==
    CASE name = "." -> d
      [] name = ".." -> root
      [] d = root /\ name = "sbin" -> sbin
      [] d = sbin /\ name = "init" -> init
      [] OTHER -> NoNode
MCSizeOf(n) == IF n = init THEN 2 ELSE 0
MCNames == {"sbin", "init", ".."}
\* Paths of up to n tokens in which no two names touch.
PathsUpTo(n) == {s \in BoundedSeq(MCNames \cup {"/"}, n) :
                   \A i \in 1..(Len(s) - 1) : s[i] = "/" \/ s[i + 1] = "/"}
MCPaths == PathsUpTo(2) \cup {<<"/", "sbin", "/", "init">>, <<"sbin", "/", "init">>}
MCLookupPaths == PathsUpTo(4)
=============================================================================
