----------------------------- MODULE MCSession -----------------------------
(***************************************************************************)
(* A small instance of Session.                                            *)
(***************************************************************************)
EXTENDS Session

MCPaths == {"a", "b"}

File(p, n) == [path |-> p, size |-> n]

\* No file, two files, two of the same path, and three with an empty one.
MCOffers ==
    {None, <<>>,
     <<File("a", 1), File("b", 2)>>,
     <<File("a", 2), File("a", 1)>>,
     <<File("b", 1), File("a", 0), File("b", 2)>>}

OldFile(n) == [i \in 1..n |-> Old(i)]

\* New files, a file that is there already, and one of another length.
MCBefores ==
    {[p \in MCPaths |-> Absent],
     [p \in MCPaths |-> IF p = "a" THEN OldFile(1) ELSE Absent],
     [p \in MCPaths |-> IF p = "a" THEN OldFile(2) ELSE OldFile(1)]}
============================================================================
