--------------------------- MODULE MCCommandLine ---------------------------
(***************************************************************************)
(* A small instance of CommandLine.                                        *)
(***************************************************************************)
EXTENDS CommandLine

T == INSTANCE TLC

\* A directory, one below it, and two more nodes anywhere: a link may lead out
\* of the directory that a given path is in.
MCNodes == 1..4

Symmetry == T!Permutations(Names)

\* Two rooms to show the code of.
MCRooms == {<<0, 31>>, <<21, 4>>}

\* Parts of up to one digit more than there are place values.
Parts == UNION {[1..n -> Letters] : n \in 0..4}

MCTyped ==
    {<<<<>>>>, <<<<1>>>>, <<<<0>>, <<1>>>>, <<<<0>>, <<1>>, <<2>>, <<3>>>>}
        \cup {<<z, <<1, 2>>, <<3>>>> : z \in Parts}
        \cup {<<<<0>>, p, <<3>>>> : p \in Parts}
        \cup {<<<<0>>, <<2, One>>, q>> : q \in Parts}
============================================================================
