----------------------------- MODULE FileDialog -----------------------------
(***************************************************************************)
(* Which files are offered: confirm_send of gday_chat/src/file_dialog.rs.  *)
(* The walk of get_file_metadatas_helper is recursive in the program and   *)
(* follows links; here it has an explicit stack.                           *)
(***************************************************************************)
EXTENDS Naturals, Sequences, FiniteSets, Functions

CONSTANTS
    Nodes,     \* 1..n: what the file system holds below its root, 0
    Names,     \* file names
    MaxArgs,   \* bound: paths on the command line
    MaxLinks,  \* bound: symbolic links
    Nowhere    \* where a link leads that cannot be resolved

ASSUME FileDialogAssumption ==
    /\ Nodes \subseteq Nat \ {0} /\ IsFiniteSet(Nodes)
    /\ Nowhere \notin Nodes \cup {0}
    /\ {MaxArgs, MaxLinks} \subseteq Nat

Root == 0

\* closed: a directory that cannot be read. locked: a file that cannot be
\* opened, or what is neither file nor directory.
Kinds == {"dir", "closed", "file", "locked", "link"}

VARIABLES
    parent, name, kind,  \* Nodes -> the directory it is in, its name, its kind
    target,              \* Nodes -> where a link leads in the end
    paths,               \* the paths on the command line
    dialog,              \* where confirm_send is
    stack,               \* calls of get_file_metadatas_helper still to come
    files                \* the files found

treeVars == <<parent, name, kind, target>>
dialogVars == <<treeVars, paths, dialog, stack, files>>

Links == {n \in Nodes : kind[n] = "link"}

\* A file system as it may be, and the paths the user gives.
DialogInit ==
    /\ parent \in [Nodes -> Nodes \cup {Root}]
    /\ \A n \in Nodes : parent[n] < n
    /\ kind \in [Nodes -> Kinds]
    /\ \A n \in Nodes : parent[n] # Root => kind[parent[n]] = "dir"
    /\ Cardinality(Links) <= MaxLinks
    /\ name \in [Nodes -> Names]
    /\ \A m, n \in Nodes : m # n /\ parent[m] = parent[n] => name[m] # name[n]
    /\ target \in [Nodes -> Nodes \cup {Nowhere}]
    /\ \A n \in Nodes :
        IF n \in Links THEN target[n] \notin Links ELSE target[n] = Nowhere
    /\ \E m \in 0..MaxArgs : paths \in [1..m -> Nodes]
    /\ dialog = "check" /\ stack = <<>> /\ files = <<>>

\* There is no dialog.
DialogIdle ==
    /\ parent = <<>> /\ kind = <<>> /\ name = <<>> /\ target = <<>>
    /\ paths = <<>> /\ dialog = "none" /\ stack = <<>> /\ files = <<>>

----------------------------------------------------------------------------
\* The directories a node is in, and itself.
PathTo(n) ==
    LET up[m \in Nodes \cup {Root}] ==
            IF m = Root THEN {Root} ELSE {m} \cup up[parent[m]]
    IN  up[n]

\* Path::starts_with, for paths that are canonical.
StartsWith(n, m) == m \in PathTo(n)

\* Path::canonicalize, which fails if it leads nowhere.
Canonical(n) == IF n \in Links THEN target[n] ELSE n

\* strip_prefix: the names on the way down from top.
PublicPath(top, n) ==
    LET down[m \in Nodes \cup {Root}] ==
            IF m \in {top, Root} THEN <<>>
            ELSE Append(down[parent[m]], name[m])
    IN  down[n]

\* Bug: only the first of two paths is looked for in the second.
OverlapOneWay(i, j) == StartsWith(Canonical(paths[j]), Canonical(paths[i]))

Overlap(i, j) ==
    \/ StartsWith(Canonical(paths[i]), Canonical(paths[j]))
    \/ StartsWith(Canonical(paths[j]), Canonical(paths[i]))

\* Bug: the public paths begin below the path that was given.
TopPathItself(i) == Canonical(paths[i])

\* Bug: all public paths begin where the first path does.
TopPathOfFirst(i) == parent[Canonical(paths[1])]

\* Public paths begin in the directory of the path that was given.
TopPath(i) == parent[Canonical(paths[i])]

\* A call of get_file_metadatas_helper. above: the directories whose entries
\* are being read, in the calls this one is made from.
Call(top, n, above) == [top |-> top, path |-> n, above |-> above]

\* The first loop of confirm_send: every path exists, and no two overlap.
CheckPaths ==
    /\ dialog = "check"
    /\ IF \/ \E i \in DOMAIN paths : Canonical(paths[i]) = Nowhere
          \/ \E i, j \in DOMAIN paths : i < j /\ Overlap(i, j)
       THEN dialog' = "refused" /\ UNCHANGED stack
       ELSE /\ dialog' = "walk"
            /\ stack' = [i \in DOMAIN paths |->
                            Call(TopPath(i), Canonical(paths[i]), {})]
    /\ UNCHANGED <<treeVars, paths, files>>

\* read_dir: what is in d, in any order.
Entries(d) ==
    LET inside == {n \in Nodes : parent[n] = d}
    IN  Bijection(1..Cardinality(inside), inside)

\* The directory d is read and its entries are called for first. One that is
\* being read already is read again and again, each time with one more handle
\* open: read_dir fails at the limit on open files, or the stack overflows first.
VisitDir(call, d) ==
    /\ UNCHANGED files
    /\ IF d \in call.above
       THEN dialog' \in {"refused", "overflow"} /\ UNCHANGED stack
       ELSE /\ UNCHANGED dialog
            /\ \E entries \in Entries(d) :
                stack' = [i \in DOMAIN entries |->
                            Call(call.top, entries[i], call.above \cup {d})]
                         \o Tail(stack)

\* A file is found. One that is not below top makes strip_prefix fail, and
\* its outcome is unwrapped.
VisitFile(call, n) ==
    IF StartsWith(n, call.top)
    THEN /\ files' = Append(files, [local_path |-> n,
                                    public_path |-> PublicPath(call.top, n)])
         /\ stack' = Tail(stack)
         /\ UNCHANGED dialog
    ELSE dialog' = "panic" /\ UNCHANGED <<stack, files>>

\* A file that cannot be opened is left out.
Skip == stack' = Tail(stack) /\ UNCHANGED <<dialog, files>>

\* get_file_metadatas_helper is called. It fails for what cannot be resolved as
\* for a directory that cannot be read.
Visit ==
    /\ dialog = "walk" /\ stack # <<>>
    /\ LET call == Head(stack)
           n    == Canonical(call.path)
           k    == IF n = Nowhere THEN "closed" ELSE kind[n]
       IN  \/ /\ k = "closed"
              /\ dialog' = "refused" /\ UNCHANGED <<stack, files>>
           \/ k = "dir" /\ VisitDir(call, n)
           \/ k = "file" /\ VisitFile(call, n)
           \/ k = "locked" /\ Skip
    /\ UNCHANGED <<treeVars, paths>>

\* The walk is over and the user is asked.
Prompt ==
    /\ dialog = "walk" /\ stack = <<>>
    /\ dialog' = "prompt"
    /\ UNCHANGED <<treeVars, paths, stack, files>>

\* Whatever "yes" starts with, the empty line included, is consent.
Answer(response) ==
    /\ dialog = "prompt"
    /\ dialog' = IF response \in {"", "y", "ye", "yes"} THEN "accepted"
                 ELSE "cancelled"
    /\ UNCHANGED <<treeVars, paths, stack, files>>

ConfirmSend == CheckPaths \/ Visit \/ Prompt
                \/ \E response \in {"", "y", "no"} : Answer(response)

Dialogs == {"none", "check", "walk", "prompt", "accepted", "cancelled",
            "refused", "overflow", "panic"}

DialogTypeOK ==
    /\ dialog \in Dialogs
    /\ \A i \in DOMAIN files : /\ files[i].local_path \in Nodes
                               /\ files[i].public_path \in Seq(Names)
    /\ \A i \in DOMAIN stack : /\ stack[i].path \in Nodes
                               /\ stack[i].top \in Nodes \cup {Root}
                               /\ stack[i].above \subseteq Nodes

----------------------------------------------------------------------------
\* The user was shown the list.
Listed == dialog \in {"prompt", "accepted", "cancelled"}

\* Where the paths lead.
Given == {Canonical(paths[i]) : i \in DOMAIN paths}

\* A link leads to n or to a directory that n is in.
Linked(n) == \E l \in Links : target[l] # Nowhere /\ StartsWith(n, target[l])

\* Every file that can be opened below a path that was given is in the list,
\* whatever else is there that cannot be opened. The list has nothing but
\* these files, and each once, unless a link leads there: then a file may be
\* sent twice, or one next to a given path that the user did not name.
ListedOnce ==
    /\ Listed =>
        \A n \in Nodes :
            kind[n] = "file" /\ (\E a \in Given : StartsWith(n, a)) =>
                \E i \in DOMAIN files : files[i].local_path = n
    /\ \A i \in DOMAIN files :
        LET n == files[i].local_path
        IN  (\E a \in Given : StartsWith(n, a)) \/ Linked(n)
    /\ \A i, j \in DOMAIN files :
        i # j /\ files[i].local_path = files[j].local_path =>
            Linked(files[i].local_path)

\* Two files of the list have the same public path only if two of the given
\* paths are in different directories, and have the same last name unless one
\* of the files is where a link leads. The receiver puts both at that path,
\* and keeps the last one.
PublicPathsDiffer ==
    \A i, j \in DOMAIN files :
        /\ files[i].public_path = files[j].public_path
        /\ files[i].local_path # files[j].local_path
        => \E a, b \in Given :
            /\ parent[a] # parent[b]
            /\ \/ name[a] = name[b]
               \/ Linked(files[i].local_path)
               \/ Linked(files[j].local_path)

\* The walk crashes only because of a link: one that leads to a directory, if
\* the stack overflows, and one that leads out of the directory of a given
\* path, if strip_prefix fails.
CrashNeedsLink ==
    /\ dialog = "overflow" =>
        \E l \in Links : target[l] # Nowhere /\ kind[target[l]] = "dir"
    /\ dialog = "panic" =>
        \E l \in Links, a \in Given :
            target[l] # Nowhere /\ ~StartsWith(target[l], parent[a])
=============================================================================
