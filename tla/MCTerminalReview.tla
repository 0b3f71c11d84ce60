--------------------------- MODULE MCTerminalReview ---------------------------
(***************************************************************************)
(* A small instance of TerminalReview.  Of the working tree: two files, the *)
(* first with an unchanged line under its hunk; the same with a line more   *)
(* above; the second file alone.  Of a commit: the first file, deleted.     *)
(***************************************************************************)
EXTENDS TerminalReview, TLC

WorkingTree == [commit |-> None, scope |-> "all"]
Commit == [commit |-> "c1", scope |-> None]

Line(kind, text) == [kind |-> kind, text |-> text]
DiffFile(path, hunk, rest) == [path |-> path, hunk |-> hunk, rest |-> rest]
Document(target, files) == [target |-> target, files |-> files]

A == DiffFile("a", <<Line("Removed", "p"), Line("Added", "q")>>, 1)
Moved == DiffFile("a", <<Line("Added", "r"), Line("Removed", "p"), Line("Added", "q")>>, 1)
B == DiffFile("b", <<Line("Context", "p"), Line("Added", "q")>>, 0)
DeletedA == DiffFile("a", <<Line("Removed", "p")>>, 0)

Empty == Document(WorkingTree, <<>>)
Both == Document(WorkingTree, <<A, B>>)
Grown == Document(WorkingTree, <<Moved, B>>)
WithoutA == Document(WorkingTree, <<B>>)
OfCommit == Document(Commit, <<DeletedA>>)

Snapshots == {Both, Grown, WithoutA, OfCommit}
OfWorkingTree == {Both, Grown, WithoutA}

X1 == Location("x", New, 1)
A2 == Location("a", New, 2)
Places == {X1, A2}
=============================================================================
