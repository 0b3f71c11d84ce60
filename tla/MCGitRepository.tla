---------------------------- MODULE MCGitRepository ----------------------------
(***************************************************************************)
(* Small instances of GitRepository: a file whose index and worktree differ *)
(* from HEAD beside one that is new, before and after the first commit.     *)
(***************************************************************************)
EXTENDS GitRepository

CONSTANTS a, b

Files(one, two) == [p \in Paths |-> IF p = 1 THEN one ELSE two]
Committed == [born |-> TRUE, head |-> Files(a, a), index |-> Files(b, a), worktree |-> Files(b, a)]
Mixed == [born |-> TRUE, head |-> Files(a, Absent), index |-> Files(a, Absent), worktree |-> Files(b, a)]
Unborn == [born |-> FALSE, head |-> Empty, index |-> Files(a, Absent), worktree |-> Files(a, b)]
SomeBeginnings == {Committed, Mixed, Unborn}

On(kind, p, status) == [kind |-> kind, path |-> p, status |-> status]
SomeActions ==
  {On(kind, 1, "Modified") : kind \in {"StagePaths", "UnstagePaths", "StageAll", "UnstageAll", "Commit"}}
  \cup {On("StagePaths", 2, "Untracked"), On("Discard", 2, "Untracked")}
  \cup {On("Discard", 1, status) : status \in Statuses \ {"Untracked"}}
=============================================================================
