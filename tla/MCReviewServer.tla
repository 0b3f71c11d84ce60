--------------------------- MODULE MCReviewServer ---------------------------
(***************************************************************************)
(* Small instances of ReviewServer.  Two connections are enough for every  *)
(* race on the one completion; one connection with every kind of command   *)
(* covers the loop's own interleavings with the watcher.                   *)
(***************************************************************************)
EXTENDS ReviewServer, TLC

CONSTANTS c1, c2, both, commit

FirstChange == {1}
Reviewers == Permutations({c1, c2})
=============================================================================
