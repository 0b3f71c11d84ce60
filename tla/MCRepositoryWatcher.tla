------------------------- MODULE MCRepositoryWatcher -------------------------
(***************************************************************************)
(* Small instances of RepositoryWatcher: two targets of the working tree;   *)
(* one directory under the root, or one more under that, so that one can    *)
(* appear while the one above it is being watched.                         *)
(***************************************************************************)
EXTENDS RepositoryWatcher, TLC

CONSTANTS root, a, b, both, staged

Single == a :> root
Chain == (a :> root) @@ (b :> a)
=============================================================================
