---------------------------- MODULE MCDiffClient ----------------------------
(***************************************************************************)
(* Small instances of DiffClient.  Two calls are enough for one to overtake *)
(* or replace another, two connections for anything to cross from one to   *)
(* the next.                                                               *)
(***************************************************************************)
EXTENDS DiffClient, TLC

CONSTANTS r1, r2, both, commit

Callers == Permutations({r1, r2})
=============================================================================
