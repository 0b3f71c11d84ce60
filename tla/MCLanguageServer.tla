--------------------------- MODULE MCLanguageServer ---------------------------
(* A small instance of LanguageServer. *)
EXTENDS LanguageServer, TLC

CONSTANTS c1, c2

Callers == Permutations(Calls)
=============================================================================
