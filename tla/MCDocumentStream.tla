-------------------------- MODULE MCDocumentStream --------------------------
(***************************************************************************)
(* A small instance of DocumentStream.  Two files of two contents come, go, *)
(* change, trade places and are listed twice; three documents let one      *)
(* leave and return.                                                       *)
(***************************************************************************)
EXTENDS DocumentStream, TLC

CONSTANTS p, q, old, new, both

F(path, content) == [path |-> path, content |-> content]
Files ==
  {<<>>} \cup {<<f>> : f \in File}
  \cup {<<f, g>> : f, g \in File}
AllDocuments == [target: Targets, files: Files]

Renamings == Permutations({p, q}) \cup Permutations({old, new})
=============================================================================
