--------------------------- MODULE MCSqliteService ---------------------------
(* TLC instances of SqliteService: model values and symmetry. *)
EXTENDS SqliteService

Symmetry == Permutations(Session) \cup Permutations(Batch) \cup Permutations(Write)
=============================================================================
