----------------------------- MODULE MCBuildCache -----------------------------
(* TLC instances of BuildCache: model values. *)
EXTENDS BuildCache, TLC

CONSTANTS c1, c2, dev, release

Symmetry == Permutations(Content) \cup Permutations(Selection)
===============================================================================
