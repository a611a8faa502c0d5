------------------------------ MODULE MCPlotTwist ------------------------------
(* PlotTwist on a small table: see README.md, section 3. *)
EXTENDS PlotTwist, TLC

CONSTANTS p1, p2, p3, l1, l2, c1, c2

\* Two colours by team, so that teams can clash as well as agree.
MCDefaultColor == [t \in 1..Teams |-> IF t = 1 THEN c1 ELSE c2]

\* Players and lobbies are interchangeable; colours, dealt by team, are not.
MCSymmetry == Permutations(Player) \cup Permutations(Lobby)
=============================================================================
