\* Three players, two lobbies, tables of three.
CONSTANTS
    p1 = p1
    p2 = p2
    p3 = p3
    l1 = l1
    l2 = l2
    c1 = c1
    c2 = c2
    Player = {p1, p2, p3}
    Lobby = {l1, l2}
    Color = {c1, c2}
    Teams = 3
    Capacity = 3
    Figures = 2
    MaxMeasurements = 1
    Span = 2
    DefaultColor <- MCDefaultColor

SYMMETRY MCSymmetry

SPECIFICATION Spec

INVARIANTS
    TypeOK
    OneSeat
    TeamsShareColor
    TurnIsPlayable

PROPERTIES
    CountdownUndisturbed
    TurnIsKept
    RequestsSettleAll
    LateMoveIsLost
