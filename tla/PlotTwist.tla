------------------------------- MODULE PlotTwist -------------------------------
(***************************************************************************)
(* The lobby and turn machine of the PlotTwist game server                  *)
(* (src/apps/PlotTwist/src/lib.rs), called by the HTTP handlers of           *)
(* src/apps/PlotTwist/src/main.rs.                                           *)
(*                                                                         *)
(* Every handler holds the one mutex around the game for its whole critical *)
(* section and awaits nothing in it, so a handler is one action.  The       *)
(* server has no timer: a deadline that has passed takes effect when the    *)
(* next request that calls `advance', of anybody, looks at every lobby.     *)
(* Settled is what advance leaves; a handler works on that state.  Two       *)
(* requests do not call it: connect, and a create_lobby that is refused.    *)
(*                                                                         *)
(* Abstracted: a deadline is the time `left' until it passes, of which a     *)
(* countdown and a turn get Span instants; the figures of a player are      *)
(* a count; which enemy figures a plotted curve meets is any subset of      *)
(* them; chat, traces, obstacles, the round number and names are left out.  *)
(***************************************************************************)
EXTENDS Integers, Sequences, FiniteSets

CONSTANTS
    Player,           \* connected or not, one session token each
    Lobby,            \* the identifiers the server can draw for a lobby
    Color,            \* the colours a player can pick
    Teams,            \* teams are 1 .. Teams; 4 in the code
    Capacity,         \* players a lobby holds; 4 in the code
    Figures,          \* FIGURES_PER_PLAYER
    MaxMeasurements,  \* 3 in the code
    Span,             \* instants between two deadlines (COUNTDOWN_MS, TURN_MS)
    DefaultColor      \* COLORS, by team

ASSUME TeamsAssumption == Teams \in Nat \ {0}
ASSUME CapacityAssumption == Capacity \in Nat /\ Capacity >= 2 /\ Capacity <= Teams
ASSUME FiguresAssumption == Figures \in Nat \ {0}
ASSUME MeasurementsAssumption == MaxMeasurements \in Nat
ASSUME SpanAssumption == Span \in Nat \ {0}
ASSUME ColorAssumption == DefaultColor \in [1..Teams -> Color]

VARIABLES
    profiles,   \* the players who have connected
    lobbies     \* the lobby behind every identifier, NoLobby if there is none

vars == <<profiles, lobbies>>

Team == 1..Teams
NoWinner == 0
Instant == 0..Span

PlayerRecord == [id : Player, team : Team, color : Color, ready : BOOLEAN,
                 measured : 0..MaxMeasurements, alive : 0..Figures]

\* `turn' is meaningful while the phase is "playing", `winner' when "finished".
\* `left' counts down in a countdown and in a turn; a pause keeps it.
LobbyRecord ==
    [phase : {"none", "waiting", "countdown", "playing", "finished"},
     players : Seq(PlayerRecord), turn : Nat, left : Instant,
     paused : BOOLEAN, winner : Team \cup {NoWinner}]

NoLobby == [phase |-> "none", players |-> <<>>, turn |-> 1, left |-> 0,
            paused |-> FALSE, winner |-> NoWinner]

-----------------------------------------------------------------------------
(* Helpers on one lobby *)

Member(L, p) == \E i \in DOMAIN L.players : L.players[i].id = p

Position(L, p) == CHOOSE i \in DOMAIN L.players : L.players[i].id = p

Open(L) == L.phase \in {"waiting", "countdown"}

\* A deadline is set and time runs, the deadline has passed.
Running(L) == L.phase = "countdown" \/ (L.phase = "playing" /\ ~L.paused)

Due(L) == Running(L) /\ L.left = 0

EveryoneReady(L) ==
    /\ Len(L.players) >= 2
    /\ \A i \in DOMAIN L.players : L.players[i].ready

\* The players with a living figure, the teams they are on.
Standing(L) == {i \in DOMAIN L.players : L.players[i].alive > 0}

TeamsStanding(L) == {L.players[i].team : i \in Standing(L)}

Least(S) == CHOOSE i \in S : \A j \in S : i <= j

\* The first standing player met when going round the table from seat `from'.
FirstStanding(L, from) ==
    LET ahead == {i \in Standing(L) : i >= from}
    IN  IF ahead # {} THEN Least(ahead) ELSE Least(Standing(L))

Without(s, i) == [j \in 1..(Len(s) - 1) |-> IF j < i THEN s[j] ELSE s[j + 1]]

NewPlayer(p, team) ==
    [id |-> p, team |-> team, color |-> DefaultColor[team], ready |-> FALSE,
     measured |-> 0, alive |-> Figures]

Unready(ps) == [i \in DOMAIN ps |-> [ps[i] EXCEPT !.ready = FALSE]]

CancelReady(L) ==
    [L EXCEPT !.phase = "waiting", !.left = 0, !.players = Unready(L.players)]

\* A countdown that runs already is started anew.
UpdateCountdown_Restart(L) ==
    IF EveryoneReady(L)
    THEN [L EXCEPT !.phase = "countdown", !.left = Span]
    ELSE [L EXCEPT !.phase = "waiting", !.left = 0]

UpdateCountdown(L) ==
    IF ~EveryoneReady(L) THEN [L EXCEPT !.phase = "waiting", !.left = 0]
    ELSE IF L.phase = "countdown" THEN L
    ELSE [L EXCEPT !.phase = "countdown", !.left = Span]

\* A finished lobby drops the game, and with it what is left of the figures.
Finish(L, team) ==
    [L EXCEPT !.phase = "finished", !.winner = team, !.turn = 1,
              !.left = 0, !.paused = FALSE,
              !.players = [i \in DOMAIN L.players |->
                              [L.players[i] EXCEPT !.alive = Figures]]]

StartGame(L) ==
    [L EXCEPT !.phase = "playing", !.turn = 1, !.left = Span, !.paused = FALSE,
              !.players = [i \in DOMAIN L.players |->
                              [L.players[i] EXCEPT !.measured = 0,
                                                   !.alive = Figures]]]

LastTeamStanding(L) == CHOOSE t \in Team : TeamsStanding(L) = {t}

OneTeamStands(L) == \E t \in Team : TeamsStanding(L) = {t}

\* The seat is looked for without asking whether its figures live.
HandOver_ToTheDead(L) ==
    LET next == IF L.turn < Len(L.players) THEN L.turn + 1 ELSE 1
    IN  [L EXCEPT !.turn = next, !.left = Span, !.paused = FALSE,
                  !.players[next].measured = 0]

HandOver(L) ==
    LET next == FirstStanding(L, L.turn + 1)
    IN  [L EXCEPT !.turn = next, !.left = Span, !.paused = FALSE,
                  !.players[next].measured = 0]

AdvanceTurn(L) ==
    IF OneTeamStands(L) THEN Finish(L, LastTeamStanding(L))
    ELSE IF Standing(L) = {} THEN L
    ELSE HandOver(L)

\* Unlike AdvanceTurn this keeps a pause, with the time that was left when it
\* began, and does not clear the pins of the player it gives the turn to.
NormalizeTurn(L) ==
    IF OneTeamStands(L) THEN Finish(L, LastTeamStanding(L))
    ELSE IF Standing(L) = {} THEN Finish(L, NoWinner)
    ELSE [L EXCEPT !.turn = FirstStanding(L, L.turn),
                   !.left = IF L.paused THEN L.left ELSE Span]

\* A due turn is only looked at in a lobby that is paused.
Advance_TurnsNeverEnd(L) ==
    IF L.phase = "countdown" /\ Due(L)
    THEN IF EveryoneReady(L) THEN StartGame(L) ELSE CancelReady(L)
    ELSE IF L.phase = "playing" /\ L.paused /\ L.left = 0
    THEN AdvanceTurn(L)
    ELSE L

\* What advance does to one lobby.
Advance(L) ==
    IF ~Due(L) THEN L
    ELSE IF L.phase = "playing" THEN AdvanceTurn(L)
    ELSE IF EveryoneReady(L) THEN StartGame(L)
    ELSE CancelReady(L)

Settled == [l \in Lobby |-> Advance(lobbies[l])]

\* The check forgets the lobbies whose game is over.
InSomeLobby_OpenOnly(p) == \E l \in Lobby : Open(lobbies[l]) /\ Member(lobbies[l], p)

InSomeLobby(p) == \E l \in Lobby : Member(lobbies[l], p)

-----------------------------------------------------------------------------
(* What a request does to the settled lobby of the player *)

FreeTeam(L) ==
    LET free == {t \in Team : \A i \in DOMAIN L.players : L.players[i].team # t}
    IN  IF free # {} THEN Least(free) ELSE 1

\* The newcomer is seated without stopping the countdown of the others.
Joined_KeepCountdown(L, p) ==
    [L EXCEPT !.players = Append(L.players, NewPlayer(p, FreeTeam(L)))]

Joined(L, p) ==
    [L EXCEPT !.phase = "waiting", !.left = 0,
              !.players = Append(Unready(L.players), NewPlayer(p, FreeTeam(L)))]

TeammatesOf(L, i, team) == {j \in DOMAIN L.players : j # i /\ L.players[j].team = team}

\* The colour of the new team is not taken over.
WithTeam_KeepColor(L, i, team) == CancelReady([L EXCEPT !.players[i].team = team])

WithTeam(L, i, team) ==
    LET mates == TeammatesOf(L, i, team)
        color == IF mates # {} THEN L.players[Least(mates)].color
                 ELSE L.players[i].color
    IN  CancelReady([L EXCEPT !.players[i].team = team, !.players[i].color = color])

WithColor(L, i, color) ==
    CancelReady([L EXCEPT !.players =
        [j \in DOMAIN L.players |->
            IF L.players[j].team = L.players[i].team
            THEN [L.players[j] EXCEPT !.color = color] ELSE L.players[j]]])

\* The index is kept although the seats below it move up.
TurnAfterLeave_SameIndex(L, i) == Least({L.turn, Len(L.players) - 1})

\* The seat that has the turn once seat i is removed.
TurnAfterLeave(L, i) ==
    IF i < L.turn THEN L.turn - 1
    ELSE IF i = L.turn THEN Least({i, Len(L.players) - 1})
    ELSE L.turn

Left(L, i) ==
    LET rest == [L EXCEPT !.players = Without(L.players, i)]
    IN  IF rest.players = <<>> THEN NoLobby
        ELSE IF Open(L) THEN CancelReady(rest)
        ELSE IF L.phase = "playing"
        THEN NormalizeTurn([rest EXCEPT !.turn = TurnAfterLeave(L, i)])
        ELSE rest

MayPlay(L, i) == L.phase = "playing" /\ ~L.paused /\ L.turn = i

\* How many figures every enemy can lose to one curve.
HitsBy(L, i) ==
    {hits \in [DOMAIN L.players -> 0..Figures] :
        \A j \in DOMAIN L.players :
            /\ hits[j] <= L.players[j].alive
            /\ L.players[j].team = L.players[i].team => hits[j] = 0}

Struck(L, hits) ==
    [L EXCEPT !.players =
        [j \in DOMAIN L.players |->
            [L.players[j] EXCEPT !.alive = L.players[j].alive - hits[j]]]]

-----------------------------------------------------------------------------
(* Requests *)

Connect(p) ==
    /\ p \notin profiles
    /\ profiles' = profiles \cup {p}
    /\ UNCHANGED lobbies

\* GET lobbies, a player's own state request, chat, a refused join and every
\* refused action: advance has run, the rest of the handler changes nothing.  (A
\* refused create_lobby returns before advance: it is no step at all.)
Observe ==
    /\ lobbies' = Settled
    /\ UNCHANGED profiles

\* The identifier is drawn; a lobby that has it already is overwritten.
CreateLobby(p, l) ==
    /\ p \in profiles
    /\ ~InSomeLobby(p)
    /\ lobbies' = [Settled EXCEPT ![l] =
                      [NoLobby EXCEPT !.phase = "waiting",
                                      !.players = <<NewPlayer(p, 1)>>]]
    /\ UNCHANGED profiles

JoinLobby(p, l) ==
    /\ p \in profiles
    /\ ~InSomeLobby(p)
    /\ Len(Settled[l].players) < Capacity
    /\ Open(Settled[l])
    /\ lobbies' = [Settled EXCEPT ![l] = Joined(Settled[l], p)]
    /\ UNCHANGED profiles

\* The common part of act: the sender sits in the lobby, which becomes L.
Seated(p, l) == Member(lobbies[l], p)

Seat(p, l) == Position(Settled[l], p)

Becomes(l, L) ==
    /\ lobbies' = [Settled EXCEPT ![l] = L]
    /\ UNCHANGED profiles

SetTeam(p, l, team) ==
    /\ Seated(p, l)
    /\ Open(Settled[l])
    /\ Becomes(l, WithTeam(Settled[l], Seat(p, l), team))

SetColor(p, l, color) ==
    /\ Seated(p, l)
    /\ Open(Settled[l])
    /\ Becomes(l, WithColor(Settled[l], Seat(p, l), color))

SetReady(p, l, ready) ==
    /\ Seated(p, l)
    /\ Open(Settled[l])
    /\ Becomes(l, UpdateCountdown([Settled[l] EXCEPT !.players[Seat(p, l)].ready = ready]))

Leave(p, l) ==
    /\ Seated(p, l)
    /\ Becomes(l, Left(Settled[l], Seat(p, l)))

Pause(p, l, paused) ==
    /\ Seated(p, l)
    /\ Settled[l].phase = "playing"
    /\ Becomes(l, [Settled[l] EXCEPT !.paused = paused])

EndGame(p, l) ==
    /\ Seated(p, l)
    /\ Settled[l].phase = "playing"
    /\ Becomes(l, Finish(Settled[l], NoWinner))

\* One pin more than the limit.
Measure_OneMore(p, l) ==
    /\ Seated(p, l)
    /\ MayPlay(Settled[l], Seat(p, l))
    /\ Settled[l].players[Seat(p, l)].measured <= MaxMeasurements
    /\ Becomes(l, [Settled[l] EXCEPT !.players[Seat(p, l)].measured = @ + 1])

Measure(p, l) ==
    /\ Seated(p, l)
    /\ MayPlay(Settled[l], Seat(p, l))
    /\ Settled[l].players[Seat(p, l)].measured < MaxMeasurements
    /\ Becomes(l, [Settled[l] EXCEPT !.players[Seat(p, l)].measured = @ + 1])

\* Whose turn it is is asked of the lobby as the last request left it.
Plot_AskedBeforeAdvance(p, l) ==
    /\ Seated(p, l)
    /\ MayPlay(lobbies[l], Position(lobbies[l], p))
    /\ \E hits \in HitsBy(lobbies[l], Position(lobbies[l], p)) :
          Becomes(l, AdvanceTurn(Struck(lobbies[l], hits)))

Plot(p, l) ==
    /\ Seated(p, l)
    /\ MayPlay(Settled[l], Seat(p, l))
    /\ \E hits \in HitsBy(Settled[l], Seat(p, l)) :
          Becomes(l, AdvanceTurn(Struck(Settled[l], hits)))

\* Time goes by in a countdown or in a running turn.
Tick(l) ==
    /\ Running(lobbies[l])
    /\ lobbies[l].left > 0
    /\ lobbies' = [lobbies EXCEPT ![l].left = @ - 1]
    /\ UNCHANGED profiles

-----------------------------------------------------------------------------
Init ==
    /\ profiles = {}
    /\ lobbies = [l \in Lobby |-> NoLobby]

Request(p, l) ==
    \/ CreateLobby(p, l)
    \/ JoinLobby(p, l)
    \/ \E team \in Team : SetTeam(p, l, team)
    \/ \E color \in Color : SetColor(p, l, color)
    \/ \E ready \in BOOLEAN : SetReady(p, l, ready)
    \/ Leave(p, l)
    \/ \E paused \in BOOLEAN : Pause(p, l, paused)
    \/ EndGame(p, l)
    \/ Measure(p, l)
    \/ Plot(p, l)

Next ==
    \/ \E p \in Player : Connect(p)
    \/ \E p \in Player, l \in Lobby : Request(p, l)
    \/ Observe
    \/ \E l \in Lobby : Tick(l)

Spec == Init /\ [][Next]_vars

-----------------------------------------------------------------------------
(* What must hold *)

\* Every lobby is a well-formed Lobby, and profiles are players.
TypeOK ==
    /\ profiles \subseteq Player
    /\ lobbies \in [Lobby -> LobbyRecord]

\* A player sits on at most one seat of at most one lobby, whatever requests
\* he interleaves (ensure_not_in_lobby), and a lobby nobody sits in is gone.
OneSeat ==
    /\ \A l, m \in Lobby :
          \A i \in DOMAIN lobbies[l].players, j \in DOMAIN lobbies[m].players :
             lobbies[l].players[i].id = lobbies[m].players[j].id => l = m /\ i = j
    /\ \A l \in Lobby : lobbies[l].players = <<>> => lobbies[l] = NoLobby

\* Players of one team wear one colour, through joins, team changes, colour
\* changes and leaves (the README's "Everyone on a team shares its most
\* recently selected color").
TeamsShareColor ==
    \A l \in Lobby : \A i, j \in DOMAIN lobbies[l].players :
        lobbies[l].players[i].team = lobbies[l].players[j].team
            => lobbies[l].players[i].color = lobbies[l].players[j].color

\* The turn of a running game is a seat of the lobby whose player still has a
\* figure: lobby_view indexes the players with it, and nobody else can plot.
TurnIsPlayable ==
    \A l \in Lobby : lobbies[l].phase = "playing" => lobbies[l].turn \in Standing(lobbies[l])

\* "Unready, lobby setting changes, joins, and leaves cancel and fully reset"
\* a countdown (README): one that goes on has the same players with the same
\* settings, and a request neither prolongs nor restarts it, a second "ready" of
\* somebody who is ready already included.
CountdownUndisturbed ==
    [][\A l \in Lobby :
          lobbies[l].phase = "countdown" /\ lobbies'[l].phase = "countdown"
             => /\ lobbies'[l].players = lobbies[l].players
                /\ lobbies'[l].left <= lobbies[l].left]_vars

\* A player who is on turn loses it only to his own plot, his own leaving, the
\* deadline or the end of the game: not to another player who leaves.
TurnIsKept ==
    [][\A l \in Lobby : \A p \in Player :
          LET before == lobbies[l]
              after  == lobbies'[l]
          IN  /\ before.phase = "playing" /\ after.phase = "playing" /\ ~Due(before)
              /\ before.players[before.turn].id = p
              /\ after.players[after.turn].id # p
              => ~Member(after, p) \/ Plot(p, l)]_vars

\* The server has no timer, so the requests that call advance must settle what
\* is due in every lobby, also in those of other players: after any of them no
\* lobby is past its deadline.  What is left out is the passing of time and the
\* two requests that do not call it: a connect, and a create_lobby that is
\* refused, which changes nothing.
RequestsSettleAll ==
    [][~(\E l \in Lobby : Tick(l)) /\ ~(\E p \in Player : Connect(p))
          => \A l \in Lobby : ~Due(lobbies'[l])]_vars

\* A player who has let his deadline pass has lost the turn, even when no other
\* request has come since and his own is the one that finds the deadline passed:
\* what he plots or measures then does not count.
LateMoveIsLost ==
    [][\A l \in Lobby : \A p \in Player :
          LET L == lobbies[l]
          IN  L.phase = "playing" /\ Due(L) /\ L.players[L.turn].id = p
                 => ~Plot(p, l) /\ ~Measure(p, l)]_vars
=============================================================================
