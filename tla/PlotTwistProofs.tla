---------------------------- MODULE PlotTwistProofs ----------------------------
(***************************************************************************)
(* Proofs about PlotTwist for every set of players and lobbies, and every   *)
(* size of a table.                                                         *)
(***************************************************************************)
EXTENDS PlotTwist, FiniteSetTheorems, SequenceTheorems, WellFoundedInduction, TLAPS

Distinct(ps) == \A i, j \in DOMAIN ps : ps[i].id = ps[j].id => i = j

OneColor(ps) == \A i, j \in DOMAIN ps : ps[i].team = ps[j].team => ps[i].color = ps[j].color

Ids(L) == {L.players[i].id : i \in DOMAIN L.players}

(* What holds of one lobby by itself, whoever has the turn; a table never    *)
(* seats more players than there are teams, so that a newcomer finds a team *)
(* of his own.                                                              *)
Table(L) ==
  /\ L \in LobbyRecord
  /\ Distinct(L.players)
  /\ OneColor(L.players)
  /\ L.players = <<>> => L = NoLobby
  /\ Len(L.players) <= Capacity

LobbyOK(L) ==
  /\ Table(L)
  /\ L.phase = "playing" => L.turn \in Standing(L)

IInv ==
  /\ profiles \subseteq Player
  /\ DOMAIN lobbies = Lobby
  /\ lobbies = [l \in Lobby |-> lobbies[l]]
  /\ \A l \in Lobby : LobbyOK(lobbies[l])
  /\ \A l, m \in Lobby : l # m => Ids(lobbies[l]) \cap Ids(lobbies[m]) = {}

USE TeamsAssumption, CapacityAssumption, FiguresAssumption, MeasurementsAssumption,
    ColorAssumption, SpanAssumption

LEMMA InstantFacts == 0 \in Instant /\ Span \in Instant
BY DEF Instant

-----------------------------------------------------------------------------
(* Sequences and least elements *)

LEMMA SeqFacts ==
  ASSUME NEW S, NEW s \in Seq(S)
  PROVE  /\ Len(s) \in Nat /\ DOMAIN s = 1..Len(s) /\ s \in [DOMAIN s -> S]
         /\ \A i \in DOMAIN s : i \in Nat /\ s[i] \in S
         /\ s = <<>> <=> Len(s) = 0
BY LenProperties, EmptySeq

LEMMA MakeSeq ==
  ASSUME NEW S, NEW n \in Nat, NEW s \in [1..n -> S]
  PROVE  s \in Seq(S) /\ Len(s) = n /\ DOMAIN s = 1..n
<1>1. s \in Seq(S)
  BY SeqDef
<1>2. Len(s) \in Nat /\ DOMAIN s = 1..Len(s)
  BY <1>1, LenProperties
<1>3. DOMAIN s = 1..n
  OBVIOUS
<1> QED
  BY <1>1, <1>2, <1>3

LEMMA LeastExists ==
  ASSUME NEW S \in SUBSET Nat, S # {}
  PROVE  Least(S) \in S /\ \A j \in S : Least(S) <= j
<1> DEFINE R == OpToRel(<, Nat)
<1>1. \A i, j \in Nat : <<j, i>> \in R <=> j < i
  BY DEF OpToRel
<1>2. IsWellFoundedOn(R, Nat)
  BY NatLessThanWellFounded
<1> HIDE DEF R
<1>3. PICK i \in S : \A j \in S : ~(<<j, i>> \in R)
  BY <1>2, WFMin
<1>4. \A j \in S : i <= j
  <2> SUFFICES ASSUME NEW j \in S
               PROVE  i <= j
    OBVIOUS
  <2>1. i \in Nat /\ j \in Nat
    OBVIOUS
  <2>2. ~(j < i)
    BY <1>1, <1>3, <2>1
  <2> QED
    BY <2>1, <2>2
<1> QED
  BY <1>3, <1>4 DEF Least

(* The table with every seat filled anew, by the same players of the same   *)
(* teams in the same colours.                                               *)
LEMMA SamePlayers ==
  ASSUME NEW ps \in Seq(PlayerRecord), NEW qs \in [DOMAIN ps -> PlayerRecord],
         \A i \in DOMAIN ps : /\ qs[i].id = ps[i].id /\ qs[i].team = ps[i].team
                              /\ qs[i].color = ps[i].color
  PROVE  /\ qs \in Seq(PlayerRecord) /\ Len(qs) = Len(ps) /\ DOMAIN qs = DOMAIN ps
         /\ Distinct(ps) => Distinct(qs)
         /\ OneColor(ps) => OneColor(qs)
<1>1. Len(ps) \in Nat /\ DOMAIN ps = 1..Len(ps)
  BY SeqFacts
<1>2. qs \in Seq(PlayerRecord) /\ Len(qs) = Len(ps) /\ DOMAIN qs = DOMAIN ps
  BY <1>1, MakeSeq
<1> QED
  BY <1>2 DEF Distinct, OneColor

-----------------------------------------------------------------------------
(* What the operations make of a lobby *)

(* L has become M, with the same players of the same teams in the same       *)
(* colours.                                                                 *)
Kept(L, M) ==
  /\ M.players \in [DOMAIN L.players -> PlayerRecord]
  /\ \A i \in DOMAIN L.players :
        /\ M.players[i].id = L.players[i].id /\ M.players[i].team = L.players[i].team
        /\ M.players[i].color = L.players[i].color

LEMMA LobbyFacts ==
  ASSUME NEW L, Table(L)
  PROVE  /\ L \in LobbyRecord /\ L.turn \in Nat
         /\ L.players \in Seq(PlayerRecord)
         /\ L.players \in [DOMAIN L.players -> PlayerRecord]
         /\ Len(L.players) \in Nat /\ DOMAIN L.players = 1..Len(L.players)
         /\ \A i \in DOMAIN L.players : L.players[i] \in PlayerRecord /\ i \in Nat
BY SeqFacts DEF Table, LobbyRecord

LEMMA KeptOK ==
  ASSUME NEW L, Table(L), NEW M \in LobbyRecord, Kept(L, M), L.players # <<>>,
         M.phase = "playing" => M.turn \in Standing(M)
  PROVE  LobbyOK(M) /\ Ids(M) = Ids(L)
<1>1. L.players \in Seq(PlayerRecord) /\ Len(L.players) \in Nat
  BY LobbyFacts
<1>2. /\ M.players \in Seq(PlayerRecord) /\ Len(M.players) = Len(L.players)
      /\ DOMAIN M.players = DOMAIN L.players
      /\ Distinct(M.players) /\ OneColor(M.players)
  BY <1>1, SamePlayers DEF Kept, Table
<1>3. M.players # <<>>
  BY <1>1, <1>2, EmptySeq, SeqFacts
<1>4. Ids(M) = Ids(L)
  BY <1>2 DEF Ids, Kept
<1> QED
  BY <1>2, <1>3, <1>4 DEF LobbyOK, Table

(* A table filled anew is a sequence of players again.                      *)
LEMMA Refilled ==
  ASSUME NEW L, Table(L), NEW qs \in [DOMAIN L.players -> PlayerRecord]
  PROVE  qs \in Seq(PlayerRecord) /\ DOMAIN qs = DOMAIN L.players
BY LobbyFacts, MakeSeq

LEMMA UnreadyOK ==
  ASSUME NEW L, Table(L)
  PROVE  \A i \in DOMAIN L.players :
            /\ Unready(L.players)[i] \in PlayerRecord
            /\ Unready(L.players)[i].id = L.players[i].id
            /\ Unready(L.players)[i].team = L.players[i].team
            /\ Unready(L.players)[i].color = L.players[i].color
BY LobbyFacts DEF Unready, PlayerRecord

LEMMA CancelReadyOK ==
  ASSUME NEW L, Table(L), L.players # <<>>
  PROVE  LobbyOK(CancelReady(L)) /\ Ids(CancelReady(L)) = Ids(L)
<1> DEFINE M == CancelReady(L)
           unready == Unready(L.players)
<1>1. /\ unready \in [DOMAIN L.players -> PlayerRecord]
      /\ \A i \in DOMAIN L.players :
            /\ unready[i].id = L.players[i].id /\ unready[i].team = L.players[i].team
            /\ unready[i].color = L.players[i].color
  BY LobbyFacts DEF Unready, PlayerRecord
<1> HIDE DEF unready
<1>2. M \in LobbyRecord /\ M.players = unready /\ M.phase = "waiting"
  BY InstantFacts, <1>1, LobbyFacts, Refilled DEF CancelReady, LobbyRecord, unready
<1> HIDE DEF M
<1>3. Kept(L, M)
  BY <1>1, <1>2 DEF Kept
<1> QED
  BY <1>2, <1>3, KeptOK DEF M

LEMMA UpdateCountdownOK ==
  ASSUME NEW L, Table(L), L.players # <<>>
  PROVE  LobbyOK(UpdateCountdown(L)) /\ Ids(UpdateCountdown(L)) = Ids(L)
<1> DEFINE M == UpdateCountdown(L)
<1>1. \/ M = [L EXCEPT !.phase = "countdown", !.left = Span]
      \/ M = L /\ L.phase = "countdown"
      \/ M = [L EXCEPT !.phase = "waiting", !.left = 0]
  BY DEF UpdateCountdown
<1>2. L \in LobbyRecord
  BY LobbyFacts
<1> HIDE DEF M
<1>3. CASE M = [L EXCEPT !.phase = "countdown", !.left = Span]
  <2>1. M \in LobbyRecord /\ M.players = L.players /\ M.phase # "playing"
    BY InstantFacts, <1>2, <1>3 DEF LobbyRecord
  <2> QED
    BY <2>1, LobbyFacts, KeptOK DEF Kept, M
<1>4. CASE M = [L EXCEPT !.phase = "waiting", !.left = 0]
  <2>1. M \in LobbyRecord
    BY InstantFacts, <1>2, <1>4 DEF LobbyRecord
  <2>2. M.players = L.players /\ M.phase # "playing"
    BY <1>2, <1>4 DEF LobbyRecord
  <2> QED
    BY <2>1, <2>2, LobbyFacts, KeptOK DEF Kept, M
<1>5. CASE M = L /\ L.phase = "countdown"
  BY <1>2, <1>5, LobbyFacts, KeptOK DEF Kept, M
<1> QED
  BY <1>1, <1>3, <1>4, <1>5 DEF M

LEMMA FinishOK ==
  ASSUME NEW L, Table(L), L.players # <<>>, NEW team \in Team \cup {NoWinner}
  PROVE  LobbyOK(Finish(L, team)) /\ Ids(Finish(L, team)) = Ids(L)
<1> DEFINE M == Finish(L, team)
           revived == [i \in DOMAIN L.players |-> [L.players[i] EXCEPT !.alive = Figures]]
<1>1. /\ revived \in [DOMAIN L.players -> PlayerRecord]
      /\ \A i \in DOMAIN L.players :
            /\ revived[i].id = L.players[i].id /\ revived[i].team = L.players[i].team
            /\ revived[i].color = L.players[i].color
  <2> SUFFICES ASSUME NEW i \in DOMAIN L.players
               PROVE  /\ revived[i] \in PlayerRecord
                      /\ revived[i].id = L.players[i].id
                      /\ revived[i].team = L.players[i].team
                      /\ revived[i].color = L.players[i].color
    OBVIOUS
  <2>1. L.players[i] \in PlayerRecord
    BY LobbyFacts
  <2>2. revived[i] = [L.players[i] EXCEPT !.alive = Figures]
    OBVIOUS
  <2> HIDE DEF revived
  <2>3. revived[i] \in PlayerRecord
    BY <2>1, <2>2 DEF PlayerRecord
  <2>4. /\ revived[i].id = L.players[i].id /\ revived[i].team = L.players[i].team
        /\ revived[i].color = L.players[i].color
    BY <2>1, <2>2 DEF PlayerRecord
  <2> QED
    BY <2>3, <2>4
<1>2. M = [L EXCEPT !.phase = "finished", !.winner = team, !.turn = 1,
                    !.left = 0, !.paused = FALSE, !.players = revived]
  BY DEF Finish
<1> HIDE DEF M, revived
<1>3. revived \in Seq(PlayerRecord) /\ L \in LobbyRecord
  BY <1>1, LobbyFacts, Refilled
<1>4. M \in LobbyRecord
  BY InstantFacts, <1>2, <1>3 DEF LobbyRecord
<1>5. M.players = revived /\ M.phase = "finished"
  BY <1>2, <1>3 DEF LobbyRecord
<1>6. Kept(L, M)
  BY <1>1, <1>5 DEF Kept
<1> QED
  BY <1>4, <1>5, <1>6, KeptOK DEF M

LEMMA StartGameOK ==
  ASSUME NEW L, Table(L), EveryoneReady(L)
  PROVE  LobbyOK(StartGame(L)) /\ Ids(StartGame(L)) = Ids(L)
<1> DEFINE M == StartGame(L)
           fresh == [i \in DOMAIN L.players |->
                       [L.players[i] EXCEPT !.measured = 0, !.alive = Figures]]
<1>1. \A i \in DOMAIN L.players :
        /\ fresh[i] \in PlayerRecord
        /\ fresh[i].id = L.players[i].id /\ fresh[i].team = L.players[i].team
        /\ fresh[i].color = L.players[i].color /\ fresh[i].alive = Figures
  <2> SUFFICES ASSUME NEW i \in DOMAIN L.players
               PROVE  /\ fresh[i] \in PlayerRecord
                      /\ fresh[i].id = L.players[i].id /\ fresh[i].team = L.players[i].team
                      /\ fresh[i].color = L.players[i].color /\ fresh[i].alive = Figures
    OBVIOUS
  <2>1. L.players[i] \in PlayerRecord
    BY LobbyFacts
  <2>2. fresh[i] = [L.players[i] EXCEPT !.measured = 0, !.alive = Figures]
    OBVIOUS
  <2> HIDE DEF fresh
  <2>3. fresh[i] \in PlayerRecord
    <3>1. 0 \in 0..MaxMeasurements /\ Figures \in 0..Figures
      OBVIOUS
    <3> QED
      BY <2>1, <2>2, <3>1 DEF PlayerRecord
  <2>4. /\ fresh[i].id = L.players[i].id /\ fresh[i].team = L.players[i].team
        /\ fresh[i].color = L.players[i].color
    BY <2>1, <2>2 DEF PlayerRecord
  <2>5. fresh[i].alive = Figures
    BY <2>1, <2>2 DEF PlayerRecord
  <2> QED
    BY <2>3, <2>4, <2>5
<1>2. fresh \in [DOMAIN L.players -> PlayerRecord]
  BY <1>1
<1>3. M = [L EXCEPT !.phase = "playing", !.turn = 1, !.left = Span, !.paused = FALSE,
                    !.players = fresh]
  BY DEF StartGame
<1> HIDE DEF M, fresh
<1>4. /\ fresh \in Seq(PlayerRecord) /\ L \in LobbyRecord
      /\ DOMAIN fresh = DOMAIN L.players
  BY <1>2, LobbyFacts, Refilled
<1>5. M \in LobbyRecord
  BY InstantFacts, <1>3, <1>4 DEF LobbyRecord
<1>6. M.players = fresh /\ M.turn = 1
  BY <1>3, <1>4 DEF LobbyRecord
<1>7. Kept(L, M)
  BY <1>1, <1>2, <1>6 DEF Kept
<1>8. 1 \in DOMAIN L.players /\ L.players # <<>>
  BY LobbyFacts, EmptySeq DEF EveryoneReady
<1>9. M.turn \in Standing(M)
  BY <1>1, <1>4, <1>6, <1>8 DEF Standing
<1> QED
  BY <1>5, <1>7, <1>8, <1>9, KeptOK DEF M

(* Going round the table from any seat one comes to a standing player.      *)
LEMMA FirstStandingStands ==
  ASSUME NEW L, DOMAIN L.players \subseteq Nat, Standing(L) # {}, NEW from \in Nat
  PROVE  FirstStanding(L, from) \in Standing(L)
<1>1. Standing(L) \subseteq Nat
  BY DEF Standing
<1>2. CASE {i \in Standing(L) : i >= from} # {}
  BY <1>1, <1>2, LeastExists DEF FirstStanding
<1>3. CASE {i \in Standing(L) : i >= from} = {}
  BY <1>1, <1>3, LeastExists DEF FirstStanding
<1> QED
  BY <1>2, <1>3

LEMMA HandOverOK ==
  ASSUME NEW L, Table(L), Standing(L) # {}
  PROVE  /\ LobbyOK(HandOver(L)) /\ Ids(HandOver(L)) = Ids(L)
         /\ Kept(L, HandOver(L))
         /\ HandOver(L).turn = FirstStanding(L, L.turn + 1)
<1> DEFINE M == HandOver(L)
           next == FirstStanding(L, L.turn + 1)
           cleared == [L.players EXCEPT ![next] = [@ EXCEPT !.measured = 0]]
<1>1. next \in Standing(L) /\ next \in DOMAIN L.players /\ next \in Nat
  <2>1. DOMAIN L.players \subseteq Nat /\ Standing(L) # {} /\ L.turn + 1 \in Nat
    BY LobbyFacts
  <2>2. next \in Standing(L)
    BY <2>1, FirstStandingStands
  <2> QED
    BY <2>1, <2>2 DEF Standing
<1>2. M = [L EXCEPT !.turn = next, !.left = Span, !.paused = FALSE, !.players = cleared]
  <2>1. M = [L EXCEPT !.turn = next, !.left = Span, !.paused = FALSE, !.players[next].measured = 0]
    BY DEF HandOver
  <2> QED
    BY <2>1, LobbyFacts DEF LobbyRecord
<1> HIDE DEF next
<1>3. /\ cleared \in [DOMAIN L.players -> PlayerRecord]
      /\ \A i \in DOMAIN L.players :
            /\ cleared[i].id = L.players[i].id /\ cleared[i].team = L.players[i].team
            /\ cleared[i].color = L.players[i].color /\ cleared[i].alive = L.players[i].alive
  <2> SUFFICES ASSUME NEW i \in DOMAIN L.players
               PROVE  /\ cleared[i] \in PlayerRecord
                      /\ cleared[i].id = L.players[i].id
                      /\ cleared[i].team = L.players[i].team
                      /\ cleared[i].color = L.players[i].color
                      /\ cleared[i].alive = L.players[i].alive
    BY LobbyFacts
  <2>1. L.players[i] \in PlayerRecord
    BY LobbyFacts
  <2>2. cleared[i] = L.players[i] \/ cleared[i] = [L.players[i] EXCEPT !.measured = 0]
    BY LobbyFacts
  <2> HIDE DEF cleared
  <2>3. cleared[i] \in PlayerRecord
    BY <2>1, <2>2 DEF PlayerRecord
  <2>4. /\ cleared[i].id = L.players[i].id /\ cleared[i].team = L.players[i].team
        /\ cleared[i].color = L.players[i].color /\ cleared[i].alive = L.players[i].alive
    BY <2>1, <2>2 DEF PlayerRecord
  <2> QED
    BY <2>3, <2>4
<1> HIDE DEF M, cleared
<1>4. /\ cleared \in Seq(PlayerRecord) /\ L \in LobbyRecord
      /\ DOMAIN cleared = DOMAIN L.players
  BY <1>3, LobbyFacts, Refilled
<1>5. M \in LobbyRecord
  BY InstantFacts, <1>1, <1>2, <1>4 DEF LobbyRecord
<1>6. M.players = cleared /\ M.turn = next
  BY <1>2, <1>4 DEF LobbyRecord
<1>7. Kept(L, M)
  BY <1>3, <1>6 DEF Kept
<1>8. M.turn \in Standing(M)
  BY <1>1, <1>3, <1>4, <1>6 DEF Standing
<1>9. L.players # <<>>
  BY <1>1, LobbyFacts, EmptySeq
<1> QED
  BY <1>5, <1>6, <1>7, <1>8, <1>9, KeptOK DEF M, next

LEMMA AdvanceTurnOK ==
  ASSUME NEW L, LobbyOK(L), L.players # <<>>
  PROVE  LobbyOK(AdvanceTurn(L)) /\ Ids(AdvanceTurn(L)) = Ids(L)
<1>0. Table(L)
  BY DEF LobbyOK
<1>1. CASE OneTeamStands(L)
  <2>1. LastTeamStanding(L) \in Team \cup {NoWinner}
    BY <1>1 DEF OneTeamStands, LastTeamStanding
  <2> QED
    BY <1>0, <1>1, <2>1, FinishOK DEF AdvanceTurn
<1>2. CASE ~OneTeamStands(L) /\ Standing(L) = {}
  BY <1>2 DEF AdvanceTurn
<1>3. CASE ~OneTeamStands(L) /\ Standing(L) # {}
  BY <1>0, <1>3, HandOverOK DEF AdvanceTurn
<1> QED
  BY <1>1, <1>2, <1>3

(* The turn may point anywhere: this is what normalize_turn is for.         *)
LEMMA NormalizeTurnOK ==
  ASSUME NEW L, Table(L), L.players # <<>>
  PROVE  LobbyOK(NormalizeTurn(L)) /\ Ids(NormalizeTurn(L)) = Ids(L)
<1>1. CASE OneTeamStands(L)
  <2>1. LastTeamStanding(L) \in Team \cup {NoWinner}
    BY <1>1 DEF OneTeamStands, LastTeamStanding
  <2> QED
    BY <1>1, <2>1, FinishOK DEF NormalizeTurn
<1>2. CASE ~OneTeamStands(L) /\ Standing(L) = {}
  BY <1>2, FinishOK DEF NormalizeTurn
<1>3. CASE ~OneTeamStands(L) /\ Standing(L) # {}
  <2> DEFINE M == NormalizeTurn(L)
             seat == FirstStanding(L, L.turn)
  <2>1. M = [L EXCEPT !.turn = seat, !.left = IF L.paused THEN L.left ELSE Span]
    BY <1>3 DEF NormalizeTurn
  <2>2. seat \in Standing(L)
    BY <1>3, LobbyFacts, FirstStandingStands
  <2>3. seat \in Nat /\ L \in LobbyRecord
    BY <2>2, LobbyFacts DEF Standing
  <2> HIDE DEF M, seat
  <2>4. M \in LobbyRecord
    BY InstantFacts, <2>1, <2>3 DEF LobbyRecord
  <2>5. M.players = L.players /\ M.turn = seat
    BY <2>1, <2>3 DEF LobbyRecord
  <2>6. Kept(L, M) /\ M.turn \in Standing(M)
    BY <2>2, <2>5, LobbyFacts DEF Kept, Standing
  <2> QED
    BY <2>4, <2>6, KeptOK DEF M
<1> QED
  BY <1>1, <1>2, <1>3

LEMMA AdvanceOK ==
  ASSUME NEW L, LobbyOK(L)
  PROVE  LobbyOK(Advance(L)) /\ Ids(Advance(L)) = Ids(L)
<1>1. CASE Due(L) /\ L.phase # "playing"
  <2>1. Table(L) /\ L.players # <<>>
    BY <1>1 DEF LobbyOK, Table, NoLobby, Due, Running
  <2> QED
    BY <1>1, <2>1, StartGameOK, CancelReadyOK DEF Advance
<1>2. CASE Due(L) /\ L.phase = "playing"
  <2>1. L.players # <<>>
    BY <1>2 DEF LobbyOK, Table, NoLobby
  <2> QED
    BY <1>2, <2>1, AdvanceTurnOK DEF Advance
<1>3. CASE ~Due(L)
  BY <1>3 DEF Advance
<1> QED
  BY <1>1, <1>2, <1>3

-----------------------------------------------------------------------------
(* What a request makes of the lobby of its sender *)

(* A table that is not full has a team nobody is on.                        *)
LEMMA FreeTeamIsFree ==
  ASSUME NEW L, Table(L), Len(L.players) < Capacity
  PROVE  /\ FreeTeam(L) \in Team
         /\ \A i \in DOMAIN L.players : L.players[i].team # FreeTeam(L)
<1> DEFINE free == {t \in Team : \A i \in DOMAIN L.players : L.players[i].team # t}
           seats == DOMAIN L.players
           seat == [t \in Team |-> CHOOSE i \in seats : L.players[i].team = t]
<1>1. /\ seats = 1..Len(L.players) /\ Len(L.players) \in Nat
      /\ Len(L.players) < Teams
  BY LobbyFacts
<1>2. free # {}
  <2> SUFFICES ASSUME free = {}
               PROVE  FALSE
    OBVIOUS
  <2>1. \A t \in Team : seat[t] \in seats /\ L.players[seat[t]].team = t
    OBVIOUS
  <2>2. seat \in [Team -> seats]
    BY <2>1
  <2>3. IsFiniteSet(seats) /\ Cardinality(seats) = Len(L.players)
    <3> SUFFICES ASSUME NEW n \in Nat, n = Len(L.players)
                 PROVE  IsFiniteSet(1..n) /\ Cardinality(1..n) = n
      BY <1>1
    <3>1. \A a, b \in Int : IsFiniteSet(a..b)
                             /\ Cardinality(a..b) = IF a > b THEN 0 ELSE b - a + 1
      BY FS_Interval, Zenon
    <3>2. 1 \in Int /\ n \in Int
      OBVIOUS
    <3>3. IsFiniteSet(1..n) /\ Cardinality(1..n) = IF 1 > n THEN 0 ELSE n - 1 + 1
      BY <3>1, <3>2, Zenon
    <3> QED
      BY <3>3
  <2>4. IsFiniteSet(Team) /\ Cardinality(Team) = Teams
    BY FS_Interval DEF Team
  <2> HIDE DEF seat, seats
  <2>5. \E x, y \in Team : x # y /\ seat[x] = seat[y]
    BY <1>1, <2>2, <2>3, <2>4, FS_PigeonHole
  <2> QED
    BY <2>1, <2>5
<1>3. free \in SUBSET Nat
  BY DEF Team
<1>4. FreeTeam(L) \in free
  BY <1>2, <1>3, LeastExists DEF FreeTeam
<1> QED
  BY <1>4

LEMMA NewPlayerOK ==
  ASSUME NEW p \in Player, NEW team \in Team
  PROVE  NewPlayer(p, team) \in PlayerRecord
<1>1. DefaultColor[team] \in Color /\ 0 \in 0..MaxMeasurements /\ Figures \in 0..Figures
  BY DEF Team
<1> QED
  BY <1>1 DEF NewPlayer, PlayerRecord

LEMMA JoinedOK ==
  ASSUME NEW L, Table(L), Len(L.players) < Capacity, NEW p \in Player, p \notin Ids(L)
  PROVE  LobbyOK(Joined(L, p)) /\ Ids(Joined(L, p)) \subseteq Ids(L) \cup {p}
<1> DEFINE M == Joined(L, p)
           team == FreeTeam(L)
           new == NewPlayer(p, team)
           old == Unready(L.players)
           ps == Append(old, new)
           n == Len(L.players)
<1>1. /\ team \in Team
      /\ \A i \in DOMAIN L.players : L.players[i].team # team
  BY FreeTeamIsFree
<1>2. new \in PlayerRecord /\ new.id = p /\ new.team = team
  BY <1>1, NewPlayerOK DEF NewPlayer
<1>3. n \in Nat /\ DOMAIN L.players = 1..n /\ L \in LobbyRecord
  BY LobbyFacts
<1>4. \A i \in 1..n : /\ old[i] \in PlayerRecord /\ old[i].id = L.players[i].id
                      /\ old[i].team = L.players[i].team
                      /\ old[i].color = L.players[i].color
  BY <1>3, UnreadyOK
<1>5. old \in Seq(PlayerRecord) /\ Len(old) = n
  <2>1. old \in [1..n -> PlayerRecord]
    BY <1>3, <1>4 DEF Unready
  <2> QED
    BY <1>3, <2>1, MakeSeq
<1>6. M = [L EXCEPT !.phase = "waiting", !.left = 0, !.players = ps]
  BY DEF Joined
<1> HIDE DEF M, team, new, old, n
<1>7. /\ ps \in Seq(PlayerRecord) /\ Len(ps) = n + 1 /\ DOMAIN ps = 1..(n + 1)
      /\ \A i \in 1..n : ps[i] = old[i]
      /\ ps[n + 1] = new
      /\ ps # <<>>
  <2>1. Len(ps) = n + 1 /\ ps \in Seq(PlayerRecord) /\ ps # <<>> /\ ps[n + 1] = new
    BY <1>2, <1>3, <1>5, AppendProperties
  <2>2. \A i \in 1..n : ps[i] = old[i]
    BY <1>2, <1>3, <1>5, AppendProperties
  <2>3. DOMAIN ps = 1..(n + 1)
    BY <2>1, LenProperties
  <2> QED
    BY <2>1, <2>2, <2>3
<1> HIDE DEF ps
<1>8. M \in LobbyRecord
  BY InstantFacts, <1>3, <1>6, <1>7 DEF LobbyRecord
<1>9. M.players = ps /\ M.phase = "waiting"
  BY <1>3, <1>6 DEF LobbyRecord
<1>10. \A i \in 1..(n + 1) : i \in 1..n \/ i = n + 1
  BY <1>3
<1>11. \A i \in 1..n : L.players[i].id # p
  BY <1>3 DEF Ids
<1>12. Distinct(ps)
  BY <1>2, <1>3, <1>4, <1>7, <1>10, <1>11 DEF Distinct, Table
<1>13. OneColor(ps)
  BY <1>1, <1>2, <1>3, <1>4, <1>7, <1>10 DEF OneColor, Table
<1>14. Len(ps) <= Capacity
  BY <1>3, <1>7 DEF n
<1>15. Ids(M) \subseteq Ids(L) \cup {p}
  BY <1>2, <1>3, <1>4, <1>7, <1>9, <1>10 DEF Ids
<1> QED
  BY <1>7, <1>8, <1>9, <1>12, <1>13, <1>14, <1>15 DEF LobbyOK, Table, M

LEMMA CreatedOK ==
  ASSUME NEW p \in Player
  PROVE  LET M == [NoLobby EXCEPT !.phase = "waiting", !.players = <<NewPlayer(p, 1)>>]
         IN  LobbyOK(M) /\ Ids(M) \subseteq {p}
<1> DEFINE new == NewPlayer(p, 1)
           M == [NoLobby EXCEPT !.phase = "waiting", !.players = <<new>>]
<1>1. new \in PlayerRecord /\ new.id = p
  BY NewPlayerOK DEF NewPlayer, Team
<1> HIDE DEF new
<1>2. /\ <<new>> \in Seq(PlayerRecord) /\ Len(<<new>>) = 1 /\ DOMAIN <<new>> = {1}
      /\ <<new>> # <<>> /\ <<new>>[1] = new
  BY <1>1
<1>3. NoLobby \in LobbyRecord
  <2>1. <<>> \in Seq(PlayerRecord)
    OBVIOUS
  <2> QED
    BY InstantFacts, <2>1 DEF NoLobby, LobbyRecord
<1>4. M \in LobbyRecord
  BY <1>2, <1>3 DEF LobbyRecord
<1>8. M.players = <<new>> /\ M.phase = "waiting"
  BY <1>3 DEF LobbyRecord
<1> HIDE DEF M
<1>5. Distinct(M.players) /\ OneColor(M.players) /\ Len(M.players) <= Capacity
  BY <1>2, <1>8 DEF Distinct, OneColor
<1>6. Ids(M) \subseteq {p}
  BY <1>1, <1>2, <1>8 DEF Ids
<1>7. LobbyOK(M)
  BY <1>2, <1>4, <1>5, <1>8 DEF LobbyOK, Table
<1> QED
  BY <1>6, <1>7 DEF M, new

(* The table without one of its players.                                    *)
LEMMA WithoutOK ==
  ASSUME NEW L, Table(L), NEW i \in DOMAIN L.players,
         NEW M, M \in LobbyRecord, M.players = Without(L.players, i), M.players # <<>>
  PROVE  Table(M) /\ Ids(M) \subseteq Ids(L)
<1> DEFINE ps == Without(L.players, i)
           n == Len(L.players)
           from == [j \in 1..(n - 1) |-> IF j < i THEN j ELSE j + 1]
<1>1. n \in Nat /\ DOMAIN L.players = 1..n /\ i \in 1..n
  BY LobbyFacts
<1> HIDE DEF n
<1>2. \A j \in 1..(n - 1) : from[j] \in 1..n
  BY <1>1
<1>3. \A j, k \in 1..(n - 1) : from[j] = from[k] => j = k
  BY <1>1
<1>4. DOMAIN ps = 1..(n - 1) /\ \A j \in 1..(n - 1) : ps[j] = L.players[from[j]]
  BY <1>1 DEF Without, n
<1>5. n - 1 \in Nat
  BY <1>1
<1> HIDE DEF from, ps
<1>6. Len(ps) = n - 1
  <2>1. \A j \in 1..(n - 1) : ps[j] \in PlayerRecord
    BY <1>1, <1>2, <1>4, LobbyFacts
  <2>2. ps = [j \in 1..(n - 1) |-> ps[j]]
    BY <1>4 DEF ps, Without
  <2>3. ps \in [1..(n - 1) -> PlayerRecord]
    BY <2>1, <2>2
  <2> QED
    BY <1>5, <2>3, MakeSeq
<1>7. Distinct(ps)
  <2> SUFFICES ASSUME NEW j \in 1..(n - 1), NEW k \in 1..(n - 1), ps[j].id = ps[k].id
               PROVE  j = k
    BY <1>4 DEF Distinct
  <2>1. L.players[from[j]].id = L.players[from[k]].id
    BY <1>4
  <2>2. from[j] \in DOMAIN L.players /\ from[k] \in DOMAIN L.players
    BY <1>1, <1>2
  <2>3. from[j] = from[k]
    BY <2>1, <2>2 DEF Distinct, Table
  <2> QED
    BY <1>3, <2>3
<1>8. OneColor(ps)
  <2> SUFFICES ASSUME NEW j \in 1..(n - 1), NEW k \in 1..(n - 1), ps[j].team = ps[k].team
               PROVE  ps[j].color = ps[k].color
    BY <1>4 DEF OneColor
  <2>1. ps[j] = L.players[from[j]] /\ ps[k] = L.players[from[k]]
    BY <1>4
  <2>2. from[j] \in DOMAIN L.players /\ from[k] \in DOMAIN L.players
    BY <1>1, <1>2
  <2> QED
    BY <2>1, <2>2 DEF OneColor, Table
<1>9. Ids(M) \subseteq Ids(L)
  BY <1>1, <1>2, <1>4 DEF Ids, ps
<1>10. Len(ps) <= Capacity
  BY <1>1, <1>6 DEF Table, n
<1> QED
  BY <1>7, <1>8, <1>9, <1>10 DEF Table, ps

LEMMA TurnAfterLeaveIsNat ==
  ASSUME NEW L, Table(L), NEW i \in DOMAIN L.players
  PROVE  TurnAfterLeave(L, i) \in Nat
<1>1. L.turn \in Nat /\ i \in Nat /\ i >= 1 /\ Len(L.players) \in Nat /\ Len(L.players) - 1 \in Nat
  BY LobbyFacts
<1>2. Least({i, Len(L.players) - 1}) \in Nat
  <2>1. {i, Len(L.players) - 1} \in SUBSET Nat /\ {i, Len(L.players) - 1} # {}
    BY <1>1
  <2>2. Least({i, Len(L.players) - 1}) \in {i, Len(L.players) - 1}
    BY <2>1, LeastExists
  <2> QED
    BY <2>1, <2>2
<1> QED
  BY <1>1, <1>2 DEF TurnAfterLeave

LEMMA NoLobbyOK == LobbyOK(NoLobby) /\ Ids(NoLobby) = {}
<1>1. <<>> \in Seq(PlayerRecord) /\ Len(<<>>) = 0 /\ DOMAIN <<>> = {}
  OBVIOUS
<1>2. NoLobby \in LobbyRecord
  BY InstantFacts, <1>1 DEF NoLobby, LobbyRecord
<1>3. NoLobby.players = <<>> /\ NoLobby.phase = "none"
  BY DEF NoLobby
<1> HIDE DEF NoLobby
<1> QED
  BY <1>1, <1>2, <1>3 DEF LobbyOK, Table, Distinct, OneColor, Ids

LEMMA WithoutIsTable ==
  ASSUME NEW L, Table(L), NEW i \in DOMAIN L.players
  PROVE  Without(L.players, i) \in Seq(PlayerRecord)
<1> DEFINE n == Len(L.players)
<1>1. n - 1 \in Nat /\ DOMAIN L.players = 1..n /\ i \in 1..n
  BY LobbyFacts
<1>2. \A j \in 1..n : L.players[j] \in PlayerRecord
  BY <1>1, LobbyFacts
<1> HIDE DEF n
<1>3. Without(L.players, i) \in [1..(n - 1) -> PlayerRecord]
  BY <1>1, <1>2 DEF Without, n
<1> QED
  BY <1>1, <1>3, MakeSeq

LEMMA LeftOK ==
  ASSUME NEW L, LobbyOK(L), NEW i \in DOMAIN L.players
  PROVE  LobbyOK(Left(L, i)) /\ Ids(Left(L, i)) \subseteq Ids(L)
<1> DEFINE ps == Without(L.players, i)
           rest == [L EXCEPT !.players = ps]
           turned == [rest EXCEPT !.turn = TurnAfterLeave(L, i)]
<1>1. Table(L) /\ L \in LobbyRecord
  BY LobbyFacts DEF LobbyOK
<1>2. ps \in Seq(PlayerRecord)
  BY <1>1, WithoutIsTable
<1>3. TurnAfterLeave(L, i) \in Nat
  BY <1>1, TurnAfterLeaveIsNat
<1>4. Left(L, i) = IF rest.players = <<>> THEN NoLobby
                   ELSE IF Open(L) THEN CancelReady(rest)
                   ELSE IF L.phase = "playing" THEN NormalizeTurn(turned) ELSE rest
  BY DEF Left
<1> HIDE DEF ps
<1>5. rest \in LobbyRecord /\ rest.players = ps /\ rest.phase = L.phase
  BY <1>1, <1>2 DEF LobbyRecord
<1>6. turned \in LobbyRecord /\ turned.players = ps
  BY <1>1, <1>2, <1>3 DEF LobbyRecord
<1> HIDE DEF rest, turned
<1>7. CASE ps = <<>>
  BY <1>4, <1>5, <1>7, NoLobbyOK
<1>8. CASE ps # <<>>
  <2>1. Table(rest) /\ Ids(rest) \subseteq Ids(L)
    BY <1>1, <1>5, <1>8, WithoutOK DEF ps
  <2>2. Table(turned) /\ Ids(turned) \subseteq Ids(L)
    BY <1>1, <1>6, <1>8, WithoutOK DEF ps
  <2>3. CASE Open(L)
    BY <1>4, <1>5, <1>8, <2>1, <2>3, CancelReadyOK
  <2>4. CASE ~Open(L) /\ L.phase = "playing"
    BY <1>4, <1>5, <1>6, <1>8, <2>2, <2>4, NormalizeTurnOK
  <2>5. CASE ~Open(L) /\ L.phase # "playing"
    BY <1>4, <1>5, <1>8, <2>1, <2>5 DEF LobbyOK
  <2> QED
    BY <2>3, <2>4, <2>5
<1> QED
  BY <1>7, <1>8

(* Teams and colours have changed, so that again a team has one colour; the  *)
(* settings of a lobby changed, so everybody is unready.                    *)
LEMMA RecoloredOK ==
  ASSUME NEW L, Table(L), L.players # <<>>,
         NEW qs \in [DOMAIN L.players -> PlayerRecord],
         \A i \in DOMAIN L.players : qs[i].id = L.players[i].id,
         OneColor(qs),
         NEW M, M = [L EXCEPT !.players = qs]
  PROVE  LobbyOK(CancelReady(M)) /\ Ids(CancelReady(M)) = Ids(L)
<1>1. L \in LobbyRecord /\ Len(L.players) \in Nat /\ DOMAIN L.players = 1..Len(L.players)
  BY LobbyFacts
<1>2. /\ qs \in Seq(PlayerRecord) /\ Len(qs) = Len(L.players)
      /\ DOMAIN qs = DOMAIN L.players
  BY <1>1, MakeSeq
<1>3. M \in LobbyRecord
  BY <1>1, <1>2 DEF LobbyRecord
<1>4. M.players = qs
  BY <1>1 DEF LobbyRecord
<1>5. qs # <<>>
  BY <1>1, <1>2, SeqFacts, LobbyFacts
<1>6. Distinct(qs)
  BY <1>2 DEF Distinct, Table
<1>7. Table(M)
  BY <1>2, <1>3, <1>4, <1>5, <1>6 DEF Table
<1>8. Ids(M) = Ids(L)
  BY <1>2, <1>4 DEF Ids
<1> QED
  BY <1>4, <1>5, <1>7, <1>8, CancelReadyOK

LEMMA WithTeamOK ==
  ASSUME NEW L, Table(L), NEW i \in DOMAIN L.players, NEW team \in Team
  PROVE  LobbyOK(WithTeam(L, i, team)) /\ Ids(WithTeam(L, i, team)) = Ids(L)
<1> DEFINE mates == TeammatesOf(L, i, team)
           color == IF mates # {} THEN L.players[Least(mates)].color ELSE L.players[i].color
           moved == [L.players EXCEPT ![i] = [@ EXCEPT !.team = team, !.color = color]]
           M == [L EXCEPT !.players = moved]
<1>1. /\ L \in LobbyRecord /\ L.players # <<>>
      /\ \A j \in DOMAIN L.players : L.players[j] \in PlayerRecord /\ j \in Nat
  BY LobbyFacts, SeqFacts
<1>2. mates # {} => Least(mates) \in mates
  <2>1. mates \in SUBSET Nat
    BY <1>1 DEF TeammatesOf
  <2> QED
    BY <2>1, LeastExists
<1>3. \A j \in mates : /\ j \in DOMAIN L.players /\ L.players[j].team = team
                       /\ L.players[j].color = color
  BY <1>2 DEF TeammatesOf, Table, OneColor
<1>4. color \in Color
  BY <1>1, <1>2, <1>3 DEF PlayerRecord
<1>5. WithTeam(L, i, team) = CancelReady(M)
  BY <1>1, LobbyFacts DEF WithTeam, LobbyRecord
<1> HIDE DEF color
<1>6. \A j \in DOMAIN L.players :
        /\ moved[j] = IF j = i THEN [L.players[i] EXCEPT !.team = team, !.color = color]
                      ELSE L.players[j]
  BY <1>1, LobbyFacts
<1>7. DOMAIN moved = DOMAIN L.players
  OBVIOUS
<1>8. /\ moved[i] \in PlayerRecord /\ moved[i].team = team /\ moved[i].color = color
      /\ moved[i].id = L.players[i].id
  <2>1. moved[i] = [L.players[i] EXCEPT !.team = team, !.color = color]
    BY <1>6
  <2> HIDE DEF moved
  <2>2. moved[i] \in PlayerRecord
    BY <1>1, <1>4, <2>1 DEF PlayerRecord
  <2> QED
    BY <1>1, <2>1, <2>2 DEF PlayerRecord
<1>9. \A j \in DOMAIN L.players : j # i => moved[j] = L.players[j]
  BY <1>6
<1>10. moved \in [DOMAIN L.players -> PlayerRecord]
  BY <1>1, <1>8, <1>9
<1> HIDE DEF moved
<1>11. OneColor(moved)
  <2> SUFFICES ASSUME NEW j \in DOMAIN L.players, NEW k \in DOMAIN L.players,
                      moved[j].team = moved[k].team
               PROVE  moved[j].color = moved[k].color
    BY <1>7 DEF OneColor
  <2>1. \A m \in DOMAIN L.players : m # i /\ L.players[m].team = team => m \in mates
    BY DEF TeammatesOf
  <2>2. CASE j = i
    BY <1>3, <1>8, <1>9, <2>1, <2>2
  <2>3. CASE k = i
    BY <1>3, <1>8, <1>9, <2>1, <2>3
  <2>4. CASE j # i /\ k # i
    BY <1>9, <2>4 DEF Table, OneColor
  <2> QED
    BY <2>2, <2>3, <2>4
<1>12. \A j \in DOMAIN L.players : moved[j].id = L.players[j].id
  BY <1>8, <1>9
<1> QED
  BY <1>1, <1>5, <1>10, <1>11, <1>12, RecoloredOK

LEMMA WithColorOK ==
  ASSUME NEW L, Table(L), NEW i \in DOMAIN L.players, NEW color \in Color
  PROVE  LobbyOK(WithColor(L, i, color)) /\ Ids(WithColor(L, i, color)) = Ids(L)
<1> DEFINE painted == [j \in DOMAIN L.players |->
                         IF L.players[j].team = L.players[i].team
                         THEN [L.players[j] EXCEPT !.color = color] ELSE L.players[j]]
           M == [L EXCEPT !.players = painted]
<1>1. /\ L \in LobbyRecord /\ L.players # <<>>
      /\ \A j \in DOMAIN L.players : L.players[j] \in PlayerRecord
  BY LobbyFacts, SeqFacts
<1>2. WithColor(L, i, color) = CancelReady(M)
  BY DEF WithColor
<1>3. \A j \in DOMAIN L.players :
        /\ painted[j] \in PlayerRecord
        /\ painted[j].id = L.players[j].id /\ painted[j].team = L.players[j].team
        /\ painted[j].color = IF L.players[j].team = L.players[i].team THEN color
                              ELSE L.players[j].color
  <2> SUFFICES ASSUME NEW j \in DOMAIN L.players
               PROVE  /\ painted[j] \in PlayerRecord
                      /\ painted[j].id = L.players[j].id
                      /\ painted[j].team = L.players[j].team
                      /\ painted[j].color = IF L.players[j].team = L.players[i].team
                                            THEN color ELSE L.players[j].color
    OBVIOUS
  <2>1. L.players[j] \in PlayerRecord
    BY <1>1
  <2>2. CASE L.players[j].team = L.players[i].team
    <3>1. painted[j] = [L.players[j] EXCEPT !.color = color]
      BY <2>2
    <3> HIDE DEF painted
    <3>2. painted[j] \in PlayerRecord
      BY <2>1, <3>1 DEF PlayerRecord
    <3>3. /\ painted[j].id = L.players[j].id /\ painted[j].team = L.players[j].team
          /\ painted[j].color = color
      BY <2>1, <3>1 DEF PlayerRecord
    <3> QED
      BY <2>2, <3>2, <3>3
  <2>3. CASE L.players[j].team # L.players[i].team
    BY <2>1, <2>3
  <2> QED
    BY <2>2, <2>3
<1>4. painted \in [DOMAIN L.players -> PlayerRecord] /\ DOMAIN painted = DOMAIN L.players
  BY <1>3
<1> HIDE DEF painted
<1>5. OneColor(painted)
  BY <1>3, <1>4 DEF OneColor, Table
<1> QED
  BY <1>1, <1>2, <1>3, <1>4, <1>5, RecoloredOK

(* One seat is changed in what is not its player, team, colour or figures.   *)
LEMMA SeatChangedOK ==
  ASSUME NEW L, LobbyOK(L), NEW i \in DOMAIN L.players, NEW q \in PlayerRecord,
         q.id = L.players[i].id, q.team = L.players[i].team,
         q.color = L.players[i].color, q.alive = L.players[i].alive,
         NEW M, M = [L EXCEPT !.players = [L.players EXCEPT ![i] = q]]
  PROVE  LobbyOK(M) /\ Ids(M) = Ids(L) /\ M.players # <<>>
<1> DEFINE qs == [L.players EXCEPT ![i] = q]
<1>1. /\ Table(L) /\ L \in LobbyRecord /\ L.players # <<>>
      /\ \A j \in DOMAIN L.players : L.players[j] \in PlayerRecord
  BY LobbyFacts, SeqFacts DEF LobbyOK
<1>2. \A j \in DOMAIN L.players : qs[j] = IF j = i THEN q ELSE L.players[j]
  BY <1>1, LobbyFacts
<1>3. qs \in [DOMAIN L.players -> PlayerRecord]
  BY <1>1
<1> HIDE DEF qs
<1>4. qs \in Seq(PlayerRecord) /\ DOMAIN qs = DOMAIN L.players
  BY <1>1, <1>3, Refilled
<1>5. M \in LobbyRecord
  BY <1>1, <1>4 DEF LobbyRecord, qs
<1>6. M.players = qs /\ M.turn = L.turn /\ M.phase = L.phase
  BY <1>1 DEF LobbyRecord, qs
<1>7. Kept(L, M)
  BY <1>1, <1>2, <1>3, <1>6 DEF Kept
<1>8. Standing(M) = Standing(L)
  BY <1>2, <1>4, <1>6 DEF Standing
<1>9. M.players # <<>>
  BY <1>4, <1>6, SeqFacts
<1> QED
  BY <1>1, <1>5, <1>6, <1>7, <1>8, <1>9, KeptOK DEF LobbyOK

(* The curve spares the team of the one who plots: he still stands.          *)
LEMMA StruckOK ==
  ASSUME NEW L, LobbyOK(L), NEW i \in DOMAIN L.players, MayPlay(L, i),
         NEW hits \in HitsBy(L, i)
  PROVE  /\ LobbyOK(Struck(L, hits)) /\ Ids(Struck(L, hits)) = Ids(L)
         /\ Struck(L, hits).players # <<>>
<1> DEFINE M == Struck(L, hits)
           qs == [j \in DOMAIN L.players |->
                    [L.players[j] EXCEPT !.alive = L.players[j].alive - hits[j]]]
<1>1. /\ Table(L) /\ L \in LobbyRecord /\ L.players # <<>>
      /\ \A j \in DOMAIN L.players : L.players[j] \in PlayerRecord
  BY LobbyFacts, SeqFacts DEF LobbyOK
<1>2. \A j \in DOMAIN L.players :
        /\ qs[j] \in PlayerRecord
        /\ qs[j].id = L.players[j].id /\ qs[j].team = L.players[j].team
        /\ qs[j].color = L.players[j].color
        /\ qs[j].alive = L.players[j].alive - hits[j]
  <2> SUFFICES ASSUME NEW j \in DOMAIN L.players
               PROVE  /\ qs[j] \in PlayerRecord
                      /\ qs[j].id = L.players[j].id /\ qs[j].team = L.players[j].team
                      /\ qs[j].color = L.players[j].color
                      /\ qs[j].alive = L.players[j].alive - hits[j]
    OBVIOUS
  <2> DEFINE left == L.players[j].alive - hits[j]
  <2>1. L.players[j] \in PlayerRecord
    BY <1>1
  <2>2. hits[j] \in 0..Figures /\ hits[j] <= L.players[j].alive
    BY DEF HitsBy
  <2>3. left \in 0..Figures
    BY <2>1, <2>2 DEF PlayerRecord
  <2>4. qs[j] = [L.players[j] EXCEPT !.alive = left]
    OBVIOUS
  <2> HIDE DEF qs, left
  <2>5. qs[j] \in PlayerRecord
    BY <2>1, <2>3, <2>4 DEF PlayerRecord
  <2>6. /\ qs[j].id = L.players[j].id /\ qs[j].team = L.players[j].team
        /\ qs[j].color = L.players[j].color /\ qs[j].alive = left
    BY <2>1, <2>4 DEF PlayerRecord
  <2> QED
    BY <2>5, <2>6 DEF left
<1>3. qs \in [DOMAIN L.players -> PlayerRecord]
  BY <1>2
<1>4. M = [L EXCEPT !.players = qs]
  BY DEF Struck
<1> HIDE DEF M, qs
<1>5. qs \in Seq(PlayerRecord) /\ DOMAIN qs = DOMAIN L.players
  BY <1>1, <1>3, Refilled
<1>6. M \in LobbyRecord
  BY <1>1, <1>4, <1>5 DEF LobbyRecord
<1>7. M.players = qs /\ M.turn = L.turn
  BY <1>1, <1>4 DEF LobbyRecord
<1>8. Kept(L, M)
  BY <1>2, <1>3, <1>7 DEF Kept
<1>9. L.turn = i /\ L.players[i].alive > 0 /\ hits[i] = 0
  BY DEF MayPlay, LobbyOK, Standing, HitsBy
<1>10. M.turn \in Standing(M)
  <2>1. qs[i].alive = L.players[i].alive - 0
    BY <1>2, <1>9
  <2>2. L.players[i].alive \in Nat
    BY <1>1 DEF PlayerRecord
  <2> QED
    BY <1>5, <1>7, <1>9, <2>1, <2>2 DEF Standing
<1>11. M.players # <<>>
  BY <1>5, <1>7, SeqFacts
<1> QED
  BY <1>1, <1>6, <1>8, <1>10, <1>11, KeptOK DEF M

-----------------------------------------------------------------------------
(* The invariant *)

LEMMA SettledOK ==
  ASSUME IInv
  PROVE  /\ DOMAIN Settled = Lobby
         /\ \A l \in Lobby : /\ Settled[l] = Advance(lobbies[l])
                             /\ LobbyOK(Settled[l]) /\ Ids(Settled[l]) = Ids(lobbies[l])
BY AdvanceOK DEF Settled, IInv

(* The seat a request works on.                                             *)
LEMMA SeatOK ==
  ASSUME IInv, NEW p \in Player, NEW l \in Lobby, Seated(p, l)
  PROVE  /\ Seat(p, l) \in DOMAIN Settled[l].players
         /\ LobbyOK(Settled[l]) /\ Table(Settled[l]) /\ Settled[l].players # <<>>
<1>1. LobbyOK(Settled[l]) /\ Ids(Settled[l]) = Ids(lobbies[l])
  BY SettledOK
<1>2. p \in Ids(lobbies[l])
  BY DEF Seated, Member, Ids
<1>3. \E i \in DOMAIN Settled[l].players : Settled[l].players[i].id = p
  BY <1>1, <1>2 DEF Ids
<1>4. Seat(p, l) \in DOMAIN Settled[l].players
  BY <1>3 DEF Seat, Position
<1>5. Table(Settled[l])
  BY <1>1 DEF LobbyOK
<1>6. Settled[l].players # <<>>
  BY <1>4, <1>5, LobbyFacts, SeqFacts
<1> QED
  BY <1>1, <1>4, <1>5, <1>6

(* A request turns one settled lobby into L and brings nobody to it who sits *)
(* elsewhere.                                                               *)
LEMMA OneLobbyChanges ==
  ASSUME IInv, profiles' \subseteq Player, NEW l \in Lobby, NEW L, LobbyOK(L),
         lobbies' = [Settled EXCEPT ![l] = L],
         \A m \in Lobby : m # l => Ids(L) \cap Ids(lobbies[m]) = {}
  PROVE  IInv'
<1>1. /\ DOMAIN Settled = Lobby
      /\ \A m \in Lobby : LobbyOK(Settled[m]) /\ Ids(Settled[m]) = Ids(lobbies[m])
  BY SettledOK
<1>2. DOMAIN lobbies' = Lobby /\ lobbies' = [m \in Lobby |-> lobbies'[m]]
  BY <1>1 DEF Settled
<1>3. \A m \in Lobby : lobbies'[m] = IF m = l THEN L ELSE Settled[m]
  BY <1>1
<1>4. \A m \in Lobby : LobbyOK(lobbies'[m])
  BY <1>1, <1>3
<1>5. ASSUME NEW m \in Lobby, NEW k \in Lobby, m # k
      PROVE  Ids(lobbies'[m]) \cap Ids(lobbies'[k]) = {}
  <2>1. Ids(lobbies[m]) \cap Ids(lobbies[k]) = {}
    BY <1>5 DEF IInv
  <2>2. CASE m = l
    BY <1>1, <1>3, <1>5, <2>2
  <2>3. CASE k = l
    <3>1. lobbies'[k] = L /\ lobbies'[m] = Settled[m] /\ Ids(Settled[m]) = Ids(lobbies[m])
      BY <1>1, <1>3, <1>5, <2>3
    <3>2. Ids(L) \cap Ids(lobbies[m]) = {}
      BY <1>5, <2>3
    <3> QED
      BY <3>1, <3>2
  <2>4. CASE m # l /\ k # l
    BY <1>1, <1>3, <2>1, <2>4
  <2> QED
    BY <2>2, <2>3, <2>4
<1> QED
  BY <1>2, <1>4, <1>5 DEF IInv

(* The common case: nobody comes to the lobby.                              *)
LEMMA BecomesOK ==
  ASSUME IInv, NEW l \in Lobby, NEW L, LobbyOK(L), Ids(L) \subseteq Ids(Settled[l]),
         Becomes(l, L)
  PROVE  IInv'
<1>1. Ids(L) \subseteq Ids(lobbies[l])
  BY SettledOK
<1>2. \A m \in Lobby : m # l => Ids(L) \cap Ids(lobbies[m]) = {}
  BY <1>1 DEF IInv
<1>3. profiles' \subseteq Player /\ lobbies' = [Settled EXCEPT ![l] = L]
  BY DEF Becomes, IInv
<1> QED
  BY <1>2, <1>3, OneLobbyChanges

LEMMA InitInv == Init => IInv
<1> SUFFICES ASSUME Init
             PROVE  IInv
  OBVIOUS
<1>1. \A l \in Lobby : lobbies[l] = NoLobby
  BY DEF Init
<1>2. DOMAIN lobbies = Lobby /\ lobbies = [l \in Lobby |-> lobbies[l]]
  BY DEF Init
<1>3. profiles \subseteq Player
  BY DEF Init
<1> QED
  BY <1>1, <1>2, <1>3, NoLobbyOK DEF IInv

LEMMA CreateLobbyInv ==
  ASSUME IInv, NEW p \in Player, NEW l \in Lobby, CreateLobby(p, l)
  PROVE  IInv'
<1> DEFINE M == [NoLobby EXCEPT !.phase = "waiting", !.players = <<NewPlayer(p, 1)>>]
<1>1. LobbyOK(M) /\ Ids(M) \subseteq {p}
  BY CreatedOK
<1>2. lobbies' = [Settled EXCEPT ![l] = M] /\ profiles' \subseteq Player
  BY DEF CreateLobby, IInv
<1>3. \A m \in Lobby : p \notin Ids(lobbies[m])
  BY DEF CreateLobby, InSomeLobby, Member, Ids
<1> HIDE DEF M
<1>4. \A m \in Lobby : m # l => Ids(M) \cap Ids(lobbies[m]) = {}
  BY <1>1, <1>3
<1> QED
  BY <1>1, <1>2, <1>4, OneLobbyChanges

LEMMA JoinLobbyInv ==
  ASSUME IInv, NEW p \in Player, NEW l \in Lobby, JoinLobby(p, l)
  PROVE  IInv'
<1> DEFINE L == Settled[l]
           M == Joined(L, p)
<1>1. \A m \in Lobby : p \notin Ids(lobbies[m])
  BY DEF JoinLobby, InSomeLobby, Member, Ids
<1>2. LobbyOK(L) /\ Table(L) /\ Ids(L) = Ids(lobbies[l])
  BY SettledOK DEF LobbyOK
<1>3. Len(L.players) < Capacity
  BY DEF JoinLobby
<1>4. LobbyOK(M) /\ Ids(M) \subseteq Ids(L) \cup {p}
  BY <1>1, <1>2, <1>3, JoinedOK
<1>5. lobbies' = [Settled EXCEPT ![l] = M] /\ profiles' \subseteq Player
  BY DEF JoinLobby, IInv
<1> HIDE DEF M, L
<1>6. \A m \in Lobby : m # l => Ids(M) \cap Ids(lobbies[m]) = {}
  BY <1>1, <1>2, <1>4 DEF IInv
<1> QED
  BY <1>4, <1>5, <1>6, OneLobbyChanges

LEMMA SetReadyInv ==
  ASSUME IInv, NEW p \in Player, NEW l \in Lobby, NEW ready \in BOOLEAN,
         SetReady(p, l, ready)
  PROVE  IInv'
<1> DEFINE L == Settled[l]
           i == Seat(p, l)
           q == [L.players[i] EXCEPT !.ready = ready]
           M == [L EXCEPT !.players = [L.players EXCEPT ![i] = q]]
<1>1. Seated(p, l) /\ i \in DOMAIN L.players /\ LobbyOK(L) /\ Table(L)
  BY SeatOK DEF SetReady
<1>2. L.players[i] \in PlayerRecord
  BY <1>1, LobbyFacts
<1>3. /\ q \in PlayerRecord /\ q.id = L.players[i].id /\ q.team = L.players[i].team
      /\ q.color = L.players[i].color /\ q.alive = L.players[i].alive
  BY <1>2 DEF PlayerRecord
<1>4. LobbyOK(M) /\ Ids(M) = Ids(L) /\ M.players # <<>>
  <2> HIDE DEF q, L, i
  <2> QED
    BY <1>1, <1>3, SeatChangedOK
<1>5. LobbyOK(UpdateCountdown(M)) /\ Ids(UpdateCountdown(M)) = Ids(L)
  <2> HIDE DEF M, L
  <2> QED
    BY <1>4, UpdateCountdownOK DEF LobbyOK
<1>6. [L EXCEPT !.players[i].ready = ready] = M
  BY <1>1, LobbyFacts DEF LobbyRecord
<1>7. Becomes(l, UpdateCountdown(M))
  BY <1>6 DEF SetReady
<1> QED
  BY <1>5, <1>7, BecomesOK

LEMMA PauseInv ==
  ASSUME IInv, NEW p \in Player, NEW l \in Lobby, NEW paused \in BOOLEAN,
         Pause(p, l, paused)
  PROVE  IInv'
<1> DEFINE L == Settled[l]
           M == [L EXCEPT !.paused = paused]
<1>1. Seated(p, l) /\ LobbyOK(L) /\ Table(L) /\ L.players # <<>>
  BY SeatOK DEF Pause
<1>2. L \in LobbyRecord
  BY <1>1, LobbyFacts
<1>3. M \in LobbyRecord
  BY <1>2 DEF LobbyRecord
<1>4. M.players = L.players /\ M.turn = L.turn /\ M.phase = L.phase
  BY <1>2 DEF LobbyRecord
<1>5. Becomes(l, M)
  BY DEF Pause
<1> HIDE DEF M, L
<1>6. Kept(L, M)
  BY <1>1, <1>4, LobbyFacts DEF Kept
<1>7. M.phase = "playing" => M.turn \in Standing(M)
  BY <1>1, <1>4 DEF LobbyOK, Standing
<1>8. LobbyOK(M) /\ Ids(M) = Ids(L)
  BY <1>1, <1>3, <1>6, <1>7, KeptOK
<1> QED
  BY <1>5, <1>8, BecomesOK DEF L

LEMMA MeasureInv ==
  ASSUME IInv, NEW p \in Player, NEW l \in Lobby, Measure(p, l)
  PROVE  IInv'
<1> DEFINE L == Settled[l]
           i == Seat(p, l)
           q == [L.players[i] EXCEPT !.measured = @ + 1]
           M == [L EXCEPT !.players = [L.players EXCEPT ![i] = q]]
<1>1. Seated(p, l) /\ i \in DOMAIN L.players /\ LobbyOK(L) /\ Table(L)
  BY SeatOK DEF Measure
<1>2. L.players[i] \in PlayerRecord /\ L.players[i].measured < MaxMeasurements
  BY <1>1, LobbyFacts DEF Measure
<1>3. L.players[i].measured + 1 \in 0..MaxMeasurements
  BY <1>2 DEF PlayerRecord
<1>4. /\ q \in PlayerRecord /\ q.id = L.players[i].id /\ q.team = L.players[i].team
      /\ q.color = L.players[i].color /\ q.alive = L.players[i].alive
  BY <1>2, <1>3 DEF PlayerRecord
<1>5. LobbyOK(M) /\ Ids(M) = Ids(L)
  <2> HIDE DEF q, L, i
  <2> QED
    BY <1>1, <1>4, SeatChangedOK
<1>6. [L EXCEPT !.players[i].measured = @ + 1] = M
  BY <1>1, LobbyFacts DEF LobbyRecord
<1>7. Becomes(l, M)
  BY <1>6 DEF Measure
<1> QED
  BY <1>5, <1>7, BecomesOK

LEMMA PlotInv ==
  ASSUME IInv, NEW p \in Player, NEW l \in Lobby, Plot(p, l)
  PROVE  IInv'
<1> DEFINE L == Settled[l]
           i == Seat(p, l)
<1>1. Seated(p, l) /\ MayPlay(L, i) /\ i \in DOMAIN L.players /\ LobbyOK(L)
  BY SeatOK DEF Plot
<1>2. PICK hits \in HitsBy(L, i) : Becomes(l, AdvanceTurn(Struck(L, hits)))
  BY DEF Plot
<1> HIDE DEF L, i
<1>3. /\ LobbyOK(Struck(L, hits)) /\ Ids(Struck(L, hits)) = Ids(L)
      /\ Struck(L, hits).players # <<>>
  BY <1>1, StruckOK
<1>4. LobbyOK(AdvanceTurn(Struck(L, hits))) /\ Ids(AdvanceTurn(Struck(L, hits))) = Ids(L)
  BY <1>3, AdvanceTurnOK
<1> QED
  BY <1>2, <1>4, BecomesOK DEF L

LEMMA TickInv ==
  ASSUME IInv, NEW l \in Lobby, Tick(l)
  PROVE  IInv'
<1> DEFINE L == lobbies[l]
           M == [L EXCEPT !.left = L.left - 1]
<1>1. LobbyOK(L) /\ Table(L) /\ L.players # <<>> /\ L \in LobbyRecord
  BY LobbyFacts DEF Tick, Running, IInv, LobbyOK, Table, NoLobby
<1>2. M \in LobbyRecord
  <2>1. L.left - 1 \in Instant
    BY <1>1 DEF LobbyRecord, Tick, Instant
  <2> QED
    BY <1>1, <2>1 DEF LobbyRecord
<1>3. M.players = L.players /\ M.turn = L.turn /\ M.phase = L.phase
  BY <1>1 DEF LobbyRecord
<1>4. lobbies' = [lobbies EXCEPT ![l] = M] /\ profiles' \subseteq Player
  BY DEF Tick, IInv
<1> HIDE DEF M
<1>5. Kept(L, M)
  BY <1>1, <1>3, LobbyFacts DEF Kept
<1>6. M.phase = "playing" => M.turn \in Standing(M)
  BY <1>1, <1>3 DEF LobbyOK, Standing
<1>7. LobbyOK(M) /\ Ids(M) = Ids(L)
  BY <1>1, <1>2, <1>5, <1>6, KeptOK
<1>8. DOMAIN lobbies' = Lobby /\ lobbies' = [m \in Lobby |-> lobbies'[m]]
  BY <1>4 DEF IInv
<1>9. \A m \in Lobby : lobbies'[m] = IF m = l THEN M ELSE lobbies[m]
  BY <1>4 DEF IInv
<1>10. \A m \in Lobby : LobbyOK(lobbies'[m]) /\ Ids(lobbies'[m]) = Ids(lobbies[m])
  BY <1>7, <1>9 DEF IInv
<1> QED
  BY <1>4, <1>8, <1>10 DEF IInv

LEMMA RequestInv ==
  ASSUME IInv, NEW p \in Player, NEW l \in Lobby, Request(p, l)
  PROVE  IInv'
<1>1. CASE CreateLobby(p, l)
  BY <1>1, CreateLobbyInv
<1>2. CASE JoinLobby(p, l)
  BY <1>2, JoinLobbyInv
<1>3. CASE \E team \in Team : SetTeam(p, l, team)
  <2>1. PICK team \in Team : SetTeam(p, l, team)
    BY <1>3
  <2>2. Seated(p, l) /\ Becomes(l, WithTeam(Settled[l], Seat(p, l), team))
    BY <2>1 DEF SetTeam
  <2> QED
    BY <2>2, SeatOK, WithTeamOK, BecomesOK
<1>4. CASE \E color \in Color : SetColor(p, l, color)
  <2>1. PICK color \in Color : SetColor(p, l, color)
    BY <1>4
  <2>2. Seated(p, l) /\ Becomes(l, WithColor(Settled[l], Seat(p, l), color))
    BY <2>1 DEF SetColor
  <2> QED
    BY <2>2, SeatOK, WithColorOK, BecomesOK
<1>5. CASE \E ready \in BOOLEAN : SetReady(p, l, ready)
  BY <1>5, SetReadyInv
<1>6. CASE Leave(p, l)
  <2>1. Seated(p, l) /\ Becomes(l, Left(Settled[l], Seat(p, l)))
    BY <1>6 DEF Leave
  <2> QED
    BY <2>1, SeatOK, LeftOK, BecomesOK
<1>7. CASE \E paused \in BOOLEAN : Pause(p, l, paused)
  BY <1>7, PauseInv
<1>8. CASE EndGame(p, l)
  <2>1. Seated(p, l) /\ Becomes(l, Finish(Settled[l], NoWinner))
    BY <1>8 DEF EndGame
  <2> QED
    BY <2>1, SeatOK, FinishOK, BecomesOK
<1>9. CASE Measure(p, l)
  BY <1>9, MeasureInv
<1>10. CASE Plot(p, l)
  BY <1>10, PlotInv
<1> QED
  BY <1>1, <1>2, <1>3, <1>4, <1>5, <1>6, <1>7, <1>8, <1>9, <1>10 DEF Request

LEMMA NextInv == IInv /\ [Next]_vars => IInv'
<1> SUFFICES ASSUME IInv, [Next]_vars
             PROVE  IInv'
  OBVIOUS
<1>1. CASE \E p \in Player : Connect(p)
  BY <1>1 DEF Connect, IInv
<1>2. CASE \E p \in Player, l \in Lobby : Request(p, l)
  BY <1>2, RequestInv
<1>3. CASE Observe
  <2>1. lobbies' = Settled /\ profiles' = profiles
    BY <1>3 DEF Observe
  <2>2. /\ DOMAIN lobbies' = Lobby
        /\ \A l \in Lobby : LobbyOK(lobbies'[l]) /\ Ids(lobbies'[l]) = Ids(lobbies[l])
    BY <2>1, SettledOK
  <2>3. lobbies' = [l \in Lobby |-> lobbies'[l]]
    BY <2>1 DEF Settled
  <2> QED
    BY <2>1, <2>2, <2>3 DEF IInv
<1>4. CASE \E l \in Lobby : Tick(l)
  BY <1>4, TickInv
<1>5. CASE UNCHANGED vars
  BY <1>5 DEF vars, IInv
<1> QED
  BY <1>1, <1>2, <1>3, <1>4, <1>5 DEF Next

(* The profiles are players, every lobby is sound by itself, and nobody sits *)
(* in two of them, in every reachable state.                                *)
THEOREM Invariance == Spec => []IInv
  BY InitInv, NextInv, PTL DEF Spec

(* Type correctness, for every number of players, lobbies, seats and figures. *)
THEOREM TypeCorrect == Spec => []TypeOK
<1>1. IInv => TypeOK
  BY DEF IInv, TypeOK, LobbyOK, Table
<1> QED
  BY <1>1, Invariance, PTL

(* ensure_not_in_lobby, asked in every lobby before a player is seated, keeps *)
(* him to one seat; a lobby its last player leaves is gone.                 *)
THEOREM OneSeatEach == Spec => []OneSeat
<1>1. IInv => OneSeat
  <2> SUFFICES ASSUME IInv
               PROVE  OneSeat
    OBVIOUS
  <2>1. ASSUME NEW l \in Lobby, NEW m \in Lobby,
               NEW i \in DOMAIN lobbies[l].players, NEW j \in DOMAIN lobbies[m].players,
               lobbies[l].players[i].id = lobbies[m].players[j].id
        PROVE  l = m /\ i = j
    <3>1. l = m
      BY <2>1 DEF IInv, Ids
    <3> QED
      BY <2>1, <3>1 DEF IInv, LobbyOK, Table, Distinct
  <2>2. \A l \in Lobby : lobbies[l].players = <<>> => lobbies[l] = NoLobby
    BY DEF IInv, LobbyOK, Table
  <2> QED
    BY <2>1, <2>2 DEF OneSeat
<1> QED
  BY <1>1, Invariance, PTL

(* The players of one team wear one colour after every join, team change,    *)
(* colour change and leave.                                                 *)
THEOREM SharedColor == Spec => []TeamsShareColor
<1>1. IInv => TeamsShareColor
  BY DEF IInv, LobbyOK, Table, OneColor, TeamsShareColor
<1> QED
  BY <1>1, Invariance, PTL

(* The turn of a running game is a seat whose player still has a figure,     *)
(* whoever leaves and whatever is hit.                                      *)
THEOREM PlayableTurn == Spec => []TurnIsPlayable
<1>1. IInv => TurnIsPlayable
  BY DEF IInv, LobbyOK, TurnIsPlayable
<1> QED
  BY <1>1, Invariance, PTL

-----------------------------------------------------------------------------
(* Deadlines *)

Quiet(L) == L.phase \in {"countdown", "playing"} => L.left > 0

(* A game is only paused while its turn has time left.                      *)
PauseOK(L) == L.phase = "playing" /\ L.paused => L.left > 0

DInv == \A l \in Lobby : PauseOK(lobbies[l])

LEMMA QuietFacts ==
  ASSUME NEW L \in LobbyRecord
  PROVE  /\ Quiet(CancelReady(L))
         /\ \A team \in Team \cup {NoWinner} : Quiet(Finish(L, team))
         /\ Quiet(StartGame(L)) /\ Quiet(HandOver(L))
         /\ Quiet(L) => Quiet(UpdateCountdown(L))
<1>1. Quiet(CancelReady(L))
  BY DEF Quiet, CancelReady, LobbyRecord
<1>2. \A team \in Team \cup {NoWinner} : Quiet(Finish(L, team))
  BY DEF Quiet, Finish, LobbyRecord
<1>3. Quiet(StartGame(L))
  BY DEF Quiet, StartGame, LobbyRecord
<1>4. Quiet(HandOver(L))
  BY DEF Quiet, HandOver, LobbyRecord
<1>5. Quiet(L) => Quiet(UpdateCountdown(L))
  BY DEF Quiet, UpdateCountdown, LobbyRecord
<1> QED
  BY <1>1, <1>2, <1>3, <1>4, <1>5

LEMMA AdvanceTurnQuiet ==
  ASSUME NEW L, LobbyOK(L), L.phase = "playing"
  PROVE  Quiet(AdvanceTurn(L))
<1>1. L \in LobbyRecord /\ Standing(L) # {}
  BY LobbyFacts DEF LobbyOK
<1>2. OneTeamStands(L) => LastTeamStanding(L) \in Team \cup {NoWinner}
  BY DEF OneTeamStands, LastTeamStanding
<1> QED
  BY <1>1, <1>2, QuietFacts DEF AdvanceTurn

LEMMA NormalizeTurnQuiet ==
  ASSUME NEW L \in LobbyRecord, Quiet(L), L.phase = "playing"
  PROVE  Quiet(NormalizeTurn(L))
<1>1. OneTeamStands(L) => LastTeamStanding(L) \in Team \cup {NoWinner}
  BY DEF OneTeamStands, LastTeamStanding
<1>2. CASE ~OneTeamStands(L) /\ Standing(L) # {}
  BY <1>2 DEF NormalizeTurn, Quiet, LobbyRecord
<1>3. CASE OneTeamStands(L) \/ Standing(L) = {}
  BY <1>1, <1>3, QuietFacts DEF NormalizeTurn
<1> QED
  BY <1>2, <1>3

(* What is due in a lobby is settled by advance.                            *)
LEMMA AdvanceQuiet ==
  ASSUME NEW L, LobbyOK(L), PauseOK(L)
  PROVE  Quiet(Advance(L))
<1>1. L \in LobbyRecord
  BY LobbyFacts DEF LobbyOK
<1>2. CASE Due(L) /\ L.phase # "playing"
  BY <1>1, <1>2, QuietFacts DEF Advance
<1>3. CASE Due(L) /\ L.phase = "playing"
  BY <1>3, AdvanceTurnQuiet DEF Advance
<1>4. CASE ~Due(L)
  <2>1. Advance(L) = L
    BY <1>4 DEF Advance
  <2>2. Quiet(L)
    BY <1>1, <1>4 DEF Quiet, PauseOK, Due, Running, LobbyRecord, Instant
  <2> QED
    BY <2>1, <2>2
<1> QED
  BY <1>2, <1>3, <1>4

LEMMA SettledQuiet ==
  ASSUME IInv, DInv
  PROVE  \A l \in Lobby : Quiet(Settled[l]) /\ Settled[l] \in LobbyRecord
<1> SUFFICES ASSUME NEW l \in Lobby
             PROVE  Quiet(Settled[l]) /\ Settled[l] \in LobbyRecord
  OBVIOUS
<1>1. LobbyOK(lobbies[l]) /\ PauseOK(lobbies[l])
  BY DEF IInv, DInv
<1> QED
  BY <1>1, AdvanceQuiet, SettledOK, LobbyFacts DEF LobbyOK

LEMMA LeftQuiet ==
  ASSUME NEW L, LobbyOK(L), Quiet(L), NEW i \in DOMAIN L.players
  PROVE  Quiet(Left(L, i))
<1> DEFINE ps == Without(L.players, i)
           rest == [L EXCEPT !.players = ps]
           turned == [rest EXCEPT !.turn = TurnAfterLeave(L, i)]
<1>1. Table(L) /\ L \in LobbyRecord
  BY LobbyFacts DEF LobbyOK
<1>2. ps \in Seq(PlayerRecord)
  BY <1>1, WithoutIsTable
<1>3. TurnAfterLeave(L, i) \in Nat
  BY <1>1, TurnAfterLeaveIsNat
<1>4. Left(L, i) = IF rest.players = <<>> THEN NoLobby
                   ELSE IF Open(L) THEN CancelReady(rest)
                   ELSE IF L.phase = "playing" THEN NormalizeTurn(turned) ELSE rest
  BY DEF Left
<1> HIDE DEF ps
<1>5. rest \in LobbyRecord /\ turned \in LobbyRecord
  BY <1>1, <1>2, <1>3 DEF LobbyRecord
<1>6. Quiet(rest) /\ Quiet(turned) /\ turned.phase = L.phase
  BY <1>1 DEF Quiet, LobbyRecord
<1> HIDE DEF rest, turned
<1>7. Quiet(NoLobby)
  BY DEF Quiet, NoLobby
<1> QED
  BY <1>4, <1>5, <1>6, <1>7, QuietFacts, NormalizeTurnQuiet

(* A request whose result is quiet leaves every lobby quiet.                *)
LEMMA QuietBecomes ==
  ASSUME IInv, DInv, NEW l \in Lobby, NEW L, Quiet(L),
         lobbies' = [Settled EXCEPT ![l] = L]
  PROVE  \A m \in Lobby : Quiet(lobbies'[m])
BY SettledQuiet, SettledOK

LEMMA RequestQuiet ==
  ASSUME IInv, DInv, NEW p \in Player, NEW l \in Lobby, Request(p, l)
  PROVE  \A m \in Lobby : Quiet(lobbies'[m])
<1> DEFINE L == Settled[l]
           i == Seat(p, l)
<1>1. Quiet(L) /\ L \in LobbyRecord
  BY SettledQuiet
<1>2. Seated(p, l) => i \in DOMAIN L.players /\ LobbyOK(L) /\ L.players # <<>>
  BY SeatOK
<1>3. CASE CreateLobby(p, l)
  <2> DEFINE M == [NoLobby EXCEPT !.phase = "waiting", !.players = <<NewPlayer(p, 1)>>]
  <2>1. lobbies' = [Settled EXCEPT ![l] = M]
    BY <1>3 DEF CreateLobby
  <2>2. Quiet(M)
    <3>1. NoLobby \in LobbyRecord
      BY NoLobbyOK DEF LobbyOK, Table, NoLobby
    <3> HIDE DEF NoLobby
    <3> QED
      BY <3>1 DEF Quiet, LobbyRecord
  <2> HIDE DEF M
  <2> QED
    BY <2>1, <2>2, QuietBecomes
<1>4. CASE JoinLobby(p, l)
  <2>1. Quiet(Joined(L, p))
    BY <1>1 DEF Joined, Quiet, LobbyRecord
  <2> QED
    BY <1>4, <2>1, QuietBecomes DEF JoinLobby
<1>5. CASE \E team \in Team : SetTeam(p, l, team)
  <2>1. PICK team \in Team : Seated(p, l) /\ lobbies' = [Settled EXCEPT ![l] = WithTeam(L, i, team)]
    BY <1>5 DEF SetTeam, Becomes
  <2>2. Quiet(WithTeam(L, i, team))
    BY <1>1 DEF WithTeam, CancelReady, Quiet, LobbyRecord
  <2> QED
    BY <2>1, <2>2, QuietBecomes
<1>6. CASE \E color \in Color : SetColor(p, l, color)
  <2>1. PICK color \in Color : Seated(p, l) /\ lobbies' = [Settled EXCEPT ![l] = WithColor(L, i, color)]
    BY <1>6 DEF SetColor, Becomes
  <2>2. Quiet(WithColor(L, i, color))
    BY <1>1 DEF WithColor, CancelReady, Quiet, LobbyRecord
  <2> QED
    BY <2>1, <2>2, QuietBecomes
<1>7. CASE \E ready \in BOOLEAN : SetReady(p, l, ready)
  <2>1. PICK ready \in BOOLEAN :
           lobbies' = [Settled EXCEPT ![l] = UpdateCountdown([L EXCEPT !.players[i].ready = ready])]
    BY <1>7 DEF SetReady, Becomes
  <2>2. Quiet(UpdateCountdown([L EXCEPT !.players[i].ready = ready]))
    BY <1>1 DEF UpdateCountdown, Quiet, LobbyRecord
  <2> QED
    BY <2>1, <2>2, QuietBecomes
<1>8. CASE Leave(p, l)
  <2>1. Seated(p, l) /\ lobbies' = [Settled EXCEPT ![l] = Left(L, i)]
    BY <1>8 DEF Leave, Becomes
  <2>2. Quiet(Left(L, i))
    BY <1>1, <1>2, <2>1, LeftQuiet
  <2> QED
    BY <2>1, <2>2, QuietBecomes
<1>9. CASE \E paused \in BOOLEAN : Pause(p, l, paused)
  <2>1. PICK paused \in BOOLEAN : lobbies' = [Settled EXCEPT ![l] = [L EXCEPT !.paused = paused]]
    BY <1>9 DEF Pause, Becomes
  <2>2. Quiet([L EXCEPT !.paused = paused])
    BY <1>1 DEF Quiet, LobbyRecord
  <2> QED
    BY <2>1, <2>2, QuietBecomes
<1>10. CASE EndGame(p, l)
  <2>1. lobbies' = [Settled EXCEPT ![l] = Finish(L, NoWinner)]
    BY <1>10 DEF EndGame, Becomes
  <2> QED
    BY <1>1, <2>1, QuietFacts, QuietBecomes
<1>11. CASE Measure(p, l)
  <2>1. lobbies' = [Settled EXCEPT ![l] = [L EXCEPT !.players[i].measured = @ + 1]]
    BY <1>11 DEF Measure, Becomes
  <2>2. Quiet([L EXCEPT !.players[i].measured = @ + 1])
    BY <1>1 DEF Quiet, LobbyRecord
  <2> QED
    BY <2>1, <2>2, QuietBecomes
<1>12. CASE Plot(p, l)
  <2>1. PICK hits \in HitsBy(L, i) :
           Seated(p, l) /\ MayPlay(L, i) /\ lobbies' = [Settled EXCEPT ![l] = AdvanceTurn(Struck(L, hits))]
    BY <1>12 DEF Plot, Becomes
  <2>2. LobbyOK(Struck(L, hits))
    BY <1>2, <2>1, StruckOK
  <2>3. Struck(L, hits).phase = "playing"
    BY <1>1, <2>1 DEF Struck, MayPlay, LobbyRecord
  <2> QED
    BY <2>1, <2>2, <2>3, AdvanceTurnQuiet, QuietBecomes
<1> QED
  BY <1>3, <1>4, <1>5, <1>6, <1>7, <1>8, <1>9, <1>10, <1>11, <1>12 DEF Request

LEMMA NextDue == IInv /\ DInv /\ [Next]_vars => DInv'
<1> SUFFICES ASSUME IInv, DInv, [Next]_vars
             PROVE  DInv'
  OBVIOUS
<1>1. CASE UNCHANGED lobbies
  BY <1>1 DEF DInv, PauseOK
<1>2. CASE \A l \in Lobby : Quiet(lobbies'[l])
  BY <1>2 DEF DInv, PauseOK, Quiet
<1>3. ASSUME NEW l \in Lobby, Tick(l)
      PROVE  DInv'
  <2>1. lobbies[l] \in LobbyRecord /\ DOMAIN lobbies = Lobby
    BY LobbyFacts DEF IInv, LobbyOK
  <2>2. /\ lobbies'[l] = [lobbies[l] EXCEPT !.left = lobbies[l].left - 1]
        /\ \A m \in Lobby : m # l => lobbies'[m] = lobbies[m]
    BY <1>3, <2>1 DEF Tick
  <2>3. lobbies'[l].phase = lobbies[l].phase /\ lobbies'[l].paused = lobbies[l].paused
    BY <2>1, <2>2 DEF LobbyRecord
  <2>4. ~(lobbies'[l].phase = "playing" /\ lobbies'[l].paused)
    BY <1>3, <2>3 DEF Tick, Running
  <2> QED
    BY <2>2, <2>4 DEF DInv, PauseOK
<1>4. CASE Observe
  <2>1. \A l \in Lobby : Quiet(lobbies'[l])
    BY <1>4, SettledQuiet DEF Observe
  <2> QED
    BY <1>2, <2>1
<1> QED
  BY <1>1, <1>2, <1>3, <1>4, RequestQuiet DEF Next, vars, Connect

LEMMA DueInvariance == Spec => []DInv
<1>1. Init => DInv
  <2>1. NoLobby.phase = "none"
    BY DEF NoLobby
  <2> QED
    BY <2>1 DEF Init, DInv, PauseOK
<1> QED
  BY <1>1, NextDue, Invariance, PTL DEF Spec

(* There is no timer, and none is needed: a request that calls advance, of   *)
(* anybody, leaves no lobby past its deadline.                              *)
THEOREM RequestsSettle == Spec => RequestsSettleAll
<1>1. IInv /\ DInv /\ [Next]_vars
        => [~(\E l \in Lobby : Tick(l)) /\ ~(\E p \in Player : Connect(p))
              => \A l \in Lobby : ~Due(lobbies'[l])]_vars
  <2> SUFFICES ASSUME IInv, DInv, Next, ~(\E l \in Lobby : Tick(l)),
                      ~(\E p \in Player : Connect(p)), NEW l \in Lobby
               PROVE  ~Due(lobbies'[l])
    OBVIOUS
  <2>1. Quiet(lobbies'[l])
    <3>1. CASE Observe
      BY <3>1, SettledQuiet DEF Observe
    <3>2. CASE \E p \in Player, m \in Lobby : Request(p, m)
      BY <3>2, RequestQuiet
    <3> QED
      BY <3>1, <3>2 DEF Next
  <2> QED
    BY <2>1 DEF Quiet, Due, Running
<1> QED
  BY <1>1, Invariance, DueInvariance, PTL DEF Spec, RequestsSettleAll

-----------------------------------------------------------------------------
(* Countdowns *)

(* Everybody is ready as long as a countdown goes on: whatever takes the     *)
(* readiness of a player away cancels it in the same step.                  *)
CInv == \A l \in Lobby : lobbies[l].phase = "countdown" => EveryoneReady(lobbies[l])

LEMMA PhaseFacts ==
  ASSUME NEW L \in LobbyRecord
  PROVE  /\ CancelReady(L).phase = "waiting"
         /\ \A team \in Team \cup {NoWinner} : Finish(L, team).phase = "finished"
         /\ StartGame(L).phase = "playing" /\ HandOver(L).phase = L.phase
<1>1. CancelReady(L).phase = "waiting"
  BY DEF CancelReady, LobbyRecord
<1>2. \A team \in Team \cup {NoWinner} : Finish(L, team).phase = "finished"
  BY DEF Finish, LobbyRecord
<1>3. StartGame(L).phase = "playing"
  BY DEF StartGame, LobbyRecord
<1>4. HandOver(L).phase = L.phase
  BY DEF HandOver, LobbyRecord
<1> QED
  BY <1>1, <1>2, <1>3, <1>4

(* A turn that is handed over or mended leaves the game going, or finished.  *)
LEMMA TurnPhases ==
  ASSUME NEW L \in LobbyRecord
  PROVE  /\ AdvanceTurn(L).phase \in {L.phase, "finished"}
         /\ NormalizeTurn(L).phase \in {L.phase, "finished"}
<1>1. OneTeamStands(L) => LastTeamStanding(L) \in Team \cup {NoWinner}
  BY DEF OneTeamStands, LastTeamStanding
<1>2. AdvanceTurn(L).phase \in {L.phase, "finished"}
  BY <1>1, PhaseFacts DEF AdvanceTurn
<1>3. CASE ~OneTeamStands(L) /\ Standing(L) # {}
  <2>1. NormalizeTurn(L).phase = L.phase
    BY <1>3 DEF NormalizeTurn, LobbyRecord
  <2> QED
    BY <1>2, <2>1
<1>4. CASE OneTeamStands(L) \/ Standing(L) = {}
  BY <1>1, <1>2, <1>4, PhaseFacts DEF NormalizeTurn
<1> QED
  BY <1>3, <1>4

(* A countdown that advance leaves going is one it has not touched.          *)
LEMMA AdvanceCountdown ==
  ASSUME NEW L, LobbyOK(L), Advance(L).phase = "countdown"
  PROVE  Advance(L) = L /\ ~Due(L)
<1>1. L \in LobbyRecord
  BY LobbyFacts DEF LobbyOK
<1>2. CASE Due(L) /\ L.phase # "playing"
  BY <1>1, <1>2, PhaseFacts DEF Advance
<1>3. CASE Due(L) /\ L.phase = "playing"
  <2>1. Advance(L) = AdvanceTurn(L)
    BY <1>3 DEF Advance
  <2> QED
    BY <1>1, <1>3, <2>1, TurnPhases
<1>4. CASE ~Due(L)
  BY <1>4 DEF Advance
<1> QED
  BY <1>2, <1>3, <1>4

LEMMA LeftPhase ==
  ASSUME NEW L, LobbyOK(L), NEW i \in DOMAIN L.players
  PROVE  Left(L, i).phase # "countdown"
<1> DEFINE ps == Without(L.players, i)
           rest == [L EXCEPT !.players = ps]
           turned == [rest EXCEPT !.turn = TurnAfterLeave(L, i)]
<1>1. Table(L) /\ L \in LobbyRecord
  BY LobbyFacts DEF LobbyOK
<1>2. ps \in Seq(PlayerRecord)
  BY <1>1, WithoutIsTable
<1>3. TurnAfterLeave(L, i) \in Nat
  BY <1>1, TurnAfterLeaveIsNat
<1>4. Left(L, i) = IF rest.players = <<>> THEN NoLobby
                   ELSE IF Open(L) THEN CancelReady(rest)
                   ELSE IF L.phase = "playing" THEN NormalizeTurn(turned) ELSE rest
  BY DEF Left
<1> HIDE DEF ps
<1>5. rest \in LobbyRecord /\ turned \in LobbyRecord
  BY <1>1, <1>2, <1>3 DEF LobbyRecord
<1>6. rest.phase = L.phase /\ turned.phase = L.phase
  BY <1>1 DEF LobbyRecord
<1> HIDE DEF rest, turned
<1>7. NoLobby.phase = "none"
  BY DEF NoLobby
<1>8. L.phase = "countdown" => Open(L)
  BY DEF Open
<1>9. CASE Open(L)
  BY <1>4, <1>5, <1>7, <1>9, PhaseFacts
<1>10. CASE ~Open(L) /\ L.phase = "playing"
  BY <1>4, <1>5, <1>6, <1>7, <1>10, TurnPhases
<1>11. CASE ~Open(L) /\ L.phase # "playing"
  BY <1>4, <1>6, <1>7, <1>8, <1>11
<1> QED
  BY <1>9, <1>10, <1>11

(* Only the readiness of a player can make or leave a countdown in the lobby *)
(* the request works on: a join, a leave and a change of settings cancel it. *)
LEMMA CountdownIsByReady ==
  ASSUME IInv, NEW p \in Player, NEW l \in Lobby, Request(p, l),
         lobbies'[l].phase = "countdown"
  PROVE  \E ready \in BOOLEAN : SetReady(p, l, ready)
<1> DEFINE L == Settled[l]
           i == Seat(p, l)
<1>1. DOMAIN Settled = Lobby /\ LobbyOK(L) /\ L \in LobbyRecord
  BY SettledOK, LobbyFacts DEF LobbyOK
<1>2. Seated(p, l) => i \in DOMAIN L.players /\ LobbyOK(L) /\ L.players # <<>>
  BY SeatOK
<1>3. ASSUME CreateLobby(p, l) PROVE FALSE
  <2> DEFINE M == [NoLobby EXCEPT !.phase = "waiting", !.players = <<NewPlayer(p, 1)>>]
  <2>1. lobbies'[l] = M
    BY <1>1, <1>3 DEF CreateLobby
  <2>2. NoLobby \in LobbyRecord
    BY NoLobbyOK DEF LobbyOK, Table
  <2>3. M.phase = "waiting"
    BY <2>2 DEF LobbyRecord
  <2> QED
    BY <2>1, <2>3
<1>4. ASSUME JoinLobby(p, l) PROVE FALSE
  <2>1. lobbies'[l] = Joined(L, p)
    BY <1>1, <1>4 DEF JoinLobby
  <2>2. Joined(L, p).phase = "waiting"
    BY <1>1 DEF Joined, LobbyRecord
  <2> QED
    BY <2>1, <2>2
<1>5. ASSUME NEW team \in Team, SetTeam(p, l, team) PROVE FALSE
  <2>1. lobbies'[l] = WithTeam(L, i, team)
    BY <1>1, <1>5 DEF SetTeam, Becomes
  <2>2. WithTeam(L, i, team).phase = "waiting"
    BY <1>1 DEF WithTeam, CancelReady, LobbyRecord
  <2> QED
    BY <2>1, <2>2
<1>6. ASSUME NEW color \in Color, SetColor(p, l, color) PROVE FALSE
  <2>1. lobbies'[l] = WithColor(L, i, color)
    BY <1>1, <1>6 DEF SetColor, Becomes
  <2>2. WithColor(L, i, color).phase = "waiting"
    BY <1>1 DEF WithColor, CancelReady, LobbyRecord
  <2> QED
    BY <2>1, <2>2
<1>7. ASSUME Leave(p, l) PROVE FALSE
  <2>1. Seated(p, l) /\ lobbies'[l] = Left(L, i)
    BY <1>1, <1>7 DEF Leave, Becomes
  <2> QED
    BY <1>2, <2>1, LeftPhase
<1>8. ASSUME NEW paused \in BOOLEAN, Pause(p, l, paused) PROVE FALSE
  <2>1. lobbies'[l] = [L EXCEPT !.paused = paused] /\ L.phase = "playing"
    BY <1>1, <1>8 DEF Pause, Becomes
  <2>2. [L EXCEPT !.paused = paused].phase = L.phase
    BY <1>1 DEF LobbyRecord
  <2> QED
    BY <2>1, <2>2
<1>9. ASSUME EndGame(p, l) PROVE FALSE
  <2>1. lobbies'[l] = Finish(L, NoWinner)
    BY <1>1, <1>9 DEF EndGame, Becomes
  <2> QED
    BY <1>1, <2>1, PhaseFacts
<1>10. ASSUME Measure(p, l) PROVE FALSE
  <2>1. lobbies'[l] = [L EXCEPT !.players[i].measured = @ + 1] /\ L.phase = "playing"
    BY <1>1, <1>10 DEF Measure, MayPlay, Becomes
  <2>2. [L EXCEPT !.players[i].measured = @ + 1].phase = L.phase
    BY <1>1 DEF LobbyRecord
  <2> QED
    BY <2>1, <2>2
<1>11. ASSUME Plot(p, l) PROVE FALSE
  <2>1. PICK hits \in HitsBy(L, i) :
           Seated(p, l) /\ MayPlay(L, i) /\ lobbies'[l] = AdvanceTurn(Struck(L, hits))
    BY <1>1, <1>11 DEF Plot, Becomes
  <2>2. Struck(L, hits) \in LobbyRecord
    BY <1>2, <2>1, StruckOK, LobbyFacts DEF LobbyOK
  <2>3. Struck(L, hits).phase = "playing"
    BY <1>1, <2>1 DEF Struck, MayPlay, LobbyRecord
  <2> QED
    BY <2>1, <2>2, <2>3, TurnPhases
<1> QED
  BY <1>3, <1>4, <1>5, <1>6, <1>7, <1>8, <1>9, <1>10, <1>11 DEF Request

(* What stays of a countdown that goes on over a step.                      *)
GoesOn(before, after) ==
  /\ EveryoneReady(after)
  /\ before.phase = "countdown"
       => after.players = before.players /\ after.left <= before.left

LEMMA ReadyCountdown ==
  ASSUME IInv, CInv, NEW p \in Player, NEW l \in Lobby, NEW ready \in BOOLEAN,
         SetReady(p, l, ready), lobbies'[l].phase = "countdown"
  PROVE  GoesOn(lobbies[l], lobbies'[l])
<1> DEFINE L == Settled[l]
           i == Seat(p, l)
           q == [L.players[i] EXCEPT !.ready = ready]
           ps == [L.players EXCEPT ![i] = q]
           M == [L EXCEPT !.players = ps]
<1>1. /\ i \in DOMAIN L.players /\ LobbyOK(L) /\ Table(L)
      /\ Open(L) /\ DOMAIN Settled = Lobby /\ L = Advance(lobbies[l])
  BY SeatOK, SettledOK DEF SetReady
<1>2. /\ L \in LobbyRecord /\ L.players \in [DOMAIN L.players -> PlayerRecord]
      /\ L.players[i] \in PlayerRecord
  BY <1>1, LobbyFacts
<1>3. [L EXCEPT !.players[i].ready = ready] = M
  BY <1>1, <1>2 DEF LobbyRecord
<1>4. lobbies'[l] = UpdateCountdown(M)
  BY <1>1, <1>3 DEF SetReady, Becomes
<1>5. M.players = ps /\ M.left = L.left
  BY <1>2 DEF LobbyRecord
<1>6. q.ready = ready /\ (L.players[i].ready = ready => q = L.players[i])
  BY <1>2 DEF PlayerRecord
<1>7. DOMAIN ps = DOMAIN L.players /\ ps[i] = q /\ (q = L.players[i] => ps = L.players)
  BY <1>1, <1>2
<1>8. M.phase = L.phase /\ DOMAIN M = DOMAIN L
  BY <1>2 DEF LobbyRecord
<1>9. /\ [M EXCEPT !.phase = "waiting", !.left = 0].phase = "waiting"
      /\ [M EXCEPT !.phase = "countdown", !.left = Span].players = ps
  BY <1>2 DEF LobbyRecord
<1> HIDE DEF M, ps, q, i
<1>10. /\ EveryoneReady(M) /\ lobbies'[l].players = ps
       /\ L.phase = "countdown" => lobbies'[l].left = L.left
  BY <1>4, <1>5, <1>8, <1>9 DEF UpdateCountdown
<1>11. EveryoneReady(lobbies'[l])
  BY <1>5, <1>10 DEF EveryoneReady
<1>12. ASSUME lobbies[l].phase = "countdown"
       PROVE  lobbies'[l].players = lobbies[l].players /\ lobbies'[l].left <= lobbies[l].left
  <2>1. EveryoneReady(lobbies[l]) /\ lobbies[l] \in LobbyRecord
    BY <1>12, LobbyFacts DEF CInv, IInv, LobbyOK
  <2>2. ~Due(lobbies[l])
    <3> SUFFICES ASSUME Due(lobbies[l])
                 PROVE  FALSE
      OBVIOUS
    <3>1. L = StartGame(lobbies[l])
      BY <1>1, <1>12, <2>1 DEF Advance
    <3>2. L.phase = "playing"
      BY <2>1, <3>1, PhaseFacts
    <3> QED
      BY <1>1, <3>2 DEF Open
  <2>3. L = lobbies[l]
    BY <1>1, <1>12, <2>2 DEF Advance
  <2>4. L.players[i].ready = TRUE
    BY <1>1, <1>2, <2>1, <2>3 DEF EveryoneReady, PlayerRecord
  <2>5. ready = TRUE
    BY <1>1, <1>5, <1>6, <1>7, <1>10 DEF EveryoneReady
  <2>6. ps = L.players
    BY <1>6, <1>7, <2>4, <2>5
  <2>7. lobbies[l].left \in Int
    BY <2>1 DEF LobbyRecord, Instant
  <2> QED
    BY <1>10, <1>12, <2>3, <2>6, <2>7
<1> QED
  BY <1>11, <1>12 DEF GoesOn

(* A lobby that is only settled keeps a countdown as it was.                *)
LEMMA SettledCountdown ==
  ASSUME IInv, CInv, NEW l \in Lobby, lobbies'[l] = Settled[l],
         lobbies'[l].phase = "countdown"
  PROVE  GoesOn(lobbies[l], lobbies'[l])
<1>1. LobbyOK(lobbies[l]) /\ Settled[l] = Advance(lobbies[l])
  BY SettledOK DEF IInv
<1>2. lobbies'[l] = lobbies[l]
  BY <1>1, AdvanceCountdown
<1>3. EveryoneReady(lobbies'[l])
  BY <1>2 DEF CInv
<1>4. lobbies[l].left \in Int
  BY <1>1, LobbyFacts DEF LobbyOK, LobbyRecord, Instant
<1> QED
  BY <1>2, <1>3, <1>4 DEF GoesOn

LEMMA CountdownStep ==
  ASSUME IInv, CInv, [Next]_vars, NEW l \in Lobby, lobbies'[l].phase = "countdown"
  PROVE  GoesOn(lobbies[l], lobbies'[l])
<1>1. CASE UNCHANGED lobbies
  <2>1. lobbies'[l] = lobbies[l]
    BY <1>1
  <2>2. EveryoneReady(lobbies[l])
    BY <2>1 DEF CInv
  <2>3. lobbies[l].left \in Int
    BY LobbyFacts DEF IInv, LobbyOK, LobbyRecord, Instant
  <2> QED
    BY <2>1, <2>2, <2>3 DEF GoesOn
<1>2. ASSUME NEW p \in Player, NEW m \in Lobby, Request(p, m)
      PROVE  GoesOn(lobbies[l], lobbies'[l])
  <2>1. CASE l = m
    <3>1. PICK ready \in BOOLEAN : SetReady(p, l, ready)
      BY <1>2, <2>1, CountdownIsByReady
    <3> QED
      BY <3>1, ReadyCountdown
  <2>2. CASE l # m
    <3>1. \E L : lobbies' = [Settled EXCEPT ![m] = L]
      BY <1>2 DEF Request, CreateLobby, JoinLobby, SetTeam, SetColor, SetReady, Leave,
                  Pause, EndGame, Measure, Plot, Becomes
    <3>2. lobbies'[l] = Settled[l]
      BY <2>2, <3>1, SettledOK
    <3> QED
      BY <3>2, SettledCountdown
  <2> QED
    BY <2>1, <2>2
<1>3. CASE Observe
  BY <1>3, SettledCountdown DEF Observe
<1>4. ASSUME NEW m \in Lobby, Tick(m)
      PROVE  GoesOn(lobbies[l], lobbies'[l])
  <2> DEFINE L == lobbies[l]
  <2>1. L \in LobbyRecord /\ DOMAIN lobbies = Lobby
    BY LobbyFacts DEF IInv, LobbyOK
  <2>2. lobbies'[l] = L \/ lobbies'[l] = [L EXCEPT !.left = L.left - 1]
    BY <1>4, <2>1 DEF Tick
  <2>3. lobbies'[l].players = L.players /\ lobbies'[l].phase = L.phase
    BY <2>1, <2>2 DEF LobbyRecord
  <2>5. L.left \in Int
    BY <2>1 DEF LobbyRecord, Instant
  <2>6. lobbies'[l].left = L.left \/ lobbies'[l].left = L.left - 1
    BY <2>1, <2>2 DEF LobbyRecord
  <2>7. lobbies'[l].left <= L.left
    BY <2>5, <2>6
  <2>4. EveryoneReady(lobbies'[l])
    BY <2>3 DEF CInv, EveryoneReady
  <2> QED
    BY <2>3, <2>4, <2>7 DEF GoesOn
<1> QED
  BY <1>1, <1>2, <1>3, <1>4 DEF Next, vars, Connect

LEMMA ReadyInvariance == Spec => []CInv
<1>1. Init => CInv
  <2>1. NoLobby.phase = "none"
    BY DEF NoLobby
  <2> QED
    BY <2>1 DEF Init, CInv
<1>2. IInv /\ CInv /\ [Next]_vars => CInv'
  BY CountdownStep DEF CInv, EveryoneReady, GoesOn
<1> QED
  BY <1>1, <1>2, Invariance, PTL DEF Spec

(* A countdown that goes on has the players it had, with the settings they   *)
(* had, and its deadline is not put off: unready, setting changes, joins and *)
(* leaves cancel it.                                                        *)
THEOREM Undisturbed == Spec => CountdownUndisturbed
<1>1. IInv /\ CInv /\ [Next]_vars
        => [\A l \in Lobby :
              lobbies[l].phase = "countdown" /\ lobbies'[l].phase = "countdown"
                => /\ lobbies'[l].players = lobbies[l].players
                   /\ lobbies'[l].left <= lobbies[l].left]_vars
  BY CountdownStep DEF GoesOn
<1> QED
  BY <1>1, Invariance, ReadyInvariance, PTL DEF Spec, CountdownUndisturbed

-----------------------------------------------------------------------------
(* The turn *)

OnTurn(L) == L.players[L.turn].id

(* The seat a request works on is the sender's.                             *)
LEMMA SeatIsSenders ==
  ASSUME IInv, NEW p \in Player, NEW l \in Lobby, Seated(p, l)
  PROVE  Settled[l].players[Seat(p, l)].id = p
<1>1. Ids(Settled[l]) = Ids(lobbies[l])
  BY SettledOK
<1>2. \E i \in DOMAIN Settled[l].players : Settled[l].players[i].id = p
  BY <1>1 DEF Seated, Member, Ids
<1> QED
  BY <1>2 DEF Seat, Position

(* Going round the table from a seat that stands one stays there.           *)
LEMMA FirstStandingStays ==
  ASSUME NEW L, DOMAIN L.players \subseteq Nat, NEW from \in Standing(L)
  PROVE  FirstStanding(L, from) = from
<1> DEFINE ahead == {i \in Standing(L) : i >= from}
<1>1. ahead \in SUBSET Nat /\ from \in ahead /\ from \in Nat
  BY DEF Standing
<1>2. Least(ahead) \in ahead /\ \A j \in ahead : Least(ahead) <= j
  BY <1>1, LeastExists
<1>3. FirstStanding(L, from) = Least(ahead)
  BY <1>1 DEF FirstStanding
<1>4. Least(ahead) >= from /\ Least(ahead) <= from /\ Least(ahead) \in Nat
  BY <1>1, <1>2
<1> QED
  BY <1>1, <1>3, <1>4

(* Where the others sit once seat i is removed: nobody has moved but one up, *)
(* and who sat on seat i is gone.                                           *)
LEMMA WithoutMoves ==
  ASSUME NEW L, Table(L), NEW i \in DOMAIN L.players, NEW ps, ps = Without(L.players, i)
  PROVE  /\ \A j \in DOMAIN ps : ps[j].id # L.players[i].id
         /\ \A k \in DOMAIN L.players :
               k # i => LET j == IF i < k THEN k - 1 ELSE k
                        IN  j \in DOMAIN ps /\ ps[j] = L.players[k]
<1> DEFINE n == Len(L.players)
<1>1. n \in Nat /\ DOMAIN L.players = 1..n /\ i \in 1..n
  BY LobbyFacts
<1>2. /\ DOMAIN ps = 1..(n - 1)
      /\ \A j \in 1..(n - 1) : ps[j] = IF j < i THEN L.players[j] ELSE L.players[j + 1]
  BY DEF Without
<1> HIDE DEF n
<1>3. ASSUME NEW j \in DOMAIN ps
      PROVE  ps[j].id # L.players[i].id
  <2> DEFINE k == IF j < i THEN j ELSE j + 1
  <2>1. j \in 1..(n - 1)
    BY <1>2
  <2>2. k \in 1..n /\ k # i
    BY <1>1, <2>1
  <2>3. ps[j] = L.players[k]
    BY <1>2, <2>1
  <2> HIDE DEF k
  <2>4. k \in DOMAIN L.players
    BY <1>1, <2>2
  <2> QED
    BY <2>2, <2>3, <2>4 DEF Table, Distinct
<1>4. ASSUME NEW k \in DOMAIN L.players, k # i
      PROVE  LET j == IF i < k THEN k - 1 ELSE k
             IN  j \in DOMAIN ps /\ ps[j] = L.players[k]
  <2>1. k \in 1..n
    BY <1>1
  <2>2. CASE i < k
    <3>1. k - 1 \in 1..(n - 1) /\ ~(k - 1 < i) /\ k - 1 + 1 = k
      BY <1>1, <2>1, <2>2
    <3>2. ps[k - 1] = L.players[k]
      BY <1>2, <3>1
    <3> QED
      BY <1>2, <2>2, <3>1, <3>2
  <2>3. CASE ~(i < k)
    <3>1. k \in 1..(n - 1) /\ k < i
      BY <1>1, <1>4, <2>1, <2>3
    <3>2. ps[k] = L.players[k]
      BY <1>2, <3>1
    <3> QED
      BY <1>2, <2>3, <3>1, <3>2
  <2> QED
    BY <2>2, <2>3
<1> QED
  BY <1>3, <1>4

(* A game that goes on over a leaving: the one who left is no member any     *)
(* more, and if it was not his turn the turn is whose it was.               *)
LEMMA LeftKeepsTurn ==
  ASSUME NEW L, LobbyOK(L), NEW i \in DOMAIN L.players, L.phase = "playing",
         Left(L, i).phase = "playing"
  PROVE  /\ ~Member(Left(L, i), L.players[i].id)
         /\ i # L.turn => OnTurn(Left(L, i)) = OnTurn(L)
<1> DEFINE ps == Without(L.players, i)
           t == TurnAfterLeave(L, i)
           rest == [L EXCEPT !.players = ps]
           turned == [rest EXCEPT !.turn = t]
           M == Left(L, i)
           seat == FirstStanding(turned, turned.turn)
<1>1. Table(L) /\ L \in LobbyRecord
  BY LobbyFacts DEF LobbyOK
<1>2. ps \in Seq(PlayerRecord) /\ t \in Nat
  BY <1>1, WithoutIsTable, TurnAfterLeaveIsNat
<1>3. M = IF rest.players = <<>> THEN NoLobby ELSE NormalizeTurn(turned)
  BY DEF Left, Open
<1>4. i # L.turn => t = IF i < L.turn THEN L.turn - 1 ELSE L.turn
  BY DEF TurnAfterLeave
<1>5. ps = Without(L.players, i)
  OBVIOUS
<1> HIDE DEF ps, t
<1>6. /\ \A j \in DOMAIN ps : ps[j].id # L.players[i].id
      /\ \A k \in DOMAIN L.players :
            k # i => LET j == IF i < k THEN k - 1 ELSE k
                     IN  j \in DOMAIN ps /\ ps[j] = L.players[k]
  BY <1>1, <1>5, WithoutMoves
<1>7. turned \in LobbyRecord /\ turned.players = ps /\ turned.turn = t
  BY <1>1, <1>2 DEF LobbyRecord
<1>8. NoLobby.phase = "none"
  BY DEF NoLobby
<1> HIDE DEF M
<1>9. M.phase = "playing"
  BY DEF M
<1>10. M = NormalizeTurn(turned)
  BY <1>3, <1>8, <1>9
<1> HIDE DEF rest, turned
<1>11. ~OneTeamStands(turned) /\ Standing(turned) # {}
  <2>1. OneTeamStands(turned) => LastTeamStanding(turned) \in Team \cup {NoWinner}
    BY DEF OneTeamStands, LastTeamStanding
  <2>2. \A team \in Team \cup {NoWinner} : Finish(turned, team).phase = "finished"
    BY <1>7, PhaseFacts
  <2> QED
    BY <1>9, <1>10, <2>1, <2>2 DEF NormalizeTurn
<1>12. M = [turned EXCEPT !.turn = seat, !.left = IF turned.paused THEN turned.left ELSE Span]
  BY <1>10, <1>11 DEF NormalizeTurn
<1> HIDE DEF seat
<1>13. M.players = ps /\ M.turn = seat
  BY <1>7, <1>12 DEF LobbyRecord
<1>14. ~Member(M, L.players[i].id)
  BY <1>6, <1>13 DEF Member
<1>15. ASSUME i # L.turn
       PROVE  OnTurn(M) = OnTurn(L)
  <2>1. L.turn \in DOMAIN L.players /\ L.players[L.turn].alive > 0
    BY DEF LobbyOK, Standing
  <2>2. t \in DOMAIN ps /\ ps[t] = L.players[L.turn]
    BY <1>6, <1>4, <1>15, <2>1
  <2>3. t \in Standing(turned)
    BY <1>7, <2>1, <2>2 DEF Standing
  <2>4. DOMAIN turned.players \subseteq Nat
    BY <1>2, <1>7, SeqFacts
  <2>5. seat = t
    BY <1>7, <2>3, <2>4, FirstStandingStays DEF seat
  <2> QED
    BY <1>13, <2>2, <2>5 DEF OnTurn
<1> QED
  BY <1>14, <1>15 DEF M

(* A request in a running game whose turn is not due yet.                   *)
LEMMA RequestKeepsTurn ==
  ASSUME IInv, NEW q \in Player, NEW l \in Lobby, Request(q, l),
         lobbies[l].phase = "playing", ~Due(lobbies[l]), lobbies'[l].phase = "playing",
         OnTurn(lobbies'[l]) # OnTurn(lobbies[l])
  PROVE  OnTurn(lobbies[l]) = q /\ (~Member(lobbies'[l], q) \/ Plot(q, l))
<1> DEFINE L == lobbies[l]
           i == Seat(q, l)
<1>1. Settled[l] = L /\ DOMAIN Settled = Lobby /\ LobbyOK(L) /\ L \in LobbyRecord
  <2>1. Settled[l] = Advance(L) /\ DOMAIN Settled = Lobby /\ LobbyOK(L)
    BY SettledOK DEF IInv
  <2> QED
    BY <2>1, LobbyFacts DEF Advance, LobbyOK
<1>2. Seated(q, l) => i \in DOMAIN L.players /\ L.players[i].id = q
  BY <1>1, SeatOK, SeatIsSenders
<1>3. ~Open(Settled[l])
  BY <1>1 DEF Open
<1>4. CASE CreateLobby(q, l)
  <2>1. lobbies'[l] = [NoLobby EXCEPT !.phase = "waiting", !.players = <<NewPlayer(q, 1)>>]
    BY <1>1, <1>4 DEF CreateLobby
  <2>2. lobbies'[l].phase = "waiting"
    BY <2>1 DEF NoLobby
  <2> QED
    BY <2>2
<1>5. CASE Leave(q, l)
  <2>1. Seated(q, l) /\ lobbies'[l] = Left(L, i)
    BY <1>1, <1>5 DEF Leave, Becomes
  <2>2. /\ ~Member(lobbies'[l], q)
        /\ i # L.turn => OnTurn(lobbies'[l]) = OnTurn(L)
    BY <1>1, <1>2, <2>1, LeftKeepsTurn
  <2>3. OnTurn(L) = q
    BY <1>2, <2>1, <2>2 DEF OnTurn
  <2> QED
    BY <2>2, <2>3
<1>6. CASE \E paused \in BOOLEAN : Pause(q, l, paused)
  <2>1. PICK paused \in BOOLEAN : lobbies'[l] = [L EXCEPT !.paused = paused]
    BY <1>1, <1>6 DEF Pause, Becomes
  <2>2. lobbies'[l].players = L.players /\ lobbies'[l].turn = L.turn
    BY <1>1, <2>1 DEF LobbyRecord
  <2> QED
    BY <2>2 DEF OnTurn
<1>7. CASE EndGame(q, l)
  <2>1. lobbies'[l] = Finish(L, NoWinner)
    BY <1>1, <1>7 DEF EndGame, Becomes
  <2> QED
    BY <1>1, <2>1, PhaseFacts
<1>8. CASE Measure(q, l)
  <2> DEFINE seat == [L.players[i] EXCEPT !.measured = @ + 1]
  <2>1. Seated(q, l) /\ lobbies'[l] = [L EXCEPT !.players[i].measured = @ + 1]
    BY <1>1, <1>8 DEF Measure, Becomes
  <2>2. /\ i \in DOMAIN L.players /\ L.players \in [DOMAIN L.players -> PlayerRecord]
        /\ L.turn \in DOMAIN L.players
    BY <1>1, <1>2, <2>1, LobbyFacts DEF LobbyOK, Standing
  <2>3. /\ lobbies'[l].players = [L.players EXCEPT ![i] = seat]
        /\ lobbies'[l].turn = L.turn
    BY <1>1, <2>1, <2>2 DEF LobbyRecord
  <2>4. seat.id = L.players[i].id
    BY <2>2 DEF PlayerRecord
  <2> HIDE DEF seat
  <2>5. lobbies'[l].players[L.turn].id = L.players[L.turn].id
    BY <2>2, <2>3, <2>4
  <2> QED
    BY <2>3, <2>5 DEF OnTurn
<1>9. CASE Plot(q, l)
  <2>1. Seated(q, l) /\ L.turn = i
    BY <1>1, <1>9 DEF Plot, MayPlay
  <2> QED
    BY <1>2, <1>9, <2>1 DEF OnTurn
<1>10. CASE \/ JoinLobby(q, l)
            \/ \E team \in Team : SetTeam(q, l, team)
            \/ \E color \in Color : SetColor(q, l, color)
            \/ \E ready \in BOOLEAN : SetReady(q, l, ready)
  BY <1>3, <1>10 DEF JoinLobby, SetTeam, SetColor, SetReady
<1> QED
  BY <1>4, <1>5, <1>6, <1>7, <1>8, <1>9, <1>10 DEF Request

LEMMA StepKeepsTurn ==
  ASSUME IInv, [Next]_vars, NEW l \in Lobby,
         lobbies[l].phase = "playing", ~Due(lobbies[l]), lobbies'[l].phase = "playing",
         OnTurn(lobbies'[l]) # OnTurn(lobbies[l])
  PROVE  ~Member(lobbies'[l], OnTurn(lobbies[l])) \/ Plot(OnTurn(lobbies[l]), l)
<1> DEFINE L == lobbies[l]
<1>1. /\ Settled[l] = L /\ DOMAIN Settled = Lobby /\ L \in LobbyRecord
      /\ DOMAIN lobbies = Lobby
  <2>1. /\ Settled[l] = Advance(L) /\ DOMAIN Settled = Lobby /\ LobbyOK(L)
        /\ DOMAIN lobbies = Lobby
    BY SettledOK DEF IInv
  <2> QED
    BY <2>1, LobbyFacts DEF Advance, LobbyOK
<1>2. lobbies'[l] # L
  OBVIOUS
<1>3. ASSUME NEW q \in Player, NEW m \in Lobby, Request(q, m)
      PROVE  ~Member(lobbies'[l], OnTurn(L)) \/ Plot(OnTurn(L), l)
  <2>1. CASE m = l
    BY <1>3, <2>1, RequestKeepsTurn
  <2>2. CASE m # l
    <3>1. \E K : lobbies' = [Settled EXCEPT ![m] = K]
      BY <1>3 DEF Request, CreateLobby, JoinLobby, SetTeam, SetColor, SetReady, Leave,
                  Pause, EndGame, Measure, Plot, Becomes
    <3> QED
      BY <1>1, <1>2, <2>2, <3>1
  <2> QED
    BY <2>1, <2>2
<1>4. ASSUME NEW m \in Lobby, Tick(m)
      PROVE  FALSE
  <2>1. lobbies'[l] = L \/ lobbies'[l] = [L EXCEPT !.left = L.left - 1]
    BY <1>1, <1>4 DEF Tick
  <2>2. lobbies'[l].players = L.players /\ lobbies'[l].turn = L.turn
    BY <1>1, <2>1 DEF LobbyRecord
  <2> QED
    BY <2>2 DEF OnTurn
<1>5. CASE Observe \/ UNCHANGED vars \/ \E q \in Player : Connect(q)
  BY <1>1, <1>2, <1>5 DEF Observe, vars, Connect
<1> QED
  BY <1>3, <1>4, <1>5 DEF Next

(* Whoever is on turn in a running game keeps it until he plots or leaves    *)
(* or the deadline passes: the seats that move up when another player leaves *)
(* do not take it from him.                                                 *)
THEOREM KeptTurn == Spec => TurnIsKept
<1>1. IInv /\ [Next]_vars
        => [\A l \in Lobby : \A p \in Player :
              LET before == lobbies[l]
                  after  == lobbies'[l]
              IN  /\ before.phase = "playing" /\ after.phase = "playing" /\ ~Due(before)
                  /\ before.players[before.turn].id = p
                  /\ after.players[after.turn].id # p
                  => ~Member(after, p) \/ Plot(p, l)]_vars
  BY StepKeepsTurn DEF OnTurn
<1> QED
  BY <1>1, Invariance, PTL DEF Spec, TurnIsKept

(* A deadline that has passed takes the turn away before the request that    *)
(* finds it passed is looked at.                                            *)
LEMMA LateTurnPasses ==
  ASSUME NEW L, LobbyOK(L), L.phase = "playing", Due(L), Advance(L).phase = "playing"
  PROVE  Advance(L).turn # L.turn /\ Kept(L, Advance(L))
<1>1. L \in LobbyRecord /\ Table(L) /\ Len(L.players) \in Nat
  BY LobbyFacts DEF LobbyOK
<1>2. L.turn \in Standing(L) /\ Standing(L) \subseteq Nat
  BY <1>1, LobbyFacts DEF LobbyOK, Standing
<1>3. ~OneTeamStands(L)
  <2> SUFFICES ASSUME OneTeamStands(L)
               PROVE  FALSE
    OBVIOUS
  <2>1. LastTeamStanding(L) \in Team \cup {NoWinner}
    BY DEF OneTeamStands, LastTeamStanding
  <2>2. Advance(L) = Finish(L, LastTeamStanding(L))
    BY DEF Advance, AdvanceTurn
  <2> QED
    BY <1>1, <2>1, <2>2, PhaseFacts
<1>4. PICK j \in Standing(L) : j # L.turn
  <2> SUFFICES ASSUME \A j \in Standing(L) : j = L.turn
               PROVE  FALSE
    OBVIOUS
  <2>1. TeamsStanding(L) = {L.players[L.turn].team}
    BY <1>2 DEF TeamsStanding
  <2>2. L.players[L.turn].team \in Team
    BY <1>1, <1>2, LobbyFacts DEF Standing, PlayerRecord
  <2> QED
    BY <1>3, <2>1, <2>2 DEF OneTeamStands
<1> DEFINE next == FirstStanding(L, L.turn + 1)
           ahead == {i \in Standing(L) : i >= L.turn + 1}
<1>5. Advance(L).turn = next /\ Kept(L, Advance(L))
  <2>1. Advance(L) = HandOver(L)
    BY <1>2, <1>3 DEF Advance, AdvanceTurn
  <2> QED
    BY <1>1, <1>2, <2>1, HandOverOK
<1>6. next \in Nat /\ next # L.turn
  <2>1. CASE ahead # {}
    <3>1. next = Least(ahead)
      BY <2>1 DEF FirstStanding
    <3>2. Least(ahead) \in ahead
      BY <1>2, <2>1, LeastExists
    <3>3. next \in ahead
      BY <3>1, <3>2
    <3> HIDE DEF next
    <3>4. next \in Nat /\ next >= L.turn + 1 /\ L.turn \in Nat
      BY <1>2, <3>3
    <3> QED
      BY <3>4
  <2>2. CASE ahead = {}
    <3>1. next = Least(Standing(L))
      BY <2>2 DEF FirstStanding
    <3>2. Least(Standing(L)) \in Standing(L) /\ Least(Standing(L)) <= j
      BY <1>2, <1>4, LeastExists
    <3>3. j < L.turn
      BY <1>2, <1>4, <2>2
    <3> QED
      BY <1>2, <1>4, <3>1, <3>2, <3>3
  <2> QED
    BY <2>1, <2>2
<1> QED
  BY <1>5, <1>6

(* A player who let his deadline pass cannot play his turn any more, also    *)
(* when his own request is the first to come after it.                      *)
THEOREM LateMoves == Spec => LateMoveIsLost
<1>1. IInv /\ [Next]_vars
        => [\A l \in Lobby : \A p \in Player :
              LET L == lobbies[l]
              IN  L.phase = "playing" /\ Due(L) /\ L.players[L.turn].id = p
                     => ~Plot(p, l) /\ ~Measure(p, l)]_vars
  <2> SUFFICES ASSUME IInv, NEW l \in Lobby, NEW p \in Player,
                      lobbies[l].phase = "playing", Due(lobbies[l]),
                      lobbies[l].players[lobbies[l].turn].id = p,
                      Seated(p, l), MayPlay(Settled[l], Seat(p, l))
               PROVE  FALSE
    BY DEF Plot, Measure
  <2> DEFINE L == lobbies[l]
             M == Settled[l]
  <2>1. M = Advance(L) /\ LobbyOK(L) /\ M.phase = "playing" /\ M.turn = Seat(p, l)
    BY SettledOK DEF IInv, MayPlay
  <2>2. M.turn # L.turn
    BY <2>1, LateTurnPasses, Zenon
  <2>3. LobbyOK(M) /\ M.turn \in DOMAIN M.players /\ M.players[M.turn].id = p
    BY <2>1, SeatOK, SeatIsSenders
  <2>4. /\ DOMAIN M.players = DOMAIN L.players
        /\ \A i \in DOMAIN L.players : M.players[i].id = L.players[i].id
    <3>1. Kept(L, M)
      BY <2>1, LateTurnPasses, Zenon
    <3> QED
      BY <3>1 DEF Kept
  <2>5. L.turn \in DOMAIN L.players /\ Distinct(M.players)
    BY <2>1, <2>3 DEF LobbyOK, Standing, Table
  <2> QED
    BY <2>2, <2>3, <2>4, <2>5 DEF Distinct
<1> QED
  BY <1>1, Invariance, PTL DEF Spec, LateMoveIsLost
=============================================================================
