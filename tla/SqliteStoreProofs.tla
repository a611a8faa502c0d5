-------------------------- MODULE SqliteStoreProofs --------------------------
(***************************************************************************)
(* What the service of SqliteService does to the writes of its clients,    *)
(* for every set of sessions, batches and writes and every bound, under    *)
(* the premise FaultFree: it implements DurableStore, publishes whole      *)
(* requests only, and publishes no script for a read-only session.         *)
(***************************************************************************)
EXTENDS SqliteServiceProofs

(* The writes of the first k levels. *)
Upto(levels, k) == UNION {levels[i] : i \in 1..k}

(* The levels and the doubtful writes of a session as its client will count *)
(* them once the reply under way has been heard.                            *)
Levels(s) ==
  IF pc[s] # "reply" THEN work[s]
  ELSE IF reply[s] = "ok" THEN HeardLevels(s)
  ELSE IF depth[s] = 0 THEN <<>> ELSE work[s]
Doubts(s) ==
  IF pc[s] # "reply" THEN maybe[s]
  ELSE IF depth[s] = 0 THEN {}
  ELSE IF reply[s] = "ok" THEN maybe[s] ELSE maybe[s] \cup args[s]

(* The writes of an actor's request: the ones a publication must contain,  *)
(* and the ones it may.                                                    *)
Confirming(a) == IF a \in Session THEN Confirmed(a) \cup args[a] ELSE args[a]
Mine(a) == IF a \in Session THEN Confirming(a) \cup maybe[a] ELSE args[a]

(* Client and server agree on the nesting. *)
TranscriptOf(s) ==
  /\ pc[s] \notin Publishing \cup {"restore"} => depth[s] = Len(Levels(s))
  /\ pc[s] \in Publishing => Len(HeardLevels(s)) = 0
  /\ pc[s] \in {"closed", "lookup", "load", "idle"} => args[s] = {}
  /\ args[s] # {} => op[s] \in {"execute", "begin", "inspect"}
  /\ work[s] = <<>> => maybe[s] = {}
Transcript == \A s \in Session : TranscriptOf(s)

(* An image that holds what is published, the first k levels, and perhaps  *)
(* some of the doubtful writes.                                            *)
Holds(rows, levels, k, doubts) ==
  /\ disk.rows \cup Upto(levels, k) \subseteq rows
  /\ rows \subseteq disk.rows \cup Upto(levels, k) \cup doubts

(* The images of an open transaction, from its BEGIN to the main image.    *)
Fits(begun, image, levels, doubts) ==
  /\ \A k \in 1..Len(begun) : Holds(begun[k].rows, levels, k - 1, doubts)
  /\ Holds(image.rows, levels, Len(begun), doubts)

(* The image a request is about to publish. *)
Published(a, rows) ==
  IF a \in Session /\ op[a] = "rollback" THEN rows = disk.rows
  ELSE disk.rows \cup Confirming(a) \subseteq rows /\ rows \subseteq disk.rows \cup Mine(a)

ContentsOf(a) ==
  /\ pc[a] \in Publishing => reply[a] = "ok" /\ Published(a, mem.rows)
  /\ a \in Session /\ depth[a] > 0 => Fits(stack, mem, Levels(a), Doubts(a))
Contents == \A a \in Actor : ContentsOf(a)

(* A request that made its writes durable and is about to say so. *)
Durable(a) ==
  /\ pc[a] = "reply" /\ reply[a] = "ok"
  /\ a \in Session => depth[a] = 0 /\ op[a] \in {"execute", "inspect", "commit"}

(* Every write of a session is in one place. *)
Split(s) ==
  /\ \A i \in 1..Len(work[s]) : work[s][i] \cap Upto(work[s], i - 1) = {}
  /\ Confirmed(s) \cap maybe[s] = {}
  /\ args[s] \cap (Confirmed(s) \cup maybe[s]) = {}

LedgerOf(a) ==
  /\ Mine(a) \subseteq used \ rejected
  /\ ~ Durable(a) => Mine(a) \cap disk.rows = {}
  /\ Durable(a) => Confirming(a) \subseteq disk.rows
  /\ a \in Session => Split(a)
Accounts ==
  /\ disk.rows \cup rejected \subseteq used
  /\ acked \subseteq disk.rows
  /\ rejected \cap disk.rows = {}
Ledger ==
  /\ Accounts
  /\ \A a \in Actor : LedgerOf(a)
  /\ \A a, b \in Actor : a # b => Mine(a) \cap Mine(b) = {}

SInv == IInv /\ Transcript /\ Contents /\ Ledger

-----------------------------------------------------------------------------
(* What a step of one actor leaves alone *)

OthersStand(a) ==
  /\ \A t \in Actor \ {a} : pc'[t] = pc[t] /\ args'[t] = args[t] /\ reply'[t] = reply[t]
  /\ \A t \in Session \ {a} :
       /\ op'[t] = op[t] /\ depth'[t] = depth[t] /\ readOnly'[t] = readOnly[t]
       /\ work'[t] = work[t] /\ maybe'[t] = maybe[t]

(* The database is changed by the owner of its guard, or while nobody can  *)
(* own it, and is not given to somebody else.                              *)
OwnersStand(a) ==
  \A t \in Actor \ {a} :
    /\ holder = t => UNCHANGED <<disk, mem, stack>>
    /\ holder' = t => holder = t

LEMMA OthersSame ==
  ASSUME NEW a \in Actor, OthersStand(a), NEW t \in Actor \ {a}
  PROVE  /\ t \in Session => /\ Levels(t)' = Levels(t) /\ Doubts(t)' = Doubts(t)
                             /\ HeardLevels(t)' = HeardLevels(t)
                             /\ Confirmed(t)' = Confirmed(t) /\ Split(t)' = Split(t)
         /\ Mine(t)' = Mine(t) /\ Confirming(t)' = Confirming(t)
         /\ Durable(t)' = Durable(t)
<1>1. ASSUME t \in Session
      PROVE  /\ HeardLevels(t)' = HeardLevels(t) /\ Confirmed(t)' = Confirmed(t)
             /\ Doubts(t)' = Doubts(t)
  BY <1>1 DEF OthersStand, HeardLevels, Confirmed, Doubts
<1>2. t \in Session => Levels(t)' = Levels(t)
  BY <1>1 DEF OthersStand, Levels
<1>3. t \in Session => Split(t)' = Split(t)
  BY <1>1 DEF OthersStand, Split, Upto
<1>4. Mine(t)' = Mine(t) /\ Confirming(t)' = Confirming(t)
  BY <1>1 DEF OthersStand, Mine, Confirming
<1>5. Durable(t)' = Durable(t)
  BY DEF OthersStand, Durable
<1> QED
  BY <1>1, <1>2, <1>3, <1>4, <1>5

LEMMA OthersKeep ==
  ASSUME SInv, NEW a \in Actor, OthersStand(a), OwnersStand(a), NEW t \in Actor \ {a}
  PROVE  /\ t \in Session => TranscriptOf(t)'
         /\ ContentsOf(t)'
<1> USE DEF SInv
<1>1. /\ t \in Session => Levels(t)' = Levels(t) /\ Doubts(t)' = Doubts(t)
                          /\ HeardLevels(t)' = HeardLevels(t)
      /\ Mine(t)' = Mine(t) /\ Confirming(t)' = Confirming(t)
  BY OthersSame
<1>2. t \in Session => TranscriptOf(t)'
  BY <1>1 DEF Transcript, TranscriptOf, OthersStand
<1>3. CASE holder # t
  <2>1. pc[t] \notin Owning /\ (t \in Session => ~ (depth[t] > 0)) /\ holder' # t
    BY <1>3 DEF IInv, Locking, OwnersStand
  <2>2. pc[t]' \notin Publishing /\ (t \in Session => ~ (depth[t]' > 0)) /\ holder' # t
    BY <2>1 DEF OthersStand, Owning
  <2> QED
    BY <1>2, <2>2 DEF ContentsOf
<1>4. CASE holder = t
  <2>1. UNCHANGED <<disk, mem, stack>>
    BY <1>4 DEF OwnersStand
  <2>2. ContentsOf(t) /\ pc[t]' = pc[t] /\ reply[t]' = reply[t]
        /\ (t \in Session => op[t]' = op[t] /\ depth[t]' = depth[t] /\ readOnly[t]' = readOnly[t])
    BY DEF Contents, OthersStand
  <2>3. Published(t, mem.rows)' = Published(t, mem.rows)
    BY <1>1, <2>1, <2>2 DEF Published
  <2>4. t \in Session => Fits(stack, mem, Levels(t), Doubts(t))' = Fits(stack, mem, Levels(t), Doubts(t))
    BY <1>1, <2>1 DEF Fits, Holds, Upto
  <2> QED
    BY <1>2, <1>4, <2>2, <2>3, <2>4 DEF ContentsOf
<1> QED
  BY <1>2, <1>3, <1>4

LEMMA LedgerStep ==
  ASSUME Ledger, NEW a \in Actor, OthersStand(a),
         used \subseteq used', rejected' \subseteq rejected \cup Mine(a),
         Mine(a)' \subseteq Mine(a) \cup (used' \ used),
         disk.rows \subseteq disk'.rows, disk'.rows \subseteq disk.rows \cup Mine(a),
         Accounts', LedgerOf(a)'
  PROVE  Ledger'
<1>1. ASSUME NEW t \in Actor \ {a}
      PROVE  LedgerOf(t)' /\ Mine(t)' \cap Mine(a)' = {}
  <2>1. /\ Mine(t)' = Mine(t) /\ Confirming(t)' = Confirming(t) /\ Durable(t)' = Durable(t)
        /\ t \in Session => Split(t)' = Split(t)
    BY OthersSame
  <2>2. /\ LedgerOf(t) /\ Mine(t) \cap Mine(a) = {}
    BY DEF Ledger
  <2>3. Mine(t)' \subseteq used' \ rejected' /\ Mine(t)' \cap Mine(a)' = {}
    BY <2>1, <2>2 DEF LedgerOf
  <2>4. ~ Durable(t) => Mine(t) \cap disk'.rows = {}
    BY <2>2 DEF LedgerOf
  <2>5. Durable(t) => Confirming(t) \subseteq disk'.rows
    BY <2>2 DEF LedgerOf
  <2>6. t \in Session => Split(t)
    BY <2>2 DEF LedgerOf
  <2> QED
    BY <2>1, <2>3, <2>4, <2>5, <2>6 DEF LedgerOf
<1>2. ASSUME NEW t \in Actor \ {a}, NEW u \in Actor \ {a}, t # u
      PROVE  Mine(t)' \cap Mine(u)' = {}
  BY <1>2, OthersSame DEF Ledger
<1> QED
  BY <1>1, <1>2 DEF Ledger

(* Two parts of a step: what others keep, and what the actor has to show.  *)
LEMMA ActorStep ==
  ASSUME SInv, IInv', NEW a \in Actor, OthersStand(a), OwnersStand(a), Ledger',
         a \in Session => TranscriptOf(a)', ContentsOf(a)'
  PROVE  SInv'
<1>1. Transcript'
  BY OthersKeep DEF Transcript, Actor
<1>2. Contents'
  BY OthersKeep DEF Contents
<1> QED
  BY <1>1, <1>2 DEF SInv

-----------------------------------------------------------------------------
(* Levels *)

LEMMA UptoSame ==
  ASSUME NEW levels, NEW others, NEW k \in Nat, \A i \in 1..k : levels[i] = others[i]
  PROVE  Upto(levels, k) = Upto(others, k)
BY DEF Upto

LEMMA UptoNone ==
  ASSUME NEW levels
  PROVE  Upto(levels, 0) = {}
BY DEF Upto

LEMMA UptoStep ==
  ASSUME NEW levels, NEW k \in Nat \ {0}
  PROVE  Upto(levels, k) = Upto(levels, k - 1) \cup levels[k]
<1>1. \A w : w \in Upto(levels, k) <=> \E i \in 1..k : w \in levels[i]
  BY DEF Upto
<1>2. \A w : w \in Upto(levels, k - 1) <=> \E i \in 1..(k - 1) : w \in levels[i]
  BY DEF Upto
<1>3. \A i : i \in 1..k <=> i \in 1..(k - 1) \/ i = k
  OBVIOUS
<1>4. \A w : w \in Upto(levels, k) <=> w \in Upto(levels, k - 1) \/ w \in levels[k]
  BY <1>1, <1>2, <1>3
<1> QED
  BY <1>4

LEMMA ConfirmedUpto ==
  ASSUME TypeOK, NEW s \in Session
  PROVE  /\ Confirmed(s) = Upto(work[s], Len(work[s]))
         /\ Len(work[s]) \in Nat
         /\ work[s] \in Seq(SUBSET Write)
<1>1. work[s] \in Seq(SUBSET Write)
  BY DEF TypeOK
<1>2. DOMAIN work[s] = 1..Len(work[s]) /\ Len(work[s]) \in Nat
  BY <1>1
<1>3. ToSet(work[s]) = {work[s][i] : i \in 1..Len(work[s])}
  BY <1>2 DEF ToSet
<1> QED
  BY <1>1, <1>2, <1>3 DEF Confirmed, Upto

LEMMA FrontLast ==
  ASSUME NEW S, NEW levels \in Seq(S), Len(levels) > 0
  PROVE  /\ Front(levels) \in Seq(S)
         /\ Len(Front(levels)) = Len(levels) - 1
         /\ \A i \in 1..(Len(levels) - 1) : Front(levels)[i] = levels[i]
         /\ Last(levels) = levels[Len(levels)]
         /\ Last(levels) \in S
<1>1. Len(levels) \in Nat /\ Len(levels) >= 1
  OBVIOUS
<1>2. SubSeq(levels, 1, Len(levels) - 1) \in Seq(S)
  BY <1>1
<1>5. Len(SubSeq(levels, 1, Len(levels) - 1)) = Len(levels) - 1
  <2>1. \A n \in Nat : n >= 1 => Len(SubSeq(levels, 1, n - 1)) = n - 1
    OBVIOUS
  <2> QED
    BY <1>1, <2>1
<1>4. ASSUME NEW i \in 1..(Len(levels) - 1)
      PROVE  SubSeq(levels, 1, Len(levels) - 1)[i] = levels[i]
  <2>1. i \in Nat /\ i >= 1 /\ i <= Len(levels) - 1
    BY <1>1
  <2> QED
    BY <1>1, <2>1
<1>3. levels[Len(levels)] \in S
  BY <1>1
<1> QED
  BY <1>2, <1>3, <1>4, <1>5 DEF Front, Last

LEMMA EmptyLevels ==
  ASSUME NEW S, NEW levels \in Seq(S), Len(levels) = 0
  PROVE  levels = <<>>
OBVIOUS

LEMMA LevelsFrontLast ==
  ASSUME NEW levels \in Seq(SUBSET Write), Len(levels) > 0
  PROVE  /\ Front(levels) \in Seq(SUBSET Write)
         /\ Len(Front(levels)) = Len(levels) - 1
         /\ \A i \in 1..(Len(levels) - 1) : Front(levels)[i] = levels[i]
         /\ Last(levels) = levels[Len(levels)]
         /\ Last(levels) \in SUBSET Write
<1> DEFINE S == SUBSET Write
<1>1. levels \in Seq(S)
  OBVIOUS
<1> HIDE DEF S
<1>2. /\ Front(levels) \in Seq(S) /\ Len(Front(levels)) = Len(levels) - 1
      /\ \A i \in 1..(Len(levels) - 1) : Front(levels)[i] = levels[i]
      /\ Last(levels) = levels[Len(levels)] /\ Last(levels) \in S
  BY <1>1, FrontLast
<1> QED
  BY <1>2 DEF S

(* How the client's count changes with an Ok reply, command by command.    *)
LEMMA HeardBegin ==
  ASSUME TypeOK, NEW s \in Session, op[s] = "begin"
  PROVE  LET L == work[s]
             H == HeardLevels(s)
             n == Len(work[s])
         IN  /\ H \in Seq(SUBSET Write) /\ Len(H) = n + 1
             /\ \A i \in 1..n : H[i] = L[i]
             /\ H[n + 1] = args[s]
<1>1. work[s] \in Seq(SUBSET Write) /\ Len(work[s]) \in Nat
  BY ConfirmedUpto
<1>2. HeardLevels(s) = Append(work[s], args[s])
  BY DEF HeardLevels
<1> DEFINE x == args[s]
<1>3. x \in SUBSET Write
  BY DEF TypeOK, Actor
<1> HIDE DEF x
<1>4. /\ Append(work[s], x) \in Seq(SUBSET Write)
      /\ Len(Append(work[s], x)) = Len(work[s]) + 1
      /\ \A i \in 1..Len(work[s]) : Append(work[s], x)[i] = work[s][i]
      /\ Append(work[s], x)[Len(work[s]) + 1] = x
  BY <1>1, <1>3
<1> QED
  BY <1>2, <1>4 DEF x

LEMMA HeardExecute ==
  ASSUME TypeOK, NEW s \in Session, op[s] \in {"execute", "inspect"}, Len(work[s]) > 0
  PROVE  LET L == work[s]
             H == HeardLevels(s)
             n == Len(work[s])
         IN  /\ H \in Seq(SUBSET Write) /\ Len(H) = n
             /\ \A i \in 1..(n - 1) : H[i] = L[i]
             /\ H[n] = L[n] \cup args[s]
<1>1. work[s] \in Seq(SUBSET Write) /\ Len(work[s]) \in Nat /\ args[s] \in SUBSET Write
  BY ConfirmedUpto DEF TypeOK, Actor
<1>2. HeardLevels(s) = Append(Front(work[s]), Last(work[s]) \cup args[s])
  BY DEF HeardLevels
<1>3. Last(work[s]) \cup args[s] \in SUBSET Write
  BY <1>1, LevelsFrontLast
<1> DEFINE F == Front(work[s])
           x == Last(work[s]) \cup args[s]
<1>4. F \in Seq(SUBSET Write) /\ Len(F) = Len(work[s]) - 1
      /\ \A i \in 1..(Len(work[s]) - 1) : F[i] = work[s][i]
  BY <1>1, LevelsFrontLast
<1>5. x = work[s][Len(work[s])] \cup args[s]
  BY <1>1, LevelsFrontLast
<1> HIDE DEF F, x
<1>6. /\ Append(F, x) \in Seq(SUBSET Write) /\ Len(Append(F, x)) = Len(work[s])
      /\ \A i \in 1..(Len(work[s]) - 1) : Append(F, x)[i] = F[i]
      /\ Append(F, x)[Len(work[s])] = x
  BY <1>1, <1>3, <1>4 DEF x
<1> QED
  BY <1>2, <1>4, <1>5, <1>6 DEF F, x

LEMMA HeardCommit ==
  ASSUME TypeOK, NEW s \in Session, op[s] = "commit", Len(work[s]) > 1
  PROVE  LET L == work[s]
             H == HeardLevels(s)
             n == Len(work[s])
         IN  /\ H \in Seq(SUBSET Write) /\ Len(H) = n - 1
             /\ \A i \in 1..(n - 2) : H[i] = L[i]
             /\ H[n - 1] = L[n - 1] \cup L[n]
<1> DEFINE n == Len(work[s])
           F == Front(work[s])
           G == Front(F)
           x == Last(F) \cup Last(work[s])
<1>1. work[s] \in Seq(SUBSET Write) /\ n \in Nat /\ n > 1
  BY ConfirmedUpto
<1>2. HeardLevels(s) = Append(G, x)
  <2>1. \A k \in Nat : k > 1 => k # 1
    OBVIOUS
  <2> QED
    BY <1>1, <2>1, Zenon DEF HeardLevels
<1>3. /\ F \in Seq(SUBSET Write) /\ Len(F) = n - 1
      /\ \A i \in 1..(n - 1) : F[i] = work[s][i]
      /\ Last(work[s]) = work[s][n] /\ Last(work[s]) \in SUBSET Write
  BY <1>1, LevelsFrontLast
<1> HIDE DEF F
<1>4. /\ G \in Seq(SUBSET Write) /\ Len(G) = n - 2
      /\ \A i \in 1..(n - 2) : G[i] = F[i]
      /\ Last(F) = F[n - 1] /\ Last(F) \in SUBSET Write
  BY <1>1, <1>3, LevelsFrontLast
<1>5. x = work[s][n - 1] \cup work[s][n] /\ x \in SUBSET Write
  BY <1>1, <1>3, <1>4
<1>6. \A i \in 1..(n - 2) : G[i] = work[s][i]
  BY <1>1, <1>3, <1>4
<1> HIDE DEF G, x
<1>7. /\ Append(G, x) \in Seq(SUBSET Write) /\ Len(Append(G, x)) = n - 1
      /\ \A i \in 1..(n - 2) : Append(G, x)[i] = G[i]
      /\ Append(G, x)[n - 1] = x
  BY <1>1, <1>4, <1>5
<1> QED
  BY <1>2, <1>5, <1>6, <1>7

LEMMA HeardFront ==
  ASSUME TypeOK, NEW s \in Session, op[s] \in {"commit", "rollback"}, Len(work[s]) > 0,
         op[s] = "commit" => Len(work[s]) = 1
  PROVE  LET L == work[s]
             H == HeardLevels(s)
             n == Len(work[s])
         IN  /\ H \in Seq(SUBSET Write) /\ Len(H) = n - 1
             /\ \A i \in 1..(n - 1) : H[i] = L[i]
<1>1. work[s] \in Seq(SUBSET Write) /\ Len(work[s]) \in Nat
  BY ConfirmedUpto
<1>2. HeardLevels(s) = Front(work[s])
  BY <1>1 DEF HeardLevels
<1> QED
  BY <1>1, <1>2, LevelsFrontLast

LEMMA HeardNothing ==
  ASSUME TypeOK, NEW s \in Session, op[s] # "begin",
         op[s] \in {"execute", "inspect", "commit", "rollback"} => Len(work[s]) = 0
  PROVE  HeardLevels(s) = work[s]
<1>1. Len(work[s]) \in Nat
  BY ConfirmedUpto
<1> QED
  BY <1>1 DEF HeardLevels

(* The levels the client counts after an Ok reply hold nothing new, and    *)
(* share nothing.                                                          *)
LEMMA HeardSplit ==
  ASSUME TypeOK, NEW s \in Session, Split(s)
  PROVE  LET H == HeardLevels(s)
         IN  /\ H \in Seq(SUBSET Write)
             /\ Upto(H, Len(H)) \subseteq Confirming(s)
             /\ \A i \in 1..Len(H) : H[i] \cap Upto(H, i - 1) = {}
<1> DEFINE L == work[s]
           H == HeardLevels(s)
           n == Len(L)
<1>1. L \in Seq(SUBSET Write) /\ n \in Nat /\ Confirmed(s) = Upto(L, n)
      /\ Confirming(s) = Confirmed(s) \cup args[s]
  BY ConfirmedUpto DEF Confirming
<1>2. \A i \in 1..n : L[i] \cap Upto(L, i - 1) = {} /\ L[i] \cap args[s] = {}
  <2>1. \A i \in 1..n : L[i] \subseteq Upto(L, n)
    BY DEF Upto
  <2> QED
    BY <1>1, <2>1 DEF Split
<1>3. ASSUME NEW m \in Nat, m <= n, \A i \in 1..m : H[i] = L[i]
      PROVE  /\ \A k \in 0..m : Upto(H, k) = Upto(L, k)
             /\ \A i \in 1..m : H[i] \cap Upto(H, i - 1) = {}
             /\ Upto(H, m) \subseteq Confirmed(s)
  <2>1. ASSUME NEW k \in 0..m
        PROVE  Upto(H, k) = Upto(L, k)
    BY <1>3, UptoSame
  <2>2. Upto(L, m) \subseteq Upto(L, n)
    BY <1>1, <1>3 DEF Upto
  <2> QED
    BY <1>1, <1>2, <1>3, <2>1, <2>2
<1> HIDE DEF L, H, n
<1>4. CASE op[s] = "begin"
  <2>1. H \in Seq(SUBSET Write) /\ Len(H) = n + 1 /\ (\A i \in 1..n : H[i] = L[i]) /\ H[n + 1] = args[s]
    BY <1>4, HeardBegin DEF L, H, n
  <2>2. (\A i \in 1..n : H[i] \cap Upto(H, i - 1) = {}) /\ Upto(H, n) \subseteq Confirmed(s)
    BY <1>1, <1>3, <2>1
  <2>5. args[s] \cap Confirmed(s) = {}
    BY DEF Split
  <2>3. Upto(H, n + 1) = Upto(H, n) \cup H[n + 1]
    BY <1>1, UptoStep
  <2>4. \A i \in 1..(n + 1) : i \in 1..n \/ i = n + 1
    BY <1>1
  <2>6. \A i \in 1..(n + 1) : H[i] \cap Upto(H, i - 1) = {}
    <3>1. H[n + 1] \cap Upto(H, n) = {} /\ (n + 1) - 1 = n
      BY <1>1, <2>1, <2>2, <2>5
    <3> QED
      BY <2>2, <2>4, <3>1
  <2>7. Upto(H, n + 1) \subseteq Confirming(s)
    BY <1>1, <2>1, <2>2, <2>3
  <2> QED
    BY <2>1, <2>6, <2>7 DEF H
<1>5. CASE op[s] \in {"execute", "inspect"} /\ n > 0
  <2>1. H \in Seq(SUBSET Write) /\ Len(H) = n /\ (\A i \in 1..(n - 1) : H[i] = L[i])
        /\ H[n] = L[n] \cup args[s]
    BY <1>5, HeardExecute DEF L, H, n
  <2>2. /\ \A i \in 1..(n - 1) : H[i] \cap Upto(H, i - 1) = {}
        /\ Upto(H, n - 1) = Upto(L, n - 1)
    BY <1>1, <1>3, <1>5, <2>1
  <2>3. Upto(H, n) = Upto(H, n - 1) \cup H[n] /\ Upto(L, n) = Upto(L, n - 1) \cup L[n]
    BY <1>1, <1>5, UptoStep
  <2>4. args[s] \cap Upto(L, n) = {}
    BY <1>1 DEF Split
  <2>5. H[n] \cap Upto(H, n - 1) = {}
    BY <1>1, <1>2, <1>5, <2>1, <2>2, <2>3, <2>4
  <2>6. \A i \in 1..n : i \in 1..(n - 1) \/ i = n
    BY <1>1
  <2> QED
    BY <1>1, <2>1, <2>2, <2>3, <2>5, <2>6 DEF H
<1>6. CASE op[s] = "commit" /\ n > 1
  <2>1. H \in Seq(SUBSET Write) /\ Len(H) = n - 1 /\ (\A i \in 1..(n - 2) : H[i] = L[i])
        /\ H[n - 1] = L[n - 1] \cup L[n]
    BY <1>6, HeardCommit DEF L, H, n
  <2>2. /\ \A i \in 1..(n - 2) : H[i] \cap Upto(H, i - 1) = {}
        /\ Upto(H, n - 2) = Upto(L, n - 2)
    BY <1>1, <1>3, <1>6, <2>1
  <2>3. /\ Upto(H, n - 1) = Upto(H, n - 2) \cup H[n - 1]
        /\ Upto(L, n) = Upto(L, n - 1) \cup L[n]
        /\ Upto(L, n - 1) = Upto(L, n - 2) \cup L[n - 1]
    <3>1. n - 1 \in Nat \ {0} /\ n \in Nat \ {0} /\ (n - 1) - 1 = n - 2
      BY <1>1, <1>6
    <3> QED
      BY <3>1, UptoStep
  <2>4. L[n] \cap Upto(L, n - 1) = {} /\ L[n - 1] \cap Upto(L, n - 2) = {}
    <3>1. n \in 1..n /\ n - 1 \in 1..n /\ (n - 1) - 1 = n - 2
      BY <1>1, <1>6
    <3> QED
      BY <1>2, <3>1
  <2>5. H[n - 1] \cap Upto(H, n - 2) = {}
    BY <2>1, <2>2, <2>3, <2>4
  <2>6. \A i \in 1..(n - 1) : i \in 1..(n - 2) \/ i = n - 1
    BY <1>1
  <2>7. (n - 1) - 1 = n - 2
    BY <1>1
  <2> QED
    BY <1>1, <2>1, <2>2, <2>3, <2>5, <2>6, <2>7 DEF H
<1>7. CASE op[s] \in {"commit", "rollback"} /\ n > 0 /\ (op[s] = "commit" => n = 1)
  <2>1. H \in Seq(SUBSET Write) /\ Len(H) = n - 1 /\ (\A i \in 1..(n - 1) : H[i] = L[i])
    BY <1>7, HeardFront DEF L, H, n
  <2>2. n - 1 \in Nat /\ n - 1 <= n
    BY <1>1, <1>7
  <2> QED
    BY <1>1, <1>3, <2>1, <2>2 DEF H
<1>8. CASE op[s] # "begin" /\ (op[s] \in {"execute", "inspect", "commit", "rollback"} => n = 0)
  <2>1. H = L
    BY <1>8, HeardNothing DEF L, H, n
  <2> QED
    BY <1>1, <1>2, <2>1 DEF H, n
<1> QED
  BY <1>1, <1>4, <1>5, <1>6, <1>7, <1>8

-----------------------------------------------------------------------------
(* A session's command *)

LEMMA HoldsMore ==
  ASSUME NEW rows, NEW levels, NEW k, NEW doubts, NEW more, doubts \subseteq more,
         Holds(rows, levels, k, doubts)
  PROVE  Holds(rows, levels, k, more)
BY DEF Holds

LEMMA FitsMore ==
  ASSUME NEW begun, NEW image, NEW levels, NEW doubts, NEW more, doubts \subseteq more,
         Fits(begun, image, levels, doubts)
  PROVE  Fits(begun, image, levels, more)
BY HoldsMore DEF Fits

(* A session about to run a command: its levels are the connection's.      *)
LEMMA RunState ==
  ASSUME SInv, NEW s \in Session, pc[s] = "run"
  PROVE  /\ holder = s
         /\ depth[s] \in Nat /\ depth[s] = Len(work[s]) /\ depth[s] = Len(stack)
         /\ stack \in Seq(Image) /\ mem \in Image /\ disk \in Image
         /\ work[s] \in Seq(SUBSET Write)
         /\ depth[s] = 0 => mem = disk /\ stack = <<>> /\ maybe[s] = {} /\ Confirmed(s) = {}
         /\ depth[s] > 0 => stack[1] = disk /\ before[s] = disk
         /\ Fits(stack, mem, work[s], maybe[s])
         /\ Confirmed(s) = Upto(work[s], depth[s])
<1> USE DEF Actor
<1>1. /\ depth[s] \in Nat /\ stack \in Seq(Image) /\ mem \in Image /\ disk \in Image
      /\ work[s] \in Seq(SUBSET Write) /\ holder = s
  BY DEF SInv, IInv, TypeOK, Images, Locking, Owning
<1>2. depth[s] = Len(work[s])
  BY DEF SInv, Transcript, TranscriptOf, Levels, Publishing
<1>3. depth[s] = 0 => stack = <<>> /\ mem = disk
  <2>1. \A t \in Session : t # s => depth[t] = 0
    BY <1>1 DEF SInv, IInv, TypeOK, Locking
  <2>a. \A a \in Actor : pc[a] # "restore"
    BY <1>1 DEF SInv, IInv, Locking, Owning
  <2>2. depth[s] = 0 => stack = <<>>
    <3>1. depth[s] = 0 => \A t \in Session : ~ (depth[t] > 0)
      BY <2>1
    <3> QED
      BY <2>a, <3>1 DEF SInv, IInv, Nesting
  <2> QED
    BY <2>2 DEF SInv, IInv, Images
<1>4. depth[s] > 0 => depth[s] = Len(stack) /\ Head(stack) = disk /\ before[s] = disk
  BY DEF SInv, IInv, Nesting, Images
<1>5. depth[s] = Len(stack) /\ (depth[s] > 0 => stack[1] = disk)
  BY <1>1, <1>3, <1>4
<1>6. Confirmed(s) = Upto(work[s], depth[s])
  BY <1>2, ConfirmedUpto DEF SInv, IInv
<1>7. depth[s] = 0 => work[s] = <<>>
  <2> DEFINE S == SUBSET Write
  <2>1. work[s] \in Seq(S)
    BY <1>1
  <2> HIDE DEF S
  <2> QED
    BY <1>2, <2>1, EmptyLevels
<1>8. depth[s] = 0 => maybe[s] = {} /\ Confirmed(s) = {}
  BY <1>6, <1>7, UptoNone DEF SInv, Transcript, TranscriptOf
<1>9. Fits(stack, mem, work[s], maybe[s])
  <2>1. CASE depth[s] = 0
    BY <1>3, <1>5, <1>8, <2>1, UptoNone DEF Fits, Holds
  <2>2. CASE depth[s] > 0
    <3>1. Levels(s) = work[s] /\ Doubts(s) = maybe[s]
      BY DEF Levels, Doubts
    <3> QED
      BY <2>2, <3>1 DEF SInv, Contents, ContentsOf
  <2> QED
    BY <1>1, <2>1, <2>2
<1> QED
  BY <1>1, <1>2, <1>3, <1>4, <1>5, <1>6, <1>8, <1>9

(* What a result of run means for the client, whatever Session::command    *)
(* makes of it.                                                            *)
LevelsAfter(s, r) ==
  IF r.ok THEN HeardLevels(s) ELSE IF NextDepth(s, r) = 0 THEN <<>> ELSE work[s]
DoubtsAfter(s, r) == IF r.ok THEN maybe[s] ELSE maybe[s] \cup args[s]
Outcome(s, r) ==
  /\ NextDepth(s, r) = Len(LevelsAfter(s, r))
  /\ NextDepth(s, r) > 0 => Fits(r.stack, r.mem, LevelsAfter(s, r), DoubtsAfter(s, r))
  /\ NextDepth(s, r) = 0 /\ r.ok => Published(s, r.mem.rows)
  /\ NextDepth(s, r) = 0 /\ ~ r.ok /\ depth[s] > 0 => r.mem = disk

LEMMA NothingOutcome ==
  ASSUME SInv, NEW s \in Session, pc[s] = "run", NEW ok \in BOOLEAN, NEW snapshot,
         ok => HeardLevels(s) = work[s] /\ args[s] = {}
  PROVE  Outcome(s, Nothing(s, ok, snapshot))
<1> DEFINE r == Nothing(s, ok, snapshot)
<1>1. r.ok = ok /\ r.mem = mem /\ r.stack = stack /\ r.depth = depth[s]
  BY DEF Nothing, Result
<1>2. /\ depth[s] \in Nat /\ depth[s] = Len(work[s]) /\ stack \in Seq(Image) /\ depth[s] = Len(stack)
      /\ depth[s] = 0 => mem = disk /\ stack = <<>> /\ Confirmed(s) = {} /\ maybe[s] = {}
      /\ Fits(stack, mem, work[s], maybe[s])
  BY RunState
<1>3. NextDepth(s, r) = depth[s]
  BY <1>1, <1>2 DEF NextDepth
<1> HIDE DEF r
<1>4. Len(LevelsAfter(s, r)) = depth[s] /\ (depth[s] > 0 => LevelsAfter(s, r) = work[s])
  <2>1. LevelsAfter(s, r) = IF ok \/ depth[s] # 0 THEN work[s] ELSE <<>>
    BY <1>1, <1>3 DEF LevelsAfter
  <2>2. Len(<<>>) = 0
    OBVIOUS
  <2>3. depth[s] > 0 => depth[s] # 0
    BY <1>2
  <2> QED
    BY <1>2, <2>1, <2>2, <2>3
<1>5. Fits(stack, mem, work[s], DoubtsAfter(s, r))
  <2>1. maybe[s] \subseteq DoubtsAfter(s, r)
    BY DEF DoubtsAfter
  <2> QED
    BY <1>2, <2>1, FitsMore
<1>6. depth[s] = 0 /\ ok => Published(s, mem.rows)
  BY <1>2 DEF Published, Confirming, Mine
<1>7. ~ (depth[s] = 0 /\ depth[s] > 0)
  BY <1>2
<1>8. Outcome(s, r)
  BY <1>1, <1>2, <1>3, <1>4, <1>5, <1>6, <1>7 DEF Outcome
<1> QED
  BY <1>8 DEF r

LEMMA AutoRollbackOutcome ==
  ASSUME SInv, NEW s \in Session, pc[s] = "run", NEW r \in AutoRollback(s)
  PROVE  Outcome(s, r)
<1>1. /\ depth[s] \in Nat /\ depth[s] # 0
      /\ r = Result(FALSE, Head(stack), <<>>, depth[s], NoImage)
  BY RunState DEF AutoRollback
<1>2. Head(stack) = disk
  BY <1>1, RunState
<1>3. r.ok = FALSE /\ r.mem = disk /\ r.stack = <<>>
  BY <1>1, <1>2 DEF Result
<1>4. NextDepth(s, r) = 0
  BY <1>3 DEF NextDepth
<1>5. LevelsAfter(s, r) = <<>>
  BY <1>3, <1>4 DEF LevelsAfter
<1> QED
  BY <1>3, <1>4, <1>5 DEF Outcome

LEMMA WrittenRows ==
  ASSUME TypeOK, NEW s \in Session
  PROVE  Written(s).rows = mem.rows \cup args[s] /\ (args[s] = {} => Written(s) = mem)
BY DEF TypeOK, Image, Written

LEMMA BeginOutcome ==
  ASSUME FaultFree, SInv, NEW s \in Session, pc[s] = "run", op[s] = "begin",
         NEW r \in BeginResults(s)
  PROVE  Outcome(s, r)
<1>1. CASE r = Nothing(s, FALSE, Snapshot(s))
  BY <1>1, NothingOutcome
<1>2. CASE r = Result(TRUE, Written(s), Append(stack, mem), depth[s] + 1, Snapshot(s))
  <2> DEFINE L == work[s]
             H == HeardLevels(s)
             n == depth[s]
             w == Written(s)
  <2>1. /\ n \in Nat /\ n = Len(L) /\ stack \in Seq(Image) /\ mem \in Image /\ n = Len(stack)
        /\ Fits(stack, mem, L, maybe[s])
    BY RunState
  <2>2. H \in Seq(SUBSET Write) /\ Len(H) = n + 1 /\ (\A i \in 1..n : H[i] = L[i]) /\ H[n + 1] = args[s]
    BY <2>1, HeardBegin DEF SInv, IInv
  <2>a. w.rows = mem.rows \cup args[s]
    BY WrittenRows DEF SInv, IInv
  <2> HIDE DEF L, H, n, w
  <2>3. r.ok = TRUE /\ r.mem = w /\ r.stack = Append(stack, mem) /\ r.depth = n + 1
    BY <1>2 DEF Result, n, w
  <2>4. NextDepth(s, r) = n + 1 /\ LevelsAfter(s, r) = H /\ DoubtsAfter(s, r) = maybe[s]
    BY <2>3 DEF NextDepth, LevelsAfter, DoubtsAfter, H
  <2>5. \A k \in 0..n : Upto(H, k) = Upto(L, k)
    BY <2>1, <2>2, UptoSame
  <2>6. Upto(H, n + 1) = Upto(L, n) \cup args[s]
    <3>1. Upto(H, n + 1) = Upto(H, n) \cup H[n + 1]
      BY <2>1, UptoStep
    <3> QED
      BY <2>1, <2>2, <2>5, <3>1
  <2>7. /\ Len(Append(stack, mem)) = n + 1
        /\ \A k \in 1..n : Append(stack, mem)[k] = stack[k]
        /\ Append(stack, mem)[n + 1] = mem
    BY <2>1
  <2>8. ASSUME NEW k \in 1..(n + 1)
        PROVE  Holds(Append(stack, mem)[k].rows, H, k - 1, maybe[s])
    <3>1. CASE k \in 1..n
      BY <2>1, <2>5, <2>7, <3>1 DEF Fits, Holds
    <3>2. CASE k = n + 1
      BY <2>1, <2>5, <2>7, <3>2 DEF Fits, Holds
    <3> QED
      BY <2>1, <3>1, <3>2
  <2>9. Holds(w.rows, H, n + 1, maybe[s])
    BY <2>1, <2>6, <2>a DEF Fits, Holds
  <2>10. Fits(r.stack, r.mem, H, maybe[s])
    BY <2>3, <2>7, <2>8, <2>9 DEF Fits
  <2> QED
    BY <2>1, <2>2, <2>3, <2>4, <2>10 DEF Outcome
<1>3. CASE /\ depth[s] = 0
           /\ \/ r = Result(FALSE, Written(s), stack, 0, mem)
              \/ r = Result(FALSE, Written(s), Append(stack, mem), 0, mem)
  <2>1. r.ok = FALSE
    BY <1>3 DEF Result
  <2>2. NextDepth(s, r) = 0 /\ ~ (depth[s] > 0)
    BY <1>3, <2>1 DEF NextDepth
  <2>3. LevelsAfter(s, r) = <<>> /\ Len(<<>>) = 0
    BY <2>1, <2>2 DEF LevelsAfter
  <2> QED
    BY <2>1, <2>2, <2>3 DEF Outcome
<1> QED
  BY <1>1, <1>2, <1>3 DEF BeginResults, FaultFree

(* Closing the innermost level leaves the images of the others.            *)
LEMMA FrontImages ==
  ASSUME stack \in Seq(Image), Len(stack) > 0
  PROVE  /\ Len(Front(stack)) = Len(stack) - 1
         /\ \A k \in 1..(Len(stack) - 1) : Front(stack)[k] = stack[k]
         /\ Last(stack) = stack[Len(stack)]
BY FrontLast

LEMMA CommitOutcome ==
  ASSUME SInv, NEW s \in Session, pc[s] = "run", op[s] = "commit", NEW r \in CommitResults(s)
  PROVE  Outcome(s, r)
<1> DEFINE L == work[s]
           H == HeardLevels(s)
           n == depth[s]
<1>1. /\ n \in Nat /\ n = Len(L) /\ stack \in Seq(Image) /\ n = Len(stack)
      /\ Fits(stack, mem, L, maybe[s])
      /\ Confirmed(s) = Upto(L, n)
  BY RunState
<1>a. n \in Nat
  BY RunState
<1>b. n # 0 => n > 0 /\ (n = 1 \/ n > 1)
  BY <1>a
<1>c. n # 0 => /\ Len(Front(stack)) = n - 1
               /\ \A k \in 1..(n - 1) : Front(stack)[k] = stack[k]
  <2>1. stack \in Seq(Image) /\ Len(stack) = n
    BY RunState
  <2> HIDE DEF n
  <2> QED
    BY <1>b, <2>1, FrontImages
<1>d. Len(work[s]) = n
  BY RunState
<1>2. args[s] = {} /\ TypeOK
  BY DEF SInv, IInv, Transcript, TranscriptOf
<1>3. CASE n = 0 /\ r = Nothing(s, TRUE, NoImage)
  <2>1. HeardLevels(s) = work[s]
    BY <1>1, <1>2, <1>3, HeardNothing
  <2> QED
    BY <1>2, <1>3, <2>1, NothingOutcome
<1>4. CASE r = Nothing(s, FALSE, NoImage)
  BY <1>4, NothingOutcome
<1>5. CASE r \in AutoRollback(s)
  BY <1>5, AutoRollbackOutcome
<1>6. CASE n # 0 /\ r = Result(TRUE, mem, Front(stack), n - 1, NoImage)
  <2>1. r.ok = TRUE /\ r.mem = mem /\ r.stack = Front(stack) /\ r.depth = n - 1
    BY <1>6 DEF Result
  <2>2. NextDepth(s, r) = n - 1 /\ LevelsAfter(s, r) = H /\ DoubtsAfter(s, r) = maybe[s]
    BY <2>1 DEF NextDepth, LevelsAfter, DoubtsAfter
  <2>3. /\ Len(r.stack) = n - 1
        /\ \A k \in 1..(n - 1) : r.stack[k] = stack[k]
    BY <1>6, <1>c, <2>1
  <2>5. CASE n = 1
    <3>1. Len(H) = 0
      <4>1. Len(work[s]) > 0 /\ Len(work[s]) = 1
        BY <1>d, <2>5
      <4>2. Len(H) = Len(work[s]) - 1
        BY <1>2, <4>1, HeardFront
      <4> QED
        BY <4>1, <4>2
    <3>2. Published(s, mem.rows)
      BY <1>1, <1>2 DEF Fits, Holds, Published, Confirming, Mine
    <3> QED
      BY <2>1, <2>2, <2>5, <3>1, <3>2 DEF Outcome
  <2>6. CASE n > 1
    <3>1. H \in Seq(SUBSET Write) /\ Len(H) = n - 1 /\ (\A i \in 1..(n - 2) : H[i] = L[i])
          /\ H[n - 1] = L[n - 1] \cup L[n]
      BY <1>1, <1>2, <2>6, HeardCommit
    <3> HIDE DEF L, H, n
    <3>2. \A k \in 0..(n - 2) : Upto(H, k) = Upto(L, k)
      BY <1>1, <2>6, <3>1, UptoSame
    <3>3. Upto(H, n - 1) = Upto(L, n)
      <4>1. n - 1 \in Nat \ {0} /\ n \in Nat \ {0} /\ (n - 1) - 1 = n - 2 /\ n - 2 \in 0..(n - 2)
        BY <1>1, <2>6
      <4>2. /\ Upto(H, n - 1) = Upto(H, n - 2) \cup H[n - 1]
            /\ Upto(L, n) = Upto(L, n - 1) \cup L[n]
            /\ Upto(L, n - 1) = Upto(L, n - 2) \cup L[n - 1]
        BY <4>1, UptoStep
      <4> QED
        BY <3>1, <3>2, <4>1, <4>2
    <3>4. ASSUME NEW k \in 1..(n - 1)
          PROVE  Holds(r.stack[k].rows, H, k - 1, maybe[s])
      <4>1. k \in 1..Len(stack) /\ k - 1 \in 0..(n - 2)
        BY <1>1
      <4> QED
        BY <1>1, <2>3, <3>2, <4>1 DEF Fits, Holds
    <3>5. Holds(mem.rows, H, n - 1, maybe[s])
      BY <1>1, <3>3 DEF Fits, Holds
    <3>6. Fits(r.stack, r.mem, H, maybe[s])
      BY <2>1, <2>3, <3>4, <3>5 DEF Fits
    <3>7. n - 1 # 0
      BY <1>a, <2>6
    <3> QED
      BY <2>1, <2>2, <3>1, <3>6, <3>7 DEF Outcome, H
  <2> QED
    BY <1>6, <1>b, <2>5, <2>6
<1> QED
  BY <1>3, <1>4, <1>5, <1>6 DEF CommitResults

LEMMA RollbackOutcome ==
  ASSUME SInv, NEW s \in Session, pc[s] = "run", op[s] = "rollback", NEW r \in RollbackResults(s)
  PROVE  Outcome(s, r)
<1> DEFINE L == work[s]
           H == HeardLevels(s)
           n == depth[s]
<1>1. /\ n \in Nat /\ n = Len(L) /\ stack \in Seq(Image) /\ n = Len(stack)
      /\ n > 0 => stack[1] = disk
      /\ Fits(stack, mem, L, maybe[s])
  BY RunState
<1>a. n \in Nat
  BY RunState
<1>b. n # 0 => n > 0
  BY <1>a
<1>c. n # 0 => /\ Len(Front(stack)) = n - 1
               /\ \A k \in 1..(n - 1) : Front(stack)[k] = stack[k]
               /\ Last(stack) = stack[n]
  <2>1. stack \in Seq(Image) /\ Len(stack) = n
    BY RunState
  <2> HIDE DEF n
  <2> QED
    BY <1>b, <2>1, FrontImages
<1>d. Len(work[s]) = n
  BY RunState
<1>2. args[s] = {} /\ TypeOK
  BY DEF SInv, IInv, Transcript, TranscriptOf
<1>3. CASE n = 0 /\ r = Nothing(s, TRUE, NoImage)
  <2>1. HeardLevels(s) = work[s]
    BY <1>1, <1>2, <1>3, HeardNothing
  <2> QED
    BY <1>2, <1>3, <2>1, NothingOutcome
<1>4. CASE r = Nothing(s, FALSE, NoImage)
  BY <1>4, NothingOutcome
<1>5. CASE n # 0 /\ r = Result(TRUE, Last(stack), Front(stack), n - 1, NoImage)
  <2>1. /\ r.ok = TRUE /\ r.mem = stack[n] /\ r.depth = n - 1
        /\ Len(r.stack) = n - 1
        /\ \A k \in 1..(n - 1) : r.stack[k] = stack[k]
    BY <1>5, <1>c DEF Result
  <2>2. NextDepth(s, r) = n - 1 /\ LevelsAfter(s, r) = H /\ DoubtsAfter(s, r) = maybe[s]
    BY <2>1 DEF NextDepth, LevelsAfter, DoubtsAfter
  <2>4. H \in Seq(SUBSET Write) /\ Len(H) = n - 1 /\ (\A i \in 1..(n - 1) : H[i] = L[i])
    <3>1. Len(work[s]) > 0
      BY <1>b, <1>d, <1>5
    <3> QED
      BY <1>2, <1>d, <3>1, HeardFront
  <2> HIDE DEF L, H, n
  <2>5. n - 1 = 0 => Published(s, r.mem.rows)
    <3>1. n - 1 = 0 => n = 1 /\ n > 0
      BY <1>a
    <3>2. n - 1 = 0 => r.mem = disk
      BY <1>1, <2>1, <3>1
    <3> QED
      BY <3>2 DEF Published
  <2>6. \A k \in 0..(n - 1) : Upto(H, k) = Upto(L, k)
    BY <1>1, <2>4, UptoSame
  <2>7. ASSUME NEW k \in 1..(n - 1)
        PROVE  Holds(r.stack[k].rows, H, k - 1, maybe[s])
    <3>1. k \in 1..Len(stack) /\ k - 1 \in 0..(n - 1)
      BY <1>1
    <3> QED
      BY <1>1, <2>1, <2>6, <3>1 DEF Fits, Holds
  <2>8. Holds(r.mem.rows, H, n - 1, maybe[s])
    <3>1. n \in 1..Len(stack) /\ n - 1 \in 0..(n - 1)
      BY <1>1, <1>5
    <3> QED
      BY <1>1, <2>1, <2>6, <3>1 DEF Fits, Holds
  <2>9. Fits(r.stack, r.mem, H, maybe[s])
    BY <2>1, <2>7, <2>8 DEF Fits
  <2> QED
    BY <2>1, <2>2, <2>4, <2>5, <2>9 DEF Outcome, H
<1> QED
  BY <1>3, <1>4, <1>5 DEF RollbackResults

(* A script, or a PRAGMA that takes effect: its writes are in the image.   *)
LEMMA WrittenOutcome ==
  ASSUME SInv, NEW s \in Session, pc[s] = "run", op[s] \in {"execute", "inspect"},
         NEW ok \in BOOLEAN, NEW snapshot,
         NEW r, r = Result(ok, Written(s), stack, depth[s], snapshot)
  PROVE  Outcome(s, r)
<1> DEFINE L == work[s]
           H == HeardLevels(s)
           n == depth[s]
           w == Written(s)
<1>1. /\ n \in Nat /\ n = Len(L) /\ stack \in Seq(Image) /\ mem \in Image /\ n = Len(stack)
      /\ Fits(stack, mem, L, maybe[s])
      /\ n = 0 => mem = disk /\ stack = <<>> /\ Confirmed(s) = {}
      /\ TypeOK
  BY RunState DEF SInv, IInv
<1>2. r.ok = ok /\ r.mem = w /\ r.stack = stack /\ r.depth = n
  BY DEF Result, Nothing
<1>3. w.rows = mem.rows \cup args[s]
  BY <1>1, WrittenRows
<1>4. NextDepth(s, r) = n
  BY <1>1, <1>2 DEF NextDepth
<1> HIDE DEF w
<1>5. CASE ~ ok
  <2>1. LevelsAfter(s, r) = IF n = 0 THEN <<>> ELSE L
    BY <1>2, <1>4, <1>5 DEF LevelsAfter
  <2>2. Len(LevelsAfter(s, r)) = n /\ (n > 0 => LevelsAfter(s, r) = L)
    <3>1. Len(<<>>) = 0 /\ (n > 0 => n # 0)
      BY <1>1
    <3> QED
      BY <1>1, <2>1, <3>1
  <2>3. DoubtsAfter(s, r) = maybe[s] \cup args[s]
    BY <1>2, <1>5 DEF DoubtsAfter
  <2>4. Fits(stack, w, L, maybe[s] \cup args[s])
    BY <1>1, <1>3 DEF Fits, Holds
  <2>5. ~ (n = 0 /\ n > 0)
    BY <1>1
  <2> QED
    BY <1>2, <1>4, <1>5, <2>2, <2>3, <2>4, <2>5 DEF Outcome
<1>6. CASE ok /\ n = 0
  <2>1. LevelsAfter(s, r) = L
    BY <1>1, <1>2, <1>6, HeardNothing DEF LevelsAfter
  <2>2. Published(s, w.rows)
    BY <1>1, <1>3, <1>6 DEF Published, Confirming, Mine
  <2>3. ~ (n > 0)
    BY <1>6
  <2> QED
    BY <1>1, <1>2, <1>4, <1>6, <2>1, <2>2, <2>3 DEF Outcome
<1>7. CASE ok /\ n # 0
  <2>1. H \in Seq(SUBSET Write) /\ Len(H) = n /\ (\A i \in 1..(n - 1) : H[i] = L[i])
        /\ H[n] = L[n] \cup args[s]
    <3>1. n \in Nat /\ Len(work[s]) = n
      BY RunState
    <3>2. n # 0 => n > 0
      BY <3>1
    <3>3. Len(work[s]) > 0
      BY <1>7, <3>1, <3>2
    <3> QED
      BY <1>1, <3>1, <3>3, HeardExecute
  <2>2. LevelsAfter(s, r) = H /\ DoubtsAfter(s, r) = maybe[s]
    BY <1>2, <1>7 DEF LevelsAfter, DoubtsAfter
  <2> HIDE DEF L, H, n
  <2>3. \A k \in 0..(n - 1) : Upto(H, k) = Upto(L, k)
    BY <1>1, <2>1, UptoSame
  <2>4. Upto(H, n) = Upto(L, n) \cup args[s]
    <3>1. Upto(H, n) = Upto(H, n - 1) \cup H[n] /\ Upto(L, n) = Upto(L, n - 1) \cup L[n]
      BY <1>1, <1>7, UptoStep
    <3> QED
      BY <1>1, <1>7, <2>1, <2>3, <3>1
  <2>5. ASSUME NEW k \in 1..n
        PROVE  Holds(stack[k].rows, H, k - 1, maybe[s])
    <3>1. k \in 1..Len(stack) /\ k - 1 \in 0..(n - 1)
      BY <1>1
    <3> QED
      BY <1>1, <2>3, <3>1 DEF Fits, Holds
  <2>6. Holds(w.rows, H, n, maybe[s])
    BY <1>1, <1>3, <2>4 DEF Fits, Holds
  <2>7. Fits(stack, w, H, maybe[s])
    BY <1>1, <2>5, <2>6 DEF Fits
  <2> QED
    BY <1>2, <1>4, <1>7, <2>1, <2>2, <2>7 DEF Outcome
<1> QED
  BY <1>5, <1>6, <1>7

LEMMA ExecuteOutcome ==
  ASSUME SInv, NEW s \in Session, pc[s] = "run", op[s] = "execute", NEW r \in ExecuteResults(s)
  PROVE  Outcome(s, r)
<1>1. CASE r = Nothing(s, FALSE, NoImage) \/ r = Nothing(s, FALSE, Snapshot(s))
  BY <1>1, NothingOutcome
<1>2. CASE r \in AutoRollback(s)
  BY <1>2, AutoRollbackOutcome
<1>3. ASSUME NEW ok \in BOOLEAN, r = Result(ok, Written(s), stack, depth[s], Snapshot(s))
      PROVE  Outcome(s, r)
  BY <1>3, WrittenOutcome
<1> QED
  BY <1>1, <1>2, <1>3 DEF ExecuteResults

LEMMA InspectOutcome ==
  ASSUME SInv, NEW s \in Session, pc[s] = "run",
         op[s] \notin {"begin", "commit", "rollback", "execute"}, NEW r \in InspectResults(s)
  PROVE  Outcome(s, r)
<1>1. TypeOK /\ (op[s] # "inspect" => args[s] = {})
  BY DEF SInv, IInv, Transcript, TranscriptOf
<1>2. op[s] # "inspect" => HeardLevels(s) = work[s]
  BY <1>1, HeardNothing
<1>3. ASSUME NEW ok \in BOOLEAN, NEW snapshot, r = Result(ok, Written(s), stack, depth[s], snapshot)
      PROVE  Outcome(s, r)
  <2>1. CASE op[s] = "inspect"
    BY <1>3, <2>1, WrittenOutcome
  <2>2. CASE op[s] # "inspect"
    <3>1. r = Nothing(s, ok, snapshot)
      BY <1>1, <1>3, <2>2, WrittenRows DEF Nothing
    <3> QED
      BY <1>1, <1>2, <2>2, <3>1, NothingOutcome
  <2> QED
    BY <2>1, <2>2
<1>4. CASE r \in {Result(ok, Written(s), stack, depth[s], Snapshot(s)) : ok \in BOOLEAN}
  BY <1>3, <1>4
<1>5. CASE r \in {Nothing(s, ok, NoImage) : ok \in {FALSE, args[s] = {}}}
  <2>1. PICK ok \in BOOLEAN : r = Nothing(s, ok, NoImage) /\ (ok => args[s] = {})
    BY <1>5
  <2>2. CASE ~ ok
    BY <2>1, <2>2, NothingOutcome
  <2>3. CASE ok
    <3>1. r = Result(ok, Written(s), stack, depth[s], NoImage)
      BY <1>1, <2>1, <2>3, WrittenRows DEF Nothing
    <3> QED
      BY <1>3, <3>1
  <2> QED
    BY <2>2, <2>3
<1>6. CASE r = Nothing(s, FALSE, Snapshot(s))
  BY <1>6, NothingOutcome
<1> QED
  BY <1>4, <1>5, <1>6 DEF InspectResults

LEMMA RunOutcome ==
  ASSUME FaultFree, SInv, NEW s \in Session, pc[s] = "run", NEW r \in Results(s)
  PROVE  Outcome(s, r)
<1>1. CASE op[s] \in {"begin", "commit", "rollback", "execute"}
  BY <1>1, BeginOutcome, CommitOutcome, RollbackOutcome, ExecuteOutcome DEF Results
<1>2. CASE op[s] \notin {"begin", "commit", "rollback", "execute"}
  <2>1. r \in InspectResults(s)
    BY <1>2 DEF Results
  <2> QED
    BY <1>2, <2>1, InspectOutcome
<1> QED
  BY <1>1, <1>2

(* How Session::command finishes: it publishes what succeeded outside a    *)
(* transaction and changed the image.                                      *)
LEMMA RunEffect ==
  ASSUME FaultFree, SInv, NEW s \in Actor, RunSession(s)
  PROVE  \E r \in Results(s), next \in {"reply", "create", "restore"} :
           /\ Outcome(s, r) /\ r.ok \in BOOLEAN
           /\ stack' = r.stack
           /\ depth' = [depth EXCEPT ![s] = NextDepth(s, r)]
           /\ reply' = [reply EXCEPT ![s] = IF r.ok THEN "ok" ELSE "err"]
           /\ pc' = [pc EXCEPT ![s] = next]
           /\ mem'.rows = r.mem.rows
           /\ NextDepth(s, r) > 0 => mem' = r.mem
           /\ next # "reply" => NextDepth(s, r) = 0
           /\ next = "create" => r.ok
           /\ holder' = IF next = "reply" /\ NextDepth(s, r) = 0 THEN NoOne ELSE s
<1>1. s \in Session /\ pc[s] = "run" /\ holder = s
  BY DEF RunSession, SInv, IInv, Locking, Owning
<1>2. PICK r \in Results(s) :
        /\ stack' = r.stack
        /\ depth' = [depth EXCEPT ![s] = NextDepth(s, r)]
        /\ Answer(s, IF r.ok THEN "ok" ELSE "err")
        /\ KeepTransaction(s, r) \/ FinishReadOnly(s, r) \/ FinishWrite(s, r)
  BY DEF RunSession, AfterLost, FaultFree
<1>3. Shape(s, r) /\ Outcome(s, r)
  BY <1>1, ResultsShape, RunOutcome DEF SInv
<1>4. r.ok \in BOOLEAN /\ r.mem \in Image /\ NextDepth(s, r) \in Nat /\ depth[s] \in Nat
  BY <1>1, <1>3 DEF Shape, SInv, IInv, TypeOK
<1>5. reply' = [reply EXCEPT ![s] = IF r.ok THEN "ok" ELSE "err"]
  BY <1>2 DEF Answer
<1>6. CASE KeepTransaction(s, r)
  <2>1. /\ pc' = [pc EXCEPT ![s] = "reply"] /\ mem' = r.mem /\ holder' = s
        /\ NextDepth(s, r) # 0
    BY <1>1, <1>4, <1>6 DEF KeepTransaction, Goto
  <2> QED
    BY <1>2, <1>3, <1>4, <1>5, <2>1
<1>7. CASE FinishReadOnly(s, r)
  <2>1. /\ pc' = [pc EXCEPT ![s] = "reply"] /\ mem' = r.mem /\ holder' = NoOne
        /\ NextDepth(s, r) = 0
    BY <1>7 DEF FinishReadOnly, Goto, Release
  <2> QED
    BY <1>2, <1>3, <1>4, <1>5, <2>1
<1>8. CASE FinishWrite(s, r)
  <2>1. PICK image \in Reclaimed(s, r) :
          /\ mem' = image
          /\ \/ Goto(s, "restore") /\ UNCHANGED holder
             \/ /\ r.ok \/ depth[s] > 0
                /\ image # Baseline(s, r)
                /\ Goto(s, "create") /\ UNCHANGED holder
             \/ Goto(s, "reply") /\ Release
    BY <1>8 DEF FinishWrite
  <2>2. image.rows = r.mem.rows /\ (~ r.ok => image = r.mem)
    BY <1>4 DEF Reclaimed, Image
  <2>3. NextDepth(s, r) = 0
    BY <1>8 DEF FinishWrite
  <2>4. Baseline(s, r) = disk
    <3>1. depth[s] = 0 => mem = disk
      BY <1>1, RunState
    <3>2. depth[s] > 0 => before[s] = disk
      BY <1>1, RunState
    <3>3. Baseline(s, r) # NoImage
      BY <1>8 DEF FinishWrite
    <3> QED
      BY <1>3, <1>4, <3>1, <3>2, <3>3 DEF Baseline, Shape
  <2>a. /\ mem'.rows = r.mem.rows
        /\ NextDepth(s, r) > 0 => mem' = r.mem
    BY <2>1, <2>2, <2>3
  <2>5. CASE Goto(s, "restore") /\ UNCHANGED holder
    <3>1. pc' = [pc EXCEPT ![s] = "restore"] /\ holder' = s
      BY <1>1, <2>5 DEF Goto
    <3> QED
      BY <1>2, <1>3, <1>4, <1>5, <2>3, <2>a, <3>1
  <2>6. CASE /\ r.ok \/ depth[s] > 0
             /\ image # Baseline(s, r)
             /\ Goto(s, "create") /\ UNCHANGED holder
    <3>1. r.ok
      BY <1>3, <1>4, <2>2, <2>3, <2>4, <2>6 DEF Outcome
    <3> QED
      <4>1. pc' = [pc EXCEPT ![s] = "create"] /\ holder' = s
        BY <1>1, <2>6 DEF Goto
      <4> QED
        BY <1>2, <1>3, <1>4, <1>5, <2>3, <2>a, <3>1, <4>1
  <2>7. CASE Goto(s, "reply") /\ Release
    <3>1. pc' = [pc EXCEPT ![s] = "reply"] /\ holder' = NoOne
      BY <2>7 DEF Goto, Release
    <3> QED
      BY <1>2, <1>3, <1>4, <1>5, <2>3, <2>a, <3>1
  <2> QED
    BY <2>1, <2>5, <2>6, <2>7
<1> QED
  BY <1>2, <1>6, <1>7, <1>8

LEMMA RunSessionKeeps ==
  ASSUME FaultFree, SInv, IInv', NEW s \in Actor, RunSession(s)
  PROVE  SInv'
<1> USE NamesAssumption
<1>1. s \in Session /\ pc[s] = "run" /\ holder = s /\ entry /\ s # NoOne
  BY DEF RunSession, SInv, IInv, Locking, Owning, Actor
<1>2. /\ UNCHANGED <<disk, entry, op, args, readOnly, work, maybe, used, acked, rejected>>
      /\ TypeOK
  BY DEF RunSession, files, table, client, SInv, IInv
<1>3. PICK r \in Results(s), next \in {"reply", "create", "restore"} :
        /\ Outcome(s, r) /\ r.ok \in BOOLEAN
        /\ stack' = r.stack
        /\ depth' = [depth EXCEPT ![s] = NextDepth(s, r)]
        /\ reply' = [reply EXCEPT ![s] = IF r.ok THEN "ok" ELSE "err"]
        /\ pc' = [pc EXCEPT ![s] = next]
        /\ mem'.rows = r.mem.rows
        /\ NextDepth(s, r) > 0 => mem' = r.mem
        /\ next # "reply" => NextDepth(s, r) = 0
        /\ next = "create" => r.ok
        /\ holder' = IF next = "reply" /\ NextDepth(s, r) = 0 THEN NoOne ELSE s
  BY RunEffect
<1>4. /\ pc'[s] = next /\ depth'[s] = NextDepth(s, r)
      /\ reply'[s] = IF r.ok THEN "ok" ELSE "err"
      /\ depth'[s] \in Nat
  BY <1>1, <1>2, <1>3 DEF TypeOK, Actor, IInv
<1>5. OthersStand(s)
  BY <1>2, <1>3 DEF OthersStand, TypeOK, Actor
<1>6. OwnersStand(s)
  BY <1>1, <1>3 DEF OwnersStand
<1>7. /\ HeardLevels(s)' = HeardLevels(s) /\ Confirmed(s)' = Confirmed(s)
      /\ Confirming(s)' = Confirming(s) /\ Mine(s)' = Mine(s) /\ Split(s)' = Split(s)
  BY <1>1, <1>2 DEF HeardLevels, Confirmed, Confirming, Mine, Split, Upto
<1>8. next = "reply" => Levels(s)' = LevelsAfter(s, r)
  BY <1>1, <1>2, <1>4, <1>7 DEF Levels, LevelsAfter
<1>9. next = "reply" /\ depth'[s] > 0 => Doubts(s)' = DoubtsAfter(s, r)
  BY <1>1, <1>2, <1>4 DEF Doubts, DoubtsAfter
<1>10. NextDepth(s, r) = 0 /\ r.ok => Published(s, mem'.rows)
  BY <1>3 DEF Outcome
<1>11. TranscriptOf(s)'
  <2>1. next = "reply" => depth'[s] = Len(Levels(s)')
    BY <1>3, <1>4, <1>8 DEF Outcome
  <2>2. next = "create" => Len(HeardLevels(s)) = 0
    BY <1>3 DEF Outcome, LevelsAfter
  <2>3. /\ args'[s] # {} => op'[s] \in {"execute", "begin", "inspect"}
        /\ work'[s] = <<>> => maybe'[s] = {}
    BY <1>1, <1>2 DEF SInv, Transcript, TranscriptOf
  <2> QED
    BY <1>4, <1>7, <2>1, <2>2, <2>3 DEF TranscriptOf, Publishing
<1>12. ContentsOf(s)'
  <2>1. next = "create" => reply'[s] = "ok" /\ Published(s, mem.rows)'
    BY <1>1, <1>2, <1>3, <1>4, <1>7, <1>10 DEF Published
  <2>2. depth'[s] > 0 => Fits(stack, mem, Levels(s), Doubts(s))'
    <3>1. ASSUME depth'[s] > 0
          PROVE  /\ next = "reply" /\ mem' = r.mem /\ stack' = r.stack
                 /\ Fits(r.stack, r.mem, LevelsAfter(s, r), DoubtsAfter(s, r))
      BY <1>3, <1>4, <3>1 DEF Outcome
    <3> QED
      BY <1>2, <1>8, <1>9, <3>1 DEF Fits, Holds
  <2> QED
    BY <1>2, <1>4, <2>1, <2>2 DEF ContentsOf, Publishing
<1>13. Ledger'
  <2>1. LedgerOf(s) /\ ~ Durable(s) /\ Accounts
    BY <1>1 DEF SInv, Ledger, Durable
  <2>2. Durable(s)' => Confirming(s) \subseteq disk.rows
    <3> SUFFICES ASSUME Durable(s)'
                 PROVE  Confirming(s) \subseteq disk.rows
      OBVIOUS
    <3>1. next = "reply" /\ r.ok /\ depth'[s] = 0 /\ op[s] \in {"execute", "inspect", "commit"}
      BY <1>1, <1>2, <1>3, <1>4 DEF Durable
    <3>2. holder' = NoOne /\ entry'
      BY <1>1, <1>2, <1>3, <1>4, <3>1
    <3>3. mem' = disk
      BY <1>2, <3>2 DEF IInv, Images
    <3> QED
      BY <1>4, <1>10, <3>1, <3>3 DEF Published
  <2>3. LedgerOf(s)'
    BY <1>2, <1>7, <2>1, <2>2 DEF LedgerOf
  <2>4. Accounts'
    BY <1>2, <2>1 DEF Accounts
  <2> QED
    BY <1>2, <1>5, <1>7, <2>3, <2>4, LedgerStep DEF SInv
<1> QED
  BY <1>5, <1>6, <1>11, <1>12, <1>13, ActorStep

-----------------------------------------------------------------------------
(* The other steps of one actor *)

(* A step that changes nothing of what clients asked for or were told.     *)
LEMMA QuietStep ==
  ASSUME SInv, IInv', NEW a \in Actor, OthersStand(a), OwnersStand(a),
         UNCHANGED <<disk, op, args, depth, work, maybe, used, acked, rejected>>,
         pc[a] # "reply", ~ Durable(a)',
         a \in Session => TranscriptOf(a)', ContentsOf(a)'
  PROVE  SInv'
<1>1. LedgerOf(a) /\ ~ Durable(a) /\ Accounts
  BY DEF SInv, Ledger, Durable
<1>2. /\ Mine(a)' = Mine(a)
      /\ a \in Session => Split(a)' = Split(a)
  BY DEF Mine, Confirming, Confirmed, Split, Upto
<1>3. LedgerOf(a)'
  BY <1>1, <1>2 DEF LedgerOf
<1>4. Accounts'
  BY <1>1 DEF Accounts
<1>5. Ledger'
  BY <1>2, <1>3, <1>4, LedgerStep DEF SInv
<1> QED
  BY <1>5, ActorStep

(* Nobody owns the guard before the image is loaded.                       *)
LEMMA NoOwner ==
  ASSUME IInv, NEW a \in Actor, pc[a] \notin Owning \cup {"idle", "reply"}
  PROVE  /\ holder # a
         /\ a \in Session => ~ (depth[a] > 0) /\ depth[a] = 0
         /\ ~ entry => \A t \in Actor : holder # t
<1>1. ~ entry => \A t \in Actor : holder # t
  BY DEF IInv, Locking, Owning, Publishing, Actor
<1>2. holder # a
  BY DEF IInv, Locking
<1>3. a \in Session => ~ (depth[a] > 0) /\ depth[a] = 0
  BY <1>2 DEF IInv, TypeOK, Locking
<1> QED
  BY <1>1, <1>2, <1>3

LEMMA OpenSocketKeeps ==
  ASSUME SInv, IInv', NEW s \in Session, NEW ro \in BOOLEAN, OpenSocket(s, ro)
  PROVE  SInv'
<1>1. /\ pc[s] = "closed" /\ pc' = [pc EXCEPT ![s] = "lookup"]
      /\ readOnly' = [readOnly EXCEPT ![s] = ro]
      /\ UNCHANGED <<disk, op, args, reply, depth, work, maybe, used, acked, rejected,
                     mem, stack, holder>>
      /\ TypeOK
  BY DEF OpenSocket, Goto, files, database, request, client, SInv, IInv
<1>2. holder # s /\ ~ (depth[s] > 0)
  BY <1>1, NoOwner DEF SInv, Owning, Publishing, Actor
<1>3. OthersStand(s) /\ OwnersStand(s) /\ pc'[s] = "lookup"
  BY <1>1 DEF OthersStand, OwnersStand, TypeOK, Actor
<1>4. TranscriptOf(s)'
  BY <1>1, <1>3 DEF SInv, Transcript, TranscriptOf, Levels, Publishing
<1>5. ContentsOf(s)'
  BY <1>1, <1>2, <1>3 DEF ContentsOf, Publishing
<1> QED
  BY <1>1, <1>3, <1>4, <1>5, QuietStep DEF Durable, Actor

LEMMA LookupHitKeeps ==
  ASSUME SInv, IInv', NEW a \in Actor, LookupHit(a)
  PROVE  SInv'
<1>1. /\ pc[a] = "lookup" /\ pc' = [pc EXCEPT ![a] = IF a \in Session THEN "idle" ELSE "wait"]
      /\ UNCHANGED <<disk, op, args, reply, depth, readOnly, work, maybe, used, acked, rejected,
                     mem, stack, holder>>
      /\ TypeOK
  BY DEF LookupHit, Ready, Goto, files, request, session, client, SInv, IInv
<1>2. holder # a /\ (a \in Session => ~ (depth[a] > 0))
  BY <1>1, NoOwner DEF SInv, Owning, Publishing
<1>3. OthersStand(a) /\ OwnersStand(a) /\ pc'[a] \in {"idle", "wait"}
  BY <1>1 DEF OthersStand, OwnersStand, TypeOK
<1>4. a \in Session => TranscriptOf(a)'
  BY <1>1, <1>3 DEF SInv, Transcript, TranscriptOf, Levels, Publishing
<1>5. ContentsOf(a)'
  BY <1>1, <1>2, <1>3 DEF ContentsOf, Publishing
<1> QED
  BY <1>1, <1>3, <1>4, <1>5, QuietStep DEF Durable

LEMMA LookupMissKeeps ==
  ASSUME SInv, IInv', NEW a \in Actor, LookupMiss(a)
  PROVE  SInv'
<1>1. /\ pc[a] = "lookup" /\ pc' = [pc EXCEPT ![a] = "load"]
      /\ UNCHANGED <<disk, op, args, reply, depth, readOnly, work, maybe, used, acked, rejected,
                     mem, stack, holder>>
      /\ TypeOK
  BY DEF LookupMiss, Goto, files, database, request, session, client, SInv, IInv
<1>2. holder # a /\ (a \in Session => ~ (depth[a] > 0))
  BY <1>1, NoOwner DEF SInv, Owning, Publishing
<1>3. OthersStand(a) /\ OwnersStand(a) /\ pc'[a] = "load"
  BY <1>1 DEF OthersStand, OwnersStand, TypeOK
<1>4. a \in Session => TranscriptOf(a)'
  BY <1>1, <1>3 DEF SInv, Transcript, TranscriptOf, Levels, Publishing
<1>5. ContentsOf(a)'
  BY <1>1, <1>2, <1>3 DEF ContentsOf, Publishing
<1> QED
  BY <1>1, <1>3, <1>4, <1>5, QuietStep DEF Durable

LEMMA LoadedKeeps ==
  ASSUME SInv, IInv', NEW a \in Actor, Loaded(a)
  PROVE  SInv'
<1>1. /\ pc[a] = "load" /\ pc' = [pc EXCEPT ![a] = IF a \in Session THEN "idle" ELSE "wait"]
      /\ UNCHANGED <<disk, op, args, reply, depth, readOnly, work, maybe, used, acked, rejected, holder>>
      /\ TypeOK /\ ~ entry
  BY DEF Loaded, Ready, Goto, files, request, session, client, SInv, IInv, Locking
<1>2. /\ \A t \in Actor : holder # t
      /\ a \in Session => ~ (depth[a] > 0)
  BY <1>1, NoOwner DEF SInv, Owning, Publishing
<1>3. OthersStand(a) /\ OwnersStand(a) /\ pc'[a] \in {"idle", "wait"}
  BY <1>1, <1>2 DEF OthersStand, OwnersStand, TypeOK
<1>4. a \in Session => TranscriptOf(a)'
  BY <1>1, <1>3 DEF SInv, Transcript, TranscriptOf, Levels, Publishing
<1>5. ContentsOf(a)'
  BY <1>1, <1>2, <1>3 DEF ContentsOf, Publishing
<1> QED
  BY <1>1, <1>3, <1>4, <1>5, QuietStep DEF Durable

LEMMA LoadFailedKeeps ==
  ASSUME SInv, IInv', NEW a \in Actor, LoadFailed(a)
  PROVE  SInv'
<1>1. /\ pc[a] = "load" /\ pc' = [pc EXCEPT ![a] = IF a \in Session THEN "closed" ELSE "reply"]
      /\ reply' = [reply EXCEPT ![a] = "err"]
      /\ UNCHANGED <<disk, op, args, depth, readOnly, work, maybe, used, acked, rejected,
                     mem, stack, holder>>
      /\ TypeOK
  BY DEF LoadFailed, Goto, Answer, files, database, session, client, SInv, IInv
<1>2. holder # a /\ (a \in Session => ~ (depth[a] > 0))
  BY <1>1, NoOwner DEF SInv, Owning, Publishing
<1>3. /\ OthersStand(a) /\ OwnersStand(a) /\ reply'[a] = "err"
      /\ pc'[a] = IF a \in Session THEN "closed" ELSE "reply"
  BY <1>1 DEF OthersStand, OwnersStand, TypeOK
<1>4. a \in Session => TranscriptOf(a)'
  BY <1>1, <1>3 DEF SInv, Transcript, TranscriptOf, Levels, Publishing
<1>5. ContentsOf(a)'
  BY <1>1, <1>2, <1>3 DEF ContentsOf, Publishing
<1> QED
  BY <1>1, <1>3, <1>4, <1>5, QuietStep DEF Durable

LEMMA SubmitBatchKeeps ==
  ASSUME SInv, IInv', NEW b \in Batch, NEW ws \in SUBSET Write, SubmitBatch(b, ws)
  PROVE  SInv'
<1> USE NamesAssumption
<1>1. /\ pc[b] = "new" /\ pc' = [pc EXCEPT ![b] = "lookup"]
      /\ ws \cap used = {} /\ args' = [args EXCEPT ![b] = ws] /\ used' = used \cup ws
      /\ UNCHANGED <<disk, op, reply, depth, readOnly, work, maybe, acked, rejected,
                     mem, stack, holder>>
      /\ TypeOK /\ b \notin Session /\ b \in Actor
  BY DEF SubmitBatch, Goto, Unused, files, database, session, SInv, IInv, Actor
<1>2. holder # b
  BY <1>1, NoOwner DEF SInv, Owning, Publishing
<1>3. OthersStand(b) /\ OwnersStand(b) /\ pc'[b] = "lookup" /\ args'[b] = ws
  BY <1>1 DEF OthersStand, OwnersStand, TypeOK, Actor
<1>4. ContentsOf(b)'
  BY <1>1, <1>3 DEF ContentsOf, Publishing
<1>5. Mine(b)' = ws
  BY <1>1, <1>3 DEF Mine
<1>6. Accounts' /\ LedgerOf(b)'
  BY <1>1, <1>3, <1>5 DEF SInv, Ledger, Accounts, LedgerOf, Durable
<1>7. Ledger'
  BY <1>1, <1>3, <1>5, <1>6, LedgerStep DEF SInv
<1> QED
  BY <1>1, <1>3, <1>4, <1>7, ActorStep

LEMMA GrantKeeps ==
  ASSUME SInv, IInv', NEW a \in Actor, Grant(a)
  PROVE  SInv'
<1> USE NamesAssumption
<1>1. /\ pc[a] = "wait" /\ pc' = [pc EXCEPT ![a] = "run"] /\ holder = NoOne /\ holder' = a
      /\ UNCHANGED <<disk, op, args, reply, depth, readOnly, work, maybe, used, acked, rejected,
                     mem, stack>>
      /\ TypeOK
  BY DEF Grant, GuardFree, Goto, files, request, session, client, SInv, IInv
<1>2. entry /\ (a \in Session => ~ (depth[a] > 0))
  BY <1>1, NoOwner DEF SInv, IInv, Locking, Owning, Publishing, Actor
<1>3. stack = <<>> /\ mem = disk
  <2>1. \A s \in Session : depth[s] = 0
    BY <1>1 DEF SInv, IInv, TypeOK, Locking, Actor
  <2>2. \A t \in Actor : pc[t] # "restore"
    BY <1>1 DEF SInv, IInv, Locking, Owning
  <2>3. stack = <<>>
    <3>1. \A s \in Session : ~ (depth[s] > 0)
      BY <2>1
    <3> QED
      BY <2>2, <3>1 DEF SInv, IInv, Nesting
  <2> QED
    BY <1>1, <1>2, <2>3 DEF SInv, IInv, Images
<1>4. OthersStand(a) /\ OwnersStand(a) /\ pc'[a] = "run"
  BY <1>1 DEF OthersStand, OwnersStand, TypeOK
<1>5. a \in Session => TranscriptOf(a)'
  BY <1>1, <1>4 DEF SInv, Transcript, TranscriptOf, Levels, Publishing
<1>6. ContentsOf(a)'
  BY <1>1, <1>2, <1>3, <1>4 DEF ContentsOf, Publishing
<1> QED
  BY <1>1, <1>4, <1>5, <1>6, QuietStep DEF Durable

LEMMA LockTimeoutKeeps ==
  ASSUME SInv, IInv', NEW s \in Session, LockTimeout(s)
  PROVE  SInv'
<1>1. /\ pc[s] = "wait" /\ pc' = [pc EXCEPT ![s] = "reply"] /\ reply' = [reply EXCEPT ![s] = "err"]
      /\ UNCHANGED <<disk, op, args, depth, readOnly, work, maybe, used, acked, rejected,
                     mem, stack, holder>>
      /\ TypeOK
  BY DEF LockTimeout, Goto, Answer, files, session, client, SInv, IInv
<1>2. holder # s /\ ~ (depth[s] > 0) /\ depth[s] = 0
  BY <1>1, NoOwner DEF SInv, Owning, Publishing, Actor
<1>3. OthersStand(s) /\ OwnersStand(s) /\ pc'[s] = "reply" /\ reply'[s] = "err"
  BY <1>1 DEF OthersStand, OwnersStand, TypeOK, Actor
<1>4. TranscriptOf(s)'
  BY <1>1, <1>2, <1>3 DEF SInv, Transcript, TranscriptOf, Levels, Publishing
<1>5. ContentsOf(s)'
  BY <1>1, <1>2, <1>3 DEF ContentsOf, Publishing
<1> QED
  BY <1>1, <1>3, <1>4, <1>5, QuietStep DEF Durable, Actor

(* A new command asks for a fresh write, or for none.                      *)
LEMMA SendKeeps ==
  ASSUME SInv, IInv', NEW s \in Session, NEW o \in Operation, NEW ws \in SUBSET Write,
         Send(s, o, ws)
  PROVE  SInv'
<1> USE DEF Actor
<1>1. /\ pc[s] = "idle" /\ args[s] = {} /\ ws \cap used = {}
      /\ op' = [op EXCEPT ![s] = o] /\ args' = [args EXCEPT ![s] = ws]
      /\ used' = used \cup ws /\ reply' = [reply EXCEPT ![s] = "ok"]
      /\ ws # {} => o \in {"execute", "begin", "inspect"}
      /\ UNCHANGED <<disk, depth, readOnly, work, maybe, acked, rejected, mem, stack, holder>>
      /\ TypeOK
  BY DEF Send, Carries, Unused, files, session, SInv, IInv, Transcript, TranscriptOf
<1>2. PICK next \in {"reply", "run", "wait"} :
        pc' = [pc EXCEPT ![s] = next] /\ (next = "reply" => o = "close")
  BY DEF Send, Goto
<1>3. pc'[s] = next /\ op'[s] = o /\ args'[s] = ws /\ reply'[s] = "ok"
  BY <1>1, <1>2 DEF TypeOK
<1>4. OthersStand(s) /\ OwnersStand(s)
  BY <1>1, <1>2 DEF OthersStand, OwnersStand, TypeOK
<1>5. Levels(s) = work[s] /\ Doubts(s) = maybe[s] /\ TranscriptOf(s) /\ ContentsOf(s)
  BY <1>1 DEF Levels, Doubts, SInv, Transcript, Contents
<1>6. next = "reply" => HeardLevels(s)' = work[s]
  BY <1>1, <1>2, <1>3 DEF HeardLevels
<1>7. Levels(s)' = work[s]
  BY <1>1, <1>3, <1>6 DEF Levels
<1>8. depth[s] > 0 => Doubts(s)' = maybe[s]
  <2>1. depth[s] > 0 => depth[s] # 0
    BY <1>1 DEF TypeOK
  <2> QED
    BY <1>1, <1>3, <2>1 DEF Doubts
<1>9. TranscriptOf(s)'
  BY <1>1, <1>3, <1>5, <1>7 DEF TranscriptOf, Publishing
<1>10. ContentsOf(s)'
  <2>1. depth[s] > 0 => Fits(stack, mem, Levels(s), Doubts(s))'
    BY <1>1, <1>5, <1>7, <1>8 DEF ContentsOf, Fits, Holds
  <2> QED
    BY <1>1, <1>3, <2>1 DEF ContentsOf, Publishing
<1>11. /\ Confirmed(s)' = Confirmed(s)
       /\ Mine(s) = Confirmed(s) \cup maybe[s] /\ Mine(s)' = Mine(s) \cup ws
  BY <1>1, <1>3 DEF Confirmed, Mine, Confirming
<1>12. LedgerOf(s)'
  <2>1. LedgerOf(s) /\ Accounts /\ ~ Durable(s) /\ ~ Durable(s)'
    BY <1>1, <1>2, <1>3 DEF SInv, Ledger, Durable
  <2>2. Split(s)'
    BY <1>1, <1>3, <1>11, <2>1 DEF LedgerOf, Split, Upto
  <2> QED
    BY <1>1, <1>11, <2>1, <2>2 DEF LedgerOf, Accounts
<1>13. Accounts'
  BY <1>1 DEF SInv, Ledger, Accounts
<1>14. Ledger'
  BY <1>1, <1>4, <1>11, <1>12, <1>13, LedgerStep DEF SInv
<1> QED
  BY <1>4, <1>9, <1>10, <1>14, ActorStep

LEMMA RunBatchKeeps ==
  ASSUME SInv, IInv', NEW b \in Batch, RunBatch(b)
  PROVE  SInv'
<1> USE NamesAssumption
<1>1. /\ pc[b] = "run" /\ b \in Actor /\ b \notin Session /\ holder = b /\ mem = disk
      /\ UNCHANGED <<disk, op, args, depth, readOnly, work, maybe, used, acked, rejected,
                     stack, holder>>
      /\ TypeOK
  BY DEF RunBatch, files, session, client, SInv, IInv, Locking, Images, Owning, Actor
<1>2. PICK ok \in BOOLEAN :
        /\ pc' = [pc EXCEPT ![b] = IF ok THEN "create" ELSE "restore"]
        /\ reply' = [reply EXCEPT ![b] = IF ok THEN "ok" ELSE "err"]
        /\ ok => mem' = [mem EXCEPT !.rows = @ \cup args[b]]
  BY DEF RunBatch, Goto, Answer
<1>3. /\ pc'[b] = (IF ok THEN "create" ELSE "restore")
      /\ reply'[b] = (IF ok THEN "ok" ELSE "err")
      /\ ok => mem'.rows = disk.rows \cup args[b]
  BY <1>1, <1>2 DEF TypeOK, Image
<1>4. OthersStand(b) /\ OwnersStand(b)
  BY <1>1, <1>2 DEF OthersStand, OwnersStand, TypeOK, Actor
<1>5. ContentsOf(b)'
  BY <1>1, <1>3 DEF ContentsOf, Publishing, Published, Confirming, Mine
<1> QED
  BY <1>1, <1>3, <1>4, <1>5, QuietStep DEF Durable

(* Writing and syncing the .pending file, or failing to publish it.        *)
LEMMA PublishingKeeps ==
  ASSUME SInv, IInv', NEW a \in Actor, PublishCreate(a) \/ PublishSync(a) \/ PublishFailed(a)
  PROVE  SInv'
<1>1. /\ pc[a] \in Publishing
      /\ UNCHANGED <<disk, op, args, depth, readOnly, work, maybe, used, acked, rejected,
                     mem, stack, holder>>
      /\ TypeOK
  BY DEF PublishCreate, PublishSync, PublishFailed, Publishing, files, table, database, request,
         session, images, client, SInv, IInv
<1>2. /\ pc' = [pc EXCEPT ![a] = pc'[a]]
      /\ reply' = [reply EXCEPT ![a] = reply'[a]]
      /\ pc'[a] \in Publishing \cup {"restore"}
      /\ pc'[a] \in Publishing => reply'[a] = reply[a]
  BY <1>1 DEF PublishCreate, PublishSync, PublishFailed, Publishing, Goto, Answer, request, TypeOK
<1>3. OthersStand(a) /\ OwnersStand(a)
  BY <1>1, <1>2 DEF OthersStand, OwnersStand, TypeOK
<1>4. ContentsOf(a) /\ (a \in Session => TranscriptOf(a))
  BY DEF SInv, Contents, Transcript
<1>5. a \in Session => TranscriptOf(a)'
  <2>1. HeardLevels(a)' = HeardLevels(a)
    BY <1>1 DEF HeardLevels
  <2> QED
    BY <1>1, <1>2, <1>4, <2>1 DEF TranscriptOf, Publishing
<1>6. a \in Session => ~ (depth[a] > 0)
  BY <1>1 DEF SInv, IInv, Locking, Publishing
<1>7. Published(a, mem.rows)' = Published(a, mem.rows)
  BY <1>1 DEF Published, Confirming, Confirmed, Mine
<1>9. ContentsOf(a)'
  BY <1>1, <1>2, <1>4, <1>6, <1>7 DEF ContentsOf
<1>10. pc[a] # "reply" /\ ~ Durable(a)'
  BY <1>1, <1>2 DEF Publishing, Durable
<1> QED
  BY <1>1, <1>3, <1>5, <1>9, <1>10, QuietStep

LEMMA RestoreKeeps ==
  ASSUME SInv, IInv', NEW a \in Actor, Restore(a)
  PROVE  SInv'
<1> USE NamesAssumption
<1>1. /\ pc[a] = "restore" /\ holder = a /\ holder' = NoOne
      /\ pc' = [pc EXCEPT ![a] = "reply"] /\ reply' = [reply EXCEPT ![a] = "err"]
      /\ UNCHANGED <<disk, op, args, depth, readOnly, work, maybe, used, acked, rejected>>
      /\ TypeOK
  BY DEF Restore, Release, Goto, Answer, files, session, client, SInv, IInv, Locking, Owning
<1>2. pc'[a] = "reply" /\ reply'[a] = "err" /\ a # NoOne
  BY <1>1 DEF TypeOK
<1>3. OthersStand(a) /\ OwnersStand(a)
  BY <1>1 DEF OthersStand, OwnersStand, TypeOK
<1>4. a \in Session => ~ (depth[a] > 0) /\ depth[a] = 0
  BY <1>1 DEF SInv, IInv, TypeOK, Locking
<1>5. a \in Session => TranscriptOf(a)'
  BY <1>1, <1>2, <1>4 DEF SInv, Transcript, TranscriptOf, Levels, Publishing
<1>6. ContentsOf(a)'
  BY <1>1, <1>2, <1>4 DEF ContentsOf, Publishing
<1> QED
  BY <1>1, <1>2, <1>3, <1>5, <1>6, QuietStep DEF Durable

LEMMA SameKeeps ==
  ASSUME SInv, IInv',
         UNCHANGED <<disk, mem, stack, holder, pc, op, args, reply, depth, readOnly,
                     work, maybe, used, acked, rejected>>
  PROVE  SInv'
<1>1. \A s \in Session : /\ HeardLevels(s)' = HeardLevels(s) /\ Confirmed(s)' = Confirmed(s)
                         /\ Levels(s)' = Levels(s) /\ Doubts(s)' = Doubts(s)
                         /\ Split(s)' = Split(s)
  BY DEF HeardLevels, Confirmed, Levels, Doubts, Split, Upto
<1>2. \A a \in Actor : Mine(a)' = Mine(a) /\ Confirming(a)' = Confirming(a) /\ Durable(a)' = Durable(a)
  BY <1>1 DEF Mine, Confirming, Durable
<1>3. Transcript'
  BY <1>1 DEF SInv, Transcript, TranscriptOf
<1>4. Contents'
  <2> SUFFICES ASSUME NEW a \in Actor
               PROVE  ContentsOf(a)'
    BY DEF Contents
  <2>1. ContentsOf(a)
    BY DEF SInv, Contents
  <2>2. /\ Published(a, mem.rows)' = Published(a, mem.rows)
        /\ a \in Session => Fits(stack, mem, Levels(a), Doubts(a))' = Fits(stack, mem, Levels(a), Doubts(a))
    BY <1>1, <1>2 DEF Published, Fits, Holds
  <2> QED
    BY <2>1, <2>2 DEF ContentsOf
<1>5. Ledger'
  BY <1>1, <1>2 DEF SInv, Ledger, LedgerOf, Accounts
<1> QED
  BY <1>3, <1>4, <1>5 DEF SInv

LEMMA DisconnectKeeps ==
  ASSUME SInv, IInv', NEW a \in Actor, Disconnect(a)
  PROVE  SInv'
BY SameKeeps DEF Disconnect, files, table, database, request, session, client

-----------------------------------------------------------------------------
(* The publication *)

(* What the rename makes of the file: nothing for a ROLLBACK (whose changed *)
(* image differs in its free pages only), and otherwise everything the      *)
(* request confirms, with nothing of anybody else's.                        *)
LEMMA RenameEffect ==
  ASSUME SInv, NEW a \in Actor, PublishRename(a)
  PROVE  /\ pc[a] = "rename" /\ holder = a /\ disk' = mem /\ reply[a] = "ok"
         /\ disk.rows \subseteq disk'.rows /\ disk'.rows \subseteq disk.rows \cup Mine(a)
         /\ IF a \in Session /\ op[a] \notin {"execute", "inspect", "commit"}
            THEN disk'.rows = disk.rows ELSE Confirming(a) \subseteq disk'.rows
<1>1. pc[a] = "rename" /\ holder = a /\ disk' = mem
  BY DEF PublishRename, SInv, IInv, Locking, Images, Owning, Publishing
<1>2. reply[a] = "ok" /\ Published(a, mem.rows)
  BY <1>1 DEF SInv, Contents, ContentsOf, Publishing
<1>3. ASSUME a \in Session, op[a] \notin {"execute", "inspect", "commit", "rollback"}
      PROVE  Confirming(a) = {} /\ Mine(a) = {}
  <2>1. TranscriptOf(a) /\ Len(HeardLevels(a)) = 0 /\ TypeOK
    BY <1>1, <1>3 DEF SInv, IInv, Transcript, TranscriptOf, Publishing
  <2>2. Len(work[a]) \in Nat /\ work[a] \in Seq(SUBSET Write)
    BY <1>3, <2>1, ConfirmedUpto
  <2>3. op[a] # "begin"
    <3>1. op[a] = "begin" => Len(HeardLevels(a)) = Len(work[a]) + 1
      BY <1>3, <2>1, HeardBegin
    <3> QED
      BY <2>1, <2>2, <3>1
  <2>4. HeardLevels(a) = work[a]
    BY <1>3, <2>1, <2>3, HeardNothing
  <2>5. Confirmed(a) = {}
    BY <1>3, <2>1, <2>4, ConfirmedUpto, UptoNone
  <2>6. work[a] = <<>>
    <3> DEFINE S == SUBSET Write
    <3>1. work[a] \in Seq(S)
      BY <2>2
    <3> HIDE DEF S
    <3> QED
      BY <2>1, <2>4, <3>1, EmptyLevels
  <2> QED
    BY <1>3, <2>1, <2>3, <2>5, <2>6 DEF TranscriptOf, Confirming, Mine
<1>4. a \in Session => Mine(a) = Confirming(a) \cup maybe[a]
  BY DEF Mine
<1>5. a \notin Session => Mine(a) = Confirming(a)
  BY DEF Mine, Confirming
<1> QED
  BY <1>1, <1>2, <1>3, <1>4, <1>5 DEF Published

LEMMA RenameKeeps ==
  ASSUME SInv, IInv', NEW a \in Actor, PublishRename(a)
  PROVE  SInv'
<1> USE NamesAssumption
<1>1. /\ pc[a] = "rename" /\ holder = a /\ disk' = mem /\ reply[a] = "ok"
      /\ disk.rows \subseteq disk'.rows /\ disk'.rows \subseteq disk.rows \cup Mine(a)
      /\ IF a \in Session /\ op[a] \notin {"execute", "inspect", "commit"}
         THEN disk'.rows = disk.rows ELSE Confirming(a) \subseteq disk'.rows
  BY RenameEffect
<1>2. /\ pc' = [pc EXCEPT ![a] = "reply"] /\ holder' = NoOne
      /\ UNCHANGED <<op, args, reply, depth, readOnly, work, maybe, used, acked, rejected, mem, stack>>
      /\ TypeOK
  BY DEF PublishRename, Release, Goto, request, session, client, SInv, IInv
<1>3. pc'[a] = "reply" /\ reply'[a] = "ok" /\ a # NoOne
  BY <1>1, <1>2 DEF TypeOK
<1>4. OthersStand(a) /\ OwnersStand(a)
  BY <1>1, <1>2 DEF OthersStand, OwnersStand, TypeOK
<1>5. a \in Session => ~ (depth[a] > 0) /\ depth[a] = 0
  BY <1>1, <1>2 DEF SInv, IInv, TypeOK, Locking
<1>6. /\ Mine(a)' = Mine(a) /\ Confirming(a)' = Confirming(a)
      /\ a \in Session => Split(a)' = Split(a) /\ HeardLevels(a)' = HeardLevels(a)
  BY <1>2 DEF Mine, Confirming, Confirmed, Split, Upto, HeardLevels
<1>7. a \in Session => TranscriptOf(a)'
  <2>1. a \in Session => TranscriptOf(a) /\ Len(HeardLevels(a)) = 0
    BY <1>1 DEF SInv, Transcript, TranscriptOf, Publishing
  <2> QED
    BY <1>2, <1>3, <1>5, <1>6, <2>1 DEF TranscriptOf, Levels, Publishing
<1>8. ContentsOf(a)'
  BY <1>2, <1>3, <1>5 DEF ContentsOf, Publishing
<1>9. LedgerOf(a)'
  <2>1. LedgerOf(a) /\ ~ Durable(a)
    BY <1>1 DEF SInv, Ledger, Durable
  <2>2. Durable(a)' <=> ~ (a \in Session /\ op[a] \notin {"execute", "inspect", "commit"})
    BY <1>2, <1>3, <1>5 DEF Durable
  <2> QED
    BY <1>1, <1>2, <1>6, <2>1, <2>2 DEF LedgerOf
<1>10. Accounts'
  <2>1. LedgerOf(a) /\ Accounts
    BY DEF SInv, Ledger
  <2> QED
    BY <1>1, <1>2, <2>1 DEF Accounts, LedgerOf
<1>11. Ledger'
  BY <1>1, <1>2, <1>4, <1>6, <1>9, <1>10, LedgerStep DEF SInv
<1> QED
  BY <1>4, <1>7, <1>8, <1>11, ActorStep

-----------------------------------------------------------------------------
(* Replies and lost sessions *)

LEMMA DeliverBatchKeeps ==
  ASSUME SInv, IInv', NEW b \in Batch, DeliverBatch(b)
  PROVE  SInv'
<1> USE NamesAssumption
<1>1. /\ pc[b] = "reply" /\ b \in Actor /\ b \notin Session
      /\ pc' = [pc EXCEPT ![b] = "done"] /\ args' = [args EXCEPT ![b] = {}]
      /\ reply' = [reply EXCEPT ![b] = "ok"]
      /\ UNCHANGED <<disk, op, depth, readOnly, work, maybe, used, mem, stack, holder>>
      /\ \/ UNCHANGED <<acked, rejected>>
         \/ reply[b] = "ok" /\ acked' = acked \cup args[b] /\ rejected' = rejected
         \/ reply[b] # "ok" /\ acked' = acked /\ rejected' = rejected \cup args[b]
      /\ TypeOK
  BY DEF DeliverBatch, Goto, files, database, session, SInv, IInv, Actor
<1>2. pc'[b] = "done" /\ args'[b] = {}
  BY <1>1 DEF TypeOK, Actor
<1>3. OthersStand(b) /\ OwnersStand(b)
  BY <1>1 DEF OthersStand, OwnersStand, TypeOK, Actor
<1>4. ContentsOf(b)'
  BY <1>1, <1>2 DEF ContentsOf, Publishing
<1>5. Mine(b) = args[b] /\ Confirming(b) = args[b] /\ Mine(b)' = {}
  BY <1>1, <1>2 DEF Mine, Confirming
<1>6. LedgerOf(b) /\ Accounts
  BY <1>1 DEF SInv, Ledger
<1>7. LedgerOf(b)'
  BY <1>1, <1>2, <1>5 DEF LedgerOf, Durable
<1>8. Accounts'
  <2>1. reply[b] = "ok" => args[b] \subseteq disk.rows
    BY <1>1, <1>5, <1>6 DEF LedgerOf, Durable
  <2>2. reply[b] # "ok" => args[b] \cap disk.rows = {} /\ args[b] \subseteq used
    BY <1>1, <1>5, <1>6 DEF LedgerOf, Durable
  <2> QED
    BY <1>1, <1>6, <2>1, <2>2 DEF Accounts
<1>9. Ledger'
  BY <1>1, <1>3, <1>5, <1>7, <1>8, LedgerStep DEF SInv
<1> QED
  BY <1>1, <1>3, <1>4, <1>9, ActorStep

(* Losing a session's transaction undoes writes that no file contains.     *)
LEMMA UncommittedOut ==
  ASSUME SInv, NEW s \in Session
  PROVE  /\ Uncommitted(s) \subseteq Mine(s) /\ Uncommitted(s) \subseteq used
         /\ Uncommitted(s) \cap disk.rows = {}
<1> USE DEF Actor
<1>1. LedgerOf(s) /\ TypeOK
  BY DEF SInv, IInv, Ledger
<1>2. Uncommitted(s) \subseteq Mine(s)
  BY DEF Uncommitted, Mine, Confirming
<1>3. depth[s] > 0 => ~ Durable(s)
  BY <1>1 DEF Durable, TypeOK
<1>4. ~ (depth[s] > 0) => Uncommitted(s) = {}
  BY DEF Uncommitted
<1> QED
  BY <1>1, <1>2, <1>3, <1>4 DEF LedgerOf

LEMMA EndSessionKeeps ==
  ASSUME SInv, IInv', NEW s \in Session, EndSession(s)
  PROVE  SInv'
<1> USE NamesAssumption DEF Actor
<1>1. /\ pc' = [pc EXCEPT ![s] = "closed"] /\ op' = [op EXCEPT ![s] = NoCommand]
      /\ args' = [args EXCEPT ![s] = {}] /\ reply' = [reply EXCEPT ![s] = "ok"]
      /\ depth' = [depth EXCEPT ![s] = 0] /\ readOnly' = [readOnly EXCEPT ![s] = FALSE]
      /\ work' = [work EXCEPT ![s] = <<>>] /\ maybe' = [maybe EXCEPT ![s] = {}]
      /\ rejected' = rejected \cup Uncommitted(s)
      /\ UNCHANGED <<disk, used, acked>> /\ TypeOK
  BY DEF EndSession, ForgetSession, Goto, files, SInv, IInv
<1>2. /\ pc'[s] = "closed" /\ args'[s] = {} /\ depth'[s] = 0 /\ readOnly'[s] = FALSE
      /\ work'[s] = <<>> /\ maybe'[s] = {}
  BY <1>1 DEF TypeOK
<1>3. IF holder = s THEN holder' = NoOne ELSE UNCHANGED <<mem, stack, holder>>
  BY DEF EndSession, RollbackGuard, Release
<1>4. OthersStand(s) /\ OwnersStand(s)
  BY <1>1, <1>3 DEF OthersStand, OwnersStand, TypeOK
<1>5. TranscriptOf(s)'
  BY <1>2 DEF TranscriptOf, Levels, Publishing
<1>6. ContentsOf(s)'
  BY <1>2 DEF ContentsOf, Publishing
<1>7. Confirmed(s)' = {}
  BY <1>2 DEF Confirmed, ToSet
<1>8. Mine(s)' = {} /\ Split(s)'
  BY <1>2, <1>7 DEF Mine, Confirming, Split
<1>9. /\ Uncommitted(s) \subseteq Mine(s) /\ Uncommitted(s) \subseteq used
      /\ Uncommitted(s) \cap disk.rows = {}
  BY UncommittedOut
<1>10. LedgerOf(s)'
  BY <1>2, <1>8 DEF LedgerOf, Durable
<1>11. Accounts'
  BY <1>1, <1>9 DEF SInv, Ledger, Accounts
<1>12. Ledger'
  BY <1>1, <1>4, <1>8, <1>9, <1>10, <1>11, LedgerStep DEF SInv
<1> QED
  BY <1>4, <1>5, <1>6, <1>12, ActorStep

LEMMA CrashKeeps ==
  ASSUME SInv, IInv', Crash
  PROVE  SInv'
<1> USE NamesAssumption
<1>1. /\ \A s \in Session : /\ pc'[s] = "closed" /\ depth'[s] = 0 /\ readOnly'[s] = FALSE
                            /\ work'[s] = <<>> /\ maybe'[s] = {}
      /\ \A b \in Batch : pc'[b] \in {"new", "done"}
      /\ \A a \in Actor : args'[a] = {}
      /\ UNCHANGED <<disk, used, acked>>
      /\ rejected' = rejected \cup UNION {Uncommitted(s) : s \in Session}
  BY DEF Crash, files, Actor
<1>2. Transcript'
  BY <1>1 DEF Transcript, TranscriptOf, Levels, Publishing, Actor
<1>3. Contents'
  BY <1>1 DEF Contents, ContentsOf, Publishing, Actor
<1>4. \A s \in Session : Confirmed(s)' = {} /\ Split(s)'
  BY <1>1 DEF Confirmed, Split, ToSet, Actor
<1>5. \A a \in Actor : Mine(a)' = {} /\ ~ Durable(a)'
  BY <1>1, <1>4 DEF Mine, Confirming, Durable, Actor
<1>6. \A a \in Actor : LedgerOf(a)'
  BY <1>4, <1>5 DEF LedgerOf
<1>7. Accounts'
  <2>1. \A s \in Session : Uncommitted(s) \subseteq used /\ Uncommitted(s) \cap disk.rows = {}
    BY UncommittedOut
  <2> QED
    BY <1>1, <2>1 DEF SInv, Ledger, Accounts
<1>8. Ledger'
  BY <1>5, <1>6, <1>7 DEF Ledger
<1> QED
  BY <1>2, <1>3, <1>8 DEF SInv

(* What a session's reply tells its client is true: what it calls durable  *)
(* is in the file, what it calls lost is in no image the client can still  *)
(* publish.                                                                *)
LEMMA HeardOk ==
  ASSUME SInv, NEW s \in Session, pc[s] = "reply", reply[s] = "ok", LearnOk(s)
  PROVE  /\ work' = [work EXCEPT ![s] = Levels(s)] /\ maybe' = [maybe EXCEPT ![s] = Doubts(s)]
         /\ \E new \in SUBSET disk.rows : acked' = acked \cup new
         /\ \E lost \in SUBSET Mine(s) :
              /\ rejected' = rejected \cup lost /\ lost \cap disk.rows = {}
              /\ lost \cap (Upto(Levels(s), Len(Levels(s))) \cup Doubts(s)) = {}
<1> USE DEF Actor
<1> DEFINE L == work[s]
           H == HeardLevels(s)
           n == Len(L)
<1>1. /\ TypeOK /\ LedgerOf(s) /\ Split(s) /\ TranscriptOf(s)
      /\ Mine(s) = Confirmed(s) \cup args[s] \cup maybe[s]
      /\ Confirming(s) = Confirmed(s) \cup args[s]
  BY DEF SInv, IInv, Ledger, LedgerOf, Transcript, Mine, Confirming
<1>2. L \in Seq(SUBSET Write) /\ n \in Nat /\ Confirmed(s) = Upto(L, n)
  BY <1>1, ConfirmedUpto
<1>3. Levels(s) = H /\ depth[s] = Len(H)
  BY <1>1 DEF Levels, TranscriptOf, Publishing
<1>4. Doubts(s) = IF depth[s] = 0 THEN {} ELSE maybe[s]
  BY DEF Doubts
<1>5. work' = [work EXCEPT ![s] = Levels(s)] /\ maybe' = [maybe EXCEPT ![s] = Doubts(s)]
  BY <1>3, <1>4 DEF LearnOk
<1>6. op[s] = "commit" /\ n = 1 => Len(H) = 0
  <2>1. op[s] = "commit" /\ n = 1 => Len(H) = n - 1
    <3>1. n = 1 => n > 0
      OBVIOUS
    <3> QED
      BY <1>1, <3>1, HeardFront
  <2> QED
    BY <2>1
<1>7. op[s] \in {"execute", "inspect", "commit"} /\ Len(H) = 0 => Confirming(s) \subseteq disk.rows
  BY <1>1, <1>3 DEF LedgerOf, Durable
<1>8. \E new \in SUBSET disk.rows : acked' = acked \cup new
  <2>1. CASE op[s] \in {"execute", "inspect"} /\ n = 0
    <3>1. H = L
      BY <1>1, <2>1, HeardNothing
    <3>2. args[s] \subseteq disk.rows
      BY <1>1, <1>7, <2>1, <3>1
    <3>3. acked' = acked \cup args[s]
      BY <2>1 DEF LearnOk
    <3> QED
      BY <3>2, <3>3
  <2>2. CASE op[s] = "commit" /\ n = 1
    <3>1. Confirmed(s) \subseteq disk.rows
      BY <1>1, <1>6, <1>7, <2>2
    <3>2. acked' = acked \cup Confirmed(s)
      BY <2>2 DEF LearnOk
    <3> QED
      BY <3>1, <3>2
  <2>3. CASE ~ (op[s] \in {"execute", "inspect"} /\ n = 0) /\ ~ (op[s] = "commit" /\ n = 1)
    BY <2>3 DEF LearnOk
  <2> QED
    BY <2>1, <2>2, <2>3
<1>9. \E lost \in SUBSET Mine(s) :
        /\ rejected' = rejected \cup lost /\ lost \cap disk.rows = {}
        /\ lost \cap (Upto(Levels(s), Len(Levels(s))) \cup Doubts(s)) = {}
  <2>1. CASE op[s] = "rollback" /\ n > 0
    <3> DEFINE lost == Last(L) \cup (IF n = 1 THEN maybe[s] ELSE {})
    <3>1. rejected' = rejected \cup lost
      BY <2>1 DEF LearnOk
    <3>2. Last(L) = L[n]
      BY <1>2, <2>1, LevelsFrontLast
    <3>3. Len(H) = n - 1 /\ \A i \in 1..(n - 1) : H[i] = L[i]
      BY <1>1, <2>1, HeardFront
    <3>4. Upto(L, n) = Upto(L, n - 1) \cup L[n]
      <4>1. n \in Nat \ {0}
        BY <1>2, <2>1
      <4> QED
        BY <4>1, UptoStep
    <3>5. Upto(H, n - 1) = Upto(L, n - 1)
      <4>1. n - 1 \in Nat
        BY <1>2, <2>1
      <4> QED
        BY <3>3, <4>1, UptoSame
    <3>6. L[n] \cap Upto(L, n - 1) = {} /\ Confirmed(s) \cap maybe[s] = {}
      <4>1. n \in 1..n
        BY <1>2, <2>1
      <4> QED
        BY <1>1, <4>1 DEF Split
    <3>7. ~ Durable(s)
      BY <2>1 DEF Durable
    <3>8. lost \subseteq Mine(s) /\ lost \cap disk.rows = {}
      BY <1>1, <1>2, <3>2, <3>4, <3>7 DEF LedgerOf
    <3>9. n = 1 => Doubts(s) = {}
      <4>1. n = 1 => n - 1 = 0
        OBVIOUS
      <4> QED
        BY <1>3, <1>4, <3>3, <4>1
    <3>10. n = 1 => Upto(L, n - 1) = {}
      <4>1. n = 1 => n - 1 = 0
        OBVIOUS
      <4> QED
        BY <4>1, UptoNone
    <3>11. Doubts(s) \subseteq maybe[s]
      BY <1>4
    <3>12. Upto(Levels(s), Len(Levels(s))) = Upto(L, n - 1)
      BY <1>3, <3>3, <3>5
    <3>13. L[n] \cap (Upto(L, n - 1) \cup Doubts(s)) = {}
      BY <1>2, <3>4, <3>6, <3>11
    <3>14. lost \cap (Upto(L, n - 1) \cup Doubts(s)) = {}
      BY <3>2, <3>9, <3>10, <3>13
    <3> HIDE DEF lost
    <3> QED
      BY <3>1, <3>8, <3>12, <3>14
  <2>2. CASE ~ (op[s] = "rollback" /\ n > 0)
    <3>1. rejected' = rejected \cup {}
      BY <2>2 DEF LearnOk
    <3>2. /\ {} \in SUBSET Mine(s) /\ {} \cap disk.rows = {}
          /\ {} \cap (Upto(Levels(s), Len(Levels(s))) \cup Doubts(s)) = {}
      OBVIOUS
    <3> QED
      BY <3>1, <3>2
  <2> QED
    BY <2>1, <2>2
<1> QED
  BY <1>5, <1>8, <1>9

LEMMA HeardErr ==
  ASSUME SInv, NEW s \in Session, pc[s] = "reply", reply[s] # "ok", LearnErr(s)
  PROVE  /\ work' = [work EXCEPT ![s] = Levels(s)] /\ maybe' = [maybe EXCEPT ![s] = Doubts(s)]
         /\ \E new \in SUBSET disk.rows : acked' = acked \cup new
         /\ \E lost \in SUBSET Mine(s) :
              /\ rejected' = rejected \cup lost /\ lost \cap disk.rows = {}
              /\ lost \cap (Upto(Levels(s), Len(Levels(s))) \cup Doubts(s)) = {}
<1> USE DEF Actor
<1>1. TypeOK /\ LedgerOf(s) /\ ~ Durable(s)
      /\ Mine(s) = Confirmed(s) \cup args[s] \cup maybe[s]
  BY DEF SInv, IInv, Ledger, Durable, Mine, Confirming
<1>2. acked' = acked \cup {}
  BY DEF LearnErr
<1>3. CASE depth[s] = 0
  <2>1. Levels(s) = <<>> /\ Doubts(s) = {}
    BY <1>3 DEF Levels, Doubts
  <2>2. Upto(Levels(s), Len(Levels(s))) = {}
    <3>1. Len(Levels(s)) = 0
      BY <2>1
    <3> QED
      BY <3>1, UptoNone
  <2>3. /\ work' = [work EXCEPT ![s] = Levels(s)] /\ maybe' = [maybe EXCEPT ![s] = Doubts(s)]
        /\ rejected' = rejected \cup Mine(s)
    BY <1>1, <1>3, <2>1 DEF LearnErr
  <2>4. Mine(s) \cap disk.rows = {}
    BY <1>1 DEF LedgerOf
  <2>5. Mine(s) \cap (Upto(Levels(s), Len(Levels(s))) \cup Doubts(s)) = {}
    BY <2>1, <2>2
  <2>6. {} \in SUBSET disk.rows /\ Mine(s) \in SUBSET Mine(s)
    OBVIOUS
  <2> QED
    BY <1>2, <2>3, <2>4, <2>5, <2>6
<1>4. CASE depth[s] # 0
  <2>1. Levels(s) = work[s] /\ Doubts(s) = maybe[s] \cup args[s]
    BY <1>4 DEF Levels, Doubts
  <2>2. work' = [work EXCEPT ![s] = work[s]]
    BY <1>1, <1>4 DEF LearnErr, TypeOK
  <2>3. maybe' = [maybe EXCEPT ![s] = Doubts(s)] /\ rejected' = rejected \cup {}
    BY <1>4, <2>1 DEF LearnErr
  <2>4. /\ {} \in SUBSET Mine(s) /\ {} \in SUBSET disk.rows /\ {} \cap disk.rows = {}
        /\ {} \cap (Upto(Levels(s), Len(Levels(s))) \cup Doubts(s)) = {}
    OBVIOUS
  <2>5. work' = [work EXCEPT ![s] = Levels(s)]
    BY <2>1, <2>2
  <2> QED
    BY <1>2, <2>3, <2>4, <2>5
<1> QED
  BY <1>3, <1>4

LEMMA ToSetUpto ==
  ASSUME NEW levels \in Seq(SUBSET Write)
  PROVE  UNION ToSet(levels) = Upto(levels, Len(levels))
<1>1. DOMAIN levels = 1..Len(levels) /\ Len(levels) \in Nat
  OBVIOUS
<1>2. ToSet(levels) = {levels[i] : i \in 1..Len(levels)}
  BY <1>1 DEF ToSet
<1> QED
  BY <1>2 DEF Upto

(* The client's count after a reply: nothing new, and nothing twice.       *)
LEMMA LevelsSplit ==
  ASSUME SInv, NEW s \in Session, pc[s] = "reply"
  PROVE  /\ Levels(s) \in Seq(SUBSET Write)
         /\ Upto(Levels(s), Len(Levels(s))) \cup Doubts(s) \subseteq Mine(s)
         /\ Upto(Levels(s), Len(Levels(s))) \cap Doubts(s) = {}
         /\ \A i \in 1..Len(Levels(s)) : Levels(s)[i] \cap Upto(Levels(s), i - 1) = {}
<1> USE DEF Actor
<1>1. TypeOK /\ Split(s) /\ Mine(s) = Confirming(s) \cup maybe[s]
      /\ Confirming(s) = Confirmed(s) \cup args[s]
  BY DEF SInv, IInv, Ledger, LedgerOf, Mine, Confirming
<1>2. work[s] \in Seq(SUBSET Write) /\ Confirmed(s) = Upto(work[s], Len(work[s]))
  BY <1>1, ConfirmedUpto
<1>3. CASE reply[s] = "ok"
  <2>1. Levels(s) = HeardLevels(s) /\ Doubts(s) \subseteq maybe[s]
    BY <1>3 DEF Levels, Doubts
  <2>2. /\ HeardLevels(s) \in Seq(SUBSET Write)
        /\ Upto(HeardLevels(s), Len(HeardLevels(s))) \subseteq Confirming(s)
        /\ \A i \in 1..Len(HeardLevels(s)) : HeardLevels(s)[i] \cap Upto(HeardLevels(s), i - 1) = {}
    BY <1>1, HeardSplit
  <2>3. Confirming(s) \cap maybe[s] = {}
    BY <1>1 DEF Split
  <2> QED
    BY <1>1, <2>1, <2>2, <2>3
<1>4. CASE reply[s] # "ok" /\ depth[s] = 0
  <2>1. Levels(s) = <<>> /\ Doubts(s) = {}
    BY <1>4 DEF Levels, Doubts
  <2>2. <<>> \in Seq(SUBSET Write) /\ Len(<<>>) = 0
    OBVIOUS
  <2>3. Upto(Levels(s), Len(Levels(s))) = {}
    BY <2>1, <2>2, UptoNone
  <2> QED
    BY <2>1, <2>2, <2>3
<1>5. CASE reply[s] # "ok" /\ depth[s] # 0
  <2>1. Levels(s) = work[s] /\ Doubts(s) = maybe[s] \cup args[s]
    BY <1>5 DEF Levels, Doubts
  <2> QED
    BY <1>1, <1>2, <2>1 DEF Split
<1> QED
  BY <1>3, <1>4, <1>5

LEMMA DeliverSessionKeeps ==
  ASSUME SInv, IInv', NEW s \in Actor, DeliverSession(s)
  PROVE  SInv'
<1> USE DEF Actor
<1>1. /\ s \in Session /\ pc[s] = "reply"
      /\ pc' = [pc EXCEPT ![s] = "idle"] /\ op' = [op EXCEPT ![s] = NoCommand]
      /\ args' = [args EXCEPT ![s] = {}] /\ reply' = [reply EXCEPT ![s] = "ok"]
      /\ UNCHANGED <<disk, mem, stack, holder, depth, readOnly, used>>
      /\ TypeOK
  BY DEF DeliverSession, Goto, files, database, session, SInv, IInv
<1>2. /\ work' = [work EXCEPT ![s] = Levels(s)] /\ maybe' = [maybe EXCEPT ![s] = Doubts(s)]
      /\ \E new \in SUBSET disk.rows : acked' = acked \cup new
      /\ \E lost \in SUBSET Mine(s) :
           /\ rejected' = rejected \cup lost /\ lost \cap disk.rows = {}
           /\ lost \cap (Upto(Levels(s), Len(Levels(s))) \cup Doubts(s)) = {}
  BY <1>1, HeardOk, HeardErr DEF DeliverSession
<1>3. PICK lost \in SUBSET Mine(s) :
        /\ rejected' = rejected \cup lost /\ lost \cap disk.rows = {}
        /\ lost \cap (Upto(Levels(s), Len(Levels(s))) \cup Doubts(s)) = {}
  BY <1>2
<1>4. PICK new \in SUBSET disk.rows : acked' = acked \cup new
  BY <1>2
<1>5. pc'[s] = "idle" /\ args'[s] = {} /\ work'[s] = Levels(s) /\ maybe'[s] = Doubts(s)
  BY <1>1, <1>2 DEF TypeOK
<1>6. OthersStand(s) /\ OwnersStand(s)
  BY <1>1, <1>2 DEF OthersStand, OwnersStand, TypeOK
<1>7. /\ depth[s] \in Nat /\ depth[s] = Len(Levels(s)) /\ Split(s) /\ LedgerOf(s) /\ Accounts
      /\ TranscriptOf(s) /\ ContentsOf(s)
      /\ Mine(s) = Confirming(s) \cup maybe[s] /\ Confirming(s) = Confirmed(s) \cup args[s]
  BY <1>1 DEF SInv, IInv, TypeOK, Transcript, TranscriptOf, Ledger, LedgerOf, Contents,
              Publishing, Mine, Confirming
<1>8. Levels(s)' = Levels(s) /\ Doubts(s)' = Doubts(s)
  BY <1>5 DEF Levels, Doubts
<1>9. TranscriptOf(s)'
  <2>1. Doubts(s) = {} \/ Levels(s) # <<>>
    <3>1. depth[s] = 0 => Doubts(s) = {}
      BY <1>1 DEF Doubts
    <3>2. Levels(s) = <<>> => Len(Levels(s)) = 0
      OBVIOUS
    <3> QED
      BY <1>7, <3>1, <3>2
  <2> QED
    BY <1>1, <1>5, <1>7, <1>8, <2>1 DEF TranscriptOf, Publishing
<1>10. ContentsOf(s)'
  BY <1>1, <1>5, <1>7, <1>8 DEF ContentsOf, Publishing, Fits, Holds
<1>11. /\ Levels(s) \in Seq(SUBSET Write)
       /\ Upto(Levels(s), Len(Levels(s))) \cup Doubts(s) \subseteq Mine(s)
       /\ Upto(Levels(s), Len(Levels(s))) \cap Doubts(s) = {}
       /\ \A i \in 1..Len(Levels(s)) : Levels(s)[i] \cap Upto(Levels(s), i - 1) = {}
  BY <1>1, LevelsSplit
<1>12. Confirmed(s)' = Upto(Levels(s), Len(Levels(s)))
  BY <1>5, <1>11, ToSetUpto DEF Confirmed
<1>13. Mine(s)' = Confirmed(s)' \cup Doubts(s)
  BY <1>1, <1>5 DEF Mine, Confirming
<1>14. Split(s)'
  <2>1. \A i \in 1..Len(work[s])' : work'[s][i] \cap Upto(work'[s], i - 1) = {}
    BY <1>5, <1>11
  <2>2. Confirmed(s)' \cap maybe'[s] = {}
    BY <1>5, <1>11, <1>12
  <2> QED
    BY <1>5, <2>1, <2>2 DEF Split, Upto
<1>15. Mine(s)' \cap disk.rows = {}
  <2>1. CASE Durable(s)
    <3>1. depth[s] = 0
      BY <1>1, <2>1 DEF Durable
    <3>2. Doubts(s) = {}
      BY <1>1, <3>1 DEF Doubts
    <3>3. Upto(Levels(s), Len(Levels(s))) = {}
      BY <1>7, <3>1, UptoNone
    <3> QED
      BY <1>12, <1>13, <3>2, <3>3
  <2>2. CASE ~ Durable(s)
    BY <1>7, <1>11, <1>12, <1>13, <2>2 DEF LedgerOf
  <2> QED
    BY <2>1, <2>2
<1>16. LedgerOf(s)'
  <2>1. ~ Durable(s)'
    BY <1>5 DEF Durable
  <2>2. Mine(s)' \subseteq used' \ rejected'
    BY <1>1, <1>3, <1>7, <1>11, <1>12, <1>13 DEF LedgerOf
  <2> QED
    BY <1>1, <1>14, <1>15, <2>1, <2>2 DEF LedgerOf
<1>17. Accounts'
  BY <1>1, <1>3, <1>4, <1>7 DEF Accounts, LedgerOf
<1>18. Ledger'
  BY <1>1, <1>3, <1>6, <1>11, <1>12, <1>13, <1>16, <1>17, LedgerStep DEF SInv
<1> QED
  BY <1>6, <1>9, <1>10, <1>18, ActorStep

-----------------------------------------------------------------------------
LEMMA InitSInv ==
  ASSUME Init
  PROVE  SInv
<1> USE NamesAssumption
<1>1. IInv
  BY InitIInv
<1>2. /\ \A s \in Session : /\ pc[s] = "closed" /\ depth[s] = 0 /\ readOnly[s] = FALSE
                            /\ work[s] = <<>> /\ maybe[s] = {}
      /\ \A b \in Batch : pc[b] = "new"
      /\ \A a \in Actor : args[a] = {}
      /\ disk.rows = {} /\ used = {} /\ acked = {} /\ rejected = {}
  BY DEF Init, Actor
<1>3. Transcript
  BY <1>2 DEF Transcript, TranscriptOf, Levels, Publishing, Actor
<1>4. Contents
  BY <1>2 DEF Contents, ContentsOf, Publishing, Actor
<1>5. \A s \in Session : Confirmed(s) = {} /\ Split(s)
  BY <1>2 DEF Confirmed, Split, ToSet, Actor
<1>6. \A a \in Actor : Mine(a) = {} /\ ~ Durable(a)
  BY <1>2, <1>5 DEF Mine, Confirming, Durable, Actor
<1>7. Ledger
  BY <1>2, <1>5, <1>6 DEF Ledger, LedgerOf, Accounts
<1> QED
  BY <1>1, <1>3, <1>4, <1>7 DEF SInv

LEMMA NextKeeps ==
  ASSUME FaultFree, SInv, [Next]_vars
  PROVE  SInv'
<1>0. IInv'
  BY NextStep DEF SInv
<1>1. CASE ClientStep
  BY <1>0, <1>1, OpenSocketKeeps, SendKeeps, SubmitBatchKeeps, DisconnectKeeps DEF ClientStep
<1>2. ASSUME NEW a \in Actor, ServerStep(a)
      PROVE  SInv'
  <2>1. CASE LookupHit(a) \/ LookupMiss(a) \/ Loaded(a) \/ LoadFailed(a)
    BY <1>0, <2>1, LookupHitKeeps, LookupMissKeeps, LoadedKeeps, LoadFailedKeeps
  <2>2. CASE Grant(a)
    BY <1>0, <2>2, GrantKeeps
  <2>3. CASE RunSession(a)
    BY <1>0, <2>3, RunSessionKeeps
  <2>4. CASE RunBatch(a)
    BY <1>0, <2>4, RunBatchKeeps DEF RunBatch
  <2>5. CASE PublishCreate(a) \/ PublishSync(a) \/ PublishFailed(a)
    BY <1>0, <2>5, PublishingKeeps
  <2>6. CASE PublishRename(a)
    BY <1>0, <2>6, RenameKeeps
  <2>7. CASE Restore(a)
    BY <1>0, <2>7, RestoreKeeps
  <2>8. CASE DeliverSession(a)
    BY <1>0, <2>8, DeliverSessionKeeps
  <2>9. CASE DeliverBatch(a)
    BY <1>0, <2>9, DeliverBatchKeeps DEF DeliverBatch
  <2> QED
    BY <1>2, <2>1, <2>2, <2>3, <2>4, <2>5, <2>6, <2>7, <2>8, <2>9 DEF ServerStep
<1>3. ASSUME NEW s \in Session, LockTimeout(s) \/ EndSession(s)
      PROVE  SInv'
  BY <1>0, <1>3, LockTimeoutKeeps, EndSessionKeeps
<1>4. CASE Crash
  BY <1>0, <1>4, CrashKeeps
<1>5. CASE UNCHANGED vars
  BY <1>0, <1>5, SameKeeps DEF vars, files, table, database, request, session, images, client
<1> QED
  BY <1>1, <1>2, <1>3, <1>4, <1>5 DEF Next

(* The second inductive invariant: what is in the images, and who knows    *)
(* what about every write, agree in every reachable state.                 *)
THEOREM StoreInvariance ==
  ASSUME FaultFree
  PROVE  Spec => []SInv
<1>1. Init => SInv
  BY InitSInv
<1>2. SInv /\ [Next]_vars => SInv'
  BY NextKeeps
<1> QED
  BY <1>1, <1>2, PTL DEF Spec

(* Session.depth, the open savepoints of the connection, the guard kept in  *)
(* the session and the levels the client counts from its replies agree     *)
(* between two commands, however long the transaction and its failures.    *)
THEOREM DepthsAgreeAlways ==
  ASSUME FaultFree
  PROVE  Spec => []DepthsAgree
<1>1. SInv => DepthsAgree
  <2> SUFFICES ASSUME SInv, NEW s \in Session, pc[s] = "idle"
               PROVE  /\ depth[s] > 0 <=> holder = s
                      /\ holder = s => depth[s] = Len(stack)
                      /\ depth[s] = Len(work[s])
    BY DEF DepthsAgree
  <2>1. depth[s] = Len(work[s])
    BY DEF SInv, Transcript, TranscriptOf, Levels, Publishing
  <2>2. depth[s] > 0 <=> holder = s
    BY DEF SInv, IInv, Locking
  <2>3. depth[s] > 0 => depth[s] = Len(stack)
    BY DEF SInv, IInv, Nesting
  <2> QED
    BY <2>1, <2>2, <2>3
<1> QED
  BY <1>1, StoreInvariance, PTL

(* A write that a client was told is refused or rolled back is in no file  *)
(* storage::publish ever leaves.                                           *)
THEOREM RejectedNeverPublished ==
  ASSUME FaultFree
  PROVE  Spec => []RejectedStaysOut
<1>1. SInv => RejectedStaysOut
  BY DEF SInv, Ledger, Accounts, RejectedStaysOut
<1> QED
  BY <1>1, StoreInvariance, PTL

-----------------------------------------------------------------------------
(* What a step does to the file and to what clients were told *)

LEMMA StepEffect ==
  ASSUME [Next]_vars
  PROVE  \/ \E a \in Actor : PublishRename(a) /\ UNCHANGED <<acked, rejected>>
         \/ /\ disk' = disk /\ acked \subseteq acked' /\ rejected \subseteq rejected'
            /\ acked' = acked \/ rejected' = rejected
<1> USE DEF files, client
<1>1. CASE ClientStep
  BY <1>1 DEF ClientStep, OpenSocket, Send, SubmitBatch, Disconnect
<1>2. ASSUME NEW a \in Actor, ServerStep(a), ~ PublishRename(a)
      PROVE  /\ disk' = disk /\ acked \subseteq acked' /\ rejected \subseteq rejected'
             /\ acked' = acked \/ rejected' = rejected
  <2>1. CASE LookupHit(a) \/ LookupMiss(a) \/ Loaded(a) \/ LoadFailed(a) \/ Grant(a)
    BY <2>1 DEF LookupHit, LookupMiss, Loaded, LoadFailed, Grant
  <2>2. CASE RunSession(a) \/ RunBatch(a) \/ Restore(a)
    BY <2>2 DEF RunSession, RunBatch, Restore
  <2>3. CASE PublishCreate(a) \/ PublishSync(a) \/ PublishFailed(a)
    BY <2>3 DEF PublishCreate, PublishSync, PublishFailed
  <2>4. CASE DeliverSession(a)
    <3>1. CASE LearnOk(a)
      <4>1. op[a] = "rollback" => acked' = acked
        BY <3>1 DEF LearnOk
      <4>2. op[a] # "rollback" => rejected' = rejected
        BY <3>1 DEF LearnOk
      <4>3. acked \subseteq acked' /\ rejected \subseteq rejected'
        BY <3>1 DEF LearnOk
      <4> QED
        BY <2>4, <4>1, <4>2, <4>3 DEF DeliverSession
    <3>2. CASE LearnErr(a)
      BY <2>4, <3>2 DEF DeliverSession, LearnErr
    <3> QED
      BY <2>4, <3>1, <3>2 DEF DeliverSession
  <2>5. CASE DeliverBatch(a)
    BY <2>5 DEF DeliverBatch
  <2> QED
    BY <1>2, <2>1, <2>2, <2>3, <2>4, <2>5 DEF ServerStep
<1>3. ASSUME NEW a \in Actor, PublishRename(a)
      PROVE  UNCHANGED <<acked, rejected>>
  BY <1>3 DEF PublishRename
<1>4. ASSUME NEW s \in Session, LockTimeout(s) \/ EndSession(s)
      PROVE  disk' = disk /\ acked' = acked /\ rejected \subseteq rejected'
  BY <1>4 DEF LockTimeout, EndSession
<1>5. CASE Crash
  BY <1>5 DEF Crash
<1>6. CASE UNCHANGED vars
  BY <1>6 DEF vars
<1> QED
  BY <1>1, <1>2, <1>3, <1>4, <1>5, <1>6 DEF Next

-----------------------------------------------------------------------------
(* Scripts and read-only sessions *)

(* An image that would publish no script and return no page. *)
Clean(image) == image.free = disk.free /\ (image.rows \ disk.rows) \cap scripted = {}
CleanLevels(levels) == \A k \in 1..Len(levels) : Clean(levels[k])

UnscriptedOf(s) == op[s] # "execute" => args[s] \cap scripted = {}
CleanOf(s) ==
  holder = s /\ readOnly[s] /\ pc[s] # "restore" => Clean(mem) /\ CleanLevels(stack)
Scripts == scripted \subseteq used /\ \A s \in Session : UnscriptedOf(s) /\ CleanOf(s)

(* What the holder of the guard may publish, or return to, holds no write  *)
(* that nobody asked for.                                                  *)
LEMMA ImagesUsed ==
  ASSUME SInv, NEW s \in Session, holder = s, pc[s] # "restore"
  PROVE  mem.rows \subseteq used /\ \A k \in 1..Len(stack) : stack[k].rows \subseteq used
<1> USE DEF Actor
<1>1. /\ Accounts /\ LedgerOf(s) /\ TypeOK /\ pc[s] \in Publishing \cup {"run", "idle", "reply"}
      /\ Mine(s) = Confirming(s) \cup maybe[s] /\ Confirming(s) = Confirmed(s) \cup args[s]
  BY DEF SInv, IInv, Ledger, Locking, Owning, Mine, Confirming
<1>2. disk.rows \cup Mine(s) \subseteq used
  BY <1>1 DEF Accounts, LedgerOf
<1>3. CASE depth[s] > 0
  <2>1. Fits(stack, mem, Levels(s), Doubts(s)) /\ pc[s] \in {"run", "idle", "reply"}
    BY <1>3 DEF SInv, IInv, Locking, Contents, ContentsOf
  <2>2. /\ depth[s] = Len(Levels(s)) /\ depth[s] = Len(stack) /\ depth[s] \in Nat
    BY <1>1, <1>3, <2>1 DEF SInv, IInv, Nesting, Transcript, TranscriptOf, Publishing
  <2>3. Upto(Levels(s), Len(Levels(s))) \cup Doubts(s) \subseteq used
    <3>1. CASE pc[s] = "reply"
      BY <1>2, <3>1, LevelsSplit
    <3>2. CASE pc[s] # "reply"
      BY <1>1, <1>2, <3>2, ConfirmedUpto DEF Levels, Doubts
    <3> QED
      BY <3>1, <3>2
  <2>4. \A k \in 0..Len(stack) : Upto(Levels(s), k) \subseteq used
    <3>1. \A k \in 0..Len(stack) : Upto(Levels(s), k) \subseteq Upto(Levels(s), Len(Levels(s)))
      BY <2>2 DEF Upto
    <3> QED
      BY <2>3, <3>1
  <2>5. mem.rows \subseteq disk.rows \cup Upto(Levels(s), Len(stack)) \cup Doubts(s)
    BY <2>1 DEF Fits, Holds
  <2>6. \A k \in 1..Len(stack) :
           stack[k].rows \subseteq disk.rows \cup Upto(Levels(s), k - 1) \cup Doubts(s)
    BY <2>1 DEF Fits, Holds
  <2>7. Len(stack) \in 0..Len(stack) /\ \A k \in 1..Len(stack) : k - 1 \in 0..Len(stack)
    BY <2>2
  <2> QED
    BY <1>2, <2>3, <2>4, <2>5, <2>6, <2>7
<1>4. CASE ~ (depth[s] > 0)
  <2>1. pc[s] \in Publishing \cup {"run"}
    BY <1>1, <1>4 DEF SInv, IInv, Locking
  <2>2. stack = <<>>
    <3>1. \A t \in Session : ~ (depth[t] > 0)
      BY <1>4 DEF SInv, IInv, Locking
    <3>2. \A a \in Actor : pc[a] # "restore"
      BY DEF SInv, IInv, Locking, Owning
    <3> QED
      BY <3>1, <3>2 DEF SInv, IInv, Nesting
  <2>3. CASE pc[s] \in Publishing
    BY <1>1, <1>2, <2>2, <2>3 DEF SInv, Contents, ContentsOf, Published
  <2>4. CASE pc[s] = "run"
    <3>1. mem = disk
      BY <1>1, <1>4, <2>4, RunState DEF TypeOK
    <3> QED
      BY <1>2, <2>2, <3>1
  <2> QED
    BY <2>1, <2>3, <2>4
<1> QED
  BY <1>3, <1>4

(* Most steps add fresh scripts at most, and leave the holder's images, or *)
(* hand over the published one.                                            *)
LEMMA ScriptsKeep ==
  ASSUME SInv, Scripts, NEW new \in SUBSET Write, scripted' = scripted \cup new, new \cap used = {},
         used \cup new \subseteq used',
         \A s \in Session : \/ args'[s] = args[s] /\ op'[s] = op[s]
                            \/ args'[s] = {}
                            \/ op'[s] = "execute"
                            \/ args'[s] \cap used = {} /\ new = {},
         \A s \in Session : holder' = s /\ readOnly'[s] /\ pc'[s] # "restore" =>
           \/ holder = s /\ readOnly[s] /\ pc[s] # "restore" /\ UNCHANGED <<disk, mem, stack>>
           \/ mem' = disk' /\ stack' = <<>>
  PROVE  Scripts'
<1> USE DEF Actor
<1>1. scripted' \subseteq used'
  BY DEF Scripts
<1>2. ASSUME NEW s \in Session
      PROVE  UnscriptedOf(s)'
  <2>1. args[s] \subseteq used /\ UnscriptedOf(s) /\ scripted \subseteq used
    BY DEF SInv, Ledger, LedgerOf, Mine, Confirming, Scripts
  <2> QED
    BY <2>1 DEF UnscriptedOf
<1>3. ASSUME NEW s \in Session, holder' = s, readOnly'[s], pc'[s] # "restore"
      PROVE  Clean(mem)' /\ CleanLevels(stack)'
  <2>1. CASE holder = s /\ readOnly[s] /\ pc[s] # "restore" /\ UNCHANGED <<disk, mem, stack>>
    <3>1. mem.rows \subseteq used /\ \A k \in 1..Len(stack) : stack[k].rows \subseteq used
      BY <2>1, ImagesUsed
    <3>2. Clean(mem) /\ CleanLevels(stack)
      BY <2>1 DEF Scripts, CleanOf
    <3> QED
      BY <2>1, <3>1, <3>2 DEF Clean, CleanLevels
  <2>2. CASE mem' = disk' /\ stack' = <<>>
    BY <2>2 DEF Clean, CleanLevels
  <2> QED
    BY <1>3, <2>1, <2>2
<1> QED
  BY <1>1, <1>2, <1>3 DEF Scripts, CleanOf

(* What SQLite may do with a command of a read-only session.               *)
LEMMA ReadOnlyResults ==
  ASSUME FaultFree, SInv, Scripts, NEW s \in Session, pc[s] = "run", readOnly[s], NEW r \in Results(s)
  PROVE  Clean(r.mem) /\ CleanLevels(r.stack)
<1> USE DEF Actor
<1>1. /\ holder = s /\ depth[s] \in Nat /\ depth[s] = Len(stack) /\ stack \in Seq(Image)
      /\ mem \in Image /\ TypeOK
  BY RunState DEF SInv, IInv
<1>2. Clean(mem) /\ CleanLevels(stack) /\ UnscriptedOf(s)
  BY <1>1 DEF Scripts, CleanOf
<1>3. CleanLevels(Append(stack, mem)) /\ CleanLevels(<<>>)
  <2>1. /\ Len(Append(stack, mem)) = Len(stack) + 1
        /\ \A k \in 1..Len(stack) : Append(stack, mem)[k] = stack[k]
        /\ Append(stack, mem)[Len(stack) + 1] = mem
    BY <1>1
  <2>2. \A k \in 1..(Len(stack) + 1) : k \in 1..Len(stack) \/ k = Len(stack) + 1
    BY <1>1
  <2> QED
    BY <1>2, <2>1, <2>2 DEF CleanLevels
<1>4. depth[s] # 0 => /\ CleanLevels(Front(stack)) /\ Clean(Last(stack)) /\ Clean(Head(stack))
  <2> SUFFICES ASSUME depth[s] # 0
               PROVE  CleanLevels(Front(stack)) /\ Clean(Last(stack)) /\ Clean(Head(stack))
    OBVIOUS
  <2> DEFINE n == Len(stack)
  <2>1. n \in Nat /\ n > 0
    BY <1>1
  <2>2. /\ Len(Front(stack)) = n - 1 /\ Last(stack) = stack[n] /\ Head(stack) = stack[1]
        /\ \A k \in 1..(n - 1) : Front(stack)[k] = stack[k]
    BY <1>1, <2>1, FrontImages
  <2>3. 1 \in 1..n /\ n \in 1..n /\ \A k \in 1..(n - 1) : k \in 1..n
    BY <2>1
  <2> QED
    BY <1>2, <2>2, <2>3 DEF CleanLevels
<1>5. op[s] # "execute" => Clean(Written(s))
  <2>1. Written(s).rows = mem.rows \cup args[s] /\ Written(s).free = mem.free
    BY <1>1 DEF Written, Image
  <2> QED
    BY <1>2, <2>1 DEF Clean, UnscriptedOf
<1>6. ASSUME NEW ok, NEW snapshot, r = Nothing(s, ok, snapshot)
      PROVE  Clean(r.mem) /\ CleanLevels(r.stack)
  BY <1>2, <1>6 DEF Nothing, Result
<1>7. ASSUME r \in AutoRollback(s)
      PROVE  Clean(r.mem) /\ CleanLevels(r.stack)
  BY <1>3, <1>4, <1>7 DEF AutoRollback, Result
<1>8. CASE op[s] = "begin"
  <2>1. r.mem \in {mem, Written(s)} /\ r.stack \in {stack, Append(stack, mem)}
    BY <1>8 DEF Results, BeginResults, FaultFree, Nothing, Result
  <2> QED
    BY <1>2, <1>3, <1>5, <1>8, <2>1
<1>9. CASE op[s] = "commit"
  <2>1. \/ r \in {Nothing(s, TRUE, NoImage), Nothing(s, FALSE, NoImage)} \/ r \in AutoRollback(s)
        \/ depth[s] # 0 /\ r = Result(TRUE, mem, Front(stack), depth[s] - 1, NoImage)
    BY <1>9 DEF Results, CommitResults
  <2>2. CASE depth[s] # 0 /\ r = Result(TRUE, mem, Front(stack), depth[s] - 1, NoImage)
    <3>1. r.mem = mem /\ r.stack = Front(stack)
      BY <2>2 DEF Result
    <3> QED
      BY <1>2, <1>4, <2>2, <3>1
  <2>3. CASE r \in {Nothing(s, TRUE, NoImage), Nothing(s, FALSE, NoImage)}
    BY <1>6, <2>3
  <2> QED
    BY <1>7, <2>1, <2>2, <2>3
<1>10. CASE op[s] = "rollback"
  <2>1. \/ r \in {Nothing(s, TRUE, NoImage), Nothing(s, FALSE, NoImage)}
        \/ depth[s] # 0 /\ r = Result(TRUE, Last(stack), Front(stack), depth[s] - 1, NoImage)
    BY <1>10 DEF Results, RollbackResults
  <2>2. CASE depth[s] # 0 /\ r = Result(TRUE, Last(stack), Front(stack), depth[s] - 1, NoImage)
    <3>1. r.mem = Last(stack) /\ r.stack = Front(stack)
      BY <2>2 DEF Result
    <3> QED
      BY <1>4, <2>2, <3>1
  <2>3. CASE r \in {Nothing(s, TRUE, NoImage), Nothing(s, FALSE, NoImage)}
    BY <1>6, <2>3
  <2> QED
    BY <2>1, <2>2, <2>3
<1>11. CASE op[s] = "execute"
  <2>1. r \in {Nothing(s, FALSE, Snapshot(s)), Nothing(s, FALSE, NoImage)}
    BY <1>11 DEF Results, ExecuteResults
  <2> QED
    BY <1>6, <2>1
<1>12. CASE op[s] \notin {"begin", "commit", "rollback", "execute"}
  <2>1. r.mem \in {mem, Written(s)} /\ r.stack = stack
    BY <1>12 DEF Results, InspectResults, Nothing, Result
  <2> QED
    BY <1>2, <1>5, <1>12, <2>1
<1> QED
  BY <1>8, <1>9, <1>10, <1>11, <1>12

LEMMA RunSessionScripts ==
  ASSUME FaultFree, SInv, Scripts, NEW s \in Actor, RunSession(s)
  PROVE  Scripts'
<1> USE DEF Actor
<1>1. /\ s \in Session /\ pc[s] = "run" /\ holder = s
      /\ UNCHANGED <<disk, op, args, readOnly, used, scripted>>
  BY DEF RunSession, files, client, SInv, IInv, Locking, Owning
<1>2. PICK r \in Results(s) :
        /\ stack' = r.stack
        /\ KeepTransaction(s, r) \/ FinishReadOnly(s, r) \/ FinishWrite(s, r)
  BY DEF RunSession, AfterLost, FaultFree
<1>3. readOnly[s] => mem' = r.mem
  BY <1>2 DEF KeepTransaction, FinishReadOnly, FinishWrite, Reclaimed
<1>4. readOnly[s] => Clean(mem)' /\ CleanLevels(stack)'
  <2>1. readOnly[s] => Clean(r.mem) /\ CleanLevels(r.stack)
    BY <1>1, ReadOnlyResults
  <2> QED
    BY <1>1, <1>2, <1>3, <2>1 DEF Clean, CleanLevels
<1>5. holder' = s \/ \A t \in Session : holder' # t
  BY <1>1, <1>2, NamesAssumption DEF KeepTransaction, FinishReadOnly, FinishWrite, Release
<1>6. CleanOf(s)'
  BY <1>1, <1>4 DEF CleanOf
<1>7. \A t \in Session \ {s} : CleanOf(t)'
  BY <1>5 DEF CleanOf
<1>8. \A t \in Session : UnscriptedOf(t)'
  BY <1>1 DEF Scripts, UnscriptedOf
<1>9. scripted' \subseteq used'
  BY <1>1 DEF Scripts
<1> QED
  BY <1>6, <1>7, <1>8, <1>9 DEF Scripts

LEMMA ScriptsStep ==
  ASSUME FaultFree, SInv, SInv', Scripts, [Next]_vars
  PROVE  Scripts'
<1> USE NamesAssumption DEF Actor
<1>0. TypeOK
  BY DEF SInv, IInv
<1>1. CASE ClientStep
  <2>1. ASSUME NEW s \in Session, NEW ro \in BOOLEAN, OpenSocket(s, ro)
        PROVE  Scripts'
    <3>1. /\ pc[s] = "closed" /\ readOnly' = [readOnly EXCEPT ![s] = ro]
          /\ pc' = [pc EXCEPT ![s] = "lookup"]
          /\ UNCHANGED <<disk, mem, stack, holder, op, args, used, scripted>>
      BY <2>1 DEF OpenSocket, Goto, files, database, request, client
    <3>2. holder # s
      BY <3>1 DEF SInv, IInv, Locking, Owning, Publishing
    <3>3. \A t \in Session : holder' = t => /\ holder = t /\ t # s
      BY <3>1, <3>2
    <3>4. \A t \in Session : t # s => readOnly'[t] = readOnly[t] /\ pc'[t] = pc[t]
      BY <1>0, <3>1 DEF TypeOK
    <3>5. {} \in SUBSET Write /\ scripted' = scripted \cup {} /\ {} \cap used = {}
          /\ used \cup {} \subseteq used'
      BY <3>1
    <3> QED
      BY <3>1, <3>3, <3>4, <3>5, ScriptsKeep
  <2>2. ASSUME NEW s \in Session, NEW o \in Operation, NEW ws \in SUBSET Write, Send(s, o, ws)
        PROVE  Scripts'
    <3> DEFINE new == IF o = "execute" THEN ws ELSE {}
    <3>1. /\ args' = [args EXCEPT ![s] = ws] /\ op' = [op EXCEPT ![s] = o]
          /\ used' = used \cup ws /\ scripted' = scripted \cup new /\ ws \cap used = {}
          /\ UNCHANGED <<disk, mem, stack, holder, readOnly>> /\ pc[s] = "idle"
      BY <2>2 DEF Send, Carries, Unused, files, session
    <3>2. \A t \in Session : pc[t] # "restore" \/ pc'[t] = "restore"
      BY <1>0, <2>2, <3>1 DEF Send, Goto, TypeOK
    <3>3. \A t \in Session : \/ args'[t] = args[t] /\ op'[t] = op[t]
                             \/ op'[t] = "execute"
                             \/ args'[t] \cap used = {} /\ new = {}
      BY <1>0, <3>1 DEF TypeOK
    <3>4. new \in SUBSET Write /\ new \cap used = {} /\ used \cup new \subseteq used'
      BY <3>1
    <3> HIDE DEF new
    <3> QED
      BY <3>1, <3>2, <3>3, <3>4, ScriptsKeep
  <2>3. ASSUME NEW b \in Batch, NEW ws \in SUBSET Write, SubmitBatch(b, ws)
        PROVE  Scripts'
    <3>1. /\ args' = [args EXCEPT ![b] = ws] /\ pc' = [pc EXCEPT ![b] = "lookup"]
          /\ used' = used \cup ws /\ scripted' = scripted \cup ws /\ ws \cap used = {}
          /\ UNCHANGED <<disk, mem, stack, holder, op, readOnly>>
      BY <2>3 DEF SubmitBatch, Goto, Unused, files, database, session
    <3>2. \A t \in Session : args'[t] = args[t] /\ pc'[t] = pc[t]
      BY <1>0, <3>1 DEF TypeOK
    <3> QED
      BY <3>1, <3>2, ScriptsKeep
  <2>4. ASSUME NEW a \in Actor, Disconnect(a)
        PROVE  Scripts'
    <3>1. UNCHANGED <<disk, mem, stack, holder, pc, op, args, readOnly, used, scripted>>
      BY <2>4 DEF Disconnect, files, database, request, session, client
    <3>2. {} \in SUBSET Write /\ scripted' = scripted \cup {} /\ {} \cap used = {}
          /\ used \cup {} \subseteq used'
      BY <3>1
    <3> QED
      BY <3>1, <3>2, ScriptsKeep
  <2> QED
    BY <1>1, <2>1, <2>2, <2>3, <2>4 DEF ClientStep
<1>2. ASSUME NEW a \in Actor, ServerStep(a), ~ RunSession(a)
      PROVE  Scripts'
  <2>1. /\ UNCHANGED <<scripted, used, readOnly>>
        /\ \A t \in Session : (args'[t] = args[t] /\ op'[t] = op[t]) \/ args'[t] = {}
    BY <1>0, <1>2 DEF ServerStep, LookupHit, LookupMiss, Loaded, LoadFailed, Grant, RunBatch,
       PublishCreate, PublishSync, PublishRename, PublishFailed, Restore, DeliverSession,
       DeliverBatch, files, table, database, request, session, client, TypeOK
  <2>2. \A t \in Session : holder' = t =>
          \/ holder = t /\ pc[t] # "restore" /\ UNCHANGED <<disk, mem, stack>>
          \/ mem' = disk' /\ stack' = <<>>
          \/ pc'[t] = "restore"
    <3>1. CASE LookupHit(a) \/ LookupMiss(a) \/ LoadFailed(a) \/ DeliverSession(a) \/ DeliverBatch(a)
      <4>1. UNCHANGED <<disk, mem, stack, holder>> /\ \A t \in Session : pc[t] = "restore" => pc'[t] = pc[t]
        BY <1>0, <3>1 DEF LookupHit, LookupMiss, LoadFailed, Ready, Goto, DeliverSession, DeliverBatch,
           files, database, TypeOK
      <4> QED
        BY <4>1
    <3>2. CASE Loaded(a)
      <4>1. \A t \in Session : holder # t
        BY <3>2, NoOwner DEF Loaded, SInv, IInv, Locking, Owning, Publishing
      <4> QED
        BY <3>2, <4>1 DEF Loaded
    <3>3. CASE Grant(a)
      <4>1. holder = NoOne /\ UNCHANGED <<disk, mem, stack>> /\ pc[a] = "wait"
        BY <3>3 DEF Grant, GuardFree, files
      <4>2. mem = disk /\ stack = <<>>
        <5>1. entry /\ \A t \in Session : ~ (depth[t] > 0)
          BY <4>1 DEF SInv, IInv, Locking
        <5>2. \A t \in Actor : pc[t] # "restore"
          BY <4>1 DEF SInv, IInv, Locking, Owning
        <5> QED
          BY <4>1, <5>1, <5>2 DEF SInv, IInv, Nesting, Images
      <4> QED
        BY <4>1, <4>2
    <3>4. CASE RunBatch(a)
      <4>1. holder = a /\ holder' = a /\ a \notin Session
        BY <3>4 DEF RunBatch, SInv, IInv, Locking, Owning
      <4> QED
        BY <4>1
    <3>5. CASE PublishCreate(a) \/ PublishSync(a) \/ PublishFailed(a)
      <4>1. UNCHANGED <<disk, mem, stack, holder>> /\ \A t \in Session : pc[t] = "restore" => pc'[t] = pc[t]
        BY <1>0, <3>5 DEF PublishCreate, PublishSync, PublishFailed, Goto, files, database, TypeOK
      <4> QED
        BY <4>1
    <3>6. CASE PublishRename(a) \/ Restore(a)
      <4>1. holder' = NoOne
        BY <3>6 DEF PublishRename, Restore, Release
      <4> QED
        BY <4>1
    <3> QED
      BY <1>2, <3>1, <3>2, <3>3, <3>4, <3>5, <3>6 DEF ServerStep
  <2>3. {} \in SUBSET Write /\ scripted' = scripted \cup {} /\ {} \cap used = {}
        /\ used \cup {} \subseteq used'
    BY <2>1
  <2> QED
    BY <2>1, <2>2, <2>3, ScriptsKeep
<1>3. ASSUME NEW s \in Session, LockTimeout(s) \/ EndSession(s)
      PROVE  Scripts'
  <2>1. /\ UNCHANGED <<scripted, used, disk>>
        /\ \A t \in Session : (args'[t] = args[t] /\ op'[t] = op[t]) \/ args'[t] = {}
    BY <1>0, <1>3 DEF LockTimeout, EndSession, ForgetSession, files, client, TypeOK
  <2>2. \A t \in Session : holder' = t =>
          holder = t /\ readOnly'[t] = readOnly[t] /\ pc'[t] = pc[t] /\ UNCHANGED <<mem, stack>>
    <3>1. CASE LockTimeout(s)
      <4>1. UNCHANGED <<mem, stack, holder, readOnly>> /\ pc[s] = "wait" /\ pc' = [pc EXCEPT ![s] = "reply"]
        BY <3>1 DEF LockTimeout, Goto, session
      <4>2. holder # s
        BY <4>1, NoOwner DEF SInv, Owning, Publishing
      <4> QED
        BY <1>0, <4>1, <4>2 DEF TypeOK
    <3>2. CASE EndSession(s)
      <4>1. /\ readOnly' = [readOnly EXCEPT ![s] = FALSE] /\ pc' = [pc EXCEPT ![s] = "closed"]
            /\ IF holder = s THEN holder' = NoOne ELSE UNCHANGED <<mem, stack, holder>>
        BY <3>2 DEF EndSession, ForgetSession, Goto, RollbackGuard, Release
      <4> QED
        BY <1>0, <4>1 DEF TypeOK
    <3> QED
      BY <1>3, <3>1, <3>2
  <2>3. {} \in SUBSET Write /\ scripted' = scripted \cup {} /\ {} \cap used = {}
        /\ used \cup {} \subseteq used'
    BY <2>1
  <2> QED
    BY <2>1, <2>2, <2>3, ScriptsKeep
<1>4. CASE Crash
  <2>1. /\ UNCHANGED <<scripted, used>> /\ holder' = NoOne
        /\ \A t \in Session : args'[t] = {}
    BY <1>4 DEF Crash
  <2>2. {} \in SUBSET Write /\ scripted' = scripted \cup {} /\ {} \cap used = {}
        /\ used \cup {} \subseteq used'
    BY <2>1
  <2> QED
    BY <2>1, <2>2, ScriptsKeep
<1>5. CASE UNCHANGED vars
  <2>1. UNCHANGED <<disk, mem, stack, holder, pc, op, args, readOnly, used, scripted>>
    BY <1>5 DEF vars, files, database, request, session, client
  <2>2. {} \in SUBSET Write /\ scripted' = scripted \cup {} /\ {} \cap used = {}
        /\ used \cup {} \subseteq used'
    BY <2>1
  <2> QED
    BY <2>1, <2>2, ScriptsKeep
<1> QED
  BY <1>1, <1>2, <1>3, <1>4, <1>5, RunSessionScripts DEF Next

(* Whatever a read-only session makes Session::command publish, by the text *)
(* of its BEGIN or a PRAGMA, contains no script's write, its own or another *)
(* client's, and returns no page.                                          *)
THEOREM ReadOnlyPublishesNoScript ==
  ASSUME FaultFree
  PROVE  Spec => ReadOnlyScriptsPublishNothing
<1>1. Init => Scripts
  BY NamesAssumption DEF Init, Scripts, UnscriptedOf, CleanOf, Actor
<1>2. SInv /\ SInv' /\ Scripts /\ [Next]_vars => Scripts'
  BY ScriptsStep
<1>3. Spec => []SInv
  BY StoreInvariance
<1>4. Spec => []Scripts
  BY <1>1, <1>2, <1>3, PTL DEF Spec
<1>5. SInv /\ Scripts /\ [Next]_vars =>
        [\A s \in Session : holder = s /\ readOnly[s] =>
           disk'.free = disk.free /\ (disk'.rows \ disk.rows) \cap scripted = {}]_vars
  <2> SUFFICES ASSUME SInv, Scripts, [Next]_vars, NEW s \in Session, holder = s, readOnly[s], disk' # disk
               PROVE  disk'.free = disk.free /\ (disk'.rows \ disk.rows) \cap scripted = {}
    OBVIOUS
  <2>1. PICK a \in Actor : PublishRename(a)
    BY StepEffect
  <2>2. holder = a /\ disk' = mem /\ pc[a] = "rename"
    BY <2>1, RenameEffect
  <2>3. Clean(mem)
    BY <2>2 DEF Scripts, CleanOf
  <2> QED
    BY <2>2, <2>3 DEF Clean
<1> QED
  BY <1>3, <1>4, <1>5, PTL DEF Spec, ReadOnlyScriptsPublishNothing

(* One rename is one whole request: a batch, or what a transaction's       *)
(* client saw confirmed, with nothing of another client's.                 *)
THEOREM PublicationAlwaysAtomic ==
  ASSUME FaultFree
  PROVE  Spec => PublicationIsAtomic
<1>1. SInv /\ [Next]_vars => [disk'.rows # disk.rows => AtomicStep]_disk
  <2> SUFFICES ASSUME SInv, [Next]_vars, disk'.rows # disk.rows
               PROVE  AtomicStep
    OBVIOUS
  <2>1. PICK a \in Actor : PublishRename(a)
    BY StepEffect
  <2>2. /\ disk.rows \subseteq disk'.rows /\ disk'.rows \subseteq disk.rows \cup Mine(a)
        /\ Confirming(a) \subseteq disk'.rows
    BY <2>1, RenameEffect
  <2> QED
    BY <2>2 DEF AtomicStep, Mine, Confirming
<1> QED
  BY <1>1, StoreInvariance, PTL DEF Spec, PublicationIsAtomic

(* The service implements the durable store its clients rely on: renames   *)
(* commit, replies confirm or deny, and no step does anything else to what *)
(* is in the file or was said about it.                                    *)
THEOREM StoreImplemented ==
  ASSUME FaultFree
  PROVE  Spec => ImplementsStore
<1>1. Init => Store!DSInit
  BY DEF Init, Store!DSInit
<1>2. SInv /\ SInv' /\ [Next]_vars => [Store!DSNext]_(Store!dsVars)
  <2> SUFFICES ASSUME SInv, SInv', [Next]_vars
               PROVE  Store!DSNext \/ UNCHANGED Store!dsVars
    OBVIOUS
  <2>1. TypeOK /\ TypeOK' /\ Accounts /\ Accounts'
    BY DEF SInv, IInv, Ledger
  <2>2. ASSUME NEW a \in Actor, PublishRename(a), UNCHANGED <<acked, rejected>>
        PROVE  Store!DSNext
    <3> DEFINE ws == disk'.rows \ disk.rows
    <3>1. disk.rows \subseteq disk'.rows /\ disk'.rows \subseteq disk.rows \cup Mine(a)
      BY <2>2, RenameEffect
    <3>2. Mine(a) \cap rejected = {} /\ Mine(a) \subseteq Write
      BY <2>1 DEF SInv, Ledger, LedgerOf, TypeOK
    <3>3. ws \in SUBSET Write /\ Store!Commit(ws)
      BY <2>2, <3>1, <3>2 DEF Store!Commit
    <3> QED
      BY <3>3 DEF Store!DSNext
  <2>3. ASSUME disk' = disk, acked \subseteq acked', rejected' = rejected
        PROVE  Store!DSNext
    <3>1. acked' \in SUBSET Write /\ Store!Confirm(acked')
      BY <2>1, <2>3 DEF Accounts, TypeOK, Store!Confirm
    <3> QED
      BY <3>1 DEF Store!DSNext
  <2>4. ASSUME disk' = disk, rejected \subseteq rejected', acked' = acked
        PROVE  Store!DSNext
    <3>1. rejected' \in SUBSET Write /\ Store!Deny(rejected')
      BY <2>1, <2>4 DEF Accounts, TypeOK, Store!Deny
    <3> QED
      BY <3>1 DEF Store!DSNext
  <2> QED
    BY <2>2, <2>3, <2>4, StepEffect
<1> QED
  BY <1>1, <1>2, StoreInvariance, PTL DEF Spec, ImplementsStore, Store!DSSpec
=============================================================================
