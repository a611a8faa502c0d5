-------------------------- MODULE VhttpServerProofs --------------------------
(***************************************************************************)
(* Proofs about VhttpServer for every set of handles, all streams and every *)
(* length of an answer.                                                     *)
(***************************************************************************)
EXTENDS VhttpServer, SequenceTheorems, WellFoundedInduction, TLAPS

(* The fields that the properties read; what the buffer of a session holds  *)
(* does not matter to them.                                                 *)
SessionOK(s) ==
  /\ s = [req |-> s.req, pendingClose |-> s.pendingClose, pending |-> s.pending, sent |-> s.sent]
  /\ s.pending \in Nat /\ s.sent \in Nat

SocketOK(n) ==
  /\ n = [state |-> n.state, stream |-> n.stream, polite |-> n.polite,
          delivered |-> n.delivered, answered |-> n.answered,
          unsent |-> n.unsent, closing |-> n.closing]
  /\ n.unsent \in Nat /\ n.closing \in BOOLEAN

Shape ==
  /\ DOMAIN sessions \subseteq Handle /\ DOMAIN net = Handle
  /\ todo \in [Handle -> Seq({"keepAlive", "close"})]
  /\ unruly \subseteq Handle
  /\ \A h \in Handle : SessionOK(Session(h)) /\ SocketOK(net[h])

(* An answer that is owed to a handle without a connection has been overtaken. *)
OwedIsUnruly ==
  \A h \in Handle : todo[h] # <<>> /\ net[h].state # "open" => h \in unruly

(* A handle without a connection has no session, but for overtaken answers.  *)
SessionsAreLive ==
  \A h \in DOMAIN sessions : net[h].state = "open" \/ h \in unruly

(* What a session still counts is queued, but for an answer to nobody, which *)
(* is what made the session of a handle without a connection count.         *)
UnderWayOf(h) ==
  /\ net[h].state = "open" /\ ~net[h].closing /\ Session(h).pending # 0
       => Session(h).pending - Session(h).sent <= net[h].unsent \/ h \in stale
  /\ net[h].state # "open" /\ Session(h).pending # 0 => h \in stale
UnderWay == \A h \in Handle : UnderWayOf(h)

(* Between orderly events at most one answer is owed or being sent, and      *)
(* what is queued is what the session still counts.                          *)
AccountOf(h) ==
  net[h].state = "open" /\ h \notin unruly =>
    /\ Len(todo[h]) <= 1
    /\ net[h].closing => net[h].unsent = 0
    /\ ~net[h].closing =>
         /\ Session(h).pending # 0 => todo[h] = <<>>
         /\ net[h].unsent + Session(h).sent = Session(h).pending
Accounts == \A h \in Handle : AccountOf(h)

(* A socket that is no connection has nothing to send.                       *)
IdleOf(h) == net[h].state # "open" => net[h].unsent = 0
Idle == \A h \in Handle : IdleOf(h)

IInv == Shape /\ OwedIsUnruly /\ SessionsAreLive /\ UnderWay /\ Accounts /\ Idle

USE SizeAssumption

-----------------------------------------------------------------------------
(* The inductive invariant *)

LEMMA InitInv == Init => IInv
<1> SUFFICES ASSUME Init
             PROVE  IInv
  OBVIOUS
<1>1. Shape
  <2>1. \A h \in Handle : Session(h) = NewSession /\ net[h] = FreeSocket
    BY DEF Init, Session
  <2>2. SessionOK(NewSession) /\ SocketOK(FreeSocket)
    BY DEF SessionOK, NewSession, SocketOK, FreeSocket, Socket
  <2>3. DOMAIN sessions = {} /\ DOMAIN net = Handle /\ unruly \subseteq Handle
    BY DEF Init
  <2>4. todo \in [Handle -> Seq({"keepAlive", "close"})]
    BY DEF Init
  <2> QED
    BY <2>1, <2>2, <2>3, <2>4 DEF Shape
<1>2. OwedIsUnruly /\ SessionsAreLive /\ UnderWay /\ Accounts /\ Idle
  BY DEF Init, OwedIsUnruly, SessionsAreLive, UnderWay, UnderWayOf, Accounts, AccountOf,
     Idle, IdleOf, FreeSocket, Socket, Session, NewSession
<1> QED
  BY <1>1, <1>2 DEF IInv

(* Everything but the shape, for one handle.                                 *)
HandleOK(h) ==
  /\ todo[h] # <<>> /\ net[h].state # "open" => h \in unruly
  /\ h \in DOMAIN sessions => net[h].state = "open" \/ h \in unruly
  /\ UnderWayOf(h)
  /\ AccountOf(h)
  /\ IdleOf(h)

LEMMA HandlesOK == IInv => \A h \in Handle : HandleOK(h)
BY DEF IInv, Shape, OwedIsUnruly, SessionsAreLive, UnderWay, Accounts, Idle, HandleOK

(* A step of one handle leaves the others alone.                             *)
Others(h) ==
  \A g \in Handle : g # h =>
    /\ g \in DOMAIN sessions' <=> g \in DOMAIN sessions
    /\ Session(g)' = Session(g) /\ net'[g] = net[g] /\ todo'[g] = todo[g]
    /\ g \in unruly' <=> g \in unruly
    /\ g \in stale' <=> g \in stale

ShapeOf(h) ==
  /\ DOMAIN sessions \subseteq Handle /\ DOMAIN net = Handle
  /\ todo \in [Handle -> Seq({"keepAlive", "close"})]
  /\ unruly \subseteq Handle
  /\ SessionOK(Session(h)) /\ SocketOK(net[h])

LEMMA OneHandle ==
  ASSUME IInv, NEW h \in Handle, Others(h), ShapeOf(h)', HandleOK(h)'
  PROVE  IInv'
<1>1. ASSUME NEW g \in Handle, g # h
      PROVE  HandleOK(g)' /\ SessionOK(Session(g))' /\ SocketOK(net[g])'
  <2>1. HandleOK(g) /\ SessionOK(Session(g)) /\ SocketOK(net[g])
    BY HandlesOK DEF IInv, Shape
  <2>2. /\ g \in DOMAIN sessions' <=> g \in DOMAIN sessions
        /\ Session(g)' = Session(g) /\ net'[g] = net[g] /\ todo'[g] = todo[g]
        /\ g \in unruly' <=> g \in unruly
        /\ g \in stale' <=> g \in stale
    BY <1>1 DEF Others
  <2> QED
    BY <2>1, <2>2 DEF HandleOK, UnderWayOf, AccountOf, IdleOf, SessionOK, SocketOK
<1>2. Shape'
  BY <1>1 DEF Shape, ShapeOf
<1>3. \A g \in Handle : HandleOK(g)'
  BY <1>1
<1>4. OwedIsUnruly' /\ SessionsAreLive' /\ UnderWay' /\ Accounts' /\ Idle'
  BY <1>2, <1>3 DEF Shape, OwedIsUnruly, SessionsAreLive, UnderWay, Accounts, Idle, HandleOK
<1> QED
  BY <1>2, <1>4 DEF IInv

-----------------------------------------------------------------------------
(* The steps *)

(* The map with one entry replaced, and with one removed.                    *)
LEMMA WithEffect ==
  ASSUME Shape, NEW h \in Handle, NEW session, SessionOK(session), sessions' = With(h, session)
  PROVE  /\ DOMAIN sessions' = DOMAIN sessions \cup {h}
         /\ Session(h)' = session
         /\ \A g \in Handle : g # h => Session(g)' = Session(g)
BY DEF With, Session

LEMMA AfterCloseEffect ==
  ASSUME NEW h \in Handle, sessions' = SessionsAfterClose(h)
  PROVE  /\ DOMAIN sessions' = DOMAIN sessions \ {h}
         /\ Session(h)' = NewSession
         /\ \A g \in Handle : g # h => Session(g)' = Session(g)
BY DEF SessionsAfterClose, Session

LEMMA DataStep ==
  ASSUME IInv, NEW h \in Handle, TcpData(h)
  PROVE  IInv'
<1>0. /\ Shape /\ SessionOK(Session(h)) /\ SocketOK(net[h]) /\ HandleOK(h)
      /\ net[h].state = "open"
  BY HandlesOK DEF IInv, Shape, TcpData
<1>1. PICK upto : net' = [net EXCEPT ![h].delivered = upto]
  BY DEF TcpData
<1>2. PICK req : sessions' = With(h, [Session(h) EXCEPT !.req = req])
  BY DEF TcpData
<1>3. /\ unruly' = IF todo[h] # <<>> THEN unruly \cup {h} ELSE unruly
      /\ stale' = stale
  BY DEF TcpData, Overtake
<1>4. \/ todo' = todo
      \/ /\ Session(h).pending = 0
         /\ \E owed \in {"keepAlive", "close"} : todo' = [todo EXCEPT ![h] = Append(@, owed)]
  BY DEF TcpData, Owed
<1>5. /\ todo' \in [Handle -> Seq({"keepAlive", "close"})]
      /\ \A g \in Handle : g # h => todo'[g] = todo[g]
      /\ todo[h] = <<>> => Len(todo'[h]) <= 1
      /\ Session(h).pending # 0 => todo'[h] = todo[h]
  <2>1. todo \in [Handle -> Seq({"keepAlive", "close"})]
    BY <1>0 DEF Shape
  <2>2. CASE todo' = todo
    BY <2>1, <2>2
  <2>3. ASSUME NEW owed \in {"keepAlive", "close"}, todo' = [todo EXCEPT ![h] = Append(@, owed)]
        PROVE  /\ todo' \in [Handle -> Seq({"keepAlive", "close"})]
               /\ \A g \in Handle : g # h => todo'[g] = todo[g]
               /\ todo[h] = <<>> => Len(todo'[h]) <= 1
    <3>1. Append(todo[h], owed) \in Seq({"keepAlive", "close"})
      BY <2>1
    <3>2. todo[h] = <<>> => Len(Append(todo[h], owed)) = 1
      BY <2>1
    <3> QED
      BY <2>1, <2>3, <3>1, <3>2
  <2> QED
    BY <1>4, <2>2, <2>3
<1>6. /\ SessionOK([Session(h) EXCEPT !.req = req])
      /\ [Session(h) EXCEPT !.req = req].pending = Session(h).pending
      /\ [Session(h) EXCEPT !.req = req].sent = Session(h).sent
  BY <1>0 DEF SessionOK
<1>7. /\ DOMAIN sessions' = DOMAIN sessions \cup {h}
      /\ Session(h)' = [Session(h) EXCEPT !.req = req]
      /\ \A g \in Handle : g # h => Session(g)' = Session(g)
  BY <1>0, <1>2, <1>6, WithEffect
<1>8. /\ DOMAIN net' = Handle /\ SocketOK(net'[h])
      /\ net'[h].state = net[h].state /\ net'[h].unsent = net[h].unsent
      /\ net'[h].closing = net[h].closing
      /\ \A g \in Handle : g # h => net'[g] = net[g]
  BY <1>0, <1>1 DEF Shape, SocketOK
<1>9. Others(h)
  BY <1>3, <1>5, <1>7, <1>8 DEF Others
<1>10. ShapeOf(h)'
  BY <1>0, <1>3, <1>5, <1>6, <1>7, <1>8 DEF Shape, ShapeOf
<1>11. HandleOK(h)'
  BY <1>0, <1>3, <1>5, <1>6, <1>7, <1>8 DEF HandleOK, UnderWayOf, AccountOf, IdleOf
<1> QED
  BY <1>9, <1>10, <1>11, OneHandle

LEMMA RespondStep ==
  ASSUME IInv, NEW h \in Handle, Respond(h)
  PROVE  IInv'
<1> DEFINE session == MarkedSession(Session(h), Head(todo[h]))
<1>0. /\ Shape /\ SessionOK(Session(h)) /\ SocketOK(net[h]) /\ HandleOK(h)
      /\ todo[h] # <<>> /\ unruly' = unruly
      /\ stale' = IF net[h].state = "open" THEN stale ELSE stale \cup {h}
  BY HandlesOK DEF IInv, Shape, Respond
<1>1. SessionOK(session) /\ session.pending = Answer /\ session.sent = 0
  <2>1. PICK pendingClose :
          session = [Session(h) EXCEPT !.pending = Answer, !.sent = 0,
                                       !.pendingClose = pendingClose]
    BY Zenon DEF MarkedSession
  <2> HIDE DEF session
  <2> QED
    BY <1>0, <2>1 DEF SessionOK
<1>2. /\ DOMAIN sessions' = DOMAIN sessions \cup {h}
      /\ Session(h)' = session
      /\ \A g \in Handle : g # h => Session(g)' = Session(g)
  BY <1>0, <1>1, WithEffect DEF Respond
<1>3. /\ todo' \in [Handle -> Seq({"keepAlive", "close"})]
      /\ \A g \in Handle : g # h => todo'[g] = todo[g]
      /\ Len(todo'[h]) = Len(todo[h]) - 1 /\ Len(todo[h]) \in Nat
      /\ Len(todo[h]) <= 1 => todo'[h] = <<>>
  <2>1. todo[h] \in Seq({"keepAlive", "close"})
    BY <1>0 DEF Shape
  <2>2. /\ Tail(todo[h]) \in Seq({"keepAlive", "close"})
        /\ Len(Tail(todo[h])) = Len(todo[h]) - 1 /\ Len(todo[h]) \in Nat
        /\ Len(todo[h]) <= 1 => Tail(todo[h]) = <<>>
    BY <1>0, <2>1
  <2>3. todo' = [todo EXCEPT ![h] = Tail(@)]
    BY DEF Respond
  <2> QED
    BY <1>0, <2>2, <2>3 DEF Shape
<1>4. /\ DOMAIN net' = Handle /\ SocketOK(net'[h])
      /\ net'[h].state = net[h].state /\ net'[h].closing = net[h].closing
      /\ net'[h].unsent = IF net[h].state = "open" /\ ~net[h].closing
                          THEN net[h].unsent + Answer ELSE net[h].unsent
      /\ \A g \in Handle : g # h => net'[g] = net[g]
  <2> DEFINE queued == [net[h] EXCEPT !.unsent = @ + Answer]
  <2>1. /\ SocketOK(queued) /\ queued.state = net[h].state
        /\ queued.closing = net[h].closing /\ queued.unsent = net[h].unsent + Answer
    BY <1>0 DEF SocketOK
  <2> HIDE DEF queued
  <2>2. CASE net[h].state = "open" /\ ~net[h].closing
    <3>1. net' = [net EXCEPT ![h] = queued]
      BY <2>2 DEF Respond, queued
    <3> QED
      BY <1>0, <2>1, <2>2, <3>1 DEF Shape
  <2>3. CASE ~(net[h].state = "open" /\ ~net[h].closing)
    BY <1>0, <2>3 DEF Shape, Respond
  <2> QED
    BY <2>2, <2>3
<1>5. Others(h)
  BY <1>0, <1>2, <1>3, <1>4 DEF Others
<1>6. ShapeOf(h)'
  BY <1>0, <1>1, <1>2, <1>3, <1>4 DEF Shape, ShapeOf
<1>7. HandleOK(h)'
  <2>1. /\ todo'[h] # <<>> /\ net'[h].state # "open" => h \in unruly'
        /\ h \in DOMAIN sessions' => net'[h].state = "open" \/ h \in unruly'
        /\ IdleOf(h)'
    BY <1>0, <1>4 DEF HandleOK, IdleOf
  <2>2. AccountOf(h)'
    BY <1>0, <1>1, <1>2, <1>3, <1>4 DEF HandleOK, AccountOf, SocketOK, SessionOK
  <2>3. UnderWayOf(h)'
    BY <1>0, <1>1, <1>2, <1>4 DEF UnderWayOf, SocketOK
  <2> QED
    BY <2>1, <2>2, <2>3 DEF HandleOK
<1> QED
  BY <1>5, <1>6, <1>7, OneHandle

LEMMA SentStep ==
  ASSUME IInv, NEW h \in Handle, TcpSent(h)
  PROVE  IInv'
<1>0. /\ Shape /\ SessionOK(Session(h)) /\ SocketOK(net[h]) /\ HandleOK(h)
      /\ net[h].state = "open" /\ todo' = todo /\ stale' = stale
      /\ unruly' = IF todo[h] # <<>> THEN unruly \cup {h} ELSE unruly
  BY HandlesOK DEF IInv, Shape, TcpSent, Overtake
<1> DEFINE old    == Session(h)
           counts == h \in DOMAIN sessions /\ old.pending # 0
           done(len)  == counts /\ AllSent(old, len)
           close(len) == done(len) /\ (old.pendingClose \/ Len(old.req) > MaxRequest)
           next(len)  ==
             IF done(len)
             THEN [old EXCEPT !.pending = 0, !.sent = 0, !.pendingClose = FALSE,
                     !.req = IF close(len) /\ ~old.pendingClose THEN <<>> ELSE old.req]
             ELSE [old EXCEPT !.sent = @ + len]
<1>1. PICK len \in 1..net[h].unsent :
        /\ sessions' = IF counts THEN With(h, next(len)) ELSE sessions
        /\ net' = [net EXCEPT ![h].unsent = @ - len,
                              ![h].answered = IF done(len) THEN @ + 1 ELSE @,
                              ![h].closing = @ \/ close(len)]
  BY DEF TcpSent
<1>2. len \in Nat /\ len > 0 /\ len <= net[h].unsent
  BY <1>0, <1>1 DEF SocketOK
<1>3. /\ DOMAIN net' = Handle /\ SocketOK(net'[h])
      /\ net'[h].state = "open" /\ net'[h].unsent = net[h].unsent - len
      /\ net'[h].closing = (net[h].closing \/ close(len))
      /\ \A g \in Handle : g # h => net'[g] = net[g]
  <2> DEFINE socket == [net[h] EXCEPT !.unsent = @ - len,
                          !.answered = IF done(len) THEN @ + 1 ELSE @,
                          !.closing = @ \/ close(len)]
  <2>1. net' = [net EXCEPT ![h] = socket]
    BY <1>1
  <2> HIDE DEF done, close
  <2>2. /\ SocketOK(socket) /\ socket.state = "open"
        /\ socket.unsent = net[h].unsent - len
        /\ socket.closing = (net[h].closing \/ close(len))
    <3> DEFINE answered == IF done(len) THEN net[h].answered + 1 ELSE net[h].answered
               closing == net[h].closing \/ close(len)
    <3>1. socket = [net[h] EXCEPT !.unsent = @ - len, !.answered = answered,
                                  !.closing = closing]
      OBVIOUS
    <3>2. closing \in BOOLEAN
      OBVIOUS
    <3> HIDE DEF answered, closing, socket
    <3>3. SocketOK(socket) /\ socket.state = "open" /\ socket.closing = closing
          /\ socket.unsent = net[h].unsent - len
      <4>1. net[h].unsent - len \in Nat
        BY <1>0, <1>2 DEF SocketOK
      <4>2. SocketOK(net[h]) /\ net[h].state = "open"
        BY <1>0
      <4>3. socket = [net[h] EXCEPT !.unsent = net[h].unsent - len,
                                    !.answered = answered, !.closing = closing]
        BY <3>1
      <4>4. /\ SocketOK(socket) /\ socket.state = net[h].state
            /\ socket.closing = closing /\ socket.unsent = net[h].unsent - len
        <5>1. socket = [state |-> net[h].state, stream |-> net[h].stream,
                        polite |-> net[h].polite, delivered |-> net[h].delivered,
                        answered |-> answered, unsent |-> net[h].unsent - len,
                        closing |-> closing]
          BY <4>2, <4>3 DEF SocketOK
        <5> QED
          BY <3>2, <4>1, <5>1 DEF SocketOK
      <4> QED
        BY <4>2, <4>4
    <3> QED
      BY <3>3 DEF closing
  <2> QED
    BY <1>0, <2>1, <2>2 DEF Shape
<1>4. /\ SessionOK(next(len))
      /\ next(len).pending = (IF done(len) THEN 0 ELSE old.pending)
      /\ next(len).sent = (IF done(len) THEN 0 ELSE old.sent + len)
  <2> HIDE DEF done, close
  <2>1. CASE done(len)
    BY <1>0, <2>1 DEF SessionOK
  <2>2. CASE ~done(len)
    BY <1>0, <1>2, <2>2 DEF SessionOK
  <2> QED
    BY <2>1, <2>2
<1> HIDE DEF next
<1>5. /\ DOMAIN sessions' = DOMAIN sessions
      /\ Session(h)' = IF counts THEN next(len) ELSE old
      /\ \A g \in Handle : g # h => Session(g)' = Session(g)
  <2>1. CASE counts
    BY <1>0, <1>1, <1>4, <2>1, WithEffect
  <2>2. CASE ~counts
    BY <1>1, <2>2 DEF Session
  <2> QED
    BY <2>1, <2>2
<1>6. Others(h)
  BY <1>0, <1>3, <1>5 DEF Others
<1>7. ShapeOf(h)'
  BY <1>0, <1>3, <1>4, <1>5 DEF Shape, ShapeOf
<1>8. HandleOK(h)'
  <2>1. /\ todo'[h] # <<>> /\ net'[h].state # "open" => h \in unruly'
        /\ h \in DOMAIN sessions' => net'[h].state = "open" \/ h \in unruly'
        /\ IdleOf(h)'
    BY <1>3 DEF IdleOf
  <2>2. ASSUME h \notin unruly'
        PROVE  /\ todo[h] = <<>> /\ ~net[h].closing /\ h \notin unruly
               /\ net[h].unsent + old.sent = old.pending
    BY <1>0, <1>2, <2>2 DEF HandleOK, AccountOf, SocketOK
  <2>3. ASSUME h \notin unruly', h \notin DOMAIN sessions
        PROVE  FALSE
    BY <1>0, <1>2, <2>2, <2>3 DEF Session, NewSession, SocketOK
  <2>4. ASSUME h \notin unruly'
        PROVE  /\ counts /\ net'[h].unsent + Session(h)'.sent = Session(h)'.pending
               /\ done(len) => net'[h].unsent = 0
    BY <1>0, <1>2, <1>3, <1>4, <1>5, <2>2, <2>3, <2>4 DEF SocketOK, SessionOK, AllSent
  <2>5. AccountOf(h)'
    <3>1. close(len) => done(len)
      OBVIOUS
    <3>2. todo[h] = <<>> => Len(todo[h]) <= 1
      OBVIOUS
    <3> HIDE DEF close, done, counts
    <3> QED
      BY <1>0, <1>3, <2>2, <2>4, <3>1, <3>2 DEF AccountOf
  <2>6. UnderWayOf(h)'
    <3>1. old.pending # 0 => counts
      BY DEF Session, NewSession
    <3>2. counts => old.pending # 0
      OBVIOUS
    <3>3. done(len) => counts
      OBVIOUS
    <3> HIDE DEF close, done, counts
    <3>4. /\ ~net[h].closing /\ old.pending # 0
               => old.pending - old.sent <= net[h].unsent \/ h \in stale
          /\ old.pending \in Nat /\ old.sent \in Nat /\ net[h].unsent \in Nat
      BY <1>0 DEF HandleOK, UnderWayOf, SessionOK, SocketOK
    <3> HIDE DEF old
    <3>5. Session(h)'.pending # 0
            => /\ counts /\ Session(h)'.pending = old.pending
               /\ Session(h)'.sent = old.sent + len
      BY <1>4, <1>5, <3>1, <3>3
    <3>6. ~net'[h].closing => ~net[h].closing
      BY <1>3
    <3>7. ASSUME ~net'[h].closing, Session(h)'.pending # 0
          PROVE  \/ Session(h)'.pending - Session(h)'.sent <= net'[h].unsent
                 \/ h \in stale'
      <4>1. old.pending - old.sent <= net[h].unsent \/ h \in stale
        BY <3>2, <3>4, <3>5, <3>6, <3>7
      <4>2. old.pending - old.sent <= net[h].unsent
              => old.pending - (old.sent + len) <= net[h].unsent - len
        BY <1>2, <3>4
      <4> QED
        BY <1>0, <1>3, <3>5, <3>7, <4>1, <4>2
    <3> QED
      BY <1>3, <3>7 DEF UnderWayOf
  <2> QED
    BY <2>1, <2>5, <2>6 DEF HandleOK
<1> QED
  BY <1>6, <1>7, <1>8, OneHandle

LEMMA EstablishedStep ==
  ASSUME IInv, NEW h \in Handle, TcpEstablished(h)
  PROVE  IInv'
<1>0. /\ Shape /\ SessionOK(Session(h)) /\ SocketOK(net[h]) /\ HandleOK(h)
      /\ net[h].state # "open" /\ todo' = todo /\ unruly' = unruly /\ stale' = stale
  BY HandlesOK DEF IInv, Shape, TcpEstablished
<1>1. PICK s, polite : net' = [net EXCEPT ![h] = Socket("open", s, polite)]
  BY DEF TcpEstablished
<1>2. /\ DOMAIN sessions' = DOMAIN sessions \cup {h}
      /\ Session(h)' = Session(h)
      /\ \A g \in Handle : g # h => Session(g)' = Session(g)
  BY <1>0, WithEffect DEF TcpEstablished
<1>3. /\ DOMAIN net' = Handle /\ net'[h] = Socket("open", s, polite)
      /\ \A g \in Handle : g # h => net'[g] = net[g]
  BY <1>0, <1>1 DEF Shape
<1>4. /\ SocketOK(net'[h]) /\ net'[h].state = "open"
      /\ net'[h].unsent = 0 /\ net'[h].closing = FALSE
  BY <1>3 DEF SocketOK, Socket
<1>5. Others(h)
  BY <1>0, <1>2, <1>3 DEF Others
<1>6. ShapeOf(h)'
  BY <1>0, <1>2, <1>3, <1>4 DEF Shape, ShapeOf
<1>7. ASSUME h \notin unruly
      PROVE  todo[h] = <<>> /\ Session(h).pending = 0 /\ Session(h).sent = 0
  BY <1>0, <1>7 DEF HandleOK, Session, NewSession
<1>8. HandleOK(h)'
  BY <1>0, <1>2, <1>4, <1>7 DEF HandleOK, UnderWayOf, AccountOf, IdleOf
<1> QED
  BY <1>5, <1>6, <1>8, OneHandle

LEMMA FreeOrListening ==
  ASSUME NEW state \in {"free", "listening"}
  PROVE  LET socket == Socket(state, <<>>, TRUE)
         IN  SocketOK(socket) /\ socket.state # "open" /\ socket.unsent = 0
BY DEF SocketOK, Socket

LEMMA ClosedStep ==
  ASSUME IInv, NEW h \in Handle, Closed(h)
  PROVE  IInv'
<1>0. /\ Shape /\ HandleOK(h) /\ todo' = todo /\ stale' = stale \ {h}
      /\ unruly' = IF todo[h] # <<>> THEN unruly \cup {h} ELSE unruly \ {h}
  BY HandlesOK DEF IInv, Shape, Closed
<1>1. /\ DOMAIN sessions' = DOMAIN sessions \ {h}
      /\ Session(h)' = NewSession
      /\ \A g \in Handle : g # h => Session(g)' = Session(g)
  BY AfterCloseEffect DEF Closed
<1>2. /\ DOMAIN net' = Handle /\ net'[h] = FreeSocket
      /\ \A g \in Handle : g # h => net'[g] = net[g]
  BY <1>0 DEF Shape, Closed
<1>3. SocketOK(net'[h]) /\ net'[h].state # "open" /\ net'[h].unsent = 0
  BY <1>2, FreeOrListening DEF FreeSocket
<1>4. Others(h)
  BY <1>0, <1>1, <1>2 DEF Others
<1>5. ShapeOf(h)'
  <2>1. SessionOK(NewSession)
    BY DEF SessionOK, NewSession
  <2> QED
    BY <1>0, <1>1, <1>2, <1>3, <2>1 DEF Shape, ShapeOf
<1>6. HandleOK(h)'
  BY <1>0, <1>1, <1>3 DEF HandleOK, UnderWayOf, AccountOf, IdleOf, NewSession
<1> QED
  BY <1>4, <1>5, <1>6, OneHandle

LEMMA OpenedStep ==
  ASSUME IInv, NEW h \in Handle, Opened(h)
  PROVE  IInv'
<1>0. /\ Shape /\ HandleOK(h) /\ SessionOK(Session(h)) /\ net[h].state = "free"
      /\ UNCHANGED <<sessions, todo, unruly, stale>>
  BY HandlesOK DEF IInv, Shape, Opened
<1>1. /\ DOMAIN net' = Handle /\ net'[h] = Socket("listening", <<>>, TRUE)
      /\ \A g \in Handle : g # h => net'[g] = net[g]
  BY <1>0 DEF Shape, Opened
<1>2. SocketOK(net'[h]) /\ net'[h].state # "open" /\ net'[h].unsent = 0
  BY <1>1, FreeOrListening
<1>3. Others(h)
  BY <1>0, <1>1 DEF Others, Session
<1>4. Session(h)' = Session(h)
  BY <1>0 DEF Session
<1>5. ShapeOf(h)'
  BY <1>0, <1>1, <1>2, <1>4 DEF Shape, ShapeOf
<1>6. HandleOK(h)'
  BY <1>0, <1>2, <1>4 DEF HandleOK, UnderWayOf, AccountOf, IdleOf
<1> QED
  BY <1>3, <1>5, <1>6, OneHandle

LEMMA Stutter == IInv /\ UNCHANGED vars => IInv'
<1> SUFFICES ASSUME IInv, UNCHANGED vars
             PROVE  IInv'
  OBVIOUS
<1>1. Shape'
  BY DEF IInv, vars, Shape, Session
<1>2. OwedIsUnruly' /\ SessionsAreLive' /\ UnderWay' /\ Accounts' /\ Idle'
  BY DEF IInv, vars, OwedIsUnruly, SessionsAreLive, UnderWay, UnderWayOf, Accounts,
     AccountOf, Idle, IdleOf, Session
<1> QED
  BY <1>1, <1>2 DEF IInv

-----------------------------------------------------------------------------
(* The theorems *)

(* The inductive invariant holds in every reachable state.                  *)
THEOREM Invariance == Spec => []IInv
<1>1. IInv /\ [Next]_vars => IInv'
  BY DataStep, RespondStep, SentStep, EstablishedStep, ClosedStep, OpenedStep, Stutter
  DEF Next
<1> QED
  BY <1>1, InitInv, PTL DEF Spec

(* What a session waits for is what the stack still has to report, however   *)
(* answers overtake each other and handles are reused, but on a handle whose *)
(* session was made by an answer to a connection that was gone.             *)
THEOREM ReportsAreEnough == Spec => []AnswersAreUnderWay
<1>1. IInv => AnswersAreUnderWay
  <2> SUFFICES ASSUME IInv, NEW h \in DOMAIN sessions
               PROVE  net[h].state = "open" /\ ~net[h].closing /\ sessions[h].pending # 0
                        => sessions[h].pending - sessions[h].sent <= net[h].unsent \/ h \in stale
    BY DEF AnswersAreUnderWay
  <2>1. h \in Handle /\ Session(h) = sessions[h]
    BY DEF IInv, Shape, Session
  <2>2. UnderWayOf(h)
    BY <2>1 DEF IInv, UnderWay
  <2> QED
    BY <2>1, <2>2 DEF UnderWayOf
<1> QED
  BY <1>1, Invariance, PTL

(* The server closes a connection only with nothing left to send, whatever  *)
(* the lengths of chunks, reports and answers, but for overtaken answers.   *)
THEOREM CompleteClose == Spec => []CloseIsComplete
<1>1. IInv => CloseIsComplete
  <2> SUFFICES ASSUME IInv, NEW h \in Handle, net[h].closing, h \notin unruly
               PROVE  net[h].unsent = 0
    BY DEF CloseIsComplete
  <2>1. HandleOK(h)
    BY HandlesOK
  <2> QED
    BY <2>1 DEF HandleOK, AccountOf, IdleOf
<1> QED
  BY <1>1, Invariance, PTL

-----------------------------------------------------------------------------
(* Positions in a stream.  EndOf is a recursive function: that it exists, and *)
(* what it satisfies, is shown by looking at the least place where it fails. *)

(* Every non-empty set of naturals has a least member.                      *)
LEMMA LeastMember ==
  ASSUME NEW S \in SUBSET Nat, S # {}
  PROVE  \E i \in S : \A j \in S : i <= j
<1> DEFINE R == OpToRel(<, Nat)
<1>1. \A i, j \in Nat : <<j, i>> \in R <=> j < i
  BY DEF OpToRel
<1>2. IsWellFoundedOn(R, Nat)
  BY NatLessThanWellFounded
<1> HIDE DEF R
<1>3. PICK i \in S : \A j \in S : ~(<<j, i>> \in R)
  BY <1>2, WFMin
<1>4. ASSUME NEW j \in S
      PROVE  i <= j
  <2>1. i \in Nat /\ j \in Nat
    OBVIOUS
  <2>2. ~(j < i)
    BY <1>1, <1>3, <2>1
  <2> QED
    BY <2>1, <2>2
<1> QED
  BY <1>4

(* The last units of the first n requests, as a function.                   *)
Ends(s, n, g) ==
  /\ g \in [0..n -> Nat]
  /\ g[0] = 0
  /\ \A i \in 1..n : g[i] = g[i - 1] + Length(s[i])

LEMMA LengthIsPositive ==
  ASSUME NEW s \in Seq(Request), NEW i \in 1..Len(s)
  PROVE  /\ s[i] \in Request /\ Length(s[i]) \in Nat /\ Length(s[i]) > 0
         /\ s[i].head \in Nat /\ s[i].head > 0 /\ s[i].body \in Nat
         /\ Length(s[i]) = s[i].head + s[i].body
<1>1. s[i] \in Request
  OBVIOUS
<1> QED
  BY <1>1 DEF Request, Length

LEMMA EndsExist ==
  ASSUME NEW s \in Seq(Request), NEW n \in 0..Len(s)
  PROVE  \E g : Ends(s, n, g)
<1> DEFINE Bad == {m \in 0..Len(s) : ~(\E g : Ends(s, m, g))}
<1>0. Len(s) \in Nat
  OBVIOUS
<1> SUFFICES ASSUME Bad # {}
             PROVE  FALSE
  BY <1>0
<1>1. Bad \in SUBSET Nat
  BY <1>0
<1>2. PICK m \in Bad : \A k \in Bad : m <= k
  BY <1>1, LeastMember
<1>3. m \in 0..Len(s) /\ m \in Nat
  BY <1>0, <1>2
<1>4. m # 0
  <2> SUFFICES ASSUME m = 0
               PROVE  \E g : Ends(s, 0, g)
    BY <1>2
  <2>1. Ends(s, 0, [i \in 0..0 |-> 0])
    BY DEF Ends
  <2> QED
    BY <2>1
<1>5. m - 1 \in 0..Len(s) /\ m - 1 < m /\ m \in 1..Len(s) /\ m - 1 \in Nat
  BY <1>0, <1>3, <1>4
<1>6. m - 1 \notin Bad
  <2> SUFFICES ASSUME m - 1 \in Bad
               PROVE  FALSE
    OBVIOUS
  <2>1. m <= m - 1
    BY <1>2
  <2> QED
    BY <1>3, <2>1
<1>7. PICK g : Ends(s, m - 1, g)
  BY <1>5, <1>6
<1> DEFINE f == [i \in 0..m |-> IF i = m THEN g[m - 1] + Length(s[m]) ELSE g[i]]
<1>8. Length(s[m]) \in Nat
  BY <1>5, LengthIsPositive
<1>9. g \in [0..(m - 1) -> Nat] /\ g[0] = 0
  BY <1>7 DEF Ends
<1>10. g[m - 1] \in Nat
  BY <1>5, <1>9
<1>11. f \in [0..m -> Nat]
  <2>1. \A i \in 0..m : i = m \/ i \in 0..(m - 1)
    BY <1>3
  <2> QED
    BY <1>8, <1>9, <1>10, <2>1
<1>12. f[0] = 0
  BY <1>3, <1>4, <1>9
<1>13. ASSUME NEW i \in 1..m
       PROVE  f[i] = f[i - 1] + Length(s[i])
  <2>1. i \in 0..m /\ i - 1 \in 0..m /\ i - 1 # m /\ (i # m => i \in 1..(m - 1))
    BY <1>3
  <2>2. f[i - 1] = g[i - 1] /\ f[i] = IF i = m THEN g[m - 1] + Length(s[m]) ELSE g[i]
    BY <2>1
  <2> HIDE DEF f
  <2>3. CASE i = m
    BY <2>2, <2>3
  <2>4. CASE i # m
    BY <1>7, <2>1, <2>2, <2>4 DEF Ends
  <2> QED
    BY <2>3, <2>4
<1> HIDE DEF f
<1>14. Ends(s, m, f)
  BY <1>11, <1>12, <1>13 DEF Ends
<1> QED
  BY <1>2, <1>14

(* The recursive function in EndOf is the one its equation describes.       *)
LEMMA EndEquation ==
  ASSUME NEW s \in Seq(Request)
  PROVE  \E f : /\ f = [n \in 0..Len(s) |-> IF n = 0 THEN 0 ELSE f[n - 1] + Length(s[n])]
                /\ \A k : EndOf(s, k) = f[k]
<1> DEFINE F(f) == f = [n \in 0..Len(s) |-> IF n = 0 THEN 0 ELSE f[n - 1] + Length(s[n])]
           end == CHOOSE f : F(f)
<1>0. Len(s) \in Nat
  OBVIOUS
<1>1. PICK g : Ends(s, Len(s), g)
  BY <1>0, EndsExist
<1>2. F(g)
  <2>1. g = [n \in 0..Len(s) |-> g[n]]
    BY <1>1 DEF Ends
  <2>2. \A n \in 0..Len(s) : g[n] = IF n = 0 THEN 0 ELSE g[n - 1] + Length(s[n])
    <3>1. \A n \in 0..Len(s) : n # 0 => n \in 1..Len(s)
      BY <1>0
    <3> QED
      BY <1>1, <3>1 DEF Ends
  <2> QED
    BY <2>1, <2>2
<1>3. F(end)
  <2> HIDE DEF F
  <2> QED
    BY <1>2, Zenon
<1>4. \A k : EndOf(s, k) = end[k]
  BY DEF EndOf
<1> HIDE DEF end
<1> QED
  BY <1>3, <1>4

(* EndOf adds up the lengths of the requests.                               *)
LEMMA EndSteps ==
  ASSUME NEW s \in Seq(Request)
  PROVE  /\ EndOf(s, 0) = 0
         /\ \A k \in 1..Len(s) : EndOf(s, k) = EndOf(s, k - 1) + Length(s[k])
<1>0. Len(s) \in Nat
  OBVIOUS
<1>1. PICK f : /\ f = [n \in 0..Len(s) |-> IF n = 0 THEN 0 ELSE f[n - 1] + Length(s[n])]
               /\ \A k : EndOf(s, k) = f[k]
  BY EndEquation
<1>2. \A k \in 0..Len(s) : f[k] = IF k = 0 THEN 0 ELSE f[k - 1] + Length(s[k])
  BY <1>1
<1>3. f[0] = 0 /\ \A k \in 1..Len(s) : k \in 0..Len(s) /\ k # 0
  BY <1>0, <1>2
<1> QED
  BY <1>1, <1>2, <1>3

LEMMA EndIsNat ==
  ASSUME NEW s \in Seq(Request), NEW k \in 0..Len(s)
  PROVE  EndOf(s, k) \in Nat
<1> DEFINE Bad == {m \in 0..Len(s) : EndOf(s, m) \notin Nat}
<1>0. Len(s) \in Nat
  OBVIOUS
<1> SUFFICES ASSUME Bad # {}
             PROVE  FALSE
  OBVIOUS
<1>1. Bad \in SUBSET Nat
  BY <1>0
<1>2. PICK m \in Bad : \A j \in Bad : m <= j
  BY <1>1, LeastMember
<1>3. m # 0
  BY <1>2, EndSteps
<1>4. m \in 1..Len(s) /\ m - 1 \in 0..Len(s) /\ ~(m <= m - 1)
  BY <1>0, <1>2, <1>3
<1>5. EndOf(s, m - 1) \in Nat
  BY <1>2, <1>4
<1>6. EndOf(s, m) = EndOf(s, m - 1) + Length(s[m]) /\ Length(s[m]) \in Nat
  BY <1>4, EndSteps, LengthIsPositive
<1> QED
  BY <1>2, <1>5, <1>6

(* A later request ends where an earlier one does, or after it.             *)
LEMMA EndGrows ==
  ASSUME NEW s \in Seq(Request), NEW i \in 0..Len(s), NEW k \in 0..Len(s), i <= k
  PROVE  EndOf(s, i) <= EndOf(s, k)
<1> DEFINE Bad == {m \in 0..Len(s) : i <= m /\ ~(EndOf(s, i) <= EndOf(s, m))}
<1>0. Len(s) \in Nat
  OBVIOUS
<1> SUFFICES ASSUME Bad # {}
             PROVE  FALSE
  OBVIOUS
<1>1. Bad \in SUBSET Nat
  BY <1>0
<1>2. PICK m \in Bad : \A j \in Bad : m <= j
  BY <1>1, LeastMember
<1>3. m \in 0..Len(s) /\ i <= m /\ EndOf(s, i) \in Nat /\ EndOf(s, m) \in Nat
  BY <1>2, EndIsNat
<1>4. m # i
  BY <1>2, <1>3
<1>5. m \in 1..Len(s) /\ m - 1 \in 0..Len(s) /\ ~(m <= m - 1) /\ i <= m - 1
  BY <1>0, <1>3, <1>4
<1>6. EndOf(s, i) <= EndOf(s, m - 1)
  BY <1>2, <1>5
<1>7. /\ EndOf(s, m) = EndOf(s, m - 1) + Length(s[m]) /\ Length(s[m]) \in Nat
      /\ EndOf(s, m - 1) \in Nat
  BY <1>5, EndSteps, LengthIsPositive, EndIsNat
<1>8. EndOf(s, i) <= EndOf(s, m)
  BY <1>3, <1>6, <1>7
<1> QED
  BY <1>2, <1>8

(* The request of a unit is the one it lies in.                             *)
LEMMA RequestAtIs ==
  ASSUME NEW s \in Seq(Request), NEW k \in 1..Len(s), NEW u \in Nat,
         EndOf(s, k - 1) < u, u <= EndOf(s, k)
  PROVE  RequestAt(s, u) = k
<1>1. ASSUME NEW m \in 1..Len(s), EndOf(s, m - 1) < u, u <= EndOf(s, m)
      PROVE  m = k
  <2>1. /\ Len(s) \in Nat /\ k \in 0..Len(s) /\ m \in 0..Len(s)
        /\ k - 1 \in 0..Len(s) /\ m - 1 \in 0..Len(s)
    OBVIOUS
  <2>2. /\ EndOf(s, k) \in Nat /\ EndOf(s, k - 1) \in Nat
        /\ EndOf(s, m) \in Nat /\ EndOf(s, m - 1) \in Nat
    BY <2>1, EndIsNat
  <2>3. ~(k <= m - 1)
    <3> SUFFICES ASSUME k <= m - 1
                 PROVE  FALSE
      OBVIOUS
    <3>1. EndOf(s, k) <= EndOf(s, m - 1)
      BY <2>1, EndGrows
    <3> QED
      BY <1>1, <2>2, <3>1
  <2>4. ~(m <= k - 1)
    <3> SUFFICES ASSUME m <= k - 1
                 PROVE  FALSE
      OBVIOUS
    <3>1. EndOf(s, m) <= EndOf(s, k - 1)
      BY <2>1, EndGrows
    <3> QED
      BY <1>1, <2>2, <3>1
  <2> QED
    BY <2>1, <2>3, <2>4
<1> QED
  BY <1>1 DEF RequestAt

-----------------------------------------------------------------------------
(* Buffers *)

(* n units of the stream after the first a.                                 *)
Run(a, n) == [j \in 1..n |-> a + j]

LEMMA RunFacts ==
  ASSUME NEW a \in Nat, NEW n \in Nat
  PROVE  /\ Run(a, n) \in Seq(Nat) /\ Len(Run(a, n)) = n /\ DOMAIN Run(a, n) = 1..n
         /\ \A j \in 1..n : Run(a, n)[j] = a + j
<1>1. \A j \in 1..n : Run(a, n)[j] = a + j /\ a + j \in Nat
  BY DEF Run
<1>2. Run(a, n) \in [1..n -> Nat]
  BY <1>1 DEF Run
<1>3. Run(a, n) \in Seq(Nat)
  BY <1>2, SeqDef
<1>4. DOMAIN Run(a, n) = 1..n
  BY DEF Run
<1>5. Len(Run(a, n)) = n
  BY <1>3, <1>4, LenProperties
<1> QED
  BY <1>1, <1>3, <1>4, <1>5

LEMMA RunEmpty ==
  ASSUME NEW a \in Nat
  PROVE  <<>> = Run(a, 0)
<1>1. Run(a, 0) \in Seq(Nat) /\ Len(Run(a, 0)) = 0
  BY RunFacts
<1> QED
  BY <1>1, EmptySeq

LEMMA RunGrows ==
  ASSUME NEW a \in Nat, NEW n \in Nat, NEW m \in Nat
  PROVE  Run(a, n) \o Run(a + n, m) = Run(a, n + m)
<1> DEFINE left == Run(a, n)
           right == Run(a + n, m)
           both == Run(a, n + m)
<1>1. /\ left \in Seq(Nat) /\ Len(left) = n /\ \A j \in 1..n : left[j] = a + j
      /\ right \in Seq(Nat) /\ Len(right) = m /\ \A j \in 1..m : right[j] = a + n + j
      /\ both \in Seq(Nat) /\ Len(both) = n + m /\ \A j \in 1..(n + m) : both[j] = a + j
  <2>1. a + n \in Nat /\ n + m \in Nat
    OBVIOUS
  <2>2. left \in Seq(Nat) /\ Len(left) = n /\ \A j \in 1..n : left[j] = a + j
    BY RunFacts
  <2>3. right \in Seq(Nat) /\ Len(right) = m /\ \A j \in 1..m : right[j] = a + n + j
    BY <2>1, RunFacts
  <2>4. both \in Seq(Nat) /\ Len(both) = n + m /\ \A j \in 1..(n + m) : both[j] = a + j
    BY <2>1, RunFacts
  <2> QED
    BY <2>2, <2>3, <2>4
<1> HIDE DEF left, right, both
<1>2. /\ left \o right \in Seq(Nat) /\ Len(left \o right) = n + m
      /\ \A j \in 1..(n + m) : (left \o right)[j] = IF j <= n THEN left[j] ELSE right[j - n]
  BY <1>1, ConcatProperties
<1>3. ASSUME NEW j \in 1..(n + m)
      PROVE  (left \o right)[j] = both[j]
  <2>1. both[j] = a + j /\ (left \o right)[j] = IF j <= n THEN left[j] ELSE right[j - n]
    BY <1>1, <1>2
  <2>2. CASE j <= n
    <3>1. j \in 1..n
      BY <2>2
    <3> QED
      BY <1>1, <2>1, <2>2, <3>1
  <2>3. CASE ~(j <= n)
    <3>1. j - n \in 1..m /\ a + n + (j - n) = a + j
      BY <2>3
    <3>2. right[j - n] = a + n + (j - n)
      BY <1>1, <3>1
    <3> QED
      BY <2>1, <2>3, <3>1, <3>2
  <2> QED
    BY <2>2, <2>3
<1> QED
  BY <1>1, <1>2, <1>3, SeqEqual DEF left, right, both

LEMMA RunIsCut ==
  ASSUME NEW a \in Nat, NEW n \in Nat, NEW k \in Nat, k <= n
  PROVE  SubSeq(Run(a, n), k + 1, n) = Run(a + k, n - k)
<1> DEFINE all == Run(a, n)
           rest == Run(a + k, n - k)
<1>1. n - k \in Nat /\ a + k \in Nat /\ k + 1 \in 1..(n + 1) /\ n - (k + 1) + 1 = n - k
  OBVIOUS
<1>2. /\ all \in Seq(Nat) /\ Len(all) = n /\ \A j \in 1..n : all[j] = a + j
      /\ rest \in Seq(Nat) /\ Len(rest) = n - k
      /\ \A j \in 1..(n - k) : rest[j] = a + k + j
  BY <1>1, RunFacts
<1> HIDE DEF all, rest
<1>3. ASSUME NEW j \in 1..(n - k)
      PROVE  k + 1 + j - 1 \in 1..n /\ all[k + 1 + j - 1] = a + k + j
  <2>1. k + 1 + j - 1 \in 1..n /\ a + (k + 1 + j - 1) = a + k + j
    BY <1>1
  <2> QED
    BY <1>2, <2>1
<1>4. k + 1 \in Int /\ n \in Int /\ \A i \in (k + 1)..n : all[i] \in Nat
  BY <1>2
<1>5. /\ SubSeq(all, k + 1, n) \in Seq(Nat)
      /\ Len(SubSeq(all, k + 1, n)) = IF k + 1 <= n THEN n - (k + 1) + 1 ELSE 0
      /\ \A j \in 1..(n - (k + 1) + 1) : SubSeq(all, k + 1, n)[j] = all[k + 1 + j - 1]
  BY <1>4, SubSeqProperties
<1>6. Len(SubSeq(all, k + 1, n)) = n - k
  BY <1>1, <1>5
<1>7. \A j \in 1..(n - k) : SubSeq(all, k + 1, n)[j] = rest[j]
  BY <1>1, <1>2, <1>3, <1>5
<1> QED
  BY <1>2, <1>5, <1>6, <1>7, SeqEqual DEF all, rest

-----------------------------------------------------------------------------
(* The next request *)

(* No header ends between the end of request c and the header of the next.   *)
LEMMA HeadersAhead ==
  ASSUME NEW s \in Seq(Request), NEW c \in 0..Len(s),
         NEW u \in CrlfEnds(s) \cup LfEnds(s), EndOf(s, c) < u
  PROVE  /\ c + 1 \in 1..Len(s) /\ u \in Nat
         /\ EndOf(s, c) + s[c + 1].head <= u
<1> DEFINE a == EndOf(s, c)
           first == s[c + 1].head
<1>0. a \in Nat /\ Len(s) \in Nat
  BY EndIsNat
<1>1. PICK k \in 1..Len(s) : \E j \in 0..s[k].body : u = EndOf(s, k - 1) + s[k].head + j
  <2>1. ASSUME NEW k \in 1..Len(s), u = HeadEnd(s, k)
        PROVE  \E j \in 0..s[k].body : u = EndOf(s, k - 1) + s[k].head + j
    <3>1. s[k].body \in Nat /\ s[k].head \in Nat /\ EndOf(s, k - 1) \in Nat
      <4>1. k - 1 \in 0..Len(s)
        BY <1>0
      <4> QED
        BY <4>1, LengthIsPositive, EndIsNat
    <3>2. 0 \in 0..s[k].body /\ u = EndOf(s, k - 1) + s[k].head + 0
      BY <2>1, <3>1 DEF HeadEnd
    <3> QED
      BY <3>2
  <2>2. ASSUME NEW k \in 1..Len(s), NEW j \in s[k].blanks, u = HeadEnd(s, k) + j
        PROVE  j \in 0..s[k].body /\ u = EndOf(s, k - 1) + s[k].head + j
    <3>1. s[k] \in Request /\ s[k].body \in Nat
      BY LengthIsPositive
    <3>2. j \in 1..s[k].body
      BY <3>1 DEF Request
    <3> QED
      BY <2>2, <3>1, <3>2 DEF HeadEnd
  <2>3. \/ \E k \in 1..Len(s) : u = HeadEnd(s, k)
        \/ \E k \in 1..Len(s) : \E j \in s[k].blanks : u = HeadEnd(s, k) + j
    BY DEF CrlfEnds, LfEnds
  <2> QED
    BY <2>1, <2>2, <2>3
<1>2. k \in 0..Len(s) /\ k - 1 \in 0..Len(s)
  BY <1>0
<1>3. /\ EndOf(s, k - 1) \in Nat /\ EndOf(s, k) \in Nat
      /\ s[k].head \in Nat /\ s[k].body \in Nat
      /\ EndOf(s, k) = EndOf(s, k - 1) + (s[k].head + s[k].body)
  BY <1>2, EndIsNat, EndSteps, LengthIsPositive
<1>4. u \in Nat /\ u <= EndOf(s, k) /\ EndOf(s, k - 1) <= u
  BY <1>1, <1>3
<1>5. ~(k <= c)
  <2> SUFFICES ASSUME k <= c
               PROVE  FALSE
    OBVIOUS
  <2>1. EndOf(s, k) <= a
    BY <1>2, EndGrows
  <2> QED
    BY <1>0, <1>3, <1>4, <2>1
<1>6. c + 1 \in 1..Len(s) /\ c + 1 \in 0..Len(s) /\ c + 1 <= k
  BY <1>0, <1>5
<1>7. CASE k = c + 1
  <2>1. EndOf(s, k - 1) = a /\ s[k].head = first
    BY <1>7
  <2> HIDE DEF a, first
  <2>2. a + first <= u
    BY <1>0, <1>1, <1>3, <2>1
  <2> QED
    BY <1>4, <1>6, <2>2 DEF a, first
<1>8. CASE k # c + 1
  <2>1. c + 1 <= k - 1
    BY <1>6, <1>8
  <2>2. EndOf(s, c + 1) <= EndOf(s, k - 1)
    BY <1>2, <1>6, <2>1, EndGrows
  <2>3. EndOf(s, c + 1) = EndOf(s, c + 1 - 1) + Length(s[c + 1]) /\ c + 1 - 1 = c
    BY <1>6, EndSteps
  <2>4. /\ Length(s[c + 1]) = first + s[c + 1].body
        /\ first \in Nat /\ s[c + 1].body \in Nat
    BY <1>6, LengthIsPositive
  <2>5. EndOf(s, c + 1) = a + (first + s[c + 1].body)
    BY <2>3, <2>4
  <2> HIDE DEF a, first
  <2>6. a + first <= u
    BY <1>0, <1>3, <1>4, <2>2, <2>4, <2>5
  <2> QED
    BY <1>4, <1>6, <2>6 DEF a, first
<1> QED
  BY <1>7, <1>8

(* A CR LF CR LF is among the first n units after the LF LF request c + 1    *)
(* starts with.                                                             *)
Hidden(s, c, n) ==
  /\ c + 1 <= Len(s) /\ ~s[c + 1].crlf
  /\ \E u \in CrlfEnds(s) : EndOf(s, c) < u /\ u <= EndOf(s, c) + n

StartsAfter(buffer, s, c, n) == buffer = Run(EndOf(s, c), n)

(* A buffer that starts where request c ends and holds the end of a header:  *)
(* unless a CR LF CR LF hides it, that is the header of request c + 1.      *)
LEMMA NextHeader ==
  ASSUME NEW s \in Seq(Request), NEW c \in 0..Len(s), NEW n \in Nat,
         NEW buffer, StartsAfter(buffer, s, c, n), HeaderEnd(s, buffer) # 0
  PROVE  /\ c + 1 \in 1..Len(s)
         /\ ~Hidden(s, c, n) => HeaderEnd(s, buffer) = s[c + 1].head
         /\ Readings(s, buffer) = {s[c + 1]} /\ HeaderEnd(s, buffer) \in Nat
<1> DEFINE a == EndOf(s, c)
           crlf == Places(buffer, CrlfEnds(s))
           lf == Places(buffer, LfEnds(s))
           first == s[c + 1].head
<1>0. a \in Nat /\ Len(s) \in Nat
  BY EndIsNat
<1>1. /\ DOMAIN buffer = 1..n
      /\ \A j \in 1..n : buffer[j] = a + j
  BY <1>0, RunFacts DEF StartsAfter
<1>2. /\ \A j : j \in crlf <=> j \in 1..n /\ a + j \in CrlfEnds(s)
      /\ \A j : j \in lf <=> j \in 1..n /\ a + j \in LfEnds(s)
  BY <1>1 DEF Places
<1>3. HeaderEnd(s, buffer)
        = IF crlf # {} THEN Smallest(crlf) ELSE IF lf # {} THEN Smallest(lf) ELSE 0
  BY DEF HeaderEnd
<1> HIDE DEF crlf, lf
<1>4. PICK j0 : j0 \in crlf \cup lf
  BY <1>3
<1>5. ASSUME NEW j \in crlf \cup lf
      PROVE  c + 1 \in 1..Len(s) /\ a + first <= a + j /\ j \in 1..n
  <2>1. j \in 1..n /\ a + j \in CrlfEnds(s) \cup LfEnds(s)
    BY <1>2
  <2>2. a < a + j
    BY <1>0, <2>1
  <2> QED
    BY <2>1, <2>2, HeadersAhead
<1>6. c + 1 \in 1..Len(s) /\ j0 \in 1..n
  BY <1>4, <1>5
<1>7. /\ first \in Nat /\ first > 0 /\ s[c + 1].body \in Nat
      /\ Length(s[c + 1]) = first + s[c + 1].body
  BY <1>6, LengthIsPositive
<1>8. c + 1 - 1 = c
  OBVIOUS
<1>9. EndOf(s, c + 1) = a + (first + s[c + 1].body)
  BY <1>6, <1>7, <1>8, EndSteps
<1>10. \A j \in crlf \cup lf : first <= j /\ j \in Nat
  <2> SUFFICES ASSUME NEW j \in crlf \cup lf
               PROVE  first <= j /\ j \in Nat
    OBVIOUS
  <2>1. a + first <= a + j /\ j \in 1..n
    BY <1>5
  <2> HIDE DEF a, first
  <2> QED
    BY <1>0, <1>7, <2>1
<1>11. first \in 1..n
  BY <1>4, <1>6, <1>7, <1>10
<1>12. HeadEnd(s, c + 1) = a + first
  BY <1>8 DEF HeadEnd
<1>13. ASSUME ~Hidden(s, c, n)
       PROVE  HeaderEnd(s, buffer) = first
  <2>1. CASE s[c + 1].crlf
    <3>1. a + first \in CrlfEnds(s)
      BY <1>6, <1>12, <2>1 DEF CrlfEnds
    <3>2. first \in crlf
      BY <1>2, <1>11, <3>1
    <3>3. \A j \in crlf : (\A k \in crlf : j <= k) => j = first
      BY <1>7, <1>10, <3>2
    <3>4. Smallest(crlf) = first
      BY <1>10, <3>2, <3>3 DEF Smallest
    <3> QED
      BY <1>3, <3>2, <3>4
  <2>2. CASE ~s[c + 1].crlf
    <3>1. a + first \in LfEnds(s)
      BY <1>6, <1>12, <2>2 DEF LfEnds
    <3>2. first \in lf
      BY <1>2, <1>11, <3>1
    <3>3. crlf = {}
      <4> SUFFICES ASSUME NEW j \in crlf
                   PROVE  FALSE
        OBVIOUS
      <4>1. j \in 1..n /\ a + j \in CrlfEnds(s)
        BY <1>2
      <4>2. a < a + j /\ a + j <= a + n
        BY <1>0, <4>1
      <4>3. c + 1 <= Len(s)
        BY <1>6
      <4> QED
        BY <1>13, <2>2, <4>1, <4>2, <4>3 DEF Hidden
    <3>4. \A j \in lf : (\A k \in lf : j <= k) => j = first
      BY <1>7, <1>10, <3>2
    <3>5. Smallest(lf) = first
      BY <1>10, <3>2, <3>4 DEF Smallest
    <3> QED
      BY <1>3, <3>2, <3>3, <3>5
  <2> QED
    BY <2>1, <2>2
<1>14. buffer[1] = a + 1
  BY <1>1, <1>6
<1>15. Aligned(s, buffer)
  <2>1. CASE c = 0
    <3>1. a = 0
      BY <2>1, EndSteps
    <3> QED
      BY <1>14, <3>1 DEF Aligned
  <2>2. CASE c # 0
    <3>1. c \in 1..Len(s)
      BY <1>0, <2>2
    <3>2. buffer[1] - 1 = a
      BY <1>0, <1>14
    <3> QED
      BY <3>1, <3>2 DEF Aligned
  <2> QED
    BY <2>1, <2>2
<1>16. RequestAt(s, a + 1) = c + 1
  <2>1. a < a + 1 /\ a + 1 <= EndOf(s, c + 1) /\ a + 1 \in Nat
    <3> HIDE DEF a, first
    <3> QED
      BY <1>0, <1>7, <1>9
  <2>2. EndOf(s, c + 1 - 1) < a + 1
    BY <1>8, <2>1
  <2> QED
    BY <1>6, <2>1, <2>2, RequestAtIs
<1>17. Readings(s, buffer) = {s[c + 1]}
  BY <1>14, <1>15, <1>16 DEF Readings
<1>18. HeaderEnd(s, buffer) \in Nat
  <2>1. ASSUME NEW S \in SUBSET (1..n), S # {}
        PROVE  Smallest(S) \in Nat
    <3>1. PICK i \in S : \A k \in S : i <= k
      BY <2>1, LeastMember
    <3>2. Smallest(S) \in S
      BY <3>1, Zenon DEF Smallest
    <3>3. \A k \in S : k \in Nat
      OBVIOUS
    <3> QED
      BY <3>2, <3>3
  <2>2. crlf \in SUBSET (1..n) /\ lf \in SUBSET (1..n)
    BY <1>2
  <2> QED
    BY <1>3, <2>1, <2>2
<1> QED
  BY <1>6, <1>13, <1>17, <1>18

(* What is handed out of it has arrived.                                    *)
LEMMA ReadyHasArrived ==
  ASSUME NEW s \in Seq(Request), NEW c \in 0..Len(s), NEW n \in Nat,
         NEW buffer, StartsAfter(buffer, s, c, n),
         NEW read \in Readings(s, buffer), Verdict(s, buffer, read) = "ready"
  PROVE  HeaderEnd(s, buffer) # 0 /\ Needed(s, buffer, read) <= Len(buffer)
<1>1. ~(Len(buffer) > MaxRequest)
  BY DEF Verdict
<1>2. Len(buffer) = n
  BY EndIsNat, RunFacts DEF StartsAfter
<1>3. HeaderEnd(s, buffer) # 0
  BY <1>1, <1>2 DEF Verdict
<1>4. Needed(s, buffer, read) \in Nat
  <2>1. c + 1 \in 1..Len(s) /\ read = s[c + 1] /\ HeaderEnd(s, buffer) \in Nat
    BY <1>3, NextHeader
  <2> QED
    BY <2>1, LengthIsPositive DEF Needed
<1>5. CASE ~read.valid
  <2>1. Verdict(s, buffer, read) = "bad"
    BY <1>1, <1>2, <1>3, <1>5 DEF Verdict
  <2> QED
    BY <2>1
<1>6. CASE read.valid
  <2>1. ~(Needed(s, buffer, read) > MaxRequest)
    BY <1>1, <1>2, <1>3, <1>6 DEF Verdict
  <2>2. ~(Len(buffer) < Needed(s, buffer, read))
    BY <1>1, <1>2, <1>3, <1>4, <1>6, <2>1 DEF Verdict
  <2> QED
    BY <1>2, <1>3, <1>4, <2>2
<1> QED
  BY <1>5, <1>6

HoldsNext(buffer, s, c, n, read) ==
  /\ c + 1 \in 1..Len(s)
  /\ EndOf(s, c + 1) = EndOf(s, c) + Length(s[c + 1]) /\ Length(s[c + 1]) <= n
  /\ read.keep => StartsAfter(RestOf(s, buffer, read), s, c + 1, n - Length(s[c + 1]))

(* If the whole of request c + 1 is cut off such a buffer, what is left of it *)
(* starts where that request ends.                                          *)
LEMMA RestStartsNext ==
  ASSUME NEW s \in Seq(Request), NEW c \in 0..Len(s), NEW n \in Nat, NEW read,
         NEW buffer, StartsAfter(buffer, s, c, n), Whole(s, buffer, read, c + 1),
         Needed(s, buffer, read) <= Len(buffer)
  PROVE  HoldsNext(buffer, s, c, n, read)
<1> DEFINE a == EndOf(s, c)
           size == Length(s[c + 1])
<1>0. /\ a \in Nat /\ Len(s) \in Nat /\ buffer = Run(a, n)
  BY EndIsNat DEF StartsAfter
<1>1. c + 1 \in 1..Len(s) /\ Needed(s, buffer, read) = size
  <2>1. c + 1 <= Len(s) /\ Needed(s, buffer, read) = size
    BY DEF Whole
  <2> QED
    BY <1>0, <2>1
<1>2. size \in Nat /\ Len(buffer) = n
  BY <1>0, <1>1, LengthIsPositive, RunFacts
<1>3. EndOf(s, c + 1) = a + size
  <2>1. c + 1 - 1 = c
    OBVIOUS
  <2> QED
    BY <1>1, <2>1, EndSteps
<1> HIDE DEF a, size
<1>4. size <= n
  BY <1>1, <1>2
<1>5. SubSeq(buffer, size + 1, n) = Run(a + size, n - size)
  BY <1>0, <1>2, <1>4, RunIsCut
<1>6. read.keep => RestOf(s, buffer, read) = SubSeq(buffer, size + 1, n)
  BY <1>1, <1>2 DEF RestOf
<1>7. read.keep => StartsAfter(RestOf(s, buffer, read), s, c + 1, n - size)
  BY <1>3, <1>5, <1>6 DEF StartsAfter
<1> QED
  BY <1>1, <1>3, <1>4, <1>7 DEF a, size, HoldsNext

(* A header that nothing hides is that of the whole request c + 1.          *)
LEMMA NotWholeIsHidden ==
  ASSUME NEW s \in Seq(Request), NEW c \in 0..Len(s), NEW n \in Nat,
         NEW buffer, StartsAfter(buffer, s, c, n), HeaderEnd(s, buffer) # 0,
         NEW read \in Readings(s, buffer), ~Hidden(s, c, n),
         Needed(s, buffer, read) <= Len(buffer)
  PROVE  Whole(s, buffer, read, c + 1)
<1> DEFINE a == EndOf(s, c)
<1>0. a \in Nat /\ Len(s) \in Nat
  BY EndIsNat
<1>1. /\ c + 1 \in 1..Len(s) /\ HeaderEnd(s, buffer) = s[c + 1].head
      /\ read = s[c + 1]
  <2>1. /\ c + 1 \in 1..Len(s) /\ Readings(s, buffer) = {s[c + 1]}
        /\ ~Hidden(s, c, n) => HeaderEnd(s, buffer) = s[c + 1].head
    BY NextHeader, Zenon
  <2> QED
    BY <2>1
<1>2. Needed(s, buffer, read) = Length(s[c + 1])
  BY <1>1 DEF Needed, Length
<1>3. Length(s[c + 1]) \in Nat
  BY <1>1, LengthIsPositive
<1>4. Len(buffer) = n /\ \A j \in 1..n : buffer[j] = a + j
  BY <1>0, RunFacts DEF StartsAfter
<1>5. \A j \in 1..Needed(s, buffer, read) : buffer[j] = a + j
  BY <1>2, <1>3, <1>4
<1>6. c + 1 - 1 = c /\ c + 1 <= Len(s)
  BY <1>0, <1>1
<1> QED
  BY <1>2, <1>5, <1>6 DEF Whole

-----------------------------------------------------------------------------
(* What is served *)

(* The buffer of a session starts where the last request handed out ends, and *)
(* holds all that has been delivered since.                                 *)
InStep(n, q, d) ==
  /\ d.count \in 0..Len(n.stream)
  /\ EndOf(n.stream, d.count) <= n.delivered
  /\ q = Run(EndOf(n.stream, d.count), n.delivered - EndOf(n.stream, d.count))

ServedOf(h) ==
  /\ net[h].answered \in Nat /\ net[h].delivered \in Nat
  /\ net[h].state # "open" => handed[h].broken = FALSE /\ Session(h).req = <<>>
  /\ net[h].state = "open" =>
       /\ net[h].stream \in Streams /\ net[h].delivered <= Total(net[h].stream)
       /\ handed[h].broken => handed[h].last \/ net[h].closing \/ Misread(h)
       /\ ~handed[h].broken /\ ~handed[h].last /\ ~net[h].closing
            => InStep(net[h], Session(h).req, handed[h])

Served ==
  /\ DOMAIN handed = Handle
  /\ \A h \in Handle : ServedOf(h)

LEMMA InitServed == Init => Served
<1> SUFFICES ASSUME Init
             PROVE  Served
  OBVIOUS
<1>1. \A h \in Handle : /\ net[h] = FreeSocket /\ handed[h] = Fresh
                        /\ Session(h) = NewSession
  BY DEF Init, Session
<1>2. /\ FreeSocket.answered = 0 /\ FreeSocket.delivered = 0 /\ FreeSocket.state = "free"
      /\ Fresh.broken = FALSE /\ NewSession.req = <<>>
  BY DEF FreeSocket, Socket, Fresh, NewSession
<1>3. \A h \in Handle : ServedOf(h)
  BY <1>1, <1>2 DEF ServedOf
<1> QED
  BY <1>3 DEF Served, Init

(* It is enough to look at the handle of the step.                          *)
LEMMA OneServed ==
  ASSUME Served, NEW h \in Handle, DOMAIN handed' = Handle, ServedOf(h)',
         \A g \in Handle : g # h =>
           /\ Session(g)' = Session(g) /\ net'[g] = net[g] /\ handed'[g] = handed[g]
  PROVE  Served'
<1>1. ASSUME NEW g \in Handle, g # h
      PROVE  ServedOf(g)'
  <2>1. ServedOf(g)
    BY DEF Served
  <2>2. Session(g)' = Session(g) /\ net'[g] = net[g] /\ handed'[g] = handed[g]
    BY <1>1
  <2> QED
    BY <2>1, <2>2 DEF ServedOf, Misread
<1> QED
  BY <1>1 DEF Served

LEMMA RespondServed ==
  ASSUME IInv, Served, NEW h \in Handle, Respond(h)
  PROVE  Served'
<1> DEFINE session == MarkedSession(Session(h), Head(todo[h]))
<1>0. /\ Shape /\ SessionOK(Session(h)) /\ SocketOK(net[h]) /\ ServedOf(h)
      /\ handed' = handed /\ DOMAIN handed = Handle
  BY DEF IInv, Shape, Respond, Served
<1>1. SessionOK(session) /\ session.req = Session(h).req
  <2>1. PICK pendingClose :
          session = [Session(h) EXCEPT !.pending = Answer, !.sent = 0,
                                       !.pendingClose = pendingClose]
    BY Zenon DEF MarkedSession
  <2> HIDE DEF session
  <2> QED
    BY <1>0, <2>1 DEF SessionOK
<1>2. /\ Session(h)' = session
      /\ \A g \in Handle : g # h => Session(g)' = Session(g)
  BY <1>0, <1>1, WithEffect DEF Respond
<1>3. /\ net'[h].state = net[h].state /\ net'[h].stream = net[h].stream
      /\ net'[h].delivered = net[h].delivered /\ net'[h].answered = net[h].answered
      /\ net'[h].closing = net[h].closing
      /\ \A g \in Handle : g # h => net'[g] = net[g]
  <2> DEFINE queued == [net[h] EXCEPT !.unsent = @ + Answer]
  <2>1. /\ queued.state = net[h].state /\ queued.stream = net[h].stream
        /\ queued.delivered = net[h].delivered /\ queued.answered = net[h].answered
        /\ queued.closing = net[h].closing
    BY <1>0 DEF SocketOK
  <2> HIDE DEF queued
  <2>2. net' = [net EXCEPT ![h] = queued] \/ net' = net
    BY DEF Respond, queued
  <2> QED
    BY <1>0, <2>1, <2>2 DEF Shape
<1>4. ServedOf(h)'
  BY <1>0, <1>1, <1>2, <1>3 DEF ServedOf, InStep, Misread
<1> QED
  BY <1>0, <1>2, <1>3, <1>4, OneServed

LEMMA ClosedServed ==
  ASSUME IInv, Served, NEW h \in Handle, Closed(h)
  PROVE  Served'
<1>0. Shape /\ DOMAIN handed = Handle
  BY DEF IInv, Served
<1>1. /\ Session(h)' = NewSession
      /\ \A g \in Handle : g # h => Session(g)' = Session(g)
  BY AfterCloseEffect DEF Closed
<1>2. /\ net'[h] = FreeSocket /\ \A g \in Handle : g # h => net'[g] = net[g]
  BY <1>0 DEF Shape, Closed
<1>3. /\ DOMAIN handed' = Handle /\ handed'[h] = Fresh
      /\ \A g \in Handle : g # h => handed'[g] = handed[g]
  BY <1>0 DEF Closed
<1>4. /\ FreeSocket.answered = 0 /\ FreeSocket.delivered = 0 /\ FreeSocket.state = "free"
      /\ Fresh.broken = FALSE /\ NewSession.req = <<>>
  BY DEF FreeSocket, Socket, Fresh, NewSession
<1>5. ServedOf(h)'
  BY <1>1, <1>2, <1>3, <1>4 DEF ServedOf
<1> QED
  BY <1>1, <1>2, <1>3, <1>5, OneServed

LEMMA OpenedServed ==
  ASSUME IInv, Served, NEW h \in Handle, Opened(h)
  PROVE  Served'
<1>0. /\ Shape /\ DOMAIN handed = Handle /\ ServedOf(h) /\ net[h].state = "free"
      /\ handed' = handed /\ sessions' = sessions
  BY DEF IInv, Served, Opened
<1>1. /\ net'[h] = Socket("listening", <<>>, TRUE)
      /\ \A g \in Handle : g # h => net'[g] = net[g]
  BY <1>0 DEF Shape, Opened
<1>2. net'[h].answered = 0 /\ net'[h].delivered = 0 /\ net'[h].state = "listening"
  BY <1>1 DEF Socket
<1>3. \A g \in Handle : Session(g)' = Session(g)
  BY <1>0 DEF Session
<1>4. ServedOf(h)'
  BY <1>0, <1>2, <1>3 DEF ServedOf
<1> QED
  BY <1>0, <1>1, <1>3, <1>4, OneServed

LEMMA StreamFacts ==
  ASSUME NEW s \in Streams
  PROVE  /\ s \in Seq(Request) /\ Len(s) \in Nat /\ EndOf(s, 0) = 0
         /\ Total(s) \in Nat /\ Total(s) = EndOf(s, Len(s))
<1>1. s \in Seq(Request) /\ Len(s) \in Nat
  BY StreamAssumption
<1> QED
  BY <1>1, EndIsNat, EndSteps DEF Total

LEMMA EstablishedServed ==
  ASSUME IInv, Served, NEW h \in Handle, TcpEstablished(h)
  PROVE  Served'
<1>0. /\ Shape /\ SessionOK(Session(h)) /\ DOMAIN handed = Handle /\ ServedOf(h)
      /\ net[h].state # "open"
  BY DEF IInv, Shape, Served, TcpEstablished
<1>1. PICK s \in Streams, polite \in BOOLEAN : net' = [net EXCEPT ![h] = Socket("open", s, polite)]
  BY DEF TcpEstablished
<1>2. /\ Session(h)' = Session(h)
      /\ \A g \in Handle : g # h => Session(g)' = Session(g)
  BY <1>0, WithEffect DEF TcpEstablished
<1>3. /\ net'[h] = Socket("open", s, polite)
      /\ \A g \in Handle : g # h => net'[g] = net[g]
  BY <1>0, <1>1 DEF Shape
<1>4. /\ net'[h].answered = 0 /\ net'[h].delivered = 0 /\ net'[h].state = "open"
      /\ net'[h].stream = s
  BY <1>3 DEF Socket
<1>5. /\ DOMAIN handed' = Handle /\ handed'[h] = Fresh
      /\ \A g \in Handle : g # h => handed'[g] = handed[g]
  BY <1>0 DEF TcpEstablished
<1>6. Fresh.broken = FALSE /\ Fresh.count = 0
  BY DEF Fresh
<1>7. Session(h)'.req = <<>>
  BY <1>0, <1>2 DEF ServedOf
<1>8. /\ s \in Seq(Request) /\ Len(s) \in Nat /\ EndOf(s, 0) = 0 /\ Total(s) \in Nat
  BY StreamFacts
<1>9. <<>> = Run(0, 0 - 0) /\ 0 <= Total(s) /\ 0 \in 0..Len(s)
  BY <1>8, RunEmpty
<1>10. InStep(net'[h], Session(h)'.req, handed'[h])
  BY <1>4, <1>5, <1>6, <1>7, <1>8, <1>9 DEF InStep
<1>11. ServedOf(h)'
  BY <1>4, <1>5, <1>6, <1>9, <1>10 DEF ServedOf
<1> QED
  BY <1>2, <1>3, <1>5, <1>11, OneServed

LEMMA SentServed ==
  ASSUME IInv, Served, NEW h \in Handle, TcpSent(h)
  PROVE  Served'
<1>0. /\ Shape /\ SessionOK(Session(h)) /\ SocketOK(net[h]) /\ ServedOf(h)
      /\ handed' = handed /\ DOMAIN handed = Handle /\ net[h].state = "open"
  BY DEF IInv, Shape, TcpSent, Served
<1> DEFINE old    == Session(h)
           counts == h \in DOMAIN sessions /\ old.pending # 0
           done(len)  == counts /\ AllSent(old, len)
           close(len) == done(len) /\ (old.pendingClose \/ Len(old.req) > MaxRequest)
           next(len)  ==
             IF done(len)
             THEN [old EXCEPT !.pending = 0, !.sent = 0, !.pendingClose = FALSE,
                     !.req = IF close(len) /\ ~old.pendingClose THEN <<>> ELSE old.req]
             ELSE [old EXCEPT !.sent = @ + len]
           socket(len) ==
             [net[h] EXCEPT !.unsent = @ - len,
                            !.answered = IF done(len) THEN @ + 1 ELSE @,
                            !.closing = @ \/ close(len)]
<1>1. PICK len \in 1..net[h].unsent :
        /\ sessions' = IF counts THEN With(h, next(len)) ELSE sessions
        /\ net' = [net EXCEPT ![h] = socket(len)]
  BY DEF TcpSent
<1>2. len \in Nat
  BY <1>0, <1>1 DEF SocketOK
<1>3. /\ SessionOK(next(len))
      /\ ~close(len) => next(len).req = old.req
  <2> HIDE DEF close, done
  <2>1. CASE done(len)
    BY <1>0, <2>1 DEF SessionOK
  <2>2. CASE ~done(len)
    BY <1>0, <1>2, <2>2 DEF SessionOK
  <2> QED
    BY <2>1, <2>2
<1>4. /\ socket(len).state = net[h].state /\ socket(len).stream = net[h].stream
      /\ socket(len).delivered = net[h].delivered
      /\ socket(len).answered = (IF done(len) THEN net[h].answered + 1 ELSE net[h].answered)
      /\ socket(len).closing = (net[h].closing \/ close(len))
  <2> HIDE DEF close, done
  <2> DEFINE n == net[h].unsent - len
             answered == IF done(len) THEN net[h].answered + 1 ELSE net[h].answered
             closing == net[h].closing \/ close(len)
  <2>1. socket(len) = [net[h] EXCEPT !.unsent = n, !.answered = answered, !.closing = closing]
    OBVIOUS
  <2> HIDE DEF n, answered, closing, socket
  <2>2. socket(len) = [state |-> net[h].state, stream |-> net[h].stream,
                       polite |-> net[h].polite, delivered |-> net[h].delivered,
                       answered |-> answered, unsent |-> n, closing |-> closing]
    BY <1>0, <2>1 DEF SocketOK
  <2>3. /\ socket(len).state = net[h].state /\ socket(len).stream = net[h].stream
        /\ socket(len).delivered = net[h].delivered
        /\ socket(len).answered = answered /\ socket(len).closing = closing
    BY <2>2
  <2> QED
    BY <2>3 DEF answered, closing
<1> HIDE DEF next, socket
<1>5. /\ Session(h)' = IF counts THEN next(len) ELSE old
      /\ \A g \in Handle : g # h => Session(g)' = Session(g)
  <2>1. CASE counts
    BY <1>0, <1>1, <1>3, <2>1, WithEffect
  <2>2. CASE ~counts
    BY <1>1, <2>2 DEF Session
  <2> QED
    BY <2>1, <2>2
<1>6. net'[h] = socket(len) /\ \A g \in Handle : g # h => net'[g] = net[g]
  BY <1>0, <1>1 DEF Shape
<1> HIDE DEF counts, done, close
<1>7. socket(len).answered \in Nat
  BY <1>0, <1>4 DEF ServedOf
<1>8. ~net'[h].closing => Session(h)'.req = old.req /\ ~net[h].closing
  BY <1>3, <1>4, <1>5, <1>6
<1>9. ServedOf(h)'
  BY <1>0, <1>4, <1>6, <1>7, <1>8 DEF ServedOf, InStep, Misread
<1> QED
  BY <1>0, <1>5, <1>6, <1>9, OneServed

(* What a client sends stays within its stream.                             *)
LEMMA SendableWithin ==
  ASSUME NEW h \in Handle, net[h].stream \in Streams, net[h].answered \in Nat
  PROVE  Sendable(h) \in Nat /\ Sendable(h) <= Total(net[h].stream)
<1> DEFINE s == net[h].stream
           next == net[h].answered + 1
<1>1. s \in Seq(Request) /\ Len(s) \in Nat /\ Total(s) \in Nat /\ Total(s) = EndOf(s, Len(s))
  BY StreamFacts
<1>2. CASE net[h].polite /\ net[h].answered < Len(s)
  <2>1. next \in 0..Len(s) /\ Len(s) \in 0..Len(s) /\ next <= Len(s)
    BY <1>1, <1>2
  <2>2. EndOf(s, next) \in Nat /\ EndOf(s, next) <= EndOf(s, Len(s))
    BY <1>1, <2>1, EndIsNat, EndGrows
  <2>3. Sendable(h) = EndOf(s, next)
    BY <1>2 DEF Sendable
  <2> QED
    BY <1>1, <2>2, <2>3
<1>3. CASE ~(net[h].polite /\ net[h].answered < Len(s))
  BY <1>1, <1>3 DEF Sendable
<1> QED
  BY <1>2, <1>3

IsNext(h, next) == next = handed[h].count + 1 /\ ~handed[h].broken

HandedOut(d, next, last) ==
  ~d.broken /\ d.count = next /\ (d.last <=> last)

(* A buffer from which the whole of the next request is cut hands that out.  *)
LEMMA HandOutWhole ==
  ASSUME NEW h \in Handle, NEW s, NEW buffer, NEW read,
         NEW next, IsNext(h, next), Whole(s, buffer, read, next)
  PROVE  HandedOut(HandOut(h, s, buffer, read), next, handed[h].last \/ ~read.keep)
<1>1. next = handed[h].count + 1 /\ ~handed[h].broken
  BY DEF IsNext
<1>2. HandOut(h, s, buffer, read).count
        = IF Whole(s, buffer, read, next) /\ ~handed[h].broken THEN next ELSE handed[h].count
  BY <1>1 DEF HandOut
<1>3. HandOut(h, s, buffer, read).broken
        = (handed[h].broken \/ ~Whole(s, buffer, read, next))
  BY <1>1 DEF HandOut
<1>4. HandOut(h, s, buffer, read).last = (handed[h].last \/ ~read.keep)
  BY DEF HandOut
<1> QED
  BY <1>1, <1>2, <1>3, <1>4 DEF HandedOut

(* Anything else is noted, and nothing is counted any more.                 *)
LEMMA HandOutOther ==
  ASSUME NEW h \in Handle, NEW s, NEW buffer, NEW read,
         handed[h].broken \/ ~Whole(s, buffer, read, handed[h].count + 1)
  PROVE  /\ HandOut(h, s, buffer, read).count = handed[h].count
         /\ HandOut(h, s, buffer, read).broken
BY Zenon DEF HandOut

LEMMA DataServed ==
  ASSUME IInv, Served, NEW h \in Handle, TcpData(h)
  PROVE  Served'
<1> DEFINE s == net[h].stream
           old == Session(h)
           chunk(upto) == [j \in 1..(upto - net[h].delivered) |-> net[h].delivered + j]
           buffer(upto) == old.req \o chunk(upto)
           Ready(upto, read) == /\ read \in Readings(s, buffer(upto))
                                /\ Verdict(s, buffer(upto), read) = "ready"
<1>0. /\ Shape /\ SessionOK(old) /\ SocketOK(net[h]) /\ ServedOf(h)
      /\ DOMAIN handed = Handle /\ net[h].state = "open"
  BY DEF IInv, Shape, TcpData, Served
<1>1. /\ s \in Streams /\ net[h].delivered \in Nat /\ net[h].delivered <= Total(s)
      /\ net[h].answered \in Nat
      /\ handed[h].broken => handed[h].last \/ net[h].closing \/ Misread(h)
      /\ ~handed[h].broken /\ ~handed[h].last /\ ~net[h].closing
           => InStep(net[h], old.req, handed[h])
  BY <1>0 DEF ServedOf
<1>2. PICK upto \in (net[h].delivered + 1)..Sendable(h) :
        /\ net' = [net EXCEPT ![h].delivered = upto]
        /\ \/ /\ sessions' = With(h, [old EXCEPT !.req = buffer(upto)])
              /\ handed' = handed
           \/ \E read : /\ Ready(upto, read)
                        /\ sessions' = With(h, [old EXCEPT !.req = RestOf(s, buffer(upto), read)])
                        /\ handed' = [handed EXCEPT ![h] = HandOut(h, s, buffer(upto), read)]
  <2>1. PICK upto \in (net[h].delivered + 1)..Sendable(h) :
          /\ net' = [net EXCEPT ![h].delivered = upto]
          /\ \E read \in Readings(s, buffer(upto)) :
               IF (IF old.pending # 0 THEN "none" ELSE Verdict(s, buffer(upto), read)) = "ready"
               THEN /\ sessions' = With(h, [old EXCEPT !.req = RestOf(s, buffer(upto), read)])
                    /\ handed' = [handed EXCEPT ![h] = HandOut(h, s, buffer(upto), read)]
               ELSE /\ sessions' = With(h, [old EXCEPT !.req = buffer(upto)])
                    /\ handed' = handed
    BY Zenon DEF TcpData
  <2> HIDE DEF buffer, s
  <2> QED
    BY <2>1
<1>3. upto \in Nat /\ upto <= Total(s) /\ net[h].delivered <= upto
  <2>1. Sendable(h) \in Nat /\ Sendable(h) <= Total(s)
    BY <1>1, SendableWithin
  <2>2. Total(s) \in Nat
    BY <1>1, StreamFacts
  <2>3. upto \in (net[h].delivered + 1)..Sendable(h) /\ net[h].delivered \in Nat
    BY <1>1
  <2> HIDE DEF s
  <2>4. upto \in Nat /\ upto <= Sendable(h) /\ net[h].delivered <= upto
    BY <2>1, <2>3
  <2> QED
    BY <2>1, <2>2, <2>4
<1>4. /\ net'[h].state = "open" /\ net'[h].stream = s /\ net'[h].delivered = upto
      /\ net'[h].answered = net[h].answered /\ net'[h].closing = net[h].closing
      /\ \A g \in Handle : g # h => net'[g] = net[g]
  BY <1>0, <1>2 DEF Shape, SocketOK
<1>5. PICK req, read :
         /\ sessions' = With(h, [old EXCEPT !.req = req])
         /\ \/ req = buffer(upto) /\ handed' = handed
            \/ /\ Ready(upto, read)
               /\ req = RestOf(s, buffer(upto), read)
               /\ handed' = [handed EXCEPT ![h] = HandOut(h, s, buffer(upto), read)]
  <2> HIDE DEF buffer, Ready, s
  <2> QED
    BY <1>2
<1>6. SessionOK([old EXCEPT !.req = req]) /\ [old EXCEPT !.req = req].req = req
  BY <1>0 DEF SessionOK
<1>7. /\ Session(h)'.req = req
      /\ \A g \in Handle : g # h => Session(g)' = Session(g)
  BY <1>0, <1>5, <1>6, WithEffect
<1>8. DOMAIN handed' = Handle /\ \A g \in Handle : g # h => handed'[g] = handed[g]
  BY <1>0, <1>5
<1>9. s \in Seq(Request) /\ Len(s) \in Nat
  BY <1>1, StreamFacts
<1>10. handed'[h].last \/ ~handed[h].last
  <2>1. \A q, k : handed[h].last => HandOut(h, s, q, k).last
    BY DEF HandOut
  <2>2. handed' = handed \/ \E q, k : handed'[h] = HandOut(h, s, q, k)
    BY <1>0, <1>5
  <2> QED
    BY <2>1, <2>2, Zenon
<1>11. ASSUME handed[h].broken
       PROVE  /\ handed'[h].broken
              /\ handed'[h].last \/ net'[h].closing \/ Misread(h)'
  <2>1. handed'[h].broken /\ handed'[h].count = handed[h].count
    <3>1. CASE handed' = handed
      BY <1>11, <3>1
    <3>2. CASE handed' = [handed EXCEPT ![h] = HandOut(h, s, buffer(upto), read)]
      <4>1. handed'[h] = HandOut(h, s, buffer(upto), read)
        BY <1>0, <3>2
      <4> HIDE DEF s, buffer
      <4> QED
        BY <1>11, <4>1, HandOutOther
    <3> QED
      BY <1>5, <3>1, <3>2
  <2>2. ASSUME Misread(h)
        PROVE  Misread(h)'
    <3> DEFINE next == handed[h].count + 1
    <3>1. PICK u \in CrlfEnds(s) : EndOf(s, next - 1) < u /\ u <= net[h].delivered
      BY <2>2 DEF Misread
    <3>2. u \in Nat
      <4>1. \A k \in 1..Len(s) : HeadEnd(s, k) \in Nat
        <5> SUFFICES ASSUME NEW k \in 1..Len(s)
                     PROVE  HeadEnd(s, k) \in Nat
          OBVIOUS
        <5>1. k - 1 \in 0..Len(s)
          BY <1>9
        <5> QED
          BY <1>9, <5>1, EndIsNat, LengthIsPositive DEF HeadEnd
      <4>2. \A k \in 1..Len(s) : s[k].blanks \subseteq Nat
        BY <1>9 DEF Request
      <4> HIDE DEF s
      <4> QED
        BY <3>1, <4>1, <4>2 DEF CrlfEnds
    <3>3. u <= upto
      BY <1>1, <1>3, <3>1, <3>2
    <3>4. next <= Len(s) /\ ~s[next].crlf
      BY <2>2 DEF Misread
    <3>5. handed'[h].count + 1 = next /\ net'[h].stream = s /\ net'[h].delivered = upto
      BY <1>4, <2>1
    <3> HIDE DEF next, s
    <3> QED
      BY <3>1, <3>3, <3>4, <3>5 DEF Misread
  <2>3. handed[h].last \/ net[h].closing \/ Misread(h)
    BY <1>1, <1>11
  <2> QED
    BY <1>4, <1>10, <2>1, <2>2, <2>3
<1>12. ASSUME ~handed[h].broken, ~handed'[h].last, ~net[h].closing
       PROVE  /\ handed'[h].broken => Misread(h)'
              /\ ~handed'[h].broken => InStep(net'[h], req, handed'[h])
  <2> DEFINE c == handed[h].count
             a == EndOf(s, c)
             b == buffer(upto)
  <2>1. ~handed[h].last
    BY <1>10, <1>12
  <2>2. /\ c \in 0..Len(s) /\ a <= net[h].delivered
        /\ old.req = Run(a, net[h].delivered - a)
    BY <1>1, <1>12, <2>1 DEF InStep
  <2>3. a \in Nat
    BY <1>9, <2>2, EndIsNat
  <2>4. b = Run(a, upto - a)
    <3> DEFINE n == net[h].delivered - a
               m == upto - net[h].delivered
    <3>1. n \in Nat /\ m \in Nat /\ a + n = net[h].delivered /\ n + m = upto - a
      <4> HIDE DEF a
      <4> QED
        BY <1>1, <1>3, <2>2, <2>3
    <3>2. chunk(upto) = Run(a + n, m)
      BY <3>1 DEF Run
    <3>3. Run(a, n) \o Run(a + n, m) = Run(a, n + m)
      BY <2>3, <3>1, RunGrows
    <3> QED
      BY <2>2, <3>1, <3>2, <3>3
  <2>5. a <= upto
    <3> HIDE DEF a
    <3> QED
      BY <1>1, <1>3, <2>2, <2>3
  <2> DEFINE n == upto - a
  <2>6. n \in Nat /\ a + n = upto
    <3> HIDE DEF a
    <3> QED
      BY <1>3, <2>3, <2>5
  <2> HIDE DEF buffer, chunk, b
  <2>7. StartsAfter(b, s, c, n) /\ Len(b) = n
    <3> HIDE DEF a, s, c
    <3>1. b = Run(a, n)
      BY <2>4
    <3> HIDE DEF n
    <3>2. Len(b) = n
      BY <2>3, <2>6, <3>1, RunFacts
    <3> QED
      BY <3>1, <3>2 DEF StartsAfter, a
  <2> HIDE DEF n
  <2>9. CASE req = buffer(upto) /\ handed' = handed
    <3>1. ~handed'[h].broken
      BY <1>12, <2>9
    <3>2. InStep(net'[h], req, handed'[h])
      BY <1>4, <2>2, <2>4, <2>5, <2>9 DEF InStep, b
    <3> QED
      BY <3>1, <3>2
  <2>10. CASE /\ Ready(upto, read)
              /\ req = RestOf(s, buffer(upto), read)
              /\ handed' = [handed EXCEPT ![h] = HandOut(h, s, buffer(upto), read)]
    <3> DEFINE d == HandOut(h, s, b, read)
    <3>1. handed'[h] = d
      BY <1>0, <2>10 DEF b
    <3>2. /\ read \in Readings(s, b) /\ Verdict(s, b, read) = "ready"
          /\ req = RestOf(s, b, read) /\ ~d.last
      BY <1>12, <2>10, <3>1 DEF b
    <3> HIDE DEF s, c, a
    <3>3. HeaderEnd(s, b) # 0 /\ Needed(s, b, read) <= Len(b)
      BY <1>9, <2>2, <2>6, <2>7, <3>2, ReadyHasArrived
    <3>4. c = handed[h].count
      BY DEF c
    <3>5. CASE Whole(s, b, read, c + 1)
      <4>1. HoldsNext(b, s, c, n, read)
        BY <1>9, <2>2, <2>6, <2>7, <3>3, <3>5, RestStartsNext
      <4>2. PICK next : next = c + 1
        OBVIOUS
      <4>3. IsNext(h, next) /\ Whole(s, b, read, next)
        BY <1>12, <3>4, <3>5, <4>2 DEF IsNext
      <4>4. HandedOut(d, next, handed[h].last \/ ~read.keep)
        BY <4>3, HandOutWhole
      <4> HIDE DEF d
      <4>5. ~d.broken /\ d.count = c + 1 /\ (d.last <=> handed[h].last \/ ~read.keep)
        BY <4>2, <4>4 DEF HandedOut
      <4>6. /\ c + 1 \in 0..Len(s) /\ Length(s[c + 1]) \in Nat /\ EndOf(s, c) = a
            /\ EndOf(s, c + 1) = a + Length(s[c + 1]) /\ Length(s[c + 1]) <= n
        BY <1>9, <4>1, LengthIsPositive DEF HoldsNext, a
      <4>7. n - Length(s[c + 1]) = upto - EndOf(s, c + 1) /\ EndOf(s, c + 1) <= upto
        BY <2>3, <2>6, <4>6
      <4>8. req = Run(EndOf(s, c + 1), upto - EndOf(s, c + 1))
        BY <3>2, <4>1, <4>5, <4>7 DEF HoldsNext, StartsAfter
      <4>9. net'[h].stream = s /\ net'[h].delivered = upto
        BY <1>4 DEF s
      <4> QED
        BY <3>1, <4>5, <4>6, <4>7, <4>8, <4>9 DEF InStep
    <3>6. CASE ~Whole(s, b, read, c + 1)
      <4>1. Hidden(s, c, n)
        BY <1>9, <2>2, <2>6, <2>7, <3>2, <3>3, <3>6, NotWholeIsHidden
      <4>2. d.broken /\ d.count = c
        BY <3>6, HandOutOther DEF c
      <4>3. net'[h].stream = s /\ net'[h].delivered = upto
        BY <1>4 DEF s
      <4>4. c + 1 - 1 = c
        BY <2>2
      <4> HIDE DEF d
      <4>5. Misread(h)'
        <5> DEFINE next == c + 1
        <5>1. next <= Len(s) /\ ~s[next].crlf
          BY <4>1 DEF Hidden
        <5>2. PICK u \in CrlfEnds(s) : EndOf(s, next - 1) < u /\ u <= upto
          <6>1. PICK u \in CrlfEnds(s) : EndOf(s, c) < u /\ u <= EndOf(s, c) + n
            BY <4>1 DEF Hidden
          <6>2. EndOf(s, c) + n = upto
            BY <2>6 DEF a
          <6>3. next - 1 = c
            BY <1>9, <2>2
          <6> HIDE DEF next, n
          <6> QED
            BY <6>1, <6>2, <6>3
        <5>3. handed'[h].count + 1 = next
          BY <3>1, <4>2
        <5> HIDE DEF next
        <5> QED
          BY <4>3, <5>1, <5>2, <5>3 DEF Misread
      <4> QED
        BY <3>1, <4>2, <4>5
    <3> QED
      BY <3>5, <3>6
  <2> QED
    BY <1>5, <2>9, <2>10
<1>13. ServedOf(h)'
  <2>1. ~handed[h].broken /\ ~handed'[h].last /\ ~net[h].closing /\ handed'[h].broken
          => Misread(h)'
    BY <1>12
  <2>2. ~handed'[h].broken => ~handed[h].broken
    BY <1>11
  <2> QED
    BY <1>1, <1>3, <1>4, <1>7, <1>11, <1>12, <2>1, <2>2 DEF ServedOf
<1> QED
  BY <1>4, <1>7, <1>8, <1>13, OneServed

LEMMA ServedInvariance == Spec => []Served
<1>1. IInv /\ Served /\ [Next]_vars => Served'
  <2> SUFFICES ASSUME IInv, Served, [Next]_vars
               PROVE  Served'
    OBVIOUS
  <2>1. CASE UNCHANGED vars
    BY <2>1 DEF vars, Served, ServedOf, InStep, Misread, Session
  <2>2. ASSUME NEW h \in Handle,
               \/ Opened(h) \/ TcpEstablished(h) \/ TcpData(h)
               \/ TcpSent(h) \/ Respond(h) \/ Closed(h)
        PROVE  Served'
    BY <2>2, OpenedServed, EstablishedServed, DataServed, SentServed, RespondServed, ClosedServed
  <2> QED
    BY <2>1, <2>2 DEF Next
<1> QED
  BY <1>1, InitServed, Invariance, PTL DEF Spec

(* What is handed out on a connection are the requests of its stream, whole, *)
(* each once and in their order, for every stream and however it is cut into *)
(* chunks, until a request ends the connection, the server closes it, or a   *)
(* CR LF CR LF has arrived behind a header that ends in LF LF.              *)
THEOREM OrderlyService == Spec => []ServedInOrder
<1>1. Served => ServedInOrder
  <2> SUFFICES ASSUME Served, NEW h \in Handle, handed[h].broken
               PROVE  handed[h].last \/ net[h].closing \/ Misread(h)
    BY DEF ServedInOrder
  <2>1. ServedOf(h)
    BY DEF Served
  <2>2. CASE net[h].state = "open"
    BY <2>1, <2>2 DEF ServedOf
  <2>3. CASE net[h].state # "open"
    BY <2>1, <2>3 DEF ServedOf
  <2> QED
    BY <2>2, <2>3
<1> QED
  BY <1>1, ServedInvariance, PTL
=============================================================================
