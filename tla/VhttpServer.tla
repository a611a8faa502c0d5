------------------------------ MODULE VhttpServer ------------------------------
(***************************************************************************)
(* The HTTP server over the kernel's sockets                                *)
(* (src/crates/trueos-v/src/vhttp_srv.rs): on_event turns socket events into *)
(* requests for the application, mark_response tells it how many bytes of an *)
(* answer it has to see sent before the connection goes on or is closed.     *)
(*                                                                         *)
(* The network stack, the client and the application are external.  The      *)
(* stack delivers the stream of a connection in chunks of any size, reports   *)
(* sent bytes piecemeal and reuses handles.  A polite client awaits every    *)
(* answer; another one pipelines.  The application answers when it likes,    *)
(* which on_event leaves it free to do.                                      *)
(*                                                                         *)
(* Bytes are the units of a stream of requests, numbered from 1.  What ends a *)
(* header is one unit, and which of the two kinds it is matters: header_end  *)
(* looks for CR LF CR LF in the whole buffer before it looks for LF LF.       *)
(***************************************************************************)
EXTENDS Integers, Sequences, FiniteSets

CONSTANTS
    Handle,      \* socket handles
    None,        \* no handle
    Streams,     \* what clients send: sequences of requests, see Request
    MaxRequest,  \* max_request_bytes
    Answer,      \* the length of an answer
    Late         \* bound: answers owed to a handle when a connection starts on it

\* A request has `head' units up to the end of its header, which is CR LF CR LF
\* (crlf) or LF LF, and `body' after it, where `blanks' are the units that end a
\* CR LF CR LF too; `keep' is keep_alive(), `valid' says the request line parses.
Request ==
    {r \in [head : Nat \ {0}, crlf : BOOLEAN, body : Nat, blanks : SUBSET Nat,
            keep : BOOLEAN, valid : BOOLEAN] : r.blanks \subseteq 1..r.body}

ASSUME HandleAssumption == None \notin Handle
ASSUME StreamAssumption == Streams \subseteq Seq(Request)
ASSUME SizeAssumption == MaxRequest \in Nat /\ Answer \in Nat \ {0} /\ Late \in Nat

VARIABLES
    listener,   \* listener_handle
    asked,      \* an OpenTcpListen that the stack has not carried out
    sessions,   \* sessions: a function on the handles that have one
    net,        \* external: the sockets
    todo,       \* external: the answers the application still owes, per handle
    handed,     \* ghost: what was handed out on the connection, see Fresh
    unruly,     \* ghost: handles on which an event overtook an answer, see Overtake
    stale       \* ghost: handles whose session was made by an answer to nobody

vars == <<listener, asked, sessions, net, todo, handed, unruly, stale>>

NewSession == [req |-> <<>>, pendingClose |-> FALSE, pending |-> 0, sent |-> 0]

\* A socket: its stream, how much of it was delivered, how many answers have
\* been sent in full, the units queued and not reported yet, whether Close was
\* submitted.
Socket(state, stream, polite) ==
    [state |-> state, stream |-> stream, polite |-> polite, delivered |-> 0,
     answered |-> 0, unsent |-> 0, closing |-> FALSE]

FreeSocket == Socket("free", <<>>, TRUE)

\* Requests handed out in order; whether one without keep-alive was among them,
\* and whether something was that is not the next request of the stream.
Fresh == [count |-> 0, last |-> FALSE, broken |-> FALSE]

-----------------------------------------------------------------------------
(* Positions in a stream *)

Length(request) == request.head + request.body

\* The unit request k ends with; EndOf(s, 0) is 0.
EndOf(s, k) ==
    LET end[n \in 0..Len(s)] == IF n = 0 THEN 0 ELSE end[n - 1] + Length(s[n])
    IN  end[k]

Total(s) == EndOf(s, Len(s))

\* The request a unit belongs to.
RequestAt(s, u) == CHOOSE k \in 1..Len(s) : EndOf(s, k - 1) < u /\ u <= EndOf(s, k)

HeadEnd(s, k) == EndOf(s, k - 1) + s[k].head

\* The units that end a CR LF CR LF, in headers and bodies, and an LF LF.
CrlfEnds(s) ==
    {HeadEnd(s, k) : k \in {i \in 1..Len(s) : s[i].crlf}}
        \cup UNION {{HeadEnd(s, k) + j : j \in s[k].blanks} : k \in 1..Len(s)}
LfEnds(s) == {HeadEnd(s, k) : k \in {i \in 1..Len(s) : ~s[i].crlf}}

Smallest(S) == CHOOSE j \in S : \A k \in S : j <= k

\* The places of the buffer with one of these units.
Places(buffer, ends) == {j \in DOMAIN buffer : buffer[j] \in ends}

\* Seeded fault: the search goes on to the last end of a header in the buffer.
HeaderEnd_Latest(s, buffer) ==
    LET all == Places(buffer, CrlfEnds(s) \cup LfEnds(s))
    IN  IF all = {} THEN 0 ELSE CHOOSE j \in all : \A k \in all : k <= j

\* header_end: the first CR LF CR LF, wherever it is; if there is none, the
\* first LF LF; 0 for None.
HeaderEnd(s, buffer) ==
    LET crlf == Places(buffer, CrlfEnds(s))
        lf   == Places(buffer, LfEnds(s))
    IN  IF crlf # {} THEN Smallest(crlf) ELSE IF lf # {} THEN Smallest(lf) ELSE 0

-----------------------------------------------------------------------------
(* TcpData *)

\* entry(handle).or_default(), and the map with the session of h put in place.
Session(h) == IF h \in DOMAIN sessions THEN sessions[h] ELSE NewSession

With(h, session) ==
    [g \in DOMAIN sessions \cup {h} |-> IF g = h THEN session ELSE sessions[g]]

\* Is the buffer aligned with the stream, so that it starts with a request?
Aligned(s, buffer) == buffer[1] = 1 \/ buffer[1] - 1 \in {EndOf(s, k) : k \in 1..Len(s)}

\* parse_request_line, content_length and keep_alive read the lines from the
\* start of the buffer to the first empty one: those of the request it starts
\* with.  A buffer that starts inside a request may parse as anything.
Readings(s, buffer) ==
    IF Aligned(s, buffer) THEN {s[RequestAt(s, buffer[1])]}
    ELSE [keep : BOOLEAN, valid : BOOLEAN,
          body : {0} \cup {s[k].body : k \in 1..Len(s)}]

\* Seeded fault: the body is counted from the start, as if content_length included the header.
Needed_Short(s, buffer, read) == IF read.body = 0 THEN HeaderEnd(s, buffer) ELSE read.body

\* header_end + content_length.
Needed(s, buffer, read) == HeaderEnd(s, buffer) + read.body

\* What on_event returns for a buffer.
Verdict(s, buffer, read) ==
    CASE Len(buffer) > MaxRequest -> "tooLarge"
      [] Len(buffer) <= MaxRequest /\ HeaderEnd(s, buffer) = 0 -> "none"
      [] OTHER -> CASE ~read.valid -> "bad"
                    [] read.valid /\ Needed(s, buffer, read) > MaxRequest -> "tooLarge"
                    [] read.valid /\ Len(buffer) < Needed(s, buffer, read) -> "none"
                    [] OTHER -> "ready"

\* The request handed out is cut off the buffer; without keep-alive all of it is.
RestOf(s, buffer, read) ==
    IF read.keep THEN SubSeq(buffer, Needed(s, buffer, read) + 1, Len(buffer)) ELSE <<>>

\* Is what is cut off exactly request k?
Whole(s, buffer, read, k) ==
    /\ k <= Len(s)
    /\ Needed(s, buffer, read) = Length(s[k])
    /\ \A j \in 1..Needed(s, buffer, read) : buffer[j] = EndOf(s, k - 1) + j

HandOut(h, s, buffer, read) ==
    LET old   == handed[h]
        whole == Whole(s, buffer, read, old.count + 1)
    IN  [count  |-> IF whole /\ ~old.broken THEN old.count + 1 ELSE old.count,
         last   |-> old.last \/ ~read.keep,
         broken |-> old.broken \/ ~whole]

\* What the application owes for a request: an answer, and the end after it?
Owed(keep) == IF keep THEN "keepAlive" ELSE "close"

\* A ghost: an event of a connection is handled while the application owes it
\* an answer, so the answer is marked late.
Overtake(h) == unruly' = IF todo[h] # <<>> THEN unruly \cup {h} ELSE unruly

\* What the stack has received next, and a polite client sends: nothing of the
\* next request before the answer to this one.
Sendable(h) ==
    LET socket == net[h]
    IN  IF socket.polite
        THEN IF socket.answered < Len(socket.stream)
             THEN EndOf(socket.stream, socket.answered + 1)
             ELSE Total(socket.stream)
        ELSE Total(socket.stream)

TcpData(h) ==
    /\ net[h].state = "open"
    /\ \E upto \in (net[h].delivered + 1)..Sendable(h) :
          LET s      == net[h].stream
              old    == Session(h)
              chunk  == [j \in 1..(upto - net[h].delivered) |-> net[h].delivered + j]
              buffer == old.req \o chunk
          IN  /\ net' = [net EXCEPT ![h].delivered = upto]
              /\ \E read \in Readings(s, buffer) :
                    LET verdict == IF old.pending # 0 THEN "none" ELSE Verdict(s, buffer, read)
                    IN  IF verdict = "ready"
                        THEN /\ sessions' = With(h, [old EXCEPT !.req = RestOf(s, buffer, read)])
                             /\ todo' = [todo EXCEPT ![h] = Append(@, Owed(read.keep))]
                             /\ handed' = [handed EXCEPT ![h] = HandOut(h, s, buffer, read)]
                        ELSE /\ sessions' = With(h, [old EXCEPT !.req = buffer])
                             /\ todo' = IF verdict = "none" THEN todo
                                        ELSE [todo EXCEPT ![h] = Append(@, "close")]
                             /\ UNCHANGED handed
    /\ Overtake(h)
    /\ UNCHANGED <<listener, asked, stale>>

-----------------------------------------------------------------------------
(* The application: its answer is queued and marked *)

\* mark_response
MarkedSession(session, owed) ==
    [session EXCEPT !.pending = Answer, !.sent = 0, !.pendingClose = (owed = "close")]

\* An answer to a connection that is gone is queued for nobody, and
\* mark_response makes a session for it.
Respond(h) ==
    /\ todo[h] # <<>>
    /\ sessions' = With(h, MarkedSession(Session(h), Head(todo[h])))
    /\ net' = IF net[h].state = "open" /\ ~net[h].closing
              THEN [net EXCEPT ![h].unsent = @ + Answer] ELSE net
    /\ todo' = [todo EXCEPT ![h] = Tail(@)]
    /\ stale' = IF net[h].state = "open" THEN stale ELSE stale \cup {h}
    /\ UNCHANGED <<listener, asked, handed, unruly>>

-----------------------------------------------------------------------------
(* TcpSent, TcpEstablished, Closed, Opened *)

\* Seeded fault: the connection is closed at the first report of its last answer.
AllSent_AtFirst(session, len) == session.pendingClose \/ session.sent + len >= session.pending

AllSent(session, len) == session.sent + len >= session.pending

TcpSent(h) ==
    /\ net[h].state = "open"
    /\ \E len \in 1..net[h].unsent :
          LET old    == Session(h)
              counts == h \in DOMAIN sessions /\ old.pending # 0
              done   == counts /\ AllSent(old, len)
              close  == done /\ (old.pendingClose \/ Len(old.req) > MaxRequest)
              next   ==
                 IF done
                 THEN [old EXCEPT !.pending = 0, !.sent = 0, !.pendingClose = FALSE,
                         !.req = IF close /\ ~old.pendingClose THEN <<>> ELSE old.req]
                 ELSE [old EXCEPT !.sent = @ + len]
          IN  /\ sessions' = IF counts THEN With(h, next) ELSE sessions
              /\ net' = [net EXCEPT ![h].unsent = @ - len,
                            ![h].answered = IF done THEN @ + 1 ELSE @,
                            ![h].closing = @ \/ close]
    /\ Overtake(h)
    /\ UNCHANGED <<listener, asked, todo, handed, stale>>

\* A listening socket becomes the connection, or stays and a new one does.
TcpEstablished(h) ==
    /\ net[h].state # "open"
    /\ \E l \in Handle : net[l].state = "listening"
    /\ Len(todo[h]) <= Late
    /\ \E s \in Streams, polite \in BOOLEAN :
          net' = [net EXCEPT ![h] = Socket("open", s, polite)]
    /\ sessions' = With(h, Session(h))
    /\ handed' = [handed EXCEPT ![h] = Fresh]
    /\ UNCHANGED <<listener, asked, todo, unruly, stale>>

\* Seeded fault: the session outlives its connection.
SessionsAfterClose_Kept(h) == sessions

SessionsAfterClose(h) == [g \in DOMAIN sessions \ {h} |-> sessions[g]]

\* The client or the stack ends a connection or the listener, after Close or not.
Closed(h) ==
    /\ net[h].state # "free"
    /\ net' = [net EXCEPT ![h] = FreeSocket]
    /\ sessions' = SessionsAfterClose(h)
    /\ handed' = [handed EXCEPT ![h] = Fresh]
    /\ IF listener = h THEN listener' = None /\ asked' = TRUE
                       ELSE UNCHANGED <<listener, asked>>
    /\ unruly' = IF todo[h] # <<>> THEN unruly \cup {h} ELSE unruly \ {h}
    /\ stale' = stale \ {h}
    /\ UNCHANGED todo

\* Events of other sockets and errors change nothing.
Opened(h) ==
    /\ asked
    /\ net[h].state = "free"
    /\ net' = [net EXCEPT ![h] = Socket("listening", <<>>, TRUE)]
    /\ listener' = h
    /\ asked' = FALSE
    /\ UNCHANGED <<sessions, todo, handed, unruly, stale>>

-----------------------------------------------------------------------------
Init ==
    /\ listener = None
    /\ asked = TRUE
    /\ sessions = <<>>
    /\ net = [h \in Handle |-> FreeSocket]
    /\ todo = [h \in Handle |-> <<>>]
    /\ handed = [h \in Handle |-> Fresh]
    /\ unruly = {}
    /\ stale = {}

Next ==
    \E h \in Handle :
        \/ Opened(h)
        \/ TcpEstablished(h)
        \/ TcpData(h)
        \/ TcpSent(h)
        \/ Respond(h)
        \/ Closed(h)

Spec == Init /\ [][Next]_vars

\* The stack reports what it sends and delivers what arrives, a Close is carried
\* out, and the application answers.
Fairness ==
    \A h \in Handle :
        /\ WF_vars(TcpSent(h))
        /\ WF_vars(TcpData(h))
        /\ WF_vars(Respond(h))
        /\ WF_vars(net[h].closing /\ Closed(h))

FairSpec == Spec /\ Fairness

-----------------------------------------------------------------------------
(* What must hold *)

\* What is handed out on a connection are the requests of its stream, whole,
\* each once and in their order, however they are cut into chunks or pipelined.
\* This ends with a request that ends the connection and with the Close, after
\* which bytes may be handed out as a request that nobody sent; and with a
\* request whose header ends in LF LF while a CR LF CR LF behind it has arrived,
\* be it in its own body or in the next request (vhttp_srv.rs:270).
Misread(h) ==
    LET s    == net[h].stream
        next == handed[h].count + 1
    IN  /\ next <= Len(s) /\ ~s[next].crlf
        /\ \E u \in CrlfEnds(s) : EndOf(s, next - 1) < u /\ u <= net[h].delivered

ServedInOrder ==
    \A h \in Handle : handed[h].broken => handed[h].last \/ net[h].closing \/ Misread(h)

\* A connection is closed by the server only when the answer that asked for it
\* has been sent to its last byte, unless answers overtook each other.
CloseIsComplete ==
    \A h \in Handle : net[h].closing => net[h].unsent = 0 \/ h \in unruly

\* A session waits only for bytes that the stack still has to send: whatever was
\* sent of other answers, reported late or left over by an earlier connection of
\* the handle, the reports to come are enough.  Otherwise TcpData would return
\* None for ever.  The exception is one case, the answer marked between Closed
\* and the next connection (vhttp_srv.rs:215), until that connection ends.
AnswersAreUnderWay ==
    \A h \in DOMAIN sessions :
        net[h].state = "open" /\ ~net[h].closing /\ sessions[h].pending # 0
           => sessions[h].pending - sessions[h].sent <= net[h].unsent \/ h \in stale

\* A client that awaits each answer before it sends more gets its answer, or the
\* connection ends.  Two clients the code leaves waiting for ever are named: one
\* whose handle has the session of an answer to nobody, and one whose request
\* has a header that ends in LF LF and a body with a CR LF CR LF.  (A client that
\* pipelines may wait for ever without either.)
Waiting(h) ==
    LET next == net[h].answered + 1
    IN  /\ net[h].state = "open" /\ net[h].polite
        /\ next <= Len(net[h].stream)
        /\ net[h].delivered = EndOf(net[h].stream, next)
        /\ h \notin stale
        /\ net[h].stream[next].crlf \/ net[h].stream[next].blanks = {}

PoliteIsServed == \A h \in Handle : Waiting(h) ~> ~Waiting(h)
=============================================================================
