------------------------------ MODULE NetStack ------------------------------
(***************************************************************************)
(* The userspace TCP stack (tsnode/src/netstack.rs) under the HTTP server  *)
(* (firmware/src/http.rs): the poll thread with the sockets, the thread    *)
(* that serves one connection after the other, and the streams and the     *)
(* wake flag between them.                                                 *)
(*                                                                         *)
(* smoltcp's sockets and the clients are external.  A connection is known  *)
(* by its socket handle; bytes are counted, since every buffer is a queue. *)
(* A lost or repeated segment is one that is sent again: data means the    *)
(* next byte.  Active opens, abort and shutdown, which the firmware never  *)
(* uses, are left out.                                                     *)
(***************************************************************************)
EXTENDS Integers, Sequences

CONSTANTS
  Clients,     \* each opens one connection
  Socks,       \* bound: handles of the socket set
  None,
  Request,     \* bytes after which read_head ends: the head is there, or
               \* MAX_HEAD is passed without its end (431)
  Sends,       \* bound: bytes a client sends, of the head and after it
  Response,    \* bytes of the answer, whichever it is
  RxBuf, TxBuf,        \* RX_BUF, TX_BUF
  RxLimit, TxLimit,    \* USER_RX_LIMIT, USER_TX_LIMIT
  Inbound,     \* limit of inbound (256)
  MaxResets    \* bound: segments with RST

ASSUME NetStackAssumption ==
  /\ None \notin Clients \cup Socks
  /\ Sends \in Nat /\ Request <= Sends
  /\ {Request, Response, RxBuf, TxBuf, RxLimit, TxLimit, Inbound} \subseteq Nat \ {0}
  /\ MaxResets \in Nat

VARIABLES
  \* Shared with the poll thread under the state mutex.
  inbound, wake,
  \* The poll thread: its place, the packets taken, the entries of conns,
  \* those still to be served in this round, the handle of the listener.
  poll, device, conns, todo, lsock,
  \* The sockets, and the ConnState of each connection, under its mutex.
  sock, con,
  \* The listener's queue; the serving thread and its connection.
  queue, app, cur,
  \* The clients: those that connected, those that vanished.
  met, gone,
  \* What happened to a connection: bytes the client sent and received, the
  \* server read and wrote; it was reset; its handshake was reset.
  log, resets

shared == <<inbound, wake>>
server == <<queue, app, cur>>
clients == <<met, gone>>
vars == <<shared, poll, device, conns, todo, lsock, sock, con, server, clients, log, resets>>

Segments == [from : Clients, kind : {"syn", "data", "fin", "ack", "rst"}]

Min(a, b) == IF a < b THEN a ELSE b

TypeOK ==
  /\ inbound \in Seq(Segments) /\ device \in Seq(Segments)
  /\ Len(inbound) <= Inbound /\ Len(device) <= Inbound
  /\ wake \in BOOLEAN
  /\ poll \in {"top", "iface", "conns", "sleep"}
  /\ conns \subseteq Socks /\ todo \subseteq conns /\ lsock \in Socks \ conns
  /\ sock \in [Socks -> [st : {"free", "listen", "syn", "estab", "closewait",
                               "finwait", "closing", "closed"},
                         who : Clients \cup {None}, rx : 0..RxBuf, tx : 0..TxBuf]]
  /\ con \in [Socks -> [rx : 0..RxLimit, tx : 0..TxLimit, peer_closed : BOOLEAN,
                        local_closed : BOOLEAN, dead : BOOLEAN]]
  /\ queue \in Seq(Socks) /\ cur \in Socks \cup {None}
  /\ app \in {"accept", "read", "r_wait", "r_wake", "write", "w_wait", "w_wake",
              "close", "c_wake"}
  /\ met \subseteq Clients /\ gone \subseteq met
  /\ log \in [Socks -> [sent : 0..Sends, got : 0..Sends, wrote : 0..Response,
                        rcvd : 0..Response, reset : BOOLEAN, relisted : BOOLEAN,
                        eof : BOOLEAN]]
  /\ resets \in 0..MaxResets

NewSocket == [st |-> "listen", who |-> None, rx |-> 0, tx |-> 0]

NewConn ==
  [rx |-> 0, tx |-> 0, peer_closed |-> FALSE, local_closed |-> FALSE, dead |-> FALSE]

NewLog ==
  [sent |-> 0, got |-> 0, wrote |-> 0, rcvd |-> 0, reset |-> FALSE,
   relisted |-> FALSE, eof |-> FALSE]

\* The listener of http::run is there.
Init ==
  /\ inbound = <<>> /\ wake = FALSE
  /\ poll = "top" /\ device = <<>> /\ conns = {} /\ todo = {}
  /\ lsock \in Socks
  /\ sock = [s \in Socks |-> IF s = lsock THEN NewSocket ELSE [NewSocket EXCEPT !.st = "free"]]
  /\ con = [s \in Socks |-> NewConn]
  /\ queue = <<>> /\ app = "accept" /\ cur = None
  /\ met = {} /\ gone = {}
  /\ log = [s \in Socks |-> NewLog] /\ resets = 0

\* The connection of client c.
Conn(c) == {s \in Socks : sock[s].who = c}

\* A handle nobody holds: neither the socket set nor a stream.
Free ==
  {s \in Socks : sock[s].st = "free" /\ s # cur /\ \A i \in DOMAIN queue : queue[i] # s}

-----------------------------------------------------------------------------
(***************************************************************************)
(* The clients (external), and inject.                                     *)
(***************************************************************************)

\* Mutant: a packet does not wake the poll thread.
InjectSilent(seg) ==
  /\ inbound' = IF Len(inbound) < Inbound THEN Append(inbound, seg) ELSE inbound
  /\ UNCHANGED wake

\* inject: beyond the limit a packet is dropped.
Inject(seg) ==
  /\ inbound' = IF Len(inbound) < Inbound THEN Append(inbound, seg) ELSE inbound
  /\ wake' = TRUE

Send(c, k) ==
  /\ c \notin gone
  /\ \A i \in DOMAIN inbound : inbound[i] # [from |-> c, kind |-> k]
  /\ Inject([from |-> c, kind |-> k])
  /\ UNCHANGED <<poll, device, conns, todo, lsock, sock, con, server, clients, log>>

\* It connects, again and again until a socket took it.
ClientSyn(c) == c \notin met /\ Send(c, "syn") /\ UNCHANGED resets

ClientData(c) ==
  /\ \E s \in Conn(c) : /\ log[s].sent < Sends
                        /\ sock[s].st \in {"syn", "estab", "finwait"}
  /\ Send(c, "data") /\ UNCHANGED resets

\* It is done, or gives up.
ClientFin(c) ==
  /\ \E s \in Conn(c) : sock[s].st \in {"syn", "estab", "finwait"}
  /\ Send(c, "fin") /\ UNCHANGED resets

ClientAck(c) ==
  /\ \E s \in Conn(c) : sock[s].tx > 0 \/ sock[s].st \in {"syn", "closing"}
  /\ Send(c, "ack") /\ UNCHANGED resets

ClientRst(c) ==
  /\ Conn(c) # {} /\ resets < MaxResets
  /\ resets' = resets + 1
  /\ Send(c, "rst")

\* It vanishes without a word.
ClientGone(c) ==
  /\ c \in met \ gone
  /\ gone' = gone \cup {c}
  /\ UNCHANGED <<shared, poll, device, conns, todo, lsock, sock, con, server, met, log, resets>>

-----------------------------------------------------------------------------
(***************************************************************************)
(* The poll thread.                                                        *)
(***************************************************************************)
PollTop ==
  /\ poll = "top" /\ poll' = "iface"
  /\ wake' = FALSE
  /\ device' = inbound /\ inbound' = <<>>
  /\ UNCHANGED <<conns, todo, lsock, sock, con, server, clients, log, resets>>

\* iface.poll (external): the packets are handled one by one.
Handle(k) ==
  /\ poll = "iface" /\ device # <<>> /\ Head(device).kind = k
  /\ device' = Tail(device)
  /\ UNCHANGED <<shared, poll, conns, todo, lsock, con, server, gone, resets>>

\* A SYN finds a listening socket, or is refused.
HandleSyn ==
  LET c == Head(device).from
      L == {s \in Socks : sock[s].st = "listen"} IN
  /\ Handle("syn")
  /\ IF L = {} \/ c \in met
     THEN UNCHANGED <<sock, met>>
     ELSE /\ \E s \in L : sock' = [sock EXCEPT ![s].st = "syn", ![s].who = c]
          /\ met' = met \cup {c}
  /\ UNCHANGED log

\* Any further segment of the client completes the handshake.
Opened(s) == IF sock[s].st = "syn" THEN "estab" ELSE sock[s].st

HandleData ==
  /\ Handle("data")
  /\ \E s \in Conn(Head(device).from) :
       IF /\ Opened(s) \in {"estab", "finwait"}
          /\ log[s].sent < Sends /\ sock[s].rx < RxBuf
       THEN /\ sock' = [sock EXCEPT ![s].st = Opened(s), ![s].rx = @ + 1]
            /\ log' = [log EXCEPT ![s].sent = @ + 1]
       ELSE UNCHANGED <<sock, log>>
  /\ UNCHANGED met

HandleFin ==
  /\ Handle("fin")
  /\ \E s \in Conn(Head(device).from) :
       sock' = [sock EXCEPT ![s].st = CASE Opened(s) = "estab" -> "closewait"
                                        [] Opened(s) = "finwait" -> "closing"
                                        [] OTHER -> @]
  /\ UNCHANGED <<met, log>>

HandleAck ==
  /\ Handle("ack")
  /\ \E s \in Conn(Head(device).from) :
       IF sock[s].tx > 0
       THEN /\ sock' = [sock EXCEPT ![s].tx = @ - 1]
            /\ log' = [log EXCEPT ![s].rcvd = @ + 1]
       ELSE /\ sock' = [sock EXCEPT ![s].st = IF @ = "closing" THEN "closed" ELSE Opened(s)]
            /\ UNCHANGED log
  /\ UNCHANGED met

\* RST puts a socket in the handshake back to LISTEN and closes any other.
HandleRst ==
  /\ Handle("rst")
  /\ \E s \in Conn(Head(device).from) :
       IF sock[s].st = "syn"
       THEN /\ sock' = [sock EXCEPT ![s].st = "listen", ![s].who = None]
            /\ log' = [log EXCEPT ![s].relisted = s \in conns]
       ELSE /\ sock' = [sock EXCEPT ![s].st = "closed"]
            /\ log' = [log EXCEPT ![s].reset = TRUE]
  /\ UNCHANGED met

\* The connection of the segment is gone.
HandleNone ==
  /\ \E k \in {"data", "fin", "ack", "rst"} : Handle(k)
  /\ Conn(Head(device).from) = {}
  /\ UNCHANGED <<sock, met, log>>

\* DEAD_PEER_TIMEOUT.
PeerTimeout(s) ==
  /\ poll = "iface" /\ sock[s].who \in gone /\ sock[s].st # "closed"
  /\ sock' = [sock EXCEPT ![s].st = "closed"]
  /\ log' = [log EXCEPT ![s].reset = TRUE]
  /\ UNCHANGED <<shared, poll, device, conns, todo, lsock, con, server, clients, resets>>

\* Then the listener: a listening socket that left LISTEN has a connection,
\* which goes to the queue, and a new socket takes its place; one that is
\* closed again by now just listens.
Listener ==
  /\ poll = "iface" /\ device = <<>> /\ poll' = "conns"
  /\ \/ /\ sock[lsock].st = "listen"
        /\ todo' = conns
        /\ UNCHANGED <<lsock, conns, sock, con, queue, log>>
     \/ /\ sock[lsock].st = "closed"
        /\ todo' = conns
        /\ sock' = [sock EXCEPT ![lsock] = NewSocket]
        /\ log' = [log EXCEPT ![lsock] = NewLog]
        /\ UNCHANGED <<lsock, conns, con, queue>>
     \/ /\ sock[lsock].st \notin {"listen", "closed"}
        /\ conns' = conns \cup {lsock} /\ todo' = conns'
        /\ queue' = Append(queue, lsock)
        /\ \E s \in Free :
             /\ lsock' = s
             /\ sock' = [sock EXCEPT ![s] = NewSocket]
             /\ con' = [con EXCEPT ![s] = NewConn]
             /\ log' = [log EXCEPT ![s] = NewLog]
  /\ UNCHANGED <<shared, device, app, cur, clients, resets>>

-----------------------------------------------------------------------------
\* How the poll thread serves a connection: it moves what fits from the
\* socket to rx and from tx to the socket, closes a closed and drained
\* stream, and looks at the state of the socket.
Received(s) == Min(sock[s].rx, RxLimit - con[s].rx)

Sent(s) ==
  IF sock[s].st \in {"estab", "closewait"} THEN Min(con[s].tx, TxBuf - sock[s].tx) ELSE 0

Closed(s) ==
  IF con[s].local_closed /\ con[s].tx = Sent(s)
  THEN CASE sock[s].st \in {"syn", "estab"} -> "finwait"
         [] sock[s].st = "closewait" -> "closing"
         [] sock[s].st = "listen" -> "closed"
         [] OTHER -> sock[s].st
  ELSE sock[s].st

\* Mutant: the end of the stream is noted with bytes still in the socket.
PeerClosedEarly(s) ==
  con[s].peer_closed \/ Closed(s) \notin {"syn", "estab", "finwait"}

PeerClosed(s) ==
  \/ con[s].peer_closed \/ Closed(s) = "closed"
  \/ Closed(s) \notin {"syn", "estab", "finwait"} /\ sock[s].rx = Received(s)

\* The waiters of the condition variable go on when anything changed.
Notified(s) ==
  app' = IF cur = s /\ (\/ Received(s) > 0 \/ Sent(s) > 0 \/ Closed(s) = "closed"
                        \/ PeerClosed(s) # con[s].peer_closed)
         THEN CASE app = "r_wait" -> "read" [] app = "w_wait" -> "write" [] OTHER -> app
         ELSE app

Serve(s) ==
  /\ poll = "conns" /\ s \in todo /\ UNCHANGED poll
  /\ todo' = todo \ {s}
  /\ con' = [con EXCEPT ![s] =
       [con[s] EXCEPT !.rx = @ + Received(s), !.tx = @ - Sent(s),
                      !.peer_closed = PeerClosed(s), !.dead = Closed(s) = "closed"]]
  /\ IF Closed(s) = "closed"
     THEN /\ sock' = [sock EXCEPT ![s] = [NewSocket EXCEPT !.st = "free"]]
          /\ conns' = conns \ {s}
     ELSE /\ sock' = [sock EXCEPT ![s] =
               [sock[s] EXCEPT !.st = Closed(s), !.rx = @ - Received(s), !.tx = @ + Sent(s)]]
          /\ UNCHANGED conns
  /\ Notified(s)
  /\ UNCHANGED <<shared, device, lsock, queue, cur, clients, log, resets>>

\* The packets go out; without a wake-up the thread waits ...
PollEnd ==
  /\ poll = "conns" /\ todo = {} /\ poll' = IF wake THEN "top" ELSE "sleep"
  /\ UNCHANGED <<shared, device, conns, todo, lsock, sock, con, server, clients, log, resets>>

\* ... until it is woken or the time is over.
PollWake(timer) ==
  /\ poll = "sleep" /\ (timer \/ wake) /\ poll' = "top"
  /\ UNCHANGED <<shared, device, conns, todo, lsock, sock, con, server, clients, log, resets>>

-----------------------------------------------------------------------------
(***************************************************************************)
(* http::run and serve.                                                    *)
(***************************************************************************)
AppOnly == UNCHANGED <<poll, device, conns, todo, lsock, sock, clients, resets>>

Accept ==
  /\ app = "accept" /\ queue # <<>>
  /\ cur' = Head(queue) /\ queue' = Tail(queue) /\ app' = "read"
  /\ UNCHANGED <<shared, con, log>> /\ AppOnly

\* was_full.
Full(s) == con[s].rx >= RxLimit

\* read_head: bytes are read, n of them at a time, until there are enough.
\* What comes after the head is read with its end or never ...
Read(n) ==
  /\ app = "read" /\ n \in 1..con[cur].rx
  /\ con' = [con EXCEPT ![cur].rx = @ - n]
  /\ log' = [log EXCEPT ![cur].got = @ + n]
  /\ app' = IF Full(cur) THEN "r_wake" ELSE IF log[cur].got + n >= Request THEN "write" ELSE "read"
  /\ UNCHANGED <<shared, queue, cur>> /\ AppOnly

ReadWake ==
  /\ app = "r_wake" /\ wake' = TRUE
  /\ app' = IF log[cur].got >= Request THEN "write" ELSE "read"
  /\ UNCHANGED <<inbound, con, queue, cur, log>> /\ AppOnly

\* ... or the client is gone, or nothing comes for HEAD_TIMEOUT (408).
ReadEmpty(expired) ==
  /\ app \in {"read", "r_wait"} /\ con[cur].rx = 0
  /\ IF con[cur].peer_closed \/ con[cur].dead
     THEN app' = "close" /\ log' = [log EXCEPT ![cur].eof = TRUE]
     ELSE /\ app' = IF expired THEN "write" ELSE "r_wait"
          /\ expired \/ app = "read"
          /\ UNCHANGED log
  /\ UNCHANGED <<shared, con, queue, cur>> /\ AppOnly

\* The answer to a head, good or bad; the text of a 408 always fits into tx.
Answer(s) == IF log[s].got >= Request THEN Response ELSE 1

\* Mutant: write_all ends after the first piece.
WriteOnce ==
  /\ app = "write"
  /\ \/ /\ con[cur].dead \/ con[cur].local_closed \/ log[cur].wrote > 0
        /\ app' = "close" /\ UNCHANGED <<con, log>>
     \/ /\ ~con[cur].dead /\ ~con[cur].local_closed /\ log[cur].wrote = 0
        /\ LET n == Min(TxLimit - con[cur].tx, Answer(cur)) IN
           /\ app' = IF n = 0 THEN "w_wait" ELSE "w_wake"
           /\ con' = [con EXCEPT ![cur].tx = @ + n]
           /\ log' = [log EXCEPT ![cur].wrote = n]
  /\ UNCHANGED <<shared, queue, cur>> /\ AppOnly

\* write_all.
Write ==
  /\ app = "write"
  /\ \/ /\ con[cur].dead \/ con[cur].local_closed \/ log[cur].wrote = Answer(cur)
        /\ app' = "close" /\ UNCHANGED <<con, log>>
     \/ /\ ~con[cur].dead /\ ~con[cur].local_closed /\ log[cur].wrote < Answer(cur)
        /\ LET n == Min(TxLimit - con[cur].tx, Answer(cur) - log[cur].wrote) IN
           /\ app' = IF n = 0 THEN "w_wait" ELSE "w_wake"
           /\ con' = [con EXCEPT ![cur].tx = @ + n]
           /\ log' = [log EXCEPT ![cur].wrote = @ + n]
  /\ UNCHANGED <<shared, queue, cur>> /\ AppOnly

WriteWake ==
  /\ app = "w_wake" /\ wake' = TRUE /\ app' = "write"
  /\ UNCHANGED <<inbound, con, queue, cur, log>> /\ AppOnly

\* The wait of 200 ms is over.
WriteTimer ==
  /\ app = "w_wait" /\ app' = "write"
  /\ UNCHANGED <<shared, con, queue, cur, log>> /\ AppOnly

\* Mutant: the stream is dropped without a close.
CloseSkipped ==
  /\ app = "close" /\ app' = "c_wake"
  /\ UNCHANGED <<shared, con, queue, cur, log>> /\ AppOnly

\* close, and the stream is dropped.
Close ==
  /\ app = "close" /\ app' = "c_wake"
  /\ con' = [con EXCEPT ![cur].local_closed = TRUE]
  /\ UNCHANGED <<shared, queue, cur, log>> /\ AppOnly

CloseWake ==
  /\ app = "c_wake" /\ wake' = TRUE
  /\ app' = "accept" /\ cur' = None
  /\ UNCHANGED <<inbound, con, queue, log>> /\ AppOnly

-----------------------------------------------------------------------------
Client(c) ==
  ClientSyn(c) \/ ClientData(c) \/ ClientFin(c) \/ ClientAck(c) \/ ClientRst(c) \/ ClientGone(c)

Poll ==
  \/ PollTop \/ HandleSyn \/ HandleData \/ HandleFin \/ HandleAck \/ HandleRst \/ HandleNone
  \/ Listener \/ (\E s \in Socks : Serve(s)) \/ PollEnd
  \/ \E timer \in BOOLEAN : PollWake(timer)

App ==
  \/ Accept \/ (\E n \in 1..Sends : Read(n)) \/ ReadWake
  \/ (\E expired \in BOOLEAN : ReadEmpty(expired))
  \/ Write \/ WriteWake \/ WriteTimer \/ Close \/ CloseWake

Next ==
  \/ \E c \in Clients : Client(c)
  \/ Poll \/ \E s \in Socks : PeerTimeout(s)
  \/ App

Spec == Init /\ [][Next]_vars

(***************************************************************************)
(* Fairness: both threads run.  A client that is there acknowledges what   *)
(* it gets, again if that is dropped; the stack times out the others.  No  *)
(* client has to send anything, or to close its side.                      *)
(***************************************************************************)
Fairness ==
  /\ WF_vars(Poll) /\ WF_vars(App)
  /\ \A c \in Clients : SF_vars(ClientAck(c))
  /\ \A s \in Socks : SF_vars(PeerTimeout(s))

FairSpec == Spec /\ Fairness

-----------------------------------------------------------------------------
(***************************************************************************)
(* Properties.                                                             *)
(***************************************************************************)

\* The poll thread has something to do for connection s.
Work(s) ==
  \/ Received(s) > 0 \/ Sent(s) > 0 \/ Closed(s) # sock[s].st
  \/ sock[s].st = "closed" \/ PeerClosed(s) # con[s].peer_closed

(***************************************************************************)
(* Nobody sleeps on work: the poll thread waits without a wake-up only if  *)
(* nothing came in and no connection can be moved on, or the thread that   *)
(* changed it is about to wake it; a reader waits only for bytes that are  *)
(* not there and a writer only for room (netstack.rs:284-291, 327, 341).   *)
(* The timed waits are not what drives the stack.                          *)
(***************************************************************************)
NobodySleepsOnWork ==
  /\ poll = "sleep" /\ ~wake /\ app \notin {"r_wake", "w_wake", "c_wake"} =>
       inbound = <<>> /\ \A s \in conns : ~Work(s)
  /\ app = "r_wait" => con[cur].rx = 0 /\ ~con[cur].peer_closed /\ ~con[cur].dead
  /\ app = "w_wait" => con[cur].tx = TxLimit /\ ~con[cur].dead

(***************************************************************************)
(* read returns 0 only at the end: everything the client sent was read,    *)
(* although rx, the socket and the close are passed on in three places.    *)
(* A reset may cut it off, also one in the handshake.                      *)
(***************************************************************************)
EofIsTheEnd ==
  \A s \in Socks : log[s].eof /\ ~log[s].reset /\ ~log[s].relisted => log[s].got = log[s].sent

(***************************************************************************)
(* close is graceful: the stack sends its FIN after the last byte that     *)
(* write_all took.                                                         *)
(***************************************************************************)
FinIsLast ==
  \A s \in Socks : sock[s].st \in {"finwait", "closing"} =>
    con[s].tx = 0 /\ log[s].wrote = log[s].rcvd + sock[s].tx

(***************************************************************************)
(* A stream ends after its last byte, in both directions (netstack.rs,     *)
(* poll_loop).                                                             *)
(***************************************************************************)
StreamInv == TypeOK /\ EofIsTheEnd /\ FinIsLast

\* FIN-WAIT-2: the client has all that was written, and its FIN is missing.
HalfOpen(s) == sock[s].st = "finwait" /\ sock[s].tx = 0 /\ sock[s].who \notin gone

(***************************************************************************)
(* Every connection comes to its end, and the server goes on to the next,  *)
(* whatever the client sends, more than a head and nothing at all          *)
(* included, if it takes what it is sent.  Two kinds of entry may stay:    *)
(* one of a client that never closes its own side, for which the stack has *)
(* no time limit while the client answers its keep-alives; and one of a    *)
(* handshake that is reset after its connection was queued, whose socket   *)
(* listens again.                                                          *)
(***************************************************************************)
ConnectionsEnd ==
  \A s \in Socks : (s \in conns) ~> (s \notin conns \/ log[s].relisted \/ HalfOpen(s))

(***************************************************************************)
(* A whole request of a client that stays is answered in full, unless the  *)
(* connection was reset.                                                   *)
(***************************************************************************)
WholeAnswer ==
  [][\A s \in conns \ conns' :
       log[s].got >= Request /\ ~log[s].reset => log[s].rcvd = Response]_vars

-----------------------------------------------------------------------------
(***************************************************************************)
(* What makes the invariants inductive.                                    *)
(***************************************************************************)

\* The socket set is the connections and the listener; a socket that has no
\* peer yet has carried nothing.
SocketHeld(s) ==
  /\ sock[s].st = "free" <=> s \notin conns \cup {lsock}
  /\ sock[s].st \in {"free", "listen"} => sock[s].who = None
  /\ sock[s].st \in {"listen", "syn"} => sock[s].rx = 0 /\ log[s].sent = 0
  /\ s \in conns /\ sock[s].st = "listen" => log[s].relisted

\* No byte is lost while there is a socket.
BytesKept(s) ==
  /\ log[s].got + con[s].rx + sock[s].rx <= log[s].sent
  /\ log[s].rcvd + sock[s].tx + con[s].tx <= log[s].wrote
  /\ sock[s].st # "free" =>
       /\ log[s].got + con[s].rx + sock[s].rx = log[s].sent
       /\ log[s].rcvd + sock[s].tx + con[s].tx = log[s].wrote

\* The FIN of the stack: the stream is closed and drained.
ClosesDrained(s) ==
  /\ sock[s].st \in {"finwait", "closing"} => con[s].local_closed /\ con[s].tx = 0
  /\ sock[s].st = "closed" /\ ~log[s].reset =>
       con[s].local_closed /\ con[s].tx = 0 /\ sock[s].tx = 0
  /\ con[s].dead => sock[s].st = "free" /\ con[s].peer_closed

\* The FIN of the client: nothing comes any more and all of it is in rx.
EndSeen(s) ==
  /\ log[s].eof => con[s].peer_closed
  /\ con[s].peer_closed /\ ~log[s].relisted =>
       /\ sock[s].st \in {"closewait", "closing", "closed", "free"} /\ sock[s].rx = 0
       /\ log[s].eof => con[s].rx = 0
       /\ ~log[s].reset /\ (log[s].eof \/ ~con[s].local_closed) =>
            log[s].got + con[s].rx = log[s].sent

\* A stream is closed without a whole answer only if there was no request.
AnswerKept(s) ==
  (con[s].local_closed \/ (cur = s /\ app = "close")) /\ ~con[s].dead =>
    log[s].got < Request \/ log[s].wrote = Response

SockInv(s) ==
  SocketHeld(s) /\ BytesKept(s) /\ ClosesDrained(s) /\ EndSeen(s) /\ AnswerKept(s)

\* A stream is with the listener, in the queue, or with the server, which has
\* closed it once it goes for the next.
Fresh(s) ==
  ~con[s].local_closed /\ ~log[s].eof /\ log[s].got = 0 /\ log[s].wrote = 0

ListenerHeld ==
  con[lsock] = NewConn /\ Fresh(lsock) /\ ~log[lsock].relisted /\ lsock # cur

QueueHeld ==
  \A i \in 1..Len(queue) :
    /\ queue[i] # lsock /\ queue[i] # cur /\ Fresh(queue[i])
    /\ \A j \in 1..Len(queue) : queue[i] = queue[j] => i = j

ServerHeld ==
  /\ app = "accept" <=> cur = None
  /\ cur # None => (con[cur].local_closed <=> app = "c_wake")
  /\ app \in {"read", "r_wait"} => log[cur].got < Request

\* The poll thread has served the connections it is done with.
PollAwake ==
  /\ inbound # <<>> => wake
  /\ poll # "conns" => todo = {}
  /\ poll \in {"conns", "sleep"} /\ ~wake /\ app \notin {"r_wake", "w_wake", "c_wake"} =>
       \A s \in conns \ todo : ~Work(s)

ServerAwake ==
  /\ app = "r_wait" => con[cur].rx = 0 /\ ~con[cur].peer_closed /\ ~con[cur].dead
  /\ app = "w_wait" => con[cur].tx = TxLimit /\ ~con[cur].dead

NetInv ==
  /\ TypeOK /\ (\A s \in Socks : SockInv(s))
  /\ ListenerHeld /\ QueueHeld /\ ServerHeld /\ PollAwake /\ ServerAwake
=============================================================================
