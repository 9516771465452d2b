--------------------------- MODULE NetStackProofs ---------------------------
(***************************************************************************)
(* Proofs about NetStack, for any clients and sockets and any sizes of the *)
(* buffers, the request and the answer.                                    *)
(*                                                                         *)
(* Almost every step changes one socket with its stream, so the invariant  *)
(* is a conjunction of SockInv(s), which speaks of one of them, and of     *)
(* what the two threads hold.  An action is proved in three parts: the     *)
(* fields it leaves in its socket, SockInv of that one (the others keep    *)
(* theirs by SockKept), and the threads.                                   *)
(***************************************************************************)
EXTENDS NetStack, SequenceTheorems, TLAPS

USE NetStackAssumption DEF NetStackAssumption

Sockets ==
  [st : {"free", "listen", "syn", "estab", "closewait", "finwait", "closing", "closed"},
   who : Clients \cup {None}, rx : 0..RxBuf, tx : 0..TxBuf]

Streams ==
  [rx : 0..RxLimit, tx : 0..TxLimit, peer_closed : BOOLEAN, local_closed : BOOLEAN,
   dead : BOOLEAN]

Logs ==
  [sent : 0..Sends, got : 0..Sends, wrote : 0..Response, rcvd : 0..Response,
   reset : BOOLEAN, relisted : BOOLEAN, eof : BOOLEAN]

\* The sizes are natural numbers above 0.
LEMMA Sizes ==
  /\ Request \in Nat /\ Response \in Nat /\ RxBuf \in Nat /\ TxBuf \in Nat
  /\ RxLimit \in Nat /\ TxLimit \in Nat /\ Inbound \in Nat
  /\ Sends \in Nat /\ Request <= Sends
  /\ Request > 0 /\ Response > 0 /\ RxBuf > 0 /\ TxBuf > 0
  /\ RxLimit > 0 /\ TxLimit > 0 /\ Inbound > 0
OBVIOUS

\* The fields of a socket, its stream and its log.
LEMMA Fields ==
  ASSUME NEW s \in Socks, TypeOK
  PROVE  /\ sock[s] \in Sockets /\ con[s] \in Streams /\ log[s] \in Logs
         /\ sock[s].st \in {"free", "listen", "syn", "estab", "closewait", "finwait",
                            "closing", "closed"}
         /\ sock[s].who \in Clients \cup {None}
         /\ sock[s].rx \in 0..RxBuf /\ sock[s].tx \in 0..TxBuf
         /\ con[s].rx \in 0..RxLimit /\ con[s].tx \in 0..TxLimit
         /\ con[s].peer_closed \in BOOLEAN /\ con[s].local_closed \in BOOLEAN
         /\ con[s].dead \in BOOLEAN
         /\ log[s].sent \in 0..Sends /\ log[s].got \in 0..Sends
         /\ log[s].wrote \in 0..Response /\ log[s].rcvd \in 0..Response
         /\ log[s].reset \in BOOLEAN /\ log[s].relisted \in BOOLEAN
         /\ log[s].eof \in BOOLEAN
BY DEF TypeOK, Sockets, Streams, Logs

\* A socket keeps its invariant as long as it, its stream, its log and its
\* place are left alone and the server does not come to close it.
LEMMA SockKept ==
  ASSUME NEW r \in Socks, SockInv(r),
         sock'[r] = sock[r], con'[r] = con[r], log'[r] = log[r],
         r \in conns' <=> r \in conns, r = lsock' <=> r = lsock,
         cur' = r /\ app' = "close" => cur = r /\ app = "close"
  PROVE  SockInv(r)'
<1>1. SocketHeld(r)'
  BY DEF SockInv, SocketHeld
<1>2. BytesKept(r)'
  BY DEF SockInv, BytesKept
<1>3. ClosesDrained(r)'
  BY DEF SockInv, ClosesDrained
<1>4. EndSeen(r)'
  BY DEF SockInv, EndSeen
<1>5. AnswerKept(r)'
  BY DEF SockInv, AnswerKept
<1> QED
  BY <1>1, <1>2, <1>3, <1>4, <1>5 DEF SockInv
\* The poll thread between two rounds, with the streams left alone: the
\* threads keep what they hold.
LEMMA ThreadsKept ==
  ASSUME NetInv, UNCHANGED <<lsock, con, server>>,
         \A r \in Socks : /\ log'[r].eof = log[r].eof /\ log'[r].got = log[r].got
                          /\ log'[r].wrote = log[r].wrote,
         ~log'[lsock].relisted
  PROVE  ListenerHeld' /\ QueueHeld' /\ ServerHeld' /\ ServerAwake'
<1> USE DEF NetInv, server
<1>1. lsock \in Socks /\ queue \in Seq(Socks) /\ cur \in Socks \cup {None}
  BY DEF TypeOK
<1>2. ListenerHeld'
  BY <1>1 DEF ListenerHeld, Fresh
<1>3. QueueHeld'
  <2> SUFFICES ASSUME NEW i \in 1..Len(queue)
               PROVE  /\ queue[i] # lsock /\ queue[i] # cur /\ Fresh(queue[i])'
                      /\ \A j \in 1..Len(queue) : queue[i] = queue[j] => i = j
    BY DEF QueueHeld
  <2>1. queue[i] \in Socks
    BY <1>1
  <2> QED
    BY <2>1 DEF QueueHeld, Fresh
<1>4. ServerHeld'
  BY <1>1 DEF ServerHeld
<1>5. ServerAwake'
  BY DEF ServerAwake
<1> QED
  BY <1>2, <1>3, <1>4, <1>5

\* The sockets and the streams are left alone.
LEMMA AllKept ==
  ASSUME NetInv, UNCHANGED <<conns, lsock, sock, con, server, log>>
  PROVE  /\ ListenerHeld' /\ QueueHeld' /\ ServerHeld' /\ ServerAwake'
         /\ \A r \in Socks : SockInv(r)'
<1>1. \A r \in Socks : SockInv(r)'
  <2> SUFFICES ASSUME NEW r \in Socks
               PROVE  SockInv(r)'
    OBVIOUS
  <2> QED
    BY SockKept DEF NetInv, server
<1>2. ~log'[lsock].relisted
  BY DEF NetInv, ListenerHeld
<1> QED
  BY <1>1, <1>2, ThreadsKept

-----------------------------------------------------------------------------
(***************************************************************************)
(* The clients.                                                            *)
(***************************************************************************)
\* A segment of a client joins the inbound queue, if there is room.
LEMMA SendKeeps ==
  ASSUME NetInv, NEW c \in Clients, NEW k \in {"syn", "data", "fin", "ack", "rst"},
         Send(c, k), resets' \in 0..MaxResets
  PROVE  NetInv'
<1>1. UNCHANGED <<poll, device, conns, todo, lsock, sock, con, server, clients, log>>
  BY DEF Send
<1>2. [from |-> c, kind |-> k] \in Segments
  BY DEF Segments
<1>3. /\ inbound' \in Seq(Segments) /\ Len(inbound') <= Inbound
      /\ wake' = TRUE
  <2>1. inbound \in Seq(Segments) /\ Len(inbound) <= Inbound
    BY DEF NetInv, TypeOK
  <2>2. /\ inbound' = IF Len(inbound) < Inbound
                      THEN Append(inbound, [from |-> c, kind |-> k]) ELSE inbound
        /\ wake' = TRUE
    BY DEF Send, Inject
  <2>3. CASE Len(inbound) < Inbound
    <3> DEFINE seg == [from |-> c, kind |-> k]
    <3>1. inbound' = Append(inbound, seg)
      BY <2>2, <2>3
    <3>2. seg \in Segments
      BY <1>2
    <3> HIDE DEF seg
    <3>3. Append(inbound, seg) \in Seq(Segments) /\ Len(Append(inbound, seg)) = Len(inbound) + 1
      BY <2>1, <3>2, AppendProperties
    <3>4. Len(inbound) \in Nat
      BY <2>1
    <3> QED
      BY <2>2, <2>3, <3>1, <3>3, <3>4
  <2> QED
    BY <2>1, <2>2, <2>3
<1>4. TypeOK'
  BY <1>1, <1>3 DEF NetInv, TypeOK, server, clients
<1>5. PollAwake'
  BY <1>1, <1>3 DEF NetInv, PollAwake
<1> QED
  BY <1>1, <1>4, <1>5, AllKept DEF NetInv

\* A client sends, or vanishes.
LEMMA ClientKeeps ==
  ASSUME NetInv, NEW c \in Clients, Client(c)
  PROVE  NetInv'
<1>1. CASE ClientSyn(c) \/ ClientData(c) \/ ClientFin(c) \/ ClientAck(c)
  <2>1. PICK k \in {"syn", "data", "fin", "ack", "rst"} : Send(c, k) /\ UNCHANGED resets
    BY <1>1 DEF ClientSyn, ClientData, ClientFin, ClientAck
  <2>2. resets' \in 0..MaxResets
    BY <2>1 DEF NetInv, TypeOK
  <2> QED
    BY <2>1, <2>2, SendKeeps
<1>2. CASE ClientRst(c)
  <2>1. Send(c, "rst") /\ resets < MaxResets /\ resets' = resets + 1
    BY <1>2 DEF ClientRst
  <2>2. resets \in 0..MaxResets /\ MaxResets \in Nat
    BY DEF NetInv, TypeOK
  <2>3. resets < MaxResets /\ resets' = resets + 1
    BY <2>1
  <2>4. resets' \in 0..MaxResets
    BY <2>2, <2>3
  <2> QED
    BY <2>1, <2>4, SendKeeps
<1>3. CASE ClientGone(c)
  <2>1. /\ UNCHANGED <<shared, poll, device, conns, todo, lsock, sock, con, server, met,
                       log, resets>>
        /\ gone' = gone \cup {c} /\ c \in met
    BY <1>3 DEF ClientGone
  <2>2. TypeOK'
    BY <2>1 DEF NetInv, TypeOK, server, shared
  <2>3. PollAwake'
    BY <2>1 DEF NetInv, PollAwake, Work, Received, Sent, Closed, PeerClosed, shared, server
  <2> QED
    BY <2>1, <2>2, <2>3, AllKept DEF NetInv
<1> QED
  BY <1>1, <1>2, <1>3 DEF Client

-----------------------------------------------------------------------------
(***************************************************************************)
(* iface.poll.  A packet, or a timeout, changes one socket.                *)
(***************************************************************************)
OneSocket(s) ==
  /\ poll = "iface" /\ UNCHANGED <<shared, poll, conns, todo, lsock, con, server, resets>>
  /\ device' \in Seq(Segments) /\ Len(device') <= Inbound
  /\ met' \subseteq Clients /\ gone' \subseteq met'
  /\ sock' \in [Socks -> Sockets] /\ log' \in [Socks -> Logs]
  /\ \A r \in Socks \ {s} : sock'[r] = sock[r] /\ log'[r] = log[r]
  /\ log'[s].eof = log[s].eof /\ log'[s].got = log[s].got /\ log'[s].wrote = log[s].wrote
  /\ s = lsock => ~log'[s].relisted

\* The rest of the invariant is kept when that socket keeps its part.
LEMMA OneSocketKeeps ==
  ASSUME NetInv, NEW s \in Socks, OneSocket(s), SockInv(s)'
  PROVE  NetInv'
<1>1. TypeOK'
  BY DEF NetInv, TypeOK, OneSocket, Sockets, Logs, shared, server
<1>2. ASSUME NEW r \in Socks
      PROVE  SockInv(r)'
  <2>1. CASE r = s
    BY <2>1
  <2>2. CASE r # s
    BY <2>2, SockKept DEF NetInv, OneSocket, server
  <2> QED
    BY <2>1, <2>2
<1>3. ListenerHeld' /\ QueueHeld' /\ ServerHeld' /\ ServerAwake'
  <2>1. lsock \in Socks
    BY DEF NetInv, TypeOK
  <2>2. ~log'[lsock].relisted
    <3>1. CASE lsock = s
      BY <3>1 DEF OneSocket
    <3>2. CASE lsock # s
      BY <2>1, <3>2 DEF OneSocket, NetInv, ListenerHeld
    <3> QED
      BY <3>1, <3>2
  <2>3. \A r \in Socks : /\ log'[r].eof = log[r].eof /\ log'[r].got = log[r].got
                         /\ log'[r].wrote = log[r].wrote
    BY DEF OneSocket
  <2>4. UNCHANGED <<lsock, con, server>>
    BY DEF OneSocket
  <2> QED
    BY <2>2, <2>3, <2>4, ThreadsKept
<1>4. PollAwake'
  BY DEF NetInv, PollAwake, OneSocket, shared
<1> QED
  BY <1>1, <1>2, <1>3, <1>4 DEF NetInv

\* The packet is taken from the device.
LEMMA Handled ==
  ASSUME NetInv, NEW k, Handle(k)
  PROVE  /\ poll = "iface"
         /\ UNCHANGED <<shared, poll, conns, todo, lsock, con, server, gone, resets>>
         /\ device' \in Seq(Segments) /\ Len(device') <= Inbound
         /\ Head(device) \in Segments /\ Head(device).from \in Clients
<1>1. device \in Seq(Segments) /\ Len(device) <= Inbound /\ device # <<>>
  BY DEF Handle, NetInv, TypeOK
<1>2. Head(device) \in Segments /\ Tail(device) \in Seq(Segments)
      /\ Len(Tail(device)) = Len(device) - 1
  BY <1>1, HeadTailProperties
<1>3. Len(device) \in Nat
  BY <1>1
<1>4. Head(device).from \in Clients
  BY <1>2 DEF Segments
<1> QED
  BY <1>1, <1>2, <1>3, <1>4 DEF Handle

\* A socket with a client is in use: it is a connection or the listener.
LEMMA InUse ==
  ASSUME NetInv, NEW s \in Socks, sock[s].who \in Clients
  PROVE  /\ sock[s].st \notin {"free", "listen"}
         /\ s \in conns \/ s = lsock
         /\ SockInv(s)
BY DEF NetInv, SockInv, SocketHeld

\* A packet that no socket takes changes nothing else.
LEMMA IgnoredKeeps ==
  ASSUME NetInv, NEW k, Handle(k), UNCHANGED <<sock, met, log>>
  PROVE  NetInv'
<1>1. /\ poll = "iface"
      /\ UNCHANGED <<shared, poll, conns, todo, lsock, con, server, gone, resets>>
      /\ device' \in Seq(Segments) /\ Len(device') <= Inbound
  BY Handled
<1>2. TypeOK'
  BY <1>1 DEF NetInv, TypeOK, server, shared
<1>3. PollAwake'
  BY <1>1 DEF NetInv, PollAwake, shared
<1> QED
  BY <1>1, <1>2, <1>3, AllKept DEF NetInv

\* Only the listening sockets of the set can take a SYN.
LEMMA HandleSynKeeps ==
  ASSUME NetInv, HandleSyn
  PROVE  NetInv'
<1> DEFINE c == Head(device).from
           L == {s \in Socks : sock[s].st = "listen"}
<1>1. Handle("syn")
  BY DEF HandleSyn
<1>2. c \in Clients
  BY <1>1, Handled
<1>3. met \subseteq Clients /\ gone \subseteq met /\ TypeOK
  BY DEF NetInv, TypeOK
<1>4. CASE UNCHANGED <<sock, met, log>>
  BY <1>1, <1>4, IgnoredKeeps
<1>5. CASE \E s \in L : /\ sock' = [sock EXCEPT ![s].st = "syn", ![s].who = c]
                         /\ met' = met \cup {c} /\ UNCHANGED log
  <2>1. PICK s \in L : /\ sock' = [sock EXCEPT ![s].st = "syn", ![s].who = c]
                       /\ met' = met \cup {c} /\ UNCHANGED log
    BY <1>5
  <2>2. s \in Socks /\ sock[s].st = "listen"
    OBVIOUS
  <2> HIDE DEF L, c
  <2>3. /\ sock' \in [Socks -> Sockets] /\ log \in [Socks -> Logs]
        /\ \A r \in Socks \ {s} : sock'[r] = sock[r]
        /\ sock'[s].st = "syn" /\ sock'[s].who = c
        /\ sock'[s].rx = sock[s].rx /\ sock'[s].tx = sock[s].tx
    <3>1. sock \in [Socks -> Sockets] /\ log \in [Socks -> Logs]
      BY <1>3, Zenon DEF TypeOK, Sockets, Logs
    <3>2. PICK u : u = [sock[s] EXCEPT !.st = "syn", !.who = c]
      OBVIOUS
    <3>3. /\ u \in Sockets /\ u.st = "syn" /\ u.who = c
          /\ u.rx = sock[s].rx /\ u.tx = sock[s].tx
      BY <1>2, <2>2, <3>1, <3>2 DEF Sockets
    <3>4. sock' = [sock EXCEPT ![s] = u]
      BY <2>1, <2>2, <3>1, <3>2
    <3> QED
      BY <2>2, <3>1, <3>3, <3>4
  <2>4. s = lsock => ~log[s].relisted
    BY DEF NetInv, ListenerHeld
  <2>5. OneSocket(s)
    BY <1>1, <1>2, <1>3, <2>1, <2>2, <2>3, <2>4, Handled DEF OneSocket
  <2>6. SockInv(s)
    BY <2>2 DEF NetInv
  <2>7. UNCHANGED <<conns, lsock, con, app, cur>>
    BY <1>1, Handled DEF server
  <2>8. SockInv(s)'
    <3>1. SocketHeld(s)'
      BY <2>1, <2>2, <2>3, <2>6, <2>7 DEF SockInv, SocketHeld
    <3>2. BytesKept(s)'
      BY <2>1, <2>2, <2>3, <2>6, <2>7 DEF SockInv, BytesKept
    <3>3. ClosesDrained(s)'
      BY <2>1, <2>2, <2>3, <2>6, <2>7 DEF SockInv, ClosesDrained
    <3>4. EndSeen(s)'
      BY <2>1, <2>2, <2>3, <2>6, <2>7 DEF SockInv, EndSeen
    <3>5. AnswerKept(s)'
      BY <2>1, <2>2, <2>3, <2>6, <2>7 DEF SockInv, AnswerKept
    <3> QED
      BY <3>1, <3>2, <3>3, <3>4, <3>5 DEF SockInv
  <2> QED
    BY <2>2, <2>5, <2>8, OneSocketKeeps
<1>6. CASE L = {} \/ c \in met
  BY <1>4, <1>6 DEF HandleSyn
<1>7. CASE ~(L = {} \/ c \in met)
  BY <1>5, <1>7, Zenon DEF HandleSyn
<1> QED
  BY <1>6, <1>7

\* Data goes into the receive buffer, unless it is full or the client is done.
LEMMA HandleDataKeeps ==
  ASSUME NetInv, HandleData
  PROVE  NetInv'
<1> DEFINE c == Head(device).from
<1>1. Handle("data")
  BY DEF HandleData
<1>2. /\ poll = "iface" /\ c \in Clients
      /\ UNCHANGED <<shared, poll, conns, todo, lsock, con, server, gone, resets>>
      /\ device' \in Seq(Segments) /\ Len(device') <= Inbound
  BY <1>1, Handled
<1>3. TypeOK /\ met' = met /\ met \subseteq Clients /\ gone \subseteq met
  BY DEF NetInv, TypeOK, HandleData
<1>4. PICK s \in Conn(c) :
       IF /\ Opened(s) \in {"estab", "finwait"}
          /\ log[s].sent < Sends /\ sock[s].rx < RxBuf
       THEN /\ sock' = [sock EXCEPT ![s].st = Opened(s), ![s].rx = @ + 1]
            /\ log' = [log EXCEPT ![s].sent = @ + 1]
       ELSE UNCHANGED <<sock, log>>
  BY Zenon DEF HandleData
<1> HIDE DEF c
<1>5. s \in Socks /\ sock[s].who \in Clients
  BY <1>2 DEF Conn
<1>6. /\ SockInv(s) /\ sock[s].st \notin {"free", "listen"}
      /\ s \in conns \/ s = lsock
  BY <1>5, InUse
<1>7. CASE UNCHANGED <<sock, log>>
  BY <1>1, <1>3, <1>7, IgnoredKeeps
<1>8. CASE /\ Opened(s) \in {"estab", "finwait"} /\ log[s].sent < Sends /\ sock[s].rx < RxBuf
           /\ sock' = [sock EXCEPT ![s].st = Opened(s), ![s].rx = @ + 1]
           /\ log' = [log EXCEPT ![s].sent = @ + 1]
  <2>1. /\ sock' \in [Socks -> Sockets] /\ log' \in [Socks -> Logs]
    <3>1. /\ sock[s].rx + 1 \in 0..RxBuf /\ log[s].sent + 1 \in 0..Sends
          /\ Opened(s) \in {"estab", "finwait"}
      BY <1>3, <1>5, <1>8, Fields, Sizes
    <3>2. sock \in [Socks -> Sockets] /\ log \in [Socks -> Logs]
      BY <1>3 DEF TypeOK, Sockets, Logs
    <3>3. sock' \in [Socks -> Sockets]
      BY <1>5, <1>8, <3>1, <3>2 DEF Sockets
    <3>4. log' \in [Socks -> Logs]
      BY <1>5, <1>8, <3>1, <3>2 DEF Logs
    <3> QED
      BY <3>3, <3>4
  <2>2. /\ \A r \in Socks \ {s} : sock'[r] = sock[r] /\ log'[r] = log[r]
        /\ sock'[s].st = Opened(s) /\ sock'[s].who = sock[s].who
        /\ sock'[s].rx = sock[s].rx + 1 /\ sock'[s].tx = sock[s].tx
        /\ log'[s] = [log[s] EXCEPT !.sent = @ + 1]
    BY <1>3, <1>5, <1>8, Fields DEF TypeOK
  <2>3. /\ log'[s].sent = log[s].sent + 1
        /\ log'[s].got = log[s].got /\ log'[s].wrote = log[s].wrote
        /\ log'[s].rcvd = log[s].rcvd /\ log'[s].reset = log[s].reset
        /\ log'[s].relisted = log[s].relisted /\ log'[s].eof = log[s].eof
    BY <1>3, <1>5, <2>2, Fields DEF Logs
  <2>4. s = lsock => ~log'[s].relisted
    BY <2>3 DEF NetInv, ListenerHeld
  <2>5. OneSocket(s)
    BY <1>2, <1>3, <2>1, <2>2, <2>3, <2>4 DEF OneSocket
  <2>6. UNCHANGED <<conns, lsock, con, app, cur>>
    BY <1>2 DEF server
  <2>7. sock[s].st \in {"syn", "estab", "finwait"} /\ Opened(s) \in {"estab", "finwait"}
        /\ (Opened(s) = "finwait" => sock[s].st = "finwait")
    BY <1>8 DEF Opened
  <2>8. SockInv(s)'
    <3>1. SocketHeld(s)'
      BY <1>3, <1>5, <1>6, <2>2, <2>3, <2>6, <2>7, Fields DEF SockInv, SocketHeld
    <3>2. BytesKept(s)'
      BY <1>3, <1>5, <1>6, <2>2, <2>3, <2>6, <2>7, Fields DEF SockInv, BytesKept
    <3>3. ClosesDrained(s)'
      BY <1>3, <1>5, <1>6, <2>2, <2>3, <2>6, <2>7, Fields DEF SockInv, ClosesDrained
    <3>4. EndSeen(s)'
      BY <1>3, <1>5, <1>6, <2>2, <2>3, <2>6, <2>7, Fields DEF SockInv, EndSeen
    <3>5. AnswerKept(s)'
      BY <1>3, <1>5, <1>6, <2>2, <2>3, <2>6, <2>7, Fields DEF SockInv, AnswerKept
    <3> QED
      BY <3>1, <3>2, <3>3, <3>4, <3>5 DEF SockInv
  <2> QED
    BY <1>5, <2>5, <2>8, OneSocketKeeps
<1> QED
  BY <1>4, <1>7, <1>8

\* The FIN of the client leaves the buffers alone.
LEMMA HandleFinKeeps ==
  ASSUME NetInv, HandleFin
  PROVE  NetInv'
<1> DEFINE c == Head(device).from
<1>1. Handle("fin")
  BY DEF HandleFin
<1>2. /\ poll = "iface" /\ c \in Clients
      /\ UNCHANGED <<shared, poll, conns, todo, lsock, con, server, gone, resets>>
      /\ device' \in Seq(Segments) /\ Len(device') <= Inbound
  BY <1>1, Handled
<1>3. TypeOK /\ met' = met /\ met \subseteq Clients /\ gone \subseteq met
  BY DEF NetInv, TypeOK, HandleFin
<1>4. PICK s \in Conn(c) :
       sock' = [sock EXCEPT ![s].st = CASE Opened(s) = "estab" -> "closewait"
                                        [] Opened(s) = "finwait" -> "closing"
                                        [] OTHER -> @]
  BY Zenon DEF HandleFin
<1> HIDE DEF c
<1>5. s \in Socks /\ sock[s].who \in Clients
  BY <1>2 DEF Conn
<1>6. /\ SockInv(s) /\ sock[s].st \notin {"free", "listen"}
      /\ s \in conns \/ s = lsock
  BY <1>5, InUse
<1>7. sock \in [Socks -> Sockets] /\ log \in [Socks -> Logs]
  BY <1>3 DEF TypeOK, Sockets, Logs
<1>8. UNCHANGED <<conns, lsock, con, app, cur>>
  BY <1>2 DEF server
<1>9. PICK st : st = CASE Opened(s) = "estab" -> "closewait"
                         [] Opened(s) = "finwait" -> "closing"
                         [] OTHER -> sock[s].st
  OBVIOUS
<1>10. sock' = [sock EXCEPT ![s].st = st] /\ log' = log
  BY <1>4, <1>9 DEF HandleFin
<1>11. \/ sock[s].st \in {"syn", "estab"} /\ st = "closewait"
       \/ sock[s].st = "finwait" /\ st = "closing"
       \/ st = sock[s].st
  BY <1>9 DEF Opened
<1>12. sock' \in [Socks -> Sockets]
  <2>1. st \in {"free", "listen", "syn", "estab", "closewait", "finwait", "closing", "closed"}
    BY <1>3, <1>5, <1>11, Fields
  <2> QED
    BY <1>7, <1>10, <2>1 DEF Sockets
<1>13. /\ \A r \in Socks \ {s} : sock'[r] = sock[r]
       /\ sock'[s].st = st /\ sock'[s].who = sock[s].who
       /\ sock'[s].rx = sock[s].rx /\ sock'[s].tx = sock[s].tx
  BY <1>5, <1>7, <1>10 DEF Sockets
<1>14. s = lsock => ~log'[s].relisted
  BY <1>10 DEF NetInv, ListenerHeld
<1>15. OneSocket(s)
  BY <1>2, <1>3, <1>7, <1>10, <1>12, <1>13, <1>14 DEF OneSocket
<1>16. SockInv(s)'
  <2>1. SocketHeld(s)'
    BY <1>3, <1>5, <1>6, <1>8, <1>10, <1>11, <1>13, Fields DEF SockInv, SocketHeld
  <2>2. BytesKept(s)'
    BY <1>3, <1>5, <1>6, <1>8, <1>10, <1>11, <1>13, Fields DEF SockInv, BytesKept
  <2>3. ClosesDrained(s)'
    BY <1>3, <1>5, <1>6, <1>8, <1>10, <1>11, <1>13, Fields DEF SockInv, ClosesDrained
  <2>4. EndSeen(s)'
    BY <1>3, <1>5, <1>6, <1>8, <1>10, <1>11, <1>13, Fields DEF SockInv, EndSeen
  <2>5. AnswerKept(s)'
    BY <1>3, <1>5, <1>6, <1>8, <1>10, <1>11, <1>13, Fields DEF SockInv, AnswerKept
  <2> QED
    BY <2>1, <2>2, <2>3, <2>4, <2>5 DEF SockInv
<1> QED
  BY <1>5, <1>15, <1>16, OneSocketKeeps

\* An ACK takes a byte off the send buffer, or moves the state on.
LEMMA HandleAckKeeps ==
  ASSUME NetInv, HandleAck
  PROVE  NetInv'
<1> DEFINE c == Head(device).from
<1>1. Handle("ack")
  BY DEF HandleAck
<1>2. /\ poll = "iface" /\ c \in Clients
      /\ UNCHANGED <<shared, poll, conns, todo, lsock, con, server, gone, resets>>
      /\ device' \in Seq(Segments) /\ Len(device') <= Inbound
  BY <1>1, Handled
<1>3. TypeOK /\ met' = met /\ met \subseteq Clients /\ gone \subseteq met
  BY DEF NetInv, TypeOK, HandleAck
<1>4. PICK s \in Conn(c) :
       IF sock[s].tx > 0
       THEN /\ sock' = [sock EXCEPT ![s].tx = @ - 1]
            /\ log' = [log EXCEPT ![s].rcvd = @ + 1]
       ELSE /\ sock' = [sock EXCEPT ![s].st = IF @ = "closing" THEN "closed" ELSE Opened(s)]
            /\ UNCHANGED log
  BY Zenon DEF HandleAck
<1> HIDE DEF c
<1>5. s \in Socks /\ sock[s].who \in Clients
  BY <1>2 DEF Conn
<1>6. /\ SockInv(s) /\ sock[s].st \notin {"free", "listen"}
      /\ s \in conns \/ s = lsock
  BY <1>5, InUse
<1>7. sock \in [Socks -> Sockets] /\ log \in [Socks -> Logs]
  BY <1>3 DEF TypeOK, Sockets, Logs
<1>8. UNCHANGED <<conns, lsock, con, app, cur>>
  BY <1>2 DEF server
<1>9. CASE sock[s].tx > 0
  <2>1. /\ sock' = [sock EXCEPT ![s].tx = @ - 1]
        /\ log' = [log EXCEPT ![s].rcvd = @ + 1]
    BY <1>4, <1>9
  <2>2. sock[s].tx - 1 \in 0..TxBuf /\ log[s].rcvd + 1 \in 0..Response
    BY <1>3, <1>5, <1>6, <1>9, Fields, Sizes DEF SockInv, BytesKept
  <2>3. sock' \in [Socks -> Sockets]
    BY <1>5, <1>7, <2>1, <2>2 DEF Sockets
  <2>4. log' \in [Socks -> Logs]
    BY <1>5, <1>7, <2>1, <2>2 DEF Logs
  <2>5. /\ \A r \in Socks \ {s} : sock'[r] = sock[r] /\ log'[r] = log[r]
        /\ sock'[s].st = sock[s].st /\ sock'[s].who = sock[s].who
        /\ sock'[s].rx = sock[s].rx /\ sock'[s].tx = sock[s].tx - 1
    BY <1>5, <1>7, <2>1 DEF Sockets
  <2>6. /\ log'[s].sent = log[s].sent
        /\ log'[s].got = log[s].got /\ log'[s].wrote = log[s].wrote
        /\ log'[s].rcvd = log[s].rcvd + 1 /\ log'[s].reset = log[s].reset
        /\ log'[s].relisted = log[s].relisted /\ log'[s].eof = log[s].eof
    BY <1>5, <1>7, <2>1 DEF Logs
  <2>7. s = lsock => ~log'[s].relisted
    BY <2>6 DEF NetInv, ListenerHeld
  <2>8. OneSocket(s)
    BY <1>2, <1>3, <2>3, <2>4, <2>5, <2>6, <2>7 DEF OneSocket
  <2>9. SockInv(s)'
    <3>1. SocketHeld(s)'
      BY <1>3, <1>5, <1>6, <1>8, <1>9, <2>5, <2>6, Fields DEF SockInv, SocketHeld
    <3>2. BytesKept(s)'
      BY <1>3, <1>5, <1>6, <1>8, <1>9, <2>5, <2>6, Fields DEF SockInv, BytesKept
    <3>3. ClosesDrained(s)'
      BY <1>3, <1>5, <1>6, <1>8, <1>9, <2>5, <2>6, Fields DEF SockInv, ClosesDrained
    <3>4. EndSeen(s)'
      BY <1>3, <1>5, <1>6, <1>8, <1>9, <2>5, <2>6, Fields DEF SockInv, EndSeen
    <3>5. AnswerKept(s)'
      BY <1>3, <1>5, <1>6, <1>8, <1>9, <2>5, <2>6, Fields DEF SockInv, AnswerKept
    <3> QED
      BY <3>1, <3>2, <3>3, <3>4, <3>5 DEF SockInv
  <2> QED
    BY <1>5, <2>8, <2>9, OneSocketKeeps
<1>10. CASE ~(sock[s].tx > 0)
  <2>1. PICK st : st = IF sock[s].st = "closing" THEN "closed" ELSE Opened(s)
    OBVIOUS
  <2>2. sock' = [sock EXCEPT ![s].st = st] /\ log' = log
    BY <1>4, <1>10, <2>1
  <2>3. \/ sock[s].st = "closing" /\ st = "closed"
        \/ sock[s].st = "syn" /\ st = "estab"
        \/ st = sock[s].st
    BY <2>1 DEF Opened
  <2>4. sock' \in [Socks -> Sockets]
    <3>1. st \in {"free", "listen", "syn", "estab", "closewait", "finwait", "closing", "closed"}
      BY <1>3, <1>5, <2>3, Fields
    <3> QED
      BY <1>7, <2>2, <3>1 DEF Sockets
  <2>5. /\ \A r \in Socks \ {s} : sock'[r] = sock[r]
        /\ sock'[s].st = st /\ sock'[s].who = sock[s].who
        /\ sock'[s].rx = sock[s].rx /\ sock'[s].tx = sock[s].tx
    BY <1>5, <1>7, <2>2 DEF Sockets
  <2>6. s = lsock => ~log'[s].relisted
    BY <2>2 DEF NetInv, ListenerHeld
  <2>7. OneSocket(s)
    BY <1>2, <1>3, <1>7, <2>2, <2>4, <2>5, <2>6 DEF OneSocket
  <2>8. sock[s].tx = 0
    BY <1>3, <1>5, <1>10, Fields, Sizes
  <2>9. SockInv(s)'
    <3>1. SocketHeld(s)'
      BY <1>3, <1>5, <1>6, <1>8, <2>2, <2>3, <2>5, <2>8, Fields DEF SockInv, SocketHeld
    <3>2. BytesKept(s)'
      BY <1>3, <1>5, <1>6, <1>8, <2>2, <2>3, <2>5, <2>8, Fields DEF SockInv, BytesKept
    <3>3. ClosesDrained(s)'
      BY <1>3, <1>5, <1>6, <1>8, <2>2, <2>3, <2>5, <2>8, Fields DEF SockInv, ClosesDrained
    <3>4. EndSeen(s)'
      BY <1>3, <1>5, <1>6, <1>8, <2>2, <2>3, <2>5, <2>8, Fields DEF SockInv, EndSeen
    <3>5. AnswerKept(s)'
      BY <1>3, <1>5, <1>6, <1>8, <2>2, <2>3, <2>5, <2>8, Fields DEF SockInv, AnswerKept
    <3> QED
      BY <3>1, <3>2, <3>3, <3>4, <3>5 DEF SockInv
  <2> QED
    BY <1>5, <2>7, <2>9, OneSocketKeeps
<1> QED
  BY <1>9, <1>10

\* A reset or a timeout closes the socket of a connection, with whatever is
\* still in its buffers.
LEMMA ResetKeeps ==
  ASSUME NetInv, NEW s \in Socks, sock[s].who \in Clients,
         poll = "iface",
         UNCHANGED <<shared, poll, conns, todo, lsock, con, server, gone, met, resets>>,
         device' \in Seq(Segments), Len(device') <= Inbound,
         sock' = [sock EXCEPT ![s].st = "closed"],
         log' = [log EXCEPT ![s].reset = TRUE]
  PROVE  NetInv'
<1>1. TypeOK /\ met \subseteq Clients /\ gone \subseteq met
  BY DEF NetInv, TypeOK
<1>2. /\ SockInv(s) /\ sock[s].st \notin {"free", "listen"}
      /\ s \in conns \/ s = lsock
  BY InUse
<1>3. sock \in [Socks -> Sockets] /\ log \in [Socks -> Logs]
  BY <1>1 DEF TypeOK, Sockets, Logs
<1>4. sock' \in [Socks -> Sockets]
  BY <1>3 DEF Sockets
<1>5. log' \in [Socks -> Logs]
  BY <1>3 DEF Logs
<1>6. /\ \A r \in Socks \ {s} : sock'[r] = sock[r] /\ log'[r] = log[r]
      /\ sock'[s].st = "closed" /\ sock'[s].who = sock[s].who
      /\ sock'[s].rx = sock[s].rx /\ sock'[s].tx = sock[s].tx
  BY <1>3 DEF Sockets
<1>7. /\ log'[s].sent = log[s].sent
      /\ log'[s].got = log[s].got /\ log'[s].wrote = log[s].wrote
      /\ log'[s].rcvd = log[s].rcvd /\ log'[s].reset
      /\ log'[s].relisted = log[s].relisted /\ log'[s].eof = log[s].eof
  BY <1>3 DEF Logs
<1>8. s = lsock => ~log'[s].relisted
  BY <1>7 DEF NetInv, ListenerHeld
<1>9. OneSocket(s)
  BY <1>1, <1>4, <1>5, <1>6, <1>7, <1>8 DEF OneSocket
<1>10. UNCHANGED <<conns, lsock, con, app, cur>>
  BY DEF server
<1>11. SockInv(s)'
  <2>1. SocketHeld(s)'
    BY <1>1, <1>2, <1>6, <1>7, <1>10, Fields DEF SockInv, SocketHeld
  <2>2. BytesKept(s)'
    BY <1>1, <1>2, <1>6, <1>7, <1>10, Fields DEF SockInv, BytesKept
  <2>3. ClosesDrained(s)'
    BY <1>1, <1>2, <1>6, <1>7, <1>10, Fields DEF SockInv, ClosesDrained
  <2>4. EndSeen(s)'
    BY <1>1, <1>2, <1>6, <1>7, <1>10, Fields DEF SockInv, EndSeen
  <2>5. AnswerKept(s)'
    BY <1>1, <1>2, <1>6, <1>7, <1>10, Fields DEF SockInv, AnswerKept
  <2> QED
    BY <2>1, <2>2, <2>3, <2>4, <2>5 DEF SockInv
<1> QED
  BY <1>9, <1>11, OneSocketKeeps

\* A reset in the handshake: the socket listens again, and carried nothing.
LEMMA HandleRstKeeps ==
  ASSUME NetInv, HandleRst
  PROVE  NetInv'
<1> DEFINE c == Head(device).from
<1>1. Handle("rst")
  BY DEF HandleRst
<1>2. /\ poll = "iface" /\ c \in Clients
      /\ UNCHANGED <<shared, poll, conns, todo, lsock, con, server, gone, resets>>
      /\ device' \in Seq(Segments) /\ Len(device') <= Inbound
  BY <1>1, Handled
<1>3. TypeOK /\ met' = met /\ met \subseteq Clients /\ gone \subseteq met
  BY DEF NetInv, TypeOK, HandleRst
<1>4. PICK s \in Conn(c) :
       IF sock[s].st = "syn"
       THEN /\ sock' = [sock EXCEPT ![s].st = "listen", ![s].who = None]
            /\ log' = [log EXCEPT ![s].relisted = s \in conns]
       ELSE /\ sock' = [sock EXCEPT ![s].st = "closed"]
            /\ log' = [log EXCEPT ![s].reset = TRUE]
  BY Zenon DEF HandleRst
<1> HIDE DEF c
<1>5. s \in Socks /\ sock[s].who \in Clients
  BY <1>2 DEF Conn
<1>6. /\ SockInv(s) /\ sock[s].st \notin {"free", "listen"}
      /\ s \in conns \/ s = lsock
  BY <1>5, InUse
<1>7. sock \in [Socks -> Sockets] /\ log \in [Socks -> Logs]
  BY <1>3 DEF TypeOK, Sockets, Logs
<1>8. UNCHANGED <<conns, lsock, con, app, cur>>
  BY <1>2 DEF server
<1>9. CASE sock[s].st = "syn"
  <2>1. /\ sock' = [sock EXCEPT ![s].st = "listen", ![s].who = None]
        /\ log' = [log EXCEPT ![s].relisted = s \in conns]
    BY <1>4, <1>9
  <2>2. sock' \in [Socks -> Sockets]
    BY <1>5, <1>7, <2>1 DEF Sockets
  <2>3. log' \in [Socks -> Logs]
    <3>1. CASE s \in conns
      <4>1. log' = [log EXCEPT ![s].relisted = TRUE]
        BY <2>1, <3>1
      <4> QED
        BY <1>5, <1>7, <4>1 DEF Logs
    <3>2. CASE s \notin conns
      <4>1. (s \in conns) = FALSE
        BY <3>2
      <4>2. log' = [log EXCEPT ![s].relisted = FALSE]
        BY <2>1, <4>1, Zenon
      <4> QED
        BY <1>5, <1>7, <4>2 DEF Logs
    <3> QED
      BY <3>1, <3>2
  <2>4. /\ \A r \in Socks \ {s} : sock'[r] = sock[r] /\ log'[r] = log[r]
        /\ sock'[s].st = "listen" /\ sock'[s].who = None
        /\ sock'[s].rx = sock[s].rx /\ sock'[s].tx = sock[s].tx
    BY <1>5, <1>7, <2>1 DEF Sockets
  <2>5. /\ log'[s].sent = log[s].sent
        /\ log'[s].got = log[s].got /\ log'[s].wrote = log[s].wrote
        /\ log'[s].rcvd = log[s].rcvd /\ log'[s].reset = log[s].reset
        /\ log'[s].eof = log[s].eof /\ log'[s].relisted = (s \in conns)
    BY <1>5, <1>7, <2>1 DEF Logs
  <2>6. s \in conns => s # lsock
    BY <1>3 DEF TypeOK
  <2>7. s = lsock => ~log'[s].relisted
    BY <2>5, <2>6
  <2>8. OneSocket(s)
    BY <1>2, <1>3, <2>2, <2>3, <2>4, <2>5, <2>7 DEF OneSocket
  <2>9. s = lsock => ~con[s].peer_closed /\ ~log[s].eof
    BY DEF NetInv, ListenerHeld, NewConn, Fresh
  <2>10. SockInv(s)'
    <3>1. SocketHeld(s)'
      BY <1>3, <1>5, <1>6, <1>8, <1>9, <2>4, <2>5, <2>6, <2>9, Fields DEF SockInv, SocketHeld
    <3>2. BytesKept(s)'
      BY <1>3, <1>5, <1>6, <1>8, <1>9, <2>4, <2>5, <2>6, <2>9, Fields DEF SockInv, BytesKept
    <3>3. ClosesDrained(s)'
      BY <1>3, <1>5, <1>6, <1>8, <1>9, <2>4, <2>5, <2>6, <2>9, Fields DEF SockInv, ClosesDrained
    <3>4. EndSeen(s)'
      BY <1>3, <1>5, <1>6, <1>8, <1>9, <2>4, <2>5, <2>6, <2>9, Fields DEF SockInv, EndSeen
    <3>5. AnswerKept(s)'
      BY <1>3, <1>5, <1>6, <1>8, <1>9, <2>4, <2>5, <2>6, <2>9, Fields DEF SockInv, AnswerKept
    <3> QED
      BY <3>1, <3>2, <3>3, <3>4, <3>5 DEF SockInv
  <2> QED
    BY <1>5, <2>8, <2>10, OneSocketKeeps
<1>10. CASE sock[s].st # "syn"
  <2>1. /\ sock' = [sock EXCEPT ![s].st = "closed"]
        /\ log' = [log EXCEPT ![s].reset = TRUE]
    BY <1>4, <1>10
  <2>2. UNCHANGED <<shared, poll, conns, todo, lsock, con, server, gone, met, resets>>
    BY <1>2, <1>3
  <2>3. poll = "iface" /\ device' \in Seq(Segments) /\ Len(device') <= Inbound
    BY <1>2
  <2> QED
    BY <1>5, <2>1, <2>2, <2>3, ResetKeeps
<1> QED
  BY <1>9, <1>10

\* The connection of the packet is gone.
LEMMA HandleNoneKeeps ==
  ASSUME NetInv, HandleNone
  PROVE  NetInv'
BY IgnoredKeeps DEF HandleNone

\* DEAD_PEER_TIMEOUT.
LEMMA PeerTimeoutKeeps ==
  ASSUME NetInv, NEW s \in Socks, PeerTimeout(s)
  PROVE  NetInv'
<1>1. gone \subseteq Clients /\ device \in Seq(Segments) /\ Len(device) <= Inbound
  BY DEF NetInv, TypeOK
<1>2. /\ poll = "iface" /\ sock[s].who \in gone
      /\ sock' = [sock EXCEPT ![s].st = "closed"]
      /\ log' = [log EXCEPT ![s].reset = TRUE]
  BY DEF PeerTimeout
<1>3. UNCHANGED <<shared, poll, device, conns, todo, lsock, con, server, gone, met, resets>>
  BY DEF PeerTimeout, clients
<1>4. sock[s].who \in Clients /\ device' \in Seq(Segments) /\ Len(device') <= Inbound
  BY <1>1, <1>2, <1>3
<1>5. UNCHANGED <<shared, poll, conns, todo, lsock, con, server, gone, met, resets>>
  BY <1>3
<1> QED
  BY <1>2, <1>4, <1>5, ResetKeeps

-----------------------------------------------------------------------------
(***************************************************************************)
(* The rest of the poll thread's round.                                    *)
(***************************************************************************)

\* Work reads the socket and the stream, and nothing else.
LEMMA WorkKept ==
  ASSUME NEW r, sock'[r] = sock[r], con'[r] = con[r]
  PROVE  Work(r)' <=> Work(r)
BY DEF Work, Received, Sent, Closed, PeerClosed

\* A round begins, and ends.
LEMMA RoundKeeps ==
  ASSUME NetInv, PollTop \/ PollEnd \/ \E timer \in BOOLEAN : PollWake(timer)
  PROVE  NetInv'
<1>1. UNCHANGED <<conns, todo, lsock, sock, con, server, clients, log, resets>>
  BY DEF PollTop, PollEnd, PollWake
<1>2. CASE PollTop
  <2>1. /\ poll' = "iface" /\ wake' = FALSE /\ device' = inbound /\ inbound' = <<>>
        /\ todo = {}
    BY <1>2 DEF PollTop, NetInv, PollAwake
  <2>2. TypeOK'
    <3>1. inbound' \in Seq(Segments) /\ Len(inbound') <= Inbound
      BY <2>1, Sizes
    <3> QED
      BY <1>1, <2>1, <3>1 DEF NetInv, TypeOK, server, clients
  <2>3. PollAwake'
    BY <1>1, <2>1 DEF PollAwake
  <2> QED
    BY <1>1, <2>2, <2>3, AllKept DEF NetInv
<1>3. CASE PollEnd \/ \E timer \in BOOLEAN : PollWake(timer)
  <2>1. UNCHANGED <<inbound, wake, device>>
    BY <1>3 DEF PollEnd, PollWake, shared
  <2>2. \/ poll = "conns" /\ todo = {} /\ poll' = IF wake THEN "top" ELSE "sleep"
        \/ poll = "sleep" /\ poll' = "top"
    BY <1>3 DEF PollEnd, PollWake
  <2>3. TypeOK'
    BY <1>1, <2>1, <2>2 DEF NetInv, TypeOK, server, clients
  <2>4. todo = {}
    BY <2>2 DEF NetInv, PollAwake
  <2>5. PollAwake'
    <3>1. \A r : Work(r)' <=> Work(r)
      BY <1>1, WorkKept
    <3>2. app' = app
      BY <1>1 DEF server
    <3> QED
      BY <1>1, <2>1, <2>2, <2>4, <3>1, <3>2 DEF NetInv, PollAwake
  <2> QED
    BY <1>1, <2>3, <2>5, AllKept DEF NetInv
<1> QED
  BY <1>2, <1>3

\* The listener looks at its socket.
LEMMA ListenerKeeps ==
  ASSUME NetInv, Listener
  PROVE  NetInv'
<1>1. /\ poll = "iface" /\ device = <<>> /\ poll' = "conns"
      /\ UNCHANGED <<inbound, wake, device, app, cur, met, gone, resets>>
  BY DEF Listener, shared, clients
<1>2. TypeOK /\ lsock \in Socks \ conns /\ conns \subseteq Socks
      /\ sock \in [Socks -> Sockets] /\ con \in [Socks -> Streams] /\ log \in [Socks -> Logs]
      /\ queue \in Seq(Socks)
  BY DEF NetInv, TypeOK, Sockets, Streams, Logs
<1>3. PICK l \in Socks : l = lsock
  BY <1>2
<1>4. /\ NewSocket \in Sockets /\ NewConn \in Streams /\ NewLog \in Logs
  <2>1. NewSocket \in Sockets
    BY Sizes DEF NewSocket, Sockets
  <2>2. NewConn \in Streams
    BY Sizes DEF NewConn, Streams
  <2>3. NewLog \in Logs
    BY Sizes DEF NewLog, Logs
  <2> QED
    BY <2>1, <2>2, <2>3
<1>5. todo' = conns' => PollAwake'
  BY <1>1 DEF NetInv, PollAwake
<1>6. CASE /\ sock[lsock].st = "listen" /\ todo' = conns
           /\ UNCHANGED <<lsock, conns, sock, con, queue, log>>
  <2>1. TypeOK'
    BY <1>1, <1>6 DEF NetInv, TypeOK
  <2>2. UNCHANGED <<conns, lsock, sock, con, server, log>>
    BY <1>1, <1>6 DEF server
  <2> QED
    BY <1>5, <1>6, <2>1, <2>2, AllKept DEF NetInv
<1>7. CASE /\ sock[lsock].st = "closed" /\ todo' = conns
           /\ sock' = [sock EXCEPT ![lsock] = NewSocket]
           /\ log' = [log EXCEPT ![lsock] = NewLog]
           /\ UNCHANGED <<lsock, conns, con, queue>>
  <2>1. sock' \in [Socks -> Sockets] /\ log' \in [Socks -> Logs]
    BY <1>2, <1>4, <1>7
  <2>2. TypeOK'
    BY <1>1, <1>2, <1>7, <2>1 DEF TypeOK, Sockets, Logs
  <2>3. /\ \A r \in Socks \ {l} : sock'[r] = sock[r] /\ log'[r] = log[r]
        /\ sock'[l] = NewSocket /\ log'[l] = NewLog
    BY <1>2, <1>3, <1>7
  <2>4. con[l] = NewConn /\ l # cur
    BY <1>3 DEF NetInv, ListenerHeld
  <2>5. ASSUME NEW r \in Socks
        PROVE  SockInv(r)'
    <3>1. CASE r # l
      BY <1>1, <1>7, <2>3, <3>1, SockKept DEF NetInv
    <3>2. CASE r = l
      <4> USE <1>2, <1>3, <1>7, <2>3, <2>4, <3>2, Sizes DEF NewSocket, NewLog, NewConn
      <4>1. SocketHeld(r)'
        BY DEF SocketHeld
      <4>2. BytesKept(r)'
        BY DEF BytesKept
      <4>3. ClosesDrained(r)'
        BY DEF ClosesDrained
      <4>4. EndSeen(r)'
        BY DEF EndSeen
      <4>5. AnswerKept(r)'
        BY DEF AnswerKept
      <4> QED
        BY <4>1, <4>2, <4>3, <4>4, <4>5 DEF SockInv
    <3> QED
      BY <3>1, <3>2
  <2>6. ListenerHeld'
    BY <1>1, <1>3, <1>7, <2>3, <2>4 DEF ListenerHeld, Fresh, NewConn, NewLog
  <2>7. QueueHeld'
    <3> SUFFICES ASSUME NEW i \in 1..Len(queue)
                 PROVE  /\ queue[i] # lsock /\ queue[i] # cur /\ Fresh(queue[i])'
                        /\ \A j \in 1..Len(queue) : queue[i] = queue[j] => i = j
      BY <1>1, <1>7 DEF QueueHeld
    <3>1. queue[i] \in Socks /\ queue[i] # l
      BY <1>2, <1>3 DEF NetInv, QueueHeld
    <3> QED
      BY <1>7, <2>3, <3>1 DEF NetInv, QueueHeld, Fresh
  <2>8. cur = None \/ (cur \in Socks /\ log'[cur] = log[cur])
    BY <1>2, <2>3, <2>4 DEF TypeOK
  <2>9. ServerHeld' /\ ServerAwake'
    BY <1>1, <1>7, <2>8 DEF NetInv, ServerHeld, ServerAwake
  <2> QED
    BY <1>5, <1>7, <2>2, <2>5, <2>6, <2>7, <2>9 DEF NetInv
<1>8. CASE /\ sock[lsock].st \notin {"listen", "closed"}
           /\ conns' = conns \cup {lsock} /\ todo' = conns'
           /\ queue' = Append(queue, lsock)
           /\ \E s \in Free :
                /\ lsock' = s
                /\ sock' = [sock EXCEPT ![s] = NewSocket]
                /\ con' = [con EXCEPT ![s] = NewConn]
                /\ log' = [log EXCEPT ![s] = NewLog]
  <2>1. PICK s \in Free :
                /\ lsock' = s
                /\ sock' = [sock EXCEPT ![s] = NewSocket]
                /\ con' = [con EXCEPT ![s] = NewConn]
                /\ log' = [log EXCEPT ![s] = NewLog]
    BY <1>8
  <2>2. /\ s \in Socks /\ sock[s].st = "free" /\ s # cur
        /\ \A i \in DOMAIN queue : queue[i] # s
    BY DEF Free
  <2>3. SockInv(s) /\ SockInv(l)
    BY <2>2 DEF NetInv
  <2>4. s \notin conns /\ s # l
    BY <1>3, <2>2, <2>3 DEF SockInv, SocketHeld
  <2>5. /\ sock' \in [Socks -> Sockets] /\ con' \in [Socks -> Streams]
        /\ log' \in [Socks -> Logs]
    BY <1>2, <1>4, <2>1, <2>2
  <2>6. /\ queue' \in Seq(Socks) /\ Len(queue') = Len(queue) + 1
        /\ \A i \in 1..Len(queue) : queue'[i] = queue[i]
        /\ queue'[Len(queue) + 1] = l
    BY <1>2, <1>3, <1>8, AppendProperties
  <2>7. TypeOK'
    <3>1. lsock' \in Socks \ conns' /\ conns' \subseteq Socks /\ todo' \subseteq conns'
      BY <1>2, <1>3, <1>8, <2>1, <2>2, <2>4
    <3> QED
      BY <1>1, <1>2, <2>5, <2>6, <3>1 DEF TypeOK, Sockets, Streams, Logs
  <2>8. /\ \A r \in Socks \ {s} : sock'[r] = sock[r] /\ con'[r] = con[r] /\ log'[r] = log[r]
        /\ sock'[s] = NewSocket /\ con'[s] = NewConn /\ log'[s] = NewLog
    BY <1>2, <2>1, <2>2
  <2>9. ASSUME NEW r \in Socks
        PROVE  SockInv(r)'
    <3>1. CASE r # l /\ r # s
      <4>1. (r \in conns' <=> r \in conns) /\ (r = lsock' <=> r = lsock)
        BY <1>3, <1>8, <2>1, <3>1
      <4>2. sock'[r] = sock[r] /\ con'[r] = con[r] /\ log'[r] = log[r]
        BY <2>8, <3>1
      <4>3. SockInv(r)
        BY DEF NetInv
      <4> QED
        BY <1>1, <4>1, <4>2, <4>3, SockKept
    <3>2. CASE r = s
      <4> USE <1>1, <1>2, <1>3, <1>8, <2>1, <2>2, <2>8, <3>2, Sizes DEF NewSocket, NewLog, NewConn
      <4>1. SocketHeld(r)'
        BY <2>4 DEF SocketHeld
      <4>2. BytesKept(r)'
        BY DEF BytesKept
      <4>3. ClosesDrained(r)'
        BY DEF ClosesDrained
      <4>4. EndSeen(r)'
        BY DEF EndSeen
      <4>5. AnswerKept(r)'
        BY DEF AnswerKept
      <4> QED
        BY <4>1, <4>2, <4>3, <4>4, <4>5 DEF SockInv
    <3>3. CASE r = l
      <4>1. /\ sock'[r] = sock[r] /\ con'[r] = con[r] /\ log'[r] = log[r]
            /\ sock[r].st \notin {"listen", "closed"} /\ r \in conns' /\ r # lsock'
            /\ r = lsock /\ SockInv(r)
        BY <1>3, <1>8, <2>1, <2>3, <2>4, <2>8, <3>3
      <4>2. SocketHeld(r)'
        BY <4>1 DEF SockInv, SocketHeld
      <4>3. BytesKept(r)'
        BY <4>1 DEF SockInv, BytesKept
      <4>4. ClosesDrained(r)'
        BY <4>1 DEF SockInv, ClosesDrained
      <4>5. EndSeen(r)'
        BY <4>1 DEF SockInv, EndSeen
      <4>6. AnswerKept(r)'
        BY <1>1, <4>1 DEF SockInv, AnswerKept
      <4> QED
        BY <4>2, <4>3, <4>4, <4>5, <4>6 DEF SockInv
    <3> QED
      BY <3>1, <3>2, <3>3
  <2>10. ListenerHeld'
    BY <1>1, <2>1, <2>2, <2>8 DEF ListenerHeld, Fresh, NewConn, NewLog
  <2>11. QueueHeld'
    <3>1. \A i \in 1..Len(queue) :
            /\ queue[i] \in Socks /\ queue[i] # l /\ queue[i] # s /\ queue[i] # cur
            /\ Fresh(queue[i])
            /\ \A j \in 1..Len(queue) : queue[i] = queue[j] => i = j
      BY <1>2, <1>3, <2>2 DEF NetInv, QueueHeld
    <3>2. Fresh(l) /\ l # cur
      BY <1>3 DEF NetInv, ListenerHeld
    <3>3. Len(queue) \in Nat
      BY <1>2
    <3>4. ASSUME NEW i \in 1..Len(queue')
          PROVE  /\ queue'[i] \in Socks \ {s} /\ queue'[i] # cur /\ Fresh(queue'[i])
                 /\ \A j \in 1..Len(queue') : queue'[i] = queue'[j] => i = j
      <4>1. \A k \in 1..Len(queue') :
              \/ k \in 1..Len(queue) /\ queue'[k] = queue[k]
              \/ k = Len(queue) + 1 /\ queue'[k] = l
        BY <2>4, <2>6, <3>3
      <4> QED
        BY <2>4, <3>1, <3>2, <3>4, <4>1
    <3>5. ASSUME NEW r \in Socks \ {s}, Fresh(r)
          PROVE  Fresh(r)'
      BY <2>8, <3>5 DEF Fresh
    <3> SUFFICES ASSUME NEW i \in 1..Len(queue')
                 PROVE  /\ queue'[i] # lsock' /\ queue'[i] # cur' /\ Fresh(queue[i])'
                        /\ \A j \in 1..Len(queue') : queue'[i] = queue'[j] => i = j
      BY DEF QueueHeld
    <3>6. PICK q : q = queue'[i]
      OBVIOUS
    <3>7. Fresh(q)'
      BY <3>4, <3>5, <3>6
    <3>8. Fresh(queue[i])'
      BY <3>6, <3>7 DEF Fresh
    <3> QED
      BY <1>1, <2>1, <3>4, <3>8
  <2>12. cur = None \/ (cur \in Socks /\ log'[cur] = log[cur] /\ con'[cur] = con[cur])
    BY <1>2, <2>2, <2>8 DEF TypeOK
  <2>13. ServerHeld'
    BY <1>1, <2>12 DEF NetInv, ServerHeld
  <2>14. ServerAwake'
    BY <1>1, <2>12 DEF NetInv, ServerHeld, ServerAwake
  <2> QED
    BY <1>5, <1>8, <2>7, <2>9, <2>10, <2>11, <2>13, <2>14 DEF NetInv
<1> QED
  BY <1>6, <1>7, <1>8, Zenon DEF Listener

-----------------------------------------------------------------------------
(***************************************************************************)
(* Serving a connection.                                                   *)
(***************************************************************************)

\* As much is moved as is there and fits.
LEMMA Moved ==
  ASSUME NEW s \in Socks, TypeOK
  PROVE  /\ Received(s) \in Nat /\ Received(s) <= sock[s].rx
         /\ con[s].rx + Received(s) <= RxLimit
         /\ Received(s) = sock[s].rx \/ con[s].rx + Received(s) = RxLimit
         /\ Sent(s) \in Nat /\ Sent(s) <= con[s].tx
         /\ sock[s].tx + Sent(s) <= TxBuf
         /\ sock[s].st \in {"estab", "closewait"} =>
              Sent(s) = con[s].tx \/ sock[s].tx + Sent(s) = TxBuf
         /\ sock[s].st \notin {"estab", "closewait"} => Sent(s) = 0
<1>1. /\ Received(s) \in Nat /\ Received(s) <= sock[s].rx
      /\ con[s].rx + Received(s) <= RxLimit
      /\ Received(s) = sock[s].rx \/ con[s].rx + Received(s) = RxLimit
  BY Fields, Sizes DEF Received, Min
<1>2. CASE sock[s].st \in {"estab", "closewait"}
  <2>1. Sent(s) = Min(con[s].tx, TxBuf - sock[s].tx)
    BY <1>2 DEF Sent
  <2> QED
    BY <1>1, <1>2, <2>1, Fields, Sizes DEF Min
<1>3. CASE sock[s].st \notin {"estab", "closewait"}
  <2>1. Sent(s) = 0
    BY <1>3 DEF Sent
  <2> QED
    BY <1>1, <1>3, <2>1, Fields, Sizes
<1> QED
  BY <1>2, <1>3

\* A stream that is closed and drained moves the socket on.
LEMMA ClosedMoves ==
  ASSUME NEW s \in Socks, TypeOK
  PROVE  /\ ~(con[s].local_closed /\ con[s].tx = Sent(s)) => Closed(s) = sock[s].st
         /\ con[s].local_closed /\ con[s].tx = Sent(s) =>
              \/ sock[s].st \in {"syn", "estab"} /\ Closed(s) = "finwait"
              \/ sock[s].st = "closewait" /\ Closed(s) = "closing"
              \/ sock[s].st = "listen" /\ Closed(s) = "closed"
              \/ /\ sock[s].st \in {"free", "finwait", "closing", "closed"}
                 /\ Closed(s) = sock[s].st
BY Fields DEF Closed

\* What Serve leaves in the socket and the stream.
Served(s) ==
  /\ \A r \in Socks \ {s} : sock'[r] = sock[r] /\ con'[r] = con[r]
  /\ sock' \in [Socks -> Sockets] /\ con' \in [Socks -> Streams]
  /\ con'[s].rx = con[s].rx + Received(s) /\ con'[s].tx = con[s].tx - Sent(s)
  /\ con'[s].local_closed = con[s].local_closed
  /\ con'[s].peer_closed <=> PeerClosed(s)
  /\ con'[s].dead <=> Closed(s) = "closed"
  /\ Closed(s) = "closed" => /\ sock'[s].st = "free" /\ sock'[s].who = None
                             /\ sock'[s].rx = 0 /\ sock'[s].tx = 0
                             /\ conns' = conns \ {s}
  /\ Closed(s) # "closed" =>
       /\ sock'[s].st = Closed(s) /\ sock'[s].who = sock[s].who
       /\ sock'[s].rx = sock[s].rx - Received(s) /\ sock'[s].tx = sock[s].tx + Sent(s)
       /\ conns' = conns

\* Serve does so.
LEMMA ServeServes ==
  ASSUME NetInv, NEW s \in Socks, Serve(s)
  PROVE  Served(s)
<1> DEFINE N == [con[s] EXCEPT !.rx = @ + Received(s), !.tx = @ - Sent(s),
                              !.peer_closed = PeerClosed(s), !.dead = Closed(s) = "closed"]
           M == [sock[s] EXCEPT !.st = Closed(s), !.rx = @ - Received(s), !.tx = @ + Sent(s)]
<1>1. TypeOK /\ sock \in [Socks -> Sockets] /\ con \in [Socks -> Streams]
  BY DEF NetInv, TypeOK, Sockets, Streams
<1>2. /\ sock[s] \in Sockets /\ con[s] \in Streams
      /\ con[s].rx + Received(s) \in 0..RxLimit /\ con[s].tx - Sent(s) \in 0..TxLimit
      /\ sock[s].rx - Received(s) \in 0..RxBuf /\ sock[s].tx + Sent(s) \in 0..TxBuf
  BY <1>1, Fields, Moved, Sizes
<1>3. Closed(s) \in {"free", "listen", "syn", "estab", "closewait", "finwait", "closing", "closed"}
  BY <1>1, Fields, ClosedMoves
<1>4. PeerClosed(s) \in BOOLEAN /\ (Closed(s) = "closed") \in BOOLEAN
  <2>1. con[s].peer_closed \in BOOLEAN
    BY <1>1, Fields
  <2>2. PeerClosed(s) \in BOOLEAN
    BY <2>1, Zenon DEF PeerClosed
  <2> QED
    BY <2>2, Zenon
<1>5. con' = [con EXCEPT ![s] = N]
  BY Zenon DEF Serve
<1>6. /\ N \in Streams
      /\ N.rx = con[s].rx + Received(s) /\ N.tx = con[s].tx - Sent(s)
      /\ N.local_closed = con[s].local_closed
      /\ N.peer_closed = PeerClosed(s) /\ N.dead = (Closed(s) = "closed")
  <2>1. PICK p \in BOOLEAN : p = PeerClosed(s)
    BY <1>4
  <2>2. PICK d \in BOOLEAN : d = (Closed(s) = "closed")
    BY <1>4
  <2>3. PICK rx \in 0..RxLimit, tx \in 0..TxLimit :
          rx = con[s].rx + Received(s) /\ tx = con[s].tx - Sent(s)
    BY <1>2
  <2>4. N = [con[s] EXCEPT !.rx = rx, !.tx = tx, !.peer_closed = p, !.dead = d]
    BY <2>1, <2>2, <2>3, Zenon
  <2> HIDE DEF N
  <2>5. /\ N \in Streams
        /\ N.rx = rx /\ N.tx = tx /\ N.local_closed = con[s].local_closed
        /\ N.peer_closed = p /\ N.dead = d
    BY <1>2, <2>4 DEF Streams
  <2> QED
    BY <2>1, <2>2, <2>3, <2>5
<1>7. /\ M \in Sockets
      /\ M.st = Closed(s) /\ M.who = sock[s].who
      /\ M.rx = sock[s].rx - Received(s) /\ M.tx = sock[s].tx + Sent(s)
  BY <1>2, <1>3 DEF Sockets
<1>8. Closed(s) # "closed" => sock' = [sock EXCEPT ![s] = M] /\ conns' = conns
  BY Zenon DEF Serve
<1>9. Closed(s) = "closed" =>
        sock' = [sock EXCEPT ![s] = [NewSocket EXCEPT !.st = "free"]] /\ conns' = conns \ {s}
  BY DEF Serve
<1> HIDE DEF N, M
<1>10. /\ con' \in [Socks -> Streams] /\ con'[s] = N
       /\ \A r \in Socks \ {s} : con'[r] = con[r]
  BY <1>1, <1>5, <1>6
<1>11. CASE Closed(s) = "closed"
  <2> DEFINE F == [NewSocket EXCEPT !.st = "free"]
  <2>1. F \in Sockets /\ F.st = "free" /\ F.who = None /\ F.rx = 0 /\ F.tx = 0
    BY Sizes DEF NewSocket, Sockets
  <2>2. sock' = [sock EXCEPT ![s] = F]
    BY <1>9, <1>11
  <2> HIDE DEF F
  <2>3. /\ sock' \in [Socks -> Sockets] /\ sock'[s] = F
        /\ \A r \in Socks \ {s} : sock'[r] = sock[r]
    BY <1>1, <2>1, <2>2
  <2> QED
    BY <1>6, <1>9, <1>10, <1>11, <2>1, <2>3 DEF Served
<1>12. CASE Closed(s) # "closed"
  <2>1. /\ sock' \in [Socks -> Sockets] /\ sock'[s] = M
        /\ \A r \in Socks \ {s} : sock'[r] = sock[r]
    BY <1>1, <1>7, <1>8, <1>12
  <2> QED
    BY <1>6, <1>7, <1>8, <1>10, <1>12, <2>1 DEF Served
<1> QED
  BY <1>11, <1>12

\* Served, a connection is left without work.
LEMMA ServedRests ==
  ASSUME NetInv, NEW s \in Socks, Served(s), Closed(s) # "closed"
  PROVE  ~Work(s)'
<1>1. TypeOK
  BY DEF NetInv
<1>2. /\ con'[s].rx = con[s].rx + Received(s) /\ con'[s].tx = con[s].tx - Sent(s)
      /\ con'[s].local_closed = con[s].local_closed
      /\ con'[s].peer_closed <=> PeerClosed(s)
      /\ sock'[s].st = Closed(s)
      /\ sock'[s].rx = sock[s].rx - Received(s) /\ sock'[s].tx = sock[s].tx + Sent(s)
  BY DEF Served
<1>3. /\ sock[s].rx \in Nat /\ con[s].rx \in Nat /\ sock[s].tx \in Nat /\ con[s].tx \in Nat
      /\ sock'[s].rx \in Nat /\ con'[s].rx \in Nat /\ sock'[s].tx \in Nat
      /\ con'[s].tx \in Nat /\ con'[s].rx <= RxLimit /\ sock'[s].tx <= TxBuf
      /\ con'[s].peer_closed \in BOOLEAN
  <2>1. /\ sock[s].rx \in Nat /\ con[s].rx \in Nat /\ sock[s].tx \in Nat
        /\ con[s].tx \in Nat
    BY <1>1, Fields, Sizes
  <2>2. sock'[s] \in Sockets /\ con'[s] \in Streams
    BY DEF Served
  <2>3. sock'[s].rx \in 0..RxBuf /\ sock'[s].tx \in 0..TxBuf
    BY <2>2 DEF Sockets
  <2>4. /\ con'[s].rx \in 0..RxLimit /\ con'[s].tx \in 0..TxLimit
        /\ con'[s].peer_closed \in BOOLEAN
    BY <2>2 DEF Streams
  <2> QED
    BY <2>1, <2>3, <2>4, Sizes
<1>4. Received(s)' = 0
  <2>1. sock'[s].rx = 0 \/ con'[s].rx = RxLimit
    BY <1>1, <1>2, <1>3, Moved
  <2> QED
    BY <1>3, <2>1, Sizes DEF Received, Min
<1>5. Sent(s)' = 0
  <2>1. CASE Closed(s) \in {"estab", "closewait"}
    <3>1. Closed(s) = sock[s].st
      BY <1>1, <2>1, ClosedMoves
    <3>2. con'[s].tx = 0 \/ sock'[s].tx = TxBuf
      BY <1>1, <1>2, <1>3, <2>1, <3>1, Moved
    <3> QED
      BY <1>3, <3>2, Sizes DEF Sent, Min
  <2>2. CASE Closed(s) \notin {"estab", "closewait"}
    BY <1>2, <2>2 DEF Sent
  <2> QED
    BY <2>1, <2>2
<1>6. Closed(s)' = Closed(s)
  <2>1. CASE con[s].local_closed /\ con[s].tx = Sent(s)
    <3>1. Closed(s) \in {"finwait", "closing", "free"}
      BY <1>1, <2>1, ClosedMoves
    <3> QED
      BY <1>2, <3>1 DEF Closed
  <2>2. CASE ~(con[s].local_closed /\ con[s].tx = Sent(s))
    <3>1. ~(con'[s].local_closed /\ con'[s].tx = 0)
      BY <1>1, <1>2, <1>3, <2>2, Moved
    <3>2. Closed(s)' = sock'[s].st
      BY <1>5, <3>1 DEF Closed
    <3> QED
      BY <1>2, <3>2
  <2> QED
    BY <2>1, <2>2
<1>7. PeerClosed(s)' <=> con'[s].peer_closed
  <2>1. sock'[s].rx = 0 <=> sock[s].rx = Received(s)
    BY <1>1, <1>2, <1>3, Moved
  <2>2. PeerClosed(s)' <=>
          \/ con'[s].peer_closed \/ Closed(s) = "closed"
          \/ Closed(s) \notin {"syn", "estab", "finwait"} /\ sock'[s].rx = 0
    BY <1>4, <1>6 DEF PeerClosed
  <2>3. con'[s].peer_closed <=>
          \/ con[s].peer_closed \/ Closed(s) = "closed"
          \/ Closed(s) \notin {"syn", "estab", "finwait"} /\ sock[s].rx = Received(s)
    BY <1>2 DEF PeerClosed
  <2> QED
    BY <2>1, <2>2, <2>3
<1>8. PeerClosed(s)' = con'[s].peer_closed
  <2>1. PeerClosed(s)' \in BOOLEAN
    BY <1>3, Zenon DEF PeerClosed
  <2>2. CASE PeerClosed(s)'
    BY <1>3, <1>7, <2>1, <2>2, Zenon
  <2>3. CASE ~PeerClosed(s)'
    BY <1>3, <1>7, <2>1, <2>3, Zenon
  <2> QED
    BY <2>2, <2>3
<1>9. sock'[s].st # "closed"
  BY <1>2
<1> QED
  BY <1>2, <1>4, <1>5, <1>6, <1>8, <1>9 DEF Work

\* Served, a socket keeps its invariant.
LEMMA ServedKeeps ==
  ASSUME NetInv, NEW s \in Socks, Served(s), s \in conns,
         UNCHANGED <<lsock, cur, log>>, app' = "close" <=> app = "close"
  PROVE  SockInv(s)'
<1>1. TypeOK /\ SockInv(s) /\ s # lsock /\ sock[s].st # "free"
  BY DEF NetInv, TypeOK, SockInv, SocketHeld
<1>2. CASE Closed(s) = "closed"
  <2>1. /\ con'[s].rx = con[s].rx + Received(s) /\ con'[s].tx = con[s].tx - Sent(s)
        /\ con'[s].local_closed = con[s].local_closed
        /\ con'[s].peer_closed /\ con'[s].dead
        /\ sock'[s].st = "free" /\ sock'[s].who = None /\ sock'[s].rx = 0 /\ sock'[s].tx = 0
        /\ s \notin conns'
    BY <1>2 DEF Served, PeerClosed
  <2>2. sock[s].st = "closed" \/ (sock[s].st = "listen" /\ con[s].local_closed)
    BY <1>1, <1>2, ClosedMoves
  <2>3. SocketHeld(s)'
    BY <1>1, <2>1 DEF SocketHeld
  <2>4. BytesKept(s)'
    BY <1>1, <2>1, Fields, Moved DEF SockInv, BytesKept
  <2>5. ClosesDrained(s)'
    BY <2>1 DEF ClosesDrained
  <2>6. EndSeen(s)'
    <3>1. log[s].eof /\ ~log[s].relisted => sock[s].rx = 0 /\ con[s].rx = 0 /\ Received(s) = 0
      BY <1>1, Fields, Moved DEF SockInv, EndSeen
    <3>2. ~log[s].relisted /\ ~log[s].reset => con[s].local_closed
      BY <1>1, <2>2 DEF SockInv, SocketHeld, ClosesDrained
    <3>3. log[s].got + con[s].rx + sock[s].rx = log[s].sent
      BY <1>1 DEF SockInv, BytesKept
    <3>4. log[s].got + con[s].rx + 0 = log[s].got + con[s].rx
      BY <1>1, Fields
    <3> QED
      BY <1>1, <2>1, <3>1, <3>2, <3>3, <3>4, Fields DEF EndSeen
  <2>7. AnswerKept(s)'
    BY <2>1 DEF AnswerKept
  <2> QED
    BY <2>3, <2>4, <2>5, <2>6, <2>7 DEF SockInv
<1>3. CASE Closed(s) # "closed"
  <2>1. /\ con'[s].rx = con[s].rx + Received(s) /\ con'[s].tx = con[s].tx - Sent(s)
        /\ con'[s].local_closed = con[s].local_closed
        /\ con'[s].peer_closed <=> PeerClosed(s)
        /\ ~con'[s].dead
        /\ sock'[s].st = Closed(s) /\ sock'[s].who = sock[s].who
        /\ sock'[s].rx = sock[s].rx - Received(s) /\ sock'[s].tx = sock[s].tx + Sent(s)
        /\ conns' = conns
    BY <1>3 DEF Served
  <2>2. \/ Closed(s) = sock[s].st
        \/ /\ con[s].local_closed /\ con[s].tx = Sent(s)
           /\ sock[s].st \in {"syn", "estab"} /\ Closed(s) = "finwait"
        \/ /\ con[s].local_closed /\ con[s].tx = Sent(s)
           /\ sock[s].st = "closewait" /\ Closed(s) = "closing"
    BY <1>1, <1>3, ClosedMoves
  <2>3. SocketHeld(s)'
    BY <1>1, <2>1, <2>2, Fields, Moved DEF SockInv, SocketHeld
  <2>4. BytesKept(s)'
    BY <1>1, <2>1, Fields, Moved DEF SockInv, BytesKept
  <2>5. ClosesDrained(s)'
    <3>1. Closed(s) \in {"finwait", "closing"} => con[s].local_closed /\ con[s].tx = Sent(s)
      <4>1. CASE sock[s].st \in {"finwait", "closing"}
        BY <1>1, <4>1, Moved DEF SockInv, ClosesDrained
      <4>2. CASE sock[s].st \notin {"finwait", "closing"}
        BY <2>2, <4>2
      <4> QED
        BY <4>1, <4>2
    <3> QED
      BY <1>1, <1>3, <2>1, <3>1, Fields DEF ClosesDrained
  <2>6. EndSeen(s)'
    <3>1. CASE con[s].peer_closed /\ ~log[s].relisted
      <4>1. /\ sock[s].st \in {"closewait", "closing", "closed"} /\ sock[s].rx = 0
            /\ Received(s) = 0 /\ con'[s].rx = con[s].rx /\ sock'[s].rx = 0
        BY <1>1, <2>1, <3>1, Fields, Moved DEF SockInv, EndSeen
      <4>2. Closed(s) \in {"closewait", "closing", "closed"}
        BY <2>2, <4>1
      <4>3. con'[s].peer_closed
        BY <2>1, <3>1 DEF PeerClosed
      <4> QED
        BY <1>1, <2>1, <3>1, <4>1, <4>2, <4>3 DEF SockInv, EndSeen
    <3>2. CASE ~con[s].peer_closed /\ ~log[s].relisted
      <4>1. ~log[s].eof
        BY <1>1, <3>2 DEF SockInv, EndSeen
      <4>2. sock[s].st # "listen"
        BY <1>1, <3>2 DEF SockInv, SocketHeld
      <4>3. con'[s].peer_closed => /\ Closed(s) \notin {"syn", "estab", "finwait"}
                                  /\ sock[s].rx = Received(s)
        BY <1>3, <2>1, <3>2 DEF PeerClosed
      <4>4. Closed(s) \notin {"syn", "estab", "finwait"} => Closed(s) \in {"closewait", "closing"}
        BY <1>1, <1>3, <2>2, <4>2, Fields
      <4>5. log[s].got + con[s].rx + sock[s].rx = log[s].sent
        BY <1>1 DEF SockInv, BytesKept
      <4>6. con'[s].peer_closed => /\ sock'[s].rx = 0 /\ log[s].got + con'[s].rx = log[s].sent
        BY <1>1, <2>1, <4>3, <4>5, Fields
      <4> QED
        BY <2>1, <4>1, <4>3, <4>4, <4>6 DEF EndSeen
    <3>3. CASE log[s].relisted
      BY <1>1, <2>1, <3>3 DEF SockInv, EndSeen, PeerClosed
    <3>4. log[s].relisted \in BOOLEAN /\ con[s].peer_closed \in BOOLEAN
      BY <1>1, Fields
    <3> QED
      BY <3>1, <3>2, <3>3, <3>4
  <2>7. AnswerKept(s)'
    BY <1>1, <2>1 DEF SockInv, AnswerKept, ClosesDrained
  <2> QED
    BY <2>3, <2>4, <2>5, <2>6, <2>7 DEF SockInv
<1> QED
  BY <1>2, <1>3

\* A connection is served.
LEMMA ServeKeeps ==
  ASSUME NetInv, NEW s \in Socks, Serve(s)
  PROVE  NetInv'
<1>1. Served(s)
  BY ServeServes
<1>2. /\ poll = "conns" /\ s \in todo /\ poll' = poll /\ todo' = todo \ {s}
      /\ UNCHANGED <<inbound, wake, device, lsock, queue, cur, met, gone, log, resets>>
      /\ Notified(s)
  BY DEF Serve, shared, clients
<1>3. /\ TypeOK /\ todo \subseteq conns /\ conns \subseteq Socks /\ lsock \in Socks \ conns
      /\ s \in conns /\ s # lsock
      /\ queue \in Seq(Socks) /\ cur \in Socks \cup {None}
      /\ app \in {"accept", "read", "r_wait", "r_wake", "write", "w_wait", "w_wake",
                  "close", "c_wake"}
  BY <1>2 DEF NetInv, TypeOK
<1>4. \/ app' = app
      \/ app = "r_wait" /\ app' = "read"
      \/ app = "w_wait" /\ app' = "write"
  BY <1>2 DEF Notified
<1>5. \A r \in Socks \ {s} : sock'[r] = sock[r] /\ con'[r] = con[r]
  BY <1>1 DEF Served
<1>6. conns' \subseteq conns /\ conns \ {s} \subseteq conns'
  BY <1>1 DEF Served
<1>7. TypeOK'
  <2>1. sock' \in [Socks -> Sockets] /\ con' \in [Socks -> Streams]
    BY <1>1 DEF Served
  <2>2. conns' \subseteq Socks /\ todo' \subseteq conns' /\ lsock' \in Socks \ conns'
    BY <1>2, <1>3, <1>6
  <2>3. app' \in {"accept", "read", "r_wait", "r_wake", "write", "w_wait", "w_wake",
                  "close", "c_wake"}
    BY <1>3, <1>4
  <2> QED
    BY <1>2, <1>3, <2>1, <2>2, <2>3 DEF TypeOK, Sockets, Streams
<1>8. ASSUME NEW r \in Socks
      PROVE  SockInv(r)'
  <2>1. CASE r = s
    BY <1>1, <1>2, <1>3, <1>4, <2>1, ServedKeeps
  <2>2. CASE r # s
    <3>1. (r \in conns' <=> r \in conns) /\ (r = lsock' <=> r = lsock)
      BY <1>2, <1>6, <2>2
    <3>2. sock'[r] = sock[r] /\ con'[r] = con[r] /\ log'[r] = log[r]
      BY <1>2, <1>5, <2>2
    <3>3. SockInv(r)
      BY DEF NetInv
    <3>4. cur' = r /\ app' = "close" => cur = r /\ app = "close"
      BY <1>2, <1>4
    <3> QED
      BY <3>1, <3>2, <3>3, <3>4, SockKept
  <2> QED
    BY <2>1, <2>2
<1>9. \A r \in Socks : con'[r].local_closed = con[r].local_closed
  BY <1>1, <1>5 DEF Served
<1>10. ListenerHeld'
  <2>1. con'[lsock] = con[lsock]
    BY <1>3, <1>5
  <2> QED
    BY <1>2, <2>1 DEF NetInv, ListenerHeld, Fresh
<1>11. QueueHeld'
  <2> SUFFICES ASSUME NEW i \in 1..Len(queue)
               PROVE  /\ queue[i] # lsock /\ queue[i] # cur /\ Fresh(queue[i])'
                      /\ \A j \in 1..Len(queue) : queue[i] = queue[j] => i = j
    BY <1>2 DEF QueueHeld
  <2>1. queue[i] \in Socks
    BY <1>3
  <2> QED
    BY <1>2, <1>9, <2>1 DEF NetInv, QueueHeld, Fresh
<1>12. ServerHeld'
  BY <1>2, <1>3, <1>4, <1>9 DEF NetInv, ServerHeld
<1>13. ServerAwake'
  <2>1. CASE cur # s
    <3>1. app' \in {"r_wait", "w_wait"} => app' = app /\ cur \in Socks /\ con'[cur] = con[cur]
      BY <1>3, <1>4, <1>5, <2>1 DEF NetInv, ServerHeld
    <3> QED
      BY <1>2, <3>1 DEF NetInv, ServerAwake
  <2>2. CASE /\ cur = s
             /\ \/ Received(s) > 0 \/ Sent(s) > 0 \/ Closed(s) = "closed"
                \/ PeerClosed(s) # con[s].peer_closed
    <3>1. app' \notin {"r_wait", "w_wait"}
      BY <1>2, <2>2 DEF Notified
    <3> QED
      BY <3>1 DEF ServerAwake
  <2>3. CASE /\ cur = s /\ ~(Received(s) > 0) /\ ~(Sent(s) > 0) /\ Closed(s) # "closed"
             /\ PeerClosed(s) = con[s].peer_closed
    <3>1. Received(s) = 0 /\ Sent(s) = 0
      BY <1>3, <2>3, Moved
    <3>2. con'[s].rx = con[s].rx /\ con'[s].tx = con[s].tx
      BY <1>1, <1>3, <3>1, Fields, Sizes DEF Served
    <3>3. (con'[s].peer_closed <=> con[s].peer_closed) /\ ~con'[s].dead
      BY <1>1, <2>3 DEF Served
    <3>4. app' = app
      BY <1>2, <2>3 DEF Notified
    <3> QED
      BY <1>2, <2>3, <3>2, <3>3, <3>4 DEF NetInv, ServerAwake
  <2> QED
    BY <2>1, <2>2, <2>3
<1>14. PollAwake'
  <2>1. (inbound # <<>> => wake)' /\ (poll # "conns" => todo = {})'
    BY <1>2 DEF NetInv, PollAwake
  <2>2. ASSUME ~wake, app' \notin {"r_wake", "w_wake", "c_wake"}, NEW r \in conns' \ todo'
        PROVE  ~Work(r)'
    <3>1. CASE r = s
      <4>1. Closed(s) # "closed"
        BY <1>1, <3>1 DEF Served
      <4> QED
        BY <1>1, <3>1, <4>1, ServedRests
    <3>2. CASE r # s
      <4>1. r \in conns \ todo /\ r \in Socks
        BY <1>2, <1>3, <1>6, <3>2
      <4>2. ~Work(r)
        BY <1>2, <1>4, <2>2, <4>1 DEF NetInv, PollAwake
      <4> QED
        BY <1>5, <3>2, <4>1, <4>2, WorkKept
    <3> QED
      BY <3>1, <3>2
  <2> QED
    BY <1>2, <2>1, <2>2 DEF PollAwake
<1> QED
  BY <1>7, <1>8, <1>10, <1>11, <1>12, <1>13, <1>14 DEF NetInv

-----------------------------------------------------------------------------
(***************************************************************************)
(* The server.  It changes the stream it has.                              *)
(***************************************************************************)
OneStream(s) ==
  /\ cur = s
  /\ UNCHANGED <<inbound, poll, device, conns, todo, lsock, sock, queue, cur, met, gone, resets>>
  /\ con' \in [Socks -> Streams] /\ log' \in [Socks -> Logs] /\ wake' \in {wake, TRUE}
  /\ \A r \in Socks \ {s} : con'[r] = con[r] /\ log'[r] = log[r]
  /\ app' \in {"read", "r_wait", "r_wake", "write", "w_wait", "w_wake", "close", "c_wake"}

\* The poll thread need not be told of a change that makes no work; of any
\* other it will be.
LEMMA OneStreamKeeps ==
  ASSUME NetInv, NEW s \in Socks, OneStream(s), SockInv(s)', ServerHeld', ServerAwake',
         \/ wake' \/ app' \in {"r_wake", "w_wake", "c_wake"}
         \/ app \notin {"r_wake", "w_wake", "c_wake"} /\ (Work(s)' => Work(s))
  PROVE  NetInv'
<1>1. /\ TypeOK /\ conns \subseteq Socks /\ lsock \in Socks /\ queue \in Seq(Socks)
      /\ wake \in BOOLEAN
  BY DEF NetInv, TypeOK
<1>2. TypeOK'
  BY <1>1 DEF OneStream, TypeOK, Streams, Logs
<1>3. ASSUME NEW r \in Socks
      PROVE  SockInv(r)'
  <2>1. CASE r = s
    BY <2>1
  <2>2. CASE r # s
    BY <2>2, SockKept DEF NetInv, OneStream
  <2> QED
    BY <2>1, <2>2
<1>4. lsock # s
  BY DEF NetInv, ListenerHeld, OneStream
<1>5. ListenerHeld'
  BY <1>1, <1>4 DEF NetInv, ListenerHeld, Fresh, OneStream
<1>6. QueueHeld'
  <2> SUFFICES ASSUME NEW i \in 1..Len(queue)
               PROVE  /\ queue[i] # lsock /\ queue[i] # cur /\ Fresh(queue[i])'
                      /\ \A j \in 1..Len(queue) : queue[i] = queue[j] => i = j
    BY DEF QueueHeld, OneStream
  <2>1. queue[i] \in Socks /\ queue[i] # s
    BY <1>1 DEF NetInv, QueueHeld, OneStream
  <2>2. con'[queue[i]] = con[queue[i]] /\ log'[queue[i]] = log[queue[i]] /\ queue' = queue
    BY <2>1 DEF OneStream
  <2> QED
    BY <2>2 DEF NetInv, QueueHeld, Fresh
<1>7. PollAwake'
  <2>1. (inbound # <<>> => wake)' /\ (poll # "conns" => todo = {})'
    <3>1. wake => wake'
      BY DEF OneStream
    <3> QED
      BY <3>1 DEF NetInv, PollAwake, OneStream
  <2>2. ASSUME poll \in {"conns", "sleep"}, ~wake', app' \notin {"r_wake", "w_wake", "c_wake"},
               NEW r \in conns \ todo
        PROVE  ~Work(r)'
    <3>1. ~wake /\ app \notin {"r_wake", "w_wake", "c_wake"} /\ (Work(s)' => Work(s))
      BY <1>1, <2>2 DEF OneStream
    <3>2. ~Work(r)
      BY <2>2, <3>1 DEF NetInv, PollAwake
    <3>3. CASE r = s
      BY <3>1, <3>2, <3>3
    <3>4. CASE r # s
      BY <1>1, <3>2, <3>4, WorkKept DEF OneStream
    <3> QED
      BY <3>3, <3>4
  <2> QED
    BY <2>1, <2>2 DEF PollAwake, OneStream
<1> QED
  BY <1>2, <1>3, <1>5, <1>6, <1>7 DEF NetInv

\* The server has a stream unless it waits for one.
LEMMA HasStream ==
  ASSUME NetInv, app # "accept"
  PROVE  cur \in Socks
BY DEF NetInv, TypeOK, ServerHeld

\* The steps of the server that leave the stream alone.
LEMMA AppMoves ==
  ASSUME NetInv, ReadWake \/ WriteWake \/ WriteTimer
  PROVE  NetInv'
<1>1. PICK s \in Socks : s = cur
  BY HasStream DEF ReadWake, WriteWake, WriteTimer
<1>2. /\ UNCHANGED <<inbound, poll, device, conns, todo, lsock, sock, queue, cur, met, gone, resets>>
      /\ UNCHANGED <<con, log>>
  BY DEF ReadWake, WriteWake, WriteTimer, AppOnly, shared, clients
<1>3. /\ app \in {"r_wake", "w_wake", "w_wait"}
      /\ wake' \in {wake, TRUE} /\ (wake' \/ app = "w_wait")
      /\ app' = "write" \/ (app' = "read" /\ ~(log[s].got >= Request))
  BY <1>1 DEF ReadWake, WriteWake, WriteTimer, shared
<1>4. TypeOK /\ con \in [Socks -> Streams] /\ log \in [Socks -> Logs]
  BY DEF NetInv, TypeOK, Streams, Logs
<1>5. OneStream(s)
  BY <1>1, <1>2, <1>3, <1>4 DEF OneStream
<1>6. SockInv(s)'
  BY <1>2, <1>3, SockKept DEF NetInv
<1>7. ServerHeld'
  <2>1. ~(log[s].got >= Request) => log[s].got < Request
    BY <1>4, Fields, Sizes
  <2> QED
    BY <1>1, <1>2, <1>3, <2>1 DEF NetInv, ServerHeld
<1>8. ServerAwake'
  BY <1>3 DEF ServerAwake
<1>9. \/ wake' \/ app' \in {"r_wake", "w_wake", "c_wake"}
      \/ app \notin {"r_wake", "w_wake", "c_wake"} /\ (Work(s)' => Work(s))
  BY <1>2, <1>3, WorkKept
<1> QED
  BY <1>5, <1>6, <1>7, <1>8, <1>9, OneStreamKeeps

\* Bytes are read.
LEMMA ReadKeeps ==
  ASSUME NetInv, NEW n \in 1..Sends, Read(n)
  PROVE  NetInv'
<1>1. PICK s \in Socks : s = cur
  BY HasStream DEF Read
<1>2. /\ app = "read" /\ n \in 1..con[s].rx
      /\ con' = [con EXCEPT ![s].rx = @ - n]
      /\ log' = [log EXCEPT ![s].got = @ + n]
      /\ app' = IF Full(s) THEN "r_wake" ELSE IF log[s].got + n >= Request THEN "write" ELSE "read"
  BY <1>1 DEF Read
<1>3. UNCHANGED <<inbound, wake, poll, device, conns, todo, lsock, sock, queue, cur, met, gone,
                  resets>>
  BY DEF Read, AppOnly, shared, clients
<1>4. /\ TypeOK /\ con \in [Socks -> Streams] /\ log \in [Socks -> Logs]
      /\ SockInv(s)
  BY DEF NetInv, TypeOK, Streams, Logs
<1>5. /\ con[s].rx - n \in 0..RxLimit /\ log[s].got + n \in 0..Sends /\ n \in Nat
  BY <1>2, <1>4, Fields, Sizes DEF SockInv, BytesKept
<1>6. con' \in [Socks -> Streams]
  BY <1>2, <1>4, <1>5 DEF Streams
<1>7. log' \in [Socks -> Logs]
  BY <1>2, <1>4, <1>5 DEF Logs
<1>8. /\ \A r \in Socks \ {s} : con'[r] = con[r] /\ log'[r] = log[r]
      /\ con'[s].rx = con[s].rx - n /\ con'[s].tx = con[s].tx
      /\ con'[s].peer_closed = con[s].peer_closed /\ con'[s].dead = con[s].dead
      /\ con'[s].local_closed = con[s].local_closed
  BY <1>2, <1>4 DEF Streams
<1>9. /\ log'[s].sent = log[s].sent /\ log'[s].got = log[s].got + n
      /\ log'[s].wrote = log[s].wrote /\ log'[s].rcvd = log[s].rcvd
      /\ log'[s].reset = log[s].reset /\ log'[s].relisted = log[s].relisted
      /\ log'[s].eof = log[s].eof
  BY <1>2, <1>4 DEF Logs
<1>10. /\ app' \in {"r_wake", "write", "read"}
       /\ app' = "read" => ~(log[s].got + n >= Request)
       /\ app' # "r_wake" => ~Full(s)
  BY <1>2
<1>11. OneStream(s)
  BY <1>1, <1>3, <1>6, <1>7, <1>8, <1>10 DEF OneStream
<1>12. ~con[s].local_closed /\ con[s].local_closed \in BOOLEAN
  BY <1>1, <1>2, <1>4, Fields DEF NetInv, ServerHeld
<1>13. SockInv(s)'
  <2>1. SocketHeld(s)'
    BY <1>3, <1>4, <1>8, <1>9 DEF SockInv, SocketHeld
  <2>2. BytesKept(s)'
    BY <1>3, <1>4, <1>5, <1>8, <1>9, Fields DEF SockInv, BytesKept
  <2>3. ClosesDrained(s)'
    BY <1>3, <1>4, <1>8, <1>9 DEF SockInv, ClosesDrained
  <2>4. EndSeen(s)'
    <3>1. (log[s].got + n) + (con[s].rx - n) = log[s].got + con[s].rx
      BY <1>4, <1>5, Fields
    <3>2. log[s].eof => log[s].relisted \/ ~con[s].peer_closed
      BY <1>2, <1>4, Fields DEF SockInv, EndSeen
    <3> QED
      BY <1>3, <1>4, <1>8, <1>9, <3>1, <3>2 DEF SockInv, EndSeen
  <2>5. AnswerKept(s)'
    BY <1>3, <1>8, <1>10, <1>12 DEF AnswerKept
  <2> QED
    BY <2>1, <2>2, <2>3, <2>4, <2>5 DEF SockInv
<1>14. ServerHeld'
  <2>1. app' = "read" => log[s].got + n < Request
    BY <1>5, <1>10, Sizes
  <2> QED
    BY <1>1, <1>2, <1>3, <1>8, <1>9, <1>10, <2>1, <1>12 DEF NetInv, ServerHeld
<1>15. ServerAwake'
  BY <1>10 DEF ServerAwake
<1>16. CASE app' = "r_wake"
  BY <1>11, <1>13, <1>14, <1>15, <1>16, OneStreamKeeps
<1>17. CASE app' # "r_wake"
  <2>1. con[s].rx < RxLimit
    BY <1>4, <1>10, <1>17, Fields, Sizes DEF Full
  <2>2. Received(s) = 0 => sock[s].rx = 0
    BY <1>4, <2>1, Moved, Fields, Sizes
  <2>3. sock[s].rx = 0 => Received(s)' = 0
    BY <1>3, <1>4, <1>5, <1>8, Fields, Sizes DEF Received, Min
  <2>4. Sent(s)' = Sent(s)
    BY <1>3, <1>8 DEF Sent
  <2>5. Closed(s)' = Closed(s)
    BY <1>3, <1>8, <2>4 DEF Closed
  <2>6. Received(s)' = Received(s) => PeerClosed(s)' = PeerClosed(s)
    BY <1>3, <1>8, <2>5 DEF PeerClosed
  <2>7. Received(s) = 0 \/ Received(s) > 0
    BY <1>4, Moved
  <2>8. Received(s) > 0 => Work(s)
    BY DEF Work
  <2>9. ASSUME Received(s) = 0
        PROVE  Work(s)' => Work(s)
    <3>1. Received(s)' = Received(s) /\ PeerClosed(s)' = PeerClosed(s)
      BY <2>2, <2>3, <2>6, <2>9
    <3> QED
      BY <1>3, <1>8, <2>4, <2>5, <3>1 DEF Work
  <2>10. Work(s)' => Work(s)
    BY <2>7, <2>8, <2>9
  <2> QED
    BY <1>2, <1>11, <1>13, <1>14, <1>15, <2>10, OneStreamKeeps
<1> QED
  BY <1>16, <1>17

\* Nothing is there to read.
LEMMA ReadEmptyKeeps ==
  ASSUME NetInv, NEW expired \in BOOLEAN, ReadEmpty(expired)
  PROVE  NetInv'
<1>1. PICK s \in Socks : s = cur
  BY HasStream DEF ReadEmpty
<1>2. app \in {"read", "r_wait"} /\ con[s].rx = 0
  BY <1>1 DEF ReadEmpty
<1>3. UNCHANGED <<inbound, wake, poll, device, conns, todo, lsock, sock, con, queue, cur, met,
                  gone, resets>>
  BY DEF ReadEmpty, AppOnly, shared, clients
<1>4. /\ TypeOK /\ con \in [Socks -> Streams] /\ log \in [Socks -> Logs]
      /\ SockInv(s)
  BY DEF NetInv, TypeOK, Streams, Logs
<1>5. Work(s)' => Work(s)
  BY <1>3, WorkKept
<1>6. ~con[s].local_closed /\ log[s].got < Request
  BY <1>1, <1>2 DEF NetInv, ServerHeld
<1>7. CASE con[s].peer_closed \/ con[s].dead
  <2>1. app' = "close" /\ log' = [log EXCEPT ![s].eof = TRUE]
    BY <1>1, <1>7 DEF ReadEmpty
  <2>2. log' \in [Socks -> Logs]
    BY <1>4, <2>1 DEF Logs
  <2>3. /\ \A r \in Socks \ {s} : log'[r] = log[r]
        /\ log'[s].sent = log[s].sent /\ log'[s].got = log[s].got
        /\ log'[s].wrote = log[s].wrote /\ log'[s].rcvd = log[s].rcvd
        /\ log'[s].reset = log[s].reset /\ log'[s].relisted = log[s].relisted
        /\ log'[s].eof
    BY <1>4, <2>1 DEF Logs
  <2>4. OneStream(s)
    BY <1>1, <1>3, <1>4, <2>1, <2>2, <2>3 DEF OneStream
  <2>5. con[s].peer_closed
    BY <1>4, <1>7 DEF SockInv, ClosesDrained
  <2>6. SockInv(s)'
    <3>1. SocketHeld(s)'
      BY <1>3, <1>4, <2>3 DEF SockInv, SocketHeld
    <3>2. BytesKept(s)'
      BY <1>3, <1>4, <2>3 DEF SockInv, BytesKept
    <3>3. ClosesDrained(s)'
      BY <1>3, <1>4, <2>3 DEF SockInv, ClosesDrained
    <3>4. EndSeen(s)'
      BY <1>2, <1>3, <1>4, <1>6, <2>3, <2>5 DEF SockInv, EndSeen
    <3>5. AnswerKept(s)'
      BY <1>6, <2>3 DEF AnswerKept
    <3> QED
      BY <3>1, <3>2, <3>3, <3>4, <3>5 DEF SockInv
  <2>7. ServerHeld'
    BY <1>1, <1>2, <1>3, <2>1 DEF NetInv, ServerHeld
  <2>8. ServerAwake'
    BY <2>1 DEF ServerAwake
  <2> QED
    BY <1>2, <1>5, <2>4, <2>6, <2>7, <2>8, OneStreamKeeps
<1>8. CASE ~(con[s].peer_closed \/ con[s].dead)
  <2>1. /\ app' \in {"write", "r_wait"} /\ log' = log
    BY <1>1, <1>8 DEF ReadEmpty
  <2>2. OneStream(s)
    BY <1>1, <1>3, <1>4, <2>1 DEF OneStream
  <2>3. SockInv(s)'
    BY <1>3, <1>4, <2>1, SockKept
  <2>4. ServerHeld'
    BY <1>1, <1>2, <1>3, <1>6, <2>1 DEF NetInv, ServerHeld
  <2>5. ServerAwake'
    BY <1>1, <1>2, <1>3, <1>8, <2>1 DEF ServerAwake
  <2> QED
    BY <1>2, <1>5, <2>2, <2>3, <2>4, <2>5, OneStreamKeeps
<1> QED
  BY <1>7, <1>8

\* A piece of the answer is written, or there is nothing left to write.
LEMMA WriteKeeps ==
  ASSUME NetInv, Write
  PROVE  NetInv'
<1>1. PICK s \in Socks : s = cur
  BY HasStream DEF Write
<1>2. UNCHANGED <<inbound, wake, poll, device, conns, todo, lsock, sock, queue, cur, met,
                  gone, resets>>
  BY DEF Write, AppOnly, shared, clients
<1>3. /\ TypeOK /\ con \in [Socks -> Streams] /\ log \in [Socks -> Logs]
      /\ SockInv(s)
  BY DEF NetInv, TypeOK, Streams, Logs
<1>4. app = "write" /\ ~con[s].local_closed
  BY <1>1 DEF Write, NetInv, ServerHeld
<1>5. /\ Answer(s) \in Nat /\ Answer(s) <= Response
      /\ log[s].got >= Request => Answer(s) = Response
  BY Sizes DEF Answer
<1>6. CASE /\ con[s].dead \/ con[s].local_closed \/ log[s].wrote = Answer(s)
           /\ app' = "close" /\ UNCHANGED <<con, log>>
  <2>1. OneStream(s)
    BY <1>1, <1>2, <1>3, <1>6 DEF OneStream
  <2>2. SockInv(s)'
    <3>1. SocketHeld(s)'
      BY <1>2, <1>3, <1>6 DEF SockInv, SocketHeld
    <3>2. BytesKept(s)'
      BY <1>2, <1>3, <1>6 DEF SockInv, BytesKept
    <3>3. ClosesDrained(s)'
      BY <1>2, <1>3, <1>6 DEF SockInv, ClosesDrained
    <3>4. EndSeen(s)'
      BY <1>2, <1>3, <1>6 DEF SockInv, EndSeen
    <3>5. AnswerKept(s)'
      <4>1. log[s].got < Request \/ log[s].got >= Request
        BY <1>3, Fields, Sizes
      <4> QED
        BY <1>4, <1>5, <1>6, <4>1 DEF AnswerKept
    <3> QED
      BY <3>1, <3>2, <3>3, <3>4, <3>5 DEF SockInv
  <2>3. ServerHeld'
    BY <1>1, <1>2, <1>4, <1>6 DEF NetInv, ServerHeld
  <2>4. ServerAwake'
    BY <1>6 DEF ServerAwake
  <2>5. Work(s)' => Work(s)
    BY <1>2, <1>6, WorkKept
  <2> QED
    BY <1>4, <2>1, <2>2, <2>3, <2>4, <2>5, OneStreamKeeps
<1>7. CASE /\ ~con[s].dead /\ ~con[s].local_closed /\ log[s].wrote < Answer(s)
           /\ LET n == Min(TxLimit - con[s].tx, Answer(s) - log[s].wrote) IN
              /\ app' = IF n = 0 THEN "w_wait" ELSE "w_wake"
              /\ con' = [con EXCEPT ![s].tx = @ + n]
              /\ log' = [log EXCEPT ![s].wrote = @ + n]
  <2>1. PICK n : n = Min(TxLimit - con[s].tx, Answer(s) - log[s].wrote)
    OBVIOUS
  <2>2. /\ app' = IF n = 0 THEN "w_wait" ELSE "w_wake"
        /\ con' = [con EXCEPT ![s].tx = @ + n]
        /\ log' = [log EXCEPT ![s].wrote = @ + n]
    BY <1>7, <2>1
  <2>3. /\ n \in Nat /\ con[s].tx + n \in 0..TxLimit /\ log[s].wrote + n \in 0..Response
        /\ n = 0 => con[s].tx = TxLimit
    <3>1. /\ con[s].tx \in Nat /\ con[s].tx <= TxLimit /\ log[s].wrote \in Nat
          /\ log[s].wrote < Answer(s)
      BY <1>3, <1>7, Fields, Sizes
    <3> QED
      BY <1>5, <2>1, <3>1, Sizes DEF Min
  <2>4. con' \in [Socks -> Streams]
    BY <1>3, <2>2, <2>3 DEF Streams
  <2>5. log' \in [Socks -> Logs]
    BY <1>3, <2>2, <2>3 DEF Logs
  <2>6. /\ \A r \in Socks \ {s} : con'[r] = con[r] /\ log'[r] = log[r]
        /\ con'[s].rx = con[s].rx /\ con'[s].tx = con[s].tx + n
        /\ con'[s].peer_closed = con[s].peer_closed /\ con'[s].dead = con[s].dead
        /\ con'[s].local_closed = con[s].local_closed
    BY <1>3, <2>2 DEF Streams
  <2>7. /\ log'[s].sent = log[s].sent /\ log'[s].got = log[s].got
        /\ log'[s].wrote = log[s].wrote + n /\ log'[s].rcvd = log[s].rcvd
        /\ log'[s].reset = log[s].reset /\ log'[s].relisted = log[s].relisted
        /\ log'[s].eof = log[s].eof
    BY <1>3, <2>2 DEF Logs
  <2>8. app' \in {"w_wait", "w_wake"} /\ (app' = "w_wait" => n = 0)
    BY <2>2
  <2>9. OneStream(s)
    BY <1>1, <1>2, <2>4, <2>5, <2>6, <2>8 DEF OneStream
  <2>10. SockInv(s)'
    <3>1. SocketHeld(s)'
      BY <1>2, <1>3, <2>6, <2>7 DEF SockInv, SocketHeld
    <3>2. BytesKept(s)'
      BY <1>2, <1>3, <2>3, <2>6, <2>7, Fields DEF SockInv, BytesKept
    <3>3. ClosesDrained(s)'
      BY <1>2, <1>3, <1>4, <2>6, <2>7 DEF SockInv, ClosesDrained
    <3>4. EndSeen(s)'
      BY <1>2, <1>3, <2>6, <2>7 DEF SockInv, EndSeen
    <3>5. AnswerKept(s)'
      BY <1>4, <2>6, <2>8 DEF AnswerKept
    <3> QED
      BY <3>1, <3>2, <3>3, <3>4, <3>5 DEF SockInv
  <2>11. ServerHeld'
    BY <1>1, <1>2, <1>4, <2>6, <2>8 DEF NetInv, ServerHeld
  <2>12. ServerAwake'
    <3>1. app' = "w_wait" => con'[s].tx = TxLimit
      BY <1>3, <2>3, <2>6, <2>8, Fields, Sizes
    <3> QED
      BY <1>1, <1>2, <1>7, <2>6, <2>8, <3>1 DEF ServerAwake
  <2>13. n = 0 => (Work(s)' => Work(s))
    <3>1. n = 0 => con'[s].tx = con[s].tx
      BY <1>3, <2>6, Fields, Sizes
    <3>2. n = 0 => Sent(s)' = Sent(s) /\ Received(s)' = Received(s)
      BY <1>2, <2>6, <3>1 DEF Sent, Received
    <3>3. n = 0 => Closed(s)' = Closed(s)
      BY <1>2, <2>6, <3>1, <3>2 DEF Closed
    <3>4. n = 0 => PeerClosed(s)' = PeerClosed(s)
      BY <1>2, <2>6, <3>2, <3>3 DEF PeerClosed
    <3> QED
      BY <1>2, <2>6, <3>2, <3>3, <3>4 DEF Work
  <2> QED
    BY <1>4, <2>8, <2>9, <2>10, <2>11, <2>12, <2>13, OneStreamKeeps
<1>8. \/ /\ con[s].dead \/ con[s].local_closed \/ log[s].wrote = Answer(s)
         /\ app' = "close" /\ UNCHANGED <<con, log>>
      \/ /\ ~con[s].dead /\ ~con[s].local_closed /\ log[s].wrote < Answer(s)
         /\ LET n == Min(TxLimit - con[s].tx, Answer(s) - log[s].wrote) IN
            /\ app' = IF n = 0 THEN "w_wait" ELSE "w_wake"
            /\ con' = [con EXCEPT ![s].tx = @ + n]
            /\ log' = [log EXCEPT ![s].wrote = @ + n]
  BY <1>1 DEF Write
<1> QED
  BY <1>6, <1>7, <1>8

\* The stream is closed.
LEMMA CloseKeeps ==
  ASSUME NetInv, Close
  PROVE  NetInv'
<1>1. PICK s \in Socks : s = cur
  BY HasStream DEF Close
<1>2. /\ app = "close" /\ app' = "c_wake"
      /\ con' = [con EXCEPT ![s].local_closed = TRUE]
      /\ UNCHANGED <<inbound, wake, poll, device, conns, todo, lsock, sock, log, queue, cur,
                     met, gone, resets>>
  BY <1>1 DEF Close, AppOnly, shared, clients
<1>3. /\ TypeOK /\ con \in [Socks -> Streams] /\ log \in [Socks -> Logs]
      /\ SockInv(s)
  BY DEF NetInv, TypeOK, Streams, Logs
<1>4. con' \in [Socks -> Streams]
  BY <1>2, <1>3 DEF Streams
<1>5. /\ \A r \in Socks \ {s} : con'[r] = con[r]
      /\ con'[s].rx = con[s].rx /\ con'[s].tx = con[s].tx
      /\ con'[s].peer_closed = con[s].peer_closed /\ con'[s].dead = con[s].dead
      /\ con'[s].local_closed
  BY <1>2, <1>3 DEF Streams
<1>6. OneStream(s)
  BY <1>1, <1>2, <1>3, <1>4, <1>5 DEF OneStream
<1>7. SockInv(s)'
  <2>1. SocketHeld(s)'
    BY <1>2, <1>3, <1>5 DEF SockInv, SocketHeld
  <2>2. BytesKept(s)'
    BY <1>2, <1>3, <1>5 DEF SockInv, BytesKept
  <2>3. ClosesDrained(s)'
    BY <1>2, <1>3, <1>5 DEF SockInv, ClosesDrained
  <2>4. EndSeen(s)'
    BY <1>2, <1>3, <1>5 DEF SockInv, EndSeen
  <2>5. AnswerKept(s)'
    BY <1>1, <1>2, <1>3, <1>5 DEF SockInv, AnswerKept
  <2> QED
    BY <2>1, <2>2, <2>3, <2>4, <2>5 DEF SockInv
<1>8. ServerHeld'
  BY <1>1, <1>2, <1>5 DEF NetInv, ServerHeld
<1>9. ServerAwake'
  BY <1>2 DEF ServerAwake
<1> QED
  BY <1>2, <1>6, <1>7, <1>8, <1>9, OneStreamKeeps

\* The closed stream is dropped and the poll thread woken.
LEMMA CloseWakeKeeps ==
  ASSUME NetInv, CloseWake
  PROVE  NetInv'
<1>1. PICK s \in Socks : s = cur
  BY HasStream DEF CloseWake
<1>2. /\ app = "c_wake" /\ app' = "accept" /\ cur' = None /\ wake' = TRUE
      /\ UNCHANGED <<inbound, poll, device, conns, todo, lsock, sock, con, log, queue,
                     met, gone, resets>>
  BY DEF CloseWake, AppOnly, clients
<1>3. TypeOK /\ lsock \in Socks /\ queue \in Seq(Socks) /\ None \notin Socks
  BY DEF NetInv, TypeOK
<1>4. TypeOK'
  BY <1>2, <1>3 DEF TypeOK
<1>5. ASSUME NEW r \in Socks
      PROVE  SockInv(r)'
  BY <1>2, SockKept DEF NetInv
<1>6. ListenerHeld'
  BY <1>2, <1>3 DEF NetInv, ListenerHeld, Fresh
<1>7. QueueHeld'
  BY <1>2, <1>3 DEF NetInv, QueueHeld, Fresh
<1>8. ServerHeld' /\ ServerAwake' /\ PollAwake'
  BY <1>2 DEF NetInv, ServerHeld, ServerAwake, PollAwake
<1> QED
  BY <1>4, <1>5, <1>6, <1>7, <1>8 DEF NetInv

\* The server takes the next stream, which nobody has used.
LEMMA AcceptKeeps ==
  ASSUME NetInv, Accept
  PROVE  NetInv'
<1>1. /\ app = "accept" /\ queue # <<>>
      /\ cur' = Head(queue) /\ queue' = Tail(queue) /\ app' = "read"
      /\ UNCHANGED <<inbound, wake, poll, device, conns, todo, lsock, sock, con, log,
                     met, gone, resets>>
  BY DEF Accept, AppOnly, shared, clients
<1>2. TypeOK /\ queue \in Seq(Socks) /\ None \notin Socks
  BY DEF NetInv, TypeOK
<1>3. /\ Len(queue) \in Nat /\ Len(queue) >= 1
      /\ queue' \in Seq(Socks) /\ Len(queue') = Len(queue) - 1
      /\ \A i \in 1..Len(queue') : queue'[i] = queue[i + 1]
      /\ cur' = queue[1] /\ cur' \in Socks
  <2>1. Len(queue) \in Nat /\ Len(queue) >= 1
    BY <1>1, <1>2, EmptySeq
  <2>2. Head(queue) \in Socks /\ Tail(queue) \in Seq(Socks) /\ Head(queue) = queue[1]
    BY <1>1, <1>2
  <2>3. Len(Tail(queue)) = Len(queue) - 1
        /\ \A i \in 1..Len(Tail(queue)) : Tail(queue)[i] = queue[i + 1]
    BY <1>1, <1>2, <2>1, HeadTailProperties
  <2> QED
    BY <1>1, <2>1, <2>2, <2>3
<1>4. TypeOK'
  BY <1>1, <1>2, <1>3 DEF TypeOK
<1>5. ASSUME NEW r \in Socks
      PROVE  SockInv(r)'
  BY <1>1, SockKept DEF NetInv
<1>6. Fresh(queue[1]) /\ queue[1] # lsock
  BY <1>3 DEF NetInv, QueueHeld
<1>7. ListenerHeld'
  BY <1>1, <1>3, <1>6 DEF NetInv, ListenerHeld, Fresh
<1>8. QueueHeld'
  <2> SUFFICES ASSUME NEW i \in 1..Len(queue')
               PROVE  /\ queue'[i] # lsock' /\ queue'[i] # cur' /\ Fresh(queue[i])'
                      /\ \A j \in 1..Len(queue') : queue'[i] = queue'[j] => i = j
    BY DEF QueueHeld
  <2>1. /\ i + 1 \in 1..Len(queue) /\ 1 \in 1..Len(queue)
        /\ queue'[i] = queue[i + 1] /\ i + 1 # 1
    BY <1>3
  <2>2. queue[i + 1] # lsock /\ queue[i + 1] # queue[1] /\ Fresh(queue[i + 1])
    BY <2>1 DEF NetInv, QueueHeld
  <2>3. ASSUME NEW j \in 1..Len(queue'), queue'[i] = queue'[j]
        PROVE  i = j
    <3>1. j + 1 \in 1..Len(queue) /\ queue'[j] = queue[j + 1]
      BY <1>3
    <3>2. i + 1 = j + 1
      BY <2>1, <2>3, <3>1 DEF NetInv, QueueHeld
    <3> QED
      BY <3>2
  <2>4. Fresh(queue[i])'
    BY <1>1, <2>1, <2>2 DEF Fresh
  <2> QED
    BY <1>1, <1>3, <2>1, <2>2, <2>3, <2>4
<1>9. ServerHeld'
  <2>1. PICK s \in Socks : s = queue[1]
    BY <1>3
  <2>2. ~con[s].local_closed /\ log[s].got = 0
    BY <1>6, <2>1 DEF Fresh
  <2> QED
    BY <1>1, <1>2, <1>3, <2>1, <2>2, Sizes DEF ServerHeld
<1>10. ServerAwake'
  BY <1>1 DEF ServerAwake
<1>11. PollAwake'
  <2>1. \A r : Work(r)' <=> Work(r)
    BY <1>1, WorkKept
  <2> QED
    BY <1>1, <2>1 DEF NetInv, PollAwake
<1> QED
  BY <1>4, <1>5, <1>7, <1>8, <1>9, <1>10, <1>11 DEF NetInv

-----------------------------------------------------------------------------
(***************************************************************************)
(* The theorems.                                                           *)
(***************************************************************************)

\* At the start there is the listener, and nothing else.
LEMMA NetInit ==
  ASSUME Init
  PROVE  NetInv
<1>1. PICK l \in Socks : l = lsock
  BY DEF Init
<1>2. /\ NewSocket \in Sockets /\ NewConn \in Streams /\ NewLog \in Logs
      /\ [NewSocket EXCEPT !.st = "free"] \in Sockets
  <2>1. NewSocket \in Sockets /\ [NewSocket EXCEPT !.st = "free"] \in Sockets
    BY Sizes DEF NewSocket, Sockets
  <2>2. NewConn \in Streams
    BY Sizes DEF NewConn, Streams
  <2>3. NewLog \in Logs
    BY Sizes DEF NewLog, Logs
  <2> QED
    BY <2>1, <2>2, <2>3
<1>3. /\ sock \in [Socks -> Sockets] /\ con \in [Socks -> Streams] /\ log \in [Socks -> Logs]
  BY <1>2 DEF Init
<1>4. TypeOK
  <2>1. /\ inbound \in Seq(Segments) /\ device \in Seq(Segments) /\ queue \in Seq(Socks)
        /\ Len(inbound) <= Inbound /\ Len(device) <= Inbound /\ resets \in 0..MaxResets
    BY Sizes DEF Init
  <2> QED
    BY <1>3, <2>1 DEF Init, TypeOK, Sockets, Streams, Logs
<1>5. ASSUME NEW s \in Socks
      PROVE  SockInv(s)
  <2>1. con[s] = NewConn /\ log[s] = NewLog
    BY DEF Init
  <2>2. /\ sock[s].st = IF s = lsock THEN "listen" ELSE "free"
        /\ sock[s].who = None /\ sock[s].rx = 0 /\ sock[s].tx = 0
    BY DEF Init, NewSocket
  <2>3. conns = {}
    BY DEF Init
  <2>4. SocketHeld(s)
    BY <2>1, <2>2, <2>3 DEF SocketHeld, NewLog
  <2>5. BytesKept(s)
    BY <2>1, <2>2 DEF BytesKept, NewLog, NewConn
  <2>6. ClosesDrained(s)
    BY <2>1, <2>2 DEF ClosesDrained, NewConn
  <2>7. EndSeen(s)
    BY <2>1, <2>2 DEF EndSeen, NewConn, NewLog
  <2>8. AnswerKept(s)
    BY <2>1, <2>2, Sizes DEF AnswerKept, NewConn, NewLog
  <2> QED
    BY <2>4, <2>5, <2>6, <2>7, <2>8 DEF SockInv
<1>6. ListenerHeld
  <2>1. con[l] = NewConn /\ log[l] = NewLog
    BY DEF Init
  <2> QED
    BY <1>1, <2>1 DEF Init, ListenerHeld, Fresh, NewConn, NewLog
<1>7. QueueHeld
  BY DEF Init, QueueHeld
<1>8. ServerHeld /\ ServerAwake
  BY DEF Init, ServerHeld, ServerAwake
<1>9. PollAwake
  BY DEF Init, PollAwake
<1> QED
  BY <1>4, <1>5, <1>6, <1>7, <1>8, <1>9 DEF NetInv

\* Every step keeps the invariant.
LEMMA NetNext ==
  ASSUME NetInv, [Next]_vars
  PROVE  NetInv'
<1>1. ASSUME NEW c \in Clients, Client(c)
      PROVE  NetInv'
  BY <1>1, ClientKeeps
<1>2. CASE Poll
  BY <1>2, RoundKeeps, HandleSynKeeps, HandleDataKeeps, HandleFinKeeps, HandleAckKeeps,
     HandleRstKeeps, HandleNoneKeeps, ListenerKeeps, ServeKeeps DEF Poll
<1>3. ASSUME NEW s \in Socks, PeerTimeout(s)
      PROVE  NetInv'
  BY <1>3, PeerTimeoutKeeps
<1>4. CASE App
  BY <1>4, AcceptKeeps, ReadKeeps, AppMoves, ReadEmptyKeeps, WriteKeeps, CloseKeeps,
     CloseWakeKeeps DEF App
<1>5. CASE UNCHANGED vars
  <2>1. UNCHANGED <<conns, lsock, sock, con, server, log>>
    BY <1>5 DEF vars
  <2>2. TypeOK'
    BY <1>5 DEF NetInv, TypeOK, vars, shared, server, clients
  <2>3. \A r : Work(r)' <=> Work(r)
    BY <2>1, WorkKept
  <2>4. PollAwake'
    BY <1>5, <2>3 DEF NetInv, PollAwake, vars, shared, server
  <2> QED
    BY <2>1, <2>2, <2>4, AllKept DEF NetInv
<1> QED
  BY <1>1, <1>2, <1>3, <1>4, <1>5 DEF Next

\* The invariant of the stack: what each socket, its stream and the two
\* threads hold, in every reachable state (netstack.rs, poll_loop;
\* http.rs, serve).
THEOREM NetInvariant == Spec => []NetInv
<1>1. Init => NetInv
  BY NetInit
<1>2. NetInv /\ [Next]_vars => NetInv'
  BY NetNext
<1> QED
  BY <1>1, <1>2, PTL DEF Spec

\* A stream ends after its last byte, in both directions: read returns 0 only
\* when everything the client sent was read, and the stack's FIN follows the
\* last byte that write_all took.
THEOREM StreamsEnd == Spec => []StreamInv
<1>1. NetInv => StreamInv
  <2> SUFFICES ASSUME NetInv
               PROVE  StreamInv
    OBVIOUS
  <2>1. TypeOK
    BY DEF NetInv
  <2>2. ASSUME NEW s \in Socks, log[s].eof, ~log[s].reset, ~log[s].relisted
        PROVE  log[s].got = log[s].sent
    <3>1. con[s].rx = 0 /\ log[s].got + con[s].rx = log[s].sent
      BY <2>2 DEF NetInv, SockInv, EndSeen
    <3> QED
      BY <2>1, <3>1, Fields
  <2>3. ASSUME NEW s \in Socks, sock[s].st \in {"finwait", "closing"}
        PROVE  con[s].tx = 0 /\ log[s].wrote = log[s].rcvd + sock[s].tx
    <3>1. con[s].tx = 0 /\ log[s].rcvd + sock[s].tx + con[s].tx = log[s].wrote
      BY <2>3 DEF NetInv, SockInv, ClosesDrained, BytesKept
    <3> QED
      BY <2>1, <3>1, Fields
  <2> QED
    BY <2>1, <2>2, <2>3 DEF StreamInv, EofIsTheEnd, FinIsLast
<1> QED
  BY <1>1, NetInvariant, PTL

\* Nobody sleeps on work: the poll thread and the server wait without a
\* wake-up on the way only when there is nothing for them to do, so the timed
\* waits of the two loops are not what moves the bytes.
THEOREM NobodySleeps == Spec => []NobodySleepsOnWork
<1>1. NetInv => NobodySleepsOnWork
  BY DEF NetInv, PollAwake, ServerAwake, NobodySleepsOnWork
<1> QED
  BY <1>1, NetInvariant, PTL

\* A whole request is answered in full before the connection is gone, unless
\* it was reset: only Serve takes a connection away, and finds its socket
\* closed with everything acknowledged.
THEOREM AnswersAreWhole == Spec => WholeAnswer
<1> DEFINE Whole == \A s \in conns \ conns' :
                      log[s].got >= Request /\ ~log[s].reset => log[s].rcvd = Response
<1>1. NetInv /\ [Next]_vars => [Whole]_vars
  <2> SUFFICES ASSUME NetInv, Next, NEW s \in conns \ conns',
                      log[s].got >= Request, ~log[s].reset
               PROVE  log[s].rcvd = Response
    OBVIOUS
  <2>1. TypeOK /\ s \in Socks /\ SockInv(s) /\ s # lsock
    BY DEF NetInv, TypeOK
  <2>2. PICK r \in Socks : Serve(r)
    <3>1. conns' # conns
      OBVIOUS
    <3>2. ~\E c \in Clients : Client(c)
      BY <3>1 DEF Client, ClientSyn, ClientData, ClientFin, ClientAck, ClientRst, ClientGone, Send
    <3>3. ~\E t \in Socks : PeerTimeout(t)
      BY <3>1 DEF PeerTimeout
    <3>4. ~App
      BY <3>1 DEF App, Accept, Read, ReadWake, ReadEmpty, Write, WriteWake, WriteTimer, Close,
         CloseWake, AppOnly
    <3>5. Poll
      BY <3>2, <3>3, <3>4 DEF Next
    <3>6. ~Listener
      BY DEF Listener
    <3>7. \A k : ~Handle(k)
      BY <3>1 DEF Handle
    <3> QED
      BY <3>1, <3>5, <3>6, <3>7 DEF Poll, PollTop, HandleSyn, HandleData, HandleFin, HandleAck,
         HandleRst, HandleNone, PollEnd, PollWake
  <2>3. Served(r)
    BY <2>2, ServeServes
  <2>4. Closed(r) = "closed" /\ r = s
    BY <2>3 DEF Served
  <2>5. sock[s].st = "closed"
    <3>1. sock[s].st = "closed" \/ sock[s].st = "listen"
      BY <2>1, <2>4, Fields, ClosedMoves
    <3>2. sock[s].st # "listen"
      BY <2>1, Fields, Sizes DEF SockInv, SocketHeld, BytesKept
    <3> QED
      BY <3>1, <3>2
  <2>6. con[s].local_closed /\ con[s].tx = 0 /\ sock[s].tx = 0 /\ ~con[s].dead
    BY <2>1, <2>5 DEF SockInv, ClosesDrained
  <2>7. log[s].wrote = Response
    BY <2>1, <2>6, Fields, Sizes DEF SockInv, AnswerKept
  <2>8. log[s].rcvd + sock[s].tx + con[s].tx = log[s].wrote
    BY <2>1, <2>5 DEF SockInv, BytesKept
  <2> QED
    BY <2>1, <2>6, <2>7, <2>8, Fields
<1> QED
  BY <1>1, NetInvariant, PTL DEF Spec, WholeAnswer
=============================================================================
