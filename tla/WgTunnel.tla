------------------------------ MODULE WgTunnel ------------------------------
(***************************************************************************)
(* Two nodes with a WireGuard tunnel (crates/tsnode/src/wireguard.rs, the  *)
(* per-peer state machine Tunn) over a network that loses, duplicates and  *)
(* reorders datagrams.                                                     *)
(*                                                                         *)
(* A method of Tunn takes the tunnel and returns the tunnel it leaves and  *)
(* the messages it hands to the caller.  Cryptography is symbolic: a       *)
(* session key is named by the receiver indices of the initiation and the  *)
(* response that agreed on it, which the ephemeral keys make unique, and   *)
(* decryption succeeds exactly under the same key.  Forged or damaged      *)
(* messages fail their MAC and change nothing, so the network carries only *)
(* genuine ones.                                                           *)
(***************************************************************************)
EXTENDS Naturals, Sequences

CONSTANTS
  Peers,             \* the two nodes
  Packets,           \* IP packets a node may want to send, each once
  RekeyTimeout, KeepaliveTimeout, RekeyAfter, RejectAfter,
  MaxAttempts,       \* MAX_HANDSHAKE_ATTEMPTS
  QueueLimit,        \* length of Tunn.queued
  MaxTime,           \* bound on the clock
  MaxIndex,          \* bound on the receiver indices drawn
  None

\* The body of a keepalive, which is empty: no IP packet is.
Keepalive == "keepalive"

ASSUME WgAssumption ==
  /\ \E a, b \in Peers : a # b /\ Peers = {a, b}
  /\ Keepalive \notin Packets
  /\ {RekeyTimeout, KeepaliveTimeout, RekeyAfter, RejectAfter, MaxAttempts,
      QueueLimit} \subseteq Nat \ {0}
  /\ RekeyAfter < RejectAfter
  /\ MaxTime \in Nat /\ MaxIndex \in Nat

VARIABLES
  now,         \* Instant::now, the same on both nodes
  next,        \* the next receiver index (random in the code, so fresh)
  tunn,        \* each node's Tunn for the other
  net,         \* every message ever sent: delivery is a choice from it
  unsent,      \* packets a node has not handed to encapsulate yet
  delivered,   \* history: the IP packets each node got, in order
  accepted     \* history: initiations each node accepted, in order

vars == <<now, next, tunn, net, unsent, delivered, accepted>>

Other(p) == CHOOSE q \in Peers : q # p

-----------------------------------------------------------------------------
(***************************************************************************)
(* Data.                                                                   *)
(***************************************************************************)
Indices == 1..MaxIndex
Times == 0..MaxTime
Keys == Indices \X Indices

Sessions ==
  [local : Indices, remote : Indices, key : Keys, ctr : Nat, seen : SUBSET Nat,
   created : Times, initiator : BOOLEAN, confirmed : BOOLEAN]

Pendings == [index : Indices, sent : Times, attempts : 1..MaxAttempts]

Tunns ==
  [pending : Pendings \cup {None}, current : Sessions \cup {None},
   previous : Sessions \cup {None}, last_ts : 0..MaxIndex,
   last_sent : Times \cup {None}, last_received : Times \cup {None},
   need_keepalive : BOOLEAN, queued : Seq(Packets)]

\* None is the Option's: no session and no handshake.
ASSUME NoneAssumption == None \notin Sessions \cup Pendings

\* Tunn::new.
NewTunn ==
  [pending |-> None, current |-> None, previous |-> None, last_ts |-> 0,
   last_sent |-> None, last_received |-> None, need_keepalive |-> FALSE,
   queued |-> <<>>]

\* The three messages.  An initiation's timestamp (TAI64N, to the
\* nanosecond) orders the initiations of a node as its indices do.
InitMsg(p, i) == [type |-> "init", from |-> p, index |-> i]
RespMsg(p, i, to) == [type |-> "resp", from |-> p, index |-> i, to |-> to]
DataMsg(p, s, d) ==
  [type |-> "data", from |-> p, to |-> s.remote, key |-> s.key, ctr |-> s.ctr,
   body |-> d]

Expired(s) == now - s.created >= RejectAfter

-----------------------------------------------------------------------------
(***************************************************************************)
(* Methods of Tunn: [t, out] is the tunnel afterwards and what to send.    *)
(***************************************************************************)
Result(t, out) == [t |-> t, out |-> out]

\* seal, on the current session.
Seal(t, p, d) ==
  Result([t EXCEPT !.current.ctr = @ + 1], {DataMsg(p, t.current, d)})

NewInitiation(t, p) ==
  Result([t EXCEPT !.pending =
            [index |-> next, sent |-> now,
             attempts |-> IF @ = None THEN 1 ELSE @.attempts + 1]],
         {InitMsg(p, next)})

InitiateIfNeeded(t, p) ==
  CASE t.current # None -> Result(t, {})
    [] t.current = None /\ t.pending # None
         /\ now - t.pending.sent < RekeyTimeout -> Result(t, {})
    [] t.current = None /\ t.pending # None
         /\ now - t.pending.sent >= RekeyTimeout
         /\ t.pending.attempts >= MaxAttempts ->
         Result([t EXCEPT !.pending = None, !.queued = <<>>], {})
    [] OTHER -> NewInitiation(t, p)

Queue(t, d) ==
  [t EXCEPT !.queued =
     Append(IF Len(@) >= QueueLimit THEN Tail(@) ELSE @, d)]

\* Mutant: an expired session is used.
EncapsulateAlways(t, p, d) ==
  IF t.current = None
  THEN InitiateIfNeeded(Queue(t, d), p)
  ELSE LET sealed == Seal(t, p, d)
       IN  Result([sealed.t EXCEPT !.last_sent = now,
                                   !.need_keepalive = FALSE], sealed.out)

\* encapsulate.
Encapsulate(t, p, d) ==
  IF t.current = None \/ Expired(t.current)
  THEN InitiateIfNeeded(Queue([t EXCEPT !.current = None], d), p)
  ELSE LET s == t.current
           sealed == Seal(t, p, d)
           sent == [sealed.t EXCEPT !.last_sent = now, !.need_keepalive = FALSE]
           init == NewInitiation(sent, p)
       IN  IF s.initiator /\ now - s.created >= RekeyAfter /\ t.pending = None
           THEN Result(init.t, sealed.out \cup init.out)
           ELSE Result(sent, sealed.out)

\* A session both sides can name: created now, nothing sent or received.
NewSession(local, remote, key, initiator) ==
  [local |-> local, remote |-> remote, key |-> key, ctr |-> 0, seen |-> {},
   created |-> now, initiator |-> initiator, confirmed |-> initiator]

\* Mutant: send_counter does not count the flushed packets.
FlushQueueUncounted(t, p) ==
  LET n == Len(t.queued)
      s == t.current
  IN  Result([t EXCEPT !.queued = <<>>,
                       !.last_sent = IF n > 0 THEN now ELSE @],
             {DataMsg(p, [s EXCEPT !.ctr = @ + i - 1], t.queued[i]) : i \in 1..n})

\* flush_queue: the queued packets, in order, on the current session.
FlushQueue(t, p) ==
  LET n == Len(t.queued)
      s == t.current
  IN  Result([t EXCEPT !.queued = <<>>, !.current.ctr = @ + n,
                       !.last_sent = IF n > 0 THEN now ELSE @],
             {DataMsg(p, [s EXCEPT !.ctr = @ + i - 1], t.queued[i]) : i \in 1..n})

\* Mutant: the new session's indices are swapped.
AcceptSwapped(t, p, m) ==
  Result([t EXCEPT !.last_ts = m.index,
                   !.previous = t.current,
                   !.current = NewSession(m.index, next, <<m.index, next>>, FALSE),
                   !.pending = None],
         {RespMsg(p, next, m.index)})

\* accept_initiation: respond, and make the new session the current one.
AcceptInitiation(t, p, m) ==
  Result([t EXCEPT !.last_ts = m.index,
                   !.previous = t.current,
                   !.current = NewSession(next, m.index, <<m.index, next>>, FALSE),
                   !.pending = None],
         {RespMsg(p, next, m.index)})

\* consume_response.
ConsumeResponse(t, p, m) ==
  FlushQueue([t EXCEPT !.pending = None,
                       !.previous = t.current,
                       !.current = NewSession(m.to, m.index, <<m.to, m.index>>, TRUE)],
             p)

\* Mutant: the counter is checked and not recorded.
ConsumeUnrecorded(t, f, m) ==
  LET got == [t EXCEPT ![f].confirmed = TRUE,
                       !.last_received = now,
                       !.need_keepalive = @ \/ m.body # Keepalive]
  IN  IF f = "current" THEN [got EXCEPT !.previous = None] ELSE got

\* consume_transport, on the session in field f.
ConsumeTransport(t, f, m) ==
  LET got == [t EXCEPT ![f].seen = @ \cup {m.ctr}, ![f].confirmed = TRUE,
                       !.last_received = now,
                       !.need_keepalive = @ \/ m.body # Keepalive]
  IN  IF f = "current" THEN [got EXCEPT !.previous = None] ELSE got

\* tick: expiry, ...
Expire(t) ==
  [t EXCEPT !.current = IF @ # None /\ Expired(@) THEN None ELSE @,
            !.previous = IF @ # None /\ Expired(@) THEN None ELSE @]

\* ... the handshake, ...
TickHandshake(t, p) ==
  IF t.pending # None \/ (t.queued # <<>> /\ t.current = None)
  THEN InitiateIfNeeded(t, p)
  ELSE Result(t, {})

\* ... and the passive keepalive.
KeepaliveDue(t) ==
  /\ t.need_keepalive /\ t.last_received # None /\ t.current # None
  /\ now - t.last_received < 2 * KeepaliveTimeout
  /\ t.last_sent # None => now - t.last_sent >= KeepaliveTimeout

TickKeepalive(t, p) ==
  IF KeepaliveDue(t)
  THEN Result([Seal(t, p, Keepalive).t EXCEPT !.last_sent = now,
                                              !.need_keepalive = FALSE],
              Seal(t, p, Keepalive).out)
  ELSE Result(t, {})

Tick(t, p) ==
  LET shake == TickHandshake(Expire(t), p)
      alive == TickKeepalive(shake.t, p)
  IN  Result(alive.t, shake.out \cup alive.out)

-----------------------------------------------------------------------------
(***************************************************************************)
(* The nodes (the callers in magicsock: send_ip, tick_loop, handle_packet) *)
(* and the network.                                                        *)
(***************************************************************************)
Init ==
  /\ now = 0 /\ next = 1
  /\ tunn = [p \in Peers |-> NewTunn]
  /\ net = {}
  /\ unsent = [p \in Peers |-> Packets]
  /\ delivered = [p \in Peers |-> <<>>]
  /\ accepted = [p \in Peers |-> <<>>]

\* Node p keeps r.t and sends r.out; an index drawn is used up.
Apply(p, r) ==
  /\ tunn' = [tunn EXCEPT ![p] = r.t]
  /\ net' = net \cup r.out
  /\ IF \E m \in r.out : m.type \in {"init", "resp"}
     THEN next <= MaxIndex /\ next' = next + 1
     ELSE UNCHANGED next

\* send_ip.
SendIp(p, d) ==
  /\ d \in unsent[p]
  /\ Apply(p, Encapsulate(tunn[p], p, d))
  /\ unsent' = [unsent EXCEPT ![p] = @ \ {d}]
  /\ UNCHANGED <<now, delivered, accepted>>

\* tick_loop, once a second.
TickPeer(p) ==
  /\ Tick(tunn[p], p) # Result(tunn[p], {})
  /\ Apply(p, Tick(tunn[p], p))
  /\ UNCHANGED <<now, unsent, delivered, accepted>>

\* handle_packet, initiation: one older than the last accepted is a replay.
RecvInitiation(p, m) ==
  /\ m.type = "init" /\ m.from = Other(p)
  /\ m.index > tunn[p].last_ts
  /\ Apply(p, AcceptInitiation(tunn[p], p, m))
  /\ accepted' = [accepted EXCEPT ![p] = Append(@, m.index)]
  /\ UNCHANGED <<now, unsent, delivered>>

\* handle_packet, response to the pending initiation; others are ignored.
RecvResponse(p, m) ==
  /\ m.type = "resp" /\ m.from = Other(p)
  /\ tunn[p].pending # None /\ tunn[p].pending.index = m.to
  /\ Apply(p, ConsumeResponse(tunn[p], p, m))
  /\ UNCHANGED <<now, unsent, delivered, accepted>>

\* handle_packet, transport data for the session in field f.
RecvTransport(p, f, m) ==
  LET s == tunn[p][f]
  IN  /\ m.type = "data" /\ m.from = Other(p)
      /\ s # None /\ s.local = m.to /\ s.key = m.key
      /\ f = "previous" => tunn[p].current = None \/ tunn[p].current.local # m.to
      /\ ~Expired(s)
      /\ m.ctr \notin s.seen
      /\ Apply(p, Result(ConsumeTransport(tunn[p], f, m), {}))
      /\ delivered' = IF m.body = Keepalive THEN delivered
                      ELSE [delivered EXCEPT ![p] = Append(@, m.body)]
      /\ UNCHANGED <<now, unsent, accepted>>

\* Time passes.
Elapse ==
  /\ now < MaxTime
  /\ now' = now + 1
  /\ UNCHANGED <<next, tunn, net, unsent, delivered, accepted>>

Next ==
  \/ Elapse
  \/ \E p \in Peers :
       \/ \E d \in Packets : SendIp(p, d)
       \/ TickPeer(p)
       \/ \E m \in net : RecvInitiation(p, m)
       \/ \E m \in net : RecvResponse(p, m)
       \/ \E m \in net, f \in {"current", "previous"} : RecvTransport(p, f, m)

Spec == Init /\ [][Next]_vars

-----------------------------------------------------------------------------
(***************************************************************************)
(* Properties.                                                             *)
(***************************************************************************)
TypeOK ==
  /\ now \in Times /\ next \in 1..MaxIndex + 1
  /\ tunn \in [Peers -> Tunns]
  /\ unsent \in [Peers -> SUBSET Packets]
  /\ delivered \in [Peers -> Seq(Packets)]
  /\ accepted \in [Peers -> Seq(Indices)]

\* The sessions node p can decrypt with.
SessionsOf(p) == {tunn[p].current, tunn[p].previous} \ {None}

(***************************************************************************)
(* No (key, counter) pair ever encrypts two different messages: a repeated *)
(* or late response cannot restart a session's send_counter, and packets   *)
(* flushed from the queue and packets sent later do not share counters.    *)
(***************************************************************************)
NonceUsedOnce ==
  \A m, n \in net :
    m.type = "data" /\ n.type = "data" /\ m.from = n.from
      /\ m.key = n.key /\ m.ctr = n.ctr => m = n

(***************************************************************************)
(* The replay window per session is enough end to end: a packet reaches    *)
(* the peer's stack at most once, over any number of sessions, copies and  *)
(* retransmissions, and only if it was sent.                               *)
(***************************************************************************)
DeliveredOnce ==
  \A p \in Peers :
    /\ \A i, j \in 1..Len(delivered[p]) :
         delivered[p][i] = delivered[p][j] => i = j
    /\ \A i \in 1..Len(delivered[p]) : delivered[p][i] \notin unsent[Other(p)]

(***************************************************************************)
(* Two sessions with the same key are the two ends of one handshake: their *)
(* indices are crossed and exactly one end was its initiator.              *)
(***************************************************************************)
SessionsMatch ==
  \A p \in Peers : \A s \in SessionsOf(p), r \in SessionsOf(Other(p)) :
    s.key = r.key => /\ s.local = r.remote /\ s.remote = r.local
                     /\ s.initiator # r.initiator

(***************************************************************************)
(* An initiation is accepted at most once and never after a newer one: a   *)
(* recorded initiation cannot tear down the session that replaced it.      *)
(***************************************************************************)
InitiationsInOrder ==
  \A p \in Peers : \A i \in 2..Len(accepted[p]) :
    accepted[p][i - 1] < accepted[p][i]

(***************************************************************************)
(* The sessions of a tunnel: both ends agree on each, and none gives way   *)
(* to a recorded initiation, however messages are repeated and reordered   *)
(* (wireguard.rs, accept_initiation and consume_response).                 *)
(***************************************************************************)
SessionsInv == TypeOK /\ SessionsMatch /\ InitiationsInOrder

(***************************************************************************)
(* Nothing is encrypted with a key older than REJECT_AFTER_TIME, by send,  *)
(* keepalive or queue flush.                                               *)
(***************************************************************************)
NoSendAfterExpiry ==
  [][\A p \in Peers : \A m \in net' \ net :
       m.type = "data" /\ m.from = p => ~Expired(tunn'[p].current)]_vars

-----------------------------------------------------------------------------
(***************************************************************************)
(* What makes the invariants inductive.  An index is drawn once, so that a *)
(* handshake message is known by it; a key a node once had a session with  *)
(* is not agreed on again, because the initiation is no longer pending or  *)
(* the index of the response is used up.                                   *)
(***************************************************************************)
Initiated(p, i) == \E m \in net : m.type = "init" /\ m.from = p /\ m.index = i

Responded(p, i) == \E m \in net : m.type = "resp" /\ m.from = p /\ m.index = i

Awaits(p, i) == tunn[p].pending # None /\ tunn[p].pending.index = i

Had(p, k) == (Initiated(p, k[1]) /\ ~Awaits(p, k[1])) \/ Responded(p, k[2])

\* The messages.
MessagesKnown ==
  \A m \in net :
    /\ m.type \in {"init", "resp", "data"} /\ m.from \in Peers
    /\ m.type # "data" => m.index \in Indices /\ m.index < next
    /\ m.type = "data" => /\ m.ctr \in Nat /\ m.body \in Packets \cup {Keepalive}
                          /\ Had(m.from, m.key)

IndicesUnique ==
  \A m, n \in net :
    m.type # "data" /\ n.type # "data" /\ m.index = n.index =>
      m.from = n.from /\ m.type = n.type

\* The sessions and the pending handshake of each node.
SessionKnown(p, s) ==
  /\ IF s.initiator THEN s.key = <<s.local, s.remote>> /\ Initiated(p, s.local)
                    ELSE s.key = <<s.remote, s.local>> /\ Responded(p, s.local)
  /\ Had(p, s.key)

NodeKnown(p) ==
  /\ \A s \in SessionsOf(p) : SessionKnown(p, s)
  /\ tunn[p].current # None /\ tunn[p].previous # None =>
       tunn[p].current.key # tunn[p].previous.key
  /\ tunn[p].pending # None => Initiated(p, tunn[p].pending.index)
  /\ \A i \in 1..Len(accepted[p]) : accepted[p][i] <= tunn[p].last_ts

SessionsKnown == \A p \in Peers : NodeKnown(p)

\* send_counter is ahead of what was sent.
CounterAhead ==
  \A m \in net :
    m.type = "data" /\ tunn[m.from].current # None
      /\ m.key = tunn[m.from].current.key => m.ctr < tunn[m.from].current.ctr

\* A packet is unsent, queued or in one message.
Carries(m, p, d) == m.type = "data" /\ m.from = p /\ m.body = d

PacketOnce(p, q) ==
  /\ \A i, j \in 1..Len(q) : q[i] = q[j] => i = j
  /\ \A i \in 1..Len(q) : q[i] \notin unsent[p]
  /\ \A m \in net : /\ \A d \in unsent[p] : ~Carries(m, p, d)
                    /\ \A i \in 1..Len(q) : ~Carries(m, p, q[i])
  /\ \A m, n \in net : \A d \in Packets : Carries(m, p, d) /\ Carries(n, p, d) => m = n

PacketsOnce == \A p \in Peers : PacketOnce(p, tunn[p].queued)

\* A packet that was delivered came in a message that is a replay now.
Spent(p, m) ==
  /\ Had(p, m.key)
  /\ \A s \in SessionsOf(p) : s.key = m.key => m.ctr \in s.seen

DeliveredSpent ==
  \A p \in Peers : \A i \in 1..Len(delivered[p]) :
    \E m \in net : Carries(m, Other(p), delivered[p][i]) /\ Spent(p, m)

WgInv ==
  /\ TypeOK /\ MessagesKnown /\ IndicesUnique /\ SessionsKnown /\ InitiationsInOrder
  /\ CounterAhead /\ NonceUsedOnce /\ PacketsOnce /\ DeliveredSpent /\ DeliveredOnce
=============================================================================
