------------------------------ MODULE WgProofs ------------------------------
(***************************************************************************)
(* Proofs about WgTunnel, for any packets, timers and limits, any number   *)
(* of handshakes and any order, loss and repetition of the messages.       *)
(*                                                                         *)
(* That a nonce is used once, and a packet delivered once, rests on one    *)
(* fact of the handshake: a node never makes two sessions with the same    *)
(* key.  An initiation's index is drawn once and is pending once, so a     *)
(* repeated response finds nothing pending; a response draws an index of   *)
(* its own, so a repeated initiation, were it accepted, would give another *)
(* key.  Had(p, k) is that memory, and WgInv is built around it: what a    *)
(* node sent, has and was delivered is under keys it Had, and a session it *)
(* makes is under one it had not.                                          *)
(*                                                                         *)
(* WgTunnel keeps the set of counters a session has seen.  The last        *)
(* section proves that the ring of words of ReplayWindow is that set, as   *)
(* far as any answer of the window can tell.                               *)
(***************************************************************************)
EXTENDS WgTunnel, ReplayWindow, Integers, SequenceTheorems, TLAPS

USE WgAssumption, NoneAssumption DEF WgAssumption

-----------------------------------------------------------------------------
(***************************************************************************)
(* The two nodes, and the records.                                         *)
(***************************************************************************)
\* A tunnel has two ends.
LEMMA OtherPeer ==
  ASSUME NEW p \in Peers
  PROVE  /\ Other(p) \in Peers /\ Other(p) # p
         /\ \A q \in Peers : q = p \/ q = Other(p)
         /\ Other(Other(p)) = p
<1>1. \E q \in Peers : q # p
  OBVIOUS
<1>2. Other(p) \in Peers /\ Other(p) # p
  BY <1>1 DEF Other
<1>3. \E q \in Peers : q # Other(p)
  BY <1>2
<1>4. Other(Other(p)) \in Peers /\ Other(Other(p)) # Other(p)
  BY <1>3 DEF Other
<1> QED
  BY <1>2, <1>4

\* The fields of a tunnel, and tunnels with some of them replaced.
LEMMA TunnFields ==
  ASSUME NEW t \in Tunns
  PROVE  /\ t.pending \in Pendings \cup {None}
         /\ t.current \in Sessions \cup {None} /\ t.previous \in Sessions \cup {None}
         /\ t.last_ts \in 0..MaxIndex
         /\ t.last_sent \in Times \cup {None} /\ t.last_received \in Times \cup {None}
         /\ t.need_keepalive \in BOOLEAN /\ t.queued \in Seq(Packets)
BY DEF Tunns

\* A tunnel whose sessions move on is a tunnel ...
LEMMA TunnSessions ==
  ASSUME NEW t \in Tunns, NEW c \in Sessions \cup {None}, NEW s \in Sessions \cup {None}
  PROVE  [t EXCEPT !.current = c, !.previous = s] \in Tunns
BY DEF Tunns

\* ... as is one whose current session changes ...
LEMMA TunnCurrent ==
  ASSUME NEW t \in Tunns, NEW c \in Sessions \cup {None}
  PROVE  [t EXCEPT !.current = c] \in Tunns
BY DEF Tunns

\* ... one whose timers are set ...
LEMMA TunnTimers ==
  ASSUME NEW t \in Tunns, NEW n \in Times \cup {None}, NEW b \in BOOLEAN
  PROVE  /\ [t EXCEPT !.last_sent = n, !.need_keepalive = b] \in Tunns
         /\ [t EXCEPT !.last_sent = n] \in Tunns
         /\ [t EXCEPT !.last_received = n, !.need_keepalive = b] \in Tunns
BY DEF Tunns

\* ... one whose queue changes, with or without a handshake ...
LEMMA TunnQueues ==
  ASSUME NEW t \in Tunns, NEW q \in Seq(Packets), NEW h \in Pendings \cup {None}
  PROVE  /\ [t EXCEPT !.queued = q] \in Tunns
         /\ [t EXCEPT !.pending = h, !.queued = q] \in Tunns
BY DEF Tunns

\* ... and one whose handshake changes.
LEMMA TunnPending ==
  ASSUME NEW t \in Tunns, NEW h \in Pendings \cup {None}
  PROVE  [t EXCEPT !.pending = h] \in Tunns
BY DEF Tunns

\* Sessions as seal and consume_transport leave them.
LEMMA SessionUpdates ==
  ASSUME NEW s \in Sessions, NEW n \in Nat
  PROVE  /\ [s EXCEPT !.ctr = @ + n] \in Sessions
         /\ [s EXCEPT !.seen = @ \cup {n}, !.confirmed = TRUE] \in Sessions
<1>1. s.ctr + n \in Nat /\ s.seen \cup {n} \in SUBSET Nat
  BY DEF Sessions
<1>2. [s EXCEPT !.ctr = @ + n] \in Sessions
  BY <1>1 DEF Sessions
<1>3. [s EXCEPT !.seen = @ \cup {n}, !.confirmed = TRUE] \in Sessions
  BY <1>1 DEF Sessions
<1> QED
  BY <1>2, <1>3

\* A new session.
LEMMA NewSessionType ==
  ASSUME NEW l \in Indices, NEW r \in Indices, NEW b \in BOOLEAN, now \in Times,
         NEW k \in Keys
  PROVE  NewSession(l, r, k, b) \in Sessions
BY DEF NewSession, Sessions

-----------------------------------------------------------------------------
(***************************************************************************)
(* What the methods that send on the session there is, or start a          *)
(* handshake, do: encapsulate with a packet b, tick with b the keepalive.  *)
(***************************************************************************)

\* The tunnel t becomes r.t, and r.out is sent.
SendStep(p, t, r, b) ==
  /\ r.t \in Tunns
  /\ r.t.last_ts = t.last_ts
  /\ r.t.previous = t.previous \/ r.t.previous = None
  /\ \/ r.t.pending = None \/ r.t.pending = t.pending
     \/ r.t.pending # None /\ r.t.pending.index = next /\ InitMsg(p, next) \in r.out
  /\ \/ r.t.current = None \/ r.t.current = t.current
     \/ t.current # None /\ r.t.current = [t.current EXCEPT !.ctr = @ + 1]
  /\ \A m \in r.out :
       \/ m = InitMsg(p, next)
       \/ /\ m = DataMsg(p, t.current, b) /\ t.current # None /\ ~Expired(t.current)
          /\ r.t.current = [t.current EXCEPT !.ctr = @ + 1]

\* new_initiation.
LEMMA NewInitiationSends ==
  ASSUME NEW p, NEW t \in Tunns, now \in Times, next \in Indices,
         t.pending # None => t.pending.attempts < MaxAttempts
  PROVE  LET r == NewInitiation(t, p) IN
         /\ r.t \in Tunns /\ r.out = {InitMsg(p, next)}
         /\ r.t.pending # None /\ r.t.pending.index = next
         /\ r.t.current = t.current /\ r.t.previous = t.previous
         /\ r.t.last_ts = t.last_ts /\ r.t.queued = t.queued
<1> DEFINE h == [index |-> next, sent |-> now,
                 attempts |-> IF t.pending = None THEN 1 ELSE t.pending.attempts + 1]
<1>1. h \in Pendings
  BY TunnFields DEF Pendings
<1>2. NewInitiation(t, p) = [t |-> [t EXCEPT !.pending = h], out |-> {InitMsg(p, next)}]
  BY DEF NewInitiation, Result
<1>3. h.index = next
  OBVIOUS
<1> HIDE DEF h
<1>4. [t EXCEPT !.pending = h] \in Tunns /\ h # None
  BY <1>1, TunnPending
<1>5. LET u == [t EXCEPT !.pending = h] IN
      /\ u.pending = h /\ u.current = t.current /\ u.previous = t.previous
      /\ u.last_ts = t.last_ts /\ u.queued = t.queued
  BY DEF Tunns
<1> DEFINE u == [t EXCEPT !.pending = h]
<1> HIDE DEF u
<1>6. /\ NewInitiation(t, p).t = u /\ NewInitiation(t, p).out = {InitMsg(p, next)}
      /\ u \in Tunns /\ u.pending = h /\ u.current = t.current
      /\ u.previous = t.previous /\ u.last_ts = t.last_ts /\ u.queued = t.queued
  BY <1>2, <1>4, <1>5 DEF u
<1> QED
  BY <1>3, <1>4, <1>6

\* initiate_if_needed.
LEMMA InitiateSends ==
  ASSUME NEW p, NEW t \in Tunns, now \in Times, NEW r, r = InitiateIfNeeded(t, p),
         InitMsg(p, next) \in r.out => next \in Indices
  PROVE  /\ r.t \in Tunns /\ r.out \subseteq {InitMsg(p, next)}
         /\ \/ r.t.pending = None \/ r.t.pending = t.pending
            \/ r.t.pending # None /\ r.t.pending.index = next /\ InitMsg(p, next) \in r.out
         /\ r.t.current = t.current /\ r.t.previous = t.previous
         /\ r.t.last_ts = t.last_ts
         /\ r.t.queued = t.queued \/ r.t.queued = << >>
         /\ t.current # None => r = Result(t, {})
<1> DEFINE given == [t EXCEPT !.pending = None, !.queued = << >>]
<1>1. CASE r = Result(t, {})
  BY <1>1 DEF Result
<1>2. CASE r = Result(given, {}) /\ t.current = None
  <2>1. << >> \in Seq(Packets)
    OBVIOUS
  <2>2. given \in Tunns
    BY <2>1, TunnQueues
  <2>3. /\ given.pending = None /\ given.queued = << >>
        /\ given.current = t.current /\ given.previous = t.previous
        /\ given.last_ts = t.last_ts
    BY DEF Tunns
  <2>4. r.t = given /\ r.out = {}
    BY <1>2 DEF Result
  <2> HIDE DEF given
  <2> QED
    BY <1>2, <2>2, <2>3, <2>4
<1>3. CASE /\ r = NewInitiation(t, p) /\ t.current = None
           /\ t.pending # None => t.pending.attempts < MaxAttempts
  <2>1. InitMsg(p, next) \in r.out
    BY <1>3 DEF NewInitiation, Result
  <2> QED
    BY <1>3, <2>1, NewInitiationSends
<1>4. t.pending # None => t.pending.attempts \in Nat /\ t.pending.sent \in Nat
  BY TunnFields DEF Pendings, Times
<1>5. MaxAttempts \in Nat /\ RekeyTimeout \in Nat /\ now \in Nat
  BY DEF Times
<1>6. \/ r = Result(t, {})
      \/ r = Result(given, {}) /\ t.current = None
      \/ /\ r = NewInitiation(t, p) /\ t.current = None
         /\ t.pending # None => t.pending.attempts < MaxAttempts
  <2>1. CASE t.current # None
    BY <2>1 DEF InitiateIfNeeded
  <2>2. CASE t.current = None /\ t.pending = None
    BY <2>2 DEF InitiateIfNeeded
  <2>3. CASE t.current = None /\ t.pending # None
    <3> HIDE DEF given
    <3>1. \/ now - t.pending.sent < RekeyTimeout
          \/ now - t.pending.sent >= RekeyTimeout /\ t.pending.attempts >= MaxAttempts
          \/ /\ ~(now - t.pending.sent < RekeyTimeout)
             /\ t.pending.attempts < MaxAttempts /\ ~(t.pending.attempts >= MaxAttempts)
      BY <1>4, <1>5, <2>3
    <3> QED
      BY <1>4, <1>5, <2>3, <3>1 DEF InitiateIfNeeded, given
  <2> QED
    BY <2>1, <2>2, <2>3
<1> HIDE DEF given
<1> QED
  BY <1>1, <1>2, <1>3, <1>6

\* seal.
LEMMA SealSends ==
  ASSUME NEW p, NEW t \in Tunns, t.current # None, NEW d
  PROVE  LET r == Seal(t, p, d) IN
         /\ r.t \in Tunns /\ r.out = {DataMsg(p, t.current, d)}
         /\ r.t.current = [t.current EXCEPT !.ctr = @ + 1]
         /\ r.t.previous = t.previous /\ r.t.pending = t.pending
         /\ r.t.last_ts = t.last_ts /\ r.t.queued = t.queued
<1>1. t.current \in Sessions
  BY TunnFields
<1>2. [t.current EXCEPT !.ctr = @ + 1] \in Sessions
  BY <1>1, SessionUpdates
<1> DEFINE s == [t.current EXCEPT !.ctr = @ + 1]
<1>3. Seal(t, p, d) = [t |-> [t EXCEPT !.current = s], out |-> {DataMsg(p, t.current, d)}]
  BY DEF Seal, Result
<1> HIDE DEF s
<1>4. [t EXCEPT !.current = s] \in Tunns
  BY <1>2, TunnCurrent DEF s
<1>5. /\ [t EXCEPT !.current = s].current = s
      /\ [t EXCEPT !.current = s].previous = t.previous
      /\ [t EXCEPT !.current = s].pending = t.pending
      /\ [t EXCEPT !.current = s].last_ts = t.last_ts
      /\ [t EXCEPT !.current = s].queued = t.queued
  BY DEF Tunns
<1>6. s = [t.current EXCEPT !.ctr = @ + 1]
  BY DEF s
<1> DEFINE u == [t EXCEPT !.current = s]
<1>7. Seal(t, p, d).t = u /\ Seal(t, p, d).out = {DataMsg(p, t.current, d)}
  BY <1>3
<1> HIDE DEF u
<1> QED
  BY <1>4, <1>5, <1>6, <1>7 DEF u

\* A packet is put into the queue.
LEMMA QueueTunn ==
  ASSUME NEW t \in Tunns, NEW d \in Packets
  PROVE  LET u == Queue(t, d) IN
         /\ u \in Tunns
         /\ u.current = t.current /\ u.previous = t.previous /\ u.pending = t.pending
         /\ u.last_ts = t.last_ts
<1> DEFINE q == Append(IF Len(t.queued) >= QueueLimit THEN Tail(t.queued) ELSE t.queued, d)
<1>1. t.queued \in Seq(Packets)
  BY TunnFields
<1>2. q \in Seq(Packets)
  <2>1. CASE Len(t.queued) >= QueueLimit
    <3>1. t.queued # << >>
      BY <1>1, <2>1
    <3>2. Tail(t.queued) \in Seq(Packets)
      BY <1>1, <3>1
    <3> QED
      BY <2>1, <3>2
  <2>2. CASE ~(Len(t.queued) >= QueueLimit)
    BY <1>1, <2>2
  <2> QED
    BY <2>1, <2>2
<1>3. Queue(t, d) = [t EXCEPT !.queued = q]
  BY DEF Queue
<1> HIDE DEF q
<1>4. [t EXCEPT !.queued = q] \in Tunns
  BY <1>2 DEF Tunns
<1> QED
  BY <1>3, <1>4 DEF Tunns

\* What a tunnel with other timers keeps.
LEMMA SentTunn ==
  ASSUME NEW t \in Tunns, now \in Times
  PROVE  LET u == [t EXCEPT !.last_sent = now, !.need_keepalive = FALSE] IN
         /\ u \in Tunns
         /\ u.current = t.current /\ u.previous = t.previous /\ u.pending = t.pending
         /\ u.last_ts = t.last_ts /\ u.queued = t.queued
<1> DEFINE u == [t EXCEPT !.last_sent = now, !.need_keepalive = FALSE]
<1>1. u \in Tunns
  BY TunnTimers
<1>2. /\ u.current = t.current /\ u.previous = t.previous /\ u.pending = t.pending
      /\ u.last_ts = t.last_ts /\ u.queued = t.queued
  BY DEF Tunns
<1> QED
  BY <1>1, <1>2

\* encapsulate: the packet is sent on a session that is not too old, or
\* queued.
LEMMA EncapsulateSends ==
  ASSUME NEW p, NEW t \in Tunns, NEW d \in Packets, now \in Times,
         NEW r, r = Encapsulate(t, p, d), InitMsg(p, next) \in r.out => next \in Indices
  PROVE  /\ SendStep(p, t, r, d)
         /\ \/ r.t.queued = t.queued
            \/ /\ \A m \in r.out : m.type # "data"
               /\ r.t.queued = << >> \/ r.t.queued = Queue(t, d).queued
<1>0. InitMsg(p, next).type # "data"
  BY DEF InitMsg
<1>1. CASE t.current = None \/ Expired(t.current)
  <2> DEFINE c == [t EXCEPT !.current = None]
             u == Queue(c, d)
  <2>1. r = InitiateIfNeeded(u, p)
    BY <1>1 DEF Encapsulate
  <2>2. c \in Tunns
    BY TunnCurrent
  <2>3. /\ c.current = None /\ c.previous = t.previous /\ c.pending = t.pending
        /\ c.last_ts = t.last_ts /\ c.queued = t.queued
    BY DEF Tunns
  <2>4. u.queued = Queue(t, d).queued
    <3>1. u.queued = Append(IF Len(c.queued) >= QueueLimit THEN Tail(c.queued)
                                                         ELSE c.queued, d)
      BY <2>2 DEF Queue, Tunns
    <3> HIDE DEF c
    <3>2. Queue(t, d).queued = Append(IF Len(t.queued) >= QueueLimit THEN Tail(t.queued)
                                                                   ELSE t.queued, d)
      BY DEF Queue, Tunns
    <3> QED
      BY <2>3, <3>1, <3>2
  <2> HIDE DEF c
  <2>5. /\ u \in Tunns /\ u.current = None /\ u.previous = t.previous
        /\ u.pending = t.pending /\ u.last_ts = t.last_ts
    BY <2>2, <2>3, QueueTunn
  <2> HIDE DEF u
  <2>6. /\ r.t \in Tunns /\ r.out \subseteq {InitMsg(p, next)}
        /\ \/ r.t.pending = None \/ r.t.pending = u.pending
           \/ r.t.pending # None /\ r.t.pending.index = next /\ InitMsg(p, next) \in r.out
        /\ r.t.current = u.current /\ r.t.previous = u.previous
        /\ r.t.last_ts = u.last_ts
        /\ r.t.queued = u.queued \/ r.t.queued = << >>
    BY <2>1, <2>5, InitiateSends
  <2> QED
    BY <1>0, <2>4, <2>5, <2>6 DEF SendStep
<1>2. CASE t.current # None /\ ~Expired(t.current)
  <2> DEFINE sealed == Seal(t, p, d)
             sent == [sealed.t EXCEPT !.last_sent = now, !.need_keepalive = FALSE]
             init == NewInitiation(sent, p)
  <2>1. \/ r = [t |-> sent, out |-> sealed.out]
        \/ t.pending = None /\ r = [t |-> init.t, out |-> sealed.out \cup init.out]
    BY <1>2 DEF Encapsulate, Result
  <2>2. /\ sealed.t \in Tunns /\ sealed.out = {DataMsg(p, t.current, d)}
        /\ sealed.t.current = [t.current EXCEPT !.ctr = @ + 1]
        /\ sealed.t.previous = t.previous /\ sealed.t.pending = t.pending
        /\ sealed.t.last_ts = t.last_ts /\ sealed.t.queued = t.queued
    BY <1>2, SealSends
  <2> HIDE DEF sealed
  <2>3. /\ sent \in Tunns
        /\ sent.current = sealed.t.current /\ sent.previous = sealed.t.previous
        /\ sent.pending = sealed.t.pending
        /\ sent.last_ts = sealed.t.last_ts /\ sent.queued = sealed.t.queued
    BY <2>2, SentTunn
  <2> HIDE DEF sent
  <2>4. CASE r = [t |-> sent, out |-> sealed.out]
    <3>1. r.t = sent /\ r.out = {DataMsg(p, t.current, d)}
      BY <2>2, <2>4
    <3> QED
      BY <1>2, <2>2, <2>3, <3>1 DEF SendStep
  <2>5. CASE t.pending = None /\ r = [t |-> init.t, out |-> sealed.out \cup init.out]
    <3>1. r.t = init.t /\ r.out = {DataMsg(p, t.current, d)} \cup init.out
      BY <2>2, <2>5
    <3>2. InitMsg(p, next) \in r.out
      BY <3>1 DEF NewInitiation, Result
    <3>3. /\ init.t \in Tunns /\ init.out = {InitMsg(p, next)}
          /\ init.t.pending # None /\ init.t.pending.index = next
          /\ init.t.current = sent.current /\ init.t.previous = sent.previous
          /\ init.t.last_ts = sent.last_ts /\ init.t.queued = sent.queued
      BY <2>2, <2>3, <2>5, <3>2, NewInitiationSends
    <3> HIDE DEF init
    <3> QED
      BY <1>2, <2>2, <2>3, <3>1, <3>2, <3>3 DEF SendStep
  <2> QED
    BY <2>1, <2>4, <2>5
<1> QED
  BY <1>1, <1>2

\* tick: what is too old goes, then the handshake or a keepalive.
LEMMA TickSends ==
  ASSUME NEW p, NEW t \in Tunns, now \in Times,
         NEW r, r = Tick(t, p), InitMsg(p, next) \in r.out => next \in Indices
  PROVE  /\ SendStep(p, t, r, Keepalive)
         /\ r.t.queued = t.queued \/ r.t.queued = << >>
<1> DEFINE u == Expire(t)
           shake == TickHandshake(u, p)
           alive == TickKeepalive(shake.t, p)
<1>1. r = [t |-> alive.t, out |-> shake.out \cup alive.out]
  BY DEF Tick, Result
<1>2. /\ u \in Tunns
      /\ u.current = None \/ (u.current = t.current /\ ~Expired(t.current))
      /\ u.previous = t.previous \/ u.previous = None
      /\ u.pending = t.pending /\ u.last_ts = t.last_ts /\ u.queued = t.queued
  <2> DEFINE c == IF t.current # None /\ Expired(t.current) THEN None ELSE t.current
             s == IF t.previous # None /\ Expired(t.previous) THEN None ELSE t.previous
  <2>1. c \in Sessions \cup {None} /\ s \in Sessions \cup {None}
    BY TunnFields
  <2>2. u = [t EXCEPT !.current = c, !.previous = s]
    BY DEF Expire
  <2>3. c = None \/ (c = t.current /\ ~Expired(t.current))
    OBVIOUS
  <2>4. s = t.previous \/ s = None
    OBVIOUS
  <2> HIDE DEF c, s
  <2>5. [t EXCEPT !.current = c, !.previous = s] \in Tunns
    BY <2>1, TunnSessions
  <2>6. /\ u.current = c /\ u.previous = s
        /\ u.pending = t.pending /\ u.last_ts = t.last_ts /\ u.queued = t.queued
    BY <2>2 DEF Tunns
  <2> HIDE DEF u
  <2> QED
    BY <2>2, <2>3, <2>4, <2>5, <2>6
<1> HIDE DEF u
<1>3. InitMsg(p, next) \in shake.out => next \in Indices
  BY <1>1
<1>4. /\ shake.t \in Tunns /\ shake.out \subseteq {InitMsg(p, next)}
      /\ \/ shake.t.pending = None \/ shake.t.pending = u.pending
         \/ /\ shake.t.pending # None /\ shake.t.pending.index = next
            /\ InitMsg(p, next) \in shake.out
      /\ shake.t.current = u.current /\ shake.t.previous = u.previous
      /\ shake.t.last_ts = u.last_ts
      /\ shake.t.queued = u.queued \/ shake.t.queued = << >>
  <2>1. CASE shake = Result(u, {})
    BY <1>2, <2>1 DEF Result
  <2>2. CASE shake = InitiateIfNeeded(u, p)
    <3> HIDE DEF shake
    <3> QED
      BY <1>2, <1>3, <2>2, InitiateSends
  <2> QED
    BY <2>1, <2>2 DEF TickHandshake
<1> HIDE DEF shake
<1>5. CASE alive = Result(shake.t, {})
  <2>1. r.t = shake.t /\ r.out = shake.out
    BY <1>1, <1>5 DEF Result
  <2> QED
    BY <1>2, <1>4, <2>1 DEF SendStep
<1>6. CASE KeepaliveDue(shake.t)
  <2> DEFINE sealed == Seal(shake.t, p, Keepalive)
             sent == [sealed.t EXCEPT !.last_sent = now, !.need_keepalive = FALSE]
  <2>1. alive = [t |-> sent, out |-> sealed.out]
    BY <1>6 DEF TickKeepalive, Result
  <2>2. shake.t.current # None
    BY <1>6 DEF KeepaliveDue
  <2>3. /\ sealed.t \in Tunns /\ sealed.out = {DataMsg(p, shake.t.current, Keepalive)}
        /\ sealed.t.current = [shake.t.current EXCEPT !.ctr = @ + 1]
        /\ sealed.t.previous = shake.t.previous /\ sealed.t.pending = shake.t.pending
        /\ sealed.t.last_ts = shake.t.last_ts /\ sealed.t.queued = shake.t.queued
    <3>1. ASSUME NEW x \in Tunns, x.current # None, NEW b
          PROVE  LET y == Seal(x, p, b) IN
                 /\ y.t \in Tunns /\ y.out = {DataMsg(p, x.current, b)}
                 /\ y.t.current = [x.current EXCEPT !.ctr = @ + 1]
                 /\ y.t.previous = x.previous /\ y.t.pending = x.pending
                 /\ y.t.last_ts = x.last_ts /\ y.t.queued = x.queued
      BY <3>1, SealSends
    <3> QED
      BY <1>4, <2>2, <3>1
  <2> HIDE DEF sealed
  <2>4. /\ sent \in Tunns
        /\ sent.current = sealed.t.current /\ sent.previous = sealed.t.previous
        /\ sent.pending = sealed.t.pending
        /\ sent.last_ts = sealed.t.last_ts /\ sent.queued = sealed.t.queued
    BY <2>3, SentTunn
  <2> HIDE DEF sent
  <2>5. r.t = sent /\ r.out = shake.out \cup sealed.out
    BY <1>1, <2>1
  <2> QED
    BY <1>2, <1>4, <2>2, <2>3, <2>4, <2>5 DEF SendStep
<1> QED
  BY <1>5, <1>6 DEF TickKeepalive

-----------------------------------------------------------------------------
(***************************************************************************)
(* The network and the keys, for any step of a node p.                     *)
(***************************************************************************)

\* The pending handshake of p stays, goes, or is one with a new index.
Moves(p, t) ==
  \/ t.pending = None \/ t.pending = tunn[p].pending
  \/ t.pending # None /\ t.pending.index = next

\* p sends at most one handshake message, with a new index, and data that
\* is well formed.
Speaks(p, out) ==
  /\ \A m \in out : /\ m.type \in {"init", "resp", "data"} /\ m.from = p
                    /\ m.type # "data" => m.index = next
                    /\ m.type = "data" => m.ctr \in Nat /\ m.body \in Packets \cup {Keepalive}
  /\ \A m, n \in out : m.type # "data" /\ n.type # "data" => m.type = n.type

\* What a node initiated, responded to and had stays so: an index that is
\* drawn now was not in any message.
LEMMA HadStays ==
  ASSUME MessagesKnown, tunn \in [Peers -> Tunns], NEW p \in Peers, NEW r, Apply(p, r),
         Moves(p, r.t), NEW q \in Peers
  PROVE  /\ \A i : Initiated(q, i) => Initiated(q, i)'
         /\ \A i : Responded(q, i) => Responded(q, i)'
         /\ \A k : Had(q, k) => Had(q, k)'
<1>1. net \subseteq net' /\ tunn' = [tunn EXCEPT ![p] = r.t]
  BY DEF Apply
<1>2. ASSUME NEW i, Initiated(q, i) PROVE Initiated(q, i)'
  BY <1>1, <1>2 DEF Initiated
<1>3. ASSUME NEW i, Responded(q, i) PROVE Responded(q, i)'
  BY <1>1, <1>3 DEF Responded
<1>4. ASSUME NEW i, Initiated(q, i), ~Awaits(q, i) PROVE ~Awaits(q, i)'
  <2>1. i \in Indices /\ i < next
    BY <1>4 DEF MessagesKnown, Initiated
  <2>2. i # next
    BY <2>1 DEF Indices
  <2>3. CASE q # p
    BY <1>1, <1>4, <2>3 DEF Awaits
  <2>4. CASE q = p
    BY <1>1, <1>4, <2>2, <2>4 DEF Awaits, Moves
  <2> QED
    BY <2>3, <2>4
<1> QED
  BY <1>2, <1>3, <1>4 DEF Had

\* The messages in the network stay known and their indices unique.
LEMMA NetStep ==
  ASSUME MessagesKnown, IndicesUnique, TypeOK, NEW p \in Peers, NEW r, Apply(p, r),
         Moves(p, r.t), Speaks(p, r.out),
         \A m \in r.out : m.type = "data" => Had(p, m.key)'
  PROVE  MessagesKnown' /\ IndicesUnique' /\ next' \in 1..MaxIndex + 1
<1>1. /\ net' = net \cup r.out
      /\ next \in Nat /\ next >= 1 /\ next <= MaxIndex + 1
      /\ tunn \in [Peers -> Tunns]
  BY DEF Apply, TypeOK
<1>2. /\ next' \in Nat /\ next' >= next /\ next' <= MaxIndex + 1
      /\ \A m \in r.out : m.type # "data" => next <= MaxIndex /\ next' = next + 1
  BY <1>1 DEF Apply, Speaks
<1>3. ASSUME NEW m \in net'
      PROVE  /\ m.type \in {"init", "resp", "data"} /\ m.from \in Peers
             /\ m.type # "data" => m.index \in Indices /\ m.index < next'
             /\ m.type = "data" => /\ m.ctr \in Nat /\ m.body \in Packets \cup {Keepalive}
                                   /\ Had(m.from, m.key)'
  <2>1. CASE m \in net
    <3>1. /\ m.type \in {"init", "resp", "data"} /\ m.from \in Peers
          /\ m.type # "data" => m.index \in Indices /\ m.index < next
          /\ m.type = "data" => /\ m.ctr \in Nat /\ m.body \in Packets \cup {Keepalive}
                                /\ Had(m.from, m.key)
      BY <2>1 DEF MessagesKnown
    <3>2. m.type = "data" => Had(m.from, m.key)'
      BY <1>1, <3>1, HadStays
    <3>3. m.type # "data" => m.index < next'
      BY <1>1, <1>2, <3>1 DEF Indices
    <3> QED
      BY <3>1, <3>2, <3>3
  <2>2. CASE m \in r.out
    <3>1. m.type # "data" => m.index \in Indices /\ m.index < next'
      BY <1>1, <1>2, <2>2 DEF Speaks, Indices
    <3> QED
      BY <2>2, <3>1 DEF Speaks
  <2> QED
    BY <1>1, <2>1, <2>2
<1>4. ASSUME NEW m \in net', NEW n \in net', m.type # "data", n.type # "data",
             m.index = n.index
      PROVE  m.from = n.from /\ m.type = n.type
  <2>1. \A x \in net : x.type # "data" => x.index # next
    BY <1>1 DEF MessagesKnown, Indices
  <2>2. \A x \in r.out : x.type # "data" => x.index = next /\ x.from = p
    BY DEF Speaks
  <2>3. CASE m \in net /\ n \in net
    BY <1>4, <2>3 DEF IndicesUnique
  <2>4. CASE m \in r.out /\ n \in r.out
    BY <1>4, <2>2, <2>4 DEF Speaks
  <2> QED
    BY <1>1, <1>4, <2>1, <2>2, <2>3, <2>4
<1>5. MessagesKnown'
  BY <1>3 DEF MessagesKnown
<1>6. IndicesUnique'
  BY <1>4 DEF IndicesUnique
<1> QED
  BY <1>1, <1>2, <1>5, <1>6

\* The sessions of the node that does not move.
LEMMA OtherKnown ==
  ASSUME MessagesKnown, SessionsKnown, tunn \in [Peers -> Tunns], NEW p \in Peers,
         NEW r, Apply(p, r), Moves(p, r.t), NEW q \in Peers, q # p,
         accepted'[q] = accepted[q]
  PROVE  NodeKnown(q)'
<1>1. tunn'[q] = tunn[q]
  BY DEF Apply
<1>2. /\ \A i : Initiated(q, i) => Initiated(q, i)'
      /\ \A i : Responded(q, i) => Responded(q, i)'
      /\ \A k : Had(q, k) => Had(q, k)'
  BY HadStays
<1>3. NodeKnown(q)
  BY DEF SessionsKnown
<1>4. ASSUME NEW s \in SessionsOf(q)' PROVE SessionKnown(q, s)'
  <2>1. SessionKnown(q, s)
    BY <1>1, <1>3, <1>4 DEF SessionsOf, NodeKnown
  <2> QED
    BY <1>2, <2>1 DEF SessionKnown
<1>5. (tunn[q].pending # None => Initiated(q, tunn[q].pending.index))'
  BY <1>1, <1>2, <1>3 DEF NodeKnown
<1> QED
  BY <1>1, <1>3, <1>4, <1>5 DEF NodeKnown

\* A message that is a replay for a node remains one: its session keeps what
\* it has seen, and a new session is under a key the node did not have.
LEMMA SpentStays ==
  ASSUME MessagesKnown, tunn \in [Peers -> Tunns], NEW p \in Peers,
         NEW r, Apply(p, r), Moves(p, r.t),
         \A s \in {r.t.current, r.t.previous} \ {None} :
           \/ ~Had(p, s.key)
           \/ \E o \in SessionsOf(p) : o.key = s.key /\ o.seen \subseteq s.seen,
         NEW q \in Peers, NEW m, Spent(q, m)
  PROVE  Spent(q, m)'
<1>1. Had(q, m.key)'
  BY HadStays DEF Spent
<1>2. CASE q # p
  <2>1. SessionsOf(q)' = SessionsOf(q)
    BY <1>2 DEF Apply, SessionsOf
  <2> QED
    BY <1>1, <2>1 DEF Spent
<1>3. CASE q = p
  <2>1. SessionsOf(q)' = {r.t.current, r.t.previous} \ {None}
    BY <1>3 DEF Apply, SessionsOf
  <2>2. ASSUME NEW s \in SessionsOf(q)', s.key = m.key PROVE m.ctr \in s.seen
    <3>1. Had(p, s.key)
      BY <1>3, <2>2 DEF Spent
    <3>2. PICK o \in SessionsOf(p) : o.key = s.key /\ o.seen \subseteq s.seen
      BY <2>1, <3>1
    <3> QED
      BY <1>3, <2>2, <3>2 DEF Spent
  <2> QED
    BY <1>1, <2>2 DEF Spent
<1> QED
  BY <1>2, <1>3

\* send_counter stays ahead, and no counter is used twice: what p sends is on
\* its current session, from the counter it had or on a key it had not.
LEMMA CounterStep ==
  ASSUME MessagesKnown, CounterAhead, NonceUsedOnce, tunn \in [Peers -> Tunns],
         NEW p \in Peers, NEW r, Apply(p, r), r.t \in Tunns, Speaks(p, r.out),
         \/ r.t.current = None
         \/ ~Had(p, r.t.current.key)
         \/ /\ tunn[p].current # None /\ r.t.current.key = tunn[p].current.key
            /\ tunn[p].current.ctr <= r.t.current.ctr
            /\ \A m \in r.out : m.type = "data" => tunn[p].current.ctr <= m.ctr,
         \A m \in r.out : m.type = "data" =>
           r.t.current # None /\ m.key = r.t.current.key /\ m.ctr < r.t.current.ctr,
         \A m, n \in r.out : m.type = "data" /\ n.type = "data" /\ m.ctr = n.ctr => m = n
  PROVE  CounterAhead' /\ NonceUsedOnce'
<1>1. net' = net \cup r.out /\ tunn' = [tunn EXCEPT ![p] = r.t]
  BY DEF Apply
<1>2. r.t.current # None => r.t.current.ctr \in Nat
  BY TunnFields DEF Sessions
<1>3. tunn[p].current # None => tunn[p].current.ctr \in Nat
  BY TunnFields DEF Sessions
<1>4. ASSUME NEW m \in net, m.type = "data", m.from = p, r.t.current # None,
             m.key = r.t.current.key
      PROVE  /\ m.ctr < r.t.current.ctr
             /\ \A n \in r.out : n.type = "data" => m.ctr < n.ctr
  <2>1. Had(p, m.key) /\ m.ctr \in Nat
    BY <1>4 DEF MessagesKnown
  <2>2. /\ tunn[p].current # None /\ r.t.current.key = tunn[p].current.key
        /\ tunn[p].current.ctr <= r.t.current.ctr
        /\ \A n \in r.out : n.type = "data" => tunn[p].current.ctr <= n.ctr
    BY <1>4, <2>1
  <2>3. m.ctr < tunn[p].current.ctr
    BY <1>4, <2>2 DEF CounterAhead
  <2> QED
    BY <1>2, <1>3, <1>4, <2>1, <2>2, <2>3 DEF Speaks
<1>5. CounterAhead'
  <2> SUFFICES ASSUME NEW m \in net', m.type = "data", tunn'[m.from].current # None,
                      m.key = tunn'[m.from].current.key
               PROVE  m.ctr < tunn'[m.from].current.ctr
    BY DEF CounterAhead
  <2>1. CASE m \in r.out
    BY <1>1, <2>1 DEF Speaks
  <2>2. CASE m \in net /\ m.from = p
    BY <1>1, <1>4, <2>2
  <2>3. CASE m \in net /\ m.from # p
    <3>1. m.from \in Peers
      BY <2>3 DEF MessagesKnown
    <3> QED
      BY <1>1, <2>3, <3>1 DEF CounterAhead
  <2> QED
    BY <1>1, <2>1, <2>2, <2>3
<1>6. NonceUsedOnce'
  <2> SUFFICES ASSUME NEW m \in net', NEW n \in net', m.type = "data", n.type = "data",
                      m.from = n.from, m.key = n.key, m.ctr = n.ctr
               PROVE  m = n
    BY DEF NonceUsedOnce
  <2>1. ASSUME NEW x \in net, NEW y \in r.out, x.type = "data", y.type = "data",
               x.from = y.from, x.key = y.key
        PROVE  x.ctr # y.ctr
    <3>1. y.from = p /\ y.ctr \in Nat /\ x.ctr \in Nat
      BY <2>1 DEF Speaks, MessagesKnown
    <3> QED
      BY <1>4, <2>1, <3>1
  <2>2. CASE m \in net /\ n \in net
    BY <2>2 DEF NonceUsedOnce
  <2> QED
    BY <1>1, <2>1, <2>2
<1> QED
  BY <1>5, <1>6

\* A packet stays in one place: the queue and the messages of p.
Distinct(q) == \A i, j \in 1..Len(q) : q[i] = q[j] => i = j

Placed(p, q, out) ==
  /\ unsent'[p] \subseteq unsent[p]
  /\ \A u \in Peers : u # p => unsent'[u] = unsent[u]
  /\ Distinct(q)
  /\ \A i \in 1..Len(q) : q[i] \notin unsent'[p]
  /\ \A i \in 1..Len(q) : \A m \in net \cup out : ~Carries(m, p, q[i])
  /\ \A m \in out : m.type = "data" =>
       /\ m.body \notin unsent'[p]
       /\ m.body \in Packets => \A n \in net : ~Carries(n, p, m.body)
  /\ \A m, n \in out : m.type = "data" /\ n.type = "data" /\ m.body = n.body
                          /\ m.body \in Packets => m = n

\* A step that places its packets keeps every packet in one place.
LEMMA PacketStep ==
  ASSUME PacketsOnce, tunn \in [Peers -> Tunns], NEW p \in Peers, NEW r, Apply(p, r),
         Speaks(p, r.out), Placed(p, r.t.queued, r.out)
  PROVE  PacketsOnce'
<1> DEFINE q == r.t.queued
<1>1. net' = net \cup r.out /\ tunn' = [tunn EXCEPT ![p] = r.t]
  BY DEF Apply
<1>2. PacketOnce(p, q)'
  <2>0. PacketOnce(p, tunn[p].queued)
    BY DEF PacketsOnce
  <2>1. ASSUME NEW m \in net', NEW d \in unsent'[p] PROVE ~Carries(m, p, d)
    <3>1. CASE m \in net
      BY <2>0, <2>1, <3>1 DEF PacketOnce, Placed
    <3>2. CASE m \in r.out
      BY <2>1, <3>2 DEF Carries, Placed
    <3> QED
      BY <1>1, <3>1, <3>2
  <2>2. ASSUME NEW m \in net', NEW n \in net', NEW d \in Packets,
               Carries(m, p, d), Carries(n, p, d)
        PROVE  m = n
    <3>1. CASE m \in net /\ n \in net
      BY <2>0, <2>2, <3>1 DEF PacketOnce
    <3>2. CASE m \in r.out \/ n \in r.out
      BY <1>1, <2>2, <3>2 DEF Carries, Placed
    <3> QED
      BY <1>1, <3>1, <3>2
  <2> QED
    BY <1>1, <2>1, <2>2 DEF PacketOnce, Carries, Placed, Distinct
<1>3. ASSUME NEW u \in Peers, u # p PROVE PacketOnce(u, tunn[u].queued)'
  <2>1. \A m \in net' : m.type = "data" /\ m.from = u => m \in net
    BY <1>1, <1>3 DEF Speaks
  <2>2. PacketOnce(u, tunn[u].queued)
    BY DEF PacketsOnce
  <2> QED
    BY <1>1, <1>3, <2>1, <2>2 DEF PacketOnce, Carries, Placed
<1> QED
  BY <1>1, <1>2, <1>3 DEF PacketsOnce

\* A session p has after the step is one it had, which forgot nothing it saw,
\* or is under a new key.
Remembers(p, t) ==
  \A s \in {t.current, t.previous} \ {None} :
    \/ ~Had(p, s.key)
    \/ \E o \in SessionsOf(p) : o.key = s.key /\ o.seen \subseteq s.seen

\* What p sends is on its current session, which is new or counts on.
CountsOn(p, r) ==
  /\ \/ r.t.current = None
     \/ ~Had(p, r.t.current.key)
     \/ /\ tunn[p].current # None /\ r.t.current.key = tunn[p].current.key
        /\ tunn[p].current.ctr <= r.t.current.ctr
        /\ \A m \in r.out : m.type = "data" => tunn[p].current.ctr <= m.ctr
  /\ \A m \in r.out : m.type = "data" =>
       r.t.current # None /\ m.key = r.t.current.key /\ m.ctr < r.t.current.ctr
  /\ \A m, n \in r.out : m.type = "data" /\ n.type = "data" /\ m.ctr = n.ctr => m = n

\* Nothing is delivered: what was stays delivered once, and spent.
LEMMA DeliveredStays ==
  ASSUME WgInv, NEW p \in Peers, NEW r, Apply(p, r), Moves(p, r.t), Remembers(p, r.t),
         delivered' = delivered, \A u \in Peers : unsent'[u] \subseteq unsent[u]
  PROVE  DeliveredSpent' /\ DeliveredOnce'
<1>1. MessagesKnown /\ tunn \in [Peers -> Tunns] /\ DeliveredSpent /\ DeliveredOnce
  BY DEF WgInv, TypeOK
<1>2. net \subseteq net'
  BY DEF Apply
<1>3. ASSUME NEW u \in Peers, NEW i \in 1..Len(delivered[u])
      PROVE  \E m \in net' : Carries(m, Other(u), delivered[u][i]) /\ Spent(u, m)'
  <2>1. PICK m \in net : Carries(m, Other(u), delivered[u][i]) /\ Spent(u, m)
    BY <1>1, <1>3 DEF DeliveredSpent
  <2>2. Spent(u, m)'
    BY <1>1, <2>1, SpentStays DEF Remembers
  <2> QED
    BY <1>2, <2>1, <2>2
<1>4. DeliveredSpent'
  BY <1>3 DEF DeliveredSpent, Carries
<1>5. ASSUME NEW u \in Peers, NEW i \in 1..Len(delivered[u])
      PROVE  delivered[u][i] \notin unsent'[Other(u)]
  <2>1. Other(u) \in Peers /\ delivered[u][i] \notin unsent[Other(u)]
    BY <1>1, <1>5, OtherPeer DEF DeliveredOnce
  <2> QED
    BY <2>1
<1>6. DeliveredOnce'
  BY <1>1, <1>5 DEF DeliveredOnce
<1> QED
  BY <1>4, <1>6

\* The rest of the invariant.
LEMMA NodeStep ==
  ASSUME WgInv, NEW p \in Peers, NEW r, Apply(p, r), r.t \in Tunns, now' = now,
         Moves(p, r.t), Speaks(p, r.out), CountsOn(p, r), NodeKnown(p)',
         \A m \in r.out : m.type = "data" => Had(p, m.key)',
         accepted' \in [Peers -> Seq(Indices)],
         \A u \in Peers : u # p => accepted'[u] = accepted[u]
  PROVE  /\ now' \in Times /\ next' \in 1..MaxIndex + 1 /\ tunn' \in [Peers -> Tunns]
         /\ MessagesKnown' /\ IndicesUnique' /\ SessionsKnown' /\ CounterAhead'
         /\ NonceUsedOnce'
<1>1. /\ TypeOK /\ MessagesKnown /\ IndicesUnique /\ SessionsKnown /\ CounterAhead
      /\ NonceUsedOnce /\ tunn \in [Peers -> Tunns]
  BY DEF WgInv, TypeOK
<1>2. MessagesKnown' /\ IndicesUnique' /\ next' \in 1..MaxIndex + 1
  BY <1>1, NetStep
<1>3. \A u \in Peers : u # p => NodeKnown(u)'
  BY <1>1, OtherKnown
<1>4. SessionsKnown'
  BY <1>3 DEF SessionsKnown
<1>5. CounterAhead' /\ NonceUsedOnce'
  BY <1>1, CounterStep DEF CountsOn
<1>6. now' \in Times /\ tunn' \in [Peers -> Tunns]
  BY <1>1 DEF TypeOK, Apply
<1> QED
  BY <1>2, <1>4, <1>5, <1>6

-----------------------------------------------------------------------------
(***************************************************************************)
(* The steps.  A step that sends on the session there is or starts a       *)
(* handshake keeps all of the invariant but the place of the packets.      *)
(***************************************************************************)

\* An index that is drawn is within the bound.
LEMMA DrawnIndex ==
  ASSUME next \in 1..MaxIndex + 1, NEW p, NEW r, Apply(p, r),
         NEW m \in r.out, m.type \in {"init", "resp"}
  PROVE  next \in Indices
BY DEF Apply, Indices

\* The session in a data message of seal.
LEMMA SealedFields ==
  ASSUME NEW s \in Sessions, NEW p, NEW b
  PROVE  LET m == DataMsg(p, s, b)
             c == [s EXCEPT !.ctr = @ + 1]
         IN  /\ m.type = "data" /\ m.from = p /\ m.key = s.key /\ m.ctr = s.ctr /\ m.body = b
             /\ c.key = s.key /\ c.local = s.local /\ c.remote = s.remote
             /\ c.initiator = s.initiator /\ c.seen = s.seen
             /\ c.ctr = s.ctr + 1 /\ s.ctr \in Nat
BY DEF DataMsg, Sessions

\* A step that sends one message on the current session keeps everything but
\* the place of the packet.
LEMMA SendKept ==
  ASSUME WgInv, NEW p \in Peers, NEW b \in Packets \cup {Keepalive}, NEW r, Apply(p, r),
         SendStep(p, tunn[p], r, b), now' = now, delivered' = delivered,
         accepted' = accepted, \A u \in Peers : unsent'[u] \subseteq unsent[u]
  PROVE  /\ now' \in Times /\ next' \in 1..MaxIndex + 1 /\ tunn' \in [Peers -> Tunns]
         /\ MessagesKnown' /\ IndicesUnique' /\ SessionsKnown' /\ InitiationsInOrder'
         /\ CounterAhead' /\ NonceUsedOnce' /\ DeliveredSpent' /\ DeliveredOnce'
         /\ Speaks(p, r.out)
<1> DEFINE t == tunn[p]
<1>1. /\ TypeOK /\ MessagesKnown /\ NodeKnown(p) /\ InitiationsInOrder
      /\ t \in Tunns /\ t.current \in Sessions \cup {None}
      /\ t.previous \in Sessions \cup {None}
  BY TunnFields DEF WgInv, TypeOK, SessionsKnown
<1>2. tunn' = [tunn EXCEPT ![p] = r.t] /\ tunn \in [Peers -> Tunns] /\ tunn'[p] = r.t
  BY <1>1 DEF Apply, TypeOK
<1>3. /\ InitMsg(p, next).type = "init" /\ InitMsg(p, next).from = p
      /\ InitMsg(p, next).index = next
  BY DEF InitMsg
<1>4. /\ \/ r.t.current = None \/ r.t.current = t.current
         \/ t.current # None /\ r.t.current = [t.current EXCEPT !.ctr = @ + 1]
      /\ r.t.previous = t.previous \/ r.t.previous = None
      /\ r.t \in Tunns /\ r.t.last_ts = t.last_ts
  BY DEF SendStep
<1>5. r.t.current # None =>
        /\ t.current # None /\ t.current \in Sessions
        /\ r.t.current.key = t.current.key /\ r.t.current.local = t.current.local
        /\ r.t.current.remote = t.current.remote
        /\ r.t.current.initiator = t.current.initiator
        /\ r.t.current.seen = t.current.seen
        /\ t.current.ctr <= r.t.current.ctr
  <2>1. CASE r.t.current = t.current
    BY <1>1, <2>1 DEF Sessions
  <2>2. CASE t.current # None /\ r.t.current = [t.current EXCEPT !.ctr = @ + 1]
    BY <1>1, <2>2, SealedFields
  <2> QED
    BY <1>4, <2>1, <2>2
<1>6. ASSUME NEW m \in r.out
      PROVE  \/ m = InitMsg(p, next)
             \/ /\ m.type = "data" /\ m = DataMsg(p, t.current, b) /\ m.from = p
                /\ m.key = t.current.key /\ m.ctr = t.current.ctr /\ m.body = b
                /\ t.current # None /\ r.t.current.key = t.current.key
                /\ r.t.current # None /\ r.t.current.ctr = t.current.ctr + 1
                /\ t.current.ctr \in Nat
  <2>1. CASE /\ m = DataMsg(p, t.current, b) /\ t.current # None
             /\ r.t.current = [t.current EXCEPT !.ctr = @ + 1]
    <3>1. t.current \in Sessions
      BY <1>1, <2>1
    <3>2. [t.current EXCEPT !.ctr = @ + 1] \in Sessions
      BY <3>1, SessionUpdates
    <3>3. r.t.current # None
      BY <2>1, <3>2
    <3> QED
      BY <2>1, <3>1, <3>3, SealedFields
  <2> QED
    BY <1>6, <2>1 DEF SendStep
<1>7. Moves(p, r.t)
  BY DEF Moves, SendStep
<1>8. Speaks(p, r.out)
  BY <1>3, <1>6 DEF Speaks
<1>9. CountsOn(p, r)
  <2>1. \A m \in r.out : m.type = "data" =>
          /\ m = DataMsg(p, t.current, b) /\ m.ctr = t.current.ctr /\ t.current.ctr \in Nat
          /\ r.t.current # None /\ m.key = r.t.current.key /\ m.ctr < r.t.current.ctr
    BY <1>3, <1>6
  <2>2. \A m \in r.out : m.type = "data" => t.current.ctr <= m.ctr
    BY <2>1
  <2> QED
    BY <1>5, <2>1, <2>2 DEF CountsOn
<1>10. /\ \A i : Initiated(p, i) => Initiated(p, i)'
       /\ \A i : Responded(p, i) => Responded(p, i)'
       /\ \A k : Had(p, k) => Had(p, k)'
  BY <1>1, <1>2, <1>7, HadStays
<1>11. ASSUME NEW s \in {r.t.current, r.t.previous} \ {None}
       PROVE  \E o \in SessionsOf(p) :
                /\ o.key = s.key /\ o.seen = s.seen /\ o.local = s.local
                /\ o.remote = s.remote /\ o.initiator = s.initiator
  BY <1>4, <1>5, <1>11 DEF SessionsOf
<1>12. Remembers(p, r.t)
  BY <1>11 DEF Remembers
<1>13. \A m \in r.out : m.type = "data" => Had(p, m.key)'
  <2>1. t.current # None => Had(p, t.current.key)
    BY <1>1 DEF NodeKnown, SessionKnown, SessionsOf
  <2> QED
    BY <1>3, <1>6, <1>10, <2>1
<1>14. NodeKnown(p)'
  <2>1. ASSUME NEW s \in SessionsOf(p)' PROVE SessionKnown(p, s)'
    <3>1. s \in {r.t.current, r.t.previous} \ {None}
      BY <1>2, <2>1 DEF SessionsOf
    <3>2. PICK o \in SessionsOf(p) :
                /\ o.key = s.key /\ o.seen = s.seen /\ o.local = s.local
                /\ o.remote = s.remote /\ o.initiator = s.initiator
      BY <1>11, <3>1
    <3>3. SessionKnown(p, o)
      BY <1>1 DEF NodeKnown
    <3> QED
      BY <1>10, <3>2, <3>3 DEF SessionKnown
  <2>2. r.t.current # None /\ r.t.previous # None => r.t.current.key # r.t.previous.key
    BY <1>1, <1>4, <1>5 DEF NodeKnown
  <2>3. ASSUME r.t.pending # None PROVE Initiated(p, r.t.pending.index)'
    <3>1. CASE r.t.pending = t.pending
      BY <1>1, <1>10, <2>3, <3>1 DEF NodeKnown
    <3>2. CASE r.t.pending.index = next /\ InitMsg(p, next) \in r.out
      <4>1. InitMsg(p, next) \in net'
        BY <3>2 DEF Apply
      <4> QED
        BY <1>3, <3>2, <4>1 DEF Initiated
    <3> QED
      BY <2>3, <3>1, <3>2 DEF SendStep
  <2>4. \A i \in 1..Len(accepted'[p]) : accepted'[p][i] <= r.t.last_ts
    BY <1>1, <1>4 DEF NodeKnown
  <2> QED
    BY <1>2, <2>1, <2>2, <2>3, <2>4 DEF NodeKnown
<1>15. DeliveredSpent' /\ DeliveredOnce'
  BY <1>7, <1>12, DeliveredStays
<1>16. InitiationsInOrder'
  BY <1>1 DEF InitiationsInOrder
<1>17. accepted' \in [Peers -> Seq(Indices)]
  BY <1>1 DEF TypeOK
<1> HIDE DEF t
<1> QED
  BY <1>4, <1>7, <1>8, <1>9, <1>13, <1>14, <1>15, <1>16, <1>17, NodeStep

\* A packet joins the queue, at whose head one may be dropped.
Pushed(q, d) == Append(IF Len(q) >= QueueLimit THEN Tail(q) ELSE q, d)

\* A queue without repetitions stays so when a new packet joins it.
LEMMA QueueOnce ==
  ASSUME NEW q \in Seq(Packets), NEW d \in Packets,
         Distinct(q), \A i \in 1..Len(q) : q[i] # d,
         NEW u, u = Pushed(q, d)
  PROVE  /\ Distinct(u)
         /\ \A i \in 1..Len(u) : u[i] = d \/ \E j \in 1..Len(q) : u[i] = q[j]
<1>1. PICK w : /\ w \in Seq(Packets) /\ u = Append(w, d)
               /\ \A i \in 1..Len(w) : \E j \in 1..Len(q) : w[i] = q[j]
               /\ Distinct(w)
  <2>1. CASE Len(q) >= QueueLimit
    <3>1. q # << >>
      BY <2>1
    <3>2. /\ Tail(q) \in Seq(Packets) /\ Len(Tail(q)) = Len(q) - 1
          /\ \A i \in 1..Len(Tail(q)) : Tail(q)[i] = q[i + 1]
      BY <3>1, HeadTailProperties
    <3>3. \A i \in 1..Len(Tail(q)) : i + 1 \in 1..Len(q) /\ Tail(q)[i] = q[i + 1]
      BY <3>2
    <3>4. Distinct(Tail(q))
      <4> SUFFICES ASSUME NEW i \in 1..Len(Tail(q)), NEW j \in 1..Len(Tail(q)),
                          Tail(q)[i] = Tail(q)[j]
                   PROVE  i = j
        BY DEF Distinct
      <4>1. i + 1 = j + 1 => i = j
        OBVIOUS
      <4> QED
        BY <3>3, <4>1 DEF Distinct
    <3> WITNESS Tail(q)
    <3> QED
      BY <2>1, <3>2, <3>3, <3>4 DEF Pushed
  <2>2. CASE ~(Len(q) >= QueueLimit)
    BY <2>2 DEF Pushed
  <2> QED
    BY <2>1, <2>2
<1>2. /\ Len(u) = Len(w) + 1 /\ u[Len(w) + 1] = d
      /\ \A i \in 1..Len(w) : u[i] = w[i]
  <2>1. w \in Seq(Packets) /\ u = Append(w, d)
    BY <1>1
  <2>2. /\ Len(Append(w, d)) = Len(w) + 1 /\ Append(w, d)[Len(w) + 1] = d
        /\ \A i \in 1..Len(w) : Append(w, d)[i] = w[i]
    BY <2>1, AppendProperties
  <2> QED
    BY <2>1, <2>2
<1>3. \A i \in 1..Len(u) : i = Len(u) \/ i \in 1..Len(w)
  BY <1>1, <1>2
<1>4. \A i \in 1..Len(w) : u[i] # d /\ \E j \in 1..Len(q) : u[i] = q[j]
  BY <1>1, <1>2
<1>5. u[Len(u)] = d
  BY <1>2
<1>6. ASSUME NEW i \in 1..Len(u), NEW j \in 1..Len(u), u[i] = u[j] PROVE i = j
  <2>1. CASE i \in 1..Len(w) /\ j \in 1..Len(w)
    BY <1>1, <1>2, <1>6, <2>1 DEF Distinct
  <2> QED
    BY <1>3, <1>4, <1>5, <1>6, <2>1
<1> QED
  BY <1>3, <1>4, <1>5, <1>6 DEF Distinct

\* send_ip.
LEMMA SendIpStep ==
  ASSUME WgInv, NEW p \in Peers, NEW d \in Packets, SendIp(p, d)
  PROVE  WgInv'
<1> DEFINE t == tunn[p]
           r == Encapsulate(t, p, d)
<1>1. /\ TypeOK /\ PacketsOnce /\ tunn \in [Peers -> Tunns] /\ t \in Tunns /\ now \in Times
      /\ t.queued \in Seq(Packets) /\ PacketOnce(p, t.queued)
  BY TunnFields DEF WgInv, TypeOK, PacketsOnce
<1>2. /\ Apply(p, r) /\ now' = now /\ delivered' = delivered /\ accepted' = accepted
      /\ unsent' = [unsent EXCEPT ![p] = @ \ {d}] /\ d \in unsent[p]
  BY DEF SendIp
<1>3. InitMsg(p, next) \in r.out => next \in Indices
  <2>1. InitMsg(p, next).type = "init"
    BY DEF InitMsg
  <2> HIDE DEF r
  <2> QED
    BY <1>1, <1>2, <2>1, DrawnIndex DEF TypeOK
<1>4. /\ SendStep(p, t, r, d)
      /\ \/ r.t.queued = t.queued
         \/ /\ \A m \in r.out : m.type # "data"
            /\ r.t.queued = << >> \/ r.t.queued = Queue(t, d).queued
  BY <1>1, <1>3, EncapsulateSends
<1> HIDE DEF r
<1>5. /\ unsent' \in [Peers -> SUBSET Packets]
      /\ \A u \in Peers : u # p => unsent'[u] = unsent[u]
      /\ unsent'[p] = unsent[p] \ {d}
      /\ \A u \in Peers : unsent'[u] \subseteq unsent[u]
  BY <1>1, <1>2 DEF TypeOK
<1>6. /\ now' \in Times /\ next' \in 1..MaxIndex + 1 /\ tunn' \in [Peers -> Tunns]
      /\ MessagesKnown' /\ IndicesUnique' /\ SessionsKnown' /\ InitiationsInOrder'
      /\ CounterAhead' /\ NonceUsedOnce' /\ DeliveredSpent' /\ DeliveredOnce'
      /\ Speaks(p, r.out)
  BY <1>2, <1>4, <1>5, SendKept
<1>7. \A m \in r.out : m.type = "data" => m = DataMsg(p, t.current, d) /\ m.body = d
  BY <1>4 DEF SendStep, InitMsg, DataMsg
<1>8. /\ \A n \in net : ~Carries(n, p, d)
      /\ \A i \in 1..Len(t.queued) : t.queued[i] # d /\ t.queued[i] \notin unsent[p]
      /\ \A i \in 1..Len(t.queued) : \A m \in net \cup r.out : ~Carries(m, p, t.queued[i])
      /\ Distinct(t.queued)
  <2>1. \A n \in net : ~Carries(n, p, d)
    BY <1>1, <1>2 DEF PacketOnce
  <2>2. \A i \in 1..Len(t.queued) : t.queued[i] # d /\ t.queued[i] \notin unsent[p]
    BY <1>1, <1>2 DEF PacketOnce
  <2>3. \A i \in 1..Len(t.queued) : \A m \in net : ~Carries(m, p, t.queued[i])
    BY <1>1 DEF PacketOnce
  <2>4. \A i \in 1..Len(t.queued) : \A m \in r.out : ~Carries(m, p, t.queued[i])
    BY <1>7, <2>2 DEF Carries
  <2>5. Distinct(t.queued)
    BY <1>1 DEF PacketOnce, Distinct
  <2> QED
    BY <2>1, <2>2, <2>3, <2>4, <2>5
<1> DEFINE q == r.t.queued
<1>9. /\ Distinct(q)
      /\ \A i \in 1..Len(q) : q[i] \notin unsent'[p]
      /\ \A i \in 1..Len(q) : \A m \in net \cup r.out : ~Carries(m, p, q[i])
  <2>1. CASE q = t.queued
    BY <1>5, <1>8, <2>1
  <2>2. CASE q = << >>
    BY <2>2 DEF Distinct
  <2>3. CASE /\ \A m \in r.out : m.type # "data"
             /\ q = Queue(t, d).queued
    <3> DEFINE w == t.queued
    <3>1. q = Pushed(w, d)
      BY <1>1, <2>3 DEF Queue, Tunns, Pushed
    <3>2. w \in Seq(Packets) /\ Distinct(w) /\ \A i \in 1..Len(w) : w[i] # d
      BY <1>1, <1>8
    <3> HIDE DEF q, w
    <3>3. Distinct(q) /\ \A i \in 1..Len(q) : q[i] = d \/ \E j \in 1..Len(w) : q[i] = w[j]
      BY <3>1, <3>2, QueueOnce
    <3>4. \A m \in r.out : \A x : ~Carries(m, p, x)
      BY <2>3 DEF Carries
    <3> QED
      BY <1>5, <1>8, <3>3, <3>4 DEF w
  <2> QED
    BY <1>4, <2>1, <2>2, <2>3
<1> HIDE DEF t, q
<1>10. PacketsOnce'
  <2>1. /\ unsent'[p] \subseteq unsent[p] /\ q = r.t.queued
        /\ \A u \in Peers : u # p => unsent'[u] = unsent[u]
    BY <1>5 DEF q
  <2>2. \A m \in r.out : m.type = "data" =>
          /\ m.body \notin unsent'[p]
          /\ m.body \in Packets => \A n \in net : ~Carries(n, p, m.body)
    BY <1>5, <1>7, <1>8
  <2>3. \A m, n \in r.out : m.type = "data" /\ n.type = "data" /\ m.body = n.body
                               /\ m.body \in Packets => m = n
    BY <1>7
  <2>4. Placed(p, r.t.queued, r.out)
    BY <1>9, <2>1, <2>2, <2>3 DEF Placed
  <2> QED
    BY <1>1, <1>2, <1>6, <2>4, PacketStep
<1>11. TypeOK'
  BY <1>1, <1>2, <1>5, <1>6 DEF TypeOK
<1> QED
  BY <1>6, <1>10, <1>11 DEF WgInv

\* tick_loop.
LEMMA TickStep ==
  ASSUME WgInv, NEW p \in Peers, TickPeer(p)
  PROVE  WgInv'
<1> DEFINE t == tunn[p]
           r == Tick(t, p)
<1>1. /\ TypeOK /\ PacketsOnce /\ tunn \in [Peers -> Tunns] /\ t \in Tunns /\ now \in Times
      /\ t.queued \in Seq(Packets) /\ PacketOnce(p, t.queued)
  BY TunnFields DEF WgInv, TypeOK, PacketsOnce
<1>2. /\ Apply(p, r) /\ now' = now /\ delivered' = delivered /\ accepted' = accepted
      /\ unsent' = unsent
  BY DEF TickPeer
<1>3. InitMsg(p, next) \in r.out => next \in Indices
  <2>1. InitMsg(p, next).type = "init"
    BY DEF InitMsg
  <2> HIDE DEF r
  <2> QED
    BY <1>1, <1>2, <2>1, DrawnIndex DEF TypeOK
<1>4. SendStep(p, t, r, Keepalive) /\ (r.t.queued = t.queued \/ r.t.queued = << >>)
  BY <1>1, <1>3, TickSends
<1> HIDE DEF r
<1>5. \A u \in Peers : unsent'[u] \subseteq unsent[u]
  BY <1>2
<1>6. /\ now' \in Times /\ next' \in 1..MaxIndex + 1 /\ tunn' \in [Peers -> Tunns]
      /\ MessagesKnown' /\ IndicesUnique' /\ SessionsKnown' /\ InitiationsInOrder'
      /\ CounterAhead' /\ NonceUsedOnce' /\ DeliveredSpent' /\ DeliveredOnce'
      /\ Speaks(p, r.out)
  BY <1>2, <1>4, <1>5, SendKept
<1>7. \A m \in r.out : m.type = "data" => m.body = Keepalive
  BY <1>4 DEF SendStep, InitMsg, DataMsg
<1>8. unsent[p] \subseteq Packets
  BY <1>1 DEF TypeOK
<1> DEFINE q == r.t.queued
<1>9. /\ Distinct(q)
      /\ \A i \in 1..Len(q) : q[i] \notin unsent'[p]
      /\ \A i \in 1..Len(q) : \A m \in net \cup r.out : ~Carries(m, p, q[i])
  <2>1. CASE q = t.queued
    BY <1>1, <1>2, <1>7, <2>1 DEF PacketOnce, Carries, Distinct
  <2>2. CASE q = << >>
    BY <2>2 DEF Distinct
  <2> QED
    BY <1>4, <2>1, <2>2
<1> HIDE DEF t, q
<1>10. PacketsOnce'
  <2>1. /\ unsent'[p] \subseteq unsent[p] /\ q = r.t.queued
        /\ \A u \in Peers : u # p => unsent'[u] = unsent[u]
    BY <1>2 DEF q
  <2>2. \A m \in r.out : m.type = "data" =>
          m.body \notin unsent'[p] /\ m.body \notin Packets
    BY <1>2, <1>7, <1>8
  <2>3. \A m \in r.out : m.type = "data" =>
          /\ m.body \notin unsent'[p]
          /\ m.body \in Packets => \A n \in net : ~Carries(n, p, m.body)
    BY <2>2
  <2>4. \A m, n \in r.out : m.type = "data" /\ n.type = "data" /\ m.body = n.body
                               /\ m.body \in Packets => m = n
    BY <2>2
  <2>5. Placed(p, r.t.queued, r.out)
    BY <1>9, <2>1, <2>3, <2>4 DEF Placed
  <2> QED
    BY <1>1, <1>2, <1>6, <2>5, PacketStep
<1>11. TypeOK'
  BY <1>1, <1>2, <1>6 DEF TypeOK
<1> QED
  BY <1>6, <1>10, <1>11 DEF WgInv

\* The tunnel with a new session, the one before kept as the previous.
Accepted(t, i, c) ==
  [t EXCEPT !.last_ts = i, !.previous = t.current, !.current = c, !.pending = None]

\* Its fields.
LEMMA TunnAccepts ==
  ASSUME NEW t \in Tunns, NEW i \in Indices, NEW c \in Sessions,
         NEW u, u = Accepted(t, i, c)
  PROVE  /\ u \in Tunns /\ u.last_ts = i /\ u.previous = t.current /\ u.current = c
         /\ u.pending = None /\ u.queued = t.queued
<1>1. i \in 0..MaxIndex /\ t.current \in Sessions \cup {None} /\ c \in Sessions \cup {None}
  BY TunnFields DEF Indices
<1> QED
  BY <1>1 DEF Tunns, Accepted

\* A session under a new key is added: the sessions are known.
LEMMA NewKnown ==
  ASSUME WgInv, NEW p \in Peers, NEW r, Apply(p, r), Moves(p, r.t), r.t.pending = None,
         r.t.current # None, SessionKnown(p, r.t.current)', ~Had(p, r.t.current.key),
         r.t.previous = tunn[p].current,
         \A i \in 1..Len(accepted'[p]) : accepted'[p][i] <= r.t.last_ts
  PROVE  NodeKnown(p)' /\ Remembers(p, r.t)
<1>1. MessagesKnown /\ NodeKnown(p) /\ tunn \in [Peers -> Tunns]
  BY DEF WgInv, TypeOK, SessionsKnown
<1>2. tunn'[p] = r.t
  BY <1>1 DEF Apply
<1>3. /\ \A i : Initiated(p, i) => Initiated(p, i)'
      /\ \A i : Responded(p, i) => Responded(p, i)'
      /\ \A k : Had(p, k) => Had(p, k)'
  BY <1>1, HadStays
<1>4. ASSUME r.t.previous # None
      PROVE  /\ r.t.previous \in SessionsOf(p) /\ SessionKnown(p, r.t.previous)
             /\ Had(p, r.t.previous.key) /\ SessionKnown(p, r.t.previous)'
  <2>1. r.t.previous \in SessionsOf(p)
    BY <1>4 DEF SessionsOf
  <2>2. SessionKnown(p, r.t.previous)
    BY <1>1, <2>1 DEF NodeKnown
  <2>3. SessionKnown(p, r.t.previous)'
    BY <1>3, <2>2 DEF SessionKnown
  <2> QED
    BY <2>1, <2>2, <2>3 DEF SessionKnown
<1>5. Remembers(p, r.t)
  BY <1>4 DEF Remembers
<1>6. \A s \in SessionsOf(p)' : SessionKnown(p, s)'
  BY <1>2, <1>4 DEF SessionsOf
<1>7. r.t.previous # None => r.t.current.key # r.t.previous.key
  BY <1>4
<1> QED
  BY <1>2, <1>5, <1>6, <1>7 DEF NodeKnown

\* handle_packet, initiation.
LEMMA InitiationStep ==
  ASSUME WgInv, NEW p \in Peers, NEW m \in net, RecvInitiation(p, m)
  PROVE  WgInv'
<1> DEFINE t == tunn[p]
<1>i. PICK i : i = next
  OBVIOUS
<1> DEFINE k == <<m.index, i>>
           o == RespMsg(p, i, m.index)
<1>c. PICK c : c = NewSession(i, m.index, k, FALSE)
  OBVIOUS
<1>r. PICK r : r = AcceptInitiation(t, p, m)
  OBVIOUS
<1>1. /\ TypeOK /\ PacketsOnce /\ tunn \in [Peers -> Tunns] /\ t \in Tunns /\ now \in Times
      /\ MessagesKnown /\ NodeKnown(p) /\ InitiationsInOrder
      /\ next \in 1..MaxIndex + 1 /\ t.last_ts \in Nat
  BY TunnFields DEF WgInv, TypeOK, SessionsKnown
<1>2. /\ Apply(p, r) /\ now' = now /\ delivered' = delivered /\ unsent' = unsent
      /\ accepted' = [accepted EXCEPT ![p] = Append(@, m.index)]
      /\ m.type = "init" /\ m.from = Other(p) /\ m.index > t.last_ts
  BY <1>r DEF RecvInitiation
<1>3. m.index \in Indices /\ m.index < next /\ Other(p) # p /\ m.index \in Nat
  BY <1>1, <1>2, OtherPeer DEF MessagesKnown, Indices
<1>4. r.t = Accepted(t, m.index, c) /\ r.out = {o}
  BY <1>i, <1>c, <1>r DEF AcceptInitiation, Accepted, Result
<1>5. o.type = "resp" /\ o.from = p /\ o.index = i
  BY DEF RespMsg
<1> HIDE DEF o
<1>6. i \in Indices
  BY <1>i, <1>1, <1>2, <1>4, <1>5, DrawnIndex
<1>7. c \in Sessions
  BY <1>c, <1>1, <1>3, <1>6, NewSessionType DEF Keys
<1>8. c.local = i /\ c.remote = m.index /\ c.key = k /\ c.initiator = FALSE
  BY <1>c DEF NewSession
<1>9. /\ r.t \in Tunns /\ r.t.last_ts = m.index /\ r.t.previous = t.current
      /\ r.t.current = c /\ r.t.pending = None /\ r.t.queued = t.queued /\ c # None
  <2>1. t \in Tunns /\ m.index \in Indices /\ c \in Sessions
    BY <1>1, <1>3, <1>7
  <2> HIDE DEF t
  <2> QED
    BY <1>4, <2>1, TunnAccepts
<1>10. ~Had(p, k)
  <2>1. k[1] = m.index /\ k[2] = i
    OBVIOUS
  <2>2. ~Initiated(p, m.index)
    BY <1>2, <1>3 DEF WgInv, IndicesUnique, Initiated
  <2>3. ~Responded(p, i)
    BY <1>i, <1>1 DEF MessagesKnown, Responded, Indices
  <2> HIDE DEF k
  <2> QED
    BY <2>1, <2>2, <2>3 DEF Had
<1>11. Responded(p, i)'
  BY <1>2, <1>4, <1>5 DEF Apply, Responded
<1>12. SessionKnown(p, c)'
  <2>1. Had(p, k)'
    BY <1>11 DEF Had
  <2> QED
    BY <1>8, <1>11, <2>1 DEF SessionKnown
<1>13. /\ accepted' \in [Peers -> Seq(Indices)]
       /\ \A u \in Peers : u # p => accepted'[u] = accepted[u]
       /\ accepted'[p] = Append(accepted[p], m.index)
  BY <1>1, <1>2, <1>3 DEF TypeOK
<1>14. /\ Len(accepted'[p]) = Len(accepted[p]) + 1
       /\ \A j \in 1..Len(accepted[p]) : accepted'[p][j] = accepted[p][j]
       /\ accepted'[p][Len(accepted[p]) + 1] = m.index
       /\ accepted[p] \in Seq(Indices)
  <2>1. accepted[p] \in Seq(Indices)
    BY <1>1 DEF TypeOK
  <2> QED
    BY <1>3, <1>13, <2>1, AppendProperties
<1>15. \A j \in 1..Len(accepted[p]) : accepted[p][j] <= t.last_ts /\ accepted[p][j] \in Nat
  <2>1. \A j \in 1..Len(accepted[p]) : accepted[p][j] <= t.last_ts
    BY <1>1, Zenon DEF NodeKnown
  <2>2. \A j \in 1..Len(accepted[p]) : accepted[p][j] \in Indices
    BY <1>14
  <2>3. Indices \subseteq Nat
    BY DEF Indices
  <2> QED
    BY <2>1, <2>2, <2>3, Zenon
<1>16. \A j \in 1..Len(accepted'[p]) : accepted'[p][j] <= r.t.last_ts
  <2>1. t.last_ts \in Nat /\ m.index \in Nat /\ t.last_ts < m.index
    BY <1>1, <1>2, <1>3 DEF Indices
  <2> SUFFICES ASSUME NEW j \in 1..Len(accepted'[p])
               PROVE  accepted'[p][j] <= m.index
    BY <1>9
  <2>2. Len(accepted[p]) \in Nat /\ (j \in 1..Len(accepted[p]) \/ j = Len(accepted[p]) + 1)
    BY <1>14
  <2>3. CASE j \in 1..Len(accepted[p])
    <3>1. accepted[p][j] <= t.last_ts /\ accepted[p][j] \in Nat
      BY <1>15, <2>3
    <3>2. accepted'[p][j] = accepted[p][j]
      BY <1>14, <2>3
    <3> QED
      BY <2>1, <3>1, <3>2
  <2>4. CASE j = Len(accepted[p]) + 1
    BY <1>14, <2>1, <2>4
  <2> QED
    BY <2>2, <2>3, <2>4
<1>17. Moves(p, r.t) /\ Speaks(p, r.out)
  BY <1>i, <1>4, <1>5, <1>9 DEF Moves, Speaks
<1>18. NodeKnown(p)' /\ Remembers(p, r.t)
  BY <1>2, <1>8, <1>9, <1>10, <1>12, <1>16, <1>17, NewKnown
<1>19. CountsOn(p, r) /\ \A n \in r.out : n.type # "data"
  BY <1>4, <1>5, <1>8, <1>9, <1>10 DEF CountsOn
<1>20. /\ now' \in Times /\ next' \in 1..MaxIndex + 1 /\ tunn' \in [Peers -> Tunns]
       /\ MessagesKnown' /\ IndicesUnique' /\ SessionsKnown' /\ CounterAhead'
       /\ NonceUsedOnce'
  BY <1>2, <1>9, <1>13, <1>17, <1>18, <1>19, NodeStep
<1>21. DeliveredSpent' /\ DeliveredOnce'
  <2>1. \A u \in Peers : unsent'[u] \subseteq unsent[u]
    BY <1>2
  <2> QED
    BY <1>2, <1>17, <1>18, <2>1, DeliveredStays
<1>22. PacketsOnce'
  <2>1. PacketOnce(p, t.queued)
    BY <1>1 DEF PacketsOnce
  <2>2. Placed(p, r.t.queued, r.out)
    BY <1>2, <1>9, <1>19, <2>1 DEF Placed, PacketOnce, Distinct, Carries
  <2> QED
    BY <1>1, <1>2, <1>17, <2>2, PacketStep
<1>23. InitiationsInOrder'
  <2> SUFFICES ASSUME NEW u \in Peers, NEW j \in 2..Len(accepted'[u])
               PROVE  accepted'[u][j - 1] < accepted'[u][j]
    BY DEF InitiationsInOrder
  <2>1. CASE u # p
    BY <1>1, <1>13, <2>1 DEF InitiationsInOrder
  <2>2. CASE u = p /\ j \in 2..Len(accepted[p])
    <3>1. j - 1 \in 1..Len(accepted[p]) /\ j \in 1..Len(accepted[p])
      BY <2>2
    <3> QED
      BY <1>1, <1>14, <2>2, <3>1 DEF InitiationsInOrder
  <2>3. CASE u = p /\ j = Len(accepted[p]) + 1
    <3>1. j - 1 \in 1..Len(accepted[p])
      BY <1>14, <2>3
    <3>2. accepted'[p][j - 1] <= t.last_ts /\ accepted'[p][j - 1] \in Nat
      BY <1>14, <1>15, <3>1
    <3>3. accepted'[p][j] = m.index
      BY <1>14, <2>3
    <3> QED
      BY <1>1, <1>2, <1>3, <2>3, <3>2, <3>3
  <2> QED
    BY <1>14, <2>1, <2>2, <2>3
<1>24. TypeOK'
  BY <1>1, <1>2, <1>13, <1>20 DEF TypeOK
<1> QED
  BY <1>20, <1>21, <1>22, <1>23, <1>24 DEF WgInv

\* The i-th packet of the queue q, sent on the session s.
Flushed(p, s, q, i) == DataMsg(p, [s EXCEPT !.ctr = @ + i - 1], q[i])

\* Its fields.
LEMMA FlushedFields ==
  ASSUME NEW p, NEW s \in Sessions, s.ctr = 0, NEW q, NEW i \in 1..Len(q), Len(q) \in Nat
  PROVE  LET m == Flushed(p, s, q, i)
         IN  /\ m.type = "data" /\ m.from = p /\ m.key = s.key /\ m.ctr = i - 1
             /\ m.body = q[i] /\ m.ctr \in Nat
<1> DEFINE c == [s EXCEPT !.ctr = @ + i - 1]
<1>1. c.key = s.key /\ c.ctr = 0 + i - 1
  BY DEF Sessions
<1>2. Flushed(p, s, q, i) = DataMsg(p, c, q[i])
  BY DEF Flushed
<1> HIDE DEF c
<1>3. i - 1 \in Nat /\ 0 + i - 1 = i - 1
  OBVIOUS
<1> QED
  BY <1>1, <1>2, <1>3 DEF DataMsg

\* flush_queue, on a session nothing was sent on.
LEMMA FlushSends ==
  ASSUME NEW p, NEW t \in Tunns, t.current # None, t.current.ctr = 0, now \in Times,
         NEW r, r = FlushQueue(t, p)
  PROVE  /\ r.t \in Tunns /\ r.t.queued = << >> /\ r.t.previous = t.previous
         /\ r.t.pending = t.pending /\ r.t.last_ts = t.last_ts
         /\ r.t.current # None /\ r.t.current.ctr = Len(t.queued)
         /\ r.t.current.key = t.current.key /\ r.t.current.local = t.current.local
         /\ r.t.current.remote = t.current.remote
         /\ r.t.current.initiator = t.current.initiator
         /\ r.t.current.created = t.current.created
         /\ \A m \in r.out : \E i \in 1..Len(t.queued) :
              m = Flushed(p, t.current, t.queued, i)
<1> DEFINE n == Len(t.queued)
           c == [t.current EXCEPT !.ctr = @ + n]
           l == IF n > 0 THEN now ELSE t.last_sent
           u == [t EXCEPT !.queued = << >>, !.current = c, !.last_sent = l]
<1>1. n \in Nat /\ t.current \in Sessions /\ l \in Times \cup {None}
  BY TunnFields
<1>2. r.t = u /\ r.out = {Flushed(p, t.current, t.queued, i) : i \in 1..n}
  BY DEF FlushQueue, Result, Flushed
<1>3. c \in Sessions
  <2> HIDE DEF n
  <2> QED
    BY <1>1, SessionUpdates
<1>4. /\ c.ctr = n /\ c.key = t.current.key /\ c.local = t.current.local
      /\ c.remote = t.current.remote /\ c.initiator = t.current.initiator
      /\ c.created = t.current.created
  <2> HIDE DEF n
  <2> QED
    BY <1>1 DEF Sessions
<1> HIDE DEF c, l
<1>5. << >> \in Seq(Packets)
  OBVIOUS
<1>6. /\ u \in Tunns /\ u.queued = << >> /\ u.previous = t.previous /\ u.pending = t.pending
      /\ u.last_ts = t.last_ts /\ u.current = c
  BY <1>1, <1>3, <1>5 DEF Tunns
<1> HIDE DEF u
<1>7. \A m \in r.out : \E i \in 1..Len(t.queued) : m = Flushed(p, t.current, t.queued, i)
  BY <1>2
<1> QED
  BY <1>2, <1>3, <1>4, <1>6, <1>7

\* The tunnel once its initiation was answered.
Answered(t, c) == [t EXCEPT !.pending = None, !.previous = t.current, !.current = c]

\* Its fields.
LEMMA TunnAnswered ==
  ASSUME NEW t \in Tunns, NEW c \in Sessions, NEW u, u = Answered(t, c)
  PROVE  /\ u \in Tunns /\ u.last_ts = t.last_ts /\ u.previous = t.current /\ u.current = c
         /\ u.pending = None /\ u.queued = t.queued
<1>1. t.current \in Sessions \cup {None} /\ c \in Sessions \cup {None}
  BY TunnFields
<1> QED
  BY <1>1 DEF Tunns, Answered

\* handle_packet, response: the queue goes out on the new session, whose
\* counters begin at zero.
LEMMA ResponseStep ==
  ASSUME WgInv, NEW p \in Peers, NEW m \in net, RecvResponse(p, m)
  PROVE  WgInv'
<1> DEFINE t == tunn[p]
           k == <<m.to, m.index>>
<1>c. PICK c : c = NewSession(m.to, m.index, k, TRUE)
  OBVIOUS
<1>u. PICK u : u = Answered(t, c)
  OBVIOUS
<1>r. PICK r : r = FlushQueue(u, p)
  OBVIOUS
<1>1. /\ TypeOK /\ PacketsOnce /\ tunn \in [Peers -> Tunns] /\ t \in Tunns /\ now \in Times
      /\ MessagesKnown /\ NodeKnown(p) /\ InitiationsInOrder
      /\ t.queued \in Seq(Packets) /\ t.pending \in Pendings \cup {None}
      /\ PacketOnce(p, t.queued)
  BY TunnFields DEF WgInv, TypeOK, SessionsKnown, PacketsOnce
<1>2. /\ Apply(p, r) /\ now' = now /\ delivered' = delivered /\ unsent' = unsent
      /\ accepted' = accepted /\ m.type = "resp" /\ m.from = Other(p)
      /\ t.pending # None /\ t.pending.index = m.to
  BY <1>c, <1>u, <1>r DEF RecvResponse, ConsumeResponse, Answered
<1>3. m.index \in Indices /\ m.to \in Indices /\ Other(p) # p
  BY <1>1, <1>2, OtherPeer DEF MessagesKnown, Pendings
<1>4. c \in Sessions
  BY <1>c, <1>1, <1>3, NewSessionType DEF Keys
<1>5. /\ c.local = m.to /\ c.remote = m.index /\ c.key = k /\ c.initiator = TRUE
      /\ c.ctr = 0
  BY <1>c DEF NewSession
<1>6. /\ u \in Tunns /\ u.last_ts = t.last_ts /\ u.previous = t.current /\ u.current = c
      /\ u.pending = None /\ u.queued = t.queued /\ c # None
  <2>1. t \in Tunns
    BY <1>1
  <2> HIDE DEF t
  <2> QED
    BY <1>u, <1>4, <2>1, TunnAnswered
<1>7. /\ r.t \in Tunns /\ r.t.queued = << >> /\ r.t.previous = t.current
      /\ r.t.pending = None /\ r.t.last_ts = t.last_ts
      /\ r.t.current # None /\ r.t.current.ctr = Len(t.queued)
      /\ r.t.current.key = k /\ r.t.current.local = m.to
      /\ r.t.current.remote = m.index /\ r.t.current.initiator = TRUE
      /\ \A o \in r.out : \E i \in 1..Len(t.queued) : o = Flushed(p, c, t.queued, i)
  <2> HIDE DEF t, k
  <2> QED
    BY <1>r, <1>1, <1>5, <1>6, FlushSends
<1>8. ~Had(p, k)
  <2>1. k[1] = m.to /\ k[2] = m.index
    OBVIOUS
  <2>2. Awaits(p, m.to)
    BY <1>2 DEF Awaits
  <2>3. ~Responded(p, m.index)
    BY <1>2, <1>3 DEF WgInv, IndicesUnique, Responded
  <2> HIDE DEF k
  <2> QED
    BY <2>1, <2>2, <2>3 DEF Had
<1>9. Moves(p, r.t)
  BY <1>7 DEF Moves
<1>10. ASSUME NEW o \in r.out
       PROVE  \E i \in 1..Len(t.queued) :
                /\ o = Flushed(p, c, t.queued, i)
                /\ o.type = "data" /\ o.from = p /\ o.key = k /\ o.ctr = i - 1
                /\ o.body = t.queued[i] /\ o.ctr \in Nat /\ o.body \in Packets
                /\ o.ctr < Len(t.queued)
  <2>1. PICK i \in 1..Len(t.queued) : o = Flushed(p, c, t.queued, i)
    BY <1>7
  <2>2. Len(t.queued) \in Nat /\ t.queued[i] \in Packets
    BY <1>1
  <2> DEFINE q == t.queued
  <2> HIDE DEF q
  <2>3. /\ o.type = "data" /\ o.from = p /\ o.key = c.key /\ o.ctr = i - 1
        /\ o.body = q[i] /\ o.ctr \in Nat
    BY <1>4, <1>5, <2>1, <2>2, FlushedFields DEF q
  <2> QED
    BY <1>5, <2>1, <2>2, <2>3 DEF q
<1>11. Speaks(p, r.out)
  BY <1>10 DEF Speaks
<1>12. CountsOn(p, r)
  <2>1. \A o \in r.out : o.key = r.t.current.key /\ o.ctr < r.t.current.ctr
    BY <1>7, <1>10
  <2>2. \A o, n \in r.out : o.ctr = n.ctr => o = n
    <3> TAKE o, n \in r.out
    <3>1. PICK i \in 1..Len(t.queued) : o = Flushed(p, c, t.queued, i) /\ o.ctr = i - 1
      BY <1>10
    <3>2. PICK j \in 1..Len(t.queued) : n = Flushed(p, c, t.queued, j) /\ n.ctr = j - 1
      BY <1>10
    <3>3. i - 1 = j - 1 => i = j
      OBVIOUS
    <3> QED
      BY <3>1, <3>2, <3>3
  <2> QED
    BY <1>7, <1>8, <2>1, <2>2 DEF CountsOn
<1>13. Had(p, k)' /\ Initiated(p, m.to)'
  <2>1. Initiated(p, m.to)
    BY <1>1, <1>2 DEF NodeKnown
  <2>2. Initiated(p, m.to)'
    BY <1>1, <1>2, <1>9, <2>1, HadStays
  <2>3. ~Awaits(p, m.to)'
    BY <1>1, <1>2, <1>7 DEF Awaits, Apply
  <2> QED
    BY <2>2, <2>3 DEF Had
<1>14. SessionKnown(p, r.t.current)'
  BY <1>7, <1>13 DEF SessionKnown
<1>15. \A i \in 1..Len(accepted'[p]) : accepted'[p][i] <= r.t.last_ts
  BY <1>1, <1>2, <1>7 DEF NodeKnown
<1>16. NodeKnown(p)' /\ Remembers(p, r.t)
  BY <1>2, <1>7, <1>8, <1>9, <1>14, <1>15, NewKnown
<1>17. \A o \in r.out : o.type = "data" => Had(p, o.key)'
  BY <1>10, <1>13
<1>18. /\ now' \in Times /\ next' \in 1..MaxIndex + 1 /\ tunn' \in [Peers -> Tunns]
       /\ MessagesKnown' /\ IndicesUnique' /\ SessionsKnown' /\ CounterAhead'
       /\ NonceUsedOnce'
  <2>1. accepted' \in [Peers -> Seq(Indices)]
    BY <1>1, <1>2 DEF TypeOK
  <2> QED
    BY <1>2, <1>7, <1>9, <1>11, <1>12, <1>16, <1>17, <2>1, NodeStep
<1>19. DeliveredSpent' /\ DeliveredOnce'
  <2>1. \A x \in Peers : unsent'[x] \subseteq unsent[x]
    BY <1>2
  <2> QED
    BY <1>2, <1>9, <1>16, <2>1, DeliveredStays
<1>20. PacketsOnce'
  <2>1. \A o \in r.out : /\ o.body \notin unsent'[p]
                         /\ \A n \in net : ~Carries(n, p, o.body)
    BY <1>1, <1>2, <1>10 DEF PacketOnce
  <2>2. \A o, n \in r.out : o.body = n.body => o = n
    <3> TAKE o, n \in r.out
    <3>1. PICK i \in 1..Len(t.queued) : o = Flushed(p, c, t.queued, i) /\ o.body = t.queued[i]
      BY <1>10
    <3>2. PICK j \in 1..Len(t.queued) : n = Flushed(p, c, t.queued, j) /\ n.body = t.queued[j]
      BY <1>10
    <3>3. t.queued[i] = t.queued[j] => i = j
      BY <1>1 DEF PacketOnce
    <3> QED
      BY <3>1, <3>2, <3>3
  <2>3. Placed(p, r.t.queued, r.out)
    BY <1>2, <1>7, <2>1, <2>2 DEF Placed, Distinct
  <2> QED
    BY <1>1, <1>2, <1>11, <2>3, PacketStep
<1>21. InitiationsInOrder'
  BY <1>1, <1>2 DEF InitiationsInOrder
<1>22. TypeOK'
  BY <1>1, <1>2, <1>18 DEF TypeOK
<1> QED
  BY <1>18, <1>19, <1>20, <1>21, <1>22 DEF WgInv

\* consume_transport: the session with a counter seen.
Noted(s, n) == [s EXCEPT !.seen = @ \cup {n}, !.confirmed = TRUE]

\* Its fields.
LEMMA ConsumeTransportTunn ==
  ASSUME NEW t \in Tunns, NEW f \in {"current", "previous"}, NEW m, m.ctr \in Nat,
         t[f] # None, now \in Times, NEW u, u = ConsumeTransport(t, f, m),
         NEW c, c = Noted(t[f], m.ctr)
  PROVE  /\ u \in Tunns /\ c \in Sessions
         /\ u.pending = t.pending /\ u.last_ts = t.last_ts /\ u.queued = t.queued
         /\ f = "current" => u.current = c /\ u.previous = None
         /\ f = "previous" => u.previous = c /\ u.current = t.current
<1> DEFINE n == t.need_keepalive \/ m.body # Keepalive
<1>1. n \in BOOLEAN
  OBVIOUS
<1>2. CASE f = "current"
  <2> DEFINE w == [t EXCEPT !.current = c, !.last_received = now, !.need_keepalive = n]
  <2>1. t.current \in Sessions
    BY <1>2, TunnFields
  <2>2. c \in Sessions
    BY <1>2, <2>1, SessionUpdates DEF Noted
  <2>3. u = [w EXCEPT !.previous = None]
    BY <1>2 DEF ConsumeTransport, Noted
  <2>4. u = [t EXCEPT !.current = c, !.last_received = now, !.need_keepalive = n,
                      !.previous = None]
    BY <2>3
  <2> HIDE DEF n
  <2>5. u \in Tunns
    BY <1>1, <2>2, <2>4 DEF Tunns
  <2>6. /\ u.pending = t.pending /\ u.last_ts = t.last_ts /\ u.queued = t.queued
        /\ u.current = c /\ u.previous = None
    BY <2>4 DEF Tunns
  <2> QED
    BY <1>2, <2>2, <2>5, <2>6
<1>3. CASE f = "previous"
  <2>1. t.previous \in Sessions
    BY <1>3, TunnFields
  <2>2. c \in Sessions
    BY <1>3, <2>1, SessionUpdates DEF Noted
  <2>3. u = [t EXCEPT !.previous = c, !.last_received = now, !.need_keepalive = n]
    BY <1>3 DEF ConsumeTransport, Noted
  <2> HIDE DEF n
  <2>4. u \in Tunns
    BY <1>1, <2>2, <2>3 DEF Tunns
  <2>5. /\ u.pending = t.pending /\ u.last_ts = t.last_ts /\ u.queued = t.queued
        /\ u.current = t.current /\ u.previous = c
    BY <2>3 DEF Tunns
  <2> QED
    BY <1>3, <2>2, <2>4, <2>5
<1> QED
  BY <1>2, <1>3

\* handle_packet, transport data.
LEMMA TransportStep ==
  ASSUME WgInv, NEW p \in Peers, NEW m \in net, NEW f \in {"current", "previous"},
         RecvTransport(p, f, m)
  PROVE  WgInv'
<1> DEFINE t == tunn[p]
           s == t[f]
<1>u. PICK u : u = ConsumeTransport(t, f, m)
  OBVIOUS
<1>c. PICK c : c = Noted(s, m.ctr)
  OBVIOUS
<1>r. PICK r : r = [t |-> u, out |-> {}]
  OBVIOUS
<1>1. /\ TypeOK /\ PacketsOnce /\ tunn \in [Peers -> Tunns] /\ t \in Tunns /\ now \in Times
      /\ MessagesKnown /\ NodeKnown(p) /\ InitiationsInOrder /\ PacketOnce(p, t.queued)
      /\ t.current \in Sessions \cup {None} /\ t.previous \in Sessions \cup {None}
  BY TunnFields DEF WgInv, TypeOK, SessionsKnown, PacketsOnce
<1>2. /\ Apply(p, r) /\ now' = now /\ unsent' = unsent /\ accepted' = accepted
      /\ m.type = "data" /\ m.from = Other(p)
      /\ s # None /\ s.key = m.key /\ m.ctr \notin s.seen
      /\ delivered' = IF m.body = Keepalive THEN delivered
                      ELSE [delivered EXCEPT ![p] = Append(@, m.body)]
  BY <1>u, <1>r DEF RecvTransport, Result
<1>3. m.ctr \in Nat /\ m.body \in Packets \cup {Keepalive}
  BY <1>1, <1>2 DEF MessagesKnown
<1>4. /\ u \in Tunns /\ c \in Sessions
      /\ u.pending = t.pending /\ u.last_ts = t.last_ts /\ u.queued = t.queued
      /\ f = "current" => u.current = c /\ u.previous = None
      /\ f = "previous" => u.previous = c /\ u.current = t.current
  <2>1. t \in Tunns /\ t[f] # None
    BY <1>1, <1>2
  <2>2. c = Noted(t[f], m.ctr)
    BY <1>c
  <2> HIDE DEF t
  <2> QED
    BY <1>u, <1>1, <1>3, <2>1, <2>2, ConsumeTransportTunn
<1>5. s \in Sessions /\ s \in SessionsOf(p)
  BY <1>1, <1>2 DEF SessionsOf
<1>6. /\ c.key = s.key /\ c.local = s.local /\ c.remote = s.remote /\ c.ctr = s.ctr
      /\ c.initiator = s.initiator /\ c.seen = s.seen \cup {m.ctr} /\ c # None
  <2> HIDE DEF s
  <2> QED
    BY <1>c, <1>4, <1>5 DEF Sessions, Noted
<1>7. r.t = u /\ r.out = {} /\ tunn'[p] = u /\ net' = net
  BY <1>r, <1>1, <1>2 DEF Apply
<1>8. Moves(p, r.t) /\ Speaks(p, r.out)
  BY <1>4, <1>7 DEF Moves, Speaks
<1>9. CountsOn(p, r)
  <2>1. CASE f = "current"
    <3>1. s = t.current /\ u.current = c /\ s.ctr \in Nat
      BY <1>4, <1>5, <2>1 DEF Sessions
    <3> QED
      BY <1>2, <1>6, <1>7, <3>1 DEF CountsOn
  <2>2. CASE f = "previous"
    <3>1. t.current # None => t.current.ctr \in Nat
      BY <1>1 DEF Sessions
    <3> QED
      BY <1>4, <1>7, <2>2, <3>1 DEF CountsOn
  <2> QED
    BY <2>1, <2>2
<1>10. ASSUME NEW x \in {u.current, u.previous} \ {None}
       PROVE  \/ x = c
              \/ x = t.current /\ f = "previous" /\ x \in SessionsOf(p)
  BY <1>4, <1>10 DEF SessionsOf
<1>11. Remembers(p, r.t)
  <2>1. ASSUME NEW x \in {u.current, u.previous} \ {None}
        PROVE  \E o \in SessionsOf(p) : o.key = x.key /\ o.seen \subseteq x.seen
    BY <1>5, <1>6, <1>10, <2>1
  <2> QED
    BY <1>7, <2>1 DEF Remembers
<1>12. /\ \A i : Initiated(p, i) => Initiated(p, i)'
       /\ \A i : Responded(p, i) => Responded(p, i)'
       /\ \A k : Had(p, k) => Had(p, k)'
  BY <1>1, <1>2, <1>8, HadStays
<1>13. NodeKnown(p)'
  <2>1. ASSUME NEW x \in SessionsOf(p)' PROVE SessionKnown(p, x)'
    <3>1. x \in {u.current, u.previous} \ {None}
      BY <1>7, <2>1 DEF SessionsOf
    <3>2. PICK o \in SessionsOf(p) :
            /\ o.key = x.key /\ o.local = x.local /\ o.remote = x.remote
            /\ o.initiator = x.initiator
      BY <1>5, <1>6, <1>10, <3>1
    <3>3. SessionKnown(p, o)
      BY <1>1 DEF NodeKnown
    <3> QED
      BY <1>12, <3>2, <3>3 DEF SessionKnown
  <2>2. u.current # None /\ u.previous # None => u.current.key # u.previous.key
    BY <1>1, <1>2, <1>4, <1>6 DEF NodeKnown
  <2>3. ASSUME u.pending # None PROVE Initiated(p, u.pending.index)'
    BY <1>1, <1>4, <1>12, <2>3 DEF NodeKnown
  <2>4. \A i \in 1..Len(accepted'[p]) : accepted'[p][i] <= u.last_ts
    BY <1>1, <1>2, <1>4 DEF NodeKnown
  <2> QED
    BY <1>7, <2>1, <2>2, <2>3, <2>4 DEF NodeKnown
<1>14. /\ now' \in Times /\ next' \in 1..MaxIndex + 1 /\ tunn' \in [Peers -> Tunns]
       /\ MessagesKnown' /\ IndicesUnique' /\ SessionsKnown' /\ CounterAhead'
       /\ NonceUsedOnce'
  <2>1. accepted' \in [Peers -> Seq(Indices)]
    BY <1>1, <1>2 DEF TypeOK
  <2> QED
    BY <1>2, <1>4, <1>7, <1>8, <1>9, <1>13, <2>1, NodeStep
<1>15. PacketsOnce'
  <2>1. Placed(p, r.t.queued, r.out)
    BY <1>1, <1>2, <1>4, <1>7 DEF Placed, PacketOnce, Distinct
  <2> QED
    BY <1>1, <1>2, <1>8, <2>1, PacketStep
<1>16. InitiationsInOrder'
  BY <1>1, <1>2 DEF InitiationsInOrder
<1>17. Spent(p, m)'
  <2>1. Had(p, m.key)'
    BY <1>1, <1>2, <1>5, <1>12 DEF NodeKnown, SessionKnown
  <2>2. ASSUME NEW x \in SessionsOf(p)', x.key = m.key PROVE m.ctr \in x.seen
    <3>1. x \in {u.current, u.previous} \ {None}
      BY <1>7, <2>2 DEF SessionsOf
    <3>2. CASE x = c
      BY <1>6, <3>2
    <3>3. CASE x = t.current /\ f = "previous" /\ x \in SessionsOf(p)
      BY <1>1, <1>2, <2>2, <3>1, <3>3 DEF NodeKnown
    <3> QED
      BY <1>10, <3>1, <3>2, <3>3
  <2> QED
    BY <2>1, <2>2 DEF Spent
<1>18. DeliveredSpent' /\ DeliveredOnce' /\ delivered' \in [Peers -> Seq(Packets)]
  <2>0. \A x \in Peers : unsent'[x] \subseteq unsent[x]
    BY <1>2
  <2>1. CASE m.body = Keepalive
    BY <1>1, <1>2, <1>8, <1>11, <2>0, <2>1, DeliveredStays DEF TypeOK
  <2>2. CASE m.body # Keepalive
    <3> DEFINE q == delivered[p]
               d == m.body
    <3>1. d \in Packets /\ q \in Seq(Packets) /\ delivered \in [Peers -> Seq(Packets)]
      BY <1>1, <1>3, <2>2 DEF TypeOK
    <3>2. /\ delivered' = [delivered EXCEPT ![p] = Append(q, d)]
          /\ delivered'[p] = Append(q, d)
          /\ \A x \in Peers : x # p => delivered'[x] = delivered[x]
      BY <1>2, <2>2, <3>1
    <3>3. /\ Append(q, d) \in Seq(Packets) /\ Len(Append(q, d)) = Len(q) + 1
          /\ \A i \in 1..Len(q) : Append(q, d)[i] = q[i]
          /\ Append(q, d)[Len(q) + 1] = d /\ Len(q) \in Nat
      BY <3>1, AppendProperties
    <3>4. delivered' \in [Peers -> Seq(Packets)]
      BY <3>1, <3>2, <3>3
    <3>5. Carries(m, Other(p), d)
      BY <1>2 DEF Carries
    <3>6. ASSUME NEW i \in 1..Len(q) PROVE q[i] # d
      <4>1. PICK n \in net : Carries(n, Other(p), q[i]) /\ Spent(p, n)
        BY <3>6 DEF WgInv, DeliveredSpent
      <4>2. q[i] = d => n = m
        BY <1>1, <3>1, <3>5, <4>1, OtherPeer DEF PacketsOnce, PacketOnce
      <4>3. n # m
        BY <1>2, <1>5, <4>1 DEF Spent
      <4> QED
        BY <4>2, <4>3
    <3>7. d \notin unsent[Other(p)]
      BY <1>1, <3>5, OtherPeer DEF PacketsOnce, PacketOnce
    <3>8. ASSUME NEW x \in Peers, NEW i \in 1..Len(delivered[x])
          PROVE  \E n \in net' : Carries(n, Other(x), delivered[x][i]) /\ Spent(x, n)'
      <4>1. PICK n \in net : Carries(n, Other(x), delivered[x][i]) /\ Spent(x, n)
        BY <3>8 DEF WgInv, DeliveredSpent
      <4>2. Spent(x, n)'
        BY <1>1, <1>2, <1>8, <1>11, <4>1, SpentStays DEF Remembers
      <4> QED
        BY <1>7, <4>1, <4>2
    <3>9. DeliveredSpent'
      <4> SUFFICES ASSUME NEW x \in Peers, NEW i \in 1..Len(delivered'[x])
                   PROVE  \E n \in net' : Carries(n, Other(x), delivered'[x][i])
                                            /\ Spent(x, n)'
        BY DEF DeliveredSpent, Carries
      <4>1. CASE x # p
        BY <3>2, <3>8, <4>1
      <4>2. CASE x = p /\ i \in 1..Len(q)
        BY <3>2, <3>3, <3>8, <4>2
      <4>3. CASE x = p /\ i = Len(q) + 1
        BY <1>7, <1>17, <3>2, <3>3, <3>5, <4>3
      <4> QED
        BY <3>2, <3>3, <4>1, <4>2, <4>3
    <3>10. DeliveredOnce'
      <4>1. ASSUME NEW x \in Peers
            PROVE  /\ \A i, j \in 1..Len(delivered'[x]) :
                        delivered'[x][i] = delivered'[x][j] => i = j
                   /\ \A i \in 1..Len(delivered'[x]) : delivered'[x][i] \notin unsent[Other(x)]
        <5>0. /\ \A i, j \in 1..Len(delivered[x]) : delivered[x][i] = delivered[x][j] => i = j
              /\ \A i \in 1..Len(delivered[x]) : delivered[x][i] \notin unsent[Other(x)]
          BY DEF WgInv, DeliveredOnce
        <5>1. CASE x # p
          BY <3>2, <5>0, <5>1
        <5>2. CASE x = p
          <6>1. \A i \in 1..Len(q) + 1 : i \in 1..Len(q) \/ i = Len(q) + 1
            BY <3>3
          <6>2. /\ \A i, j \in 1..Len(q) : q[i] = q[j] => i = j
                /\ \A i \in 1..Len(q) : q[i] \notin unsent[Other(p)]
            BY <5>0, <5>2
          <6> DEFINE w == Append(q, d)
          <6>0. delivered'[x] = w
            BY <3>2, <5>2
          <6> HIDE DEF q, d
          <6>3. /\ Len(w) = Len(q) + 1 /\ w[Len(q) + 1] = d
                /\ \A i \in 1..Len(q) : w[i] = q[i] /\ w[i] # d
            BY <3>3, <3>6
          <6> HIDE DEF w
          <6>4. ASSUME NEW i \in 1..Len(w), NEW j \in 1..Len(w), w[i] = w[j] PROVE i = j
            BY <6>1, <6>2, <6>3, <6>4
          <6>5. \A i \in 1..Len(w) : w[i] \notin unsent[Other(p)]
            BY <3>7, <6>1, <6>2, <6>3
          <6> QED
            BY <5>2, <6>0, <6>4, <6>5
        <5> QED
          BY <5>1, <5>2
      <4> QED
        BY <1>2, <4>1 DEF DeliveredOnce
    <3> QED
      BY <3>4, <3>9, <3>10
  <2> QED
    BY <2>1, <2>2
<1>19. TypeOK'
  BY <1>1, <1>2, <1>14, <1>18 DEF TypeOK
<1> QED
  BY <1>14, <1>15, <1>16, <1>18, <1>19 DEF WgInv

-----------------------------------------------------------------------------
(***************************************************************************)
(* The theorems.                                                           *)
(***************************************************************************)
\* Two new tunnels and an empty network.
LEMMA WgInit == Init => WgInv
<1> SUFFICES ASSUME Init PROVE WgInv
  OBVIOUS
<1>1. NewTunn \in Tunns
  <2>1. << >> \in Seq(Packets) /\ 0 \in 0..MaxIndex
    OBVIOUS
  <2> QED
    BY <2>1 DEF NewTunn, Tunns
<1>2. TypeOK
  BY <1>1 DEF Init, TypeOK, Times
<1>3. /\ MessagesKnown /\ IndicesUnique /\ CounterAhead /\ NonceUsedOnce
      /\ InitiationsInOrder /\ DeliveredSpent /\ DeliveredOnce
  BY DEF Init, MessagesKnown, IndicesUnique, CounterAhead, NonceUsedOnce,
         InitiationsInOrder, DeliveredSpent, DeliveredOnce
<1>4. \A p \in Peers : /\ tunn[p].current = None /\ tunn[p].previous = None
                       /\ tunn[p].pending = None /\ tunn[p].queued = << >>
                       /\ accepted[p] = << >>
  BY DEF Init, NewTunn
<1>5. SessionsKnown
  BY <1>4 DEF SessionsKnown, NodeKnown, SessionsOf
<1>6. PacketsOnce
  BY <1>4 DEF Init, PacketsOnce, PacketOnce
<1> QED
  BY <1>2, <1>3, <1>5, <1>6 DEF WgInv

\* Time is in the type invariant only.
LEMMA WgStays ==
  ASSUME WgInv, now' \in Times,
         UNCHANGED <<next, tunn, net, unsent, delivered, accepted>>
  PROVE  WgInv'
<1>1. TypeOK'
  BY DEF WgInv, TypeOK
<1>2. \A p, k : Had(p, k)' <=> Had(p, k)
  BY DEF Had, Awaits, Initiated, Responded
<1>3. MessagesKnown' /\ IndicesUnique'
  BY <1>2 DEF WgInv, MessagesKnown, IndicesUnique
<1>4. SessionsKnown'
  <2>1. \A p, i : (Initiated(p, i)' <=> Initiated(p, i)) /\ (Responded(p, i)' <=> Responded(p, i))
    BY DEF Initiated, Responded
  <2>2. \A p, s : SessionKnown(p, s) => SessionKnown(p, s)'
    BY <1>2, <2>1 DEF SessionKnown
  <2>3. \A p : SessionsOf(p)' = SessionsOf(p)
    BY DEF SessionsOf
  <2> QED
    BY <2>1, <2>2, <2>3 DEF WgInv, SessionsKnown, NodeKnown
<1>5. CounterAhead' /\ NonceUsedOnce'
  BY Zenon DEF WgInv, CounterAhead, NonceUsedOnce, SessionsOf
<1>8. InitiationsInOrder' /\ DeliveredOnce'
  BY Zenon DEF WgInv, InitiationsInOrder, DeliveredOnce
<1>6. PacketsOnce'
  <2> SUFFICES ASSUME NEW p \in Peers PROVE PacketOnce(p, tunn[p].queued)'
    BY DEF PacketsOnce
  <2>1. PICK q : q = tunn[p].queued /\ q = tunn'[p].queued
    OBVIOUS
  <2>2. PacketOnce(p, q)
    BY <2>1 DEF WgInv, PacketsOnce
  <2>3. PacketOnce(p, q)'
    BY <2>2 DEF PacketOnce
  <2> QED
    BY <2>1, <2>3 DEF PacketOnce
<1>7. DeliveredSpent'
  <2>1. \A p, m : Spent(p, m)' <=> Spent(p, m)
    <3>1. \A p : SessionsOf(p)' = SessionsOf(p)
      BY DEF SessionsOf
    <3> QED
      BY <1>2, <3>1 DEF Spent
  <2>2. DeliveredSpent
    BY DEF WgInv
  <2>3. delivered' = delivered /\ net' = net
    OBVIOUS
  <2> QED
    BY <2>1, <2>2, <2>3 DEF DeliveredSpent
<1> QED
  BY <1>1, <1>3, <1>4, <1>5, <1>6, <1>7, <1>8 DEF WgInv

\* No step breaks the invariant.
LEMMA WgNext == WgInv /\ [Next]_vars => WgInv'
<1> SUFFICES ASSUME WgInv, [Next]_vars PROVE WgInv'
  OBVIOUS
<1>0. now \in Times
  BY DEF WgInv, TypeOK
<1>1. CASE Elapse
  BY <1>0, <1>1, WgStays DEF Elapse, Times
<1>2. CASE \E p \in Peers :
             \/ \E d \in Packets : SendIp(p, d)
             \/ TickPeer(p)
             \/ \E m \in net : RecvInitiation(p, m)
             \/ \E m \in net : RecvResponse(p, m)
             \/ \E m \in net, f \in {"current", "previous"} : RecvTransport(p, f, m)
  <2>1. PICK p \in Peers :
          \/ \E d \in Packets : SendIp(p, d)
          \/ TickPeer(p)
          \/ \E m \in net : RecvInitiation(p, m)
          \/ \E m \in net : RecvResponse(p, m)
          \/ \E m \in net, f \in {"current", "previous"} : RecvTransport(p, f, m)
    BY <1>2
  <2>2. CASE \E d \in Packets : SendIp(p, d)
    BY <2>2, SendIpStep
  <2>3. CASE TickPeer(p)
    BY <2>3, TickStep
  <2>4. CASE \E m \in net : RecvInitiation(p, m)
    BY <2>4, InitiationStep
  <2>5. CASE \E m \in net : RecvResponse(p, m)
    BY <2>5, ResponseStep
  <2>6. CASE \E m \in net, f \in {"current", "previous"} : RecvTransport(p, f, m)
    BY <2>6, TransportStep
  <2> QED
    BY <2>1, <2>2, <2>3, <2>4, <2>5, <2>6
<1>3. CASE UNCHANGED vars
  BY <1>0, <1>3, WgStays DEF vars
<1> QED
  BY <1>1, <1>2, <1>3 DEF Next

\* The inductive invariant: every handshake message has an index of its own,
\* every session is under a key its node was done agreeing on, its counter
\* is ahead of what was sent, and a packet is in one place.
THEOREM WgInvariant == Spec => []WgInv
BY WgInit, WgNext, PTL DEF Spec

\* seal never uses a counter twice under one key, with queues flushed and
\* responses and initiations lost, repeated and reordered at will.
THEOREM NonceNeverReused == Spec => []NonceUsedOnce
<1>1. WgInv => NonceUsedOnce
  BY DEF WgInv
<1> QED
  BY <1>1, WgInvariant, PTL

\* A packet handed to send_ip comes out of the other tunnel at most once,
\* whichever of its sessions it was sent on and however often the datagram
\* is repeated.
THEOREM PacketDeliveredOnce == Spec => []DeliveredOnce
<1>1. WgInv => DeliveredOnce
  BY DEF WgInv
<1> QED
  BY <1>1, WgInvariant, PTL

\* Sessions with one key are the two ends of one handshake.
LEMMA SessionsAreEnds == WgInv => SessionsMatch
<1> SUFFICES ASSUME WgInv, NEW p \in Peers, NEW s \in SessionsOf(p),
                    NEW r \in SessionsOf(Other(p)), s.key = r.key
             PROVE  /\ s.local = r.remote /\ s.remote = r.local
                    /\ s.initiator # r.initiator
  BY DEF SessionsMatch
<1> DEFINE q == Other(p)
<1>1. q \in Peers /\ q # p
  BY OtherPeer
<1>2. SessionKnown(p, s) /\ SessionKnown(q, r)
  BY <1>1 DEF WgInv, SessionsKnown, NodeKnown
<1>3. \A i : ~(Initiated(p, i) /\ Initiated(q, i)) /\ ~(Responded(p, i) /\ Responded(q, i))
  BY <1>1 DEF WgInv, IndicesUnique, Initiated, Responded
<1>4. ASSUME NEW x \in Peers, NEW y \in SessionsOf(x) PROVE y.initiator \in BOOLEAN
  <2>1. tunn[x] \in Tunns
    BY DEF WgInv, TypeOK
  <2>2. y \in Sessions
    BY <1>4, <2>1, TunnFields DEF SessionsOf
  <2> QED
    BY <2>2 DEF Sessions
<1>5. s.initiator \in BOOLEAN /\ r.initiator \in BOOLEAN
  BY <1>1, <1>4
<1> HIDE DEF q
<1>6. ~(s.initiator /\ r.initiator)
  BY <1>2, <1>3 DEF SessionKnown
<1>7. s.initiator \/ r.initiator
  BY <1>2, <1>3 DEF SessionKnown
<1>8. s.local = r.remote /\ s.remote = r.local
  BY <1>2, <1>6, <1>7 DEF SessionKnown
<1>9. s.initiator # r.initiator
  BY <1>5, <1>6, <1>7
<1> QED
  BY <1>8, <1>9

\* The two ends agree on every session they have with one key, and no session
\* gives way to an initiation older than the one that made it.
THEOREM SessionsAgree == Spec => []SessionsInv
<1>1. WgInv => SessionsInv
  BY SessionsAreEnds DEF WgInv, SessionsInv
<1> QED
  BY <1>1, WgInvariant, PTL

\* What a node that sends on its session sends is not under an old key.
LEMMA SendIsFresh ==
  ASSUME WgInv, NEW p \in Peers, NEW b, NEW r, Apply(p, r), SendStep(p, tunn[p], r, b),
         NEW m \in net' \ net, m.type = "data"
  PROVE  m.from = p /\ ~Expired(tunn'[p].current)
<1>1. m \in r.out /\ tunn'[p] = r.t /\ tunn[p] \in Tunns
  BY DEF Apply, WgInv, TypeOK
<1>2. /\ m = DataMsg(p, tunn[p].current, b) /\ tunn[p].current # None
      /\ ~Expired(tunn[p].current)
      /\ r.t.current = [tunn[p].current EXCEPT !.ctr = @ + 1]
  BY <1>1 DEF SendStep, InitMsg
<1>3. tunn[p].current \in Sessions
  BY <1>1, <1>2, TunnFields
<1>4. r.t.current.created = tunn[p].current.created
  BY <1>2, <1>3 DEF Sessions
<1>5. m.from = p
  BY <1>2 DEF DataMsg
<1> QED
  BY <1>1, <1>2, <1>4, <1>5 DEF Expired

\* What a response flushes is on the session it made.
LEMMA FlushIsFresh ==
  ASSUME WgInv, NEW p \in Peers, NEW m \in net, RecvResponse(p, m)
  PROVE  /\ \A o \in net' \ net : o.from = p
         /\ ~Expired(tunn'[p].current)
<1> DEFINE t == tunn[p]
           k == <<m.to, m.index>>
<1>c. PICK c : c = NewSession(m.to, m.index, k, TRUE)
  OBVIOUS
<1>u. PICK u : u = Answered(t, c)
  OBVIOUS
<1>r. PICK r : r = FlushQueue(u, p)
  OBVIOUS
<1>1. /\ tunn \in [Peers -> Tunns] /\ t \in Tunns /\ now \in Times /\ MessagesKnown
      /\ t.pending \in Pendings \cup {None}
  BY TunnFields DEF WgInv, TypeOK
<1>2. /\ Apply(p, r) /\ m.type = "resp" /\ t.pending # None /\ t.pending.index = m.to
  BY <1>c, <1>u, <1>r DEF RecvResponse, ConsumeResponse, Answered
<1>3. m.index \in Indices /\ m.to \in Indices
  BY <1>1, <1>2 DEF MessagesKnown, Pendings
<1>4. c \in Sessions /\ c.ctr = 0 /\ c.created = now
  <2>1. c \in Sessions
    BY <1>c, <1>1, <1>3, NewSessionType DEF Keys
  <2> QED
    BY <1>c, <2>1 DEF NewSession
<1>5. u \in Tunns /\ u.current = c /\ u.queued = t.queued /\ c # None
  <2>1. t \in Tunns
    BY <1>1
  <2> HIDE DEF t
  <2> QED
    BY <1>u, <1>4, <2>1, TunnAnswered
<1>6. /\ r.t.current.created = now
      /\ \A o \in r.out : \E i \in 1..Len(u.queued) : o = Flushed(p, c, u.queued, i)
  BY <1>r, <1>1, <1>4, <1>5, FlushSends
<1>7. \A o \in r.out : o.from = p
  BY <1>6 DEF Flushed, DataMsg
<1>8. tunn'[p].current.created = now /\ net' \ net \subseteq r.out
  BY <1>1, <1>2, <1>6 DEF Apply
<1> QED
  BY <1>1, <1>7, <1>8 DEF Expired, Times

\* encapsulate, tick and flush_queue seal nothing under a key older than
\* REJECT_AFTER_TIME.
THEOREM NothingSentAfterExpiry == Spec => NoSendAfterExpiry
<1> DEFINE Fresh == \A p \in Peers : \A m \in net' \ net :
                      m.type = "data" /\ m.from = p => ~Expired(tunn'[p].current)
<1>1. ASSUME WgInv, Next PROVE Fresh
  <2>0. TypeOK /\ now \in Times
    BY <1>1 DEF WgInv, TypeOK
  <2>1. ASSUME NEW p \in Peers, NEW b, NEW r, Apply(p, r), SendStep(p, tunn[p], r, b)
        PROVE  Fresh
    BY <1>1, <2>1, SendIsFresh
  <2>2. ASSUME NEW p \in Peers, NEW r, Apply(p, r)
        PROVE  InitMsg(p, next) \in r.out => next \in Indices
    <3>1. InitMsg(p, next).type = "init"
      BY DEF InitMsg
    <3> QED
      BY <2>0, <2>2, <3>1, DrawnIndex DEF TypeOK
  <2>3. ASSUME NEW p \in Peers, NEW d \in Packets, SendIp(p, d) PROVE Fresh
    <3>1. PICK r : r = Encapsulate(tunn[p], p, d)
      OBVIOUS
    <3>2. Apply(p, r) /\ tunn[p] \in Tunns
      BY <2>0, <2>3, <3>1 DEF SendIp, TypeOK
    <3>3. SendStep(p, tunn[p], r, d)
      BY <2>0, <2>2, <3>1, <3>2, EncapsulateSends
    <3> QED
      BY <2>1, <3>2, <3>3
  <2>4. ASSUME NEW p \in Peers, TickPeer(p) PROVE Fresh
    <3>1. PICK r : r = Tick(tunn[p], p)
      OBVIOUS
    <3>2. Apply(p, r) /\ tunn[p] \in Tunns
      BY <2>0, <2>4, <3>1 DEF TickPeer, TypeOK
    <3>3. SendStep(p, tunn[p], r, Keepalive)
      BY <2>0, <2>2, <3>1, <3>2, TickSends
    <3> QED
      BY <2>1, <3>2, <3>3
  <2>5. ASSUME NEW p \in Peers, NEW m \in net, RecvInitiation(p, m) PROVE Fresh
    <3>1. \A o \in net' \ net : o.type = "resp"
      BY <2>5 DEF RecvInitiation, AcceptInitiation, Result, Apply, RespMsg
    <3> QED
      BY <3>1
  <2>6. ASSUME NEW p \in Peers, NEW m \in net, RecvResponse(p, m) PROVE Fresh
    BY <1>1, <2>6, FlushIsFresh
  <2>7. ASSUME NEW p \in Peers, NEW m \in net, NEW f \in {"current", "previous"},
               RecvTransport(p, f, m)
        PROVE  Fresh
    <3>1. net' = net
      BY <2>7 DEF RecvTransport, Result, Apply
    <3> QED
      BY <3>1
  <2>8. CASE Elapse
    BY <2>8 DEF Elapse
  <2> QED
    BY <1>1, <2>3, <2>4, <2>5, <2>6, <2>7, <2>8 DEF Next
<1>2. WgInv /\ [Next]_vars => [Fresh]_vars
  BY <1>1
<1> QED
  BY <1>2, WgInvariant, PTL DEF Spec, NoSendAfterExpiry

-----------------------------------------------------------------------------
(***************************************************************************)
(* The replay window, for any size of the words and of the ring: the ring  *)
(* of words answers as the set of counters does.                           *)
(*                                                                         *)
(* The argument is about the words a window touches.  Its counters lie in  *)
(* at most REPLAY_WORDS consecutive words, so two of them that share a     *)
(* slot of the ring share the word, and with the bit they are equal; a     *)
(* word the window enters is not one that it still needs.                  *)
(***************************************************************************)
HIDE WgAssumption DEF WgAssumption
USE ReplayAssumption DEF ReplayAssumption

-----------------------------------------------------------------------------
(***************************************************************************)
(* Division.                                                               *)
(***************************************************************************)

\* A product that is smaller than one factor in size is zero.
LEMMA SmallProduct ==
  ASSUME NEW d \in Nat \ {0}, NEW x \in Int, -d < d * x, d * x < d
  PROVE  x = 0
<1>1. CASE x >= 1
  <2>1. d * x = d + d * (x - 1) /\ d * (x - 1) >= 0
    BY <1>1
  <2> QED
    BY <2>1
<1>2. CASE x <= -1
  <2>1. d * x = d * (x + 1) - d /\ d * (x + 1) <= 0
    BY <1>2
  <2> QED
    BY <2>1
<1> QED
  BY <1>1, <1>2

\* Quotient and remainder.
LEMMA Division ==
  ASSUME NEW d \in Nat \ {0}, NEW a \in Nat
  PROVE  /\ a \div d \in Nat /\ a % d \in 0..d - 1
         /\ a = d * (a \div d) + (a % d)
OBVIOUS

\* A smaller multiple is a multiple of less.
LEMMA LessFactor ==
  ASSUME NEW d \in Nat \ {0}, NEW x \in Int, NEW y \in Int, d * x < d * y
  PROVE  x < y
<1>1. CASE x >= y
  <2>1. d * (x - y) >= 0 /\ d * (x - y) = d * x - d * y
    BY <1>1
  <2> QED
    BY <2>1
<1> QED
  BY <1>1

\* The constants, and the quotient and the remainder of a counter.
LEMMA Constants ==
  /\ WordBits \in Nat \ {0} /\ REPLAY_WORDS \in Nat /\ REPLAY_WORDS > 1
  /\ REPLAY_BITS \in Nat /\ REPLAY_BITS > 0
  /\ REPLAY_BITS = WordBits * REPLAY_WORDS - WordBits
<1>1. WordBits \in Nat \ {0} /\ REPLAY_WORDS \in Nat /\ REPLAY_WORDS > 1
  OBVIOUS
<1>2. (REPLAY_WORDS - 1) * WordBits = WordBits * REPLAY_WORDS - WordBits
  BY <1>1
<1>3. (REPLAY_WORDS - 1) * WordBits > 0
  BY <1>1
<1> QED
  BY <1>1, <1>2, <1>3 DEF REPLAY_BITS

\* The word of a counter, before it is wrapped around the ring.
Row(c) == c \div WordBits

\* A counter is its row and its bit.
LEMMA RowAndBit ==
  ASSUME NEW c \in Nat
  PROVE  /\ Row(c) \in Nat /\ Bit(c) \in 0..WordBits - 1
         /\ Word(c) = Row(c) % REPLAY_WORDS /\ Word(c) \in Slots
         /\ c = WordBits * Row(c) + Bit(c)
<1>1. /\ Row(c) \in Nat /\ Bit(c) \in 0..WordBits - 1
      /\ c = WordBits * Row(c) + Bit(c)
  BY Division DEF Row, Bit
<1>2. Word(c) = Row(c) % REPLAY_WORDS
  BY DEF Word, Row
<1>3. Row(c) % REPLAY_WORDS \in 0..REPLAY_WORDS - 1
  BY <1>1, Constants
<1> QED
  BY <1>1, <1>2, <1>3 DEF Slots

\* Rows follow the order of the counters, and a counter less than k rows
\* ahead is at most k rows ahead.
LEMMA RowsOrdered ==
  ASSUME NEW a \in Nat, NEW b \in Nat, NEW k \in Nat, a < b + WordBits * k
  PROVE  Row(a) <= Row(b) + k
<1>1. /\ Row(a) \in Nat /\ Row(b) \in Nat
      /\ Bit(a) \in Nat /\ Bit(b) \in Nat /\ Bit(b) < WordBits
      /\ a = WordBits * Row(a) + Bit(a) /\ b = WordBits * Row(b) + Bit(b)
  BY RowAndBit, Constants
<1>2. WordBits * Row(a) < WordBits * Row(b) + WordBits + WordBits * k
  <2>1. WordBits * Row(a) \in Nat /\ WordBits * Row(b) \in Nat /\ WordBits * k \in Nat
    BY <1>1, Constants
  <2> HIDE DEF Row, Bit
  <2> QED
    BY <1>1, <2>1, Constants
<1>3. PICK y \in Int : y = Row(b) + 1 + k
  BY <1>1
<1>4. WordBits * Row(b) + WordBits + WordBits * k = WordBits * y
  BY <1>1, <1>3, Constants
<1>5. WordBits * Row(a) < WordBits * y
  BY <1>2, <1>4
<1>6. Row(a) < y
  BY <1>1, <1>5, LessFactor, Constants
<1> QED
  BY <1>1, <1>3, <1>6

\* Two rows of fewer than REPLAY_WORDS in a row have slots of their own.
LEMMA SlotsDiffer ==
  ASSUME NEW m \in Nat, NEW n \in Nat, m <= n, n < m + REPLAY_WORDS,
         m % REPLAY_WORDS = n % REPLAY_WORDS
  PROVE  m = n
<1>w. REPLAY_WORDS \in Nat \ {0}
  OBVIOUS
<1>1. ASSUME NEW k \in Nat
      PROVE  \E p \in Nat : k = REPLAY_WORDS * p + (k % REPLAY_WORDS)
  <2>1. /\ k \div REPLAY_WORDS \in Nat
        /\ k = REPLAY_WORDS * (k \div REPLAY_WORDS) + (k % REPLAY_WORDS)
    BY ONLY <1>w, Division, k \in Nat
  <2> QED
    BY ONLY <2>1
<1>2. PICK p \in Nat, q \in Nat, r \in Nat :
         m = REPLAY_WORDS * p + r /\ n = REPLAY_WORDS * q + r
  <2>1. PICK p \in Nat : m = REPLAY_WORDS * p + (m % REPLAY_WORDS)
    BY <1>1
  <2>2. PICK q \in Nat : n = REPLAY_WORDS * q + (n % REPLAY_WORDS)
    BY <1>1
  <2>3. m % REPLAY_WORDS \in Nat
    BY <1>w
  <2> QED
    BY ONLY <2>1, <2>2, <2>3, m % REPLAY_WORDS = n % REPLAY_WORDS
<1>3. n - m = REPLAY_WORDS * (q - p)
  BY <1>2, Constants
<1>4. -REPLAY_WORDS < REPLAY_WORDS * (q - p) /\ REPLAY_WORDS * (q - p) < REPLAY_WORDS
  BY <1>3, Constants
<1>5. q - p = 0
  BY <1>4, SmallProduct, Constants
<1> QED
  BY <1>2, <1>5, Constants

-----------------------------------------------------------------------------
(***************************************************************************)
(* The window.                                                             *)
(***************************************************************************)

\* The counters of the window that ends with l, and those ahead in its row.
InWindow(l, c) == l < c + REPLAY_BITS /\ (c <= l \/ Row(c) = Row(l))

\* They are in the last REPLAY_WORDS rows.
LEMMA WindowRows ==
  ASSUME NEW l \in Nat, NEW c \in Nat, InWindow(l, c)
  PROVE  Row(c) <= Row(l) /\ Row(l) < Row(c) + REPLAY_WORDS /\ c <= l + WordBits
<1>1. /\ Row(l) \in Nat /\ Row(c) \in Nat
      /\ c = WordBits * Row(c) + Bit(c) /\ l = WordBits * Row(l) + Bit(l)
      /\ Bit(c) \in 0..WordBits - 1 /\ Bit(l) \in 0..WordBits - 1
  BY RowAndBit
<1>2. Row(c) <= Row(l)
  <2>1. CASE c <= l
    <3>1. c < l + WordBits * 0 \/ c = l
      BY <2>1, Constants
    <3>2. c < l => Row(c) <= Row(l) + 0
      BY <3>1, RowsOrdered, Constants
    <3> QED
      BY <1>1, <3>1, <3>2, Constants
  <2> QED
    BY <1>1, <2>1 DEF InWindow
<1>3. Row(l) <= Row(c) + (REPLAY_WORDS - 1)
  <2>1. REPLAY_BITS = WordBits * (REPLAY_WORDS - 1) /\ REPLAY_WORDS - 1 \in Nat
    BY Constants
  <2>2. l < c + WordBits * (REPLAY_WORDS - 1)
    BY <2>1 DEF InWindow
  <2> QED
    BY <2>1, <2>2, RowsOrdered
<1>4. c <= l + WordBits
  <2>1. CASE Row(c) = Row(l)
    <3>1. WordBits * Row(l) \in Nat
      BY <1>1, Constants
    <3> QED
      BY <1>1, <2>1, <3>1, Constants
  <2> QED
    BY <2>1, Constants DEF InWindow
<1> QED
  BY <1>1, <1>2, <1>3, <1>4, Constants

\* So each of them has a bit of the ring of its own.
LEMMA OwnBit ==
  ASSUME NEW l \in Nat, NEW a \in Nat, NEW b \in Nat, InWindow(l, a), InWindow(l, b),
         Word(a) = Word(b), Bit(a) = Bit(b)
  PROVE  a = b
<1>1. /\ Row(a) \in Nat /\ Row(b) \in Nat /\ Row(l) \in Nat
      /\ Row(a) % REPLAY_WORDS = Row(b) % REPLAY_WORDS
      /\ a = WordBits * Row(a) + Bit(a) /\ b = WordBits * Row(b) + Bit(b)
  BY RowAndBit
<1>2. /\ Row(a) <= Row(l) /\ Row(l) < Row(a) + REPLAY_WORDS
      /\ Row(b) <= Row(l) /\ Row(l) < Row(b) + REPLAY_WORDS
  BY WindowRows
<1>3. Row(a) = Row(b)
  <2>1. CASE Row(a) <= Row(b)
    BY <1>1, <1>2, <2>1, SlotsDiffer, Constants
  <2>2. CASE Row(b) <= Row(a)
    BY <1>1, <1>2, <2>2, SlotsDiffer, Constants
  <2> QED
    BY <1>1, <2>1, <2>2
<1> QED
  BY <1>1, <1>3

-----------------------------------------------------------------------------
(***************************************************************************)
(* The steps of check_and_update.                                          *)
(***************************************************************************)

\* The ring b holds exactly the counters a of the window that ends with l.
Exact(l, b, a) ==
  \A c \in Nat : InWindow(l, c) => (Bit(c) \in b[Word(c)] <=> c \in a)

\* It is what WindowExact says of the counters that it ranges over.
LEMMA ExactRange ==
  ASSUME NEW l \in Nat, NEW b, NEW a
  PROVE  Exact(l, b, a) <=>
           \A c \in 0..(l + WordBits) :
             l < c + REPLAY_BITS /\ (c <= l \/ c \div WordBits = l \div WordBits)
               => (Bit(c) \in b[Word(c)] <=> c \in a)
<1>1. \A c \in Nat : InWindow(l, c) => c \in 0..(l + WordBits)
  BY WindowRows, Constants
<1>2. \A c \in 0..(l + WordBits) : c \in Nat
  BY Constants
<1> QED
  BY <1>1, <1>2 DEF Exact, InWindow, Row

\* A ring: a set of bits for each slot.
Rings == [Slots -> SUBSET (0..WordBits - 1)]

\* mark sets the bit of its counter and no other one of the window.
LEMMA MarkExact ==
  ASSUME NEW l \in Nat, NEW b \in Rings, NEW a, NEW n \in Nat, InWindow(l, n),
         Exact(l, b, a)
  PROVE  Mark(b, n) \in Rings /\ Exact(l, Mark(b, n), a \cup {n})
<1>1. Word(n) \in Slots /\ Bit(n) \in 0..WordBits - 1
  BY RowAndBit
<1>2. \A w \in Slots : Mark(b, n)[w] = IF w = Word(n) THEN b[w] \cup {Bit(n)} ELSE b[w]
  BY <1>1 DEF Mark, Rings
<1>3. Mark(b, n) \in Rings
  BY <1>1 DEF Mark, Rings
<1>4. ASSUME NEW c \in Nat, InWindow(l, c)
      PROVE  Bit(c) \in Mark(b, n)[Word(c)] <=> c \in a \cup {n}
  <2>1. Word(c) \in Slots
    BY RowAndBit
  <2>2. Bit(c) \in b[Word(c)] <=> c \in a
    BY <1>4 DEF Exact
  <2>3. Word(c) = Word(n) /\ Bit(c) = Bit(n) => c = n
    BY <1>4, OwnBit
  <2> QED
    BY <1>2, <2>1, <2>2, <2>3
<1> QED
  BY <1>3, <1>4 DEF Exact

\* The words cleared are the ones entered: what the window keeps is still
\* there, and what it gains is clear.
LEMMA SlideExact ==
  ASSUME NEW n \in Nat, WindowTypeOK, LastHighest, Exact(last, bitmap, seen), n > last
  PROVE  Slide(n) \in Rings /\ Exact(n, Slide(n), seen)
<1>1. last \in Nat /\ bitmap \in Rings
  BY DEF WindowTypeOK, Counters, Rings
<1>2. CASE n - last >= REPLAY_BITS
  <2>1. Slide(n) = [w \in Slots |-> {}]
    BY <1>2 DEF Slide
  <2>2. ASSUME NEW c \in Nat, InWindow(n, c)
        PROVE  c \notin seen /\ Word(c) \in Slots
    <3>1. c > last
      BY <1>1, <1>2, <2>2, Constants DEF InWindow
    <3> QED
      BY <1>1, <3>1, RowAndBit DEF LastHighest
  <2> QED
    BY <2>1, <2>2 DEF Exact, Rings
<1>3. CASE ~(n - last >= REPLAY_BITS)
  <2> DEFINE entered == (Row(last) + 1) .. Row(n)
  <2>1. Slide(n) = [w \in Slots |-> IF \E m \in entered : m % REPLAY_WORDS = w
                                    THEN {} ELSE bitmap[w]]
    BY <1>3 DEF Slide, Row
  <2>2. Row(last) \in Nat /\ Row(n) \in Nat
    BY <1>1, RowAndBit
  <2>3. ASSUME NEW c \in Nat, InWindow(n, c)
        PROVE  Bit(c) \in Slide(n)[Word(c)] <=> c \in seen
    <3>1. /\ Row(c) \in Nat /\ Word(c) = Row(c) % REPLAY_WORDS /\ Word(c) \in Slots
      BY RowAndBit
    <3>2. Row(c) <= Row(n) /\ Row(n) < Row(c) + REPLAY_WORDS
      BY <2>3, WindowRows
    <3>3. CASE Row(c) > Row(last)
      <4>1. Row(c) \in entered
        BY <2>2, <3>1, <3>2, <3>3
      <4>2. Slide(n)[Word(c)] = {}
        BY <2>1, <3>1, <4>1
      <4>3. ~(c <= last)
        <5>1. c < last + WordBits * 0 => Row(c) <= Row(last) + 0
          BY <1>1, RowsOrdered
        <5> QED
          BY <1>1, <2>2, <3>1, <3>3, <5>1, Constants
      <4>4. c \notin seen
        BY <4>3 DEF LastHighest
      <4> QED
        BY <4>2, <4>4
    <3>4. CASE Row(c) <= Row(last)
      <4>1. ASSUME NEW m \in entered, m % REPLAY_WORDS = Word(c)
            PROVE  FALSE
        <5>1. m \in Nat /\ Row(c) <= m /\ m < Row(c) + REPLAY_WORDS /\ m # Row(c)
          BY <2>2, <3>1, <3>2, <3>4, <4>1, Constants
        <5> QED
          BY <3>1, <4>1, <5>1, SlotsDiffer
      <4>2. Slide(n)[Word(c)] = bitmap[Word(c)]
        BY <2>1, <3>1, <4>1
      <4>3. InWindow(last, c)
        <5>1. last < c + REPLAY_BITS
          BY <1>1, <2>3, Constants DEF InWindow
        <5>2. c <= last \/ Row(c) = Row(last)
          <6>1. last < c + WordBits * 0 => Row(last) <= Row(c) + 0
            BY <1>1, RowsOrdered
          <6> QED
            BY <1>1, <2>2, <3>1, <3>4, <6>1, Constants
        <5> QED
          BY <5>1, <5>2 DEF InWindow
      <4> QED
        BY <4>2, <4>3 DEF Exact
    <3> QED
      BY <2>2, <3>1, <3>3, <3>4
  <2>4. Slide(n) \in Rings
    BY <1>1, <2>1 DEF Rings
  <2> QED
    BY <2>3, <2>4 DEF Exact
<1> QED
  BY <1>2, <1>3

-----------------------------------------------------------------------------
(***************************************************************************)
(* The invariant.                                                          *)
(***************************************************************************)

\* What WindowExact says, in terms of Exact.
LEMMA ExactWindow ==
  ASSUME last \in Nat
  PROVE  WindowExact <=> Exact(last, bitmap, seen)
BY ExactRange DEF WindowExact

\* A new window is empty.
LEMMA ReplayInit == WindowInit => ReplayInv
<1> SUFFICES ASSUME WindowInit PROVE ReplayInv
  OBVIOUS
<1>1. WindowTypeOK
  <2>1. 0 \in Counters
    BY DEF Counters
  <2>2. answer \in Counters \X BOOLEAN
    BY <2>1 DEF WindowInit
  <2> QED
    BY <2>1, <2>2 DEF WindowInit, WindowTypeOK
<1>2. WindowExact
  <2>1. \A c \in Nat : Word(c) \in Slots
    BY RowAndBit
  <2>2. Exact(last, bitmap, seen)
    BY <2>1 DEF WindowInit, Exact
  <2> QED
    BY <2>2, ExactWindow DEF WindowInit
<1>3. LastHighest
  BY DEF WindowInit, LastHighest
<1> QED
  BY <1>1, <1>2, <1>3 DEF ReplayInv, WindowInv

\* A counter received leaves the window exact and last the highest one.
LEMMA ReplayNext == ReplayInv /\ [WindowNext]_windowVars => ReplayInv'
<1> SUFFICES ASSUME ReplayInv, [WindowNext]_windowVars PROVE ReplayInv'
  OBVIOUS
<1>0. /\ WindowTypeOK /\ LastHighest /\ last \in Nat /\ bitmap \in Rings
      /\ Exact(last, bitmap, seen)
  BY ExactWindow DEF ReplayInv, WindowInv, WindowTypeOK, Counters, Rings
<1>1. ASSUME NEW c \in Counters, Advance(c)
      PROVE  ReplayInv'
  <2>1. c \in Nat /\ c > last /\ bitmap' = Mark(Slide(c), c) /\ last' = c
        /\ seen' = seen \cup {c} /\ answer' = <<c, TRUE>>
    BY <1>1 DEF Advance, Counters
  <2>2. Slide(c) \in Rings /\ Exact(c, Slide(c), seen)
    BY <1>0, <2>1, SlideExact
  <2>3. InWindow(c, c)
    BY <2>1, Constants DEF InWindow
  <2>4. bitmap' \in Rings /\ Exact(c, bitmap', seen')
    BY <2>1, <2>2, <2>3, MarkExact
  <2>5. WindowExact'
    BY <2>1, <2>4, ExactRange DEF WindowExact
  <2>6. WindowTypeOK'
    BY <1>0, <1>1, <2>1, <2>4 DEF WindowTypeOK, Rings
  <2>7. LastHighest'
    BY <1>0, <2>1 DEF LastHighest, WindowTypeOK, Counters
  <2> QED
    BY <2>5, <2>6, <2>7 DEF ReplayInv, WindowInv
<1>2. ASSUME NEW c \in Counters, Fill(c)
      PROVE  ReplayInv'
  <2>1. c \in Nat /\ c <= last /\ last - c < REPLAY_BITS /\ bitmap' = Mark(bitmap, c)
        /\ last' = last /\ seen' = seen \cup {c} /\ answer' = <<c, TRUE>>
    BY <1>2 DEF Fill, Counters
  <2>2. InWindow(last, c)
    BY <1>0, <2>1, Constants DEF InWindow
  <2>3. bitmap' \in Rings /\ Exact(last, bitmap', seen')
    BY <1>0, <2>1, <2>2, MarkExact
  <2>4. WindowExact'
    BY <1>0, <2>1, <2>3, ExactRange DEF WindowExact
  <2>5. WindowTypeOK'
    BY <1>0, <1>2, <2>1, <2>3 DEF WindowTypeOK, Rings
  <2>6. LastHighest'
    BY <1>0, <2>1 DEF LastHighest
  <2> QED
    BY <2>4, <2>5, <2>6 DEF ReplayInv, WindowInv
<1>3. ASSUME NEW c \in Counters, Refuse(c)
      PROVE  ReplayInv'
  <2>1. /\ last' = last /\ bitmap' = bitmap /\ seen' = seen
        /\ answer' = <<c, FALSE>>
    BY <1>3 DEF Refuse
  <2> QED
    BY <1>3, <2>1 DEF ReplayInv, WindowInv, WindowTypeOK, WindowExact, LastHighest
<1>4. CASE UNCHANGED windowVars
  BY <1>4 DEF ReplayInv, WindowInv, WindowTypeOK, WindowExact, LastHighest, windowVars
<1> QED
  BY <1>1, <1>2, <1>3, <1>4 DEF WindowNext

\* The window is exact and last is the highest counter accepted, always.
LEMMA ReplayAlways == WindowSpec => []ReplayInv
BY ReplayInit, ReplayNext, PTL DEF WindowSpec

(***************************************************************************)
(* Inside the window a bit of the ring is set exactly for a counter that   *)
(* was accepted, after any counters in any order and any jumps, whatever   *)
(* the size of the ring (struct ReplayWindow).                             *)
(***************************************************************************)
THEOREM WindowIsExact == WindowSpec => []WindowInv
<1>1. ReplayInv => WindowInv
  BY DEF ReplayInv
<1> QED
  BY <1>1, ReplayAlways, PTL

-----------------------------------------------------------------------------
(***************************************************************************)
(* The refinement.                                                         *)
(***************************************************************************)

\* last is what the filter finds by looking through the counters accepted.
LEMMA LastIsHighest == ReplayInv => Filter!Highest = last
<1> SUFFICES ASSUME ReplayInv PROVE Filter!Highest = last
  OBVIOUS
<1>1. /\ last \in seen \cup {0} /\ last \in Nat
      /\ \A c \in seen \cup {0} : c \in Nat /\ c <= last
  BY DEF ReplayInv, WindowInv, WindowTypeOK, LastHighest, Counters
<1>2. \A x \in seen \cup {0} : (\A y \in seen \cup {0} : x >= y) <=> x = last
  BY <1>1
<1> QED
  BY <1>1, <1>2 DEF Filter!Highest, Filter!Max

\* A counter that is checked gets the answer of the filter.
LEMMA StepRefines == ReplayInv /\ [WindowNext]_windowVars => [Filter!Next]_<<seen, answer>>
<1> SUFFICES ASSUME ReplayInv, [WindowNext]_windowVars
             PROVE  Filter!Next \/ UNCHANGED <<seen, answer>>
  OBVIOUS
<1>0. /\ LastHighest /\ last \in Nat /\ Exact(last, bitmap, seen)
      /\ Filter!Highest = last
  BY ExactWindow, LastIsHighest DEF ReplayInv, WindowInv, WindowTypeOK, Counters
<1>f. \A c : Filter!Fresh(c) <=> c \notin seen /\ last < c + REPLAY_BITS
  BY <1>0 DEF Filter!Fresh
<1>1. ASSUME NEW c \in Counters, Advance(c)
      PROVE  Filter!Receive(c)
  <2>1. c \in Nat /\ c > last
    BY <1>1 DEF Advance, Counters
  <2>2. c \notin seen /\ last < c + REPLAY_BITS
    BY <1>0, <2>1, Constants DEF LastHighest
  <2>3. Filter!Fresh(c) = TRUE
    BY <1>f, <2>2, Zenon DEF Filter!Fresh
  <2> QED
    BY <1>1, <2>3 DEF Advance, Filter!Receive
<1>2. ASSUME NEW c \in Counters, Fill(c)
      PROVE  Filter!Receive(c)
  <2>1. c \in Nat /\ c <= last /\ last - c < REPLAY_BITS /\ Bit(c) \notin bitmap[Word(c)]
    BY <1>2 DEF Fill, Counters
  <2>2. InWindow(last, c) /\ last < c + REPLAY_BITS
    BY <1>0, <2>1, Constants DEF InWindow
  <2>3. c \notin seen
    BY <1>0, <2>1, <2>2 DEF Exact
  <2>4. Filter!Fresh(c) = TRUE
    BY <1>f, <2>2, <2>3, Zenon DEF Filter!Fresh
  <2> QED
    BY <1>2, <2>4 DEF Fill, Filter!Receive
<1>3. ASSUME NEW c \in Counters, Refuse(c)
      PROVE  Filter!Receive(c)
  <2>1. c \in Nat /\ c <= last
    BY <1>3 DEF Refuse, Counters
  <2>2. CASE last - c >= REPLAY_BITS
    <3>1. ~(last < c + REPLAY_BITS)
      BY <1>0, <2>1, <2>2, Constants
    <3> QED
      BY <1>f, <1>3, <3>1 DEF Refuse, Filter!Receive, Filter!Fresh
  <2>3. CASE ~(last - c >= REPLAY_BITS)
    <3>1. InWindow(last, c) /\ Bit(c) \in bitmap[Word(c)]
      BY <1>0, <1>3, <2>1, <2>3, Constants DEF Refuse, InWindow
    <3>2. c \in seen
      BY <1>0, <2>1, <3>1 DEF Exact
    <3> QED
      BY <1>f, <1>3, <3>2 DEF Refuse, Filter!Receive, Filter!Fresh
  <2> QED
    BY <2>2, <2>3
<1> QED
  BY <1>1, <1>2, <1>3 DEF WindowNext, windowVars, Filter!Next

(***************************************************************************)
(* check_and_update answers as the set of every counter accepted would:    *)
(* none is accepted twice, and no new one inside the window is refused     *)
(* because of one that shares its bit.  The ring implements ReplayFilter.  *)
(***************************************************************************)
THEOREM RingImplementsFilter == WindowSpec => ImplementsFilter
<1>1. WindowInit => Filter!Init
  BY DEF WindowInit, Filter!Init
<1> QED
  BY <1>1, StepRefines, ReplayAlways, PTL DEF WindowSpec, ImplementsFilter, Filter!Spec
=============================================================================
