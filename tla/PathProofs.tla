----------------------------- MODULE PathProofs -----------------------------
(***************************************************************************)
(* Proofs about PeerPath, for any addresses, intervals and delays: packets *)
(* are sent to the direct address only while it worked lately.             *)
(*                                                                         *)
(* PathInv is inductive.  The argument is a race of two clocks: the trust  *)
(* in the direct address runs down by one in each unit in which the        *)
(* silence of that address, or the time since it last carried a packet to  *)
(* the peer, grows by one, so the sum does not grow; and whatever sets the *)
(* trust to its full value is a packet that came from the address at most  *)
(* MaxDelay ago, or a pong whose ping the address carried (PingsReached).  *)
(***************************************************************************)
EXTENDS PeerPath, TLAPS

USE PathAssumption DEF PathAssumption

-----------------------------------------------------------------------------
(***************************************************************************)
(* The path.                                                               *)
(***************************************************************************)

\* WorkedLately, of the path b, with the silence s of each address and the
\* time u since it reached the peer.
Worked(b, s, u) ==
  b # None /\ b.trust > 0 =>
    s[b.addr] <= Trust - b.trust + MaxDelay \/ u[b.addr] <= Trust - b.trust + MaxDelay

\* A packet is sent directly exactly when the path is trusted.
LEMMA WorkedMeans == WorkedLately <=> Worked(best, silent, unreached)
<1>1. CASE Trusted
  <2>1. WgPath = [kind |-> "direct", addr |-> best.addr]
    BY <1>1 DEF WgPath
  <2> QED
    BY <1>1, <2>1 DEF WorkedLately, Worked, Trusted
<1>2. CASE ~Trusted
  <2>1. WgPath.kind # "direct"
    <3>1. CASE home_derp
      BY <1>2, <3>1 DEF WgPath
    <3>2. CASE ~home_derp /\ endpoints.all # {}
      BY <1>2, <3>2 DEF WgPath
    <3>3. CASE ~home_derp /\ endpoints.all = {}
      BY <1>2, <3>3 DEF WgPath
    <3> QED
      BY <3>1, <3>2, <3>3
  <2> QED
    BY <1>2, <2>1 DEF WorkedLately, Worked, Trusted
<1> QED
  BY <1>1, <1>2

\* The constants are numbers, and None is not a path.
LEMMA Constants ==
  /\ Trust \in Nat /\ Trust > 0 /\ Heartbeat \in Nat /\ PingInterval \in Nat
  /\ CmmInterval \in Nat /\ Active \in Nat /\ MaxDelay \in Nat /\ MaxChanges \in Nat
  /\ Long \in Nat /\ Long = Trust + MaxDelay + 1
BY DEF Long

\* What note_path makes of the path, when the peer was just heard from a.
LEMMA NotePathWorked ==
  ASSUME NEW a \in Addrs, best \in Best \cup {None}, Worked(best, silent, unreached),
         silent[a] <= MaxDelay, silent[a] \in Nat, NotePath(a)
  PROVE  best' \in Best \cup {None} /\ Worked(best', silent, unreached)
<1>1. [addr |-> a, trust |-> Trust, latency |-> 0] \in Best
  BY Constants DEF Best
<1>2. CASE best # None /\ best.addr = a
  <2>1. best' = [best EXCEPT !.trust = Trust]
    BY <1>2 DEF NotePath
  <2>2. best' \in Best /\ best'.addr = a /\ best'.trust = Trust
    BY <1>2, <2>1, Constants DEF Best
  <2> QED
    BY <2>2, Constants DEF Worked
<1>3. CASE best # None /\ best.addr # a /\ best.trust > 0
  BY <1>3 DEF NotePath
<1>4. CASE ~(best # None /\ best.addr = a) /\ ~(best # None /\ best.addr # a /\ best.trust > 0)
  <2>1. best' = [addr |-> a, trust |-> Trust, latency |-> 0]
    BY <1>4 DEF NotePath
  <2>2. best'.addr = a /\ best'.trust = Trust
    BY <2>1
  <2> QED
    BY <1>1, <2>1, <2>2, Constants DEF Worked
<1> QED
  BY <1>2, <1>3, <1>4

\* The same for a pong: its ping reached the peer since it was sent.
LEMMA PongWorked ==
  ASSUME NEW p \in Pings, best \in Best \cup {None}, Worked(best, silent, unreached),
         unreached[p.addr] <= p.age, unreached[p.addr] \in Nat, Pong(p)
  PROVE  best' \in Best \cup {None} /\ Worked(best', silent, unreached)
<1>1. p.addr \in Addrs /\ p.age \in 0..MaxDelay
  BY DEF Pings
<1>2. CASE best' = [addr |-> p.addr, trust |-> Trust, latency |-> p.age + 1]
  <2>1. best' \in Best
    BY <1>1, <1>2, Constants DEF Best
  <2>2. best'.addr = p.addr /\ best'.trust = Trust
    BY <1>2
  <2>3. unreached[p.addr] <= MaxDelay
    BY <1>1, Constants
  <2> QED
    BY <2>1, <2>2, <2>3, Constants DEF Worked
<1>3. CASE best' = best
  BY <1>3
<1> QED
  BY <1>2, <1>3 DEF Pong

\* Pings are sent to addresses, and those that are answered to addresses
\* that reach the peer now.
LEMMA PingTypes ==
  ASSUME NEW S \in SUBSET Addrs, pings \subseteq Pings, theirs \in {1, 2}, Ping(S),
         PingsReached, UNCHANGED <<out, unreached>>
  PROVE  pings' \subseteq Pings /\ PingsReached'
<1> DEFINE sent == [addr : IF disco = theirs THEN S \cap out ELSE {}, age : {0}, id : {theirs}]
<1>1. sent \subseteq Pings
  BY Constants DEF Pings
<1>2. \A p \in sent : p.addr \in out /\ p.age = 0
  OBVIOUS
<1>3. \A p \in sent : unreached[p.addr] <= p.age
  BY <1>2 DEF PingsReached
<1>4. pings' = pings \cup sent
  BY DEF Ping
<1> QED
  BY <1>1, <1>3, <1>4 DEF PingsReached

\* The timers of discovery stay in their range.
LEMMA DiscoverTypes ==
  ASSUME NEW b, TypeOK, PingsReached, UNCHANGED <<out, unreached>>, Discover(b)
  PROVE  /\ last_ping_round' \in 0..PingInterval /\ last_cmm' \in 0..CmmInterval
         /\ pings' \subseteq Pings /\ PingsReached'
<1> DEFINE idle == b = None \/ b.trust = 0
           round == idle /\ last_ping_round = PingInterval
<1>1. last_ping_round' \in 0..PingInterval /\ last_cmm' \in 0..CmmInterval
  BY Constants DEF Discover, TypeOK
<1>2. PICK S \in SUBSET Addrs : Ping(S)
  <2>1. endpoints.all \in SUBSET Addrs
    BY DEF TypeOK, Endpoints
  <2>2. Ping(IF round THEN endpoints.all ELSE {})
    BY DEF Discover
  <2>3. (IF round THEN endpoints.all ELSE {}) \in SUBSET Addrs
    BY <2>1
  <2> QED
    BY <2>2, <2>3
<1>3. pings' \subseteq Pings /\ PingsReached'
  BY <1>2, PingTypes DEF TypeOK
<1> QED
  BY <1>1, <1>3

-----------------------------------------------------------------------------
(***************************************************************************)
(* PathInv, an action at a time.                                           *)
(***************************************************************************)

\* PathInv in terms of Worked.
PathInd == TypeOK /\ Worked(best, silent, unreached) /\ PingsReached

USE DEF peer, network, Timers, Names, World, Net

\* Ages are numbers.
LEMMA Silence ==
  ASSUME TypeOK, NEW a \in Addrs
  PROVE  /\ silent[a] \in Nat /\ silent[a] \in 0..Long
         /\ unreached[a] \in Nat /\ unreached[a] \in 0..Long
BY Constants DEF TypeOK

\* PathInv: packets that leave the path alone.
LEMMA QuietPackets ==
  ASSUME PathInd, SendIp \/ RecvRelayed \/ \E a \in Addrs : RecvPing(a)
  PROVE  PathInd'
<1> USE DEF PathInd
<1>1. CASE SendIp
  <2>1. /\ last_ping_round' \in 0..PingInterval /\ last_cmm' \in 0..CmmInterval
        /\ pings' \subseteq Pings /\ PingsReached'
    BY <1>1, DiscoverTypes DEF SendIp
  <2> QED
    BY <1>1, <2>1, Constants DEF SendIp, TypeOK
<1>2. CASE RecvRelayed
  BY <1>2, Constants DEF RecvRelayed, TypeOK, PingsReached
<1>3. ASSUME NEW a \in Addrs, RecvPing(a) PROVE PathInd'
  <2>1. PICK S \in SUBSET Addrs : Ping(S)
    <3>1. (IF Trusted /\ best.addr = a THEN {} ELSE {a}) \in SUBSET Addrs
      OBVIOUS
    <3> QED
      BY <1>3, <3>1 DEF RecvPing
  <2>2. pings' \subseteq Pings /\ PingsReached'
    BY <1>3, <2>1, PingTypes DEF RecvPing, TypeOK
  <2> QED
    BY <1>3, <2>2 DEF RecvPing, TypeOK
<1> QED
  BY <1>1, <1>2, <1>3

\* PathInv: packets and pongs that show a path.
LEMMA PathPackets ==
  ASSUME PathInd,
         \/ \E a \in Addrs : (\E allowed \in BOOLEAN : RecvData(a, allowed)) \/ RecvOther(a)
         \/ \E p \in pings : RecvPong(p)
  PROVE  PathInd'
<1> USE DEF PathInd
<1>1. ASSUME NEW a \in Addrs, NEW allowed \in BOOLEAN, RecvData(a, allowed) PROVE PathInd'
  <2>1. silent[a] <= MaxDelay /\ silent[a] \in Nat
    BY <1>1, Silence DEF RecvData, From
  <2>2. best' \in Best \cup {None} /\ Worked(best', silent, unreached)
    <3>1. CASE allowed
      BY <1>1, <2>1, <3>1, NotePathWorked DEF RecvData, TypeOK
    <3>2. CASE ~allowed
      BY <1>1, <3>2 DEF RecvData, TypeOK
    <3> QED
      BY <3>1, <3>2
  <2> QED
    BY <1>1, <2>2, Constants DEF RecvData, TypeOK, PingsReached
<1>2. ASSUME NEW a \in Addrs, RecvOther(a) PROVE PathInd'
  <2>1. silent[a] <= MaxDelay /\ silent[a] \in Nat
    BY <1>2, Silence DEF RecvOther, From
  <2>2. best' \in Best \cup {None} /\ Worked(best', silent, unreached)
    BY <1>2, <2>1, NotePathWorked DEF RecvOther, TypeOK
  <2> QED
    BY <1>2, <2>2 DEF RecvOther, TypeOK, PingsReached
<1>3. ASSUME NEW p \in pings, RecvPong(p) PROVE PathInd'
  <2>1. p \in Pings /\ p.addr \in Addrs
    BY DEF TypeOK, Pings
  <2>2. unreached[p.addr] <= p.age /\ unreached[p.addr] \in Nat
    BY <2>1, Silence DEF PingsReached
  <2>3. best' \in Best \cup {None} /\ Worked(best', silent, unreached)
    BY <1>3, <2>1, <2>2, PongWorked DEF RecvPong, TypeOK
  <2> QED
    BY <1>3, <2>3 DEF RecvPong, TypeOK, PingsReached
<1> QED
  BY <1>1, <1>2, <1>3

\* PathInv: call-me-maybe.
LEMMA CallMeMaybe ==
  ASSUME PathInd, NEW e \in Endpoints, RecvCallMeMaybe(e)
  PROVE  PathInd'
<1> USE DEF PathInd
<1>1. e.all \in SUBSET Addrs
  BY DEF Endpoints
<1>2. pings' \subseteq Pings /\ PingsReached'
  BY <1>1, PingTypes DEF TypeOK, RecvCallMeMaybe
<1> QED
  BY <1>2, Constants DEF RecvCallMeMaybe, TypeOK

\* PathInv: the tick thread drops a path, never adds one.
LEMMA Maintenance ==
  ASSUME PathInd, Maintain
  PROVE  PathInd'
<1> USE DEF PathInd
<1> DEFINE active == last_activity < Active
<1>1. PICK b : b = Kept(active)
  OBVIOUS
<1>2. b \in Best \cup {None} /\ Worked(b, silent, unreached)
  BY <1>1 DEF Kept, TypeOK, Worked
<1>3. /\ best' = b /\ due' = FALSE
      /\ UNCHANGED <<disco, endpoints, home_derp, last_activity, network>>
  BY <1>1 DEF Maintain
<1>4. /\ last_ping_round' \in 0..PingInterval /\ last_cmm' \in 0..CmmInterval
      /\ pings' \subseteq Pings /\ last_heartbeat' \in 0..Heartbeat /\ PingsReached'
  <2>1. CASE active /\ b # None
    <3>1. b.addr \in Addrs
      BY <1>2, <2>1 DEF Best
    <3>2. /\ last_heartbeat' = IF last_heartbeat = Heartbeat THEN 0 ELSE last_heartbeat
          /\ Ping(IF last_heartbeat = Heartbeat THEN {b.addr} ELSE {})
          /\ UNCHANGED <<last_ping_round, last_cmm>>
      BY <1>1, <2>1 DEF Maintain
    <3>3. PICK S \in SUBSET Addrs : Ping(S)
      <4>1. (IF last_heartbeat = Heartbeat THEN {b.addr} ELSE {}) \in SUBSET Addrs
        BY <3>1
      <4> QED
        BY <3>2, <4>1
    <3>4. pings' \subseteq Pings /\ PingsReached'
      BY <1>3, <3>3, PingTypes DEF TypeOK
    <3> QED
      BY <3>2, <3>4, Constants DEF TypeOK
  <2>2. CASE active /\ b = None
    <3>1. Discover(b) /\ UNCHANGED last_heartbeat
      BY <1>1, <2>2 DEF Maintain
    <3> QED
      BY <1>3, <3>1, DiscoverTypes DEF TypeOK
  <2>3. CASE ~active
    <3>1. UNCHANGED <<last_heartbeat, pings, last_ping_round, last_cmm>>
      BY <1>1, <2>3 DEF Maintain
    <3> QED
      BY <1>3, <3>1 DEF TypeOK, PingsReached
  <2> QED
    BY <2>1, <2>2, <2>3
<1> QED
  BY <1>2, <1>3, <1>4 DEF TypeOK

\* PathInv: trust runs down as silence grows.
LEMMA TimePasses ==
  ASSUME PathInd, Time
  PROVE  PathInd'
<1> USE DEF PathInd
<1>1. \A l \in Nat : \A x \in 0..l : Older(x, l) \in 0..l /\ Older(x, l) <= x + 1
  BY DEF Older
<1>2. /\ last_ping_round' \in 0..PingInterval /\ last_heartbeat' \in 0..Heartbeat
      /\ last_cmm' \in 0..CmmInterval /\ last_activity' \in 0..Active
  BY <1>1, Constants DEF Time, TypeOK
<1>3. \A a \in Addrs : /\ silent'[a] \in 0..Long /\ silent'[a] <= silent[a] + 1
                        /\ unreached'[a] \in 0..Long /\ unreached'[a] <= unreached[a] + 1
  <2> SUFFICES ASSUME NEW a \in Addrs
               PROVE  /\ silent'[a] \in 0..Long /\ silent'[a] <= silent[a] + 1
                      /\ unreached'[a] \in 0..Long /\ unreached'[a] <= unreached[a] + 1
    OBVIOUS
  <2>1. /\ silent'[a] = IF a \in inn THEN 0 ELSE Older(silent[a], Long)
        /\ unreached'[a] = IF a \in out THEN 0 ELSE Older(unreached[a], Long)
    BY DEF Time
  <2>2. silent[a] \in 0..Long /\ unreached[a] \in 0..Long /\ Long \in Nat
    BY Silence, Constants
  <2>3. /\ Older(silent[a], Long) \in 0..Long /\ Older(silent[a], Long) <= silent[a] + 1
        /\ Older(unreached[a], Long) \in 0..Long /\ Older(unreached[a], Long) <= unreached[a] + 1
    BY <1>1, <2>2
  <2> QED
    BY <2>1, <2>2, <2>3
<1>4. silent' \in [Addrs -> 0..Long] /\ unreached' \in [Addrs -> 0..Long]
  BY <1>3 DEF Time
<1>5. pings' \subseteq Pings /\ PingsReached'
  <2>1. pings' = {[p EXCEPT !.age = p.age + 1] : p \in {q \in pings : q.age < MaxDelay}}
    BY DEF Time
  <2>2. ASSUME NEW p \in pings, p.age < MaxDelay
        PROVE  LET q == [p EXCEPT !.age = p.age + 1] IN
               q \in Pings /\ unreached'[q.addr] <= q.age
    <3>1. p \in Pings /\ p.addr \in Addrs /\ p.age \in Nat
      BY DEF TypeOK, Pings
    <3>2. /\ [p EXCEPT !.age = p.age + 1] \in Pings
          /\ [p EXCEPT !.age = p.age + 1].addr = p.addr
          /\ [p EXCEPT !.age = p.age + 1].age = p.age + 1
      BY <2>2, <3>1, Constants DEF Pings
    <3>3. unreached[p.addr] <= p.age /\ unreached[p.addr] \in Nat
      BY <3>1, Silence DEF PingsReached
    <3>4. unreached'[p.addr] <= unreached[p.addr] + 1 /\ unreached'[p.addr] \in 0..Long
      BY <1>3, <3>1
    <3>5. unreached'[p.addr] <= p.age + 1
      BY <3>1, <3>3, <3>4, Constants
    <3> QED
      BY <3>2, <3>5
  <2>3. \A q \in pings' : q \in Pings /\ unreached'[q.addr] <= q.age
    BY <2>1, <2>2
  <2>4. \A a \in out' : unreached'[a] = 0
    BY DEF Time, TypeOK
  <2> QED
    BY <2>3, <2>4 DEF PingsReached
<1>6. best' \in Best \cup {None} /\ Worked(best', silent', unreached')
  <2>1. CASE Trusted
    <3>1. best' = [best EXCEPT !.trust = best.trust - 1] /\ best # None /\ best.trust > 0
      BY <2>1 DEF Time, Trusted
    <3>2. best \in Best
      BY <3>1 DEF TypeOK
    <3>3. /\ best' \in Best /\ best'.addr = best.addr /\ best'.trust = best.trust - 1
          /\ best.addr \in Addrs /\ best.trust \in 0..Trust
      BY <3>1, <3>2, Constants DEF Best
    <3>4. /\ \/ silent[best.addr] <= Trust - best.trust + MaxDelay
             \/ unreached[best.addr] <= Trust - best.trust + MaxDelay
          /\ silent[best.addr] \in Nat /\ unreached[best.addr] \in Nat
      BY <3>1, <3>3, Silence DEF Worked
    <3>5. /\ silent'[best.addr] <= silent[best.addr] + 1 /\ silent'[best.addr] \in 0..Long
          /\ unreached'[best.addr] <= unreached[best.addr] + 1 /\ unreached'[best.addr] \in 0..Long
      BY <1>3, <3>3
    <3>6. \/ silent'[best'.addr] <= Trust - best'.trust + MaxDelay
          \/ unreached'[best'.addr] <= Trust - best'.trust + MaxDelay
      BY <3>3, <3>4, <3>5, Constants
    <3> QED
      BY <3>3, <3>6 DEF Worked
  <2>2. CASE ~Trusted
    BY <2>2 DEF Time, TypeOK, Worked, Trusted
  <2> QED
    BY <2>1, <2>2
<1>7. due' \in BOOLEAN
  BY Zenon DEF Time
<1> QED
  BY <1>2, <1>4, <1>5, <1>6, <1>7 DEF Time, TypeOK

\* PathInv: what control says.
LEMMA ControlKeeps ==
  ASSUME PathInd, Control
  PROVE  PathInd'
<1> USE DEF PathInd
<1>1. Changed => changes' \in 0..MaxChanges
  BY Constants DEF Changed, TypeOK
<1>2. ASSUME NEW eps \in Endpoints, Patch(eps) PROVE PathInd'
  BY <1>1, <1>2 DEF Patch, TypeOK, PingsReached
<1>3. ASSUME NEW eps \in Endpoints, NEW derp \in BOOLEAN, SetNode(eps, derp) PROVE PathInd'
  <2>1. best' \in Best \cup {None} /\ Worked(best', silent, unreached)
    BY <1>3 DEF SetNode, TypeOK, Worked
  <2>2. home_derp' \in BOOLEAN
    BY <1>3, Zenon DEF SetNode
  <2> QED
    BY <1>1, <1>3, <2>1, <2>2 DEF SetNode, TypeOK, PingsReached
<1>4. CASE SetNodeKey
  BY <1>4 DEF SetNodeKey, TypeOK, Worked, PingsReached
<1> QED
  BY <1>2, <1>3, <1>4 DEF Control

\* PathInv: the network and the peer.
LEMMA NetworkKeeps ==
  ASSUME PathInd,
         Restart \/ \E a \in Addrs, toPeer, fromPeer \in BOOLEAN : Change(a, toPeer, fromPeer)
  PROVE  PathInd'
<1> USE DEF PathInd
<1>1. Changed => changes' \in 0..MaxChanges
  BY Constants DEF Changed, TypeOK
<1>2. CASE Restart
  BY <1>1, <1>2 DEF Restart, TypeOK, PingsReached
<1>3. ASSUME NEW a \in Addrs, NEW toPeer \in BOOLEAN, NEW fromPeer \in BOOLEAN,
             Change(a, toPeer, fromPeer)
      PROVE  PathInd'
  <2>1. \A x \in Addrs : silent'[x] <= silent[x] /\ unreached'[x] <= unreached[x]
    BY <1>3, Constants DEF Change, TypeOK
  <2>2. silent' \in [Addrs -> 0..Long] /\ unreached' \in [Addrs -> 0..Long]
    BY <1>3, Constants DEF Change, TypeOK
  <2>3. best' = best /\ pings' = pings
    BY <1>3 DEF Change
  <2>4. Worked(best', silent', unreached')
    <3> SUFFICES ASSUME best # None, best.trust > 0
                 PROVE  \/ silent'[best.addr] <= Trust - best.trust + MaxDelay
                        \/ unreached'[best.addr] <= Trust - best.trust + MaxDelay
      BY <2>3 DEF Worked
    <3>1. best.addr \in Addrs /\ best.trust \in 0..Trust
      BY DEF TypeOK, Best
    <3>2. \/ silent[best.addr] <= Trust - best.trust + MaxDelay
          \/ unreached[best.addr] <= Trust - best.trust + MaxDelay
      BY DEF Worked
    <3>3. /\ silent[best.addr] \in Nat /\ silent'[best.addr] \in Nat
          /\ unreached[best.addr] \in Nat /\ unreached'[best.addr] \in Nat
      BY <2>2, <3>1, Silence, Constants
    <3> QED
      BY <2>1, <3>1, <3>2, <3>3, Constants
  <2>5. PingsReached'
    <3>1. \A x \in out' : unreached'[x] = 0
      BY <1>3 DEF Change, TypeOK, PingsReached
    <3>2. ASSUME NEW p \in pings PROVE unreached'[p.addr] <= p.age
      <4>1. p.addr \in Addrs /\ p.age \in Nat
        BY DEF TypeOK, Pings
      <4>2. unreached[p.addr] <= p.age /\ unreached[p.addr] \in Nat
        BY <4>1, Silence DEF PingsReached
      <4>3. unreached'[p.addr] <= unreached[p.addr] /\ unreached'[p.addr] \in Nat
        BY <2>1, <2>2, <4>1, Constants
      <4> QED
        BY <4>1, <4>2, <4>3
    <3> QED
      BY <2>3, <3>1, <3>2 DEF PingsReached
  <2> QED
    BY <1>1, <1>3, <2>2, <2>4, <2>5 DEF Change, TypeOK
<1> QED
  BY <1>2, <1>3

-----------------------------------------------------------------------------
(***************************************************************************)
(* Put together.                                                           *)
(***************************************************************************)

\* A new peer has no path.
LEMMA PathInit == Init => PathInd
<1> SUFFICES ASSUME Init PROVE PathInd
  OBVIOUS
<1>1. home_derp \in BOOLEAN /\ due \in BOOLEAN
  BY Zenon DEF Init
<1>2. Worked(best, silent, unreached)
  BY DEF Init, Worked
<1>3. silent \in [Addrs -> 0..Long] /\ unreached \in [Addrs -> 0..Long]
  BY Constants DEF Init
<1>4. PingsReached
  BY DEF Init, PingsReached
<1> QED
  BY <1>1, <1>2, <1>3, <1>4, Constants DEF Init, PathInd, TypeOK

\* No step breaks PathInv.
LEMMA PathNext == PathInd /\ [Next]_vars => PathInd'
<1> SUFFICES ASSUME PathInd, [Next]_vars PROVE PathInd'
  OBVIOUS
<1>1. CASE Packets
  BY <1>1, QuietPackets, PathPackets, CallMeMaybe DEF Packets
<1>2. CASE Control
  BY <1>2, ControlKeeps
<1>3. CASE Maintain
  BY <1>3, Maintenance
<1>4. CASE Time
  BY <1>4, TimePasses
<1>5. CASE Restart \/ \E a \in Addrs, toPeer, fromPeer \in BOOLEAN : Change(a, toPeer, fromPeer)
  BY <1>5, NetworkKeeps
<1>6. CASE UNCHANGED vars
  BY <1>6 DEF vars, PathInd, TypeOK, PingsReached
<1> QED
  BY <1>1, <1>2, <1>3, <1>4, <1>5, <1>6 DEF Next

(***************************************************************************)
(* No black hole: send_wg gives a packet to the direct address only while  *)
(* that address carried packets from the peer or to it in the last         *)
(* TRUST_UDP_ADDR and the delay of a packet, for any intervals, whatever   *)
(* arrives late, from another address or from control in between.          *)
(***************************************************************************)
THEOREM PathWorkedLately == Spec => []PathInv
<1>1. PathInd => PathInv
  BY WorkedMeans DEF PathInd, PathInv
<1> QED
  BY <1>1, PathInit, PathNext, PTL DEF Spec
=============================================================================
