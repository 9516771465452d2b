------------------------------ MODULE PeerPath ------------------------------
(***************************************************************************)
(* The path of one peer in tsnode/src/magicsock.rs: the direct address     *)
(* that is trusted for TRUST_UDP_ADDR, the disco pings that prove it, the  *)
(* endpoints of control and of call-me-maybe, and the timers of the tick   *)
(* thread.  Every handler runs under the state mutex and is one action.    *)
(*                                                                         *)
(* The peer and the network are external: which of the peer's addresses    *)
(* carry packets to it and from it, a peer that starts again with a new    *)
(* disco key, lost and late answers.  Times are ages in a common unit; a   *)
(* ping that will not be answered any more leaves no trace (the retain of  *)
(* send_ping drops entries of 10 s only, older than any answer).           *)
(***************************************************************************)
EXTENDS Integers, FiniteSets

CONSTANTS
  Addrs,             \* addresses the peer may have
  None,
  Trust,             \* TRUST_UDP_ADDR
  Heartbeat,         \* HEARTBEAT_INTERVAL
  PingInterval,      \* DISCO_PING_INTERVAL
  CmmInterval,       \* CALL_ME_MAYBE_INTERVAL
  Active,            \* SESSION_ACTIVE_TIMEOUT
  MaxEndpoints,      \* MAX_ENDPOINTS
  MaxDelay,          \* bound: age at which a packet in the network is lost
  MaxChanges         \* bound: changes of the network and of what control says

ASSUME PathAssumption ==
  /\ None \notin Addrs
  /\ {Trust, Heartbeat, PingInterval, CmmInterval, Active, MaxEndpoints} \subseteq Nat \ {0}
  /\ {MaxDelay, MaxChanges} \subseteq Nat

VARIABLES
  \* Fields of Peer.  disco is the identity of the peer that control told.
  disco, endpoints, home_derp, best, pings,
  last_ping_round, last_heartbeat, last_cmm, last_activity,
  \* The tick thread has to run.
  due,
  \* The network: addresses that carry packets to the peer and from it, the
  \* time since each last did, the identity of the peer.
  out, inn, unreached, silent, theirs,
  changes

peer == <<disco, endpoints, home_derp, best, pings,
          last_ping_round, last_heartbeat, last_cmm, last_activity>>
network == <<out, inn, unreached, silent, theirs, changes>>
vars == <<peer, due, network>>

\* A ping that the peer answers, and the identity that seals the pong.  All
\* of the delay is on the way back.
Pings == [addr : Addrs, age : 0..MaxDelay, id : {1, 2}]

Best == [addr : Addrs, trust : 0..Trust, latency : 0..MaxDelay + 1]

\* The addresses of the peer and the first of them, the one place of the
\* list that matters.  Control may list more than MAX_ENDPOINTS.
Endpoints ==
  {e \in [all : SUBSET Addrs, first : Addrs \cup {None}] :
     IF e.all = {} THEN e.first = None ELSE e.first \in e.all}

\* A time that is long enough: more is not told apart.
Long == Trust + MaxDelay + 1

TypeOK ==
  /\ disco \in {1, 2} /\ endpoints \in Endpoints /\ home_derp \in BOOLEAN
  /\ best \in Best \cup {None} /\ pings \subseteq Pings
  /\ last_ping_round \in 0..PingInterval /\ last_heartbeat \in 0..Heartbeat
  /\ last_cmm \in 0..CmmInterval /\ last_activity \in 0..Active
  /\ due \in BOOLEAN
  /\ out \subseteq Addrs /\ inn \subseteq Addrs
  /\ unreached \in [Addrs -> 0..Long] /\ silent \in [Addrs -> 0..Long]
  /\ theirs \in {1, 2} /\ changes \in 0..MaxChanges

\* new_peer and apply_node; the peer may have started again since.
Init ==
  /\ disco = 1 /\ endpoints \in Endpoints /\ home_derp = TRUE
  /\ best = None /\ pings = {}
  /\ last_ping_round = PingInterval /\ last_heartbeat = Heartbeat
  /\ last_cmm = CmmInterval /\ last_activity = Active
  /\ due = FALSE
  /\ out \in SUBSET Addrs /\ inn = out
  /\ unreached = [a \in Addrs |-> IF a \in out THEN 0 ELSE Long]
  /\ silent = [a \in Addrs |-> IF a \in inn THEN 0 ELSE Long]
  /\ theirs \in {1, 2} /\ changes = 0

-----------------------------------------------------------------------------
\* The direct address is trusted now.
Trusted == best # None /\ best.trust > 0

\* send_wg: where a WireGuard packet goes.
WgPath ==
  CASE Trusted -> [kind |-> "direct", addr |-> best.addr]
    [] ~Trusted /\ home_derp -> [kind |-> "derp", addr |-> None]
    [] ~Trusted /\ ~home_derp /\ endpoints.all # {} -> [kind |-> "first", addr |-> endpoints.first]
    [] OTHER -> [kind |-> "nowhere", addr |-> None]

\* send_ping to the addresses of S: those that work get an answer, unless
\* the ping is sealed for a former identity.
Ping(S) ==
  pings' = pings \cup [addr : IF disco = theirs THEN S \cap out ELSE {}, age : {0}, id : {theirs}]

\* Mutant: trust is extended on whatever path the packet came.
NotePathAny(a) ==
  best' = CASE best # None /\ (best.addr = a \/ best.trust > 0) -> [best EXCEPT !.trust = Trust]
            [] OTHER -> [addr |-> a, trust |-> Trust, latency |-> 0]

\* note_path: an authenticated packet came from a.
NotePath(a) ==
  best' = CASE best # None /\ best.addr = a -> [best EXCEPT !.trust = Trust]
            [] best # None /\ best.addr # a /\ best.trust > 0 -> best
            [] OTHER -> [addr |-> a, trust |-> Trust, latency |-> 0]

\* ping_all_endpoints and send_call_me_maybe of maybe_start_discovery, with
\* the path b.  (Our own endpoints are known.)
Discover(b) ==
  LET idle == b = None \/ b.trust = 0
      round == idle /\ last_ping_round = PingInterval
      cmm == idle /\ last_cmm = CmmInterval /\ home_derp IN
  /\ last_ping_round' = IF round THEN 0 ELSE last_ping_round
  /\ Ping(IF round THEN endpoints.all ELSE {})
  /\ last_cmm' = IF cmm THEN 0 ELSE last_cmm

-----------------------------------------------------------------------------
(***************************************************************************)
(* Packets.                                                                *)
(***************************************************************************)
Timers == UNCHANGED <<last_ping_round, last_heartbeat, last_cmm, last_activity>>
Names == UNCHANGED <<disco, endpoints, home_derp>>
World == UNCHANGED <<due, out, inn, unreached, silent, theirs>>
Net == World /\ UNCHANGED changes

\* A packet of the peer arrives from a: sent while the address worked.
From(a) == silent[a] <= MaxDelay

\* send_ip.
SendIp ==
  /\ last_activity' = 0
  /\ Discover(best)
  /\ Names /\ Net /\ UNCHANGED <<best, last_heartbeat>>

\* Transport data: activity, and unless the source is refused the path.
RecvData(a, allowed) ==
  /\ From(a)
  /\ last_activity' = 0
  /\ IF allowed THEN NotePath(a) ELSE UNCHANGED best
  /\ Names /\ Net /\ UNCHANGED <<pings, last_ping_round, last_heartbeat, last_cmm>>

RecvRelayed ==
  /\ last_activity' = 0
  /\ Names /\ Net /\ UNCHANGED <<best, pings, last_ping_round, last_heartbeat, last_cmm>>

\* A handshake message or a keepalive: the path only.
RecvOther(a) ==
  /\ From(a) /\ NotePath(a)
  /\ Names /\ Net /\ Timers /\ UNCHANGED pings

\* Mutant: only an address that control listed is probed back.
RecvPingListed(a) ==
  /\ From(a) /\ disco = theirs
  /\ Ping(IF Trusted /\ best.addr = a THEN {} ELSE {a} \cap endpoints.all)
  /\ Names /\ Net /\ Timers /\ UNCHANGED best

\* A ping of the peer: its address is probed unless it is the trusted one.
RecvPing(a) ==
  /\ From(a) /\ disco = theirs
  /\ Ping(IF Trusted /\ best.addr = a THEN {} ELSE {a})
  /\ Names /\ Net /\ Timers /\ UNCHANGED best

\* What a pong does to best: a later one with the same or a smaller age may
\* or may not be faster by 5 ms.
Pong(p) ==
  \/ /\ Trusted => best.addr = p.addr \/ p.age + 1 <= best.latency
     /\ best' = [addr |-> p.addr, trust |-> Trust, latency |-> p.age + 1]
  \/ /\ Trusted /\ best.addr # p.addr
     /\ UNCHANGED best

\* A pong of the identity we know proves the address that was pinged, by
\* whatever path it comes.
RecvPong(p) ==
  /\ p.id = disco
  /\ Pong(p)
  /\ pings' = pings \ {p}
  /\ Names /\ Net /\ Timers

\* Call-me-maybe: those of its addresses that are new are added while there
\* is room, which makes the endpoints e, and all of them are pinged.
RecvCallMeMaybe(e) ==
  /\ disco = theirs
  /\ endpoints.all \subseteq e.all
  /\ e.all = endpoints.all \/ Cardinality(e.all) <= MaxEndpoints
  /\ endpoints.all # {} => e.first = endpoints.first
  /\ endpoints' = e
  /\ last_ping_round' = 0
  /\ Ping(e.all)
  /\ UNCHANGED <<disco, home_derp, best, last_heartbeat, last_cmm, last_activity>>
  /\ Net

-----------------------------------------------------------------------------
(***************************************************************************)
(* The tick thread and time.                                               *)
(***************************************************************************)

\* The path after the look at its trust.
Kept(active) == IF best # None /\ best.trust = 0 /\ active THEN None ELSE best

\* peer_path_maintenance.
Maintain ==
  LET active == last_activity < Active
      b == Kept(active) IN
  /\ due /\ due' = FALSE
  /\ best' = b
  /\ CASE active /\ b # None ->
            /\ last_heartbeat' = IF last_heartbeat = Heartbeat THEN 0 ELSE last_heartbeat
            /\ Ping(IF last_heartbeat = Heartbeat THEN {b.addr} ELSE {})
            /\ UNCHANGED <<last_ping_round, last_cmm>>
       [] active /\ b = None -> Discover(b) /\ UNCHANGED last_heartbeat
       [] OTHER -> UNCHANGED <<last_heartbeat, pings, last_ping_round, last_cmm>>
  /\ Names /\ UNCHANGED <<last_activity, network>>

Older(age, limit) == IF age < limit THEN age + 1 ELSE limit

\* A unit of time; the tick thread runs at least once in each.
Time ==
  /\ ~due /\ due' = TRUE
  /\ best' = IF Trusted THEN [best EXCEPT !.trust = @ - 1] ELSE best
  /\ pings' = {[p EXCEPT !.age = @ + 1] : p \in {q \in pings : q.age < MaxDelay}}
  /\ last_ping_round' = Older(last_ping_round, PingInterval)
  /\ last_heartbeat' = Older(last_heartbeat, Heartbeat)
  /\ last_cmm' = Older(last_cmm, CmmInterval)
  /\ last_activity' = Older(last_activity, Active)
  /\ unreached' = [a \in Addrs |-> IF a \in out THEN 0 ELSE Older(unreached[a], Long)]
  /\ silent' = [a \in Addrs |-> IF a \in inn THEN 0 ELSE Older(silent[a], Long)]
  /\ Names /\ UNCHANGED <<out, inn, theirs, changes>>

-----------------------------------------------------------------------------
(***************************************************************************)
(* Control.                                                                *)
(***************************************************************************)

Changed == changes < MaxChanges /\ changes' = changes + 1

\* apply_node, with the identity control knows.
SetNode(eps, derp) ==
  /\ Changed
  /\ best' = IF disco # theirs THEN None ELSE best
  /\ disco' = theirs /\ endpoints' = eps /\ home_derp' = derp
  /\ World /\ Timers /\ UNCHANGED pings

\* apply_patches: a new disco key leaves the path alone.
Patch(eps) ==
  /\ Changed
  /\ disco' = theirs /\ endpoints' = eps /\ home_derp' = TRUE
  /\ World /\ Timers /\ UNCHANGED <<best, pings>>

\* set_node_key.
SetNodeKey ==
  /\ best # None /\ best' = None
  /\ Names /\ Net /\ Timers /\ UNCHANGED pings

-----------------------------------------------------------------------------
(***************************************************************************)
(* The network and the peer (external).                                    *)
(***************************************************************************)

\* Addresses begin or cease to work, in one direction or in both.
Change(a, toPeer, fromPeer) ==
  /\ Changed
  /\ out' = IF toPeer THEN out \cup {a} ELSE out \ {a}
  /\ inn' = IF fromPeer THEN inn \cup {a} ELSE inn \ {a}
  /\ unreached' = [unreached EXCEPT ![a] = IF toPeer THEN 0 ELSE @]
  /\ silent' = [silent EXCEPT ![a] = IF fromPeer THEN 0 ELSE @]
  /\ UNCHANGED <<peer, due, theirs>>

\* The peer starts again.
Restart ==
  /\ theirs = 1 /\ theirs' = 2 /\ Changed
  /\ UNCHANGED <<peer, due, out, inn, unreached, silent>>

-----------------------------------------------------------------------------
Packets ==
  \/ SendIp \/ RecvRelayed
  \/ \E a \in Addrs : (\E allowed \in BOOLEAN : RecvData(a, allowed)) \/ RecvOther(a) \/ RecvPing(a)
  \/ \E p \in pings : RecvPong(p)
  \/ \E e \in Endpoints : RecvCallMeMaybe(e)

Control ==
  \/ \E eps \in Endpoints : Patch(eps) \/ \E derp \in BOOLEAN : SetNode(eps, derp)
  \/ SetNodeKey

Next ==
  \/ Packets \/ Control \/ Maintain \/ Time \/ Restart
  \/ \E a \in Addrs, toPeer, fromPeer \in BOOLEAN : Change(a, toPeer, fromPeer)

Spec == Init /\ [][Next]_vars

(***************************************************************************)
(* Fairness: time passes, the tick thread runs, there is traffic to the    *)
(* peer, of the pings and pongs on a path that works not all are lost, and *)
(* the peer pings when it was called.                                      *)
(***************************************************************************)
Pinged(a) == last_cmm = 0 /\ RecvPing(a)
Ponged(a) == a \in inn /\ \E p \in pings : p.addr = a /\ RecvPong(p)

Fairness ==
  /\ WF_vars(Time) /\ WF_vars(Maintain) /\ WF_vars(SendIp)
  /\ \A a \in Addrs : SF_vars(Pinged(a)) /\ SF_vars(Ponged(a))

FairSpec == Spec /\ Fairness

-----------------------------------------------------------------------------
(***************************************************************************)
(* Properties.                                                             *)
(***************************************************************************)

(***************************************************************************)
(* No black hole: a packet goes to the direct address only if, within the  *)
(* time its trust has run and the delay of a packet, the address carried   *)
(* packets from the peer, or packets to it, whatever pongs are late, by    *)
(* whatever address they come and whatever control says in between.        *)
(***************************************************************************)
WorkedLately ==
  WgPath.kind = "direct" =>
    \/ silent[WgPath.addr] <= Trust - best.trust + MaxDelay
    \/ unreached[WgPath.addr] <= Trust - best.trust + MaxDelay

(***************************************************************************)
(* A ping under way was carried to the peer since it was sent: that is why *)
(* its pong proves the address, although nobody looks where it comes from. *)
(***************************************************************************)
PingsReached ==
  /\ \A a \in out : unreached[a] = 0
  /\ \A p \in pings : unreached[p.addr] <= p.age

(***************************************************************************)
(* The path of the peer is within its bounds and not a black hole          *)
(* (magicsock.rs, send_wg, note_path and handle_disco).                    *)
(***************************************************************************)
PathInv == TypeOK /\ WorkedLately /\ PingsReached

(***************************************************************************)
(* A direct path is found again: when from some time on an address works   *)
(* both ways and every address the peer is heard from carries packets to   *)
(* it, the trusted address is over and over one that reaches the peer,     *)
(* although it need not be among the endpoints: the peer hears of us by    *)
(* DERP and pings, and its ping is probed back.  Which one it is the code  *)
(* leaves open: a pong by one address proves the other that was pinged.    *)
(***************************************************************************)
Good(a) ==
  a \in out /\ a \in inn /\ inn \subseteq out /\ disco = theirs /\ home_derp

DirectAgain ==
  \A a \in Addrs : <>[]Good(a) => []<>(WgPath.kind = "direct" /\ WgPath.addr \in out)
=============================================================================
