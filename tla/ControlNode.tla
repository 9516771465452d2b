---------------------------- MODULE ControlNode ----------------------------
(***************************************************************************)
(* The node's control thread (tsnode/src/node.rs, control.rs): start,      *)
(* registration and key rotation, the map stream and the endpoint updates. *)
(*                                                                         *)
(* Three parties write what it reads: the flash, the control server        *)
(* (external) and the STUN handler of the magicsock, which moves the       *)
(* node's endpoints at any moment.  Endpoints are a version number; the    *)
(* machine and disco keys are created like the node key and left out; the  *)
(* peers and filters of a map response are PeerTable's.                    *)
(***************************************************************************)
EXTENDS Naturals

CONSTANTS
  AuthKeys,
  Keys,        \* names of node keys; one nobody holds is as good as new
  None,
  MaxFaults,   \* bound: power failures, failed requests and failed writes
  MaxAdmin,    \* bound: changes made in the tailnet's console
  MaxEps       \* bound: changes of the node's endpoints

ASSUME ControlAssumption ==
  /\ None \notin AuthKeys \cup Keys
  /\ MaxFaults \in Nat /\ MaxAdmin \in Nat /\ MaxEps \in Nat

VARIABLES
  \* The flash: KEY_NODE, KEY_REGISTERED, KEY_HOME_DERP.
  node_key, registered, derp_key,
  \* control_loop, the node key and the auth key in memory, the key of a
  \* rotation.
  ctl, mem, auth_mem, new_key,
  \* The map stream: whether its first message, with the DERP map, was
  \* handled; whether its connection still carries anything.
  greeted, silent,
  \* The endpoints, a STUN answer whose callback is still to run,
  \* endpoints_dirty, the endpoints in a request, a home region is known.
  eps, stun, dirty, req, home,
  \* The control server: the key it has for this device, keys it calls
  \* expired, keys approved in a browser, keys it ever accepted, whether the
  \* auth key is good, the endpoints it hands to the peers.
  srv, expired, approved, accepted, auth_good, told,
  \* Bounds.
  faults, admin

flash == <<node_key, registered, derp_key>>
keys == <<mem, auth_mem, new_key>>
stream == <<greeted, silent>>
endpoints == <<eps, stun, dirty, req, home>>
server == <<srv, expired, approved, accepted, auth_good, told>>
bounds == <<faults, admin>>
vars == <<flash, ctl, keys, stream, endpoints, server, bounds>>

PlaceType ==
  ctl \in {"off", "connect", "check", "register", "rotate", "store", "commit",
           "mark", "request", "map", "clear", "stream", "lite", "update",
           "denied", "refused", "approval", "backoff"}

KeyType ==
  /\ {node_key, mem, new_key, srv} \subseteq Keys \cup {None}
  /\ auth_mem \in AuthKeys \cup {None}
  /\ expired \subseteq Keys /\ approved \subseteq Keys /\ accepted \subseteq Keys

FlagType ==
  /\ registered \in BOOLEAN /\ derp_key \in BOOLEAN
  /\ greeted \in BOOLEAN /\ silent \in BOOLEAN
  /\ stun \in BOOLEAN /\ dirty \in BOOLEAN /\ home \in BOOLEAN
  /\ auth_good \in BOOLEAN

CountType ==
  /\ {eps, req, told} \subseteq 0..MaxEps
  /\ faults \in 0..MaxFaults /\ admin \in 0..MaxAdmin

TypeOK == PlaceType /\ KeyType /\ FlagType /\ CountType

Init ==
  /\ node_key = None /\ registered = FALSE /\ derp_key = FALSE
  /\ ctl = "off" /\ mem = None /\ auth_mem = None /\ new_key = None
  /\ greeted = FALSE /\ silent = FALSE
  /\ eps = 0 /\ stun = FALSE /\ dirty = FALSE /\ req = 0 /\ home = FALSE
  /\ srv = None /\ expired = {} /\ approved = {} /\ accepted = {}
  /\ auth_good = TRUE /\ told = 0
  /\ faults = 0 /\ admin = 0

\* NodeState::Running.
Running == ctl \in {"clear", "stream", "lite", "update"}

\* KeyPair::generate: any key that nobody holds, and that the server has
\* therefore never seen.
FreshKeys == Keys \ {node_key, mem, new_key, srv}

Forget(k) ==
  /\ expired' = expired \ {k} /\ approved' = approved \ {k}
  /\ accepted' = accepted \ {k}
  /\ UNCHANGED <<srv, auth_good, told>>

Fault == faults < MaxFaults /\ faults' = faults + 1 /\ UNCHANGED admin

Step(from, to) == ctl = from /\ ctl' = to

-----------------------------------------------------------------------------
(***************************************************************************)
(* Start and stop.                                                         *)
(***************************************************************************)

\* Node::start with auth key a: a node key is created if the flash has none.
StartNode(a) ==
  /\ Step("off", "connect")
  /\ \/ node_key # None /\ mem' = node_key /\ UNCHANGED server
     \/ node_key = None /\ mem' \in FreshKeys /\ Forget(mem')
  /\ node_key' = mem'
  /\ auth_mem' = a
  /\ UNCHANGED <<registered, derp_key, new_key, stream, endpoints, bounds>>

\* Only the flash survives a power failure.
PowerOff ==
  /\ ctl' = "off" /\ mem' = None /\ auth_mem' = None /\ new_key' = None
  /\ greeted' = FALSE /\ silent' = FALSE
  /\ stun' = FALSE /\ dirty' = FALSE /\ req' = 0 /\ home' = FALSE
  /\ UNCHANGED <<eps, server>>

Crash == ctl # "off" /\ PowerOff /\ Fault /\ UNCHANGED flash

-----------------------------------------------------------------------------
(***************************************************************************)
(* control_loop and register.                                              *)
(***************************************************************************)
NodeOnly == UNCHANGED <<flash, mem, auth_mem, stream, endpoints, server, bounds>>

\* ControlClient::connect (fetch_server_key).
Connect == Step("connect", "check") /\ UNCHANGED new_key /\ NodeOnly

\* A request fails: dial, the Noise and the HTTP/2 handshake, the answer.
RequestFails ==
  /\ ctl \in {"connect", "register", "rotate", "map"}
  /\ ctl' = "backoff" /\ new_key' = None
  /\ Fault
  /\ UNCHANGED <<flash, mem, auth_mem, stream, endpoints, server>>

\* sleep_backoff, and the 20 s wait for an approval.
WaitOver ==
  /\ ctl \in {"backoff", "refused", "approval"}
  /\ ctl' = "connect"
  /\ UNCHANGED new_key /\ NodeOnly

Check ==
  /\ Step("check", IF registered THEN "request" ELSE "register")
  /\ UNCHANGED new_key /\ NodeOnly

\* The server accepts key k for this device.  What is known of keys that
\* nobody holds is dropped.
Accept(k) ==
  /\ srv' = k
  /\ accepted' = (accepted \cap {node_key, mem}) \cup {k}
  /\ expired' = expired \cap {node_key, mem}
  /\ approved' = {}
  /\ UNCHANGED <<auth_good, told>>

Refused == auth_mem # None /\ ~auth_good

NoApprovalNeeded(k) == auth_mem # None \/ k \in approved \/ k = srv

\* register: accepted; or accepted and the answer is lost.
RegisterAccepted(lost) ==
  /\ Step("register", IF lost THEN "backoff" ELSE "mark")
  /\ mem \notin expired /\ NoApprovalNeeded(mem) /\ ~Refused
  /\ Accept(mem)
  /\ IF lost THEN Fault ELSE UNCHANGED bounds
  /\ UNCHANGED <<flash, keys, stream, endpoints>>

\* auth_url: NeedsLogin.
RegisterPending ==
  /\ Step("register", "approval")
  /\ mem \notin expired /\ ~NoApprovalNeeded(mem)
  /\ UNCHANGED new_key /\ NodeOnly

\* resp.error, in either request: the auth key is no longer good.  It is kept
\* and presented again.
RegisterRefused ==
  /\ ctl = "rotate" \/ (ctl = "register" /\ mem \notin expired)
  /\ ctl' = "refused" /\ new_key' = None
  /\ Refused
  /\ NodeOnly

\* node_key_expired: a new key is made ...
RegisterExpired ==
  /\ Step("register", "rotate")
  /\ mem \in expired
  /\ new_key' \in FreshKeys /\ Forget(new_key')
  /\ UNCHANGED <<flash, mem, auth_mem, stream, endpoints, bounds>>

\* ... and registered in a second request; the server may still want to see
\* it approved, and the answer may be lost ...
Rotate(lost, authorized) ==
  /\ Step("rotate", IF lost THEN "backoff" ELSE "store") /\ ~Refused
  /\ new_key' = IF lost THEN None ELSE new_key
  /\ IF authorized THEN Accept(new_key) ELSE UNCHANGED server
  /\ IF lost \/ ~authorized THEN Fault ELSE UNCHANGED bounds
  /\ UNCHANGED <<flash, mem, auth_mem, stream, endpoints>>

\* Mutant: the new key is used and not stored.
StoreKeySkipped ==
  /\ Step("store", "commit")
  /\ UNCHANGED new_key /\ NodeOnly

\* ... stored ...
StoreKey ==
  /\ Step("store", "commit")
  /\ node_key' = new_key
  /\ UNCHANGED <<registered, derp_key, keys, stream, endpoints, server, bounds>>

\* ... and used.
CommitKey ==
  /\ Step("commit", IF new_key \in accepted THEN "mark" ELSE "approval")
  /\ mem' = new_key /\ new_key' = None
  /\ UNCHANGED <<flash, auth_mem, stream, endpoints, server, bounds>>

Mark ==
  /\ Step("mark", "request")
  /\ registered' = TRUE
  /\ UNCHANGED <<node_key, derp_key, keys, stream, endpoints, server, bounds>>

\* The flash is full: a lost key ends the registration, a lost mark does not.
WriteFails ==
  /\ \/ Step("store", "backoff") /\ new_key' = None
     \/ Step("mark", "request") /\ UNCHANGED new_key
  /\ Fault
  /\ UNCHANGED <<flash, mem, auth_mem, stream, endpoints, server>>

-----------------------------------------------------------------------------
(***************************************************************************)
(* run_map_stream and handle_map_response.                                 *)
(***************************************************************************)

\* The home region of the last time, if there is none yet; map_request reads
\* the endpoints.
MapRequest ==
  /\ Step("request", "map")
  /\ home' = (home \/ derp_key)
  /\ req' = eps
  /\ UNCHANGED <<flash, keys, stream, eps, stun, dirty, server, bounds>>

\* The server answers: Running ...
MapStream ==
  /\ Step("map", "clear")
  /\ mem = srv /\ mem \notin expired
  /\ told' = req
  /\ greeted' = FALSE /\ silent' = FALSE
  /\ UNCHANGED <<srv, expired, approved, accepted, auth_good>>
  /\ UNCHANGED <<flash, keys, endpoints, bounds>>

\* ... or the key is refused, in words that control_loop looks for (HTTP 401,
\* HTTP 403, not registered, expired) ...
MapDenied ==
  /\ Step("map", "denied")
  /\ mem # srv \/ mem \in expired
  /\ UNCHANGED new_key /\ NodeOnly

\* ... or in others: the registration mark stays, and the same is tried again.
MapRefused ==
  /\ Step("map", "refused")
  /\ mem # srv \/ mem \in expired
  /\ UNCHANGED new_key /\ NodeOnly

\* Mutant: the registration is kept.
DeniedKeeps == Step("denied", "backoff") /\ UNCHANGED new_key /\ NodeOnly

Denied ==
  /\ Step("denied", "backoff")
  /\ registered' = FALSE
  /\ UNCHANGED <<node_key, derp_key, keys, stream, endpoints, server, bounds>>

\* endpoints_dirty is cleared when the answer is there: a change since
\* map_request is forgotten here.
ClearDirty ==
  /\ Step("clear", "stream")
  /\ dirty' = FALSE
  /\ UNCHANGED <<flash, keys, stream, eps, stun, req, home, server, bounds>>

\* Mutant: a home region that was known leaves the endpoints as they are.
FirstMessageClean ==
  /\ Step("stream", "stream") /\ ~greeted /\ ~silent
  /\ greeted' = TRUE
  /\ home' = TRUE /\ derp_key' = (derp_key \/ ~home)
  /\ dirty' = (dirty \/ ~home)
  /\ UNCHANGED <<node_key, registered, keys, silent, eps, stun, req, server, bounds>>

\* The first message has the DERP map: the home region is connected, or
\* probed for (with a fallback) and stored, and the endpoints are sent again.
FirstMessage ==
  /\ Step("stream", "stream") /\ ~greeted /\ ~silent
  /\ greeted' = TRUE
  /\ home' = TRUE /\ derp_key' = (derp_key \/ ~home)
  /\ dirty' = TRUE
  /\ UNCHANGED <<node_key, registered, keys, silent, eps, stun, req, server, bounds>>

\* A keep-alive, or 5 s without a message: nothing changes.
KeepAlive == ctl = "stream" /\ UNCHANGED vars

\* A change of the endpoints: the flag is cleared, and read once more they
\* are sent in a request of their own connection.
LiteBegin ==
  /\ Step("stream", "lite") /\ dirty
  /\ dirty' = FALSE
  /\ UNCHANGED <<flash, keys, stream, eps, stun, req, home, server, bounds>>

LiteRequest ==
  /\ Step("lite", "update")
  /\ req' = eps
  /\ UNCHANGED <<flash, keys, stream, eps, stun, dirty, home, server, bounds>>

LiteDone ==
  /\ Step("update", "stream")
  /\ mem = srv /\ mem \notin expired
  /\ told' = req
  /\ UNCHANGED <<srv, expired, approved, accepted, auth_good>>
  /\ UNCHANGED <<flash, keys, stream, endpoints, bounds>>

\* The server refuses or the request fails: once more later.
LiteFails ==
  /\ Step("update", "stream")
  /\ dirty' = TRUE
  /\ \/ (mem # srv \/ mem \in expired) /\ UNCHANGED bounds
     \/ Fault
  /\ UNCHANGED <<flash, keys, stream, eps, stun, req, home, server>>

\* The connection of the stream dies without a word.
LinkDies ==
  /\ Running /\ ~silent
  /\ silent' = TRUE
  /\ Fault
  /\ UNCHANGED <<flash, ctl, keys, greeted, endpoints, server>>

\* Mutant: the time counts from the first message on.
KeepaliveTimeoutGreeted ==
  /\ Step("stream", "backoff") /\ silent /\ greeted
  /\ UNCHANGED new_key /\ NodeOnly

\* MAP_KEEPALIVE_TIMEOUT.
KeepaliveTimeout ==
  /\ Step("stream", "backoff") /\ silent
  /\ UNCHANGED new_key /\ NodeOnly

\* The stream ends, or an error ends it; the server ends the stream of a key
\* it does not accept any more.
StreamEnds ==
  /\ Step("stream", "backoff")
  /\ \/ (mem # srv \/ mem \in expired) /\ UNCHANGED bounds
     \/ Fault
  /\ UNCHANGED <<flash, keys, stream, endpoints, server>>

-----------------------------------------------------------------------------
(***************************************************************************)
(* handle_stun: the address is changed under the lock, endpoints_changed   *)
(* is called after it.                                                     *)
(***************************************************************************)
StunAnswer ==
  /\ ctl # "off" /\ eps < MaxEps
  /\ eps' = eps + 1 /\ stun' = TRUE
  /\ UNCHANGED <<flash, ctl, keys, stream, dirty, req, home, server, bounds>>

StunNotify ==
  /\ stun
  /\ stun' = FALSE /\ dirty' = TRUE
  /\ UNCHANGED <<flash, ctl, keys, stream, eps, req, home, server, bounds>>

(***************************************************************************)
(* The tailnet's console (external).                                       *)
(***************************************************************************)
Admin == admin < MaxAdmin /\ admin' = admin + 1 /\ UNCHANGED faults

AdminOnly == UNCHANGED <<flash, ctl, keys, stream, endpoints, told>>

Expire ==
  /\ srv \notin expired \cup {None}
  /\ expired' = expired \cup {srv}
  /\ Admin /\ UNCHANGED <<srv, approved, accepted, auth_good>> /\ AdminOnly

Delete ==
  /\ srv # None
  /\ srv' = None /\ approved' = approved \ {srv}
  /\ Admin /\ UNCHANGED <<expired, accepted, auth_good>> /\ AdminOnly

Revoke ==
  /\ auth_good' = FALSE /\ auth_good
  /\ Admin /\ UNCHANGED <<srv, expired, approved, accepted>> /\ AdminOnly

Approve ==
  /\ ctl = "approval" /\ mem \notin approved
  /\ approved' = approved \cup {mem}
  /\ UNCHANGED <<srv, expired, accepted, auth_good, bounds>> /\ AdminOnly

-----------------------------------------------------------------------------
Loop ==
  \/ Connect \/ WaitOver \/ Check
  \/ RegisterAccepted(FALSE) \/ RegisterPending \/ RegisterRefused \/ RegisterExpired
  \/ Rotate(FALSE, TRUE) \/ StoreKey \/ CommitKey \/ Mark
  \/ MapRequest \/ MapStream \/ MapDenied \/ MapRefused \/ Denied
  \/ ClearDirty \/ FirstMessage \/ LiteBegin \/ LiteRequest \/ LiteDone
  \/ LiteFails \/ KeepaliveTimeout \/ StreamEnds

Trouble ==
  \/ RequestFails \/ WriteFails \/ LinkDies
  \/ RegisterAccepted(TRUE) \/ Rotate(TRUE, TRUE) \/ Rotate(FALSE, FALSE)

Console == Expire \/ Delete \/ Revoke \/ Approve

NodeNext == Loop \/ KeepAlive \/ Trouble \/ StunAnswer \/ StunNotify \/ Console

Next ==
  \/ \E a \in AuthKeys \cup {None} : StartNode(a)
  \/ Crash
  \/ NodeNext

Spec == Init /\ [][Next]_vars

(***************************************************************************)
(* Fairness: the thread runs; what fails is bounded by Fault.  The timer   *)
(* of the keep-alive is looked at in every round of the stream, in which   *)
(* it is enabled again and again.  Starts, approvals, faults and changes   *)
(* are never forced.                                                       *)
(***************************************************************************)
Fairness ==
  /\ WF_vars(Loop) /\ WF_vars(StunNotify)
  /\ SF_vars(KeepaliveTimeout)
  /\ SF_vars(StreamEnds /\ (mem # srv \/ mem \in expired))

FairSpec == Spec /\ Fairness

-----------------------------------------------------------------------------
(***************************************************************************)
(* Properties.                                                             *)
(***************************************************************************)

(***************************************************************************)
(* While the node is up, the key it uses is the one in the flash, so that  *)
(* the device comes back as the same node after a power failure at any     *)
(* moment, of a rotation too (node.rs:337).                                *)
(***************************************************************************)
SameIdentity == Running => node_key = mem

(***************************************************************************)
(* The registration mark never lies: the key in the flash next to it is    *)
(* one control accepted, whatever answers were lost, writes failed and     *)
(* rotations were cut off.  The skipped registration relies on it.         *)
(***************************************************************************)
RegisteredIsKnown == registered => node_key \in accepted

(***************************************************************************)
(* What a restart relies on: the flash holds the key in use, and its       *)
(* registration mark is true (node.rs, register and control_loop).         *)
(***************************************************************************)
IdentityInv == TypeOK /\ SameIdentity /\ RegisteredIsKnown

(***************************************************************************)
(* What makes IdentityInv inductive.  The thread holds the keys its place  *)
(* needs, whatever is in the flash:                                        *)
(***************************************************************************)
KeysHeld ==
  /\ ctl # "off" => mem # None
  /\ ctl \in {"rotate", "store", "commit"} => new_key # None

\* the flash follows the key in use, one write ahead in a rotation ...
FlashFollows ==
  /\ ctl = "off" => mem = None
  /\ ctl = "commit" => node_key = new_key
  /\ ctl \notin {"off", "commit"} => node_key = mem

\* ... and there is no mark from the registration to its new mark, so that
\* the key next to the mark is never one that is only being tried.
MarkFollows ==
  /\ ctl \in {"register", "rotate", "store", "commit", "mark", "approval"} => ~registered
  /\ ctl = "mark" => mem \in accepted

NodeInv == TypeOK /\ KeysHeld /\ FlashFollows /\ MarkFollows /\ RegisteredIsKnown

(***************************************************************************)
(* A node that was started is up in the end, or asks for approval, from    *)
(* any content of the flash that failed writes, power failures, expiries   *)
(* and deletions can leave.  Excepted is a node that is refused for ever   *)
(* and tries the same for ever: its auth key is no longer good and stays   *)
(* in memory, or its map request is refused in words that control_loop     *)
(* does not look for, which leave the mark of a registration that control  *)
(* does not know (node.rs:292-301).                                        *)
(***************************************************************************)
NodeComesUp ==
  <>[](ctl # "refused") => ((ctl # "off") ~> (Running \/ ctl \in {"approval", "off"}))

(***************************************************************************)
(* A change of the endpoints reaches the control server if the stream      *)
(* stays, although the flag may be cleared after the change it stands for: *)
(* the DERP map of the stream's first message sets it again.               *)
(***************************************************************************)
EndpointsTold == <>[](Running /\ ~silent) => <>[](told = eps)

(***************************************************************************)
(* A map stream whose connection went silent is left, also when endpoint   *)
(* updates, which have connections of their own, still get through or keep *)
(* failing.                                                                *)
(***************************************************************************)
SilentIsLeft == silent ~> (~silent \/ ~Running)
=============================================================================
