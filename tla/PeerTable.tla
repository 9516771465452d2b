----------------------------- MODULE PeerTable -----------------------------
(***************************************************************************)
(* The peer table of magicsock (crates/tsnode/src/magicsock.rs, struct     *)
(* State) and the id table of the control thread (node.rs, nodes_by_id):   *)
(* the peers by node key, and the maps that find a peer from the receiver  *)
(* index of a WireGuard packet and from the sender key of a disco packet.  *)
(*                                                                         *)
(* Control updates the table while the udp, DERP and tick threads add and  *)
(* drop indices; every step holds the state mutex, so it is one action.    *)
(* A message of control about several nodes is taken node by node.         *)
(* A tunnel is the three receiver indices it may own.  An index is drawn   *)
(* at random from 2^32, modelled as one that is not in use.                *)
(***************************************************************************)
EXTENDS Naturals, FiniteSets

CONSTANTS
  Ids,       \* node ids of control
  Keys,      \* node public keys
  IdOf,      \* the node a key belongs to; a node may change its key
  Discos,    \* disco public keys
  DiscoOf,   \* the node a disco key belongs to
  Indices,   \* receiver indices
  NoKey, NoDisco, NoIndex

ASSUME TableAssumption ==
  /\ IdOf \in [Keys -> Ids] /\ DiscoOf \in [Discos -> Ids]
  /\ NoKey \notin Keys /\ NoDisco \notin Discos /\ NoIndex \notin Indices

VARIABLES
  \* struct State: the keys of peers, and fields of each Peer.
  present, disco,
  pending, current, previous,   \* local indices of the Peer's Tunn
  by_disco, by_index,
  \* node.rs.
  nodes_by_id

table == <<present, disco>>
tunnels == <<pending, current, previous>>
vars == <<table, tunnels, by_disco, by_index, nodes_by_id>>

\* The disco keys a map message may carry for the node of key k.
DiscosFor(k) == {d \in Discos : DiscoOf[d] = IdOf[k]} \cup {NoDisco}

TypeOK ==
  /\ present \subseteq Keys
  /\ disco \in [Keys -> Discos \cup {NoDisco}]
  /\ pending \in [Keys -> Indices \cup {NoIndex}]
  /\ current \in [Keys -> Indices \cup {NoIndex}]
  /\ previous \in [Keys -> Indices \cup {NoIndex}]
  /\ by_disco \in [Discos -> Keys \cup {NoKey}]
  /\ by_index \in [Indices -> Keys \cup {NoKey}]
  /\ nodes_by_id \in [Ids -> Keys \cup {NoKey}]

\* MagicSock::start.
Init ==
  /\ present = {}
  /\ disco = [k \in Keys |-> NoDisco]
  /\ pending = [k \in Keys |-> NoIndex]
  /\ current = [k \in Keys |-> NoIndex]
  /\ previous = [k \in Keys |-> NoIndex]
  /\ by_disco = [d \in Discos |-> NoKey]
  /\ by_index = [i \in Indices |-> NoKey]
  /\ nodes_by_id = [n \in Ids |-> NoKey]

\* Tunn::local_indices.
LocalIndices(k) == {pending[k], current[k], previous[k]} \ {NoIndex}

\* An index a random draw gives: used by no tunnel and in no map entry.
Unused == {i \in Indices : /\ by_index[i] = NoKey
                           /\ \A k \in Keys : i \notin LocalIndices(k)}

-----------------------------------------------------------------------------
(***************************************************************************)
(* Updates by the control thread (handle_map_response).                    *)
(***************************************************************************)

\* Peers that leave the table take their tunnels with them.
DropTunnels(gone) ==
  /\ pending' = [k \in Keys |-> IF k \in gone THEN NoIndex ELSE pending[k]]
  /\ current' = [k \in Keys |-> IF k \in gone THEN NoIndex ELSE current[k]]
  /\ previous' = [k \in Keys |-> IF k \in gone THEN NoIndex ELSE previous[k]]

\* Mutant: a full list starts every index over.
ReindexNone(keep) == [i \in Indices |-> NoKey]

\* The index map of the peers kept.
Reindex(keep) ==
  [i \in Indices |-> IF \E k \in keep : i \in LocalIndices(k)
                     THEN CHOOSE k \in keep : i \in LocalIndices(k)
                     ELSE NoKey]

\* set_peers: the full list, one node per id.
SetPeers(keys, d) ==
  /\ \A j, k \in keys : IdOf[j] = IdOf[k] => j = k
  /\ present' = keys
  /\ disco' = [k \in Keys |-> IF k \in keys THEN d[k] ELSE NoDisco]
  /\ DropTunnels(Keys \ keys)
  /\ by_disco' = [x \in Discos |-> IF \E k \in keys : d[k] = x
                                   THEN CHOOSE k \in keys : d[k] = x
                                   ELSE NoKey]
  /\ by_index' = Reindex(keys \cap present)
  /\ nodes_by_id' = [n \in Ids |-> IF \E k \in keys : IdOf[k] = n
                                   THEN CHOOSE k \in keys : IdOf[k] = n
                                   ELSE NoKey]

\* by_disco once the entry of old is removed and new points to k.
Redisco(old, new, k) ==
  [x \in Discos |-> IF x = new THEN k
                    ELSE IF x = old THEN NoKey ELSE by_disco[x]]

\* Mutant: the entry of the old disco key stays.
PeersChangedKeepsDisco(k, d) ==
  /\ nodes_by_id' = [nodes_by_id EXCEPT ![IdOf[k]] = k]
  /\ present' = present \cup {k}
  /\ disco' = [disco EXCEPT ![k] = d]
  /\ by_disco' = Redisco(NoDisco, d, k)
  /\ UNCHANGED <<tunnels, by_index>>

\* peers_changed: a node is new or was edited.
PeersChanged(k, d) ==
  /\ nodes_by_id' = [nodes_by_id EXCEPT ![IdOf[k]] = k]
  /\ present' = present \cup {k}
  /\ disco' = [disco EXCEPT ![k] = d]
  /\ by_disco' = Redisco(disco[k], d, k)
  /\ UNCHANGED <<tunnels, by_index>>

\* Mutant: the id outlives the peer.
PeersRemovedKeepsId(n) ==
  LET k == nodes_by_id[n]
  IN  /\ k # NoKey
      /\ present' = present \ {k}
      /\ disco' = [disco EXCEPT ![k] = NoDisco]
      /\ DropTunnels({k})
      /\ by_disco' = Redisco(disco[k], NoDisco, k)
      /\ by_index' = [i \in Indices |-> IF by_index[i] = k THEN NoKey
                                        ELSE by_index[i]]
      /\ UNCHANGED nodes_by_id

\* peers_removed, for a known id, and the removal of the id.
PeersRemoved(n) ==
  LET k == nodes_by_id[n]
  IN  /\ k # NoKey
      /\ present' = present \ {k}
      /\ disco' = [disco EXCEPT ![k] = NoDisco]
      /\ DropTunnels({k})
      /\ by_disco' = Redisco(disco[k], NoDisco, k)
      /\ by_index' = [i \in Indices |-> IF by_index[i] = k THEN NoKey
                                        ELSE by_index[i]]
      /\ nodes_by_id' = [nodes_by_id EXCEPT ![n] = NoKey]

\* apply_patches: a new disco key for a known id.
ApplyPatch(n, d) ==
  LET k == nodes_by_id[n]
  IN  /\ k \in present /\ d # NoDisco
      /\ disco' = [disco EXCEPT ![k] = d]
      /\ by_disco' = Redisco(disco[k], d, k)
      /\ UNCHANGED <<present, tunnels, by_index, nodes_by_id>>

\* set_node_key: every tunnel is rebuilt.
SetNodeKey ==
  /\ DropTunnels(Keys)
  /\ by_index' = [i \in Indices |-> NoKey]
  /\ UNCHANGED <<table, by_disco, nodes_by_id>>

-----------------------------------------------------------------------------
(***************************************************************************)
(* The data path: send_ip, tick_loop and handle_packet.                    *)
(***************************************************************************)

\* refresh_indices for peer k, once its tunnel owns the indices own.
RefreshIndices(k, own) ==
  by_index' = [i \in Indices |-> IF i \in own THEN k
                                 ELSE IF by_index[i] = k THEN NoKey
                                 ELSE by_index[i]]

\* send_ip or tick: a new initiation.
Initiate(k, i) ==
  /\ k \in present /\ i \in Unused
  /\ pending' = [pending EXCEPT ![k] = i]
  /\ RefreshIndices(k, {i, current[k], previous[k]} \ {NoIndex})
  /\ UNCHANGED <<table, current, previous, by_disco, nodes_by_id>>

\* send_ip or tick: the pending initiation is given up, a session expires.
Forget(k, p, c, q) ==
  /\ k \in present
  /\ p \in {pending[k], NoIndex} /\ c \in {current[k], NoIndex}
  /\ q \in {previous[k], NoIndex}
  /\ <<p, c, q>> # <<pending[k], current[k], previous[k]>>
  /\ pending' = [pending EXCEPT ![k] = p]
  /\ current' = [current EXCEPT ![k] = c]
  /\ previous' = [previous EXCEPT ![k] = q]
  /\ RefreshIndices(k, {p, c, q} \ {NoIndex})
  /\ UNCHANGED <<table, by_disco, nodes_by_id>>

\* handle_packet, initiation of a known peer.
RecvInitiation(k, i) ==
  /\ k \in present /\ i \in Unused
  /\ pending' = [pending EXCEPT ![k] = NoIndex]
  /\ current' = [current EXCEPT ![k] = i]
  /\ previous' = [previous EXCEPT ![k] = current[k]]
  /\ RefreshIndices(k, {i, current[k]} \ {NoIndex})
  /\ UNCHANGED <<table, by_disco, nodes_by_id>>

\* handle_packet, response to the pending initiation of the peer found.
RecvResponse(i) ==
  LET k == by_index[i]
  IN  /\ k \in present /\ pending[k] = i
      /\ pending' = [pending EXCEPT ![k] = NoIndex]
      /\ current' = [current EXCEPT ![k] = i]
      /\ previous' = [previous EXCEPT ![k] = current[k]]
      /\ RefreshIndices(k, {i, current[k]} \ {NoIndex})
      /\ UNCHANGED <<table, by_disco, nodes_by_id>>

\* handle_packet, transport data on the current session: the previous one is
\* dropped, and its index stays in the map until the next refresh.
RecvTransport(i) ==
  LET k == by_index[i]
  IN  /\ k \in present /\ current[k] = i /\ previous[k] # NoIndex
      /\ previous' = [previous EXCEPT ![k] = NoIndex]
      /\ UNCHANGED <<table, pending, current, by_disco, by_index, nodes_by_id>>

-----------------------------------------------------------------------------
Control ==
  \/ \E keys \in SUBSET Keys : \E d \in [keys -> Discos \cup {NoDisco}] :
       (\A k \in keys : d[k] \in DiscosFor(k)) /\ SetPeers(keys, d)
  \/ \E k \in Keys : \E d \in DiscosFor(k) : PeersChanged(k, d)
  \/ \E n \in Ids : PeersRemoved(n)
  \/ \E n \in Ids : \E d \in Discos : DiscoOf[d] = n /\ ApplyPatch(n, d)
  \/ SetNodeKey

DataPath ==
  \/ \E k \in Keys, i \in Indices : Initiate(k, i) \/ RecvInitiation(k, i)
  \/ \E k \in Keys : \E p, c, q \in Indices \cup {NoIndex} : Forget(k, p, c, q)
  \/ \E i \in Indices : RecvResponse(i) \/ RecvTransport(i)

Next == Control \/ DataPath

Spec == Init /\ [][Next]_vars

-----------------------------------------------------------------------------
(***************************************************************************)
(* Properties.                                                             *)
(***************************************************************************)

(***************************************************************************)
(* handle_packet finds the tunnel of every index a peer was told to send   *)
(* to: whatever control does to the table between a handshake and the      *)
(* packet, no live session or pending initiation is cut off.               *)
(***************************************************************************)
IndexRouted == \A k \in present : \A i \in LocalIndices(k) : by_index[i] = k

(***************************************************************************)
(* An index never leads to a peer that is gone or was never its owner's    *)
(* peer: the clean-up branches of handle_packet (remove the index of a     *)
(* missing peer) are never needed.                                         *)
(***************************************************************************)
IndexOwned == \A i \in Indices : by_index[i] # NoKey => by_index[i] \in present

(***************************************************************************)
(* A disco packet of a key finds a peer that uses this key, and one of the *)
(* key a node uses now finds the peer control knows the node by: after any *)
(* order of full lists, edits, patches and removals, also when the node    *)
(* changed its node key and kept its disco key.                            *)
(***************************************************************************)
DiscoRouted ==
  /\ \A d \in Discos :
       by_disco[d] # NoKey => /\ by_disco[d] \in present
                              /\ disco[by_disco[d]] = d
  /\ \A n \in Ids : LET k == nodes_by_id[n]
                   IN  k # NoKey /\ disco[k] # NoDisco => by_disco[disco[k]] = k

(***************************************************************************)
(* An id of control never names a peer that is gone or another node's:     *)
(* every removal and every patch finds its peer.                           *)
(***************************************************************************)
PeersNamed ==
  \A n \in Ids : LET k == nodes_by_id[n]
                 IN  k # NoKey => k \in present /\ IdOf[k] = n

\* Peers that are not in the table own nothing.
AbsentOwnNothing ==
  \A k \in Keys \ present : disco[k] = NoDisco /\ LocalIndices(k) = {}

\* A peer has the disco key of its node.
DiscoOfNode ==
  \A k \in Keys : disco[k] # NoDisco => DiscoOf[disco[k]] = IdOf[k]

(***************************************************************************)
(* The inductive invariant of the table.                                   *)
(***************************************************************************)
TableInv ==
  /\ TypeOK
  /\ IndexRouted /\ IndexOwned /\ DiscoRouted /\ PeersNamed
  /\ AbsentOwnNothing /\ DiscoOfNode

\* route: the peers that may be chosen for an address of node n.  Peers with
\* the same prefix are taken in the order of the hash map.
Route(n) == {k \in present : IdOf[k] = n}

(***************************************************************************)
(* send_ip "sends an IP packet produced by the local stack to the right    *)
(* peer" (magicsock.rs:395): a packet for a node is encrypted to the key   *)
(* control gave for it last.  Violated: peers_changed looks up the key     *)
(* only, so the peer of a node's former key keeps its addresses.           *)
(***************************************************************************)
RouteIsRight == \A n \in Ids : \A k \in Route(n) : k = nodes_by_id[n]
=============================================================================
