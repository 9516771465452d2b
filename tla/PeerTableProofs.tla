-------------------------- MODULE PeerTableProofs --------------------------
(***************************************************************************)
(* Proofs about PeerTable, for any number of nodes, keys and indices.      *)
(***************************************************************************)
EXTENDS PeerTable, TLAPS

(***************************************************************************)
(* The index part of TableInv and the naming part are preserved by the     *)
(* same steps for different reasons, so they are proved apart.             *)
(***************************************************************************)
IndexInv == TypeOK /\ IndexRouted /\ IndexOwned /\ AbsentOwnNothing

NameInv == DiscoRouted /\ PeersNamed /\ DiscoOfNode

\* Rebuilding the index map from the tunnels kept (set_peers) gives each
\* index to the tunnel that owns it and no index to anybody else.
LEMMA ReindexOwners ==
  ASSUME IndexInv, NEW keep, keep \subseteq present
  PROVE  /\ Reindex(keep) \in [Indices -> keep \cup {NoKey}]
         /\ \A k \in keep : \A i \in LocalIndices(k) : Reindex(keep)[i] = k
<1>1. \A i \in Indices, j, k \in keep :
        i \in LocalIndices(j) /\ i \in LocalIndices(k) => j = k
  BY DEF IndexInv, IndexRouted
<1>2. \A k \in keep : LocalIndices(k) \subseteq Indices
  BY DEF IndexInv, TypeOK, LocalIndices
<1> QED
  BY <1>1, <1>2 DEF Reindex

\* A control step preserves the index part.
LEMMA ControlIndex ==
  ASSUME TableAssumption, IndexInv, Control PROVE IndexInv'
<1> USE TableAssumption
<1>1. ASSUME NEW keys \in SUBSET Keys, NEW d \in [keys -> Discos \cup {NoDisco}],
             SetPeers(keys, d)
      PROVE  IndexInv'
  <2>1. TypeOK'
    BY <1>1, ReindexOwners DEF SetPeers, DropTunnels, IndexInv, TypeOK
  <2>2. \A k \in Keys : LocalIndices(k)' = IF k \in keys THEN LocalIndices(k) ELSE {}
    BY <1>1 DEF SetPeers, DropTunnels, IndexInv, TypeOK, LocalIndices
  <2>3. \A k \in keys \ present : LocalIndices(k) = {}
    BY DEF IndexInv, AbsentOwnNothing
  <2>4. IndexRouted' /\ IndexOwned'
    BY <1>1, <2>2, <2>3, ReindexOwners
    DEF SetPeers, IndexInv, IndexRouted, IndexOwned
  <2>5. AbsentOwnNothing'
    BY <1>1, <2>2 DEF SetPeers, AbsentOwnNothing
  <2> QED
    BY <2>1, <2>4, <2>5 DEF IndexInv
<1>2. ASSUME NEW k \in Keys, NEW d \in DiscosFor(k), PeersChanged(k, d)
      PROVE  IndexInv'
  <2>1. TypeOK'
    BY <1>2 DEF PeersChanged, Redisco, DiscosFor, tunnels, IndexInv, TypeOK
  <2>2. \A j \in Keys : LocalIndices(j)' = LocalIndices(j)
    BY <1>2 DEF PeersChanged, tunnels, LocalIndices
  <2>3. \A j \in Keys \ present : LocalIndices(j) = {} /\ disco[j] = NoDisco
    BY DEF IndexInv, AbsentOwnNothing
  <2>4. IndexRouted' /\ IndexOwned'
    BY <1>2, <2>2, <2>3 DEF PeersChanged, IndexInv, IndexRouted, IndexOwned, TypeOK
  <2>5. AbsentOwnNothing'
    BY <1>2, <2>2, <2>3 DEF PeersChanged, IndexInv, TypeOK, AbsentOwnNothing
  <2> QED
    BY <2>1, <2>4, <2>5 DEF IndexInv
<1>3. ASSUME NEW n \in Ids, PeersRemoved(n)
      PROVE  IndexInv'
  <2> DEFINE k == nodes_by_id[n]
  <2>1. TypeOK'
    BY <1>3 DEF PeersRemoved, Redisco, DropTunnels, IndexInv, TypeOK
  <2>2. \A j \in Keys : LocalIndices(j)' = IF j = k THEN {} ELSE LocalIndices(j)
    BY <1>3 DEF PeersRemoved, DropTunnels, IndexInv, TypeOK, LocalIndices
  <2> HIDE DEF k
  <2>3. /\ k # NoKey
        /\ present' = present \ {k}
        /\ by_index' = [i \in Indices |-> IF by_index[i] = k THEN NoKey
                                          ELSE by_index[i]]
    BY <1>3 DEF PeersRemoved, k
  <2>4. \A j \in Keys : LocalIndices(j) \subseteq Indices
    BY DEF IndexInv, TypeOK, LocalIndices
  <2>5. IndexRouted'
    BY <2>2, <2>3, <2>4 DEF IndexInv, IndexRouted, TypeOK
  <2>6. IndexOwned'
    BY <2>3 DEF IndexInv, IndexOwned
  <2>7. AbsentOwnNothing'
    BY <1>3, <2>2, <2>3 DEF PeersRemoved, IndexInv, TypeOK, AbsentOwnNothing, k
  <2> QED
    BY <2>1, <2>5, <2>6, <2>7 DEF IndexInv
<1>4. ASSUME NEW n \in Ids, NEW d \in Discos, ApplyPatch(n, d)
      PROVE  IndexInv'
  <2>1. TypeOK'
    BY <1>4 DEF ApplyPatch, Redisco, tunnels, IndexInv, TypeOK
  <2>2. \A j \in Keys : LocalIndices(j)' = LocalIndices(j)
    BY <1>4 DEF ApplyPatch, tunnels, LocalIndices
  <2> QED
    BY <1>4, <2>1, <2>2
    DEF ApplyPatch, IndexInv, IndexRouted, IndexOwned, AbsentOwnNothing, TypeOK
<1>5. CASE SetNodeKey
  <2>1. TypeOK'
    BY <1>5 DEF SetNodeKey, DropTunnels, table, IndexInv, TypeOK
  <2>2. \A j \in Keys : LocalIndices(j)' = {}
    BY <1>5 DEF SetNodeKey, DropTunnels, LocalIndices
  <2> QED
    BY <1>5, <2>1, <2>2
    DEF SetNodeKey, table, IndexInv, IndexRouted, IndexOwned, AbsentOwnNothing, TypeOK
<1> QED
  BY <1>1, <1>2, <1>3, <1>4, <1>5 DEF Control

\* Once peer k's tunnel owns own and the map was refreshed for it, the map is
\* right for every peer: the indices of own were k's or unused before.
LEMMA RefreshRight ==
  ASSUME TableAssumption, IndexInv, NEW k \in present, NEW own \in SUBSET Indices,
         \A i \in own : by_index[i] \in {k, NoKey},
         RefreshIndices(k, own), UNCHANGED table,
         LocalIndices(k)' = own,
         \A j \in Keys \ {k} : LocalIndices(j)' = LocalIndices(j)
  PROVE  IndexRouted' /\ IndexOwned' /\ AbsentOwnNothing'
<1>1. present \subseteq Keys /\ k # NoKey
  BY DEF IndexInv, TypeOK, TableAssumption
<1>2. \A j \in Keys : LocalIndices(j) \subseteq Indices
  BY DEF IndexInv, TypeOK, LocalIndices
<1>3. IndexRouted'
  <2> SUFFICES ASSUME NEW j \in present', NEW i \in LocalIndices(j)'
               PROVE  by_index'[i] = j
    BY DEF IndexRouted
  <2>1. CASE j = k
    BY <2>1 DEF RefreshIndices
  <2>2. CASE j # k
    <3>1. j \in present /\ i \in LocalIndices(j) /\ i \in Indices
      BY <1>1, <1>2, <2>2 DEF table
    <3>2. by_index[i] = j
      BY <3>1 DEF IndexInv, IndexRouted
    <3> QED
      BY <1>1, <2>2, <3>1, <3>2 DEF RefreshIndices, TableAssumption
  <2> QED
    BY <2>1, <2>2
<1>4. IndexOwned'
  BY <1>1 DEF RefreshIndices, IndexInv, IndexOwned, table
<1>5. AbsentOwnNothing'
  BY <1>1 DEF IndexInv, AbsentOwnNothing, table
<1> QED
  BY <1>3, <1>4, <1>5

\* A step of the data path preserves the index part.
LEMMA DataPathIndex ==
  ASSUME TableAssumption, IndexInv, DataPath PROVE IndexInv'
<1> USE TableAssumption
<1>0. present \subseteq Keys
  BY DEF IndexInv, TypeOK
<1>1. ASSUME NEW k \in Keys, NEW i \in Indices, Initiate(k, i)
      PROVE  IndexInv'
  <2> DEFINE own == {i, current[k], previous[k]} \ {NoIndex}
  <2>1. TypeOK'
    BY <1>1 DEF Initiate, RefreshIndices, table, IndexInv, TypeOK
  <2>2. /\ own \in SUBSET Indices
        /\ \A x \in own : by_index[x] \in {k, NoKey}
    BY <1>1 DEF Initiate, Unused, IndexInv, IndexRouted, TypeOK, LocalIndices
  <2>3. /\ LocalIndices(k)' = own
        /\ \A j \in Keys \ {k} : LocalIndices(j)' = LocalIndices(j)
    BY <1>1 DEF Initiate, IndexInv, TypeOK, LocalIndices
  <2>4. RefreshIndices(k, own) /\ k \in present /\ UNCHANGED table
    BY <1>1 DEF Initiate
  <2> HIDE DEF own
  <2> QED
    BY <2>1, <2>2, <2>3, <2>4, RefreshRight DEF IndexInv
<1>2. ASSUME NEW k \in Keys, NEW i \in Indices, RecvInitiation(k, i)
      PROVE  IndexInv'
  <2> DEFINE own == {i, current[k]} \ {NoIndex}
  <2>1. TypeOK'
    BY <1>2 DEF RecvInitiation, RefreshIndices, table, IndexInv, TypeOK
  <2>2. /\ own \in SUBSET Indices
        /\ \A x \in own : by_index[x] \in {k, NoKey}
    BY <1>2 DEF RecvInitiation, Unused, IndexInv, IndexRouted, TypeOK, LocalIndices
  <2>3. /\ LocalIndices(k)' = own
        /\ \A j \in Keys \ {k} : LocalIndices(j)' = LocalIndices(j)
    BY <1>2 DEF RecvInitiation, IndexInv, TypeOK, LocalIndices
  <2>4. RefreshIndices(k, own) /\ k \in present /\ UNCHANGED table
    BY <1>2 DEF RecvInitiation
  <2> HIDE DEF own
  <2> QED
    BY <2>1, <2>2, <2>3, <2>4, RefreshRight DEF IndexInv
<1>3. ASSUME NEW k \in Keys, NEW p \in Indices \cup {NoIndex},
             NEW c \in Indices \cup {NoIndex}, NEW q \in Indices \cup {NoIndex},
             Forget(k, p, c, q)
      PROVE  IndexInv'
  <2> DEFINE own == {p, c, q} \ {NoIndex}
  <2>1. TypeOK'
    BY <1>3 DEF Forget, RefreshIndices, table, IndexInv, TypeOK
  <2>2. /\ own \in SUBSET Indices
        /\ \A x \in own : by_index[x] \in {k, NoKey}
    BY <1>3 DEF Forget, IndexInv, IndexRouted, TypeOK, LocalIndices
  <2>3. /\ LocalIndices(k)' = own
        /\ \A j \in Keys \ {k} : LocalIndices(j)' = LocalIndices(j)
    BY <1>3 DEF Forget, IndexInv, TypeOK, LocalIndices
  <2>4. RefreshIndices(k, own) /\ k \in present /\ UNCHANGED table
    BY <1>3 DEF Forget
  <2> HIDE DEF own
  <2> QED
    BY <2>1, <2>2, <2>3, <2>4, RefreshRight DEF IndexInv
<1>4. ASSUME NEW i \in Indices, RecvResponse(i)
      PROVE  IndexInv'
  <2>0. PICK k \in present :
          /\ pending[k] = i
          /\ pending' = [pending EXCEPT ![k] = NoIndex]
          /\ current' = [current EXCEPT ![k] = i]
          /\ previous' = [previous EXCEPT ![k] = current[k]]
          /\ RefreshIndices(k, {i, current[k]} \ {NoIndex})
          /\ UNCHANGED <<table, by_disco, nodes_by_id>>
    BY <1>4 DEF RecvResponse
  <2> DEFINE own == {i, current[k]} \ {NoIndex}
  <2>1. TypeOK'
    BY <1>0, <2>0 DEF RefreshIndices, table, IndexInv, TypeOK
  <2>2. /\ own \in SUBSET Indices
        /\ \A x \in own : by_index[x] \in {k, NoKey}
    BY <1>0, <2>0 DEF IndexInv, IndexRouted, TypeOK, LocalIndices
  <2>3. /\ LocalIndices(k)' = own
        /\ \A j \in Keys \ {k} : LocalIndices(j)' = LocalIndices(j)
    BY <1>0, <2>0 DEF IndexInv, TypeOK, LocalIndices
  <2>4. RefreshIndices(k, own) /\ UNCHANGED table
    BY <2>0
  <2> HIDE DEF own
  <2> QED
    BY <2>1, <2>2, <2>3, <2>4, RefreshRight DEF IndexInv
<1>5. ASSUME NEW i \in Indices, RecvTransport(i)
      PROVE  IndexInv'
  <2>1. TypeOK'
    BY <1>0, <1>5 DEF RecvTransport, table, IndexInv, TypeOK
  <2>2. \A j \in Keys : LocalIndices(j)' \subseteq LocalIndices(j)
    BY <1>0, <1>5 DEF RecvTransport, IndexInv, TypeOK, LocalIndices
  <2> QED
    BY <1>0, <1>5, <2>1, <2>2
    DEF RecvTransport, table, IndexInv, IndexRouted, IndexOwned, AbsentOwnNothing
<1> QED
  BY <1>1, <1>2, <1>3, <1>4, <1>5 DEF DataPath

\* A control step preserves the naming part.
LEMMA ControlNames ==
  ASSUME TableAssumption, IndexInv, NameInv, Control PROVE NameInv'
<1> USE TableAssumption
<1>0. \A j \in Keys \ present : disco[j] = NoDisco
  BY DEF IndexInv, AbsentOwnNothing
<1>1. ASSUME NEW keys \in SUBSET Keys, NEW d \in [keys -> Discos \cup {NoDisco}],
             \A k \in keys : d[k] \in DiscosFor(k), SetPeers(keys, d)
      PROVE  NameInv'
  <2>1. DiscoOfNode'
    BY <1>1 DEF SetPeers, DiscosFor, DiscoOfNode
  <2>2. PeersNamed'
    BY <1>1 DEF SetPeers, PeersNamed
  <2>3. \A j, k \in keys : d[j] = d[k] /\ d[j] # NoDisco => j = k
    BY <1>1 DEF SetPeers, DiscosFor
  <2>4. \A x \in Discos :
          /\ by_disco'[x] # NoKey => by_disco'[x] \in keys /\ d[by_disco'[x]] = x
          /\ \A k \in keys : d[k] = x => by_disco'[x] = k
    BY <1>1, <2>3 DEF SetPeers
  <2>5. /\ present' = keys
        /\ \A k \in keys : disco'[k] = d[k] /\ d[k] \in Discos \cup {NoDisco}
    BY <1>1 DEF SetPeers
  <2>6. DiscoRouted'
    BY <2>2, <2>4, <2>5 DEF DiscoRouted, PeersNamed
  <2> QED
    BY <2>1, <2>2, <2>6 DEF NameInv
<1>2. ASSUME NEW k \in Keys, NEW d \in DiscosFor(k), PeersChanged(k, d)
      PROVE  NameInv'
  <2>1. DiscoOfNode'
    BY <1>2 DEF PeersChanged, DiscosFor, NameInv, DiscoOfNode, IndexInv, TypeOK
  <2>2. PeersNamed'
    BY <1>2 DEF PeersChanged, NameInv, PeersNamed, IndexInv, TypeOK
  <2>3. DiscoRouted'
    BY <1>0, <1>2, <2>1, <2>2
    DEF PeersChanged, Redisco, DiscosFor, NameInv, DiscoRouted, DiscoOfNode,
        PeersNamed, IndexInv, TypeOK
  <2> QED
    BY <2>1, <2>2, <2>3 DEF NameInv
<1>3. ASSUME NEW n \in Ids, PeersRemoved(n)
      PROVE  NameInv'
  <2>1. DiscoOfNode'
    BY <1>3 DEF PeersRemoved, NameInv, DiscoOfNode, IndexInv, TypeOK
  <2>2. PeersNamed'
    BY <1>3 DEF PeersRemoved, NameInv, PeersNamed, IndexInv, TypeOK
  <2>3. DiscoRouted'
    BY <1>3, <2>1, <2>2
    DEF PeersRemoved, Redisco, NameInv, DiscoRouted, DiscoOfNode,
        PeersNamed, IndexInv, TypeOK
  <2> QED
    BY <2>1, <2>2, <2>3 DEF NameInv
<1>4. ASSUME NEW n \in Ids, NEW d \in Discos, DiscoOf[d] = n, ApplyPatch(n, d)
      PROVE  NameInv'
  <2>1. DiscoOfNode'
    BY <1>4 DEF ApplyPatch, NameInv, DiscoOfNode, PeersNamed, IndexInv, TypeOK
  <2>2. PeersNamed'
    BY <1>4 DEF ApplyPatch, NameInv, PeersNamed
  <2>3. DiscoRouted'
    BY <1>4, <2>1, <2>2
    DEF ApplyPatch, Redisco, NameInv, DiscoRouted, DiscoOfNode,
        PeersNamed, IndexInv, TypeOK
  <2> QED
    BY <2>1, <2>2, <2>3 DEF NameInv
<1>5. CASE SetNodeKey
  BY <1>5 DEF SetNodeKey, table, NameInv, DiscoRouted, PeersNamed, DiscoOfNode
<1> QED
  BY <1>1, <1>2, <1>3, <1>4, <1>5 DEF Control

(***************************************************************************)
(* TableInv is inductive: whatever control sends and whenever handshakes   *)
(* start, finish and expire, for any number of nodes, keys and indices.    *)
(***************************************************************************)
THEOREM TableInvariant == Spec => []TableInv
<1>1. Init => TableInv
  BY TableAssumption
  DEF Init, TableInv, TypeOK, IndexRouted, IndexOwned, DiscoRouted, PeersNamed,
      AbsentOwnNothing, DiscoOfNode, LocalIndices
<1>2. TableInv /\ [Next]_vars => TableInv'
  <2> SUFFICES ASSUME TableInv, [Next]_vars PROVE TableInv'
    OBVIOUS
  <2>1. IndexInv /\ NameInv
    BY DEF TableInv, IndexInv, NameInv
  <2>2. CASE Control
    BY <2>1, <2>2, TableAssumption, ControlIndex, ControlNames
    DEF TableInv, IndexInv, NameInv
  <2>3. CASE DataPath
    <3>1. UNCHANGED <<present, disco, by_disco, nodes_by_id>>
      BY <2>3 DEF DataPath, Initiate, RecvInitiation, Forget, RecvResponse,
                  RecvTransport, table
    <3>2. NameInv'
      BY <2>1, <3>1 DEF NameInv, DiscoRouted, PeersNamed, DiscoOfNode
    <3> QED
      BY <2>1, <2>3, <3>2, TableAssumption, DataPathIndex
      DEF TableInv, IndexInv, NameInv
  <2>4. CASE UNCHANGED vars
    BY <2>4 DEF vars, table, tunnels, TableInv, TypeOK, IndexRouted, IndexOwned,
                DiscoRouted, PeersNamed, AbsentOwnNothing, DiscoOfNode, LocalIndices
  <2> QED
    BY <2>2, <2>3, <2>4 DEF Next
<1> QED
  BY <1>1, <1>2, PTL DEF Spec

(***************************************************************************)
(* Every index a peer was given leads to its tunnel, and none leads to a   *)
(* peer that is gone (handle_packet, refresh_indices, set_peers).          *)
(***************************************************************************)
THEOREM IndicesAreRouted == Spec => [](IndexRouted /\ IndexOwned)
<1>1. TableInv => IndexRouted /\ IndexOwned
  BY DEF TableInv
<1> QED
  BY <1>1, TableInvariant, PTL

(***************************************************************************)
(* A disco key leads to the peer that uses it, and to the one control      *)
(* knows when the node changed its node key.                               *)
(***************************************************************************)
THEOREM DiscoKeysAreRouted == Spec => []DiscoRouted
<1>1. TableInv => DiscoRouted
  BY DEF TableInv
<1> QED
  BY <1>1, TableInvariant, PTL

(***************************************************************************)
(* A removal or a patch of control always finds its peer.                  *)
(***************************************************************************)
THEOREM PeersAreNamed == Spec => []PeersNamed
<1>1. TableInv => PeersNamed
  BY DEF TableInv
<1> QED
  BY <1>1, TableInvariant, PTL
=============================================================================
