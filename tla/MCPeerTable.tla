---------------------------- MODULE MCPeerTable ----------------------------
(***************************************************************************)
(* Instances of PeerTable for TLC: a node that changes its node key and    *)
(* its disco key, and a second node.                                       *)
(***************************************************************************)
EXTENDS PeerTable, TLC

CONSTANTS ka1, ka2, kb, da1, da2, db, i1, i2, i3

MCKeys == {ka1, ka2, kb}
MCIdOf == [k \in Keys |-> IF k = kb THEN 2 ELSE 1]
MCDiscos == {da1, da2, db}
MCDiscoOf == [d \in Discos |-> IF d = db THEN 2 ELSE 1]
MCIndices == {i1, i2, i3}
MCSymmetry == Permutations(MCIndices)
=============================================================================
