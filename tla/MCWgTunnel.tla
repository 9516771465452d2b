----------------------------- MODULE MCWgTunnel -----------------------------
(***************************************************************************)
(* Instances of WgTunnel for TLC.                                          *)
(***************************************************************************)
EXTENDS WgTunnel, TLC

CONSTANTS alice, bob, d1, d2

MCPeers == {alice, bob}
MCPackets == {d1, d2}
MCOnePacket == {d1}
MCSymmetry == Permutations(MCPeers) \cup Permutations(MCPackets)
=============================================================================
