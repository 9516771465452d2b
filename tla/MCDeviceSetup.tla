--------------------------- MODULE MCDeviceSetup ---------------------------
(***************************************************************************)
(* DeviceSetup for TLC.  The names of keys are interchangeable.            *)
(***************************************************************************)
EXTENDS DeviceSetup, TLC

KeySymmetry == Permutations(Keys)
=============================================================================
