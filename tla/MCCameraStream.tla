--------------------------- MODULE MCCameraStream ---------------------------
(***************************************************************************)
(* Instances of CameraStream for TLC.                                      *)
(***************************************************************************)
EXTENDS CameraStream, TLC

CONSTANTS http, uart, h1, h2, webcam

MCOneClient == {http}
MCShell == {uart}
MCHandles == {h1, h2}
MCOneCamera == {webcam}
MCMjpeg == {webcam}
MCSameAddr == [k \in Cameras |-> 1]
MCSymmetry == Permutations({h1, h2})
=============================================================================
