------------------------------ MODULE MCCameraHal ------------------------------
(* Model values of the windows and buffers, which are alike.                *)
EXTENDS CameraHal, TLC

CONSTANTS w1, w2, b1, b2

Alike == Permutations(Windows) \cup Permutations(Buffers)
=============================================================================
