------------------------------ MODULE MCFlipQueue ------------------------------
(* Instances of FlipQueue for TLC.                                         *)
EXTENDS FlipQueue, TLC

CONSTANTS Main, Overlay

OverlayOnMain == {<<Overlay, Main>>}
NoPairs == {}
================================================================================
