---------------------------- MODULE MCVerletSkin ----------------------------
(* Instances of VerletSkin for TLC.                                        *)
EXTENDS VerletSkin

AllOps == {"decompose", "cellAdjust", "setSkin", "tuneSkin", "modifyParticle"}

\* both sides of the border between two nodes
Border == 7 .. 17
=============================================================================
