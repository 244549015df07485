------------------------------ MODULE MCFrames ------------------------------
(***************************************************************************)
(* Instances of Frames for TLC: binary varints, so that a packet of two    *)
(* bytes has a length of two, and bodies whose bytes pass for lengths.     *)
(***************************************************************************)
EXTENDS Frames

Bodies == {<<1>>, <<0, 2>>}
=============================================================================
