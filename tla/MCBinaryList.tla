---------------------------- MODULE MCBinaryList ----------------------------
(***************************************************************************)
(* Instances of BinaryList for TLC: three slots, an empty blob and blobs   *)
(* of one and two bytes, and offsets that run out after a few blobs.       *)
(***************************************************************************)
EXTENDS BinaryList

MCByte  == {"x", "y"}
MCBlobs == {<< >>, <<"x">>, <<"y", "x">>}
=============================================================================
