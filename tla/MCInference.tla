----------------------------- MODULE MCInference -----------------------------
(* Pictures wider, higher, smaller and larger than the model's input, in   *)
(* every ratio; the first model size takes RGA for pictures of width 16,   *)
(* the last has sides that are not even.                                   *)
EXTENDS Inference

Sizes == {<<16, 16>>, <<24, 8>>, <<11, 7>>}

Sides == 2 .. 22
=============================================================================
