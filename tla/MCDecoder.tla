------------------------------ MODULE MCDecoder ------------------------------
(* Decoder with every size shrunk to one unit: a one-unit header field,   *)
(* a one-unit argument struct for every variant.                          *)
EXTENDS Decoder

UnitArgSize(op) == 1
=============================================================================
