------------------------------ MODULE MCBuffer ------------------------------
(* Buffer.tla on a vector of two bytes that grows to hold up to four.      *)
EXTENDS Buffer

MCData == {<<1>>, <<2, 1>>}
=============================================================================
