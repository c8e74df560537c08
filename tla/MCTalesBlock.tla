---------------------------- MODULE MCTalesBlock ----------------------------
(***************************************************************************)
(* Every token stream of up to six bytes, at NIB = 2: four byte values, a  *)
(* ring of eight cells, two flags in a flag byte.                          *)
(***************************************************************************)
EXTENDS TalesBlock

CONSTANT MaxStream  \* the longest stream

MCStreams == UNION {[1 .. m -> Byte] : m \in 0 .. MaxStream}

=============================================================================
