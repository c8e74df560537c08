---------------------------- MODULE MCPrefixScan ----------------------------
(***************************************************************************)
(* Every needle and every file of up to a few bytes over two byte values.  *)
(* There are three hashes only, so that windows of different bytes collide *)
(* from a length of two on.                                                *)
(***************************************************************************)
EXTENDS PrefixScan

CONSTANTS MaxNeedle, MaxHay

MCNeedles   == UNION {[1 .. m -> {0, 1}] : m \in 0 .. MaxNeedle}
MCHaystacks == UNION {[1 .. m -> {0, 1}] : m \in 0 .. MaxHay}

=============================================================================
