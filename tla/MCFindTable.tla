----------------------------- MODULE MCFindTable -----------------------------
(***************************************************************************)
(* Every executable of up to MaxWords words of the given alphabet: zero,   *)
(* padding alone, and the first offsets with and without padding.          *)
(***************************************************************************)
EXTENDS FindTable

CONSTANTS Alphabet, MaxWords

MCExes == UNION {[1 .. m -> Alphabet] : m \in 0 .. MaxWords}

=============================================================================
