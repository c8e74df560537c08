---------------------------- MODULE MCMagicSweep ----------------------------
(***************************************************************************)
(* Every image of up to MaxImage bytes over two byte values, and every one *)
(* of up to MaxText bytes over four: one that is not printable, a letter,  *)
(* a digit and a brace, which is no clean text.  The signatures are of     *)
(* one, two and three bytes; the last can overlap itself.                  *)
(***************************************************************************)
EXTENDS TextRuns

CONSTANTS MaxImage, MaxText

MCImages ==
  UNION {[1 .. m -> {0, 1}] : m \in 0 .. MaxImage} \cup
  UNION {[1 .. m -> 0 .. 3] : m \in 0 .. MaxText}

MCPatterns == << <<1>>, <<0, 1>>, <<1, 1, 1>> >>

MCCategories == <<"debug", "save">>

MCWords == [c \in {"debug", "save"} |->
              IF c = "debug" THEN {<<1, 2>>, <<2, 1>>} ELSE {<<1, 1, 1>>, <<2, 1>>}]

=============================================================================
