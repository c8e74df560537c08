----------------------------- MODULE MCChunkScan -----------------------------
(***************************************************************************)
(* Windows of a few bytes: a header of one byte, offsets two bytes apart,  *)
(* chunks of six and a carried tail of four.  Blocks of every length are   *)
(* put at up to two even addresses and one odd one, indexed or not.        *)
(***************************************************************************)
EXTENDS ChunkScan

CONSTANTS Avails, MaxPacked

\* An image with blocks of the given packed lengths at addresses a and b.
Planted(avail, a, p, b, q, known) ==
  [avail  |-> avail,
   packed |-> [x \in 0 .. avail - 1 |->
                 IF x = a THEN p ELSE IF x = b THEN q ELSE 0],
   known  |-> known]

MCImages ==
  UNION {{Planted(v, a, p, b, q, known) :
            a \in 0 .. v - 1, p \in 1 .. MaxPacked,
            b \in {x \in 0 .. v - 1 : x % ALIGN = 0}, q \in 0 .. MaxPacked,
            known \in {{}, {4}}} : v \in Avails}

=============================================================================
