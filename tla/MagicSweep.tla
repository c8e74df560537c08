----------------------------- MODULE MagicSweep -----------------------------
(***************************************************************************)
(* sweep of src/tools/leftovers.py: count every signature of a fixed list  *)
(* over a whole disc image, read chunk by chunk.  The end of a chunk is    *)
(* kept in front of the next one, one byte less than the longest signature *)
(* is long, so no occurrence is cut in two.                                *)
(***************************************************************************)
EXTENDS Integers, Sequences, FiniteSets

CONSTANTS
  CH,        \* bytes read at a time (1 << 24)
  Patterns,  \* the list SWEEP
  Images     \* the disc images

Lengths == {Len(Patterns[p]) : p \in DOMAIN Patterns}

\* over + 1 of the code: the length of the longest signature.
Longest == CHOOSE l \in Lengths : \A m \in Lengths : m <= l
over    == Longest - 1

ASSUME PatternAssumption ==
  /\ Patterns \in Seq(Seq(Nat))
  /\ Patterns # <<>>
  /\ \A p \in DOMAIN Patterns : Patterns[p] # <<>>
  /\ Longest \in Lengths
  /\ \A m \in Lengths : m <= Longest
  /\ over > 0
ASSUME ChunkAssumption == CH \in Nat /\ CH >= over
ASSUME ImageAssumption == Images \subseteq Seq(Nat)

VARIABLES
  image,
  lo, hi,   \* the window in memory (prev + chunk) holds image[lo .. hi - 1]
  prevLen,  \* len(prev), the part of the window that was carried over
  pos,      \* bytes read before this chunk, as the code counts them
  pat, i,   \* the signature looked for, and where in the window from
  counts,
  first,    \* the first four offsets of each signature
  pc

vars == <<image, lo, hi, prevLen, pos, pat, i, counts, first, pc>>

Signatures == DOMAIN Patterns

Init ==
  /\ image \in Images
  /\ lo = 0
  /\ hi = 0
  /\ prevLen = 0
  /\ pos = 0
  /\ pat = 1
  /\ i = 0
  /\ counts = [p \in Signatures |-> 0]
  /\ first = [p \in Signatures |-> <<>>]
  /\ pc = "read"

\* Signature p is at address a of the image.
OccursAt(p, a) ==
  /\ a + Len(Patterns[p]) <= Len(image)
  /\ \A x \in 1 .. Len(Patterns[p]) : image[a + x] = Patterns[p][x]

-----------------------------------------------------------------------------

EndOfImage ==
  /\ pc = "read"
  /\ hi = Len(image)
  /\ pc' = "done"
  /\ UNCHANGED <<image, lo, hi, prevLen, pos, pat, i, counts, first>>

ReadChunk ==
  /\ pc = "read"
  /\ hi < Len(image)
  /\ hi' = (IF hi + CH <= Len(image) THEN hi + CH ELSE Len(image))
  /\ pat' = 1
  /\ i' = 0
  /\ pc' = "find"
  /\ UNCHANGED <<image, lo, prevLen, pos, counts, first>>

\* buf.find(pat, i): the places where the window holds the whole signature.
HitsFrom(p, from) ==
  {x \in from .. hi - lo - Len(Patterns[p]) : OccursAt(p, lo + x)}

\* Mutated form of base: the carried bytes forgotten.
baseAtChunk == pos

base == pos - prevLen

Hit ==
  /\ pc = "find"
  /\ pat <= Len(Patterns)
  /\ \E x \in HitsFrom(pat, i) :
       /\ \A y \in HitsFrom(pat, i) : x <= y
       /\ counts' = [counts EXCEPT ![pat] = @ + 1]
       /\ first' = IF Len(first[pat]) < 4
                   THEN [first EXCEPT ![pat] = Append(@, base + x)]
                   ELSE first
       /\ i' = x + 1
  /\ UNCHANGED <<image, lo, hi, prevLen, pos, pat, pc>>

NextPattern ==
  /\ pc = "find"
  /\ pat <= Len(Patterns)
  /\ HitsFrom(pat, i) = {}
  /\ pat' = pat + 1
  /\ i' = 0
  /\ UNCHANGED <<image, lo, hi, prevLen, pos, counts, first, pc>>

\* Mutated forms of Carry: nothing is carried over; one byte too many is.
CarryNothing ==
  /\ pc = "find"
  /\ pat > Len(Patterns)
  /\ prevLen' = 0
  /\ lo' = hi
  /\ pos' = hi
  /\ pc' = "read"
  /\ UNCHANGED <<image, hi, pat, i, counts, first>>
CarryLongest ==
  /\ pc = "find"
  /\ pat > Len(Patterns)
  /\ LET chunk == (hi - lo) - prevLen
     IN  /\ prevLen' = IF chunk <= over + 1 THEN chunk ELSE over + 1
         /\ lo' = hi - prevLen'
         /\ pos' = pos + chunk
  /\ pc' = "read"
  /\ UNCHANGED <<image, hi, pat, i, counts, first>>

\* prev = chunk[-over:]: the end of the chunk, never of what was carried.
Carry ==
  /\ pc = "find"
  /\ pat > Len(Patterns)
  /\ LET chunk == (hi - lo) - prevLen
     IN  /\ prevLen' = IF chunk <= over THEN chunk ELSE over
         /\ lo' = hi - prevLen'
         /\ pos' = pos + chunk
  /\ pc' = "read"
  /\ UNCHANGED <<image, hi, pat, i, counts, first>>

Done == pc = "done" /\ UNCHANGED vars  \* the counts have been printed

Step == EndOfImage \/ ReadChunk \/ Hit \/ NextPattern \/ Carry

Next == Step \/ Done

Spec == Init /\ [][Next]_vars

-----------------------------------------------------------------------------
(* Properties                                                              *)

TypeOK ==
  /\ image \in Seq(Nat)
  /\ hi \in 0 .. Len(image)
  /\ lo \in 0 .. hi
  /\ prevLen \in 0 .. hi - lo
  /\ pos \in 0 .. Len(image)
  /\ pat \in 1 .. Len(Patterns) + 1
  /\ i \in Nat
  /\ counts \in [Signatures -> Nat]
  /\ first \in [Signatures -> Seq(Nat)]
  /\ pc \in {"read", "find", "done"}

Occurrences(p) == {a \in 0 .. Len(image) - 1 : OccursAt(p, a)}

\* A signature is reported absent exactly when the image does not hold it: the
\* negative results the sweep is published for stand on the first half, and no
\* chunk boundary can hide an occurrence from it.
AbsentMeansAbsent ==
  pc = "done" =>
    \A p \in Signatures : counts[p] = 0 <=> Occurrences(p) = {}

\* The count never falls short of the truth, and it is the truth for the
\* longest signatures, which do not fit in the bytes carried over.
CountsCover ==
  pc = "done" =>
    \A p \in Signatures :
      /\ counts[p] >= Cardinality(Occurrences(p))
      /\ Len(Patterns[p]) = Longest => counts[p] = Cardinality(Occurrences(p))

\* The first offset printed for a signature is that of its first occurrence,
\* and every offset printed is one.
FirstIsFirst ==
  pc = "done" =>
    \A p \in Signatures :
      /\ \A x \in 1 .. Len(first[p]) : OccursAt(p, first[p][x])
      /\ \A a \in Occurrences(p) : first[p] # <<>> /\ first[p][1] <= a

\* leftovers.py:117: "Count every SWEEP pattern across the whole image."
CountsExact ==
  pc = "done" => \A p \in Signatures : counts[p] = Cardinality(Occurrences(p))

=============================================================================
