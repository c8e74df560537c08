----------------------------- MODULE BinCensus -----------------------------
(***************************************************************************)
(* src/tools/binfs.py cmd_census counts the members of a container by      *)
(* kind, and adds up what the headers of the blocks among them declare,    *)
(* without decoding anything.  Here it runs beside the census of           *)
(* codec_census.py, which decodes them: two tools, one disc.               *)
(***************************************************************************)
EXTENDS CodecCensus

Kinds ==
  {"empty", "short", "TIM2", "MPEG-PS", "MSCF", "block:stored", "block:1", "block:3",
   "raw", "SPU-ADPCM", "zero-lead"}

VARIABLES
  k,             \* the next member
  counts,        \* members of each kind
  room,          \* bytes of each kind (bytes_)
  packedTotal, unpackedTotal,
  biggest        \* the largest packed size and the member it is of

binVars == <<k, counts, room, packedTotal, unpackedTotal, biggest>>
vars    == <<container, nested, censusVars, binVars>>

BinInit ==
  /\ k = 1
  /\ counts = [q \in Kinds |-> 0]
  /\ room = [q \in Kinds |-> 0]
  /\ packedTotal = 0
  /\ unpackedTotal = 0
  /\ biggest = <<0, <<>>>>

\* Mutated form of Read: members of nine bytes and more are read.
ReadNine(b) == IF b.len >= 9 THEN Lesser(b.len, 4096) ELSE 0

\* How many bytes of a member are read to tell its kind.
Read(b) == IF b.len >= 16 THEN Lesser(b.len, 4096) ELSE 0

KindOf(b) == Kind(b, Read(b))

CountKind(b) ==
  /\ counts' = [counts EXCEPT ![KindOf(b)] = @ + 1]
  /\ room' = [room EXCEPT ![KindOf(b)] = @ + b.len]
  /\ k' = k + 1
  /\ UNCHANGED <<container, nested, censusVars>>

BinOther ==
  /\ k <= Len(container)
  /\ KindOf(container[k]) \notin {"block:stored", "block:1", "block:3"}
  /\ CountKind(container[k])
  /\ UNCHANGED <<packedTotal, unpackedTotal, biggest>>

BinBlock ==
  /\ k <= Len(container)
  /\ KindOf(container[k]) \in {"block:stored", "block:1", "block:3"}
  /\ CountKind(container[k])
  /\ packedTotal' = packedTotal + Packed(container[k])
  /\ unpackedTotal' = unpackedTotal + Unpacked(container[k])
  /\ biggest' = IF Packed(container[k]) > biggest[1]
                THEN <<Packed(container[k]), <<k>>>>
                ELSE biggest

BinStep == BinOther \/ BinBlock

Codec == CensusStep /\ UNCHANGED <<container, nested, binVars>>

Done == pc = "reported" /\ k > Len(container) /\ UNCHANGED vars

BothInit == Init /\ BinInit

Next == Codec \/ BinStep \/ Done

Spec == BothInit /\ [][Next]_vars

-----------------------------------------------------------------------------
(* Properties                                                              *)

TypeOK ==
  /\ CensusTypeOK
  /\ k \in 1 .. Len(container) + 1
  /\ counts \in [Kinds -> Nat]
  /\ room \in [Kinds -> Nat]
  /\ packedTotal \in Nat
  /\ unpackedTotal \in Nat
  /\ biggest \in Nat \X Places

\* The two reports, which the docs put side by side, count the same blocks: as
\* many of each method, of the same sizes, the same one the largest, whatever
\* the decoder made of them, and whether or not the census looked inside.
CensusesAgree ==
  pc = "reported" /\ k > Len(container) =>
    /\ \A m \in Known : counts[BlockKind(m)] = top.methods[m]
    /\ packedTotal = top.packed
    /\ unpackedTotal = top.unpacked
    /\ biggest = top.largest

=============================================================================
