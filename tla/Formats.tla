------------------------------ MODULE Formats ------------------------------
(***************************************************************************)
(* What the tools read off the first bytes of a buffer: the nine byte      *)
(* header of a block (tales_block.py header, unpack and plausible), the    *)
(* kind of a container member (binfs.py kind), and the layouts that hold   *)
(* other buffers (codec_census.py parse_bundle and parse_archive).         *)
(*                                                                         *)
(* A buffer is its length and the bytes that are not zero, by offset.      *)
(***************************************************************************)
EXTENDS Integers, Sequences

CONSTANT Streams  \* what a token stream decodes to, by its first byte

Bytes == 0 .. 255

IsBuffer(b) ==
  /\ b.len \in Nat
  /\ DOMAIN b.at \subseteq 0 .. b.len - 1
  /\ \A o \in DOMAIN b.at : b.at[o] \in Bytes

ASSUME StreamAssumption ==
  /\ DOMAIN Streams = Bytes
  /\ \A k \in Bytes : IsBuffer(Streams[k])

Byte(b, o) == IF o \in DOMAIN b.at THEN b.at[o] ELSE 0

U32(b, o) ==
  Byte(b, o) + 256 * (Byte(b, o + 1) + 256 * (Byte(b, o + 2) + 256 * Byte(b, o + 3)))

First4(b) == <<Byte(b, 0), Byte(b, 1), Byte(b, 2), Byte(b, 3)>>

Lesser(m, n) == IF m < n THEN m ELSE n

\* buf[o:o + n], cut at the end of the buffer.
Slice(b, o, n) ==
  LET stop == Lesser(o + n, b.len)
  IN  [len |-> IF o < stop THEN stop - o ELSE 0,
       at  |-> [k \in {d - o : d \in DOMAIN b.at \cap (o .. stop - 1)} |-> b.at[k + o]]]

-----------------------------------------------------------------------------
(* A block: method, packed and unpacked size, and the packed bytes         *)

Known == {0, 1, 3}  \* the methods of the PlayStation dialect; 0 is stored

Method(b)   == Byte(b, 0)
Packed(b)   == U32(b, 1)
Unpacked(b) == U32(b, 5)

\* What unpack raises BlockError for.
Raises(b) == b.len < 9 \/ Method(b) \notin Known

Unpack(b) ==
  IF Method(b) = 0 THEN Slice(b, 9, Unpacked(b))
  ELSE IF Packed(b) = 0 THEN Slice(b, 9, 0)
  ELSE Streams[Byte(b, 9)]

MaxScanned  == 256 * 256 * 256 - 1     \* the cap of plausible, 0xFFFFFF
MaxUnpacked == 256 * 256 * 256 * 4 - 1 \* kind: unpacked < (1 << 26)

Plausible(b) ==
  /\ 9 <= b.len
  /\ Method(b) \in Known \ {0}
  /\ Packed(b) \in 16 .. MaxScanned
  /\ Unpacked(b) \in 16 .. MaxScanned
  /\ Unpacked(b) >= Packed(b)
  /\ 9 + Packed(b) <= b.len

-----------------------------------------------------------------------------
(* The kind of a member, of which `got` bytes have been read               *)

TIM2 == <<84, 73, 77, 50>>
MPEG == <<0, 0, 1, 186>>
MSCF == <<77, 83, 67, 70>>

\* Mutated form of IsBlock: any method byte will do.
IsBlockAny(b) ==
  /\ First4(b) \notin {TIM2, MPEG, MSCF}
  /\ 9 + Packed(b) <= b.len
  /\ Unpacked(b) \in 1 .. MaxUnpacked

IsBlock(b) ==
  /\ First4(b) \notin {TIM2, MPEG, MSCF}
  /\ Method(b) \in Known
  /\ 9 + Packed(b) <= b.len
  /\ Unpacked(b) \in 1 .. MaxUnpacked

\* Every whole frame of sixteen bytes has a legal shift, filter and flag.
Adpcm(b, got) ==
  /\ got \div 16 >= 8
  /\ \A f \in 0 .. got \div 16 - 1 :
       /\ Byte(b, 16 * f) % 16 <= 12
       /\ Byte(b, 16 * f) \div 16 <= 4
       /\ Byte(b, 16 * f + 1) <= 7

BlockKinds == <<"block:stored", "block:1", "", "block:3">>

BlockKind(m) == BlockKinds[m + 1]

Kind(b, got) ==
  CASE got = 0                           -> "empty"
    [] got \in 1 .. 8                    -> "short"
    [] got >= 9 /\ First4(b) = TIM2      -> "TIM2"
    [] got >= 9 /\ First4(b) = MPEG      -> "MPEG-PS"
    [] got >= 9 /\ First4(b) = MSCF      -> "MSCF"
    [] got >= 9 /\ IsBlock(b)            -> BlockKind(Method(b))
    [] OTHER ->
         IF First4(b) # <<0, 0, 0, 0>> THEN "raw"
         ELSE IF Adpcm(b, got) THEN "SPU-ADPCM" ELSE "zero-lead"

-----------------------------------------------------------------------------
(* Buffers that hold others; a part is an offset and a size                *)

MaxParts == 4096

IsBundle(b) ==
  LET n == U32(b, 0)
  IN  /\ b.len >= 264
      /\ n \in 2 .. MaxParts
      /\ 4 + 4 * n <= b.len
      /\ U32(b, 4) = ((4 + 4 * n + 255) \div 256) * 256
      /\ \A k \in 1 .. n : U32(b, 4 * k) % 256 = 0
      /\ \A k \in 1 .. n - 1 : U32(b, 4 * k) < U32(b, 4 * k + 4)
      /\ U32(b, 4 * n) < b.len

\* Mutated form of BundleParts: the last part is left without an end.
BundlePartsOpen(b) ==
  LET n == U32(b, 0)
  IN  [k \in 1 .. n - 1 |->
         [off |-> U32(b, 4 * k), size |-> U32(b, 4 * k + 4) - U32(b, 4 * k)]]

BundleParts(b) ==
  LET n == U32(b, 0)
  IN  [k \in 1 .. n |->
         [off  |-> U32(b, 4 * k),
          size |-> (IF k < n THEN U32(b, 4 * k + 4) ELSE b.len) - U32(b, 4 * k)]]

ArchiveParts(b) ==
  [k \in 1 .. U32(b, 0) |-> [off |-> U32(b, 8 * k - 4), size |-> U32(b, 8 * k)]]

IsArchive(b) ==
  LET n == U32(b, 0)
      e == ArchiveParts(b)
  IN  /\ b.len >= 12
      /\ n \in 1 .. MaxParts
      /\ 4 + 8 * n <= b.len
      /\ \A k \in 1 .. n : e[k].off + e[k].size <= b.len
      /\ e[1].off <= 64
      /\ \A k \in 1 .. n - 1 : e[k].off + e[k].size = e[k + 1].off
      /\ e[n].off + e[n].size = b.len

=============================================================================
