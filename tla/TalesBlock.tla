----------------------------- MODULE TalesBlock -----------------------------
(***************************************************************************)
(* The reference decoder of src/tools/tales_block.py: unpack_stream turns  *)
(* a raw token stream into bytes through a ring of RING cells.             *)
(*                                                                         *)
(* The geometry of the format has one parameter, the number NIB of values  *)
(* of a half byte: the code has NIB = 16, hence 256 byte values, a ring of *)
(* 4096 cells, 8 flags in a flag byte, matches of 3..18 bytes and runs of  *)
(* 4..274.  The theorems hold for every NIB; TLC runs NIB = 2.             *)
(***************************************************************************)
EXTENDS Integers, Sequences

CONSTANTS
  NIB,      \* values of a half byte (16 in the code)
  FlagBits, \* flags in a flag byte (8 in the code)
  Streams   \* the token streams a caller may pass

BYTE == NIB * NIB   \* values of a byte, 256
RING == NIB * BYTE  \* cells of the ring, 4096
Byte == 0 .. BYTE - 1
Cell == 0 .. RING - 1

ASSUME GeometryAssumption ==
  /\ NIB \in Nat
  /\ NIB >= 2
  /\ FlagBits \in Nat \ {0}
ASSUME StreamsAssumption == Streams \subseteq Seq(Byte)

Dialects == {"snes", "psx"}
Kinds    == {"lzss", "run"}  \* the two compressed entries of METHODS

VARIABLES
  dialect, kind, src,  \* the arguments of unpack_stream
  i,                   \* bytes of src read
  flags, bits,         \* what is left of the flag byte
  pos, ring,           \* the write cursor and the ring
  out,                 \* the bytes decoded
  source, value,       \* what the phrase in progress copies or repeats
  k, count,            \* bytes of the phrase emitted, and its length
  pc

args   == <<dialect, kind, src>>
reader == <<i, flags, bits>>
writer == <<pos, ring, out>>
phrase == <<source, value, k, count>>
vars   == <<args, reader, writer, phrase, pc>>

n == Len(src)
Src(j) == src[j + 1]  \* src[j] of the code

-----------------------------------------------------------------------------
(* The dictionary                                                          *)

\* The seed of the PlayStation ring: for every byte b a group of b, 0, b, 0 ..
\* of NIB/2 cells, then for every b a group of b, 255, b .. one cell shorter;
\* the cells above stay zero, and so does the whole Super Famicom ring.
Preload(d) ==
  LET group == NIB \div 2
      short == group - 1
      first == BYTE * group
  IN  [p \in Cell |->
         IF d # "psx" THEN 0
         ELSE IF p < first
              THEN IF (p % group) % 2 = 0 THEN p \div group ELSE 0
         ELSE IF p - first < BYTE * short
              THEN IF ((p - first) % short) % 2 = 0
                   THEN (p - first) \div short
                   ELSE BYTE - 1
         ELSE 0]

CursorStart(d, kd) ==
  IF d # "psx" THEN 0 ELSE RING - (IF kd = "run" THEN NIB + 1 ELSE NIB + 2)

-----------------------------------------------------------------------------
(* The token stream                                                        *)

Init ==
  /\ dialect \in Dialects
  /\ kind \in Kinds
  /\ src \in Streams
  /\ i = 0
  /\ flags = 0
  /\ bits = 0
  /\ pos = CursorStart(dialect, kind)
  /\ ring = Preload(dialect)
  /\ out = <<>>
  /\ source = 0
  /\ value = 0
  /\ k = 0
  /\ count = 0
  /\ pc = "loop"

\* Mutated form of Emit: the byte written after the cursor has moved.
EmitLate(c) ==
  /\ ring' = [ring EXCEPT ![(pos + 1) % RING] = c]
  /\ pos' = (pos + 1) % RING
  /\ out' = Append(out, c)

\* One byte decoded: it goes to the ring, under the cursor, and to the output.
Emit(c) ==
  /\ ring' = [ring EXCEPT ![pos] = c]
  /\ pos' = (pos + 1) % RING
  /\ out' = Append(out, c)

\* The two dialects split the second token byte the opposite way round.
LengthCode(b1) == IF dialect = "snes" THEN b1 \div NIB ELSE b1 % NIB
Other(b1)      == IF dialect = "snes" THEN b1 % NIB ELSE b1 \div NIB

\* A distance behind the cursor on the Super Famicom, a cell on PlayStation.
Source(b0, b1) ==
  LET field == b0 + Other(b1) * BYTE
  IN  IF dialect = "snes" THEN (pos - field) % RING ELSE field

IsEscape(b1) == kind = "run" /\ LengthCode(b1) = NIB - 1

\* The while condition fails: the stream is used up.
LoopExit ==
  /\ pc = "loop"
  /\ i >= n
  /\ pc' = "done"
  /\ UNCHANGED <<args, reader, writer, phrase>>

\* A new flag byte; its first token follows without another test of i < n.
LoadFlags ==
  /\ pc = "loop"
  /\ i < n
  /\ bits = 0
  /\ flags' = Src(i)
  /\ i' = i + 1
  /\ bits' = FlagBits
  /\ pc' = "token"
  /\ UNCHANGED <<args, writer, phrase>>

AtToken == pc = "token" \/ (pc = "loop" /\ i < n /\ bits > 0)

TakeFlag ==
  /\ flags' = flags \div 2
  /\ bits' = bits - 1

FlagSet == flags % 2 = 1

Literal ==
  /\ AtToken
  /\ FlagSet
  /\ i < n
  /\ TakeFlag
  /\ Emit(Src(i))
  /\ i' = i + 1
  /\ pc' = "loop"
  /\ UNCHANGED <<args, phrase>>

\* A token of two bytes, b0 and b1, both inside the stream.
AtPair ==
  /\ AtToken
  /\ ~FlagSet
  /\ i + 1 < n
  /\ TakeFlag
  /\ UNCHANGED <<args, writer>>

Reference ==
  /\ AtPair
  /\ ~IsEscape(Src(i + 1))
  /\ i' = i + 2
  /\ source' = Source(Src(i), Src(i + 1))
  /\ count' = LengthCode(Src(i + 1)) + 3
  /\ k' = 0
  /\ pc' = "copy"
  /\ UNCHANGED value

ShortRun ==
  /\ AtPair
  /\ IsEscape(Src(i + 1))
  /\ Other(Src(i + 1)) # 0
  /\ i' = i + 2
  /\ value' = Src(i)
  /\ count' = Other(Src(i + 1)) + 3
  /\ k' = 0
  /\ pc' = "run"
  /\ UNCHANGED source

\* Mutated form of LongRun: the third byte is read and not stepped over.
LongRunShort ==
  /\ AtPair
  /\ IsEscape(Src(i + 1))
  /\ Other(Src(i + 1)) = 0
  /\ i + 2 < n
  /\ i' = i + 2
  /\ value' = Src(i + 2)
  /\ count' = Src(i) + NIB + 3
  /\ k' = 0
  /\ pc' = "run"
  /\ UNCHANGED source

LongRun ==
  /\ AtPair
  /\ IsEscape(Src(i + 1))
  /\ Other(Src(i + 1)) = 0
  /\ i + 2 < n
  /\ i' = i + 3
  /\ value' = Src(i + 2)
  /\ count' = Src(i) + NIB + 3
  /\ k' = 0
  /\ pc' = "run"
  /\ UNCHANGED source

\* The three breaks: the stream ends inside a literal, a pair or a long run.
Cut ==
  /\ pc' = "done"
  /\ UNCHANGED <<args, writer, phrase>>

\* Mutated form of CutToken: a break one byte too early.
CutTokenEarly ==
  /\ AtToken
  /\ i >= n \/ (~FlagSet /\ i + 2 >= n)
  /\ TakeFlag
  /\ Cut
  /\ UNCHANGED i

CutToken ==
  /\ AtToken
  /\ i >= n \/ (~FlagSet /\ i + 1 >= n)
  /\ TakeFlag
  /\ Cut
  /\ UNCHANGED i

CutLongRun ==
  /\ AtPair
  /\ IsEscape(Src(i + 1))
  /\ Other(Src(i + 1)) = 0
  /\ i + 2 >= n
  /\ i' = i + 2
  /\ Cut

\* One turn of an emitting loop: the ring is read again for every byte, so a
\* match may reach into what it has itself written.
NextOfPhrase ==
  /\ k' = k + 1
  /\ pc' = (IF k + 1 = count THEN "loop" ELSE pc)
  /\ UNCHANGED <<args, reader, source, value, count>>

\* Mutated form of EmitCopy: the source does not advance.
EmitCopyStuck ==
  /\ pc = "copy"
  /\ Emit(ring[source])
  /\ NextOfPhrase

EmitCopy ==
  /\ pc = "copy"
  /\ Emit(ring[(source + k) % RING])
  /\ NextOfPhrase

EmitRun ==
  /\ pc = "run"
  /\ Emit(value)
  /\ NextOfPhrase

Done == pc = "done" /\ UNCHANGED vars  \* the stream has been returned

Step ==
  \/ LoopExit
  \/ LoadFlags
  \/ Literal
  \/ Reference
  \/ ShortRun
  \/ LongRun
  \/ CutToken
  \/ CutLongRun
  \/ EmitCopy
  \/ EmitRun

Next == Step \/ Done

Spec == Init /\ [][Next]_vars

-----------------------------------------------------------------------------
(* Properties                                                              *)

TypeOK ==
  /\ dialect \in Dialects
  /\ kind \in Kinds
  /\ src \in Seq(Byte)
  /\ i \in 0 .. n
  /\ flags \in Byte
  /\ bits \in 0 .. FlagBits
  /\ pos \in Cell
  /\ ring \in [Cell -> Byte]
  /\ out \in Seq(Byte)
  /\ source \in Cell
  /\ value \in Byte
  /\ k \in Nat
  /\ count \in Nat
  /\ pc \in {"loop", "token", "copy", "run", "done"}
  /\ pc = "token" => bits > 0
  /\ pc \in {"copy", "run"} => k < count

\* How many bytes ago cell p was written, if it has been: 0 for the last byte.
Age(p) == IF p < pos THEN pos - 1 - p ELSE pos - 1 - p + RING

\* The ring is the last RING bytes of the output and, in the cells that have
\* not been written yet, the preload: at every step, across every wrap of the
\* cursor, in both dialects.
WindowMirrorsOutput ==
  \A p \in Cell :
    ring[p] = IF Age(p) < Len(out)
              THEN out[Len(out) - Age(p)]
              ELSE Preload(dialect)[p]

\* When the decoder stops it has looked at the whole stream: at most one byte,
\* the first of a pair that was cut, is left over.
AllInputRead == pc = "done" => n - i <= 1

\* The most bytes a token of this kind can give, and the least it can cost.
MaxPhrase == IF kind = "run" THEN BYTE + NIB + 2 ELSE NIB + 2
TokenCost == IF kind = "run" THEN 3 ELSE 2

\* How far a stream can expand.  With NIB = 16 a run stream gives at most
\* 2192 bytes for 25 read and a plain one 144 for 17: the ratio 64 that
\* scpk.block_head takes for impossible is within reach of a run stream.
ExpansionBound ==
  Len(out) * (1 + TokenCost * FlagBits) <= FlagBits * MaxPhrase * i

\* The distance a copy in progress reaches back: one of 1 .. RING, since the
\* cell under the cursor is the one written RING bytes ago.
Distance ==
  LET d == (pos - source - k) % RING IN IF d = 0 THEN RING ELSE d

SW == INSTANCE SlidingWindow WITH
  Symbol   <- Byte,
  Window   <- RING,
  MaxMatch <- NIB + 2,
  MaxRun   <- BYTE + NIB + 2,
  dict     <- [d \in 1 .. RING |->
                 Preload(dialect)[(CursorStart(dialect, kind) - d) % RING]],
  mode     <- IF pc \in {"copy", "run"} THEN pc ELSE "idle",
  dist     <- IF pc = "copy" THEN Distance ELSE 0,
  sym      <- IF pc = "run" THEN value ELSE 0,
  left     <- IF pc \in {"copy", "run"} THEN count - k ELSE 0

\* unpack_stream keeps the promise of the sliding window: a copy is made at one
\* distance from its first byte to its last, whatever the cursor does.
ImplementsWindow == SW!Spec

=============================================================================
