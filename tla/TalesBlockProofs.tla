-------------------------- MODULE TalesBlockProofs --------------------------
(***************************************************************************)
(* What TLAPS proves of the decoder, for every half-byte size NIB, every   *)
(* number of flag bits and every set of streams: with NIB = 16 these are   *)
(* facts about src/tools/tales_block.py itself.                            *)
(***************************************************************************)
EXTENDS TalesBlock, TLAPS

-----------------------------------------------------------------------------
(* The arithmetic of half bytes and of the ring                            *)

\* A byte has at least four values, two bytes' worth of which fit in the ring.
LEMMA Geometry ==
  /\ BYTE \in Nat /\ BYTE >= 4
  /\ RING \in Nat /\ RING >= 2 * BYTE
  /\ BYTE >= 2 * NIB
BY GeometryAssumption DEF BYTE, RING

\* b >> 4 and b & 0x0F are half bytes.
LEMMA HalfByte ==
  ASSUME NEW b \in Byte
  PROVE  /\ b \div NIB \in 0 .. NIB - 1
         /\ b % NIB \in 0 .. NIB - 1
BY GeometryAssumption, Geometry DEF BYTE, Byte

\* b0 | (other << 8) names a cell of the ring.
LEMMA FieldInRing ==
  ASSUME NEW b \in Byte, NEW h \in 0 .. NIB - 1
  PROVE  b + h * BYTE \in Cell
BY GeometryAssumption, Geometry DEF BYTE, Byte, RING, Cell

\* & (RING - 1) gives a cell, and wraps the cursor after the last one.
LEMMA ModCell ==
  ASSUME NEW p \in Int
  PROVE  p % RING \in Cell
BY GeometryAssumption, Geometry DEF Cell

LEMMA Wrap ==
  ASSUME NEW p \in Cell
  PROVE  (p + 1) % RING = IF p + 1 = RING THEN 0 ELSE p + 1
BY GeometryAssumption, Geometry DEF Cell

\* flags >> 1 is a byte.
LEMMA Halve ==
  ASSUME NEW b \in Byte
  PROVE  b \div 2 \in Byte
BY Geometry DEF Byte

\* A number below a * b, divided by a, is below b.
LEMMA Quotient ==
  ASSUME NEW a \in Nat \ {0}, NEW b \in Nat, NEW p \in Nat, p < b * a
  PROVE  p \div a \in 0 .. b - 1
OBVIOUS

\* preload fills every cell with a byte.
LEMMA PreloadType ==
  ASSUME NEW d
  PROVE  Preload(d) \in [Cell -> Byte]
<1> DEFINE group == NIB \div 2
           short == group - 1
           first == BYTE * group
<1>1. group \in Nat \ {0} /\ short \in Nat /\ first \in Nat
  BY GeometryAssumption, Geometry
<1> DEFINE cell(p) ==
             IF d # "psx" THEN 0
             ELSE IF p < first
                  THEN IF (p % group) % 2 = 0 THEN p \div group ELSE 0
             ELSE IF p - first < BYTE * short
                  THEN IF ((p - first) % short) % 2 = 0
                       THEN (p - first) \div short
                       ELSE BYTE - 1
             ELSE 0
<1>2. ASSUME NEW p \in Cell PROVE cell(p) \in Byte
  <2>1. 0 \in Byte /\ BYTE - 1 \in Byte
    BY Geometry DEF Byte
  <2>2. CASE p < first
    BY <1>1, <2>1, <2>2, Quotient, Geometry DEF Byte, Cell
  <2>3. CASE ~(p < first) /\ p - first < BYTE * short
    <3>1. short # 0 /\ p - first \in Nat
      BY <1>1, <2>3, Geometry DEF Cell
    <3>2. (p - first) \div short \in Byte
      BY <1>1, <2>3, <3>1, Quotient, Geometry DEF Byte
    <3> QED BY <2>1, <2>3, <3>2
  <2>4. CASE ~(p < first) /\ ~(p - first < BYTE * short)
    BY <2>1, <2>4
  <2> QED BY <2>2, <2>3, <2>4
<1> QED BY <1>2 DEF Preload

LEMMA CursorStartType ==
  ASSUME NEW d, NEW kd
  PROVE  CursorStart(d, kd) \in Cell
BY GeometryAssumption, Geometry DEF CursorStart, Cell

-----------------------------------------------------------------------------
(* Types                                                                   *)

\* Emitting a byte keeps the ring, the cursor and the output well-formed.
LEMMA EmitType ==
  ASSUME TypeOK, NEW c \in Byte, Emit(c)
  PROVE  pos' \in Cell /\ ring' \in [Cell -> Byte] /\ out' \in Seq(Byte)
BY ModCell DEF TypeOK, Emit, Cell

LEMMA SrcType ==
  ASSUME TypeOK, NEW j \in Nat, j < n
  PROVE  Src(j) \in Byte
BY DEF TypeOK, Src, n

LEMMA PairType ==
  ASSUME TypeOK, NEW b0 \in Byte, NEW b1 \in Byte
  PROVE  /\ LengthCode(b1) \in 0 .. NIB - 1
         /\ Other(b1) \in 0 .. NIB - 1
         /\ Source(b0, b1) \in Cell
<1>1. LengthCode(b1) \in 0 .. NIB - 1 /\ Other(b1) \in 0 .. NIB - 1
  BY HalfByte DEF LengthCode, Other
<1>2. b0 + Other(b1) * BYTE \in Cell
  BY <1>1, FieldInRing
<1>3. (pos - (b0 + Other(b1) * BYTE)) % RING \in Cell
  <2>1. pos - (b0 + Other(b1) * BYTE) \in Int
    BY <1>2, Geometry DEF TypeOK, Cell
  <2> QED BY <2>1, ModCell
<1> QED BY <1>1, <1>2, <1>3 DEF Source

LEMMA TypeInit == Init => TypeOK
<1> SUFFICES ASSUME Init PROVE TypeOK
  OBVIOUS
<1>1. src \in Seq(Byte)
  BY StreamsAssumption DEF Init
<1>2. pos \in Cell /\ ring \in [Cell -> Byte]
  BY PreloadType, CursorStartType DEF Init
<1> QED
  BY <1>1, <1>2, Geometry, GeometryAssumption
  DEF Init, TypeOK, n, Byte, Cell

LEMMA TypeStep == TypeOK /\ [Next]_vars => TypeOK'
<1> SUFFICES ASSUME TypeOK, [Next]_vars PROVE TypeOK'
  OBVIOUS
<1> USE GeometryAssumption, Geometry
<1>1. CASE LoopExit
  BY <1>1 DEF TypeOK, LoopExit, args, reader, writer, phrase, n
<1>2. CASE LoadFlags
  <2>1. Src(i) \in Byte
    BY <1>2, SrcType DEF LoadFlags, TypeOK
  <2> QED BY <1>2, <2>1 DEF TypeOK, LoadFlags, args, writer, phrase, n
<1>3. CASE Literal
  <2>1. Src(i) \in Byte
    BY <1>3, SrcType DEF Literal, TypeOK
  <2>2. pos' \in Cell /\ ring' \in [Cell -> Byte] /\ out' \in Seq(Byte)
    BY <1>3, <2>1, EmitType DEF Literal
  <2>3. flags' \in Byte /\ bits' \in 0 .. FlagBits
    BY <1>3, Halve DEF Literal, TakeFlag, AtToken, TypeOK
  <2> QED BY <1>3, <2>2, <2>3 DEF TypeOK, Literal, args, phrase, n
<1>4. ASSUME AtPair
      PROVE  /\ Src(i) \in Byte /\ Src(i + 1) \in Byte
             /\ flags' \in Byte /\ bits' \in 0 .. FlagBits
             /\ UNCHANGED <<args, writer>>
             /\ i + 2 \in 0 .. n
  <2>1. Src(i) \in Byte /\ Src(i + 1) \in Byte
    BY <1>4, SrcType DEF AtPair, TypeOK, n
  <2> QED BY <1>4, <2>1, Halve DEF AtPair, TakeFlag, AtToken, TypeOK, n
<1>5. CASE Reference
  <2>1. AtPair
    BY <1>5 DEF Reference
  <2>2. /\ source' \in Cell
        /\ count' \in Nat /\ k' < count'
    BY <1>5, <1>4, <2>1, PairType DEF Reference
  <2> QED BY <1>5, <1>4, <2>1, <2>2 DEF TypeOK, Reference, args, writer, n
<1>6. CASE ShortRun
  <2>1. AtPair
    BY <1>6 DEF ShortRun
  <2>2. count' \in Nat /\ k' < count'
    BY <1>6, <1>4, <2>1, PairType DEF ShortRun
  <2> QED BY <1>6, <1>4, <2>1, <2>2 DEF TypeOK, ShortRun, args, writer, n
<1>7. CASE LongRun
  <2>1. AtPair
    BY <1>7 DEF LongRun
  <2>2. Src(i + 2) \in Byte
    BY <1>7, SrcType DEF LongRun, TypeOK, n
  <2>3. count' \in Nat /\ k' < count'
    BY <1>7, <1>4, <2>1 DEF LongRun, Byte
  <2> QED BY <1>7, <1>4, <2>1, <2>2, <2>3 DEF TypeOK, LongRun, args, writer, n
<1>8. CASE CutToken
  <2>1. flags' \in Byte /\ bits' \in 0 .. FlagBits
    BY <1>8, Halve DEF CutToken, TakeFlag, AtToken, TypeOK
  <2> QED BY <1>8, <2>1 DEF TypeOK, CutToken, Cut, args, writer, phrase, n
<1>9. CASE CutLongRun
  <2>1. AtPair
    BY <1>9 DEF CutLongRun
  <2> QED
    BY <1>9, <1>4, <2>1 DEF TypeOK, CutLongRun, Cut, args, writer, phrase, n
<1>10. CASE EmitCopy
  <2>1. ring[(source + k) % RING] \in Byte
    <3>1. source + k \in Int
      BY DEF TypeOK, Cell
    <3>2. (source + k) % RING \in Cell
      BY <3>1, ModCell
    <3> QED BY <3>2 DEF TypeOK
  <2>2. pos' \in Cell /\ ring' \in [Cell -> Byte] /\ out' \in Seq(Byte)
    BY <1>10, <2>1, EmitType DEF EmitCopy
  <2> QED
    BY <1>10, <2>2 DEF TypeOK, EmitCopy, NextOfPhrase, args, reader, n
<1>11. CASE EmitRun
  <2>1. pos' \in Cell /\ ring' \in [Cell -> Byte] /\ out' \in Seq(Byte)
    BY <1>11, EmitType DEF EmitRun, TypeOK
  <2> QED
    BY <1>11, <2>1 DEF TypeOK, EmitRun, NextOfPhrase, args, reader, n
<1>12. CASE UNCHANGED vars
  BY <1>12 DEF TypeOK, vars, args, reader, writer, phrase, n
<1> QED
  BY <1>1, <1>2, <1>3, <1>5, <1>6, <1>7, <1>8, <1>9, <1>10, <1>11, <1>12
  DEF Next, Step, Done

\* Every variable of the decoder stays in its range: the cursor inside the
\* ring, the read position inside the stream, a phrase short of its length.
THEOREM TypeCorrect == Spec => []TypeOK
<1>1. Init => TypeOK
  BY TypeInit
<1>2. TypeOK /\ [Next]_vars => TypeOK'
  BY TypeStep
<1> QED BY <1>1, <1>2, PTL DEF Spec

-----------------------------------------------------------------------------
(* The ring mirrors the output                                             *)

\* A byte emitted ages every other cell by one and makes its own the youngest.
LEMMA EmitMirrors ==
  ASSUME TypeOK, WindowMirrorsOutput, NEW c \in Byte, Emit(c), UNCHANGED dialect
  PROVE  WindowMirrorsOutput'
<1> DEFINE age(q, p) == IF p < q THEN q - 1 - p ELSE q - 1 - p + RING
<1>1. /\ pos \in Cell /\ RING \in Nat
      /\ out \in Seq(Byte) /\ Len(out) \in Nat
      /\ pos' = IF pos + 1 = RING THEN 0 ELSE pos + 1
      /\ out' = Append(out, c)
      /\ Len(out') = Len(out) + 1
  BY Wrap, Geometry DEF TypeOK, Emit
<1>2. \A j \in 1 .. Len(out) : out'[j] = out[j]
  BY <1>1
<1>3. out'[Len(out) + 1] = c
  BY <1>1
<1> SUFFICES ASSUME NEW p \in Cell
             PROVE  ring'[p] = IF age(pos', p) < Len(out')
                               THEN out'[Len(out') - age(pos', p)]
                               ELSE Preload(dialect)[p]
  BY DEF WindowMirrorsOutput, Age
<1>4. CASE p = pos
  <2>1. age(pos', p) = 0
    BY <1>1, <1>4 DEF Cell
  <2>2. ring'[p] = c
    BY <1>1, <1>4 DEF Emit, TypeOK
  <2> HIDE DEF age
  <2> QED BY <1>1, <1>3, <2>1, <2>2
<1>5. CASE p # pos
  <2>1. age(pos', p) = age(pos, p) + 1 /\ age(pos, p) \in Nat
    BY <1>1, <1>5 DEF Cell
  <2>2. ring'[p] = ring[p]
    BY <1>1, <1>5 DEF Emit, TypeOK
  <2>3. ring[p] = IF age(pos, p) < Len(out)
                  THEN out[Len(out) - age(pos, p)]
                  ELSE Preload(dialect)[p]
    BY DEF WindowMirrorsOutput, Age
  <2> HIDE DEF age
  <2>4. CASE age(pos, p) < Len(out)
    <3>1. Len(out) - age(pos, p) \in 1 .. Len(out)
      BY <1>1, <2>1, <2>4
    <3> QED BY <1>1, <1>2, <2>1, <2>2, <2>3, <2>4, <3>1
  <2>5. CASE ~(age(pos, p) < Len(out))
    BY <1>1, <2>1, <2>2, <2>3, <2>5
  <2> QED BY <2>4, <2>5
<1> QED BY <1>4, <1>5

\* Every step either emits one byte or leaves the ring and the output alone.
LEMMA WriterStep ==
  ASSUME TypeOK, [Next]_vars
  PROVE  /\ UNCHANGED args
         /\ (\E c \in Byte : Emit(c)) \/ UNCHANGED writer
<1>1. CASE Literal
  <2>1. Src(i) \in Byte
    BY <1>1, SrcType DEF Literal, TypeOK
  <2> QED BY <1>1, <2>1 DEF Literal
<1>2. CASE EmitCopy
  <2>1. source + k \in Int
    BY DEF TypeOK, Cell
  <2>2. (source + k) % RING \in Cell
    BY <2>1, ModCell
  <2>3. ring[(source + k) % RING] \in Byte
    BY <2>2 DEF TypeOK
  <2> QED BY <1>2, <2>3 DEF EmitCopy, NextOfPhrase
<1>3. CASE EmitRun
  BY <1>3 DEF EmitRun, NextOfPhrase, TypeOK
<1>4. CASE LoopExit \/ LoadFlags \/ CutToken \/ UNCHANGED vars
  BY <1>4 DEF LoopExit, LoadFlags, CutToken, Cut, vars
<1>5. CASE Reference \/ ShortRun \/ LongRun \/ CutLongRun
  BY <1>5 DEF Reference, ShortRun, LongRun, CutLongRun, AtPair
<1> QED BY <1>1, <1>2, <1>3, <1>4, <1>5 DEF Next, Step, Done

LEMMA MirrorInit == Init => WindowMirrorsOutput
<1> SUFFICES ASSUME Init, NEW p \in Cell
             PROVE  ring[p] = IF Age(p) < Len(out)
                              THEN out[Len(out) - Age(p)]
                              ELSE Preload(dialect)[p]
  BY DEF WindowMirrorsOutput
<1>1. pos \in Cell
  BY CursorStartType DEF Init
<1>2. Age(p) >= 0
  BY <1>1, Geometry DEF Age, Cell
<1>3. Len(out) = 0 /\ ring = Preload(dialect)
  BY DEF Init
<1> QED BY <1>1, <1>2, <1>3, Geometry DEF Age, Cell

LEMMA MirrorStep ==
  TypeOK /\ WindowMirrorsOutput /\ [Next]_vars => WindowMirrorsOutput'
<1> SUFFICES ASSUME TypeOK, WindowMirrorsOutput, [Next]_vars
             PROVE  WindowMirrorsOutput'
  OBVIOUS
<1>1. UNCHANGED dialect
  BY WriterStep DEF args
<1>2. CASE \E c \in Byte : Emit(c)
  BY <1>1, <1>2, EmitMirrors
<1>3. CASE UNCHANGED writer
  BY <1>1, <1>3 DEF writer, WindowMirrorsOutput, Age
<1> QED BY <1>2, <1>3, WriterStep

\* At every step the ring is the last RING bytes of the output, and the preload
\* in the cells not written yet: the cursor's wrap-around (emit) never loses,
\* duplicates or shifts a byte of the window a match may name.
THEOREM RingMirrors == Spec => []WindowMirrorsOutput
<1>1. Init => TypeOK /\ WindowMirrorsOutput
  BY TypeInit, MirrorInit
<1>2. TypeOK /\ WindowMirrorsOutput /\ [Next]_vars
        => (TypeOK /\ WindowMirrorsOutput)'
  BY TypeStep, MirrorStep
<1> QED BY <1>1, <1>2, PTL DEF Spec

-----------------------------------------------------------------------------
(* The decoder implements the sliding window                               *)

\* Division leaves a remainder.
LEMMA DivMod ==
  ASSUME NEW N \in Nat \ {0}, NEW a \in Int, NEW q \in Int, NEW r \in Int,
         q = a \div N, r = a % N
  PROVE  a = q * N + r
OBVIOUS

\* An integer is its quotient times RING plus its remainder.
LEMMA ModQuotient ==
  ASSUME NEW a \in Int
  PROVE  \E q \in Int : a = q * RING + (a % RING)
<1> DEFINE q == a \div RING
           r == a % RING
<1>1. RING \in Nat \ {0}
  BY Geometry
<1>2. q \in Int /\ r \in Int
  BY <1>1
<1>3. q = a \div RING /\ r = a % RING
  OBVIOUS
<1> HIDE DEF q, r
<1>4. a = q * RING + r
  BY <1>1, <1>2, <1>3, DivMod
<1> QED BY <1>2, <1>4 DEF r

\* The remainder is determined by its range.
LEMMA ModUnique ==
  ASSUME NEW a \in Int, NEW r \in Cell, \E q \in Int : a = q * RING + r
  PROVE  a % RING = r
<1>1. PICK q \in Int : a = q * RING + r
  OBVIOUS
<1>2. RING \in Nat \ {0} /\ r \in 0 .. RING - 1
  BY Geometry DEF Cell
<1> HIDE DEF Cell
<1> QED BY <1>1, <1>2

\* Laps can be taken from either side.
LEMMA Laps ==
  ASSUME NEW R \in Int, NEW m \in Int
  PROVE  /\ (-m) * R = -(m * R)
         /\ (-m - 1) * R = -(m * R) - R
         /\ (m - 1) * R = m * R - R
OBVIOUS

\* The cell behind cursor q that holds address s is this far back.
LEMMA DistanceOfCell ==
  ASSUME NEW q \in Cell, NEW s \in Int
  PROVE  LET p == s % RING
         IN  (q - s) % RING = IF p <= q THEN q - p ELSE q - p + RING
<1> DEFINE p == s % RING
           a == q - s
<1>1. p \in Cell
  BY ModCell
<1>2. PICK m \in Int : s = m * RING + p
  BY ModQuotient
<1> HIDE DEF p
<1>3. RING \in Nat /\ q \in Nat /\ p \in Nat /\ q < RING /\ p < RING
  BY <1>1, Geometry DEF Cell
<1>4. a \in Int /\ -m \in Int /\ -m - 1 \in Int
  BY <1>2, <1>3
<1>5. /\ (-m) * RING = -(m * RING)
      /\ (-m - 1) * RING = -(m * RING) - RING
      /\ m * RING \in Int
  BY <1>3, Laps
<1>6. /\ a = (-m) * RING + (q - p)
      /\ a = (-m - 1) * RING + (q - p + RING)
  BY <1>2, <1>3, <1>5
<1> HIDE DEF a
<1>7. CASE p <= q
  <2>1. q - p \in Cell
    BY <1>3, <1>7 DEF Cell
  <2>2. a % RING = q - p
    BY <1>4, <1>6, <2>1, ModUnique
  <2> QED BY <1>7, <2>2 DEF p, a
<1>8. CASE ~(p <= q)
  <2>1. q - p + RING \in Cell
    BY <1>3, <1>8 DEF Cell
  <2>2. a % RING = q - p + RING
    BY <1>4, <1>6, <2>1, ModUnique
  <2> QED BY <1>8, <2>2 DEF p, a
<1> QED BY <1>7, <1>8

\* Subtracting one lap changes no remainder.
LEMMA OneLap ==
  ASSUME NEW a \in Int
  PROVE  (a - RING) % RING = a % RING
<1> DEFINE r == a % RING
           b == a - RING
<1>1. PICK m \in Int : a = m * RING + r
  BY ModQuotient
<1>2. r \in Cell /\ RING \in Nat
  BY ModCell, Geometry
<1>3. b \in Int /\ m - 1 \in Int
  BY <1>1, <1>2
<1>4. b = (m - 1) * RING + r
  <2>1. (m - 1) * RING = m * RING - RING /\ m * RING \in Int
    BY <1>2, Laps
  <2>2. r \in Int
    BY <1>2 DEF Cell
  <2> HIDE DEF r
  <2> QED BY <1>1, <1>2, <2>1, <2>2
<1> HIDE DEF r, b
<1>5. b % RING = r
  BY <1>2, <1>3, <1>4, ModUnique
<1> QED BY <1>5 DEF r, b

Start == CursorStart(dialect, kind)

\* During the first lap the cursor is as far past its start as the output is
\* long; the dictionary of the sliding window is laid out from there.
CursorInFirstLap ==
  Len(out) <= RING =>
    pos = IF Start + Len(out) < RING
          THEN Start + Len(out)
          ELSE Start + Len(out) - RING

LEMMA LapInit == Init => CursorInFirstLap
BY CursorStartType, Geometry DEF Init, CursorInFirstLap, Start, Cell

LEMMA LapStep ==
  TypeOK /\ CursorInFirstLap /\ [Next]_vars => CursorInFirstLap'
<1> SUFFICES ASSUME TypeOK, CursorInFirstLap, [Next]_vars
             PROVE  CursorInFirstLap'
  OBVIOUS
<1>1. UNCHANGED <<dialect, kind>>
  BY WriterStep DEF args
<1>2. Start \in Cell /\ Start' = Start
  BY <1>1, CursorStartType DEF Start, CursorStart
<1>3. CASE \E c \in Byte : Emit(c)
  <2>1. /\ pos' = IF pos + 1 = RING THEN 0 ELSE pos + 1
        /\ Len(out') = Len(out) + 1
        /\ Len(out) \in Nat
    BY <1>3, Wrap DEF Emit, TypeOK
  <2> DEFINE at(l) == IF Start + l < RING THEN Start + l ELSE Start + l - RING
  <2>2. SUFFICES ASSUME Len(out) + 1 <= RING
                 PROVE  pos' = at(Len(out) + 1)
    BY <1>2, <2>1 DEF CursorInFirstLap
  <2>3. pos = at(Len(out))
    BY <2>1, <2>2, Geometry DEF CursorInFirstLap
  <2> QED BY <1>2, <2>1, <2>2, <2>3, Geometry DEF Cell
<1>4. CASE UNCHANGED writer
  BY <1>2, <1>4 DEF writer, CursorInFirstLap
<1> QED BY <1>3, <1>4, WriterStep

WindowInv == TypeOK /\ WindowMirrorsOutput /\ CursorInFirstLap

LEMMA WindowInvInit == Init => WindowInv
BY TypeInit, MirrorInit, LapInit DEF WindowInv

LEMMA WindowInvStep == WindowInv /\ [Next]_vars => WindowInv'
BY TypeStep, MirrorStep, LapStep DEF WindowInv

\* A cell of the ring holds what the abstract window has at its distance.
LEMMA ReadBack ==
  ASSUME WindowInv, NEW p \in Cell
  PROVE  ring[p] = SW!Back(Age(p) + 1) /\ Age(p) + 1 \in 1 .. RING
<1> DEFINE d == Age(p) + 1
<1>1. /\ pos \in Cell /\ RING \in Nat /\ Len(out) \in Nat
      /\ Start \in Cell
  BY CursorStartType, Geometry DEF WindowInv, TypeOK, Start
<1>2. d \in 1 .. RING
  BY <1>1 DEF Age, Cell
<1>3. ring[p] = IF Age(p) < Len(out)
                THEN out[Len(out) - Age(p)]
                ELSE Preload(dialect)[p]
  BY DEF WindowInv, WindowMirrorsOutput
<1>4. Age(p) \in Int
  BY <1>1 DEF Age, Cell
<1>5. CASE Age(p) < Len(out)
  <2>1. d <= Len(out) /\ Len(out) + 1 - d = Len(out) - Age(p)
    BY <1>1, <1>4, <1>5
  <2> QED BY <1>2, <1>3, <1>5, <2>1 DEF SW!Back
<1>6. CASE ~(Age(p) < Len(out))
  <2> DEFINE e == d - Len(out)
  <2>1. e \in 1 .. RING /\ Len(out) < RING /\ ~(d <= Len(out))
    BY <1>1, <1>2, <1>4, <1>6
  <2>2. pos = IF Start + Len(out) < RING
              THEN Start + Len(out)
              ELSE Start + Len(out) - RING
    BY <1>1, <2>1 DEF WindowInv, CursorInFirstLap
  <2>3. \E q \in Int : Start - e = q * RING + p
    <3>1. p = IF p < pos THEN pos - d ELSE pos - d + RING
      BY <1>1, <1>4 DEF Age, Cell
    <3> DEFINE L == Len(out)
    <3>2. Start - e = Start + L - d
      <4> HIDE DEF d
      <4> QED BY <1>1, <1>2 DEF Cell
    <3>3. \/ Start + L - d = 0 * RING + p
          \/ Start + L - d = 1 * RING + p
          \/ Start + L - d = (-1) * RING + p
      <4> HIDE DEF d
      <4> QED BY <1>1, <1>2, <2>2, <3>1 DEF Cell
    <3> HIDE DEF d, e, L
    <3> QED BY <3>2, <3>3
  <2>4. (Start - e) % RING = p
    <3>1. Start - e \in Int
      BY <1>1, <2>1 DEF Cell
    <3> HIDE DEF e
    <3> QED BY <2>3, <3>1, ModUnique
  <2>5. SW!Back(d) = Preload(dialect)[(Start - e) % RING]
    BY <2>1 DEF SW!Back, Start
  <2> QED BY <1>2, <1>3, <1>6, <2>4, <2>5
<1> QED BY <1>5, <1>6

\* The byte a copy reads is the one at its distance.
LEMMA CopyReadsBack ==
  ASSUME WindowInv
  PROVE  /\ Distance \in 1 .. RING
         /\ ring[(source + k) % RING] = SW!Back(Distance)
<1> DEFINE p == (source + k) % RING
<1>1. source + k \in Int /\ pos \in Cell /\ source \in Int /\ k \in Int
  BY DEF WindowInv, TypeOK, Cell
<1>2. p \in Cell
  BY <1>1, ModCell
<1>3. (pos - (source + k)) % RING = IF p <= pos THEN pos - p ELSE pos - p + RING
  BY <1>1, DistanceOfCell
<1>4. pos - source - k = pos - (source + k)
  BY <1>1 DEF Cell
<1> HIDE DEF p
<1>5. Distance = Age(p) + 1
  BY <1>1, <1>2, <1>3, <1>4, Geometry DEF Distance, Age, Cell
<1>6. ring[p] = SW!Back(Distance) /\ Distance \in 1 .. RING
  BY <1>2, <1>5, ReadBack
<1> QED BY <1>6 DEF p

\* It stays the same when cursor and copy advance together.
LEMMA DistanceKept ==
  ASSUME TypeOK, NEW c, Emit(c), k' = k + 1, UNCHANGED source
  PROVE  Distance' = Distance
<1> DEFINE a == pos - source - k
<1>1. a \in Int /\ pos \in Cell
  BY DEF TypeOK, Cell
<1>2. pos' = IF pos + 1 = RING THEN 0 ELSE pos + 1
  BY <1>1, Wrap DEF Emit
<1>3. pos' - source' - k' = a \/ pos' - source' - k' = a - RING
  BY <1>1, <1>2, Geometry DEF TypeOK, Cell
<1>4. (pos' - source' - k') % RING = a % RING
  <2> HIDE DEF a
  <2> QED BY <1>1, <1>3, OneLap
<1> QED BY <1>4 DEF Distance

LEMMA RefineInit == Init => SW!Init
<1> SUFFICES ASSUME Init PROVE SW!Init
  OBVIOUS
<1>1. ASSUME NEW d \in 1 .. RING
      PROVE  Preload(dialect)[(CursorStart(dialect, kind) - d) % RING] \in Byte
  <2>1. CursorStart(dialect, kind) - d \in Int
    BY CursorStartType, Geometry DEF Cell
  <2>2. (CursorStart(dialect, kind) - d) % RING \in Cell
    BY <2>1, ModCell
  <2> QED BY <2>2, PreloadType
<1>2. out = <<>> /\ pc = "loop"
  BY DEF Init
<1> QED BY <1>1, <1>2 DEF SW!Init

LEMMA RefineStep == WindowInv /\ [Next]_vars => [SW!Next]_(SW!vars)
<1> SUFFICES ASSUME WindowInv, [Next]_vars PROVE SW!Next \/ UNCHANGED SW!vars
  OBVIOUS
<1> USE GeometryAssumption, Geometry
<1>0. TypeOK
  BY DEF WindowInv
<1>1. UNCHANGED <<dialect, kind>>
  BY <1>0, WriterStep DEF args
<1>2. CASE LoopExit \/ LoadFlags \/ CutToken \/ CutLongRun
  <2>1. /\ pc \notin {"copy", "run"} /\ pc' \notin {"copy", "run"}
        /\ out' = out
    BY <1>2
    DEF LoopExit, LoadFlags, CutToken, CutLongRun, AtPair, AtToken, Cut, writer
  <2> QED BY <1>1, <2>1 DEF SW!vars
<1>3. CASE Literal
  <2>1. pc \notin {"copy", "run"} /\ pc' \notin {"copy", "run"}
    BY <1>3 DEF Literal, AtToken
  <2>2. Src(i) \in Byte /\ out' = Append(out, Src(i))
    BY <1>0, <1>3, SrcType DEF Literal, TypeOK, Emit
  <2>3. SW!Literal
    BY <1>1, <2>1, <2>2 DEF SW!Literal
  <2> QED BY <2>3 DEF SW!Next
<1>4. CASE Reference
  <2>1. /\ pc \notin {"copy", "run"} /\ pc' = "copy"
        /\ UNCHANGED <<out, pos, ring>>
    BY <1>4 DEF Reference, AtPair, AtToken, writer
  <2>2. Src(i) \in Byte /\ Src(i + 1) \in Byte
    BY <1>0, <1>4, SrcType DEF Reference, AtPair, TypeOK, n
  <2>3. k' = 0 /\ count' - k' \in 3 .. NIB + 2
    BY <1>0, <1>4, <2>2, PairType DEF Reference
  <2>4. Distance' \in 1 .. RING
    <3>1. source' \in Cell /\ pos' \in Cell
      BY <1>0, <1>4, <2>1, <2>2, PairType DEF Reference, TypeOK
    <3>2. pos' - source' - k' \in Int
      BY <2>3, <3>1 DEF Cell
    <3>3. (pos' - source' - k') % RING \in Cell
      BY <3>2, ModCell
    <3> HIDE DEF Cell
    <3>4. RING \in 1 .. RING /\ \A d \in Cell : d # 0 => d \in 1 .. RING
      BY DEF Cell
    <3> QED BY <3>3, <3>4 DEF Distance
  <2>5. SW!StartCopy
    BY <1>1, <2>1, <2>3, <2>4 DEF SW!StartCopy
  <2> QED BY <2>5 DEF SW!Next
<1>5. CASE ShortRun \/ LongRun
  <2>1. /\ pc \notin {"copy", "run"} /\ pc' = "run"
        /\ UNCHANGED out
    BY <1>5 DEF ShortRun, LongRun, AtPair, AtToken, writer
  <2>2. Src(i) \in Byte /\ Src(i + 1) \in Byte
    BY <1>0, <1>5, SrcType DEF ShortRun, LongRun, AtPair, TypeOK, n
  <2>3. value' \in Byte /\ count' - k' \in 4 .. BYTE + NIB + 2
    <3>1. CASE ShortRun
      BY <1>0, <2>2, <3>1, PairType DEF ShortRun
    <3>2. CASE LongRun
      <4>1. Src(i + 2) \in Byte
        BY <1>0, <3>2, SrcType DEF LongRun, TypeOK, n
      <4> QED BY <2>2, <3>2, <4>1 DEF LongRun, Byte
    <3> QED BY <1>5, <3>1, <3>2
  <2>4. SW!StartRun
    BY <1>1, <2>1, <2>3 DEF SW!StartRun
  <2> QED BY <2>4 DEF SW!Next
<1>6. ASSUME NextOfPhrase, pc \in {"copy", "run"}
      PROVE  /\ k + 1 = count => pc' = "loop" /\ count - k = 1
             /\ k + 1 # count => /\ pc' = pc /\ count - k # 1
                                 /\ count' - k' = (count - k) - 1
             /\ UNCHANGED <<source, value>>
  BY <1>0, <1>6 DEF NextOfPhrase, TypeOK
<1>7. CASE EmitCopy
  <2>1. pc = "copy" /\ NextOfPhrase
    BY <1>7 DEF EmitCopy
  <2>2. out' = Append(out, SW!Back(Distance))
    BY <1>7, CopyReadsBack DEF EmitCopy, Emit
  <2>3. Distance' = Distance
    BY <1>0, <1>7, DistanceKept DEF EmitCopy, NextOfPhrase
  <2>4. SW!Copy
    <3>1. CASE k + 1 = count
      BY <1>1, <1>6, <2>1, <2>2, <3>1 DEF SW!Copy, SW!Continue
    <3>2. CASE k + 1 # count
      BY <1>1, <1>6, <2>1, <2>2, <2>3, <3>2 DEF SW!Copy, SW!Continue
    <3> QED BY <3>1, <3>2
  <2> QED BY <2>4 DEF SW!Next
<1>8. CASE EmitRun
  <2>1. pc = "run" /\ NextOfPhrase /\ out' = Append(out, value)
    BY <1>8 DEF EmitRun, Emit
  <2>2. SW!Run
    <3>1. CASE k + 1 = count
      BY <1>1, <1>6, <2>1, <3>1 DEF SW!Run, SW!Continue
    <3>2. CASE k + 1 # count
      BY <1>1, <1>6, <2>1, <3>2 DEF SW!Run, SW!Continue
    <3> QED BY <3>1, <3>2
  <2> QED BY <2>2 DEF SW!Next
<1>9. CASE UNCHANGED vars
  BY <1>9 DEF vars, args, reader, writer, phrase, SW!vars, Distance
<1> QED BY <1>2, <1>3, <1>4, <1>5, <1>7, <1>8, <1>9 DEF Next, Step, Done

\* unpack_stream implements the sliding window: whatever the stream and the
\* dialect, its output is what literals, runs and fixed-distance copies over an
\* ever-growing output give, although it keeps only RING bytes of it.
THEOREM DecoderImplementsWindow == Spec => ImplementsWindow
<1>1. Init => WindowInv /\ SW!Init
  BY WindowInvInit, RefineInit
<1>2. WindowInv /\ [Next]_vars => WindowInv' /\ [SW!Next]_(SW!vars)
  BY WindowInvStep, RefineStep
<1> QED BY <1>1, <1>2, PTL DEF Spec, ImplementsWindow, SW!Spec

-----------------------------------------------------------------------------
(* The end of the stream                                                   *)

LEMMA InputReadStep == TypeOK /\ AllInputRead /\ [Next]_vars => AllInputRead'
<1> SUFFICES ASSUME TypeOK, AllInputRead, [Next]_vars, pc' = "done"
             PROVE  n' - i' <= 1
  BY DEF AllInputRead
<1>1. UNCHANGED n /\ i \in Nat /\ n \in Nat
  BY WriterStep DEF args, n, TypeOK
<1>2. CASE LoopExit
  BY <1>1, <1>2 DEF LoopExit, reader
<1>3. CASE CutToken
  BY <1>1, <1>3 DEF CutToken
<1>4. CASE CutLongRun
  BY <1>1, <1>4 DEF CutLongRun
<1>5. CASE pc = "done" /\ UNCHANGED vars
  BY <1>1, <1>5 DEF AllInputRead, vars, reader
<1>6. CASE LoadFlags \/ Literal \/ Reference \/ ShortRun \/ LongRun
  BY <1>6 DEF LoadFlags, Literal, Reference, ShortRun, LongRun
<1>7. CASE EmitCopy \/ EmitRun
  BY <1>7 DEF EmitCopy, EmitRun, NextOfPhrase
<1> QED BY <1>2, <1>3, <1>4, <1>5, <1>6, <1>7 DEF Next, Step, Done, vars

\* Whatever way unpack_stream stops, by its loop condition or by one of its
\* three breaks, it leaves at most one byte of the stream unread.
THEOREM StreamConsumed == Spec => []AllInputRead
<1>1. Init => TypeOK /\ AllInputRead
  BY TypeInit DEF Init, AllInputRead
<1>2. TypeOK /\ AllInputRead /\ [Next]_vars => (TypeOK /\ AllInputRead)'
  BY TypeStep, InputReadStep
<1> QED BY <1>1, <1>2, PTL DEF Spec

-----------------------------------------------------------------------------
(* How far a stream expands                                                *)

\* The bytes the phrase in progress still owes.
Owed == IF pc \in {"copy", "run"} THEN count - k ELSE 0

\* A flag byte pays for FlagBits tokens, and every token pays TokenCost bytes
\* for at most MaxPhrase; the bits still unused are credit.
Credit(j, b, l) ==
  FlagBits * MaxPhrase * j
    - (1 + TokenCost * FlagBits) * l
    - MaxPhrase * b

Paid == Credit(i, bits, Len(out) + Owed) >= 0

\* Credit lost and won by a step is linear in what the step reads and writes.
LEMMA CreditStep ==
  ASSUME NEW W \in Int, NEW V \in Int, NEW M \in Int,
         NEW j \in Int, NEW b \in Int, NEW l \in Int,
         NEW dj \in Int, NEW db \in Int, NEW dl \in Int,
         W * j - V * l - M * b >= 0,
         W * dj - V * dl - M * db >= 0
  PROVE  W * (j + dj) - V * (l + dl) - M * (b + db) >= 0
<1>1. W * (j + dj) = W * j + W * dj
  OBVIOUS
<1>2. V * (l + dl) = V * l + V * dl
  OBVIOUS
<1>3. M * (b + db) = M * b + M * db
  OBVIOUS
<1> QED BY <1>1, <1>2, <1>3

\* What each kind of token earns: reading dj bytes and giving dl for one bit.
LEMMA Prices ==
  ASSUME TypeOK
  PROVE  /\ Credit(1, FlagBits, 0) >= 0
         /\ Credit(0, -1, 0) >= 0
         /\ Credit(2, -1, 0) >= 0
         /\ Credit(1, -1, 1) >= 0
         /\ \A l \in 0 .. NIB + 2 : Credit(2, -1, l) >= 0
         /\ kind = "run" =>
              \A l \in 0 .. BYTE + NIB + 2 : Credit(3, -1, l) >= 0
<1> DEFINE F == FlagBits
           T == TokenCost
           M == MaxPhrase
           V == 1 + T * F
           W == F * M
<1>1. /\ F \in Nat /\ F >= 1 /\ T \in {2, 3} /\ M \in Nat /\ M >= NIB + 2
      /\ NIB \in Nat /\ NIB >= 2
      /\ T = 3 => kind = "run" /\ M = BYTE + NIB + 2 /\ M >= 2 * (NIB + 2)
      /\ T = 2 => kind # "run" /\ M = NIB + 2
  BY GeometryAssumption, Geometry DEF TypeOK, Kinds, TokenCost, MaxPhrase
<1> HIDE DEF F, T, M
<1>2. V \in Nat /\ W \in Nat /\ W >= M /\ W >= F
  BY <1>1
<1>3. V * M = M + T * W
  BY <1>1
<1>4. \A l \in Nat : l <= M => V * l <= V * M
  BY <1>1, <1>2
<1>5. W + M >= V
  BY <1>1, <1>2
<1>6. \A l \in 0 .. NIB + 2 : V * l <= 2 * W + M
  <2>1. CASE T = 2
    BY <1>1, <1>2, <1>3, <1>4, <2>1
  <2>2. CASE T = 3
    <3>1. V * (NIB + 2) = NIB + 2 + 3 * (F * (NIB + 2))
      BY <1>1, <2>2
    <3>2. 2 * (F * (NIB + 2)) <= W
      BY <1>1, <2>2
    <3>3. V * (NIB + 2) <= 2 * W + M
      BY <1>1, <1>2, <2>2, <3>1, <3>2
    <3>4. \A l \in Nat : l <= NIB + 2 => V * l <= V * (NIB + 2)
      BY <1>1, <1>2
    <3> HIDE DEF V, W
    <3> QED BY <1>1, <1>2, <3>3, <3>4
  <2> QED BY <1>1, <2>1, <2>2
<1>7. ASSUME NEW j \in Int, NEW b \in Int, NEW l \in Int
      PROVE  Credit(j, b, l) = W * j - V * l - M * b
  BY DEF Credit, F, T, M
<1> HIDE DEF V, W
<1>8. W * 1 - V * 0 - M * F >= 0
  BY <1>1, <1>2 DEF W
<1>9. kind = "run" => \A l \in 0 .. BYTE + NIB + 2 : V * l <= 3 * W + M
  BY <1>1, <1>2, <1>3, <1>4
<1>10. /\ W * 1 - V * 1 - M * (-1) >= 0
       /\ W * 0 - V * 0 - M * (-1) >= 0
       /\ W * 2 - V * 0 - M * (-1) >= 0
  BY <1>1, <1>2, <1>5
<1>11. /\ Credit(1, FlagBits, 0) >= 0
       /\ Credit(1, -1, 1) >= 0
       /\ Credit(0, -1, 0) >= 0
       /\ Credit(2, -1, 0) >= 0
  BY <1>1, <1>7, <1>8, <1>10 DEF F
<1>12. ASSUME NEW j \in Nat, NEW l \in Nat, V * l <= j * W + M
       PROVE  Credit(j, -1, l) >= 0
  <2>1. Credit(j, -1, l) = W * j - V * l - M * (-1)
    BY <1>7
  <2>2. M * (-1) = -M /\ W * j = j * W /\ V * l \in Int /\ W * j \in Int
    BY <1>1, <1>2
  <2> QED BY <1>1, <1>12, <2>1, <2>2
<1>13. \A l \in 0 .. NIB + 2 : Credit(2, -1, l) >= 0
  BY <1>1, <1>6, <1>12
<1>14. kind = "run" => \A l \in 0 .. BYTE + NIB + 2 : Credit(3, -1, l) >= 0
  BY <1>1, <1>9, <1>12, Geometry
<1> QED BY <1>11, <1>13, <1>14

\* A step that reads dj bytes of the stream, changes the unused bits by db and
\* the bytes given or owed by dl, keeps the credit if it earns its price.
LEMMA PaidStep ==
  ASSUME TypeOK, Paid, UNCHANGED kind,
         NEW dj \in Int, NEW db \in Int, NEW dl \in Int,
         Credit(dj, db, dl) >= 0,
         i' = i + dj, bits' = bits + db,
         Len(out)' + Owed' = Len(out) + Owed + dl
  PROVE  Paid'
<1> DEFINE W == FlagBits * MaxPhrase
           V == 1 + TokenCost * FlagBits
           M == MaxPhrase
           l == Len(out) + Owed
<1>1. /\ W \in Int /\ V \in Int /\ M \in Int /\ l \in Int
      /\ i \in Int /\ bits \in Int
  BY GeometryAssumption, Geometry DEF TypeOK, MaxPhrase, TokenCost, Owed
<1>2. W * i - V * l - M * bits >= 0
  BY DEF Paid, Credit
<1>3. W * dj - V * dl - M * db >= 0
  BY DEF Credit
<1>4. Paid' = (W * (i + dj) - V * (l + dl) - M * (bits + db) >= 0)
  BY DEF Paid, Credit, MaxPhrase, TokenCost
<1> HIDE DEF W, V, M, l
<1> QED BY <1>1, <1>2, <1>3, <1>4, CreditStep

LEMMA PaidInv == TypeOK /\ Paid /\ [Next]_vars => Paid'
<1> SUFFICES ASSUME TypeOK, Paid, [Next]_vars PROVE Paid'
  OBVIOUS
<1> USE GeometryAssumption, Geometry
<1>1. UNCHANGED kind /\ Len(out) \in Nat /\ kind \in Kinds
  BY WriterStep DEF args, TypeOK
<1>2. i \in Int /\ bits \in Int /\ Owed \in Nat
  BY DEF TypeOK, Owed
<1>3. CASE LoopExit \/ UNCHANGED vars
  BY <1>1, <1>3 DEF LoopExit, reader, writer, phrase, vars, Paid, Credit, Owed,
                    MaxPhrase, TokenCost
<1>4. CASE LoadFlags
  <2>1. i' = i + 1 /\ bits' = bits + FlagBits /\ Len(out)' + Owed' = Len(out) + Owed + 0
    BY <1>1, <1>4 DEF LoadFlags, writer, phrase, Owed
  <2> QED BY <1>1, <2>1, Prices, PaidStep
<1>5. CASE Literal
  <2>1. Len(out)' = Len(out) + 1
    BY <1>5 DEF Literal, Emit, TypeOK
  <2>2. i' = i + 1 /\ bits' = bits + -1 /\ Len(out)' + Owed' = Len(out) + Owed + 1
    BY <1>1, <1>2, <1>5, <2>1 DEF Literal, TakeFlag, AtToken, Owed
  <2> QED BY <1>1, <2>2, Prices, PaidStep
<1>6. ASSUME AtPair
      PROVE  /\ bits' = bits + -1 /\ UNCHANGED out /\ Owed = 0
             /\ Src(i) \in Byte /\ Src(i + 1) \in Byte
  BY <1>2, <1>6, SrcType DEF AtPair, AtToken, TakeFlag, Owed, writer, TypeOK, n
<1>7. CASE Reference \/ ShortRun
  <2> DEFINE l == count'
  <2>1. AtPair /\ i' = i + 2 /\ Owed' = l /\ l \in 0 .. NIB + 2
    <3>1. AtPair /\ i' = i + 2 /\ k' = 0 /\ pc' \in {"copy", "run"}
      BY <1>7 DEF Reference, ShortRun
    <3>2. l \in 0 .. NIB + 2
      BY <1>6, <1>7, <3>1, PairType DEF Reference, ShortRun
    <3>3. Owed' = l - 0
      BY <3>1 DEF Owed
    <3> HIDE DEF l
    <3> QED BY <3>1, <3>2, <3>3
  <2>2. Len(out)' + Owed' = Len(out) + Owed + l
    BY <1>1, <1>6, <2>1
  <2>3. Credit(2, -1, l) >= 0
    BY <2>1, Prices
  <2> HIDE DEF l
  <2> QED BY <1>1, <1>6, <2>1, <2>2, <2>3, PaidStep
<1>8. CASE LongRun
  <2> DEFINE l == count'
  <2>1. AtPair /\ i' = i + 3 /\ Owed' = l /\ l \in 0 .. BYTE + NIB + 2
    <3>1. AtPair /\ i' = i + 3 /\ k' = 0 /\ pc' = "run" /\ l = Src(i) + NIB + 3
      BY <1>8 DEF LongRun
    <3>2. l \in 0 .. BYTE + NIB + 2
      BY <1>6, <3>1 DEF Byte
    <3> QED BY <3>1, <3>2 DEF Owed
  <2>2. Len(out)' + Owed' = Len(out) + Owed + l
    BY <1>1, <1>6, <2>1
  <2>3. kind = "run"
    BY <1>8 DEF LongRun, IsEscape
  <2>4. Credit(3, -1, l) >= 0
    BY <2>1, <2>3, Prices
  <2> HIDE DEF l
  <2> QED BY <1>1, <1>6, <2>1, <2>2, <2>4, PaidStep
<1>9. CASE CutToken
  <2>1. i' = i + 0 /\ bits' = bits + -1 /\ Len(out)' + Owed' = Len(out) + Owed + 0
    BY <1>1, <1>2, <1>9 DEF CutToken, TakeFlag, Cut, AtToken, Owed, writer, phrase
  <2> QED BY <1>1, <2>1, Prices, PaidStep
<1>10. CASE CutLongRun
  <2>1. AtPair /\ i' = i + 2 /\ Owed' = 0
    BY <1>10 DEF CutLongRun, Cut, Owed
  <2>2. Len(out)' + Owed' = Len(out) + Owed + 0
    BY <1>1, <1>6, <2>1
  <2>3. Credit(2, -1, 0) >= 0
    BY Prices
  <2>4. i' = i + 2 /\ bits' = bits + -1
    BY <1>6, <2>1
  <2> QED BY <1>1, <2>2, <2>3, <2>4, PaidStep
<1>11. CASE EmitCopy \/ EmitRun
  <2>1. Len(out)' = Len(out) + 1
    BY <1>11 DEF EmitCopy, EmitRun, Emit, TypeOK
  <2>2. NextOfPhrase /\ pc \in {"copy", "run"}
    BY <1>11 DEF EmitCopy, EmitRun
  <2>3. Owed' = Owed - 1
    BY <2>2 DEF NextOfPhrase, Owed, TypeOK
  <2>4. Len(out)' + Owed' = Len(out) + Owed
    BY <1>1, <1>2, <2>1, <2>3
  <2>5. i' = i /\ bits' = bits
    BY <2>2 DEF NextOfPhrase, reader
  <2> QED BY <1>1, <2>4, <2>5 DEF Paid, Credit, MaxPhrase, TokenCost
<1> QED
  BY <1>3, <1>4, <1>5, <1>7, <1>8, <1>9, <1>10, <1>11 DEF Next, Step, Done

LEMMA PaidBounds == TypeOK /\ Paid => ExpansionBound
<1> SUFFICES ASSUME TypeOK, Paid PROVE ExpansionBound
  OBVIOUS
<1> DEFINE V == 1 + TokenCost * FlagBits
           X == FlagBits * MaxPhrase * i
           B == MaxPhrase * bits
<1>1. V \in Nat /\ X \in Int /\ B \in Nat /\ Len(out) \in Nat /\ Owed \in Nat
  BY GeometryAssumption, Geometry DEF TypeOK, MaxPhrase, TokenCost, Owed
<1>2. X - V * (Len(out) + Owed) - B >= 0
  BY DEF Paid, Credit
<1>3. SUFFICES Len(out) * V <= X
  BY DEF ExpansionBound
<1> HIDE DEF V, X, B
<1>4. V * (Len(out) + Owed) = Len(out) * V + V * Owed /\ V * Owed \in Nat
      /\ Len(out) * V \in Nat
  BY <1>1
<1> QED BY <1>1, <1>2, <1>4

\* A stream of i bytes never gives more than FlagBits * MaxPhrase * i bytes for
\* every 1 + TokenCost * FlagBits: 87.68 times its size in the run kind, 8.48
\* times in the plain one, and both are reached.
THEOREM ExpansionBounded == Spec => []ExpansionBound
<1>1. Init => TypeOK /\ Paid
  BY TypeInit, GeometryAssumption, Geometry
  DEF Init, Paid, Credit, Owed, MaxPhrase, TokenCost
<1>2. TypeOK /\ Paid /\ [Next]_vars => (TypeOK /\ Paid)'
  BY TypeStep, PaidInv
<1>3. TypeOK /\ Paid => ExpansionBound
  BY PaidBounds
<1> QED BY <1>1, <1>2, <1>3, PTL DEF Spec

-----------------------------------------------------------------------------
(* The decoder comes to its end                                            *)

\* What is left to do: a byte of the stream can be worth a whole phrase, and a
\* phrase in progress the bytes it still owes.
Left == IF pc = "done" THEN 0 ELSE (n - i) * (MaxPhrase + 1) + Owed + 1

\* A product is no less than what it repeats.
LEMMA Repeated ==
  ASSUME NEW y \in Nat \ {0}, NEW z \in Nat
  PROVE  y * z >= z
<1>1. y - 1 \in Nat
  OBVIOUS
<1>2. \A w \in Nat : w * z \in Nat /\ (w + 1) * z = z + w * z
  OBVIOUS
<1>3. (y - 1) + 1 = y
  OBVIOUS
<1>4. (y - 1) * z \in Nat /\ y * z = z + (y - 1) * z
  BY <1>1, <1>2, <1>3
<1> QED BY <1>4

LEMMA LeftIsNat == TypeOK => Left \in Nat
<1> SUFFICES ASSUME TypeOK PROVE Left \in Nat
  OBVIOUS
<1>1. n \in Nat /\ i \in 0 .. n /\ n - i \in Nat
  BY DEF TypeOK, n
<1>2. MaxPhrase + 1 \in Nat
  BY GeometryAssumption, Geometry DEF MaxPhrase
<1>3. Owed \in Nat
  BY DEF TypeOK, Owed
<1>4. \A x, y \in Nat : x * y \in Nat
  OBVIOUS
<1>5. (n - i) * (MaxPhrase + 1) \in Nat
  BY <1>1, <1>2, <1>4
<1> QED BY <1>3, <1>5 DEF Left

LEMMA LeftShrinks == TypeOK /\ Step => Left' < Left
<1> SUFFICES ASSUME TypeOK, Step PROVE Left' < Left
  OBVIOUS
<1> DEFINE C == MaxPhrase + 1
<1>0. /\ C \in Nat /\ C >= NIB + 3 /\ (kind = "run" => C = BYTE + NIB + 3)
      /\ n \in Nat /\ i \in 0 .. n /\ kind \in Kinds
  BY GeometryAssumption, Geometry DEF MaxPhrase, TypeOK, n
<1>1. src' = src /\ kind' = kind /\ n' = n /\ C' = C
  BY DEF Step, LoopExit, LoadFlags, Literal, Reference, ShortRun, LongRun, CutToken, CutLongRun,
         EmitCopy, EmitRun, AtPair, Cut, NextOfPhrase, args, n, MaxPhrase
<1>2. pc # "done"
  BY DEF Step, LoopExit, LoadFlags, Literal, Reference, ShortRun, LongRun, CutToken, CutLongRun,
         EmitCopy, EmitRun, AtPair, AtToken
<1>3. Owed \in Nat /\ (pc \in {"loop", "token"} => Owed = 0)
  BY DEF TypeOK, Owed
<1> HIDE DEF C
<1>4. \A y \in Nat : (n - i) * C \in Nat /\ (i + y <= n => (n - i) * C = (n - (i + y)) * C + y * C)
  <2>1. \A w, y, z \in Int : w * z \in Int /\ w * z = (w - y) * z + y * z
    OBVIOUS
  <2>2. \A w, z \in Nat : w * z \in Nat
    OBVIOUS
  <2>3. n - i \in Nat /\ \A y \in Nat : n - (i + y) = (n - i) - y
    BY <1>0
  <2> QED BY <1>0, <2>1, <2>2, <2>3
<1>5. Left = (n - i) * C + Owed + 1
  BY <1>2 DEF Left, C
<1>6. CASE LoopExit \/ CutToken \/ CutLongRun
  <2>1. Left' = 0
    BY <1>6 DEF LoopExit, CutToken, CutLongRun, Cut, Left
  <2>2. (n - i) * C \in Nat
    BY <1>4
  <2> QED BY <1>3, <1>5, <2>1, <2>2
\* A token that has a byte read takes as much as it can give.
<1>7. ASSUME pc \in {"loop", "token"}, pc' # "done", NEW y \in Nat \ {0}, i' = i + y, i + y <= n,
             NEW z \in Nat, Owed' = z, z < C
      PROVE  Left' < Left
  <2> DEFINE rest == (n - (i + y)) * C
  <2>1. Left' = rest + z + 1
    BY <1>1, <1>7 DEF Left, C
  <2>2. (n - i) * C = rest + y * C
    BY <1>4, <1>7
  <2>3. y * C >= C
    BY <1>0, Repeated
  <2>4. rest \in Int /\ y * C \in Int /\ C \in Int
    BY <1>0
  <2>5. Left = (rest + y * C) + 0 + 1
    BY <1>3, <1>5, <1>7, <2>2
  <2> HIDE DEF rest
  <2> QED BY <1>7, <2>1, <2>3, <2>4, <2>5
<1>8. CASE LoadFlags \/ Literal
  <2>1. pc \in {"loop", "token"} /\ pc' \in {"loop", "token"} /\ i' = i + 1 /\ i + 1 <= n
    BY <1>0, <1>8 DEF LoadFlags, Literal, AtToken, TypeOK
  <2>2. Owed' = 0 /\ 0 < C /\ 0 \in Nat /\ pc' # "done" /\ 1 \in Nat \ {0}
    BY <1>0, <2>1, GeometryAssumption DEF Owed
  <2> QED BY <1>7, <2>1, <2>2
<1>9. CASE Reference \/ ShortRun \/ LongRun
  <2>1. /\ pc \in {"loop", "token"} /\ pc' \in {"copy", "run"} /\ k' = 0 /\ i + 1 < n
        /\ ~FlagSet
    BY <1>9 DEF Reference, ShortRun, LongRun, AtPair, AtToken
  <2>2. Src(i) \in Byte /\ Src(i + 1) \in Byte
    BY <1>0, <2>1, SrcType
  <2>3. pc' # "done" /\ (count' \in Nat => Owed' = count')
    BY <2>1 DEF Owed
  <2>4. CASE Reference \/ ShortRun
    <3>1. i' = i + 2 /\ i + 2 <= n /\ 2 \in Nat \ {0}
      BY <1>0, <2>1, <2>4 DEF Reference, ShortRun
    <3>2. count' \in Nat /\ count' <= NIB + 2
      BY <2>2, <2>4, PairType, GeometryAssumption DEF Reference, ShortRun
    <3>3. count' < C
      BY <1>0, <3>2, GeometryAssumption
    <3> QED BY <1>7, <2>1, <2>3, <3>1, <3>2, <3>3
  <2>5. CASE LongRun
    <3>1. i' = i + 3 /\ i + 3 <= n /\ 3 \in Nat \ {0} /\ kind = "run" /\ count' = Src(i) + NIB + 3
      BY <1>0, <2>5 DEF LongRun, IsEscape
    <3>2. count' \in Nat /\ count' < C
      BY <1>0, <2>2, <3>1, GeometryAssumption, Geometry DEF Byte
    <3> QED BY <1>7, <2>1, <2>3, <3>1, <3>2
  <2> QED BY <1>9, <2>4, <2>5
<1>10. CASE EmitCopy \/ EmitRun
  <2>1. /\ pc \in {"copy", "run"} /\ i' = i /\ count' = count /\ k' = k + 1
        /\ pc' = (IF k + 1 = count THEN "loop" ELSE pc)
    BY <1>10 DEF EmitCopy, EmitRun, NextOfPhrase, reader
  <2>2. k \in Nat /\ count \in Nat /\ k < count
    BY <2>1 DEF TypeOK
  <2>3. Owed = count - k /\ Owed' = count - (k + 1)
    BY <2>1, <2>2 DEF Owed
  <2>4. Left' = (n - i) * C + Owed' + 1
    BY <1>1, <2>1 DEF Left, C
  <2>5. (n - i) * C \in Nat
    BY <1>4
  <2> QED BY <1>5, <2>2, <2>3, <2>4, <2>5
<1> QED BY <1>6, <1>8, <1>9, <1>10 DEF Step

\* Whatever the stream is, the decoder cannot go on for ever: each of its steps leaves
\* less to do, so that it takes at most n * (MaxPhrase + 1) + 1 of them.
THEOREM StepsRunOut == Spec => [](Left \in Nat) /\ [][Step => Left' < Left]_vars
<1>1. TypeOK => Left \in Nat
  BY LeftIsNat
<1>2. TypeOK /\ [Next]_vars => [Step => Left' < Left]_vars
  BY LeftShrinks
<1> QED BY <1>1, <1>2, TypeInit, TypeStep, PTL DEF Spec

=============================================================================
