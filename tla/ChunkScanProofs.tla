--------------------------- MODULE ChunkScanProofs ---------------------------
(***************************************************************************)
(* What TLAPS proves of the orphan block scan, for every image, container, *)
(* chunk, carried tail and step: what is reported is a block of the image  *)
(* that the index does not point at; whatever fits in the carried tail is  *)
(* reported if the step divides chunk and tail; and every step leaves less *)
(* to do.                                                                  *)
(***************************************************************************)
EXTENDS ChunkScan, TLAPS

\* x is as far as a whole number of steps goes.
Stepped(x) == \E q \in Int : x = q * STEP

\* The window is where the code takes it to be.  Unless it starts with the container
\* it reaches back far enough to hold what the chunk boundary at pos would cut.
FrameInv ==
  /\ pc # "scan" => pos = hi
  /\ pc = "read" => lo = 0 \/ hi - lo >= OVER \/ hi = image.avail
  /\ pc = "scan" => base = lo /\ lo <= pos /\ pos < hi
  /\ pc = "scan" => lo = 0 \/ pos - lo >= OVER

\* If the step fits, every window starts and ends at a place that is tried.
PlacesInv ==
  StepFits =>
    /\ pc = "read" => hi = image.avail \/ (Stepped(lo) /\ Stepped(hi))
    /\ pc = "scan" => hi = image.avail \/ Stepped(hi)
    /\ pc = "scan" => Stepped(lo) /\ Stepped(off)

\* The blocks the sweep should have found by now.
Due(a) ==
  /\ StepFits
  /\ a \in 0 .. image.avail - 1
  /\ Orphan(a) /\ Stepped(a)
  /\ End(a) - a <= OVER /\ End(a) <= image.avail
  /\ End(a) <= pos \/ (pc = "scan" /\ End(a) <= hi /\ a < lo + off)

Found(a) == \E x \in 1 .. Len(found) : found[x] = a

SeenInv ==
  /\ \A a : a \in seen <=> Found(a)
  /\ FoundAreOrphans
  /\ \A a : Due(a) => a \in seen

DoneInv == pc = "done" /\ stopped = -1 => pos >= size \/ hi = image.avail

ScanInv == TypeOK /\ FrameInv /\ PlacesInv /\ SeenInv /\ DoneInv

-----------------------------------------------------------------------------
(* Steps                                                                   *)

LEMMA Constants ==
  /\ CH \in Nat /\ CH > 0 /\ OVER \in Nat /\ OVER > 0 /\ OVER <= CH
  /\ STEP \in Nat /\ STEP > 0 /\ HEADER \in Nat /\ HEADER > 0
BY WindowAssumption

LEMMA SteppedSum ==
  ASSUME NEW x \in Int, NEW y \in Int, Stepped(x), Stepped(y)
  PROVE  Stepped(x + y) /\ Stepped(x - y)
<1>1. PICK q \in Int : x = q * STEP
  BY DEF Stepped
<1>2. PICK r \in Int : y = r * STEP
  BY DEF Stepped
<1>3. x + y = (q + r) * STEP /\ x - y = (q - r) * STEP
  BY <1>1, <1>2, Constants
<1> QED BY <1>3 DEF Stepped

LEMMA SteppedMod ==
  ASSUME NEW x \in Nat, x % STEP = 0
  PROVE  Stepped(x)
<1>1. x = (x \div STEP) * STEP + (x % STEP) /\ x \div STEP \in Int
  BY Constants
<1> QED BY <1>1, Constants DEF Stepped

LEMMA SteppedConstants ==
  /\ Stepped(0) /\ Stepped(STEP)
  /\ StepFits => Stepped(CH) /\ Stepped(OVER)
<1>1. 0 = 0 * STEP /\ STEP = 1 * STEP
  BY Constants
<1>2. Stepped(0) /\ Stepped(STEP)
  BY <1>1 DEF Stepped
<1> QED BY <1>2, SteppedMod, Constants DEF StepFits

\* Between two places that are tried there is none.
LEMMA SteppedNext ==
  ASSUME NEW x \in Int, NEW y \in Int, Stepped(x), Stepped(y), x <= y, y < x + STEP
  PROVE  x = y
<1>1. PICK q \in Int : x = q * STEP
  BY DEF Stepped
<1>2. PICK r \in Int : y = r * STEP
  BY DEF Stepped
<1>3. r - q \in Int /\ y - x = (r - q) * STEP
  BY <1>1, <1>2, Constants
<1>4. ASSUME NEW d \in Int, d * STEP >= 0, d * STEP < STEP
      PROVE  d = 0
  BY <1>4, Constants
<1>5. r - q = 0
  BY <1>3, <1>4, Constants
<1> QED BY <1>3, <1>5, Constants

-----------------------------------------------------------------------------
(* Types and the window                                                    *)

LEMMA FrozenStep ==
  ASSUME [Next]_vars
  PROVE  UNCHANGED <<image, size>>
BY DEF Next, Step, Done, vars, Finish, Abandon, EndOfImage, ReadChunk, Hit, Miss, Carry

\* Appending one more to what was found.
LEMMA FoundMore ==
  ASSUME NEW s, NEW n, s \in Seq(Nat), n \in Nat
  PROVE  /\ Append(s, n) \in Seq(Nat)
         /\ Len(Append(s, n)) = Len(s) + 1
         /\ \A x \in 1 .. Len(s) : Append(s, n)[x] = s[x]
         /\ Append(s, n)[Len(s) + 1] = n
OBVIOUS

LEMMA ScanTypeInit == Init => TypeOK /\ FrameInv /\ PlacesInv
<1> SUFFICES ASSUME Init PROVE TypeOK /\ FrameInv /\ PlacesInv
  OBVIOUS
<1>1. image.avail \in Nat /\ image.packed \in [0 .. image.avail - 1 -> Nat] /\ size \in Nat
  BY ImageAssumption DEF Init
<1> QED BY <1>1, SteppedConstants DEF Init, TypeOK, FrameInv, PlacesInv

LEMMA ScanTypeStep == TypeOK /\ FrameInv /\ [Next]_vars => TypeOK'
<1> SUFFICES ASSUME TypeOK, FrameInv, [Next]_vars PROVE TypeOK'
  OBVIOUS
<1>0. UNCHANGED <<image, size>>
  BY FrozenStep
<1>1. CASE Finish \/ Abandon \/ EndOfImage \/ UNCHANGED vars
  BY <1>0, <1>1 DEF TypeOK, Finish, Abandon, EndOfImage, vars
<1>2. CASE ReadChunk
  <2>1. pos - (hi - lo) = lo
    BY <1>2 DEF TypeOK, FrameInv, ReadChunk
  <2> QED BY <1>0, <1>2, <2>1, Constants DEF TypeOK, ReadChunk
<1>3. CASE Hit
  <2>1. base + off \in Nat /\ off + STEP \in Nat
    BY Constants DEF TypeOK
  <2> QED BY <1>0, <1>3, <2>1, FoundMore DEF TypeOK, Hit
<1>4. CASE Miss
  BY <1>0, <1>4, Constants DEF TypeOK, Miss
<1>5. CASE Carry
  BY <1>0, <1>5, Constants DEF TypeOK, Carry
<1> QED BY <1>1, <1>2, <1>3, <1>4, <1>5 DEF Next, Step, Done

LEMMA FrameStep == TypeOK /\ FrameInv /\ [Next]_vars => FrameInv'
<1> SUFFICES ASSUME TypeOK, FrameInv, [Next]_vars PROVE FrameInv'
  OBVIOUS
<1>0. UNCHANGED <<image, size>>
  BY FrozenStep
<1>1. CASE Finish \/ Abandon \/ EndOfImage \/ UNCHANGED vars
  BY <1>0, <1>1 DEF FrameInv, Finish, Abandon, EndOfImage, vars
<1>2. CASE ReadChunk
  <2>1. pos - (hi - lo) = lo /\ (lo = 0 \/ pos - lo >= OVER)
    BY <1>2, Constants DEF TypeOK, FrameInv, ReadChunk
  <2>2. lo' = lo /\ pos' = pos /\ pos = hi /\ hi < hi' /\ base' = lo /\ pc' = "scan"
    BY <1>2, <2>1, Constants DEF TypeOK, FrameInv, ReadChunk
  <2>3. lo <= pos /\ pos' < hi'
    BY <2>2 DEF TypeOK
  <2> QED BY <1>0, <2>1, <2>2, <2>3 DEF FrameInv
<1>3. CASE Hit \/ Miss
  <2>1. UNCHANGED <<lo, hi, pos, base, pc>> /\ pc = "scan"
    BY <1>3 DEF Hit, Miss
  <2> QED BY <1>0, <2>1 DEF FrameInv
<1>4. CASE Carry
  <2>1. pos' = hi /\ hi' = hi /\ pc' = "read" /\ pc = "scan"
    BY <1>4 DEF TypeOK, FrameInv, Carry
  <2>2. lo' = 0 \/ hi - lo' >= OVER \/ hi = image.avail
    BY <1>4, <2>1, Constants DEF TypeOK, FrameInv, Carry
  <2> QED BY <1>0, <2>1, <2>2 DEF FrameInv
<1> QED BY <1>1, <1>2, <1>3, <1>4 DEF Next, Step, Done

LEMMA PlacesStep == TypeOK /\ PlacesInv /\ [Next]_vars => PlacesInv'
<1> SUFFICES ASSUME TypeOK, PlacesInv, [Next]_vars, StepFits PROVE PlacesInv'
  BY DEF PlacesInv, StepFits
<1>0. UNCHANGED <<image, size>>
  BY FrozenStep
<1>1. CASE Finish \/ Abandon \/ EndOfImage \/ UNCHANGED vars
  BY <1>0, <1>1 DEF PlacesInv, Finish, Abandon, EndOfImage, vars, Stepped
<1>2. CASE ReadChunk
  <2>1. Stepped(lo) /\ Stepped(hi)
    BY <1>2 DEF TypeOK, PlacesInv, ReadChunk
  <2>2. Stepped(hi + CH)
    <3>1. hi \in Int /\ CH \in Int
      BY Constants DEF TypeOK
    <3> QED BY <2>1, <3>1, SteppedSum, SteppedConstants
  <2>3. lo' = lo /\ off' = 0 /\ pc' = "scan" /\ (hi' = image.avail \/ hi' = hi + CH)
    BY <1>2 DEF ReadChunk
  <2>4. Stepped(off') /\ Stepped(lo') /\ (hi' = image.avail \/ Stepped(hi'))
    BY <2>1, <2>2, <2>3, SteppedConstants
  <2> QED BY <1>0, <2>3, <2>4 DEF PlacesInv, Stepped
<1>3. CASE Hit \/ Miss
  <2>1. off' = off + STEP /\ UNCHANGED <<lo, hi, pc>> /\ pc = "scan"
    BY <1>3 DEF Hit, Miss
  <2>2. Stepped(off + STEP)
    BY <2>1, SteppedSum, SteppedConstants, Constants DEF TypeOK, PlacesInv
  <2>3. Stepped(off') /\ (Stepped(lo)' <=> Stepped(lo)) /\ (Stepped(hi)' <=> Stepped(hi))
    BY <2>1, <2>2 DEF Stepped
  <2> QED BY <1>0, <2>1, <2>3 DEF PlacesInv, Stepped
<1>4. CASE Carry
  <2>1. hi' = hi /\ pc' = "read" /\ pc = "scan" /\ (lo' = lo \/ lo' = hi - OVER)
    BY <1>4 DEF Carry
  <2>2. ASSUME hi # image.avail
        PROVE  Stepped(hi) /\ Stepped(lo')
    <3>1. Stepped(hi) /\ Stepped(lo)
      BY <2>1, <2>2 DEF PlacesInv
    <3>2. hi \in Int /\ OVER \in Int /\ Stepped(OVER)
      BY SteppedConstants, Constants DEF TypeOK
    <3>3. Stepped(hi - OVER)
      BY <3>1, <3>2, SteppedSum
    <3> QED BY <2>1, <3>1, <3>3
  <2> QED BY <1>0, <2>1, <2>2 DEF PlacesInv, Stepped
<1> QED BY <1>1, <1>2, <1>3, <1>4 DEF Next, Step, Done

-----------------------------------------------------------------------------
(* What is found                                                           *)

LEMMA SameBlocks ==
  ASSUME [Next]_vars
  PROVE  \A x : Orphan(x)' = Orphan(x) /\ End(x)' = End(x)
BY FrozenStep DEF Orphan, End

LEMMA ScanSeenInit == Init => SeenInv
<1> SUFFICES ASSUME Init PROVE SeenInv
  OBVIOUS
<1>1. seen = {} /\ Len(found) = 0 /\ pos = 0 /\ pc = "read" /\ image.avail \in Nat
      /\ image.packed \in [0 .. image.avail - 1 -> Nat]
  BY ImageAssumption DEF Init
<1>2. \A y : ~Due(y)
  <2> SUFFICES ASSUME NEW y, Due(y) PROVE FALSE
    OBVIOUS
  <2>1. y \in Nat /\ image.packed[y] \in Nat /\ y + HEADER + image.packed[y] <= 0
    BY <1>1 DEF Due, End
  <2> QED BY <2>1, Constants
<1> QED BY <1>1, <1>2 DEF SeenInv, FoundAreOrphans, Found

\* Nothing new is found and nothing new is due.
LEMMA SeenKept ==
  ASSUME [Next]_vars, SeenInv, UNCHANGED <<seen, found>>, \A y : Due(y)' => Due(y)
  PROVE  SeenInv'
<1>1. image' = image /\ \A y : Orphan(y)' = Orphan(y) /\ End(y)' = End(y)
  BY FrozenStep, SameBlocks
<1>2. FoundAreOrphans'
  BY <1>1 DEF SeenInv, FoundAreOrphans
<1>3. \A y : Found(y)' <=> Found(y)
  BY DEF Found
<1> QED BY <1>2, <1>3 DEF SeenInv

\* A block that the boundary at pos cuts starts in the window.
LEMMA NotCut ==
  ASSUME TypeOK, FrameInv, pc = "scan", NEW y \in Nat,
         End(y) \in Nat, End(y) - y <= OVER, End(y) > pos
  PROVE  y >= lo
BY Constants DEF TypeOK, FrameInv

LEMMA SeenStep == TypeOK /\ FrameInv /\ PlacesInv /\ SeenInv /\ [Next]_vars => SeenInv'
<1> SUFFICES ASSUME TypeOK, FrameInv, PlacesInv, SeenInv, [Next]_vars PROVE SeenInv'
  OBVIOUS
<1>0. /\ image' = image /\ size' = size
      /\ \A y : Orphan(y)' = Orphan(y) /\ End(y)' = End(y)
  BY FrozenStep, SameBlocks
<1>a. \A y \in 0 .. image.avail - 1 :
        /\ image.packed[y] \in Nat /\ y \in Nat
        /\ End(y) = y + HEADER + image.packed[y] /\ End(y) \in Nat
  BY Constants DEF TypeOK, End
<1>1. CASE Finish \/ Abandon \/ EndOfImage \/ UNCHANGED vars
  <2>1. /\ UNCHANGED <<pos, hi, lo, off, seen, found>>
        /\ pc' = "scan" => pc = "scan"
    BY <1>1 DEF Finish, Abandon, EndOfImage, vars
  <2>2. \A y : Due(y)' => Due(y)
    BY <1>0, <2>1 DEF Due, Stepped, StepFits
  <2> QED BY <2>1, <2>2, SeenKept
<1>2. CASE ReadChunk
  <2>1. UNCHANGED <<lo, pos, seen, found>> /\ off' = 0 /\ pc = "read" /\ hi < image.avail
        /\ pos = hi
    BY <1>2 DEF ReadChunk, FrameInv, TypeOK
  <2>2. ASSUME NEW y, Due(y)' PROVE Due(y)
    <3>1. /\ y \in 0 .. image.avail - 1 /\ Orphan(y) /\ Stepped(y) /\ StepFits
          /\ End(y) - y <= OVER /\ End(y) <= image.avail
          /\ End(y) <= pos \/ y < lo + 0
      BY <1>0, <2>1, <2>2 DEF Due, Stepped, StepFits
    <3>2. End(y) <= pos
      BY <1>a, <2>1, <3>1, Constants DEF TypeOK, FrameInv
    <3> QED BY <3>1, <3>2 DEF Due
  <2> QED BY <2>1, <2>2, SeenKept
<1>3. CASE Carry
  <2>1. UNCHANGED <<hi, seen, found>> /\ pc' = "read" /\ pc = "scan" /\ pos' = hi
        /\ off >= (hi - lo) - HEADER
    BY <1>3, Constants DEF Carry, FrameInv, TypeOK, InWindow
  <2>2. ASSUME NEW y, Due(y)' PROVE Due(y)
    <3>1. /\ y \in 0 .. image.avail - 1 /\ Orphan(y) /\ Stepped(y) /\ StepFits
          /\ End(y) - y <= OVER /\ End(y) <= image.avail /\ End(y) <= hi
      BY <1>0, <2>1, <2>2 DEF Due, Stepped, StepFits
    <3>2. image.packed[y] > 0
      BY <3>1 DEF Orphan
    <3>3. y < lo + off
      BY <1>a, <2>1, <3>1, <3>2, Constants DEF TypeOK
    <3> QED BY <2>1, <3>1, <3>3 DEF Due
  <2> QED BY <2>1, <2>2, SeenKept
<1>4. CASE Miss \/ Hit
  <2>1. /\ UNCHANGED <<lo, hi, pos, base, pc>> /\ pc = "scan" /\ base = lo
        /\ off' = off + STEP /\ InWindow
    BY <1>4 DEF Miss, Hit, FrameInv
  \* What becomes due is the block at the offset tried.
  <2>2. ASSUME NEW y, Due(y)' PROVE Due(y) \/ (y = lo + off /\ Wanted /\ Decodes)
    <3>1. /\ y \in 0 .. image.avail - 1 /\ Orphan(y) /\ Stepped(y) /\ StepFits
          /\ End(y) - y <= OVER /\ End(y) <= image.avail
          /\ End(y) <= pos \/ (End(y) <= hi /\ y < lo + (off + STEP))
      BY <1>0, <2>1, <2>2 DEF Due, Stepped, StepFits
    <3>2. CASE End(y) <= pos \/ y < lo + off
      BY <2>1, <3>1, <3>2, <1>a, Constants DEF Due, TypeOK, FrameInv
    <3>3. CASE ~(End(y) <= pos) /\ ~(y < lo + off)
      <4>1. Stepped(lo + off)
        <5>1. lo \in Int /\ off \in Int /\ Stepped(lo) /\ Stepped(off)
          BY <2>1, <3>1 DEF TypeOK, PlacesInv
        <5> QED BY <5>1, SteppedSum
      <4>2. y \in Int /\ lo + off \in Int /\ lo + off <= y /\ y < (lo + off) + STEP
        BY <3>1, <3>3, Constants DEF TypeOK
      <4>3. y = lo + off
        BY <3>1, <4>1, <4>2, SteppedNext
      <4>4. Wanted
        BY <2>1, <3>1, <4>3 DEF Orphan, Wanted
      <4>5. Decodes
        <5>1. /\ image.packed[lo + off] > 0 /\ image.packed[lo + off] \in Nat
              /\ (lo + off) + HEADER + image.packed[lo + off] <= hi
          BY <1>a, <3>1, <3>3, <4>3 DEF Orphan
        <5>2. lo \in Nat /\ off \in Nat /\ hi \in Nat
          BY DEF TypeOK
        <5> QED BY <5>1, <5>2, Constants DEF Decodes
      <4> QED BY <4>3, <4>4, <4>5
    <3> QED BY <3>2, <3>3
  <2>3. CASE Miss
    <3>1. UNCHANGED <<seen, found>>
      BY <2>3 DEF Miss
    <3>2. \A y : Due(y)' => y \in seen
      BY <2>1, <2>2, <2>3 DEF Miss, SeenInv
    <3>3. FoundAreOrphans'
      BY <1>0, <3>1 DEF SeenInv, FoundAreOrphans
    <3>4. \A y : Found(y)' <=> Found(y)
      BY <3>1 DEF Found
    <3> QED BY <3>1, <3>2, <3>3, <3>4 DEF SeenInv
  <2>4. CASE Hit
    <3> DEFINE n == lo + off
    <3>1. /\ seen' = seen \cup {n} /\ found' = Append(found, n) /\ n \notin seen
          /\ Wanted /\ Decodes /\ n \in Nat /\ found \in Seq(Nat)
      BY <2>1, <2>4 DEF Hit, TypeOK
    <3>2. /\ n \in 0 .. image.avail - 1 /\ Orphan(n) /\ End(n) <= image.avail
      <4>1. n \in 0 .. image.avail - 1
        BY <2>1, Constants DEF InWindow, TypeOK
      <4>2. image.packed[n] > 0 /\ off + HEADER + image.packed[n] <= hi - lo
        BY <3>1 DEF Decodes
      <4>3. n \notin image.known /\ n % ALIGN = 0
        BY <2>1, <3>1 DEF Wanted
      <4>4. End(n) <= image.avail
        BY <1>a, <4>1, <4>2, Constants DEF TypeOK
      <4> QED BY <4>1, <4>2, <4>3, <4>4 DEF Orphan
    <3> HIDE DEF n
    <3>3. /\ Len(found') = Len(found) + 1 /\ Len(found) \in Nat
          /\ \A x \in 1 .. Len(found) : found'[x] = found[x]
          /\ found'[Len(found) + 1] = n
      BY <3>1, FoundMore
    <3>4. \A y : Found(y)' <=> Found(y) \/ y = n
      BY <3>3 DEF Found
    <3>5. \A x \in 1 .. Len(found) : found[x] # n
      BY <3>1 DEF SeenInv, Found
    <3>6. FoundAreOrphans'
      <4>1. ASSUME NEW x \in 1 .. Len(found')
            PROVE  /\ found'[x] \in 0 .. image.avail - 1 /\ Orphan(found'[x])
                   /\ End(found'[x]) <= image.avail
        BY <3>2, <3>3, <4>1 DEF SeenInv, FoundAreOrphans
      <4>2. ASSUME NEW x \in 1 .. Len(found'), NEW y \in 1 .. Len(found'),
                   found'[x] = found'[y]
            PROVE  x = y
        BY <3>3, <3>5, <4>2 DEF SeenInv, FoundAreOrphans
      <4> QED BY <1>0, <4>1, <4>2 DEF FoundAreOrphans
    <3>7. \A y : Due(y)' => y \in seen'
      BY <2>2, <3>1 DEF SeenInv, n
    <3>8. \A y : y \in seen' <=> Found(y)'
      BY <3>1, <3>4 DEF SeenInv
    <3> QED BY <3>6, <3>7, <3>8 DEF SeenInv
  <2> QED BY <1>4, <2>3, <2>4
<1> QED BY <1>1, <1>2, <1>3, <1>4 DEF Next, Step, Done

-----------------------------------------------------------------------------
(* Theorems                                                                *)

LEMMA DoneStep == TypeOK /\ FrameInv /\ DoneInv /\ [Next]_vars => DoneInv'
BY FrozenStep DEF TypeOK, FrameInv, DoneInv, Next, Step, Done, vars, Finish, Abandon, EndOfImage,
                  ReadChunk, Hit, Miss, Carry

LEMMA ScanInvariant == Spec => []ScanInv
<1>1. Init => ScanInv
  BY ScanTypeInit, ScanSeenInit DEF Init, ScanInv, DoneInv
<1>2. ScanInv /\ [Next]_vars => ScanInv'
  BY ScanTypeStep, FrameStep, PlacesStep, SeenStep, DoneStep DEF ScanInv
<1> QED BY <1>1, <1>2, PTL DEF Spec

\* What is reported as swept is what has been read, however the last chunk and
\* the carried tail fall.
THEOREM SweptIsWhatWasRead == Spec => []SweptIsRead
<1>1. ScanInv => SweptIsRead
  BY DEF ScanInv, FrameInv, SweptIsRead
<1> QED BY <1>1, ScanInvariant, PTL

\* Every block reported is one, is not in the index, stands at the address
\* given and is reported once.
THEOREM FoundAreReal == Spec => []FoundAreOrphans
<1>1. ScanInv => FoundAreOrphans
  BY DEF ScanInv, SeenInv
<1> QED BY <1>1, ScanInvariant, PTL

\* No chunk boundary hides a block that is no longer than the carried tail, if the
\* step divides chunk and tail.
THEOREM NoOrphanIsMissed == Spec => []OrphansAreFound
<1>1. ASSUME ScanInv PROVE OrphansAreFound
  <2> SUFFICES ASSUME pc = "done", stopped = -1, StepFits, NEW y \in 0 .. image.avail - 1,
                      Orphan(y), y % STEP = 0, End(y) - y <= OVER,
                      End(y) <= size, End(y) <= image.avail
               PROVE  Found(y)
    BY DEF OrphansAreFound, Found
  <2>1. TypeOK /\ FrameInv /\ SeenInv /\ DoneInv
    BY <1>1 DEF ScanInv
  <2>2. Stepped(y) /\ End(y) \in Nat
    <3>1. y \in Nat /\ image.packed[y] \in Nat
      BY <2>1 DEF TypeOK
    <3>2. End(y) \in Nat
      BY <3>1, Constants DEF End
    <3> QED BY <3>1, <3>2, SteppedMod
  <2>3. End(y) <= pos
    BY <2>1, <2>2 DEF TypeOK, FrameInv, DoneInv
  <2>4. Due(y)
    BY <2>2, <2>3 DEF Due
  <2> QED BY <2>1, <2>4 DEF SeenInv
<1> QED BY <1>1, ScanInvariant, PTL

-----------------------------------------------------------------------------
(* The sweep comes to its end                                              *)

\* No window takes as many steps as this.
Window == image.avail + 2

\* Bytes of the window that are not reached yet.
Ahead == IF off < hi - lo THEN (hi - lo) - off ELSE 0

\* What is left to do: a window for every byte not read, and the rest of the one
\* being searched.
Left ==
  CASE pc = "read" -> (image.avail - hi) * Window + 1
    [] pc = "scan" -> (image.avail - hi) * Window + (Ahead + 2)
    [] OTHER       -> 0

\* The state as far as the measure looks at it.
LEMMA Remaining ==
  ASSUME TypeOK
  PROVE  /\ image.avail \in Nat /\ lo \in Nat /\ hi \in Nat /\ off \in Nat /\ lo <= hi
         /\ image.avail - hi \in Nat
         /\ Window \in Nat
         /\ Ahead \in Nat /\ Ahead <= image.avail
         /\ (image.avail - hi) * Window \in Nat
<1>1. image.avail \in Nat /\ lo \in Nat /\ hi \in Nat /\ off \in Nat /\ lo <= hi /\ hi <= image.avail
  BY DEF TypeOK
<1>2. image.avail - hi \in Nat /\ Window \in Nat
  BY <1>1 DEF Window
<1>3. \A x, y \in Nat : x * y \in Nat
  OBVIOUS
<1>4. Ahead \in Nat /\ Ahead <= image.avail
  BY <1>1 DEF Ahead
<1> QED BY <1>1, <1>2, <1>3, <1>4

LEMMA LeftIsNat == TypeOK => Left \in Nat
<1> SUFFICES ASSUME TypeOK PROVE Left \in Nat
  OBVIOUS
<1>1. CASE pc = "read"
  BY <1>1, Remaining DEF Left
<1>2. CASE pc = "scan"
  BY <1>2, Remaining DEF Left
<1>3. CASE pc = "done"
  BY <1>3 DEF Left
<1> QED BY <1>1, <1>2, <1>3 DEF TypeOK

\* Steps within a window.
LEMMA AheadShrinks ==
  ASSUME TypeOK, Hit \/ Miss
  PROVE  Left' < Left
<1>1. /\ pc = "scan" /\ pc' = "scan" /\ image' = image /\ lo' = lo /\ hi' = hi
      /\ off' = off + STEP /\ off < (hi - lo) - HEADER
  BY DEF Hit, Miss, InWindow
<1>2. Ahead' < Ahead /\ Ahead' \in Nat
  <2>1. Ahead' = IF off + STEP < hi - lo THEN (hi - lo) - (off + STEP) ELSE 0
    BY <1>1 DEF Ahead
  <2> QED BY <1>1, <2>1, Remaining, Constants DEF Ahead
<1>3. /\ Left = (image.avail - hi) * Window + (Ahead + 2)
      /\ Left' = (image.avail - hi) * Window + (Ahead' + 2)
  BY <1>1 DEF Left, Window
<1>4. \A x, y, z \in Nat : x < y => z + (x + 2) < z + (y + 2)
  OBVIOUS
<1> QED BY <1>2, <1>3, <1>4, Remaining

\* A chunk that is read makes more of the image known than its window can take.
LEMMA ReadingShrinks ==
  ASSUME TypeOK, ReadChunk
  PROVE  Left' < Left
<1>1. /\ pc = "read" /\ pc' = "scan" /\ image' = image /\ lo' = lo /\ hi < image.avail
      /\ hi' = (IF hi + CH <= image.avail THEN hi + CH ELSE image.avail) /\ off' = 0
  BY DEF ReadChunk
<1>2. PICK next \in Nat : hi' = next /\ hi < next /\ next <= image.avail
  BY <1>1, Remaining, Constants
<1>3. Left = (image.avail - hi) * Window + 1
  BY <1>1 DEF Left
<1>4. PICK more \in Nat : /\ more <= image.avail
                          /\ Left' = (image.avail - next) * Window + (more + 2)
  <2>1. Ahead' \in Nat /\ Ahead' <= image.avail
    <3>1. Ahead' = IF 0 < next - lo THEN (next - lo) - 0 ELSE 0
      BY <1>1, <1>2 DEF Ahead
    <3> QED BY <1>2, <3>1, Remaining
  <2>2. Left' = (image.avail - next) * Window + (Ahead' + 2)
    BY <1>1, <1>2 DEF Left, Window
  <2> QED BY <2>1, <2>2
<1>5. (image.avail - next) * Window + Window <= (image.avail - hi) * Window
  <2>1. \A u, v, w \in Nat : (u + v + 1) * w = (u * w + w) + v * w /\ u * w \in Nat /\ v * w \in Nat
    OBVIOUS
  <2>2. /\ image.avail - next \in Nat /\ (next - hi) - 1 \in Nat
        /\ image.avail - hi = (image.avail - next) + ((next - hi) - 1) + 1
    BY <1>2, Remaining
  <2>3. \A x, y \in Nat : x <= x + y
    OBVIOUS
  <2>4. /\ (image.avail - hi) * Window
             = ((image.avail - next) * Window + Window) + ((next - hi) - 1) * Window
        /\ (image.avail - next) * Window \in Nat /\ ((next - hi) - 1) * Window \in Nat
    BY <2>1, <2>2, Remaining
  <2> QED BY <2>3, <2>4, Remaining
<1>6. (image.avail - next) * Window \in Nat
  <2>1. \A v, w \in Nat : v * w \in Nat
    OBVIOUS
  <2> QED BY <1>2, <2>1, Remaining
<1>7. Window = image.avail + 2
  BY DEF Window
<1> QED BY <1>3, <1>4, <1>5, <1>6, <1>7, Remaining

LEMMA LeftShrinks == TypeOK /\ Step => Left' < Left
<1> SUFFICES ASSUME TypeOK, Step PROVE Left' < Left
  OBVIOUS
<1>1. CASE Finish \/ Abandon \/ EndOfImage
  <2>1. pc = "read" /\ Left' = 0
    BY <1>1 DEF Finish, Abandon, EndOfImage, Left
  <2> QED BY <2>1, Remaining DEF Left
<1>2. CASE ReadChunk
  BY <1>2, ReadingShrinks
<1>3. CASE Hit \/ Miss
  BY <1>3, AheadShrinks
<1>4. CASE Carry
  <2>1. pc = "scan" /\ pc' = "read" /\ image' = image /\ hi' = hi
    BY <1>4 DEF Carry
  <2>2. /\ Left = (image.avail - hi) * Window + (Ahead + 2)
        /\ Left' = (image.avail - hi) * Window + 1
    BY <2>1 DEF Left, Window
  <2> QED BY <2>2, Remaining
<1> QED BY <1>1, <1>2, <1>3, <1>4 DEF Step

\* The sweep cannot go on for ever: each of its steps leaves less to do, although the
\* carried bytes are searched twice and however long the time it is given.
THEOREM StepsRunOut == Spec => [](Left \in Nat) /\ [][Step => Left' < Left]_vars
<1>1. ScanInv => Left \in Nat
  BY LeftIsNat DEF ScanInv
<1>2. ScanInv /\ [Next]_vars => [Step => Left' < Left]_vars
  BY LeftShrinks DEF ScanInv
<1> QED BY <1>1, <1>2, ScanInvariant, PTL DEF Spec

==============================================================================
